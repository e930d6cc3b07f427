SPECIFICATION ListSpec
CONSTANTS
    MaxSeqNo = 11
    SeqNoTH = 5
    ListSize = 4
    WindowLimit = 4
    DropsAcross = FALSE
INVARIANTS
    WindowArithmetic
    ListTypeOK
    ListsAreSets
    SlotsFollowNumbers
