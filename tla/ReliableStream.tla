--------------------------- MODULE ReliableStream ---------------------------
(***************************************************************************)
(* What a UDT stream promises to the two applications, without sequence    *)
(* numbers, packets or acknowledgements: a pipe with a sending end, which  *)
(* keeps what it may have to send again, and a receiving end, which takes  *)
(* charge of a growing prefix of the stream and hands it out in order.     *)
(*                                                                         *)
(* The packets of the stream are numbered 0, 1, 2, ...                     *)
(***************************************************************************)
EXTENDS Integers, Sequences

VARIABLES
    written,     \* packets put in by the sending application
    accepted,    \* prefix of the stream the receiving end is in charge of
    freed,       \* prefix of the stream the sending end has forgotten
    delivered    \* what the receiving application has read

vars == <<written, accepted, freed, delivered>>

Init ==
    /\ written = 0
    /\ accepted = 0
    /\ freed = 0
    /\ delivered = <<>>

Write ==
    /\ written' \in Nat /\ written' > written
    /\ UNCHANGED <<accepted, freed, delivered>>

\* The receiving end may only take charge of what was written, and for good.
Accept ==
    /\ accepted' \in Nat /\ accepted' > accepted /\ accepted' =< written
    /\ UNCHANGED <<written, freed, delivered>>

\* The sending end may only forget what the receiving end is in charge of.
Free ==
    /\ freed' \in Nat /\ freed' > freed /\ freed' =< accepted
    /\ UNCHANGED <<written, accepted, delivered>>

\* The application reads the next packet of the accepted prefix.
Read ==
    /\ Len(delivered) < accepted
    /\ delivered' = Append(delivered, Len(delivered))
    /\ UNCHANGED <<written, accepted, freed>>

Next == Write \/ Accept \/ Free \/ Read

Spec == Init /\ [][Next]_vars
=============================================================================
