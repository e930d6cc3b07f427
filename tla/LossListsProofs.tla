------------------------- MODULE LossListsProofs --------------------------
(***************************************************************************)
(* What is proved of the loss lists: after any sequence of reports,        *)
(* arrivals, acknowledgements and drop requests, wherever the window lies  *)
(* on the circle, both linked arrays stand for the sets of numbers that    *)
(* the other models have in their place; a drop request across the wrap    *)
(* leaves one number too many in the receiver's, and none else.            *)
(*                                                                         *)
(* A number is reasoned about as its position in the window, a plain       *)
(* integer.  The recursive functions of the model, its walks along the     *)
(* links and its folds, exist by the first lemmas; what they return is     *)
(* proved by least counterexample.                                         *)
(***************************************************************************)
EXTENDS LossLists, WellFoundedInduction, FiniteSetTheorems, FunctionTheorems, SequenceTheorems,
        TLAPS

-----------------------------------------------------------------------------
(* Induction. *)

Before == {p \in Nat \X Nat : p[1] < p[2]}

\* Any set of numbers that is not empty has a least element.
LEMMA Least ==
    ASSUME NEW T, T \subseteq Nat, T # {}
    PROVE  \E n \in T : \A m \in T : n =< m
<1>1. IsWellFoundedOn(Before, Nat)
    BY NatLessThanWellFounded DEF OpToRel, Before
<1>2. PICK n \in T : \A m \in T : ~ (<<m, n>> \in Before)
    BY <1>1, WFMin
<1>3. ASSUME NEW m \in T PROVE n =< m
    <2>1. m \in Nat /\ n \in Nat /\ <<m, n>> \in Nat \X Nat
        OBVIOUS
    <2>2. ~(m < n)
        BY <1>2, <2>1 DEF Before
    <2>3. QED
        BY <2>1, <2>2
<1>4. QED
    BY <1>3

\* ... and, when it is bounded, a greatest one.
LEMMA Greatest ==
    ASSUME NEW N \in Nat, NEW T, T \subseteq 0 .. N, T # {}
    PROVE  \E n \in T : \A m \in T : m =< n
<1> DEFINE D == {N - m : m \in T}
<1>1. D \subseteq Nat /\ D # {}
    OBVIOUS
<1>2. PICK d \in D : \A e \in D : d =< e
    BY <1>1, Least
<1>3. PICK n \in T : d = N - n
    OBVIOUS
<1>4. \A m \in T : d =< N - m
    BY <1>2
<1>5. \A m \in T : m =< n
    BY <1>3, <1>4
<1>6. QED
    BY <1>5

\* A set that has 0, and with every number up to N the next one, has them all.
LEMMA Counting ==
    ASSUME NEW N \in Nat, NEW G, 0 \in G, \A n \in 0 .. N - 1 : n \in G => n + 1 \in G
    PROVE  \A n \in 0 .. N : n \in G
<1> DEFINE T == {n \in 0 .. N : n \notin G}
<1> SUFFICES ASSUME T # {} PROVE FALSE
    OBVIOUS
<1>1. T \subseteq Nat
    OBVIOUS
<1>2. PICK n \in T : \A m \in T : n =< m
    <2> HIDE DEF T
    <2> QED BY <1>1, Least
<1>3. n \in 1 .. N /\ n \notin G
    OBVIOUS
<1>4. n - 1 \in G
    <2>1. n - 1 \notin T
        <3> HIDE DEF T
        <3> QED BY <1>2, <1>3
    <2>2. QED
        BY <1>3, <2>1
<1>5. QED
    BY <1>3, <1>4

\* A step repeated N times from x on.
Repeats(w, N, x, step) == w = [n \in 0 .. N |-> IF n = 0 THEN x ELSE step[w[n - 1]]]

\* The function of its results exists.
LEMMA Iterates ==
    ASSUME NEW X, NEW x \in X, NEW step \in [X -> X], NEW N \in Nat
    PROVE  \E w \in [0 .. N -> X] : Repeats(w, N, x, step)
<1> DEFINE Is(w, k) == w \in [0 .. k -> X] /\ w[0] = x /\ \A n \in 1 .. k : w[n] = step[w[n - 1]]
           G == {k \in Nat : \E w : Is(w, k)}
<1>1. 0 \in G
    <2>1. Is([n \in 0 .. 0 |-> x], 0)
        OBVIOUS
    <2>2. QED
        BY <2>1
<1>2. ASSUME NEW k \in 0 .. N - 1, k \in G PROVE k + 1 \in G
    <2>1. PICK w : Is(w, k)
        BY <1>2
    <2> DEFINE v == [n \in 0 .. k + 1 |-> IF n = k + 1 THEN step[w[k]] ELSE w[n]]
    <2>2. v \in [0 .. k + 1 -> X]
        BY <2>1
    <2>3. v[0] = x
        BY <2>1
    <2>4. ASSUME NEW n \in 1 .. k + 1 PROVE v[n] = step[v[n - 1]]
        BY <2>1
    <2> HIDE DEF v
    <2>5. \E u : Is(u, k + 1)
        BY <2>2, <2>3, <2>4
    <2>6. QED
        BY <2>5
<1>3. N \in G
    <2> HIDE DEF G
    <2>1. \A n \in 0 .. N - 1 : n \in G => n + 1 \in G
        BY <1>2
    <2>2. \A n \in 0 .. N : n \in G
        BY <1>1, <2>1, Counting
    <2>3. QED
        BY <2>2
<1>4. PICK w : Is(w, N)
    BY <1>3
<1>5. Repeats(w, N, x, step)
    BY <1>4 DEF Repeats
<1>6. QED
    BY <1>4, <1>5

\* The greatest of some numbers, as the folds choose it.
LEMMA MaxIs ==
    ASSUME NEW N \in Nat, NEW S \in SUBSET (1 .. N), S # {}
    PROVE  Max(S) \in S /\ \A m \in S : m =< Max(S)
<1>1. S \subseteq 0 .. N
    OBVIOUS
<1>2. PICK n \in S : \A m \in S : m =< n
    BY <1>1, Greatest
<1>3. \A m \in S : n >= m
    BY <1>2
<1>4. Max(S) \in S /\ \A m \in S : Max(S) >= m
    BY <1>3 DEF Max
<1>5. QED
    BY <1>4

\* A fold over N elements, from the first on: the function that the library defines it
\* by, on all sets of indices.
Folds(w, N, x, step) ==
    w = [S \in SUBSET (1 .. N) |-> IF S = {} THEN x ELSE step[<<w[S \ {Max(S)}], Max(S)>>]]

\* It exists.
LEMMA FoldExists ==
    ASSUME NEW X, NEW x \in X, NEW N \in Nat, NEW step \in [X \X (1 .. N) -> X]
    PROVE  \E w \in [SUBSET (1 .. N) -> X] : Folds(w, N, x, step)
<1> DEFINE Is(w, k) == /\ w \in [SUBSET (1 .. k) -> X]
                       /\ w[{}] = x
                       /\ \A S \in SUBSET (1 .. k) :
                              S # {} => w[S] = step[<<w[S \ {Max(S)}], Max(S)>>]
           G == {k \in Nat : \E w : Is(w, k)}
<1>1. 0 \in G
    <2>0. SUBSET (1 .. 0) = {{}}
        OBVIOUS
    <2>1. Is([S \in SUBSET (1 .. 0) |-> x], 0)
        BY <2>0
    <2>2. QED
        BY <2>1
<1>2. ASSUME NEW k \in 0 .. N - 1, k \in G PROVE k + 1 \in G
    <2>1. PICK w : Is(w, k)
        BY <1>2
    <2> DEFINE v == [S \in SUBSET (1 .. k + 1) |->
                        IF k + 1 \in S THEN step[<<w[S \ {k + 1}], k + 1>>] ELSE w[S]]
    <2>2. ASSUME NEW S \in SUBSET (1 .. k + 1)
          PROVE  IF k + 1 \in S THEN S \ {k + 1} \in SUBSET (1 .. k) ELSE S \in SUBSET (1 .. k)
        OBVIOUS
    <2>3. v \in [SUBSET (1 .. k + 1) -> X]
        <3>1. ASSUME NEW S \in SUBSET (1 .. k + 1), k + 1 \in S
              PROVE  step[<<w[S \ {k + 1}], k + 1>>] \in X
            <4>1. w[S \ {k + 1}] \in X
                BY <2>1, <2>2, <3>1
            <4>2. k + 1 \in 1 .. N
                OBVIOUS
            <4>3. QED
                BY <4>1, <4>2
        <3>2. ASSUME NEW S \in SUBSET (1 .. k + 1), k + 1 \notin S
              PROVE  w[S] \in X
            BY <2>1, <2>2, <3>2
        <3>3. QED
            BY <3>1, <3>2
    <2>4. v[{}] = x
        BY <2>1
    <2>5. ASSUME NEW S \in SUBSET (1 .. k + 1), S # {}
          PROVE  v[S] = step[<<v[S \ {Max(S)}], Max(S)>>]
        <3>1. Max(S) \in S /\ \A m \in S : m =< Max(S)
            BY <2>5, MaxIs, k + 1 \in Nat
        <3>2. CASE k + 1 \in S
            <4>1. Max(S) = k + 1
                <5>1. PICK m \in 1 .. k + 1 : m = Max(S)
                    BY <3>1
                <5>2. k + 1 =< m
                    BY <3>1, <3>2, <5>1
                <5>3. QED
                    BY <5>1, <5>2
            <4>2. S \ {k + 1} \in SUBSET (1 .. k)
                BY <2>2, <3>2
            <4>3. v[S \ {k + 1}] = w[S \ {k + 1}]
                BY <4>2
            <4>4. QED
                BY <3>2, <4>1, <4>3
        <3>3. CASE k + 1 \notin S
            <4>1. S \in SUBSET (1 .. k) /\ S \ {Max(S)} \in SUBSET (1 .. k)
                BY <2>2, <3>3
            <4>2. v[S] = w[S] /\ v[S \ {Max(S)}] = w[S \ {Max(S)}]
                BY <3>3, <4>1
            <4>3. QED
                BY <2>1, <2>5, <4>1, <4>2
        <3>4. QED
            BY <3>2, <3>3
    <2>6. \E u : Is(u, k + 1)
        <3> HIDE DEF v
        <3> QED BY <2>3, <2>4, <2>5
    <2>7. k + 1 \in Nat
        OBVIOUS
    <2>8. QED
        <3> HIDE DEF Is, v
        <3> QED BY <2>6, <2>7
<1>3. N \in G
    <2> HIDE DEF G
    <2>1. \A n \in 0 .. N - 1 : n \in G => n + 1 \in G
        BY <1>2
    <2>2. \A n \in 0 .. N : n \in G
        BY <1>1, <2>1, Counting
    <2>3. QED
        BY <2>2
<1>4. PICK w : Is(w, N)
    BY <1>3
<1>5. Folds(w, N, x, step)
    BY <1>4 DEF Folds
<1>6. QED
    BY <1>4, <1>5

\* The indices before the last of the first k ones.
LEMMA FirstOnes ==
    ASSUME NEW k \in Nat \ {0}
    PROVE  Max(1 .. k) = k /\ (1 .. k) \ {k} = 1 .. k - 1 /\ 1 .. k # {}
<1>1. 1 .. k \in SUBSET (1 .. k) /\ k \in 1 .. k
    OBVIOUS
<1>2. Max(1 .. k) \in 1 .. k /\ \A m \in 1 .. k : m =< Max(1 .. k)
    BY <1>1, MaxIs, k \in Nat
<1>3. Max(1 .. k) = k
    <2>1. PICK m \in 1 .. k : m = Max(1 .. k)
        BY <1>2
    <2>2. k =< m
        BY <1>1, <1>2, <2>1
    <2>3. QED
        BY <2>1, <2>2
<1>4. (1 .. k) \ {k} = 1 .. k - 1
    OBVIOUS
<1>5. QED
    BY <1>1, <1>3, <1>4

\* The sums of the parts of what is added up.
Totals(total, D, f) ==
    /\ total \in [SUBSET D -> Int]
    /\ total[{}] = 0
    /\ \A T \in SUBSET D : \A s \in T : total[T] = f[s] + total[T \ {s}]

\* A sum, when it is known of every part.
LEMMA SumIs ==
    ASSUME NEW D, IsFiniteSet(D), NEW f, DOMAIN f = D, NEW total, Totals(total, D, f)
    PROVE  SumFunction(f) = total[D]
<1> USE DEF Totals
<1> DEFINE iter[S \in SUBSET D] ==
               IF S = {} THEN 0 ELSE f[CHOOSE s \in S : TRUE] + iter[S \ {CHOOSE s \in S : TRUE}]
<1>1. SumFunction(f) = iter[D]
    BY DEF SumFunction, SumFunctionOnSet, FoldFunctionOnSet, MapThenFoldSet
<1>2. total = [S \in SUBSET D |->
                  IF S = {} THEN 0
                  ELSE f[CHOOSE s \in S : TRUE] + total[S \ {CHOOSE s \in S : TRUE}]]
    OBVIOUS
<1>3. iter = [S \in SUBSET D |->
                  IF S = {} THEN 0
                  ELSE f[CHOOSE s \in S : TRUE] + iter[S \ {CHOOSE s \in S : TRUE}]]
    <2>1. \E g : g = [S \in SUBSET D |->
                         IF S = {} THEN 0
                         ELSE f[CHOOSE s \in S : TRUE] + g[S \ {CHOOSE s \in S : TRUE}]]
        BY <1>2
    <2>2. QED
        BY <2>1
<1> HIDE DEF iter
<1> DEFINE G == {n \in Nat : \A S \in SUBSET D : Cardinality(S) = n => iter[S] = total[S]}
<1>4. 0 \in G
    <2>1. ASSUME NEW S \in SUBSET D, Cardinality(S) = 0 PROVE iter[S] = total[S]
        <3>1. S = {}
            BY <2>1, FS_Subset, FS_EmptySet
        <3>2. QED
            BY <1>3, <3>1
    <2>2. QED
        BY <2>1
<1>5. ASSUME NEW n \in Nat, n \in G PROVE n + 1 \in G
    <2>1. ASSUME NEW S \in SUBSET D, Cardinality(S) = n + 1 PROVE iter[S] = total[S]
        <3>1. S # {}
            <4>1. Cardinality({}) = 0 /\ n + 1 # 0
                BY FS_EmptySet
            <4>2. QED
                BY <2>1, <4>1
        <3>2. PICK s \in S : s = CHOOSE t \in S : TRUE
            BY <3>1
        <3>3. IsFiniteSet(S)
            BY FS_Subset
        <3>4. Cardinality(S \ {s}) = n
            <4>1. Cardinality(S \ {s}) = Cardinality(S) - 1
                BY <3>3, FS_RemoveElement
            <4>2. QED
                BY <2>1, <4>1
        <3>5. iter[S \ {s}] = total[S \ {s}]
            BY <1>5, <3>4
        <3>6. iter[S] = f[s] + iter[S \ {s}]
            BY <1>3, <3>1, <3>2
        <3>7. QED
            BY <3>5, <3>6
    <2>2. QED
        BY <2>1
<1>6. Cardinality(D) \in G
    <2> HIDE DEF G
    <2>1. Cardinality(D) \in Nat
        BY FS_CardinalityType
    <2>2. \A n \in 0 .. Cardinality(D) : n \in G
        BY <1>4, <1>5, <2>1, Counting
    <2>3. QED
        BY <2>1, <2>2
<1>7. QED
    BY <1>1, <1>6

-----------------------------------------------------------------------------
(* Numbers and positions. *)

\* The position of a number in the window that starts at b, and the number at a position.
Pos(b, x) == SeqOff(b, x)
Number(b, p) == IncSeqBy(b, p)

\* The numbers at the first w positions.
Window(b, w) == {x \in SeqNos : Pos(b, x) \in 0 .. w - 1}

\* Those from position p to position q.
Span(b, p, q) == {x \in SeqNos : Pos(b, x) \in p .. q}

\* A position is an integer.
LEMMA PosType == ASSUME NEW b \in SeqNos, NEW x \in SeqNos PROVE Pos(b, x) \in Int
    BY SeqNoAssumption DEF Pos, SeqOff, SeqNos, Abs

\* Numbers of a window are compared, counted and measured by their positions.
LEMMA Compared ==
    ASSUME NEW b \in SeqNos, NEW x \in Window(b, SeqNoTH), NEW y \in Window(b, SeqNoTH)
    PROVE  /\ SeqOff(x, y) = Pos(b, y) - Pos(b, x)
           /\ SeqCmp(x, y) < 0 <=> Pos(b, x) < Pos(b, y)
           /\ SeqCmp(x, y) =< 0 <=> Pos(b, x) =< Pos(b, y)
           /\ SeqCmp(x, y) > 0 <=> Pos(b, x) > Pos(b, y)
           /\ SeqCmp(x, y) >= 0 <=> Pos(b, x) >= Pos(b, y)
           /\ Pos(b, x) =< Pos(b, y) => SeqLen(x, y) = Pos(b, y) - Pos(b, x) + 1
           /\ Pos(b, x) = Pos(b, y) => x = y
    BY SeqNoAssumption DEF Window, Pos, SeqOff, SeqCmp, SeqLen, SeqNos, Abs

\* The numbers next to a number.
LEMMA NextNumber ==
    ASSUME NEW b \in SeqNos, NEW x \in SeqNos, Pos(b, x) \in 0 .. SeqNoTH - 2
    PROVE  IncSeq(x) \in SeqNos /\ Pos(b, IncSeq(x)) = Pos(b, x) + 1
    BY SeqNoAssumption DEF Pos, SeqOff, IncSeq, SeqNos, Abs

LEMMA NumberBefore ==
    ASSUME NEW b \in SeqNos, NEW x \in SeqNos, Pos(b, x) \in 1 .. SeqNoTH - 1
    PROVE  DecSeq(x) \in SeqNos /\ Pos(b, DecSeq(x)) = Pos(b, x) - 1
    BY SeqNoAssumption DEF Pos, SeqOff, DecSeq, SeqNos, Abs

\* The number at a position.
LEMMA NumberAt ==
    ASSUME NEW b \in SeqNos, NEW p \in 0 .. SeqNoTH - 1
    PROVE  Number(b, p) \in SeqNos /\ Pos(b, Number(b, p)) = p
    BY SeqNoAssumption DEF Pos, SeqOff, Number, IncSeqBy, SeqNos, Abs

\* A window that starts later.
LEMMA Moved ==
    ASSUME NEW b \in SeqNos, NEW k \in 0 .. SeqNoTH - 1, NEW x \in Window(b, SeqNoTH),
           Pos(b, x) >= k
    PROVE  Pos(Number(b, k), x) = Pos(b, x) - k
    BY SeqNoAssumption DEF Window, Pos, SeqOff, Number, IncSeqBy, SeqNos, Abs

\* Only one number is at a position.
LEMMA OnePlace ==
    ASSUME NEW b \in SeqNos, NEW x \in SeqNos, NEW p \in 0 .. SeqNoTH - 1, Pos(b, x) = p
    PROVE  x = Number(b, p)
<1>1. x \in Window(b, SeqNoTH) /\ Number(b, p) \in Window(b, SeqNoTH)
    BY NumberAt DEF Window
<1>2. QED
    BY <1>1, NumberAt, Compared

\* A jump from a number of the window.
LEMMA Jump ==
    ASSUME NEW b \in SeqNos, NEW x \in Window(b, SeqNoTH), NEW i \in Nat,
           Pos(b, x) + i =< SeqNoTH - 1
    PROVE  IncSeqBy(x, i) \in SeqNos /\ Pos(b, IncSeqBy(x, i)) = Pos(b, x) + i
    BY SeqNoAssumption DEF Window, Pos, SeqOff, IncSeqBy, SeqNos, Abs

\* From and Between in positions.
LEMMA FromIs ==
    ASSUME NEW b \in SeqNos, NEW x \in Window(b, SeqNoTH), NEW n \in Nat,
           Pos(b, x) + n =< SeqNoTH
    PROVE  From(x, n) = Span(b, Pos(b, x), Pos(b, x) + n - 1)
<1>1. ASSUME NEW i \in 0 .. n - 1
      PROVE  IncSeqBy(x, i) \in Span(b, Pos(b, x), Pos(b, x) + n - 1)
    <2>1. i \in Nat /\ Pos(b, x) \in 0 .. SeqNoTH - 1 /\ Pos(b, x) + i =< SeqNoTH - 1
        BY SeqNoAssumption DEF Window
    <2>2. IncSeqBy(x, i) \in SeqNos /\ Pos(b, IncSeqBy(x, i)) = Pos(b, x) + i
        BY <2>1, Jump
    <2>3. QED
        BY <2>1, <2>2 DEF Span
<1>2. ASSUME NEW y \in Span(b, Pos(b, x), Pos(b, x) + n - 1)
      PROVE  \E i \in 0 .. n - 1 : y = IncSeqBy(x, i)
    <2>1. PICK p \in Int : p = Pos(b, x) /\ p \in 0 .. SeqNoTH - 1
        BY SeqNoAssumption DEF Window
    <2>2. PICK q \in Int : q = Pos(b, y) /\ q \in p .. p + n - 1 /\ y \in SeqNos
        BY <2>1 DEF Span
    <2>3. q - p \in Nat /\ q - p \in 0 .. n - 1 /\ Pos(b, x) + (q - p) =< SeqNoTH - 1
        BY <2>1, <2>2, SeqNoAssumption
    <2>4. IncSeqBy(x, q - p) \in SeqNos /\ Pos(b, IncSeqBy(x, q - p)) = Pos(b, x) + (q - p)
        BY <2>3, Jump
    <2>5. Pos(b, IncSeqBy(x, q - p)) = q /\ q \in 0 .. SeqNoTH - 1
        BY <2>1, <2>2, <2>3, <2>4, SeqNoAssumption
    <2>6. IncSeqBy(x, q - p) = y
        BY <2>2, <2>4, <2>5, OnePlace
    <2>7. QED
        BY <2>3, <2>6
<1>3. QED
    BY <1>1, <1>2 DEF From

LEMMA BetweenIs ==
    ASSUME NEW b \in SeqNos, NEW x \in Window(b, SeqNoTH), NEW y \in Window(b, SeqNoTH),
           Pos(b, x) =< Pos(b, y)
    PROVE  Between(x, y) = Span(b, Pos(b, x), Pos(b, y))
<1>1. PICK p \in 0 .. SeqNoTH - 1 : p = Pos(b, x)
    BY DEF Window
<1>2. PICK q \in 0 .. SeqNoTH - 1 : q = Pos(b, y)
    BY DEF Window
<1>3. SeqLen(x, y) = q - p + 1
    BY <1>1, <1>2, Compared
<1>4. q - p + 1 \in Nat /\ p + (q - p + 1) =< SeqNoTH /\ p + (q - p + 1) - 1 = q
    BY <1>1, <1>2, SeqNoAssumption
<1>5. From(x, q - p + 1) = Span(b, p, p + (q - p + 1) - 1)
    BY <1>1, <1>4, FromIs
<1>6. QED
    BY <1>1, <1>2, <1>3, <1>4, <1>5 DEF Between

LEMMA WindowIs ==
    ASSUME NEW b \in SeqNos, NEW w \in 0 .. SeqNoTH
    PROVE  From(b, w) = Window(b, w)
<1>1. b \in Window(b, SeqNoTH) /\ Pos(b, b) = 0
    BY SeqNoAssumption DEF Window, Pos, SeqOff, Abs, SeqNos
<1>2. From(b, w) = Span(b, 0, 0 + w - 1)
    BY <1>1, FromIs
<1>3. QED
    BY <1>2 DEF Span, Window

\* There are as many numbers as positions.
LEMMA SpanCount ==
    ASSUME NEW b \in SeqNos, NEW p \in Nat, NEW q \in Int, q >= p - 1, q =< SeqNoTH - 1
    PROVE  IsFiniteSet(Span(b, p, q)) /\ Cardinality(Span(b, p, q)) = q - p + 1
<1> DEFINE f == [i \in p .. q |-> Number(b, i)]
<1>1. ASSUME NEW i \in p .. q PROVE f[i] \in Span(b, p, q) /\ Pos(b, f[i]) = i
    <2>1. i \in 0 .. SeqNoTH - 1
        BY SeqNoAssumption
    <2>2. QED
        BY <2>1, NumberAt DEF Span
<1>2. ASSUME NEW y \in Span(b, p, q) PROVE \E i \in p .. q : f[i] = y
    <2>1. Pos(b, y) \in p .. q /\ y \in SeqNos /\ Pos(b, y) \in 0 .. SeqNoTH - 1
        BY SeqNoAssumption DEF Span
    <2>2. y = Number(b, Pos(b, y))
        BY <2>1, OnePlace
    <2>3. QED
        BY <2>1, <2>2
<1>3. f \in Bijection(p .. q, Span(b, p, q))
    <2>1. f \in [p .. q -> Span(b, p, q)]
        BY <1>1
    <2>2. \A i, j \in p .. q : f[i] = f[j] => i = j
        BY <1>1
    <2> HIDE DEF f
    <2>3. QED
        BY <1>2, <2>1, <2>2, Fun_IsBij
<1>4. IsFiniteSet(p .. q) /\ Cardinality(p .. q) = q - p + 1
    <2>1. p \in Int
        OBVIOUS
    <2>2. QED
        BY <2>1, FS_Interval
<1>5. QED
    <2> HIDE DEF f
    <2> QED BY <1>3, <1>4, FS_Bijection DEF ExistsBijection

\* All numbers of a window are finitely many.
LEMMA WindowFinite ==
    ASSUME NEW b \in SeqNos, NEW w \in 0 .. SeqNoTH
    PROVE  IsFiniteSet(Window(b, w))
<1>1. Window(b, w) = Span(b, 0, w - 1)
    BY DEF Window, Span
<1>2. QED
    BY <1>1, SpanCount, SeqNoAssumption

-----------------------------------------------------------------------------
(* Slots. *)

Slots == 0 .. ListSize - 1

\* The slot of a position, when position 0 has slot o.
At(o, p) == (o + p) % ListSize

\* A remainder, for what lies within two turns.
LEMMA Wrap ==
    ASSUME NEW x \in Int, 0 =< x, x < 2 * ListSize
    PROVE  /\ x % ListSize = IF x < ListSize THEN x ELSE x - ListSize
           /\ x % ListSize \in Slots
<1>1. ListSize \in Nat /\ ListSize > 0
    BY ListAssumption
<1>2. x % ListSize \in 0 .. ListSize - 1
    BY <1>1
<1>3. x = ListSize * (x \div ListSize) + (x % ListSize) /\ x \div ListSize \in Int
    BY <1>1
<1>4. PICK r \in 0 .. ListSize - 1, q \in Int : r = x % ListSize /\ x = ListSize * q + r
    BY <1>2, <1>3
<1>5. q \in {0, 1}
    <2>1. CASE q < 0
        BY <1>1, <1>4, <2>1
    <2>2. CASE q >= 2
        BY <1>1, <1>4, <2>2
    <2>3. QED
        BY <1>4, <2>1, <2>2
<1>6. QED
    BY <1>1, <1>4, <1>5 DEF Slots

\* A turn more or less does not change it.
LEMMA OneTurn ==
    ASSUME NEW x \in Int, ListSize > 0
    PROVE  x % ListSize = (x - ListSize) % ListSize
<1>1. ListSize \in Nat /\ ListSize > 0
    BY ListAssumption
<1>2. x % ListSize \in 0 .. ListSize - 1 /\ (x - ListSize) % ListSize \in 0 .. ListSize - 1
    BY <1>1
<1>3. x = ListSize * (x \div ListSize) + (x % ListSize) /\ x \div ListSize \in Int
    BY <1>1
<1>4. /\ x - ListSize = ListSize * ((x - ListSize) \div ListSize) + ((x - ListSize) % ListSize)
      /\ (x - ListSize) \div ListSize \in Int
    BY <1>1
<1>5. PICK r \in 0 .. ListSize - 1, q \in Int : r = x % ListSize /\ x = ListSize * q + r
    BY <1>2, <1>3
<1>6. PICK t \in 0 .. ListSize - 1, u \in Int :
          t = (x - ListSize) % ListSize /\ x - ListSize = ListSize * u + t
    BY <1>2, <1>4
<1>7. ListSize * (q - 1 - u) = t - r
    BY <1>1, <1>5, <1>6
<1>8. q - 1 - u = 0
    <2>1. CASE q - 1 - u > 0
        <3>1. ListSize * (q - 1 - u) >= ListSize
            BY <1>1, <2>1
        <3>2. QED
            BY <1>1, <1>7, <3>1
    <2>2. CASE q - 1 - u < 0
        <3>1. ListSize * (q - 1 - u) =< - ListSize
            BY <1>1, <2>2
        <3>2. QED
            BY <1>1, <1>7, <3>1
    <2>3. QED
        BY <2>1, <2>2
<1>9. QED
    BY <1>1, <1>5, <1>6, <1>7, <1>8

\* What every lemma below is about: a window from b on, of w numbers, whose first one
\* has slot o.
Circle(b, w, o) == b \in SeqNos /\ w \in 0 .. WindowLimit /\ o \in 0 .. ListSize

LEMMA Sizes ==
    ASSUME NEW b, NEW w, NEW o, Circle(b, w, o)
    PROVE  /\ b \in SeqNos /\ w \in 0 .. SeqNoTH - 1 /\ o \in 0 .. ListSize /\ w \in Nat
           /\ w =< SeqNoTH - 1 /\ w =< ListSize /\ w =< WindowLimit
           /\ SeqNoTH \in Nat /\ ListSize \in Nat /\ WindowLimit \in Nat
    BY SeqNoAssumption, ListAssumption DEF Circle

\* The slot of a position; the next position has the next slot, and no other position of
\* the window has the same one.
LEMMA AtIs ==
    ASSUME NEW o \in 0 .. ListSize, NEW p \in 0 .. ListSize - 1
    PROVE  /\ At(o, p) \in Slots
           /\ At(o, p) = IF o + p < ListSize THEN o + p ELSE o + p - ListSize
<1>1. ListSize \in Nat
    BY ListAssumption
<1>2. PICK x \in Int : x = o + p /\ 0 =< x /\ x < 2 * ListSize
    BY <1>1
<1>3. At(o, p) = x % ListSize
    BY <1>2 DEF At
<1>4. x % ListSize \in Slots /\ x % ListSize = IF x < ListSize THEN x ELSE x - ListSize
    BY <1>2, Wrap
<1>5. QED
    BY <1>1, <1>2, <1>3, <1>4

LEMMA AtNext ==
    ASSUME NEW o \in 0 .. ListSize, NEW p \in 0 .. ListSize - 2
    PROVE  NextSlot(At(o, p)) = At(o, p + 1)
<1>1. ListSize \in Nat /\ p \in 0 .. ListSize - 1 /\ p + 1 \in 0 .. ListSize - 1
    BY ListAssumption
<1>2. At(o, p) \in Slots /\ At(o, p) = IF o + p < ListSize THEN o + p ELSE o + p - ListSize
    BY <1>1, AtIs
<1>3. At(o, p + 1) = IF o + (p + 1) < ListSize THEN o + (p + 1) ELSE o + (p + 1) - ListSize
    BY <1>1, AtIs
<1>4. PICK a \in Slots : a = At(o, p)
    BY <1>2
<1>5. PICK y \in Int : y = a + 1 /\ 0 =< y /\ y < 2 * ListSize
    BY <1>1 DEF Slots
<1>6. y % ListSize = IF y < ListSize THEN y ELSE y - ListSize
    BY <1>5, Wrap
<1>7. NextSlot(At(o, p)) = y % ListSize
    BY <1>4, <1>5 DEF NextSlot
<1>8. QED
    BY <1>1, <1>2, <1>3, <1>4, <1>5, <1>6, <1>7 DEF Slots

LEMMA AtOnce ==
    ASSUME NEW o \in 0 .. ListSize, NEW p \in 0 .. ListSize - 1, NEW q \in 0 .. ListSize - 1,
           At(o, p) = At(o, q)
    PROVE  p = q
<1>1. ListSize \in Nat
    BY ListAssumption
<1>2. At(o, p) = IF o + p < ListSize THEN o + p ELSE o + p - ListSize
    BY AtIs
<1>3. At(o, q) = IF o + q < ListSize THEN o + q ELSE o + q - ListSize
    BY AtIs
<1>4. PICK m \in Int, n \in Int, k \in Int : m = o /\ n = p /\ k = q
    BY <1>1
<1>5. (IF m + n < ListSize THEN m + n ELSE m + n - ListSize)
          = (IF m + k < ListSize THEN m + k ELSE m + k - ListSize)
    BY <1>2, <1>3, <1>4
<1>6. QED
    BY <1>1, <1>4, <1>5

\* Position 0 can be given any slot for the first range.
LEMMA AnySlot ==
    ASSUME NEW p \in 0 .. ListSize - 1
    PROVE  \E k \in 0 .. ListSize : At(k, p) = 0
<1>1. ListSize \in Nat
    BY ListAssumption
<1>2. CASE p = 0
    <2>1. 0 \in 0 .. ListSize
        BY <1>1
    <2>2. At(0, p) = IF 0 + p < ListSize THEN 0 + p ELSE 0 + p - ListSize
        BY <2>1, AtIs
    <2>3. QED
        BY <1>1, <1>2, <2>1, <2>2
<1>3. CASE p # 0
    <2>1. ListSize - p \in 0 .. ListSize
        BY <1>1
    <2>2. At(ListSize - p, p) = IF ListSize - p + p < ListSize THEN ListSize - p + p
                                ELSE ListSize - p + p - ListSize
        BY <2>1, AtIs
    <2>3. QED
        BY <1>1, <2>1, <2>2
<1>4. QED
    BY <1>2, <1>3

-----------------------------------------------------------------------------
(* Ranges in slots and their links, which both lists have. *)

\* The positions of the first and the last number of the range in slot s.
F(b, node, s) == Pos(b, node[s].first)
L(b, node, s) == Pos(b, node[s].last)

\* Ranges of the window, each in the slot of its first number.
Laid(node, b, w, o) ==
    /\ node = [s \in DOMAIN node |-> node[s]]
    /\ \A s \in DOMAIN node : /\ node[s].first \in Window(b, w) /\ node[s].last \in Window(b, w)
                              /\ F(b, node, s) =< L(b, node, s)
                              /\ s = At(o, F(b, node, s))

\* A range ends before the next one begins, except perhaps the one in slot c.
Apart(node, b, c) ==
    \A s, t \in DOMAIN node :
        s # c /\ F(b, node, s) < F(b, node, t) => L(b, node, s) < F(b, node, t)

\* "next" is the slot of the range that comes next.
Follows(node, b, s, next) ==
    IF next = None THEN \A t \in DOMAIN node : F(b, node, t) =< F(b, node, s)
    ELSE /\ next \in DOMAIN node /\ F(b, node, s) < F(b, node, next)
         /\ \A t \in DOMAIN node : F(b, node, t) =< F(b, node, s) \/ F(b, node, next) =< F(b, node, t)

Linked(node, b) == \A s \in DOMAIN node : Follows(node, b, s, node[s].next)

\* h is the slot of the first range.
Leads(node, b, h) ==
    IF DOMAIN node = {} THEN h = None
    ELSE h \in DOMAIN node /\ \A t \in DOMAIN node : F(b, node, h) =< F(b, node, t)

\* The numbers in the ranges, but the one in slot c.
Numbers(node, b, c) ==
    {x \in SeqNos : \E s \in DOMAIN node \ {c} : Pos(b, x) \in F(b, node, s) .. L(b, node, s)}

\* The positions of a range are integers in the window, and fit the array.
LEMMA Placed ==
    ASSUME NEW b, NEW w, NEW o, Circle(b, w, o), NEW node, Laid(node, b, w, o),
           NEW s \in DOMAIN node
    PROVE  /\ F(b, node, s) \in 0 .. w - 1 /\ L(b, node, s) \in 0 .. w - 1
           /\ F(b, node, s) =< L(b, node, s)
           /\ F(b, node, s) \in 0 .. ListSize - 1 /\ L(b, node, s) \in 0 .. ListSize - 1
           /\ s = At(o, F(b, node, s)) /\ s \in Slots
           /\ node[s].first \in Window(b, SeqNoTH) /\ node[s].last \in Window(b, SeqNoTH)
           /\ node[s].first \in SeqNos /\ node[s].last \in SeqNos
<1>1. w \in Nat /\ w =< ListSize /\ w =< SeqNoTH - 1 /\ SeqNoTH \in Nat /\ ListSize \in Nat
    BY Sizes
<1>2. /\ node[s].first \in SeqNos /\ node[s].last \in SeqNos
      /\ F(b, node, s) \in 0 .. w - 1 /\ L(b, node, s) \in 0 .. w - 1
    BY DEF Laid, Window, F, L
<1>3. F(b, node, s) =< L(b, node, s) /\ s = At(o, F(b, node, s))
    BY DEF Laid
<1>4. F(b, node, s) \in 0 .. ListSize - 1 /\ L(b, node, s) \in 0 .. ListSize - 1
    BY <1>1, <1>2
<1>5. At(o, F(b, node, s)) \in Slots
    BY <1>4, AtIs, Sizes
<1>6. node[s].first \in Window(b, SeqNoTH) /\ node[s].last \in Window(b, SeqNoTH)
    BY <1>1, <1>2 DEF Window, F, L
<1>7. QED
    BY <1>2, <1>3, <1>4, <1>5, <1>6

\* Two ranges do not begin at the same position.
LEMMA OneSlot ==
    ASSUME NEW b, NEW w, NEW o, Circle(b, w, o), NEW node, Laid(node, b, w, o),
           NEW s \in DOMAIN node, NEW t \in DOMAIN node, F(b, node, s) = F(b, node, t)
    PROVE  s = t
    BY Placed

\* SlotOf finds the slot of a number by its distance from the head.
LEMMA SlotOfIs ==
    ASSUME NEW b, NEW w, NEW o, Circle(b, w, o), NEW l, Laid(l.node, b, w, o),
           l.head \in DOMAIN l.node, NEW x \in Window(b, w)
    PROVE  SlotOf(l, x) = At(o, Pos(b, x))
<1>1. /\ o \in 0 .. ListSize /\ w \in Nat /\ w =< ListSize /\ ListSize \in Nat
      /\ w =< SeqNoTH - 1 /\ SeqNoTH \in Nat /\ b \in SeqNos
    BY Sizes
<1>2. PICK f \in 0 .. ListSize - 1 : f = F(b, l.node, l.head) /\ l.head = At(o, f)
    BY Placed
<1>3. PICK p \in 0 .. ListSize - 1 : p = Pos(b, x)
    BY <1>1 DEF Window
<1>4. x \in Window(b, SeqNoTH) /\ l.node[l.head].first \in Window(b, SeqNoTH)
    BY <1>1, Placed DEF Window
<1>5. SeqOff(l.node[l.head].first, x) = p - f
    BY <1>1, <1>2, <1>3, <1>4, Compared DEF F
<1>6. PICK h \in Slots : h = l.head /\ h = IF o + f < ListSize THEN o + f ELSE o + f - ListSize
    BY <1>1, <1>2, AtIs
<1>7. At(o, p) = IF o + p < ListSize THEN o + p ELSE o + p - ListSize
    BY <1>1, AtIs
<1>8. PICK y \in Int : y = h + (p - f) + ListSize
    BY <1>1 DEF Slots
<1>9. y >= 0 /\ y < 3 * ListSize
    BY <1>1, <1>6, <1>8
<1>10. SlotOf(l, x) = y % ListSize
    BY <1>5, <1>6, <1>8 DEF SlotOf
<1>11. CASE y < 2 * ListSize
    <2>1. y % ListSize = IF y < ListSize THEN y ELSE y - ListSize
        BY <1>9, <1>11, Wrap
    <2>2. At(o, p) = IF y < ListSize THEN y ELSE y - ListSize
        BY <1>1, <1>6, <1>7, <1>8, <1>11
    <2>3. QED
        BY <1>3, <1>10, <2>1, <2>2
<1>12. CASE y >= 2 * ListSize
    <2>1. PICK z \in Int : z = y - ListSize /\ 0 =< z /\ z < 2 * ListSize
        BY <1>1, <1>9, <1>12
    <2>2. y % ListSize = z % ListSize
        BY <1>1, <1>3, <2>1, OneTurn
    <2>3. z % ListSize = IF z < ListSize THEN z ELSE z - ListSize
        BY <2>1, Wrap
    <2>4. At(o, p) = IF z < ListSize THEN z ELSE z - ListSize
        BY <1>1, <1>6, <1>7, <1>8, <1>12, <2>1
    <2>5. QED
        BY <1>3, <1>10, <2>2, <2>3, <2>4
<1>13. QED
    BY <1>1, <1>11, <1>12

\* A number begins a range exactly if one begins at its position.
LEMMA StartsIs ==
    ASSUME NEW b, NEW w, NEW o, Circle(b, w, o), NEW l, Laid(l.node, b, w, o),
           NEW x \in Window(b, w)
    PROVE  Starts(l, At(o, Pos(b, x)), x) <=> \E s \in DOMAIN l.node : F(b, l.node, s) = Pos(b, x)
<1>1. x \in Window(b, SeqNoTH) /\ b \in SeqNos
    BY Sizes DEF Window
<1>2. ASSUME Starts(l, At(o, Pos(b, x)), x)
      PROVE  \E s \in DOMAIN l.node : F(b, l.node, s) = Pos(b, x)
    BY <1>2 DEF Starts, F
<1>3. ASSUME NEW s \in DOMAIN l.node, F(b, l.node, s) = Pos(b, x)
      PROVE  Starts(l, At(o, Pos(b, x)), x)
    <2>1. s = At(o, Pos(b, x)) /\ l.node[s].first \in Window(b, SeqNoTH)
        BY <1>3, Placed
    <2>2. Pos(b, l.node[s].first) = Pos(b, x)
        BY <1>3 DEF F
    <2>3. l.node[s].first = x
        BY <1>1, <2>1, <2>2, Compared
    <2>4. QED
        BY <2>1, <2>3 DEF Starts
<1>4. QED
    BY <1>2, <1>3

-----------------------------------------------------------------------------
(* Walks along the links. *)

\* A walk from a slot to the end: the slots from there on, in order.
IsChain(node, b, c, slot) ==
    /\ c \in Seq(DOMAIN node) /\ Len(c) >= 1 /\ c[1] = slot
    /\ \A i \in 1 .. Len(c) - 1 : node[c[i]].next = c[i + 1]
    /\ node[c[Len(c)]].next = None
    /\ \A i, j \in 1 .. Len(c) : i < j => F(b, node, c[i]) < F(b, node, c[j])
    /\ \A t \in DOMAIN node : F(b, node, slot) =< F(b, node, t) => \E i \in 1 .. Len(c) : c[i] = t

\* Part of such a walk.
Walk(node, c, slot) ==
    /\ c \in Seq(DOMAIN node) /\ Len(c) >= 1 /\ c[1] = slot
    /\ \A i \in 1 .. Len(c) - 1 : node[c[i]].next = c[i + 1]

\* It goes on where the last range says.
LEMMA WalkGoes ==
    ASSUME NEW node, NEW b, Linked(node, b), NEW slot, NEW c, Walk(node, c, slot),
           node[c[Len(c)]].next # None
    PROVE  Walk(node, Append(c, node[c[Len(c)]].next), slot)
<1>1. Len(c) \in Nat /\ Len(c) >= 1 /\ c \in Seq(DOMAIN node)
    BY DEF Walk
<1>2. PICK s \in DOMAIN node : s = c[Len(c)]
    BY <1>1
<1>3. node[s].next \in DOMAIN node
    BY <1>2 DEF Linked, Follows
<1>4. PICK t \in DOMAIN node : t = node[c[Len(c)]].next
    BY <1>2, <1>3
<1>5. PICK d : d = Append(c, t)
    OBVIOUS
<1>6. /\ d \in Seq(DOMAIN node) /\ Len(d) = Len(c) + 1 /\ d[Len(c) + 1] = t
      /\ \A i \in 1 .. Len(c) : d[i] = c[i]
    BY <1>1, <1>5
<1>7. d[1] = slot
    BY <1>1, <1>6 DEF Walk
<1>8. ASSUME NEW i \in 1 .. Len(d) - 1 PROVE node[d[i]].next = d[i + 1]
    <2>1. CASE i = Len(c)
        BY <1>1, <1>4, <1>6, <2>1
    <2>2. CASE i # Len(c)
        <3>1. i \in 1 .. Len(c) - 1 /\ i \in 1 .. Len(c) /\ i + 1 \in 1 .. Len(c)
            BY <1>1, <1>6, <2>2
        <3>2. QED
            BY <1>6, <3>1 DEF Walk
    <2>3. QED
        BY <2>1, <2>2
<1>9. Walk(node, d, slot)
    BY <1>1, <1>6, <1>7, <1>8 DEF Walk
<1>10. QED
    BY <1>4, <1>5, <1>9

\* Along a walk the positions grow.
LEMMA WalkGrows ==
    ASSUME NEW b, NEW w, NEW o, Circle(b, w, o), NEW node, Laid(node, b, w, o), Linked(node, b),
           NEW slot, NEW c, Walk(node, c, slot)
    PROVE  /\ \A i, j \in 1 .. Len(c) : i < j => F(b, node, c[i]) < F(b, node, c[j])
           /\ \A i \in 1 .. Len(c) : F(b, node, c[i]) >= i - 1
<1>1. Len(c) \in Nat /\ c \in Seq(DOMAIN node) /\ Len(c) >= 1
    BY DEF Walk
<1>2. \A i \in 1 .. Len(c) : c[i] \in DOMAIN node
    BY <1>1
<1> DEFINE p == [i \in 1 .. Len(c) |-> F(b, node, c[i])]
<1>3. p \in [1 .. Len(c) -> Nat]
    BY <1>2, Placed
<1>4. ASSUME NEW i \in 1 .. Len(c) - 1 PROVE p[i] < p[i + 1]
    <2>1. i \in 1 .. Len(c) /\ i + 1 \in 1 .. Len(c)
        BY <1>1
    <2>2. c[i] \in DOMAIN node /\ c[i + 1] \in DOMAIN node /\ node[c[i]].next = c[i + 1]
        BY <1>2, <2>1 DEF Walk
    <2>3. c[i + 1] \in Slots
        BY <2>2, Placed
    <2>4. c[i + 1] # None
        BY <2>3 DEF Slots, None
    <2>5. F(b, node, c[i]) < F(b, node, c[i + 1])
        BY <2>2, <2>4 DEF Linked, Follows
    <2>6. QED
        BY <2>1, <2>5
<1>5. \A i \in 1 .. Len(c) : p[i] = F(b, node, c[i])
    OBVIOUS
<1> HIDE DEF p
<1> DEFINE G == {n \in Nat : /\ \A i \in 1 .. n : n < Len(c) => p[i] < p[n + 1]
                             /\ n < Len(c) => p[n + 1] >= n}
<1>6. 0 \in G
    BY <1>1, <1>3
<1>7. ASSUME NEW n \in 0 .. Len(c) - 1, n \in G PROVE n + 1 \in G
    <2>1. n + 1 \in Nat
        OBVIOUS
    <2>2. CASE n + 1 < Len(c)
        <3>1. /\ n < Len(c) /\ n + 1 \in 1 .. Len(c) - 1 /\ n + 1 \in 1 .. Len(c)
              /\ (n + 1) + 1 \in 1 .. Len(c)
            BY <1>1, <2>2
        <3>2. PICK u \in Nat, v \in Nat : u = p[n + 1] /\ v = p[(n + 1) + 1] /\ u < v
            BY <1>3, <1>4, <3>1
        <3>3. u >= n /\ \A i \in 1 .. n : p[i] < u
            BY <1>7, <3>1, <3>2
        <3>4. ASSUME NEW i \in 1 .. n + 1 PROVE p[i] < v
            <4>1. i \in 1 .. Len(c) /\ p[i] \in Nat
                BY <1>1, <1>3, <3>1
            <4>2. CASE i = n + 1
                BY <3>2, <4>2
            <4>3. CASE i \in 1 .. n
                BY <3>2, <3>3, <4>1, <4>3
            <4>4. QED
                BY <4>2, <4>3
        <3>5. v >= n + 1
            BY <3>2, <3>3
        <3>6. QED
            BY <2>1, <3>2, <3>4, <3>5
    <2>3. CASE ~ (n + 1 < Len(c))
        BY <2>1, <2>3
    <2>4. QED
        BY <2>2, <2>3
<1>8. \A n \in 0 .. Len(c) : n \in G
    <2> HIDE DEF G
    <2>1. \A n \in 0 .. Len(c) - 1 : n \in G => n + 1 \in G
        BY <1>7
    <2>2. QED
        BY <1>1, <1>6, <2>1, Counting
<1>9. ASSUME NEW j \in 1 .. Len(c)
      PROVE  p[j] >= j - 1 /\ \A i \in 1 .. Len(c) : i < j => p[i] < p[j]
    <2>1. PICK n \in 0 .. Len(c) : j = n + 1 /\ n < Len(c)
        BY <1>1
    <2>2. n \in G
        BY <1>8
    <2>3. p[n + 1] >= n /\ \A i \in 1 .. n : p[i] < p[n + 1]
        BY <2>1, <2>2
    <2>4. QED
        BY <2>1, <2>3
<1>10. QED
    BY <1>5, <1>9

\* A walk that cannot go on has met all.
LEMMA WalkEnds ==
    ASSUME NEW b, NEW w, NEW o, Circle(b, w, o), NEW node, Laid(node, b, w, o), Linked(node, b),
           NEW slot, NEW c, Walk(node, c, slot), node[c[Len(c)]].next = None
    PROVE  IsChain(node, b, c, slot)
<1>1. Len(c) \in Nat /\ c \in Seq(DOMAIN node) /\ Len(c) >= 1
    BY DEF Walk
<1>2. \A i \in 1 .. Len(c) : c[i] \in DOMAIN node
    BY <1>1
<1>3. ASSUME NEW t \in DOMAIN node, F(b, node, slot) =< F(b, node, t)
      PROVE  \E i \in 1 .. Len(c) : c[i] = t
    <2> DEFINE T == {i \in 1 .. Len(c) : F(b, node, c[i]) =< F(b, node, t)}
    <2>1. 1 \in T
        BY <1>1, <1>3 DEF Walk
    <2>2. T \subseteq 0 .. Len(c)
        OBVIOUS
    <2>3. PICK i \in T : \A m \in T : m =< i
        <3> HIDE DEF T
        <3> QED BY <1>1, <2>1, <2>2, Greatest
    <2>4. i \in 1 .. Len(c) /\ c[i] \in DOMAIN node /\ F(b, node, c[i]) =< F(b, node, t)
        BY <1>2
    <2>5. CASE F(b, node, c[i]) = F(b, node, t)
        BY <2>4, <2>5, OneSlot
    <2>6. CASE F(b, node, c[i]) # F(b, node, t)
        <3>1. F(b, node, c[i]) \in Int /\ F(b, node, t) \in Int
            BY <2>4, Placed
        <3>2. F(b, node, c[i]) < F(b, node, t)
            BY <2>4, <2>6, <3>1
        <3>3. CASE i = Len(c)
            <4>1. Follows(node, b, c[i], None)
                BY <2>4, <3>3 DEF Linked
            <4>2. F(b, node, t) =< F(b, node, c[i])
                BY <4>1 DEF Follows
            <4>3. QED
                BY <3>1, <3>2, <4>2
        <3>4. CASE i # Len(c)
            <4>1. i \in 1 .. Len(c) - 1 /\ i + 1 \in 1 .. Len(c)
                BY <1>1, <2>4, <3>4
            <4>2. node[c[i]].next = c[i + 1] /\ c[i + 1] \in DOMAIN node
                BY <1>2, <4>1 DEF Walk
            <4>3. c[i + 1] \in Slots /\ F(b, node, c[i + 1]) \in Int
                BY <4>2, Placed
            <4>4. c[i + 1] # None
                BY <4>3 DEF Slots, None
            <4>5. Follows(node, b, c[i], c[i + 1])
                BY <2>4, <4>2 DEF Linked
            <4>6. F(b, node, c[i + 1]) =< F(b, node, t)
                BY <3>1, <3>2, <4>4, <4>5 DEF Follows
            <4>7. i + 1 \in T
                BY <4>1, <4>6
            <4>8. i + 1 =< i
                BY <2>3, <4>7
            <4>9. QED
                BY <2>4, <4>8
        <3>5. QED
            BY <3>3, <3>4
    <2>7. QED
        BY <2>5, <2>6
<1>4. QED
    BY <1>1, <1>3, WalkGrows DEF IsChain, Walk

\* ChainFrom walks to the end.
LEMMA ChainFromIs ==
    ASSUME NEW b, NEW w, NEW o, Circle(b, w, o), NEW l, Laid(l.node, b, w, o), Linked(l.node, b),
           NEW slot \in DOMAIN l.node
    PROVE  IsChain(l.node, b, ChainFrom(l, slot), slot)
<1> DEFINE Next1(c) == l.node[c[Len(c)]].next
           X == {c \in Seq(DOMAIN l.node) : Walk(l.node, c, slot)}
           step == [c \in X |-> IF Next1(c) = None THEN c ELSE Append(c, Next1(c))]
           walk[n \in 0 .. ListSize] ==
               IF n = 0 THEN <<slot>>
               ELSE LET sofar == walk[n - 1]
                        next == l.node[sofar[Len(sofar)]].next
                    IN IF next = None THEN sofar ELSE Append(sofar, next)
<1>0. ListSize \in Nat
    BY ListAssumption
<1>1. slot # None
    <2>1. slot \in Slots
        BY Placed
    <2>2. QED
        BY <2>1 DEF Slots, None
<1>2. ChainFrom(l, slot) = walk[ListSize]
    BY <1>1 DEF ChainFrom
<1>3. <<slot>> \in X
    <2>1. PICK D : D = DOMAIN l.node
        OBVIOUS
    <2>2. << >> \in Seq(D) /\ slot \in D
        BY <2>1
    <2>3. Append(<< >>, slot) \in Seq(D)
        BY <2>2
    <2>4. Append(<< >>, slot) = <<slot>>
        OBVIOUS
    <2>5. Len(<<slot>>) = 1 /\ <<slot>>[1] = slot
        OBVIOUS
    <2>6. QED
        BY <2>1, <2>3, <2>4, <2>5 DEF Walk
<1>4. step \in [X -> X]
    <2>1. ASSUME NEW c \in X, Next1(c) # None PROVE Append(c, Next1(c)) \in X
        <3>1. Walk(l.node, Append(c, Next1(c)), slot)
            BY <2>1, WalkGoes
        <3>2. QED
            BY <3>1 DEF Walk
    <2>2. QED
        BY <2>1
<1>5. PICK v \in [0 .. ListSize -> X] :
          v = [n \in 0 .. ListSize |-> IF n = 0 THEN <<slot>> ELSE step[v[n - 1]]]
    <2>1. PICK Y, g, x : Y = X /\ g = step /\ x = <<slot>>
        OBVIOUS
    <2>2. x \in Y /\ g \in [Y -> Y]
        BY <1>3, <1>4, <2>1
    <2>3. PICK v \in [0 .. ListSize -> Y] : Repeats(v, ListSize, x, g)
        BY <1>0, <2>2, Iterates
    <2>4. v = [n \in 0 .. ListSize |-> IF n = 0 THEN x ELSE g[v[n - 1]]]
        BY <2>3 DEF Repeats
    <2>5. QED
        <3> HIDE DEF step, X
        <3> QED BY <2>1, <2>3, <2>4
<1>6. \A n \in 0 .. ListSize : n # 0 => v[n - 1] \in X
    <2> HIDE DEF X
    <2>1. \A n \in 0 .. ListSize : n # 0 => n - 1 \in 0 .. ListSize
        BY <1>0
    <2>2. QED
        BY <1>5, <2>1
<1>7. v = [n \in 0 .. ListSize |->
              IF n = 0 THEN <<slot>>
              ELSE LET sofar == v[n - 1]
                       next == l.node[sofar[Len(sofar)]].next
                   IN IF next = None THEN sofar ELSE Append(sofar, next)]
    <2>1. \A n \in 0 .. ListSize : n # 0 =>
              step[v[n - 1]] = LET sofar == v[n - 1]
                                   next == l.node[sofar[Len(sofar)]].next
                               IN IF next = None THEN sofar ELSE Append(sofar, next)
        BY <1>6
    <2>2. QED
        <3> HIDE DEF step, X
        <3> QED BY <1>5, <2>1
<1>8. walk = [n \in 0 .. ListSize |->
                 IF n = 0 THEN <<slot>>
                 ELSE LET sofar == walk[n - 1]
                          next == l.node[sofar[Len(sofar)]].next
                      IN IF next = None THEN sofar ELSE Append(sofar, next)]
    <2>1. \E f : f = [n \in 0 .. ListSize |->
                         IF n = 0 THEN <<slot>>
                         ELSE LET sofar == f[n - 1]
                                  next == l.node[sofar[Len(sofar)]].next
                              IN IF next = None THEN sofar ELSE Append(sofar, next)]
        BY <1>7
    <2>2. QED
        BY <2>1
<1>9. /\ walk[0] = <<slot>>
      /\ \A n \in 0 .. ListSize - 1 :
             walk[n + 1] = IF Next1(walk[n]) = None THEN walk[n] ELSE Append(walk[n], Next1(walk[n]))
    <2> HIDE DEF walk
    <2>1. walk[0] = <<slot>>
        BY <1>0, <1>8
    <2>2. ASSUME NEW n \in 0 .. ListSize - 1
          PROVE  walk[n + 1] = IF Next1(walk[n]) = None THEN walk[n]
                               ELSE Append(walk[n], Next1(walk[n]))
        <3>1. n + 1 \in 0 .. ListSize /\ n + 1 # 0 /\ (n + 1) - 1 = n
            BY <1>0
        <3>2. QED
            BY <1>8, <3>1
    <2>3. QED
        BY <2>1, <2>2
<1> HIDE DEF walk, step
<1> DEFINE G == {n \in Nat : walk[n] \in X /\ (Next1(walk[n]) = None \/ Len(walk[n]) = n + 1)}
<1>10. 0 \in G
    BY <1>3, <1>9
<1>11. ASSUME NEW n \in 0 .. ListSize - 1, n \in G PROVE n + 1 \in G
    <2>1. n + 1 \in Nat /\ walk[n] \in X
        BY <1>11
    <2>2. CASE Next1(walk[n]) = None
        BY <1>9, <2>1, <2>2
    <2>3. CASE Next1(walk[n]) # None
        <3>1. Walk(l.node, Append(walk[n], Next1(walk[n])), slot)
            BY <2>1, <2>3, WalkGoes
        <3>2. walk[n + 1] = Append(walk[n], Next1(walk[n]))
            BY <1>9, <2>3
        <3>3. walk[n + 1] \in X
            BY <3>1, <3>2 DEF Walk
        <3>4. Len(walk[n]) = n + 1 /\ walk[n] \in Seq(DOMAIN l.node)
            BY <1>11, <2>3
        <3>5. Len(walk[n + 1]) = n + 1 + 1
            BY <3>2, <3>4
        <3>6. QED
            BY <2>1, <3>3, <3>5
    <2>4. QED
        BY <2>2, <2>3
<1>12. ListSize \in G
    <2> HIDE DEF G
    <2>1. \A n \in 0 .. ListSize - 1 : n \in G => n + 1 \in G
        BY <1>11
    <2>2. \A n \in 0 .. ListSize : n \in G
        BY <1>0, <1>10, <2>1, Counting
    <2>3. QED
        BY <1>0, <2>2
<1>13. PICK c : c = walk[ListSize] /\ Walk(l.node, c, slot) /\ (Next1(c) = None \/ Len(c) = ListSize + 1)
    BY <1>12
<1>14. Next1(c) = None
    <2> SUFFICES ASSUME Len(c) = ListSize + 1 PROVE FALSE
        BY <1>13
    <2>1. ListSize + 1 \in 1 .. Len(c) /\ c \in Seq(DOMAIN l.node)
        BY <1>0, <1>13 DEF Walk
    <2>2. F(b, l.node, c[ListSize + 1]) >= ListSize + 1 - 1
        <3>1. \A i \in 1 .. Len(c) : F(b, l.node, c[i]) >= i - 1
            BY <1>13, WalkGrows
        <3>2. QED
            BY <1>0, <2>1, <3>1
    <2>3. c[ListSize + 1] \in DOMAIN l.node
        BY <2>1
    <2>4. F(b, l.node, c[ListSize + 1]) \in 0 .. ListSize - 1
        BY <2>3, Placed
    <2>5. QED
        BY <1>0, <2>2, <2>4
<1>15. IsChain(l.node, b, c, slot)
    BY <1>13, <1>14, WalkEnds
<1>16. QED
    BY <1>2, <1>13, <1>15

\* Prior goes on from a range that begins before a number to the last one that does.
LEMMA PriorIs ==
    ASSUME NEW b, NEW w, NEW o, Circle(b, w, o), NEW l, Laid(l.node, b, w, o), Linked(l.node, b),
           NEW slot \in DOMAIN l.node, NEW x \in Window(b, w), F(b, l.node, slot) < Pos(b, x)
    PROVE  /\ Prior(l, slot, x) \in DOMAIN l.node
           /\ F(b, l.node, Prior(l, slot, x)) < Pos(b, x)
           /\ \A t \in DOMAIN l.node : F(b, l.node, t) =< F(b, l.node, Prior(l, slot, x))
                                          \/ F(b, l.node, t) >= Pos(b, x)
<1> DEFINE c == ChainFrom(l, slot)
           Stops(i) == i = Len(c) \/ SeqCmp(l.node[c[i + 1]].first, x) >= 0
<1>1. IsChain(l.node, b, c, slot)
    BY ChainFromIs
<1> HIDE DEF c
<1>2. Len(c) \in Nat /\ Len(c) >= 1 /\ c \in Seq(DOMAIN l.node)
    BY <1>1 DEF IsChain
<1>3. \A i \in 1 .. Len(c) : c[i] \in DOMAIN l.node
    BY <1>2
<1>4. x \in Window(b, SeqNoTH) /\ b \in SeqNos /\ Pos(b, x) \in Int
    BY Sizes DEF Window
<1>5. ASSUME NEW i \in 1 .. Len(c) - 1
      PROVE  Stops(i) <=> F(b, l.node, c[i + 1]) >= Pos(b, x)
    <2>1. i + 1 \in 1 .. Len(c) /\ i # Len(c)
        BY <1>2
    <2>2. l.node[c[i + 1]].first \in Window(b, SeqNoTH)
        BY <1>3, <2>1, Placed
    <2>3. QED
        BY <1>4, <2>1, <2>2, Compared DEF F
<1> DEFINE T == {i \in 1 .. Len(c) : Stops(i)}
<1>6. Len(c) \in T /\ T \subseteq Nat /\ DOMAIN c = 1 .. Len(c)
    BY <1>2
<1>7. PICK i \in T : \A m \in T : i =< m
    <2> HIDE DEF T
    <2> QED BY <1>6, Least
<1>8. \E k \in DOMAIN c : Stops(k) /\ \A j \in 1 .. k - 1 : ~ Stops(j)
    <2>1. i \in DOMAIN c /\ Stops(i)
        BY <1>6
    <2>2. ASSUME NEW j \in 1 .. i - 1 PROVE ~ Stops(j)
        <3>1. j \in 1 .. Len(c) /\ ~ (i =< j)
            <4>1. i \in 1 .. Len(c)
                OBVIOUS
            <4>2. QED
                BY <1>2, <4>1
        <3>2. j \notin T
            <4> HIDE DEF T
            <4> QED BY <1>7, <3>1
        <3>3. QED
            BY <3>1, <3>2
    <2>3. QED
        BY <2>1, <2>2
<1>9. PICK k \in DOMAIN c : /\ Stops(k) /\ \A j \in 1 .. k - 1 : ~ Stops(j)
                            /\ Prior(l, slot, x) = c[k]
    <2> DEFINE ch == CHOOSE k \in DOMAIN c : Stops(k) /\ \A j \in 1 .. k - 1 : ~ Stops(j)
    <2>1. ch \in DOMAIN c /\ Stops(ch) /\ \A j \in 1 .. ch - 1 : ~ Stops(j)
        BY <1>8
    <2>2. Prior(l, slot, x) = c[ch]
        BY DEF Prior, c
    <2> HIDE DEF ch
    <2>3. QED
        BY <2>1, <2>2
<1>10. k \in 1 .. Len(c) /\ c[k] \in DOMAIN l.node /\ F(b, l.node, c[k]) \in Int
    <2>1. k \in 1 .. Len(c) /\ c[k] \in DOMAIN l.node
        BY <1>3, <1>6, <1>9
    <2>2. F(b, l.node, c[k]) \in 0 .. w - 1
        BY <2>1, Placed
    <2>3. QED
        BY <2>1, <2>2
<1>11. F(b, l.node, c[k]) < Pos(b, x)
    <2>1. CASE k = 1
        BY <1>1, <2>1 DEF IsChain
    <2>2. CASE k # 1
        <3>1. k - 1 \in 1 .. k - 1 /\ k - 1 \in 1 .. Len(c) - 1 /\ (k - 1) + 1 = k
            BY <1>2, <1>10, <2>2
        <3>2. ~ Stops(k - 1)
            BY <1>9, <3>1
        <3>3. ~ (F(b, l.node, c[k]) >= Pos(b, x))
            BY <1>5, <3>1, <3>2
        <3>4. QED
            BY <1>4, <1>10, <3>3
    <2>3. QED
        BY <2>1, <2>2
<1>12. ASSUME NEW t \in DOMAIN l.node
       PROVE  F(b, l.node, t) =< F(b, l.node, c[k]) \/ F(b, l.node, t) >= Pos(b, x)
    <2>0. F(b, l.node, t) \in Int
        BY Placed
    <2>1. Follows(l.node, b, c[k], l.node[c[k]].next)
        BY <1>10 DEF Linked
    <2>2. CASE k = Len(c)
        <3>1. l.node[c[k]].next = None
            BY <1>1, <2>2 DEF IsChain
        <3>2. QED
            BY <2>1, <3>1 DEF Follows
    <2>3. CASE k # Len(c)
        <3>1. k \in 1 .. Len(c) - 1 /\ k + 1 \in 1 .. Len(c)
            BY <1>2, <1>10, <2>3
        <3>2. l.node[c[k]].next = c[k + 1] /\ c[k + 1] \in DOMAIN l.node
            BY <1>1, <1>3, <3>1 DEF IsChain
        <3>3. F(b, l.node, c[k + 1]) >= Pos(b, x)
            BY <1>5, <1>9, <3>1
        <3>4. F(b, l.node, c[k + 1]) \in Int /\ c[k + 1] \in Slots
            BY <3>2, Placed
        <3>5. c[k + 1] # None
            BY <3>4 DEF Slots, None
        <3>6. F(b, l.node, t) =< F(b, l.node, c[k]) \/ F(b, l.node, c[k + 1]) =< F(b, l.node, t)
            BY <2>1, <3>2, <3>5 DEF Follows
        <3>7. QED
            BY <1>4, <1>10, <2>0, <3>3, <3>4, <3>6
    <2>4. QED
        BY <2>2, <2>3
<1>13. QED
    BY <1>9, <1>10, <1>11, <1>12

-----------------------------------------------------------------------------
(* The sender's list. *)

\* The fields of a list and of its ranges.
IsSnd(l) ==
    /\ l = [node |-> l.node, head |-> l.head, length |-> l.length, hint |-> l.hint]
    /\ l.head \in Slots \cup {None} /\ l.hint \in DOMAIN l.node \cup {None}
    /\ \A s \in DOMAIN l.node :
           l.node[s] = SndNode(l.node[s].first, l.node[s].last, l.node[s].next)

\* The list stands for the set S.
SndGood(l, b, w, o, S) ==
    /\ IsSnd(l) /\ Laid(l.node, b, w, o) /\ Apart(l.node, b, None) /\ Linked(l.node, b)
    /\ Leads(l.node, b, l.head)
    /\ S = Numbers(l.node, b, None)
    /\ l.length = Cardinality(S)

\* In the middle of an insertion: the range in slot c, which has just been put in or made
\* longer, may overlap those that follow it, and the numbers in both are counted twice.
\* h is the slot of the first range, of which the head is yet to be told.
Growing(l, b, w, o, S, c, h) ==
    /\ IsSnd(l) /\ Laid(l.node, b, w, o) /\ Apart(l.node, b, c) /\ Linked(l.node, b)
    /\ Leads(l.node, b, h)
    /\ c \in DOMAIN l.node /\ l.hint = c
    /\ S = Numbers(l.node, b, None)
    /\ l.length = Cardinality(Numbers(l.node, b, c)) + (L(b, l.node, c) - F(b, l.node, c) + 1)

\* What is listed lies in the window, and can be counted.
LEMMA NumbersFinite ==
    ASSUME NEW b, NEW w, NEW o, Circle(b, w, o), NEW node, Laid(node, b, w, o), NEW c
    PROVE  /\ Numbers(node, b, c) \subseteq Window(b, w)
           /\ IsFiniteSet(Numbers(node, b, c)) /\ Cardinality(Numbers(node, b, c)) \in Nat
<1>1. ASSUME NEW x \in Numbers(node, b, c) PROVE x \in Window(b, w)
    <2>1. PICK s \in DOMAIN node : x \in SeqNos /\ Pos(b, x) \in F(b, node, s) .. L(b, node, s)
        BY DEF Numbers
    <2>2. F(b, node, s) \in 0 .. w - 1 /\ L(b, node, s) \in 0 .. w - 1 /\ w \in Nat
        BY Placed, Sizes
    <2>3. Pos(b, x) \in 0 .. w - 1
        BY <2>1, <2>2
    <2>4. QED
        BY <2>1, <2>3 DEF Window
<1>2. w \in 0 .. SeqNoTH /\ b \in SeqNos
    BY Sizes
<1>3. IsFiniteSet(Window(b, w))
    BY <1>2, WindowFinite
<1>4. Numbers(node, b, c) \subseteq Window(b, w)
    BY <1>1
<1>5. QED
    BY <1>3, <1>4, FS_Subset, FS_CardinalityType

\* Numbers outside a range and those in it are counted by addition.
LEMMA CountBoth ==
    ASSUME NEW b, NEW w, NEW o, Circle(b, w, o), NEW p \in 0 .. w - 1, NEW q \in 0 .. w - 1, p =< q,
           NEW A, IsFiniteSet(A), A \cap Span(b, p, q) = {}
    PROVE  Cardinality(A \cup Span(b, p, q)) = Cardinality(A) + (q - p + 1)
<1>1. /\ b \in SeqNos /\ p \in Nat /\ q \in Int /\ q >= p - 1 /\ q =< SeqNoTH - 1
      /\ SeqNoTH \in Nat
    BY Sizes
<1>2. IsFiniteSet(Span(b, p, q)) /\ Cardinality(Span(b, p, q)) = q - p + 1
    BY <1>1, SpanCount
<1>3. Cardinality(A \cup Span(b, p, q))
          = Cardinality(A) + Cardinality(Span(b, p, q)) - Cardinality(A \cap Span(b, p, q))
    BY <1>2, FS_Union
<1>4. Cardinality(A \cap Span(b, p, q)) = 0
    BY FS_EmptySet
<1>5. Cardinality(A) \in Nat
    BY FS_CardinalityType
<1>6. QED
    BY <1>1, <1>2, <1>3, <1>4, <1>5

\* One more range, that no other one overlaps.
LEMMA NumbersPlus ==
    ASSUME NEW b, NEW w, NEW o, Circle(b, w, o), NEW node, Laid(node, b, w, o),
           NEW c, NEW d \in DOMAIN node, c # d,
           NEW part, Laid(part, b, w, o), DOMAIN part \ {c} = DOMAIN node \ {c, d},
           \A s \in DOMAIN part \ {c} :
               F(b, part, s) = F(b, node, s) /\ L(b, part, s) = L(b, node, s),
           \A s \in DOMAIN node \ {c, d} :
               L(b, node, s) < F(b, node, d) \/ L(b, node, d) < F(b, node, s)
    PROVE  /\ Numbers(node, b, c) = Numbers(part, b, c) \cup Span(b, F(b, node, d), L(b, node, d))
           /\ Cardinality(Numbers(node, b, c))
                  = Cardinality(Numbers(part, b, c)) + (L(b, node, d) - F(b, node, d) + 1)
<1>1. ASSUME NEW x \in Numbers(node, b, c)
      PROVE  x \in Numbers(part, b, c) \cup Span(b, F(b, node, d), L(b, node, d))
    <2>1. PICK s \in DOMAIN node \ {c} : x \in SeqNos /\ Pos(b, x) \in F(b, node, s) .. L(b, node, s)
        BY DEF Numbers
    <2>2. CASE s = d
        BY <2>1, <2>2 DEF Span
    <2>3. CASE s # d
        <3>1. s \in DOMAIN part \ {c}
            BY <2>3
        <3>2. QED
            BY <2>1, <3>1 DEF Numbers
    <2>4. QED
        BY <2>2, <2>3
<1>2. ASSUME NEW x \in Numbers(part, b, c) PROVE x \in Numbers(node, b, c)
    <2>1. PICK s \in DOMAIN part \ {c} : x \in SeqNos /\ Pos(b, x) \in F(b, part, s) .. L(b, part, s)
        BY DEF Numbers
    <2>2. s \in DOMAIN node \ {c}
        OBVIOUS
    <2>3. QED
        BY <2>1, <2>2 DEF Numbers
<1>3. ASSUME NEW x \in Span(b, F(b, node, d), L(b, node, d)) PROVE x \in Numbers(node, b, c)
    BY <1>3 DEF Span, Numbers
<1>4. ASSUME NEW x \in Numbers(part, b, c), x \in Span(b, F(b, node, d), L(b, node, d)) PROVE FALSE
    <2>1. PICK s \in DOMAIN part \ {c} : x \in SeqNos /\ Pos(b, x) \in F(b, part, s) .. L(b, part, s)
        BY DEF Numbers
    <2>2. s \in DOMAIN node \ {c, d}
        OBVIOUS
    <2>3. /\ F(b, node, s) \in Int /\ L(b, node, s) \in Int
          /\ F(b, node, d) \in Int /\ L(b, node, d) \in Int
        BY <2>2, Placed
    <2>4. Pos(b, x) \in F(b, node, s) .. L(b, node, s) /\ Pos(b, x) \in F(b, node, d) .. L(b, node, d)
        BY <1>4, <2>1 DEF Span
    <2>5. L(b, node, s) < F(b, node, d) \/ L(b, node, d) < F(b, node, s)
        BY <2>2
    <2>6. QED
        BY <2>3, <2>4, <2>5
<1>5. Numbers(node, b, c) = Numbers(part, b, c) \cup Span(b, F(b, node, d), L(b, node, d))
    BY <1>1, <1>2, <1>3
<1>6. Numbers(part, b, c) \cap Span(b, F(b, node, d), L(b, node, d)) = {}
    BY <1>4
<1>7. IsFiniteSet(Numbers(part, b, c))
    BY NumbersFinite
<1>8. /\ F(b, node, d) \in 0 .. w - 1 /\ L(b, node, d) \in 0 .. w - 1
      /\ F(b, node, d) =< L(b, node, d)
    BY Placed
<1>9. QED
    BY <1>5, <1>6, <1>7, <1>8, CountBoth

\* Only one range is linked to the next one.
LEMMA OnePrior ==
    ASSUME NEW b, NEW w, NEW o, Circle(b, w, o), NEW node, Laid(node, b, w, o), Linked(node, b),
           NEW s \in DOMAIN node, NEW t \in DOMAIN node,
           node[s].next # None, node[s].next = node[t].next
    PROVE  s = t
<1>1. PICK d \in DOMAIN node : d = node[s].next /\ d = node[t].next
    BY DEF Linked, Follows
<1>2. F(b, node, s) \in Int /\ F(b, node, t) \in Int /\ F(b, node, d) \in Int
    BY Placed
<1>3. Follows(node, b, s, d) /\ Follows(node, b, t, d) /\ d # None
    BY <1>1 DEF Linked
<1>4. /\ F(b, node, s) < F(b, node, d) /\ F(b, node, t) < F(b, node, d)
      /\ F(b, node, t) =< F(b, node, s) \/ F(b, node, d) =< F(b, node, t)
      /\ F(b, node, s) =< F(b, node, t) \/ F(b, node, d) =< F(b, node, s)
    BY <1>3 DEF Follows
<1>5. F(b, node, s) = F(b, node, t)
    BY <1>2, <1>4
<1>6. QED
    BY <1>5, OneSlot

\* The last number of the ranges in slots c and d together, and how many both have.
LastOf(l, c, d) ==
    IF SeqCmp(l.node[d].last, l.node[c].last) > 0 THEN l.node[d].last ELSE l.node[c].last
Shared(l, c, d) ==
    IF SeqCmp(l.node[d].first, l.node[c].last) > 0 THEN 0
    ELSE SeqLen(l.node[d].first, IF SeqCmp(l.node[d].last, l.node[c].last) > 0
                                 THEN l.node[c].last ELSE l.node[d].last)

\* The list m is l, but for the range in slot c, which has taken in that in slot d.
Swallowed(m, l, c, d) ==
    /\ m = [node |-> m.node, head |-> m.head, length |-> m.length, hint |-> m.hint]
    /\ m.head = l.head /\ m.hint = l.hint
    /\ DOMAIN m.node = DOMAIN l.node \ {d}
    /\ m.node = [s \in DOMAIN m.node |-> m.node[s]]
    /\ \A s \in DOMAIN m.node \ {c} : m.node[s] = l.node[s]
    /\ m.node[c] = SndNode(l.node[c].first, LastOf(l, c, d), l.node[d].next)
    /\ m.length = l.length - Shared(l, c, d)

\* Swallow, field by field.
LEMMA SwallowIs ==
    ASSUME NEW l, IsSnd(l), NEW c \in DOMAIN l.node, NEW d \in DOMAIN l.node,
           d = l.node[c].next, d # c
    PROVE  Swallowed(Swallow(l, c), l, c, d)
<1>1. PICK m : m = Swallow(l, c)
    OBVIOUS
<1>2. PICK v : v = SndNode(l.node[c].first, LastOf(l, c, d), l.node[d].next)
    OBVIOUS
<1>3. PICK n : n = With(Without(l.node, {d}), c, v)
    OBVIOUS
<1>4. PICK k : k = l.length - Shared(l, c, d)
    OBVIOUS
<1>5. m = [l EXCEPT !.node = n, !.length = k]
    BY <1>1, <1>2, <1>3, <1>4 DEF Swallow, LastOf, Shared
<1>6. m = [node |-> n, head |-> l.head, length |-> k, hint |-> l.hint]
    BY <1>5 DEF IsSnd
<1>7. n = [s \in DOMAIN l.node \ {d} |-> IF s = c THEN v ELSE l.node[s]]
    BY <1>3 DEF With, Without
<1>8. /\ DOMAIN n = DOMAIN l.node \ {d} /\ n = [s \in DOMAIN n |-> n[s]]
      /\ n[c] = v /\ \A s \in DOMAIN n \ {c} : n[s] = l.node[s]
    BY <1>7
<1>9. m.node = n /\ m.head = l.head /\ m.length = k /\ m.hint = l.hint
    BY <1>6
<1>10. m = [node |-> m.node, head |-> m.head, length |-> m.length, hint |-> m.hint]
    BY <1>6, <1>9
<1>11. Swallowed(m, l, c, d)
    BY <1>2, <1>4, <1>8, <1>9, <1>10 DEF Swallowed
<1>12. QED
    BY <1>1, <1>11

\* A range that takes in the one after it stands for the same numbers, and ...
LEMMA SwallowKeeps ==
    ASSUME NEW b, NEW w, NEW o, Circle(b, w, o), NEW l, NEW S, NEW c, NEW h,
           Growing(l, b, w, o, S, c, h), NEW d \in DOMAIN l.node, d = l.node[c].next,
           F(b, l.node, d) =< L(b, l.node, c) + 1
    PROVE  LET m == Swallow(l, c)
           IN /\ Growing(m, b, w, o, S, c, h)
              /\ m.head = l.head
              /\ \/ m.node[c].next = None
                 \/ F(b, m.node, m.node[c].next) > F(b, l.node, d)
<1>1. /\ IsSnd(l) /\ Laid(l.node, b, w, o) /\ Apart(l.node, b, c) /\ Linked(l.node, b)
      /\ Leads(l.node, b, h) /\ c \in DOMAIN l.node /\ l.hint = c /\ S = Numbers(l.node, b, None)
      /\ l.length = Cardinality(Numbers(l.node, b, c)) + (L(b, l.node, c) - F(b, l.node, c) + 1)
    BY DEF Growing
<1>2. d # None
    <2>1. d \in Slots
        BY <1>1, Placed
    <2>2. QED
        BY <2>1 DEF Slots, None
<1>3. /\ F(b, l.node, c) < F(b, l.node, d)
      /\ \A t \in DOMAIN l.node : F(b, l.node, t) =< F(b, l.node, c) \/ F(b, l.node, d) =< F(b, l.node, t)
    <2>1. Follows(l.node, b, c, d)
        BY <1>1 DEF Linked
    <2>2. QED
        BY <1>2, <2>1 DEF Follows
<1>4. \A s \in DOMAIN l.node : /\ F(b, l.node, s) \in Int /\ L(b, l.node, s) \in Int
                               /\ F(b, l.node, s) =< L(b, l.node, s)
    BY <1>1, Placed
<1>5. d # c
    BY <1>1, <1>3, <1>4
<1> DEFINE last == LastOf(l, c, d)
           shared == Shared(l, c, d)
<1>6. PICK m :
          /\ m = Swallow(l, c)
          /\ m = [node |-> m.node, head |-> m.head, length |-> m.length, hint |-> m.hint]
          /\ m.head = l.head /\ m.hint = l.hint
          /\ DOMAIN m.node = DOMAIN l.node \ {d}
          /\ m.node = [s \in DOMAIN m.node |-> m.node[s]]
          /\ \A s \in DOMAIN m.node \ {c} : m.node[s] = l.node[s]
          /\ m.node[c] = SndNode(l.node[c].first, last, l.node[d].next)
          /\ m.length = l.length - shared
    <2>1. Swallowed(Swallow(l, c), l, c, d)
        BY <1>1, <1>5, SwallowIs
    <2>2. QED
        BY <2>1 DEF Swallowed
<1>7. /\ b \in SeqNos /\ w \in Nat
      /\ l.node[c].first \in Window(b, SeqNoTH) /\ l.node[c].last \in Window(b, SeqNoTH)
      /\ l.node[d].first \in Window(b, SeqNoTH) /\ l.node[d].last \in Window(b, SeqNoTH)
    BY <1>1, Placed, Sizes
<1>8. PICK fc \in 0 .. w - 1, lc \in 0 .. w - 1, fd \in 0 .. w - 1, ld \in 0 .. w - 1 :
          /\ fc = F(b, l.node, c) /\ lc = L(b, l.node, c) /\ fd = F(b, l.node, d) /\ ld = L(b, l.node, d)
          /\ fc =< lc /\ fd =< ld /\ fc < fd /\ fd =< lc + 1
    <2>1. /\ F(b, l.node, c) \in 0 .. w - 1 /\ L(b, l.node, c) \in 0 .. w - 1
          /\ F(b, l.node, d) \in 0 .. w - 1 /\ L(b, l.node, d) \in 0 .. w - 1
        BY <1>1, Placed
    <2>2. QED
        BY <1>1, <1>3, <1>4, <2>1
<1>9. Pos(b, last) = (IF ld > lc THEN ld ELSE lc) /\ last \in Window(b, w)
    <2>1. SeqCmp(l.node[d].last, l.node[c].last) > 0 <=> ld > lc
        BY <1>7, <1>8, Compared DEF L
    <2>2. Pos(b, l.node[d].last) = ld /\ Pos(b, l.node[c].last) = lc
        BY <1>8 DEF L
    <2>3. l.node[d].last \in Window(b, w) /\ l.node[c].last \in Window(b, w)
        BY <1>1 DEF Laid
    <2>4. QED
        BY <2>1, <2>2, <2>3 DEF LastOf
<1>10. shared = IF fd > lc THEN 0 ELSE (IF ld > lc THEN lc ELSE ld) - fd + 1
    <2>1. SeqCmp(l.node[d].last, l.node[c].last) > 0 <=> ld > lc
        BY <1>7, <1>8, Compared DEF L
    <2>2. SeqCmp(l.node[d].first, l.node[c].last) > 0 <=> fd > lc
        BY <1>7, <1>8, Compared DEF F, L
    <2>3. fd =< lc => SeqLen(l.node[d].first, l.node[c].last) = lc - fd + 1
        BY <1>7, <1>8, Compared DEF F, L
    <2>4. SeqLen(l.node[d].first, l.node[d].last) = ld - fd + 1
        BY <1>7, <1>8, Compared DEF F, L
    <2>5. CASE fd > lc
        BY <2>2, <2>5 DEF Shared
    <2>6. CASE fd =< lc /\ ld > lc
        <3>1. shared = SeqLen(l.node[d].first, l.node[c].last)
            BY <1>8, <2>1, <2>2, <2>6 DEF Shared
        <3>2. QED
            BY <1>8, <2>3, <2>6, <3>1
    <2>7. CASE fd =< lc /\ ~ (ld > lc)
        <3>1. shared = SeqLen(l.node[d].first, l.node[d].last)
            BY <1>8, <2>1, <2>2, <2>7 DEF Shared
        <3>2. QED
            BY <1>8, <2>4, <2>7, <3>1
    <2>8. QED
        BY <1>8, <2>5, <2>6, <2>7
<1> HIDE DEF last, shared
<1>11. \A s \in DOMAIN m.node \ {c} :
           /\ s \in DOMAIN l.node /\ s # d
           /\ F(b, m.node, s) = F(b, l.node, s) /\ L(b, m.node, s) = L(b, l.node, s)
           /\ m.node[s].next = l.node[s].next
    BY <1>6 DEF F, L
<1>12. /\ c \in DOMAIN m.node /\ F(b, m.node, c) = fc /\ L(b, m.node, c) = IF ld > lc THEN ld ELSE lc
       /\ m.node[c].next = l.node[d].next /\ m.node[c].first = l.node[c].first /\ m.node[c].last = last
    <2>1. c \in DOMAIN m.node
        BY <1>1, <1>5, <1>6
    <2>2. /\ m.node[c].next = l.node[d].next /\ m.node[c].first = l.node[c].first
          /\ m.node[c].last = last
        BY <1>6 DEF SndNode
    <2>3. QED
        BY <1>8, <1>9, <2>1, <2>2 DEF F, L
<1>13. \A s \in DOMAIN m.node : F(b, m.node, s) = F(b, l.node, s) /\ s \in DOMAIN l.node
    BY <1>8, <1>11, <1>12, <1>1
<1>14. IsSnd(m)
    <2>1. \A s \in DOMAIN m.node :
              m.node[s] = SndNode(m.node[s].first, m.node[s].last, m.node[s].next)
        <3> SUFFICES ASSUME NEW s \in DOMAIN m.node
                     PROVE  m.node[s] = SndNode(m.node[s].first, m.node[s].last, m.node[s].next)
            OBVIOUS
        <3>1. CASE s = c
            BY <1>6, <1>12, <3>1
        <3>2. CASE s # c
            <4>1. m.node[s] = l.node[s] /\ s \in DOMAIN l.node
                BY <1>6, <1>11, <3>2
            <4>2. l.node[s] = SndNode(l.node[s].first, l.node[s].last, l.node[s].next)
                BY <1>1, <4>1 DEF IsSnd
            <4>3. QED
                BY <4>1, <4>2
        <3>3. QED
            BY <3>1, <3>2
    <2>2. m.hint \in DOMAIN m.node /\ m.head \in Slots \cup {None}
        BY <1>1, <1>6, <1>12 DEF IsSnd
    <2>3. QED
        BY <1>6, <2>1, <2>2 DEF IsSnd
<1>15. Laid(m.node, b, w, o)
    <2> SUFFICES ASSUME NEW s \in DOMAIN m.node
                 PROVE  /\ m.node[s].first \in Window(b, w) /\ m.node[s].last \in Window(b, w)
                        /\ F(b, m.node, s) =< L(b, m.node, s)
                        /\ s = At(o, F(b, m.node, s))
        BY <1>6 DEF Laid
    <2>1. CASE s = c
        <3>1. m.node[c].first \in Window(b, w) /\ c = At(o, F(b, l.node, c))
            BY <1>1, <1>12 DEF Laid
        <3>2. F(b, m.node, c) =< L(b, m.node, c)
            BY <1>8, <1>12
        <3>3. QED
            BY <1>8, <1>9, <1>12, <2>1, <3>1, <3>2
    <2>2. CASE s # c
        <3>1. m.node[s] = l.node[s] /\ s \in DOMAIN l.node
            BY <1>6, <1>11, <2>2
        <3>2. QED
            BY <1>1, <1>11, <2>2, <3>1 DEF Laid
    <2>3. QED
        BY <2>1, <2>2
<1>16. Apart(m.node, b, c)
    BY <1>1, <1>11, <1>13 DEF Apart
<1>17. Linked(m.node, b)
    <2> SUFFICES ASSUME NEW s \in DOMAIN m.node PROVE Follows(m.node, b, s, m.node[s].next)
        BY DEF Linked
    <2>1. CASE s = c
        <3>1. Follows(l.node, b, d, l.node[d].next)
            BY <1>1 DEF Linked
        <3>2. CASE l.node[d].next = None
            <4>1. ASSUME NEW t \in DOMAIN m.node PROVE F(b, m.node, t) =< F(b, m.node, c)
                <5>1. F(b, l.node, t) =< F(b, l.node, d) /\ t \in DOMAIN l.node /\ t # d
                    BY <1>6, <1>13, <3>1, <3>2 DEF Follows
                <5>2. F(b, l.node, t) # F(b, l.node, d)
                    BY <1>1, <5>1, OneSlot
                <5>3. F(b, l.node, t) =< F(b, l.node, c)
                    BY <1>3, <1>4, <5>1, <5>2
                <5>4. QED
                    BY <1>12, <1>13, <5>3
            <4>2. QED
                BY <1>12, <2>1, <3>2, <4>1 DEF Follows
        <3>3. CASE l.node[d].next # None
            <4>1. PICK e \in DOMAIN l.node : e = l.node[d].next
                BY <3>1, <3>3 DEF Follows
            <4>2. /\ F(b, l.node, d) < F(b, l.node, e)
                  /\ \A t \in DOMAIN l.node : \/ F(b, l.node, t) =< F(b, l.node, d)
                                              \/ F(b, l.node, e) =< F(b, l.node, t)
                BY <3>1, <3>3, <4>1 DEF Follows
            <4>3. e \in DOMAIN m.node /\ e # c
                BY <1>1, <1>3, <1>4, <1>6, <4>1, <4>2
            <4>4. ASSUME NEW t \in DOMAIN m.node
                  PROVE  F(b, m.node, t) =< F(b, m.node, c) \/ F(b, m.node, e) =< F(b, m.node, t)
                <5>1. t \in DOMAIN l.node /\ t # d
                    BY <1>6, <1>13
                <5>2. F(b, l.node, t) # F(b, l.node, d)
                    BY <1>1, <5>1, OneSlot
                <5>3. F(b, l.node, t) =< F(b, l.node, c) \/ F(b, l.node, e) =< F(b, l.node, t)
                    BY <1>3, <1>4, <4>1, <4>2, <5>1, <5>2
                <5>4. QED
                    BY <1>12, <1>13, <4>3, <5>3
            <4>5. F(b, m.node, c) < F(b, m.node, e)
                BY <1>1, <1>3, <1>4, <1>12, <1>13, <4>1, <4>2, <4>3
            <4>6. m.node[c].next = e /\ e # None
                BY <1>12, <3>3, <4>1
            <4>7. QED
                BY <2>1, <4>3, <4>4, <4>5, <4>6 DEF Follows
        <3>4. QED
            BY <3>2, <3>3
    <2>2. CASE s # c
        <3>1. s \in DOMAIN l.node /\ m.node[s].next = l.node[s].next
            BY <1>11, <2>2
        <3>2. Follows(l.node, b, s, l.node[s].next)
            BY <1>1, <3>1 DEF Linked
        <3>3. l.node[s].next # d
            BY <1>1, <1>2, <2>2, <3>1, OnePrior
        <3>4. QED
            BY <1>6, <1>13, <3>1, <3>2, <3>3 DEF Follows
    <2>3. QED
        BY <2>1, <2>2
<1>18. Leads(m.node, b, h)
    <2>1. h \in DOMAIN l.node /\ \A t \in DOMAIN l.node : F(b, l.node, h) =< F(b, l.node, t)
        BY <1>1 DEF Leads
    <2>2. h # d
        BY <1>1, <1>3, <1>4, <2>1
    <2>3. h \in DOMAIN m.node
        BY <1>6, <2>1, <2>2
    <2>4. QED
        BY <1>13, <2>1, <2>3 DEF Leads
<1>19. S = Numbers(m.node, b, None)
    <2>1. ASSUME NEW x \in SeqNos, Pos(b, x) \in Int
          PROVE  (\E s \in DOMAIN l.node \ {None} : Pos(b, x) \in F(b, l.node, s) .. L(b, l.node, s))
                 <=> (\E s \in DOMAIN m.node \ {None} : Pos(b, x) \in F(b, m.node, s) .. L(b, m.node, s))
        <3>1. ASSUME NEW s \in DOMAIN l.node \ {None}, Pos(b, x) \in F(b, l.node, s) .. L(b, l.node, s)
              PROVE  \E t \in DOMAIN m.node \ {None} : Pos(b, x) \in F(b, m.node, t) .. L(b, m.node, t)
            <4>1. CASE s \in {c, d}
                <5>1. Pos(b, x) \in fc .. (IF ld > lc THEN ld ELSE lc)
                    BY <1>8, <2>1, <3>1, <4>1
                <5>2. c # None
                    BY <1>1, Placed DEF Slots, None
                <5>3. Pos(b, x) \in F(b, m.node, c) .. L(b, m.node, c)
                    BY <1>12, <5>1
                <5>4. QED
                    BY <1>12, <5>2, <5>3
            <4>2. CASE s \notin {c, d}
                <5>1. s \in DOMAIN m.node \ {c}
                    BY <1>6, <4>2
                <5>2. QED
                    BY <1>11, <3>1, <5>1
            <4>3. QED
                BY <4>1, <4>2
        <3>2. ASSUME NEW s \in DOMAIN m.node \ {None}, Pos(b, x) \in F(b, m.node, s) .. L(b, m.node, s)
              PROVE  \E t \in DOMAIN l.node \ {None} : Pos(b, x) \in F(b, l.node, t) .. L(b, l.node, t)
            <4>1. CASE s = c
                <5>1. Pos(b, x) \in fc .. lc \/ Pos(b, x) \in fd .. ld
                    BY <1>8, <1>12, <2>1, <3>2, <4>1
                <5>2. c \in DOMAIN l.node \ {None} /\ d \in DOMAIN l.node \ {None}
                    BY <1>1, <1>2, <4>1
                <5>3. QED
                    BY <1>8, <5>1, <5>2
            <4>2. CASE s # c
                <5>1. s \in DOMAIN l.node \ {None}
                    BY <1>11, <4>2
                <5>2. QED
                    BY <1>11, <3>2, <4>2, <5>1
            <4>3. QED
                BY <4>1, <4>2
        <3>3. QED
            BY <3>1, <3>2
    <2>2. \A x \in SeqNos : Pos(b, x) \in Int
        BY <1>7, PosType
    <2>3. Numbers(l.node, b, None) = Numbers(m.node, b, None)
        BY <2>1, <2>2 DEF Numbers
    <2>4. QED
        BY <1>1, <2>3
<1>20. m.length = Cardinality(Numbers(m.node, b, c)) + (L(b, m.node, c) - F(b, m.node, c) + 1)
    <2>1. DOMAIN m.node \ {c} = DOMAIN l.node \ {c, d}
        BY <1>6
    <2>2. ASSUME NEW s \in DOMAIN l.node \ {c, d}
          PROVE  L(b, l.node, s) < F(b, l.node, d) \/ L(b, l.node, d) < F(b, l.node, s)
        <3>1. F(b, l.node, s) # F(b, l.node, d)
            BY <1>1, <2>2, OneSlot
        <3>2. F(b, l.node, s) < F(b, l.node, d) \/ F(b, l.node, d) < F(b, l.node, s)
            BY <1>4, <3>1
        <3>3. QED
            BY <1>1, <1>5, <2>2, <3>2 DEF Apart
    <2>3. Cardinality(Numbers(l.node, b, c))
              = Cardinality(Numbers(m.node, b, c)) + (L(b, l.node, d) - F(b, l.node, d) + 1)
        BY <1>1, <1>5, <1>11, <1>15, <2>1, <2>2, NumbersPlus
    <2>4. PICK k \in Nat : k = Cardinality(Numbers(m.node, b, c))
        BY <1>15, NumbersFinite
    <2>5. l.length = k + (ld - fd + 1) + (lc - fc + 1)
        BY <1>1, <1>8, <2>3, <2>4
    <2>6. QED
        BY <1>6, <1>8, <1>10, <1>12, <2>4, <2>5
<1>21. m.hint = c
    BY <1>1, <1>6
<1>22. Growing(m, b, w, o, S, c, h)
    BY <1>12, <1>14, <1>15, <1>16, <1>17, <1>18, <1>19, <1>20, <1>21 DEF Growing
<1>23. m.node[c].next = None \/ F(b, m.node, m.node[c].next) > F(b, l.node, d)
    <2> SUFFICES ASSUME m.node[c].next # None
                 PROVE  F(b, m.node, m.node[c].next) > F(b, l.node, d)
        OBVIOUS
    <2>1. Follows(l.node, b, d, l.node[d].next)
        BY <1>1 DEF Linked
    <2>2. PICK e \in DOMAIN l.node : e = m.node[c].next /\ F(b, l.node, d) < F(b, l.node, e)
        BY <1>12, <2>1 DEF Follows
    <2>3. e \in DOMAIN m.node
        BY <1>4, <1>6, <2>2
    <2>4. QED
        BY <1>4, <1>13, <2>2, <2>3
<1>24. QED
    BY <1>6, <1>22, <1>23

\* The numbers of one range and those of the others.
LEMMA CountOne ==
    ASSUME NEW b, NEW w, NEW o, Circle(b, w, o), NEW node, Laid(node, b, w, o),
           Apart(node, b, None), NEW c \in DOMAIN node
    PROVE  /\ Numbers(node, b, None) = Numbers(node, b, c) \cup Span(b, F(b, node, c), L(b, node, c))
           /\ Numbers(node, b, c) \cap Span(b, F(b, node, c), L(b, node, c)) = {}
           /\ Cardinality(Numbers(node, b, None))
                  = Cardinality(Numbers(node, b, c)) + (L(b, node, c) - F(b, node, c) + 1)
<1>1. \A s \in DOMAIN node : /\ F(b, node, s) \in Int /\ L(b, node, s) \in Int
                             /\ F(b, node, s) =< L(b, node, s) /\ s # None
    <2>1. \A s \in Slots : s # None
        BY DEF Slots, None
    <2>2. QED
        BY <2>1, Placed
<1>2. ASSUME NEW x \in SeqNos
      PROVE  x \in Numbers(node, b, None)
                 <=> x \in Numbers(node, b, c) \/ x \in Span(b, F(b, node, c), L(b, node, c))
    BY <1>1 DEF Numbers, Span
<1>3. Numbers(node, b, None) = Numbers(node, b, c) \cup Span(b, F(b, node, c), L(b, node, c))
    BY <1>2 DEF Numbers, Span
<1>4. ASSUME NEW x \in Numbers(node, b, c), x \in Span(b, F(b, node, c), L(b, node, c)) PROVE FALSE
    <2>1. PICK s \in DOMAIN node \ {c} : x \in SeqNos /\ Pos(b, x) \in F(b, node, s) .. L(b, node, s)
        BY DEF Numbers
    <2>2. Pos(b, x) \in F(b, node, c) .. L(b, node, c)
        BY <1>4 DEF Span
    <2>3. F(b, node, s) # F(b, node, c)
        BY <2>1, OneSlot
    <2>4. L(b, node, s) < F(b, node, c) \/ L(b, node, c) < F(b, node, s)
        BY <1>1, <2>1, <2>3 DEF Apart
    <2>5. QED
        BY <1>1, <2>1, <2>2, <2>4
<1>5. Numbers(node, b, c) \cap Span(b, F(b, node, c), L(b, node, c)) = {}
    BY <1>4
<1>6. /\ F(b, node, c) \in 0 .. w - 1 /\ L(b, node, c) \in 0 .. w - 1
      /\ F(b, node, c) =< L(b, node, c)
    BY Placed
<1>7. IsFiniteSet(Numbers(node, b, c))
    BY NumbersFinite
<1>8. QED
    BY <1>3, <1>5, <1>6, <1>7, CountBoth

\* The lists there can be, for functions of them.
SndLists ==
    [node : UNION {[D -> [first : SeqNos, last : SeqNos, next : Slots \cup {None}]] : D \in SUBSET Slots},
     head : Slots \cup {None}, length : Int, hint : Slots \cup {None}]

LEMMA SndIsList ==
    ASSUME NEW b, NEW w, NEW o, Circle(b, w, o), NEW l, IsSnd(l), Laid(l.node, b, w, o),
           Linked(l.node, b), l.length \in Int
    PROVE  l \in SndLists
<1>1. DOMAIN l.node \in SUBSET Slots
    BY Placed
<1>2. ASSUME NEW s \in DOMAIN l.node
      PROVE  l.node[s] \in [first : SeqNos, last : SeqNos, next : Slots \cup {None}]
    <2>1. l.node[s].first \in SeqNos /\ l.node[s].last \in SeqNos
        BY Placed
    <2>2. l.node[s].next \in Slots \cup {None}
        BY <1>1 DEF Linked, Follows
    <2>3. l.node[s] = [first |-> l.node[s].first, last |-> l.node[s].last, next |-> l.node[s].next]
        BY DEF IsSnd, SndNode
    <2>4. QED
        BY <2>1, <2>2, <2>3
<1>3. l.node \in [DOMAIN l.node -> [first : SeqNos, last : SeqNos, next : Slots \cup {None}]]
    BY <1>2 DEF Laid
<1>4. l.head \in Slots \cup {None} /\ l.hint \in Slots \cup {None}
    BY <1>1 DEF IsSnd
<1>5. l.node \in UNION {[D -> [first : SeqNos, last : SeqNos, next : Slots \cup {None}]] : D \in SUBSET Slots}
    BY <1>1, <1>3
<1>6. l = [node |-> l.node, head |-> l.head, length |-> l.length, hint |-> l.hint]
    BY DEF IsSnd
<1>7. QED
    BY <1>4, <1>5, <1>6 DEF SndLists

LEMMA GrowingIsList ==
    ASSUME NEW b, NEW w, NEW o, Circle(b, w, o), NEW l, NEW S, NEW c, NEW h,
           Growing(l, b, w, o, S, c, h)
    PROVE  l \in SndLists
<1>1. /\ IsSnd(l) /\ Laid(l.node, b, w, o) /\ Linked(l.node, b) /\ c \in DOMAIN l.node
      /\ l.length = Cardinality(Numbers(l.node, b, c)) + (L(b, l.node, c) - F(b, l.node, c) + 1)
    BY DEF Growing
<1>2. l.length \in Int
    <2>1. /\ Cardinality(Numbers(l.node, b, c)) \in Int
          /\ L(b, l.node, c) \in Int /\ F(b, l.node, c) \in Int
        BY <1>1, NumbersFinite, Placed
    <2>2. QED
        BY <1>1, <2>1
<1>3. QED
    BY <1>1, <1>2, SndIsList

\* The range in slot c takes in the one after it.
Touching(m, c) ==
    LET a == m.node[c]
    IN /\ a.next # None /\ a.last # a.first
       /\ SeqCmp(m.node[a.next].first, IncSeq(a.last)) =< 0

LEMMA TouchingIs ==
    ASSUME NEW b, NEW w, NEW o, Circle(b, w, o), NEW m, NEW S, NEW c, NEW h,
           Growing(m, b, w, o, S, c, h)
    PROVE  /\ m.node[c].next # None => m.node[c].next \in DOMAIN m.node
           /\ Touching(m, c) <=> /\ m.node[c].next # None
                                 /\ F(b, m.node, c) # L(b, m.node, c)
                                 /\ F(b, m.node, m.node[c].next) =< L(b, m.node, c) + 1
<1>1. Laid(m.node, b, w, o) /\ Linked(m.node, b) /\ c \in DOMAIN m.node
    BY DEF Growing
<1>2. m.node[c].next # None => m.node[c].next \in DOMAIN m.node
    BY <1>1 DEF Linked, Follows
<1>3. /\ b \in SeqNos /\ w \in Nat /\ w =< SeqNoTH - 1 /\ SeqNoTH \in Nat
      /\ L(b, m.node, c) \in 0 .. w - 1
      /\ m.node[c].first \in Window(b, SeqNoTH) /\ m.node[c].last \in Window(b, SeqNoTH)
    BY <1>1, Placed, Sizes
<1>4. m.node[c].last # m.node[c].first <=> F(b, m.node, c) # L(b, m.node, c)
    BY <1>3, Compared DEF F, L
<1>5. IncSeq(m.node[c].last) \in Window(b, SeqNoTH) /\ Pos(b, IncSeq(m.node[c].last)) = L(b, m.node, c) + 1
    <2>1. m.node[c].last \in SeqNos /\ Pos(b, m.node[c].last) \in 0 .. SeqNoTH - 2
        BY <1>3 DEF Window, L
    <2>2. IncSeq(m.node[c].last) \in SeqNos /\ Pos(b, IncSeq(m.node[c].last)) = Pos(b, m.node[c].last) + 1
        BY <1>3, <2>1, NextNumber
    <2>3. QED
        BY <1>3, <2>1, <2>2 DEF Window, L
<1>6. ASSUME m.node[c].next # None
      PROVE  SeqCmp(m.node[m.node[c].next].first, IncSeq(m.node[c].last)) =< 0
                 <=> F(b, m.node, m.node[c].next) =< L(b, m.node, c) + 1
    <2>1. m.node[m.node[c].next].first \in Window(b, SeqNoTH)
        BY <1>1, <1>2, <1>6, Placed
    <2>2. QED
        BY <1>3, <1>5, <2>1, Compared DEF F
<1>7. QED
    BY <1>2, <1>4, <1>6 DEF Touching

\* ... and goes on until it touches the next one no more.
LEMMA CoalesceIs ==
    ASSUME NEW b, NEW w, NEW o, Circle(b, w, o), NEW l, NEW S, NEW c, NEW h,
           Growing(l, b, w, o, S, c, h)
    PROVE  LET m == Coalesce(l, c)
           IN Growing(m, b, w, o, S, c, h) /\ m.head = l.head /\ ~ Touching(m, c)
<1> DEFINE X == {m \in SndLists : Growing(m, b, w, o, S, c, h) /\ m.head = l.head}
           step == [m \in X |-> IF Touching(m, c) THEN Swallow(m, c) ELSE m]
           Touches(m) == LET a == m.node[c]
                         IN /\ a.next # None /\ a.last # a.first
                            /\ SeqCmp(m.node[a.next].first, IncSeq(a.last)) =< 0
           after[n \in 0 .. ListSize] ==
               IF n = 0 THEN l
               ELSE LET m == after[n - 1] IN IF Touches(m) THEN Swallow(m, c) ELSE m
<1>0. ListSize \in Nat
    BY ListAssumption
<1>1. Coalesce(l, c) = after[ListSize]
    BY DEF Coalesce
<1>2. l \in X
    BY GrowingIsList
<1>3. ASSUME NEW m \in X, Touching(m, c)
      PROVE  /\ Swallow(m, c) \in X
             /\ Touching(Swallow(m, c), c) =>
                    F(b, Swallow(m, c).node, Swallow(m, c).node[c].next) > F(b, m.node, m.node[c].next)
    <2>1. Growing(m, b, w, o, S, c, h)
        OBVIOUS
    <2>2. PICK d : d = m.node[c].next
        OBVIOUS
    <2>3. d \in DOMAIN m.node /\ F(b, m.node, d) =< L(b, m.node, c) + 1
        BY <1>3, <2>1, <2>2, TouchingIs
    <2>4. PICK v : v = Swallow(m, c)
        OBVIOUS
    <2>5. /\ Growing(v, b, w, o, S, c, h) /\ v.head = m.head
          /\ v.node[c].next = None \/ F(b, v.node, v.node[c].next) > F(b, m.node, d)
        BY <2>1, <2>2, <2>3, <2>4, SwallowKeeps
    <2>6. v \in X
        BY <2>5, GrowingIsList
    <2>7. Touching(v, c) => v.node[c].next # None
        BY DEF Touching
    <2>8. QED
        BY <2>2, <2>4, <2>5, <2>6, <2>7
<1>4. step \in [X -> X]
    <2> HIDE DEF X
    <2> QED BY <1>3
<1>5. PICK v \in [0 .. ListSize -> X] : v = [n \in 0 .. ListSize |-> IF n = 0 THEN l ELSE step[v[n - 1]]]
    <2>1. PICK Y, g, x : Y = X /\ g = step /\ x = l
        OBVIOUS
    <2>2. x \in Y /\ g \in [Y -> Y]
        BY <1>2, <1>4, <2>1
    <2>3. PICK v \in [0 .. ListSize -> Y] : Repeats(v, ListSize, x, g)
        BY <1>0, <2>2, Iterates
    <2>4. v = [n \in 0 .. ListSize |-> IF n = 0 THEN x ELSE g[v[n - 1]]]
        BY <2>3 DEF Repeats
    <2>5. QED
        <3> HIDE DEF step, X
        <3> QED BY <2>1, <2>3, <2>4
<1>6. v = [n \in 0 .. ListSize |->
              IF n = 0 THEN l
              ELSE LET m == v[n - 1] IN IF Touches(m) THEN Swallow(m, c) ELSE m]
    <2>1. \A n \in 0 .. ListSize : n # 0 =>
              step[v[n - 1]] = LET m == v[n - 1] IN IF Touches(m) THEN Swallow(m, c) ELSE m
        <3> SUFFICES ASSUME NEW n \in 0 .. ListSize, n # 0
                     PROVE  step[v[n - 1]] = LET m == v[n - 1] IN IF Touches(m) THEN Swallow(m, c) ELSE m
            OBVIOUS
        <3>1. v[n - 1] \in X
            <4> HIDE DEF X
            <4>1. n - 1 \in 0 .. ListSize
                BY <1>0
            <4>2. QED
                BY <4>1
        <3>2. step[v[n - 1]] = IF Touching(v[n - 1], c) THEN Swallow(v[n - 1], c) ELSE v[n - 1]
            <4> HIDE DEF X
            <4> QED BY <3>1
        <3>3. QED
            <4> HIDE DEF X, step
            <4> QED BY <3>2 DEF Touching
    <2>2. QED
        <3> HIDE DEF step, X, Touches
        <3> QED BY <1>5, <2>1
<1>7. after = [n \in 0 .. ListSize |->
                  IF n = 0 THEN l
                  ELSE LET m == after[n - 1] IN IF Touches(m) THEN Swallow(m, c) ELSE m]
    <2>1. \E f : f = [n \in 0 .. ListSize |->
                         IF n = 0 THEN l
                         ELSE LET m == f[n - 1] IN IF Touches(m) THEN Swallow(m, c) ELSE m]
        BY <1>6
    <2> HIDE DEF Touches
    <2>2. QED
        BY <2>1
<1>8. after[0] = l /\ \A n \in 0 .. ListSize - 1 :
                          after[n + 1] = IF Touching(after[n], c) THEN Swallow(after[n], c) ELSE after[n]
    <2> HIDE DEF after
    <2>1. after[0] = l
        BY <1>0, <1>7
    <2>2. ASSUME NEW n \in 0 .. ListSize - 1
          PROVE  after[n + 1] = IF Touching(after[n], c) THEN Swallow(after[n], c) ELSE after[n]
        <3>1. n + 1 \in 0 .. ListSize /\ n + 1 # 0 /\ (n + 1) - 1 = n
            BY <1>0
        <3>2. Touching(after[n], c) <=> Touches(after[n])
            BY DEF Touching
        <3> HIDE DEF Touches
        <3>3. QED
            BY <1>7, <3>1, <3>2
    <2>3. QED
        BY <2>1, <2>2
<1> HIDE DEF after, step
<1> DEFINE G == {n \in Nat : /\ after[n] \in X
                             /\ Touching(after[n], c) => F(b, after[n].node, after[n].node[c].next) >= n + 1}
<1>9. ASSUME NEW m \in X, Touching(m, c)
      PROVE  /\ F(b, m.node, m.node[c].next) \in 0 .. w - 1
             /\ F(b, m.node, m.node[c].next) > F(b, m.node, c) /\ F(b, m.node, c) \in 0 .. w - 1
    <2>1. Growing(m, b, w, o, S, c, h) /\ m.node[c].next # None
        BY <1>9 DEF Touching
    <2>2. Laid(m.node, b, w, o) /\ Linked(m.node, b) /\ c \in DOMAIN m.node
        BY <2>1 DEF Growing
    <2>3. m.node[c].next \in DOMAIN m.node /\ F(b, m.node, m.node[c].next) > F(b, m.node, c)
        <3>1. Follows(m.node, b, c, m.node[c].next)
            BY <2>2 DEF Linked
        <3>2. PICK d : d = m.node[c].next
            OBVIOUS
        <3>3. d \in DOMAIN m.node /\ F(b, m.node, c) < F(b, m.node, d)
            BY <2>1, <3>1, <3>2 DEF Follows
        <3>4. F(b, m.node, c) \in Int /\ F(b, m.node, d) \in Int
            BY <2>2, <3>3, Placed
        <3>5. QED
            BY <3>2, <3>3, <3>4
    <2>4. QED
        BY <2>2, <2>3, Placed
<1>10. 0 \in G
    <2>1. after[0] = l /\ after[0] \in X
        BY <1>2, <1>8
    <2>2. Touching(after[0], c) => F(b, after[0].node, after[0].node[c].next) >= 0 + 1
        <3> HIDE DEF X
        <3> QED BY <1>9, <2>1
    <2>3. QED
        BY <2>1, <2>2
<1>11. ASSUME NEW n \in 0 .. ListSize - 1, n \in G PROVE n + 1 \in G
    <2>1. n + 1 \in Nat /\ after[n] \in X
        BY <1>11
    <2>2. CASE ~ Touching(after[n], c)
        <3>1. after[n + 1] = after[n]
            BY <1>8, <2>2
        <3>2. QED
            BY <2>1, <2>2, <3>1
    <2>3. CASE Touching(after[n], c)
        <3>1. after[n + 1] = Swallow(after[n], c)
            BY <1>8, <2>3
        <3>2. F(b, after[n].node, after[n].node[c].next) >= n + 1
            BY <1>11, <2>3
        <3> HIDE DEF X
        <3>3. after[n + 1] \in X
            BY <1>3, <2>1, <2>3, <3>1
        <3>4. Touching(after[n + 1], c) =>
                  F(b, after[n + 1].node, after[n + 1].node[c].next)
                      > F(b, after[n].node, after[n].node[c].next)
            BY <1>3, <2>1, <2>3, <3>1
        <3>5. Touching(after[n + 1], c) => F(b, after[n + 1].node, after[n + 1].node[c].next) >= n + 1 + 1
            <4> SUFFICES ASSUME Touching(after[n + 1], c)
                         PROVE  F(b, after[n + 1].node, after[n + 1].node[c].next) >= n + 1 + 1
                OBVIOUS
            <4>1. F(b, after[n + 1].node, after[n + 1].node[c].next) \in Int
                BY <1>9, <3>3
            <4>2. F(b, after[n].node, after[n].node[c].next) \in Int
                BY <1>9, <2>1, <2>3
            <4>3. QED
                BY <3>2, <3>4, <4>1, <4>2
        <3>6. QED
            BY <2>1, <3>3, <3>5
    <2>4. QED
        BY <2>2, <2>3
<1>12. ListSize \in G
    <2> HIDE DEF G
    <2>1. \A n \in 0 .. ListSize - 1 : n \in G => n + 1 \in G
        BY <1>11
    <2>2. \A n \in 0 .. ListSize : n \in G
        BY <1>0, <1>10, <2>1, Counting
    <2>3. QED
        BY <1>0, <2>2
<1>13. PICK m \in X : m = Coalesce(l, c) /\ (Touching(m, c) => F(b, m.node, m.node[c].next) >= ListSize + 1)
    <2>1. after[ListSize] \in X
        BY <1>12
    <2>2. Touching(after[ListSize], c) => F(b, after[ListSize].node, after[ListSize].node[c].next) >= ListSize + 1
        BY <1>12
    <2> HIDE DEF X
    <2>3. QED
        BY <1>1, <2>1, <2>2
<1>14. ~ Touching(m, c)
    <2> SUFFICES ASSUME Touching(m, c) PROVE FALSE
        OBVIOUS
    <2>1. w \in Nat /\ w =< ListSize
        BY Sizes
    <2>2. QED
        <3> HIDE DEF X
        <3> QED BY <1>0, <1>9, <1>13, <2>1
<1>15. QED
    BY <1>13, <1>14

\* Then the list is as it should be, once it has its head.
LEMMA GrownUp ==
    ASSUME NEW b, NEW w, NEW o, Circle(b, w, o), NEW l, NEW S, NEW c, NEW h,
           Growing(l, b, w, o, S, c, h), ~ Touching(l, c)
    PROVE  SndGood([l EXCEPT !.head = h], b, w, o, S)
<1>1. /\ IsSnd(l) /\ Laid(l.node, b, w, o) /\ Apart(l.node, b, c) /\ Linked(l.node, b)
      /\ Leads(l.node, b, h) /\ c \in DOMAIN l.node
      /\ S = Numbers(l.node, b, None)
      /\ l.length = Cardinality(Numbers(l.node, b, c)) + (L(b, l.node, c) - F(b, l.node, c) + 1)
    BY DEF Growing
<1>2. \A s \in DOMAIN l.node : /\ F(b, l.node, s) \in Int /\ L(b, l.node, s) \in Int
                               /\ F(b, l.node, s) =< L(b, l.node, s) /\ s \in Slots
    BY <1>1, Placed
<1>3. ASSUME NEW t \in DOMAIN l.node, F(b, l.node, c) < F(b, l.node, t)
      PROVE  L(b, l.node, c) < F(b, l.node, t)
    <2>1. CASE F(b, l.node, c) = L(b, l.node, c)
        BY <1>3, <2>1
    <2>2. CASE F(b, l.node, c) # L(b, l.node, c)
        <3>1. PICK d : d = l.node[c].next
            OBVIOUS
        <3>2. Follows(l.node, b, c, d)
            BY <1>1, <3>1 DEF Linked
        <3>3. d # None
            BY <1>1, <1>2, <1>3, <3>2 DEF Follows
        <3>4. d \in DOMAIN l.node /\ F(b, l.node, d) =< F(b, l.node, t)
            BY <1>1, <1>2, <1>3, <3>2, <3>3 DEF Follows
        <3>5. ~ (F(b, l.node, d) =< L(b, l.node, c) + 1)
            BY <2>2, <3>1, <3>3, TouchingIs
        <3>6. QED
            BY <1>1, <1>2, <3>4, <3>5
    <2>3. QED
        BY <2>1, <2>2
<1>4. Apart(l.node, b, None)
    BY <1>1, <1>3 DEF Apart
<1>5. l.length = Cardinality(S)
    BY <1>1, <1>4, CountOne
<1>6. h \in DOMAIN l.node /\ h \in Slots \cup {None}
    BY <1>1, <1>2 DEF Leads
<1>7. [l EXCEPT !.head = h] = [node |-> l.node, head |-> h, length |-> l.length, hint |-> l.hint]
    BY <1>1 DEF IsSnd
<1>8. QED
    BY <1>1, <1>4, <1>5, <1>6, <1>7 DEF SndGood, IsSnd

-----------------------------------------------------------------------------
(* A range that is put in. *)

\* The links, when it comes after the one in slot i ...
LEMMA LinkAfter ==
    ASSUME NEW b, NEW w, NEW o, Circle(b, w, o), NEW node, Laid(node, b, w, o), Linked(node, b),
           NEW i \in DOMAIN node, NEW c, c \notin DOMAIN node, c # None,
           NEW after, DOMAIN after = DOMAIN node \cup {c}, F(b, after, c) \in Int,
           \A s \in DOMAIN node : F(b, after, s) = F(b, node, s),
           F(b, node, i) < F(b, after, c),
           \A t \in DOMAIN node : F(b, node, t) =< F(b, node, i) \/ F(b, after, c) < F(b, node, t),
           after[c].next = node[i].next, after[i].next = c,
           \A s \in DOMAIN node \ {i} : after[s].next = node[s].next
    PROVE  Linked(after, b)
<1>1. \A s \in DOMAIN node : F(b, node, s) \in Int
    BY Placed
<1>2. Follows(node, b, i, node[i].next)
    BY DEF Linked
<1>3. node[i].next # None =>
          node[i].next \in DOMAIN node /\ F(b, node, i) < F(b, node, node[i].next)
    BY <1>2 DEF Follows
<1>4. Follows(after, b, c, after[c].next)
    <2>1. CASE node[i].next = None
        <3>1. \A t \in DOMAIN node : F(b, node, t) =< F(b, node, i)
            BY <1>2, <2>1 DEF Follows
        <3>2. \A t \in DOMAIN after : F(b, after, t) =< F(b, after, c)
            BY <1>1, <3>1
        <3>3. QED
            BY <2>1, <3>2 DEF Follows
    <2>2. CASE node[i].next # None
        <3>1. PICK d \in DOMAIN node : d = node[i].next /\ F(b, node, i) < F(b, node, d)
            BY <1>3, <2>2
        <3>2. \A t \in DOMAIN node : F(b, node, t) =< F(b, node, i) \/ F(b, node, d) =< F(b, node, t)
            BY <1>2, <2>2, <3>1 DEF Follows
        <3>3. F(b, after, c) < F(b, after, d)
            BY <1>1, <3>1
        <3>4. \A t \in DOMAIN after : F(b, after, t) =< F(b, after, c) \/ F(b, after, d) =< F(b, after, t)
            BY <1>1, <3>1, <3>2
        <3>5. QED
            BY <2>2, <3>1, <3>3, <3>4 DEF Follows
    <2>3. QED
        BY <2>1, <2>2
<1>5. Follows(after, b, i, after[i].next)
    BY <1>1 DEF Follows
<1>6. ASSUME NEW s \in DOMAIN node \ {i} PROVE Follows(after, b, s, after[s].next)
    <2>1. Follows(node, b, s, node[s].next)
        BY DEF Linked
    <2>2. CASE node[s].next = None
        <3>1. \A t \in DOMAIN node : F(b, node, t) =< F(b, node, s)
            BY <2>1, <2>2 DEF Follows
        <3>2. F(b, node, i) # F(b, node, s)
            BY OneSlot
        <3>3. F(b, node, s) > F(b, after, c)
            BY <1>1, <3>1, <3>2
        <3>4. \A t \in DOMAIN after : F(b, after, t) =< F(b, after, s)
            BY <1>1, <3>1, <3>3
        <3>5. QED
            BY <2>2, <3>4 DEF Follows
    <2>3. CASE node[s].next # None
        <3>1. PICK d \in DOMAIN node : d = node[s].next /\ F(b, node, s) < F(b, node, d)
            BY <2>1, <2>3 DEF Follows
        <3>2. \A t \in DOMAIN node : F(b, node, t) =< F(b, node, s) \/ F(b, node, d) =< F(b, node, t)
            BY <2>1, <2>3, <3>1 DEF Follows
        <3>3. F(b, node, i) # F(b, node, s)
            BY OneSlot
        <3>4. F(b, after, c) =< F(b, after, s) \/ F(b, after, d) =< F(b, after, c)
            BY <1>1, <3>1, <3>2, <3>3
        <3>5. \A t \in DOMAIN after : F(b, after, t) =< F(b, after, s) \/ F(b, after, d) =< F(b, after, t)
            BY <3>1, <3>2, <3>4
        <3>6. after[s].next = d /\ d # None /\ d \in DOMAIN after /\ F(b, after, s) < F(b, after, d)
            BY <2>3, <3>1
        <3>7. QED
            BY <3>5, <3>6 DEF Follows
    <2>4. QED
        BY <2>2, <2>3
<1>7. QED
    BY <1>4, <1>5, <1>6 DEF Linked

\* ... and when it comes before all others.
LEMMA LinkFirst ==
    ASSUME NEW b, NEW w, NEW o, Circle(b, w, o), NEW node, Laid(node, b, w, o), Linked(node, b),
           NEW h \in DOMAIN node, Leads(node, b, h), NEW c, c \notin DOMAIN node, c # None,
           NEW after, DOMAIN after = DOMAIN node \cup {c}, F(b, after, c) \in Int,
           \A s \in DOMAIN node : F(b, after, s) = F(b, node, s),
           F(b, after, c) < F(b, node, h),
           after[c].next = h, \A s \in DOMAIN node : after[s].next = node[s].next
    PROVE  Linked(after, b) /\ Leads(after, b, c)
<1>1. \A s \in DOMAIN node : F(b, node, s) \in Int /\ s # None
    <2>1. \A s \in Slots : s # None
        BY DEF Slots, None
    <2>2. QED
        BY <2>1, Placed
<1>2. \A t \in DOMAIN node : F(b, node, h) =< F(b, node, t)
    BY DEF Leads
<1>3. \A t \in DOMAIN node : F(b, after, c) < F(b, node, t)
    BY <1>1, <1>2
<1>4. Leads(after, b, c)
    <2>1. \A t \in DOMAIN after : F(b, after, c) =< F(b, after, t)
        BY <1>1, <1>3
    <2>2. QED
        BY <2>1 DEF Leads
<1>5. Follows(after, b, c, after[c].next)
    <2>1. \A t \in DOMAIN after : F(b, after, t) =< F(b, after, c) \/ F(b, after, h) =< F(b, after, t)
        BY <1>2
    <2>2. QED
        BY <1>1, <2>1 DEF Follows
<1>6. ASSUME NEW s \in DOMAIN node PROVE Follows(after, b, s, after[s].next)
    <2>1. Follows(node, b, s, node[s].next)
        BY DEF Linked
    <2>2. F(b, after, c) =< F(b, after, s)
        BY <1>1, <1>3
    <2>3. CASE node[s].next = None
        BY <2>1, <2>2, <2>3 DEF Follows
    <2>4. CASE node[s].next # None
        BY <2>1, <2>2, <2>4 DEF Follows
    <2>5. QED
        BY <2>3, <2>4
<1>7. QED
    BY <1>4, <1>5, <1>6 DEF Linked

\* A slot in which no range of the list begins is not in use.
LEMMA FreeSlot ==
    ASSUME NEW b, NEW w, NEW o, Circle(b, w, o), NEW node, Laid(node, b, w, o),
           NEW p \in 0 .. w - 1, \A s \in DOMAIN node : F(b, node, s) # p
    PROVE  At(o, p) \notin DOMAIN node /\ At(o, p) \in Slots /\ At(o, p) # None
<1>1. p \in 0 .. ListSize - 1 /\ o \in 0 .. ListSize
    BY Sizes
<1>2. At(o, p) \in Slots
    BY <1>1, AtIs
<1>3. ASSUME At(o, p) \in DOMAIN node PROVE FALSE
    <2>1. PICK s \in DOMAIN node : s = At(o, p)
        BY <1>3
    <2>2. F(b, node, s) \in 0 .. ListSize - 1 /\ s = At(o, F(b, node, s))
        BY Placed
    <2>3. F(b, node, s) = p
        BY <1>1, <2>1, <2>2, AtOnce
    <2>4. QED
        BY <2>3
<1>4. QED
    BY <1>2, <1>3 DEF Slots, None

\* The list in the middle of the insertion.
LEMMA PutIn ==
    ASSUME NEW b, NEW w, NEW o, Circle(b, w, o), NEW l, NEW S, SndGood(l, b, w, o, S),
           NEW x \in Window(b, w), NEW y \in Window(b, w), Pos(b, x) =< Pos(b, y),
           NEW c, c = At(o, Pos(b, x)), c \notin DOMAIN l.node, NEW h,
           NEW m, IsSnd(m), m.hint = c, m.length = l.length + SeqLen(x, y),
           m.node = [s \in DOMAIN m.node |-> m.node[s]],
           DOMAIN m.node = DOMAIN l.node \cup {c},
           m.node[c].first = x, m.node[c].last = y,
           \A s \in DOMAIN l.node : m.node[s].first = l.node[s].first /\ m.node[s].last = l.node[s].last,
           \A s \in DOMAIN l.node : F(b, l.node, s) < Pos(b, x) => L(b, l.node, s) < Pos(b, x),
           Linked(m.node, b), Leads(m.node, b, h)
    PROVE  Growing(m, b, w, o, S \cup Between(x, y), c, h)
<1>1. /\ Laid(l.node, b, w, o) /\ Apart(l.node, b, None)
      /\ S = Numbers(l.node, b, None) /\ l.length = Cardinality(S)
    BY DEF SndGood
<1>2. \A s \in DOMAIN l.node : /\ F(b, l.node, s) \in Int /\ L(b, l.node, s) \in Int
                               /\ F(b, l.node, s) =< L(b, l.node, s) /\ s # None
    <2>1. \A s \in Slots : s # None
        BY DEF Slots, None
    <2>2. QED
        BY <1>1, <2>1, Placed
<1>3. F(b, m.node, c) = Pos(b, x) /\ L(b, m.node, c) = Pos(b, y)
    BY DEF F, L
<1>4. \A s \in DOMAIN l.node : F(b, m.node, s) = F(b, l.node, s) /\ L(b, m.node, s) = L(b, l.node, s)
    BY DEF F, L
<1>5. /\ b \in SeqNos /\ x \in Window(b, SeqNoTH) /\ y \in Window(b, SeqNoTH)
      /\ Pos(b, x) \in 0 .. w - 1 /\ Pos(b, y) \in 0 .. w - 1 /\ w \in Nat
    BY Sizes DEF Window
<1>6. Laid(m.node, b, w, o)
    <2> SUFFICES ASSUME NEW s \in DOMAIN m.node
                 PROVE  /\ m.node[s].first \in Window(b, w) /\ m.node[s].last \in Window(b, w)
                        /\ F(b, m.node, s) =< L(b, m.node, s)
                        /\ s = At(o, F(b, m.node, s))
        BY DEF Laid
    <2>1. CASE s = c
        BY <1>3, <2>1
    <2>2. CASE s # c
        <3>1. s \in DOMAIN l.node
            BY <2>2
        <3>2. /\ l.node[s].first \in Window(b, w) /\ l.node[s].last \in Window(b, w)
              /\ F(b, l.node, s) =< L(b, l.node, s) /\ s = At(o, F(b, l.node, s))
            BY <1>1, <3>1 DEF Laid
        <3>3. QED
            BY <1>4, <3>1, <3>2
    <2>3. QED
        BY <2>1, <2>2
<1>7. Apart(m.node, b, c)
    <2> SUFFICES ASSUME NEW s \in DOMAIN m.node, NEW t \in DOMAIN m.node, s # c,
                        F(b, m.node, s) < F(b, m.node, t)
                 PROVE  L(b, m.node, s) < F(b, m.node, t)
        BY DEF Apart
    <2>1. s \in DOMAIN l.node /\ s # None
        BY <1>2
    <2>2. CASE t = c
        BY <1>3, <1>4, <2>1, <2>2
    <2>3. CASE t # c
        <3>1. t \in DOMAIN l.node
            BY <2>3
        <3>2. QED
            BY <1>1, <1>4, <2>1, <3>1 DEF Apart
    <2>4. QED
        BY <2>2, <2>3
<1>8. Numbers(m.node, b, c) = S
    <2>1. DOMAIN m.node \ {c} = DOMAIN l.node \ {None}
        BY <1>2
    <2>2. QED
        BY <1>1, <1>4, <2>1 DEF Numbers
<1>9. Between(x, y) = Span(b, Pos(b, x), Pos(b, y))
    BY <1>5, BetweenIs
<1>10. Numbers(m.node, b, None) = S \cup Between(x, y)
    <2>1. c # None
        <3>1. c \in Slots
            BY <1>6, Placed
        <3>2. QED
            BY <3>1 DEF Slots, None
    <2>2. ASSUME NEW n \in SeqNos
          PROVE  n \in Numbers(m.node, b, None)
                     <=> n \in Numbers(m.node, b, c) \/ n \in Span(b, Pos(b, x), Pos(b, y))
        <3>1. None \notin DOMAIN m.node
            BY <1>2, <2>1
        <3>2. c \in DOMAIN m.node
            OBVIOUS
        <3>3. QED
            BY <1>3, <3>1, <3>2 DEF Numbers, Span
    <2>3. QED
        BY <1>8, <1>9, <2>2 DEF Numbers, Span
<1>11. m.length = Cardinality(Numbers(m.node, b, c)) + (L(b, m.node, c) - F(b, m.node, c) + 1)
    <2>1. SeqLen(x, y) = Pos(b, y) - Pos(b, x) + 1
        BY <1>5, Compared
    <2>2. QED
        BY <1>1, <1>3, <1>8, <2>1
<1>12. QED
    BY <1>6, <1>7, <1>10, <1>11 DEF Growing

-----------------------------------------------------------------------------
(* insert. *)

\* Nothing is listed exactly if the length is zero, and if no slot is in use.
LEMMA SndEmpty ==
    ASSUME NEW b, NEW w, NEW o, Circle(b, w, o), NEW l, NEW S, SndGood(l, b, w, o, S)
    PROVE  /\ l.length \in Nat /\ S \subseteq Window(b, w) /\ IsFiniteSet(S)
           /\ l.length = 0 <=> S = {}
           /\ S = {} <=> DOMAIN l.node = {}
           /\ S # {} => l.head \in DOMAIN l.node
           /\ \A t \in DOMAIN l.node : F(b, l.node, l.head) =< F(b, l.node, t)
<1>1. /\ Laid(l.node, b, w, o) /\ Leads(l.node, b, l.head)
      /\ S = Numbers(l.node, b, None) /\ l.length = Cardinality(S)
    BY DEF SndGood
<1>2. S \subseteq Window(b, w) /\ IsFiniteSet(S) /\ l.length \in Nat
    BY <1>1, NumbersFinite
<1>3. l.length = 0 <=> S = {}
    BY <1>1, <1>2, FS_EmptySet
<1>4. ASSUME NEW s \in DOMAIN l.node PROVE l.node[s].first \in S
    <2>1. /\ F(b, l.node, s) \in Int /\ L(b, l.node, s) \in Int
          /\ F(b, l.node, s) =< L(b, l.node, s)
          /\ l.node[s].first \in SeqNos /\ s \in Slots
        BY <1>1, Placed
    <2>2. s # None
        BY <2>1 DEF Slots, None
    <2>3. Pos(b, l.node[s].first) \in F(b, l.node, s) .. L(b, l.node, s)
        BY <2>1 DEF F
    <2>4. QED
        BY <1>1, <2>1, <2>2, <2>3 DEF Numbers
<1>5. S = {} <=> DOMAIN l.node = {}
    BY <1>1, <1>4 DEF Numbers
<1>6. QED
    BY <1>1, <1>2, <1>3, <1>5 DEF Leads

\* The first range: the slot of position 0 is chosen for it.
LEMMA SndInsertFirst ==
    ASSUME NEW b, NEW w, NEW o, Circle(b, w, o), NEW l, NEW S, SndGood(l, b, w, o, S),
           NEW x \in Window(b, w), NEW y \in Window(b, w), Pos(b, x) =< Pos(b, y), l.length = 0
    PROVE  \E k \in 0 .. ListSize : SndGood(SndInsert(l, x, y), b, w, k, S \cup Between(x, y))
<1>1. PICK m : /\ m = SndInsert(l, x, y)
               /\ m = [node |-> [s \in {0} |-> SndNode(x, y, None)], head |-> 0,
                       length |-> SeqLen(x, y), hint |-> 0]
    BY DEF SndInsert
<1>2. /\ DOMAIN m.node = {0} /\ m.node = [s \in DOMAIN m.node |-> m.node[s]]
      /\ m.node[0] = SndNode(x, y, None) /\ m.head = 0 /\ m.hint = 0 /\ m.length = SeqLen(x, y)
    BY <1>1
<1>3. m.node[0].first = x /\ m.node[0].last = y /\ m.node[0].next = None
    BY <1>2 DEF SndNode
<1>4. S = {}
    BY SndEmpty
<1>5. /\ b \in SeqNos /\ x \in Window(b, SeqNoTH) /\ y \in Window(b, SeqNoTH)
      /\ ListSize \in Nat /\ w \in Nat /\ w =< ListSize /\ w =< SeqNoTH - 1 /\ SeqNoTH \in Nat
      /\ o \in 0 .. ListSize
    BY Sizes DEF Window
<1>6. PICK p \in 0 .. w - 1, q \in 0 .. w - 1 : p = Pos(b, x) /\ q = Pos(b, y) /\ p =< q
    BY DEF Window
<1>7. PICK k \in 0 .. ListSize : At(k, p) = 0
    <2>1. p \in 0 .. ListSize - 1
        BY <1>5, <1>6
    <2>2. QED
        BY <2>1, AnySlot
<1>8. Circle(b, w, k)
    BY DEF Circle
<1>9. F(b, m.node, 0) = p /\ L(b, m.node, 0) = q
    BY <1>3, <1>6 DEF F, L
<1>10. Laid(m.node, b, w, k)
    BY <1>2, <1>3, <1>6, <1>7, <1>9 DEF Laid
<1>11. Apart(m.node, b, None)
    <2>1. \A s, t \in DOMAIN m.node : ~ (F(b, m.node, s) < F(b, m.node, t))
        BY <1>2, <1>9
    <2>2. QED
        BY <2>1 DEF Apart
<1>12. Linked(m.node, b)
    BY <1>2, <1>3, <1>9 DEF Linked, Follows
<1>13. Leads(m.node, b, m.head)
    BY <1>2, <1>9 DEF Leads
<1>14. Between(x, y) = Span(b, p, q)
    BY <1>5, <1>6, BetweenIs
<1>15. S \cup Between(x, y) = Numbers(m.node, b, None)
    <2>1. DOMAIN m.node \ {None} = {0}
        BY <1>2 DEF None
    <2>2. QED
        BY <1>4, <1>9, <1>14, <2>1 DEF Numbers, Span
<1>16. m.length = Cardinality(S \cup Between(x, y))
    <2>1. m.length = q - p + 1
        BY <1>2, <1>5, <1>6, Compared
    <2>2. Cardinality(Span(b, p, q)) = q - p + 1
        <3>1. p \in Nat /\ q \in Int /\ q >= p - 1 /\ q =< SeqNoTH - 1
            BY <1>5, <1>6
        <3>2. QED
            BY <1>5, <3>1, SpanCount
    <2>3. QED
        BY <1>4, <1>14, <2>1, <2>2
<1>17. IsSnd(m)
    <2>1. ListSize >= 1
        BY <1>5, <1>6
    <2>2. m.head \in Slots \cup {None} /\ m.hint \in DOMAIN m.node \cup {None}
        BY <1>2, <1>5, <2>1 DEF Slots
    <2>3. \A s \in DOMAIN m.node : m.node[s] = SndNode(m.node[s].first, m.node[s].last, m.node[s].next)
        BY <1>2, <1>3
    <2>4. m = [node |-> m.node, head |-> m.head, length |-> m.length, hint |-> m.hint]
        BY <1>1
    <2>5. QED
        BY <2>2, <2>3, <2>4 DEF IsSnd
<1>18. SndGood(m, b, w, k, S \cup Between(x, y))
    BY <1>10, <1>11, <1>12, <1>13, <1>15, <1>16, <1>17 DEF SndGood
<1>19. QED
    BY <1>1, <1>18

\* What Link puts in, field by field.
PutInAt(m, l, c, x, y, next) ==
    /\ IsSnd(m) /\ m.head = l.head /\ m.hint = c /\ m.length = l.length + SeqLen(x, y)
    /\ DOMAIN m.node = DOMAIN l.node \cup {c}
    /\ m.node = [s \in DOMAIN m.node |-> m.node[s]]
    /\ m.node[c].first = x /\ m.node[c].last = y /\ m.node[c].next = next
    /\ \A s \in DOMAIN l.node \ {c} : m.node[s] = l.node[s]

LEMMA LinkIs ==
    ASSUME NEW l, IsSnd(l), NEW c \in Slots, NEW x, NEW y, NEW next
    PROVE  \E m : Link(l, c, x, y, next) = Coalesce(m, c) /\ PutInAt(m, l, c, x, y, next)
<1>1. PICK v : v = SndNode(x, y, next)
    OBVIOUS
<1>2. PICK n : n = With(l.node, c, v)
    OBVIOUS
<1>3. PICK k : k = l.length + SeqLen(x, y)
    OBVIOUS
<1>4. PICK m : m = [l EXCEPT !.node = n, !.hint = c, !.length = k]
    OBVIOUS
<1>5. Link(l, c, x, y, next) = Coalesce(m, c)
    BY <1>1, <1>2, <1>3, <1>4 DEF Link
<1>6. m = [node |-> n, head |-> l.head, length |-> k, hint |-> c]
    BY <1>4 DEF IsSnd
<1>7. m.node = n /\ m.head = l.head /\ m.length = k /\ m.hint = c
    BY <1>6
<1>8. /\ DOMAIN n = DOMAIN l.node \cup {c} /\ n = [s \in DOMAIN n |-> n[s]] /\ n[c] = v
      /\ \A s \in DOMAIN l.node \ {c} : n[s] = l.node[s]
    BY <1>2 DEF With
<1>9. v.first = x /\ v.last = y /\ v.next = next /\ v = SndNode(v.first, v.last, v.next)
    BY <1>1 DEF SndNode
<1>10. IsSnd(m)
    <2>1. \A s \in DOMAIN n : n[s] = SndNode(n[s].first, n[s].last, n[s].next)
        <3> SUFFICES ASSUME NEW s \in DOMAIN n PROVE n[s] = SndNode(n[s].first, n[s].last, n[s].next)
            OBVIOUS
        <3>1. CASE s = c
            BY <1>8, <1>9, <3>1
        <3>2. CASE s # c
            <4>1. s \in DOMAIN l.node /\ n[s] = l.node[s]
                BY <1>8, <3>2
            <4>2. l.node[s] = SndNode(l.node[s].first, l.node[s].last, l.node[s].next)
                BY <4>1 DEF IsSnd
            <4>3. QED
                BY <4>1, <4>2
        <3>3. QED
            BY <3>1, <3>2
    <2>2. m.head \in Slots \cup {None} /\ m.hint \in DOMAIN m.node \cup {None}
        BY <1>7, <1>8 DEF IsSnd
    <2>3. QED
        BY <1>6, <1>7, <2>1, <2>2 DEF IsSnd
<1>11. PutInAt(m, l, c, x, y, next)
    <2>1. m.head = l.head /\ m.hint = c /\ m.length = l.length + SeqLen(x, y)
        BY <1>3, <1>7
    <2>2. /\ DOMAIN m.node = DOMAIN l.node \cup {c} /\ m.node = [s \in DOMAIN m.node |-> m.node[s]]
          /\ \A s \in DOMAIN l.node \ {c} : m.node[s] = l.node[s]
        BY <1>7, <1>8
    <2>3. m.node[c].first = x /\ m.node[c].last = y /\ m.node[c].next = next
        BY <1>7, <1>8, <1>9
    <2>4. QED
        BY <1>10, <2>1, <2>2, <2>3 DEF PutInAt
<1>12. QED
    BY <1>5, <1>11

\* A range before all others.
LEMMA SndInsertFront ==
    ASSUME NEW b, NEW w, NEW o, Circle(b, w, o), NEW l, NEW S, SndGood(l, b, w, o, S),
           NEW x \in Window(b, w), NEW y \in Window(b, w), Pos(b, x) =< Pos(b, y),
           l.head \in DOMAIN l.node, Pos(b, x) < F(b, l.node, l.head),
           NEW c, c = At(o, Pos(b, x))
    PROVE  SndGood([Link(l, c, x, y, l.head) EXCEPT !.head = c], b, w, o, S \cup Between(x, y))
<1>1. /\ IsSnd(l) /\ Laid(l.node, b, w, o) /\ Apart(l.node, b, None) /\ Linked(l.node, b)
      /\ Leads(l.node, b, l.head)
    BY DEF SndGood
<1>2. PICK p \in 0 .. w - 1 : p = Pos(b, x) /\ p < F(b, l.node, l.head)
    BY DEF Window
<1>3. \A s \in DOMAIN l.node : p < F(b, l.node, s) /\ F(b, l.node, s) \in Int
    <2>1. \A s \in DOMAIN l.node : F(b, l.node, s) \in Int /\ F(b, l.node, l.head) =< F(b, l.node, s)
        BY <1>1, Placed DEF Leads
    <2>2. QED
        BY <1>2, <2>1
<1>4. c \notin DOMAIN l.node /\ c \in Slots /\ c # None
    <2>1. \A s \in DOMAIN l.node : F(b, l.node, s) # p
        BY <1>3
    <2>2. QED
        BY <1>1, <1>2, <2>1, FreeSlot
<1>5. PICK m : Link(l, c, x, y, l.head) = Coalesce(m, c) /\ PutInAt(m, l, c, x, y, l.head)
    BY <1>1, <1>4, LinkIs
<1>6. \A s \in DOMAIN l.node : m.node[s] = l.node[s] /\ F(b, m.node, s) = F(b, l.node, s)
    BY <1>4, <1>5 DEF F, PutInAt
<1>7. F(b, m.node, c) = p
    BY <1>2, <1>5 DEF F, PutInAt
<1>8. Linked(m.node, b) /\ Leads(m.node, b, c)
    <2>1. F(b, m.node, c) \in Int /\ F(b, m.node, c) < F(b, l.node, l.head)
        BY <1>2, <1>7
    <2>2. \A s \in DOMAIN l.node : m.node[s].next = l.node[s].next
        BY <1>6
    <2>3. QED
        BY <1>1, <1>4, <1>5, <1>6, <2>1, <2>2, LinkFirst DEF PutInAt
<1>9. Growing(m, b, w, o, S \cup Between(x, y), c, c)
    <2>1. \A s \in DOMAIN l.node : m.node[s].first = l.node[s].first /\ m.node[s].last = l.node[s].last
        BY <1>6
    <2>2. \A s \in DOMAIN l.node : F(b, l.node, s) < Pos(b, x) => L(b, l.node, s) < Pos(b, x)
        BY <1>2, <1>3
    <2>3. QED
        BY <1>4, <1>5, <1>8, <2>1, <2>2, PutIn DEF PutInAt
<1>10. PICK n : n = Coalesce(m, c)
    OBVIOUS
<1>11. Growing(n, b, w, o, S \cup Between(x, y), c, c) /\ ~ Touching(n, c)
    BY <1>9, <1>10, CoalesceIs
<1>12. SndGood([n EXCEPT !.head = c], b, w, o, S \cup Between(x, y))
    BY <1>11, GrownUp
<1>13. QED
    BY <1>5, <1>10, <1>12

\* A range that is given another successor, or another end.
ChangedAt(m, l, i) ==
    /\ IsSnd(m) /\ m.head = l.head
    /\ DOMAIN m.node = DOMAIN l.node /\ m.node = [s \in DOMAIN m.node |-> m.node[s]]
    /\ \A s \in DOMAIN l.node \ {i} : m.node[s] = l.node[s]

Changed(l, i, x, y, c, k, g) ==
    [node |-> [l.node EXCEPT ![i] = SndNode(x, y, c)], head |-> l.head, length |-> k, hint |-> g]

LEMMA NodeChanged ==
    ASSUME NEW l, IsSnd(l), l.node = [s \in DOMAIN l.node |-> l.node[s]],
           NEW i \in DOMAIN l.node, NEW x, NEW y, NEW c, NEW k, NEW g \in DOMAIN l.node \cup {None},
           NEW m, m = Changed(l, i, x, y, c, k, g)
    PROVE  /\ ChangedAt(m, l, i) /\ m.length = k /\ m.hint = g
           /\ m.node[i].first = x /\ m.node[i].last = y /\ m.node[i].next = c
<1>1. PICK v : v = SndNode(x, y, c)
    OBVIOUS
<1>2. PICK n : n = [l.node EXCEPT ![i] = v]
    OBVIOUS
<1>3. v.first = x /\ v.last = y /\ v.next = c /\ v = SndNode(v.first, v.last, v.next)
    BY <1>1 DEF SndNode
<1>4. /\ DOMAIN n = DOMAIN l.node /\ n = [s \in DOMAIN n |-> n[s]] /\ n[i] = v
      /\ \A s \in DOMAIN l.node \ {i} : n[s] = l.node[s]
    BY <1>2
<1>5. m = [node |-> n, head |-> l.head, length |-> k, hint |-> g]
    BY <1>1, <1>2 DEF Changed
<1>6. m.node = n /\ m.head = l.head /\ m.length = k /\ m.hint = g
    BY <1>5
<1>7. IsSnd(m)
    <2>1. \A s \in DOMAIN n : n[s] = SndNode(n[s].first, n[s].last, n[s].next)
        <3> SUFFICES ASSUME NEW s \in DOMAIN n PROVE n[s] = SndNode(n[s].first, n[s].last, n[s].next)
            OBVIOUS
        <3>1. CASE s = i
            BY <1>3, <1>4, <3>1
        <3>2. CASE s # i
            <4>1. s \in DOMAIN l.node /\ n[s] = l.node[s]
                BY <1>4, <3>2
            <4>2. l.node[s] = SndNode(l.node[s].first, l.node[s].last, l.node[s].next)
                BY <4>1 DEF IsSnd
            <4>3. QED
                BY <4>1, <4>2
        <3>3. QED
            BY <3>1, <3>2
    <2>2. m.head \in Slots \cup {None} /\ m.hint \in DOMAIN m.node \cup {None}
        BY <1>4, <1>6 DEF IsSnd
    <2>3. QED
        BY <1>5, <1>6, <2>1, <2>2 DEF IsSnd
<1>8. ChangedAt(m, l, i)
    BY <1>4, <1>6, <1>7 DEF ChangedAt
<1>9. QED
    BY <1>3, <1>4, <1>6, <1>8

WithNext(l, i, c) == [l EXCEPT !.node[i].next = c]
WithLast(l, i, y, k) == [l EXCEPT !.hint = i, !.node[i].last = y, !.length = k]

LEMMA WithNextIs ==
    ASSUME NEW l, IsSnd(l), l.node = [s \in DOMAIN l.node |-> l.node[s]],
           NEW i \in DOMAIN l.node, NEW c, NEW m, m = WithNext(l, i, c)
    PROVE  /\ ChangedAt(m, l, i) /\ m.length = l.length
           /\ m.node[i].first = l.node[i].first /\ m.node[i].last = l.node[i].last
           /\ m.node[i].next = c
<1>1. l.node[i] = [first |-> l.node[i].first, last |-> l.node[i].last, next |-> l.node[i].next]
    BY DEF IsSnd, SndNode
<1>2. [l.node[i] EXCEPT !.next = c] = SndNode(l.node[i].first, l.node[i].last, c)
    BY <1>1 DEF SndNode
<1>3. l = [node |-> l.node, head |-> l.head, length |-> l.length, hint |-> l.hint]
    BY DEF IsSnd
<1>4. m = Changed(l, i, l.node[i].first, l.node[i].last, c, l.length, l.hint)
    BY <1>2, <1>3 DEF WithNext, Changed
<1>5. l.hint \in DOMAIN l.node \cup {None}
    BY DEF IsSnd
<1>6. QED
    BY <1>4, <1>5, NodeChanged

LEMMA WithLastIs ==
    ASSUME NEW l, IsSnd(l), l.node = [s \in DOMAIN l.node |-> l.node[s]],
           NEW i \in DOMAIN l.node, NEW y, NEW k, NEW m, m = WithLast(l, i, y, k)
    PROVE  /\ ChangedAt(m, l, i) /\ m.length = k /\ m.hint = i
           /\ m.node[i].first = l.node[i].first /\ m.node[i].last = y
           /\ m.node[i].next = l.node[i].next
<1>1. l.node[i] = [first |-> l.node[i].first, last |-> l.node[i].last, next |-> l.node[i].next]
    BY DEF IsSnd, SndNode
<1>2. [l.node[i] EXCEPT !.last = y] = SndNode(l.node[i].first, y, l.node[i].next)
    BY <1>1 DEF SndNode
<1>3. l = [node |-> l.node, head |-> l.head, length |-> l.length, hint |-> l.hint]
    BY DEF IsSnd
<1>4. m = Changed(l, i, l.node[i].first, y, l.node[i].next, k, i)
    BY <1>2, <1>3 DEF WithLast, Changed
<1>5. QED
    BY <1>4, NodeChanged

\* A range after that in slot i, which it does not overlap.
LEMMA SndInsertAfter ==
    ASSUME NEW b, NEW w, NEW o, Circle(b, w, o), NEW l, NEW S, SndGood(l, b, w, o, S),
           NEW x \in Window(b, w), NEW y \in Window(b, w), Pos(b, x) =< Pos(b, y),
           NEW i \in DOMAIN l.node, L(b, l.node, i) < Pos(b, x),
           \A t \in DOMAIN l.node : F(b, l.node, t) =< F(b, l.node, i) \/ F(b, l.node, t) > Pos(b, x),
           NEW c, c = At(o, Pos(b, x))
    PROVE  SndGood(Link(WithNext(l, i, c), c, x, y, l.node[i].next), b, w, o,
                   S \cup Between(x, y))
<1>1. /\ IsSnd(l) /\ Laid(l.node, b, w, o) /\ Apart(l.node, b, None) /\ Linked(l.node, b)
      /\ Leads(l.node, b, l.head)
      /\ l.node = [s \in DOMAIN l.node |-> l.node[s]]
    BY DEF SndGood, Laid
<1>2. PICK p \in 0 .. w - 1 : p = Pos(b, x)
    BY DEF Window
<1>3. \A s \in DOMAIN l.node : /\ F(b, l.node, s) \in Int /\ L(b, l.node, s) \in Int
                               /\ F(b, l.node, s) =< L(b, l.node, s) /\ s # None
    <2>1. \A s \in Slots : s # None
        BY DEF Slots, None
    <2>2. QED
        BY <1>1, <2>1, Placed
<1>4. c \notin DOMAIN l.node /\ c \in Slots /\ c # None
    <2>1. \A s \in DOMAIN l.node : F(b, l.node, s) # p
        BY <1>2, <1>3
    <2>2. QED
        BY <1>1, <1>2, <2>1, FreeSlot
<1>5. PICK n : n = WithNext(l, i, c)
    OBVIOUS
<1>6. /\ ChangedAt(n, l, i) /\ n.length = l.length
      /\ n.node[i].first = l.node[i].first /\ n.node[i].last = l.node[i].last /\ n.node[i].next = c
    BY <1>1, <1>5, WithNextIs
<1>7. IsSnd(n) /\ n.head = l.head /\ DOMAIN n.node = DOMAIN l.node
    BY <1>6 DEF ChangedAt
<1>8. PICK m : Link(n, c, x, y, l.node[i].next) = Coalesce(m, c) /\ PutInAt(m, n, c, x, y, l.node[i].next)
    BY <1>4, <1>7, LinkIs
<1>9. /\ IsSnd(m) /\ m.head = l.head /\ m.hint = c /\ m.length = l.length + SeqLen(x, y)
      /\ DOMAIN m.node = DOMAIN l.node \cup {c}
      /\ m.node = [s \in DOMAIN m.node |-> m.node[s]]
      /\ m.node[c].first = x /\ m.node[c].last = y /\ m.node[c].next = l.node[i].next
    BY <1>6, <1>7, <1>8 DEF PutInAt
<1>10. /\ \A s \in DOMAIN l.node : m.node[s].first = l.node[s].first /\ m.node[s].last = l.node[s].last
       /\ m.node[i].next = c /\ \A s \in DOMAIN l.node \ {i} : m.node[s].next = l.node[s].next
    <2>1. \A s \in DOMAIN l.node : m.node[s] = n.node[s]
        BY <1>4, <1>7, <1>8 DEF PutInAt
    <2>2. \A s \in DOMAIN l.node \ {i} : n.node[s] = l.node[s]
        BY <1>6 DEF ChangedAt
    <2>3. QED
        BY <1>6, <2>1, <2>2
<1>11. F(b, m.node, c) = p /\ \A s \in DOMAIN l.node : F(b, m.node, s) = F(b, l.node, s)
    BY <1>2, <1>9, <1>10 DEF F
<1>12. F(b, l.node, i) < p
    BY <1>2, <1>3
<1>13. Linked(m.node, b)
    <2>1. PICK node, after : node = l.node /\ after = m.node
        OBVIOUS
    <2>2. /\ Laid(node, b, w, o) /\ Linked(node, b) /\ i \in DOMAIN node
          /\ c \notin DOMAIN node /\ c # None /\ DOMAIN after = DOMAIN node \cup {c}
        BY <1>1, <1>4, <1>9, <2>1
    <2>3. /\ F(b, after, c) = p /\ F(b, after, c) \in Int
          /\ \A s \in DOMAIN node : F(b, after, s) = F(b, node, s)
        BY <1>2, <1>11, <2>1
    <2>4. F(b, node, i) < F(b, after, c)
        BY <1>12, <2>1, <2>3
    <2>5. \A t \in DOMAIN node : F(b, node, t) =< F(b, node, i) \/ F(b, after, c) < F(b, node, t)
        BY <1>2, <1>3, <2>1, <2>3
    <2>6. /\ after[c].next = node[i].next /\ after[i].next = c
          /\ \A s \in DOMAIN node \ {i} : after[s].next = node[s].next
        BY <1>9, <1>10, <2>1
    <2>7. Linked(after, b)
        BY <2>2, <2>3, <2>4, <2>5, <2>6, LinkAfter
    <2>8. QED
        BY <2>1, <2>7
<1>14. Leads(m.node, b, l.head)
    <2>1. l.head \in DOMAIN l.node /\ \A t \in DOMAIN l.node : F(b, l.node, l.head) =< F(b, l.node, t)
        BY <1>1 DEF Leads
    <2>2. \A t \in DOMAIN m.node : F(b, m.node, l.head) =< F(b, m.node, t)
        BY <1>3, <1>9, <1>11, <1>12, <2>1
    <2>3. QED
        BY <1>9, <2>1, <2>2 DEF Leads
<1>15. \A s \in DOMAIN l.node : F(b, l.node, s) < Pos(b, x) => L(b, l.node, s) < Pos(b, x)
    <2> SUFFICES ASSUME NEW s \in DOMAIN l.node, F(b, l.node, s) < Pos(b, x)
                 PROVE  L(b, l.node, s) < Pos(b, x)
        OBVIOUS
    <2>1. CASE s = i
        BY <2>1
    <2>2. CASE s # i
        <3>1. F(b, l.node, s) # F(b, l.node, i)
            BY <1>1, <2>2, OneSlot
        <3>2. F(b, l.node, s) < F(b, l.node, i)
            BY <1>2, <1>3, <3>1
        <3>3. L(b, l.node, s) < F(b, l.node, i)
            BY <1>1, <1>3, <3>2 DEF Apart
        <3>4. QED
            BY <1>2, <1>3, <1>12, <3>3
    <2>3. QED
        BY <2>1, <2>2
<1>16. Growing(m, b, w, o, S \cup Between(x, y), c, l.head)
    BY <1>4, <1>9, <1>10, <1>13, <1>14, <1>15, PutIn
<1>17. PICK k : k = Coalesce(m, c)
    OBVIOUS
<1>18. Growing(k, b, w, o, S \cup Between(x, y), c, l.head) /\ k.head = l.head /\ ~ Touching(k, c)
    BY <1>9, <1>16, <1>17, CoalesceIs
<1>19. SndGood([k EXCEPT !.head = l.head], b, w, o, S \cup Between(x, y))
    BY <1>18, GrownUp
<1>20. [k EXCEPT !.head = l.head] = k
    BY <1>18 DEF Growing, IsSnd
<1>21. QED
    BY <1>5, <1>8, <1>17, <1>19, <1>20

\* A range that begins in the one in slot i.
LEMMA ExtendIs ==
    ASSUME NEW b, NEW w, NEW o, Circle(b, w, o), NEW l, NEW S, SndGood(l, b, w, o, S),
           NEW x \in Window(b, w), NEW y \in Window(b, w), Pos(b, x) =< Pos(b, y),
           NEW i \in DOMAIN l.node, F(b, l.node, i) =< Pos(b, x), Pos(b, x) =< L(b, l.node, i)
    PROVE  SndGood(Extend(l, i, y), b, w, o, S \cup Between(x, y))
<1>1. /\ IsSnd(l) /\ Laid(l.node, b, w, o) /\ Apart(l.node, b, None) /\ Linked(l.node, b)
      /\ Leads(l.node, b, l.head) /\ S = Numbers(l.node, b, None) /\ l.length = Cardinality(S)
      /\ l.node = [s \in DOMAIN l.node |-> l.node[s]]
    BY DEF SndGood, Laid
<1>2. /\ b \in SeqNos /\ x \in Window(b, SeqNoTH) /\ y \in Window(b, SeqNoTH) /\ w \in Nat
      /\ l.node[i].last \in Window(b, SeqNoTH)
    BY <1>1, Placed, Sizes DEF Window
<1>3. PICK p \in 0 .. w - 1, q \in 0 .. w - 1, f \in 0 .. w - 1, e \in 0 .. w - 1 :
          /\ p = Pos(b, x) /\ q = Pos(b, y) /\ f = F(b, l.node, i) /\ e = L(b, l.node, i)
          /\ p =< q /\ f =< p /\ p =< e
    <2>1. /\ Pos(b, x) \in 0 .. w - 1 /\ Pos(b, y) \in 0 .. w - 1
          /\ F(b, l.node, i) \in 0 .. w - 1 /\ L(b, l.node, i) \in 0 .. w - 1
        BY <1>1, Placed DEF Window
    <2>2. QED
        BY <2>1
<1>4. Between(x, y) = Span(b, p, q)
    BY <1>2, <1>3, BetweenIs
<1>5. SeqCmp(y, l.node[i].last) =< 0 <=> q =< e
    BY <1>2, <1>3, Compared DEF L
<1>6. /\ S = Numbers(l.node, b, i) \cup Span(b, f, e)
      /\ Cardinality(S) = Cardinality(Numbers(l.node, b, i)) + (e - f + 1)
    BY <1>1, <1>3, CountOne
<1>7. CASE q =< e
    <2>1. S \cup Between(x, y) = S
        <3>1. Span(b, p, q) \subseteq Span(b, f, e)
            <4>1. ASSUME NEW n \in Span(b, p, q) PROVE n \in Span(b, f, e)
                BY <1>3, <1>7 DEF Span
            <4>2. QED
                BY <4>1
        <3>2. QED
            BY <1>4, <1>6, <3>1
    <2>2. Extend(l, i, y) = [l EXCEPT !.hint = i]
        BY <1>5, <1>7 DEF Extend
    <2>3. PICK m : m = [l EXCEPT !.hint = i]
        OBVIOUS
    <2>4. /\ m = [node |-> l.node, head |-> l.head, length |-> l.length, hint |-> i]
          /\ m.node = l.node /\ m.head = l.head /\ m.length = l.length /\ m.hint = i
        BY <1>1, <2>3 DEF IsSnd
    <2>5. IsSnd(m)
        BY <1>1, <2>4 DEF IsSnd
    <2>6. SndGood(m, b, w, o, S)
        BY <1>1, <2>4, <2>5 DEF SndGood
    <2>7. QED
        BY <2>1, <2>2, <2>3, <2>6
<1>8. CASE ~ (q =< e)
    <2>1. PICK k : k = l.length + SeqLen(l.node[i].last, y) - 1
        OBVIOUS
    <2>2. PICK m : m = WithLast(l, i, y, k)
        OBVIOUS
    <2>3. Extend(l, i, y) = Coalesce(m, i)
        BY <1>5, <1>8, <2>1, <2>2 DEF Extend, WithLast
    <2>4. /\ ChangedAt(m, l, i) /\ m.length = k /\ m.hint = i
          /\ m.node[i].first = l.node[i].first /\ m.node[i].last = y
          /\ m.node[i].next = l.node[i].next
        BY <1>1, <2>2, WithLastIs
    <2>5. /\ IsSnd(m) /\ m.head = l.head /\ DOMAIN m.node = DOMAIN l.node
          /\ m.node = [s \in DOMAIN m.node |-> m.node[s]]
          /\ \A s \in DOMAIN l.node \ {i} : m.node[s] = l.node[s]
        BY <2>4 DEF ChangedAt
    <2>6. /\ \A s \in DOMAIN l.node : F(b, m.node, s) = F(b, l.node, s) /\ m.node[s].next = l.node[s].next
          /\ \A s \in DOMAIN l.node \ {i} : L(b, m.node, s) = L(b, l.node, s)
          /\ L(b, m.node, i) = q
        BY <1>3, <2>4, <2>5 DEF F, L
    <2>7. Laid(m.node, b, w, o)
        <3> SUFFICES ASSUME NEW s \in DOMAIN m.node
                     PROVE  /\ m.node[s].first \in Window(b, w) /\ m.node[s].last \in Window(b, w)
                            /\ F(b, m.node, s) =< L(b, m.node, s)
                            /\ s = At(o, F(b, m.node, s))
            BY <2>5 DEF Laid
        <3>1. /\ l.node[s].first \in Window(b, w) /\ l.node[s].last \in Window(b, w)
              /\ F(b, l.node, s) =< L(b, l.node, s) /\ s = At(o, F(b, l.node, s))
            BY <1>1, <2>5 DEF Laid
        <3>2. CASE s = i
            BY <1>3, <2>4, <2>6, <3>1, <3>2
        <3>3. CASE s # i
            BY <2>5, <2>6, <3>1, <3>3
        <3>4. QED
            BY <3>2, <3>3
    <2>8. Apart(m.node, b, i)
        <3> SUFFICES ASSUME NEW s \in DOMAIN l.node, NEW t \in DOMAIN l.node, s # i,
                            F(b, m.node, s) < F(b, m.node, t)
                     PROVE  L(b, m.node, s) < F(b, m.node, t)
            BY <2>5 DEF Apart
        <3>1. s # None
            <4>1. s \in Slots
                BY <1>1, Placed
            <4>2. QED
                BY <4>1 DEF Slots, None
        <3>2. QED
            BY <1>1, <2>6, <3>1 DEF Apart
    <2>9. Linked(m.node, b)
        <3> SUFFICES ASSUME NEW s \in DOMAIN l.node PROVE Follows(m.node, b, s, m.node[s].next)
            BY <2>5 DEF Linked
        <3>1. Follows(l.node, b, s, l.node[s].next)
            BY <1>1 DEF Linked
        <3>2. QED
            BY <2>5, <2>6, <3>1 DEF Follows
    <2>10. Leads(m.node, b, l.head)
        BY <1>1, <2>5, <2>6 DEF Leads
    <2>11. Numbers(m.node, b, i) = Numbers(l.node, b, i)
        BY <2>5, <2>6 DEF Numbers
    <2>12. S \cup Between(x, y) = Numbers(m.node, b, None)
        <3>1. i # None /\ None \notin DOMAIN l.node
            <4>1. \A s \in Slots : s # None
                BY DEF Slots, None
            <4>2. QED
                BY <1>1, <4>1, Placed
        <3>2. ASSUME NEW n \in SeqNos
              PROVE  n \in Numbers(m.node, b, None) <=> n \in Numbers(m.node, b, i) \/ n \in Span(b, f, q)
            <4>1. F(b, m.node, i) = f
                BY <1>3, <2>6
            <4>2. QED
                BY <2>5, <2>6, <3>1, <4>1 DEF Numbers, Span
        <3>3. ASSUME NEW n \in SeqNos
              PROVE  n \in Span(b, f, q) <=> n \in Span(b, f, e) \/ n \in Span(b, p, q)
            <4>1. Pos(b, n) \in Int
                BY <1>2, PosType
            <4>2. QED
                BY <1>3, <1>8, <4>1 DEF Span
        <3>4. Numbers(m.node, b, None) \subseteq SeqNos /\ Span(b, f, e) \subseteq SeqNos
              /\ Numbers(l.node, b, i) \subseteq SeqNos /\ Span(b, p, q) \subseteq SeqNos
            BY DEF Numbers, Span
        <3>5. QED
            BY <1>4, <1>6, <2>11, <3>2, <3>3, <3>4
    <2>13. m.length = Cardinality(Numbers(m.node, b, i)) + (L(b, m.node, i) - F(b, m.node, i) + 1)
        <3>1. SeqLen(l.node[i].last, y) = q - e + 1
            BY <1>2, <1>3, <1>8, Compared DEF L
        <3>2. PICK z \in Nat : z = Cardinality(Numbers(l.node, b, i))
            BY <1>1, NumbersFinite
        <3>3. m.length = z + (e - f + 1) + (q - e + 1) - 1
            BY <1>1, <1>6, <2>1, <2>4, <3>1, <3>2
        <3>4. F(b, m.node, i) = f /\ L(b, m.node, i) = q
            BY <1>3, <2>6
        <3>5. QED
            BY <1>3, <2>11, <3>2, <3>3, <3>4
    <2>14. Growing(m, b, w, o, S \cup Between(x, y), i, l.head)
        BY <2>4, <2>5, <2>7, <2>8, <2>9, <2>10, <2>12, <2>13 DEF Growing
    <2>15. PICK n : n = Coalesce(m, i)
        OBVIOUS
    <2>16. Growing(n, b, w, o, S \cup Between(x, y), i, l.head) /\ n.head = l.head /\ ~ Touching(n, i)
        BY <2>5, <2>14, <2>15, CoalesceIs
    <2>17. SndGood([n EXCEPT !.head = l.head], b, w, o, S \cup Between(x, y))
        BY <2>16, GrownUp
    <2>18. [n EXCEPT !.head = l.head] = n
        BY <2>16 DEF Growing, IsSnd
    <2>19. QED
        BY <2>3, <2>15, <2>17, <2>18
<1>9. QED
    BY <1>7, <1>8

\* The sender's list takes in the numbers of a range, whichever of them it has.
LEMMA SndInsertIs ==
    ASSUME NEW b, NEW w, NEW o, Circle(b, w, o), NEW l, NEW S, SndGood(l, b, w, o, S),
           NEW x \in Window(b, w), NEW y \in Window(b, w), Pos(b, x) =< Pos(b, y)
    PROVE  \E k \in 0 .. ListSize : SndGood(SndInsert(l, x, y), b, w, k, S \cup Between(x, y))
<1>1. CASE l.length = 0
    BY <1>1, SndInsertFirst
<1>2. CASE l.length # 0
    <2>1. /\ IsSnd(l) /\ Laid(l.node, b, w, o) /\ Linked(l.node, b) /\ o \in 0 .. ListSize
        BY Sizes DEF SndGood
    <2>2. l.head \in DOMAIN l.node /\ \A t \in DOMAIN l.node : F(b, l.node, l.head) =< F(b, l.node, t)
        BY <1>2, SndEmpty
    <2>3. PICK p \in 0 .. w - 1 : p = Pos(b, x)
        BY DEF Window
    <2>4. b \in SeqNos /\ x \in Window(b, SeqNoTH)
        BY Sizes DEF Window
    <2>5. \A s \in DOMAIN l.node : /\ F(b, l.node, s) \in Int /\ L(b, l.node, s) \in Int
                                   /\ F(b, l.node, s) =< L(b, l.node, s)
                                   /\ l.node[s].first \in Window(b, SeqNoTH)
                                   /\ l.node[s].last \in Window(b, SeqNoTH)
        BY <2>1, Placed
    <2>6. PICK c : c = SlotOf(l, x) /\ c = At(o, Pos(b, x))
        BY <2>1, <2>2, SlotOfIs
    <2>7. PICK start : start = IF l.hint # None /\ SeqCmp(l.node[l.hint].first, x) < 0
                               THEN l.hint ELSE l.head
        OBVIOUS
    <2>8. PICK i : i = Prior(l, start, x)
        OBVIOUS
    <2>9. SndInsert(l, x, y) =
              IF SeqOff(l.node[l.head].first, x) < 0
              THEN [Link(l, c, x, y, l.head) EXCEPT !.head = c]
              ELSE IF Starts(l, c, x) THEN Extend(l, c, y)
              ELSE IF SeqCmp(l.node[i].last, x) < 0
              THEN Link(WithNext(l, i, c), c, x, y, l.node[i].next)
              ELSE Extend(l, i, y)
        BY <1>2, <2>6, <2>7, <2>8 DEF SndInsert, WithNext
    <2>10. SeqOff(l.node[l.head].first, x) < 0 <=> p < F(b, l.node, l.head)
        <3>1. SeqOff(l.node[l.head].first, x) = p - F(b, l.node, l.head)
            BY <2>2, <2>3, <2>4, <2>5, Compared DEF F
        <3>2. F(b, l.node, l.head) \in Int
            BY <2>2, <2>5
        <3>3. QED
            BY <2>3, <3>1, <3>2
    <2>11. Starts(l, c, x) <=> \E s \in DOMAIN l.node : F(b, l.node, s) = p
        BY <2>1, <2>3, <2>6, StartsIs
    <2>12. CASE p < F(b, l.node, l.head)
        <3>1. SndGood([Link(l, c, x, y, l.head) EXCEPT !.head = c], b, w, o, S \cup Between(x, y))
            BY <2>2, <2>3, <2>6, <2>12, SndInsertFront
        <3>2. SndInsert(l, x, y) = [Link(l, c, x, y, l.head) EXCEPT !.head = c]
            BY <2>9, <2>10, <2>12
        <3>3. QED
            BY <2>1, <3>1, <3>2
    <2>13. CASE ~ (p < F(b, l.node, l.head)) /\ Starts(l, c, x)
        <3>1. c \in DOMAIN l.node /\ F(b, l.node, c) = p
            BY <2>3, <2>13 DEF Starts, F
        <3>2. F(b, l.node, c) =< Pos(b, x) /\ Pos(b, x) =< L(b, l.node, c)
            BY <2>3, <2>5, <3>1
        <3>3. SndInsert(l, x, y) = Extend(l, c, y)
            BY <2>9, <2>10, <2>13
        <3>4. QED
            BY <2>1, <3>1, <3>2, <3>3, ExtendIs
    <2>14. CASE ~ (p < F(b, l.node, l.head)) /\ ~ Starts(l, c, x)
        <3>1. F(b, l.node, l.head) < p
            BY <2>2, <2>3, <2>5, <2>11, <2>14
        <3>2. start \in DOMAIN l.node /\ F(b, l.node, start) < Pos(b, x)
            <4>1. CASE l.hint # None /\ SeqCmp(l.node[l.hint].first, x) < 0
                <5>1. l.hint \in DOMAIN l.node
                    BY <2>1, <4>1 DEF IsSnd
                <5>2. Pos(b, l.node[l.hint].first) < Pos(b, x)
                    BY <2>4, <2>5, <4>1, <5>1, Compared
                <5>3. QED
                    BY <2>7, <4>1, <5>1, <5>2 DEF F
            <4>2. CASE ~ (l.hint # None /\ SeqCmp(l.node[l.hint].first, x) < 0)
                BY <2>2, <2>3, <2>7, <3>1, <4>2
            <4>3. QED
                BY <4>1, <4>2
        <3>3. /\ i \in DOMAIN l.node /\ F(b, l.node, i) < Pos(b, x)
              /\ \A t \in DOMAIN l.node : F(b, l.node, t) =< F(b, l.node, i) \/ F(b, l.node, t) >= Pos(b, x)
            BY <2>1, <2>8, <3>2, PriorIs
        <3>4. SeqCmp(l.node[i].last, x) < 0 <=> L(b, l.node, i) < Pos(b, x)
            BY <2>4, <2>5, <3>3, Compared DEF L
        <3>5. CASE L(b, l.node, i) < Pos(b, x)
            <4>1. \A t \in DOMAIN l.node : F(b, l.node, t) =< F(b, l.node, i) \/ F(b, l.node, t) > Pos(b, x)
                BY <2>3, <2>5, <2>11, <2>14, <3>3
            <4>2. SndGood(Link(WithNext(l, i, c), c, x, y, l.node[i].next), b, w, o, S \cup Between(x, y))
                BY <2>6, <3>3, <3>5, <4>1, SndInsertAfter
            <4>3. SndInsert(l, x, y) = Link(WithNext(l, i, c), c, x, y, l.node[i].next)
                BY <2>9, <2>10, <2>14, <3>4, <3>5
            <4>4. QED
                BY <2>1, <4>2, <4>3
        <3>6. CASE ~ (L(b, l.node, i) < Pos(b, x))
            <4>1. F(b, l.node, i) =< Pos(b, x) /\ Pos(b, x) =< L(b, l.node, i)
                BY <2>3, <2>5, <3>3, <3>6
            <4>2. SndInsert(l, x, y) = Extend(l, i, y)
                BY <2>9, <2>10, <2>14, <3>4, <3>6
            <4>3. QED
                BY <2>1, <3>3, <4>1, <4>2, ExtendIs
        <3>7. QED
            BY <3>5, <3>6
    <2>15. QED
        BY <2>12, <2>13, <2>14
<1>3. QED
    BY <1>1, <1>2

-----------------------------------------------------------------------------
(* remove. *)

\* The ranges up to that in slot p, along the links.
Passed(l, p) ==
    LET chain == Chain(l)
    IN {chain[i] : i \in 1 .. CHOOSE k \in DOMAIN chain : chain[k] = p}

\* ... are those that begin no later.
LEMMA PassedIs ==
    ASSUME NEW b, NEW w, NEW o, Circle(b, w, o), NEW l, Laid(l.node, b, w, o), Linked(l.node, b),
           l.head \in DOMAIN l.node, Leads(l.node, b, l.head), NEW p \in DOMAIN l.node
    PROVE  Passed(l, p) = {t \in DOMAIN l.node : F(b, l.node, t) =< F(b, l.node, p)}
<1>1. PICK c : c = Chain(l) /\ IsChain(l.node, b, c, l.head)
    BY ChainFromIs DEF Chain
<1>2. Len(c) \in Nat /\ DOMAIN c = 1 .. Len(c) /\ \A i \in 1 .. Len(c) : c[i] \in DOMAIN l.node
    BY <1>1 DEF IsChain
<1>3. ASSUME NEW t \in DOMAIN l.node PROVE \E i \in 1 .. Len(c) : c[i] = t
    <2>1. F(b, l.node, l.head) =< F(b, l.node, t)
        BY DEF Leads
    <2>2. QED
        BY <1>1, <2>1 DEF IsChain
<1>4. PICK k \in 1 .. Len(c) : c[k] = p /\ Passed(l, p) = {c[i] : i \in 1 .. k}
    <2> DEFINE ch == CHOOSE k \in DOMAIN c : c[k] = p
    <2>1. ch \in DOMAIN c /\ c[ch] = p
        BY <1>2, <1>3
    <2>2. Passed(l, p) = {c[i] : i \in 1 .. ch}
        BY <1>1 DEF Passed
    <2> HIDE DEF ch
    <2>3. QED
        BY <1>2, <2>1, <2>2
<1>5. \A i, j \in 1 .. Len(c) : i < j => F(b, l.node, c[i]) < F(b, l.node, c[j])
    BY <1>1 DEF IsChain
<1>6. \A i \in 1 .. Len(c) : F(b, l.node, c[i]) \in Int
    <2>1. \A s \in DOMAIN l.node : F(b, l.node, s) \in Int
        BY Placed
    <2>2. QED
        BY <1>2, <2>1
<1>7. ASSUME NEW i \in 1 .. k
      PROVE  c[i] \in DOMAIN l.node /\ F(b, l.node, c[i]) =< F(b, l.node, p)
    <2>1. i \in 1 .. Len(c)
        BY <1>2
    <2>2. CASE i = k
        BY <1>2, <1>4, <1>6, <2>1, <2>2
    <2>3. CASE i # k
        <3>1. i < k
            BY <1>2, <2>3
        <3>2. F(b, l.node, c[i]) < F(b, l.node, c[k])
            BY <1>5, <2>1, <3>1
        <3>3. QED
            BY <1>2, <1>4, <1>6, <2>1, <3>2
    <2>4. QED
        BY <2>2, <2>3
<1>8. ASSUME NEW t \in DOMAIN l.node, F(b, l.node, t) =< F(b, l.node, p)
      PROVE  \E i \in 1 .. k : c[i] = t
    <2>1. PICK i \in 1 .. Len(c) : c[i] = t
        BY <1>3
    <2>2. ~ (k < i)
        BY <1>4, <1>5, <1>6, <1>8, <2>1
    <2>3. i \in 1 .. k
        BY <1>2, <2>2
    <2>4. QED
        BY <2>1, <2>3
<1>9. QED
    BY <1>4, <1>7, <1>8

\* The numbers up to a position, and those beyond it.
NoLater(b, S, q) == {n \in S : Pos(b, n) =< q}
Beyond(b, S, q) == {n \in S : Pos(b, n) > q}

LEMMA CountBeyond ==
    ASSUME NEW b \in SeqNos, NEW S, S \subseteq SeqNos, IsFiniteSet(S), NEW q \in Int
    PROVE  /\ Cardinality(Beyond(b, S, q)) = Cardinality(S) - Cardinality(NoLater(b, S, q))
           /\ IsFiniteSet(NoLater(b, S, q)) /\ IsFiniteSet(Beyond(b, S, q))
<1>1. \A n \in S : Pos(b, n) \in Int
    BY PosType
<1>2. /\ Beyond(b, S, q) \cup NoLater(b, S, q) = S
      /\ Beyond(b, S, q) \cap NoLater(b, S, q) = {}
    BY <1>1 DEF Beyond, NoLater
<1>3. IsFiniteSet(Beyond(b, S, q)) /\ IsFiniteSet(NoLater(b, S, q))
    BY FS_Subset DEF Beyond, NoLater
<1>4. Cardinality(S) = Cardinality(Beyond(b, S, q)) + Cardinality(NoLater(b, S, q)) - Cardinality({})
    BY <1>2, <1>3, FS_Union
<1>5. /\ Cardinality(Beyond(b, S, q)) \in Nat /\ Cardinality(NoLater(b, S, q)) \in Nat
      /\ Cardinality({}) = 0
    BY <1>3, FS_CardinalityType, FS_EmptySet
<1>6. QED
    BY <1>3, <1>4, <1>5

\* How many numbers the ranges that go have up to x: what remove subtracts.
Subtracted(l, gone, p, x) ==
    SumFunction([s \in gone |-> SeqLen(l.node[s].first,
                                       IF s = p /\ SeqCmp(l.node[p].last, x) > 0 THEN x
                                       ELSE l.node[s].last)])

LEMMA SubtractedIs ==
    ASSUME NEW b, NEW w, NEW o, Circle(b, w, o), NEW l, NEW S, SndGood(l, b, w, o, S),
           NEW x \in Window(b, w), NEW p \in DOMAIN l.node, F(b, l.node, p) =< Pos(b, x),
           \A t \in DOMAIN l.node : F(b, l.node, t) =< F(b, l.node, p) \/ F(b, l.node, t) > Pos(b, x),
           NEW gone, gone = {t \in DOMAIN l.node : F(b, l.node, t) =< F(b, l.node, p)}
    PROVE  Subtracted(l, gone, p, x) = Cardinality(NoLater(b, S, Pos(b, x)))
<1>1. /\ Laid(l.node, b, w, o) /\ Apart(l.node, b, None) /\ S = Numbers(l.node, b, None)
    BY DEF SndGood
<1>2. /\ b \in SeqNos /\ w \in Nat /\ x \in Window(b, SeqNoTH) /\ ListSize \in Nat
      /\ Pos(b, x) \in 0 .. w - 1 /\ w =< SeqNoTH - 1 /\ SeqNoTH \in Nat
    BY Sizes DEF Window
<1>3. \A s \in DOMAIN l.node : /\ F(b, l.node, s) \in 0 .. w - 1 /\ L(b, l.node, s) \in 0 .. w - 1
                               /\ F(b, l.node, s) =< L(b, l.node, s) /\ s \in Slots /\ s # None
                               /\ l.node[s].first \in Window(b, SeqNoTH)
                               /\ l.node[s].last \in Window(b, SeqNoTH)
    <2>1. \A s \in Slots : s # None
        BY DEF Slots, None
    <2>2. QED
        BY <1>1, <2>1, Placed
<1> DEFINE End(s) == IF s = p /\ L(b, l.node, p) > Pos(b, x) THEN Pos(b, x) ELSE L(b, l.node, s)
           f == [s \in gone |-> SeqLen(l.node[s].first,
                                       IF s = p /\ SeqCmp(l.node[p].last, x) > 0 THEN x
                                       ELSE l.node[s].last)]
           Of(T) == {n \in SeqNos : \E s \in T : Pos(b, n) \in F(b, l.node, s) .. End(s)}
<1>4. \A s \in gone : /\ s \in DOMAIN l.node /\ End(s) \in 0 .. w - 1 /\ F(b, l.node, s) =< End(s)
                      /\ End(s) =< L(b, l.node, s) /\ End(s) =< Pos(b, x)
    <2> SUFFICES ASSUME NEW s \in gone
                 PROVE  /\ s \in DOMAIN l.node /\ End(s) \in 0 .. w - 1 /\ F(b, l.node, s) =< End(s)
                        /\ End(s) =< L(b, l.node, s) /\ End(s) =< Pos(b, x)
        OBVIOUS
    <2>1. CASE s = p
        BY <1>2, <1>3, <2>1
    <2>2. CASE s # p
        <3>1. F(b, l.node, s) # F(b, l.node, p)
            BY <1>1, <2>2, OneSlot
        <3>2. L(b, l.node, s) < F(b, l.node, p)
            BY <1>1, <1>3, <3>1 DEF Apart
        <3>3. End(s) = L(b, l.node, s) /\ s \in DOMAIN l.node
            BY <2>2
        <3>4. QED
            BY <1>2, <1>3, <3>2, <3>3
    <2>3. QED
        BY <2>1, <2>2
<1>5. \A s \in gone : f[s] = End(s) - F(b, l.node, s) + 1
    <2> SUFFICES ASSUME NEW s \in gone PROVE f[s] = End(s) - F(b, l.node, s) + 1
        OBVIOUS
    <2>1. SeqCmp(l.node[p].last, x) > 0 <=> L(b, l.node, p) > Pos(b, x)
        BY <1>2, <1>3, Compared DEF L
    <2>2. CASE s = p /\ L(b, l.node, p) > Pos(b, x)
        <3>1. f[s] = SeqLen(l.node[s].first, x)
            BY <2>1, <2>2
        <3>2. QED
            BY <1>2, <1>3, <2>2, <3>1, Compared DEF F
    <2>3. CASE ~ (s = p /\ L(b, l.node, p) > Pos(b, x))
        <3>1. f[s] = SeqLen(l.node[s].first, l.node[s].last)
            BY <2>1, <2>3
        <3>2. End(s) = L(b, l.node, s) /\ s \in DOMAIN l.node
            BY <2>3
        <3>3. QED
            BY <1>2, <1>3, <3>1, <3>2, Compared DEF F, L
    <2>4. QED
        BY <2>2, <2>3
<1>6. IsFiniteSet(gone)
    <2>1. IsFiniteSet(Slots)
        <3>1. ListSize - 1 \in Int
            BY <1>2
        <3>2. QED
            BY <3>1, FS_Interval DEF Slots
    <2>2. gone \subseteq Slots
        BY <1>3
    <2>3. QED
        BY <2>1, <2>2, FS_Subset
<1>7. \A T \in SUBSET gone : Of(T) \subseteq Window(b, w) /\ IsFiniteSet(Of(T))
    <2> SUFFICES ASSUME NEW T \in SUBSET gone PROVE Of(T) \subseteq Window(b, w) /\ IsFiniteSet(Of(T))
        OBVIOUS
    <2>1. ASSUME NEW n \in Of(T) PROVE n \in Window(b, w)
        <3>1. PICK s \in T : n \in SeqNos /\ Pos(b, n) \in F(b, l.node, s) .. End(s)
            OBVIOUS
        <3>2. F(b, l.node, s) \in 0 .. w - 1 /\ End(s) \in 0 .. w - 1
            BY <1>3, <1>4
        <3> HIDE DEF End
        <3>3. Pos(b, n) \in 0 .. w - 1
            BY <1>2, <3>1, <3>2
        <3>4. QED
            BY <3>1, <3>3 DEF Window
    <2>2. IsFiniteSet(Window(b, w))
        <3>1. w \in 0 .. SeqNoTH
            BY <1>2
        <3>2. QED
            BY <1>2, <3>1, WindowFinite
    <2>3. Of(T) \subseteq Window(b, w)
        BY <2>1
    <2>4. QED
        BY <2>2, <2>3, FS_Subset
<1> DEFINE total == [T \in SUBSET gone |-> Cardinality(Of(T))]
<1>8. total \in [SUBSET gone -> Int]
    <2>1. \A T \in SUBSET gone : Cardinality(Of(T)) \in Int
        <3> HIDE DEF Of
        <3> QED BY <1>7, FS_CardinalityType
    <2>2. QED
        <3> HIDE DEF Of
        <3> QED BY <2>1
<1>9. total[{}] = 0
    <2>1. Of({}) = {} /\ {} \in SUBSET gone
        OBVIOUS
    <2>2. QED
        <3> HIDE DEF Of
        <3> QED BY <2>1, FS_EmptySet
<1>10. ASSUME NEW T \in SUBSET gone, NEW s \in T PROVE total[T] = f[s] + total[T \ {s}]
    <2>1. Of(T) = Of(T \ {s}) \cup Span(b, F(b, l.node, s), End(s))
        <3> HIDE DEF End
        <3> QED BY DEF Span
    <2>2. Of(T \ {s}) \cap Span(b, F(b, l.node, s), End(s)) = {}
        <3> SUFFICES ASSUME NEW n \in Of(T \ {s}), n \in Span(b, F(b, l.node, s), End(s)) PROVE FALSE
            OBVIOUS
        <3>1. PICK t \in T \ {s} : Pos(b, n) \in F(b, l.node, t) .. End(t)
            OBVIOUS
        <3>2. s \in gone /\ t \in gone /\ s \in DOMAIN l.node /\ t \in DOMAIN l.node
            BY <1>4
        <3>3. F(b, l.node, s) # F(b, l.node, t)
            BY <1>1, <3>1, <3>2, OneSlot
        <3>4. L(b, l.node, s) < F(b, l.node, t) \/ L(b, l.node, t) < F(b, l.node, s)
            BY <1>1, <1>3, <3>2, <3>3 DEF Apart
        <3>5. /\ End(s) \in Int /\ End(s) =< L(b, l.node, s) /\ End(t) \in Int /\ End(t) =< L(b, l.node, t)
            BY <1>4, <3>2
        <3>6. Pos(b, n) \in F(b, l.node, s) .. End(s)
            BY DEF Span
        <3> HIDE DEF End
        <3>7. QED
            BY <1>3, <3>1, <3>2, <3>4, <3>5, <3>6
    <2>3. s \in gone /\ T \ {s} \in SUBSET gone
        OBVIOUS
    <2>4. F(b, l.node, s) \in 0 .. w - 1 /\ End(s) \in 0 .. w - 1 /\ F(b, l.node, s) =< End(s)
        BY <1>3, <1>4, <2>3
    <2>5. total[T] = Cardinality(Of(T)) /\ total[T \ {s}] = Cardinality(Of(T \ {s}))
        BY <2>3
    <2> HIDE DEF End, Of, f, total
    <2>6. PICK p1 \in 0 .. w - 1, p2 \in 0 .. w - 1 : p1 = F(b, l.node, s) /\ p2 = End(s) /\ p1 =< p2
        BY <2>4
    <2> DEFINE A == Of(T \ {s})
    <2>7. IsFiniteSet(A) /\ A \cap Span(b, p1, p2) = {}
        BY <1>7, <2>2, <2>3, <2>6
    <2>13. A = Of(T \ {s})
        OBVIOUS
    <2> HIDE DEF A
    <2>8. Cardinality(A \cup Span(b, p1, p2)) = Cardinality(A) + (p2 - p1 + 1)
        BY <2>6, <2>7, CountBoth
    <2>9. Cardinality(A) \in Int
        BY <2>7, FS_CardinalityType
    <2>10. f[s] = p2 - p1 + 1
        BY <1>5, <2>3, <2>6
    <2>11. total[T] = Cardinality(A \cup Span(b, p1, p2)) /\ total[T \ {s}] = Cardinality(A)
        BY <2>1, <2>5, <2>6, <2>13
    <2>12. QED
        BY <1>2, <2>8, <2>9, <2>10, <2>11
<1>11. SumFunction(f) = total[gone]
    <2>1. DOMAIN f = gone
        OBVIOUS
    <2> HIDE DEF f, total
    <2>2. \A T \in SUBSET gone : \A s \in T : total[T] = f[s] + total[T \ {s}]
        BY <1>10
    <2>3. Totals(total, gone, f)
        BY <1>8, <1>9, <2>2 DEF Totals
    <2>4. QED
        BY <1>6, <2>1, <2>3, SumIs
<1>12. Of(gone) = NoLater(b, S, Pos(b, x))
    <2>1. ASSUME NEW n \in Of(gone) PROVE n \in NoLater(b, S, Pos(b, x))
        <3>1. PICK s \in gone : n \in SeqNos /\ Pos(b, n) \in F(b, l.node, s) .. End(s)
            OBVIOUS
        <3>2. s \in DOMAIN l.node \ {None} /\ End(s) \in Int /\ End(s) =< L(b, l.node, s) /\ End(s) =< Pos(b, x)
            BY <1>3, <1>4
        <3> HIDE DEF End
        <3>3. Pos(b, n) \in F(b, l.node, s) .. L(b, l.node, s) /\ Pos(b, n) =< Pos(b, x)
            BY <1>2, <1>3, <3>1, <3>2
        <3>4. QED
            BY <1>1, <3>1, <3>2, <3>3 DEF NoLater, Numbers
    <2>2. ASSUME NEW n \in NoLater(b, S, Pos(b, x)) PROVE n \in Of(gone)
        <3>1. PICK s \in DOMAIN l.node :
                  n \in SeqNos /\ Pos(b, n) \in F(b, l.node, s) .. L(b, l.node, s) /\ Pos(b, n) =< Pos(b, x)
            BY <1>1 DEF NoLater, Numbers
        <3>2. F(b, l.node, s) =< F(b, l.node, p)
            BY <1>2, <1>3, <3>1
        <3>3. s \in gone
            BY <3>2
        <3>4. Pos(b, n) \in F(b, l.node, s) .. End(s)
            BY <1>2, <1>3, <3>1
        <3>5. QED
            BY <3>1, <3>3, <3>4
    <2>3. QED
        BY <2>1, <2>2
<1>13. total[gone] = Cardinality(Of(gone))
    BY DEF total
<1>14. Subtracted(l, gone, p, x) = SumFunction(f)
    BY DEF Subtracted
<1>15. QED
    <2> HIDE DEF f, total, Of
    <2> QED BY <1>11, <1>12, <1>13, <1>14

Rest(l, gone, p, x, c) ==
    IF SeqCmp(l.node[p].last, x) > 0
    THEN With(Without(l.node, gone), c, SndNode(IncSeq(x), l.node[p].last, l.node[p].next))
    ELSE Without(l.node, gone)

\* Ranges that stand for the set S, in the slots of D and perhaps another one, and linked from
\* slot h on.
AreLeft(node, b, w, o, S, D, h) ==
    /\ node = [s \in DOMAIN node |-> node[s]]
    /\ \A s \in DOMAIN node : node[s] = SndNode(node[s].first, node[s].last, node[s].next)
    /\ Laid(node, b, w, o) /\ Apart(node, b, None) /\ Linked(node, b) /\ Leads(node, b, h)
    /\ S = Numbers(node, b, None)
    /\ D \subseteq DOMAIN node

\* What is left of the list when the ranges up to that in slot p go; if it reaches beyond x,
\* what is beyond it goes on in slot c.
LEMMA Remains ==
    ASSUME NEW b, NEW w, NEW o, Circle(b, w, o), NEW l, NEW S, SndGood(l, b, w, o, S),
           NEW x \in Window(b, w), NEW p \in DOMAIN l.node, F(b, l.node, p) =< Pos(b, x),
           \A t \in DOMAIN l.node : F(b, l.node, t) =< F(b, l.node, p) \/ F(b, l.node, t) > Pos(b, x),
           NEW c, c = At(o, Pos(b, x) + 1),
           NEW gone, gone = {t \in DOMAIN l.node : F(b, l.node, t) =< F(b, l.node, p)},
           NEW node, node = Rest(l, gone, p, x, c)
    PROVE  AreLeft(node, b, w, o, Beyond(b, S, Pos(b, x)), DOMAIN l.node \ gone,
                   IF L(b, l.node, p) > Pos(b, x) THEN c ELSE l.node[p].next)
           /\ (L(b, l.node, p) > Pos(b, x) => c \in Slots)
<1> USE DEF AreLeft
<1>1. /\ IsSnd(l) /\ Laid(l.node, b, w, o) /\ Apart(l.node, b, None) /\ Linked(l.node, b)
      /\ S = Numbers(l.node, b, None)
    BY DEF SndGood
<1>2. /\ b \in SeqNos /\ w \in Nat /\ x \in Window(b, SeqNoTH) /\ x \in SeqNos
      /\ w =< SeqNoTH - 1 /\ SeqNoTH \in Nat
    BY Sizes DEF Window
<1>3. \A s \in DOMAIN l.node : /\ F(b, l.node, s) \in 0 .. w - 1 /\ L(b, l.node, s) \in 0 .. w - 1
                               /\ F(b, l.node, s) =< L(b, l.node, s) /\ s \in Slots /\ s # None
                               /\ s = At(o, F(b, l.node, s))
    <2>1. \A s \in Slots : s # None
        BY DEF Slots, None
    <2>2. QED
        BY <1>1, <2>1, Placed
<1>4. PICK q \in 0 .. w - 1, f \in 0 .. w - 1, e \in 0 .. w - 1 :
          q = Pos(b, x) /\ f = F(b, l.node, p) /\ e = L(b, l.node, p) /\ f =< q /\ f =< e
    <2>1. Pos(b, x) \in 0 .. w - 1
        BY DEF Window
    <2>2. QED
        BY <1>3, <2>1
<1>5. \A t \in DOMAIN l.node : F(b, l.node, t) =< f \/ F(b, l.node, t) > q
    BY <1>4
<1>6. \A t \in DOMAIN l.node : F(b, l.node, t) > f => F(b, l.node, t) > e
    BY <1>1, <1>3, <1>4 DEF Apart
<1>7. \A t \in DOMAIN l.node : t # p /\ F(b, l.node, t) =< f => L(b, l.node, t) < f
    <2> SUFFICES ASSUME NEW t \in DOMAIN l.node, t # p, F(b, l.node, t) =< f PROVE L(b, l.node, t) < f
        OBVIOUS
    <2>1. F(b, l.node, t) # F(b, l.node, p)
        BY <1>1, OneSlot
    <2>2. QED
        BY <1>1, <1>3, <1>4, <2>1 DEF Apart
<1>8. Follows(l.node, b, p, l.node[p].next)
    BY <1>1 DEF Linked
<1> DEFINE K == DOMAIN l.node \ gone
<1>16. PICK kept : kept = Without(l.node, gone)
    OBVIOUS
<1>17. node = IF L(b, l.node, p) > Pos(b, x)
              THEN With(kept, c, SndNode(IncSeq(x), l.node[p].last, l.node[p].next))
              ELSE kept
    <2>1. SeqCmp(l.node[p].last, x) > 0 <=> L(b, l.node, p) > Pos(b, x)
        <3>1. l.node[p].last \in Window(b, SeqNoTH)
            BY <1>1, Placed
        <3>2. QED
            BY <1>2, <3>1, Compared DEF L
    <2>2. QED
        BY <1>16, <2>1 DEF Rest
<1>10. \A t \in DOMAIN l.node : t \in K <=> F(b, l.node, t) > f
    BY <1>3, <1>4
<1>9. /\ \A t \in K : F(b, l.node, t) > f /\ F(b, l.node, t) > q /\ F(b, l.node, t) > e
      /\ \A t \in K : t \in DOMAIN l.node
      /\ DOMAIN kept = K /\ \A t \in K : kept[t] = l.node[t]
    <2>1. \A t \in K : t \in DOMAIN l.node
        OBVIOUS
    <2>2. DOMAIN kept = K /\ \A t \in K : kept[t] = l.node[t]
        BY <1>16 DEF Without
    <2> HIDE DEF K
    <2>3. QED
        BY <1>3, <1>4, <1>5, <1>6, <1>10, <2>1, <2>2
<1>11. /\ l.node[p].next = None => K = {}
       /\ l.node[p].next # None => l.node[p].next \in K /\ \A t \in K : F(b, l.node, l.node[p].next) =< F(b, l.node, t)
    <2>1. CASE l.node[p].next = None
        <3>1. \A t \in DOMAIN l.node : ~ (F(b, l.node, t) > f)
            BY <1>3, <1>4, <1>8, <2>1 DEF Follows
        <3>2. QED
            BY <1>10, <2>1, <3>1
    <2>2. CASE l.node[p].next # None
        <3>1. PICK d \in DOMAIN l.node : d = l.node[p].next /\ F(b, l.node, p) < F(b, l.node, d)
            BY <1>8, <2>2 DEF Follows
        <3>2. \A t \in DOMAIN l.node : F(b, l.node, t) =< F(b, l.node, p) \/ F(b, l.node, d) =< F(b, l.node, t)
            BY <1>8, <2>2, <3>1 DEF Follows
        <3>3. F(b, l.node, d) > f /\ \A t \in DOMAIN l.node : F(b, l.node, t) > f => F(b, l.node, d) =< F(b, l.node, t)
            BY <1>3, <1>4, <3>1, <3>2
        <3>4. d \in K
            BY <1>10, <3>3
        <3>5. \A t \in K : t \in DOMAIN l.node /\ F(b, l.node, t) > f
            BY <1>9
        <3> HIDE DEF K
        <3>6. QED
            BY <2>2, <3>1, <3>3, <3>4, <3>5
    <2>3. QED
        BY <2>1, <2>2
<1>12. \A s \in K : Follows(l.node, b, s, l.node[s].next)
                    /\ (l.node[s].next # None => l.node[s].next \in K)
    <2> SUFFICES ASSUME NEW s \in K
                 PROVE  Follows(l.node, b, s, l.node[s].next)
                        /\ (l.node[s].next # None => l.node[s].next \in K)
        OBVIOUS
    <2>1. s \in DOMAIN l.node /\ F(b, l.node, s) > f
        BY <1>9
    <2>2. Follows(l.node, b, s, l.node[s].next)
        BY <1>1, <2>1 DEF Linked
    <2>3. ASSUME l.node[s].next # None PROVE l.node[s].next \in K
        <3>1. PICK d \in DOMAIN l.node : d = l.node[s].next /\ F(b, l.node, s) < F(b, l.node, d)
            BY <2>2, <2>3 DEF Follows
        <3>2. F(b, l.node, d) > f
            BY <1>3, <1>4, <2>1, <3>1
        <3>3. QED
            BY <1>10, <3>1, <3>2
    <2>4. QED
        BY <2>2, <2>3
<1>13. CASE e > q
    <2>1. PICK v : v = SndNode(IncSeq(x), l.node[p].last, l.node[p].next)
        OBVIOUS
    <2>2. v.first = IncSeq(x) /\ v.last = l.node[p].last /\ v.next = l.node[p].next
        BY <2>1 DEF SndNode
    <2>3. v = SndNode(v.first, v.last, v.next)
        BY <2>1, <2>2
    <2>4. IncSeq(x) \in Window(b, w) /\ Pos(b, IncSeq(x)) = q + 1
        <3>1. Pos(b, x) \in 0 .. SeqNoTH - 2
            BY <1>2, <1>4
        <3>2. IncSeq(x) \in SeqNos /\ Pos(b, IncSeq(x)) = Pos(b, x) + 1
            BY <1>2, <3>1, NextNumber
        <3>3. q + 1 \in 0 .. w - 1
            BY <1>2, <1>4, <1>13
        <3>4. QED
            BY <1>4, <3>2, <3>3 DEF Window
    <2>5. \A s \in DOMAIN l.node : s \in K => s # c
        <3> SUFFICES ASSUME NEW s \in K PROVE s # c
            OBVIOUS
        <3>1. F(b, l.node, s) \in 0 .. ListSize - 1 /\ s = At(o, F(b, l.node, s))
            BY <1>1, <1>9, Placed
        <3>2. q + 1 \in 0 .. ListSize - 1 /\ o \in 0 .. ListSize
            BY <1>2, <1>4, <1>13, Sizes
        <3>3. F(b, l.node, s) # q + 1
            BY <1>3, <1>4, <1>9, <1>13
        <3>4. QED
            BY <1>4, <3>1, <3>2, <3>3, AtOnce
    <2>6. node = With(kept, c, v)
        BY <1>4, <1>13, <1>17, <2>1
    <2>7. node = [s \in K \cup {c} |-> IF s = c THEN v ELSE kept[s]]
        BY <1>9, <2>6 DEF With
    <2>8. /\ DOMAIN node = K \cup {c} /\ node = [s \in DOMAIN node |-> node[s]] /\ node[c] = v
          /\ \A s \in K : node[s] = l.node[s]
        BY <1>9, <2>5, <2>7
    <2> HIDE DEF K
    <2>9. /\ F(b, node, c) = q + 1 /\ L(b, node, c) = e /\ node[c].next = l.node[p].next
          /\ \A s \in K : /\ F(b, node, s) = F(b, l.node, s) /\ L(b, node, s) = L(b, l.node, s)
                          /\ node[s].next = l.node[s].next
        BY <1>4, <2>2, <2>4, <2>8 DEF F, L
    <2>10. \A s \in DOMAIN node : node[s] = SndNode(node[s].first, node[s].last, node[s].next)
        <3> SUFFICES ASSUME NEW s \in DOMAIN node
                     PROVE  node[s] = SndNode(node[s].first, node[s].last, node[s].next)
            OBVIOUS
        <3>1. CASE s = c
            BY <2>3, <2>8, <3>1
        <3>2. CASE s # c
            <4>1. s \in DOMAIN l.node /\ node[s] = l.node[s]
                BY <1>9, <2>8, <3>2
            <4>2. l.node[s] = SndNode(l.node[s].first, l.node[s].last, l.node[s].next)
                BY <1>1, <4>1 DEF IsSnd
            <4>3. QED
                BY <4>1, <4>2
        <3>3. QED
            BY <3>1, <3>2
    <2>11. Laid(node, b, w, o)
        <3> SUFFICES ASSUME NEW s \in DOMAIN node
                     PROVE  /\ node[s].first \in Window(b, w) /\ node[s].last \in Window(b, w)
                            /\ F(b, node, s) =< L(b, node, s) /\ s = At(o, F(b, node, s))
            BY <2>8 DEF Laid
        <3>1. CASE s = c
            <4>1. l.node[p].last \in Window(b, w)
                BY <1>1 DEF Laid
            <4>2. F(b, node, c) =< L(b, node, c) /\ c = At(o, F(b, node, c))
                BY <1>4, <1>13, <2>9
            <4>3. QED
                BY <2>2, <2>4, <2>8, <3>1, <4>1, <4>2
        <3>2. CASE s # c
            <4>1. s \in K /\ s \in DOMAIN l.node
                BY <1>9, <2>8, <3>2
            <4>2. QED
                BY <1>1, <2>8, <2>9, <4>1 DEF Laid
        <3>3. QED
            BY <3>1, <3>2
    <2>12. Apart(node, b, None)
        <3> SUFFICES ASSUME NEW s \in DOMAIN node, NEW t \in DOMAIN node, F(b, node, s) < F(b, node, t)
                     PROVE  L(b, node, s) < F(b, node, t)
            BY DEF Apart
        <3>1. CASE s = c /\ t # c
            BY <1>9, <2>8, <2>9, <3>1
        <3>2. CASE s # c /\ t = c
            BY <1>3, <1>4, <1>9, <1>13, <2>8, <2>9, <3>2
        <3>3. CASE s = c /\ t = c
            BY <1>4, <2>9, <3>3
        <3>4. CASE s # c /\ t # c
            BY <1>1, <1>3, <1>9, <2>8, <2>9, <3>4 DEF Apart
        <3>5. QED
            BY <3>1, <3>2, <3>3, <3>4
    <2>13. \A t \in DOMAIN node : F(b, node, c) =< F(b, node, t) /\ F(b, node, t) \in Int
        BY <1>3, <1>4, <1>9, <1>13, <2>8, <2>9
    <2>14. Linked(node, b)
        <3> SUFFICES ASSUME NEW s \in DOMAIN node PROVE Follows(node, b, s, node[s].next)
            BY DEF Linked
        <3>1. CASE s = c
            <4>1. CASE l.node[p].next = None
                BY <1>11, <2>8, <2>9, <2>13, <3>1, <4>1 DEF Follows
            <4>2. CASE l.node[p].next # None
                <5>1. PICK d \in K : d = l.node[p].next /\ \A t \in K : F(b, l.node, d) =< F(b, l.node, t)
                    BY <1>11, <4>2
                <5>2. F(b, node, c) < F(b, node, d)
                    BY <1>3, <1>4, <1>9, <1>13, <2>9, <5>1
                <5>3. \A t \in DOMAIN node : F(b, node, t) =< F(b, node, c) \/ F(b, node, d) =< F(b, node, t)
                    BY <2>8, <2>9, <2>13, <5>1
                <5>4. QED
                    BY <2>8, <2>9, <3>1, <4>2, <5>1, <5>2, <5>3 DEF Follows
            <4>3. QED
                BY <4>1, <4>2
        <3>2. CASE s # c
            <4>1. s \in K /\ F(b, node, c) =< F(b, node, s)
                BY <2>8, <2>13, <3>2
            <4>2. Follows(l.node, b, s, l.node[s].next) /\ (l.node[s].next # None => l.node[s].next \in K)
                BY <1>12, <4>1
            <4>3. \A t \in K : t \in DOMAIN l.node
                BY <1>9
            <4>4. CASE l.node[s].next = None
                BY <2>8, <2>9, <4>1, <4>2, <4>3, <4>4 DEF Follows
            <4>5. CASE l.node[s].next # None
                BY <2>8, <2>9, <4>1, <4>2, <4>3, <4>5 DEF Follows
            <4>6. QED
                BY <4>4, <4>5
        <3>3. QED
            BY <3>1, <3>2
    <2>15. Leads(node, b, c)
        BY <2>8, <2>13 DEF Leads
    <2>16. c \in Slots
        BY <2>8, <2>11, Placed
    <2>17. Beyond(b, S, Pos(b, x)) = Numbers(node, b, None)
        <3>1. c # None
            BY <2>16 DEF Slots, None
        <3>2. ASSUME NEW n \in Beyond(b, S, Pos(b, x)) PROVE n \in Numbers(node, b, None)
            <4>1. PICK s \in DOMAIN l.node : /\ n \in SeqNos /\ Pos(b, n) > q
                                             /\ Pos(b, n) \in F(b, l.node, s) .. L(b, l.node, s)
                BY <1>1, <1>4 DEF Beyond, Numbers
            <4>2. CASE s \in K
                <5>1. s \in DOMAIN node \ {None} /\ Pos(b, n) \in F(b, node, s) .. L(b, node, s)
                    BY <1>3, <2>8, <2>9, <4>1, <4>2
                <5>2. QED
                    BY <4>1, <5>1 DEF Numbers
            <4>3. CASE s \notin K
                <5>1. s = p
                    BY <1>2, <1>3, <1>4, <1>7, <1>10, <4>1, <4>3
                <5>2. Pos(b, n) \in q + 1 .. e
                    BY <1>2, <1>3, <1>4, <4>1, <5>1
                <5>3. c \in DOMAIN node \ {None} /\ Pos(b, n) \in F(b, node, c) .. L(b, node, c)
                    BY <2>8, <2>9, <3>1, <5>2
                <5>4. QED
                    BY <4>1, <5>3 DEF Numbers
            <4>4. QED
                BY <4>2, <4>3
        <3>3. ASSUME NEW n \in Numbers(node, b, None) PROVE n \in Beyond(b, S, Pos(b, x))
            <4>1. PICK s \in DOMAIN node : n \in SeqNos /\ Pos(b, n) \in F(b, node, s) .. L(b, node, s)
                BY DEF Numbers
            <4>2. CASE s = c
                <5>1. Pos(b, n) > q /\ Pos(b, n) \in F(b, l.node, p) .. L(b, l.node, p)
                    BY <1>2, <1>4, <2>9, <4>1, <4>2
                <5>2. p \in DOMAIN l.node \ {None}
                    BY <1>3
                <5>3. QED
                    BY <1>1, <1>4, <4>1, <5>1, <5>2 DEF Beyond, Numbers
            <4>3. CASE s # c
                <5>1. s \in K /\ s \in DOMAIN l.node \ {None}
                    BY <1>3, <1>9, <2>8, <4>3
                <5>2. Pos(b, n) \in F(b, l.node, s) .. L(b, l.node, s) /\ F(b, l.node, s) > q
                    BY <1>9, <2>9, <4>1, <5>1
                <5>3. Pos(b, n) > q
                    BY <1>2, <1>3, <1>4, <5>1, <5>2
                <5>4. QED
                    BY <1>1, <1>4, <4>1, <5>1, <5>2, <5>3 DEF Beyond, Numbers
            <4>4. QED
                BY <4>2, <4>3
        <3>4. QED
            BY <3>2, <3>3
    <2>18. K \subseteq DOMAIN node
        BY <2>8
    <2>19. Leads(node, b, IF L(b, l.node, p) > Pos(b, x) THEN c ELSE l.node[p].next)
        BY <1>4, <1>13, <2>15
    <2>20. QED
        BY <2>8, <2>10, <2>11, <2>12, <2>14, <2>16, <2>17, <2>18, <2>19 DEF K
<1>14. CASE ~ (e > q)
    <2>1. node = kept
        BY <1>4, <1>14, <1>17
    <2>2. /\ DOMAIN node = K /\ node = [s \in DOMAIN node |-> node[s]]
          /\ \A s \in K : node[s] = l.node[s]
        BY <1>9, <1>16, <2>1 DEF Without
    <2> HIDE DEF K
    <2>3. \A s \in K : /\ F(b, node, s) = F(b, l.node, s) /\ L(b, node, s) = L(b, l.node, s)
                       /\ node[s].next = l.node[s].next
        BY <2>2 DEF F, L
    <2>4. \A s \in DOMAIN node : node[s] = SndNode(node[s].first, node[s].last, node[s].next)
        BY <1>1, <1>9, <2>2 DEF IsSnd
    <2>5. Laid(node, b, w, o)
        BY <1>1, <1>9, <2>2, <2>3 DEF Laid
    <2>6. Apart(node, b, None)
        BY <1>1, <1>9, <2>2, <2>3 DEF Apart
    <2>7. Linked(node, b)
        <3> SUFFICES ASSUME NEW s \in K PROVE Follows(node, b, s, node[s].next)
            BY <2>2 DEF Linked
        <3>1. Follows(l.node, b, s, l.node[s].next) /\ (l.node[s].next # None => l.node[s].next \in K)
            BY <1>12
        <3>2. \A t \in K : t \in DOMAIN l.node
            BY <1>9
        <3>3. QED
            BY <2>2, <2>3, <3>1, <3>2 DEF Follows
    <2>8. Leads(node, b, l.node[p].next)
        BY <1>11, <2>2, <2>3 DEF Leads
    <2>9. Beyond(b, S, Pos(b, x)) = Numbers(node, b, None)
        <3>1. ASSUME NEW n \in Beyond(b, S, Pos(b, x)) PROVE n \in Numbers(node, b, None)
            <4>1. PICK s \in DOMAIN l.node : /\ n \in SeqNos /\ Pos(b, n) > q
                                             /\ Pos(b, n) \in F(b, l.node, s) .. L(b, l.node, s)
                BY <1>1, <1>4 DEF Beyond, Numbers
            <4>2. s \in K
                BY <1>2, <1>3, <1>4, <1>7, <1>10, <1>14, <4>1
            <4>3. s \in DOMAIN node \ {None} /\ Pos(b, n) \in F(b, node, s) .. L(b, node, s)
                BY <1>3, <2>2, <2>3, <4>1, <4>2
            <4>4. QED
                BY <4>1, <4>3 DEF Numbers
        <3>2. ASSUME NEW n \in Numbers(node, b, None) PROVE n \in Beyond(b, S, Pos(b, x))
            <4>1. PICK s \in DOMAIN node : n \in SeqNos /\ Pos(b, n) \in F(b, node, s) .. L(b, node, s)
                BY DEF Numbers
            <4>2. s \in K /\ s \in DOMAIN l.node \ {None}
                BY <1>3, <1>9, <2>2
            <4>3. Pos(b, n) \in F(b, l.node, s) .. L(b, l.node, s) /\ F(b, l.node, s) > q
                BY <1>9, <2>3, <4>1, <4>2
            <4>4. Pos(b, n) > q
                BY <1>2, <1>3, <1>4, <4>2, <4>3
            <4>5. QED
                BY <1>1, <1>4, <4>1, <4>2, <4>3, <4>4 DEF Beyond, Numbers
        <3>3. QED
            BY <3>1, <3>2
    <2>10. ~ (L(b, l.node, p) > Pos(b, x))
        BY <1>4, <1>14
    <2>11. QED
        BY <2>2, <2>4, <2>5, <2>6, <2>7, <2>8, <2>9, <2>10 DEF K
<1>15. QED
    BY <1>13, <1>14

\* What remove leaves when it has found the range in slot p.
Removed(l, seq, loc, p) ==
    LET cut == SeqCmp(l.node[p].last, seq) > 0
        gone == Passed(l, p)
        Counted(s) == SeqLen(l.node[s].first, IF s = p /\ cut THEN seq ELSE l.node[s].last)
        kept == Without(l.node, gone)
    IN [node |-> IF cut
                 THEN With(kept, NextSlot(loc), SndNode(IncSeq(seq), l.node[p].last, l.node[p].next))
                 ELSE kept,
        head |-> IF cut THEN NextSlot(loc) ELSE l.node[p].next,
        length |-> l.length - SumFunction([s \in gone |-> Counted(s)]),
        hint |-> HintAfter(l, gone)]

\* The sender's list gives up all numbers up to x.
LEMMA SndRemoveIs ==
    ASSUME NEW b, NEW w, NEW o, Circle(b, w, o), NEW l, NEW S, SndGood(l, b, w, o, S),
           NEW x \in Window(b, w)
    PROVE  SndGood(SndRemove(l, x), b, w, o, Beyond(b, S, Pos(b, x)))
<1>1. /\ IsSnd(l) /\ Laid(l.node, b, w, o) /\ Linked(l.node, b) /\ Leads(l.node, b, l.head)
      /\ S = Numbers(l.node, b, None) /\ l.length = Cardinality(S)
    BY DEF SndGood
<1>2. /\ b \in SeqNos /\ x \in Window(b, SeqNoTH) /\ w \in Nat /\ w =< ListSize /\ ListSize \in Nat
      /\ o \in 0 .. ListSize
    BY Sizes DEF Window
<1>3. PICK q \in 0 .. w - 1 : q = Pos(b, x)
    BY DEF Window
<1>4. \A s \in DOMAIN l.node : /\ F(b, l.node, s) \in Int /\ L(b, l.node, s) \in Int
                               /\ F(b, l.node, s) =< L(b, l.node, s)
                               /\ L(b, l.node, s) \in 0 .. w - 1
                               /\ l.node[s].first \in Window(b, SeqNoTH)
                               /\ l.node[s].last \in Window(b, SeqNoTH)
    BY <1>1, Placed
<1>5. /\ S \subseteq SeqNos /\ IsFiniteSet(S)
      /\ l.length # 0 => l.head \in DOMAIN l.node
      /\ \A t \in DOMAIN l.node : F(b, l.node, l.head) =< F(b, l.node, t)
    <2>1. S \subseteq SeqNos
        BY <1>1 DEF Numbers
    <2>2. QED
        BY <2>1, SndEmpty
<1>6. ASSUME l.length # 0
      PROVE  SeqOff(l.node[l.head].first, x) < 0 <=> q < F(b, l.node, l.head)
    <2>1. l.head \in DOMAIN l.node
        BY <1>5, <1>6
    <2>2. SeqOff(l.node[l.head].first, x) = q - F(b, l.node, l.head)
        BY <1>2, <1>3, <1>4, <2>1, Compared DEF F
    <2>3. F(b, l.node, l.head) \in Int
        BY <1>4, <2>1
    <2>4. QED
        BY <2>2, <2>3
<1>7. CASE l.length = 0 \/ (l.length # 0 /\ q < F(b, l.node, l.head))
    <2>1. SndRemove(l, x) = l
        BY <1>6, <1>7 DEF SndRemove
    <2>2. ASSUME NEW n \in S PROVE Pos(b, n) > Pos(b, x)
        <3>1. l.length # 0
            BY SndEmpty
        <3>2. PICK s \in DOMAIN l.node : n \in SeqNos /\ Pos(b, n) \in F(b, l.node, s) .. L(b, l.node, s)
            BY <1>1 DEF Numbers
        <3>3. F(b, l.node, l.head) =< F(b, l.node, s) /\ F(b, l.node, l.head) \in Int
            BY <1>4, <1>5, <3>1
        <3>4. q < F(b, l.node, l.head)
            BY <1>7, <3>1
        <3>5. QED
            BY <1>3, <1>4, <3>2, <3>3, <3>4
    <2>3. Beyond(b, S, Pos(b, x)) = S
        BY <2>2 DEF Beyond
    <2>4. QED
        BY <2>1, <2>3
<1>8. CASE l.length # 0 /\ ~ (q < F(b, l.node, l.head))
    <2>1. l.head \in DOMAIN l.node /\ F(b, l.node, l.head) \in Int
        BY <1>4, <1>5, <1>8
    <2>2. PICK k : k = SlotOf(l, x) /\ k = At(o, q)
        BY <1>1, <1>3, <2>1, SlotOfIs
    <2>3. PICK p : p = IF Starts(l, k, x) THEN k ELSE Prior(l, l.head, x)
        OBVIOUS
    <2>4. Starts(l, k, x) <=> \E s \in DOMAIN l.node : F(b, l.node, s) = q
        BY <1>1, <1>3, <2>2, StartsIs
    <2>5. /\ p \in DOMAIN l.node /\ F(b, l.node, p) =< Pos(b, x)
          /\ \A t \in DOMAIN l.node : F(b, l.node, t) =< F(b, l.node, p) \/ F(b, l.node, t) > Pos(b, x)
        <3>1. CASE Starts(l, k, x)
            <4>1. p \in DOMAIN l.node /\ F(b, l.node, p) = q
                BY <1>3, <2>3, <3>1 DEF Starts, F
            <4>2. QED
                BY <1>3, <1>4, <4>1
        <3>2. CASE ~ Starts(l, k, x)
            <4>1. F(b, l.node, l.head) < Pos(b, x)
                BY <1>3, <1>8, <2>1, <2>4, <3>2
            <4>2. /\ p \in DOMAIN l.node /\ F(b, l.node, p) < Pos(b, x)
                  /\ \A t \in DOMAIN l.node : F(b, l.node, t) =< F(b, l.node, p) \/ F(b, l.node, t) >= Pos(b, x)
                BY <1>1, <2>1, <2>3, <3>2, <4>1, PriorIs
            <4>3. QED
                BY <1>3, <1>4, <2>4, <3>2, <4>2
        <3>3. QED
            BY <3>1, <3>2
    <2>6. PICK gone : gone = Passed(l, p)
        OBVIOUS
    <2>7. gone = {t \in DOMAIN l.node : F(b, l.node, t) =< F(b, l.node, p)}
        BY <1>1, <2>1, <2>5, <2>6, PassedIs
    <2>8. PICK c : c = NextSlot(k)
        OBVIOUS
    <2>9. PICK node : node = Rest(l, gone, p, x, c)
        OBVIOUS
    <2>10. PICK m :
               /\ m = SndRemove(l, x)
               /\ m = [node |-> node,
                       head |-> IF SeqCmp(l.node[p].last, x) > 0 THEN c ELSE l.node[p].next,
                       length |-> l.length - Subtracted(l, gone, p, x),
                       hint |-> IF l.hint \in gone THEN None ELSE l.hint]
        <3>1. ~ (l.length = 0 \/ SeqOff(l.node[l.head].first, x) < 0)
            BY <1>6, <1>8
        <3>2. SndRemove(l, x)
                  = Removed(l, x, SlotOf(l, x), IF Starts(l, SlotOf(l, x), x) THEN SlotOf(l, x)
                                                ELSE Prior(l, l.head, x))
            BY <3>1 DEF SndRemove, Removed, Passed
        <3>3. SndRemove(l, x) = Removed(l, x, k, p)
            BY <2>2, <2>3, <3>2
        <3>4. Removed(l, x, k, p)
                  = [node |-> node,
                     head |-> IF SeqCmp(l.node[p].last, x) > 0 THEN c ELSE l.node[p].next,
                     length |-> l.length - Subtracted(l, gone, p, x),
                     hint |-> IF l.hint \in gone THEN None ELSE l.hint]
            BY <2>6, <2>8, <2>9 DEF Removed, Rest, Subtracted, HintAfter
        <3>5. QED
            BY <3>3, <3>4
    <2>11. SeqCmp(l.node[p].last, x) > 0 <=> L(b, l.node, p) > Pos(b, x)
        BY <1>2, <1>4, <2>5, Compared DEF L
    <2>12. L(b, l.node, p) > Pos(b, x) => c = At(o, Pos(b, x) + 1)
        <3> SUFFICES ASSUME L(b, l.node, p) > Pos(b, x) PROVE c = At(o, q + 1)
            BY <1>3
        <3>1. q \in 0 .. ListSize - 2
            BY <1>2, <1>3, <1>4, <2>5
        <3>2. QED
            BY <1>2, <2>2, <2>8, <3>1, AtNext
    <2>22. /\ AreLeft(node, b, w, o, Beyond(b, S, Pos(b, x)), DOMAIN l.node \ gone,
                      IF L(b, l.node, p) > Pos(b, x) THEN c ELSE l.node[p].next)
           /\ L(b, l.node, p) > Pos(b, x) => c \in Slots
        <3>1. PICK d : d = IF L(b, l.node, p) > Pos(b, x) THEN c ELSE At(o, Pos(b, x) + 1)
            OBVIOUS
        <3>2. d = At(o, Pos(b, x) + 1)
            BY <2>12, <3>1
        <3>3. node = Rest(l, gone, p, x, d)
            BY <2>9, <2>11, <3>1 DEF Rest
        <3>4. /\ AreLeft(node, b, w, o, Beyond(b, S, Pos(b, x)), DOMAIN l.node \ gone,
                         IF L(b, l.node, p) > Pos(b, x) THEN d ELSE l.node[p].next)
              /\ L(b, l.node, p) > Pos(b, x) => d \in Slots
            BY <2>5, <2>7, <3>2, <3>3, Remains
        <3>5. QED
            BY <3>1, <3>4
    <2>13. /\ node = [s \in DOMAIN node |-> node[s]]
           /\ \A s \in DOMAIN node : node[s] = SndNode(node[s].first, node[s].last, node[s].next)
           /\ Laid(node, b, w, o) /\ Apart(node, b, None) /\ Linked(node, b)
           /\ Leads(node, b, IF L(b, l.node, p) > Pos(b, x) THEN c ELSE l.node[p].next)
           /\ Beyond(b, S, Pos(b, x)) = Numbers(node, b, None)
           /\ DOMAIN l.node \ gone \subseteq DOMAIN node
           /\ L(b, l.node, p) > Pos(b, x) => c \in Slots
        BY <2>22 DEF AreLeft
    <2>14. m.length = Cardinality(Beyond(b, S, Pos(b, x)))
        <3>1. Subtracted(l, gone, p, x) = Cardinality(NoLater(b, S, Pos(b, x)))
            BY <2>5, <2>7, SubtractedIs
        <3>2. Cardinality(Beyond(b, S, q)) = Cardinality(S) - Cardinality(NoLater(b, S, q))
            BY <1>2, <1>5, CountBeyond
        <3>3. m.length = l.length - Subtracted(l, gone, p, x)
            BY <2>10
        <3>4. QED
            BY <1>1, <1>3, <3>1, <3>2, <3>3
    <2>15. /\ m.node = node /\ m.hint = IF l.hint \in gone THEN None ELSE l.hint
           /\ m.head = IF L(b, l.node, p) > Pos(b, x) THEN c ELSE l.node[p].next
        BY <2>10, <2>11
    <2>16. m.hint \in DOMAIN m.node \cup {None}
        <3>1. l.hint \in DOMAIN l.node \cup {None}
            BY <1>1 DEF IsSnd
        <3>2. QED
            BY <2>13, <2>15, <3>1
    <2>17. m.head \in Slots \cup {None}
        <3>1. l.node[p].next \in DOMAIN l.node \cup {None}
            BY <1>1, <2>5 DEF Linked, Follows
        <3>2. DOMAIN l.node \subseteq Slots
            BY <1>1, Placed
        <3>3. QED
            BY <2>13, <2>15, <3>1, <3>2
    <2>18. IsSnd(m)
        <3>1. m = [node |-> m.node, head |-> m.head, length |-> m.length, hint |-> m.hint]
            BY <2>10
        <3>2. QED
            BY <2>13, <2>15, <2>16, <2>17, <3>1 DEF IsSnd
    <2>19. Leads(m.node, b, m.head)
        BY <2>13, <2>15
    <2>20. SndGood(m, b, w, o, Beyond(b, S, Pos(b, x)))
        BY <2>13, <2>14, <2>15, <2>18, <2>19 DEF SndGood
    <2>21. QED
        BY <2>10, <2>20
<1>9. QED
    BY <1>7, <1>8

-----------------------------------------------------------------------------
(* The receiver's list. *)

\* The links back are those forward the other way round, and the tail is the end.
Paired(node, h) ==
    \A s \in DOMAIN node : IF s = h THEN node[s].prior = None
                           ELSE node[s].prior \in DOMAIN node /\ node[node[s].prior].next = s

Ends(node, t) == IF DOMAIN node = {} THEN t = None ELSE t \in DOMAIN node /\ node[t].next = None

IsRcv(l) ==
    /\ l = [node |-> l.node, head |-> l.head, tail |-> l.tail, length |-> l.length]
    /\ l.node = [s \in DOMAIN l.node |-> l.node[s]]
    /\ \A s \in DOMAIN l.node :
           l.node[s] = RcvNode(l.node[s].first, l.node[s].last, l.node[s].prior, l.node[s].next)

\* The ranges of the list make up the set S ...
RcvShape(l, b, w, o, S) ==
    /\ IsRcv(l) /\ Laid(l.node, b, w, o) /\ Apart(l.node, b, None) /\ Linked(l.node, b)
    /\ Leads(l.node, b, l.head) /\ Paired(l.node, l.head) /\ Ends(l.node, l.tail)
    /\ S = Numbers(l.node, b, None)

\* ... and the length counts it.
RcvGood(l, b, w, o, S) == RcvShape(l, b, w, o, S) /\ l.length = Cardinality(S)

\* What holds of the ranges of either list.
LEMMA RangesAre ==
    ASSUME NEW b, NEW w, NEW o, Circle(b, w, o), NEW node, Laid(node, b, w, o),
           NEW s \in DOMAIN node
    PROVE  /\ F(b, node, s) \in Int /\ L(b, node, s) \in Int /\ F(b, node, s) =< L(b, node, s)
           /\ F(b, node, s) \in 0 .. w - 1 /\ L(b, node, s) \in 0 .. w - 1
           /\ s \in Slots /\ s # None /\ s = At(o, F(b, node, s))
           /\ node[s].first \in Window(b, SeqNoTH) /\ node[s].last \in Window(b, SeqNoTH)
           /\ node[s].first \in Window(b, w) /\ node[s].last \in Window(b, w)
<1>1. \A t \in Slots : t # None
    BY DEF Slots, None
<1>2. F(b, node, s) \in 0 .. w - 1 /\ L(b, node, s) \in 0 .. w - 1 /\ F(b, node, s) =< L(b, node, s)
    BY Placed
<1>3. s \in Slots /\ s = At(o, F(b, node, s))
    BY Placed
<1>4. node[s].first \in Window(b, SeqNoTH) /\ node[s].last \in Window(b, SeqNoTH)
    BY Placed
<1>5. node[s].first \in Window(b, w) /\ node[s].last \in Window(b, w)
    BY DEF Laid
<1>6. QED
    BY <1>1, <1>2, <1>3, <1>4, <1>5

\* The first number is in the set, and no other one comes before it.
LEMMA FirstIs ==
    ASSUME NEW b, NEW w, NEW o, Circle(b, w, o), NEW l, Laid(l.node, b, w, o),
           Leads(l.node, b, l.head), NEW S, S = Numbers(l.node, b, None), S # {}
    PROVE  /\ l.head \in DOMAIN l.node
           /\ FirstLost(l) \in S /\ Pos(b, FirstLost(l)) = F(b, l.node, l.head)
           /\ \A n \in S : F(b, l.node, l.head) =< Pos(b, n)
<1>1. DOMAIN l.node # {}
    BY DEF Numbers
<1>2. l.head \in DOMAIN l.node /\ \A t \in DOMAIN l.node : F(b, l.node, l.head) =< F(b, l.node, t)
    BY <1>1 DEF Leads
<1>3. /\ F(b, l.node, l.head) \in Int /\ L(b, l.node, l.head) \in Int
      /\ F(b, l.node, l.head) =< L(b, l.node, l.head) /\ l.head # None
      /\ l.node[l.head].first \in Window(b, w)
    BY <1>2, RangesAre
<1>4. Pos(b, FirstLost(l)) = F(b, l.node, l.head) /\ FirstLost(l) \in SeqNos
    BY <1>3 DEF FirstLost, F, Window
<1>5. FirstLost(l) \in S
    BY <1>2, <1>3, <1>4 DEF Numbers
<1>6. ASSUME NEW n \in S PROVE F(b, l.node, l.head) =< Pos(b, n)
    <2>1. PICK s \in DOMAIN l.node : n \in SeqNos /\ Pos(b, n) \in F(b, l.node, s) .. L(b, l.node, s)
        BY DEF Numbers
    <2>2. F(b, l.node, s) \in Int /\ L(b, l.node, s) \in Int
        BY RangesAre
    <2>3. QED
        BY <1>2, <1>3, <2>1, <2>2
<1>7. QED
    BY <1>2, <1>4, <1>5, <1>6

\* Nothing is missing exactly if the length is zero, and if no slot is in use.
LEMMA RcvEmpty ==
    ASSUME NEW b, NEW w, NEW o, Circle(b, w, o), NEW l, NEW S, RcvGood(l, b, w, o, S)
    PROVE  /\ l.length \in Nat /\ S \subseteq Window(b, w) /\ IsFiniteSet(S)
           /\ l.length = 0 <=> S = {}
           /\ S = {} <=> DOMAIN l.node = {}
<1>1. Laid(l.node, b, w, o) /\ S = Numbers(l.node, b, None) /\ l.length = Cardinality(S)
    BY DEF RcvGood, RcvShape
<1>2. S \subseteq Window(b, w) /\ IsFiniteSet(S) /\ l.length \in Nat
    BY <1>1, NumbersFinite
<1>3. l.length = 0 <=> S = {}
    BY <1>1, <1>2, FS_EmptySet
<1>4. ASSUME NEW s \in DOMAIN l.node PROVE l.node[s].first \in S
    <2>1. /\ F(b, l.node, s) \in Int /\ L(b, l.node, s) \in Int
          /\ F(b, l.node, s) =< L(b, l.node, s)
          /\ l.node[s].first \in Window(b, w) /\ s # None
        BY <1>1, RangesAre
    <2>2. Pos(b, l.node[s].first) \in F(b, l.node, s) .. L(b, l.node, s) /\ l.node[s].first \in SeqNos
        BY <2>1 DEF F, Window
    <2>3. QED
        BY <1>1, <2>1, <2>2 DEF Numbers
<1>5. S = {} <=> DOMAIN l.node = {}
    BY <1>1, <1>4 DEF Numbers
<1>6. QED
    BY <1>2, <1>3, <1>5

\* The first range.
LEMMA RcvInsertFirst ==
    ASSUME NEW b, NEW w, NEW o, Circle(b, w, o), NEW l, NEW S, RcvGood(l, b, w, o, S),
           NEW x \in Window(b, w), NEW y \in Window(b, w), Pos(b, x) =< Pos(b, y), l.length = 0
    PROVE  \E k \in 0 .. ListSize : RcvGood(RcvInsert(l, x, y), b, w, k, S \cup Between(x, y))
<1>1. PICK m : /\ m = RcvInsert(l, x, y)
               /\ m = [node |-> [s \in {0} |-> RcvNode(x, y, None, None)], head |-> 0, tail |-> 0,
                       length |-> SeqLen(x, y)]
    BY DEF RcvInsert
<1>2. /\ DOMAIN m.node = {0} /\ m.node = [s \in DOMAIN m.node |-> m.node[s]]
      /\ m.node[0] = RcvNode(x, y, None, None) /\ m.head = 0 /\ m.tail = 0 /\ m.length = SeqLen(x, y)
    BY <1>1
<1>3. /\ m.node[0].first = x /\ m.node[0].last = y
      /\ m.node[0].prior = None /\ m.node[0].next = None
    BY <1>2 DEF RcvNode
<1>4. S = {}
    BY RcvEmpty
<1>5. /\ b \in SeqNos /\ x \in Window(b, SeqNoTH) /\ y \in Window(b, SeqNoTH)
      /\ ListSize \in Nat /\ w \in Nat /\ w =< ListSize /\ w =< SeqNoTH - 1 /\ SeqNoTH \in Nat
    BY Sizes DEF Window
<1>6. PICK p \in 0 .. w - 1, q \in 0 .. w - 1 : p = Pos(b, x) /\ q = Pos(b, y) /\ p =< q
    BY DEF Window
<1>7. PICK k \in 0 .. ListSize : At(k, p) = 0
    <2>1. p \in 0 .. ListSize - 1
        BY <1>5
    <2>2. QED
        BY <2>1, AnySlot
<1>8. F(b, m.node, 0) = p /\ L(b, m.node, 0) = q
    BY <1>3, <1>6 DEF F, L
<1>9. Laid(m.node, b, w, k)
    BY <1>2, <1>3, <1>6, <1>7, <1>8 DEF Laid
<1>10. Apart(m.node, b, None)
    <2>1. \A s, t \in DOMAIN m.node : ~ (F(b, m.node, s) < F(b, m.node, t))
        BY <1>2, <1>8
    <2>2. QED
        BY <2>1 DEF Apart
<1>11. Linked(m.node, b)
    BY <1>2, <1>3, <1>8 DEF Linked, Follows
<1>12. Leads(m.node, b, m.head) /\ Paired(m.node, m.head) /\ Ends(m.node, m.tail)
    BY <1>2, <1>3, <1>8 DEF Leads, Paired, Ends
<1>13. Between(x, y) = Span(b, p, q)
    BY <1>5, <1>6, BetweenIs
<1>14. S \cup Between(x, y) = Numbers(m.node, b, None)
    <2>1. DOMAIN m.node \ {None} = {0}
        BY <1>2 DEF None
    <2>2. QED
        BY <1>4, <1>8, <1>13, <2>1 DEF Numbers, Span
<1>15. m.length = Cardinality(S \cup Between(x, y))
    <2>1. m.length = q - p + 1
        BY <1>2, <1>5, <1>6, Compared
    <2>2. p \in Nat /\ q \in Int /\ q >= p - 1 /\ q =< SeqNoTH - 1
        BY <1>5, <1>6
    <2>3. Cardinality(Span(b, p, q)) = q - p + 1
        BY <1>5, <2>2, SpanCount
    <2>4. QED
        BY <1>4, <1>13, <2>1, <2>3
<1>16. IsRcv(m)
    <2>1. \A s \in DOMAIN m.node :
              m.node[s] = RcvNode(m.node[s].first, m.node[s].last, m.node[s].prior, m.node[s].next)
        BY <1>2, <1>3
    <2>2. m = [node |-> m.node, head |-> m.head, tail |-> m.tail, length |-> m.length]
        BY <1>1
    <2>3. QED
        BY <1>2, <2>1, <2>2 DEF IsRcv
<1>17. RcvGood(m, b, w, k, S \cup Between(x, y))
    BY <1>9, <1>10, <1>11, <1>12, <1>14, <1>15, <1>16 DEF RcvGood, RcvShape
<1>18. QED
    BY <1>1, <1>17

\* A range that ends elsewhere.
RcvWithLast(l, i, y, k) ==
    [node |-> [l.node EXCEPT ![i] = RcvNode(l.node[i].first, y, l.node[i].prior, l.node[i].next)],
     head |-> l.head, tail |-> l.tail, length |-> k]

LEMMA RcvLastIs ==
    ASSUME NEW b, NEW w, NEW o, Circle(b, w, o), NEW l, NEW S, RcvShape(l, b, w, o, S),
           NEW i \in DOMAIN l.node, NEW y \in Window(b, w), F(b, l.node, i) =< Pos(b, y),
           \A t \in DOMAIN l.node : F(b, l.node, i) < F(b, l.node, t) => Pos(b, y) < F(b, l.node, t),
           NEW k, NEW m, m = RcvWithLast(l, i, y, k)
    PROVE  /\ RcvShape(m, b, w, o, Numbers(l.node, b, i) \cup Span(b, F(b, l.node, i), Pos(b, y)))
           /\ m.length = k
<1>1. /\ IsRcv(l) /\ Laid(l.node, b, w, o) /\ Apart(l.node, b, None) /\ Linked(l.node, b)
      /\ Leads(l.node, b, l.head) /\ Paired(l.node, l.head) /\ Ends(l.node, l.tail)
    BY DEF RcvShape
<1>2. PICK v : v = RcvNode(l.node[i].first, y, l.node[i].prior, l.node[i].next)
    OBVIOUS
<1>3. /\ v.first = l.node[i].first /\ v.last = y /\ v.prior = l.node[i].prior
      /\ v.next = l.node[i].next /\ v = RcvNode(v.first, v.last, v.prior, v.next)
    BY <1>2 DEF RcvNode
<1>4. PICK n : n = [l.node EXCEPT ![i] = v]
    OBVIOUS
<1>5. /\ DOMAIN n = DOMAIN l.node /\ n = [s \in DOMAIN n |-> n[s]] /\ n[i] = v
      /\ \A s \in DOMAIN l.node \ {i} : n[s] = l.node[s]
    BY <1>1, <1>4 DEF IsRcv
<1>6. m = [node |-> n, head |-> l.head, tail |-> l.tail, length |-> k]
    BY <1>2, <1>4 DEF RcvWithLast
<1>7. m.node = n /\ m.head = l.head /\ m.tail = l.tail /\ m.length = k
    BY <1>6
<1>8. IsRcv(m)
    <2>1. \A s \in DOMAIN n : n[s] = RcvNode(n[s].first, n[s].last, n[s].prior, n[s].next)
        <3> SUFFICES ASSUME NEW s \in DOMAIN n
                     PROVE  n[s] = RcvNode(n[s].first, n[s].last, n[s].prior, n[s].next)
            OBVIOUS
        <3>1. CASE s = i
            BY <1>3, <1>5, <3>1
        <3>2. CASE s # i
            <4>1. s \in DOMAIN l.node /\ n[s] = l.node[s]
                BY <1>5, <3>2
            <4>2. l.node[s] = RcvNode(l.node[s].first, l.node[s].last, l.node[s].prior, l.node[s].next)
                BY <1>1, <4>1 DEF IsRcv
            <4>3. QED
                BY <4>1, <4>2
        <3>3. QED
            BY <3>1, <3>2
    <2>2. QED
        BY <1>5, <1>6, <1>7, <2>1 DEF IsRcv
<1>9. /\ \A s \in DOMAIN l.node : /\ F(b, n, s) = F(b, l.node, s)
                                  /\ n[s].next = l.node[s].next /\ n[s].prior = l.node[s].prior
      /\ \A s \in DOMAIN l.node \ {i} : L(b, n, s) = L(b, l.node, s)
      /\ L(b, n, i) = Pos(b, y)
    BY <1>3, <1>5 DEF F, L
<1>10. \A s \in DOMAIN l.node : /\ F(b, l.node, s) \in Int /\ L(b, l.node, s) \in Int
                                /\ F(b, l.node, s) =< L(b, l.node, s) /\ s # None
    BY <1>1, RangesAre
<1>11. Laid(n, b, w, o)
    <2> SUFFICES ASSUME NEW s \in DOMAIN n
                 PROVE  /\ n[s].first \in Window(b, w) /\ n[s].last \in Window(b, w)
                        /\ F(b, n, s) =< L(b, n, s) /\ s = At(o, F(b, n, s))
        BY <1>5 DEF Laid
    <2>1. /\ l.node[s].first \in Window(b, w) /\ l.node[s].last \in Window(b, w)
          /\ F(b, l.node, s) =< L(b, l.node, s) /\ s = At(o, F(b, l.node, s))
        BY <1>1, <1>5 DEF Laid
    <2>2. CASE s = i
        BY <1>3, <1>5, <1>9, <2>1, <2>2
    <2>3. CASE s # i
        BY <1>5, <1>9, <2>1, <2>3
    <2>4. QED
        BY <2>2, <2>3
<1>12. Apart(n, b, None)
    <2> SUFFICES ASSUME NEW s \in DOMAIN l.node, NEW t \in DOMAIN l.node, F(b, n, s) < F(b, n, t)
                 PROVE  L(b, n, s) < F(b, n, t)
        BY <1>5 DEF Apart
    <2>1. CASE s = i
        BY <1>9, <2>1
    <2>2. CASE s # i
        BY <1>1, <1>9, <1>10, <2>2 DEF Apart
    <2>3. QED
        BY <2>1, <2>2
<1>13. Linked(n, b)
    <2> SUFFICES ASSUME NEW s \in DOMAIN l.node PROVE Follows(n, b, s, n[s].next)
        BY <1>5 DEF Linked
    <2>1. Follows(l.node, b, s, l.node[s].next)
        BY <1>1 DEF Linked
    <2>2. QED
        BY <1>5, <1>9, <2>1 DEF Follows
<1>14. Leads(n, b, l.head)
    BY <1>1, <1>5, <1>9 DEF Leads
<1>15. Paired(n, l.head)
    BY <1>1, <1>5, <1>9 DEF Paired
<1>16. Ends(n, l.tail)
    BY <1>1, <1>5, <1>9 DEF Ends
<1>17. Numbers(n, b, None) = Numbers(l.node, b, i) \cup Span(b, F(b, l.node, i), Pos(b, y))
    <2>1. ASSUME NEW x \in SeqNos
          PROVE  x \in Numbers(n, b, None)
                     <=> x \in Numbers(l.node, b, i) \/ x \in Span(b, F(b, l.node, i), Pos(b, y))
        BY <1>5, <1>9, <1>10 DEF Numbers, Span
    <2>2. QED
        BY <2>1 DEF Numbers, Span
<1>18. QED
    BY <1>7, <1>8, <1>11, <1>12, <1>13, <1>14, <1>15, <1>16, <1>17 DEF RcvShape

\* A loss that comes right after the last range, and makes it longer; a range of one number
\* is left as it is.
LEMMA RcvInsertJoined ==
    ASSUME NEW b, NEW w, NEW o, Circle(b, w, o), NEW l, NEW S, RcvGood(l, b, w, o, S),
           NEW x \in Window(b, w), NEW y \in Window(b, w), Pos(b, x) =< Pos(b, y),
           \A n \in S : Pos(b, n) < Pos(b, x), l.length # 0,
           l.node[l.tail].last # l.node[l.tail].first, IncSeq(l.node[l.tail].last) = x
    PROVE  RcvGood(RcvInsert(l, x, y), b, w, o, S \cup Between(x, y))
<1>1. /\ IsRcv(l) /\ Laid(l.node, b, w, o) /\ Apart(l.node, b, None) /\ Linked(l.node, b)
      /\ Ends(l.node, l.tail) /\ S = Numbers(l.node, b, None) /\ l.length = Cardinality(S)
      /\ RcvShape(l, b, w, o, S)
    BY DEF RcvGood, RcvShape
<1>2. DOMAIN l.node # {} /\ IsFiniteSet(S) /\ S \subseteq SeqNos
    BY RcvEmpty DEF Window
<1>3. PICK t \in DOMAIN l.node : t = l.tail /\ l.node[t].next = None
    BY <1>1, <1>2 DEF Ends
<1>4. /\ b \in SeqNos /\ x \in Window(b, SeqNoTH) /\ y \in Window(b, SeqNoTH) /\ w \in Nat
      /\ w =< SeqNoTH - 1 /\ SeqNoTH \in Nat
    BY Sizes DEF Window
<1>5. PICK p \in 0 .. w - 1, q \in 0 .. w - 1, f \in 0 .. w - 1, e \in 0 .. w - 1 :
          p = Pos(b, x) /\ q = Pos(b, y) /\ p =< q /\ f = F(b, l.node, t) /\ e = L(b, l.node, t) /\ f =< e
    <2>1. F(b, l.node, t) \in 0 .. w - 1 /\ L(b, l.node, t) \in 0 .. w - 1 /\ F(b, l.node, t) =< L(b, l.node, t)
        BY <1>1, RangesAre
    <2>2. Pos(b, x) \in 0 .. w - 1 /\ Pos(b, y) \in 0 .. w - 1
        BY DEF Window
    <2>3. QED
        BY <2>1, <2>2
<1>6. p = e + 1
    <2>1. l.node[t].last \in SeqNos /\ Pos(b, l.node[t].last) = e
        <3>1. l.node[t].last \in Window(b, w)
            BY <1>1, RangesAre
        <3>2. QED
            BY <1>5, <3>1 DEF Window, L
    <2>2. Pos(b, l.node[t].last) \in 0 .. SeqNoTH - 2
        BY <1>4, <1>5, <2>1
    <2>3. QED
        BY <1>3, <1>4, <1>5, <2>1, <2>2, NextNumber
<1>7. PICK k : k = l.length + SeqLen(x, y)
    OBVIOUS
<1>8. RcvInsert(l, x, y) = RcvWithLast(l, t, y, k)
    <2>1. PICK v : v = [l.node[t] EXCEPT !.last = y]
        OBVIOUS
    <2>2. v = RcvNode(l.node[t].first, y, l.node[t].prior, l.node[t].next)
        <3>1. l.node[t] = [first |-> l.node[t].first, last |-> l.node[t].last,
                           prior |-> l.node[t].prior, next |-> l.node[t].next]
            BY <1>1 DEF IsRcv, RcvNode
        <3>2. QED
            BY <2>1, <3>1 DEF RcvNode
    <2>3. PICK g : g = [l EXCEPT !.length = k]
        OBVIOUS
    <2>4. g = [node |-> l.node, head |-> l.head, tail |-> l.tail, length |-> k]
        BY <1>1, <2>3 DEF IsRcv
    <2>5. RcvInsert(l, x, y) = [g EXCEPT !.node[t].last = y]
        BY <1>3, <1>7, <2>3 DEF RcvInsert
    <2>6. [g EXCEPT !.node[t].last = y]
              = [node |-> [l.node EXCEPT ![t] = v], head |-> l.head, tail |-> l.tail, length |-> k]
        BY <2>1, <2>4
    <2>7. QED
        BY <2>2, <2>5, <2>6 DEF RcvWithLast
<1>9. \A s \in DOMAIN l.node : F(b, l.node, s) =< f /\ F(b, l.node, s) \in Int
    <2>1. Follows(l.node, b, t, None)
        BY <1>1, <1>3 DEF Linked
    <2>2. \A s \in DOMAIN l.node : F(b, l.node, s) \in Int
        BY <1>1, RangesAre
    <2>3. QED
        BY <1>5, <2>1, <2>2 DEF Follows
<1>10. PICK m : m = RcvWithLast(l, t, y, k)
    OBVIOUS
<1>11. /\ RcvShape(m, b, w, o, Numbers(l.node, b, t) \cup Span(b, f, q))
       /\ m.length = k
    <2>1. \A s \in DOMAIN l.node : F(b, l.node, t) < F(b, l.node, s) => Pos(b, y) < F(b, l.node, s)
        BY <1>5, <1>9
    <2>2. F(b, l.node, t) =< Pos(b, y)
        BY <1>5, <1>6
    <2>3. QED
        BY <1>1, <1>5, <1>10, <2>1, <2>2, RcvLastIs
<1>12. Between(x, y) = Span(b, p, q)
    BY <1>4, <1>5, BetweenIs
<1>13. S \cup Between(x, y) = Numbers(l.node, b, t) \cup Span(b, f, q)
    <2>1. S = Numbers(l.node, b, t) \cup Span(b, f, e)
        BY <1>1, <1>5, CountOne
    <2>2. Span(b, f, q) = Span(b, f, e) \cup Span(b, p, q)
        <3>1. ASSUME NEW n \in SeqNos
              PROVE  n \in Span(b, f, q) <=> n \in Span(b, f, e) \/ n \in Span(b, p, q)
            <4>1. Pos(b, n) \in Int
                BY <1>4, PosType
            <4>2. QED
                BY <1>5, <1>6, <4>1 DEF Span
        <3>2. QED
            BY <3>1 DEF Span
    <2>3. QED
        BY <1>12, <2>1, <2>2
<1>14. m.length = Cardinality(S \cup Between(x, y))
    <2>1. S \cap Span(b, p, q) = {}
        <3> SUFFICES ASSUME NEW n \in S, n \in Span(b, p, q) PROVE FALSE
            OBVIOUS
        <3>1. Pos(b, n) < p /\ Pos(b, n) \in p .. q
            BY <1>5 DEF Span
        <3>2. QED
            BY <1>5, <3>1
    <2>2. Cardinality(S \cup Span(b, p, q)) = Cardinality(S) + (q - p + 1)
        BY <1>2, <1>5, <2>1, CountBoth
    <2>3. SeqLen(x, y) = q - p + 1
        BY <1>4, <1>5, Compared
    <2>4. QED
        BY <1>1, <1>7, <1>11, <1>12, <2>2, <2>3
<1>15. QED
    BY <1>8, <1>10, <1>11, <1>13, <1>14 DEF RcvGood

\* A range put in after the one in slot i.
RcvPut(l, i, c, x, y, k) ==
    [node |-> [s \in DOMAIN l.node \cup {c} |->
                  IF s = c THEN RcvNode(x, y, i, l.node[i].next)
                  ELSE RcvNode(l.node[s].first, l.node[s].last,
                               IF s = l.node[i].next THEN c ELSE l.node[s].prior,
                               IF s = i THEN c ELSE l.node[s].next)],
     head |-> l.head, tail |-> IF l.tail = i THEN c ELSE l.tail, length |-> k]

\* Its fields.
LEMMA RcvPutFields ==
    ASSUME NEW l, NEW i \in DOMAIN l.node, NEW c, c \notin DOMAIN l.node, NEW x, NEW y, NEW k,
           NEW m, m = RcvPut(l, i, c, x, y, k)
    PROVE  /\ IsRcv(m) /\ m.length = k /\ m.head = l.head
           /\ m.tail = IF l.tail = i THEN c ELSE l.tail
           /\ DOMAIN m.node = DOMAIN l.node \cup {c}
           /\ m.node[c].first = x /\ m.node[c].last = y
           /\ m.node[c].prior = i /\ m.node[c].next = l.node[i].next
           /\ \A s \in DOMAIN l.node :
                  /\ m.node[s].first = l.node[s].first /\ m.node[s].last = l.node[s].last
                  /\ m.node[s].prior = (IF s = l.node[i].next THEN c ELSE l.node[s].prior)
                  /\ m.node[s].next = (IF s = i THEN c ELSE l.node[s].next)
<1>1. PICK n : n = [s \in DOMAIN l.node \cup {c} |->
                  IF s = c THEN RcvNode(x, y, i, l.node[i].next)
                  ELSE RcvNode(l.node[s].first, l.node[s].last,
                               IF s = l.node[i].next THEN c ELSE l.node[s].prior,
                               IF s = i THEN c ELSE l.node[s].next)]
    OBVIOUS
<1>2. m = [node |-> n, head |-> l.head, tail |-> IF l.tail = i THEN c ELSE l.tail, length |-> k]
    BY <1>1 DEF RcvPut
<1>3. /\ m.node = n /\ m.head = l.head /\ m.tail = (IF l.tail = i THEN c ELSE l.tail)
      /\ m.length = k
    BY <1>2
<1>4. /\ DOMAIN n = DOMAIN l.node \cup {c} /\ n = [s \in DOMAIN n |-> n[s]]
      /\ n[c] = RcvNode(x, y, i, l.node[i].next)
      /\ \A s \in DOMAIN l.node :
             n[s] = RcvNode(l.node[s].first, l.node[s].last,
                            IF s = l.node[i].next THEN c ELSE l.node[s].prior,
                            IF s = i THEN c ELSE l.node[s].next)
    BY <1>1
<1>5. /\ n[c].first = x /\ n[c].last = y /\ n[c].prior = i /\ n[c].next = l.node[i].next
      /\ n[c] = RcvNode(n[c].first, n[c].last, n[c].prior, n[c].next)
    BY <1>4 DEF RcvNode
<1>6. ASSUME NEW s \in DOMAIN l.node
      PROVE  /\ n[s].first = l.node[s].first /\ n[s].last = l.node[s].last
             /\ n[s].prior = (IF s = l.node[i].next THEN c ELSE l.node[s].prior)
             /\ n[s].next = (IF s = i THEN c ELSE l.node[s].next)
             /\ n[s] = RcvNode(n[s].first, n[s].last, n[s].prior, n[s].next)
    <2>1. PICK before, after : /\ before = (IF s = l.node[i].next THEN c ELSE l.node[s].prior)
                               /\ after = (IF s = i THEN c ELSE l.node[s].next)
        OBVIOUS
    <2>2. n[s] = RcvNode(l.node[s].first, l.node[s].last, before, after)
        BY <1>4, <2>1
    <2>3. /\ n[s].first = l.node[s].first /\ n[s].last = l.node[s].last
          /\ n[s].prior = before /\ n[s].next = after
        BY <2>2 DEF RcvNode
    <2>4. QED
        BY <2>1, <2>2, <2>3
<1>7. \A s \in DOMAIN n : n[s] = RcvNode(n[s].first, n[s].last, n[s].prior, n[s].next)
    BY <1>4, <1>5, <1>6
<1>8. m = [node |-> m.node, head |-> m.head, tail |-> m.tail, length |-> m.length]
    BY <1>2, <1>3
<1>9. IsRcv(m)
    BY <1>3, <1>4, <1>7, <1>8 DEF IsRcv
<1>10. QED
    BY <1>3, <1>4, <1>5, <1>6, <1>9

LEMMA RcvPutIs ==
    ASSUME NEW b, NEW w, NEW o, Circle(b, w, o), NEW l, NEW S, RcvShape(l, b, w, o, S),
           NEW i \in DOMAIN l.node, NEW x \in Window(b, w), NEW y \in Window(b, w),
           Pos(b, x) =< Pos(b, y), L(b, l.node, i) < Pos(b, x),
           \A t \in DOMAIN l.node : F(b, l.node, t) =< F(b, l.node, i) \/ Pos(b, y) < F(b, l.node, t),
           NEW c, c = At(o, Pos(b, x)), NEW k, NEW m, m = RcvPut(l, i, c, x, y, k)
    PROVE  /\ RcvShape(m, b, w, o, S \cup Span(b, Pos(b, x), Pos(b, y)))
           /\ m.length = k /\ m.node[c].last = y
           /\ c \notin DOMAIN l.node /\ c # None
<1>1. /\ IsRcv(l) /\ Laid(l.node, b, w, o) /\ Apart(l.node, b, None) /\ Linked(l.node, b)
      /\ Leads(l.node, b, l.head) /\ Paired(l.node, l.head) /\ Ends(l.node, l.tail)
      /\ S = Numbers(l.node, b, None)
    BY DEF RcvShape
<1>2. \A s \in DOMAIN l.node : /\ F(b, l.node, s) \in Int /\ L(b, l.node, s) \in Int
                               /\ F(b, l.node, s) =< L(b, l.node, s) /\ s # None
    BY <1>1, RangesAre
<1>3. PICK p \in 0 .. w - 1, q \in 0 .. w - 1 : p = Pos(b, x) /\ q = Pos(b, y) /\ p =< q
    BY DEF Window
<1>4. w \in Nat
    BY Sizes
<1>5. c \notin DOMAIN l.node /\ c # None
    <2>1. \A s \in DOMAIN l.node : F(b, l.node, s) # p
        BY <1>2, <1>3, <1>4
    <2>2. QED
        BY <1>1, <1>3, <2>1, FreeSlot
<1>6. PICK n : n = m.node
    OBVIOUS
<1>7. /\ IsRcv(m) /\ m.length = k /\ m.head = l.head
      /\ m.tail = IF l.tail = i THEN c ELSE l.tail
      /\ DOMAIN n = DOMAIN l.node \cup {c}
      /\ n[c].first = x /\ n[c].last = y /\ n[c].prior = i /\ n[c].next = l.node[i].next
      /\ \A s \in DOMAIN l.node :
             /\ n[s].first = l.node[s].first /\ n[s].last = l.node[s].last
             /\ n[s].prior = (IF s = l.node[i].next THEN c ELSE l.node[s].prior)
             /\ n[s].next = (IF s = i THEN c ELSE l.node[s].next)
    BY <1>5, <1>6, RcvPutFields
<1>8. /\ F(b, n, c) = p /\ L(b, n, c) = q
      /\ \A s \in DOMAIN l.node : F(b, n, s) = F(b, l.node, s) /\ L(b, n, s) = L(b, l.node, s)
    BY <1>3, <1>7 DEF F, L
<1>9. F(b, l.node, i) < p
    BY <1>2, <1>3, <1>4
<1>10. Laid(n, b, w, o)
    <2>1. n = [s \in DOMAIN n |-> n[s]]
        BY <1>6, <1>7 DEF IsRcv
    <2> SUFFICES ASSUME NEW s \in DOMAIN n
                 PROVE  /\ n[s].first \in Window(b, w) /\ n[s].last \in Window(b, w)
                        /\ F(b, n, s) =< L(b, n, s) /\ s = At(o, F(b, n, s))
        BY <2>1 DEF Laid
    <2>2. CASE s = c
        BY <1>3, <1>7, <1>8, <2>2
    <2>3. CASE s # c
        <3>1. s \in DOMAIN l.node
            BY <1>7, <2>3
        <3>2. /\ l.node[s].first \in Window(b, w) /\ l.node[s].last \in Window(b, w)
              /\ F(b, l.node, s) =< L(b, l.node, s) /\ s = At(o, F(b, l.node, s))
            BY <1>1, <3>1 DEF Laid
        <3>3. QED
            BY <1>7, <1>8, <3>1, <3>2
    <2>4. QED
        BY <2>2, <2>3
<1>11. \A s \in DOMAIN l.node : L(b, l.node, s) < p \/ q < F(b, l.node, s)
    <2> SUFFICES ASSUME NEW s \in DOMAIN l.node PROVE L(b, l.node, s) < p \/ q < F(b, l.node, s)
        OBVIOUS
    <2>1. CASE s = i
        BY <1>3, <2>1
    <2>2. CASE F(b, l.node, s) < F(b, l.node, i)
        <3>1. L(b, l.node, s) < F(b, l.node, i)
            BY <1>1, <1>2, <2>2 DEF Apart
        <3>2. QED
            BY <1>2, <1>9, <3>1
    <2>3. CASE q < F(b, l.node, s)
        BY <2>3
    <2>4. F(b, l.node, s) = F(b, l.node, i) => s = i
        BY <1>1, OneSlot
    <2>5. QED
        BY <1>2, <1>3, <2>1, <2>2, <2>3, <2>4
<1>12. Apart(n, b, None)
    <2> SUFFICES ASSUME NEW s \in DOMAIN n, NEW t \in DOMAIN n, F(b, n, s) < F(b, n, t)
                 PROVE  L(b, n, s) < F(b, n, t)
        BY DEF Apart
    <2>1. CASE s = c
        <3>1. t # c
            BY <1>8, <2>1
        <3>2. t \in DOMAIN l.node
            BY <1>7, <3>1
        <3>3. QED
            BY <1>2, <1>8, <1>11, <2>1, <3>2
    <2>2. CASE s # c /\ t = c
        BY <1>2, <1>3, <1>7, <1>8, <1>11, <2>2
    <2>3. CASE s # c /\ t # c
        <3>1. s \in DOMAIN l.node /\ t \in DOMAIN l.node
            BY <1>7, <2>3
        <3>2. QED
            BY <1>1, <1>2, <1>8, <3>1 DEF Apart
    <2>4. QED
        BY <2>1, <2>2, <2>3
<1>13. Linked(n, b)
    <2>1. F(b, n, c) \in Int /\ F(b, l.node, i) < F(b, n, c)
        BY <1>3, <1>8, <1>9
    <2>2. \A t \in DOMAIN l.node : F(b, l.node, t) =< F(b, l.node, i) \/ F(b, n, c) < F(b, l.node, t)
        BY <1>2, <1>3, <1>8
    <2>3. n[c].next = l.node[i].next /\ n[i].next = c
        BY <1>7
    <2>4. \A s \in DOMAIN l.node \ {i} : n[s].next = l.node[s].next
        BY <1>7
    <2>5. \A s \in DOMAIN l.node : F(b, n, s) = F(b, l.node, s)
        BY <1>8
    <2>6. QED
        BY <1>1, <1>5, <1>7, <2>1, <2>2, <2>3, <2>4, <2>5, LinkAfter
<1>14. Leads(n, b, l.head)
    <2>1. l.head \in DOMAIN l.node /\ \A t \in DOMAIN l.node : F(b, l.node, l.head) =< F(b, l.node, t)
        BY <1>1 DEF Leads
    <2>2. F(b, l.node, l.head) =< p
        BY <1>2, <1>9, <2>1
    <2>3. \A t \in DOMAIN n : F(b, n, l.head) =< F(b, n, t)
        BY <1>7, <1>8, <2>1, <2>2
    <2>4. QED
        BY <1>7, <2>1, <2>3 DEF Leads
<1>15. Follows(l.node, b, i, l.node[i].next)
    BY <1>1 DEF Linked
<1>16. Paired(n, l.head)
    <2>1. l.head \in DOMAIN l.node /\ \A t \in DOMAIN l.node : F(b, l.node, l.head) =< F(b, l.node, t)
        BY <1>1 DEF Leads
    <2>2. l.node[i].next # l.head
        BY <1>2, <1>15, <2>1 DEF Follows
    <2> SUFFICES ASSUME NEW s \in DOMAIN n
                 PROVE  IF s = l.head THEN n[s].prior = None
                        ELSE n[s].prior \in DOMAIN n /\ n[n[s].prior].next = s
        BY DEF Paired
    <2>3. CASE s = c
        BY <1>5, <1>7, <2>1, <2>3
    <2>4. CASE s = l.node[i].next
        <3>1. s \in DOMAIN l.node
            BY <1>2, <1>5, <1>7, <1>15, <2>4 DEF Follows
        <3>2. QED
            BY <1>5, <1>7, <2>2, <2>4, <3>1
    <2>5. CASE s # c /\ s # l.node[i].next
        <3>1. s \in DOMAIN l.node /\ n[s].prior = l.node[s].prior
            BY <1>7, <2>5
        <3>2. IF s = l.head THEN l.node[s].prior = None
              ELSE l.node[s].prior \in DOMAIN l.node /\ l.node[l.node[s].prior].next = s
            BY <1>1, <3>1 DEF Paired
        <3>3. l.node[s].prior # i \/ s = l.head
            BY <2>5, <3>2
        <3>4. QED
            BY <1>7, <3>1, <3>2, <3>3
    <2>6. QED
        BY <2>3, <2>4, <2>5
<1>17. Ends(n, m.tail)
    <2>1. l.tail \in DOMAIN l.node /\ l.node[l.tail].next = None
        BY <1>1 DEF Ends
    <2>2. QED
        BY <1>7, <2>1 DEF Ends
<1>18. S \cup Span(b, p, q) = Numbers(n, b, None)
    <2>1. ASSUME NEW z \in SeqNos
          PROVE  z \in Numbers(n, b, None) <=> z \in S \/ z \in Span(b, p, q)
        BY <1>1, <1>5, <1>7, <1>8 DEF Numbers, Span
    <2>2. S \subseteq SeqNos
        BY <1>1 DEF Numbers
    <2>3. QED
        BY <2>1, <2>2 DEF Numbers, Span
<1>19. QED
    BY <1>3, <1>5, <1>6, <1>7, <1>10, <1>12, <1>13, <1>14, <1>16, <1>17, <1>18 DEF RcvShape

\* A loss that does not make the last range longer becomes one of its own.
LEMMA RcvInsertAfter ==
    ASSUME NEW b, NEW w, NEW o, Circle(b, w, o), NEW l, NEW S, RcvGood(l, b, w, o, S),
           NEW x \in Window(b, w), NEW y \in Window(b, w), Pos(b, x) =< Pos(b, y),
           \A n \in S : Pos(b, n) < Pos(b, x), l.length # 0,
           ~ (l.node[l.tail].last # l.node[l.tail].first /\ IncSeq(l.node[l.tail].last) = x)
    PROVE  RcvGood(RcvInsert(l, x, y), b, w, o, S \cup Between(x, y))
<1>1. /\ IsRcv(l) /\ Laid(l.node, b, w, o) /\ Leads(l.node, b, l.head) /\ Linked(l.node, b)
      /\ Ends(l.node, l.tail) /\ S = Numbers(l.node, b, None) /\ l.length = Cardinality(S)
      /\ RcvShape(l, b, w, o, S)
    BY DEF RcvGood, RcvShape
<1>2. DOMAIN l.node # {} /\ IsFiniteSet(S) /\ S \subseteq SeqNos
    BY RcvEmpty DEF Window
<1>3. PICK t \in DOMAIN l.node : t = l.tail /\ l.node[t].next = None
    BY <1>1, <1>2 DEF Ends
<1>4. /\ b \in SeqNos /\ x \in Window(b, SeqNoTH) /\ y \in Window(b, SeqNoTH) /\ w \in Nat
      /\ w =< SeqNoTH - 1 /\ SeqNoTH \in Nat
    BY Sizes DEF Window
<1>5. PICK p \in 0 .. w - 1, q \in 0 .. w - 1 : p = Pos(b, x) /\ q = Pos(b, y) /\ p =< q
    BY DEF Window
<1>6. l.head \in DOMAIN l.node
    BY <1>1, <1>2 DEF Leads
<1>7. PICK c : c = At(o, p) /\ c = SlotOf(l, x)
    BY <1>1, <1>5, <1>6, SlotOfIs
<1>8. L(b, l.node, t) < p
    <2>1. /\ F(b, l.node, t) \in Int /\ L(b, l.node, t) \in Int /\ t # None
          /\ F(b, l.node, t) =< L(b, l.node, t) /\ l.node[t].last \in Window(b, w)
        BY <1>1, RangesAre
    <2>2. l.node[t].last \in S
        BY <1>1, <2>1 DEF Numbers, L, Window
    <2>3. QED
        BY <1>5, <2>2 DEF L
<1>9. \A s \in DOMAIN l.node : F(b, l.node, s) =< F(b, l.node, t)
    <2>1. Follows(l.node, b, t, None)
        BY <1>1, <1>3 DEF Linked
    <2>2. QED
        BY <2>1 DEF Follows
<1>10. PICK k : k = l.length + SeqLen(x, y)
    OBVIOUS
<1>11. PICK m : m = RcvPut(l, t, c, x, y, k)
    OBVIOUS
<1>12. RcvShape(m, b, w, o, S \cup Span(b, p, q)) /\ m.length = k /\ c \notin DOMAIN l.node /\ c # None
    <2>1. /\ c = At(o, Pos(b, x)) /\ L(b, l.node, t) < Pos(b, x)
          /\ \A s \in DOMAIN l.node : F(b, l.node, s) =< F(b, l.node, t) \/ Pos(b, y) < F(b, l.node, s)
        BY <1>5, <1>7, <1>8, <1>9
    <2>2. RcvShape(l, b, w, o, S)
        BY <1>1
    <2>3. /\ RcvShape(m, b, w, o, S \cup Span(b, Pos(b, x), Pos(b, y))) /\ m.length = k
          /\ c \notin DOMAIN l.node /\ c # None
        BY <1>11, <2>1, <2>2, RcvPutIs
    <2>4. QED
        BY <1>5, <2>3
<1>13. RcvInsert(l, x, y) = m
    <2>1. PICK g : g = [l EXCEPT !.length = k]
        OBVIOUS
    <2>2. g = [node |-> l.node, head |-> l.head, tail |-> l.tail, length |-> k]
        BY <1>1, <2>1 DEF IsRcv
    <2>3. PICK u : u = [l.node EXCEPT ![t].next = c]
        OBVIOUS
    <2>4. PICK v : v = RcvNode(x, y, t, None)
        OBVIOUS
    <2>5. PICK n : n = With(u, c, v)
        OBVIOUS
    <2>6. RcvInsert(l, x, y) = [g EXCEPT !.node = With([@ EXCEPT ![t].next = c], c, RcvNode(x, y, t, None)),
                                         !.tail = c]
        BY <1>3, <1>7, <1>10, <2>1 DEF RcvInsert
    <2>7. RcvInsert(l, x, y) = [node |-> n, head |-> l.head, tail |-> c, length |-> k]
        BY <2>2, <2>3, <2>4, <2>5, <2>6
    <2>8. /\ DOMAIN u = DOMAIN l.node
          /\ u[t] = RcvNode(l.node[t].first, l.node[t].last, l.node[t].prior, c)
          /\ \A s \in DOMAIN l.node \ {t} : u[s] = l.node[s]
        <3>1. l.node[t] = [first |-> l.node[t].first, last |-> l.node[t].last,
                           prior |-> l.node[t].prior, next |-> l.node[t].next]
            BY <1>1 DEF IsRcv, RcvNode
        <3>2. PICK r : r = l.node[t]
            OBVIOUS
        <3>3. u[t] = [r EXCEPT !.next = c]
            BY <2>3, <3>2
        <3>4. r = [first |-> r.first, last |-> r.last, prior |-> r.prior, next |-> r.next]
            BY <3>1, <3>2
        <3>5. u[t] = RcvNode(r.first, r.last, r.prior, c)
            BY <3>3, <3>4 DEF RcvNode
        <3>6. QED
            BY <2>3, <3>2, <3>5
    <2>9. n = [s \in DOMAIN l.node \cup {c} |-> IF s = c THEN v ELSE u[s]]
        BY <2>5, <2>8 DEF With
    <2>10. PICK z : z = [s \in DOMAIN l.node \cup {c} |->
                  IF s = c THEN RcvNode(x, y, t, l.node[t].next)
                  ELSE RcvNode(l.node[s].first, l.node[s].last,
                               IF s = l.node[t].next THEN c ELSE l.node[s].prior,
                               IF s = t THEN c ELSE l.node[s].next)]
        OBVIOUS
    <2>11. ASSUME NEW s \in DOMAIN l.node \cup {c}
           PROVE  (IF s = c THEN v ELSE u[s])
                      = (IF s = c THEN RcvNode(x, y, t, l.node[t].next)
                         ELSE RcvNode(l.node[s].first, l.node[s].last,
                               IF s = l.node[t].next THEN c ELSE l.node[s].prior,
                               IF s = t THEN c ELSE l.node[s].next))
        <3>1. CASE s = c
            BY <1>3, <2>4, <3>1
        <3>2. CASE s = t
            <4>1. s # c /\ s # None
                BY <1>1, <1>12, <3>2, RangesAre
            <4>2. QED
                BY <1>3, <2>8, <3>2, <4>1
        <3>3. CASE s # c /\ s # t
            <4>1. s \in DOMAIN l.node /\ s # None
                BY <1>1, <3>3, RangesAre
            <4>2. u[s] = RcvNode(l.node[s].first, l.node[s].last, l.node[s].prior, l.node[s].next)
                BY <1>1, <2>8, <3>3, <4>1 DEF IsRcv
            <4>3. QED
                BY <1>3, <3>3, <4>1, <4>2
        <3>4. QED
            BY <3>1, <3>2, <3>3
    <2>12. n = z
        BY <2>9, <2>10, <2>11
    <2>13. QED
        BY <1>3, <1>11, <2>7, <2>10, <2>12 DEF RcvPut
<1>14. Between(x, y) = Span(b, p, q)
    BY <1>4, <1>5, BetweenIs
<1>15. m.length = Cardinality(S \cup Between(x, y))
    <2>1. S \cap Span(b, p, q) = {}
        <3> SUFFICES ASSUME NEW n \in S, n \in Span(b, p, q) PROVE FALSE
            OBVIOUS
        <3>1. Pos(b, n) < p /\ Pos(b, n) \in p .. q
            BY <1>5 DEF Span
        <3>2. QED
            BY <1>5, <3>1
    <2>2. Cardinality(S \cup Span(b, p, q)) = Cardinality(S) + (q - p + 1)
        BY <1>2, <1>5, <2>1, CountBoth
    <2>3. SeqLen(x, y) = q - p + 1
        BY <1>4, <1>5, Compared
    <2>4. QED
        BY <1>1, <1>10, <1>12, <1>14, <2>2, <2>3
<1>16. QED
    BY <1>12, <1>13, <1>14, <1>15 DEF RcvGood

\* insert: beyond all that is listed.
LEMMA RcvInsertIs ==
    ASSUME NEW b, NEW w, NEW o, Circle(b, w, o), NEW l, NEW S, RcvGood(l, b, w, o, S),
           NEW x \in Window(b, w), NEW y \in Window(b, w), Pos(b, x) =< Pos(b, y),
           \A n \in S : Pos(b, n) < Pos(b, x)
    PROVE  \E k \in 0 .. ListSize : RcvGood(RcvInsert(l, x, y), b, w, k, S \cup Between(x, y))
<1>1. o \in 0 .. ListSize
    BY Sizes
<1>2. CASE l.length = 0
    BY <1>2, RcvInsertFirst
<1>3. CASE l.length # 0 /\ l.node[l.tail].last # l.node[l.tail].first
           /\ IncSeq(l.node[l.tail].last) = x
    BY <1>1, <1>3, RcvInsertJoined
<1>4. CASE /\ l.length # 0
           /\ ~ (l.node[l.tail].last # l.node[l.tail].first /\ IncSeq(l.node[l.tail].last) = x)
    BY <1>1, <1>4, RcvInsertAfter
<1>5. QED
    BY <1>2, <1>3, <1>4

\* A wider window.
LEMMA Wider ==
    ASSUME NEW b, NEW w, NEW o, Circle(b, w, o), NEW node, Laid(node, b, w, o),
           NEW v \in 0 .. WindowLimit, w =< v
    PROVE  Laid(node, b, v, o) /\ Circle(b, v, o)
<1>1. w \in Nat /\ SeqNoTH \in Nat
    BY Sizes
<1>2. Window(b, w) \subseteq Window(b, v)
    BY <1>1 DEF Window
<1>3. QED
    BY <1>2 DEF Laid, Circle

-----------------------------------------------------------------------------
(* The receiver's list: remove. *)

\* A range taken out.
RcvDrop(l, i, k) ==
    [node |-> [s \in DOMAIN l.node \ {i} |->
                  RcvNode(l.node[s].first, l.node[s].last,
                          IF s = l.node[i].next THEN l.node[i].prior ELSE l.node[s].prior,
                          IF s = l.node[i].prior THEN l.node[i].next ELSE l.node[s].next)],
     head |-> IF l.head = i THEN l.node[i].next ELSE l.head,
     tail |-> IF l.tail = i THEN l.node[i].prior ELSE l.tail,
     length |-> k]

\* Its fields.
LEMMA RcvDropFields ==
    ASSUME NEW l, NEW i, NEW k, NEW m, m = RcvDrop(l, i, k)
    PROVE  /\ IsRcv(m) /\ m.length = k
           /\ m.head = (IF l.head = i THEN l.node[i].next ELSE l.head)
           /\ m.tail = (IF l.tail = i THEN l.node[i].prior ELSE l.tail)
           /\ DOMAIN m.node = DOMAIN l.node \ {i}
           /\ \A s \in DOMAIN m.node :
                  /\ m.node[s].first = l.node[s].first /\ m.node[s].last = l.node[s].last
                  /\ m.node[s].prior = (IF s = l.node[i].next THEN l.node[i].prior ELSE l.node[s].prior)
                  /\ m.node[s].next = (IF s = l.node[i].prior THEN l.node[i].next ELSE l.node[s].next)
<1>1. PICK n : n = [s \in DOMAIN l.node \ {i} |->
                  RcvNode(l.node[s].first, l.node[s].last,
                          IF s = l.node[i].next THEN l.node[i].prior ELSE l.node[s].prior,
                          IF s = l.node[i].prior THEN l.node[i].next ELSE l.node[s].next)]
    OBVIOUS
<1>2. PICK h, t : /\ h = (IF l.head = i THEN l.node[i].next ELSE l.head)
                  /\ t = (IF l.tail = i THEN l.node[i].prior ELSE l.tail)
    OBVIOUS
<1>3. m = [node |-> n, head |-> h, tail |-> t, length |-> k]
    BY <1>1, <1>2 DEF RcvDrop
<1>4. m.node = n /\ m.head = h /\ m.tail = t /\ m.length = k
    BY <1>3
<1>5. DOMAIN n = DOMAIN l.node \ {i} /\ n = [s \in DOMAIN n |-> n[s]]
    BY <1>1
<1>6. ASSUME NEW s \in DOMAIN n
      PROVE  /\ n[s].first = l.node[s].first /\ n[s].last = l.node[s].last
             /\ n[s].prior = (IF s = l.node[i].next THEN l.node[i].prior ELSE l.node[s].prior)
             /\ n[s].next = (IF s = l.node[i].prior THEN l.node[i].next ELSE l.node[s].next)
             /\ n[s] = RcvNode(n[s].first, n[s].last, n[s].prior, n[s].next)
    <2>1. PICK before, after :
              /\ before = (IF s = l.node[i].next THEN l.node[i].prior ELSE l.node[s].prior)
              /\ after = (IF s = l.node[i].prior THEN l.node[i].next ELSE l.node[s].next)
        OBVIOUS
    <2>2. n[s] = RcvNode(l.node[s].first, l.node[s].last, before, after)
        BY <1>1, <1>5, <2>1
    <2>3. /\ n[s].first = l.node[s].first /\ n[s].last = l.node[s].last
          /\ n[s].prior = before /\ n[s].next = after
        BY <2>2 DEF RcvNode
    <2>4. QED
        BY <2>1, <2>2, <2>3
<1>7. m = [node |-> m.node, head |-> m.head, tail |-> m.tail, length |-> m.length]
    BY <1>3, <1>4
<1>8. IsRcv(m)
    BY <1>4, <1>5, <1>6, <1>7 DEF IsRcv
<1>9. QED
    BY <1>2, <1>4, <1>5, <1>6, <1>8

LEMMA RcvDropIs ==
    ASSUME NEW b, NEW w, NEW o, Circle(b, w, o), NEW l, NEW S, RcvShape(l, b, w, o, S),
           NEW i \in DOMAIN l.node, NEW k, NEW m, m = RcvDrop(l, i, k)
    PROVE  RcvShape(m, b, w, o, Numbers(l.node, b, i)) /\ m.length = k
<1>1. /\ Laid(l.node, b, w, o) /\ Apart(l.node, b, None) /\ Linked(l.node, b)
      /\ Leads(l.node, b, l.head) /\ Paired(l.node, l.head) /\ Ends(l.node, l.tail)
    BY DEF RcvShape
<1>2. \A s \in DOMAIN l.node : /\ F(b, l.node, s) \in Int /\ L(b, l.node, s) \in Int
                               /\ F(b, l.node, s) =< L(b, l.node, s) /\ s # None
    BY <1>1, RangesAre
<1>3. \A s \in DOMAIN l.node : F(b, l.node, s) = F(b, l.node, i) => s = i
    BY <1>1, OneSlot
<1>4. PICK n, before, after : n = m.node /\ before = l.node[i].prior /\ after = l.node[i].next
    OBVIOUS
<1>5. /\ IsRcv(m) /\ m.length = k
      /\ m.head = (IF l.head = i THEN after ELSE l.head)
      /\ m.tail = (IF l.tail = i THEN before ELSE l.tail)
      /\ DOMAIN n = DOMAIN l.node \ {i}
      /\ \A s \in DOMAIN n :
             /\ n[s].first = l.node[s].first /\ n[s].last = l.node[s].last
             /\ n[s].prior = (IF s = after THEN before ELSE l.node[s].prior)
             /\ n[s].next = (IF s = before THEN after ELSE l.node[s].next)
    BY <1>4, RcvDropFields
<1>6. \A s \in DOMAIN n : F(b, n, s) = F(b, l.node, s) /\ L(b, n, s) = L(b, l.node, s)
    BY <1>5 DEF F, L
<1>7. l.head \in DOMAIN l.node /\ \A t \in DOMAIN l.node : F(b, l.node, l.head) =< F(b, l.node, t)
    BY <1>1 DEF Leads
<1>8. Follows(l.node, b, i, after)
    BY <1>1, <1>4 DEF Linked
<1>9. \A s \in DOMAIN l.node : l.node[s].next = i => s # i /\ i # l.head /\ F(b, l.node, s) < F(b, l.node, i)
    <2> SUFFICES ASSUME NEW s \in DOMAIN l.node, l.node[s].next = i
                 PROVE  s # i /\ i # l.head /\ F(b, l.node, s) < F(b, l.node, i)
        OBVIOUS
    <2>1. F(b, l.node, s) < F(b, l.node, i)
        BY <1>1, <1>2 DEF Linked, Follows
    <2>2. QED
        BY <1>2, <1>7, <2>1
<1>10. IF i = l.head THEN before = None
       ELSE before \in DOMAIN l.node /\ l.node[before].next = i
    BY <1>1, <1>4 DEF Paired
<1>11. \A s \in DOMAIN l.node : s = before <=> l.node[s].next = i
    <2> SUFFICES ASSUME NEW s \in DOMAIN l.node PROVE s = before <=> l.node[s].next = i
        OBVIOUS
    <2>1. ASSUME l.node[s].next = i PROVE s = before
        <3>1. i # l.head /\ i # None
            BY <1>2, <1>9, <2>1
        <3>2. before \in DOMAIN l.node /\ l.node[before].next = i
            BY <1>10, <3>1
        <3>3. QED
            BY <1>1, <2>1, <3>1, <3>2, OnePrior
    <2>2. ASSUME s = before PROVE l.node[s].next = i
        BY <1>2, <1>10, <2>2
    <2>3. QED
        BY <2>1, <2>2
<1>12. Laid(n, b, w, o)
    <2>1. n = [s \in DOMAIN n |-> n[s]]
        BY <1>4, <1>5 DEF IsRcv
    <2> SUFFICES ASSUME NEW s \in DOMAIN n
                 PROVE  /\ n[s].first \in Window(b, w) /\ n[s].last \in Window(b, w)
                        /\ F(b, n, s) =< L(b, n, s) /\ s = At(o, F(b, n, s))
        BY <2>1 DEF Laid
    <2>2. /\ l.node[s].first \in Window(b, w) /\ l.node[s].last \in Window(b, w)
          /\ F(b, l.node, s) =< L(b, l.node, s) /\ s = At(o, F(b, l.node, s))
        BY <1>1, <1>5 DEF Laid
    <2>3. QED
        BY <1>5, <1>6, <2>2
<1>13. Apart(n, b, None)
    <2> SUFFICES ASSUME NEW s \in DOMAIN n, NEW t \in DOMAIN n, F(b, n, s) < F(b, n, t)
                 PROVE  L(b, n, s) < F(b, n, t)
        BY DEF Apart
    <2>1. s \in DOMAIN l.node /\ t \in DOMAIN l.node
        BY <1>5
    <2>2. QED
        BY <1>1, <1>2, <1>6, <2>1 DEF Apart
<1>14. Linked(n, b)
    <2> SUFFICES ASSUME NEW s \in DOMAIN n PROVE Follows(n, b, s, n[s].next)
        BY DEF Linked
    <2>1. s \in DOMAIN l.node /\ s # i
        BY <1>5
    <2>2. Follows(l.node, b, s, l.node[s].next)
        BY <1>1, <2>1 DEF Linked
    <2>3. CASE s # before
        <3>1. l.node[s].next # i /\ n[s].next = l.node[s].next
            BY <1>5, <1>11, <2>1, <2>3
        <3>2. CASE l.node[s].next = None
            BY <1>5, <1>6, <2>1, <2>2, <3>1, <3>2 DEF Follows
        <3>3. CASE l.node[s].next # None
            <4>1. PICK d \in DOMAIN l.node : d = l.node[s].next /\ d # None
                BY <2>2, <3>3 DEF Follows
            <4>2. /\ F(b, l.node, s) < F(b, l.node, d)
                  /\ \A t \in DOMAIN l.node :
                         F(b, l.node, t) =< F(b, l.node, s) \/ F(b, l.node, d) =< F(b, l.node, t)
                BY <2>2, <4>1 DEF Follows
            <4>3. d \in DOMAIN n
                BY <1>5, <3>1, <4>1
            <4>4. QED
                BY <1>5, <1>6, <3>1, <4>1, <4>2, <4>3 DEF Follows
        <3>4. QED
            BY <3>2, <3>3
    <2>4. CASE s = before
        <3>1. l.node[s].next = i /\ n[s].next = after /\ i # None
            BY <1>2, <1>5, <1>11, <2>1, <2>4
        <3>2. /\ F(b, l.node, s) < F(b, l.node, i)
              /\ \A t \in DOMAIN l.node :
                     F(b, l.node, t) =< F(b, l.node, s) \/ F(b, l.node, i) =< F(b, l.node, t)
            BY <2>2, <3>1 DEF Follows
        <3>3. CASE after = None
            <4>1. \A t \in DOMAIN l.node : F(b, l.node, t) =< F(b, l.node, i)
                BY <1>8, <3>3 DEF Follows
            <4>2. \A t \in DOMAIN n : F(b, n, t) =< F(b, n, s)
                BY <1>2, <1>3, <1>5, <1>6, <3>2, <4>1
            <4>3. QED
                BY <3>1, <3>3, <4>2 DEF Follows
        <3>4. CASE after # None
            <4>1. /\ after \in DOMAIN l.node /\ F(b, l.node, i) < F(b, l.node, after)
                  /\ \A t \in DOMAIN l.node :
                         F(b, l.node, t) =< F(b, l.node, i) \/ F(b, l.node, after) =< F(b, l.node, t)
                BY <1>8, <3>4 DEF Follows
            <4>2. after \in DOMAIN n
                BY <1>2, <1>5, <4>1
            <4>3. F(b, n, s) < F(b, n, after)
                BY <1>2, <1>5, <1>6, <2>1, <3>2, <4>1, <4>2
            <4>4. \A t \in DOMAIN n : F(b, n, t) =< F(b, n, s) \/ F(b, n, after) =< F(b, n, t)
                BY <1>2, <1>3, <1>5, <1>6, <3>2, <4>1, <4>2
            <4>5. QED
                BY <3>1, <3>4, <4>2, <4>3, <4>4 DEF Follows
        <3>5. QED
            BY <3>3, <3>4
    <2>5. QED
        BY <2>3, <2>4
<1>15. after # None => after \in DOMAIN n /\ F(b, l.node, i) < F(b, l.node, after)
    BY <1>2, <1>5, <1>8 DEF Follows
<1>16. i = l.head /\ after = None => DOMAIN n = {}
    BY <1>2, <1>3, <1>5, <1>7, <1>8 DEF Follows
<1>17. Leads(n, b, m.head)
    <2>1. CASE i # l.head
        BY <1>5, <1>6, <1>7, <2>1 DEF Leads
    <2>2. CASE i = l.head /\ after = None
        BY <1>5, <1>16, <2>2 DEF Leads
    <2>3. CASE i = l.head /\ after # None
        <3>1. \A t \in DOMAIN l.node :
                  F(b, l.node, t) =< F(b, l.node, i) \/ F(b, l.node, after) =< F(b, l.node, t)
            BY <1>8, <2>3 DEF Follows
        <3>2. \A t \in DOMAIN n : F(b, n, after) =< F(b, n, t)
            BY <1>2, <1>3, <1>5, <1>6, <1>7, <1>15, <2>3, <3>1
        <3>3. QED
            BY <1>5, <1>15, <2>3, <3>2 DEF Leads
    <2>4. QED
        BY <2>1, <2>2, <2>3
<1>18. Paired(n, m.head)
    <2> SUFFICES ASSUME NEW s \in DOMAIN n
                 PROVE  IF s = m.head THEN n[s].prior = None
                        ELSE n[s].prior \in DOMAIN n /\ n[n[s].prior].next = s
        BY DEF Paired
    <2>1. s \in DOMAIN l.node /\ s # i /\ s # None
        BY <1>2, <1>5
    <2>2. IF s = l.head THEN l.node[s].prior = None
          ELSE l.node[s].prior \in DOMAIN l.node /\ l.node[l.node[s].prior].next = s
        BY <1>1, <2>1 DEF Paired
    <2>3. CASE s = after
        <3>1. n[s].prior = before
            BY <1>5, <2>3
        <3>2. CASE i = l.head
            BY <1>5, <1>10, <2>3, <3>1, <3>2
        <3>3. CASE i # l.head
            <4>1. before \in DOMAIN n
                BY <1>5, <1>9, <1>10, <3>3
            <4>2. n[before].next = s
                BY <1>5, <2>3, <4>1
            <4>3. s # m.head
                BY <1>2, <1>5, <1>7, <1>15, <2>1, <2>3, <3>3
            <4>4. QED
                BY <3>1, <4>1, <4>2, <4>3
        <3>4. QED
            BY <3>2, <3>3
    <2>4. CASE s # after
        <3>1. n[s].prior = l.node[s].prior
            BY <1>5, <2>4
        <3>2. s = m.head <=> s = l.head
            BY <1>5, <1>8, <1>10, <2>1, <2>4
        <3>3. CASE s = l.head
            BY <2>2, <3>1, <3>2, <3>3
        <3>4. CASE s # l.head
            <4>1. PICK a \in DOMAIN l.node : a = l.node[s].prior /\ l.node[a].next = s
                BY <2>2, <3>4
            <4>2. a # i
                BY <1>4, <2>4, <4>1
            <4>3. a # before
                BY <1>11, <2>1, <4>1
            <4>4. a \in DOMAIN n /\ n[a].next = s
                BY <1>5, <4>1, <4>2, <4>3
            <4>5. QED
                BY <3>1, <3>2, <3>4, <4>1, <4>4
        <3>5. QED
            BY <3>3, <3>4
    <2>5. QED
        BY <2>3, <2>4
<1>19. Ends(n, m.tail)
    <2>1. l.tail \in DOMAIN l.node /\ l.node[l.tail].next = None
        BY <1>1 DEF Ends
    <2>2. CASE l.tail # i
        <3>1. l.tail # before
            BY <1>2, <1>11, <2>1
        <3>2. QED
            BY <1>5, <2>1, <2>2, <3>1 DEF Ends
    <2>3. CASE l.tail = i
        <3>1. after = None
            BY <1>4, <2>1, <2>3
        <3>2. CASE i = l.head
            BY <1>5, <1>10, <1>16, <2>3, <3>1, <3>2 DEF Ends
        <3>3. CASE i # l.head
            <4>1. before \in DOMAIN n
                BY <1>5, <1>9, <1>10, <3>3
            <4>2. n[before].next = None
                BY <1>5, <3>1, <4>1
            <4>3. QED
                BY <1>5, <2>3, <4>1, <4>2 DEF Ends
        <3>4. QED
            BY <3>2, <3>3
    <2>4. QED
        BY <2>2, <2>3
<1>20. Numbers(l.node, b, i) = Numbers(n, b, None)
    <2>1. ASSUME NEW z \in SeqNos
          PROVE  z \in Numbers(n, b, None) <=> z \in Numbers(l.node, b, i)
        BY <1>2, <1>5, <1>6 DEF Numbers
    <2>2. QED
        BY <2>1 DEF Numbers
<1>21. QED
    BY <1>4, <1>5, <1>12, <1>13, <1>14, <1>17, <1>18, <1>19, <1>20 DEF RcvShape

\* The slot before that of a number in which a range begins.
LEMMA SlotBeforeIs ==
    ASSUME NEW b, NEW w, NEW o, Circle(b, w, o), NEW l, Laid(l.node, b, w, o),
           NEW x \in Window(b, w), NEW h \in DOMAIN l.node, F(b, l.node, h) < Pos(b, x)
    PROVE  \E s \in DOMAIN l.node :
               /\ s = SlotBefore(l, At(o, Pos(b, x))) /\ F(b, l.node, s) < Pos(b, x)
               /\ \A t \in DOMAIN l.node : F(b, l.node, t) =< F(b, l.node, s) \/ Pos(b, x) =< F(b, l.node, t)
<1>1. /\ o \in 0 .. ListSize /\ w \in Nat /\ w =< ListSize /\ ListSize \in Nat
    BY Sizes
<1>2. PICK p \in 0 .. w - 1 : p = Pos(b, x)
    BY DEF Window
<1>3. PICK c \in Slots : c = At(o, p) /\ c = IF o + p < ListSize THEN o + p ELSE o + p - ListSize
    BY <1>1, AtIs
<1> DEFINE Back(k) == (c - k + ListSize) % ListSize
<1>4. ASSUME NEW k \in 0 .. p PROVE Back(k) = At(o, p - k)
    <2>1. p - k \in 0 .. ListSize - 1
        BY <1>1
    <2>2. At(o, p - k) = IF o + (p - k) < ListSize THEN o + (p - k) ELSE o + (p - k) - ListSize
        BY <1>1, <2>1, AtIs
    <2>3. PICK y \in Int : y = c - k + ListSize /\ 0 =< y /\ y < 2 * ListSize
        BY <1>1, <1>3 DEF Slots
    <2>4. Back(k) = IF y < ListSize THEN y ELSE y - ListSize
        BY <2>3, Wrap
    <2>5. QED
        BY <1>1, <1>3, <2>2, <2>3, <2>4 DEF Slots
<1>5. ASSUME NEW t \in DOMAIN l.node, F(b, l.node, t) < p
      PROVE  p - F(b, l.node, t) \in 1 .. p /\ Back(p - F(b, l.node, t)) = t
    <2>1. PICK f \in 0 .. w - 1 : f = F(b, l.node, t) /\ t = At(o, f)
        BY RangesAre
    <2>2. p - f \in 1 .. p /\ p - (p - f) = f
        BY <1>5, <2>1
    <2>3. QED
        BY <1>4, <2>1, <2>2
<1>6. ASSUME NEW k \in 1 .. p, Back(k) \in DOMAIN l.node PROVE F(b, l.node, Back(k)) = p - k
    <2>1. Back(k) = At(o, p - k)
        BY <1>4
    <2>2. PICK s \in DOMAIN l.node, f \in 0 .. w - 1 :
              s = Back(k) /\ f = F(b, l.node, s) /\ s = At(o, f)
        BY <1>6, RangesAre
    <2>3. f \in 0 .. ListSize - 1 /\ p - k \in 0 .. ListSize - 1
        BY <1>1
    <2>4. f = p - k
        BY <1>1, <2>1, <2>2, <2>3, AtOnce
    <2>5. QED
        BY <2>2, <2>4
<1> DEFINE Found(k) == /\ Back(k) \in DOMAIN l.node
                       /\ \A j \in 1 .. k - 1 : Back(j) \notin DOMAIN l.node
<1>7. \E k \in 1 .. ListSize : Found(k)
    <2> DEFINE T == {k \in 1 .. ListSize : Back(k) \in DOMAIN l.node}
    <2>1. PICK d : d = p - F(b, l.node, h) /\ d \in 1 .. p /\ Back(d) \in DOMAIN l.node
        BY <1>2, <1>5
    <2>2. d \in T /\ T \subseteq Nat
        BY <1>1, <2>1
    <2>3. PICK n \in T : \A m \in T : n =< m
        BY <2>2, Least
    <2>4. n \in 1 .. ListSize /\ Back(n) \in DOMAIN l.node
        BY <2>3
    <2>5. \A j \in 1 .. n - 1 : Back(j) \notin DOMAIN l.node
        <3> SUFFICES ASSUME NEW j \in 1 .. n - 1, Back(j) \in DOMAIN l.node PROVE FALSE
            OBVIOUS
        <3>1. j \in T
            BY <1>1, <2>4
        <3>2. QED
            BY <2>3, <2>4, <3>1
    <2>6. QED
        BY <2>4, <2>5
<1>8. PICK k : k = CHOOSE n \in 1 .. ListSize : Found(n)
    OBVIOUS
<1>9. k \in 1 .. ListSize /\ Found(k)
    BY <1>7, <1>8
<1>10. SlotBefore(l, c) = Back(k)
    BY <1>8 DEF SlotBefore
<1> HIDE DEF Back
<1>11. k \in 1 .. p
    <2>1. PICK d : d \in 1 .. p /\ Back(d) = h
        BY <1>2, <1>5
    <2>2. ~ (d < k)
        BY <1>9, <2>1
    <2>3. QED
        BY <1>9, <2>1, <2>2
<1>12. PICK s \in DOMAIN l.node : s = Back(k) /\ F(b, l.node, s) = p - k
    BY <1>6, <1>9, <1>11
<1>13. ASSUME NEW t \in DOMAIN l.node
       PROVE  F(b, l.node, t) =< F(b, l.node, s) \/ p =< F(b, l.node, t)
    <2>1. F(b, l.node, t) \in Int
        BY RangesAre
    <2>2. CASE p - k < F(b, l.node, t) /\ F(b, l.node, t) < p
        <3>1. p - F(b, l.node, t) \in 1 .. k - 1 /\ Back(p - F(b, l.node, t)) = t
            BY <1>5, <1>11, <2>1, <2>2
        <3>2. QED
            BY <1>9, <3>1
    <2>3. QED
        BY <1>11, <1>12, <2>1, <2>2
<1>14. QED
    BY <1>2, <1>3, <1>10, <1>11, <1>12, <1>13

\* remove finds what is in the list.
LEMMA RcvHasIs ==
    ASSUME NEW b, NEW w, NEW o, Circle(b, w, o), NEW l, NEW S, RcvGood(l, b, w, o, S),
           NEW x \in Window(b, w)
    PROVE  RcvHas(l, x) <=> x \in S
<1>1. /\ Laid(l.node, b, w, o) /\ Apart(l.node, b, None) /\ Leads(l.node, b, l.head)
      /\ S = Numbers(l.node, b, None)
    BY DEF RcvGood, RcvShape
<1>2. \A s \in DOMAIN l.node : /\ F(b, l.node, s) \in Int /\ L(b, l.node, s) \in Int
                               /\ F(b, l.node, s) =< L(b, l.node, s) /\ s # None
                               /\ l.node[s].first \in Window(b, SeqNoTH)
                               /\ l.node[s].last \in Window(b, SeqNoTH)
    BY <1>1, RangesAre
<1>3. x \in SeqNos /\ x \in Window(b, SeqNoTH) /\ b \in SeqNos
    BY Sizes DEF Window
<1>4. PICK p \in Int : p = Pos(b, x)
    BY DEF Window
<1>5. CASE l.length = 0
    <2>1. S = {}
        BY <1>5, RcvEmpty
    <2>2. QED
        BY <1>5, <2>1 DEF RcvHas
<1>6. CASE l.length # 0
    <2>1. DOMAIN l.node # {}
        BY <1>6, RcvEmpty
    <2>2. PICK h \in DOMAIN l.node :
              h = l.head /\ \A t \in DOMAIN l.node : F(b, l.node, h) =< F(b, l.node, t)
        BY <1>1, <2>1 DEF Leads
    <2>3. SeqOff(l.node[h].first, x) = p - F(b, l.node, h)
        BY <1>2, <1>3, <1>4, Compared DEF F
    <2>4. x \in S <=> \E s \in DOMAIN l.node : p \in F(b, l.node, s) .. L(b, l.node, s)
        BY <1>1, <1>2, <1>3, <1>4 DEF Numbers
    <2>5. CASE p < F(b, l.node, h)
        <3>1. ~ RcvHas(l, x)
            <4>1. ~ (SeqOff(l.node[h].first, x) >= 0)
                BY <1>2, <1>4, <2>3, <2>5
            <4>2. QED
                BY <2>2, <4>1 DEF RcvHas
        <3>2. QED
            BY <1>2, <1>4, <2>2, <2>4, <2>5, <3>1
    <2>6. CASE p >= F(b, l.node, h)
        <3>1. SeqOff(l.node[h].first, x) >= 0
            BY <1>2, <1>4, <2>3, <2>6
        <3>2. PICK c : c = At(o, Pos(b, x)) /\ c = SlotOf(l, x)
            BY <1>1, <2>2, SlotOfIs
        <3>3. RcvHas(l, x) <=> \/ Starts(l, c, x)
                               \/ /\ l.node[SlotBefore(l, c)].last # l.node[SlotBefore(l, c)].first
                                  /\ SeqCmp(x, l.node[SlotBefore(l, c)].last) =< 0
            BY <1>6, <2>2, <3>1, <3>2 DEF RcvHas
        <3>4. Starts(l, c, x) <=> \E s \in DOMAIN l.node : F(b, l.node, s) = p
            <4>1. Laid(l.node, b, w, o)
                BY <1>1
            <4>2. Starts(l, At(o, Pos(b, x)), x) <=> \E s \in DOMAIN l.node : F(b, l.node, s) = Pos(b, x)
                BY <4>1, StartsIs
            <4>3. QED
                BY <1>4, <3>2, <4>2
        <3>5. CASE Starts(l, c, x)
            BY <1>2, <1>4, <2>4, <3>3, <3>4, <3>5
        <3>6. CASE ~ Starts(l, c, x)
            <4>1. F(b, l.node, h) < p
                BY <1>2, <1>4, <2>6, <3>4, <3>6
            <4>2. PICK s \in DOMAIN l.node :
                      /\ s = SlotBefore(l, c) /\ F(b, l.node, s) < p
                      /\ \A t \in DOMAIN l.node :
                             F(b, l.node, t) =< F(b, l.node, s) \/ p =< F(b, l.node, t)
                BY <1>1, <1>4, <3>2, <4>1, SlotBeforeIs
            <4>3. SeqCmp(x, l.node[s].last) =< 0 <=> p =< L(b, l.node, s)
                BY <1>2, <1>3, <1>4, Compared DEF L
            <4>4. p =< L(b, l.node, s) => l.node[s].last # l.node[s].first
                BY <1>2, <1>4, <4>2 DEF F, L
            <4>5. ASSUME NEW t \in DOMAIN l.node, p \in F(b, l.node, t) .. L(b, l.node, t) PROVE t = s
                <5>1. F(b, l.node, t) < p
                    BY <1>2, <1>4, <3>4, <3>6, <4>5
                <5>2. F(b, l.node, t) =< F(b, l.node, s)
                    BY <1>2, <1>4, <4>2, <5>1
                <5>3. ~ (F(b, l.node, t) < F(b, l.node, s))
                    <6>1. F(b, l.node, t) < F(b, l.node, s) => L(b, l.node, t) < F(b, l.node, s)
                        BY <1>1, <1>2 DEF Apart
                    <6>2. QED
                        BY <1>2, <1>4, <4>2, <4>5, <6>1
                <5>4. F(b, l.node, t) = F(b, l.node, s)
                    BY <1>2, <5>2, <5>3
                <5>5. QED
                    BY <1>1, <5>4, OneSlot
            <4>6. x \in S <=> p =< L(b, l.node, s)
                BY <1>2, <1>4, <2>4, <4>2, <4>5
            <4>7. QED
                BY <3>3, <3>6, <4>2, <4>3, <4>4, <4>6
        <3>7. QED
            BY <3>5, <3>6
    <2>7. QED
        BY <1>2, <1>4, <2>5, <2>6
<1>7. QED
    BY <1>5, <1>6

\* Both neighbours of a range are others.
LEMMA Neighbours ==
    ASSUME NEW b, NEW w, NEW o, Circle(b, w, o), NEW l, NEW S, RcvShape(l, b, w, o, S),
           NEW i \in DOMAIN l.node
    PROVE  /\ l.node[i].next # i /\ l.node[i].prior # i
           /\ \A s \in DOMAIN l.node : s = l.node[i].prior => s # l.node[i].next
           /\ \A s \in DOMAIN l.node : s # None
<1>1. Laid(l.node, b, w, o) /\ Linked(l.node, b) /\ Paired(l.node, l.head)
    BY DEF RcvShape
<1>2. \A s \in DOMAIN l.node : F(b, l.node, s) \in Int /\ s # None
    BY <1>1, RangesAre
<1>3. \A s \in DOMAIN l.node : l.node[s].next \in DOMAIN l.node =>
                                   F(b, l.node, s) < F(b, l.node, l.node[s].next)
    BY <1>1, <1>2 DEF Linked, Follows
<1>4. l.node[i].next # i
    BY <1>2, <1>3
<1>5. ASSUME NEW s \in DOMAIN l.node, s = l.node[i].prior
      PROVE  F(b, l.node, s) < F(b, l.node, i)
    <2>1. l.node[s].next = i
        BY <1>1, <1>2, <1>5 DEF Paired
    <2>2. QED
        BY <1>3, <2>1
<1>6. l.node[i].prior # i
    BY <1>2, <1>5
<1>7. ASSUME NEW s \in DOMAIN l.node, s = l.node[i].prior, s = l.node[i].next PROVE FALSE
    <2>1. F(b, l.node, s) < F(b, l.node, i) /\ F(b, l.node, i) < F(b, l.node, s)
        BY <1>3, <1>5, <1>7
    <2>2. QED
        BY <1>2, <2>1
<1>8. QED
    BY <1>2, <1>4, <1>6, <1>7

\* A range of one number.
LEMMA UnlinkIs ==
    ASSUME NEW b, NEW w, NEW o, Circle(b, w, o), NEW l, NEW S, RcvShape(l, b, w, o, S),
           NEW i \in DOMAIN l.node
    PROVE  Unlink(l, i) = RcvDrop(l, i, l.length)
<1>1. IsRcv(l)
    BY DEF RcvShape
<1>2. PICK before, after : before = l.node[i].prior /\ after = l.node[i].next
    OBVIOUS
<1>3. \A s \in DOMAIN l.node : s = before => s # after
    BY <1>2, Neighbours
<1>4. PICK kept : kept = Without(l.node, {i})
    OBVIOUS
<1>5. DOMAIN kept = DOMAIN l.node \ {i} /\ \A s \in DOMAIN kept : kept[s] = l.node[s]
    BY <1>4 DEF Without
<1>6. PICK u : u = [s \in DOMAIN kept |-> IF s = before THEN [kept[s] EXCEPT !.next = after]
                                          ELSE IF s = after THEN [kept[s] EXCEPT !.prior = before]
                                          ELSE kept[s]]
    OBVIOUS
<1>7. PICK h, t : h = (IF l.head = i THEN after ELSE l.head) /\ t = (IF l.tail = i THEN before ELSE l.tail)
    OBVIOUS
<1>8. Unlink(l, i) = [node |-> u, head |-> h, tail |-> t, length |-> l.length]
    <2>1. Unlink(l, i) = [l EXCEPT !.node = u, !.head = h, !.tail = t]
        BY <1>2, <1>4, <1>6, <1>7 DEF Unlink
    <2>2. QED
        BY <1>1, <2>1 DEF IsRcv
<1>9. PICK z : z = [s \in DOMAIN l.node \ {i} |->
                  RcvNode(l.node[s].first, l.node[s].last,
                          IF s = after THEN before ELSE l.node[s].prior,
                          IF s = before THEN after ELSE l.node[s].next)]
    OBVIOUS
<1>10. ASSUME NEW s \in DOMAIN l.node \ {i}
       PROVE  (IF s = before THEN [kept[s] EXCEPT !.next = after]
               ELSE IF s = after THEN [kept[s] EXCEPT !.prior = before] ELSE kept[s])
              = RcvNode(l.node[s].first, l.node[s].last,
                        IF s = after THEN before ELSE l.node[s].prior,
                        IF s = before THEN after ELSE l.node[s].next)
    <2>1. PICK r : r = l.node[s] /\ r = kept[s] /\ r = RcvNode(r.first, r.last, r.prior, r.next)
        BY <1>1, <1>5 DEF IsRcv
    <2>2. r = [first |-> r.first, last |-> r.last, prior |-> r.prior, next |-> r.next]
        BY <2>1 DEF RcvNode
    <2>3. /\ [r EXCEPT !.next = after] = RcvNode(r.first, r.last, r.prior, after)
          /\ [r EXCEPT !.prior = before] = RcvNode(r.first, r.last, before, r.next)
        BY <2>2 DEF RcvNode
    <2>4. CASE s = before
        BY <1>3, <2>1, <2>3, <2>4
    <2>5. CASE s # before
        BY <2>1, <2>3, <2>5
    <2>6. QED
        BY <2>4, <2>5
<1>11. u = z
    BY <1>5, <1>6, <1>9, <1>10
<1>12. QED
    BY <1>2, <1>7, <1>8, <1>9, <1>11 DEF RcvDrop

\* The list, when a number inside the range in slot i is taken out: the range ends before
\* it, and what follows it is put in behind.
LEMMA SplitIs ==
    ASSUME NEW b, NEW w, NEW o, Circle(b, w, o), NEW l, NEW S, RcvShape(l, b, w, o, S),
           NEW i \in DOMAIN l.node, NEW loc, NEW c, c = NextSlot(loc), c \notin DOMAIN l.node, c # None,
           NEW x, NEW k, NEW g, g = RcvWithLast(l, i, DecSeq(x), k)
    PROVE  Split(l, i, loc, x) = RcvPut(g, i, c, IncSeq(x), l.node[i].last, l.length)
<1>1. IsRcv(l)
    BY DEF RcvShape
<1>2. PICK after, x1, x2, y : /\ after = l.node[i].next /\ y = l.node[i].last
                              /\ x1 = DecSeq(x) /\ x2 = IncSeq(x)
    OBVIOUS
<1>3. after # i
    BY <1>2, Neighbours
<1>4. PICK v : v = RcvNode(l.node[i].first, x1, l.node[i].prior, after)
    OBVIOUS
<1>5. PICK n : n = [l.node EXCEPT ![i] = v]
    OBVIOUS
<1>6. g = [node |-> n, head |-> l.head, tail |-> l.tail, length |-> k]
    BY <1>2, <1>4, <1>5 DEF RcvWithLast
<1>7. g.node = n /\ g.head = l.head /\ g.tail = l.tail
    BY <1>6
<1>8. DOMAIN n = DOMAIN l.node /\ n[i] = v /\ \A s \in DOMAIN l.node \ {i} : n[s] = l.node[s]
    BY <1>5
<1>9. v.first = l.node[i].first /\ v.last = x1 /\ v.prior = l.node[i].prior /\ v.next = after
    BY <1>4 DEF RcvNode
<1>10. PICK cut : cut = [l.node EXCEPT ![i].last = x1, ![i].next = c]
    OBVIOUS
<1>11. /\ DOMAIN cut = DOMAIN l.node
       /\ cut[i] = RcvNode(l.node[i].first, x1, l.node[i].prior, c)
       /\ \A s \in DOMAIN l.node \ {i} : cut[s] = l.node[s]
    <2>1. PICK r : r = l.node[i] /\ r = RcvNode(r.first, r.last, r.prior, r.next)
        BY <1>1 DEF IsRcv
    <2>2. cut[i] = [r EXCEPT !.last = x1, !.next = c]
        BY <1>10, <2>1
    <2>3. r = [first |-> r.first, last |-> r.last, prior |-> r.prior, next |-> r.next]
        BY <2>1 DEF RcvNode
    <2>4. cut[i] = RcvNode(r.first, x1, r.prior, c)
        BY <2>2, <2>3 DEF RcvNode
    <2>5. DOMAIN cut = DOMAIN l.node /\ \A s \in DOMAIN l.node \ {i} : cut[s] = l.node[s]
        BY <1>10
    <2>6. QED
        BY <2>1, <2>4, <2>5
<1>12. PICK rest, u : /\ rest = RcvNode(x2, y, i, after)
                      /\ u = [s \in DOMAIN cut \cup {c} |->
                                 IF s = c THEN rest
                                 ELSE IF s = after THEN [cut[s] EXCEPT !.prior = c]
                                 ELSE cut[s]]
    OBVIOUS
<1>13. PICK t : t = (IF l.tail = i THEN c ELSE l.tail)
    OBVIOUS
<1>14. Split(l, i, loc, x) = [node |-> u, head |-> l.head, tail |-> t, length |-> l.length]
    <2>1. Split(l, i, loc, x) = [l EXCEPT !.node = u, !.tail = t]
        BY <1>2, <1>10, <1>12, <1>13 DEF Split
    <2>2. QED
        BY <1>1, <2>1 DEF IsRcv
<1>15. PICK z : z = [s \in DOMAIN n \cup {c} |->
                  IF s = c THEN RcvNode(x2, y, i, n[i].next)
                  ELSE RcvNode(n[s].first, n[s].last,
                               IF s = n[i].next THEN c ELSE n[s].prior,
                               IF s = i THEN c ELSE n[s].next)]
    OBVIOUS
<1>16. ASSUME NEW s \in DOMAIN l.node \cup {c}
       PROVE  (IF s = c THEN rest ELSE IF s = after THEN [cut[s] EXCEPT !.prior = c] ELSE cut[s])
              = (IF s = c THEN RcvNode(x2, y, i, n[i].next)
                 ELSE RcvNode(n[s].first, n[s].last,
                              IF s = n[i].next THEN c ELSE n[s].prior,
                              IF s = i THEN c ELSE n[s].next))
    <2>1. CASE s = c
        BY <1>8, <1>9, <1>12, <2>1
    <2>2. CASE s = i
        <3>1. s # c /\ s # after
            BY <1>3, <2>2
        <3>2. QED
            BY <1>8, <1>9, <1>11, <2>2, <3>1
    <2>3. CASE s # c /\ s # i
        <3>1. PICK r : r = l.node[s] /\ r = cut[s] /\ r = n[s] /\ r = RcvNode(r.first, r.last, r.prior, r.next)
            BY <1>1, <1>8, <1>11, <2>3 DEF IsRcv
        <3>2. r = [first |-> r.first, last |-> r.last, prior |-> r.prior, next |-> r.next]
            BY <3>1 DEF RcvNode
        <3>3. [r EXCEPT !.prior = c] = RcvNode(r.first, r.last, c, r.next)
            BY <3>2 DEF RcvNode
        <3>4. QED
            BY <1>8, <1>9, <2>3, <3>1, <3>3
    <2>4. QED
        BY <2>1, <2>2, <2>3
<1>17. u = z
    BY <1>8, <1>11, <1>12, <1>15, <1>16
<1>18. RcvPut(g, i, c, x2, y, l.length) = [node |-> z, head |-> l.head, tail |-> t, length |-> l.length]
    BY <1>7, <1>13, <1>15 DEF RcvPut
<1>19. QED
    BY <1>2, <1>14, <1>17, <1>18

\* The list, when the first number of a range is taken out: what follows it is put in behind,
\* and the range, left with that number, goes.
LEMMA ReplaceIs ==
    ASSUME NEW b, NEW w, NEW o, Circle(b, w, o), NEW l, NEW S, RcvShape(l, b, w, o, S),
           NEW i \in DOMAIN l.node, NEW c, c \notin DOMAIN l.node, c # None,
           NEW x, NEW k, NEW g, g = RcvWithLast(l, i, x, k),
           NEW m, m = RcvPut(g, i, c, IncSeq(x), l.node[i].last, k)
    PROVE  Replace(l, i, c, [l.node[i] EXCEPT !.first = IncSeq(x)]) = RcvDrop(m, i, l.length)
<1>1. IsRcv(l)
    BY DEF RcvShape
<1>2. PICK before, after, y, x2 : /\ before = l.node[i].prior /\ after = l.node[i].next
                                  /\ y = l.node[i].last /\ x2 = IncSeq(x)
    OBVIOUS
<1>3. /\ after # i /\ before # i
      /\ \A s \in DOMAIN l.node : s = before => s # after
    BY <1>2, Neighbours
<1>4. /\ before = None \/ before \in DOMAIN l.node
      /\ after = None \/ after \in DOMAIN l.node
    BY <1>2 DEF RcvShape, Paired, Linked, Follows
<1>5. c # after /\ c # before /\ c # i
    BY <1>4
<1>6. PICK v : v = RcvNode(l.node[i].first, x, before, after)
    OBVIOUS
<1>7. PICK n : n = [l.node EXCEPT ![i] = v]
    OBVIOUS
<1>8. g.node = n /\ g.head = l.head /\ g.tail = l.tail
    <2>1. g = [node |-> n, head |-> l.head, tail |-> l.tail, length |-> k]
        BY <1>2, <1>6, <1>7 DEF RcvWithLast
    <2>2. QED
        BY <2>1
<1>9. DOMAIN n = DOMAIN l.node /\ n[i] = v /\ \A s \in DOMAIN l.node \ {i} : n[s] = l.node[s]
    BY <1>7
<1>10. v.first = l.node[i].first /\ v.last = x /\ v.prior = before /\ v.next = after
    BY <1>6 DEF RcvNode
<1>11. PICK p : p = m.node
    OBVIOUS
<1>12. /\ m.head = l.head /\ m.tail = (IF l.tail = i THEN c ELSE l.tail)
       /\ DOMAIN p = DOMAIN l.node \cup {c}
       /\ p[c].first = x2 /\ p[c].last = y /\ p[c].prior = i /\ p[c].next = after
       /\ \A s \in DOMAIN l.node :
              /\ p[s].first = n[s].first /\ p[s].last = n[s].last
              /\ p[s].prior = (IF s = after THEN c ELSE n[s].prior)
              /\ p[s].next = (IF s = i THEN c ELSE n[s].next)
    <2>1. i \in DOMAIN g.node /\ c \notin DOMAIN g.node
        BY <1>8, <1>9
    <2>2. g.node[i].next = after
        BY <1>8, <1>9, <1>10
    <2>3. m = RcvPut(g, i, c, x2, y, k)
        BY <1>2
    <2>4. QED
        BY <1>8, <1>9, <1>11, <2>1, <2>2, <2>3, RcvPutFields
<1>13. p[i].next = c /\ p[i].prior = before
    BY <1>3, <1>9, <1>10, <1>12
<1>14. PICK value, moved : /\ value = [l.node[i] EXCEPT !.first = x2]
                           /\ moved = With(Without(l.node, {i}), c, value)
    OBVIOUS
<1>15. /\ value = RcvNode(x2, y, before, after)
       /\ DOMAIN moved = (DOMAIN l.node \ {i}) \cup {c} /\ moved[c] = value
       /\ \A s \in DOMAIN l.node \ {i} : moved[s] = l.node[s]
    <2>1. PICK r : r = l.node[i] /\ r = RcvNode(r.first, r.last, r.prior, r.next)
        BY <1>1 DEF IsRcv
    <2>2. [r EXCEPT !.first = x2] = RcvNode(x2, r.last, r.prior, r.next)
        <3>1. r = [first |-> r.first, last |-> r.last, prior |-> r.prior, next |-> r.next]
            BY <2>1 DEF RcvNode
        <3>2. QED
            BY <3>1 DEF RcvNode
    <2>3. PICK kept : kept = Without(l.node, {i})
        OBVIOUS
    <2>4. DOMAIN kept = DOMAIN l.node \ {i} /\ \A s \in DOMAIN kept : kept[s] = l.node[s]
        BY <2>3 DEF Without
    <2>5. moved = [s \in DOMAIN kept \cup {c} |-> IF s = c THEN value ELSE kept[s]]
        BY <1>14, <2>3 DEF With
    <2>6. QED
        BY <1>2, <1>14, <2>1, <2>2, <2>4, <2>5
<1>16. PICK u : u = [s \in DOMAIN moved |-> IF s = before THEN [moved[s] EXCEPT !.next = c]
                                            ELSE IF s = after THEN [moved[s] EXCEPT !.prior = c]
                                            ELSE moved[s]]
    OBVIOUS
<1>17. PICK h, t : h = (IF l.head = i THEN c ELSE l.head) /\ t = (IF l.tail = i THEN c ELSE l.tail)
    OBVIOUS
<1>18. Replace(l, i, c, value) = [node |-> u, head |-> h, tail |-> t, length |-> l.length]
    <2>1. Replace(l, i, c, value) = [l EXCEPT !.node = u, !.head = h, !.tail = t]
        BY <1>2, <1>14, <1>16, <1>17 DEF Replace
    <2>2. QED
        BY <1>1, <2>1 DEF IsRcv
<1>19. PICK z : z = [s \in DOMAIN p \ {i} |->
                  RcvNode(p[s].first, p[s].last,
                          IF s = c THEN before ELSE p[s].prior,
                          IF s = before THEN c ELSE p[s].next)]
    OBVIOUS
<1>20. RcvDrop(m, i, l.length) = [node |-> z, head |-> h, tail |-> t, length |-> l.length]
    <2>1. (IF m.head = i THEN c ELSE m.head) = h
        BY <1>12, <1>17
    <2>2. (IF m.tail = i THEN before ELSE m.tail) = t
        BY <1>5, <1>12, <1>17
    <2>3. QED
        BY <1>11, <1>13, <1>19, <2>1, <2>2 DEF RcvDrop
<1>21. ASSUME NEW s \in (DOMAIN l.node \ {i}) \cup {c}
       PROVE  (IF s = before THEN [moved[s] EXCEPT !.next = c]
               ELSE IF s = after THEN [moved[s] EXCEPT !.prior = c] ELSE moved[s])
              = RcvNode(p[s].first, p[s].last,
                        IF s = c THEN before ELSE p[s].prior, IF s = before THEN c ELSE p[s].next)
    <2>1. CASE s = c
        BY <1>5, <1>12, <1>15, <2>1
    <2>2. CASE s # c
        <3>1. PICK r : r = l.node[s] /\ r = moved[s] /\ r = n[s] /\ r = RcvNode(r.first, r.last, r.prior, r.next)
            BY <1>1, <1>9, <1>15, <2>2 DEF IsRcv
        <3>2. r = [first |-> r.first, last |-> r.last, prior |-> r.prior, next |-> r.next]
            BY <3>1 DEF RcvNode
        <3>3. /\ [r EXCEPT !.prior = c] = RcvNode(r.first, r.last, c, r.next)
              /\ [r EXCEPT !.next = c] = RcvNode(r.first, r.last, r.prior, c)
            BY <3>2 DEF RcvNode
        <3>4. /\ p[s].first = r.first /\ p[s].last = r.last
              /\ p[s].prior = (IF s = after THEN c ELSE r.prior) /\ p[s].next = r.next
            BY <1>12, <2>2, <3>1
        <3>5. CASE s = before
            BY <1>3, <2>2, <3>1, <3>3, <3>4, <3>5
        <3>6. CASE s # before
            BY <2>2, <3>1, <3>3, <3>4, <3>6
        <3>7. QED
            BY <3>5, <3>6
    <2>3. QED
        BY <2>1, <2>2
<1>22. u = z
    <2>1. DOMAIN moved = DOMAIN p \ {i} /\ DOMAIN moved = (DOMAIN l.node \ {i}) \cup {c}
        BY <1>5, <1>12, <1>15
    <2>2. QED
        BY <1>16, <1>19, <1>21, <2>1
<1>23. QED
    BY <1>2, <1>14, <1>18, <1>20, <1>22

\* What a number taken out leaves of its range, from position f to position e.
LEMMA WithoutOne ==
    ASSUME NEW b, NEW w, NEW o, Circle(b, w, o), NEW x \in Window(b, w),
           NEW f \in 0 .. w - 1, NEW e \in 0 .. w - 1, f =< Pos(b, x), Pos(b, x) =< e,
           NEW A, A \cap Span(b, f, e) = {}
    PROVE  (A \cup Span(b, f, e)) \ {x}
               = (A \cup Span(b, f, Pos(b, x) - 1)) \cup Span(b, Pos(b, x) + 1, e)
<1>1. /\ b \in SeqNos /\ x \in SeqNos /\ x \in Window(b, SeqNoTH) /\ w \in Nat /\ SeqNoTH \in Nat
      /\ w =< SeqNoTH - 1
    BY Sizes DEF Window
<1>2. PICK p \in 0 .. w - 1 : p = Pos(b, x) /\ f =< p /\ p =< e
    BY DEF Window
<1>3. x \in Span(b, f, e)
    BY <1>1, <1>2 DEF Span
<1>4. \A n \in SeqNos : Pos(b, n) \in Int
    BY <1>1, PosType
<1>5. \A n \in Span(b, f, e) : n # x => Pos(b, n) # p
    <2> SUFFICES ASSUME NEW n \in Span(b, f, e), Pos(b, n) = p PROVE n = x
        OBVIOUS
    <2>1. n \in Window(b, SeqNoTH)
        BY <1>1 DEF Span, Window
    <2>2. QED
        BY <1>1, <1>2, <2>1, Compared
<1>6. Span(b, f, e) \ {x} = Span(b, f, p - 1) \cup Span(b, p + 1, e)
    <2>1. ASSUME NEW n \in SeqNos
          PROVE  n \in Span(b, f, e) \ {x} <=> n \in Span(b, f, p - 1) \/ n \in Span(b, p + 1, e)
        BY <1>2, <1>4, <1>5 DEF Span
    <2>2. QED
        BY <2>1 DEF Span
<1>7. QED
    BY <1>2, <1>3, <1>6

SameLength(m, l) == m.length = l.length

\* The first number of a range ...
LEMMA TakeOutFirst ==
    ASSUME NEW b, NEW w, NEW o, Circle(b, w, o), NEW l, NEW S, RcvShape(l, b, w, o, S),
           NEW x \in Window(b, w), NEW i \in DOMAIN l.node, i = At(o, Pos(b, x)), i = SlotOf(l, x),
           Starts(l, i, x)
    PROVE  /\ RcvShape(RcvTakeOut(l, x), b, w, o, S \ {x})
           /\ SameLength(RcvTakeOut(l, x), l)
<1>1. /\ IsRcv(l) /\ Laid(l.node, b, w, o) /\ Apart(l.node, b, None)
      /\ S = Numbers(l.node, b, None) /\ RcvShape(l, b, w, o, S)
    BY DEF RcvShape
<1>2. \A s \in DOMAIN l.node : /\ F(b, l.node, s) \in Int /\ L(b, l.node, s) \in Int
                               /\ F(b, l.node, s) =< L(b, l.node, s) /\ s # None
    BY <1>1, RangesAre
<1>3. /\ b \in SeqNos /\ x \in SeqNos /\ x \in Window(b, SeqNoTH) /\ w \in Nat
      /\ w =< SeqNoTH - 1 /\ w =< ListSize /\ SeqNoTH \in Nat /\ ListSize \in Nat /\ o \in 0 .. ListSize
    BY Sizes DEF Window
<1>4. PICK y : y = l.node[i].last /\ y \in Window(b, w) /\ y \in Window(b, SeqNoTH)
    BY <1>1, RangesAre
<1>5. PICK p \in 0 .. w - 1, e \in 0 .. w - 1 :
          p = Pos(b, x) /\ p = F(b, l.node, i) /\ e = L(b, l.node, i) /\ e = Pos(b, y) /\ p =< e
    <2>1. l.node[i].first = x
        BY DEF Starts
    <2>2. Pos(b, x) = F(b, l.node, i) /\ Pos(b, y) = L(b, l.node, i)
        BY <1>4, <2>1 DEF F, L
    <2>3. Pos(b, x) \in 0 .. w - 1 /\ Pos(b, y) \in 0 .. w - 1
        BY <1>4 DEF Window
    <2>4. QED
        BY <1>2, <2>2, <2>3
<1>6. PICK A : A = Numbers(l.node, b, i) /\ S = A \cup Span(b, p, e) /\ A \cap Span(b, p, e) = {}
    <2>1. Laid(l.node, b, w, o) /\ Apart(l.node, b, None)
        BY <1>1
    <2>2. /\ Numbers(l.node, b, None)
                 = Numbers(l.node, b, i) \cup Span(b, F(b, l.node, i), L(b, l.node, i))
          /\ Numbers(l.node, b, i) \cap Span(b, F(b, l.node, i), L(b, l.node, i)) = {}
        BY <2>1, CountOne
    <2>3. QED
        BY <1>1, <1>5, <2>2
<1>7. S \ {x} = (A \cup Span(b, p, p - 1)) \cup Span(b, p + 1, e)
    <2>1. p =< Pos(b, x) /\ Pos(b, x) =< e
        BY <1>5
    <2>2. (A \cup Span(b, p, e)) \ {x}
              = (A \cup Span(b, p, Pos(b, x) - 1)) \cup Span(b, Pos(b, x) + 1, e)
        BY <1>6, <2>1, WithoutOne
    <2>3. QED
        BY <1>5, <1>6, <2>2
<1>8. Span(b, p, p - 1) = {}
    BY <1>5 DEF Span
<1>9. CASE y = x
    <2>1. Span(b, p + 1, e) = {}
        <3>1. e = p
            BY <1>5, <1>9
        <3>2. QED
            BY <3>1 DEF Span
    <2>2. RcvTakeOut(l, x) = Unlink(l, i)
        BY <1>4, <1>9 DEF RcvTakeOut
    <2>3. PICK k, m : k = l.length /\ m = RcvDrop(l, i, k)
        OBVIOUS
    <2>4. RcvShape(m, b, w, o, A) /\ m.length = l.length
        <3>1. m = RcvDrop(l, i, k)
            BY <2>3
        <3>2. RcvShape(m, b, w, o, Numbers(l.node, b, i))
            BY <3>1, RcvDropIs
        <3>3. m.length = k
            BY <3>1, RcvDropIs
        <3>4. QED
            BY <1>6, <2>3, <3>2, <3>3
    <2>5. S \ {x} = A
        BY <1>7, <1>8, <2>1
    <2>6. Unlink(l, i) = m
        BY <2>3, UnlinkIs
    <2>7. QED
        BY <2>2, <2>4, <2>5, <2>6 DEF SameLength
<1>10. CASE y # x
    <2>1. p < e
        <3>1. Pos(b, x) # Pos(b, y)
            BY <1>3, <1>4, <1>10, Compared
        <3>2. QED
            BY <1>5, <3>1
    <2>2. PICK x2 : x2 = IncSeq(x) /\ x2 \in Window(b, w) /\ Pos(b, x2) = p + 1
        <3>1. Pos(b, x) \in 0 .. SeqNoTH - 2
            BY <1>3, <1>5
        <3>2. IncSeq(x) \in SeqNos /\ Pos(b, IncSeq(x)) = p + 1
            BY <1>3, <1>5, <3>1, NextNumber
        <3>3. p + 1 \in 0 .. w - 1
            BY <1>3, <2>1
        <3>4. QED
            BY <3>2, <3>3 DEF Window
    <2>3. PICK c : c = NextSlot(i) /\ c = At(o, p + 1)
        <3>1. p \in 0 .. ListSize - 2
            BY <1>3, <2>1
        <3>2. QED
            BY <1>3, <1>5, <3>1, AtNext
    <2>4. RcvTakeOut(l, x) = Replace(l, i, c, [l.node[i] EXCEPT !.first = IncSeq(x)])
        BY <1>4, <1>10, <2>3 DEF RcvTakeOut
    <2>5. PICK k, g : k = l.length /\ g = RcvWithLast(l, i, x, k)
        OBVIOUS
    <2>6. \A t \in DOMAIN l.node : F(b, l.node, i) < F(b, l.node, t) => e < F(b, l.node, t)
        BY <1>1, <1>2, <1>5 DEF Apart
    <2>7. RcvShape(g, b, w, o, A \cup Span(b, p, p))
        <3>1. \A t \in DOMAIN l.node : F(b, l.node, i) < F(b, l.node, t) => Pos(b, x) < F(b, l.node, t)
            BY <1>5
        <3>2. F(b, l.node, i) =< Pos(b, x)
            BY <1>5
        <3>3. RcvShape(g, b, w, o, Numbers(l.node, b, i) \cup Span(b, F(b, l.node, i), Pos(b, x)))
            BY <1>1, <2>5, <3>1, <3>2, RcvLastIs
        <3>4. QED
            BY <1>5, <1>6, <3>3
    <2>8. /\ DOMAIN g.node = DOMAIN l.node
          /\ g.node[i].first = x /\ g.node[i].last = x
          /\ \A s \in DOMAIN l.node : F(b, g.node, s) = F(b, l.node, s)
        <3>1. PICK v : v = RcvNode(l.node[i].first, x, l.node[i].prior, l.node[i].next)
            OBVIOUS
        <3>2. v.first = x /\ v.last = x
            BY <3>1 DEF RcvNode, Starts
        <3>3. g.node = [l.node EXCEPT ![i] = v]
            BY <2>5, <3>1 DEF RcvWithLast
        <3>4. /\ DOMAIN g.node = DOMAIN l.node /\ g.node[i] = v
              /\ \A s \in DOMAIN l.node \ {i} : g.node[s] = l.node[s]
            BY <3>3
        <3>5. QED
            BY <3>2, <3>4 DEF F, Starts
    <2>9. PICK m : m = RcvPut(g, i, c, x2, y, k)
        OBVIOUS
    <2>10. /\ RcvShape(m, b, w, o, (A \cup Span(b, p, p)) \cup Span(b, p + 1, e))
           /\ c \notin DOMAIN l.node /\ c # None
        <3>1. L(b, g.node, i) < Pos(b, x2) /\ Pos(b, x2) =< Pos(b, y) /\ c = At(o, Pos(b, x2))
            <4>1. L(b, g.node, i) = p
                BY <1>5, <2>8 DEF L
            <4>2. QED
                BY <1>5, <2>1, <2>2, <2>3, <4>1
        <3>2. \A t \in DOMAIN g.node : F(b, g.node, t) =< F(b, g.node, i) \/ Pos(b, y) < F(b, g.node, t)
            BY <1>2, <1>5, <2>6, <2>8
        <3>3. i \in DOMAIN g.node
            BY <2>8
        <3>4. /\ RcvShape(m, b, w, o, (A \cup Span(b, p, p)) \cup Span(b, Pos(b, x2), Pos(b, y)))
              /\ c \notin DOMAIN g.node /\ c # None
            BY <1>4, <2>2, <2>7, <2>9, <3>1, <3>2, <3>3, RcvPutIs
        <3>5. QED
            BY <1>5, <2>2, <2>8, <3>4
    <2>11. i \in DOMAIN m.node /\ m.node[i].first = x /\ m.node[i].last = x
        BY <2>8, <2>9, <2>10, RcvPutFields
    <2>12. PICK B : /\ B = Numbers(m.node, b, i)
                    /\ (A \cup Span(b, p, p)) \cup Span(b, p + 1, e) = B \cup Span(b, p, p)
                    /\ B \cap Span(b, p, p) = {}
        <3>1. Laid(m.node, b, w, o) /\ Apart(m.node, b, None)
            BY <2>10 DEF RcvShape
        <3>2. (A \cup Span(b, p, p)) \cup Span(b, p + 1, e) = Numbers(m.node, b, None)
            BY <2>10 DEF RcvShape
        <3>3. F(b, m.node, i) = p /\ L(b, m.node, i) = p
            BY <1>5, <2>11 DEF F, L
        <3>4. QED
            BY <2>11, <3>1, <3>2, <3>3, CountOne
    <2>13. PICK n : n = RcvDrop(m, i, l.length) /\ RcvShape(n, b, w, o, B) /\ n.length = l.length
        BY <2>10, <2>11, <2>12, RcvDropIs
    <2>14. RcvTakeOut(l, x) = n
        BY <1>1, <1>4, <2>2, <2>4, <2>5, <2>9, <2>10, <2>13, ReplaceIs
    <2>15. B = S \ {x}
        <3>1. Span(b, p, p) \cap Span(b, p + 1, e) = {}
            BY <1>5 DEF Span
        <3>2. A \cap Span(b, p, p) = {}
            <4>1. Span(b, p, p) \subseteq Span(b, p, e)
                BY <1>5 DEF Span
            <4>2. QED
                BY <1>6, <4>1
        <3>3. B = A \cup Span(b, p + 1, e)
            BY <2>12, <3>1, <3>2
        <3>4. QED
            BY <1>7, <1>8, <3>3
    <2>16. QED
        BY <2>13, <2>14, <2>15 DEF SameLength
<1>11. QED
    BY <1>9, <1>10

\* ... and any other one.
LEMMA TakeOutLater ==
    ASSUME NEW b, NEW w, NEW o, Circle(b, w, o), NEW l, NEW S, RcvShape(l, b, w, o, S),
           NEW x \in Window(b, w), NEW c, c = At(o, Pos(b, x)), c = SlotOf(l, x), ~ Starts(l, c, x),
           NEW i \in DOMAIN l.node, i = SlotBefore(l, c),
           F(b, l.node, i) < Pos(b, x), Pos(b, x) =< L(b, l.node, i)
    PROVE  /\ RcvShape(RcvTakeOut(l, x), b, w, o, S \ {x})
           /\ SameLength(RcvTakeOut(l, x), l)
<1>1. /\ IsRcv(l) /\ Laid(l.node, b, w, o) /\ Apart(l.node, b, None)
      /\ S = Numbers(l.node, b, None) /\ RcvShape(l, b, w, o, S)
    BY DEF RcvShape
<1>2. \A s \in DOMAIN l.node : /\ F(b, l.node, s) \in Int /\ L(b, l.node, s) \in Int
                               /\ F(b, l.node, s) =< L(b, l.node, s) /\ s # None
    BY <1>1, RangesAre
<1>3. /\ b \in SeqNos /\ x \in SeqNos /\ x \in Window(b, SeqNoTH) /\ w \in Nat
      /\ w =< SeqNoTH - 1 /\ w =< ListSize /\ SeqNoTH \in Nat /\ ListSize \in Nat /\ o \in 0 .. ListSize
    BY Sizes DEF Window
<1>4. PICK y : y = l.node[i].last /\ y \in Window(b, w) /\ y \in Window(b, SeqNoTH)
    BY <1>1, RangesAre
<1>5. PICK p \in 0 .. w - 1, f \in 0 .. w - 1, e \in 0 .. w - 1 :
          /\ p = Pos(b, x) /\ f = F(b, l.node, i) /\ e = L(b, l.node, i) /\ e = Pos(b, y)
          /\ f < p /\ p =< e
    <2>1. /\ F(b, l.node, i) \in 0 .. w - 1 /\ L(b, l.node, i) \in 0 .. w - 1
          /\ Pos(b, x) \in 0 .. w - 1 /\ Pos(b, y) = L(b, l.node, i)
        BY <1>1, <1>4, RangesAre DEF Window, L
    <2>2. QED
        BY <2>1
<1>6. PICK A : A = Numbers(l.node, b, i) /\ S = A \cup Span(b, f, e) /\ A \cap Span(b, f, e) = {}
    <2>1. Laid(l.node, b, w, o) /\ Apart(l.node, b, None)
        BY <1>1
    <2>2. /\ Numbers(l.node, b, None)
                 = Numbers(l.node, b, i) \cup Span(b, F(b, l.node, i), L(b, l.node, i))
          /\ Numbers(l.node, b, i) \cap Span(b, F(b, l.node, i), L(b, l.node, i)) = {}
        BY <2>1, CountOne
    <2>3. QED
        BY <1>1, <1>5, <2>2
<1>7. S \ {x} = (A \cup Span(b, f, p - 1)) \cup Span(b, p + 1, e)
    BY <1>5, <1>6, WithoutOne
<1>8. PICK x1 : x1 = DecSeq(x) /\ x1 \in Window(b, w) /\ Pos(b, x1) = p - 1
    <2>1. Pos(b, x) \in 1 .. SeqNoTH - 1
        BY <1>3, <1>5
    <2>2. DecSeq(x) \in SeqNos /\ Pos(b, DecSeq(x)) = p - 1
        BY <1>3, <1>5, <2>1, NumberBefore
    <2>3. p - 1 \in 0 .. w - 1
        BY <1>3, <1>5
    <2>4. QED
        BY <2>2, <2>3 DEF Window
<1>9. PICK k, g : k = l.length /\ g = RcvWithLast(l, i, x1, k)
    OBVIOUS
<1>10. \A t \in DOMAIN l.node : F(b, l.node, i) < F(b, l.node, t) => e < F(b, l.node, t)
    BY <1>1, <1>2, <1>5 DEF Apart
<1>11. RcvShape(g, b, w, o, A \cup Span(b, f, p - 1)) /\ g.length = k
    <2>1. \A t \in DOMAIN l.node : F(b, l.node, i) < F(b, l.node, t) => Pos(b, x1) < F(b, l.node, t)
        BY <1>2, <1>5, <1>8, <1>10
    <2>2. F(b, l.node, i) =< Pos(b, x1)
        BY <1>5, <1>8
    <2>3. /\ RcvShape(g, b, w, o, Numbers(l.node, b, i) \cup Span(b, F(b, l.node, i), Pos(b, x1)))
          /\ g.length = k
        BY <1>1, <1>8, <1>9, <2>1, <2>2, RcvLastIs
    <2>4. QED
        BY <1>5, <1>6, <1>8, <2>3
<1>12. CASE y = x
    <2>1. Span(b, p + 1, e) = {}
        BY <1>5, <1>12 DEF Span
    <2>2. RcvTakeOut(l, x) = [l EXCEPT !.node[i].last = x1]
        BY <1>4, <1>8, <1>12 DEF RcvTakeOut
    <2>3. [l EXCEPT !.node[i].last = x1] = g
        <3>1. PICK r : r = l.node[i] /\ r = RcvNode(r.first, r.last, r.prior, r.next)
            BY <1>1 DEF IsRcv
        <3>2. r = [first |-> r.first, last |-> r.last, prior |-> r.prior, next |-> r.next]
            BY <3>1 DEF RcvNode
        <3>3. PICK v : v = [r EXCEPT !.last = x1]
            OBVIOUS
        <3>4. v = RcvNode(r.first, x1, r.prior, r.next)
            BY <3>2, <3>3 DEF RcvNode
        <3>5. l = [node |-> l.node, head |-> l.head, tail |-> l.tail, length |-> l.length]
            BY <1>1 DEF IsRcv
        <3>6. [l EXCEPT !.node[i].last = x1]
                  = [node |-> [l.node EXCEPT ![i] = v], head |-> l.head, tail |-> l.tail,
                     length |-> l.length]
            BY <3>1, <3>3, <3>5
        <3>7. QED
            BY <1>9, <3>1, <3>4, <3>6 DEF RcvWithLast
    <2>4. S \ {x} = A \cup Span(b, f, p - 1)
        BY <1>7, <2>1
    <2>5. QED
        BY <1>9, <1>11, <2>2, <2>3, <2>4 DEF SameLength
<1>13. CASE y # x
    <2>1. p < e
        BY <1>3, <1>4, <1>5, <1>13, Compared
    <2>2. PICK x2 : x2 = IncSeq(x) /\ x2 \in Window(b, w) /\ Pos(b, x2) = p + 1
        <3>1. Pos(b, x) \in 0 .. SeqNoTH - 2
            BY <1>3, <1>5
        <3>2. IncSeq(x) \in SeqNos /\ Pos(b, IncSeq(x)) = p + 1
            BY <1>3, <1>5, <3>1, NextNumber
        <3>3. p + 1 \in 0 .. w - 1
            BY <1>3, <2>1
        <3>4. QED
            BY <3>2, <3>3 DEF Window
    <2>3. PICK d : d = NextSlot(c) /\ d = At(o, p + 1)
        <3>1. p \in 0 .. ListSize - 2
            BY <1>3, <2>1
        <3>2. QED
            BY <1>3, <1>5, <3>1, AtNext
    <2>4. RcvTakeOut(l, x) = Split(l, i, c, x)
        BY <1>4, <1>13 DEF RcvTakeOut
    <2>5. /\ DOMAIN g.node = DOMAIN l.node /\ L(b, g.node, i) = p - 1
          /\ \A s \in DOMAIN l.node : F(b, g.node, s) = F(b, l.node, s)
        <3>1. PICK v : v = RcvNode(l.node[i].first, x1, l.node[i].prior, l.node[i].next)
            OBVIOUS
        <3>2. v.first = l.node[i].first /\ v.last = x1
            BY <3>1 DEF RcvNode
        <3>3. g.node = [l.node EXCEPT ![i] = v]
            BY <1>9, <3>1 DEF RcvWithLast
        <3>4. /\ DOMAIN g.node = DOMAIN l.node /\ g.node[i] = v
              /\ \A s \in DOMAIN l.node \ {i} : g.node[s] = l.node[s]
            BY <3>3
        <3>5. QED
            BY <1>8, <3>2, <3>4 DEF F, L
    <2>6. PICK m : m = RcvPut(g, i, d, x2, y, k)
        OBVIOUS
    <2>7. /\ RcvShape(m, b, w, o, (A \cup Span(b, f, p - 1)) \cup Span(b, p + 1, e))
          /\ m.length = k /\ d \notin DOMAIN l.node /\ d # None
        <3>1. L(b, g.node, i) < Pos(b, x2) /\ Pos(b, x2) =< Pos(b, y) /\ d = At(o, Pos(b, x2))
            BY <1>5, <2>1, <2>2, <2>3, <2>5
        <3>2. \A t \in DOMAIN g.node : F(b, g.node, t) =< F(b, g.node, i) \/ Pos(b, y) < F(b, g.node, t)
            BY <1>2, <1>5, <1>10, <2>5
        <3>3. i \in DOMAIN g.node
            BY <2>5
        <3>4. /\ RcvShape(m, b, w, o, (A \cup Span(b, f, p - 1)) \cup Span(b, Pos(b, x2), Pos(b, y)))
              /\ m.length = k /\ d \notin DOMAIN g.node /\ d # None
            BY <1>4, <1>11, <2>2, <2>6, <3>1, <3>2, <3>3, RcvPutIs
        <3>5. QED
            BY <1>5, <2>2, <2>5, <3>4
    <2>8. RcvTakeOut(l, x) = m
        <3>1. g = RcvWithLast(l, i, DecSeq(x), k)
            BY <1>8, <1>9
        <3>2. d = NextSlot(c) /\ d \notin DOMAIN l.node /\ d # None
            BY <2>3, <2>7
        <3>3. Split(l, i, c, x) = RcvPut(g, i, d, IncSeq(x), l.node[i].last, l.length)
            BY <3>1, <3>2, SplitIs
        <3>4. QED
            BY <1>4, <1>9, <2>2, <2>4, <2>6, <3>3
    <2>9. QED
        BY <1>7, <1>9, <2>7, <2>8 DEF SameLength
<1>14. QED
    BY <1>12, <1>13

\* remove.
LEMMA RcvRemoveIs ==
    ASSUME NEW b, NEW w, NEW o, Circle(b, w, o), NEW l, NEW S, RcvGood(l, b, w, o, S),
           NEW x \in Window(b, w)
    PROVE  RcvGood(RcvRemove(l, x), b, w, o, S \ {x})
<1>1. /\ RcvShape(l, b, w, o, S) /\ l.length = Cardinality(S)
      /\ Laid(l.node, b, w, o) /\ Apart(l.node, b, None) /\ Leads(l.node, b, l.head)
      /\ S = Numbers(l.node, b, None)
    BY DEF RcvGood, RcvShape
<1>2. RcvHas(l, x) <=> x \in S
    BY RcvHasIs
<1>3. l.length \in Nat /\ S \subseteq Window(b, w) /\ IsFiniteSet(S)
    BY RcvEmpty
<1>4. CASE x \notin S
    <2>1. RcvRemove(l, x) = l /\ S \ {x} = S
        BY <1>2, <1>4 DEF RcvRemove
    <2>2. QED
        BY <2>1
<1>5. CASE x \in S
    <2>1. Cardinality(S \ {x}) = l.length - 1 /\ IsFiniteSet(S \ {x})
        BY <1>1, <1>3, <1>5, FS_RemoveElement
    <2>2. CASE l.length = 1
        <3>1. S \ {x} = {}
            BY <2>1, <2>2, FS_EmptySet
        <3>2. RcvRemove(l, x) = EmptyRcv
            BY <1>2, <1>5, <2>2 DEF RcvRemove
        <3>3. PICK m : m = EmptyRcv
            OBVIOUS
        <3>4. /\ DOMAIN m.node = {} /\ m.head = None /\ m.tail = None /\ m.length = 0
              /\ m.node = [s \in DOMAIN m.node |-> m.node[s]]
              /\ m = [node |-> m.node, head |-> m.head, tail |-> m.tail, length |-> m.length]
            BY <3>3 DEF EmptyRcv
        <3>5. RcvShape(m, b, w, o, {})
            BY <3>4 DEF RcvShape, IsRcv, Laid, Apart, Linked, Leads, Paired, Ends, Numbers
        <3>6. m.length = Cardinality({})
            BY <3>4, FS_EmptySet
        <3>7. QED
            BY <3>1, <3>2, <3>3, <3>5, <3>6 DEF RcvGood
    <2>3. CASE l.length # 1
        <3>1. /\ b \in SeqNos /\ x \in SeqNos /\ Pos(b, x) \in Int
            BY Sizes DEF Window
        <3>2. PICK s \in DOMAIN l.node : Pos(b, x) \in F(b, l.node, s) .. L(b, l.node, s)
            BY <1>1, <1>5 DEF Numbers
        <3>3. \A t \in DOMAIN l.node : F(b, l.node, t) \in Int /\ L(b, l.node, t) \in Int
                                       /\ F(b, l.node, t) =< L(b, l.node, t) /\ t # None
            BY <1>1, RangesAre
        <3>4. l.head \in DOMAIN l.node
            BY <1>1, <3>2 DEF Leads
        <3>5. PICK c : c = At(o, Pos(b, x)) /\ c = SlotOf(l, x)
            BY <1>1, <3>4, SlotOfIs
        <3>6. PICK m : /\ m = RcvTakeOut(l, x) /\ RcvShape(m, b, w, o, S \ {x})
                       /\ m.length = l.length
            <4>1. CASE Starts(l, c, x)
                <5>1. c \in DOMAIN l.node
                    BY <4>1 DEF Starts
                <5>2. QED
                    <6>1. RcvShape(l, b, w, o, S)
                        BY <1>1
                    <6>2. RcvShape(RcvTakeOut(l, x), b, w, o, S \ {x})
                        BY <3>5, <4>1, <5>1, <6>1, TakeOutFirst
                    <6>3. SameLength(RcvTakeOut(l, x), l)
                        BY <3>5, <4>1, <5>1, <6>1, TakeOutFirst
                    <6>4. QED
                        BY <6>2, <6>3 DEF SameLength
            <4>2. CASE ~ Starts(l, c, x)
                <5>1. \A t \in DOMAIN l.node : F(b, l.node, t) # Pos(b, x)
                    <6>1. Starts(l, At(o, Pos(b, x)), x)
                              <=> \E t \in DOMAIN l.node : F(b, l.node, t) = Pos(b, x)
                        BY <1>1, StartsIs
                    <6>2. QED
                        BY <3>5, <4>2, <6>1
                <5>2. F(b, l.node, s) < Pos(b, x) /\ Pos(b, x) =< L(b, l.node, s)
                    BY <3>1, <3>2, <3>3, <5>1
                <5>3. PICK i \in DOMAIN l.node :
                          /\ i = SlotBefore(l, c) /\ F(b, l.node, i) < Pos(b, x)
                          /\ \A t \in DOMAIN l.node :
                                 F(b, l.node, t) =< F(b, l.node, i) \/ Pos(b, x) =< F(b, l.node, t)
                    BY <1>1, <3>5, <5>2, SlotBeforeIs
                <5>4. i = s
                    <6>1. F(b, l.node, s) =< F(b, l.node, i)
                        BY <3>1, <3>3, <5>2, <5>3
                    <6>2. F(b, l.node, s) < F(b, l.node, i) => L(b, l.node, s) < F(b, l.node, i)
                        BY <1>1, <3>3 DEF Apart
                    <6>3. F(b, l.node, s) = F(b, l.node, i)
                        BY <3>1, <3>3, <5>2, <5>3, <6>1, <6>2
                    <6>4. QED
                        BY <1>1, <6>3, OneSlot
                <5>5. QED
                    <6>1. RcvShape(l, b, w, o, S)
                        BY <1>1
                    <6>2. F(b, l.node, i) < Pos(b, x) /\ Pos(b, x) =< L(b, l.node, i)
                        BY <5>2, <5>4
                    <6>3. RcvShape(RcvTakeOut(l, x), b, w, o, S \ {x})
                        BY <3>5, <4>2, <5>3, <6>1, <6>2, TakeOutLater
                    <6>4. SameLength(RcvTakeOut(l, x), l)
                        BY <3>5, <4>2, <5>3, <6>1, <6>2, TakeOutLater
                    <6>5. QED
                        BY <6>3, <6>4 DEF SameLength
            <4>3. QED
                BY <4>1, <4>2
        <3>7. PICK k : k = m.length - 1
            OBVIOUS
        <3>8. m.length = l.length
            BY <3>6
        <3>9. PICK z : z = [m EXCEPT !.length = @ - 1]
            OBVIOUS
        <3>10. RcvRemove(l, x) = z
            BY <1>2, <1>5, <2>3, <3>6, <3>9 DEF RcvRemove
        <3>11. z = [node |-> m.node, head |-> m.head, tail |-> m.tail, length |-> k]
            BY <3>6, <3>7, <3>9 DEF RcvShape, IsRcv
        <3>12. z.node = m.node /\ z.head = m.head /\ z.tail = m.tail /\ z.length = l.length - 1
            BY <3>7, <3>8, <3>11
        <3>13. IsRcv(z)
            BY <3>6, <3>11, <3>12 DEF RcvShape, IsRcv
        <3>14. RcvShape(z, b, w, o, S \ {x})
            BY <3>6, <3>12, <3>13 DEF RcvShape
        <3>15. QED
            BY <2>1, <3>10, <3>12, <3>14 DEF RcvGood
    <2>4. QED
        BY <2>2, <2>3
<1>6. QED
    BY <1>4, <1>5

-----------------------------------------------------------------------------
(* The receiver's list: several numbers at once. *)

\* The lists there can be, for functions of them.
RcvLists ==
    [node : UNION {[D -> [first : SeqNos, last : SeqNos, prior : Slots \cup {None},
                          next : Slots \cup {None}]] : D \in SUBSET Slots},
     head : Slots \cup {None}, tail : Slots \cup {None}, length : Int]

LEMMA RcvGoodIsList ==
    ASSUME NEW b, NEW w, NEW o, Circle(b, w, o), NEW l, NEW S, RcvGood(l, b, w, o, S)
    PROVE  l \in RcvLists
<1>1. /\ IsRcv(l) /\ Laid(l.node, b, w, o) /\ Linked(l.node, b) /\ Leads(l.node, b, l.head)
      /\ Paired(l.node, l.head) /\ Ends(l.node, l.tail)
    BY DEF RcvGood, RcvShape
<1>2. DOMAIN l.node \in SUBSET Slots
    BY <1>1, Placed
<1>3. ASSUME NEW s \in DOMAIN l.node
      PROVE  l.node[s] \in [first : SeqNos, last : SeqNos, prior : Slots \cup {None},
                            next : Slots \cup {None}]
    <2>1. l.node[s].first \in SeqNos /\ l.node[s].last \in SeqNos
        BY <1>1, Placed
    <2>2. l.node[s].next \in Slots \cup {None}
        BY <1>1, <1>2 DEF Linked, Follows
    <2>3. l.node[s].prior \in Slots \cup {None}
        BY <1>1, <1>2 DEF Paired
    <2>4. l.node[s] = [first |-> l.node[s].first, last |-> l.node[s].last,
                       prior |-> l.node[s].prior, next |-> l.node[s].next]
        BY <1>1 DEF IsRcv, RcvNode
    <2>5. QED
        BY <2>1, <2>2, <2>3, <2>4
<1>4. l.node \in [DOMAIN l.node -> [first : SeqNos, last : SeqNos, prior : Slots \cup {None},
                                    next : Slots \cup {None}]]
    BY <1>1, <1>3 DEF Laid
<1>5. l.length \in Int
    BY RcvEmpty
<1>6. l.head \in Slots \cup {None} /\ l.tail \in Slots \cup {None}
    BY <1>1, <1>2 DEF Leads, Ends
<1>7. l.node \in UNION {[D -> [first : SeqNos, last : SeqNos, prior : Slots \cup {None},
                               next : Slots \cup {None}]] : D \in SUBSET Slots}
    BY <1>2, <1>4
<1>8. l = [node |-> l.node, head |-> l.head, tail |-> l.tail, length |-> l.length]
    BY <1>1 DEF IsRcv
<1>9. QED
    BY <1>5, <1>6, <1>7, <1>8 DEF RcvLists

\* The numbers of a sequence are taken out one after the other.
LEMMA RemoveAllIs ==
    ASSUME NEW b, NEW w, NEW o, Circle(b, w, o), NEW l, NEW S, RcvGood(l, b, w, o, S),
           NEW q \in Seq(Window(b, w))
    PROVE  RcvGood(FoldLeft(RcvRemove, l, q), b, w, o, S \ ToSet(q))
<1> DEFINE iter[D \in SUBSET (DOMAIN q)] ==
               IF D = {} THEN l ELSE RcvRemove(iter[D \ {Max(D)}], q[Max(D)])
           N == Len(q)
           X == {m \in RcvLists : \E T : RcvGood(m, b, w, o, T)}
           step == [c \in X \X (1 .. N) |-> RcvRemove(c[1], q[c[2]])]
           Done(k) == {q[i] : i \in 1 .. k}
           G == {k \in Nat : RcvGood(iter[1 .. k], b, w, o, S \ Done(k))}
<1>1. FoldLeft(RcvRemove, l, q) = iter[DOMAIN q]
    BY DEF FoldLeft, MapThenFoldSet
<1>2. N \in Nat /\ DOMAIN q = 1 .. N /\ \A i \in 1 .. N : q[i] \in Window(b, w)
    OBVIOUS
<1>3. \A m : (\E T : RcvGood(m, b, w, o, T)) => m \in X
    BY RcvGoodIsList
<1>4. ASSUME NEW m, NEW T, RcvGood(m, b, w, o, T), NEW k \in 1 .. N
      PROVE  RcvGood(RcvRemove(m, q[k]), b, w, o, T \ {q[k]})
    BY <1>2, <1>4, RcvRemoveIs
<1>5. l \in X
    BY <1>3
<1> HIDE DEF N
<1>6. step \in [X \X (1 .. N) -> X]
    <2>1. ASSUME NEW m \in X, NEW k \in 1 .. N PROVE RcvRemove(m, q[k]) \in X
        <3>1. PICK T : RcvGood(m, b, w, o, T)
            OBVIOUS
        <3>2. QED
            <4> HIDE DEF X
            <4> QED BY <1>3, <1>4, <3>1
    <2>2. QED
        <3> HIDE DEF X
        <3> QED BY <2>1
<1>7. PICK v \in [SUBSET (1 .. N) -> X] : Folds(v, N, l, step)
    <2> HIDE DEF step, X
    <2> QED BY <1>2, <1>5, <1>6, FoldExists
<1>8. v = [D \in SUBSET (DOMAIN q) |->
              IF D = {} THEN l ELSE RcvRemove(v[D \ {Max(D)}], q[Max(D)])]
    <2>1. v = [D \in SUBSET (1 .. N) |-> IF D = {} THEN l ELSE step[<<v[D \ {Max(D)}], Max(D)>>]]
        BY <1>7 DEF Folds
    <2>2. ASSUME NEW D \in SUBSET (1 .. N), D # {}
          PROVE  step[<<v[D \ {Max(D)}], Max(D)>>] = RcvRemove(v[D \ {Max(D)}], q[Max(D)])
        <3>1. Max(D) \in 1 .. N
            BY <1>2, <2>2, MaxIs
        <3>2. v[D \ {Max(D)}] \in X
            <4> HIDE DEF X
            <4>1. D \ {Max(D)} \in SUBSET (1 .. N)
                OBVIOUS
            <4>2. QED
                BY <1>7, <4>1
        <3>3. QED
            <4> HIDE DEF X
            <4> QED BY <3>1, <3>2
    <2>3. QED
        <3> HIDE DEF step, X
        <3> QED BY <1>2, <2>1, <2>2
<1>9. iter = [D \in SUBSET (DOMAIN q) |->
                 IF D = {} THEN l ELSE RcvRemove(iter[D \ {Max(D)}], q[Max(D)])]
    <2>1. \E f : f = [D \in SUBSET (DOMAIN q) |->
                         IF D = {} THEN l ELSE RcvRemove(f[D \ {Max(D)}], q[Max(D)])]
        BY <1>8
    <2>2. QED
        BY <2>1
<1> HIDE DEF iter
<1>10. 0 \in G
    <2>1. 1 .. 0 = {} /\ {} \in SUBSET (DOMAIN q)
        OBVIOUS
    <2>2. iter[1 .. 0] = l
        BY <1>9, <2>1
    <2>3. S \ Done(0) = S
        OBVIOUS
    <2>4. QED
        <3> HIDE DEF Done
        <3> QED BY <2>2, <2>3
<1>11. ASSUME NEW k \in 0 .. N - 1, k \in G PROVE k + 1 \in G
    <2>1. k + 1 \in Nat \ {0} /\ k + 1 \in 1 .. N /\ k \in Nat
        BY <1>2
    <2>2. Max(1 .. k + 1) = k + 1 /\ (1 .. k + 1) \ {k + 1} = 1 .. k /\ 1 .. k + 1 # {}
        <3>1. (k + 1) - 1 = k
            BY <2>1
        <3>2. QED
            BY <2>1, <3>1, FirstOnes
    <2>3. 1 .. k + 1 \in SUBSET (DOMAIN q)
        BY <1>2, <2>1
    <2>4. iter[1 .. k + 1] = RcvRemove(iter[1 .. k], q[k + 1])
        BY <1>9, <2>2, <2>3
    <2>5. RcvGood(iter[1 .. k], b, w, o, S \ Done(k))
        BY <1>11
    <2>6. RcvGood(iter[1 .. k + 1], b, w, o, (S \ Done(k)) \ {q[k + 1]})
        <3>1. PICK T : T = S \ Done(k)
            OBVIOUS
        <3> HIDE DEF Done
        <3>2. RcvGood(RcvRemove(iter[1 .. k], q[k + 1]), b, w, o, T \ {q[k + 1]})
            BY <1>4, <2>1, <2>5, <3>1
        <3>3. QED
            BY <2>4, <3>1, <3>2
    <2>7. (S \ Done(k)) \ {q[k + 1]} = S \ Done(k + 1)
        <3>1. 1 .. k + 1 = (1 .. k) \cup {k + 1}
            BY <2>1
        <3>2. Done(k + 1) = Done(k) \cup {q[k + 1]}
            BY <3>1
        <3>3. QED
            <4> HIDE DEF Done
            <4> QED BY <3>2
    <2>8. QED
        <3> HIDE DEF Done
        <3> QED BY <2>1, <2>6, <2>7
<1>12. N \in G
    <2> HIDE DEF G
    <2>1. \A n \in 0 .. N - 1 : n \in G => n + 1 \in G
        BY <1>11
    <2>2. \A n \in 0 .. N : n \in G
        BY <1>2, <1>10, <2>1, Counting
    <2>3. QED
        BY <1>2, <2>2
<1>13. Done(N) = ToSet(q)
    BY <1>2 DEF ToSet
<1>14. QED
    <2> HIDE DEF Done
    <2> QED BY <1>1, <1>2, <1>12, <1>13

\* A sequence over a set is one over a larger set.
LEMMA Broader ==
    ASSUME NEW U, NEW V, NEW q \in Seq(U), \A u \in U : u \in V
    PROVE  q \in Seq(V)
<1>1. Len(q) \in Nat /\ q \in [1 .. Len(q) -> U]
    OBVIOUS
<1>2. \A i \in 1 .. Len(q) : q[i] \in V
    BY <1>1
<1>3. q \in [1 .. Len(q) -> V]
    BY <1>1, <1>2
<1>4. QED
    BY <1>1, <1>3

\* What a drop request leaves in, though it is between the two ends.
Overlooked(s1, s2) == IF s1 > s2 THEN {MaxSeqNo} ELSE {}

\* The numbers that a drop request takes out.
LEMMA RangeRemovedIs ==
    ASSUME NEW b, NEW w, NEW o, Circle(b, w, o),
           NEW x \in Window(b, w), NEW y \in Window(b, w), Pos(b, x) =< Pos(b, y)
    PROVE  /\ RangeRemoved(x, y) \in Seq(Window(b, w))
           /\ ToSet(RangeRemoved(x, y)) = Between(x, y) \ Overlooked(x, y)
<1>1. /\ b \in SeqNos /\ x \in SeqNos /\ y \in SeqNos /\ w \in Nat /\ w =< SeqNoTH - 1
      /\ SeqNoTH \in Nat \ {0} /\ MaxSeqNo = 2 * SeqNoTH + 1
      /\ x \in Window(b, SeqNoTH) /\ y \in Window(b, SeqNoTH)
    BY SeqNoAssumption, Sizes DEF Window
<1>2. PICK p \in 0 .. w - 1, r \in 0 .. w - 1 : p = Pos(b, x) /\ r = Pos(b, y) /\ p =< r
    BY DEF Window
<1>3. SeqOff(x, y) = r - p
    BY <1>1, <1>2, Compared
<1>4. Between(x, y) = Span(b, p, r)
    BY <1>1, <1>2, BetweenIs
<1>5. Between(x, y) \subseteq Window(b, w)
    BY <1>1, <1>2, <1>4 DEF Span, Window
<1>6. \A n \in SeqNos : n \in Between(x, y) <=> IF x =< y THEN x =< n /\ n =< y ELSE x =< n \/ n =< y
    <2>1. x \in Window(x, SeqNoTH) /\ Pos(x, x) = 0
        BY <1>1 DEF Window, Pos, SeqOff, Abs, SeqNos
    <2>2. Pos(x, y) = r - p /\ y \in Window(x, SeqNoTH)
        BY <1>1, <1>2, <1>3 DEF Window, Pos
    <2>3. Pos(x, x) =< Pos(x, y)
        BY <1>2, <2>1, <2>2
    <2>4. Between(x, y) = Span(x, 0, r - p)
        BY <1>1, <2>1, <2>2, <2>3, BetweenIs
    <2> SUFFICES ASSUME NEW n \in SeqNos
                 PROVE  SeqOff(x, n) \in 0 .. SeqOff(x, y)
                            <=> IF x =< y THEN x =< n /\ n =< y ELSE x =< n \/ n =< y
        BY <1>3, <2>4 DEF Span, Pos
    <2>5. SeqOff(x, y) \in 0 .. SeqNoTH - 1
        BY <1>1, <1>2, <1>3
    <2>6. QED
        BY <1>1, <2>5 DEF SeqOff, SeqNos, Abs
<1> DEFINE Upwards(n1, n2) == [i \in 1 .. n2 - n1 + 1 |-> n1 + i - 1]
<1>7. ASSUME NEW n1 \in SeqNos, NEW n2 \in SeqNos \cup {-1}, n1 =< n2 + 1
      PROVE  /\ Upwards(n1, n2) \in Seq(n1 .. n2) /\ DOMAIN Upwards(n1, n2) = 1 .. n2 - n1 + 1
             /\ Len(Upwards(n1, n2)) = n2 - n1 + 1
             /\ {Upwards(n1, n2)[i] : i \in DOMAIN Upwards(n1, n2)} = n1 .. n2
    <2>1. n1 \in Int /\ n2 \in Int
        BY <1>1 DEF SeqNos
    <2>2. n2 - n1 + 1 \in Nat
        BY <1>7, <2>1
    <2>3. \A i \in 1 .. n2 - n1 + 1 : Upwards(n1, n2)[i] = n1 + i - 1 /\ n1 + i - 1 \in n1 .. n2
        BY <2>1
    <2>4. DOMAIN Upwards(n1, n2) = 1 .. n2 - n1 + 1
        OBVIOUS
    <2>5. \A n \in n1 .. n2 : n - n1 + 1 \in 1 .. n2 - n1 + 1 /\ n = n1 + (n - n1 + 1) - 1
        BY <2>1
    <2>6. Upwards(n1, n2) \in Seq(n1 .. n2) /\ Len(Upwards(n1, n2)) = n2 - n1 + 1
        BY <2>1, <2>2
    <2> HIDE DEF Upwards
    <2>7. {Upwards(n1, n2)[i] : i \in DOMAIN Upwards(n1, n2)} = n1 .. n2
        BY <2>3, <2>4, <2>5
    <2>8. QED
        BY <2>4, <2>6, <2>7
<1>8. CASE x =< y
    <2>1. RangeRemoved(x, y) = Upwards(x, y)
        BY <1>8 DEF RangeRemoved
    <2>2. x =< y + 1
        BY <1>1, <1>8 DEF SeqNos
    <2>3. PICK q : q = RangeRemoved(x, y) /\ q \in Seq(x .. y) /\ {q[i] : i \in DOMAIN q} = x .. y
        <3> HIDE DEF Upwards
        <3> QED BY <1>1, <1>7, <2>1, <2>2
    <2>4. x .. y = Between(x, y) \ Overlooked(x, y)
        <3>1. Overlooked(x, y) = {}
            BY <1>1, <1>8 DEF Overlooked, SeqNos
        <3>2. \A n \in x .. y : n \in SeqNos
            BY <1>1 DEF SeqNos
        <3>3. \A n \in Between(x, y) : n \in SeqNos
            BY <1>5 DEF Window
        <3>4. \A n \in SeqNos : n \in x .. y <=> n \in Between(x, y)
            BY <1>1, <1>6, <1>8 DEF SeqNos
        <3>5. QED
            BY <3>1, <3>2, <3>3, <3>4
    <2>5. q \in Seq(Window(b, w))
        BY <1>5, <2>3, <2>4
    <2>6. QED
        BY <2>3, <2>4, <2>5 DEF ToSet
<1>9. CASE x > y
    <2>1. RangeRemoved(x, y) = Upwards(x, MaxSeqNo - 1) \o Upwards(0, y)
        BY <1>1, <1>9 DEF RangeRemoved, SeqNos
    <2>2. /\ 0 \in SeqNos /\ MaxSeqNo - 1 \in SeqNos \cup {-1} /\ y \in SeqNos \cup {-1}
          /\ x =< (MaxSeqNo - 1) + 1 /\ 0 =< y + 1
        BY <1>1 DEF SeqNos
    <2>3. PICK s : /\ s = Upwards(x, MaxSeqNo - 1) /\ s \in Seq(x .. MaxSeqNo - 1)
                   /\ {s[i] : i \in DOMAIN s} = x .. MaxSeqNo - 1
        <3> HIDE DEF Upwards
        <3> QED BY <1>1, <1>7, <2>2
    <2>4. PICK t : /\ t = Upwards(0, y) /\ t \in Seq(0 .. y) /\ {t[i] : i \in DOMAIN t} = 0 .. y
        <3> HIDE DEF Upwards
        <3> QED BY <1>1, <1>7, <2>2
    <2>5. PICK q : q = RangeRemoved(x, y) /\ q = s \o t
        BY <2>1, <2>3, <2>4
    <2>6. x .. MaxSeqNo - 1 \subseteq SeqNos /\ 0 .. y \subseteq SeqNos
        BY <1>1 DEF SeqNos
    <2>7. (x .. MaxSeqNo - 1) \cup (0 .. y) = Between(x, y) \ Overlooked(x, y)
        <3>1. Overlooked(x, y) = {MaxSeqNo}
            BY <1>1, <1>9 DEF Overlooked, SeqNos
        <3>2. \A n \in Between(x, y) : n \in SeqNos
            BY <1>5 DEF Window
        <3>3. \A n \in SeqNos : n \in (x .. MaxSeqNo - 1) \cup (0 .. y)
                                    <=> n \in Between(x, y) /\ n # MaxSeqNo
            BY <1>1, <1>6, <1>9 DEF SeqNos
        <3>4. QED
            BY <2>6, <3>1, <3>2, <3>3
    <2>8. s \in Seq(Window(b, w)) /\ t \in Seq(Window(b, w))
        <3>1. x .. MaxSeqNo - 1 \subseteq Window(b, w) /\ 0 .. y \subseteq Window(b, w)
            BY <1>5, <2>7
        <3>2. s \in Seq(Window(b, w))
            BY <2>3, <3>1, Broader
        <3>3. t \in Seq(Window(b, w))
            BY <2>4, <3>1, Broader
        <3>4. QED
            BY <3>2, <3>3
    <2>9. q \in Seq(Window(b, w)) /\ Len(q) = Len(s) + Len(t)
        BY <2>5, <2>8
    <2>10. {q[i] : i \in DOMAIN q} = (x .. MaxSeqNo - 1) \cup (0 .. y)
        <3>1. DOMAIN q = 1 .. Len(s) + Len(t) /\ DOMAIN s = 1 .. Len(s) /\ DOMAIN t = 1 .. Len(t)
              /\ Len(s) \in Nat /\ Len(t) \in Nat
            BY <2>8, <2>9
        <3>2. \A i \in DOMAIN q : q[i] = IF i =< Len(s) THEN s[i] ELSE t[i - Len(s)]
            BY <2>5, <2>8, <2>9
        <3>3. \A i \in DOMAIN q : q[i] \in {s[j] : j \in DOMAIN s} \cup {t[j] : j \in DOMAIN t}
            <4> SUFFICES ASSUME NEW i \in DOMAIN q
                         PROVE  q[i] \in {s[j] : j \in DOMAIN s} \cup {t[j] : j \in DOMAIN t}
                OBVIOUS
            <4>1. CASE i =< Len(s)
                BY <3>1, <3>2, <4>1
            <4>2. CASE i > Len(s)
                <5>1. i - Len(s) \in DOMAIN t /\ q[i] = t[i - Len(s)]
                    BY <3>1, <3>2, <4>2
                <5>2. QED
                    BY <5>1
            <4>3. QED
                BY <3>1, <4>1, <4>2
        <3>4. \A j \in DOMAIN s : s[j] \in {q[i] : i \in DOMAIN q}
            BY <3>1, <3>2
        <3>5. \A j \in DOMAIN t : t[j] \in {q[i] : i \in DOMAIN q}
            <4> SUFFICES ASSUME NEW j \in DOMAIN t PROVE t[j] \in {q[i] : i \in DOMAIN q}
                OBVIOUS
            <4>1. j + Len(s) \in DOMAIN q /\ ~ (j + Len(s) =< Len(s)) /\ (j + Len(s)) - Len(s) = j
                BY <3>1
            <4>2. q[j + Len(s)] = t[j]
                BY <3>2, <4>1
            <4>3. QED
                BY <4>1, <4>2
        <3>6. {q[i] : i \in DOMAIN q} = {s[j] : j \in DOMAIN s} \cup {t[j] : j \in DOMAIN t}
            BY <3>3, <3>4, <3>5
        <3>7. QED
            BY <2>3, <2>4, <3>6
    <2>11. QED
        BY <2>5, <2>7, <2>9, <2>10 DEF ToSet
<1>10. QED
    BY <1>1, <1>8, <1>9 DEF SeqNos

\* remove, of a range.
LEMMA RcvRemoveRangeIs ==
    ASSUME NEW b, NEW w, NEW o, Circle(b, w, o), NEW l, NEW S, RcvGood(l, b, w, o, S),
           NEW x \in Window(b, w), NEW y \in Window(b, w), Pos(b, x) =< Pos(b, y)
    PROVE  RcvGood(RcvRemoveRange(l, x, y), b, w, o, S \ (Between(x, y) \ Overlooked(x, y)))
<1>1. PICK q : /\ q = RangeRemoved(x, y) /\ q \in Seq(Window(b, w))
               /\ ToSet(q) = Between(x, y) \ Overlooked(x, y)
    BY RangeRemovedIs
<1>2. PICK m : m = FoldLeft(RcvRemove, l, q) /\ RcvGood(m, b, w, o, S \ ToSet(q))
    BY <1>1, RemoveAllIs
<1>3. RcvRemoveRange(l, x, y) = m
    BY <1>1, <1>2 DEF RcvRemoveRange
<1>4. QED
    BY <1>1, <1>2, <1>3

-----------------------------------------------------------------------------
(* The ranges in order. *)

\* The links from the head on meet every range once, and in order.
InOrder(node, b, c) ==
    /\ c \in Seq(DOMAIN node)
    /\ \A s \in DOMAIN node : \E i \in 1 .. Len(c) : c[i] = s
    /\ \A i, j \in 1 .. Len(c) : i < j => F(b, node, c[i]) < F(b, node, c[j])

LEMMA ChainIs ==
    ASSUME NEW b, NEW w, NEW o, Circle(b, w, o), NEW l, Laid(l.node, b, w, o),
           Linked(l.node, b), Leads(l.node, b, l.head)
    PROVE  /\ InOrder(l.node, b, Chain(l))
           /\ DOMAIN l.node # {} => IsChain(l.node, b, Chain(l), l.head)
<1>1. CASE DOMAIN l.node = {}
    <2>1. l.head = None
        BY <1>1 DEF Leads
    <2>2. Chain(l) = <<>>
        BY <2>1 DEF Chain, ChainFrom
    <2>3. Chain(l) \in Seq(DOMAIN l.node) /\ Len(Chain(l)) = 0
        BY <2>2
    <2>4. QED
        BY <1>1, <2>3 DEF InOrder
<1>2. CASE DOMAIN l.node # {}
    <2>1. l.head \in DOMAIN l.node /\ \A t \in DOMAIN l.node : F(b, l.node, l.head) =< F(b, l.node, t)
        BY <1>2 DEF Leads
    <2>2. PICK c : c = Chain(l) /\ c = ChainFrom(l, l.head)
        BY DEF Chain
    <2>3. IsChain(l.node, b, c, l.head)
        BY <2>1, <2>2, ChainFromIs
    <2>4. InOrder(l.node, b, c)
        BY <2>1, <2>3 DEF InOrder, IsChain
    <2>5. QED
        BY <2>2, <2>3, <2>4
<1>3. QED
    BY <1>1, <1>2

\* A range is between its first and its last number.
LEMMA RangeIs ==
    ASSUME NEW b, NEW w, NEW o, Circle(b, w, o), NEW node, Laid(node, b, w, o),
           NEW s \in DOMAIN node
    PROVE  Between(node[s].first, node[s].last) = Span(b, F(b, node, s), L(b, node, s))
<1>1. b \in SeqNos
    BY Sizes
<1>2. /\ node[s].first \in Window(b, SeqNoTH) /\ node[s].last \in Window(b, SeqNoTH)
      /\ F(b, node, s) =< L(b, node, s)
    BY RangesAre
<1>3. Pos(b, node[s].first) = F(b, node, s) /\ Pos(b, node[s].last) = L(b, node, s)
    BY DEF F, L
<1>4. QED
    BY <1>1, <1>2, <1>3, BetweenIs

-----------------------------------------------------------------------------
\* Two numbers of a window in their order.
Forwards(b, w, x, y) == x \in Window(b, w) /\ y \in Window(b, w) /\ Pos(b, x) =< Pos(b, y)

-----------------------------------------------------------------------------
(* The window moves on. *)

\* A position counted from a later number.
LEMMA Shifted ==
    ASSUME NEW b \in SeqNos, NEW k \in 0 .. SeqNoTH - 1, NEW x \in SeqNos,
           NEW p \in k .. SeqNoTH - 1
    PROVE  /\ Number(b, k) \in SeqNos /\ Pos(b, Number(b, k)) = k
           /\ Pos(b, x) = p <=> Pos(Number(b, k), x) = p - k
<1>1. /\ SeqNoTH \in Nat /\ k \in Nat /\ p - k \in Nat /\ p \in 0 .. SeqNoTH - 1
      /\ p - k \in 0 .. SeqNoTH - 1
    BY SeqNoAssumption
<1>2. PICK c \in SeqNos : c = Number(b, k) /\ Pos(b, c) = k
    BY NumberAt
<1>3. c \in Window(b, SeqNoTH)
    BY <1>1, <1>2 DEF Window
<1>4. ASSUME Pos(b, x) = p PROVE Pos(c, x) = p - k
    <2>1. x \in Window(b, SeqNoTH) /\ Pos(b, x) >= k
        BY <1>1, <1>4 DEF Window
    <2>2. QED
        BY <1>2, <1>4, <2>1, Moved
<1>5. ASSUME Pos(c, x) = p - k PROVE Pos(b, x) = p
    <2>1. x = Number(c, p - k)
        BY <1>1, <1>5, OnePlace
    <2>2. Pos(b, c) + (p - k) =< SeqNoTH - 1 /\ Pos(b, c) + (p - k) = p
        BY <1>1, <1>2
    <2>3. Pos(b, IncSeqBy(c, p - k)) = Pos(b, c) + (p - k)
        BY <1>1, <1>3, <2>2, Jump
    <2>4. QED
        BY <2>1, <2>2, <2>3 DEF Number
<1>6. QED
    BY <1>2, <1>4, <1>5

\* The slot of a position counted from there.
LEMMA SlotShifted ==
    ASSUME NEW o \in 0 .. ListSize, NEW k \in 0 .. ListSize
    PROVE  \E e \in 0 .. ListSize : \A p \in k .. ListSize - 1 : At(e, p - k) = At(o, p)
<1>1. ListSize \in Nat
    BY ListAssumption
<1>2. PICK e \in 0 .. ListSize : e = IF o + k < ListSize THEN o + k ELSE o + k - ListSize
    <2>1. (IF o + k < ListSize THEN o + k ELSE o + k - ListSize) \in 0 .. ListSize
        BY <1>1
    <2>2. QED
        BY <2>1
<1>3. ASSUME NEW p \in k .. ListSize - 1 PROVE At(e, p - k) = At(o, p)
    <2>1. p \in 0 .. ListSize - 1 /\ p - k \in 0 .. ListSize - 1
        BY <1>1
    <2>2. At(o, p) = IF o + p < ListSize THEN o + p ELSE o + p - ListSize
        BY <2>1, AtIs
    <2>3. At(e, p - k) = IF e + (p - k) < ListSize THEN e + (p - k) ELSE e + (p - k) - ListSize
        BY <2>1, AtIs
    <2>4. QED
        BY <1>1, <1>2, <2>1, <2>2, <2>3
<1>4. QED
    BY <1>3

\* Ranges that all begin at position k or later are ranges of the window that begins there.
LEMMA Rebased ==
    ASSUME NEW b, NEW w, NEW o, Circle(b, w, o), NEW node, Laid(node, b, w, o),
           NEW k \in 0 .. w, \A s \in DOMAIN node : F(b, node, s) >= k
    PROVE  /\ \A s \in DOMAIN node :
                  /\ F(Number(b, k), node, s) = F(b, node, s) - k
                  /\ L(Number(b, k), node, s) = L(b, node, s) - k
           /\ \E e \in 0 .. ListSize : /\ Circle(Number(b, k), w - k, e)
                                       /\ Laid(node, Number(b, k), w - k, e)
           /\ Numbers(node, Number(b, k), None) = Numbers(node, b, None)
<1>1. /\ b \in SeqNos /\ w \in Nat /\ w =< SeqNoTH - 1 /\ w =< ListSize /\ o \in 0 .. ListSize
      /\ SeqNoTH \in Nat /\ ListSize \in Nat /\ w =< WindowLimit /\ WindowLimit \in Nat
    BY Sizes
<1>2. k \in 0 .. SeqNoTH - 1 /\ k \in 0 .. ListSize /\ k \in Int /\ k =< w
    BY <1>1
<1>3. PICK c : c = Number(b, k) /\ c \in SeqNos
    BY <1>1, <1>2, NumberAt
<1>4. \A x \in SeqNos : \A p \in k .. SeqNoTH - 1 : Pos(b, x) = p <=> Pos(c, x) = p - k
    BY <1>1, <1>2, <1>3, Shifted
<1>5. PICK e \in 0 .. ListSize : \A p \in k .. ListSize - 1 : At(e, p - k) = At(o, p)
    BY <1>1, <1>2, SlotShifted
<1>6. ASSUME NEW s \in DOMAIN node
      PROVE  /\ F(b, node, s) \in k .. w - 1 /\ L(b, node, s) \in k .. w - 1
             /\ F(b, node, s) =< L(b, node, s) /\ s = At(o, F(b, node, s))
             /\ F(c, node, s) = F(b, node, s) - k /\ L(c, node, s) = L(b, node, s) - k
             /\ node[s].first \in SeqNos /\ node[s].last \in SeqNos
    <2>1. /\ F(b, node, s) \in 0 .. w - 1 /\ L(b, node, s) \in 0 .. w - 1
          /\ F(b, node, s) =< L(b, node, s) /\ s = At(o, F(b, node, s))
          /\ node[s].first \in SeqNos /\ node[s].last \in SeqNos
        BY Placed
    <2>2. F(b, node, s) \in k .. w - 1 /\ L(b, node, s) \in k .. w - 1
        BY <1>1, <1>2, <2>1
    <2>3. F(b, node, s) \in k .. SeqNoTH - 1 /\ L(b, node, s) \in k .. SeqNoTH - 1
        BY <1>1, <1>2, <2>2
    <2>4. F(c, node, s) = F(b, node, s) - k
        BY <1>4, <2>1, <2>3 DEF F
    <2>5. L(c, node, s) = L(b, node, s) - k
        BY <1>4, <2>1, <2>3 DEF L
    <2>6. QED
        BY <2>1, <2>2, <2>4, <2>5
<1>7. Circle(c, w - k, e)
    BY <1>1, <1>2, <1>3 DEF Circle
<1>8. Laid(node, c, w - k, e)
    <2>1. ASSUME NEW s \in DOMAIN node
          PROVE  /\ node[s].first \in Window(c, w - k) /\ node[s].last \in Window(c, w - k)
                 /\ F(c, node, s) =< L(c, node, s) /\ s = At(e, F(c, node, s))
        <3>1. PICK f \in k .. w - 1, g \in k .. w - 1 :
                  f = F(b, node, s) /\ g = L(b, node, s) /\ f =< g
            BY <1>6
        <3>2. F(c, node, s) = f - k /\ L(c, node, s) = g - k
            BY <1>6, <3>1
        <3>3. f - k \in 0 .. (w - k) - 1 /\ g - k \in 0 .. (w - k) - 1 /\ f - k =< g - k
              /\ f \in k .. ListSize - 1
            BY <1>1, <1>2, <3>1
        <3>4. Pos(c, node[s].first) = f - k /\ Pos(c, node[s].last) = g - k
            BY <3>2 DEF F, L
        <3>5. node[s].first \in Window(c, w - k) /\ node[s].last \in Window(c, w - k)
            BY <1>6, <3>3, <3>4 DEF Window
        <3>6. s = At(e, f - k)
            BY <1>5, <1>6, <3>1, <3>3
        <3>7. QED
            BY <3>2, <3>3, <3>5, <3>6
    <2>2. node = [s \in DOMAIN node |-> node[s]]
        BY DEF Laid
    <2>3. QED
        BY <2>1, <2>2 DEF Laid
<1>9. ASSUME NEW x \in SeqNos, NEW s \in DOMAIN node
      PROVE  Pos(b, x) \in F(b, node, s) .. L(b, node, s)
                 <=> Pos(c, x) \in F(c, node, s) .. L(c, node, s)
    <2>1. PICK f \in k .. w - 1, g \in k .. w - 1 : f = F(b, node, s) /\ g = L(b, node, s)
        BY <1>6
    <2>2. F(c, node, s) = f - k /\ L(c, node, s) = g - k
        BY <1>6, <2>1
    <2>3. PICK p \in Int, q \in Int : p = Pos(b, x) /\ q = Pos(c, x)
        BY <1>1, <1>3, PosType
    <2>4. p \in f .. g => p \in k .. SeqNoTH - 1
        BY <1>1, <1>2, <2>1
    <2>5. q \in f - k .. g - k => q + k \in k .. SeqNoTH - 1 /\ (q + k) - k = q
        BY <1>1, <1>2, <2>1
    <2>6. p \in f .. g => q = p - k
        BY <1>4, <2>3, <2>4
    <2>7. q \in f - k .. g - k => p = q + k
        BY <1>4, <2>3, <2>5
    <2>8. p \in f .. g <=> q \in f - k .. g - k
        BY <1>2, <2>1, <2>6, <2>7
    <2>9. QED
        BY <2>1, <2>2, <2>3, <2>8
<1>10. Numbers(node, c, None) = Numbers(node, b, None)
    BY <1>9 DEF Numbers
<1>11. QED
    BY <1>3, <1>6, <1>7, <1>8, <1>10

\* Their order and their links are those they had.
LEMMA OrderRebased ==
    ASSUME NEW b, NEW w, NEW o, Circle(b, w, o), NEW node, Laid(node, b, w, o),
           Apart(node, b, None), Linked(node, b), NEW h, Leads(node, b, h),
           NEW k \in 0 .. w, \A s \in DOMAIN node : F(b, node, s) >= k
    PROVE  /\ Apart(node, Number(b, k), None) /\ Linked(node, Number(b, k))
           /\ Leads(node, Number(b, k), h)
<1>1. PICK c : c = Number(b, k)
    OBVIOUS
<1>2. \A s \in DOMAIN node :
          F(c, node, s) = F(b, node, s) - k /\ L(c, node, s) = L(b, node, s) - k
    BY <1>1, Rebased
<1>3. \A s \in DOMAIN node : F(b, node, s) \in Int /\ L(b, node, s) \in Int
    BY RangesAre
<1>4. k \in Int
    BY Sizes
<1>5. ASSUME NEW s \in DOMAIN node, NEW t \in DOMAIN node
      PROVE  /\ F(c, node, s) < F(c, node, t) <=> F(b, node, s) < F(b, node, t)
             /\ F(c, node, s) =< F(c, node, t) <=> F(b, node, s) =< F(b, node, t)
             /\ L(c, node, s) < F(c, node, t) <=> L(b, node, s) < F(b, node, t)
    <2>1. PICK f \in Int, g \in Int, m \in Int :
              f = F(b, node, s) /\ g = F(b, node, t) /\ m = L(b, node, s)
        BY <1>3
    <2>2. F(c, node, s) = f - k /\ F(c, node, t) = g - k /\ L(c, node, s) = m - k
        BY <1>2, <2>1
    <2>3. QED
        BY <1>4, <2>1, <2>2
<1>6. Apart(node, c, None)
    BY <1>5 DEF Apart
<1>7. Linked(node, c)
    <2> SUFFICES ASSUME NEW s \in DOMAIN node PROVE Follows(node, c, s, node[s].next)
        BY DEF Linked
    <2>1. PICK n : n = node[s].next /\ Follows(node, b, s, n)
        BY DEF Linked
    <2>2. CASE n = None
        BY <1>5, <2>1, <2>2 DEF Follows
    <2>3. CASE n # None
        BY <1>5, <2>1, <2>3 DEF Follows
    <2>4. QED
        BY <2>2, <2>3
<1>8. Leads(node, c, h)
    BY <1>5 DEF Leads
<1>9. QED
    BY <1>1, <1>6, <1>7, <1>8

\* Both lists, in the window that begins at position k.
LEMMA SndRebased ==
    ASSUME NEW b, NEW w, NEW o, Circle(b, w, o), NEW l, NEW S, SndGood(l, b, w, o, S),
           NEW k \in 0 .. w, \A s \in DOMAIN l.node : F(b, l.node, s) >= k
    PROVE  \E e \in 0 .. ListSize : SndGood(l, Number(b, k), w - k, e, S)
<1>1. /\ IsSnd(l) /\ Laid(l.node, b, w, o) /\ Apart(l.node, b, None) /\ Linked(l.node, b)
      /\ Leads(l.node, b, l.head) /\ S = Numbers(l.node, b, None) /\ l.length = Cardinality(S)
    BY DEF SndGood
<1>2. PICK c : c = Number(b, k)
    OBVIOUS
<1>3. PICK e \in 0 .. ListSize : Laid(l.node, c, w - k, e)
    BY <1>1, <1>2, Rebased
<1>4. Numbers(l.node, c, None) = S
    BY <1>1, <1>2, Rebased
<1>5. Apart(l.node, c, None) /\ Linked(l.node, c) /\ Leads(l.node, c, l.head)
    BY <1>1, <1>2, OrderRebased
<1>6. SndGood(l, c, w - k, e, S)
    BY <1>1, <1>3, <1>4, <1>5 DEF SndGood
<1>7. QED
    BY <1>2, <1>6

LEMMA RcvRebased ==
    ASSUME NEW b, NEW w, NEW o, Circle(b, w, o), NEW l, NEW S, RcvGood(l, b, w, o, S),
           NEW k \in 0 .. w, \A s \in DOMAIN l.node : F(b, l.node, s) >= k
    PROVE  \E e \in 0 .. ListSize : RcvGood(l, Number(b, k), w - k, e, S)
<1>1. /\ IsRcv(l) /\ Laid(l.node, b, w, o) /\ Apart(l.node, b, None) /\ Linked(l.node, b)
      /\ Leads(l.node, b, l.head) /\ Paired(l.node, l.head) /\ Ends(l.node, l.tail)
      /\ S = Numbers(l.node, b, None)
    BY DEF RcvGood, RcvShape
<1>2. PICK c : c = Number(b, k)
    OBVIOUS
<1>3. PICK e \in 0 .. ListSize : Laid(l.node, c, w - k, e)
    BY <1>1, <1>2, Rebased
<1>4. Numbers(l.node, c, None) = S
    BY <1>1, <1>2, Rebased
<1>5. Apart(l.node, c, None) /\ Linked(l.node, c) /\ Leads(l.node, c, l.head)
    BY <1>1, <1>2, OrderRebased
<1>6. RcvShape(l, c, w - k, e, S)
    BY <1>1, <1>3, <1>4, <1>5 DEF RcvShape
<1>7. RcvGood(l, c, w - k, e, S)
    BY <1>6 DEF RcvGood
<1>8. QED
    BY <1>2, <1>7

\* getLostSeq takes out the first number and no other.
LEMMA SndTakeFirst ==
    ASSUME NEW b, NEW w, NEW o, Circle(b, w, o), NEW l, NEW S, SndGood(l, b, w, o, S), S # {}
    PROVE  SndGood(TakeFirst(l), b, w, o, S \ {FirstLost(l)})
<1>1. /\ Laid(l.node, b, w, o) /\ Leads(l.node, b, l.head) /\ S = Numbers(l.node, b, None)
    BY DEF SndGood
<1>2. S \subseteq Window(b, w)
    BY SndEmpty
<1>3. PICK x : x = FirstLost(l)
    OBVIOUS
<1>4. /\ l.head \in DOMAIN l.node /\ x \in S /\ Pos(b, x) = F(b, l.node, l.head)
      /\ \A n \in S : F(b, l.node, l.head) =< Pos(b, n)
    BY <1>1, <1>3, FirstIs
<1>5. x \in Window(b, w)
    BY <1>2, <1>4
<1>6. SndGood(SndRemove(l, x), b, w, o, Beyond(b, S, Pos(b, x)))
    BY <1>5, SndRemoveIs
<1>7. Beyond(b, S, Pos(b, x)) = S \ {x}
    <2>1. ASSUME NEW n \in S PROVE Pos(b, n) > Pos(b, x) <=> n # x
        <3>1. b \in SeqNos /\ w \in Nat /\ w =< SeqNoTH - 1 /\ SeqNoTH \in Nat
            BY Sizes
        <3>2. PICK p \in 0 .. w - 1, q \in 0 .. w - 1 : p = Pos(b, n) /\ q = Pos(b, x) /\ q =< p
            BY <1>2, <1>4, <1>5 DEF Window
        <3>3. n \in SeqNos /\ x \in SeqNos
            BY <1>2, <1>5 DEF Window
        <3>4. p \in 0 .. SeqNoTH - 1 /\ q \in 0 .. SeqNoTH - 1
            BY <3>1, <3>2
        <3>5. n = Number(b, p) /\ x = Number(b, q)
            BY <3>1, <3>2, <3>3, <3>4, OnePlace
        <3>6. QED
            BY <3>2, <3>5
    <2>2. QED
        BY <2>1 DEF Beyond
<1>8. QED
    BY <1>3, <1>6, <1>7 DEF TakeFirst

\* An acknowledgement of the first k numbers: the sender's list gives them up.
LEMMA SndAcked ==
    ASSUME NEW b, NEW w, NEW o, Circle(b, w, o), NEW l, NEW S, SndGood(l, b, w, o, S),
           NEW k \in 1 .. w
    PROVE  \E e \in 0 .. ListSize :
               SndGood(SndRemove(l, DecSeq(Number(b, k))), Number(b, k), w - k, e, S \ From(b, k))
<1>1. /\ b \in SeqNos /\ w \in Nat /\ w =< SeqNoTH - 1 /\ SeqNoTH \in Nat
      /\ k \in 0 .. SeqNoTH - 1 /\ k \in 1 .. SeqNoTH - 1 /\ k \in 0 .. w /\ k \in 0 .. SeqNoTH
      /\ k - 1 \in 0 .. w - 1
    BY Sizes
<1>2. PICK c \in SeqNos : c = Number(b, k) /\ Pos(b, c) = k
    BY <1>1, NumberAt
<1>3. PICK x \in SeqNos : x = DecSeq(c) /\ Pos(b, x) = k - 1
    BY <1>1, <1>2, NumberBefore
<1>4. x \in Window(b, w)
    BY <1>1, <1>3 DEF Window
<1>5. PICK m, T : /\ m = SndRemove(l, x) /\ T = Beyond(b, S, k - 1)
                  /\ SndGood(m, b, w, o, T)
    BY <1>3, <1>4, SndRemoveIs
<1>6. T = S \ From(b, k)
    <2>1. From(b, k) = Window(b, k)
        BY <1>1, WindowIs
    <2>2. ASSUME NEW n \in S PROVE Pos(b, n) > k - 1 <=> n \notin Window(b, k)
        <3>1. S \subseteq Window(b, w)
            BY SndEmpty
        <3>2. PICK p \in 0 .. w - 1 : p = Pos(b, n) /\ n \in SeqNos
            BY <3>1 DEF Window
        <3>3. QED
            BY <1>1, <3>2 DEF Window
    <2>3. QED
        BY <1>5, <2>1, <2>2 DEF Beyond
<1>7. ASSUME NEW s \in DOMAIN m.node PROVE F(b, m.node, s) >= k
    <2>1. Laid(m.node, b, w, o) /\ T = Numbers(m.node, b, None)
        BY <1>5 DEF SndGood
    <2>2. /\ F(b, m.node, s) \in Int /\ L(b, m.node, s) \in Int
          /\ F(b, m.node, s) =< L(b, m.node, s) /\ s # None
          /\ m.node[s].first \in Window(b, w)
        BY <2>1, RangesAre
    <2>3. Pos(b, m.node[s].first) = F(b, m.node, s) /\ m.node[s].first \in SeqNos
        BY <2>2 DEF F, Window
    <2>4. m.node[s].first \in T
        BY <2>1, <2>2, <2>3 DEF Numbers
    <2>5. Pos(b, m.node[s].first) > k - 1
        BY <1>5, <2>4 DEF Beyond
    <2>6. QED
        BY <1>1, <2>2, <2>3, <2>5
<1>8. \E e \in 0 .. ListSize : SndGood(m, Number(b, k), w - k, e, T)
    BY <1>1, <1>5, <1>7, SndRebased
<1>9. QED
    BY <1>2, <1>3, <1>5, <1>6, <1>8

-----------------------------------------------------------------------------
(* What the links and slots being right says of the lists. *)

LEMMA GoodStandsFor ==
    ASSUME NEW b, NEW w, NEW o, Circle(b, w, o), NEW l, Laid(l.node, b, w, o),
           Linked(l.node, b), Leads(l.node, b, l.head),
           NEW S, S = Numbers(l.node, b, None), l.length = Cardinality(S)
    PROVE  StandsFor(l, S)
<1>1. PICK c : c = Chain(l) /\ InOrder(l.node, b, c)
    BY ChainIs
<1>2. ToSet(c) = DOMAIN l.node
    BY <1>1 DEF InOrder, ToSet
<1>3. b \in SeqNos /\ w \in Nat /\ w =< SeqNoTH - 1 /\ SeqNoTH \in Nat
    BY Sizes
<1>4. UNION {Between(l.node[s].first, l.node[s].last) : s \in DOMAIN l.node} = S
    <2>1. ASSUME NEW s \in DOMAIN l.node
          PROVE  /\ Between(l.node[s].first, l.node[s].last) = Span(b, F(b, l.node, s), L(b, l.node, s))
                 /\ s # None
        BY RangeIs, RangesAre
    <2>2. ASSUME NEW x \in S
          PROVE  \E s \in DOMAIN l.node : x \in Between(l.node[s].first, l.node[s].last)
        BY <2>1 DEF Numbers, Span
    <2>3. ASSUME NEW s \in DOMAIN l.node, NEW x \in Between(l.node[s].first, l.node[s].last)
          PROVE  x \in S
        BY <2>1, <2>3 DEF Numbers, Span
    <2>4. QED
        BY <2>2, <2>3
<1>5. ASSUME NEW x \in S PROVE SeqOff(FirstLost(l), x) >= 0
    <2>1. /\ l.head \in DOMAIN l.node /\ FirstLost(l) \in S
          /\ Pos(b, FirstLost(l)) = F(b, l.node, l.head) /\ F(b, l.node, l.head) =< Pos(b, x)
        BY FirstIs
    <2>2. S \subseteq Window(b, w)
        BY NumbersFinite
    <2>3. PICK p \in 0 .. w - 1, q \in 0 .. w - 1 : p = Pos(b, FirstLost(l)) /\ q = Pos(b, x) /\ p =< q
        BY <2>1, <2>2 DEF Window
    <2>4. FirstLost(l) \in Window(b, SeqNoTH) /\ x \in Window(b, SeqNoTH)
        BY <1>3, <2>1, <2>2 DEF Window
    <2>5. SeqOff(FirstLost(l), x) = q - p
        BY <1>3, <2>3, <2>4, Compared
    <2>6. QED
        BY <2>3, <2>5
<1>6. QED
    BY <1>1, <1>2, <1>4, <1>5 DEF StandsFor

LEMMA GoodInPlace ==
    ASSUME NEW b, NEW w, NEW o, Circle(b, w, o), NEW l, Laid(l.node, b, w, o),
           Apart(l.node, b, None), Linked(l.node, b), Leads(l.node, b, l.head)
    PROVE  InPlace(l)
<1>1. PICK c : c = Chain(l) /\ InOrder(l.node, b, c)
    BY ChainIs
<1>2. /\ c \in Seq(DOMAIN l.node) /\ Len(c) \in Nat /\ DOMAIN c = 1 .. Len(c)
      /\ \A i \in 1 .. Len(c) : c[i] \in DOMAIN l.node
    BY <1>1 DEF InOrder
<1>3. ToSet(c) = DOMAIN l.node
    BY <1>1 DEF InOrder, ToSet
<1>4. b \in SeqNos
    BY Sizes
<1>5. ASSUME NEW i \in DOMAIN c PROVE c[i] = SlotOf(l, l.node[c[i]].first)
    <2>1. PICK s \in DOMAIN l.node : s = c[i]
        BY <1>2
    <2>2. l.head \in DOMAIN l.node
        BY DEF Leads
    <2>3. l.node[s].first \in Window(b, w) /\ s = At(o, F(b, l.node, s))
        BY RangesAre
    <2>4. SlotOf(l, l.node[s].first) = At(o, Pos(b, l.node[s].first))
        BY <2>2, <2>3, SlotOfIs
    <2>5. QED
        BY <2>1, <2>3, <2>4 DEF F
<1>6. ASSUME NEW i \in 1 .. Len(c) - 1 PROVE SeqCmp(l.node[c[i]].last, l.node[c[i + 1]].first) < 0
    <2>1. i \in 1 .. Len(c) /\ i + 1 \in 1 .. Len(c) /\ i < i + 1
        BY <1>2
    <2>2. PICK s \in DOMAIN l.node, t \in DOMAIN l.node : s = c[i] /\ t = c[i + 1]
        BY <1>2, <2>1
    <2>3. F(b, l.node, s) < F(b, l.node, t)
        BY <1>1, <2>1, <2>2 DEF InOrder
    <2>4. L(b, l.node, s) < F(b, l.node, t)
        <3>1. s # None
            BY RangesAre
        <3>2. QED
            BY <2>3, <3>1 DEF Apart
    <2>5. l.node[s].last \in Window(b, SeqNoTH) /\ l.node[t].first \in Window(b, SeqNoTH)
        BY RangesAre
    <2>6. SeqCmp(l.node[s].last, l.node[t].first) < 0
            <=> Pos(b, l.node[s].last) < Pos(b, l.node[t].first)
        BY <1>4, <2>5, Compared
    <2>7. QED
        BY <2>2, <2>4, <2>6 DEF F, L
<1>7. QED
    BY <1>1, <1>3, <1>5, <1>6 DEF InPlace

LEMMA GoodBothWays ==
    ASSUME NEW b, NEW w, NEW o, Circle(b, w, o), NEW S, RcvShape(rcv, b, w, o, S)
    PROVE  LinkedBothWays
<1>1. /\ Laid(rcv.node, b, w, o) /\ Linked(rcv.node, b) /\ Leads(rcv.node, b, rcv.head)
      /\ Paired(rcv.node, rcv.head) /\ Ends(rcv.node, rcv.tail)
    BY DEF RcvShape
<1>2. PICK c : c = Chain(rcv) /\ InOrder(rcv.node, b, c)
    BY <1>1, ChainIs
<1>3. /\ c \in Seq(DOMAIN rcv.node) /\ Len(c) \in Nat /\ DOMAIN c = 1 .. Len(c)
      /\ \A i \in 1 .. Len(c) : c[i] \in DOMAIN rcv.node
    BY <1>2 DEF InOrder
<1>4. DOMAIN rcv.node # {} => IsChain(rcv.node, b, c, rcv.head)
    BY <1>1, <1>2, ChainIs
<1>5. \A s \in DOMAIN rcv.node : F(b, rcv.node, s) \in Int
    BY <1>1, RangesAre
<1>6. ASSUME c # <<>> PROVE rcv.tail = c[Len(c)]
    <2>1. Len(c) \in 1 .. Len(c)
        BY <1>3, <1>6
    <2>2. PICK s \in DOMAIN rcv.node : s = c[Len(c)]
        BY <1>3, <2>1
    <2>3. rcv.node[s].next = None
        BY <1>4, <2>2 DEF IsChain
    <2>4. rcv.tail \in DOMAIN rcv.node /\ rcv.node[rcv.tail].next = None
        BY <1>1 DEF Ends
    <2>5. Follows(rcv.node, b, s, None) /\ Follows(rcv.node, b, rcv.tail, None)
        BY <1>1, <2>3, <2>4 DEF Linked
    <2>6. F(b, rcv.node, s) = F(b, rcv.node, rcv.tail)
        BY <1>5, <2>4, <2>5 DEF Follows
    <2>7. QED
        BY <1>1, <2>2, <2>4, <2>6, OneSlot
<1>7. ASSUME NEW i \in DOMAIN c
      PROVE  rcv.node[c[i]].prior = IF i = 1 THEN None ELSE c[i - 1]
    <2>1. PICK s \in DOMAIN rcv.node : s = c[i]
        BY <1>3
    <2>2. IsChain(rcv.node, b, c, rcv.head)
        BY <1>4
    <2>3. c[1] = rcv.head
        BY <2>2 DEF IsChain
    <2>4. CASE i = 1
        BY <1>1, <2>1, <2>3, <2>4 DEF Paired
    <2>5. CASE i # 1
        <3>1. i - 1 \in 1 .. Len(c) - 1 /\ i - 1 \in 1 .. Len(c) /\ 1 \in 1 .. Len(c) /\ 1 < i
              /\ (i - 1) + 1 = i
            BY <1>3, <2>5
        <3>2. PICK t \in DOMAIN rcv.node : t = c[i - 1]
            BY <1>3, <3>1
        <3>3. rcv.node[t].next = s
            BY <2>1, <2>2, <3>1, <3>2 DEF IsChain
        <3>4. s # rcv.head
            <4>1. F(b, rcv.node, c[1]) < F(b, rcv.node, c[i])
                BY <1>2, <1>3, <3>1 DEF InOrder
            <4>2. QED
                BY <1>5, <2>1, <2>3, <4>1
        <3>5. rcv.node[s].prior \in DOMAIN rcv.node /\ rcv.node[rcv.node[s].prior].next = s
            BY <1>1, <3>4 DEF Paired
        <3>6. s # None
            BY <1>1, RangesAre
        <3>7. rcv.node[s].prior = t
            BY <1>1, <3>3, <3>5, <3>6, OnePrior
        <3>8. QED
            BY <2>1, <2>5, <3>2, <3>7
    <2>6. QED
        BY <2>4, <2>5
<1>8. QED
    BY <1>2, <1>6, <1>7 DEF LinkedBothWays

-----------------------------------------------------------------------------
(* The invariant: each list is right for its set, in the window as it is. *)

SndRight == \E o \in 0 .. ListSize : SndGood(snd, lo, width, o, resend)

\* The receiver's list may hold the largest number when a drop request has missed it.
Listed(T) ==
    /\ missing \subseteq T /\ T \ missing \subseteq {MaxSeqNo}
    /\ DropsAcross \/ T = missing

RcvRight == \E T : Listed(T) /\ \E o \in 0 .. ListSize : RcvGood(rcv, lo, width, o, T)

WindowRight == lo \in SeqNos /\ width \in 0 .. WindowLimit /\ hi = Number(lo, width)

ListsRight == WindowRight /\ SndRight /\ RcvRight

\* The window as the code computes it.
LEMMA WindowSizes ==
    ASSUME WindowRight
    PROVE  /\ lo \in SeqNos /\ hi \in SeqNos /\ width \in 0 .. SeqNoTH - 1 /\ width \in Nat
           /\ SeqNoTH \in Nat /\ SeqNoTH > 0 /\ Pos(lo, hi) = width /\ Pos(lo, lo) = 0
           /\ hi \in Window(lo, SeqNoTH) /\ Unacked = Window(lo, width)
           /\ \A o \in 0 .. ListSize : Circle(lo, width, o)
           /\ width =< WindowLimit /\ WindowLimit =< SeqNoTH - 1 /\ WindowLimit \in Nat
<1>1. /\ lo \in SeqNos /\ width \in 0 .. SeqNoTH - 1 /\ hi = Number(lo, width)
      /\ width \in 0 .. WindowLimit /\ WindowLimit \in Nat /\ WindowLimit =< SeqNoTH - 1
    BY SeqNoAssumption, ListAssumption DEF WindowRight
<1>2. SeqNoTH \in Nat /\ SeqNoTH > 0 /\ width \in Nat /\ width \in 0 .. SeqNoTH
    BY <1>1, SeqNoAssumption
<1>3. hi \in SeqNos /\ Pos(lo, hi) = width
    BY <1>1, NumberAt
<1>4. hi \in Window(lo, SeqNoTH)
    BY <1>1, <1>2, <1>3 DEF Window
<1>5. Unacked = Window(lo, width)
    BY <1>1, <1>2, WindowIs DEF Unacked
<1>6. Pos(lo, lo) = 0
    BY <1>1, SeqNoAssumption DEF Pos, SeqOff, Abs, SeqNos
<1>7. \A o \in 0 .. ListSize : Circle(lo, width, o)
    BY <1>1 DEF Circle
<1>8. QED
    BY <1>1, <1>2, <1>3, <1>4, <1>5, <1>6, <1>7

\* Two numbers that are not acknowledged, in their order.
LEMMA InWindow ==
    ASSUME WindowRight, NEW x \in Unacked, NEW y \in Unacked, SeqOff(x, y) >= 0
    PROVE  Forwards(lo, width, x, y)
<1>1. /\ lo \in SeqNos /\ width \in Nat /\ width =< SeqNoTH - 1 /\ SeqNoTH \in Nat
      /\ Unacked = Window(lo, width)
    BY WindowSizes
<1>2. PICK p \in 0 .. width - 1, q \in 0 .. width - 1 : p = Pos(lo, x) /\ q = Pos(lo, y)
    BY <1>1 DEF Window
<1>3. x \in Window(lo, SeqNoTH) /\ y \in Window(lo, SeqNoTH)
    BY <1>1 DEF Window
<1>4. SeqOff(x, y) = q - p
    BY <1>1, <1>2, <1>3, Compared
<1>5. QED
    BY <1>1, <1>2, <1>4 DEF Forwards

LEMMA RightAtFirst == ASSUME ListInit PROVE ListsRight
<1>1. lo \in SeqNos /\ hi = lo /\ width = 0
    BY DEF ListInit, Init
<1>2. SeqNoTH \in Nat /\ SeqNoTH > 0 /\ ListSize \in Nat
    BY SeqNoAssumption, ListAssumption
<1>3. WindowRight
    BY <1>1, SeqNoAssumption, ListAssumption DEF WindowRight, Number, IncSeqBy, SeqNos
<1>4. \A node, c : DOMAIN node = {} => Numbers(node, lo, c) = {}
    BY DEF Numbers
<1>5. Cardinality({}) = 0
    BY FS_EmptySet
<1>6. 0 \in 0 .. ListSize
    BY <1>2
<1>7. SndRight
    <2>1. PICK l : l = snd /\ l = EmptySnd /\ resend = {}
        BY DEF ListInit
    <2>2. /\ l = [node |-> <<>>, head |-> None, length |-> 0, hint |-> None]
          /\ DOMAIN <<>> = {}
        BY <2>1 DEF EmptySnd
    <2>3. /\ DOMAIN l.node = {} /\ l.node = <<>> /\ l.head = None /\ l.length = 0 /\ l.hint = None
        BY <2>2
    <2>4. l = [node |-> l.node, head |-> l.head, length |-> l.length, hint |-> l.hint]
        BY <2>2, <2>3
    <2>5. IsSnd(l)
        BY <2>3, <2>4 DEF IsSnd
    <2>6. l.node = [s \in DOMAIN l.node |-> l.node[s]]
        BY <2>3
    <2>7. Laid(l.node, lo, width, 0)
        BY <2>3, <2>6 DEF Laid
    <2>8. Apart(l.node, lo, None) /\ Linked(l.node, lo) /\ Leads(l.node, lo, l.head)
        BY <2>3 DEF Apart, Linked, Leads
    <2>9. SndGood(l, lo, width, 0, {})
        BY <1>4, <1>5, <2>3, <2>5, <2>7, <2>8 DEF SndGood
    <2>10. QED
        BY <1>6, <2>1, <2>9 DEF SndRight
<1>8. RcvRight
    <2>1. PICK l : l = rcv /\ l = EmptyRcv /\ missing = {}
        BY DEF ListInit
    <2>2. /\ l = [node |-> <<>>, head |-> None, tail |-> None, length |-> 0]
          /\ DOMAIN <<>> = {}
        BY <2>1 DEF EmptyRcv
    <2>3. /\ DOMAIN l.node = {} /\ l.node = <<>> /\ l.head = None /\ l.length = 0 /\ l.tail = None
        BY <2>2
    <2>4. l = [node |-> l.node, head |-> l.head, tail |-> l.tail, length |-> l.length]
        BY <2>2, <2>3
    <2>5. l.node = [s \in DOMAIN l.node |-> l.node[s]]
        BY <2>3
    <2>6. IsRcv(l)
        BY <2>3, <2>4, <2>5 DEF IsRcv
    <2>7. Laid(l.node, lo, width, 0)
        BY <2>3, <2>5 DEF Laid
    <2>8. Apart(l.node, lo, None) /\ Linked(l.node, lo) /\ Leads(l.node, lo, l.head)
        BY <2>3 DEF Apart, Linked, Leads
    <2>9. Paired(l.node, l.head) /\ Ends(l.node, l.tail)
        BY <2>3 DEF Paired, Ends
    <2>10. RcvShape(l, lo, width, 0, {})
        <3>1. {} = Numbers(l.node, lo, None)
            BY <1>4, <2>3
        <3>2. QED
            BY <2>6, <2>7, <2>8, <2>9, <3>1 DEF RcvShape
    <2>11. RcvGood(l, lo, width, 0, {})
        BY <1>5, <2>3, <2>10 DEF RcvGood
    <2>12. Listed({})
        BY <2>1 DEF Listed
    <2>13. QED
        BY <1>6, <2>1, <2>11, <2>12 DEF RcvRight
<1>9. QED
    BY <1>3, <1>7, <1>8 DEF ListsRight

LEMMA ArriveKeeps == ASSUME ListsRight, Arrive PROVE ListsRight'
<1>1. /\ lo \in SeqNos /\ hi \in SeqNos /\ width \in 0 .. SeqNoTH - 1 /\ width \in Nat
      /\ SeqNoTH \in Nat /\ Pos(lo, hi) = width /\ hi \in Window(lo, SeqNoTH)
      /\ width =< WindowLimit /\ WindowLimit =< SeqNoTH - 1 /\ WindowLimit \in Nat
    BY WindowSizes DEF ListsRight
<1>2. PICK k \in 0 .. WindowLimit - 1 - width :
          /\ hi' = IncSeqBy(hi, k + 1)
          /\ width' = width + k + 1
          /\ rcv' = IF k = 0 THEN rcv ELSE RcvInsert(rcv, hi, IncSeqBy(hi, k - 1))
          /\ missing' = missing \cup From(hi, k)
          /\ lo' = lo /\ snd' = snd /\ resend' = resend
    BY DEF Arrive
<1>3. PICK v \in 0 .. WindowLimit : v = width + k + 1 /\ width =< v
    BY <1>1, <1>2
<1>4. WindowRight'
    <2>1. k + 1 \in Nat /\ Pos(lo, hi) + (k + 1) =< SeqNoTH - 1 /\ Pos(lo, hi) + (k + 1) = v
        BY <1>1, <1>2, <1>3
    <2>2. IncSeqBy(hi, k + 1) \in SeqNos /\ Pos(lo, IncSeqBy(hi, k + 1)) = Pos(lo, hi) + (k + 1)
        BY <1>1, <2>1, Jump
    <2>3. Pos(lo, IncSeqBy(hi, k + 1)) = v
        BY <2>1, <2>2
    <2>4. IncSeqBy(hi, k + 1) = Number(lo, v)
        BY <1>1, <2>2, <2>3, OnePlace
    <2>5. QED
        BY <1>1, <1>2, <1>3, <2>4 DEF WindowRight
<1>5. SndRight'
    <2>1. PICK o \in 0 .. ListSize : SndGood(snd, lo, width, o, resend)
        BY DEF ListsRight, SndRight
    <2>2. Circle(lo, width, o) /\ Laid(snd.node, lo, width, o)
        BY <1>1, <2>1 DEF Circle, SndGood
    <2>3. Laid(snd.node, lo, v, o)
        BY <1>3, <2>2, Wider
    <2>4. SndGood(snd, lo, v, o, resend)
        BY <2>1, <2>3 DEF SndGood
    <2>5. QED
        BY <1>2, <1>3, <2>4 DEF SndRight
<1>6. RcvRight'
    <2>0. PICK T : Listed(T) /\ \E o \in 0 .. ListSize : RcvGood(rcv, lo, width, o, T)
        BY DEF ListsRight, RcvRight
    <2>1. PICK o \in 0 .. ListSize : RcvGood(rcv, lo, width, o, T)
        BY <2>0
    <2>a. PICK D : D = From(hi, k)
        OBVIOUS
    <2>b. Listed(T \cup D)'
        BY <1>2, <2>0, <2>a DEF Listed
    <2>2. Circle(lo, width, o) /\ Laid(rcv.node, lo, width, o)
        BY <1>1, <2>1 DEF Circle, RcvGood, RcvShape
    <2>3. Laid(rcv.node, lo, v, o) /\ Circle(lo, v, o)
        BY <1>3, <2>2, Wider
    <2>4. RcvShape(rcv, lo, v, o, T)
        BY <2>1, <2>3 DEF RcvGood, RcvShape
    <2>5. RcvGood(rcv, lo, v, o, T)
        BY <2>1, <2>4 DEF RcvGood
    <2>6. CASE k = 0
        <3>1. From(hi, k) = {}
            BY <2>6 DEF From
        <3>2. QED
            BY <1>2, <1>3, <2>5, <2>6, <2>a, <2>b, <3>1 DEF RcvRight
    <2>7. CASE k # 0
        <3>1. /\ k - 1 \in Nat /\ Pos(lo, hi) + (k - 1) =< SeqNoTH - 1 /\ k \in Nat
              /\ Pos(lo, hi) + k =< SeqNoTH
            BY <1>1, <1>2, <2>7
        <3>2. PICK y \in SeqNos : /\ y = IncSeqBy(hi, k - 1)
                                  /\ Pos(lo, y) = Pos(lo, hi) + (k - 1)
            BY <1>1, <3>1, Jump
        <3>3. Pos(lo, y) = width + k - 1
            BY <1>1, <1>2, <3>2
        <3>4. hi \in Window(lo, v) /\ y \in Window(lo, v) /\ Pos(lo, hi) =< Pos(lo, y)
            BY <1>1, <1>2, <1>3, <2>7, <3>2, <3>3 DEF Window
        <3>5. \A n \in T : Pos(lo, n) < Pos(lo, hi)
            <4>1. T \subseteq Window(lo, width)
                BY <2>1, <2>2, RcvEmpty
            <4>2. QED
                BY <1>1, <4>1 DEF Window
        <3>6. \E e \in 0 .. ListSize :
                  RcvGood(RcvInsert(rcv, hi, y), lo, v, e, T \cup Between(hi, y))
            BY <2>3, <2>5, <3>4, <3>5, RcvInsertIs
        <3>7. Between(hi, y) = From(hi, k)
            <4>1. From(hi, k) = Span(lo, Pos(lo, hi), Pos(lo, hi) + k - 1)
                BY <1>1, <3>1, FromIs
            <4>2. y \in Window(lo, SeqNoTH)
                <5>1. width + k - 1 \in 0 .. SeqNoTH - 1
                    BY <1>1, <1>2, <2>7
                <5>2. QED
                    BY <3>2, <3>3, <5>1 DEF Window
            <4>3. Between(hi, y) = Span(lo, Pos(lo, hi), Pos(lo, y))
                BY <1>1, <3>4, <4>2, BetweenIs
            <4>4. QED
                BY <1>1, <3>3, <4>1, <4>3
        <3>8. QED
            BY <1>2, <1>3, <2>7, <2>a, <2>b, <3>2, <3>6, <3>7 DEF RcvRight
    <2>8. QED
        BY <2>6, <2>7
<1>7. QED
    BY <1>4, <1>5, <1>6 DEF ListsRight

LEMMA ArriveLateKeeps == ASSUME ListsRight, ArriveLate PROVE ListsRight'
<1>1. PICK x \in Unacked : rcv' = RcvRemove(rcv, x) /\ missing' = missing \ {x}
    BY DEF ArriveLate
<1>2. lo' = lo /\ hi' = hi /\ width' = width /\ snd' = snd /\ resend' = resend
    BY DEF ArriveLate, vars
<1>3. x \in Window(lo, width) /\ \A o \in 0 .. ListSize : Circle(lo, width, o)
    BY WindowSizes DEF ListsRight
<1>4. PICK T : Listed(T) /\ \E o \in 0 .. ListSize : RcvGood(rcv, lo, width, o, T)
    BY DEF ListsRight, RcvRight
<1>5. \E o \in 0 .. ListSize : RcvGood(RcvRemove(rcv, x), lo, width, o, T \ {x})
    BY <1>3, <1>4, RcvRemoveIs
<1>a. Listed(T \ {x})'
    BY <1>1, <1>4 DEF Listed
<1>6. RcvRight'
    BY <1>1, <1>2, <1>5, <1>a DEF RcvRight
<1>7. WindowRight' /\ SndRight'
    BY <1>2 DEF ListsRight, WindowRight, SndRight
<1>8. QED
    BY <1>6, <1>7 DEF ListsRight

LEMMA RecvReportKeeps == ASSUME ListsRight, RecvReport PROVE ListsRight'
<1>1. PICK x \in Unacked, y \in Unacked : /\ SeqOff(x, y) >= 0
                                          /\ snd' = SndInsert(snd, x, y)
                                          /\ resend' = resend \cup Between(x, y)
    BY DEF RecvReport
<1>2. lo' = lo /\ hi' = hi /\ width' = width /\ rcv' = rcv /\ missing' = missing
    BY DEF RecvReport, vars
<1>3. Forwards(lo, width, x, y)
    BY <1>1, InWindow DEF ListsRight
<1>4. \A o \in 0 .. ListSize : Circle(lo, width, o)
    BY WindowSizes DEF ListsRight
<1>5. PICK o \in 0 .. ListSize : SndGood(snd, lo, width, o, resend)
    BY DEF ListsRight, SndRight
<1>6. x \in Window(lo, width) /\ y \in Window(lo, width) /\ Pos(lo, x) =< Pos(lo, y)
    BY <1>3 DEF Forwards
<1>7. \E k \in 0 .. ListSize :
          SndGood(SndInsert(snd, x, y), lo, width, k, resend \cup Between(x, y))
    BY <1>4, <1>5, <1>6, SndInsertIs
<1>8. SndRight'
    BY <1>1, <1>2, <1>7 DEF SndRight
<1>9. WindowRight' /\ RcvRight'
    BY <1>2 DEF ListsRight, WindowRight, RcvRight, Listed
<1>10. QED
    BY <1>8, <1>9 DEF ListsRight

LEMMA ResendKeeps == ASSUME ListsRight, Resend PROVE ListsRight'
<1>1. snd.length > 0 /\ snd' = TakeFirst(snd) /\ resend' = resend \ {FirstLost(snd)}
    BY DEF Resend
<1>2. lo' = lo /\ hi' = hi /\ width' = width /\ rcv' = rcv /\ missing' = missing
    BY DEF Resend, vars
<1>3. \A o \in 0 .. ListSize : Circle(lo, width, o)
    BY WindowSizes DEF ListsRight
<1>4. PICK o \in 0 .. ListSize : SndGood(snd, lo, width, o, resend)
    BY DEF ListsRight, SndRight
<1>5. resend # {}
    <2>1. snd.length = 0 <=> resend = {}
        BY <1>3, <1>4, SndEmpty
    <2>2. QED
        BY <1>1, <2>1
<1>6. SndGood(TakeFirst(snd), lo, width, o, resend \ {FirstLost(snd)})
    BY <1>3, <1>4, <1>5, SndTakeFirst
<1>7. SndRight'
    BY <1>1, <1>2, <1>6 DEF SndRight
<1>8. WindowRight' /\ RcvRight'
    BY <1>2 DEF ListsRight, WindowRight, RcvRight, Listed
<1>9. QED
    BY <1>7, <1>8 DEF ListsRight

LEMMA RecvDropRequestKeeps == ASSUME ListsRight, RecvDropRequest PROVE ListsRight'
<1>1. PICK x \in Unacked, y \in Unacked :
          /\ SeqOff(x, y) >= 0 /\ (DropsAcross \/ x =< y)
          /\ rcv' = RcvRemoveRange(rcv, x, y)
          /\ missing' = missing \ Between(x, y)
    BY DEF RecvDropRequest
<1>2. lo' = lo /\ hi' = hi /\ width' = width /\ snd' = snd /\ resend' = resend
    BY DEF RecvDropRequest, vars
<1>3. Forwards(lo, width, x, y)
    BY <1>1, InWindow DEF ListsRight
<1>4. \A o \in 0 .. ListSize : Circle(lo, width, o)
    BY WindowSizes DEF ListsRight
<1>5. PICK T : Listed(T) /\ \E o \in 0 .. ListSize : RcvGood(rcv, lo, width, o, T)
    BY DEF ListsRight, RcvRight
<1>6. x \in Window(lo, width) /\ y \in Window(lo, width) /\ Pos(lo, x) =< Pos(lo, y)
    BY <1>3 DEF Forwards
<1> DEFINE R == T \ (Between(x, y) \ Overlooked(x, y))
<1>7. \E o \in 0 .. ListSize : RcvGood(RcvRemoveRange(rcv, x, y), lo, width, o, R)
    BY <1>4, <1>5, <1>6, RcvRemoveRangeIs
<1>8. Listed(R)'
    <2>1. Overlooked(x, y) \subseteq {MaxSeqNo}
        BY DEF Overlooked
    <2>2. missing' \subseteq R /\ R \ missing' \subseteq {MaxSeqNo}
        BY <1>1, <1>5, <2>1 DEF Listed
    <2>3. DropsAcross \/ R = missing'
        <3>1. SUFFICES ASSUME ~DropsAcross PROVE R = missing'
            OBVIOUS
        <3>2. x \in SeqNos /\ y \in SeqNos /\ x =< y
            BY <1>1, <1>6, <3>1 DEF Window
        <3>3. Overlooked(x, y) = {}
            BY <3>2 DEF Overlooked, SeqNos
        <3>4. QED
            BY <1>1, <1>5, <3>1, <3>3 DEF Listed
    <2>4. QED
        BY <2>2, <2>3 DEF Listed
<1> HIDE DEF R
<1>9. RcvRight'
    BY <1>1, <1>2, <1>7, <1>8 DEF RcvRight
<1>10. WindowRight' /\ SndRight'
    BY <1>2 DEF ListsRight, WindowRight, SndRight
<1>11. QED
    BY <1>9, <1>10 DEF ListsRight

\* What an acknowledgement says: everything before it has arrived.
LEMMA AckIs ==
    ASSUME ListsRight, NEW ack, ack = (IF rcv.length = 0 THEN hi ELSE FirstLost(rcv)), ack # lo
    PROVE  \E k \in 1 .. width : /\ ack = Number(lo, k) /\ Pos(lo, ack) = k /\ ack \in SeqNos
                                 /\ \A s \in DOMAIN rcv.node : F(lo, rcv.node, s) >= k
<1>1. /\ lo \in SeqNos /\ hi \in SeqNos /\ width \in 0 .. SeqNoTH - 1 /\ width \in Nat
      /\ SeqNoTH \in Nat /\ SeqNoTH > 0 /\ Pos(lo, hi) = width /\ Pos(lo, lo) = 0
      /\ hi = Number(lo, width)
      /\ \A o \in 0 .. ListSize : Circle(lo, width, o)
    BY WindowSizes DEF ListsRight, WindowRight
<1>2. 0 \in 0 .. SeqNoTH - 1
    BY <1>1
<1>3. lo = Number(lo, 0)
    BY <1>1, <1>2, OnePlace
<1>0. PICK T : \E o \in 0 .. ListSize : RcvGood(rcv, lo, width, o, T)
    BY DEF ListsRight, RcvRight
<1>4. PICK o \in 0 .. ListSize : RcvGood(rcv, lo, width, o, T)
    BY <1>0
<1>5. /\ rcv.length = 0 <=> T = {}
      /\ T = {} <=> DOMAIN rcv.node = {}
      /\ T \subseteq Window(lo, width)
    BY <1>1, <1>4, RcvEmpty
<1>6. CASE rcv.length = 0
    <2>1. width # 0
        BY <1>1, <1>3, <1>6
    <2>2. width \in 1 .. width
        BY <1>1, <2>1
    <2>3. DOMAIN rcv.node = {} /\ ack = hi
        BY <1>5, <1>6
    <2>4. QED
        BY <1>1, <2>2, <2>3
<1>7. CASE rcv.length # 0
    <2>1. /\ Laid(rcv.node, lo, width, o) /\ Leads(rcv.node, lo, rcv.head)
          /\ T = Numbers(rcv.node, lo, None) /\ T # {}
        BY <1>4, <1>5, <1>7 DEF RcvGood, RcvShape
    <2>2. /\ rcv.head \in DOMAIN rcv.node /\ ack \in T
          /\ Pos(lo, ack) = F(lo, rcv.node, rcv.head)
        BY <1>1, <1>7, <2>1, FirstIs
    <2>3. PICK k \in 0 .. width - 1 : k = Pos(lo, ack) /\ ack \in SeqNos
        BY <1>5, <2>2 DEF Window
    <2>4. k \in 0 .. SeqNoTH - 1
        BY <1>1
    <2>5. ack = Number(lo, k)
        BY <1>1, <2>3, <2>4, OnePlace
    <2>6. k # 0
        BY <1>3, <2>5
    <2>7. k \in 1 .. width
        BY <1>1, <2>6
    <2>8. \A s \in DOMAIN rcv.node : F(lo, rcv.node, rcv.head) =< F(lo, rcv.node, s)
        BY <2>1, <2>2 DEF Leads
    <2>9. \A s \in DOMAIN rcv.node : F(lo, rcv.node, s) \in Int
        BY <1>1, <2>1, RangesAre
    <2>10. \A s \in DOMAIN rcv.node : F(lo, rcv.node, s) >= k
        BY <2>2, <2>3, <2>8, <2>9
    <2>11. QED
        BY <2>3, <2>5, <2>7, <2>10
<1>8. QED
    BY <1>6, <1>7

LEMMA AckKeeps == ASSUME ListsRight, Ack PROVE ListsRight'
<1>1. PICK ack : ack = IF rcv.length = 0 THEN hi ELSE FirstLost(rcv)
    OBVIOUS
<1>2. /\ ack # lo /\ lo' = ack /\ width' = SeqOff(ack, hi)
      /\ snd' = SndRemove(snd, DecSeq(ack))
      /\ resend' = resend \ From(lo, SeqOff(lo, ack))
      /\ hi' = hi /\ rcv' = rcv /\ missing' = missing
    BY <1>1 DEF Ack
<1>3. PICK k \in 1 .. width : /\ ack = Number(lo, k) /\ Pos(lo, ack) = k /\ ack \in SeqNos
                              /\ \A s \in DOMAIN rcv.node : F(lo, rcv.node, s) >= k
    BY <1>1, <1>2, AckIs
<1>4. /\ lo \in SeqNos /\ hi \in SeqNos /\ width \in 0 .. SeqNoTH - 1 /\ width \in Nat
      /\ SeqNoTH \in Nat /\ Pos(lo, hi) = width /\ hi = Number(lo, width)
      /\ hi \in Window(lo, SeqNoTH)
      /\ \A o \in 0 .. ListSize : Circle(lo, width, o)
      /\ width =< WindowLimit /\ WindowLimit \in Nat
    BY WindowSizes DEF ListsRight, WindowRight
<1>5. /\ k \in 0 .. width /\ width - k \in 0 .. SeqNoTH - 1 /\ width - k \in Nat
      /\ width - k \in 0 .. WindowLimit
    BY <1>4
<1>6. ack \in Window(lo, SeqNoTH)
    BY <1>3, <1>4 DEF Window
<1>7. width' = width - k
    BY <1>2, <1>3, <1>4, <1>6, Compared
<1>8. hi = Number(ack, width - k)
    <2>1. Pos(lo, ack) + (width - k) =< SeqNoTH - 1 /\ Pos(lo, ack) + (width - k) = width
        BY <1>3, <1>4
    <2>2. /\ IncSeqBy(ack, width - k) \in SeqNos
          /\ Pos(lo, IncSeqBy(ack, width - k)) = Pos(lo, ack) + (width - k)
        BY <1>4, <1>5, <1>6, <2>1, Jump
    <2>3. Pos(lo, IncSeqBy(ack, width - k)) = width
        BY <2>1, <2>2
    <2>4. IncSeqBy(ack, width - k) = Number(lo, width)
        BY <1>4, <2>2, <2>3, OnePlace
    <2>5. QED
        BY <1>4, <2>4 DEF Number
<1>9. WindowRight'
    BY <1>2, <1>3, <1>5, <1>7, <1>8 DEF WindowRight
<1>10. SndRight'
    <2>1. PICK o \in 0 .. ListSize : SndGood(snd, lo, width, o, resend)
        BY DEF ListsRight, SndRight
    <2>2. \E e \in 0 .. ListSize : SndGood(SndRemove(snd, DecSeq(Number(lo, k))), Number(lo, k),
                                           width - k, e, resend \ From(lo, k))
        BY <1>4, <2>1, SndAcked
    <2>3. SeqOff(lo, ack) = k
        BY <1>3 DEF Pos
    <2>4. QED
        BY <1>2, <1>3, <1>7, <2>2, <2>3 DEF SndRight
<1>11. RcvRight'
    <2>1. PICK T : Listed(T) /\ \E o \in 0 .. ListSize : RcvGood(rcv, lo, width, o, T)
        BY DEF ListsRight, RcvRight
    <2>2. \E e \in 0 .. ListSize : RcvGood(rcv, Number(lo, k), width - k, e, T)
        BY <1>3, <1>4, <1>5, <2>1, RcvRebased
    <2>3. Listed(T)'
        BY <1>2, <2>1 DEF Listed
    <2>4. QED
        BY <1>2, <1>3, <1>7, <2>2, <2>3 DEF RcvRight
<1>12. QED
    BY <1>9, <1>10, <1>11 DEF ListsRight

\* The lists are right in every state.
THEOREM ListsStayRight == ListSpec => []ListsRight
<1>1. ListInit => ListsRight
    BY RightAtFirst
<1>2. ListsRight /\ [ListNext]_listVars => ListsRight'
    <2> SUFFICES ASSUME ListsRight, [ListNext]_listVars PROVE ListsRight'
        OBVIOUS
    <2>1. CASE Arrive
        BY <2>1, ArriveKeeps
    <2>2. CASE ArriveLate
        BY <2>2, ArriveLateKeeps
    <2>3. CASE RecvReport
        BY <2>3, RecvReportKeeps
    <2>4. CASE Resend
        BY <2>4, ResendKeeps
    <2>5. CASE Ack
        BY <2>5, AckKeeps
    <2>6. CASE RecvDropRequest
        BY <2>6, RecvDropRequestKeeps
    <2>7. CASE UNCHANGED listVars
        BY <2>7 DEF listVars, ListsRight, WindowRight, SndRight, RcvRight, Listed
    <2>8. QED
        BY <2>1, <2>2, <2>3, <2>4, <2>5, <2>6, <2>7 DEF ListNext
<1>3. QED
    BY <1>1, <1>2, PTL DEF ListSpec

\* Nothing is listed that is acknowledged, and every link is a slot of the array: the lists
\* never reach beyond their arrays, wherever the window lies.
THEOREM ListTypes == ListSpec => []ListTypeOK
<1>1. ListsRight => ListTypeOK
    <2> SUFFICES ASSUME ListsRight PROVE ListTypeOK
        OBVIOUS
    <2>1. /\ lo \in SeqNos /\ hi \in SeqNos /\ width \in 0 .. SeqNoTH - 1
          /\ Unacked = Window(lo, width) /\ \A o \in 0 .. ListSize : Circle(lo, width, o)
        BY WindowSizes DEF ListsRight
    <2>2. PICK o \in 0 .. ListSize : SndGood(snd, lo, width, o, resend)
        BY DEF ListsRight, SndRight
    <2>0. PICK T : Listed(T) /\ \E e \in 0 .. ListSize : RcvGood(rcv, lo, width, e, T)
        BY DEF ListsRight, RcvRight
    <2>3. PICK e \in 0 .. ListSize : RcvGood(rcv, lo, width, e, T)
        BY <2>0
    <2>4. resend \subseteq Unacked
        BY <2>1, <2>2, SndEmpty
    <2>5. missing \subseteq Unacked
        <3>1. T \subseteq Unacked
            BY <2>1, <2>3, RcvEmpty
        <3>2. QED
            BY <2>0, <3>1 DEF Listed
    <2>6. /\ IsSnd(snd) /\ Laid(snd.node, lo, width, o) /\ Leads(snd.node, lo, snd.head)
        BY <2>2 DEF SndGood
    <2>7. /\ Laid(rcv.node, lo, width, e) /\ Leads(rcv.node, lo, rcv.head)
          /\ Ends(rcv.node, rcv.tail)
        BY <2>3 DEF RcvGood, RcvShape
    <2>8. DOMAIN snd.node \subseteq Slots
        BY <2>1, <2>6, RangesAre
    <2>9. DOMAIN rcv.node \subseteq Slots
        BY <2>1, <2>7, RangesAre
    <2>10. {snd.head, snd.hint} \subseteq DOMAIN snd.node \cup {None}
        BY <2>6 DEF IsSnd, Leads
    <2>11. {rcv.head, rcv.tail} \subseteq DOMAIN rcv.node \cup {None}
        BY <2>7 DEF Leads, Ends
    <2>12. TypeOK
        BY <2>1 DEF TypeOK
    <2>13. QED
        BY <2>4, <2>5, <2>8, <2>9, <2>10, <2>11, <2>12 DEF ListTypeOK, Slots
<1>2. QED
    BY <1>1, ListsStayRight, PTL

\* The receiver's list stands for what is missing, but for the largest number.
LEMMA RcvStandsFor ==
    ASSUME ListsRight
    PROVE  \E T : Listed(T) /\ StandsFor(rcv, T)
<1>1. \A o \in 0 .. ListSize : Circle(lo, width, o)
    BY WindowSizes DEF ListsRight
<1>2. PICK T : Listed(T) /\ \E o \in 0 .. ListSize : RcvGood(rcv, lo, width, o, T)
    BY DEF ListsRight, RcvRight
<1>3. PICK o \in 0 .. ListSize : RcvGood(rcv, lo, width, o, T)
    BY <1>2
<1>4. /\ Laid(rcv.node, lo, width, o) /\ Linked(rcv.node, lo)
      /\ Leads(rcv.node, lo, rcv.head) /\ T = Numbers(rcv.node, lo, None)
      /\ rcv.length = Cardinality(T)
    BY <1>3 DEF RcvGood, RcvShape
<1>5. StandsFor(rcv, T)
    BY <1>1, <1>4, GoodStandsFor
<1>6. QED
    BY <1>2, <1>5

\* After any sequence of reports, arrivals, acknowledgements and drop requests that do not
\* go across the wrap, the ranges linked from the head are the numbers put in and not
\* taken out, the first is the oldest, and the length that is added up along the way
\* counts them.
THEOREM ListsStandForSets == ASSUME ~DropsAcross PROVE ListSpec => []ListsAreSets
<1>1. ListsRight => ListsAreSets
    <2> SUFFICES ASSUME ListsRight PROVE ListsAreSets
        OBVIOUS
    <2>1. \A o \in 0 .. ListSize : Circle(lo, width, o)
        BY WindowSizes DEF ListsRight
    <2>2. PICK o \in 0 .. ListSize : SndGood(snd, lo, width, o, resend)
        BY DEF ListsRight, SndRight
    <2>3. /\ Laid(snd.node, lo, width, o) /\ Linked(snd.node, lo)
          /\ Leads(snd.node, lo, snd.head) /\ resend = Numbers(snd.node, lo, None)
          /\ snd.length = Cardinality(resend)
        BY <2>2 DEF SndGood
    <2>4. StandsFor(snd, resend)
        BY <2>1, <2>3, GoodStandsFor
    <2>5. StandsFor(rcv, missing)
        BY RcvStandsFor DEF Listed
    <2>6. QED
        BY <2>4, <2>5 DEF ListsAreSets
<1>2. QED
    BY <1>1, ListsStayRight, PTL

\* A drop request across the wrap leaves at most the largest number in the receiver's list,
\* which is a list of what is missing otherwise.
THEOREM OnlyTheLargestIsMissed ==
    ListSpec => [](\E T : /\ missing \subseteq T /\ T \ missing \subseteq {MaxSeqNo}
                          /\ StandsFor(rcv, T))
<1>1. ListsRight => \E T : /\ missing \subseteq T /\ T \ missing \subseteq {MaxSeqNo}
                           /\ StandsFor(rcv, T)
    BY RcvStandsFor DEF Listed
<1>2. QED
    BY <1>1, ListsStayRight, PTL

\* Every range lies in the slot that its distance from the head says, and the links, both
\* ways at the receiver, meet them in the order of the numbers: finding a number without a
\* search finds the right slot.
THEOREM SlotsAreRight == ListSpec => []SlotsFollowNumbers
<1>1. ListsRight => SlotsFollowNumbers
    <2> SUFFICES ASSUME ListsRight PROVE SlotsFollowNumbers
        OBVIOUS
    <2>1. \A o \in 0 .. ListSize : Circle(lo, width, o)
        BY WindowSizes DEF ListsRight
    <2>2. PICK o \in 0 .. ListSize : SndGood(snd, lo, width, o, resend)
        BY DEF ListsRight, SndRight
    <2>3. /\ Laid(snd.node, lo, width, o) /\ Apart(snd.node, lo, None) /\ Linked(snd.node, lo)
          /\ Leads(snd.node, lo, snd.head)
        BY <2>2 DEF SndGood
    <2>4. InPlace(snd)
        BY <2>1, <2>3, GoodInPlace
    <2>0. PICK T : \E e \in 0 .. ListSize : RcvGood(rcv, lo, width, e, T)
        BY DEF ListsRight, RcvRight
    <2>5. PICK e \in 0 .. ListSize : RcvGood(rcv, lo, width, e, T)
        BY <2>0
    <2>6. /\ RcvShape(rcv, lo, width, e, T)
          /\ Laid(rcv.node, lo, width, e) /\ Apart(rcv.node, lo, None) /\ Linked(rcv.node, lo)
          /\ Leads(rcv.node, lo, rcv.head)
        BY <2>5 DEF RcvGood, RcvShape
    <2>7. InPlace(rcv)
        BY <2>1, <2>6, GoodInPlace
    <2>8. LinkedBothWays
        BY <2>1, <2>6, GoodBothWays
    <2>9. QED
        BY <2>4, <2>7, <2>8 DEF SlotsFollowNumbers
<1>2. QED
    BY <1>1, ListsStayRight, PTL

\* What the code computes from the ends of the window is what was counted: both lists rely
\* on it when they measure how far a number is from their head.
THEOREM WindowOfTheLists == ListSpec => []WindowArithmetic
<1>1. ListsRight => WindowArithmetic
    <2> SUFFICES ASSUME ListsRight PROVE WindowArithmetic
        OBVIOUS
    <2>1. lo \in SeqNos /\ hi \in SeqNos /\ width \in 0 .. SeqNoTH - 1 /\ hi = IncSeqBy(lo, width)
        BY WindowSizes DEF ListsRight, WindowRight, Number
    <2>2. OffsetIsWidth
        BY <2>1, SeqNoAssumption DEF OffsetIsWidth, SeqOff, IncSeqBy, SeqNos, Abs
    <2>3. CompareIsOrder
        BY <2>1, SeqNoAssumption DEF CompareIsOrder, SeqCmp, IncSeqBy, SeqNos, Abs
    <2>4. LengthCountsBothEnds
        BY <2>1, SeqNoAssumption DEF LengthCountsBothEnds, SeqLen, SeqOff, IncSeqBy, SeqNos, Abs
    <2>5. JumpLandsOnEnd
        BY <2>1, SeqNoAssumption DEF JumpLandsOnEnd, SeqOff, IncSeqBy, SeqNos, Abs, IncSeq, DecSeq
    <2>6. QED
        BY <2>2, <2>3, <2>4, <2>5 DEF WindowArithmetic
<1>2. QED
    BY <1>1, ListsStayRight, PTL
=============================================================================
