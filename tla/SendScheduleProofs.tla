------------------------- MODULE SendScheduleProofs -------------------------
(***************************************************************************)
(* What is proved of CSndUList and of the worker that serves it: the heap  *)
(* keeps every node informed of its place, whatever its operations are     *)
(* called with and in which order, and neither a socket nor the worker is  *)
(* forgotten.                                                              *)
(*                                                                         *)
(* The places a node passes on its way are a recursive function of the     *)
(* model.  What they have in common is proved by least counterexample,     *)
(* with the lemma on the least element of a set of numbers.                *)
(***************************************************************************)
EXTENDS SendSchedule, WellFoundedInduction, FiniteSetTheorems, SequenceTheorems, TLAPS

-----------------------------------------------------------------------------
(* Induction: a set of numbers that is not empty has a least one. *)

Before == {p \in Nat \X Nat : p[1] < p[2]}

\* Any set of numbers that is not empty has a least element.
LEMMA Least ==
    ASSUME NEW T, T \subseteq Nat, T # {}
    PROVE  \E n \in T : \A m \in T : n =< m
<1>1. IsWellFoundedOn(Before, Nat)
    BY NatLessThanWellFounded DEF OpToRel, Before
<1>2. PICK n \in T : \A m \in T : ~ (<<m, n>> \in Before)
    BY <1>1, WFMin
<1>3. ASSUME NEW m \in T PROVE n =< m
    <2>1. m \in Nat /\ n \in Nat /\ <<m, n>> \in Nat \X Nat
        OBVIOUS
    <2>2. ~(m < n)
        BY <1>2, <2>1 DEF Before
    <2>3. QED
        BY <2>1, <2>2
<1>4. QED
    BY <1>3

\* ... and, when it is bounded, a greatest one.
LEMMA Greatest ==
    ASSUME NEW N \in Nat, NEW T, T \subseteq 0 .. N, T # {}
    PROVE  \E n \in T : \A m \in T : m =< n
<1> DEFINE D == {N - m : m \in T}
<1>1. D \subseteq Nat /\ D # {}
    OBVIOUS
<1>2. PICK d \in D : \A e \in D : d =< e
    BY <1>1, Least
<1>3. PICK n \in T : d = N - n
    OBVIOUS
<1>4. \A m \in T : d =< N - m
    BY <1>2
<1>5. \A m \in T : m =< n
    BY <1>3, <1>4
<1>6. QED
    BY <1>5

\* What Earliest and Latest choose of the places of a way: its two ends.
LEMMA Ends ==
    ASSUME NEW N \in Nat, NEW W, W \subseteq 1 .. N, W # {}
    PROVE  /\ Earliest(W) \in W /\ \A q \in W : Earliest(W) =< q
           /\ Latest(W) \in W /\ \A q \in W : Latest(W) >= q
<1>1. \E p \in W : \A q \in W : p =< q
    <2>1. W \subseteq Nat
        OBVIOUS
    <2>2. QED
        BY <2>1, Least
<1>2. \E p \in W : \A q \in W : p >= q
    <2>1. W \subseteq 0 .. N
        OBVIOUS
    <2>2. PICK p \in W : \A q \in W : q =< p
        BY <2>1, Greatest
    <2>3. \A q \in W : p >= q
        BY <2>2
    <2>4. QED
        BY <2>3
<1>3. QED
    BY <1>1, <1>2 DEF Earliest, Latest

\* The places from each one on, when "next" leads from place to place up to one of "stop".
Walk(f, S, stop, next) == f = [q \in S |-> {q} \cup IF q \in stop THEN {} ELSE f[next[q]]]

\* A walk from place to place ends, for there is a rank that falls with every step: the
\* function that collects its places exists.
LEMMA WalkExists ==
    ASSUME NEW S, NEW N \in Nat, NEW rank \in [S -> 0 .. N], NEW stop, NEW next,
           \A q \in S : q \in stop \/ (next[q] \in S /\ rank[next[q]] < rank[q])
    PROVE  \E f : Walk(f, S, stop, next)
<1> DEFINE Upto(k) == {q \in S : rank[q] < k}
           Is(f, k) == f = [q \in Upto(k) |-> {q} \cup IF q \in stop THEN {} ELSE f[next[q]]]
           T == {k \in Nat : ~ \E f : Is(f, k)}
<1>1. T = {}
    <2> SUFFICES ASSUME T # {} PROVE FALSE
        OBVIOUS
    <2>1. T \subseteq Nat
        OBVIOUS
    <2>2. PICK k \in T : \A m \in T : k =< m
        <3> HIDE DEF T
        <3> QED BY <2>1, Least
    <2>3. k # 0
        <3>1. Is([q \in {} |-> {}], 0)
            OBVIOUS
        <3>2. QED
            BY <3>1
    <2>4. PICK j \in Nat : k = j + 1
        BY <2>3
    <2>5. j \notin T
        <3> HIDE DEF T
        <3> QED BY <2>2, <2>4
    <2>6. PICK f : Is(f, j)
        BY <2>5
    <2> DEFINE g == [q \in Upto(k) |-> {q} \cup IF q \in stop THEN {} ELSE f[next[q]]]
    <2>7. \A q \in Upto(k) : q \in stop \/ next[q] \in Upto(j)
        BY <2>4
    <2>8. \A q \in Upto(j) : q \in Upto(k) /\ g[q] = f[q]
        BY <2>4, <2>6
    <2>9. Is(g, k)
        BY <2>7, <2>8
    <2>10. QED
        BY <2>9
<1>2. \E f : Is(f, N + 1)
    <2>1. N + 1 \notin T /\ N + 1 \in Nat
        <3> HIDE DEF T
        <3> QED BY <1>1
    <2>2. QED
        BY <2>1
<1>3. Upto(N + 1) = S
    OBVIOUS
<1>4. QED
    BY <1>2, <1>3 DEF Walk

-----------------------------------------------------------------------------
(* The way of a node up or down the heap. *)

\* Places one above the other.
Path(W) == \A p, q \in W : p < q => p =< q \div 2 /\ q \div 2 \in W

\* The way of a node that insert_ moves up: places of the heap, from its own one, each
\* the one above the next.
LEMMA WayUpPath ==
    ASSUME NEW n \in Nat \ {0}, NEW h, NEW t
    PROVE  WayUp(h, t, n) \subseteq 1 .. n /\ n \in WayUp(h, t, n) /\ Path(WayUp(h, t, n))
<1> DEFINE way[q \in 1 .. n] ==
               {q} \cup IF q = 1 \/ t[h[q \div 2]] =< t[h[n]] THEN {} ELSE way[q \div 2]
           stop == {q \in 1 .. n : q = 1 \/ t[h[q \div 2]] =< t[h[n]]}
           next == [q \in 1 .. n |-> q \div 2]
           rank == [q \in 1 .. n |-> q]
<1>1. WayUp(h, t, n) = way[n]
    BY DEF WayUp
<1>2. \E f : f = [q \in 1 .. n |-> {q} \cup IF q = 1 \/ t[h[q \div 2]] =< t[h[n]] THEN {}
                                            ELSE f[q \div 2]]
    <2>1. rank \in [1 .. n -> 0 .. n]
        OBVIOUS
    <2>2. \A q \in 1 .. n : q \in stop \/ (next[q] \in 1 .. n /\ rank[next[q]] < rank[q])
        OBVIOUS
    <2>3. \E f : Walk(f, 1 .. n, stop, next)
        <3> HIDE DEF stop, next, rank
        <3> QED BY <2>1, <2>2, WalkExists
    <2>4. PICK f : Walk(f, 1 .. n, stop, next)
        BY <2>3
    <2>5. f = [q \in 1 .. n |-> {q} \cup IF q = 1 \/ t[h[q \div 2]] =< t[h[n]] THEN {}
                                            ELSE f[q \div 2]]
        BY <2>4 DEF Walk
    <2>6. QED
        BY <2>5
<1>3. way = [q \in 1 .. n |-> {q} \cup IF q = 1 \/ t[h[q \div 2]] =< t[h[n]] THEN {}
                                            ELSE way[q \div 2]]
    BY <1>2
<1>4. \A q \in 1 .. n : way[q] = {q} \/ (q # 1 /\ way[q] = {q} \cup way[q \div 2])
    <2> HIDE DEF way
    <2> QED BY <1>3
<1> HIDE DEF way
<1> DEFINE Good(q) == way[q] \subseteq 1 .. q /\ q \in way[q] /\ Path(way[q])
           T == {q \in 1 .. n : ~ Good(q)}
<1>5. T = {}
    <2> SUFFICES ASSUME T # {} PROVE FALSE
        OBVIOUS
    <2>1. PICK q \in T : \A m \in T : q =< m
        <3>1. T \subseteq Nat
            OBVIOUS
        <3> HIDE DEF T
        <3> QED BY <3>1, Least
    <2>2. CASE way[q] = {q}
        BY <2>1, <2>2 DEF Path
    <2>3. CASE q # 1 /\ way[q] = {q} \cup way[q \div 2]
        <3>1. q \div 2 \in 1 .. n /\ q \div 2 < q /\ q \in 1 .. n
            BY <2>3
        <3>2. Good(q \div 2)
            BY <2>1, <3>1
        <3>3. Path(way[q])
            <4> SUFFICES ASSUME NEW p \in way[q], NEW r \in way[q], p < r
                         PROVE  p =< r \div 2 /\ r \div 2 \in way[q]
                BY DEF Path
            <4>1. CASE r = q
                BY <2>3, <3>1, <3>2, <4>1
            <4>2. CASE r # q
                <5>1. r \in way[q \div 2] /\ r =< q \div 2
                    BY <2>3, <3>1, <3>2, <4>2
                <5>2. p \in way[q \div 2]
                    BY <2>3, <3>1, <3>2, <5>1
                <5>3. QED
                    BY <2>3, <3>2, <5>1, <5>2 DEF Path
            <4>3. QED
                BY <4>1, <4>2
        <3>4. way[q] \subseteq 1 .. q
            BY <2>3, <3>1, <3>2
        <3>5. QED
            BY <2>1, <2>3, <3>3, <3>4
    <2>4. QED
        BY <1>4, <2>2, <2>3
<1>6. QED
    BY <1>1, <1>5

\* The way of a node that remove_ moves down, likewise, from its own place on.
LEMMA WayDownPath ==
    ASSUME NEW h \in Seq(Sockets), NEW t, NEW i \in 1 .. Len(h)
    PROVE  /\ WayDown(h, t, i) \subseteq i .. Len(h) /\ i \in WayDown(h, t, i)
           /\ Path(WayDown(h, t, i))
<1> DEFINE n == Len(h)
           way[q \in 1 .. n] ==
               {q} \cup IF 2 * q > n \/ t[h[i]] =< t[h[Below(h, t, q)]] THEN {}
                        ELSE way[Below(h, t, q)]
           stop == {q \in 1 .. n : 2 * q > n \/ t[h[i]] =< t[h[Below(h, t, q)]]}
           next == [q \in 1 .. n |-> Below(h, t, q)]
           rank == [q \in 1 .. n |-> n - q]
<1>0. n \in Nat
    OBVIOUS
<1>1. WayDown(h, t, i) = way[i]
    BY DEF WayDown
<1>b. \A q \in 1 .. n : /\ Below(h, t, q) \in {2 * q, 2 * q + 1}
                        /\ 2 * q =< n => Below(h, t, q) =< n
    BY <1>0 DEF Below
<1>2. \E f : f = [q \in 1 .. n |-> {q} \cup IF 2 * q > n \/ t[h[i]] =< t[h[Below(h, t, q)]]
                                            THEN {} ELSE f[Below(h, t, q)]]
    <2> HIDE DEF n
    <2>1. rank \in [1 .. n -> 0 .. n]
        BY <1>0
    <2>2. ASSUME NEW q \in 1 .. n
          PROVE  q \in stop \/ (next[q] \in 1 .. n /\ rank[next[q]] < rank[q])
        <3>1. CASE 2 * q > n
            BY <3>1
        <3>2. CASE 2 * q =< n
            <4>1. Below(h, t, q) \in 1 .. n /\ Below(h, t, q) > q
                BY <1>0, <1>b, <3>2
            <4>2. QED
                BY <1>0, <4>1
        <3>3. QED
            BY <1>0, <3>1, <3>2
    <2>3. \E f : Walk(f, 1 .. n, stop, next)
        <3> HIDE DEF stop, next, rank
        <3> QED BY <1>0, <2>1, <2>2, WalkExists
    <2>4. PICK f : Walk(f, 1 .. n, stop, next)
        BY <2>3
    <2>5. f = [q \in 1 .. n |-> {q} \cup IF 2 * q > n \/ t[h[i]] =< t[h[Below(h, t, q)]] THEN {}
                                            ELSE f[Below(h, t, q)]]
        BY <2>4 DEF Walk
    <2>6. QED
        BY <2>5
<1>3. way = [q \in 1 .. n |-> {q} \cup IF 2 * q > n \/ t[h[i]] =< t[h[Below(h, t, q)]] THEN {}
                                            ELSE way[Below(h, t, q)]]
    BY <1>2
<1>4. \A q \in 1 .. n : \/ way[q] = {q}
                        \/ 2 * q =< n /\ way[q] = {q} \cup way[Below(h, t, q)]
    <2> HIDE DEF way, n
    <2> SUFFICES ASSUME NEW q \in 1 .. n
                 PROVE  way[q] = {q} \/ (2 * q =< n /\ way[q] = {q} \cup way[Below(h, t, q)])
        OBVIOUS
    <2>1. way[q] = {q} \cup IF 2 * q > n \/ t[h[i]] =< t[h[Below(h, t, q)]] THEN {}
                            ELSE way[Below(h, t, q)]
        BY <1>3
    <2>2. CASE 2 * q > n
        BY <2>1, <2>2
    <2>3. CASE ~ (2 * q > n)
        <3>1. 2 * q =< n
            BY <1>0, <2>3
        <3>2. CASE t[h[i]] =< t[h[Below(h, t, q)]]
            BY <2>1, <3>2
        <3>3. CASE ~ (t[h[i]] =< t[h[Below(h, t, q)]])
            BY <2>1, <2>3, <3>1, <3>3
        <3>4. QED
            BY <3>2, <3>3
    <2>4. QED
        BY <2>2, <2>3
<1> HIDE DEF way
<1> DEFINE Good(q) == way[q] \subseteq q .. n /\ q \in way[q] /\ Path(way[q])
           T == {q \in 1 .. n : ~ Good(q)}
<1>5. T = {}
    <2> SUFFICES ASSUME T # {} PROVE FALSE
        OBVIOUS
    <2>1. PICK q \in T : \A m \in T : m =< q
        <3>1. T \subseteq 0 .. n
            OBVIOUS
        <3> HIDE DEF T, n
        <3> QED BY <1>0, <3>1, Greatest
    <2> HIDE DEF n
    <2>2. CASE way[q] = {q}
        BY <1>0, <2>1, <2>2 DEF Path
    <2>3. CASE 2 * q =< n /\ way[q] = {q} \cup way[Below(h, t, q)]
        <3>1. PICK b \in 1 .. n : b = Below(h, t, q) /\ b > q /\ b \div 2 = q
            BY <1>0, <1>b, <2>3
        <3>2. Good(b)
            BY <2>1, <3>1, <1>0
        <3>3. Path(way[q])
            <4> SUFFICES ASSUME NEW p \in way[q], NEW r \in way[q], p < r
                         PROVE  p =< r \div 2 /\ r \div 2 \in way[q]
                BY DEF Path
            <4>0. way[q] = {q} \cup way[b] /\ q \in Nat
                BY <2>3, <3>1
            <4>1. r \in way[b] /\ r >= b /\ r \in Nat
                BY <1>0, <3>1, <3>2, <4>0
            <4>2. CASE p = q
                <5>1. CASE r = b
                    BY <3>1, <4>0, <4>2, <5>1
                <5>2. CASE r # b
                    <6>1. b < r
                        BY <4>1, <5>2
                    <6>2. b =< r \div 2 /\ r \div 2 \in way[b]
                        BY <3>2, <4>1, <6>1 DEF Path
                    <6>3. QED
                        BY <3>1, <4>0, <4>1, <4>2, <6>2
                <5>3. QED
                    BY <5>1, <5>2
            <4>3. CASE p # q
                BY <3>2, <4>0, <4>1, <4>3 DEF Path
            <4>4. QED
                BY <4>2, <4>3
        <3>4. way[q] \subseteq q .. n
            BY <1>0, <2>3, <3>1, <3>2
        <3>5. QED
            BY <2>1, <2>3, <3>3, <3>4
    <2>4. QED
        BY <1>4, <2>2, <2>3
<1>6. QED
    BY <1>1, <1>5

-----------------------------------------------------------------------------
(* What insert_ and remove_ do to a heap that is well formed. *)

Agree(nodes, at) ==
    /\ \A i \in DOMAIN nodes : at[nodes[i]] = i
    /\ \A v \in Sockets : at[v] # 0 => at[v] \in DOMAIN nodes /\ nodes[at[v]] = v

GoodHeap(H) ==
    /\ H.nodes \in Seq(Sockets)
    /\ H.at \in [Sockets -> Nat]
    /\ H.time \in [Sockets -> 1 .. MaxTime]
    /\ Agree(H.nodes, H.at)

\* "new" holds the sockets of h, and only the places of W have other ones; "at" tells
\* the places of h outside W.
Rearranges(n, h, at, W, new) ==
    /\ n \in Nat
    /\ h \in [1 .. n -> Sockets]
    /\ new \in [1 .. n -> Sockets]
    /\ at \in [Sockets -> Nat]
    /\ W \subseteq 1 .. n
    /\ \A p, q \in 1 .. n : h[p] = h[q] => p = q
    /\ \A q \in (1 .. n) \ W : new[q] = h[q] /\ at[h[q]] = q
    /\ \A q \in W : \E p \in W : new[q] = h[p]
    /\ \A p \in W : \E q \in W : new[q] = h[p]
    /\ \A p, q \in W : new[p] = new[q] => p = q
    /\ \A v \in Sockets : at[v] # 0 => \/ at[v] \in (1 .. n) \ W /\ h[at[v]] = v
                                       \/ \E q \in W : h[q] = v

\* After such a rearrangement, and when the sockets on the way have been told, every
\* socket of h has its place, and no other one has.
LEMMA Rearranged ==
    ASSUME NEW n, NEW h, NEW at, NEW W, NEW new, Rearranges(n, h, at, W, new)
    PROVE  /\ Told(at, new, W) \in [Sockets -> Nat]
           /\ Agree(new, Told(at, new, W))
           /\ \A v \in Sockets : Told(at, new, W)[v] # 0 <=> \E p \in 1 .. n : h[p] = v
<1> USE DEF Rearranges
<1> DEFINE T == Told(at, new, W)
<1>0. DOMAIN new = 1 .. n
    OBVIOUS
<1>1. ASSUME NEW v \in Sockets, NEW q \in W, new[q] = v
      PROVE  T[v] = q
    <2> DEFINE c == CHOOSE p \in W : new[p] = v
    <2>1. c \in W /\ new[c] = v
        BY <1>1
    <2>2. c = q
        BY <2>1, <1>1
    <2>3. T[v] = c
        BY <1>1 DEF Told
    <2>4. QED
        BY <2>2, <2>3
<1>2. ASSUME NEW v \in Sockets, ~ \E q \in W : new[q] = v
      PROVE  T[v] = at[v]
    BY <1>2 DEF Told
<1>3. ASSUME NEW q \in (1 .. n) \ W PROVE T[h[q]] = q
    <2>1. ~ \E p \in W : new[p] = h[q]
        OBVIOUS
    <2>2. h[q] \in Sockets
        OBVIOUS
    <2>3. QED
        BY <2>1, <2>2, <1>2
<1>4. DOMAIN T = Sockets
    BY DEF Told
<1>5. \A v \in Sockets : T[v] \in Nat
    <2> SUFFICES ASSUME NEW v \in Sockets PROVE T[v] \in Nat
        OBVIOUS
    <2>1. CASE \E q \in W : new[q] = v
        <3>1. PICK q \in W : new[q] = v
            BY <2>1
        <3>2. T[v] = q /\ q \in Nat
            BY <3>1, <1>1
        <3>3. QED
            BY <3>2
    <2>2. CASE ~ \E q \in W : new[q] = v
        BY <2>2, <1>2
    <2>3. QED
        BY <2>1, <2>2
<1>6. T \in [Sockets -> Nat]
    <2>1. T = [v \in Sockets |-> T[v]]
        BY DEF Told
    <2> HIDE DEF T
    <2>2. QED
        BY <2>1, <1>5
<1>7. \A i \in 1 .. n : T[new[i]] = i
    <2> SUFFICES ASSUME NEW i \in 1 .. n PROVE T[new[i]] = i
        OBVIOUS
    <2>1. CASE i \in W
        BY <2>1, <1>1
    <2>2. CASE i \notin W
        BY <2>2, <1>3
    <2>3. QED
        BY <2>1, <2>2
<1>8. ASSUME NEW v \in Sockets, T[v] # 0
      PROVE  T[v] \in 1 .. n /\ new[T[v]] = v
    <2>1. CASE \E q \in W : new[q] = v
        BY <2>1, <1>1
    <2>2. CASE ~ \E q \in W : new[q] = v
        <3>1. T[v] = at[v]
            BY <2>2, <1>2
        <3>2. ~ \E q \in W : h[q] = v
            BY <2>2
        <3>3. at[v] \in (1 .. n) \ W /\ h[at[v]] = v
            BY <1>8, <3>1, <3>2
        <3>4. QED
            BY <3>1, <3>3
    <2>3. QED
        BY <2>1, <2>2
<1>9. ASSUME NEW v \in Sockets
      PROVE  T[v] # 0 <=> \E p \in 1 .. n : h[p] = v
    <2>1. ASSUME T[v] # 0 PROVE \E p \in 1 .. n : h[p] = v
        <3>1. T[v] \in 1 .. n /\ new[T[v]] = v
            BY <2>1, <1>8
        <3>2. QED
            BY <3>1
    <2>2. ASSUME NEW p \in 1 .. n, h[p] = v PROVE T[v] # 0
        <3>1. CASE p \in W
            <4>1. PICK q \in W : new[q] = v
                BY <2>2, <3>1
            <4>2. T[v] = q
                BY <4>1, <1>1
            <4>3. QED
                BY <4>2
        <3>2. CASE p \notin W
            BY <2>2, <3>2, <1>3
        <3>3. QED
            BY <3>1, <3>2
    <2>3. QED
        BY <2>1, <2>2
<1>10. Agree(new, T)
    <2> HIDE DEF T
    <2> QED BY <1>0, <1>7, <1>8 DEF Agree
<1> HIDE DEF T
<1>11. T \in [Sockets -> Nat] /\ Agree(new, T)
       /\ \A v \in Sockets : T[v] # 0 <=> \E p \in 1 .. n : h[p] = v
    BY <1>6, <1>9, <1>10
<1>12. QED
    BY <1>11 DEF T

\* A heap whose nodes know their places holds none twice.
LEMMA Injective ==
    ASSUME NEW H, GoodHeap(H)
    PROVE  /\ H.nodes \in [1 .. Len(H.nodes) -> Sockets] /\ Len(H.nodes) \in Nat
           /\ \A p, q \in 1 .. Len(H.nodes) : H.nodes[p] = H.nodes[q] => p = q
           /\ \A p \in 1 .. Len(H.nodes) : H.at[H.nodes[p]] = p
           /\ \A v \in Sockets : H.at[v] # 0 => /\ H.at[v] \in 1 .. Len(H.nodes)
                                               /\ H.nodes[H.at[v]] = v
<1>1. H.nodes \in [1 .. Len(H.nodes) -> Sockets] /\ Len(H.nodes) \in Nat
    BY DEF GoodHeap
<1>2. DOMAIN H.nodes = 1 .. Len(H.nodes)
    BY DEF GoodHeap
<1>3. /\ \A p \in 1 .. Len(H.nodes) : H.at[H.nodes[p]] = p
      /\ \A v \in Sockets : H.at[v] # 0 => H.at[v] \in 1 .. Len(H.nodes) /\ H.nodes[H.at[v]] = v
    BY <1>2 DEF GoodHeap, Agree
<1>4. \A p, q \in 1 .. Len(H.nodes) : H.nodes[p] = H.nodes[q] => p = q
    BY <1>3
<1>5. QED
    BY <1>1, <1>3, <1>4

\* insert_ of a socket that is not on the heap: the heap stays well formed, and that
\* socket is on it besides those that were.
LEMMA InsertWorks ==
    ASSUME NEW H, GoodHeap(H), NEW u \in Sockets, NEW ts \in 1 .. MaxTime, H.at[u] = 0
    PROVE  /\ GoodHeap(insert_(H, ts, u))
           /\ \A v \in Sockets : insert_(H, ts, u).at[v] # 0 <=> H.at[v] # 0 \/ v = u
           /\ insert_(H, ts, u).nodes # << >>
<1> DEFINE h == Append(H.nodes, u)
           n == Len(H.nodes) + 1
           t == [H.time EXCEPT ![u] = ts]
           W == WayUp(h, t, n)
           e == Earliest(W)
           new == [q \in 1 .. n |-> IF q \notin W THEN h[q] ELSE IF q = e THEN u ELSE h[q \div 2]]
<1>1. /\ n \in Nat \ {0} /\ h \in [1 .. n -> Sockets] /\ h[n] = u
      /\ \A q \in 1 .. n : q # n => q \in 1 .. Len(H.nodes) /\ h[q] = H.nodes[q]
      /\ DOMAIN h = 1 .. n /\ Len(h) = n
    <2>1. H.nodes \in Seq(Sockets) /\ Len(H.nodes) \in Nat
        BY DEF GoodHeap
    <2>2. h \in Seq(Sockets) /\ Len(h) = n /\ n \in Nat \ {0}
        BY <2>1
    <2>3. h[n] = u /\ \A q \in 1 .. Len(H.nodes) : h[q] = H.nodes[q]
        BY <2>1
    <2>4. h \in [1 .. n -> Sockets] /\ DOMAIN h = 1 .. n
        <3> HIDE DEF h, n
        <3> QED BY <2>2
    <2>5. \A q \in 1 .. n : q # n => q \in 1 .. Len(H.nodes)
        BY <2>1
    <2> HIDE DEF h
    <2>6. QED
        BY <2>2, <2>3, <2>4, <2>5
<1>2. insert_(H, ts, u) = [nodes |-> new, at |-> Told(H.at, new, W), time |-> t]
    BY <1>1 DEF insert_
<1>3. W \subseteq 1 .. n /\ n \in W /\ Path(W)
    <2> HIDE DEF h, t, n
    <2> QED BY <1>1, WayUpPath
<1>4. e \in W /\ \A q \in W : e =< q
    <2> HIDE DEF h, t, n, W
    <2> QED BY <1>1, <1>3, Ends
<1>5. \A p \in W : p # e => p \div 2 \in W
    <2> HIDE DEF h, t, n, W, e
    <2> QED BY <1>1, <1>3, <1>4 DEF Path
<1>6. \A p \in W : p # n => \E q \in W : q # e /\ q \div 2 = p
    <2> SUFFICES ASSUME NEW p \in W, p # n PROVE \E q \in W : q # e /\ q \div 2 = p
        OBVIOUS
    <2> HIDE DEF h, t, n, W, e
    <2> DEFINE T == {q \in W : q > p}
    <2>0. p < n
        BY <1>1, <1>3
    <2>1. T \subseteq Nat /\ n \in T
        <3>1. W \subseteq Nat
            BY <1>1, <1>3
        <3>2. n > p
            BY <1>1, <1>3, <2>0
        <3>3. QED
            BY <1>3, <3>1, <3>2
    <2>2. PICK q \in T : \A m \in T : q =< m
        <3> HIDE DEF T
        <3> QED BY <2>1, Least
    <2>3. p =< q \div 2 /\ q \div 2 \in W /\ q \div 2 < q /\ q \in W /\ p \in Nat
        BY <1>1, <1>3 DEF Path
    <2>4. ~ (q \div 2 > p)
        BY <2>2, <2>3
    <2>5. q \div 2 = p /\ q # e
        BY <2>3, <2>4, <1>3, <1>4
    <2>6. QED
        BY <2>3, <2>5
<1>7. \A p, q \in W : p # e /\ q # e /\ p \div 2 = q \div 2 => p = q
    <2> SUFFICES ASSUME NEW p \in W, NEW q \in W, p # e, q # e, p \div 2 = q \div 2, p < q
                 PROVE  FALSE
        <3> HIDE DEF h, t, n, W, e
        <3> QED BY <1>1, <1>3
    <2> HIDE DEF h, t, n, W, e
    <2>1. p =< q \div 2
        BY <1>3 DEF Path
    <2>2. p =< p \div 2 /\ p \in 1 .. n
        BY <2>1, <1>3
    <2>3. QED
        BY <2>2, <1>1
<1>8. \A p, q \in 1 .. n : h[p] = h[q] => p = q
    <2>1. \A p, q \in 1 .. Len(H.nodes) : H.nodes[p] = H.nodes[q] => p = q
        BY Injective
    <2>2. \A p \in 1 .. Len(H.nodes) : H.nodes[p] # u
        BY Injective
    <2> HIDE DEF h, n
    <2>3. QED
        BY <1>1, <2>1, <2>2
<1>9. \A v \in Sockets : H.at[v] # 0 => H.at[v] \in 1 .. n /\ h[H.at[v]] = v
    <2>1. \A v \in Sockets : H.at[v] # 0 => H.at[v] \in 1 .. Len(H.nodes) /\ H.nodes[H.at[v]] = v
        BY Injective
    <2>2. \A p \in 1 .. Len(H.nodes) : p \in 1 .. n /\ h[p] = H.nodes[p]
        BY <1>1 DEF GoodHeap
    <2> HIDE DEF h, n
    <2>3. QED
        BY <2>1, <2>2
<1>10. \A q \in 1 .. n : q # n => H.at[h[q]] = q
    BY <1>1, Injective
<1> HIDE DEF h, n, W, e, t
<1>11. new \in [1 .. n -> Sockets]
    <2>1. \A q \in W : q # e => h[q \div 2] \in Sockets
        BY <1>1, <1>3, <1>5
    <2>2. \A q \in 1 .. n : h[q] \in Sockets
        BY <1>1
    <2>3. QED
        BY <2>1, <2>2
<1>12. /\ \A q \in (1 .. n) \ W : new[q] = h[q]
       /\ new[e] = u
       /\ \A q \in W : q # e => new[q] = h[q \div 2]
    BY <1>3, <1>4
<1> HIDE DEF new
<1>13. H.at \in [Sockets -> Nat]
    BY DEF GoodHeap
<1>14. \A q \in (1 .. n) \ W : new[q] = h[q] /\ H.at[h[q]] = q
    BY <1>3, <1>10, <1>12
<1>15. \A q \in W : \E p \in W : new[q] = h[p]
    <2> SUFFICES ASSUME NEW q \in W PROVE \E p \in W : new[q] = h[p]
        OBVIOUS
    <2>1. CASE q = e
        BY <2>1, <1>1, <1>3, <1>12
    <2>2. CASE q # e
        BY <2>2, <1>5, <1>12
    <2>3. QED
        BY <2>1, <2>2
<1>16. \A p \in W : \E q \in W : new[q] = h[p]
    <2> SUFFICES ASSUME NEW p \in W PROVE \E q \in W : new[q] = h[p]
        OBVIOUS
    <2>1. CASE p = n
        BY <2>1, <1>1, <1>4, <1>12
    <2>2. CASE p # n
        BY <2>2, <1>6, <1>12
    <2>3. QED
        BY <2>1, <2>2
<1>17. \A p, q \in W : new[p] = new[q] => p = q
    <2>1. \A p \in W : p # e => new[p] = h[p \div 2] /\ p \div 2 \in 1 .. n /\ p \div 2 # n
        BY <1>1, <1>3, <1>5, <1>12
    <2>2. \A p \in W : p # e => new[p] # u
        BY <2>1, <1>8, <1>1, <1>3
    <2>3. \A p, q \in W : p # e /\ q # e /\ new[p] = new[q] => p = q
        BY <2>1, <1>7, <1>8
    <2>4. QED
        BY <2>2, <2>3, <1>12
<1>18. \A v \in Sockets : H.at[v] # 0 => \/ H.at[v] \in (1 .. n) \ W /\ h[H.at[v]] = v
                                         \/ \E q \in W : h[q] = v
    BY <1>9
<1>19. /\ Told(H.at, new, W) \in [Sockets -> Nat]
       /\ Agree(new, Told(H.at, new, W))
       /\ \A v \in Sockets : Told(H.at, new, W)[v] # 0 <=> \E p \in 1 .. n : h[p] = v
    <2>1. n \in Nat /\ h \in [1 .. n -> Sockets] /\ W \subseteq 1 .. n
        BY <1>1, <1>3
    <2>2. QED
        <3>1. Rearranges(n, h, H.at, W, new)
            BY <2>1, <1>8, <1>11, <1>13, <1>14, <1>15, <1>16, <1>17, <1>18 DEF Rearranges
        <3>2. QED
            BY <3>1, Rearranged
<1>20. t \in [Sockets -> 1 .. MaxTime]
    BY DEF GoodHeap, t
<1>21. new \in Seq(Sockets) /\ new # << >>
    BY <1>1, <1>11
<1>22. \A v \in Sockets : (\E p \in 1 .. n : h[p] = v) <=> H.at[v] # 0 \/ v = u
    <2>1. \A v \in Sockets : H.at[v] # 0 \/ v = u => \E p \in 1 .. n : h[p] = v
        BY <1>1, <1>9
    <2>2. \A p \in 1 .. n : p # n => H.at[h[p]] # 0
        BY <1>10
    <2>3. QED
        BY <2>1, <2>2, <1>1
<1>23. QED
    BY <1>2, <1>19, <1>20, <1>21, <1>22 DEF GoodHeap

\* remove_ of a socket that is on the heap: the heap stays well formed, and it holds the
\* others.
LEMMA RemoveWorks ==
    ASSUME NEW H, GoodHeap(H), NEW u \in Sockets, H.at[u] # 0
    PROVE  /\ GoodHeap(remove_(H, u))
           /\ \A v \in Sockets : remove_(H, u).at[v] # 0 <=> H.at[v] # 0 /\ v # u
<1> DEFINE i == H.at[u]
           N == Len(H.nodes)
           n == N - 1
           h == SubSeq([H.nodes EXCEPT ![i] = H.nodes[N]], 1, n)
           W == WayDown(h, H.time, i)
           e == Latest(W)
           new == [q \in 1 .. n |-> IF q \notin W THEN h[q]
                                    ELSE IF q = e THEN h[i]
                                    ELSE h[CHOOSE p \in W : p \div 2 = q]]
           at == [H.at EXCEPT ![u] = 0]
<1>1. /\ H.nodes \in [1 .. N -> Sockets] /\ N \in Nat
      /\ \A p, q \in 1 .. N : H.nodes[p] = H.nodes[q] => p = q
      /\ \A p \in 1 .. N : H.at[H.nodes[p]] = p
      /\ \A v \in Sockets : H.at[v] # 0 => H.at[v] \in 1 .. N /\ H.nodes[H.at[v]] = v
      /\ i \in 1 .. N /\ H.nodes[i] = u /\ n \in Nat /\ N = n + 1
      /\ H.nodes \in Seq(Sockets) /\ H.at \in [Sockets -> Nat]
    <2>1. /\ H.nodes \in [1 .. N -> Sockets] /\ N \in Nat
          /\ \A p, q \in 1 .. N : H.nodes[p] = H.nodes[q] => p = q
          /\ \A p \in 1 .. N : H.at[H.nodes[p]] = p
          /\ \A v \in Sockets : H.at[v] # 0 => H.at[v] \in 1 .. N /\ H.nodes[H.at[v]] = v
        BY Injective
    <2>2. i \in 1 .. N /\ H.nodes[i] = u /\ n \in Nat /\ N = n + 1
        BY <2>1
    <2>3. H.nodes \in Seq(Sockets) /\ H.at \in [Sockets -> Nat]
        BY DEF GoodHeap
    <2>4. QED
        BY <2>1, <2>2, <2>3
<1>2. /\ h \in Seq(Sockets) /\ Len(h) = n /\ h \in [1 .. n -> Sockets]
      /\ DOMAIN h = 1 .. n
      /\ \A q \in 1 .. n : h[q] = IF q = i THEN H.nodes[N] ELSE H.nodes[q]
    <2> DEFINE s == [H.nodes EXCEPT ![i] = H.nodes[N]]
    <2> HIDE DEF N
    <2>1. /\ s \in [1 .. N -> Sockets]
          /\ \A q \in 1 .. N : s[q] = IF q = i THEN H.nodes[N] ELSE H.nodes[q]
        BY <1>1
    <2>2. s \in Seq(Sockets) /\ Len(s) = N
        BY <1>1, <2>1
    <2> HIDE DEF s
    <2>3. SubSeq(s, 1, n) \in Seq(Sockets) /\ Len(SubSeq(s, 1, n)) = n
          /\ \A q \in 1 .. n : SubSeq(s, 1, n)[q] = s[q]
        BY <1>1, <2>2
    <2>4. h = SubSeq(s, 1, n)
        BY DEF s
    <2> HIDE DEF h
    <2>5. h \in [1 .. n -> Sockets] /\ DOMAIN h = 1 .. n
        <3> HIDE DEF n
        <3>1. h \in Seq(Sockets) /\ Len(h) = n
            BY <2>3, <2>4
        <3>2. QED
            BY <3>1
    <2>6. \A q \in 1 .. n : q \in 1 .. N
        BY <1>1
    <2>7. QED
        BY <2>1, <2>3, <2>4, <2>5, <2>6
<1>3. remove_(H, u) = [nodes |-> new, at |-> [Told(H.at, new, W) EXCEPT ![u] = 0],
                       time |-> [H.time EXCEPT ![u] = AtOnce]]
    BY <1>2 DEF remove_
<1> HIDE DEF h, n, N, i
<1> DEFINE src(q) == IF q = i THEN N ELSE q
<1>s. \A q \in 1 .. n : src(q) \in 1 .. N /\ src(q) # i /\ h[q] = H.nodes[src(q)]
    BY <1>1, <1>2
<1>4. \A p, q \in 1 .. n : h[p] = h[q] => p = q
    <2>1. \A p, q \in 1 .. n : src(p) = src(q) => p = q
        BY <1>1
    <2> SUFFICES ASSUME NEW p \in 1 .. n, NEW q \in 1 .. n, h[p] = h[q] PROVE src(p) = src(q)
        BY <2>1
    <2>2. /\ src(p) \in 1 .. N /\ h[p] = H.nodes[src(p)]
          /\ src(q) \in 1 .. N /\ h[q] = H.nodes[src(q)]
        BY <1>s
    <2> HIDE DEF src
    <2>3. QED
        BY <1>1, <2>2
<1>5. \A q \in 1 .. n : h[q] # u
    <2> SUFFICES ASSUME NEW q \in 1 .. n PROVE h[q] # u
        OBVIOUS
    <2>1. src(q) \in 1 .. N /\ src(q) # i /\ h[q] = H.nodes[src(q)]
        BY <1>s
    <2> HIDE DEF src
    <2>2. QED
        BY <1>1, <2>1
<1>6. \A q \in 1 .. n : q # i => at[h[q]] = q
    <2> SUFFICES ASSUME NEW q \in 1 .. n, q # i PROVE at[h[q]] = q
        OBVIOUS
    <2>1. h[q] = H.nodes[q] /\ q \in 1 .. N
        BY <1>1, <1>2
    <2>2. H.at[h[q]] = q /\ h[q] \in Sockets
        BY <1>1, <2>1
    <2>3. QED
        BY <1>1, <1>5, <2>2
<1>7. \A v \in Sockets : at[v] # 0 => \/ at[v] \in 1 .. n /\ at[v] # i /\ h[at[v]] = v
                                      \/ i \in 1 .. n /\ h[i] = v
    <2> SUFFICES ASSUME NEW v \in Sockets, at[v] # 0
                 PROVE  \/ at[v] \in 1 .. n /\ at[v] # i /\ h[at[v]] = v
                        \/ i \in 1 .. n /\ h[i] = v
        OBVIOUS
    <2>1. v # u /\ at[v] = H.at[v]
        BY <1>1
    <2>2. at[v] \in 1 .. N /\ H.nodes[at[v]] = v /\ at[v] # i
        BY <1>1, <2>1
    <2> HIDE DEF at
    <2>3. at[v] \in 1 .. n \/ (at[v] = N /\ i \in 1 .. n)
        <3>1. n \in Nat /\ N = n + 1 /\ i \in 1 .. N
            BY <1>1
        <3>2. QED
            BY <2>2, <3>1
    <2>4. CASE at[v] \in 1 .. n
        <3>1. h[at[v]] = H.nodes[at[v]]
            BY <1>2, <2>2, <2>4
        <3>2. QED
            BY <2>2, <2>4, <3>1
    <2>5. CASE at[v] = N /\ i \in 1 .. n
        <3>1. h[i] = H.nodes[N]
            BY <1>2, <2>5
        <3>2. QED
            BY <2>2, <2>5, <3>1
    <2>6. QED
        BY <2>3, <2>4, <2>5
<1>8. at \in [Sockets -> Nat]
    BY <1>1
<1>9. /\ W \subseteq 1 .. n
      /\ i \in 1 .. n => /\ i \in W /\ e \in W /\ \A q \in W : i =< q /\ q =< e
                         /\ \A q \in W : q # i => q \div 2 \in W
                         /\ \A p, q \in W : p < q => p =< q \div 2
    <2>1. CASE i \in 1 .. n
        <3>1. W \subseteq i .. n /\ i \in W /\ Path(W)
            BY <2>1, <1>2, WayDownPath
        <3> HIDE DEF W
        <3>2. W \subseteq 1 .. n /\ W # {} /\ n \in Nat
            BY <1>1, <2>1, <3>1
        <3>3. e \in W /\ \A q \in W : e >= q
            BY <3>2, Ends
        <3> HIDE DEF e
        <3>4. \A q \in W : q # i => i < q
            BY <2>1, <1>1, <3>1
        <3>5. QED
            BY <2>1, <3>1, <3>2, <3>3, <3>4 DEF Path
    <2>2. CASE i \notin 1 .. n
        <3>1. i > Len(h)
            BY <1>1, <1>2, <2>2
        <3>2. W = {}
            BY <3>1 DEF WayDown
        <3>3. QED
            BY <2>2, <3>2
    <2>3. QED
        BY <2>1, <2>2
<1>10. i \notin 1 .. n => W = {}
    <2>1. i \notin 1 .. n => i > Len(h)
        BY <1>1, <1>2
    <2>2. QED
        BY <2>1 DEF WayDown
<1> HIDE DEF W, e
<1> DEFINE child(q) == CHOOSE p \in W : p \div 2 = q
<1>11. \A q \in W : q # e => child(q) \in W /\ child(q) \div 2 = q
    <2> SUFFICES ASSUME NEW q \in W, q # e PROVE \E p \in W : p \div 2 = q
        OBVIOUS
    <2> DEFINE T == {p \in W : p > q}
    <2>1. q \in 1 .. n /\ i \in 1 .. n
        BY <1>9, <1>10
    <2>2. T \subseteq Nat /\ e \in T
        <3>1. W \subseteq Nat
            BY <1>1, <1>9
        <3>2. e > q /\ e \in W
            <4>1. e \in W /\ q =< e /\ q # e
                BY <1>9, <2>1
            <4>2. e \in 1 .. n
                BY <1>9, <4>1
            <4>3. QED
                BY <1>1, <2>1, <4>1, <4>2
        <3>3. QED
            BY <3>1, <3>2
    <2>3. PICK p \in T : \A m \in T : p =< m
        <3> HIDE DEF T
        <3> QED BY <2>2, Least
    <2>4. q =< p \div 2 /\ p \in 1 .. n /\ p # i
        BY <1>9, <2>1
    <2>5. p \div 2 \in W /\ p \div 2 < p
        BY <1>9, <2>1, <2>4
    <2>6. ~ (p \div 2 > q)
        BY <2>3, <2>5, <2>4
    <2>7. QED
        BY <2>1, <2>4, <2>5, <2>6
<1>12. \A p \in W : p # i => p \div 2 \in W /\ p \div 2 # e /\ child(p \div 2) = p
    <2> SUFFICES ASSUME NEW p \in W, p # i
                 PROVE  p \div 2 \in W /\ p \div 2 # e /\ child(p \div 2) = p
        OBVIOUS
    <2>0. i \in 1 .. n /\ p \in 1 .. n /\ p =< e
        BY <1>9, <1>10
    <2>1. p \div 2 \in W /\ p \div 2 < p
        BY <1>9, <2>0
    <2>2. p \div 2 # e
        BY <2>0, <2>1
    <2>3. child(p \div 2) \in W /\ child(p \div 2) \div 2 = p \div 2
        BY <1>11, <2>1, <2>2
    <2> HIDE DEF child
    <2>4. child(p \div 2) \in 1 .. n
        BY <2>3, <1>9
    <2>5. ~ (child(p \div 2) < p) /\ ~ (p < child(p \div 2))
        <3>1. child(p \div 2) < p => child(p \div 2) =< p \div 2
            BY <1>9, <2>0, <2>3
        <3>2. p < child(p \div 2) => p =< p \div 2
            BY <1>9, <2>0, <2>3
        <3>3. child(p \div 2) # 0 /\ child(p \div 2) \in Nat
            BY <1>1, <2>4
        <3>4. QED
            BY <1>1, <2>0, <2>1, <2>3, <3>1, <3>2, <3>3
    <2>6. QED
        BY <2>0, <2>1, <2>2, <2>4, <2>5
<1>13. new = [q \in 1 .. n |-> IF q \notin W THEN h[q] ELSE IF q = e THEN h[i] ELSE h[child(q)]]
    OBVIOUS
<1> HIDE DEF new, child
<1>14. new \in [1 .. n -> Sockets]
    <2>1. \A q \in W : q # e => h[child(q)] \in Sockets
        BY <1>2, <1>9, <1>11
    <2>2. \A q \in W : h[i] \in Sockets
        BY <1>2, <1>9, <1>10
    <2>3. \A q \in 1 .. n : h[q] \in Sockets
        BY <1>2
    <2>4. QED
        BY <1>13, <2>1, <2>2, <2>3
<1>15. /\ \A q \in (1 .. n) \ W : new[q] = h[q]
       /\ \A q \in W : q = e => new[q] = h[i]
       /\ \A q \in W : q # e => new[q] = h[child(q)]
    BY <1>9, <1>13
<1> HIDE DEF at
<1>16. Rearranges(n, h, at, W, new)
    <2>1. \A q \in (1 .. n) \ W : new[q] = h[q] /\ at[h[q]] = q
        BY <1>6, <1>9, <1>10, <1>15
    <2>2. \A q \in W : \E p \in W : new[q] = h[p]
        BY <1>9, <1>10, <1>11, <1>15
    <2>3. \A p \in W : \E q \in W : new[q] = h[p]
        <3> SUFFICES ASSUME NEW p \in W PROVE \E q \in W : new[q] = h[p]
            OBVIOUS
        <3>1. CASE p = i
            BY <3>1, <1>9, <1>10, <1>15
        <3>2. CASE p # i
            BY <3>2, <1>12, <1>15
        <3>3. QED
            BY <3>1, <3>2
    <2>4. \A p, q \in W : new[p] = new[q] => p = q
        <3>1. \A q \in W : q # e => child(q) \in W /\ child(q) # i /\ child(q) \in 1 .. n
            <4>1. \A q \in W : q # e => child(q) \in W /\ child(q) \div 2 = q /\ i \in 1 .. n
                BY <1>9, <1>10, <1>11
            <4>2. \A q \in W : q # e => child(q) # i
                BY <4>1, <1>9, <1>1
            <4>3. QED
                BY <4>1, <4>2, <1>9
        <3>2. \A p, q \in W : p # e /\ q # e /\ new[p] = new[q] => child(p) = child(q)
            BY <3>1, <1>4, <1>15
        <3>3. \A p, q \in W : p # e /\ q # e /\ child(p) = child(q) => p = q
            BY <1>11
        <3>4. \A p \in W : p # e => new[p] # h[i]
            BY <3>1, <1>4, <1>9, <1>10, <1>15
        <3>5. QED
            BY <3>2, <3>3, <3>4, <1>15
    <2>5. \A v \in Sockets : at[v] # 0 => \/ at[v] \in (1 .. n) \ W /\ h[at[v]] = v
                                          \/ \E q \in W : h[q] = v
        BY <1>7, <1>9, <1>10
    <2>6. n \in Nat
        BY <1>1
    <2>7. QED
        BY <2>1, <2>2, <2>3, <2>4, <2>5, <2>6, <1>2, <1>4, <1>8, <1>9, <1>14 DEF Rearranges
<1>17. /\ Told(at, new, W) \in [Sockets -> Nat]
       /\ Agree(new, Told(at, new, W))
       /\ \A v \in Sockets : Told(at, new, W)[v] # 0 <=> \E p \in 1 .. n : h[p] = v
    BY <1>16, Rearranged
<1>18. [Told(H.at, new, W) EXCEPT ![u] = 0] = Told(at, new, W)
    <2>1. \A q \in W : new[q] # u
        BY <1>16, <1>5, <1>9 DEF Rearranges
    <2>2. \A v \in Sockets : v # u => Told(H.at, new, W)[v] = Told(at, new, W)[v]
        BY <1>1 DEF Told, at
    <2>3. Told(at, new, W)[u] = 0
        BY <2>1, <1>1 DEF Told, at
    <2>4. QED
        BY <2>2, <2>3 DEF Told
<1>19. [H.time EXCEPT ![u] = AtOnce] \in [Sockets -> 1 .. MaxTime]
    BY HeapAssumption DEF GoodHeap, AtOnce
<1>20. new \in Seq(Sockets)
    <2>1. n \in Nat
        BY <1>1
    <2>2. QED
        BY <1>14, <2>1
<1>21. \A v \in Sockets : (\E p \in 1 .. n : h[p] = v) <=> H.at[v] # 0 /\ v # u
    <2>1. \A v \in Sockets : H.at[v] # 0 /\ v # u <=> at[v] # 0
        BY <1>1 DEF at
    <2>2. \A p \in 1 .. n : p # i => at[h[p]] # 0
        BY <1>6
    <2>3. ASSUME i \in 1 .. n PROVE H.at[h[i]] # 0
        <3>1. N \in 1 .. N /\ N # 0
            BY <1>1
        <3>2. h[i] = H.nodes[N]
            BY <1>2, <2>3
        <3>3. QED
            BY <1>1, <3>1, <3>2
    <2>4. QED
        BY <2>1, <2>2, <2>3, <1>2, <1>5, <1>7
<1> DEFINE A == Told(at, new, W)
           t == [H.time EXCEPT ![u] = AtOnce]
<1>22. remove_(H, u) = [nodes |-> new, at |-> A, time |-> t]
    BY <1>3, <1>18
<1> HIDE DEF A, t
<1>23. A \in [Sockets -> Nat] /\ Agree(new, A) /\ t \in [Sockets -> 1 .. MaxTime]
    BY <1>17, <1>19 DEF A, t
<1>24. \A v \in Sockets : A[v] # 0 <=> H.at[v] # 0 /\ v # u
    BY <1>17, <1>21 DEF A
<1>25. QED
    BY <1>20, <1>22, <1>23, <1>24 DEF GoodHeap

-----------------------------------------------------------------------------
(* The heap of the specification. *)

HeapGood ==
    /\ heap \in Seq(Sockets)
    /\ loc \in [Sockets -> Nat]
    /\ time \in [Sockets -> 1 .. MaxTime]
    /\ HeapAgrees

\* The heap of the specification, as the operations take it.
LEMMA HeapNowGood == HeapGood => GoodHeap(HeapNow)
BY DEF HeapGood, GoodHeap, HeapNow, HeapAgrees, Agree

\* A step that sets the heap to a well formed one.
LEMMA SetHeapGood ==
    ASSUME NEW H, GoodHeap(H), SetHeap(H)
    PROVE  HeapGood'
BY DEF HeapGood, GoodHeap, SetHeap, HeapAgrees, Agree

\* Whatever update() does, the heap stays well formed, and u is on it then.
LEMMA UpdateWorks ==
    ASSUME HeapGood, NEW u \in Sockets, NEW reschedule
    PROVE  /\ GoodHeap(Updated(u, reschedule))
           /\ \A v \in Sockets : Updated(u, reschedule).at[v] # 0 <=> loc[v] # 0 \/ v = u
<1>0. GoodHeap(HeapNow) /\ HeapNow.at = loc /\ AtOnce \in 1 .. MaxTime
    BY HeapNowGood, HeapAssumption DEF HeapNow, AtOnce
<1>1. CASE loc[u] = 0
    <2>1. Updated(u, reschedule) = insert_(HeapNow, AtOnce, u)
        BY <1>1 DEF Updated
    <2>2. QED
        BY <1>0, <1>1, <2>1, InsertWorks
<1>2. CASE loc[u] # 0 /\ ~reschedule
    <2>1. Updated(u, reschedule) = HeapNow
        BY <1>2 DEF Updated
    <2>2. QED
        BY <1>0, <1>2, <2>1
<1>3. CASE loc[u] # 0 /\ reschedule /\ loc[u] = 1
    <2> DEFINE H == [nodes |-> heap, at |-> loc, time |-> [time EXCEPT ![u] = AtOnce]]
    <2>1. Updated(u, reschedule) = H
        BY <1>3 DEF Updated, HeapNow
    <2>2. GoodHeap(H)
        BY <1>0 DEF GoodHeap, HeapNow
    <2>3. H.at = loc /\ loc[u] # 0
        BY <1>3
    <2> HIDE DEF H
    <2>4. QED
        BY <2>1, <2>2, <2>3
<1>4. CASE loc[u] # 0 /\ reschedule /\ loc[u] # 1
    <2> DEFINE H == remove_(HeapNow, u)
    <2>1. Updated(u, reschedule) = insert_(H, AtOnce, u)
        BY <1>4 DEF Updated
    <2>2. GoodHeap(H) /\ \A v \in Sockets : H.at[v] # 0 <=> loc[v] # 0 /\ v # u
        BY <1>0, <1>4, RemoveWorks
    <2> HIDE DEF H
    <2>3. H.at[u] = 0
        BY <2>2
    <2>4. /\ GoodHeap(insert_(H, AtOnce, u))
          /\ \A v \in Sockets : insert_(H, AtOnce, u).at[v] # 0 <=> H.at[v] # 0 \/ v = u
        BY <1>0, <2>2, <2>3, InsertWorks
    <2>5. QED
        BY <1>4, <2>1, <2>2, <2>4
<1>5. QED
    BY <1>1, <1>2, <1>3, <1>4

\* Nor does remove_ break it, whether u is on the heap or not.
LEMMA TakeOutWorks ==
    ASSUME HeapGood, NEW u \in Sockets
    PROVE  /\ GoodHeap(remove_(HeapNow, u))
           /\ \A v \in Sockets : remove_(HeapNow, u).at[v] # 0 <=> loc[v] # 0 /\ v # u
<1>0. GoodHeap(HeapNow) /\ HeapNow.at = loc
    BY HeapNowGood DEF HeapNow
<1>1. CASE loc[u] = 0
    <2>1. remove_(HeapNow, u) = HeapNow
        BY <1>0, <1>1 DEF remove_
    <2>2. QED
        BY <1>0, <1>1, <2>1
<1>2. CASE loc[u] # 0
    BY <1>0, <1>2, RemoveWorks
<1>3. QED
    BY <1>1, <1>2

\* The socket that pop() takes out is put back with a later time.
LEMMA PutBackWorks ==
    ASSUME HeapGood, NEW u \in Sockets, NEW ts \in 1 .. MaxTime
    PROVE  /\ GoodHeap(insert_(remove_(HeapNow, u), ts, u))
           /\ \A v \in Sockets :
                 insert_(remove_(HeapNow, u), ts, u).at[v] # 0 <=> loc[v] # 0 \/ v = u
<1> DEFINE H == remove_(HeapNow, u)
<1>1. GoodHeap(H) /\ \A v \in Sockets : H.at[v] # 0 <=> loc[v] # 0 /\ v # u
    BY TakeOutWorks
<1> HIDE DEF H
<1>2. H.at[u] = 0
    BY <1>1
<1>3. /\ GoodHeap(insert_(H, ts, u))
      /\ \A v \in Sockets : insert_(H, ts, u).at[v] # 0 <=> H.at[v] # 0 \/ v = u
    BY <1>1, <1>2, InsertWorks
<1>4. /\ GoodHeap(insert_(H, ts, u))
      /\ \A v \in Sockets : insert_(H, ts, u).at[v] # 0 <=> loc[v] # 0 \/ v = u
    BY <1>1, <1>3
<1>5. QED
    BY <1>4 DEF H

\* Somebody is on the heap exactly when somebody has a place there.
LEMMA HeapPlaces ==
    ASSUME HeapGood
    PROVE  /\ \A u \in Sockets : loc[u] # 0 <=> \E i \in DOMAIN heap : heap[i] = u
           /\ heap # << >> => heap[1] \in Sockets /\ loc[heap[1]] = 1
           /\ heap = << >> <=> \A u \in Sockets : loc[u] = 0
<1>1. \A u \in Sockets : loc[u] # 0 <=> \E i \in DOMAIN heap : heap[i] = u
    BY DEF HeapGood, HeapAgrees
<1>2. heap # << >> => heap[1] \in Sockets /\ loc[heap[1]] = 1
    BY DEF HeapGood, HeapAgrees
<1>3. heap = << >> => \A u \in Sockets : loc[u] = 0
    BY DEF HeapGood, HeapAgrees
<1>4. QED
    BY <1>1, <1>2, <1>3

\* No place lies beyond the number of the sockets: a heap that holds none twice is no
\* longer than that.
LEMMA PlacesBounded == HeapGood => loc \in [Sockets -> 0 .. Cardinality(Sockets)]
<1> SUFFICES ASSUME HeapGood PROVE loc \in [Sockets -> 0 .. Cardinality(Sockets)]
    OBVIOUS
<1> DEFINE n == Len(heap)
<1>1. GoodHeap(HeapNow) /\ HeapNow.nodes = heap /\ HeapNow.at = loc
    BY HeapNowGood DEF HeapNow
<1>2. /\ heap \in [1 .. n -> Sockets] /\ n \in Nat
      /\ \A p, q \in 1 .. n : heap[p] = heap[q] => p = q
      /\ \A v \in Sockets : loc[v] # 0 => loc[v] \in 1 .. n
    BY <1>1, Injective
<1>3. IsFiniteSet(1 .. n) /\ Cardinality(1 .. n) = n
    <2>1. IsFiniteSet(1 .. n) /\ Cardinality(1 .. n) = IF 1 > n THEN 0 ELSE n - 1 + 1
        BY <1>2, FS_Interval
    <2>2. QED
        BY <1>2, <2>1
<1>4. heap \in Injection(1 .. n, Sockets)
    BY <1>2 DEF Injection, IsInjective
<1>5. Cardinality(1 .. n) =< Cardinality(Sockets) /\ Cardinality(Sockets) \in Nat
    BY <1>3, <1>4, FS_Injection, FS_CardinalityType, HeapAssumption
<1>6. QED
    <2> HIDE DEF n
    <2> QED BY <1>2, <1>3, <1>5 DEF HeapGood

-----------------------------------------------------------------------------
(* The heap alone, its operations called in any order. *)

\* HeapAgrees, for CSndUList by itself: whatever its operations are called with, and in
\* which order, each node's m_iHeapLoc is where the node is.  remove_ depends on it.
THEOREM HeapSafe == HeapSpec => []HeapAgrees
<1> DEFINE HInv == HeapGood /\ now \in 1 .. MaxTime
<1>1. HeapInit => HInv
    BY HeapAssumption DEF HeapInit, HeapGood, HeapAgrees, AtOnce
<1>2. ASSUME HInv, [HeapNext]_<<heapVars, now>>
      PROVE  HInv'
    <2>1. ASSUME NEW u \in Sockets, HeapRemove(u) PROVE HInv'
        BY <1>2, <2>1, TakeOutWorks, SetHeapGood DEF HeapRemove
    <2>2. ASSUME NEW u \in Sockets, NEW reschedule \in BOOLEAN, HeapUpdate(u, reschedule)
          PROVE  HInv'
        BY <1>2, <2>2, UpdateWorks, SetHeapGood DEF HeapUpdate
    <2>3. ASSUME HeapPop PROVE HInv'
        <3>1. heap[1] \in Sockets /\ now' = now
            BY <1>2, <2>3, HeapPlaces DEF HeapPop
        <3>2. CASE SetHeap(remove_(HeapNow, heap[1]))
            BY <1>2, <3>1, <3>2, TakeOutWorks, SetHeapGood
        <3>3. CASE \E d \in {d \in Intervals : now + d =< MaxTime} :
                       SetHeap(insert_(remove_(HeapNow, heap[1]), now + d, heap[1]))
            <4>1. PICK d \in Intervals :
                      /\ now + d =< MaxTime
                      /\ SetHeap(insert_(remove_(HeapNow, heap[1]), now + d, heap[1]))
                BY <3>3
            <4>2. now + d \in 1 .. MaxTime
                BY <1>2, <4>1, HeapAssumption
            <4>3. QED
                BY <1>2, <3>1, <4>1, <4>2, PutBackWorks, SetHeapGood
        <3>4. QED
            BY <2>3, <3>2, <3>3 DEF HeapPop
    <2>4. ASSUME HeapTick PROVE HInv'
        BY <1>2, <2>4, HeapAssumption DEF HeapTick, heapVars, HeapGood, HeapAgrees
    <2>5. CASE UNCHANGED <<heapVars, now>>
        BY <1>2, <2>5 DEF heapVars, HeapGood, HeapAgrees
    <2>6. QED
        BY <1>2, <2>1, <2>2, <2>3, <2>4, <2>5 DEF HeapNext
<1>3. HInv => HeapAgrees
    BY DEF HeapGood
<1>4. QED
    BY <1>1, <1>2, <1>3, PTL DEF HeapSpec

-----------------------------------------------------------------------------
(* The inductive invariant of the schedule. *)

CallerStates ==
    {Idle, [at |-> "signal"]}
    \cup [at : {"update"}, sock : Sockets, hurry : BOOLEAN]
    \cup [at : {"close"}, sock : Sockets]

PlacesOK ==
    /\ worker \in {"ask", "compare", "sleepto", "asleep", "pop", "test", "waiting", "gone"}
    /\ queue \in {"open", "closing", "joining", "gone"}
    /\ link \in [Sockets -> {"up", "broken", "closed"}]

ClockOK ==
    /\ now \in 1 .. MaxTime
    /\ chosen \in 0 .. MaxTime
    /\ schedTime \in 0 .. MaxTime

CallersOK == caller \in [Callers -> CallerStates]

\* No socket has more to send than it was ever given.
DataCounted ==
    /\ calls \in 0 .. MaxCalls
    /\ sndData \in [Sockets -> Nat]
    /\ \A u \in Sockets : sndData[u] =< calls
    /\ dropped \subseteq Sockets

\* A socket with something to send has a place, or somebody is about to give it one or
\* to take it out, or its last message was dropped.
Expected(u) ==
    \/ loc[u] # 0
    \/ u \in dropped
    \/ \E c \in Callers : caller[c].at \in {"update", "close"} /\ caller[c].sock = u

SendersExpected == \A u \in Sockets : link[u] = "up" /\ sndData[u] > 0 => Expected(u)

SInv ==
    /\ HeapGood /\ PlacesOK /\ ClockOK /\ CallersOK /\ DataCounted
    /\ SendersExpected /\ WorkerWoken

\* What the state of a caller may be.
LEMMA CallerIs ==
    ASSUME CallersOK, NEW c \in Callers
    PROVE  /\ caller[c].at \in {"idle", "signal", "update", "close"}
           /\ caller[c].at \in {"update", "close"} => caller[c].sock \in Sockets
<1>1. caller[c] \in CallerStates
    BY DEF CallersOK
<1>2. QED
    BY <1>1 DEF CallerStates, Idle

\* A step of caller c leaves the other callers where they are.
LEMMA CallerMoves ==
    ASSUME CallersOK, NEW c \in Callers, NEW s \in CallerStates,
           caller' = [caller EXCEPT ![c] = s]
    PROVE  /\ CallersOK'
           /\ caller'[c] = s /\ \A d \in Callers : d # c => caller'[d] = caller[d]
BY DEF CallersOK

\* One lemma per step of the specification: something more to send,
LEMMA SupplyKeeps ==
    ASSUME SInv, NEW c \in Callers, NEW u \in Sockets, NEW hurry \in BOOLEAN,
           Supply(c, u, hurry)
    PROVE  SInv'
<1> DEFINE s == [at |-> "update", sock |-> u, hurry |-> hurry]
<1>1. s \in CallerStates
    BY DEF CallerStates
<1>2. s.at = "update" /\ s.sock = u
    OBVIOUS
<1>3. caller' = [caller EXCEPT ![c] = s]
    BY DEF Supply
<1> HIDE DEF s
<1>4. CallersOK' /\ caller'[c] = s /\ \A d \in Callers : d # c => caller'[d] = caller[d]
    BY <1>1, <1>3, CallerMoves DEF SInv
<1>5. HeapGood' /\ PlacesOK' /\ ClockOK'
    BY DEF SInv, Supply, heapVars, HeapGood, HeapAgrees, PlacesOK, ClockOK
<1>6. DataCounted'
    <2>1. /\ calls' = calls + 1 /\ calls < MaxCalls /\ dropped' = dropped
          /\ sndData' = [sndData EXCEPT ![u] = @ + 1]
        BY DEF Supply
    <2>2. DataCounted
        BY DEF SInv
    <2>3. calls' \in 0 .. MaxCalls /\ sndData' \in [Sockets -> Nat]
        BY <2>1, <2>2, ScheduleAssumption DEF DataCounted
    <2>4. \A v \in Sockets : sndData'[v] =< calls'
        BY <2>1, <2>2 DEF DataCounted
    <2>5. QED
        BY <2>1, <2>2, <2>3, <2>4 DEF DataCounted
<1>7. SendersExpected'
    <2> SUFFICES ASSUME NEW v \in Sockets, link'[v] = "up", sndData'[v] > 0
                 PROVE  Expected(v)'
        BY DEF SendersExpected
    <2>1. CASE v = u
        BY <2>1, <1>2, <1>4 DEF Expected
    <2>2. CASE v # u
        <3>1. Expected(v)
            BY <2>2 DEF SInv, Supply, SendersExpected, DataCounted
        <3>2. loc' = loc /\ dropped' = dropped /\ caller[c].at = "idle"
            BY DEF Supply, heapVars
        <3>3. QED
            BY <1>4, <3>1, <3>2 DEF Expected
    <2>3. QED
        BY <2>1, <2>2
<1>8. WorkerWoken'
    <2>1. UNCHANGED <<worker, heap, queue>> /\ caller[c].at = "idle"
        BY DEF Supply, heapVars
    <2>2. ~ListFree => ~ListFree'
        BY <2>1, <1>4 DEF ListFree
    <2>3. QED
        BY <2>1, <2>2 DEF SInv, WorkerWoken
<1>9. QED
    BY <1>4, <1>5, <1>6, <1>7, <1>8 DEF SInv

\* ... a broken connection,
LEMMA BreakKeeps ==
    ASSUME SInv, NEW c \in Callers, NEW u \in Sockets, Break(c, u)
    PROVE  SInv'
<1> DEFINE s == [at |-> "update", sock |-> u, hurry |-> TRUE]
<1>1. s \in CallerStates
    BY DEF CallerStates
<1>2. s.at = "update"
    OBVIOUS
<1>3. caller' = [caller EXCEPT ![c] = s] /\ caller[c].at = "idle"
    BY DEF Break
<1> HIDE DEF s
<1>4. CallersOK' /\ caller'[c] = s /\ \A d \in Callers : d # c => caller'[d] = caller[d]
    BY <1>1, <1>3, CallerMoves DEF SInv
<1>5. HeapGood' /\ PlacesOK' /\ ClockOK' /\ DataCounted'
    BY DEF SInv, Break, heapVars, HeapGood, HeapAgrees, PlacesOK, ClockOK, DataCounted
<1>6. SendersExpected'
    <2> SUFFICES ASSUME NEW v \in Sockets, link'[v] = "up", sndData'[v] > 0
                 PROVE  Expected(v)'
        BY DEF SendersExpected
    <2>1. link[v] = "up" /\ sndData[v] > 0 /\ loc' = loc /\ dropped' = dropped
        BY DEF SInv, Break, PlacesOK, heapVars
    <2>2. Expected(v)
        BY <2>1 DEF SInv, SendersExpected
    <2>3. QED
        BY <1>3, <1>4, <2>1, <2>2 DEF Expected
<1>7. WorkerWoken'
    <2>1. UNCHANGED <<worker, heap, queue>>
        BY DEF Break, heapVars
    <2>2. ~ListFree => ~ListFree'
        BY <1>3, <1>4 DEF ListFree
    <2>3. QED
        BY <2>1, <2>2 DEF SInv, WorkerWoken
<1>8. QED
    BY <1>4, <1>5, <1>6, <1>7 DEF SInv

\* ... a timer that has run out,
LEMMA ExpireKeeps ==
    ASSUME SInv, NEW c \in Callers, NEW u \in Sockets, Expire(c, u)
    PROVE  SInv'
<1> DEFINE s == [at |-> "update", sock |-> u, hurry |-> TRUE]
<1>1. s \in CallerStates /\ s.at = "update"
    BY DEF CallerStates
<1>2. /\ caller' = [caller EXCEPT ![c] = s] /\ caller[c].at = "idle"
      /\ UNCHANGED <<heap, loc, time, now, sndData, dropped, link, worker, chosen, schedTime,
                     queue, calls>>
    BY DEF Expire, heapVars
<1> HIDE DEF s
<1>3. CallersOK' /\ caller'[c] = s /\ \A d \in Callers : d # c => caller'[d] = caller[d]
    BY <1>1, <1>2, CallerMoves DEF SInv
<1>4. HeapGood' /\ PlacesOK' /\ ClockOK' /\ DataCounted'
    BY <1>2 DEF SInv, HeapGood, HeapAgrees, PlacesOK, ClockOK, DataCounted
<1>5. SendersExpected'
    BY <1>2, <1>3 DEF SInv, SendersExpected, Expected
<1>6. WorkerWoken'
    <2>1. ~ListFree => ~ListFree'
        BY <1>2, <1>3 DEF ListFree
    <2>2. QED
        BY <1>2, <2>1 DEF SInv, WorkerWoken
<1>7. QED
    BY <1>3, <1>4, <1>5, <1>6 DEF SInv

\* What Interrupt does to the clock of the worker.
LEMMA InterruptKeeps ==
    ASSUME ClockOK, NEW condition, Interrupt(condition), now' = now, chosen' = chosen
    PROVE  ClockOK'
BY DEF ClockOK, Interrupt

\* ... update, which wakes a worker only through the signal that is still to come,
LEMMA UpdateKeeps ==
    ASSUME SInv, NEW c \in Callers, Update(c)
    PROVE  SInv'
<1> DEFINE u == caller[c].sock
           H == Updated(u, caller[c].hurry)
           s == IF loc[u] = 0 /\ heap = << >> THEN [at |-> "signal"] ELSE Idle
<1>1. /\ caller[c].at = "update" /\ ListFree
      /\ SetHeap(H)
      /\ Interrupt(/\ loc[u] = 0 \/ caller[c].hurry
                   /\ H.at[u] = 1 \/ (loc[u] = 2 /\ Len(heap) = 2))
      /\ dropped' = dropped \ {u}
      /\ caller' = [caller EXCEPT ![c] = s]
      /\ UNCHANGED <<now, sndData, link, worker, chosen, queue, calls>>
    BY DEF Update
<1>2. u \in Sockets
    BY <1>1, CallerIs DEF SInv
<1>3. s \in CallerStates /\ (s.at = "signal" <=> loc[u] = 0 /\ heap = << >>)
    BY DEF CallerStates, Idle
<1> HIDE DEF s
<1>4. CallersOK' /\ caller'[c] = s /\ \A d \in Callers : d # c => caller'[d] = caller[d]
    BY <1>1, <1>3, CallerMoves DEF SInv
<1>5. GoodHeap(H) /\ \A v \in Sockets : H.at[v] # 0 <=> loc[v] # 0 \/ v = u
    <2> HIDE DEF u
    <2> QED BY <1>2, UpdateWorks DEF SInv
<1> HIDE DEF H
<1>6. HeapGood' /\ \A v \in Sockets : loc'[v] # 0 <=> loc[v] # 0 \/ v = u
    BY <1>1, <1>5, SetHeapGood DEF SetHeap
<1>7. PlacesOK' /\ DataCounted'
    BY <1>1 DEF SInv, PlacesOK, DataCounted
<1>8. ClockOK'
    BY <1>1, InterruptKeeps DEF SInv
<1>9. SendersExpected'
    <2> SUFFICES ASSUME NEW v \in Sockets, link'[v] = "up", sndData'[v] > 0
                 PROVE  Expected(v)'
        BY DEF SendersExpected
    <2>1. Expected(v)
        BY <1>1 DEF SInv, SendersExpected
    <2>2. CASE v = u
        BY <2>2, <1>6 DEF Expected
    <2>3. CASE v # u
        BY <2>1, <2>3, <1>1, <1>4, <1>6 DEF Expected
    <2>4. QED
        BY <2>2, <2>3
<1>10. WorkerWoken'
    <2> SUFFICES ASSUME worker' = "waiting"
                 PROVE  ~ListFree' /\ queue' \in {"open", "closing"}
        BY DEF WorkerWoken
    <2>1. heap = << >> /\ queue \in {"open", "closing"}
        BY <1>1 DEF SInv, WorkerWoken
    <2>2. loc[u] = 0
        BY <2>1, <1>2, HeapPlaces DEF SInv
    <2>3. caller'[c].at = "signal"
        BY <1>3, <1>4, <2>1, <2>2
    <2>4. QED
        BY <1>1, <2>1, <2>3 DEF ListFree
<1>11. QED
    BY <1>4, <1>6, <1>7, <1>8, <1>9, <1>10 DEF SInv

\* ... that signal,
LEMMA SignalKeeps ==
    ASSUME SInv, NEW c \in Callers, Signal(c)
    PROVE  SInv'
<1>1. caller' = [caller EXCEPT ![c] = Idle] /\ caller[c].at = "signal"
    BY DEF Signal
<1>2. Idle \in CallerStates
    BY DEF CallerStates
<1>3. CallersOK' /\ caller'[c] = Idle /\ \A d \in Callers : d # c => caller'[d] = caller[d]
    BY <1>1, <1>2, CallerMoves DEF SInv
<1>4. HeapGood' /\ PlacesOK' /\ ClockOK' /\ DataCounted'
    BY DEF SInv, Signal, heapVars, HeapGood, HeapAgrees, PlacesOK, ClockOK, DataCounted
<1>5. SendersExpected'
    <2> SUFFICES ASSUME NEW v \in Sockets, link'[v] = "up", sndData'[v] > 0
                 PROVE  Expected(v)'
        BY DEF SendersExpected
    <2>1. Expected(v) /\ loc' = loc /\ dropped' = dropped
        BY DEF SInv, SendersExpected, Signal, heapVars
    <2>2. QED
        BY <1>1, <1>3, <2>1 DEF Expected
<1>6. WorkerWoken'
    BY DEF Signal, WorkerWoken, SInv, PlacesOK
<1>7. QED
    BY <1>3, <1>4, <1>5, <1>6 DEF SInv

\* ... close, which takes the socket out,
LEMMA CloseKeeps ==
    ASSUME SInv, NEW c \in Callers, NEW u \in Sockets, Close(c, u)
    PROVE  SInv'
<1> DEFINE H == remove_(HeapNow, u)
           s == [at |-> "close", sock |-> u]
<1>1. /\ caller[c].at = "idle" /\ ListFree
      /\ SetHeap(H) /\ Interrupt(Len(H.nodes) = 1)
      /\ caller' = [caller EXCEPT ![c] = s]
      /\ UNCHANGED <<now, sndData, dropped, link, worker, chosen, queue, calls>>
    BY DEF Close
<1>2. s \in CallerStates /\ s.at = "close" /\ s.sock = u
    BY DEF CallerStates
<1> HIDE DEF s
<1>3. CallersOK' /\ caller'[c] = s /\ \A d \in Callers : d # c => caller'[d] = caller[d]
    BY <1>1, <1>2, CallerMoves DEF SInv
<1>4. GoodHeap(H) /\ \A v \in Sockets : H.at[v] # 0 <=> loc[v] # 0 /\ v # u
    BY TakeOutWorks DEF SInv
<1> HIDE DEF H
<1>5. HeapGood' /\ \A v \in Sockets : loc'[v] # 0 <=> loc[v] # 0 /\ v # u
    BY <1>1, <1>4, SetHeapGood DEF SetHeap
<1>6. PlacesOK' /\ DataCounted'
    BY <1>1 DEF SInv, PlacesOK, DataCounted
<1>7. ClockOK'
    BY <1>1, InterruptKeeps DEF SInv
<1>8. SendersExpected'
    <2> SUFFICES ASSUME NEW v \in Sockets, link'[v] = "up", sndData'[v] > 0
                 PROVE  Expected(v)'
        BY DEF SendersExpected
    <2>1. Expected(v)
        BY <1>1 DEF SInv, SendersExpected
    <2>2. CASE v = u
        BY <2>2, <1>2, <1>3 DEF Expected
    <2>3. CASE v # u
        BY <2>1, <2>3, <1>1, <1>3, <1>5 DEF Expected
    <2>4. QED
        BY <2>2, <2>3
<1>9. WorkerWoken'
    <2> SUFFICES ASSUME worker' = "waiting"
                 PROVE  heap' = << >> /\ queue' \in {"open", "closing"}
        BY DEF WorkerWoken
    <2>1. heap = << >> /\ queue \in {"open", "closing"}
        BY <1>1 DEF SInv, WorkerWoken
    <2>2. loc[u] = 0
        BY <2>1, HeapPlaces DEF SInv
    <2>3. H = HeapNow
        BY <2>2 DEF H, remove_, HeapNow
    <2>4. QED
        BY <1>1, <2>1, <2>3 DEF SetHeap, HeapNow
<1>10. QED
    BY <1>3, <1>5, <1>6, <1>7, <1>8, <1>9 DEF SInv

\* ... and disconnects it later,
LEMMA DisconnectKeeps ==
    ASSUME SInv, NEW c \in Callers, Disconnect(c)
    PROVE  SInv'
<1>1. caller' = [caller EXCEPT ![c] = Idle] /\ caller[c].at = "close"
    BY DEF Disconnect
<1>2. Idle \in CallerStates
    BY DEF CallerStates
<1>3. CallersOK' /\ caller'[c] = Idle /\ \A d \in Callers : d # c => caller'[d] = caller[d]
    BY <1>1, <1>2, CallerMoves DEF SInv
<1>4. HeapGood' /\ PlacesOK' /\ ClockOK' /\ DataCounted'
    BY DEF SInv, Disconnect, heapVars, HeapGood, HeapAgrees, PlacesOK, ClockOK, DataCounted
<1>5. SendersExpected'
    <2> SUFFICES ASSUME NEW v \in Sockets, link'[v] = "up", sndData'[v] > 0
                 PROVE  Expected(v)'
        BY DEF SendersExpected
    <2>1. caller[c].sock \in Sockets
        BY <1>1, CallerIs DEF SInv
    <2>2. /\ v # caller[c].sock /\ link[v] = "up" /\ sndData[v] > 0
          /\ loc' = loc /\ dropped' = dropped
        BY <2>1 DEF SInv, Disconnect, PlacesOK, heapVars
    <2>3. Expected(v)
        BY <2>2 DEF SInv, SendersExpected
    <2>4. QED
        BY <1>1, <1>3, <2>2, <2>3 DEF Expected
<1>6. WorkerWoken'
    <2>1. UNCHANGED <<worker, heap, queue>>
        BY DEF Disconnect, heapVars
    <2>2. ~ListFree => ~ListFree'
        BY <1>1, <1>3 DEF ListFree
    <2>3. QED
        BY <2>1, <2>2 DEF SInv, WorkerWoken
<1>7. QED
    BY <1>3, <1>4, <1>5, <1>6 DEF SInv

\* When nothing is packed there is nothing left, or the rest was left off after a drop,
\* or a thread is about to update the heap.
LEMMA NothingPackedKeeps ==
    ASSUME DataCounted, NEW u \in Sockets, NothingPacked(u), UNCHANGED <<caller, link, calls>>
    PROVE  /\ DataCounted' /\ dropped \subseteq dropped'
           /\ \A v \in Sockets : sndData'[v] =< sndData[v] /\ (v # u => sndData'[v] = sndData[v])
           /\ link[u] = "up" /\ sndData'[u] > 0 => Expected(u)'
<1>1. sndData[u] \in Nat
    BY DEF DataCounted
<1>2. CASE (u \notin connected \/ sndData[u] = 0) /\ UNCHANGED <<sndData, dropped>>
    BY <1>2 DEF DataCounted, connected
<1>3. ASSUME NEW left \in Nat, left < sndData[u], sndData' = [sndData EXCEPT ![u] = left],
             dropped \subseteq dropped', dropped' \subseteq dropped \cup {u}
      PROVE  /\ DataCounted'
             /\ \A v \in Sockets : sndData'[v] =< sndData[v] /\ (v # u => sndData'[v] = sndData[v])
    <2>1. /\ sndData' \in [Sockets -> Nat]
          /\ \A v \in Sockets : sndData'[v] =< sndData[v] /\ (v # u => sndData'[v] = sndData[v])
        BY <1>3 DEF DataCounted
    <2>2. QED
        BY <1>3, <2>1 DEF DataCounted
<1>4. ASSUME NEW left \in 0 .. sndData[u] - 1, sndData' = [sndData EXCEPT ![u] = left],
             dropped' = IF left > 0 THEN dropped \cup {u} ELSE dropped
      PROVE  /\ DataCounted' /\ dropped \subseteq dropped'
             /\ \A v \in Sockets : sndData'[v] =< sndData[v] /\ (v # u => sndData'[v] = sndData[v])
             /\ sndData'[u] > 0 => Expected(u)'
    <2>1. left \in Nat /\ left < sndData[u] /\ sndData'[u] = left
        BY <1>1, <1>4 DEF DataCounted
    <2>2. QED
        BY <1>3, <1>4, <2>1 DEF Expected
<1>5. ASSUME sndData[u] > 0, sndData' = [sndData EXCEPT ![u] = @ - 1], dropped' = dropped,
             \E c \in Callers : caller[c].at = "update" /\ caller[c].sock = u
      PROVE  /\ DataCounted'
             /\ \A v \in Sockets : sndData'[v] =< sndData[v] /\ (v # u => sndData'[v] = sndData[v])
             /\ Expected(u)'
    <2>1. sndData[u] - 1 \in Nat /\ sndData[u] - 1 < sndData[u]
        BY <1>1, <1>5
    <2>2. QED
        BY <1>3, <1>5, <2>1 DEF Expected
<1>6. QED
    BY <1>2, <1>4, <1>5 DEF NothingPacked

\* ... and pop, which may or may not put back the socket it takes out.
LEMMA PopKeeps ==
    ASSUME SInv, WorkerPop
    PROVE  SInv'
<1>1. /\ worker' = "ask"
      /\ UNCHANGED <<now, link, chosen, caller, queue, calls>>
    BY DEF WorkerPop
<1>2. WorkerWoken' /\ PlacesOK' /\ CallersOK'
    BY <1>1 DEF SInv, WorkerWoken, PlacesOK, CallersOK
<1>3. CASE heap = << >> \/ now < time[heap[1]]
    <2>1. UNCHANGED <<heapVars, sndData, dropped, schedTime>>
        BY <1>3 DEF WorkerPop
    <2>2. HeapGood' /\ ClockOK' /\ DataCounted'
        BY <1>1, <2>1 DEF SInv, heapVars, HeapGood, HeapAgrees, ClockOK, DataCounted
    <2>3. SendersExpected'
        BY <1>1, <2>1 DEF SInv, heapVars, SendersExpected, Expected
    <2>4. QED
        BY <1>2, <2>2, <2>3 DEF SInv
<1>4. CASE ~ (heap = << >> \/ now < time[heap[1]])
    <2>1. PICK u \in Sockets : u = heap[1] /\ loc[u] # 0
        BY <1>4, HeapPlaces DEF SInv
    <2> DEFINE H == remove_(HeapNow, u)
    <2>2. CASE NothingPacked(u) /\ SetHeap(H) /\ Interrupt(Len(H.nodes) = 1)
        <3>1. SetHeap(H) /\ NothingPacked(u) /\ Interrupt(Len(H.nodes) = 1)
            BY <2>2
        <3>2. GoodHeap(H) /\ \A v \in Sockets : H.at[v] # 0 <=> loc[v] # 0 /\ v # u
            BY <2>1, TakeOutWorks DEF SInv
        <3> HIDE DEF H
        <3>3. HeapGood' /\ \A v \in Sockets : loc'[v] # 0 <=> loc[v] # 0 /\ v # u
            BY <3>1, <3>2, SetHeapGood DEF SetHeap
        <3>4. ClockOK'
            BY <1>1, <3>1, InterruptKeeps DEF SInv
        <3>5. /\ DataCounted' /\ dropped \subseteq dropped'
              /\ \A v \in Sockets : sndData'[v] =< sndData[v] /\ (v # u => sndData'[v] = sndData[v])
              /\ link[u] = "up" /\ sndData'[u] > 0 => Expected(u)'
            BY <1>1, <2>1, <3>1, NothingPackedKeeps DEF SInv
        <3>6. SendersExpected'
            <4> SUFFICES ASSUME NEW v \in Sockets, link'[v] = "up", sndData'[v] > 0
                         PROVE  Expected(v)'
                BY DEF SendersExpected
            <4>1. CASE v = u
                BY <1>1, <3>5, <4>1
            <4>2. CASE v # u
                <5>1. Expected(v)
                    BY <1>1, <3>5, <4>2 DEF SInv, SendersExpected
                <5>2. QED
                    BY <1>1, <3>3, <3>5, <4>2, <5>1 DEF Expected
            <4>3. QED
                BY <4>1, <4>2
        <3>7. QED
            BY <1>2, <3>3, <3>4, <3>5, <3>6 DEF SInv
    <2>3. ASSUME NEW next \in 0 .. MaxTime, Packed(u, next), SetHeap(insert_(H, next, u)),
                 Interrupt(Len(H.nodes) = 1 \/ insert_(H, next, u).at[u] = 1)
          PROVE  SInv'
        <3>1. /\ u \in connected /\ sndData[u] > 0 /\ dropped' = dropped
              /\ sndData' = [sndData EXCEPT ![u] = @ - 1]
            BY <2>3 DEF Packed
        <3>2. next \in 1 .. MaxTime
            <4>1. PICK d \in Intervals : next = now + d
                BY <2>3 DEF Packed
            <4>2. QED
                BY <4>1, HeapAssumption DEF SInv, ClockOK
        <3> DEFINE I == insert_(H, next, u)
        <3>3. GoodHeap(I) /\ \A v \in Sockets : I.at[v] # 0 <=> loc[v] # 0 \/ v = u
            BY <2>1, <3>2, PutBackWorks DEF SInv
        <3>4. SetHeap(I)
            BY <2>3
        <3> HIDE DEF I
        <3>5. HeapGood' /\ \A v \in Sockets : loc'[v] # 0 <=> loc[v] # 0 \/ v = u
            BY <3>3, <3>4, SetHeapGood DEF SetHeap
        <3> HIDE DEF H
        <3>6. ClockOK'
            BY <1>1, <2>3, InterruptKeeps DEF SInv
        <3>7. DataCounted'
            <4>1. DataCounted /\ sndData[u] # 0
                BY <3>1 DEF SInv, DataCounted
            <4>2. \A v \in Sockets : sndData'[v] \in Nat /\ sndData'[v] =< sndData[v]
                BY <2>1, <3>1, <4>1 DEF DataCounted
            <4>3. sndData' \in [Sockets -> Nat]
                BY <3>1, <4>1, <4>2 DEF DataCounted
            <4>4. QED
                BY <1>1, <3>1, <4>1, <4>2, <4>3 DEF DataCounted
        <3>8. SendersExpected'
            <4> SUFFICES ASSUME NEW v \in Sockets, link'[v] = "up", sndData'[v] > 0
                         PROVE  Expected(v)'
                BY DEF SendersExpected
            <4>1. CASE v = u
                BY <3>5, <4>1 DEF Expected
            <4>2. CASE v # u
                <5>1. Expected(v)
                    BY <1>1, <3>1, <4>2 DEF SInv, SendersExpected, DataCounted
                <5>2. QED
                    BY <1>1, <3>1, <3>5, <5>1 DEF Expected
            <4>3. QED
                BY <4>1, <4>2
        <3>9. QED
            BY <1>2, <3>5, <3>6, <3>7, <3>8 DEF SInv
    <2>4. QED
        BY <1>4, <2>1, <2>2, <2>3 DEF WorkerPop
<1>5. QED
    BY <1>3, <1>4

\* The steps that leave the heap, the callers and the data alone.
LEMMA OthersKeep ==
    ASSUME SInv,
           \/ WorkerAsk \/ WorkerCompare \/ WorkerSleepTo \/ WorkerAwake \/ WorkerTest
           \/ QueueClose \/ QueueSignal \/ QueueJoin \/ Tick \/ Finished \/ UNCHANGED vars
    PROVE  SInv'
<1>1. UNCHANGED <<heap, loc, time, sndData, dropped, link, caller, calls>>
    BY DEF WorkerAsk, WorkerCompare, WorkerSleepTo, WorkerAwake, WorkerTest, QueueClose,
           QueueSignal, QueueJoin, Tick, Finished, vars, heapVars
<1>2. HeapGood' /\ CallersOK' /\ DataCounted' /\ SendersExpected'
    BY <1>1 DEF SInv, HeapGood, HeapAgrees, CallersOK, DataCounted, SendersExpected, Expected
<1>3. /\ heap # << >> => time[heap[1]] \in 1 .. MaxTime
      /\ PlacesOK /\ ClockOK
    BY HeapPlaces DEF SInv, HeapGood
<1>4. PlacesOK'
    BY <1>1, <1>3 DEF PlacesOK, WorkerAsk, WorkerCompare, WorkerSleepTo, WorkerAwake, WorkerTest,
           QueueClose, QueueSignal, QueueJoin, Tick, Finished, vars, heapVars
<1>5. ClockOK'
    <2>0. 0 \in 0 .. MaxTime
        BY HeapAssumption
    <2>1. CASE WorkerAsk
        <3>1. UNCHANGED <<now, schedTime>>
            BY <2>1 DEF WorkerAsk
        <3>2. QED
            BY <1>3, <2>1, <2>0, HeapAssumption DEF ClockOK, WorkerAsk
    <2>2. CASE WorkerCompare \/ WorkerSleepTo \/ WorkerAwake \/ WorkerTest
        <3>1. now' = now /\ chosen' \in {chosen, 0} /\ schedTime' \in {schedTime, chosen, 0}
            BY <2>2 DEF WorkerCompare, WorkerSleepTo, WorkerAwake, WorkerTest
        <3>2. QED
            BY <1>3, <2>0, <3>1 DEF ClockOK
    <2>3. CASE QueueClose \/ QueueSignal \/ QueueJoin \/ Tick \/ Finished \/ UNCHANGED vars
        BY <1>3, <2>3, HeapAssumption
           DEF ClockOK, QueueClose, QueueSignal, QueueJoin, Tick, Finished, vars
    <2>4. QED
        BY <2>1, <2>2, <2>3
<1>6. WorkerWoken'
    <2>1. ListFree' <=> ListFree
        BY <1>1 DEF ListFree
    <2>2. CASE WorkerAsk \/ WorkerCompare \/ WorkerSleepTo \/ WorkerAwake
        BY <2>2, <1>3 DEF WorkerWoken, WorkerAsk, WorkerCompare, WorkerSleepTo, WorkerAwake
    <2>3. CASE WorkerTest
        BY <2>3, <1>1, <1>3 DEF WorkerWoken, WorkerTest, Closing, PlacesOK
    <2>4. CASE QueueClose \/ QueueSignal \/ QueueJoin
        BY <2>4, <1>1, <2>1 DEF SInv, WorkerWoken, QueueClose, QueueSignal, QueueJoin
    <2>5. CASE Tick \/ Finished \/ UNCHANGED vars
        BY <2>5, <1>1, <2>1 DEF SInv, WorkerWoken, Tick, Finished, vars
    <2>6. QED
        BY <2>2, <2>3, <2>4, <2>5
<1>7. QED
    BY <1>2, <1>4, <1>5, <1>6 DEF SInv

-----------------------------------------------------------------------------
(* What follows for the specification. *)

\* The inductive invariant holds in every state.
LEMMA SInvAlways == Spec => []SInv
<1>1. Init => SInv
    <2> SUFFICES ASSUME Init PROVE SInv
        OBVIOUS
    <2>1. HeapGood /\ ClockOK /\ PlacesOK /\ DataCounted
        BY HeapAssumption, ScheduleAssumption
           DEF Init, HeapInit, HeapGood, HeapAgrees, ClockOK, PlacesOK, DataCounted, AtOnce
    <2>2. CallersOK
        BY DEF Init, CallersOK, CallerStates
    <2>3. SendersExpected /\ WorkerWoken
        BY DEF Init, SendersExpected, WorkerWoken
    <2>4. QED
        BY <2>1, <2>2, <2>3 DEF SInv
<1>2. SInv /\ [Next]_vars => SInv'
    <2> SUFFICES ASSUME SInv, [Next]_vars PROVE SInv'
        OBVIOUS
    <2>1. CASE \E c \in Callers, u \in Sockets, hurry \in BOOLEAN : Supply(c, u, hurry)
        BY <2>1, SupplyKeeps
    <2>2. CASE \E c \in Callers, u \in Sockets : Break(c, u) \/ Close(c, u) \/ Expire(c, u)
        BY <2>2, BreakKeeps, CloseKeeps, ExpireKeeps
    <2>3. CASE \E c \in Callers : CallerStep(c)
        BY <2>3, UpdateKeeps, SignalKeeps, DisconnectKeeps DEF CallerStep
    <2>4. CASE WorkerStep
        BY <2>4, PopKeeps, OthersKeep DEF WorkerStep
    <2>5. CASE QueueClose \/ QueueSignal \/ QueueJoin \/ Tick \/ Finished \/ UNCHANGED vars
        BY <2>5, OthersKeep
    <2>6. QED
        BY <2>1, <2>2, <2>3, <2>4, <2>5 DEF Next
<1>3. QED
    BY <1>1, <1>2, PTL DEF Spec

\* It implies the types, for which the length of the heap must be bounded,
LEMMA SInvTypes == SInv => TypeOK
<1> SUFFICES ASSUME SInv PROVE TypeOK
    OBVIOUS
<1>1. HeapTypeOK
    BY PlacesBounded DEF SInv, HeapGood, HeapTypeOK, ClockOK
<1>2. /\ sndData \in [Sockets -> 0 .. MaxCalls] /\ calls \in 0 .. MaxCalls
      /\ dropped \subseteq Sockets
    <2>1. DataCounted
        BY DEF SInv
    <2>2. \A u \in Sockets : sndData[u] \in 0 .. MaxCalls
        BY <2>1, ScheduleAssumption DEF DataCounted
    <2>3. QED
        BY <2>1, <2>2 DEF DataCounted
<1>3. QED
    BY <1>1, <1>2 DEF SInv, PlacesOK, ClockOK, CallersOK, CallerStates, TypeOK

\* TypeOK, for every number of sockets, of callers and of calls.
THEOREM TypeCorrect == Spec => []TypeOK
BY SInvAlways, SInvTypes, PTL

\* HeapAgrees, when the threads of SendSchedule are the ones that call the heap.
THEOREM HeapTrusted == Spec => []HeapAgrees
<1>1. SInv => HeapAgrees
    BY DEF SInv, HeapGood
<1>2. QED
    BY <1>1, SInvAlways, PTL

\* ... and that nobody is forgotten.
LEMMA SInvForgets == SInv => NobodyForgotten
<1> SUFFICES ASSUME SInv PROVE SocketsKept /\ WorkerWoken
    BY DEF NobodyForgotten
<1>1. ASSUME NEW u \in connected \ dropped, sndData[u] > 0
      PROVE  \/ \E i \in DOMAIN heap : heap[i] = u
             \/ \E c \in Callers : caller[c].at \in {"update", "close"} /\ caller[c].sock = u
    <2>1. u \in Sockets /\ link[u] = "up"
        BY DEF connected
    <2>2. Expected(u)
        BY <1>1, <2>1 DEF SInv, SendersExpected
    <2>3. QED
        BY <2>1, <2>2, HeapPlaces DEF SInv, Expected
<1>2. QED
    BY <1>1 DEF SInv, SocketsKept

\* NobodyForgotten: between m_ListLock and m_WindowLock, under which update() and the
\* worker's own test run, no connected socket with data is left off the heap but after
\* a message whose time to live was over, and the worker does not wait while there is
\* an entry, unless the signal is on its way.
THEOREM SocketAndWorkerKept == Spec => []NobodyForgotten
BY SInvAlways, SInvForgets, PTL
=============================================================================
