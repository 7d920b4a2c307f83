------------------------------- MODULE Flattening -------------------------------
(***************************************************************************)
(* What FlattenSeq of the community modules computes, for sequences of     *)
(* sequences of any lengths: each member of an inner sequence has one      *)
(* place in the flattened sequence, and nothing else has one.  FlattenSeq  *)
(* is a recursive function; the inductions are over sets of numbers, by    *)
(* the least number that is not in them.                                   *)
(***************************************************************************)
EXTENDS Naturals, Sequences, SequencesExt, WellFoundedInduction, TLAPS

\* Where the members are: <<i, j>> is that of seqs[i][j].
Positions(seqs) == UNION {{i} \X DOMAIN seqs[i] : i \in DOMAIN seqs}

\* A numbering of these positions in the order of a sequence flat.
Numbers(pos, flat, positions, seqs) ==
    /\ pos \in [DOMAIN flat -> positions]
    /\ \A m, n \in DOMAIN flat : pos[m] = pos[n] => m = n
    /\ \A p \in positions : \E n \in DOMAIN flat : pos[n] = p
    /\ \A n \in DOMAIN flat : flat[n] = seqs[pos[n][1]][pos[n][2]]

-------------------------------------------------------------------------------
\* Induction

LEMMA LeastNumber ==
    ASSUME NEW S \in SUBSET Nat, S # {}
    PROVE  \E n \in S : \A m \in S : n <= m
  <1> DEFINE R == OpToRel(<, Nat)
  <1>1. R = {ss \in Nat \X Nat : ss[1] < ss[2]}
    BY Zenon DEF R, OpToRel
  <1>2. IsWellFoundedOn(R, Nat)
    BY Zenon, NatLessThanWellFounded DEF R
  <1> HIDE DEF R
  <1>3. PICK x \in S : \A y \in S : ~(<<y, x>> \in R)
    BY <1>2, WFMin, Zenon
  <1>4. \A y \in S : ~(y < x)
    BY <1>3, <1>1
  <1> QED
    BY <1>4

LEMMA SetInduction ==
    ASSUME NEW S \in SUBSET Nat, 0 \in S, \A n \in S : n + 1 \in S
    PROVE  S = Nat
  <1> SUFFICES ASSUME Nat \ S # {} PROVE FALSE
    OBVIOUS
  <1>1. PICK n \in Nat \ S : \A m \in Nat \ S : n <= m
    BY LeastNumber
  <1>2. n - 1 \in S
    BY <1>1
  <1> QED
    BY <1>1, <1>2

-------------------------------------------------------------------------------
\* The recursion

\* The recursive function that FlattenSeq chooses: flatten(n)[i] is what the
\* first i sequences are together.
IsFlatten(seqs, n, f) ==
    f = [i \in 1..n |-> IF i = 1 THEN seqs[i] ELSE f[i - 1] \o seqs[i]]

LEMMA FlattenExists ==
    ASSUME NEW seqs, NEW n \in Nat
    PROVE  \E f : IsFlatten(seqs, n, f)
  <1> DEFINE S == {k \in Nat : \E f : IsFlatten(seqs, k, f)}
  <1>1. 0 \in S
    <2> DEFINE f == [i \in 1..0 |-> seqs[i]]
    <2>1. IsFlatten(seqs, 0, f)
      BY DEF IsFlatten
    <2> QED
      BY <2>1
  <1>2. ASSUME NEW k \in S
        PROVE  k + 1 \in S
    <2>1. PICK f : IsFlatten(seqs, k, f)
      OBVIOUS
    <2> DEFINE next == IF k + 1 = 1 THEN seqs[k + 1] ELSE f[k] \o seqs[k + 1]
               g == [i \in 1..(k + 1) |-> IF i = k + 1 THEN next ELSE f[i]]
    <2> HIDE DEF next
    <2>2. ASSUME NEW i \in 1..k
          PROVE  g[i] = IF i = 1 THEN seqs[i] ELSE g[i - 1] \o seqs[i]
      <3>1. g[i] = f[i] /\ (i # 1 => g[i - 1] = f[i - 1])
        OBVIOUS
      <3>2. f[i] = IF i = 1 THEN seqs[i] ELSE f[i - 1] \o seqs[i]
        BY <2>1 DEF IsFlatten
      <3> HIDE DEF g
      <3> QED
        BY <3>1, <3>2
    <2>3. g[k + 1] = IF k + 1 = 1 THEN seqs[k + 1] ELSE g[k] \o seqs[k + 1]
      <3>1. g[k + 1] = next /\ (k + 1 # 1 => g[k] = f[k])
        OBVIOUS
      <3> HIDE DEF g
      <3> QED
        BY <3>1 DEF next
    <2>4. \A i \in 1..(k + 1) :
            g[i] = IF i = 1 THEN seqs[i] ELSE g[i - 1] \o seqs[i]
      <3> HIDE DEF g
      <3>1. \A i \in 1..(k + 1) : i \in 1..k \/ i = k + 1
        OBVIOUS
      <3>2. k + 1 - 1 = k
        OBVIOUS
      <3> QED
        BY <2>2, <2>3, <3>1, <3>2
    <2>5. IsFlatten(seqs, k + 1, g)
      <3>1. g = [i \in 1..(k + 1) |-> g[i]]
        OBVIOUS
      <3> HIDE DEF g
      <3>2. [i \in 1..(k + 1) |-> g[i]]
              = [i \in 1..(k + 1) |-> IF i = 1 THEN seqs[i] ELSE g[i - 1] \o seqs[i]]
        BY <2>4
      <3> QED
        BY <3>1, <3>2 DEF IsFlatten
    <2> QED
      BY <2>5
  <1> HIDE DEF S
  <1>3. S = Nat
    <2>1. S \in SUBSET Nat
      BY DEF S
    <2> QED
      BY <1>1, <1>2, <2>1, SetInduction
  <1> QED
    BY <1>3 DEF S

\* FlattenSeq is the last value of such a function.
LEMMA FlattenIsLast ==
    ASSUME NEW seqs, Len(seqs) \in Nat \ {0}
    PROVE  \E f : IsFlatten(seqs, Len(seqs), f) /\ FlattenSeq(seqs) = f[Len(seqs)]
  <1> DEFINE f == CHOOSE g : IsFlatten(seqs, Len(seqs), g)
  <1>1. IsFlatten(seqs, Len(seqs), f)
    BY FlattenExists
  <1>2. FlattenSeq(seqs) = f[Len(seqs)]
    BY DEF FlattenSeq, IsFlatten
  <1> QED
    BY <1>1, <1>2

-------------------------------------------------------------------------------
\* The numbering

Upto(seqs, k) == {p \in Positions(seqs) : p[1] <= k}

LEMMA NumbersExtend ==
    ASSUME NEW S, NEW seqs \in Seq(Seq(S)), NEW k \in Nat, k + 1 <= Len(seqs),
           NEW flat \in Seq(S), NEW pos, Numbers(pos, flat, Upto(seqs, k), seqs)
    PROVE  \E next : Numbers(next, flat \o seqs[k + 1], Upto(seqs, k + 1), seqs)
  <1> DEFINE more == seqs[k + 1]
             old == Len(flat)
             longer == flat \o more
             new == {<<k + 1, j>> : j \in 1..Len(more)}
             next == [n \in DOMAIN longer |->
                        IF n <= old THEN pos[n] ELSE <<k + 1, n - old>>]
  <1>1. /\ more \in Seq(S) /\ Len(more) \in Nat /\ DOMAIN more = 1..Len(more)
        /\ old \in Nat /\ DOMAIN flat = 1..old
        /\ DOMAIN seqs = 1..Len(seqs) /\ Len(seqs) \in Nat
        /\ k + 1 \in DOMAIN seqs
    OBVIOUS
  <1>2. /\ longer \in Seq(S) /\ DOMAIN longer = 1..(old + Len(more))
        /\ \A n \in 1..old : longer[n] = flat[n]
        /\ \A n \in 1..Len(more) : longer[old + n] = more[n]
    BY <1>1
  <1>3. Upto(seqs, k + 1) = Upto(seqs, k) \cup new
    <2>1. \A p \in Positions(seqs) : p[1] \in Nat /\ p[1] \in DOMAIN seqs
                                     /\ p[2] \in DOMAIN seqs[p[1]] /\ p = <<p[1], p[2]>>
      BY <1>1 DEF Positions
    <2>2. new \subseteq Positions(seqs)
      BY <1>1 DEF Positions
    <2>3. \A p \in Positions(seqs) : p[1] = k + 1 => p \in new
      BY <1>1, <2>1
    <2>4. \A p \in new : p[1] = k + 1
      OBVIOUS
    <2> HIDE DEF new
    <2>5. \A p \in Positions(seqs) : p[1] <= k + 1 <=> p[1] <= k \/ p[1] = k + 1
      BY <2>1
    <2> QED
      BY <2>2, <2>3, <2>4, <2>5 DEF Upto
  <1>4. /\ pos \in [1..old -> Upto(seqs, k)]
        /\ \A m, n \in 1..old : pos[m] = pos[n] => m = n
        /\ \A p \in Upto(seqs, k) : \E n \in 1..old : pos[n] = p
        /\ \A n \in 1..old : flat[n] = seqs[pos[n][1]][pos[n][2]]
    BY <1>1 DEF Numbers
  <1>5. \A n \in 1..old : pos[n] \notin new
    <2>1. \A n \in 1..old : pos[n] \in Upto(seqs, k)
      BY <1>4
    <2> QED
      BY <2>1 DEF Upto
  <1> HIDE DEF more, longer
  <1>6. ASSUME NEW n \in DOMAIN longer
        PROVE  \/ n \in 1..old /\ next[n] = pos[n]
               \/ n - old \in 1..Len(more) /\ n \notin 1..old
                  /\ next[n] = <<k + 1, n - old>>
    BY <1>1, <1>2
  <1>7. \A n \in 1..old : n \in DOMAIN longer /\ next[n] = pos[n]
    BY <1>1, <1>2
  <1>8. \A j \in 1..Len(more) : old + j \in DOMAIN longer /\ next[old + j] = <<k + 1, j>>
    BY <1>1, <1>2
  <1>9. next = [n \in DOMAIN longer |-> next[n]] /\ DOMAIN next = DOMAIN longer
    OBVIOUS
  <1> HIDE DEF next
  <1>10. next \in [DOMAIN longer -> Upto(seqs, k + 1)]
    <2>1. ASSUME NEW n \in DOMAIN longer PROVE next[n] \in Upto(seqs, k + 1)
      <3>1. CASE n \in 1..old
        BY <1>3, <1>4, <1>7, <3>1
      <3>2. CASE n \notin 1..old
        <4>1. next[n] \in new
          BY <1>6, <3>2
        <4> QED
          BY <1>3, <4>1
      <3> QED
        BY <3>1, <3>2
    <2> QED
      BY <1>9, <2>1
  <1>11. ASSUME NEW m \in DOMAIN longer, NEW n \in DOMAIN longer, next[m] = next[n]
         PROVE  m = n
    <2>1. CASE m \in 1..old /\ n \in 1..old
      BY <1>4, <1>6, <1>11, <2>1
    <2>2. CASE m \notin 1..old /\ n \notin 1..old
      <3>1. <<k + 1, m - old>> = <<k + 1, n - old>>
        BY <1>6, <1>11, <2>2
      <3> QED
        BY <1>1, <1>2, <3>1
    <2>3. CASE m \in 1..old /\ n \notin 1..old
      BY <1>5, <1>6, <1>11, <2>3
    <2>4. CASE m \notin 1..old /\ n \in 1..old
      BY <1>5, <1>6, <1>11, <2>4
    <2> QED
      BY <2>1, <2>2, <2>3, <2>4
  <1>12. ASSUME NEW p \in Upto(seqs, k + 1)
         PROVE  \E n \in DOMAIN longer : next[n] = p
    <2>1. CASE p \in Upto(seqs, k)
      BY <1>4, <1>7, <2>1
    <2>2. CASE p \in new
      BY <1>8, <2>2
    <2> QED
      BY <1>3, <2>1, <2>2
  <1>13. ASSUME NEW n \in DOMAIN longer
         PROVE  longer[n] = seqs[next[n][1]][next[n][2]]
    <2>1. CASE n \in 1..old
      BY <1>2, <1>4, <1>7, <2>1
    <2>2. CASE n \notin 1..old
      <3>1. /\ n - old \in 1..Len(more) /\ next[n] = <<k + 1, n - old>>
            /\ n = old + (n - old)
        BY <1>1, <1>2, <1>6, <2>2
      <3>2. longer[n] = more[n - old]
        BY <1>2, <3>1
      <3> QED
        BY <3>1, <3>2 DEF more
    <2> QED
      BY <2>1, <2>2
  <1>14. Numbers(next, longer, Upto(seqs, k + 1), seqs)
    BY <1>10, <1>11, <1>12, <1>13 DEF Numbers
  <1> QED
    BY <1>14 DEF longer, more

\* FlattenSeq returns the members of the inner sequences, each once.
LEMMA FlattenNumbers ==
    ASSUME NEW S, NEW seqs \in Seq(Seq(S))
    PROVE  /\ FlattenSeq(seqs) \in Seq(S)
           /\ \E pos : Numbers(pos, FlattenSeq(seqs), Positions(seqs), seqs)
  <1> DEFINE last == Len(seqs)
  <1>1. last \in Nat /\ DOMAIN seqs = 1..last /\ \A i \in 1..last : seqs[i] \in Seq(S)
    OBVIOUS
  <1>2. CASE last = 0
    <2>1. seqs = << >> /\ FlattenSeq(seqs) = << >>
      BY <1>2 DEF FlattenSeq
    <2>2. Positions(seqs) = {}
      BY <2>1 DEF Positions
    <2>3. Numbers(<< >>, FlattenSeq(seqs), Positions(seqs), seqs)
      BY <2>1, <2>2 DEF Numbers
    <2>4. << >> \in Seq(S)
      OBVIOUS
    <2> QED
      BY <2>1, <2>3, <2>4
  <1>3. CASE last # 0
    <2>1. PICK f : IsFlatten(seqs, last, f) /\ FlattenSeq(seqs) = f[last]
      BY <1>1, <1>3, FlattenIsLast
    <2> DEFINE First(k) == IF k = 0 THEN << >> ELSE f[k]
               T == {k \in Nat : k <= last =>
                       /\ First(k) \in Seq(S)
                       /\ \E pos : Numbers(pos, First(k), Upto(seqs, k), seqs)}
    <2> HIDE DEF last
    <2>2. ASSUME NEW k \in Nat, k + 1 <= last, First(k) \in Seq(S)
          PROVE  First(k + 1) = First(k) \o seqs[k + 1]
      <3>1. k + 1 \in 1..last /\ k + 1 - 1 = k /\ seqs[k + 1] \in Seq(S)
        BY <1>1, <2>2
      <3>2. First(k + 1) = IF k = 0 THEN seqs[k + 1] ELSE f[k] \o seqs[k + 1]
        <4>1. f[k + 1] = IF k + 1 = 1 THEN seqs[k + 1] ELSE f[k + 1 - 1] \o seqs[k + 1]
          <5>1. ASSUME NEW i \in 1..last
                PROVE  f[i] = IF i = 1 THEN seqs[i] ELSE f[i - 1] \o seqs[i]
            BY <2>1 DEF IsFlatten
          <5> QED
            BY <3>1, <5>1
        <4> QED
          BY <3>1, <4>1
      <3>3. << >> \o seqs[k + 1] = seqs[k + 1]
        BY <3>1
      <3> QED
        BY <3>2, <3>3
    <2>3. 0 \in T
      <3>1. Upto(seqs, 0) = {}
        BY <1>1 DEF Upto, Positions
      <3>2. Numbers(<< >>, << >>, Upto(seqs, 0), seqs)
        BY <3>1 DEF Numbers
      <3> QED
        BY <3>2
    <2>4. ASSUME NEW k \in T PROVE k + 1 \in T
      <3> SUFFICES ASSUME k + 1 <= last
                   PROVE  /\ First(k + 1) \in Seq(S)
                          /\ \E pos : Numbers(pos, First(k + 1), Upto(seqs, k + 1), seqs)
        OBVIOUS
      <3>1. k \in Nat /\ k <= last
        BY <1>1
      <3>2. First(k) \in Seq(S)
        BY <3>1
      <3>3. PICK pos : Numbers(pos, First(k), Upto(seqs, k), seqs)
        BY <3>1
      <3> HIDE DEF T, First
      <3>4. First(k + 1) = First(k) \o seqs[k + 1]
        BY <2>2, <3>1, <3>2
      <3>5. First(k) \o seqs[k + 1] \in Seq(S)
        BY <1>1, <3>1, <3>2
      <3>6. \E next : Numbers(next, First(k) \o seqs[k + 1], Upto(seqs, k + 1), seqs)
        BY <3>1, <3>2, <3>3, NumbersExtend DEF last
      <3> QED
        BY <3>4, <3>5, <3>6
    <2>5. last \in T
      <3> HIDE DEF First
      <3>1. T \in SUBSET Nat
        OBVIOUS
      <3> HIDE DEF T
      <3> QED
        BY <1>1, <2>3, <2>4, <3>1, SetInduction
    <2>6. First(last) = FlattenSeq(seqs)
      BY <1>3, <2>1
    <2>7. Upto(seqs, last) = Positions(seqs)
      BY <1>1 DEF Upto, Positions
    <2> HIDE DEF First
    <2> QED
      BY <1>1, <2>5, <2>6, <2>7
  <1> QED
    BY <1>2, <1>3
===============================================================================
