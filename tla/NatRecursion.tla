---------------------------- MODULE NatRecursion ----------------------------
(***************************************************************************)
(* Induction and recursion over natural numbers, stated for sets and        *)
(* functions instead of for operators, so that first-order provers can use  *)
(* them: a predicate is the set of the numbers it holds of, a recursive     *)
(* definition is given by its step function.  Lists that are put together in  *)
(* a loop are such a recursion.                                             *)
(***************************************************************************)
EXTENDS Integers, SequencesExt, TLAPS, WellFoundedInduction, SequenceTheorems

\* A non-empty set of natural numbers has a least element.
LEMMA LeastNatural ==
    ASSUME NEW T, T \subseteq Nat, T # {}
    PROVE  \E x \in T : \A y \in T : x <= y
<1> DEFINE R == OpToRel(<, Nat)
<1>1. IsWellFoundedOn(R, Nat)
  BY NatLessThanWellFounded, Zenon
<1>2. \A a, b \in Nat : a < b => <<a, b>> \in R
  BY DEF OpToRel
<1> HIDE DEF R
<1>3. PICK x \in T : \A y \in T : <<y, x>> \notin R
  BY <1>1, WFMin
<1>4. ASSUME NEW y \in T
      PROVE  x <= y
  <2>1. x \in Nat /\ y \in Nat
    OBVIOUS
  <2>2. ~(y < x)
    BY <1>2, <1>3, <2>1
  <2> QED
    BY <2>1, <2>2
<1> QED
  BY <1>4

\* A set that has 0 and the successor of each of its numbers has them all.
LEMMA SetInduction ==
    ASSUME NEW S, 0 \in S, \A n \in Nat : n \in S => n + 1 \in S
    PROVE  Nat \subseteq S
<1> SUFFICES ASSUME Nat \ S # {}
             PROVE  FALSE
  OBVIOUS
<1>1. PICK x \in Nat \ S : \A y \in Nat \ S : x <= y
  BY LeastNatural
<1>2. x # 0 /\ x - 1 \in Nat
  BY <1>1
<1>3. x - 1 \in S
  <2> SUFFICES ASSUME x - 1 \notin S
               PROVE  FALSE
    OBVIOUS
  <2>1. x <= x - 1
    BY <1>1, <1>2
  <2> QED
    BY <2>1
<1>4. (x - 1) + 1 \in S
  BY <1>2, <1>3
<1> QED
  BY <1>4

\* A value and a step function determine a function on 0 .. n.
IsRecursion(f, n, base, step) ==
    /\ f[0] = base
    /\ \A k \in 1 .. n : f[k] = step[<<f[k - 1], k>>]

LEMMA RecursionExists ==
    ASSUME NEW V, NEW base \in V, NEW n \in Nat,
           NEW step \in [V \X (1 .. n) -> V]
    PROVE  \E f \in [0 .. n -> V] : IsRecursion(f, n, base, step)
<1> DEFINE Has(m) == \E f \in [0 .. m -> V] : IsRecursion(f, m, base, step)
           S == {m \in Nat : m <= n => Has(m)}
<1>1. 0 \in S
  <2> DEFINE f == [k \in 0 .. 0 |-> base]
  <2>1. f \in [0 .. 0 -> V] /\ IsRecursion(f, 0, base, step)
    BY DEF IsRecursion
  <2> QED
    BY <2>1
<1>2. ASSUME NEW m \in Nat, m \in S
      PROVE  m + 1 \in S
  <2> SUFFICES ASSUME m + 1 <= n
               PROVE  Has(m + 1)
    OBVIOUS
  <2>1. PICK f \in [0 .. m -> V] : IsRecursion(f, m, base, step)
    BY <1>2
  <2> DEFINE last == step[<<f[m], m + 1>>]
             g == [k \in 0 .. m + 1 |-> IF k <= m THEN f[k] ELSE last]
  <2>2. last \in V
    <3>1. f[m] \in V /\ m + 1 \in 1 .. n
      OBVIOUS
    <3>2. <<f[m], m + 1>> \in V \X (1 .. n)
      BY <3>1
    <3> QED
      BY <3>2
  <2>3. g \in [0 .. m + 1 -> V]
    <3> SUFFICES ASSUME NEW k \in 0 .. m + 1
                 PROVE  (IF k <= m THEN f[k] ELSE last) \in V
      OBVIOUS
    <3>1. CASE k <= m
      BY <3>1
    <3>2. CASE ~(k <= m)
      BY <2>2, <3>2
    <3> QED
      BY <3>1, <3>2
  <2>4. IsRecursion(g, m + 1, base, step)
    <3>1. g[0] = base
      BY <2>1 DEF IsRecursion
    <3>2. ASSUME NEW k \in 1 .. m + 1
          PROVE  g[k] = step[<<g[k - 1], k>>]
      <4>1. g[k - 1] = f[k - 1]
        OBVIOUS
      <4>2. CASE k <= m
        <5>1. g[k] = f[k] /\ k \in 1 .. m
          BY <4>2
        <5>2. f[k] = step[<<f[k - 1], k>>]
          BY <2>1, <5>1 DEF IsRecursion
        <5> QED
          BY <4>1, <5>1, <5>2
      <4>3. CASE k = m + 1
        <5>1. g[k] = last /\ k - 1 = m
          BY <4>3
        <5> QED
          BY <4>1, <4>3, <5>1
      <4> QED
        BY <4>2, <4>3
    <3> HIDE DEF g
    <3> QED
      BY <3>1, <3>2 DEF IsRecursion
  <2> HIDE DEF g
  <2> QED
    BY <2>3, <2>4
<1> HIDE DEF S
<1>3. Nat \subseteq S
  BY <1>1, <1>2, SetInduction
<1> QED
  BY <1>3 DEF S

-----------------------------------------------------------------------------
(* Lists that are put together in a loop.                                  *)

\* FlattenSeq appends one list after the other.
Appends(g, seqs) ==
    /\ FlattenSeq(seqs) = g[Len(seqs)]
    /\ g[1] = seqs[1]
    /\ \A i \in 2 .. Len(seqs) : g[i] = g[i - 1] \o seqs[i]
LEMMA FlattenEquation ==
    ASSUME NEW S, NEW seqs \in Seq(Seq(S)), Len(seqs) # 0
    PROVE  \E g : Appends(g, seqs)
<1> DEFINE n == Len(seqs)
           V == Seq(S)
           step == [p \in V \X (1 .. n) |-> p[1] \o seqs[p[2]]]
           body(f) == [i \in 1 .. n |-> IF i = 1 THEN seqs[i] ELSE f[i - 1] \o seqs[i]]
<1>1. n \in Nat /\ n >= 1
  BY LenProperties
<1>2. \A i \in 1 .. n : seqs[i] \in V
  BY ElementOfSeq
<1>3. <<>> \in V
  OBVIOUS
<1>4. step \in [V \X (1 .. n) -> V]
  <2> SUFFICES ASSUME NEW p \in V \X (1 .. n)
               PROVE  p[1] \o seqs[p[2]] \in V
    OBVIOUS
  <2>1. p[1] \in V /\ p[2] \in 1 .. n
    OBVIOUS
  <2>2. seqs[p[2]] \in V
    BY <1>2, <2>1
  <2> QED
    BY <2>1, <2>2, ConcatProperties
<1>5. \A v \in V, k \in 1 .. n : step[<<v, k>>] = v \o seqs[k]
  OBVIOUS
<1> HIDE DEF step
<1>6. PICK h \in [0 .. n -> V] : IsRecursion(h, n, <<>>, step)
  BY <1>1, <1>3, <1>4, RecursionExists
<1>7. \A k \in 1 .. n : h[k] = h[k - 1] \o seqs[k]
  <2> TAKE k \in 1 .. n
  <2>1. k - 1 \in 0 .. n
    BY <1>1
  <2>2. h[k] = step[<<h[k - 1], k>>] /\ h[k - 1] \in V
    BY <1>6, <2>1 DEF IsRecursion
  <2> QED
    BY <1>5, <2>2
<1>8. h[1] = seqs[1]
  <2>1. h[0] = <<>> /\ 1 \in 1 .. n /\ 1 - 1 = 0
    BY <1>1, <1>6 DEF IsRecursion
  <2>2. h[1] = <<>> \o seqs[1] /\ seqs[1] \in Seq(S)
    BY <1>2, <1>7, <2>1
  <2> QED
    BY <2>2, ConcatEmptySeq
<1> DEFINE d == [i \in 1 .. n |-> h[i]]
<1>9. d = body(d)
  <2>1. ASSUME NEW i \in 1 .. n
        PROVE  h[i] = IF i = 1 THEN seqs[i] ELSE d[i - 1] \o seqs[i]
    <3>1. CASE i = 1
      BY <1>8, <3>1
    <3>2. CASE i # 1
      <4>1. i - 1 \in 1 .. n
        BY <1>1, <3>2
      <4>2. d[i - 1] = h[i - 1]
        BY <4>1
      <4> HIDE DEF d
      <4> QED
        BY <1>7, <3>2, <4>2
    <3> QED
      BY <3>1, <3>2
  <2> QED
    BY <2>1
<1> DEFINE g == CHOOSE f : f = body(f)
<1>10. FlattenSeq(seqs) = g[n]
  BY DEF FlattenSeq
<1> HIDE DEF d
<1>11. g = body(g)
  <2> HIDE DEF body
  <2> QED
    BY <1>9, Zenon
<1>12. ASSUME NEW f, f = body(f)
       PROVE  f[1] = seqs[1] /\ \A i \in 2 .. n : f[i] = f[i - 1] \o seqs[i]
  <2>1. \A i \in 1 .. n : body(f)[i] = IF i = 1 THEN seqs[i] ELSE f[i - 1] \o seqs[i]
    OBVIOUS
  <2> HIDE DEF body
  <2>2. \A i \in 1 .. n : f[i] = IF i = 1 THEN seqs[i] ELSE f[i - 1] \o seqs[i]
    BY <1>12, <2>1
  <2>3. 1 \in 1 .. n /\ \A i \in 2 .. n : i \in 1 .. n /\ i # 1
    BY <1>1
  <2> QED
    BY <2>2, <2>3, Zenon
<1> HIDE DEF body, g
<1>13. g[1] = seqs[1] /\ \A i \in 2 .. n : g[i] = g[i - 1] \o seqs[i]
  BY <1>11, <1>12
<1>14. Appends(g, seqs)
  BY <1>10, <1>13 DEF Appends
<1> QED
  BY <1>14

\* The same, from the empty list on.
IsPrefixes(g, c, n, S) ==
    /\ g \in [0 .. n -> Seq(S)]
    /\ g[0] = <<>> /\ g[n] = FlattenSeq(c)
    /\ \A i \in 1 .. n : g[i] = g[i - 1] \o c[i]
LEMMA FlattenPrefixes ==
    ASSUME NEW S, NEW n \in Nat, NEW c \in [1 .. n -> Seq(S)]
    PROVE  \E g : IsPrefixes(g, c, n, S)
<1>1. c \in Seq(Seq(S)) /\ Len(c) = n /\ <<>> \in Seq(S)
  OBVIOUS
<1>2. CASE n = 0
  <2>1. c = <<>>
    BY <1>1, <1>2, EmptySeq, Zenon
  <2>2. FlattenSeq(c) = <<>>
    BY <1>1, <1>2, <2>1 DEF FlattenSeq
  <2> DEFINE g == [i \in 0 .. n |-> <<>>]
  <2>3. g \in [0 .. n -> Seq(S)] /\ g[0] = <<>> /\ g[n] = FlattenSeq(c) /\ 1 .. n = {}
    BY <1>1, <1>2, <2>2
  <2> HIDE DEF g
  <2>4. IsPrefixes(g, c, n, S)
    BY <2>3 DEF IsPrefixes
  <2> QED
    BY <2>4
<1>3. CASE n # 0
  <2>1. PICK f : Appends(f, c)
    BY <1>1, <1>3, FlattenEquation
  <2>2. /\ FlattenSeq(c) = f[n] /\ f[1] = c[1]
        /\ \A i \in 2 .. n : f[i] = f[i - 1] \o c[i]
    BY <1>1, <2>1 DEF Appends
  <2> DEFINE g == [i \in 0 .. n |-> IF i = 0 THEN <<>> ELSE f[i]]
             T == {i \in Nat : i <= n => g[i] \in Seq(S)}
  <2>3. /\ g[0] = <<>> /\ g[n] = FlattenSeq(c) /\ DOMAIN g = 0 .. n
        /\ g = [i \in 0 .. n |-> g[i]]
    BY <1>3, <2>2
  <2>4. \A i \in 1 .. n : c[i] \in Seq(S)
    OBVIOUS
  <2>5. ASSUME NEW i \in 1 .. n
        PROVE  g[i] = g[i - 1] \o c[i]
    <3>1. CASE i = 1
      <4>1. g[i] = c[i] /\ g[i - 1] = <<>>
        BY <1>3, <2>2, <3>1
      <4>2. c[i] = <<>> \o c[i]
        BY <2>4, ConcatEmptySeq
      <4> HIDE DEF g
      <4> QED
        BY <4>1, <4>2, Zenon
    <3>2. CASE i # 1
      <4>1. i \in 2 .. n /\ i - 1 \in 1 .. n
        BY <3>2
      <4>2. g[i] = f[i] /\ g[i - 1] = f[i - 1]
        BY <4>1
      <4> HIDE DEF g
      <4> QED
        BY <2>2, <4>1, <4>2, Zenon
    <3> QED
      BY <3>1, <3>2
  <2> HIDE DEF g
  <2>6. 0 \in T
    BY <1>1, <2>3
  <2>7. ASSUME NEW i \in Nat, i \in T
        PROVE  i + 1 \in T
    <3> SUFFICES ASSUME i + 1 <= n
                 PROVE  g[i + 1] \in Seq(S)
      OBVIOUS
    <3>1. i + 1 \in 1 .. n /\ (i + 1) - 1 = i /\ i <= n
      OBVIOUS
    <3>2. g[i] \in Seq(S) /\ c[i + 1] \in Seq(S)
      BY <2>4, <2>7, <3>1
    <3>3. g[i + 1] = g[i] \o c[i + 1]
      BY <2>5, <3>1
    <3> QED
      BY <3>2, <3>3, ConcatProperties
  <2> HIDE DEF T
  <2>8. Nat \subseteq T
    BY <2>6, <2>7, SetInduction
  <2>9. \A i \in 0 .. n : g[i] \in Seq(S)
    BY <2>8 DEF T
  <2>10. g \in [0 .. n -> Seq(S)]
    BY <2>3, <2>9
  <2>11. IsPrefixes(g, c, n, S)
    BY <2>3, <2>5, <2>10 DEF IsPrefixes
  <2> QED
    BY <2>11
<1> QED
  BY <1>2, <1>3

=============================================================================
