--------------------------- MODULE EncodersProofs ---------------------------
(***************************************************************************)
(* Theorems about Encoders: for texts and values of every length, no send  *)
(* helper writes beyond its buffer, what it accepts is whole, what fits is *)
(* accepted, and a failing pipeline leaves at most a Parse.                *)
(*                                                                         *)
(* The argument has two parts.  A list of steps is summarised by a segment *)
(* (Seg): from `a' bytes written and room for `r' more, to `b' bytes       *)
(* written and room for `q' more, with no check on the way that asks for   *)
(* more than the whole message takes.  Every helper is a segment from an   *)
(* empty buffer to a whole message (EveryCallSound), for all arguments.    *)
(* And every step of the machine takes a segment to what is left of it.    *)
(***************************************************************************)
EXTENDS Encoders, NatRecursion, SequenceTheorems, TLAPS

\* What bounds a helper: how many bytes a check may ask for, how far it may
\* write beyond its buffer, whether it enlarges its buffer.
Terms == [lim : Nat, over : Nat, heap : {0, 1}]

\* One step, from `a' bytes and room `r' to `b' bytes and room `q'.
StepOK(s, a, r, b, q, t) ==
    \/ s.op = "put" /\ b = a + s.n /\ q <= r - s.n
    \/ s.op = "require" /\ b = a /\ a + s.n <= t.lim /\ (q <= r \/ q <= s.n)
    \/ s.op = "fit" /\ t.heap = 1 /\ b = a /\ (q <= r \/ q <= s.n)

\* A list of steps with the bytes written, f, and the room left, g, in between.
Trace(xs, f, g, t) ==
    /\ \A i \in 0 .. Len(xs) : 0 - t.over <= g[i]
    /\ \A i \in 1 .. Len(xs) : StepOK(xs[i], f[i - 1], g[i - 1], f[i], g[i], t)

Seg(xs, a, r, b, q, t) ==
    \E f \in [0 .. Len(xs) -> Nat], g \in [0 .. Len(xs) -> Int] :
        /\ f[0] = a /\ g[0] <= r /\ f[Len(xs)] = b /\ q <= g[Len(xs)]
        /\ Trace(xs, f, g, t)

-----------------------------------------------------------------------------
(* Segments.                                                               *)

\* No steps.
LEMMA SegNil ==
    ASSUME NEW a \in Nat, NEW r \in Int, NEW q \in Int, NEW t \in Terms,
           q <= r, 0 - t.over <= q
    PROVE  Seg(<<>>, a, r, a, q, t)
<1> DEFINE f == [i \in 0 .. 0 |-> a]
           g == [i \in 0 .. 0 |-> r]
<1>1. Len(<<>>) = 0 /\ t.over \in Nat
  BY DEF Terms
<1>2. f \in [0 .. 0 -> Nat] /\ g \in [0 .. 0 -> Int] /\ f[0] = a /\ g[0] = r
  OBVIOUS
<1> HIDE DEF f, g
<1>3. Trace(<<>>, f, g, t)
  BY <1>1, <1>2 DEF Trace
<1> QED
  BY <1>1, <1>2, <1>3 DEF Seg

\* The step relation is monotone.
LEMMA StepMonotone ==
    ASSUME NEW s \in Step, NEW a \in Nat, NEW b \in Nat, NEW t \in Terms,
           NEW r \in Int, NEW r2 \in Int, NEW q \in Int, NEW q2 \in Int,
           StepOK(s, a, r, b, q, t), r <= r2, q2 <= q
    PROVE  StepOK(s, a, r2, b, q2, t)
<1>1. s.n \in Nat /\ t.lim \in Nat
  BY DEF Step, Terms
<1>2. CASE s.op = "put" /\ b = a + s.n /\ q <= r - s.n
  BY <1>1, <1>2 DEF StepOK
<1>3. CASE s.op = "require" /\ b = a /\ a + s.n <= t.lim /\ (q <= r \/ q <= s.n)
  <2>1. q2 <= r2 \/ q2 <= s.n
    BY <1>1, <1>3
  <2> QED
    BY <1>3, <2>1 DEF StepOK
<1>4. CASE s.op = "fit" /\ t.heap = 1 /\ b = a /\ (q <= r \/ q <= s.n)
  <2>1. q2 <= r2 \/ q2 <= s.n
    BY <1>1, <1>4
  <2> QED
    BY <1>4, <2>1 DEF StepOK
<1> QED
  BY <1>2, <1>3, <1>4 DEF StepOK

\* One step.
LEMMA SegOne ==
    ASSUME NEW s \in Step, NEW a \in Nat, NEW b \in Nat, NEW t \in Terms,
           NEW r \in Int, NEW q \in Int,
           StepOK(s, a, r, b, q, t), 0 - t.over <= r, 0 - t.over <= q
    PROVE  Seg(<<s>>, a, r, b, q, t)
<1> DEFINE f == [i \in 0 .. 1 |-> IF i = 0 THEN a ELSE b]
           g == [i \in 0 .. 1 |-> IF i = 0 THEN r ELSE q]
           xs == <<s>>
<1>1. Len(xs) = 1 /\ xs[1] = s
  OBVIOUS
<1>2. /\ f \in [0 .. 1 -> Nat] /\ f[0] = a /\ f[1] = b
      /\ g \in [0 .. 1 -> Int] /\ g[0] = r /\ g[1] = q
  OBVIOUS
<1> HIDE DEF f, g, xs
<1>3. Trace(xs, f, g, t)
  <2>1. ASSUME NEW i \in 0 .. Len(xs) PROVE 0 - t.over <= g[i]
    <3>1. i = 0 \/ i = 1
      BY <1>1
    <3> QED
      BY <1>2, <3>1
  <2>2. ASSUME NEW i \in 1 .. Len(xs)
        PROVE  StepOK(xs[i], f[i - 1], g[i - 1], f[i], g[i], t)
    <3>1. i = 1 /\ i - 1 = 0
      BY <1>1
    <3> QED
      BY <1>1, <1>2, <3>1
  <2> QED
    BY <2>1, <2>2 DEF Trace
<1>4. q <= g[1] /\ g[0] <= r
  BY <1>2
<1>5. Seg(xs, a, r, b, q, t)
  BY <1>1, <1>2, <1>3, <1>4 DEF Seg
<1> QED
  BY <1>5 DEF xs

\* One segment behind the other.
LEMMA SegConcat ==
    ASSUME NEW xs \in Seq(Step), NEW ys \in Seq(Step), NEW t \in Terms,
           NEW a, NEW b, NEW c, NEW r \in Int, NEW q \in Int, NEW z \in Int,
           Seg(xs, a, r, b, q, t), Seg(ys, b, q, c, z, t)
    PROVE  Seg(xs \o ys, a, r, c, z, t)
<1> DEFINE m == Len(xs)
           n == Len(ys)
           w == xs \o ys
<1>1. m \in Nat /\ n \in Nat /\ t.over \in Nat
  BY LenProperties DEF Terms
<1>2. /\ Len(w) = m + n /\ w \in Seq(Step)
      /\ \A i \in 1 .. m + n : w[i] = IF i <= m THEN xs[i] ELSE ys[i - m]
  BY ConcatProperties
<1>3. \A i \in 1 .. m + n : w[i] \in Step
  BY <1>2, ElementOfSeq
<1> HIDE DEF w
<1>4. PICK f1 \in [0 .. m -> Nat], g1 \in [0 .. m -> Int] :
          /\ f1[0] = a /\ g1[0] <= r /\ f1[m] = b /\ q <= g1[m]
          /\ Trace(xs, f1, g1, t)
  BY DEF Seg
<1>5. PICK f2 \in [0 .. n -> Nat], g2 \in [0 .. n -> Int] :
          /\ f2[0] = b /\ g2[0] <= q /\ f2[n] = c /\ z <= g2[n]
          /\ Trace(ys, f2, g2, t)
  BY DEF Seg
<1>6. /\ \A i \in 0 .. m : 0 - t.over <= g1[i]
      /\ \A i \in 1 .. m : StepOK(xs[i], f1[i - 1], g1[i - 1], f1[i], g1[i], t)
      /\ \A i \in 0 .. n : 0 - t.over <= g2[i]
      /\ \A i \in 1 .. n : StepOK(ys[i], f2[i - 1], g2[i - 1], f2[i], g2[i], t)
  BY <1>4, <1>5 DEF Trace
<1> HIDE DEF m, n
<1> DEFINE f == [i \in 0 .. m + n |-> IF i < m THEN f1[i] ELSE f2[i - m]]
           g == [i \in 0 .. m + n |-> IF i < m THEN g1[i] ELSE g2[i - m]]
<1>7. /\ \A i \in 0 .. m + n : i < m => f[i] = f1[i] /\ g[i] = g1[i] /\ i \in 0 .. m
      /\ \A i \in 0 .. m + n : ~(i < m) => f[i] = f2[i - m] /\ g[i] = g2[i - m] /\ i - m \in 0 .. n
  <2>1. /\ \A i \in 0 .. m + n : i < m => i \in 0 .. m
        /\ \A i \in 0 .. m + n : ~(i < m) => i - m \in 0 .. n
    BY <1>1
  <2>2. \A i \in 0 .. m + n : f[i] = (IF i < m THEN f1[i] ELSE f2[i - m])
    OBVIOUS
  <2>3. \A i \in 0 .. m + n : g[i] = (IF i < m THEN g1[i] ELSE g2[i - m])
    OBVIOUS
  <2> HIDE DEF f, g
  <2> QED
    BY <2>1, <2>2, <2>3
<1>8. f \in [0 .. m + n -> Nat] /\ g \in [0 .. m + n -> Int]
  <2>1. ASSUME NEW i \in 0 .. m + n
        PROVE  /\ (IF i < m THEN f1[i] ELSE f2[i - m]) \in Nat
               /\ (IF i < m THEN g1[i] ELSE g2[i - m]) \in Int
    <3>1. CASE i < m
      <4>1. i \in 0 .. m
        BY <1>1, <3>1
      <4> QED
        BY <3>1, <4>1
    <3>2. CASE ~(i < m)
      <4>1. i - m \in 0 .. n
        BY <1>1, <3>2
      <4> QED
        BY <3>2, <4>1
    <3> QED
      BY <3>1, <3>2
  <2> QED
    BY <2>1
<1> HIDE DEF f, g
<1>9. ASSUME NEW i \in 0 .. m + n PROVE 0 - t.over <= g[i]
  BY <1>6, <1>7
<1>10. ASSUME NEW i \in 1 .. m + n
       PROVE  StepOK(w[i], f[i - 1], g[i - 1], f[i], g[i], t)
  <2>1. i \in 0 .. m + n /\ i - 1 \in 0 .. m + n
    BY <1>1
  <2>2. CASE i < m
    <3>1. i - 1 < m /\ i \in 1 .. m /\ i <= m
      BY <1>1, <2>2
    <3>2. /\ f[i] = f1[i] /\ g[i] = g1[i] /\ f[i - 1] = f1[i - 1] /\ g[i - 1] = g1[i - 1]
          /\ w[i] = xs[i]
      BY <1>2, <1>7, <2>1, <2>2, <3>1
    <3> QED
      BY <1>6, <3>1, <3>2
  <2>3. CASE i = m
    <3>1. i - 1 < m /\ i \in 1 .. m /\ ~(i < m) /\ i - m = 0 /\ i <= m
      BY <1>1, <2>3
    <3>2. /\ f[i] = f2[0] /\ g[i] = g2[0] /\ f[i - 1] = f1[i - 1] /\ g[i - 1] = g1[i - 1]
          /\ w[i] = xs[i]
      BY <1>2, <1>7, <2>1, <3>1
    <3>3. StepOK(w[i], f1[i - 1], g1[i - 1], f1[i], g1[i], t)
      BY <1>6, <3>1, <3>2
    <3>4. /\ f1[i - 1] \in Nat /\ f1[i] \in Nat /\ g1[i - 1] \in Int /\ g1[i] \in Int
          /\ g2[0] \in Int /\ g2[0] <= g1[i] /\ f2[0] = f1[i]
      <4>1. i - 1 \in 0 .. m /\ i \in 0 .. m /\ 0 \in 0 .. n
        BY <1>1, <3>1
      <4>2. /\ f1[i - 1] \in Nat /\ f1[i] \in Nat /\ g1[i - 1] \in Int /\ g1[i] \in Int
            /\ g2[0] \in Int
        BY <4>1
      <4> QED
        BY <1>4, <1>5, <2>3, <4>2, SMTT(30)
    <3>5. w[i] \in Step /\ g1[i - 1] <= g1[i - 1]
      BY <1>3, <3>4
    <3>6. StepOK(w[i], f1[i - 1], g1[i - 1], f1[i], g2[0], t)
      BY <3>3, <3>4, <3>5, StepMonotone
    <3> QED
      BY <3>2, <3>4, <3>6
  <2>4. CASE i > m
    <3>1. /\ ~(i - 1 < m) /\ ~(i < m) /\ ~(i <= m) /\ i - m \in 1 .. n
          /\ (i - 1) - m = (i - m) - 1
      BY <1>1, <2>4
    <3>2. /\ f[i] = f2[i - m] /\ g[i] = g2[i - m] /\ f[i - 1] = f2[(i - m) - 1]
          /\ g[i - 1] = g2[(i - m) - 1] /\ w[i] = ys[i - m]
      BY <1>2, <1>7, <2>1, <3>1
    <3> QED
      BY <1>6, <3>1, <3>2
  <2> QED
    BY <1>1, <2>2, <2>3, <2>4
<1>11. Trace(w, f, g, t)
  BY <1>2, <1>9, <1>10 DEF Trace
<1>12. f[0] = a /\ g[0] <= r
  <2>1. 0 \in 0 .. m + n /\ 0 \in 0 .. m /\ 0 \in 0 .. n
    BY <1>1
  <2>2. g1[0] \in Int /\ g2[0] \in Int
    BY <2>1
  <2>3. CASE 0 < m
    BY <1>4, <1>7, <2>1, <2>3
  <2>4. CASE m = 0
    <3>1. f[0] = f2[0] /\ g[0] = g2[0]
      BY <1>7, <2>1, <2>4
    <3> QED
      BY <1>4, <1>5, <2>2, <2>4, <3>1
  <2> QED
    BY <1>1, <2>3, <2>4
<1>13. f[m + n] = c /\ z <= g[m + n]
  <2>1. m + n \in 0 .. m + n /\ ~(m + n < m) /\ (m + n) - m = n
    BY <1>1
  <2> QED
    BY <1>5, <1>7, <2>1
<1>14. Seg(w, a, r, c, z, t)
  BY <1>2, <1>8, <1>11, <1>12, <1>13 DEF Seg
<1> QED
  BY <1>14 DEF w

\* The first step of a segment, and what follows it.
LEMMA SegHead ==
    ASSUME NEW xs \in Seq(Step), xs # <<>>, NEW t \in Terms,
           NEW a, NEW b, NEW r \in Int, NEW q, Seg(xs, a, r, b, q, t)
    PROVE  \E a2 \in Nat, r2 \in Int :
               /\ StepOK(Head(xs), a, r, a2, r2, t)
               /\ Seg(Tail(xs), a2, r2, b, q, t)
<1> DEFINE n == Len(xs)
           ys == Tail(xs)
<1>1. n \in Nat /\ n >= 1
  BY EmptySeq, LenProperties
<1>2. /\ ys \in Seq(Step) /\ Len(ys) = n - 1
      /\ \A i \in 1 .. n - 1 : ys[i] = xs[i + 1]
      /\ Head(xs) = xs[1] /\ xs[1] \in Step
  <2>1. ys \in Seq(Step) /\ Len(ys) = n - 1 /\ \A i \in 1 .. Len(ys) : ys[i] = xs[i + 1]
    BY HeadTailProperties
  <2>2. Head(xs) = xs[1] /\ xs[1] \in Step
    BY <1>1, ElementOfSeq, HeadTailProperties
  <2> QED
    BY <2>1, <2>2
<1> HIDE DEF ys
<1>3. PICK f \in [0 .. n -> Nat], g \in [0 .. n -> Int] :
          /\ f[0] = a /\ g[0] <= r /\ f[n] = b /\ q <= g[n]
          /\ Trace(xs, f, g, t)
  BY DEF Seg
<1>4. /\ \A i \in 0 .. n : 0 - t.over <= g[i]
      /\ \A i \in 1 .. n : StepOK(xs[i], f[i - 1], g[i - 1], f[i], g[i], t)
  BY <1>3 DEF Trace
<1> HIDE DEF n
<1>5. f[0] \in Nat /\ f[1] \in Nat /\ g[0] \in Int /\ g[1] \in Int
  BY <1>1
<1>6. StepOK(xs[1], a, r, f[1], g[1], t)
  <2>1. 1 \in 1 .. n /\ 1 - 1 = 0
    BY <1>1
  <2>2. StepOK(xs[1], f[0], g[0], f[1], g[1], t)
    BY <1>4, <2>1
  <2>3. g[1] <= g[1]
    BY <1>5
  <2> QED
    BY <1>2, <1>3, <1>5, <2>2, <2>3, StepMonotone
<1> DEFINE u == [i \in 0 .. n - 1 |-> f[i + 1]]
           v == [i \in 0 .. n - 1 |-> g[i + 1]]
<1>7. \A i \in 0 .. n - 1 : i + 1 \in 0 .. n /\ u[i] = f[i + 1] /\ v[i] = g[i + 1]
  BY <1>1
<1>8. u \in [0 .. n - 1 -> Nat] /\ v \in [0 .. n - 1 -> Int]
  BY <1>1
<1> HIDE DEF u, v
<1>9. Trace(ys, u, v, t)
  <2>1. ASSUME NEW i \in 0 .. n - 1 PROVE 0 - t.over <= v[i]
    BY <1>4, <1>7
  <2>2. ASSUME NEW i \in 1 .. n - 1
        PROVE  StepOK(ys[i], u[i - 1], v[i - 1], u[i], v[i], t)
    <3>1. /\ i + 1 \in 1 .. n /\ (i + 1) - 1 = i /\ (i - 1) + 1 = i
          /\ i \in 0 .. n - 1 /\ i - 1 \in 0 .. n - 1
      BY <1>1
    <3>2. StepOK(xs[i + 1], f[i], g[i], f[i + 1], g[i + 1], t)
      BY <1>4, <3>1
    <3>3. u[i - 1] = f[i] /\ v[i - 1] = g[i] /\ u[i] = f[i + 1] /\ v[i] = g[i + 1]
      BY <1>7, <3>1
    <3> QED
      BY <1>2, <3>2, <3>3
  <2> QED
    BY <1>2, <2>1, <2>2 DEF Trace
<1>10. u[0] = f[1] /\ v[0] = g[1] /\ u[n - 1] = f[n] /\ v[n - 1] = g[n]
  <2>1. 0 \in 0 .. n - 1 /\ n - 1 \in 0 .. n - 1 /\ (n - 1) + 1 = n
    BY <1>1
  <2> QED
    BY <1>7, <2>1
<1>11. Seg(ys, f[1], g[1], b, q, t)
  <2>1. v[0] <= g[1]
    BY <1>5, <1>10
  <2> QED
    BY <1>2, <1>3, <1>8, <1>9, <1>10, <2>1 DEF Seg
<1> QED
  BY <1>2, <1>5, <1>6, <1>11 DEF ys

\* A segment starts with at least the room that may be missing.
LEMMA SegRoom ==
    ASSUME NEW xs \in Seq(Step), NEW t \in Terms,
           NEW a, NEW b, NEW r \in Int, NEW q, Seg(xs, a, r, b, q, t)
    PROVE  0 - t.over <= r /\ a \in Nat /\ (xs = <<>> => a = b)
<1>1. Len(xs) \in Nat /\ 0 \in 0 .. Len(xs) /\ t.over \in Nat
  BY LenProperties DEF Terms
<1>2. PICK f \in [0 .. Len(xs) -> Nat], g \in [0 .. Len(xs) -> Int] :
          /\ f[0] = a /\ g[0] <= r /\ f[Len(xs)] = b
          /\ Trace(xs, f, g, t)
  BY DEF Seg
<1>3. 0 - t.over <= g[0] /\ g[0] \in Int /\ f[0] \in Nat
  BY <1>1, <1>2 DEF Trace
<1>4. xs = <<>> => Len(xs) = 0
  OBVIOUS
<1> QED
  BY <1>1, <1>2, <1>3, <1>4

-----------------------------------------------------------------------------
(* Lists that are put together in a loop.                                  *)

\* A loop of which every iteration is a segment.
LEMMA SegFlatten ==
    ASSUME NEW n \in Nat, NEW c \in [1 .. n -> Seq(Step)], NEW t \in Terms,
           NEW h \in [0 .. n -> Nat],
           \A i \in 1 .. n : Seg(c[i], h[i - 1], 0, h[i], 0, t)
    PROVE  FlattenSeq(c) \in Seq(Step) /\ Seg(FlattenSeq(c), h[0], 0, h[n], 0, t)
<1>1. c \in Seq(Seq(Step)) /\ Len(c) = n
  OBVIOUS
<1>2. CASE n = 0
  <2>1. c = <<>>
    <3>1. Len(c) = 0
      BY <1>1, <1>2
    <3> QED
      BY <1>1, <3>1, EmptySeq, Zenon
  <2>2. FlattenSeq(c) = <<>>
    BY <1>1, <1>2, <2>1 DEF FlattenSeq
  <2>3. h[0] \in Nat /\ 0 - t.over <= 0
    BY DEF Terms
  <2>4. Seg(<<>>, h[0], 0, h[0], 0, t)
    BY <2>3, SegNil
  <2>5. <<>> \in Seq(Step)
    OBVIOUS
  <2> QED
    BY <1>2, <2>2, <2>4, <2>5
<1>3. CASE n # 0
  <2>1. PICK g : /\ FlattenSeq(c) = g[n]
                 /\ g[1] = c[1]
                 /\ \A i \in 2 .. n : g[i] = g[i - 1] \o c[i]
    <3>1. Len(c) # 0
      BY <1>1, <1>3
    <3>2. PICK g : Appends(g, c)
      BY <1>1, <3>1, FlattenEquation
    <3> QED
      BY <1>1, <3>2 DEF Appends
  <2> DEFINE Good(k) == g[k] \in Seq(Step) /\ Seg(g[k], h[0], 0, h[k], 0, t)
             T == {d \in Nat : d + 1 <= n => Good(d + 1)}
  <2>2. 0 \in T
    <3>1. Good(1)
      BY <1>3, <2>1
    <3> QED
      BY <3>1
  <2>3. ASSUME NEW d \in Nat, d \in T
        PROVE  d + 1 \in T
    <3> SUFFICES ASSUME (d + 1) + 1 <= n
                 PROVE  Good((d + 1) + 1)
      OBVIOUS
    <3> DEFINE k == (d + 1) + 1
    <3>1. k \in 2 .. n /\ k \in 1 .. n /\ k - 1 = d + 1 /\ d + 1 <= n
      OBVIOUS
    <3>2. Good(k - 1)
      BY <2>3, <3>1
    <3> HIDE DEF k
    <3>3. g[k] = g[k - 1] \o c[k] /\ c[k] \in Seq(Step)
      BY <2>1, <3>1
    <3>4. Seg(c[k], h[k - 1], 0, h[k], 0, t)
      BY <3>1
    <3>5. Seg(g[k - 1] \o c[k], h[0], 0, h[k], 0, t)
      BY <3>2, <3>3, <3>4, SegConcat
    <3>6. g[k - 1] \o c[k] \in Seq(Step)
      BY <3>2, <3>3, ConcatProperties
    <3>7. Good(k)
      BY <3>3, <3>5, <3>6
    <3> QED
      BY <3>7 DEF k
  <2> HIDE DEF T
  <2>4. Nat \subseteq T
    BY <2>2, <2>3, SetInduction
  <2>5. Good((n - 1) + 1)
    <3>1. n - 1 \in Nat /\ (n - 1) + 1 <= n
      BY <1>3
    <3> QED
      BY <2>4, <3>1 DEF T
  <2>6. (n - 1) + 1 = n
    OBVIOUS
  <2> QED
    BY <2>1, <2>5, <2>6
<1> QED
  BY <1>2, <1>3

\* A function that never decreases is bounded by its last value.
LEMMA Monotone ==
    ASSUME NEW n \in Nat, NEW h \in [0 .. n -> Nat],
           \A i \in 1 .. n : h[i - 1] <= h[i]
    PROVE  \A i \in 0 .. n : h[i] <= h[n]
<1> DEFINE T == {d \in Nat : d <= n => h[n - d] <= h[n]}
<1>1. 0 \in T
  <2>1. n - 0 = n /\ h[n] \in Nat
    OBVIOUS
  <2> QED
    BY <2>1
<1>2. ASSUME NEW d \in Nat, d \in T
      PROVE  d + 1 \in T
  <2> SUFFICES ASSUME d + 1 <= n
               PROVE  h[n - (d + 1)] <= h[n]
    OBVIOUS
  <2>1. n - d \in 1 .. n /\ (n - d) - 1 = n - (d + 1) /\ n - (d + 1) \in 0 .. n /\ d <= n
    OBVIOUS
  <2>2. h[n - d] <= h[n] /\ h[n - (d + 1)] <= h[n - d]
    BY <1>2, <2>1
  <2>3. h[n - d] \in Nat /\ h[n] \in Nat /\ h[n - (d + 1)] \in Nat
    BY <2>1
  <2> QED
    BY <2>2, <2>3
<1> HIDE DEF T
<1>3. Nat \subseteq T
  BY <1>1, <1>2, SetInduction
<1>4. ASSUME NEW i \in 0 .. n PROVE h[i] <= h[n]
  <2>1. n - i \in Nat /\ n - i <= n /\ n - (n - i) = i
    OBVIOUS
  <2>2. n - i \in T
    BY <1>3, <2>1
  <2> QED
    BY <2>1, <2>2 DEF T
<1> QED
  BY <1>4

\* The bytes of the values, one after the other.
Pos(n) == IF n > 0 THEN n ELSE 0
Sums(h, ls) ==
    /\ h \in [0 .. Len(ls) -> Nat] /\ h[0] = 0
    /\ \A i \in 1 .. Len(ls) : h[i] = h[i - 1] + Pos(ls[i])
    /\ \A i \in 0 .. Len(ls) : h[i] <= h[Len(ls)]

LEMMA TotalEquation ==
    ASSUME NEW ls \in Seq(Int)
    PROVE  Sums(TotalUpto(ls), ls)
<1> DEFINE n == Len(ls)
           step == [p \in Nat \X (1 .. n) |-> p[1] + Pos(ls[p[2]])]
           body(f) == [i \in 0 .. n |-> IF i = 0 THEN 0 ELSE f[i - 1] + Pos(ls[i])]
<1>1. n \in Nat
  BY LenProperties
<1>2. \A i \in 1 .. n : ls[i] \in Int /\ Pos(ls[i]) \in Nat
  <2> TAKE i \in 1 .. n
  <2>1. ls[i] \in Int
    BY ElementOfSeq
  <2> QED
    BY <2>1 DEF Pos
<1>3. step \in [Nat \X (1 .. n) -> Nat]
  <2> SUFFICES ASSUME NEW p \in Nat \X (1 .. n)
               PROVE  p[1] + Pos(ls[p[2]]) \in Nat
    OBVIOUS
  <2>1. p[1] \in Nat /\ p[2] \in 1 .. n
    OBVIOUS
  <2>2. Pos(ls[p[2]]) \in Nat
    BY <1>2, <2>1
  <2> QED
    BY <2>1, <2>2
<1>4. \A v \in Nat, k \in 1 .. n : step[<<v, k>>] = v + Pos(ls[k])
  OBVIOUS
<1> HIDE DEF step
<1>5. PICK f \in [0 .. n -> Nat] : IsRecursion(f, n, 0, step)
  BY <1>1, <1>3, RecursionExists
<1>6. f[0] = 0 /\ \A k \in 1 .. n : f[k] = f[k - 1] + Pos(ls[k])
  <2>1. ASSUME NEW k \in 1 .. n PROVE f[k] = f[k - 1] + Pos(ls[k])
    <3>1. k - 1 \in 0 .. n
      BY <1>1
    <3>2. f[k] = step[<<f[k - 1], k>>] /\ f[k - 1] \in Nat
      BY <1>5, <3>1 DEF IsRecursion
    <3> QED
      BY <1>4, <3>2
  <2> QED
    BY <1>5, <2>1 DEF IsRecursion
<1>7. ASSUME NEW g, g = body(g)
      PROVE  /\ g[0] = 0 /\ \A k \in 1 .. n : g[k] = g[k - 1] + Pos(ls[k])
             /\ \A k \in 0 .. n : g[k] = f[k]
             /\ DOMAIN g = 0 .. n
  <2>1. /\ \A i \in 0 .. n : body(g)[i] = IF i = 0 THEN 0 ELSE g[i - 1] + Pos(ls[i])
        /\ DOMAIN body(g) = 0 .. n
    OBVIOUS
  <2> HIDE DEF body
  <2>2. \A i \in 0 .. n : g[i] = IF i = 0 THEN 0 ELSE g[i - 1] + Pos(ls[i])
    BY <1>7, <2>1
  <2>3. 0 \in 0 .. n /\ \A i \in 1 .. n : i \in 0 .. n /\ i # 0
    BY <1>1
  <2>4. g[0] = 0 /\ \A k \in 1 .. n : g[k] = g[k - 1] + Pos(ls[k])
    BY <2>2, <2>3, Zenon
  <2> DEFINE T == {k \in Nat : k <= n => g[k] = f[k]}
  <2>5. 0 \in T
    BY <1>6, <2>4
  <2>6. ASSUME NEW k \in Nat, k \in T PROVE k + 1 \in T
    <3> SUFFICES ASSUME k + 1 <= n PROVE g[k + 1] = f[k + 1]
      OBVIOUS
    <3>1. k + 1 \in 1 .. n /\ (k + 1) - 1 = k /\ k <= n
      BY <1>1
    <3> QED
      BY <1>6, <2>4, <2>6, <3>1
  <2> HIDE DEF T
  <2>7. Nat \subseteq T
    BY <2>5, <2>6, SetInduction
  <2>8. \A k \in 0 .. n : k \in Nat /\ k <= n
    BY <1>1
  <2>9. \A k \in 0 .. n : g[k] = f[k]
    BY <2>7, <2>8 DEF T
  <2> QED
    BY <1>7, <2>1, <2>4, <2>9
<1>8. f = body(f)
  <2>1. ASSUME NEW i \in 0 .. n
        PROVE  f[i] = IF i = 0 THEN 0 ELSE f[i - 1] + Pos(ls[i])
    <3>1. CASE i = 0
      BY <1>6, <3>1
    <3>2. CASE i # 0
      <4>1. i \in 1 .. n
        BY <3>2
      <4> QED
        BY <1>6, <3>2, <4>1
    <3> QED
      BY <3>1, <3>2
  <2> QED
    BY <2>1
<1> DEFINE g == TotalUpto(ls)
<1>9. g = CHOOSE h : h = body(h)
  BY DEF TotalUpto, Pos
<1>10. g = body(g)
  <2> HIDE DEF body
  <2> QED
    BY <1>8, <1>9, Zenon
<1>11. /\ g[0] = 0 /\ \A k \in 1 .. n : g[k] = g[k - 1] + Pos(ls[k])
       /\ g \in [0 .. n -> Nat]
  <2> HIDE DEF body, g
  <2>1. /\ g[0] = 0 /\ \A k \in 1 .. n : g[k] = g[k - 1] + Pos(ls[k])
        /\ \A k \in 0 .. n : g[k] = f[k]
        /\ DOMAIN g = 0 .. n
    BY <1>7, <1>10
  <2>2. g = [k \in 0 .. n |-> g[k]]
    BY <1>10, <2>1 DEF body
  <2>3. \A k \in 0 .. n : g[k] \in Nat
    BY <2>1
  <2> QED
    BY <2>1, <2>2, <2>3
<1> HIDE DEF g
<1>12. \A k \in 1 .. n : g[k - 1] <= g[k]
  <2> TAKE k \in 1 .. n
  <2>1. k - 1 \in 0 .. n
    BY <1>1
  <2>2. g[k - 1] \in Nat /\ g[k] = g[k - 1] + Pos(ls[k])
    BY <1>11, <2>1
  <2>3. Pos(ls[k]) \in Nat
    BY <1>2
  <2> QED
    BY <2>2, <2>3
<1>13. \A k \in 0 .. n : g[k] <= g[n]
  BY <1>1, <1>11, <1>12, Monotone
<1>14. Sums(g, ls)
  BY <1>11, <1>13 DEF Sums
<1> QED
  BY <1>14 DEF g

-----------------------------------------------------------------------------
(* A step in front of a segment.                                           *)

LEMMA StepTypes ==
    ASSUME NEW n \in Nat
    PROVE  /\ Malloc(n) \in Step /\ Require(n) \in Step /\ Fit(n) \in Step /\ Put(n) \in Step
           /\ <<Malloc(n)>> \in Seq(Step) /\ <<Require(n)>> \in Seq(Step)
           /\ <<Fit(n)>> \in Seq(Step) /\ <<Put(n)>> \in Seq(Step)
<1>1. Malloc(n) \in Step /\ Require(n) \in Step /\ Fit(n) \in Step /\ Put(n) \in Step
  BY DEF Malloc, Require, Fit, Put, Step
<1> QED
  BY <1>1

\* A write.
LEMMA PutFront ==
    ASSUME NEW xs \in Seq(Step), NEW t \in Terms, NEW n \in Nat,
           NEW a \in Nat, NEW r \in Int, NEW b, NEW q \in Int,
           Seg(xs, a + n, r - n, b, q, t)
    PROVE  Seg(<<Put(n)>> \o xs, a, r, b, q, t) /\ <<Put(n)>> \o xs \in Seq(Step)
<1>1. t.over \in Nat /\ 0 - t.over <= r - n
  BY SegRoom DEF Terms
<1>2. StepOK(Put(n), a, r, a + n, r - n, t)
  BY DEF StepOK, Put
<1>3. Put(n) \in Step /\ <<Put(n)>> \in Seq(Step)
  BY StepTypes
<1>4. a + n \in Nat /\ r - n \in Int /\ 0 - t.over <= r
  BY <1>1
<1>5. Seg(<<Put(n)>>, a, r, a + n, r - n, t)
  BY <1>1, <1>2, <1>3, <1>4, SegOne
<1> QED
  BY <1>3, <1>4, <1>5, SegConcat, ConcatProperties

\* A check, after which there is the room that was asked for, or more.
LEMMA RequireFront ==
    ASSUME NEW xs \in Seq(Step), NEW t \in Terms, NEW n \in Nat, NEW z \in Int,
           NEW a \in Nat, NEW r \in Int, NEW b, NEW q \in Int,
           a + n <= t.lim, 0 - t.over <= r, z <= r \/ z <= n,
           Seg(xs, a, z, b, q, t)
    PROVE  Seg(<<Require(n)>> \o xs, a, r, b, q, t) /\ <<Require(n)>> \o xs \in Seq(Step)
<1>1. 0 - t.over <= z
  BY SegRoom
<1>2. StepOK(Require(n), a, r, a, z, t)
  BY DEF StepOK, Require
<1>3. Require(n) \in Step /\ <<Require(n)>> \in Seq(Step)
  BY StepTypes
<1>4. Seg(<<Require(n)>>, a, r, a, z, t)
  BY <1>1, <1>2, <1>3, SegOne
<1> QED
  BY <1>3, <1>4, SegConcat, ConcatProperties

\* A check for exactly what follows it.
LEMMA CheckFront ==
    ASSUME NEW xs \in Seq(Step), NEW t \in Terms, NEW n \in Nat,
           NEW a \in Nat, NEW r \in Int, NEW b, NEW q \in Int,
           a + n <= t.lim, 0 - t.over <= r, Seg(xs, a, n, b, q, t)
    PROVE  Seg(<<Require(n)>> \o xs, a, r, b, q, t) /\ <<Require(n)>> \o xs \in Seq(Step)
<1>1. n \in Int /\ n <= n
  OBVIOUS
<1> QED
  BY <1>1, RequireFront

\* An enlargement.
LEMMA FitFront ==
    ASSUME NEW xs \in Seq(Step), NEW t \in Terms, NEW n \in Nat, NEW z \in Int,
           NEW a \in Nat, NEW r \in Int, NEW b, NEW q \in Int,
           t.heap = 1, 0 - t.over <= r, z <= r \/ z <= n,
           Seg(xs, a, z, b, q, t)
    PROVE  Seg(<<Fit(n)>> \o xs, a, r, b, q, t) /\ <<Fit(n)>> \o xs \in Seq(Step)
<1>1. 0 - t.over <= z
  BY SegRoom
<1>2. StepOK(Fit(n), a, r, a, z, t)
  BY DEF StepOK, Fit
<1>3. Fit(n) \in Step /\ <<Fit(n)>> \in Seq(Step)
  BY StepTypes
<1>4. Seg(<<Fit(n)>>, a, r, a, z, t)
  BY <1>1, <1>2, <1>3, SegOne
<1> QED
  BY <1>3, <1>4, SegConcat, ConcatProperties

-----------------------------------------------------------------------------
(* The helpers, for all their arguments.                                   *)

HeapHelpers == {"send_bind", "send_data_row_multi"}
TermsOf(call) ==
    [lim |-> call.body + Spare(call), over |-> Overshoot(call),
     heap |-> IF call.helper \in HeapHelpers THEN 1 ELSE 0]

\* What is to be shown of a call: its steps are a segment from an empty buffer
\* to a message of the prescribed length, or it is rejected at once.
Rejected(call) == call.steps = <<Reject>> /\ SlotMissing(call)
Built(call) ==
    \E w \in Nat, q \in Int :
        /\ ~Cuts(call) => w = call.body
        /\ \/ /\ FirstCap(call) \in 0 .. call.cap
              /\ Seg(call.steps, 0, call.cap, w, q, TermsOf(call))
           \/ /\ call.cap = 0 /\ call.steps # <<>> /\ Head(call.steps).op = "malloc"
              /\ call.helper \in HeapHelpers /\ FirstCap(call) \in Nat
              /\ Seg(Tail(call.steps), 0, FirstCap(call), w, q, TermsOf(call))
Sound(call) ==
    /\ call.cap \in Nat /\ call.body \in Nat /\ call.steps \in Seq(Step)
    /\ TermsOf(call) \in Terms
    /\ Rejected(call) \/ Built(call)

\* The terms of a call.
LEMMA TermsFacts ==
    ASSUME NEW call, call.body \in Nat
    PROVE  /\ TermsOf(call) \in Terms
           /\ TermsOf(call).lim = call.body + Spare(call)
           /\ TermsOf(call).over = Overshoot(call)
           /\ TermsOf(call).heap = 1 <=> call.helper \in HeapHelpers
<1>1. Spare(call) \in Nat /\ Overshoot(call) \in Nat
  BY DEF Spare, Overshoot
<1> QED
  BY <1>1 DEF TermsOf, Terms

\* A helper with a buffer on the stack.
LEMMA StackSound ==
    ASSUME NEW call, call.cap \in Nat, call.body \in Nat, FirstCap(call) \in 0 .. call.cap,
           call.steps \in Seq(Step), NEW w \in Nat, NEW q \in Int,
           ~Cuts(call) => w = call.body,
           Seg(call.steps, 0, call.cap, w, q, TermsOf(call))
    PROVE  Sound(call)
BY TermsFacts, Zenon DEF Sound, Built

\* One that does not cut.
LEMMA WholeSound ==
    ASSUME NEW call, call.cap \in Nat, call.body \in Nat, FirstCap(call) \in 0 .. call.cap,
           call.steps \in Seq(Step), NEW q \in Int,
           Seg(call.steps, 0, call.cap, call.body, q, TermsOf(call))
    PROVE  Sound(call)
BY StackSound, Zenon

\* A payload of the caller's.
LEMMA DirectSound ==
    ASSUME NEW helper \in DirectHelpers, NEW type, NEW n \in Nat
    PROVE  Sound(Direct(helper, type, n))
<1> DEFINE call == Direct(helper, type, n)
           t == TermsOf(call)
           e == <<>>
<1>1. /\ call.cap = n /\ call.steps = <<Put(n)>> /\ call.body = n
      /\ FirstCap(call) \in 0 .. call.cap /\ Overshoot(call) = 0
  BY DEF Direct, Helper, FirstCap, Put, Overshoot, DirectHelpers
<1> HIDE DEF call
<1>2. t \in Terms /\ t.over = 0
  BY <1>1, TermsFacts
<1>3. e \in Seq(Step) /\ <<Put(n)>> \o e = <<Put(n)>>
  BY StepTypes, ConcatEmptySeq
<1> HIDE DEF t, e
<1>4. 0 \in Nat /\ 0 \in Int /\ n \in Int /\ 0 + n = n /\ n - n = 0 /\ 0 - t.over <= 0 /\ 0 <= 0
  BY <1>2
<1>5. Seg(e, 0 + n, n - n, n, 0, t)
  BY <1>2, <1>4, SegNil DEF e
<1>6. Seg(<<Put(n)>> \o e, 0, n, n, 0, t) /\ <<Put(n)>> \o e \in Seq(Step)
  BY <1>2, <1>3, <1>4, <1>5, PutFront
<1>7. /\ call.cap \in Nat /\ call.body \in Nat /\ call.steps \in Seq(Step)
      /\ n = call.body /\ Seg(call.steps, 0, call.cap, n, 0, TermsOf(call))
  BY <1>1, <1>3, <1>6 DEF t
<1>8. Sound(call)
  BY <1>1, <1>4, <1>7, StackSound
<1> QED
  BY <1>8 DEF call

\* pqwire_send_startup: eight bytes may be missing before the second check.
LEMMA StartupSound ==
    ASSUME NEW user \in Nat, NEW database \in Nat
    PROVE  Sound(SendStartup(user, database))
<1> DEFINE call == SendStartup(user, database)
           t == TermsOf(call)
           e9 == <<>>
           e8 == <<Put(1)>> \o e9
           e7 == <<Put(database + 1)>> \o e8
           e6 == <<Require(database + 3)>> \o e7
           e5 == <<Put(9)>> \o e6
           e4 == <<Put(user + 1)>> \o e5
           e3 == <<Require(user + 2)>> \o e4
           e2 == <<Put(5)>> \o e3
           e1 == <<Put(4)>> \o e2
           e0 == <<Put(4)>> \o e1
<1>1. /\ call.cap = 512 /\ call.body = user + database + 25
      /\ FirstCap(call) \in 0 .. call.cap /\ Overshoot(call) = 8 /\ Spare(call) = 1
  BY DEF SendStartup, Helper, FirstCap, Overshoot, Spare
<1>2. call.steps = e0
  BY DEF SendStartup, Helper
<1> HIDE DEF call
<1>3. t \in Terms /\ t.lim = user + database + 25 + 1 /\ t.over = 8
  <2>1. call.body \in Nat
    BY <1>1
  <2> QED
    BY <1>1, <2>1, TermsFacts
<1> HIDE DEF t, e0, e1, e2, e3, e4, e5, e6, e7, e8, e9
<1>4. e9 \in Seq(Step) /\ Seg(e9, user + database + 25, 1, user + database + 25, 1, t)
  <2>1. user + database + 25 \in Nat /\ 1 \in Int /\ 1 <= 1 /\ 0 - t.over <= 1
    BY <1>3
  <2>2. <<>> \in Seq(Step)
    OBVIOUS
  <2> QED
    BY <1>3, <2>1, <2>2, SegNil DEF e9
<1>5. e8 \in Seq(Step) /\ Seg(e8, user + database + 24, 2, user + database + 25, 1, t)
  <2>1. /\ user + database + 24 \in Nat /\ 2 \in Int /\ 1 \in Nat /\ 1 \in Int
        /\ user + database + 25 = (user + database + 24) + (1) /\ 1 = 2 - (1)
    BY <1>3
  <2> QED
    BY <1>3, <1>4, <2>1, PutFront DEF e8
<1>6. e7 \in Seq(Step) /\ Seg(e7, user + 23, database + 3, user + database + 25, 1, t)
  <2>1. /\ user + 23 \in Nat /\ database + 3 \in Int /\ database + 1 \in Nat /\ 1 \in Int
        /\ user + database + 24 = (user + 23) + (database + 1) /\ 2 = (database + 3) - (database + 1)
    BY <1>3
  <2> QED
    BY <1>3, <1>5, <2>1, PutFront DEF e7
<1>7. e6 \in Seq(Step) /\ Seg(e6, user + 23, -8, user + database + 25, 1, t)
  <2>1. /\ user + 23 \in Nat /\ -8 \in Int /\ database + 3 \in Nat /\ 1 \in Int
        /\ (user + 23) + (database + 3) <= t.lim /\ 0 - t.over <= -8 /\ database + 3 <= database + 3
        /\ database + 3 \in Int
    BY <1>3
  <2> QED
    <3> DEFINE p == user + 23
               m == database + 3
               w == user + database + 25
    <3>1. p \in Nat /\ m \in Nat /\ p + m <= t.lim /\ 0 - t.over <= -8 /\ 1 \in Int
      BY <2>1
    <3>2. e7 \in Seq(Step) /\ Seg(e7, p, m, w, 1, t) /\ t \in Terms /\ -8 \in Int
      BY <1>3, <1>6, <2>1
    <3>3. e6 = <<Require(m)>> \o e7
      BY DEF e6
    <3> HIDE DEF p, m, w
    <3>4. Seg(e6, p, -8, w, 1, t) /\ e6 \in Seq(Step)
      BY <3>1, <3>2, <3>3, CheckFront
    <3> QED
      BY <3>4 DEF p, m, w
<1>8. e5 \in Seq(Step) /\ Seg(e5, user + 14, 1, user + database + 25, 1, t)
  <2>1. /\ user + 14 \in Nat /\ 1 \in Int /\ 9 \in Nat /\ 1 \in Int
        /\ user + 23 = (user + 14) + (9) /\ -8 = 1 - (9)
    BY <1>3
  <2> QED
    BY <1>3, <1>7, <2>1, PutFront DEF e5
<1>9. e4 \in Seq(Step) /\ Seg(e4, 13, user + 2, user + database + 25, 1, t)
  <2>1. /\ 13 \in Nat /\ user + 2 \in Int /\ user + 1 \in Nat /\ 1 \in Int
        /\ user + 14 = 13 + (user + 1) /\ 1 = (user + 2) - (user + 1)
    BY <1>3
  <2> QED
    BY <1>3, <1>8, <2>1, PutFront DEF e4
<1>10. e3 \in Seq(Step) /\ Seg(e3, 13, 499, user + database + 25, 1, t)
  <2>1. /\ 13 \in Nat /\ 499 \in Int /\ user + 2 \in Nat /\ 1 \in Int
        /\ 13 + (user + 2) <= t.lim /\ 0 - t.over <= 499 /\ user + 2 <= user + 2
        /\ user + 2 \in Int
    BY <1>3
  <2> QED
    <3> DEFINE m == user + 2
               w == user + database + 25
    <3>1. 13 \in Nat /\ m \in Nat /\ 13 + m <= t.lim /\ 0 - t.over <= 499 /\ 1 \in Int
      BY <2>1
    <3>2. e4 \in Seq(Step) /\ Seg(e4, 13, m, w, 1, t) /\ t \in Terms /\ 499 \in Int
      BY <1>3, <1>9, <2>1
    <3>3. e3 = <<Require(m)>> \o e4
      BY DEF e3
    <3> HIDE DEF m, w
    <3>4. Seg(e3, 13, 499, w, 1, t) /\ e3 \in Seq(Step)
      BY <3>1, <3>2, <3>3, CheckFront
    <3> QED
      BY <3>4 DEF m, w
<1>11. e2 \in Seq(Step) /\ Seg(e2, 8, 504, user + database + 25, 1, t)
  <2>1. /\ 8 \in Nat /\ 504 \in Int /\ 5 \in Nat /\ 1 \in Int
        /\ 13 = 8 + (5) /\ 499 = 504 - (5)
    BY <1>3
  <2> QED
    BY <1>3, <1>10, <2>1, PutFront DEF e2
<1>12. e1 \in Seq(Step) /\ Seg(e1, 4, 508, user + database + 25, 1, t)
  <2>1. /\ 4 \in Nat /\ 508 \in Int /\ 4 \in Nat /\ 1 \in Int
        /\ 8 = 4 + (4) /\ 504 = 508 - (4)
    BY <1>3
  <2> QED
    BY <1>3, <1>11, <2>1, PutFront DEF e1
<1>13. e0 \in Seq(Step) /\ Seg(e0, 0, 512, user + database + 25, 1, t)
  <2>1. /\ 0 \in Nat /\ 512 \in Int /\ 4 \in Nat /\ 1 \in Int
        /\ 4 = 0 + (4) /\ 508 = 512 - (4)
    BY <1>3
  <2> QED
    BY <1>3, <1>12, <2>1, PutFront DEF e0
<1>14. /\ call.cap \in Nat /\ call.body \in Nat /\ call.steps \in Seq(Step)
      /\ user + database + 25 = call.body
      /\ user + database + 25 \in Nat /\ 1 \in Int /\ Seg(call.steps, 0, call.cap, user + database + 25, 1, TermsOf(call))
  BY <1>1, <1>2, <1>13 DEF t
<1>15. Sound(call)
  <2>1. FirstCap(call) \in 0 .. call.cap
    BY <1>1
  <2>2. 1 \in Int /\ Seg(call.steps, 0, call.cap, call.body, 1, TermsOf(call))
    BY <1>14
  <2> QED
    BY <1>14, <2>1, <2>2, WholeSound
<1> QED
  BY <1>15 DEF call

\* pqwire_send_parse: one check for all four pieces.
LEMMA ParseSound ==
    ASSUME NEW statement \in Nat, NEW query \in Nat, NEW n_types \in Nat
    PROVE  Sound(SendParse(statement, query, n_types))
<1> DEFINE call == SendParse(statement, query, n_types)
           t == TermsOf(call)
           e5 == <<>>
           e4 == <<Put(4 * n_types)>> \o e5
           e3 == <<Put(2)>> \o e4
           e2 == <<Put(query + 1)>> \o e3
           e1 == <<Put(statement + 1)>> \o e2
           e0 == <<Require(statement + query + 4 + 4 * n_types)>> \o e1
<1>1. /\ call.cap = 4352 /\ call.body = statement + query + 4 + 4 * n_types
      /\ FirstCap(call) \in 0 .. call.cap /\ Overshoot(call) = 0 /\ Spare(call) = 0
  BY DEF SendParse, Helper, FirstCap, Overshoot, Spare
<1>2. call.steps = e0
  BY DEF SendParse, Helper
<1> HIDE DEF call
<1>3. t \in Terms /\ t.lim = statement + query + 4 + 4 * n_types + 0 /\ t.over = 0
  <2>1. call.body \in Nat
    BY <1>1
  <2> QED
    BY <1>1, <2>1, TermsFacts
<1> HIDE DEF t, e0, e1, e2, e3, e4, e5
<1>4. e5 \in Seq(Step) /\ Seg(e5, statement + query + 4 + 4 * n_types, 0, statement + query + 4 + 4 * n_types, 0, t)
  <2>1. statement + query + 4 + 4 * n_types \in Nat /\ 0 \in Int /\ 0 <= 0 /\ 0 - t.over <= 0
    BY <1>3
  <2>2. <<>> \in Seq(Step)
    OBVIOUS
  <2> QED
    BY <1>3, <2>1, <2>2, SegNil DEF e5
<1>5. e4 \in Seq(Step) /\ Seg(e4, statement + query + 4, 4 * n_types, statement + query + 4 + 4 * n_types, 0, t)
  <2>1. /\ statement + query + 4 \in Nat /\ 4 * n_types \in Int /\ 4 * n_types \in Nat /\ 0 \in Int
        /\ statement + query + 4 + 4 * n_types = (statement + query + 4) + (4 * n_types) /\ 0 = (4 * n_types) - (4 * n_types)
    BY <1>3
  <2> QED
    BY <1>3, <1>4, <2>1, PutFront DEF e4
<1>6. e3 \in Seq(Step) /\ Seg(e3, statement + query + 2, 2 + 4 * n_types, statement + query + 4 + 4 * n_types, 0, t)
  <2>1. /\ statement + query + 2 \in Nat /\ 2 + 4 * n_types \in Int /\ 2 \in Nat /\ 0 \in Int
        /\ statement + query + 4 = (statement + query + 2) + (2) /\ 4 * n_types = (2 + 4 * n_types) - (2)
    BY <1>3
  <2> QED
    BY <1>3, <1>5, <2>1, PutFront DEF e3
<1>7. e2 \in Seq(Step) /\ Seg(e2, statement + 1, query + 3 + 4 * n_types, statement + query + 4 + 4 * n_types, 0, t)
  <2>1. /\ statement + 1 \in Nat /\ query + 3 + 4 * n_types \in Int /\ query + 1 \in Nat /\ 0 \in Int
        /\ statement + query + 2 = (statement + 1) + (query + 1) /\ 2 + 4 * n_types = (query + 3 + 4 * n_types) - (query + 1)
    BY <1>3
  <2> QED
    BY <1>3, <1>6, <2>1, PutFront DEF e2
<1>8. e1 \in Seq(Step) /\ Seg(e1, 0, statement + query + 4 + 4 * n_types, statement + query + 4 + 4 * n_types, 0, t)
  <2>1. /\ 0 \in Nat /\ statement + query + 4 + 4 * n_types \in Int /\ statement + 1 \in Nat /\ 0 \in Int
        /\ statement + 1 = 0 + (statement + 1) /\ query + 3 + 4 * n_types = (statement + query + 4 + 4 * n_types) - (statement + 1)
    BY <1>3
  <2> QED
    BY <1>3, <1>7, <2>1, PutFront DEF e1
<1>9. e0 \in Seq(Step) /\ Seg(e0, 0, 4352, statement + query + 4 + 4 * n_types, 0, t)
  <2>1. /\ 0 \in Nat /\ 4352 \in Int /\ statement + query + 4 + 4 * n_types \in Nat /\ 0 \in Int
        /\ 0 + (statement + query + 4 + 4 * n_types) <= t.lim /\ 0 - t.over <= 4352 /\ statement + query + 4 + 4 * n_types <= statement + query + 4 + 4 * n_types
        /\ statement + query + 4 + 4 * n_types \in Int
    BY <1>3
  <2> QED
    <3> DEFINE m == statement + query + 4 + 4 * n_types
    <3>1. m \in Nat /\ 0 + m <= t.lim /\ 0 - t.over <= 4352 /\ 0 \in Nat /\ 0 \in Int
      BY <2>1
    <3>2. e1 \in Seq(Step) /\ Seg(e1, 0, m, m, 0, t) /\ t \in Terms /\ 4352 \in Int
      BY <1>3, <1>8
    <3>3. e0 = <<Require(m)>> \o e1
      BY DEF e0
    <3> HIDE DEF m
    <3>4. Seg(e0, 0, 4352, m, 0, t) /\ e0 \in Seq(Step)
      BY <3>1, <3>2, <3>3, CheckFront
    <3> QED
      BY <3>4 DEF m
<1>10. /\ call.cap \in Nat /\ call.body \in Nat /\ call.steps \in Seq(Step)
      /\ statement + query + 4 + 4 * n_types = call.body
      /\ statement + query + 4 + 4 * n_types \in Nat /\ 0 \in Int /\ Seg(call.steps, 0, call.cap, statement + query + 4 + 4 * n_types, 0, TermsOf(call))
  BY <1>1, <1>2, <1>9 DEF t
<1>11. Sound(call)
  <2>1. FirstCap(call) \in 0 .. call.cap
    BY <1>1
  <2>2. 0 \in Int /\ Seg(call.steps, 0, call.cap, call.body, 0, TermsOf(call))
    BY <1>10
  <2> QED
    BY <1>10, <2>1, <2>2, WholeSound
<1> QED
  BY <1>11 DEF call

\* pqwire_send_describe.
LEMMA DescribeSound ==
    ASSUME NEW name \in Nat
    PROVE  Sound(SendDescribe(name))
<1> DEFINE call == SendDescribe(name)
           t == TermsOf(call)
           e3 == <<>>
           e2 == <<Put(name + 1)>> \o e3
           e1 == <<Put(1)>> \o e2
           e0 == <<Require(name + 2)>> \o e1
<1>1. /\ call.cap = 66 /\ call.body = name + 2
      /\ FirstCap(call) \in 0 .. call.cap /\ Overshoot(call) = 0 /\ Spare(call) = 0
  BY DEF SendDescribe, Helper, FirstCap, Overshoot, Spare
<1>2. call.steps = e0
  BY DEF SendDescribe, Helper
<1> HIDE DEF call
<1>3. t \in Terms /\ t.lim = name + 2 + 0 /\ t.over = 0
  <2>1. call.body \in Nat
    BY <1>1
  <2> QED
    BY <1>1, <2>1, TermsFacts
<1> HIDE DEF t, e0, e1, e2, e3
<1>4. e3 \in Seq(Step) /\ Seg(e3, name + 2, 0, name + 2, 0, t)
  <2>1. name + 2 \in Nat /\ 0 \in Int /\ 0 <= 0 /\ 0 - t.over <= 0
    BY <1>3
  <2>2. <<>> \in Seq(Step)
    OBVIOUS
  <2> QED
    BY <1>3, <2>1, <2>2, SegNil DEF e3
<1>5. e2 \in Seq(Step) /\ Seg(e2, 1, name + 1, name + 2, 0, t)
  <2>1. /\ 1 \in Nat /\ name + 1 \in Int /\ name + 1 \in Nat /\ 0 \in Int
        /\ name + 2 = 1 + (name + 1) /\ 0 = (name + 1) - (name + 1)
    BY <1>3
  <2> QED
    BY <1>3, <1>4, <2>1, PutFront DEF e2
<1>6. e1 \in Seq(Step) /\ Seg(e1, 0, name + 2, name + 2, 0, t)
  <2>1. /\ 0 \in Nat /\ name + 2 \in Int /\ 1 \in Nat /\ 0 \in Int
        /\ 1 = 0 + (1) /\ name + 1 = (name + 2) - (1)
    BY <1>3
  <2> QED
    BY <1>3, <1>5, <2>1, PutFront DEF e1
<1>7. e0 \in Seq(Step) /\ Seg(e0, 0, 66, name + 2, 0, t)
  <2>1. /\ 0 \in Nat /\ 66 \in Int /\ name + 2 \in Nat /\ 0 \in Int
        /\ 0 + (name + 2) <= t.lim /\ 0 - t.over <= 66 /\ name + 2 <= name + 2
        /\ name + 2 \in Int
    BY <1>3
  <2> QED
    <3> DEFINE m == name + 2
               w == name + 2
    <3>1. 0 \in Nat /\ m \in Nat /\ 0 + m <= t.lim /\ 0 - t.over <= 66 /\ 0 \in Int
      BY <2>1
    <3>2. e1 \in Seq(Step) /\ Seg(e1, 0, m, w, 0, t) /\ t \in Terms /\ 66 \in Int
      BY <1>3, <1>6, <2>1
    <3>3. e0 = <<Require(m)>> \o e1
      BY DEF e0
    <3> HIDE DEF m, w
    <3>4. Seg(e0, 0, 66, w, 0, t) /\ e0 \in Seq(Step)
      BY <3>1, <3>2, <3>3, CheckFront
    <3> QED
      BY <3>4 DEF m, w
<1>8. /\ call.cap \in Nat /\ call.body \in Nat /\ call.steps \in Seq(Step)
      /\ name + 2 = call.body
      /\ name + 2 \in Nat /\ 0 \in Int /\ Seg(call.steps, 0, call.cap, name + 2, 0, TermsOf(call))
  BY <1>1, <1>2, <1>7 DEF t
<1>9. Sound(call)
  <2>1. FirstCap(call) \in 0 .. call.cap
    BY <1>1
  <2> QED
    BY <1>8, <2>1, StackSound
<1> QED
  BY <1>9 DEF call

\* pqwire_send_close.
LEMMA CloseSound ==
    ASSUME NEW name \in Nat
    PROVE  Sound(SendClose(name))
<1> DEFINE call == SendClose(name)
           t == TermsOf(call)
           e3 == <<>>
           e2 == <<Put(name + 1)>> \o e3
           e1 == <<Put(1)>> \o e2
           e0 == <<Require(name + 2)>> \o e1
<1>1. /\ call.cap = 66 /\ call.body = name + 2
      /\ FirstCap(call) \in 0 .. call.cap /\ Overshoot(call) = 0 /\ Spare(call) = 0
  BY DEF SendClose, Helper, FirstCap, Overshoot, Spare
<1>2. call.steps = e0
  BY DEF SendClose, Helper
<1> HIDE DEF call
<1>3. t \in Terms /\ t.lim = name + 2 + 0 /\ t.over = 0
  <2>1. call.body \in Nat
    BY <1>1
  <2> QED
    BY <1>1, <2>1, TermsFacts
<1> HIDE DEF t, e0, e1, e2, e3
<1>4. e3 \in Seq(Step) /\ Seg(e3, name + 2, 0, name + 2, 0, t)
  <2>1. name + 2 \in Nat /\ 0 \in Int /\ 0 <= 0 /\ 0 - t.over <= 0
    BY <1>3
  <2>2. <<>> \in Seq(Step)
    OBVIOUS
  <2> QED
    BY <1>3, <2>1, <2>2, SegNil DEF e3
<1>5. e2 \in Seq(Step) /\ Seg(e2, 1, name + 1, name + 2, 0, t)
  <2>1. /\ 1 \in Nat /\ name + 1 \in Int /\ name + 1 \in Nat /\ 0 \in Int
        /\ name + 2 = 1 + (name + 1) /\ 0 = (name + 1) - (name + 1)
    BY <1>3
  <2> QED
    BY <1>3, <1>4, <2>1, PutFront DEF e2
<1>6. e1 \in Seq(Step) /\ Seg(e1, 0, name + 2, name + 2, 0, t)
  <2>1. /\ 0 \in Nat /\ name + 2 \in Int /\ 1 \in Nat /\ 0 \in Int
        /\ 1 = 0 + (1) /\ name + 1 = (name + 2) - (1)
    BY <1>3
  <2> QED
    BY <1>3, <1>5, <2>1, PutFront DEF e1
<1>7. e0 \in Seq(Step) /\ Seg(e0, 0, 66, name + 2, 0, t)
  <2>1. /\ 0 \in Nat /\ 66 \in Int /\ name + 2 \in Nat /\ 0 \in Int
        /\ 0 + (name + 2) <= t.lim /\ 0 - t.over <= 66 /\ name + 2 <= name + 2
        /\ name + 2 \in Int
    BY <1>3
  <2> QED
    <3> DEFINE m == name + 2
               w == name + 2
    <3>1. 0 \in Nat /\ m \in Nat /\ 0 + m <= t.lim /\ 0 - t.over <= 66 /\ 0 \in Int
      BY <2>1
    <3>2. e1 \in Seq(Step) /\ Seg(e1, 0, m, w, 0, t) /\ t \in Terms /\ 66 \in Int
      BY <1>3, <1>6, <2>1
    <3>3. e0 = <<Require(m)>> \o e1
      BY DEF e0
    <3> HIDE DEF m, w
    <3>4. Seg(e0, 0, 66, w, 0, t) /\ e0 \in Seq(Step)
      BY <3>1, <3>2, <3>3, CheckFront
    <3> QED
      BY <3>4 DEF m, w
<1>8. /\ call.cap \in Nat /\ call.body \in Nat /\ call.steps \in Seq(Step)
      /\ name + 2 = call.body
      /\ name + 2 \in Nat /\ 0 \in Int /\ Seg(call.steps, 0, call.cap, name + 2, 0, TermsOf(call))
  BY <1>1, <1>2, <1>7 DEF t
<1>9. Sound(call)
  <2>1. FirstCap(call) \in 0 .. call.cap
    BY <1>1
  <2> QED
    BY <1>8, <2>1, StackSound
<1> QED
  BY <1>9 DEF call

\* pqwire_send_execute.
LEMMA ExecuteSound ==
    ASSUME NEW portal \in Nat
    PROVE  Sound(SendExecute(portal))
<1> DEFINE call == SendExecute(portal)
           t == TermsOf(call)
           e3 == <<>>
           e2 == <<Put(4)>> \o e3
           e1 == <<Put(portal + 1)>> \o e2
           e0 == <<Require(portal + 5)>> \o e1
<1>1. /\ call.cap = 72 /\ call.body = portal + 5
      /\ FirstCap(call) \in 0 .. call.cap /\ Overshoot(call) = 0 /\ Spare(call) = 0
  BY DEF SendExecute, Helper, FirstCap, Overshoot, Spare
<1>2. call.steps = e0
  BY DEF SendExecute, Helper
<1> HIDE DEF call
<1>3. t \in Terms /\ t.lim = portal + 5 + 0 /\ t.over = 0
  <2>1. call.body \in Nat
    BY <1>1
  <2> QED
    BY <1>1, <2>1, TermsFacts
<1> HIDE DEF t, e0, e1, e2, e3
<1>4. e3 \in Seq(Step) /\ Seg(e3, portal + 5, 0, portal + 5, 0, t)
  <2>1. portal + 5 \in Nat /\ 0 \in Int /\ 0 <= 0 /\ 0 - t.over <= 0
    BY <1>3
  <2>2. <<>> \in Seq(Step)
    OBVIOUS
  <2> QED
    BY <1>3, <2>1, <2>2, SegNil DEF e3
<1>5. e2 \in Seq(Step) /\ Seg(e2, portal + 1, 4, portal + 5, 0, t)
  <2>1. /\ portal + 1 \in Nat /\ 4 \in Int /\ 4 \in Nat /\ 0 \in Int
        /\ portal + 5 = (portal + 1) + (4) /\ 0 = 4 - (4)
    BY <1>3
  <2> QED
    BY <1>3, <1>4, <2>1, PutFront DEF e2
<1>6. e1 \in Seq(Step) /\ Seg(e1, 0, portal + 5, portal + 5, 0, t)
  <2>1. /\ 0 \in Nat /\ portal + 5 \in Int /\ portal + 1 \in Nat /\ 0 \in Int
        /\ portal + 1 = 0 + (portal + 1) /\ 4 = (portal + 5) - (portal + 1)
    BY <1>3
  <2> QED
    BY <1>3, <1>5, <2>1, PutFront DEF e1
<1>7. e0 \in Seq(Step) /\ Seg(e0, 0, 72, portal + 5, 0, t)
  <2>1. /\ 0 \in Nat /\ 72 \in Int /\ portal + 5 \in Nat /\ 0 \in Int
        /\ 0 + (portal + 5) <= t.lim /\ 0 - t.over <= 72 /\ portal + 5 <= portal + 5
        /\ portal + 5 \in Int
    BY <1>3
  <2> QED
    <3> DEFINE m == portal + 5
               w == portal + 5
    <3>1. 0 \in Nat /\ m \in Nat /\ 0 + m <= t.lim /\ 0 - t.over <= 72 /\ 0 \in Int
      BY <2>1
    <3>2. e1 \in Seq(Step) /\ Seg(e1, 0, m, w, 0, t) /\ t \in Terms /\ 72 \in Int
      BY <1>3, <1>6, <2>1
    <3>3. e0 = <<Require(m)>> \o e1
      BY DEF e0
    <3> HIDE DEF m, w
    <3>4. Seg(e0, 0, 72, w, 0, t) /\ e0 \in Seq(Step)
      BY <3>1, <3>2, <3>3, CheckFront
    <3> QED
      BY <3>4 DEF m, w
<1>8. /\ call.cap \in Nat /\ call.body \in Nat /\ call.steps \in Seq(Step)
      /\ portal + 5 = call.body
      /\ portal + 5 \in Nat /\ 0 \in Int /\ Seg(call.steps, 0, call.cap, portal + 5, 0, TermsOf(call))
  BY <1>1, <1>2, <1>7 DEF t
<1>9. Sound(call)
  <2>1. FirstCap(call) \in 0 .. call.cap
    BY <1>1
  <2> QED
    BY <1>8, <2>1, StackSound
<1> QED
  BY <1>9 DEF call

\* pqwire_send_error_response.
LEMMA ErrorResponseSound ==
    ASSUME NEW severity \in Nat, NEW sqlstate \in Nat, NEW message \in Nat
    PROVE  Sound(SendErrorResponse(severity, sqlstate, message))
<1> DEFINE call == SendErrorResponse(severity, sqlstate, message)
           t == TermsOf(call)
           e11 == <<>>
           e10 == <<Put(1)>> \o e11
           e9 == <<Require(2)>> \o e10
           e8 == <<Put(message + 1)>> \o e9
           e7 == <<Put(1)>> \o e8
           e6 == <<Require(message + 3)>> \o e7
           e5 == <<Put(sqlstate + 1)>> \o e6
           e4 == <<Put(1)>> \o e5
           e3 == <<Require(sqlstate + 3)>> \o e4
           e2 == <<Put(severity + 1)>> \o e3
           e1 == <<Put(1)>> \o e2
           e0 == <<Require(severity + 3)>> \o e1
<1>1. /\ call.cap = 512 /\ call.body = severity + sqlstate + message + 7
      /\ FirstCap(call) \in 0 .. call.cap /\ Overshoot(call) = 0 /\ Spare(call) = 1
  BY DEF SendErrorResponse, Helper, FirstCap, Overshoot, Spare
<1>2. call.steps = e0
  BY DEF SendErrorResponse, Helper
<1> HIDE DEF call
<1>3. t \in Terms /\ t.lim = severity + sqlstate + message + 7 + 1 /\ t.over = 0
  <2>1. call.body \in Nat
    BY <1>1
  <2> QED
    BY <1>1, <2>1, TermsFacts
<1> HIDE DEF t, e0, e1, e2, e3, e4, e5, e6, e7, e8, e9, e10, e11
<1>4. e11 \in Seq(Step) /\ Seg(e11, severity + sqlstate + message + 7, 1, severity + sqlstate + message + 7, 1, t)
  <2>1. severity + sqlstate + message + 7 \in Nat /\ 1 \in Int /\ 1 <= 1 /\ 0 - t.over <= 1
    BY <1>3
  <2>2. <<>> \in Seq(Step)
    OBVIOUS
  <2> QED
    BY <1>3, <2>1, <2>2, SegNil DEF e11
<1>5. e10 \in Seq(Step) /\ Seg(e10, severity + sqlstate + message + 6, 2, severity + sqlstate + message + 7, 1, t)
  <2>1. /\ severity + sqlstate + message + 6 \in Nat /\ 2 \in Int /\ 1 \in Nat /\ 1 \in Int
        /\ severity + sqlstate + message + 7 = (severity + sqlstate + message + 6) + (1) /\ 1 = 2 - (1)
    BY <1>3
  <2> QED
    BY <1>3, <1>4, <2>1, PutFront DEF e10
<1>6. e9 \in Seq(Step) /\ Seg(e9, severity + sqlstate + message + 6, 1, severity + sqlstate + message + 7, 1, t)
  <2>1. /\ severity + sqlstate + message + 6 \in Nat /\ 1 \in Int /\ 2 \in Nat /\ 1 \in Int
        /\ (severity + sqlstate + message + 6) + (2) <= t.lim /\ 0 - t.over <= 1 /\ 2 <= 2
        /\ 2 \in Int
    BY <1>3
  <2> QED
    <3> DEFINE p == severity + sqlstate + message + 6
               w == severity + sqlstate + message + 7
    <3>1. p \in Nat /\ 2 \in Nat /\ p + 2 <= t.lim /\ 0 - t.over <= 1 /\ 1 \in Int
      BY <2>1
    <3>2. e10 \in Seq(Step) /\ Seg(e10, p, 2, w, 1, t) /\ t \in Terms /\ 1 \in Int
      BY <1>3, <1>5, <2>1
    <3>3. e9 = <<Require(2)>> \o e10
      BY DEF e9
    <3> HIDE DEF p, w
    <3>4. Seg(e9, p, 1, w, 1, t) /\ e9 \in Seq(Step)
      BY <3>1, <3>2, <3>3, CheckFront
    <3> QED
      BY <3>4 DEF p, w
<1>7. e8 \in Seq(Step) /\ Seg(e8, (severity + sqlstate + 4) + 1, message + 2, severity + sqlstate + message + 7, 1, t)
  <2>1. /\ (severity + sqlstate + 4) + 1 \in Nat /\ message + 2 \in Int /\ message + 1 \in Nat /\ 1 \in Int
        /\ severity + sqlstate + message + 6 = ((severity + sqlstate + 4) + 1) + (message + 1) /\ 1 = (message + 2) - (message + 1)
    BY <1>3
  <2> QED
    BY <1>3, <1>6, <2>1, PutFront DEF e8
<1>8. e7 \in Seq(Step) /\ Seg(e7, severity + sqlstate + 4, message + 3, severity + sqlstate + message + 7, 1, t)
  <2>1. /\ severity + sqlstate + 4 \in Nat /\ message + 3 \in Int /\ 1 \in Nat /\ 1 \in Int
        /\ (severity + sqlstate + 4) + 1 = (severity + sqlstate + 4) + (1) /\ message + 2 = (message + 3) - (1)
    BY <1>3
  <2> QED
    BY <1>3, <1>7, <2>1, PutFront DEF e7
<1>9. e6 \in Seq(Step) /\ Seg(e6, severity + sqlstate + 4, 1, severity + sqlstate + message + 7, 1, t)
  <2>1. /\ severity + sqlstate + 4 \in Nat /\ 1 \in Int /\ message + 3 \in Nat /\ 1 \in Int
        /\ (severity + sqlstate + 4) + (message + 3) <= t.lim /\ 0 - t.over <= 1 /\ message + 3 <= message + 3
        /\ message + 3 \in Int
    BY <1>3
  <2> QED
    <3> DEFINE p == severity + sqlstate + 4
               m == message + 3
               w == severity + sqlstate + message + 7
    <3>1. p \in Nat /\ m \in Nat /\ p + m <= t.lim /\ 0 - t.over <= 1 /\ 1 \in Int
      BY <2>1
    <3>2. e7 \in Seq(Step) /\ Seg(e7, p, m, w, 1, t) /\ t \in Terms /\ 1 \in Int
      BY <1>3, <1>8, <2>1
    <3>3. e6 = <<Require(m)>> \o e7
      BY DEF e6
    <3> HIDE DEF p, m, w
    <3>4. Seg(e6, p, 1, w, 1, t) /\ e6 \in Seq(Step)
      BY <3>1, <3>2, <3>3, CheckFront
    <3> QED
      BY <3>4 DEF p, m, w
<1>10. e5 \in Seq(Step) /\ Seg(e5, (severity + 2) + 1, sqlstate + 2, severity + sqlstate + message + 7, 1, t)
  <2>1. /\ (severity + 2) + 1 \in Nat /\ sqlstate + 2 \in Int /\ sqlstate + 1 \in Nat /\ 1 \in Int
        /\ severity + sqlstate + 4 = ((severity + 2) + 1) + (sqlstate + 1) /\ 1 = (sqlstate + 2) - (sqlstate + 1)
    BY <1>3
  <2> QED
    BY <1>3, <1>9, <2>1, PutFront DEF e5
<1>11. e4 \in Seq(Step) /\ Seg(e4, severity + 2, sqlstate + 3, severity + sqlstate + message + 7, 1, t)
  <2>1. /\ severity + 2 \in Nat /\ sqlstate + 3 \in Int /\ 1 \in Nat /\ 1 \in Int
        /\ (severity + 2) + 1 = (severity + 2) + (1) /\ sqlstate + 2 = (sqlstate + 3) - (1)
    BY <1>3
  <2> QED
    BY <1>3, <1>10, <2>1, PutFront DEF e4
<1>12. e3 \in Seq(Step) /\ Seg(e3, severity + 2, 1, severity + sqlstate + message + 7, 1, t)
  <2>1. /\ severity + 2 \in Nat /\ 1 \in Int /\ sqlstate + 3 \in Nat /\ 1 \in Int
        /\ (severity + 2) + (sqlstate + 3) <= t.lim /\ 0 - t.over <= 1 /\ sqlstate + 3 <= sqlstate + 3
        /\ sqlstate + 3 \in Int
    BY <1>3
  <2> QED
    <3> DEFINE p == severity + 2
               m == sqlstate + 3
               w == severity + sqlstate + message + 7
    <3>1. p \in Nat /\ m \in Nat /\ p + m <= t.lim /\ 0 - t.over <= 1 /\ 1 \in Int
      BY <2>1
    <3>2. e4 \in Seq(Step) /\ Seg(e4, p, m, w, 1, t) /\ t \in Terms /\ 1 \in Int
      BY <1>3, <1>11, <2>1
    <3>3. e3 = <<Require(m)>> \o e4
      BY DEF e3
    <3> HIDE DEF p, m, w
    <3>4. Seg(e3, p, 1, w, 1, t) /\ e3 \in Seq(Step)
      BY <3>1, <3>2, <3>3, CheckFront
    <3> QED
      BY <3>4 DEF p, m, w
<1>13. e2 \in Seq(Step) /\ Seg(e2, 1, severity + 2, severity + sqlstate + message + 7, 1, t)
  <2>1. /\ 1 \in Nat /\ severity + 2 \in Int /\ severity + 1 \in Nat /\ 1 \in Int
        /\ severity + 2 = 1 + (severity + 1) /\ 1 = (severity + 2) - (severity + 1)
    BY <1>3
  <2> QED
    BY <1>3, <1>12, <2>1, PutFront DEF e2
<1>14. e1 \in Seq(Step) /\ Seg(e1, 0, severity + 3, severity + sqlstate + message + 7, 1, t)
  <2>1. /\ 0 \in Nat /\ severity + 3 \in Int /\ 1 \in Nat /\ 1 \in Int
        /\ 1 = 0 + (1) /\ severity + 2 = (severity + 3) - (1)
    BY <1>3
  <2> QED
    BY <1>3, <1>13, <2>1, PutFront DEF e1
<1>15. e0 \in Seq(Step) /\ Seg(e0, 0, 512, severity + sqlstate + message + 7, 1, t)
  <2>1. /\ 0 \in Nat /\ 512 \in Int /\ severity + 3 \in Nat /\ 1 \in Int
        /\ 0 + (severity + 3) <= t.lim /\ 0 - t.over <= 512 /\ severity + 3 <= severity + 3
        /\ severity + 3 \in Int
    BY <1>3
  <2> QED
    <3> DEFINE m == severity + 3
               w == severity + sqlstate + message + 7
    <3>1. m \in Nat /\ 0 + m <= t.lim /\ 0 - t.over <= 512 /\ 0 \in Nat /\ 1 \in Int
      BY <2>1
    <3>2. e1 \in Seq(Step) /\ Seg(e1, 0, m, w, 1, t) /\ t \in Terms /\ 512 \in Int
      BY <1>3, <1>14
    <3>3. e0 = <<Require(m)>> \o e1
      BY DEF e0
    <3> HIDE DEF m, w
    <3>4. Seg(e0, 0, 512, w, 1, t) /\ e0 \in Seq(Step)
      BY <3>1, <3>2, <3>3, CheckFront
    <3> QED
      BY <3>4 DEF w
<1> DEFINE w == severity + sqlstate + message + 7
<1>16. /\ call.cap \in Nat /\ call.body \in Nat /\ call.steps \in Seq(Step)
      /\ w = call.body /\ w \in Nat /\ 1 \in Int
      /\ Seg(call.steps, 0, call.cap, w, 1, TermsOf(call))
  BY <1>1, <1>2, <1>15 DEF t
<1> HIDE DEF w
<1>17. Sound(call)
  <2>1. FirstCap(call) \in 0 .. call.cap
    BY <1>1
  <2> QED
    BY <1>16, <2>1, StackSound
<1> QED
  BY <1>17 DEF call

-----------------------------------------------------------------------------
(* The pieces of the longer helpers: each leaves no room, and needs none.  *)

\* A piece with a check of its own.
LEMMA CheckedSeg ==
    ASSUME NEW n \in Nat, NEW a \in Nat, NEW r \in Int, NEW t \in Terms,
           a + n <= t.lim, 0 - t.over <= r
    PROVE  Checked(n) \in Seq(Step) /\ Seg(Checked(n), a, r, a + n, 0, t)
<1> DEFINE e == <<>>
           e1 == <<Put(n)>> \o e
           e0 == <<Require(n)>> \o e1
<1>1. Checked(n) = e0
  BY DEF Checked
<1>2. e \in Seq(Step) /\ t.over \in Nat
  BY DEF Terms
<1> HIDE DEF e, e1, e0
<1>3. /\ a + n \in Nat /\ 0 \in Int /\ 0 <= 0 /\ 0 - t.over <= 0 /\ n - n = 0 /\ n \in Int
  BY <1>2
<1>4. Seg(e, a + n, n - n, a + n, 0, t)
  BY <1>3, SegNil DEF e
<1>5. Seg(e1, a, n, a + n, 0, t) /\ e1 \in Seq(Step)
  BY <1>2, <1>3, <1>4, PutFront DEF e1
<1>6. Seg(e0, a, r, a + n, 0, t) /\ e0 \in Seq(Step)
  BY <1>3, <1>5, CheckFront DEF e0
<1> QED
  BY <1>1, <1>6

\* A piece for which the buffer is enlarged.
LEMMA FittedSeg ==
    ASSUME NEW n \in Nat, NEW a \in Nat, NEW t \in Terms, t.heap = 1
    PROVE  <<Fit(n), Put(n)>> \in Seq(Step) /\ Seg(<<Fit(n), Put(n)>>, a, 0, a + n, 0, t)
<1> DEFINE e == <<>>
           e1 == <<Put(n)>> \o e
           e0 == <<Fit(n)>> \o e1
<1>1. <<Fit(n), Put(n)>> = e0
  OBVIOUS
<1>2. e \in Seq(Step) /\ t.over \in Nat
  BY DEF Terms
<1> HIDE DEF e, e1, e0
<1>3. /\ a + n \in Nat /\ 0 \in Int /\ 0 <= 0 /\ 0 - t.over <= 0 /\ n - n = 0 /\ n \in Int
      /\ n <= n
  BY <1>2
<1>4. Seg(e, a + n, n - n, a + n, 0, t)
  BY <1>3, SegNil DEF e
<1>5. Seg(e1, a, n, a + n, 0, t) /\ e1 \in Seq(Step)
  BY <1>2, <1>3, <1>4, PutFront DEF e1
<1>6. Seg(e0, a, 0, a + n, 0, t) /\ e0 \in Seq(Step)
  BY <1>3, <1>5, FitFront DEF e0
<1> QED
  BY <1>1, <1>6

\* Nothing, for a value that has no bytes.
LEMMA NothingSeg ==
    ASSUME NEW a \in Nat, NEW t \in Terms
    PROVE  <<>> \in Seq(Step) /\ Seg(<<>>, a, 0, a, 0, t)
<1>1. 0 \in Int /\ 0 <= 0 /\ 0 - t.over <= 0
  BY DEF Terms
<1>2. Seg(<<>>, a, 0, a, 0, t)
  BY <1>1, SegNil
<1> QED
  BY <1>2

\* A value of pqwire_send_bind and pqwire_send_data_row_multi.
Value(l) ==
    <<Require(4), Put(4)>> \o (IF l > 0 THEN <<Fit(l), Put(l)>> ELSE <<>>)
LEMMA ValueSeg ==
    ASSUME NEW l \in Int, NEW a \in Nat, NEW t \in Terms, t.heap = 1, a + 4 <= t.lim
    PROVE  Value(l) \in Seq(Step) /\ Seg(Value(l), a, 0, a + 4 + Pos(l), 0, t)
<1> DEFINE x == <<Require(4), Put(4)>>
           y == IF l > 0 THEN <<Fit(l), Put(l)>> ELSE <<>>
<1>1. 4 \in Nat /\ 0 \in Int /\ 0 - t.over <= 0 /\ a + 4 \in Nat
  BY DEF Terms
<1>2. x \in Seq(Step) /\ Seg(x, a, 0, a + 4, 0, t)
  BY <1>1, CheckedSeg DEF Checked
<1>3. y \in Seq(Step) /\ Seg(y, a + 4, 0, a + 4 + Pos(l), 0, t)
  <2>1. CASE l > 0
    <3>1. l \in Nat /\ Pos(l) = l /\ y = <<Fit(l), Put(l)>>
      BY <2>1 DEF Pos
    <3> QED
      BY <1>1, <3>1, FittedSeg
  <2>2. CASE ~(l > 0)
    <3>1. y = <<>> /\ a + 4 + Pos(l) = a + 4
      BY <2>2 DEF Pos
    <3> QED
      BY <1>1, <3>1, NothingSeg
  <2> QED
    BY <2>1, <2>2
<1>4. Value(l) = x \o y
  BY DEF Value
<1> HIDE DEF x, y
<1>5. Seg(x \o y, a, 0, a + 4 + Pos(l), 0, t)
  BY <1>1, <1>2, <1>3, SegConcat
<1>6. x \o y \in Seq(Step)
  BY <1>2, <1>3, ConcatProperties
<1> QED
  BY <1>4, <1>5, <1>6

\* A value of pqwire_send_bind_rewrite_identity.
CheckedValue(l) == Checked(4) \o (IF l < 0 THEN <<>> ELSE Checked(l))
LEMMA CheckedValueSeg ==
    ASSUME NEW l \in Int, NEW a \in Nat, NEW t \in Terms, a + 4 + Pos(l) <= t.lim
    PROVE  CheckedValue(l) \in Seq(Step) /\ Seg(CheckedValue(l), a, 0, a + 4 + Pos(l), 0, t)
<1> DEFINE x == Checked(4)
           y == IF l < 0 THEN <<>> ELSE Checked(l)
<1>1. 4 \in Nat /\ 0 \in Int /\ 0 - t.over <= 0 /\ a + 4 \in Nat /\ a + 4 <= t.lim
  BY DEF Terms, Pos
<1>2. x \in Seq(Step) /\ Seg(x, a, 0, a + 4, 0, t)
  BY <1>1, CheckedSeg
<1>3. y \in Seq(Step) /\ Seg(y, a + 4, 0, a + 4 + Pos(l), 0, t)
  <2>1. CASE ~(l < 0)
    <3>1. l \in Nat /\ Pos(l) = l /\ y = Checked(l) /\ (a + 4) + l <= t.lim
      BY <2>1 DEF Pos
    <3> QED
      BY <1>1, <3>1, CheckedSeg
  <2>2. CASE l < 0
    <3>1. y = <<>> /\ a + 4 + Pos(l) = a + 4
      BY <2>2 DEF Pos
    <3> QED
      BY <1>1, <3>1, NothingSeg
  <2> QED
    BY <2>1, <2>2
<1>4. CheckedValue(l) = x \o y
  BY DEF CheckedValue
<1> HIDE DEF x, y
<1>5. Seg(x \o y, a, 0, a + 4 + Pos(l), 0, t)
  BY <1>1, <1>2, <1>3, SegConcat
<1>6. x \o y \in Seq(Step)
  BY <1>2, <1>3, ConcatProperties
<1> QED
  BY <1>4, <1>5, <1>6

\* A column of pqwire_send_row_description.
Column(n) == <<Require(n + 19), Put(n + 1), Put(18)>>
LEMMA ColumnSeg ==
    ASSUME NEW n \in Nat, NEW a \in Nat, NEW t \in Terms, a + (n + 19) <= t.lim
    PROVE  Column(n) \in Seq(Step) /\ Seg(Column(n), a, 0, a + (n + 19), 0, t)
<1> DEFINE e == <<>>
           e2 == <<Put(18)>> \o e
           e1 == <<Put(n + 1)>> \o e2
           e0 == <<Require(n + 19)>> \o e1
           b == a + (n + 19)
<1>1. Column(n) = e0
  BY DEF Column
<1>2. e \in Seq(Step) /\ t.over \in Nat
  BY DEF Terms
<1>3. /\ b \in Nat /\ 0 \in Int /\ 0 <= 0 /\ 0 - t.over <= 0
      /\ b = (a + (n + 1)) + 18 /\ 18 - 18 = 0 /\ 18 \in Nat /\ 18 \in Int
      /\ a + (n + 1) \in Nat /\ n + 1 \in Nat /\ (n + 19) - (n + 1) = 18
      /\ n + 19 \in Nat /\ n + 19 \in Int /\ a + (n + 19) <= t.lim
  BY <1>2
<1> HIDE DEF e, e2, e1, e0, b
<1>4. Seg(e, b, 0, b, 0, t)
  BY <1>3, SegNil DEF e
<1>5. Seg(e2, a + (n + 1), 18, b, 0, t) /\ e2 \in Seq(Step)
  BY <1>2, <1>3, <1>4, PutFront DEF e2
<1>6. Seg(e1, a, n + 19, b, 0, t) /\ e1 \in Seq(Step)
  BY <1>3, <1>5, PutFront DEF e1
<1>7. Seg(e0, a, 0, b, 0, t) /\ e0 \in Seq(Step)
  BY <1>3, <1>6, CheckFront DEF e0
<1> QED
  BY <1>1, <1>7 DEF b

-----------------------------------------------------------------------------
(* The loops over them.                                                    *)

LEMMA ValuesSeg ==
    ASSUME NEW ls \in Seq(Int), NEW a \in Nat, NEW t \in Terms, t.heap = 1,
           a + 4 * Len(ls) + Total(ls) <= t.lim
    PROVE  /\ Values(ls) \in Seq(Step) /\ Total(ls) \in Nat
           /\ Seg(Values(ls), a, 0, a + 4 * Len(ls) + Total(ls), 0, t)
<1> DEFINE n == Len(ls)
           s == TotalUpto(ls)
           c == [i \in 1 .. n |-> Value(ls[i])]
           h == [i \in 0 .. n |-> a + 4 * i + s[i]]
<1>1. n \in Nat /\ DOMAIN ls = 1 .. n
  BY LenProperties
<1>2. /\ s \in [0 .. n -> Nat] /\ s[0] = 0
      /\ \A i \in 1 .. n : s[i] = s[i - 1] + Pos(ls[i])
      /\ \A i \in 0 .. n : s[i] <= s[n]
  BY TotalEquation DEF Sums
<1>3. Total(ls) = s[n]
  BY DEF Total
<1>4. Values(ls) = FlattenSeq(c)
  BY <1>1 DEF Values, Value
<1>5. \A i \in 1 .. n : ls[i] \in Int
  BY ElementOfSeq
<1>6. t.lim \in Nat
  BY DEF Terms
<1> HIDE DEF s, n
<1>7. \A i \in 0 .. n : h[i] = a + 4 * i + s[i] /\ s[i] \in Nat /\ i \in Nat
  BY <1>1, <1>2
<1>8. h \in [0 .. n -> Nat]
  BY <1>1, <1>2
<1>9. \A i \in 1 .. n : c[i] = Value(ls[i])
  OBVIOUS
<1>10. DOMAIN c = 1 .. n /\ c = [i \in 1 .. n |-> c[i]]
  OBVIOUS
<1> HIDE DEF h, c
<1>11. ASSUME NEW i \in 1 .. n
       PROVE  c[i] \in Seq(Step) /\ Seg(c[i], h[i - 1], 0, h[i], 0, t)
  <2>1. i \in Nat /\ i - 1 \in 0 .. n /\ i \in 0 .. n /\ ls[i] \in Int /\ n \in 0 .. n
    BY <1>1, <1>5
  <2>2. /\ s[i] = s[i - 1] + Pos(ls[i]) /\ s[i - 1] <= s[n]
        /\ h[i] = a + 4 * i + s[i] /\ h[i - 1] = a + 4 * (i - 1) + s[i - 1]
        /\ s[i] \in Nat /\ s[i - 1] \in Nat /\ s[n] \in Nat
    BY <1>2, <1>7, <2>1
  <2>3. Pos(ls[i]) \in Nat
    BY <2>1 DEF Pos
  <2> DEFINE b == h[i - 1]
             o == Pos(ls[i])
  <2>4. b \in Nat /\ h[i] = b + 4 + Pos(ls[i])
    <3>1. 4 * (i - 1) = 4 * i - 4 /\ 4 * i - 4 \in Nat /\ 4 * i \in Nat
      BY <2>1
    <3>2. b = a + (4 * i - 4) + s[i - 1] /\ h[i] = a + 4 * i + (s[i - 1] + o) /\ o \in Nat
      BY <2>2, <2>3, <3>1
    <3> HIDE DEF b, o
    <3>3. \A k, x \in Nat : k - 4 \in Nat
              => /\ a + (k - 4) + x \in Nat
                 /\ a + k + (x + o) = (a + (k - 4) + x) + 4 + o
      BY <3>2
    <3>4. b \in Nat /\ h[i] = b + 4 + o
      BY <2>2, <3>1, <3>2, <3>3, Zenon
    <3> QED
      BY <3>4 DEF o
  <2>5. b + 4 <= t.lim
    <3>1. a + 4 * n + s[n] <= t.lim
      BY <1>3 DEF n
    <3>2. /\ 4 * i <= 4 * n /\ 4 * (i - 1) = 4 * i - 4
          /\ 4 * i \in Nat /\ 4 * n \in Nat /\ 4 * i - 4 \in Nat
      BY <1>1, <2>1
    <3> DEFINE x == 4 * i
               y == 4 * n
               z == t.lim
               u == s[i - 1]
               v == s[n]
    <3>3. /\ x <= y /\ x \in Nat /\ y \in Nat /\ z \in Nat /\ u \in Nat /\ v \in Nat
          /\ u <= v /\ a + y + v <= z /\ b = a + (x - 4) + u
      BY <1>6, <2>2, <3>1, <3>2
    <3> HIDE DEF x, y, z, u, v, b
    <3>4. b + 4 <= z
      BY <3>3
    <3> QED
      BY <3>4 DEF z
  <2> HIDE DEF b
  <2>6. Value(ls[i]) \in Seq(Step) /\ Seg(Value(ls[i]), b, 0, b + 4 + Pos(ls[i]), 0, t)
    BY <2>1, <2>4, <2>5, ValueSeg
  <2> QED
    BY <1>9, <2>4, <2>6 DEF b
<1>12. c \in [1 .. n -> Seq(Step)]
  BY <1>10, <1>11
<1>13. FlattenSeq(c) \in Seq(Step) /\ Seg(FlattenSeq(c), h[0], 0, h[n], 0, t)
  BY <1>1, <1>8, <1>11, <1>12, SegFlatten
<1>14. h[0] = a /\ h[n] = a + 4 * n + s[n] /\ s[n] \in Nat
  BY <1>1, <1>2, <1>7
<1> QED
  BY <1>3, <1>4, <1>13, <1>14 DEF n

LEMMA CheckedValuesSeg ==
    ASSUME NEW ls \in Seq(Int), NEW a \in Nat, NEW t \in Terms,
           a + 4 * Len(ls) + Total(ls) <= t.lim
    PROVE  LET c == [i \in DOMAIN ls |-> CheckedValue(ls[i])]
           IN  /\ FlattenSeq(c) \in Seq(Step) /\ Total(ls) \in Nat
               /\ Seg(FlattenSeq(c), a, 0, a + 4 * Len(ls) + Total(ls), 0, t)
<1> DEFINE n == Len(ls)
           s == TotalUpto(ls)
           c == [i \in DOMAIN ls |-> CheckedValue(ls[i])]
           h == [i \in 0 .. n |-> a + 4 * i + s[i]]
<1>1. n \in Nat /\ DOMAIN ls = 1 .. n
  BY LenProperties
<1>2. /\ s \in [0 .. n -> Nat] /\ s[0] = 0
      /\ \A i \in 1 .. n : s[i] = s[i - 1] + Pos(ls[i])
      /\ \A i \in 0 .. n : s[i] <= s[n]
  BY TotalEquation DEF Sums
<1>3. Total(ls) = s[n]
  BY DEF Total
<1>5. \A i \in 1 .. n : ls[i] \in Int
  BY ElementOfSeq
<1>6. t.lim \in Nat
  BY DEF Terms
<1> HIDE DEF s, n
<1>7. \A i \in 0 .. n : h[i] = a + 4 * i + s[i] /\ s[i] \in Nat /\ i \in Nat
  BY <1>1, <1>2
<1>8. h \in [0 .. n -> Nat]
  BY <1>1, <1>2
<1>9. \A i \in 1 .. n : c[i] = CheckedValue(ls[i])
  BY <1>1
<1>10. DOMAIN c = 1 .. n /\ c = [i \in 1 .. n |-> c[i]]
  BY <1>1
<1> HIDE DEF h, c
<1>11. ASSUME NEW i \in 1 .. n
       PROVE  c[i] \in Seq(Step) /\ Seg(c[i], h[i - 1], 0, h[i], 0, t)
  <2>1. i \in Nat /\ i - 1 \in 0 .. n /\ i \in 0 .. n /\ ls[i] \in Int /\ n \in 0 .. n
    BY <1>1, <1>5
  <2>2. /\ s[i] = s[i - 1] + Pos(ls[i]) /\ s[i] <= s[n]
        /\ h[i] = a + 4 * i + s[i] /\ h[i - 1] = a + 4 * (i - 1) + s[i - 1]
        /\ s[i] \in Nat /\ s[i - 1] \in Nat /\ s[n] \in Nat
    BY <1>2, <1>7, <2>1
  <2>3. Pos(ls[i]) \in Nat
    BY <2>1 DEF Pos
  <2> DEFINE b == h[i - 1]
             o == Pos(ls[i])
  <2>4. b \in Nat /\ h[i] = b + 4 + Pos(ls[i])
    <3>1. 4 * (i - 1) = 4 * i - 4 /\ 4 * i - 4 \in Nat /\ 4 * i \in Nat
      BY <2>1
    <3>2. b = a + (4 * i - 4) + s[i - 1] /\ h[i] = a + 4 * i + (s[i - 1] + o) /\ o \in Nat
      BY <2>2, <2>3, <3>1
    <3> HIDE DEF b, o
    <3>3. \A k, x \in Nat : k - 4 \in Nat
              => /\ a + (k - 4) + x \in Nat
                 /\ a + k + (x + o) = (a + (k - 4) + x) + 4 + o
      BY <3>2
    <3>4. b \in Nat /\ h[i] = b + 4 + o
      BY <2>2, <3>1, <3>2, <3>3, Zenon
    <3> QED
      BY <3>4 DEF o
  <2>5. b + 4 + Pos(ls[i]) <= t.lim
    <3>1. a + 4 * n + s[n] <= t.lim
      BY <1>3 DEF n
    <3>2. 4 * i <= 4 * n /\ 4 * i \in Nat /\ 4 * n \in Nat
      BY <1>1, <2>1
    <3> DEFINE x == 4 * i
               y == 4 * n
               z == t.lim
               u == s[i]
               v == s[n]
               w == h[i]
    <3>3. /\ x <= y /\ x \in Nat /\ y \in Nat /\ z \in Nat /\ u \in Nat /\ v \in Nat
          /\ u <= v /\ a + y + v <= z /\ w = a + x + u
      BY <1>6, <2>2, <3>1, <3>2
    <3> HIDE DEF x, y, z, u, v, w
    <3>4. w <= z
      BY <3>3
    <3> QED
      BY <2>4, <3>4 DEF w, z
  <2> HIDE DEF b
  <2>6. CheckedValue(ls[i]) \in Seq(Step) /\ Seg(CheckedValue(ls[i]), b, 0, b + 4 + Pos(ls[i]), 0, t)
    BY <2>1, <2>4, <2>5, CheckedValueSeg
  <2> QED
    BY <1>9, <2>4, <2>6 DEF b
<1>12. c \in [1 .. n -> Seq(Step)]
  BY <1>10, <1>11
<1>13. FlattenSeq(c) \in Seq(Step) /\ Seg(FlattenSeq(c), h[0], 0, h[n], 0, t)
  BY <1>1, <1>8, <1>11, <1>12, SegFlatten
<1>14. h[0] = a /\ h[n] = a + 4 * n + s[n] /\ s[n] \in Nat
  BY <1>1, <1>2, <1>7
<1> QED
  BY <1>3, <1>13, <1>14 DEF n, c

\* n formats of two bytes each.
LEMMA FormatsSeg ==
    ASSUME NEW n \in Nat, NEW a \in Nat, NEW t \in Terms, a + 2 * n <= t.lim
    PROVE  LET c == [i \in 1 .. n |-> Checked(2)]
           IN  /\ FlattenSeq(c) \in Seq(Step)
               /\ Seg(FlattenSeq(c), a, 0, a + 2 * n, 0, t)
<1> DEFINE c == [i \in 1 .. n |-> Checked(2)]
           h == [i \in 0 .. n |-> a + 2 * i]
<1>1. t.lim \in Nat /\ 0 - t.over <= 0
  BY DEF Terms
<1>2. h \in [0 .. n -> Nat] /\ \A i \in 0 .. n : h[i] = a + 2 * i
  OBVIOUS
<1>3. \A i \in 1 .. n : c[i] = Checked(2)
  OBVIOUS
<1>4. DOMAIN c = 1 .. n /\ c = [i \in 1 .. n |-> c[i]]
  OBVIOUS
<1> HIDE DEF h, c
<1>5. ASSUME NEW i \in 1 .. n
      PROVE  c[i] \in Seq(Step) /\ Seg(c[i], h[i - 1], 0, h[i], 0, t)
  <2>1. i - 1 \in 0 .. n /\ i \in 0 .. n
    OBVIOUS
  <2> DEFINE b == h[i - 1]
  <2>2. b \in Nat /\ h[i] = b + 2 /\ b + 2 <= t.lim /\ 2 \in Nat /\ 0 \in Int
    BY <1>1, <1>2, <2>1
  <2> HIDE DEF b
  <2>3. Checked(2) \in Seq(Step) /\ Seg(Checked(2), b, 0, b + 2, 0, t)
    BY <1>1, <2>2, CheckedSeg
  <2> QED
    BY <1>3, <2>2, <2>3 DEF b
<1>6. c \in [1 .. n -> Seq(Step)]
  BY <1>4, <1>5
<1>7. FlattenSeq(c) \in Seq(Step) /\ Seg(FlattenSeq(c), h[0], 0, h[n], 0, t)
  BY <1>2, <1>5, <1>6, SegFlatten
<1>8. h[0] = a /\ h[n] = a + 2 * n
  BY <1>2
<1> QED
  BY <1>7, <1>8 DEF c

\* The first n columns.
LEMMA ColumnsSeg ==
    ASSUME NEW names \in Seq(Nat), NEW n \in 0 .. Len(names), NEW a \in Nat, NEW t \in Terms,
           a + Total(names) + 19 * Len(names) <= t.lim
    PROVE  LET c == [i \in 1 .. n |-> Column(names[i])]
           IN  /\ FlattenSeq(c) \in Seq(Step) /\ Total(names) \in Nat
               /\ \E b \in Nat : Seg(FlattenSeq(c), a, 0, b, 0, t)
<1> DEFINE m == Len(names)
           s == TotalUpto(names)
           u == [i \in 0 .. m |-> 19 * i]
           c == [i \in 1 .. n |-> Column(names[i])]
           h == [i \in 0 .. n |-> a + u[i] + s[i]]
<1>1. m \in Nat /\ n \in Nat /\ n <= m /\ names \in Seq(Int)
  BY LenProperties
<1>2. /\ s \in [0 .. m -> Nat] /\ s[0] = 0
      /\ \A i \in 1 .. m : s[i] = s[i - 1] + Pos(names[i])
      /\ \A i \in 0 .. m : s[i] <= s[m]
  BY <1>1, TotalEquation DEF Sums
<1>3. a + s[m] + u[m] <= t.lim /\ Total(names) = s[m]
  BY <1>1 DEF Total
<1>4. \A i \in 1 .. m : names[i] \in Nat /\ Pos(names[i]) = names[i]
  <2> TAKE i \in 1 .. m
  <2>1. names[i] \in Nat
    BY ElementOfSeq
  <2> QED
    BY <2>1 DEF Pos
<1>5. t.lim \in Nat
  BY DEF Terms
<1> HIDE DEF s, m
<1>6. /\ u \in [0 .. m -> Nat] /\ u[0] = 0
      /\ \A i \in 1 .. m : u[i] = u[i - 1] + 19
      /\ \A i \in 0 .. m : u[i] <= u[m]
  BY <1>1
<1> HIDE DEF u
<1>7. \A i \in 0 .. n : h[i] = a + u[i] + s[i] /\ u[i] \in Nat /\ s[i] \in Nat
  BY <1>1, <1>2, <1>6
<1>8. h \in [0 .. n -> Nat]
  <2>1. ASSUME NEW i \in 0 .. n PROVE a + u[i] + s[i] \in Nat
    BY <1>7
  <2> QED
    BY <2>1
<1>9. \A i \in 1 .. n : c[i] = Column(names[i])
  OBVIOUS
<1>10. DOMAIN c = 1 .. n /\ c = [i \in 1 .. n |-> c[i]]
  OBVIOUS
<1> HIDE DEF h, c
<1>11. ASSUME NEW i \in 1 .. n
       PROVE  c[i] \in Seq(Step) /\ Seg(c[i], h[i - 1], 0, h[i], 0, t)
  <2>1. i - 1 \in 0 .. n /\ i \in 0 .. n /\ i \in 1 .. m /\ i \in 0 .. m /\ m \in 0 .. m
    BY <1>1
  <2>2. /\ s[i] = s[i - 1] + names[i] /\ s[i] <= s[m] /\ names[i] \in Nat
        /\ u[i] = u[i - 1] + 19 /\ u[i] <= u[m]
        /\ h[i] = a + u[i] + s[i] /\ h[i - 1] = a + u[i - 1] + s[i - 1]
        /\ s[i] \in Nat /\ s[i - 1] \in Nat /\ s[m] \in Nat
        /\ u[i] \in Nat /\ u[i - 1] \in Nat /\ u[m] \in Nat
    BY <1>2, <1>4, <1>6, <1>7, <2>1
  <2> DEFINE b == h[i - 1]
             k == names[i]
  <2>3. b \in Nat /\ k \in Nat /\ h[i] = b + (k + 19) /\ b + (k + 19) <= t.lim
    <3> DEFINE x == s[i - 1]
               y == u[i - 1]
               v == s[m]
               w == u[m]
               z == t.lim
    <3>1. /\ x \in Nat /\ y \in Nat /\ v \in Nat /\ w \in Nat /\ z \in Nat /\ k \in Nat
          /\ x + k <= v /\ y + 19 <= w /\ a + v + w <= z
          /\ b = a + y + x /\ h[i] = a + (y + 19) + (x + k)
      BY <1>3, <1>5, <2>2
    <3> HIDE DEF x, y, v, w, z, b, k
    <3>2. b \in Nat /\ h[i] = b + (k + 19) /\ b + (k + 19) <= z
      BY <3>1
    <3> QED
      BY <3>1, <3>2 DEF z
  <2> HIDE DEF b, k
  <2>4. Column(k) \in Seq(Step) /\ Seg(Column(k), b, 0, b + (k + 19), 0, t)
    BY <2>3, ColumnSeg
  <2> QED
    BY <1>9, <2>3, <2>4 DEF b, k
<1>12. c \in [1 .. n -> Seq(Step)]
  BY <1>10, <1>11
<1>13. FlattenSeq(c) \in Seq(Step) /\ Seg(FlattenSeq(c), h[0], 0, h[n], 0, t)
  BY <1>1, <1>8, <1>11, <1>12, SegFlatten
<1>14. h[0] = a /\ h[n] \in Nat /\ s[m] \in Nat
  BY <1>1, <1>2, <1>6, <1>7, <1>8
<1> QED
  BY <1>3, <1>13, <1>14 DEF c

-----------------------------------------------------------------------------
(* The helpers that cut, and the ones with loops.                          *)

\* pqwire_send_call: the statement that snprintf has cut fits.
LEMMA SendCallSound ==
    ASSUME NEW procedure \in Nat
    PROVE  Sound(SendCall(procedure))
<1> DEFINE call == SendCall(procedure)
           t == TermsOf(call)
           w == (IF procedure + 5 < 511 THEN procedure + 5 ELSE 511) + 1
           q == 512 - w
<1>1. /\ call.cap = 512 /\ call.body = procedure + 6 /\ Cuts(call)
      /\ FirstCap(call) \in 0 .. call.cap /\ Overshoot(call) = 0 /\ call.steps = <<Put(w)>>
  BY DEF SendCall, Helper, FirstCap, Overshoot, Cuts
<1>2. w \in Nat /\ q \in Int /\ 0 <= q /\ 0 \in Nat /\ 0 + w = w
  OBVIOUS
<1>3. w <= 512 /\ q <= 512 - w
  OBVIOUS
<1> HIDE DEF call, w, q
<1>4. call.cap \in Nat /\ call.cap \in Int /\ call.body \in Nat /\ q <= call.cap - w
  BY <1>1, <1>3
<1>5. t \in Terms /\ t.over = 0
  BY <1>1, <1>4, TermsFacts
<1>6. Put(w) \in Step /\ <<Put(w)>> \in Seq(Step)
  BY <1>2, StepTypes
<1> HIDE DEF t
<1>7. StepOK(Put(w), 0, call.cap, w, q, t)
  BY <1>2, <1>4 DEF StepOK, Put
<1>8. 0 - t.over <= call.cap /\ 0 - t.over <= q
  BY <1>2, <1>4, <1>5
<1>9. Seg(<<Put(w)>>, 0, call.cap, w, q, t)
  BY <1>2, <1>4, <1>5, <1>6, <1>7, <1>8, SegOne
<1>10. Sound(call)
  <2>1. call.steps \in Seq(Step) /\ Seg(call.steps, 0, call.cap, w, q, TermsOf(call))
    BY <1>1, <1>6, <1>9 DEF t
  <2>2. ~Cuts(call) => w = call.body
    BY <1>1
  <2>3. FirstCap(call) \in 0 .. call.cap
    BY <1>1
  <2> QED
    BY <1>2, <1>4, <2>1, <2>2, <2>3, StackSound, Zenon
<1> QED
  BY <1>10 DEF call

\* pqwire_send_data_row, of NULL.
LEMMA NullRowSound ==
    ASSUME NEW len \in Int, len < 0
    PROVE  Sound(SendDataRow(len))
<1> DEFINE call == SendDataRow(len)
           t == TermsOf(call)
           e == <<>>
           e1 == <<Put(4)>> \o e
           e0 == <<Put(2)>> \o e1
<1>1. /\ call.cap = 4096 /\ call.body = 6
      /\ FirstCap(call) \in 0 .. call.cap /\ Overshoot(call) = 0 /\ call.steps = e0
  BY DEF SendDataRow, Helper, FirstCap, Overshoot
<1> HIDE DEF call
<1>2. t \in Terms /\ t.over = 0 /\ e \in Seq(Step)
  BY <1>1, TermsFacts
<1> HIDE DEF t, e, e1, e0
<1>3. /\ 0 \in Nat /\ 2 \in Nat /\ 4 \in Nat /\ 6 \in Nat /\ 0 + 2 = 2 /\ 2 + 4 = 6
      /\ 4090 \in Int /\ 4094 \in Int /\ 4096 \in Int /\ 4096 - 2 = 4094 /\ 4094 - 4 = 4090
      /\ 0 - t.over <= 4090 /\ 4090 <= 4090
  BY <1>2
<1>4. Seg(e, 6, 4090, 6, 4090, t)
  BY <1>2, <1>3, SegNil DEF e
<1>5. Seg(e1, 2, 4094, 6, 4090, t) /\ e1 \in Seq(Step)
  BY <1>2, <1>3, <1>4, PutFront DEF e1
<1>6. Seg(e0, 0, 4096, 6, 4090, t) /\ e0 \in Seq(Step)
  BY <1>2, <1>3, <1>5, PutFront DEF e0
<1>7. /\ call.cap \in Nat /\ call.body \in Nat /\ call.steps \in Seq(Step)
      /\ 6 = call.body /\ Seg(call.steps, 0, call.cap, 6, 4090, TermsOf(call))
  BY <1>1, <1>6 DEF t
<1>8. Sound(call)
  <2>1. FirstCap(call) \in 0 .. call.cap
    BY <1>1
  <2>2. 4090 \in Int /\ Seg(call.steps, 0, call.cap, call.body, 4090, TermsOf(call))
    BY <1>7
  <2> QED
    BY <1>7, <2>1, <2>2, WholeSound
<1> QED
  BY <1>8 DEF call

\* pqwire_send_data_row, of a value.
LEMMA ValueRowSound ==
    ASSUME NEW len \in Nat
    PROVE  Sound(SendDataRow(len))
<1> DEFINE call == SendDataRow(len)
           t == TermsOf(call)
           e == <<>>
           e3 == <<Put(len)>> \o e
           e2 == <<Put(4)>> \o e3
           e1 == <<Require(4 + len)>> \o e2
           e0 == <<Put(2)>> \o e1
           w == 6 + len
<1>1. /\ call.cap = 4096 /\ call.body = w
      /\ FirstCap(call) \in 0 .. call.cap /\ Overshoot(call) = 0 /\ Spare(call) = 0
      /\ call.steps = e0
  BY DEF SendDataRow, Helper, FirstCap, Overshoot, Spare
<1>2. /\ w \in Nat /\ 0 \in Nat /\ 0 \in Int /\ 2 \in Nat /\ 4 \in Nat /\ 4096 \in Int /\ 4094 \in Int
      /\ 6 \in Nat /\ 6 + len = w /\ len - len = 0 /\ 2 + 4 = 6 /\ (4 + len) - 4 = len
      /\ 4 + len \in Nat /\ 4 + len \in Int /\ len \in Int /\ 2 + (4 + len) <= w /\ 0 + 2 = 2 /\ 4096 - 2 = 4094
  OBVIOUS
<1> HIDE DEF call
<1>3. t \in Terms /\ t.over = 0 /\ t.lim = w /\ e \in Seq(Step)
  BY <1>1, <1>2, TermsFacts
<1> HIDE DEF t, e, e3, e2, e1, e0
<1>4. 0 - t.over <= 0 /\ 0 <= 0 /\ 0 - t.over <= 4094 /\ 2 + (4 + len) <= t.lim
  BY <1>3
<1> HIDE DEF w
<1>5. Seg(e, w, 0, w, 0, t)
  BY <1>2, <1>3, <1>4, SegNil DEF e
<1>6. Seg(e3, 6, len, w, 0, t) /\ e3 \in Seq(Step)
  <2>1. Seg(e, 6 + len, len - len, w, 0, t)
    BY <1>2, <1>5
  <2>2. e3 = <<Put(len)>> \o e
    BY DEF e3
  <2> QED
    BY <1>2, <1>3, <2>1, <2>2, PutFront
<1>7. Seg(e2, 2, 4 + len, w, 0, t) /\ e2 \in Seq(Step)
  <2> DEFINE m == 4 + len
  <2>1. Seg(e3, 2 + 4, m - 4, w, 0, t) /\ m \in Int
    BY <1>2, <1>6
  <2>2. e2 = <<Put(4)>> \o e3
    BY DEF e2
  <2> HIDE DEF m
  <2>3. Seg(e2, 2, m, w, 0, t) /\ e2 \in Seq(Step)
    BY <1>2, <1>3, <1>6, <2>1, <2>2, PutFront
  <2> QED
    BY <2>3 DEF m
<1>8. Seg(e1, 2, 4094, w, 0, t) /\ e1 \in Seq(Step)
  <2> DEFINE m == 4 + len
  <2>1. e1 = <<Require(m)>> \o e2 /\ Seg(e2, 2, m, w, 0, t) /\ m \in Nat /\ 2 + m <= t.lim
    BY <1>2, <1>4, <1>7 DEF e1
  <2> DEFINE r == 4094
  <2>2. r \in Int /\ 0 - t.over <= r /\ 2 \in Nat /\ 0 \in Int /\ t \in Terms /\ e2 \in Seq(Step)
    BY <1>3, <1>4, <1>7
  <2> HIDE DEF m, r
  <2>3. Seg(e1, 2, r, w, 0, t) /\ e1 \in Seq(Step)
    BY <2>1, <2>2, CheckFront
  <2> QED
    BY <2>3 DEF r
<1>9. Seg(e0, 0, 4096, w, 0, t) /\ e0 \in Seq(Step)
  BY <1>2, <1>3, <1>8, PutFront DEF e0
<1>10. /\ call.cap \in Nat /\ call.body \in Nat /\ call.steps \in Seq(Step)
       /\ w = call.body /\ Seg(call.steps, 0, call.cap, w, 0, TermsOf(call))
  BY <1>1, <1>2, <1>9 DEF t
<1>11. Sound(call)
  <2>1. FirstCap(call) \in 0 .. call.cap
    BY <1>1
  <2>2. 0 \in Int /\ Seg(call.steps, 0, call.cap, call.body, 0, TermsOf(call))
    BY <1>10
  <2> QED
    BY <1>10, <2>1, <2>2, WholeSound
<1> QED
  BY <1>11 DEF call

\* pqwire_send_row_description: the columns up to the limit.
LEMMA RowDescriptionSound ==
    ASSUME NEW names \in Seq(Nat)
    PROVE  Sound(SendRowDescription(names))
<1> DEFINE call == SendRowDescription(names)
           t == TermsOf(call)
           n == IF Len(names) > PQWIRE_MAX_ROW_COLUMNS THEN PQWIRE_MAX_ROW_COLUMNS
                ELSE Len(names)
           d == FlattenSeq([i \in 1 .. n |-> Column(names[i])])
<1>1. /\ call.cap = 2048 /\ call.body = 2 + Total(names) + 19 * Len(names)
      /\ Cuts(call) /\ call.helper = "send_row_description"
      /\ call.steps = <<Put(2)>> \o d
  BY DEF SendRowDescription, Helper, Cuts, Column
<1>2. FirstCap(call) \in 0 .. call.cap /\ Overshoot(call) = 0 /\ Spare(call) = 0
  BY <1>1 DEF FirstCap, Overshoot, Spare
<1>3. Len(names) \in Nat /\ n \in 0 .. Len(names)
  BY LenProperties DEF PQWIRE_MAX_ROW_COLUMNS
<1>4. Total(names) \in Nat
  <2>1. names \in Seq(Int) /\ Len(names) \in 0 .. Len(names)
    BY <1>3
  <2>2. TotalUpto(names) \in [0 .. Len(names) -> Nat]
    BY <2>1, TotalEquation DEF Sums
  <2> QED
    BY <2>1, <2>2 DEF Total
<1> HIDE DEF call, n
<1>5. call.body \in Nat
  BY <1>1, <1>3, <1>4
<1>6. t \in Terms /\ t.over = 0 /\ t.lim = 2 + Total(names) + 19 * Len(names)
  BY <1>1, <1>2, <1>5, TermsFacts
<1> HIDE DEF t
<1>7. d \in Seq(Step) /\ \E b \in Nat : Seg(d, 2, 0, b, 0, t)
  <2>1. 2 \in Nat /\ 2 + Total(names) + 19 * Len(names) <= t.lim
    BY <1>5, <1>1, <1>6
  <2> QED
    BY <1>3, <1>6, <2>1, ColumnsSeg
<1> HIDE DEF d
<1>8. PICK b \in Nat : Seg(d, 2, 0, b, 0, t)
  BY <1>7
<1>9. Put(2) \in Step /\ <<Put(2)>> \in Seq(Step)
  BY StepTypes
<1>10. /\ 0 \in Nat /\ 2 \in Nat /\ 0 \in Int /\ 2048 \in Int /\ 0 - t.over <= 0 /\ 0 - t.over <= 2048
  BY <1>6
<1>11. StepOK(Put(2), 0, 2048, 2, 0, t)
  BY DEF StepOK, Put
<1>12. Seg(<<Put(2)>>, 0, 2048, 2, 0, t)
  BY <1>6, <1>9, <1>10, <1>11, SegOne
<1>13. Seg(<<Put(2)>> \o d, 0, 2048, b, 0, t) /\ <<Put(2)>> \o d \in Seq(Step)
  BY <1>6, <1>7, <1>8, <1>9, <1>10, <1>12, SegConcat, ConcatProperties, SMTT(30)
<1>14. /\ call.cap \in Nat /\ call.steps \in Seq(Step)
       /\ Seg(call.steps, 0, call.cap, b, 0, TermsOf(call))
       /\ ~Cuts(call) => b = call.body
  BY <1>1, <1>13 DEF t
<1>15. Sound(call)
  <2>1. 0 \in Int
    OBVIOUS
  <2> QED
    BY <1>2, <1>5, <1>8, <1>14, <2>1, StackSound, Zenon
<1> QED
  BY <1>15 DEF call

\* The bytes of values are a natural number.
LEMMA TotalNat ==
    ASSUME NEW ls \in Seq(Int)
    PROVE  Total(ls) \in Nat /\ Len(ls) \in Nat /\ DOMAIN ls = 1 .. Len(ls)
<1>1. Len(ls) \in Nat /\ DOMAIN ls = 1 .. Len(ls) /\ Len(ls) \in 0 .. Len(ls)
  BY LenProperties
<1>2. TotalUpto(ls) \in [0 .. Len(ls) -> Nat]
  BY TotalEquation DEF Sums
<1> QED
  BY <1>1, <1>2 DEF Total

\* A helper with a buffer on the heap.
LEMMA HeapSound ==
    ASSUME NEW call, call.cap = 0, call.body \in Nat, call.helper \in HeapHelpers,
           NEW m \in Nat, NEW ys \in Seq(Step), call.steps = <<Malloc(m)>> \o ys,
           NEW w \in Nat, ~Cuts(call) => w = call.body,
           Seg(ys, 0, m, w, 0, TermsOf(call))
    PROVE  Sound(call)
<1> DEFINE x == <<Malloc(m)>>
           xs == x \o ys
<1>1. x \in Seq(Step) /\ Len(x) = 1 /\ x[1] = Malloc(m) /\ Malloc(m) \in Step
  BY StepTypes
<1>2. /\ xs \in Seq(Step) /\ Len(xs) = 1 + Len(ys) /\ Len(ys) \in Nat
      /\ \A i \in 1 .. Len(xs) : xs[i] = IF i <= 1 THEN x[i] ELSE ys[i - 1]
  BY <1>1, ConcatProperties, LenProperties
<1> HIDE DEF x, xs
<1>3. xs # <<>> /\ xs[1] = Malloc(m)
  <2>1. 1 \in 1 .. Len(xs) /\ Len(xs) # 0
    BY <1>2
  <2> QED
    BY <1>1, <1>2, <2>1, EmptySeq
<1>4. /\ Head(xs) = xs[1] /\ Tail(xs) \in Seq(Step) /\ Len(Tail(xs)) = Len(xs) - 1
      /\ \A i \in 1 .. Len(Tail(xs)) : Tail(xs)[i] = xs[i + 1]
  BY <1>2, <1>3, HeadTailProperties
<1>5. Tail(xs) = ys
  <2>1. Len(Tail(xs)) = Len(ys)
    BY <1>2, <1>4
  <2>2. ASSUME NEW i \in 1 .. Len(ys) PROVE Tail(xs)[i] = ys[i]
    <3>1. i \in 1 .. Len(Tail(xs)) /\ i + 1 \in 1 .. Len(xs) /\ ~(i + 1 <= 1) /\ (i + 1) - 1 = i
      BY <1>2, <2>1
    <3> QED
      BY <1>2, <1>4, <3>1
  <2> QED
    BY <1>4, <2>1, <2>2, SeqEqual
<1>6. call.steps = xs
  BY DEF x, xs
<1>7. FirstCap(call) = m /\ Head(xs).op = "malloc"
  BY <1>3, <1>4, <1>6 DEF FirstCap, Malloc
<1>8. TermsOf(call) \in Terms
  BY TermsFacts
<1>9. /\ call.cap = 0 /\ call.steps # <<>> /\ Head(call.steps).op = "malloc"
      /\ call.helper \in HeapHelpers /\ FirstCap(call) \in Nat
      /\ Seg(Tail(call.steps), 0, FirstCap(call), w, 0, TermsOf(call))
  BY <1>3, <1>5, <1>6, <1>7
<1>10. 0 \in Int /\ call.cap \in Nat /\ call.steps \in Seq(Step)
  BY <1>2, <1>6
<1> QED
  BY <1>8, <1>9, <1>10, Zenon DEF Sound, Built

\* What is written of the values is no more than what was asked for.
LEMMA WrittenTotal ==
    ASSUME NEW ls \in Seq(Int), NEW given
    PROVE  /\ Written(ls, given) \in Seq(Int) /\ Len(Written(ls, given)) = Len(ls)
           /\ Total(Written(ls, given)) <= Total(ls)
<1> DEFINE ms == Written(ls, given)
           n == Len(ls)
           f == TotalUpto(ms)
           g == TotalUpto(ls)
<1>1. n \in Nat /\ DOMAIN ls = 1 .. n
  BY LenProperties
<1>2. \A i \in 1 .. n : ls[i] \in Int
  BY ElementOfSeq
<1>3. ms = [i \in 1 .. n |-> IF ls[i] > 0 /\ i \notin given THEN 0 ELSE ls[i]]
  BY <1>1 DEF Written
<1>4. /\ ms \in Seq(Int) /\ Len(ms) = n
      /\ \A i \in 1 .. n : ms[i] = IF ls[i] > 0 /\ i \notin given THEN 0 ELSE ls[i]
  <2>1. \A i \in 1 .. n : (IF ls[i] > 0 /\ i \notin given THEN 0 ELSE ls[i]) \in Int
    BY <1>2
  <2> QED
    BY <1>1, <1>3, <2>1
<1>5. \A i \in 1 .. n : Pos(ms[i]) <= Pos(ls[i]) /\ Pos(ms[i]) \in Nat /\ Pos(ls[i]) \in Nat
  BY <1>2, <1>4 DEF Pos
<1> HIDE DEF ms, n
<1>6. /\ f \in [0 .. n -> Nat] /\ f[0] = 0
      /\ \A i \in 1 .. n : f[i] = f[i - 1] + Pos(ms[i])
  BY <1>4, TotalEquation DEF Sums
<1>7. /\ g \in [0 .. n -> Nat] /\ g[0] = 0
      /\ \A i \in 1 .. n : g[i] = g[i - 1] + Pos(ls[i])
  BY TotalEquation DEF Sums, n
<1> HIDE DEF f, g
<1> DEFINE T == {k \in Nat : k <= n => f[k] <= g[k]}
<1>8. 0 \in T
  BY <1>6, <1>7
<1>9. ASSUME NEW k \in Nat, k \in T PROVE k + 1 \in T
  <2> SUFFICES ASSUME k + 1 <= n PROVE f[k + 1] <= g[k + 1]
    OBVIOUS
  <2>1. k + 1 \in 1 .. n /\ (k + 1) - 1 = k /\ k <= n /\ k \in 0 .. n
    BY <1>1
  <2>2. f[k] \in Nat /\ g[k] \in Nat /\ f[k] <= g[k]
    BY <1>6, <1>7, <1>9, <2>1
  <2>3. f[k + 1] = f[k] + Pos(ms[k + 1]) /\ g[k + 1] = g[k] + Pos(ls[k + 1])
    BY <1>6, <1>7, <2>1
  <2>4. Pos(ms[k + 1]) <= Pos(ls[k + 1]) /\ Pos(ms[k + 1]) \in Nat /\ Pos(ls[k + 1]) \in Nat
    BY <1>5, <2>1
  <2> QED
    BY <2>2, <2>3, <2>4
<1> HIDE DEF T
<1>10. Nat \subseteq T
  BY <1>8, <1>9, SetInduction
<1>11. f[n] <= g[n]
  <2>1. n \in T /\ n <= n
    BY <1>1, <1>10
  <2> QED
    BY <2>1 DEF T
<1>12. Total(ms) = f[n] /\ Total(ls) = g[n]
  BY <1>4 DEF Total, f, g, n
<1> QED
  BY <1>4, <1>11, <1>12 DEF ms, n

\* pqwire_send_data_row_multi.
LEMMA DataRowMultiSound ==
    ASSUME NEW ls \in Seq(Int), NEW given
    PROVE  Sound(SendDataRowMulti(ls, given))
<1> DEFINE call == SendDataRowMulti(ls, given)
           t == TermsOf(call)
           m == HeapCap(ls)
           ms == Written(ls, given)
           v == Values(ms)
           n == Len(ls)
           o == Total(ms)
           w == 2 + 4 * n + o
           z == 2 + 4 * n + Total(ls)
<1>0. ms \in Seq(Int) /\ Len(ms) = n /\ o <= Total(ls)
  BY WrittenTotal
<1>1. /\ n \in Nat /\ o \in Nat /\ m \in Nat /\ m >= 2 /\ w \in Nat
      /\ Total(ls) \in Nat /\ z \in Nat /\ w <= z
  <2>1. n \in Nat /\ Total(ls) \in Nat /\ o \in Nat
    BY <1>0, TotalNat
  <2>2. m \in Nat /\ m >= 2
    BY <2>1 DEF HeapCap
  <2> HIDE DEF n, o, m
  <2> QED
    BY <1>0, <2>1, <2>2
<1>2. /\ call.cap = 0 /\ call.body = z /\ call.helper = "send_data_row_multi"
      /\ call.steps = <<Malloc(m), Put(2)>> \o v
      /\ call.args = <<ls, given>>
  BY DEF SendDataRowMulti, Helper
<1>a. ~Cuts(call) => w = call.body
  <2> SUFFICES ASSUME ~Cuts(call) PROVE w = call.body
    OBVIOUS
  <2> HIDE DEF call
  <2>1. call.args[1] = ls /\ call.args[2] = given
    BY <1>2
  <2>2. ms = ls
    BY <1>2, <2>1 DEF Cuts
  <2> QED
    BY <1>2, <2>2
<1> HIDE DEF call
<1>3. Overshoot(call) = 0 /\ Spare(call) = 0 /\ call.helper \in HeapHelpers
  BY <1>2 DEF Overshoot, Spare, HeapHelpers
<1>4. t \in Terms /\ t.over = 0 /\ t.lim = z /\ t.heap = 1
  BY <1>1, <1>2, <1>3, TermsFacts
<1> HIDE DEF t, m, ms
<1>5. v \in Seq(Step) /\ Seg(v, 2, 0, w, 0, t)
  <2>1. 2 \in Nat /\ 2 + 4 * Len(ms) + Total(ms) <= t.lim
    BY <1>0, <1>1, <1>4
  <2>2. v \in Seq(Step) /\ Seg(v, 2, 0, 2 + 4 * Len(ms) + Total(ms), 0, t)
    BY <1>0, <1>4, <2>1, ValuesSeg
  <2> QED
    BY <1>0, <2>2
<1> HIDE DEF w, v, n, o, z
<1>6. /\ 0 \in Nat /\ 2 \in Nat /\ 0 \in Int /\ m \in Int /\ 0 - t.over <= 0 /\ 0 - t.over <= m
      /\ 0 <= m - 2
  BY <1>1, <1>4
<1>7. Put(2) \in Step /\ <<Put(2)>> \in Seq(Step) /\ <<Malloc(m)>> \in Seq(Step)
  BY <1>1, StepTypes
<1>8. StepOK(Put(2), 0, m, 2, 0, t)
  BY <1>6 DEF StepOK, Put
<1>9. Seg(<<Put(2)>>, 0, m, 2, 0, t)
  BY <1>4, <1>6, <1>7, <1>8, SegOne
<1>10. Seg(<<Put(2)>> \o v, 0, m, w, 0, t) /\ <<Put(2)>> \o v \in Seq(Step)
  BY <1>4, <1>5, <1>6, <1>7, <1>9, SegConcat, ConcatProperties
<1>11. call.steps = <<Malloc(m)>> \o (<<Put(2)>> \o v)
  <2>1. <<Malloc(m), Put(2)>> = <<Malloc(m)>> \o <<Put(2)>>
    OBVIOUS
  <2> QED
    BY <1>2, <1>5, <1>7, <2>1, ConcatAssociative
<1>12. Sound(call)
  <2>1. call.body \in Nat
    BY <1>1, <1>2
  <2> QED
    BY <1>1, <1>2, <1>3, <1>a, <1>10, <1>11, <2>1, HeapSound DEF t
<1> QED
  BY <1>12 DEF call

\* The two names of pqwire_send_bind, under one check.
LEMMA NamesSeg ==
    ASSUME NEW portal \in Nat, NEW statement \in Nat, NEW r \in Int, NEW t \in Terms,
           portal + statement + 2 <= t.lim, 0 - t.over <= r
    PROVE  LET xs == <<Require(portal + statement + 2), Put(portal + 1), Put(statement + 1)>>
           IN  xs \in Seq(Step) /\ Seg(xs, 0, r, portal + statement + 2, 0, t)
<1> DEFINE e == <<>>
           e2 == <<Put(statement + 1)>> \o e
           e1 == <<Put(portal + 1)>> \o e2
           w == portal + statement + 2
           e0 == <<Require(w)>> \o e1
           j == portal + 1
           k == statement + 1
<1>1. <<Require(w), Put(portal + 1), Put(statement + 1)>> = e0
  OBVIOUS
<1>2. e \in Seq(Step) /\ t.over \in Nat /\ t.lim \in Nat
  BY DEF Terms
<1>3. /\ w \in Nat /\ w \in Int /\ j \in Nat /\ k \in Nat /\ k \in Int /\ j + k = w /\ k - k = 0
      /\ w - j = k /\ 0 + j = j /\ 0 \in Nat /\ 0 \in Int /\ 0 - t.over <= 0 /\ 0 <= 0
      /\ 0 + w <= t.lim
  BY <1>2
<1>4. e2 = <<Put(k)>> \o e /\ e1 = <<Put(j)>> \o e2
  OBVIOUS
<1> HIDE DEF e, e2, e1, w, j, k
<1>5. Seg(e, w, 0, w, 0, t)
  BY <1>3, SegNil DEF e
<1>6. Seg(e2, j, k, w, 0, t) /\ e2 \in Seq(Step)
  BY <1>2, <1>3, <1>4, <1>5, PutFront
<1>7. Seg(e1, 0, w, w, 0, t) /\ e1 \in Seq(Step)
  <2>1. Seg(e2, 0 + j, w - j, w, 0, t)
    BY <1>3, <1>6
  <2> QED
    BY <1>3, <1>4, <1>6, <2>1, PutFront, Zenon
<1>8. Seg(e0, 0, r, w, 0, t) /\ e0 \in Seq(Step)
  BY <1>3, <1>7, CheckFront
<1>9. /\ <<Require(w), Put(portal + 1), Put(statement + 1)>> \in Seq(Step)
      /\ Seg(<<Require(w), Put(portal + 1), Put(statement + 1)>>, 0, r, w, 0, t)
  <2> HIDE DEF e0
  <2> QED
    BY <1>1, <1>8, Zenon
<1> QED
  BY <1>9 DEF w

\* Lists of steps may be put together in either order.
LEMMA StepsAssociate ==
    ASSUME NEW x \in Seq(Step), NEW y \in Seq(Step), NEW z \in Seq(Step)
    PROVE  (x \o y) \o z = x \o (y \o z)
BY ConcatAssociative

\* pqwire_send_bind.
LEMMA BindSound ==
    ASSUME NEW portal \in Nat, NEW statement \in Nat, NEW n_formats \in Nat,
           NEW ls \in Seq(Int), NEW n_results \in Nat
    PROVE  Sound(SendBind(portal, statement, n_formats, ls, n_results))
<1> DEFINE call == SendBind(portal, statement, n_formats, ls, n_results)
           t == TermsOf(call)
           m == HeapCap(ls)
           n == Len(ls)
           o == Total(ls)
           f == 2 + 2 * n_formats
           g == 2 + 2 * n_results
           x1 == <<Require(portal + statement + 2), Put(portal + 1), Put(statement + 1)>>
           x2 == Checked(f)
           x3 == Checked(2)
           x4 == Values(ls)
           x5 == Checked(g)
           a1 == portal + statement + 2
           a2 == a1 + f
           a3 == a2 + 2
           a4 == a3 + 4 * n + o
           a5 == a4 + g
<1>1. n \in Nat /\ o \in Nat /\ m \in Nat /\ f \in Nat /\ g \in Nat
  BY TotalNat DEF HeapCap
<1>2. /\ call.cap = 0 /\ call.helper = "send_bind"
      /\ call.steps = (<<Malloc(m), Require(portal + statement + 2), Put(portal + 1),
                         Put(statement + 1), Require(f), Put(f), Require(2), Put(2)>>
                         \o x4) \o x5
  BY DEF SendBind, Helper, Checked
<1>3. call.body = portal + statement + 8 + 2 * n_formats + 4 * n + o + 2 * n_results
  BY DEF SendBind, Helper
<1> HIDE DEF call
<1>4. call.body = a5 /\ call.body \in Nat
  BY <1>1, <1>3
<1>5. Overshoot(call) = 0 /\ Spare(call) = 0 /\ call.helper \in HeapHelpers
  BY <1>2 DEF Overshoot, Spare, HeapHelpers
<1>6. t \in Terms /\ t.over = 0 /\ t.lim = a5 /\ t.heap = 1
  BY <1>4, <1>5, TermsFacts
<1> HIDE DEF t, m, n, o, f, g
<1>7. /\ a1 \in Nat /\ a2 \in Nat /\ a3 \in Nat /\ a4 \in Nat
      /\ a1 <= a5 /\ a1 + f <= a5 /\ a2 + 2 <= a5 /\ a3 + 4 * n + o <= a5 /\ a4 + g <= a5
  BY <1>1
<1>8. 0 \in Nat /\ 0 \in Int /\ 2 \in Nat /\ m \in Int /\ 0 - t.over <= 0 /\ 0 - t.over <= m
  BY <1>1, <1>6
<1>9. x1 \in Seq(Step) /\ Seg(x1, 0, m, a1, 0, t)
  BY <1>6, <1>7, <1>8, NamesSeg
<1>10. x4 \in Seq(Step) /\ Seg(x4, a3, 0, a4, 0, t)
  <2> HIDE DEF a3, a5
  <2>1. a3 + 4 * Len(ls) + Total(ls) <= t.lim
    BY <1>6, <1>7 DEF n, o
  <2>2. x4 \in Seq(Step) /\ Seg(x4, a3, 0, a3 + 4 * Len(ls) + Total(ls), 0, t)
    BY <1>6, <1>7, <2>1, ValuesSeg
  <2> QED
    BY <2>2 DEF n, o
<1> HIDE DEF a1, a2, a3, a4, a5
<1>11. x2 \in Seq(Step) /\ Seg(x2, a1, 0, a2, 0, t)
  BY <1>1, <1>6, <1>7, <1>8, CheckedSeg DEF a2
<1>12. x3 \in Seq(Step) /\ Seg(x3, a2, 0, a3, 0, t)
  BY <1>1, <1>6, <1>7, <1>8, CheckedSeg DEF a3
<1>13. x5 \in Seq(Step) /\ Seg(x5, a4, 0, a5, 0, t)
  BY <1>1, <1>6, <1>7, <1>8, CheckedSeg DEF a5
<1> DEFINE y4 == x4 \o x5
           y3 == x3 \o y4
           y2 == x2 \o y3
           y1 == x1 \o y2
           mal == <<Malloc(m)>>
           h == <<Malloc(m), Require(portal + statement + 2), Put(portal + 1),
                  Put(statement + 1), Require(f), Put(f), Require(2), Put(2)>>
<1>14. mal \in Seq(Step)
  BY <1>1, StepTypes
<1>15. h = mal \o (x1 \o (x2 \o x3))
  BY DEF Checked
<1>16. call.steps = (h \o x4) \o x5
  BY <1>2
<1> HIDE DEF x1, x2, x3, x4, x5, mal, h
<1>17. y4 \in Seq(Step) /\ Seg(y4, a3, 0, a5, 0, t)
  BY <1>6, <1>8, <1>10, <1>13, SegConcat, ConcatProperties
<1> HIDE DEF y4
<1>18. y3 \in Seq(Step) /\ Seg(y3, a2, 0, a5, 0, t)
  BY <1>6, <1>8, <1>12, <1>17, SegConcat, ConcatProperties
<1> HIDE DEF y3
<1>19. y2 \in Seq(Step) /\ Seg(y2, a1, 0, a5, 0, t)
  BY <1>6, <1>8, <1>11, <1>18, SegConcat, ConcatProperties
<1> HIDE DEF y2
<1>20. y1 \in Seq(Step) /\ Seg(y1, 0, m, a5, 0, t)
  BY <1>6, <1>8, <1>9, <1>19, SegConcat, ConcatProperties
<1> HIDE DEF y1
<1>21. call.steps = mal \o y1
  <2> DEFINE z == x2 \o x3
             u == x1 \o z
  <2>1. z \in Seq(Step) /\ u \in Seq(Step)
    BY <1>9, <1>11, <1>12, ConcatProperties
  <2>2. z \o y4 = y2
    BY <1>11, <1>12, <1>17, StepsAssociate DEF y2, y3
  <2> HIDE DEF z
  <2>3. u \o y4 = y1
    <3>1. (x1 \o z) \o y4 = x1 \o (z \o y4)
      BY <1>9, <1>17, <2>1, StepsAssociate, Zenon
    <3> QED
      BY <2>2, <3>1, Zenon DEF y1
  <2>4. h = mal \o u /\ h \in Seq(Step)
    BY <1>14, <1>15, <2>1, ConcatProperties DEF z
  <2> HIDE DEF u
  <2>5. h \o y4 = mal \o y1
    <3>1. (mal \o u) \o y4 = mal \o (u \o y4)
      BY <1>14, <1>17, <2>1, StepsAssociate, Zenon
    <3> QED
      BY <2>3, <2>4, <3>1, Zenon
  <2>6. (h \o x4) \o x5 = h \o y4
    BY <1>10, <1>13, <2>4, StepsAssociate DEF y4
  <2> QED
    BY <1>16, <2>5, <2>6
<1>22. Sound(call)
  BY <1>1, <1>2, <1>4, <1>5, <1>20, <1>21, HeapSound DEF t, mal
<1> QED
  BY <1>22 DEF call

\* pqwire_send_bind_rewrite_identity without a slot for the identity.
LEMMA BindRejected ==
    ASSUME NEW portal \in Nat, NEW statement \in Nat, NEW ls \in Seq(Int),
           NEW slot \in Nat, NEW n_results \in Nat, slot >= Len(ls)
    PROVE  Sound(SendBindRewriteIdentity(portal, statement, ls, slot, n_results))
<1> DEFINE call == SendBindRewriteIdentity(portal, statement, ls, slot, n_results)
<1>1. /\ call.cap = 8192 /\ call.helper = "send_bind_rewrite_identity"
      /\ call.args = <<portal, statement, ls, slot, n_results>>
      /\ call.steps = <<Reject>>
      /\ call.body = portal + statement + 13 + 6 * Len(ls) + Total(ls) + 2 * n_results
  BY DEF SendBindRewriteIdentity, Helper
<1> HIDE DEF call
<1>2. call.args[4] = slot /\ call.args[3] = ls
  BY <1>1
<1>3. Rejected(call)
  BY <1>1, <1>2 DEF Rejected, SlotMissing
<1>4. call.body \in Nat /\ call.cap \in Nat
  BY <1>1, TotalNat
<1>5. call.steps \in Seq(Step)
  <2>1. Reject \in Step
    BY DEF Reject, Step
  <2> QED
    BY <1>1, <2>1
<1>6. Sound(call)
  BY <1>3, <1>4, <1>5, TermsFacts DEF Sound
<1> QED
  BY <1>6 DEF call

\* pqwire_send_bind_rewrite_identity.
LEMMA BindRewriteSound ==
    ASSUME NEW portal \in Nat, NEW statement \in Nat, NEW ls \in Seq(Int),
           NEW slot \in Nat, NEW n_results \in Nat, ~(slot >= Len(ls))
    PROVE  Sound(SendBindRewriteIdentity(portal, statement, ls, slot, n_results))
<1> DEFINE call == SendBindRewriteIdentity(portal, statement, ls, slot, n_results)
           t == TermsOf(call)
           n == Len(ls)
           o == Total(ls)
           x1 == Checked(5)
           x2 == Checked(portal + 1)
           x3 == Checked(statement + 1)
           x4 == Checked(2)
           x5 == FlattenSeq([i \in DOMAIN ls |-> Checked(2)])
           x7 == FlattenSeq([i \in DOMAIN ls |-> CheckedValue(ls[i])])
           x9 == FlattenSeq([i \in 1 .. n_results |-> Checked(2)])
           a2 == 5 + (portal + 1)
           a3 == a2 + (statement + 1)
           a4 == a3 + 2
           a5 == a4 + 2 * n
           a6 == a5 + 2
           a7 == a6 + 4 * n + o
           a8 == a7 + 2
           a9 == a8 + 2 * n_results
<1>1. n \in Nat /\ o \in Nat /\ DOMAIN ls = 1 .. n
  BY TotalNat
<1>2. /\ call.cap = 8192 /\ call.helper = "send_bind_rewrite_identity"
      /\ call.steps = x1 \o x2 \o x3 \o x4 \o x5 \o x4 \o x7 \o x4 \o x9
  <2>1. call.cap = 8192 /\ call.helper = "send_bind_rewrite_identity"
    BY DEF SendBindRewriteIdentity, Helper
  <2>2. call.steps = Checked(5) \o Checked(portal + 1) \o Checked(statement + 1)
               \o Checked(2) \o x5 \o Checked(2) \o x7 \o Checked(2) \o x9
    BY Zenon DEF SendBindRewriteIdentity, Helper, CheckedValue
  <2> QED
    BY <2>1, <2>2
<1>3. call.body = portal + statement + 13 + 6 * n + o + 2 * n_results
  BY DEF SendBindRewriteIdentity, Helper
<1> HIDE DEF call
<1>4. call.body = a9 /\ call.body \in Nat
  BY <1>1, <1>3
<1>5. Overshoot(call) = 0 /\ Spare(call) = 0 /\ FirstCap(call) \in 0 .. call.cap /\ call.cap \in Nat
  BY <1>2 DEF Overshoot, Spare, FirstCap
<1>6. t \in Terms /\ t.over = 0 /\ t.lim = a9
  BY <1>4, <1>5, TermsFacts
<1> HIDE DEF t, n, o
<1>7. /\ a2 \in Nat /\ a3 \in Nat /\ a4 \in Nat /\ a5 \in Nat /\ a6 \in Nat /\ a7 \in Nat
      /\ a8 \in Nat /\ a9 \in Nat
      /\ 0 + 5 <= a9 /\ a2 <= a9 /\ a3 <= a9 /\ a4 <= a9 /\ a5 <= a9 /\ a6 <= a9
      /\ a7 <= a9 /\ a8 <= a9 /\ a9 <= a9
  BY <1>1
<1>8. /\ 0 \in Nat /\ 0 \in Int /\ 2 \in Nat /\ 5 \in Nat /\ portal + 1 \in Nat
      /\ statement + 1 \in Nat /\ 0 - t.over <= 0 /\ call.cap \in Int /\ 0 - t.over <= call.cap
      /\ 0 + 5 = 5
  BY <1>5, <1>6
<1>9. x7 \in Seq(Step) /\ Seg(x7, a6, 0, a7, 0, t)
  <2> HIDE DEF a6, a9
  <2>1. a6 + 4 * Len(ls) + Total(ls) <= t.lim
    BY <1>6, <1>7 DEF n, o
  <2>2. x7 \in Seq(Step) /\ Seg(x7, a6, 0, a6 + 4 * Len(ls) + Total(ls), 0, t)
    BY <1>6, <1>7, <2>1, CheckedValuesSeg
  <2> QED
    BY <2>2 DEF n, o
<1> HIDE DEF a2, a3, a4, a5, a6, a7, a8, a9
<1>10. x1 \in Seq(Step) /\ Seg(x1, 0, call.cap, 5, 0, t)
  BY <1>6, <1>7, <1>8, CheckedSeg
<1>11. x2 \in Seq(Step) /\ Seg(x2, 5, 0, a2, 0, t)
  BY <1>6, <1>7, <1>8, CheckedSeg DEF a2
<1>12. x3 \in Seq(Step) /\ Seg(x3, a2, 0, a3, 0, t)
  BY <1>6, <1>7, <1>8, CheckedSeg DEF a3
<1>13. x4 \in Seq(Step) /\ Seg(x4, a3, 0, a4, 0, t)
  BY <1>6, <1>7, <1>8, CheckedSeg DEF a4
<1>14. x5 \in Seq(Step) /\ Seg(x5, a4, 0, a5, 0, t)
  <2>1. x5 = FlattenSeq([i \in 1 .. n |-> Checked(2)])
    BY <1>1
  <2> HIDE DEF x5
  <2> QED
    BY <1>1, <1>6, <1>7, <2>1, FormatsSeg DEF a5
<1>15. Seg(x4, a5, 0, a6, 0, t)
  BY <1>6, <1>7, <1>8, CheckedSeg DEF a6
<1>16. Seg(x4, a7, 0, a8, 0, t)
  BY <1>6, <1>7, <1>8, CheckedSeg DEF a8
<1>17. x9 \in Seq(Step) /\ Seg(x9, a8, 0, a9, 0, t)
  BY <1>6, <1>7, FormatsSeg DEF a9
<1> DEFINE y2 == x1 \o x2
           y3 == y2 \o x3
           y4 == y3 \o x4
           y5 == y4 \o x5
           y6 == y5 \o x4
           y7 == y6 \o x7
           y8 == y7 \o x4
           y9 == y8 \o x9
<1>18. call.steps = y9
  BY <1>2
<1> HIDE DEF x1, x2, x3, x4, x5, x7, x9
<1>19. y2 \in Seq(Step) /\ Seg(y2, 0, call.cap, a2, 0, t)
  BY <1>6, <1>8, <1>10, <1>11, SegConcat, ConcatProperties
<1> HIDE DEF y2
<1>20. y3 \in Seq(Step) /\ Seg(y3, 0, call.cap, a3, 0, t)
  BY <1>6, <1>8, <1>12, <1>19, SegConcat, ConcatProperties
<1> HIDE DEF y3
<1>21. y4 \in Seq(Step) /\ Seg(y4, 0, call.cap, a4, 0, t)
  BY <1>6, <1>8, <1>13, <1>20, SegConcat, ConcatProperties
<1> HIDE DEF y4
<1>22. y5 \in Seq(Step) /\ Seg(y5, 0, call.cap, a5, 0, t)
  BY <1>6, <1>8, <1>14, <1>21, SegConcat, ConcatProperties
<1> HIDE DEF y5
<1>23. y6 \in Seq(Step) /\ Seg(y6, 0, call.cap, a6, 0, t)
  BY <1>6, <1>8, <1>13, <1>15, <1>22, SegConcat, ConcatProperties
<1> HIDE DEF y6
<1>24. y7 \in Seq(Step) /\ Seg(y7, 0, call.cap, a7, 0, t)
  BY <1>6, <1>8, <1>9, <1>23, SegConcat, ConcatProperties
<1> HIDE DEF y7
<1>25. y8 \in Seq(Step) /\ Seg(y8, 0, call.cap, a8, 0, t)
  BY <1>6, <1>8, <1>13, <1>16, <1>24, SegConcat, ConcatProperties
<1> HIDE DEF y8
<1>26. y9 \in Seq(Step) /\ Seg(y9, 0, call.cap, a9, 0, t)
  BY <1>6, <1>8, <1>17, <1>25, SegConcat, ConcatProperties
<1> HIDE DEF y9
<1>27. Sound(call)
  BY <1>4, <1>5, <1>7, <1>8, <1>18, <1>26, StackSound DEF t
<1> QED
  BY <1>27 DEF call

-----------------------------------------------------------------------------
(* What applications call.                                                 *)

\* Every call of a helper is sound.
LEMMA EveryCallSound ==
    ASSUME NEW call, IsCall(call)
    PROVE  Sound(call)
<1>1. PICK x : x = call.args
  OBVIOUS
<1>2. CASE call.helper \in DirectHelpers /\ call.body \in Nat
           /\ call = Direct(call.helper, call.type, call.body)
  <2>1. PICK h, y, n : h = call.helper /\ y = call.type /\ n = call.body
    OBVIOUS
  <2>2. h \in DirectHelpers /\ n \in Nat /\ call = Direct(h, y, n)
    BY <1>2, <2>1
  <2>3. Sound(Direct(h, y, n))
    BY <2>2, DirectSound
  <2> QED
    BY <2>2, <2>3, Zenon
<1>3. CASE x \in Nat \X Nat /\ call = SendStartup(x[1], x[2])
  <2>1. x[1] \in Nat /\ x[2] \in Nat
    BY <1>3
  <2> QED
    BY <1>3, <2>1, StartupSound, Zenon
<1>4. CASE x \in [1 .. 1 -> Nat] /\ \/ call = SendCall(x[1])
                                    \/ call = SendDescribe(x[1])
                                    \/ call = SendClose(x[1])
                                    \/ call = SendExecute(x[1])
  <2>1. x[1] \in Nat
    BY <1>4
  <2> QED
    BY <1>4, <2>1, SendCallSound, DescribeSound, CloseSound, ExecuteSound, Zenon
<1>5. CASE x \in Nat \X Nat \X Nat /\ \/ call = SendParse(x[1], x[2], x[3])
                                      \/ call = SendErrorResponse(x[1], x[2], x[3])
  <2>1. x[1] \in Nat /\ x[2] \in Nat /\ x[3] \in Nat
    BY <1>5
  <2> QED
    BY <1>5, <2>1, ParseSound, ErrorResponseSound, Zenon
<1>6. CASE /\ x \in Nat \X Nat \X Nat \X Seq(Int) \X Nat
           /\ call = SendBind(x[1], x[2], x[3], x[4], x[5])
  <2>1. x[1] \in Nat /\ x[2] \in Nat /\ x[3] \in Nat /\ x[4] \in Seq(Int) /\ x[5] \in Nat
    BY <1>6
  <2> QED
    BY <1>6, <2>1, BindSound, Zenon
<1>7. CASE x \in [1 .. 1 -> Seq(Nat)] /\ call = SendRowDescription(x[1])
  <2>1. x[1] \in Seq(Nat)
    BY <1>7
  <2> QED
    BY <1>7, <2>1, RowDescriptionSound, Zenon
<1>8. CASE x \in [1 .. 1 -> Int] /\ call = SendDataRow(x[1])
  <2>1. x[1] \in Int
    BY <1>8
  <2>2. (x[1] \in Int /\ x[1] < 0) \/ x[1] \in Nat
    BY <2>1
  <2> QED
    BY <1>8, <2>2, NullRowSound, ValueRowSound, Zenon
<1>9. CASE x \in Seq(Int) \X SUBSET Nat /\ call = SendDataRowMulti(x[1], x[2])
  <2>1. x[1] \in Seq(Int)
    BY <1>9
  <2> QED
    BY <1>9, <2>1, DataRowMultiSound, Zenon
<1>10. CASE /\ x \in Nat \X Nat \X Seq(Int) \X Nat \X Nat
            /\ call = SendBindRewriteIdentity(x[1], x[2], x[3], x[4], x[5])
  <2>1. x[1] \in Nat /\ x[2] \in Nat /\ x[3] \in Seq(Int) /\ x[4] \in Nat /\ x[5] \in Nat
    BY <1>10
  <2> QED
    BY <1>10, <2>1, BindRewriteSound, BindRejected, Zenon
<1> QED
  BY <1>1, <1>2, <1>3, <1>4, <1>5, <1>6, <1>7, <1>8, <1>9, <1>10, Zenon DEF IsCall

\* The calls that an invocation is made of.
CallSet == UNION {{calls[i] : i \in DOMAIN calls} : calls \in Invocations}

\* The four calls of pqwire_send_unnamed_pipeline.
PipelineOf(calls) ==
    /\ calls \in Seq(CallSet) /\ Len(calls) = 4
    /\ \A i \in 1 .. 4 : Sound(calls[i])
    /\ calls[1].type = "P" /\ calls[3] = SendExecute(0) /\ calls[4] = SendEmpty("S")

LEMMA PipelineShape ==
    ASSUME NEW calls \in Invocations, IsPipeline(calls)
    PROVE  PipelineOf(calls)
<1>1. PICK x, y : x = calls[1].args /\ y = calls[2].args
  OBVIOUS
<1>2. /\ x \in Nat \X Nat \X Nat /\ y \in Nat \X Nat \X Nat \X Seq(Int) \X Nat
      /\ calls = SendUnnamedPipeline(x[2], x[3], y[3], y[4], y[5])
  BY <1>1, Zenon DEF IsPipeline
<1>3. x[2] \in Nat /\ x[3] \in Nat /\ y[3] \in Nat /\ y[4] \in Seq(Int) /\ y[5] \in Nat
  BY <1>2
<1> DEFINE a == SendParse(0, x[2], x[3])
           b == SendBind(0, 0, y[3], y[4], y[5])
           c == SendExecute(0)
           d == SendEmpty("S")
<1>4. Sound(a) /\ Sound(b) /\ Sound(c) /\ Sound(d) /\ a.type = "P"
  <2>1. 0 \in Nat /\ "send_empty" \in DirectHelpers
    BY DEF DirectHelpers
  <2>2. Sound(a) /\ Sound(b) /\ Sound(c)
    BY <1>3, <2>1, ParseSound, BindSound, ExecuteSound
  <2>3. Sound(d)
    BY <2>1, DirectSound DEF SendEmpty
  <2>4. a.type = "P"
    BY DEF SendParse, Helper
  <2> QED
    BY <2>2, <2>3, <2>4
<1>5. calls = <<a, b, c, d>>
  BY <1>2 DEF SendUnnamedPipeline
<1> HIDE DEF a, b, c, d
<1>6. /\ Len(calls) = 4 /\ DOMAIN calls = 1 .. 4
      /\ calls[1] = a /\ calls[2] = b /\ calls[3] = c /\ calls[4] = d
  BY <1>5
<1>7. \A i \in 1 .. 4 : calls[i] \in CallSet
  BY <1>6 DEF CallSet
<1>8. calls \in Seq(CallSet)
  <2>1. a \in CallSet /\ b \in CallSet /\ c \in CallSet /\ d \in CallSet
    BY <1>6, <1>7
  <2> QED
    BY <1>5, <2>1
<1>9. \A i \in 1 .. 4 : Sound(calls[i])
  <2> TAKE i \in 1 .. 4
  <2>1. i = 1 \/ i = 2 \/ i = 3 \/ i = 4
    OBVIOUS
  <2> QED
    BY <1>4, <1>6, <2>1
<1> QED
  BY <1>4, <1>6, <1>8, <1>9 DEF PipelineOf, c, d

LEMMA InvocationShape ==
    ASSUME NEW calls \in Invocations
    PROVE  /\ calls \in Seq(CallSet) /\ Len(calls) >= 1
           /\ Len(calls) > 1 => PipelineOf(calls)
<1>1. CASE Len(calls) = 1
  <2>1. calls = <<calls[1]>>
    BY <1>1, EncodersAssumption
  <2>2. PICK c : c = calls[1]
    OBVIOUS
  <2>3. calls = <<c>>
    BY <2>1, <2>2
  <2>4. 1 \in DOMAIN calls
    BY <2>3
  <2>5. c \in CallSet
    BY <2>2, <2>4 DEF CallSet
  <2> QED
    BY <1>1, <2>3, <2>5
<1>2. CASE Len(calls) # 1
  <2>1. PipelineOf(calls)
    BY <1>2, EncodersAssumption, PipelineShape
  <2> QED
    BY <2>1 DEF PipelineOf
<1> QED
  BY <1>1, <1>2

LEMMA CallsSound ==
    ASSUME NEW c \in CallSet
    PROVE  Sound(c)
<1>1. PICK calls \in Invocations : \E i \in DOMAIN calls : c = calls[i]
  BY DEF CallSet
<1>2. PICK i \in DOMAIN calls : c = calls[i]
  BY <1>1
<1>3. CASE Len(calls) = 1
  <2>1. IsCall(calls[1]) /\ i = 1
    BY <1>3, EncodersAssumption, InvocationShape
  <2> QED
    BY <1>2, <2>1, EveryCallSound
<1>4. CASE Len(calls) # 1
  <2>1. PipelineOf(calls)
    BY <1>4, EncodersAssumption, PipelineShape
  <2> QED
    BY <1>2, <2>1 DEF PipelineOf
<1> QED
  BY <1>3, <1>4

-----------------------------------------------------------------------------
(* A call under way: its buffer is still to be allocated, or what is left   *)
(* of it is a segment for which there is room, or it is about to be         *)
(* rejected.                                                               *)

Ahead(st, call) ==
    /\ FirstCap(call) <= st.cap
    /\ \E r \in Int, w \in Nat, q \in Int :
           /\ r <= st.cap - st.p
           /\ Seg(st.steps, st.p, r, w, q, TermsOf(call))
           /\ ~Cuts(call) => w = call.body

ToAllocate(st, call) ==
    /\ st.p = 0 /\ st.cap = 0 /\ st.steps = call.steps /\ call.cap = 0
    /\ call.steps # <<>> /\ Head(call.steps).op = "malloc" /\ call.helper \in HeapHelpers
    /\ \E w \in Nat, q \in Int :
           /\ ~Cuts(call) => w = call.body
           /\ Seg(Tail(call.steps), 0, FirstCap(call), w, q, TermsOf(call))

ToReject(st, call) == st.p = 0 /\ st.steps = <<Reject>> /\ SlotMissing(call)

UnderWay(st, call) ==
    /\ st.p \in Nat /\ st.cap \in Nat /\ st.steps \in Seq(Step)
    /\ ToAllocate(st, call) \/ Ahead(st, call) \/ ToReject(st, call)

Go(p, cap, steps) == [p |-> p, cap |-> cap, steps |-> steps]

\* What is known of a sound call.
LEMMA SoundFacts ==
    ASSUME NEW call, Sound(call)
    PROVE  /\ call.cap \in Nat /\ call.body \in Nat /\ call.steps \in Seq(Step)
           /\ TermsOf(call) \in Terms /\ FirstCap(call) \in Nat
           /\ TermsOf(call).lim = call.body + Spare(call)
           /\ TermsOf(call).over = Overshoot(call)
           /\ TermsOf(call).heap = 1 <=> call.helper \in HeapHelpers
           /\ Overshoot(call) \in Nat /\ Spare(call) \in Nat
<1>1. /\ call.cap \in Nat /\ call.body \in Nat /\ call.steps \in Seq(Step)
      /\ TermsOf(call) \in Terms
  BY DEF Sound
<1>2. FirstCap(call) \in Nat
  <2>1. CASE Rejected(call)
    <3>1. call.steps[1].n = 0
      BY <2>1 DEF Rejected, Reject
    <3> QED
      BY <1>1, <3>1 DEF FirstCap
  <2>2. CASE Built(call)
    <3>1. FirstCap(call) \in 0 .. call.cap \/ FirstCap(call) \in Nat
      BY <2>2 DEF Built
    <3> QED
      BY <1>1, <3>1
  <2> QED
    BY <2>1, <2>2 DEF Sound
<1>3. Overshoot(call) \in Nat /\ Spare(call) \in Nat
  BY DEF Overshoot, Spare
<1> QED
  BY <1>1, <1>2, <1>3, TermsFacts

\* A sound call begins under way.
LEMMA Begins ==
    ASSUME NEW call, Sound(call)
    PROVE  UnderWay(Stage(call), call)
<1> DEFINE st == Stage(call)
<1>1. st.p = 0 /\ st.cap = call.cap /\ st.steps = call.steps
  BY DEF Stage
<1>2. call.cap \in Nat /\ call.steps \in Seq(Step) /\ FirstCap(call) \in Nat
  BY SoundFacts
<1> HIDE DEF st
<1>0. CASE Rejected(call)
  <2>1. ToReject(st, call)
    BY <1>0, <1>1 DEF Rejected, ToReject
  <2> QED
    BY <1>1, <1>2, <2>1 DEF UnderWay, st
<1> SUFFICES ASSUME Built(call) PROVE UnderWay(st, call)
  BY <1>0 DEF Sound, st
<1>3. PICK w \in Nat, q \in Int :
          /\ ~Cuts(call) => w = call.body
          /\ \/ /\ FirstCap(call) \in 0 .. call.cap
                /\ Seg(call.steps, 0, call.cap, w, q, TermsOf(call))
             \/ /\ call.cap = 0 /\ call.steps # <<>> /\ Head(call.steps).op = "malloc"
                /\ call.helper \in HeapHelpers /\ FirstCap(call) \in Nat
                /\ Seg(Tail(call.steps), 0, FirstCap(call), w, q, TermsOf(call))
  BY DEF Built
<1>4. CASE FirstCap(call) \in 0 .. call.cap /\ Seg(call.steps, 0, call.cap, w, q, TermsOf(call))
  <2>1. FirstCap(call) <= st.cap /\ call.cap <= st.cap - st.p /\ call.cap \in Int
    BY <1>1, <1>2, <1>4
  <2>2. Seg(st.steps, st.p, call.cap, w, q, TermsOf(call))
    BY <1>1, <1>4
  <2>3. Ahead(st, call)
    BY <1>3, <2>1, <2>2, Zenon DEF Ahead
  <2> QED
    BY <1>1, <1>2, <2>3 DEF UnderWay, st
<1>5. CASE /\ call.cap = 0 /\ call.steps # <<>> /\ Head(call.steps).op = "malloc"
           /\ call.helper \in HeapHelpers
           /\ Seg(Tail(call.steps), 0, FirstCap(call), w, q, TermsOf(call))
  <2>1. ToAllocate(st, call)
    BY <1>1, <1>3, <1>5, Zenon DEF ToAllocate
  <2> QED
    BY <1>1, <1>2, <2>1 DEF UnderWay, st
<1> QED
  BY <1>3, <1>4, <1>5

\* The buffer is allocated.
LEMMA MallocStep ==
    ASSUME NEW call, Sound(call), NEW st, UnderWay(st, call),
           st.steps # <<>>, Head(st.steps).op = "malloc"
    PROVE  /\ call.helper \in HeapHelpers
           /\ UnderWay(Go(st.p, Head(st.steps).n, Tail(st.steps)), call)
<1> DEFINE t == TermsOf(call)
           go == Go(st.p, Head(st.steps).n, Tail(st.steps))
<1>1. t \in Terms /\ FirstCap(call) \in Nat /\ st.steps \in Seq(Step) /\ call.steps \in Seq(Step)
  BY SoundFacts DEF UnderWay
<1> HIDE DEF t
<1>2. ~Ahead(st, call)
  <2> SUFFICES ASSUME NEW r \in Int, NEW w \in Nat, NEW q \in Int,
                      Seg(st.steps, st.p, r, w, q, t)
               PROVE  FALSE
    BY DEF Ahead, t
  <2>1. PICK a2 \in Nat, r2 \in Int : StepOK(Head(st.steps), st.p, r, a2, r2, t)
    BY <1>1, SegHead
  <2> QED
    BY <2>1 DEF StepOK
<1>3. ToAllocate(st, call)
  <2>1. ~ToReject(st, call)
    BY DEF ToReject, Reject
  <2> QED
    BY <1>2, <2>1 DEF UnderWay
<1>4. /\ st.p = 0 /\ st.cap = 0 /\ st.steps = call.steps /\ call.cap = 0
      /\ call.steps # <<>> /\ call.helper \in HeapHelpers
  BY <1>3 DEF ToAllocate
<1>5. PICK w \in Nat, q \in Int :
          /\ ~Cuts(call) => w = call.body
          /\ Seg(Tail(call.steps), 0, FirstCap(call), w, q, TermsOf(call))
  BY <1>3 DEF ToAllocate
<1>6. FirstCap(call) = Head(st.steps).n
  BY <1>1, <1>4, HeadTailProperties DEF FirstCap
<1>7. go.p = 0 /\ go.cap = FirstCap(call) /\ go.steps = Tail(call.steps)
  BY <1>4, <1>6 DEF Go
<1>8. Tail(call.steps) \in Seq(Step)
  BY <1>1, <1>4, HeadTailProperties
<1> HIDE DEF go
<1>9. FirstCap(call) <= go.cap - go.p /\ FirstCap(call) <= go.cap /\ FirstCap(call) \in Int
  BY <1>1, <1>7
<1>10. Seg(go.steps, go.p, FirstCap(call), w, q, TermsOf(call))
  BY <1>5, <1>7
<1>11. Ahead(go, call)
  BY <1>5, <1>9, <1>10, Zenon DEF Ahead
<1>12. UnderWay(go, call)
  BY <1>1, <1>7, <1>8, <1>11 DEF UnderWay
<1> QED
  BY <1>4, <1>12 DEF go

\* What the first step of a call is that has its buffer.
LEMMA NextStep ==
    ASSUME NEW call, Sound(call), NEW st, UnderWay(st, call),
           st.steps # <<>>, Head(st.steps).op \notin {"malloc", "reject"}
    PROVE  /\ FirstCap(call) <= st.cap /\ st.p \in Nat /\ st.cap \in Nat
           /\ Head(st.steps).n \in Nat /\ Tail(st.steps) \in Seq(Step)
           /\ \E r \in Int, a2 \in Nat, r2 \in Int, w \in Nat, q \in Int :
                  /\ r <= st.cap - st.p
                  /\ StepOK(Head(st.steps), st.p, r, a2, r2, TermsOf(call))
                  /\ Seg(Tail(st.steps), a2, r2, w, q, TermsOf(call))
                  /\ ~Cuts(call) => w = call.body
<1> DEFINE t == TermsOf(call)
<1>1. t \in Terms /\ st.steps \in Seq(Step) /\ st.p \in Nat /\ st.cap \in Nat
  BY SoundFacts DEF UnderWay
<1>2. Ahead(st, call)
  <2>1. ~ToReject(st, call)
    BY DEF ToReject, Reject
  <2> QED
    BY <2>1 DEF UnderWay, ToAllocate
<1> HIDE DEF t
<1>3. PICK r \in Int, w \in Nat, q \in Int :
          /\ r <= st.cap - st.p
          /\ Seg(st.steps, st.p, r, w, q, t)
          /\ ~Cuts(call) => w = call.body
  BY <1>2 DEF Ahead, t
<1>4. PICK a2 \in Nat, r2 \in Int :
          /\ StepOK(Head(st.steps), st.p, r, a2, r2, t)
          /\ Seg(Tail(st.steps), a2, r2, w, q, t)
  BY <1>1, <1>3, SegHead
<1>5. Head(st.steps) \in Step /\ Tail(st.steps) \in Seq(Step)
  BY <1>1, HeadTailProperties
<1>6. Head(st.steps).n \in Nat
  BY <1>5 DEF Step
<1>7. FirstCap(call) <= st.cap
  BY <1>2 DEF Ahead
<1> QED
  BY <1>1, <1>3, <1>4, <1>5, <1>6, <1>7, Zenon DEF t

\* How a call is under way after a step.
LEMMA Resumes ==
    ASSUME NEW call, NEW p \in Nat, NEW cap \in Nat, NEW steps \in Seq(Step),
           FirstCap(call) <= cap, NEW r \in Int, NEW w \in Nat, NEW q \in Int,
           r <= cap - p, Seg(steps, p, r, w, q, TermsOf(call)),
           ~Cuts(call) => w = call.body
    PROVE  UnderWay(Go(p, cap, steps), call)
<1> DEFINE go == Go(p, cap, steps)
<1>1. go.p = p /\ go.cap = cap /\ go.steps = steps
  BY DEF Go
<1> HIDE DEF go
<1>2. Ahead(go, call)
  BY <1>1, Zenon DEF Ahead
<1>3. UnderWay(go, call)
  BY <1>1, <1>2 DEF UnderWay
<1> QED
  BY <1>3 DEF go

\* A check refuses only what does not fit.
LEMMA RequireStep ==
    ASSUME NEW call, Sound(call), NEW st, UnderWay(st, call),
           st.steps # <<>>, Head(st.steps).op = "require"
    PROVE  IF st.p + Head(st.steps).n > st.cap
           THEN call.body + Spare(call) > FirstCap(call)
           ELSE UnderWay(Go(st.p, st.cap, Tail(st.steps)), call)
<1> DEFINE n == Head(st.steps).n
<1>1. FirstCap(call) <= st.cap /\ st.p \in Nat /\ st.cap \in Nat /\ n \in Nat /\ Tail(st.steps) \in Seq(Step)
  BY NextStep
<1>2. PICK r \in Int, a2 \in Nat, r2 \in Int, w \in Nat, q \in Int :
          /\ r <= st.cap - st.p
          /\ StepOK(Head(st.steps), st.p, r, a2, r2, TermsOf(call))
          /\ Seg(Tail(st.steps), a2, r2, w, q, TermsOf(call))
          /\ ~Cuts(call) => w = call.body
  BY NextStep
<1>3. a2 = st.p /\ st.p + n <= TermsOf(call).lim /\ (r2 <= r \/ r2 <= n)
  BY <1>2 DEF StepOK
<1>4. TermsOf(call).lim = call.body + Spare(call) /\ call.body \in Nat /\ Spare(call) \in Nat /\ FirstCap(call) \in Nat
  BY SoundFacts
<1> HIDE DEF n
<1>5. CASE st.p + n > st.cap
  BY <1>1, <1>3, <1>4, <1>5, SMTT(30) DEF n
<1>6. CASE ~(st.p + n > st.cap)
  <2> DEFINE p == st.p
             c == st.cap
  <2>1. r2 <= c - p
    <3>1. /\ p \in Nat /\ c \in Nat /\ n \in Nat /\ r \in Int /\ r2 \in Int
          /\ r <= c - p /\ ~(p + n > c) /\ (r2 <= r \/ r2 <= n)
      BY <1>1, <1>2, <1>3, <1>6 DEF n
    <3> HIDE DEF p, c
    <3> QED
      BY <3>1
  <2>2. UnderWay(Go(st.p, st.cap, Tail(st.steps)), call)
    BY <1>1, <1>2, <1>3, <2>1, Resumes
  <2> QED
    BY <1>6, <2>2 DEF n
<1> QED
  BY <1>5, <1>6

\* An enlargement makes room.
LEMMA FitStep ==
    ASSUME NEW call, Sound(call), NEW st, UnderWay(st, call),
           st.steps # <<>>, Head(st.steps).op = "fit"
    PROVE  /\ call.helper \in HeapHelpers
           /\ IF st.p + Head(st.steps).n > st.cap
              THEN UnderWay(Go(st.p, st.p + Head(st.steps).n + 1024, Tail(st.steps)), call)
              ELSE UnderWay(Go(st.p, st.cap, Tail(st.steps)), call)
<1> DEFINE n == Head(st.steps).n
<1>1. FirstCap(call) <= st.cap /\ st.p \in Nat /\ st.cap \in Nat /\ n \in Nat /\ Tail(st.steps) \in Seq(Step)
  BY NextStep
<1>2. PICK r \in Int, a2 \in Nat, r2 \in Int, w \in Nat, q \in Int :
          /\ r <= st.cap - st.p
          /\ StepOK(Head(st.steps), st.p, r, a2, r2, TermsOf(call))
          /\ Seg(Tail(st.steps), a2, r2, w, q, TermsOf(call))
          /\ ~Cuts(call) => w = call.body
  BY NextStep
<1>3. a2 = st.p /\ TermsOf(call).heap = 1 /\ (r2 <= r \/ r2 <= n)
  BY <1>2 DEF StepOK
<1>4. call.helper \in HeapHelpers /\ FirstCap(call) \in Nat
  BY <1>3, SoundFacts
<1> HIDE DEF n
<1>5. CASE st.p + n > st.cap
  <2> DEFINE cap == st.p + n + 1024
  <2>1. r2 <= cap - st.p /\ cap \in Nat /\ FirstCap(call) <= cap
    <3> DEFINE p == st.p
               c == st.cap
               f == FirstCap(call)
    <3>1. p \in Nat /\ c \in Nat /\ f \in Nat /\ f <= c /\ r <= c - p /\ p + n > c
      BY <1>1, <1>2, <1>4, <1>5
    <3>2. cap = p + n + 1024
      OBVIOUS
    <3> HIDE DEF p, c, f, cap
    <3>3. r2 <= cap - p /\ cap \in Nat /\ f <= cap
      BY <1>1, <1>3, <3>1, <3>2
    <3> QED
      BY <3>3 DEF p, f
  <2> HIDE DEF cap
  <2>2. UnderWay(Go(st.p, cap, Tail(st.steps)), call)
    BY <1>1, <1>2, <1>3, <2>1, Resumes
  <2> QED
    BY <1>4, <1>5, <2>2 DEF n, cap
<1>6. CASE ~(st.p + n > st.cap)
  <2> DEFINE p == st.p
             c == st.cap
  <2>1. r2 <= c - p
    <3>1. /\ p \in Nat /\ c \in Nat /\ n \in Nat /\ r \in Int /\ r2 \in Int
          /\ r <= c - p /\ ~(p + n > c) /\ (r2 <= r \/ r2 <= n)
      BY <1>1, <1>2, <1>3, <1>6 DEF n
    <3> HIDE DEF p, c
    <3> QED
      BY <3>1
  <2>2. UnderWay(Go(st.p, st.cap, Tail(st.steps)), call)
    BY <1>1, <1>2, <1>3, <2>1, Resumes
  <2> QED
    BY <1>4, <1>6, <2>2 DEF n
<1> QED
  BY <1>5, <1>6

\* A write stays within the room.
LEMMA PutStep ==
    ASSUME NEW call, Sound(call), NEW st, UnderWay(st, call),
           st.steps # <<>>, Head(st.steps).op = "put"
    PROVE  UnderWay(Go(st.p + Head(st.steps).n, st.cap, Tail(st.steps)), call)
<1> DEFINE n == Head(st.steps).n
<1>1. FirstCap(call) <= st.cap /\ st.p \in Nat /\ st.cap \in Nat /\ n \in Nat /\ Tail(st.steps) \in Seq(Step)
  BY NextStep
<1>2. PICK r \in Int, a2 \in Nat, r2 \in Int, w \in Nat, q \in Int :
          /\ r <= st.cap - st.p
          /\ StepOK(Head(st.steps), st.p, r, a2, r2, TermsOf(call))
          /\ Seg(Tail(st.steps), a2, r2, w, q, TermsOf(call))
          /\ ~Cuts(call) => w = call.body
  BY NextStep
<1>3. a2 = st.p + n /\ r2 <= r - n
  BY <1>2 DEF StepOK
<1> HIDE DEF n
<1>4. r2 <= st.cap - a2
  BY <1>1, <1>2, <1>3
<1>5. UnderWay(Go(a2, st.cap, Tail(st.steps)), call)
  BY <1>1, <1>2, <1>4, Resumes
<1> QED
  BY <1>3, <1>5 DEF n

\* A call that is finished has written the whole message, and one under way is
\* within its buffer.
LEMMA Finished ==
    ASSUME NEW call, Sound(call), NEW st, UnderWay(st, call)
    PROVE  /\ st.p <= st.cap + Overshoot(call)
           /\ st.steps = <<>> /\ ~Cuts(call) => st.p = call.body
<1>1. /\ TermsOf(call) \in Terms /\ TermsOf(call).over = Overshoot(call)
      /\ Overshoot(call) \in Nat /\ st.steps \in Seq(Step) /\ st.p \in Nat /\ st.cap \in Nat
  BY SoundFacts DEF UnderWay
<1>2. CASE ToAllocate(st, call)
  BY <1>1, <1>2 DEF ToAllocate
<1>3. CASE Ahead(st, call)
  <2>1. PICK r \in Int, w \in Nat, q \in Int :
            /\ r <= st.cap - st.p
            /\ Seg(st.steps, st.p, r, w, q, TermsOf(call))
            /\ ~Cuts(call) => w = call.body
    BY <1>3 DEF Ahead
  <2>2. 0 - Overshoot(call) <= r /\ (st.steps = <<>> => st.p = w)
    BY <1>1, <2>1, SegRoom
  <2>3. st.p <= st.cap + Overshoot(call)
    BY <1>1, <2>1, <2>2
  <2> QED
    BY <2>1, <2>2, <2>3
<1>4. CASE ToReject(st, call)
  <2>1. st.steps # <<>> /\ st.p = 0
    BY <1>4 DEF ToReject
  <2> QED
    BY <1>1, <2>1
<1> QED
  BY <1>2, <1>3, <1>4 DEF UnderWay

\* Only a Bind without a slot for the identity is rejected.
LEMMA RejectStep ==
    ASSUME NEW call, Sound(call), NEW st, UnderWay(st, call),
           st.steps # <<>>, Head(st.steps).op = "reject"
    PROVE  SlotMissing(call)
<1> DEFINE t == TermsOf(call)
<1>1. t \in Terms /\ st.steps \in Seq(Step)
  BY SoundFacts DEF UnderWay
<1> HIDE DEF t
<1>2. ~Ahead(st, call)
  <2> SUFFICES ASSUME NEW r \in Int, NEW w \in Nat, NEW q \in Int,
                      Seg(st.steps, st.p, r, w, q, t)
               PROVE  FALSE
    BY DEF Ahead, t
  <2>1. PICK a2 \in Nat, r2 \in Int : StepOK(Head(st.steps), st.p, r, a2, r2, t)
    BY <1>1, SegHead
  <2> QED
    BY <2>1 DEF StepOK
<1> QED
  BY <1>2 DEF UnderWay, ToAllocate, ToReject

-----------------------------------------------------------------------------
(* The machine.                                                            *)

\* What is called and what is sent.
SentSet == [type : {c.type : c \in CallSet}, len : Nat, header : Nat, payload : Nat]
Calls ==
    /\ invocation \in Seq(CallSet) /\ todo \in Seq(CallSet) /\ sent \in Seq(SentSet)
    /\ invocation = <<>> \/ invocation \in Invocations
    /\ Len(sent) + Len(todo) = Len(invocation)
    /\ todo = SubSeq(invocation, Len(sent) + 1, Len(invocation))

\* A call is under way, without a failed allocation so far.
Progress ==
    result = Running => todo # <<>> /\ starved = FALSE /\ UnderWay(stage, todo[1])

\* A refused call did not fit, had no slot, or was one that allocates memory.
Refusal ==
    result = Refused =>
        /\ todo # <<>>
        /\ starved => todo[1].helper \in HeapHelpers
        /\ ~starved => \/ SlotMissing(todo[1])
                       \/ todo[1].body + Spare(todo[1]) > FirstCap(todo[1])

EncodersInv == TypeOK /\ Calls /\ AcceptedWhole /\ Progress /\ Refusal

\* The call under way is the one behind what has been sent.
LEMMA FirstTodo ==
    ASSUME NEW inv \in Seq(CallSet), NEW k \in Nat, NEW td \in Seq(CallSet), td # <<>>,
           td = SubSeq(inv, k + 1, Len(inv)), k + Len(td) = Len(inv)
    PROVE  /\ k + 1 \in 1 .. Len(inv) /\ td[1] = inv[k + 1] /\ td[1] \in CallSet
           /\ Sound(td[1])
           /\ Tail(td) = SubSeq(inv, (k + 1) + 1, Len(inv))
           /\ Tail(td) \in Seq(CallSet) /\ Len(Tail(td)) = Len(td) - 1
<1>1. Len(td) \in Nat /\ Len(td) # 0 /\ Len(inv) \in Nat
  BY EmptySeq, LenProperties
<1>2. k + 1 \in 1 .. Len(inv) /\ Len(inv) \in k + 1 .. Len(inv)
  BY <1>1
<1>3. Head(td) = inv[k + 1] /\ Tail(td) = SubSeq(inv, (k + 1) + 1, Len(inv))
  BY <1>2, HeadTailOfSubSeq
<1>4. Head(td) = td[1] /\ Head(td) \in CallSet /\ Tail(td) \in Seq(CallSet) /\ Len(Tail(td)) = Len(td) - 1
  BY HeadTailProperties
<1> QED
  BY <1>2, <1>3, <1>4, CallsSound

LEMMA InitInv == Init => EncodersInv
<1> SUFFICES ASSUME Init PROVE EncodersInv
  OBVIOUS
<1> USE DEF Init
<1>1. TypeOK
  <2>1. stage.p \in Nat /\ stage.cap \in Nat /\ stage.steps \in Seq(Step)
    BY DEF NoStage
  <2>2. result \in {Running, Accepted, Refused} /\ starved \in BOOLEAN /\ torn \in BOOLEAN
    OBVIOUS
  <2>3. DOMAIN sent = {}
    OBVIOUS
  <2> QED
    BY <2>1, <2>2, <2>3 DEF TypeOK
<1>2. Calls
  <2>3. Len(sent) + Len(todo) = Len(invocation)
    OBVIOUS
  <2>4. SubSeq(<<>>, 1, 0) = <<>>
    BY SubSeqEmpty
  <2>5. todo = SubSeq(invocation, Len(sent) + 1, Len(invocation))
    <3>1. Len(sent) + 1 = 1 /\ Len(invocation) = 0
      OBVIOUS
    <3> QED
      BY <2>4, <3>1
  <2> QED
    BY <2>3, <2>5 DEF Calls
<1>3. AcceptedWhole
  BY DEF AcceptedWhole
<1>4. Progress /\ Refusal
  BY DEF Progress, Refusal, Accepted, Running, Refused
<1> QED
  BY <1>1, <1>2, <1>3, <1>4 DEF EncodersInv

\* A step within a call.
LEMMA ProceedInv ==
    ASSUME EncodersInv, result = Running, NEW p \in Nat, NEW cap \in Nat, Proceed(p, cap),
           UnderWay(Go(p, cap, Tail(stage.steps)), todo[1])
    PROVE  EncodersInv'
<1> USE DEF EncodersInv
<1>1. /\ stage' = Go(p, cap, Tail(stage.steps))
      /\ invocation' = invocation /\ todo' = todo /\ sent' = sent /\ result' = result
      /\ starved' = starved /\ torn' = torn
  BY DEF Proceed, Go
<1>2. TypeOK'
  <2>1. stage'.p = p /\ stage'.cap = cap /\ stage'.steps \in Seq(Step)
    BY <1>1 DEF Go, UnderWay
  <2> QED
    BY <1>1, <2>1 DEF TypeOK
<1>3. Calls'
  BY <1>1 DEF Calls
<1>4. AcceptedWhole'
  BY <1>1 DEF AcceptedWhole
<1>5. Progress'
  BY <1>1, Zenon DEF Progress
<1>6. Refusal'
  BY <1>1 DEF Refusal, Running, Refused
<1> QED
  BY <1>2, <1>3, <1>4, <1>5, <1>6

\* A call that gives up.
LEMMA RefuseInv ==
    ASSUME EncodersInv, result = Running, Refuse, starved' \in BOOLEAN,
           starved' => todo[1].helper \in HeapHelpers,
           ~starved' => \/ SlotMissing(todo[1])
                        \/ todo[1].body + Spare(todo[1]) > FirstCap(todo[1])
    PROVE  EncodersInv'
<1> USE DEF EncodersInv
<1>1. /\ stage' = NoStage /\ result' = Refused
      /\ invocation' = invocation /\ todo' = todo /\ sent' = sent /\ torn' = torn
  BY DEF Refuse
<1>2. TypeOK'
  <2>1. stage'.p = 0 /\ stage'.cap = 0 /\ stage'.steps \in Seq(Step)
    BY <1>1 DEF NoStage
  <2> QED
    BY <1>1, <2>1 DEF TypeOK
<1>3. Calls'
  BY <1>1 DEF Calls
<1>4. AcceptedWhole'
  BY <1>1 DEF AcceptedWhole
<1>5. Progress'
  BY <1>1 DEF Progress, Running, Refused
<1>6. Refusal'
  <2>1. todo # <<>>
    BY DEF Progress
  <2> QED
    BY <1>1, <2>1, Zenon DEF Refusal
<1> QED
  BY <1>2, <1>3, <1>4, <1>5, <1>6

\* The call under way.
LEMMA Current ==
    ASSUME EncodersInv, result = Running
    PROVE  /\ todo # <<>> /\ starved = FALSE /\ UnderWay(stage, todo[1])
           /\ Sound(todo[1]) /\ todo[1] \in CallSet /\ Len(sent) \in Nat
           /\ Len(sent) + 1 \in 1 .. Len(invocation) /\ todo[1] = invocation[Len(sent) + 1]
           /\ Tail(todo) = SubSeq(invocation, (Len(sent) + 1) + 1, Len(invocation))
           /\ Tail(todo) \in Seq(CallSet) /\ Len(Tail(todo)) = Len(todo) - 1
<1>1. todo # <<>> /\ starved = FALSE /\ UnderWay(stage, todo[1])
  BY DEF EncodersInv, Progress
<1>2. /\ invocation \in Seq(CallSet) /\ todo \in Seq(CallSet) /\ sent \in Seq(SentSet)
      /\ todo = SubSeq(invocation, Len(sent) + 1, Len(invocation))
      /\ Len(sent) + Len(todo) = Len(invocation)
  BY DEF EncodersInv, Calls
<1>3. Len(sent) \in Nat
  BY <1>2, LenProperties
<1> QED
  BY <1>1, <1>2, <1>3, FirstTodo

LEMMA StepInv == EncodersInv /\ [Next]_vars => EncodersInv'
<1> SUFFICES ASSUME EncodersInv, [Next]_vars PROVE EncodersInv'
  OBVIOUS
<1>1. ASSUME NEW calls \in Invocations, Invoke(calls) PROVE EncodersInv'
  <2>1. /\ invocation' = calls /\ todo' = calls /\ sent' = <<>> /\ stage' = Stage(calls[1])
        /\ result' = Running /\ starved' = FALSE /\ torn' = FALSE
    BY <1>1 DEF Invoke
  <2>2. calls \in Seq(CallSet) /\ Len(calls) >= 1 /\ Len(calls) \in Nat
    BY InvocationShape, LenProperties
  <2>3. calls # <<>> /\ calls[1] \in CallSet
    BY <2>2, EmptySeq, ElementOfSeq
  <2>4. Sound(calls[1])
    BY <2>3, CallsSound
  <2>5. UnderWay(Stage(calls[1]), calls[1])
    BY <2>4, Begins
  <2>6. TypeOK'
    <3>1. stage'.p \in Nat /\ stage'.cap \in Nat /\ stage'.steps \in Seq(Step)
      BY <2>1, <2>4, SoundFacts DEF Stage
    <3>2. DOMAIN sent' = {}
      BY <2>1
    <3> QED
      BY <2>1, <3>1, <3>2 DEF TypeOK
  <2>7. Calls'
    <3>2. SubSeq(calls, 1, Len(calls)) = calls
      BY <2>2, SubSeqFull
    <3>3. Len(sent') = 0 /\ Len(sent') + 1 = 1 /\ 0 + Len(calls) = Len(calls)
      BY <2>1, <2>2
    <3>4. todo' = SubSeq(invocation', Len(sent') + 1, Len(invocation'))
      BY <2>1, <3>2, <3>3
    <3> QED
      BY <2>1, <2>2, <3>3, <3>4 DEF Calls
  <2>8. AcceptedWhole'
    BY <2>1 DEF AcceptedWhole
  <2>9. Progress'
    BY <2>1, <2>3, <2>5, Zenon DEF Progress
  <2>10. Refusal'
    BY <2>1 DEF Refusal, Running, Refused
  <2> QED
    BY <2>6, <2>7, <2>8, <2>9, <2>10 DEF EncodersInv
<1>2. CASE AllocateStaging
  <2>1. result = Running /\ stage.steps # <<>> /\ Head(stage.steps).op = "malloc"
    BY <1>2 DEF AllocateStaging, At
  <2>2. /\ UnderWay(stage, todo[1]) /\ Sound(todo[1])
    BY <2>1, Current
  <2>3. /\ todo[1].helper \in HeapHelpers
        /\ UnderWay(Go(stage.p, Head(stage.steps).n, Tail(stage.steps)), todo[1])
    BY <2>1, <2>2, MallocStep
  <2>4. CASE Proceed(stage.p, Amount)
    <3>1. stage.p \in Nat /\ Amount \in Nat
      BY <2>3 DEF UnderWay, Go, Amount
    <3> QED
      BY <2>1, <2>3, <2>4, <3>1, ProceedInv DEF Amount
  <2>5. CASE Refuse /\ starved' = TRUE
    BY <2>1, <2>3, <2>5, RefuseInv
  <2> QED
    BY <1>2, <2>4, <2>5 DEF AllocateStaging
<1>8. CASE RejectArgument
  <2>1. /\ result = Running /\ stage.steps # <<>> /\ Head(stage.steps).op = "reject"
        /\ Refuse /\ starved' = starved
    BY <1>8 DEF RejectArgument, At
  <2>2. UnderWay(stage, todo[1]) /\ Sound(todo[1]) /\ starved = FALSE
    BY <2>1, Current
  <2>3. SlotMissing(todo[1])
    BY <2>1, <2>2, RejectStep
  <2> QED
    BY <2>1, <2>2, <2>3, RefuseInv
<1>3. CASE CheckRoom
  <2>1. result = Running /\ stage.steps # <<>> /\ Head(stage.steps).op = "require"
    BY <1>3 DEF CheckRoom, At
  <2>2. UnderWay(stage, todo[1]) /\ Sound(todo[1]) /\ starved = FALSE
    BY <2>1, Current
  <2>3. IF stage.p + Amount > stage.cap
        THEN todo[1].body + Spare(todo[1]) > FirstCap(todo[1])
        ELSE UnderWay(Go(stage.p, stage.cap, Tail(stage.steps)), todo[1])
    BY <2>1, <2>2, RequireStep DEF Amount
  <2>4. CASE stage.p + Amount > stage.cap
    <3>1. Refuse /\ starved' = FALSE
      BY <1>3, <2>2, <2>4 DEF CheckRoom
    <3> QED
      BY <2>1, <2>3, <2>4, <3>1, RefuseInv
  <2>5. CASE ~(stage.p + Amount > stage.cap)
    <3>1. Proceed(stage.p, stage.cap) /\ stage.p \in Nat /\ stage.cap \in Nat
      BY <1>3, <2>2, <2>5 DEF CheckRoom, UnderWay
    <3> QED
      BY <2>1, <2>3, <2>5, <3>1, ProceedInv
  <2> QED
    BY <2>4, <2>5
<1>4. CASE EnlargeStaging
  <2>1. result = Running /\ stage.steps # <<>> /\ Head(stage.steps).op = "fit"
    BY <1>4 DEF EnlargeStaging, At
  <2>2. UnderWay(stage, todo[1]) /\ Sound(todo[1])
    BY <2>1, Current
  <2>3. /\ todo[1].helper \in HeapHelpers
        /\ IF stage.p + Amount > stage.cap
           THEN UnderWay(Go(stage.p, stage.p + Amount + 1024, Tail(stage.steps)), todo[1])
           ELSE UnderWay(Go(stage.p, stage.cap, Tail(stage.steps)), todo[1])
    BY <2>1, <2>2, FitStep DEF Amount
  <2>4. stage.p \in Nat /\ stage.cap \in Nat
    BY <2>2 DEF UnderWay
  <2>5. CASE stage.p + Amount > stage.cap /\ Proceed(stage.p, stage.p + Amount + 1024)
    <3> DEFINE cap == stage.p + Amount + 1024
    <3>1. UnderWay(Go(stage.p, cap, Tail(stage.steps)), todo[1])
      BY <2>3, <2>5
    <3>2. Proceed(stage.p, cap)
      BY <2>5
    <3> HIDE DEF cap
    <3>3. cap \in Nat
      BY <3>1 DEF UnderWay, Go
    <3> QED
      BY <2>1, <2>4, <3>1, <3>2, <3>3, ProceedInv
  <2>6. CASE Refuse /\ starved' = TRUE
    BY <2>1, <2>3, <2>6, RefuseInv
  <2>7. CASE ~(stage.p + Amount > stage.cap) /\ Proceed(stage.p, stage.cap)
    BY <2>1, <2>3, <2>4, <2>7, ProceedInv
  <2> QED
    BY <1>4, <2>5, <2>6, <2>7 DEF EnlargeStaging
<1>5. CASE WriteStaging
  <2>1. result = Running /\ stage.steps # <<>> /\ Head(stage.steps).op = "put"
    BY <1>5 DEF WriteStaging, At
  <2>2. UnderWay(stage, todo[1]) /\ Sound(todo[1])
    BY <2>1, Current
  <2> DEFINE p == stage.p + Amount
  <2>3. UnderWay(Go(p, stage.cap, Tail(stage.steps)), todo[1])
    BY <2>1, <2>2, PutStep DEF Amount
  <2>4. Proceed(p, stage.cap) /\ stage.cap \in Nat
    BY <1>5, <2>2 DEF WriteStaging, UnderWay
  <2> HIDE DEF p
  <2>5. p \in Nat
    BY <2>3 DEF UnderWay, Go
  <2> QED
    BY <2>1, <2>3, <2>4, <2>5, ProceedInv
<1>6. CASE Emit
  <2>0. PICK header \in {0, Header(todo[1])}, payload \in {0, stage.p} :
            /\ sent' = Append(sent, [type |-> todo[1].type, len |-> stage.p,
                                     header |-> header, payload |-> payload])
            /\ torn' = (torn \/ header # Header(todo[1]) \/ payload # stage.p)
    BY <1>6 DEF Emit
  <2> DEFINE k == Len(sent)
             e == [type |-> todo[1].type, len |-> stage.p,
                   header |-> header, payload |-> payload]
  <2>1. /\ result = Running /\ stage.steps = <<>> /\ sent' = Append(sent, e)
        /\ todo' = Tail(todo) /\ invocation' = invocation /\ starved' = starved
    BY <1>6, <2>0 DEF Emit
  <2>2. /\ todo # <<>> /\ starved = FALSE /\ UnderWay(stage, todo[1])
        /\ Sound(todo[1]) /\ todo[1] \in CallSet /\ k \in Nat
        /\ k + 1 \in 1 .. Len(invocation) /\ todo[1] = invocation[k + 1]
        /\ Tail(todo) = SubSeq(invocation, (k + 1) + 1, Len(invocation))
        /\ Tail(todo) \in Seq(CallSet) /\ Len(Tail(todo)) = Len(todo) - 1
    BY <2>1, Current
  <2>3. /\ invocation \in Seq(CallSet) /\ todo \in Seq(CallSet) /\ sent \in Seq(SentSet)
        /\ (invocation = <<>> \/ invocation \in Invocations)
        /\ k + Len(todo) = Len(invocation) /\ starved \in BOOLEAN /\ torn \in BOOLEAN
    BY DEF EncodersInv, Calls, TypeOK
  <2>4. ~Cuts(todo[1]) => stage.p = todo[1].body
    BY <2>1, <2>2, Finished
  <2>5. /\ e \in SentSet /\ stage.p \in Nat /\ header \in {0, 5} /\ header \in Nat
        /\ payload \in Nat
    <3>1. stage.p \in Nat /\ Header(todo[1]) \in {0, 5}
      BY <2>2 DEF UnderWay, Header
    <3>2. header \in {0, 5} /\ payload \in Nat
      BY <2>0, <3>1
    <3> QED
      BY <2>2, <3>1, <3>2 DEF SentSet
  <2>6. /\ sent' \in Seq(SentSet) /\ Len(sent') = k + 1 /\ sent'[k + 1] = e
        /\ \A i \in 1 .. k : sent'[i] = sent[i]
    BY <2>1, <2>3, <2>5, AppendProperties
  <2>a. /\ e.type = todo[1].type /\ e.len = stage.p /\ e.header = header
        /\ e.payload = payload
    OBVIOUS
  <2>b. torn' \in BOOLEAN /\ (~torn' => ~torn /\ header = Header(todo[1]) /\ payload = stage.p)
    BY <2>0, <2>3
  <2> HIDE DEF k, e
  <2>c. \A i \in DOMAIN sent' :
            /\ sent'[i].len \in Nat
            /\ sent'[i].header \in {0, 5} /\ sent'[i].payload \in {0, sent'[i].len}
    <3> TAKE i \in DOMAIN sent'
    <3>1. i \in 1 .. k + 1 /\ DOMAIN sent = 1 .. k
      BY <2>3, <2>6, LenProperties DEF k
    <3>2. CASE i = k + 1
      BY <2>0, <2>5, <2>6, <2>a, <3>2
    <3>3. CASE i # k + 1
      <4>1. i \in 1 .. k
        BY <2>2, <3>1, <3>3
      <4> QED
        BY <2>6, <3>1, <4>1 DEF EncodersInv, TypeOK
    <3> QED
      BY <3>2, <3>3
  <2>8. AcceptedWhole'
    <3> SUFFICES ASSUME NEW i \in DOMAIN sent'
                 PROVE  LET call == invocation[i]
                        IN  /\ sent'[i].type = call.type
                            /\ ~Cuts(call) =>
                                   /\ sent'[i].len = call.body
                                   /\ ~torn' => sent'[i].header + sent'[i].payload
                                                  = Header(call) + call.body
      BY <2>1 DEF AcceptedWhole
    <3>1. i \in 1 .. k + 1 /\ DOMAIN sent = 1 .. k
      BY <2>3, <2>6, LenProperties DEF k
    <3>2. CASE i = k + 1
      BY <2>2, <2>4, <2>6, <2>a, <2>b, <3>2
    <3>3. CASE i # k + 1
      <4>1. i \in 1 .. k
        BY <2>2, <3>1, <3>3
      <4> QED
        BY <2>6, <2>b, <3>1, <4>1 DEF EncodersInv, AcceptedWhole
    <3> QED
      BY <3>2, <3>3
  <2>9. /\ Len(sent') + Len(todo') = Len(invocation')
        /\ todo' = SubSeq(invocation', Len(sent') + 1, Len(invocation'))
    <3>1. Len(todo) \in Nat
      BY <2>3, LenProperties
    <3>2. Len(sent') + Len(todo') = Len(invocation')
      BY <2>1, <2>2, <2>3, <2>6, <3>1
    <3> QED
      BY <2>1, <2>2, <2>6, <3>2
  <2>7. Calls'
    BY <2>1, <2>2, <2>3, <2>6, <2>9 DEF Calls
  <2>10. CASE todo' = <<>>
    <3>1. stage' = NoStage /\ result' = Accepted
      BY <1>6, <2>10 DEF Emit
    <3>2. stage'.p = 0 /\ stage'.cap = 0 /\ stage'.steps \in Seq(Step)
      BY <3>1 DEF NoStage
    <3>3. TypeOK'
      <4>1. /\ stage'.p \in Nat /\ stage'.cap \in Nat
            /\ result' \in {Running, Accepted, Refused} /\ starved' \in BOOLEAN
        BY <2>1, <2>3, <3>1, <3>2
      <4> QED
        BY <2>b, <2>c, <3>2, <4>1, Zenon DEF TypeOK
    <3>4. Progress' /\ Refusal'
      BY <3>1 DEF Progress, Refusal, Running, Accepted, Refused
    <3> QED
      BY <2>7, <2>8, <3>3, <3>4 DEF EncodersInv
  <2>11. CASE todo' # <<>>
    <3>1. stage' = Stage(todo'[1]) /\ result' = Running
      BY <1>6, <2>1, <2>11 DEF Emit
    <3>2. todo' \in Seq(CallSet)
      BY <2>1, <2>2
    <3>3. todo'[1] \in CallSet
      BY <2>11, <3>2, EmptySeq, ElementOfSeq, LenProperties
    <3>4. Sound(todo'[1])
      BY <3>3, CallsSound
    <3>5. UnderWay(stage', todo'[1])
      BY <3>1, <3>4, Begins
    <3>6. stage'.p \in Nat /\ stage'.cap \in Nat /\ stage'.steps \in Seq(Step)
      BY <3>5 DEF UnderWay
    <3>7. TypeOK'
      BY <2>1, <2>3, <2>b, <2>c, <3>1, <3>6 DEF TypeOK
    <3>8. Progress'
      BY <2>1, <2>2, <2>11, <3>5, Zenon DEF Progress
    <3>9. Refusal'
      BY <3>1 DEF Refusal, Running, Refused
    <3> QED
      BY <2>7, <2>8, <3>7, <3>8, <3>9 DEF EncodersInv
  <2> QED
    BY <2>10, <2>11
<1>7. CASE UNCHANGED vars
  <2>1. /\ invocation' = invocation /\ todo' = todo /\ sent' = sent /\ stage' = stage
        /\ result' = result /\ starved' = starved /\ torn' = torn
    BY <1>7 DEF vars
  <2>2. TypeOK' /\ Calls' /\ AcceptedWhole'
    BY <2>1 DEF EncodersInv, TypeOK, Calls, AcceptedWhole
  <2>3. Progress' /\ Refusal'
    BY <2>1, Zenon DEF EncodersInv, Progress, Refusal
  <2> QED
    BY <2>2, <2>3 DEF EncodersInv
<1> QED
  BY <1>1, <1>2, <1>3, <1>4, <1>5, <1>6, <1>7, <1>8 DEF Next

-----------------------------------------------------------------------------
(* The theorems.                                                           *)

\* The invariant that the others follow from.
LEMMA InvCorrect == Spec => []EncodersInv
BY InitInv, StepInv, PTL DEF Spec

\* No helper ever counts with a negative amount of bytes, whatever lengths an
\* application passes: the -1 of a NULL never reaches a malloc or a memcpy.
THEOREM TypeCorrect == Spec => []TypeOK
<1>1. EncodersInv => TypeOK
  BY DEF EncodersInv
<1> QED
  BY <1>1, InvCorrect, PTL

\* No send helper writes beyond its staging buffer, with texts and values of
\* any length; pqwire_send_startup by no more than the eight bytes.
THEOREM BoundsCorrect == Spec => []EncodersInBounds
<1>1. EncodersInv => EncodersInBounds
  <2> SUFFICES ASSUME EncodersInv, result = Running
               PROVE  stage.p <= stage.cap + Overshoot(todo[1])
    BY DEF EncodersInBounds
  <2> QED
    BY Current, Finished
<1> QED
  BY <1>1, InvCorrect, PTL

\* A message that is accepted announces the length of all that was asked for
\* and is whole in the output unless that found no memory; the three cuts are
\* the exceptions.
THEOREM WholeCorrect == Spec => []AcceptedWhole
<1>1. EncodersInv => AcceptedWhole
  BY DEF EncodersInv
<1> QED
  BY <1>1, InvCorrect, PTL

\* No check refuses a message that fits into the buffer of its helper.
THEOREM FittingCorrect == Spec => []FittingMessagesAccepted
<1>1. EncodersInv => FittingMessagesAccepted
  BY Zenon DEF EncodersInv, Refusal, FittingMessagesAccepted
<1> QED
  BY <1>1, InvCorrect, PTL

\* pqwire_send_unnamed_pipeline fails in its Parse or in its Bind, never after
\* it: the Execute and the Sync of a pipeline always fit.
THEOREM PipelineCorrect == Spec => []PipelineBreaksBeforeBind
<1>1. EncodersInv => PipelineBreaksBeforeBind
  <2> SUFFICES ASSUME EncodersInv, result = Refused, Len(invocation) > 1
               PROVE  sent = <<>> \/ (Len(sent) = 1 /\ sent[1].type = "P")
    BY DEF PipelineBreaksBeforeBind
  <2> DEFINE k == Len(sent)
  <2>1. /\ invocation \in Seq(CallSet) /\ todo \in Seq(CallSet) /\ sent \in Seq(SentSet)
        /\ todo = SubSeq(invocation, k + 1, Len(invocation))
        /\ k + Len(todo) = Len(invocation)
        /\ (invocation = <<>> \/ invocation \in Invocations)
    BY DEF EncodersInv, Calls
  <2>2. PipelineOf(invocation)
    <3>1. invocation # <<>>
      BY EmptySeq
    <3> QED
      BY <2>1, <3>1, InvocationShape
  <2>3. /\ Len(invocation) = 4 /\ invocation[1].type = "P"
        /\ invocation[3] = SendExecute(0) /\ invocation[4] = SendEmpty("S")
    BY <2>2 DEF PipelineOf
  <2>4. /\ todo # <<>> /\ starved => todo[1].helper \in HeapHelpers
        /\ ~starved => \/ SlotMissing(todo[1])
                       \/ todo[1].body + Spare(todo[1]) > FirstCap(todo[1])
    BY DEF EncodersInv, Refusal
  <2>5. k \in Nat /\ DOMAIN sent = 1 .. k /\ (k = 0 => sent = <<>>)
    BY <2>1, EmptySeq, LenProperties
  <2>6. todo # <<>> /\ starved \in BOOLEAN
    BY DEF EncodersInv, Refusal, TypeOK
  <2>7. k + 1 \in 1 .. 4 /\ todo[1] = invocation[k + 1]
    BY <2>1, <2>3, <2>5, <2>6, FirstTodo
  <2> HIDE DEF k
  <2>8. \/ todo[1].helper \in HeapHelpers
        \/ SlotMissing(todo[1])
        \/ todo[1].body + Spare(todo[1]) > FirstCap(todo[1])
    BY <2>4, <2>6
  <2>9. k # 2
    <3> SUFFICES ASSUME k = 2 PROVE FALSE
      OBVIOUS
    <3>1. todo[1] = SendExecute(0)
      BY <2>3, <2>7
    <3>2. /\ SendExecute(0).helper = "send_execute" /\ SendExecute(0).body = 5
          /\ SendExecute(0).cap = 72
      BY DEF SendExecute, Helper
    <3>3. Spare(SendExecute(0)) = 0 /\ FirstCap(SendExecute(0)) = 72
      BY <3>2 DEF Spare, FirstCap
    <3> QED
      BY <2>8, <3>1, <3>2, <3>3 DEF HeapHelpers, SlotMissing
  <2>10. k # 3
    <3> SUFFICES ASSUME k = 3 PROVE FALSE
      OBVIOUS
    <3>1. todo[1] = SendEmpty("S")
      BY <2>3, <2>7
    <3>2. /\ SendEmpty("S").helper = "send_empty" /\ SendEmpty("S").body = 0
          /\ SendEmpty("S").cap = 0 /\ SendEmpty("S").steps = <<Put(0)>>
      BY DEF SendEmpty, Direct, Helper
    <3>3. Spare(SendEmpty("S")) = 0 /\ FirstCap(SendEmpty("S")) = 0
      BY <3>2 DEF Spare, FirstCap, Put
    <3> QED
      BY <2>8, <3>1, <3>2, <3>3 DEF HeapHelpers, SlotMissing
  <2>11. k = 0 \/ k = 1
    BY <2>5, <2>7, <2>9, <2>10
  <2>12. CASE k = 1
    <3>1. 1 \in DOMAIN sent
      BY <2>5, <2>12
    <3> QED
      BY <2>3, <2>12, <3>1 DEF EncodersInv, AcceptedWhole, k
  <2> QED
    BY <2>5, <2>11, <2>12
<1> QED
  BY <1>1, InvCorrect, PTL

=============================================================================
