---------------------------- MODULE ParamProofs ----------------------------
(***************************************************************************)
(* What holds of the decoder of Bind messages and of the owned parameters,  *)
(* for every body, every array size and every outcome of malloc.            *)
(***************************************************************************)
EXTENDS ParamOwnership, NatRecursion, FiniteSetTheorems, SequenceTheorems

-----------------------------------------------------------------------------
(* The decoder.                                                            *)

Bodies == Seq(0 .. 255)
Words == {n \in Nat : Word(n)}

LEMMA AfterCstrType ==
    ASSUME NEW body \in Bodies, NEW off \in Nat
    PROVE  AfterCstr(body, off) = Absent \/ AfterCstr(body, off) \in Nat
<1> DEFINE ends == {k \in off .. Len(body) - 1 : body[k + 1] = 0}
<1>1. ends \subseteq Nat
  BY DEF Bodies
<1>2. CASE ends = {}
  BY <1>2 DEF AfterCstr
<1>3. CASE ends # {}
  <2>1. \E k \in ends : \A l \in ends : k <= l
    BY <1>1, <1>3, LeastNatural
  <2> DEFINE first == CHOOSE k \in ends : \A l \in ends : k <= l
  <2>2. first \in ends
    <3> HIDE DEF ends
    <3> QED
      BY <2>1
  <2>3. AfterCstr(body, off) = 1 + first
    BY <1>3 DEF AfterCstr
  <2>4. first \in Nat
    BY <1>1, <2>2
  <2> QED
    <3> HIDE DEF first
    <3> QED
      BY <2>3, <2>4
<1> QED
  BY <1>2, <1>3

LEMMA ReadCountType ==
    ASSUME NEW body \in Bodies, NEW off \in Nat, off + 2 <= Len(body)
    PROVE  /\ rd16_be(body, off) \in Nat /\ Word(rd16_be(body, off))
           /\ ReadCount(body, off) \in 0 .. PQWIRE_MAX_BIND_PARAMS
<1>1. off + 1 \in 1 .. Len(body) /\ off + 2 \in 1 .. Len(body)
  BY DEF Bodies
<1>2. body[off + 1] \in 0 .. 255 /\ body[off + 2] \in 0 .. 255
  BY <1>1, ElementOfSeq DEF Bodies
<1>3. rd16_be(body, off) \in Nat /\ Word(rd16_be(body, off))
  <2>1. \A a, b \in 0 .. 255 : a * 256 + b \in Nat /\ a * 256 + b < 256 * 256
    OBVIOUS
  <2> QED
    BY <1>2, <2>1 DEF rd16_be, Word
<1> QED
  BY <1>3, BindCodecAssumption DEF ReadCount, Least

LEMMA ReadNumbersType ==
    ASSUME NEW body \in Bodies, NEW off \in Nat, off + 2 <= Len(body)
    PROVE  /\ ReadNumbers(body, off).off \in Nat
           /\ ReadNumbers(body, off).list \in Seq(Words)
           /\ Len(ReadNumbers(body, off).list) <= PQWIRE_MAX_BIND_PARAMS
<1> DEFINE left == (Len(body) - off - 2) \div 2
           n == ReadCount(body, off)
           k == Least(n, left)
           list == [j \in 1 .. n |-> IF j <= k THEN rd16_be(body, off + 2 * j) ELSE 0]
<1>1. Len(body) \in Nat
  BY DEF Bodies
<1>2. left \in Nat /\ 2 * left <= Len(body) - off - 2
  BY <1>1
<1>3. n \in Nat /\ n <= PQWIRE_MAX_BIND_PARAMS
  BY ReadCountType, BindCodecAssumption
<1>4. ReadNumbers(body, off) = [list |-> list, off |-> off + 2 + 2 * k]
  BY DEF ReadNumbers
<1> HIDE DEF left, n
<1>5. k \in Nat /\ k <= left
  BY <1>2, <1>3 DEF Least
<1> HIDE DEF k
<1>6. ASSUME NEW j \in 1 .. n
      PROVE  (IF j <= k THEN rd16_be(body, off + 2 * j) ELSE 0) \in Words
  <2>1. CASE j <= k
    <3>1. off + 2 * j \in Nat /\ off + 2 * j + 2 <= Len(body)
      BY <1>1, <1>2, <1>3, <1>5, <2>1
    <3> QED
      BY <2>1, <3>1, ReadCountType DEF Words
  <2>2. CASE ~(j <= k)
    <3>1. 0 \in Words
      BY DEF Words, Word
    <3> QED
      BY <2>2, <3>1
  <2> QED
    BY <2>1, <2>2
<1>7. list \in [1 .. n -> Words]
  BY <1>6
<1> HIDE DEF list
<1>8. list \in Seq(Words) /\ Len(list) = n
  BY <1>3, <1>7
<1> QED
  BY <1>3, <1>4, <1>5, <1>8

LEMMA FormatOfType ==
    ASSUME NEW formats \in Seq(Words), NEW k \in Nat \ {0}
    PROVE  FormatOf(formats, k) \in Words /\ 0 \in Words
<1>1. 0 \in Words
  BY DEF Words, Word
<1>2. Len(formats) \in Nat /\ \A j \in 1 .. Len(formats) : formats[j] \in Words
  OBVIOUS
<1> QED
  BY <1>1, <1>2 DEF FormatOf

LEMMA rd32Type ==
    ASSUME NEW body \in Bodies, NEW off \in Nat, off + 4 <= Len(body)
    PROVE  FitsInt32(rd32_be(body, off)) /\ rd32_be(body, off) \in Int
<1>1. /\ off + 1 \in 1 .. Len(body) /\ off + 2 \in 1 .. Len(body)
      /\ off + 3 \in 1 .. Len(body) /\ off + 4 \in 1 .. Len(body)
  BY DEF Bodies
<1>2. /\ body[off + 1] \in 0 .. 255 /\ body[off + 2] \in 0 .. 255
      /\ body[off + 3] \in 0 .. 255 /\ body[off + 4] \in 0 .. 255
  BY <1>1, ElementOfSeq DEF Bodies
<1>3. (256 * 256 * 256) \in Int /\ (256 * 256) \in Int
  OBVIOUS
<1>4. PICK b1 \in 0 .. 255, b2 \in 0 .. 255, b3 \in 0 .. 255, b4 \in 0 .. 255 :
          /\ body[off + 1] = b1 /\ body[off + 2] = b2
          /\ body[off + 3] = b3 /\ body[off + 4] = b4
  BY <1>2
<1> DEFINE high == IF b1 < 128 THEN b1 ELSE b1 - 256
<1>5. rd32_be(body, off) = high * (256 * 256 * 256) + b2 * (256 * 256) + b3 * 256 + b4
  BY <1>4 DEF rd32_be
<1>6. high \in Int /\ -128 <= high /\ high < 128
  OBVIOUS
<1> HIDE DEF high
<1> DEFINE low == b2 * (256 * 256) + b3 * 256 + b4
           n == high * (256 * 256 * 256) + low
<1>7. low \in Int /\ 0 <= low /\ low < 256 * 256 * 256
  BY SMT
<1>8. high * (256 * 256 * 256) + b2 * (256 * 256) + b3 * 256 + b4 = n
  BY <1>6, SMT
<1> HIDE DEF low
<1>9. n \div (256 * 256 * 256) = high /\ n \in Int
  BY <1>6, <1>7, SMT
<1> HIDE DEF n
<1>10. FitsInt32(n)
  BY <1>6, <1>9, SMT DEF FitsInt32
<1> QED
  BY <1>5, <1>8, <1>9, <1>10, Zenon

LEMMA FitsZero == FitsInt32(0)
BY SMT DEF FitsInt32

\* The views that the parameter loop has produced so far: as many as it has
\* been round, each inside the body.
Inside(v, body) ==
    /\ v.length \in Int /\ FitsInt32(v.length) /\ v.off \in Nat
    /\ v.length > 0 => v.off + v.length <= Len(body)
Views(formats, n) ==
    [length : Int, off : Nat, format : {0} \cup {FormatOf(formats, k) : k \in 1 .. n}]
Accumulators(formats, n) ==
    [ok : BOOLEAN, off : Nat, views : Seq(Views(formats, n))]
AllInside(acc, body, k) ==
    /\ Len(acc.views) <= k
    /\ \A j \in 1 .. Len(acc.views) : Inside(acc.views[j], body)

LEMMA ReadParamStep ==
    ASSUME NEW body \in Bodies, NEW formats, NEW n \in Nat, NEW k \in 1 .. n,
           NEW acc \in Accumulators(formats, n)
    PROVE  /\ ReadParam(body, formats, acc, k) \in Accumulators(formats, n)
           /\ AllInside(acc, body, k - 1) =>
                  AllInside(ReadParam(body, formats, acc, k), body, k)
<1> DEFINE next == ReadParam(body, formats, acc, k)
           V == Views(formats, n)
<1>0. /\ acc.ok \in BOOLEAN /\ acc.off \in Nat /\ acc.views \in Seq(V)
      /\ Len(body) \in Nat
  BY DEF Accumulators, Bodies
\* A view that is inside the body may be appended.
<1>1. ASSUME NEW v \in V, Inside(v, body), NEW ok \in BOOLEAN, NEW off \in Nat,
             next = [ok |-> ok, off |-> off, views |-> Append(acc.views, v)]
      PROVE  /\ next \in Accumulators(formats, n)
             /\ AllInside(acc, body, k - 1) => AllInside(next, body, k)
  <2> DEFINE vs == Append(acc.views, v)
  <2>1. /\ vs \in Seq(V) /\ Len(vs) = Len(acc.views) + 1 /\ Len(acc.views) \in Nat
        /\ \A j \in 1 .. Len(acc.views) : vs[j] = acc.views[j]
        /\ vs[Len(acc.views) + 1] = v
    BY <1>0
  <2> HIDE DEF vs
  <2>2. next = [ok |-> ok, off |-> off, views |-> vs]
    BY <1>1 DEF vs
  <2> HIDE DEF next, V
  <2>3. next.views = vs /\ next \in Accumulators(formats, n)
    BY <2>1, <2>2 DEF Accumulators, V
  <2>4. ASSUME AllInside(acc, body, k - 1)
        PROVE  AllInside(next, body, k)
    <3>1. Len(vs) <= k
      BY <2>1, <2>4 DEF AllInside
    <3>2. ASSUME NEW j \in 1 .. Len(vs)
          PROVE  Inside(vs[j], body)
      <4>1. CASE j \in 1 .. Len(acc.views)
        BY <2>1, <2>4, <4>1 DEF AllInside
      <4>2. CASE j = Len(acc.views) + 1
        BY <1>1, <2>1, <4>2
      <4> QED
        BY <2>1, <4>1, <4>2
    <3> QED
      BY <2>3, <3>1, <3>2 DEF AllInside
  <2> QED
    BY <2>3, <2>4
<1>2. CASE ~acc.ok \/ acc.off + 4 > Len(body)
  <2>1. Unread \in V /\ Inside(Unread, body)
    BY <1>0, FitsZero DEF Unread, View, Views, Inside
  <2>2. acc = [ok |-> acc.ok, off |-> acc.off, views |-> acc.views]
    BY DEF Accumulators
  <2>3. next = [acc EXCEPT !.views = Append(acc.views, Unread)]
    BY <1>2 DEF ReadParam
  <2>4. next = [ok |-> acc.ok, off |-> acc.off, views |-> Append(acc.views, Unread)]
    <3> HIDE DEF next
    <3> QED
      BY <2>2, <2>3
  <2> QED
    BY <1>0, <1>1, <2>1, <2>4
<1>3. CASE ~(~acc.ok \/ acc.off + 4 > Len(body))
  <2> DEFINE plen == rd32_be(body, acc.off)
             off == acc.off + 4
  <2>1. plen \in Int /\ FitsInt32(plen) /\ off \in Nat
    BY <1>0, <1>3, rd32Type
  <2>2. CASE plen > Len(body) - off
    <3>1. next = [acc EXCEPT !.ok = FALSE]
      BY <1>3, <2>2 DEF ReadParam
    <3> HIDE DEF next
    <3>2. acc = [ok |-> acc.ok, off |-> acc.off, views |-> acc.views]
      BY DEF Accumulators
    <3>3. next = [ok |-> FALSE, off |-> acc.off, views |-> acc.views]
      BY <3>1, <3>2
    <3>4. next \in Accumulators(formats, n) /\ next.views = acc.views
      BY <1>0, <3>3 DEF Accumulators
    <3>5. Len(acc.views) \in Nat
      BY <1>0
    <3>6. AllInside(acc, body, k - 1) => AllInside(next, body, k)
      BY <3>4, <3>5 DEF AllInside
    <3> QED
      BY <3>4, <3>6 DEF next
  <2>3. CASE ~(plen > Len(body) - off)
    <3> DEFINE v == View(plen, off, FormatOf(formats, k))
               o == IF plen < 0 THEN off ELSE off + plen
    <3>1. next = [ok |-> TRUE, off |-> o, views |-> Append(acc.views, v)]
      BY <1>3, <2>3 DEF ReadParam
    <3> HIDE DEF plen, off
    <3>2. o \in Nat
      BY <2>1
    <3>3. v \in V
      BY <2>1 DEF View, Views
    <3>4. v.length = plen /\ v.off = off
      BY DEF View
    <3> HIDE DEF v
    <3>5. Inside(v, body)
      BY <1>0, <2>1, <2>3, <3>4 DEF Inside
    <3> HIDE DEF o
    <3> QED
      BY <1>1, <3>1, <3>2, <3>3, <3>5
  <2> QED
    BY <2>2, <2>3
<1> QED
  BY <1>2, <1>3

\* The loop as a whole, one iteration after the other.
Base(off) == [ok |-> TRUE, off |-> off + 2, views |-> <<>>]
Loop(f, body, off, formats) ==
    LET n == ReadCount(body, off)
    IN  /\ ReadParams(body, off, formats) = f[n]
        /\ f[0] = Base(off)
        /\ \A k \in 1 .. n : f[k] = ReadParam(body, formats, f[k - 1], k)
LEMMA ReadParamsEquation ==
    ASSUME NEW body \in Bodies, NEW off \in Nat, off + 2 <= Len(body), NEW formats
    PROVE  /\ Base(off) \in Accumulators(formats, ReadCount(body, off))
           /\ AllInside(Base(off), body, 0)
           /\ \E f : Loop(f, body, off, formats)
<1> DEFINE n == ReadCount(body, off)
           V == Accumulators(formats, n)
           base == Base(off)
           step == [p \in V \X (1 .. n) |-> ReadParam(body, formats, p[1], p[2])]
           body_of(f) == [k \in 0 .. n |-> IF k = 0 THEN base
                                          ELSE ReadParam(body, formats, f[k - 1], k)]
<1>1. n \in Nat /\ n <= PQWIRE_MAX_BIND_PARAMS /\ PQWIRE_MAX_BIND_PARAMS \in Nat
  BY ReadCountType, BindCodecAssumption
<1> DEFINE f0 == CHOOSE g : g = body_of(g)
<1>2. ReadParams(body, off, formats) = f0[n]
  BY DEF ReadParams, Base
<1> HIDE DEF n
<1>3. base \in V /\ AllInside(base, body, 0)
  <2>1. <<>> \in Seq(Views(formats, n)) /\ Len(<<>>) = 0 /\ off + 2 \in Nat
    OBVIOUS
  <2>2. base.views = <<>>
    BY DEF Base
  <2>3. base \in V
    BY <2>1 DEF Accumulators, Base
  <2>4. AllInside(base, body, 0)
    BY <2>1, <2>2 DEF AllInside
  <2> QED
    BY <2>3, <2>4
<1> HIDE DEF base
<1>4. \A a \in V, k \in 1 .. n :
          /\ ReadParam(body, formats, a, k) \in V
          /\ AllInside(a, body, k - 1) =>
                 AllInside(ReadParam(body, formats, a, k), body, k)
  BY <1>1, ReadParamStep
<1> HIDE DEF V
<1>5. step \in [V \X (1 .. n) -> V]
  <2> SUFFICES ASSUME NEW p \in V \X (1 .. n)
               PROVE  ReadParam(body, formats, p[1], p[2]) \in V
    OBVIOUS
  <2>1. p[1] \in V /\ p[2] \in 1 .. n
    OBVIOUS
  <2> QED
    BY <1>4, <2>1
<1>6. \A a \in V, k \in 1 .. n : step[<<a, k>>] = ReadParam(body, formats, a, k)
  OBVIOUS
<1> HIDE DEF step
<1>7. PICK f \in [0 .. n -> V] : IsRecursion(f, n, base, step)
  BY <1>1, <1>3, <1>5, RecursionExists
<1>8. f[0] = base /\ \A k \in 1 .. n : f[k] = ReadParam(body, formats, f[k - 1], k)
  <2>1. f[0] = base
    BY <1>7 DEF IsRecursion
  <2>2. ASSUME NEW k \in 1 .. n
        PROVE  f[k] = ReadParam(body, formats, f[k - 1], k)
    <3>1. f[k] = step[<<f[k - 1], k>>]
      BY <1>7 DEF IsRecursion
    <3>2. k - 1 \in 0 .. n
      BY <1>1
    <3> QED
      BY <1>6, <3>1, <3>2
  <2> QED
    BY <2>1, <2>2
<1>9. f = body_of(f)
  <2>1. ASSUME NEW k \in 0 .. n
        PROVE  f[k] = IF k = 0 THEN base ELSE ReadParam(body, formats, f[k - 1], k)
    BY <1>1, <1>8
  <2> QED
    BY <2>1
<1>10. f0 = body_of(f0)
  <2> HIDE DEF body_of
  <2> QED
    BY <1>9, Zenon
<1> HIDE DEF f0
<1>11. \A k \in 0 .. n : f0[k] = IF k = 0 THEN base
                                  ELSE ReadParam(body, formats, f0[k - 1], k)
  <2>1. \A k \in 0 .. n : body_of(f0)[k] = IF k = 0 THEN base
                                         ELSE ReadParam(body, formats, f0[k - 1], k)
    OBVIOUS
  <2> HIDE DEF body_of
  <2> QED
    BY <1>10, <2>1
<1>12. f0[0] = base /\ \A k \in 1 .. n : f0[k] = ReadParam(body, formats, f0[k - 1], k)
  <2>1. 0 \in 0 .. n /\ \A k \in 1 .. n : k \in 0 .. n /\ k # 0
    BY <1>1
  <2> QED
    BY <1>11, <2>1
<1>13. Loop(f0, body, off, formats)
  BY <1>2, <1>12 DEF Loop, n, base
<1> QED
  BY <1>3, <1>13 DEF V, n, base

\* By induction on the number of its iterations.
LEMMA ReadParamsInside ==
    ASSUME NEW body \in Bodies, NEW off \in Nat, off + 2 <= Len(body), NEW formats
    PROVE  /\ ReadParams(body, off, formats).views \in Seq(Views(formats, ReadCount(body, off)))
           /\ ReadParams(body, off, formats).off \in Nat
           /\ AllInside(ReadParams(body, off, formats), body, PQWIRE_MAX_BIND_PARAMS)
<1> DEFINE n == ReadCount(body, off)
           V == Accumulators(formats, n)
           base == Base(off)
<1>1. n \in Nat /\ n <= PQWIRE_MAX_BIND_PARAMS /\ PQWIRE_MAX_BIND_PARAMS \in Nat
  BY ReadCountType, BindCodecAssumption
<1>2. base \in V /\ AllInside(base, body, 0)
  BY ReadParamsEquation
<1>3. PICK f0 : Loop(f0, body, off, formats)
  BY ReadParamsEquation
<1>4. \A a \in V, k \in 1 .. n :
          /\ ReadParam(body, formats, a, k) \in V
          /\ AllInside(a, body, k - 1) =>
                 AllInside(ReadParam(body, formats, a, k), body, k)
  BY <1>1, ReadParamStep
<1>5. /\ ReadParams(body, off, formats) = f0[n]
      /\ f0[0] = base
      /\ \A k \in 1 .. n : f0[k] = ReadParam(body, formats, f0[k - 1], k)
  BY <1>3 DEF Loop
<1> HIDE DEF n, V, base
<1> DEFINE S == {k \in Nat : k <= n => f0[k] \in V /\ AllInside(f0[k], body, k)}
<1>6. 0 \in S
  BY <1>1, <1>2, <1>5
<1>7. ASSUME NEW k \in Nat, k \in S
       PROVE  k + 1 \in S
  <2> SUFFICES ASSUME k + 1 <= n
               PROVE  f0[k + 1] \in V /\ AllInside(f0[k + 1], body, k + 1)
    OBVIOUS
  <2>1. k + 1 \in 0 .. n /\ k + 1 # 0 /\ (k + 1) - 1 = k /\ k + 1 \in 1 .. n /\ k <= n
    BY <1>1
  <2>2. f0[k] \in V /\ AllInside(f0[k], body, k)
    BY <1>7, <2>1
  <2>3. f0[k + 1] = ReadParam(body, formats, f0[k], k + 1)
    BY <1>5, <2>1
  <2> QED
    BY <1>4, <2>1, <2>2, <2>3
<1> HIDE DEF S
<1>8. Nat \subseteq S
  BY <1>6, <1>7, SetInduction
<1>9. f0[n] \in V /\ AllInside(f0[n], body, n)
  BY <1>1, <1>8 DEF S
<1>10. f0[n].views \in Seq(Views(formats, n)) /\ f0[n].off \in Nat
  BY <1>9 DEF V, Accumulators
<1>11. AllInside(f0[n], body, PQWIRE_MAX_BIND_PARAMS)
  BY <1>1, <1>9, <1>10 DEF AllInside
<1> QED
  BY <1>5, <1>10, <1>11 DEF n

\* parse_bind_msg never hands out more views than the event has room for,
\* nor one that leaves the body.
LEMMA ParseBindInside ==
    ASSUME NEW body \in Bodies, parse_bind_msg(body).event
    PROVE  LET params == parse_bind_msg(body).params
               results == parse_bind_msg(body).result_formats
               formats == parse_bind_msg(body).formats
           IN  /\ results \in Seq(Words) /\ Len(results) <= PQWIRE_MAX_BIND_PARAMS
               /\ formats \in Seq(Words)
               /\ \A k \in 1 .. Len(params) : params[k].format \in Words
               /\ Len(params) \in 0 .. PQWIRE_MAX_BIND_PARAMS
               /\ DOMAIN params = 1 .. Len(params)
               /\ \A k \in 1 .. Len(params) : Inside(params[k], body)
<1> DEFINE portal == AfterCstr(body, 0)
           names == IF portal = Absent THEN Absent ELSE AfterCstr(body, portal)
           formats == ReadNumbers(body, names)
           params == ReadParams(body, formats.off, formats.list)
           refused == \/ ~Room(body, names)
                      \/ ~Room(body, formats.off)
                      \/ ~params.ok
           results == IF Room(body, params.off) THEN ReadNumbers(body, params.off).list
                      ELSE <<>>
           event == [event |-> TRUE,
                     formats |-> formats.list,
                     params |-> params.views,
                     result_formats |-> results]
<1>1. parse_bind_msg(body) = IF refused THEN NoBind ELSE event
  BY DEF parse_bind_msg
<1>2. /\ ~refused /\ parse_bind_msg(body).params = params.views
      /\ parse_bind_msg(body).result_formats = results
      /\ parse_bind_msg(body).formats = formats.list
  <2> HIDE DEF refused
  <2>1. ~refused
    BY <1>1 DEF NoBind
  <2>2. parse_bind_msg(body) = event
    BY <1>1, <2>1
  <2> HIDE DEF params, formats, results
  <2>3. event.params = params.views /\ event.result_formats = results /\ event.formats = formats.list
    OBVIOUS
  <2> QED
    BY <2>1, <2>2, <2>3
<1>3. Room(body, names) /\ Room(body, formats.off)
  BY <1>2
<1>4. names \in Nat /\ names + 2 <= Len(body)
  <2>1. portal = Absent \/ portal \in Nat
    BY AfterCstrType
  <2>2. names = Absent \/ names \in Nat
    BY <2>1, AfterCstrType
  <2> HIDE DEF names
  <2> QED
    BY <1>3, <2>2 DEF Room
<1> HIDE DEF names
<1>5. formats.off \in Nat /\ formats.off + 2 <= Len(body)
  BY <1>3, <1>4, ReadNumbersType DEF Room
<1> DEFINE fl == formats.list
           fo == formats.off
<1>6. params = ReadParams(body, fo, fl)
  OBVIOUS
<1>7. /\ ReadParams(body, fo, fl).views \in Seq(Views(fl, ReadCount(body, fo)))
      /\ ReadParams(body, fo, fl).off \in Nat
      /\ AllInside(ReadParams(body, fo, fl), body, PQWIRE_MAX_BIND_PARAMS)
  <2> HIDE DEF formats
  <2> QED
    BY <1>5, ReadParamsInside
<1>8. /\ Len(params.views) \in Nat /\ DOMAIN params.views = 1 .. Len(params.views)
      /\ AllInside(params, body, PQWIRE_MAX_BIND_PARAMS)
  BY <1>6, <1>7, LenProperties
<1>9. params.off \in Nat
  BY <1>6, <1>7
<1>10. fl \in Seq(Words)
  BY <1>4, ReadNumbersType
<1>11. \A k \in 1 .. Len(params.views) : params.views[k].format \in Words
  <2> DEFINE W == Views(fl, ReadCount(body, fo))
  <2>1. \A w \in W : w.format \in Words
    <3> SUFFICES ASSUME NEW w \in W
                 PROVE  w.format \in Words
      OBVIOUS
    <3> HIDE DEF formats
    <3>1. w.format = 0 \/ \E k \in 1 .. ReadCount(body, fo) : w.format = FormatOf(fl, k)
      BY DEF Views
    <3>2. ASSUME NEW k \in 1 .. ReadCount(body, fo)
          PROVE  k \in Nat \ {0}
      BY <1>5, ReadCountType
    <3> HIDE DEF fl
    <3>3. 0 \in Words
      BY DEF Words, Word
    <3> QED
      BY <1>10, <3>1, <3>2, <3>3, FormatOfType
  <2>2. params.views \in Seq(W)
    BY <1>6, <1>7
  <2> HIDE DEF W, params
  <2> QED
    BY <2>1, <2>2, ElementOfSeq
<1> HIDE DEF params
<1>12. results \in Seq(Words) /\ Len(results) <= PQWIRE_MAX_BIND_PARAMS
  <2>1. CASE Room(body, params.off)
    BY <1>9, <2>1, ReadNumbersType DEF Room
  <2>2. CASE ~Room(body, params.off)
    <3>1. results = <<>>
      BY <2>2
    <3>2. <<>> \in Seq(Words) /\ Len(<<>>) = 0
      OBVIOUS
    <3> HIDE DEF results
    <3> QED
      BY <3>1, <3>2, BindCodecAssumption
  <2> QED
    BY <2>1, <2>2
<1> HIDE DEF results, formats
<1> QED
  BY <1>2, <1>8, <1>10, <1>11, <1>12, BindCodecAssumption DEF AllInside

-----------------------------------------------------------------------------
(* Numbers and their bytes.                                                *)

LEMMA ByteOf ==
    ASSUME NEW n \in Int
    PROVE  /\ n % 256 \in 0 .. 255 /\ n \div 256 \in Int
           /\ n = 256 * (n \div 256) + (n % 256)
           /\ n \in 0 .. 255 => n % 256 = n
OBVIOUS

\* wr16_be writes two bytes, from which rd16_be reads the number.
LEMMA WordBytes ==
    ASSUME NEW n, Word(n)
    PROVE  /\ wr16_be(n) \in Seq(0 .. 255) /\ Len(wr16_be(n)) = 2
           /\ wr16_be(n)[1] * 256 + wr16_be(n)[2] = n
<1>1. n \in Int /\ n \div 256 \in 0 .. 255
  BY DEF Word
<1>2. (n \div 256) % 256 = n \div 256
  BY <1>1, ByteOf
<1>3. n % 256 \in 0 .. 255 /\ n = 256 * (n \div 256) + (n % 256)
  BY <1>1, ByteOf
<1> DEFINE x == n \div 256
           y == n % 256
<1>4. wr16_be(n) = <<x, y>>
  BY <1>2 DEF wr16_be
<1>5. x \in 0 .. 255 /\ y \in 0 .. 255 /\ x * 256 + y = n
  BY <1>1, <1>3
<1> HIDE DEF x, y
<1>6. <<x, y>> \in Seq(0 .. 255) /\ Len(<<x, y>>) = 2 /\ <<x, y>>[1] = x /\ <<x, y>>[2] = y
  BY <1>5
<1> QED
  BY <1>4, <1>5, <1>6

\* The same of wr32_be and of rd32_be, which reads the sign as well.
Signed(a, b, c, d) ==
    (IF a < 128 THEN a ELSE a - 256) * (256 * 256 * 256) + b * (256 * 256) + c * 256 + d
LEMMA Int32Bytes ==
    ASSUME NEW n, FitsInt32(n)
    PROVE  LET w == wr32_be(n)
           IN  /\ w \in Seq(0 .. 255) /\ Len(w) = 4
               /\ Signed(w[1], w[2], w[3], w[4]) = n
<1> DEFINE x == n \div 256
           y == n \div (256 * 256)
           z == n \div (256 * 256 * 256)
           a == z % 256
           b == y % 256
           c == x % 256
           d == n % 256
<1>1. n \in Int /\ z \in -128 .. 127
  BY SMT DEF FitsInt32
<1>2. x \in Int /\ y \in Int /\ z \in Int /\ y = x \div 256 /\ z = y \div 256
  BY <1>1, SMT
<1>3. wr32_be(n) = <<a, b, c, d>>
  BY DEF wr32_be
<1>4. n = 256 * x + d /\ d \in 0 .. 255
  BY <1>1, ByteOf
<1> HIDE DEF x, y, z
<1>5. x = 256 * y + c /\ y = 256 * z + b /\ c \in 0 .. 255 /\ b \in 0 .. 255 /\ a \in 0 .. 255
  BY <1>2, ByteOf
<1> DEFINE h == IF a < 128 THEN a ELSE a - 256
<1>6. h = z
  BY <1>1, SMT
<1> HIDE DEF a, b, c, d, h
<1>7. h * (256 * 256 * 256) + b * (256 * 256) + c * 256 + d = n
  BY <1>2, <1>4, <1>5, <1>6, SMT
<1>8. Signed(a, b, c, d) = n
  BY <1>7 DEF Signed, h
<1> DEFINE w == <<a, b, c, d>>
<1>9. w \in Seq(0 .. 255) /\ Len(w) = 4 /\ w[1] = a /\ w[2] = b /\ w[3] = c /\ w[4] = d
  BY <1>4, <1>5
<1> HIDE DEF w
<1> QED
  BY <1>3, <1>8, <1>9 DEF w

-----------------------------------------------------------------------------
(* What stands where in a body.                                            *)

\* The bytes x stand in the body from offset off on.
StandsAt(body, off, x) ==
    /\ off + Len(x) <= Len(body)
    /\ \A j \in 1 .. Len(x) : body[off + j] = x[j]

LEMMA AtWhole ==
    ASSUME NEW body \in Bodies
    PROVE  StandsAt(body, 0, body)
BY DEF StandsAt, Bodies

LEMMA AtConcat ==
    ASSUME NEW body \in Bodies, NEW off \in Nat, NEW x \in Bodies, NEW y \in Bodies,
           StandsAt(body, off, x \o y)
    PROVE  StandsAt(body, off, x) /\ StandsAt(body, off + Len(x), y)
<1>1. /\ Len(x) \in Nat /\ Len(y) \in Nat /\ Len(x \o y) = Len(x) + Len(y) /\ Len(body) \in Nat
      /\ \A j \in 1 .. Len(x) : (x \o y)[j] = x[j]
      /\ \A j \in 1 .. Len(y) : (x \o y)[Len(x) + j] = y[j]
  BY DEF Bodies
<1> DEFINE z == x \o y
<1> HIDE DEF z
<1>2. /\ off + (Len(x) + Len(y)) <= Len(body)
      /\ \A j \in 1 .. Len(x) + Len(y) : body[off + j] = z[j]
      /\ \A j \in 1 .. Len(x) : z[j] = x[j]
      /\ \A j \in 1 .. Len(y) : z[Len(x) + j] = y[j]
  BY <1>1 DEF StandsAt, z
<1>3. StandsAt(body, off, x)
  BY <1>1, <1>2 DEF StandsAt
<1>4. ASSUME NEW j \in 1 .. Len(y)
      PROVE  body[off + Len(x) + j] = y[j]
  <2>1. Len(x) + j \in 1 .. Len(x) + Len(y) /\ off + Len(x) + j = off + (Len(x) + j)
    BY <1>1
  <2> QED
    BY <1>2, <2>1
<1>5. off + Len(x) + Len(y) <= Len(body)
  BY <1>1, <1>2
<1> QED
  BY <1>3, <1>4, <1>5 DEF StandsAt

\* Of bytes that stand there a slice can be taken.
LEMMA AtSlice ==
    ASSUME NEW body \in Bodies, NEW off \in Nat, NEW x \in Bodies, StandsAt(body, off, x)
    PROVE  Slice(body, off, Len(x)) = x
<1>1. Len(x) \in Nat /\ Len(body) \in Nat /\ off + Len(x) <= Len(body) /\ off + 1 \in 1 .. Len(body) + 1
  BY DEF Bodies, StandsAt
<1> DEFINE s == SubSeq(body, off + 1, off + Len(x))
<1>2. s \in Bodies /\ Len(s) = Len(x) /\ \A j \in 1 .. Len(x) : s[j] = body[off + j]
  <2>1. \A j \in off + 1 .. off + Len(x) : body[j] \in 0 .. 255
    <3>1. \A j \in off + 1 .. off + Len(x) : j \in 1 .. Len(body)
      BY <1>1
    <3> QED
      BY <3>1, ElementOfSeq DEF Bodies
  <2>2. off + 1 \in Int /\ off + Len(x) \in Int
    BY <1>1
  <2>3. /\ s \in Seq(0 .. 255)
        /\ Len(s) = IF off + 1 <= off + Len(x) THEN (off + Len(x)) - (off + 1) + 1 ELSE 0
        /\ \A j \in 1 .. (off + Len(x)) - (off + 1) + 1 : s[j] = body[(off + 1) + j - 1]
    BY <2>1, <2>2, SubSeqProperties
  <2> HIDE DEF s
  <2>4. Len(s) = Len(x) /\ (off + Len(x)) - (off + 1) + 1 = Len(x)
    BY <1>1, <2>3
  <2>5. \A j \in 1 .. Len(x) : (off + 1) + j - 1 = off + j
    BY <1>1
  <2> QED
    BY <2>3, <2>4, <2>5 DEF Bodies
<1> HIDE DEF s
<1>3. \A j \in 1 .. Len(x) : s[j] = x[j]
  BY <1>2 DEF StandsAt
<1>4. s = x
  BY <1>2, <1>3, SeqEqual DEF Bodies
<1> QED
  BY <1>4 DEF s, Slice

\* Lists that are put together in a loop.
LEMMA BodyPrefixes ==
    ASSUME NEW n \in Nat, NEW c \in [1 .. n -> Bodies],
           NEW h \in [0 .. n -> Nat], h[0] = 0, \A j \in 1 .. n : h[j] = h[j - 1] + Len(c[j])
    PROVE  \E g \in [0 .. n -> Bodies] :
               /\ g[n] = FlattenSeq(c)
               /\ \A j \in 1 .. n : g[j] = g[j - 1] \o c[j]
               /\ \A j \in 0 .. n : Len(g[j]) = h[j]
<1>1. PICK g \in [0 .. n -> Bodies] :
          /\ g[0] = <<>> /\ g[n] = FlattenSeq(c)
          /\ \A j \in 1 .. n : g[j] = g[j - 1] \o c[j]
  <2> DEFINE S == 0 .. 255
  <2>1. Bodies = Seq(S)
    BY DEF Bodies
  <2> HIDE DEF S
  <2>2. c \in [1 .. n -> Seq(S)]
    BY <2>1
  <2>3. \E g : IsPrefixes(g, c, n, S)
    BY <2>2, FlattenPrefixes
  <2> QED
    BY <2>1, <2>3 DEF IsPrefixes
<1>2. \A x, y \in Bodies : Len(x \o y) = Len(x) + Len(y)
  BY DEF Bodies
<1> DEFINE T == {k \in Nat : k <= n => Len(g[k]) = h[k]}
<1>3. 0 \in T
  BY <1>1
<1>4. ASSUME NEW k \in Nat, k \in T
      PROVE  k + 1 \in T
  <2> SUFFICES ASSUME k + 1 <= n
               PROVE  Len(g[k + 1]) = h[k + 1]
    OBVIOUS
  <2>1. k + 1 \in 1 .. n /\ (k + 1) - 1 = k /\ k \in 0 .. n /\ k <= n
    OBVIOUS
  <2>2. Len(g[k]) = h[k] /\ g[k] \in Bodies /\ c[k + 1] \in Bodies /\ g[k + 1] = g[k] \o c[k + 1]
    BY <1>1, <1>4, <2>1
  <2>3. Len(g[k + 1]) = Len(g[k]) + Len(c[k + 1])
    BY <1>2, <2>2
  <2> QED
    BY <2>1, <2>2, <2>3
<1> HIDE DEF T
<1>5. Nat \subseteq T
  BY <1>3, <1>4, SetInduction
<1>6. \A k \in 0 .. n : Len(g[k]) = h[k]
  BY <1>5 DEF T
<1> QED
  BY <1>1, <1>6

LEMMA FlattenLength ==
    ASSUME NEW n \in Nat, NEW c \in [1 .. n -> Bodies],
           NEW h \in [0 .. n -> Nat], h[0] = 0, \A j \in 1 .. n : h[j] = h[j - 1] + Len(c[j])
    PROVE  FlattenSeq(c) \in Bodies /\ Len(FlattenSeq(c)) = h[n]
<1>1. PICK g \in [0 .. n -> Bodies] : g[n] = FlattenSeq(c) /\ \A j \in 0 .. n : Len(g[j]) = h[j]
  BY BodyPrefixes
<1> QED
  BY <1>1

\* What each iteration appends stands behind what the ones before it have
\* appended.
LEMMA AtFlatten ==
    ASSUME NEW body \in Bodies, NEW off \in Nat, NEW n \in Nat, NEW c \in [1 .. n -> Bodies],
           NEW h \in [0 .. n -> Nat], h[0] = 0, \A j \in 1 .. n : h[j] = h[j - 1] + Len(c[j]),
           StandsAt(body, off, FlattenSeq(c))
    PROVE  \A j \in 1 .. n : StandsAt(body, off + h[j - 1], c[j])
<1>1. PICK g \in [0 .. n -> Bodies] :
          /\ g[n] = FlattenSeq(c)
          /\ \A j \in 1 .. n : g[j] = g[j - 1] \o c[j]
          /\ \A j \in 0 .. n : Len(g[j]) = h[j]
  BY BodyPrefixes
<1>2. ASSUME NEW j \in 1 .. n, StandsAt(body, off, g[j])
      PROVE  StandsAt(body, off, g[j - 1]) /\ StandsAt(body, off + h[j - 1], c[j])
  <2>1. j - 1 \in 0 .. n
    OBVIOUS
  <2> DEFINE x == g[j - 1]
             y == c[j]
  <2>2. x \in Bodies /\ y \in Bodies /\ StandsAt(body, off, x \o y) /\ Len(x) = h[j - 1]
    BY <1>1, <1>2, <2>1
  <2> HIDE DEF x, y
  <2>3. StandsAt(body, off, x) /\ StandsAt(body, off + Len(x), y)
    BY <2>2, AtConcat
  <2> QED
    BY <2>2, <2>3 DEF x, y
<1> DEFINE U == {k \in Nat : k <= n => StandsAt(body, off, g[n - k])}
<1>3. 0 \in U
  <2>1. n - 0 = n
    OBVIOUS
  <2> QED
    BY <1>1, <2>1
<1>4. ASSUME NEW k \in Nat, k \in U
      PROVE  k + 1 \in U
  <2> SUFFICES ASSUME k + 1 <= n
               PROVE  StandsAt(body, off, g[n - (k + 1)])
    OBVIOUS
  <2> DEFINE j == n - k
  <2>1. j \in 1 .. n /\ n - (k + 1) = j - 1 /\ k <= n
    OBVIOUS
  <2>2. StandsAt(body, off, g[j])
    BY <1>4, <2>1
  <2> HIDE DEF j
  <2>3. StandsAt(body, off, g[j - 1])
    BY <1>2, <2>1, <2>2
  <2> QED
    BY <2>1, <2>3
<1> HIDE DEF U
<1>5. Nat \subseteq U
  BY <1>3, <1>4, SetInduction
<1>6. ASSUME NEW j \in 1 .. n
      PROVE  StandsAt(body, off + h[j - 1], c[j])
  <2>1. n - j \in Nat /\ n - j <= n /\ n - (n - j) = j
    OBVIOUS
  <2>2. StandsAt(body, off, g[j])
    BY <1>5, <2>1 DEF U
  <2> QED
    BY <1>2, <2>2
<1> QED
  BY <1>6

-----------------------------------------------------------------------------
(* A Bind that was encoded within the limits is decoded to what it was      *)
(* encoded from.                                                            *)

LEMMA ConcatBytes ==
    ASSUME NEW x \in Bodies, NEW y \in Bodies
    PROVE  x \o y \in Bodies /\ Len(x \o y) = Len(x) + Len(y) /\ Len(x) \in Nat /\ Len(y) \in Nat
BY DEF Bodies

LEMMA NameBytes ==
    ASSUME NEW x \in Seq(1 .. 255)
    PROVE  /\ x \in Bodies /\ Len(x) \in Nat
           /\ Name(x) \in Bodies /\ Len(Name(x)) = Len(x) + 1
           /\ \A j \in 1 .. Len(x) : Name(x)[j] = x[j] /\ x[j] # 0
           /\ Name(x)[Len(x) + 1] = 0
<1>1. x \in Bodies /\ Len(x) \in Nat /\ \A j \in 1 .. Len(x) : x[j] # 0
  <2>1. \A j \in 1 .. Len(x) : x[j] \in 1 .. 255
    BY ElementOfSeq
  <2>2. 1 .. 255 \subseteq 0 .. 255
    OBVIOUS
  <2>3. x \in Seq(0 .. 255)
    BY <2>2, SeqMonotonic
  <2>4. \A b \in 1 .. 255 : b # 0
    OBVIOUS
  <2>5. Len(x) \in Nat
    OBVIOUS
  <2> QED
    BY <2>1, <2>3, <2>4, <2>5, Zenon DEF Bodies
<1> DEFINE z == <<0>>
<1>2. z \in Bodies /\ Len(z) = 1 /\ z[1] = 0
  BY DEF Bodies
<1> HIDE DEF z
<1>3. /\ x \o z \in Bodies /\ Len(x \o z) = Len(x) + Len(z)
      /\ \A j \in 1 .. Len(x) : (x \o z)[j] = x[j]
      /\ \A j \in 1 .. Len(z) : (x \o z)[Len(x) + j] = z[j]
  <2> DEFINE B == 0 .. 255
  <2>1. x \in Seq(B) /\ z \in Seq(B)
    BY <1>1, <1>2 DEF Bodies
  <2>2. Bodies = Seq(B)
    BY DEF Bodies
  <2> HIDE DEF B
  <2> QED
    BY <2>1, <2>2
<1>4. Name(x) = x \o z
  BY DEF Name, z
<1>5. 1 \in 1 .. Len(z)
  BY <1>2
<1> QED
  BY <1>1, <1>2, <1>3, <1>4, <1>5

\* A name ends at its terminator.
LEMMA NameEnds ==
    ASSUME NEW body \in Bodies, NEW off \in Nat, NEW x \in Seq(1 .. 255),
           StandsAt(body, off, Name(x))
    PROVE  AfterCstr(body, off) = off + Len(x) + 1
<1> DEFINE ends == {k \in off .. Len(body) - 1 : body[k + 1] = 0}
           e == off + Len(x)
<1>1. /\ Len(x) \in Nat /\ Len(body) \in Nat
      /\ Len(Name(x)) = Len(x) + 1
      /\ \A j \in 1 .. Len(x) : Name(x)[j] = x[j] /\ x[j] # 0
      /\ Name(x)[Len(x) + 1] = 0
  BY NameBytes DEF Bodies
<1>2. /\ off + (Len(x) + 1) <= Len(body)
      /\ \A j \in 1 .. Len(x) : body[off + j] = x[j]
      /\ body[off + (Len(x) + 1)] = 0
  BY <1>1 DEF StandsAt
<1>3. e \in ends
  BY <1>1, <1>2
<1>4. ASSUME NEW l \in ends
      PROVE  e <= l
  <2> SUFFICES ASSUME l < e
               PROVE  FALSE
    BY <1>1
  <2> DEFINE j == l - off + 1
  <2>1. j \in 1 .. Len(x) /\ off + j = l + 1
    BY <1>1
  <2>2. body[l + 1] = x[j] /\ x[j] # 0
    BY <1>1, <1>2, <2>1
  <2>3. body[l + 1] = 0
    OBVIOUS
  <2> QED
    BY <2>2, <2>3
<1>5. (CHOOSE k \in ends : \A l \in ends : k <= l) = e
  <2>1. ends \subseteq Int /\ e \in Int
    BY <1>1
  <2> HIDE DEF ends, e
  <2>2. \A k \in ends : (\A l \in ends : k <= l) => k = e
    BY <1>3, <1>4, <2>1
  <2> QED
    BY <1>3, <1>4, <2>2
<1>6. ends # {}
  BY <1>3
<1>7. AfterCstr(body, off) = 1 + e
  BY <1>5, <1>6 DEF AfterCstr
<1> QED
  BY <1>1, <1>7

\* A number is read back.
LEMMA WordBack ==
    ASSUME NEW body \in Bodies, NEW off \in Nat, NEW n, Word(n), StandsAt(body, off, wr16_be(n))
    PROVE  rd16_be(body, off) = n /\ off + 2 <= Len(body)
<1> DEFINE w == wr16_be(n)
<1>1. Len(w) = 2 /\ w[1] * 256 + w[2] = n
  BY WordBytes
<1> HIDE DEF w
<1>2. off + 2 <= Len(body) /\ body[off + 1] = w[1] /\ body[off + 2] = w[2]
  BY <1>1 DEF StandsAt, w
<1> QED
  BY <1>1, <1>2 DEF rd16_be

LEMMA Int32Back ==
    ASSUME NEW body \in Bodies, NEW off \in Nat, NEW n, FitsInt32(n), StandsAt(body, off, wr32_be(n))
    PROVE  rd32_be(body, off) = n /\ off + 4 <= Len(body)
<1> DEFINE w == wr32_be(n)
<1>1. Len(w) = 4 /\ Signed(w[1], w[2], w[3], w[4]) = n
  BY Int32Bytes
<1> HIDE DEF w
<1>2. /\ off + 4 <= Len(body)
      /\ body[off + 1] = w[1] /\ body[off + 2] = w[2]
      /\ body[off + 3] = w[3] /\ body[off + 4] = w[4]
  BY <1>1 DEF StandsAt, w
<1>3. rd32_be(body, off) = Signed(w[1], w[2], w[3], w[4])
  BY <1>2 DEF rd32_be, Signed
<1> QED
  BY <1>1, <1>2, <1>3

\* Lists of 16-bit numbers.
LEMMA NumbersLoop ==
    ASSUME NEW ns \in Seq(Words)
    PROVE  LET n == Len(ns)
               c == [j \in DOMAIN ns |-> wr16_be(ns[j])]
               h == [j \in 0 .. n |-> 2 * j]
           IN  /\ n \in Nat /\ c \in [1 .. n -> Bodies] /\ h \in [0 .. n -> Nat] /\ h[0] = 0
               /\ \A j \in 1 .. n : h[j] = h[j - 1] + Len(c[j])
<1> DEFINE n == Len(ns)
           c == [j \in DOMAIN ns |-> wr16_be(ns[j])]
           h == [j \in 0 .. n |-> 2 * j]
<1>1. n \in Nat /\ DOMAIN ns = 1 .. n /\ \A j \in 1 .. n : Word(ns[j])
  BY DEF Words
<1>2. \A j \in 1 .. n : wr16_be(ns[j]) \in Bodies /\ Len(wr16_be(ns[j])) = 2
  BY <1>1, WordBytes DEF Bodies
<1>3. c \in [1 .. n -> Bodies] /\ \A j \in 1 .. n : c[j] = wr16_be(ns[j])
  BY <1>1, <1>2
<1>4. h \in [0 .. n -> Nat] /\ \A j \in 0 .. n : h[j] = 2 * j
  BY <1>1
<1>5. ASSUME NEW j \in 1 .. n
      PROVE  h[j] = h[j - 1] + Len(c[j])
  <2>1. j - 1 \in 0 .. n /\ j \in 0 .. n /\ 2 * j = 2 * (j - 1) + 2
    BY <1>1
  <2>2. Len(c[j]) = 2
    BY <1>2, <1>3
  <2> HIDE DEF h, c
  <2> QED
    BY <1>4, <2>1, <2>2
<1>6. 0 \in 0 .. n /\ 2 * 0 = 0
  BY <1>1
<1> HIDE DEF h, c
<1>7. h[0] = 0
  BY <1>4, <1>6
<1> QED
  BY <1>1, <1>3, <1>4, <1>5, <1>7 DEF c, h

LEMMA CountedBytes ==
    ASSUME NEW ns \in Seq(Words), Len(ns) <= PQWIRE_MAX_BIND_PARAMS
    PROVE  /\ Word(Len(ns)) /\ Numbers(ns) \in Bodies /\ Len(Numbers(ns)) = 2 * Len(ns)
           /\ Counted(ns) \in Bodies /\ Len(Counted(ns)) = 2 + 2 * Len(ns)
<1> DEFINE n == Len(ns)
           c == [j \in DOMAIN ns |-> wr16_be(ns[j])]
           h == [j \in 0 .. n |-> 2 * j]
<1>1. /\ n \in Nat /\ c \in [1 .. n -> Bodies] /\ h \in [0 .. n -> Nat] /\ h[0] = 0
      /\ \A j \in 1 .. n : h[j] = h[j - 1] + Len(c[j])
  BY NumbersLoop
<1>2. h[n] = 2 * n
  BY <1>1
<1>3. Word(n)
  BY <1>1, BindCodecAssumption DEF Word
<1>4. Numbers(ns) = FlattenSeq(c)
  BY DEF Numbers
<1> HIDE DEF c, h, n
<1>5. Numbers(ns) \in Bodies /\ Len(Numbers(ns)) = 2 * n
  BY <1>1, <1>2, <1>4, FlattenLength
<1>6. wr16_be(n) \in Bodies /\ Len(wr16_be(n)) = 2
  BY <1>3, WordBytes DEF Bodies
<1>7. Counted(ns) = wr16_be(n) \o Numbers(ns)
  BY DEF Counted, n
<1>8. Counted(ns) \in Bodies /\ Len(Counted(ns)) = 2 + 2 * n
  <2> DEFINE w == wr16_be(n)
             ms == Numbers(ns)
  <2> HIDE DEF w, ms
  <2>1. w \in Bodies /\ ms \in Bodies /\ Len(w) = 2 /\ Len(ms) = 2 * n
    BY <1>5, <1>6 DEF w, ms
  <2>2. w \o ms \in Bodies /\ Len(w \o ms) = Len(w) + Len(ms)
    BY <2>1, ConcatBytes
  <2> QED
    BY <1>7, <2>1, <2>2 DEF w, ms
<1> QED
  BY <1>3, <1>5, <1>8 DEF n

LEMMA NumbersBack ==
    ASSUME NEW body \in Bodies, NEW off \in Nat, NEW ns \in Seq(Words),
           Len(ns) <= PQWIRE_MAX_BIND_PARAMS, StandsAt(body, off, Counted(ns))
    PROVE  /\ ReadCount(body, off) = Len(ns) /\ off + 2 + 2 * Len(ns) <= Len(body)
           /\ ReadNumbers(body, off) = [list |-> ns, off |-> off + 2 + 2 * Len(ns)]
<1> DEFINE n == Len(ns)
           c == [j \in DOMAIN ns |-> wr16_be(ns[j])]
           h == [j \in 0 .. n |-> 2 * j]
<1>1. /\ n \in Nat /\ c \in [1 .. n -> Bodies] /\ h \in [0 .. n -> Nat] /\ h[0] = 0
      /\ \A j \in 1 .. n : h[j] = h[j - 1] + Len(c[j])
  BY NumbersLoop
<1>2. /\ n \in Nat /\ ns \in [1 .. n -> Words]
      /\ \A j \in 1 .. n : c[j] = wr16_be(ns[j]) /\ h[j - 1] = 2 * (j - 1) /\ Word(ns[j])
  <2>1. n \in Nat /\ ns \in [1 .. n -> Words] /\ DOMAIN ns = 1 .. n
    OBVIOUS
  <2>2. \A j \in 1 .. n : c[j] = wr16_be(ns[j]) /\ Word(ns[j])
    BY <2>1 DEF Words
  <2>3. \A j \in 1 .. n : j - 1 \in 0 .. n
    BY <2>1
  <2> QED
    BY <2>1, <2>2, <2>3
<1>3. Numbers(ns) = FlattenSeq(c) /\ Counted(ns) = wr16_be(n) \o Numbers(ns)
  BY DEF Numbers, Counted
<1> DEFINE w == wr16_be(n)
           ms == FlattenSeq(c)
<1>4. n <= PQWIRE_MAX_BIND_PARAMS
  OBVIOUS
<1>5. /\ Word(n) /\ ms \in Bodies /\ Len(ms) = 2 * n
      /\ w \in Bodies /\ Len(w) = 2
  BY <1>3, CountedBytes, WordBytes DEF Bodies
<1>6. StandsAt(body, off, w \o ms)
  BY <1>3
<1> HIDE DEF c, h, n, w, ms
<1>7. StandsAt(body, off, w) /\ StandsAt(body, off + 2, ms)
  BY <1>5, <1>6, AtConcat
<1>8. rd16_be(body, off) = n
  BY <1>5, <1>7, WordBack DEF w
<1>9. ReadCount(body, off) = n
  BY <1>2, <1>4, <1>8, BindCodecAssumption DEF ReadCount, Least
<1> DEFINE len == Len(body)
           o == off + 2
<1>10. off + 2 + 2 * n <= len /\ len \in Nat
  BY <1>5, <1>7 DEF StandsAt, Bodies
<1>11. \A j \in 1 .. n : StandsAt(body, o + h[j - 1], c[j])
  <2>1. o \in Nat /\ StandsAt(body, o, FlattenSeq(c))
    BY <1>7 DEF ms
  <2> HIDE DEF o
  <2> QED
    BY <1>1, <2>1, AtFlatten
<1>12. ASSUME NEW j \in 1 .. n
       PROVE  rd16_be(body, off + 2 * j) = ns[j]
  <2>0. h[j - 1] = 2 * (j - 1)
    BY <1>2, Zenon
  <2>1. h[j - 1] = 2 * (j - 1) /\ j \in Nat
    BY <1>2, <2>0
  <2>2. o + h[j - 1] = off + 2 * j /\ off + 2 * j \in Nat
    BY <2>1
  <2>3. StandsAt(body, off + 2 * j, wr16_be(ns[j])) /\ Word(ns[j])
    BY <1>2, <1>11, <2>2
  <2> QED
    BY <2>2, <2>3, WordBack
<1> DEFINE k == Least(n, (len - off - 2) \div 2)
<1>13. k = n
  <2> HIDE DEF len
  <2> QED
    BY <1>2, <1>10 DEF Least
<1> DEFINE l == [j \in 1 .. n |-> IF j <= k THEN rd16_be(body, off + 2 * j) ELSE 0]
<1>14. ReadNumbers(body, off) = [list |-> l, off |-> off + 2 + 2 * k]
  BY <1>9 DEF ReadNumbers
<1> HIDE DEF k
<1>15. l = ns
  <2>1. \A j \in 1 .. n : l[j] = ns[j]
    BY <1>2, <1>12, <1>13
  <2> QED
    BY <1>2, <2>1
<1> HIDE DEF l
<1> QED
  BY <1>9, <1>10, <1>13, <1>14, <1>15 DEF n

\* A value: its length, -1 for NULL, and its bytes.
LegalValue(v) ==
    /\ v.data \in Bodies /\ FitsInt32(v.length)
    /\ \/ v.length = Len(v.data)
       \/ v.length = -1 /\ v.data = <<>>
ValueBytes(v) == wr32_be(v.length) \o v.data

LEMMA ValueLength ==
    ASSUME NEW v, LegalValue(v)
    PROVE  /\ ValueBytes(v) \in Bodies /\ Len(ValueBytes(v)) = 4 + Len(v.data)
           /\ wr32_be(v.length) \in Bodies /\ Len(wr32_be(v.length)) = 4
           /\ v.data \in Bodies /\ Len(v.data) \in Nat
<1> DEFINE w == wr32_be(v.length)
           d == v.data
<1>1. w \in Bodies /\ Len(w) = 4
  BY Int32Bytes DEF Bodies, LegalValue
<1>2. d \in Bodies
  BY DEF LegalValue
<1> HIDE DEF w, d
<1>3. w \o d \in Bodies /\ Len(w \o d) = Len(w) + Len(d) /\ Len(d) \in Nat
  BY <1>1, <1>2, ConcatBytes
<1> QED
  BY <1>1, <1>2, <1>3 DEF w, d, ValueBytes

\* One iteration of the parameter loop.
Takes(body, formats, o, vs, k, v) ==
    ReadParam(body, formats, [ok |-> TRUE, off |-> o, views |-> vs], k) =
        [ok |-> TRUE, off |-> o + Len(ValueBytes(v)),
         views |-> Append(vs, View(v.length, o + 4, FormatOf(formats, k)))]
LEMMA ValueBack ==
    ASSUME NEW body \in Bodies, NEW formats, NEW o \in Nat, NEW vs, NEW k,
           NEW v, LegalValue(v), StandsAt(body, o, ValueBytes(v))
    PROVE  /\ Takes(body, formats, o, vs, k, v)
           /\ v.length \in Int
           /\ Slice(body, o + 4, Len(v.data)) = v.data
           /\ o + Len(ValueBytes(v)) <= Len(body)
<1> DEFINE w == wr32_be(v.length)
           d == v.data
           acc == [ok |-> TRUE, off |-> o, views |-> vs]
           plen == v.length
<1>1. /\ w \in Bodies /\ Len(w) = 4 /\ d \in Bodies /\ Len(d) \in Nat
      /\ Len(ValueBytes(v)) = 4 + Len(d) /\ StandsAt(body, o, w \o d)
  BY ValueLength DEF ValueBytes
<1>2. FitsInt32(plen) /\ plen \in Int /\ (plen = Len(d) \/ (plen = -1 /\ d = <<>>))
  BY DEF LegalValue, FitsInt32
<1>3. acc.ok = TRUE /\ acc.off = o /\ acc.views = vs /\ Len(body) \in Nat
  BY DEF Bodies
<1> HIDE DEF w, d, acc
<1>4. StandsAt(body, o, w) /\ StandsAt(body, o + 4, d)
  BY <1>1, AtConcat
<1>5. rd32_be(body, o) = plen /\ o + 4 <= Len(body)
  BY <1>2, <1>4, Int32Back DEF w
<1> HIDE DEF plen
<1>6. o + 4 + Len(d) <= Len(body)
  BY <1>4 DEF StandsAt
<1>7. Slice(body, o + 4, Len(d)) = d
  <2> DEFINE p == o + 4
  <2>1. p \in Nat /\ StandsAt(body, p, d)
    BY <1>4
  <2> HIDE DEF p
  <2>2. Slice(body, p, Len(d)) = d
    BY <1>1, <2>1, AtSlice
  <2> QED
    BY <2>2 DEF p
<1>8. d = <<>> => Len(d) = 0
  OBVIOUS
<1>9. ~(plen > Len(body) - (o + 4))
  BY <1>1, <1>2, <1>3, <1>6
<1>10. (IF plen < 0 THEN o + 4 ELSE o + 4 + plen) = o + (4 + Len(d))
  BY <1>1, <1>2, <1>8
<1>11. ~(~acc.ok \/ acc.off + 4 > Len(body))
  BY <1>3, <1>5
<1>12. ReadParam(body, formats, acc, k) =
           [ok |-> TRUE, off |-> IF plen < 0 THEN o + 4 ELSE o + 4 + plen,
            views |-> Append(vs, View(plen, o + 4, FormatOf(formats, k)))]
  BY <1>3, <1>5, <1>9, <1>11 DEF ReadParam
<1>13. o + (4 + Len(d)) <= Len(body)
  BY <1>1, <1>3, <1>6
<1> QED
  BY <1>1, <1>2, <1>7, <1>10, <1>12, <1>13 DEF acc, d, plen, Takes

LEMMA AppendNext ==
    ASSUME NEW n \in Nat, NEW V, NEW vs \in [1 .. n -> V], NEW k \in Nat, k < n
    PROVE  Append([j \in 1 .. k |-> vs[j]], vs[k + 1]) = [j \in 1 .. k + 1 |-> vs[j]]
<1> DEFINE a == [j \in 1 .. k |-> vs[j]]
           b == [j \in 1 .. k + 1 |-> vs[j]]
<1>1. k + 1 \in 1 .. n /\ \A j \in 1 .. k + 1 : j \in 1 .. n
  OBVIOUS
<1>2. a \in [1 .. k -> V] /\ b \in [1 .. k + 1 -> V] /\ vs[k + 1] \in V
  BY <1>1
<1>3. a \in Seq(V) /\ Len(a) = k /\ b \in Seq(V) /\ Len(b) = k + 1
  BY <1>2
<1>4. \A j \in 1 .. k : a[j] = b[j]
  OBVIOUS
<1>5. b[k + 1] = vs[k + 1]
  BY <1>1
<1> DEFINE c == Append(a, vs[k + 1])
<1> HIDE DEF a, b
<1>6. /\ c \in Seq(V) /\ Len(c) = k + 1 /\ c[k + 1] = vs[k + 1]
      /\ \A j \in 1 .. k : c[j] = a[j]
  BY <1>2, <1>3, AppendProperties
<1> HIDE DEF c
<1>7. \A j \in 1 .. k + 1 : c[j] = b[j]
  BY <1>4, <1>5, <1>6
<1>8. c = b
  BY <1>3, <1>6, <1>7, SeqEqual
<1> QED
  BY <1>8 DEF a, b, c

\* The whole loop, by induction on the number of its iterations.
LEMMA ValuesLoop ==
    ASSUME NEW values, NEW n \in Nat, DOMAIN values = 1 .. n,
           \A j \in 1 .. n : LegalValue(values[j])
    PROVE  LET c == [j \in DOMAIN values |-> ValueBytes(values[j])]
           IN  /\ c \in [1 .. n -> Bodies] /\ FlattenSeq(c) \in Bodies
               /\ \E h \in [0 .. n -> Nat] :
                      /\ h[0] = 0 /\ h[n] = Len(FlattenSeq(c))
                      /\ \A j \in 1 .. n : h[j] = h[j - 1] + Len(c[j])
<1> DEFINE c == [j \in DOMAIN values |-> ValueBytes(values[j])]
           S == 0 .. 255
<1>1. c \in [1 .. n -> Bodies]
  BY ValueLength
<1>2. Bodies = Seq(S)
  BY DEF Bodies
<1> HIDE DEF c, S
<1>3. PICK g : IsPrefixes(g, c, n, S)
  BY <1>1, <1>2, FlattenPrefixes
<1>4. /\ g \in [0 .. n -> Bodies] /\ g[0] = <<>> /\ g[n] = FlattenSeq(c)
      /\ \A j \in 1 .. n : g[j] = g[j - 1] \o c[j]
  BY <1>2, <1>3 DEF IsPrefixes
<1> DEFINE h == [j \in 0 .. n |-> Len(g[j])]
<1>5. \A x \in Bodies : Len(x) \in Nat
  BY DEF Bodies
<1>6. /\ h \in [0 .. n -> Nat] /\ h[0] = 0 /\ h[n] = Len(FlattenSeq(c))
      /\ \A j \in 0 .. n : h[j] = Len(g[j])
  BY <1>4, <1>5
<1> HIDE DEF h
<1>7. ASSUME NEW j \in 1 .. n
      PROVE  h[j] = h[j - 1] + Len(c[j])
  <2>1. j \in 0 .. n /\ j - 1 \in 0 .. n
    OBVIOUS
  <2> DEFINE x == g[j - 1]
             y == c[j]
  <2>2. x \in Bodies /\ y \in Bodies /\ g[j] = x \o y /\ h[j] = Len(g[j]) /\ h[j - 1] = Len(x)
    BY <1>1, <1>4, <1>6, <2>1
  <2> HIDE DEF x, y
  <2>3. Len(x \o y) = Len(x) + Len(y)
    BY <2>2, ConcatBytes
  <2> QED
    BY <2>2, <2>3 DEF y
<1>8. FlattenSeq(c) \in Bodies
  <2>1. n \in 0 .. n
    OBVIOUS
  <2> QED
    BY <1>4, <2>1
<1>9. \E k \in [0 .. n -> Nat] :
          /\ k[0] = 0 /\ k[n] = Len(FlattenSeq(c))
          /\ \A j \in 1 .. n : k[j] = k[j - 1] + Len(c[j])
  BY <1>6, <1>7
<1> QED
  BY <1>1, <1>8, <1>9 DEF c

\* What a view shows of a value.
Shows(body, view, v, format) ==
    /\ view.length = v.length /\ view.format = format
    /\ Slice(body, view.off, Len(v.data)) = v.data
Decodes(body, off, formats, values, n, rest) ==
    LET r == ReadParams(body, off, formats)
    IN  /\ r.ok = TRUE /\ r.off = off + 2 + Len(rest)
        /\ DOMAIN r.views = 1 .. n /\ Len(r.views) = n
        /\ \A j \in 1 .. n : Shows(body, r.views[j], values[j], FormatOf(formats, j))
LEMMA ValuesBack ==
    ASSUME NEW body \in Bodies, NEW off \in Nat, NEW formats,
           NEW values, NEW n \in Nat, n <= PQWIRE_MAX_BIND_PARAMS, DOMAIN values = 1 .. n,
           \A j \in 1 .. n : LegalValue(values[j]),
           NEW rest, rest = FlattenSeq([j \in DOMAIN values |-> ValueBytes(values[j])]),
           StandsAt(body, off, wr16_be(n)), StandsAt(body, off + 2, rest)
    PROVE  Decodes(body, off, formats, values, n, rest)
<1> DEFINE c == [j \in DOMAIN values |-> ValueBytes(values[j])]
           o == off + 2
           Views0 == [length : Int, off : Nat, format : {FormatOf(formats, j) : j \in 1 .. n}]
<1>1. c \in [1 .. n -> Bodies] /\ FlattenSeq(c) \in Bodies /\ rest = FlattenSeq(c)
  BY ValuesLoop
<1>2. PICK h \in [0 .. n -> Nat] :
          /\ h[0] = 0 /\ h[n] = Len(FlattenSeq(c))
          /\ \A j \in 1 .. n : h[j] = h[j - 1] + Len(c[j])
  BY ValuesLoop
<1>3. \A j \in 1 .. n : c[j] = ValueBytes(values[j])
  OBVIOUS
<1>4. o \in Nat /\ StandsAt(body, o, FlattenSeq(c))
  BY <1>1
<1> HIDE DEF c, o
<1>5. \A j \in 1 .. n : StandsAt(body, o + h[j - 1], c[j])
  BY <1>1, <1>2, <1>4, AtFlatten
<1>6. Word(n) /\ PQWIRE_MAX_BIND_PARAMS \in Nat
  BY BindCodecAssumption DEF Word
<1>7. rd16_be(body, off) = n /\ off + 2 <= Len(body)
  BY <1>6, WordBack
<1>8. ReadCount(body, off) = n
  BY <1>6, <1>7 DEF ReadCount, Least
<1>9. PICK f : Loop(f, body, off, formats)
  BY <1>7, ReadParamsEquation
<1>10. /\ ReadParams(body, off, formats) = f[n]
       /\ f[0] = [ok |-> TRUE, off |-> o, views |-> <<>>]
       /\ \A k \in 1 .. n : f[k] = ReadParam(body, formats, f[k - 1], k)
  BY <1>8, <1>9 DEF Loop, Base, o
<1> DEFINE view == [j \in 1 .. n |->
                       View(values[j].length, o + h[j - 1] + 4, FormatOf(formats, j))]
           Prefix(k) == [j \in 1 .. k |-> view[j]]
           Acc(k) == [ok |-> TRUE, off |-> o + h[k], views |-> Prefix(k)]
           T == {k \in Nat : k <= n => f[k] = Acc(k)}
<1>11. view \in [1 .. n -> Views0]
  <2>1. ASSUME NEW j \in 1 .. n
        PROVE  View(values[j].length, o + h[j - 1] + 4, FormatOf(formats, j)) \in Views0
    <3>1. values[j].length \in Int
      BY DEF LegalValue, FitsInt32
    <3>2. j - 1 \in 0 .. n
      OBVIOUS
    <3>3. o + h[j - 1] + 4 \in Nat
      BY <1>2, <1>4, <3>2
    <3> QED
      BY <3>1, <3>3 DEF View
  <2> QED
    BY <2>1
<1>12. \A j \in 1 .. n : /\ view[j].length = values[j].length
                        /\ view[j].off = o + h[j - 1] + 4
                        /\ view[j].format = FormatOf(formats, j)
  BY DEF View
<1>13. \A j \in 1 .. n : view[j] = View(values[j].length, o + h[j - 1] + 4, FormatOf(formats, j))
  OBVIOUS
<1> HIDE DEF view, Views0
<1>14. Prefix(0) = <<>> /\ o + h[0] = o
  BY <1>2, <1>4
<1>15. 0 \in T
  BY <1>10, <1>14
<1>16. ASSUME NEW k \in Nat, k \in T
       PROVE  k + 1 \in T
  <2> SUFFICES ASSUME k + 1 <= n
               PROVE  f[k + 1] = Acc(k + 1)
    OBVIOUS
  <2>1. k + 1 \in 1 .. n /\ (k + 1) - 1 = k /\ k <= n /\ k \in 0 .. n /\ k + 1 \in 0 .. n /\ k < n
    OBVIOUS
  <2> DEFINE p == o + h[k]
             vs == Prefix(k)
             m == k + 1
             v == values[k + 1]
  <2>2. f[k] = [ok |-> TRUE, off |-> p, views |-> vs]
    BY <1>16, <2>1
  <2>3. f[m] = ReadParam(body, formats, f[k], m)
    BY <1>10, <2>1
  <2>4. p \in Nat /\ LegalValue(v) /\ StandsAt(body, p, ValueBytes(v))
    <3>1. p \in Nat /\ LegalValue(v)
      BY <1>4, <2>1
    <3>2. StandsAt(body, o + h[(k + 1) - 1], c[k + 1]) /\ c[k + 1] = ValueBytes(v)
      BY <1>3, <1>5, <2>1, Zenon
    <3> QED
      BY <2>1, <3>1, <3>2
  <2>5. h[k + 1] = h[k] + Len(ValueBytes(v))
    BY <1>2, <1>3, <2>1
  <2>6. Append(vs, view[k + 1]) = Prefix(k + 1)
    BY <1>11, <2>1, AppendNext
  <2>7. view[k + 1] = View(v.length, p + 4, FormatOf(formats, m))
    BY <1>13, <2>1
  <2>8. Len(ValueBytes(v)) \in Nat
    BY <2>4, ValueLength DEF Bodies
  <2>9. p + Len(ValueBytes(v)) = o + h[k + 1]
    <3> DEFINE q == Len(ValueBytes(v))
    <3>1. h[k] \in Nat /\ q \in Nat /\ h[k + 1] = h[k] + q
      BY <2>1, <2>5, <2>8
    <3> HIDE DEF q
    <3>2. o + h[k] + q = o + (h[k] + q)
      BY <1>4, <3>1
    <3> QED
      BY <3>1, <3>2 DEF q
  <2> HIDE DEF p, vs, m, v
  <2>10. ReadParam(body, formats, [ok |-> TRUE, off |-> p, views |-> vs], m) =
             [ok |-> TRUE, off |-> p + Len(ValueBytes(v)),
              views |-> Append(vs, View(v.length, p + 4, FormatOf(formats, m)))]
    <3>1. Takes(body, formats, p, vs, m, v)
      BY <2>4, ValueBack, Zenon
    <3> QED
      BY <3>1 DEF Takes
  <2> HIDE DEF Prefix
  <2>11. f[m] = [ok |-> TRUE, off |-> o + h[k + 1], views |-> Prefix(k + 1)]
    BY <2>2, <2>3, <2>6, <2>7, <2>9, <2>10
  <2> QED
    BY <2>11 DEF m
<1> HIDE DEF T
<1>17. Nat \subseteq T
  BY <1>15, <1>16, SetInduction
<1>18. f[n] = Acc(n)
  BY <1>17 DEF T
<1>19. Prefix(n) = view
  BY <1>11
<1> HIDE DEF Prefix
<1> DEFINE r == ReadParams(body, off, formats)
<1>20. r.ok = TRUE /\ r.off = o + h[n] /\ r.views = view
  BY <1>10, <1>18, <1>19
<1>21. DOMAIN view = 1 .. n /\ Len(view) = n
  BY <1>11
<1>22. ASSUME NEW j \in 1 .. n
       PROVE  Shows(body, view[j], values[j], FormatOf(formats, j))
  <2> DEFINE p == o + h[j - 1]
             v == values[j]
  <2>1. j - 1 \in 0 .. n
    OBVIOUS
  <2>2. p \in Nat /\ LegalValue(v) /\ StandsAt(body, p, ValueBytes(v))
    <3>1. p \in Nat /\ LegalValue(v)
      BY <1>4, <2>1
    <3>2. StandsAt(body, p, c[j]) /\ c[j] = ValueBytes(v)
      BY <1>3, <1>5, Zenon
    <3> QED
      BY <3>1, <3>2
  <2>3. view[j].length = v.length /\ view[j].off = p + 4 /\ view[j].format = FormatOf(formats, j)
    BY <1>12
  <2> HIDE DEF p
  <2>4. Slice(body, p + 4, Len(v.data)) = v.data
    <3> HIDE DEF v
    <3> QED
      BY <2>2, ValueBack
  <2> QED
    BY <2>3, <2>4 DEF Shows
<1> HIDE DEF r
<1>23. r.off = off + 2 + Len(rest)
  BY <1>1, <1>2, <1>20 DEF o
<1> QED
  BY <1>20, <1>21, <1>22, <1>23 DEF r, Decodes

\* What pqwire_send_bind is called with: names without a zero byte, lists within
\* the limits, 16-bit formats, and values of the length that is stated.
Encodable(portal, statement, formats, values, results) ==
    /\ portal \in Seq(1 .. 255) /\ statement \in Seq(1 .. 255)
    /\ formats \in Seq(Words) /\ Len(formats) <= PQWIRE_MAX_BIND_PARAMS
    /\ Len(values) \in Nat /\ Len(values) <= PQWIRE_MAX_BIND_PARAMS
    /\ DOMAIN values = 1 .. Len(values)
    /\ \A j \in 1 .. Len(values) : LegalValue(values[j])
    /\ results \in Seq(Words) /\ Len(results) <= PQWIRE_MAX_BIND_PARAMS

\* What stands where in the message.
Layout(portal, statement, formats, values, results) ==
    LET body == send_bind(portal, statement, formats, values, results)
        rest == FlattenSeq([j \in DOMAIN values |-> ValueBytes(values[j])])
        o1 == Len(portal) + 1
        o2 == o1 + (Len(statement) + 1)
        o3 == o2 + (2 + 2 * Len(formats))
    IN  /\ body \in Bodies /\ rest \in Bodies
        /\ StandsAt(body, 0, Name(portal)) /\ StandsAt(body, o1, Name(statement))
        /\ StandsAt(body, o2, Counted(formats)) /\ StandsAt(body, o3, wr16_be(Len(values)))
        /\ StandsAt(body, o3 + 2, rest) /\ StandsAt(body, o3 + 2 + Len(rest), Counted(results))
LEMMA BindBytes ==
    ASSUME NEW portal, NEW statement, NEW formats, NEW values, NEW results,
           Encodable(portal, statement, formats, values, results)
    PROVE  Layout(portal, statement, formats, values, results)
<1> DEFINE n == Len(values)
<1>0. /\ portal \in Seq(1 .. 255) /\ statement \in Seq(1 .. 255)
      /\ formats \in Seq(Words) /\ Len(formats) <= PQWIRE_MAX_BIND_PARAMS
      /\ n \in Nat /\ n <= PQWIRE_MAX_BIND_PARAMS /\ DOMAIN values = 1 .. n
      /\ \A j \in 1 .. n : LegalValue(values[j])
      /\ results \in Seq(Words) /\ Len(results) <= PQWIRE_MAX_BIND_PARAMS
  BY DEF Encodable
<1> HIDE DEF n
<1> DEFINE body == send_bind(portal, statement, formats, values, results)
           x1 == Name(portal)
           x2 == Name(statement)
           x3 == Counted(formats)
           x4 == wr16_be(n)
           x5 == FlattenSeq([j \in DOMAIN values |-> ValueBytes(values[j])])
           x6 == Counted(results)
<1>1. x1 \in Bodies /\ Len(x1) = Len(portal) + 1 /\ Len(portal) \in Nat
  BY <1>0, NameBytes
<1>2. x2 \in Bodies /\ Len(x2) = Len(statement) + 1 /\ Len(statement) \in Nat
  BY <1>0, NameBytes
<1>3. x3 \in Bodies /\ Len(x3) = 2 + 2 * Len(formats) /\ Len(formats) \in Nat
  BY <1>0, CountedBytes
<1>4. x4 \in Bodies /\ Len(x4) = 2
  <2>1. Word(n)
    BY <1>0, BindCodecAssumption DEF Word
  <2> QED
    BY <2>1, WordBytes DEF Bodies
<1>5. x5 \in Bodies
  BY <1>0, ValuesLoop
<1>6. x6 \in Bodies
  BY <1>0, CountedBytes
<1>7. body = x1 \o x2 \o x3 \o x4 \o x5 \o x6
  BY DEF send_bind, ValueBytes, n
<1> HIDE DEF x1, x2, x3, x4, x5, x6, body
<1> DEFINE y2 == x1 \o x2
           y3 == y2 \o x3
           y4 == y3 \o x4
           y5 == y4 \o x5
           y6 == y5 \o x6
<1>8. y2 \in Bodies /\ Len(y2) = Len(x1) + Len(x2)
  BY <1>1, <1>2, ConcatBytes
<1> HIDE DEF y2
<1>9. y3 \in Bodies /\ Len(y3) = Len(y2) + Len(x3)
  BY <1>3, <1>8, ConcatBytes
<1> HIDE DEF y3
<1>10. y4 \in Bodies /\ Len(y4) = Len(y3) + Len(x4)
  BY <1>4, <1>9, ConcatBytes
<1> HIDE DEF y4
<1>11. y5 \in Bodies /\ Len(y5) = Len(y4) + Len(x5)
  BY <1>5, <1>10, ConcatBytes
<1> HIDE DEF y5
<1>12. y6 \in Bodies
  BY <1>6, <1>11, ConcatBytes
<1>13. body = y6
  BY <1>7 DEF y2, y3, y4, y5
<1>14. StandsAt(body, 0, y5 \o x6)
  BY <1>12, <1>13, AtWhole
<1> HIDE DEF y6
<1>15. body \in Bodies /\ 0 \in Nat
  BY <1>12, <1>13
<1>16. StandsAt(body, 0, y5) /\ StandsAt(body, 0 + Len(y5), x6)
  BY <1>6, <1>11, <1>14, <1>15, AtConcat
<1>17. StandsAt(body, 0, y4) /\ StandsAt(body, 0 + Len(y4), x5)
  BY <1>5, <1>10, <1>15, <1>16, AtConcat DEF y5
<1>18. StandsAt(body, 0, y3) /\ StandsAt(body, 0 + Len(y3), x4)
  BY <1>4, <1>9, <1>15, <1>17, AtConcat DEF y4
<1>19. StandsAt(body, 0, y2) /\ StandsAt(body, 0 + Len(y2), x3)
  BY <1>3, <1>8, <1>15, <1>18, AtConcat DEF y3
<1>20. StandsAt(body, 0, x1) /\ StandsAt(body, 0 + Len(x1), x2)
  BY <1>1, <1>2, <1>15, <1>19, AtConcat DEF y2
<1> DEFINE o1 == Len(portal) + 1
           o2 == o1 + (Len(statement) + 1)
           o3 == o2 + (2 + 2 * Len(formats))
<1>21. Len(x5) \in Nat
  BY <1>5 DEF Bodies
<1>22. /\ 0 + Len(x1) = o1 /\ 0 + Len(y2) = o2 /\ 0 + Len(y3) = o3 /\ 0 + Len(y4) = o3 + 2
       /\ 0 + Len(y5) = o3 + 2 + Len(x5)
  <2>1. 0 + Len(x1) = o1 /\ o1 \in Nat /\ Len(x1) = o1
    BY <1>1
  <2>2. 0 + Len(y2) = o2 /\ Len(y2) = o2 /\ o2 \in Nat
    <3> HIDE DEF o1
    <3>1. Len(y2) = o1 + (Len(statement) + 1)
      BY <1>2, <1>8, <2>1
    <3> QED
      BY <1>2, <2>1, <3>1
  <2> HIDE DEF o2
  <2>3. 0 + Len(y3) = o3 /\ Len(y3) = o3 /\ o3 \in Nat
    BY <1>3, <1>9, <2>2
  <2> HIDE DEF o3
  <2>4. 0 + Len(y4) = o3 + 2 /\ Len(y4) = o3 + 2
    BY <1>4, <1>10, <2>3
  <2>5. 0 + Len(y5) = o3 + 2 + Len(x5)
    BY <1>11, <1>21, <2>3, <2>4
  <2> QED
    BY <2>1, <2>2, <2>3, <2>4, <2>5
<1> HIDE DEF o1, o2, o3
<1>23. /\ StandsAt(body, 0, x1) /\ StandsAt(body, o1, x2) /\ StandsAt(body, o2, x3) /\ StandsAt(body, o3, x4)
       /\ StandsAt(body, o3 + 2, x5) /\ StandsAt(body, o3 + 2 + Len(x5), x6)
  BY <1>16, <1>17, <1>18, <1>19, <1>20, <1>22
<1> QED
  BY <1>5, <1>15, <1>23 DEF x1, x2, x3, x4, x5, x6, o1, o2, o3, body, n, Layout

RoundTrips(portal, statement, formats, values, results) ==
    LET body == send_bind(portal, statement, formats, values, results)
        bind == parse_bind_msg(body)
        n == Len(values)
    IN  /\ bind.event /\ bind.formats = formats /\ bind.result_formats = results
        /\ DOMAIN bind.params = 1 .. n /\ Len(bind.params) = n
        /\ \A j \in 1 .. n :
               Shows(body, bind.params[j], values[j], FormatOf(formats, j))

\* What pqwire_send_bind encodes within the limits, parse_bind_msg decodes: the
\* formats, as many parameters, each with its length, its format and its bytes,
\* and the result formats.  Names and sizes are arbitrary.
THEOREM BindRoundTrip ==
    ASSUME NEW portal, NEW statement, NEW formats, NEW values, NEW results,
           Encodable(portal, statement, formats, values, results)
    PROVE  RoundTrips(portal, statement, formats, values, results)
<1> DEFINE n == Len(values)
<1>0. /\ portal \in Seq(1 .. 255) /\ statement \in Seq(1 .. 255)
      /\ formats \in Seq(Words) /\ Len(formats) <= PQWIRE_MAX_BIND_PARAMS
      /\ n \in Nat /\ n <= PQWIRE_MAX_BIND_PARAMS /\ DOMAIN values = 1 .. n
      /\ \A j \in 1 .. n : LegalValue(values[j])
      /\ results \in Seq(Words) /\ Len(results) <= PQWIRE_MAX_BIND_PARAMS
  BY DEF Encodable
<1> HIDE DEF n
<1> DEFINE body == send_bind(portal, statement, formats, values, results)
           rest == FlattenSeq([j \in DOMAIN values |-> ValueBytes(values[j])])
           o1 == Len(portal) + 1
           o2 == o1 + (Len(statement) + 1)
           o3 == o2 + (2 + 2 * Len(formats))
           o4 == o3 + 2 + Len(rest)
<1>1. /\ body \in Bodies /\ rest \in Bodies
      /\ StandsAt(body, 0, Name(portal)) /\ StandsAt(body, o1, Name(statement))
      /\ StandsAt(body, o2, Counted(formats)) /\ StandsAt(body, o3, wr16_be(n))
      /\ StandsAt(body, o3 + 2, rest) /\ StandsAt(body, o4, Counted(results))
  <2>1. Layout(portal, statement, formats, values, results)
    BY BindBytes
  <2> QED
    BY <2>1 DEF Layout, n
<1>2. Len(portal) \in Nat /\ Len(statement) \in Nat /\ Len(formats) \in Nat /\ Len(results) \in Nat
  BY <1>0
<1>3. Len(rest) \in Nat /\ Len(body) \in Nat
  BY <1>1 DEF Bodies
<1> HIDE DEF body
<1>4. rest = FlattenSeq([j \in DOMAIN values |-> ValueBytes(values[j])])
  OBVIOUS
<1> HIDE DEF rest
<1>5. o1 \in Nat
  BY <1>2
<1>6. AfterCstr(body, 0) = o1
  <2>1. AfterCstr(body, 0) = 0 + Len(portal) + 1
    BY <1>0, <1>1, NameEnds
  <2> QED
    BY <1>2, <2>1
<1>7. o1 = Len(portal) + 1
  OBVIOUS
<1> HIDE DEF o1
<1>8. o2 \in Nat /\ o2 = o1 + Len(statement) + 1
  BY <1>2, <1>5
<1>9. AfterCstr(body, o1) = o2
  BY <1>0, <1>1, <1>5, <1>8, NameEnds
<1> HIDE DEF o2
<1>10. o3 \in Nat /\ o3 = o2 + 2 + 2 * Len(formats)
  BY <1>2, <1>8
<1> HIDE DEF o3
<1>11. ReadNumbers(body, o2) = [list |-> formats, off |-> o3] /\ o2 + 2 <= Len(body)
  <2>1. /\ o2 + 2 + 2 * Len(formats) <= Len(body)
        /\ ReadNumbers(body, o2) = [list |-> formats, off |-> o2 + 2 + 2 * Len(formats)]
    BY <1>0, <1>1, <1>8, NumbersBack
  <2> QED
    BY <1>2, <1>3, <1>8, <1>10, <2>1
<1>12. o4 \in Nat
  BY <1>3, <1>10
<1> DEFINE params == ReadParams(body, o3, formats)
<1>13. /\ params.ok = TRUE /\ params.off = o4
       /\ DOMAIN params.views = 1 .. n /\ Len(params.views) = n
       /\ \A j \in 1 .. n : Shows(body, params.views[j], values[j], FormatOf(formats, j))
  <2>1. Decodes(body, o3, formats, values, n, rest)
    BY <1>0, <1>1, <1>4, <1>10, ValuesBack
  <2> QED
    BY <2>1 DEF Decodes
<1>14. o3 + 2 <= Len(body)
  <2>1. o3 + 2 + Len(rest) <= Len(body)
    BY <1>1 DEF StandsAt
  <2> QED
    BY <1>3, <1>10, <2>1
<1> HIDE DEF o4
<1>15. ReadNumbers(body, o4).list = results /\ o4 + 2 <= Len(body)
  <2>1. /\ o4 + 2 + 2 * Len(results) <= Len(body)
        /\ ReadNumbers(body, o4) = [list |-> results, off |-> o4 + 2 + 2 * Len(results)]
    BY <1>0, <1>1, <1>12, NumbersBack
  <2> QED
    BY <1>2, <1>3, <1>12, <2>1
<1> DEFINE names == IF AfterCstr(body, 0) = Absent THEN Absent ELSE AfterCstr(body, AfterCstr(body, 0))
<1>16. names = o2
  BY <1>5, <1>6, <1>9 DEF Absent
<1> HIDE DEF params
<1>17. Room(body, o2) /\ Room(body, o3) /\ Room(body, o4)
  <2>1. \A x \in Nat : x # Absent
    BY DEF Absent
  <2>2. o2 # Absent /\ o3 # Absent /\ o4 # Absent
    BY <1>8, <1>10, <1>12, <2>1
  <2> QED
    BY <1>11, <1>14, <1>15, <2>2, Zenon DEF Room
<1> DEFINE fs == ReadNumbers(body, names)
<1>18. fs.list = formats /\ fs.off = o3
  BY <1>11, <1>16
<1>19. parse_bind_msg(body) =
           IF \/ ~Room(body, names) \/ ~Room(body, fs.off)
              \/ ~ReadParams(body, fs.off, fs.list).ok
           THEN NoBind
           ELSE [event |-> TRUE, formats |-> fs.list,
                 params |-> ReadParams(body, fs.off, fs.list).views,
                 result_formats |-> IF Room(body, ReadParams(body, fs.off, fs.list).off)
                                    THEN ReadNumbers(body, ReadParams(body, fs.off, fs.list).off).list
                                    ELSE <<>>]
  BY DEF parse_bind_msg
<1> HIDE DEF fs, names
<1>20. ReadParams(body, fs.off, fs.list) = params
  BY <1>18 DEF params
<1>21. parse_bind_msg(body) =
           [event |-> TRUE, formats |-> formats, params |-> params.views,
            result_formats |-> results]
  BY <1>13, <1>15, <1>16, <1>17, <1>18, <1>19, <1>20
<1> DEFINE bind == parse_bind_msg(body)
<1>22. /\ bind.event = TRUE /\ bind.formats = formats /\ bind.params = params.views
       /\ bind.result_formats = results
  BY <1>21
<1> HIDE DEF bind
<1> QED
  BY <1>13, <1>22 DEF bind, body, n, RoundTrips

-----------------------------------------------------------------------------
(* The owned parameters.  A memory is accounted for, but for the blocks of  *)
(* T, if its parameters own the other live blocks, one each.                *)

Slots == 1 .. PQWIRE_MAX_BIND_PARAMS

IsParam(p) ==
    /\ DOMAIN p = {"length", "data", "owned", "format"}
    /\ p.data \in Nat /\ p.owned \in BOOLEAN
IsMemory(m) ==
    /\ DOMAIN m = {"params", "heap"}
    /\ DOMAIN m.params = Slots
    /\ \A k \in Slots : IsParam(m.params[k])
    /\ DOMAIN m.heap \subseteq Nat \ {0}
    /\ IsFiniteSet(DOMAIN m.heap)
Owner(m, k) == m.params[k].owned /\ m.params[k].data # NULL
AccountedBut(m, T) ==
    /\ T \subseteq DOMAIN m.heap
    /\ \A k \in Slots : Owner(m, k) => m.params[k].data \in DOMAIN m.heap \ T
    /\ \A b \in DOMAIN m.heap \ T : \E k \in Slots : Owner(m, k) /\ m.params[k].data = b
    /\ \A k, l \in Slots :
           Owner(m, k) /\ Owner(m, l) /\ m.params[k].data = m.params[l].data => k = l
Accounted(m, T) == IsMemory(m) /\ AccountedBut(m, T)

\* malloc finds a block that is not in use.
LEMMA FreshBlockIsFresh ==
    ASSUME NEW heap, IsFiniteSet(DOMAIN heap)
    PROVE  FreshBlock(heap) \in Nat \ {0} /\ FreshBlock(heap) \notin DOMAIN heap
<1> DEFINE c == Cardinality(DOMAIN heap)
           D == DOMAIN heap
<1>1. c \in Nat
  BY FS_CardinalityType
<1>2. \E b \in 1 .. c + 1 : b \notin D
  <2> SUFFICES ASSUME 1 .. c + 1 \subseteq D
               PROVE  FALSE
    OBVIOUS
  <2>1. Cardinality(1 .. c + 1) <= Cardinality(D)
    BY FS_Subset
  <2>2. 1 \in Int /\ c + 1 \in Int
    BY <1>1
  <2>3. Cardinality(1 .. c + 1) = IF 1 > c + 1 THEN 0 ELSE (c + 1) - 1 + 1
    BY <2>2, FS_Interval
  <2> HIDE DEF c
  <2>4. Cardinality(1 .. c + 1) = c + 1
    BY <1>1, <2>3
  <2> QED
    BY <1>1, <2>1, <2>4 DEF c
<1>3. FreshBlock(heap) \in 1 .. c + 1 /\ FreshBlock(heap) \notin D
  BY <1>2 DEF FreshBlock
<1> QED
  BY <1>1, <1>3

LEMMA AllocateAccounts ==
    ASSUME NEW m, Accounted(m, {}), NEW data
    PROVE  LET b == FreshBlock(m.heap) IN
           /\ Accounted(Allocate(m, data), {b})
           /\ b \in Nat \ {0} /\ b \notin DOMAIN m.heap
<1> DEFINE b == FreshBlock(m.heap)
           a == Allocate(m, data)
<1>1. b \in Nat \ {0} /\ b \notin DOMAIN m.heap
  BY FreshBlockIsFresh DEF Accounted, IsMemory
<1>2. DOMAIN a = {"params", "heap"} /\ a.params = m.params /\ DOMAIN a.heap = DOMAIN m.heap \cup {b}
  BY DEF Allocate, Accounted, IsMemory
<1> HIDE DEF a, b
<1>3. IsFiniteSet(DOMAIN m.heap \cup {b})
  BY FS_AddElement DEF Accounted, IsMemory
<1>4. IsMemory(a)
  BY <1>1, <1>2, <1>3 DEF Accounted, IsMemory
<1>5. AccountedBut(a, {b})
  BY <1>1, <1>2 DEF Accounted, AccountedBut, Owner
<1> QED
  BY <1>1, <1>4, <1>5 DEF Accounted, a, b

LEMMA FreeAccounts ==
    ASSUME NEW m, NEW b, Accounted(m, {b})
    PROVE  Accounted(Free(m, b), {})
<1> DEFINE f == Free(m, b)
<1>1. DOMAIN f = {"params", "heap"} /\ f.params = m.params /\ DOMAIN f.heap = DOMAIN m.heap \ {b}
  BY DEF Free, Restrict, Accounted, IsMemory
<1> HIDE DEF f
<1>2. IsFiniteSet(DOMAIN m.heap \ {b})
  BY FS_RemoveElement DEF Accounted, IsMemory
<1>3. IsMemory(f)
  BY <1>1, <1>2 DEF Accounted, IsMemory
<1>4. AccountedBut(f, {})
  BY <1>1 DEF Accounted, AccountedBut, Owner
<1> QED
  BY <1>3, <1>4 DEF Accounted, f

LEMMA ExceptParam ==
    ASSUME NEW m, DOMAIN m = {"params", "heap"}, DOMAIN m.params = Slots,
           NEW i \in Slots, NEW p, NEW c, c = [m EXCEPT !.params[i] = p]
    PROVE  /\ DOMAIN c = {"params", "heap"} /\ DOMAIN c.params = Slots
           /\ c.params[i] = p /\ \A k \in Slots \ {i} : c.params[k] = m.params[k]
           /\ c.heap = m.heap
<1> DEFINE q == [m.params EXCEPT ![i] = p]
<1>1. c = [m EXCEPT !.params = q]
  OBVIOUS
<1>2. DOMAIN q = Slots /\ q[i] = p /\ \A k \in Slots \ {i} : q[k] = m.params[k]
  OBVIOUS
<1> HIDE DEF q
<1>3. DOMAIN c = {"params", "heap"} /\ c.params = q /\ c.heap = m.heap
  BY <1>1
<1> QED
  BY <1>2, <1>3

\* pqwire_param_clear releases the block of its parameter and no other.
LEMMA ClearAccounts ==
    ASSUME NEW T, NEW m, Accounted(m, T), NEW i \in Slots
    PROVE  /\ Accounted(Clear(m, i), T)
           /\ Clear(m, i).params[i].data = NULL
<1> DEFINE p == m.params[i]
           none == Param(-1, NULL, FALSE, 0)
           r == IF p.owned /\ p.data # NULL THEN Free(m, p.data) ELSE m
           c == Clear(m, i)
<1>0. IsParam(none) /\ none.data = NULL /\ ~none.owned
  <2>1. DOMAIN none = {"length", "data", "owned", "format"} /\ none.data = NULL
    BY DEF Param
  <2>2. ~none.owned
    BY DEF Param
  <2>3. none.owned \in BOOLEAN
    BY DEF Param
  <2> HIDE DEF none
  <2>4. none.data \in Nat
    BY <2>1 DEF NULL
  <2> QED
    BY <2>1, <2>2, <2>3, <2>4 DEF IsParam
<1>1. c = [r EXCEPT !.params[i] = none]
  BY DEF Clear
<1>2. /\ DOMAIN r = {"params", "heap"} /\ r.params = m.params
      /\ DOMAIN r.heap = IF Owner(m, i) THEN DOMAIN m.heap \ {p.data} ELSE DOMAIN m.heap
  BY DEF Free, Restrict, Accounted, IsMemory, Owner
<1>3. DOMAIN m.params = Slots
  BY DEF Accounted, IsMemory
<1> HIDE DEF r, c, none
<1>4. /\ DOMAIN c = {"params", "heap"} /\ DOMAIN c.params = Slots
      /\ c.params[i] = none /\ \A k \in Slots \ {i} : c.params[k] = m.params[k]
      /\ c.heap = r.heap
  BY <1>1, <1>2, <1>3, ExceptParam
<1>5. IsFiniteSet(DOMAIN c.heap)
  <2>1. IsFiniteSet(DOMAIN m.heap)
    BY DEF Accounted, IsMemory
  <2>2. IsFiniteSet(DOMAIN m.heap \ {p.data})
    BY <2>1, FS_RemoveElement
  <2> QED
    BY <1>2, <1>4, <2>1, <2>2
<1>6. IsMemory(c)
  <2>1. \A k \in Slots : IsParam(c.params[k])
    BY <1>0, <1>4 DEF Accounted, IsMemory
  <2>2. DOMAIN c.heap \subseteq Nat \ {0}
    BY <1>2, <1>4 DEF Accounted, IsMemory
  <2> QED
    BY <1>4, <1>5, <2>1, <2>2 DEF IsMemory
<1>7. ~Owner(c, i) /\ \A k \in Slots \ {i} : Owner(c, k) <=> Owner(m, k)
  BY <1>0, <1>4 DEF Owner
<1>8. AccountedBut(c, T)
  <2>0. AccountedBut(m, T)
    BY DEF Accounted
  <2>1. T \subseteq DOMAIN c.heap
    BY <1>2, <1>4, <2>0 DEF AccountedBut
  <2>2. ASSUME NEW k \in Slots, Owner(c, k)
        PROVE  c.params[k].data \in DOMAIN c.heap \ T
    <3>1. k # i /\ Owner(m, k) /\ c.params[k] = m.params[k]
      BY <1>4, <1>7, <2>2
    <3>2. Owner(m, i) => m.params[k].data # p.data
      BY <2>0, <3>1 DEF AccountedBut
    <3> QED
      BY <1>2, <1>4, <2>0, <3>1, <3>2 DEF AccountedBut
  <2>3. ASSUME NEW b \in DOMAIN c.heap \ T
        PROVE  \E k \in Slots : Owner(c, k) /\ c.params[k].data = b
    <3>1. b \in DOMAIN m.heap \ T
      BY <1>2, <1>4
    <3>2. PICK k \in Slots : Owner(m, k) /\ m.params[k].data = b
      BY <2>0, <3>1 DEF AccountedBut
    <3>3. k # i
      BY <1>2, <1>4, <3>2
    <3> QED
      BY <1>4, <1>7, <3>2, <3>3
  <2>4. \A k, l \in Slots :
           Owner(c, k) /\ Owner(c, l) /\ c.params[k].data = c.params[l].data => k = l
    BY <1>4, <1>7, <2>0 DEF AccountedBut
  <2> QED
    BY <2>1, <2>2, <2>3, <2>4 DEF AccountedBut
<1> QED
  BY <1>0, <1>4, <1>6, <1>8 DEF Accounted, c

\* A cleared parameter may take a new block, or none.
LEMMA OwnAccounts ==
    ASSUME NEW T, NEW m, Accounted(m, T), NEW i \in Slots, m.params[i].data = NULL,
           NEW data, NEW format
    PROVE  Accounted(Own(m, i, data, format), T)
<1> DEFINE b == FreshBlock(m.heap)
           a == Allocate(m, data)
           p == Param(Len(data), b, TRUE, format)
           c == Own(m, i, data, format)
<1>0. b \in Nat \ {0} /\ b \notin DOMAIN m.heap
  BY FreshBlockIsFresh DEF Accounted, IsMemory
<1>1. DOMAIN a = {"params", "heap"} /\ a.params = m.params /\ DOMAIN a.heap = DOMAIN m.heap \cup {b}
  BY DEF Allocate, Accounted, IsMemory
<1>2. IsParam(p) /\ p.data = b /\ p.owned
  <2>1. DOMAIN p = {"length", "data", "owned", "format"} /\ p.data = b
    BY DEF Param
  <2>2. p.owned
    BY DEF Param
  <2>3. p.owned \in BOOLEAN
    BY DEF Param
  <2> HIDE DEF p
  <2> QED
    BY <1>0, <2>1, <2>2, <2>3 DEF IsParam
<1>3. c = [a EXCEPT !.params[i] = p]
  BY DEF Own
<1> HIDE DEF a, b, c, p
<1>4. /\ DOMAIN c = {"params", "heap"} /\ DOMAIN c.params = Slots
      /\ c.params[i] = p /\ \A k \in Slots \ {i} : c.params[k] = m.params[k]
      /\ c.heap = a.heap
  BY <1>1, <1>3, ExceptParam DEF Accounted, IsMemory
<1>5. IsFiniteSet(DOMAIN c.heap)
  BY <1>1, <1>4, FS_AddElement DEF Accounted, IsMemory
<1>6. IsMemory(c)
  BY <1>0, <1>1, <1>2, <1>4, <1>5 DEF Accounted, IsMemory
<1>7. /\ Owner(c, i) /\ ~Owner(m, i)
      /\ \A k \in Slots \ {i} : Owner(c, k) <=> Owner(m, k)
  BY <1>0, <1>2, <1>4 DEF Owner, NULL
<1>8. AccountedBut(c, T)
  <2>0. AccountedBut(m, T)
    BY DEF Accounted
  <2>1. T \subseteq DOMAIN c.heap /\ b \notin T /\ DOMAIN c.heap = DOMAIN m.heap \cup {b}
    BY <1>0, <1>1, <1>4, <2>0 DEF AccountedBut
  <2>2. ASSUME NEW k \in Slots, Owner(c, k)
        PROVE  c.params[k].data \in DOMAIN c.heap \ T
    BY <1>2, <1>4, <1>7, <2>0, <2>1, <2>2 DEF AccountedBut
  <2>3. ASSUME NEW d \in DOMAIN c.heap \ T
        PROVE  \E k \in Slots : Owner(c, k) /\ c.params[k].data = d
    <3>1. CASE d = b
      BY <1>2, <1>4, <1>7, <3>1
    <3>2. CASE d # b
      <4>1. PICK k \in Slots : Owner(m, k) /\ m.params[k].data = d
        BY <2>0, <2>1, <3>2 DEF AccountedBut
      <4> QED
        BY <1>4, <1>7, <4>1
    <3> QED
      BY <3>1, <3>2
  <2>4. ASSUME NEW k \in Slots, NEW l \in Slots, Owner(c, k), Owner(c, l),
               c.params[k].data = c.params[l].data
        PROVE  k = l
    <3>1. \A j \in Slots \ {i} : Owner(c, j) => c.params[j].data # b
      BY <1>0, <1>4, <1>7, <2>0 DEF AccountedBut
    <3> QED
      BY <1>2, <1>4, <1>7, <2>0, <2>4, <3>1 DEF AccountedBut
  <2> QED
    BY <2>1, <2>2, <2>3, <2>4 DEF AccountedBut
<1> QED
  BY <1>6, <1>8 DEF Accounted, c

\* Replacing a parameter that has no block by another one that has none.
LEMMA BlocklessAccounts ==
    ASSUME NEW T, NEW m, Accounted(m, T), NEW i \in Slots, m.params[i].data = NULL,
           NEW p, IsParam(p), p.data = NULL, NEW c, c = [m EXCEPT !.params[i] = p]
    PROVE  Accounted(c, T)
<1>1. /\ DOMAIN c = {"params", "heap"} /\ DOMAIN c.params = Slots
      /\ c.params[i] = p /\ \A k \in Slots \ {i} : c.params[k] = m.params[k]
      /\ c.heap = m.heap
  BY ExceptParam DEF Accounted, IsMemory
<1>2. IsMemory(c)
  BY <1>1 DEF Accounted, IsMemory
<1>3. \A k \in Slots : /\ Owner(c, k) <=> Owner(m, k)
                       /\ Owner(m, k) => c.params[k] = m.params[k]
  BY <1>1 DEF Owner
<1>4. AccountedBut(c, T)
  BY <1>1, <1>3 DEF Accounted, AccountedBut
<1> QED
  BY <1>2, <1>4 DEF Accounted

LEMMA OwnNothingAccounts ==
    ASSUME NEW T, NEW m, Accounted(m, T), NEW i \in Slots, m.params[i].data = NULL,
           NEW format
    PROVE  Accounted(OwnNothing(m, i, format), T)
<1> DEFINE p == Param(0, NULL, TRUE, format)
<1>1. IsParam(p) /\ p.data = NULL
  <2>1. DOMAIN p = {"length", "data", "owned", "format"} /\ p.data = NULL
    BY DEF Param
  <2>2. p.owned \in BOOLEAN
    BY DEF Param
  <2> HIDE DEF p
  <2>3. p.data \in Nat
    BY <2>1 DEF NULL
  <2> QED
    BY <2>1, <2>2, <2>3 DEF IsParam
<1> HIDE DEF p
<1>2. OwnNothing(m, i, format) = [m EXCEPT !.params[i] = p]
  BY DEF OwnNothing, p
<1> QED
  BY <1>1, <1>2, BlocklessAccounts

\* The setters, whether or not their malloc succeeds.
LEMMA SetTextAccounts ==
    ASSUME NEW T, NEW m, Accounted(m, T), NEW i \in Slots, NEW data,
           NEW o \in SetText(m, i, data)
    PROVE  Accounted(o.mem, T)
<1> DEFINE c == Clear(m, i)
           text == Text(data)
<1>1. Accounted(c, T) /\ c.params[i].data = NULL
  BY ClearAccounts
<1>2. \/ o.mem = Own(c, i, text, 0)
      \/ o.mem = OwnNothing(c, i, 0)
      \/ o.mem = c
  BY DEF SetText, Outcome
<1> HIDE DEF c, text
<1> QED
  BY <1>1, <1>2, OwnAccounts, OwnNothingAccounts

LEMMA SetBinaryAccounts ==
    ASSUME NEW T, NEW m, Accounted(m, T), NEW i \in Slots, NEW data,
           NEW o \in SetBinary(m, i, data)
    PROVE  Accounted(o.mem, T)
<1> DEFINE c == Clear(m, i)
<1>1. Accounted(c, T) /\ c.params[i].data = NULL
  BY ClearAccounts
<1>2. \/ o.mem = Own(c, i, data, 1)
      \/ o.mem = OwnNothing(c, i, 1)
      \/ o.mem = c
  BY DEF SetBinary, Outcome
<1> HIDE DEF c
<1> QED
  BY <1>1, <1>2, OwnAccounts, OwnNothingAccounts

LEMMA SetNullAccounts ==
    ASSUME NEW T, NEW m, Accounted(m, T), NEW i \in Slots, NEW format,
           NEW o \in SetNull(m, i, format)
    PROVE  Accounted(o.mem, T)
<1> DEFINE c == Clear(m, i)
           p == [c.params[i] EXCEPT !.format = format]
<1>1. Accounted(c, T) /\ c.params[i].data = NULL
  BY ClearAccounts
<1>2. o.mem = [c EXCEPT !.params[i].format = format]
  BY DEF SetNull, Outcome
<1>3. o.mem = [c EXCEPT !.params[i] = p]
  BY <1>2
<1> HIDE DEF c
<1>4. IsParam(c.params[i])
  BY <1>1 DEF Accounted, IsMemory
<1>5. IsParam(p) /\ p.data = NULL
  BY <1>1, <1>4 DEF IsParam
<1> HIDE DEF p
<1> QED
  BY <1>1, <1>3, <1>5, BlocklessAccounts

\* The copy with a terminator is released on every path.
LEMMA CopyTextAccounts ==
    ASSUME NEW m, Accounted(m, {}), NEW i \in Slots, NEW data,
           NEW o \in CopyText(m, i, data)
    PROVE  Accounted(o.mem, {})
<1> DEFINE tmp == FreshBlock(m.heap)
           a == Allocate(m, data)
<1>1. Accounted(a, {tmp})
  BY AllocateAccounts
<1>2. \/ o.mem = m
      \/ \E q \in SetText(a, i, data) : o.mem = Free(q.mem, tmp)
  BY DEF CopyText, Outcome
<1> HIDE DEF a, tmp
<1>3. ASSUME NEW q \in SetText(a, i, data), o.mem = Free(q.mem, tmp)
      PROVE  Accounted(o.mem, {})
  <2>1. Accounted(q.mem, {tmp})
    BY <1>1, SetTextAccounts
  <2> QED
    BY <1>3, <2>1, FreeAccounts
<1> QED
  BY <1>2, <1>3

\* One iteration of pqwire_bind_inject_identity neither leaks a block nor
\* leaves a pointer to a freed one.
LEMMA InjectParamAccounts ==
    ASSUME NEW m, Accounted(m, {}), NEW body, NEW bind, NEW i \in Slots, NEW slot,
           NEW identity, NEW as_binary,
           NEW o \in InjectParam(m, body, bind, i, slot, identity, as_binary)
    PROVE  Accounted(o.mem, {})
<1> DEFINE v == bind.params[i]
           c == Clear(m, i)
           data == Slice(body, v.off, v.length)
<1>1. Accounted(c, {})
  BY ClearAccounts
<1>2. \/ o \in SetBinary(c, i, identity) \/ o \in SetText(c, i, identity)
      \/ o \in SetNull(c, i, v.format)
      \/ o \in SetBinary(c, i, data) \/ o \in CopyText(c, i, data)
  <2> HIDE DEF c, v, data
  <2>1. o \in (CASE i - 1 = slot -> IF as_binary THEN SetBinary(c, i, identity)
                                    ELSE SetText(c, i, identity)
                 [] i - 1 # slot /\ v.length < 0 -> SetNull(c, i, v.format)
                 [] i - 1 # slot /\ v.length >= 0 /\ v.format = 1 ->
                        SetBinary(c, i, data)
                 [] OTHER -> CopyText(c, i, data))
    BY DEF InjectParam, c, v, data
  <2> QED
    BY <2>1
<1> HIDE DEF c, v, data
<1> QED
  BY <1>1, <1>2, SetBinaryAccounts, SetTextAccounts, SetNullAccounts, CopyTextAccounts

\* Clearing the whole array leaves an empty heap.
LEMMA ClearAllAccounts ==
    ASSUME NEW m, Accounted(m, {})
    PROVE  Accounted(ClearAll(m), {})
<1> DEFINE none == Param(-1, NULL, FALSE, 0)
           freed == {m.params[k].data : k \in {j \in DOMAIN m.params : m.params[j].owned}}
           c == ClearAll(m)
<1>0. DOMAIN m.params = Slots /\ AccountedBut(m, {})
  BY DEF Accounted, IsMemory
<1>1. c = [params |-> [k \in DOMAIN m.params |-> none],
           heap |-> Restrict(m.heap, DOMAIN m.heap \ freed)]
  BY DEF ClearAll
<1>2. DOMAIN m.heap \ freed = {}
  <2> SUFFICES ASSUME NEW b \in DOMAIN m.heap
               PROVE  b \in freed
    OBVIOUS
  <2>1. PICK k \in Slots : Owner(m, k) /\ m.params[k].data = b
    BY <1>0 DEF AccountedBut
  <2> QED
    BY <1>0, <2>1 DEF Owner
<1>3. DOMAIN c = {"params", "heap"} /\ c.params = [k \in Slots |-> none]
      /\ DOMAIN c.heap = DOMAIN m.heap \ freed
  <2> HIDE DEF none, freed, c
  <2> QED
    BY <1>0, <1>1 DEF Restrict
<1>4. ~none.owned
  BY DEF Param
<1>5. none.owned \in BOOLEAN
  BY DEF Param
<1>6. DOMAIN none = {"length", "data", "owned", "format"} /\ none.data = NULL
  BY DEF Param
<1> HIDE DEF none, c, freed
<1>7. IsParam(none)
  BY <1>5, <1>6 DEF IsParam, NULL
<1>8. IsMemory(c)
  BY <1>2, <1>3, <1>7, FS_EmptySet DEF IsMemory
<1>9. AccountedBut(c, {})
  BY <1>2, <1>3, <1>4 DEF AccountedBut, Owner
<1> QED
  BY <1>8, <1>9 DEF Accounted, c

-----------------------------------------------------------------------------
(* What the parameters hold.                                               *)

\* A parameter is the same in two memories, its block included.
Same(m, c, k) ==
    /\ c.params[k] = m.params[k]
    /\ Owner(m, k) => c.heap[m.params[k].data] = m.heap[m.params[k].data]

\* It holds a value and a format.
Holds(m, k, v, format) ==
    /\ m.params[k].length = v.length /\ m.params[k].format = format
    /\ v.length > 0 => Owner(m, k) /\ m.heap[m.params[k].data] = v.data
Puts(m, c, i, v, format) ==
    /\ Holds(c, i, v, format)
    /\ \A k \in Slots \ {i} : Same(m, c, k)

LEMMA SameTransitive ==
    ASSUME NEW m, NEW c, NEW d, NEW k, Same(m, c, k), Same(c, d, k)
    PROVE  Same(m, d, k)
BY DEF Same, Owner

LEMMA SameHolds ==
    ASSUME NEW m, NEW c, NEW k, Same(m, c, k), NEW v, NEW format, Holds(m, k, v, format)
    PROVE  Holds(c, k, v, format)
BY DEF Same, Holds, Owner

\* malloc and free leave the other blocks alone.
LEMMA AllocateKeeps ==
    ASSUME NEW T, NEW m, Accounted(m, T), NEW data
    PROVE  /\ \A k \in Slots : Same(m, Allocate(m, data), k)
           /\ Allocate(m, data).heap[FreshBlock(m.heap)] = data
           /\ Allocate(m, data).params = m.params
           /\ DOMAIN Allocate(m, data) = {"params", "heap"}
           /\ DOMAIN Allocate(m, data).heap = DOMAIN m.heap \cup {FreshBlock(m.heap)}
<1> DEFINE b == FreshBlock(m.heap)
           a == Allocate(m, data)
<1>1. b \notin DOMAIN m.heap
  BY FreshBlockIsFresh DEF Accounted, IsMemory
<1>2. DOMAIN m = {"params", "heap"}
  BY DEF Accounted, IsMemory
<1>3. /\ DOMAIN a = {"params", "heap"} /\ a.params = m.params
      /\ a.heap = [x \in DOMAIN m.heap \cup {b} |-> IF x \in DOMAIN m.heap THEN m.heap[x] ELSE data]
  BY <1>2 DEF Allocate
<1> HIDE DEF a, b
<1>4. a.heap[b] = data /\ DOMAIN a.heap = DOMAIN m.heap \cup {b}
  BY <1>1, <1>3
<1>5. \A x \in DOMAIN m.heap : a.heap[x] = m.heap[x]
  BY <1>3
<1>6. \A k \in Slots : Owner(m, k) => m.params[k].data \in DOMAIN m.heap
  BY DEF Accounted, AccountedBut
<1>7. \A k \in Slots : Same(m, a, k)
  BY <1>3, <1>5, <1>6 DEF Same
<1> QED
  BY <1>3, <1>4, <1>7 DEF a, b

LEMMA FreeKeeps ==
    ASSUME NEW m, NEW b, Accounted(m, {b})
    PROVE  \A k \in Slots : Same(m, Free(m, b), k)
<1> DEFINE f == Free(m, b)
<1>1. DOMAIN m = {"params", "heap"}
  BY DEF Accounted, IsMemory
<1>2. f.params = m.params /\ f.heap = [x \in DOMAIN m.heap \ {b} |-> m.heap[x]]
  BY <1>1 DEF Free, Restrict
<1> HIDE DEF f
<1>3. \A x \in DOMAIN m.heap \ {b} : f.heap[x] = m.heap[x]
  BY <1>2
<1>4. \A k \in Slots : Owner(m, k) => m.params[k].data \in DOMAIN m.heap \ {b}
  BY DEF Accounted, AccountedBut
<1>5. \A k \in Slots : Same(m, f, k)
  BY <1>2, <1>3, <1>4 DEF Same
<1> QED
  BY <1>5 DEF f

LEMMA ClearKeeps ==
    ASSUME NEW T, NEW m, Accounted(m, T), NEW i \in Slots
    PROVE  /\ \A k \in Slots \ {i} : Same(m, Clear(m, i), k)
           /\ Clear(m, i).params[i] = Param(-1, NULL, FALSE, 0)
<1> DEFINE p == m.params[i]
           none == Param(-1, NULL, FALSE, 0)
           r == IF p.owned /\ p.data # NULL THEN Free(m, p.data) ELSE m
           c == Clear(m, i)
<1>1. c = [r EXCEPT !.params[i] = none]
  BY DEF Clear
<1>2. DOMAIN m = {"params", "heap"} /\ DOMAIN m.params = Slots
  BY DEF Accounted, IsMemory
<1>3. /\ DOMAIN r = {"params", "heap"} /\ r.params = m.params
      /\ \A x \in DOMAIN m.heap : (Owner(m, i) => x # p.data) => r.heap[x] = m.heap[x]
  BY <1>2 DEF Free, Restrict, Owner
<1> HIDE DEF r, c, none
<1>4. /\ c.params[i] = none /\ \A k \in Slots \ {i} : c.params[k] = m.params[k]
      /\ c.heap = r.heap
  BY <1>1, <1>2, <1>3, ExceptParam
<1>5. \A k \in Slots \ {i} : Owner(m, k) =>
          m.params[k].data \in DOMAIN m.heap /\ (Owner(m, i) => m.params[k].data # p.data)
  BY DEF Accounted, AccountedBut
<1>6. \A k \in Slots \ {i} : Same(m, c, k)
  BY <1>3, <1>4, <1>5 DEF Same
<1> QED
  BY <1>4, <1>6 DEF c, none

LEMMA OwnPuts ==
    ASSUME NEW T, NEW m, Accounted(m, T), NEW i \in Slots, NEW data \in Bodies, NEW format
    PROVE  Puts(m, Own(m, i, data, format), i, Value(Len(data), data), format)
<1> DEFINE b == FreshBlock(m.heap)
           a == Allocate(m, data)
           p == Param(Len(data), b, TRUE, format)
           c == Own(m, i, data, format)
           v == Value(Len(data), data)
<1>0. b \in Nat \ {0}
  BY FreshBlockIsFresh DEF Accounted, IsMemory
<1>1. /\ \A k \in Slots : Same(m, a, k)
      /\ a.heap[b] = data /\ a.params = m.params /\ DOMAIN a = {"params", "heap"}
  BY AllocateKeeps
<1>2. p.length = Len(data) /\ p.data = b /\ p.owned = TRUE /\ p.format = format
  BY DEF Param
<1>3. v.length = Len(data) /\ v.data = data
  BY DEF Value
<1>4. c = [a EXCEPT !.params[i] = p]
  BY DEF Own
<1>5. DOMAIN a.params = Slots
  BY <1>1 DEF Accounted, IsMemory
<1> HIDE DEF a, b, c, p, v
<1>6. /\ c.params[i] = p /\ \A k \in Slots \ {i} : c.params[k] = a.params[k]
      /\ c.heap = a.heap
  BY <1>1, <1>4, <1>5, ExceptParam
<1>7. Holds(c, i, v, format)
  BY <1>0, <1>1, <1>2, <1>3, <1>6 DEF Holds, Owner, NULL
<1>8. \A k \in Slots \ {i} : Same(m, c, k)
  BY <1>1, <1>6 DEF Same
<1> QED
  BY <1>7, <1>8 DEF Puts, c, v

\* Replacing a parameter leaves the others and the heap alone.
LEMMA ReplaceKeeps ==
    ASSUME NEW T, NEW m, Accounted(m, T), NEW i \in Slots, NEW p, NEW c,
           c = [m EXCEPT !.params[i] = p]
    PROVE  c.params[i] = p /\ \A k \in Slots \ {i} : Same(m, c, k)
<1>1. /\ c.params[i] = p /\ \A k \in Slots \ {i} : c.params[k] = m.params[k]
      /\ c.heap = m.heap
  BY ExceptParam DEF Accounted, IsMemory
<1> QED
  BY <1>1 DEF Same

LEMMA OwnNothingPuts ==
    ASSUME NEW T, NEW m, Accounted(m, T), NEW i \in Slots, NEW format
    PROVE  Puts(m, OwnNothing(m, i, format), i, Value(0, <<>>), format)
<1> DEFINE p == Param(0, NULL, TRUE, format)
           c == OwnNothing(m, i, format)
           v == Value(0, <<>>)
<1>1. p.length = 0 /\ p.format = format /\ v.length = 0
  BY DEF Param, Value
<1>2. c = [m EXCEPT !.params[i] = p]
  BY DEF OwnNothing
<1> HIDE DEF p, c, v
<1>3. c.params[i] = p /\ \A k \in Slots \ {i} : Same(m, c, k)
  <2>1. DOMAIN m = {"params", "heap"} /\ DOMAIN m.params = Slots
    BY DEF Accounted, IsMemory
  <2>2. /\ c.params[i] = p /\ \A k \in Slots \ {i} : c.params[k] = m.params[k]
        /\ c.heap = m.heap
    BY <1>2, <2>1, ExceptParam
  <2> QED
    BY <2>2 DEF Same
<1> QED
  BY <1>1, <1>3 DEF Puts, Holds, c, v

\* First clear, then put.
LEMMA PutsAfter ==
    ASSUME NEW m, NEW c, NEW d, NEW i, NEW v, NEW format,
           \A k \in Slots \ {i} : Same(m, c, k), Puts(c, d, i, v, format)
    PROVE  Puts(m, d, i, v, format)
BY SameTransitive DEF Puts

\* The setters, when they succeed.
LEMMA SetTextPuts ==
    ASSUME NEW T, NEW m, Accounted(m, T), NEW i \in Slots, NEW data,
           NEW text, text = Text(data), text \in Bodies,
           NEW o \in SetText(m, i, data), o.rc # Failure
    PROVE  Puts(m, o.mem, i, Value(Len(text), text), 0)
<1> DEFINE c == Clear(m, i)
<1>1. Accounted(c, T) /\ \A k \in Slots \ {i} : Same(m, c, k)
  BY ClearAccounts, ClearKeeps
<1>2. \/ o.mem = Own(c, i, text, 0)
      \/ o.mem = OwnNothing(c, i, 0) /\ text = <<>>
  BY DEF SetText, Outcome, Failure, Success
<1> HIDE DEF c
<1>3. CASE o.mem = Own(c, i, text, 0)
  BY <1>1, <1>3, OwnPuts, PutsAfter
<1>4. CASE o.mem = OwnNothing(c, i, 0) /\ text = <<>>
  <2>1. Len(text) = 0
    BY <1>4
  <2>2. Puts(c, o.mem, i, Value(Len(text), text), 0)
    BY <1>1, <1>4, <2>1, OwnNothingPuts
  <2> QED
    BY <1>1, <2>2, PutsAfter
<1> QED
  BY <1>2, <1>3, <1>4

LEMMA SetBinaryPuts ==
    ASSUME NEW T, NEW m, Accounted(m, T), NEW i \in Slots, NEW data \in Bodies,
           NEW o \in SetBinary(m, i, data), o.rc # Failure
    PROVE  Puts(m, o.mem, i, Value(Len(data), data), 1)
<1> DEFINE c == Clear(m, i)
<1>1. Accounted(c, T) /\ \A k \in Slots \ {i} : Same(m, c, k)
  BY ClearAccounts, ClearKeeps
<1>2. \/ o.mem = Own(c, i, data, 1)
      \/ o.mem = OwnNothing(c, i, 1) /\ data = <<>>
  BY DEF SetBinary, Outcome, Failure, Success
<1> HIDE DEF c
<1>3. CASE o.mem = Own(c, i, data, 1)
  BY <1>1, <1>3, OwnPuts, PutsAfter
<1>4. CASE o.mem = OwnNothing(c, i, 1) /\ data = <<>>
  <2>1. Len(data) = 0
    BY <1>4
  <2>2. Puts(c, o.mem, i, Value(Len(data), data), 1)
    BY <1>1, <1>4, <2>1, OwnNothingPuts
  <2> QED
    BY <1>1, <2>2, PutsAfter
<1> QED
  BY <1>2, <1>3, <1>4

LEMMA SetNullPuts ==
    ASSUME NEW T, NEW m, Accounted(m, T), NEW i \in Slots, NEW format,
           NEW o \in SetNull(m, i, format)
    PROVE  Puts(m, o.mem, i, Value(-1, <<>>), format)
<1> DEFINE c == Clear(m, i)
           p == [c.params[i] EXCEPT !.format = format]
           v == Value(-1, <<>>)
<1>1. Accounted(c, T) /\ \A k \in Slots \ {i} : Same(m, c, k)
  BY ClearAccounts, ClearKeeps
<1>2. o.mem = [c EXCEPT !.params[i] = p]
  BY DEF SetNull, Outcome
<1>3. p.length = -1 /\ p.format = format /\ v.length = -1
  <2>1. c.params[i] = Param(-1, NULL, FALSE, 0)
    BY ClearKeeps
  <2> HIDE DEF c
  <2> QED
    BY <2>1 DEF Param, Value
<1> HIDE DEF c, p, v
<1> DEFINE d == o.mem
<1>4. d.params[i] = p /\ \A k \in Slots \ {i} : Same(c, d, k)
  BY <1>1, <1>2, ReplaceKeeps
<1>5. Puts(c, d, i, v, format)
  BY <1>3, <1>4 DEF Puts, Holds
<1> QED
  BY <1>1, <1>5, PutsAfter DEF v

LEMMA CopyTextPuts ==
    ASSUME NEW m, Accounted(m, {}), NEW i \in Slots, NEW data,
           NEW text, text = Text(data), text \in Bodies,
           NEW o \in CopyText(m, i, data), o.rc # Failure
    PROVE  Puts(m, o.mem, i, Value(Len(text), text), 0)
<1> DEFINE tmp == FreshBlock(m.heap)
           a == Allocate(m, data)
           v == Value(Len(text), text)
<1>1. Accounted(a, {tmp}) /\ \A k \in Slots : Same(m, a, k)
  BY AllocateAccounts, AllocateKeeps
<1>2. PICK q \in SetText(a, i, data) : o.mem = Free(q.mem, tmp) /\ o.rc = q.rc
  BY DEF CopyText, Outcome, Failure
<1> HIDE DEF a, tmp, v
<1>3. Accounted(q.mem, {tmp})
  BY <1>1, SetTextAccounts
<1>4. Puts(a, q.mem, i, v, 0)
  BY <1>1, <1>2, SetTextPuts DEF v
<1>5. \A k \in Slots : Same(q.mem, o.mem, k)
  BY <1>2, <1>3, FreeKeeps
<1>6. Holds(o.mem, i, v, 0)
  BY <1>4, <1>5, SameHolds DEF Puts
<1>7. \A k \in Slots \ {i} : Same(m, o.mem, k)
  BY <1>1, <1>4, <1>5, SameTransitive DEF Puts
<1> QED
  BY <1>6, <1>7 DEF Puts, v

\* The text of a value ends at its first zero byte.
LEMMA TextType ==
    ASSUME NEW data \in Bodies
    PROVE  /\ Text(data) \in Bodies /\ Len(Text(data)) \in Nat /\ Len(Text(data)) <= Len(data)
           /\ data \in Seq(1 .. 255) => Text(data) = data
<1> DEFINE z == <<0>>
           x == data \o z
           ends == {k \in 0 .. Len(x) - 1 : x[k + 1] = 0}
           e == CHOOSE k \in ends : \A l \in ends : k <= l
<1>1. z \in Bodies /\ Len(z) = 1 /\ z[1] = 0
  BY DEF Bodies
<1> HIDE DEF z
<1>2. x \in Bodies /\ Len(x) = Len(data) + 1 /\ Len(data) \in Nat
  BY <1>1, ConcatBytes
<1>3. x[Len(data) + 1] = 0 /\ \A j \in 1 .. Len(data) : x[j] = data[j]
  <2> DEFINE B == 0 .. 255
  <2>1. data \in Seq(B) /\ z \in Seq(B)
    BY <1>1 DEF Bodies
  <2> HIDE DEF B
  <2>2. /\ \A j \in 1 .. Len(data) : (data \o z)[j] = data[j]
        /\ \A j \in 1 .. Len(z) : (data \o z)[Len(data) + j] = z[j]
    BY <2>1
  <2>3. 1 \in 1 .. Len(z)
    BY <1>1
  <2> QED
    BY <1>1, <2>2, <2>3
<1> HIDE DEF x
<1>4. Len(data) \in ends /\ ends \subseteq Nat
  BY <1>2, <1>3
<1>5. e \in ends /\ \A l \in ends : e <= l
  <2> HIDE DEF ends
  <2>1. \E k \in ends : \A l \in ends : k <= l
    BY <1>4, LeastNatural
  <2> QED
    BY <2>1
<1>6. AfterCstr(x, 0) = 1 + e
  BY <1>4 DEF AfterCstr
<1> HIDE DEF e
<1>7. e \in Nat /\ e <= Len(data) /\ (1 + e) - 1 = e
  BY <1>4, <1>5
<1>8. Text(data) = SubSeq(data, 1, e)
  <2>1. Text(data) = Slice(data, 0, AfterCstr(x, 0) - 1)
    BY DEF Text, x, z
  <2>2. AfterCstr(x, 0) - 1 = e
    BY <1>6, <1>7
  <2>3. 0 + 1 = 1 /\ 0 + e = e
    BY <1>7
  <2> QED
    BY <2>1, <2>2, <2>3 DEF Slice
<1>9. \A j \in 1 .. Len(data) : data[j] \in 0 .. 255
  BY ElementOfSeq DEF Bodies
<1>10. \A j \in 1 .. e : data[j] \in 0 .. 255
  BY <1>7, <1>9
<1> DEFINE t == SubSeq(data, 1, e)
<1>11. /\ t \in Seq(0 .. 255)
       /\ Len(t) = IF 1 <= e THEN e - 1 + 1 ELSE 0
       /\ \A j \in 1 .. e - 1 + 1 : t[j] = data[1 + j - 1]
  BY <1>7, <1>10, SubSeqProperties
<1> HIDE DEF t
<1>12. Len(t) = e
  BY <1>7, <1>11
<1>13. ASSUME data \in Seq(1 .. 255)
       PROVE  t = data
  <2>1. e = Len(data)
    <3> SUFFICES ASSUME e < Len(data)
                 PROVE  FALSE
      BY <1>2, <1>7
    <3>1. e + 1 \in 1 .. Len(data)
      BY <1>2, <1>7
    <3>2. x[e + 1] = data[e + 1]
      BY <1>3, <3>1
    <3>3. x[e + 1] = 0
      BY <1>5
    <3>4. data[e + 1] \in 1 .. 255
      BY <1>13, <3>1, ElementOfSeq
    <3>5. \A b \in 1 .. 255 : b # 0
      OBVIOUS
    <3> QED
      BY <3>2, <3>3, <3>4, <3>5, Zenon
  <2>2. \A j \in 1 .. Len(data) : t[j] = data[j]
    <3> SUFFICES ASSUME NEW j \in 1 .. Len(data)
                 PROVE  t[j] = data[j]
      OBVIOUS
    <3>1. j \in 1 .. e - 1 + 1 /\ 1 + j - 1 = j
      BY <1>2, <2>1
    <3> QED
      BY <1>11, <3>1
  <2> QED
    BY <1>11, <1>12, <2>1, <2>2, SeqEqual DEF Bodies
<1> QED
  BY <1>7, <1>8, <1>11, <1>12, <1>13 DEF t, Bodies

\* A shorter value fits as well.
LEMMA FitsLess ==
    ASSUME NEW a \in Nat, NEW b \in Nat, a <= b, FitsInt32(b)
    PROVE  FitsInt32(a)
BY SMT DEF FitsInt32

\* Views are as long as they say.
LEMMA SliceType ==
    ASSUME NEW body \in Bodies, NEW v, Inside(v, body), v.length >= 0
    PROVE  Slice(body, v.off, v.length) \in Bodies /\ Len(Slice(body, v.off, v.length)) = v.length
<1> DEFINE off == v.off
           n == v.length
           s == SubSeq(body, off + 1, off + n)
<1>1. off \in Nat /\ n \in Nat /\ (n > 0 => off + n <= Len(body)) /\ Len(body) \in Nat
  BY DEF Inside, Bodies
<1> HIDE DEF off, n
<1>2. \A j \in 1 .. Len(body) : body[j] \in 0 .. 255
  BY ElementOfSeq DEF Bodies
<1>3. \A j \in off + 1 .. off + n : j \in 1 .. Len(body)
  BY <1>1
<1>4. \A j \in off + 1 .. off + n : body[j] \in 0 .. 255
  BY <1>2, <1>3
<1>5. off + 1 \in Int /\ off + n \in Int
  BY <1>1
<1>6. /\ s \in Seq(0 .. 255)
      /\ Len(s) = IF off + 1 <= off + n THEN (off + n) - (off + 1) + 1 ELSE 0
  BY <1>4, <1>5, SubSeqProperties
<1> HIDE DEF s
<1>7. Len(s) = n
  BY <1>1, <1>6
<1> QED
  BY <1>6, <1>7 DEF s, Slice, off, n, Bodies

\* One iteration of pqwire_bind_inject_identity, when it succeeds: what it puts
\* into its parameter and in which format.
InjectedValue(body, bind, i, slot, identity) ==
    LET v == bind.params[i]
        data == Slice(body, v.off, v.length)
        text == Text(data)
    IN  IF i - 1 = slot THEN Value(Len(identity), identity)
        ELSE IF v.length < 0 THEN Value(-1, <<>>)
        ELSE IF v.format = 1 THEN Value(v.length, data)
        ELSE Value(Len(text), text)
InjectedFormat(bind, i, slot, as_binary) ==
    LET v == bind.params[i]
    IN  IF i - 1 = slot THEN (IF as_binary THEN 1 ELSE 0)
        ELSE IF v.length < 0 THEN v.format
        ELSE IF v.format = 1 THEN 1 ELSE 0
LEMMA InjectParamPuts ==
    ASSUME NEW m, Accounted(m, {}), NEW body \in Bodies, NEW bind, NEW i \in Slots, NEW slot,
           Inside(bind.params[i], body),
           NEW identity \in Seq(1 .. 255), NEW as_binary \in BOOLEAN,
           NEW o \in InjectParam(m, body, bind, i, slot, identity, as_binary),
           o.rc # Failure
    PROVE  Puts(m, o.mem, i, InjectedValue(body, bind, i, slot, identity),
                InjectedFormat(bind, i, slot, as_binary))
<1> DEFINE v == bind.params[i]
           c == Clear(m, i)
           data == Slice(body, v.off, v.length)
           text == Text(data)
           value == InjectedValue(body, bind, i, slot, identity)
           format == InjectedFormat(bind, i, slot, as_binary)
<1>1. Accounted(c, {}) /\ \A k \in Slots \ {i} : Same(m, c, k)
  BY ClearAccounts, ClearKeeps
<1>2. v.length \in Int
  BY DEF Inside
<1>3. v.length >= 0 => data \in Bodies /\ Len(data) = v.length
  BY SliceType
<1>4. identity \in Bodies /\ Text(identity) = identity
  BY NameBytes, TextType
<1>5. value = IF i - 1 = slot THEN Value(Len(identity), identity)
              ELSE IF v.length < 0 THEN Value(-1, <<>>)
              ELSE IF v.format = 1 THEN Value(v.length, data)
              ELSE Value(Len(text), text)
  BY DEF InjectedValue
<1>6. format = IF i - 1 = slot THEN (IF as_binary THEN 1 ELSE 0)
               ELSE IF v.length < 0 THEN v.format
               ELSE IF v.format = 1 THEN 1 ELSE 0
  BY DEF InjectedFormat
<1>7. o \in (CASE i - 1 = slot -> IF as_binary THEN SetBinary(c, i, identity)
                                  ELSE SetText(c, i, identity)
               [] i - 1 # slot /\ v.length < 0 -> SetNull(c, i, v.format)
               [] i - 1 # slot /\ v.length >= 0 /\ v.format = 1 -> SetBinary(c, i, data)
               [] OTHER -> CopyText(c, i, data))
  BY DEF InjectParam
<1>8. Text(data) = text
  OBVIOUS
<1>9. v.length >= 0 => text \in Bodies
  BY <1>3, TextType
<1> HIDE DEF v, c, data, text, value, format
<1>10. Puts(c, o.mem, i, value, format)
  <2>1. CASE i - 1 = slot /\ as_binary
    <3>1. o \in SetBinary(c, i, identity) /\ value = Value(Len(identity), identity) /\ format = 1
      BY <1>5, <1>6, <1>7, <2>1
    <3> QED
      BY <1>1, <1>4, <3>1, SetBinaryPuts
  <2>2. CASE i - 1 = slot /\ ~as_binary
    <3>1. o \in SetText(c, i, identity) /\ value = Value(Len(identity), identity) /\ format = 0
      BY <1>5, <1>6, <1>7, <2>2
    <3> QED
      BY <1>1, <1>4, <3>1, SetTextPuts
  <2>3. CASE i - 1 # slot /\ v.length < 0
    <3>1. o \in SetNull(c, i, v.format) /\ value = Value(-1, <<>>) /\ format = v.format
      BY <1>2, <1>5, <1>6, <1>7, <2>3
    <3> QED
      BY <1>1, <3>1, SetNullPuts
  <2>4. CASE i - 1 # slot /\ v.length >= 0 /\ v.format = 1
    <3>1. o \in SetBinary(c, i, data) /\ value = Value(Len(data), data) /\ format = 1
      BY <1>2, <1>3, <1>5, <1>6, <1>7, <2>4
    <3> QED
      BY <1>1, <1>3, <2>4, <3>1, SetBinaryPuts
  <2>5. CASE i - 1 # slot /\ v.length >= 0 /\ v.format # 1
    <3>1. o \in CopyText(c, i, data) /\ value = Value(Len(text), text) /\ format = 0
      BY <1>2, <1>5, <1>6, <1>7, <2>5
    <3> QED
      BY <1>1, <1>8, <1>9, <2>5, <3>1, CopyTextPuts
  <2> QED
    BY <1>2, <2>1, <2>2, <2>3, <2>4, <2>5
<1> QED
  BY <1>1, <1>10, PutsAfter DEF value, format

\* What is put there may be encoded.
LEMMA InjectedLegal ==
    ASSUME NEW body \in Bodies, NEW bind, NEW i, NEW slot, Inside(bind.params[i], body),
           bind.params[i].format \in Words,
           NEW identity \in Seq(1 .. 255), FitsInt32(Len(identity)), NEW as_binary \in BOOLEAN
    PROVE  /\ LegalValue(InjectedValue(body, bind, i, slot, identity))
           /\ InjectedFormat(bind, i, slot, as_binary) \in Words
<1> DEFINE v == bind.params[i]
           data == Slice(body, v.off, v.length)
           text == Text(data)
<1>1. v.length \in Int /\ FitsInt32(v.length)
  BY DEF Inside
<1>2. v.length >= 0 => data \in Bodies /\ Len(data) = v.length
  BY SliceType
<1>3. v.length >= 0 => text \in Bodies /\ FitsInt32(Len(text))
  BY <1>1, <1>2, TextType, FitsLess
<1>4. identity \in Bodies
  BY NameBytes
<1>5. 0 \in Words /\ 1 \in Words
  BY DEF Words, Word
<1>6. \A d \in Bodies : FitsInt32(Len(d)) => LegalValue(Value(Len(d), d))
  BY DEF LegalValue, Value
<1>7. LegalValue(Value(-1, <<>>))
  <2>1. FitsInt32(-1)
    BY SMT DEF FitsInt32
  <2>2. <<>> \in Bodies
    BY DEF Bodies
  <2> QED
    BY <2>1, <2>2 DEF LegalValue, Value
<1> HIDE DEF data, text
<1>8. LegalValue(InjectedValue(body, bind, i, slot, identity))
  <2>1. InjectedValue(body, bind, i, slot, identity) =
            IF i - 1 = slot THEN Value(Len(identity), identity)
            ELSE IF v.length < 0 THEN Value(-1, <<>>)
            ELSE IF v.format = 1 THEN Value(v.length, data)
            ELSE Value(Len(text), text)
    BY DEF InjectedValue, data, text
  <2> QED
    BY <1>1, <1>2, <1>3, <1>4, <1>6, <1>7, <2>1
<1>9. InjectedFormat(bind, i, slot, as_binary) \in Words
  BY <1>5 DEF InjectedFormat
<1> QED
  BY <1>8, <1>9

=============================================================================
