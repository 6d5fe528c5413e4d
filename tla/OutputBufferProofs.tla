------------------------- MODULE OutputBufferProofs -------------------------
(***************************************************************************)
(* Proofs about the output buffer, for every size of header, buffer and    *)
(* payload and any number of messages.                                     *)
(***************************************************************************)
EXTENDS OutputBuffer, NatRecursion, FiniteSetTheorems, SequenceTheorems

-----------------------------------------------------------------------------
(* What append_output and emit_msg may leave behind.                       *)

LEMMA BytesType ==
    ASSUME NEW k \in Nat, NEW piece \in {Header, Payload, Whole}, NEW n \in Nat
    PROVE  /\ Bytes(k, piece, n) \in Seq(Byte)
           /\ Len(Bytes(k, piece, n)) = n
           /\ \A i \in 1 .. n : Bytes(k, piece, n)[i] = [msg |-> k, piece |-> piece]
BY DEF Bytes, Byte

\* A buffer that holds no more than its capacity.
Sound(o) == o \in Output /\ Len(o.buf) <= o.cap

LEMMA AppendOutputOutcomes ==
    ASSUME NEW o, Sound(o), NEW bytes \in Seq(Byte),
           NEW p \in AppendOutput(o, bytes)
    PROVE  /\ Sound(p)
           /\ p.buf = o.buf \/ p.buf = o.buf \o bytes
<1>0. /\ o.buf \in Seq(Byte) /\ o.cap \in Nat /\ Len(o.buf) <= o.cap
      /\ o = [buf |-> o.buf, cap |-> o.cap]
  BY DEF Sound, Output
<1>1. CASE HasRoom(o, Len(bytes))
  <2>1. p = [o EXCEPT !.buf = o.buf \o bytes]
    BY <1>1 DEF AppendOutput
  <2>2. p = [buf |-> o.buf \o bytes, cap |-> o.cap]
    BY <1>0, <2>1
  <2>3. o.buf \o bytes \in Seq(Byte) /\ Len(o.buf \o bytes) = Len(o.buf) + Len(bytes)
    BY <1>0
  <2> QED
    BY <1>0, <1>1, <2>2, <2>3 DEF Sound, Output, HasRoom
<1>2. CASE ~HasRoom(o, Len(bytes))
  <2>1. p = [buf |-> o.buf \o bytes, cap |-> GrownCap(o, Len(bytes))] \/ p = o
    BY <1>2 DEF AppendOutput
  <2>2. o.buf \o bytes \in Seq(Byte) /\ Len(o.buf \o bytes) = Len(o.buf) + Len(bytes)
    BY <1>0
  <2>3. GrownCap(o, Len(bytes)) \in Nat
        /\ Len(o.buf) + Len(bytes) <= GrownCap(o, Len(bytes))
    BY <1>0, OutputAssumption DEF GrownCap
  <2>4. CASE p = o
    BY <2>4
  <2>5. CASE p = [buf |-> o.buf \o bytes, cap |-> GrownCap(o, Len(bytes))]
    <3>1. p.buf = o.buf \o bytes /\ p.cap = GrownCap(o, Len(bytes))
      BY <2>5
    <3>2. p \in Output
      BY <2>2, <2>3, <2>5 DEF Output
    <3> QED
      BY <1>0, <2>2, <2>3, <3>1, <3>2 DEF Sound
  <2> QED
    BY <2>1, <2>4, <2>5
<1> QED
  BY <1>1, <1>2

\* What one message may add to the buffer: both pieces, either or none.
Added(k, n) ==
    {<<>>, Bytes(k, Header, HeaderSize), Bytes(k, Payload, n),
     Bytes(k, Header, HeaderSize) \o Bytes(k, Payload, n)}

LEMMA PiecesOutcomes ==
    ASSUME NEW o, Sound(o), NEW k \in Nat, NEW n \in Nat,
           NEW p \in Pieces(o, k, n)
    PROVE  /\ Sound(p)
           /\ \E x \in Added(k, n) : p.buf = o.buf \o x
<1> DEFINE hd == Bytes(k, Header, HeaderSize)
           pl == Bytes(k, Payload, n)
<1>1. hd \in Seq(Byte) /\ pl \in Seq(Byte) /\ Len(pl) = n
  BY BytesType, OutputAssumption
<1>2. PICK h \in AppendOutput(o, hd) :
          p \in (IF n > 0 THEN AppendOutput(h, pl) ELSE {h})
  BY DEF Pieces
<1> HIDE DEF hd, pl
<1>3. Sound(h) /\ (h.buf = o.buf \/ h.buf = o.buf \o hd)
  BY <1>1, <1>2, AppendOutputOutcomes
<1>4. Sound(p) /\ (p.buf = h.buf \/ p.buf = h.buf \o pl)
  BY <1>1, <1>2, <1>3, AppendOutputOutcomes
<1>5. /\ o.buf \in Seq(Byte)
      /\ o.buf \o <<>> = o.buf
      /\ (o.buf \o hd) \o pl = o.buf \o (hd \o pl)
  BY <1>1 DEF Sound, Output
<1>6. \E x \in {<<>>, hd, pl, hd \o pl} : p.buf = o.buf \o x
  BY <1>3, <1>4, <1>5
<1> QED
  BY <1>4, <1>6 DEF Added, hd, pl

LEMMA AddedType ==
    ASSUME NEW k \in Nat, NEW n \in Nat, NEW x \in Added(k, n)
    PROVE  x \in Seq(Byte)
<1>1. Bytes(k, Header, HeaderSize) \in Seq(Byte) /\ Bytes(k, Payload, n) \in Seq(Byte)
  BY BytesType, OutputAssumption
<1>2. Bytes(k, Header, HeaderSize) \o Bytes(k, Payload, n) \in Seq(Byte)
  BY <1>1
<1>3. <<>> \in Seq(Byte)
  OBVIOUS
<1> QED
  BY <1>1, <1>2, <1>3, Zenon DEF Added

-----------------------------------------------------------------------------
(* What a step does to the stream.  The buffer and the bytes handed out     *)
(* matter to the properties only as the stream they form together.          *)

\* The bytes that the send helper of message m may add to the stream as the
\* k-th message, and how many they are when no realloc fails.
Outcomes(k, m) ==
    IF m[1] = Whole THEN {<<>>, Bytes(k, Whole, m[2])} ELSE Added(k, m[2])
Size(m) == IF m[1] = Whole THEN m[2] ELSE HeaderSize + m[2]

Accepts(m, x) ==
    /\ Stream' = Stream \o x
    /\ sent' = Append(sent, m)
    /\ failed' = (failed \/ Len(x) < Size(m))
Drains ==
    /\ Stream' = Stream
    /\ sent' = sent
    /\ failed' = failed
Resets ==
    /\ Stream' = <<>>
    /\ sent' = <<>>
    /\ failed' = FALSE

LEMMA OutcomesType ==
    ASSUME NEW k \in Nat, NEW m \in Message, NEW x \in Outcomes(k, m)
    PROVE  x \in Seq(Byte) /\ Size(m) \in Nat
<1>1. m[2] \in Nat /\ m[1] \in {Payload, Whole}
  BY DEF Message
<1>2. Bytes(k, Whole, m[2]) \in Seq(Byte)
  BY <1>1, BytesType
<1>3. <<>> \in Seq(Byte)
  OBVIOUS
<1>4. x \in Seq(Byte)
  <2>1. CASE m[1] = Whole
    BY <1>2, <1>3, <2>1 DEF Outcomes
  <2>2. CASE m[1] # Whole
    BY <1>1, <2>2, AddedType DEF Outcomes
  <2> QED
    BY <2>1, <2>2
<1>5. Size(m) \in Nat
  BY <1>1, OutputAssumption DEF Size
<1> QED
  BY <1>4, <1>5

LEMMA Associative ==
    \A a, b, c \in Seq(Byte) : (a \o b) \o c = a \o (b \o c)
OBVIOUS

LEMMA AppendedToStream ==
    ASSUME output.buf \in Seq(Byte), delivered \in Seq(Byte), NEW x \in Seq(Byte),
           output'.buf = output.buf \o x, delivered' = delivered
    PROVE  Stream' = Stream \o x
<1>1. (delivered \o output.buf) \o x = delivered \o (output.buf \o x)
  BY Associative
<1> QED
  BY <1>1 DEF Stream

\* The output of every step is sound, and the step is one of three kinds.
LEMMA StepKinds ==
    ASSUME TypeOK, Next
    PROVE  /\ Sound(output')
           /\ delivered' \in Seq(Byte)
           /\ \/ \E m \in Message : \E x \in Outcomes(Len(sent) + 1, m) : Accepts(m, x)
              \/ Drains
              \/ Resets
<1>0. /\ Sound(output) /\ output.buf \in Seq(Byte) /\ output.cap \in Nat
      /\ output = [buf |-> output.buf, cap |-> output.cap]
      /\ sent \in Seq(Message) /\ delivered \in Seq(Byte)
      /\ Len(sent) + 1 \in Nat
  BY DEF TypeOK, Sound, Output
<1>1. ASSUME NEW n \in PayloadSizes, EmitMsg(n)
      PROVE  /\ Sound(output') /\ delivered' \in Seq(Byte)
             /\ \E m \in Message : \E x \in Outcomes(Len(sent) + 1, m) : Accepts(m, x)
  <2> DEFINE m == <<Payload, n>>
  <2>1. n \in Nat /\ m \in Message /\ m[1] = Payload /\ m[2] = n /\ Payload # Whole
    BY OutputAssumption DEF Message, Payload, Whole
  <2>2. PICK x \in Added(Len(sent) + 1, n) : output'.buf = output.buf \o x
    BY <1>0, <1>1, <2>1, PiecesOutcomes DEF EmitMsg
  <2>3. Sound(output')
    BY <1>0, <1>1, <2>1, PiecesOutcomes DEF EmitMsg
  <2>4. x \in Seq(Byte) /\ x \in Outcomes(Len(sent) + 1, m)
    BY <1>0, <2>1, <2>2, AddedType DEF Outcomes
  <2>5. Stream' = Stream \o x
    BY <1>0, <1>1, <2>2, <2>4, AppendedToStream DEF EmitMsg
  <2>6. Len(output'.buf) = Len(output.buf) + Len(x)
    BY <1>0, <2>2, <2>4
  <2>7. Size(m) = HeaderSize + n
    BY <2>1 DEF Size
  <2>8. failed' = (failed \/ Len(x) < Size(m))
    <3>1. (Len(output'.buf) < Len(output.buf) + HeaderSize + n) <=> Len(x) < HeaderSize + n
      BY <1>0, <2>1, <2>4, <2>6, OutputAssumption, SMTT(30)
    <3>2. failed' = (failed \/ Len(output'.buf) < Len(output.buf) + HeaderSize + n)
      BY <1>1 DEF EmitMsg
    <3> QED
      BY <2>7, <3>1, <3>2
  <2>9. sent' = Append(sent, m) /\ delivered' = delivered
    BY <1>1 DEF EmitMsg
  <2> HIDE DEF m
  <2>10. Accepts(m, x)
    BY <2>5, <2>8, <2>9 DEF Accepts
  <2> QED
    BY <1>0, <2>1, <2>3, <2>4, <2>9, <2>10
<1>2. ASSUME NEW l \in PayloadSizes, EmitWhole(HeaderSize + l)
      PROVE  /\ Sound(output') /\ delivered' \in Seq(Byte)
             /\ \E m \in Message : \E x \in Outcomes(Len(sent) + 1, m) : Accepts(m, x)
  <2> DEFINE n == HeaderSize + l
             m == <<Whole, n>>
             all == Bytes(Len(sent) + 1, Whole, n)
  <2>1. n \in Nat /\ m \in Message /\ m[1] = Whole /\ m[2] = n
    BY OutputAssumption DEF Message
  <2>2. EmitWhole(n)
    BY <1>2
  <2> HIDE DEF n
  <2>3. all \in Seq(Byte)
    BY <1>0, <2>1, BytesType
  <2>4. output' \in AppendOutput(output, all)
    BY <2>2 DEF EmitWhole
  <2>5. all \in Outcomes(Len(sent) + 1, m) /\ <<>> \in Outcomes(Len(sent) + 1, m)
    BY <2>1 DEF Outcomes
  <2>6. /\ failed' = (failed \/ Len(output'.buf) < Len(output.buf) + n)
        /\ sent' = Append(sent, m) /\ delivered' = delivered
    BY <2>2 DEF EmitWhole
  <2>7. Size(m) = n
    BY <2>1 DEF Size
  <2> HIDE DEF all, m
  <2>8. Sound(output') /\ (output'.buf = output.buf \/ output'.buf = output.buf \o all)
    BY <1>0, <2>3, <2>4, AppendOutputOutcomes
  <2>9. PICK x \in {<<>>, all} : output'.buf = output.buf \o x
    BY <1>0, <2>8
  <2>10. x \in Seq(Byte) /\ x \in Outcomes(Len(sent) + 1, m)
    <3>1. <<>> \in Seq(Byte)
      OBVIOUS
    <3> QED
      BY <2>3, <2>5, <3>1, Zenon
  <2>11. Len(output'.buf) < Len(output.buf) + n <=> Len(x) < n
    BY <1>0, <2>1, <2>9, <2>10
  <2>12. Stream' = Stream \o x
    BY <1>0, <2>6, <2>9, <2>10, AppendedToStream
  <2>13. Accepts(m, x)
    BY <2>6, <2>7, <2>11, <2>12 DEF Accepts
  <2> QED
    BY <1>0, <2>1, <2>6, <2>8, <2>10, <2>13
<1>3. ASSUME NEW n \in 1 .. Len(output.buf) + 1, GetOutput(n)
      PROVE  Sound(output') /\ delivered' \in Seq(Byte) /\ Drains
  <2> DEFINE to_copy == IF Len(output.buf) < n THEN Len(output.buf) ELSE n
             hd == SubSeq(output.buf, 1, to_copy)
             tl == SubSeq(output.buf, to_copy + 1, Len(output.buf))
  <2>1. to_copy \in 0 .. Len(output.buf)
    BY <1>0
  <2>2. /\ delivered' = delivered \o hd
        /\ output' = [output EXCEPT !.buf = tl]
        /\ sent' = sent /\ failed' = failed
    BY <1>3 DEF GetOutput
  <2> HIDE DEF to_copy
  <2>3. hd \in Seq(Byte) /\ tl \in Seq(Byte) /\ Len(tl) <= Len(output.buf)
    BY <1>0, <2>1, SMTT(30)
  <2>4. hd \o tl = output.buf
    <3>1. /\ 1 \in 1 .. Len(output.buf) + 1
          /\ to_copy \in 1 - 1 .. Len(output.buf)
          /\ Len(output.buf) \in to_copy .. Len(output.buf)
      BY <1>0, <2>1
    <3>2. hd \o tl = SubSeq(output.buf, 1, Len(output.buf))
      BY <1>0, <3>1, ConcatAdjacentSubSeq
    <3> QED
      BY <1>0, <3>2, SubSeqFull
  <2> HIDE DEF hd, tl
  <2>5. output'.buf = tl /\ output'.cap = output.cap /\ output' \in Output
    BY <1>0, <2>2, <2>3 DEF Output
  <2>6. Sound(output')
    BY <1>0, <2>3, <2>5 DEF Sound
  <2>7. (delivered \o hd) \o tl = delivered \o (hd \o tl)
    BY <1>0, <2>3, SMTT(30)
  <2>8. Stream' = Stream
    BY <2>2, <2>4, <2>5, <2>7 DEF Stream
  <2> QED
    BY <1>0, <2>2, <2>3, <2>6, <2>8 DEF Drains
<1>4. CASE ResetOutput
  <2>1. output' = [buf |-> <<>>, cap |-> output.cap]
    BY <1>0, <1>4 DEF ResetOutput
  <2>2. Sound(output')
    BY <1>0, <2>1 DEF Sound, Output
  <2>3. Stream' = <<>>
    BY <1>4, <2>1 DEF ResetOutput, Stream
  <2> QED
    BY <1>4, <2>2, <2>3 DEF ResetOutput, Resets
<1> QED
  BY <1>1, <1>2, <1>3, <1>4 DEF Next

-----------------------------------------------------------------------------
(* Type correctness, and the stream as what only grows.                     *)

LEMMA TypeInit == Init => TypeOK
<1> SUFFICES ASSUME Init
             PROVE  TypeOK
  OBVIOUS
<1>1. <<>> \in Seq(Byte) /\ <<>> \in Seq(Message) /\ Len(<<>>) = 0
  OBVIOUS
<1>2. output \in Output /\ output.buf = <<>> /\ output.cap \in Nat
  BY <1>1, OutputAssumption DEF Init, Output
<1>3. Len(output.buf) <= output.cap
  BY <1>1, <1>2
<1>4. failed \in BOOLEAN
  BY DEF Init
<1> QED
  BY <1>1, <1>2, <1>3, <1>4, Zenon DEF Init, TypeOK

LEMMA TypeStep == TypeOK /\ [Next]_vars => TypeOK'
<1> SUFFICES ASSUME TypeOK, [Next]_vars
             PROVE  TypeOK'
  OBVIOUS
<1>1. CASE Next
  <2>1. /\ Sound(output') /\ delivered' \in Seq(Byte)
        /\ \/ \E m \in Message : \E x \in Outcomes(Len(sent) + 1, m) : Accepts(m, x)
           \/ Drains
           \/ Resets
    BY <1>1, StepKinds
  <2>2. sent' \in Seq(Message)
    <3>1. ASSUME NEW m \in Message, sent' = Append(sent, m)
          PROVE  sent' \in Seq(Message)
      BY <3>1 DEF TypeOK
    <3>2. ASSUME sent' = sent
          PROVE  sent' \in Seq(Message)
      BY <3>2 DEF TypeOK
    <3>3. ASSUME sent' = <<>>
          PROVE  sent' \in Seq(Message)
      BY <3>3
    <3> QED
      BY <2>1, <3>1, <3>2, <3>3, Zenon DEF Accepts, Drains, Resets
  <2>3. failed' \in BOOLEAN
    <3>1. ASSUME NEW P, failed' = (failed \/ P)
          PROVE  failed' \in BOOLEAN
      BY <3>1
    <3> QED
      BY <2>1, <3>1, Zenon DEF Accepts, Drains, Resets, TypeOK
  <2> QED
    BY <2>1, <2>2, <2>3 DEF TypeOK, Sound
<1>2. CASE UNCHANGED vars
  BY <1>2 DEF vars, TypeOK
<1> QED
  BY <1>1, <1>2

\* Every reachable state is well typed: in particular append_output never
\* puts more into output_buf than output_cap bytes.
THEOREM TypeCorrect == Spec => []TypeOK
BY TypeInit, TypeStep, PTL DEF Spec

LEMMA StreamType ==
    ASSUME TypeOK
    PROVE  /\ Stream \in Seq(Byte)
           /\ Len(Stream) \in Nat
           /\ DOMAIN Stream = 1 .. Len(Stream)
BY DEF TypeOK, Stream, Output

\* No step but a reset changes what is in the stream, wherever it is between
\* the send helper and the transport.
THEOREM StreamGrows == Spec => StreamOnlyGrows
<1>1. ASSUME TypeOK, [Next]_vars, sent' # <<>>
      PROVE  /\ Len(Stream) <= Len(Stream')
             /\ SubSeq(Stream', 1, Len(Stream)) = Stream
  <2>0. Stream \in Seq(Byte)
    BY <1>1, StreamType
  <2>1. PICK x \in Seq(Byte) : Stream' = Stream \o x
    <3>1. ASSUME NEW m \in Message, NEW x \in Outcomes(Len(sent) + 1, m), Accepts(m, x)
          PROVE  \E y \in Seq(Byte) : Stream' = Stream \o y
      <4>1. Len(sent) + 1 \in Nat
        BY <1>1 DEF TypeOK
      <4> QED
        BY <3>1, <4>1, OutcomesType DEF Accepts
    <3>2. ASSUME Stream' = Stream
          PROVE  \E y \in Seq(Byte) : Stream' = Stream \o y
      BY <2>0, <3>2, EmptySeq, ConcatEmptySeq
    <3>3. CASE Next
      BY <1>1, <3>1, <3>2, <3>3, StepKinds DEF Drains, Resets
    <3>4. CASE UNCHANGED vars
      BY <3>2, <3>4 DEF vars, Stream
    <3> QED
      BY <1>1, <3>3, <3>4
  <2> HIDE DEF Stream
  <2>2. Len(Stream \o x) = Len(Stream) + Len(x) /\ Len(x) \in Nat /\ Len(Stream) \in Nat
    BY <2>0
  <2>3. SubSeq(Stream \o x, 1, Len(Stream)) = Stream
    BY <2>0
  <2> QED
    BY <2>1, <2>2, <2>3
<1> QED
  BY <1>1, TypeInit, TypeStep, PTL DEF Spec, StreamOnlyGrows

-----------------------------------------------------------------------------
(* The stream that was promised: StreamUpto is a recursive function, so     *)
(* that it satisfies its equation has to be shown, from the existence of a  *)
(* function that does.                                                      *)

LEMMA EncodeType ==
    ASSUME NEW s \in Seq(Message), NEW k \in 1 .. Len(s)
    PROVE  Encode(s, k) \in Seq(Byte)
<1>1. s[k][1] \in {Payload, Whole} /\ s[k][2] \in Nat /\ k \in Nat
  BY DEF Message
<1>2. /\ Bytes(k, Whole, s[k][2]) \in Seq(Byte)
      /\ Bytes(k, Payload, s[k][2]) \in Seq(Byte)
      /\ Bytes(k, Header, HeaderSize) \in Seq(Byte)
  BY <1>1, BytesType, OutputAssumption
<1>3. Bytes(k, Header, HeaderSize) \o Bytes(k, Payload, s[k][2]) \in Seq(Byte)
  BY <1>2
<1> QED
  BY <1>2, <1>3 DEF Encode

LEMMA StreamUptoEquation ==
    ASSUME NEW s \in Seq(Message)
    PROVE  /\ StreamUpto(s)[0] = <<>>
           /\ \A k \in 1 .. Len(s) :
                  StreamUpto(s)[k] = StreamUpto(s)[k - 1] \o Encode(s, k)
<1> DEFINE n == Len(s)
           V == Seq(Byte)
           step == [p \in V \X (1 .. n) |-> p[1] \o Encode(s, p[2])]
           body(f) == [k \in 0 .. n |-> IF k = 0 THEN <<>> ELSE f[k - 1] \o Encode(s, k)]
<1>1. n \in Nat /\ <<>> \in V
  OBVIOUS
<1>2. step \in [V \X (1 .. n) -> V]
  <2> SUFFICES ASSUME NEW p \in V \X (1 .. n)
               PROVE  p[1] \o Encode(s, p[2]) \in V
    OBVIOUS
  <2>1. p[1] \in Seq(Byte) /\ p[2] \in 1 .. Len(s)
    OBVIOUS
  <2>2. Encode(s, p[2]) \in Seq(Byte)
    BY <2>1, EncodeType
  <2> QED
    BY <2>1, <2>2
<1>3. \A v \in V, k \in 1 .. n : step[<<v, k>>] = v \o Encode(s, k)
  OBVIOUS
<1> HIDE DEF step
<1>4. PICK f \in [0 .. n -> V] : IsRecursion(f, n, <<>>, step)
  BY <1>1, <1>2, RecursionExists
<1>5. f = body(f)
  <2>1. \A k \in 0 .. n : f[k] = IF k = 0 THEN <<>> ELSE f[k - 1] \o Encode(s, k)
    <3> SUFFICES ASSUME NEW k \in 0 .. n
                 PROVE  f[k] = IF k = 0 THEN <<>> ELSE f[k - 1] \o Encode(s, k)
      OBVIOUS
    <3>1. CASE k = 0
      BY <1>4, <3>1 DEF IsRecursion
    <3>2. CASE k # 0
      <4>1. k \in 1 .. n /\ k - 1 \in 0 .. n
        BY <1>1, <3>2
      <4>2. f[k] = step[<<f[k - 1], k>>] /\ f[k - 1] \in V
        BY <1>4, <4>1 DEF IsRecursion
      <4> QED
        BY <1>3, <3>2, <4>1, <4>2
    <3> QED
      BY <3>1, <3>2
  <2> QED
    BY <2>1
<1>6. StreamUpto(s) = CHOOSE g : g = body(g)
  BY DEF StreamUpto
<1>7. StreamUpto(s) = body(StreamUpto(s))
  <2> HIDE DEF body
  <2> QED
    BY <1>5, <1>6, Zenon
<1>8. ASSUME NEW g, g = body(g)
      PROVE  /\ g[0] = <<>>
             /\ \A k \in 1 .. n : g[k] = g[k - 1] \o Encode(s, k)
  <2>1. \A k \in 0 .. n : body(g)[k] = IF k = 0 THEN <<>> ELSE g[k - 1] \o Encode(s, k)
    OBVIOUS
  <2> HIDE DEF body
  <2>2. \A k \in 0 .. n : g[k] = IF k = 0 THEN <<>> ELSE g[k - 1] \o Encode(s, k)
    BY <1>8, <2>1
  <2>3. ASSUME NEW k \in 1 .. n
        PROVE  g[k] = g[k - 1] \o Encode(s, k)
    <3>1. k \in 0 .. n /\ k # 0
      BY <1>1
    <3> QED
      BY <2>2, <3>1, Zenon
  <2>4. g[0] = <<>>
    <3>1. 0 \in 0 .. n
      BY <1>1
    <3> QED
      BY <2>2, <3>1, Zenon
  <2> QED
    BY <2>3, <2>4
<1> HIDE DEF body
<1> QED
  BY <1>7, <1>8

\* What was promised for the earlier messages does not depend on the later.
LEMMA StreamUptoAppend ==
    ASSUME NEW s \in Seq(Message), NEW m \in Message, NEW k \in 0 .. Len(s)
    PROVE  StreamUpto(Append(s, m))[k] = StreamUpto(s)[k]
<1> DEFINE t == Append(s, m)
           S == {j \in Nat : j <= Len(s) => StreamUpto(t)[j] = StreamUpto(s)[j]}
<1>1. /\ t \in Seq(Message) /\ Len(t) = Len(s) + 1 /\ Len(s) \in Nat
      /\ \A j \in 1 .. Len(s) : t[j] = s[j]
  OBVIOUS
<1> HIDE DEF t
<1>2. 0 \in S
  BY <1>1, StreamUptoEquation
<1>3. ASSUME NEW j \in Nat, j \in S
      PROVE  j + 1 \in S
  <2> SUFFICES ASSUME j + 1 <= Len(s)
               PROVE  StreamUpto(t)[j + 1] = StreamUpto(s)[j + 1]
    OBVIOUS
  <2>1. j + 1 \in 1 .. Len(s) /\ j + 1 \in 1 .. Len(t) /\ (j + 1) - 1 = j /\ j <= Len(s)
    BY <1>1
  <2>2. StreamUpto(t)[j] = StreamUpto(s)[j]
    BY <1>3, <2>1
  <2>3. Encode(t, j + 1) = Encode(s, j + 1)
    BY <1>1, <2>1 DEF Encode
  <2>4. StreamUpto(t)[j + 1] = StreamUpto(t)[j] \o Encode(t, j + 1)
    BY <1>1, <2>1, StreamUptoEquation
  <2>5. StreamUpto(s)[j + 1] = StreamUpto(s)[j] \o Encode(s, j + 1)
    BY <2>1, StreamUptoEquation
  <2> QED
    BY <2>2, <2>3, <2>4, <2>5
<1> HIDE DEF S
<1>4. Nat \subseteq S
  BY <1>2, <1>3, SetInduction
<1> QED
  BY <1>1, <1>4 DEF S, t

\* A helper that found room for every byte has appended the whole message.
LEMMA FullOutcome ==
    ASSUME NEW s \in Seq(Message), NEW k \in 1 .. Len(s),
           NEW x \in Outcomes(k, s[k]), ~(Len(x) < Size(s[k]))
    PROVE  x = Encode(s, k)
<1> DEFINE n == s[k][2]
           hd == Bytes(k, Header, HeaderSize)
           pl == Bytes(k, Payload, n)
           all == Bytes(k, Whole, n)
<1>1. s[k][1] \in {Payload, Whole} /\ n \in Nat /\ k \in Nat
      /\ HeaderSize \in Nat \ {0}
  BY OutputAssumption DEF Message
<1>2. /\ hd \in Seq(Byte) /\ Len(hd) = HeaderSize
      /\ pl \in Seq(Byte) /\ Len(pl) = n
      /\ all \in Seq(Byte) /\ Len(all) = n
  BY <1>1, BytesType
<1>3. Len(<<>>) = 0
  OBVIOUS
<1>4. CASE s[k][1] = Whole
  <2>1. x \in {<<>>, all} /\ Size(s[k]) = n /\ Encode(s, k) = all
    BY <1>4 DEF Outcomes, Size, Encode
  <2> HIDE DEF all, n
  <2>2. CASE x = <<>>
    <3>1. Len(all) = 0
      BY <1>1, <1>2, <1>3, <2>1, <2>2
    <3> QED
      BY <1>2, <2>1, <2>2, <3>1, EmptySeq
  <2> QED
    BY <2>1, <2>2
<1>5. CASE s[k][1] # Whole
  <2>1. x \in {<<>>, hd, pl, hd \o pl} /\ Size(s[k]) = HeaderSize + n /\ Encode(s, k) = hd \o pl
    BY <1>5 DEF Outcomes, Added, Size, Encode
  <2> HIDE DEF hd, pl, n
  <2>2. x # <<>> /\ x # pl
    BY <1>1, <1>2, <1>3, <2>1
  <2>3. CASE x = hd
    <3>1. Len(pl) = 0
      BY <1>1, <1>2, <2>1, <2>3
    <3>2. pl = <<>>
      BY <1>2, <3>1
    <3> QED
      BY <1>2, <2>1, <2>3, <3>2
  <2> QED
    BY <2>1, <2>2, <2>3
<1> QED
  BY <1>4, <1>5

LEMMA PromiseStep ==
    TypeOK /\ StreamIsPromised /\ [Next]_vars => StreamIsPromised'
<1> SUFFICES ASSUME TypeOK, StreamIsPromised, [Next]_vars
             PROVE  StreamIsPromised'
  OBVIOUS
<1>0. sent \in Seq(Message) /\ Len(sent) \in Nat /\ failed \in BOOLEAN
  BY DEF TypeOK
<1>1. ASSUME NEW m \in Message, NEW x \in Outcomes(Len(sent) + 1, m), Accepts(m, x)
      PROVE  StreamIsPromised'
  <2> SUFFICES ASSUME ~failed'
               PROVE  Stream' = Promised'
    BY DEF StreamIsPromised
  <2> DEFINE t == Append(sent, m)
  <2>1. ~failed /\ ~(Len(x) < Size(m))
    BY <1>1 DEF Accepts
  <2>2. /\ t \in Seq(Message) /\ Len(t) = Len(sent) + 1 /\ Len(t) \in 1 .. Len(t)
        /\ t[Len(t)] = m /\ Len(t) - 1 = Len(sent) /\ Len(sent) \in 0 .. Len(sent)
    BY <1>0
  <2>3. sent' = t /\ Stream' = Stream \o x
    BY <1>1 DEF Accepts
  <2>4. StreamUpto(t)[Len(sent)] = StreamUpto(sent)[Len(sent)]
    BY <1>0, <2>2, StreamUptoAppend
  <2> HIDE DEF t
  <2>5. x = Encode(t, Len(t))
    BY <2>1, <2>2, FullOutcome
  <2>6. Stream = StreamUpto(sent)[Len(sent)]
    BY <2>1 DEF StreamIsPromised, Promised
  <2>7. StreamUpto(t)[Len(t)] = StreamUpto(t)[Len(sent)] \o Encode(t, Len(t))
    BY <2>2, StreamUptoEquation
  <2>8. Promised' = StreamUpto(t)[Len(t)]
    BY <2>3 DEF Promised
  <2> QED
    BY <2>3, <2>4, <2>5, <2>6, <2>7, <2>8
<1>2. CASE Resets
  <2>1. <<>> \in Seq(Message) /\ Len(<<>>) = 0
    OBVIOUS
  <2>2. Promised' = StreamUpto(<<>>)[0]
    BY <1>2, <2>1 DEF Resets, Promised
  <2> QED
    BY <1>2, <2>1, <2>2, StreamUptoEquation DEF Resets, StreamIsPromised
<1>3. ASSUME Stream' = Stream, sent' = sent, failed' = failed
      PROVE  StreamIsPromised'
  BY <1>3 DEF StreamIsPromised, Promised
<1>4. CASE Next
  BY <1>1, <1>2, <1>3, <1>4, StepKinds DEF Drains
<1>5. CASE UNCHANGED vars
  BY <1>3, <1>5 DEF vars, Stream
<1> QED
  BY <1>4, <1>5

\* While no realloc has failed, what the transport got and what is left in
\* the buffer are the messages of all calls, whole and in order, however the
\* buffer was drained.
THEOREM PromiseKept == Spec => []StreamIsPromised
<1>1. Init => StreamIsPromised
  <2>1. <<>> \in Seq(Message) /\ Len(<<>>) = 0
    OBVIOUS
  <2>2. StreamUpto(<<>>)[0] = <<>>
    BY <2>1, StreamUptoEquation
  <2> QED
    BY <2>1, <2>2 DEF Init, StreamIsPromised, Promised, Stream
<1> QED
  BY <1>1, TypeInit, TypeStep, PromiseStep, PTL DEF Spec

-----------------------------------------------------------------------------
(* Pieces.  Of the messages sent so far only the last can have bytes that a *)
(* step adds, so the pieces of the others stay as they are and the new ones *)
(* stand behind them.                                                       *)

Positions(s, b) == {i \in DOMAIN s : s[i] = b}
Shifted(n, S) == {n + i : i \in S}

FromSent == \A i \in DOMAIN Stream : Stream[i].msg \in 1 .. Len(sent)

\* The bytes of an outcome: their message, their order, and of each of its
\* pieces all or none, in one stretch.
LEMMA OutcomeShape ==
    ASSUME NEW k \in Nat, NEW m \in Message, NEW x \in Outcomes(k, m)
    PROVE  /\ \A i \in 1 .. Len(x) : x[i] \in Byte /\ x[i].msg = k
           /\ \A i, j \in 1 .. Len(x) : i < j => Rank(x[i]) <= Rank(x[j])
           /\ \E a \in Nat, c \in {0, HeaderSize} :
                  Positions(x, [msg |-> k, piece |-> Header]) = a + 1 .. a + c
           /\ \E a \in Nat, c \in {0, m[2]} :
                  Positions(x, [msg |-> k, piece |-> m[1]]) = a + 1 .. a + c
<1> DEFINE n == m[2]
           hb == [msg |-> k, piece |-> Header]
           pb == [msg |-> k, piece |-> m[1]]
           hd == Bytes(k, Header, HeaderSize)
           pl == Bytes(k, m[1], n)
<1>1. m[1] \in {Payload, Whole} /\ n \in Nat /\ HeaderSize \in Nat /\ 0 \in Nat
  BY OutputAssumption DEF Message
<1>2. /\ hd \in Seq(Byte) /\ Len(hd) = HeaderSize
      /\ \A i \in 1 .. HeaderSize : hd[i] = hb
      /\ pl \in Seq(Byte) /\ Len(pl) = n
      /\ \A i \in 1 .. n : pl[i] = pb
  <2>1. m[1] \in {Header, Payload, Whole} /\ Header \in {Header, Payload, Whole}
    BY <1>1
  <2> QED
    BY <1>1, <2>1, BytesType
<1>3. /\ hb \in Byte /\ hb.msg = k /\ Rank(hb) = 2 * k
      /\ pb \in Byte /\ pb.msg = k /\ Rank(pb) = 2 * k + 1
      /\ hb # pb
  <2>1. hb.piece = Header /\ pb.piece = m[1] /\ m[1] # Header
    BY <1>1 DEF Header, Payload, Whole
  <2> QED
    BY <1>1, <2>1 DEF Byte, Rank
<1>4. x \in {<<>>, hd, pl, hd \o pl}
  <2>1. CASE m[1] = Whole
    BY <2>1 DEF Outcomes
  <2>2. CASE m[1] # Whole
    <3>1. m[1] = Payload
      BY <1>1, <2>2
    <3> QED
      BY <2>2, <3>1 DEF Outcomes, Added
  <2> QED
    BY <2>1, <2>2
<1> HIDE DEF n, hb, pb, hd, pl
\* The first a bytes are header bytes and the rest payload bytes.
<1>5. PICK a \in {0, HeaderSize}, c \in {0, n} :
          /\ x \in Seq(Byte) /\ Len(x) = a + c
          /\ \A i \in 1 .. a : x[i] = hb
          /\ \A i \in a + 1 .. a + c : x[i] = pb
  <2> DEFINE Shape(y, a, c) ==
                 /\ y \in Seq(Byte) /\ Len(y) = a + c
                 /\ \A i \in 1 .. a : y[i] = hb
                 /\ \A i \in a + 1 .. a + c : y[i] = pb
  <2>1. Shape(<<>>, 0, 0)
    OBVIOUS
  <2>2. Shape(hd, HeaderSize, 0)
    BY <1>1, <1>2
  <2>3. Shape(pl, 0, n)
    BY <1>1, <1>2
  <2>4. Shape(hd \o pl, HeaderSize, n)
    BY <1>1, <1>2
  <2> HIDE DEF Shape
  <2>5. \E a \in {0, HeaderSize}, c \in {0, n} : Shape(x, a, c)
    BY <1>4, <2>1, <2>2, <2>3, <2>4
  <2> QED
    BY <2>5 DEF Shape
<1>6. a \in Nat /\ c \in Nat
  BY <1>1
<1>7. ASSUME NEW i \in 1 .. Len(x)
      PROVE  \/ i \in 1 .. a /\ i \notin a + 1 .. a + c /\ x[i] = hb
             \/ i \in a + 1 .. a + c /\ i \notin 1 .. a /\ x[i] = pb
  BY <1>5, <1>6
<1>8. \A i \in 1 .. Len(x) : x[i] \in Byte /\ x[i].msg = k
  BY <1>3, <1>7
<1>9. ASSUME NEW i \in 1 .. Len(x), NEW j \in 1 .. Len(x), i < j
      PROVE  Rank(x[i]) <= Rank(x[j])
  <2>1. x[i] = pb => x[j] = pb
    BY <1>3, <1>6, <1>7, <1>9
  <2>2. x[i] \in {hb, pb} /\ x[j] \in {hb, pb}
    BY <1>7
  <2> QED
    BY <1>3, <2>1, <2>2
<1>10. Positions(x, hb) = 0 + 1 .. 0 + a /\ Positions(x, pb) = a + 1 .. a + c
  <2>1. DOMAIN x = 1 .. a + c
    BY <1>5
  <2>2. \A i \in 1 .. a + c : (x[i] = hb <=> i \in 1 .. a) /\ (x[i] = pb <=> i \in a + 1 .. a + c)
    BY <1>3, <1>5, <1>7
  <2>3. 1 .. a \subseteq 1 .. a + c /\ a + 1 .. a + c \subseteq 1 .. a + c
    BY <1>6
  <2>4. Positions(x, hb) = 1 .. a /\ Positions(x, pb) = a + 1 .. a + c
    BY <2>1, <2>2, <2>3 DEF Positions
  <2>5. 0 + 1 .. 0 + a = 1 .. a
    BY <1>6
  <2> QED
    BY <2>4, <2>5
<1> QED
  BY <1>1, <1>5, <1>6, <1>8, <1>9, <1>10 DEF hb, pb, n

LEMMA PositionsConcat ==
    ASSUME NEW s \in Seq(Byte), NEW x \in Seq(Byte), NEW b
    PROVE  Positions(s \o x, b) =
               Positions(s, b) \cup Shifted(Len(s), Positions(x, b))
<1>1. /\ s \o x \in Seq(Byte) /\ Len(s \o x) = Len(s) + Len(x)
      /\ Len(s) \in Nat /\ Len(x) \in Nat
      /\ DOMAIN s = 1 .. Len(s) /\ DOMAIN x = 1 .. Len(x)
      /\ DOMAIN (s \o x) = 1 .. Len(s) + Len(x)
  OBVIOUS
<1>2. /\ \A i \in 1 .. Len(s) : (s \o x)[i] = s[i]
      /\ \A i \in 1 .. Len(x) : (s \o x)[Len(s) + i] = x[i]
  OBVIOUS
<1> DEFINE c == s \o x
<1> HIDE DEF c
<1>3. ASSUME NEW i \in Positions(c, b)
      PROVE  i \in Positions(s, b) \cup Shifted(Len(s), Positions(x, b))
  <2>1. i \in 1 .. Len(s) + Len(x) /\ c[i] = b
    BY <1>1 DEF Positions, c
  <2>2. CASE i \in 1 .. Len(s)
    BY <1>1, <1>2, <2>1, <2>2 DEF Positions, c
  <2>3. CASE i \notin 1 .. Len(s)
    <3>1. i - Len(s) \in 1 .. Len(x) /\ i = Len(s) + (i - Len(s))
      BY <1>1, <2>1, <2>3
    <3>2. x[i - Len(s)] = b
      BY <1>2, <2>1, <3>1 DEF c
    <3>3. i - Len(s) \in Positions(x, b)
      BY <1>1, <3>1, <3>2 DEF Positions
    <3> QED
      BY <3>1, <3>3 DEF Shifted
  <2> QED
    BY <2>2, <2>3
<1>4. ASSUME NEW i \in Positions(s, b)
      PROVE  i \in Positions(c, b)
  BY <1>1, <1>2 DEF Positions, c
<1>5. ASSUME NEW j \in Positions(x, b)
      PROVE  Len(s) + j \in Positions(c, b)
  <2>1. j \in 1 .. Len(x) /\ x[j] = b
    BY <1>1 DEF Positions
  <2>2. Len(s) + j \in 1 .. Len(s) + Len(x) /\ c[Len(s) + j] = b
    BY <1>1, <1>2, <2>1 DEF c
  <2> QED
    BY <1>1, <2>2 DEF Positions, c
<1>6. Positions(c, b) = Positions(s, b) \cup Shifted(Len(s), Positions(x, b))
  BY <1>3, <1>4, <1>5 DEF Shifted
<1> QED
  BY <1>6 DEF c

LEMMA IntervalCount ==
    ASSUME NEW s \in Nat, NEW a \in Nat, NEW c \in Nat
    PROVE  Cardinality(Shifted(s, a + 1 .. a + c)) = c
<1>1. ASSUME NEW j \in (s + a) + 1 .. (s + a) + c
      PROVE  j \in Shifted(s, a + 1 .. a + c)
  <2>1. j - s \in a + 1 .. a + c /\ j = s + (j - s)
    OBVIOUS
  <2> QED
    BY <2>1 DEF Shifted
<1>2. Shifted(s, a + 1 .. a + c) = (s + a) + 1 .. (s + a) + c
  BY <1>1 DEF Shifted
<1>3. (s + a) + 1 \in Int /\ (s + a) + c \in Int
  OBVIOUS
<1>4. Cardinality((s + a) + 1 .. (s + a) + c) =
          IF (s + a) + 1 > (s + a) + c THEN 0 ELSE (s + a) + c - ((s + a) + 1) + 1
  BY <1>3, FS_Interval
<1>5. Cardinality((s + a) + 1 .. (s + a) + c) = c
  BY <1>4
<1> QED
  BY <1>2, <1>5, Zenon

OrderInv == TypeOK /\ FromSent /\ PiecesWholeAndOrdered

LEMMA OrderAccepts ==
    ASSUME OrderInv, TypeOK', NEW m \in Message, NEW k \in Nat, k = Len(sent) + 1,
           NEW x \in Outcomes(k, m), Accepts(m, x)
    PROVE  FromSent' /\ PiecesWholeAndOrdered'
<1> DEFINE s == Stream
           b(l, piece) == [msg |-> l, piece |-> piece]
<1>0. /\ sent \in Seq(Message) /\ Len(sent) \in Nat /\ k \in Nat
      /\ s \in Seq(Byte) /\ Len(s) \in Nat /\ DOMAIN s = 1 .. Len(s)
      /\ x \in Seq(Byte) /\ Len(x) \in Nat /\ DOMAIN x = 1 .. Len(x)
  <2>1. TypeOK /\ sent \in Seq(Message) /\ k \in Nat
    BY DEF OrderInv, TypeOK
  <2>2. x \in Seq(Byte)
    BY <2>1, OutcomesType
  <2> QED
    BY <2>1, <2>2, StreamType
<1>1. /\ sent' = Append(sent, m) /\ Len(sent') = k /\ DOMAIN sent' = 1 .. k
      /\ sent'[k] = m /\ \A l \in 1 .. Len(sent) : sent'[l] = sent[l]
      /\ DOMAIN sent = 1 .. Len(sent)
  BY <1>0 DEF Accepts
<1>2. /\ Stream' = s \o x /\ Len(s \o x) = Len(s) + Len(x)
      /\ DOMAIN (s \o x) = 1 .. Len(s) + Len(x)
      /\ \A i \in 1 .. Len(s) : (s \o x)[i] = s[i]
      /\ \A i \in Len(s) + 1 .. Len(s) + Len(x) : (s \o x)[i] = x[i - Len(s)]
  BY <1>0 DEF Accepts
<1>3. /\ \A i \in 1 .. Len(x) : x[i] \in Byte /\ x[i].msg = k
      /\ \A i, j \in 1 .. Len(x) : i < j => Rank(x[i]) <= Rank(x[j])
      /\ \E a \in Nat, c \in {0, HeaderSize} : Positions(x, b(k, Header)) = a + 1 .. a + c
      /\ \E a \in Nat, c \in {0, m[2]} : Positions(x, b(k, m[1])) = a + 1 .. a + c
  BY OutcomeShape, Zenon
<1>4. \A i \in 1 .. Len(s) : s[i] \in Byte /\ s[i].msg \in 1 .. Len(sent)
  <2>1. \A i \in 1 .. Len(s) : s[i] \in Byte
    BY <1>0, ElementOfSeq
  <2>2. \A i \in 1 .. Len(s) : s[i].msg \in 1 .. Len(sent)
    BY <1>0 DEF OrderInv, FromSent
  <2> QED
    BY <2>1, <2>2
<1>5. ASSUME NEW l, NEW piece
      PROVE  /\ Count(l, piece) = Cardinality(Positions(s, b(l, piece)))
             /\ Count(l, piece)' = Cardinality(Positions(s \o x, b(l, piece)))
             /\ Positions(s \o x, b(l, piece)) =
                    Positions(s, b(l, piece))
                        \cup Shifted(Len(s), Positions(x, b(l, piece)))
  <2>1. Count(l, piece) = Cardinality(Positions(s, b(l, piece)))
    BY DEF Count, Positions
  <2>2. Count(l, piece)' = Cardinality(Positions(s \o x, b(l, piece)))
    BY <1>2 DEF Count, Positions
  <2> QED
    BY <1>0, <2>1, <2>2, PositionsConcat
<1>6. ASSUME NEW l \in 1 .. Len(sent), NEW piece
      PROVE  Count(l, piece)' = Count(l, piece)
  <2>1. b(l, piece).msg = l /\ l # k
    BY <1>0
  <2>2. Positions(x, b(l, piece)) = {}
    BY <1>0, <1>3, <2>1 DEF Positions
  <2> HIDE DEF b, s
  <2>3. Positions(s \o x, b(l, piece)) = Positions(s, b(l, piece))
    <3>1. Shifted(Len(s), Positions(x, b(l, piece))) = {}
      BY <2>2 DEF Shifted
    <3> QED
      BY <1>5, <3>1, Zenon
  <2> QED
    BY <1>5, <2>3
<1>7. ASSUME NEW piece, NEW n \in Nat,
             \E a \in Nat, c \in {0, n} : Positions(x, b(k, piece)) = a + 1 .. a + c
      PROVE  Count(k, piece)' \in {0, n}
  <2>1. b(k, piece).msg = k
    OBVIOUS
  <2>2. Positions(s, b(k, piece)) = {}
    BY <1>0, <1>4, <2>1 DEF Positions
  <2>3. PICK a \in Nat, c \in {0, n} : Positions(x, b(k, piece)) = a + 1 .. a + c
    BY <1>7
  <2>4. Positions(s \o x, b(k, piece)) = Shifted(Len(s), a + 1 .. a + c)
    BY <1>5, <2>2, <2>3
  <2>5. c \in Nat
    OBVIOUS
  <2>6. Cardinality(Shifted(Len(s), a + 1 .. a + c)) = c
    BY <1>0, <2>5, IntervalCount
  <2> QED
    BY <1>5, <2>4, <2>6
<1>8. ASSUME NEW l \in DOMAIN sent', NEW q, q = sent'[l]
      PROVE  /\ Count(l, Header)' \in {0, HeaderSize}
             /\ Count(l, q[1])' \in {0, q[2]}
  <2>1. CASE l = k
    <3>1. m[2] \in Nat /\ HeaderSize \in Nat
      BY OutputAssumption DEF Message
    <3>2. Count(k, Header)' \in {0, HeaderSize}
      BY <1>3, <1>7, <3>1
    <3>3. Count(k, m[1])' \in {0, m[2]}
      BY <1>3, <1>7, <3>1
    <3>4. q = m
      BY <1>1, <1>8, <2>1
    <3> QED
      BY <2>1, <3>2, <3>3, <3>4
  <2>2. CASE l # k
    <3>1. l \in 1 .. Len(sent) /\ l \in DOMAIN sent /\ q = sent[l]
      BY <1>0, <1>1, <1>8, <2>2
    <3>2. Count(l, Header) \in {0, HeaderSize} /\ Count(l, q[1]) \in {0, q[2]}
      BY <3>1 DEF OrderInv, PiecesWholeAndOrdered
    <3>3. Count(l, Header)' = Count(l, Header) /\ Count(l, q[1])' = Count(l, q[1])
      BY <1>6, <3>1
    <3> QED
      BY <3>2, <3>3
  <2> QED
    BY <2>1, <2>2
<1>9. ASSUME NEW i \in DOMAIN Stream'
      PROVE  \/ /\ i \in 1 .. Len(s) /\ Stream'[i] = s[i]
             \/ /\ i - Len(s) \in 1 .. Len(x) /\ Stream'[i] = x[i - Len(s)]
                /\ i \notin 1 .. Len(s)
  BY <1>0, <1>2
<1>10. FromSent'
  <2> SUFFICES ASSUME NEW i \in DOMAIN Stream'
               PROVE  Stream'[i].msg \in 1 .. Len(sent')
    BY DEF FromSent
  <2>1. Stream'[i].msg \in 1 .. Len(sent) \/ Stream'[i].msg = k
    BY <1>3, <1>4, <1>9
  <2> QED
    BY <1>0, <1>1, <2>1
<1>11. ASSUME NEW i \in DOMAIN Stream', NEW j \in DOMAIN Stream', i < j
       PROVE  Rank(Stream'[i]) <= Rank(Stream'[j])
  <2>1. i \in Nat /\ j \in Nat
    BY <1>0, <1>2
  <2>2. CASE i \in 1 .. Len(s) /\ j \in 1 .. Len(s)
    <3>1. Rank(s[i]) <= Rank(s[j])
      BY <1>0, <1>11, <2>2 DEF OrderInv, PiecesWholeAndOrdered
    <3> QED
      BY <1>9, <2>2, <3>1
  <2>3. CASE i \in 1 .. Len(s) /\ j \notin 1 .. Len(s)
    <3>1. /\ Stream'[i] \in Byte /\ Stream'[i].msg \in 1 .. Len(sent)
          /\ Stream'[j] \in Byte /\ Stream'[j].msg = k
      BY <1>3, <1>4, <1>9, <2>3
    <3>2. ASSUME NEW c \in Byte, NEW d \in Byte, c.msg < d.msg
          PROVE  Rank(c) <= Rank(d)
      BY <3>2 DEF Rank, Byte
    <3> QED
      BY <1>0, <3>1, <3>2
  <2>4. CASE i \notin 1 .. Len(s)
    <3>1. j \notin 1 .. Len(s)
      BY <1>0, <1>11, <2>1, <2>4, SMTT(30)
    <3>2. /\ i - Len(s) \in 1 .. Len(x) /\ j - Len(s) \in 1 .. Len(x)
          /\ i - Len(s) < j - Len(s)
          /\ Stream'[i] = x[i - Len(s)] /\ Stream'[j] = x[j - Len(s)]
      BY <1>0, <1>9, <1>11, <2>1, <2>4, <3>1
    <3> QED
      BY <1>3, <3>2
  <2> QED
    BY <2>2, <2>3, <2>4
<1> QED
  BY <1>8, <1>10, <1>11 DEF PiecesWholeAndOrdered

LEMMA OrderEmpty ==
    ASSUME Stream = <<>>, sent = <<>>
    PROVE  FromSent /\ PiecesWholeAndOrdered
BY DEF FromSent, PiecesWholeAndOrdered

LEMMA OrderStep == OrderInv /\ [Next]_vars => OrderInv'
<1> SUFFICES ASSUME OrderInv, [Next]_vars
             PROVE  OrderInv'
  OBVIOUS
<1>1. TypeOK /\ TypeOK'
  BY TypeStep DEF OrderInv
<1>2. ASSUME NEW m \in Message, NEW x \in Outcomes(Len(sent) + 1, m), Accepts(m, x)
      PROVE  OrderInv'
  <2>1. PICK k \in Nat : k = Len(sent) + 1
    BY <1>1 DEF TypeOK
  <2> QED
    BY <1>1, <1>2, <2>1, OrderAccepts DEF OrderInv
<1>3. CASE Resets
  <2>1. FromSent' /\ PiecesWholeAndOrdered'
    BY <1>3 DEF Resets, FromSent, PiecesWholeAndOrdered
  <2> QED
    BY <1>1, <2>1 DEF OrderInv
<1>4. ASSUME Stream' = Stream, sent' = sent
      PROVE  OrderInv'
  BY <1>1, <1>4 DEF OrderInv, FromSent, PiecesWholeAndOrdered, Count
<1>5. CASE Next
  BY <1>1, <1>2, <1>3, <1>4, <1>5, StepKinds DEF Drains
<1>6. CASE UNCHANGED vars
  BY <1>4, <1>6 DEF vars, Stream
<1> QED
  BY <1>5, <1>6

\* Whatever reallocs fail, header and payload of a message are in the stream
\* whole or not at all, and the pieces keep the order of the calls.
THEOREM PiecesCorrect == Spec => []PiecesWholeAndOrdered
<1>1. Init => OrderInv
  <2>1. Init => Stream = <<>> /\ sent = <<>>
    BY DEF Init, Stream
  <2> QED
    BY <2>1, TypeInit, OrderEmpty DEF OrderInv
<1>2. OrderInv => PiecesWholeAndOrdered
  BY DEF OrderInv
<1> QED
  BY <1>1, <1>2, OrderStep, PTL DEF Spec

=============================================================================
