--------------------------- MODULE FramingProofs ---------------------------
(***************************************************************************)
(* Theorems about Framing: whatever a peer sends and however it is cut     *)
(* into chunks, feed_input keeps its place in the stream, shortens its     *)
(* buffer in every iteration that goes on, and returns with a residue that *)
(* the configured limit bounds; and of a legal stream it hands on exactly  *)
(* the messages that have arrived in full.                                 *)
(*                                                                         *)
(* The inductive invariant is IInv.  The type invariant alone is not       *)
(* inductive: that no more is consumed than was fed rests on the length of *)
(* the buffer, hence on BufferIsStreamSuffix.  For the messages it is      *)
(* strengthened to MessageInv: whole messages have left the buffer.        *)
(***************************************************************************)
EXTENDS Framing, SequenceTheorems, FiniteSetTheorems, NatRecursion, TLAPS

IInv == TypeOK /\ BufferIsStreamSuffix /\ ResidueBounded

Item == Message \cup {ProtocolError}

-----------------------------------------------------------------------------
(* What the operators of the loop return.                                  *)

\* A big-endian integer is a natural number.
LEMMA ReadNat ==
    ASSUME NEW b, NEW i \in Nat,
           b[i] \in Nat, b[i + 1] \in Nat, b[i + 2] \in Nat, b[i + 3] \in Nat
    PROVE  rd32_be(b, i) \in Nat
BY SMT DEF rd32_be

\* The length field of a StartupMessage and of a typed message is a natural
\* number once its bytes are there.
LEMMA LengthFields ==
    ASSUME TypeOK
    PROVE  /\ input_len >= 4 => StartupLength \in Nat
           /\ input_len >= 5 => TypedLength \in Nat /\ input_buf[1] \in Byte
<1>1. input_buf \in Seq(Byte) /\ input_len \in Nat
  BY LenProperties DEF TypeOK, input_len
<1>2. \A i \in 1 .. input_len : input_buf[i] \in Byte
  BY <1>1, ElementOfSeq DEF input_len
<1>3. \A i \in 1 .. input_len : input_buf[i] \in Nat
  BY <1>2 DEF Byte
<1>4. ASSUME input_len >= 4 PROVE StartupLength \in Nat
  <2>1. /\ input_buf[1] \in Nat /\ input_buf[1 + 1] \in Nat
        /\ input_buf[1 + 2] \in Nat /\ input_buf[1 + 3] \in Nat
    BY <1>1, <1>3, <1>4
  <2> QED
    BY <2>1, ReadNat DEF StartupLength
<1>5. ASSUME input_len >= 5 PROVE TypedLength \in Nat /\ input_buf[1] \in Byte
  <2>1. /\ input_buf[2] \in Nat /\ input_buf[2 + 1] \in Nat
        /\ input_buf[2 + 2] \in Nat /\ input_buf[2 + 3] \in Nat
    BY <1>1, <1>3, <1>5
  <2>2. TypedLength \in Nat
    BY <2>1, ReadNat DEF TypedLength
  <2> QED
    BY <2>2, <1>1, <1>2, <1>5
<1> QED
  BY <1>4, <1>5

\* The elements of a sequence after the first a and up to the b-th.
LEMMA Part ==
    ASSUME NEW S, NEW s \in Seq(S), NEW a \in Nat, NEW b \in Nat,
           a <= b, b <= Len(s)
    PROVE  /\ SubSeq(s, a + 1, b) \in Seq(S)
           /\ Len(SubSeq(s, a + 1, b)) = b - a
           /\ \A i \in 1 .. b - a : SubSeq(s, a + 1, b)[i] = s[a + i]
<1>1. Len(s) \in Nat
  BY LenProperties
<1>2. \A i \in a + 1 .. b : s[i] \in S
  BY <1>1, ElementOfSeq
<1>3. a + 1 \in Int /\ b \in Int
  OBVIOUS
<1> DEFINE m == a + 1
           t == SubSeq(s, m, b)
<1>4. m \in Int /\ \A i \in m .. b : s[i] \in S
  BY <1>2, <1>3
<1> HIDE DEF m
<1>5. /\ t \in Seq(S)
      /\ Len(t) = IF m <= b THEN b - m + 1 ELSE 0
      /\ \A i \in 1 .. b - m + 1 : t[i] = s[m + i - 1]
  BY <1>3, <1>4, SubSeqProperties
<1> HIDE DEF t
<1>6. Len(t) = b - a /\ \A i \in 1 .. b - a : t[i] = s[a + i]
  BY <1>5 DEF m
<1> QED
  BY <1>5, <1>6 DEF t, m

\* Dropping elements from the front of a part.
LEMMA PartOfPart ==
    ASSUME NEW S, NEW s \in Seq(S), NEW a \in Nat, NEW b \in Nat,
           a <= b, b <= Len(s), NEW n \in 0 .. b - a
    PROVE  SubSeq(SubSeq(s, a + 1, b), n + 1, b - a) = SubSeq(s, (a + n) + 1, b)
<1> DEFINE p == SubSeq(s, a + 1, b)
           q == SubSeq(p, n + 1, b - a)
           r == SubSeq(s, (a + n) + 1, b)
<1>1. /\ p \in Seq(S) /\ Len(p) = b - a
      /\ \A i \in 1 .. b - a : p[i] = s[a + i]
  BY Part
<1> HIDE DEF p
<1>2. n \in Nat /\ b - a \in Nat /\ n <= b - a /\ b - a <= Len(p)
  BY <1>1
<1>3. /\ q \in Seq(S) /\ Len(q) = (b - a) - n
      /\ \A i \in 1 .. (b - a) - n : q[i] = p[n + i]
  BY <1>1, <1>2, Part
<1>4. a + n \in Nat /\ a + n <= b
  OBVIOUS
<1>5. /\ r \in Seq(S) /\ Len(r) = b - (a + n)
      /\ \A i \in 1 .. b - (a + n) : r[i] = s[(a + n) + i]
  BY <1>4, Part
<1> HIDE DEF q, r
<1>6. Len(q) = Len(r)
  BY <1>3, <1>5
<1>7. \A i \in 1 .. Len(q) : q[i] = r[i]
  <2> TAKE i \in 1 .. Len(q)
  <2>1. q[i] = p[n + i] /\ n + i \in 1 .. b - a
    BY <1>3
  <2>2. q[i] = s[a + (n + i)]
    BY <2>1, <1>1
  <2>3. r[i] = s[(a + n) + i]
    BY <1>3, <1>5
  <2>4. a + (n + i) = (a + n) + i
    BY <1>3
  <2> QED
    BY <2>2, <2>3, <2>4
<1>8. q = r
  BY <1>3, <1>5, <1>6, <1>7, SeqEqual
<1> QED
  BY <1>8 DEF p, q, r

\* The buffer and the stream it is taken from.
LEMMA BufferFacts ==
    ASSUME TypeOK, BufferIsStreamSuffix
    PROVE  /\ conn.wire \in Seq(Byte) /\ Len(conn.wire) \in Nat
           /\ fed \in Nat /\ fed <= Len(conn.wire)
           /\ consumed \in Nat /\ consumed <= fed
           /\ input_buf \in Seq(Byte) /\ input_len = fed - consumed
<1>1. conn.wire \in Seq(Byte)
  BY TrafficAssumption DEF TypeOK
<1>2. Len(conn.wire) \in Nat
  BY <1>1, LenProperties
<1>3. /\ fed \in Nat /\ fed <= Len(conn.wire)
      /\ consumed \in Nat /\ consumed <= fed
  BY <1>2 DEF TypeOK
<1>4. Len(input_buf) = fed - consumed
  BY <1>1, <1>3, Part DEF BufferIsStreamSuffix
<1> QED
  BY <1>1, <1>2, <1>3, <1>4 DEF TypeOK, input_len

\* The memmove after a message: the buffer stays a suffix of what was fed.
LEMMA DropCorrect ==
    ASSUME TypeOK, BufferIsStreamSuffix, NEW n \in 0 .. input_len,
           Drop(n), conn' = conn, fed' = fed
    PROVE  /\ input_buf' \in Seq(Byte)
           /\ Len(input_buf') = Len(input_buf) - n
           /\ consumed' \in 0 .. fed'
           /\ BufferIsStreamSuffix'
<1> DEFINE w == conn.wire
<1>1. /\ w \in Seq(Byte) /\ fed \in Nat /\ fed <= Len(w)
      /\ consumed \in Nat /\ consumed <= fed
      /\ input_buf \in Seq(Byte) /\ input_len = fed - consumed
  BY BufferFacts
<1>2. input_buf = SubSeq(w, consumed + 1, fed)
  BY DEF BufferIsStreamSuffix
<1> HIDE DEF w
<1>3. /\ input_buf' = SubSeq(input_buf, n + 1, input_len)
      /\ consumed' = consumed + n
  BY DEF Drop
<1>4. input_buf' = SubSeq(w, (consumed + n) + 1, fed)
  BY <1>1, <1>2, <1>3, PartOfPart
<1>5. consumed' \in 0 .. fed
  BY <1>1, <1>3
<1>6. n \in Nat /\ input_len \in Nat /\ n <= input_len /\ input_len = Len(input_buf)
  BY <1>1 DEF input_len
<1>7. input_buf' \in Seq(Byte) /\ Len(input_buf') = input_len - n
  BY <1>1, <1>3, <1>6, Part
<1> QED
  BY <1>3, <1>4, <1>5, <1>6, <1>7 DEF BufferIsStreamSuffix, w

\* What the loop hands on is a message or the mark of a rejected one.
LEMMA HandOnCorrect ==
    ASSUME TypeOK, NEW item \in Item, NEW at \in Nat, NEW n \in 0 .. input_len,
           HandOn(item, at, n)
    PROVE  handled' \in Seq(Item) /\ overwritten' \in Seq(Nat)
<1>1. handled \in Seq(Item) /\ overwritten \in Seq(Nat)
  BY DEF TypeOK, Item
<1>2. input_len \in Nat
  BY LenProperties DEF TypeOK, input_len
<1> DEFINE bytes == IF input_len - n > at THEN (input_len - n) - at ELSE 0
<1>3. bytes \in Nat
  BY <1>2
<1>4. handled' = Append(handled, item) /\ overwritten' = Append(overwritten, bytes)
  BY DEF HandOn
<1> HIDE DEF bytes
<1> QED
  BY <1>1, <1>3, <1>4, AppendProperties

-----------------------------------------------------------------------------
(* The invariant.                                                          *)

\* A fresh context satisfies the invariant.
LEMMA IInvInit == Init => IInv
<1> SUFFICES ASSUME Init PROVE IInv
  OBVIOUS
<1>1. conn \in Traffic /\ conn.wire \in Seq(Byte)
  BY TrafficAssumption DEF Init
<1>2. Len(conn.wire) \in Nat
  BY <1>1, LenProperties
<1>3. /\ input_buf \in Seq(Byte) /\ overwritten \in Seq(Nat)
      /\ handled \in Seq(Message \cup {ProtocolError})
  BY EmptySeq, Zenon DEF Init
<1>4. /\ fed \in 0 .. Len(conn.wire) /\ consumed \in 0 .. fed
      /\ startup_seen \in BOOLEAN /\ looping \in BOOLEAN
  <2>1. fed = 0 /\ consumed = 0
    BY DEF Init
  <2>2. startup_seen \in BOOLEAN /\ looping \in BOOLEAN
    BY Zenon DEF Init
  <2>3. 0 \in 0 .. Len(conn.wire) /\ 0 \in 0 .. 0
    BY <1>2
  <2> QED
    BY <2>1, <2>2, <2>3, Zenon
<1>5. TypeOK
  BY <1>1, <1>3, <1>4, Zenon DEF TypeOK
<1>6. BufferIsStreamSuffix
  <2>1. SubSeq(conn.wire, 1, 0) = <<>>
    BY SubSeqEmpty
  <2> QED
    BY <2>1 DEF Init, BufferIsStreamSuffix
<1>7. ResidueBounded
  BY EmptySeq, FramingAssumption DEF Init, ResidueBounded, input_len
<1> QED
  BY <1>5, <1>6, <1>7 DEF IInv

\* Every iteration but the last takes n bytes from the front of the buffer.
LEMMA ConsumeStep ==
    ASSUME IInv, NEW item \in Item, NEW at \in Nat, NEW n \in 0 .. input_len,
           HandOn(item, at, n), Drop(n), conn' = conn, fed' = fed,
           startup_seen' \in BOOLEAN, looping' \in BOOLEAN,
           looping' \/ n = input_len
    PROVE  IInv' /\ Len(input_buf') = Len(input_buf) - n
<1>1. TypeOK /\ BufferIsStreamSuffix
  BY DEF IInv
<1>2. /\ input_buf' \in Seq(Byte)
      /\ Len(input_buf') = Len(input_buf) - n
      /\ consumed' \in 0 .. fed'
      /\ BufferIsStreamSuffix'
  BY <1>1, DropCorrect
<1>3. handled' \in Seq(Item) /\ overwritten' \in Seq(Nat)
  BY <1>1, HandOnCorrect
<1>4. TypeOK'
  BY <1>1, <1>2, <1>3 DEF TypeOK, Item
<1>5. ResidueBounded'
  <2>1. n = input_len => Len(input_buf') = 0
    BY <1>1, <1>2, BufferFacts DEF input_len
  <2> QED
    BY <2>1, FramingAssumption DEF ResidueBounded, input_len
<1> QED
  BY <1>2, <1>4, <1>5 DEF IInv

\* A call that returns leaves the buffer alone.
LEMMA ReturnStep ==
    ASSUME IInv, Return,
           input_len <= (IF MaxMessageSize > 4 THEN MaxMessageSize ELSE 4)
    PROVE  IInv'
<1> USE DEF Return
<1>1. TypeOK' /\ BufferIsStreamSuffix'
  BY DEF IInv, TypeOK, BufferIsStreamSuffix
<1>2. ResidueBounded'
  BY DEF ResidueBounded, input_len
<1> QED
  BY <1>1, <1>2 DEF IInv

\* feed_input appends the chunk behind what the last call left.
LEMMA FeedStep ==
    ASSUME IInv, NEW n \in 1 .. Len(conn.wire), FeedInput(n)
    PROVE  IInv'
<1> DEFINE w == conn.wire
<1>1. /\ w \in Seq(Byte) /\ Len(w) \in Nat
      /\ fed \in Nat /\ fed <= Len(w)
      /\ consumed \in Nat /\ consumed <= fed
      /\ input_buf = SubSeq(w, consumed + 1, fed)
      /\ fed + n <= Len(w) /\ n \in Nat
  BY BufferFacts DEF IInv, BufferIsStreamSuffix, FeedInput
<1>2. /\ input_buf' = input_buf \o SubSeq(w, fed + 1, fed + n)
      /\ conn' = conn /\ fed' = fed + n /\ consumed' = consumed /\ looping' = TRUE
      /\ UNCHANGED <<startup_seen, handled, overwritten>>
  BY DEF FeedInput
<1> HIDE DEF w
<1>3. input_buf' = SubSeq(w, consumed + 1, fed + n)
  <2>1. /\ consumed + 1 \in 1 .. Len(w) + 1
        /\ fed \in (consumed + 1) - 1 .. Len(w)
        /\ fed + n \in fed .. Len(w)
    BY <1>1
  <2>2. SubSeq(w, consumed + 1, fed) \o SubSeq(w, fed + 1, fed + n)
            = SubSeq(w, consumed + 1, fed + n)
    BY <1>1, <2>1, ConcatAdjacentSubSeq
  <2> QED
    BY <1>1, <1>2, <2>2
<1>4. input_buf' \in Seq(Byte)
  BY <1>1, <1>3, Part
<1>5. TypeOK'
  BY <1>1, <1>2, <1>4 DEF IInv, TypeOK, w
<1>6. BufferIsStreamSuffix'
  BY <1>2, <1>3 DEF BufferIsStreamSuffix, w
<1>7. ResidueBounded'
  BY <1>2 DEF ResidueBounded
<1> QED
  BY <1>5, <1>6, <1>7 DEF IInv

\* pqwire_reset empties the buffer for a new stream.
LEMMA ResetStep ==
    ASSUME IInv, ResetInput
    PROVE  IInv'
<1>1. PICK t \in Traffic : Connect(t)
  BY DEF ResetInput
<1>2. t.wire \in Seq(Byte) /\ Len(t.wire) \in Nat
  BY TrafficAssumption, LenProperties
<1>3. /\ input_buf' \in Seq(Byte) /\ overwritten' \in Seq(Nat)
      /\ handled' \in Seq(Message \cup {ProtocolError})
  BY <1>1, EmptySeq, Zenon DEF Connect
<1>4. /\ conn' \in Traffic
      /\ fed' \in 0 .. Len(conn'.wire) /\ consumed' \in 0 .. fed'
      /\ startup_seen' \in BOOLEAN /\ looping' \in BOOLEAN
  <2>1. conn' = t /\ fed' = 0 /\ consumed' = 0
    BY <1>1 DEF Connect
  <2>2. startup_seen' \in BOOLEAN /\ looping' \in BOOLEAN
    BY <1>1, Zenon DEF Connect
  <2>3. 0 \in 0 .. Len(t.wire) /\ 0 \in 0 .. 0
    BY <1>2
  <2> QED
    BY <2>1, <2>2, <2>3, Zenon
<1>5. TypeOK'
  BY <1>3, <1>4, Zenon DEF TypeOK
<1>6. BufferIsStreamSuffix'
  <2>1. SubSeq(t.wire, 1, 0) = <<>>
    BY SubSeqEmpty
  <2> QED
    BY <1>1, <2>1 DEF Connect, BufferIsStreamSuffix
<1>7. ResidueBounded'
  BY <1>1, EmptySeq, FramingAssumption DEF Connect, ResidueBounded, input_len
<1> QED
  BY <1>5, <1>6, <1>7 DEF IInv

-----------------------------------------------------------------------------
(* One iteration of the loop: it keeps the invariant, and it shortens the  *)
(* buffer unless it ends the call.                                         *)

Shorter == looping' => Len(input_buf') < Len(input_buf)

\* The early return on an incomplete StartupMessage.
LEMMA AwaitStartupStep == IInv /\ AwaitStartup => IInv' /\ Shorter
<1> SUFFICES ASSUME IInv, AwaitStartup PROVE IInv' /\ Shorter
  OBVIOUS
<1>1. TypeOK /\ input_len \in Nat
  BY LenProperties DEF IInv, TypeOK, input_len
<1>2. input_len >= 4 => StartupLength \in Nat
  BY <1>1, LengthFields
<1>3. input_len <= (IF MaxMessageSize > 4 THEN MaxMessageSize ELSE 4)
  BY <1>1, <1>2, FramingAssumption DEF AwaitStartup, StartupIncomplete, StartupIllegal
<1>4. IInv'
  BY <1>3, ReturnStep DEF AwaitStartup
<1> QED
  BY <1>4 DEF AwaitStartup, Return, Shorter

\* The early return on an incomplete typed message.
LEMMA AwaitTypedStep == IInv /\ AwaitTyped => IInv' /\ Shorter
<1> SUFFICES ASSUME IInv, AwaitTyped PROVE IInv' /\ Shorter
  OBVIOUS
<1>1. TypeOK /\ input_len \in Nat
  BY LenProperties DEF IInv, TypeOK, input_len
<1>2. input_len >= 5 => TypedLength \in Nat
  BY <1>1, LengthFields
<1>3. input_len <= (IF MaxMessageSize > 4 THEN MaxMessageSize ELSE 4)
  BY <1>1, <1>2, FramingAssumption DEF AwaitTyped, TypedIncomplete, TypedIllegal
<1>4. IInv'
  BY <1>3, ReturnStep DEF AwaitTyped
<1> QED
  BY <1>4 DEF AwaitTyped, Return, Shorter

\* A StartupMessage of an illegal length.
LEMMA RejectStartupStep == IInv /\ RejectStartup => IInv' /\ Shorter
<1> SUFFICES ASSUME IInv, RejectStartup PROVE IInv' /\ Shorter
  OBVIOUS
<1>1. TypeOK /\ input_len \in Nat
  BY LenProperties DEF IInv, TypeOK, input_len
<1>2. ProtocolError \in Item
  BY DEF Item
<1>3. /\ HandOn(ProtocolError, 0, input_len) /\ Drop(input_len)
      /\ conn' = conn /\ fed' = fed
      /\ startup_seen' \in BOOLEAN /\ looping' = FALSE
  BY <1>1 DEF RejectStartup, TypeOK
<1>4. input_len \in 0 .. input_len
  BY <1>1
<1>5. IInv'
  BY <1>2, <1>3, <1>4, ConsumeStep
<1> QED
  BY <1>3, <1>5 DEF Shorter

\* A complete StartupMessage.
LEMMA TakeStartupStep == IInv /\ TakeStartup => IInv' /\ Shorter
<1> SUFFICES ASSUME IInv, TakeStartup PROVE IInv' /\ Shorter
  OBVIOUS
<1>1. TypeOK /\ input_len \in Nat /\ input_buf \in Seq(Byte) /\ input_len = Len(input_buf)
  BY LenProperties DEF IInv, TypeOK, input_len
<1>2. StartupLength \in Nat /\ 8 <= StartupLength /\ StartupLength <= input_len
  BY <1>1, LengthFields DEF TakeStartup, StartupIncomplete, StartupIllegal
<1> DEFINE body == SubSeq(input_buf, 5, StartupLength)
           item == [type |-> StartupType, len |-> StartupLength, body |-> body]
<1>3. body \in Seq(Byte)
  <2>1. 4 \in Nat /\ 4 <= StartupLength /\ StartupLength <= Len(input_buf)
    BY <1>1, <1>2
  <2>2. SubSeq(input_buf, 4 + 1, StartupLength) \in Seq(Byte)
    BY <1>1, <1>2, <2>1, Part, Zenon
  <2> QED
    BY <2>2
<1>4. /\ HandOn(item, 4, StartupLength) /\ Drop(StartupLength)
      /\ conn' = conn /\ fed' = fed
      /\ startup_seen' = TRUE /\ looping' = TRUE
  BY DEF TakeStartup
<1> HIDE DEF body
<1>5. item \in Item
  BY <1>2, <1>3 DEF Item, Message
<1>6. StartupLength \in 0 .. input_len
  BY <1>1, <1>2
<1> HIDE DEF item
<1>7. IInv' /\ Len(input_buf') = Len(input_buf) - StartupLength
  BY <1>4, <1>5, <1>6, ConsumeStep
<1> QED
  BY <1>1, <1>2, <1>7 DEF Shorter

\* A typed message of an illegal length.
LEMMA RejectTypedStep == IInv /\ RejectTyped => IInv' /\ Shorter
<1> SUFFICES ASSUME IInv, RejectTyped PROVE IInv' /\ Shorter
  OBVIOUS
<1>1. TypeOK /\ input_len \in Nat /\ input_len = Len(input_buf)
  BY LenProperties DEF IInv, TypeOK, input_len
<1>2. input_len >= 5 /\ TypedLength \in Nat
  BY <1>1, LengthFields DEF RejectTyped, TypedIllegal
<1>3. SkippedBytes \in 1 .. input_len
  BY <1>1, <1>2 DEF SkippedBytes
<1>4. ProtocolError \in Item
  BY DEF Item
<1>5. /\ HandOn(ProtocolError, 0, SkippedBytes) /\ Drop(SkippedBytes)
      /\ conn' = conn /\ fed' = fed
      /\ startup_seen' \in BOOLEAN /\ looping' = TRUE
  BY <1>1 DEF RejectTyped, TypeOK
<1>6. SkippedBytes \in 0 .. input_len
  BY <1>3
<1>7. IInv' /\ Len(input_buf') = Len(input_buf) - SkippedBytes
  BY <1>4, <1>5, <1>6, ConsumeStep
<1> QED
  BY <1>1, <1>3, <1>7 DEF Shorter

\* A complete typed message.
LEMMA TakeTypedStep == IInv /\ TakeTyped => IInv' /\ Shorter
<1> SUFFICES ASSUME IInv, TakeTyped PROVE IInv' /\ Shorter
  OBVIOUS
<1>1. TypeOK /\ input_len \in Nat /\ input_buf \in Seq(Byte) /\ input_len = Len(input_buf)
  BY LenProperties DEF IInv, TypeOK, input_len
<1>2. input_len >= 5 /\ TypedLength \in Nat /\ input_buf[1] \in Byte
  BY <1>1, LengthFields DEF TakeTyped, TypedIncomplete, TypedIllegal
<1>3. 4 <= TypedLength /\ 1 + TypedLength <= input_len
  BY <1>1, <1>2 DEF TakeTyped, TypedIncomplete, TypedIllegal
<1> DEFINE total == 1 + TypedLength
           body == SubSeq(input_buf, 6, total)
           item == [type |-> input_buf[1], len |-> TypedLength, body |-> body]
<1>4. total \in Nat /\ 5 <= total /\ total <= input_len
  BY <1>2, <1>3
<1>5. /\ HandOn(item, 5, total) /\ Drop(total)
      /\ conn' = conn /\ fed' = fed
      /\ startup_seen' \in BOOLEAN /\ looping' = TRUE
  BY <1>1 DEF TakeTyped, TypeOK
<1> HIDE DEF total
<1>6. body \in Seq(Byte)
  <2>1. 5 \in Nat /\ total \in Nat /\ 5 <= total /\ total <= Len(input_buf)
    BY <1>1, <1>4
  <2>2. SubSeq(input_buf, 5 + 1, total) \in Seq(Byte)
    BY <1>1, <2>1, Part, Zenon
  <2> QED
    BY <2>2
<1> HIDE DEF body
<1>7. item \in Item
  BY <1>2, <1>6 DEF Item, Message
<1>8. total \in 0 .. input_len
  BY <1>1, <1>4
<1> HIDE DEF item
<1>9. IInv' /\ Len(input_buf') = Len(input_buf) - total
  BY <1>5, <1>7, <1>8, ConsumeStep
<1> QED
  BY <1>1, <1>4, <1>9 DEF Shorter

\* Any iteration of the loop.
LEMMA IterateStep == IInv /\ Iterate => IInv' /\ Shorter
BY AwaitStartupStep, RejectStartupStep, TakeStartupStep,
   AwaitTypedStep, RejectTypedStep, TakeTypedStep DEF Iterate

\* Any step of the specification.
LEMMA IInvStep == IInv /\ [Next]_vars => IInv'
<1> SUFFICES ASSUME IInv, [Next]_vars PROVE IInv'
  OBVIOUS
<1>1. ASSUME NEW n \in 1 .. Len(conn.wire), FeedInput(n) PROVE IInv'
  BY <1>1, FeedStep
<1>2. CASE Iterate
  BY <1>2, IterateStep
<1>3. CASE ResetInput
  BY <1>3, ResetStep
<1>4. CASE UNCHANGED vars
  BY <1>4 DEF vars, IInv, TypeOK, BufferIsStreamSuffix, ResidueBounded, input_len
<1> QED
  BY <1>1, <1>2, <1>3, <1>4 DEF Next

-----------------------------------------------------------------------------
(* The theorems.                                                           *)

\* Type correctness of feed_input, for every stream: among others, no more
\* bytes leave the input buffer than were put into it.
THEOREM TypeCorrect == Spec => []TypeOK
BY IInvInit, IInvStep, PTL DEF Spec, IInv

\* feed_input never loses its place: the buffer is the part of the stream
\* that was fed and not yet consumed, whatever the chunks and the lengths.
THEOREM BufferCorrect == Spec => []BufferIsStreamSuffix
BY IInvInit, IInvStep, PTL DEF Spec, IInv

\* Between calls of feed_input a context holds no more bytes than its limit
\* allows, for any stream at all.
THEOREM ResidueCorrect == Spec => []ResidueBounded
BY IInvInit, IInvStep, PTL DEF Spec, IInv

\* Every iteration of feed_input's loop that goes on has shortened the buffer.
THEOREM ProgressCorrect == Spec => LoopProgress
<1>1. IInv /\ [Next]_vars
          => [looping /\ looping' => Len(input_buf') < Len(input_buf)]_vars
  <2> SUFFICES ASSUME IInv, Next, looping, looping'
               PROVE  Len(input_buf') < Len(input_buf)
    OBVIOUS
  <2>1. ~(\E n \in 1 .. Len(conn.wire) : FeedInput(n)) /\ ~ResetInput
    BY DEF FeedInput, ResetInput
  <2>2. Iterate
    BY <2>1 DEF Next
  <2> QED
    BY <2>2, IterateStep DEF Shorter
<1> QED
  BY <1>1, IInvInit, IInvStep, PTL DEF Spec, LoopProgress


-----------------------------------------------------------------------------
(* The messages of a legal stream.  The loop is aligned with it: what left *)
(* the buffer is a number of whole messages, those that were handed on;    *)
(* and a call returns only when the next one has not arrived in full.      *)

Aligned ==
    LET n == Len(handled)
    IN  /\ n <= Len(conn.msgs)
        /\ handled = SubSeq(conn.msgs, 1, n)
        /\ consumed = conn.ends[n]
        /\ startup_seen <=> (conn.server /\ n >= 1)
        /\ ~looping /\ n < Len(conn.msgs) => fed < conn.ends[n + 1]

MessageInv == IInv /\ (LegalStream(conn) => Aligned)

\* What wr32_be writes.
LEMMA WrittenBytes ==
    ASSUME NEW v \in Nat
    PROVE  /\ wr32_be(v) \in Seq(Byte) /\ Len(wr32_be(v)) = 4
           /\ wr32_be(v)[1] = (v \div 16777216) % 256
           /\ wr32_be(v)[2] = (v \div 65536) % 256
           /\ wr32_be(v)[3] = (v \div 256) % 256
           /\ wr32_be(v)[4] = v % 256
<1> DEFINE b1 == (v \div 16777216) % 256
           b2 == (v \div 65536) % 256
           b3 == (v \div 256) % 256
           b4 == v % 256
<1>1. b1 \in Byte /\ b2 \in Byte /\ b3 \in Byte /\ b4 \in Byte
  BY DEF Byte
<1>2. wr32_be(v) = <<b1, b2, b3, b4>>
  BY DEF wr32_be
<1> HIDE DEF b1, b2, b3, b4
<1>3. /\ <<b1, b2, b3, b4>> \in Seq(Byte) /\ Len(<<b1, b2, b3, b4>>) = 4
      /\ <<b1, b2, b3, b4>>[1] = b1 /\ <<b1, b2, b3, b4>>[2] = b2
      /\ <<b1, b2, b3, b4>>[3] = b3 /\ <<b1, b2, b3, b4>>[4] = b4
  BY <1>1
<1> QED
  BY <1>2, <1>3 DEF b1, b2, b3, b4

\* rd32_be reads what wr32_be wrote, for 32 bits.
LEMMA ReadWritten ==
    ASSUME NEW v \in Nat, Fits32Bits(v), NEW b, NEW i \in Nat,
           b[i] = wr32_be(v)[1], b[i + 1] = wr32_be(v)[2],
           b[i + 2] = wr32_be(v)[3], b[i + 3] = wr32_be(v)[4]
    PROVE  rd32_be(b, i) = v
<1>1. /\ b[i] = (v \div 16777216) % 256 /\ b[i + 1] = (v \div 65536) % 256
      /\ b[i + 2] = (v \div 256) % 256 /\ b[i + 3] = v % 256
  BY DEF wr32_be
<1> DEFINE q == v \div 256
           a == v \div 65536
           c == v \div 16777216
<1>2. q \in Nat /\ v % 256 \in Nat /\ v = 256 * q + (v % 256)
  OBVIOUS
<1>3. a \in Nat /\ q % 256 \in Nat /\ q = 256 * a + (q % 256)
  OBVIOUS
<1>4. c \in Nat /\ a % 256 \in Nat /\ a = 256 * c + (a % 256)
  OBVIOUS
<1>5. c % 256 = c
  BY <1>4 DEF Fits32Bits
<1> HIDE DEF q, a, c
<1>6. rd32_be(b, i) = 16777216 * c + 65536 * (a % 256) + 256 * (q % 256) + (v % 256)
  BY <1>1, <1>5 DEF rd32_be, q, a, c
<1> QED
  BY <1>2, <1>3, <1>4, <1>6

\* Two sequences, one behind the other.
JoinOf(z, s, t) ==
    /\ Len(z) = Len(s) + Len(t)
    /\ \A i \in 1 .. Len(s) : z[i] = s[i]
    /\ \A i \in 1 .. Len(t) : z[Len(s) + i] = t[i]

LEMMA Joined ==
    ASSUME NEW S, NEW s \in Seq(S), NEW t \in Seq(S)
    PROVE  s \o t \in Seq(S) /\ JoinOf(s \o t, s, t)
<1> DEFINE z == s \o t
<1>1. /\ z \in Seq(S) /\ Len(z) = Len(s) + Len(t)
      /\ \A i \in 1 .. Len(s) + Len(t) :
             z[i] = IF i <= Len(s) THEN s[i] ELSE t[i - Len(s)]
  BY ConcatProperties
<1>2. Len(t) \in Nat /\ Len(s) \in Nat
  BY LenProperties
<1> HIDE DEF z
<1>3. \A i \in 1 .. Len(s) : z[i] = s[i]
  BY <1>1, <1>2
<1>4. ASSUME NEW i \in 1 .. Len(t)
      PROVE  z[Len(s) + i] = t[i]
  <2>1. /\ Len(s) + i \in 1 .. Len(s) + Len(t) /\ ~(Len(s) + i <= Len(s))
        /\ (Len(s) + i) - Len(s) = i
    BY <1>2
  <2> QED
    BY <1>1, <2>1
<1>5. JoinOf(z, s, t)
  BY <1>1, <1>3, <1>4 DEF JoinOf
<1> QED
  BY <1>1, <1>5 DEF z

\* The bytes of a StartupMessage.
LEMMA StartupBytes ==
    ASSUME NEW m \in Message, m.type = StartupType
    PROVE  /\ Encode(m) \in Seq(Byte)
           /\ Len(wr32_be(m.len)) = 4
           /\ JoinOf(Encode(m), wr32_be(m.len), m.body)
<1>1. wr32_be(m.len) \in Seq(Byte) /\ Len(wr32_be(m.len)) = 4
  BY WrittenBytes DEF Message
<1>2. m.body \in Seq(Byte)
  BY DEF Message
<1>3. Encode(m) = wr32_be(m.len) \o m.body
  BY DEF Encode
<1> QED
  BY <1>1, <1>2, <1>3, Joined, Zenon

\* The bytes of a typed message: type and length, then the body.
LEMMA TypedBytes ==
    ASSUME NEW m \in Message, m.type # StartupType
    PROVE  /\ Encode(m) \in Seq(Byte)
           /\ \E x \in Seq(Byte) :
                  /\ Len(x) = 5 /\ x[1] = m.type
                  /\ \A i \in 1 .. 4 : x[1 + i] = wr32_be(m.len)[i]
                  /\ JoinOf(Encode(m), x, m.body)
<1> DEFINE w == wr32_be(m.len)
           u == <<m.type>>
           x == u \o w
<1>1. w \in Seq(Byte) /\ Len(w) = 4
  BY WrittenBytes DEF Message
<1>2. m.body \in Seq(Byte) /\ m.type \in Byte
  BY DEF Message
<1>3. u \in Seq(Byte) /\ Len(u) = 1 /\ u[1] = m.type
  BY <1>2
<1>4. Encode(m) = x \o m.body
  BY DEF Encode
<1> HIDE DEF u, w
<1>5. x \in Seq(Byte) /\ JoinOf(x, u, w)
  BY <1>1, <1>3, Joined, Zenon
<1> HIDE DEF x
<1>6. /\ Len(x) = 5 /\ x[1] = m.type
      /\ \A i \in 1 .. 4 : x[1 + i] = w[i]
  BY <1>1, <1>3, <1>5 DEF JoinOf
<1>7. Encode(m) \in Seq(Byte) /\ JoinOf(Encode(m), x, m.body)
  BY <1>2, <1>4, <1>5, Joined, Zenon
<1> QED
  BY <1>5, <1>6, <1>7 DEF w

\* A buffer that begins as e does, as far as both go.
FrontOf(buf, e) == \A i \in 1 .. Len(buf) : i <= Len(e) => buf[i] = e[i]

\* What is in the buffer when whole messages have left it.
LEMMA FrontMatches ==
    ASSUME NEW t \in Traffic, NEW k \in Nat, k < Len(t.msgs),
           NEW f \in Nat, t.ends[k] <= f, f <= Len(t.wire)
    PROVE  /\ t.msgs[k + 1] \in Message
           /\ t.ends[k + 1] = t.ends[k] + Len(Encode(t.msgs[k + 1]))
           /\ FrontOf(SubSeq(t.wire, t.ends[k] + 1, f), Encode(t.msgs[k + 1]))
<1> DEFINE w == t.wire
           m == t.msgs[k + 1]
           e == Encode(m)
           a == t.ends[k]
           c == t.ends[k + 1]
           buf == SubSeq(w, a + 1, f)
           msg == SubSeq(w, a + 1, c)
<1>1. /\ w \in Seq(Byte) /\ t.msgs \in Seq(Message)
      /\ t.ends \in [0 .. Len(t.msgs) -> Nat]
  BY TrafficAssumption
<1>2. k + 1 \in 1 .. Len(t.msgs) /\ k \in 0 .. Len(t.msgs) /\ (k + 1) - 1 = k
  BY <1>1, LenProperties
<1>3. m \in Message /\ a \in Nat /\ c \in Nat
  <2>1. m \in Message
    BY <1>1, <1>2, ElementOfSeq
  <2>2. k + 1 \in 0 .. Len(t.msgs)
    BY <1>2
  <2> QED
    BY <1>1, <1>2, <2>1, <2>2
<1>4. c = a + Len(e) /\ c <= Len(w) /\ msg = e
  BY <1>2, TrafficAssumption
<1>5. Len(e) \in Nat
  <2>1. e \in Seq(Byte)
    BY <1>3, StartupBytes, TypedBytes
  <2> QED
    BY <2>1, LenProperties
<1> HIDE DEF w, m, e, a, c
<1>6. a <= f /\ f <= Len(w) /\ a <= c
  BY <1>3, <1>4, <1>5 DEF a, w
<1>7. Len(buf) = f - a /\ \A i \in 1 .. f - a : buf[i] = w[a + i]
  BY <1>1, <1>3, <1>6, Part
<1>8. Len(msg) = c - a /\ \A i \in 1 .. c - a : msg[i] = w[a + i]
  BY <1>1, <1>3, <1>4, <1>6, Part
<1> HIDE DEF buf, msg
<1>9. FrontOf(buf, msg)
  BY <1>3, <1>6, <1>7, <1>8 DEF FrontOf
<1> QED
  BY <1>3, <1>4, <1>9 DEF w, m, e, a, c, buf, msg

\* A legal StartupMessage at the front: its length is what is announced, and
\* its body is what lies behind the length.
LEMMA StartupFront ==
    ASSUME NEW m \in Message, m.type = StartupType, Legal(m),
           NEW buf \in Seq(Byte), FrontOf(buf, Encode(m))
    PROVE  /\ Len(Encode(m)) = m.len
           /\ Len(buf) >= 4 => rd32_be(buf, 1) = m.len
           /\ Len(buf) >= m.len => SubSeq(buf, 5, m.len) = m.body
<1> DEFINE w == wr32_be(m.len)
           b == m.body
           e == Encode(m)
           l == m.len
<1>1. l \in Nat /\ b \in Seq(Byte) /\ Len(b) \in Nat /\ Len(buf) \in Nat
  BY LenProperties DEF Message
<1>2. l = Len(b) + 4 /\ Fits32Bits(l)
  BY DEF Legal
<1>3. Len(w) = 4 /\ JoinOf(e, w, b)
  BY StartupBytes
<1> HIDE DEF e, b
<1>4. /\ Len(e) = 4 + Len(b)
      /\ \A i \in 1 .. 4 : e[i] = w[i]
      /\ \A i \in 1 .. Len(b) : e[4 + i] = b[i]
  BY <1>1, <1>3 DEF JoinOf
<1>5. \A i \in 1 .. Len(buf) : i <= Len(e) => buf[i] = e[i]
  BY DEF FrontOf, e
<1>6. ASSUME Len(buf) >= 4
      PROVE  rd32_be(buf, 1) = l
  <2>1. \A i \in 1 .. 4 : buf[i] = w[i]
    BY <1>1, <1>4, <1>5, <1>6
  <2>2. buf[1] = w[1] /\ buf[1 + 1] = w[2] /\ buf[1 + 2] = w[3] /\ buf[1 + 3] = w[4]
    BY <2>1
  <2> QED
    BY <1>1, <1>2, <2>2, ReadWritten
<1>7. ASSUME Len(buf) >= l
      PROVE  SubSeq(buf, 5, l) = b
  <2> DEFINE r == SubSeq(buf, 4 + 1, l)
  <2>1. 4 \in Nat /\ 4 <= l /\ l <= Len(buf)
    BY <1>1, <1>2, <1>7
  <2>2. /\ r \in Seq(Byte) /\ Len(r) = l - 4
        /\ \A i \in 1 .. l - 4 : r[i] = buf[4 + i]
    BY <1>1, <2>1, Part
  <2> HIDE DEF r, l
  <2>3. ASSUME NEW i \in 1 .. Len(b)
        PROVE  r[i] = b[i]
    <3>1. i \in 1 .. l - 4 /\ 4 + i \in 1 .. Len(buf) /\ 4 + i <= Len(e)
      BY <1>1, <1>2, <1>4, <2>1, <2>2
    <3>2. r[i] = buf[4 + i] /\ buf[4 + i] = e[4 + i] /\ e[4 + i] = b[i]
      BY <1>4, <1>5, <2>2, <3>1, Zenon
    <3> QED
      BY <3>2
  <2>4. r = b
    BY <1>1, <1>2, <2>2, <2>3, SeqEqual
  <2> QED
    BY <2>4 DEF r
<1> QED
  BY <1>1, <1>2, <1>4, <1>6, <1>7 DEF e, b

\* A legal typed message at the front.
LEMMA TypedFront ==
    ASSUME NEW m \in Message, m.type # StartupType, Legal(m),
           NEW buf \in Seq(Byte), FrontOf(buf, Encode(m))
    PROVE  /\ Len(Encode(m)) = 1 + m.len
           /\ Len(buf) >= 5 => rd32_be(buf, 2) = m.len /\ buf[1] = m.type
           /\ Len(buf) >= 1 + m.len => SubSeq(buf, 6, 1 + m.len) = m.body
<1> DEFINE w == wr32_be(m.len)
           b == m.body
           e == Encode(m)
           l == m.len
           c == 1 + l
<1>1. l \in Nat /\ b \in Seq(Byte) /\ Len(b) \in Nat /\ Len(buf) \in Nat
  BY LenProperties DEF Message
<1>2. l = Len(b) + 4 /\ Fits32Bits(l)
  BY DEF Legal
<1>3. PICK x \in Seq(Byte) :
          /\ Len(x) = 5 /\ x[1] = m.type
          /\ \A i \in 1 .. 4 : x[1 + i] = w[i]
          /\ JoinOf(e, x, b)
  BY TypedBytes
<1> HIDE DEF e, b
<1>4. /\ Len(e) = 5 + Len(b)
      /\ \A i \in 1 .. 5 : e[i] = x[i]
      /\ \A i \in 1 .. Len(b) : e[5 + i] = b[i]
  BY <1>1, <1>3 DEF JoinOf
<1>5. \A i \in 1 .. Len(buf) : i <= Len(e) => buf[i] = e[i]
  BY DEF FrontOf, e
<1>6. ASSUME Len(buf) >= 5
      PROVE  rd32_be(buf, 2) = l /\ buf[1] = m.type
  <2>1. \A i \in 1 .. 5 : buf[i] = x[i]
    BY <1>1, <1>4, <1>5, <1>6
  <2>2. buf[2] = w[1] /\ buf[2 + 1] = w[2] /\ buf[2 + 2] = w[3] /\ buf[2 + 3] = w[4]
    <3>1. \A i \in 1 .. 4 : buf[1 + i] = w[i]
      BY <1>3, <2>1
    <3> HIDE DEF w
    <3> QED
      BY <3>1
  <2> QED
    BY <1>1, <1>2, <1>3, <2>1, <2>2, ReadWritten
<1>7. ASSUME Len(buf) >= c
      PROVE  SubSeq(buf, 6, c) = b
  <2> DEFINE r == SubSeq(buf, 5 + 1, c)
  <2>1. 5 \in Nat /\ c \in Nat /\ 5 <= c /\ c <= Len(buf) /\ c = 5 + Len(b)
    BY <1>1, <1>2, <1>7
  <2> HIDE DEF c
  <2>2. /\ r \in Seq(Byte) /\ Len(r) = c - 5
        /\ \A i \in 1 .. c - 5 : r[i] = buf[5 + i]
    BY <1>1, <2>1, Part
  <2> HIDE DEF r
  <2>3. ASSUME NEW i \in 1 .. Len(b)
        PROVE  r[i] = b[i]
    <3>1. i \in 1 .. c - 5 /\ 5 + i \in 1 .. Len(buf) /\ 5 + i <= Len(e)
      BY <1>1, <1>4, <2>1, <2>2
    <3>2. r[i] = buf[5 + i] /\ buf[5 + i] = e[5 + i] /\ e[5 + i] = b[i]
      BY <1>4, <1>5, <2>2, <3>1, Zenon
    <3> QED
      BY <3>2
  <2>4. r = b
    BY <1>1, <2>1, <2>2, <2>3, SeqEqual
  <2> QED
    BY <2>4 DEF r
<1> QED
  BY <1>1, <1>2, <1>4, <1>6, <1>7 DEF e, b

\* The ends of the messages are in order.
LEMMA EndsOrdered ==
    ASSUME NEW t \in Traffic, NEW i \in 0 .. Len(t.msgs), NEW j \in i .. Len(t.msgs)
    PROVE  t.ends[i] <= t.ends[j]
<1> DEFINE L == Len(t.msgs)
           S == {d \in Nat : i + d <= L => t.ends[i] <= t.ends[i + d]}
<1>1. L \in Nat /\ t.ends \in [0 .. L -> Nat] /\ i \in Nat
  BY TrafficAssumption, LenProperties
<1>2. \A k \in 1 .. L : t.ends[k] = t.ends[k - 1] + Len(Encode(t.msgs[k]))
  BY TrafficAssumption
<1>3. ASSUME NEW k \in 1 .. L
      PROVE  t.ends[k - 1] <= t.ends[k]
  <2>1. t.msgs \in Seq(Message)
    BY TrafficAssumption
  <2>2. t.msgs[k] \in Message
    BY <2>1, ElementOfSeq
  <2>3. Encode(t.msgs[k]) \in Seq(Byte)
    BY <2>2, StartupBytes, TypedBytes
  <2>4. Len(Encode(t.msgs[k])) \in Nat
    BY <2>3, LenProperties
  <2>5. t.ends[k - 1] \in Nat
    BY <1>1
  <2> QED
    BY <1>2, <2>4, <2>5
<1> HIDE DEF L
<1>4. 0 \in S
  BY <1>1
<1>5. ASSUME NEW d \in Nat, d \in S
      PROVE  d + 1 \in S
  <2> SUFFICES ASSUME i + (d + 1) <= L
               PROVE  t.ends[i] <= t.ends[i + (d + 1)]
    OBVIOUS
  <2>1. /\ i + (d + 1) \in 1 .. L /\ (i + (d + 1)) - 1 = i + d
        /\ i \in 0 .. L /\ i + d \in 0 .. L /\ i + (d + 1) \in 0 .. L
    BY <1>1
  <2>2. t.ends[i] \in Nat /\ t.ends[i + d] \in Nat /\ t.ends[i + (d + 1)] \in Nat
    BY <1>1, <2>1
  <2>3. t.ends[i] <= t.ends[i + d]
    BY <1>1, <1>5, <2>1
  <2>4. t.ends[i + d] <= t.ends[i + (d + 1)]
    BY <1>3, <2>1
  <2> QED
    BY <2>2, <2>3, <2>4
<1> HIDE DEF S
<1>6. Nat \subseteq S
  BY <1>4, <1>5, SetInduction
<1>7. j - i \in S /\ i + (j - i) = j /\ j <= L
  BY <1>1, <1>6 DEF L
<1> QED
  BY <1>7 DEF S

\* The bytes of a legal message are at least those of its length.
LEMMA LegalBytes ==
    ASSUME NEW m \in Message, Legal(m)
    PROVE  Len(Encode(m)) \in Nat /\ Len(Encode(m)) > 0
<1>1. m.len \in Nat /\ m.len >= 4
  BY DEF Legal, Message
<1>2. <<>> \in Seq(Byte) /\ Len(<<>>) = 0
  BY EmptySeq
<1>3. FrontOf(<<>>, Encode(m))
  BY <1>2 DEF FrontOf
<1>4. Len(Encode(m)) = m.len \/ Len(Encode(m)) = 1 + m.len
  BY <1>2, <1>3, StartupFront, TypedFront
<1> QED
  BY <1>1, <1>4

\* On a new stream nothing has arrived.
LEMMA FreshStream ==
    ASSUME NEW t \in Traffic, LegalStream(t), 0 < Len(t.msgs)
    PROVE  0 < t.ends[1]
<1>1. t.msgs \in Seq(Message) /\ t.ends[0] = 0
  BY TrafficAssumption
<1>2. 1 \in 1 .. Len(t.msgs)
  BY <1>1, LenProperties
<1>3. t.msgs[1] \in Message
  BY <1>1, <1>2, ElementOfSeq
<1>4. Legal(t.msgs[1])
  BY <1>2 DEF LegalStream
<1>5. t.ends[1] = t.ends[1 - 1] + Len(Encode(t.msgs[1]))
  BY <1>2, TrafficAssumption
<1> QED
  BY <1>1, <1>3, <1>4, <1>5, LegalBytes

\* What the loop has before it: nothing after the last message, else the
\* next one, as far as it has arrived.
LEMMA BeforeTheLoop ==
    ASSUME IInv, LegalStream(conn), Aligned, NEW n, n = Len(handled)
    PROVE  /\ n \in Nat /\ n <= Len(conn.msgs) /\ Len(conn.msgs) \in Nat
           /\ n = Len(conn.msgs) => input_len = 0
           /\ n < Len(conn.msgs) =>
                  /\ conn.msgs[n + 1] \in Message /\ Legal(conn.msgs[n + 1])
                  /\ conn.msgs[n + 1].type = StartupType <=> AwaitsStartup
                  /\ conn.ends[n + 1] = consumed + Len(Encode(conn.msgs[n + 1]))
                  /\ FrontOf(input_buf, Encode(conn.msgs[n + 1]))
<1>1. TypeOK /\ BufferIsStreamSuffix /\ conn \in Traffic
  BY DEF IInv, TypeOK
<1>2. /\ Len(conn.wire) \in Nat /\ fed \in Nat /\ fed <= Len(conn.wire)
      /\ consumed \in Nat /\ consumed <= fed /\ input_len = fed - consumed
  BY <1>1, BufferFacts
<1>3. handled \in Seq(Item) /\ n \in Nat
  BY <1>1, LenProperties DEF TypeOK, Item
<1>4. conn.msgs \in Seq(Message) /\ conn.ends[Len(conn.msgs)] = Len(conn.wire)
  BY <1>1, TrafficAssumption
<1>5. Len(conn.msgs) \in Nat
  BY <1>4, LenProperties
<1>6. /\ n <= Len(conn.msgs) /\ consumed = conn.ends[n]
      /\ startup_seen <=> (conn.server /\ n >= 1)
  BY DEF Aligned
<1>7. n = Len(conn.msgs) => input_len = 0
  BY <1>2, <1>4, <1>6
<1>8. ASSUME n < Len(conn.msgs)
      PROVE  /\ conn.msgs[n + 1] \in Message /\ Legal(conn.msgs[n + 1])
             /\ conn.msgs[n + 1].type = StartupType <=> AwaitsStartup
             /\ conn.ends[n + 1] = consumed + Len(Encode(conn.msgs[n + 1]))
             /\ FrontOf(input_buf, Encode(conn.msgs[n + 1]))
  <2>1. n + 1 \in 1 .. Len(conn.msgs) /\ (n + 1 = 1 <=> ~(n >= 1))
    BY <1>3, <1>5, <1>8
  <2>2. /\ Legal(conn.msgs[n + 1])
        /\ conn.msgs[n + 1].type = StartupType <=> (conn.server /\ n + 1 = 1)
    BY <2>1 DEF LegalStream
  <2>3. AwaitsStartup <=> (conn.server /\ n + 1 = 1)
    BY <1>6, <2>1 DEF AwaitsStartup
  <2>4. conn.ends[n] <= fed
    BY <1>2, <1>6
  <2>5. /\ conn.msgs[n + 1] \in Message
        /\ conn.ends[n + 1] = conn.ends[n] + Len(Encode(conn.msgs[n + 1]))
        /\ FrontOf(SubSeq(conn.wire, conn.ends[n] + 1, fed), Encode(conn.msgs[n + 1]))
    BY <1>1, <1>2, <1>3, <1>8, <2>4, FrontMatches
  <2>6. input_buf = SubSeq(conn.wire, conn.ends[n] + 1, fed)
    BY <1>1, <1>6 DEF BufferIsStreamSuffix
  <2> QED
    BY <1>6, <2>2, <2>3, <2>5, <2>6
<1> QED
  BY <1>3, <1>5, <1>6, <1>7, <1>8

\* An iteration that hands on the next message stays aligned.
LEMMA HandOnAligned ==
    ASSUME IInv, Aligned, conn' = conn, looping' = TRUE,
           NEW n \in Nat, n = Len(handled), n < Len(conn.msgs),
           handled' = Append(handled, conn.msgs[n + 1]),
           consumed' = conn.ends[n + 1],
           startup_seen' <=> conn.server
    PROVE  Aligned'
<1>1. conn \in Traffic /\ handled \in Seq(Item)
  BY DEF IInv, TypeOK, Item
<1>2. conn.msgs \in Seq(Message)
  BY <1>1, TrafficAssumption
<1>3. Len(conn.msgs) \in Nat
  BY <1>2, LenProperties
<1> DEFINE ms == conn.msgs
           m == conn.msgs[n + 1]
<1>4. m \in Message /\ n + 1 \in 1 .. Len(ms)
  BY <1>2, <1>3, ElementOfSeq
<1>5. handled = SubSeq(ms, 1, n)
  BY DEF Aligned
<1> HIDE DEF ms
<1>6. ms \in Seq(Message) /\ Len(ms) \in Nat /\ n < Len(ms) /\ m = ms[n + 1]
  BY <1>2, <1>3 DEF ms
<1> HIDE DEF m
<1>7. Append(SubSeq(ms, 1, n), m) = SubSeq(ms, 1, n + 1)
  <2> DEFINE q == SubSeq(ms, 0 + 1, n)
             r == SubSeq(ms, 0 + 1, n + 1)
             p == Append(q, m)
  <2>1. /\ q \in Seq(Message) /\ Len(q) = n - 0
        /\ \A i \in 1 .. n - 0 : q[i] = ms[0 + i]
    <3>1. 0 \in Nat /\ 0 <= n /\ n <= Len(ms)
      BY <1>6
    <3> QED
      BY <1>6, <3>1, Part
  <2>2. /\ r \in Seq(Message) /\ Len(r) = (n + 1) - 0
        /\ \A i \in 1 .. (n + 1) - 0 : r[i] = ms[0 + i]
    <3>1. 0 \in Nat /\ n + 1 \in Nat /\ 0 <= n + 1 /\ n + 1 <= Len(ms)
      BY <1>6
    <3> QED
      BY <1>6, <3>1, Part
  <2> HIDE DEF q, r
  <2>3. /\ p \in Seq(Message) /\ Len(p) = n + 1
        /\ \A i \in 1 .. n : p[i] = q[i]
        /\ p[n + 1] = m
    <3>1. /\ p \in Seq(Message) /\ Len(p) = Len(q) + 1
          /\ \A i \in 1 .. Len(q) : p[i] = q[i]
          /\ p[Len(q) + 1] = m
      BY <1>4, <2>1, AppendProperties
    <3>2. Len(q) = n
      BY <2>1
    <3> HIDE DEF p
    <3> QED
      BY <3>1, <3>2
  <2> HIDE DEF p
  <2>4. ASSUME NEW i \in 1 .. n + 1
        PROVE  p[i] = r[i]
    <3>1. r[i] = ms[i]
      BY <2>2
    <3>2. CASE i \in 1 .. n
      BY <2>1, <2>3, <3>1, <3>2
    <3>3. CASE i = n + 1
      BY <1>6, <2>3, <3>1, <3>3
    <3> QED
      BY <3>2, <3>3
  <2>5. p = r
    BY <2>2, <2>3, <2>4, SeqEqual
  <2> QED
    BY <2>5 DEF p, q, r
<1>8. handled' = SubSeq(ms, 1, n + 1)
  BY <1>5, <1>7 DEF m
<1>9. Len(handled') = n + 1
  <2>1. 0 \in Nat /\ n + 1 \in Nat /\ 0 <= n + 1 /\ n + 1 <= Len(ms)
    BY <1>6
  <2>2. Len(SubSeq(ms, 0 + 1, n + 1)) = (n + 1) - 0
    BY <1>6, <2>1, Part
  <2> QED
    BY <1>8, <2>2
<1> QED
  BY <1>6, <1>8, <1>9 DEF Aligned, ms

\* A new connection is aligned.
LEMMA FreshAligned ==
    ASSUME NEW t \in Traffic, LegalStream(t)
    PROVE  /\ 0 <= Len(t.msgs) /\ <<>> = SubSeq(t.msgs, 1, 0) /\ 0 = t.ends[0]
           /\ 0 < Len(t.msgs) => 0 < t.ends[0 + 1]
<1>1. t.msgs \in Seq(Message) /\ t.ends[0] = 0
  BY TrafficAssumption
<1>2. SubSeq(t.msgs, 1, 0) = <<>>
  BY SubSeqEmpty
<1>3. 0 <= Len(t.msgs)
  BY <1>1, LenProperties
<1> QED
  BY <1>1, <1>2, <1>3, FreshStream

\* The early return on an incomplete StartupMessage.
LEMMA AwaitStartupAligned ==
    ASSUME IInv, LegalStream(conn), Aligned, AwaitStartup
    PROVE  Aligned'
<1> DEFINE n == Len(handled)
           m == conn.msgs[n + 1]
<1>1. /\ n \in Nat /\ n <= Len(conn.msgs) /\ Len(conn.msgs) \in Nat
      /\ n < Len(conn.msgs) =>
             /\ m \in Message /\ Legal(m)
             /\ m.type = StartupType <=> AwaitsStartup
             /\ conn.ends[n + 1] = consumed + Len(Encode(m))
             /\ FrontOf(input_buf, Encode(m))
  BY BeforeTheLoop
<1>2. /\ input_buf \in Seq(Byte) /\ input_len = fed - consumed
      /\ fed \in Nat /\ consumed \in Nat /\ input_len \in Nat
  BY BufferFacts DEF IInv
<1>3. ASSUME n < Len(conn.msgs)
      PROVE  fed < conn.ends[n + 1]
  <2>1. /\ m \in Message /\ Legal(m) /\ m.type = StartupType
        /\ conn.ends[n + 1] = consumed + Len(Encode(m))
        /\ FrontOf(input_buf, Encode(m))
    BY <1>1, <1>3 DEF AwaitStartup
  <2>2. /\ Len(Encode(m)) = m.len
        /\ input_len >= 4 => StartupLength = m.len
    BY <1>2, <2>1, StartupFront DEF input_len, StartupLength
  <2>3. m.len \in Nat /\ m.len >= 8
    BY <2>1 DEF Legal, Message
  <2>4. input_len >= 4 => input_len < StartupLength
    BY DEF AwaitStartup, StartupIncomplete
  <2> HIDE DEF m
  <2>5. input_len < m.len
    BY <1>2, <2>2, <2>3, <2>4
  <2> QED
    BY <1>2, <2>1, <2>2, <2>3, <2>5
<1> QED
  BY <1>3 DEF AwaitStartup, Return, Aligned

\* The early return on an incomplete typed message.
LEMMA AwaitTypedAligned ==
    ASSUME IInv, LegalStream(conn), Aligned, AwaitTyped
    PROVE  Aligned'
<1> DEFINE n == Len(handled)
           m == conn.msgs[n + 1]
<1>1. /\ n \in Nat /\ n <= Len(conn.msgs) /\ Len(conn.msgs) \in Nat
      /\ n < Len(conn.msgs) =>
             /\ m \in Message /\ Legal(m)
             /\ m.type = StartupType <=> AwaitsStartup
             /\ conn.ends[n + 1] = consumed + Len(Encode(m))
             /\ FrontOf(input_buf, Encode(m))
  BY BeforeTheLoop
<1>2. /\ input_buf \in Seq(Byte) /\ input_len = fed - consumed
      /\ fed \in Nat /\ consumed \in Nat /\ input_len \in Nat
  BY BufferFacts DEF IInv
<1>3. ASSUME n < Len(conn.msgs)
      PROVE  fed < conn.ends[n + 1]
  <2>1. /\ m \in Message /\ Legal(m) /\ m.type # StartupType
        /\ conn.ends[n + 1] = consumed + Len(Encode(m))
        /\ FrontOf(input_buf, Encode(m))
    BY <1>1, <1>3 DEF AwaitTyped
  <2>2. /\ Len(Encode(m)) = 1 + m.len
        /\ input_len >= 5 => TypedLength = m.len
    BY <1>2, <2>1, TypedFront DEF input_len, TypedLength
  <2>3. m.len \in Nat /\ m.len >= 4
    BY <2>1 DEF Legal, Message
  <2>4. input_len >= 5 => input_len < 1 + TypedLength
    BY DEF AwaitTyped, TypedIncomplete
  <2> HIDE DEF m
  <2>5. input_len < 1 + m.len
    BY <1>2, <2>2, <2>3, <2>4
  <2> QED
    BY <1>2, <2>1, <2>2, <2>3, <2>5
<1> QED
  BY <1>3 DEF AwaitTyped, Return, Aligned

\* No legal message is rejected.
LEMMA NothingRejected ==
    ASSUME IInv, LegalStream(conn), Aligned
    PROVE  ~RejectStartup /\ ~RejectTyped
<1> DEFINE n == Len(handled)
           m == conn.msgs[n + 1]
<1>1. /\ n \in Nat /\ n <= Len(conn.msgs) /\ Len(conn.msgs) \in Nat
      /\ n = Len(conn.msgs) => input_len = 0
      /\ n < Len(conn.msgs) =>
             /\ m \in Message /\ Legal(m)
             /\ m.type = StartupType <=> AwaitsStartup
             /\ FrontOf(input_buf, Encode(m))
  BY BeforeTheLoop
<1>2. input_buf \in Seq(Byte) /\ input_len \in Nat
  BY BufferFacts DEF IInv
<1>3. CASE n = Len(conn.msgs)
  BY <1>1, <1>3 DEF RejectStartup, RejectTyped, StartupIllegal, TypedIllegal
<1>4. CASE n < Len(conn.msgs)
  <2>1. /\ m \in Message /\ Legal(m)
        /\ m.type = StartupType <=> AwaitsStartup
        /\ FrontOf(input_buf, Encode(m))
    BY <1>1, <1>4
  <2>2. m.len \in Nat /\ m.len <= MaxMessageSize
    BY <2>1 DEF Legal, Message
  <2>3. ~RejectStartup
    <3> SUFFICES ASSUME AwaitsStartup, StartupIllegal PROVE FALSE
      BY DEF RejectStartup
    <3>1. m.type = StartupType /\ m.len >= 8
      BY <2>1 DEF Legal
    <3>2. StartupLength = m.len
      BY <1>2, <2>1, <3>1, StartupFront DEF input_len, StartupLength, StartupIllegal
    <3> HIDE DEF m
    <3> QED
      BY <2>2, <3>1, <3>2, FramingAssumption DEF StartupIllegal
  <2>4. ~RejectTyped
    <3> SUFFICES ASSUME ~AwaitsStartup, TypedIllegal PROVE FALSE
      BY DEF RejectTyped
    <3>1. m.type # StartupType /\ m.len >= 4
      BY <2>1 DEF Legal
    <3>2. TypedLength = m.len
      BY <1>2, <2>1, <3>1, TypedFront DEF input_len, TypedLength, TypedIllegal
    <3> HIDE DEF m
    <3> QED
      BY <2>2, <3>1, <3>2, FramingAssumption DEF TypedIllegal
  <2> QED
    BY <2>3, <2>4
<1> QED
  BY <1>1, <1>3, <1>4

\* A complete StartupMessage is handed on as it was sent.
LEMMA TakeStartupAligned ==
    ASSUME IInv, LegalStream(conn), Aligned, TakeStartup
    PROVE  Aligned'
<1> DEFINE n == Len(handled)
           m == conn.msgs[n + 1]
<1>1. /\ n \in Nat /\ n <= Len(conn.msgs) /\ Len(conn.msgs) \in Nat
      /\ n = Len(conn.msgs) => input_len = 0
      /\ n < Len(conn.msgs) =>
             /\ m \in Message /\ Legal(m)
             /\ m.type = StartupType <=> AwaitsStartup
             /\ conn.ends[n + 1] = consumed + Len(Encode(m))
             /\ FrontOf(input_buf, Encode(m))
  BY BeforeTheLoop
<1>2. input_buf \in Seq(Byte) /\ input_len \in Nat /\ input_len = Len(input_buf)
  BY BufferFacts DEF IInv, input_len
<1>3. input_len >= 4 /\ ~(input_len < StartupLength)
  BY DEF TakeStartup, StartupIncomplete
<1>4. n < Len(conn.msgs)
  BY <1>1, <1>2, <1>3
<1>5. /\ m \in Message /\ Legal(m) /\ m.type = StartupType
      /\ conn.ends[n + 1] = consumed + Len(Encode(m))
      /\ FrontOf(input_buf, Encode(m))
  BY <1>1, <1>4 DEF TakeStartup
<1>6. Len(Encode(m)) = m.len /\ StartupLength = m.len
  BY <1>2, <1>3, <1>5, StartupFront DEF StartupLength
<1>7. m.len \in Nat /\ m = [type |-> m.type, len |-> m.len, body |-> m.body]
  BY <1>5 DEF Message
<1>8. SubSeq(input_buf, 5, m.len) = m.body
  <2>1. Len(input_buf) >= m.len
    BY <1>2, <1>3, <1>6, <1>7
  <2> QED
    BY <1>2, <1>5, <2>1, StartupFront
<1>9. handled' = Append(handled, m)
  <2>1. handled' = Append(handled, [type |-> StartupType, len |-> StartupLength,
                                    body |-> SubSeq(input_buf, 5, StartupLength)])
    BY DEF TakeStartup, HandOn
  <2> QED
    BY <1>5, <1>6, <1>7, <1>8, <2>1
<1>10. consumed' = conn.ends[n + 1]
  BY <1>5, <1>6 DEF TakeStartup, Drop
<1>11. conn' = conn /\ looping' = TRUE /\ startup_seen' = TRUE /\ conn.server
  BY DEF TakeStartup, AwaitsStartup
<1> QED
  BY <1>1, <1>4, <1>9, <1>10, <1>11, HandOnAligned

\* A complete typed message is handed on as it was sent.
LEMMA TakeTypedAligned ==
    ASSUME IInv, LegalStream(conn), Aligned, TakeTyped
    PROVE  Aligned'
<1> DEFINE n == Len(handled)
           m == conn.msgs[n + 1]
<1>1. /\ n \in Nat /\ n <= Len(conn.msgs) /\ Len(conn.msgs) \in Nat
      /\ n = Len(conn.msgs) => input_len = 0
      /\ n < Len(conn.msgs) =>
             /\ m \in Message /\ Legal(m)
             /\ m.type = StartupType <=> AwaitsStartup
             /\ conn.ends[n + 1] = consumed + Len(Encode(m))
             /\ FrontOf(input_buf, Encode(m))
  BY BeforeTheLoop
<1>2. input_buf \in Seq(Byte) /\ input_len \in Nat /\ input_len = Len(input_buf)
  BY BufferFacts DEF IInv, input_len
<1>3. input_len >= 5 /\ ~(input_len < 1 + TypedLength)
  BY DEF TakeTyped, TypedIncomplete
<1>4. n < Len(conn.msgs)
  BY <1>1, <1>2, <1>3
<1>5. /\ m \in Message /\ Legal(m) /\ m.type # StartupType
      /\ conn.ends[n + 1] = consumed + Len(Encode(m))
      /\ FrontOf(input_buf, Encode(m))
  BY <1>1, <1>4 DEF TakeTyped
<1>6. Len(Encode(m)) = 1 + m.len /\ TypedLength = m.len /\ input_buf[1] = m.type
  BY <1>2, <1>3, <1>5, TypedFront DEF TypedLength
<1>7. m.len \in Nat /\ m = [type |-> m.type, len |-> m.len, body |-> m.body]
  BY <1>5 DEF Message
<1>8. SubSeq(input_buf, 6, 1 + m.len) = m.body
  <2>1. Len(input_buf) >= 1 + m.len
    BY <1>2, <1>3, <1>6, <1>7
  <2> QED
    BY <1>2, <1>5, <2>1, TypedFront
<1>9. handled' = Append(handled, m)
  <2>1. handled' = Append(handled, [type |-> input_buf[1], len |-> TypedLength,
                                    body |-> SubSeq(input_buf, 6, 1 + TypedLength)])
    BY DEF TakeTyped, HandOn
  <2> QED
    BY <1>6, <1>7, <1>8, <2>1
<1>10. consumed' = conn.ends[n + 1]
  BY <1>5, <1>6 DEF TakeTyped, Drop
<1>11. conn' = conn /\ looping' = TRUE /\ startup_seen' = startup_seen
  BY DEF TakeTyped
<1>12. startup_seen <=> conn.server
  BY DEF TakeTyped, AwaitsStartup, Aligned
<1> QED
  BY <1>1, <1>4, <1>9, <1>10, <1>11, <1>12, HandOnAligned

\* The stronger invariant holds of a fresh context.
LEMMA MessageInvInit == Init => MessageInv
<1> SUFFICES ASSUME Init, LegalStream(conn) PROVE Aligned
  BY IInvInit DEF MessageInv
<1>1. conn \in Traffic /\ handled = <<>> /\ consumed = 0 /\ fed = 0 /\ startup_seen = FALSE
  BY DEF Init
<1>2. Len(handled) = 0
  BY <1>1
<1>3. /\ 0 <= Len(conn.msgs) /\ <<>> = SubSeq(conn.msgs, 1, 0) /\ 0 = conn.ends[0]
      /\ 0 < Len(conn.msgs) => 0 < conn.ends[0 + 1]
  BY <1>1, FreshAligned
<1> QED
  BY <1>1, <1>2, <1>3 DEF Aligned

\* Every step keeps it.
LEMMA MessageInvStep == MessageInv /\ [Next]_vars => MessageInv'
<1> SUFFICES ASSUME MessageInv, [Next]_vars PROVE MessageInv'
  OBVIOUS
<1>1. IInv /\ IInv'
  BY IInvStep DEF MessageInv
<1> SUFFICES ASSUME LegalStream(conn)' PROVE Aligned'
  BY <1>1 DEF MessageInv
<1>2. ASSUME ResetInput PROVE Aligned'
  <2>1. PICK t \in Traffic : Connect(t)
    BY <1>2 DEF ResetInput
  <2>2. conn' = t /\ handled' = <<>> /\ consumed' = 0 /\ fed' = 0 /\ startup_seen' = FALSE
    BY <2>1 DEF Connect
  <2>3. LegalStream(t) /\ Len(handled') = 0
    BY <2>2
  <2>4. /\ 0 <= Len(t.msgs) /\ <<>> = SubSeq(t.msgs, 1, 0) /\ 0 = t.ends[0]
        /\ 0 < Len(t.msgs) => 0 < t.ends[0 + 1]
    BY <2>3, FreshAligned
  <2> QED
    BY <2>2, <2>3, <2>4 DEF Aligned
<1>3. ASSUME conn' = conn PROVE LegalStream(conn) /\ Aligned
  BY <1>3 DEF MessageInv
<1>4. ASSUME NEW k \in 1 .. Len(conn.wire), FeedInput(k) PROVE Aligned'
  <2>1. Aligned
    BY <1>3, <1>4 DEF FeedInput
  <2> QED
    BY <1>4, <2>1 DEF FeedInput, Aligned
<1>5. ASSUME Iterate PROVE Aligned'
  <2>1. LegalStream(conn) /\ Aligned
    BY <1>3, <1>5 DEF Iterate, AwaitStartup, RejectStartup, TakeStartup, AwaitTyped,
                      RejectTyped, TakeTyped, Return
  <2> QED
    BY <1>1, <1>5, <2>1, NothingRejected, AwaitStartupAligned, TakeStartupAligned,
       AwaitTypedAligned, TakeTypedAligned DEF Iterate
<1>6. ASSUME UNCHANGED vars PROVE Aligned'
  <2>1. Aligned
    BY <1>3, <1>6 DEF vars
  <2> QED
    BY <1>6, <2>1 DEF vars, Aligned
<1> QED
  BY <1>2, <1>4, <1>5, <1>6 DEF Next

\* An aligned context that is not in its loop has handed on what arrived.
LEMMA AlignedHandled == MessageInv => CompleteMessagesHandled
<1> SUFFICES ASSUME MessageInv, ~looping, LegalStream(conn)
             PROVE  handled = SubSeq(conn.msgs, 1, Arrived)
  BY DEF CompleteMessagesHandled
<1> DEFINE n == Len(handled)
           L == Len(conn.msgs)
           A == {k \in 1 .. L : conn.ends[k] <= fed}
<1>1. IInv /\ Aligned /\ conn \in Traffic
  BY DEF MessageInv, IInv, TypeOK
<1>2. n \in Nat /\ n <= L /\ L \in Nat
  BY <1>1, BeforeTheLoop
<1>3. consumed = conn.ends[n] /\ (n < L => fed < conn.ends[n + 1])
  BY <1>1 DEF Aligned
<1>4. fed \in Nat /\ consumed <= fed /\ consumed \in Nat
  BY <1>1, BufferFacts DEF IInv
<1>5. \A k \in 0 .. L : conn.ends[k] \in Nat
  BY <1>1, TrafficAssumption
<1>6. A = 1 .. n
  <2>1. ASSUME NEW k \in 1 .. L, k <= n
        PROVE  conn.ends[k] <= fed
    <3>1. k \in 0 .. L /\ n \in k .. L
      BY <1>2, <2>1
    <3>2. conn.ends[k] <= conn.ends[n]
      BY <1>1, <3>1, EndsOrdered
    <3> QED
      BY <1>3, <1>4, <1>5, <3>1, <3>2
  <2>2. ASSUME NEW k \in 1 .. L, ~(k <= n)
        PROVE  ~(conn.ends[k] <= fed)
    <3>1. n + 1 \in 0 .. L /\ k \in n + 1 .. L /\ n < L /\ k \in 0 .. L
      BY <1>2, <2>2
    <3>2. conn.ends[n + 1] <= conn.ends[k]
      BY <1>1, <3>1, EndsOrdered
    <3> QED
      BY <1>3, <1>4, <1>5, <3>1, <3>2
  <2>3. \A k \in 1 .. L : conn.ends[k] <= fed <=> k <= n
    BY <2>1, <2>2
  <2>4. \A k : k \in 1 .. n <=> k \in 1 .. L /\ k <= n
    BY <1>2
  <2> HIDE DEF L, n
  <2>5. \A k : k \in A <=> k \in 1 .. L /\ conn.ends[k] <= fed
    OBVIOUS
  <2>6. \A k : k \in A <=> k \in 1 .. n
    BY <2>3, <2>4, <2>5, Zenon
  <2> HIDE DEF A
  <2> QED
    BY <2>6, Zenon
<1>7. Arrived = n
  <2>1. Cardinality(1 .. n) = n
    <3> HIDE DEF n
    <3>1. 1 \in Int /\ n \in Int
      BY <1>2
    <3>2. Cardinality(1 .. n) = IF 1 > n THEN 0 ELSE n - 1 + 1
      BY <3>1, FS_Interval, Zenon
    <3> QED
      BY <1>2, <3>2
  <2> QED
    BY <1>6, <2>1 DEF Arrived
<1> QED
  BY <1>1, <1>7 DEF Aligned

\* Whatever the chunks, when feed_input returns exactly the messages of a
\* legal stream that have arrived in full were handed on, each once, in order
\* and unchanged.
THEOREM MessagesCorrect == Spec => []CompleteMessagesHandled
BY MessageInvInit, MessageInvStep, AlignedHandled, PTL DEF Spec

=============================================================================
