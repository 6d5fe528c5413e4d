------------------------------ MODULE Framing ------------------------------
(***************************************************************************)
(* pqwire_feed_input (src/src/pqwire.c): how a context cuts the byte       *)
(* stream of a connection into messages.                                   *)
(*                                                                         *)
(* The caller feeds the stream in chunks of any size, as its transport     *)
(* delivers them.  Each call appends its chunk to the input buffer and     *)
(* then loops: one iteration consumes one message, rejects one, or finds   *)
(* the message at the front incomplete and returns.  The iterations are    *)
(* the actions below; what handle_message does with a message is the       *)
(* subject of other modules, so here a message that is consumed is         *)
(* appended to `handled', as is the mark of a rejected one.                *)
(***************************************************************************)
EXTENDS Integers, Sequences, FiniteSets

CONSTANTS
    MaxMessageSize,  \* ctx->max_message_size
    Traffic          \* what peers send: see TrafficAssumption

Byte == 0 .. 255
StartupType == 256   \* not a byte: a StartupMessage carries no type byte
\* len is the length field, which need not fit the body.
Message == [type : Byte \cup {StartupType}, len : Nat, body : Seq(Byte)]

\* What the loop hands on for a message it rejects: PQ_EVENT_PROTOCOL_ERROR.
ProtocolError == [type |-> -1, len |-> 0, body |-> <<>>]

\* Big-endian 32-bit integers.
rd32_be(b, i) ==
    16777216 * b[i] + 65536 * b[i + 1] + 256 * b[i + 2] + b[i + 3]
wr32_be(v) ==
    <<(v \div 16777216) % 256, (v \div 65536) % 256, (v \div 256) % 256, v % 256>>

\* A message as the peer puts it on the wire.
Encode(m) ==
    IF m.type = StartupType
    THEN wr32_be(m.len) \o m.body
    ELSE <<m.type>> \o wr32_be(m.len) \o m.body

\* An element of Traffic is what a context meets on one connection: whether
\* it is the server there, and the stream it is sent, as messages, as bytes,
\* and with the position in the bytes where each message ends.
ASSUME TrafficAssumption ==
    \A t \in Traffic :
        /\ t.server \in BOOLEAN     \* PQWIRE_ROLE_SERVER
        /\ t.msgs \in Seq(Message)
        /\ t.wire \in Seq(Byte)
        /\ t.ends \in [0 .. Len(t.msgs) -> Nat]
        /\ t.ends[0] = 0
        /\ t.ends[Len(t.msgs)] = Len(t.wire)
        /\ \A k \in 1 .. Len(t.msgs) :
               /\ t.ends[k] = t.ends[k - 1] + Len(Encode(t.msgs[k]))
               /\ t.ends[k] <= Len(t.wire)
               /\ SubSeq(t.wire, t.ends[k - 1] + 1, t.ends[k]) = Encode(t.msgs[k])

ASSUME FramingAssumption == MaxMessageSize \in Nat

VARIABLES
    conn,            \* the stream of the current connection
    fed,             \* how many of its bytes were fed
    consumed,        \* history: how many of those left the input buffer
    input_buf,       \* the first input_len bytes of the buffer
    startup_seen,
    looping,         \* a call of feed_input is in its loop
    handled,         \* what the loop handed on, in order
    overwritten      \* history: how many leading bytes of the body of each of
                     \* those the same call went on to overwrite in the buffer

vars == <<conn, fed, consumed, input_buf, startup_seen, looping, handled,
          overwritten>>

Connect(t) ==
    /\ conn' = t
    /\ fed' = 0
    /\ consumed' = 0
    /\ input_buf' = <<>>
    /\ startup_seen' = FALSE
    /\ looping' = FALSE
    /\ handled' = <<>>
    /\ overwritten' = <<>>

Init ==
    /\ conn \in Traffic
    /\ fed = 0
    /\ consumed = 0
    /\ input_buf = <<>>
    /\ startup_seen = FALSE
    /\ looping = FALSE
    /\ handled = <<>>
    /\ overwritten = <<>>

-----------------------------------------------------------------------------
(* Operations.                                                             *)

input_len == Len(input_buf)

\* Mutant: a chunk replaces what was left of the one before.
FeedInputOver(n) ==
    /\ ~looping
    /\ fed + n <= Len(conn.wire)
    /\ input_buf' = SubSeq(conn.wire, fed + 1, fed + n)
    /\ fed' = fed + n
    /\ looping' = TRUE
    /\ UNCHANGED <<conn, consumed, startup_seen, handled, overwritten>>

\* feed_input up to its loop, for the next n bytes of the stream.  A failing
\* realloc returns before anything is stored and is a stuttering step.
FeedInput(n) ==
    /\ ~looping
    /\ fed + n <= Len(conn.wire)
    /\ input_buf' = input_buf \o SubSeq(conn.wire, fed + 1, fed + n)
    /\ fed' = fed + n
    /\ looping' = TRUE
    /\ UNCHANGED <<conn, consumed, startup_seen, handled, overwritten>>

\* Mutant: one byte too many leaves the buffer.
DropOneMore(n) ==
    /\ input_buf' = SubSeq(input_buf, n + 2, input_len)
    /\ consumed' = consumed + n + 1

\* The memmove and the new input_len: the first n bytes leave the buffer and
\* the others move to its start.
Drop(n) ==
    /\ input_buf' = SubSeq(input_buf, n + 1, input_len)
    /\ consumed' = consumed + n

\* An event may keep a pointer into its body, which starts at byte `at' of
\* the buffer.  The bytes that remain after a drop of n move to the start of
\* the buffer, over the body if they are more than `at'; later drops of the
\* same call move fewer bytes.
HandOn(item, at, n) ==
    LET moved == input_len - n
    IN  /\ handled' = Append(handled, item)
        /\ overwritten' = Append(overwritten, IF moved > at THEN moved - at ELSE 0)

Return ==
    /\ looping' = FALSE
    /\ UNCHANGED <<conn, fed, consumed, input_buf, startup_seen, handled,
                   overwritten>>

AwaitsStartup == conn.server /\ ~startup_seen

\* The first branch of the loop: a StartupMessage has no type byte.
StartupLength == rd32_be(input_buf, 1)
StartupIllegal ==
    input_len >= 4 /\ (StartupLength < 8 \/ StartupLength > MaxMessageSize)
StartupIncomplete ==
    ~StartupIllegal /\ (input_len >= 4 => input_len < StartupLength)

AwaitStartup ==
    /\ looping /\ AwaitsStartup
    /\ StartupIncomplete
    /\ Return

RejectStartup ==
    /\ looping /\ AwaitsStartup
    /\ StartupIllegal
    /\ HandOn(ProtocolError, 0, input_len)
    /\ Drop(input_len)
    /\ looping' = FALSE
    /\ UNCHANGED <<conn, fed, startup_seen>>

TakeStartup ==
    /\ looping /\ AwaitsStartup
    /\ ~StartupIncomplete /\ ~StartupIllegal
    /\ LET body == SubSeq(input_buf, 5, StartupLength)
       IN  HandOn([type |-> StartupType, len |-> StartupLength, body |-> body],
                  4, StartupLength)
    /\ Drop(StartupLength)
    /\ startup_seen' = TRUE
    /\ UNCHANGED <<conn, fed, looping>>

\* The second branch: type byte, length, body.
TypedLength == rd32_be(input_buf, 2)

\* Mutants: no upper limit on the length, and one that excludes its bound.
TypedIllegalUnlimited == input_len >= 5 /\ TypedLength < 4
TypedIllegalAtLimit ==
    input_len >= 5 /\ (TypedLength < 4 \/ TypedLength >= MaxMessageSize)

TypedIllegal ==
    input_len >= 5 /\ (TypedLength < 4 \/ TypedLength > MaxMessageSize)
TypedIncomplete ==
    ~TypedIllegal /\ (input_len >= 5 => input_len < 1 + TypedLength)

\* Mutant: the loop goes on when the message at the front is incomplete.
AwaitTypedSpins ==
    /\ looping /\ ~AwaitsStartup
    /\ TypedIncomplete
    /\ UNCHANGED vars

AwaitTyped ==
    /\ looping /\ ~AwaitsStartup
    /\ TypedIncomplete
    /\ Return

\* Mutant: a rejected message that is not all there stays in the buffer.
SkippedBytesIfComplete ==
    IF TypedLength > 0 /\ input_len >= TypedLength + 1 THEN 1 + TypedLength ELSE 0

\* A message with an illegal length: skipped if the buffer holds it all,
\* else the buffer is emptied.
SkippedBytes ==
    IF TypedLength > 0 /\ input_len >= TypedLength + 1
    THEN 1 + TypedLength
    ELSE input_len
RejectTyped ==
    /\ looping /\ ~AwaitsStartup
    /\ TypedIllegal
    /\ HandOn(ProtocolError, 0, SkippedBytes)
    /\ Drop(SkippedBytes)
    /\ UNCHANGED <<conn, fed, startup_seen, looping>>

TakeTyped ==
    /\ looping /\ ~AwaitsStartup
    /\ ~TypedIncomplete /\ ~TypedIllegal
    /\ LET body == SubSeq(input_buf, 6, 1 + TypedLength)
       IN  HandOn([type |-> input_buf[1], len |-> TypedLength, body |-> body],
                  5, 1 + TypedLength)
    /\ Drop(1 + TypedLength)
    /\ UNCHANGED <<conn, fed, startup_seen, looping>>

Iterate ==
    \/ AwaitStartup \/ RejectStartup \/ TakeStartup
    \/ AwaitTyped \/ RejectTyped \/ TakeTyped

\* pqwire_reset, to use the context for another connection in the same role.
ResetInput ==
    /\ ~looping
    /\ \E t \in Traffic : t.server = conn.server /\ Connect(t)

Next ==
    \/ \E n \in 1 .. Len(conn.wire) : FeedInput(n)
    \/ Iterate
    \/ ResetInput

Spec == Init /\ [][Next]_vars

\* feed_input runs to completion once it is called.
FairSpec == Spec /\ WF_vars(Iterate)

-----------------------------------------------------------------------------
(* Properties.                                                             *)

\* The state stays within its types.
TypeOK ==
    /\ conn \in Traffic
    /\ fed \in 0 .. Len(conn.wire)
    /\ consumed \in 0 .. fed
    /\ input_buf \in Seq(Byte)
    /\ startup_seen \in BOOLEAN
    /\ looping \in BOOLEAN
    /\ handled \in Seq(Message \cup {ProtocolError})
    /\ overwritten \in Seq(Nat)

\* The buffer is exactly the part of the stream that was fed and has not been
\* consumed: no byte is lost, repeated or reordered by the memmoves.
BufferIsStreamSuffix == input_buf = SubSeq(conn.wire, consumed + 1, fed)

Fits32Bits(n) == n \div 65536 < 65536

\* A legal message: its length field counts itself and the body, has 32 bits,
\* and is within the limits.
Legal(m) ==
    /\ m.len = Len(m.body) + 4
    /\ Fits32Bits(m.len)
    /\ m.len >= (IF m.type = StartupType THEN 8 ELSE 4)
    /\ m.len <= MaxMessageSize

\* A legal stream: legal messages, of which the first to a server, and no
\* other, is a StartupMessage.
LegalStream(t) ==
    \A k \in 1 .. Len(t.msgs) :
        /\ Legal(t.msgs[k])
        /\ t.msgs[k].type = StartupType <=> (t.server /\ k = 1)

\* Whatever the chunks, when feed_input returns exactly the messages that
\* have arrived in full were handed on, each once, in order and unchanged,
\* as long as the stream is legal.
Arrived == Cardinality({k \in 1 .. Len(conn.msgs) : conn.ends[k] <= fed})
CompleteMessagesHandled ==
    ~looping /\ LegalStream(conn) => handled = SubSeq(conn.msgs, 1, Arrived)

\* The bytes a context holds on to between calls are bounded by its
\* configured limit, for any stream at all.
ResidueBounded == ~looping => input_len <= (IF MaxMessageSize > 4 THEN MaxMessageSize ELSE 4)

\* Every iteration that goes on with the loop has shortened the buffer: the
\* work of one feed_input call is bounded by what it was given (ADR 012).
LoopProgress == [][looping /\ looping' => Len(input_buf') < Len(input_buf)]_vars

\* A call of feed_input returns.
FeedReturns == looping ~> ~looping

\* protocol_events.h:117 grants the parameter pointers of a Bind event
\* validity until the next feed_input: then the call that parsed the Bind
\* leaves them alone.  The first one follows two NUL-terminated names, the
\* format codes, the parameter count and the parameter's length.
BindType == 66
NulFrom(b, i) == CHOOSE j \in i .. Len(b) : b[j] = 0 /\ \A k \in i .. j - 1 : b[k] # 0
FirstParameter(b) ==
    LET names == NulFrom(b, NulFrom(b, 1) + 1)
        formats == 256 * b[names + 1] + b[names + 2]
    IN  names + 2 + 2 * formats + 2 + 4
ParametersOutliveTheirCall ==
    ~looping => \A k \in DOMAIN handled :
                    handled[k].type = BindType =>
                        overwritten[k] <= FirstParameter(handled[k].body)

=============================================================================
