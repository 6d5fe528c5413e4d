---------------------------- MODULE OutputBuffer ----------------------------
(***************************************************************************)
(* The output side of a context (src/src/pqwire.c): the buffer that the    *)
(* send helpers append messages to and pqwire_get_output drains, in pieces *)
(* of whatever size the transport takes.                                   *)
(*                                                                         *)
(* A message is appended in two pieces, header and payload, each of which  *)
(* may find the buffer too small and fail to enlarge it.  A byte is known  *)
(* by the message and the piece it belongs to; what it says does not       *)
(* matter here.                                                            *)
(***************************************************************************)
EXTENDS Naturals, Sequences, FiniteSets

CONSTANTS
    HeaderSize,      \* type byte and length
    InitialCap,      \* output_cap of a new context
    Slack,           \* what ensure_output adds beyond need
    PayloadSizes,    \* the payloads that callers send
    MaxSent          \* bound: messages sent on one connection

ASSUME OutputAssumption ==
    /\ HeaderSize \in Nat \ {0}
    /\ InitialCap \in Nat
    /\ Slack \in Nat
    /\ PayloadSizes \subseteq Nat
    /\ MaxSent \in Nat

Header == "header"
Payload == "payload"
Whole == "whole"     \* a message that is appended in one piece
Byte == [msg : Nat, piece : {Header, Payload, Whole}]

VARIABLES
    output,          \* output_buf (its first output_len bytes) and output_cap
    sent,            \* the messages whose helper returned 0, as <<kind, size>>
    delivered,       \* history: the bytes that get_output handed out
    failed           \* history: a realloc has failed on this connection

vars == <<output, sent, delivered, failed>>

Output == [buf : Seq(Byte), cap : Nat]
Message == {Payload, Whole} \X Nat

Init ==
    /\ output = [buf |-> <<>>, cap |-> InitialCap]
    /\ sent = <<>>
    /\ delivered = <<>>
    /\ failed = FALSE

-----------------------------------------------------------------------------
(* Operations.                                                             *)

Bytes(k, piece, n) == [i \in 1 .. n |-> [msg |-> k, piece |-> piece]]

\* Mutant: the room that is asked for does not count.
HasRoomForNothing(o, n) == Len(o.buf) <= o.cap

\* ensure_output: whether the buffer can take n bytes as it is, and the
\* capacity it is enlarged to if it cannot.
HasRoom(o, n) == Len(o.buf) + n <= o.cap
GrownCap(o, n) == o.cap * 2 + n + Slack

\* Mutant: what did not fit before the buffer was enlarged is cut off.
AppendOutputCut(o, bytes) ==
    IF HasRoom(o, Len(bytes))
    THEN {[o EXCEPT !.buf = @ \o bytes]}
    ELSE {[buf |-> o.buf \o SubSeq(bytes, 1, o.cap - Len(o.buf)),
           cap |-> GrownCap(o, Len(bytes))]}
             \cup {o}

\* append_output: the buffers it may leave behind.  Nothing is appended, and
\* the caller is not told, when realloc fails.
AppendOutput(o, bytes) ==
    IF HasRoom(o, Len(bytes))
    THEN {[o EXCEPT !.buf = @ \o bytes]}
    ELSE {[buf |-> o.buf \o bytes, cap |-> GrownCap(o, Len(bytes))]}
             \cup {o}

\* emit_msg, by which most send helpers end: it returns 0 in any case.
Pieces(o, k, n) ==
    UNION {IF n > 0 THEN AppendOutput(h, Bytes(k, Payload, n)) ELSE {h} :
               h \in AppendOutput(o, Bytes(k, Header, HeaderSize))}
EmitMsg(n) ==
    /\ Len(sent) < MaxSent
    /\ output' \in Pieces(output, Len(sent) + 1, n)
    /\ failed' = (failed \/ Len(output'.buf) < Len(output.buf) + HeaderSize + n)
    /\ sent' = Append(sent, <<Payload, n>>)
    /\ UNCHANGED delivered

\* pqwire_send_startup and pqwire_start_auth append a message they have put
\* together themselves.
EmitWhole(n) ==
    /\ Len(sent) < MaxSent
    /\ output' \in AppendOutput(output, Bytes(Len(sent) + 1, Whole, n))
    /\ failed' = (failed \/ Len(output'.buf) < Len(output.buf) + n)
    /\ sent' = Append(sent, <<Whole, n>>)
    /\ UNCHANGED delivered

\* Mutants: the rest is not moved to the start of the buffer, and the buffer
\* is emptied although only a part was handed out.
GetOutputUnmoved(max_len) ==
    LET output_len == Len(output.buf)
        to_copy == IF output_len < max_len THEN output_len ELSE max_len
    IN  /\ delivered' = delivered \o SubSeq(output.buf, 1, to_copy)
        /\ output' = [output EXCEPT !.buf = SubSeq(@, 1, output_len - to_copy)]
        /\ UNCHANGED <<sent, failed>>
GetOutputEmptied(max_len) ==
    LET output_len == Len(output.buf)
        to_copy == IF output_len < max_len THEN output_len ELSE max_len
    IN  /\ delivered' = delivered \o SubSeq(output.buf, 1, to_copy)
        /\ output' = [output EXCEPT !.buf = <<>>]
        /\ UNCHANGED <<sent, failed>>

\* pqwire_get_output: the first bytes, and a memmove of the others.
GetOutput(max_len) ==
    LET output_len == Len(output.buf)
        to_copy == IF output_len < max_len THEN output_len ELSE max_len
    IN  /\ delivered' = delivered \o SubSeq(output.buf, 1, to_copy)
        /\ output' = [output EXCEPT !.buf = SubSeq(@, to_copy + 1, output_len)]
        /\ UNCHANGED <<sent, failed>>

\* pqwire_reset; the buffer keeps its size.
ResetOutput ==
    /\ output' = [output EXCEPT !.buf = <<>>]
    /\ sent' = <<>>
    /\ delivered' = <<>>
    /\ failed' = FALSE

Next ==
    \/ \E n \in PayloadSizes : EmitMsg(n)
    \/ \E n \in PayloadSizes : EmitWhole(HeaderSize + n)
    \/ \E n \in 1 .. Len(output.buf) + 1 : GetOutput(n)
    \/ ResetOutput

Spec == Init /\ [][Next]_vars

-----------------------------------------------------------------------------
(* Properties.                                                             *)

\* The state stays within its types, and the bytes within the buffer.
TypeOK ==
    /\ output \in Output
    /\ Len(output.buf) <= output.cap
    /\ sent \in Seq(Message)
    /\ delivered \in Seq(Byte)
    /\ failed \in BOOLEAN

\* The stream of a connection: what the transport was given and what is left.
Stream == delivered \o output.buf

\* The stream that the caller was promised: every message it sent, whole.
\* StreamUpto(s)[k] holds the first k messages of s.
Encode(s, k) ==
    IF s[k][1] = Whole THEN Bytes(k, Whole, s[k][2])
    ELSE Bytes(k, Header, HeaderSize) \o Bytes(k, Payload, s[k][2])
StreamUpto(s) ==
    LET upto[k \in 0 .. Len(s)] ==
            IF k = 0 THEN <<>> ELSE upto[k - 1] \o Encode(s, k)
    IN  upto
Promised == StreamUpto(sent)[Len(sent)]

\* Every message that a send helper accepted is in the stream once, whole and
\* in the order of the calls, through any sequence of partial drains and
\* reallocations, as long as no realloc fails.
StreamIsPromised == ~failed => Stream = Promised

\* ARCHITECTURE.md:26 says it without that reservation: send helpers "queue
\* messages for output; they return 0 on success, -1 on error".
ZeroMeansQueued == Stream = Promised

\* Even if realloc fails, a piece is in the stream whole or not at all, and
\* the pieces are in the order of the calls.
Count(k, piece) ==
    Cardinality({i \in DOMAIN Stream : Stream[i] = [msg |-> k, piece |-> piece]})
Rank(b) == 2 * b.msg + (IF b.piece = Header THEN 0 ELSE 1)
PiecesWholeAndOrdered ==
    /\ \A k \in DOMAIN sent :
           /\ Count(k, Header) \in {0, HeaderSize}
           /\ Count(k, sent[k][1]) \in {0, sent[k][2]}
    /\ \A i, j \in DOMAIN Stream : i < j => Rank(Stream[i]) <= Rank(Stream[j])

\* No operation but a reset takes back or changes a byte of the stream: a
\* drain moves bytes from the buffer to the transport and nothing else, and
\* a realloc keeps what is in the buffer.
StreamOnlyGrows ==
    [][sent' # <<>> =>
           /\ Len(Stream) <= Len(Stream')
           /\ SubSeq(Stream', 1, Len(Stream)) = Stream]_vars

=============================================================================
