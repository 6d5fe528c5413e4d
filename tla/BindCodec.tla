----------------------------- MODULE BindCodec -----------------------------
(***************************************************************************)
(* Bind messages as bytes (src/src/pqwire.c): how a server context decodes *)
(* them, how a client context encodes them, and the rewrite that replaces  *)
(* one parameter by a verified identity.                                   *)
(*                                                                         *)
(* A body is a sequence of bytes; offsets count from 0, as in the code. A  *)
(* parameter view is an offset into the body and a length.  Formats are    *)
(* only copied, never computed with: they stay the 16 bits of the wire.    *)
(***************************************************************************)
EXTENDS Integers, SequencesExt

CONSTANT PQWIRE_MAX_BIND_PARAMS

\* A 16-bit number, as counts and formats are, and one that an int32_t holds.
Word(n) == n \in Nat /\ n < 256 * 256
FitsInt32(n) == n \in Int /\ -128 <= n \div (256 * 256 * 256) /\ n \div (256 * 256 * 256) < 128

ASSUME BindCodecAssumption ==
    PQWIRE_MAX_BIND_PARAMS \in Nat \ {0} /\ Word(PQWIRE_MAX_BIND_PARAMS)

wr16_be(n) == <<(n \div 256) % 256, n % 256>>
wr32_be(n) ==
    <<(n \div (256 * 256 * 256)) % 256, (n \div (256 * 256)) % 256, (n \div 256) % 256, n % 256>>
rd16_be(body, off) == body[off + 1] * 256 + body[off + 2]

\* rd32_be, and the cast to int32_t that its caller applies.
rd32_be(body, off) ==
    LET high == IF body[off + 1] < 128 THEN body[off + 1] ELSE body[off + 1] - 256
    IN  high * (256 * 256 * 256) + body[off + 2] * (256 * 256) + body[off + 3] * 256
            + body[off + 4]

Numbers(ns) == FlattenSeq([i \in DOMAIN ns |-> wr16_be(ns[i])])
Counted(ns) == wr16_be(Len(ns)) \o Numbers(ns)
Slice(body, off, n) == SubSeq(body, off + 1, off + n)
Least(a, b) == IF a < b THEN a ELSE b
Absent == -1

-----------------------------------------------------------------------------
(* Decoding.                                                               *)

\* read_cstr: the offset behind the terminator, or Absent.
AfterCstr(body, off) ==
    LET ends == {k \in off .. Len(body) - 1 : body[k + 1] = 0}
    IN  IF ends = {} THEN Absent ELSE 1 + CHOOSE k \in ends : \A l \in ends : k <= l

\* Mutant: the count is not clamped.
ReadCountUnclamped(body, off) == rd16_be(body, off)

\* A count at off and the 16-bit numbers behind it.  The count is clamped;
\* the loop stops at the end of the body and leaves the rest at zero.
ReadCount(body, off) == Least(rd16_be(body, off), PQWIRE_MAX_BIND_PARAMS)
ReadNumbers(body, off) ==
    LET n == ReadCount(body, off)
        k == Least(n, (Len(body) - off - 2) \div 2)
    IN  [list |-> [i \in 1 .. n |->
                      IF i <= k THEN rd16_be(body, off + 2 * i) ELSE 0],
         off |-> off + 2 + 2 * k]

\* Parameter i, counted from 1: no format means text, one is for all.
FormatOf(formats, i) ==
    CASE Len(formats) = 0 -> 0
      [] Len(formats) = 1 -> formats[1]
      [] OTHER -> IF i <= Len(formats) THEN formats[i] ELSE 0

\* The parameter loop.  `ok' turns FALSE when a value exceeds the body, which
\* ends the parser without an event; a body that ends before a length leaves
\* the remaining parameters as memset made them, empty and text.
View(length, off, format) == [length |-> length, off |-> off, format |-> format]
Unread == View(0, 0, 0)

\* Mutant: the value is not compared with what is left of the body.
ReadParamUnchecked(body, formats, acc, i) ==
    IF ~acc.ok \/ acc.off + 4 > Len(body)
    THEN [acc EXCEPT !.views = Append(@, Unread)]
    ELSE LET plen == rd32_be(body, acc.off)
             off == acc.off + 4
         IN  [ok |-> TRUE,
              off |-> IF plen < 0 THEN off ELSE off + plen,
              views |-> Append(acc.views, View(plen, off, FormatOf(formats, i)))]

ReadParam(body, formats, acc, i) ==
    IF ~acc.ok \/ acc.off + 4 > Len(body)
    THEN [acc EXCEPT !.views = Append(@, Unread)]
    ELSE LET plen == rd32_be(body, acc.off)
             off == acc.off + 4
         IN  IF plen > Len(body) - off
             THEN [acc EXCEPT !.ok = FALSE]
             ELSE [ok |-> TRUE,
                   off |-> IF plen < 0 THEN off ELSE off + plen,
                   views |-> Append(acc.views, View(plen, off, FormatOf(formats, i)))]

ReadParams(body, off, formats) ==
    LET n == ReadCount(body, off)
        acc[i \in 0 .. n] ==
            IF i = 0 THEN [ok |-> TRUE, off |-> off + 2, views |-> <<>>]
            ELSE ReadParam(body, formats, acc[i - 1], i)
    IN  acc[n]

\* parse_bind_msg: the payload of the event, or NoBind if it raises none.
NoBind == [event |-> FALSE]
Room(body, off) == off # Absent /\ off + 2 <= Len(body)
parse_bind_msg(body) ==
    LET portal == AfterCstr(body, 0)
        names == IF portal = Absent THEN Absent ELSE AfterCstr(body, portal)
        formats == ReadNumbers(body, names)
        params == ReadParams(body, formats.off, formats.list)
    IN  IF \/ ~Room(body, names)
           \/ ~Room(body, formats.off)
           \/ ~params.ok
        THEN NoBind
        ELSE [event |-> TRUE,
              formats |-> formats.list,
              params |-> params.views,
              result_formats |-> IF Room(body, params.off)
                                 THEN ReadNumbers(body, params.off).list
                                 ELSE <<>>]

-----------------------------------------------------------------------------
(* Encoding.  A value is a length, -1 for NULL, and its bytes.             *)

Value(length, data) == [length |-> length, data |-> data]
Name(name) == name \o <<0>>

\* pqwire_send_bind.
send_bind(portal, statement, formats, values, result_formats) ==
    Name(portal) \o Name(statement)
        \o Counted(formats)
        \o wr16_be(Len(values))
        \o FlattenSeq([i \in DOMAIN values |->
               wr32_be(values[i].length) \o values[i].data])
        \o Counted(result_formats)

\* Mutant: the rewrite of a slot that the Bind does not have is let through.
MayRewriteAnySlot(bind, slot) == Len(bind.params) > 0

\* The early returns of both rewrites; a slot counts from 0.
MayRewrite(bind, slot) == Len(bind.params) > 0 /\ slot < Len(bind.params)

\* pqwire_bind_rewrite_identity_zerocopy: the body of the message that it puts
\* together.  (Its checks against the capacity of the buffer are in Encoders.)
rewrite_identity_zerocopy(body, bind, slot, identity, as_binary) ==
    LET n == Len(bind.params)
        Format(i) == IF i - 1 = slot THEN (IF as_binary THEN 1 ELSE 0)
                     ELSE FormatOf(bind.formats, i)
        Bytes(i) ==
            LET v == bind.params[i]
            IN  IF i - 1 = slot THEN wr32_be(Len(identity)) \o identity
                ELSE IF v.length < 0 THEN wr32_be(-1)
                ELSE wr32_be(v.length) \o Slice(body, v.off, v.length)
    IN  Name(<<>>) \o Name(<<>>)
            \o wr16_be(n) \o FlattenSeq([i \in 1 .. n |-> wr16_be(Format(i))])
            \o wr16_be(n) \o FlattenSeq([i \in 1 .. n |-> Bytes(i)])
            \o wr16_be(Len(bind.result_formats)) \o Numbers(bind.result_formats)

=============================================================================
