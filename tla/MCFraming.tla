----------------------------- MODULE MCFraming -----------------------------
(* Instances of Framing for TLC.                                           *)
EXTENDS Framing, SequencesExt

CONSTANT Streams     \* pairs of a role and a sequence of messages

\* The bytes of a sequence of messages and where each message ends.
Stream(server, msgs) ==
    LET ends[k \in 0 .. Len(msgs)] ==
            IF k = 0 THEN 0 ELSE ends[k - 1] + Len(Encode(msgs[k]))
    IN  [server |-> server,
         msgs |-> msgs,
         wire |-> FlattenSeq([k \in 1 .. Len(msgs) |-> Encode(msgs[k])]),
         ends |-> ends]
MCTraffic == {Stream(s[1], s[2]) : s \in Streams}

Msg(type, body) == [type |-> type, len |-> Len(body) + 4, body |-> body]

\* Legal messages under a limit of 10: the shortest and the longest, one
\* with the image of a Sync message in its body.
Startup == Msg(StartupType, <<0, 3, 0, 0>>)
LongStartup == Msg(StartupType, <<0, 3, 0, 0, 117, 0>>)
Sync == Msg(83, <<>>)
Close == Msg(67, <<83, 0>>)
Query == Msg(81, <<83, 0, 0, 0, 4, 0>>)

\* Illegal ones: oversized with and without the announced body, and with a
\* length that does not cover itself.
OversizedStartup == Msg(StartupType, <<0, 3, 0, 0, 117, 0, 0>>)
ShortStartup == Msg(StartupType, <<0, 3, 0>>)
Oversized == Msg(81, <<7, 7, 83, 0, 0, 0, 4, 0>>)
Truncated == [type |-> 81, len |-> 65536, body |-> <<7>>]
ZeroLength == [type |-> 81, len |-> 0, body |-> <<83>>]
ShortLength == [type |-> 81, len |-> 3, body |-> <<0, 4>>]

UpTo(n, M) == UNION {[1 .. k -> M] : k \in 0 .. n}
Legal2 == UpTo(2, {Sync, Close, Query})
Illegal2 == UpTo(2, {Sync, Oversized, Truncated, ZeroLength, ShortLength})
MCStreams ==
    {<<FALSE, t>> : t \in UpTo(3, {Sync, Close, Query}) \cup Illegal2}
    \cup {<<TRUE, <<s>> \o t>> : s \in {Startup, LongStartup}, t \in Legal2}
    \cup {<<TRUE, <<s>> \o t>> : s \in {Startup, OversizedStartup, ShortStartup},
                                 t \in UpTo(1, {Sync, Oversized, ZeroLength})}

\* Bind of one parameter, Describe of the portal, Execute, Sync: an extended
\* query whose statement was prepared before.
PipelineStreams ==
    {<<TRUE, <<Startup, Msg(66, <<0, 0, 0, 0, 0, 1, 0, 0, 0, 1, 65, 0, 0>>),
               Msg(68, <<80, 0>>), Msg(69, <<0, 0, 0, 0, 0>>), Sync>> >>}
=============================================================================
