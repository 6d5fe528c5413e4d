----------------------------- MODULE MCEncoders -----------------------------
(***************************************************************************)
(* An instance of Encoders: texts and values whose lengths lie on both      *)
(* sides of every limit of the code.                                       *)
(***************************************************************************)
EXTENDS Encoders

Around(limit) == limit - 2 .. limit + 2

\* Alone and together, up to the 512 bytes of the StartupMessage.
StartupCalls ==
    {SendStartup(user, database) :
        user \in {0, 8} \cup Around(490) \cup Around(498),
        database \in {0, 8} \cup Around(478) \cup Around(486)}

TextCalls ==
    {SendQuery(sql) : sql \in {0, 9}}
        \cup {SendCall(procedure) : procedure \in {0} \cup Around(506)}
        \cup {SendParse(statement, query, types) :
                 statement \in {0, 6}, query \in {4} \cup Around(4342) \cup Around(4348),
                 types \in {0, 2}}
        \cup {SendDescribe(name) : name \in {0} \cup Around(64)}
        \cup {SendClose(name) : name \in {0} \cup Around(64)}
        \cup {SendExecute(portal) : portal \in {0} \cup Around(67)}

\* One value and two values that end near the 320 and 576 bytes of the first
\* buffer, and a third that follows them; NULL and empty values.
Values1 == {<<l>> : l \in {-1, 0, 1, 2000} \cup 300 .. 312}
Values2 == {<<300, l>> : l \in {-1} \cup 250 .. 266} \cup {<<l, 5>> : l \in Around(320)}
Values3 == {<<800, l, -1>> : l \in Around(12)} \cup {<<2000, l, 7>> : l \in Around(1012)}
Lists == {<<>>} \cup Values1 \cup Values2 \cup Values3

BindCalls ==
    {SendBind(portal, 0, Len(lengths), lengths, results) :
        portal \in {0, 40, 300}, lengths \in Lists, results \in {0, 1}}
        \cup {SendBind(0, 0, formats, <<>>, 0) : formats \in Around(29)}
        \cup {SendBindRewriteIdentity(0, 0, lengths, slot, 1) :
                 lengths \in {<<>>, <<-1>>, <<3, 0>>} \cup {<<3, l>> : l \in Around(8162)},
                 slot \in 0 .. 1}

RowCalls ==
    {SendRowDescription(names) :
        names \in {<<>>, <<3, 60>>, [i \in 1 .. 17 |-> 4]}
                      \cup {<<1000, l>> : l \in Around(1008)}}
        \cup {SendDataRow(len) : len \in {-1, 0} \cup Around(4090)}
        \cup {SendDataRowMulti(lengths, DOMAIN lengths \ missing) :
                 lengths \in Lists, missing \in {{}, {1}}}
        \cup {SendErrorResponse(severity, 5, message) :
                 severity \in {5, 480} \cup Around(500),
                 message \in {0} \cup Around(15) \cup Around(494)}
        \cup {SendEmpty("1"), SendAuthOk, SendReadyForQuery, SendCommandComplete(8)}

Pipelines ==
    {SendUnnamedPipeline(query, 1, 1, lengths, 1) :
        query \in {9} \cup Around(4344), lengths \in Values1}

MCInvocations ==
    {<<call>> : call \in StartupCalls \cup TextCalls \cup BindCalls \cup RowCalls}
        \cup Pipelines

=============================================================================
