------------------------------ MODULE Encoders ------------------------------
(***************************************************************************)
(* The send helpers of src/src/pqwire.c: each puts the body of a message    *)
(* together in a staging buffer, on the stack or on the heap, and appends   *)
(* it to the output only when it is complete.  What matters here is how     *)
(* long the pieces are, which checks stand between them, and what is in     *)
(* the output when a check or an allocation fails; the bytes do not matter. *)
(*                                                                         *)
(* A call of a helper is a record: what it was called with, the capacity of *)
(* its buffer, the steps of its body in the order of the code, and the      *)
(* length that the protocol prescribes for what it was asked to send.  The  *)
(* capacities are the ones in the code.                                    *)
(***************************************************************************)
EXTENDS Integers, SequencesExt

CONSTANT Invocations   \* what applications call: sequences of helper calls

Malloc(n) == [op |-> "malloc", n |-> n]    \* a staging buffer on the heap
Require(n) == [op |-> "require", n |-> n]  \* return -1 if p + n > capacity
Fit(n) == [op |-> "fit", n |-> n]          \* enlarge the buffer for n bytes
Put(n) == [op |-> "put", n |-> n]          \* write n bytes, p += n
Reject == [op |-> "reject", n |-> 0]       \* return -1 for an argument
Step == [op : {"malloc", "require", "fit", "put", "reject"}, n : Nat]

\* A helper, with a buffer on the stack or with one that Malloc allocates.
Helper(helper, args, type, cap, steps, body) ==
    [helper |-> helper, args |-> args, type |-> type, cap |-> cap,
     steps |-> steps, body |-> body]

\* A helper whose payload is the caller's own memory or a constant.
Direct(helper, type, n) == Helper(helper, <<>>, type, n, <<Put(n)>>, n)

-----------------------------------------------------------------------------
(* The helpers.  A text of n characters takes n + 1 bytes.                 *)

PQWIRE_MAX_ROW_COLUMNS == 16
TotalUpto(lengths) ==
    LET sum[i \in 0 .. Len(lengths)] ==
            IF i = 0 THEN 0
            ELSE sum[i - 1] + (IF lengths[i] > 0 THEN lengths[i] ELSE 0)
    IN  sum
Total(lengths) == TotalUpto(lengths)[Len(lengths)]

\* pqwire_send_startup: the body includes the length field.
SendStartup(user, database) ==
    Helper("send_startup", <<user, database>>, "startup", 512,
           <<Put(4), Put(4), Put(5), Require(user + 2), Put(user + 1),
             Put(9), Require(database + 3), Put(database + 1), Put(1)>>,
           user + database + 25)

\* pqwire_send_query, and pqwire_send_call, which lets snprintf cut the
\* statement that it makes of the procedure.
SendQuery(sql) == Direct("send_query", "Q", sql + 1)
SendCall(procedure) ==
    LET sql == procedure + 5
        cut == IF sql < 511 THEN sql ELSE 511
    IN  Helper("send_call", <<procedure>>, "Q", 512, <<Put(cut + 1)>>, sql + 1)

\* Mutant: the types of the parameters are left out.
SendParseUntyped(statement, query, n_types) ==
    Helper("send_parse", <<statement, query, n_types>>, "P", 4096 + 256,
           <<Require(statement + query + 4 + 4 * n_types),
             Put(statement + 1), Put(query + 1), Put(2)>>,
           statement + query + 4 + 4 * n_types)

SendParse(statement, query, n_types) ==
    Helper("send_parse", <<statement, query, n_types>>, "P", 4096 + 256,
           <<Require(statement + query + 4 + 4 * n_types),
             Put(statement + 1), Put(query + 1), Put(2), Put(4 * n_types)>>,
           statement + query + 4 + 4 * n_types)

\* Mutant: the length -1 of NULL is taken for an amount of bytes.
ValuesSigned(lengths) ==
    FlattenSeq([i \in DOMAIN lengths |->
        <<Require(4), Put(4)>>
            \o (IF lengths[i] # 0 THEN <<Fit(lengths[i]), Put(lengths[i])>>
                ELSE <<>>)])

\* The values of pqwire_send_bind: a length of -1 is NULL.  The space of a
\* value whose pointer is missing is taken all the same.
Values(lengths) ==
    FlattenSeq([i \in DOMAIN lengths |->
        <<Require(4), Put(4)>>
            \o (IF lengths[i] > 0 THEN <<Fit(lengths[i]), Put(lengths[i])>>
                ELSE <<>>)])
HeapCap(lengths) == 64 + 256 * Len(lengths)

\* pqwire_send_data_row_multi goes through the same loop, but writes nothing
\* behind the length of a value whose pointer is missing: `given' holds the
\* places of the others.
Written(lengths, given) ==
    [i \in DOMAIN lengths |->
        IF lengths[i] > 0 /\ i \notin given THEN 0 ELSE lengths[i]]

SendBind(portal, statement, n_formats, lengths, n_results) ==
    Helper("send_bind", <<portal, statement, n_formats, lengths, n_results>>,
           "B", 0,
           <<Malloc(HeapCap(lengths)),
             Require(portal + statement + 2), Put(portal + 1), Put(statement + 1),
             Require(2 + 2 * n_formats), Put(2 + 2 * n_formats),
             Require(2), Put(2)>>
               \o Values(lengths)
               \o <<Require(2 + 2 * n_results), Put(2 + 2 * n_results)>>,
           portal + statement + 8 + 2 * n_formats + 4 * Len(lengths)
               + Total(lengths) + 2 * n_results)

SendDescribe(name) ==
    Helper("send_describe", <<name>>, "D", 64 + 2,
           <<Require(name + 2), Put(1), Put(name + 1)>>, name + 2)

SendClose(name) ==
    Helper("send_close", <<name>>, "C", 64 + 2,
           <<Require(name + 2), Put(1), Put(name + 1)>>, name + 2)

\* Mutant: the check forgets max_rows.
SendExecuteUnchecked(portal) ==
    Helper("send_execute", <<portal>>, "E", 64 + 8,
           <<Require(portal + 1), Put(portal + 1), Put(4)>>, portal + 5)

\* Mutant: the buffer is made for max_rows alone.
SendExecuteNarrow(portal) ==
    Helper("send_execute", <<portal>>, "E", 4,
           <<Require(portal + 5), Put(portal + 1), Put(4)>>, portal + 5)

SendExecute(portal) ==
    Helper("send_execute", <<portal>>, "E", 64 + 8,
           <<Require(portal + 5), Put(portal + 1), Put(4)>>, portal + 5)

\* pqwire_send_sync, _flush and _terminate, and of the server
\* pqwire_send_auth_ok, _ready_for_query, _command_complete, _parse_complete,
\* _bind_complete, _close_complete and _no_data.
SendEmpty(type) == Direct("send_empty", type, 0)
SendAuthOk == Direct("send_auth_ok", "R", 4)
SendReadyForQuery == Direct("send_ready_for_query", "Z", 1)
SendCommandComplete(tag) == Direct("send_command_complete", "C", tag + 1)

\* pqwire_send_unnamed_pipeline.
SendUnnamedPipeline(query, n_types, n_formats, lengths, n_results) ==
    <<SendParse(0, query, n_types),
      SendBind(0, 0, n_formats, lengths, n_results),
      SendExecute(0), SendEmpty("S")>>

\* pqwire_send_row_description, which leaves out the columns beyond the limit.
SendRowDescription(names) ==
    LET n == IF Len(names) > PQWIRE_MAX_ROW_COLUMNS THEN PQWIRE_MAX_ROW_COLUMNS
             ELSE Len(names)
    IN  Helper("send_row_description", <<names>>, "T", 2048,
               <<Put(2)>> \o FlattenSeq([i \in 1 .. n |->
                   <<Require(names[i] + 19), Put(names[i] + 1), Put(18)>>]),
               2 + Total(names) + 19 * Len(names))

SendDataRow(len) ==
    IF len < 0
    THEN Helper("send_data_row", <<len>>, "D", 4096, <<Put(2), Put(4)>>, 6)
    ELSE Helper("send_data_row", <<len>>, "D", 4096,
                <<Put(2), Require(4 + len), Put(4), Put(len)>>, 6 + len)

SendDataRowMulti(lengths, given) ==
    Helper("send_data_row_multi", <<lengths, given>>, "D", 0,
           <<Malloc(HeapCap(lengths)), Put(2)>> \o Values(Written(lengths, given)),
           2 + 4 * Len(lengths) + Total(lengths))

\* Mutant: a field is refused although two bytes are left.
SendErrorResponseEarly(severity, sqlstate, message) ==
    LET Field(n) == <<Require(n + 5), Put(1), Put(n + 1)>>
    IN  Helper("send_error_response", <<severity, sqlstate, message>>, "E", 512,
               Field(severity) \o Field(sqlstate) \o Field(message)
                   \o <<Require(2), Put(1)>>,
               severity + sqlstate + message + 7)

\* pqwire_send_error_response.
SendErrorResponse(severity, sqlstate, message) ==
    LET Field(n) == <<Require(n + 3), Put(1), Put(n + 1)>>
    IN  Helper("send_error_response", <<severity, sqlstate, message>>, "E", 512,
               Field(severity) \o Field(sqlstate) \o Field(message)
                   \o <<Require(2), Put(1)>>,
               severity + sqlstate + message + 7)

\* pqwire_send_bind_rewrite_identity: pqwire_bind_rewrite_identity_zerocopy
\* into a buffer on the stack, header included, every piece checked.  The
\* lengths are those of the values, the identity in its slot included.
Checked(n) == <<Require(n), Put(n)>>
SendBindRewriteIdentity(portal, statement, lengths, slot, n_results) ==
    Helper("send_bind_rewrite_identity",
           <<portal, statement, lengths, slot, n_results>>, "B", 8192,
           IF slot >= Len(lengths) THEN <<Reject>> ELSE
           Checked(5) \o Checked(portal + 1) \o Checked(statement + 1)
               \o Checked(2) \o FlattenSeq([i \in DOMAIN lengths |-> Checked(2)])
               \o Checked(2) \o FlattenSeq([i \in DOMAIN lengths |->
                      Checked(4) \o (IF lengths[i] < 0 THEN <<>>
                                     ELSE Checked(lengths[i]))])
               \o Checked(2) \o FlattenSeq([i \in 1 .. n_results |-> Checked(2)]),
           portal + statement + 13 + 6 * Len(lengths) + Total(lengths)
               + 2 * n_results)

\* What applications may call: a helper with texts and values of any length,
\* or the one that calls four others.
DirectHelpers ==
    {"send_query", "send_empty", "send_auth_ok", "send_ready_for_query",
     "send_command_complete"}
IsCall(call) ==
    LET x == call.args
    IN  \/ /\ call.helper \in DirectHelpers /\ call.body \in Nat
           /\ call = Direct(call.helper, call.type, call.body)
        \/ /\ call.helper = "send_startup" /\ x \in Nat \X Nat
           /\ call = SendStartup(x[1], x[2])
        \/ /\ call.helper = "send_call" /\ x \in [1 .. 1 -> Nat]
           /\ call = SendCall(x[1])
        \/ /\ call.helper = "send_parse" /\ x \in Nat \X Nat \X Nat
           /\ call = SendParse(x[1], x[2], x[3])
        \/ /\ call.helper = "send_bind"
           /\ x \in Nat \X Nat \X Nat \X Seq(Int) \X Nat
           /\ call = SendBind(x[1], x[2], x[3], x[4], x[5])
        \/ /\ call.helper = "send_describe" /\ x \in [1 .. 1 -> Nat]
           /\ call = SendDescribe(x[1])
        \/ /\ call.helper = "send_close" /\ x \in [1 .. 1 -> Nat]
           /\ call = SendClose(x[1])
        \/ /\ call.helper = "send_execute" /\ x \in [1 .. 1 -> Nat]
           /\ call = SendExecute(x[1])
        \/ /\ call.helper = "send_row_description" /\ x \in [1 .. 1 -> Seq(Nat)]
           /\ call = SendRowDescription(x[1])
        \/ /\ call.helper = "send_data_row" /\ x \in [1 .. 1 -> Int]
           /\ call = SendDataRow(x[1])
        \/ /\ call.helper = "send_data_row_multi" /\ x \in Seq(Int) \X SUBSET Nat
           /\ call = SendDataRowMulti(x[1], x[2])
        \/ /\ call.helper = "send_error_response" /\ x \in Nat \X Nat \X Nat
           /\ call = SendErrorResponse(x[1], x[2], x[3])
        \/ /\ call.helper = "send_bind_rewrite_identity"
           /\ x \in Nat \X Nat \X Seq(Int) \X Nat \X Nat
           /\ call = SendBindRewriteIdentity(x[1], x[2], x[3], x[4], x[5])
IsPipeline(calls) ==
    LET x == calls[1].args
        y == calls[2].args
    IN  /\ x \in Nat \X Nat \X Nat
        /\ y \in Nat \X Nat \X Nat \X Seq(Int) \X Nat
        /\ calls = SendUnnamedPipeline(x[2], x[3], y[3], y[4], y[5])
ASSUME EncodersAssumption ==
    \A calls \in Invocations :
        IF Len(calls) = 1 THEN calls = <<calls[1]>> /\ IsCall(calls[1])
        ELSE IsPipeline(calls)

-----------------------------------------------------------------------------
VARIABLES
    invocation,      \* the calls of the last invocation
    todo,            \* those not yet finished; the first is under way
    sent,            \* those emitted: the length announced and what arrived
    stage,           \* the staging buffer of the call under way
    result,          \* what the invocation has returned
    starved,         \* history: a staging buffer found no memory, and
    torn             \* the output found none, in this invocation

vars == <<invocation, todo, sent, stage, result, starved, torn>>

Running == "running"
Accepted == "0"
Refused == "-1"
NoStage == [p |-> 0, cap |-> 0, steps |-> <<>>]
Stage(call) == [p |-> 0, cap |-> call.cap, steps |-> call.steps]

Init ==
    /\ invocation = <<>>
    /\ todo = <<>>
    /\ sent = <<>>
    /\ stage = NoStage
    /\ result = Accepted
    /\ starved = FALSE
    /\ torn = FALSE

\* An application calls a helper, or the one that calls four others.
Invoke(calls) ==
    /\ result # Running
    /\ invocation' = calls
    /\ todo' = calls
    /\ sent' = <<>>
    /\ stage' = Stage(calls[1])
    /\ result' = Running
    /\ starved' = FALSE
    /\ torn' = FALSE

\* The step that a call is at, and how the call goes on or gives up.
At(op) == result = Running /\ stage.steps # <<>> /\ Head(stage.steps).op = op
Amount == Head(stage.steps).n
Proceed(p, cap) ==
    /\ stage' = [p |-> p, cap |-> cap, steps |-> Tail(stage.steps)]
    /\ UNCHANGED <<invocation, todo, sent, result, starved, torn>>
Refuse ==
    /\ stage' = NoStage
    /\ result' = Refused
    /\ UNCHANGED <<invocation, todo, sent, torn>>

RejectArgument ==
    /\ At("reject")
    /\ Refuse
    /\ UNCHANGED starved

AllocateStaging ==
    /\ At("malloc")
    /\ \/ Proceed(stage.p, Amount)
       \/ Refuse /\ starved' = TRUE

CheckRoom ==
    /\ At("require")
    /\ IF stage.p + Amount > stage.cap
       THEN Refuse /\ UNCHANGED starved
       ELSE Proceed(stage.p, stage.cap)

EnlargeStaging ==
    /\ At("fit")
    /\ IF stage.p + Amount > stage.cap
       THEN \/ Proceed(stage.p, stage.p + Amount + 1024)
            \/ Refuse /\ starved' = TRUE
       ELSE Proceed(stage.p, stage.cap)

WriteStaging ==
    /\ At("put")
    /\ Proceed(stage.p + Amount, stage.cap)

\* How many bytes go before the payload in an append_output of their own:
\* two helpers have them in their staging buffer.
Header(call) ==
    IF call.helper \in {"send_startup", "send_bind_rewrite_identity"} THEN 0 ELSE 5

\* emit_msg at the end of a call, or the append_output of the two helpers.
\* The header and the payload are appended each on its own; what finds no
\* memory is left out, and the call returns 0 all the same.  The next call of
\* a pipeline begins.
Emit ==
    /\ result = Running
    /\ stage.steps = <<>>
    /\ \E header \in {0, Header(todo[1])}, payload \in {0, stage.p} :
           /\ sent' = Append(sent, [type |-> todo[1].type, len |-> stage.p,
                                    header |-> header, payload |-> payload])
           /\ torn' = (torn \/ header # Header(todo[1]) \/ payload # stage.p)
    /\ todo' = Tail(todo)
    /\ IF todo' = <<>>
       THEN stage' = NoStage /\ result' = Accepted
       ELSE stage' = Stage(todo'[1]) /\ UNCHANGED result
    /\ UNCHANGED <<invocation, starved>>

Next ==
    \/ \E calls \in Invocations : Invoke(calls)
    \/ AllocateStaging \/ CheckRoom \/ EnlargeStaging \/ WriteStaging
    \/ RejectArgument \/ Emit

Spec == Init /\ [][Next]_vars

-----------------------------------------------------------------------------
(* Properties.                                                             *)

\* The state stays within its types.  No amount of bytes is negative: the
\* length -1 of a NULL is never allocated, copied or added to the position.
TypeOK ==
    /\ stage.p \in Nat /\ stage.cap \in Nat /\ stage.steps \in Seq(Step)
    /\ result \in {Running, Accepted, Refused}
    /\ starved \in BOOLEAN /\ torn \in BOOLEAN
    /\ \A k \in DOMAIN sent :
           /\ sent[k].len \in Nat
           /\ sent[k].header \in {0, 5} /\ sent[k].payload \in {0, sent[k].len}

\* No helper writes beyond its staging buffer: not with the longest text that
\* its checks let pass, not after it has enlarged the buffer, not with all
\* the pieces that one check stands for.  pqwire_send_startup is the exception:
\* it copies the key "database" without a check of its own (line 957), and
\* may be eight bytes beyond the buffer before it refuses the message; see
\* StartupInBounds.
Overshoot(call) == IF call.helper = "send_startup" THEN 8 ELSE 0
EncodersInBounds ==
    result = Running => stage.p <= stage.cap + Overshoot(todo[1])

\* The header of a message that is accepted announces the length of everything
\* the caller asked for, whatever happens to the output; and unless the output
\* finds no memory (append_output, lines 124-131), all those bytes and the
\* header are in it.  Three helpers cut instead of refusing: the statement of
\* pqwire_send_call, the columns of pqwire_send_row_description, and in
\* pqwire_send_data_row_multi a value of which there is a length and no pointer
\* (line 1334); in the last case the length before the value is that of bytes
\* which do not follow.
Cuts(call) ==
    \/ call.helper \in {"send_call", "send_row_description"}
    \/ /\ call.helper = "send_data_row_multi"
       /\ Written(call.args[1], call.args[2]) # call.args[1]
AcceptedWhole ==
    \A k \in DOMAIN sent :
        LET call == invocation[k]
        IN  /\ sent[k].type = call.type
            /\ ~Cuts(call) =>
                   /\ sent[k].len = call.body
                   /\ ~torn => sent[k].header + sent[k].payload
                                  = Header(call) + call.body

\* What fits into the buffer that a helper begins with is not refused, unless
\* an allocation fails, or a Bind has no slot for the identity.  Two helpers
\* insist on a byte to spare.
FirstCap(call) == IF call.cap = 0 THEN call.steps[1].n ELSE call.cap
Spare(call) ==
    IF call.helper \in {"send_startup", "send_error_response"} THEN 1 ELSE 0
SlotMissing(call) ==
    /\ call.helper = "send_bind_rewrite_identity"
    /\ call.args[4] >= Len(call.args[3])
FittingMessagesAccepted ==
    result = Refused /\ ~starved =>
        \/ SlotMissing(todo[1])
        \/ todo[1].body + Spare(todo[1]) > FirstCap(todo[1])

\* A pipeline that fails has emitted nothing, or its Parse: never a Bind
\* without its Execute and its Sync.  If the output finds no memory, the Parse
\* may be there in part.
PipelineBreaksBeforeBind ==
    result = Refused /\ Len(invocation) > 1
        => sent = <<>> \/ (Len(sent) = 1 /\ sent[1].type = "P")

\* docs/decisions/003-testing-fuzzing-valgrind.md, line 23: no change to the
\* core library introduces invalid reads or writes.  So pqwire_send_startup
\* too should stay inside its buffer of 512 bytes.
StartupInBounds ==
    result = Running /\ todo[1].helper = "send_startup" => stage.p <= stage.cap

=============================================================================
