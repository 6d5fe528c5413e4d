------------------------------- MODULE Proxy -------------------------------
(***************************************************************************)
(* An identity proxy (ARCHITECTURE.md, "Application consumers") built from   *)
(* the library's parts: it reads a Bind of its frontend, puts the verified   *)
(* identity into one of the parameters, sends the result to its backend as   *)
(* part of an unnamed pipeline and forwards the answer, and then uses the    *)
(* same backend connection and the same parameter array again.              *)
(*                                                                         *)
(* The library's part are BindCodec, ParamOwnership and PipelineRecovery.    *)
(* The proxy application and the PostgreSQL server behind it are external:   *)
(* the proxy makes the calls that the header prescribes, the server may      *)
(* fail at every message and may send notices and notifications at any time. *)
(*                                                                         *)
(* The event of a Bind holds lengths and formats by value, but the bytes of  *)
(* the parameters as views into the input buffer.  The same call of          *)
(* feed_input that raises the event moves whatever follows the Bind in its   *)
(* chunk over them (run framing_views), so the proxy finds the bytes that    *)
(* the frontend sent only if nothing followed.  A request therefore has both *)
(* the body that was parsed and the bytes that are seen in its place later.  *)
(***************************************************************************)
EXTENDS ParamOwnership, PipelineRecovery

CONSTANTS
    Requests,     \* what frontends send: see below
    Identity,     \* the bytes of the verified identity
    MaxAsync      \* notices and notifications under way at a time

\* A Bind within the limits, whose formats are those of the protocol: none for
\* text, one for all, or one each.  Text has no zero byte.
Within(w, body) ==
    /\ w.portal \in Seq(1 .. 255) /\ w.statement \in Seq(1 .. 255)
    /\ w.formats \in Seq({0, 1}) /\ Len(w.formats) \in {0, 1, Len(w.params)}
    /\ w.params \in Seq([length : Int, data : Seq(0 .. 255), format : {0, 1}])
    /\ w.result_formats \in Seq({0, 1})
    /\ Len(w.params) <= PQWIRE_MAX_BIND_PARAMS
    /\ Len(w.result_formats) <= PQWIRE_MAX_BIND_PARAMS
    /\ \A k \in DOMAIN w.params :
           LET p == w.params[k]
           IN  /\ \/ p.length = Len(p.data) /\ FitsInt32(p.length)
                  \/ p.length = -1 /\ p.data = <<>>
               /\ p.format = (CASE Len(w.formats) = 0 -> 0
                                [] Len(w.formats) = 1 -> w.formats[1]
                                [] OTHER -> w.formats[k])
               /\ p.format = 0 => p.data \in Seq(1 .. 255)
    /\ body = send_bind(w.portal, w.statement, w.formats,
                        [k \in DOMAIN w.params |->
                            Value(w.params[k].length, w.params[k].data)],
                        w.result_formats)

\* A request has the body of its Bind, the bytes seen in the place of the body
\* when the proxy reads the event, the slot and the format that policy gives to
\* the identity, whether the proxy has sent ParseComplete and BindComplete on
\* its own, and what the frontend wants: the parts of its Bind, or nothing if it
\* is a Bind beyond the limits or a torn one.
ASSUME ProxyAssumption ==
    /\ \A r \in Requests :
           /\ r.body \in Seq(0 .. 255)
           /\ r.seen \in Seq(0 .. 255) /\ Len(r.seen) = Len(r.body)
           /\ r.slot \in Nat
           /\ r.as_binary \in BOOLEAN /\ r.skip \in BOOLEAN
           /\ r.wanted # <<>> => Within(r.wanted[1], r.body)
    /\ MaxAsync \in Nat
    /\ Identity \in Seq(1 .. 255) /\ FitsInt32(Len(Identity))

VARIABLES
    stage,        \* where the proxy is
    request,      \* the request it works on
    bind,         \* the Bind event of the request
    i,            \* the index of the loop of inject_identity, from 1
    mem,          \* the parameter array and the heap
    sent,         \* the body of the Bind that went to the backend
    backend, st,  \* the context of the backend connection, and the status
    peer,         \* the server: the messages on their way to the proxy, ...
    shown,        \* the types of the messages in the frontend's answer
    reported,     \* the proxy has reported an error of its own
    turn          \* tells a pipeline from the one before it

vars == <<stage, request, bind, i, mem, sent, backend, st, peer, shown, reported,
          turn>>
requestVars == <<request, bind, i, sent>>

NoRequest ==
    [body |-> <<>>, seen |-> <<>>, slot |-> 0, as_binary |-> FALSE, skip |-> FALSE,
     wanted |-> <<>>]
Nothing == <<>>
Unfailed == [failed |-> FALSE, text |-> 0]
Pipeline(text) ==
    <<Message("P", text), Message("B", text), Message("E", text), Message("S", 0)>>

\* The connection after its startup: AuthenticationOk and ReadyForQuery have
\* arrived and their events have been read.
Connected == [Create(Client) EXCEPT !.auth_state = "DONE", !.proto_state = "READY"]
Init ==
    /\ stage = "idle"
    /\ request = NoRequest
    /\ bind = NoBind
    /\ i = 1
    /\ mem = ZeroParams(PQWIRE_MAX_BIND_PARAMS)
    /\ sent = Nothing
    /\ backend = Connected
    /\ st = ZeroStatus
    /\ peer = [wire |-> <<>>, skipping |-> FALSE, error |-> Unfailed]
    /\ shown = <<>>
    /\ reported = FALSE
    /\ turn = 1

-----------------------------------------------------------------------------
(* The proxy.                                                              *)

\* A Bind event of the frontend, polled once feed_input has returned and before
\* it is called again.
Receive(r) ==
    /\ stage = "idle"
    /\ parse_bind_msg(r.body).event
    /\ stage' = "inject"
    /\ request' = r
    /\ bind' = parse_bind_msg(r.body)
    /\ i' = 1
    /\ shown' = IF r.skip THEN <<"1", "2">> ELSE <<>>
    /\ turn' = 3 - turn
    /\ UNCHANGED <<mem, sent, backend, st, peer, reported>>

\* pqwire_bind_inject_identity, one iteration at a time.
Inject ==
    /\ stage = "inject"
    /\ MayRewrite(bind, request.slot)
    /\ \E o \in InjectParam(mem, request.seen, bind, i, request.slot, Identity,
                            request.as_binary) :
           /\ mem' = o.mem
           /\ IF o.rc = Failure THEN stage' = "failed" /\ i' = i
              ELSE IF i = Len(bind.params) THEN stage' = "built" /\ i' = i
              ELSE stage' = stage /\ i' = i + 1
    /\ UNCHANGED <<request, bind, sent, backend, st, peer, shown, reported, turn>>

Reject ==
    /\ stage = "inject"
    /\ ~MayRewrite(bind, request.slot)
    /\ stage' = "failed"
    /\ UNCHANGED <<requestVars, mem, backend, st, peer, shown, reported, turn>>

\* After a failure the array may be cleared; the header does not ask for it.
GiveUp ==
    /\ stage = "failed"
    /\ mem' \in {mem, ClearAll(mem)}
    /\ stage' = "idle"
    /\ request' = NoRequest
    /\ bind' = NoBind
    /\ i' = 1
    /\ shown' = <<>>
    /\ UNCHANGED <<sent, backend, st, peer, reported, turn>>

\* A pipeline on the backend connection, and a new status for its answer.
Dispatch(msgs, body) ==
    /\ stage' = "sent"
    /\ sent' = body
    /\ backend' = SendAll(backend, msgs)
    /\ st' = StatusInit(st)
    /\ UNCHANGED <<request, bind, i, mem, peer, turn>>

\* pqwire_send_unnamed_pipeline, or its parts with pqwire_send_bind_params.
SendPipeline ==
    /\ stage = "built"
    /\ Dispatch(Pipeline(turn), send_bind_params(mem, Len(bind.params), bind.result_formats))
    /\ UNCHANGED <<shown, reported>>

\* It fails before the Parse or after it (PipelineBreaksBeforeBind): the proxy
\* reports an error and sends a Sync to get the connection back.  Of the
\* answer to what is left of the pipeline it forwards only ReadyForQuery.
Refused ==
    /\ \E n \in 0 .. 1 : Dispatch(SubSeq(Pipeline(turn), 1, n) \o <<Message("S", 0)>>, Nothing)
    /\ shown' = Append(shown, "E")
    /\ reported' = TRUE
SendPipelineRefused == stage = "built" /\ Refused

\* pqwire_send_bind_rewrite_identity in place of the owned parameters.
SendRewritten ==
    /\ stage = "inject"
    /\ i = 1
    /\ MayRewrite(bind, request.slot)
    /\ Dispatch(Pipeline(turn),
                rewrite_identity_zerocopy(request.seen, bind, request.slot, Identity,
                                          request.as_binary))
    /\ UNCHANGED <<shown, reported>>

\* The rewritten Bind exceeds the 8192 bytes of the buffer on the stack, before
\* or after the proxy has sent the Parse.
SendRewrittenRefused ==
    /\ stage = "inject"
    /\ i = 1
    /\ MayRewrite(bind, request.slot)
    /\ Refused

\* "Caller must clear each", before the output is handed to the connection.
ClearParams ==
    /\ stage = "sent"
    /\ mem' = ClearAll(mem)
    /\ stage' = "drain"
    /\ request' = [NoRequest EXCEPT !.skip = request.skip]
    /\ bind' = NoBind
    /\ i' = 1
    /\ sent' = Nothing
    /\ UNCHANGED <<backend, st, peer, shown, reported, turn>>

\* pqwire_pipeline_feed_backend_msg with one message of the server, which is
\* then forwarded unless it is filtered.
FeedBackend ==
    /\ stage = "drain"
    /\ peer.wire # <<>>
    /\ LET m == Head(peer.wire)
       IN  /\ backend' \in FeedBackendMsg(backend, m)
           /\ st' = ObserveMsg(st, m)
           /\ shown' = IF \/ FilterBackendType(m.type, request.skip)
                          \/ reported /\ m.type # "Z"
                          \/ m.type = "A"   \* forwarded, but no answer
                       THEN shown
                       ELSE Append(shown, m.type)
    /\ peer' = [peer EXCEPT !.wire = Tail(@)]
    /\ stage' = IF st'.complete THEN "done" ELSE stage
    /\ UNCHANGED <<requestVars, mem, reported, turn>>

Finish ==
    /\ stage = "done"
    /\ stage' = "idle"
    /\ request' = NoRequest
    /\ shown' = <<>>
    /\ reported' = FALSE
    /\ peer' = [peer EXCEPT !.error = Unfailed]
    /\ UNCHANGED <<bind, i, mem, sent, backend, st, turn>>

-----------------------------------------------------------------------------
(* The server: one answer per message, nothing after a failure but for the  *)
(* ReadyForQuery that answers the Sync.                                     *)

Answer(msgs, error) ==
    peer' = [peer EXCEPT !.wire = @ \o msgs,
                         !.skipping = error.failed,
                         !.error = IF error.failed THEN error ELSE @]
Rows == {<<>>, <<Message("D", 0)>>, <<Message("D", Huge), Message("D", 0)>>}

ServerAnswers ==
    /\ stage = "drain"
    /\ backend.output # <<>>
    /\ LET m == Head(backend.output)
       IN  CASE m.type = "S" ->
                  Answer(<<Message("Z", 0)>>, Unfailed)
             [] m.type # "S" /\ peer.skipping ->
                  UNCHANGED peer
             [] OTHER ->
                  \/ m.type = "P" /\ Answer(<<Message("1", 0)>>, Unfailed)
                  \/ m.type = "B" /\ Answer(<<Message("2", 0)>>, Unfailed)
                  \/ /\ m.type = "E"
                     /\ \E rows \in Rows :
                            Answer(Append(rows, Message("C", m.text)), Unfailed)
                  \/ \E e \in {Message("E", m.text), Malformed("E")} :
                         Answer(<<e>>, [failed |-> TRUE, text |-> e.text])
    /\ backend' = TakeOutput(backend, 1)
    /\ UNCHANGED <<stage, requestVars, mem, st, shown, reported, turn>>

\* NoticeResponse, ParameterStatus and NotificationResponse.
Asynchronous == {"N", "S", "A"}
ServerNotifies ==
    /\ stage \in {"drain", "done"}
    /\ Len(SelectSeq(peer.wire, LAMBDA m : m.type \in Asynchronous)) < MaxAsync
    /\ \E type \in Asynchronous :
           peer' = [peer EXCEPT !.wire = Append(@, Message(type, 0))]
    /\ UNCHANGED <<stage, requestVars, mem, backend, st, shown, reported, turn>>

Next ==
    \/ \E r \in Requests : Receive(r)
    \/ Inject \/ Reject \/ GiveUp
    \/ SendPipeline \/ SendPipelineRefused
    \/ SendRewritten \/ SendRewrittenRefused
    \/ ClearParams \/ FeedBackend \/ Finish
    \/ ServerAnswers \/ ServerNotifies

Spec == Init /\ [][Next]_vars

\* The proxy works off what it has begun, and the server answers.
FairSpec ==
    /\ Spec
    /\ WF_vars(ClearParams)
    /\ WF_vars(FeedBackend)
    /\ WF_vars(ServerAnswers)

-----------------------------------------------------------------------------
(* Properties.                                                             *)

\* The state stays within its types; in particular inject_identity never
\* indexes beyond the caller's array, and the queue of a drained context is
\* empty between the calls.
TypeOK ==
    /\ stage \in {"idle", "inject", "failed", "built", "sent", "drain", "done"}
    /\ i \in 1 .. PQWIRE_MAX_BIND_PARAMS
    /\ DOMAIN mem.params = 1 .. PQWIRE_MAX_BIND_PARAMS
    /\ \A k \in DOMAIN mem.params : mem.params[k].owned \in BOOLEAN
    /\ backend.events = <<>>
    /\ reported \in BOOLEAN

\* Whatever a Bind holds, torn or beyond the limits, the views that its event
\* hands to the rewrites lie inside the place of its body.
ViewsInsideBody ==
    bind.event =>
        \A k \in DOMAIN bind.params :
            LET v == bind.params[k]
            IN  v.length > 0 => v.off + v.length <= Len(request.seen)

\* Both rewrites put the identity, in the format asked for, into the slot of
\* every Bind that leaves the proxy, whatever the frontend's Bind held and
\* whatever has been moved over its views since.
Read(body, b, k) ==
    LET v == b.params[k]
    IN  [length |-> v.length, format |-> v.format,
         data |-> IF v.length > 0 THEN Slice(body, v.off, v.length) ELSE <<>>]
IdentityAlwaysInSlot ==
    sent # Nothing =>
        LET b == parse_bind_msg(sent)
        IN  /\ b.event
            /\ request.slot < Len(b.params)
            /\ Read(sent, b, request.slot + 1) =
                   [length |-> Len(Identity), data |-> Identity,
                    format |-> IF request.as_binary THEN 1 ELSE 0]

\* Of a Bind within the limits everything else arrives as the frontend wants
\* it: the number of parameters, which of them are NULL, the formats however the
\* frontend has abbreviated them, and the result formats in any case; the other
\* values, empty ones included, if nothing followed the Bind in its chunk.  What
\* follows it is moved over the values before the event can be polled: the run
\* framing_views shows it, and here it changes them.
OthersUntouched ==
    sent # Nothing /\ request.wanted # <<>> =>
        LET b == parse_bind_msg(sent)
            wanted == request.wanted[1]
            others == DOMAIN b.params \ {request.slot + 1}
            Kept(k) == Read(sent, b, k)
        IN  /\ Len(b.params) = Len(wanted.params)
            /\ \A k \in others :
                   /\ Kept(k).format = wanted.params[k].format
                   /\ Kept(k).length < 0 <=> wanted.params[k].length < 0
            /\ request.seen = request.body =>
                   \A k \in others : Kept(k) = wanted.params[k]
            /\ b.result_formats = wanted.result_formats

\* Between two calls every live block of the heap belongs to exactly one
\* parameter and no parameter points to a block that was freed: nothing leaks
\* and nothing is freed twice, also when a malloc has failed halfway through
\* inject_identity and the array is used again without having been cleared.
HeapOwned ==
    LET owners == {k \in DOMAIN mem.params :
                      mem.params[k].owned /\ mem.params[k].data # NULL}
    IN  /\ {mem.params[k].data : k \in owners} = DOMAIN mem.heap
        /\ \A k, l \in owners : mem.params[k].data = mem.params[l].data => k = l

\* A pipeline that is reported complete has left the connection fit for the
\* next one: the context is READY and still authenticated, nothing waits to be
\* sent, the server has answered everything, and only notices and
\* notifications may be on their way.  This includes pipelines that failed, messages
\* that exceed max_message_size and messages for which feed_input found no memory.
CompleteMeansClean ==
    stage = "done" =>
        /\ st.complete
        /\ backend.proto_state = "READY"
        /\ backend.auth_state = "DONE"
        /\ backend.output = <<>>
        /\ ~peer.skipping
        /\ \A k \in DOMAIN peer.wire : peer.wire[k].type \in Asynchronous

\* A complete pipeline reports an error exactly if the server failed this
\* pipeline, not an earlier one, and then with the fields of its ErrorResponse.
ErrorReported ==
    stage = "done" =>
        /\ st.saw_error = peer.error.failed
        /\ st.last_error = peer.error.text

\* What the frontend gets for its pipeline is an answer that the protocol
\* allows, notifications apart: no completion twice, rows only after
\* BindComplete, a single CommandComplete or ErrorResponse, then ReadyForQuery.
AnswerLegal ==
    stage = "done" =>
        LET At(type) == {k \in DOMAIN shown : shown[k] = type}
            n == Len(shown)
        IN  /\ At("Z") = {n}
            /\ At("C") \cup At("E") = {n - 1}
            /\ Cardinality(At("1")) <= 1 /\ Cardinality(At("2")) <= 1
            /\ At("C") \cup At("D") # {} => shown[1] = "1" /\ shown[2] = "2"

\* Every pipeline that was sent completes, the ones that fail halfway and the
\* ones that the proxy has to end with a Sync of its own included.
EveryPipelineCompletes == (stage = "sent") ~> (stage = "done")

=============================================================================
