---------------------------- MODULE ProxyProofs ----------------------------
(***************************************************************************)
(* Proofs about the identity proxy: for any requests, any Bind bodies, any  *)
(* number of parameters, rows, notices and pipelines, and any failure of    *)
(* malloc, of a send helper, of feed_input or of the server.                *)
(***************************************************************************)
EXTENDS Proxy, ParamProofs

-----------------------------------------------------------------------------
(* The invariant of a pipeline's conversation.                             *)

\* The messages that answer a pipeline come in the order of their ranks, and
\* only rows come more than once.
AnswerTypes == {"1", "2", "D", "C", "E", "Z"}
Rank(t) ==
    CASE t = "1" -> 1 [] t = "2" -> 2 [] t = "D" -> 3
      [] t = "C" -> 4 [] t = "E" -> 4 [] OTHER -> 5
Before(t, u) == Rank(t) < Rank(u) \/ (t = "D" /\ u = "D")

WireMessage ==
    [type : AnswerTypes \cup Asynchronous, text : Nat, ok : BOOLEAN]
PeerType == [wire : Seq(WireMessage), skipping : BOOLEAN,
             error : [failed : BOOLEAN, text : Nat]]
StatusType == [saw_error : BOOLEAN, complete : BOOLEAN, last_error : Nat]
IsContext(c) ==
    DOMAIN c = {"role", "proto_state", "auth_state", "startup_seen", "events",
                "scratch", "output", "lost"}

\* What is left of the pipeline in the output of the backend connection.
Remaining(n, rep) ==
    LET p == Message("P", n)
        b == Message("B", n)
        e == Message("E", n)
        s == Message("S", 0)
    IN  IF rep THEN {<<p, s>>, <<s>>, <<>>}
        ELSE {<<p, b, e, s>>, <<b, e, s>>, <<e, s>>, <<s>>, <<>>}

\* The rank that the answers of the server have reached, by the output that it
\* has not read yet.
Reach(out, skipping) ==
    IF skipping THEN 4
    ELSE IF out = <<>> THEN 5
    ELSE CASE out[1].type = "P" -> 0 [] out[1].type = "B" -> 1
           [] out[1].type = "E" -> 2 [] OTHER -> 4

\* What FeedBackend adds to the answer.
Forwards(t, skip, rep) ==
    ~(FilterBackendType(t, skip) \/ (rep /\ t # "Z") \/ t = "A")
InWire(w, t) == \E k \in DOMAIN w : w[k].type = t
InShown(s, t) == \E k \in DOMAIN s : s[k] = t
Has(s, w, t) == InWire(w, t) \/ InShown(s, t)

\* Before a pipeline is sent: nothing is left of the one before it.
Quiet ==
    /\ backend.output = <<>>
    /\ peer.error = Unfailed
    /\ ~peer.skipping
    /\ \A k \in DOMAIN peer.wire : peer.wire[k].type \in Asynchronous
    /\ ~reported
    /\ shown = IF request.skip THEN <<"1", "2">> ELSE <<>>

\* While it is under way.  The order of the answers in the wire w and of the
\* ones shown, s, once the server has reached rank r:
WireInOrder(w, r) ==
    /\ \A k, l \in DOMAIN w :
           k < l /\ w[k].type \in AnswerTypes /\ w[l].type \in AnswerTypes
               => Before(w[k].type, w[l].type)
    /\ \A k \in DOMAIN w : w[k].type \in AnswerTypes => Rank(w[k].type) <= r
ShownInOrder(s, w, r, skip, rep) ==
    /\ ~InShown(s, "Z")
    /\ \A j, k \in DOMAIN s : j < k => Before(s[j], s[k])
    /\ \A j \in DOMAIN s, k \in DOMAIN w :
           w[k].type \in AnswerTypes /\ Forwards(w[k].type, skip, rep)
               => Before(s[j], w[k].type)
    /\ \A j \in DOMAIN s, t \in AnswerTypes :
           Rank(t) > r /\ Forwards(t, skip, rep) => Before(s[j], t)
\* The answers that cannot be missing:
NothingMissing(s, w, r, skipping, skip, rep) ==
    /\ r = 5 => InWire(w, "Z")
    /\ IF rep THEN InShown(s, "E") /\ ~InShown(s, "C") /\ ~InShown(s, "D")
       ELSE /\ r >= 4 => Has(s, w, "C") \/ Has(s, w, "E")
            /\ ~skipping /\ r \in 1 .. 4 => Has(s, w, "1")
            /\ ~skipping /\ r \in 2 .. 4 => Has(s, w, "2")
            /\ Has(s, w, "2") \/ Has(s, w, "D") \/ Has(s, w, "C") => Has(s, w, "1")
            /\ Has(s, w, "D") \/ Has(s, w, "C") => Has(s, w, "2")
    /\ skip => InShown(s, "1") /\ InShown(s, "2")
    /\ InShown(s, "2") => InShown(s, "1")
    /\ InShown(s, "C") \/ InShown(s, "D") => InShown(s, "2")
\* The error, in the status or still on its way:
ErrorTracked(w, status, error) ==
    /\ error.failed <=> status.saw_error \/ InWire(w, "E")
    /\ status.saw_error => status.last_error = error.text
    /\ ~status.saw_error => status.last_error = 0
    /\ ~error.failed => error.text = 0
    /\ \A k \in DOMAIN w :
           w[k].type = "E" => error.text = (IF w[k].ok THEN w[k].text ELSE 0)
Reached == Reach(backend.output, peer.skipping)
Talking ==
    /\ ~st.complete
    /\ backend.output \in Remaining(turn, reported)
    /\ backend.output = <<>> => ~peer.skipping
    /\ backend.output # <<>> => peer.error.failed = peer.skipping
    /\ WireInOrder(peer.wire, Reached)
    /\ ShownInOrder(shown, peer.wire, Reached, request.skip, reported)
    /\ NothingMissing(shown, peer.wire, Reached, peer.skipping, request.skip, reported)
    /\ ErrorTracked(peer.wire, st, peer.error)

Stages == {"idle", "inject", "failed", "built", "sent", "drain", "done"}
ConversationType ==
    /\ stage \in Stages
    /\ turn \in {1, 2}
    /\ request.skip \in BOOLEAN /\ request.slot \in Nat
    /\ reported \in BOOLEAN
    /\ IsContext(backend) /\ backend.events = <<>> /\ backend.auth_state = "DONE"
    /\ st \in StatusType
    /\ peer \in PeerType
    /\ shown \in Seq(AnswerTypes)

Conversation ==
    /\ ConversationType
    /\ stage \in {"idle", "inject", "failed", "built"} => Quiet
    /\ stage \in {"sent", "drain"} => Talking
    /\ stage = "done" => CompleteMeansClean /\ ErrorReported /\ AnswerLegal

-----------------------------------------------------------------------------
(* The invariant of the rewrites.                                          *)

\* What the rewrites know of the Bind event of the request.
BindDecoded ==
    /\ bind.event /\ request.seen \in Bodies
    /\ Len(bind.params) \in 0 .. PQWIRE_MAX_BIND_PARAMS
    /\ DOMAIN bind.params = 1 .. Len(bind.params)
    /\ \A k \in 1 .. Len(bind.params) : Inside(bind.params[k], request.seen)

Rewrites ==
    /\ i \in Slots
    /\ Accounted(mem, {})
    /\ stage \in {"inject", "failed", "built", "sent"} =>
           BindDecoded
    /\ stage = "inject" => i = 1 \/ i <= Len(bind.params)
    /\ stage \notin {"inject", "failed", "built", "sent"} => ~bind.event

LEMMA RewritesInit == Init => Rewrites
<1> SUFFICES ASSUME Init
             PROVE  Rewrites
  OBVIOUS
<1> DEFINE none == Param(0, NULL, FALSE, 0)
<1>1. i \in Slots
  BY BindCodecAssumption DEF Init, Slots
<1>2. mem = [params |-> [k \in Slots |-> none], heap |-> <<>>]
  BY DEF Init, ZeroParams, Slots
<1>3. DOMAIN mem = {"params", "heap"} /\ mem.params = [k \in Slots |-> none] /\ mem.heap = <<>>
  <2> HIDE DEF none
  <2> QED
    BY <1>2
<1>4. ~none.owned
  BY DEF Param
<1>5. none.owned \in BOOLEAN
  BY DEF Param
<1>6. DOMAIN none = {"length", "data", "owned", "format"} /\ none.data = NULL
  BY DEF Param
<1>7. DOMAIN <<>> = {}
  OBVIOUS
<1> HIDE DEF none
<1>8. IsParam(none)
  BY <1>5, <1>6 DEF IsParam, NULL
<1>9. IsMemory(mem)
  BY <1>3, <1>7, <1>8, FS_EmptySet DEF IsMemory
<1>10. AccountedBut(mem, {})
  BY <1>3, <1>4, <1>7 DEF AccountedBut, Owner
<1>11. ~NoBind.event
  BY DEF NoBind
<1> QED
  BY <1>1, <1>9, <1>10, <1>11 DEF Init, Rewrites, Accounted

LEMMA RewritesStep == Rewrites /\ [Next]_vars => Rewrites'
<1> SUFFICES ASSUME Rewrites, [Next]_vars
             PROVE  Rewrites'
  OBVIOUS
<1>0. ~NoBind.event /\ 1 \in Slots
  BY BindCodecAssumption DEF NoBind, Slots
<1>1. ASSUME NEW r \in Requests, Receive(r)
      PROVE  Rewrites'
  <2>1. /\ r.body \in Bodies /\ r.seen \in Bodies /\ Len(r.seen) = Len(r.body)
        /\ parse_bind_msg(r.body).event
    BY <1>1, ProxyAssumption DEF Receive, Bodies
  <2>2. \A v : Inside(v, r.body) => Inside(v, r.seen)
    BY <2>1 DEF Inside
  <2>3. BindDecoded'
    <3> DEFINE b == parse_bind_msg(r.body)
    <3>1. /\ Len(b.params) \in 0 .. PQWIRE_MAX_BIND_PARAMS /\ DOMAIN b.params = 1 .. Len(b.params)
          /\ \A k \in 1 .. Len(b.params) : Inside(b.params[k], r.body)
      BY <2>1, ParseBindInside
    <3>2. bind' = b /\ request' = r /\ b.event
      BY <1>1, <2>1 DEF Receive
    <3> HIDE DEF b
    <3> QED
      BY <2>1, <2>2, <3>1, <3>2 DEF BindDecoded
  <2> QED
    BY <1>0, <1>1, <2>3 DEF Receive, Rewrites
<1>2. CASE Inject
  <2>1. BindDecoded /\ i <= Len(bind.params) /\ stage = "inject"
    BY <1>2 DEF Inject, Rewrites, MayRewrite, BindDecoded
  <2>2. PICK o \in InjectParam(mem, request.seen, bind, i, request.slot, Identity,
                               request.as_binary) :
            /\ mem' = o.mem
            /\ IF o.rc = Failure THEN stage' = "failed" /\ i' = i
               ELSE IF i = Len(bind.params) THEN stage' = "built" /\ i' = i
               ELSE stage' = stage /\ i' = i + 1
    BY <1>2 DEF Inject
  <2>3. Accounted(mem', {})
    BY <2>2, InjectParamAccounts DEF Rewrites
  <2>4. i \in Slots /\ Len(bind.params) \in Nat /\ Len(bind.params) <= PQWIRE_MAX_BIND_PARAMS
    BY <2>1, BindCodecAssumption DEF Rewrites, BindDecoded
  <2>5. /\ i' \in Slots /\ i' <= Len(bind.params)
        /\ stage' \in {"inject", "failed", "built"}
    BY <2>1, <2>2, <2>4, BindCodecAssumption DEF Slots
  <2>6. BindDecoded' /\ bind' = bind
    BY <1>2, <2>1 DEF Inject, BindDecoded
  <2> QED
    BY <2>3, <2>5, <2>6 DEF Rewrites
<1>3. CASE Reject
  BY <1>3 DEF Reject, requestVars, Rewrites, BindDecoded
<1>4. CASE GiveUp
  <2>1. Accounted(mem', {})
    BY <1>4, ClearAllAccounts DEF GiveUp, Rewrites
  <2> QED
    BY <1>0, <1>4, <2>1 DEF GiveUp, Rewrites
<1>5. CASE SendPipeline
  BY <1>5 DEF SendPipeline, Dispatch, Rewrites, BindDecoded
<1>6. CASE SendPipelineRefused
  BY <1>6 DEF SendPipelineRefused, Refused, Dispatch, Rewrites, BindDecoded
<1>7. CASE SendRewritten \/ SendRewrittenRefused
  BY <1>7 DEF SendRewritten, SendRewrittenRefused, Refused, Dispatch, Rewrites, BindDecoded
<1>8. CASE ClearParams
  <2>1. Accounted(mem', {})
    BY <1>8, ClearAllAccounts DEF ClearParams, Rewrites
  <2> QED
    BY <1>0, <1>8, <2>1 DEF ClearParams, Rewrites
<1>9. CASE FeedBackend
  <2>1. stage = "drain" /\ stage' \in {"drain", "done"} /\ bind' = bind /\ i' = i /\ mem' = mem
    BY <1>9 DEF FeedBackend, requestVars
  <2> QED
    BY <2>1 DEF Rewrites
<1>10. CASE Finish
  BY <1>10 DEF Finish, Rewrites
<1>11. CASE ServerAnswers
  <2>1. stage = "drain" /\ stage' = "drain" /\ bind' = bind /\ i' = i /\ mem' = mem
    BY <1>11 DEF ServerAnswers, requestVars
  <2> QED
    BY <2>1 DEF Rewrites
<1>12. CASE ServerNotifies
  BY <1>12 DEF ServerNotifies, requestVars, Rewrites
<1>13. CASE UNCHANGED vars
  BY <1>13 DEF vars, Rewrites, BindDecoded
<1> QED
  BY <1>1, <1>2, <1>3, <1>4, <1>5, <1>6, <1>7, <1>8, <1>9, <1>10, <1>11, <1>12, <1>13 DEF Next

\* The views of the Bind event that the rewrites read are inside the body of
\* the message, whatever parse_bind_msg was given.
THEOREM ViewsCorrect == Spec => []ViewsInsideBody
<1>1. Rewrites => ViewsInsideBody
  BY DEF Rewrites, BindDecoded, ViewsInsideBody, Inside
<1> QED
  BY <1>1, RewritesInit, RewritesStep, PTL DEF Spec

\* inject_identity, param_clear and the setters neither leak a block nor free
\* one twice, for any sequence of requests on one array and any failing malloc.
THEOREM HeapCorrect == Spec => []HeapOwned
<1>1. Rewrites => HeapOwned
  <2> SUFFICES ASSUME Rewrites
               PROVE  HeapOwned
    OBVIOUS
  <2> DEFINE owners == {k \in DOMAIN mem.params :
                           mem.params[k].owned /\ mem.params[k].data # NULL}
  <2>1. DOMAIN mem.params = Slots /\ AccountedBut(mem, {})
    BY DEF Rewrites, Accounted, IsMemory
  <2>2. \A k \in Slots : k \in owners <=> Owner(mem, k)
    BY <2>1 DEF Owner
  <2>3. owners \subseteq Slots
    BY <2>1
  <2>4. HeapOwned <=> /\ {mem.params[k].data : k \in owners} = DOMAIN mem.heap
                      /\ \A k, l \in owners : mem.params[k].data = mem.params[l].data => k = l
    BY DEF HeapOwned
  <2> HIDE DEF owners
  <2>5. {mem.params[k].data : k \in owners} = DOMAIN mem.heap
    BY <2>1, <2>2, <2>3 DEF AccountedBut
  <2>6. \A k, l \in owners : mem.params[k].data = mem.params[l].data => k = l
    BY <2>1, <2>2, <2>3 DEF AccountedBut
  <2> QED
    BY <2>4, <2>5, <2>6
<1> QED
  BY <1>1, RewritesInit, RewritesStep, PTL DEF Spec

-----------------------------------------------------------------------------
(* What the library's functions do to the context of the backend.          *)

LEMMA EnqueueEventKeeps ==
    ASSUME NEW c, IsContext(c), NEW type, NEW text
    PROVE  LET q == EnqueueEvent(c, type, text) IN
           IsContext(q) /\ q.output = c.output /\ q.auth_state = c.auth_state
BY DEF EnqueueEvent, IsContext

LEMMA HandleMessageKeeps ==
    ASSUME NEW c, IsContext(c), c.auth_state = "DONE", NEW m
    PROVE  LET q == HandleMessage(c, m) IN
           IsContext(q) /\ q.output = c.output /\ q.auth_state = "DONE"
<1>1. ASSUME NEW type, NEW text
      PROVE  LET q == Raise(c, type, text) IN
             IsContext(q) /\ q.output = c.output /\ q.auth_state = "DONE"
  <2> DEFINE e == EnqueueEvent(c, type, text)
  <2>1. IsContext(e) /\ e.output = c.output /\ e.auth_state = c.auth_state
    BY EnqueueEventKeeps
  <2>2. Raise(c, type, text) =
            [e EXCEPT !.proto_state = PhaseAfter(type, @),
                      !.startup_seen = @ \/ type = "STARTUP",
                      !.auth_state = IF type = "AUTHENTICATION_OK" THEN "DONE" ELSE @]
    BY DEF Raise
  <2> HIDE DEF e
  <2> QED
    BY <2>1, <2>2 DEF IsContext
<1> QED
  BY <1>1 DEF HandleMessage

LEMMA FeedBackendMsgKeeps ==
    ASSUME NEW c, IsContext(c), c.auth_state = "DONE", NEW m,
           NEW d \in FeedBackendMsg(c, m)
    PROVE  /\ IsContext(d) /\ d.output = c.output /\ d.auth_state = "DONE"
           /\ d.events = <<>>
           /\ m.type = "Z" => d.proto_state = "READY"
<1>1. PICK fed \in FeedOutcomes(c, m) :
          d = IF m.type = "Z" THEN NoteReady(Drained(fed)) ELSE Drained(fed)
  BY DEF FeedBackendMsg
<1>2. IsContext(fed) /\ fed.output = c.output /\ fed.auth_state = "DONE"
  BY EnqueueEventKeeps, HandleMessageKeeps DEF FeedOutcomes
<1> QED
  BY <1>1, <1>2 DEF NoteReady, Drained, IsContext

LEMMA SendAllKeeps ==
    ASSUME NEW c, IsContext(c), NEW msgs
    PROVE  LET d == SendAll(c, msgs) IN
           /\ IsContext(d) /\ d.output = c.output \o msgs
           /\ d.auth_state = c.auth_state /\ d.events = c.events
BY DEF SendAll, IsContext

LEMMA TakeOutputKeeps ==
    ASSUME NEW c, IsContext(c)
    PROVE  LET d == TakeOutput(c, 1) IN
           /\ IsContext(d) /\ d.output = SubSeq(c.output, 2, Len(c.output))
           /\ d.auth_state = c.auth_state /\ d.events = c.events
BY DEF TakeOutput, IsContext

-----------------------------------------------------------------------------
(* The order of the answers.                                               *)

LEMMA Ranks ==
    /\ Rank("1") = 1 /\ Rank("2") = 2 /\ Rank("D") = 3
    /\ Rank("C") = 4 /\ Rank("E") = 4 /\ Rank("Z") = 5
    /\ \A t \in AnswerTypes :
           /\ Rank(t) \in 1 .. 5
           /\ Rank(t) = 1 <=> t = "1"
           /\ Rank(t) = 2 <=> t = "2"
           /\ Rank(t) = 3 <=> t = "D"
           /\ Rank(t) = 4 <=> t \in {"C", "E"}
           /\ Rank(t) = 5 <=> t = "Z"
<1>1. /\ Rank("1") = 1 /\ Rank("2") = 2 /\ Rank("D") = 3
      /\ Rank("C") = 4 /\ Rank("E") = 4 /\ Rank("Z") = 5
  BY DEF Rank
<1> QED
  BY <1>1 DEF AnswerTypes

LEMMA ReachType ==
    ASSUME NEW out, NEW skipping
    PROVE  Reach(out, skipping) \in 0 .. 5
BY DEF Reach

LEMMA BeforeFacts ==
    ASSUME NEW t \in AnswerTypes, NEW u \in AnswerTypes, Before(t, u)
    PROVE  Rank(t) <= Rank(u) /\ Rank(t) <= 4 /\ (t # "D" => Rank(t) < Rank(u))
BY Ranks DEF Before

LEMMA InWireGrows ==
    ASSUME NEW w \in Seq(WireMessage), NEW xs \in Seq(WireMessage)
    PROVE  \A t : InWire(w \o xs, t) <=> InWire(w, t) \/ InWire(xs, t)
<1> DEFINE v == w \o xs
<1>1. /\ Len(w) \in Nat /\ DOMAIN w = 1 .. Len(w)
      /\ Len(xs) \in Nat /\ DOMAIN xs = 1 .. Len(xs)
  OBVIOUS
<1>2. /\ DOMAIN v = 1 .. Len(w) + Len(xs)
      /\ \A k \in 1 .. Len(w) : v[k] = w[k]
      /\ \A k \in Len(w) + 1 .. Len(w) + Len(xs) : v[k] = xs[k - Len(w)]
      /\ \A k \in 1 .. Len(xs) : v[Len(w) + k] = xs[k]
  OBVIOUS
<1> HIDE DEF v
<1>3. ASSUME NEW k \in DOMAIN v
      PROVE  \/ k \in 1 .. Len(w) /\ v[k] = w[k]
             \/ k - Len(w) \in 1 .. Len(xs) /\ v[k] = xs[k - Len(w)]
  BY <1>1, <1>2
<1>4. ASSUME NEW t
      PROVE  InWire(v, t) <=> InWire(w, t) \/ InWire(xs, t)
  <2>1. ASSUME NEW k \in DOMAIN v, v[k].type = t
        PROVE  InWire(w, t) \/ InWire(xs, t)
    BY <1>1, <1>3, <2>1 DEF InWire
  <2>2. ASSUME NEW k \in DOMAIN w, w[k].type = t
        PROVE  InWire(v, t)
    <3>1. k \in DOMAIN v /\ v[k] = w[k]
      BY <1>1, <1>2
    <3> QED
      BY <2>2, <3>1 DEF InWire
  <2>3. ASSUME NEW k \in DOMAIN xs, xs[k].type = t
        PROVE  InWire(v, t)
    <3>1. Len(w) + k \in DOMAIN v /\ v[Len(w) + k] = xs[k]
      BY <1>1, <1>2
    <3> QED
      BY <2>3, <3>1 DEF InWire
  <2> QED
    BY <2>1, <2>2, <2>3 DEF InWire
<1> QED
  BY <1>4 DEF v

\* The server may append answers of a rank that it has not reached yet, and
\* messages that are no answers.
LEMMA AppendInOrder ==
    ASSUME NEW w \in Seq(WireMessage), NEW xs \in Seq(WireMessage), NEW s,
           NEW r \in 0 .. 5, NEW q \in 0 .. 5, r <= q, NEW skip, NEW rep,
           WireInOrder(w, r), ShownInOrder(s, w, r, skip, rep),
           \A k \in 1 .. Len(xs) : xs[k].type \in AnswerTypes =>
               Rank(xs[k].type) > r /\ Rank(xs[k].type) <= q,
           \A k, l \in 1 .. Len(xs) :
               k < l /\ xs[k].type \in AnswerTypes /\ xs[l].type \in AnswerTypes
                   => Before(xs[k].type, xs[l].type)
    PROVE  /\ w \o xs \in Seq(WireMessage)
           /\ WireInOrder(w \o xs, q)
           /\ ShownInOrder(s, w \o xs, q, skip, rep)
<1> DEFINE v == w \o xs
<1>1. /\ Len(w) \in Nat /\ DOMAIN w = 1 .. Len(w)
      /\ Len(xs) \in Nat /\ DOMAIN xs = 1 .. Len(xs)
  OBVIOUS
<1>2. /\ v \in Seq(WireMessage) /\ DOMAIN v = 1 .. Len(w) + Len(xs)
      /\ \A k \in 1 .. Len(w) : v[k] = w[k]
      /\ \A k \in Len(w) + 1 .. Len(w) + Len(xs) : v[k] = xs[k - Len(w)]
      /\ \A k \in 1 .. Len(xs) : v[Len(w) + k] = xs[k]
  OBVIOUS
<1> HIDE DEF v
<1>3. ASSUME NEW k \in DOMAIN v
      PROVE  \/ k \in 1 .. Len(w) /\ v[k] = w[k]
             \/ k - Len(w) \in 1 .. Len(xs) /\ v[k] = xs[k - Len(w)] /\ k \notin 1 .. Len(w)
  BY <1>1, <1>2
<1>4. \A k \in 1 .. Len(w) : w[k].type \in AnswerTypes => Rank(w[k].type) <= r
  BY <1>1 DEF WireInOrder
<1>5. \A k \in DOMAIN v : v[k].type \in AnswerTypes =>
          /\ Rank(v[k].type) \in Int /\ Rank(v[k].type) <= q
          /\ k \in 1 .. Len(w) => Rank(v[k].type) <= r
          /\ k \notin 1 .. Len(w) => Rank(v[k].type) > r
  BY <1>3, <1>4, Ranks, SMTT(30)
<1>6. WireInOrder(v, q)
  <2>1. ASSUME NEW k \in DOMAIN v, NEW l \in DOMAIN v, k < l,
               v[k].type \in AnswerTypes, v[l].type \in AnswerTypes
        PROVE  Before(v[k].type, v[l].type)
    <3>1. CASE l \in 1 .. Len(w)
      <4>1. k \in 1 .. Len(w) /\ v[k] = w[k] /\ v[l] = w[l]
        BY <1>1, <1>2, <2>1, <3>1
      <4> QED
        BY <1>1, <2>1, <3>1, <4>1 DEF WireInOrder
    <3>2. CASE k \in 1 .. Len(w) /\ l \notin 1 .. Len(w)
      BY <1>5, <2>1, <3>2 DEF Before
    <3>3. CASE k \notin 1 .. Len(w)
      <4>1. l \notin 1 .. Len(w) /\ k - Len(w) < l - Len(w)
        BY <1>1, <1>2, <2>1, <3>3
      <4>2. /\ k - Len(w) \in 1 .. Len(xs) /\ v[k] = xs[k - Len(w)]
            /\ l - Len(w) \in 1 .. Len(xs) /\ v[l] = xs[l - Len(w)]
        BY <1>3, <3>3, <4>1
      <4> QED
        BY <2>1, <4>1, <4>2
    <3> QED
      BY <3>1, <3>2, <3>3
  <2> QED
    BY <1>5, <2>1 DEF WireInOrder
<1>7. ShownInOrder(s, v, q, skip, rep)
  <2>1. ASSUME NEW j \in DOMAIN s, NEW k \in DOMAIN v,
               v[k].type \in AnswerTypes, Forwards(v[k].type, skip, rep)
        PROVE  Before(s[j], v[k].type)
    BY <1>1, <1>3, <1>5, <2>1 DEF ShownInOrder
  <2>2. ASSUME NEW j \in DOMAIN s, NEW t \in AnswerTypes, Rank(t) > q, Forwards(t, skip, rep)
        PROVE  Before(s[j], t)
    <3>1. Rank(t) > r
      BY <2>2, Ranks
    <3> QED
      BY <2>2, <3>1 DEF ShownInOrder
  <2> QED
    BY <2>1, <2>2 DEF ShownInOrder
<1> QED
  BY <1>2, <1>6, <1>7 DEF v

\* The proxy takes the first message off the wire and shows it or drops it.
LEMMA TakeInOrder ==
    ASSUME NEW w \in Seq(WireMessage), w # <<>>, NEW s \in Seq(AnswerTypes),
           NEW r \in 0 .. 5, NEW skip, NEW rep,
           WireInOrder(w, r), ShownInOrder(s, w, r, skip, rep)
    PROVE  /\ Head(w) \in WireMessage /\ Tail(w) \in Seq(WireMessage)
           /\ WireInOrder(Tail(w), r)
           /\ ShownInOrder(s, Tail(w), r, skip, rep)
           /\ Head(w).type \in AnswerTypes \ {"Z"} /\ Forwards(Head(w).type, skip, rep)
                  => ShownInOrder(Append(s, Head(w).type), Tail(w), r, skip, rep)
           /\ Head(w).type \in AnswerTypes =>
                  /\ Rank(Head(w).type) <= r
                  /\ \A t \in AnswerTypes : InWire(Tail(w), t) => Before(Head(w).type, t)
           /\ \A t : InWire(w, t) <=> Head(w).type = t \/ InWire(Tail(w), t)
<1> DEFINE h == Head(w)
           v == Tail(w)
<1>1. Len(w) \in Nat /\ DOMAIN w = 1 .. Len(w) /\ Len(w) # 0
  OBVIOUS
<1>2. /\ h \in WireMessage /\ h = w[1] /\ v \in Seq(WireMessage)
      /\ DOMAIN v = 1 .. Len(w) - 1
      /\ \A k \in DOMAIN v : k + 1 \in DOMAIN w /\ v[k] = w[k + 1]
      /\ \A k \in DOMAIN w : k = 1 \/ (k - 1 \in DOMAIN v /\ v[k - 1] = w[k])
  BY <1>1
<1> HIDE DEF h, v
<1>3. WireInOrder(v, r)
  <2>1. ASSUME NEW k \in DOMAIN v, NEW l \in DOMAIN v, k < l,
               v[k].type \in AnswerTypes, v[l].type \in AnswerTypes
        PROVE  Before(v[k].type, v[l].type)
    <3>1. k + 1 < l + 1
      BY <1>1, <1>2, <2>1
    <3> QED
      BY <1>2, <2>1, <3>1 DEF WireInOrder
  <2> QED
    BY <1>2, <2>1 DEF WireInOrder
<1>4. ShownInOrder(s, v, r, skip, rep)
  BY <1>2 DEF ShownInOrder
<1>5. ASSUME h.type \in AnswerTypes
      PROVE  /\ Rank(h.type) <= r
             /\ \A k \in DOMAIN v : v[k].type \in AnswerTypes => Before(h.type, v[k].type)
  <2>1. 1 \in DOMAIN w /\ \A k \in DOMAIN v : 1 < k + 1
    BY <1>1, <1>2
  <2> QED
    BY <1>2, <1>5, <2>1 DEF WireInOrder
<1>6. ASSUME h.type \in AnswerTypes \ {"Z"}, Forwards(h.type, skip, rep)
      PROVE  ShownInOrder(Append(s, h.type), v, r, skip, rep)
  <2> DEFINE u == Append(s, h.type)
  <2>1. Len(s) \in Nat /\ DOMAIN s = 1 .. Len(s)
    OBVIOUS
  <2>2. /\ DOMAIN u = 1 .. Len(s) + 1
        /\ \A j \in DOMAIN u : \/ j \in DOMAIN s /\ u[j] = s[j]
                               \/ j = Len(s) + 1 /\ u[j] = h.type
    <3>1. h.type \in AnswerTypes
      BY <1>6
    <3>2. \A t \in AnswerTypes : /\ DOMAIN Append(s, t) = 1 .. Len(s) + 1
                                /\ \A j \in 1 .. Len(s) : Append(s, t)[j] = s[j]
                                /\ Append(s, t)[Len(s) + 1] = t
      BY <2>1
    <3>3. /\ DOMAIN u = 1 .. Len(s) + 1 /\ u[Len(s) + 1] = h.type
          /\ \A j \in 1 .. Len(s) : u[j] = s[j]
      BY <3>1, <3>2
    <3> HIDE DEF u
    <3>4. \A j \in 1 .. Len(s) + 1 : j \in 1 .. Len(s) \/ j = Len(s) + 1
      BY <2>1
    <3> QED
      BY <2>1, <3>3, <3>4
  <2> HIDE DEF u
  <2>3. ~InShown(u, "Z")
    BY <1>6, <2>2 DEF ShownInOrder, InShown
  <2>4. 1 \in DOMAIN w /\ w[1] = h
    BY <1>1, <1>2
  <2>5. \A j \in DOMAIN s : Before(s[j], h.type)
    BY <1>6, <2>4 DEF ShownInOrder
  <2>6. ASSUME NEW j \in DOMAIN u, NEW k \in DOMAIN u, j < k
        PROVE  Before(u[j], u[k])
    <3>1. j \in DOMAIN s /\ u[j] = s[j]
      BY <2>1, <2>2, <2>6
    <3> QED
      BY <2>2, <2>5, <2>6, <3>1 DEF ShownInOrder
  <2>7. ASSUME NEW j \in DOMAIN u, NEW k \in DOMAIN v,
               v[k].type \in AnswerTypes, Forwards(v[k].type, skip, rep)
        PROVE  Before(u[j], v[k].type)
    BY <1>4, <1>5, <1>6, <2>2, <2>7 DEF ShownInOrder
  <2>8. ASSUME NEW j \in DOMAIN u, NEW t \in AnswerTypes, Rank(t) > r, Forwards(t, skip, rep)
        PROVE  Before(u[j], t)
    <3>1. CASE j \in DOMAIN s /\ u[j] = s[j]
      BY <2>8, <3>1 DEF ShownInOrder
    <3>2. CASE u[j] = h.type
      BY <1>5, <1>6, <2>8, <3>2, Ranks DEF Before
    <3> QED
      BY <2>2, <3>1, <3>2
  <2> QED
    BY <2>3, <2>6, <2>7, <2>8 DEF ShownInOrder, u
<1>7. ASSUME NEW t
      PROVE  InWire(w, t) <=> h.type = t \/ InWire(v, t)
  <2>1. 1 \in DOMAIN w
    BY <1>1
  <2> QED
    BY <1>2, <2>1 DEF InWire
<1> QED
  BY <1>2, <1>3, <1>4, <1>5, <1>6, <1>7 DEF InWire, h, v

\* A wire with no answers on it is no obstacle to a new pipeline ...
LEMMA OpenInOrder ==
    ASSUME NEW w \in Seq(WireMessage), \A k \in DOMAIN w : w[k].type \in Asynchronous,
           NEW skip \in BOOLEAN, NEW s, s = IF skip THEN <<"1", "2">> ELSE <<>>
    PROVE  /\ WireInOrder(w, 0)
           /\ ShownInOrder(s, w, 0, skip, FALSE)
           /\ NothingMissing(s, w, 0, FALSE, skip, FALSE)
           /\ ErrorTracked(w, ZeroStatus, Unfailed)
<1>1. \A k \in DOMAIN w : w[k].type \notin AnswerTypes
  BY DEF Asynchronous, AnswerTypes
<1>2. \A t \in AnswerTypes : ~InWire(w, t)
  BY <1>1 DEF InWire
<1>3. /\ skip => /\ InShown(s, "1") /\ InShown(s, "2") /\ DOMAIN s = 1 .. 2
                 /\ s[1] = "1" /\ s[2] = "2"
      /\ ~skip => DOMAIN s = {}
  BY DEF InShown
<1>4. \A t \in {"Z", "C", "D", "E"} : ~InShown(s, t)
  BY <1>3 DEF InShown
<1>5. ~skip => ~InShown(s, "1") /\ ~InShown(s, "2")
  BY <1>3 DEF InShown
<1>6. \A j, k \in DOMAIN s : j < k => Before(s[j], s[k])
  BY <1>3, Ranks DEF Before
<1>7. \A j \in DOMAIN s, t \in AnswerTypes : Forwards(t, skip, FALSE) => Before(s[j], t)
  BY <1>3, Ranks DEF Before, Forwards, FilterBackendType, AnswerTypes
<1>8. ShownInOrder(s, w, 0, skip, FALSE)
  BY <1>1, <1>4, <1>6, <1>7 DEF ShownInOrder
<1>9. NothingMissing(s, w, 0, FALSE, skip, FALSE)
  BY <1>2, <1>3, <1>4, <1>5 DEF NothingMissing, Has, AnswerTypes
<1>10. ErrorTracked(w, ZeroStatus, Unfailed)
  BY <1>1, <1>2 DEF ErrorTracked, ZeroStatus, Unfailed, AnswerTypes
<1> QED
  BY <1>1, <1>8, <1>9, <1>10 DEF WireInOrder

\* ... nor to the rest of one that a send helper refused.
LEMMA RefuseInOrder ==
    ASSUME NEW w \in Seq(WireMessage), \A k \in DOMAIN w : w[k].type \in Asynchronous,
           NEW skip \in BOOLEAN, NEW s, s = IF skip THEN <<"1", "2">> ELSE <<>>,
           NEW r \in {0, 4}
    PROVE  /\ WireInOrder(w, r)
           /\ ShownInOrder(Append(s, "E"), w, r, skip, TRUE)
           /\ NothingMissing(Append(s, "E"), w, r, FALSE, skip, TRUE)
<1> DEFINE u == Append(s, "E")
<1>1. \A k \in DOMAIN w : w[k].type \notin AnswerTypes
  BY DEF Asynchronous, AnswerTypes
<1>2. /\ skip => DOMAIN u = 1 .. 3 /\ u[1] = "1" /\ u[2] = "2" /\ u[3] = "E"
      /\ ~skip => DOMAIN u = 1 .. 1 /\ u[1] = "E"
  OBVIOUS
<1> HIDE DEF u
<1>3. /\ InShown(u, "E") /\ ~InShown(u, "Z") /\ ~InShown(u, "C") /\ ~InShown(u, "D")
      /\ skip => InShown(u, "1") /\ InShown(u, "2")
      /\ ~skip => ~InShown(u, "2")
  BY <1>2 DEF InShown
<1>4. \A j, k \in DOMAIN u : j < k => Before(u[j], u[k])
  BY <1>2, Ranks DEF Before
<1>5. \A j \in DOMAIN u : Rank(u[j]) < 5
  BY <1>2, Ranks
<1>6. \A t : Forwards(t, skip, TRUE) => t = "Z"
  BY DEF Forwards
<1>7. \A j \in DOMAIN u, t \in AnswerTypes : Forwards(t, skip, TRUE) => Before(u[j], t)
  BY <1>5, <1>6, Ranks DEF Before
<1>8. ShownInOrder(u, w, r, skip, TRUE)
  BY <1>1, <1>3, <1>4, <1>7 DEF ShownInOrder
<1>9. NothingMissing(u, w, r, FALSE, skip, TRUE)
  BY <1>3 DEF NothingMissing
<1> QED
  BY <1>1, <1>8, <1>9 DEF WireInOrder, u

LEMMA PairUp ==
    ASSUME NEW x, NEW y
    PROVE  <<x>> \o <<y>> = <<x, y>>
<1> DEFINE S == {x, y}
           u == <<x>> \o <<y>>
           v == <<x, y>>
<1>1. u \in Seq(S) /\ v \in Seq(S) /\ Len(u) = 2 /\ Len(v) = 2
  OBVIOUS
<1>2. u[1] = x /\ u[2] = y /\ v[1] = x /\ v[2] = y
  OBVIOUS
<1> HIDE DEF u, v, S
<1>3. u = v
  BY <1>1, <1>2, SeqEqual
<1> QED
  BY <1>3 DEF u, v

LEMMA DropFirst ==
    ASSUME NEW S, NEW s \in Seq(S), NEW t \in Seq(S), Len(s) = Len(t) + 1,
           \A k \in 1 .. Len(t) : t[k] = s[k + 1]
    PROVE  SubSeq(s, 2, Len(s)) = t
<1> DEFINE u == SubSeq(s, 2, Len(s))
<1>1. Len(t) \in Nat /\ Len(s) \in Nat
  OBVIOUS
<1>2. u \in Seq(S) /\ Len(u) = Len(t) /\ \A k \in 1 .. Len(t) : u[k] = s[k + 1]
  BY <1>1
<1> HIDE DEF u
<1>3. u = t
  BY <1>2, SeqEqual
<1> QED
  BY <1>3 DEF u

\* What the server leaves of the output when it has read a message.
ReadOff(out, rest, n, rep) ==
    /\ out[1].type \in {"P", "B", "E", "S"} /\ out[1].text \in {n, 0}
    /\ out[1].type = "S" <=> rest = <<>>
    /\ out[1].type = "P" =>
           rest # <<>> /\ (IF rep THEN rest[1].type = "S" ELSE rest[1].type = "B")
    /\ out[1].type = "B" => rest # <<>> /\ rest[1].type = "E" /\ ~rep
    /\ out[1].type = "E" => rest # <<>> /\ rest[1].type = "S" /\ ~rep

LEMMA RemainingRead ==
    ASSUME NEW n, NEW rep, NEW out \in Remaining(n, rep), out # <<>>,
           NEW rest, rest = SubSeq(out, 2, Len(out))
    PROVE  rest \in Remaining(n, rep) /\ ReadOff(out, rest, n, rep)
<1> DEFINE p == Message("P", n)
           b == Message("B", n)
           e == Message("E", n)
           s == Message("S", 0)
<1>1. /\ p.type = "P" /\ b.type = "B" /\ e.type = "E" /\ s.type = "S"
      /\ p.text = n /\ b.text = n /\ e.text = n /\ s.text = 0
  BY DEF Message
<1>2. Remaining(n, rep) = IF rep THEN {<<p, s>>, <<s>>, <<>>}
                          ELSE {<<p, b, e, s>>, <<b, e, s>>, <<e, s>>, <<s>>, <<>>}
  BY DEF Remaining
<1> DEFINE All == {p, b, e, s}
<1> HIDE DEF p, b, e, s, All
<1>3. CASE out = <<p, b, e, s>>
  <2>1. rest = <<b, e, s>>
    <3> DEFINE t == <<b, e, s>>
    <3>1. out \in Seq(All) /\ t \in Seq(All) /\ Len(out) = Len(t) + 1
      BY <1>3 DEF All
    <3>2. \A k \in 1 .. Len(t) : t[k] = out[k + 1]
      BY <1>3
    <3> HIDE DEF t
    <3>3. rest = t
      BY <3>1, <3>2, DropFirst
    <3> QED
      BY <3>3 DEF t
  <2>2. out[1] = p /\ rest # <<>> /\ rest[1] = b
    BY <1>3, <2>1
  <2>3. rest \in Remaining(n, rep) /\ ~rep
    BY <1>1, <1>2, <1>3, <2>1
  <2> QED
    BY <1>1, <2>2, <2>3 DEF ReadOff
<1>4. CASE out = <<b, e, s>>
  <2>1. rest = <<e, s>>
    <3> DEFINE t == <<e, s>>
    <3>1. out \in Seq(All) /\ t \in Seq(All) /\ Len(out) = Len(t) + 1
      BY <1>4 DEF All
    <3>2. \A k \in 1 .. Len(t) : t[k] = out[k + 1]
      BY <1>4
    <3> HIDE DEF t
    <3>3. rest = t
      BY <3>1, <3>2, DropFirst
    <3> QED
      BY <3>3 DEF t
  <2>2. out[1] = b /\ rest # <<>> /\ rest[1] = e
    BY <1>4, <2>1
  <2>3. rest \in Remaining(n, rep) /\ ~rep
    BY <1>1, <1>2, <1>4, <2>1
  <2> QED
    BY <1>1, <2>2, <2>3 DEF ReadOff
<1>5. CASE out = <<e, s>>
  <2>1. rest = <<s>>
    <3> DEFINE t == <<s>>
    <3>1. out \in Seq(All) /\ t \in Seq(All) /\ Len(out) = Len(t) + 1
      BY <1>5 DEF All
    <3>2. \A k \in 1 .. Len(t) : t[k] = out[k + 1]
      BY <1>5
    <3> HIDE DEF t
    <3>3. rest = t
      BY <3>1, <3>2, DropFirst
    <3> QED
      BY <3>3 DEF t
  <2>2. out[1] = e /\ rest # <<>> /\ rest[1] = s
    BY <1>5, <2>1
  <2>3. rest \in Remaining(n, rep) /\ ~rep
    BY <1>1, <1>2, <1>5, <2>1
  <2> QED
    BY <1>1, <2>2, <2>3 DEF ReadOff
<1>6. CASE out = <<s>>
  <2>1. rest = <<>> /\ out[1] = s
    BY <1>6, SubSeqEmpty
  <2>2. rest \in Remaining(n, rep)
    BY <1>2, <2>1
  <2> QED
    BY <1>1, <2>1, <2>2 DEF ReadOff
<1>7. CASE out = <<p, s>>
  <2>1. rest = <<s>>
    <3> DEFINE t == <<s>>
    <3>1. out \in Seq(All) /\ t \in Seq(All) /\ Len(out) = Len(t) + 1
      BY <1>7 DEF All
    <3>2. \A k \in 1 .. Len(t) : t[k] = out[k + 1]
      BY <1>7
    <3> HIDE DEF t
    <3>3. rest = t
      BY <3>1, <3>2, DropFirst
    <3> QED
      BY <3>3 DEF t
  <2>2. out[1] = p /\ rest # <<>> /\ rest[1] = s
    BY <1>7, <2>1
  <2>3. rest \in Remaining(n, rep) /\ rep
    BY <1>1, <1>2, <1>7, <2>1
  <2> QED
    BY <1>1, <2>2, <2>3 DEF ReadOff
<1> QED
  BY <1>2, <1>3, <1>4, <1>5, <1>6, <1>7

-----------------------------------------------------------------------------
(* The steps.                                                              *)

LEMMA ZeroStatusType == ZeroStatus \in StatusType
BY DEF ZeroStatus, StatusType

LEMMA UnfailedType == Unfailed \in [failed : BOOLEAN, text : Nat]
BY DEF Unfailed

LEMMA ConversationInit == Init => Conversation
<1> SUFFICES ASSUME Init
             PROVE  Conversation
  OBVIOUS
<1>1. IsContext(backend) /\ backend.events = <<>> /\ backend.auth_state = "DONE"
      /\ backend.output = <<>>
  BY DEF Init, Connected, Create, IsContext
<1>2. peer \in PeerType /\ peer.wire = <<>> /\ ~peer.skipping /\ peer.error = Unfailed
  <2>1. peer = [wire |-> <<>>, skipping |-> FALSE, error |-> Unfailed]
    BY DEF Init
  <2>2. <<>> \in Seq(WireMessage)
    OBVIOUS
  <2>3. peer \in PeerType
    BY <2>1, <2>2, UnfailedType, Zenon DEF PeerType
  <2>4. peer.wire = <<>> /\ peer.error = Unfailed
    BY <2>1
  <2>5. ~peer.skipping
    BY <2>1
  <2> QED
    BY <2>3, <2>4, <2>5
<1>3. request.skip = FALSE /\ request.slot = 0 /\ ~reported /\ shown = <<>>
  BY DEF Init, NoRequest
<1>4. ConversationType
  <2>1. <<>> \in Seq(AnswerTypes) /\ 0 \in Nat /\ FALSE \in BOOLEAN
    OBVIOUS
  <2>2. stage = "idle" /\ turn = 1 /\ reported = FALSE /\ st = ZeroStatus
    BY DEF Init
  <2> QED
    BY <1>1, <1>2, <1>3, <2>1, <2>2, ZeroStatusType DEF ConversationType, Stages
<1>5. Quiet
  BY <1>1, <1>2, <1>3 DEF Quiet
<1> QED
  BY <1>4, <1>5 DEF Init, Conversation

\* Until a pipeline is sent, nothing of the conversation changes.
LEMMA QuietStep ==
    ASSUME Conversation, (\E r \in Requests : Receive(r)) \/ Inject \/ Reject \/ GiveUp
    PROVE  Conversation'
<1>1. CASE \E r \in Requests : Receive(r)
  <2>1. PICK r \in Requests : Receive(r)
    BY <1>1
  <2>2. r.skip \in BOOLEAN /\ r.slot \in Nat
    BY ProxyAssumption
  <2>3. /\ stage = "idle" /\ stage' = "inject" /\ request' = r
        /\ shown' = IF r.skip THEN <<"1", "2">> ELSE <<>>
        /\ turn' = 3 - turn
        /\ UNCHANGED <<backend, st, peer, reported>>
    BY <2>1 DEF Receive
  <2>4. <<"1", "2">> \in Seq(AnswerTypes) /\ <<>> \in Seq(AnswerTypes)
    BY DEF AnswerTypes
  <2>5. ConversationType'
    BY <2>2, <2>3, <2>4 DEF Conversation, ConversationType, Stages
  <2>6. Quiet'
    BY <2>3 DEF Conversation, Quiet
  <2> QED
    BY <2>3, <2>5, <2>6 DEF Conversation
<1>2. CASE Inject
  <2>1. /\ stage = "inject" /\ stage' \in {"inject", "failed", "built"}
        /\ UNCHANGED <<request, backend, st, peer, shown, reported, turn>>
    BY <1>2 DEF Inject
  <2>2. ConversationType' /\ Quiet'
    BY <2>1 DEF Conversation, ConversationType, Stages, Quiet
  <2> QED
    BY <2>1, <2>2 DEF Conversation
<1>3. CASE Reject
  <2>1. /\ stage = "inject" /\ stage' = "failed"
        /\ UNCHANGED <<request, backend, st, peer, shown, reported, turn>>
    BY <1>3 DEF Reject, requestVars
  <2>2. ConversationType' /\ Quiet'
    BY <2>1 DEF Conversation, ConversationType, Stages, Quiet
  <2> QED
    BY <2>1, <2>2 DEF Conversation
<1>4. CASE GiveUp
  <2>1. /\ stage = "failed" /\ stage' = "idle" /\ shown' = <<>> /\ request' = NoRequest
        /\ UNCHANGED <<backend, st, peer, reported, turn>>
    BY <1>4 DEF GiveUp
  <2>2. request'.skip = FALSE /\ request'.slot = 0
    BY <2>1 DEF NoRequest
  <2>3. <<>> \in Seq(AnswerTypes) /\ 0 \in Nat /\ FALSE \in BOOLEAN
    OBVIOUS
  <2>4. ConversationType'
    BY <2>1, <2>2, <2>3 DEF Conversation, ConversationType, Stages
  <2>5. Quiet'
    BY <2>1, <2>2 DEF Conversation, Quiet
  <2> QED
    BY <2>1, <2>4, <2>5 DEF Conversation
<1> QED
  BY <1>1, <1>2, <1>3, <1>4

\* A pipeline, or what is left of one, is sent on a quiet connection.
LEMMA OpenStep ==
    ASSUME Conversation,
           SendPipeline \/ SendPipelineRefused \/ SendRewritten \/ SendRewrittenRefused
    PROVE  Conversation'
<1> DEFINE all == Pipeline(turn)
           p == Message("P", turn)
           s == Message("S", 0)
<1>1. \E msgs \in {all, <<p, s>>, <<s>>} :
          /\ stage \in {"inject", "built"} /\ stage' = "sent"
          /\ backend' = SendAll(backend, msgs)
          /\ st' = ZeroStatus
          /\ UNCHANGED <<request, peer, turn>>
          /\ IF msgs = all THEN UNCHANGED <<shown, reported>>
             ELSE shown' = Append(shown, "E") /\ reported' = TRUE
  <2>1. /\ SubSeq(all, 1, 0) \o <<s>> = <<s>> /\ SubSeq(all, 1, 1) \o <<s>> = <<p, s>>
        /\ <<s>> # all /\ <<p, s>> # all
    <3> DEFINE S == {p, s} \cup {all[k] : k \in 1 .. 4}
               one == SubSeq(all, 1, 1)
    <3>1. /\ Len(all) = 4 /\ all[1] = p /\ \A k \in 1 .. 1 : all[k] \in S
          /\ Len(<<s>>) = 1 /\ Len(<<p, s>>) = 2
      BY DEF Pipeline
    <3> HIDE DEF all, p, s
    <3>2. SubSeq(all, 1, 0) = <<>> /\ <<>> \o <<s>> = <<s>>
      BY SubSeqEmpty
    <3>3. one \in Seq(S) /\ Len(one) = 1 /\ one[1] = p
      BY <3>1, SubSeqProperties
    <3>4. <<p>> \in Seq(S) /\ Len(<<p>>) = 1 /\ <<p>>[1] = p
      OBVIOUS
    <3> HIDE DEF one, S
    <3>5. one = <<p>>
      BY <3>3, <3>4, SeqEqual
    <3>6. one \o <<s>> = <<p, s>>
      BY <3>5, PairUp
    <3>7. <<s>> # all /\ <<p, s>> # all
      BY <3>1
    <3> QED
      BY <3>2, <3>6, <3>7 DEF one
  <2> HIDE DEF all, p, s
  <2>2. CASE SendPipeline
    BY <2>2 DEF SendPipeline, Dispatch, StatusInit, all
  <2>3. CASE SendPipelineRefused \/ SendRewrittenRefused
    <3>1. PICK n \in 0 .. 1 : Dispatch(SubSeq(all, 1, n) \o <<s>>, Nothing)
      BY <2>3 DEF SendPipelineRefused, SendRewrittenRefused, Refused, all, s
    <3>2. n = 0 \/ n = 1
      BY <3>1
    <3>3. /\ stage \in {"inject", "built"} /\ shown' = Append(shown, "E") /\ reported' = TRUE
      BY <2>3 DEF SendPipelineRefused, SendRewrittenRefused, Refused
    <3> QED
      BY <2>1, <3>1, <3>2, <3>3 DEF Dispatch, StatusInit
  <2>4. CASE SendRewritten
    BY <2>4 DEF SendRewritten, Dispatch, StatusInit, all
  <2> QED
    BY <2>2, <2>3, <2>4
<1>2. PICK msgs \in {all, <<p, s>>, <<s>>} :
          /\ stage \in {"inject", "built"} /\ stage' = "sent"
          /\ backend' = SendAll(backend, msgs)
          /\ st' = ZeroStatus
          /\ UNCHANGED <<request, peer, turn>>
          /\ IF msgs = all THEN UNCHANGED <<shown, reported>>
             ELSE shown' = Append(shown, "E") /\ reported' = TRUE
  BY <1>1
<1>3. ConversationType /\ Quiet
  BY <1>2 DEF Conversation
<1>4. /\ IsContext(backend') /\ backend'.output = msgs
      /\ backend'.auth_state = "DONE" /\ backend'.events = <<>>
  <2>1. /\ IsContext(backend') /\ backend'.output = backend.output \o msgs
        /\ backend'.auth_state = backend.auth_state /\ backend'.events = backend.events
    BY <1>2, <1>3, SendAllKeeps DEF ConversationType
  <2>2. <<>> \o msgs = msgs
    <3> HIDE DEF p, s
    <3> QED
      BY DEF Pipeline
  <2> QED
    BY <1>3, <2>1, <2>2 DEF ConversationType, Quiet
<1>5. /\ peer.wire \in Seq(WireMessage)
      /\ \A k \in DOMAIN peer.wire : peer.wire[k].type \in Asynchronous
      /\ request.skip \in BOOLEAN /\ shown = IF request.skip THEN <<"1", "2">> ELSE <<>>
      /\ peer.error = Unfailed /\ peer.skipping = FALSE
      /\ Unfailed.failed = FALSE /\ ~ZeroStatus.complete
      /\ shown \in Seq(AnswerTypes)
  BY <1>3 DEF ConversationType, Quiet, PeerType, Unfailed, ZeroStatus
<1>6. ConversationType'
  <2>1. shown' \in Seq(AnswerTypes)
    <3>1. "E" \in AnswerTypes
      BY DEF AnswerTypes
    <3>2. Append(shown, "E") \in Seq(AnswerTypes)
      BY <1>5, <3>1
    <3> QED
      BY <1>2, <1>5, <3>2
  <2>2. reported' \in BOOLEAN
    BY <1>2, <1>3 DEF ConversationType
  <2> QED
    BY <1>2, <1>3, <1>4, <2>1, <2>2, ZeroStatusType DEF ConversationType, Stages
<1>7. CASE msgs = all
  <2>1. shown' = shown /\ reported' = FALSE
    BY <1>2, <1>3, <1>7 DEF ConversationType, Quiet
  <2>2. all \in Remaining(turn, FALSE) /\ all # <<>> /\ all[1].type = "P"
    BY DEF Pipeline, Remaining, Message
  <2>3. Reach(all, FALSE) = 0
    BY <2>2 DEF Reach
  <2> HIDE DEF all
  <2>4. Reached' = 0 /\ peer'.skipping = FALSE
    BY <1>2, <1>4, <1>5, <1>7, <2>3 DEF Reached
  <2>5. /\ WireInOrder(peer.wire, 0)
        /\ ShownInOrder(shown, peer.wire, 0, request.skip, FALSE)
        /\ NothingMissing(shown, peer.wire, 0, FALSE, request.skip, FALSE)
        /\ ErrorTracked(peer.wire, ZeroStatus, Unfailed)
    BY <1>5, OpenInOrder
  <2>6. Talking'
    BY <1>2, <1>4, <1>5, <1>7, <2>1, <2>2, <2>4, <2>5 DEF Talking
  <2> QED
    BY <1>2, <1>6, <2>6 DEF Conversation
<1>8. CASE msgs # all
  <2>1. shown' = Append(shown, "E") /\ reported' = TRUE
    BY <1>2, <1>8
  <2>2. msgs = <<p, s>> \/ msgs = <<s>>
    BY <1>2, <1>8
  <2>3. msgs \in Remaining(turn, TRUE) /\ msgs # <<>> /\ msgs[1].type \in {"P", "S"}
    BY <2>2 DEF Remaining, Message
  <2>4. Reach(msgs, FALSE) \in {0, 4}
    BY <2>3 DEF Reach
  <2> HIDE DEF p, s
  <2>5. Reached' \in {0, 4} /\ peer'.skipping = FALSE
    BY <1>2, <1>4, <1>5, <2>4 DEF Reached
  <2>6. PICK r \in {0, 4} : Reached' = r
    BY <2>5
  <2>7. /\ WireInOrder(peer.wire, r)
        /\ ShownInOrder(Append(shown, "E"), peer.wire, r, request.skip, TRUE)
        /\ NothingMissing(Append(shown, "E"), peer.wire, r, FALSE, request.skip, TRUE)
    BY <1>5, RefuseInOrder
  <2>8. ErrorTracked(peer.wire, ZeroStatus, Unfailed)
    BY <1>5, OpenInOrder
  <2>9. Talking'
    BY <1>2, <1>4, <1>5, <2>1, <2>3, <2>5, <2>6, <2>7, <2>8 DEF Talking
  <2> QED
    BY <1>2, <1>6, <2>9 DEF Conversation
<1> QED
  BY <1>7, <1>8

\* Clearing the parameters leaves the conversation alone.
LEMMA ClearStep ==
    ASSUME Conversation, ClearParams
    PROVE  Conversation'
<1>1. /\ stage = "sent" /\ stage' = "drain"
      /\ request' = [NoRequest EXCEPT !.skip = request.skip]
      /\ UNCHANGED <<backend, st, peer, shown, reported, turn>>
  BY DEF ClearParams
<1>2. request'.skip = request.skip /\ request'.slot = 0
  BY <1>1 DEF NoRequest
<1>3. ConversationType'
  BY <1>1, <1>2 DEF Conversation, ConversationType, Stages
<1>4. Talking'
  BY <1>1, <1>2 DEF Conversation, Talking, Reached
<1> QED
  BY <1>1, <1>3, <1>4 DEF Conversation

\* Answers other than an error leave it to the status and the wire before them.
LEMMA AppendTracked ==
    ASSUME NEW w \in Seq(WireMessage), NEW xs \in Seq(WireMessage), NEW status, NEW error,
           ErrorTracked(w, status, error), ~InWire(xs, "E")
    PROVE  ErrorTracked(w \o xs, status, error)
<1> DEFINE v == w \o xs
<1>1. ASSUME NEW k \in DOMAIN v, v[k].type = "E"
      PROVE  k \in DOMAIN w /\ v[k] = w[k]
  <2>1. \/ k \in DOMAIN w /\ v[k] = w[k]
        \/ k - Len(w) \in DOMAIN xs /\ v[k] = xs[k - Len(w)]
    OBVIOUS
  <2> QED
    BY <1>1, <2>1 DEF InWire
<1>2. InWire(v, "E") <=> InWire(w, "E")
  BY InWireGrows
<1> HIDE DEF v
<1>3. ErrorTracked(v, status, error)
  BY <1>1, <1>2 DEF ErrorTracked
<1> QED
  BY <1>3 DEF v

\* A first error becomes the one that the status will report.
LEMMA FailTracked ==
    ASSUME NEW w \in Seq(WireMessage), NEW m \in WireMessage, m.type = "E",
           NEW text, text = (IF m.ok THEN m.text ELSE 0),
           NEW status, NEW error, ErrorTracked(w, status, error), ~error.failed
    PROVE  ErrorTracked(w \o <<m>>, status, [failed |-> TRUE, text |-> text])
<1> DEFINE v == w \o <<m>>
           new == [failed |-> TRUE, text |-> text]
<1>1. ~status.saw_error /\ ~InWire(w, "E") /\ status.last_error = 0
  BY DEF ErrorTracked
<1>2. \A k \in DOMAIN v : \/ k \in DOMAIN w /\ v[k] = w[k]
                          \/ v[k] = m
  OBVIOUS
<1>3. Len(w) + 1 \in DOMAIN v /\ v[Len(w) + 1] = m
  OBVIOUS
<1>4. new.failed = TRUE /\ new.text = text
  OBVIOUS
<1> HIDE DEF v, new
<1>5. InWire(v, "E") /\ \A k \in DOMAIN v : v[k].type = "E" => v[k] = m
  BY <1>1, <1>2, <1>3 DEF InWire
<1>6. ErrorTracked(v, status, new)
  BY <1>1, <1>4, <1>5 DEF ErrorTracked
<1> QED
  BY <1>6 DEF v, new

\* Messages that answer nothing change nothing, wherever they arrive.
LEMMA NotifyStep ==
    ASSUME Conversation, ServerNotifies
    PROVE  Conversation'
<1>1. /\ stage \in {"drain", "done"}
      /\ UNCHANGED <<stage, request, backend, st, shown, reported, turn>>
  BY DEF ServerNotifies, requestVars
<1>2. PICK type \in Asynchronous : peer' = [peer EXCEPT !.wire = Append(@, Message(type, 0))]
  BY DEF ServerNotifies
<1> DEFINE m == Message(type, 0)
<1>3. m \in WireMessage /\ m.type \in Asynchronous
  BY DEF Message, WireMessage
<1> HIDE DEF m
<1>4. ConversationType /\ peer \in PeerType /\ peer.wire \in Seq(WireMessage)
  BY DEF Conversation, ConversationType, PeerType
<1>5. /\ peer' \in PeerType /\ peer'.wire = peer.wire \o <<m>>
      /\ peer'.skipping = peer.skipping /\ peer'.error = peer.error
  <2>1. peer' = [peer EXCEPT !.wire = Append(@, m)]
    BY <1>2 DEF m
  <2>2. Append(peer.wire, m) = peer.wire \o <<m>> /\ Append(peer.wire, m) \in Seq(WireMessage)
    BY <1>3, <1>4
  <2> QED
    BY <1>4, <2>1, <2>2 DEF PeerType
<1>6. ConversationType'
  BY <1>1, <1>4, <1>5 DEF ConversationType
<1>7. CASE stage = "drain"
  <2> DEFINE w == peer.wire
             xs == <<m>>
  <2>1. Talking /\ Reached' = Reached
    BY <1>1, <1>5, <1>7 DEF Conversation, Reached
  <2>2. xs \in Seq(WireMessage) /\ \A k \in DOMAIN xs : xs[k].type \in Asynchronous
    BY <1>3
  <2>3. \A k \in DOMAIN xs : xs[k].type \notin AnswerTypes
    BY <2>2 DEF Asynchronous, AnswerTypes
  <2> HIDE DEF xs
  <2>4. /\ WireInOrder(w \o xs, Reached)
        /\ ShownInOrder(shown, w \o xs, Reached, request.skip, reported)
    <3>1. Reached \in 0 .. 5 /\ Reached <= Reached
      BY ReachType DEF Reached
    <3>2. \A k \in 1 .. Len(xs) : xs[k].type \notin AnswerTypes
      BY <2>2, <2>3
    <3>3. WireInOrder(w, Reached) /\ ShownInOrder(shown, w, Reached, request.skip, reported)
      BY <2>1 DEF Talking
    <3> QED
      BY <1>4, <2>2, <3>1, <3>2, <3>3, AppendInOrder
  <2>5. \A t \in AnswerTypes : InWire(w \o xs, t) <=> InWire(w, t)
    <3>1. \A t \in AnswerTypes : ~InWire(xs, t)
      BY <2>3 DEF InWire
    <3> QED
      BY <1>4, <2>2, <3>1, InWireGrows
  <2>6. ErrorTracked(w \o xs, st, peer.error)
    BY <1>4, <2>1, <2>2, <2>3, AppendTracked DEF Talking, InWire, AnswerTypes
  <2>7. NothingMissing(shown, w \o xs, Reached, peer.skipping, request.skip, reported)
    BY <2>1, <2>5 DEF Talking, NothingMissing, Has, AnswerTypes
  <2>8. peer'.wire = w \o xs
    BY <1>5 DEF xs
  <2>9. Talking'
    BY <1>1, <1>5, <2>1, <2>4, <2>6, <2>7, <2>8 DEF Talking
  <2> QED
    BY <1>1, <1>6, <1>7, <2>9 DEF Conversation
<1>8. CASE stage = "done"
  <2>1. CompleteMeansClean /\ ErrorReported /\ AnswerLegal
    BY <1>8 DEF Conversation
  <2>2. \A k \in DOMAIN peer'.wire : \/ k \in DOMAIN peer.wire /\ peer'.wire[k] = peer.wire[k]
                                     \/ peer'.wire[k] = m
    BY <1>4, <1>5
  <2>3. CompleteMeansClean'
    BY <1>1, <1>3, <1>5, <1>8, <2>1, <2>2 DEF CompleteMeansClean
  <2>4. ErrorReported' /\ AnswerLegal'
    BY <1>1, <1>5, <2>1 DEF ErrorReported, AnswerLegal
  <2> QED
    BY <1>1, <1>6, <1>8, <2>3, <2>4 DEF Conversation
<1> QED
  BY <1>1, <1>7, <1>8

LEMMA MessageTypes ==
    ASSUME NEW type, NEW text
    PROVE  /\ Message(type, text).type = type /\ Message(type, text).text = text
           /\ Message(type, text).ok = TRUE
           /\ Malformed(type).type = type /\ Malformed(type).text = 0
           /\ Malformed(type).ok = FALSE
           /\ type \in AnswerTypes /\ text \in Nat => Message(type, text) \in WireMessage
           /\ type \in AnswerTypes => Malformed(type) \in WireMessage
BY DEF Message, Malformed, WireMessage

\* A sequence of one answer.
LEMMA OneAnswer ==
    ASSUME NEW m \in WireMessage
    PROVE  /\ <<m>> \in Seq(WireMessage) /\ Len(<<m>>) = 1 /\ <<m>>[1] = m
           /\ \A t : InWire(<<m>>, t) <=> t = m.type
BY DEF InWire

\* What an Execute that succeeds is answered with.
LEMMA RowsAnswer ==
    ASSUME NEW rows \in Rows, NEW text \in Nat, NEW xs, xs = Append(rows, Message("C", text))
    PROVE  /\ xs \in Seq(WireMessage) /\ InWire(xs, "C")
           /\ \A k \in 1 .. Len(xs) : xs[k].type \in {"D", "C"}
           /\ \A k, l \in 1 .. Len(xs) : k < l => xs[k].type = "D"
           /\ \A t : InWire(xs, t) => t \in {"D", "C"}
<1> DEFINE d == Message("D", 0)
           h == Message("D", Huge)
<1>1. d \in WireMessage /\ d.type = "D" /\ h \in WireMessage /\ h.type = "D"
  BY MessageTypes DEF AnswerTypes, Huge
<1>2. rows \in Seq(WireMessage) /\ \A k \in 1 .. Len(rows) : rows[k].type = "D"
  <2>1. rows \in {<<>>, <<d>>, <<h, d>>}
    BY DEF Rows
  <2> HIDE DEF d, h
  <2>2. CASE rows = <<>>
    BY <2>2
  <2>3. CASE rows = <<d>>
    BY <1>1, <2>3
  <2>4. CASE rows = <<h, d>>
    BY <1>1, <2>4
  <2> QED
    BY <2>1, <2>2, <2>3, <2>4
<1> DEFINE c == Message("C", text)
<1>3. c \in WireMessage /\ c.type = "C"
  BY MessageTypes DEF AnswerTypes
<1> HIDE DEF c
<1>4. /\ xs \in Seq(WireMessage) /\ Len(rows) \in Nat /\ Len(xs) = Len(rows) + 1
      /\ xs[Len(rows) + 1] = c /\ \A k \in 1 .. Len(rows) : xs[k] = rows[k]
  BY <1>2, <1>3 DEF c
<1>5. \A k \in 1 .. Len(xs) : k \in 1 .. Len(rows) \/ k = Len(rows) + 1
  BY <1>4
<1>6. \A k, l \in 1 .. Len(xs) : k < l => k \in 1 .. Len(rows)
  BY <1>4
<1>7. DOMAIN xs = 1 .. Len(xs) /\ Len(rows) + 1 \in 1 .. Len(xs)
  BY <1>4
<1> QED
  BY <1>2, <1>3, <1>4, <1>5, <1>6, <1>7 DEF InWire

LEMMA AnswerShape ==
    ASSUME peer \in PeerType, NEW msgs \in Seq(WireMessage),
           NEW error \in [failed : BOOLEAN, text : Nat], Answer(msgs, error)
    PROVE  /\ peer' \in PeerType /\ peer'.wire = peer.wire \o msgs
           /\ peer'.skipping = error.failed
           /\ peer'.error = IF error.failed THEN error ELSE peer.error
<1>1. peer' = [peer EXCEPT !.wire = peer.wire \o msgs,
                           !.skipping = error.failed,
                           !.error = IF error.failed THEN error ELSE peer.error]
  BY DEF Answer
<1>2. peer.wire \o msgs \in Seq(WireMessage) /\ error.failed \in BOOLEAN
  BY DEF PeerType
<1>3. (IF error.failed THEN error ELSE peer.error) \in [failed : BOOLEAN, text : Nat]
  BY DEF PeerType
<1> QED
  BY <1>1, <1>2, <1>3 DEF PeerType

\* What an answer of the server does to the conversation, whichever it is.
LEMMA AnswerKeeps ==
    ASSUME ConversationType, stage = "drain", Talking, backend.output # <<>>,
           backend' = TakeOutput(backend, 1),
           UNCHANGED <<stage, request, st, shown, reported, turn>>,
           peer' \in PeerType, NEW xs \in Seq(WireMessage), peer'.wire = peer.wire \o xs,
           Reached <= Reached',
           \A k \in 1 .. Len(xs) : xs[k].type \in AnswerTypes =>
               Rank(xs[k].type) > Reached /\ Rank(xs[k].type) <= Reached',
           \A k, l \in 1 .. Len(xs) :
               k < l /\ xs[k].type \in AnswerTypes /\ xs[l].type \in AnswerTypes
                   => Before(xs[k].type, xs[l].type),
           backend'.output = <<>> => ~peer'.skipping,
           backend'.output # <<>> => peer'.error.failed = peer'.skipping,
           ErrorTracked(peer'.wire, st, peer'.error),
           NothingMissing(shown, peer'.wire, Reached', peer'.skipping,
                          request.skip, reported)
    PROVE  Conversation'
<1>1. /\ IsContext(backend') /\ backend'.auth_state = "DONE" /\ backend'.events = <<>>
      /\ backend'.output = SubSeq(backend.output, 2, Len(backend.output))
  BY TakeOutputKeeps DEF ConversationType
<1>2. ConversationType'
  BY <1>1 DEF ConversationType
<1>3. backend'.output \in Remaining(turn, reported)
  BY <1>1, RemainingRead DEF Talking, ConversationType
<1>4. PICK r \in 0 .. 5, q \in 0 .. 5 : r = Reached /\ q = Reached'
  BY ReachType DEF Reached
<1>5. peer.wire \in Seq(WireMessage)
  BY DEF ConversationType, PeerType
<1>6. /\ WireInOrder(peer.wire \o xs, q)
      /\ ShownInOrder(shown, peer.wire \o xs, q, request.skip, reported)
  <2>1. WireInOrder(peer.wire, r) /\ ShownInOrder(shown, peer.wire, r, request.skip, reported)
    BY <1>4 DEF Talking
  <2>2. r <= q
    BY <1>4
  <2>3. \A k \in 1 .. Len(xs) : xs[k].type \in AnswerTypes =>
            Rank(xs[k].type) > r /\ Rank(xs[k].type) <= q
    BY <1>4
  <2> QED
    BY <1>5, <2>1, <2>2, <2>3, AppendInOrder
<1>7. Talking'
  BY <1>3, <1>4, <1>6 DEF Talking
<1> QED
  BY <1>2, <1>7 DEF Conversation

\* The server reads a message of the pipeline.
LEMMA AnswerStep ==
    ASSUME Conversation, ServerAnswers
    PROVE  Conversation'
<1> DEFINE m == backend.output[1]
<1>1. /\ stage = "drain" /\ backend.output # <<>> /\ backend' = TakeOutput(backend, 1)
      /\ UNCHANGED <<stage, request, st, shown, reported, turn>>
  BY DEF ServerAnswers, requestVars
<1>2. /\ ConversationType /\ Talking /\ peer \in PeerType /\ peer.wire \in Seq(WireMessage)
      /\ peer.skipping \in BOOLEAN /\ reported \in BOOLEAN /\ turn \in {1, 2}
      /\ peer.error \in [failed : BOOLEAN, text : Nat]
  BY <1>1 DEF Conversation, ConversationType, PeerType
<1>3. Head(backend.output) = m
  OBVIOUS
<1>4. /\ m.type \in {"P", "B", "E", "S"} /\ m.text \in Nat
      /\ m.type = "S" <=> backend'.output = <<>>
      /\ m.type = "P" => /\ backend'.output # <<>>
                         /\ IF reported THEN backend'.output[1].type = "S"
                            ELSE backend'.output[1].type = "B"
      /\ m.type = "B" => /\ backend'.output # <<>>
                         /\ backend'.output[1].type = "E" /\ ~reported
      /\ m.type = "E" => /\ backend'.output # <<>>
                         /\ backend'.output[1].type = "S" /\ ~reported
  <2>1. IsContext(backend) /\ backend.output \in Remaining(turn, reported)
    BY <1>2 DEF ConversationType, Talking
  <2>2. backend'.output = SubSeq(backend.output, 2, Len(backend.output))
    BY <1>1, <2>1, TakeOutputKeeps
  <2>3. PICK out, rest : out = backend.output /\ rest = backend'.output
    OBVIOUS
  <2>4. out \in Remaining(turn, reported) /\ out # <<>> /\ rest = SubSeq(out, 2, Len(out))
    BY <1>1, <2>1, <2>2, <2>3
  <2>5. ReadOff(out, rest, turn, reported)
    BY <2>4, RemainingRead
  <2>6. out[1].text \in Nat
    BY <1>2, <2>5 DEF ReadOff
  <2> QED
    BY <2>3, <2>5, <2>6 DEF ReadOff
<1>5. /\ ErrorTracked(peer.wire, st, peer.error)
      /\ NothingMissing(shown, peer.wire, Reached, peer.skipping, request.skip, reported)
      /\ peer.error.failed = peer.skipping
  BY <1>1, <1>2 DEF Talking
<1>6. Reached = IF peer.skipping THEN 4
                ELSE CASE m.type = "P" -> 0 [] m.type = "B" -> 1
                       [] m.type = "E" -> 2 [] OTHER -> 4
  BY <1>1 DEF Reached, Reach
<1>7. Reached' = IF peer'.skipping THEN 4
                 ELSE IF backend'.output = <<>> THEN 5
                 ELSE CASE backend'.output[1].type = "P" -> 0
                        [] backend'.output[1].type = "B" -> 1
                        [] backend'.output[1].type = "E" -> 2 [] OTHER -> 4
  BY DEF Reached, Reach
<1>8. Unfailed.failed = FALSE /\ Unfailed \in [failed : BOOLEAN, text : Nat]
  BY UnfailedType DEF Unfailed
<1>9. \/ m.type = "S" /\ Answer(<<Message("Z", 0)>>, Unfailed)
      \/ m.type # "S" /\ peer.skipping /\ UNCHANGED peer
      \/ ~peer.skipping /\ m.type = "P" /\ Answer(<<Message("1", 0)>>, Unfailed)
      \/ ~peer.skipping /\ m.type = "B" /\ Answer(<<Message("2", 0)>>, Unfailed)
      \/ /\ ~peer.skipping /\ m.type = "E"
         /\ \E rows \in Rows : Answer(Append(rows, Message("C", m.text)), Unfailed)
      \/ /\ ~peer.skipping /\ m.type # "S"
         /\ \E e \in {Message("E", m.text), Malformed("E")} :
                Answer(<<e>>, [failed |-> TRUE, text |-> e.text])
  BY <1>3 DEF ServerAnswers
<1> HIDE DEF m
\* The Sync: ReadyForQuery.
<1>10. CASE m.type = "S" /\ Answer(<<Message("Z", 0)>>, Unfailed)
  <2> DEFINE a == Message("Z", 0)
             xs == <<a>>
  <2>1. a \in WireMessage /\ a.type = "Z"
    BY MessageTypes DEF AnswerTypes
  <2>2. Answer(xs, Unfailed)
    BY <1>10
  <2> HIDE DEF a
  <2>3. /\ xs \in Seq(WireMessage) /\ \A t : InWire(xs, t) <=> t = "Z"
        /\ \A k \in 1 .. Len(xs) : k = 1 /\ xs[k].type = "Z"
    BY <2>1, OneAnswer
  <2> HIDE DEF xs
  <2>4. /\ peer' \in PeerType /\ peer'.wire = peer.wire \o xs
        /\ peer'.skipping = FALSE /\ peer'.error = peer.error
    BY <1>2, <1>8, <2>2, <2>3, AnswerShape
  <2>5. Reached = 4 /\ Reached' = 5 /\ backend'.output = <<>>
    BY <1>2, <1>4, <1>6, <1>7, <1>10, <2>4
  <2>6. \A t : InWire(peer'.wire, t) <=> InWire(peer.wire, t) \/ t = "Z"
    BY <1>2, <2>3, <2>4, InWireGrows
  <2>7. NothingMissing(shown, peer'.wire, Reached', peer'.skipping, request.skip, reported)
    BY <1>5, <2>4, <2>5, <2>6 DEF NothingMissing, Has
  <2>8. ErrorTracked(peer'.wire, st, peer'.error)
    BY <1>2, <1>5, <2>3, <2>4, AppendTracked
  <2>9. /\ Reached <= Reached'
        /\ \A k \in 1 .. Len(xs) : Rank(xs[k].type) > Reached /\ Rank(xs[k].type) <= Reached'
        /\ \A k, l \in 1 .. Len(xs) : ~(k < l)
    BY <2>3, <2>5, Ranks
  <2> QED
    BY <1>1, <1>2, <2>3, <2>4, <2>5, <2>7, <2>8, <2>9, AnswerKeeps
\* After a failure the server ignores what comes before the Sync.
<1>11. CASE m.type # "S" /\ peer.skipping /\ UNCHANGED peer
  <2>1. Reached = 4 /\ Reached' = 4 /\ backend'.output # <<>>
    BY <1>2, <1>4, <1>6, <1>7, <1>11
  <2>2. PICK xs \in Seq(WireMessage) : xs = <<>>
    <3>1. <<>> \in Seq(WireMessage)
      OBVIOUS
    <3> QED
      BY <3>1
  <2>3. peer'.wire = peer.wire \o xs /\ Len(xs) = 0
    BY <1>2, <1>11, <2>2
  <2>4. NothingMissing(shown, peer'.wire, Reached', peer'.skipping, request.skip, reported)
    BY <1>5, <1>11, <2>1
  <2>5. /\ ErrorTracked(peer'.wire, st, peer'.error) /\ peer' \in PeerType
        /\ peer'.error.failed = peer'.skipping
    BY <1>2, <1>5, <1>11
  <2>6. Reached <= Reached' /\ 1 .. Len(xs) = {}
    BY <2>1, <2>3
  <2> QED
    BY <1>1, <1>2, <2>1, <2>3, <2>4, <2>5, <2>6, AnswerKeeps
\* The Parse: ParseComplete.
<1>12. CASE ~peer.skipping /\ m.type = "P" /\ Answer(<<Message("1", 0)>>, Unfailed)
  <2> DEFINE a == Message("1", 0)
             xs == <<a>>
  <2>1. a \in WireMessage /\ a.type = "1"
    BY MessageTypes DEF AnswerTypes
  <2>2. Answer(xs, Unfailed)
    BY <1>12
  <2> HIDE DEF a
  <2>3. /\ xs \in Seq(WireMessage) /\ \A t : InWire(xs, t) <=> t = "1"
        /\ \A k \in 1 .. Len(xs) : k = 1 /\ xs[k].type = "1"
    BY <2>1, OneAnswer
  <2> HIDE DEF xs
  <2>4. /\ peer' \in PeerType /\ peer'.wire = peer.wire \o xs
        /\ peer'.skipping = FALSE /\ peer'.error = peer.error
    BY <1>2, <1>8, <2>2, <2>3, AnswerShape
  <2>5. Reached = 0 /\ Reached' = (IF reported THEN 4 ELSE 1) /\ backend'.output # <<>>
    BY <1>2, <1>4, <1>6, <1>7, <1>12, <2>4
  <2>6. \A t : InWire(peer'.wire, t) <=> InWire(peer.wire, t) \/ t = "1"
    BY <1>2, <2>3, <2>4, InWireGrows
  <2>7. NothingMissing(shown, peer'.wire, Reached', peer'.skipping, request.skip, reported)
    BY <1>5, <1>12, <2>4, <2>5, <2>6 DEF NothingMissing, Has
  <2>8. ErrorTracked(peer'.wire, st, peer'.error)
    BY <1>2, <1>5, <2>3, <2>4, AppendTracked
  <2>9. /\ Reached <= Reached'
        /\ \A k \in 1 .. Len(xs) : Rank(xs[k].type) > Reached /\ Rank(xs[k].type) <= Reached'
        /\ \A k, l \in 1 .. Len(xs) : ~(k < l)
    BY <2>3, <2>5, Ranks
  <2>10. peer'.error.failed = peer'.skipping
    BY <1>2, <1>5, <1>12, <2>4
  <2> QED
    BY <1>1, <1>2, <2>3, <2>4, <2>5, <2>7, <2>8, <2>9, <2>10, AnswerKeeps
\* The Bind: BindComplete.
<1>13. CASE ~peer.skipping /\ m.type = "B" /\ Answer(<<Message("2", 0)>>, Unfailed)
  <2> DEFINE a == Message("2", 0)
             xs == <<a>>
  <2>1. a \in WireMessage /\ a.type = "2"
    BY MessageTypes DEF AnswerTypes
  <2>2. Answer(xs, Unfailed)
    BY <1>13
  <2> HIDE DEF a
  <2>3. /\ xs \in Seq(WireMessage) /\ \A t : InWire(xs, t) <=> t = "2"
        /\ \A k \in 1 .. Len(xs) : k = 1 /\ xs[k].type = "2"
    BY <2>1, OneAnswer
  <2> HIDE DEF xs
  <2>4. /\ peer' \in PeerType /\ peer'.wire = peer.wire \o xs
        /\ peer'.skipping = FALSE /\ peer'.error = peer.error
    BY <1>2, <1>8, <2>2, <2>3, AnswerShape
  <2>5. Reached = 1 /\ Reached' = 2 /\ ~reported /\ backend'.output # <<>>
    BY <1>2, <1>4, <1>6, <1>7, <1>13, <2>4
  <2>6. \A t : InWire(peer'.wire, t) <=> InWire(peer.wire, t) \/ t = "2"
    BY <1>2, <2>3, <2>4, InWireGrows
  <2>7. NothingMissing(shown, peer'.wire, Reached', peer'.skipping, request.skip, reported)
    BY <1>5, <1>13, <2>4, <2>5, <2>6 DEF NothingMissing, Has
  <2>8. ErrorTracked(peer'.wire, st, peer'.error)
    BY <1>2, <1>5, <2>3, <2>4, AppendTracked
  <2>9. /\ Reached <= Reached'
        /\ \A k \in 1 .. Len(xs) : Rank(xs[k].type) > Reached /\ Rank(xs[k].type) <= Reached'
        /\ \A k, l \in 1 .. Len(xs) : ~(k < l)
    BY <2>3, <2>5, Ranks
  <2>10. peer'.error.failed = peer'.skipping
    BY <1>2, <1>5, <1>13, <2>4
  <2> QED
    BY <1>1, <1>2, <2>3, <2>4, <2>5, <2>7, <2>8, <2>9, <2>10, AnswerKeeps
\* The Execute: rows and CommandComplete.
<1>14. CASE /\ ~peer.skipping /\ m.type = "E"
            /\ \E rows \in Rows : Answer(Append(rows, Message("C", m.text)), Unfailed)
  <2>1. PICK rows \in Rows : Answer(Append(rows, Message("C", m.text)), Unfailed)
    BY <1>14
  <2>2. PICK xs : xs = Append(rows, Message("C", m.text))
    OBVIOUS
  <2>3. /\ xs \in Seq(WireMessage) /\ InWire(xs, "C")
        /\ \A k \in 1 .. Len(xs) : xs[k].type \in {"D", "C"}
        /\ \A k, l \in 1 .. Len(xs) : k < l => xs[k].type = "D"
        /\ \A t : InWire(xs, t) => t \in {"D", "C"}
    <3>1. PICK text \in Nat : text = m.text
      BY <1>4
    <3>2. xs = Append(rows, Message("C", text))
      BY <2>2, <3>1
    <3> QED
      BY <3>2, RowsAnswer
  <2>4. /\ peer' \in PeerType /\ peer'.wire = peer.wire \o xs
        /\ peer'.skipping = FALSE /\ peer'.error = peer.error
    BY <1>2, <1>8, <2>1, <2>2, <2>3, AnswerShape
  <2>5. Reached = 2 /\ Reached' = 4 /\ backend'.output # <<>> /\ ~reported
    BY <1>2, <1>4, <1>6, <1>7, <1>14, <2>4
  <2>6. \A t : InWire(peer'.wire, t) <=> InWire(peer.wire, t) \/ InWire(xs, t)
    BY <1>2, <2>3, <2>4, InWireGrows
  <2>7. NothingMissing(shown, peer'.wire, Reached', peer'.skipping, request.skip, reported)
    BY <1>5, <1>14, <2>3, <2>4, <2>5, <2>6 DEF NothingMissing, Has
  <2>8. ErrorTracked(peer'.wire, st, peer'.error)
    BY <1>2, <1>5, <2>3, <2>4, AppendTracked
  <2>9. /\ Reached <= Reached'
        /\ \A k \in 1 .. Len(xs) : Rank(xs[k].type) > Reached /\ Rank(xs[k].type) <= Reached'
        /\ \A k, l \in 1 .. Len(xs) : k < l => Before(xs[k].type, xs[l].type)
    <3>1. \A t \in {"D", "C"} : Rank(t) \in {3, 4} /\ Before("D", t)
      BY Ranks DEF Before
    <3> QED
      BY <2>3, <2>5, <3>1
  <2>10. peer'.error.failed = peer'.skipping
    BY <1>2, <1>5, <1>14, <2>4
  <2> QED
    BY <1>1, <1>2, <2>3, <2>4, <2>5, <2>7, <2>8, <2>9, <2>10, AnswerKeeps
\* Any of them: ErrorResponse.
<1>15. CASE /\ ~peer.skipping /\ m.type # "S"
            /\ \E e \in {Message("E", m.text), Malformed("E")} :
                   Answer(<<e>>, [failed |-> TRUE, text |-> e.text])
  <2>1. PICK e \in {Message("E", m.text), Malformed("E")} :
            Answer(<<e>>, [failed |-> TRUE, text |-> e.text])
    BY <1>15
  <2>2. /\ e \in WireMessage /\ e.type = "E" /\ e.text \in Nat
        /\ e.text = (IF e.ok THEN e.text ELSE 0)
    <3>1. PICK text \in Nat : text = m.text
      BY <1>4
    <3>2. CASE e = Message("E", text)
      <4>1. e \in WireMessage /\ e.type = "E" /\ e.text = text
        BY <3>2 DEF Message, WireMessage, AnswerTypes
      <4>2. e.ok
        BY <3>2 DEF Message
      <4> QED
        BY <4>1, <4>2
    <3>3. CASE e = Malformed("E")
      <4>1. e \in WireMessage /\ e.type = "E" /\ e.text = 0
        BY <3>3, MessageTypes DEF AnswerTypes
      <4> QED
        BY <4>1
    <3> QED
      BY <2>1, <3>1, <3>2, <3>3
  <2>3. PICK xs : xs = <<e>>
    OBVIOUS
  <2>4. /\ xs \in Seq(WireMessage) /\ \A t : InWire(xs, t) <=> t = "E"
        /\ \A k \in 1 .. Len(xs) : k = 1 /\ xs[k].type = "E"
    BY <2>2, <2>3, OneAnswer
  <2> DEFINE error == [failed |-> TRUE, text |-> e.text]
  <2>5. error \in [failed : BOOLEAN, text : Nat] /\ error.failed = TRUE
    BY <2>2
  <2>6. /\ peer' \in PeerType /\ peer'.wire = peer.wire \o xs
        /\ peer'.skipping = TRUE /\ peer'.error = error
    <3> HIDE DEF error
    <3> QED
      BY <1>2, <2>1, <2>3, <2>4, <2>5, AnswerShape DEF error
  <2>7. ErrorTracked(peer'.wire, st, peer'.error)
    BY <1>2, <1>5, <1>15, <2>2, <2>3, <2>6, FailTracked
  <2> HIDE DEF error
  <2>8. Reached \in 0 .. 2 /\ Reached' = 4 /\ backend'.output # <<>>
    BY <1>2, <1>4, <1>6, <1>7, <1>15, <2>6
  <2>9. \A t : InWire(peer'.wire, t) <=> InWire(peer.wire, t) \/ t = "E"
    BY <1>2, <2>4, <2>6, InWireGrows
  <2>10. NothingMissing(shown, peer'.wire, Reached', peer'.skipping, request.skip, reported)
    BY <1>5, <2>6, <2>8, <2>9 DEF NothingMissing, Has
  <2>11. /\ Reached <= Reached'
         /\ \A k \in 1 .. Len(xs) : Rank(xs[k].type) > Reached /\ Rank(xs[k].type) <= Reached'
         /\ \A k, l \in 1 .. Len(xs) : ~(k < l)
    BY <2>4, <2>8, Ranks
  <2>12. peer'.error.failed = peer'.skipping
    BY <2>5, <2>6
  <2> QED
    BY <1>1, <1>2, <2>4, <2>6, <2>7, <2>8, <2>10, <2>11, <2>12, AnswerKeeps
<1> QED
  BY <1>9, <1>10, <1>11, <1>12, <1>13, <1>14, <1>15

\* No answer gets lost when the proxy takes the next one off the wire.
LEMMA TakeMissing ==
    ASSUME NEW w, NEW v, NEW s, NEW u, NEW r, NEW skipping, NEW skip, NEW rep,
           NEW t0 \in {"1", "2", "D", "C", "E"},
           NothingMissing(s, w, r, skipping, skip, rep),
           \A t : InWire(w, t) <=> t0 = t \/ InWire(v, t),
           \A t \in AnswerTypes : InWire(v, t) => Before(t0, t),
           \A t : InShown(u, t) <=> InShown(s, t) \/ (Forwards(t0, skip, rep) /\ t = t0)
    PROVE  NothingMissing(u, v, r, skipping, skip, rep)
<1>1. /\ t0 \in {"2", "D", "C"} => ~InWire(v, "1")
      /\ t0 \in {"D", "C"} => ~InWire(v, "2")
  BY Ranks DEF Before, AnswerTypes
<1>2. CASE rep
  <2>1. ~Forwards(t0, skip, rep)
    BY <1>2 DEF Forwards
  <2> QED
    BY <1>2, <2>1 DEF NothingMissing
<1>3. CASE ~rep
  <2>1. Forwards(t0, skip, rep) <=> ~(skip /\ t0 \in {"1", "2"})
    BY <1>3 DEF Forwards, FilterBackendType
  <2>2. skip => InShown(s, "1") /\ InShown(s, "2")
    BY DEF NothingMissing
  <2>3. \A t : Has(u, v, t) <=> Has(s, w, t)
    BY <2>1, <2>2 DEF Has
  <2>4. /\ InShown(u, "2") => InShown(u, "1")
        /\ InShown(u, "C") \/ InShown(u, "D") => InShown(u, "2")
    BY <1>1, <1>3, <2>1 DEF NothingMissing, Has
  <2> QED
    BY <1>3, <2>3, <2>4 DEF NothingMissing
<1> QED
  BY <1>2, <1>3

\* ErrorResponse moves from the wire into the status.
LEMMA TakeTracked ==
    ASSUME NEW w \in Seq(WireMessage), w # <<>>, NEW status \in StatusType,
           NEW error, ErrorTracked(w, status, error),
           \A t : InWire(w, t) <=> Head(w).type = t \/ InWire(Tail(w), t),
           Head(w).type = "E" => ~InWire(Tail(w), "E")
    PROVE  ErrorTracked(Tail(w), ObserveMsg(status, Head(w)), error)
<1>1. PICK m, v : m = Head(w) /\ v = Tail(w)
  OBVIOUS
<1>2. m = w[1] /\ 1 \in DOMAIN w /\ \A k \in DOMAIN v : k + 1 \in DOMAIN w /\ v[k] = w[k + 1]
  BY <1>1
<1>3. \A k \in DOMAIN v : v[k].type = "E" =>
          error.text = (IF v[k].ok THEN v[k].text ELSE 0)
  BY <1>2 DEF ErrorTracked
<1>4. CASE m.type = "E"
  <2>1. PICK text : text = (IF m.ok THEN m.text ELSE 0)
    OBVIOUS
  <2>2. ObserveMsg(status, m) = [status EXCEPT !.saw_error = TRUE, !.last_error = text]
    BY <1>4, <2>1 DEF ObserveMsg
  <2>3. ObserveMsg(status, m).saw_error = TRUE /\ ObserveMsg(status, m).last_error = text
    BY <2>2 DEF StatusType
  <2>4. error.text = text /\ error.failed
    BY <1>1, <1>2, <1>4, <2>1 DEF ErrorTracked
  <2>5. ErrorTracked(v, ObserveMsg(status, m), error)
    BY <1>3, <2>3, <2>4 DEF ErrorTracked
  <2> QED
    BY <1>1, <2>5
<1>5. CASE m.type # "E"
  <2>1. /\ ObserveMsg(status, m).saw_error = status.saw_error
        /\ ObserveMsg(status, m).last_error = status.last_error
    BY <1>5 DEF ObserveMsg, StatusType
  <2>2. ErrorTracked(v, ObserveMsg(status, m), error)
    BY <1>1, <1>3, <1>5, <2>1 DEF ErrorTracked
  <2> QED
    BY <1>1, <2>2
<1> QED
  BY <1>4, <1>5

LEMMA ObserveMsgType ==
    ASSUME NEW status \in StatusType, NEW m \in WireMessage
    PROVE  /\ ObserveMsg(status, m) \in StatusType
           /\ ObserveMsg(status, m).complete = (status.complete \/ m.type = "Z")
<1>1. PICK text \in Nat : text = (IF m.ok THEN m.text ELSE 0)
  BY DEF WireMessage
<1>2. CASE m.type = "E"
  BY <1>1, <1>2 DEF ObserveMsg, StatusType
<1>3. CASE m.type = "Z"
  BY <1>3 DEF ObserveMsg, StatusType
<1>4. CASE m.type \notin {"E", "Z"}
  BY <1>4 DEF ObserveMsg, StatusType
<1> QED
  BY <1>2, <1>3, <1>4

\* An answer in order, with all that cannot be missing, is legal once
\* ReadyForQuery ends it.
Places(u, type) == {k \in DOMAIN u : u[k] = type}
Legal(u) ==
    /\ Places(u, "Z") = {Len(u)}
    /\ Places(u, "C") \cup Places(u, "E") = {Len(u) - 1}
    /\ Cardinality(Places(u, "1")) <= 1 /\ Cardinality(Places(u, "2")) <= 1
    /\ Places(u, "C") \cup Places(u, "D") # {} => u[1] = "1" /\ u[2] = "2"

LEMMA AtMostOne ==
    ASSUME NEW u, NEW type, \A j, k \in DOMAIN u : u[j] = type /\ u[k] = type => j = k
    PROVE  Cardinality(Places(u, type)) <= 1
<1>1. CASE Places(u, type) = {}
  BY <1>1, FS_EmptySet
<1>2. CASE Places(u, type) # {}
  <2>1. PICK k \in DOMAIN u : u[k] = type
    BY <1>2 DEF Places
  <2>2. Places(u, type) = {k}
    BY <2>1 DEF Places
  <2> QED
    BY <2>2, FS_Singleton
<1> QED
  BY <1>1, <1>2

LEMMA OrderMakesLegal ==
    ASSUME NEW s \in Seq(AnswerTypes), ~InShown(s, "Z"),
           \A j, k \in DOMAIN s : j < k => Before(s[j], s[k]),
           InShown(s, "C") \/ InShown(s, "E"),
           InShown(s, "2") => InShown(s, "1"),
           InShown(s, "C") \/ InShown(s, "D") => InShown(s, "2"),
           NEW u, u = Append(s, "Z")
    PROVE  Legal(u)
<1>1. /\ Len(s) \in Nat /\ DOMAIN s = 1 .. Len(s) /\ Len(u) = Len(s) + 1
      /\ DOMAIN u = 1 .. Len(s) + 1 /\ u[Len(s) + 1] = "Z"
      /\ \A k \in 1 .. Len(s) : u[k] = s[k] /\ s[k] \in AnswerTypes
  OBVIOUS
<1>2. \A k \in DOMAIN u : k \in DOMAIN s \/ k = Len(s) + 1
  BY <1>1
<1>3. \A k \in DOMAIN s : s[k] # "Z"
  BY DEF InShown
<1>4. Places(u, "Z") = {Len(u)}
  BY <1>1, <1>2, <1>3 DEF Places
<1>5. ASSUME NEW t, t # "Z"
      PROVE  Places(u, t) = {k \in DOMAIN s : s[k] = t}
  BY <1>1, <1>2, <1>5 DEF Places
<1>6. ASSUME NEW k \in DOMAIN s, s[k] \in {"C", "E"}
      PROVE  k = Len(s)
  <2>1. ASSUME k < Len(s)
        PROVE  FALSE
    <3>1. Len(s) \in DOMAIN s /\ Before(s[k], s[Len(s)])
      BY <1>1, <2>1
    <3> QED
      BY <1>1, <1>3, <1>6, <3>1, Ranks DEF Before
  <2> QED
    BY <1>1, <2>1
<1>7. Places(u, "C") \cup Places(u, "E") = {Len(u) - 1}
  <2>1. PICK k \in DOMAIN s : s[k] \in {"C", "E"}
    BY DEF InShown
  <2>2. Len(s) \in DOMAIN s /\ s[Len(s)] \in {"C", "E"} /\ Len(u) - 1 = Len(s)
    BY <1>1, <1>6, <2>1
  <2>3. Places(u, "C") \cup Places(u, "E") = {l \in DOMAIN s : s[l] \in {"C", "E"}}
    BY <1>5
  <2> QED
    BY <1>6, <2>2, <2>3
<1>8. ASSUME NEW t \in {"1", "2"}
      PROVE  Cardinality(Places(u, t)) <= 1
  <2>1. ASSUME NEW j \in DOMAIN s, NEW k \in DOMAIN s, s[j] = t, s[k] = t
        PROVE  ~(j < k)
    BY <2>1, Ranks DEF Before
  <2>2. ASSUME NEW j \in DOMAIN u, NEW k \in DOMAIN u, u[j] = t, u[k] = t
        PROVE  j = k
    <3>1. j \in DOMAIN s /\ k \in DOMAIN s /\ s[j] = t /\ s[k] = t
      BY <1>1, <1>2, <2>2
    <3>2. ~(j < k) /\ ~(k < j)
      BY <2>1, <3>1
    <3> QED
      BY <1>1, <3>2
  <2> QED
    BY <2>2, AtMostOne
<1>9. ASSUME Places(u, "C") \cup Places(u, "D") # {}
      PROVE  u[1] = "1" /\ u[2] = "2"
  <2>1. InShown(s, "C") \/ InShown(s, "D")
    BY <1>5, <1>9 DEF InShown
  <2>2. PICK j \in DOMAIN s, k \in DOMAIN s : s[j] = "1" /\ s[k] = "2"
    BY <2>1 DEF InShown
  <2>3. \A t \in AnswerTypes : ~Before(t, "1") /\ (Before("1", t) /\ Before(t, "2") => FALSE)
    BY Ranks DEF Before
  <2>4. j = 1
    <3>1. ~(1 < j)
      BY <1>1, <2>2, <2>3
    <3> QED
      BY <1>1, <3>1
  <2>5. k = 2
    <3>1. ~(2 < k)
      <4> SUFFICES ASSUME 2 < k
                   PROVE  FALSE
        OBVIOUS
      <4>1. 1 \in DOMAIN s /\ 2 \in DOMAIN s /\ s[2] \in AnswerTypes
        BY <1>1
      <4>2. Before(s[1], s[2]) /\ Before(s[2], s[k])
        BY <4>1
      <4> QED
        BY <2>2, <2>3, <2>4, <4>1, <4>2
    <3> QED
      BY <1>1, <2>2, <2>4, <3>1
  <2> QED
    BY <1>1, <2>2, <2>4, <2>5
<1> QED
  BY <1>4, <1>7, <1>8, <1>9 DEF Legal

\* The proxy passes the next message of the server to feed_backend_msg.
LEMMA FeedStep ==
    ASSUME Conversation, FeedBackend
    PROVE  Conversation'
<1>1. PICK m : m = Head(peer.wire)
  OBVIOUS
<1>2. /\ stage = "drain" /\ peer.wire # <<>>
      /\ backend' \in FeedBackendMsg(backend, m)
      /\ st' = ObserveMsg(st, m)
      /\ peer' = [peer EXCEPT !.wire = Tail(@)]
      /\ stage' = IF st'.complete THEN "done" ELSE stage
      /\ UNCHANGED <<request, reported, turn>>
  BY <1>1 DEF FeedBackend, requestVars
<1>3. shown' = IF Forwards(m.type, request.skip, reported) THEN Append(shown, m.type) ELSE shown
  BY <1>1 DEF FeedBackend, Forwards
<1>4. /\ ConversationType /\ Talking /\ peer \in PeerType /\ peer.wire \in Seq(WireMessage)
      /\ st \in StatusType /\ shown \in Seq(AnswerTypes)
  BY <1>2 DEF Conversation, ConversationType, PeerType
<1>5. /\ IsContext(backend') /\ backend'.output = backend.output
      /\ backend'.auth_state = "DONE" /\ backend'.events = <<>>
      /\ m.type = "Z" => backend'.proto_state = "READY"
  BY <1>2, <1>4, FeedBackendMsgKeeps DEF ConversationType
<1>6. /\ peer'.wire = Tail(peer.wire) /\ peer'.skipping = peer.skipping
      /\ peer'.error = peer.error /\ Reached' = Reached
  BY <1>2, <1>4, <1>5 DEF PeerType, Reached
<1>7. PICK r \in 0 .. 5 : r = Reached
  BY ReachType DEF Reached
<1>8. /\ WireInOrder(peer.wire, r)
      /\ ShownInOrder(shown, peer.wire, r, request.skip, reported)
      /\ NothingMissing(shown, peer.wire, r, peer.skipping, request.skip, reported)
      /\ ErrorTracked(peer.wire, st, peer.error) /\ ~st.complete
  BY <1>4, <1>7 DEF Talking
<1>9. /\ m \in WireMessage /\ peer'.wire \in Seq(WireMessage)
      /\ WireInOrder(peer'.wire, r)
      /\ ShownInOrder(shown, peer'.wire, r, request.skip, reported)
      /\ m.type \in AnswerTypes \ {"Z"} /\ Forwards(m.type, request.skip, reported)
             => ShownInOrder(Append(shown, m.type), peer'.wire, r, request.skip, reported)
      /\ m.type \in AnswerTypes =>
             /\ Rank(m.type) <= r
             /\ \A t \in AnswerTypes : InWire(peer'.wire, t) => Before(m.type, t)
      /\ \A t : InWire(peer.wire, t) <=> m.type = t \/ InWire(peer'.wire, t)
  BY <1>1, <1>2, <1>4, <1>6, <1>8, TakeInOrder
<1>10. peer' \in PeerType
  BY <1>2, <1>4, <1>6, <1>9 DEF PeerType
<1>11. st' \in StatusType /\ (st'.complete <=> m.type = "Z")
  BY <1>2, <1>4, <1>8, <1>9, ObserveMsgType
<1>12. ErrorTracked(peer'.wire, st', peer'.error)
  <2>1. m.type = "E" => ~InWire(peer'.wire, "E")
    BY <1>9, Ranks DEF Before, AnswerTypes
  <2> QED
    BY <1>1, <1>2, <1>4, <1>6, <1>8, <1>9, <2>1, TakeTracked
<1>13. m.type \in AnswerTypes \cup Asynchronous
  BY <1>9 DEF WireMessage
<1>14. m.type \in Asynchronous => ~Forwards(m.type, request.skip, reported)
  BY DEF Asynchronous, Forwards, FilterBackendType
<1>15. shown' \in Seq(AnswerTypes)
  <2>1. CASE m.type \in AnswerTypes
    BY <1>3, <1>4, <2>1
  <2>2. CASE m.type \in Asynchronous
    BY <1>3, <1>4, <1>14, <2>2
  <2> QED
    BY <1>13, <2>1, <2>2
<1>16. ConversationType'
  BY <1>2, <1>4, <1>5, <1>10, <1>11, <1>15 DEF ConversationType, Stages
\* A message that is no answer.
<1>17. CASE m.type \in Asynchronous
  <2>1. m.type \notin AnswerTypes /\ shown' = shown /\ m.type # "Z"
    BY <1>3, <1>14, <1>17 DEF Asynchronous, AnswerTypes
  <2>2. \A t \in AnswerTypes : InWire(peer'.wire, t) <=> InWire(peer.wire, t)
    BY <1>9, <2>1
  <2>3. NothingMissing(shown, peer'.wire, r, peer.skipping, request.skip, reported)
    BY <1>8, <2>2 DEF NothingMissing, Has, AnswerTypes
  <2>4. Talking' /\ stage' = "drain"
    BY <1>2, <1>4, <1>5, <1>6, <1>7, <1>9, <1>11, <1>12, <2>1, <2>3 DEF Talking
  <2> QED
    BY <1>16, <2>4 DEF Conversation
\* ReadyForQuery.
<1>18. CASE m.type = "Z"
  <2>1. stage' = "done" /\ st'.complete
    BY <1>2, <1>11, <1>18
  <2>2. \A t \in AnswerTypes : ~InWire(peer'.wire, t)
    BY <1>9, <1>18, Ranks DEF Before, AnswerTypes
  <2>3. \A k \in DOMAIN peer'.wire : peer'.wire[k].type \in Asynchronous
    <3>1. ASSUME NEW k \in DOMAIN peer'.wire
          PROVE  peer'.wire[k].type \in AnswerTypes \cup Asynchronous
      <4>1. peer'.wire[k] \in WireMessage
        BY <1>9
      <4> QED
        BY <4>1 DEF WireMessage
    <3>2. ASSUME NEW k \in DOMAIN peer'.wire
          PROVE  peer'.wire[k].type \notin AnswerTypes
      BY <2>2 DEF InWire
    <3> QED
      BY <3>1, <3>2
  <2>4. r = 5 /\ backend.output = <<>> /\ ~peer.skipping
    <3>1. r = 5
      BY <1>9, <1>18, Ranks DEF AnswerTypes
    <3> QED
      BY <1>7, <3>1 DEF Reached, Reach
  <2>5. CompleteMeansClean'
    BY <1>5, <1>6, <1>18, <2>1, <2>3, <2>4 DEF CompleteMeansClean
  <2>6. ErrorReported'
    <3>1. st'.saw_error \in BOOLEAN /\ peer'.error.failed \in BOOLEAN
      BY <1>10, <1>11 DEF StatusType, PeerType
    <3>2. peer'.error.failed <=> st'.saw_error
      BY <1>12, <2>2 DEF ErrorTracked, AnswerTypes
    <3>3. st'.last_error = peer'.error.text
      BY <1>12, <3>2 DEF ErrorTracked
    <3> QED
      BY <3>1, <3>2, <3>3 DEF ErrorReported
  <2>7. shown' = Append(shown, "Z")
    BY <1>3, <1>18 DEF Forwards, FilterBackendType
  <2>8. /\ InShown(shown, "C") \/ InShown(shown, "E")
        /\ InShown(shown, "2") => InShown(shown, "1")
        /\ InShown(shown, "C") \/ InShown(shown, "D") => InShown(shown, "2")
    <3>1. \A t \in {"C", "E"} : ~InWire(peer.wire, t)
      BY <1>9, <1>18, <2>2 DEF AnswerTypes
    <3> QED
      BY <1>8, <2>4, <3>1 DEF NothingMissing, Has
  <2>9. Legal(shown')
    BY <1>4, <1>8, <2>7, <2>8, OrderMakesLegal DEF ShownInOrder
  <2>10. AnswerLegal'
    <3>1. PICK u : u = shown'
      OBVIOUS
    <3>2. Legal(u)
      BY <2>9, <3>1
    <3>3. LET At(type) == {k \in DOMAIN u : u[k] = type}
              n == Len(u)
          IN  /\ At("Z") = {n}
              /\ At("C") \cup At("E") = {n - 1}
              /\ Cardinality(At("1")) <= 1 /\ Cardinality(At("2")) <= 1
              /\ At("C") \cup At("D") # {} => u[1] = "1" /\ u[2] = "2"
      BY <3>2 DEF Legal, Places
    <3> QED
      BY <3>1, <3>3 DEF AnswerLegal
  <2> QED
    BY <1>16, <2>1, <2>5, <2>6, <2>10 DEF Conversation
\* Any other answer.
<1>19. CASE m.type \in AnswerTypes \ {"Z"}
  <2>1. m.type \in {"1", "2", "D", "C", "E"}
    BY <1>19 DEF AnswerTypes
  <2>2. \A t : InShown(shown', t) <=>
            InShown(shown, t) \/ (Forwards(m.type, request.skip, reported) /\ t = m.type)
    <3>1. CASE Forwards(m.type, request.skip, reported)
      <4>1. PICK u : u = shown'
        OBVIOUS
      <4>2. /\ DOMAIN u = 1 .. Len(shown) + 1 /\ u[Len(shown) + 1] = m.type
            /\ \A k \in 1 .. Len(shown) : u[k] = shown[k]
            /\ DOMAIN shown = 1 .. Len(shown) /\ Len(shown) \in Nat
        BY <1>3, <1>4, <1>19, <3>1, <4>1
      <4>3. \A k \in 1 .. Len(shown) + 1 : k \in 1 .. Len(shown) \/ k = Len(shown) + 1
        BY <4>2
      <4>4. \A k \in 1 .. Len(shown) : k \in 1 .. Len(shown) + 1
        BY <4>2
      <4>5. Len(shown) + 1 \in DOMAIN u
        BY <4>2
      <4>6. \A t : InShown(u, t) <=> InShown(shown, t) \/ t = m.type
        BY <4>2, <4>3, <4>4, <4>5 DEF InShown
      <4> QED
        BY <3>1, <4>1, <4>6
    <3>2. CASE ~Forwards(m.type, request.skip, reported)
      BY <1>3, <3>2
    <3> QED
      BY <3>1, <3>2
  <2>3. NothingMissing(shown', peer'.wire, r, peer.skipping, request.skip, reported)
    BY <1>8, <1>9, <1>19, <2>1, <2>2, TakeMissing
  <2>4. ShownInOrder(shown', peer'.wire, r, request.skip, reported)
    BY <1>3, <1>9, <1>19
  <2>5. Talking' /\ stage' = "drain"
    BY <1>2, <1>4, <1>5, <1>6, <1>7, <1>9, <1>11, <1>12, <1>19, <2>3, <2>4 DEF Talking
  <2> QED
    BY <1>16, <2>5 DEF Conversation
<1> QED
  BY <1>13, <1>17, <1>18, <1>19

\* The answer is complete, and the connection is quiet again.
LEMMA FinishStep ==
    ASSUME Conversation, Finish
    PROVE  Conversation'
<1>1. /\ stage = "done" /\ stage' = "idle" /\ request' = NoRequest
      /\ shown' = <<>> /\ reported' = FALSE
      /\ peer' = [peer EXCEPT !.error = Unfailed]
      /\ UNCHANGED <<backend, st, turn>>
  BY DEF Finish
<1>2. ConversationType /\ CompleteMeansClean /\ peer \in PeerType
  BY <1>1 DEF Conversation, ConversationType
<1>3. request'.skip = FALSE /\ request'.slot = 0
  BY <1>1 DEF NoRequest
<1>4. /\ peer' \in PeerType /\ peer'.wire = peer.wire
      /\ peer'.skipping = peer.skipping /\ peer'.error = Unfailed
  BY <1>1, <1>2, UnfailedType DEF PeerType
<1>5. ConversationType'
  <2>1. <<>> \in Seq(AnswerTypes) /\ 0 \in Nat /\ FALSE \in BOOLEAN
    OBVIOUS
  <2> QED
    BY <1>1, <1>2, <1>3, <1>4, <2>1 DEF ConversationType, Stages
<1>6. Quiet'
  BY <1>1, <1>2, <1>3, <1>4 DEF CompleteMeansClean, Quiet
<1> QED
  BY <1>1, <1>5, <1>6 DEF Conversation

LEMMA ConversationStep == Conversation /\ [Next]_vars => Conversation'
<1> SUFFICES ASSUME Conversation, [Next]_vars
             PROVE  Conversation'
  OBVIOUS
<1>1. CASE UNCHANGED vars
  BY <1>1 DEF vars, Conversation, ConversationType, Quiet, Talking, Reached,
              CompleteMeansClean, ErrorReported, AnswerLegal
<1> QED
  BY <1>1, QuietStep, OpenStep, ClearStep, FeedStep, FinishStep, AnswerStep, NotifyStep DEF Next

\* The state keeps its types; in particular the loop of inject_identity stays
\* inside the caller's array and a drained context has no events.
THEOREM TypeCorrect == Spec => []TypeOK
<1>1. Conversation /\ Rewrites => TypeOK
  <2> SUFFICES ASSUME Conversation, Rewrites
               PROVE  TypeOK
    OBVIOUS
  <2>1. DOMAIN mem.params = Slots /\ \A k \in Slots : mem.params[k].owned \in BOOLEAN
    BY DEF Rewrites, Accounted, IsMemory, IsParam
  <2> QED
    BY <2>1 DEF Conversation, ConversationType, Stages, Rewrites, TypeOK, Slots
<1> QED
  BY <1>1, ConversationInit, ConversationStep, RewritesInit, RewritesStep, PTL DEF Spec

\* A pipeline that feed_backend_msg has reported complete, failed ones and ones
\* with messages that feed_input could not take included, leaves the backend
\* context READY and the connection with nothing of it under way.
THEOREM CleanCorrect == Spec => []CompleteMeansClean
<1>1. Conversation => CompleteMeansClean
  BY DEF Conversation, CompleteMeansClean
<1> QED
  BY <1>1, ConversationInit, ConversationStep, PTL DEF Spec

\* saw_error and the fields of last_error say what the server answered to this
\* pipeline, after any history of pipelines on the connection.
THEOREM ErrorCorrect == Spec => []ErrorReported
<1>1. Conversation => ErrorReported
  BY DEF Conversation, ErrorReported
<1> QED
  BY <1>1, ConversationInit, ConversationStep, PTL DEF Spec

\* pqwire_pipeline_filter_backend_type makes a legal answer of what the server
\* sends and what the proxy has sent on its own.
THEOREM AnswerCorrect == Spec => []AnswerLegal
<1>1. Conversation => AnswerLegal
  BY DEF Conversation, AnswerLegal
<1> QED
  BY <1>1, ConversationInit, ConversationStep, PTL DEF Spec

-----------------------------------------------------------------------------
(* What the Bind that goes to the backend carries.                         *)

CarriesIdentity(body, r) ==
    LET b == parse_bind_msg(body)
    IN  /\ b.event
        /\ r.slot < Len(b.params)
        /\ Read(body, b, r.slot + 1) =
               [length |-> Len(Identity), data |-> Identity,
                format |-> IF r.as_binary THEN 1 ELSE 0]
CarriesOthers(body, r) ==
    LET b == parse_bind_msg(body)
        wanted == r.wanted[1]
    IN  /\ Len(b.params) = Len(wanted.params)
        /\ \A k \in DOMAIN b.params \ {r.slot + 1} :
               /\ Read(body, b, k).format = wanted.params[k].format
               /\ Read(body, b, k).length < 0 <=> wanted.params[k].length < 0
        /\ r.seen = r.body =>
               \A k \in DOMAIN b.params \ {r.slot + 1} : Read(body, b, k) = wanted.params[k]
        /\ b.result_formats = wanted.result_formats
Carries(body, r) ==
    CarriesIdentity(body, r) /\ (r.wanted # <<>> => CarriesOthers(body, r))

\* A wish has parameters that pqwire_send_bind can encode.
WishedParam(p) ==
    /\ p \in [length : Int, data : Bodies, format : {0, 1}]
    /\ LegalValue(Value(p.length, p.data))
    /\ \/ p.length = Len(p.data)
       \/ p.length = -1 /\ p.data = <<>>
    /\ p.format = 0 => p.data \in Seq(1 .. 255)

LEMMA WishEncodable ==
    ASSUME NEW w, NEW body, Within(w, body)
    PROVE  LET vs == [k \in DOMAIN w.params |-> Value(w.params[k].length, w.params[k].data)]
           IN  /\ Encodable(w.portal, w.statement, w.formats, vs, w.result_formats)
               /\ body = send_bind(w.portal, w.statement, w.formats, vs, w.result_formats)
               /\ DOMAIN w.params = 1 .. Len(w.params) /\ Len(vs) = Len(w.params)
               /\ Len(w.params) \in Nat
               /\ \A k \in 1 .. Len(w.params) :
                      /\ WishedParam(w.params[k])
                      /\ w.params[k].format = FormatOf(w.formats, k)
<1> DEFINE n == Len(w.params)
           P == [length : Int, data : Bodies, format : {0, 1}]
           vs == [k \in DOMAIN w.params |-> Value(w.params[k].length, w.params[k].data)]
<1>1. w.params \in Seq(P) /\ n <= PQWIRE_MAX_BIND_PARAMS
  BY DEF Within, Bodies
<1>2. n \in Nat /\ DOMAIN w.params = 1 .. n /\ \A k \in 1 .. n : w.params[k] \in P
  <2> HIDE DEF P
  <2>1. n \in Nat /\ DOMAIN w.params = 1 .. n
    BY <1>1, LenProperties
  <2> QED
    BY <1>1, <2>1, ElementOfSeq
<1>3. \A k \in 1 .. n :
          LET p == w.params[k]
          IN  /\ \/ p.length = Len(p.data) /\ FitsInt32(p.length)
                 \/ p.length = -1 /\ p.data = <<>>
              /\ p.format = (CASE Len(w.formats) = 0 -> 0
                               [] Len(w.formats) = 1 -> w.formats[1]
                               [] OTHER -> w.formats[k])
              /\ p.format = 0 => p.data \in Seq(1 .. 255)
  BY <1>2 DEF Within
<1>4. {0, 1} \subseteq Words
  BY DEF Words, Word
<1>5. /\ w.formats \in Seq({0, 1}) /\ Len(w.formats) \in {0, 1, n}
      /\ w.result_formats \in Seq({0, 1}) /\ Len(w.result_formats) <= PQWIRE_MAX_BIND_PARAMS
      /\ w.portal \in Seq(1 .. 255) /\ w.statement \in Seq(1 .. 255)
      /\ body = send_bind(w.portal, w.statement, w.formats, vs, w.result_formats)
  BY DEF Within
<1>6. w.formats \in Seq(Words) /\ w.result_formats \in Seq(Words)
  BY <1>4, <1>5, SeqMonotonic
<1>7. Len(w.formats) <= PQWIRE_MAX_BIND_PARAMS
  <2> DEFINE l == Len(w.formats)
  <2>1. l \in {0, 1, n} /\ n <= PQWIRE_MAX_BIND_PARAMS
    BY <1>1, <1>5
  <2>2. /\ PQWIRE_MAX_BIND_PARAMS \in Nat /\ PQWIRE_MAX_BIND_PARAMS >= 1
        /\ l = 0 \/ l = 1 \/ l = n
    BY <2>1, BindCodecAssumption
  <2> HIDE DEF l, n
  <2>3. l <= PQWIRE_MAX_BIND_PARAMS
    BY <2>1, <2>2
  <2> QED
    BY <2>3 DEF l
<1>8. FitsInt32(-1)
  BY SMT DEF FitsInt32
<1>9. ASSUME NEW k \in 1 .. n
      PROVE  /\ WishedParam(w.params[k]) /\ LegalValue(Value(w.params[k].length, w.params[k].data))
             /\ w.params[k].format = FormatOf(w.formats, k)
  <2> DEFINE p == w.params[k]
             v == Value(p.length, p.data)
  <2>1. p \in P
    BY <1>2
  <2>2. /\ \/ p.length = Len(p.data) /\ FitsInt32(p.length)
           \/ p.length = -1 /\ p.data = <<>>
        /\ p.format = 0 => p.data \in Seq(1 .. 255)
    BY <1>3
  <2>3. v.length = p.length /\ v.data = p.data
    BY DEF Value
  <2>4. p.format = FormatOf(w.formats, k)
    <3>1. p.format = (CASE Len(w.formats) = 0 -> 0
                        [] Len(w.formats) = 1 -> w.formats[1]
                        [] OTHER -> w.formats[k])
      BY <1>3
    <3>2. Len(w.formats) = 0 \/ Len(w.formats) = 1 \/ k <= Len(w.formats)
      BY <1>2, <1>5
    <3> HIDE DEF p
    <3> QED
      BY <3>1, <3>2 DEF FormatOf
  <2> HIDE DEF p, v
  <2>5. LegalValue(v)
    BY <1>8, <2>1, <2>2, <2>3 DEF LegalValue
  <2>6. WishedParam(p)
    BY <2>1, <2>2, <2>5 DEF WishedParam, v
  <2> QED
    BY <2>4, <2>5, <2>6 DEF p, v
<1>10. DOMAIN vs = 1 .. n /\ \A k \in 1 .. n : vs[k] = Value(w.params[k].length, w.params[k].data)
  BY <1>2
<1>11. Len(vs) = n
  BY <1>2
<1> HIDE DEF vs, n, P
<1>12. \A k \in 1 .. n : LegalValue(vs[k])
  BY <1>9, <1>10
<1>13. Encodable(w.portal, w.statement, w.formats, vs, w.result_formats)
  BY <1>1, <1>2, <1>5, <1>6, <1>7, <1>10, <1>11, <1>12 DEF Encodable
<1> QED
  BY <1>2, <1>5, <1>9, <1>11, <1>13 DEF vs, n

\* Decoding the frontend's Bind yields what the frontend wants.
Understood(r, b, w) ==
    /\ Len(b.params) = Len(w.params) /\ b.result_formats = w.result_formats
    /\ DOMAIN w.params = 1 .. Len(w.params)
    /\ \A k \in 1 .. Len(w.params) :
           /\ WishedParam(w.params[k])
           /\ b.params[k].length = w.params[k].length
           /\ b.params[k].format = w.params[k].format
           /\ FormatOf(b.formats, k) = w.params[k].format
           /\ Slice(r.body, b.params[k].off, Len(w.params[k].data)) = w.params[k].data
LEMMA WishUnderstood ==
    ASSUME NEW r \in Requests, r.wanted # <<>>
    PROVE  Understood(r, parse_bind_msg(r.body), r.wanted[1])
<1> DEFINE w == r.wanted[1]
           n == Len(w.params)
           vs == [k \in DOMAIN w.params |-> Value(w.params[k].length, w.params[k].data)]
           b == parse_bind_msg(r.body)
<1>1. Within(w, r.body)
  BY ProxyAssumption
<1> HIDE DEF w
<1>2. /\ Encodable(w.portal, w.statement, w.formats, vs, w.result_formats)
      /\ r.body = send_bind(w.portal, w.statement, w.formats, vs, w.result_formats)
      /\ DOMAIN w.params = 1 .. n /\ Len(vs) = n /\ n \in Nat
      /\ \A k \in 1 .. n : /\ WishedParam(w.params[k])
                           /\ w.params[k].format = FormatOf(w.formats, k)
  BY <1>1, WishEncodable
<1>3. \A k \in 1 .. n : vs[k] = Value(w.params[k].length, w.params[k].data)
  BY <1>2
<1>4. \A k \in 1 .. n : vs[k].length = w.params[k].length /\ vs[k].data = w.params[k].data
  BY <1>3 DEF Value
<1> HIDE DEF vs, n, b
<1>5. RoundTrips(w.portal, w.statement, w.formats, vs, w.result_formats)
  BY <1>2, BindRoundTrip
<1>6. /\ b.formats = w.formats /\ b.result_formats = w.result_formats /\ Len(b.params) = n
      /\ \A k \in 1 .. n : Shows(r.body, b.params[k], vs[k], FormatOf(w.formats, k))
  BY <1>2, <1>5 DEF RoundTrips, b
<1>7. \A k \in 1 .. n :
           /\ b.params[k].length = w.params[k].length
           /\ b.params[k].format = w.params[k].format
           /\ FormatOf(b.formats, k) = w.params[k].format
           /\ Slice(r.body, b.params[k].off, Len(w.params[k].data)) = w.params[k].data
  BY <1>2, <1>4, <1>6 DEF Shows
<1> QED
  BY <1>2, <1>6, <1>7 DEF Understood, w, n, b

\* Parameter k is encoded as the value v in format f, as far as the bytes seen
\* in the place of the body allow.
Meets(r, k, v, f) ==
    LET p == r.wanted[1].params[k]
    IN  /\ f = p.format
        /\ v.length < 0 <=> p.length < 0
        /\ r.seen = r.body => v = Value(p.length, p.data)

\* One format each.
LEMMA FormatEach ==
    ASSUME NEW n \in Nat, NEW fs, Len(fs) = n, NEW k \in 1 .. n
    PROVE  FormatOf(fs, k) = fs[k]
<1>1. n # 0 /\ (n = 1 => k = 1) /\ k <= n
  OBVIOUS
<1> QED
  BY <1>1 DEF FormatOf

\* A Bind that is encoded from the identity and from what is wanted carries them.
LEMMA EncodedCarries ==
    ASSUME NEW r \in Requests, NEW b, b = parse_bind_msg(r.body), b.event,
           NEW n, n = Len(b.params), r.slot < n,
           NEW fs \in [1 .. n -> Words], NEW vs, DOMAIN vs = 1 .. n, Len(vs) = n,
           \A k \in 1 .. n : LegalValue(vs[k]),
           vs[r.slot + 1] = Value(Len(Identity), Identity),
           fs[r.slot + 1] = (IF r.as_binary THEN 1 ELSE 0),
           r.wanted # <<>> =>
               \A k \in (1 .. n) \ {r.slot + 1} : Meets(r, k, vs[k], fs[k])
    PROVE  Carries(send_bind(<<>>, <<>>, fs, vs, b.result_formats), r)
<1> DEFINE body == send_bind(<<>>, <<>>, fs, vs, b.result_formats)
           c == parse_bind_msg(body)
           s == r.slot + 1
           results == b.result_formats
<1>1. r.body \in Bodies /\ r.slot \in Nat
  BY ProxyAssumption DEF Bodies
<1>2. /\ n \in Nat /\ n <= PQWIRE_MAX_BIND_PARAMS
      /\ results \in Seq(Words) /\ Len(results) <= PQWIRE_MAX_BIND_PARAMS
  BY <1>1, ParseBindInside, BindCodecAssumption
<1>3. s \in 1 .. n
  BY <1>1, <1>2
<1>4. fs \in Seq(Words) /\ Len(fs) = n
  BY <1>2
<1>5. Encodable(<<>>, <<>>, fs, vs, results)
  BY <1>2, <1>4 DEF Encodable
<1>6. RoundTrips(<<>>, <<>>, fs, vs, results)
  <2> HIDE DEF results
  <2> QED
    BY <1>5, BindRoundTrip
<1>7. /\ c.event /\ c.result_formats = results /\ DOMAIN c.params = 1 .. n /\ Len(c.params) = n
      /\ \A k \in 1 .. n : Shows(body, c.params[k], vs[k], FormatOf(fs, k))
  BY <1>6 DEF RoundTrips
<1>8. \A k \in 1 .. n : FormatOf(fs, k) = fs[k]
  BY <1>2, <1>4, FormatEach
<1> HIDE DEF body, c, results, s
<1>9. ASSUME NEW k \in 1 .. n, NEW length \in Int, NEW data \in Bodies, NEW format,
             vs[k] = Value(length, data), fs[k] = format,
             length = Len(data) \/ (length = -1 /\ data = <<>>)
      PROVE  Read(body, c, k) = [length |-> length, data |-> data, format |-> format]
  <2> DEFINE v == c.params[k]
  <2>1. vs[k].length = length /\ vs[k].data = data
    BY <1>9 DEF Value
  <2>2. v.length = length /\ v.format = format /\ Slice(body, v.off, Len(data)) = data
    BY <1>7, <1>8, <1>9, <2>1 DEF Shows
  <2> HIDE DEF v
  <2>3. (IF v.length > 0 THEN Slice(body, v.off, v.length) ELSE <<>>) = data
    <3>1. CASE length > 0
      BY <1>9, <2>2, <3>1
    <3>2. CASE ~(length > 0)
      <4>1. data = <<>>
        <5>1. Len(data) \in Nat
          BY DEF Bodies
        <5>2. length = Len(data) => Len(data) = 0
          BY <3>2, <5>1
        <5> QED
          BY <1>9, <5>2, EmptySeq DEF Bodies
      <4> QED
        BY <2>2, <3>2, <4>1
    <3> QED
      BY <3>1, <3>2
  <2>4. Read(body, c, k) = [length |-> v.length, format |-> v.format,
                            data |-> IF v.length > 0 THEN Slice(body, v.off, v.length) ELSE <<>>]
    BY DEF Read, v
  <2> QED
    BY <2>2, <2>3, <2>4
<1>10. Identity \in Bodies /\ Len(Identity) \in Int
  BY ProxyAssumption, NameBytes
<1>11. Read(body, c, s) = [length |-> Len(Identity), data |-> Identity,
                           format |-> IF r.as_binary THEN 1 ELSE 0]
  BY <1>3, <1>9, <1>10 DEF s
<1>12. CarriesIdentity(body, r)
  BY <1>7, <1>11 DEF CarriesIdentity, c, s
<1>13. ASSUME r.wanted # <<>>
       PROVE  CarriesOthers(body, r)
  <2> DEFINE w == r.wanted[1]
  <2>1. Understood(r, b, w)
    BY <1>13, WishUnderstood
  <2>2. /\ n = Len(w.params) /\ results = w.result_formats
        /\ \A k \in 1 .. n : WishedParam(w.params[k])
    BY <2>1 DEF Understood, results
  <2>3. ASSUME NEW k \in (1 .. n) \ {s}
        PROVE  /\ Read(body, c, k).format = w.params[k].format
               /\ Read(body, c, k).length < 0 <=> w.params[k].length < 0
    <3>1. Meets(r, k, vs[k], fs[k])
      BY <1>13 DEF s
    <3>2. c.params[k].length = vs[k].length /\ c.params[k].format = fs[k]
      BY <1>7, <1>8 DEF Shows
    <3>3. Read(body, c, k).length = vs[k].length /\ Read(body, c, k).format = fs[k]
      BY <3>2 DEF Read
    <3> QED
      BY <3>1, <3>3 DEF Meets
  <2>4. ASSUME r.seen = r.body, NEW k \in (1 .. n) \ {s}
        PROVE  Read(body, c, k) = w.params[k]
    <3> DEFINE p == w.params[k]
    <3>1. /\ p \in [length : Int, data : Bodies, format : {0, 1}]
          /\ p.length = Len(p.data) \/ (p.length = -1 /\ p.data = <<>>)
      BY <2>2 DEF WishedParam
    <3>2. vs[k] = Value(p.length, p.data) /\ fs[k] = p.format
      BY <1>13, <2>4 DEF s, Meets
    <3> HIDE DEF p
    <3>3. Read(body, c, k) = [length |-> p.length, data |-> p.data, format |-> p.format]
      BY <1>9, <3>1, <3>2
    <3>4. p = [length |-> p.length, data |-> p.data, format |-> p.format]
      BY <3>1
    <3> QED
      BY <3>3, <3>4 DEF p
  <2> QED
    BY <1>7, <2>2, <2>3, <2>4 DEF CarriesOthers, c, s
<1> QED
  BY <1>12, <1>13 DEF Carries, body, results

\* The two ways to encode it.
LEMMA OwnedCarries ==
    ASSUME NEW r \in Requests, NEW b, b = parse_bind_msg(r.body), b.event,
           MayRewrite(b, r.slot), NEW m, Accounted(m, {}),
           \A k \in 1 .. Len(b.params) :
               Holds(m, k, InjectedValue(r.seen, b, k, r.slot, Identity),
                     InjectedFormat(b, k, r.slot, r.as_binary))
    PROVE  Carries(send_bind_params(m, Len(b.params), b.result_formats), r)
<1> DEFINE n == Len(b.params)
           fs == [k \in 1 .. n |-> m.params[k].format]
           Bytes(p) == IF p.length > 0 THEN m.heap[p.data] ELSE <<>>
           vs == [k \in 1 .. n |-> Value(m.params[k].length, Bytes(m.params[k]))]
           V(k) == InjectedValue(r.seen, b, k, r.slot, Identity)
           F(k) == InjectedFormat(b, k, r.slot, r.as_binary)
<1>1. /\ r.body \in Bodies /\ r.seen \in Bodies /\ Len(r.seen) = Len(r.body)
      /\ r.slot \in Nat /\ r.as_binary \in BOOLEAN
      /\ Identity \in Seq(1 .. 255) /\ FitsInt32(Len(Identity))
  BY ProxyAssumption DEF Bodies
<1>2. /\ n \in Nat /\ n <= PQWIRE_MAX_BIND_PARAMS
      /\ \A k \in 1 .. n : Inside(b.params[k], r.seen) /\ b.params[k].format \in Words
  BY <1>1, ParseBindInside, BindCodecAssumption DEF Inside
<1>3. r.slot < n
  BY DEF MayRewrite
<1>4. \A k \in 1 .. n : LegalValue(V(k)) /\ F(k) \in Words
  BY <1>1, <1>2, InjectedLegal
<1>5. send_bind_params(m, n, b.result_formats) = send_bind(<<>>, <<>>, fs, vs, b.result_formats)
  BY DEF send_bind_params
<1>6. ASSUME NEW k \in 1 .. n
      PROVE  fs[k] = F(k) /\ vs[k] = V(k)
  <2> DEFINE v == V(k)
             p == m.params[k]
  <2>1. Holds(m, k, v, F(k)) /\ LegalValue(v)
    BY <1>4
  <2>2. v = Value(v.length, v.data)
    BY DEF InjectedValue, Value
  <2>3. vs[k] = Value(p.length, Bytes(p)) /\ fs[k] = p.format
    OBVIOUS
  <2> HIDE DEF v, F, V
  <2>4. p.length = v.length /\ p.format = F(k)
    BY <2>1 DEF Holds
  <2>5. Bytes(p) = v.data
    <3>1. CASE v.length > 0
      BY <2>1, <2>4, <3>1 DEF Holds
    <3>2. CASE ~(v.length > 0)
      <4>1. v.data = <<>>
        <5>1. v.data \in Seq(0 .. 255) /\ (v.length = Len(v.data) \/ v.data = <<>>)
          BY <2>1 DEF LegalValue, Bodies
        <5>2. Len(v.data) \in Nat
          BY <5>1
        <5>3. v.length = Len(v.data) => Len(v.data) = 0
          BY <3>2, <5>2
        <5> QED
          BY <5>1, <5>3, EmptySeq
      <4> QED
        BY <2>4, <3>2, <4>1
    <3> QED
      BY <3>1, <3>2
  <2> HIDE DEF vs, fs, Bytes, p
  <2> QED
    BY <2>2, <2>3, <2>4, <2>5 DEF v
<1>7. DOMAIN vs = 1 .. n /\ Len(vs) = n /\ DOMAIN fs = 1 .. n
  BY <1>2
<1>8. fs \in [1 .. n -> Words]
  <2>1. \A k \in 1 .. n : m.params[k].format \in Words
    BY <1>4, <1>6
  <2> QED
    BY <2>1
<1> DEFINE s == r.slot + 1
<1>9. s \in 1 .. n /\ s - 1 = r.slot
  BY <1>1, <1>2, <1>3
<1> HIDE DEF vs, fs, n
<1>10. vs[s] = Value(Len(Identity), Identity) /\ fs[s] = (IF r.as_binary THEN 1 ELSE 0)
  <2>1. V(s) = Value(Len(Identity), Identity) /\ F(s) = (IF r.as_binary THEN 1 ELSE 0)
    BY <1>9 DEF InjectedValue, InjectedFormat
  <2> QED
    BY <1>6, <1>9, <2>1
<1>11. ASSUME r.wanted # <<>>, NEW k \in (1 .. n) \ {s}
       PROVE  Meets(r, k, vs[k], fs[k])
  <2> DEFINE p == r.wanted[1].params[k]
             v == b.params[k]
             d == Slice(r.seen, v.off, v.length)
  <2>1. Understood(r, b, r.wanted[1])
    BY <1>11, WishUnderstood
  <2>2. /\ WishedParam(p) /\ v.length = p.length /\ v.format = p.format
        /\ Slice(r.body, v.off, Len(p.data)) = p.data
    BY <2>1 DEF Understood, n
  <2>3. k - 1 # r.slot
    BY <1>1, <1>2, <1>9
  <2>4. V(k) = IF v.length < 0 THEN Value(-1, <<>>)
               ELSE IF v.format = 1 THEN Value(v.length, d)
               ELSE Value(Len(Text(d)), Text(d))
    BY <2>3 DEF InjectedValue
  <2>5. F(k) = IF v.length < 0 THEN v.format ELSE IF v.format = 1 THEN 1 ELSE 0
    BY <2>3 DEF InjectedFormat
  <2> HIDE DEF p, v, d, V, F
  <2>6. p \in [length : Int, data : Bodies, format : {0, 1}]
    BY <2>2 DEF WishedParam
  <2>7. F(k) = p.format /\ (V(k).length < 0 <=> p.length < 0)
    <3>1. \A l, x : Value(l, x).length = l
      BY DEF Value
    <3>2. v.length \in Int /\ (~(v.length < 0) => d \in Bodies)
      BY <1>1, <1>2, SliceType DEF Inside, d, v
    <3>3. ~(v.length < 0) => Text(d) \in Bodies
      BY <3>2, TextType
    <3>4. ~(v.length < 0) => Len(Text(d)) \in Nat
      BY <3>3 DEF Bodies
    <3> QED
      BY <2>2, <2>4, <2>5, <2>6, <3>1, <3>2, <3>4
  <2>8. ASSUME r.seen = r.body
        PROVE  V(k) = Value(p.length, p.data)
    <3>1. CASE p.length < 0
      <4>1. Len(p.data) \in Nat
        BY <2>6 DEF Bodies
      <4>2. p.length = -1 /\ p.data = <<>>
        BY <2>2, <3>1, <4>1 DEF WishedParam
      <4> QED
        BY <2>2, <2>4, <3>1, <4>2
    <3>2. CASE ~(p.length < 0)
      <4>1. p.length = Len(p.data)
        BY <2>2, <3>2 DEF WishedParam
      <4>2. d = p.data
        BY <2>2, <2>8, <4>1 DEF d
      <4>3. p.format = 0 => Text(d) = d
        BY <2>2, <2>6, <4>2, TextType DEF WishedParam
      <4> QED
        BY <2>2, <2>4, <2>6, <3>2, <4>1, <4>2, <4>3
    <3> QED
      BY <3>1, <3>2
  <2> QED
    BY <1>6, <2>7, <2>8 DEF p, Meets
<1>12. \A k \in 1 .. n : LegalValue(vs[k])
  BY <1>4, <1>6
<1>13. r.wanted # <<>> => \A k \in (1 .. n) \ {r.slot + 1} : Meets(r, k, vs[k], fs[k])
  BY <1>11
<1>14. n = Len(b.params) /\ vs[r.slot + 1] = Value(Len(Identity), Identity)
       /\ fs[r.slot + 1] = (IF r.as_binary THEN 1 ELSE 0)
  BY <1>10 DEF n
<1>15. Carries(send_bind(<<>>, <<>>, fs, vs, b.result_formats), r)
  BY <1>3, <1>7, <1>8, <1>12, <1>13, <1>14, EncodedCarries
<1> QED
  BY <1>5, <1>15 DEF n

LEMMA ConcatInner ==
    ASSUME NEW x \in Bodies, NEW y \in Bodies, NEW z \in Bodies
    PROVE  x \o (y \o z) = x \o y \o z
BY SMT DEF Bodies

LEMMA RewrittenCarries ==
    ASSUME NEW r \in Requests, NEW b, b = parse_bind_msg(r.body), b.event, MayRewrite(b, r.slot)
    PROVE  Carries(rewrite_identity_zerocopy(r.seen, b, r.slot, Identity, r.as_binary), r)
<1> DEFINE n == Len(b.params)
           Format(k) == IF k - 1 = r.slot THEN (IF r.as_binary THEN 1 ELSE 0)
                        ELSE FormatOf(b.formats, k)
           D(k) == Slice(r.seen, b.params[k].off, b.params[k].length)
           Bytes(k) ==
               LET v == b.params[k]
               IN  IF k - 1 = r.slot THEN wr32_be(Len(Identity)) \o Identity
                   ELSE IF v.length < 0 THEN wr32_be(-1)
                   ELSE wr32_be(v.length) \o Slice(r.seen, v.off, v.length)
           V(k) == IF k - 1 = r.slot THEN Value(Len(Identity), Identity)
                   ELSE IF b.params[k].length < 0 THEN Value(-1, <<>>)
                   ELSE Value(b.params[k].length, D(k))
           fs == [k \in 1 .. n |-> Format(k)]
           vs == [k \in 1 .. n |-> V(k)]
           results == b.result_formats
<1>1. /\ r.body \in Bodies /\ r.seen \in Bodies /\ Len(r.seen) = Len(r.body)
      /\ r.slot \in Nat /\ r.as_binary \in BOOLEAN
      /\ Identity \in Seq(1 .. 255) /\ FitsInt32(Len(Identity)) /\ Identity \in Bodies
  BY ProxyAssumption, NameBytes DEF Bodies
<1>2. /\ n \in Nat /\ n <= PQWIRE_MAX_BIND_PARAMS /\ b.formats \in Seq(Words)
      /\ results \in Seq(Words) /\ Len(results) <= PQWIRE_MAX_BIND_PARAMS
      /\ \A k \in 1 .. n : Inside(b.params[k], r.seen)
  BY <1>1, ParseBindInside, BindCodecAssumption DEF Inside
<1>3. r.slot < n
  BY DEF MayRewrite
<1>4. \A k \in 1 .. n : Format(k) \in Words
  <2>1. 0 \in Words /\ 1 \in Words
    BY DEF Words, Word
  <2>2. \A k \in 1 .. n : FormatOf(b.formats, k) \in Words
    BY <1>2, FormatOfType
  <2> QED
    BY <2>1, <2>2
<1>5. ASSUME NEW k \in 1 .. n
      PROVE  LegalValue(V(k)) /\ ValueBytes(V(k)) = Bytes(k)
  <2> DEFINE v == b.params[k]
             d == D(k)
  <2>1. \A x \in Bodies : FitsInt32(Len(x)) => LegalValue(Value(Len(x), x))
    BY DEF LegalValue, Value
  <2>2. \A l, x : ValueBytes(Value(l, x)) = wr32_be(l) \o x
    BY DEF ValueBytes, Value
  <2>3. CASE k - 1 = r.slot
    BY <1>1, <2>1, <2>2, <2>3
  <2>4. CASE k - 1 # r.slot /\ v.length < 0
    <3>1. FitsInt32(-1)
      BY SMT DEF FitsInt32
    <3>2. <<>> \in Bodies
      BY DEF Bodies
    <3>3. LegalValue(Value(-1, <<>>))
      BY <3>1, <3>2 DEF LegalValue, Value
    <3>4. wr32_be(-1) \o <<>> = wr32_be(-1)
      <4>1. wr32_be(-1) \in Seq(0 .. 255)
        BY <3>1, Int32Bytes
      <4> QED
        BY <4>1, ConcatEmptySeq
    <3> QED
      BY <2>2, <2>4, <3>3, <3>4
  <2>5. CASE k - 1 # r.slot /\ ~(v.length < 0)
    <3>1. v.length \in Int /\ FitsInt32(v.length) /\ v.length >= 0
      BY <1>2, <2>5 DEF Inside
    <3>2. d \in Bodies /\ Len(d) = v.length
      BY <1>1, <1>2, <3>1, SliceType
    <3>3. V(k) = Value(v.length, d) /\ Bytes(k) = wr32_be(v.length) \o d
      BY <2>5
    <3> HIDE DEF d, V, Bytes
    <3> QED
      BY <2>1, <2>2, <3>1, <3>2, <3>3
  <2> QED
    BY <2>3, <2>4, <2>5
<1>6. /\ DOMAIN vs = 1 .. n /\ Len(vs) = n /\ DOMAIN fs = 1 .. n /\ fs \in [1 .. n -> Words]
      /\ \A k \in 1 .. n : fs[k] = Format(k) /\ vs[k] = V(k)
  <2> HIDE DEF Format, V
  <2>1. fs \in [1 .. n -> Words] /\ DOMAIN fs = 1 .. n
    BY <1>4
  <2>2. DOMAIN vs = 1 .. n /\ Len(vs) = n
    BY <1>2
  <2>3. \A k \in 1 .. n : fs[k] = Format(k) /\ vs[k] = V(k)
    OBVIOUS
  <2> QED
    BY <2>1, <2>2, <2>3
<1>7. fs \in Seq(Words) /\ Len(fs) = n
  <2> HIDE DEF fs
  <2>1. n \in Nat /\ fs \in [1 .. n -> Words]
    BY <1>2, <1>6
  <2> HIDE DEF n
  <2> QED
    BY <2>1
<1> DEFINE s == r.slot + 1
           numbers == FlattenSeq([k \in 1 .. n |-> wr16_be(Format(k))])
           bytes == FlattenSeq([k \in 1 .. n |-> Bytes(k)])
           body == rewrite_identity_zerocopy(r.seen, b, r.slot, Identity, r.as_binary)
<1>8. body = Name(<<>>) \o Name(<<>>) \o wr16_be(n) \o numbers \o wr16_be(n) \o bytes
                 \o wr16_be(Len(results)) \o Numbers(results)
  BY DEF rewrite_identity_zerocopy
<1>9. numbers = Numbers(fs)
  <2>1. [k \in 1 .. n |-> wr16_be(Format(k))] = [k \in DOMAIN fs |-> wr16_be(fs[k])]
    <3> HIDE DEF fs, Format
    <3> QED
      BY <1>6
  <2> QED
    BY <2>1 DEF Numbers
<1>10. bytes = FlattenSeq([k \in DOMAIN vs |-> ValueBytes(vs[k])])
  <2>1. [k \in 1 .. n |-> Bytes(k)] = [k \in DOMAIN vs |-> ValueBytes(vs[k])]
    <3> HIDE DEF vs, Bytes, V
    <3> QED
      BY <1>5, <1>6
  <2> QED
    BY <2>1
<1> HIDE DEF vs, fs, Format, Bytes, V, D
<1>11. \A k \in 1 .. n : LegalValue(vs[k])
  BY <1>5, <1>6
<1>12. bytes \in Bodies
  BY <1>2, <1>6, <1>10, <1>11, ValuesLoop
<1>13. Numbers(fs) \in Bodies /\ Numbers(results) \in Bodies /\ Word(Len(fs)) /\ Word(Len(results))
  <2> HIDE DEF results
  <2> QED
    BY <1>2, <1>7, CountedBytes
<1>14. wr16_be(n) \in Bodies /\ wr16_be(Len(results)) \in Bodies
  BY <1>7, <1>13, WordBytes DEF Bodies
<1>15. Name(<<>>) \in Bodies
  <2>1. <<>> \in Seq(1 .. 255)
    OBVIOUS
  <2> QED
    BY <2>1, NameBytes
<1>16. send_bind(<<>>, <<>>, fs, vs, results) =
           Name(<<>>) \o Name(<<>>) \o Counted(fs) \o wr16_be(n) \o bytes \o Counted(results)
  <2>1. bytes = FlattenSeq([k \in DOMAIN vs |-> wr32_be(vs[k].length) \o vs[k].data])
    BY <1>10 DEF ValueBytes
  <2> HIDE DEF bytes, n, results
  <2>2. send_bind(<<>>, <<>>, fs, vs, results) =
            Name(<<>>) \o Name(<<>>) \o Counted(fs) \o wr16_be(Len(vs))
                \o FlattenSeq([k \in DOMAIN vs |-> wr32_be(vs[k].length) \o vs[k].data])
                \o Counted(results)
    BY DEF send_bind
  <2> QED
    BY ONLY <1>6, <2>1, <2>2
<1>17. body = send_bind(<<>>, <<>>, fs, vs, results)
  <2> DEFINE x == Name(<<>>)
             w == wr16_be(n)
             f == Numbers(fs)
             u == wr16_be(Len(results))
             g == Numbers(results)
  <2>1. Counted(fs) = w \o f /\ Counted(results) = u \o g
    BY <1>7 DEF Counted
  <2>2. x \in Bodies /\ w \in Bodies /\ f \in Bodies /\ u \in Bodies /\ g \in Bodies
    BY <1>13, <1>14, <1>15
  <2>3. body = x \o x \o w \o f \o w \o bytes \o u \o g
    BY <1>8, <1>9
  <2>4. send_bind(<<>>, <<>>, fs, vs, results) = x \o x \o (w \o f) \o w \o bytes \o (u \o g)
    BY <1>16, <2>1
  <2> HIDE DEF x, w, f, u, g, bytes, body
  <2>5. x \o x \o (w \o f) \o w \o bytes \o (u \o g) = x \o x \o w \o f \o w \o bytes \o u \o g
    <3> DEFINE z == x \o x
               y == z \o w \o f
               a == y \o w \o bytes
    <3> HIDE DEF z, y, a
    <3>1. z \in Bodies
      BY <2>2, ConcatBytes, Zenon DEF z
    <3>2. z \o w \in Bodies
      BY <2>2, <3>1, ConcatBytes, Zenon
    <3>3. y \in Bodies
      BY <2>2, <3>2, ConcatBytes, Zenon DEF y
    <3>4. z \o (w \o f) = y
      BY <2>2, <3>1, ConcatInner, Zenon DEF y
    <3>5. y \o w \in Bodies
      BY <2>2, <3>3, ConcatBytes, Zenon
    <3>6. a \in Bodies
      BY <1>12, <3>5, ConcatBytes, Zenon DEF a
    <3>7. a \o (u \o g) = a \o u \o g
      BY <2>2, <3>6, ConcatInner, Zenon
    <3> QED
      BY <3>4, <3>7, Zenon DEF a, y, z
  <2> QED
    BY <2>3, <2>4, <2>5, Zenon
<1>18. s \in 1 .. n /\ s - 1 = r.slot
  BY <1>1, <1>2, <1>3
<1>19. vs[s] = Value(Len(Identity), Identity) /\ fs[s] = (IF r.as_binary THEN 1 ELSE 0)
  BY <1>6, <1>18 DEF V, Format
<1>20. ASSUME r.wanted # <<>>, NEW k \in (1 .. n) \ {s}
       PROVE  Meets(r, k, vs[k], fs[k])
  <2> DEFINE p == r.wanted[1].params[k]
             v == b.params[k]
  <2>1. Understood(r, b, r.wanted[1])
    BY <1>20, WishUnderstood
  <2>2. /\ WishedParam(p) /\ v.length = p.length /\ FormatOf(b.formats, k) = p.format
        /\ Slice(r.body, v.off, Len(p.data)) = p.data
    BY <2>1 DEF Understood
  <2>3. k - 1 # r.slot
    BY <1>1, <1>2, <1>18
  <2>4. V(k) = IF v.length < 0 THEN Value(-1, <<>>) ELSE Value(v.length, D(k))
    BY <2>3 DEF V
  <2>5. Format(k) = p.format
    BY <2>2, <2>3 DEF Format
  <2>6. D(k) = Slice(r.seen, v.off, v.length)
    BY DEF D
  <2> HIDE DEF p, v
  <2>7. p \in [length : Int, data : Bodies, format : {0, 1}]
    BY <2>2 DEF WishedParam
  <2>8. V(k).length < 0 <=> p.length < 0
    BY <2>2, <2>4 DEF Value
  <2>9. ASSUME r.seen = r.body
        PROVE  V(k) = Value(p.length, p.data)
    <3>1. CASE p.length < 0
      <4>1. Len(p.data) \in Nat
        BY <2>7 DEF Bodies
      <4>2. p.length = -1 /\ p.data = <<>>
        BY <2>2, <3>1, <4>1 DEF WishedParam
      <4> QED
        BY <2>2, <2>4, <3>1, <4>2
    <3>2. CASE ~(p.length < 0)
      <4>1. p.length = Len(p.data)
        BY <2>2, <3>2 DEF WishedParam
      <4> QED
        BY <2>2, <2>4, <2>6, <2>9, <3>2, <4>1
    <3> QED
      BY <3>1, <3>2
  <2> QED
    BY <1>6, <2>5, <2>8, <2>9 DEF p, Meets
<1> HIDE DEF n, body
<1>21. r.wanted # <<>> => \A k \in (1 .. n) \ {r.slot + 1} : Meets(r, k, vs[k], fs[k])
  BY <1>20
<1>22. n = Len(b.params) /\ vs[r.slot + 1] = Value(Len(Identity), Identity)
       /\ fs[r.slot + 1] = (IF r.as_binary THEN 1 ELSE 0)
  BY <1>19 DEF n
<1>23. Carries(send_bind(<<>>, <<>>, fs, vs, b.result_formats), r)
  BY <1>3, <1>6, <1>11, <1>21, <1>22, EncodedCarries
<1> QED
  BY <1>17, <1>23 DEF body

-----------------------------------------------------------------------------
(* The invariant of the Bind on its way through the proxy.                 *)

Injected(m, r, b, k) ==
    Holds(m, k, InjectedValue(r.seen, b, k, r.slot, Identity),
          InjectedFormat(b, k, r.slot, r.as_binary))

Prepared ==
    /\ stage \in {"inject", "built"} =>
           request \in Requests /\ bind = parse_bind_msg(request.body) /\ bind.event
    /\ stage = "inject" => \A k \in 1 .. i - 1 : Injected(mem, request, bind, k)
    /\ stage = "built" =>
           /\ MayRewrite(bind, request.slot)
           /\ \A k \in 1 .. Len(bind.params) : Injected(mem, request, bind, k)
    /\ sent # Nothing => stage = "sent" /\ Carries(sent, request)

LEMMA PreparedInit == Init => Prepared
BY DEF Init, Prepared

LEMMA PreparedStep == Rewrites /\ Prepared /\ [Next]_vars => Prepared'
<1> SUFFICES ASSUME Rewrites, Prepared, [Next]_vars
             PROVE  Prepared'
  OBVIOUS
<1>1. ASSUME NEW r \in Requests, Receive(r)
      PROVE  Prepared'
  BY <1>1 DEF Receive, Prepared
<1>2. CASE Inject
  <2>1. /\ stage = "inject" /\ MayRewrite(bind, request.slot) /\ sent = Nothing
        /\ request' = request /\ bind' = bind /\ sent' = sent
        /\ request \in Requests /\ bind = parse_bind_msg(request.body) /\ bind.event
    BY <1>2 DEF Inject, Prepared
  <2>2. PICK o \in InjectParam(mem, request.seen, bind, i, request.slot, Identity,
                               request.as_binary) :
            /\ mem' = o.mem
            /\ IF o.rc = Failure THEN stage' = "failed" /\ i' = i
               ELSE IF i = Len(bind.params) THEN stage' = "built" /\ i' = i
               ELSE stage' = stage /\ i' = i + 1
    BY <1>2 DEF Inject
  <2>3. CASE o.rc = Failure
    BY <2>1, <2>2, <2>3 DEF Prepared
  <2>4. CASE o.rc # Failure
    <3>1. BindDecoded /\ i \in 1 .. Len(bind.params) /\ Len(bind.params) \in Nat /\ i \in Slots
      BY <2>1 DEF Rewrites, BindDecoded, Slots, MayRewrite
    <3>2. /\ request.seen \in Bodies /\ request.as_binary \in BOOLEAN
          /\ Identity \in Seq(1 .. 255) /\ Inside(bind.params[i], request.seen)
      BY <2>1, <3>1, ProxyAssumption DEF BindDecoded
    <3>3. Puts(mem, mem', i, InjectedValue(request.seen, bind, i, request.slot, Identity),
               InjectedFormat(bind, i, request.slot, request.as_binary))
      BY <2>2, <2>4, <3>1, <3>2, InjectParamPuts DEF Rewrites
    <3>4. Injected(mem', request, bind, i)
      BY <3>3 DEF Puts, Injected
    <3>5. \A k \in 1 .. i - 1 : Injected(mem', request, bind, k)
      <4> SUFFICES ASSUME NEW k \in 1 .. i - 1
                   PROVE  Injected(mem', request, bind, k)
        OBVIOUS
      <4>1. k \in Slots \ {i}
        BY <3>1, BindCodecAssumption DEF Slots
      <4>2. Same(mem, mem', k)
        BY <3>3, <4>1 DEF Puts
      <4>3. Injected(mem, request, bind, k)
        BY <2>1 DEF Prepared
      <4> QED
        BY <4>2, <4>3, SameHolds DEF Injected
    <3>6. \A k \in 1 .. i : k \in 1 .. i - 1 \/ k = i
      BY <3>1
    <3>7. \A k \in 1 .. i : Injected(mem', request, bind, k)
      BY <3>4, <3>5, <3>6
    <3>8. CASE i = Len(bind.params)
      <4>1. stage' = "built"
        BY <2>2, <2>4, <3>8
      <4> QED
        BY <2>1, <3>7, <3>8, <4>1 DEF Prepared
    <3>9. CASE i # Len(bind.params)
      <4>1. stage' = "inject" /\ i' = i + 1 /\ i' - 1 = i
        BY <2>1, <2>2, <2>4, <3>1, <3>9
      <4> QED
        BY <2>1, <3>7, <4>1 DEF Prepared
    <3> QED
      BY <3>8, <3>9
  <2> QED
    BY <2>3, <2>4
<1>3. CASE Reject
  BY <1>3 DEF Reject, requestVars, Prepared
<1>4. CASE GiveUp
  BY <1>4 DEF GiveUp, Prepared
<1>5. CASE SendPipeline
  <2>1. /\ request \in Requests /\ bind = parse_bind_msg(request.body) /\ bind.event
        /\ MayRewrite(bind, request.slot) /\ Accounted(mem, {})
        /\ \A k \in 1 .. Len(bind.params) : Injected(mem, request, bind, k)
    BY <1>5 DEF SendPipeline, Prepared, Rewrites
  <2>2. Carries(send_bind_params(mem, Len(bind.params), bind.result_formats), request)
    BY <2>1, OwnedCarries DEF Injected
  <2>3. /\ stage' = "sent" /\ request' = request
        /\ sent' = send_bind_params(mem, Len(bind.params), bind.result_formats)
    BY <1>5 DEF SendPipeline, Dispatch
  <2> QED
    BY <2>2, <2>3 DEF Prepared
<1>6. CASE SendPipelineRefused
  <2>1. stage' = "sent" /\ sent' = Nothing
    BY <1>6 DEF SendPipelineRefused, Refused, Dispatch
  <2> QED
    BY <2>1 DEF Prepared
<1>7. CASE SendRewritten
  <2>1. /\ request \in Requests /\ bind = parse_bind_msg(request.body) /\ bind.event
        /\ MayRewrite(bind, request.slot)
    BY <1>7 DEF SendRewritten, Prepared
  <2>2. Carries(rewrite_identity_zerocopy(request.seen, bind, request.slot, Identity,
                                          request.as_binary), request)
    BY <2>1, RewrittenCarries
  <2>3. /\ stage' = "sent" /\ request' = request
        /\ sent' = rewrite_identity_zerocopy(request.seen, bind, request.slot, Identity,
                                             request.as_binary)
    BY <1>7 DEF SendRewritten, Dispatch
  <2> QED
    BY <2>2, <2>3 DEF Prepared
<1>14. CASE SendRewrittenRefused
  <2>1. stage' = "sent" /\ sent' = Nothing
    BY <1>14 DEF SendRewrittenRefused, Refused, Dispatch
  <2> QED
    BY <2>1 DEF Prepared
<1>8. CASE ClearParams
  BY <1>8 DEF ClearParams, Prepared
<1>9. CASE FeedBackend
  <2>1. stage = "drain" /\ stage' \in {"drain", "done"} /\ sent' = sent
    BY <1>9 DEF FeedBackend, requestVars
  <2> QED
    BY <2>1 DEF Prepared
<1>10. CASE Finish
  BY <1>10 DEF Finish, Prepared
<1>11. CASE ServerAnswers
  <2>1. stage = "drain" /\ stage' = "drain" /\ sent' = sent
    BY <1>11 DEF ServerAnswers, requestVars
  <2> QED
    BY <2>1 DEF Prepared
<1>12. CASE ServerNotifies
  <2>1. stage \in {"drain", "done"} /\ stage' = stage /\ sent' = sent
    BY <1>12 DEF ServerNotifies, requestVars
  <2> QED
    BY <2>1 DEF Prepared
<1>13. CASE UNCHANGED vars
  BY <1>13 DEF vars, Prepared
<1> QED
  BY <1>1, <1>2, <1>3, <1>4, <1>5, <1>6, <1>7, <1>8, <1>9, <1>10, <1>11, <1>12, <1>13,
     <1>14 DEF Next

\* Whatever the frontend's Bind held, the Bind that leaves the proxy decodes,
\* has the slot, and the slot holds the identity in the format asked for: both
\* by pqwire_bind_inject_identity and send_bind_params, and by the rewrite
\* without copies.
THEOREM IdentityCorrect == Spec => []IdentityAlwaysInSlot
<1>1. Prepared => IdentityAlwaysInSlot
  BY DEF Prepared, Carries, CarriesIdentity, IdentityAlwaysInSlot
<1> QED
  BY <1>1, RewritesInit, RewritesStep, PreparedInit, PreparedStep, PTL DEF Spec

\* The other parameters and the result formats of a Bind within the limits
\* reach the backend as the frontend means them, through parse_bind_msg, the
\* owned copies or the rewrite, and the encoder: their number, formats and NULLs
\* whatever else was in the chunk, their bytes if the Bind was the last in it.
THEOREM OthersCorrect == Spec => []OthersUntouched
<1>1. Prepared => OthersUntouched
  BY DEF Prepared, Carries, CarriesOthers, OthersUntouched
<1> QED
  BY <1>1, RewritesInit, RewritesStep, PreparedInit, PreparedStep, PTL DEF Spec

=============================================================================
