-------------------------- MODULE DialecticProofs --------------------------
(***************************************************************************)
(* Proofs about the client and the server: for any number of requests,      *)
(* connections and rows, any interleaving of the two applications and the   *)
(* transport, and any way the output is cut when it is moved.               *)
(***************************************************************************)
EXTENDS Dialectic, NatRecursion

\* The client that waits for READY_FOR_QUERY, and queues as long as the longest
\* exchange: seven commands of the client, six answers and the rows.
Sized ==
    /\ Discipline = "event"
    /\ EventQueueSize >= 7
    /\ \A n \in RowCounts : n + 6 <= EventQueueSize

-----------------------------------------------------------------------------
(* The invariant.  One exchange at a time is under way: the client sends a  *)
(* script, the server's application has handled the first k messages of it, *)
(* m of them have reached the server.                                       *)

Kinds == {"startup", "simple", "pipeline", "described", "terminate"}
Script(kind, q) ==
    CASE kind = "startup" -> <<Message(Startup, 0)>>
      [] kind = "simple" -> <<Message("Q", q)>>
      [] kind = "pipeline" ->
             <<Message("P", q), Unnamed("B"), Unnamed("E"), Unnamed("S")>>
      [] kind = "described" ->
             <<Message("P", q), Unnamed("B"), Unnamed("D"), Unnamed("H"),
               Unnamed("E"), Unnamed("C"), Unnamed("S")>>
      [] OTHER -> <<Unnamed("X")>>
Size(kind) ==
    CASE kind = "pipeline" -> 4 [] kind = "described" -> 7 [] OTHER -> 1

\* The query or the Execute of the script is still to be handled, and so are
\* the messages that ReadyForQuery answers.
Owed(kind, k) ==
    \/ kind = "simple" /\ k < 1
    \/ kind = "pipeline" /\ k < 3
    \/ kind = "described" /\ k < 5
Finished(kind, k) == k = Size(kind) \/ kind = "terminate"

ServerTypes == {"Q", "P", "B", "D", "E", "C", "S", "H", "X"}
Answering == {"R", "Z", "T", "D", "C", "E", "1", "2", "3", "n"}
EventTypes ==
    {"STARTUP", "QUERY", "PARSE", "BIND", "DESCRIBE", "EXECUTE", "CLOSE", "SYNC", "FLUSH",
     "TERMINATE", "AUTHENTICATION_OK", "READY_FOR_QUERY", "ROW_DESCRIPTION", "DATA_ROW",
     "COMMAND_COMPLETE", "ERROR_RESPONSE", "PARSE_COMPLETE", "BIND_COMPLETE",
     "CLOSE_COMPLETE", "NO_DATA"}
Event == [type : EventTypes, text : Nat]
Msg == [type : ServerTypes \cup Answering \cup {Startup, "p"}, text : Nat, ok : BOOLEAN]
ContextType ==
    [role : {Client, Server},
     proto_state : Phases,
     auth_state : {"NONE", "CLIENT_FIRST", "DONE"},
     startup_seen : BOOLEAN,
     events : Seq(Event),
     scratch : [ScratchTypes -> Nat],
     output : Seq(Msg),
     lost : Nat]
Contexts(c, s) ==
    /\ c \in ContextType /\ c.role = Client /\ c.lost = 0
    /\ s \in ContextType /\ s.role = Server /\ s.lost = 0

\* The commands of the client: m have reached the server, the others wait in
\* the output, before or behind the password of pqwire_start_auth.
Password == Message("p", 0)
Command(m) ==
    [type |-> IF m.type = Startup THEN "STARTUP" ELSE EventOf(Server)[m.type],
     text |-> m.text]
Unsent(kind, q, m) == SubSeq(Script(kind, q), m + 1, Size(kind))
Outgoing(out, kind, q, m) ==
    \/ out = Unsent(kind, q, m)
    \/ (kind = "startup" => m = 1) /\ out = <<Password>> \o Unsent(kind, q, m)
    \/ kind = "startup" /\ m = 0 /\ out = <<Message(Startup, 0), Password>>
PhaseOf(kind, k, m) ==
    CASE kind = "startup" /\ m = 0 -> "STARTUP"
      [] kind = "startup" /\ m = 1 /\ k = 0 -> "AUTHENTICATING"
      [] kind = "simple" /\ m = 1 /\ k = 0 -> "QUERYING"
      [] OTHER -> "READY"
Commands(c, s, q, kind, k, m) ==
    /\ Len(s.events) = m - k
    /\ \A j \in 1 .. m - k : s.events[j] = Command(Script(kind, q)[k + j])
    /\ Outgoing(c.output, kind, q, m)
    /\ kind = "simple" /\ k = 0 /\ m = 1 => s.scratch["QUERY"] = q
    /\ s.startup_seen = ~(kind = "startup" /\ m = 0)
    /\ s.proto_state = PhaseOf(kind, k, m)

\* The answers of the server: the types of the events that are queued at the
\* client or on their way to it.
Pending(events, out) ==
    [j \in 1 .. Len(events) + Len(out) |->
        IF j <= Len(events) THEN events[j].type
        ELSE EventOf(Client)[out[j - Len(events)].type]]
Concluding == {"COMMAND_COMPLETE", "ERROR_RESPONSE"}
NoneIn(y, T) == \A j \in 1 .. Len(y) : y[j] \notin T
OnceIn(y, T) ==
    \E i \in 1 .. Len(y) : y[i] \in T /\ \A j \in 1 .. Len(y) : y[j] \in T => j = i
ReadyLast(y) ==
    y # <<>> /\ \A j \in 1 .. Len(y) : y[j] = "READY_FOR_QUERY" <=> j = Len(y)
Due(y, kind, k, a, n, r) ==
    /\ k = 0 => y = <<>>
    /\ Owed(kind, k) => n = a - 1 /\ NoneIn(y, Concluding) /\ Len(y) <= k /\ Len(y) <= 3
    /\ ~Owed(kind, k) =>
           /\ Len(y) + (Size(kind) - k) <= EventQueueSize
           /\ \/ n = a /\ NoneIn(y, Concluding)
              \/ n = a - 1 /\ OnceIn(y, Concluding)
    /\ ~Finished(kind, k) => r = a /\ NoneIn(y, {"READY_FOR_QUERY"})
    /\ Finished(kind, k) =>
           \/ r = a + 1 /\ y = <<>>
           \/ r = a /\ ReadyLast(y)

\* The texts: those of the answers are the last request's.
Texts(c, s, q) ==
    /\ \A j \in 1 .. Len(s.output) :
           /\ s.output[j].ok /\ s.output[j].type \in Answering
           /\ s.output[j].type = "C" => s.output[j].text = q
    /\ \A j \in 1 .. Len(c.events) :
           c.events[j].type = "COMMAND_COMPLETE" => c.scratch["COMMAND_COMPLETE"] = q

\* The client may authenticate only before its AuthenticationOk arrives.
Unauthenticated(c, s, kind, q, k, m) ==
    /\ c.auth_state # "DONE" =>
           /\ kind = "startup" /\ c.events = <<>>
           /\ k = 1 => s.output = <<Message("R", 0), Ready>>
    /\ c.auth_state = "NONE" => c.output = Unsent(kind, q, m)

Counters(q, a, ans, r) ==
    /\ q \in 0 .. MaxRequests /\ a \in 0 .. q
    /\ ans \in Seq(0 .. MaxRequests) /\ r \in 0 .. a + 1
    /\ \A j \in 1 .. Len(ans) : ans[j] \in {q - a + j, Failed}

Exchange(c, s, q, a, ans, r, stm, o, kind, k, m) ==
    /\ kind \in Kinds /\ k \in Nat /\ m \in Nat /\ k <= m /\ m <= Size(kind)
    /\ Contexts(c, s)
    /\ Commands(c, s, q, kind, k, m)
    /\ Due(Pending(c.events, s.output), kind, k, a, Len(ans), r)
    /\ Texts(c, s, q)
    /\ Unauthenticated(c, s, kind, q, k, m)
    /\ Counters(q, a, ans, r)
    /\ stm \in Nat
    /\ kind \in {"pipeline", "described"} /\ k >= 1 => stm = q
    /\ kind = "startup" => a = 0
    /\ kind = "terminate" => r = a + 1 /\ o = FALSE

Exchanging ==
    \E kind \in Kinds : \E k, m \in 0 .. Size(kind) :
        Exchange(client, server, requests, asked, answers, readies, statement, open,
                 kind, k, m)

-----------------------------------------------------------------------------
(* The events of the messages.                                             *)

LEMMA ServerEvents ==
    /\ DOMAIN EventOf(Server) = ServerTypes
    /\ EventOf(Server)["Q"] = "QUERY" /\ EventOf(Server)["P"] = "PARSE"
    /\ EventOf(Server)["B"] = "BIND" /\ EventOf(Server)["D"] = "DESCRIBE"
    /\ EventOf(Server)["E"] = "EXECUTE" /\ EventOf(Server)["C"] = "CLOSE"
    /\ EventOf(Server)["S"] = "SYNC" /\ EventOf(Server)["H"] = "FLUSH"
    /\ EventOf(Server)["X"] = "TERMINATE"
BY DEF EventOf, Server, ServerTypes

LEMMA ClientEvents ==
    /\ Answering \subseteq DOMAIN EventOf(Client)
    /\ EventOf(Client)["R"] = "AUTHENTICATION_OK" /\ EventOf(Client)["Z"] = "READY_FOR_QUERY"
    /\ EventOf(Client)["T"] = "ROW_DESCRIPTION" /\ EventOf(Client)["D"] = "DATA_ROW"
    /\ EventOf(Client)["C"] = "COMMAND_COMPLETE" /\ EventOf(Client)["E"] = "ERROR_RESPONSE"
    /\ EventOf(Client)["1"] = "PARSE_COMPLETE" /\ EventOf(Client)["2"] = "BIND_COMPLETE"
    /\ EventOf(Client)["3"] = "CLOSE_COMPLETE" /\ EventOf(Client)["n"] = "NO_DATA"
BY DEF EventOf, Client, Server, Answering

-----------------------------------------------------------------------------
(* What the library's functions do to a context.                           *)

Raised(c, d, type, text) ==
    /\ d \in ContextType /\ d.role = c.role /\ d.output = c.output /\ d.lost = c.lost
    /\ d.events = Append(c.events, [type |-> type, text |-> text])
    /\ d.scratch = IF type \in ScratchTypes THEN [c.scratch EXCEPT ![type] = text] ELSE c.scratch
    /\ d.proto_state = PhaseAfter(type, c.proto_state)
    /\ d.startup_seen = (c.startup_seen \/ type = "STARTUP")
    /\ d.auth_state = IF type = "AUTHENTICATION_OK" THEN "DONE" ELSE c.auth_state

Fields == {"role", "proto_state", "auth_state", "startup_seen", "events", "scratch", "output",
           "lost"}
Fielded(c) ==
    /\ DOMAIN c = Fields /\ c = [f \in Fields |-> c[f]]
    /\ c.role \in {Client, Server} /\ c.proto_state \in Phases
    /\ c.auth_state \in {"NONE", "CLIENT_FIRST", "DONE"} /\ c.startup_seen \in BOOLEAN
    /\ c.events \in Seq(Event) /\ c.scratch \in [ScratchTypes -> Nat]
    /\ c.output \in Seq(Msg) /\ c.lost \in Nat

LEMMA ContextFields ==
    ASSUME NEW c \in ContextType
    PROVE  Fielded(c)
<1> DEFINE E == Seq(Event)
           M == Seq(Msg)
           N == [ScratchTypes -> Nat]
<1> HIDE DEF E, M, N
<1> QED
  BY DEF ContextType, Fielded, Fields, E, M, N

LEMMA FieldsContext ==
    ASSUME NEW c, Fielded(c)
    PROVE  c \in ContextType
<1> DEFINE E == Seq(Event)
           M == Seq(Msg)
           N == [ScratchTypes -> Nat]
           d == [role |-> c.role, proto_state |-> c.proto_state, auth_state |-> c.auth_state,
                 startup_seen |-> c.startup_seen, events |-> c.events, scratch |-> c.scratch,
                 output |-> c.output, lost |-> c.lost]
<1> HIDE DEF E, M, N
<1>1. d \in ContextType
  BY DEF ContextType, Fielded, E, M, N
<1>2. c = d
  BY DEF Fielded, Fields
<1> QED
  BY <1>1, <1>2

LEMMA RaiseRaises ==
    ASSUME NEW c \in ContextType, NEW type \in EventTypes, NEW text \in Nat,
           Len(c.events) < EventQueueSize
    PROVE  Raised(c, Raise(c, type, text), type, text)
<1> DEFINE ev == [type |-> type, text |-> text]
           e == EnqueueEvent(c, type, text)
           sc == IF type \in ScratchTypes THEN [c.scratch EXCEPT ![type] = text] ELSE c.scratch
           d == Raise(c, type, text)
<1>1. ev \in Event
  BY DEF Event
<1>2. Fielded(c) /\ ~(Len(c.events) >= EventQueueSize)
  BY ContextFields, ContextAssumption, LenProperties DEF Fielded
<1>3. e = [c EXCEPT !.events = Append(c.events, ev), !.scratch = sc, !.lost = c.lost]
  BY <1>2 DEF EnqueueEvent
<1>4. sc \in [ScratchTypes -> Nat]
  BY <1>2 DEF Fielded
<1>5. Append(c.events, ev) \in Seq(Event)
  <2> HIDE DEF ev
  <2> QED
    BY <1>1, <1>2, AppendProperties DEF Fielded
<1> DEFINE ap == Append(c.events, ev)
<1> HIDE DEF sc, ap
<1>6. /\ DOMAIN e = Fields /\ e.events = ap /\ e.scratch = sc /\ e.lost = c.lost
      /\ e.role = c.role /\ e.output = c.output /\ e.proto_state = c.proto_state
      /\ e.auth_state = c.auth_state /\ e.startup_seen = c.startup_seen
  BY <1>2, <1>3 DEF Fielded, Fields, ap
<1>7. PhaseAfter(type, c.proto_state) \in Phases
  BY <1>2 DEF PhaseAfter, Phases, Fielded
<1>8. d = [e EXCEPT !.proto_state = PhaseAfter(type, c.proto_state),
                    !.startup_seen = (c.startup_seen \/ type = "STARTUP"),
                    !.auth_state = IF type = "AUTHENTICATION_OK" THEN "DONE" ELSE c.auth_state]
  BY <1>6 DEF Raise
<1> HIDE DEF e, d
<1>9. /\ DOMAIN d = Fields /\ d.events = ap /\ d.scratch = sc /\ d.lost = c.lost
      /\ d.role = c.role /\ d.output = c.output
      /\ d.proto_state = PhaseAfter(type, c.proto_state)
      /\ d.startup_seen = (c.startup_seen \/ type = "STARTUP")
      /\ d.auth_state = IF type = "AUTHENTICATION_OK" THEN "DONE" ELSE c.auth_state
  BY <1>6, <1>8 DEF Fields
<1>10. d = [f \in Fields |-> d[f]]
  BY <1>6, <1>8
<1>11. Fielded(d)
  BY <1>2, <1>4, <1>5, <1>7, <1>9, <1>10 DEF Fielded, ap
<1> QED
  BY <1>9, <1>11, FieldsContext DEF Raised, sc, d, ap

LEMMA HandleCommand ==
    ASSUME NEW s \in ContextType, s.role = Server, Len(s.events) < EventQueueSize,
           NEW m \in Msg, m.ok, m.type \in ServerTypes \cup {Startup},
           m.type = Startup => ~s.startup_seen
    PROVE  Raised(s, HandleMessage(s, m), Command(m).type, m.text)
<1>1. m.text \in Nat
  BY DEF Msg
<1>2. Startup \notin ServerTypes
  BY DEF Startup, ServerTypes
<1>3. CASE m.type = Startup
  <2>1. HandleMessage(s, m) = Raise(s, "STARTUP", m.text) /\ Command(m).type = "STARTUP"
    BY <1>3 DEF HandleMessage, Command
  <2> QED
    BY <1>1, <2>1, RaiseRaises DEF EventTypes
<1>4. CASE m.type \in ServerTypes
  <2>1. m.type # Startup /\ ~Ignored(s.role, m)
    BY <1>2, <1>4, ServerEvents DEF Ignored
  <2>2. /\ HandleMessage(s, m) = Raise(s, EventOf(Server)[m.type], m.text)
        /\ Command(m).type = EventOf(Server)[m.type]
    BY <2>1 DEF HandleMessage, Command
  <2>3. EventOf(Server)[m.type] \in EventTypes
    BY <1>4, ServerEvents DEF ServerTypes, EventTypes
  <2> QED
    BY <1>1, <2>2, <2>3, RaiseRaises
<1> QED
  BY <1>3, <1>4

LEMMA HandlePassword ==
    ASSUME NEW s, s.role = Server
    PROVE  HandleMessage(s, Password) = s
<1>1. Password.type = "p" /\ "p" # Startup /\ "p" \notin ServerTypes
  BY DEF Password, Message, Startup, ServerTypes
<1> QED
  BY <1>1, ServerEvents DEF HandleMessage, Ignored

LEMMA AnsweringEvents ==
    ASSUME NEW t \in Answering
    PROVE  /\ EventOf(Client)[t] \in EventTypes /\ t # Startup /\ t \in DOMAIN EventOf(Client)
           /\ EventOf(Client)[t] = "COMMAND_COMPLETE" <=> t = "C"
           /\ EventOf(Client)[t] = "AUTHENTICATION_OK" <=> t = "R"
           /\ EventOf(Client)[t] = "READY_FOR_QUERY" <=> t = "Z"
           /\ EventOf(Client)[t] \in Concluding <=> t \in {"C", "E"}
BY ClientEvents DEF Answering, Startup, Concluding, EventTypes

LEMMA HandleAnswer ==
    ASSUME NEW c \in ContextType, c.role = Client, Len(c.events) < EventQueueSize,
           NEW m \in Msg, m.ok, m.type \in Answering
    PROVE  Raised(c, HandleMessage(c, m), EventOf(Client)[m.type], m.text)
<1>1. m.text \in Nat
  BY DEF Msg
<1>2. /\ m.type # Startup /\ ~Ignored(c.role, m)
      /\ EventOf(Client)[m.type] \in EventTypes
  BY AnsweringEvents DEF Ignored
<1>3. HandleMessage(c, m) = Raise(c, EventOf(Client)[m.type], m.text)
  BY <1>2 DEF HandleMessage
<1> QED
  BY <1>1, <1>2, <1>3, RaiseRaises

\* A context of which only the output, or only the events have changed.
OnlyOutput(c, d) ==
    /\ d \in ContextType /\ d.role = c.role /\ d.lost = c.lost /\ d.events = c.events
    /\ d.scratch = c.scratch /\ d.startup_seen = c.startup_seen
OnlyEvents(c, d) ==
    /\ d \in ContextType /\ d.role = c.role /\ d.lost = c.lost /\ d.output = c.output
    /\ d.scratch = c.scratch /\ d.startup_seen = c.startup_seen
    /\ d.proto_state = c.proto_state /\ d.auth_state = c.auth_state

LEMMA TakeOutputTakes ==
    ASSUME NEW c \in ContextType, NEW n \in 0 .. Len(c.output)
    PROVE  LET d == TakeOutput(c, n)
           IN  /\ OnlyOutput(c, d) /\ d.output = SubSeq(c.output, n + 1, Len(c.output))
               /\ d.proto_state = c.proto_state /\ d.auth_state = c.auth_state
<1> DEFINE d == TakeOutput(c, n)
           u == SubSeq(c.output, n + 1, Len(c.output))
<1>1. Fielded(c)
  BY ContextFields
<1>2. u \in Seq(Msg)
  <2>1. c.output \in Seq(Msg) /\ Len(c.output) \in Nat /\ n \in Nat
    BY <1>1, LenProperties DEF Fielded
  <2>2. \A j \in n + 1 .. Len(c.output) : j \in 1 .. Len(c.output)
    BY <2>1
  <2> QED
    BY <2>1, <2>2, SubSeqProperties
<1>3. d = [c EXCEPT !.output = u]
  BY DEF TakeOutput
<1> HIDE DEF u
<1>4. /\ DOMAIN d = Fields /\ d = [f \in Fields |-> d[f]] /\ d.output = u
      /\ d.role = c.role /\ d.lost = c.lost /\ d.events = c.events
      /\ d.scratch = c.scratch /\ d.startup_seen = c.startup_seen
      /\ d.proto_state = c.proto_state /\ d.auth_state = c.auth_state
  BY <1>1, <1>3 DEF Fielded, Fields
<1> HIDE DEF d
<1>5. Fielded(d)
  BY <1>1, <1>2, <1>4 DEF Fielded
<1> QED
  BY <1>4, <1>5, FieldsContext DEF OnlyOutput, d, u

LEMMA SendAllSends ==
    ASSUME NEW c \in ContextType, NEW msgs \in Seq(Msg)
    PROVE  LET d == SendAll(c, msgs)
           IN  /\ OnlyOutput(c, d) /\ d.output = c.output \o msgs
               /\ d.proto_state = IF \E j \in DOMAIN msgs : msgs[j].type = "Z" THEN "READY"
                                  ELSE c.proto_state
               /\ d.auth_state = c.auth_state
<1> DEFINE d == SendAll(c, msgs)
           u == c.output \o msgs
           ph == IF \E j \in DOMAIN msgs : msgs[j].type = "Z" THEN "READY" ELSE c.proto_state
<1>1. Fielded(c)
  BY ContextFields
<1>2. u \in Seq(Msg)
  BY <1>1, ConcatProperties DEF Fielded
<1>3. d = [c EXCEPT !.output = u, !.proto_state = ph]
  BY DEF SendAll
<1>4. ph \in Phases
  BY <1>1 DEF Fielded, Phases
<1> HIDE DEF u, ph
<1>5. /\ DOMAIN d = Fields /\ d = [f \in Fields |-> d[f]] /\ d.output = u
      /\ d.role = c.role /\ d.lost = c.lost /\ d.events = c.events
      /\ d.scratch = c.scratch /\ d.startup_seen = c.startup_seen
      /\ d.proto_state = ph /\ d.auth_state = c.auth_state
  BY <1>1, <1>3 DEF Fielded, Fields
<1> HIDE DEF d
<1>6. Fielded(d)
  BY <1>1, <1>2, <1>4, <1>5 DEF Fielded
<1> QED
  BY <1>5, <1>6, FieldsContext DEF OnlyOutput, d, u, ph

LEMMA DropEventDrops ==
    ASSUME NEW c \in ContextType, c.events # <<>>
    PROVE  OnlyEvents(c, DropEvent(c)) /\ DropEvent(c).events = Tail(c.events)
<1> DEFINE d == DropEvent(c)
           u == Tail(c.events)
<1>1. Fielded(c)
  BY ContextFields
<1>2. u \in Seq(Event)
  BY <1>1, HeadTailProperties DEF Fielded
<1>3. d = [c EXCEPT !.events = u]
  BY DEF DropEvent
<1> HIDE DEF u
<1>4. /\ DOMAIN d = Fields /\ d = [f \in Fields |-> d[f]] /\ d.output = c.output
      /\ d.role = c.role /\ d.lost = c.lost /\ d.events = u
      /\ d.scratch = c.scratch /\ d.startup_seen = c.startup_seen
      /\ d.proto_state = c.proto_state /\ d.auth_state = c.auth_state
  BY <1>1, <1>3 DEF Fielded, Fields
<1> HIDE DEF d
<1>5. Fielded(d)
  BY <1>1, <1>2, <1>4 DEF Fielded
<1> QED
  BY <1>4, <1>5, FieldsContext DEF OnlyEvents, d, u

\* pqwire_feed_input handles one message after the other.
Handling(f, ctx, msgs) ==
    f[0] = ctx /\ \A k \in 1 .. Len(msgs) : f[k] = HandleMessage(f[k - 1], msgs[k])

LEMMA FeedHandles ==
    ASSUME NEW ctx, NEW msgs \in Seq(Msg),
           ~(ctx.role = Server /\ ~ctx.startup_seen /\ msgs # <<>> /\ msgs[1].type # Startup)
    PROVE  \E f : Handling(f, ctx, msgs) /\ FeedInput(ctx, msgs) = f[Len(msgs)]
<1> DEFINE n == Len(msgs)
           Step(f, k) == IF k = 0 THEN ctx ELSE HandleMessage(f[k - 1], msgs[k])
           Rec(f, m) == f = [k \in 0 .. m |-> Step(f, k)]
           T == {m \in Nat : \E f : Rec(f, m)}
<1>1. n \in Nat
  BY LenProperties
<1>2. 0 \in T
  <2> DEFINE f == [k \in 0 .. 0 |-> ctx]
  <2>1. Rec(f, 0)
    OBVIOUS
  <2> QED
    BY <2>1
<1>3. ASSUME NEW m \in Nat, m \in T
      PROVE  m + 1 \in T
  <2>1. PICK f : Rec(f, m)
    BY <1>3
  <2> DEFINE g == [k \in 0 .. m + 1 |-> IF k <= m THEN f[k]
                                        ELSE HandleMessage(f[m], msgs[m + 1])]
  <2>2. ASSUME NEW k \in 0 .. m + 1
        PROVE  g[k] = Step(g, k)
    <3>1. CASE k = 0
      BY <2>1, <3>1
    <3>2. CASE k # 0 /\ k <= m
      <4>1. g[k] = f[k] /\ g[k - 1] = f[k - 1]
        BY <3>2
      <4>2. f[k] = HandleMessage(f[k - 1], msgs[k])
        BY <2>1, <3>2
      <4> HIDE DEF g
      <4> QED
        BY <3>2, <4>1, <4>2
    <3>3. CASE k = m + 1
      <4>1. g[k] = HandleMessage(f[m], msgs[m + 1]) /\ g[k - 1] = f[m]
        BY <3>3
      <4> HIDE DEF g
      <4> QED
        BY <3>3, <4>1
    <3> QED
      BY <3>1, <3>2, <3>3
  <2>3. Rec(g, m + 1)
    <3>1. g = [k \in 0 .. m + 1 |-> g[k]]
      OBVIOUS
    <3> HIDE DEF g, Step
    <3> QED
      BY <2>2, <3>1
  <2> HIDE DEF g, Rec
  <2> QED
    BY <2>3
<1> HIDE DEF T
<1>4. n \in T
  BY <1>1, <1>2, <1>3, SetInduction
<1> DEFINE h == CHOOSE f : f = [k \in 0 .. n |-> Step(f, k)]
<1>5. h = [k \in 0 .. n |-> Step(h, k)]
  BY <1>4 DEF T
<1>6. FeedInput(ctx, msgs) = h[n]
  BY DEF FeedInput
<1>7. Handling(h, ctx, msgs)
  <2> HIDE DEF h
  <2>1. h[0] = ctx
    BY <1>1, <1>5
  <2>2. \A k \in 1 .. n : h[k] = HandleMessage(h[k - 1], msgs[k])
    BY <1>1, <1>5
  <2> QED
    BY <2>1, <2>2 DEF Handling
<1> HIDE DEF h
<1> QED
  BY <1>6, <1>7

-----------------------------------------------------------------------------
(* The answers under way.                                                  *)

AnswersOnly(out) == \A j \in 1 .. Len(out) : out[j].ok /\ out[j].type \in Answering

LEMMA PendingType ==
    ASSUME NEW ev \in Seq(Event), NEW out \in Seq(Msg), AnswersOnly(out)
    PROVE  /\ Len(ev) \in Nat /\ Len(out) \in Nat
           /\ Pending(ev, out) \in Seq(EventTypes)
           /\ Len(Pending(ev, out)) = Len(ev) + Len(out)
           /\ \A j \in 1 .. Len(ev) : Pending(ev, out)[j] = ev[j].type
           /\ \A j \in 1 .. Len(out) :
                  Pending(ev, out)[Len(ev) + j] = EventOf(Client)[out[j].type]
<1> DEFINE a == Len(ev)
           b == Len(out)
           V(j) == IF j <= a THEN ev[j].type ELSE EventOf(Client)[out[j - a].type]
           y == [j \in 1 .. a + b |-> V(j)]
<1>1. a \in Nat /\ b \in Nat
  BY LenProperties
<1>2. ASSUME NEW j \in 1 .. a + b
      PROVE  V(j) \in EventTypes
  <2>1. CASE j <= a
    <3>1. j \in 1 .. a
      BY <1>1, <2>1
    <3>2. ev[j] \in Event
      BY <3>1, ElementOfSeq
    <3> QED
      BY <2>1, <3>2 DEF Event
  <2>2. CASE ~(j <= a)
    <3>1. j - a \in 1 .. b
      BY <1>1, <2>2
    <3>2. out[j - a].type \in Answering
      BY <3>1 DEF AnswersOnly
    <3> QED
      BY <2>2, <3>2, AnsweringEvents
  <2> QED
    BY <2>1, <2>2
<1>3. y = Pending(ev, out)
  BY DEF Pending
<1>4. \A j \in 1 .. a : V(j) = ev[j].type
  BY <1>1
<1>5. \A j \in 1 .. b : V(a + j) = EventOf(Client)[out[j].type] /\ a + j \in 1 .. a + b
  BY <1>1
<1>6. \A j \in 1 .. a : j \in 1 .. a + b
  BY <1>1
<1> HIDE DEF V, a, b
<1>7. y \in Seq(EventTypes) /\ Len(y) = a + b /\ \A j \in 1 .. a + b : y[j] = V(j)
  BY <1>1, <1>2
<1> HIDE DEF y
<1> QED
  BY <1>1, <1>3, <1>4, <1>5, <1>6, <1>7 DEF a, b

LEMMA PendingMoved ==
    ASSUME NEW ev \in Seq(Event), NEW out \in Seq(Msg), out # <<>>, NEW e \in Event,
           e.type = EventOf(Client)[Head(out).type]
    PROVE  Pending(Append(ev, e), Tail(out)) = Pending(ev, out)
<1> DEFINE a == Len(ev)
           b == Len(out)
           x == Append(ev, e)
           u == Tail(out)
<1>1. a \in Nat /\ b \in Nat /\ b >= 1
  BY LenProperties, EmptySeq
<1>2. /\ Len(x) = a + 1 /\ x[a + 1] = e
      /\ \A j \in 1 .. a : x[j] = ev[j]
  BY AppendProperties
<1>3. Len(u) = b - 1 /\ \A j \in 1 .. b - 1 : u[j] = out[j + 1]
  BY HeadTailProperties
<1>4. Head(out) = out[1]
  BY DEF Head
<1> HIDE DEF x, u, a, b
<1>5. ASSUME NEW j \in 1 .. a + b
      PROVE  (IF j <= Len(x) THEN x[j].type ELSE EventOf(Client)[u[j - Len(x)].type])
                 = (IF j <= a THEN ev[j].type ELSE EventOf(Client)[out[j - a].type])
  <2>1. CASE j <= a
    BY <1>1, <1>2, <2>1
  <2>2. CASE j = a + 1
    BY <1>1, <1>2, <1>4, <2>2
  <2>3. CASE j > a + 1
    <3>1. j - (a + 1) \in 1 .. b - 1 /\ (j - (a + 1)) + 1 = j - a
      BY <1>1, <2>3
    <3>2. u[j - (a + 1)] = out[j - a]
      BY <1>3, <3>1
    <3> QED
      BY <1>1, <1>2, <2>3, <3>2
  <2> QED
    BY <1>1, <2>1, <2>2, <2>3
<1>6. Len(x) + Len(u) = a + b
  BY <1>1, <1>2, <1>3
<1> QED
  BY <1>5, <1>6 DEF Pending, x, u, a, b

LEMMA PendingPolled ==
    ASSUME NEW ev \in Seq(Event), ev # <<>>, NEW out \in Seq(Msg), AnswersOnly(out)
    PROVE  /\ Pending(ev, out) # <<>> /\ Pending(ev, out)[1] = ev[1].type
           /\ Pending(Tail(ev), out) = Tail(Pending(ev, out))
<1> DEFINE a == Len(ev)
           b == Len(out)
           y == Pending(ev, out)
           u == Tail(ev)
<1>1. a \in Nat /\ b \in Nat /\ a >= 1
  BY LenProperties, EmptySeq
<1>2. y \in Seq(EventTypes) /\ Len(y) = a + b /\ y[1] = ev[1].type
  BY <1>1, PendingType
<1>3. Len(u) = a - 1 /\ \A j \in 1 .. a - 1 : u[j] = ev[j + 1]
  BY HeadTailProperties
<1>4. y = [j \in 1 .. a + b |-> IF j <= a THEN ev[j].type ELSE EventOf(Client)[out[j - a].type]]
  BY DEF Pending
<1>5. Pending(u, out) = [j \in 1 .. Len(u) + b |->
                           IF j <= Len(u) THEN u[j].type ELSE EventOf(Client)[out[j - Len(u)].type]]
  BY DEF Pending
<1> HIDE DEF y, u, a, b
<1>6. y # <<>>
  BY <1>1, <1>2, EmptySeq
<1>7. Tail(y) = [j \in 1 .. (a + b) - 1 |-> y[j + 1]]
  <2>1. /\ Tail(y) \in Seq(EventTypes) /\ Len(Tail(y)) = Len(y) - 1
        /\ \A j \in 1 .. Len(Tail(y)) : Tail(y)[j] = y[j + 1]
    BY <1>2, <1>6, HeadTailProperties
  <2> DEFINE v == Tail(y)
  <2> HIDE DEF v
  <2>2. v = [j \in 1 .. Len(v) |-> v[j]]
    BY <2>1, LenProperties DEF v
  <2> QED
    BY <1>2, <2>1, <2>2 DEF v
<1>8. ASSUME NEW j \in 1 .. (a + b) - 1
      PROVE  (IF j <= Len(u) THEN u[j].type ELSE EventOf(Client)[out[j - Len(u)].type]) = y[j + 1]
  <2>1. j + 1 \in 1 .. a + b
    BY <1>1
  <2>2. CASE j <= a - 1
    BY <1>1, <1>3, <1>4, <2>1, <2>2
  <2>3. CASE ~(j <= a - 1)
    <3>1. j - (a - 1) = (j + 1) - a /\ ~(j + 1 <= a)
      BY <1>1, <2>3
    <3> QED
      BY <1>3, <1>4, <2>1, <2>3, <3>1
  <2> QED
    BY <2>2, <2>3
<1>9. Len(u) + b = (a + b) - 1
  BY <1>1, <1>3
<1>10. Pending(u, out) = Tail(y)
  BY <1>5, <1>7, <1>8, <1>9
<1> QED
  BY <1>2, <1>6, <1>10 DEF y, u

EventTypesOf(msgs) == [j \in 1 .. Len(msgs) |-> EventOf(Client)[msgs[j].type]]
LEMMA PendingSent ==
    ASSUME NEW ev \in Seq(Event), NEW out \in Seq(Msg), NEW msgs \in Seq(Msg),
           AnswersOnly(out), AnswersOnly(msgs)
    PROVE  /\ AnswersOnly(out \o msgs)
           /\ EventTypesOf(msgs) \in Seq(EventTypes)
           /\ Len(EventTypesOf(msgs)) = Len(msgs)
           /\ Pending(ev, out \o msgs) = Pending(ev, out) \o EventTypesOf(msgs)
<1> DEFINE a == Len(ev)
           b == Len(out)
           c == Len(msgs)
           z == out \o msgs
           t == EventTypesOf(msgs)
           y == Pending(ev, out)
           w == Pending(ev, z)
<1>1. a \in Nat /\ b \in Nat /\ c \in Nat
  BY LenProperties
<1>2. /\ z \in Seq(Msg) /\ Len(z) = b + c
      /\ \A j \in 1 .. b : z[j] = out[j]
      /\ \A j \in 1 .. c : z[b + j] = msgs[j]
  <2>1. z \in Seq(Msg) /\ Len(z) = b + c
        /\ \A j \in 1 .. b + c : z[j] = IF j <= b THEN out[j] ELSE msgs[j - b]
    BY ConcatProperties
  <2>2. \A j \in 1 .. b : j \in 1 .. b + c /\ j <= b
    BY <1>1
  <2>3. \A j \in 1 .. c : b + j \in 1 .. b + c /\ ~(b + j <= b) /\ (b + j) - b = j
    BY <1>1
  <2> HIDE DEF z, b, c
  <2> QED
    BY <2>1, <2>2, <2>3
<1>3. AnswersOnly(z)
  <2> SUFFICES ASSUME NEW j \in 1 .. b + c
               PROVE  z[j].ok /\ z[j].type \in Answering
    BY <1>2 DEF AnswersOnly
  <2>1. CASE j <= b
    BY <1>1, <1>2, <2>1 DEF AnswersOnly
  <2>2. CASE ~(j <= b)
    <3>1. j - b \in 1 .. c /\ b + (j - b) = j
      BY <1>1, <2>2
    <3>2. z[j] = msgs[j - b]
      BY <1>2, <3>1
    <3> QED
      BY <3>1, <3>2 DEF AnswersOnly
  <2> QED
    BY <2>1, <2>2
<1>4. \A j \in 1 .. c : EventOf(Client)[msgs[j].type] \in EventTypes
  BY AnsweringEvents DEF AnswersOnly
<1>5. t \in Seq(EventTypes) /\ Len(t) = c /\ \A j \in 1 .. c : t[j] = EventOf(Client)[msgs[j].type]
  <2> HIDE DEF c
  <2>1. t = [j \in 1 .. c |-> EventOf(Client)[msgs[j].type]]
    BY DEF EventTypesOf, c
  <2> HIDE DEF t
  <2> QED
    BY <1>1, <1>4, <2>1
<1> HIDE DEF z, t
<1>6. /\ y \in Seq(EventTypes) /\ Len(y) = a + b
      /\ \A j \in 1 .. a : y[j] = ev[j].type
      /\ \A j \in 1 .. b : y[a + j] = EventOf(Client)[out[j].type]
  BY PendingType
<1>7. /\ w \in Seq(EventTypes) /\ Len(w) = a + (b + c)
      /\ \A j \in 1 .. a : w[j] = ev[j].type
      /\ \A j \in 1 .. b + c : w[a + j] = EventOf(Client)[z[j].type]
  <2>1. /\ w \in Seq(EventTypes) /\ Len(w) = Len(ev) + Len(z)
        /\ \A j \in 1 .. Len(ev) : w[j] = ev[j].type
        /\ \A j \in 1 .. Len(z) : w[Len(ev) + j] = EventOf(Client)[z[j].type]
    BY <1>2, <1>3, PendingType
  <2> HIDE DEF w, b, c
  <2> QED
    BY <1>2, <2>1
<1> HIDE DEF y, w, a, b, c
<1>8. /\ y \o t \in Seq(EventTypes) /\ Len(y \o t) = (a + b) + c
      /\ \A j \in 1 .. (a + b) + c : (y \o t)[j] = IF j <= a + b THEN y[j] ELSE t[j - (a + b)]
  <2>1. /\ y \o t \in Seq(EventTypes) /\ Len(y \o t) = Len(y) + Len(t)
        /\ \A j \in 1 .. Len(y) + Len(t) :
               (y \o t)[j] = IF j <= Len(y) THEN y[j] ELSE t[j - Len(y)]
    BY <1>5, <1>6, ConcatProperties
  <2> DEFINE x == y \o t
  <2> HIDE DEF x
  <2> QED
    BY <1>5, <1>6, <2>1 DEF x
<1>9. ASSUME NEW j \in 1 .. (a + b) + c
      PROVE  w[j] = (y \o t)[j]
  <2>1. CASE j <= a
    <3>1. j \in 1 .. a /\ j <= a + b
      BY <1>1, <2>1
    <3> QED
      BY <1>6, <1>7, <1>8, <3>1
  <2>2. CASE ~(j <= a) /\ j <= a + b
    <3>1. j - a \in 1 .. b /\ j - a \in 1 .. b + c /\ a + (j - a) = j
      BY <1>1, <2>2
    <3>2. w[j] = EventOf(Client)[z[j - a].type] /\ y[j] = EventOf(Client)[out[j - a].type]
      BY <1>6, <1>7, <3>1
    <3> QED
      BY <1>2, <1>8, <2>2, <3>1, <3>2
  <2>3. CASE ~(j <= a + b)
    <3> DEFINE i == j - (a + b)
    <3>1. i \in 1 .. c /\ b + i \in 1 .. b + c /\ a + (b + i) = j
      BY <1>1, <2>3
    <3>2. (y \o t)[j] = t[i]
      BY <1>8, <2>3
    <3> HIDE DEF i
    <3>3. w[j] = EventOf(Client)[z[b + i].type]
      BY <1>7, <3>1
    <3> QED
      BY <1>2, <1>5, <3>1, <3>2, <3>3
  <2> QED
    BY <2>1, <2>2, <2>3
<1>10. Len(w) = Len(y \o t)
  BY <1>1, <1>7, <1>8
<1>11. w = y \o t
  <2> DEFINE x == y \o t
  <2> HIDE DEF x
  <2> QED
    BY <1>1, <1>7, <1>8, <1>9, <1>10, SeqEqual DEF x
<1> QED
  BY <1>3, <1>5, <1>11 DEF w, y, z, t, c

-----------------------------------------------------------------------------
(* The scripts.                                                            *)

IsScript(x, kind) ==
    /\ x \in Seq(Msg) /\ Len(x) = Size(kind)
    /\ \A j \in 1 .. Size(kind) :
           /\ x[j].ok /\ x[j].type \in ServerTypes \cup {Startup}
           /\ x[j].type = Startup <=> kind = "startup"
           /\ x[j].type = "Q" <=> kind = "simple"
FitFor(kind) ==
    {m \in Msg : /\ m.ok /\ m.type \in ServerTypes \cup {Startup}
                 /\ m.type = Startup <=> kind = "startup"
                 /\ m.type = "Q" <=> kind = "simple"}
LEMMA ScriptType ==
    ASSUME NEW kind \in Kinds, NEW q \in Nat
    PROVE  IsScript(Script(kind, q), kind) /\ Size(kind) \in Nat /\ Size(kind) >= 1
           /\ Size(kind) <= 7
<1>0. ASSUME NEW x \in Seq(FitFor(kind)), Len(x) = Size(kind), Size(kind) \in {1, 4, 7}
      PROVE  IsScript(x, kind) /\ Size(kind) \in Nat /\ Size(kind) >= 1 /\ Size(kind) <= 7
  <2>1. \A j \in 1 .. Size(kind) : x[j] \in FitFor(kind)
    BY <1>0, ElementOfSeq
  <2>2. x \in Seq(Msg)
    <3>1. FitFor(kind) \subseteq Msg
      BY DEF FitFor
    <3> QED
      BY <3>1, SeqMonotonic
  <2> QED
    BY <1>0, <2>1, <2>2 DEF IsScript, FitFor
<1>1. ASSUME NEW t \in ServerTypes \cup {Startup}, NEW n \in Nat
      PROVE  Message(t, n) \in Msg /\ Message(t, n).ok /\ Message(t, n).type = t
  BY <1>1 DEF Message, Msg
<1>2. /\ Startup \in ServerTypes \cup {Startup} /\ 0 \in Nat
      /\ \A t \in {"Q", "P", "B", "D", "E", "C", "S", "H", "X"} :
             t \in ServerTypes \cup {Startup} /\ t # Startup
  BY DEF ServerTypes, Startup
<1>3. Startup # "Q"
  BY DEF Startup
<1>4. CASE kind = "startup"
  <2>1. Script(kind, q) = <<Message(Startup, 0)>> /\ Size(kind) = 1
    BY <1>4 DEF Script, Size
  <2>2. Message(Startup, 0) \in FitFor(kind)
    BY <1>1, <1>2, <1>3, <1>4 DEF FitFor
  <2> DEFINE m1 == Message(Startup, 0)
  <2> HIDE DEF m1
  <2>3. <<m1>> \in Seq(FitFor(kind)) /\ Len(<<m1>>) = 1
    BY <2>2 DEF m1
  <2> QED
    BY <1>0, <2>1, <2>3 DEF m1
<1>5. CASE kind = "simple"
  <2>1. Script(kind, q) = <<Message("Q", q)>> /\ Size(kind) = 1
    BY <1>5 DEF Script, Size
  <2>2. Message("Q", q) \in FitFor(kind)
    BY <1>1, <1>2, <1>5 DEF FitFor
  <2> DEFINE m1 == Message("Q", q)
  <2> HIDE DEF m1
  <2>3. <<m1>> \in Seq(FitFor(kind)) /\ Len(<<m1>>) = 1
    BY <2>2 DEF m1
  <2> QED
    BY <1>0, <2>1, <2>3 DEF m1
<1>6. CASE kind = "pipeline"
  <2> DEFINE m1 == Message("P", q)
             m2 == Message("B", 0)
             m3 == Message("E", 0)
             m4 == Message("S", 0)
  <2>1. Script(kind, q) = <<m1, m2, m3, m4>> /\ Size(kind) = 4
    BY <1>6 DEF Script, Size, Unnamed
  <2>2. ASSUME NEW m \in {m1, m2, m3, m4}
        PROVE  m \in FitFor(kind)
    BY <1>1, <1>2, <1>6 DEF FitFor
  <2> HIDE DEF m1, m2, m3, m4
  <2>3. <<m1, m2, m3, m4>> \in Seq(FitFor(kind)) /\ Len(<<m1, m2, m3, m4>>) = 4
    BY <2>2
  <2> QED
    BY <1>0, <2>1, <2>3
<1>7. CASE kind = "described"
  <2> DEFINE m1 == Message("P", q)
             m2 == Message("B", 0)
             m3 == Message("D", 0)
             m4 == Message("H", 0)
             m5 == Message("E", 0)
             m6 == Message("C", 0)
             m7 == Message("S", 0)
  <2>1. Script(kind, q) = <<m1, m2, m3, m4, m5, m6, m7>> /\ Size(kind) = 7
    BY <1>7 DEF Script, Size, Unnamed
  <2>2. ASSUME NEW m \in {m1, m2, m3, m4, m5, m6, m7}
        PROVE  m \in FitFor(kind)
    BY <1>1, <1>2, <1>7 DEF FitFor
  <2> HIDE DEF m1, m2, m3, m4, m5, m6, m7
  <2>3. /\ <<m1, m2, m3, m4, m5, m6, m7>> \in Seq(FitFor(kind))
        /\ Len(<<m1, m2, m3, m4, m5, m6, m7>>) = 7
    BY <2>2
  <2> QED
    BY <1>0, <2>1, <2>3
<1>8. CASE kind = "terminate"
  <2>1. Script(kind, q) = <<Message("X", 0)>> /\ Size(kind) = 1
    BY <1>8 DEF Script, Size, Unnamed
  <2>2. Message("X", 0) \in FitFor(kind)
    BY <1>1, <1>2, <1>8 DEF FitFor
  <2> DEFINE m1 == Message("X", 0)
  <2> HIDE DEF m1
  <2>3. <<m1>> \in Seq(FitFor(kind)) /\ Len(<<m1>>) = 1
    BY <2>2 DEF m1
  <2> QED
    BY <1>0, <2>1, <2>3 DEF m1
<1> QED
  BY <1>4, <1>5, <1>6, <1>7, <1>8 DEF Kinds

\* What each message of a script is to the server.
Pipelines == {"pipeline", "described"}
Turn(msg, kind, q, k) ==
    \/ kind = "startup" /\ k = 0 /\ msg.type = Startup
    \/ kind = "simple" /\ k = 0 /\ msg.type = "Q" /\ msg.text = q
    \/ kind = "terminate" /\ k = 0 /\ msg.type = "X"
    \/ /\ kind \in Pipelines /\ k + 1 < Size(kind)
       /\ \/ k = 0 /\ Owed(kind, 1) /\ msg.type = "P" /\ msg.text = q
          \/ k >= 1 /\ k <= 2 /\ Owed(kind, k + 1) /\ msg.type \in {"B", "D"}
          \/ k >= 1 /\ Owed(kind, k + 1) /\ msg.type = "H"
          \/ /\ k >= 1 /\ Owed(kind, k) /\ ~Owed(kind, k + 1) /\ Size(kind) - k <= 3
             /\ msg.type = "E"
          \/ k >= 1 /\ ~Owed(kind, k) /\ msg.type = "C"
    \/ kind \in Pipelines /\ k >= 1 /\ k + 1 = Size(kind) /\ ~Owed(kind, k) /\ msg.type = "S"
LEMMA ScriptTurn ==
    ASSUME NEW kind \in Kinds, NEW q \in Nat, NEW k \in Nat, k < Size(kind)
    PROVE  Turn(Script(kind, q)[k + 1], kind, q, k)
<1>1. \A t, n : Message(t, n).type = t /\ Message(t, n).text = n
  BY DEF Message
<1>2. CASE kind \notin Pipelines
  <2>1. Size(kind) = 1 /\ k = 0
    BY <1>2 DEF Size, Pipelines
  <2>2. Script(kind, q)[1] = CASE kind = "startup" -> Message(Startup, 0)
                               [] kind = "simple" -> Message("Q", q)
                               [] OTHER -> Message("X", 0)
    BY <1>2 DEF Kinds, Pipelines, Script, Unnamed
  <2> QED
    BY <1>1, <1>2, <2>1, <2>2 DEF Turn, Kinds, Pipelines
<1>3. CASE kind = "pipeline"
  <2>1. Size(kind) = 4 /\ kind \in Pipelines /\ (k = 0 \/ k = 1 \/ k = 2 \/ k = 3)
    BY <1>3 DEF Size, Pipelines
  <2>2. \A n \in Nat : Owed(kind, n) <=> n < 3
    BY <1>3 DEF Owed
  <2>3. Script(kind, q) = <<Message("P", q), Message("B", 0), Message("E", 0), Message("S", 0)>>
    BY <1>3 DEF Script, Unnamed
  <2>4. /\ k = 0 => Script(kind, q)[k + 1].type = "P" /\ Script(kind, q)[k + 1].text = q
        /\ k = 1 => Script(kind, q)[k + 1].type = "B"
        /\ k = 2 => Script(kind, q)[k + 1].type = "E"
        /\ k = 3 => Script(kind, q)[k + 1].type = "S"
    BY <1>1, <2>3
  <2> QED
    BY <2>1, <2>2, <2>4 DEF Turn
<1>4. CASE kind = "described"
  <2>1. /\ Size(kind) = 7 /\ kind \in Pipelines
        /\ k = 0 \/ k = 1 \/ k = 2 \/ k = 3 \/ k = 4 \/ k = 5 \/ k = 6
    BY <1>4 DEF Size, Pipelines
  <2>2. \A n \in Nat : Owed(kind, n) <=> n < 5
    BY <1>4 DEF Owed
  <2>3. Script(kind, q) = <<Message("P", q), Message("B", 0), Message("D", 0), Message("H", 0),
                            Message("E", 0), Message("C", 0), Message("S", 0)>>
    BY <1>4 DEF Script, Unnamed
  <2>4. /\ k = 0 => Script(kind, q)[k + 1].type = "P" /\ Script(kind, q)[k + 1].text = q
        /\ k = 1 => Script(kind, q)[k + 1].type = "B"
        /\ k = 2 => Script(kind, q)[k + 1].type = "D"
        /\ k = 3 => Script(kind, q)[k + 1].type = "H"
        /\ k = 4 => Script(kind, q)[k + 1].type = "E"
        /\ k = 5 => Script(kind, q)[k + 1].type = "C"
        /\ k = 6 => Script(kind, q)[k + 1].type = "S"
    BY <1>1, <2>3
  <2> QED
    BY <2>1, <2>2, <2>4 DEF Turn
<1> QED
  BY <1>2, <1>3, <1>4 DEF Pipelines

\* The first message of the output, and the output without it.
LEMMA UnsentParts ==
    ASSUME NEW kind \in Kinds, NEW q \in Nat, NEW m \in Nat, m <= Size(kind)
    PROVE  /\ Unsent(kind, q, m) \in Seq(Msg) /\ Len(Unsent(kind, q, m)) = Size(kind) - m
           /\ m < Size(kind) => /\ Unsent(kind, q, m) # <<>>
                                /\ Head(Unsent(kind, q, m)) = Script(kind, q)[m + 1]
                                /\ Tail(Unsent(kind, q, m)) = Unsent(kind, q, m + 1)
           /\ m = Size(kind) => Unsent(kind, q, m) = <<>>
<1> DEFINE x == Script(kind, q)
           n == Size(kind)
           u == Unsent(kind, q, m)
           v == Unsent(kind, q, m + 1)
<1>1. x \in Seq(Msg) /\ Len(x) = n /\ n \in Nat
  BY ScriptType DEF IsScript
<1> HIDE DEF x, n
<1>2. u = SubSeq(x, m + 1, n) /\ v = SubSeq(x, m + 2, n)
  <2>1. (m + 1) + 1 = m + 2
    OBVIOUS
  <2> QED
    BY <2>1 DEF Unsent, x, n
<1>3. \A j \in m + 1 .. n : j \in 1 .. n
  BY <1>1
<1>4. /\ u \in Seq(Msg) /\ Len(u) = n - m
      /\ \A j \in 1 .. n - m : u[j] = x[m + j]
  <2>1. /\ SubSeq(x, m + 1, n) \in Seq(Msg)
        /\ Len(SubSeq(x, m + 1, n)) = IF m + 1 <= n THEN n - (m + 1) + 1 ELSE 0
        /\ \A j \in 1 .. n - (m + 1) + 1 : SubSeq(x, m + 1, n)[j] = x[(m + 1) + j - 1]
    BY <1>1, <1>3, SubSeqProperties
  <2>2. n - (m + 1) + 1 = n - m /\ m <= n /\ \A j \in Nat : (m + 1) + j - 1 = m + j
    BY <1>1 DEF n
  <2>3. (IF m + 1 <= n THEN n - (m + 1) + 1 ELSE 0) = n - m
    BY <1>1, <2>2
  <2> HIDE DEF u
  <2> QED
    BY <1>1, <1>2, <2>1, <2>2, <2>3
<1>5. ASSUME m < n
      PROVE  u # <<>> /\ Head(u) = x[m + 1] /\ Tail(u) = v
  <2>1. u # <<>> /\ u[1] = x[m + 1]
    BY <1>1, <1>4, <1>5, EmptySeq
  <2>2. Head(u) = u[1]
    BY <1>4, <2>1 DEF Head
  <2>3. Tail(u) = v
    <3>1. \A j \in m + 2 .. n : j \in 1 .. n
      BY <1>1
    <3>2. /\ v \in Seq(Msg) /\ Len(v) = n - (m + 1)
          /\ \A j \in 1 .. n - (m + 1) : v[j] = x[(m + 1) + j]
      <4>1. /\ SubSeq(x, m + 2, n) \in Seq(Msg)
            /\ Len(SubSeq(x, m + 2, n)) = IF m + 2 <= n THEN n - (m + 2) + 1 ELSE 0
            /\ \A j \in 1 .. n - (m + 2) + 1 : SubSeq(x, m + 2, n)[j] = x[(m + 2) + j - 1]
        BY <1>1, <3>1, SubSeqProperties
      <4>2. n - (m + 2) + 1 = n - (m + 1) /\ \A j \in Nat : (m + 2) + j - 1 = (m + 1) + j
        BY <1>1
      <4>3. (IF m + 2 <= n THEN n - (m + 2) + 1 ELSE 0) = n - (m + 1)
        BY <1>1, <1>5
      <4> HIDE DEF v
      <4> QED
        BY <1>1, <1>2, <4>1, <4>2, <4>3
    <3> DEFINE w == Tail(u)
    <3>3. /\ w \in Seq(Msg) /\ Len(w) = (n - m) - 1
          /\ \A j \in 1 .. Len(w) : w[j] = u[j + 1]
      BY <1>4, <2>1, HeadTailProperties
    <3> HIDE DEF u, v, w
    <3>4. Len(w) = Len(v) /\ Len(w) = n - (m + 1)
      BY <1>1, <3>2, <3>3
    <3>5. ASSUME NEW j \in 1 .. Len(w)
          PROVE  w[j] = v[j]
      <4>1. j + 1 \in 1 .. n - m /\ j \in 1 .. n - (m + 1) /\ m + (j + 1) = (m + 1) + j
        BY <1>1, <3>4
      <4> QED
        BY <1>4, <3>2, <3>3, <4>1
    <3>6. w = v
      BY <3>2, <3>3, <3>4, <3>5, SeqEqual
    <3> QED
      BY <3>6 DEF w
  <2> QED
    BY <2>1, <2>2, <2>3
<1>6. ASSUME m = n
      PROVE  u = <<>>
  BY <1>1, <1>4, <1>6, EmptySeq
<1> QED
  BY <1>4, <1>5, <1>6 DEF x, n, u, v

-----------------------------------------------------------------------------
(* One message moves.                                                      *)

LEMMA SizeRange ==
    ASSUME NEW kind \in Kinds
    PROVE  /\ Size(kind) \in Nat /\ Size(kind) >= 1 /\ Size(kind) <= 7
           /\ kind \notin Pipelines => Size(kind) = 1
BY ScriptType DEF Size, Pipelines, Kinds

\* The next message of the script reaches the server.
LEMMA CommandArrives ==
    ASSUME NEW c, NEW s, NEW q, NEW a, NEW ans, NEW r, NEW stm, NEW o, NEW kind, NEW k, NEW m,
           Exchange(c, s, q, a, ans, r, stm, o, kind, k, m), EventQueueSize >= 7,
           m < Size(kind),
           NEW d, OnlyOutput(c, d), d.auth_state = c.auth_state,
           Outgoing(d.output, kind, q, m + 1),
           c.auth_state = "NONE" => d.output = Unsent(kind, q, m + 1),
           NEW h, h = Script(kind, q)[m + 1]
    PROVE  Exchange(d, HandleMessage(s, h), q, a, ans, r, stm, o, kind, k, m + 1)
<1> DEFINE t == HandleMessage(s, h)
           type == Command(h).type
<1>1. kind \in Kinds /\ k \in Nat /\ m \in Nat /\ k <= m /\ q \in Nat
  BY DialecticAssumption DEF Exchange, Counters
<1>2. Size(kind) \in Nat /\ Size(kind) <= 7 /\ m + 1 \in 1 .. Size(kind) /\ m - k \in Nat
  BY <1>1, SizeRange
<1>3. /\ h \in Msg /\ h.ok /\ h.type \in ServerTypes \cup {Startup}
      /\ h.type = Startup <=> kind = "startup"
      /\ h.type = "Q" <=> kind = "simple"
  BY <1>1, <1>2, ScriptType, ElementOfSeq DEF IsScript
<1>4. s \in ContextType /\ s.role = Server /\ s.lost = 0 /\ Len(s.events) = m - k
  BY DEF Exchange, Contexts, Commands
<1>5. Len(s.events) < EventQueueSize
  BY <1>1, <1>2, <1>4, ContextAssumption
<1>6. Raised(s, t, type, h.text)
  <2>1. h.type = Startup => ~s.startup_seen
    <3> SUFFICES ASSUME h.type = Startup PROVE ~s.startup_seen
      OBVIOUS
    <3>1. kind = "startup"
      BY <1>3
    <3>2. m = 0
      BY <1>1, <3>1, SizeRange DEF Pipelines
    <3>3. s.startup_seen = ~(kind = "startup" /\ m = 0)
      BY DEF Exchange, Commands
    <3> QED
      BY <3>1, <3>2, <3>3
  <2> QED
    BY <1>3, <1>4, <1>5, <2>1, HandleCommand
<1>7. Command(h) = [type |-> type, text |-> h.text]
  BY DEF Command
<1>8. /\ kind = "startup" => type = "STARTUP"
      /\ kind = "simple" => type = "QUERY"
      /\ kind \notin {"startup", "simple"} =>
             type \in {"PARSE", "BIND", "DESCRIBE", "EXECUTE", "CLOSE", "SYNC", "FLUSH",
                       "TERMINATE"}
  <2>1. h.type # Startup => type = EventOf(Server)[h.type]
    BY DEF Command
  <2>2. h.type = Startup => type = "STARTUP"
    BY DEF Command
  <2> QED
    BY <1>3, <2>1, <2>2, ServerEvents DEF ServerTypes, Startup
<1> HIDE DEF t, type
<1>9. Contexts(d, t)
  BY <1>4, <1>6 DEF Exchange, Contexts, OnlyOutput, Raised
<1>10. Commands(d, t, q, kind, k, m + 1)
  <2>1. t.events = Append(s.events, Command(h)) /\ s.events \in Seq(Event) /\ Command(h) \in Event
    <3>1. t.events = Append(s.events, Command(h))
      BY <1>6, <1>7 DEF Raised
    <3>2. s.events \in Seq(Event)
      BY <1>4, ContextFields DEF Fielded
    <3>3. type \in EventTypes /\ h.text \in Nat
      BY <1>3, <1>8 DEF EventTypes, Msg
    <3> QED
      BY <1>7, <3>1, <3>2, <3>3 DEF Event
  <2>2. /\ Len(t.events) = (m - k) + 1 /\ t.events[(m - k) + 1] = Command(h)
        /\ \A j \in 1 .. m - k : t.events[j] = s.events[j]
    BY <1>4, <2>1, AppendProperties
  <2>3. Len(t.events) = (m + 1) - k
    BY <1>1, <2>2
  <2>4. ASSUME NEW j \in 1 .. (m + 1) - k
        PROVE  t.events[j] = Command(Script(kind, q)[k + j])
    <3>1. CASE j \in 1 .. m - k
      <4>1. s.events[j] = Command(Script(kind, q)[k + j])
        BY <3>1 DEF Exchange, Commands
      <4> QED
        BY <2>2, <3>1, <4>1
    <3>2. CASE j \notin 1 .. m - k
      <4>1. j = (m - k) + 1 /\ k + j = m + 1
        BY <1>1, <1>2, <3>2
      <4> QED
        BY <2>2, <4>1
    <3> QED
      BY <3>1, <3>2
  <2>5. s.startup_seen = ~(kind = "startup" /\ m = 0) /\ s.proto_state = PhaseOf(kind, k, m)
    BY DEF Exchange, Commands
  <2>6. ASSUME kind = "simple", k = 0, m + 1 = 1
        PROVE  t.scratch["QUERY"] = q
    <3>1. Turn(h, kind, q, m)
      BY <1>1, ScriptTurn
    <3>2. h.text = q /\ type = "QUERY"
      BY <1>8, <2>6, <3>1 DEF Turn, Pipelines
    <3>3. s.scratch \in [ScratchTypes -> Nat] /\ "QUERY" \in ScratchTypes
      BY <1>4, ContextFields DEF Fielded, ScratchTypes
    <3> QED
      BY <1>6, <3>2, <3>3 DEF Raised
  <2>7. t.startup_seen = ~(kind = "startup" /\ m + 1 = 0)
    <3>1. t.startup_seen = (s.startup_seen \/ type = "STARTUP")
      BY <1>6 DEF Raised
    <3>2. m + 1 # 0
      BY <1>1
    <3> QED
      BY <1>8, <2>5, <3>1, <3>2
  <2>8. t.proto_state = PhaseOf(kind, k, m + 1)
    <3>1. t.proto_state = PhaseAfter(type, s.proto_state)
      BY <1>6 DEF Raised
    <3>2. CASE kind = "startup" \/ kind = "simple"
      <4>1. m = 0 /\ k = 0 /\ m + 1 = 1
        BY <1>1, <3>2, SizeRange DEF Pipelines
      <4> QED
        BY <1>8, <3>1, <3>2, <4>1 DEF PhaseAfter, PhaseOf
    <3>3. CASE kind # "startup" /\ kind # "simple"
      BY <1>8, <2>5, <3>1, <3>3 DEF PhaseAfter, PhaseOf
    <3> QED
      BY <3>2, <3>3
  <2> QED
    BY <2>3, <2>4, <2>6, <2>7, <2>8 DEF Commands
<1>11. d.events = c.events /\ t.output = s.output /\ d.scratch = c.scratch
  BY <1>6 DEF OnlyOutput, Raised
<1>12. Due(Pending(d.events, t.output), kind, k, a, Len(ans), r) /\ Texts(d, t, q)
  BY <1>11 DEF Exchange, Texts
<1>13. Unauthenticated(d, t, kind, q, k, m + 1)
  BY <1>11 DEF Exchange, Unauthenticated
<1>14. m + 1 \in Nat /\ k <= m + 1 /\ m + 1 <= Size(kind)
  BY <1>1, <1>2
<1> QED
  BY <1>9, <1>10, <1>12, <1>13, <1>14 DEF Exchange, t

\* One message of the client's output moves.
LEMMA CommandMoves ==
    ASSUME NEW c, NEW s, NEW q, NEW a, NEW ans, NEW r, NEW stm, NEW o, NEW kind, NEW k, NEW m,
           Exchange(c, s, q, a, ans, r, stm, o, kind, k, m), EventQueueSize >= 7,
           c.output # <<>>,
           NEW d, OnlyOutput(c, d), d.auth_state = c.auth_state, d.output = Tail(c.output)
    PROVE  \E n : Exchange(d, HandleMessage(s, Head(c.output)), q, a, ans, r, stm, o, kind, k, n)
<1> DEFINE u == Unsent(kind, q, m)
           h == Head(c.output)
           t == HandleMessage(s, h)
<1>1. kind \in Kinds /\ k \in Nat /\ m \in Nat /\ m <= Size(kind) /\ q \in Nat
      /\ Size(kind) \in Nat
  BY DialecticAssumption, SizeRange DEF Exchange, Counters
<1>2. /\ u \in Seq(Msg)
      /\ m < Size(kind) => Head(u) = Script(kind, q)[m + 1] /\ Tail(u) = Unsent(kind, q, m + 1)
      /\ m = Size(kind) => u = <<>>
  BY <1>1, UnsentParts
<1>3. Outgoing(c.output, kind, q, m) /\ (c.auth_state = "NONE" => c.output = u)
  BY DEF Exchange, Commands, Unauthenticated
<1>4. Password \in Msg
  BY DEF Password, Message, Msg
<1>5. CASE c.output = u
  <2>1. m < Size(kind)
    BY <1>1, <1>2, <1>5
  <2>2. h = Script(kind, q)[m + 1] /\ d.output = Unsent(kind, q, m + 1)
    BY <1>2, <1>5, <2>1
  <2>3. Outgoing(d.output, kind, q, m + 1)
    BY <2>2 DEF Outgoing
  <2>4. Exchange(d, t, q, a, ans, r, stm, o, kind, k, m + 1)
    BY <2>1, <2>2, <2>3, CommandArrives
  <2> QED
    BY <2>4
<1>6. CASE c.output # u /\ (kind = "startup" => m = 1) /\ c.output = <<Password>> \o u
  <2> DEFINE p == Password
  <2> HIDE DEF p, u
  <2>1. Head(<<p>> \o u) = p /\ Tail(<<p>> \o u) = u
    BY <1>2, <1>4 DEF p
  <2>2. h = Password /\ d.output = u
    BY <1>6, <2>1 DEF p
  <2>3. s.role = Server
    BY DEF Exchange, Contexts
  <2>4. t = s
    BY <2>2, <2>3, HandlePassword
  <2>5. Outgoing(d.output, kind, q, m) /\ d.auth_state # "NONE"
    BY <1>3, <1>6, <2>2 DEF Outgoing, u
  <2>6. d \in ContextType /\ d.role = c.role /\ d.lost = c.lost /\ d.events = c.events
        /\ d.scratch = c.scratch
    BY DEF OnlyOutput
  <2>7. Contexts(d, s) /\ Commands(d, s, q, kind, k, m) /\ Texts(d, s, q)
    BY <2>5, <2>6 DEF Exchange, Contexts, Commands, Texts
  <2>8. Unauthenticated(d, s, kind, q, k, m)
    BY <2>5, <2>6 DEF Exchange, Unauthenticated
  <2>9. Exchange(d, t, q, a, ans, r, stm, o, kind, k, m)
    BY <2>4, <2>6, <2>7, <2>8 DEF Exchange
  <2> QED
    BY <2>9
<1>7. CASE /\ c.output # u /\ kind = "startup" /\ m = 0
           /\ c.output = <<Message(Startup, 0), Password>>
  <2> DEFINE x == Message(Startup, 0)
             p == Password
  <2>1. Size(kind) = 1 /\ Script(kind, q)[m + 1] = x
    BY <1>7 DEF Size, Script
  <2>2. Unsent(kind, q, m + 1) = <<>>
    BY <1>1, <1>7, <2>1, UnsentParts
  <2> HIDE DEF x, p, u
  <2>3. h = x /\ d.output = <<p>>
    BY <1>7 DEF x, p
  <2>4. d.output = <<Password>> \o Unsent(kind, q, m + 1)
    <3>1. <<p>> \in Seq(Msg)
      BY <1>4 DEF p
    <3>2. <<p>> \o <<>> = <<p>>
      BY <3>1, ConcatEmptySeq
    <3> QED
      BY <2>2, <2>3, <3>2 DEF p
  <2>5. Outgoing(d.output, kind, q, m + 1)
    BY <1>7, <2>4 DEF Outgoing
  <2>6. Exchange(d, t, q, a, ans, r, stm, o, kind, k, m + 1)
    BY <1>3, <1>7, <2>1, <2>3, <2>5, CommandArrives
  <2> QED
    BY <2>6
<1> QED
  BY <1>3, <1>5, <1>6, <1>7 DEF Outgoing

\* The room that the answers have in the client's queue.
LEMMA PendingRoom ==
    ASSUME NEW c, NEW s, NEW q, NEW a, NEW ans, NEW r, NEW stm, NEW o, NEW kind, NEW k, NEW m,
           Exchange(c, s, q, a, ans, r, stm, o, kind, k, m), EventQueueSize >= 7
    PROVE  /\ c.events \in Seq(Event) /\ s.output \in Seq(Msg) /\ AnswersOnly(s.output)
           /\ Len(c.events) \in Nat /\ Len(s.output) \in Nat
           /\ Len(c.events) + Len(s.output) <= EventQueueSize
           /\ Len(Pending(c.events, s.output)) = Len(c.events) + Len(s.output)
           /\ Pending(c.events, s.output) \in Seq(EventTypes)
<1> DEFINE y == Pending(c.events, s.output)
<1>1. c.events \in Seq(Event) /\ s.output \in Seq(Msg) /\ AnswersOnly(s.output)
  BY ContextFields DEF Exchange, Contexts, Texts, AnswersOnly, Fielded
<1>2. /\ Len(c.events) \in Nat /\ Len(s.output) \in Nat /\ y \in Seq(EventTypes)
      /\ Len(y) = Len(c.events) + Len(s.output)
  BY <1>1, PendingType
<1>3. /\ kind \in Kinds /\ k \in Nat /\ m \in Nat /\ k <= m /\ m <= Size(kind)
      /\ Due(y, kind, k, a, Len(ans), r)
  BY DEF Exchange
<1>4. Size(kind) \in Nat /\ EventQueueSize \in Nat
  BY <1>3, SizeRange, ContextAssumption
<1> HIDE DEF y
<1>5. Len(y) <= 3 \/ Len(y) + (Size(kind) - k) <= EventQueueSize
  BY <1>3 DEF Due
<1>6. Len(y) <= EventQueueSize
  <2> DEFINE l == Len(y)
             z == Size(kind)
  <2>1. l \in Nat /\ z \in Nat /\ k \in Nat /\ k <= z
    <3>1. l \in Nat
      <4> DEFINE x == Len(c.events)
                 w == Len(s.output)
      <4>1. x \in Nat /\ w \in Nat /\ l = x + w
        BY <1>2
      <4> HIDE DEF x, w, l
      <4> QED
        BY ONLY <4>1
    <3>2. k <= z
      BY <1>3, <1>4
    <3> QED
      BY <1>3, <1>4, <3>1, <3>2
  <2>2. l <= 3 \/ l + (z - k) <= EventQueueSize
    BY <1>5
  <2> HIDE DEF l, z
  <2>3. l <= EventQueueSize
    BY <1>4, <2>1, <2>2
  <2> QED
    BY <2>3 DEF l
<1> QED
  BY <1>1, <1>2, <1>6 DEF y

\* One message of the server's output moves.
LEMMA AnswerMoves ==
    ASSUME NEW c, NEW s, NEW q, NEW a, NEW ans, NEW r, NEW stm, NEW o, NEW kind, NEW k, NEW m,
           Exchange(c, s, q, a, ans, r, stm, o, kind, k, m), EventQueueSize >= 7,
           s.output # <<>>,
           NEW t, OnlyOutput(s, t), t.proto_state = s.proto_state, t.output = Tail(s.output)
    PROVE  Exchange(HandleMessage(c, Head(s.output)), t, q, a, ans, r, stm, o, kind, k, m)
<1> DEFINE h == Head(s.output)
           d == HandleMessage(c, h)
           type == EventOf(Client)[h.type]
           e == [type |-> type, text |-> h.text]
<1>1. /\ c.events \in Seq(Event) /\ s.output \in Seq(Msg) /\ AnswersOnly(s.output)
      /\ Len(c.events) \in Nat /\ Len(s.output) \in Nat
      /\ Len(c.events) + Len(s.output) <= EventQueueSize
  BY PendingRoom
<1>2. Len(s.output) >= 1 /\ Len(c.events) < EventQueueSize
  <2> DEFINE x == Len(c.events)
             z == Len(s.output)
  <2>1. z # 0 /\ x \in Nat /\ z \in Nat /\ x + z <= EventQueueSize /\ EventQueueSize \in Nat
    BY <1>1, EmptySeq, ContextAssumption
  <2> HIDE DEF x, z
  <2>2. z >= 1 /\ x < EventQueueSize
    BY ONLY <2>1
  <2> QED
    BY <2>2 DEF x, z
<1>3. 1 \in 1 .. Len(s.output) /\ h = s.output[1]
  BY <1>1, <1>2 DEF Head
<1>4. h \in Msg /\ h.ok /\ h.type \in Answering /\ (h.type = "C" => h.text = q)
  BY <1>1, <1>3, ElementOfSeq DEF AnswersOnly, Exchange, Texts
<1>5. c \in ContextType /\ c.role = Client
  BY DEF Exchange, Contexts
<1>6. Raised(c, d, type, h.text)
  BY <1>2, <1>4, <1>5, HandleAnswer
<1>7. /\ type \in EventTypes
      /\ type = "COMMAND_COMPLETE" <=> h.type = "C"
      /\ type = "AUTHENTICATION_OK" <=> h.type = "R"
  BY <1>4, AnsweringEvents
<1>8. e \in Event /\ e.type = type /\ e.text = h.text
  BY <1>4, <1>7 DEF Event, Msg
<1> HIDE DEF d, type, h
<1>9. d.events = Append(c.events, e)
  BY <1>6 DEF Raised
<1> HIDE DEF e
<1>10. Pending(d.events, t.output) = Pending(c.events, s.output)
  BY <1>1, <1>8, <1>9, PendingMoved DEF type, h
<1>11. Contexts(d, t)
  BY <1>6 DEF Exchange, Contexts, OnlyOutput, Raised
<1>12. Commands(d, t, q, kind, k, m)
  BY <1>6 DEF Exchange, Commands, OnlyOutput, Raised
<1>13. Texts(d, t, q)
  <2>1. ASSUME NEW j \in 1 .. Len(t.output)
        PROVE  /\ t.output[j].ok /\ t.output[j].type \in Answering
               /\ t.output[j].type = "C" => t.output[j].text = q
    <3>1. Len(t.output) = Len(s.output) - 1 /\ t.output[j] = s.output[j + 1]
      BY <1>1, HeadTailProperties
    <3>2. j + 1 \in 1 .. Len(s.output)
      BY <1>1, <3>1
    <3> QED
      BY <3>1, <3>2 DEF Exchange, Texts
  <2>2. ASSUME NEW j \in 1 .. Len(d.events), d.events[j].type = "COMMAND_COMPLETE"
        PROVE  d.scratch["COMMAND_COMPLETE"] = q
    <3>1. /\ Len(d.events) = Len(c.events) + 1 /\ d.events[Len(c.events) + 1] = e
          /\ \A i \in 1 .. Len(c.events) : d.events[i] = c.events[i]
      BY <1>1, <1>8, <1>9, AppendProperties
    <3>2. c.scratch \in [ScratchTypes -> Nat] /\ "COMMAND_COMPLETE" \in ScratchTypes
      BY <1>5, ContextFields DEF Fielded, ScratchTypes
    <3>3. d.scratch = IF type \in ScratchTypes THEN [c.scratch EXCEPT ![type] = h.text]
                      ELSE c.scratch
      BY <1>6 DEF Raised
    <3>4. CASE type = "COMMAND_COMPLETE"
      BY <1>4, <1>7, <3>2, <3>3, <3>4
    <3>5. CASE type # "COMMAND_COMPLETE"
      <4>1. d.scratch["COMMAND_COMPLETE"] = c.scratch["COMMAND_COMPLETE"]
        BY <3>2, <3>3, <3>5
      <4>2. j \in 1 .. Len(c.events)
        <5>1. j # Len(c.events) + 1
          BY <1>8, <2>2, <3>1, <3>5
        <5> QED
          BY <1>1, <3>1, <5>1
      <4>3. c.events[j].type = "COMMAND_COMPLETE"
        BY <2>2, <3>1, <4>2
      <4> QED
        BY <4>1, <4>2, <4>3 DEF Exchange, Texts
    <3> QED
      BY <3>4, <3>5
  <2> QED
    BY <2>1, <2>2 DEF Texts
<1>14. Unauthenticated(d, t, kind, q, k, m)
  <2>1. d.auth_state = IF type = "AUTHENTICATION_OK" THEN "DONE" ELSE c.auth_state
    BY <1>6 DEF Raised
  <2>2. ASSUME c.auth_state # "DONE"
        PROVE  type = "AUTHENTICATION_OK"
    <3>1. kind = "startup" /\ (k = 1 => s.output = <<Message("R", 0), Ready>>)
      BY <2>2 DEF Exchange, Unauthenticated
    <3>2. k \in Nat /\ k <= 1
      BY <3>1, SizeRange DEF Exchange, Pipelines
    <3>3. k # 0
      <4>1. Len(Pending(c.events, s.output)) = Len(c.events) + Len(s.output)
        BY PendingRoom
      <4>2. Pending(c.events, s.output) # <<>>
        <5>1. Len(Pending(c.events, s.output)) # 0
          <6> DEFINE x == Len(c.events)
                     z == Len(s.output)
                     y == Len(Pending(c.events, s.output))
          <6>1. x \in Nat /\ z \in Nat /\ z >= 1 /\ y = x + z
            BY <1>1, <1>2, <4>1
          <6> HIDE DEF x, z, y
          <6>2. y # 0
            BY ONLY <6>1
          <6> QED
            BY <6>2 DEF y
        <5>2. Len(<<>>) = 0
          OBVIOUS
        <5> QED
          BY <5>1, <5>2
      <4> QED
        BY <4>2 DEF Exchange, Due
    <3>4. h = Message("R", 0)
      BY <1>3, <3>1, <3>2, <3>3
    <3> QED
      BY <1>7, <3>4 DEF Message
  <2>3. d.auth_state = "DONE"
    BY <2>1, <2>2
  <2> QED
    BY <2>3 DEF Unauthenticated
<1> QED
  BY <1>10, <1>11, <1>12, <1>13, <1>14 DEF Exchange, d, h

-----------------------------------------------------------------------------
(* Any first part of the output moves.                                     *)

LEMMA TakeNothing ==
    ASSUME NEW c \in ContextType
    PROVE  TakeOutput(c, 0) = c
<1>1. Fielded(c)
  BY ContextFields
<1>2. SubSeq(c.output, 0 + 1, Len(c.output)) = c.output
  <2> DEFINE x == c.output
  <2>1. x \in Seq(Msg)
    BY <1>1 DEF Fielded
  <2> HIDE DEF x
  <2>2. SubSeq(x, 1, Len(x)) = x
    BY <2>1, SubSeqFull
  <2> QED
    BY <2>2 DEF x
<1>3. TakeOutput(c, 0) = [c EXCEPT !.output = c.output]
  BY <1>2 DEF TakeOutput
<1> QED
  BY <1>1, <1>3 DEF Fielded

LEMMA TakeNext ==
    ASSUME NEW c \in ContextType, NEW j \in Nat, j < Len(c.output)
    PROVE  LET d == TakeOutput(c, j)
               e == TakeOutput(c, j + 1)
           IN  /\ d.output # <<>> /\ Head(d.output) = c.output[j + 1]
               /\ OnlyOutput(d, e) /\ e.output = Tail(d.output)
               /\ e.auth_state = d.auth_state /\ e.proto_state = d.proto_state
<1> DEFINE x == c.output
           n == Len(x)
           d == TakeOutput(c, j)
           e == TakeOutput(c, j + 1)
<1>1. x \in Seq(Msg) /\ n \in Nat
  BY ContextFields, LenProperties DEF Fielded
<1>2. j \in 0 .. n /\ j + 1 \in 0 .. n
  BY <1>1
<1>3. /\ OnlyOutput(c, d) /\ d.output = SubSeq(x, j + 1, n)
      /\ d.proto_state = c.proto_state /\ d.auth_state = c.auth_state
  BY <1>2, TakeOutputTakes
<1>4. /\ OnlyOutput(c, e) /\ e.output = SubSeq(x, (j + 1) + 1, n)
      /\ e.proto_state = c.proto_state /\ e.auth_state = c.auth_state
  BY <1>2, TakeOutputTakes
<1>5. OnlyOutput(d, e)
  BY <1>3, <1>4 DEF OnlyOutput
<1> DEFINE u == SubSeq(x, j + 1, n)
           v == SubSeq(x, (j + 1) + 1, n)
<1> HIDE DEF d, e, x, n
<1>6. /\ u \in Seq(Msg) /\ Len(u) = n - j
      /\ \A i \in 1 .. n - j : u[i] = x[j + i]
  <2>1. \A i \in j + 1 .. n : i \in 1 .. n
    BY <1>1
  <2>2. /\ u \in Seq(Msg)
        /\ Len(u) = IF j + 1 <= n THEN n - (j + 1) + 1 ELSE 0
        /\ \A i \in 1 .. n - (j + 1) + 1 : u[i] = x[(j + 1) + i - 1]
    BY <1>1, <2>1, SubSeqProperties DEF n
  <2>3. /\ n - (j + 1) + 1 = n - j /\ \A i \in Nat : (j + 1) + i - 1 = j + i
        /\ (IF j + 1 <= n THEN n - (j + 1) + 1 ELSE 0) = n - j
    BY <1>1, <1>2
  <2> HIDE DEF u
  <2>4. Len(u) = n - j
    BY <2>2, <2>3
  <2>5. ASSUME NEW i \in 1 .. n - j
        PROVE  u[i] = x[j + i]
    <3>1. i \in 1 .. n - (j + 1) + 1 /\ i \in Nat
      BY <2>3, <2>5
    <3>2. u[i] = x[(j + 1) + i - 1]
      BY <2>2, <3>1
    <3>3. (j + 1) + i - 1 = j + i
      BY <2>3, <3>1
    <3> QED
      BY <3>2, <3>3
  <2> QED
    BY <2>2, <2>4, <2>5
<1>7. /\ v \in Seq(Msg) /\ Len(v) = n - (j + 1)
      /\ \A i \in 1 .. n - (j + 1) : v[i] = x[(j + 1) + i]
  <2>1. \A i \in (j + 1) + 1 .. n : i \in 1 .. n
    BY <1>1
  <2>2. /\ v \in Seq(Msg)
        /\ Len(v) = IF (j + 1) + 1 <= n THEN n - ((j + 1) + 1) + 1 ELSE 0
        /\ \A i \in 1 .. n - ((j + 1) + 1) + 1 : v[i] = x[((j + 1) + 1) + i - 1]
    BY <1>1, <2>1, SubSeqProperties DEF n
  <2>3. /\ n - ((j + 1) + 1) + 1 = n - (j + 1)
        /\ \A i \in Nat : ((j + 1) + 1) + i - 1 = (j + 1) + i
        /\ (IF (j + 1) + 1 <= n THEN n - ((j + 1) + 1) + 1 ELSE 0) = n - (j + 1)
    BY <1>1, <1>2
  <2> HIDE DEF v
  <2>4. Len(v) = n - (j + 1)
    BY <2>2, <2>3
  <2>5. ASSUME NEW i \in 1 .. n - (j + 1)
        PROVE  v[i] = x[(j + 1) + i]
    <3>1. i \in 1 .. n - ((j + 1) + 1) + 1 /\ i \in Nat
      BY <2>3, <2>5
    <3>2. v[i] = x[((j + 1) + 1) + i - 1]
      BY <2>2, <3>1
    <3>3. ((j + 1) + 1) + i - 1 = (j + 1) + i
      BY <2>3, <3>1
    <3> QED
      BY <3>2, <3>3
  <2> QED
    BY <2>2, <2>4, <2>5
<1> HIDE DEF u, v
<1>8. Len(u) # 0 /\ u # <<>>
  <2>1. Len(u) # 0
    BY <1>1, <1>2, <1>6
  <2>2. Len(<<>>) = 0
    OBVIOUS
  <2> QED
    BY <2>1, <2>2
<1>9. Head(u) = x[j + 1]
  <2>1. Head(u) = u[1]
    BY <1>6, <1>8 DEF Head
  <2>2. 1 \in 1 .. n - j
    BY <1>1, <1>2
  <2> QED
    BY <1>6, <2>1, <2>2
<1>10. Tail(u) = v
  <2> DEFINE w == Tail(u)
  <2>1. w \in Seq(Msg) /\ Len(w) = Len(u) - 1 /\ \A i \in 1 .. Len(w) : w[i] = u[i + 1]
    BY <1>6, <1>8, HeadTailProperties
  <2> HIDE DEF w
  <2>2. Len(w) = n - (j + 1) /\ Len(w) = Len(v)
    BY <1>1, <1>6, <1>7, <2>1
  <2>3. ASSUME NEW i \in 1 .. Len(w)
        PROVE  w[i] = v[i]
    <3>1. i \in 1 .. n - (j + 1) /\ i + 1 \in 1 .. n - j /\ j + (i + 1) = (j + 1) + i
      BY <1>1, <2>2
    <3> QED
      BY <1>6, <1>7, <2>1, <3>1
  <2>4. w = v
    BY <1>7, <2>1, <2>2, <2>3, SeqEqual
  <2> QED
    BY <2>4 DEF w
<1> QED
  BY <1>3, <1>4, <1>5, <1>8, <1>9, <1>10 DEF d, e, x, u, v, n

LEMMA FirstPart ==
    ASSUME NEW x \in Seq(Msg), NEW n \in 0 .. Len(x)
    PROVE  /\ SubSeq(x, 1, n) \in Seq(Msg) /\ Len(SubSeq(x, 1, n)) = n
           /\ \A j \in 1 .. n : SubSeq(x, 1, n)[j] = x[j]
<1> DEFINE u == SubSeq(x, 1, n)
<1>1. Len(x) \in Nat /\ n \in Nat /\ \A j \in 1 .. n : j \in 1 .. Len(x)
  BY LenProperties
<1>2. /\ u \in Seq(Msg)
      /\ Len(u) = IF 1 <= n THEN n - 1 + 1 ELSE 0
      /\ \A j \in 1 .. n - 1 + 1 : u[j] = x[1 + j - 1]
  BY <1>1, SubSeqProperties
<1>3. n - 1 + 1 = n /\ \A j \in Nat : 1 + j - 1 = j
  BY <1>1
<1>4. (IF 1 <= n THEN n - 1 + 1 ELSE 0) = n
  BY <1>1
<1> HIDE DEF u
<1> QED
  BY <1>1, <1>2, <1>3, <1>4 DEF u

LEMMA CommandsMove ==
    ASSUME NEW c, NEW s, NEW q, NEW a, NEW ans, NEW r, NEW stm, NEW o, NEW kind, NEW k, NEW m,
           Exchange(c, s, q, a, ans, r, stm, o, kind, k, m), EventQueueSize >= 7,
           NEW n \in 0 .. Len(c.output)
    PROVE  \E l : Exchange(TakeOutput(c, n), FeedInput(s, SubSeq(c.output, 1, n)),
                           q, a, ans, r, stm, o, kind, k, l)
<1> DEFINE x == c.output
           msgs == SubSeq(x, 1, n)
<1>1. c \in ContextType /\ x \in Seq(Msg) /\ n \in Nat /\ Len(x) \in Nat /\ n <= Len(x)
  BY ContextFields, LenProperties DEF Exchange, Contexts, Fielded
<1>2. msgs \in Seq(Msg) /\ Len(msgs) = n /\ \A j \in 1 .. n : msgs[j] = x[j]
  BY <1>1, FirstPart
<1>3. ~(s.role = Server /\ ~s.startup_seen /\ msgs # <<>> /\ msgs[1].type # Startup)
  <2> SUFFICES ASSUME ~s.startup_seen, msgs # <<>>
               PROVE  msgs[1].type = Startup
    OBVIOUS
  <2>1. kind = "startup" /\ m = 0 /\ kind \in Kinds /\ q \in Nat
    <3>1. s.startup_seen = ~(kind = "startup" /\ m = 0)
      BY DEF Exchange, Commands
    <3>2. kind \in Kinds /\ q \in Nat
      BY DialecticAssumption DEF Exchange, Counters
    <3> QED
      BY <3>1, <3>2
  <2>2. Outgoing(x, kind, q, m)
    BY DEF Exchange, Commands
  <2>3. /\ Size(kind) = 1 /\ Script(kind, q)[m + 1] = Message(Startup, 0)
        /\ Message(Startup, 0).type = Startup
    BY <2>1 DEF Size, Script, Message
  <2>4. x = Unsent(kind, q, m) \/ x = <<Message(Startup, 0), Password>>
    BY <2>1, <2>2 DEF Outgoing
  <2>5. Head(x).type = Startup
    <3>1. CASE x = Unsent(kind, q, m)
      <4>1. m \in Nat /\ m <= Size(kind) /\ m < Size(kind)
        BY <2>1, <2>3
      <4>2. Head(Unsent(kind, q, m)) = Script(kind, q)[m + 1]
        BY <2>1, <4>1, UnsentParts
      <4> QED
        BY <2>3, <3>1, <4>2
    <3>2. CASE x = <<Message(Startup, 0), Password>>
      BY <2>3, <3>2
    <3> QED
      BY <2>4, <3>1, <3>2
  <2>6. n # 0
    <3>1. Len(msgs) # 0
      BY <1>2, EmptySeq
    <3> QED
      BY <1>2, <3>1
  <2>7. msgs[1] = x[1]
    BY <1>1, <1>2, <2>6
  <2>8. Head(x) = x[1]
    BY DEF Head
  <2> QED
    BY <2>5, <2>7, <2>8
<1>4. PICK f : Handling(f, s, msgs) /\ FeedInput(s, msgs) = f[Len(msgs)]
  BY <1>2, <1>3, FeedHandles
<1> DEFINE G(j) == \E l : Exchange(TakeOutput(c, j), f[j], q, a, ans, r, stm, o, kind, k, l)
           T == {j \in Nat : j <= n => G(j)}
<1>5. 0 \in T
  <2>1. TakeOutput(c, 0) = c /\ f[0] = s
    BY <1>1, <1>4, TakeNothing DEF Handling
  <2>2. G(0)
    BY <2>1
  <2> QED
    BY <2>2
<1>6. ASSUME NEW j \in Nat, j \in T
      PROVE  j + 1 \in T
  <2> SUFFICES ASSUME j + 1 <= n
               PROVE  G(j + 1)
    OBVIOUS
  <2>1. j <= n /\ j < Len(x) /\ j + 1 \in 1 .. n
    BY <1>1
  <2>2. G(j)
    BY <1>6, <2>1
  <2>3. PICK l : Exchange(TakeOutput(c, j), f[j], q, a, ans, r, stm, o, kind, k, l)
    BY <2>2
  <2> DEFINE d == TakeOutput(c, j)
             e == TakeOutput(c, j + 1)
  <2>4. /\ d.output # <<>> /\ Head(d.output) = x[j + 1]
        /\ OnlyOutput(d, e) /\ e.output = Tail(d.output) /\ e.auth_state = d.auth_state
    BY <1>1, <2>1, TakeNext
  <2> HIDE DEF d, e, x, msgs
  <2>5. f[j + 1] = HandleMessage(f[j], Head(d.output))
    <3>1. f[j + 1] = HandleMessage(f[(j + 1) - 1], msgs[j + 1])
      BY <1>2, <1>4, <2>1 DEF Handling
    <3>2. (j + 1) - 1 = j
      OBVIOUS
    <3>3. msgs[j + 1] = x[j + 1]
      BY <1>2, <2>1
    <3> QED
      BY <2>4, <3>1, <3>2, <3>3
  <2>6. Exchange(d, f[j], q, a, ans, r, stm, o, kind, k, l)
    BY <2>3 DEF d
  <2>7. \E i : Exchange(e, HandleMessage(f[j], Head(d.output)), q, a, ans, r, stm, o, kind, k, i)
    BY <2>4, <2>6, CommandMoves
  <2> QED
    BY <2>5, <2>7 DEF e
<1> HIDE DEF T
<1>7. n \in T
  BY <1>1, <1>5, <1>6, SetInduction
<1>8. G(n)
  BY <1>1, <1>7 DEF T
<1> QED
  BY <1>2, <1>4, <1>8

LEMMA AnswersMove ==
    ASSUME NEW c, NEW s, NEW q, NEW a, NEW ans, NEW r, NEW stm, NEW o, NEW kind, NEW k, NEW m,
           Exchange(c, s, q, a, ans, r, stm, o, kind, k, m), EventQueueSize >= 7,
           NEW n \in 0 .. Len(s.output)
    PROVE  Exchange(FeedInput(c, SubSeq(s.output, 1, n)), TakeOutput(s, n),
                    q, a, ans, r, stm, o, kind, k, m)
<1> DEFINE x == s.output
           msgs == SubSeq(x, 1, n)
<1>1. s \in ContextType /\ x \in Seq(Msg) /\ n \in Nat /\ Len(x) \in Nat /\ n <= Len(x)
  BY ContextFields, LenProperties DEF Exchange, Contexts, Fielded
<1>2. msgs \in Seq(Msg) /\ Len(msgs) = n /\ \A j \in 1 .. n : msgs[j] = x[j]
  BY <1>1, FirstPart
<1>3. c.role # Server
  BY DEF Exchange, Contexts, Client, Server
<1>4. PICK f : Handling(f, c, msgs) /\ FeedInput(c, msgs) = f[Len(msgs)]
  BY <1>2, <1>3, FeedHandles
<1> DEFINE G(j) == Exchange(f[j], TakeOutput(s, j), q, a, ans, r, stm, o, kind, k, m)
           T == {j \in Nat : j <= n => G(j)}
<1>5. 0 \in T
  <2>1. TakeOutput(s, 0) = s /\ f[0] = c
    BY <1>1, <1>4, TakeNothing DEF Handling
  <2>2. G(0)
    BY <2>1
  <2> QED
    BY <2>2
<1>6. ASSUME NEW j \in Nat, j \in T
      PROVE  j + 1 \in T
  <2> SUFFICES ASSUME j + 1 <= n
               PROVE  G(j + 1)
    OBVIOUS
  <2>1. j <= n /\ j < Len(x) /\ j + 1 \in 1 .. n
    BY <1>1
  <2>2. G(j)
    BY <1>6, <2>1
  <2> DEFINE d == TakeOutput(s, j)
             e == TakeOutput(s, j + 1)
  <2>4. /\ d.output # <<>> /\ Head(d.output) = x[j + 1]
        /\ OnlyOutput(d, e) /\ e.output = Tail(d.output) /\ e.proto_state = d.proto_state
    BY <1>1, <2>1, TakeNext
  <2> HIDE DEF d, e, x, msgs
  <2>5. f[j + 1] = HandleMessage(f[j], Head(d.output))
    <3>1. f[j + 1] = HandleMessage(f[(j + 1) - 1], msgs[j + 1])
      BY <1>2, <1>4, <2>1 DEF Handling
    <3>2. (j + 1) - 1 = j
      OBVIOUS
    <3>3. msgs[j + 1] = x[j + 1]
      BY <1>2, <2>1
    <3> QED
      BY <2>4, <3>1, <3>2, <3>3
  <2>6. Exchange(f[j], d, q, a, ans, r, stm, o, kind, k, m)
    BY <2>2 DEF d
  <2>7. Exchange(HandleMessage(f[j], Head(d.output)), e, q, a, ans, r, stm, o, kind, k, m)
    BY <2>4, <2>6, AnswerMoves
  <2> QED
    BY <2>5, <2>7 DEF e
<1> HIDE DEF T
<1>7. n \in T
  BY <1>1, <1>5, <1>6, SetInduction
<1>8. G(n)
  BY <1>1, <1>7 DEF T
<1> QED
  BY <1>2, <1>4, <1>8

-----------------------------------------------------------------------------
(* What is due when an event has been read, and when an answer is given.   *)

LEMMA TailParts ==
    ASSUME NEW y \in Seq(EventTypes), y # <<>>
    PROVE  /\ Tail(y) \in Seq(EventTypes) /\ Len(y) \in Nat /\ Len(y) >= 1
           /\ Len(Tail(y)) = Len(y) - 1
           /\ \A j \in 1 .. Len(y) - 1 : Tail(y)[j] = y[j + 1] /\ j + 1 \in 1 .. Len(y)
           /\ Len(y) = 1 => Tail(y) = <<>>
<1>1. Len(y) \in Nat /\ Len(y) # 0
  BY LenProperties, EmptySeq
<1>2. /\ Tail(y) \in Seq(EventTypes) /\ Len(Tail(y)) = Len(y) - 1
      /\ \A j \in 1 .. Len(Tail(y)) : Tail(y)[j] = y[j + 1]
  BY HeadTailProperties
<1> DEFINE w == Tail(y)
           n == Len(y)
<1> HIDE DEF w, n
<1>3. /\ n \in Nat /\ n # 0 /\ w \in Seq(EventTypes) /\ Len(w) = n - 1
      /\ \A j \in 1 .. Len(w) : w[j] = y[j + 1]
  BY <1>1, <1>2 DEF w, n
<1>4. n = 1 => w = <<>>
  BY <1>3, EmptySeq
<1>5. n >= 1 /\ \A j \in 1 .. n - 1 : j + 1 \in 1 .. n
  BY <1>3
<1> QED
  BY <1>3, <1>4, <1>5 DEF w, n

LEMMA DuePolled ==
    ASSUME NEW y \in Seq(EventTypes), y # <<>>, NEW kind, NEW k \in Nat, NEW a \in Nat,
           NEW n \in Nat, NEW r \in Nat, Size(kind) \in Nat, Due(y, kind, k, a, n, r)
    PROVE  /\ y[1] \in Concluding => n = a - 1
           /\ y[1] = "READY_FOR_QUERY" => r = a
           /\ Due(Tail(y), kind, k, a,
                  IF y[1] \in Concluding THEN n + 1 ELSE n,
                  IF y[1] = "READY_FOR_QUERY" THEN r + 1 ELSE r)
           /\ k # 0 /\ r = a
<1> DEFINE w == Tail(y)
           z == Len(y)
<1>1. /\ w \in Seq(EventTypes) /\ z \in Nat /\ z >= 1 /\ Len(w) = z - 1
      /\ \A j \in 1 .. z - 1 : w[j] = y[j + 1] /\ j + 1 \in 1 .. z
      /\ z = 1 => w = <<>>
  BY TailParts
<1> DEFINE N == IF y[1] \in Concluding THEN n + 1 ELSE n
           R == IF y[1] = "READY_FOR_QUERY" THEN r + 1 ELSE r
<1> HIDE DEF w, z
<1>2. 1 \in 1 .. z
  BY <1>1
<1>3. ASSUME NEW T, NoneIn(y, T)
      PROVE  NoneIn(w, T) /\ y[1] \notin T
  BY <1>1, <1>2, <1>3 DEF NoneIn, z
<1>4. k # 0
  BY DEF Due
<1>5. ASSUME Owed(kind, k)
      PROVE  N = n /\ n = a - 1 /\ y[1] \notin Concluding /\ NoneIn(w, Concluding)
             /\ Len(w) <= k /\ Len(w) <= 3
  <2>1. n = a - 1 /\ NoneIn(y, Concluding) /\ z <= k /\ z <= 3
    BY <1>5 DEF Due, z
  <2>2. NoneIn(w, Concluding) /\ y[1] \notin Concluding
    BY <1>3, <2>1
  <2>3. Len(w) <= k /\ Len(w) <= 3
    BY <1>1, <2>1
  <2> QED
    BY <2>1, <2>2, <2>3
<1>6. ASSUME ~Owed(kind, k)
      PROVE  /\ y[1] \in Concluding => n = a - 1
             /\ Len(w) + (Size(kind) - k) <= EventQueueSize
             /\ \/ N = a /\ NoneIn(w, Concluding)
                \/ N = a - 1 /\ OnceIn(w, Concluding)
  <2>1. z + (Size(kind) - k) <= EventQueueSize
    BY <1>6 DEF Due, z
  <2>2. Len(w) + (Size(kind) - k) <= EventQueueSize
    BY <1>1, <2>1, ContextAssumption
  <2>3. CASE n = a /\ NoneIn(y, Concluding)
    <3>1. NoneIn(w, Concluding) /\ y[1] \notin Concluding
      BY <1>3, <2>3
    <3> QED
      BY <2>2, <2>3, <3>1
  <2>4. CASE n = a - 1 /\ OnceIn(y, Concluding)
    <3>1. PICK i \in 1 .. z : y[i] \in Concluding /\ \A j \in 1 .. z : y[j] \in Concluding => j = i
      BY <2>4 DEF OnceIn, z
    <3>2. CASE i = 1
      <4>1. y[1] \in Concluding /\ N = a
        BY <2>4, <3>1, <3>2
      <4>2. NoneIn(w, Concluding)
        <5> SUFFICES ASSUME NEW j \in 1 .. z - 1
                     PROVE  w[j] \notin Concluding
          BY <1>1 DEF NoneIn
        <5>1. w[j] = y[j + 1] /\ j + 1 \in 1 .. z /\ j + 1 # 1
          BY <1>1
        <5> QED
          BY <3>1, <3>2, <5>1
      <4> QED
        BY <2>2, <2>4, <4>1, <4>2
    <3>3. CASE i # 1
      <4>1. y[1] \notin Concluding /\ N = n
        BY <1>2, <3>1, <3>3
      <4>2. i - 1 \in 1 .. z - 1 /\ (i - 1) + 1 = i
        BY <1>1, <3>1, <3>3
      <4>3. w[i - 1] \in Concluding
        BY <1>1, <3>1, <4>2
      <4>4. ASSUME NEW j \in 1 .. z - 1, w[j] \in Concluding
            PROVE  j = i - 1
        <5>1. y[j + 1] \in Concluding /\ j + 1 \in 1 .. z
          BY <1>1, <4>4
        <5>2. j + 1 = i
          BY <3>1, <5>1
        <5> QED
          BY <5>2
      <4>5. OnceIn(w, Concluding)
        BY <1>1, <4>2, <4>3, <4>4 DEF OnceIn
      <4> QED
        BY <2>2, <2>4, <4>1, <4>5
    <3> QED
      BY <3>2, <3>3
  <2> QED
    BY <1>6, <2>3, <2>4 DEF Due
<1>7. ASSUME ~Finished(kind, k)
      PROVE  R = a /\ r = a /\ NoneIn(w, {"READY_FOR_QUERY"})
  <2>1. r = a /\ NoneIn(y, {"READY_FOR_QUERY"})
    BY <1>7 DEF Due
  <2>2. NoneIn(w, {"READY_FOR_QUERY"}) /\ y[1] # "READY_FOR_QUERY"
    BY <1>3, <2>1
  <2> QED
    BY <2>1, <2>2
<1>8. ASSUME Finished(kind, k)
      PROVE  /\ r = a
             /\ \/ R = a + 1 /\ w = <<>>
                \/ R = a /\ ReadyLast(w)
  <2>1. r = a /\ \A j \in 1 .. z : y[j] = "READY_FOR_QUERY" <=> j = z
    BY <1>8 DEF Due, ReadyLast, z
  <2>2. CASE z = 1
    BY <1>1, <1>2, <2>1, <2>2
  <2>3. CASE z # 1
    <3>1. y[1] # "READY_FOR_QUERY" /\ R = a
      BY <1>2, <2>1, <2>3
    <3>2. ASSUME NEW j \in 1 .. z - 1
          PROVE  w[j] = "READY_FOR_QUERY" <=> j = z - 1
      <4>1. w[j] = y[j + 1] /\ j + 1 \in 1 .. z /\ (j + 1 = z <=> j = z - 1)
        BY <1>1
      <4> QED
        BY <2>1, <4>1
    <3>3. w # <<>>
      <4>1. Len(w) # 0
        BY <1>1, <2>3
      <4> QED
        BY <4>1
    <3>4. ReadyLast(w)
      BY <1>1, <3>2, <3>3 DEF ReadyLast
    <3> QED
      BY <2>1, <3>1, <3>4
  <2> QED
    BY <2>2, <2>3
<1>9. Due(w, kind, k, a, N, R)
  BY <1>4, <1>5, <1>6, <1>7, <1>8 DEF Due
<1>10. y[1] \in Concluding => n = a - 1
  BY <1>5, <1>6
<1>11. r = a
  BY <1>7, <1>8
<1> QED
  BY <1>4, <1>9, <1>10, <1>11 DEF w

LEMMA DueSent ==
    ASSUME NEW y \in Seq(EventTypes), NEW t \in Seq(EventTypes), NEW kind, NEW k \in Nat,
           NEW a, NEW n, NEW r, Size(kind) \in Nat, k < Size(kind), Due(y, kind, k, a, n, r),
           Owed(kind, k + 1) => /\ Owed(kind, k) /\ NoneIn(t, Concluding)
                                /\ Len(y) + Len(t) <= k + 1 /\ Len(y) + Len(t) <= 3,
           ~Owed(kind, k + 1) => (Len(y) + Len(t)) + (Size(kind) - (k + 1)) <= EventQueueSize,
           Owed(kind, k) /\ ~Owed(kind, k + 1) => OnceIn(t, Concluding),
           ~Owed(kind, k) => NoneIn(t, Concluding),
           kind # "terminate" /\ k + 1 < Size(kind) => NoneIn(t, {"READY_FOR_QUERY"}),
           kind # "terminate" /\ k + 1 = Size(kind) => ReadyLast(t),
           kind = "terminate" => t = <<>>
    PROVE  Due(y \o t, kind, k + 1, a, n, r)
<1> DEFINE w == y \o t
           b == Len(y)
           c == Len(t)
<1>1. b \in Nat /\ c \in Nat
  BY LenProperties
<1>2. /\ Len(w) = b + c
      /\ \A j \in 1 .. b + c : w[j] = IF j <= b THEN y[j] ELSE t[j - b]
  BY ConcatProperties
<1> HIDE DEF w, b, c
<1>3. /\ \A j \in 1 .. b : w[j] = y[j] /\ j \in 1 .. b + c
      /\ \A j \in 1 .. c : w[b + j] = t[j] /\ b + j \in 1 .. b + c
  <2>1. \A j \in 1 .. b : j \in 1 .. b + c /\ j <= b
    BY <1>1
  <2>2. \A j \in 1 .. c : b + j \in 1 .. b + c /\ ~(b + j <= b) /\ (b + j) - b = j
    BY <1>1
  <2> QED
    BY <1>2, <2>1, <2>2
<1>4. ASSUME NEW j \in 1 .. b + c
      PROVE  j \in 1 .. b \/ (j - b \in 1 .. c /\ b + (j - b) = j /\ w[j] = t[j - b])
  <2>1. CASE j <= b
    BY <1>1, <2>1
  <2>2. CASE ~(j <= b)
    <3>1. j - b \in 1 .. c /\ b + (j - b) = j
      BY <1>1, <2>2
    <3> QED
      BY <1>2, <2>2, <3>1
  <2> QED
    BY <2>1, <2>2
<1>5. ASSUME NEW T, NoneIn(y, T), NoneIn(t, T)
      PROVE  NoneIn(w, T)
  BY <1>2, <1>3, <1>4, <1>5 DEF NoneIn, b, c
<1>6. ASSUME NEW T, NoneIn(y, T), OnceIn(t, T)
      PROVE  OnceIn(w, T)
  <2>1. PICK i \in 1 .. c : t[i] \in T /\ \A j \in 1 .. c : t[j] \in T => j = i
    BY <1>6 DEF OnceIn, c
  <2>2. ASSUME NEW j \in 1 .. b + c, w[j] \in T
        PROVE  j = b + i
    <3>1. j \notin 1 .. b
      BY <1>3, <1>6, <2>2 DEF NoneIn, b
    <3>2. j - b \in 1 .. c /\ b + (j - b) = j /\ t[j - b] \in T
      BY <1>4, <2>2, <3>1
    <3>3. j - b = i
      BY <2>1, <3>2
    <3> QED
      BY <3>2, <3>3
  <2>3. b + i \in 1 .. b + c /\ w[b + i] \in T
    BY <1>3, <2>1
  <2> QED
    BY <1>2, <2>2, <2>3 DEF OnceIn
<1>7. ASSUME NEW T, OnceIn(y, T), NoneIn(t, T)
      PROVE  OnceIn(w, T)
  <2>1. PICK i \in 1 .. b : y[i] \in T /\ \A j \in 1 .. b : y[j] \in T => j = i
    BY <1>7 DEF OnceIn, b
  <2>2. ASSUME NEW j \in 1 .. b + c, w[j] \in T
        PROVE  j = i
    <3>1. j \in 1 .. b
      BY <1>4, <1>7, <2>2 DEF NoneIn, c
    <3> QED
      BY <1>3, <2>1, <2>2, <3>1
  <2> QED
    BY <1>2, <1>3, <2>1, <2>2 DEF OnceIn
<1>8. ASSUME NoneIn(y, {"READY_FOR_QUERY"}), ReadyLast(t)
      PROVE  ReadyLast(w)
  <2>1. c # 0
    BY <1>8, EmptySeq DEF ReadyLast, c
  <2>2. w # <<>>
    <3>1. Len(w) # 0
      BY <1>1, <1>2, <2>1
    <3> QED
      BY <3>1
  <2>3. ASSUME NEW j \in 1 .. b + c
        PROVE  w[j] = "READY_FOR_QUERY" <=> j = b + c
    <3>1. CASE j \in 1 .. b
      <4>1. w[j] # "READY_FOR_QUERY"
        BY <1>3, <1>8, <3>1 DEF NoneIn, b
      <4>2. j # b + c
        BY <1>1, <2>1, <3>1
      <4> QED
        BY <4>1, <4>2
    <3>2. CASE j \notin 1 .. b
      <4>1. j - b \in 1 .. c /\ b + (j - b) = j /\ w[j] = t[j - b]
        BY <1>4, <3>2
      <4>2. t[j - b] = "READY_FOR_QUERY" <=> j - b = c
        BY <1>8, <4>1 DEF ReadyLast, c
      <4>3. j - b = c <=> j = b + c
        BY <1>1
      <4> QED
        BY <4>1, <4>2, <4>3
    <3> QED
      BY <3>1, <3>2
  <2> QED
    BY <1>2, <2>2, <2>3 DEF ReadyLast
<1>9. k + 1 # 0
  OBVIOUS
<1>10. ASSUME Owed(kind, k + 1)
       PROVE  n = a - 1 /\ NoneIn(w, Concluding) /\ Len(w) <= k + 1 /\ Len(w) <= 3
  <2>1. n = a - 1 /\ NoneIn(y, Concluding)
    BY <1>10 DEF Due
  <2>2. NoneIn(w, Concluding)
    BY <1>5, <1>10, <2>1
  <2> QED
    BY <1>2, <1>10, <2>1, <2>2 DEF b, c
<1>11. ASSUME ~Owed(kind, k + 1)
       PROVE  /\ Len(w) + (Size(kind) - (k + 1)) <= EventQueueSize
              /\ \/ n = a /\ NoneIn(w, Concluding)
                 \/ n = a - 1 /\ OnceIn(w, Concluding)
  <2>1. Len(w) + (Size(kind) - (k + 1)) <= EventQueueSize
    BY <1>2, <1>11 DEF b, c
  <2>2. CASE Owed(kind, k)
    <3>1. n = a - 1 /\ NoneIn(y, Concluding) /\ OnceIn(t, Concluding)
      BY <1>11, <2>2 DEF Due
    <3> QED
      BY <1>6, <2>1, <3>1
  <2>3. CASE ~Owed(kind, k)
    <3>1. NoneIn(t, Concluding)
      BY <2>3
    <3>2. \/ n = a /\ NoneIn(y, Concluding)
          \/ n = a - 1 /\ OnceIn(y, Concluding)
      BY <2>3 DEF Due
    <3> QED
      BY <1>5, <1>7, <2>1, <3>1, <3>2
  <2> QED
    BY <2>2, <2>3
<1>12. ASSUME kind # "terminate"
       PROVE  r = a /\ NoneIn(y, {"READY_FOR_QUERY"})
  <2>1. ~Finished(kind, k)
    BY <1>12 DEF Finished
  <2> QED
    BY <2>1 DEF Due
<1>13. ASSUME ~Finished(kind, k + 1)
       PROVE  r = a /\ NoneIn(w, {"READY_FOR_QUERY"})
  <2>1. kind # "terminate" /\ k + 1 < Size(kind)
    BY <1>13 DEF Finished
  <2> QED
    BY <1>5, <1>12, <2>1
<1>14. ASSUME Finished(kind, k + 1)
       PROVE  (r = a + 1 /\ w = <<>>) \/ (r = a /\ ReadyLast(w))
  <2>1. CASE kind = "terminate"
    <3>1. (r = a + 1 /\ y = <<>>) \/ (r = a /\ ReadyLast(y))
      BY <2>1 DEF Due, Finished
    <3>2. w = y
      BY <2>1, ConcatEmptySeq DEF w
    <3> QED
      BY <3>1, <3>2
  <2>2. CASE kind # "terminate"
    <3>1. k + 1 = Size(kind)
      BY <1>14, <2>2 DEF Finished
    <3> QED
      BY <1>8, <1>12, <2>2, <3>1
  <2> QED
    BY <2>1, <2>2
<1>15. Due(w, kind, k + 1, a, n, r)
  BY <1>9, <1>10, <1>11, <1>13, <1>14 DEF Due
<1> QED
  BY <1>15 DEF w

-----------------------------------------------------------------------------
(* The client's application polls an event.                                *)

Noted(ans, ev) ==
    CASE ev.type = "COMMAND_COMPLETE" -> Append(ans, ev.text)
      [] ev.type = "ERROR_RESPONSE" -> Append(ans, Failed)
      [] OTHER -> ans
ReadiesAfter(r, ev) == IF ev.type = "READY_FOR_QUERY" THEN r + 1 ELSE r

\* An answer for the last request is one for the next entry of the answers.
LEMMA CountersNoted ==
    ASSUME NEW q, NEW a, NEW ans, NEW r, Counters(q, a, ans, r), Len(ans) = a - 1,
           NEW x, x = q \/ x = Failed
    PROVE  /\ Counters(q, a, Append(ans, x), r)
           /\ Len(Append(ans, x)) = Len(ans) + 1
<1> DEFINE n == Len(ans)
<1>1. /\ q \in 0 .. MaxRequests /\ a \in 0 .. q /\ ans \in Seq(0 .. MaxRequests)
      /\ MaxRequests \in Nat /\ n \in Nat /\ n = a - 1
  BY DialecticAssumption, LenProperties DEF Counters
<1>2. x \in 0 .. MaxRequests
  BY <1>1 DEF Failed
<1>3. /\ Append(ans, x) \in Seq(0 .. MaxRequests) /\ Len(Append(ans, x)) = n + 1
      /\ Append(ans, x)[n + 1] = x
      /\ \A j \in 1 .. n : Append(ans, x)[j] = ans[j]
  BY <1>1, <1>2, AppendProperties
<1> DEFINE w == Append(ans, x)
<1> HIDE DEF w, n
<1>4. ASSUME NEW j \in 1 .. Len(w)
      PROVE  w[j] \in {q - a + j, Failed}
  <2>1. CASE j \in 1 .. n
    BY <1>3, <2>1 DEF Counters, n, w
  <2>2. CASE j \notin 1 .. n
    <3>1. j = n + 1 /\ q - a + j = q
      BY <1>1, <1>3, <2>2 DEF w
    <3> QED
      BY <1>3, <3>1 DEF w
  <2> QED
    BY <2>1, <2>2
<1> QED
  BY <1>3, <1>4 DEF Counters, w, n

LEMMA ClientPolls ==
    ASSUME NEW c, NEW s, NEW q, NEW a, NEW ans, NEW r, NEW stm, NEW o, NEW kind, NEW k, NEW m,
           Exchange(c, s, q, a, ans, r, stm, o, kind, k, m), EventQueueSize >= 7,
           c.events # <<>>
    PROVE  Exchange(DropEvent(c), s, q, a, Noted(ans, ReadEvent(c)),
                    ReadiesAfter(r, ReadEvent(c)), stm, o, kind, k, m)
<1> DEFINE d == DropEvent(c)
           ev == ReadEvent(c)
           y == Pending(c.events, s.output)
           n == Len(ans)
           type == c.events[1].type
<1>1. /\ kind \in Kinds /\ k \in Nat /\ m \in Nat /\ k <= m /\ m <= Size(kind)
      /\ Size(kind) \in Nat /\ q \in Nat /\ a \in Nat /\ r \in Nat /\ n \in Nat
      /\ MaxRequests \in Nat
  <2>1. kind \in Kinds /\ k \in Nat /\ m \in Nat /\ k <= m /\ m <= Size(kind)
    BY DEF Exchange
  <2>2. Size(kind) \in Nat /\ MaxRequests \in Nat
    BY <2>1, SizeRange, DialecticAssumption
  <2>3. /\ q \in 0 .. MaxRequests /\ a \in 0 .. q /\ ans \in Seq(0 .. MaxRequests)
        /\ r \in 0 .. a + 1
    BY DEF Exchange, Counters
  <2>4. q \in Nat /\ a \in Nat /\ r \in Nat
    BY <2>2, <2>3
  <2>5. n \in Nat
    BY <2>3, LenProperties
  <2> QED
    BY <2>1, <2>2, <2>4, <2>5
<1>2. /\ c.events \in Seq(Event) /\ s.output \in Seq(Msg) /\ AnswersOnly(s.output)
      /\ Len(c.events) \in Nat /\ y \in Seq(EventTypes)
  BY PendingRoom
<1>3. y # <<>> /\ y[1] = type /\ Pending(Tail(c.events), s.output) = Tail(y)
  BY <1>2, PendingPolled
<1>4. Due(y, kind, k, a, n, r)
  BY DEF Exchange
<1> HIDE DEF y, n
<1>5. /\ type \in Concluding => n = a - 1
      /\ type = "READY_FOR_QUERY" => r = a
      /\ Due(Tail(y), kind, k, a, IF type \in Concluding THEN n + 1 ELSE n,
             IF type = "READY_FOR_QUERY" THEN r + 1 ELSE r)
      /\ k # 0 /\ r = a
  BY <1>1, <1>2, <1>3, <1>4, DuePolled
<1>6. Len(c.events) >= 1 /\ 1 \in 1 .. Len(c.events)
  <2>1. Len(c.events) # 0
    BY <1>2, EmptySeq
  <2> QED
    BY <1>2, <2>1
<1>7. c.events[1] \in Event /\ Head(c.events) = c.events[1]
  BY <1>2, <1>6, ElementOfSeq DEF Head
<1>8. ev.type = type /\ (type = "COMMAND_COMPLETE" => ev.text = q)
  <2>1. ev = IF type \in ScratchTypes THEN [type |-> type, text |-> c.scratch[type]]
             ELSE c.events[1]
    BY <1>7 DEF ReadEvent
  <2>2. type = "COMMAND_COMPLETE" => c.scratch["COMMAND_COMPLETE"] = q
    BY <1>6 DEF Exchange, Texts
  <2> QED
    BY <2>1, <2>2 DEF ScratchTypes
<1> HIDE DEF ev
<1>9. c \in ContextType /\ OnlyEvents(c, d) /\ d.events = Tail(c.events)
  BY DropEventDrops DEF Exchange, Contexts
<1> HIDE DEF d, type
<1>10. /\ d \in ContextType /\ d.role = c.role /\ d.lost = c.lost /\ d.output = c.output
       /\ d.scratch = c.scratch /\ d.auth_state = c.auth_state
  BY <1>9 DEF OnlyEvents
<1>11. Contexts(d, s) /\ Commands(d, s, q, kind, k, m)
  BY <1>10 DEF Exchange, Contexts, Commands
<1>12. /\ Counters(q, a, Noted(ans, ev), ReadiesAfter(r, ev))
       /\ Len(Noted(ans, ev)) = IF type \in Concluding THEN n + 1 ELSE n
  <2>1. Counters(q, a, ans, ReadiesAfter(r, ev))
    <3>1. ReadiesAfter(r, ev) \in 0 .. a + 1
      BY <1>1, <1>5, <1>8 DEF ReadiesAfter
    <3> QED
      BY <3>1 DEF Exchange, Counters
  <2>2. CASE type \in Concluding
    <3>1. \E x : (x = q \/ x = Failed) /\ Noted(ans, ev) = Append(ans, x)
      BY <1>8, <2>2 DEF Noted, Concluding
    <3> QED
      BY <1>5, <2>1, <2>2, <3>1, CountersNoted DEF n
  <2>3. CASE type \notin Concluding
    <3>1. Noted(ans, ev) = ans
      BY <1>8, <2>3 DEF Noted, Concluding
    <3> QED
      BY <2>1, <2>3, <3>1 DEF n
  <2> QED
    BY <2>2, <2>3
<1>13. Due(Pending(d.events, s.output), kind, k, a, Len(Noted(ans, ev)), ReadiesAfter(r, ev))
  BY <1>3, <1>5, <1>8, <1>9, <1>12 DEF ReadiesAfter
<1>14. Texts(d, s, q)
  <2>1. ASSUME NEW j \in 1 .. Len(d.events), d.events[j].type = "COMMAND_COMPLETE"
        PROVE  d.scratch["COMMAND_COMPLETE"] = q
    <3>1. Len(d.events) = Len(c.events) - 1 /\ d.events[j] = c.events[j + 1]
      BY <1>2, <1>9, HeadTailProperties
    <3>2. j + 1 \in 1 .. Len(c.events)
      BY <1>2, <3>1
    <3> QED
      BY <1>10, <2>1, <3>1, <3>2 DEF Exchange, Texts
  <2> QED
    BY <2>1 DEF Exchange, Texts
<1>15. Unauthenticated(d, s, kind, q, k, m)
  BY <1>10 DEF Exchange, Unauthenticated
<1>16. kind # "terminate"
  <2>1. kind = "terminate" => r = a + 1
    BY DEF Exchange
  <2>2. r # a + 1
    BY <1>1, <1>5
  <2> QED
    BY <2>1, <2>2
<1> QED
  BY <1>11, <1>12, <1>13, <1>14, <1>15, <1>16 DEF Exchange, d, ev

-----------------------------------------------------------------------------
(* The server's application answers an event.                              *)

\* A reply with exactly one message that concludes the request, or none, and
\* with ReadyForQuery as its last message, or not at all.
Reply(msgs, q, concludes, ready) ==
    /\ msgs \in Seq(Msg)
    /\ \A j \in 1 .. Len(msgs) :
           /\ msgs[j].ok /\ msgs[j].type \in Answering
           /\ msgs[j].type = "C" => msgs[j].text = q
    /\ IF concludes
       THEN \E i \in 1 .. Len(msgs) :
                /\ msgs[i].type \in {"C", "E"}
                /\ \A j \in 1 .. Len(msgs) : msgs[j].type \in {"C", "E"} => j = i
       ELSE \A j \in 1 .. Len(msgs) : msgs[j].type \notin {"C", "E"}
    /\ IF ready
       THEN msgs # <<>> /\ \A j \in 1 .. Len(msgs) : msgs[j].type = "Z" <=> j = Len(msgs)
       ELSE \A j \in 1 .. Len(msgs) : msgs[j].type # "Z"

LEMMA ReplyTypes ==
    ASSUME NEW msgs, NEW q, NEW concludes, NEW ready, Reply(msgs, q, concludes, ready)
    PROVE  LET t == EventTypesOf(msgs)
           IN  /\ concludes => OnceIn(t, Concluding)
               /\ ~concludes => NoneIn(t, Concluding)
               /\ ready => ReadyLast(t)
               /\ ~ready => NoneIn(t, {"READY_FOR_QUERY"})
<1> DEFINE t == EventTypesOf(msgs)
           n == Len(msgs)
<1>1. n \in Nat /\ msgs \in Seq(Msg)
  BY LenProperties DEF Reply
<1>2. Len(t) = n /\ \A j \in 1 .. n : t[j] = EventOf(Client)[msgs[j].type]
  BY <1>1 DEF EventTypesOf
<1>3. ASSUME NEW j \in 1 .. n
      PROVE  /\ t[j] \in Concluding <=> msgs[j].type \in {"C", "E"}
             /\ t[j] = "READY_FOR_QUERY" <=> msgs[j].type = "Z"
  BY <1>2, AnsweringEvents DEF Reply
<1> HIDE DEF t
<1>4. concludes => OnceIn(t, Concluding)
  BY <1>2, <1>3 DEF Reply, OnceIn
<1>5. ~concludes => NoneIn(t, Concluding)
  BY <1>2, <1>3 DEF Reply, NoneIn
<1>6. ready => ReadyLast(t)
  <2> SUFFICES ASSUME ready PROVE ReadyLast(t)
    OBVIOUS
  <2>1. n # 0
    BY <1>1, EmptySeq DEF Reply
  <2>2. t # <<>>
    <3>1. Len(<<>>) = 0
      OBVIOUS
    <3> QED
      BY <1>2, <2>1, <3>1
  <2> QED
    BY <1>2, <1>3, <2>2 DEF Reply, ReadyLast
<1>7. ~ready => NoneIn(t, {"READY_FOR_QUERY"})
  BY <1>2, <1>3 DEF Reply, NoneIn
<1> QED
  BY <1>4, <1>5, <1>6, <1>7 DEF t

LEMMA AnswerMessages ==
    ASSUME NEW t \in Answering, NEW n \in Nat
    PROVE  /\ Message(t, n) \in Msg /\ Message(t, n).ok
           /\ Message(t, n).type = t /\ Message(t, n).text = n
BY DEF Message, Msg

\* Replies of one and of two messages.
LEMMA ShortReply ==
    ASSUME NEW t \in Answering, NEW n \in Nat, NEW q, t = "C" => n = q
    PROVE  Reply(<<Message(t, n)>>, q, t \in {"C", "E"}, t = "Z") /\ Len(<<Message(t, n)>>) = 1
<1> DEFINE e == Message(t, n)
<1>1. e \in Msg /\ e.ok /\ e.type = t /\ e.text = n
  BY AnswerMessages
<1> HIDE DEF e
<1>2. <<e>> \in Seq(Msg) /\ Len(<<e>>) = 1 /\ <<e>>[1] = e /\ <<e>> # <<>>
  BY <1>1
<1> DEFINE x == <<e>>
<1>3. \A j \in 1 .. Len(x) : j = 1 /\ x[j] = e /\ Len(x) = 1
  BY <1>2
<1>4. 1 \in 1 .. Len(x)
  BY <1>2
<1> HIDE DEF x
<1>5. Reply(x, q, t \in {"C", "E"}, t = "Z")
  BY <1>1, <1>2, <1>3, <1>4 DEF Reply, x
<1> QED
  BY <1>2, <1>5 DEF x, e

LEMMA ReadyReply ==
    ASSUME NEW t \in Answering, t # "C", t # "Z", NEW q
    PROVE  /\ Reply(<<Message(t, 0), Ready>>, q, t = "E", TRUE)
           /\ Len(<<Message(t, 0), Ready>>) = 2
<1> DEFINE e == Message(t, 0)
           z == Ready
<1>1. e \in Msg /\ e.ok /\ e.type = t
  BY AnswerMessages
<1>2. z \in Msg /\ z.ok /\ z.type = "Z" /\ "Z" \in Answering
  BY AnswerMessages DEF Ready, Answering
<1> HIDE DEF e, z
<1> DEFINE x == <<e, z>>
<1>3. x \in Seq(Msg) /\ Len(x) = 2 /\ x[1] = e /\ x[2] = z /\ x # <<>>
  BY <1>1, <1>2
<1> HIDE DEF x
<1>4. \A j \in 1 .. Len(x) : (j = 1 /\ x[j] = e) \/ (j = 2 /\ x[j] = z)
  BY <1>3
<1>5. 1 \in 1 .. Len(x)
  BY <1>3
<1>6. Reply(x, q, t = "E", TRUE)
  BY <1>1, <1>2, <1>3, <1>4, <1>5 DEF Reply
<1> QED
  BY <1>3, <1>6 DEF x, e, z

\* The rows of a result, and the replies with rows.
Rows(q, n) == [i \in 1 .. n |-> Message("D", q)]
LEMMA RowsReply ==
    ASSUME NEW q \in Nat, NEW n \in Nat
    PROVE  /\ Reply(Rows(q, n) \o Complete(q), q, TRUE, FALSE)
           /\ Len(Rows(q, n) \o Complete(q)) = n + 1
<1> DEFINE d == Message("D", q)
           e == Message("C", q)
           x == Rows(q, n)
           w == x \o <<e>>
<1>1. d \in Msg /\ d.ok /\ d.type = "D" /\ e \in Msg /\ e.ok /\ e.type = "C" /\ e.text = q
      /\ "D" \in Answering /\ "C" \in Answering
  BY AnswerMessages DEF Answering
<1>2. x \in Seq(Msg) /\ Len(x) = n /\ \A j \in 1 .. n : x[j] = d
  <2>1. \A j \in 1 .. n : Message("D", q) \in Msg
    BY <1>1
  <2> QED
    BY <2>1 DEF Rows
<1> HIDE DEF d, e, x
<1>3. <<e>> \in Seq(Msg) /\ Len(<<e>>) = 1 /\ <<e>>[1] = e
  BY <1>1
<1>4. /\ w \in Seq(Msg) /\ Len(w) = n + 1
      /\ \A j \in 1 .. n + 1 : w[j] = IF j <= n THEN x[j] ELSE <<e>>[j - n]
  BY <1>2, <1>3, ConcatProperties
<1>5. ASSUME NEW j \in 1 .. n + 1
      PROVE  (j # n + 1 /\ w[j] = d) \/ (j = n + 1 /\ w[j] = e)
  <2>1. CASE j <= n
    BY <1>2, <1>4, <2>1
  <2>2. CASE ~(j <= n)
    <3>1. j = n + 1 /\ j - n = 1
      BY <2>2
    <3> QED
      BY <1>3, <1>4, <2>2, <3>1
  <2> QED
    BY <2>1, <2>2
<1>6. n + 1 \in 1 .. n + 1
  OBVIOUS
<1> HIDE DEF w
<1>7. /\ \A j \in 1 .. n + 1 : w[j].ok /\ w[j].type \in Answering /\ w[j].type # "Z"
      /\ \A j \in 1 .. n + 1 : w[j].type = "C" => w[j].text = q
      /\ \A j \in 1 .. n + 1 : w[j].type \in {"C", "E"} => j = n + 1
  BY <1>1, <1>5
<1>8. w[n + 1].type \in {"C", "E"}
  BY <1>1, <1>5, <1>6
<1>9. Reply(w, q, TRUE, FALSE)
  <2>1. \E i \in 1 .. n + 1 :
            /\ w[i].type \in {"C", "E"}
            /\ \A j \in 1 .. n + 1 : w[j].type \in {"C", "E"} => j = i
    BY <1>6, <1>7, <1>8, Zenon
  <2>2. Len(w) = n + 1 /\ w \in Seq(Msg)
    BY <1>4
  <2> QED
    BY <1>7, <2>1, <2>2, Zenon DEF Reply
<1> QED
  BY <1>4, <1>9 DEF w, x, e, Complete

LEMMA QueryReply ==
    ASSUME NEW q \in Nat, NEW n \in Nat
    PROVE  LET w == Described(q) \o Rows(q, n) \o Complete(q) \o <<Ready>>
           IN  Reply(w, q, TRUE, TRUE) /\ Len(w) = n + 3
<1> DEFINE b == Message("T", q)
           d == Message("D", q)
           e == Message("C", q)
           z == Ready
           x == Rows(q, n)
           u == <<b>> \o x
           v == u \o <<e>>
           w == v \o <<z>>
<1>1. /\ b \in Msg /\ b.ok /\ b.type = "T" /\ d \in Msg /\ d.ok /\ d.type = "D"
      /\ e \in Msg /\ e.ok /\ e.type = "C" /\ e.text = q
      /\ z \in Msg /\ z.ok /\ z.type = "Z"
      /\ {"T", "D", "C", "Z"} \subseteq Answering
  BY AnswerMessages DEF Answering, Ready
<1>2. x \in Seq(Msg) /\ Len(x) = n /\ \A j \in 1 .. n : x[j] = d
  <2>1. \A j \in 1 .. n : Message("D", q) \in Msg
    BY <1>1
  <2> QED
    BY <2>1 DEF Rows
<1> HIDE DEF b, d, e, x, z
<1>3. /\ <<b>> \in Seq(Msg) /\ Len(<<b>>) = 1 /\ <<b>>[1] = b
      /\ <<e>> \in Seq(Msg) /\ Len(<<e>>) = 1 /\ <<e>>[1] = e
      /\ <<z>> \in Seq(Msg) /\ Len(<<z>>) = 1 /\ <<z>>[1] = z
  BY <1>1
<1>4. /\ u \in Seq(Msg) /\ Len(u) = n + 1
      /\ \A j \in 1 .. n + 1 : u[j] = IF j = 1 THEN b ELSE d
  <2>1. /\ u \in Seq(Msg) /\ Len(u) = 1 + n
        /\ \A j \in 1 .. 1 + n : u[j] = IF j <= 1 THEN <<b>>[j] ELSE x[j - 1]
    BY <1>2, <1>3, ConcatProperties
  <2>2. \A j \in 1 .. n + 1 : (j <= 1 <=> j = 1) /\ (j # 1 => j - 1 \in 1 .. n)
    OBVIOUS
  <2>3. 1 + n = n + 1
    OBVIOUS
  <2> QED
    BY <1>2, <1>3, <2>1, <2>2, <2>3
<1> HIDE DEF u
<1>5. /\ v \in Seq(Msg) /\ Len(v) = n + 2
      /\ \A j \in 1 .. n + 2 : v[j] = IF j = 1 THEN b ELSE IF j = n + 2 THEN e ELSE d
  <2>1. /\ v \in Seq(Msg) /\ Len(v) = (n + 1) + 1
        /\ \A j \in 1 .. (n + 1) + 1 : v[j] = IF j <= n + 1 THEN u[j] ELSE <<e>>[j - (n + 1)]
    BY <1>3, <1>4, ConcatProperties
  <2>2. (n + 1) + 1 = n + 2
    OBVIOUS
  <2>3. ASSUME NEW j \in 1 .. n + 2
        PROVE  v[j] = IF j = 1 THEN b ELSE IF j = n + 2 THEN e ELSE d
    <3>1. CASE j <= n + 1
      <4>1. j \in 1 .. n + 1 /\ j # n + 2
        BY <3>1
      <4> QED
        BY <1>4, <2>1, <2>2, <3>1, <4>1
    <3>2. CASE ~(j <= n + 1)
      <4>1. j = n + 2 /\ j # 1 /\ j - (n + 1) = 1
        BY <3>2
      <4> QED
        BY <1>3, <2>1, <2>2, <3>2, <4>1
    <3> QED
      BY <3>1, <3>2
  <2> QED
    BY <2>1, <2>2, <2>3
<1> HIDE DEF v
<1>6. /\ w \in Seq(Msg) /\ Len(w) = n + 3
      /\ \A j \in 1 .. n + 3 :
             w[j] = IF j = 1 THEN b ELSE IF j = n + 2 THEN e ELSE IF j = n + 3 THEN z ELSE d
  <2>1. /\ w \in Seq(Msg) /\ Len(w) = (n + 2) + 1
        /\ \A j \in 1 .. (n + 2) + 1 : w[j] = IF j <= n + 2 THEN v[j] ELSE <<z>>[j - (n + 2)]
    BY <1>3, <1>5, ConcatProperties
  <2>2. (n + 2) + 1 = n + 3
    OBVIOUS
  <2>3. ASSUME NEW j \in 1 .. n + 3
        PROVE  w[j] = IF j = 1 THEN b ELSE IF j = n + 2 THEN e ELSE IF j = n + 3 THEN z ELSE d
    <3>1. CASE j <= n + 2
      <4>1. j \in 1 .. n + 2 /\ j # n + 3
        BY <3>1
      <4> QED
        BY <1>5, <2>1, <2>2, <3>1, <4>1
    <3>2. CASE ~(j <= n + 2)
      <4>1. j = n + 3 /\ j # 1 /\ j # n + 2 /\ j - (n + 2) = 1
        BY <3>2
      <4> QED
        BY <1>3, <2>1, <2>2, <3>2, <4>1
    <3> QED
      BY <3>1, <3>2
  <2> QED
    BY <2>1, <2>2, <2>3
<1> HIDE DEF w
<1>7. n + 2 \in 1 .. n + 3 /\ n + 2 # 1 /\ n + 3 # 1 /\ n + 2 # n + 3 /\ n + 3 # 0
  OBVIOUS
<1>8. w # <<>>
  <2>1. Len(<<>>) = 0
    OBVIOUS
  <2> QED
    BY <1>6, <1>7, <2>1
<1>9. ASSUME NEW j \in 1 .. n + 3
      PROVE  /\ w[j].ok /\ w[j].type \in Answering /\ (w[j].type = "C" => w[j].text = q)
             /\ w[j].type \in {"C", "E"} <=> j = n + 2
             /\ w[j].type = "Z" <=> j = n + 3
  BY <1>1, <1>6, <1>7
<1>10. Reply(w, q, TRUE, TRUE)
  BY <1>6, <1>7, <1>8, <1>9 DEF Reply
<1> QED
  BY <1>6, <1>10 DEF w, v, u, x, b, e, z, Described, Complete

\* What the application answers, as far as the exchange is concerned.
Fitting(msgs, ev, stm) ==
    /\ ev.type = "STARTUP" => msgs = <<Message("R", 0), Ready>>
    /\ ev.type = "QUERY" =>
           Reply(msgs, ev.text, TRUE, TRUE) /\ Len(msgs) <= EventQueueSize - 3
    /\ ev.type \in {"PARSE", "BIND", "DESCRIBE", "CLOSE"} =>
           \A q : Reply(msgs, q, FALSE, FALSE) /\ Len(msgs) = 1
    /\ ev.type = "EXECUTE" =>
           Reply(msgs, stm, TRUE, FALSE) /\ Len(msgs) <= EventQueueSize - 5
    /\ ev.type = "SYNC" => \A q : Reply(msgs, q, FALSE, TRUE) /\ Len(msgs) = 1
    /\ ev.type \in {"FLUSH", "TERMINATE"} => msgs = <<>>

LEMMA AnswersFit ==
    ASSUME NEW ev, ev.text \in Nat, statement \in Nat, Sized, NEW msgs \in Answers(ev)
    PROVE  Fitting(msgs, ev, statement)
<1>1. /\ EventQueueSize \in Nat /\ EventQueueSize >= 7 /\ RowCounts \subseteq Nat
      /\ \A n \in RowCounts : n \in Nat /\ n + 6 <= EventQueueSize
  BY ContextAssumption, DialecticAssumption DEF Sized
<1>2. \A t \in {"R", "E", "1", "2", "3", "T", "n", "Z"} : t \in Answering
  BY DEF Answering
<1>3. ASSUME ev.type = "STARTUP"
      PROVE  msgs = <<Message("R", 0), Ready>>
  BY <1>3 DEF Answers
<1>4. ASSUME ev.type = "QUERY"
      PROVE  Reply(msgs, ev.text, TRUE, TRUE) /\ Len(msgs) <= EventQueueSize - 3
  <2>1. \/ \E n \in RowCounts :
               msgs = Described(ev.text) \o Rows(ev.text, n) \o Complete(ev.text) \o <<Ready>>
        \/ msgs = <<Error, Ready>>
    BY <1>4 DEF Answers, DataRows, Rows
  <2>2. CASE msgs = <<Error, Ready>>
    <3>1. Reply(<<Error, Ready>>, ev.text, TRUE, TRUE) /\ Len(<<Error, Ready>>) = 2
      BY <1>2, ReadyReply DEF Error
    <3>2. 2 <= EventQueueSize - 3
      BY <1>1
    <3> QED
      BY <2>2, <3>1, <3>2
  <2>3. ASSUME NEW n \in RowCounts,
               msgs = Described(ev.text) \o Rows(ev.text, n) \o Complete(ev.text) \o <<Ready>>
        PROVE  Reply(msgs, ev.text, TRUE, TRUE) /\ Len(msgs) <= EventQueueSize - 3
    <3>1. Reply(msgs, ev.text, TRUE, TRUE) /\ Len(msgs) = n + 3
      BY <1>1, <2>3, QueryReply
    <3>2. n + 3 <= EventQueueSize - 3
      BY <1>1
    <3> QED
      BY <3>1, <3>2
  <2> QED
    BY <2>1, <2>2, <2>3
<1>5. ASSUME ev.type \in {"PARSE", "BIND", "DESCRIBE", "CLOSE"}, NEW q
      PROVE  Reply(msgs, q, FALSE, FALSE) /\ Len(msgs) = 1
  <2>1. \E t \in {"1", "2", "3", "T", "n"}, n \in Nat : msgs = <<Message(t, n)>>
    BY <1>5 DEF Answers, Described
  <2>2. PICK t \in {"1", "2", "3", "T", "n"}, n \in Nat : msgs = <<Message(t, n)>>
    BY <2>1
  <2>3. t \in Answering /\ t # "C" /\ (t \in {"C", "E"}) = FALSE /\ (t = "Z") = FALSE
    BY <1>2
  <2> QED
    BY <2>2, <2>3, ShortReply
<1>6. ASSUME ev.type = "EXECUTE"
      PROVE  Reply(msgs, statement, TRUE, FALSE) /\ Len(msgs) <= EventQueueSize - 5
  <2>1. \/ \E n \in RowCounts : msgs = Rows(statement, n) \o Complete(statement)
        \/ msgs = <<Error>>
    BY <1>6 DEF Answers, DataRows, Rows
  <2>2. CASE msgs = <<Error>>
    <3>1. Reply(<<Error>>, statement, TRUE, FALSE) /\ Len(<<Error>>) = 1
      <4>1. ("E" \in {"C", "E"}) = TRUE /\ ("E" = "Z") = FALSE
        OBVIOUS
      <4> QED
        BY <1>2, <4>1, ShortReply DEF Error
    <3>2. 1 <= EventQueueSize - 5
      BY <1>1
    <3> QED
      BY <2>2, <3>1, <3>2
  <2>3. ASSUME NEW n \in RowCounts, msgs = Rows(statement, n) \o Complete(statement)
        PROVE  Reply(msgs, statement, TRUE, FALSE) /\ Len(msgs) <= EventQueueSize - 5
    <3>1. Reply(msgs, statement, TRUE, FALSE) /\ Len(msgs) = n + 1
      BY <1>1, <2>3, RowsReply
    <3>2. n + 1 <= EventQueueSize - 5
      BY <1>1
    <3> QED
      BY <3>1, <3>2
  <2> QED
    BY <2>1, <2>2, <2>3
<1>7. ASSUME ev.type = "SYNC", NEW q
      PROVE  Reply(msgs, q, FALSE, TRUE) /\ Len(msgs) = 1
  <2>1. msgs = <<Message("Z", 0)>>
    BY <1>7 DEF Answers, Ready
  <2>2. ("Z" \in {"C", "E"}) = FALSE /\ ("Z" = "Z") = TRUE
    OBVIOUS
  <2> QED
    BY <1>2, <2>1, <2>2, ShortReply
<1>8. ASSUME ev.type \in {"FLUSH", "TERMINATE"}
      PROVE  msgs = <<>>
  BY <1>8 DEF Answers
<1> QED
  BY <1>3, <1>4, <1>5, <1>6, <1>7, <1>8 DEF Fitting

LEMMA EmptyReply == ASSUME NEW q PROVE Reply(<<>>, q, FALSE, FALSE) /\ Len(<<>>) = 0
<1>1. <<>> \in Seq(Msg) /\ Len(<<>>) = 0
  OBVIOUS
<1>2. \A j \in 1 .. Len(<<>>) : FALSE
  BY <1>1
<1> QED
  BY <1>1, <1>2 DEF Reply

\* The longest that the replies under way become.
Room(l, n, kind, k) ==
    /\ Owed(kind, k + 1) => l + n <= k + 1 /\ l + n <= 3
    /\ ~Owed(kind, k + 1) => (l + n) + (Size(kind) - (k + 1)) <= EventQueueSize

\* The reply concludes the request or ends the exchange when it is its turn to.
Replies(msgs, kind, q, k, concludes, ready) ==
    /\ Reply(msgs, q, concludes, ready)
    /\ concludes <=> (Owed(kind, k) /\ ~Owed(kind, k + 1))
    /\ ready <=> (kind # "terminate" /\ k + 1 = Size(kind))
Answered(msgs, type, kind, q, k, l) ==
    /\ \E concludes, ready \in BOOLEAN : Replies(msgs, kind, q, k, concludes, ready)
    /\ Owed(kind, k + 1) => Owed(kind, k)
    /\ Len(msgs) \in Nat /\ Room(l, Len(msgs), kind, k)
    /\ kind = "terminate" => msgs = <<>>
    /\ kind = "startup" => msgs = <<Message("R", 0), Ready>>
    /\ type = "PARSE" <=> (kind \in Pipelines /\ k = 0)

\* What follows from the message of the script whose turn it is.
LEMMA TurnReply ==
    ASSUME NEW msg, NEW msgs, NEW stm, NEW ev, NEW kind \in Kinds, NEW q, NEW k \in Nat,
           NEW l \in Nat,
           k < Size(kind), EventQueueSize >= 7,
           Turn(msg, kind, q, k), ev.type = Command(msg).type, Fitting(msgs, ev, stm),
           ev.type = "QUERY" => ev.text = q,
           kind \in Pipelines /\ k >= 1 => stm = q,
           k = 0 => l = 0,
           Owed(kind, k) => l <= k /\ l <= 3,
           ~Owed(kind, k) => l + (Size(kind) - k) <= EventQueueSize
    PROVE  Answered(msgs, ev.type, kind, q, k, l)
<1> DEFINE n == Len(msgs)
           z == Size(kind)
           y == EventQueueSize
<1>1. z \in Nat /\ y \in Nat /\ y >= 7 /\ k < z /\ (kind \notin Pipelines => z = 1)
  BY SizeRange, ContextAssumption
<1>2. \A c, d : Reply(msgs, q, c, d) => n \in Nat
  BY LenProperties DEF Reply
<1>3. /\ msg.type = Startup => ev.type = "STARTUP"
      /\ msg.type = "Q" => ev.type = "QUERY"
      /\ msg.type = "X" => ev.type = "TERMINATE"
      /\ msg.type = "P" => ev.type = "PARSE"
      /\ msg.type \in {"B", "D"} => ev.type \in {"BIND", "DESCRIBE"}
      /\ msg.type = "H" => ev.type = "FLUSH"
      /\ msg.type = "E" => ev.type = "EXECUTE"
      /\ msg.type = "C" => ev.type = "CLOSE"
      /\ msg.type = "S" => ev.type = "SYNC"
  BY ServerEvents DEF Command, Startup
<1>4. Reply(<<>>, q, FALSE, FALSE) /\ Len(<<>>) = 0
  BY EmptyReply
<1> HIDE DEF n, z, y
<1>5. CASE kind = "startup" /\ k = 0 /\ msg.type = Startup
  <2>1. msgs = <<Message("R", 0), Ready>> /\ ev.type = "STARTUP"
    BY <1>3, <1>5 DEF Fitting
  <2>2. Reply(msgs, q, FALSE, TRUE) /\ n = 2
    <3>1. "R" \in Answering /\ ("R" = "E") = FALSE
      BY DEF Answering
    <3> QED
      BY <2>1, <3>1, ReadyReply DEF n
  <2>3. ~Owed(kind, k) /\ ~Owed(kind, k + 1) /\ z = 1 /\ kind \notin Pipelines
    BY <1>1, <1>5 DEF Owed, Pipelines
  <2>4. (l + n) + (z - (k + 1)) <= y
    BY <1>1, <1>5, <2>2, <2>3
  <2>0. k + 1 = z /\ kind # "terminate"
    BY <1>5, <2>3
  <2>5. Replies(msgs, kind, q, k, FALSE, TRUE)
    BY <2>0, <2>2, <2>3 DEF Replies, z
  <2>6. Room(l, Len(msgs), kind, k) /\ Len(msgs) \in Nat
    BY <1>5, <2>1, <2>2, <2>3, <2>4, <2>5 DEF Room, n, z, y
  <2> QED
    BY <1>5, <2>1, <2>2, <2>3, <2>4, <2>5, <2>6 DEF Answered
<1>6. CASE kind = "simple" /\ k = 0 /\ msg.type = "Q"
  <2>1. ev.type = "QUERY" /\ Reply(msgs, q, TRUE, TRUE) /\ n <= y - 3
    BY <1>3, <1>6 DEF Fitting, n, y
  <2>2. Owed(kind, k) /\ ~Owed(kind, k + 1) /\ z = 1 /\ kind \notin Pipelines
    BY <1>1, <1>6 DEF Owed, Pipelines
  <2>3. n \in Nat
    BY <1>2, <2>1
  <2>4. (l + n) + (z - (k + 1)) <= y
    BY <1>1, <1>6, <2>1, <2>2, <2>3
  <2>0. k + 1 = z /\ kind # "terminate"
    BY <1>6, <2>2
  <2>5. Replies(msgs, kind, q, k, TRUE, TRUE)
    BY <2>0, <2>1, <2>2 DEF Replies, z
  <2>6. Room(l, Len(msgs), kind, k) /\ Len(msgs) \in Nat
    BY <1>6, <2>1, <2>2, <2>3, <2>4, <2>5 DEF Room, n, z, y
  <2> QED
    BY <1>6, <2>1, <2>2, <2>3, <2>4, <2>5, <2>6 DEF Answered
<1>7. CASE kind = "terminate" /\ k = 0 /\ msg.type = "X"
  <2>1. msgs = <<>> /\ ev.type = "TERMINATE"
    BY <1>3, <1>7 DEF Fitting
  <2>2. ~Owed(kind, k) /\ ~Owed(kind, k + 1) /\ z = 1 /\ kind \notin Pipelines
    BY <1>1, <1>7 DEF Owed, Pipelines
  <2>3. n = 0
    BY <1>4, <2>1 DEF n
  <2>4. (l + n) + (z - (k + 1)) <= y
    BY <1>1, <1>7, <2>2, <2>3
  <2>5. Replies(msgs, kind, q, k, FALSE, FALSE)
    BY <1>4, <1>7, <2>1, <2>2 DEF Replies, z
  <2>6. Room(l, Len(msgs), kind, k) /\ Len(msgs) \in Nat
    BY <1>7, <2>1, <2>2, <2>3, <2>4, <2>5 DEF Room, n, z, y
  <2> QED
    BY <1>7, <2>1, <2>2, <2>3, <2>4, <2>5, <2>6 DEF Answered
<1>8. CASE kind \in Pipelines /\ k + 1 < Size(kind)
  <2>0. kind # "startup" /\ kind # "terminate" /\ kind # "simple" /\ k + 1 # z /\ k + 1 < z
    BY <1>1, <1>8 DEF Pipelines, z
  <2>1. CASE k = 0 /\ Owed(kind, 1) /\ msg.type = "P"
    <3>1. ev.type = "PARSE" /\ Reply(msgs, q, FALSE, FALSE) /\ n = 1
      BY <1>3, <2>1 DEF Fitting, n
    <3>2. k + 1 = 1 /\ Owed(kind, k) /\ Owed(kind, k + 1)
      BY <2>1 DEF Owed
    <3>3. l + n <= k + 1 /\ l + n <= 3
      BY <2>1, <3>1
    <3>4. Replies(msgs, kind, q, k, FALSE, FALSE)
      BY <2>0, <3>1, <3>2 DEF Replies, z
    <3>5. Room(l, Len(msgs), kind, k) /\ Len(msgs) \in Nat
      BY <1>8, <2>0, <2>1, <3>1, <3>2, <3>3, <3>4 DEF Room, n, z, y
    <3> QED
      BY <1>8, <2>0, <2>1, <3>1, <3>2, <3>3, <3>4, <3>5 DEF Answered
  <2>2. CASE k >= 1 /\ k <= 2 /\ Owed(kind, k + 1) /\ msg.type \in {"B", "D"}
    <3>1. ev.type \in {"BIND", "DESCRIBE"} /\ Reply(msgs, q, FALSE, FALSE) /\ n = 1
      BY <1>3, <2>2 DEF Fitting, n
    <3>2. Owed(kind, k)
      BY <2>2 DEF Owed
    <3>3. l + n <= k + 1 /\ l + n <= 3
      BY <2>2, <3>1, <3>2
    <3>4. Replies(msgs, kind, q, k, FALSE, FALSE)
      BY <2>0, <2>2, <3>1, <3>2 DEF Replies, z
    <3>5. k # 0
      BY <2>2
    <3>6. Room(l, Len(msgs), kind, k) /\ Len(msgs) \in Nat
      BY <2>0, <2>2, <3>1, <3>2, <3>3, <3>4, <3>5 DEF Room, n, z, y
    <3> QED
      BY <2>0, <2>2, <3>1, <3>2, <3>3, <3>4, <3>5, <3>6 DEF Answered
  <2>3. CASE k >= 1 /\ Owed(kind, k + 1) /\ msg.type = "H"
    <3>1. ev.type = "FLUSH" /\ msgs = <<>>
      BY <1>3, <2>3 DEF Fitting
    <3>2. n = 0 /\ Reply(msgs, q, FALSE, FALSE)
      BY <1>4, <3>1 DEF n
    <3>3. Owed(kind, k)
      BY <2>3 DEF Owed
    <3>4. l + n <= k + 1 /\ l + n <= 3
      BY <2>3, <3>2, <3>3
    <3>5. Replies(msgs, kind, q, k, FALSE, FALSE)
      BY <2>0, <2>3, <3>2, <3>3 DEF Replies, z
    <3>6. k # 0
      BY <2>3
    <3>7. Room(l, Len(msgs), kind, k) /\ Len(msgs) \in Nat
      BY <2>0, <2>3, <3>1, <3>2, <3>3, <3>4, <3>5, <3>6 DEF Room, n, z, y
    <3> QED
      BY <2>0, <2>3, <3>1, <3>2, <3>3, <3>4, <3>5, <3>6, <3>7 DEF Answered
  <2>4. CASE /\ k >= 1 /\ Owed(kind, k) /\ ~Owed(kind, k + 1) /\ Size(kind) - k <= 3
             /\ msg.type = "E"
    <3>1. ev.type = "EXECUTE" /\ Reply(msgs, q, TRUE, FALSE) /\ n <= y - 5
      BY <1>3, <1>8, <2>4 DEF Fitting, n, y
    <3>2. n \in Nat /\ z - k <= 3 /\ l <= 3
      BY <1>2, <2>4, <3>1 DEF z
    <3>3. (l + n) + (z - (k + 1)) <= y
      BY <1>1, <3>1, <3>2
    <3>4. Replies(msgs, kind, q, k, TRUE, FALSE)
      BY <2>0, <2>4, <3>1 DEF Replies, z
    <3>5. k # 0
      BY <2>4
    <3>6. Room(l, Len(msgs), kind, k) /\ Len(msgs) \in Nat
      BY <2>0, <2>4, <3>1, <3>2, <3>3, <3>4, <3>5 DEF Room, n, z, y
    <3> QED
      BY <2>0, <2>4, <3>1, <3>2, <3>3, <3>4, <3>5, <3>6 DEF Answered
  <2>5. CASE k >= 1 /\ ~Owed(kind, k) /\ msg.type = "C"
    <3>1. ev.type = "CLOSE" /\ Reply(msgs, q, FALSE, FALSE) /\ n = 1
      BY <1>3, <2>5 DEF Fitting, n
    <3>2. ~Owed(kind, k + 1)
      BY <2>5 DEF Owed
    <3>3. l + (z - k) <= y
      BY <2>5 DEF z, y
    <3>4. (l + n) + (z - (k + 1)) <= y
      BY <1>1, <3>1, <3>3
    <3>5. Replies(msgs, kind, q, k, FALSE, FALSE)
      BY <2>0, <2>5, <3>1, <3>2 DEF Replies, z
    <3>6. k # 0
      BY <2>5
    <3>7. Room(l, Len(msgs), kind, k) /\ Len(msgs) \in Nat
      BY <2>0, <2>5, <3>1, <3>2, <3>4, <3>5, <3>6 DEF Room, n, z, y
    <3> QED
      BY <2>0, <2>5, <3>1, <3>2, <3>4, <3>5, <3>6, <3>7 DEF Answered
  <2>6. \/ k = 0 /\ Owed(kind, 1) /\ msg.type = "P"
        \/ k >= 1 /\ k <= 2 /\ Owed(kind, k + 1) /\ msg.type \in {"B", "D"}
        \/ k >= 1 /\ Owed(kind, k + 1) /\ msg.type = "H"
        \/ /\ k >= 1 /\ Owed(kind, k) /\ ~Owed(kind, k + 1) /\ Size(kind) - k <= 3
           /\ msg.type = "E"
        \/ k >= 1 /\ ~Owed(kind, k) /\ msg.type = "C"
    BY <2>0 DEF Turn, z
  <2> QED
    BY <2>1, <2>2, <2>3, <2>4, <2>5, <2>6
<1>9. CASE /\ kind \in Pipelines /\ k >= 1 /\ k + 1 = Size(kind) /\ ~Owed(kind, k)
           /\ msg.type = "S"
  <2>0. kind # "startup" /\ kind # "terminate" /\ k + 1 = z /\ k # 0
    BY <1>9 DEF Pipelines, z
  <2>1. ev.type = "SYNC" /\ Reply(msgs, q, FALSE, TRUE) /\ n = 1
    BY <1>3, <1>9 DEF Fitting, n
  <2>2. ~Owed(kind, k + 1)
    BY <1>9 DEF Owed
  <2>3. l + (z - k) <= y
    BY <1>9 DEF z, y
  <2>4. (l + n) + (z - (k + 1)) <= y
    BY <1>1, <2>1, <2>3
  <2>5. Replies(msgs, kind, q, k, FALSE, TRUE)
    BY <1>9, <2>0, <2>1, <2>2 DEF Replies, z
  <2>6. Room(l, Len(msgs), kind, k) /\ Len(msgs) \in Nat
    BY <1>9, <2>0, <2>1, <2>2, <2>4, <2>5 DEF Room, n, z, y
  <2> QED
    BY <1>9, <2>0, <2>1, <2>2, <2>4, <2>5, <2>6 DEF Answered
<1> QED
  BY <1>5, <1>6, <1>7, <1>8, <1>9 DEF Turn

\* The first event of the server is the next message of the script.
LEMMA ServerReads ==
    ASSUME NEW c, NEW s, NEW q, NEW a, NEW ans, NEW r, NEW stm, NEW o, NEW kind, NEW k, NEW m,
           Exchange(c, s, q, a, ans, r, stm, o, kind, k, m), s.events # <<>>
    PROVE  /\ k < m /\ k < Size(kind) /\ ReadEvent(s).type = Command(Script(kind, q)[k + 1]).type
           /\ ReadEvent(s).text \in Nat
           /\ Turn(Script(kind, q)[k + 1], kind, q, k)
           /\ ReadEvent(s).type \in {"QUERY", "PARSE"} => ReadEvent(s).text = q
<1> DEFINE h == Script(kind, q)[k + 1]
           e == s.events[1]
           ev == ReadEvent(s)
<1>1. /\ kind \in Kinds /\ k \in Nat /\ m \in Nat /\ k <= m /\ m <= Size(kind)
      /\ Size(kind) \in Nat /\ q \in Nat
  <2>1. kind \in Kinds /\ k \in Nat /\ m \in Nat /\ k <= m /\ m <= Size(kind)
    BY DEF Exchange
  <2>2. q \in 0 .. MaxRequests
    BY DEF Exchange, Counters
  <2> QED
    BY <2>1, <2>2, SizeRange, DialecticAssumption
<1>2. s.events \in Seq(Event) /\ s.scratch \in [ScratchTypes -> Nat]
  BY ContextFields DEF Exchange, Contexts, Fielded
<1>3. Len(s.events) = m - k /\ Len(s.events) # 0
  BY <1>2, EmptySeq DEF Exchange, Commands
<1>4. k < m /\ k < Size(kind) /\ 1 \in 1 .. m - k
  BY <1>1, <1>3
<1>5. e = Command(h) /\ e \in Event /\ Head(s.events) = e
  <2>1. e = Command(h)
    BY <1>4 DEF Exchange, Commands
  <2>2. e \in Event
    BY <1>2, <1>3, <1>4, ElementOfSeq
  <2> QED
    BY <2>1, <2>2 DEF Head
<1>6. Turn(h, kind, q, k)
  BY <1>1, <1>4, ScriptTurn
<1>7. ev = IF e.type \in ScratchTypes THEN [type |-> e.type, text |-> s.scratch[e.type]] ELSE e
  BY <1>5 DEF ReadEvent
<1> HIDE DEF ev, e
<1>8. ev.type = e.type /\ ev.text \in Nat /\ e.type = Command(h).type
  BY <1>2, <1>5, <1>7 DEF Event
<1>9. /\ h.type = Startup => e.type = "STARTUP"
      /\ h.type # Startup => e.type = EventOf(Server)[h.type]
      /\ e.text = h.text
  BY <1>5 DEF Command
<1>10. ASSUME e.type = "QUERY"
       PROVE  ev.text = q
  <2>1. kind = "simple" /\ k = 0
    BY <1>6, <1>9, <1>10, ServerEvents DEF Turn, Startup
  <2>2. m = 1
    BY <1>1, <1>4, <2>1, SizeRange DEF Pipelines
  <2>3. s.scratch["QUERY"] = q
    BY <2>1, <2>2 DEF Exchange, Commands
  <2> QED
    BY <1>7, <1>10, <2>3 DEF ScratchTypes
<1>11. ASSUME e.type = "PARSE"
       PROVE  ev.text = q
  <2>1. h.text = q
    BY <1>6, <1>9, <1>11, ServerEvents DEF Turn, Startup
  <2> QED
    BY <1>7, <1>9, <1>11, <2>1 DEF ScratchTypes
<1> QED
  BY <1>4, <1>6, <1>8, <1>10, <1>11 DEF ev

LEMMA ServerPolls ==
    ASSUME NEW c, NEW s, NEW q, NEW a, NEW ans, NEW r, NEW stm, NEW o, NEW kind, NEW k, NEW m,
           Exchange(c, s, q, a, ans, r, stm, o, kind, k, m), EventQueueSize >= 7,
           s.events # <<>>, NEW msgs, Fitting(msgs, ReadEvent(s), stm)
    PROVE  Exchange(c, SendAll(DropEvent(s), msgs), q, a, ans, r,
                    IF ReadEvent(s).type = "PARSE" THEN ReadEvent(s).text ELSE stm,
                    o, kind, k + 1, m)
<1> DEFINE p == DropEvent(s)
           t == SendAll(p, msgs)
           ev == ReadEvent(s)
           y == Pending(c.events, s.output)
           l == Len(y)
           z == EventTypesOf(msgs)
           stn == IF ev.type = "PARSE" THEN ev.text ELSE stm
<1>1. /\ kind \in Kinds /\ k \in Nat /\ m \in Nat /\ k <= m /\ m <= Size(kind)
      /\ Size(kind) \in Nat /\ stm \in Nat
  BY SizeRange DEF Exchange
<1>2. /\ k < m /\ k < Size(kind) /\ ev.type = Command(Script(kind, q)[k + 1]).type
      /\ ev.text \in Nat
      /\ Turn(Script(kind, q)[k + 1], kind, q, k)
      /\ ev.type \in {"QUERY", "PARSE"} => ev.text = q
  BY ServerReads
<1>3. /\ c.events \in Seq(Event) /\ s.output \in Seq(Msg) /\ AnswersOnly(s.output)
      /\ Len(c.events) \in Nat /\ Len(s.output) \in Nat
      /\ l = Len(c.events) + Len(s.output) /\ y \in Seq(EventTypes)
  BY PendingRoom
<1>4. Due(y, kind, k, a, Len(ans), r)
  BY DEF Exchange
<1>5. l \in Nat
  BY <1>3, LenProperties
<1> HIDE DEF p, t, ev, y
<1>6. Answered(msgs, ev.type, kind, q, k, l)
  <2>1. ev.type = "QUERY" => ev.text = q
    BY <1>2
  <2>2. kind \in Pipelines /\ k >= 1 => stm = q
    BY DEF Exchange, Pipelines
  <2>3. k = 0 => l = 0
    <3>1. Len(<<>>) = 0
      OBVIOUS
    <3> QED
      BY <1>4, <3>1 DEF Due
  <2>4. Owed(kind, k) => l <= k /\ l <= 3
    BY <1>4 DEF Due
  <2>5. ~Owed(kind, k) => l + (Size(kind) - k) <= EventQueueSize
    BY <1>4 DEF Due
  <2> HIDE DEF l
  <2>6. Fitting(msgs, ev, stm)
    BY DEF ev
  <2> QED
    BY <1>1, <1>2, <1>5, <2>1, <2>2, <2>3, <2>4, <2>5, <2>6, TurnReply
<1>7. PICK concludes, ready \in BOOLEAN : Replies(msgs, kind, q, k, concludes, ready)
  BY <1>6 DEF Answered
<1>8. /\ Reply(msgs, q, concludes, ready)
      /\ concludes <=> (Owed(kind, k) /\ ~Owed(kind, k + 1))
      /\ ready <=> (kind # "terminate" /\ k + 1 = Size(kind))
  BY <1>7 DEF Replies
<1>9. msgs \in Seq(Msg) /\ AnswersOnly(msgs)
  BY <1>8 DEF Reply, AnswersOnly
<1>10. /\ concludes => OnceIn(z, Concluding)
       /\ ~concludes => NoneIn(z, Concluding)
       /\ ready => ReadyLast(z)
       /\ ~ready => NoneIn(z, {"READY_FOR_QUERY"})
  BY <1>8, ReplyTypes
<1>11. /\ AnswersOnly(s.output \o msgs) /\ z \in Seq(EventTypes) /\ Len(z) = Len(msgs)
       /\ Pending(c.events, s.output \o msgs) = y \o z
  BY <1>3, <1>9, PendingSent DEF y
<1> HIDE DEF z
<1>12. Due(y \o z, kind, k + 1, a, Len(ans), r)
  <2>1. /\ Owed(kind, k + 1) => /\ Owed(kind, k) /\ NoneIn(z, Concluding)
                                /\ Len(y) + Len(z) <= k + 1 /\ Len(y) + Len(z) <= 3
        /\ ~Owed(kind, k + 1) => (Len(y) + Len(z)) + (Size(kind) - (k + 1)) <= EventQueueSize
    BY <1>6, <1>8, <1>10, <1>11 DEF Answered, Room
  <2>2. /\ Owed(kind, k) /\ ~Owed(kind, k + 1) => OnceIn(z, Concluding)
        /\ ~Owed(kind, k) => NoneIn(z, Concluding)
    BY <1>8, <1>10
  <2>3. /\ kind # "terminate" /\ k + 1 < Size(kind) => NoneIn(z, {"READY_FOR_QUERY"})
        /\ kind # "terminate" /\ k + 1 = Size(kind) => ReadyLast(z)
    <3>1. k + 1 < Size(kind) => k + 1 # Size(kind)
      BY <1>1
    <3> QED
      BY <1>8, <1>10, <3>1
  <2>4. kind = "terminate" => z = <<>>
    <3>1. kind = "terminate" => Len(z) = 0
      <4>1. Len(<<>>) = 0
        OBVIOUS
      <4> QED
        BY <1>6, <1>11, <4>1 DEF Answered
    <3> QED
      BY <1>11, <3>1, EmptySeq
  <2> QED
    BY <1>1, <1>2, <1>3, <1>4, <1>11, <2>1, <2>2, <2>3, <2>4, DueSent
<1>13. s \in ContextType /\ s.role = Server /\ s.lost = 0 /\ s.events \in Seq(Event)
  BY ContextFields DEF Exchange, Contexts, Fielded
<1>14. OnlyEvents(s, p) /\ p.events = Tail(s.events)
  BY <1>13, DropEventDrops DEF p
<1>15. /\ OnlyOutput(p, t) /\ t.output = p.output \o msgs
       /\ t.proto_state = IF \E j \in DOMAIN msgs : msgs[j].type = "Z" THEN "READY"
                          ELSE p.proto_state
  BY <1>9, <1>14, SendAllSends DEF OnlyEvents, t
<1>16. /\ t \in ContextType /\ t.role = Server /\ t.lost = 0 /\ t.events = Tail(s.events)
       /\ t.output = s.output \o msgs /\ t.scratch = s.scratch
  BY <1>13, <1>14, <1>15 DEF OnlyEvents, OnlyOutput
<1>17. t.startup_seen = s.startup_seen
  BY <1>14, <1>15 DEF OnlyEvents, OnlyOutput
<1>18. t.proto_state = PhaseOf(kind, k + 1, m)
  <2>1. s.proto_state = PhaseOf(kind, k, m) /\ p.proto_state = s.proto_state
    BY <1>14 DEF Exchange, Commands, OnlyEvents
  <2>2. CASE ready
    <3>1. DOMAIN msgs = 1 .. Len(msgs) /\ Len(msgs) \in Nat /\ Len(msgs) # 0
      BY <1>8, <1>9, <2>2, LenProperties, EmptySeq DEF Reply
    <3>2. \E j \in DOMAIN msgs : msgs[j].type = "Z"
      <4>1. Len(msgs) \in 1 .. Len(msgs)
        BY <3>1
      <4>2. msgs[Len(msgs)].type = "Z"
        BY <1>8, <2>2, <4>1 DEF Reply
      <4> QED
        BY <3>1, <4>1, <4>2
    <3>3. t.proto_state = "READY"
      BY <1>15, <3>2
    <3>4. k + 1 # 0 /\ m # 0
      BY <1>1, <1>2
    <3> QED
      BY <3>3, <3>4 DEF PhaseOf
  <2>3. CASE ~ready
    <3>1. ~\E j \in DOMAIN msgs : msgs[j].type = "Z"
      BY <1>8, <1>9, <2>3, LenProperties DEF Reply
    <3>2. t.proto_state = PhaseOf(kind, k, m)
      BY <1>15, <2>1, <3>1
    <3>3. kind # "startup" /\ kind # "simple"
      <4>1. kind \notin Pipelines /\ kind # "terminate" => k + 1 # Size(kind)
        BY <1>8, <2>3
      <4>2. kind \notin Pipelines => Size(kind) = 1 /\ k = 0
        BY <1>1, <1>2, SizeRange
      <4>3. kind \in Pipelines \/ kind = "terminate"
        BY <4>1, <4>2
      <4> QED
        BY <4>3 DEF Pipelines
    <3> QED
      BY <3>2, <3>3 DEF PhaseOf
  <2> QED
    BY <2>2, <2>3
<1>19. Commands(c, t, q, kind, k + 1, m)
  <2>1. Len(s.events) = m - k /\ s.events # <<>>
    BY DEF Exchange, Commands
  <2>2. /\ Len(t.events) = Len(s.events) - 1
        /\ \A j \in 1 .. Len(s.events) - 1 : t.events[j] = s.events[j + 1]
    BY <1>13, <1>16, HeadTailProperties
  <2>3. Len(t.events) = m - (k + 1) /\ (m - k) - 1 = m - (k + 1)
    BY <1>1, <2>1, <2>2
  <2>4. ASSUME NEW j \in 1 .. m - (k + 1)
        PROVE  t.events[j] = Command(Script(kind, q)[(k + 1) + j])
    <3>1. j + 1 \in 1 .. m - k /\ k + (j + 1) = (k + 1) + j
      BY <1>1
    <3>2. s.events[j + 1] = Command(Script(kind, q)[k + (j + 1)])
      BY <3>1 DEF Exchange, Commands
    <3> QED
      BY <2>1, <2>2, <2>3, <3>1, <3>2
  <2>5. Outgoing(c.output, kind, q, m) /\ k + 1 # 0
    BY <1>1 DEF Exchange, Commands
  <2>6. s.startup_seen = ~(kind = "startup" /\ m = 0)
    BY DEF Exchange, Commands
  <2>7. t.startup_seen = ~(kind = "startup" /\ m = 0)
    BY <1>17, <2>6
  <2> QED
    BY <1>18, <2>3, <2>4, <2>5, <2>7 DEF Commands
<1>20. Contexts(c, t)
  BY <1>16 DEF Exchange, Contexts
<1>21. Texts(c, t, q)
  <2> DEFINE w == s.output \o msgs
             n == Len(s.output)
             e == Len(msgs)
  <2>0. n \in Nat /\ e \in Nat
    BY <1>3, <1>9, LenProperties
  <2>1. Len(w) = n + e /\ \A j \in 1 .. n + e : w[j] = IF j <= n THEN s.output[j] ELSE msgs[j - n]
    BY <1>3, <1>9, ConcatProperties
  <2>2. ASSUME NEW j \in 1 .. n + e
        PROVE  w[j].ok /\ w[j].type \in Answering /\ (w[j].type = "C" => w[j].text = q)
    <3>1. CASE j <= n
      <4>1. j \in 1 .. n
        BY <2>0, <3>1
      <4>2. w[j] = s.output[j]
        BY <2>1, <3>1
      <4> HIDE DEF w
      <4> QED
        BY <4>1, <4>2 DEF Exchange, Texts
    <3>2. CASE ~(j <= n)
      <4>1. j - n \in 1 .. e
        BY <2>0, <3>2
      <4>2. w[j] = msgs[j - n]
        BY <2>1, <3>2
      <4> HIDE DEF w
      <4> QED
        BY <1>8, <4>1, <4>2 DEF Reply
    <3> QED
      BY <3>1, <3>2
  <2> HIDE DEF w
  <2>3. \A j \in 1 .. Len(t.output) :
           /\ t.output[j].ok /\ t.output[j].type \in Answering
           /\ t.output[j].type = "C" => t.output[j].text = q
    BY <1>16, <2>1, <2>2 DEF w
  <2> QED
    BY <2>3 DEF Exchange, Texts
<1>22. Unauthenticated(c, t, kind, q, k + 1, m)
  <2>1. ASSUME c.auth_state # "DONE"
        PROVE  kind = "startup" /\ c.events = <<>> /\ t.output = <<Message("R", 0), Ready>>
    <3>1. kind = "startup" /\ c.events = <<>>
      BY <2>1 DEF Exchange, Unauthenticated
    <3>2. k = 0
      BY <1>1, <1>2, <3>1, SizeRange DEF Pipelines
    <3>3. s.output = <<>>
      <4>1. Len(<<>>) = 0
        OBVIOUS
      <4>2. l = 0
        BY <1>4, <3>2, <4>1 DEF Due
      <4>3. Len(s.output) = 0
        <5> DEFINE x == Len(c.events)
                   w == Len(s.output)
        <5>1. x \in Nat /\ w \in Nat /\ l = x + w
          BY <1>3
        <5> HIDE DEF x, w, l
        <5>2. w = 0
          BY ONLY <4>2, <5>1
        <5> QED
          BY <5>2 DEF w
      <4> QED
        BY <1>3, <4>3, EmptySeq
    <3>4. msgs = <<Message("R", 0), Ready>>
      BY <1>6, <3>1 DEF Answered
    <3>5. t.output = msgs
      BY <1>9, <1>16, <3>3, ConcatEmptySeq
    <3> QED
      BY <3>1, <3>4, <3>5
  <2>2. c.auth_state = "NONE" => c.output = Unsent(kind, q, m)
    BY DEF Exchange, Unauthenticated
  <2> QED
    BY <2>1, <2>2 DEF Unauthenticated
<1>23. stn \in Nat /\ (kind \in Pipelines => stn = q)
  <2>1. CASE ev.type = "PARSE"
    BY <1>2, <2>1
  <2>2. CASE ev.type # "PARSE"
    <3>1. kind \in Pipelines => k # 0
      BY <1>6, <2>2 DEF Answered
    <3>2. kind \in Pipelines => k >= 1
      BY <1>1, <3>1
    <3> QED
      BY <1>1, <2>2, <3>2 DEF Exchange, Pipelines
  <2> QED
    BY <2>1, <2>2
<1>24. k + 1 \in Nat /\ k + 1 <= m
  BY <1>1, <1>2
<1> HIDE DEF stn
<1>25. Due(Pending(c.events, t.output), kind, k + 1, a, Len(ans), r)
  BY <1>11, <1>12, <1>16
<1>26. Exchange(c, t, q, a, ans, r, stn, o, kind, k + 1, m)
  BY <1>19, <1>20, <1>21, <1>22, <1>23, <1>24, <1>25 DEF Exchange, Pipelines
<1> QED
  BY <1>26 DEF t, p, ev, stn

-----------------------------------------------------------------------------
(* The client's application starts an exchange.                            *)

LEMMA NothingPending == Pending(<<>>, <<>>) = <<>>
<1> DEFINE e == <<>>
<1>1. e \in Seq(Event) /\ e \in Seq(Msg) /\ AnswersOnly(e) /\ Len(e) = 0
  BY DEF AnswersOnly
<1> HIDE DEF e
<1>2. Pending(e, e) \in Seq(EventTypes) /\ Len(Pending(e, e)) = Len(e) + Len(e)
  BY <1>1, PendingType
<1>3. Len(Pending(e, e)) = 0
  BY <1>1, <1>2
<1>4. Pending(e, e) = <<>>
  BY <1>2, <1>3, EmptySeq
<1> QED
  BY <1>4 DEF e

\* When the last ReadyForQuery has been delivered, nothing is under way.
Idle(c, s, a, ans) ==
    /\ c \in ContextType /\ c.role = Client /\ c.lost = 0 /\ c.events = <<>>
    /\ c.output = <<>> \/ c.output = <<Password>>
    /\ c.auth_state = "DONE"
    /\ s \in ContextType /\ s.role = Server /\ s.lost = 0 /\ s.events = <<>>
    /\ s.output = <<>> /\ s.startup_seen = TRUE /\ s.proto_state = "READY"
    /\ Len(ans) = a
LEMMA ReadyIsIdle ==
    ASSUME NEW c, NEW s, NEW q, NEW a, NEW ans, NEW r, NEW stm, NEW o, NEW kind, NEW k, NEW m,
           Exchange(c, s, q, a, ans, r, stm, o, kind, k, m), EventQueueSize >= 7,
           r = a + 1, kind # "terminate"
    PROVE  Idle(c, s, a, ans)
<1> DEFINE y == Pending(c.events, s.output)
           n == Len(ans)
<1>0. r # a /\ q \in Nat
  <2>1. a \in Nat /\ q \in Nat
    BY DialecticAssumption DEF Exchange, Counters
  <2> QED
    BY <2>1
<1>1. /\ kind \in Kinds /\ k \in Nat /\ m \in Nat /\ k <= m /\ m <= Size(kind)
      /\ Size(kind) \in Nat /\ Size(kind) >= 1 /\ Due(y, kind, k, a, n, r)
  BY SizeRange DEF Exchange
<1> HIDE DEF y, n
<1>2. k = Size(kind) /\ y = <<>>
  BY <1>0, <1>1 DEF Due, Finished
<1>3. m = k /\ k # 0
  BY <1>1, <1>2
<1>4. Len(c.events) = 0 /\ Len(s.output) = 0 /\ c.events \in Seq(Event) /\ s.output \in Seq(Msg)
  <2> DEFINE u == Len(c.events)
             v == Len(s.output)
             l == Len(y)
  <2>1. u \in Nat /\ v \in Nat /\ l = u + v /\ c.events \in Seq(Event) /\ s.output \in Seq(Msg)
    BY PendingRoom DEF y
  <2>2. l = 0
    BY <1>2
  <2> HIDE DEF u, v, l
  <2>3. u = 0 /\ v = 0
    BY ONLY <2>1, <2>2
  <2> QED
    BY <2>1, <2>3 DEF u, v
<1>5. c.events = <<>> /\ s.output = <<>>
  BY <1>4, EmptySeq
<1>6. s.events = <<>>
  <2>1. Len(s.events) = m - k /\ s.events \in Seq(Event)
    BY ContextFields DEF Exchange, Commands, Contexts, Fielded
  <2>2. Len(s.events) = 0
    BY <1>1, <1>3, <2>1
  <2> QED
    BY <2>1, <2>2, EmptySeq
<1>7. c.output = <<>> \/ c.output = <<Password>>
  <2>1. Unsent(kind, q, m) = <<>>
    BY <1>0, <1>1, <1>2, <1>3, UnsentParts
  <2>2. Password \in Msg
    BY DEF Password, Message, Msg
  <2> DEFINE p == Password
  <2> HIDE DEF p
  <2>3. <<p>> \in Seq(Msg)
    BY <2>2 DEF p
  <2>4. <<p>> \o <<>> = <<p>>
    BY <2>3, ConcatEmptySeq
  <2>5. Outgoing(c.output, kind, q, m) /\ m # 0
    BY <1>3 DEF Exchange, Commands
  <2> QED
    BY <2>1, <2>4, <2>5 DEF Outgoing, p
<1>8. c.auth_state = "DONE"
  <2>1. SUFFICES ASSUME c.auth_state # "DONE" PROVE FALSE
    OBVIOUS
  <2>2. kind = "startup" /\ (k = 1 => s.output = <<Message("R", 0), Ready>>)
    BY <2>1 DEF Exchange, Unauthenticated
  <2>3. k = 1
    BY <1>2, <2>2 DEF Size
  <2> DEFINE x == Message("R", 0)
             z == Ready
  <2> HIDE DEF x, z
  <2>4. <<x, z>> # <<>>
    OBVIOUS
  <2> QED
    BY <1>5, <2>2, <2>3, <2>4 DEF x, z
<1>9. s.startup_seen = TRUE
  <2>1. s.startup_seen = ~(kind = "startup" /\ m = 0)
    BY DEF Exchange, Commands
  <2> QED
    BY <1>3, <2>1
<1>10. s.proto_state = "READY"
  <2>1. s.proto_state = PhaseOf(kind, k, m)
    BY DEF Exchange, Commands
  <2> QED
    BY <1>3, <2>1 DEF PhaseOf
<1>11. n = a
  <2>1. ~Owed(kind, k)
    BY <1>2 DEF Owed, Size
  <2>2. ~OnceIn(y, Concluding)
    <3>1. Len(y) = 0
      BY <1>2
    <3>2. 1 .. Len(y) = {}
      BY <3>1
    <3> QED
      BY <3>2 DEF OnceIn
  <2> QED
    BY <1>1, <2>1, <2>2 DEF Due
<1> QED
  BY <1>5, <1>6, <1>7, <1>8, <1>9, <1>10, <1>11 DEF Exchange, Contexts, Idle, n

LEMMA Starts ==
    ASSUME NEW c, NEW s, NEW a, NEW ans, Idle(c, s, a, ans), EventQueueSize >= 7,
           NEW d, OnlyOutput(c, d), d.auth_state = c.auth_state,
           NEW kind \in Kinds \ {"startup"}, NEW q \in Nat, d.output = c.output \o Script(kind, q),
           NEW b \in Nat, NEW r, NEW stm \in Nat, NEW o, Counters(q, b, ans, r), r = a + 1,
           kind # "terminate" => b = a + 1,
           kind = "terminate" => b = a /\ o = FALSE
    PROVE  Exchange(d, s, q, b, ans, r, stm, o, kind, 0, 0)
<1> DEFINE x == Script(kind, q)
           z == Size(kind)
<1>1. x \in Seq(Msg) /\ Len(x) = z /\ z \in Nat /\ z >= 1 /\ z <= 7
  BY ScriptType DEF IsScript
<1>2. Unsent(kind, q, 0) = x
  <2>1. 0 + 1 = 1
    OBVIOUS
  <2>2. Unsent(kind, q, 0) = SubSeq(x, 1, z)
    BY <2>1 DEF Unsent
  <2> HIDE DEF x, z
  <2> QED
    BY <1>1, <2>2, SubSeqFull
<1>3. d.output = x \/ d.output = <<Password>> \o x
  BY <1>1, ConcatEmptySeq DEF Idle
<1> HIDE DEF x, z
<1>4. Contexts(d, s)
  BY DEF Idle, OnlyOutput, Contexts
<1>5. Commands(d, s, q, kind, 0, 0)
  <2>1. Len(s.events) = 0
    BY DEF Idle
  <2>2. Outgoing(d.output, kind, q, 0)
    BY <1>2, <1>3 DEF Outgoing
  <2>3. s.startup_seen = ~(kind = "startup" /\ 0 = 0)
    BY DEF Idle
  <2>4. s.proto_state = PhaseOf(kind, 0, 0)
    BY DEF Idle, PhaseOf
  <2>5. 0 - 0 = 0 /\ 1 .. 0 = {} /\ 0 # 1
    OBVIOUS
  <2> QED
    BY <2>1, <2>2, <2>3, <2>4, <2>5 DEF Commands
<1>6. d.events = <<>> /\ s.output = <<>> /\ Len(ans) = a
  BY DEF Idle, OnlyOutput
<1>7. Pending(<<>>, <<>>) = <<>>
  BY NothingPending
<1>8. Due(<<>>, kind, 0, b, Len(ans), r)
  <2>1. Len(<<>>) = 0 /\ NoneIn(<<>>, Concluding) /\ NoneIn(<<>>, {"READY_FOR_QUERY"})
    BY DEF NoneIn
  <2>2. a \in Nat
    BY <1>6, LenProperties DEF Counters
  <2>3. CASE kind = "terminate"
    <3>1. ~Owed(kind, 0) /\ Finished(kind, 0) /\ z = 1
      BY <2>3 DEF Owed, Finished, Size, z
    <3>2. 0 + (z - 0) <= EventQueueSize
      BY <3>1, ContextAssumption
    <3> QED
      BY <1>6, <2>1, <2>3, <3>1, <3>2 DEF Due, z
  <2>4. CASE kind # "terminate"
    <3>1. Owed(kind, 0)
      BY <2>4 DEF Owed, Kinds
    <3>2. ~Finished(kind, 0)
      BY <1>1, <2>4 DEF Finished, z
    <3>3. a = b - 1 /\ r = b
      BY <2>2, <2>4
    <3> QED
      BY <1>6, <2>1, <3>1, <3>2, <3>3 DEF Due
  <2> QED
    BY <2>3, <2>4
<1>9. Texts(d, s, q)
  <2>1. 1 .. Len(s.output) = {} /\ 1 .. Len(d.events) = {}
    BY <1>6
  <2> QED
    BY <2>1 DEF Texts
<1>10. Unauthenticated(d, s, kind, q, 0, 0)
  BY DEF Idle, Unauthenticated
<1>11. 0 \in Nat /\ 0 <= 0 /\ 0 <= Size(kind) /\ ~(0 >= 1)
  BY <1>1 DEF z
<1> QED
  BY <1>4, <1>5, <1>6, <1>7, <1>8, <1>9, <1>10, <1>11 DEF Exchange

\* A request.
LEMMA Asks ==
    ASSUME NEW c, NEW s, NEW q, NEW a, NEW ans, NEW r, NEW stm, NEW o, NEW kind, NEW k, NEW m,
           Exchange(c, s, q, a, ans, r, stm, o, kind, k, m), EventQueueSize >= 7,
           r = a + 1, o, q < MaxRequests,
           NEW new \in {"simple", "pipeline", "described"}
    PROVE  Exchange(SendAll(c, Script(new, q + 1)), s, q + 1, a + 1, ans, r, stm, o, new, 0, 0)
<1>1. /\ q \in 0 .. MaxRequests /\ a \in 0 .. q /\ ans \in Seq(0 .. MaxRequests)
      /\ \A j \in 1 .. Len(ans) : ans[j] \in {q - a + j, Failed}
      /\ MaxRequests \in Nat
  BY DialecticAssumption DEF Exchange, Counters
<1>2. kind # "terminate" /\ stm \in Nat /\ c \in ContextType
  BY DEF Exchange, Contexts
<1>3. Idle(c, s, a, ans)
  BY <1>2, ReadyIsIdle
<1>4. new \in Kinds \ {"startup"} /\ new # "terminate" /\ q + 1 \in Nat /\ a + 1 \in Nat
  BY <1>1 DEF Kinds
<1>5. Counters(q + 1, a + 1, ans, r)
  <2>1. q + 1 \in 0 .. MaxRequests /\ a + 1 \in 0 .. q + 1 /\ r \in 0 .. (a + 1) + 1
    BY <1>1
  <2>2. \A j \in 1 .. Len(ans) : (q + 1) - (a + 1) + j = q - a + j
    BY <1>1
  <2> QED
    BY <1>1, <2>1, <2>2 DEF Counters
<1> DEFINE x == Script(new, q + 1)
           d == SendAll(c, x)
<1>6. x \in Seq(Msg)
  BY <1>4, ScriptType DEF IsScript
<1>7. OnlyOutput(c, d) /\ d.output = c.output \o x /\ d.auth_state = c.auth_state
  BY <1>2, <1>6, SendAllSends
<1> HIDE DEF d
<1> QED
  BY <1>2, <1>3, <1>4, <1>5, <1>7, Starts DEF d

LEMMA Terminates ==
    ASSUME NEW c, NEW s, NEW q, NEW a, NEW ans, NEW r, NEW stm, NEW o, NEW kind, NEW k, NEW m,
           Exchange(c, s, q, a, ans, r, stm, o, kind, k, m), EventQueueSize >= 7,
           r = a + 1, o
    PROVE  Exchange(Send(c, Unnamed("X")), s, q, a, ans, r, stm, FALSE, "terminate", 0, 0)
<1>1. q \in Nat /\ a \in Nat /\ Counters(q, a, ans, r)
  BY DialecticAssumption DEF Exchange, Counters
<1>2. kind # "terminate" /\ stm \in Nat /\ c \in ContextType
  BY DEF Exchange, Contexts
<1>3. Idle(c, s, a, ans)
  BY <1>2, ReadyIsIdle
<1> DEFINE new == "terminate"
           x == Script(new, q)
           d == SendAll(c, x)
<1>4. new \in Kinds \ {"startup"} /\ x = <<Unnamed("X")>>
  BY DEF Kinds, Script
<1>5. x \in Seq(Msg)
  BY <1>1, <1>4, ScriptType DEF IsScript
<1> HIDE DEF x
<1>6. OnlyOutput(c, d) /\ d.output = c.output \o x /\ d.auth_state = c.auth_state
  BY <1>2, <1>5, SendAllSends
<1>7. d = Send(c, Unnamed("X"))
  BY <1>4 DEF Send
<1> HIDE DEF d
<1>8. Exchange(d, s, q, a, ans, r, stm, FALSE, "terminate", 0, 0)
  BY <1>1, <1>2, <1>3, <1>4, <1>6, Starts DEF x
<1> QED
  BY <1>7, <1>8

-----------------------------------------------------------------------------
(* The connection.                                                         *)

\* pqwire_start_auth.
LEMMA StartAuthStarts ==
    ASSUME NEW c \in ContextType
    PROVE  LET d == StartAuth(c)
           IN  /\ OnlyOutput(c, d) /\ d.output = Append(c.output, Password)
               /\ d.auth_state = "CLIENT_FIRST"
<1> DEFINE d == StartAuth(c)
           u == Append(c.output, Password)
<1>1. Fielded(c)
  BY ContextFields
<1>2. u \in Seq(Msg)
  <2>1. Password \in Msg
    BY DEF Password, Message, Msg
  <2> QED
    BY <1>1, <2>1, AppendProperties DEF Fielded
<1>3. d = [c EXCEPT !.auth_state = "CLIENT_FIRST", !.output = u]
  BY DEF StartAuth, Password
<1> HIDE DEF u
<1>4. /\ DOMAIN d = Fields /\ d = [f \in Fields |-> d[f]] /\ d.output = u
      /\ d.role = c.role /\ d.lost = c.lost /\ d.events = c.events
      /\ d.scratch = c.scratch /\ d.startup_seen = c.startup_seen
      /\ d.proto_state = c.proto_state /\ d.auth_state = "CLIENT_FIRST"
  BY <1>1, <1>3 DEF Fielded, Fields
<1> HIDE DEF d
<1>5. Fielded(d)
  BY <1>1, <1>2, <1>4 DEF Fielded
<1> QED
  BY <1>4, <1>5, FieldsContext DEF OnlyOutput, d, u

LEMMA Authenticates ==
    ASSUME NEW c, NEW s, NEW q, NEW a, NEW ans, NEW r, NEW stm, NEW o, NEW kind, NEW k, NEW m,
           Exchange(c, s, q, a, ans, r, stm, o, kind, k, m), c.auth_state = "NONE"
    PROVE  Exchange(StartAuth(c), s, q, a, ans, r, stm, o, kind, k, m)
<1> DEFINE d == StartAuth(c)
<1>1. c \in ContextType
  BY DEF Exchange, Contexts
<1>2. OnlyOutput(c, d) /\ d.output = Append(c.output, Password) /\ d.auth_state = "CLIENT_FIRST"
  BY <1>1, StartAuthStarts
<1> HIDE DEF d
<1>3. /\ d \in ContextType /\ d.role = c.role /\ d.lost = c.lost /\ d.events = c.events
      /\ d.scratch = c.scratch
  BY <1>2 DEF OnlyOutput
<1>4. kind = "startup" /\ c.output = Unsent(kind, q, m)
  BY DEF Exchange, Unauthenticated
<1>5. kind \in Kinds /\ q \in Nat /\ m \in Nat /\ Size(kind) = 1 /\ m <= 1
  <2>1. kind \in Kinds /\ q \in Nat /\ m \in Nat /\ m <= Size(kind)
    BY DialecticAssumption DEF Exchange, Counters
  <2>2. Size(kind) = 1
    BY <1>4 DEF Size
  <2> QED
    BY <2>1, <2>2
<1>6. Outgoing(d.output, kind, q, m)
  <2> DEFINE p == Password
             x == Message(Startup, 0)
  <2>0. x \in Msg
    BY DEF Message, Msg, Startup
  <2>1. p \in Msg
    BY DEF Password, Message, Msg
  <2>2. CASE m = 0
    <3>1. Script(kind, q) = <<x>> /\ 0 + 1 = 1
      BY <1>4 DEF Script
    <3>2. Unsent(kind, q, 0) = SubSeq(<<x>>, 1, 1)
      BY <1>5, <3>1 DEF Unsent
    <3> HIDE DEF x, p
    <3>3. SubSeq(<<x>>, 1, 1) = <<x>> /\ Append(<<x>>, p) = <<x, p>>
      <4>1. <<x>> \in Seq(Msg) /\ <<x, p>> \in Seq(Msg)
        BY <2>0, <2>1
      <4>2. SubSeq(<<x>>, 1, 1) = <<x>>
        BY <4>1, SubSeqFull
      <4>3. Append(<<x>>, p) = <<x, p>>
        <5>1. /\ Append(<<x>>, p) \in Seq(Msg) /\ Len(Append(<<x>>, p)) = 2
              /\ Append(<<x>>, p)[1] = x /\ Append(<<x>>, p)[2] = p
          BY <2>0, <2>1, <4>1
        <5> DEFINE u == Append(<<x>>, p)
                   v == <<x, p>>
        <5>2. Len(v) = 2 /\ v[1] = x /\ v[2] = p
          OBVIOUS
        <5> HIDE DEF u, v
        <5>3. \A j \in 1 .. 2 : u[j] = v[j]
          <6>1. \A j \in 1 .. 2 : j = 1 \/ j = 2
            OBVIOUS
          <6> QED
            BY <5>1, <5>2, <6>1 DEF u
        <5>4. u = v
          BY <4>1, <5>1, <5>2, <5>3, SeqEqual DEF u, v
        <5> QED
          BY <5>4 DEF u, v
      <4> QED
        BY <4>2, <4>3
    <3>4. d.output = <<x, p>>
      BY <1>2, <1>4, <2>2, <3>2, <3>3 DEF p
    <3> QED
      BY <1>4, <2>2, <3>4 DEF Outgoing, x, p
  <2>3. CASE m = 1
    <3>1. Unsent(kind, q, m) = <<>>
      BY <1>5, <2>3, UnsentParts
    <3> HIDE DEF x, p
    <3>2. Append(<<>>, p) = <<p>> /\ <<p>> \o <<>> = <<p>>
      <4>1. <<p>> \in Seq(Msg)
        BY <2>1
      <4> QED
        BY <4>1, ConcatEmptySeq
    <3>3. d.output = <<p>> \o Unsent(kind, q, m)
      BY <1>2, <1>4, <3>1, <3>2 DEF p
    <3> QED
      BY <2>3, <3>3 DEF Outgoing, p
  <2>4. m = 0 \/ m = 1
    BY <1>5
  <2> QED
    BY <2>2, <2>3, <2>4
<1>7. Contexts(d, s) /\ Commands(d, s, q, kind, k, m) /\ Texts(d, s, q)
  BY <1>3, <1>6 DEF Exchange, Contexts, Commands, Texts
<1>8. Unauthenticated(d, s, kind, q, k, m)
  BY <1>2, <1>3 DEF Exchange, Unauthenticated
<1> QED
  BY <1>3, <1>7, <1>8 DEF Exchange, d

\* pqwire_reset.
Fresh(c, d) ==
    /\ d \in ContextType /\ d.role = c.role /\ d.lost = c.lost
    /\ d.events = <<>> /\ d.output = <<>>
    /\ d.auth_state = "NONE" /\ d.proto_state = "STARTUP" /\ d.startup_seen = FALSE
LEMMA ResetResets ==
    ASSUME NEW c \in ContextType
    PROVE  Fresh(c, Reset(c))
<1> DEFINE d == Reset(c)
<1>1. Fielded(c)
  BY ContextFields
<1>2. d = [c EXCEPT !.events = <<>>, !.output = <<>>, !.auth_state = "NONE",
                    !.proto_state = "STARTUP", !.startup_seen = FALSE]
  BY DEF Reset
<1>3. /\ DOMAIN d = Fields /\ d = [f \in Fields |-> d[f]] /\ d.output = <<>>
      /\ d.role = c.role /\ d.lost = c.lost /\ d.events = <<>>
      /\ d.scratch = c.scratch /\ d.startup_seen = FALSE
      /\ d.proto_state = "STARTUP" /\ d.auth_state = "NONE"
  BY <1>1, <1>2 DEF Fielded, Fields
<1> HIDE DEF d
<1>4. Fielded(d)
  <2>1. <<>> \in Seq(Event) /\ <<>> \in Seq(Msg)
    OBVIOUS
  <2> QED
    BY <1>1, <1>3, <2>1 DEF Fielded, Phases
<1> QED
  BY <1>3, <1>4, FieldsContext DEF Fresh, d

LEMMA CreateCreates ==
    ASSUME NEW role \in {Client, Server}
    PROVE  Fresh(Create(role), Create(role)) /\ Create(role).role = role /\ Create(role).lost = 0
<1> DEFINE d == Create(role)
<1>1. /\ DOMAIN d = Fields /\ d = [f \in Fields |-> d[f]] /\ d.output = <<>>
      /\ d.role = role /\ d.lost = 0 /\ d.events = <<>>
      /\ d.scratch = [t \in ScratchTypes |-> 0] /\ d.startup_seen = FALSE
      /\ d.proto_state = "STARTUP" /\ d.auth_state = "NONE"
  BY DEF Create, Fields
<1> HIDE DEF d
<1>2. Fielded(d)
  <2>1. <<>> \in Seq(Event) /\ <<>> \in Seq(Msg) /\ 0 \in Nat
    OBVIOUS
  <2>2. [t \in ScratchTypes |-> 0] \in [ScratchTypes -> Nat]
    OBVIOUS
  <2> QED
    BY <1>1, <2>1, <2>2 DEF Fielded, Phases
<1> QED
  BY <1>1, <1>2, FieldsContext DEF Fresh, d

\* A connection begins.
LEMMA Connects ==
    ASSUME NEW c, NEW s, NEW c0, NEW s0, Fresh(c0, c), Fresh(s0, s), c0.role = Client,
           c0.lost = 0, s0.role = Server, s0.lost = 0, NEW q \in 0 .. MaxRequests,
           EventQueueSize >= 7
    PROVE  Exchange(SendAll(c, <<Message(Startup, 0)>>), s, q, 0, <<>>, 0, 0, TRUE,
                    "startup", 0, 0)
<1> DEFINE x == Message(Startup, 0)
           d == SendAll(c, <<x>>)
<1>1. x \in Msg
  BY DEF Message, Msg, Startup
<1> HIDE DEF x
<1>2. <<x>> \in Seq(Msg)
  BY <1>1
<1>3. c \in ContextType /\ c.output = <<>> /\ c.events = <<>> /\ c.auth_state = "NONE"
      /\ c.role = Client /\ c.lost = 0
  BY DEF Fresh
<1>4. OnlyOutput(c, d) /\ d.output = c.output \o <<x>> /\ d.auth_state = c.auth_state
  BY <1>2, <1>3, SendAllSends
<1> HIDE DEF d
<1>5. /\ d \in ContextType /\ d.role = Client /\ d.lost = 0 /\ d.events = <<>>
      /\ d.output = <<x>> /\ d.auth_state = "NONE"
  BY <1>2, <1>3, <1>4, ConcatEmptySeq DEF OnlyOutput
<1>6. /\ s \in ContextType /\ s.role = Server /\ s.lost = 0 /\ s.events = <<>> /\ s.output = <<>>
      /\ s.proto_state = "STARTUP"
  BY DEF Fresh
<1>7. s.startup_seen = FALSE
  BY DEF Fresh
<1>8. Unsent("startup", q, 0) = <<x>>
  <2>1. Script("startup", q) = <<x>> /\ Size("startup") = 1 /\ 0 + 1 = 1
    BY DEF Script, Size, x
  <2>2. Unsent("startup", q, 0) = SubSeq(<<x>>, 1, 1)
    BY <2>1 DEF Unsent
  <2> QED
    BY <2>2
<1>9. Contexts(d, s)
  BY <1>5, <1>6 DEF Contexts
<1>10. Commands(d, s, q, "startup", 0, 0)
  <2>1. Len(s.events) = 0
    BY <1>6
  <2>2. Outgoing(d.output, "startup", q, 0)
    BY <1>5, <1>8 DEF Outgoing
  <2>3. s.startup_seen = ~("startup" = "startup" /\ 0 = 0)
    BY <1>7
  <2>4. s.proto_state = PhaseOf("startup", 0, 0)
    BY <1>6 DEF PhaseOf
  <2>5. 0 - 0 = 0 /\ 1 .. 0 = {}
    OBVIOUS
  <2> QED
    BY <2>1, <2>2, <2>3, <2>4, <2>5 DEF Commands
<1>11. Due(Pending(d.events, s.output), "startup", 0, 0, Len(<<>>), 0)
  <2>3. Pending(d.events, s.output) = <<>>
    BY <1>5, <1>6, NothingPending
  <2>4. /\ ~Owed("startup", 0) /\ Size("startup") = 1 /\ ~Finished("startup", 0)
        /\ NoneIn(<<>>, Concluding) /\ NoneIn(<<>>, {"READY_FOR_QUERY"}) /\ Len(<<>>) = 0
    BY DEF Owed, Size, Finished, NoneIn
  <2>5. 0 + (1 - 0) <= EventQueueSize
    BY ContextAssumption
  <2> QED
    BY <2>3, <2>4, <2>5 DEF Due
<1>12. Texts(d, s, q)
  <2>1. 1 .. Len(s.output) = {} /\ 1 .. Len(d.events) = {}
    BY <1>5, <1>6
  <2> QED
    BY <2>1 DEF Texts
<1>13. Unauthenticated(d, s, "startup", q, 0, 0)
  BY <1>5, <1>8 DEF Unauthenticated
<1>14. Counters(q, 0, <<>>, 0)
  <2>1. 0 \in 0 .. q /\ 0 \in 0 .. 0 + 1 /\ <<>> \in Seq(0 .. MaxRequests) /\ 1 .. Len(<<>>) = {}
    BY DialecticAssumption
  <2> QED
    BY <2>1 DEF Counters
<1>15. "startup" \in Kinds /\ 0 \in Nat /\ 0 <= 0 /\ 0 <= Size("startup")
  BY DEF Kinds, Size
<1> QED
  BY <1>9, <1>10, <1>11, <1>12, <1>13, <1>14, <1>15 DEF Exchange, d, x

-----------------------------------------------------------------------------
(* mitm_step moves all of the output, one way and then the other.          *)

LEMMA AllCommandsMove ==
    ASSUME NEW c, NEW s, NEW q, NEW a, NEW ans, NEW r, NEW stm, NEW o, NEW kind, NEW k, NEW m,
           Exchange(c, s, q, a, ans, r, stm, o, kind, k, m), EventQueueSize >= 7
    PROVE  \E l : Exchange(TakeOutput(c, Len(c.output)), Move(s, c.output),
                           q, a, ans, r, stm, o, kind, k, l)
<1> DEFINE n == Len(c.output)
<1>1. c \in ContextType /\ c.output \in Seq(Msg) /\ n \in Nat
  BY ContextFields, LenProperties DEF Exchange, Contexts, Fielded
<1>2. CASE c.output = <<>>
  <2>1. n = 0 /\ Move(s, c.output) = s
    BY <1>2 DEF Move
  <2>2. TakeOutput(c, n) = c
    BY <1>1, <2>1, TakeNothing
  <2> HIDE DEF n
  <2> QED
    BY <2>1, <2>2 DEF n
<1>3. CASE c.output # <<>>
  <2>1. SubSeq(c.output, 1, n) = c.output /\ n \in 0 .. n
    BY <1>1, SubSeqFull
  <2>2. Move(s, c.output) = FeedInput(s, SubSeq(c.output, 1, n))
    BY <1>3, <2>1 DEF Move
  <2>3. \E l : Exchange(TakeOutput(c, n), FeedInput(s, SubSeq(c.output, 1, n)),
                        q, a, ans, r, stm, o, kind, k, l)
    BY <2>1, CommandsMove
  <2> QED
    BY <2>2, <2>3
<1> QED
  BY <1>2, <1>3

LEMMA AllAnswersMove ==
    ASSUME NEW c, NEW s, NEW q, NEW a, NEW ans, NEW r, NEW stm, NEW o, NEW kind, NEW k, NEW m,
           Exchange(c, s, q, a, ans, r, stm, o, kind, k, m), EventQueueSize >= 7
    PROVE  Exchange(Move(c, s.output), TakeOutput(s, Len(s.output)),
                    q, a, ans, r, stm, o, kind, k, m)
<1> DEFINE n == Len(s.output)
<1>1. s \in ContextType /\ s.output \in Seq(Msg) /\ n \in Nat
  BY ContextFields, LenProperties DEF Exchange, Contexts, Fielded
<1>2. CASE s.output = <<>>
  <2>1. n = 0 /\ Move(c, s.output) = c
    BY <1>2 DEF Move
  <2>2. TakeOutput(s, n) = s
    BY <1>1, <2>1, TakeNothing
  <2> HIDE DEF n
  <2> QED
    BY <2>1, <2>2 DEF n
<1>3. CASE s.output # <<>>
  <2>1. SubSeq(s.output, 1, n) = s.output /\ n \in 0 .. n
    BY <1>1, SubSeqFull
  <2>2. Move(c, s.output) = FeedInput(c, SubSeq(s.output, 1, n))
    BY <1>3, <2>1 DEF Move
  <2>3. Exchange(FeedInput(c, SubSeq(s.output, 1, n)), TakeOutput(s, n),
                 q, a, ans, r, stm, o, kind, k, m)
    BY <2>1, AnswersMove
  <2> QED
    BY <2>2, <2>3
<1> QED
  BY <1>2, <1>3

-----------------------------------------------------------------------------
(* The invariant holds.                                                    *)

Exchanged(kind, k, m) ==
    Exchange(client, server, requests, asked, answers, readies, statement, open, kind, k, m)

LEMMA ExchangedExchanging ==
    ASSUME NEW kind, NEW k, NEW m, Exchanged(kind, k, m)
    PROVE  Exchanging
<1>1. kind \in Kinds /\ k \in Nat /\ m \in Nat /\ k <= m /\ m <= Size(kind)
  BY DEF Exchanged, Exchange
<1>2. Size(kind) \in Nat
  BY <1>1, SizeRange
<1>3. k \in 0 .. Size(kind) /\ m \in 0 .. Size(kind)
  BY <1>1, <1>2
<1> QED
  BY <1>1, <1>3 DEF Exchanging, Exchanged

LEMMA ExchangingInit == ASSUME Sized PROVE Init => Exchanging
<1> SUFFICES ASSUME Init PROVE Exchanging
  OBVIOUS
<1>1. Client \in {Client, Server} /\ Server \in {Client, Server}
  OBVIOUS
<1>2. /\ Fresh(Create(Client), Create(Client)) /\ Create(Client).role = Client
      /\ Create(Client).lost = 0
      /\ Fresh(Create(Server), Create(Server)) /\ Create(Server).role = Server
      /\ Create(Server).lost = 0
  BY <1>1, CreateCreates
<1>3. 0 \in 0 .. MaxRequests /\ EventQueueSize >= 7
  BY DialecticAssumption DEF Sized
<1>4. Exchange(SendAll(Create(Client), <<Message(Startup, 0)>>), Create(Server),
               0, 0, <<>>, 0, 0, TRUE, "startup", 0, 0)
  BY <1>2, <1>3, Connects
<1>5. Exchanged("startup", 0, 0)
  BY <1>4 DEF Init, Exchanged
<1> QED
  BY <1>5, ExchangedExchanging

LEMMA ExchangingNext == ASSUME Sized PROVE Exchanging /\ [Next]_vars => Exchanging'
<1> SUFFICES ASSUME Exchanging, [Next]_vars PROVE Exchanging'
  OBVIOUS
<1>1. PICK kind, k, m : Exchanged(kind, k, m)
  BY DEF Exchanging, Exchanged
<1>2. Exchange(client, server, requests, asked, answers, readies, statement, open, kind, k, m)
  BY <1>1 DEF Exchanged
<1>3. EventQueueSize >= 7 /\ Discipline = "event"
  BY DEF Sized
<1>4. SUFFICES \E kd, i, j : Exchange(client', server', requests', asked', answers', readies',
                                      statement', open', kd, i, j)
  <2>1. PICK kd, i, j : Exchange(client', server', requests', asked', answers', readies',
                                 statement', open', kd, i, j)
    BY <1>4
  <2>2. kd \in Kinds /\ i \in Nat /\ j \in Nat /\ i <= j /\ j <= Size(kd)
    BY <2>1 DEF Exchange
  <2>3. Size(kd) \in Nat
    BY <2>2, SizeRange
  <2>4. i \in 0 .. Size(kd) /\ j \in 0 .. Size(kd)
    BY <2>2, <2>3
  <2> QED
    BY <2>1, <2>2, <2>4 DEF Exchanging
<1>5. CASE ClientToServer
  <2>1. PICK n \in 1 .. Len(client.output) :
            /\ server' = FeedInput(server, SubSeq(client.output, 1, n))
            /\ client' = TakeOutput(client, n)
            /\ UNCHANGED <<requests, asked, answers, readies, statement, open>>
    BY <1>5 DEF ClientToServer
  <2>2. n \in 0 .. Len(client.output)
    BY <2>1
  <2>3. \E l : Exchange(TakeOutput(client, n), FeedInput(server, SubSeq(client.output, 1, n)),
                        requests, asked, answers, readies, statement, open, kind, k, l)
    BY <1>2, <1>3, <2>2, CommandsMove
  <2> QED
    BY <2>1, <2>3
<1>6. CASE ServerToClient
  <2>1. PICK n \in 1 .. Len(server.output) :
            /\ client' = FeedInput(client, SubSeq(server.output, 1, n))
            /\ server' = TakeOutput(server, n)
            /\ UNCHANGED <<requests, asked, answers, readies, statement, open>>
    BY <1>6 DEF ServerToClient
  <2>2. n \in 0 .. Len(server.output)
    BY <2>1
  <2>3. Exchange(FeedInput(client, SubSeq(server.output, 1, n)), TakeOutput(server, n),
                 requests, asked, answers, readies, statement, open, kind, k, m)
    BY <1>2, <1>3, <2>2, AnswersMove
  <2> QED
    BY <2>1, <2>3
<1>7. CASE MitmStep
  <2> DEFINE c == TakeOutput(client, Len(client.output))
             s == Move(server, client.output)
  <2>1. /\ server' = TakeOutput(s, Len(s.output)) /\ client' = Move(c, s.output)
        /\ UNCHANGED <<requests, asked, answers, readies, statement, open>>
    BY <1>7 DEF MitmStep
  <2>2. \E l : Exchange(c, s, requests, asked, answers, readies, statement, open, kind, k, l)
    BY <1>2, <1>3, AllCommandsMove
  <2> HIDE DEF c, s
  <2>3. PICK l : Exchange(c, s, requests, asked, answers, readies, statement, open, kind, k, l)
    BY <2>2
  <2>4. Exchange(Move(c, s.output), TakeOutput(s, Len(s.output)),
                 requests, asked, answers, readies, statement, open, kind, k, l)
    BY <1>3, <2>3, AllAnswersMove
  <2> QED
    BY <2>1, <2>4
<1>8. ASSUME NEW new \in {"simple", "pipeline", "described"}, Ask(Script(new, requests + 1))
      PROVE  \E kd, i, j : Exchange(client', server', requests', asked', answers', readies',
                                    statement', open', kd, i, j)
  <2>1. /\ requests < MaxRequests /\ open /\ readies = asked + 1
        /\ client' = SendAll(client, Script(new, requests + 1))
        /\ requests' = requests + 1 /\ asked' = asked + 1
        /\ UNCHANGED <<server, answers, readies, statement, open>>
    BY <1>3, <1>8 DEF Ask, MayAsk
  <2>2. Exchange(SendAll(client, Script(new, requests + 1)), server, requests + 1, asked + 1,
                 answers, readies, statement, open, new, 0, 0)
    BY <1>2, <1>3, <2>1, Asks
  <2> QED
    BY <2>1, <2>2
<1>9. CASE AskSimple
  <2>1. Ask(Script("simple", requests + 1))
    BY <1>9 DEF AskSimple, Script
  <2> QED
    BY <1>8, <2>1
<1>10. CASE AskPipeline
  <2>1. Ask(Script("pipeline", requests + 1))
    BY <1>10 DEF AskPipeline, Script
  <2> QED
    BY <1>8, <2>1
<1>11. CASE AskDescribed
  <2>1. Ask(Script("described", requests + 1))
    BY <1>11 DEF AskDescribed, Script
  <2> QED
    BY <1>8, <2>1
<1>12. CASE Terminate
  <2>1. /\ open /\ readies = asked + 1 /\ client' = Send(client, Unnamed("X")) /\ open' = FALSE
        /\ UNCHANGED <<server, requests, asked, answers, readies, statement>>
    BY <1>12 DEF Terminate
  <2>2. Exchange(Send(client, Unnamed("X")), server, requests, asked, answers, readies,
                 statement, FALSE, "terminate", 0, 0)
    BY <1>2, <1>3, <2>1, Terminates
  <2> QED
    BY <2>1, <2>2
<1>13. CASE Authenticate
  <2>1. /\ client.auth_state = "NONE" /\ client' = StartAuth(client)
        /\ UNCHANGED <<server, requests, asked, answers, readies, statement, open>>
    BY <1>13 DEF Authenticate
  <2>2. Exchange(StartAuth(client), server, requests, asked, answers, readies, statement, open,
                 kind, k, m)
    BY <1>2, <2>1, Authenticates
  <2> QED
    BY <2>1, <2>2
<1>14. CASE ClientPoll
  <2>1. /\ client.events # <<>> /\ client' = DropEvent(client)
        /\ readies' = ReadiesAfter(readies, ReadEvent(client))
        /\ answers' = Noted(answers, ReadEvent(client))
        /\ UNCHANGED <<server, requests, asked, statement, open>>
    BY <1>14 DEF ClientPoll, HasEvent, ReadiesAfter, Noted
  <2>2. Exchange(DropEvent(client), server, requests, asked, Noted(answers, ReadEvent(client)),
                 ReadiesAfter(readies, ReadEvent(client)), statement, open, kind, k, m)
    BY <1>2, <1>3, <2>1, ClientPolls
  <2> QED
    BY <2>1, <2>2
<1>15. CASE ServerPoll
  <2> DEFINE ev == ReadEvent(server)
             stn == IF ev.type = "PARSE" THEN ev.text ELSE statement
  <2>1. PICK msgs \in Answers(ev) :
            /\ server.events # <<>> /\ server' = SendAll(DropEvent(server), msgs)
            /\ statement' = stn
            /\ UNCHANGED <<client, requests, asked, answers, readies, open>>
    BY <1>15 DEF ServerPoll, HasEvent
  <2>2. ev.text \in Nat /\ statement \in Nat
    <3>1. ev.text \in Nat
      BY <1>2, <2>1, ServerReads
    <3> QED
      BY <1>2, <3>1 DEF Exchange
  <2>3. Fitting(msgs, ev, statement)
    BY <2>2, AnswersFit
  <2>4. Exchange(client, SendAll(DropEvent(server), msgs), requests, asked, answers, readies,
                 stn, open, kind, k + 1, m)
    BY <1>2, <1>3, <2>1, <2>3, ServerPolls
  <2> HIDE DEF ev, stn
  <2> QED
    BY <2>1, <2>4
<1>16. CASE Reconnect
  <2>1. /\ client' = SendAll(Reset(client), <<Message(Startup, 0)>>) /\ server' = Reset(server)
        /\ asked' = 0 /\ answers' = <<>> /\ readies' = 0 /\ statement' = 0 /\ open' = TRUE
        /\ UNCHANGED requests
    BY <1>16 DEF Reconnect, Send
  <2>2. /\ client \in ContextType /\ client.role = Client /\ client.lost = 0
        /\ server \in ContextType /\ server.role = Server /\ server.lost = 0
        /\ requests \in 0 .. MaxRequests
    BY <1>2 DEF Exchange, Contexts, Counters
  <2>3. Fresh(client, Reset(client)) /\ Fresh(server, Reset(server))
    BY <2>2, ResetResets
  <2>4. Exchange(SendAll(Reset(client), <<Message(Startup, 0)>>), Reset(server),
                 requests, 0, <<>>, 0, 0, TRUE, "startup", 0, 0)
    BY <1>3, <2>2, <2>3, Connects
  <2> QED
    BY <2>1, <2>4
<1>17. CASE UNCHANGED vars
  BY <1>2, <1>17 DEF vars
<1> QED
  BY <1>5, <1>6, <1>7, <1>9, <1>10, <1>11, <1>12, <1>13, <1>14, <1>15, <1>16, <1>17 DEF Next

-----------------------------------------------------------------------------
(* The theorems, for a client that waits for READY_FOR_QUERY and queues as  *)
(* long as the longest exchange.                                           *)

\* The exchange is always in one of the states that the invariant describes.
THEOREM ExchangingCorrect == ASSUME Sized PROVE Spec => []Exchanging
<1>1. Init => Exchanging
  BY ExchangingInit
<1>2. Exchanging /\ [Next]_vars => Exchanging'
  BY ExchangingNext
<1> QED
  BY <1>1, <1>2, PTL DEF Spec

\* The state stays within its types: the contexts have a phase and an
\* authentication state of the library's, their queues are never longer than
\* config->event_queue_size, and the client counts no more answers and
\* READY_FOR_QUERY events than it can have.
THEOREM TypeCorrect == ASSUME Sized PROVE Spec => []TypeOK
<1>1. Exchanging => TypeOK
  <2> SUFFICES ASSUME Exchanging PROVE TypeOK
    OBVIOUS
  <2>1. PICK kind, k, m : Exchanged(kind, k, m)
    BY DEF Exchanging, Exchanged
  <2>2. Exchange(client, server, requests, asked, answers, readies, statement, open, kind, k, m)
        /\ EventQueueSize >= 7
    BY <2>1 DEF Exchanged, Sized
  <2>3. Fielded(client) /\ Fielded(server)
    BY <2>2, ContextFields DEF Exchange, Contexts
  <2>4. Len(client.events) <= EventQueueSize
    <3> DEFINE x == Len(client.events)
               w == Len(server.output)
    <3>1. x \in Nat /\ w \in Nat /\ x + w <= EventQueueSize /\ EventQueueSize \in Nat
      BY <2>2, PendingRoom, ContextAssumption
    <3> HIDE DEF x, w
    <3>2. x <= EventQueueSize
      BY ONLY <3>1
    <3> QED
      BY <3>2 DEF x
  <2>5. Len(server.events) <= EventQueueSize
    <3>1. kind \in Kinds /\ k \in Nat /\ m \in Nat /\ m <= Size(kind) /\ Len(server.events) = m - k
      BY <2>2 DEF Exchange, Commands
    <3>2. Size(kind) \in Nat /\ Size(kind) <= 7 /\ EventQueueSize \in Nat
      BY <3>1, SizeRange, ContextAssumption
    <3>3. m - k <= EventQueueSize
      BY <2>2, <3>1, <3>2
    <3> QED
      BY <3>1, <3>3
  <2>6. /\ requests \in 0 .. MaxRequests /\ asked \in 0 .. requests
        /\ answers \in Seq(0 .. MaxRequests) /\ readies \in 0 .. asked + 1
    BY <2>2 DEF Exchange, Counters
  <2> QED
    BY <2>3, <2>4, <2>5, <2>6 DEF TypeOK, Fielded
<1> QED
  BY <1>1, ExchangingCorrect, PTL

\* Answer k of a connection is the answer to its request k: no interleaving of
\* the two applications and the transport, no cut of the output and no lost
\* connection makes the client take one request's answer for another's,
\* although the tags and the statements go through one scratch string.
THEOREM AnswersCorrect == ASSUME Sized PROVE Spec => []AnswersMatch
<1>1. Exchanging => AnswersMatch
  <2> SUFFICES ASSUME Exchanging PROVE AnswersMatch
    OBVIOUS
  <2>1. PICK kind, k, m : Exchanged(kind, k, m)
    BY DEF Exchanging, Exchanged
  <2>2. Exchange(client, server, requests, asked, answers, readies, statement, open, kind, k, m)
    BY <2>1 DEF Exchanged
  <2>3. /\ answers \in Seq(0 .. MaxRequests) /\ asked \in Nat
        /\ \A j \in 1 .. Len(answers) : answers[j] \in {requests - asked + j, Failed}
    BY <2>2, DialecticAssumption DEF Exchange, Counters
  <2>4. Len(answers) <= asked
    <3> DEFINE n == Len(answers)
    <3>1. n = asked \/ n = asked - 1
      BY <2>2 DEF Exchange, Due
    <3> HIDE DEF n
    <3>2. n <= asked
      BY <2>3, <3>1
    <3> QED
      BY <3>2 DEF n
  <2>5. DOMAIN answers = 1 .. Len(answers)
    BY <2>3, LenProperties
  <2> QED
    BY <2>3, <2>4, <2>5 DEF AnswersMatch, Earlier
<1> QED
  BY <1>1, ExchangingCorrect, PTL

\* enqueue_event never finds a full queue: neither side loses an event, even
\* when its application polls none until the whole exchange has arrived.
THEOREM NothingLostCorrect == ASSUME Sized PROVE Spec => []NothingLost
<1>1. Exchanging => NothingLost
  BY DEF Exchanging, Exchange, Contexts, NothingLost
<1> QED
  BY <1>1, ExchangingCorrect, PTL

\* The server's proto_state follows the startup and the simple queries that its
\* application has still to answer, and stays READY through a pipeline.
THEOREM PhaseCorrect == ASSUME Sized PROVE Spec => []PhaseFollowsSimpleQueries
<1>1. Exchanging => PhaseFollowsSimpleQueries
  <2> SUFFICES ASSUME Exchanging PROVE PhaseFollowsSimpleQueries
    OBVIOUS
  <2>1. PICK kind, k, m : Exchanged(kind, k, m)
    BY DEF Exchanging, Exchanged
  <2>2. Exchange(client, server, requests, asked, answers, readies, statement, open, kind, k, m)
    BY <2>1 DEF Exchanged
  <2>3. /\ kind \in Kinds /\ k \in Nat /\ m \in Nat /\ k <= m /\ m <= Size(kind)
        /\ Size(kind) \in Nat /\ (kind \notin Pipelines => Size(kind) = 1) /\ requests \in Nat
    BY <2>2, SizeRange, DialecticAssumption DEF Exchange, Counters
  <2>4. /\ Len(server.events) = m - k /\ server.proto_state = PhaseOf(kind, k, m)
        /\ \A j \in 1 .. m - k : server.events[j] = Command(Script(kind, requests)[k + j])
    BY <2>2 DEF Exchange, Commands
  <2>5. server.startup_seen = ~(kind = "startup" /\ m = 0)
    BY <2>2 DEF Exchange, Commands
  <2>6. DOMAIN server.events = 1 .. m - k
    BY <2>2, <2>4, ContextFields, LenProperties DEF Exchange, Contexts, Fielded
  <2>7. ASSUME NEW j \in 1 .. m - k
        PROVE  /\ server.events[j].type = "STARTUP" <=> kind = "startup"
               /\ server.events[j].type = "QUERY" <=> kind = "simple"
    <3> DEFINE h == Script(kind, requests)[k + j]
    <3>1. k + j \in 1 .. Size(kind)
      BY <2>3
    <3>2. /\ h.type \in ServerTypes \cup {Startup}
          /\ h.type = Startup <=> kind = "startup"
          /\ h.type = "Q" <=> kind = "simple"
      BY <2>3, <3>1, ScriptType DEF IsScript
    <3>3. server.events[j] = Command(h)
      BY <2>4
    <3> HIDE DEF h
    <3>4. server.events[j].type = IF h.type = Startup THEN "STARTUP" ELSE EventOf(Server)[h.type]
      BY <3>3 DEF Command
    <3> QED
      BY <3>2, <3>4, ServerEvents DEF ServerTypes, Startup
  <2>8. /\ Queued(server, "STARTUP") <=> (kind = "startup" /\ k < m)
        /\ Queued(server, "QUERY") <=> (kind = "simple" /\ k < m)
    <3>1. k < m => 1 \in 1 .. m - k
      BY <2>3
    <3>2. ~(k < m) => 1 .. m - k = {}
      BY <2>3
    <3> QED
      BY <2>6, <2>7, <3>1, <3>2 DEF Queued
  <2>9. kind \in {"startup", "simple"} => (k < m <=> (m = 1 /\ k = 0))
    <3>1. kind \in {"startup", "simple"} => m <= 1
      BY <2>3 DEF Pipelines
    <3> QED
      BY <2>3, <3>1
  <2>10. kind = "startup" /\ m = 0 => ~(m = 1)
    OBVIOUS
  <2> QED
    BY <2>4, <2>5, <2>8, <2>9, <2>10 DEF PhaseFollowsSimpleQueries, PhaseOf
<1> QED
  BY <1>1, ExchangingCorrect, PTL

=============================================================================
