----------------------------- MODULE Dialectic -----------------------------
(***************************************************************************)
(* A client context and a server context driven against each other, the    *)
(* way ADR 004 and tests/test_pqwire.c do it: two applications that poll   *)
(* events and call send helpers, and a transport that moves the output of  *)
(* one side to the input of the other, such as mitm_step (src/src/mitm.c). *)
(*                                                                         *)
(* The library has no threads, but the two contexts run in different       *)
(* processes: their applications and the transport interleave freely.      *)
(***************************************************************************)
EXTENDS Context

CONSTANTS
    MaxRequests,     \* how many requests the client makes
    RowCounts,       \* how many rows the result of a request may have
    MaxReconnects,   \* how often the pair is reset for another connection
    Discipline       \* what the client waits for before its next request:
                     \* "event" (a READY_FOR_QUERY event for the last one),
                     \* "state" (pqwire_current_state is READY)

ASSUME DialecticAssumption ==
    /\ MaxRequests \in Nat
    /\ RowCounts \subseteq Nat
    /\ MaxReconnects \in Nat
    /\ Discipline \in {"event", "state"}

VARIABLES
    client, server,  \* the contexts
    requests,        \* requests made so far; request k has text k
    asked,           \* requests made on this connection
    answers,         \* texts of the answers delivered on this connection
    readies,         \* READY_FOR_QUERY events delivered on this connection
    statement,       \* the server application's unnamed statement
    open,            \* the client has not terminated this connection
    reconnects

vars == <<client, server, requests, asked, answers, readies, statement, open,
          reconnects>>

Failed == 0          \* an answer that is an ErrorResponse

Init ==
    /\ client = SendAll(Create(Client), <<Message(Startup, 0)>>)
    /\ server = Create(Server)
    /\ requests = 0
    /\ answers = <<>>
    /\ readies = 0
    /\ asked = 0
    /\ statement = 0
    /\ open = TRUE
    /\ reconnects = 0

-----------------------------------------------------------------------------
(* The transport.  Two applications in different processes move any first   *)
(* part of the output that the connection takes; a test harness calls       *)
(* mitm_step, which moves all that its buffer takes, first one way and then *)
(* the other (the outputs here are far below the size of that buffer).      *)

ClientToServer ==
    \E n \in 1 .. Len(client.output) :
        /\ server' = FeedInput(server, SubSeq(client.output, 1, n))
        /\ client' = TakeOutput(client, n)
        /\ UNCHANGED <<requests, asked, answers, readies, statement, open,
                   reconnects>>

ServerToClient ==
    \E n \in 1 .. Len(server.output) :
        /\ client' = FeedInput(client, SubSeq(server.output, 1, n))
        /\ server' = TakeOutput(server, n)
        /\ UNCHANGED <<requests, asked, answers, readies, statement, open,
                   reconnects>>

Move(ctx, msgs) == IF msgs = <<>> THEN ctx ELSE FeedInput(ctx, msgs)
MitmStep ==
    LET reached == Move(server, client.output)
    IN  /\ client.output # <<>> \/ server.output # <<>>
        /\ server' = TakeOutput(reached, Len(reached.output))
        /\ client' = Move(TakeOutput(client, Len(client.output)), reached.output)
        /\ UNCHANGED <<requests, asked, answers, readies, statement, open,
                       reconnects>>

-----------------------------------------------------------------------------
(* The client application.                                                 *)

MayAsk ==
    CASE Discipline = "event" -> readies = asked + 1
      [] Discipline = "state" -> client.proto_state = "READY"

Ask(msgs) ==
    /\ requests < MaxRequests
    /\ open
    /\ MayAsk
    /\ client' = SendAll(client, msgs)
    /\ requests' = requests + 1
    /\ asked' = asked + 1
    /\ UNCHANGED <<server, answers, readies, statement, open,
                   reconnects>>

\* pqwire_send_query.
AskSimple == Ask(<<Message("Q", requests + 1)>>)

\* pqwire_send_unnamed_pipeline, and pqwire_send_parse, bind, describe, flush,
\* execute, close and sync called one after the other.
Unnamed(type) == Message(type, 0)
AskPipeline ==
    Ask(<<Message("P", requests + 1), Unnamed("B"), Unnamed("E"), Unnamed("S")>>)
AskDescribed ==
    Ask(<<Message("P", requests + 1), Unnamed("B"), Unnamed("D"), Unnamed("H"),
          Unnamed("E"), Unnamed("C"), Unnamed("S")>>)

\* pqwire_send_terminate, after the last answer.
Terminate ==
    /\ open
    /\ readies = asked + 1
    /\ client' = Send(client, Unnamed("X"))
    /\ open' = FALSE
    /\ UNCHANGED <<server, requests, asked, answers, readies, statement, reconnects>>

\* pqwire_start_auth.
Authenticate ==
    /\ client.auth_state = "NONE"
    /\ client' = StartAuth(client)
    /\ UNCHANGED <<server, requests, asked, answers, readies, statement, open,
                   reconnects>>

\* pqwire_next_event, and what the application notes down of the event.
ClientPoll ==
    /\ HasEvent(client)
    /\ LET ev == ReadEvent(client)
       IN  /\ readies' = IF ev.type = "READY_FOR_QUERY" THEN readies + 1 ELSE readies
           /\ answers' = CASE ev.type = "COMMAND_COMPLETE" -> Append(answers, ev.text)
                           [] ev.type = "ERROR_RESPONSE" -> Append(answers, Failed)
                           [] OTHER -> answers
    /\ client' = DropEvent(client)
    /\ UNCHANGED <<server, requests, asked, statement, open,
                   reconnects>>

-----------------------------------------------------------------------------
(* The server application: one answer per event.  It may fail a query or an *)
(* Execute, and it answers every Sync and every simple query with           *)
(* ReadyForQuery.                                                           *)

DataRows(text) == {[i \in 1 .. n |-> Message("D", text)] : n \in RowCounts}
Complete(text) == <<Message("C", text)>>
Described(text) == <<Message("T", text)>>
Error == Message("E", 0)
Ready == Message("Z", 0)

Answers(ev) ==
    CASE ev.type = "STARTUP" -> {<<Message("R", 0), Ready>>}
      [] ev.type = "QUERY" ->
             {Described(ev.text) \o rows \o Complete(ev.text) \o <<Ready>> :
                  rows \in DataRows(ev.text)} \cup {<<Error, Ready>>}
      [] ev.type = "PARSE" -> {<<Message("1", 0)>>}
      [] ev.type = "BIND" -> {<<Message("2", 0)>>}
      [] ev.type = "DESCRIBE" -> {Described(statement), <<Message("n", 0)>>}
      [] ev.type = "EXECUTE" ->
             {rows \o Complete(statement) : rows \in DataRows(statement)}
                 \cup {<<Error>>}
      [] ev.type = "CLOSE" -> {<<Message("3", 0)>>}
      [] ev.type = "SYNC" -> {<<Ready>>}
      [] OTHER -> {<<>>}

ServerPoll ==
    /\ HasEvent(server)
    /\ LET ev == ReadEvent(server)
       IN  /\ \E msgs \in Answers(ev) : server' = SendAll(DropEvent(server), msgs)
           /\ statement' = IF ev.type = "PARSE" THEN ev.text ELSE statement
    /\ UNCHANGED <<client, requests, asked, answers, readies, open, reconnects>>

\* The connection is lost at any moment: both sides reset their contexts and
\* use them for another one.
Reconnect ==
    /\ reconnects < MaxReconnects
    /\ client' = Send(Reset(client), Message(Startup, 0))
    /\ server' = Reset(server)
    /\ asked' = 0
    /\ answers' = <<>>
    /\ readies' = 0
    /\ statement' = 0
    /\ open' = TRUE
    /\ reconnects' = reconnects + 1
    /\ UNCHANGED requests

Next ==
    \/ ClientToServer \/ ServerToClient \/ MitmStep
    \/ AskSimple \/ AskPipeline \/ AskDescribed \/ Terminate
    \/ Authenticate \/ ClientPoll
    \/ ServerPoll
    \/ Reconnect

Spec == Init /\ [][Next]_vars

\* Both applications drain their queues, as the documented loop does, and the
\* transport keeps moving.  Nobody is obliged to make a request.
Fairness ==
    /\ WF_vars(ClientToServer) /\ WF_vars(ServerToClient)
    /\ WF_vars(ClientPoll) /\ WF_vars(ServerPoll)
FairSpec == Spec /\ Fairness

-----------------------------------------------------------------------------
(* Properties.                                                             *)

\* The state stays within its types.
Phases == {"STARTUP", "AUTHENTICATING", "READY", "QUERYING"}
TypeOK ==
    /\ \A ctx \in {client, server} :
           /\ ctx.proto_state \in Phases
           /\ ctx.auth_state \in {"NONE", "CLIENT_FIRST", "DONE"}
           /\ Len(ctx.events) <= EventQueueSize
    /\ requests \in 0 .. MaxRequests
    /\ asked \in 0 .. requests
    /\ answers \in Seq(0 .. MaxRequests)
    /\ readies \in 0 .. asked + 1

\* On every connection answer k is the answer to request k of that
\* connection: although statements and tags travel through one scratch
\* string per context, and although contexts are reset and used again with
\* answers of the lost connection still queued.  pqwire.h:40 offers
\* pqwire_current_state as the way to know whether a context is ready or
\* querying; a client that relies on it, instead of waiting for the
\* READY_FOR_QUERY event, should be as well off.
Earlier == requests - asked
AnswersMatch ==
    /\ Len(answers) <= asked
    /\ \A k \in DOMAIN answers : answers[k] \in {Earlier + k, Failed}

\* No event is lost in either queue: enqueue_event drops the oldest one when
\* the queue is full, whether or not the application has had a chance to
\* poll.  The run shows that a queue as long as the longest exchange is enough
\* even if nobody polls until all of it has arrived.
NothingLost == client.lost = 0 /\ server.lost = 0

\* The server's phase follows the StartupMessage and simple queries, and
\* nothing else: under every interleaving it is AUTHENTICATING exactly while a
\* STARTUP event waits for its answer, QUERYING exactly while a QUERY event
\* does, and READY otherwise, also in the middle of a pipeline.  ARCHITECTURE.md
\* (line 56) lists "Parse/Bind/Execute" among the states; the code has no phase
\* for them, so READY does not mean that there is nothing to answer.
Queued(ctx, type) == \E i \in DOMAIN ctx.events : ctx.events[i].type = type
PhaseFollowsSimpleQueries ==
    server.proto_state =
        CASE ~server.startup_seen -> "STARTUP"
          [] Queued(server, "STARTUP") -> "AUTHENTICATING"
          [] Queued(server, "QUERY") -> "QUERYING"
          [] OTHER -> "READY"

\* A request is answered unless its connection is lost.
EveryRequestAnswered ==
    \A k \in 1 .. MaxRequests :
        requests >= k ~> (Earlier >= k \/ Earlier + Len(answers) >= k)

\* ARCHITECTURE.md:56 has the caller feed, poll until there are no more
\* events, and repeat: then a caller that does so gets every event, and no
\* feed into a drained queue loses one.
DrainedFeedLosesNothing ==
    [][~HasEvent(client) => client'.lost = client.lost]_vars

=============================================================================
