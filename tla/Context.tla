------------------------------ MODULE Context ------------------------------
(***************************************************************************)
(* One libpqwire context at the level of whole messages (src/src/pqwire.c):*)
(* its protocol phase, what handle_message does with each message, the     *)
(* event queue, the scratch strings that queued events point to, and the   *)
(* output that the send helpers produce.                                   *)
(*                                                                         *)
(* A context is a record; the operators below are the library's functions, *)
(* from a context to the context they leave behind.  How bytes become      *)
(* messages is modelled in Framing, how the event queue is kept in a ring  *)
(* in EventRing: here the queue is the bounded sequence of LossyFifo, which *)
(* the ring is proved to implement.                                        *)
(***************************************************************************)
EXTENDS Naturals, SequencesExt

CONSTANT EventQueueSize   \* config->event_queue_size

ASSUME ContextAssumption == EventQueueSize \in Nat \ {0}

Client == "PQWIRE_ROLE_CLIENT"
Server == "PQWIRE_ROLE_SERVER"

\* A message has a type and one text (the statement, the tag, the columns,
\* the names, ...), abstracted to a number; 0 is the empty text.  A message
\* whose body its parser cannot read is not ok.
Startup == "startup"
Message(type, text) == [type |-> type, text |-> text, ok |-> TRUE]
Malformed(type) == [type |-> type, text |-> 0, ok |-> FALSE]

\* The events that handle_message raises; it ignores any other type.
EventOf(role) ==
    IF role = Server
    THEN [t \in {"Q", "P", "B", "D", "E", "C", "S", "H", "X"} |->
             CASE t = "Q" -> "QUERY" [] t = "P" -> "PARSE" [] t = "B" -> "BIND"
               [] t = "D" -> "DESCRIBE" [] t = "E" -> "EXECUTE" [] t = "C" -> "CLOSE"
               [] t = "S" -> "SYNC" [] t = "H" -> "FLUSH" [] t = "X" -> "TERMINATE"]
    ELSE [t \in {"R", "Z", "T", "D", "C", "E", "1", "2", "3", "n", "s", "S", "N", "A"} |->
             CASE t = "R" -> "AUTHENTICATION_OK" [] t = "Z" -> "READY_FOR_QUERY"
               [] t = "T" -> "ROW_DESCRIPTION" [] t = "D" -> "DATA_ROW"
               [] t = "C" -> "COMMAND_COMPLETE" [] t = "E" -> "ERROR_RESPONSE"
               [] t = "1" -> "PARSE_COMPLETE" [] t = "2" -> "BIND_COMPLETE"
               [] t = "3" -> "CLOSE_COMPLETE" [] t = "n" -> "NO_DATA"
               [] t = "s" -> "PORTAL_SUSPENDED" [] t = "S" -> "PARAMETER_STATUS"
               [] t = "N" -> "NOTICE_RESPONSE" [] t = "A" -> "NOTIFICATION"]

\* Parsers that return without an event when they cannot read the body; an
\* Authentication message other than AuthenticationOk counts among them.
Strict(role) ==
    IF role = Server THEN {"P", "B", "D", "E", "C"} ELSE {"R", "T", "D", "A"}

\* Events whose text is a pointer into the context, one buffer per type.
ScratchTypes == {"STARTUP", "QUERY", "ROW_DESCRIPTION", "COMMAND_COMPLETE"}

\* pqwire_create_with_config.  `lost' is a history field, the number of
\* events that a full queue dropped.
Create(role) ==
    [role |-> role,
     proto_state |-> "STARTUP",
     auth_state |-> "NONE",
     startup_seen |-> FALSE,
     events |-> <<>>,
     scratch |-> [t \in ScratchTypes |-> 0],
     output |-> <<>>,
     lost |-> 0]

\* Mutant: the queue drops an event when it could take one more.
EnqueueEventEarly(ctx, type, text) ==
    LET full == Len(ctx.events) + 1 >= EventQueueSize
        kept == IF full THEN Tail(ctx.events) ELSE ctx.events
    IN  [ctx EXCEPT
            !.events = Append(kept, [type |-> type, text |-> text]),
            !.scratch = IF type \in ScratchTypes
                        THEN [@ EXCEPT ![type] = text] ELSE @,
            !.lost = IF full THEN @ + 1 ELSE @]

\* enqueue_event, with the text that is copied to scratch before it.
EnqueueEvent(ctx, type, text) ==
    LET full == Len(ctx.events) >= EventQueueSize
        kept == IF full THEN Tail(ctx.events) ELSE ctx.events
    IN  [ctx EXCEPT
            !.events = Append(kept, [type |-> type, text |-> text]),
            !.scratch = IF type \in ScratchTypes
                        THEN [@ EXCEPT ![type] = text] ELSE @,
            !.lost = IF full THEN @ + 1 ELSE @]

\* The phase in which an event leaves the context.
PhaseAfter(type, phase) ==
    CASE type = "STARTUP" -> "AUTHENTICATING"
      [] type = "QUERY" -> "QUERYING"
      [] type \in {"READY_FOR_QUERY", "COMMAND_COMPLETE"} -> "READY"
      [] OTHER -> phase

\* parse_startup_body, and handle_message with the parsers it calls.  Only a
\* server that has not seen a StartupMessage reads one.  Any other context
\* takes its first byte for the type 0, which handle_message ignores; that the
\* length is misread as well is a matter of Framing, and no application here
\* sends one twice.
Raise(ctx, type, text) ==
    [EnqueueEvent(ctx, type, text) EXCEPT
        !.proto_state = PhaseAfter(type, @),
        !.startup_seen = @ \/ type = "STARTUP",
        !.auth_state = IF type = "AUTHENTICATION_OK" THEN "DONE" ELSE @]
Ignored(role, m) ==
    \/ m.type \notin DOMAIN EventOf(role)
    \/ ~m.ok /\ m.type \in Strict(role)
HandleMessage(ctx, m) ==
    IF m.type = Startup /\ ctx.role = Server /\ ~ctx.startup_seen THEN Raise(ctx, "STARTUP", m.text)
    ELSE IF Ignored(ctx.role, m) THEN ctx
    ELSE Raise(ctx, EventOf(ctx.role)[m.type], m.text)

\* Mutant: one message per call.
FeedInputOnce(ctx, msgs) == HandleMessage(ctx, msgs[1])

\* pqwire_feed_input with a chunk of whole messages.  A server that waits for
\* its StartupMessage reads a type byte as part of an absurd length: it
\* rejects the message and with it the rest of the buffer.
FeedInput(ctx, msgs) ==
    IF ctx.role = Server /\ ~ctx.startup_seen /\ msgs # <<>> /\ msgs[1].type # Startup
    THEN EnqueueEvent(ctx, "PROTOCOL_ERROR", 0)
    ELSE LET handled[k \in 0 .. Len(msgs)] ==
                 IF k = 0 THEN ctx ELSE HandleMessage(handled[k - 1], msgs[k])
         IN  handled[Len(msgs)]

\* pqwire_next_event: the event as the caller reads it, and the rest.
HasEvent(ctx) == ctx.events # <<>>
ReadEvent(ctx) ==
    LET ev == Head(ctx.events)
    IN  IF ev.type \in ScratchTypes
        THEN [type |-> ev.type, text |-> ctx.scratch[ev.type]]
        ELSE ev
DropEvent(ctx) == [ctx EXCEPT !.events = Tail(@)]

\* Mutant: the bytes that were copied out stay in the buffer.
TakeOutputAgain(ctx, n) == IF n = Len(ctx.output) THEN ctx
                           ELSE [ctx EXCEPT !.output = SubSeq(@, n + 1, Len(@))]

\* pqwire_get_output of the first n messages.
TakeOutput(ctx, n) == [ctx EXCEPT !.output = SubSeq(@, n + 1, Len(@))]

\* Mutant: ReadyForQuery leaves the phase alone.
SendAllSamePhase(ctx, msgs) == [ctx EXCEPT !.output = @ \o msgs]

\* The send helpers (emit_msg), for one message after the other: each appends
\* its message to the output; pqwire_send_ready_for_query first changes the
\* phase.  The output finds memory here: OutputBuffer and Encoders model what
\* is left of a message when it does not.
SendAll(ctx, msgs) ==
    [ctx EXCEPT !.output = @ \o msgs,
                !.proto_state = IF \E k \in DOMAIN msgs : msgs[k].type = "Z"
                                THEN "READY" ELSE @]
Send(ctx, m) == SendAll(ctx, <<m>>)

\* pqwire_start_auth of a client with a password.
StartAuth(ctx) ==
    [ctx EXCEPT !.auth_state = "CLIENT_FIRST",
                !.output = Append(@, Message("p", 0))]

\* Mutant: a reset that keeps the events of the old connection.
ResetKeepingEvents(ctx) ==
    [ctx EXCEPT !.output = <<>>,
                !.auth_state = "NONE",
                !.proto_state = "STARTUP",
                !.startup_seen = FALSE]

\* pqwire_reset; it leaves the scratch strings alone.
Reset(ctx) ==
    [ctx EXCEPT !.events = <<>>,
                !.output = <<>>,
                !.auth_state = "NONE",
                !.proto_state = "STARTUP",
                !.startup_seen = FALSE]

=============================================================================
