-------------------------- MODULE PipelineRecovery --------------------------
(***************************************************************************)
(* Mid-pipeline recovery (pqwire_pipeline_* in src/src/pqwire.c): a proxy   *)
(* passes every message of its backend to feed_backend_msg until            *)
(* ReadyForQuery, learns whether the pipeline failed, and uses the backend   *)
(* context for the next pipeline without a reset.                           *)
(***************************************************************************)
EXTENDS Context

\* A text that makes its message longer than max_message_size.
Huge == 99

\* pqwire_pipeline_status_t.  (saw_rfq always equals complete; n_msgs is left out.)
ZeroStatus == [saw_error |-> FALSE, complete |-> FALSE, last_error |-> 0]

\* Mutant: the outcome of the last pipeline stays.
StatusInitPartly(st) == [st EXCEPT !.complete = FALSE]

\* pqwire_pipeline_status_init.
StatusInit(st) == ZeroStatus

\* Mutant: a pipeline that failed is never complete.
ObserveMsgUnlessFailed(st, m) ==
    CASE m.type = "E" -> [st EXCEPT !.saw_error = TRUE,
                                    !.last_error = IF m.ok THEN m.text ELSE 0]
      [] m.type = "Z" -> [st EXCEPT !.complete = ~st.saw_error]
      [] OTHER -> st

\* pqwire_pipeline_observe_msg, with parse_error_fields: a body that it cannot
\* read leaves the fields empty.
ObserveMsg(st, m) ==
    CASE m.type = "E" -> [st EXCEPT !.saw_error = TRUE,
                                    !.last_error = IF m.ok THEN m.text ELSE 0]
      [] m.type = "Z" -> [st EXCEPT !.complete = TRUE]
      [] OTHER -> st

\* Mutant: the context is reset for its next pipeline.
NoteReadyByReset(ctx) == [Reset(ctx) EXCEPT !.proto_state = "READY"]

\* pqwire_note_ready.
NoteReady(ctx) == [ctx EXCEPT !.proto_state = "READY"]

\* pqwire_feed_input of a client with one whole message; its realloc may fail,
\* and its result is ignored.
FeedOutcomes(ctx, m) ==
    {ctx,
     IF m.text = Huge THEN EnqueueEvent(ctx, "PROTOCOL_ERROR", 0)
     ELSE HandleMessage(ctx, m)}

\* pqwire_pipeline_feed_backend_msg: the contexts it may leave behind, their
\* events read to the last.
Drained(ctx) == [ctx EXCEPT !.events = <<>>]
FeedBackendMsg(ctx, m) ==
    {IF m.type = "Z" THEN NoteReady(Drained(fed)) ELSE Drained(fed) :
        fed \in FeedOutcomes(ctx, m)}

\* Mutant: the completions are left out when the frontend has none.
FilterBackendTypeInverted(type, skip_parse_bind_complete) ==
    \/ ~skip_parse_bind_complete /\ type \in {"1", "2"}
    \/ type \in {"S", "N", "K"}

\* pqwire_pipeline_filter_backend_type.
FilterBackendType(type, skip_parse_bind_complete) ==
    \/ skip_parse_bind_complete /\ type \in {"1", "2"}
    \/ type \in {"S", "N", "K"}

=============================================================================
