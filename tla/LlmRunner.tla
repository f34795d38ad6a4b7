------------------------------ MODULE LlmRunner ------------------------------
(***************************************************************************)
(* The single-slot answer controller of the desktop program                *)
(* (desktop/src/services/llm_runner.py) together with the code that drives *)
(* it: the relay reader, which dispatches one phone frame at a time and    *)
(* awaits its handler, and the service tasks spawned by the hotkeys and by *)
(* capture_screen, which submit from beside the reader.                    *)
(*                                                                         *)
(* One asyncio loop runs everything, so an action is the code between two  *)
(* suspension points.  Text is abstracted to the index of the provider     *)
(* that produced each delta; llm_stats, which only refreshes a display, is *)
(* part of the delta that triggers it.  Events are recorded as they are    *)
(* handed to the transport; their delivery is not modelled here.           *)
(***************************************************************************)
EXTENDS Naturals, Sequences

CONSTANTS
    PhoneRequests,  \* requests asked by an llm_request frame
    LocalRequests,  \* requests started by a hotkey or a capture task
    Screenshots,    \* the requests whose mode is "screenshot"
    Chain,          \* Chain[r]: number of distinct configured providers for r
    None,           \* no request
    EagerStop,      \* may the phone stop a request it has heard nothing about?
    LossyLink,      \* may the relay connection drop?
    MaxChunks,      \* bound: deltas per request
    MaxStops        \* bound: llm_cancel frames per request

Requests == PhoneRequests \cup LocalRequests

ASSUME LlmRunnerAssumption ==
    /\ PhoneRequests \cap LocalRequests = {}
    /\ Screenshots \subseteq Requests
    /\ Chain \in [Requests -> Nat]
    /\ None \notin Requests
    /\ EagerStop \in BOOLEAN
    /\ LossyLink \in BOOLEAN
    /\ MaxChunks \in Nat
    /\ MaxStops \in Nat

VARIABLES
    inbox,       \* frames the relay delivered and the reader has not dispatched
    stops,       \* llm_cancel frames the phone sent, per request
    reader,      \* what the relay reader is awaiting
    phase,       \* how far each request is
    active,      \* LlmRunner._active (and _task, which is set and cleared with it)
    cancelling,  \* task.cancel() was called on the request's task
    attempt,     \* the provider attempt the request is on
    parts,       \* _AttemptState.parts of that attempt
    chunks,      \* the deltas sent in llm_chunk events
    heard,       \* the last lifecycle event sent for the request
    endings,     \* how many llm_done, llm_error and llm_cancelled were sent
    row,         \* the ai_answers row of the request
    stopped      \* LlmRunner.shutdown has run

vars == << inbox, stops, reader, phase, active, cancelling, attempt, parts,
           chunks, heard, endings, row, stopped >>

phoneVars == << inbox, stops >>
runVars   == << cancelling, attempt, parts, chunks, row >>
eventVars == << heard, endings >>

Frames == [type : {"llm_request", "llm_cancel"}, id : Requests]

Idle == [op |-> "idle", id |-> None]
Readers == {Idle} \cup [op : {"loading", "recording", "cancelling"}, id : Requests]

Phases == { "new", "asked", "loading", "refused", "dropped",
            "scheduled", "streaming", "closing", "over" }

Endings == {"llm_done", "llm_error", "llm_cancelled"}
Events  == {"none", "llm_started"} \cup Endings

\* A row that was never written, and one SQLite refused to store.
NoRow   == [status |-> "none", text |-> << >>]
LostRow == [status |-> "lost", text |-> << >>]
Rows    == [status : {"none", "lost", "done", "error", "cancelled"}, text : Seq(Nat)]

TypeOK ==
    /\ inbox \in Seq(Frames)
    /\ stops \in [Requests -> Nat]
    /\ reader \in Readers
    /\ phase \in [Requests -> Phases]
    /\ active \in Requests \cup {None}
    /\ cancelling \in [Requests -> BOOLEAN]
    /\ attempt \in [Requests -> Nat]
    /\ parts \in [Requests -> Seq(Nat)]
    /\ chunks \in [Requests -> Seq(Nat)]
    /\ heard \in [Requests -> Events]
    /\ endings \in [Requests -> Nat]
    /\ row \in [Requests -> Rows]
    /\ stopped \in BOOLEAN

Init ==
    /\ inbox = << >>
    /\ stops = [r \in Requests |-> 0]
    /\ reader = Idle
    /\ phase = [r \in Requests |-> "new"]
    /\ active = None
    /\ cancelling = [r \in Requests |-> FALSE]
    /\ attempt = [r \in Requests |-> 0]
    /\ parts = [r \in Requests |-> << >>]
    /\ chunks = [r \in Requests |-> << >>]
    /\ heard = [r \in Requests |-> "none"]
    /\ endings = [r \in Requests |-> 0]
    /\ row = [r \in Requests |-> NoRow]
    /\ stopped = FALSE

\* The request's task exists and has not finished.
Live(r) == phase[r] \in {"scheduled", "streaming", "closing"}

\* The task is suspended inside one provider attempt.
Running(r) == phase[r] \in {"streaming", "closing"}

MoveTo(r, p) == phase' = [phase EXCEPT ![r] = p]

\* ServiceBase.emit / LlmRunner._emit: hands the event over, never suspends.
Emit(r, e) ==
    /\ heard' = [heard EXCEPT ![r] = e]
    /\ endings' = IF e \in Endings THEN [endings EXCEPT ![r] = @ + 1] ELSE endings

-----------------------------------------------------------------------------
(* The phone and the connection.                                           *)

\* useStreamingAnswer.start: a fresh request id and one llm_request frame.
PhoneAsk(r) ==
    /\ r \in PhoneRequests
    /\ phase[r] = "new"
    /\ MoveTo(r, "asked")
    /\ inbox' = Append(inbox, [type |-> "llm_request", id |-> r])
    /\ UNCHANGED << stops, reader, active, runVars, eventVars, stopped >>

\* The phone can name a request it asked, or one it received an event about.
PhoneKnows(r) ==
    \/ heard[r] # "none"
    \/ EagerStop /\ r \in PhoneRequests /\ phase[r] # "new"

\* useStreamingAnswer.stop: one llm_cancel frame.
PhoneStop(r) ==
    /\ PhoneKnows(r)
    /\ stops[r] < MaxStops
    /\ stops' = [stops EXCEPT ![r] = @ + 1]
    /\ inbox' = Append(inbox, [type |-> "llm_cancel", id |-> r])
    /\ UNCHANGED << reader, phase, active, runVars, eventVars, stopped >>

\* RelayTransport._session ends: the reader task is cancelled.  A handler that
\* is loading is abandoned without a word; one that waits for a cancelled run
\* absorbs the cancellation together with the run's own and carries on.
LoseConnection ==
    /\ LossyLink
    /\ inbox' = << >>
    /\ IF reader.op = "loading"
         THEN /\ MoveTo(reader.id, "dropped")
              /\ reader' = Idle
         ELSE /\ reader' = IF reader.op = "recording" THEN Idle ELSE reader
              /\ UNCHANGED phase
    /\ inbox # << >> \/ reader.op \in {"loading", "recording"}
    /\ UNCHANGED << stops, active, runVars, eventVars, stopped >>

-----------------------------------------------------------------------------
(* Handlers: the reader awaits each one before it receives the next frame. *)

\* LlmDispatcher.handle_llm_request up to the database lookup it awaits.
DispatchRequest ==
    /\ reader = Idle
    /\ inbox # << >>
    /\ Head(inbox).type = "llm_request"
    /\ inbox' = Tail(inbox)
    /\ reader' = [op |-> "loading", id |-> Head(inbox).id]
    /\ MoveTo(Head(inbox).id, "loading")
    /\ UNCHANGED << stops, active, runVars, eventVars, stopped >>

\* A hotkey (or capture_screen) spawns a task that loads its input.
SpawnLocal(r) ==
    /\ r \in LocalRequests
    /\ phase[r] = "new"
    /\ MoveTo(r, "loading")
    /\ UNCHANGED << phoneVars, reader, active, runVars, eventVars, stopped >>

\* ServiceBase.cancel_tasks, during shutdown, abandons a loading task.
CancelLocal(r) ==
    /\ stopped
    /\ r \in LocalRequests
    /\ phase[r] = "loading"
    /\ MoveTo(r, "dropped")
    /\ UNCHANGED << phoneVars, reader, active, runVars, eventVars, stopped >>

\* What the reader does once the handler of r returns or awaits again.
ReaderAfterLoad(r, next) ==
    reader' = IF reader = [op |-> "loading", id |-> r] THEN next ELSE reader

\* Seeded fault: submit forgets that a request is active.
MaySubmitAnytime(r) == Chain[r] > 0

\* The guard of LlmRunner.submit, evaluated and acted on without suspending.
MaySubmit(r) == active = None /\ Chain[r] > 0

\* LlmRunner.submit: takes the slot and creates the task, or refuses; the
\* caller reports a refusal as llm_error.  A screenshot handler then awaits
\* one more database call before it returns to the reader.
Submit(r) ==
    \/ /\ MaySubmit(r)
       /\ active' = r
       /\ MoveTo(r, "scheduled")
       /\ ReaderAfterLoad(r, IF r \in Screenshots
                               THEN [op |-> "recording", id |-> r] ELSE Idle)
       /\ UNCHANGED eventVars
    \/ /\ ~MaySubmit(r)
       /\ MoveTo(r, "refused")
       /\ Emit(r, "llm_error")
       /\ ReaderAfterLoad(r, Idle)
       /\ UNCHANGED active

\* Seeded fault: the failed lookup is only logged.
FailToLoadSilently(r) ==
    /\ MoveTo(r, "refused")
    /\ ReaderAfterLoad(r, Idle)
    /\ UNCHANGED << active, eventVars >>

\* The input is gone, unreadable or malformed: one llm_error.
FailToLoad(r) ==
    /\ MoveTo(r, "refused")
    /\ Emit(r, "llm_error")
    /\ ReaderAfterLoad(r, Idle)
    /\ UNCHANGED active

\* The database answered; what follows up to the end of submit is one step.
Loaded(r) ==
    /\ phase[r] = "loading"
    /\ Submit(r) \/ FailToLoad(r)
    /\ UNCHANGED << phoneVars, runVars, stopped >>

\* set_screenshot_model returned.  The new task was queued before this await,
\* so it has taken its first step by now.
ModelRecorded ==
    /\ reader.op = "recording"
    /\ phase[reader.id] # "scheduled"
    /\ reader' = Idle
    /\ UNCHANGED << phoneVars, phase, active, runVars, eventVars, stopped >>

\* LlmRunner.cancel honours only the id of the request in the slot.
CancelMatches(r) == active = r

\* handle_llm_cancel: cancels the task in the slot and waits for it.
DispatchCancel ==
    /\ reader = Idle
    /\ inbox # << >>
    /\ Head(inbox).type = "llm_cancel"
    /\ inbox' = Tail(inbox)
    /\ IF CancelMatches(Head(inbox).id)
         THEN /\ reader' = [op |-> "cancelling", id |-> active]
              /\ cancelling' = [cancelling EXCEPT ![active] = TRUE]
         ELSE UNCHANGED << reader, cancelling >>
    /\ UNCHANGED << stops, phase, active, attempt, parts, chunks, row, eventVars, stopped >>

\* Seeded fault: cancel announces the ending without waiting for the task.
CancelReturnsAtOnce(r) == TRUE

\* wait_for(task) returns only when the task is done; then llm_cancelled.
CancelReturns(r) == phase[r] = "over"

CancelDone ==
    /\ reader.op = "cancelling"
    /\ CancelReturns(reader.id)
    /\ Emit(reader.id, "llm_cancelled")
    /\ reader' = Idle
    /\ UNCHANGED << phoneVars, phase, active, runVars, stopped >>

\* LlmRunner.shutdown: cancels the task of the slot and sends nothing.
Shutdown ==
    /\ ~stopped
    /\ stopped' = TRUE
    /\ cancelling' = IF active # None /\ phase[active] # "over"
                       THEN [cancelling EXCEPT ![active] = TRUE] ELSE cancelling
    /\ UNCHANGED << phoneVars, reader, phase, active, attempt, parts, chunks, row, eventVars >>

-----------------------------------------------------------------------------
(* The request's task: LlmRunner._run and _stream_attempt.                 *)

\* The first step of the task: llm_started, then the first provider.
Start(r) ==
    /\ phase[r] = "scheduled"
    /\ ~cancelling[r]
    /\ MoveTo(r, "streaming")
    /\ Emit(r, "llm_started")
    /\ attempt' = [attempt EXCEPT ![r] = 1]
    /\ UNCHANGED << phoneVars, reader, active, cancelling, parts, chunks, row, stopped >>

\* A task cancelled before its first step ends without running any of its
\* body: neither llm_started nor the finally block that clears the slot.
BodySkipped(r) ==
    /\ phase[r] = "scheduled"
    /\ cancelling[r]
    /\ MoveTo(r, "over")
    /\ UNCHANGED << phoneVars, reader, active, runVars, eventVars, stopped >>

\* A delta arrived: kept in parts and sent as llm_chunk in the same step.
Delta(r) ==
    /\ phase[r] = "streaming"
    /\ ~cancelling[r]
    /\ Len(chunks[r]) < MaxChunks
    /\ parts' = [parts EXCEPT ![r] = Append(@, attempt[r])]
    /\ chunks' = [chunks EXCEPT ![r] = Append(@, attempt[r])]
    /\ UNCHANGED << phoneVars, reader, phase, active, cancelling, attempt, row,
                    eventVars, stopped >>

\* Seeded fault: the CancelledError branch leaves the initial status in place.
PersistDefaultStatus(r, status) ==
    \E saved \in {[status |-> IF status = "cancelled" THEN "error" ELSE status,
                   text |-> parts[r]], LostRow} :
        row' = [row EXCEPT ![r] = saved]

\* _persist: writes the row of the last attempt, or logs that it could not.
Persist(r, status) ==
    \E saved \in {[status |-> status, text |-> parts[r]], LostRow} :
        row' = [row EXCEPT ![r] = saved]

\* _clear_active: only the request that holds the slot releases it.
ClearActive(r) == active' = IF active = r THEN None ELSE active

\* Seeded fault: the slot is cleared after the try statement, not in finally.
EndRunKeepsSlot(r, status) ==
    /\ Persist(r, status)
    /\ IF status = "cancelled" THEN UNCHANGED active ELSE ClearActive(r)
    /\ MoveTo(r, "over")
    /\ UNCHANGED << phoneVars, reader, cancelling, attempt, parts, chunks, stopped >>

\* The finally block of _run and the end of the task.
EndRun(r, status) ==
    /\ Persist(r, status)
    /\ ClearActive(r)
    /\ MoveTo(r, "over")
    /\ UNCHANGED << phoneVars, reader, cancelling, attempt, parts, chunks, stopped >>

\* The provider finished the stream.
StreamEnds(r) ==
    /\ phase[r] = "streaming"
    /\ ~cancelling[r]
    /\ EndRun(r, "done")
    /\ Emit(r, "llm_done")

\* Seeded fault: a failed attempt always goes to the backup.
MayAlwaysFallBack(r) == attempt[r] < Chain[r]

\* The next provider is tried only while this one has produced nothing.
MayFallBack(r) == attempt[r] < Chain[r] /\ parts[r] = << >>

\* An attempt raised: the backup provider, or the end of the run.
AttemptFails(r) ==
    \/ /\ MayFallBack(r)
       /\ attempt' = [attempt EXCEPT ![r] = @ + 1]
       /\ parts' = [parts EXCEPT ![r] = << >>]
       /\ MoveTo(r, "streaming")
       /\ UNCHANGED << phoneVars, reader, active, cancelling, chunks, row, eventVars, stopped >>
    \/ /\ ~MayFallBack(r)
       /\ EndRun(r, "error")
       /\ Emit(r, "llm_error")

\* The client could not be built, or the provider failed or broke the stream.
StreamFails(r) ==
    /\ phase[r] = "streaming"
    /\ ~cancelling[r]
    /\ AttemptFails(r)

\* The event budget ran out; the response has to be closed first.
BudgetExpired(r) == phase[r] = "streaming" /\ ~cancelling[r]

Timeout(r) ==
    /\ BudgetExpired(r)
    /\ MoveTo(r, "closing")
    /\ UNCHANGED << phoneVars, reader, active, runVars, eventVars, stopped >>

\* The response of a timed-out attempt is closed: the attempt has failed.
StreamClosed(r) ==
    /\ phase[r] = "closing"
    /\ ~cancelling[r]
    /\ AttemptFails(r)

\* CancelledError unwinds the attempt; it wins over a timeout in progress.
Unwind(r) ==
    /\ Running(r)
    /\ cancelling[r]
    /\ EndRun(r, "cancelled")
    /\ UNCHANGED eventVars

-----------------------------------------------------------------------------
TaskTurn(r) == Start(r) \/ BodySkipped(r) \/ StreamClosed(r) \/ Unwind(r)

ProviderTurn(r) == Delta(r) \/ StreamEnds(r) \/ StreamFails(r)

ReaderTurn == DispatchRequest \/ DispatchCancel \/ CancelDone \/ ModelRecorded

Next ==
    \/ LoseConnection
    \/ Shutdown
    \/ ReaderTurn
    \/ \E r \in Requests :
        \/ PhoneAsk(r)
        \/ PhoneStop(r)
        \/ SpawnLocal(r)
        \/ CancelLocal(r)
        \/ Loaded(r)
        \/ TaskTurn(r)
        \/ ProviderTurn(r)
        \/ Timeout(r)

\* The loop runs every ready task, SQLite answers, and the wall clock passes
\* every deadline.  Nothing is assumed of the provider, the phone or the link.
Fairness ==
    /\ WF_vars(ReaderTurn)
    /\ \A r \in Requests :
        /\ WF_vars(Loaded(r))
        /\ WF_vars(TaskTurn(r))
        /\ WF_vars(Timeout(r))

Spec == Init /\ [][Next]_vars

FairSpec == Spec /\ Fairness

-----------------------------------------------------------------------------
(* Properties.                                                             *)

\* Only one run is ever alive and it is the one in the slot: submit's test of
\* _active, task creation and the finally block never let a second task in.
OneRun == \A r \in Requests : Live(r) => active = r

\* The deltas of an answer come from a single provider (llm_runner.py:79-80: a
\* retry would duplicate text), and a stored row holds exactly the text that
\* was streamed, also after a cancel in mid-answer.
AnswerWhole ==
    \A r \in Requests :
        /\ \A i, j \in DOMAIN chunks[r] : chunks[r][i] = chunks[r][j]
        /\ row[r].status \in {"done", "error", "cancelled"} => row[r].text = chunks[r]

\* Text is sent only between llm_started and the ending of its request.
ChunksWithinRun ==
    [][\A r \in Requests : chunks'[r] # chunks[r] => heard[r] = "llm_started"]_vars

\* Once the phone has been told that a request ended, the slot is free for its
\* next one: no answer to a new question is refused on account of an old one.
SlotReleased == \A r \in Requests : heard[r] \in Endings => active # r

\* A request ends at most once: llm_done, llm_cancelled or llm_error.
OneEnding == \A r \in Requests : endings[r] <= 1

StatusOf(e) == CASE e = "llm_done" -> "done"
                 [] e = "llm_error" -> "error"
                 [] e = "llm_cancelled" -> "cancelled"

\* The ending a run announces is the status its row was stored with before,
\* unless SQLite refused the row (which the code logs and survives).
EndingIsSaved ==
    \A r \in Requests :
        heard[r] \in Endings /\ phase[r] # "refused" =>
            row[r].status \in {StatusOf(heard[r]), "lost"}

\* The connection broke and took the question, or its loading handler, along.
LostWithLink(r) ==
    \/ phase[r] = "dropped"
    \/ phase[r] = "asked" /\ \A k \in DOMAIN inbox :
            inbox[k] # [type |-> "llm_request", id |-> r]

\* Every question of the phone that the connection does not lose gets an ending,
\* however its frames queue up behind cancels and other questions.
EveryQuestionEnds ==
    \A r \in PhoneRequests :
        phase[r] = "asked" ~> (heard[r] \in Endings \/ LostWithLink(r) \/ stopped)

\* What the phone is promised, as a function of this state.
Protocol ==
    INSTANCE AnswerProtocol WITH
        Answers <- Requests,
        Pieces <- UNION {1..Chain[r] : r \in Requests},
        view <- [r \in Requests |->
                    CASE heard[r] = "none" -> "unseen"
                      [] heard[r] = "llm_started" -> "open"
                      [] OTHER -> StatusOf(heard[r])],
        text <- chunks,
        saved <- row

\* The runner implements the protocol it owes the phone.
KeepsProtocol == Protocol!Spec
=============================================================================
