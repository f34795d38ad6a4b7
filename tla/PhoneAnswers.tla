----------------------------- MODULE PhoneAnswers -----------------------------
(***************************************************************************)
(* The answers a phone shows (frontend/hooks/use-streaming-answer.ts)      *)
(* against the desktop that writes them: frames from the phone to the PC,  *)
(* events back, both in order and some of them lost (LossyChannel), and a  *)
(* page whose event handlers compare with what was rendered last.          *)
(*                                                                         *)
(* The desktop is the answer controller as LlmRunner describes it, without *)
(* its tasks: one slot, taken by a question or turned down.  Questions are *)
(* asked on this phone, hotkey requests start at the PC.                   *)
(***************************************************************************)
EXTENDS Naturals, Sequences

CONSTANTS
    Questions,  \* requests asked on the phone
    Hotkeys,    \* requests started at the PC
    None,       \* no request
    MaxDeltas,  \* bound: pieces of text per answer
    MaxLosses   \* bound: frames and events that get lost

Requests == Questions \cup Hotkeys

ASSUME PhoneAnswersAssumption ==
    /\ Questions \cap Hotkeys = {}
    /\ None \notin Requests
    /\ MaxDeltas \in Nat
    /\ MaxLosses \in Nat

VARIABLES
    serving,    \* LlmRunner._active
    outcome,    \* how the desktop ended a request
    written,    \* pieces of text it has sent
    up,         \* frames on their way to the desktop
    down,       \* events on their way to the phone
    status,     \* answers[r].status on the phone
    shown,      \* pieces of text in answers[r].text
    active,     \* activeRequestId, with the updates that wait for a render
    activeRef,  \* activeRequestId as of the last render
    batched,    \* an event was handled before the last one was rendered (history)
    losses      \* frames and events lost so far

desktop == << serving, outcome, written >>
page == << status, shown, active, activeRef >>

vars == << desktop, up, down, page, batched, losses >>

history == << batched, losses >>

-----------------------------------------------------------------------------
Outcomes == {"done", "cancelled", "error"}
Statuses == {"none", "streaming", "done", "stopped", "error"}

Frame(type, r) == [type |-> type, request |-> r]

Frames == {Frame(t, q) : t \in {"request", "cancel"}, q \in Requests}

Events == {Frame(t, r) : t \in {"started", "chunk"} \cup Outcomes, r \in Requests}

TypeOK ==
    /\ serving \in Requests \cup {None}
    /\ outcome \in [Requests -> Outcomes \cup {"none"}]
    /\ written \in [Requests -> 0..MaxDeltas]
    /\ up \in Seq(Frames)
    /\ down \in Seq(Events)
    /\ status \in [Requests -> Statuses]
    /\ shown \in [Requests -> 0..MaxDeltas]
    /\ active \in Requests \cup {None}
    /\ activeRef \in Requests \cup {None}
    /\ batched \in BOOLEAN
    /\ losses \in 0..MaxLosses

Init ==
    /\ serving = None
    /\ outcome = [r \in Requests |-> "none"]
    /\ written = [r \in Requests |-> 0]
    /\ up = << >>
    /\ down = << >>
    /\ status = [r \in Requests |-> "none"]
    /\ shown = [r \in Requests |-> 0]
    /\ active = None
    /\ activeRef = None
    /\ batched = FALSE
    /\ losses = 0

-----------------------------------------------------------------------------
(* The desktop.                                                            *)

\* Seeded fault: a request that finds the slot taken is dropped silently.
SubmitSilently(r) ==
    IF serving = None
      THEN /\ serving' = r
           /\ down' = Append(down, Frame("started", r))
           /\ UNCHANGED << outcome, written >>
      ELSE /\ outcome' = [outcome EXCEPT ![r] = "error"]
           /\ UNCHANGED << serving, written, down >>

\* A request is accepted and announced, or turned down: the slot is taken, or
\* what it asks about cannot be loaded.
Submit(r) ==
    \/ /\ serving = None
       /\ serving' = r
       /\ down' = Append(down, Frame("started", r))
       /\ UNCHANGED << outcome, written >>
    \/ /\ outcome' = [outcome EXCEPT ![r] = "error"]
       /\ down' = Append(down, Frame("error", r))
       /\ UNCHANGED << serving, written >>

ReceiveRequest ==
    /\ up # << >>
    /\ Head(up).type = "request"
    /\ Submit(Head(up).request)
    /\ up' = Tail(up)
    /\ UNCHANGED << page, history >>

PressHotkey(h) ==
    /\ serving # h
    /\ outcome[h] = "none"
    /\ Submit(h)
    /\ UNCHANGED << up, page, history >>

SendDelta ==
    /\ serving # None
    /\ written[serving] < MaxDeltas
    /\ written' = [written EXCEPT ![serving] = @ + 1]
    /\ down' = Append(down, Frame("chunk", serving))
    /\ UNCHANGED << serving, outcome, up, page, history >>

\* A run ends and announces how.
Finish(result) ==
    /\ outcome' = [outcome EXCEPT ![serving] = result]
    /\ down' = Append(down, Frame(result, serving))
    /\ serving' = None
    /\ UNCHANGED written

RunEnds ==
    /\ serving # None
    /\ \E result \in {"done", "error"} : Finish(result)
    /\ UNCHANGED << up, page, history >>

\* llm_cancel stops the run it names and is ignored if there is none.
ReceiveCancel ==
    /\ up # << >>
    /\ Head(up).type = "cancel"
    /\ IF serving = Head(up).request
         THEN Finish("cancelled")
         ELSE UNCHANGED << desktop, down >>
    /\ up' = Tail(up)
    /\ UNCHANGED << page, history >>

-----------------------------------------------------------------------------
(* The phone.                                                              *)

\* start: nothing while a request is active; a click is rendered at once.
Start(q) ==
    /\ status[q] = "none"
    /\ activeRef = None
    /\ status' = [status EXCEPT ![q] = "streaming"]
    /\ active' = q
    /\ activeRef' = q
    /\ up' = Append(up, Frame("request", q))
    /\ UNCHANGED << desktop, down, shown, history >>

\* stop: cancel whatever is active.
PressStop ==
    /\ activeRef # None
    /\ Frame("cancel", activeRef) \notin {up[k] : k \in DOMAIN up}  \* bound
    /\ up' = Append(up, Frame("cancel", activeRef))
    /\ UNCHANGED << desktop, down, page, history >>

\* llm_started opens the answer, or confirms it, and makes it the active one.
OnStarted(r) ==
    /\ status' = [status EXCEPT ![r] = "streaming"]
    /\ active' = r
    /\ UNCHANGED shown

\* Seeded fault: text is shown only for the answer that is active.
OnChunkActive(r) ==
    /\ shown' = IF activeRef = r THEN [shown EXCEPT ![r] = @ + 1] ELSE shown
    /\ UNCHANGED << status, active >>

\* llm_chunk extends an answer the page knows.
OnChunk(r) ==
    /\ shown' = IF status[r] = "none" THEN shown ELSE [shown EXCEPT ![r] = @ + 1]
    /\ UNCHANGED << status, active >>

\* The phone's word for the ending.
StatusOf(result) == IF result = "cancelled" THEN "stopped" ELSE result

\* Seeded fault: only a successful end frees the phone.
OnEndingDoneOnly(r, result) ==
    /\ status' = IF status[r] = "none" THEN status ELSE [status EXCEPT ![r] = StatusOf(result)]
    /\ active' = IF activeRef = r /\ result = "done" THEN None ELSE active
    /\ UNCHANGED shown

\* llm_done, llm_cancelled, llm_error: known answers end, and the phone is free
\* again if the answer is the active one as rendered.
OnEnding(r, result) ==
    /\ status' = IF status[r] = "none" THEN status ELSE [status EXCEPT ![r] = StatusOf(result)]
    /\ active' = IF activeRef = r THEN None ELSE active
    /\ UNCHANGED shown

\* The page handles the next event, before or after it rendered the last one.
HandleEvent ==
    /\ down # << >>
    /\ LET event == Head(down)
       IN  \/ event.type = "started" /\ OnStarted(event.request)
           \/ event.type = "chunk" /\ OnChunk(event.request)
           \/ event.type \in Outcomes /\ OnEnding(event.request, event.type)
    /\ down' = Tail(down)
    /\ batched' = (batched \/ activeRef # active)
    /\ UNCHANGED << desktop, up, activeRef, losses >>

Render ==
    /\ activeRef # active
    /\ activeRef' = active
    /\ UNCHANGED << desktop, up, down, status, shown, active, history >>

-----------------------------------------------------------------------------
(* The way between them.                                                   *)

Without(seq, k) == SubSeq(seq, 1, k - 1) \o SubSeq(seq, k + 1, Len(seq))

\* A frame or event is lost: a socket was down, broke, or a queue was full.
Lose ==
    /\ losses < MaxLosses
    /\ losses' = losses + 1
    /\ \/ /\ \E k \in DOMAIN up : up' = Without(up, k)
          /\ UNCHANGED down
       \/ /\ \E k \in DOMAIN down : down' = Without(down, k)
          /\ UNCHANGED up
    /\ UNCHANGED << desktop, page, batched >>

Desktop == ReceiveRequest \/ ReceiveCancel \/ SendDelta \/ RunEnds

Next ==
    \/ Desktop
    \/ \E h \in Hotkeys : PressHotkey(h)
    \/ \E q \in Questions : Start(q)
    \/ PressStop \/ HandleEvent \/ Render
    \/ Lose

\* Frames and events that are not lost arrive, the page renders, and every run
\* ends (LlmRunner: EveryQuestionEnds).  Nobody has to ask.
Fairness ==
    /\ WF_vars(ReceiveRequest \/ ReceiveCancel)
    /\ WF_vars(RunEnds)
    /\ WF_vars(HandleEvent)
    /\ WF_vars(Render)

Spec == Init /\ [][Next]_vars

FairSpec == Spec /\ Fairness

-----------------------------------------------------------------------------
(* Properties.                                                             *)

\* Nothing is on its way and the desktop serves nobody.
Quiet ==
    /\ up = << >> /\ down = << >>
    /\ serving = None
    /\ active = activeRef

\* start is refused only while something is in flight: a phone that has been
\* told everything can ask again (use-streaming-answer.ts:26), as long as every
\* event was rendered before the next one came.  When the start and the ending of
\* a hotkey answer are handled before a render, it is refused for good.
FreeWhenQuiet == Quiet /\ losses = 0 /\ ~batched => activeRef = None

\* Then it also shows every answer it knows as the desktop ended it, with all
\* its text, whatever was stopped, refused, or crossed by a hotkey, and however
\* the events were batched.
AnswersAgree ==
    Quiet /\ losses = 0 => \A r \in Requests :
        status[r] # "none" => status[r] = StatusOf(outcome[r]) /\ shown[r] = written[r]

\* No answer stays open on the phone, unless a frame or an event was lost: the
\* desktop answers every question, and stops what it is told to stop.
EveryAnswerEnds ==
    \A r \in Requests : status[r] = "streaming" ~> status[r] # "streaming" \/ losses > 0
=============================================================================
