----------------------------- MODULE AsrPipeline -----------------------------
(***************************************************************************)
(* One audio source from its blocks to the events on the phone: the worker *)
(* thread (desktop/src/asr/pipeline.py) that cuts the stream into          *)
(* utterances where the voice activity detector says so, and the event     *)
(* loop (services/transcription_service.py), which stores and announces    *)
(* what the worker hands over, restarts the pipeline, and unloads it at    *)
(* shutdown without waiting for the thread.                                *)
(*                                                                         *)
(* Audio is the number of a block, positions and limits are counted in     *)
(* blocks, and recognition says something or nothing.  The components log  *)
(* their errors and return nothing, so no block raises.                    *)
(***************************************************************************)
EXTENDS Naturals, Sequences

CONSTANTS
    Preroll,    \* settings.preroll_ms
    Longest,    \* settings.max_utterance_sec
    Lag,        \* how far back the detector may date the start of speech
    Watched,    \* is a device that delivers nothing noticed (stale_after_sec)?
    MaxBlocks,  \* bound: blocks the device delivers
    MaxUtterances  \* bound: utterances the detector finds

ASSUME AsrPipelineAssumption ==
    /\ Preroll \in Nat
    /\ Longest \in Nat
    /\ Lag \in Nat
    /\ Watched \in BOOLEAN
    /\ MaxBlocks \in Nat
    /\ MaxUtterances \in Nat

VARIABLES
    worker,     \* where the worker thread is
    stop,       \* _stop_event of the pipeline
    loaded,     \* _components is set
    pos,        \* _stream_position_ms
    speech,     \* the detector's _in_speech
    events,     \* the detector's events of the block in hand, not handled yet
    consumed,   \* the block in hand was added to an utterance that ended in it
    open,       \* _utterance, by number; 0: none
    start,      \* its start_position_ms
    preroll,    \* _preroll
    taken,      \* blocks read so far, over all runs; the last one is in hand
    audio,      \* per utterance: the blocks of its buffer
    outcome,    \* per utterance: what became of it
    ready,      \* calls the worker handed to the loop, not begun
    tasks,      \* _handle_final tasks in the order of the lock
    stored,     \* utterances with a row
    failed,     \* utterances whose task gave up (history)
    sent,       \* asr_partial and asr_final events
    closing     \* how far the shutdown is

block     == << pos, speech, events, consumed, start, preroll, taken >>
utterance == << open, audio, outcome >>
thread    == << worker, block, utterance >>
service   == << ready, tasks, stored, failed, sent >>
vars      == << thread, stop, loaded, service, closing >>

-----------------------------------------------------------------------------
Utterances == DOMAIN outcome

Outcomes == {"open", "spoken", "empty", "stalled", "unloaded"}

Call(kind, u) == [kind |-> kind, utterance |-> u]

TypeOK ==
    /\ worker \in { "loading", "idle", "reading", "events", "recognising",
                    "finalising", "ended" }
    /\ stop \in BOOLEAN
    /\ loaded \in BOOLEAN
    /\ pos \in 0..taken
    /\ speech \in BOOLEAN
    /\ events \in Seq({"start", "end"})
    /\ consumed \in BOOLEAN
    /\ open \in 0..Len(outcome)
    /\ start \in 0..MaxBlocks
    /\ preroll \in Seq(1..MaxBlocks) /\ Len(preroll) <= Preroll
    /\ taken \in 0..MaxBlocks
    /\ audio \in Seq(Seq(1..MaxBlocks)) /\ Len(audio) = Len(outcome)
    /\ outcome \in Seq(Outcomes)
    /\ ready \in Seq([kind : {"partial", "final"}, utterance : Utterances])
    /\ tasks \in Seq([utterance : Utterances, at : {"waiting", "inserting", "inserted"},
                      awaited : BOOLEAN])
    /\ stored \subseteq Utterances
    /\ failed \subseteq Utterances
    /\ sent \in Seq([kind : {"partial", "final"}, utterance : Utterances])
    /\ closing \in {"open", "stopping", "waiting", "unloaded", "closed"}

Init ==
    /\ worker = "loading"
    /\ stop = FALSE
    /\ loaded = FALSE
    /\ pos = 0
    /\ speech = FALSE
    /\ events = << >>
    /\ consumed = FALSE
    /\ open = 0
    /\ start = 0
    /\ preroll = << >>
    /\ taken = 0
    /\ audio = << >>
    /\ outcome = << >>
    /\ ready = << >>
    /\ tasks = << >>
    /\ stored = {}
    /\ failed = {}
    /\ sent = << >>
    /\ closing = "open"

Elements(seq) == {seq[k] : k \in DOMAIN seq}

\* Truncated subtraction: max(0, a - b).
Less(a, b) == IF a > b THEN a - b ELSE 0

-----------------------------------------------------------------------------
(* The worker thread.                                                      *)

\* _load_components: recognisers, or none that works.
Load ==
    /\ worker = "loading"
    /\ loaded' = TRUE
    /\ worker' \in {"reading", "idle"}
    /\ UNCHANGED << stop, block, utterance, service, closing >>

\* Without a recogniser the loop only waits for the stop.
IdleEnds ==
    /\ worker = "idle"
    /\ stop
    /\ worker' = "ended"
    /\ UNCHANGED << stop, loaded, block, utterance, service, closing >>

\* What the detector may report for one block (bound: two events).
Reports ==
    {report \in {<< >>, << "start" >>, << "start", "end" >>, << "end" >>, << "end", "start" >>} :
        report # << >> =>
            /\ Head(report) = IF speech THEN "end" ELSE "start"
            /\ report # << "end" >> => Len(outcome) < MaxUtterances}

Last(seq) == seq[Len(seq)]

\* read and the beginning of _process_block.  A block that was read before the
\* stop and finds the components gone is dropped, as if it had not been read.
TakeBlock ==
    /\ worker = "reading"
    /\ ~stop
    /\ taken < MaxBlocks
    /\ worker' = "events"
    /\ taken' = taken + 1
    /\ pos' = pos + 1
    /\ events' \in Reports
    /\ speech' = IF events' = << >> THEN speech ELSE Last(events') = "start"
    /\ UNCHANGED << stop, loaded, consumed, start, preroll, utterance, service, closing >>

\* Seeded fault: the blocks kept from before the speech are kept on.
BeginKeepsPreroll ==
    /\ open' = Len(outcome) + 1
    /\ outcome' = Append(outcome, IF loaded THEN "open" ELSE "unloaded")
    /\ audio' = Append(audio, preroll)
    /\ UNCHANGED preroll
    /\ \E lag \in 0..Lag : start' = Less(Less(pos, 1 + lag), Preroll)

\* _begin_utterance, at the position the detector gives; it takes the preroll.
Begin ==
    /\ open' = Len(outcome) + 1
    /\ outcome' = Append(outcome, IF loaded THEN "open" ELSE "unloaded")
    /\ audio' = Append(audio, preroll)
    /\ preroll' = << >>
    /\ \E lag \in 0..Lag : start' = Less(Less(pos, 1 + lag), Preroll)

StartEvent ==
    /\ worker = "events"
    /\ events # << >> /\ Head(events) = "start"
    /\ events' = Tail(events)
    /\ IF open = 0 THEN Begin ELSE UNCHANGED << utterance, start, preroll >>
    /\ UNCHANGED << worker, stop, loaded, pos, speech, consumed, taken,
                    service, closing >>

\* _accumulate: the block joins the open utterance, which may have a partial
\* text by now (bound: one asr_partial per utterance).
Accumulate ==
    IF loaded /\ ~consumed
      THEN /\ audio' = [audio EXCEPT ![open] = Append(@, taken)]
           /\ LET partial == Call("partial", open)
                  told == Elements(ready) \cup Elements(sent)
              IN  ready' \in {ready} \cup
                             (IF partial \in told THEN {} ELSE {Append(ready, partial)})
      ELSE UNCHANGED << audio, ready >>

\* The first half of _finish_utterance: nothing is open any more, and the
\* utterance, the newest one, is with the recogniser.
ToRecogniser(place) ==
    /\ open' = 0
    /\ start' = 0
    /\ worker' = place

\* An end event: the block counts for the utterance it ends, and only for it.
EndEvent ==
    /\ worker = "events"
    /\ events # << >> /\ Head(events) = "end"
    /\ events' = Tail(events)
    /\ IF open # 0
         THEN /\ Accumulate
              /\ consumed' = TRUE
              /\ IF loaded THEN ToRecogniser("recognising")
                           ELSE UNCHANGED << worker, open, start >>
         ELSE UNCHANGED << audio, ready, consumed, worker, open, start >>
    /\ UNCHANGED << stop, loaded, pos, speech, outcome, preroll, taken,
                    tasks, stored, failed, sent, closing >>

\* The last n elements.
Suffix(seq, n) == SubSeq(seq, Less(Len(seq), n) + 1, Len(seq))

\* Seeded fault: the limit is not looked at.
NeverTooLong == FALSE

\* _maybe_force_finalize
TooLong == pos - start >= Longest

\* The rest of _process_block: the block joins the utterance that is open, which
\* may be too long now, or the preroll.
BlockEnds ==
    /\ worker = "events"
    /\ events = << >>
    /\ \/ /\ open # 0
          /\ Accumulate
          /\ IF loaded /\ TooLong
               THEN ToRecogniser("recognising") /\ consumed' = TRUE
               ELSE /\ worker' = "reading"
                    /\ consumed' = FALSE
                    /\ UNCHANGED << open, start >>
          /\ UNCHANGED preroll
       \/ /\ open = 0
          /\ worker' = "reading"
          /\ preroll' = IF consumed THEN preroll ELSE Suffix(Append(preroll, taken), Preroll)
          /\ consumed' = FALSE
          /\ UNCHANGED << audio, ready, open, start >>
    /\ UNCHANGED << stop, loaded, pos, speech, events, outcome, taken,
                    tasks, stored, failed, sent, closing >>

\* Recognition gives a text, which on_final hands to the loop, or nothing.
Recognised ==
    /\ worker \in {"recognising", "finalising"}
    /\ worker' = IF worker = "finalising" THEN "ended" ELSE "events"
    /\ LET u == Len(outcome)
       IN  \/ /\ outcome' = [outcome EXCEPT ![u] = "spoken"]
              /\ ready' = Append(ready, Call("final", u))
           \/ /\ outcome' = [outcome EXCEPT ![u] = "empty"]
              /\ UNCHANGED ready
    /\ UNCHANGED << stop, loaded, block, open, audio, tasks, stored, failed, sent, closing >>

\* Seeded fault: the worker leaves its loop without a flush.
FlushNothing ==
    /\ worker' = "ended"
    /\ UNCHANGED << speech, open, start >>

\* _flush_open_utterance
FlushOpen ==
    /\ speech' = IF loaded THEN FALSE ELSE speech
    /\ IF loaded /\ open # 0
         THEN ToRecogniser("finalising")
         ELSE worker' = "ended" /\ UNCHANGED << open, start >>

\* The stop is seen at the head of the worker's loop.
Flush ==
    /\ worker = "reading"
    /\ stop
    /\ FlushOpen
    /\ UNCHANGED << stop, loaded, pos, events, consumed, preroll, taken,
                    audio, outcome, service, closing >>

\* The utterance that is open, if any, will not be finished.
Abandon(why) == outcome' = IF open = 0 THEN outcome ELSE [outcome EXCEPT ![open] = why]

\* Seeded fault: the device is only looked at while nobody speaks.
StallInSilence ==
    /\ Watched
    /\ worker = "reading"
    /\ ~stop /\ open = 0
    /\ worker' = "ended"
    /\ UNCHANGED << stop, loaded, block, utterance, service, closing >>

\* check_health: the device has been silent too long, or is gone.
Stall ==
    /\ Watched
    /\ worker = "reading"
    /\ ~stop
    /\ worker' = "ended"
    /\ Abandon("stalled")
    /\ UNCHANGED << stop, loaded, block, open, audio, service, closing >>

-----------------------------------------------------------------------------
(* The event loop.                                                         *)

\* create_pipeline, when the supervisor starts the source again: the old
\* pipeline is released and a new one begins.
Restart ==
    /\ worker = "ended"
    /\ closing = "open"
    /\ worker' = "loading"
    /\ stop' = FALSE
    /\ loaded' = FALSE
    /\ pos' = 0
    /\ speech' = FALSE
    /\ open' = 0
    /\ start' = 0
    /\ preroll' = << >>
    /\ UNCHANGED << events, consumed, taken, audio, outcome, service, closing >>

\* Seeded fault: what arrives after the stop is ignored.
BeginCallWhileOpen ==
    /\ ready # << >>
    /\ ready' = Tail(ready)
    /\ IF closing = "open" /\ Head(ready).kind = "final"
         THEN tasks' = Append(tasks, [utterance |-> Head(ready).utterance,
                                      at |-> "waiting", awaited |-> FALSE])
         ELSE UNCHANGED tasks
    /\ UNCHANGED << thread, stop, loaded, stored, failed, sent, closing >>

\* The first step of the task of a call: emit sends, _handle_final queues for
\* the lock.
BeginCall ==
    /\ ready # << >>
    /\ ready' = Tail(ready)
    /\ IF Head(ready).kind = "partial"
         THEN sent' = Append(sent, Head(ready)) /\ UNCHANGED tasks
         ELSE /\ tasks' = Append(tasks, [utterance |-> Head(ready).utterance,
                                         at |-> "waiting", awaited |-> FALSE])
              /\ UNCHANGED sent
    /\ UNCHANGED << thread, stop, loaded, stored, failed, closing >>

\* Seeded fault: the finals are handled without the lock.
HoldsLockAlways(k) == TRUE

\* _final_lock goes to the first task in its queue.
HoldsLock(k) == k = 1

TakeLock ==
    /\ \E k \in DOMAIN tasks :
          /\ HoldsLock(k)
          /\ tasks[k].at = "waiting"
          /\ tasks' = [tasks EXCEPT ![k].at = "inserting"]
    /\ UNCHANGED << thread, stop, loaded, ready, stored, failed, sent, closing >>

Without(seq, k) == SubSeq(seq, 1, k - 1) \o SubSeq(seq, k + 1, Len(seq))

\* insert_message on its own thread stores the sentence, or raises: the database
\* refuses it, or is closed.
InsertEnds ==
    \E k \in DOMAIN tasks :
        /\ tasks[k].at = "inserting"
        /\ \/ /\ closing # "closed"
              /\ stored' = stored \cup {tasks[k].utterance}
              /\ tasks' = [tasks EXCEPT ![k].at = "inserted"]
              /\ UNCHANGED failed
           \/ /\ failed' = failed \cup {tasks[k].utterance}
              /\ tasks' = Without(tasks, k)
              /\ UNCHANGED stored
        /\ UNCHANGED << thread, stop, loaded, ready, sent, closing >>

\* asr_final, and the lock is free.
Announce ==
    \E k \in DOMAIN tasks :
        /\ tasks[k].at = "inserted"
        /\ sent' = Append(sent, Call("final", tasks[k].utterance))
        /\ tasks' = Without(tasks, k)
        /\ UNCHANGED << thread, stop, loaded, ready, stored, failed, closing >>

-----------------------------------------------------------------------------
(* Shutdown.                                                               *)

\* stop_pipelines, in the second stage.
StopPipelines ==
    /\ closing = "open"
    /\ closing' = "stopping"
    /\ stop' = TRUE
    /\ UNCHANGED << thread, loaded, service >>

\* TranscriptionService.shutdown waits for the tasks there are.
WaitTasks ==
    /\ closing = "stopping"
    /\ closing' = "waiting"
    /\ tasks' = [k \in DOMAIN tasks |-> [tasks[k] EXCEPT !.awaited = TRUE]]
    /\ UNCHANGED << thread, stop, loaded, ready, stored, failed, sent >>

Awaited == {k \in DOMAIN tasks : tasks[k].awaited}

\* unload, whatever the worker is doing.
Unload ==
    /\ loaded' = FALSE
    /\ pos' = 0
    /\ open' = 0
    /\ start' = 0
    /\ preroll' = << >>
    /\ Abandon("unloaded")
    /\ UNCHANGED << worker, stop, speech, events, consumed, taken, audio >>

\* They are done, or the timeout cancels them, the first in the queue: a row
\* that is being inserted may still appear.
WaitEnds ==
    /\ closing = "waiting"
    /\ closing' = "unloaded"
    /\ \E n \in 0..Len(tasks) :
          Awaited = 1..n /\ tasks' = SubSeq(tasks, n + 1, Len(tasks))
    /\ failed' = failed \cup {tasks[k].utterance : k \in Awaited}
    /\ \E late \in SUBSET {tasks[k].utterance : k \in {j \in Awaited : tasks[j].at = "inserting"}} :
          stored' = stored \cup late
    /\ Unload
    /\ UNCHANGED << ready, sent >>

CloseDatabase ==
    /\ closing = "unloaded"
    /\ closing' = "closed"
    /\ UNCHANGED << thread, stop, loaded, service >>

-----------------------------------------------------------------------------
Device == TakeBlock \/ Stall

Work == Load \/ IdleEnds \/ StartEvent \/ EndEvent \/ BlockEnds \/ Recognised \/ Flush

Loop == BeginCall \/ TakeLock \/ Announce

Next ==
    \/ Device \/ Work
    \/ Restart
    \/ Loop \/ InsertEnds
    \/ StopPipelines \/ WaitTasks \/ WaitEnds \/ CloseDatabase

\* The worker and the loop go on, SQLite answers, and a watched device delivers
\* or is found stalled.
Fairness ==
    /\ WF_vars(Work)
    /\ WF_vars(Loop)
    /\ WF_vars(InsertEnds)
    /\ Watched => WF_vars(Device)

Spec == Init /\ [][Next]_vars

FairSpec == Spec /\ Fairness

-----------------------------------------------------------------------------
(* Properties.                                                             *)

\* No block is in two utterances or twice in one, and none is missing in the
\* middle of one: preroll, forced finalize and an end and a start in the same
\* block never share or skip audio.
UtterancesApart ==
    \A u \in Utterances :
        /\ \A k \in 1..Len(audio[u]) - 1 : audio[u][k + 1] = audio[u][k] + 1
        /\ \A v \in 1..u - 1 :
              audio[u] # << >> /\ audio[v] # << >> => Last(audio[v]) < audio[u][1]

\* An utterance with its preroll does not outgrow the limit, wherever the
\* detector dates its start (for a limit above the preroll).
NeverOvergrown == \A u \in Utterances : Len(audio[u]) <= Longest

\* Every utterance is open, with the recogniser, or has an outcome: "so no
\* sentence is lost" (pipeline.py:299) is true unless the device stalls or the
\* pipeline is unloaded under its worker.
SentencesAccounted ==
    \A u \in Utterances : outcome[u] = "open" =>
        /\ u = Len(outcome)
        /\ u = open \/ worker \in {"recognising", "finalising"}
        /\ worker # "ended"

\* The finals come in the order of the utterances, each after it was stored,
\* and no partial text after its final.
EventsInOrder ==
    \A i \in DOMAIN sent : sent[i].kind = "final" =>
        /\ sent[i].utterance \in stored
        /\ \A j \in 1..i - 1 : sent[j].utterance <= sent[i].utterance
                               \/ sent[j].kind = "partial"
        /\ \A j \in i + 1..Len(sent) : sent[j] # Call("partial", sent[i].utterance)

Is(u, what) == u \in Utterances /\ outcome[u] = what

\* An utterance does not stay open: it is finished, by its end or by its
\* length, or lost with the device or the pipeline.
UtterancesEnd == \A u \in 1..MaxUtterances : Is(u, "open") ~> ~Is(u, "open")

\* A sentence that was recognised is sent, or its task gave up.
FinalsArrive == \A u \in 1..MaxUtterances :
    Is(u, "spoken") ~>
        (u \in failed \/ \E k \in DOMAIN sent : sent[k] = Call("final", u))

=============================================================================
