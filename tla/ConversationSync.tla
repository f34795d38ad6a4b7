--------------------------- MODULE ConversationSync ---------------------------
(***************************************************************************)
(* The conversation: the sentences the recognisers finish, their rows and  *)
(* answers in SQLite, and the bubbles on the phone                         *)
(* (services/transcription_service.py, history_service.py,                 *)
(* storage/sqlite.py; hooks/use-realtime-conversation.ts).                 *)
(*                                                                         *)
(* Partials and finals come from the recognisers' threads; a clear, a      *)
(* history and a question are handlers of the reader of the connection,    *)
(* and each of their database calls runs in a thread, which outlives the   *)
(* handler when the connection ends.  AsrPipeline makes the sentences,     *)
(* LlmRunner the answers.                                                  *)
(***************************************************************************)
EXTENDS Naturals, Sequences, FiniteSets

CONSTANTS
    Sentences,  \* the utterances of a run
    MaxPresses, \* bound: clears and questions of the user
    MaxCuts     \* bound: connections lost, and crashes

ASSUME ConversationSyncAssumption == MaxPresses \in Nat /\ MaxCuts \in Nat

VARIABLES
    talk,    \* per sentence: how far it is
    finals,  \* finished sentences, in the order of the lock
    rows,    \* the rows of messages
    asked,   \* sentences an answer is being written to
    answers, \* sentences with a row in ai_answers
    reader,  \* the statement the reader waits for
    stray,   \* the one a cancelled handler left in its thread
    link,    \* up, or the side that has lost its connection to the relay
    up,      \* commands on their way to the PC
    down,    \* events on their way to the phone
    page,    \* per sentence: its bubbles on the phone
    presses, cuts,
    missed,  \* sentences whose final was lost, refused or empty (history)
    stale,   \* sentences the phone was bound to show without a row (history)
    doubled, \* sentences a history named before their final came (history)
    late     \* answers that a clear was bound to leave behind (history)

speech  == << talk, finals >>
store   == << rows, answers >>
channel == << link, up, down >>
bounds  == << presses, cuts >>
history == << missed, stale, doubled, late >>

vars == << speech, store, asked, reader, stray, channel, page, bounds, history >>

-----------------------------------------------------------------------------
\* A bubble of an utterance, heard or final, and one made from a history.
Bubbles == {"heard", "final", "copy"}

Kept(s) == page[s] \cap {"final", "copy"} # {}

Item(type, about) == [type |-> type, about |-> about]

TypeOK ==
    /\ talk \in [Sentences -> {"new", "heard", "queued", "stored", "over"}]
    /\ finals \in Seq(Sentences)
    /\ rows \subseteq Sentences /\ asked \subseteq Sentences /\ answers \subseteq Sentences
    /\ reader \in {"none", "query", "wipe", "answers"}
    /\ stray \in {"none", "query", "wipe", "answers"}
    /\ link \in {"up", "phone", "pc"}
    /\ up \in Seq([type : {"clear", "history", "ask"}, about : SUBSET Sentences])
    /\ down \in Seq([type : {"partial", "final", "history", "cleared"}, about : SUBSET Sentences])
    /\ page \in [Sentences -> SUBSET Bubbles]
    /\ presses \in 0..MaxPresses /\ cuts \in 0..MaxCuts
    /\ \A names \in {missed, stale, doubled, late} : names \subseteq Sentences

Init ==
    /\ talk = [s \in Sentences |-> "new"]
    /\ finals = << >>
    /\ rows = {} /\ asked = {} /\ answers = {}
    /\ reader = "none" /\ stray = "none"
    /\ link = "up"
    /\ up = << >> /\ down = << >>
    /\ page = [s \in Sentences |-> {}]
    /\ presses = 0 /\ cuts = 0
    /\ missed = {} /\ stale = {} /\ doubled = {} /\ late = {}

\* ServiceBase.emit: an event is dropped while either side is away.
Emit(type, about) ==
    down' = IF link = "up" THEN Append(down, Item(type, about)) ELSE down

-----------------------------------------------------------------------------
(* Sentences.                                                              *)

\* on_partial.
Hear(s) ==
    /\ talk[s] = "new"
    /\ talk' = [talk EXCEPT ![s] = "heard"]
    /\ Emit("partial", {s})
    /\ UNCHANGED << finals, store, asked, reader, stray, link, up, page, bounds, history >>

\* on_final: an empty text ends here; the phone is not told.
Finish(s) ==
    /\ talk[s] \in {"new", "heard"}
    /\ \/ /\ talk' = [talk EXCEPT ![s] = "queued"]
          /\ finals' = Append(finals, s)
          /\ UNCHANGED missed
       \/ /\ talk' = [talk EXCEPT ![s] = "over"]
          /\ missed' = missed \cup {s}
          /\ UNCHANGED finals
    /\ UNCHANGED << store, asked, reader, stray, channel, page, bounds, stale, doubled, late >>

\* _handle_final, under its lock: insert_message finds the row of the utterance
\* or makes one.  Between the two statements of a clear, the clear is going to
\* take it off the phone.
Store ==
    /\ finals # << >>
    /\ talk[Head(finals)] = "queued"
    /\ rows' = rows \cup {Head(finals)}
    /\ talk' = [talk EXCEPT ![Head(finals)] = "stored"]
    /\ missed' = IF reader = "answers" THEN missed \cup {Head(finals)} ELSE missed
    /\ UNCHANGED << finals, answers, asked, reader, stray, channel, page, bounds, stale, doubled, late >>

\* Seeded fault: a sentence that SQLite refuses is announced all the same.
RefuseLoudly ==
    /\ finals # << >>
    /\ talk[Head(finals)] = "queued"
    /\ talk' = [talk EXCEPT ![Head(finals)] = "stored"]
    /\ UNCHANGED << finals, store, asked, reader, stray, channel, page, bounds, history >>

\* SQLite refuses the row: the sentence is given up.
Refuse ==
    /\ finals # << >>
    /\ talk[Head(finals)] = "queued"
    /\ talk' = [talk EXCEPT ![Head(finals)] = "over"]
    /\ finals' = Tail(finals)
    /\ missed' = missed \cup {Head(finals)}
    /\ UNCHANGED << store, asked, reader, stray, channel, page, bounds, stale, doubled, late >>

\* asr_final.
Announce ==
    /\ finals # << >>
    /\ LET s == Head(finals)
       IN  /\ talk[s] = "stored"
           /\ talk' = [talk EXCEPT ![s] = "over"]
           /\ Emit("final", {s})
           /\ missed' = IF link = "up" THEN missed ELSE missed \cup {s}
    /\ finals' = Tail(finals)
    /\ UNCHANGED << store, asked, reader, stray, link, up, page, bounds, stale, doubled, late >>

-----------------------------------------------------------------------------
(* The handlers.                                                           *)

\* _dispatch.  A question finds its sentence by context_window, or is refused.
Dispatch ==
    /\ reader = "none"
    /\ link # "pc"
    /\ up # << >>
    /\ up' = Tail(up)
    /\ LET item == Head(up)
       IN  /\ reader' = CASE item.type = "clear"   -> "wipe"
                          [] item.type = "history" -> "query"
                          [] item.type = "ask"     -> "none"
           /\ asked' = IF item.type = "ask" THEN asked \cup (item.about \cap rows) ELSE asked
    /\ UNCHANGED << speech, store, stray, link, down, page, bounds, history >>

\* One statement, under the lock of the database: clear_messages, then
\* clear_ai_answers("conversation"); history_payload only reads.
Work(statement) ==
    /\ rows' = IF statement = "wipe" THEN {} ELSE rows
    /\ answers' = IF statement = "answers" THEN {} ELSE answers

\* History: a sentence whose row goes before it is announced, and all that have
\* no row when a clear ends that nobody hears of; the answers a clear lets through.
Rowless == {s \in Sentences \ rows : talk[s] \in {"stored", "over"}}

StaleBy(statement, last) ==
    UNION { IF statement = "wipe" THEN {s \in rows : talk[s] = "stored"} ELSE {},
            IF last /\ statement \in {"wipe", "answers"} THEN Rowless' ELSE {} }

LateBy(statement, last) ==
    UNION { IF statement = "wipe" THEN asked ELSE {},
            IF statement = "wipe" /\ last THEN answers ELSE {} }

\* recent_messages: the final rows, here never more than its limit.
Recent == rows

\* Seeded fault: the answers go before the messages.
HandlerStepBackwards ==
    /\ reader # "none"
    /\ rows' = IF reader = "answers" THEN {} ELSE rows
    /\ answers' = IF reader = "wipe" THEN {} ELSE answers
    /\ reader' = IF reader = "wipe" THEN "answers" ELSE "none"
    /\ late' = IF reader = "answers" THEN late \cup asked ELSE late
    /\ IF reader = "answers" THEN Emit("cleared", {}) ELSE UNCHANGED down
    /\ UNCHANGED << speech, asked, stray, link, up, page, bounds, missed, stale, doubled >>

\* handle_conversation_clear and handle_history_sync_request: the reply is sent
\* when the last statement is done.
HandlerStep ==
    /\ reader # "none"
    /\ Work(reader)
    /\ UNCHANGED talk
    /\ reader' = IF reader = "wipe" THEN "answers" ELSE "none"
    /\ CASE reader = "wipe"    -> UNCHANGED down
         [] reader = "answers" -> Emit("cleared", {})
         [] reader = "query"   -> Emit("history", Recent)
    /\ stale' = stale \cup StaleBy(reader, reader = "answers" /\ link # "up")
    /\ late' = late \cup LateBy(reader, FALSE)
    /\ UNCHANGED << finals, asked, stray, link, up, page, bounds, missed, doubled >>

\* A statement is refused: the phone gets an error and nothing else happens.
HandlerFails ==
    /\ reader # "none"
    /\ reader' = "none"
    /\ stale' = IF reader = "answers" THEN stale \cup Rowless ELSE stale
    /\ late' = IF reader = "answers" THEN late \cup answers ELSE late
    /\ UNCHANGED << speech, store, asked, stray, channel, page, bounds, missed, doubled >>

\* The thread of a handler that is gone ends its statement.
StrayStep ==
    /\ stray # "none"
    /\ Work(stray)
    /\ stray' = "none"
    /\ UNCHANGED talk
    /\ stale' = stale \cup StaleBy(stray, TRUE)
    /\ late' = late \cup LateBy(stray, TRUE)
    /\ UNCHANGED << finals, asked, reader, channel, page, bounds, missed, doubled >>

\* insert_ai_answer, or not, when the answer ends.
SaveAnswer(s) ==
    /\ s \in asked
    /\ asked' = asked \ {s}
    /\ answers' \in {answers, answers \cup {s}}
    /\ UNCHANGED << speech, rows, reader, stray, channel, page, bounds, history >>

-----------------------------------------------------------------------------
(* The phone.                                                              *)

Send(type, about) ==
    /\ presses < MaxPresses
    /\ presses' = presses + 1
    /\ link = "up"
    /\ up' = Append(up, Item(type, about))
    /\ UNCHANGED << speech, store, asked, reader, stray, link, down, page, cuts, history >>

\* Only a final bubble has the message id a question needs.
Ask(s) == Kept(s) /\ Send("ask", {s})

PressClear == Send("clear", {})

\* Seeded fault: a final is not looked up by its message id.
AfterFinalAppended(bubbles) == (bubbles \ {"heard"}) \cup {"final"}

\* asr_final: the bubble of the utterance becomes final; without one, a bubble
\* is made unless the message is shown.
AfterFinal(bubbles) ==
    IF bubbles = {"copy"} THEN bubbles ELSE (bubbles \ {"heard"}) \cup {"final"}

\* asr_partial: changes the bubble of its utterance, or makes one.
AfterPartial(bubbles) ==
    IF "final" \in bubbles THEN bubbles ELSE bubbles \cup {"heard"}

\* history_sync_response: the messages whose id no bubble has are added.
AfterHistory(bubbles) ==
    IF bubbles \subseteq {"heard"} THEN bubbles \cup {"copy"} ELSE bubbles

Deliver ==
    /\ link # "phone"
    /\ down # << >>
    /\ LET event == Head(down)
           On(bubbles) == CASE event.type = "partial" -> AfterPartial(bubbles)
                            [] event.type = "final"   -> AfterFinal(bubbles)
                            [] event.type = "history" -> AfterHistory(bubbles)
       IN  /\ page' = IF event.type = "cleared"
                        THEN [s \in Sentences |-> {}]
                        ELSE [s \in Sentences |->
                                 IF s \in event.about THEN On(page[s]) ELSE page[s]]
           /\ doubled' = IF event.type = "history"
                           THEN doubled \cup {s \in event.about : page[s] = {"heard"}}
                           ELSE doubled
    /\ down' = Tail(down)
    /\ UNCHANGED << speech, store, asked, reader, stray, link, up, bounds, missed, stale, late >>

-----------------------------------------------------------------------------
(* Lost connections and crashes.                                           *)

DropDown(gone) ==
    LET Lost(type) == {i \in DOMAIN down : gone /\ down[i].type = type}
    IN  /\ down' = IF gone THEN << >> ELSE down
        /\ missed' = missed \cup UNION {down[i].about : i \in Lost("final")}
        /\ stale' = IF Lost("cleared") # {} THEN stale \cup Rowless ELSE stale

CutPhone ==
    /\ link = "up"
    /\ cuts < MaxCuts
    /\ cuts' = cuts + 1
    /\ link' = "phone"
    /\ up' \in {up, << >>}
    /\ DropDown(TRUE)
    /\ UNCHANGED << speech, store, asked, reader, stray, page, presses, doubled, late >>

\* _session cancels the reader and with it the handler it is in.
CutPc ==
    /\ link = "up"
    /\ cuts < MaxCuts
    /\ cuts' = cuts + 1
    /\ link' = "pc"
    /\ up' = << >>
    /\ reader' = "none"
    /\ stray' = reader
    /\ \E gone \in BOOLEAN : DropDown(gone)
    /\ UNCHANGED << speech, store, asked, page, presses, doubled, late >>

\* The program dies; when it is back it has what is on the disk.
Crash ==
    /\ cuts < MaxCuts
    /\ cuts' = cuts + 1
    /\ link' = "pc"
    /\ up' = << >>
    /\ reader' = "none" /\ stray' = "none"
    /\ talk' = [s \in Sentences |-> IF talk[s] = "new" THEN "new" ELSE "over"]
    /\ finals' = << >>
    /\ asked' = {}
    /\ missed' = missed \cup {s \in Sentences : talk[s] \in {"heard", "queued", "stored"}}
    /\ stale' = IF "answers" \in {reader, stray} THEN stale \cup Rowless ELSE stale
    /\ late' = IF "answers" \in {reader, stray} THEN late \cup answers ELSE late
    /\ UNCHANGED << store, down, page, presses, doubled >>

\* The phone asks for the history after its own auth_ok, not when the PC is
\* back.  A reconnection takes a second or more, the rest of a call much less.
Rejoin ==
    /\ link # "up"
    /\ stray = "none"
    /\ link' = "up"
    /\ up' = IF link = "phone" THEN Append(up, Item("history", {})) ELSE up
    /\ UNCHANGED << speech, store, asked, reader, stray, down, page, bounds, history >>

-----------------------------------------------------------------------------
Next ==
    \/ \E s \in Sentences : Hear(s) \/ Finish(s) \/ SaveAnswer(s) \/ Ask(s)
    \/ Store \/ Refuse \/ Announce
    \/ Dispatch \/ HandlerStep \/ HandlerFails \/ StrayStep
    \/ PressClear \/ Deliver
    \/ CutPhone \/ CutPc \/ Crash \/ Rejoin

Spec == Init /\ [][Next]_vars

-----------------------------------------------------------------------------
(* Properties.                                                             *)

\* Nothing is under way.
Settled ==
    /\ \A s \in Sentences : talk[s] \in {"new", "over"}
    /\ reader = "none" /\ stray = "none"
    /\ link = "up" /\ up = << >> /\ down = << >>

\* When nothing is under way the phone shows the stored conversation.  It may
\* lack a sentence whose final was lost, or stored before and shown after a
\* clear; it may show, and ask about in vain, one that was cleared before it was
\* announced or by a clear nobody heard of; a bubble stays open for ever only
\* when its final was lost, refused or empty.
PhoneFollowsStore ==
    Settled => \A s \in Sentences :
                  /\ s \in rows => Kept(s) \/ s \in missed
                  /\ Kept(s) => s \in rows \cup stale
                  /\ "heard" \in page[s] => s \in missed

\* Whatever histories, finals and reconnections come together, a sentence is shown
\* twice for one cause only: a history named it while its bubble was still open.
OnlyHistoriesDouble == \A s \in Sentences : Cardinality(page[s]) > 1 => s \in doubled

\* A history "merges without duplicates" (use-realtime-conversation.ts:13).
ShownOnce == \A s \in Sentences : Cardinality(page[s]) <= 1

\* Between two clears an answer is never stored without its sentence, unless it
\* was being written when the sentence was cleared or the clear was cut off.
AnswersHaveSentences ==
    reader = "none" /\ stray = "none" => answers \subseteq rows \cup late
=============================================================================
