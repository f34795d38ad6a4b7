--------------------------- MODULE LlmRunnerProofs ---------------------------
(***************************************************************************)
(* Proofs about LlmRunner, for every set of requests, every provider chain *)
(* and every bound: type correctness, then the inductive invariant that    *)
(* gives the single run and the whole answer, how a run ends, that the     *)
(* runner implements AnswerProtocol, and what the endings promise a phone  *)
(* that stops only what it was told of.                                    *)
(***************************************************************************)
EXTENDS LlmRunner, TLAPS

-----------------------------------------------------------------------------
(* Type correctness.                                                       *)

LEMMA NoRowType == NoRow \in Rows
BY DEF NoRow, Rows

LEMMA InitTypeOK == Init => TypeOK
<1> SUFFICES ASSUME Init PROVE TypeOK
  OBVIOUS
<1>1. inbox \in Seq(Frames) /\ stops \in [Requests -> Nat] /\ reader \in Readers
  BY DEF Init, Readers
<1>2. /\ phase \in [Requests -> Phases]
      /\ active \in Requests \cup {None}
      /\ cancelling \in [Requests -> BOOLEAN]
  BY DEF Init, Phases
<1>3. /\ attempt \in [Requests -> Nat]
      /\ parts \in [Requests -> Seq(Nat)]
      /\ chunks \in [Requests -> Seq(Nat)]
  BY DEF Init
<1>4. /\ heard \in [Requests -> Events]
      /\ endings \in [Requests -> Nat]
      /\ stopped \in BOOLEAN
  BY DEF Init, Events
<1>5. row \in [Requests -> Rows]
  BY NoRowType DEF Init
<1>6. QED
  BY <1>1, <1>2, <1>3, <1>4, <1>5 DEF TypeOK

LEMMA MoveToType ==
    ASSUME TypeOK, NEW r \in Requests, NEW p \in Phases, MoveTo(r, p)
    PROVE  phase' \in [Requests -> Phases]
BY DEF TypeOK, MoveTo

LEMMA EmitType ==
    ASSUME TypeOK, NEW r \in Requests, NEW e \in Events, Emit(r, e)
    PROVE  heard' \in [Requests -> Events] /\ endings' \in [Requests -> Nat]
BY SMTT(30) DEF TypeOK, Emit

LEMMA PersistType ==
    ASSUME TypeOK, NEW r \in Requests, NEW s \in {"done", "error", "cancelled"},
           Persist(r, s)
    PROVE  row' \in [Requests -> Rows]
<1>1. parts[r] \in Seq(Nat) /\ row \in [Requests -> Rows]
  BY DEF TypeOK
<1>2. [status |-> s, text |-> parts[r]] \in Rows /\ LostRow \in Rows
  BY <1>1 DEF Rows, LostRow
<1>3. PICK v \in {[status |-> s, text |-> parts[r]], LostRow} :
          row' = [row EXCEPT ![r] = v]
  BY DEF Persist
<1>4. v \in Rows
  BY <1>2, <1>3
<1>5. QED
  BY <1>1, <1>3, <1>4

LEMMA EndRunType ==
    ASSUME TypeOK, NEW r \in Requests, NEW s \in {"done", "error", "cancelled"},
           EndRun(r, s), heard' \in [Requests -> Events], endings' \in [Requests -> Nat]
    PROVE  TypeOK'
<1>1. row' \in [Requests -> Rows]
  BY PersistType DEF EndRun
<1>2. phase' \in [Requests -> Phases]
  BY MoveToType DEF EndRun, Phases
<1>3. active' \in Requests \cup {None}
  BY DEF EndRun, ClearActive, TypeOK
<1>4. QED
  BY <1>1, <1>2, <1>3 DEF TypeOK, EndRun, phoneVars

LEMMA HeadType ==
    ASSUME TypeOK, inbox # << >>
    PROVE  Head(inbox) \in Frames /\ Head(inbox).id \in Requests /\ Tail(inbox) \in Seq(Frames)
<1>1. inbox \in Seq(Frames) /\ inbox # << >>
  BY DEF TypeOK
<1>2. Head(inbox) \in Frames /\ Tail(inbox) \in Seq(Frames)
  BY <1>1
<1>3. QED
  BY <1>2 DEF Frames

LEMMA AttemptFailsType ==
    ASSUME TypeOK, NEW r \in Requests, AttemptFails(r) PROVE TypeOK'
<1>1. CASE MayFallBack(r)
  <2>1. attempt \in [Requests -> Nat] /\ parts \in [Requests -> Seq(Nat)]
    BY DEF TypeOK
  <2>2. attempt' \in [Requests -> Nat]
    BY <1>1, <2>1 DEF AttemptFails
  <2>3. parts' \in [Requests -> Seq(Nat)]
    <3>1. << >> \in Seq(Nat)
      OBVIOUS
    <3>2. parts' = [parts EXCEPT ![r] = << >>]
      BY <1>1 DEF AttemptFails
    <3>3. QED
      BY <2>1, <3>1, <3>2
  <2>4. phase' \in [Requests -> Phases]
    BY <1>1, MoveToType DEF AttemptFails, Phases
  <2>5. QED
    BY <1>1, <2>2, <2>3, <2>4 DEF TypeOK, AttemptFails, phoneVars, eventVars
<1>2. CASE ~MayFallBack(r)
  <2>1. EndRun(r, "error") /\ Emit(r, "llm_error")
    BY <1>2 DEF AttemptFails
  <2>2. heard' \in [Requests -> Events] /\ endings' \in [Requests -> Nat]
    BY <2>1, EmitType DEF Events, Endings
  <2>3. QED
    BY <2>1, <2>2, EndRunType
<1>3. QED
  BY <1>1, <1>2

LEMMA LoadedType ==
    ASSUME TypeOK, NEW r \in Requests, Loaded(r) PROVE TypeOK'
<1>1. phase' \in [Requests -> Phases]
  BY MoveToType DEF Loaded, Submit, FailToLoad, Phases
<1>2. heard' \in [Requests -> Events] /\ endings' \in [Requests -> Nat]
  <2>1. CASE Emit(r, "llm_error")
    BY <2>1, EmitType DEF Events, Endings
  <2>2. CASE UNCHANGED eventVars
    BY <2>2 DEF TypeOK, eventVars
  <2>3. QED
    BY <2>1, <2>2 DEF Loaded, Submit, FailToLoad
<1>3. reader' \in Readers
  BY DEF Loaded, Submit, FailToLoad, ReaderAfterLoad, TypeOK, Readers
<1>4. active' \in Requests \cup {None}
  BY DEF Loaded, Submit, FailToLoad, TypeOK
<1>5. QED
  BY <1>1, <1>2, <1>3, <1>4 DEF TypeOK, Loaded, phoneVars, runVars

LEMMA ReaderTurnType == ASSUME TypeOK, ReaderTurn PROVE TypeOK'
<1>1. CASE DispatchRequest
  <2>1. inbox' \in Seq(Frames) /\ Head(inbox).id \in Requests
    BY <1>1, HeadType DEF DispatchRequest
  <2>2. phase' \in [Requests -> Phases]
    BY <1>1, <2>1, MoveToType DEF DispatchRequest, Phases
  <2>3. reader' \in Readers
    BY <1>1, <2>1 DEF DispatchRequest, Readers
  <2>4. QED
    BY <1>1, <2>1, <2>2, <2>3 DEF TypeOK, DispatchRequest, runVars, eventVars
<1>2. CASE DispatchCancel
  <2>1. inbox' \in Seq(Frames) /\ Head(inbox).id \in Requests
    BY <1>2, HeadType DEF DispatchCancel
  <2>2. reader' \in Readers
    BY <1>2, <2>1 DEF TypeOK, DispatchCancel, CancelMatches, Readers
  <2>3. cancelling' \in [Requests -> BOOLEAN]
    BY <1>2, <2>1 DEF TypeOK, DispatchCancel, CancelMatches
  <2>4. QED
    BY <1>2, <2>1, <2>2, <2>3 DEF TypeOK, DispatchCancel, eventVars
<1>3. CASE CancelDone
  <2>1. reader.id \in Requests
    BY <1>3 DEF TypeOK, CancelDone, Readers, Idle
  <2>2. heard' \in [Requests -> Events] /\ endings' \in [Requests -> Nat]
    BY <1>3, <2>1, EmitType DEF CancelDone, Events, Endings
  <2>3. QED
    BY <1>3, <2>2 DEF TypeOK, CancelDone, phoneVars, runVars, Readers
<1>4. CASE ModelRecorded
  BY <1>4 DEF TypeOK, ModelRecorded, phoneVars, runVars, eventVars, Readers
<1>5. QED
  BY <1>1, <1>2, <1>3, <1>4 DEF ReaderTurn

LEMMA TaskTurnType ==
    ASSUME TypeOK, NEW r \in Requests, TaskTurn(r) PROVE TypeOK'
<1>1. CASE Start(r)
  <2>1. phase' \in [Requests -> Phases]
    BY <1>1, MoveToType DEF Start, Phases
  <2>2. heard' \in [Requests -> Events] /\ endings' \in [Requests -> Nat]
    BY <1>1, EmitType DEF Start, Events
  <2>3. attempt' \in [Requests -> Nat]
    BY <1>1 DEF TypeOK, Start
  <2>4. QED
    BY <1>1, <2>1, <2>2, <2>3 DEF TypeOK, Start, phoneVars
<1>2. CASE BodySkipped(r)
  <2>1. phase' \in [Requests -> Phases]
    BY <1>2, MoveToType DEF BodySkipped, Phases
  <2>2. QED
    BY <1>2, <2>1 DEF TypeOK, BodySkipped, phoneVars, runVars, eventVars
<1>3. CASE StreamClosed(r)
  BY <1>3, AttemptFailsType DEF StreamClosed
<1>4. CASE Unwind(r)
  <2>1. heard' \in [Requests -> Events] /\ endings' \in [Requests -> Nat]
    BY <1>4 DEF TypeOK, Unwind, eventVars
  <2>2. QED
    BY <1>4, <2>1, EndRunType DEF Unwind
<1>5. QED
  BY <1>1, <1>2, <1>3, <1>4 DEF TaskTurn

LEMMA ProviderTurnType ==
    ASSUME TypeOK, NEW r \in Requests, ProviderTurn(r) PROVE TypeOK'
<1>1. CASE Delta(r)
  <2>1. /\ parts \in [Requests -> Seq(Nat)]
        /\ chunks \in [Requests -> Seq(Nat)]
        /\ attempt \in [Requests -> Nat]
    BY DEF TypeOK
  <2>2. parts' \in [Requests -> Seq(Nat)]
    BY <1>1, <2>1 DEF Delta
  <2>3. chunks' \in [Requests -> Seq(Nat)]
    BY <1>1, <2>1 DEF Delta
  <2>4. QED
    BY <1>1, <2>2, <2>3 DEF TypeOK, Delta, phoneVars, eventVars
<1>2. CASE StreamEnds(r)
  BY <1>2, EmitType, EndRunType DEF StreamEnds, Events, Endings
<1>3. CASE StreamFails(r)
  BY <1>3, AttemptFailsType DEF StreamFails
<1>4. QED
  BY <1>1, <1>2, <1>3 DEF ProviderTurn

LEMMA PhoneTurnType ==
    ASSUME TypeOK, NEW r \in Requests, PhoneAsk(r) \/ PhoneStop(r) PROVE TypeOK'
<1>1. CASE PhoneAsk(r)
  <2>1. inbox' \in Seq(Frames)
    BY <1>1 DEF TypeOK, PhoneAsk, Frames
  <2>2. phase' \in [Requests -> Phases]
    BY <1>1, MoveToType DEF PhoneAsk, Phases
  <2>3. QED
    BY <1>1, <2>1, <2>2 DEF TypeOK, PhoneAsk, runVars, eventVars
<1>2. CASE PhoneStop(r)
  <2>1. inbox' \in Seq(Frames)
    BY <1>2 DEF TypeOK, PhoneStop, Frames
  <2>2. stops' \in [Requests -> Nat]
    BY <1>2, SMTT(30) DEF TypeOK, PhoneStop
  <2>3. QED
    BY <1>2, <2>1, <2>2 DEF TypeOK, PhoneStop, runVars, eventVars
<1>3. QED
  BY <1>1, <1>2

\* A step that moves one request and changes nothing else that is typed.
LEMMA MoveOnlyType ==
    ASSUME TypeOK, NEW r \in Requests, SpawnLocal(r) \/ CancelLocal(r) \/ Timeout(r)
    PROVE  TypeOK'
<1>1. phase' \in [Requests -> Phases]
  BY MoveToType DEF SpawnLocal, CancelLocal, Timeout, Phases
<1>2. QED
  BY <1>1 DEF TypeOK, SpawnLocal, CancelLocal, Timeout, phoneVars, runVars, eventVars

LEMMA OutsideType == ASSUME TypeOK, LoseConnection \/ Shutdown PROVE TypeOK'
<1>1. CASE LoseConnection
  <2>1. inbox' \in Seq(Frames)
    BY <1>1 DEF LoseConnection
  <2>2. reader' \in Readers
    BY <1>1 DEF TypeOK, LoseConnection, Readers
  <2>3. phase' \in [Requests -> Phases]
    BY <1>1 DEF TypeOK, LoseConnection, MoveTo, Readers, Idle, Phases
  <2>4. QED
    BY <1>1, <2>1, <2>2, <2>3 DEF TypeOK, LoseConnection, runVars, eventVars
<1>2. CASE Shutdown
  BY <1>2 DEF TypeOK, Shutdown, phoneVars, eventVars
<1>3. QED
  BY <1>1, <1>2

LEMMA NextTypeOK == TypeOK /\ [Next]_vars => TypeOK'
<1> SUFFICES ASSUME TypeOK, [Next]_vars PROVE TypeOK'
  OBVIOUS
<1>1. CASE UNCHANGED vars
  BY <1>1 DEF TypeOK, vars
<1>2. CASE Next
  BY <1>2, OutsideType, ReaderTurnType, PhoneTurnType, MoveOnlyType, LoadedType,
     TaskTurnType, ProviderTurnType DEF Next
<1>3. QED
  BY <1>1, <1>2

\* Every variable keeps its type, whatever the requests and their chains.
THEOREM TypeCorrect == Spec => []TypeOK
<1>1. QED
  BY InitTypeOK, NextTypeOK, PTL DEF Spec

-----------------------------------------------------------------------------
(***************************************************************************)
(* The inductive invariant.  For every request it says what its phase      *)
(* implies about the slot, the events sent, the text and the row.  It is   *)
(* needed because OneRun and AnswerWhole alone are not inductive: that a   *)
(* fallback starts from an empty answer, for instance, rests on the text   *)
(* of the attempt being all the text that was sent.                        *)
(***************************************************************************)

\* Nothing was streamed and nothing stored.
Untouched(r) == row[r] = NoRow /\ chunks[r] = << >> /\ parts[r] = << >>

\* All deltas of the answer come from provider k.
AllFrom(r, k) == \A i \in 1..Len(chunks[r]) : chunks[r][i] = k

\* A run that went through its finally block.
Finished(r) ==
    /\ row[r].status \in {"lost", "done", "error", "cancelled"}
    /\ row[r].status # "lost" => row[r].text = chunks[r]
    /\ AllFrom(r, attempt[r])
    /\ active # r

RequestInv(r) ==
    /\ Live(r) => active = r
    /\ phase[r] \in {"new", "asked", "loading", "dropped", "refused", "scheduled"}
          => Untouched(r)
    /\ phase[r] \in {"new", "asked", "loading", "dropped", "scheduled"}
          => heard[r] = "none"
    /\ phase[r] = "scheduled" => Chain[r] > 0
    /\ Running(r) => /\ row[r] = NoRow
                     /\ parts[r] = chunks[r]
                     /\ AllFrom(r, attempt[r])
                     /\ attempt[r] \in 1..Chain[r]
                     /\ heard[r] = "llm_started"
    /\ phase[r] = "over" => Untouched(r) \/ Finished(r)

\* The reader waits for the run it cancelled, and only the reader's own cancel
\* leaves a finished run without an ending.
ReaderInv ==
    /\ reader.op = "loading" => phase[reader.id] = "loading" /\ reader.id \in PhoneRequests
    /\ reader.op = "cancelling" =>
          /\ cancelling[reader.id]
          /\ Live(reader.id) \/ phase[reader.id] = "over"

\* An llm_request frame is for a request that nobody has begun to serve.
InboxInv ==
    /\ \A i \in 1..Len(inbox) :
          inbox[i].type = "llm_request" =>
             phase[inbox[i].id] = "asked" /\ inbox[i].id \in PhoneRequests
    /\ \A i, j \in 1..Len(inbox) :
          (inbox[i].type = "llm_request" /\ inbox[j].type = "llm_request"
             /\ inbox[i].id = inbox[j].id) => i = j

\* A request in the slot is live, or its task never ran.
SlotInv == active # None => Live(active) \/ (phase[active] = "over" /\ Untouched(active))

Inv ==
    /\ TypeOK
    /\ \A r \in Requests : RequestInv(r)
    /\ ReaderInv
    /\ InboxInv
    /\ SlotInv
-----------------------------------------------------------------------------
(* The invariant holds initially and every step preserves it.              *)

LEMMA InitInv == Init => Inv
<1> SUFFICES ASSUME Init PROVE Inv
  OBVIOUS
<1>1. TypeOK
  BY InitTypeOK
<1>2. ASSUME NEW r \in Requests PROVE RequestInv(r)
  BY DEF Init, RequestInv, Live, Running, Untouched
<1>3. ReaderInv /\ InboxInv /\ SlotInv
  BY DEF Init, ReaderInv, InboxInv, SlotInv, Idle
<1>4. QED
  BY <1>1, <1>2, <1>3 DEF Inv

\* What a step must leave alone for a request it does not act on.
SameRequest(s) ==
    /\ phase'[s] = phase[s]
    /\ attempt'[s] = attempt[s]
    /\ parts'[s] = parts[s]
    /\ chunks'[s] = chunks[s]
    /\ heard'[s] = heard[s]
    /\ row'[s] = row[s]

\* The slot never moves away from a live request or back to a finished one.
LEMMA OtherRequest ==
    ASSUME NEW s \in Requests, RequestInv(s), SameRequest(s),
           active = s => active' = s, active # s => active' # s
    PROVE  RequestInv(s)'
BY DEF RequestInv, SameRequest, Live, Running, Untouched, Finished, AllFrom

\* A request that nobody has begun to serve can change its place freely.
LEMMA FreshRequest ==
    ASSUME NEW r \in Requests, RequestInv(r),
           phase[r] \in {"new", "asked", "loading"},
           phase'[r] \in {"new", "asked", "loading", "dropped"},
           UNCHANGED << parts, chunks, row, heard >>
    PROVE  RequestInv(r)'
<1>1. Untouched(r)' /\ heard'[r] = "none"
  BY DEF RequestInv, Untouched
<1>2. ~Live(r)' /\ ~Running(r)' /\ phase'[r] \notin {"over", "scheduled", "refused"}
  BY DEF Live, Running
<1>3. QED
  BY <1>1, <1>2 DEF RequestInv

LEMMA ReaderIds == TypeOK /\ reader.op # "idle" => reader.id \in Requests
BY DEF TypeOK, Readers, Idle

\* Steps that touch neither a request nor the slot.
LEMMA SlotUntouched ==
    ASSUME Inv, UNCHANGED << phase, active, attempt, parts, chunks, heard, row >>
    PROVE  (\A s \in Requests : RequestInv(s)') /\ SlotInv'
<1>1. ASSUME NEW s \in Requests PROVE RequestInv(s)'
  BY OtherRequest DEF Inv, SameRequest
<1>2. SlotInv'
  BY DEF Inv, SlotInv, Live, Untouched
<1>3. QED
  BY <1>1, <1>2

LEMMA InboxIds == TypeOK => \A i \in 1..Len(inbox) : inbox[i].id \in Requests
<1> SUFFICES ASSUME TypeOK, NEW i \in 1..Len(inbox) PROVE inbox[i].id \in Requests
  OBVIOUS
<1>1. inbox \in Seq(Frames)
  BY DEF TypeOK
<1>2. inbox[i] \in Frames
  BY <1>1
<1>3. QED
  BY <1>2 DEF Frames

\* Task steps: the reader and the inbox are about other phases.
LEMMA TaskSurroundings ==
    ASSUME Inv, NEW r \in Requests, Live(r), NEW p \in Phases,
           p \in {"scheduled", "streaming", "closing", "over"},
           MoveTo(r, p), UNCHANGED << inbox, reader, cancelling >>
    PROVE  ReaderInv' /\ InboxInv'
<1>1. /\ TypeOK /\ ReaderInv /\ InboxInv
      /\ phase' = [phase EXCEPT ![r] = p] /\ phase[r] \notin {"asked", "loading"}
  BY DEF Inv, Live, MoveTo
<1>2. reader.op # "idle" => reader.id \in Requests
  BY <1>1 DEF TypeOK, Readers, Idle
<1>3. ReaderInv'
  BY <1>1, <1>2 DEF ReaderInv, Live, TypeOK
<1>4. \A i \in 1..Len(inbox) : inbox[i].id \in Requests
  BY <1>1, InboxIds
<1>5. InboxInv'
  BY <1>1, <1>4 DEF InboxInv, TypeOK
<1>6. QED
  BY <1>3, <1>5

\* Every step of a task is about the request in the slot: the others and the
\* rest of the state follow from what holds for that one afterwards.
LEMMA TaskStep ==
    ASSUME Inv, NEW r \in Requests, Live(r), NEW p \in Phases,
           p \in {"scheduled", "streaming", "closing", "over"},
           MoveTo(r, p), UNCHANGED << inbox, reader, cancelling >>,
           \A s \in Requests \ {r} : SameRequest(s),
           active' \in {active, None}, TypeOK', RequestInv(r)', SlotInv'
    PROVE  Inv'
<1>1. active = r
  BY DEF Inv, RequestInv
<1>2. ASSUME NEW s \in Requests \ {r} PROVE RequestInv(s)'
  <2>1. active # s /\ active' # s
    BY <1>1, LlmRunnerAssumption
  <2>2. QED
    BY <2>1, OtherRequest DEF Inv
<1>3. ReaderInv' /\ InboxInv'
  BY TaskSurroundings
<1>4. QED
  BY <1>2, <1>3 DEF Inv

\* The finally block turns the text that was sent into the row.
LEMMA EndRunInv ==
    ASSUME Inv, TypeOK', NEW r \in Requests, Running(r),
           NEW st \in {"done", "error", "cancelled"}, EndRun(r, st),
           \A s \in Requests \ {r} : heard'[s] = heard[s]
    PROVE  Inv'
<1>1. /\ TypeOK /\ RequestInv(r) /\ Live(r) /\ active = r
  BY DEF Inv, Running, Live, RequestInv
<1>2. /\ parts[r] = chunks[r] /\ AllFrom(r, attempt[r])
  BY <1>1 DEF RequestInv
<1>3. active' = None /\ active' # r
  BY <1>1, LlmRunnerAssumption DEF EndRun, ClearActive
<1>4. PICK v \in {[status |-> st, text |-> parts[r]], LostRow} :
          row' = [row EXCEPT ![r] = v]
  BY DEF EndRun, Persist
<1>5. row'[r] = v
  BY <1>1, <1>4 DEF TypeOK
<1>6. /\ v.status \in {"lost", "done", "error", "cancelled"}
      /\ v.status # "lost" => v.text = chunks[r]
  BY <1>2 DEF LostRow
<1>7. phase'[r] = "over" /\ UNCHANGED << chunks, attempt, parts, inbox, reader, cancelling >>
  BY <1>1 DEF EndRun, MoveTo, TypeOK, phoneVars
<1>8. Finished(r)'
  BY <1>2, <1>3, <1>5, <1>6, <1>7 DEF Finished, AllFrom
<1>9. RequestInv(r)'
  BY <1>7, <1>8 DEF RequestInv, Live, Running
<1>10. \A s \in Requests \ {r} : SameRequest(s)
  BY <1>1, <1>4 DEF EndRun, MoveTo, SameRequest, TypeOK
<1>11. SlotInv'
  BY <1>3 DEF SlotInv
<1>12. QED
  BY <1>1, <1>3, <1>7, <1>9, <1>10, <1>11, TaskStep DEF EndRun, Phases

LEMMA AttemptFailsInv ==
    ASSUME Inv, TypeOK', NEW r \in Requests, Running(r), AttemptFails(r)
    PROVE  Inv'
<1>1. TypeOK /\ RequestInv(r) /\ Live(r) /\ active = r
  BY DEF Inv, Running, Live, RequestInv
<1>2. CASE MayFallBack(r)
  <2>1. chunks[r] = << >> /\ attempt[r] + 1 \in 1..Chain[r]
    <3>1. Chain[r] \in Nat /\ attempt[r] \in 1..Chain[r] /\ parts[r] = chunks[r]
      BY <1>1, LlmRunnerAssumption DEF RequestInv
    <3>2. QED
      BY <1>2, <3>1 DEF MayFallBack
  <2>2. /\ attempt' = [attempt EXCEPT ![r] = @ + 1]
        /\ parts' = [parts EXCEPT ![r] = << >>]
        /\ phase' = [phase EXCEPT ![r] = "streaming"]
        /\ UNCHANGED << inbox, reader, active, cancelling, chunks, row, heard >>
    BY <1>2 DEF AttemptFails, MoveTo, phoneVars, eventVars
  <2>3. RequestInv(r)'
    BY <1>1, <2>1, <2>2 DEF RequestInv, Live, Running, AllFrom, TypeOK
  <2>4. \A s \in Requests \ {r} : SameRequest(s)
    BY <1>1, <2>2 DEF SameRequest, TypeOK
  <2>5. SlotInv'
    BY <1>1, <2>2 DEF SlotInv, Live, TypeOK
  <2>6. QED
    BY <1>1, <2>2, <2>3, <2>4, <2>5, TaskStep DEF MoveTo, Phases
<1>3. CASE ~MayFallBack(r)
  <2>1. EndRun(r, "error") /\ Emit(r, "llm_error")
    BY <1>3 DEF AttemptFails
  <2>2. \A s \in Requests \ {r} : heard'[s] = heard[s]
    BY <1>1, <2>1 DEF Emit, TypeOK
  <2>3. QED
    BY <2>1, <2>2, EndRunInv
<1>4. QED
  BY <1>2, <1>3

-----------------------------------------------------------------------------
(* The phone and the connection.                                           *)

LEMMA PhoneAskInv ==
    ASSUME Inv, TypeOK', NEW r \in Requests, PhoneAsk(r)
    PROVE  Inv'
<1>1. /\ TypeOK /\ RequestInv(r) /\ ReaderInv /\ InboxInv /\ SlotInv
      /\ phase[r] = "new" /\ r \in PhoneRequests
      /\ phase' = [phase EXCEPT ![r] = "asked"]
      /\ UNCHANGED << reader, active, cancelling, attempt, parts, chunks, row, heard >>
  BY DEF Inv, PhoneAsk, MoveTo, runVars, eventVars
<1>2. active # r /\ (reader.op = "loading" => reader.id # r)
  BY <1>1, LlmRunnerAssumption DEF SlotInv, Live, ReaderInv
<1>3. phase'[r] = "asked" /\ \A s \in Requests \ {r} : SameRequest(s)
  BY <1>1 DEF SameRequest, TypeOK
<1>4. RequestInv(r)'
  BY <1>1, <1>3, FreshRequest
<1>5. \A s \in Requests : RequestInv(s)'
  BY <1>1, <1>3, <1>4, OtherRequest DEF Inv
<1>6. SlotInv'
  BY <1>1, <1>2, <1>3 DEF SlotInv, Live, Untouched, TypeOK
<1>7. ReaderInv'
  <2>1. reader.op # "idle" => reader.id \in Requests
    BY <1>1, ReaderIds
  <2>2. QED
    BY <1>1, <1>2, <2>1 DEF ReaderInv, Live, TypeOK
<1>8. InboxInv'
  <2>1. inbox \in Seq(Frames)
    BY <1>1 DEF TypeOK
  <2> DEFINE f == [type |-> "llm_request", id |-> r]
  <2>2. inbox' = Append(inbox, f) /\ f.type = "llm_request" /\ f.id = r
    BY DEF PhoneAsk
  <2>3. /\ Len(inbox') = Len(inbox) + 1
        /\ inbox'[Len(inbox) + 1] = f
        /\ \A i \in 1..Len(inbox) : inbox'[i] = inbox[i]
    BY <2>1, <2>2
  <2>4. \A i \in 1..Len(inbox) : inbox[i].type = "llm_request" => inbox[i].id # r
    BY <1>1 DEF InboxInv
  <2> HIDE DEF f
  <2>5. \A i \in 1..Len(inbox') :
           inbox'[i].type = "llm_request" =>
              phase'[inbox'[i].id] = "asked" /\ inbox'[i].id \in PhoneRequests
    <3>1. \A i \in 1..Len(inbox) : inbox'[i].type = "llm_request" =>
              phase'[inbox'[i].id] = "asked" /\ inbox'[i].id \in PhoneRequests
      BY <1>1, <2>3, InboxIds DEF InboxInv, TypeOK
    <3>2. Len(inbox) \in Nat
      BY <2>1
    <3>3. \A i \in 1..Len(inbox') : i \in 1..Len(inbox) \/ i = Len(inbox) + 1
      BY <2>3, <3>2
    <3>4. QED
      BY <1>1, <1>3, <2>2, <2>3, <3>1, <3>3
  <2>6. \A i, j \in 1..Len(inbox') :
           (inbox'[i].type = "llm_request" /\ inbox'[j].type = "llm_request"
              /\ inbox'[i].id = inbox'[j].id) => i = j
    <3>1. Len(inbox) \in Nat
      BY <2>1
    <3>2. \A i \in 1..Len(inbox') : i \in 1..Len(inbox) \/ i = Len(inbox) + 1
      BY <2>3, <3>1
    <3>3. QED
      BY <1>1, <2>2, <2>3, <2>4, <3>2 DEF InboxInv
  <2>7. QED
    BY <2>5, <2>6 DEF InboxInv
<1>9. QED
  BY <1>5, <1>6, <1>7, <1>8 DEF Inv

LEMMA PhoneStopInv ==
    ASSUME Inv, TypeOK', NEW r \in Requests, PhoneStop(r)
    PROVE  Inv'
<1>1. /\ TypeOK /\ ReaderInv /\ InboxInv
      /\ UNCHANGED << reader, phase, active, cancelling, attempt, parts, chunks, row, heard >>
  BY DEF Inv, PhoneStop, runVars, eventVars
<1>2. (\A s \in Requests : RequestInv(s)') /\ SlotInv'
  BY <1>1, SlotUntouched
<1>3. ReaderInv'
  BY <1>1 DEF ReaderInv, Live
<1>4. InboxInv'
  <2>1. inbox \in Seq(Frames)
    BY <1>1 DEF TypeOK
  <2> DEFINE f == [type |-> "llm_cancel", id |-> r]
  <2>2. inbox' = Append(inbox, f) /\ f.type # "llm_request"
    BY DEF PhoneStop
  <2>3. /\ Len(inbox) \in Nat
        /\ Len(inbox') = Len(inbox) + 1
        /\ inbox'[Len(inbox) + 1] = f
        /\ \A i \in 1..Len(inbox) : inbox'[i] = inbox[i]
    BY <2>1, <2>2
  <2> HIDE DEF f
  <2>4. \A i \in 1..Len(inbox') : i \in 1..Len(inbox) \/ i = Len(inbox) + 1
    BY <2>3
  <2>5. QED
    BY <1>1, <2>2, <2>3, <2>4 DEF InboxInv
<1>5. QED
  BY <1>2, <1>3, <1>4 DEF Inv

LEMMA LoseConnectionInv ==
    ASSUME Inv, TypeOK', LoseConnection
    PROVE  Inv'
<1>1. /\ TypeOK /\ ReaderInv /\ InboxInv /\ SlotInv /\ inbox' = << >>
      /\ UNCHANGED << active, cancelling, attempt, parts, chunks, row, heard >>
  BY DEF Inv, LoseConnection, runVars, eventVars
<1>2. InboxInv'
  BY <1>1 DEF InboxInv
<1>3. CASE reader.op = "loading"
  <2>1. PICK r \in Requests : r = reader.id
    BY <1>1, <1>3, ReaderIds
  <2>2. /\ phase[r] = "loading" /\ phase' = [phase EXCEPT ![r] = "dropped"]
        /\ reader' = Idle
    BY <1>1, <1>3, <2>1 DEF ReaderInv, LoseConnection, MoveTo
  <2>3. phase'[r] = "dropped" /\ \A s \in Requests \ {r} : SameRequest(s)
    BY <1>1, <2>2 DEF SameRequest, TypeOK
  <2>4. RequestInv(r)'
    BY <1>1, <2>2, <2>3, FreshRequest DEF Inv
  <2>5. \A s \in Requests : RequestInv(s)'
    BY <1>1, <2>3, <2>4, OtherRequest DEF Inv
  <2>6. SlotInv'
    BY <1>1, <2>2, <2>3 DEF SlotInv, Live, Untouched, TypeOK
  <2>7. ReaderInv'
    BY <2>2 DEF ReaderInv, Idle
  <2>8. QED
    BY <1>2, <2>5, <2>6, <2>7 DEF Inv
<1>4. CASE reader.op # "loading"
  <2>1. phase' = phase /\ reader' \in {Idle, reader}
    BY <1>4 DEF LoseConnection
  <2>2. (\A s \in Requests : RequestInv(s)') /\ SlotInv'
    BY <1>1, <2>1, SlotUntouched
  <2>3. ReaderInv'
    BY <1>1, <2>1 DEF ReaderInv, Live, Idle
  <2>4. QED
    BY <1>2, <2>2, <2>3 DEF Inv
<1>5. QED
  BY <1>3, <1>4

\* A task beside the reader loads its input, or is abandoned doing so.
LEMMA LocalInv ==
    ASSUME Inv, TypeOK', NEW r \in Requests, SpawnLocal(r) \/ CancelLocal(r)
    PROVE  Inv'
<1>1. /\ TypeOK /\ ReaderInv /\ InboxInv /\ SlotInv
      /\ r \notin PhoneRequests /\ phase[r] \in {"new", "loading"}
      /\ UNCHANGED << inbox, reader, active, cancelling, attempt, parts, chunks, row, heard >>
  BY LlmRunnerAssumption DEF Inv, SpawnLocal, CancelLocal, phoneVars, runVars, eventVars
<1>2. PICK p \in {"loading", "dropped"} : phase' = [phase EXCEPT ![r] = p]
  BY DEF SpawnLocal, CancelLocal, MoveTo
<1>3. phase'[r] = p /\ \A s \in Requests \ {r} : SameRequest(s)
  BY <1>1, <1>2 DEF SameRequest, TypeOK
<1>4. RequestInv(r)'
  BY <1>1, <1>2, <1>3, FreshRequest DEF Inv
<1>5. \A s \in Requests : RequestInv(s)'
  BY <1>1, <1>3, <1>4, OtherRequest DEF Inv
<1>6. SlotInv'
  BY <1>1, <1>2, <1>3 DEF SlotInv, Live, Untouched, TypeOK
<1>7. ReaderInv'
  <2>1. reader.op # "idle" => reader.id \in Requests
    BY <1>1, ReaderIds
  <2>2. QED
    BY <1>1, <1>2, <2>1 DEF ReaderInv, Live, TypeOK
<1>8. InboxInv'
  BY <1>1, <1>2, InboxIds DEF InboxInv, TypeOK
<1>9. QED
  BY <1>5, <1>6, <1>7, <1>8 DEF Inv

LEMMA ShutdownInv == ASSUME Inv, TypeOK', Shutdown PROVE Inv'
<1>1. /\ TypeOK /\ ReaderInv /\ InboxInv
      /\ UNCHANGED << inbox, reader, phase, active, attempt, parts, chunks, row, heard >>
  BY DEF Inv, Shutdown, phoneVars, eventVars
<1>2. (\A s \in Requests : RequestInv(s)') /\ SlotInv'
  BY <1>1, SlotUntouched
<1>3. ReaderInv'
  <2>1. reader.op # "idle" => reader.id \in Requests
    BY <1>1, ReaderIds
  <2>2. reader.op = "cancelling" => cancelling'[reader.id]
    BY <1>1, <2>1 DEF ReaderInv, Shutdown, TypeOK
  <2>3. QED
    BY <1>1, <2>2 DEF ReaderInv, Live
<1>4. InboxInv'
  BY <1>1 DEF InboxInv
<1>5. QED
  BY <1>2, <1>3, <1>4 DEF Inv

-----------------------------------------------------------------------------
(* The reader.                                                             *)

\* The frames after the head are frames of the inbox.
LEMMA TailFrames ==
    ASSUME TypeOK, inbox # << >>
    PROVE  /\ Len(Tail(inbox)) \in Nat /\ Len(inbox) = Len(Tail(inbox)) + 1
           /\ Head(inbox) = inbox[1]
           /\ \A i \in 1..Len(Tail(inbox)) :
                 i + 1 \in 2..Len(inbox) /\ Tail(inbox)[i] = inbox[i + 1]
<1>1. inbox \in Seq(Frames)
  BY DEF TypeOK
<1>2. QED
  BY <1>1

\* Dispatching a frame that leaves the requests alone.
LEMMA TailInbox ==
    ASSUME Inv, inbox # << >>, inbox' = Tail(inbox), UNCHANGED phase
    PROVE  InboxInv'
<1>1. TypeOK /\ InboxInv
  BY DEF Inv
<1>2. /\ Len(inbox') \in Nat /\ Len(inbox) = Len(inbox') + 1
      /\ \A i \in 1..Len(inbox') : i + 1 \in 1..Len(inbox) /\ inbox'[i] = inbox[i + 1]
  BY <1>1, TailFrames
<1>3. \A i \in 1..Len(inbox') : inbox'[i].type = "llm_request" =>
          phase'[inbox'[i].id] = "asked" /\ inbox'[i].id \in PhoneRequests
  BY <1>1, <1>2 DEF InboxInv
<1>4. \A i, j \in 1..Len(inbox') :
          (inbox'[i].type = "llm_request" /\ inbox'[j].type = "llm_request"
             /\ inbox'[i].id = inbox'[j].id) => i = j
  <2> SUFFICES ASSUME NEW i \in 1..Len(inbox'), NEW j \in 1..Len(inbox'),
                      inbox'[i].type = "llm_request", inbox'[j].type = "llm_request",
                      inbox'[i].id = inbox'[j].id
               PROVE  i = j
    OBVIOUS
  <2>1. i + 1 = j + 1
    BY <1>1, <1>2 DEF InboxInv
  <2>2. QED
    BY <2>1
<1>5. QED
  BY <1>3, <1>4 DEF InboxInv

LEMMA DispatchRequestInv == ASSUME Inv, TypeOK', DispatchRequest PROVE Inv'
<1>1. /\ TypeOK /\ InboxInv /\ SlotInv /\ inbox # << >> /\ inbox' = Tail(inbox)
      /\ UNCHANGED << active, cancelling, attempt, parts, chunks, row, heard >>
  BY DEF Inv, DispatchRequest, runVars, eventVars
<1>2. PICK r \in Requests : r = Head(inbox).id
  BY <1>1, HeadType
<1>3. /\ Head(inbox) = inbox[1] /\ 1 \in 1..Len(inbox)
      /\ Len(inbox') \in Nat
      /\ \A i \in 1..Len(inbox') :
            i + 1 \in 1..Len(inbox) /\ i + 1 # 1 /\ inbox'[i] = inbox[i + 1]
  BY <1>1, TailFrames
<1>4. /\ inbox[1].type = "llm_request" /\ inbox[1].id = r
      /\ phase' = [phase EXCEPT ![r] = "loading"]
      /\ reader' = [op |-> "loading", id |-> r]
  BY <1>2, <1>3 DEF DispatchRequest, MoveTo
<1>5. phase[r] = "asked" /\ r \in PhoneRequests
  BY <1>1, <1>3, <1>4 DEF InboxInv
<1>6. phase'[r] = "loading" /\ \A s \in Requests \ {r} : SameRequest(s)
  BY <1>1, <1>4 DEF SameRequest, TypeOK
<1>7. RequestInv(r)'
  BY <1>1, <1>5, <1>6, FreshRequest DEF Inv
<1>8. \A s \in Requests : RequestInv(s)'
  BY <1>1, <1>6, <1>7, OtherRequest DEF Inv
<1>9. SlotInv'
  BY <1>1, <1>4, <1>5, <1>6 DEF SlotInv, Live, Untouched, TypeOK
<1>10. ReaderInv'
  BY <1>4, <1>5, <1>6 DEF ReaderInv
<1>11. InboxInv'
  <2>1. ASSUME NEW i \in 1..Len(inbox'), inbox'[i].type = "llm_request"
        PROVE  phase'[inbox'[i].id] = "asked" /\ inbox'[i].id \in PhoneRequests
    <3>1. inbox[i + 1].id # r /\ phase[inbox[i + 1].id] = "asked"
          /\ inbox[i + 1].id \in PhoneRequests
      BY <1>1, <1>3, <1>4, <2>1 DEF InboxInv
    <3>2. QED
      BY <1>1, <1>3, <1>4, <3>1 DEF TypeOK, Requests
  <2>2. ASSUME NEW i \in 1..Len(inbox'), NEW j \in 1..Len(inbox'),
               inbox'[i].type = "llm_request", inbox'[j].type = "llm_request",
               inbox'[i].id = inbox'[j].id
        PROVE  i = j
    <3>1. i + 1 = j + 1
      BY <1>1, <1>3, <2>2 DEF InboxInv
    <3>2. QED
      BY <3>1
  <2>3. QED
    BY <2>1, <2>2 DEF InboxInv
<1>12. QED
  BY <1>8, <1>9, <1>10, <1>11 DEF Inv

LEMMA DispatchCancelInv == ASSUME Inv, TypeOK', DispatchCancel PROVE Inv'
<1>1. /\ TypeOK /\ ReaderInv /\ SlotInv /\ inbox # << >> /\ inbox' = Tail(inbox)
      /\ UNCHANGED << phase, active, attempt, parts, chunks, row, heard >>
  BY DEF Inv, DispatchCancel, eventVars
<1>2. (\A s \in Requests : RequestInv(s)') /\ SlotInv'
  BY <1>1, SlotUntouched
<1>3. InboxInv'
  BY <1>1, TailInbox
<1>4. ReaderInv'
  <2>1. CASE CancelMatches(Head(inbox).id)
    <3>1. PICK r \in Requests : r = Head(inbox).id
      BY <1>1, HeadType
    <3>2. active = r /\ active # None
      BY <2>1, <3>1, LlmRunnerAssumption DEF CancelMatches
    <3>3. /\ reader' = [op |-> "cancelling", id |-> r]
          /\ cancelling' = [cancelling EXCEPT ![r] = TRUE]
      BY <2>1, <3>2 DEF DispatchCancel
    <3>4. cancelling'[r] /\ (Live(r) \/ phase[r] = "over")
      BY <1>1, <3>2, <3>3 DEF TypeOK, SlotInv
    <3>5. QED
      BY <1>1, <3>3, <3>4 DEF ReaderInv, Live
  <2>2. CASE ~CancelMatches(Head(inbox).id)
    BY <1>1, <2>2 DEF ReaderInv, DispatchCancel, Live
  <2>3. QED
    BY <2>1, <2>2
<1>5. QED
  BY <1>2, <1>3, <1>4 DEF Inv

LEMMA CancelDoneInv == ASSUME Inv, TypeOK', CancelDone PROVE Inv'
<1>1. /\ TypeOK /\ ReaderInv /\ InboxInv /\ SlotInv
      /\ UNCHANGED << inbox, phase, active, cancelling, attempt, parts, chunks, row >>
  BY DEF Inv, CancelDone, phoneVars, runVars
<1>2. PICK r \in Requests : r = reader.id
  BY <1>1, ReaderIds DEF CancelDone
<1>3. phase[r] = "over" /\ heard' = [heard EXCEPT ![r] = "llm_cancelled"] /\ reader' = Idle
  BY <1>2 DEF CancelDone, CancelReturns, Emit
<1>4. \A s \in Requests \ {r} : SameRequest(s)
  BY <1>1, <1>3 DEF SameRequest, TypeOK
<1>5. RequestInv(r)'
  BY <1>1, <1>3 DEF Inv, RequestInv, Live, Running, Untouched, Finished, AllFrom
<1>6. \A s \in Requests : RequestInv(s)'
  BY <1>1, <1>4, <1>5, OtherRequest DEF Inv
<1>7. SlotInv' /\ InboxInv' /\ ReaderInv'
  BY <1>1, <1>3 DEF SlotInv, InboxInv, ReaderInv, Idle, Live, Untouched
<1>8. QED
  BY <1>6, <1>7 DEF Inv

LEMMA ModelRecordedInv == ASSUME Inv, TypeOK', ModelRecorded PROVE Inv'
<1>1. /\ TypeOK /\ InboxInv /\ reader' = Idle
      /\ UNCHANGED << inbox, phase, active, cancelling, attempt, parts, chunks, row, heard >>
  BY DEF Inv, ModelRecorded, phoneVars, runVars, eventVars
<1>2. (\A s \in Requests : RequestInv(s)') /\ SlotInv'
  BY <1>1, SlotUntouched
<1>3. ReaderInv' /\ InboxInv'
  BY <1>1 DEF ReaderInv, InboxInv, Idle
<1>4. QED
  BY <1>2, <1>3 DEF Inv

-----------------------------------------------------------------------------
(* The end of loading: the slot is taken, or the request refused.          *)

\* What both outcomes leave to the reader and to the inbox.
LEMMA LoadedSurroundings ==
    ASSUME Inv, NEW r \in Requests, phase[r] = "loading",
           NEW p \in {"scheduled", "refused"}, MoveTo(r, p),
           NEW next \in {Idle, [op |-> "recording", id |-> r]},
           ReaderAfterLoad(r, next), UNCHANGED << inbox, cancelling >>
    PROVE  ReaderInv' /\ InboxInv'
<1>1. /\ TypeOK /\ ReaderInv /\ InboxInv
      /\ phase' = [phase EXCEPT ![r] = p]
  BY DEF Inv, MoveTo
<1>2. InboxInv'
  BY <1>1, InboxIds DEF InboxInv, TypeOK
<1>3. CASE reader = [op |-> "loading", id |-> r]
  BY <1>2, <1>3 DEF ReaderAfterLoad, ReaderInv, Idle
<1>4. CASE reader # [op |-> "loading", id |-> r]
  <2>1. reader' = reader
    BY <1>4 DEF ReaderAfterLoad
  <2>2. reader.op = "loading" => reader.id # r
    <3>1. reader \in Readers
      BY <1>1 DEF TypeOK
    <3>2. QED
      BY <1>4, <3>1 DEF Readers, Idle
  <2>3. reader.op # "idle" => reader.id \in Requests
    BY <1>1, ReaderIds
  <2>4. reader.op = "cancelling" => reader.id # r
    BY <1>1 DEF ReaderInv, Live
  <2>5. ReaderInv'
    BY <1>1, <2>1, <2>2, <2>3, <2>4 DEF ReaderInv, Live, TypeOK
  <2>6. QED
    BY <1>2, <2>5
<1>5. QED
  BY <1>3, <1>4

LEMMA RefusedInv ==
    ASSUME Inv, TypeOK', NEW r \in Requests, phase[r] = "loading",
           MoveTo(r, "refused"), Emit(r, "llm_error"), ReaderAfterLoad(r, Idle),
           UNCHANGED << inbox, active, cancelling, attempt, parts, chunks, row >>
    PROVE  Inv'
<1>1. /\ TypeOK /\ RequestInv(r) /\ SlotInv
      /\ phase' = [phase EXCEPT ![r] = "refused"]
      /\ heard' = [heard EXCEPT ![r] = "llm_error"]
  BY DEF Inv, MoveTo, Emit
<1>2. ReaderInv' /\ InboxInv'
  BY LoadedSurroundings
<1>3. phase'[r] = "refused" /\ \A s \in Requests \ {r} : SameRequest(s)
  BY <1>1 DEF SameRequest, TypeOK
<1>4. RequestInv(r)'
  <2>1. Untouched(r)' /\ ~Live(r)' /\ ~Running(r)'
    BY <1>1, <1>3 DEF RequestInv, Untouched, Live, Running
  <2>2. QED
    BY <1>3, <2>1 DEF RequestInv
<1>5. \A s \in Requests : RequestInv(s)'
  BY <1>3, <1>4, OtherRequest DEF Inv
<1>6. SlotInv'
  BY <1>1, <1>3 DEF SlotInv, Live, Untouched, TypeOK
<1>7. QED
  BY <1>2, <1>5, <1>6 DEF Inv

LEMMA LoadedInv == ASSUME Inv, TypeOK', NEW r \in Requests, Loaded(r) PROVE Inv'
<1>1. /\ TypeOK /\ RequestInv(r) /\ phase[r] = "loading"
      /\ UNCHANGED << inbox, cancelling, attempt, parts, chunks, row >>
  BY DEF Inv, Loaded, phoneVars, runVars
<1>2. CASE FailToLoad(r)
  BY <1>1, <1>2, RefusedInv DEF FailToLoad
<1>3. CASE Submit(r) /\ ~MaySubmit(r)
  BY <1>1, <1>3, RefusedInv DEF Submit
<1>4. CASE Submit(r) /\ MaySubmit(r)
  <2>1. /\ active = None /\ Chain[r] > 0 /\ active' = r
        /\ phase' = [phase EXCEPT ![r] = "scheduled"] /\ heard' = heard
    BY <1>4 DEF Submit, MaySubmit, MoveTo, eventVars
  <2>2. ReaderInv' /\ InboxInv'
    BY <1>1, <1>4, LoadedSurroundings DEF Submit
  <2>3. phase'[r] = "scheduled" /\ \A s \in Requests \ {r} : SameRequest(s)
    BY <1>1, <2>1 DEF SameRequest, TypeOK
  <2>4. RequestInv(r)'
    <3>1. Untouched(r)' /\ heard'[r] = "none" /\ ~Running(r)'
      BY <1>1, <2>1, <2>3 DEF RequestInv, Untouched, Running
    <3>2. QED
      BY <2>1, <2>3, <3>1 DEF RequestInv
  <2>5. \A s \in Requests : RequestInv(s)'
    <3>1. active # r /\ \A s \in Requests \ {r} : active # s /\ active' # s
      BY <2>1, LlmRunnerAssumption
    <3>2. QED
      BY <2>3, <2>4, <3>1, OtherRequest DEF Inv
  <2>6. SlotInv'
    BY <2>1, <2>3 DEF SlotInv, Live
  <2>7. QED
    BY <2>2, <2>5, <2>6 DEF Inv
<1>5. QED
  BY <1>2, <1>3, <1>4 DEF Loaded

-----------------------------------------------------------------------------
(* The task.                                                               *)

LEMMA StartInv == ASSUME Inv, TypeOK', NEW r \in Requests, Start(r) PROVE Inv'
<1>1. /\ TypeOK /\ RequestInv(r) /\ Live(r) /\ active = r
      /\ phase[r] = "scheduled" /\ Chain[r] > 0 /\ Untouched(r)
  BY DEF Inv, Start, Live, RequestInv
<1>2. /\ phase' = [phase EXCEPT ![r] = "streaming"]
      /\ heard' = [heard EXCEPT ![r] = "llm_started"]
      /\ attempt' = [attempt EXCEPT ![r] = 1]
      /\ UNCHANGED << inbox, reader, active, cancelling, parts, chunks, row >>
  BY DEF Start, MoveTo, Emit, phoneVars
<1>3. /\ phase'[r] = "streaming" /\ heard'[r] = "llm_started" /\ attempt'[r] = 1
      /\ \A s \in Requests \ {r} : SameRequest(s)
  BY <1>1, <1>2 DEF SameRequest, TypeOK
<1>4. RequestInv(r)'
  <2>1. 1 \in 1..Chain[r]
    BY <1>1, LlmRunnerAssumption
  <2>2. row'[r] = NoRow /\ parts'[r] = chunks'[r] /\ AllFrom(r, attempt[r])'
    BY <1>1, <1>2 DEF Untouched, AllFrom
  <2>3. QED
    BY <1>1, <1>2, <1>3, <2>1, <2>2 DEF RequestInv
<1>5. SlotInv'
  BY <1>1, <1>2, <1>3 DEF SlotInv, Live
<1>6. QED
  BY <1>1, <1>2, <1>3, <1>4, <1>5, TaskStep DEF MoveTo, Phases

LEMMA BodySkippedInv ==
    ASSUME Inv, TypeOK', NEW r \in Requests, BodySkipped(r) PROVE Inv'
<1>1. /\ TypeOK /\ RequestInv(r) /\ Live(r) /\ active = r
      /\ phase' = [phase EXCEPT ![r] = "over"] /\ Untouched(r)
      /\ UNCHANGED << inbox, reader, active, cancelling, attempt, parts, chunks, row, heard >>
  BY DEF Inv, BodySkipped, Live, RequestInv, MoveTo, phoneVars, runVars, eventVars
<1>2. phase'[r] = "over" /\ \A s \in Requests \ {r} : SameRequest(s)
  BY <1>1 DEF SameRequest, TypeOK
<1>3. Untouched(r)'
  BY <1>1 DEF Untouched
<1>4. RequestInv(r)' /\ SlotInv'
  BY <1>1, <1>2, <1>3 DEF RequestInv, SlotInv, Live, Running
<1>5. QED
  BY <1>1, <1>2, <1>4, TaskStep DEF MoveTo, Phases

LEMMA TimeoutInv == ASSUME Inv, TypeOK', NEW r \in Requests, Timeout(r) PROVE Inv'
<1>1. /\ TypeOK /\ RequestInv(r) /\ Running(r) /\ Live(r) /\ active = r
      /\ phase' = [phase EXCEPT ![r] = "closing"]
      /\ UNCHANGED << inbox, reader, active, cancelling, attempt, parts, chunks, row, heard >>
  BY DEF Inv, Timeout, BudgetExpired, Live, Running, RequestInv, MoveTo,
         phoneVars, runVars, eventVars
<1>2. phase'[r] = "closing" /\ \A s \in Requests \ {r} : SameRequest(s)
  BY <1>1 DEF SameRequest, TypeOK
<1>3. RequestInv(r)' /\ SlotInv'
  BY <1>1, <1>2 DEF RequestInv, SlotInv, Live, Running, AllFrom
<1>4. QED
  BY <1>1, <1>2, <1>3, TaskStep DEF MoveTo, Phases

LEMMA DeltaInv == ASSUME Inv, TypeOK', NEW r \in Requests, Delta(r) PROVE Inv'
<1>1. /\ TypeOK /\ RequestInv(r) /\ Running(r) /\ Live(r) /\ active = r
      /\ phase[r] = "streaming" /\ parts[r] = chunks[r] /\ AllFrom(r, attempt[r])
      /\ row[r] = NoRow /\ attempt[r] \in 1..Chain[r] /\ heard[r] = "llm_started"
  BY DEF Inv, Delta, Live, Running, RequestInv
<1>2. /\ parts' = [parts EXCEPT ![r] = Append(@, attempt[r])]
      /\ chunks' = [chunks EXCEPT ![r] = Append(@, attempt[r])]
      /\ UNCHANGED << inbox, reader, phase, active, cancelling, attempt, row, heard >>
  BY DEF Delta, phoneVars, eventVars
<1>3. \A s \in Requests \ {r} : SameRequest(s)
  BY <1>1, <1>2 DEF SameRequest, TypeOK
<1>4. chunks'[r] = Append(chunks[r], attempt[r]) /\ parts'[r] = chunks'[r]
  BY <1>1, <1>2 DEF TypeOK
<1>5. AllFrom(r, attempt[r])'
  <2>1. chunks[r] \in Seq(Nat) /\ attempt[r] \in Nat
    BY <1>1 DEF TypeOK
  <2>2. \A i \in 1..Len(chunks'[r]) :
           chunks'[r][i] = IF i = Len(chunks[r]) + 1 THEN attempt[r] ELSE chunks[r][i]
    BY <1>4, <2>1
  <2>3. \A i \in 1..Len(chunks'[r]) : i = Len(chunks[r]) + 1 \/ i \in 1..Len(chunks[r])
    BY <1>4, <2>1
  <2>4. QED
    BY <1>1, <1>2, <2>2, <2>3 DEF AllFrom
<1>6. RequestInv(r)'
  BY <1>1, <1>2, <1>4, <1>5 DEF RequestInv, Live, Running
<1>7. SlotInv'
  BY <1>1, <1>2 DEF SlotInv, Live
<1>8. MoveTo(r, "streaming")
  BY <1>1, <1>2 DEF MoveTo, TypeOK
<1>9. QED
  BY <1>1, <1>2, <1>3, <1>6, <1>7, <1>8, TaskStep DEF Phases

\* The ends of a run, from the stream, the deadline or a cancellation.
LEMMA RunEndsInv ==
    ASSUME Inv, TypeOK', NEW r \in Requests,
           StreamEnds(r) \/ StreamFails(r) \/ StreamClosed(r) \/ Unwind(r)
    PROVE  Inv'
<1>1. TypeOK /\ Running(r)
  BY DEF Inv, StreamEnds, StreamFails, StreamClosed, Unwind, Running
<1>2. CASE StreamEnds(r)
  <2>1. EndRun(r, "done") /\ \A s \in Requests \ {r} : heard'[s] = heard[s]
    BY <1>1, <1>2 DEF StreamEnds, Emit, TypeOK
  <2>2. QED
    BY <1>1, <2>1, EndRunInv
<1>3. CASE StreamFails(r) \/ StreamClosed(r)
  BY <1>1, <1>3, AttemptFailsInv DEF StreamFails, StreamClosed
<1>4. CASE Unwind(r)
  <2>1. EndRun(r, "cancelled") /\ \A s \in Requests \ {r} : heard'[s] = heard[s]
    BY <1>4 DEF Unwind, eventVars
  <2>2. QED
    BY <1>1, <2>1, EndRunInv
<1>5. QED
  BY <1>2, <1>3, <1>4

-----------------------------------------------------------------------------
(* The theorems.                                                           *)

LEMMA StutterInv == ASSUME Inv, UNCHANGED vars PROVE Inv'
<1>1. TypeOK'
  BY DEF Inv, TypeOK, vars
<1>2. (\A s \in Requests : RequestInv(s)') /\ SlotInv'
  BY SlotUntouched DEF vars
<1>3. ReaderInv' /\ InboxInv'
  BY DEF Inv, ReaderInv, InboxInv, Live, vars
<1>4. QED
  BY <1>1, <1>2, <1>3 DEF Inv

LEMMA NextInv == Inv /\ [Next]_vars => Inv'
<1> SUFFICES ASSUME Inv, [Next]_vars PROVE Inv'
  OBVIOUS
<1>1. TypeOK'
  BY NextTypeOK DEF Inv
<1>2. CASE UNCHANGED vars
  BY <1>2, StutterInv
<1>3. CASE LoseConnection \/ Shutdown
  BY <1>1, <1>3, LoseConnectionInv, ShutdownInv
<1>4. CASE ReaderTurn
  BY <1>1, <1>4, DispatchRequestInv, DispatchCancelInv, CancelDoneInv, ModelRecordedInv
     DEF ReaderTurn
<1>5. ASSUME NEW r \in Requests, PhoneAsk(r) \/ PhoneStop(r) PROVE Inv'
  BY <1>1, <1>5, PhoneAskInv, PhoneStopInv
<1>6. ASSUME NEW r \in Requests, SpawnLocal(r) \/ CancelLocal(r) \/ Loaded(r) PROVE Inv'
  BY <1>1, <1>6, LocalInv, LoadedInv
<1>7. ASSUME NEW r \in Requests, TaskTurn(r) PROVE Inv'
  BY <1>1, <1>7, StartInv, BodySkippedInv, RunEndsInv DEF TaskTurn
<1>8. ASSUME NEW r \in Requests, ProviderTurn(r) \/ Timeout(r) PROVE Inv'
  BY <1>1, <1>8, DeltaInv, RunEndsInv, TimeoutInv DEF ProviderTurn
<1>9. QED
  BY <1>2, <1>3, <1>4, <1>5, <1>6, <1>7, <1>8 DEF Next

\* The invariant holds throughout.
THEOREM Invariance == Spec => []Inv
<1>1. QED
  BY InitInv, NextInv, PTL DEF Spec

\* At most one run is alive, and it is the one in the slot.
THEOREM OneRunAlways == Spec => []OneRun
<1>1. Inv => OneRun
  BY DEF Inv, RequestInv, OneRun
<1>2. QED
  BY <1>1, Invariance, PTL

\* An answer comes from one provider and is stored as it was streamed.
THEOREM AnswerAlwaysWhole == Spec => []AnswerWhole
<1>1. Inv => AnswerWhole
  <2> SUFFICES ASSUME Inv, NEW r \in Requests
               PROVE  /\ \A i, j \in DOMAIN chunks[r] : chunks[r][i] = chunks[r][j]
                      /\ row[r].status \in {"done", "error", "cancelled"}
                            => row[r].text = chunks[r]
    BY DEF AnswerWhole
  <2>1. RequestInv(r) /\ chunks[r] \in Seq(Nat) /\ phase[r] \in Phases
    BY DEF Inv, TypeOK
  <2>2. Untouched(r) \/ Finished(r) \/ (Running(r) /\ row[r] = NoRow)
    BY <2>1 DEF RequestInv, Phases, Running
  <2>3. AllFrom(r, attempt[r])
    <3>1. Untouched(r) => AllFrom(r, attempt[r])
      BY DEF Untouched, AllFrom
    <3>2. QED
      BY <2>1, <2>2, <3>1 DEF RequestInv, Finished
  <2>4. \A i, j \in DOMAIN chunks[r] : chunks[r][i] = chunks[r][j]
    BY <2>1, <2>3 DEF AllFrom
  <2>5. row[r].status \in {"done", "error", "cancelled"} => row[r].text = chunks[r]
    BY <2>2 DEF Untouched, Finished, NoRow
  <2>6. QED
    BY <2>4, <2>5
<1>2. QED
  BY <1>1, Invariance, PTL

\* Text is sent only between llm_started and the ending of its request.
THEOREM ChunksAlwaysWithinRun == Spec => ChunksWithinRun
<1>1. Inv /\ [Next]_vars =>
         [\A r \in Requests : chunks'[r] # chunks[r] => heard[r] = "llm_started"]_vars
  <2> SUFFICES ASSUME Inv, Next, NEW s \in Requests, chunks'[s] # chunks[s]
               PROVE  heard[s] = "llm_started"
    OBVIOUS
  <2>1. PICK r \in Requests : Delta(r)
    BY DEF Next, LoseConnection, Shutdown, ReaderTurn, DispatchRequest, DispatchCancel,
           CancelDone, ModelRecorded, PhoneAsk, PhoneStop, SpawnLocal, CancelLocal, Loaded,
           TaskTurn, ProviderTurn, Timeout, Start, BodySkipped, StreamClosed, Unwind,
           StreamEnds, StreamFails, AttemptFails, EndRun, runVars
  <2>2. s = r
    BY <2>1 DEF Delta, Inv, TypeOK
  <2>3. QED
    BY <2>1, <2>2 DEF Delta, Inv, RequestInv, Running
<1>2. QED
  BY <1>1, Invariance, PTL DEF Spec, ChunksWithinRun
-----------------------------------------------------------------------------
(***************************************************************************)
(* How a run ends: what the phone heard, what is stored and who holds the  *)
(* slot agree.                                                             *)
(***************************************************************************)

\* What is known of a request that is through.
Fate(r) ==
    /\ heard[r] \in Endings => phase[r] \in {"refused", "over"}
    /\ phase[r] = "refused" => heard[r] = "llm_error"
    /\ phase[r] = "over" =>
          \/ heard[r] \in {"none", "llm_cancelled"} /\ row[r] = NoRow
          \/ /\ active # r
             /\ heard[r] = "llm_started" /\ row[r].status \in {"cancelled", "lost"}
          \/ /\ active # r
             /\ heard[r] \in Endings /\ row[r].status \in {StatusOf(heard[r]), "lost"}

\* The run that a stop of the phone waits for has not announced an ending of its own.
StopWaits == reader.op = "cancelling" => heard[reader.id] \notin {"llm_done", "llm_error"}

FateInv == Inv /\ (\A r \in Requests : Fate(r)) /\ StopWaits

\* What a step changes of one request says nothing about the others.
LEMMA OneFate ==
    ASSUME FateInv, NEW r \in Requests, Fate(r)', active' \in {active, r, None},
           \A s \in Requests \ {r} :
              phase'[s] = phase[s] /\ heard'[s] = heard[s] /\ row'[s] = row[s]
    PROVE  \A s \in Requests : Fate(s)'
<1> SUFFICES ASSUME NEW s \in Requests \ {r} PROVE Fate(s)'
  OBVIOUS
<1>1. Fate(s) /\ (active # s => active' # s)
  BY LlmRunnerAssumption DEF FateInv
<1>2. QED
  BY <1>1 DEF Fate

LEMMA SameFate ==
    ASSUME FateInv, UNCHANGED << phase, heard, row, active >>
    PROVE  \A s \in Requests : Fate(s)'
BY DEF FateInv, Fate

\* A request moves on without a word.
LEMMA MoveFate ==
    ASSUME FateInv, NEW r \in Requests, NEW p \in Phases \ {"refused", "over"},
           MoveTo(r, p), heard[r] \notin Endings,
           UNCHANGED << heard, row >>, active' \in {active, r, None}
    PROVE  \A s \in Requests : Fate(s)'
<1>1. phase' = [phase EXCEPT ![r] = p] /\ phase \in [Requests -> Phases]
  BY DEF MoveTo, FateInv, Inv, TypeOK
<1>2. Fate(r)'
  BY <1>1 DEF Fate
<1>3. QED
  BY <1>1, <1>2, OneFate

\* The finally block: a row, the slot, and at most the ending of that name.
LEMMA EndRunFate ==
    ASSUME FateInv, NEW r \in Requests, Running(r),
           NEW st \in {"done", "error", "cancelled"}, EndRun(r, st),
           \/ st = "cancelled" /\ UNCHANGED heard
           \/ \E e \in Endings : st = StatusOf(e) /\ heard' = [heard EXCEPT ![r] = e]
    PROVE  \A s \in Requests : Fate(s)'
<1>1. /\ TypeOK /\ RequestInv(r) /\ active = r /\ heard[r] = "llm_started"
  BY DEF FateInv, Inv, Running, Live, RequestInv
<1>2. active' = None /\ active' # r
  BY <1>1, LlmRunnerAssumption DEF EndRun, ClearActive
<1>3. phase' = [phase EXCEPT ![r] = "over"]
  BY DEF EndRun, MoveTo
<1>4. PICK v \in {[status |-> st, text |-> parts[r]], LostRow} :
          row' = [row EXCEPT ![r] = v]
  BY DEF EndRun, Persist
<1>5. v.status \in {st, "lost"}
  BY DEF LostRow
<1>6. \/ heard'[r] = "llm_started" /\ st = "cancelled"
      \/ heard'[r] \in Endings /\ st = StatusOf(heard'[r])
  BY <1>1 DEF TypeOK
<1>7. phase'[r] = "over" /\ row'[r] = v
  BY <1>1, <1>3, <1>4 DEF TypeOK
<1>8. Fate(r)'
  BY <1>2, <1>5, <1>6, <1>7 DEF Fate, StatusOf
<1>9. QED
  BY <1>1, <1>2, <1>3, <1>4, <1>8, OneFate DEF TypeOK

LEMMA StatusNames ==
    /\ StatusOf("llm_done") = "done" /\ StatusOf("llm_error") = "error"
    /\ StatusOf("llm_cancelled") = "cancelled"
BY DEF StatusOf

\* A run that ends by itself is not the one a stop waits for.
LEMMA AttemptFailsFate ==
    ASSUME FateInv, NEW r \in Requests, Running(r), ~cancelling[r], AttemptFails(r)
    PROVE  (\A s \in Requests : Fate(s)') /\ StopWaits'
<1>1. /\ TypeOK /\ ReaderInv /\ StopWaits /\ heard[r] = "llm_started"
  BY DEF FateInv, Inv, RequestInv
<1>2. ~(reader.op = "cancelling" /\ reader.id = r)
  BY <1>1 DEF ReaderInv
<1>3. CASE MayFallBack(r)
  <2>1. MoveTo(r, "streaming") /\ UNCHANGED << heard, row, active, reader >>
    BY <1>3 DEF AttemptFails, eventVars
  <2>2. QED
    BY <1>1, <2>1, MoveFate DEF Phases, Endings, StopWaits
<1>4. CASE ~MayFallBack(r)
  <2>1. EndRun(r, "error") /\ heard' = [heard EXCEPT ![r] = "llm_error"] /\ reader' = reader
    BY <1>4 DEF AttemptFails, EndRun, Emit
  <2>2. \A s \in Requests : Fate(s)'
    BY <2>1, StatusNames, EndRunFate DEF Endings
  <2>3. StopWaits'
    BY <1>1, <1>2, <2>1 DEF StopWaits, TypeOK
  <2>4. QED
    BY <2>2, <2>3
<1>5. QED
  BY <1>3, <1>4

\* The steps of a task.
LEMMA TaskFate ==
    ASSUME FateInv, NEW r \in Requests, TaskTurn(r) \/ ProviderTurn(r) \/ Timeout(r)
    PROVE  (\A s \in Requests : Fate(s)') /\ StopWaits'
<1>1. /\ TypeOK /\ RequestInv(r) /\ ReaderInv /\ StopWaits
  BY DEF FateInv, Inv
<1>2. CASE Start(r)
  <2>1. /\ phase' = [phase EXCEPT ![r] = "streaming"]
        /\ heard' = [heard EXCEPT ![r] = "llm_started"] /\ UNCHANGED << row, active, reader >>
    BY <1>2 DEF Start, MoveTo, Emit
  <2>2. Fate(r)'
    BY <1>1, <2>1 DEF Fate, TypeOK, Endings
  <2>3. \A s \in Requests : Fate(s)'
    BY <1>1, <2>1, <2>2, OneFate DEF TypeOK
  <2>4. StopWaits'
    BY <1>1, <2>1 DEF StopWaits, TypeOK
  <2>5. QED
    BY <2>3, <2>4
<1>3. CASE BodySkipped(r)
  <2>1. /\ phase' = [phase EXCEPT ![r] = "over"]
        /\ heard[r] = "none" /\ row[r] = NoRow /\ UNCHANGED << heard, row, active, reader >>
    BY <1>1, <1>3 DEF BodySkipped, MoveTo, RequestInv, Untouched, runVars, eventVars
  <2>2. Fate(r)'
    BY <1>1, <2>1 DEF Fate, TypeOK, Endings
  <2>3. QED
    BY <1>1, <2>1, <2>2, OneFate DEF TypeOK, StopWaits
<1>4. CASE StreamClosed(r) \/ StreamFails(r)
  BY <1>4, AttemptFailsFate DEF StreamClosed, StreamFails, Running
<1>5. CASE Unwind(r)
  <2>1. Running(r) /\ EndRun(r, "cancelled") /\ UNCHANGED << heard, reader >>
    BY <1>5 DEF Unwind, EndRun, eventVars
  <2>2. QED
    BY <1>1, <2>1, EndRunFate DEF StopWaits
<1>6. CASE StreamEnds(r)
  <2>1. /\ Running(r) /\ EndRun(r, "done") /\ ~cancelling[r]
        /\ heard' = [heard EXCEPT ![r] = "llm_done"] /\ reader' = reader
    BY <1>6 DEF StreamEnds, Running, EndRun, Emit
  <2>2. \A s \in Requests : Fate(s)'
    BY <2>1, StatusNames, EndRunFate DEF Endings
  <2>3. StopWaits'
    BY <1>1, <2>1 DEF StopWaits, ReaderInv, TypeOK
  <2>4. QED
    BY <2>2, <2>3
<1>7. CASE Delta(r)
  <2>1. UNCHANGED << phase, heard, row, active, reader >>
    BY <1>7 DEF Delta, eventVars
  <2>2. QED
    BY <1>1, <2>1, SameFate DEF StopWaits
<1>8. CASE Timeout(r)
  <2>1. /\ MoveTo(r, "closing") /\ UNCHANGED << heard, row, active, reader >>
        /\ heard[r] = "llm_started"
    BY <1>1, <1>8 DEF Timeout, BudgetExpired, Running, RequestInv, runVars, eventVars
  <2>2. QED
    BY <1>1, <2>1, MoveFate DEF Phases, Endings, StopWaits
<1>9. QED
  BY <1>2, <1>3, <1>4, <1>5, <1>6, <1>7, <1>8 DEF TaskTurn, ProviderTurn

\* A request before its run, from wherever it comes.
LEMMA RequestFate ==
    ASSUME FateInv, NEW r \in Requests,
           PhoneAsk(r) \/ PhoneStop(r) \/ SpawnLocal(r) \/ CancelLocal(r) \/ Loaded(r)
    PROVE  (\A s \in Requests : Fate(s)') /\ StopWaits'
<1>1. /\ TypeOK /\ RequestInv(r) /\ ReaderInv /\ StopWaits
  BY DEF FateInv, Inv
<1>2. CASE PhoneStop(r)
  <2>1. UNCHANGED << phase, heard, row, active, reader >>
    BY <1>2 DEF PhoneStop, runVars, eventVars
  <2>2. QED
    BY <1>1, <2>1, SameFate DEF StopWaits
<1>3. CASE PhoneAsk(r) \/ SpawnLocal(r) \/ CancelLocal(r)
  <2>1. /\ \E p \in {"asked", "loading", "dropped"} : MoveTo(r, p)
        /\ heard[r] = "none" /\ UNCHANGED << heard, row, active, reader >>
    BY <1>1, <1>3 DEF PhoneAsk, SpawnLocal, CancelLocal, RequestInv, runVars, eventVars
  <2>2. QED
    BY <1>1, <2>1, MoveFate DEF Phases, Endings, StopWaits
<1>4. CASE Loaded(r)
  <2>1. /\ phase[r] = "loading" /\ heard[r] = "none" /\ UNCHANGED row
        /\ reader.op = "cancelling" => reader.id # r
        /\ \/ reader' = reader
           \/ reader' \in {Idle, [op |-> "recording", id |-> r]}
    BY <1>1, <1>4
       DEF Loaded, Submit, FailToLoad, ReaderAfterLoad, RequestInv, ReaderInv, Live, runVars
  <2>2. CASE MoveTo(r, "scheduled") /\ active' = r /\ heard' = heard
    <3>1. \A s \in Requests : Fate(s)'
      BY <2>1, <2>2, MoveFate DEF Phases, Endings
    <3>2. StopWaits'
      BY <1>1, <2>1, <2>2 DEF StopWaits, Idle
    <3>3. QED
      BY <3>1, <3>2
  <2>3. CASE /\ phase' = [phase EXCEPT ![r] = "refused"] /\ active' = active
             /\ heard' = [heard EXCEPT ![r] = "llm_error"]
    <3>1. Fate(r)'
      BY <1>1, <2>3 DEF Fate, TypeOK, Endings
    <3>2. \A s \in Requests : Fate(s)'
      BY <1>1, <2>1, <2>3, <3>1, OneFate DEF TypeOK
    <3>3. StopWaits'
      BY <1>1, <2>1, <2>3, ReaderIds DEF StopWaits, Idle, TypeOK
    <3>4. QED
      BY <3>2, <3>3
  <2>4. QED
    BY <1>4, <2>2, <2>3 DEF Loaded, Submit, FailToLoad, MoveTo, Emit, eventVars
<1>5. QED
  BY <1>2, <1>3, <1>4

\* The reader and the rest of the program.
LEMMA ReaderFate ==
    ASSUME FateInv, LoseConnection \/ Shutdown \/ ReaderTurn
    PROVE  (\A s \in Requests : Fate(s)') /\ StopWaits'
<1>1. /\ TypeOK /\ ReaderInv /\ InboxInv /\ SlotInv /\ StopWaits
      /\ \A s \in Requests : RequestInv(s) /\ Fate(s)
  BY DEF FateInv, Inv
<1>2. CASE Shutdown \/ ModelRecorded
  <2>1. UNCHANGED << phase, heard, row, active >> /\ reader' \in {reader, Idle}
    BY <1>2 DEF Shutdown, ModelRecorded, runVars, eventVars
  <2>2. QED
    BY <1>1, <2>1, SameFate DEF StopWaits, Idle
<1>3. CASE LoseConnection
  <2>1. UNCHANGED << heard, row, active >> /\ reader' \in {reader, Idle}
    BY <1>3 DEF LoseConnection, runVars, eventVars
  <2>2. StopWaits'
    BY <1>1, <2>1 DEF StopWaits, Idle
  <2>3. CASE UNCHANGED phase
    BY <2>1, <2>2, <2>3, SameFate
  <2>4. CASE reader.op = "loading" /\ MoveTo(reader.id, "dropped")
    <3>1. reader.id \in Requests /\ heard[reader.id] = "none"
      BY <1>1, <2>4, ReaderIds DEF ReaderInv, RequestInv
    <3>2. QED
      BY <2>1, <2>2, <2>4, <3>1, MoveFate DEF Phases, Endings
  <2>5. QED
    BY <1>3, <2>3, <2>4 DEF LoseConnection
<1>4. CASE DispatchRequest
  <2>1. PICK r \in Requests : r = Head(inbox).id
    BY <1>1, <1>4, HeadType DEF DispatchRequest
  <2>2. phase[r] = "asked" /\ heard[r] = "none"
    BY <1>1, <1>4, <2>1, TailFrames DEF DispatchRequest, InboxInv, RequestInv
  <2>3. MoveTo(r, "loading") /\ UNCHANGED << heard, row, active >> /\ reader'.op = "loading"
    BY <1>4, <2>1 DEF DispatchRequest, runVars, eventVars
  <2>4. QED
    BY <2>2, <2>3, MoveFate DEF Phases, Endings, StopWaits
<1>5. CASE DispatchCancel
  <2>1. UNCHANGED << phase, heard, row, active >>
    BY <1>5 DEF DispatchCancel, eventVars
  <2>2. CASE UNCHANGED reader
    BY <1>1, <2>1, <2>2, SameFate DEF StopWaits
  <2>3. CASE reader' = [op |-> "cancelling", id |-> active] /\ active = Head(inbox).id
    <3>1. active \in Requests
      BY <1>1, <1>5, <2>3, HeadType DEF DispatchCancel
    <3>2. heard[active] \notin {"llm_done", "llm_error"}
      BY <1>1, <3>1, LlmRunnerAssumption
         DEF SlotInv, Live, Running, RequestInv, Fate, Untouched, NoRow, Endings
    <3>3. QED
      BY <2>1, <2>3, <3>2, SameFate DEF StopWaits
  <2>4. QED
    BY <1>5, <2>2, <2>3 DEF DispatchCancel, CancelMatches
<1>6. CASE CancelDone
  <2>1. PICK r \in Requests : r = reader.id
    BY <1>1, <1>6, ReaderIds DEF CancelDone
  <2>2. /\ phase[r] = "over" /\ heard[r] \notin {"llm_done", "llm_error"}
        /\ heard' = [heard EXCEPT ![r] = "llm_cancelled"] /\ reader' = Idle
        /\ UNCHANGED << phase, row, active >>
    BY <1>1, <1>6, <2>1 DEF CancelDone, CancelReturns, Emit, StopWaits, runVars
  <2>3. heard'[r] = "llm_cancelled" /\ Fate(r)
    BY <1>1, <2>2 DEF TypeOK
  <2>4. Fate(r)'
    BY <2>2, <2>3, StatusNames DEF Fate, Endings
  <2>5. QED
    BY <1>1, <2>2, <2>4, OneFate DEF TypeOK, StopWaits, Idle
<1>7. QED
  BY <1>2, <1>3, <1>4, <1>5, <1>6 DEF ReaderTurn

LEMMA InitFate == Init => FateInv
<1>1. Init => (\A r \in Requests : Fate(r)) /\ StopWaits
  BY DEF Init, Fate, StopWaits, Idle, Endings
<1>2. QED
  BY <1>1, InitInv DEF FateInv

LEMMA NextFate == FateInv /\ [Next]_vars => FateInv'
<1> SUFFICES ASSUME FateInv, [Next]_vars PROVE FateInv'
  OBVIOUS
<1>1. Inv'
  BY NextInv DEF FateInv
<1>2. CASE UNCHANGED vars
  <2>1. UNCHANGED << phase, heard, row, active, reader >>
    BY <1>2 DEF vars
  <2>2. QED
    BY <1>1, <2>1, SameFate DEF FateInv, StopWaits
<1>3. CASE Next
  BY <1>1, <1>3, TaskFate, RequestFate, ReaderFate DEF Next, FateInv
<1>4. QED
  BY <1>2, <1>3

LEMMA FateInvariance == Spec => []FateInv
BY InitFate, NextFate, PTL DEF Spec

-----------------------------------------------------------------------------
(***************************************************************************)
(* The runner implements the protocol it owes the phone.                   *)
(***************************************************************************)

\* How the phone sees a request, by the last lifecycle event.
ViewOf(e) == CASE e = "none" -> "unseen"
               [] e = "llm_started" -> "open"
               [] OTHER -> StatusOf(e)

View == [r \in Requests |-> ViewOf(heard[r])]

LEMMA ViewNames ==
    /\ ViewOf("none") = "unseen" /\ ViewOf("llm_started") = "open"
    /\ ViewOf("llm_done") = "done" /\ ViewOf("llm_error") = "error"
    /\ ViewOf("llm_cancelled") = "cancelled"
BY StatusNames DEF ViewOf

LEMMA ViewStep ==
    ASSUME TypeOK, NEW r \in Requests, NEW e \in Events, heard' = [heard EXCEPT ![r] = e]
    PROVE  View' = [View EXCEPT ![r] = ViewOf(e)] /\ View[r] = ViewOf(heard[r])
<1>1. heard \in [Requests -> Events]
  BY DEF TypeOK
<1>2. \A s \in Requests : heard'[s] = IF s = r THEN e ELSE heard[s]
  BY <1>1
<1>3. QED
  BY <1>1, <1>2 DEF View

\* A step that sends no event and touches neither text nor rows.
LEMMA ProtocolStutters ==
    ASSUME UNCHANGED << heard, chunks, row >>
    PROVE  [Protocol!Next]_(Protocol!vars)
<1>1. UNCHANGED Protocol!vars
  BY DEF Protocol!vars
<1>2. QED
  BY <1>1

\* The finally block settles an answer that is open.
LEMMA EndRunSettles ==
    ASSUME Inv, NEW r \in Requests, Running(r),
           NEW st \in {"done", "error", "cancelled"}, EndRun(r, st),
           \/ st = "cancelled" /\ UNCHANGED heard
           \/ st # "cancelled" /\
              \E e \in Endings : st = StatusOf(e) /\ heard' = [heard EXCEPT ![r] = e]
    PROVE  Protocol!Next
<1>1. TypeOK /\ heard[r] = "llm_started" /\ row[r] = NoRow /\ parts[r] = chunks[r]
  BY DEF Inv, RequestInv
<1>2. View[r] = "open"
  BY <1>1, ViewNames DEF View
<1>3. PICK v \in {[status |-> st, text |-> chunks[r]], LostRow} :
          row' = [row EXCEPT ![r] = v]
  BY <1>1 DEF EndRun, Persist
<1>4. View' = IF st = "cancelled" THEN View ELSE [View EXCEPT ![r] = st]
  <2>1. CASE st = "cancelled" /\ UNCHANGED heard
    BY <2>1 DEF View
  <2>2. ASSUME NEW e \in Endings, st # "cancelled", st = StatusOf(e),
               heard' = [heard EXCEPT ![r] = e]
        PROVE  View' = [View EXCEPT ![r] = st]
    <3>1. e \in Events /\ ViewOf(e) = st
      BY <2>2, ViewNames, StatusNames DEF Events, Endings
    <3>2. View' = [View EXCEPT ![r] = ViewOf(e)]
      BY <1>1, <2>2, <3>1, ViewStep
    <3>3. QED
      BY <3>1, <3>2
  <2>3. QED
    BY <2>1, <2>2
<1>5. chunks' = chunks
  BY DEF EndRun
<1>6. Protocol!Settle(r, st)
  BY <1>1, <1>2, <1>3, <1>4, <1>5
     DEF Protocol!Settle, Protocol!Unsaved, Protocol!Lost, NoRow, LostRow, View, ViewOf
<1>7. QED
  BY <1>6 DEF Protocol!Next, Protocol!Outcomes

\* Every other event of a request that is not open yet.
LEMMA UnseenSteps ==
    ASSUME TypeOK, NEW r \in Requests, heard[r] = "none", UNCHANGED << chunks, row >>,
           NEW e \in {"llm_started", "llm_error", "llm_cancelled"},
           heard' = [heard EXCEPT ![r] = e]
    PROVE  Protocol!Next
<1>1. View[r] = "unseen" /\ View' = [View EXCEPT ![r] = ViewOf(e)]
  BY ViewStep, ViewNames DEF Events, Endings
<1>2. Protocol!Open(r) \/ Protocol!Refuse(r) \/ Protocol!Withdraw(r)
  BY <1>1, ViewNames DEF Protocol!Open, Protocol!Refuse, Protocol!Withdraw, View, ViewOf
<1>3. QED
  BY <1>2 DEF Protocol!Next

LEMMA AttemptFailsProtocol ==
    ASSUME Inv, NEW r \in Requests, Running(r), AttemptFails(r)
    PROVE  [Protocol!Next]_(Protocol!vars)
<1>1. CASE MayFallBack(r)
  BY <1>1, ProtocolStutters DEF AttemptFails, eventVars
<1>2. CASE ~MayFallBack(r)
  <2>1. EndRun(r, "error") /\ heard' = [heard EXCEPT ![r] = "llm_error"]
    BY <1>2 DEF AttemptFails, Emit
  <2>2. QED
    BY <2>1, EndRunSettles, StatusNames DEF Endings
<1>3. QED
  BY <1>1, <1>2

LEMMA TaskProtocol ==
    ASSUME Inv, NEW r \in Requests, TaskTurn(r) \/ ProviderTurn(r) \/ Timeout(r)
    PROVE  [Protocol!Next]_(Protocol!vars)
<1>1. TypeOK /\ RequestInv(r)
  BY DEF Inv
<1>2. CASE Start(r)
  <2>1. /\ heard[r] = "none" /\ heard' = [heard EXCEPT ![r] = "llm_started"]
        /\ UNCHANGED << chunks, row >>
    BY <1>1, <1>2 DEF Start, Emit, RequestInv
  <2>2. QED
    BY <1>1, <2>1, UnseenSteps
<1>3. CASE BodySkipped(r) \/ Timeout(r)
  BY <1>3, ProtocolStutters DEF BodySkipped, Timeout, runVars, eventVars
<1>4. CASE StreamClosed(r) \/ StreamFails(r)
  BY <1>4, AttemptFailsProtocol DEF StreamClosed, StreamFails, Running
<1>5. CASE Unwind(r)
  <2>1. Running(r) /\ EndRun(r, "cancelled") /\ UNCHANGED heard
    BY <1>5 DEF Unwind, eventVars
  <2>2. QED
    BY <2>1, EndRunSettles
<1>6. CASE StreamEnds(r)
  <2>1. Running(r) /\ EndRun(r, "done") /\ heard' = [heard EXCEPT ![r] = "llm_done"]
    BY <1>6 DEF StreamEnds, Running, Emit
  <2>2. QED
    BY <2>1, EndRunSettles, StatusNames DEF Endings
<1>7. CASE Delta(r)
  <2>1. /\ heard[r] = "llm_started" /\ row[r] = NoRow /\ attempt[r] \in 1..Chain[r]
        /\ chunks' = [chunks EXCEPT ![r] = Append(@, attempt[r])]
        /\ UNCHANGED << heard, row >>
    BY <1>1, <1>7 DEF Delta, RequestInv, Running, eventVars
  <2>2. View[r] = "open" /\ View' = View
    BY <2>1, ViewNames DEF View
  <2>3. attempt[r] \in UNION {1..Chain[s] : s \in Requests}
    BY <2>1
  <2>4. Protocol!Extend(r)
    BY <2>1, <2>2, <2>3 DEF Protocol!Extend, Protocol!Unsaved, NoRow, View, ViewOf
  <2>5. QED
    BY <2>4 DEF Protocol!Next
<1>8. QED
  BY <1>2, <1>3, <1>4, <1>5, <1>6, <1>7 DEF TaskTurn, ProviderTurn

LEMMA RequestProtocol ==
    ASSUME FateInv, NEW r \in Requests,
           PhoneAsk(r) \/ PhoneStop(r) \/ SpawnLocal(r) \/ CancelLocal(r) \/ Loaded(r)
    PROVE  [Protocol!Next]_(Protocol!vars)
<1>1. TypeOK /\ RequestInv(r)
  BY DEF FateInv, Inv
<1>2. CASE PhoneAsk(r) \/ PhoneStop(r) \/ SpawnLocal(r) \/ CancelLocal(r)
  BY <1>2, ProtocolStutters
     DEF PhoneAsk, PhoneStop, SpawnLocal, CancelLocal, runVars, eventVars
<1>3. CASE Loaded(r)
  <2>1. heard[r] = "none" /\ UNCHANGED << chunks, row >>
    BY <1>1, <1>3 DEF Loaded, RequestInv, runVars
  <2>2. heard' = heard \/ heard' = [heard EXCEPT ![r] = "llm_error"]
    BY <1>3 DEF Loaded, Submit, FailToLoad, Emit, eventVars
  <2>3. QED
    BY <1>1, <2>1, <2>2, UnseenSteps, ProtocolStutters
<1>4. QED
  BY <1>2, <1>3

LEMMA ReaderProtocol ==
    ASSUME FateInv, LoseConnection \/ Shutdown \/ ReaderTurn
    PROVE  [Protocol!Next]_(Protocol!vars)
<1>1. TypeOK /\ ReaderInv /\ StopWaits
  BY DEF FateInv, Inv
<1>2. CASE LoseConnection \/ Shutdown \/ DispatchRequest \/ DispatchCancel \/ ModelRecorded
  BY <1>2, ProtocolStutters
     DEF LoseConnection, Shutdown, DispatchRequest, DispatchCancel, ModelRecorded,
         runVars, eventVars
<1>3. CASE CancelDone
  <2>1. PICK s \in Requests : s = reader.id
    BY <1>1, <1>3, ReaderIds DEF CancelDone
  <2>2. /\ phase[s] = "over" /\ heard' = [heard EXCEPT ![s] = "llm_cancelled"]
        /\ UNCHANGED << chunks, row >> /\ Fate(s)
        /\ heard[s] \in Events \ {"llm_done", "llm_error"}
    BY <1>1, <1>3, <2>1
       DEF CancelDone, CancelReturns, Emit, StopWaits, runVars, FateInv, TypeOK
  <2>3. CASE heard[s] = "none"
    BY <1>1, <2>2, <2>3, UnseenSteps
  <2>4. CASE heard[s] = "llm_started"
    <3>1. View[s] = "open" /\ View' = [View EXCEPT ![s] = "cancelled"]
      <4>1. "llm_cancelled" \in Events
        BY DEF Events, Endings
      <4>2. View' = [View EXCEPT ![s] = ViewOf("llm_cancelled")] /\ View[s] = ViewOf(heard[s])
        BY <1>1, <2>2, <4>1, ViewStep
      <4>3. QED
        BY <2>4, <4>2, ViewNames
    <3>2. row[s].status \in {"cancelled", "lost"}
      BY <2>2, <2>4 DEF Fate, Endings
    <3>3. Protocol!AnnounceCancelled(s)
      BY <2>2, <3>1, <3>2 DEF Protocol!AnnounceCancelled, View, ViewOf
    <3>4. QED
      BY <3>3 DEF Protocol!Next
  <2>5. CASE heard[s] = "llm_cancelled"
    BY <1>1, <2>2, <2>5, ProtocolStutters DEF TypeOK
  <2>6. QED
    BY <2>2, <2>3, <2>4, <2>5 DEF Events, Endings
<1>4. QED
  BY <1>2, <1>3 DEF ReaderTurn

LEMMA InitProtocol == Init => Protocol!Init
<1> SUFFICES ASSUME Init PROVE Protocol!Init
  OBVIOUS
<1>1. \A r \in Requests : heard[r] = "none"
  BY DEF Init
<1>2. View = [r \in Requests |-> "unseen"]
  BY <1>1, ViewNames DEF View
<1>3. QED
  BY <1>2 DEF Init, Protocol!Init, Protocol!Unsaved, NoRow, View, ViewOf

\* Every behaviour of the runner is one of the answer protocol: a run is opened
\* before any text, its row is stored before its ending is told, and the text, the
\* row and the ending do not change afterwards, also when a fallback, a timeout and
\* a stop of the phone meet.
THEOREM ProtocolKept == Spec => KeepsProtocol
<1>1. FateInv /\ [Next]_vars => [Protocol!Next]_(Protocol!vars)
  <2> SUFFICES ASSUME FateInv, [Next]_vars PROVE [Protocol!Next]_(Protocol!vars)
    OBVIOUS
  <2>1. CASE UNCHANGED vars
    BY <2>1, ProtocolStutters DEF vars
  <2>2. CASE LoseConnection \/ Shutdown \/ ReaderTurn
    BY <2>2, ReaderProtocol
  <2>3. ASSUME NEW r \in Requests,
               PhoneAsk(r) \/ PhoneStop(r) \/ SpawnLocal(r) \/ CancelLocal(r) \/ Loaded(r)
        PROVE  [Protocol!Next]_(Protocol!vars)
    BY <2>3, RequestProtocol
  <2>4. ASSUME NEW r \in Requests, TaskTurn(r) \/ ProviderTurn(r) \/ Timeout(r)
        PROVE  [Protocol!Next]_(Protocol!vars)
    BY <2>4, TaskProtocol DEF FateInv
  <2>5. QED
    BY <2>1, <2>2, <2>3, <2>4 DEF Next
<1>2. QED
  BY <1>1, InitProtocol, FateInvariance, PTL DEF Spec, KeepsProtocol, Protocol!Spec

-----------------------------------------------------------------------------
(***************************************************************************)
(* Endings, for a phone that only stops what it was told of.  Of a phone   *)
(* that does more, LlmRunnerLeak.cfg shows what becomes of the slot.       *)
(***************************************************************************)

\* A request that ended was told so once, has left the slot, and has a row if
\* it had a run.
Announced(r) ==
    /\ endings[r] = IF heard[r] \in Endings THEN 1 ELSE 0
    /\ heard[r] \in Endings => active # r
    /\ heard[r] \in Endings /\ phase[r] = "over" => row[r] # NoRow

\* A stop is for a request that was told of its start, the one in progress is for
\* a run.
StopsKnown ==
    /\ \A i \in 1..Len(inbox) : inbox[i].type = "llm_cancel" => heard[inbox[i].id] # "none"
    /\ reader.op = "cancelling" => heard[reader.id] = "llm_started"

EndingInv == FateInv /\ (\A r \in Requests : Announced(r)) /\ StopsKnown

\* A step that announces nothing: what ended before is not touched.
LEMMA SilentEnding ==
    ASSUME EndingInv, UNCHANGED << heard, endings >>,
           active' \in {active, None} \/ heard[active'] \notin Endings,
           \A s \in Requests : heard[s] \in Endings => phase'[s] = phase[s] /\ row'[s] = row[s]
    PROVE  \A s \in Requests : Announced(s)'
<1> SUFFICES ASSUME NEW s \in Requests PROVE Announced(s)'
  OBVIOUS
<1>1. Announced(s) /\ s # None
  BY LlmRunnerAssumption DEF EndingInv
<1>2. QED
  BY <1>1 DEF Announced

\* A step that announces something of a request that has not ended.
LEMMA EmitEnding ==
    ASSUME EndingInv, NEW r \in Requests, NEW e \in Events, Emit(r, e),
           heard[r] \notin Endings, active' \in {active, None},
           e \in Endings => active' # r /\ (phase'[r] = "over" => row'[r] # NoRow),
           \A s \in Requests \ {r} : phase'[s] = phase[s] /\ row'[s] = row[s]
    PROVE  \A s \in Requests : Announced(s)'
<1>1. TypeOK
  BY DEF EndingInv, FateInv, Inv
<1>2. /\ heard' = [heard EXCEPT ![r] = e]
      /\ endings' = IF e \in Endings THEN [endings EXCEPT ![r] = @ + 1] ELSE endings
  BY DEF Emit
<1>3. Announced(r)'
  <2>1. Announced(r) /\ heard'[r] = e
    BY <1>1, <1>2 DEF EndingInv, TypeOK
  <2>2. endings[r] = 0 /\ endings \in [Requests -> Nat]
    BY <1>1, <2>1 DEF Announced, TypeOK
  <2>3. endings'[r] = IF e \in Endings THEN 1 ELSE 0
    BY <1>2, <2>2
  <2>4. QED
    BY <2>1, <2>3 DEF Announced
<1>4. ASSUME NEW s \in Requests \ {r} PROVE Announced(s)'
  <2>1. Announced(s) /\ s # None
    BY LlmRunnerAssumption DEF EndingInv
  <2>2. heard'[s] = heard[s] /\ endings'[s] = endings[s]
    BY <1>1, <1>2 DEF TypeOK
  <2>3. QED
    BY <2>1, <2>2 DEF Announced
<1>5. QED
  BY <1>3, <1>4

\* What ends a run: the request was told of its start and holds the slot.
LEMMA EndRunFacts ==
    ASSUME EndingInv, NEW r \in Requests, Running(r),
           NEW st \in {"done", "error", "cancelled"}, EndRun(r, st)
    PROVE  /\ heard[r] = "llm_started" /\ active' = None /\ row'[r] # NoRow
           /\ \A s \in Requests \ {r} : phase'[s] = phase[s] /\ row'[s] = row[s]
<1>1. TypeOK /\ active = r /\ heard[r] = "llm_started"
  BY DEF EndingInv, FateInv, Inv, Running, Live, RequestInv
<1>2. active' = None /\ phase' = [phase EXCEPT ![r] = "over"]
  BY <1>1 DEF EndRun, ClearActive, MoveTo
<1>3. PICK v \in {[status |-> st, text |-> parts[r]], LostRow} :
          row' = [row EXCEPT ![r] = v]
  BY DEF EndRun, Persist
<1>4. v.status # "none"
  BY DEF LostRow
<1>5. row'[r] = v
  BY <1>1, <1>3 DEF TypeOK
<1>6. row'[r] # NoRow
  BY <1>4, <1>5 DEF NoRow
<1>7. QED
  BY <1>1, <1>2, <1>3, <1>6 DEF TypeOK

LEMMA AttemptFailsEnding ==
    ASSUME EndingInv, NEW r \in Requests, Running(r), AttemptFails(r)
    PROVE  \A s \in Requests : Announced(s)'
<1>1. TypeOK /\ heard[r] = "llm_started"
  BY DEF EndingInv, FateInv, Inv, RequestInv
<1>2. CASE MayFallBack(r)
  <2>1. /\ UNCHANGED << heard, endings, row, active >>
        /\ \A s \in Requests \ {r} : phase'[s] = phase[s]
    BY <1>1, <1>2 DEF AttemptFails, eventVars, MoveTo, TypeOK
  <2>2. QED
    BY <1>1, <2>1, SilentEnding DEF Endings
<1>3. CASE ~MayFallBack(r)
  <2>1. EndRun(r, "error") /\ Emit(r, "llm_error")
    BY <1>3 DEF AttemptFails
  <2>2. /\ active' = None /\ row'[r] # NoRow
        /\ \A s \in Requests \ {r} : phase'[s] = phase[s] /\ row'[s] = row[s]
    BY <2>1, EndRunFacts
  <2>3. QED
    BY <1>1, <2>1, <2>2, EmitEnding, LlmRunnerAssumption DEF Endings, Events
<1>4. QED
  BY <1>2, <1>3

LEMMA TaskEnding ==
    ASSUME EndingInv, NEW r \in Requests, TaskTurn(r) \/ ProviderTurn(r) \/ Timeout(r)
    PROVE  \A s \in Requests : Announced(s)'
<1>1. TypeOK /\ RequestInv(r)
  BY DEF EndingInv, FateInv, Inv
<1>2. CASE Start(r)
  <2>1. /\ Emit(r, "llm_started") /\ heard[r] = "none" /\ UNCHANGED << row, active >>
        /\ \A s \in Requests \ {r} : phase'[s] = phase[s]
    BY <1>1, <1>2 DEF Start, RequestInv, MoveTo, TypeOK
  <2>2. QED
    BY <2>1, EmitEnding DEF Endings, Events
<1>3. CASE BodySkipped(r) \/ Timeout(r)
  <2>1. /\ UNCHANGED << heard, endings, row, active >> /\ heard[r] \in {"none", "llm_started"}
        /\ \A s \in Requests \ {r} : phase'[s] = phase[s]
    BY <1>1, <1>3 DEF BodySkipped, Timeout, BudgetExpired, Running, RequestInv, MoveTo, TypeOK,
                      runVars, eventVars
  <2>2. QED
    BY <2>1, SilentEnding DEF Endings
<1>4. CASE StreamClosed(r) \/ StreamFails(r)
  BY <1>4, AttemptFailsEnding DEF StreamClosed, StreamFails, Running
<1>5. CASE Unwind(r)
  <2>1. Running(r) /\ EndRun(r, "cancelled") /\ UNCHANGED << heard, endings >>
    BY <1>5 DEF Unwind, eventVars
  <2>2. QED
    BY <2>1, EndRunFacts, SilentEnding DEF Endings
<1>6. CASE StreamEnds(r)
  <2>1. Running(r) /\ EndRun(r, "done") /\ Emit(r, "llm_done")
    BY <1>6 DEF StreamEnds, Running
  <2>2. /\ active' = None /\ row'[r] # NoRow /\ heard[r] = "llm_started"
        /\ \A s \in Requests \ {r} : phase'[s] = phase[s] /\ row'[s] = row[s]
    BY <2>1, EndRunFacts
  <2>3. QED
    BY <2>1, <2>2, EmitEnding, LlmRunnerAssumption DEF Endings, Events
<1>7. CASE Delta(r)
  BY <1>7, SilentEnding DEF Delta, eventVars
<1>8. QED
  BY <1>2, <1>3, <1>4, <1>5, <1>6, <1>7 DEF TaskTurn, ProviderTurn

LEMMA RequestEnding ==
    ASSUME EndingInv, NEW r \in Requests,
           PhoneAsk(r) \/ PhoneStop(r) \/ SpawnLocal(r) \/ CancelLocal(r) \/ Loaded(r)
    PROVE  \A s \in Requests : Announced(s)'
<1>1. TypeOK /\ RequestInv(r) /\ SlotInv
  BY DEF EndingInv, FateInv, Inv
<1>2. CASE PhoneStop(r)
  BY <1>2, SilentEnding DEF PhoneStop, runVars, eventVars
<1>3. CASE PhoneAsk(r) \/ SpawnLocal(r) \/ CancelLocal(r)
  <2>1. /\ UNCHANGED << heard, endings, row, active >> /\ heard[r] = "none"
        /\ \A s \in Requests \ {r} : phase'[s] = phase[s]
    BY <1>1, <1>3 DEF PhoneAsk, SpawnLocal, CancelLocal, RequestInv, MoveTo, TypeOK,
                      runVars, eventVars
  <2>2. QED
    BY <2>1, SilentEnding DEF Endings
<1>4. CASE Loaded(r)
  <2>1. heard[r] = "none" /\ phase[r] = "loading" /\ UNCHANGED row
    BY <1>1, <1>4 DEF Loaded, RequestInv, runVars
  <2>2. \A s \in Requests \ {r} : phase'[s] = phase[s]
    BY <1>1, <1>4 DEF Loaded, Submit, FailToLoad, MoveTo, TypeOK
  <2>3. CASE active' = r /\ UNCHANGED << heard, endings >>
    BY <2>1, <2>2, <2>3, SilentEnding DEF Endings
  <2>4. CASE phase'[r] = "refused" /\ Emit(r, "llm_error") /\ active' = active
    <3>1. active # r
      BY <1>1, <2>1, LlmRunnerAssumption DEF SlotInv, Live
    <3>2. QED
      BY <2>1, <2>2, <2>4, <3>1, EmitEnding DEF Endings, Events
  <2>5. QED
    BY <1>1, <1>4, <2>3, <2>4 DEF Loaded, Submit, FailToLoad, MoveTo, TypeOK, eventVars
<1>5. QED
  BY <1>2, <1>3, <1>4

LEMMA ReaderEnding ==
    ASSUME EndingInv, LoseConnection \/ Shutdown \/ ReaderTurn
    PROVE  \A s \in Requests : Announced(s)'
<1>1. /\ TypeOK /\ ReaderInv /\ InboxInv /\ StopsKnown
      /\ \A s \in Requests : RequestInv(s) /\ Fate(s)
  BY DEF EndingInv, FateInv, Inv
<1>2. CASE Shutdown \/ ModelRecorded \/ DispatchCancel
  BY <1>2, SilentEnding DEF Shutdown, ModelRecorded, DispatchCancel, runVars, eventVars
<1>3. CASE LoseConnection \/ DispatchRequest
  <2>1. /\ UNCHANGED << heard, endings, row, active >>
        /\ UNCHANGED phase \/ \E r \in Requests, p \in Phases :
              heard[r] = "none" /\ phase' = [phase EXCEPT ![r] = p]
    <3>1. CASE LoseConnection
      BY <1>1, <3>1, ReaderIds DEF LoseConnection, ReaderInv, RequestInv, MoveTo, Phases,
                                   runVars, eventVars
    <3>2. CASE DispatchRequest
      <4>1. PICK r \in Requests : r = Head(inbox).id
        BY <1>1, <3>2, HeadType DEF DispatchRequest
      <4>2. phase[r] = "asked" /\ heard[r] = "none"
        BY <1>1, <3>2, <4>1, TailFrames DEF DispatchRequest, InboxInv, RequestInv
      <4>3. QED
        BY <3>2, <4>1, <4>2 DEF DispatchRequest, MoveTo, Phases, runVars, eventVars
    <3>3. QED
      BY <1>3, <3>1, <3>2
  <2>2. \A s \in Requests : heard[s] \in Endings => phase'[s] = phase[s]
    BY <1>1, <2>1 DEF TypeOK, Endings
  <2>3. QED
    BY <2>1, <2>2, SilentEnding
<1>4. CASE CancelDone
  <2>1. PICK r \in Requests : r = reader.id
    BY <1>1, <1>4, ReaderIds DEF CancelDone
  <2>2. /\ phase[r] = "over" /\ heard[r] = "llm_started" /\ Emit(r, "llm_cancelled")
        /\ UNCHANGED << phase, row, active >>
    BY <1>1, <1>4, <2>1 DEF CancelDone, CancelReturns, StopsKnown, runVars
  <2>3. active # r /\ row[r].status \in {"cancelled", "lost"}
    BY <1>1, <2>2 DEF Fate, Endings
  <2>4. row[r] # NoRow
    BY <2>3 DEF NoRow
  <2>5. QED
    BY <2>2, <2>3, <2>4, EmitEnding DEF Endings, Events
<1>5. QED
  BY <1>2, <1>3, <1>4 DEF ReaderTurn

\* A step that speaks of r, and never of the run a stop waits for, unless the
\* reader that waits for it is done.
SpeaksOf(r) ==
    /\ \E e \in Events : e # "none" /\ heard' = [heard EXCEPT ![r] = e]
    /\ reader.op = "cancelling" /\ reader.id = r /\ heard[r] # "none" => reader' = Idle

LEMMA HeardMoves ==
    ASSUME FateInv, [Next]_vars
    PROVE  UNCHANGED heard \/ \E r \in Requests : SpeaksOf(r)
<1>1. /\ TypeOK /\ ReaderInv /\ \A s \in Requests : RequestInv(s)
      /\ \A e \in Endings \cup {"llm_started"} : e \in Events /\ e # "none"
  BY DEF FateInv, Inv, Events, Endings
<1>2. CASE UNCHANGED vars \/ LoseConnection \/ Shutdown
  BY <1>2 DEF vars, LoseConnection, Shutdown, eventVars
<1>3. CASE ReaderTurn
  <2>1. CASE CancelDone
    <3>1. reader.id \in Requests
      BY <1>1, <2>1, ReaderIds DEF CancelDone
    <3>2. QED
      BY <1>1, <2>1, <3>1 DEF CancelDone, Emit, SpeaksOf, Endings
  <2>2. CASE DispatchRequest \/ DispatchCancel \/ ModelRecorded
    BY <2>2 DEF DispatchRequest, DispatchCancel, ModelRecorded, eventVars
  <2>3. QED
    BY <1>3, <2>1, <2>2 DEF ReaderTurn
<1>4. ASSUME NEW r \in Requests,
             \/ PhoneAsk(r) \/ PhoneStop(r) \/ SpawnLocal(r) \/ CancelLocal(r)
             \/ BodySkipped(r) \/ Unwind(r) \/ Delta(r) \/ Timeout(r)
      PROVE  UNCHANGED heard
  BY <1>4 DEF PhoneAsk, PhoneStop, SpawnLocal, CancelLocal, BodySkipped, Unwind, Delta,
              Timeout, eventVars
<1>5. ASSUME NEW r \in Requests, Start(r) \/ Loaded(r)
      PROVE  UNCHANGED heard \/ SpeaksOf(r)
  <2>1. heard[r] = "none"
    BY <1>1, <1>5 DEF Start, Loaded, RequestInv
  <2>2. \/ UNCHANGED heard
        \/ \E e \in {"llm_started", "llm_error"} : heard' = [heard EXCEPT ![r] = e]
    BY <1>5 DEF Start, Loaded, Submit, FailToLoad, Emit, eventVars
  <2>3. QED
    BY <1>1, <2>1, <2>2 DEF SpeaksOf, Endings
<1>6. ASSUME NEW r \in Requests, StreamEnds(r) \/ StreamFails(r) \/ StreamClosed(r)
      PROVE  UNCHANGED heard \/ SpeaksOf(r)
  <2>1. ~(reader.op = "cancelling" /\ reader.id = r)
    BY <1>1, <1>6 DEF StreamEnds, StreamFails, StreamClosed, ReaderInv
  <2>2. \/ UNCHANGED heard
        \/ \E e \in {"llm_done", "llm_error"} : heard' = [heard EXCEPT ![r] = e]
    BY <1>6 DEF StreamEnds, StreamFails, StreamClosed, AttemptFails, Emit, eventVars
  <2>3. QED
    BY <1>1, <2>1, <2>2 DEF SpeaksOf, Endings
<1>7. QED
  BY <1>2, <1>3, <1>4, <1>5, <1>6 DEF Next, TaskTurn, ProviderTurn

\* Nothing that was told is taken back.
LEMMA HeardGrows ==
    ASSUME FateInv, [Next]_vars, NEW s \in Requests, heard[s] # "none"
    PROVE  heard'[s] # "none"
BY HeardMoves DEF SpeaksOf, FateInv, Inv, TypeOK

\* What becomes of the frames that wait for the reader.
LEMMA InboxMoves ==
    ASSUME [Next]_vars
    PROVE  \/ inbox' \in {inbox, << >>}
           \/ inbox # << >> /\ inbox' = Tail(inbox)
           \/ \E r \in Requests : inbox' = Append(inbox, [type |-> "llm_request", id |-> r])
           \/ \E r \in Requests : /\ PhoneKnows(r)
                                  /\ inbox' = Append(inbox, [type |-> "llm_cancel", id |-> r])
<1>1. CASE UNCHANGED vars \/ LoseConnection \/ Shutdown \/ ReaderTurn
  BY <1>1 DEF vars, LoseConnection, Shutdown, ReaderTurn, DispatchRequest, DispatchCancel,
              CancelDone, ModelRecorded, phoneVars
<1>2. ASSUME NEW r \in Requests, TaskTurn(r) \/ ProviderTurn(r) \/ Timeout(r)
      PROVE  UNCHANGED inbox
  BY <1>2 DEF TaskTurn, ProviderTurn, Timeout, Start, BodySkipped, StreamClosed, Unwind, Delta,
              StreamEnds, StreamFails, AttemptFails, EndRun, phoneVars
<1>3. ASSUME NEW r \in Requests, SpawnLocal(r) \/ CancelLocal(r) \/ Loaded(r)
      PROVE  UNCHANGED inbox
  BY <1>3 DEF SpawnLocal, CancelLocal, Loaded, phoneVars
<1>4. QED
  BY <1>1, <1>2, <1>3 DEF Next, PhoneAsk, PhoneStop

\* What the reader may come to wait for.
LEMMA ReaderMoves ==
    ASSUME [Next]_vars, reader'.op = "cancelling"
    PROVE  \/ UNCHANGED reader
           \/ /\ inbox # << >> /\ Head(inbox).type = "llm_cancel" /\ Head(inbox).id = active
              /\ reader'.id = active /\ UNCHANGED heard
<1>1. CASE UNCHANGED vars \/ LoseConnection \/ Shutdown \/ ReaderTurn
  BY <1>1 DEF vars, LoseConnection, Shutdown, ReaderTurn, DispatchRequest, DispatchCancel,
              CancelDone, ModelRecorded, CancelMatches, Idle, eventVars
<1>2. ASSUME NEW r \in Requests, TaskTurn(r) \/ ProviderTurn(r) \/ Timeout(r)
      PROVE  UNCHANGED reader
  BY <1>2 DEF TaskTurn, ProviderTurn, Timeout, Start, BodySkipped, StreamClosed, Unwind, Delta,
              StreamEnds, StreamFails, AttemptFails, EndRun
<1>3. ASSUME NEW r \in Requests,
             PhoneAsk(r) \/ PhoneStop(r) \/ SpawnLocal(r) \/ CancelLocal(r) \/ Loaded(r)
      PROVE  UNCHANGED reader
  BY <1>3 DEF PhoneAsk, PhoneStop, SpawnLocal, CancelLocal, Loaded, Submit, FailToLoad,
              ReaderAfterLoad, Idle
<1>4. QED
  BY <1>1, <1>2, <1>3 DEF Next

\* A phone that stops only what it was told of keeps the stops to what was told.
LEMMA StopsStayKnown ==
    ASSUME EagerStop = FALSE, EndingInv, [Next]_vars
    PROVE  StopsKnown'
<1>1. /\ FateInv /\ TypeOK /\ ReaderInv /\ SlotInv /\ StopsKnown /\ inbox \in Seq(Frames)
      /\ \A s \in Requests : RequestInv(s) /\ Fate(s) /\ Announced(s)
  BY DEF EndingInv, FateInv, Inv, TypeOK
<1>2. \A s \in Requests : heard[s] # "none" => heard'[s] # "none"
  BY <1>1, HeardGrows
<1>3. ASSUME NEW i \in 1..Len(inbox'), inbox'[i].type = "llm_cancel"
      PROVE  heard'[inbox'[i].id] # "none"
  <2>1. CASE inbox' = inbox
    BY <1>1, <1>2, <1>3, <2>1, InboxIds DEF StopsKnown
  <2>2. CASE inbox' = << >>
    BY <1>3, <2>2
  <2>3. CASE inbox # << >> /\ inbox' = Tail(inbox)
    <3>1. i + 1 \in 1..Len(inbox) /\ inbox'[i] = inbox[i + 1]
      BY <1>1, <1>3, <2>3, TailFrames
    <3>2. QED
      BY <1>1, <1>2, <1>3, <3>1, InboxIds DEF StopsKnown
  <2>4. ASSUME NEW r \in Requests, NEW f \in Frames, inbox' = Append(inbox, f), f.id = r,
               f.type = "llm_cancel" => heard[r] # "none"
        PROVE  heard'[inbox'[i].id] # "none"
    <3>1. /\ Len(inbox') = Len(inbox) + 1 /\ inbox'[Len(inbox) + 1] = f
          /\ \A k \in 1..Len(inbox) : inbox'[k] = inbox[k]
      BY <1>1, <2>4
    <3>2. CASE i \in 1..Len(inbox)
      BY <1>1, <1>2, <1>3, <3>1, <3>2, InboxIds DEF StopsKnown
    <3>3. CASE i = Len(inbox) + 1
      BY <1>2, <1>3, <2>4, <3>1, <3>3
    <3>4. Len(inbox) \in Nat
      BY <1>1
    <3>5. QED
      BY <1>3, <3>1, <3>2, <3>3, <3>4
  <2>5. \A r \in Requests : /\ [type |-> "llm_request", id |-> r] \in Frames
                            /\ [type |-> "llm_cancel", id |-> r] \in Frames
    BY DEF Frames
  <2>6. QED
    BY <2>1, <2>2, <2>3, <2>4, <2>5, InboxMoves DEF PhoneKnows
<1>4. ASSUME reader'.op = "cancelling" PROVE heard'[reader'.id] = "llm_started"
  <2>1. CASE UNCHANGED reader
    <3>1. reader.id \in Requests /\ heard[reader.id] = "llm_started" /\ reader # Idle
      BY <1>1, <1>4, <2>1, ReaderIds DEF StopsKnown, Idle
    <3>2. QED
      BY <1>1, <1>4, <2>1, <3>1, HeardMoves DEF SpeaksOf, TypeOK
  <2>2. CASE /\ inbox # << >> /\ Head(inbox).type = "llm_cancel" /\ Head(inbox).id = active
             /\ reader'.id = active /\ UNCHANGED heard
    <3>1. active \in Requests /\ heard[active] # "none"
      <4>1. Head(inbox) = inbox[1] /\ 1 \in 1..Len(inbox)
        BY <1>1, <2>2
      <4>2. QED
        BY <1>1, <2>2, <4>1, InboxIds DEF StopsKnown
    <3>2. heard[active] \notin Endings /\ heard[active] \in Events
      BY <1>1, <3>1 DEF Announced, TypeOK
    <3>3. QED
      BY <2>2, <3>1, <3>2 DEF Events
  <2>3. QED
    BY <1>4, <2>1, <2>2, ReaderMoves
<1>5. QED
  BY <1>3, <1>4 DEF StopsKnown

LEMMA EndingInvariance ==
    ASSUME EagerStop = FALSE
    PROVE  Spec => []EndingInv
<1>1. Init => EndingInv
  <2>1. Init => (\A r \in Requests : Announced(r)) /\ StopsKnown
    BY DEF Init, Announced, StopsKnown, Idle, Endings
  <2>2. QED
    BY <2>1, InitFate DEF EndingInv
<1>2. EndingInv /\ [Next]_vars => EndingInv'
  <2> SUFFICES ASSUME EndingInv, [Next]_vars PROVE EndingInv'
    OBVIOUS
  <2>1. FateInv' /\ StopsKnown'
    BY NextFate, StopsStayKnown DEF EndingInv
  <2>2. \A s \in Requests : Announced(s)'
    <3>1. CASE UNCHANGED vars
      BY <3>1, SilentEnding DEF vars
    <3>2. CASE Next
      BY <3>2, TaskEnding, RequestEnding, ReaderEnding DEF Next
    <3>3. QED
      BY <3>1, <3>2
  <2>3. QED
    BY <2>1, <2>2 DEF EndingInv
<1>3. QED
  BY <1>1, <1>2, PTL DEF Spec

\* With a phone that stops only what it was told of, the slot is free by the time
\* the phone is told of the ending: the finally block of LlmRunner._run clears it
\* before the event is sent, and handle_llm_cancel waits for that block.
THEOREM SlotReleasedAlways ==
    ASSUME EagerStop = FALSE
    PROVE  Spec => []SlotReleased
<1>1. EndingInv => SlotReleased
  BY DEF EndingInv, Announced, SlotReleased
<1>2. QED
  BY <1>1, EndingInvariance, PTL

\* With such a phone no request is ended twice, whatever stops, timeouts, refusals
\* and failures meet: only the reader announces a stop, and only of a run that
\* ended without a word.
THEOREM OneEndingAlways ==
    ASSUME EagerStop = FALSE
    PROVE  Spec => []OneEnding
<1>1. EndingInv => OneEnding
  BY DEF EndingInv, Announced, OneEnding
<1>2. QED
  BY <1>1, EndingInvariance, PTL

\* With such a phone an ending is announced only of a run whose row is stored with
\* that status, or was refused by SQLite.
THEOREM EndingIsSavedAlways ==
    ASSUME EagerStop = FALSE
    PROVE  Spec => []EndingIsSaved
<1>1. EndingInv => EndingIsSaved
  <2> SUFFICES ASSUME EndingInv, NEW r \in Requests, heard[r] \in Endings, phase[r] # "refused"
               PROVE  row[r].status \in {StatusOf(heard[r]), "lost"}
    BY DEF EndingIsSaved
  <2>1. Fate(r) /\ Announced(r) /\ phase[r] = "over"
    BY DEF EndingInv, FateInv, Fate
  <2>2. QED
    BY <2>1 DEF Fate, Announced, Endings
<1>2. QED
  BY <1>1, EndingInvariance, PTL
=============================================================================
