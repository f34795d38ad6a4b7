---------------------------- MODULE ProgramProofs ----------------------------
(***************************************************************************)
(* Proofs about Supervision, for any number of subsystems: the types, and  *)
(* that the program goes down by itself for one reason only, a backoff     *)
(* that overflows; and about Program, which extends it, for any number of  *)
(* subsystems and tasks: what takes the program down, under whom the       *)
(* database closes, and which stream a restarted pipeline finds.           *)
(***************************************************************************)
EXTENDS Program, TLAPS

-----------------------------------------------------------------------------
(* The inductive invariant of Supervision.                                 *)

\* Only an overflow breaks a supervisor, and it takes LargestExponent + 2
\* failures without a healthy run.
BrokenByOverflow ==
    \A s \in Subsystems : place[s] = "broken" => attempt[s] > LargestExponent + 1

\* A supervisor that ended by itself saw the stop event.
EndedByStop == \A s \in Subsystems : place[s] = "ended" => stop

\* The program stops on request or because a supervisor broke.
StopHasReason ==
    stop \/ program # "up" => requested \/ \E s \in Subsystems : place[s] = "broken"

\* A program on its way down has set the stop event.
DownIsStopped == program # "up" => stop

\* A request is heard when it is made.
RequestedIsStopped == requested => stop

Inv ==
    /\ TypeOK
    /\ BrokenByOverflow
    /\ EndedByStop
    /\ StopHasReason
    /\ DownIsStopped
    /\ RequestedIsStopped

\* The variables of a supervisor after one failure, whichever branch it took.
LEMMA FailsStep ==
    ASSUME Inv, NEW s \in Subsystems, Fails(s)
    PROVE  /\ place[s] = "running"
           /\ place' = [place EXCEPT ![s] = place'[s]]
           /\ attempt' = [attempt EXCEPT ![s] = attempt'[s]]
           /\ place'[s] \in {"ended", "waiting", "broken"}
           /\ attempt'[s] \in 0..MaxFailures
           /\ place'[s] = "ended" => stop
           /\ place'[s] = "broken" => attempt'[s] > LargestExponent + 1
<1> USE DEF Inv, TypeOK
<1>1. PICK healthy \in BOOLEAN :
        LET before == IF healthy THEN 0 ELSE attempt[s]
        IN  IF stop
              THEN /\ place' = [place EXCEPT ![s] = "ended"]
                   /\ attempt' = [attempt EXCEPT ![s] = before]
              ELSE /\ before < MaxFailures
                   /\ attempt' = [attempt EXCEPT ![s] = before + 1]
                   /\ place' = [place EXCEPT ![s] =
                                   IF Overflows(before) THEN "broken" ELSE "waiting"]
  BY DEF Fails
<1> DEFINE before == IF healthy THEN 0 ELSE attempt[s]
<1>2. before \in 0..MaxFailures
  BY SupervisionAssumption
<1> HIDE DEF before
<1>3. CASE stop
  <2>1. /\ place' = [place EXCEPT ![s] = "ended"]
        /\ attempt' = [attempt EXCEPT ![s] = before]
    BY <1>1, <1>3 DEF before
  <2> QED BY <1>2, <1>3, <2>1 DEF Fails
<1>4. CASE ~stop
  <2>1. /\ before < MaxFailures
        /\ attempt' = [attempt EXCEPT ![s] = before + 1]
        /\ place' = [place EXCEPT ![s] = IF Overflows(before) THEN "broken" ELSE "waiting"]
    BY <1>1, <1>4 DEF before
  <2> QED BY <1>2, <1>4, <2>1, SupervisionAssumption DEF Fails, Overflows
<1> QED BY <1>3, <1>4

LEMMA InitInv == Init => Inv
<1> SUFFICES ASSUME Init PROVE Inv
  OBVIOUS
<1>1. TypeOK
  <2>1. 0 \in 0..MaxFailures
    BY SupervisionAssumption
  <2> QED BY <2>1, Zenon DEF Init, TypeOK
<1>2. BrokenByOverflow /\ EndedByStop
  BY DEF Init, BrokenByOverflow, EndedByStop
<1>3. StopHasReason /\ DownIsStopped /\ RequestedIsStopped
  BY DEF Init, StopHasReason, DownIsStopped, RequestedIsStopped
<1> QED BY <1>1, <1>2, <1>3 DEF Inv

LEMMA StepInv == Inv /\ [Next]_vars => Inv'
<1> SUFFICES ASSUME Inv, [Next]_vars PROVE Inv'
  OBVIOUS
<1> USE DEF Inv, TypeOK, BrokenByOverflow, EndedByStop, StopHasReason, DownIsStopped,
            RequestedIsStopped
<1>1. ASSUME NEW s \in Subsystems, Fails(s) PROVE Inv'
  <2>1. UNCHANGED << stop, requested, program >>
    BY <1>1 DEF Fails
  <2>2. \A t \in Subsystems : t # s => place'[t] = place[t] /\ attempt'[t] = attempt[t]
    BY <1>1, FailsStep
  <2>3. TypeOK'
    BY <1>1, <2>1, FailsStep
  <2>4. BrokenByOverflow' /\ EndedByStop'
    BY <1>1, <2>1, <2>2, FailsStep
  <2>5. \A t \in Subsystems : place[t] = "broken" => place'[t] = "broken"
    BY <1>1, <2>2, FailsStep
  <2> QED BY <2>1, <2>3, <2>4, <2>5
<1>2. ASSUME NEW s \in Subsystems, Waited(s) PROVE Inv'
  <2>1. /\ place[s] = "waiting"
        /\ place' = [place EXCEPT ![s] = IF stop THEN "ended" ELSE "running"]
        /\ UNCHANGED << attempt, stop, requested, program >>
    BY <1>2 DEF Waited
  <2> QED BY <2>1
<1>3. CASE RequestStop
  BY <1>3 DEF RequestStop
<1>4. CASE GoDown
  BY <1>4 DEF GoDown, Ended
<1>5. CASE CancelTasks
  <2>1. \A t \in Subsystems : place[t] = "broken" <=> place'[t] = "broken"
    BY <1>5 DEF CancelTasks, Ended
  <2> QED BY <1>5, <2>1 DEF CancelTasks, Ended
<1>6. CASE Exit
  BY <1>6 DEF Exit
<1>7. CASE UNCHANGED vars
  BY <1>7 DEF vars
<1> QED BY <1>1, <1>2, <1>3, <1>4, <1>5, <1>6, <1>7 DEF Next, ProgramTurn

\* The inductive invariant holds throughout.
THEOREM Invariance == Spec => []Inv
<1>1. Init => Inv
  BY InitInv
<1>2. Inv /\ [Next]_vars => Inv'
  BY StepInv
<1> QED BY <1>1, <1>2, PTL DEF Spec

-----------------------------------------------------------------------------
(* What follows from it for the supervisors alone.                         *)

\* Every variable keeps its type, for every number of subsystems.
THEOREM TypeCorrect == Spec => []TypeOK
<1>1. Inv => TypeOK
  BY DEF Inv
<1> QED BY <1>1, Invariance, PTL

\* The supervisor's promise ("a failure in any single module ... must not exit
\* the main program", supervisor.py:3-4) for as long as no subsystem fails so often in a
\* row that its backoff overflows.
THEOREM NobodyElseStopsAlways ==
    ASSUME MaxFailures <= LargestExponent + 1
    PROVE  Spec => []NobodyElseStops
<1>1. Inv => NobodyElseStops
  BY SupervisionAssumption
     DEF Inv, TypeOK, BrokenByOverflow, StopHasReason, NobodyElseStops
<1> QED BY <1>1, Invariance, PTL

\* A program that nobody asked to stop goes down after more than LargestExponent
\* + 1 failures in a row, and for no other reason.
OnlyOverflowStops ==
    program # "up" =>
        requested \/ \E s \in Subsystems : attempt[s] > LargestExponent + 1

THEOREM OnlyOverflowStopsAlways == Spec => []OnlyOverflowStops
<1>1. Inv => OnlyOverflowStops
  BY DEF Inv, BrokenByOverflow, StopHasReason, OnlyOverflowStops
<1> QED BY <1>1, Invariance, PTL

\* Nothing is started on the way down: a supervisor that does not run when the
\* stop event is set does not run again (supervisor.py:68, the loop's condition).
THEOREM NothingStartsOnTheWayDown ==
    Spec => [][\A s \in Subsystems :
                  stop /\ place'[s] = "running" => place[s] = "running"]_vars
<1> DEFINE A == \A s \in Subsystems : stop /\ place'[s] = "running" => place[s] = "running"
<1>1. Inv /\ [Next]_vars => [A]_vars
  <2> SUFFICES ASSUME Inv, [Next]_vars, ~UNCHANGED vars, NEW s \in Subsystems,
                      stop, place'[s] = "running"
               PROVE  place[s] = "running"
    OBVIOUS
  <2> USE DEF Inv, TypeOK
  <2>1. ASSUME NEW t \in Subsystems, Fails(t) PROVE place[s] = "running"
    BY <2>1, FailsStep
  <2>2. ASSUME NEW t \in Subsystems, Waited(t) PROVE place[s] = "running"
    BY <2>2 DEF Waited
  <2>3. CASE RequestStop \/ GoDown \/ CancelTasks \/ Exit
    BY <2>3 DEF RequestStop, GoDown, CancelTasks, Exit, Ended
  <2> QED BY <2>1, <2>2, <2>3 DEF Next, ProgramTurn
<1> QED BY <1>1, Invariance, PTL DEF Spec

-----------------------------------------------------------------------------
(* The inductive invariant of the program.                                 *)

\* The types that the stages and the tasks need.
EndingType ==
    /\ stage \in 1..Len(Order) + 1
    /\ work \in [Works -> {"new", "waiting", "writing", "written", "refused", "gone"}]
    /\ database \in {"open", "closed"}
    /\ pipe \in {"idle", "opening", "reading", "closing"}
    /\ built \in BOOLEAN /\ file \in BOOLEAN /\ asked \in BOOLEAN /\ kept \in BOOLEAN
    /\ stream \subseteq Streams
    /\ late \subseteq Works /\ slow \subseteq Works

\* A stop file that a running program can find was written for it, or prepare()
\* could not delete it.
FileIsAsked == built /\ file => asked \/ kept

\* The database closes in the last stage.
ClosedLast == database = "closed" => Past("database")

\* The tasks that are left behind the stage of the services.
LeftBehind ==
    \A t \in Works :
        /\ Past("services") /\ work[t] \in {"waiting", "writing"} => t \in late \cup slow
        /\ work[t] = "refused" => t \in late \cup slow

\* Supervision knows of a request only what this run was asked, or what it read in
\* a file that stayed.
RequestedIsAsked == requested => asked \/ kept

\* A pipeline runs under its supervisor, until the supervisors are cancelled.
PipeSupervised ==
    pipe # "idle" => place[Mic] = "running" \/ program \in {"cancelling", "exited"}

ProgramInv ==
    /\ Inv
    /\ EndingType
    /\ FileIsAsked
    /\ RequestedIsAsked
    /\ ClosedLast
    /\ LeftBehind
    /\ PipeSupervised
    /\ StreamsClosed

-----------------------------------------------------------------------------
(* The order of the stages.                                                *)

LEMMA OrderIs ==
    /\ DOMAIN Order = 1..7 /\ Len(Order) = 7
    /\ \A i \in 1..7 : (Order[i] = "services" <=> i = 4) /\ (Order[i] = "database" <=> i = 7)
  BY SMT DEF Order

LEMMA PastStages ==
    ASSUME EndingType
    PROVE  /\ Past("services") <=> stage > 4
           /\ Past("database") <=> stage > 7
  BY OrderIs, SMT DEF EndingType, Past

LEMMA NextPastStages ==
    ASSUME EndingType'
    PROVE  /\ Past("services")' <=> stage' > 4
           /\ Past("database")' <=> stage' > 7
  BY OrderIs, SMT DEF EndingType, Past

-----------------------------------------------------------------------------
(* The supervisors of the program.                                         *)

\* The watchdog ends the process.
Killed ==
    /\ program \in {"down", "cancelling"}
    /\ program' = "exited"
    /\ UNCHANGED << place, attempt, stop, requested >>

\* A step of the program is one of Supervision's, or ends the process.
LEMMA SupervisionStep ==
    ASSUME [ProgramNext]_allVars
    PROVE  [Next]_vars \/ Killed
<1>1. ASSUME NEW t \in Works, Begin(t) \/ HandOver(t) \/ Write(t)
      PROVE  UNCHANGED vars
  BY <1>1 DEF Begin, HandOver, Write
<1>2. ASSUME NEW s \in Subsystems, SubsystemFails(s) \/ SupervisorWaited(s)
      PROVE  [Next]_vars
  BY <1>2 DEF SubsystemFails, SupervisorWaited, Next
<1>3. CASE Build \/ WriteStopFile \/ CheckRun \/ Stage \/ StartPipe \/ OpenStream \/ WorkerEnds
  BY <1>3 DEF Build, WriteStopFile, CheckRun, Stage, StartPipe, OpenStream, WorkerEnds
<1>4. CASE Signal \/ Poll
  BY <1>4 DEF Signal, Poll, Next
<1>5. CASE Down \/ Cancel \/ Leave
  BY <1>5 DEF Down, Cancel, Leave, Next, ProgramTurn
<1>6. CASE OpenFails \/ CloseStream
  BY <1>6, ProgramAssumption DEF OpenFails, CloseStream, RunEnds, Next
<1>7. CASE HardExit
  BY <1>7 DEF HardExit, Killed
<1>8. CASE UNCHANGED allVars
  BY <1>8 DEF allVars
<1>9. QED
  BY <1>1, <1>2, <1>3, <1>4, <1>5, <1>6, <1>7, <1>8 DEF ProgramNext

\* Supervision's invariant holds of the supervisors of the program.
LEMMA SupervisionKept ==
    ASSUME Inv, [ProgramNext]_allVars
    PROVE  Inv'
<1>1. CASE [Next]_vars
  BY <1>1, StepInv
<1>2. CASE Killed
  BY <1>2 DEF Killed, Inv, TypeOK, BrokenByOverflow, EndedByStop, StopHasReason, DownIsStopped,
              RequestedIsStopped
<1>3. QED
  BY <1>1, <1>2, SupervisionStep

-----------------------------------------------------------------------------
(* The steps of the program.                                               *)

LEMMA InitProgramInv == ProgramInit => ProgramInv
<1> SUFFICES ASSUME ProgramInit PROVE ProgramInv
  OBVIOUS
<1>1. Inv
  BY InitInv DEF ProgramInit
<1>2. EndingType
  <2>1. stage \in 1..Len(Order) + 1
    BY OrderIs, SMT DEF ProgramInit
  <2>2. QED
    BY <2>1, Zenon DEF ProgramInit, EndingType
<1>3. FileIsAsked /\ RequestedIsAsked
  BY DEF ProgramInit, Init, FileIsAsked, RequestedIsAsked
<1>4. ClosedLast /\ LeftBehind
  BY <1>2, PastStages DEF ProgramInit, ClosedLast, LeftBehind
<1>5. PipeSupervised /\ StreamsClosed
  BY DEF ProgramInit, PipeSupervised, StreamsClosed
<1>6. QED
  BY <1>1, <1>2, <1>3, <1>4, <1>5 DEF ProgramInv

\* The stop file and the requests.
LEMMA RequestStep ==
    ASSUME ProgramInv, Build \/ WriteStopFile \/ CheckRun \/ Signal \/ Poll, Inv'
    PROVE  ProgramInv'
<1>1. UNCHANGED << place, stage, work, database, late, slow, pipe, stream, program >>
  BY DEF Build, WriteStopFile, CheckRun, Signal, Poll, vars, RequestStop,
         sentinel, ending, service, pipeline, request
<1>2. EndingType' /\ (Past("services") <=> Past("services")') /\ (Past("database") <=> Past("database")')
  <2>1. built' \in BOOLEAN /\ file' \in BOOLEAN /\ asked' \in BOOLEAN /\ kept' \in BOOLEAN
    <3>1. stop \in BOOLEAN
      BY DEF ProgramInv, Inv, TypeOK
    <3>2. QED
      BY <3>1 DEF ProgramInv, EndingType, Build, WriteStopFile, CheckRun, Signal, Poll, Prepare,
                  sentinel, request
  <2>2. QED
    BY <1>1, <2>1 DEF ProgramInv, EndingType, Past
<1>3. FileIsAsked' /\ RequestedIsAsked'
  <2>1. requested => stop
    BY DEF ProgramInv, Inv, RequestedIsStopped
  <2>2. CASE Build \/ CheckRun
    <3>1. /\ UNCHANGED << asked, requested >>
          /\ (~built /\ built') \/ built' = built
      BY <2>2 DEF Build, CheckRun, vars
    <3>2. CASE file' = FALSE /\ kept' = (kept /\ stop)
      BY <2>1, <3>1, <3>2 DEF ProgramInv, FileIsAsked, RequestedIsAsked
    <3>3. CASE kept' = (kept \/ ~asked)
      BY <3>1, <3>3 DEF FileIsAsked, RequestedIsAsked
    <3>4. QED
      BY <2>2, <3>2, <3>3 DEF Build, CheckRun, Prepare
  <2>3. CASE WriteStopFile \/ Signal
    BY <2>3 DEF FileIsAsked, RequestedIsAsked, WriteStopFile, Signal
  <2>4. CASE Poll
    BY <2>4 DEF ProgramInv, FileIsAsked, RequestedIsAsked, Poll, RequestStop, request
  <2>5. QED
    BY <2>2, <2>3, <2>4
<1>4. ClosedLast' /\ LeftBehind' /\ PipeSupervised' /\ StreamsClosed'
  BY <1>1, <1>2 DEF ProgramInv, ClosedLast, LeftBehind, PipeSupervised, StreamsClosed
<1>5. QED
  BY <1>2, <1>3, <1>4 DEF ProgramInv

\* The tasks of the services.
LEMMA WorkStep ==
    ASSUME ProgramInv, NEW t \in Works, Begin(t) \/ HandOver(t) \/ Write(t), Inv'
    PROVE  ProgramInv'
<1>1. UNCHANGED << vars, built, file, triggered, stage, hung, database, slow, pipe, stream,
                   asked, swallowed, kept >>
  BY DEF Begin, HandOver, Write, sentinel, ending, pipeline, request
<1>2. /\ work' \in [Works -> {"new", "waiting", "writing", "written", "refused", "gone"}]
      /\ late' \subseteq Works /\ late \subseteq late'
      /\ \A u \in Works : u # t => work'[u] = work[u]
  BY SMT DEF ProgramInv, EndingType, Begin, HandOver, Write
<1>3. EndingType' /\ (Past("services") <=> Past("services")') /\ (Past("database") <=> Past("database")')
  BY <1>1, <1>2 DEF ProgramInv, EndingType, Past
<1>4. LeftBehind'
  <2>1. Past("database") => Past("services")
    BY PastStages DEF ProgramInv, EndingType
  <2>2. /\ Past("services") /\ work'[t] \in {"waiting", "writing"} => t \in late' \cup slow
        /\ work'[t] = "refused" => t \in late' \cup slow
    BY <2>1, SMT DEF ProgramInv, EndingType, LeftBehind, ClosedLast, Begin, HandOver, Write
  <2>3. QED
    BY <1>1, <1>2, <1>3, <2>2 DEF ProgramInv, LeftBehind
<1>5. FileIsAsked' /\ RequestedIsAsked' /\ ClosedLast' /\ PipeSupervised' /\ StreamsClosed'
  BY <1>1, <1>3 DEF ProgramInv, FileIsAsked, RequestedIsAsked, ClosedLast, PipeSupervised,
                    StreamsClosed, vars
<1>6. QED
  BY <1>3, <1>4, <1>5 DEF ProgramInv

\* Cancelled tasks wait no more, and those that write are slow.
LEMMA CancelledWorks ==
    ASSUME EndingType, LeftBehind, CancelWorks
    PROVE  /\ work' \in [Works -> {"new", "waiting", "writing", "written", "refused", "gone"}]
           /\ slow' \subseteq Works
           /\ \A t \in Works : /\ work'[t] \in {"waiting", "writing"} => t \in slow'
                               /\ work'[t] = "refused" => t \in late \cup slow'
  BY SMT DEF EndingType, LeftBehind, CancelWorks

\* One stage of the shutdown.
LEMMA StageStep ==
    ASSUME ProgramInv, Stage, Inv'
    PROVE  ProgramInv'
<1>1. /\ stage \in 1..7 /\ stage' = stage + 1
      /\ UNCHANGED << vars, built, file, triggered, late, pipe, stream, asked, swallowed,
                   kept >>
  BY OrderIs, SMT DEF ProgramInv, EndingType, Stage, sentinel, pipeline, request
<1>2. CASE stage = 4
  <2>1. CancelWorks /\ database' = database
    BY <1>1, <1>2, OrderIs DEF Stage
  <2>2. EndingType'
    BY <1>1, <2>1, CancelledWorks, OrderIs, SMT DEF ProgramInv, EndingType
  <2>3. LeftBehind'
    BY <1>1, <2>1, CancelledWorks DEF ProgramInv, LeftBehind
  <2>4. ClosedLast'
    BY <1>1, <1>2, <2>1, <2>2, PastStages, NextPastStages, SMT DEF ProgramInv, ClosedLast
  <2>5. QED
    BY <1>1, <2>2, <2>3, <2>4 DEF ProgramInv, FileIsAsked, RequestedIsAsked, PipeSupervised,
                                  StreamsClosed, vars
<1>3. CASE stage # 4
  <2>1. UNCHANGED << work, slow >> /\ database' \in {database, "closed"}
        /\ (database' = database \/ stage = 7)
    BY <1>1, <1>3, OrderIs DEF Stage, CloseDatabase
  <2>2. EndingType'
    BY <1>1, <2>1, OrderIs, SMT DEF ProgramInv, EndingType
  <2>3. Past("services")' => Past("services")
    BY <1>1, <1>3, <2>2, PastStages, NextPastStages, SMT DEF ProgramInv
  <2>4. LeftBehind'
    BY <1>1, <2>1, <2>3 DEF ProgramInv, LeftBehind
  <2>5. ClosedLast'
    BY <1>1, <2>1, <2>2, PastStages, NextPastStages, SMT DEF ProgramInv, ClosedLast
  <2>6. QED
    BY <1>1, <2>2, <2>4, <2>5 DEF ProgramInv, FileIsAsked, RequestedIsAsked, PipeSupervised,
                                  StreamsClosed, vars
<1>4. QED
  BY <1>2, <1>3

\* The end of the program.
LEMMA EndStep ==
    ASSUME ProgramInv, Down \/ Cancel \/ Leave \/ HardExit, Inv'
    PROVE  ProgramInv'
<1>1. UNCHANGED << built, stage, database, late, stream, asked, kept >>
  BY DEF Down, Cancel, Leave, HardExit, ending, service, pipeline, request
<1>2. /\ EndingType'
      /\ \A t \in Works : /\ work'[t] \in {"waiting", "writing"}
                               => work[t] \in {"waiting", "writing"} /\ slow \subseteq slow'
                          /\ work'[t] = "refused" => work[t] = "refused" /\ slow \subseteq slow'
  <2>1. CASE Cancel
    <3>1. CancelWorks /\ file' = file /\ pipe' \in {pipe, "closing"}
      BY <2>1 DEF Cancel, sentinel
    <3>2. QED
      BY <1>1, <3>1, CancelledWorks, SMT DEF ProgramInv, EndingType, CancelWorks
  <2>2. CASE Down \/ Leave \/ HardExit
    <3>1. UNCHANGED << work, slow, pipe >> /\ file' \in BOOLEAN
      BY <2>2 DEF Down, Leave, HardExit, service, pipeline, sentinel, ProgramInv, EndingType
    <3>2. QED
      BY <1>1, <3>1 DEF ProgramInv, EndingType
  <2>3. QED
    BY <2>1, <2>2
<1>3. (Past("services") <=> Past("services")') /\ (Past("database") <=> Past("database")')
  BY <1>1 DEF Past
<1>4. LeftBehind' /\ ClosedLast'
  BY <1>1, <1>2, <1>3 DEF ProgramInv, LeftBehind, ClosedLast
<1>5. FileIsAsked' /\ RequestedIsAsked'
  <2>1. file' => file
    <3>1. file' \in {file, file /\ ~triggered}
      BY DEF Down, Cancel, Leave, HardExit, sentinel
    <3>2. QED
      BY <3>1
  <2>2. requested' = requested
    BY DEF Down, Cancel, Leave, HardExit, GoDown, CancelTasks, Exit
  <2>3. QED
    BY <1>1, <2>1, <2>2 DEF ProgramInv, FileIsAsked, RequestedIsAsked
<1>6. PipeSupervised' /\ StreamsClosed'
  <2>1. CASE Down
    BY <1>1, <2>1 DEF ProgramInv, Inv, Down, GoDown, pipeline, PipeSupervised, StreamsClosed
  <2>2. CASE Cancel \/ Leave \/ HardExit
    <3>1. program' \in {"cancelling", "exited"}
      BY <2>2 DEF Cancel, Leave, HardExit, CancelTasks, Exit
    <3>2. QED
      BY <3>1 DEF PipeSupervised, StreamsClosed
  <2>3. QED
    BY <2>1, <2>2
<1>7. QED
  BY <1>2, <1>4, <1>5, <1>6 DEF ProgramInv

\* A failure of one subsystem leaves the place of the others and the program.
LEMMA FailureIsLocal ==
    ASSUME Inv, NEW s \in Subsystems, Fails(s) \/ Waited(s)
    PROVE  /\ UNCHANGED << program, requested, stop >>
           /\ \A t \in Subsystems : t # s => place'[t] = place[t]
           /\ place'[s] = place[s] \/ place[s] \in {"running", "waiting"}
<1>1. CASE Fails(s)
  BY <1>1, FailsStep DEF Fails, Inv, TypeOK
<1>2. CASE Waited(s)
  BY <1>2 DEF Waited, Inv, TypeOK
<1>3. QED
  BY <1>1, <1>2

\* Supervisors: only the end of its own run takes the pipeline's place away.
LEMMA SupervisorStep ==
    ASSUME ProgramInv, NEW s \in Subsystems, SubsystemFails(s) \/ SupervisorWaited(s), Inv'
    PROVE  ProgramInv'
<1>1. /\ UNCHANGED << built, sentinel, ending, service, pipeline, request >>
      /\ (Fails(s) /\ s # Mic) \/ Waited(s)
  BY DEF SubsystemFails, SupervisorWaited
<1>2. /\ UNCHANGED << program, requested, stop >>
      /\ place[Mic] = "running" => place'[Mic] = "running"
  BY <1>1, FailureIsLocal, ProgramAssumption DEF ProgramInv, Waited
<1>3. UNCHANGED << file, stage, work, database, late, slow, pipe, stream, asked, kept >>
  BY <1>1 DEF sentinel, ending, service, pipeline, request
<1>4. EndingType' /\ (Past("services") <=> Past("services")') /\ (Past("database") <=> Past("database")')
  BY <1>1, <1>3 DEF ProgramInv, EndingType, Past
<1>5. QED
  BY <1>1, <1>2, <1>3, <1>4 DEF ProgramInv, FileIsAsked, RequestedIsAsked, ClosedLast, LeftBehind,
                                PipeSupervised, StreamsClosed

\* The pipeline and its device.
LEMMA PipeStep ==
    ASSUME ProgramInv, StartPipe \/ OpenStream \/ OpenFails \/ WorkerEnds \/ CloseStream, Inv'
    PROVE  ProgramInv'
<1>1. UNCHANGED << built, sentinel, ending, service, request >>
  BY DEF StartPipe, OpenStream, OpenFails, WorkerEnds, CloseStream
<1>2. UNCHANGED << program, requested, stop >>
  <2>1. RunEnds => UNCHANGED << program, requested, stop >>
    BY FailureIsLocal, ProgramAssumption DEF ProgramInv, RunEnds, vars
  <2>2. QED
    BY <2>1 DEF StartPipe, OpenStream, OpenFails, WorkerEnds, CloseStream, vars
<1>3. UNCHANGED << file, stage, work, database, late, slow, asked, kept >>
  BY <1>1 DEF sentinel, ending, service, request
<1>4. pipe' \in {"idle", "opening", "reading", "closing"} /\ stream' \subseteq Streams
  BY DEF ProgramInv, EndingType, Streams, StartPipe, OpenStream, OpenFails, WorkerEnds, CloseStream
<1>5. EndingType' /\ (Past("services") <=> Past("services")') /\ (Past("database") <=> Past("database")')
  BY <1>1, <1>3, <1>4 DEF ProgramInv, EndingType, Past
<1>6. PipeSupervised' /\ StreamsClosed'
  <2>1. CASE StartPipe
    BY <1>2, <2>1 DEF ProgramInv, PipeSupervised, StreamsClosed, StartPipe, vars
  <2>2. CASE OpenStream
    BY <1>2, <2>2 DEF ProgramInv, PipeSupervised, StreamsClosed, OpenStream, vars
  <2>3. CASE WorkerEnds
    BY <1>2, <2>3 DEF ProgramInv, PipeSupervised, StreamsClosed, WorkerEnds, vars
  <2>4. CASE OpenFails
    BY <1>2, <2>4 DEF ProgramInv, PipeSupervised, StreamsClosed, OpenFails
  <2>5. CASE CloseStream
    BY <1>2, <2>5 DEF ProgramInv, EndingType, Streams, PipeSupervised, StreamsClosed,
                         CloseStream
  <2>6. QED
    BY <2>1, <2>2, <2>3, <2>4, <2>5
<1>7. QED
  BY <1>1, <1>2, <1>3, <1>5, <1>6 DEF ProgramInv, FileIsAsked, RequestedIsAsked, ClosedLast,
                                      LeftBehind

\* The inductive invariant holds throughout.
THEOREM ProgramInvariance == ProgramSpec => []ProgramInv
<1>1. ProgramInit => ProgramInv
  BY InitProgramInv
<1>2. ProgramInv /\ [ProgramNext]_allVars => ProgramInv'
  <2> SUFFICES ASSUME ProgramInv, [ProgramNext]_allVars PROVE ProgramInv'
    OBVIOUS
  <2>1. Inv'
    BY SupervisionKept DEF ProgramInv
  <2>2. ASSUME NEW t \in Works, Begin(t) \/ HandOver(t) \/ Write(t) PROVE ProgramInv'
    BY <2>1, <2>2, WorkStep
  <2>3. ASSUME NEW s \in Subsystems, SubsystemFails(s) \/ SupervisorWaited(s) PROVE ProgramInv'
    BY <2>1, <2>3, SupervisorStep
  <2>4. CASE UNCHANGED allVars
    BY <2>4, <2>1 DEF allVars, vars, sentinel, ending, service, pipeline, request, ProgramInv,
                EndingType, FileIsAsked, RequestedIsAsked, ClosedLast, LeftBehind, Past,
                PipeSupervised, StreamsClosed
  <2>5. QED
    BY <2>1, <2>2, <2>3, <2>4, RequestStep, StageStep, EndStep, PipeStep DEF ProgramNext
<1>3. QED
  BY <1>1, <1>2, PTL DEF ProgramSpec

-----------------------------------------------------------------------------
(* What follows from it.                                                   *)

\* However often subsystems fail and whichever files earlier runs left, a program
\* that nobody asked to stop goes down for two causes only: a backoff overflowed
\* (reconnect.py:49), or a file that prepare() could not delete was read.
THEOREM OnlyAskedStopsAlways == ProgramSpec => []OnlyAskedStops
<1>1. ProgramInv => OnlyAskedStops
  BY DEF ProgramInv, RequestedIsAsked, Inv, StopHasReason, OnlyAskedStops
<1>2. QED
  BY <1>1, ProgramInvariance, PTL

\* Whatever the stages have time for, the database closes only under a task that
\* began after the services were drained or was cancelled in its thread.
THEOREM ClosedUnderLatecomersAlways == ProgramSpec => []ClosedUnderLatecomers
<1>1. ProgramInv => ClosedUnderLatecomers
  BY DEF ProgramInv, LeftBehind, ClosedUnderLatecomers
<1>2. QED
  BY <1>1, ProgramInvariance, PTL

\* A pipeline that is started again, however its last run ended and however many
\* subsystems fail beside it, finds no stream of its predecessors open but one that
\* was opened and did not start (microphone.py:131).
THEOREM StreamsClosedAlways == ProgramSpec => []StreamsClosed
<1>1. ProgramInv => StreamsClosed
  BY DEF ProgramInv
<1>2. QED
  BY <1>1, ProgramInvariance, PTL
=============================================================================
