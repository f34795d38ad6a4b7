------------------------------- MODULE Program -------------------------------
(***************************************************************************)
(* The life of the desktop program (main.py: DesktopApplication;           *)
(* util/sentinel.py; services/base.py; audio/base.py, microphone.py and    *)
(* loopback.py; start.ps1, stop.ps1): the stop file, the stages of the     *)
(* shutdown, what its threads and tasks still do meanwhile, and the        *)
(* capture device of a supervised pipeline.  The supervisors are           *)
(* Supervision's; what the pipeline makes of its audio is AsrPipeline's.   *)
(***************************************************************************)
EXTENDS Supervision, Sequences

CONSTANTS
    Mic, Relay, \* the pipeline and the relay connection, two subsystems
    Works       \* tasks that services spawn, each with a row to write

ASSUME ProgramAssumption == {Mic, Relay} \subseteq Subsystems /\ Mic # Relay

VARIABLES
    built,     \* build() is through and the program runs
    file,      \* the stop file exists
    triggered, \* StopFileSentinel._triggered
    stage,     \* the stage of shutdown() that is next
    hung,      \* a thread never ends
    work,      \* per task: how far it is
    database,  \* open or closed
    pipe,      \* where run() of the pipeline is
    stream,    \* the device streams that are open
    asked,     \* somebody asked this run to stop (history)
    swallowed, \* a stop file was deleted unread (history)
    kept,      \* one that nobody wrote for this run stayed, and may be read (history)
    slow, late \* tasks cancelled in their thread, begun too late (history)

sentinel == << file, triggered >>
ending   == << stage, hung >>
pipeline == << pipe, stream >>
service  == << work, database, slow, late >>
request  == << asked, swallowed, kept >>

allVars == << vars, built, sentinel, ending, service, pipeline, request >>

-----------------------------------------------------------------------------
\* Seeded fault: the database is closed before the services are drained.
OrderHasty == << "hotkeys", "pipelines", "runner", "database", "services",
                 "transcription", "transport" >>

\* A stream that CloseStream knows of, and one that was opened and did not start.
Streams == {"stored", "unstarted"}

\* shutdown(), in this order; every stage is bounded by a timeout.
Order == << "hotkeys", "pipelines", "runner", "services", "transcription",
            "transport", "database" >>

Past(name) == \E i \in DOMAIN Order : i < stage /\ Order[i] = name

ProgramInit ==
    /\ Init
    /\ built = FALSE
    /\ file \in BOOLEAN
    /\ triggered = FALSE
    /\ stage = 1 /\ hung = FALSE
    /\ work = [t \in Works |-> "new"]
    /\ database = "open"
    /\ slow = {} /\ late = {}
    /\ pipe = "idle" /\ stream = {}
    /\ asked = FALSE /\ swallowed = FALSE /\ kept = FALSE

-----------------------------------------------------------------------------
(* Start, and requests to stop.                                            *)

\* Seeded fault: a stop file of an earlier run is kept.
PrepareKeeping == UNCHANGED << file, swallowed, kept >>

\* prepare() deletes a stop file whatever its age; a file that cannot be deleted
\* is logged and stays.
Prepare ==
    \/ /\ file' = FALSE
       /\ swallowed' = (swallowed \/ (asked /\ file))
       /\ kept' = (kept /\ stop)
    \/ /\ file
       /\ kept' = (kept \/ ~asked)
       /\ UNCHANGED << file, swallowed >>

\* build(), with prepare() at its end.
Build ==
    /\ ~built
    /\ built' = TRUE
    /\ Prepare
    /\ UNCHANGED << vars, triggered, ending, service, pipeline, asked >>

\* stop.ps1 writes the file while the program is starting, running or ending.
WriteStopFile ==
    /\ program # "exited"
    /\ file' = TRUE
    /\ asked' = TRUE
    /\ UNCHANGED << vars, built, triggered, ending, service, pipeline, swallowed, kept >>

\* python -m src.main --check beside the program builds and so prepares too.
CheckRun ==
    /\ Prepare
    /\ UNCHANGED << vars, built, triggered, ending, service, pipeline, asked >>

Signal ==
    /\ built
    /\ RequestStop
    /\ asked' = TRUE
    /\ UNCHANGED << built, sentinel, ending, service, pipeline, swallowed, kept >>

\* watch() finds the file.
Poll ==
    /\ built
    /\ file /\ ~stop
    /\ RequestStop
    /\ triggered' = TRUE
    /\ UNCHANGED << built, file, ending, service, pipeline, request >>

-----------------------------------------------------------------------------
(* The tasks of the services.                                              *)

\* A command of the phone: it is dispatched until the relay connection ends,
\* which is stopped after the services.
Begin(t) ==
    /\ built
    /\ program \in {"up", "down"}
    /\ place[Relay] = "running"
    /\ ~Past("transport")
    /\ work[t] = "new"
    /\ work' = [work EXCEPT ![t] = "waiting"]
    /\ late' = IF Past("services") THEN late \cup {t} ELSE late
    /\ UNCHANGED << vars, built, sentinel, ending, database, slow, pipeline, request >>

\* The write is handed to a thread.
HandOver(t) ==
    /\ work[t] = "waiting"
    /\ work' = [work EXCEPT ![t] = "writing"]
    /\ UNCHANGED << vars, built, sentinel, ending, database, slow, late, pipeline, request >>

\* The thread gets the lock of the database.
Write(t) ==
    /\ work[t] = "writing"
    /\ program # "exited"
    /\ work' = [work EXCEPT ![t] = IF database = "open" THEN "written" ELSE "refused"]
    /\ UNCHANGED << vars, built, sentinel, ending, database, slow, late, pipeline, request >>

\* Cancelled tasks end where they wait; a thread goes on without its task.
CancelWorks ==
    /\ work' = [t \in Works |-> IF work[t] = "waiting" THEN "gone" ELSE work[t]]
    /\ slow' = slow \cup {t \in Works : work[t] = "writing"}

-----------------------------------------------------------------------------
(* The shutdown.                                                           *)

\* run() goes down when the first of its tasks ends or the stop event is set.
Down ==
    /\ built
    /\ GoDown
    /\ UNCHANGED << built, sentinel, ending, service, pipeline, request >>

\* end_session and close, or neither in time.
CloseDatabase == database' \in {database, "closed"}

\* One stage, finished or out of its time.  wait_tasks is said not to cancel, but
\* its wait_for cancels what it gathers, as cancel_tasks does after it.
Stage ==
    /\ program = "down"
    /\ stage <= Len(Order)
    /\ stage' = stage + 1
    /\ hung' \in {hung, hung \/ Order[stage] = "hotkeys"}
    /\ IF Order[stage] = "services" THEN CancelWorks ELSE UNCHANGED << work, slow >>
    /\ IF Order[stage] = "database" THEN CloseDatabase ELSE UNCHANGED database
    /\ UNCHANGED << vars, built, sentinel, late, pipeline, request >>

\* The stages are through, or the ten seconds are; run() cancels the supervisors,
\* and asyncio.run what is left.  A pipeline that is cancelled while its device
\* is being opened is left to the thread that opens it.
Cancel ==
    /\ CancelTasks
    /\ CancelWorks
    /\ pipe' = IF pipe = "reading" THEN "closing" ELSE pipe
    /\ UNCHANGED << built, sentinel, ending, database, late, stream, request >>

\* asyncio.run waits for the threads; the stop file that was heard is removed, if
\* it can be.
Leave ==
    /\ Exit
    /\ ~hung
    /\ \A t \in Works : work[t] # "writing"
    /\ pipe = "idle"
    /\ file' \in {file, file /\ ~triggered}
    /\ UNCHANGED << built, triggered, ending, service, pipeline, request >>

\* Seeded fault: the watchdog waits for the stages.
HardExitPatient ==
    /\ program = "cancelling"
    /\ ~hung
    /\ program' = "exited"
    /\ UNCHANGED << place, attempt, stop, requested >>
    /\ UNCHANGED << built, sentinel, ending, service, pipeline, request >>

\* arm_hard_exit_watchdog: twelve seconds after the way down began.
HardExit ==
    /\ program \in {"down", "cancelling"}
    /\ program' = "exited"
    /\ UNCHANGED << place, attempt, stop, requested >>
    /\ UNCHANGED << built, sentinel, ending, service, pipeline, request >>

-----------------------------------------------------------------------------
(* The capture device of the pipeline.                                     *)

\* run() of a new pipeline on a new capture.
StartPipe ==
    /\ built
    /\ place[Mic] = "running"
    /\ pipe = "idle"
    /\ pipe' = "opening"
    /\ UNCHANGED << vars, built, sentinel, ending, service, stream, request >>

\* frames.start in its thread.  The supervisor may have been cancelled since.
OpenStream ==
    /\ pipe = "opening"
    /\ program # "exited"
    /\ stream' = stream \cup {"stored"}
    /\ pipe' = IF place[Mic] = "running" THEN "reading" ELSE "idle"
    /\ UNCHANGED << vars, built, sentinel, ending, service, request >>

\* The pipeline's run() is over, one way or another.
RunEnds == IF place[Mic] = "running" THEN Fails(Mic) ELSE UNCHANGED vars

\* No device, or one that was opened and does not start: its stream is not
\* stored, and nobody closes it.  The error leaves run() before its try.
OpenFails ==
    /\ pipe = "opening"
    /\ program # "exited"
    /\ pipe' = "idle"
    /\ stream' \in {stream, stream \cup {"unstarted"}}
    /\ RunEnds
    /\ UNCHANGED << built, sentinel, ending, service, request >>

\* The worker ends: it is asked to, the stream has stalled, or it crashed.
WorkerEnds ==
    /\ pipe = "reading"
    /\ program # "exited"
    /\ pipe' = "closing"
    /\ UNCHANGED << vars, built, sentinel, ending, service, stream, request >>

\* Seeded fault: the device is only closed when the program stops.
CloseStreamAtEnd ==
    /\ pipe = "closing"
    /\ program # "exited"
    /\ pipe' = "idle"
    /\ stream' = IF stop THEN stream \ {"stored"} ELSE stream
    /\ RunEnds
    /\ UNCHANGED << built, sentinel, ending, service, request >>

\* frames.stop in the finally of run().
CloseStream ==
    /\ pipe = "closing"
    /\ program # "exited"
    /\ pipe' = "idle"
    /\ stream' = stream \ {"stored"}
    /\ RunEnds
    /\ UNCHANGED << built, sentinel, ending, service, request >>

-----------------------------------------------------------------------------
(* Another subsystem fails, or a supervisor has waited.                    *)
SubsystemFails(s) ==
    /\ built
    /\ s # Mic
    /\ Fails(s)
    /\ UNCHANGED << built, sentinel, ending, service, pipeline, request >>

SupervisorWaited(s) ==
    /\ Waited(s)
    /\ UNCHANGED << built, sentinel, ending, service, pipeline, request >>

ProgramNext ==
    \/ Build \/ WriteStopFile \/ CheckRun \/ Signal \/ Poll
    \/ \E t \in Works : Begin(t) \/ HandOver(t) \/ Write(t)
    \/ Down \/ Stage \/ Cancel \/ Leave \/ HardExit
    \/ StartPipe \/ OpenStream \/ OpenFails \/ WorkerEnds \/ CloseStream
    \/ \E s \in Subsystems : SubsystemFails(s) \/ SupervisorWaited(s)

\* The sentinel polls, delays and timeouts end; no stage and no thread has to.
ProgramFairness ==
    /\ WF_allVars(Build)
    /\ WF_allVars(Poll)
    /\ WF_allVars(Down)
    /\ WF_allVars(HardExit)
    /\ \A s \in Subsystems : WF_allVars(SupervisorWaited(s))

ProgramSpec == ProgramInit /\ [][ProgramNext]_allVars /\ ProgramFairness

-----------------------------------------------------------------------------
(* Properties.                                                             *)

\* A program that nobody asked to stop goes down for two causes: a backoff that
\* overflowed, and a stop file of an earlier run that could not be deleted (although
\* "a leftover file can never prevent a fresh run", sentinel.py:9-10).
OnlyAskedStops == stop => asked \/ kept \/ \E s \in Subsystems : place[s] = "broken"

\* A request to stop ends the program, whatever hangs on the way down, unless
\* the stop file is deleted unread: by a program that is just starting, or by a
\* --check beside it.
RequestsEnd == asked ~> program = "exited" \/ swallowed

\* The database is not closed under a task that began before the services were
\* drained, but under one that a command of the phone began after that, and
\* under the thread of a task that was cancelled.
ClosedUnderLatecomers == \A t \in Works : work[t] = "refused" => t \in late \cup slow

\* A restarted pipeline finds no stream of its predecessor open, but for one that
\* was opened and did not start; only a program that is ending leaves another,
\* cancelled while it was opened.
StreamsClosed ==
    pipe \in {"idle", "opening"} =>
        stream \subseteq {"unstarted"} \/ program \in {"cancelling", "exited"}
=============================================================================
