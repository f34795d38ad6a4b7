----------------------------- MODULE Supervision -----------------------------
(***************************************************************************)
(* The desktop program and its supervised subsystems (main.py:             *)
(* DesktopApplication.run; util/supervisor.py; transport/reconnect.py:     *)
(* BackoffPolicy).  A subsystem is the relay connection, an audio          *)
(* pipeline, a hotkey or the status log; the program goes down when any of *)
(* their supervisors ends.                                                 *)
(***************************************************************************)
EXTENDS Naturals

CONSTANTS
    Subsystems,
    LargestExponent, \* 2.0 ** n is a float up to this n (1023), then an error
    MaxFailures      \* bound: failures in a row of one subsystem

ASSUME SupervisionAssumption ==
    /\ LargestExponent \in Nat
    /\ MaxFailures \in Nat

VARIABLES
    place,     \* the supervisor: its subsystem runs, or it waits; or it ended
    attempt,   \* BackoffPolicy._attempt of its backoff
    stop,      \* the program's _stop_event
    requested, \* a signal or the stop file asked for the shutdown
    program    \* up, shutting down, cancelling its tasks, or exited

vars == << place, attempt, stop, requested, program >>

-----------------------------------------------------------------------------
TypeOK ==
    /\ place \in [Subsystems -> {"running", "waiting", "ended", "broken"}]
    /\ attempt \in [Subsystems -> 0..MaxFailures]
    /\ stop \in BOOLEAN
    /\ requested \in BOOLEAN
    /\ program \in {"up", "down", "cancelling", "exited"}

Init ==
    /\ place = [s \in Subsystems |-> "running"]
    /\ attempt = [s \in Subsystems |-> 0]
    /\ stop = FALSE
    /\ requested = FALSE
    /\ program = "up"

Ended(s) == place[s] \in {"ended", "broken"}

-----------------------------------------------------------------------------
(* A supervisor.                                                           *)

\* next_delay raises 2.0 to the number of delays handed out before; above the
\* range of a float that is an OverflowError, before min caps the delay.
Overflows(n) == n > LargestExponent

\* The subsystem raised or returned.  A run of half a minute counts as healthy
\* and resets the backoff; next_delay is called outside of any handler.
Fails(s) ==
    /\ place[s] = "running"
    /\ \E healthy \in BOOLEAN :
          LET before == IF healthy THEN 0 ELSE attempt[s]
          IN  IF stop
                THEN /\ place' = [place EXCEPT ![s] = "ended"]
                     /\ attempt' = [attempt EXCEPT ![s] = before]
                ELSE /\ before < MaxFailures
                     /\ attempt' = [attempt EXCEPT ![s] = before + 1]
                     /\ place' = [place EXCEPT ![s] =
                                     IF Overflows(before) THEN "broken" ELSE "waiting"]
    /\ UNCHANGED << stop, requested, program >>

\* Seeded fault: a supervisor gives up when its next delay would overflow.
WaitedGivesUp(s) ==
    /\ place[s] = "waiting"
    /\ ~Overflows(attempt[s]) \/ stop
    /\ place' = [place EXCEPT ![s] = IF stop THEN "ended" ELSE "running"]
    /\ UNCHANGED << attempt, stop, requested, program >>

\* The delay is over, or the stop event was set.
Waited(s) ==
    /\ place[s] = "waiting"
    /\ place' = [place EXCEPT ![s] = IF stop THEN "ended" ELSE "running"]
    /\ UNCHANGED << attempt, stop, requested, program >>

-----------------------------------------------------------------------------
(* The program.                                                            *)

\* A signal, or the sentinel that found the stop file.
RequestStop ==
    /\ program = "up"
    /\ stop' = TRUE
    /\ requested' = TRUE
    /\ UNCHANGED << place, attempt, program >>

\* asyncio.wait(FIRST_COMPLETED) over the supervisors and the stop event; then
\* shutdown() starts.
GoDown ==
    /\ program = "up"
    /\ stop \/ \E s \in Subsystems : Ended(s)
    /\ program' = "down"
    /\ stop' = TRUE
    /\ UNCHANGED << place, attempt, requested >>

\* shutdown() is through or out of time; every task is cancelled.
CancelTasks ==
    /\ program = "down"
    /\ program' = "cancelling"
    /\ place' = [s \in Subsystems |-> IF Ended(s) THEN place[s] ELSE "ended"]
    /\ UNCHANGED << attempt, stop, requested >>

Exit ==
    /\ program = "cancelling"
    /\ program' = "exited"
    /\ UNCHANGED << place, attempt, stop, requested >>

ProgramTurn == GoDown \/ CancelTasks \/ Exit

Next ==
    \/ \E s \in Subsystems : Fails(s) \/ Waited(s)
    \/ RequestStop
    \/ ProgramTurn

\* Delays end and the program's own steps are taken; subsystems need not fail.
Fairness ==
    /\ \A s \in Subsystems : WF_vars(Waited(s))
    /\ WF_vars(ProgramTurn)

Spec == Init /\ [][Next]_vars

FairSpec == Spec /\ Fairness

-----------------------------------------------------------------------------
(* Properties.                                                             *)

\* No failure of a subsystem, however often it is repeated, takes the program
\* down ("a failure in any single module ... must not exit the main program", supervisor.py:3-4).
NobodyElseStops == program # "up" => requested

\* A subsystem that fails is started again, until the program stops.
ComesBack == \A s \in Subsystems : place[s] = "waiting" ~> place[s] = "running" \/ stop
=============================================================================
