--------------------------- MODULE RelayTransport ---------------------------
(***************************************************************************)
(* The desktop's connection to the relay (desktop/src/transport/           *)
(* websocket.py, reconnect.py), its supervisor (util/supervisor.py) and    *)
(* the end of it at shutdown (main.py).                                    *)
(*                                                                         *)
(* One action is the code between two suspension points of the event loop. *)
(* Events are numbered in the order of the calls of send_event; what they  *)
(* contain does not matter here.  The queue outlives its connections, the  *)
(* writer, the reader and the socket do not.                               *)
(***************************************************************************)
EXTENDS Naturals, Sequences

CONSTANTS
    Capacity,        \* size of the out queue (256)
    LargestExponent, \* 2.0 ** n is a float up to this n (1023), then an error
    MaxEvents        \* bound: events handed to the transport

ASSUME RelayTransportAssumption ==
    /\ Capacity \in Nat \ {0}
    /\ LargestExponent \in Nat
    /\ MaxEvents \in Nat

VARIABLES
    link,       \* where run() is
    wire,       \* the socket: none, up, or down (broken or closed)
    connected,  \* _connected
    stop,       \* _stop_event
    attempt,    \* BackoffPolicy._attempt, up to the first that overflows
    failures,   \* the same of the supervisor's own backoff
    queue,      \* _out_queue
    unfinished, \* its count of put calls without task_done
    writer,     \* the writer task: none, idle (in get or send), or ended
    hand,       \* the envelope it has taken and not finished sending
    reader,     \* the reader task: none, waiting for a frame, or handling one
    shutdown,   \* how far the program's shutdown is with the transport
    offered,    \* calls of send_event so far
    flight,     \* events written to the socket and not received by the relay
    received    \* events the relay has received

connection == << link, wire, connected, stop, attempt, failures >>
outgoing == << queue, unfinished, writer, hand >>
outside == << offered, flight, received >>

vars == << connection, outgoing, reader, shutdown, outside >>

-----------------------------------------------------------------------------
Heartbeat == 0
Events == 1..MaxEvents
Frames == {Heartbeat} \cup Events

Places == {"starting", "connecting", "authenticating", "session", "tearing",
           "closing", "waiting", "crashed", "done"}

Attempts == 0..(LargestExponent + 1)

TypeOK ==
    /\ link \in Places
    /\ wire \in {"none", "up", "down"}
    /\ connected \in BOOLEAN
    /\ stop \in BOOLEAN
    /\ attempt \in Attempts
    /\ failures \in Attempts
    /\ queue \in Seq(Frames)
    /\ Len(queue) <= Capacity
    /\ unfinished \in 0..(Capacity + 1)
    /\ writer \in {"none", "idle", "ended"}
    /\ hand \in Seq(Frames)
    /\ Len(hand) <= 1
    /\ reader \in {"none", "waiting", "handling"}
    /\ shutdown \in {"no", "draining", "stopping", "stopped", "cancelled"}
    /\ offered \in 0..MaxEvents
    /\ flight \in Seq(Frames)
    /\ received \in Seq(Events)

Init ==
    /\ link = "starting"
    /\ wire = "none"
    /\ connected = FALSE
    /\ stop = FALSE
    /\ attempt = 0
    /\ failures = 0
    /\ queue = << >>
    /\ unfinished = 0
    /\ writer = "none"
    /\ hand = << >>
    /\ reader = "none"
    /\ shutdown = "no"
    /\ offered = 0
    /\ flight = << >>
    /\ received = << >>

-----------------------------------------------------------------------------
(* The queue.                                                              *)

Elements(seq) == {seq[k] : k \in DOMAIN seq}

\* What was accepted and is neither lost nor received.
Pending == flight \o hand \o queue

\* Seeded fault: the dropped envelope is not marked done.
EnqueueForgets(frame) ==
    IF Len(queue) < Capacity
      THEN /\ queue' = Append(queue, frame)
           /\ unfinished' = unfinished + 1
      ELSE /\ queue' = Append(Tail(queue), frame)
           /\ unfinished' = IF unfinished <= Capacity THEN unfinished + 1 ELSE unfinished

\* Seeded fault: a full queue drops its newest envelope.
EnqueueDropsNewest(frame) ==
    /\ queue' = IF Len(queue) < Capacity
                  THEN Append(queue, frame)
                  ELSE Append(SubSeq(queue, 1, Capacity - 1), frame)
    /\ unfinished' = IF Len(queue) < Capacity THEN unfinished + 1 ELSE unfinished

\* _enqueue: a full queue drops its oldest envelope.
Enqueue(frame) ==
    IF Len(queue) < Capacity
      THEN /\ queue' = Append(queue, frame)
           /\ unfinished' = unfinished + 1
      ELSE /\ queue' = Append(Tail(queue), frame)
           /\ unfinished' = unfinished

\* send_event, called by any service: refused while offline.
SendEvent ==
    /\ offered < MaxEvents
    /\ offered' = offered + 1
    /\ IF connected /\ ~stop
         THEN Enqueue(offered')
         ELSE UNCHANGED << queue, unfinished >>
    /\ UNCHANGED << connection, writer, hand, reader, shutdown, flight, received >>

\* The heartbeat task queues a heartbeat like any event.
Beat ==
    /\ link = "session"
    /\ ~stop
    /\ Heartbeat \notin Elements(Pending)  \* bound: one at a time
    /\ Enqueue(Heartbeat)
    /\ UNCHANGED << connection, writer, hand, reader, shutdown, outside >>

\* The writer's get.
Take ==
    /\ writer = "idle"
    /\ hand = << >>
    /\ queue # << >>
    /\ hand' = << Head(queue) >>
    /\ queue' = Tail(queue)
    /\ UNCHANGED << connection, unfinished, writer, reader, shutdown, outside >>

\* The envelope is no longer in hand: task_done.
Finished == hand' = << >> /\ unfinished' = unfinished - 1

\* send returned.  A socket that broke may swallow what is written to it.
Sent ==
    /\ writer = "idle"
    /\ hand # << >>
    /\ Finished
    /\ writer' = IF stop THEN "ended" ELSE "idle"
    /\ flight' = IF wire = "up" THEN flight \o hand ELSE flight
    /\ UNCHANGED << connection, queue, reader, shutdown, offered, received >>

-----------------------------------------------------------------------------
(* run(): connect, authenticate, one session, wait.                        *)

\* The head of run()'s loop.
Connect ==
    /\ link = "starting"
    /\ link' = IF stop THEN "done" ELSE "connecting"
    /\ UNCHANGED << wire, connected, stop, attempt, failures, outgoing, reader, shutdown, outside >>

\* The socket is open and auth is sent.  What an earlier socket still carried
\* has arrived or is lost: a reconnect waits at least one second.
Opened ==
    /\ link = "connecting"
    /\ flight = << >>
    /\ link' = "authenticating"
    /\ wire' = "up"
    /\ UNCHANGED << connected, stop, attempt, failures, outgoing, reader, shutdown, outside >>

Overflows(n) == n > LargestExponent

\* next_delay counts, raises 2.0 to the delays handed out before, and only then
\* caps the delay: the power of too many is an OverflowError.
Counted(n) == IF Overflows(n) THEN n ELSE n + 1

\* run() raised, and its supervisor restarts it after a delay, with the transport
\* and its backoff as they are.  A run of half a minute resets the supervisor's
\* backoff; its next_delay is called outside of any handler too.
Crash ==
    \E healthy \in BOOLEAN :
        LET before == IF healthy THEN 0 ELSE failures
        IN  IF shutdown # "no"
              THEN link' = "done" /\ failures' = before
              ELSE /\ failures' = Counted(before)
                   /\ link' = IF Overflows(before) THEN "done" ELSE "crashed"

\* After a connection ended: stop, or wait for the next delay of the backoff,
\* which is asked for behind the handlers of the loop.
After ==
    IF stop
      THEN link' = "done" /\ UNCHANGED << attempt, failures >>
      ELSE /\ attempt' = Counted(attempt)
           /\ IF Overflows(attempt)
                THEN Crash
                ELSE link' = "waiting" /\ UNCHANGED failures

\* The connector fails or times out.
Unreachable ==
    /\ link = "connecting"
    /\ After
    /\ connected' = FALSE
    /\ UNCHANGED << wire, stop, outgoing, reader, shutdown, outside >>

\* Seeded fault: only the first connection starts a writer.
AuthOkOnce ==
    /\ link = "authenticating"
    /\ wire = "up"
    /\ link' = "session"
    /\ connected' = TRUE
    /\ attempt' = 0
    /\ writer' = IF stop THEN "ended" ELSE IF offered = 0 THEN "idle" ELSE "none"
    /\ reader' = IF stop THEN "none" ELSE "waiting"
    /\ UNCHANGED << wire, stop, failures, queue, unfinished, hand, shutdown, outside >>

\* auth_ok: the transport is connected and starts writer, heartbeat and reader.
AuthOk ==
    /\ link = "authenticating"
    /\ wire = "up"
    /\ link' = "session"
    /\ connected' = TRUE
    /\ attempt' = 0
    /\ writer' = IF stop THEN "ended" ELSE "idle"
    /\ reader' = IF stop THEN "none" ELSE "waiting"
    /\ UNCHANGED << wire, stop, failures, queue, unfinished, hand, shutdown, outside >>

\* The relay refuses, stays silent for too long, or the socket breaks.
AuthFails ==
    /\ link = "authenticating"
    /\ link' = "closing"
    /\ wire' = "down"
    /\ UNCHANGED << connected, stop, attempt, failures, outgoing, reader, shutdown, outside >>

\* Seeded fault: a cancelled writer puts its envelope back into the queue.
WriterPutsBack ==
    /\ hand' = << >>
    /\ queue' = queue \o hand
    /\ UNCHANGED unfinished

\* The writer is cancelled: what it had in hand is done with.
WriterCancelled ==
    /\ queue' = queue
    /\ IF hand = << >> THEN UNCHANGED << hand, unfinished >> ELSE Finished

\* The tasks of the session are cancelled.  An envelope in hand may have been
\* written.  A handler may swallow the cancellation (LlmRunner.cancel does) and
\* run on.
EndSession ==
    /\ link' = "tearing"
    /\ WriterCancelled
    /\ writer' = "none"
    /\ flight' \in IF wire = "up" THEN {flight, flight \o hand} ELSE {flight}
    /\ reader' \in IF reader = "handling" THEN {"none", "handling"} ELSE {"none"}
    /\ UNCHANGED << wire, connected, stop, attempt, failures, offered, received >>

\* Seeded fault: the heartbeat task does not watch the stop event.
SessionOverBroken ==
    /\ link = "session"
    /\ wire = "down" /\ (reader = "waiting" \/ hand # << >>)
    /\ EndSession
    /\ UNCHANGED shutdown

\* Seeded fault: the session waits for all of its tasks.
SessionOverLate ==
    /\ link = "session"
    /\ stop
    /\ EndSession
    /\ UNCHANGED shutdown

\* The first of writer, heartbeat and reader to finish ends the session: the
\* socket broke under one of them, or stop was requested.
SessionOver ==
    /\ link = "session"
    /\ stop \/ (wire = "down" /\ (reader = "waiting" \/ hand # << >>))
    /\ EndSession
    /\ UNCHANGED shutdown

\* All three tasks have ended; the socket is left to its context manager.
TornDown ==
    /\ link = "tearing"
    /\ reader = "none"
    /\ link' = "closing"
    /\ connected' = FALSE
    /\ wire' = "down"
    /\ UNCHANGED << stop, attempt, failures, outgoing, reader, shutdown, outside >>

\* The context manager has closed the socket.
Closed ==
    /\ link = "closing"
    /\ wire' = "none"
    /\ connected' = FALSE
    /\ IF shutdown = "cancelled"
         THEN link' = "done" /\ UNCHANGED << attempt, failures >>
         ELSE After
    /\ UNCHANGED << stop, outgoing, reader, shutdown, outside >>

\* The delay is over or stop was requested.
Waited ==
    /\ link = "waiting"
    /\ link' = "starting"
    /\ UNCHANGED << wire, connected, stop, attempt, failures, outgoing, reader, shutdown, outside >>

\* The supervisor's delay is over or the program stops.
Restarted ==
    /\ link = "crashed"
    /\ link' = IF shutdown = "no" THEN "starting" ELSE "done"
    /\ UNCHANGED << wire, connected, stop, attempt, failures, outgoing, reader, shutdown, outside >>

-----------------------------------------------------------------------------
(* The reader.                                                             *)

\* A command arrives and its handler is awaited.
Command ==
    /\ reader = "waiting"
    /\ wire = "up"
    /\ reader' = "handling"
    /\ UNCHANGED << connection, outgoing, shutdown, outside >>

\* The handler returns.  One that swallowed its cancellation leads the reader
\* back to a socket that is closed by now, or to the end of its loop.
Handled ==
    /\ reader = "handling"
    /\ reader' = IF stop \/ (link = "tearing" /\ wire = "down") THEN "none" ELSE "waiting"
    /\ UNCHANGED << connection, outgoing, shutdown, outside >>

\* A reader that outlived its session finds the socket closed or the end.
ReaderEnds ==
    /\ link = "tearing"
    /\ reader = "waiting"
    /\ stop \/ wire = "down"
    /\ reader' = "none"
    /\ UNCHANGED << connection, outgoing, shutdown, outside >>

-----------------------------------------------------------------------------
(* The network and the relay.                                              *)

Break ==
    /\ wire = "up"
    /\ wire' = "down"
    /\ UNCHANGED << link, connected, stop, attempt, failures, outgoing, reader, shutdown, outside >>

\* The relay receives the next frame; it keeps heartbeats for itself.
Receive ==
    /\ flight # << >>
    /\ flight' = Tail(flight)
    /\ received' = IF Head(flight) = Heartbeat THEN received ELSE Append(received, Head(flight))
    /\ UNCHANGED << connection, outgoing, reader, shutdown, offered >>

\* What a broken or closed socket carried is lost.
Vanish ==
    /\ wire # "up"
    /\ flight # << >>
    /\ flight' = << >>
    /\ UNCHANGED << connection, outgoing, reader, shutdown, offered, received >>

-----------------------------------------------------------------------------
(* The program's shutdown (main.py): drain, stop, then the cancellation of *)
(* its tasks, which also happens when the shutdown overruns its budget.    *)

\* The program's stop event is set, and the stages of the shutdown get to drain.
Drain ==
    /\ shutdown = "no"
    /\ shutdown' = "draining"
    /\ UNCHANGED << connection, outgoing, reader, outside >>

\* A supervisor that ended takes the program down.
GoDown == link = "done" /\ Drain

\* drain returned: nothing is unfinished, or its time is up.  stop() sets the
\* event and closes the socket, if there is one by now.
Stop ==
    /\ shutdown = "draining"
    /\ stop' = TRUE
    /\ IF wire = "none"
         THEN /\ shutdown' = "stopped"
              /\ connected' = FALSE
              /\ UNCHANGED wire
         ELSE /\ shutdown' = "stopping"
              /\ wire' = "down"
              /\ UNCHANGED connected
    /\ UNCHANGED << link, attempt, failures, outgoing, reader, outside >>

\* close returned.
Stopped ==
    /\ shutdown = "stopping"
    /\ shutdown' = "stopped"
    /\ connected' = FALSE
    /\ UNCHANGED << link, wire, stop, attempt, failures, outgoing, reader, outside >>

\* The program cancels the task of run().
CancelRun ==
    /\ shutdown # "cancelled"
    /\ link # "done"
    /\ shutdown' = "cancelled"
    /\ \/ /\ link \in {"starting", "connecting", "waiting", "crashed", "closing"}
          /\ link' = "done"
          /\ wire' = "none"
          /\ connected' = FALSE
          /\ UNCHANGED << stop, attempt, failures, outgoing, reader, outside >>
       \/ /\ link = "authenticating"
          /\ link' = "closing"
          /\ wire' = "down"
          /\ UNCHANGED << connected, stop, attempt, failures, outgoing, reader, outside >>
       \/ /\ link = "session"
          /\ EndSession
       \/ /\ link = "tearing"
          /\ reader' \in {"none", reader}
          /\ UNCHANGED << connection, outgoing, outside >>

-----------------------------------------------------------------------------
RunTurn == Connect \/ TornDown \/ Closed \/ Waited \/ Restarted

WriterTurn == Take \/ Sent

ReaderTurn == Handled \/ ReaderEnds

Next ==
    \/ SendEvent \/ Beat \/ WriterTurn
    \/ RunTurn \/ Opened \/ Unreachable \/ AuthOk \/ AuthFails \/ SessionOver
    \/ Command \/ ReaderTurn
    \/ Break \/ Receive \/ Vanish
    \/ Drain \/ Stop \/ Stopped \/ CancelRun

\* The loop runs what is ready; a writer takes its first envelope before its
\* session can end (strong).  Handlers return, timeouts elapse, and a relay
\* that is tried again and again is reached and authenticates some time
\* (strong).  Nothing makes services send, sockets break or the program stop
\* while its supervisors run.
Fairness ==
    /\ WF_vars(RunTurn)
    /\ WF_vars(ReaderTurn)
    /\ WF_vars(SessionOver)
    /\ WF_vars(Beat)
    /\ WF_vars(Sent)
    /\ SF_vars(Take)
    /\ WF_vars(Opened \/ Unreachable)
    /\ SF_vars(Opened)
    /\ WF_vars(AuthOk \/ AuthFails)
    /\ SF_vars(AuthOk)
    /\ WF_vars(Receive \/ Vanish)
    /\ WF_vars(GoDown)
    /\ WF_vars(Stop)
    /\ WF_vars(Stopped)

Spec == Init /\ [][Next]_vars

FairSpec == Spec /\ Fairness

-----------------------------------------------------------------------------
(* Properties.                                                             *)

\* The transport is a lossy channel: across reconnects, a full queue and
\* cancelled writers, no event overtakes another, none arrives twice.
Delivers == INSTANCE LossyChannel WITH
    transit <- Elements(Pending) \ {Heartbeat}

KeepsOrder == Delivers!Spec

\* drain waits for exactly what is queued or in the writer's hand: overflow,
\* failed sends and cancelled writers leave the count right.
UnfinishedCounts == unfinished = Len(queue) + Len(hand)

\* While the socket is up and nobody stops the program, only the oldest
\* envelope of a full queue is ever lost, and the newest is never refused.
LostForCause ==
    [][wire = "up" /\ ~stop /\ shutdown' # "cancelled" =>
        /\ \A e \in Elements(Pending) :
              \/ e \in Elements(Pending') \cup Elements(received') \cup {Heartbeat}
              \/ Len(queue) = Capacity /\ e = Head(queue)
        /\ connected /\ offered' # offered => offered' \in Elements(Pending')]_vars

\* However often the socket breaks, wherever run() is when it does, whatever the
\* handlers do with their cancellation, and though run() may end when its backoff
\* overflows, the PC has a working connection again or the program goes down.
Reconnects == []<>((connected /\ wire = "up") \/ shutdown # "no")

\* What was queued leaves the queue, in this session or a later one.
QueueMoves ==
    \A e \in Events : e \in Elements(queue) ~> e \notin Elements(queue) \/ shutdown # "no"

\* Once stop was requested, run() ends.
StopEnds == stop ~> link = "done"
=============================================================================
