---------------------------- MODULE RelayPresence ----------------------------
(***************************************************************************)
(* Who is online: the relay's connection handlers                          *)
(* (backend/app/websocket.py), its presence tracker (presence.py) and the  *)
(* shared presence value and channel (pubsub.py), for one room.            *)
(*                                                                         *)
(* With Redis every await on the pub/sub layer suspends and other handlers *)
(* run; the coroutines of the in-memory layer never do, so what a handler  *)
(* or the sweeper does between two reads of its socket or of the clock is  *)
(* not interrupted.  A socket identifier stands for one connection: a      *)
(* client that reconnects uses a new one.  Of the frames that cross a room *)
(* only presence is modelled.                                              *)
(*                                                                         *)
(* The names that every specification has begin with Presence here, so     *)
(* that the phone's proofs can extend this module beside PhoneAnswers.     *)
(***************************************************************************)
EXTENDS Naturals, Sequences

CONSTANTS
    PcSockets,   \* connections of the PC, one after the other
    Phones,      \* connections of phones
    Instances,   \* relay processes
    NoInstance,  \* where a socket is that is not connected
    Deployments  \* ways the relay is run: with RedisPubSub or InMemoryPubSub, in
                 \* which processes, and which of them a connection may reach

Sockets == PcSockets \cup Phones

ASSUME RelayPresenceAssumption ==
    /\ PcSockets \cap Phones = {}
    /\ NoInstance \notin Instances
    /\ Deployments \subseteq
          [redis : BOOLEAN, relays : SUBSET Instances, reach : [Sockets -> SUBSET Instances]]
    \* Without Redis two processes share nothing: each is a relay of its own.
    /\ \A d \in Deployments : ~d.redis => \A i, j \in d.relays : i = j

VARIABLES
    deployment, \* how this relay is run, from its start to its end
    presence,  \* what get_pc_online answers
    alive,     \* the instances that run
    home,      \* the instance a socket is connected to
    stage,     \* how far the socket's handler (ws_endpoint) is
    sub,       \* its subscriber task: none, starting, or subscribed
    silent,    \* PcSockets: the PC is gone and the relay has not noticed
    read,      \* the presence the handler read before its last await
    mail,      \* Phones: presence events on their way to the phone
    view,      \* Phones: pcOnline, as the phone shows it
    last,      \* per instance: PresenceTracker._last_broadcast of the room
    sweep,     \* per instance: the sweep in progress
    missed     \* Phones: an event was published after the phone's presence was
               \* read and before its subscription, and none since (history)

presenceVars ==
    << deployment, presence, alive, home, stage, sub, silent, read, mail, view, last, sweep,
       missed >>

Redis == deployment.redis

socketVars == << home, stage, sub, silent >>
phoneVars  == << mail, view, missed >>

Stages == { "new",
            "setting", "announcing",             \* pc_connected
            "reading",                           \* a phone's get_pc_online
            "noting",                            \* _broadcast(True) published
            "greeting",                          \* sending auth_ok
            "serving",                           \* the receive loop
            "beating", "beaten",                 \* pc_heartbeat
            "unsetting", "retracting", "retracted",  \* pc_disconnected
            "gone" }

Online  == "online"
Offline == "offline"
Unknown == "unknown"

Words == {Online, Offline}

PresenceTypeOK ==
    /\ deployment \in Deployments
    /\ presence \in Words
    /\ alive \subseteq Instances
    /\ home \in [Sockets -> Instances \cup {NoInstance}]
    /\ stage \in [Sockets -> Stages]
    /\ sub \in [Sockets -> {"none", "starting", "live"}]
    /\ silent \in [PcSockets -> BOOLEAN]
    /\ read \in [Sockets -> Words]
    /\ mail \in [Phones -> Seq(Words)]
    /\ view \in [Phones -> Words \cup {Unknown}]
    /\ last \in [Instances -> Words \cup {Unknown}]
    /\ sweep \in [Instances -> [at : {"idle", "comparing", "noting"}, found : Words]]
    /\ missed \in [Phones -> BOOLEAN]

Resting == [at |-> "idle", found |-> Offline]

PresenceInit ==
    /\ deployment \in Deployments
    /\ presence = Offline
    /\ alive = deployment.relays
    /\ home = [s \in Sockets |-> NoInstance]
    /\ stage = [s \in Sockets |-> "new"]
    /\ sub = [s \in Sockets |-> "none"]
    /\ silent = [p \in PcSockets |-> FALSE]
    /\ read = [s \in Sockets |-> Offline]
    /\ mail = [m \in Phones |-> << >>]
    /\ view = [m \in Phones |-> Unknown]
    /\ last = [i \in Instances |-> Unknown]
    /\ sweep = [i \in Instances |-> Resting]
    /\ missed = [m \in Phones |-> FALSE]

MoveTo(s, g) == stage' = [stage EXCEPT ![s] = g]

Closing == {"unsetting", "retracting", "retracted"}

\* Between watch and unwatch.
Attached(s) == stage[s] \notin {"new", "gone"} \cup Closing

\* PresenceTracker._watched counts the attached sockets of its instance.
Watches(i, s) == Attached(s) /\ home[s] = i
Watched(i) == \E s \in Sockets : Watches(i, s)

\* A handler, or a sweep, that awaits the shared layer.
MidHandler(s) == stage[s] \notin {"new", "greeting", "serving", "gone"}
MidSweep(i) == sweep[i].at # "idle"

\* Without Redis such a piece of code runs to its end.
MayRun(s) ==
    Redis \/ (/\ \A t \in Sockets \ {s} : ~MidHandler(t)
              /\ \A i \in Instances : ~MidSweep(i))
MaySweep(i) ==
    Redis \/ \A s \in Sockets : ~MidHandler(s)

\* Seeded fault: phones are only told of a PC that comes.
PublishArrivals(word) ==
    /\ mail' = [m \in Phones |-> IF sub[m] = "live" /\ word = Online
                                   THEN Append(mail[m], word) ELSE mail[m]]
    /\ missed' = [m \in Phones |->
          sub[m] # "live" /\ (missed[m] \/ stage[m] = "greeting" \/ sub[m] = "starting")]
    /\ UNCHANGED view

\* pubsub.publish of a presence event: one copy for every subscribed phone.
Publish(word) ==
    /\ mail' = [m \in Phones |-> IF sub[m] = "live"
                                   THEN Append(mail[m], word) ELSE mail[m]]
    /\ missed' = [m \in Phones |->
          sub[m] # "live" /\ (missed[m] \/ stage[m] = "greeting" \/ sub[m] = "starting")]
    /\ UNCHANGED view

-----------------------------------------------------------------------------
(* A connection, up to its receive loop.                                   *)

\* The PC has one live connection: it opens the next one when it has lost the
\* last, which the relay may not have noticed.
PcMayConnect == \A p \in PcSockets : Attached(p) => silent[p]

\* ws_endpoint: authenticated; watch, then the first await on the presence.
Accept(s) ==
    /\ MayRun(s)
    /\ stage[s] = "new"
    /\ s \in PcSockets => PcMayConnect
    /\ \E i \in alive \cap deployment.reach[s] : home' = [home EXCEPT ![s] = i]
    /\ MoveTo(s, IF s \in PcSockets THEN "setting" ELSE "reading")
    /\ UNCHANGED << deployment, presence, alive, sub, silent, read, phoneVars, last, sweep >>

\* set_pc_presence(room, True) of pc_connected.
SetOnline(p) ==
    /\ MayRun(p)
    /\ p \in PcSockets
    /\ stage[p] = "setting"
    /\ presence' = Online
    /\ MoveTo(p, "announcing")
    /\ UNCHANGED << deployment, alive, home, sub, silent, read, phoneVars, last, sweep >>

\* publish of _broadcast(room, True); the dedupe value is set when it returns.
Announce(p) ==
    /\ MayRun(p)
    /\ p \in PcSockets
    /\ stage[p] = "announcing"
    /\ Publish(Online)
    /\ MoveTo(p, "noting")
    /\ UNCHANGED << deployment, presence, alive, home, sub, silent, read, last, sweep >>

\* _last_broadcast[room] = True, after connecting or after a heartbeat.
Note(p) ==
    /\ MayRun(p)
    /\ stage[p] = "noting"
    /\ last' = [last EXCEPT ![home[p]] = Online]
    /\ MoveTo(p, IF sub[p] = "none" THEN "greeting" ELSE "serving")
    /\ UNCHANGED << deployment, presence, alive, home, sub, silent, read, phoneVars, sweep >>

\* A phone's handler reads the presence it will put into auth_ok.
ReadPresence(m) ==
    /\ MayRun(m)
    /\ m \in Phones
    /\ stage[m] = "reading"
    /\ read' = [read EXCEPT ![m] = presence]
    /\ MoveTo(m, "greeting")
    /\ UNCHANGED << deployment, presence, alive, home, sub, silent, phoneVars, last, sweep >>

\* auth_ok is sent and the subscriber task created.
Greet(s) ==
    /\ MayRun(s)
    /\ stage[s] = "greeting"
    /\ MoveTo(s, "serving")
    /\ sub' = [sub EXCEPT ![s] = "starting"]
    /\ mail' = IF s \in Phones THEN [mail EXCEPT ![s] = << read[s] >>] ELSE mail
    /\ UNCHANGED << deployment, presence, alive, home, silent, read, view, missed, last, sweep >>

\* The subscriber task's first step: from now on it receives the room's events.
Subscribe(s) ==
    /\ MayRun(s)
    /\ sub[s] = "starting"
    /\ sub' = [sub EXCEPT ![s] = "live"]
    /\ UNCHANGED << deployment, presence, alive, home, stage, silent, read, phoneVars, last, sweep >>

\* The phone takes the next auth_ok or presence event off its socket.
Deliver(m) ==
    /\ mail[m] # << >>
    /\ view' = [view EXCEPT ![m] = Head(mail[m])]
    /\ mail' = [mail EXCEPT ![m] = Tail(@)]
    /\ UNCHANGED << deployment, presence, alive, socketVars, read, missed, last, sweep >>

-----------------------------------------------------------------------------
(* Heartbeats.                                                             *)

\* The PC's socket carries heartbeats to its handler.
Beating(p) == stage[p] \in {"serving", "beating", "beaten", "noting"}
              /\ sub[p] # "none" /\ ~silent[p]

\* pc_heartbeat: get_pc_online.
BeatRead(p) ==
    /\ MayRun(p)
    /\ p \in PcSockets
    /\ stage[p] = "serving"
    /\ ~silent[p]
    /\ read' = [read EXCEPT ![p] = presence]
    /\ MoveTo(p, "beating")
    /\ UNCHANGED << deployment, presence, alive, home, sub, silent, phoneVars, last, sweep >>

\* Seeded fault: a heartbeat only refreshes a presence that is still there.
BeatRefreshes(p) ==
    /\ MayRun(p)
    /\ stage[p] = "beating"
    /\ presence' = read[p]
    /\ MoveTo(p, "beaten")
    /\ UNCHANGED << deployment, alive, home, sub, silent, read, phoneVars, last, sweep >>

\* set_pc_presence(room, True) of pc_heartbeat.
BeatSet(p) ==
    /\ MayRun(p)
    /\ stage[p] = "beating"
    /\ presence' = Online
    /\ MoveTo(p, "beaten")
    /\ UNCHANGED << deployment, alive, home, sub, silent, read, phoneVars, last, sweep >>

\* A heartbeat that found the PC offline announces it again.
BeatAnswer(p) ==
    /\ MayRun(p)
    /\ stage[p] = "beaten"
    /\ \/ /\ read[p] = Online
          /\ last' = [last EXCEPT ![home[p]] = Online]
          /\ MoveTo(p, "serving")
          /\ UNCHANGED phoneVars
       \/ /\ read[p] = Offline
          /\ Publish(Online)
          /\ MoveTo(p, "noting")
          /\ UNCHANGED last
    /\ UNCHANGED << deployment, presence, alive, home, sub, silent, read, sweep >>

-----------------------------------------------------------------------------
(* The end of a connection.                                                *)

\* The PC loses its network or its power; the relay's socket stays open.
GoSilent(p) ==
    /\ p \in PcSockets
    /\ Attached(p)
    /\ ~silent[p]
    /\ silent' = [silent EXCEPT ![p] = TRUE]
    /\ UNCHANGED << deployment, presence, alive, home, stage, sub, read, phoneVars, last, sweep >>

\* unwatch: the last socket of an instance takes the dedupe value with it.
Unwatch(s) ==
    last' = [i \in Instances |->
                IF home[s] = i /\ ~\E t \in Sockets \ {s} : Watches(i, t)
                  THEN Unknown ELSE last[i]]

\* The socket is found closed: the finally block up to pc_disconnected.
Close(s) ==
    /\ MayRun(s)
    /\ stage[s] \in {"greeting", "serving"}
    /\ sub' = [sub EXCEPT ![s] = "none"]
    /\ MoveTo(s, IF s \in PcSockets THEN "unsetting" ELSE "gone")
    /\ mail' = IF s \in Phones THEN [mail EXCEPT ![s] = << >>] ELSE mail
    /\ Unwatch(s)
    /\ UNCHANGED << deployment, presence, alive, home, silent, read, view, missed, sweep >>

\* set_pc_presence(room, False) of pc_disconnected.
SetOffline(p) ==
    /\ MayRun(p)
    /\ stage[p] = "unsetting"
    /\ presence' = Offline
    /\ MoveTo(p, "retracting")
    /\ UNCHANGED << deployment, alive, home, sub, silent, read, phoneVars, last, sweep >>

\* publish of _broadcast(room, False).
Retract(p) ==
    /\ MayRun(p)
    /\ stage[p] = "retracting"
    /\ Publish(Offline)
    /\ MoveTo(p, "retracted")
    /\ UNCHANGED << deployment, presence, alive, home, sub, silent, read, last, sweep >>

\* _last_broadcast[room] = False, also when nobody watches the room any more.
NoteRetracted(p) ==
    /\ MayRun(p)
    /\ stage[p] = "retracted"
    /\ last' = [last EXCEPT ![home[p]] = Offline]
    /\ MoveTo(p, "gone")
    /\ UNCHANGED << deployment, presence, alive, home, sub, silent, read, phoneVars, sweep >>

-----------------------------------------------------------------------------
(* The time to live, and the sweeper that announces its end.               *)

\* The PC's connection has set the presence and still refreshes it.
Refreshed == \E p \in PcSockets :
    stage[p] \in {"announcing", "noting", "greeting", "serving", "beating", "beaten"}
        /\ ~silent[p]

\* Seeded fault: the presence is stored without a time to live.
NoTtl == FALSE

\* Fifteen seconds without a refresh.  That is three heartbeats and five sweeps,
\* and far longer than the few awaits of a handler or a sweep.
TtlElapsed ==
    /\ ~Refreshed
    /\ \A s \in Sockets : stage[s] \in {"new", "greeting", "serving", "gone"}
    /\ \A i \in Instances :
          /\ sweep[i].at = "idle" \/ (sweep[i].at = "comparing" /\ sweep[i].found = Online)
          /\ Watched(i) /\ last[i] # Unknown => last[i] = Online

Expire ==
    /\ presence = Online
    /\ TtlElapsed
    /\ presence' = Offline
    /\ UNCHANGED << deployment, alive, socketVars, read, phoneVars, last, sweep >>

\* Seeded fault: the sweeper announces only a PC that is back.
SweepDiffersUp(i, word) == last[i] = Offline /\ word = Online

\* _last_broadcast.get(room, online) != online
SweepDiffers(i, word) == last[i] \notin {Unknown, word}

\* _sweep_loop: a watched room, get_pc_online.  A sweep that nothing can come
\* between and that has nothing to say is left out.
SweepRead(i) ==
    /\ MaySweep(i)
    /\ sweep[i].at = "idle"
    /\ Watched(i)
    /\ Redis \/ SweepDiffers(i, presence)
    /\ sweep' = [sweep EXCEPT ![i] = [at |-> "comparing", found |-> presence]]
    /\ UNCHANGED << deployment, presence, alive, socketVars, read, phoneVars, last >>

\* The answer is compared with the last broadcast and published if it differs.
SweepCompare(i) ==
    /\ MaySweep(i)
    /\ sweep[i].at = "comparing"
    /\ IF SweepDiffers(i, sweep[i].found)
         THEN /\ Publish(sweep[i].found)
              /\ sweep' = [sweep EXCEPT ![i].at = "noting"]
         ELSE /\ sweep' = [sweep EXCEPT ![i] = Resting]
              /\ UNCHANGED phoneVars
    /\ UNCHANGED << deployment, presence, alive, socketVars, read, last >>

SweepNote(i) ==
    /\ MaySweep(i)
    /\ sweep[i].at = "noting"
    /\ last' = [last EXCEPT ![i] = sweep[i].found]
    /\ sweep' = [sweep EXCEPT ![i] = Resting]
    /\ UNCHANGED << deployment, presence, alive, socketVars, read, phoneVars >>

\* An instance dies: no finally block runs and its sweeper is gone.  The presence
\* outlives it in Redis; a relay without Redis takes everything with it.
Crash(i) ==
    /\ Redis
    /\ i \in alive
    /\ alive' = alive \ {i}
    /\ stage' = [s \in Sockets |-> IF home[s] = i THEN "gone" ELSE stage[s]]
    /\ sub' = [s \in Sockets |-> IF home[s] = i THEN "none" ELSE sub[s]]
    /\ mail' = [m \in Phones |-> IF home[m] = i THEN << >> ELSE mail[m]]
    /\ last' = [last EXCEPT ![i] = Unknown]
    /\ sweep' = [sweep EXCEPT ![i] = Resting]
    /\ UNCHANGED << deployment, presence, home, silent, read, view, missed >>

-----------------------------------------------------------------------------
HandlerTurn(s) ==
    \/ SetOnline(s) \/ Announce(s) \/ Note(s) \/ ReadPresence(s) \/ Greet(s)
    \/ Subscribe(s) \/ BeatSet(s) \/ BeatAnswer(s)
    \/ SetOffline(s) \/ Retract(s) \/ NoteRetracted(s)

SweeperTurn(i) == SweepRead(i) \/ SweepCompare(i) \/ SweepNote(i)

PresenceNext ==
    \/ Expire
    \/ \E s \in Sockets : Accept(s) \/ HandlerTurn(s) \/ Close(s)
    \/ \E p \in PcSockets : BeatRead(p) \/ GoSilent(p)
    \/ \E m \in Phones : Deliver(m)
    \/ \E i \in Instances : SweeperTurn(i) \/ Crash(i)

\* Redis answers and every handler that is ready gets its turn (a strong
\* fairness: others may run in between), a living PC sends its heartbeats, the
\* sweeper sweeps, time passes, and a socket that is open delivers.  Nobody has
\* to connect or to leave.
PresenceFairness ==
    /\ WF_presenceVars(Expire)
    /\ \A s \in Sockets : SF_presenceVars(HandlerTurn(s))
    /\ \A p \in PcSockets : WF_presenceVars(BeatRead(p))
    /\ \A m \in Phones : WF_presenceVars(Deliver(m))
    /\ \A i \in Instances : WF_presenceVars(SweeperTurn(i))

PresenceSpec == PresenceInit /\ [][PresenceNext]_presenceVars

FairPresenceSpec == PresenceSpec /\ PresenceFairness

-----------------------------------------------------------------------------
(* Properties.                                                             *)

Served(m) == stage[m] = "serving" /\ sub[m] = "live"

\* Nothing is on its way: no handler between two awaits, no event in a queue,
\* and no sweep that would still say something.
Settled ==
    /\ \A s \in Sockets : stage[s] \in {"new", "serving", "gone"} /\ sub[s] # "starting"
    /\ \A m \in Phones : mail[m] = << >>
    /\ \A i \in Instances :
          /\ sweep[i].at = "idle"
          /\ Watched(i) => last[i] \in {Unknown, presence}

\* In one process: when nothing is on its way, a phone shows the presence the relay
\* holds, unless an event fell into the gap before its subscription.  Late handlers
\* of an old socket, heartbeats and sweeps never leave a phone with an older word.
\* That "multiple relay instances agree without sharing in-process memory"
\* (presence.py:14-15) does not hold of what their phones show, and is not claimed.
PhonesAgree ==
    ~Redis /\ Settled => \A m \in Phones : Served(m) /\ ~missed[m] => view[m] = presence

\* The PC's finally block sets it offline when the next connection is already
\* up: its heartbeats repair that for good.
HeartbeatRepairs ==
    <>[](\E p \in PcSockets : Beating(p)) => <>[](presence = Online)

\* A PC that left, or that the network cut off, ends up offline, whichever of
\* its handlers were still running and whichever instance died.
AbsenceNoticed ==
    <>[](\A p \in PcSockets : ~Attached(p) \/ silent[p]) => <>[](presence = Offline)

\* In one process: a phone that stays connected learns of the PC's going and coming
\* without a reload (docs/pc_mobile_ai_assistant_PRD.md:1347-1353).
PhonesFollow ==
    \A m \in Phones : <>[](~Redis /\ Served(m) /\ ~missed[m]) =>
        /\ <>[](presence = Online) => <>[](view[m] = Online)
        /\ <>[](presence = Offline) => <>[](view[m] = Offline)
=============================================================================
