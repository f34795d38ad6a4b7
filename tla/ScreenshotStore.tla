--------------------------- MODULE ScreenshotStore ---------------------------
(***************************************************************************)
(* Screenshots: their image files, their rows in SQLite and the list the   *)
(* phone shows (services/screenshot_service.py, screenshot/capture.py and  *)
(* hotkey.py, storage/sqlite.py; components/assistant/screenshot-view.tsx).*)
(*                                                                         *)
(* Captures are tasks of their own; deleting, clearing and the history are *)
(* handlers of the one reader of the relay connection.  Each database or   *)
(* file call of a handler runs in a thread: when the connection ends, the  *)
(* call that is under way is finished by its thread, and the rest of the   *)
(* handler is gone.  What is asked about a screenshot is LlmRunner's.      *)
(***************************************************************************)
EXTENDS Naturals, Sequences

CONSTANTS
    Shots,      \* the captures of a run
    MaxPresses, \* bound: deletes and clears the user asks for
    MaxCuts     \* bound: connections lost, and crashes

ASSUME ScreenshotStoreAssumption == MaxPresses \in Nat /\ MaxCuts \in Nat

VARIABLES
    task,    \* per shot: how far capture_and_analyze is
    disk,    \* per shot: its files
    rows,    \* the rows of screenshots
    reader,  \* the handler the reader is in
    stray,   \* the call a cancelled handler left in its thread
    link,    \* up, or the side that has lost its connection to the relay
    up,      \* commands on their way to the PC
    down,    \* events on their way to the phone
    page,    \* the shots on the phone
    presses, cuts,
    left,    \* shots whose files something was bound to leave behind (history)
    missed,  \* shots whose announcement was lost and not made up for (history)
    stale    \* shots the phone was bound to show without their row (history)

store   == << disk, rows >>
channel == << link, up, down >>
bounds  == << presses, cuts >>
history == << left, missed, stale >>

vars == << task, store, reader, stray, channel, page, bounds, history >>

-----------------------------------------------------------------------------
\* A preview that could not be written to its end is scrap: the capture goes on as
\* one without a preview.
Files == {"original", "preview", "scrap"}

Job(op, at, shots) == [op |-> op, at |-> at, shots |-> shots]

Idle == Job("none", "none", {})

Steps == {"get", "drop", "select", "wipe", "answers", "unlink", "query", "none"}
Jobs == [op : {"none", "delete", "clear", "history"}, at : Steps, shots : SUBSET Shots]

\* What the phone sends, and what it is sent.
Commands == [op : {"delete", "clear", "history"}, at : {"none"}, shots : SUBSET Shots]

Events == [type : {"created", "cleared", "history"}, shots : SUBSET Shots]

Event(type, shots) == [type |-> type, shots |-> shots]

TypeOK ==
    /\ task \in [Shots -> {"new", "grabbing", "saving", "announcing", "over"}]
    /\ disk \in [Shots -> SUBSET Files]
    /\ rows \subseteq Shots
    /\ reader \in Jobs /\ stray \in Jobs
    /\ link \in {"up", "phone", "pc"}
    /\ up \in Seq(Commands)
    /\ down \in Seq(Events)
    /\ page \subseteq Shots
    /\ presses \in 0..MaxPresses /\ cuts \in 0..MaxCuts
    /\ left \subseteq Shots /\ missed \subseteq Shots /\ stale \subseteq Shots

Init ==
    /\ task = [s \in Shots |-> "new"]
    /\ disk = [s \in Shots |-> {}]
    /\ rows = {}
    /\ reader = Idle
    /\ stray = Idle
    /\ link = "up"
    /\ up = << >>
    /\ down = << >>
    /\ page = {}
    /\ presses = 0 /\ cuts = 0
    /\ left = {} /\ missed = {} /\ stale = {}

\* ServiceBase.emit: an event is dropped while either side is away.
Emit(event) ==
    down' = IF link = "up" THEN Append(down, event) ELSE down

-----------------------------------------------------------------------------
(* Captures.                                                               *)

\* The hotkey, debounced, or capture_screen: a task of its own each time.
Trigger(s) ==
    /\ task[s] = "new"
    /\ task' = [task EXCEPT ![s] = "grabbing"]
    /\ UNCHANGED << store, reader, stray, channel, page, bounds, history >>

\* capture_screen_sync: the original is saved, then the preview, which may fail
\* alone, before or in the middle of its file; encoding may fail after that, and
\* the files stay.
Grab(s) ==
    /\ task[s] = "grabbing"
    /\ \E more \in {{}, {"preview"}, {"scrap"}} :
          disk' = [disk EXCEPT ![s] = {"original"} \cup more]
    /\ \/ /\ task' = [task EXCEPT ![s] = "saving"]
          /\ UNCHANGED left
       \/ /\ task' = [task EXCEPT ![s] = "over"]
          /\ left' = left \cup {s}
    /\ UNCHANGED << rows, reader, stray, channel, page, bounds, missed, stale >>

\* The screen cannot be grabbed, or the original not be saved: the library that
\* writes it removes what it began.
GrabFails(s) ==
    /\ task[s] = "grabbing"
    /\ task' = [task EXCEPT ![s] = "over"]
    /\ UNCHANGED << store, reader, stray, channel, page, bounds, history >>

\* _persist; without a row the capture goes on.  A clear that is past the rows
\* is going to take the shot off the phone.
Persist(s) ==
    /\ task[s] = "saving"
    /\ task' = [task EXCEPT ![s] = "announcing"]
    /\ \/ /\ rows' = rows \cup {s}
          /\ missed' = IF reader.op = "clear" /\ reader.at \in {"answers", "unlink"}
                         THEN missed \cup {s} ELSE missed
          /\ UNCHANGED << left, stale >>
       \/ /\ left' = left \cup {s}
          /\ stale' = stale \cup {s}
          /\ UNCHANGED << rows, missed >>
    /\ UNCHANGED << disk, reader, stray, channel, page, bounds >>

\* screenshot_created.
Announce(s) ==
    /\ task[s] = "announcing"
    /\ task' = [task EXCEPT ![s] = "over"]
    /\ Emit(Event("created", {s}))
    /\ missed' = IF link = "up" THEN missed ELSE missed \cup {s}
    /\ UNCHANGED << store, reader, stray, link, up, page, bounds, left, stale >>

-----------------------------------------------------------------------------
(* The steps of a database or file call.                                   *)

\* Seeded fault: only the originals are collected for deletion.
UnlinkOriginals(shots) ==
    disk' = [s \in Shots |-> IF s \in shots THEN disk[s] \ {"original"} ELSE disk[s]]

\* screenshot_files and delete_files: a row names its original and its preview.
Unlink(shots) ==
    disk' = [s \in Shots |-> IF s \in shots THEN disk[s] \cap {"scrap"} ELSE disk[s]]

\* Each statement takes the lock by itself: delete_screenshot looks the row up
\* and then deletes it, clear_screenshots selects the rows and then deletes all.
\* Files that another program holds stay, here all files of a shot.
Work(job) ==
    \/ job.at \in {"get", "select", "answers", "query"} /\ UNCHANGED store
    \/ job.at = "drop" /\ rows' = rows \ job.shots /\ UNCHANGED disk
    \/ job.at = "wipe" /\ rows' = {} /\ UNCHANGED disk
    \/ /\ job.at = "unlink"
       /\ \E held \in SUBSET job.shots : Unlink(job.shots \ held)
       /\ UNCHANGED rows

\* Seeded fault: the files are deleted before the row.
AfterFilesFirst(job) ==
    CASE job.at = "get"     -> Job(job.op, "unlink", job.shots \cap rows)
      [] job.at = "unlink" /\ job.op = "delete" -> Job(job.op, "drop", job.shots)
      [] job.at = "select"  -> Job(job.op, "wipe", rows)
      [] job.at = "wipe"    -> Job(job.op, "answers", job.shots)
      [] job.at = "answers" -> Job(job.op, "unlink", job.shots)
      [] OTHER              -> Idle

\* What is known after a statement, and the next one.
After(job) ==
    CASE job.at = "get"     -> Job(job.op, "drop", job.shots \cap rows)
      [] job.at = "drop"    -> Job(job.op, "unlink", job.shots)
      [] job.at = "select"  -> Job(job.op, "wipe", rows)
      [] job.at = "wipe"    -> Job(job.op, "answers", job.shots)
      [] job.at = "answers" -> Job(job.op, "unlink", job.shots)
      [] OTHER              -> Idle

\* History: files that this statement leaves behind: of a shot stored between
\* the select and the delete, of a file that is held, and, when nobody goes on
\* from here, of every shot whose row is gone.
LeftBy(job, last) ==
    UNION { IF job.at = "wipe" THEN rows \ job.shots ELSE {},
            IF job.at = "unlink" THEN {s \in job.shots : disk'[s] = disk[s]} ELSE {},
            IF last /\ job.at \in {"drop", "wipe", "answers"} THEN job.shots ELSE {} }

\* History: the captures without a row.
Rowless == {s \in Shots \ rows : task[s] \in {"announcing", "over"}}

\* History: a row that goes before it is announced, a delete that meets a history
\* the phone has not received yet, and the captures without a row when a clear
\* ends that nobody is told about.
StaleBy(job, last) ==
    UNION { {s \in rows \ rows' : task[s] = "announcing"},
            IF job.at = "drop"
              THEN job.shots \cap UNION {down[i].shots : i \in DOMAIN down} ELSE {},
            IF last /\ job.at \in {"wipe", "answers", "unlink"} /\ job.op = "clear"
              THEN Rowless' ELSE {} }

\* The statements after which a thread returns to its handler.
Returning == {"drop", "wipe", "answers", "unlink", "query"}

\* The thread of a handler that is gone goes on to the end of its call.
StrayStep ==
    /\ stray # Idle
    /\ UNCHANGED task
    /\ Work(stray)
    /\ LET last == stray.at \in Returning
       IN  /\ stray' = IF last THEN Idle ELSE After(stray)
           /\ left' = left \cup LeftBy(stray, last)
           /\ stale' = stale \cup StaleBy(stray, last)
    /\ UNCHANGED << reader, channel, page, bounds, missed >>

-----------------------------------------------------------------------------
(* The handlers.                                                           *)

\* _dispatch; capture_screen only spawns a task.
Dispatch ==
    /\ reader = Idle
    /\ link # "pc"
    /\ up # << >>
    /\ up' = Tail(up)
    /\ reader' = LET shots == Head(up).shots
                 IN  CASE Head(up).op = "delete"  -> Job("delete", "get", shots)
                       [] Head(up).op = "clear"   -> Job("clear", "select", {})
                       [] Head(up).op = "history" -> Job("history", "query", {})
    /\ UNCHANGED << task, store, stray, link, down, page, bounds, history >>

\* Seeded fault: the clear is acknowledged before the rows are deleted.
ReplyHasty ==
    CASE reader.op = "clear" /\ reader.at = "select" -> Emit(Event("cleared", {}))
      [] reader.op = "history"                       -> Emit(Event("history", rows))
      [] OTHER                                       -> UNCHANGED down

\* A clear is acknowledged at its end; a history is sent as it was read; a
\* delete has no reply.
Reply ==
    CASE reader.op = "clear" /\ reader.at = "unlink" -> Emit(Event("cleared", {}))
      [] reader.op = "history"                       -> Emit(Event("history", rows))
      [] OTHER                                       -> UNCHANGED down

\* A delete of a shot without a row ends after the look-up.
HandlerStep ==
    /\ reader # Idle
    /\ UNCHANGED task
    /\ Work(reader)
    /\ reader' = IF reader.at = "get" /\ After(reader).shots = {} THEN Idle ELSE After(reader)
    /\ Reply
    /\ left' = left \cup LeftBy(reader, FALSE)
    /\ stale' = stale \cup StaleBy(reader, reader.at = "unlink" /\ link # "up")
    /\ UNCHANGED << stray, link, up, page, bounds, missed >>

\* The database refuses a statement: the handler ends with an error in the log.
HandlerFails ==
    /\ reader # Idle
    /\ reader.at # "unlink"
    /\ UNCHANGED << task, store >>
    /\ reader' = Idle
    /\ left' = left \cup LeftBy(reader, reader.at = "answers")
    /\ stale' = stale \cup StaleBy(reader, reader.at = "answers")
    /\ UNCHANGED << stray, channel, page, bounds, missed >>

-----------------------------------------------------------------------------
(* The phone.                                                              *)

\* A command reaches the PC's queue, or nobody.
Send(op, shots) ==
    /\ presses < MaxPresses
    /\ presses' = presses + 1
    /\ up' = IF link = "up" THEN Append(up, Job(op, "none", shots)) ELSE up

\* remove: taken off the page at once.
PressDelete(s) ==
    /\ s \in page
    /\ Send("delete", {s})
    /\ page' = page \ {s}
    /\ missed' = missed \cup {s}
    /\ UNCHANGED << task, store, reader, stray, link, down, cuts, left, stale >>

\* confirmClear: the page waits for the acknowledgement.
PressClear ==
    /\ link = "up"
    /\ Send("clear", {})
    /\ UNCHANGED << task, store, reader, stray, link, down, page, cuts, history >>

\* History: shots with a delete on its way.
Doomed ==
    UNION ( {up[i].shots : i \in DOMAIN up} \cup
            {job.shots : job \in {j \in {reader, stray} : j.at \in {"get", "drop"}}} )

\* Shots of a history are merged with those on the page.
Shown(shots) == page \cup shots

\* The page takes the next event.
Deliver ==
    /\ link # "phone"
    /\ down # << >>
    /\ LET event == Head(down)
       IN  /\ page' = IF event.type = "cleared" THEN {} ELSE Shown(event.shots)
           /\ missed' = IF event.type = "history" THEN missed \ event.shots ELSE missed
           /\ stale' = IF event.type = "cleared"
                         THEN stale ELSE stale \cup (event.shots \cap Doomed)
    /\ down' = Tail(down)
    /\ UNCHANGED << task, store, reader, stray, link, up, bounds, left >>

-----------------------------------------------------------------------------
(* Lost connections and crashes.                                           *)

\* What was on its way to the phone is lost, or was past the break.
DropDown(gone) ==
    LET Lost(type) == {i \in DOMAIN down : gone /\ down[i].type = type}
    IN  /\ down' = IF gone THEN << >> ELSE down
        /\ missed' = missed \cup UNION {down[i].shots : i \in Lost("created")}
        /\ stale' = IF Lost("cleared") # {} THEN stale \cup Rowless ELSE stale

CutPhone ==
    /\ link = "up"
    /\ cuts < MaxCuts
    /\ cuts' = cuts + 1
    /\ link' = "phone"
    /\ up' \in {up, << >>}
    /\ DropDown(TRUE)
    /\ UNCHANGED << task, store, reader, stray, page, left, presses >>

\* _session cancels the reader and with it the handler it is in.
CutPc ==
    /\ link = "up"
    /\ cuts < MaxCuts
    /\ cuts' = cuts + 1
    /\ link' = "pc"
    /\ up' = << >>
    /\ reader' = Idle
    /\ stray' = reader
    /\ \E gone \in BOOLEAN : DropDown(gone)
    /\ UNCHANGED << task, store, page, left, presses >>

\* The program dies; when it is back it has what is on the disk.
Crash ==
    /\ cuts < MaxCuts
    /\ cuts' = cuts + 1
    /\ link' = "pc"
    /\ up' = << >>
    /\ UNCHANGED << store, down, page, presses >>
    /\ reader' = Idle
    /\ stray' = Idle
    /\ task' = [s \in Shots |-> IF task[s] = "new" THEN "new" ELSE "over"]
    /\ LET broken == {job \in {reader, stray} : job.at \in {"answers", "unlink"}}
       IN  /\ left' = UNION ( {left, {s \in Shots : task[s] = "saving"}}
                             \cup {job.shots : job \in broken} )
           /\ stale' = stale \cup UNION {StaleBy(job, TRUE) : job \in broken}
    /\ missed' = missed \cup {s \in Shots : task[s] = "announcing"}

\* The phone asks for the history after its own auth_ok, not when the PC is
\* back.  A reconnection takes a second or more, the rest of a call much less.
Rejoin ==
    /\ link # "up"
    /\ stray = Idle
    /\ link' = "up"
    /\ up' = IF link = "phone" THEN Append(up, Job("history", "none", {})) ELSE up
    /\ UNCHANGED << task, store, reader, stray, down, page, bounds, history >>

-----------------------------------------------------------------------------
Next ==
    \/ \E s \in Shots :
          \/ Trigger(s) \/ Grab(s) \/ GrabFails(s) \/ Persist(s) \/ Announce(s)
          \/ PressDelete(s)
    \/ StrayStep \/ Dispatch \/ HandlerStep \/ HandlerFails
    \/ PressClear \/ Deliver
    \/ CutPhone \/ CutPc \/ Crash \/ Rejoin

Spec == Init /\ [][Next]_vars

-----------------------------------------------------------------------------
(* Properties.                                                             *)

\* Nothing is under way.
Settled ==
    /\ \A s \in Shots : task[s] \in {"new", "over"}
    /\ reader = Idle /\ stray = Idle
    /\ link = "up" /\ up = << >> /\ down = << >>

\* Whatever is deleted or cleared, interrupted or killed on the way: a row of
\* the database never lacks its image.
RowsHaveImages == \A s \in rows : "original" \in disk[s]

HasFiles(s) == ~ (disk[s] \subseteq {"scrap"})

\* Image files without a row only remain of a capture that failed half way or
\* was refused its row, of a shot that was stored while all were cleared, of a
\* handler that was cut off, and of a file that was held.  A half-written preview
\* is named by no row and is never removed.
FilesHaveRows == Settled => \A s \in Shots : HasFiles(s) => s \in rows \cup left

\* When nothing is under way the phone shows the stored screenshots.  It may
\* lack one whose announcement was lost or whose deletion was, until the next
\* history; it may show one whose row was refused, cleared before it was
\* announced, cleared with nobody to tell, or deleted beside a history.
PhoneShowsRows ==
    Settled => /\ rows \subseteq page \cup missed
               /\ page \subseteq rows \cup stale
=============================================================================
