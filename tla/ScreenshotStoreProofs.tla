------------------------ MODULE ScreenshotStoreProofs ------------------------
(* Proofs about ScreenshotStore, for any number of captures, commands and  *)
(* lost connections: the types, that no row lacks its image, where files   *)
(* without a row come from, and that the phone shows what is stored.       *)
EXTENDS ScreenshotStore, TLAPS

-----------------------------------------------------------------------------
(* The inductive invariant.                                                *)

\* A shot has a row only after its image was saved: it is past _persist.
RowsPersisted == \A s \in rows : task[s] \in {"announcing", "over"}

\* The image is there when the row is written.
SavedFirst == \A s \in Shots : task[s] = "saving" => "original" \in disk[s]

\* The steps of a job that has picked its shots from the rows.
Picked == {"drop", "wipe", "answers", "unlink"}

\* What a job is going to delete had a row, and once the job has come to the
\* files it has none any more, and never gets one again.
JobInv(job) ==
    /\ job.at \in Picked => \A s \in job.shots : task[s] \in {"announcing", "over"}
    /\ job.at \in {"answers", "unlink"} => job.shots \cap rows = {}

StoreInv ==
    /\ RowsHaveImages
    /\ RowsPersisted
    /\ SavedFirst
    /\ JobInv(reader)
    /\ JobInv(stray)

Inv == TypeOK /\ StoreInv

-----------------------------------------------------------------------------
(* What the helpers return.                                                *)

LEMMA IdleTyped == Idle \in Jobs
  BY SMT DEF Idle, Job, Jobs, Steps

LEMMA AfterTyped ==
    ASSUME NEW job \in Jobs, rows \subseteq Shots
    PROVE  After(job) \in Jobs
  BY IdleTyped, SMT DEF After, Job, Jobs, Steps

LEMMA WorkTyped ==
    ASSUME TypeOK, NEW job \in Jobs, Work(job)
    PROVE  rows' \subseteq Shots /\ disk' \in [Shots -> SUBSET Files]
<1>1. rows \subseteq Shots /\ disk \in [Shots -> SUBSET Files]
  BY DEF TypeOK
<1>2. rows' \subseteq Shots
  BY <1>1 DEF Work, store
<1>3. ASSUME NEW shots, Unlink(shots)
      PROVE  disk' \in [Shots -> SUBSET Files]
  BY <1>1, <1>3 DEF Unlink
<1>4. QED
  BY <1>1, <1>2, <1>3 DEF Work, store

LEMMA EmitTyped ==
    ASSUME TypeOK, NEW event \in Events, Emit(event)
    PROVE  down' \in Seq(Events)
  BY SMT DEF TypeOK, Emit

\* A job marks only shots, whatever happens to it.
LEMMA MarksTyped ==
    ASSUME TypeOK, NEW job \in Jobs, rows' \subseteq Shots, NEW last
    PROVE  LeftBy(job, last) \subseteq Shots /\ StaleBy(job, last) \subseteq Shots
<1>1. rows \subseteq Shots /\ job.shots \subseteq Shots
  BY SMT DEF TypeOK, Jobs
<1>2. LeftBy(job, last) \subseteq Shots
  BY <1>1, SMT DEF LeftBy
<1>3. Rowless' \subseteq Shots
  BY SMT DEF Rowless
<1>4. StaleBy(job, last) \subseteq Shots
  BY <1>1, <1>3, SMT DEF StaleBy
<1>5. QED
  BY <1>2, <1>4

LEMMA DropDownTyped ==
    ASSUME TypeOK, NEW gone \in BOOLEAN, DropDown(gone)
    PROVE  down' \in Seq(Events) /\ missed' \subseteq Shots /\ stale' \subseteq Shots
<1>1. \A i \in DOMAIN down : down[i].shots \subseteq Shots
  <2>1. \A i \in DOMAIN down : down[i] \in Events
    BY SMT DEF TypeOK
  <2>2. QED
    BY <2>1, SMT DEF Events
<1>2. Rowless \subseteq Shots
  BY SMT DEF Rowless
<1>3. QED
  BY <1>1, <1>2, SMT DEF TypeOK, DropDown
-----------------------------------------------------------------------------
(* What a database or file call does to the invariant.                     *)

\* No call adds a row, none takes an image whose row is still there, and none
\* touches a shot that has not been stored.
LEMMA WorkKeepsStore ==
    ASSUME Inv, NEW job \in Jobs, JobInv(job), Work(job), task' = task
    PROVE  RowsHaveImages' /\ RowsPersisted' /\ SavedFirst' /\ rows' \subseteq rows
<1>1. CASE job.at \in {"get", "select", "answers", "query"} /\ UNCHANGED store
  BY <1>1, SMT DEF Inv, StoreInv, RowsHaveImages, RowsPersisted, SavedFirst, store
<1>2. CASE job.at = "drop" /\ rows' = rows \ job.shots /\ UNCHANGED disk
  BY <1>2, SMT DEF Inv, StoreInv, RowsHaveImages, RowsPersisted, SavedFirst
<1>3. CASE job.at = "wipe" /\ rows' = {} /\ UNCHANGED disk
  BY <1>3, SMT DEF Inv, StoreInv, RowsHaveImages, RowsPersisted, SavedFirst
<1>4. ASSUME job.at = "unlink", NEW held \in SUBSET job.shots,
             Unlink(job.shots \ held), UNCHANGED rows
      PROVE  RowsHaveImages' /\ RowsPersisted' /\ SavedFirst' /\ rows' \subseteq rows
  <2>1. \A s \in Shots : s \notin job.shots => disk'[s] = disk[s]
    BY <1>4, SMT DEF Unlink
  <2>2. job.shots \cap rows = {}
    BY <1>4, SMT DEF JobInv
  <2>3. \A s \in job.shots : task[s] \in {"announcing", "over"}
    BY <1>4, SMT DEF JobInv, Picked
  <2>4. QED
    BY <1>4, <2>1, <2>2, <2>3, SMT
    DEF Inv, TypeOK, StoreInv, RowsHaveImages, RowsPersisted, SavedFirst
<1>5. QED
  BY <1>1, <1>2, <1>3, <1>4 DEF Work

LEMMA JobsKept ==
    ASSUME NEW job, JobInv(job), rows' \subseteq rows, task' = task
    PROVE  JobInv(job)'
  BY SMT DEF JobInv

LEMMA IdleInv == JobInv(Idle)'
  BY SMT DEF JobInv, Idle, Job, Picked

\* The next statement of a job finds what the one before it left.
LEMMA AfterInv ==
    ASSUME Inv, NEW job \in Jobs, JobInv(job), Work(job), task' = task,
           NEW next, next = After(job)
    PROVE  JobInv(next)'
<1>1. CASE job.at = "get"
  <2>1. next = Job(job.op, "drop", job.shots \cap rows)
    BY <1>1 DEF After
  <2>2. QED
    BY <2>1, SMT DEF Job, JobInv, Picked, Inv, StoreInv, RowsPersisted
<1>2. CASE job.at = "drop"
  <2>1. next = Job(job.op, "unlink", job.shots)
    BY <1>2 DEF After
  <2>2. rows' = rows \ job.shots
    BY <1>2 DEF Work
  <2>3. QED
    BY <1>2, <2>1, <2>2, SMT DEF Job, JobInv, Picked
<1>3. CASE job.at = "select"
  <2>1. next = Job(job.op, "wipe", rows)
    BY <1>3 DEF After
  <2>2. QED
    BY <2>1, SMT DEF Job, JobInv, Picked, Inv, StoreInv, RowsPersisted
<1>4. CASE job.at = "wipe"
  <2>1. next = Job(job.op, "answers", job.shots)
    BY <1>4 DEF After
  <2>2. rows' = {}
    BY <1>4 DEF Work
  <2>3. QED
    BY <1>4, <2>1, <2>2, SMT DEF Job, JobInv, Picked
<1>5. CASE job.at = "answers"
  <2>1. next = Job(job.op, "unlink", job.shots)
    BY <1>5 DEF After
  <2>2. rows' = rows
    BY <1>5 DEF Work, store
  <2>3. QED
    BY <1>5, <2>1, <2>2, SMT DEF Job, JobInv, Picked
<1>6. CASE job.at \notin {"get", "drop", "select", "wipe", "answers"}
  <2>1. next = Idle
    BY <1>6 DEF After
  <2>2. QED
    BY <2>1, IdleInv
<1>7. QED
  BY <1>1, <1>2, <1>3, <1>4, <1>5, <1>6

-----------------------------------------------------------------------------
(* The actions.                                                            *)

THEOREM InitInv == Init => Inv
<1>1. Init => TypeOK
  BY ScreenshotStoreAssumption, IdleTyped, SMT DEF Init, TypeOK, Files
<1>2. Init => StoreInv
  BY SMT DEF Init, StoreInv, RowsHaveImages, RowsPersisted, SavedFirst, JobInv, Idle, Job,
             Picked
<1>3. QED
  BY <1>1, <1>2 DEF Inv

LEMMA CaptureKeepsInv ==
    ASSUME Inv, NEW s \in Shots,
           Trigger(s) \/ Grab(s) \/ GrabFails(s) \/ Persist(s) \/ Announce(s)
    PROVE  Inv'
<1>1. TypeOK'
  <2>1. CASE Trigger(s)
    BY <2>1, SMT DEF Inv, TypeOK, Trigger, store, channel, bounds, history
  <2>2. CASE Grab(s)
    <3>1. disk' \in [Shots -> SUBSET Files]
      <4>1. PICK more \in {{}, {"preview"}, {"scrap"}} :
                disk' = [disk EXCEPT ![s] = {"original"} \cup more]
        BY <2>2 DEF Grab
      <4>2. {"original"} \cup more \in SUBSET Files
        BY SMT DEF Files
      <4>3. QED
        BY <4>1, <4>2, SMT DEF Inv, TypeOK
    <3>2. task' \in [Shots -> {"new", "grabbing", "saving", "announcing", "over"}]
      BY <2>2, SMT DEF Inv, TypeOK, Grab
    <3>3. left' \subseteq Shots
      BY <2>2, SMT DEF Inv, TypeOK, Grab
    <3>4. QED
      BY <2>2, <3>1, <3>2, <3>3, SMT DEF Inv, TypeOK, Grab, channel, bounds
  <2>3. CASE GrabFails(s)
    BY <2>3, SMT DEF Inv, TypeOK, GrabFails, store, channel, bounds, history
  <2>4. CASE Persist(s)
    BY <2>4, SMT DEF Inv, TypeOK, Persist, channel, bounds
  <2>5. CASE Announce(s)
    <3>1. Event("created", {s}) \in Events
      BY SMT DEF Event, Events
    <3>2. down' \in Seq(Events)
      BY <2>5, <3>1, EmitTyped DEF Announce, Inv
    <3>3. QED
      BY <2>5, <3>2, SMT DEF Inv, TypeOK, Announce, store, bounds
  <2>6. QED
    BY <2>1, <2>2, <2>3, <2>4, <2>5
<1>2. StoreInv'
  <2>1. \A t \in Shots : t # s => task'[t] = task[t] /\ disk'[t] = disk[t]
    BY SMT DEF Inv, TypeOK, Trigger, Grab, GrabFails, Persist, Announce, store
  <2>2. reader' = reader /\ stray' = stray
    BY DEF Trigger, Grab, GrabFails, Persist, Announce
  <2>3. task[s] \in {"announcing", "over"} =>
           task'[s] \in {"announcing", "over"} /\ disk'[s] = disk[s]
    BY SMT DEF Inv, TypeOK, Trigger, Grab, GrabFails, Persist, Announce, store
  <2>4. task'[s] = "saving" => "original" \in disk'[s]
    BY SMT DEF Inv, TypeOK, Trigger, Grab, GrabFails, Persist, Announce, store, Files
  <2>5. \/ rows' = rows
        \/ /\ rows' = rows \cup {s}
           /\ task[s] = "saving" /\ task'[s] = "announcing" /\ disk' = disk
    BY SMT DEF Inv, TypeOK, Trigger, Grab, GrabFails, Persist, Announce, store
  <2>6. RowsHaveImages' /\ RowsPersisted' /\ SavedFirst'
    BY <2>1, <2>3, <2>4, <2>5, SMT
    DEF Inv, TypeOK, StoreInv, RowsHaveImages, RowsPersisted, SavedFirst
  <2>7. ASSUME NEW job \in Jobs, JobInv(job)
        PROVE  JobInv(job)'
    BY <2>1, <2>3, <2>5, <2>7, SMT DEF JobInv, Picked, Jobs
  <2>8. JobInv(reader)' /\ JobInv(stray)'
    <3>1. PICK job \in Jobs : job = reader
      BY DEF Inv, TypeOK
    <3>2. PICK other \in Jobs : other = stray
      BY DEF Inv, TypeOK
    <3>3. JobInv(job)' /\ JobInv(other)'
      BY <2>7, <3>1, <3>2 DEF Inv, StoreInv
    <3>4. QED
      BY <2>2, <3>1, <3>2, <3>3, SMT DEF JobInv
  <2>9. QED
    BY <2>6, <2>8 DEF StoreInv
<1>3. QED
  BY <1>1, <1>2 DEF Inv
\* A call that ends with a reply, or in a thread whose handler is gone, or that
\* is refused: the statement and its successor keep the invariant.
LEMMA JobKeepsStore ==
    ASSUME Inv, NEW job \in Jobs, job \in {reader, stray}, Work(job), task' = task
    PROVE  /\ RowsHaveImages' /\ RowsPersisted' /\ SavedFirst'
           /\ rows' \subseteq Shots /\ disk' \in [Shots -> SUBSET Files]
           /\ reader' = reader => JobInv(reader)'
           /\ stray' = stray => JobInv(stray)'
           /\ \A next \in {After(job), Idle} : JobInv(next)'
<1>1. JobInv(job)
  BY DEF Inv, StoreInv
<1>2. RowsHaveImages' /\ RowsPersisted' /\ SavedFirst' /\ rows' \subseteq rows
  BY <1>1, WorkKeepsStore
<1>3. rows' \subseteq Shots /\ disk' \in [Shots -> SUBSET Files]
  BY WorkTyped DEF Inv
<1>4. PICK one \in Jobs, other \in Jobs : one = reader /\ other = stray
  BY DEF Inv, TypeOK
<1>5. JobInv(one)' /\ JobInv(other)'
  BY <1>2, <1>4, JobsKept DEF Inv, StoreInv
<1>6. \A next \in {After(job), Idle} : JobInv(next)'
  <2>1. TAKE next \in {After(job), Idle}
  <2>2. CASE next = After(job)
    BY <1>1, <2>2, AfterInv
  <2>3. CASE next = Idle
    BY <2>3, IdleInv
  <2>4. QED
    BY <2>2, <2>3
<1>7. (reader' = reader => JobInv(reader)') /\ (stray' = stray => JobInv(stray)')
  BY <1>4, <1>5, SMT DEF JobInv
<1>8. QED
  BY <1>2, <1>3, <1>6, <1>7

LEMMA StrayKeepsInv ==
    ASSUME Inv, StrayStep
    PROVE  Inv'
<1>1. PICK job \in Jobs : job = stray
  BY DEF Inv, TypeOK
<1>2. PICK next \in Jobs : next = stray' /\ next \in {After(job), Idle}
  BY <1>1, AfterTyped, IdleTyped DEF StrayStep, Inv, TypeOK
<1>3. Work(job) /\ task' = task /\ reader' = reader
  BY <1>1 DEF StrayStep
<1>4. /\ RowsHaveImages' /\ RowsPersisted' /\ SavedFirst'
      /\ rows' \subseteq Shots /\ disk' \in [Shots -> SUBSET Files]
      /\ JobInv(reader)' /\ JobInv(next)'
  BY <1>1, <1>2, <1>3, JobKeepsStore
<1>5. StoreInv'
  BY <1>2, <1>4, SMT DEF StoreInv, JobInv
<1>6. PICK last : left' = left \cup LeftBy(job, last) /\ stale' = stale \cup StaleBy(job, last)
  BY <1>1 DEF StrayStep
<1>7. left' \subseteq Shots /\ stale' \subseteq Shots
  BY <1>4, <1>6, MarksTyped, SMT DEF Inv, TypeOK
<1>8. TypeOK'
  BY <1>2, <1>3, <1>4, <1>7, SMT DEF Inv, TypeOK, StrayStep, channel, bounds
<1>9. QED
  BY <1>5, <1>8 DEF Inv

LEMMA HandlerKeepsInv ==
    ASSUME Inv, HandlerStep
    PROVE  Inv'
<1>1. PICK job \in Jobs : job = reader
  BY DEF Inv, TypeOK
<1>2. PICK next \in Jobs : next = reader' /\ next \in {After(job), Idle}
  BY <1>1, AfterTyped, IdleTyped DEF HandlerStep, Inv, TypeOK
<1>3. Work(job) /\ task' = task /\ stray' = stray
  BY <1>1 DEF HandlerStep
<1>4. /\ RowsHaveImages' /\ RowsPersisted' /\ SavedFirst'
      /\ rows' \subseteq Shots /\ disk' \in [Shots -> SUBSET Files]
      /\ JobInv(stray)' /\ JobInv(next)'
  BY <1>1, <1>2, <1>3, JobKeepsStore
<1>5. StoreInv'
  BY <1>2, <1>4, SMT DEF StoreInv, JobInv
<1>6. PICK last : left' = left \cup LeftBy(job, FALSE) /\ stale' = stale \cup StaleBy(job, last)
  BY <1>1 DEF HandlerStep
<1>7. left' \subseteq Shots /\ stale' \subseteq Shots
  <2>1. TypeOK /\ rows' \subseteq Shots
    BY <1>4 DEF Inv
  <2>2. LeftBy(job, FALSE) \subseteq Shots
    BY <2>1, MarksTyped
  <2>3. \A latest : StaleBy(job, latest) \subseteq Shots
    BY <2>1, MarksTyped
  <2>4. PICK files \in SUBSET Shots : left' = left \cup files
    BY <1>6, <2>2
  <2>5. PICK shots \in SUBSET Shots : stale' = stale \cup shots
    BY <1>6, <2>3
  <2>6. QED
    BY <2>4, <2>5, SMT DEF Inv, TypeOK
<1>8. down' \in Seq(Events)
  <2>1. Event("cleared", {}) \in Events /\ Event("history", rows) \in Events
    BY SMT DEF Event, Events, Inv, TypeOK
  <2>2. Emit(Event("cleared", {})) \/ Emit(Event("history", rows)) \/ UNCHANGED down
    BY DEF HandlerStep, Reply
  <2>3. QED
    BY <2>1, <2>2, EmitTyped DEF Inv, TypeOK
<1>9. TypeOK'
  <2>1. UNCHANGED << stray, link, up, page, presses, cuts, missed >>
    BY DEF HandlerStep, bounds
  <2>2. QED
    BY <1>2, <1>3, <1>4, <1>7, <1>8, <2>1, SMT DEF Inv, TypeOK
<1>10. QED
  BY <1>5, <1>9 DEF Inv

\* A step that leaves the files, the rows and the captures alone.
LEMMA StoreUntouched ==
    ASSUME Inv, UNCHANGED << task, disk, rows >>,
           reader' = reader \/ JobInv(reader)', stray' = stray \/ JobInv(stray)'
    PROVE  StoreInv'
  BY SMT DEF Inv, StoreInv, RowsHaveImages, RowsPersisted, SavedFirst, JobInv

LEMMA RefusalKeepsInv ==
    ASSUME Inv, HandlerFails
    PROVE  Inv'
<1>1. PICK job \in Jobs : job = reader
  BY DEF Inv, TypeOK
<1>2. PICK last : left' = left \cup LeftBy(job, last) /\ stale' = stale \cup StaleBy(job, last)
  BY <1>1 DEF HandlerFails
<1>3. rows' = rows /\ disk' = disk
  BY DEF HandlerFails, store
<1>4. left' \subseteq Shots /\ stale' \subseteq Shots
  BY <1>2, <1>3, MarksTyped, SMT DEF Inv, TypeOK
<1>5. TypeOK'
  BY <1>3, <1>4, IdleTyped, SMT DEF Inv, TypeOK, HandlerFails, channel, bounds
<1>6. JobInv(reader)'
  BY IdleInv, SMT DEF HandlerFails, JobInv
<1>7. StoreInv'
  BY <1>3, <1>6, StoreUntouched DEF HandlerFails
<1>8. QED
  BY <1>5, <1>7 DEF Inv
LEMMA CommandsKeepInv ==
    ASSUME Inv, Dispatch \/ (\E s \in Shots : PressDelete(s)) \/ PressClear
    PROVE  Inv'
<1>1. CASE Dispatch
  <2>1. Head(up) \in Commands /\ Tail(up) \in Seq(Commands)
    BY <1>1, SMT DEF Dispatch, Inv, TypeOK
  <2>2. PICK command \in Commands : command = Head(up)
    BY <2>1
  <2>3. reader' = CASE command.op = "delete"  -> Job("delete", "get", command.shots)
                    [] command.op = "clear"   -> Job("clear", "select", {})
                    [] command.op = "history" -> Job("history", "query", {})
    BY <1>1, <2>2 DEF Dispatch
  <2>4. command.op \in {"delete", "clear", "history"} /\ command.shots \subseteq Shots
    BY SMT DEF Commands
  <2>5. reader' \in Jobs /\ JobInv(reader)'
    BY <2>3, <2>4, SMT DEF Job, Jobs, Steps, JobInv, Picked
  <2>6. TypeOK'
    <3>1. up' = Tail(up) /\ UNCHANGED << task, disk, rows, stray, link, down, page,
                                         presses, cuts, left, missed, stale >>
      BY <1>1 DEF Dispatch, store, bounds, history
    <3>2. QED
      BY <2>1, <2>5, <3>1, SMT DEF Inv, TypeOK
  <2>7. StoreInv'
    BY <1>1, <2>5, StoreUntouched DEF Dispatch, store
  <2>8. QED
    BY <2>6, <2>7 DEF Inv
<1>2. ASSUME NEW op \in {"delete", "clear"}, NEW shots \in SUBSET Shots, Send(op, shots)
      PROVE  up' \in Seq(Commands) /\ presses' \in 0..MaxPresses
  <2>1. Job(op, "none", shots) \in Commands
    BY SMT DEF Job, Commands
  <2>2. QED
    BY <1>2, <2>1, ScreenshotStoreAssumption, SMT DEF Send, Inv, TypeOK
<1>3. ASSUME NEW s \in Shots, PressDelete(s)
      PROVE  Inv'
  <2>1. up' \in Seq(Commands) /\ presses' \in 0..MaxPresses
    BY <1>2, <1>3, SMT DEF PressDelete
  <2>2. TypeOK'
    BY <1>3, <2>1, SMT DEF PressDelete, Inv, TypeOK, store
  <2>3. StoreInv'
    BY <1>3, StoreUntouched DEF PressDelete, store
  <2>4. QED
    BY <2>2, <2>3 DEF Inv
<1>4. CASE PressClear
  <2>1. up' \in Seq(Commands) /\ presses' \in 0..MaxPresses
    BY <1>2, <1>4, SMT DEF PressClear
  <2>2. TypeOK'
    BY <1>4, <2>1, SMT DEF PressClear, Inv, TypeOK, store, history
  <2>3. StoreInv'
    BY <1>4, StoreUntouched DEF PressClear, store
  <2>4. QED
    BY <2>2, <2>3 DEF Inv
<1>5. QED
  BY <1>1, <1>3, <1>4

LEMMA DeliverKeepsInv ==
    ASSUME Inv, Deliver
    PROVE  Inv'
<1>1. Head(down) \in Events /\ Tail(down) \in Seq(Events)
  BY SMT DEF Deliver, Inv, TypeOK
<1>2. PICK event \in Events : event = Head(down)
  BY <1>1
<1>3. event.shots \subseteq Shots
  BY SMT DEF Events
<1>4. page' \subseteq Shots /\ missed' \subseteq Shots /\ stale' \subseteq Shots
  BY <1>2, <1>3, SMT DEF Deliver, Inv, TypeOK, Shown
<1>5. TypeOK'
  BY <1>1, <1>4, SMT DEF Deliver, Inv, TypeOK, store, bounds
<1>6. StoreInv'
  BY StoreUntouched DEF Deliver, store
<1>7. QED
  BY <1>5, <1>6 DEF Inv

LEMMA CutsKeepInv ==
    ASSUME Inv, CutPhone \/ CutPc \/ Rejoin
    PROVE  Inv'
<1>1. << >> \in Seq(Commands)
  BY SMT
<1>2. CASE CutPhone
  <2>1. down' \in Seq(Events) /\ missed' \subseteq Shots /\ stale' \subseteq Shots
    BY <1>2, DropDownTyped DEF CutPhone, Inv
  <2>2. TypeOK'
    <3>1. UNCHANGED << task, disk, rows, reader, stray, page, left, presses >>
      BY <1>2 DEF CutPhone, store
    <3>2. link' = "phone" /\ up' \in Seq(Commands)
      BY <1>1, <1>2 DEF CutPhone, Inv, TypeOK
    <3>3. cuts' \in 0..MaxCuts
      BY <1>2, ScreenshotStoreAssumption, SMT DEF CutPhone, Inv, TypeOK
    <3>4. QED
      BY <2>1, <3>1, <3>2, <3>3, SMT DEF Inv, TypeOK
  <2>3. StoreInv'
    BY <1>2, StoreUntouched DEF CutPhone, store
  <2>4. QED
    BY <2>2, <2>3 DEF Inv
<1>3. CASE CutPc
  <2>1. down' \in Seq(Events) /\ missed' \subseteq Shots /\ stale' \subseteq Shots
    BY <1>3, DropDownTyped DEF CutPc, Inv
  <2>2. TypeOK'
    BY <1>1, <1>3, <2>1, IdleTyped, ScreenshotStoreAssumption, SMT DEF CutPc, Inv, TypeOK, store
  <2>3. JobInv(reader)'
    BY <1>3, IdleInv, SMT DEF CutPc, JobInv
  <2>4. JobInv(stray)'
    BY <1>3, SMT DEF CutPc, JobInv, Inv, StoreInv, store
  <2>5. StoreInv'
    BY <1>3, <2>3, <2>4, StoreUntouched DEF CutPc, store
  <2>6. QED
    BY <2>2, <2>5 DEF Inv
<1>4. CASE Rejoin
  <2>1. Job("history", "none", {}) \in Commands
    BY SMT DEF Job, Commands
  <2>2. TypeOK'
    BY <1>4, <2>1, SMT DEF Rejoin, Inv, TypeOK, store, bounds, history
  <2>3. StoreInv'
    BY <1>4, StoreUntouched DEF Rejoin, store
  <2>4. QED
    BY <2>2, <2>3 DEF Inv
<1>5. QED
  BY <1>2, <1>3, <1>4

LEMMA CrashKeepsInv ==
    ASSUME Inv, Crash
    PROVE  Inv'
<1>1. left' \subseteq Shots /\ stale' \subseteq Shots
  <2>1. PICK one \in Jobs, other \in Jobs : one = reader /\ other = stray
    BY DEF Inv, TypeOK
  <2>2. rows' = rows
    BY DEF Crash, store
  <2>3. \A job \in {one, other} :
           job.shots \subseteq Shots /\ StaleBy(job, TRUE) \subseteq Shots
    <3>1. TypeOK /\ rows' \subseteq Shots
      BY <2>2 DEF Inv, TypeOK
    <3>2. \A job \in {one, other} : StaleBy(job, TRUE) \subseteq Shots
      BY <3>1, MarksTyped
    <3>3. \A job \in {one, other} : job.shots \subseteq Shots
      BY SMT DEF Jobs
    <3>4. QED
      BY <3>2, <3>3
  <2>4. PICK broken \in SUBSET {one, other} :
           /\ left' = UNION ( {left, {s \in Shots : task[s] = "saving"}}
                             \cup {job.shots : job \in broken} )
           /\ stale' = stale \cup UNION {StaleBy(job, TRUE) : job \in broken}
    BY <2>1 DEF Crash
  <2>5. UNION {job.shots : job \in broken} \subseteq Shots
    BY <2>3, SMT
  <2>6. UNION {StaleBy(job, TRUE) : job \in broken} \subseteq Shots
    BY <2>3
  <2>7. stale' \subseteq Shots
    BY <2>4, <2>6 DEF Inv, TypeOK
  <2>8. left' \subseteq Shots
    <3>1. UNION ( {left, {s \in Shots : task[s] = "saving"}}
                  \cup {job.shots : job \in broken} ) \subseteq Shots
      BY <2>5, SMT DEF Inv, TypeOK
    <3>2. QED
      BY <2>4, <3>1
  <2>9. QED
    BY <2>7, <2>8
<1>2. TypeOK'
  <2>1. << >> \in Seq(Commands)
    BY SMT
  <2>2. UNCHANGED << disk, rows, down, page, presses >>
    BY DEF Crash, store
  <2>3. reader' = Idle /\ stray' = Idle /\ link' = "pc" /\ up' = << >>
    BY DEF Crash
  <2>4. cuts' \in 0..MaxCuts
    BY ScreenshotStoreAssumption, SMT DEF Crash, Inv, TypeOK
  <2>5. missed' \subseteq Shots
    BY SMT DEF Crash, Inv, TypeOK
  <2>6. task' \in [Shots -> {"new", "grabbing", "saving", "announcing", "over"}]
    BY SMT DEF Crash, Inv, TypeOK
  <2>7. QED
    BY <1>1, <2>1, <2>2, <2>3, <2>4, <2>5, <2>6, IdleTyped, SMT DEF Inv, TypeOK
<1>3. RowsHaveImages' /\ RowsPersisted' /\ SavedFirst'
  BY SMT DEF Crash, Inv, TypeOK, StoreInv, RowsHaveImages, RowsPersisted, SavedFirst, store
<1>4. JobInv(reader)' /\ JobInv(stray)'
  BY IdleInv, SMT DEF Crash, JobInv
<1>5. QED
  BY <1>2, <1>3, <1>4 DEF Inv, StoreInv

-----------------------------------------------------------------------------
(* The theorems.                                                           *)

\* The inductive invariant holds in every reachable state, for any number of
\* captures, commands, lost connections and crashes.
THEOREM Invariance == Spec => []Inv
<1>1. Inv /\ [Next]_vars => Inv'
  <2>1. SUFFICES ASSUME Inv, [Next]_vars PROVE Inv'
    OBVIOUS
  <2>2. ASSUME NEW s \in Shots,
               \/ Trigger(s) \/ Grab(s) \/ GrabFails(s) \/ Persist(s) \/ Announce(s)
               \/ PressDelete(s)
        PROVE  Inv'
    BY <2>1, <2>2, CaptureKeepsInv, CommandsKeepInv
  <2>3. CASE StrayStep
    BY <2>1, <2>3, StrayKeepsInv
  <2>4. CASE HandlerStep
    BY <2>1, <2>4, HandlerKeepsInv
  <2>5. CASE HandlerFails
    BY <2>1, <2>5, RefusalKeepsInv
  <2>6. CASE Dispatch \/ PressClear
    BY <2>1, <2>6, CommandsKeepInv
  <2>7. CASE Deliver
    BY <2>1, <2>7, DeliverKeepsInv
  <2>8. CASE CutPhone \/ CutPc \/ Rejoin
    BY <2>1, <2>8, CutsKeepInv
  <2>9. CASE Crash
    BY <2>1, <2>9, CrashKeepsInv
  <2>10. CASE UNCHANGED vars
    <3>1. UNCHANGED << task, disk, rows, reader, stray, link, up, down, page,
                       presses, cuts, left, missed, stale >>
      BY <2>10 DEF vars, store, channel, bounds, history
    <3>2. QED
      BY <2>1, <3>1, SMT DEF Inv, TypeOK, StoreInv, RowsHaveImages, RowsPersisted,
                             SavedFirst, JobInv
  <2>11. QED
    BY <2>1, <2>2, <2>3, <2>4, <2>5, <2>6, <2>7, <2>8, <2>9, <2>10 DEF Next
<1>2. QED
  BY <1>1, InitInv, PTL DEF Spec

\* Every variable keeps its type.
THEOREM TypeCorrect == Spec => []TypeOK
  BY Invariance, PTL DEF Inv

\* No row of the database ever lacks its image, whatever is captured, deleted
\* or cleared, and wherever a handler is refused, cut off or killed.
THEOREM RowsHaveImagesAlways == Spec => []RowsHaveImages
<1>1. Inv => RowsHaveImages
  BY DEF Inv, StoreInv
<1>2. QED
  BY <1>1, Invariance, PTL

-----------------------------------------------------------------------------
(* Files without a row.                                                    *)

\* The job is past the rows of its shots and not yet past their files.
Collects(job, s) == job.at \in {"answers", "unlink"} /\ s \in job.shots

\* Files without a row are of a capture that is about to store it, of a job that
\* is about to delete them, or were left behind.
Accounted(s) ==
    \/ s \in rows \cup left
    \/ task[s] = "saving"
    \/ Collects(reader, s)
    \/ Collects(stray, s)

FilesInv ==
    /\ stray # Idle => link = "pc"
    /\ \A s \in Shots : HasFiles(s) => Accounted(s)

\* What a call takes from the rows its next statement collects, or it is marked;
\* what it should have deleted and did not is marked.
LEMMA WorkAccounts ==
    ASSUME TypeOK, NEW job \in Jobs, Work(job), NEW last \in BOOLEAN,
           last => job.at \in {"drop", "wipe", "answers", "unlink", "query"},
           NEW s \in Shots, HasFiles(s)',
           s \in rows \/ Collects(job, s)
    PROVE  \/ s \in rows' \/ s \in LeftBy(job, last)
           \/ ~last /\ Collects(After(job), s)
<1>1. CASE job.at \in {"get", "select", "query"}
  BY <1>1, SMT DEF Work, Collects, store
<1>2. CASE job.at = "drop"
  <2>1. rows' = rows \ job.shots
    BY <1>2 DEF Work
  <2>2. After(job) = Job(job.op, "unlink", job.shots)
    BY <1>2 DEF After
  <2>3. last => job.shots \subseteq LeftBy(job, last)
    BY <1>2, SMT DEF LeftBy
  <2>4. QED
    BY <1>2, <2>1, <2>2, <2>3, SMT DEF Collects, Job
<1>3. CASE job.at = "wipe"
  <2>1. After(job) = Job(job.op, "answers", job.shots)
    BY <1>3 DEF After
  <2>2. rows \ job.shots \subseteq LeftBy(job, last)
    BY <1>3, SMT DEF LeftBy
  <2>3. last => job.shots \subseteq LeftBy(job, last)
    BY <1>3, SMT DEF LeftBy
  <2>4. QED
    BY <1>3, <2>1, <2>2, <2>3, SMT DEF Collects, Job
<1>4. CASE job.at = "answers"
  <2>1. rows' = rows
    BY <1>4 DEF Work, store
  <2>2. After(job) = Job(job.op, "unlink", job.shots)
    BY <1>4 DEF After
  <2>3. last => job.shots \subseteq LeftBy(job, last)
    BY <1>4, SMT DEF LeftBy
  <2>4. QED
    BY <1>4, <2>1, <2>2, <2>3, SMT DEF Collects, Job
<1>5. CASE job.at = "unlink"
  <2>1. PICK held \in SUBSET job.shots : Unlink(job.shots \ held) /\ rows' = rows
    BY <1>5 DEF Work
  <2>2. disk'[s] = disk[s]
    BY <2>1, SMT DEF Unlink, HasFiles, TypeOK
  <2>3. {t \in job.shots : disk'[t] = disk[t]} \subseteq LeftBy(job, last)
    BY <1>5, SMT DEF LeftBy
  <2>4. QED
    BY <1>5, <2>1, <2>2, <2>3, SMT DEF Collects
<1>6. QED
  BY <1>1, <1>2, <1>3, <1>4, <1>5, SMT DEF Work, Collects, store

\* No call brings a file back.
LEMMA WorkAddsNoFiles ==
    ASSUME TypeOK, NEW job \in Jobs, Work(job), NEW s \in Shots, HasFiles(s)'
    PROVE  HasFiles(s)
  BY SMT DEF Work, Unlink, HasFiles, store, TypeOK

LEMMA NothingToCollect == \A s : ~Collects(Idle, s)
  BY SMT DEF Collects, Idle, Job

LEMMA CallKeepsFiles ==
    ASSUME Inv, FilesInv, StrayStep \/ HandlerStep
    PROVE  FilesInv'
<1>1. PICK one \in Jobs, other \in Jobs : one = reader /\ other = stray
  BY DEF Inv, TypeOK
<1>2. CASE StrayStep
  <2> DEFINE last == other.at \in {"drop", "wipe", "answers", "unlink", "query"}
  <2>1. /\ stray' = IF last THEN Idle ELSE After(other)
        /\ left' = left \cup LeftBy(other, last)
    BY <1>1, <1>2 DEF StrayStep, Returning
  <2> last \in BOOLEAN /\ (last => other.at \in {"drop", "wipe", "answers", "unlink", "query"})
    OBVIOUS
  <2> HIDE DEF last
  <2>2. /\ Work(other) /\ task' = task /\ reader' = one /\ link' = link
        /\ stray # Idle
    BY <1>1, <1>2 DEF StrayStep, channel
  <2>3. ASSUME NEW s \in Shots, HasFiles(s)'
        PROVE  Accounted(s)'
    <3>1. HasFiles(s)
      BY <2>2, <2>3, WorkAddsNoFiles DEF Inv
    <3>2. Accounted(s)
      BY <3>1 DEF FilesInv
    <3>3. s \in rows \/ Collects(other, s) =>
             \/ s \in rows' \/ s \in LeftBy(other, last)
             \/ ~last /\ Collects(After(other), s)
      BY <2>1, <2>2, <2>3, WorkAccounts DEF Inv
    <3>4. ~last => stray' = After(other)
      BY <2>1
    <3>5. s \in rows \/ Collects(other, s) => s \in rows' \cup left' \/ Collects(stray', s)
      BY <2>1, <3>3, <3>4
    <3>6. Collects(one, s) => Collects(reader', s)
      BY <2>2
    <3>7. \/ s \in rows' \cup left' \/ task'[s] = "saving"
          \/ Collects(reader', s) \/ Collects(stray', s)
      BY <1>1, <2>1, <2>2, <3>2, <3>5, <3>6 DEF Accounted
    <3>8. QED
      BY <3>7 DEF Accounted, Collects
  <2>4. QED
    BY <2>2, <2>3 DEF FilesInv
<1>3. CASE HandlerStep
  <2>1. /\ reader' \in {After(one), Idle}
        /\ reader' # After(one) => one.at = "get"
        /\ left' = left \cup LeftBy(one, FALSE)
    BY <1>1, <1>3 DEF HandlerStep
  <2>2. Work(one) /\ task' = task /\ stray' = other /\ link' = link
    BY <1>1, <1>3 DEF HandlerStep
  <2>3. ASSUME NEW s \in Shots, HasFiles(s)'
        PROVE  Accounted(s)'
    <3>1. HasFiles(s)
      BY <2>2, <2>3, WorkAddsNoFiles DEF Inv
    <3>2. Accounted(s)
      BY <3>1 DEF FilesInv
    <3>3. s \in rows \/ Collects(one, s) =>
             \/ s \in rows' \/ s \in LeftBy(one, FALSE) \/ Collects(After(one), s)
      BY <2>2, <2>3, WorkAccounts DEF Inv
    <3>4. one.at = "get" => ~Collects(one, s) /\ rows' = rows
      BY <2>2, SMT DEF Collects, Work, store
    <3>5. s \in rows \/ Collects(one, s) => s \in rows' \cup left' \/ Collects(reader', s)
      BY <2>1, <3>3, <3>4
    <3>6. \/ s \in rows' \cup left' \/ task'[s] = "saving"
          \/ Collects(reader', s) \/ Collects(stray', s)
      BY <1>1, <2>1, <2>2, <3>2, <3>5 DEF Accounted
    <3>7. QED
      BY <3>6 DEF Accounted, Collects
  <2>4. QED
    BY <1>1, <2>2, <2>3 DEF FilesInv
<1>4. QED
  BY <1>2, <1>3

\* A step that leaves files, rows, jobs and the link alone, and marks no fewer.
LEMMA FilesUntouched ==
    ASSUME FilesInv, UNCHANGED << task, disk, rows, reader, stray, link >>, left \subseteq left'
    PROVE  FilesInv'
  BY SMT DEF FilesInv, HasFiles, Accounted, Collects

LEMMA CaptureKeepsFiles ==
    ASSUME Inv, FilesInv, NEW s \in Shots,
           Trigger(s) \/ Grab(s) \/ GrabFails(s) \/ Persist(s) \/ Announce(s)
    PROVE  FilesInv'
<1>1. UNCHANGED << reader, stray, link >>
  BY DEF Trigger, Grab, GrabFails, Persist, Announce, channel
<1>2. \A t \in Shots \ {s} : task'[t] = task[t] /\ disk'[t] = disk[t]
  BY SMT DEF Inv, TypeOK, Trigger, Grab, GrabFails, Persist, Announce, store
<1>3. rows \subseteq rows' /\ left \subseteq left'
  BY SMT DEF Trigger, Grab, GrabFails, Persist, Announce, store, history
<1>4. \/ task'[s] = "saving" \/ s \in rows' \cup left'
      \/ disk'[s] = disk[s] /\ task[s] # "saving"
  BY SMT DEF Inv, TypeOK, Trigger, Grab, GrabFails, Persist, Announce, store, history
<1>5. ASSUME NEW t \in Shots, HasFiles(t)'
      PROVE  Accounted(t)'
  <2>1. HasFiles(t) => Accounted(t)
    BY DEF FilesInv
  <2>2. QED
    BY <1>1, <1>2, <1>3, <1>4, <1>5, <2>1, SMT DEF HasFiles, Accounted, Collects
<1>6. QED
  BY <1>1, <1>5 DEF FilesInv

LEMMA BreakKeepsFiles ==
    ASSUME Inv, FilesInv, HandlerFails \/ CutPc \/ Crash
    PROVE  FilesInv'
<1>1. PICK one \in Jobs, other \in Jobs : one = reader /\ other = stray
  BY DEF Inv, TypeOK
<1>2. disk' = disk /\ rows' = rows /\ reader' = Idle
  BY DEF HandlerFails, CutPc, Crash, store
<1>3. CASE HandlerFails
  <2>1. /\ task' = task /\ stray' = stray /\ link' = link /\ one.at # "unlink"
        /\ left' = left \cup LeftBy(one, one.at = "answers")
    BY <1>1, <1>3 DEF HandlerFails, channel
  <2>2. \A s : Collects(one, s) => s \in left'
    BY <2>1, SMT DEF Collects, LeftBy
  <2>3. QED
    BY <1>1, <1>2, <2>1, <2>2, SMT DEF FilesInv, HasFiles, Accounted, Collects
<1>4. CASE CutPc
  <2>1. task' = task /\ left' = left /\ stray' = one /\ link' = "pc" /\ other = Idle
    BY <1>1, <1>4 DEF CutPc, FilesInv
  <2>2. \A s \in Shots : Accounted(s) => Accounted(s)'
    BY <1>1, <1>2, <2>1, NothingToCollect, SMT DEF Accounted, Collects
  <2>3. QED
    BY <1>2, <2>1, <2>2 DEF FilesInv, HasFiles
<1>5. CASE Crash
  <2>1. stray' = Idle
    BY <1>5 DEF Crash
  <2>2. left' = UNION ( {left, {s \in Shots : task[s] = "saving"}}
                 \cup {job.shots : job \in {j \in {one, other} : j.at \in {"answers", "unlink"}}} )
    BY <1>1, <1>5 DEF Crash
  <2>3. \A s \in Shots : Accounted(s) => s \in rows \cup left'
    <3>1. left \subseteq left'
      BY <2>2
    <3>2. \A s \in Shots : task[s] = "saving" => s \in left'
      <4>1. PICK saving : saving = {s \in Shots : task[s] = "saving"}
        OBVIOUS
      <4>2. saving \subseteq left'
        BY <2>2, <4>1
      <4>3. QED
        BY <4>1, <4>2
    <3>3. \A s, job : job \in {one, other} /\ Collects(job, s) => s \in left'
      BY <2>2 DEF Collects
    <3>4. QED
      BY <1>1, <3>1, <3>2, <3>3 DEF Accounted
  <2>4. QED
    BY <1>2, <2>1, <2>3 DEF FilesInv, HasFiles, Accounted
<1>6. QED
  BY <1>3, <1>4, <1>5

LEMMA LinkKeepsFiles ==
    ASSUME Inv, FilesInv,
           \/ Dispatch \/ Deliver \/ PressClear \/ CutPhone \/ Rejoin
           \/ \E s \in Shots : PressDelete(s)
    PROVE  FilesInv'
<1>1. UNCHANGED << task, disk, rows, left >> /\ stray' = stray
  BY DEF Dispatch, Deliver, PressClear, CutPhone, Rejoin, PressDelete, store, history
<1>2. stray # Idle => link' = "pc"
  BY DEF Dispatch, Deliver, PressClear, CutPhone, Rejoin, PressDelete, FilesInv
<1>3. reader' = reader \/ reader = Idle
  BY DEF Dispatch, Deliver, PressClear, CutPhone, Rejoin, PressDelete
<1>4. \A s \in Shots : Accounted(s) => Accounted(s)'
  BY <1>1, <1>3, NothingToCollect, SMT DEF Accounted, Collects
<1>5. QED
  BY <1>1, <1>2, <1>4 DEF FilesInv, HasFiles

\* Image files without a row only remain where FilesHaveRows says, for any number
\* of captures, deletes and clears, interrupted or killed anywhere.
THEOREM FilesHaveRowsAlways == Spec => []FilesHaveRows
<1>1. Init => FilesInv
  BY SMT DEF Init, FilesInv, HasFiles
<1>2. Inv /\ FilesInv /\ [Next]_vars => FilesInv'
  <2>1. SUFFICES ASSUME Inv, FilesInv, [Next]_vars PROVE FilesInv'
    OBVIOUS
  <2>2. CASE UNCHANGED vars
    <3>1. UNCHANGED << task, disk, rows, reader, stray, link, left >>
      BY <2>2 DEF vars, store, channel, history
    <3>2. QED
      BY <2>1, <3>1, FilesUntouched
  <2>3. QED
    BY <2>1, <2>2, CaptureKeepsFiles, CallKeepsFiles, BreakKeepsFiles, LinkKeepsFiles DEF Next
<1>3. Inv /\ FilesInv => FilesHaveRows
  BY NothingToCollect, SMT DEF FilesInv, Accounted, FilesHaveRows, Settled
<1>4. QED
  BY <1>1, <1>2, <1>3, Invariance, PTL DEF Spec

-----------------------------------------------------------------------------
(***************************************************************************)
(* The list on the phone.  Position 0 is the page, position p the p-th     *)
(* event on its way.                                                       *)
(***************************************************************************)

At(s, p) == IF p = 0 THEN s \in page ELSE s \in down[p].shots

\* An acknowledged clear is on its way behind position p.
Cleared(p) == \E j \in DOMAIN down : j > p /\ down[j].type = "cleared"

\* The rows are gone and the phone has not been told.
Clearing(job) == job.op = "clear" /\ job.at \in {"answers", "unlink"}

\* Which handler a statement is of.
Owner(job) ==
    /\ job.at \in {"get", "drop"} => job.op = "delete"
    /\ job.at \in {"select", "wipe", "answers"} => job.op = "clear"
    /\ job.op = "history" => job.at = "query"

\* Only what was persisted or refused a row is shown or announced.
Known ==
    \A p \in 0..Len(down), s \in Shots : At(s, p) => task[s] \in {"announcing", "over"}

ListInv == Owner(reader) /\ Owner(stray) /\ Known

-----------------------------------------------------------------------------
(* What a step does to the positions.                                      *)

LEMMA Appended ==
    ASSUME TypeOK, NEW e \in Events, down' = Append(down, e)
    PROVE  /\ Len(down) \in Nat /\ Len(down') = Len(down) + 1
           /\ \A p \in 1..Len(down) : down'[p] = down[p]
           /\ \A p \in 0..Len(down) : Cleared(p)' <=> Cleared(p) \/ e.type = "cleared"
           /\ down'[Len(down) + 1] = e
           /\ \A p : p = Len(down) + 1 => ~Cleared(p)'
<1>1. down \in Seq(Events)
  BY DEF TypeOK
<1>2. /\ Len(down) \in Nat /\ Len(down') = Len(down) + 1
      /\ \A p \in 1..Len(down) : down'[p] = down[p]
      /\ down'[Len(down) + 1] = e
      /\ DOMAIN down = 1..Len(down) /\ DOMAIN down' = 1..(Len(down) + 1)
  BY <1>1, SMT
<1>3. ASSUME NEW p \in 0..Len(down)
      PROVE  Cleared(p)' <=> Cleared(p) \/ e.type = "cleared"
  BY <1>2, SMT DEF Cleared
<1>4. \A p : p = Len(down) + 1 => ~Cleared(p)'
  BY <1>2, SMT DEF Cleared
<1>5. QED
  BY <1>2, <1>3, <1>4

LEMMA Delivered ==
    ASSUME TypeOK, down # << >>, down' = Tail(down)
    PROVE  /\ Len(down) \in Nat /\ Len(down') \in Nat /\ Len(down) = Len(down') + 1
           /\ Head(down) = down[1] /\ down[1] \in Events
           /\ \A p \in 0..Len(down') : p + 1 \in 1..Len(down)
           /\ \A p \in 1..Len(down') : down'[p] = down[p + 1]
           /\ \A p \in 0..Len(down') : Cleared(p)' <=> Cleared(p + 1)
           /\ Cleared(0) <=> Cleared(1) \/ down[1].type = "cleared"
<1>1. down \in Seq(Events)
  BY DEF TypeOK
<1>2. /\ Len(down) \in Nat /\ Len(down') \in Nat /\ Len(down) = Len(down') + 1
      /\ Head(down) = down[1] /\ down[1] \in Events
      /\ \A p \in 1..Len(down') : down'[p] = down[p + 1]
      /\ DOMAIN down = 1..Len(down) /\ DOMAIN down' = 1..Len(down')
  BY <1>1, SMT
<1>3. ASSUME NEW p \in 0..Len(down')
      PROVE  Cleared(p)' <=> Cleared(p + 1)
  <2>1. ASSUME Cleared(p)' PROVE Cleared(p + 1)
    <3>1. PICK j \in 1..Len(down') : j > p /\ down'[j].type = "cleared"
      BY <1>2, <2>1 DEF Cleared
    <3>2. j + 1 \in 1..Len(down) /\ j + 1 > p + 1 /\ down[j + 1].type = "cleared"
      BY <1>2, <3>1, SMT
    <3>3. QED
      BY <1>2, <3>2 DEF Cleared
  <2>2. ASSUME Cleared(p + 1) PROVE Cleared(p)'
    <3>1. PICK j \in 1..Len(down) : j > p + 1 /\ down[j].type = "cleared"
      BY <1>2, <2>2 DEF Cleared
    <3>2. j - 1 \in 1..Len(down') /\ j - 1 > p /\ (j - 1) + 1 = j
      BY <1>2, <3>1, SMT
    <3>3. down'[j - 1].type = "cleared"
      BY <1>2, <3>1, <3>2
    <3>4. QED
      BY <1>2, <3>2, <3>3 DEF Cleared
  <2>3. QED
    BY <2>1, <2>2
<1>4. Cleared(0) <=> Cleared(1) \/ down[1].type = "cleared"
  BY <1>2, SMT DEF Cleared
<1>5. QED
  BY <1>2, <1>3, <1>4, SMT

LEMMA Emptied ==
    ASSUME down' = << >>
    PROVE  Len(down') = 0 /\ DOMAIN down' = {} /\ \A p : ~Cleared(p)'
<1>1. Len(down') = 0 /\ DOMAIN down' = {}
  BY SMT
<1>2. QED
  BY <1>1 DEF Cleared

LEMMA SameDown ==
    ASSUME down' = down
    PROVE  Len(down') = Len(down) /\ \A p : Cleared(p)' <=> Cleared(p)
  BY DEF Cleared

-----------------------------------------------------------------------------
(* Handlers and what is known.                                             *)

LEMMA AfterOwned ==
    ASSUME NEW job \in Jobs, Owner(job)
    PROVE  Owner(After(job)) /\ Owner(Idle)
<1>1. Owner(Idle)
  BY SMT DEF Owner, Idle, Job
<1>2. CASE job.at \in {"get", "drop"}
  BY <1>1, <1>2, SMT DEF Owner, After, Job
<1>3. CASE job.at \in {"select", "wipe", "answers"}
  BY <1>1, <1>3, SMT DEF Owner, After, Job
<1>4. CASE job.at \notin {"get", "drop", "select", "wipe", "answers"}
  <2>1. After(job) = Idle
    BY <1>4 DEF After
  <2>2. QED
    BY <1>1, <2>1
<1>5. QED
  BY <1>1, <1>2, <1>3, <1>4

\* Tasks only move on.
LEMMA TaskMoves ==
    ASSUME TypeOK, [Next]_vars, NEW s \in Shots, task[s] \in {"announcing", "over"}
    PROVE  task'[s] \in {"announcing", "over"}
<1>1. CASE UNCHANGED vars
  BY <1>1 DEF vars
<1>2. CASE Crash
  BY <1>2, SMT DEF Crash, TypeOK
<1>3. ASSUME NEW t \in Shots,
             Trigger(t) \/ Grab(t) \/ GrabFails(t) \/ Persist(t) \/ Announce(t)
      PROVE  task'[s] \in {"announcing", "over"}
  BY <1>3, SMT DEF Trigger, Grab, GrabFails, Persist, Announce, TypeOK
<1>4. CASE \/ StrayStep \/ Dispatch \/ HandlerStep \/ HandlerFails \/ PressClear \/ Deliver
           \/ CutPhone \/ CutPc \/ Rejoin \/ \E t \in Shots : PressDelete(t)
  BY <1>4 DEF StrayStep, Dispatch, HandlerStep, HandlerFails, PressClear, Deliver,
              CutPhone, CutPc, Rejoin, PressDelete
<1>5. QED
  BY <1>1, <1>2, <1>3, <1>4 DEF Next

\* The events on their way: one more, one less, as they were, or none.
LEMMA DownMoves ==
    ASSUME Inv, [Next]_vars
    PROVE  \/ down' = down /\ page' \subseteq page
           \/ down' = << >> /\ page' = page
           \/ Deliver
           \/ /\ page' = page
              /\ \E s \in Shots : Announce(s) /\ down' = Append(down, Event("created", {s}))
           \/ /\ page' = page /\ HandlerStep /\ link = "up"
              /\ \/ /\ reader.op = "clear" /\ reader.at = "unlink"
                    /\ down' = Append(down, Event("cleared", {}))
                 \/ reader.op = "history" /\ down' = Append(down, Event("history", rows))
<1>1. CASE UNCHANGED vars
  BY <1>1 DEF vars, channel
<1>2. CASE HandlerStep
  BY <1>2 DEF HandlerStep, Reply, Emit
<1>3. ASSUME NEW s \in Shots, \/ Trigger(s) \/ Grab(s) \/ GrabFails(s) \/ Persist(s)
                              \/ Announce(s) \/ PressDelete(s)
      PROVE  \/ down' = down /\ page' \subseteq page
             \/ /\ page' = page /\ Announce(s)
                /\ down' = Append(down, Event("created", {s}))
  BY <1>3 DEF Trigger, Grab, GrabFails, Persist, Announce, PressDelete, Emit, channel
<1>4. CASE StrayStep \/ Dispatch \/ HandlerFails \/ PressClear \/ Crash \/ Rejoin
  BY <1>4 DEF StrayStep, Dispatch, HandlerFails, PressClear, Crash, Rejoin, channel
<1>5. CASE CutPhone \/ CutPc
  BY <1>5 DEF CutPhone, CutPc, DropDown
<1>6. QED
  BY <1>1, <1>2, <1>3, <1>4, <1>5 DEF Next

LEMMA KnownKept ==
    ASSUME Inv, Known, [Next]_vars
    PROVE  Known'
<1>1. TypeOK /\ rows \subseteq Shots /\ \A s \in rows : task[s] \in {"announcing", "over"}
  BY DEF Inv, TypeOK, StoreInv, RowsPersisted
<1> SUFFICES ASSUME NEW p \in 0..Len(down'), NEW s \in Shots, At(s, p)'
             PROVE  task[s] \in {"announcing", "over"} \/ task'[s] \in {"announcing", "over"}
  BY <1>1, TaskMoves DEF Known
<1>2. CASE down' = down /\ page' \subseteq page
  <2>1. At(s, p)
    BY <1>2 DEF At
  <2>2. QED
    BY <1>2, <2>1 DEF Known
<1>3. CASE down' = << >> /\ page' = page
  <2>1. p = 0 /\ s \in page /\ 0 \in 0..Len(down)
    <3>1. Len(down) \in Nat /\ Len(down') = 0
      BY <1>1, <1>3, Emptied, SMT DEF TypeOK
    <3>2. QED
      BY <1>3, <3>1, SMT DEF At
  <2>2. QED
    BY <2>1 DEF Known, At
<1>4. CASE Deliver
  <2>1. down # << >> /\ down' = Tail(down) /\ (page' = {} \/ page' = page \cup down[1].shots)
    <3>1. down # << >> /\ down' = Tail(down)
      BY <1>4 DEF Deliver
    <3>2. QED
      BY <1>1, <1>4, <3>1, Delivered DEF Deliver, Shown
  <2>2. CASE p = 0
    <3>1. 0 \in 0..Len(down) /\ 1 \in 0..Len(down) /\ 1 # 0
      BY <1>1, <2>1, Delivered, SMT
    <3>2. At(s, 0) \/ At(s, 1)
      BY <2>1, <2>2 DEF At
    <3>3. QED
      BY <3>1, <3>2 DEF Known
  <2>3. CASE p # 0
    <3>1. p \in 1..Len(down') /\ p + 1 \in 0..Len(down) /\ p + 1 # 0
      BY <1>1, <2>1, <2>3, Delivered, SMT
    <3>2. At(s, p + 1)
      BY <1>1, <2>1, <2>3, <3>1, Delivered DEF At
    <3>3. QED
      BY <3>1, <3>2 DEF Known
  <2>4. QED
    BY <2>2, <2>3
<1>5. ASSUME NEW e \in Events, page' = page, down' = Append(down, e),
             \A t \in e.shots : task[t] \in {"announcing", "over"}
      PROVE  task[s] \in {"announcing", "over"}
  <2>1. CASE p \in 0..Len(down)
    <3>1. p # 0 => p \in 1..Len(down)
      BY <2>1, SMT
    <3>2. At(s, p)
      BY <1>1, <1>5, <2>1, <3>1, Appended DEF At
    <3>3. QED
      BY <2>1, <3>2 DEF Known
  <2>2. CASE p = Len(down) + 1
    <3>1. p # 0 /\ down'[p] = e
      BY <1>1, <1>5, <2>2, Appended, SMT
    <3>2. QED
      BY <1>5, <3>1 DEF At
  <2>3. QED
    BY <1>1, <1>5, <2>1, <2>2, Appended, SMT
<1>6. ASSUME NEW t \in Shots, Announce(t), page' = page,
             down' = Append(down, Event("created", {t}))
      PROVE  task[s] \in {"announcing", "over"}
  <2>1. Event("created", {t}) \in Events /\ Event("created", {t}).shots = {t}
    BY SMT DEF Event, Events
  <2>2. task[t] = "announcing"
    BY <1>6 DEF Announce
  <2>3. QED
    BY <1>5, <1>6, <2>1, <2>2
<1>7. CASE page' = page /\ \/ down' = Append(down, Event("cleared", {}))
                           \/ down' = Append(down, Event("history", rows))
  <2>1. /\ Event("cleared", {}) \in Events /\ Event("cleared", {}).shots = {}
        /\ Event("history", rows) \in Events /\ Event("history", rows).shots = rows
    BY <1>1, SMT DEF Event, Events
  <2>2. QED
    BY <1>1, <1>5, <1>7, <2>1
<1>8. QED
  BY <1>2, <1>3, <1>4, <1>6, <1>7, DownMoves

LEMMA OwnersKept ==
    ASSUME Inv, Owner(reader), Owner(stray), [Next]_vars
    PROVE  Owner(reader)' /\ Owner(stray)'
<1>1. PICK one \in Jobs, other \in Jobs : one = reader /\ other = stray
  BY DEF Inv, TypeOK
<1>2. /\ Owner(one) /\ Owner(other) /\ Owner(After(one)) /\ Owner(After(other)) /\ Owner(Idle)
  BY <1>1, AfterOwned
<1>3. reader' \in {one, After(one), Idle} \/ Dispatch
  BY <1>1 DEF Next, vars, Trigger, Grab, GrabFails, Persist, Announce, PressDelete, StrayStep,
              HandlerStep, HandlerFails, PressClear, Deliver, CutPhone, CutPc, Crash, Rejoin
<1>4. stray' \in {other, one, After(other), Idle}
  BY <1>1 DEF Next, vars, Trigger, Grab, GrabFails, Persist, Announce, PressDelete, StrayStep,
              HandlerStep, HandlerFails, PressClear, Deliver, CutPhone, CutPc, Crash, Rejoin,
              Dispatch
<1>5. CASE Dispatch
  <2>1. PICK command \in Commands : command = Head(up)
    BY <1>5, SMT DEF Dispatch, Inv, TypeOK
  <2>2. reader' = CASE command.op = "delete"  -> Job("delete", "get", command.shots)
                    [] command.op = "clear"   -> Job("clear", "select", {})
                    [] command.op = "history" -> Job("history", "query", {})
    BY <1>5, <2>1 DEF Dispatch
  <2>3. command.op \in {"delete", "clear", "history"}
    BY SMT DEF Commands
  <2>4. QED
    BY <1>2, <1>4, <2>2, <2>3, SMT DEF Owner, Job
<1>6. QED
  BY <1>2, <1>3, <1>4, <1>5 DEF Owner

LEMMA ListKept == Inv /\ ListInv /\ [Next]_vars => ListInv'
  BY KnownKept, OwnersKept DEF ListInv

-----------------------------------------------------------------------------
(***************************************************************************)
(* No stored screenshot is missing.                                        *)
(***************************************************************************)

\* The page has the shot, or an announcement brings it, and no clear takes it.
Held(s) ==
    \E p \in 0..Len(down) :
        At(s, p) /\ (p > 0 => down[p].type = "created") /\ ~Cleared(p)

\* A row is on the phone, or will be, or was lost on the way.
Brought(s) == s \in missed \/ task[s] = "announcing" \/ Held(s)

\* What was stored after a clear took the rows will be taken off the phone, and
\* no history that has it was read before.
Spared(s) ==
    /\ Clearing(reader) => s \in missed
    /\ \A i \in DOMAIN down :
          down[i].type = "history" /\ s \in down[i].shots => ~Clearing(reader) /\ ~Cleared(i)

HasInv == \A s \in rows : Brought(s) /\ Spared(s)

\* A step that sends nothing and takes nothing off the page unnoticed.
LEMMA HasUntouched ==
    ASSUME HasInv, down' = down, rows' \subseteq rows, missed \subseteq missed',
           page \ missed' \subseteq page',
           \A s \in rows' : task[s] = "announcing" => task'[s] = "announcing" \/ s \in missed',
           Clearing(reader') => Clearing(reader) \/ rows' = {}
    PROVE  HasInv'
<1> SUFFICES ASSUME NEW s \in rows' PROVE Brought(s)' /\ Spared(s)'
  BY DEF HasInv
<1>1. Brought(s) /\ Spared(s)
  BY DEF HasInv
<1>2. Brought(s)'
  <2>1. CASE Held(s) /\ s \notin missed'
    <3>1. Held(s)'
      BY <2>1 DEF Held, At, Cleared
    <3>2. QED
      BY <3>1 DEF Brought
  <2>2. QED
    BY <1>1, <2>1 DEF Brought
<1>3. Spared(s)'
  BY <1>1 DEF Spared, Clearing, Cleared
<1>4. QED
  BY <1>2, <1>3

\* The link breaks and what was on its way is lost.
LEMMA HasLost ==
    ASSUME TypeOK, HasInv, DropDown(TRUE), rows' = rows, page' = page, task' = task,
           reader' \in {reader, Idle}
    PROVE  HasInv'
<1> SUFFICES ASSUME NEW s \in rows PROVE Brought(s)' /\ Spared(s)'
  BY DEF HasInv
<1>1. Brought(s) /\ Spared(s) /\ down \in Seq(Events)
  BY DEF HasInv, TypeOK
<1>2. /\ down' = << >> /\ missed \subseteq missed'
      /\ \A i \in DOMAIN down : down[i].type = "created" => down[i].shots \subseteq missed'
  BY DEF DropDown
<1>3. CASE Held(s)
  <2>1. PICK p \in 0..Len(down) :
           At(s, p) /\ (p > 0 => down[p].type = "created") /\ ~Cleared(p)
    BY <1>3 DEF Held
  <2>2. CASE p = 0
    <3>1. 0 \in 0..Len(down') /\ At(s, 0)' /\ ~Cleared(0)'
      BY <1>2, <2>1, <2>2, Emptied, SMT DEF At
    <3>2. Held(s)'
      BY <3>1, SMT DEF Held
    <3>3. QED
      BY <1>1, <1>2, <3>2, Emptied, SMT DEF Brought, Spared, Clearing, Idle, Job
  <2>3. CASE p # 0
    <3>1. p \in DOMAIN down /\ p > 0
      BY <1>1, <2>1, <2>3, SMT
    <3>2. s \in missed'
      BY <1>2, <2>1, <2>3, <3>1 DEF At
    <3>3. QED
      BY <1>1, <1>2, <3>2, Emptied, SMT DEF Brought, Spared, Clearing, Idle, Job
  <2>4. QED
    BY <2>2, <2>3
<1>4. CASE ~Held(s)
  BY <1>1, <1>2, <1>4, Emptied, SMT DEF Brought, Spared, Clearing, Idle, Job
<1>5. QED
  BY <1>3, <1>4

\* An event joins the others: what it brings is held, unless it is the
\* acknowledgement of a clear, which takes all but the missed.
LEMMA HasSent ==
    ASSUME TypeOK, HasInv, NEW e \in Events, down' = Append(down, e),
           rows' \subseteq rows, page' = page, missed' = missed,
           \A s \in rows' : task[s] = "announcing" /\ task'[s] # "announcing" =>
              e.type = "created" /\ s \in e.shots,
           ~Clearing(reader) \/ e.type # "history",
           Clearing(reader') => Clearing(reader),
           e.type = "cleared" => Clearing(reader) /\ ~Clearing(reader')
    PROVE  HasInv'
<1> SUFFICES ASSUME NEW s \in rows' PROVE Brought(s)' /\ Spared(s)'
  BY DEF HasInv
<1>1. Brought(s) /\ Spared(s) /\ down \in Seq(Events)
  BY DEF HasInv, TypeOK
<1>2. /\ Len(down) \in Nat /\ Len(down') = Len(down) + 1
      /\ \A p \in 1..Len(down) : down'[p] = down[p]
      /\ \A p \in 0..Len(down) : Cleared(p)' <=> Cleared(p) \/ e.type = "cleared"
      /\ down'[Len(down) + 1] = e
      /\ \A p : p = Len(down) + 1 => ~Cleared(p)'
  BY Appended
<1>3. DOMAIN down = 1..Len(down) /\ DOMAIN down' = 1..Len(down')
  BY <1>1, SMT
<1>4. Brought(s)'
  <2>1. CASE e.type = "cleared"
    BY <1>1, <2>1 DEF Spared, Brought
  <2>2. CASE e.type # "cleared" /\ Held(s)
    <3>1. PICK p \in 0..Len(down) :
             At(s, p) /\ (p > 0 => down[p].type = "created") /\ ~Cleared(p)
      BY <2>2 DEF Held
    <3>2. p \in 0..Len(down') /\ ~Cleared(p)' /\ (p > 0 => p # 0 /\ down'[p] = down[p])
      BY <1>2, <2>2, <3>1, SMT
    <3>3. At(s, p)'
      BY <1>2, <3>1, <3>2, SMT DEF At
    <3>4. Held(s)'
      BY <3>1, <3>2, <3>3 DEF Held
    <3>5. QED
      BY <3>4 DEF Brought
  <2>3. CASE e.type = "created" /\ s \in e.shots
    <3>1. PICK p \in 0..Len(down') : p = Len(down) + 1 /\ p # 0
      BY <1>2, SMT
    <3>2. down'[p] = e /\ ~Cleared(p)' /\ At(s, p)'
      BY <1>2, <2>3, <3>1 DEF At
    <3>3. Held(s)'
      BY <2>3, <3>1, <3>2 DEF Held
    <3>4. QED
      BY <3>3 DEF Brought
  <2>4. QED
    BY <1>1, <2>1, <2>2, <2>3 DEF Brought
<1>5. Spared(s)'
  <2>1. ASSUME NEW i \in DOMAIN down', down'[i].type = "history", s \in down'[i].shots
        PROVE  ~Clearing(reader') /\ ~Cleared(i)'
    <3>1. CASE i = Len(down) + 1
      BY <1>2, <2>1, <3>1
    <3>2. CASE i \in 1..Len(down)
      <4>1. down'[i] = down[i] /\ i \in 0..Len(down)
        BY <1>2, <3>2, SMT
      <4>2. ~Clearing(reader) /\ ~Cleared(i)
        BY <1>1, <1>3, <2>1, <3>2, <4>1 DEF Spared
      <4>3. QED
        BY <1>2, <4>1, <4>2
    <3>3. QED
      BY <1>2, <1>3, <2>1, <3>1, <3>2, SMT
  <2>2. QED
    BY <1>1, <2>1 DEF Spared, Clearing
<1>6. QED
  BY <1>4, <1>5

\* The page takes an event.
LEMMA HasDelivered ==
    ASSUME TypeOK, HasInv, Deliver
    PROVE  HasInv'
<1>1. /\ down # << >> /\ down' = Tail(down) /\ UNCHANGED << task, rows, reader >>
  BY DEF Deliver, store
<1>2. /\ Len(down) \in Nat /\ Len(down') \in Nat /\ Len(down) = Len(down') + 1
      /\ Head(down) = down[1] /\ down[1] \in Events
      /\ \A p \in 0..Len(down') : p + 1 \in 1..Len(down)
      /\ \A p \in 1..Len(down') : down'[p] = down[p + 1]
      /\ \A p \in 0..Len(down') : Cleared(p)' <=> Cleared(p + 1)
      /\ Cleared(0) <=> Cleared(1) \/ down[1].type = "cleared"
  BY <1>1, Delivered
<1>3. DOMAIN down = 1..Len(down) /\ DOMAIN down' = 1..Len(down')
  BY <1>1, SMT DEF TypeOK
<1>4. PICK e \in Events : e = down[1]
  BY <1>2
<1>5. /\ page' = IF e.type = "cleared" THEN {} ELSE page \cup e.shots
      /\ missed' = IF e.type = "history" THEN missed \ e.shots ELSE missed
  BY <1>2, <1>4 DEF Deliver, Shown
<1> SUFFICES ASSUME NEW s \in rows PROVE Brought(s)' /\ Spared(s)'
  BY <1>1 DEF HasInv
<1>6. Brought(s) /\ Spared(s)
  BY DEF HasInv
<1>7. e.type = "history" /\ s \in e.shots => ~Clearing(reader) /\ ~Cleared(1)
  <2>1. 1 \in DOMAIN down
    BY <1>2, <1>3, SMT
  <2>2. QED
    BY <1>4, <1>6, <2>1 DEF Spared
<1>8. s \in page' /\ ~Cleared(1) => Held(s)'
  <2>1. 0 \in 0..Len(down') /\ (Cleared(0)' <=> Cleared(0 + 1)) /\ 0 + 1 = 1
    BY <1>2, SMT
  <2>2. QED
    BY <2>1, SMT DEF Held, At
<1>9. ASSUME Held(s) PROVE Held(s)'
  <2>1. PICK p \in 0..Len(down) :
           At(s, p) /\ (p > 0 => down[p].type = "created") /\ ~Cleared(p)
    BY <1>9 DEF Held
  <2>2. CASE p = 0
    BY <1>2, <1>4, <1>5, <1>8, <2>1, <2>2 DEF At
  <2>3. CASE p = 1
    BY <1>4, <1>5, <1>8, <2>1, <2>3, SMT DEF At
  <2>4. CASE p > 1
    <3>1. p - 1 \in 1..Len(down') /\ p - 1 \in 0..Len(down') /\ p - 1 # 0 /\ (p - 1) + 1 = p
      BY <1>2, <2>1, <2>4, SMT
    <3>2. down'[p - 1] = down[p] /\ ~Cleared(p - 1)'
      BY <1>2, <2>1, <3>1
    <3>3. p # 0 /\ down[p].type = "created"
      BY <2>1, <2>4, SMT
    <3>4. At(s, p - 1)'
      BY <2>1, <3>1, <3>2, <3>3 DEF At
    <3>5. QED
      BY <3>1, <3>2, <3>3, <3>4 DEF Held
  <2>5. QED
    BY <1>2, <2>1, <2>2, <2>3, <2>4, SMT
<1>10. Brought(s)'
  <2>1. CASE s \in missed /\ s \notin missed'
    BY <1>5, <1>7, <1>8, <2>1 DEF Brought
  <2>2. QED
    BY <1>1, <1>6, <1>9, <2>1 DEF Brought
<1>11. Spared(s)'
  <2>1. Clearing(reader) => s \in missed'
    BY <1>5, <1>6, <1>7 DEF Spared
  <2>2. ASSUME NEW i \in DOMAIN down', down'[i].type = "history", s \in down'[i].shots
        PROVE  ~Clearing(reader) /\ ~Cleared(i)'
    <3>1. i \in 1..Len(down') /\ i \in 0..Len(down')
      BY <1>2, <1>3, <2>2, SMT
    <3>2. i + 1 \in DOMAIN down /\ down'[i] = down[i + 1] /\ (Cleared(i)' <=> Cleared(i + 1))
      BY <1>2, <1>3, <3>1
    <3>3. QED
      BY <1>6, <2>2, <3>2 DEF Spared
  <2>3. QED
    BY <1>1, <2>1, <2>2 DEF Spared, Clearing
<1>12. QED
  BY <1>10, <1>11

\* A capture is stored: nobody knows the shot yet.
LEMMA HasPersisted ==
    ASSUME Inv, Known, HasInv, NEW s \in Shots, Persist(s)
    PROVE  HasInv'
<1>1. /\ down' = down /\ page' = page /\ reader' = reader
      /\ \A t \in Shots \ {s} : task'[t] = task[t]
      /\ task[s] = "saving" /\ task'[s] = "announcing"
      /\ down \in Seq(Events) /\ rows \subseteq Shots
  BY SMT DEF Persist, channel, Inv, TypeOK
<1>2. s \notin rows
  BY <1>1 DEF Inv, StoreInv, RowsPersisted
<1>3. missed \subseteq missed' /\ (s \in rows' /\ Clearing(reader) => s \in missed')
      /\ rows' \subseteq rows \cup {s}
  BY <1>2 DEF Persist, Clearing
<1>4. ASSUME NEW t \in rows PROVE Brought(t)' /\ Spared(t)'
  <2>1. Brought(t) /\ Spared(t) /\ t \in Shots \ {s}
    BY <1>1, <1>2 DEF HasInv
  <2>2. Held(t) => Held(t)'
    BY <1>1 DEF Held, At, Cleared
  <2>3. QED
    BY <1>1, <1>3, <2>1, <2>2 DEF Brought, Spared, Clearing, Cleared
<1>5. \A i \in DOMAIN down : s \notin down[i].shots
  <2> SUFFICES ASSUME NEW i \in DOMAIN down, s \in down[i].shots PROVE FALSE
    OBVIOUS
  <2>1. i \in 0..Len(down) /\ i # 0
    BY <1>1, SMT
  <2>2. At(s, i)
    BY <2>1 DEF At
  <2>3. QED
    BY <1>1, <2>1, <2>2 DEF Known
<1>6. s \in rows' => Brought(s)' /\ Spared(s)'
  BY <1>1, <1>3, <1>5 DEF Brought, Spared, Clearing
<1>7. QED
  BY <1>3, <1>4, <1>6 DEF HasInv

\* A statement takes rows, and only the wipe of a clear brings a handler to where
\* it owes the phone the acknowledgement.
LEMMA WorkClears ==
    ASSUME NEW job \in Jobs, Owner(job), Work(job)
    PROVE  /\ rows' \subseteq rows
           /\ Clearing(After(job)) => rows' = {} \/ Clearing(job)
<1>1. CASE job.at = "wipe"
  BY <1>1 DEF Work
<1>2. CASE job.at = "answers"
  BY <1>2, SMT DEF Work, Owner, Clearing, store
<1>3. CASE job.at \notin {"wipe", "answers"}
  <2>1. rows' \subseteq rows
    BY <1>3 DEF Work, store
  <2>2. ~Clearing(After(job))
    BY <1>3, SMT DEF Owner, After, Clearing, Job, Idle
  <2>3. QED
    BY <2>1, <2>2
<1>4. QED
  BY <1>1, <1>2, <1>3

LEMMA HandlerHas ==
    ASSUME Inv, ListInv, HasInv, HandlerStep
    PROVE  HasInv'
<1>1. PICK one \in Jobs : one = reader
  BY DEF Inv, TypeOK
<1>2. /\ reader' \in {After(one), Idle} /\ Work(one) /\ Owner(one)
      /\ UNCHANGED << task, page, missed >>
  BY <1>1 DEF HandlerStep, ListInv
<1>3. ~Clearing(Idle)
  BY SMT DEF Clearing, Idle, Job
<1>4. /\ rows' \subseteq rows
      /\ Clearing(reader') => rows' = {} \/ Clearing(reader)
  BY <1>1, <1>2, <1>3, WorkClears
<1>5. CASE down' = down
  BY <1>2, <1>4, <1>5, HasUntouched
<1>6. CASE /\ reader.op = "clear" /\ reader.at = "unlink"
           /\ down' = Append(down, Event("cleared", {}))
  <2>1. Event("cleared", {}) \in Events /\ Event("cleared", {}).type = "cleared"
    BY SMT DEF Event, Events
  <2>2. After(one) = Idle /\ Clearing(reader)
    BY <1>1, <1>6, SMT DEF After, Clearing
  <2>3. QED
    BY <1>2, <1>3, <1>4, <1>6, <2>1, <2>2, HasSent DEF Inv
<1>7. CASE reader.op = "history" /\ down' = Append(down, Event("history", rows))
  <2>1. Event("history", rows) \in Events /\ Event("history", rows).type = "history"
    BY SMT DEF Event, Events, Inv, TypeOK
  <2>2. ~Clearing(reader) /\ After(one) = Idle
    BY <1>1, <1>2, <1>7, SMT DEF Clearing, After, Owner
  <2>3. QED
    BY <1>2, <1>3, <1>4, <1>7, <2>1, <2>2, HasSent DEF Inv
<1>8. QED
  BY <1>5, <1>6, <1>7 DEF HandlerStep, Reply, Emit

LEMMA HasKept ==
    ASSUME Inv, ListInv, HasInv, [Next]_vars
    PROVE  HasInv'
<1>1. PICK one \in Jobs, other \in Jobs : one = reader /\ other = stray
  BY DEF Inv, TypeOK
<1>2. TypeOK /\ Known /\ rows \subseteq Shots /\ Owner(one) /\ Owner(other) /\ ~Clearing(Idle)
  BY <1>1, SMT DEF Inv, TypeOK, ListInv, Clearing, Idle, Job
<1>3. CASE UNCHANGED vars
  BY <1>3, HasUntouched DEF vars, store, channel, history
<1>4. ASSUME NEW s \in Shots, Trigger(s) \/ Grab(s) \/ GrabFails(s)
      PROVE  HasInv'
  <2>1. \A t \in rows : task[t] = "announcing" => task'[t] = "announcing"
    BY <1>2, <1>4, SMT DEF Trigger, Grab, GrabFails, TypeOK
  <2>2. UNCHANGED << down, rows, missed, page, reader >>
    BY <1>4 DEF Trigger, Grab, GrabFails, store, channel, history
  <2>3. QED
    BY <2>1, <2>2, HasUntouched
<1>5. ASSUME NEW s \in Shots, Announce(s)
      PROVE  HasInv'
  <2>1. /\ \A t \in rows \ {s} : task'[t] = task[t]
        /\ UNCHANGED << rows, page, reader >>
    BY <1>2, <1>5, SMT DEF Announce, TypeOK, store
  <2>2. CASE link = "up"
    <3>1. /\ Event("created", {s}) \in Events /\ Event("created", {s}).type = "created"
          /\ Event("created", {s}).shots = {s}
      BY SMT DEF Event, Events
    <3>2. down' = Append(down, Event("created", {s})) /\ missed' = missed
      BY <1>5, <2>2 DEF Announce, Emit
    <3>3. \A t \in rows : task[t] = "announcing" /\ task'[t] # "announcing" => t \in {s}
      BY <2>1
    <3>4. QED
      BY <1>2, <2>1, <3>1, <3>2, <3>3, HasSent
  <2>3. CASE link # "up"
    <3>1. down' = down /\ missed' = missed \cup {s}
      BY <1>5, <2>3 DEF Announce, Emit
    <3>2. QED
      BY <2>1, <3>1, HasUntouched
  <2>4. QED
    BY <2>2, <2>3
<1>6. CASE StrayStep
  <2>1. rows' \subseteq rows
    BY <1>1, <1>2, <1>6, WorkClears DEF StrayStep
  <2>2. UNCHANGED << task, down, page, missed, reader >>
    BY <1>6 DEF StrayStep, channel
  <2>3. QED
    BY <2>1, <2>2, HasUntouched
<1>7. CASE Dispatch
  <2>1. ~Clearing(reader')
    <3>1. PICK command \in Commands : command = Head(up)
      BY <1>7, SMT DEF Dispatch, Inv, TypeOK
    <3>2. reader' = CASE command.op = "delete"  -> Job("delete", "get", command.shots)
                      [] command.op = "clear"   -> Job("clear", "select", {})
                      [] command.op = "history" -> Job("history", "query", {})
      BY <1>7, <3>1 DEF Dispatch
    <3>3. command.op \in {"delete", "clear", "history"}
      BY SMT DEF Commands
    <3>4. QED
      BY <3>2, <3>3, SMT DEF Clearing, Job
  <2>2. UNCHANGED << task, down, rows, page, missed >>
    BY <1>7 DEF Dispatch, store, history
  <2>3. QED
    BY <2>1, <2>2, HasUntouched
<1>8. CASE HandlerFails \/ PressClear \/ Rejoin
  <2>1. UNCHANGED << task, down, rows, page, missed >> /\ reader' \in {reader, Idle}
    BY <1>8 DEF HandlerFails, PressClear, Rejoin, store, channel, history
  <2>2. QED
    BY <1>2, <2>1, HasUntouched
<1>9. ASSUME NEW s \in Shots, PressDelete(s)
      PROVE  HasInv'
  <2>1. /\ UNCHANGED << task, down, rows, reader >>
        /\ page' = page \ {s} /\ missed' = missed \cup {s}
    BY <1>9 DEF PressDelete, store
  <2>2. QED
    BY <2>1, HasUntouched
<1>10. CASE Crash
  <2>1. /\ UNCHANGED << down, rows, page >> /\ reader' = Idle
        /\ missed' = missed \cup {s \in Shots : task[s] = "announcing"}
    BY <1>10 DEF Crash, store
  <2>2. \A s \in rows : task[s] = "announcing" => s \in missed'
    BY <1>2, <2>1
  <2>3. QED
    BY <1>2, <2>1, <2>2, HasUntouched
<1>11. CASE CutPhone \/ CutPc
  <2>1. UNCHANGED << task, rows, page >> /\ reader' \in {reader, Idle}
    BY <1>11 DEF CutPhone, CutPc, store
  <2>2. CASE DropDown(TRUE)
    BY <1>2, <2>1, <2>2, HasLost
  <2>3. CASE DropDown(FALSE)
    <3>1. down' = down /\ missed \subseteq missed'
      BY <2>3 DEF DropDown
    <3>2. QED
      BY <1>2, <2>1, <3>1, HasUntouched
  <2>4. QED
    BY <1>11, <2>2, <2>3 DEF CutPhone, CutPc
<1>12. QED
  BY <1>2, <1>3, <1>4, <1>5, <1>6, <1>7, <1>8, <1>9, <1>10, <1>11,
     HasPersisted, HandlerHas, HasDelivered DEF Next

-----------------------------------------------------------------------------
(***************************************************************************)
(* No screenshot is shown without a row.                                   *)
(***************************************************************************)

\* Some side is going to tell the phone that all is gone, or to mark what it
\* shows.
Owed == Clearing(reader) \/ Clearing(stray)

\* What is shown or announced has its row, was bound to be shown without, or is
\* about to be cleared.
Backed(s, p) == s \in rows \cup stale \/ Cleared(p) \/ Owed

LacksInv ==
    /\ stray # Idle => link = "pc"
    /\ \A s \in Shots : task[s] = "announcing" => s \in rows \cup stale
    /\ page \cap Doomed \subseteq stale
    /\ \A p \in 0..Len(down), s \in Shots : At(s, p) => Backed(s, p)

\* A shot with a delete on its way, case by case.
Due(s, job) == job.at \in {"get", "drop"} /\ s \in job.shots

LEMMA DoomedCases ==
    \A s : /\ s \in Doomed <=> \/ \E i \in DOMAIN up : s \in up[i].shots
                               \/ Due(s, reader) \/ Due(s, stray)
           /\ s \in Doomed' <=> \/ \E i \in DOMAIN up' : s \in up'[i].shots
                                \/ Due(s, reader') \/ Due(s, stray')
<1>1. \A s : s \in Doomed <=> \/ \E i \in DOMAIN up : s \in up[i].shots
                              \/ Due(s, reader) \/ Due(s, stray)
  BY DEF Doomed, Due
<1>2. \A s : s \in Doomed' <=> \/ \E i \in DOMAIN up' : s \in up'[i].shots
                               \/ Due(s, reader') \/ Due(s, stray')
  BY DEF Doomed, Due
<1>3. QED
  BY <1>1, <1>2

LEMMA IdleOwesNothing == ~Clearing(Idle) /\ \A s : ~Due(s, Idle)
  BY SMT DEF Clearing, Due, Idle, Job

\* A step that sends nothing and shows nothing new.
LEMMA LacksUntouched ==
    ASSUME LacksInv, down' = down, page' \subseteq page, stale \subseteq stale',
           \A s \in Shots : task'[s] = "announcing" => s \in rows' \cup stale',
           page' \cap Doomed' \subseteq Doomed,
           stray' # Idle => link' = "pc",
           \A s \in Shots, p \in 0..Len(down) :
              At(s, p) /\ (s \in rows \/ Owed) => s \in rows' \cup stale' \/ Cleared(p) \/ Owed'
    PROVE  LacksInv'
<1>1. page' \cap Doomed' \subseteq stale'
  BY DEF LacksInv
<1>2. ASSUME NEW p \in 0..Len(down), NEW s \in Shots, At(s, p)'
      PROVE  Backed(s, p)'
  <2>1. At(s, p)
    BY <1>2 DEF At
  <2>2. Backed(s, p)
    BY <2>1 DEF LacksInv
  <2>3. Cleared(p)' <=> Cleared(p)
    BY DEF Cleared
  <2>4. QED
    BY <2>1, <2>2, <2>3 DEF Backed
<1>3. QED
  BY <1>1, <1>2 DEF LacksInv

\* An event of shots that have their row, or are known not to, joins the others.
LEMMA LacksSent ==
    ASSUME TypeOK, LacksInv, NEW e \in Events, down' = Append(down, e),
           page' = page, rows' = rows, stale \subseteq stale',
           e.shots \subseteq rows \cup stale,
           \A s \in Shots : task'[s] = "announcing" => task[s] = "announcing",
           Doomed' \subseteq Doomed,
           stray' # Idle => link' = "pc",
           Owed => Owed' \/ e.type = "cleared"
    PROVE  LacksInv'
<1>1. /\ Len(down) \in Nat /\ Len(down') = Len(down) + 1
      /\ \A p \in 1..Len(down) : down'[p] = down[p]
      /\ \A p \in 0..Len(down) : Cleared(p)' <=> Cleared(p) \/ e.type = "cleared"
      /\ down'[Len(down) + 1] = e
  BY Appended
<1>2. page' \cap Doomed' \subseteq stale'
  BY DEF LacksInv
<1>3. ASSUME NEW p \in 0..Len(down'), NEW s \in Shots, At(s, p)'
      PROVE  Backed(s, p)'
  <2>1. CASE p \in 0..Len(down)
    <3>1. p # 0 => p \in 1..Len(down)
      BY <2>1, SMT
    <3>2. At(s, p)
      BY <1>1, <1>3, <3>1 DEF At
    <3>3. Backed(s, p)
      BY <2>1, <3>2 DEF LacksInv
    <3>4. QED
      BY <1>1, <2>1, <3>3 DEF Backed
  <2>2. CASE p = Len(down) + 1
    <3>1. p # 0 /\ down'[p] = e
      BY <1>1, <2>2, SMT
    <3>2. QED
      BY <1>3, <3>1 DEF At, Backed
  <2>3. QED
    BY <1>1, <2>1, <2>2, SMT
<1>4. \A s \in Shots : task'[s] = "announcing" => s \in rows' \cup stale'
  BY DEF LacksInv
<1>5. QED
  BY <1>2, <1>3, <1>4 DEF LacksInv

\* The link breaks: of a clear whose acknowledgement is lost, all is marked.
LEMMA LacksLost ==
    ASSUME TypeOK, Known, LacksInv, DropDown(TRUE),
           page' = page, rows' = rows, task' = task,
           Doomed' \subseteq Doomed,
           stray' # Idle => link' = "pc",
           Owed => Owed'
    PROVE  LacksInv'
<1>1. /\ down' = << >> /\ stale \subseteq stale' /\ down \in Seq(Events)
      /\ \A i \in DOMAIN down : down[i].type = "cleared" => Rowless \subseteq stale'
  BY DEF DropDown, TypeOK
<1>2. page' \cap Doomed' \subseteq stale'
  BY <1>1 DEF LacksInv
<1>3. ASSUME NEW p \in 0..Len(down'), NEW s \in Shots, At(s, p)'
      PROVE  Backed(s, p)'
  <2>1. p = 0 /\ 0 \in 0..Len(down) /\ s \in page
    <3>1. p = 0 /\ 0 \in 0..Len(down)
      BY <1>1, Emptied, SMT
    <3>2. QED
      BY <1>3, <3>1 DEF At
  <2>2. At(s, 0)
    BY <2>1 DEF At
  <2>3. Backed(s, 0) /\ task[s] \in {"announcing", "over"}
    BY <2>1, <2>2 DEF LacksInv, Known
  <2>4. CASE Cleared(0)
    <3>1. Rowless \subseteq stale'
      BY <1>1, <2>4 DEF Cleared
    <3>2. s \in rows' \cup stale'
      BY <2>3, <3>1 DEF Rowless
    <3>3. QED
      BY <3>2 DEF Backed
  <2>5. QED
    BY <1>1, <2>3, <2>4 DEF Backed
<1>4. \A s \in Shots : task'[s] = "announcing" => s \in rows' \cup stale'
  BY <1>1 DEF LacksInv
<1>5. QED
  BY <1>2, <1>3, <1>4 DEF LacksInv

\* The page takes an event: what is about to be deleted is marked.
LEMMA LacksDelivered ==
    ASSUME TypeOK, LacksInv, Deliver
    PROVE  LacksInv'
<1>1. /\ down # << >> /\ down' = Tail(down)
      /\ UNCHANGED << task, rows, reader, stray, link, up >>
  BY DEF Deliver, store
<1>2. /\ Len(down) \in Nat /\ Len(down') \in Nat /\ Len(down) = Len(down') + 1
      /\ Head(down) = down[1] /\ down[1] \in Events
      /\ \A p \in 0..Len(down') : p + 1 \in 1..Len(down)
      /\ \A p \in 1..Len(down') : down'[p] = down[p + 1]
      /\ \A p \in 0..Len(down') : Cleared(p)' <=> Cleared(p + 1)
      /\ Cleared(0) <=> Cleared(1) \/ down[1].type = "cleared"
  BY <1>1, Delivered
<1>3. PICK e \in Events : e = down[1]
  BY <1>2
<1>4. /\ page' = IF e.type = "cleared" THEN {} ELSE page \cup e.shots
      /\ e.type # "cleared" => stale' = stale \cup (e.shots \cap Doomed)
      /\ stale \subseteq stale'
  BY <1>2, <1>3 DEF Deliver, Shown
<1>5. Doomed' = Doomed
  <2>1. \A s : s \in Doomed' <=> s \in Doomed
    BY <1>1, DoomedCases
  <2>2. QED
    BY <2>1
<1>6. page' \cap Doomed' \subseteq stale'
  BY <1>4, <1>5 DEF LacksInv
<1>7. Owed' <=> Owed
  BY <1>1 DEF Owed, Clearing
<1>8. ASSUME NEW p \in 0..Len(down'), NEW s \in Shots, At(s, p)'
      PROVE  Backed(s, p)'
  <2>1. CASE p = 0
    <3>1. /\ 0 \in 0..Len(down) /\ 1 \in 0..Len(down) /\ 1 # 0
          /\ 0 \in 0..Len(down') /\ (Cleared(0)' <=> Cleared(0 + 1)) /\ 0 + 1 = 1
      BY <1>2, SMT
    <3>2. At(s, 0) \/ At(s, 1)
      BY <1>3, <1>4, <1>8, <2>1, <3>1 DEF At
    <3>3. Backed(s, 0) \/ Backed(s, 1)
      BY <3>1, <3>2 DEF LacksInv
    <3>4. e.type # "cleared"
      BY <1>4, <1>8, <2>1 DEF At
    <3>5. s \in rows \cup stale \/ Cleared(1) \/ Owed
      BY <1>2, <1>3, <3>3, <3>4 DEF Backed
    <3>6. QED
      BY <1>1, <1>4, <1>7, <2>1, <3>1, <3>5 DEF Backed
  <2>2. CASE p # 0
    <3>1. p \in 1..Len(down') /\ p + 1 \in 0..Len(down) /\ p + 1 # 0
      BY <1>2, <2>2, SMT
    <3>2. At(s, p + 1)
      BY <1>2, <1>8, <2>2, <3>1 DEF At
    <3>3. Backed(s, p + 1)
      BY <3>1, <3>2 DEF LacksInv
    <3>4. QED
      BY <1>1, <1>2, <1>4, <1>7, <3>3 DEF Backed
  <2>3. QED
    BY <2>1, <2>2
<1>9. \A s \in Shots : task'[s] = "announcing" => s \in rows' \cup stale'
  BY <1>1, <1>4 DEF LacksInv
<1>10. QED
  BY <1>1, <1>6, <1>8, <1>9 DEF LacksInv

\* What a statement leaves of the shots on the phone.
LEMMA WorkMarks ==
    ASSUME Inv, ListInv, LacksInv, NEW job \in Jobs, job \in {reader, stray}, Work(job),
           NEW last \in BOOLEAN, task' = task, stale' = stale \cup StaleBy(job, last)
    PROVE  /\ \A s \in Shots : task'[s] = "announcing" => s \in rows' \cup stale'
           /\ job.at # "wipe" =>
                 \A s \in rows, p \in 0..Len(down) : At(s, p) => s \in rows' \cup stale'
           /\ last /\ job.at \in {"wipe", "answers", "unlink"} /\ job.op = "clear" =>
                 \A s \in Shots, p \in 0..Len(down) : At(s, p) => s \in rows' \cup stale'
<1>1. rows \subseteq Shots /\ TypeOK /\ Owner(job) /\ down \in Seq(Events)
  BY DEF Inv, TypeOK, ListInv
<1>2. {s \in rows \ rows' : task[s] = "announcing"} \subseteq stale'
  BY DEF StaleBy
<1>3. \A s \in Shots : task'[s] = "announcing" => s \in rows' \cup stale'
  BY <1>2 DEF LacksInv
<1>4. ASSUME job.at # "wipe", NEW s \in rows, NEW p \in 0..Len(down), At(s, p), s \notin rows'
      PROVE  s \in stale'
  <2>1. job.at = "drop" /\ s \in job.shots
    BY <1>4 DEF Work, store
  <2>2. CASE p = 0
    <3>1. s \in page /\ Due(s, job)
      BY <1>4, <2>1, <2>2 DEF At, Due
    <3>2. s \in Doomed
      BY <3>1, DoomedCases
    <3>3. QED
      BY <3>1, <3>2 DEF LacksInv
  <2>3. CASE p # 0
    <3>1. p \in DOMAIN down
      BY <1>1, <2>3, SMT
    <3>2. s \in UNION {down[i].shots : i \in DOMAIN down}
      BY <1>4, <2>3, <3>1 DEF At
    <3>3. job.shots \cap UNION {down[i].shots : i \in DOMAIN down} \subseteq StaleBy(job, last)
      BY <2>1 DEF StaleBy
    <3>4. QED
      BY <2>1, <3>2, <3>3
  <2>4. QED
    BY <2>2, <2>3
<1>5. ASSUME last, job.at \in {"wipe", "answers", "unlink"}, job.op = "clear",
             NEW s \in Shots, NEW p \in 0..Len(down), At(s, p), s \notin rows'
      PROVE  s \in stale'
  <2>1. Rowless' \subseteq StaleBy(job, last)
    BY <1>5 DEF StaleBy
  <2>2. task'[s] \in {"announcing", "over"}
    BY <1>5 DEF ListInv, Known
  <2>3. s \in Rowless'
    BY <1>5, <2>2 DEF Rowless
  <2>4. QED
    BY <2>1, <2>3
<1>6. QED
  BY <1>3, <1>4, <1>5

\* The next statement of a job has nothing new to delete, and a clear past its
\* rows stays in debt to the phone until its files are gone.
LEMMA AfterOwes ==
    ASSUME NEW job \in Jobs, Owner(job)
    PROVE  /\ \A s : Due(s, After(job)) => Due(s, job)
           /\ job.op = "clear" /\ job.at \in {"wipe", "answers"} => Clearing(After(job))
<1>1. \A s : Due(s, After(job)) => Due(s, job)
  <2>1. CASE job.at = "get"
    BY <2>1, SMT DEF Due, After, Job
  <2>2. CASE job.at # "get"
    <3>1. After(job).at \notin {"get", "drop"}
      BY <2>2, SMT DEF After, Job, Idle
    <3>2. QED
      BY <3>1 DEF Due
  <2>3. QED
    BY <2>1, <2>2
<1>2. job.op = "clear" /\ job.at \in {"wipe", "answers"} => Clearing(After(job))
  BY SMT DEF Clearing, After, Job
<1>3. QED
  BY <1>1, <1>2

LEMMA StrayLacks ==
    ASSUME Inv, ListInv, LacksInv, StrayStep
    PROVE  LacksInv'
<1>1. PICK one \in Jobs, other \in Jobs : one = reader /\ other = stray
  BY DEF Inv, TypeOK
<1> DEFINE last == other.at \in {"drop", "wipe", "answers", "unlink", "query"}
<1>2. /\ stray' = IF last THEN Idle ELSE After(other)
      /\ stale' = stale \cup StaleBy(other, last)
  BY <1>1 DEF StrayStep, Returning
<1>3. last \in BOOLEAN /\ (other.at \in {"wipe", "answers", "unlink"} => last)
  OBVIOUS
<1> HIDE DEF last
<1>4. /\ Work(other) /\ UNCHANGED << task, reader, link, up, down, page >>
      /\ stray # Idle /\ Owner(other) /\ link = "pc"
  BY <1>1 DEF StrayStep, channel, ListInv, LacksInv
<1>5. /\ \A s \in Shots : task'[s] = "announcing" => s \in rows' \cup stale'
      /\ other.at # "wipe" =>
            \A s \in rows, p \in 0..Len(down) : At(s, p) => s \in rows' \cup stale'
      /\ last /\ other.at \in {"wipe", "answers", "unlink"} /\ other.op = "clear" =>
            \A s \in Shots, p \in 0..Len(down) : At(s, p) => s \in rows' \cup stale'
  BY <1>1, <1>2, <1>3, <1>4, WorkMarks
<1>6. Doomed' \subseteq Doomed
  <2>1. \A s : Due(s, stray') => Due(s, other)
    BY <1>2, <1>4, AfterOwes, IdleOwesNothing
  <2>2. QED
    BY <1>1, <1>4, <2>1, DoomedCases
<1>7. ASSUME NEW s \in Shots, NEW p \in 0..Len(down), At(s, p), s \in rows \/ Owed
      PROVE  s \in rows' \cup stale' \/ Owed'
  <2>1. CASE Clearing(reader)
    BY <1>4, <2>1 DEF Owed, Clearing
  <2>2. CASE Clearing(stray)
    BY <1>1, <1>3, <1>5, <1>7, <2>2 DEF Clearing
  <2>3. CASE s \in rows
    BY <1>3, <1>4, <1>5, <1>7, <2>3 DEF Owner
  <2>4. QED
    BY <1>7, <2>1, <2>2, <2>3 DEF Owed
<1>8. QED
  BY <1>2, <1>4, <1>5, <1>6, <1>7, LacksUntouched

LEMMA HandlerLacks ==
    ASSUME Inv, ListInv, LacksInv, HandlerStep
    PROVE  LacksInv'
<1>1. PICK one \in Jobs, other \in Jobs : one = reader /\ other = stray
  BY DEF Inv, TypeOK
<1> DEFINE last == one.at = "unlink" /\ link # "up"
<1>2. stale' = stale \cup StaleBy(one, last)
  BY <1>1 DEF HandlerStep
<1>3. last \in BOOLEAN /\ (last <=> one.at = "unlink" /\ link # "up")
  OBVIOUS
<1> HIDE DEF last
<1>4. /\ Work(one) /\ UNCHANGED << task, stray, link, up, page >>
      /\ Owner(one) /\ reader' \in {After(one), Idle}
      /\ one.at # "get" => reader' = After(one)
  BY <1>1 DEF HandlerStep, ListInv
<1>5. /\ \A s \in Shots : task'[s] = "announcing" => s \in rows' \cup stale'
      /\ one.at # "wipe" =>
            \A s \in rows, p \in 0..Len(down) : At(s, p) => s \in rows' \cup stale'
      /\ last /\ one.at \in {"wipe", "answers", "unlink"} /\ one.op = "clear" =>
            \A s \in Shots, p \in 0..Len(down) : At(s, p) => s \in rows' \cup stale'
  BY <1>1, <1>2, <1>3, <1>4, WorkMarks
<1>6. Doomed' \subseteq Doomed
  <2>1. \A s : Due(s, reader') => Due(s, one)
    BY <1>4, AfterOwes, IdleOwesNothing
  <2>2. QED
    BY <1>1, <1>4, <2>1, DoomedCases
<1>7. stray' # Idle => link' = "pc"
  BY <1>4 DEF LacksInv
<1>8. CASE down' = down /\ ~(one.op = "clear" /\ one.at = "unlink" /\ link = "up")
  <2>1. ASSUME NEW s \in Shots, NEW p \in 0..Len(down), At(s, p), s \in rows \/ Owed
        PROVE  s \in rows' \cup stale' \/ Owed'
    <3>1. CASE Clearing(stray)
      BY <1>4, <3>1 DEF Owed, Clearing
    <3>2. CASE one.op = "clear" /\ one.at \in {"wipe", "answers"}
      <4>1. Clearing(After(one)) /\ reader' = After(one)
        BY <1>4, <3>2, AfterOwes
      <4>2. QED
        BY <4>1 DEF Owed, Clearing
    <3>3. CASE one.op = "clear" /\ one.at = "unlink"
      BY <1>3, <1>5, <1>8, <2>1, <3>3
    <3>4. CASE s \in rows /\ one.at # "wipe"
      BY <1>5, <2>1, <3>4
    <3>5. QED
      BY <1>1, <1>4, <2>1, <3>1, <3>2, <3>3, <3>4 DEF Owed, Clearing, Owner
  <2>2. QED
    BY <1>2, <1>4, <1>5, <1>6, <1>7, <1>8, <2>1, LacksUntouched
<1>9. CASE /\ one.op = "clear" /\ one.at = "unlink"
           /\ down' = Append(down, Event("cleared", {}))
  <2>1. /\ Event("cleared", {}) \in Events /\ Event("cleared", {}).type = "cleared"
        /\ Event("cleared", {}).shots = {}
    BY SMT DEF Event, Events
  <2>2. rows' = rows
    BY <1>4, <1>9 DEF Work
  <2>3. QED
    BY <1>2, <1>4, <1>6, <1>7, <1>9, <2>1, <2>2, LacksSent DEF Inv
<1>10. CASE one.op = "history" /\ down' = Append(down, Event("history", rows))
  <2>1. Event("history", rows) \in Events /\ Event("history", rows).shots = rows
    BY SMT DEF Event, Events, Inv, TypeOK
  <2>2. rows' = rows
    BY <1>4, <1>10 DEF Work, Owner, store
  <2>3. Owed => Owed'
    BY <1>1, <1>4, <1>10 DEF Owed, Clearing
  <2>4. QED
    BY <1>2, <1>4, <1>6, <1>7, <1>10, <2>1, <2>2, <2>3, LacksSent DEF Inv
<1>11. QED
  BY <1>1, <1>8, <1>9, <1>10 DEF HandlerStep, Reply, Emit

LEMMA CaptureLacks ==
    ASSUME Inv, LacksInv, NEW s \in Shots,
           Trigger(s) \/ Grab(s) \/ GrabFails(s) \/ Persist(s) \/ Announce(s)
    PROVE  LacksInv'
<1>1. TypeOK /\ rows \subseteq rows' /\ stale \subseteq stale'
  BY DEF Inv, Trigger, Grab, GrabFails, Persist, Announce, store, history
<1>2. UNCHANGED << reader, stray, link, up, page >>
  BY DEF Trigger, Grab, GrabFails, Persist, Announce, channel
<1>3. Doomed' \subseteq Doomed /\ (Owed' <=> Owed) /\ (stray' # Idle => link' = "pc")
  <2>1. \A t : t \in Doomed' <=> t \in Doomed
    BY <1>2, DoomedCases
  <2>2. QED
    BY <1>2, <2>1 DEF Owed, Clearing, LacksInv
<1>4. \A t \in Shots : task'[t] = "announcing" =>
         task[t] = "announcing" \/ (t = s /\ s \in rows' \cup stale')
  BY <1>1, SMT DEF Trigger, Grab, GrabFails, Persist, Announce, TypeOK
<1>5. \A t \in Shots : task'[t] = "announcing" => t \in rows' \cup stale'
  BY <1>1, <1>4 DEF LacksInv
<1>6. CASE down' = down
  BY <1>1, <1>2, <1>3, <1>5, <1>6, LacksUntouched
<1>7. CASE Announce(s) /\ down' = Append(down, Event("created", {s}))
  <2>1. Event("created", {s}) \in Events /\ Event("created", {s}).shots = {s}
    BY SMT DEF Event, Events
  <2>2. /\ task[s] = "announcing" /\ rows' = rows
        /\ \A t \in Shots : task'[t] = "announcing" => task[t] = "announcing"
    BY <1>1, <1>7, SMT DEF Announce, store, TypeOK
  <2>3. s \in rows \cup stale
    BY <2>2 DEF LacksInv
  <2>4. QED
    BY <1>1, <1>2, <1>3, <1>7, <2>1, <2>2, <2>3, LacksSent
<1>8. QED
  BY <1>6, <1>7 DEF Trigger, Grab, GrabFails, Persist, Announce, Emit, channel

LEMMA RefusalLacks ==
    ASSUME Inv, ListInv, LacksInv, HandlerFails
    PROVE  LacksInv'
<1>1. PICK one \in Jobs : one = reader
  BY DEF Inv, TypeOK
<1>2. /\ UNCHANGED << task, rows, stray, link, up, down, page >> /\ reader' = Idle
      /\ stale' = stale \cup StaleBy(one, one.at = "answers") /\ one.at # "unlink"
  BY <1>1 DEF HandlerFails, store, channel
<1>3. Doomed' \subseteq Doomed
  BY <1>2, DoomedCases, IdleOwesNothing
<1>4. ASSUME Clearing(one), NEW s \in Shots, NEW p \in 0..Len(down), At(s, p), s \notin rows
      PROVE  s \in stale'
  <2>1. one.at = "answers" /\ one.op = "clear"
    BY <1>2, <1>4 DEF Clearing
  <2>2. Rowless' \subseteq StaleBy(one, one.at = "answers")
    BY <2>1 DEF StaleBy
  <2>3. s \in Rowless'
    BY <1>2, <1>4 DEF Rowless, ListInv, Known
  <2>4. QED
    BY <1>2, <2>2, <2>3
<1>5. ASSUME NEW s \in Shots, NEW p \in 0..Len(down), At(s, p), s \in rows \/ Owed
      PROVE  s \in rows' \cup stale' \/ Owed'
  BY <1>1, <1>2, <1>4, <1>5 DEF Owed, Clearing
<1>6. \A s \in Shots : task'[s] = "announcing" => s \in rows' \cup stale'
  BY <1>2 DEF LacksInv
<1>7. stray' # Idle => link' = "pc"
  BY <1>2 DEF LacksInv
<1>8. QED
  BY <1>2, <1>3, <1>5, <1>6, <1>7, LacksUntouched

LEMMA CommandsLack ==
    ASSUME Inv, ListInv, LacksInv,
           Dispatch \/ PressClear \/ Rejoin \/ \E s \in Shots : PressDelete(s)
    PROVE  LacksInv'
<1>1. up \in Seq(Commands)
  BY DEF Inv, TypeOK
<1>2. /\ UNCHANGED << task, rows, stray, down, stale >> /\ page' \subseteq page
      /\ reader' = reader \/ (Dispatch /\ reader = Idle)
  BY DEF Dispatch, PressClear, Rejoin, PressDelete, store, history
<1>3. stray' # Idle => link' = "pc"
  BY DEF Dispatch, PressClear, Rejoin, PressDelete, LacksInv
<1>4. Owed => Owed'
  BY <1>2, IdleOwesNothing DEF Owed, Clearing
<1>5. ASSUME NEW job \in Commands, up' = Append(up, job)
      PROVE  \A s : (\E i \in DOMAIN up' : s \in up'[i].shots) =>
                    (\E i \in DOMAIN up : s \in up[i].shots) \/ s \in job.shots
  <2>1. /\ DOMAIN up' = 1..(Len(up) + 1) /\ DOMAIN up = 1..Len(up) /\ Len(up) \in Nat
        /\ up'[Len(up) + 1] = job /\ \A i \in 1..Len(up) : up'[i] = up[i]
    BY <1>1, <1>5, SMT
  <2>2. \A i \in DOMAIN up' : i \in DOMAIN up \/ i = Len(up) + 1
    BY <2>1, SMT
  <2>3. QED
    BY <2>1, <2>2
<1>6. page' \cap Doomed' \subseteq Doomed
  <2>1. CASE up' = up /\ reader' = reader
    BY <1>2, <2>1, DoomedCases
  <2>2. CASE Dispatch
    <3>1. PICK command \in Commands : command = Head(up)
      BY <1>1, <2>2, SMT DEF Dispatch
    <3>2. /\ \A i \in DOMAIN up' : i + 1 \in DOMAIN up /\ up'[i] = up[i + 1]
          /\ 1 \in DOMAIN up /\ up[1] = command
      BY <1>1, <2>2, <3>1, SMT DEF Dispatch
    <3>3. reader' = CASE command.op = "delete"  -> Job("delete", "get", command.shots)
                      [] command.op = "clear"   -> Job("clear", "select", {})
                      [] command.op = "history" -> Job("history", "query", {})
      BY <2>2, <3>1 DEF Dispatch
    <3>4. command.op \in {"delete", "clear", "history"}
      BY SMT DEF Commands
    <3>5. \A s : Due(s, reader') => s \in command.shots
      BY <3>3, <3>4, SMT DEF Due, Job
    <3>6. QED
      BY <1>2, <3>2, <3>5, DoomedCases
  <2>3. CASE PressClear \/ Rejoin
    <3>1. /\ Job("clear", "none", {}) \in Commands /\ Job("clear", "none", {}).shots = {}
          /\ Job("history", "none", {}) \in Commands /\ Job("history", "none", {}).shots = {}
      BY SMT DEF Job, Commands
    <3>2. PICK job \in Commands : job.shots = {} /\ (up' = up \/ up' = Append(up, job))
      BY <2>3, <3>1 DEF PressClear, Rejoin, Send
    <3>3. reader' = reader
      BY <2>3 DEF PressClear, Rejoin
    <3>4. QED
      BY <1>2, <1>5, <3>2, <3>3, DoomedCases
  <2>4. ASSUME NEW s \in Shots, PressDelete(s)
        PROVE  page' \cap Doomed' \subseteq Doomed
    <3>1. Job("delete", "none", {s}) \in Commands /\ Job("delete", "none", {s}).shots = {s}
      BY SMT DEF Job, Commands
    <3>2. PICK job \in Commands : job.shots = {s} /\ (up' = up \/ up' = Append(up, job))
      BY <2>4, <3>1 DEF PressDelete, Send
    <3>3. reader' = reader /\ s \notin page'
      BY <2>4 DEF PressDelete
    <3>4. QED
      BY <1>2, <1>5, <3>2, <3>3, DoomedCases
  <2>5. QED
    BY <2>2, <2>3, <2>4
<1>7. \A s \in Shots : task'[s] = "announcing" => s \in rows' \cup stale'
  BY <1>2 DEF LacksInv
<1>8. QED
  BY <1>2, <1>3, <1>4, <1>6, <1>7, LacksUntouched

LEMMA CutsLack ==
    ASSUME Inv, ListInv, LacksInv, CutPhone \/ CutPc
    PROVE  LacksInv'
<1>1. /\ UNCHANGED << task, rows, page >> /\ up' \in {up, << >>} /\ link = "up"
      /\ TypeOK /\ Known
      /\ \/ UNCHANGED << reader, stray >> /\ link' = "phone"
         \/ reader' = Idle /\ stray' = reader /\ link' = "pc"
  BY DEF CutPhone, CutPc, store, Inv, ListInv
<1>2. stray = Idle /\ (stray' # Idle => link' = "pc")
  BY <1>1 DEF LacksInv
<1>3. Doomed' \subseteq Doomed
  <2>1. \A i \in DOMAIN << >> : FALSE
    BY SMT
  <2>2. QED
    BY <1>1, <2>1, DoomedCases, IdleOwesNothing
<1>4. Owed => Owed'
  BY <1>1, <1>2, IdleOwesNothing DEF Owed, Clearing
<1>5. CASE DropDown(TRUE)
  BY <1>1, <1>2, <1>3, <1>4, <1>5, LacksLost
<1>6. CASE DropDown(FALSE)
  <2>1. down' = down /\ stale \subseteq stale'
    BY <1>6 DEF DropDown
  <2>2. \A s \in Shots : task'[s] = "announcing" => s \in rows' \cup stale'
    BY <1>1, <2>1 DEF LacksInv
  <2>3. QED
    BY <1>1, <1>2, <1>3, <1>4, <2>1, <2>2, LacksUntouched
<1>7. QED
  BY <1>5, <1>6 DEF CutPhone, CutPc

\* A crash in a clear past its rows: nobody will tell the phone, all is marked.
LEMMA CrashLacks ==
    ASSUME Inv, ListInv, LacksInv, Crash
    PROVE  LacksInv'
<1>1. PICK one \in Jobs, other \in Jobs : one = reader /\ other = stray
  BY DEF Inv, TypeOK
<1>2. /\ UNCHANGED << rows, down, page >> /\ up' = << >> /\ reader' = Idle /\ stray' = Idle
      /\ task' = [s \in Shots |-> IF task[s] = "new" THEN "new" ELSE "over"]
  BY DEF Crash, store
<1>3. /\ stale \subseteq stale'
      /\ \A job \in {one, other} :
            job.at \in {"answers", "unlink"} => StaleBy(job, TRUE) \subseteq stale'
  BY <1>1 DEF Crash
<1>4. Doomed' \subseteq Doomed
  <2>1. \A i \in DOMAIN << >> : FALSE
    BY SMT
  <2>2. QED
    BY <1>2, <2>1, DoomedCases, IdleOwesNothing
<1>5. ASSUME Owed, NEW s \in Shots, NEW p \in 0..Len(down), At(s, p), s \notin rows
      PROVE  s \in stale'
  <2>1. PICK job \in {one, other} : Clearing(job)
    BY <1>1, <1>5 DEF Owed
  <2>2. Rowless' \subseteq StaleBy(job, TRUE) /\ job.at \in {"answers", "unlink"}
    BY <2>1 DEF StaleBy, Clearing
  <2>3. s \in Rowless'
    BY <1>2, <1>5 DEF Rowless, ListInv, Known
  <2>4. QED
    BY <1>3, <2>2, <2>3
<1>6. ASSUME NEW s \in Shots, NEW p \in 0..Len(down), At(s, p), s \in rows \/ Owed
      PROVE  s \in rows' \cup stale'
  BY <1>2, <1>5, <1>6
<1>7. \A s \in Shots : task'[s] # "announcing"
  BY <1>2
<1>8. QED
  BY <1>2, <1>3, <1>4, <1>6, <1>7, LacksUntouched

LEMMA LacksKept ==
    ASSUME Inv, ListInv, LacksInv, [Next]_vars
    PROVE  LacksInv'
<1>1. CASE UNCHANGED vars
  <2>1. UNCHANGED << task, rows, reader, stray, link, up, down, page, stale >>
    BY <1>1 DEF vars, store, channel, history
  <2>2. Doomed' \subseteq Doomed /\ (Owed' <=> Owed)
    BY <2>1, DoomedCases DEF Owed, Clearing
  <2>3. /\ \A s \in Shots : task'[s] = "announcing" => s \in rows' \cup stale'
        /\ stray' # Idle => link' = "pc"
    BY <2>1 DEF LacksInv
  <2>4. QED
    BY <2>1, <2>2, <2>3, LacksUntouched
<1>2. QED
  BY <1>1, CaptureLacks, StrayLacks, HandlerLacks, RefusalLacks, CommandsLack, CutsLack,
     CrashLacks, LacksDelivered DEF Next, Inv

\* When nothing is under way the phone shows the stored screenshots, for any number
\* of captures, deletes, clears, lost connections and crashes: it lacks only what
\* was lost on the way, and shows without a row only what PhoneShowsRows names.
THEOREM PhoneAlwaysShowsRows == Spec => []PhoneShowsRows
<1>1. Init => ListInv /\ HasInv /\ LacksInv
  <2> SUFFICES ASSUME Init PROVE ListInv /\ HasInv /\ LacksInv
    OBVIOUS
  <2>1. \A p \in 0..Len(down), s \in Shots : ~At(s, p)
    <3>1. page = {} /\ \A p \in 0..Len(down) : p = 0
      BY SMT DEF Init
    <3>2. QED
      BY <3>1 DEF At
  <2>2. ListInv
    BY <2>1, SMT DEF ListInv, Known, Owner, Init, Idle, Job
  <2>3. HasInv /\ LacksInv
    BY <2>1 DEF HasInv, LacksInv, Init
  <2>4. QED
    BY <2>2, <2>3
<1>2. Inv /\ ListInv /\ HasInv /\ LacksInv /\ [Next]_vars => (ListInv /\ HasInv /\ LacksInv)'
  BY ListKept, HasKept, LacksKept
<1>3. Inv /\ ListInv /\ HasInv /\ LacksInv => PhoneShowsRows
  <2> SUFFICES ASSUME Inv, HasInv, LacksInv, Settled
               PROVE  rows \subseteq page \cup missed /\ page \subseteq rows \cup stale
    BY DEF PhoneShowsRows
  <2>1. /\ down = << >> /\ reader = Idle /\ stray = Idle
        /\ \A s \in Shots : task[s] # "announcing"
    BY DEF Settled
  <2>2. Len(down) = 0 /\ DOMAIN down = {}
    BY <2>1, SMT
  <2>3. rows \subseteq Shots /\ page \subseteq Shots
    BY DEF Inv, TypeOK
  <2>4. ASSUME NEW s \in rows PROVE s \in page \cup missed
    <3>1. s \in missed \/ Held(s)
      BY <2>1, <2>3 DEF HasInv, Brought
    <3>2. Held(s) => s \in page
      BY <2>2, SMT DEF Held, At
    <3>3. QED
      BY <3>1, <3>2
  <2>5. ASSUME NEW s \in page PROVE s \in rows \cup stale
    <3>1. 0 \in 0..Len(down) /\ At(s, 0)
      BY <2>2, SMT DEF At
    <3>2. Backed(s, 0)
      BY <2>3, <3>1 DEF LacksInv
    <3>3. QED
      BY <2>1, <2>2, <3>2, IdleOwesNothing DEF Backed, Cleared, Owed
  <2>6. QED
    BY <2>4, <2>5
<1>4. QED
  BY <1>1, <1>2, <1>3, Invariance, PTL DEF Spec
=============================================================================
