------------------------- MODULE ConfigurationProofs -------------------------
(***************************************************************************)
(* Proofs about Configuration, for any number of updates, sources and      *)
(* starts: that memory, file, pipelines and phone agree, and that an       *)
(* acknowledged update survives; and, for every environment, that          *)
(* screenshots can be asked about wherever the conversation can.           *)
(***************************************************************************)
EXTENDS Configuration, TLAPS

-----------------------------------------------------------------------------
(* The inductive invariant.                                                *)

\* The update that holds the lock.
Locked(u) == thread[u] \in {"saving", "notifying"}

LockInv == \A u \in Updates : Locked(u) <=> lock = u

\* A program that does not run has no connection, no thread and no pipeline.
NothingStopped ==
    ~running => /\ ~linked /\ pipes = NoPipes /\ making = NoPipes
                /\ \A u \in Updates : thread[u] \in {"unsent", "over"}

\* Without a connection nobody waits and the phone was told nothing.
ReaderInv == ~linked => reader = None /\ form = Unknown

\* Memory and file are the same but while an update is being saved.
SavedInv ==
    running /\ ~unsaved /\ (\A u \in Updates : thread[u] # "saving") => memory = file

\* The pipelines follow but while an update is being saved or announced.
PipesInv == lock = None => PipelinesFollow

\* What is being saved took effect last, and what was saved is in the file.
NewestSaved == \A u \in Updates :
    /\ Locked(u) => /\ memory.wire = u
                    /\ Len(installs) > 0 /\ installs[Len(installs)] = u
    /\ thread[u] = "notifying" => file = memory \/ unsaved

\* The update or one that took effect later is in the file.
InFile(u) ==
    \E i, j \in 1..Len(installs) :
        i <= j /\ installs[i] = u /\ installs[j] = file.wire

AppliedInFile ==
    \A u \in Updates : thread[u] \in {"notifying", "applied"} \/ acked = u => InFile(u)

ConfigInv ==
    /\ TypeOK
    /\ LockInv
    /\ NothingStopped
    /\ ReaderInv
    /\ SavedInv
    /\ PipesInv
    /\ FormAgrees
    /\ NewestSaved
    /\ AppliedInFile

LEMMA ConfigTyped ==
    /\ \A rest \in {"user", "template", "builtin", "missing"} :
          [wire |-> None, rest |-> rest] \in Config
    /\ Missing \in Config /\ Builtin \in Config
  BY SMT DEF Config, Known, Missing, Builtin

LEMMA InitConfigInv == Init => ConfigInv
<1> SUFFICES ASSUME Init PROVE ConfigInv
  OBVIOUS
<1>1. TypeOK
  <2>1. file \in Config /\ memory \in Config
    BY ConfigTyped DEF Init
  <2>2. starts \in 0..MaxStarts /\ installs \in Seq(Updates)
    BY ConfigurationAssumption, SMT DEF Init
  <2>3. making \in [Sources -> Known \cup {Unknown}] /\ pipes \in [Sources -> Known \cup {Unknown}]
    BY DEF Init, NoPipes
  <2>4. thread \in [Updates -> Stages]
    BY DEF Init, Stages
  <2>5. QED
    BY <2>1, <2>2, <2>3, <2>4 DEF Init, TypeOK, Known
<1>2. LockInv /\ NothingStopped /\ ReaderInv
  BY ConfigurationAssumption, SMT DEF Init, LockInv, Locked, NothingStopped, ReaderInv
<1>3. SavedInv /\ PipesInv /\ FormAgrees
  BY DEF Init, SavedInv, PipesInv, FormAgrees, PipelinesFollow, NoPipes
<1>4. NewestSaved /\ AppliedInFile
  BY ConfigurationAssumption, SMT DEF Init, NewestSaved, Locked, AppliedInFile
<1>5. QED
  BY <1>1, <1>2, <1>3, <1>4 DEF ConfigInv

-----------------------------------------------------------------------------
(* The steps, one by one.                                                  *)

LEMMA StartStep == ASSUME ConfigInv, Start PROVE ConfigInv'
<1>1. /\ ~running /\ starts < MaxStarts /\ starts' = starts + 1 /\ running' = TRUE
      /\ UNCHANGED << env, lock, thread, installs, reader, making, pipes, slipped, form, linked,
                      acked, behind >>
  BY DEF Start, audio, phone
<1>2. /\ file' \in Config /\ memory' \in Config /\ unsaved' \in BOOLEAN
      /\ file' = file \/ file = Missing
      /\ memory' = file' \/ unsaved'
  BY ConfigTyped DEF Start, Load, ConfigInv, TypeOK, Missing
<1>3. TypeOK'
  BY <1>1, <1>2, ConfigurationAssumption, SMT DEF ConfigInv, TypeOK
<1>4. /\ ~linked /\ pipes = NoPipes /\ making = NoPipes /\ reader = None
      /\ \A u \in Updates : thread[u] \in {"unsent", "over"}
  BY <1>1 DEF ConfigInv, NothingStopped, ReaderInv
<1>5. LockInv' /\ NothingStopped' /\ ReaderInv' /\ NewestSaved'
  BY <1>1, <1>4 DEF ConfigInv, LockInv, Locked, NothingStopped, ReaderInv, NewestSaved
<1>6. SavedInv' /\ PipesInv' /\ FormAgrees'
  BY <1>1, <1>2, <1>4 DEF SavedInv, PipesInv, PipelinesFollow, NoPipes, FormAgrees
<1>7. AppliedInFile'
  <2>1. ASSUME NEW u \in Updates, acked = u PROVE file' = file
    BY <2>1, <1>2, ConfigurationAssumption, SMT
       DEF ConfigInv, AppliedInFile, InFile, TypeOK, Missing
  <2>2. QED
    BY <1>1, <1>4, <2>1 DEF ConfigInv, AppliedInFile, InFile
<1>8. QED
  BY <1>3, <1>5, <1>6, <1>7 DEF ConfigInv

LEMMA StopStep == ASSUME ConfigInv, Stop PROVE ConfigInv'
<1>1. /\ ~running' /\ ~linked' /\ lock' = None /\ reader' = None
      /\ making' = NoPipes /\ pipes' = NoPipes /\ slipped' = {}
      /\ UNCHANGED << env, starts, file, memory, installs, acked, unsaved >>
      /\ \A u \in Updates : thread'[u] \in {"unsent", "over"}
      /\ form' = Unknown /\ behind' = FALSE
  BY DEF Stop
<1>2. TypeOK'
  <2>1. thread' \in [Updates -> Stages]
    BY DEF Stop, Stages
  <2>2. making' \in [Sources -> Known \cup {Unknown}] /\ pipes' \in [Sources -> Known \cup {Unknown}]
    BY <1>1 DEF NoPipes
  <2>3. running' = FALSE /\ linked' = FALSE
    BY DEF Stop
  <2>4. QED
    BY <1>1, <2>1, <2>2, <2>3 DEF ConfigInv, TypeOK, Known
<1>3. LockInv' /\ NothingStopped' /\ ReaderInv' /\ NewestSaved'
  BY <1>1, ConfigurationAssumption DEF LockInv, Locked, NothingStopped, ReaderInv, NewestSaved
<1>4. SavedInv' /\ PipesInv' /\ FormAgrees'
  BY <1>1 DEF SavedInv, PipesInv, PipelinesFollow, NoPipes, FormAgrees
<1>5. AppliedInFile'
  BY <1>1 DEF ConfigInv, AppliedInFile, InFile
<1>6. QED
  BY <1>2, <1>3, <1>4, <1>5 DEF ConfigInv

\* What a session does to the store: nothing.
LEMMA SessionStep ==
    ASSUME ConfigInv, Connect \/ Disconnect \/ ReceiveGet \/ \E u \in Updates : ReceiveUpdate(u)
    PROVE  ConfigInv'
<1>1. /\ UNCHANGED << env, starts, running, file, memory, lock, installs, making, pipes, slipped,
                      acked, unsaved >>
      /\ linked' \in BOOLEAN /\ (linked' => running)
      /\ reader' \in Known /\ (~linked' => reader' = None /\ form' = Unknown)
      /\ thread' \in [Updates -> Stages]
      /\ \A v \in Updates : thread'[v] # thread[v] => thread'[v] = "waiting" /\ thread[v] = "unsent"
      /\ \A v \in Updates : thread'[v] = "waiting" => thread[v] = "waiting" \/ running
  <2>1. CASE Connect
    BY <2>1 DEF Connect, process, store, audio, ConfigInv, TypeOK, ReaderInv
  <2>2. CASE Disconnect
    BY <2>2 DEF Disconnect, process, store, audio, ConfigInv, TypeOK, Known
  <2>3. CASE ReceiveGet
    BY <2>3 DEF ReceiveGet, process, store, audio, ConfigInv, TypeOK, ReaderInv, NothingStopped
  <2>4. ASSUME NEW u \in Updates, ReceiveUpdate(u) PROVE <1>1!:
    BY <2>4 DEF ReceiveUpdate, process, audio, phone, ConfigInv, TypeOK, Stages, Known, NothingStopped
  <2>5. QED
    BY <2>1, <2>2, <2>3, <2>4
<1>2. form' \in Known \cup {Unknown} /\ behind' \in BOOLEAN /\ FormAgrees'
  <2>1. CASE Connect
    BY <2>1 DEF Connect, process, store, audio, ConfigInv, TypeOK, FormAgrees, ReaderInv
  <2>2. CASE Disconnect
    BY <2>2 DEF Disconnect, ConfigInv, TypeOK, FormAgrees
  <2>3. CASE ReceiveGet
    BY <2>3, <1>1 DEF ReceiveGet, Push, Wire, ConfigInv, TypeOK, Config, FormAgrees
  <2>4. ASSUME NEW u \in Updates, ReceiveUpdate(u) PROVE <1>2!:
    BY <2>4, ConfigurationAssumption DEF ReceiveUpdate, phone, ConfigInv, TypeOK, FormAgrees
  <2>5. QED
    BY <1>1, <2>1, <2>2, <2>3, <2>4
<1>3. TypeOK'
  BY <1>1, <1>2 DEF ConfigInv, TypeOK
<1>4. LockInv' /\ NothingStopped' /\ ReaderInv' /\ NewestSaved'
  BY <1>1 DEF ConfigInv, LockInv, Locked, NothingStopped, ReaderInv, NewestSaved
<1>5. SavedInv' /\ PipesInv' /\ AppliedInFile'
  BY <1>1 DEF ConfigInv, SavedInv, PipesInv, PipelinesFollow, AppliedInFile, InFile
<1>6. QED
  BY <1>2, <1>3, <1>4, <1>5 DEF ConfigInv

-----------------------------------------------------------------------------
(* An update under the lock.                                               *)

\* A later update that takes effect leaves what is in the file in its place.
LEMMA AppendKeepsFile ==
    ASSUME TypeOK, NEW u \in Updates, NEW v \in Updates, installs' = Append(installs, v),
           file' = file, InFile(u)
    PROVE  InFile(u)'
<1>1. PICK i, j \in 1..Len(installs) : i <= j /\ installs[i] = u /\ installs[j] = file.wire
  BY DEF InFile
<1>2. /\ Len(installs) \in Nat /\ Len(installs') = Len(installs) + 1
      /\ \A k \in 1..Len(installs) : installs'[k] = installs[k]
  BY SMT DEF TypeOK
<1>3. i \in 1..Len(installs') /\ j \in 1..Len(installs')
  BY <1>1, <1>2
<1>4. QED
  BY <1>1, <1>2, <1>3 DEF InFile

\* An update that is refused leaves everything else as it was.
LEMMA RejectStep ==
    ASSUME ConfigInv, NEW u \in Updates, Install(u), u \in Invalid
    PROVE  ConfigInv'
<1>1. /\ thread[u] = "waiting" /\ thread' = [thread EXCEPT ![u] = "rejected"]
      /\ UNCHANGED << env, starts, running, file, memory, lock, installs, reader, making, pipes,
                      slipped, form, linked, acked, unsaved, behind >>
  BY DEF Install, process, audio
<1>2. running
  BY <1>1 DEF ConfigInv, NothingStopped
<1>3. TypeOK'
  BY <1>1 DEF ConfigInv, TypeOK, Stages
<1>4. LockInv' /\ NothingStopped' /\ ReaderInv' /\ NewestSaved' /\ SavedInv'
  BY <1>1, <1>2 DEF ConfigInv, TypeOK, LockInv, Locked, NothingStopped, ReaderInv, NewestSaved, SavedInv
<1>5. PipesInv' /\ FormAgrees' /\ AppliedInFile'
  BY <1>1 DEF ConfigInv, TypeOK, PipesInv, PipelinesFollow, FormAgrees, AppliedInFile, InFile
<1>6. QED
  BY <1>3, <1>4, <1>5 DEF ConfigInv

LEMMA InstallStep ==
    ASSUME ConfigInv, NEW u \in Updates, Install(u), u \notin Invalid
    PROVE  ConfigInv'
<1>1. /\ thread[u] = "waiting" /\ thread' = [thread EXCEPT ![u] = "saving"]
      /\ lock = None /\ lock' = u
      /\ memory' = [memory EXCEPT !.wire = u] /\ installs' = Append(installs, u)
      /\ behind' = (reader # u \/ behind)
      /\ UNCHANGED << env, starts, running, file, reader, making, pipes, slipped, form, linked,
                      acked, unsaved >>
  BY DEF Install, process, audio, Merged
<1>2. running
  BY <1>1 DEF ConfigInv, NothingStopped
<1>3. /\ memory' \in Config /\ memory'.wire = u
  BY <1>1, SMT DEF ConfigInv, TypeOK, Config, Known
<1>4. /\ installs' \in Seq(Updates) /\ Len(installs') > 0 /\ installs'[Len(installs')] = u
  BY <1>1, SMT DEF ConfigInv, TypeOK
<1>5. TypeOK'
  BY <1>1, <1>3, <1>4 DEF ConfigInv, TypeOK, Stages, Known
<1>6. LockInv' /\ NothingStopped' /\ ReaderInv'
  BY <1>1, <1>2, ConfigurationAssumption
     DEF ConfigInv, TypeOK, LockInv, Locked, NothingStopped, ReaderInv
<1>7. NewestSaved'
  BY <1>1, <1>3, <1>4, ConfigurationAssumption
     DEF ConfigInv, TypeOK, LockInv, Locked, NewestSaved
<1>8. SavedInv' /\ PipesInv'
  BY <1>1, ConfigurationAssumption DEF ConfigInv, TypeOK, SavedInv, PipesInv
<1>9. FormAgrees'
  BY <1>1, ConfigurationAssumption DEF ConfigInv, TypeOK, FormAgrees
<1>10. AppliedInFile'
  <2>1. \A v \in Updates : thread'[v] \in {"notifying", "applied"} => thread'[v] = thread[v]
    BY <1>1 DEF ConfigInv, TypeOK
  <2>2. QED
    BY <1>1, <2>1, AppendKeepsFile DEF ConfigInv, AppliedInFile
<1>11. QED
  BY <1>5, <1>6, <1>7, <1>8, <1>9, <1>10 DEF ConfigInv

LEMMA SaveStep ==
    ASSUME ConfigInv, NEW u \in Updates, Save(u)
    PROVE  ConfigInv'
<1>1. /\ thread[u] = "saving" /\ lock = u /\ running
      /\ UNCHANGED << env, starts, running, memory, installs, reader, making, pipes, slipped, form,
                      linked, acked, behind >>
      /\ \A v \in Updates : v # u => ~Locked(v)
  BY DEF Save, process, audio, phone, ConfigInv, LockInv, Locked, NothingStopped
<1>2. /\ memory.wire = u /\ Len(installs) > 0 /\ installs[Len(installs)] = u
  BY <1>1 DEF ConfigInv, NewestSaved, Locked
<1>3. CASE file' = memory /\ unsaved' = FALSE /\ lock' = lock
           /\ thread' = [thread EXCEPT ![u] = "notifying"]
  <2>1. TypeOK'
    BY <1>1, <1>3 DEF ConfigInv, TypeOK, Stages
  <2>2. LockInv' /\ NothingStopped' /\ ReaderInv' /\ NewestSaved'
    BY <1>1, <1>2, <1>3 DEF ConfigInv, TypeOK, LockInv, Locked, NothingStopped, ReaderInv, NewestSaved
  <2>3. SavedInv' /\ PipesInv' /\ FormAgrees'
    BY <1>1, <1>3, ConfigurationAssumption DEF ConfigInv, TypeOK, SavedInv, PipesInv, FormAgrees
  <2>4. \A v \in Updates : InFile(v) => InFile(v)'
    <3>1. SUFFICES ASSUME NEW v \in Updates, InFile(v) PROVE InFile(v)'
      OBVIOUS
    <3>2. PICK i \in 1..Len(installs) : installs[i] = v
      BY <3>1 DEF InFile
    <3>3. Len(installs) \in 1..Len(installs) /\ i <= Len(installs)
      BY <1>2, SMT DEF ConfigInv, TypeOK
    <3>4. QED
      BY <1>1, <1>2, <1>3, <3>2, <3>3 DEF InFile
  <2>5. InFile(u)'
    <3>1. Len(installs) \in 1..Len(installs)
      BY <1>2, SMT DEF ConfigInv, TypeOK
    <3>2. QED
      BY <1>1, <1>2, <1>3, <3>1 DEF InFile
  <2>6. AppliedInFile'
    BY <1>1, <1>3, <2>4, <2>5 DEF ConfigInv, TypeOK, AppliedInFile
  <2>7. QED
    BY <2>1, <2>2, <2>3, <2>6 DEF ConfigInv
<1>4. CASE unsaved' = TRUE /\ lock' = None /\ file' = file
           /\ thread' = [thread EXCEPT ![u] = "unsaved"]
  <2>1. TypeOK'
    BY <1>1, <1>4 DEF ConfigInv, TypeOK, Stages, Known
  <2>2. LockInv' /\ NothingStopped' /\ ReaderInv' /\ NewestSaved'
    BY <1>1, <1>4, ConfigurationAssumption
       DEF ConfigInv, TypeOK, LockInv, Locked, NothingStopped, ReaderInv, NewestSaved
  <2>3. SavedInv' /\ PipesInv' /\ FormAgrees'
    BY <1>1, <1>4 DEF ConfigInv, SavedInv, PipesInv, PipelinesFollow, FormAgrees
  <2>4. AppliedInFile'
    BY <1>1, <1>4 DEF ConfigInv, TypeOK, AppliedInFile, InFile
  <2>5. QED
    BY <2>1, <2>2, <2>3, <2>4 DEF ConfigInv
<1>5. QED
  BY <1>3, <1>4 DEF Save

LEMMA NotifyStep ==
    ASSUME ConfigInv, NEW u \in Updates, Notify(u)
    PROVE  ConfigInv'
<1>1. /\ thread[u] = "notifying" /\ lock = u /\ running
      /\ thread' = [thread EXCEPT ![u] = "applied"] /\ lock' = None /\ slipped' = {}
      /\ pipes' = [s \in Sources |-> Applied(pipes[s])]
      /\ UNCHANGED << env, starts, running, file, memory, installs, reader, making, form, linked,
                      acked, behind, unsaved >>
      /\ \A v \in Updates : v # u => ~Locked(v)
  BY DEF Notify, process, phone, ConfigInv, LockInv, Locked, NothingStopped
<1>2. \A s \in Sources : pipes'[s] \in {Unknown, memory.wire}
  BY <1>1 DEF Applied, Wire
<1>3. TypeOK'
  <2>1. memory.wire \in Known
    BY DEF ConfigInv, TypeOK, Config
  <2>2. QED
    BY <1>1, <2>1 DEF ConfigInv, TypeOK, Stages, Known, Applied, Wire
<1>4. LockInv' /\ NothingStopped' /\ ReaderInv' /\ NewestSaved'
  BY <1>1, ConfigurationAssumption
     DEF ConfigInv, TypeOK, LockInv, Locked, NothingStopped, ReaderInv, NewestSaved
<1>5. SavedInv' /\ PipesInv' /\ FormAgrees'
  BY <1>1, <1>2 DEF ConfigInv, TypeOK, SavedInv, PipesInv, PipelinesFollow, FormAgrees
<1>6. AppliedInFile'
  BY <1>1 DEF ConfigInv, TypeOK, AppliedInFile, InFile
<1>7. QED
  BY <1>3, <1>4, <1>5, <1>6 DEF ConfigInv

LEMMA AnswerStep ==
    ASSUME ConfigInv, NEW u \in Updates, Answer(u)
    PROVE  ConfigInv'
<1>1. /\ reader = u /\ lock = None /\ thread[u] \in {"applied", "unsaved", "rejected"}
      /\ thread' = [thread EXCEPT ![u] = "over"] /\ reader' = None
      /\ form' = memory.wire /\ behind' = FALSE
      /\ acked' = IF thread[u] = "applied" THEN u ELSE acked
      /\ UNCHANGED << env, starts, running, file, memory, lock, installs, making, pipes, slipped,
                      linked, unsaved >>
  BY DEF Answer, Readable, Push, Wire, process, audio
<1>2. TypeOK'
  <2>1. memory.wire \in Known
    BY DEF ConfigInv, TypeOK, Config
  <2>2. QED
    BY <1>1, <2>1 DEF ConfigInv, TypeOK, Stages, Known
<1>3. linked
  BY <1>1, ConfigurationAssumption DEF ConfigInv, ReaderInv
<1>4. LockInv' /\ NothingStopped' /\ ReaderInv' /\ NewestSaved'
  BY <1>1, <1>3 DEF ConfigInv, TypeOK, LockInv, Locked, NothingStopped, ReaderInv, NewestSaved
<1>5. SavedInv' /\ PipesInv' /\ FormAgrees'
  BY <1>1 DEF ConfigInv, TypeOK, SavedInv, PipesInv, PipelinesFollow, FormAgrees
<1>6. AppliedInFile'
  BY <1>1 DEF ConfigInv, TypeOK, AppliedInFile, InFile
<1>7. QED
  BY <1>2, <1>4, <1>5, <1>6 DEF ConfigInv

-----------------------------------------------------------------------------
(* The pipelines.                                                          *)

LEMMA PipelineStep ==
    ASSUME ConfigInv, NEW s \in Sources, ReadSettings(s) \/ Register(s)
    PROVE  ConfigInv'
<1>1. UNCHANGED << env, starts, running, file, memory, lock, thread, installs, reader, form, linked,
                   acked, behind, unsaved >>
  BY DEF ReadSettings, Register, process, store, phone
<1>2. running
  BY DEF ReadSettings, Register, ConfigInv, NothingStopped, NoPipes
<1>3. /\ making' \in [Sources -> Known \cup {Unknown}]
      /\ pipes' \in [Sources -> Known \cup {Unknown}]
      /\ slipped' \subseteq Sources
  <2>1. memory.wire \in Known
    BY DEF ConfigInv, TypeOK, Config
  <2>2. QED
    BY <2>1 DEF ReadSettings, Register, Wire, ConfigInv, TypeOK
<1>4. PipesInv'
  <2>1. CASE ReadSettings(s)
    BY <1>1, <2>1 DEF ReadSettings, ConfigInv, PipesInv, PipelinesFollow
  <2>2. CASE Register(s)
    <3>1. /\ pipes' = [pipes EXCEPT ![s] = making[s]]
          /\ slipped' = IF making[s] = memory.wire THEN slipped \ {s} ELSE slipped \cup {s}
      BY <2>2 DEF Register
    <3>2. QED
      BY <1>1, <3>1 DEF ConfigInv, TypeOK, PipesInv, PipelinesFollow
  <2>3. QED
    BY <2>1, <2>2
<1>5. TypeOK' /\ LockInv' /\ NothingStopped' /\ ReaderInv' /\ NewestSaved'
  BY <1>1, <1>2, <1>3 DEF ConfigInv, TypeOK, LockInv, Locked, NothingStopped, ReaderInv, NewestSaved
<1>6. SavedInv' /\ FormAgrees' /\ AppliedInFile'
  BY <1>1 DEF ConfigInv, SavedInv, FormAgrees, AppliedInFile, InFile
<1>7. QED
  BY <1>4, <1>5, <1>6 DEF ConfigInv

-----------------------------------------------------------------------------
\* The inductive invariant holds throughout.
THEOREM ConfigInvariance == Spec => []ConfigInv
<1>1. Init => ConfigInv
  BY InitConfigInv
<1>2. ConfigInv /\ [Next]_vars => ConfigInv'
  <2> SUFFICES ASSUME ConfigInv, [Next]_vars PROVE ConfigInv'
    OBVIOUS
  <2>1. ASSUME NEW u \in Updates, ThreadTurn(u) \/ Answer(u) PROVE ConfigInv'
    BY <2>1, RejectStep, InstallStep, SaveStep, NotifyStep, AnswerStep DEF ThreadTurn
  <2>2. ASSUME NEW s \in Sources, ReadSettings(s) \/ Register(s) PROVE ConfigInv'
    BY <2>2, PipelineStep
  <2>3. CASE UNCHANGED vars
    BY <2>3 DEF vars, process, store, audio, phone, ConfigInv, TypeOK, LockInv, Locked,
                NothingStopped, ReaderInv, SavedInv, PipesInv, PipelinesFollow, FormAgrees,
                NewestSaved, AppliedInFile, InFile
  <2>4. QED
    BY <2>1, <2>2, <2>3, StartStep, StopStep, SessionStep DEF Next
<1>3. QED
  BY <1>1, <1>2, PTL DEF Spec

\* Every variable keeps its type, for any number of updates and starts.
THEOREM TypeCorrect == Spec => []TypeOK
<1>1. ConfigInv => TypeOK
  BY DEF ConfigInv
<1>2. QED
  BY <1>1, ConfigInvariance, PTL

\* Between updates memory, file, pipelines and phone agree, up to the causes the
\* property names, however updates, lost connections, failed saves and restarts
\* fall together.
THEOREM SettingsAgreeAlways == Spec => []SettingsAgree
<1>1. ConfigInv => SettingsAgree
  <2> SUFFICES ASSUME ConfigInv, lock = None PROVE FileAgrees /\ PipelinesFollow /\ FormAgrees
    BY DEF SettingsAgree
  <2>1. \A u \in Updates : thread[u] # "saving"
    BY ConfigurationAssumption DEF ConfigInv, LockInv, Locked
  <2>2. QED
    BY <2>1 DEF ConfigInv, SavedInv, FileAgrees, PipesInv
<1>2. QED
  BY <1>1, ConfigInvariance, PTL

\* An acknowledged update is in the file until a later one replaces it, through
\* any number of restarts.
THEOREM AckSurvivesAlways == Spec => []AckSurvives
<1>1. ConfigInv => AckSurvives
  BY DEF ConfigInv, TypeOK, Known, AppliedInFile, InFile, AckSurvives
<1>2. QED
  BY <1>1, ConfigInvariance, PTL

-----------------------------------------------------------------------------
(* The providers.                                                          *)

\* A credential that fills up a configured one is configured.
LEMMA OverConfigured ==
    ASSUME NEW own, NEW shared, IsConfigured(shared)
    PROVE  IsConfigured(Over(own, shared))
BY DEF IsConfigured, Over

\* Whatever the variables and LLM_PRIMARY are: the providers of the conversation
\* fill up those of the screenshots, in the same order.
LEMMA ScreenshotsFollow ==
    ASSUME NEW raw, NEW primary, Answerable(ToConfig(raw, primary), "conversation")
    PROVE  Answerable(ToConfig(raw, primary), "screenshot")
<1> DEFINE main    == Over(raw["LLM"], raw["MODEL"])
           backup  == Over(raw["BK_LLM"], raw["BK_MODEL"])
           swapped == BackupIsPrimary(primary, backup)
           llm     == IF swapped THEN backup ELSE main
           other   == IF swapped THEN main ELSE backup
           first   == Over(raw["VISION"], llm)
           second  == Over(raw["BK_VISION"], other)
           config  == ToConfig(raw, primary)
<1>1. /\ config["conversation"] = [first |-> llm, second |-> other]
      /\ config["screenshot"] = [first |-> first, second |-> second]
  BY DEF ToConfig
<1> HIDE DEF config, llm, other
<1>2. CASE IsConfigured(llm)
  <2>1. IsConfigured(first)
    BY <1>2, OverConfigured
  <2>2. QED
    BY <1>1, <2>1 DEF Answerable, config
<1>3. CASE ~IsConfigured(llm)
  <2>1. IsConfigured(other)
    BY <1>1, <1>3 DEF Answerable, HasFallback, config
  <2>2. IsConfigured(second)
    BY <2>1, OverConfigured
  <2>3. IsConfigured(first) \/ second # first
    BY <2>2
  <2> HIDE DEF first, second
  <2>4. QED
    BY <1>1, <2>2, <2>3 DEF Answerable, HasFallback, config
<1>4. QED
  BY <1>2, <1>3

\* Where a question about the conversation can be answered, so can one about a
\* screenshot: for every environment and every LLM_PRIMARY, and not only for
\* those the program may be started in.
THEOREM VisionAnswersAlways == Spec => []VisionAnswers
<1>1. Init => VisionAnswers
  BY ScreenshotsFollow DEF Init, NoProviders, VisionAnswers
<1>2. VisionAnswers /\ [Next]_vars => VisionAnswers'
  <2> SUFFICES ASSUME VisionAnswers, [Next]_vars PROVE VisionAnswers'
    OBVIOUS
  <2>1. CASE UNCHANGED providers
    BY <2>1 DEF VisionAnswers
  <2>2. CASE Start
    <3>1. providers' = LoadEnv(env.set, env.primary)
      BY <2>2 DEF Start
    <3>2. QED
      BY <3>1, ScreenshotsFollow DEF VisionAnswers, LoadEnv
  <2>3. CASE Stop \/ Connect \/ Disconnect \/ ReceiveGet \/ UNCHANGED vars
    BY <2>1, <2>3 DEF Stop, Connect, Disconnect, ReceiveGet, vars, process
  <2>4. ASSUME NEW u \in Updates, ReceiveUpdate(u) \/ ThreadTurn(u) \/ Answer(u)
        PROVE  VisionAnswers'
    BY <2>1, <2>4 DEF ReceiveUpdate, ThreadTurn, Install, Save, Notify, Answer, process
  <2>5. ASSUME NEW s \in Sources, ReadSettings(s) \/ Register(s) PROVE VisionAnswers'
    BY <2>1, <2>5 DEF ReadSettings, Register, process
  <2>6. QED
    BY <2>2, <2>3, <2>4, <2>5 DEF Next
<1>3. QED
  BY <1>1, <1>2, PTL DEF Spec
=============================================================================
