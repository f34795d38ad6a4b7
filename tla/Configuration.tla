---------------------------- MODULE Configuration ----------------------------
(***************************************************************************)
(* What the desktop runs with: the providers of its environment            *)
(* (Providers) and the settings that the phone may change while it runs    *)
(* (config/settings.py: ConfigStore; services/settings_service.py;         *)
(* TranscriptionService.create_pipeline and apply_config).                 *)
(*                                                                         *)
(* The phone's part of the settings is abstracted to the update it was set *)
(* by (None: the values of the file as found); the rest of the file is the *)
(* user's, the template's, or the program's own defaults.  An update runs  *)
(* in a thread under the store's lock; when the connection that brought it *)
(* is lost, the thread goes on and nobody waits for it.                    *)
(***************************************************************************)
EXTENDS Naturals, Sequences, Providers

CONSTANTS
    Updates,      \* settings the phone saves, each once
    Invalid,      \* those among them that fail validation
    Sources,      \* the audio sources a pipeline may be created for
    None,         \* no update, no source
    Environments, \* the environments the program may be started in
    Preferences,  \* the values of LLM_PRIMARY
    MaxStarts     \* bound: starts of the program

ASSUME ConfigurationAssumption ==
    /\ Invalid \subseteq Updates
    /\ None \notin Updates
    /\ Environments \subseteq [Blocks -> SUBSET Fields]
    /\ Preferences \subseteq Primaries
    /\ MaxStarts \in Nat

VARIABLES
    env,       \* the environment: the variables set, and LLM_PRIMARY
    providers, \* EnvConfig, once loaded
    file,      \* config.yaml
    memory,    \* ConfigStore._config
    lock,      \* the update that holds ConfigStore._lock
    thread,    \* how far update_from_wire is with an update
    reader,    \* the update handle_settings_update waits for
    making,    \* per source: the settings read for a pipeline that is being made
    pipes,     \* per source: the settings its pipeline works with
    form,      \* the settings the phone was told last
    linked,    \* the connection to the phone is up
    starts,    \* starts so far; the program runs if running
    running,
    unsaved,   \* a save or a read failed, and neither succeeded since (history)
    behind,    \* memory was changed by an update nobody waits for any more,
               \* and the phone was told nothing since (history)
    slipped,   \* sources whose pipeline was registered behind a change (history)
    installs,  \* the updates in the order in which they took effect (history)
    acked      \* the update acknowledged last (history)

store   == << file, memory, lock, thread, installs >>
audio   == << making, pipes, slipped >>
phone   == << form, linked, acked, behind >>
process == << env, providers, starts, running >>

vars == << process, store, reader, audio, phone, unsaved >>

-----------------------------------------------------------------------------
Known == Updates \cup {None}
Unknown == "unknown"

Missing == [wire |-> None, rest |-> "missing"]
Config == [wire : Known, rest : {"user", "template", "builtin", "missing"}]
Builtin == [wire |-> None, rest |-> "builtin"]

Stages == {"unsent", "waiting", "saving", "notifying", "applied", "unsaved", "rejected", "over"}

TypeOK ==
    /\ env \in [set : Environments, primary : Preferences]
    /\ file \in Config /\ memory \in Config
    /\ lock \in Known
    /\ acked \in Known
    /\ thread \in [Updates -> Stages]
    /\ reader \in Known
    /\ making \in [Sources -> Known \cup {Unknown}]
    /\ pipes \in [Sources -> Known \cup {Unknown}]
    /\ form \in Known \cup {Unknown}
    /\ linked \in BOOLEAN /\ running \in BOOLEAN /\ unsaved \in BOOLEAN
    /\ starts \in 0..MaxStarts
    /\ behind \in BOOLEAN
    /\ installs \in Seq(Updates)
    /\ slipped \subseteq Sources

\* Before anything is loaded.
NoProviders == ToConfig(Raw([b \in Blocks |-> {}]), "main")

\* Nobody has made a pipeline yet.
NoPipes == [s \in Sources |-> Unknown]

Init ==
    /\ env \in [set : Environments, primary : Preferences]
    /\ providers = NoProviders
    /\ \E rest \in {"user", "missing"} : file = [wire |-> None, rest |-> rest]
    /\ memory = Builtin
    /\ lock = None
    /\ thread = [u \in Updates |-> "unsent"]
    /\ reader = None
    /\ making = NoPipes
    /\ pipes = NoPipes
    /\ form = Unknown
    /\ linked = FALSE
    /\ starts = 0
    /\ running = FALSE
    /\ unsaved = FALSE
    /\ behind = FALSE
    /\ installs = << >>
    /\ slipped = {}
    /\ acked = None

-----------------------------------------------------------------------------
(* The life of the program.                                                *)

\* ConfigStore.__init__: without a file the template is copied; what cannot be
\* created, read or parsed is replaced by the built-in values in memory.
Load ==
    \/ /\ file = Missing
       /\ file' = [wire |-> None, rest |-> "template"]
       /\ memory' = file'
       /\ unsaved' = FALSE
    \/ /\ file # Missing
       /\ memory' = file
       /\ unsaved' = FALSE
       /\ UNCHANGED file
    \/ /\ memory' = Builtin
       /\ unsaved' = TRUE
       /\ UNCHANGED file

\* DesktopApplication.build
Start ==
    /\ ~running
    /\ starts < MaxStarts
    /\ starts' = starts + 1
    /\ running' = TRUE
    /\ providers' = LoadEnv(env.set, env.primary)
    /\ Load
    /\ UNCHANGED << env, lock, thread, installs, reader, audio, phone >>

\* The program ends or is killed; its threads end with it.
Stop ==
    /\ running
    /\ running' = FALSE
    /\ linked' = FALSE
    /\ lock' = None
    /\ reader' = None
    /\ thread' = [u \in Updates |-> IF thread[u] = "unsent" THEN "unsent" ELSE "over"]
    /\ making' = NoPipes
    /\ pipes' = NoPipes
    /\ slipped' = {}
    /\ form' = Unknown
    /\ behind' = FALSE
    /\ UNCHANGED << env, providers, starts, file, memory, installs, acked, unsaved >>

\* The relay connects the phone, and the phone's settings page asks.
Connect ==
    /\ running
    /\ ~linked
    /\ linked' = TRUE
    /\ UNCHANGED << process, store, reader, audio, form, acked, behind, unsaved >>

\* The session ends: its reader is cancelled, the thread goes on.  What the
\* phone was told over it no longer counts.
Disconnect ==
    /\ linked
    /\ linked' = FALSE
    /\ reader' = None
    /\ form' = Unknown
    /\ UNCHANGED << process, store, audio, acked, behind, unsaved >>

-----------------------------------------------------------------------------
(* The store.                                                              *)

\* handle_settings_update starts the thread.
ReceiveUpdate(u) ==
    /\ linked
    /\ reader = None
    /\ thread[u] = "unsent"
    /\ thread' = [thread EXCEPT ![u] = "waiting"]
    /\ reader' = u
    /\ UNCHANGED << process, file, memory, lock, installs, audio, phone, unsaved >>

\* wire_settings_to_patch and deep_merge: the phone's part is replaced.
Merged(config, u) == [config EXCEPT !.wire = u]

\* AppConfig.to_wire_settings
Wire(config) == config.wire

\* ConfigStore.config takes the lock.
Readable == lock = None

\* ConfigStore.update: merged, validated and installed under the lock.
Install(u) ==
    /\ thread[u] = "waiting"
    /\ lock = None
    /\ IF u \in Invalid
         THEN /\ thread' = [thread EXCEPT ![u] = "rejected"]
              /\ UNCHANGED << memory, lock, installs, behind >>
         ELSE /\ memory' = Merged(memory, u)
              /\ installs' = Append(installs, u)
              /\ behind' = (reader # u \/ behind)
              /\ lock' = u
              /\ thread' = [thread EXCEPT ![u] = "saving"]
    /\ UNCHANGED << process, file, reader, audio, form, linked, acked, unsaved >>

\* Seeded fault: a failed save is taken for a success.
SaveHopeful(u) ==
    /\ thread[u] = "saving"
    /\ file' \in {memory, file}
    /\ unsaved' = (file' # memory)
    /\ thread' = [thread EXCEPT ![u] = "notifying"]
    /\ UNCHANGED << process, memory, lock, installs, reader, audio, phone >>

\* save: the file is replaced as a whole, or stays as it was; then the lock is
\* released and nobody is notified.
Save(u) ==
    /\ thread[u] = "saving"
    /\ \/ /\ file' = memory
          /\ unsaved' = FALSE
          /\ thread' = [thread EXCEPT ![u] = "notifying"]
          /\ UNCHANGED lock
       \/ /\ unsaved' = TRUE
          /\ thread' = [thread EXCEPT ![u] = "unsaved"]
          /\ lock' = None
          /\ UNCHANGED file
    /\ UNCHANGED << process, memory, installs, reader, audio, phone >>

\* Seeded fault: only sources that have no settings yet are told.
NotifyNew(u) ==
    /\ thread[u] = "notifying"
    /\ pipes' = [s \in Sources |-> IF pipes[s] = None THEN memory.wire ELSE pipes[s]]
    /\ thread' = [thread EXCEPT ![u] = "applied"]
    /\ lock' = None
    /\ slipped' = {}
    /\ UNCHANGED << process, file, memory, installs, reader, making, phone, unsaved >>

\* apply_config: every pipeline that is registered gets the settings.
Applied(pipe) == IF pipe = Unknown THEN Unknown ELSE Wire(memory)

\* _notify_locked; then the lock is released.
Notify(u) ==
    /\ thread[u] = "notifying"
    /\ pipes' = [s \in Sources |-> Applied(pipes[s])]
    /\ thread' = [thread EXCEPT ![u] = "applied"]
    /\ lock' = None
    /\ slipped' = {}
    /\ UNCHANGED << process, file, memory, installs, reader, making, phone, unsaved >>

\* push: the phone is told what is in memory, after an error message if the
\* update failed; the property reads the store under its lock.
Push == form' = Wire(memory) /\ behind' = FALSE

Answer(u) ==
    /\ reader = u
    /\ Readable
    /\ thread[u] \in {"applied", "unsaved", "rejected"}
    /\ Push
    /\ acked' = IF thread[u] = "applied" THEN u ELSE acked
    /\ thread' = [thread EXCEPT ![u] = "over"]
    /\ reader' = None
    /\ UNCHANGED << process, file, memory, lock, installs, audio, linked, unsaved >>

\* handle_settings_get, when the page is opened.
ReceiveGet ==
    /\ linked
    /\ reader = None
    /\ Readable
    /\ Push
    /\ UNCHANGED << process, store, reader, audio, linked, acked, unsaved >>

-----------------------------------------------------------------------------
(* The pipelines, made on the loop while a thread may hold the store.      *)

\* _run_microphone, _run_loopback: the settings are read, once per restart.  No
\* await lies between that and the registration, but update runs in a thread.
ReadSettings(s) ==
    /\ running
    /\ Readable
    /\ making[s] = Unknown
    /\ making' = [making EXCEPT ![s] = Wire(memory)]
    /\ UNCHANGED << process, store, reader, pipes, slipped, phone, unsaved >>

\* create_pipeline: the pipeline is registered with the settings read before.
Register(s) ==
    /\ making[s] # Unknown
    /\ pipes' = [pipes EXCEPT ![s] = making[s]]
    /\ making' = [making EXCEPT ![s] = Unknown]
    /\ slipped' = IF making[s] = memory.wire THEN slipped \ {s} ELSE slipped \cup {s}
    /\ UNCHANGED << process, store, reader, phone, unsaved >>

-----------------------------------------------------------------------------
ThreadTurn(u) == Install(u) \/ Save(u) \/ Notify(u)

Next ==
    \/ Start \/ Stop \/ Connect \/ Disconnect
    \/ \E u \in Updates : ReceiveUpdate(u) \/ ThreadTurn(u) \/ Answer(u)
    \/ ReceiveGet
    \/ \E s \in Sources : ReadSettings(s) \/ Register(s)

Spec == Init /\ [][Next]_vars

-----------------------------------------------------------------------------
(* Properties.                                                             *)

\* Only a failed save or a misread file can drive memory and file apart.
FileAgrees == running /\ ~unsaved => memory = file

\* Pipelines work with the settings in memory, but for one that was being made
\* while they changed: it keeps the settings it was made with.
PipelinesFollow ==
    ~unsaved => \A s \in Sources : pipes[s] \in {Unknown, memory.wire} \/ s \in slipped

\* The phone was told what is in memory, also after an update that was refused
\* or could not be saved.
FormAgrees ==
    linked /\ reader = None /\ form # Unknown /\ ~behind => form = memory.wire

\* Between updates the settings in memory, in the file, in the pipelines and on
\* the phone are the same, however updates of lost connections, failed saves
\* and restarts of the program and of a pipeline fall together.
SettingsAgree == lock = None => FileAgrees /\ PipelinesFollow /\ FormAgrees

\* An update that was acknowledged without an error is in the file, through
\* crashes and restarts, until one that took effect later replaces it.
AckSurvives ==
    acked # None =>
        \E i, j \in 1..Len(installs) :
            i <= j /\ installs[i] = acked /\ installs[j] = file.wire

\* Where a question about the conversation can be answered, so can one about a
\* screenshot, whichever variables are set under whichever names.
VisionAnswers ==
    Answerable(providers, "conversation") => Answerable(providers, "screenshot")

\* Screenshots use the provider of the conversation, also after LLM_PRIMARY has
\* swapped it, unless VISION_* says otherwise (env.py:284, test_env_primary.py:5).
VisionFollows ==
    env.set["VISION"] = {} => providers["screenshot"].first = providers["conversation"].first
=============================================================================
