------------------------------ MODULE Providers ------------------------------
(***************************************************************************)
(* Which language model endpoints the desktop uses (config/env.py).  Names *)
(* of environment variables come in blocks of three (key, address, model); *)
(* the value of a variable is abstracted to the block it was set in, so    *)
(* that a credential shows where each of its parts comes from.             *)
(***************************************************************************)

Unset == "unset"

Blocks == {"LLM", "MODEL", "VISION", "BK_LLM", "BK_MODEL", "BK_VISION"}
Fields == {"key", "url", "model"}

\* LLM_PRIMARY: the main block, the backup block, or the model of a block by
\* its name.
Primaries == {"main", "backup"} \cup Blocks

\* The environment in which the variables of set[b] have a value.
Raw(set) == [b \in Blocks |-> [f \in Fields |-> IF f \in set[b] THEN b ELSE Unset]]

\* Seeded fault: a credential is filled up only when it is empty throughout.
OverWhole(own, shared) == IF \A f \in Fields : own[f] = Unset THEN shared ELSE own

\* _RawEnv._first, part by part.
Over(own, shared) == [f \in Fields |-> IF own[f] # Unset THEN own[f] ELSE shared[f]]

\* prime_environment: the legacy names stand in for the current ones.
Primed(raw) == [raw EXCEPT !["LLM"]    = Over(@, raw["MODEL"]),
                           !["VISION"] = Over(@, raw["MODEL"])]

\* _backup_is_primary; a name is looked for in the backup's model.
BackupIsPrimary(primary, backup) ==
    primary = "backup" \/ (primary # "main" /\ backup.model = primary)

\* _RawEnv.to_config
ToConfig(raw, primary) ==
    LET main    == Over(raw["LLM"], raw["MODEL"])
        backup  == Over(raw["BK_LLM"], raw["BK_MODEL"])
        swapped == BackupIsPrimary(primary, backup)
        llm     == IF swapped THEN backup ELSE main
        other   == IF swapped THEN main ELSE backup
    IN  [ conversation |-> [first |-> llm, second |-> other],
          screenshot   |-> [first  |-> Over(raw["VISION"], llm),
                            second |-> Over(raw["BK_VISION"], other)] ]

\* load_env_config
LoadEnv(set, primary) == ToConfig(Primed(Raw(set)), primary)

IsConfigured(provider) == \A f \in Fields : provider[f] # Unset

\* EnvConfig.fallback_for
HasFallback(config, mode) ==
    /\ IsConfigured(config[mode].second)
    /\ config[mode].second # config[mode].first

\* LlmRunner.submit turns a question down when there is nothing to ask.
Answerable(config, mode) ==
    IsConfigured(config[mode].first) \/ HasFallback(config, mode)
=============================================================================
