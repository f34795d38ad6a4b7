--------------------------- MODULE MCConfiguration ---------------------------
(* Small instances of Configuration for TLC. *)
EXTENDS Configuration

CONSTANTS first, second, wrong, mic

ThreeUpdates == {first, second, wrong}
OneWrong     == {wrong}
OneSource    == {mic}

\* Blocks that are filled in, in part or not at all.
Environment(main, legacy, vision, backup) ==
    [b \in Blocks |-> CASE b = "LLM" -> main [] b = "MODEL" -> legacy
                       [] b = "VISION" -> vision [] b = "BK_MODEL" -> backup [] OTHER -> {}]

\* A .env made from the example, a legacy one, or both; with a backup or not.
SomeEnvironments ==
    { Environment({}, Fields, {"model"}, {}),
      Environment({}, Fields, {}, Fields),
      Environment({"url", "model"}, Fields, {"model"}, Fields),
      Environment({"url", "model"}, {}, {"url"}, Fields) }

SomePreferences == {"main", "backup"}

OneEnvironment == { Environment({}, Fields, {}, Fields) }
==============================================================================
