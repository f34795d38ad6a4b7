----------------------------- MODULE MCLlmRunner -----------------------------
(* Small instances of LlmRunner for TLC. *)
EXTENDS LlmRunner, TLC

CONSTANTS ask1, ask2, hot1

\* Two questions of the phone, the second about a screenshot.
AskedTwice == {ask1, ask2}
ByHotkey   == {hot1}

Pictures == {ask2}
NoPictures == {}

\* A backup provider for the first question, none for the second.
BackupForFirst == (ask1 :> 2) @@ (ask2 :> 1)

\* A question of the phone and one asked by hotkey, each with a backup.
BackupForBoth == (ask2 :> 2) @@ (hot1 :> 2)
=============================================================================
