-------------------------- MODULE MCScreenshotStore --------------------------
(* Small instances of ScreenshotStore for TLC. *)
EXTENDS ScreenshotStore, TLC

CONSTANTS shot1, shot2

TwoShots == {shot1, shot2}

Alike == Permutations(TwoShots)
==============================================================================
