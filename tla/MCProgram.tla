------------------------------ MODULE MCProgram ------------------------------
(* Small instances of Program for TLC. *)
EXTENDS Program

CONSTANTS relay, mic, capture1

TwoSubsystems == {relay, mic}

OneWork == {capture1}
=============================================================================
