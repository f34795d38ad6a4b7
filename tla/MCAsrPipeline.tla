---------------------------- MODULE MCAsrPipeline ----------------------------
(* Small instances of AsrPipeline for TLC. *)
EXTENDS AsrPipeline
=============================================================================
