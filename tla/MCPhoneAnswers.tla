---------------------------- MODULE MCPhoneAnswers ----------------------------
(* Small instances of PhoneAnswers for TLC. *)
EXTENDS PhoneAnswers

CONSTANTS q1, q2, h1

TwoQuestions == {q1, q2}
OneHotkey    == {h1}
=============================================================================
