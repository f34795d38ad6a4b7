-------------------------- MODULE MCConversationSync --------------------------
(* Small instances of ConversationSync for TLC. *)
EXTENDS ConversationSync, TLC

CONSTANTS s1, s2

TwoSentences == {s1, s2}

Alike == Permutations(TwoSentences)
===============================================================================
