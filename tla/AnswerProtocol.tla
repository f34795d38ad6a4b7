---------------------------- MODULE AnswerProtocol ----------------------------
(***************************************************************************)
(* What the phone is promised about each answer it asks for, without any   *)
(* mention of tasks, slots or providers: an answer is opened once, its     *)
(* text only grows, the text is saved exactly as shown before the ending   *)
(* is announced, and the announced ending is the saved one.                *)
(***************************************************************************)
EXTENDS Naturals, Sequences

CONSTANTS
    Answers,  \* the requests
    Pieces    \* what a piece of text may be

VARIABLES
    view,   \* how the phone sees the answer
    text,   \* the text shown so far
    saved   \* the stored answer

vars == << view, text, saved >>

Outcomes == {"done", "error", "cancelled"}
Unsaved == [status |-> "none", text |-> << >>]
Lost    == [status |-> "lost", text |-> << >>]

Init ==
    /\ view = [a \in Answers |-> "unseen"]
    /\ text = [a \in Answers |-> << >>]
    /\ saved = [a \in Answers |-> Unsaved]

\* Turned down without being opened.
Refuse(a) ==
    /\ view[a] = "unseen"
    /\ view' = [view EXCEPT ![a] = "error"]
    /\ UNCHANGED << text, saved >>

\* Stopped without ever having been opened: nothing to show, nothing to save.
Withdraw(a) ==
    /\ view[a] = "unseen"
    /\ view' = [view EXCEPT ![a] = "cancelled"]
    /\ UNCHANGED << text, saved >>

Open(a) ==
    /\ view[a] = "unseen"
    /\ view' = [view EXCEPT ![a] = "open"]
    /\ UNCHANGED << text, saved >>

Extend(a) ==
    /\ view[a] = "open"
    /\ saved[a] = Unsaved
    /\ \E p \in Pieces : text' = [text EXCEPT ![a] = Append(@, p)]
    /\ UNCHANGED << view, saved >>

\* The text is final.  A cancelled answer is announced later, on its own.
Settle(a, outcome) ==
    /\ view[a] = "open"
    /\ saved[a] = Unsaved
    /\ \E s \in {[status |-> outcome, text |-> text[a]], Lost} :
            saved' = [saved EXCEPT ![a] = s]
    /\ view' = IF outcome = "cancelled" THEN view ELSE [view EXCEPT ![a] = outcome]
    /\ UNCHANGED text

AnnounceCancelled(a) ==
    /\ view[a] = "open"
    /\ saved[a].status \in {"cancelled", "lost"}
    /\ view' = [view EXCEPT ![a] = "cancelled"]
    /\ UNCHANGED << text, saved >>

Next ==
    \E a \in Answers :
        \/ Refuse(a) \/ Withdraw(a) \/ Open(a) \/ Extend(a) \/ AnnounceCancelled(a)
        \/ \E outcome \in Outcomes : Settle(a, outcome)

Spec == Init /\ [][Next]_vars
=============================================================================
