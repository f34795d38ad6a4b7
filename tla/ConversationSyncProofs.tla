------------------------ MODULE ConversationSyncProofs ------------------------
(***************************************************************************)
(* Proofs about ConversationSync, for any number of sentences, presses and *)
(* lost connections: the types, for which cause a sentence is shown twice, *)
(* that answers go with their sentences, and that the phone follows the    *)
(* store.                                                                  *)
(***************************************************************************)
EXTENDS ConversationSync, FiniteSetTheorems, TLAPS

-----------------------------------------------------------------------------
(* Types.                                                                  *)

\* What travels.
Feed == [type : {"partial", "final", "history", "cleared"}, about : SUBSET Sentences]
Asked == [type : {"clear", "history", "ask"}, about : SUBSET Sentences]

LEMMA QueuesTyped ==
    ASSUME TypeOK
    PROVE  down \in Seq(Feed) /\ up \in Seq(Asked) /\ finals \in Seq(Sentences)
  BY DEF TypeOK, Feed, Asked

\* The head and the rest of a queue.
LEMMA HeadAndTail ==
    ASSUME NEW S, NEW queue \in Seq(S), queue # << >>
    PROVE  /\ Head(queue) \in S /\ Tail(queue) \in Seq(S)
           /\ 1 \in DOMAIN queue /\ Head(queue) = queue[1]
           /\ \A i \in DOMAIN Tail(queue) :
                 i \in Nat /\ i + 1 \in DOMAIN queue /\ Tail(queue)[i] = queue[i + 1]
  BY SMT

LEMMA InitTyped == Init => TypeOK
<1> SUFFICES ASSUME Init PROVE TypeOK
  OBVIOUS
<1>1. finals \in Seq(Sentences) /\ up \in Seq(Asked) /\ down \in Seq(Feed)
  BY DEF Init
<1>2. presses \in 0..MaxPresses /\ cuts \in 0..MaxCuts
  BY ConversationSyncAssumption, SMT DEF Init
<1>3. QED
  BY <1>1, <1>2 DEF Init, TypeOK, Asked, Feed

LEMMA EmitTyped ==
    ASSUME TypeOK, NEW type \in {"partial", "final", "history", "cleared"},
           NEW about \in SUBSET Sentences, Emit(type, about)
    PROVE  down' \in Seq(Feed)
<1>1. Item(type, about) \in Feed /\ down \in Seq(Feed)
  BY DEF Item, Feed, TypeOK
<1>2. QED
  BY <1>1 DEF Emit

LEMMA SendTyped ==
    ASSUME TypeOK, NEW type \in {"clear", "history", "ask"}, NEW about \in SUBSET Sentences
    PROVE  /\ Append(up, Item(type, about)) \in Seq(Asked)
           /\ Send(type, about) => TypeOK'
<1>1. Item(type, about) \in Asked /\ up \in Seq(Asked)
  BY DEF Item, Asked, TypeOK
<1>2. Append(up, Item(type, about)) \in Seq(Asked)
  BY <1>1
<1>3. ASSUME Send(type, about) PROVE TypeOK'
  <2>1. presses' \in 0..MaxPresses
    BY <1>3, ConversationSyncAssumption DEF Send, TypeOK
  <2>2. up' \in Seq(Asked)
    BY <1>2, <1>3 DEF Send
  <2>3. QED
    BY <1>3, <2>1, <2>2 DEF Send, TypeOK, Asked, speech, store, history
<1>4. QED
  BY <1>2, <1>3

LEMMA SpeechTyped ==
    ASSUME TypeOK,
           (\E s \in Sentences : Hear(s) \/ Finish(s) \/ SaveAnswer(s)) \/ Store \/ Refuse \/ Announce
    PROVE  TypeOK'
<1>1. finals # << >> => Head(finals) \in Sentences /\ Tail(finals) \in Seq(Sentences)
  BY HeadAndTail, QueuesTyped
<1>2. ASSUME NEW s \in Sentences, Hear(s) PROVE TypeOK'
  BY <1>2, EmitTyped DEF Hear, TypeOK, Feed, store, bounds, history
<1>3. ASSUME NEW s \in Sentences, Finish(s) PROVE TypeOK'
  <2>1. Append(finals, s) \in Seq(Sentences)
    BY QueuesTyped
  <2>2. CASE talk' = [talk EXCEPT ![s] = "queued"] /\ finals' = Append(finals, s) /\ UNCHANGED missed
    BY <1>3, <2>1, <2>2 DEF Finish, TypeOK, store, channel, bounds
  <2>3. CASE talk' = [talk EXCEPT ![s] = "over"] /\ missed' = missed \cup {s} /\ UNCHANGED finals
    BY <1>3, <2>3 DEF Finish, TypeOK, store, channel, bounds
  <2>4. QED
    BY <1>3, <2>2, <2>3 DEF Finish
<1>4. ASSUME NEW s \in Sentences, SaveAnswer(s) PROVE TypeOK'
  BY <1>4 DEF SaveAnswer, TypeOK, speech, channel, bounds, history
<1>5. CASE Store
  BY <1>1, <1>5 DEF Store, TypeOK, channel, bounds
<1>6. CASE Refuse
  BY <1>1, <1>6 DEF Refuse, TypeOK, store, channel, bounds
<1>7. CASE Announce
  <2>1. down' \in Seq(Feed)
    BY <1>1, <1>7, EmitTyped DEF Announce
  <2>2. QED
    BY <1>1, <1>7, <2>1 DEF Announce, TypeOK, Feed, store, bounds
<1>8. QED
  BY <1>2, <1>3, <1>4, <1>5, <1>6, <1>7

LEMMA MarksTyped ==
    ASSUME TypeOK, NEW statement, NEW last, rows' \subseteq Sentences
    PROVE  /\ StaleBy(statement, last) \subseteq Sentences
           /\ LateBy(statement, last) \subseteq Sentences
           /\ Rowless \subseteq Sentences
<1>1. Rowless \subseteq Sentences /\ Rowless' \subseteq Sentences
  BY DEF Rowless
<1>2. QED
  BY <1>1, SMT DEF StaleBy, LateBy, TypeOK

LEMMA HandlersTyped ==
    ASSUME TypeOK, Dispatch \/ HandlerStep \/ HandlerFails \/ StrayStep
    PROVE  TypeOK'
<1>1. CASE Dispatch
  <2>1. Head(up) \in Asked /\ Tail(up) \in Seq(Asked)
    BY <1>1, HeadAndTail, QueuesTyped DEF Dispatch
  <2>2. reader' \in {"none", "query", "wipe", "answers"} /\ asked' \subseteq Sentences
    BY <1>1, <2>1 DEF Dispatch, TypeOK, Asked
  <2>3. QED
    BY <1>1, <2>1, <2>2 DEF Dispatch, TypeOK, Asked, speech, store, bounds, history
<1>2. CASE HandlerStep
  <2>1. rows' \subseteq Sentences /\ answers' \subseteq Sentences
    BY <1>2 DEF HandlerStep, Work, TypeOK
  <2>2. down' \in Seq(Feed)
    <3>1. UNCHANGED down \/ Emit("cleared", {}) \/ Emit("history", rows)
      BY <1>2 DEF HandlerStep, TypeOK, Recent
    <3>2. QED
      BY <3>1, EmitTyped DEF TypeOK, Feed
  <2>3. stale' \subseteq Sentences /\ late' \subseteq Sentences
    BY <1>2, <2>1, MarksTyped DEF HandlerStep, TypeOK
  <2>4. QED
    BY <1>2, <2>1, <2>2, <2>3 DEF HandlerStep, TypeOK, Feed, bounds
<1>3. CASE HandlerFails
  <2>1. Rowless \subseteq Sentences
    BY DEF Rowless
  <2>2. QED
    BY <1>3, <2>1 DEF HandlerFails, TypeOK, speech, store, channel, bounds
<1>4. CASE StrayStep
  <2>1. rows' \subseteq Sentences /\ answers' \subseteq Sentences
    BY <1>4 DEF StrayStep, Work, TypeOK
  <2>2. stale' \subseteq Sentences /\ late' \subseteq Sentences
    BY <1>4, <2>1, MarksTyped DEF StrayStep, TypeOK
  <2>3. QED
    BY <1>4, <2>1, <2>2 DEF StrayStep, TypeOK, channel, bounds
<1>5. QED
  BY <1>1, <1>2, <1>3, <1>4

LEMMA DeliverTyped == ASSUME TypeOK, Deliver PROVE TypeOK'
<1> DEFINE event == Head(down)
           On(bubbles) == CASE event.type = "partial" -> AfterPartial(bubbles)
                            [] event.type = "final"   -> AfterFinal(bubbles)
                            [] event.type = "history" -> AfterHistory(bubbles)
<1>1. event \in Feed /\ Tail(down) \in Seq(Feed)
  BY HeadAndTail, QueuesTyped DEF Deliver
<1>2. /\ page' = IF event.type = "cleared"
                   THEN [s \in Sentences |-> {}]
                   ELSE [s \in Sentences |-> IF s \in event.about THEN On(page[s]) ELSE page[s]]
      /\ doubled' = IF event.type = "history"
                      THEN doubled \cup {s \in event.about : page[s] = {"heard"}} ELSE doubled
      /\ down' = Tail(down)
      /\ UNCHANGED << talk, finals, rows, answers, asked, reader, stray, link, up, presses, cuts,
                      missed, stale, late >>
  BY DEF Deliver, speech, store, bounds
<1> HIDE DEF event
<1>3. ASSUME NEW s \in Sentences PROVE page'[s] \in SUBSET Bubbles
  <2>1. page[s] \in SUBSET Bubbles
    BY DEF TypeOK
  <2>2. /\ AfterPartial(page[s]) \in SUBSET Bubbles
        /\ AfterFinal(page[s]) \in SUBSET Bubbles
        /\ AfterHistory(page[s]) \in SUBSET Bubbles
    BY <2>1, SMT DEF AfterPartial, AfterFinal, AfterHistory, Bubbles
  <2>3. event.type \in {"partial", "final", "history"} => On(page[s]) \in SUBSET Bubbles
    BY <2>2
  <2>4. event.type \in {"partial", "final", "history", "cleared"}
    BY <1>1 DEF Feed
  <2> HIDE DEF On
  <2>5. CASE event.type = "cleared"
    BY <1>2, <2>5
  <2>6. CASE event.type # "cleared" /\ s \in event.about
    BY <1>2, <2>3, <2>4, <2>6
  <2>7. CASE event.type # "cleared" /\ s \notin event.about
    BY <1>2, <2>1, <2>7
  <2>8. QED
    BY <2>5, <2>6, <2>7
<1> HIDE DEF On
<1>4. page' \in [Sentences -> SUBSET Bubbles]
  BY <1>2, <1>3
<1>5. doubled' \subseteq Sentences
  BY <1>1, <1>2 DEF TypeOK, Feed
<1>6. QED
  BY <1>1, <1>2, <1>4, <1>5 DEF TypeOK, Feed

LEMMA DropDownTyped ==
    ASSUME TypeOK, NEW gone \in BOOLEAN, DropDown(gone)
    PROVE  down' \in Seq(Feed) /\ missed' \subseteq Sentences /\ stale' \subseteq Sentences
<1>1. down \in Seq(Feed)
  BY DEF TypeOK, Feed
<1>2. down' \in Seq(Feed)
  BY <1>1 DEF DropDown
<1>3. \A i \in DOMAIN down : down[i].about \subseteq Sentences
  <2>1. \A i \in DOMAIN down : down[i] \in Feed
    BY <1>1
  <2>2. QED
    BY <2>1 DEF Feed
<1>4. missed' \subseteq Sentences
  BY <1>3 DEF DropDown, TypeOK
<1>5. stale' \subseteq Sentences
  BY DEF DropDown, TypeOK, Rowless
<1>6. QED
  BY <1>2, <1>4, <1>5

LEMMA CutsTyped ==
    ASSUME TypeOK, CutPhone \/ CutPc \/ Crash \/ Rejoin
    PROVE  TypeOK'
<1>1. << >> \in Seq(Asked) /\ << >> \in Seq(Sentences) /\ up \in Seq(Asked)
  BY DEF TypeOK, Asked
<1>2. cuts < MaxCuts => cuts + 1 \in 0..MaxCuts
  BY ConversationSyncAssumption DEF TypeOK
<1>3. CASE CutPhone
  <2>1. up' \in Seq(Asked) /\ cuts' \in 0..MaxCuts
    BY <1>1, <1>2, <1>3 DEF CutPhone
  <2>2. down' \in Seq(Feed) /\ missed' \subseteq Sentences /\ stale' \subseteq Sentences
    BY <1>3, DropDownTyped DEF CutPhone
  <2>3. QED
    BY <1>3, <2>1, <2>2 DEF CutPhone, TypeOK, Asked, Feed, speech, store
<1>4. CASE CutPc
  <2>1. up' \in Seq(Asked) /\ cuts' \in 0..MaxCuts
    BY <1>1, <1>2, <1>4 DEF CutPc
  <2>2. down' \in Seq(Feed) /\ missed' \subseteq Sentences /\ stale' \subseteq Sentences
    BY <1>4, DropDownTyped DEF CutPc
  <2>3. QED
    BY <1>4, <2>1, <2>2 DEF CutPc, TypeOK, Asked, Feed, speech, store
<1>5. CASE Crash
  <2>1. up' \in Seq(Asked) /\ cuts' \in 0..MaxCuts /\ finals' \in Seq(Sentences)
    BY <1>1, <1>2, <1>5 DEF Crash
  <2>2. missed' \subseteq Sentences /\ stale' \subseteq Sentences /\ late' \subseteq Sentences
    BY <1>5 DEF Crash, TypeOK, Rowless
  <2>3. QED
    BY <1>5, <2>1, <2>2 DEF Crash, TypeOK, Asked, store
<1>6. CASE Rejoin
  <2>1. up' \in Seq(Asked)
    BY <1>1, <1>6, SendTyped DEF Rejoin
  <2>2. QED
    BY <1>6, <2>1 DEF Rejoin, TypeOK, Asked, speech, store, bounds, history
<1>7. QED
  BY <1>3, <1>4, <1>5, <1>6

LEMMA StepTyped == TypeOK /\ [Next]_vars => TypeOK'
<1> SUFFICES ASSUME TypeOK, [Next]_vars PROVE TypeOK'
  OBVIOUS
<1>1. ASSUME NEW s \in Sentences, Ask(s) PROVE TypeOK'
  BY <1>1, SendTyped DEF Ask
<1>2. CASE PressClear
  BY <1>2, SendTyped DEF PressClear
<1>3. CASE UNCHANGED vars
  BY <1>3 DEF vars, speech, store, channel, bounds, history, TypeOK
<1>4. QED
  BY <1>1, <1>2, <1>3, SpeechTyped, HandlersTyped, DeliverTyped, CutsTyped DEF Next

\* Every variable keeps its type, for any number of sentences and commands.
THEOREM TypeCorrect == Spec => []TypeOK
<1>1. QED
  BY InitTyped, StepTyped, PTL DEF Spec

-----------------------------------------------------------------------------
(* The inductive invariant.                                                *)

\* Nothing more is heard of a sentence that is through with its recogniser.
Through(s) == talk[s] \notin {"new", "heard"}

Names(event, type, s) == event.type = type /\ s \in event.about

\* No partial of the sentence comes after this place of the queue.
NoPartialAfter(i, s) == \A j \in DOMAIN down : j > i => ~Names(down[j], "partial", s)

StoredIsThrough == \A s \in rows : Through(s)

\* A history names sentences whose partials are before it.
HistoryInv ==
    \A i \in DOMAIN down, s \in Sentences :
        Names(down[i], "history", s) => Through(s) /\ NoPartialAfter(i, s)

\* So does the page that has taken one.
CopyInv ==
    \A s \in Sentences : "copy" \in page[s] => Through(s) /\ NoPartialAfter(0, s)

SingleBubble ==
    \A s \in Sentences : page[s] \in {{}, {"heard"}, {"final"}, {"copy"}} \/ s \in doubled

ShownInv ==
    TypeOK /\ StoredIsThrough /\ HistoryInv /\ CopyInv /\ SingleBubble

LEMMA InitShownInv == Init => ShownInv
  BY InitTyped, SMT DEF Init, ShownInv, StoredIsThrough, HistoryInv, CopyInv, SingleBubble

-----------------------------------------------------------------------------
(* The queue of events.                                                    *)

\* Steps that leave the queue alone or empty it, and add nothing to the rows or
\* to the page, only have to keep sentences through.
LEMMA QuietStep ==
    ASSUME ShownInv, down' \in {down, << >>}, page' = page, doubled' = doubled,
           TypeOK',
           \A s \in Sentences : Through(s) => Through(s)',
           \A s \in rows' : Through(s)'
    PROVE  ShownInv'
<1>1. StoredIsThrough' /\ SingleBubble'
  BY DEF ShownInv, StoredIsThrough, SingleBubble
<1>2. CASE down' = down
  BY <1>1, <1>2 DEF ShownInv, HistoryInv, CopyInv, NoPartialAfter
<1>3. CASE down' = << >>
  BY <1>1, <1>3 DEF ShownInv, HistoryInv, CopyInv, NoPartialAfter
<1>4. QED
  BY <1>2, <1>3

\* What emit may add to the queue.
LEMMA EmitStep ==
    ASSUME ShownInv, NEW type \in {"partial", "final", "history", "cleared"},
           NEW about \in SUBSET Sentences, Emit(type, about),
           page' = page, doubled' = doubled,
           TypeOK',
           \A s \in Sentences : Through(s) => Through(s)',
           \A s \in rows' : Through(s)',
           type = "partial" => \A s \in about : ~Through(s),
           type = "history" => \A s \in about : Through(s)'
    PROVE  ShownInv'
<1> DEFINE item == Item(type, about)
<1>1. CASE down' = down
  BY <1>1, QuietStep
<1>2. CASE down' = Append(down, item)
  <2>1. item \in Feed
        /\ item.type = type /\ item.about = about
    BY DEF Item, Feed
  <2> HIDE DEF item
  <2>2. /\ down' \in Seq(Feed)
        /\ Len(down) \in Nat /\ DOMAIN down = 1..Len(down) /\ DOMAIN down' = 1..Len(down) + 1
        /\ \A i \in 1..Len(down) : down'[i] = down[i]
        /\ down'[Len(down) + 1] = item
    BY <1>2, <2>1, QueuesTyped, SMT DEF ShownInv
  <2>3. TypeOK' /\ StoredIsThrough' /\ SingleBubble'
    BY <2>2 DEF ShownInv, TypeOK, StoredIsThrough, SingleBubble
  <2>4. ASSUME NEW s \in Sentences, NEW i \in 0..Len(down), Through(s), NoPartialAfter(i, s)
        PROVE  NoPartialAfter(i, s)'
    <3>1. ASSUME NEW j \in DOMAIN down', j > i PROVE ~Names(down'[j], "partial", s)
      <4>1. CASE j \in 1..Len(down)
        BY <2>2, <2>4, <3>1, <4>1 DEF NoPartialAfter
      <4>2. CASE j = Len(down) + 1
        BY <2>1, <2>2, <2>4, <4>2 DEF Names
      <4>3. QED
        BY <2>2, <4>1, <4>2
    <3>2. QED
      BY <3>1 DEF NoPartialAfter
  <2>5. CopyInv'
    BY <2>2, <2>4 DEF ShownInv, CopyInv
  <2>6. HistoryInv'
    <3>1. SUFFICES ASSUME NEW i \in DOMAIN down', NEW s \in Sentences,
                          Names(down'[i], "history", s)
                   PROVE  Through(s)' /\ NoPartialAfter(i, s)'
      BY DEF HistoryInv
    <3>2. CASE i \in 1..Len(down)
      BY <2>2, <2>4, <3>1, <3>2 DEF ShownInv, HistoryInv
    <3>3. CASE i = Len(down) + 1
      BY <2>1, <2>2, <3>1, <3>3 DEF Names, NoPartialAfter
    <3>4. QED
      BY <2>2, <3>2, <3>3
  <2>7. QED
    BY <2>3, <2>5, <2>6 DEF ShownInv
<1>3. QED
  BY <1>1, <1>2 DEF Emit

\* The page takes the next event.
LEMMA DeliverStep ==
    ASSUME ShownInv, TypeOK', Deliver
    PROVE  ShownInv'
<1> DEFINE event == Head(down)
           On(bubbles) == CASE event.type = "partial" -> AfterPartial(bubbles)
                            [] event.type = "final"   -> AfterFinal(bubbles)
                            [] event.type = "history" -> AfterHistory(bubbles)
<1>1. /\ down # << >> /\ down' = Tail(down)
      /\ page' = IF event.type = "cleared"
                   THEN [s \in Sentences |-> {}]
                   ELSE [s \in Sentences |-> IF s \in event.about THEN On(page[s]) ELSE page[s]]
      /\ doubled' = IF event.type = "history"
                      THEN doubled \cup {s \in event.about : page[s] = {"heard"}} ELSE doubled
      /\ UNCHANGED << talk, finals, rows >>
  BY DEF Deliver, speech, store
<1>2. /\ event \in Feed
      /\ 1 \in DOMAIN down /\ event = down[1]
      /\ down' \in Seq(Feed)
      /\ \A i \in DOMAIN down' : i \in Nat /\ i + 1 \in DOMAIN down /\ down'[i] = down[i + 1]
  BY <1>1, HeadAndTail, QueuesTyped DEF ShownInv
<1> HIDE DEF event
<1>3. \A s \in Sentences : Through(s)' <=> Through(s)
  BY <1>1 DEF Through
<1>4. ASSUME NEW s \in Sentences, NEW i \in Nat, NoPartialAfter(i + 1, s) PROVE NoPartialAfter(i, s)'
  BY <1>2, <1>4, SMT DEF NoPartialAfter, Names
<1>5. HistoryInv'
  BY <1>2, <1>3, <1>4 DEF ShownInv, HistoryInv, Names
<1>6. ASSUME NEW s \in Sentences
      PROVE  /\ page'[s] \in SUBSET Bubbles
             /\ "copy" \in page'[s] => "copy" \in page[s] \/ Names(event, "history", s)
             /\ page'[s] \in {{}, {"heard"}, {"final"}, {"copy"}} \/ s \in doubled'
  <2>1. page[s] \in SUBSET Bubbles
    BY DEF ShownInv, TypeOK
  <2>2. page[s] \in {{}, {"heard"}, {"final"}, {"copy"}} \/ s \in doubled
    BY DEF ShownInv, SingleBubble
  <2>3. CASE event.type = "cleared" \/ s \notin event.about
    <3>1. page'[s] = {} \/ page'[s] = page[s]
      <4>1. CASE event.type = "cleared"
        BY <1>1, <4>1
      <4>2. CASE event.type # "cleared" /\ s \notin event.about
        BY <1>1, <4>2
      <4>3. QED
        BY <2>3, <4>1, <4>2
    <3>2. doubled \subseteq doubled'
      BY <1>1
    <3>3. QED
      BY <2>1, <2>2, <3>1, <3>2
  <2>4. CASE event.type # "cleared" /\ s \in event.about
    <3>1. page'[s] = On(page[s])
      BY <1>1, <2>4
    <3>2. CASE event.type = "partial"
      <4>1. "copy" \notin page[s]
        BY <1>2, <2>4, <3>2 DEF ShownInv, CopyInv, NoPartialAfter, Names
      <4>2. page'[s] = AfterPartial(page[s]) /\ doubled' = doubled
        BY <1>1, <3>1, <3>2
      <4>3. QED
        BY <2>1, <2>2, <4>1, <4>2, SMT DEF AfterPartial, Bubbles
    <3>3. CASE event.type = "final"
      <4>1. page'[s] = AfterFinal(page[s]) /\ doubled' = doubled
        BY <1>1, <3>1, <3>3
      <4>2. QED
        BY <2>1, <2>2, <4>1, SMT DEF AfterFinal, Bubbles
    <3>4. CASE event.type = "history"
      <4>1. page'[s] = AfterHistory(page[s]) /\ (page[s] = {"heard"} => s \in doubled')
            /\ doubled \subseteq doubled'
        BY <1>1, <2>4, <3>1, <3>4
      <4>2. QED
        BY <2>1, <2>2, <2>4, <3>4, <4>1, SMT DEF AfterHistory, Bubbles, Names
    <3>5. event.type \in {"partial", "final", "history", "cleared"}
      BY <1>2 DEF Feed
    <3>6. QED
      BY <2>4, <3>2, <3>3, <3>4, <3>5
  <2>5. QED
    BY <2>3, <2>4
<1> HIDE DEF On
<1>7. TypeOK' /\ StoredIsThrough' /\ SingleBubble'
  <2>1. page' \in [Sentences -> SUBSET Bubbles]
    BY <1>1, <1>6
  <2>2. QED
    BY <1>1, <1>2, <1>3, <1>6, <2>1 DEF ShownInv, TypeOK, StoredIsThrough, SingleBubble
<1>8. CopyInv'
  <2>1. SUFFICES ASSUME NEW s \in Sentences, "copy" \in page'[s]
                 PROVE  Through(s)' /\ NoPartialAfter(0, s)'
    BY DEF CopyInv
  <2>2. CASE "copy" \in page[s]
    <3>1. NoPartialAfter(1, s)
      BY <1>2, <2>2 DEF ShownInv, CopyInv, NoPartialAfter, TypeOK
    <3>2. QED
      BY <1>3, <1>4, <2>2, <3>1 DEF ShownInv, CopyInv
  <2>3. CASE Names(event, "history", s)
    BY <1>2, <1>3, <1>4, <2>3 DEF ShownInv, HistoryInv
  <2>4. QED
    BY <1>6, <2>1, <2>2, <2>3
<1>9. QED
  BY <1>5, <1>7, <1>8 DEF ShownInv

-----------------------------------------------------------------------------
(* The other steps.                                                        *)

\* What a step does to the rows and to the sentences, without the queue.
LEMMA SentenceStep ==
    ASSUME ShownInv, TypeOK', NEW s \in Sentences, Hear(s) \/ Finish(s) \/ SaveAnswer(s) \/ Ask(s)
    PROVE  ShownInv'
<1>1. CASE Hear(s)
  <2>1. /\ talk[s] = "new" /\ talk' = [talk EXCEPT ![s] = "heard"] /\ Emit("partial", {s})
        /\ UNCHANGED << finals, rows, page, doubled >>
    BY <1>1 DEF Hear, store, history
  <2>2. /\ talk' \in [Sentences -> {"new", "heard", "queued", "stored", "over"}]
        /\ \A t \in Sentences : Through(t) => Through(t)'
        /\ ~Through(s)
    BY <2>1 DEF ShownInv, TypeOK, Through
  <2>3. QED
    BY <2>1, <2>2, EmitStep DEF ShownInv, TypeOK, StoredIsThrough
<1>2. CASE Finish(s)
  <2>1. /\ talk' \in {[talk EXCEPT ![s] = "queued"], [talk EXCEPT ![s] = "over"]}
        /\ finals' \in {finals, Append(finals, s)}
        /\ UNCHANGED << rows, down, page, doubled >>
    BY <1>2 DEF Finish, store, channel
  <2>2. /\ talk' \in [Sentences -> {"new", "heard", "queued", "stored", "over"}]
        /\ \A t \in Sentences : Through(t) => Through(t)'
    BY <2>1 DEF ShownInv, TypeOK, Through
  <2>3. finals' \in Seq(Sentences)
    BY <2>1 DEF ShownInv, TypeOK
  <2>4. QED
    BY <2>1, <2>2, <2>3, QuietStep DEF ShownInv, TypeOK, StoredIsThrough
<1>3. CASE SaveAnswer(s) \/ Ask(s)
  <2>1. UNCHANGED << talk, finals, rows, down, page, doubled >>
    BY <1>3 DEF SaveAnswer, Ask, Send, speech, store, channel, history
  <2>2. QED
    BY <2>1, QuietStep DEF ShownInv, TypeOK, StoredIsThrough, Through
<1>4. QED
  BY <1>1, <1>2, <1>3

\* The head of the finals, as the lock hands them on.
LEMMA FinalStep ==
    ASSUME ShownInv, TypeOK', Store \/ Refuse \/ Announce
    PROVE  ShownInv'
<1>0. finals # << >> /\ Head(finals) \in Sentences /\ Tail(finals) \in Seq(Sentences)
  BY HeadAndTail, QueuesTyped DEF Store, Refuse, Announce, ShownInv
<1>1. PICK s \in Sentences : s = Head(finals) /\ talk[s] \in {"queued", "stored"}
  BY <1>0 DEF Store, Refuse, Announce
<1>2. CASE Store
  <2>1. /\ talk' = [talk EXCEPT ![s] = "stored"] /\ rows' = rows \cup {s}
        /\ UNCHANGED << finals, down, page, doubled >>
    BY <1>1, <1>2 DEF Store, channel
  <2>2. \A t \in Sentences : talk'[t] = IF t = s THEN "stored" ELSE talk[t]
    BY <1>1, <2>1 DEF ShownInv, TypeOK
  <2>3. (\A t \in Sentences : Through(t) => Through(t)') /\ Through(s)'
    BY <1>1, <2>2 DEF Through
  <2>4. \A t \in rows' : Through(t)'
    BY <2>1, <2>3 DEF ShownInv, TypeOK, StoredIsThrough
  <2>5. QED
    BY <2>1, <2>3, <2>4, QuietStep
<1>3. CASE Refuse
  <2>1. /\ talk' = [talk EXCEPT ![s] = "over"] /\ finals' = Tail(finals)
        /\ UNCHANGED << rows, down, page, doubled >>
    BY <1>1, <1>3 DEF Refuse, store, channel
  <2>2. /\ talk' \in [Sentences -> {"new", "heard", "queued", "stored", "over"}]
        /\ \A t \in Sentences : Through(t) => Through(t)'
    BY <1>1, <2>1 DEF ShownInv, TypeOK, Through
  <2>3. QED
    BY <1>1, <2>1, <2>2, QuietStep DEF ShownInv, TypeOK, StoredIsThrough
<1>4. CASE Announce
  <2>1. /\ talk' = [talk EXCEPT ![s] = "over"] /\ finals' = Tail(finals) /\ Emit("final", {s})
        /\ UNCHANGED << rows, page, doubled >>
    BY <1>1, <1>4 DEF Announce, store
  <2>2. /\ talk' \in [Sentences -> {"new", "heard", "queued", "stored", "over"}]
        /\ \A t \in Sentences : Through(t) => Through(t)'
    BY <1>1, <2>1 DEF ShownInv, TypeOK, Through
  <2>3. QED
    BY <1>1, <2>1, <2>2, EmitStep DEF ShownInv, TypeOK, StoredIsThrough
<1>5. QED
  BY <1>2, <1>3, <1>4

\* The handlers: a history names the rows, whose sentences are through.
LEMMA ReaderStep ==
    ASSUME ShownInv, TypeOK', Dispatch \/ HandlerStep \/ HandlerFails \/ StrayStep \/ PressClear
    PROVE  ShownInv'
<1>1. CASE HandlerStep
  <2>1. /\ UNCHANGED << talk, finals, page, doubled >> /\ rows' \in {rows, {}}
        /\ (UNCHANGED down \/ Emit("cleared", {}) \/ Emit("history", rows))
    BY <1>1 DEF HandlerStep, Work, Recent, ShownInv, TypeOK
  <2>2. rows \in SUBSET Sentences /\ \A s \in rows : Through(s)'
    BY <2>1 DEF ShownInv, TypeOK, StoredIsThrough, Through
  <2>3. CASE UNCHANGED down
    BY <2>1, <2>2, <2>3, QuietStep DEF ShownInv, TypeOK, Through
  <2>4. CASE Emit("cleared", {})
    BY <2>1, <2>2, <2>4, EmitStep DEF ShownInv, TypeOK, Through
  <2>5. CASE Emit("history", rows)
    BY <2>1, <2>2, <2>5, EmitStep DEF ShownInv, TypeOK, Through
  <2>6. QED
    BY <2>1, <2>3, <2>4, <2>5
<1>2. CASE Dispatch \/ HandlerFails \/ StrayStep \/ PressClear
  <2>1. UNCHANGED << talk, finals, down, page, doubled >> /\ rows' \in {rows, {}}
    BY <1>2 DEF Dispatch, HandlerFails, StrayStep, PressClear, Send, Work, speech, store, channel,
                history
  <2>2. QED
    BY <2>1, QuietStep DEF ShownInv, TypeOK, StoredIsThrough, Through
<1>3. QED
  BY <1>1, <1>2

\* Lost connections and crashes: what a sentence was on its way to is over.
LEMMA CutStep ==
    ASSUME ShownInv, TypeOK', CutPhone \/ CutPc \/ Crash \/ Rejoin
    PROVE  ShownInv'
<1>1. CASE CutPhone \/ CutPc \/ Rejoin
  <2>1. UNCHANGED << talk, finals, rows, page, doubled >> /\ down' \in {down, << >>}
    BY <1>1 DEF CutPhone, CutPc, Rejoin, DropDown, speech, store, history
  <2>2. QED
    BY <2>1, QuietStep DEF ShownInv, TypeOK, StoredIsThrough, Through
<1>2. CASE Crash
  <2>1. /\ talk' = [s \in Sentences |-> IF talk[s] = "new" THEN "new" ELSE "over"]
        /\ finals' = << >>
        /\ UNCHANGED << rows, down, page, doubled >>
    BY <1>2 DEF Crash, store
  <2>2. /\ talk' \in [Sentences -> {"new", "heard", "queued", "stored", "over"}]
        /\ \A s \in Sentences : Through(s) => Through(s)'
    BY <2>1 DEF Through
  <2>3. finals' \in Seq(Sentences)
    BY <2>1
  <2>4. QED
    BY <2>1, <2>2, <2>3, QuietStep DEF ShownInv, TypeOK, StoredIsThrough
<1>3. QED
  BY <1>1, <1>2

-----------------------------------------------------------------------------
\* The inductive invariant holds throughout.
THEOREM ShownInvariance == Spec => []ShownInv
<1>1. Init => ShownInv
  BY InitShownInv
<1>2. ShownInv /\ [Next]_vars => ShownInv'
  <2> SUFFICES ASSUME ShownInv, [Next]_vars PROVE ShownInv'
    OBVIOUS
  <2>0. TypeOK'
    BY StepTyped DEF ShownInv
  <2>1. CASE UNCHANGED vars
    <3>1. UNCHANGED << talk, finals, rows, down, page, doubled >>
      BY <2>1 DEF vars, speech, store, channel, history
    <3>2. QED
      BY <2>0, <3>1, QuietStep DEF ShownInv, StoredIsThrough, Through
  <2>2. QED
    BY <2>0, <2>1, SentenceStep, FinalStep, ReaderStep, CutStep, DeliverStep DEF Next
<1>3. QED
  BY <1>1, <1>2, PTL DEF Spec

\* However histories, finals, clears and reconnections come together, no sentence
\* is shown twice but one that a history named while its bubble was open.
THEOREM OnlyHistoriesDoubleAlways == Spec => []OnlyHistoriesDouble
<1>1. ShownInv => OnlyHistoriesDouble
  <2> SUFFICES ASSUME ShownInv, NEW s \in Sentences, Cardinality(page[s]) > 1, s \notin doubled
               PROVE  FALSE
    BY DEF OnlyHistoriesDouble
  <2>1. page[s] \in {{}, {"heard"}, {"final"}, {"copy"}}
    BY DEF ShownInv, SingleBubble
  <2>2. Cardinality({}) = 0 /\ \A x : Cardinality({x}) = 1
    BY FS_EmptySet, FS_Singleton
  <2>3. Cardinality(page[s]) \in {0, 1}
    BY <2>1, <2>2
  <2>4. QED
    BY <2>3
<1>2. QED
  BY <1>1, ShownInvariance, PTL

-----------------------------------------------------------------------------
(* Answers and their sentences.                                            *)

\* An answer has its sentence, or is known to be late, unless the statement that
\* deletes the answers is still to come; so has an answer that is being written.
AnswersInv ==
    /\ TypeOK
    /\ stray # "none" => link = "pc"
    /\ asked \subseteq rows \cup late
    /\ reader # "answers" /\ stray # "answers" => answers \subseteq rows \cup late

\* A statement of a clear, ended by its handler or, if it is the last of a
\* handler that is gone, by its thread.
LEMMA StatementKeepsAnswers ==
    ASSUME AnswersInv, TypeOK', NEW statement \in {"query", "wipe", "answers"}, NEW last \in BOOLEAN,
           Work(statement), late' = late \cup LateBy(statement, last), asked' = asked
    PROVE  /\ asked' \subseteq rows' \cup late'
           /\ statement = "answers" => answers' = {}
           /\ last /\ statement = "wipe" => answers' \subseteq late'
           /\ statement = "query" /\ answers \subseteq rows \cup late => answers' \subseteq rows' \cup late'
  BY DEF AnswersInv, Work, LateBy

LEMMA StepAnswersInv == AnswersInv /\ [Next]_vars => AnswersInv'
<1> SUFFICES ASSUME AnswersInv, [Next]_vars PROVE AnswersInv'
  OBVIOUS
<1>1. TypeOK'
  BY StepTyped DEF AnswersInv
<1>2. ASSUME NEW s \in Sentences, Hear(s) \/ Finish(s) \/ Ask(s) PROVE AnswersInv'
  BY <1>1, <1>2 DEF Hear, Finish, Ask, Send, AnswersInv, store, history, channel
<1>3. ASSUME NEW s \in Sentences, SaveAnswer(s) PROVE AnswersInv'
  BY <1>1, <1>3 DEF SaveAnswer, AnswersInv, history, channel
<1>4. CASE Store \/ Refuse \/ Announce
  BY <1>1, <1>4 DEF Store, Refuse, Announce, AnswersInv, store, channel
<1>5. CASE Dispatch
  <2>1. /\ reader = "none" /\ reader' # "answers"
        /\ asked' \subseteq asked \cup rows
        /\ UNCHANGED << rows, answers, stray, link, late >>
    <3>1. Head(up) \in Asked
      BY <1>5, HeadAndTail, QueuesTyped DEF Dispatch, AnswersInv
    <3>2. QED
      BY <1>5, <3>1 DEF Dispatch, Asked, store, history
  <2>2. QED
    BY <1>1, <2>1 DEF AnswersInv
<1>6. CASE HandlerStep
  <2>1. /\ reader \in {"query", "wipe", "answers"}
        /\ Work(reader) /\ late' = late \cup LateBy(reader, FALSE)
        /\ UNCHANGED << asked, stray, link >>
        /\ reader' = IF reader = "wipe" THEN "answers" ELSE "none"
    BY <1>6 DEF HandlerStep, AnswersInv, TypeOK
  <2>2. PICK statement \in {"query", "wipe", "answers"} : statement = reader
    BY <2>1
  <2>3. /\ asked' \subseteq rows' \cup late'
        /\ statement = "answers" => answers' = {}
        /\ statement = "query" /\ answers \subseteq rows \cup late => answers' \subseteq rows' \cup late'
    BY <1>1, <2>1, <2>2, StatementKeepsAnswers
  <2>4. QED
    BY <1>1, <2>1, <2>2, <2>3 DEF AnswersInv
<1>7. CASE StrayStep
  <2>1. /\ stray \in {"query", "wipe", "answers"}
        /\ Work(stray) /\ late' = late \cup LateBy(stray, TRUE)
        /\ UNCHANGED << asked, reader, link >> /\ stray' = "none"
    BY <1>7 DEF StrayStep, AnswersInv, TypeOK, channel
  <2>2. PICK statement \in {"query", "wipe", "answers"} : statement = stray
    BY <2>1
  <2>3. /\ asked' \subseteq rows' \cup late'
        /\ statement = "answers" => answers' = {}
        /\ statement = "wipe" => answers' \subseteq late'
        /\ statement = "query" /\ answers \subseteq rows \cup late => answers' \subseteq rows' \cup late'
    BY <1>1, <2>1, <2>2, StatementKeepsAnswers
  <2>4. QED
    BY <1>1, <2>1, <2>2, <2>3 DEF AnswersInv
<1>8. CASE HandlerFails
  BY <1>1, <1>8 DEF HandlerFails, AnswersInv, store, channel
<1>9. CASE PressClear \/ Deliver
  BY <1>1, <1>9 DEF PressClear, Send, Deliver, AnswersInv, store, history
<1>10. CASE CutPhone
  BY <1>1, <1>10 DEF CutPhone, AnswersInv, store
<1>11. CASE CutPc
  <2>1. link = "up" /\ stray = "none"
    BY <1>11 DEF CutPc, AnswersInv
  <2>2. /\ stray' = reader /\ reader' = "none" /\ link' = "pc"
        /\ UNCHANGED << rows, answers, asked, late >>
    BY <1>11 DEF CutPc, store
  <2>3. QED
    BY <1>1, <2>1, <2>2 DEF AnswersInv
<1>12. CASE Crash
  BY <1>1, <1>12 DEF Crash, AnswersInv, store
<1>13. CASE Rejoin
  BY <1>1, <1>13 DEF Rejoin, AnswersInv, store, history
<1>14. CASE UNCHANGED vars
  BY <1>1, <1>14 DEF vars, AnswersInv, store, channel, history
<1>15. QED
  BY <1>2, <1>3, <1>4, <1>5, <1>6, <1>7, <1>8, <1>9, <1>10, <1>11, <1>12, <1>13, <1>14 DEF Next

\* Wherever a clear is cut off, refused or crossed by an answer, an answer is
\* stored with its sentence or is one of those the property names.
THEOREM AnswersHaveSentencesAlways == Spec => []AnswersHaveSentences
<1>1. Init => AnswersInv
  BY InitTyped DEF Init, AnswersInv
<1>2. AnswersInv /\ [Next]_vars => AnswersInv'
  BY StepAnswersInv
<1>3. AnswersInv => AnswersHaveSentences
  BY DEF AnswersInv, AnswersHaveSentences
<1>4. QED
  BY <1>1, <1>2, <1>3, PTL DEF Spec

-----------------------------------------------------------------------------
(***************************************************************************)
(* The phone follows the store.  Position 0 is the page, position p the    *)
(* p-th event on its way: what is said of the page when all is quiet is    *)
(* said of every event before, given what is still to come after it.       *)
(***************************************************************************)

Done == {"stored", "over"}

Underway == {"heard", "queued", "stored"}

\* An acknowledged clear is on its way behind position p.
Cleared(p) == \E j \in DOMAIN down : j > p /\ down[j].type = "cleared"

\* A place that shows the sentence as final, and one that has its bubble open.
Shows(s, p) ==
    IF p = 0 THEN Kept(s) ELSE Names(down[p], "final", s) \/ Names(down[p], "history", s)

Opens(s, p) == IF p = 0 THEN "heard" \in page[s] ELSE Names(down[p], "partial", s)

\* Some side is going to tell the phone that all is gone, or to mark what it shows.
Owed == "answers" \in {reader, stray}

\* A row is on the phone, or will be, or was lost on the way.
Brings(s, p) ==
    /\ IF p = 0 THEN Kept(s) ELSE Names(down[p], "final", s)
    /\ ~Cleared(p)

Brought(s) == s \in missed \/ talk[s] = "stored" \/ \E p \in 0..Len(down) : Brings(s, p)

\* What is shown has its row, was bound to be shown without, or is about to go.
Backed(s, p) == s \in rows \cup stale \/ Cleared(p) \/ Owed

\* An open bubble is of an utterance that is under way, or its final comes after
\* it, or was lost.
Closes(s, p) ==
    \/ s \in missed \/ talk[s] \in Underway
    \/ \E j \in DOMAIN down : j > p /\ Names(down[j], "final", s)

SentenceInv(s) ==
    /\ talk[s] = "stored" => s \in rows \cup stale
    /\ s \in rows => talk[s] \in Done /\ Brought(s) /\ (reader = "answers" => s \in missed)
    /\ \A p \in 0..Len(down) : Shows(s, p) => talk[s] \in Done /\ Backed(s, p)
    /\ \A p \in 0..Len(down) : Opens(s, p) => Closes(s, p)

FollowInv ==
    /\ stray # "none" => link = "pc"
    /\ \A s \in Sentences : SentenceInv(s)

-----------------------------------------------------------------------------
(* What a step may do to one sentence, by what it sends: its final, or the *)
(* acknowledgement of a clear.                                             *)

Calm(s, final, cleared) ==
    /\ talk'[s] = "stored" => s \in rows' \cup stale'
    /\ talk[s] \in Done => talk'[s] \in Done
    /\ s \in rows' => talk'[s] \in Done /\ (s \in rows \/ talk'[s] = "stored")
    /\ reader' = "answers" /\ s \in rows' => s \in missed'
    /\ s \in missed => s \in missed'
    /\ s \in stale => s \in stale'
    /\ (s \in rows \/ Owed) /\ talk[s] \in Done => s \in rows' \cup stale' \/ Owed' \/ cleared
    /\ talk[s] = "stored" => talk'[s] = "stored" \/ s \in missed' \/ final
    /\ talk[s] \in Underway => talk'[s] \in Underway \/ s \in missed' \/ final

LEMMA SameFollows ==
    ASSUME NEW s \in Sentences, SentenceInv(s), Calm(s, FALSE, FALSE), UNCHANGED << down, page >>
    PROVE  SentenceInv(s)'
<1>1. /\ \A p \in 0..Len(down) : /\ Shows(s, p)' <=> Shows(s, p)
                                 /\ Opens(s, p)' <=> Opens(s, p)
                                 /\ Brings(s, p)' <=> Brings(s, p)
                                 /\ Cleared(p)' <=> Cleared(p)
  BY DEF Shows, Opens, Brings, Cleared, Kept, Names
<1>2. s \in rows' => talk'[s] \in Done /\ Brought(s)' /\ (reader' = "answers" => s \in missed')
  BY <1>1 DEF SentenceInv, Calm, Brought
<1>3. ASSUME NEW p \in 0..Len(down), Shows(s, p)
      PROVE  talk'[s] \in Done /\ Backed(s, p)'
  BY <1>1, <1>3 DEF SentenceInv, Calm, Backed
<1>4. ASSUME NEW p \in 0..Len(down), Opens(s, p)
      PROVE  Closes(s, p)'
  BY <1>1, <1>4 DEF SentenceInv, Calm, Closes, Names
<1>5. talk'[s] = "stored" => s \in rows' \cup stale'
  BY DEF Calm
<1>6. QED
  BY <1>1, <1>2, <1>3, <1>4, <1>5 DEF SentenceInv

LEMMA DownAppended ==
    ASSUME TypeOK, NEW e \in Feed, down' = Append(down, e)
    PROVE  /\ Len(down) \in Nat /\ Len(down') = Len(down) + 1
           /\ DOMAIN down = 1..Len(down) /\ DOMAIN down' = 1..Len(down')
           /\ \A p \in 1..Len(down) : down'[p] = down[p]
           /\ \A p \in 0..Len(down) : Cleared(p)' <=> Cleared(p) \/ e.type = "cleared"
           /\ down'[Len(down) + 1] = e
           /\ \A p : p = Len(down) + 1 => ~Cleared(p)'
<1>1. /\ Len(down) \in Nat /\ Len(down') = Len(down) + 1
      /\ \A p \in 1..Len(down) : down'[p] = down[p]
      /\ down'[Len(down) + 1] = e
      /\ DOMAIN down = 1..Len(down) /\ DOMAIN down' = 1..(Len(down) + 1)
  BY QueuesTyped, SMT
<1>2. ASSUME NEW p \in 0..Len(down)
      PROVE  Cleared(p)' <=> Cleared(p) \/ e.type = "cleared"
  BY <1>1, SMT DEF Cleared
<1>3. \A p : p = Len(down) + 1 => ~Cleared(p)'
  BY <1>1, SMT DEF Cleared
<1>4. QED
  BY <1>1, <1>2, <1>3

LEMMA SentFollows ==
    ASSUME TypeOK, NEW s \in Sentences, SentenceInv(s), NEW e \in Feed,
           down' = Append(down, e), page' = page,
           Calm(s, Names(e, "final", s), e.type = "cleared"),
           Names(e, "final", s) \/ Names(e, "history", s) =>
              s \in rows' \cup stale' /\ talk'[s] \in Done,
           Names(e, "partial", s) => talk'[s] \in Underway,
           e.type = "cleared" /\ s \in rows' => s \in missed'
    PROVE  SentenceInv(s)'
<1>1. /\ Len(down) \in Nat /\ Len(down') = Len(down) + 1
      /\ DOMAIN down = 1..Len(down) /\ DOMAIN down' = 1..Len(down')
      /\ \A p \in 1..Len(down) : down'[p] = down[p]
      /\ \A p \in 0..Len(down) : Cleared(p)' <=> Cleared(p) \/ e.type = "cleared"
      /\ down'[Len(down) + 1] = e
      /\ \A p : p = Len(down) + 1 => ~Cleared(p)'
  BY DownAppended
<1>2. PICK last \in 0..Len(down') : last = Len(down) + 1 /\ last # 0 /\ last \in DOMAIN down'
  BY <1>1, SMT
<1>3. down'[last] = e /\ ~Cleared(last)'
  BY <1>1, <1>2
<1>4. ASSUME NEW p \in 0..Len(down)
      PROVE  /\ Shows(s, p)' <=> Shows(s, p)
             /\ Opens(s, p)' <=> Opens(s, p)
             /\ Brings(s, p) => Brings(s, p)' \/ e.type = "cleared"
             /\ p \in 0..Len(down') /\ last > p
  <2>1. p # 0 => p \in 1..Len(down)
    BY <1>1, SMT
  <2>2. p \in 0..Len(down') /\ last > p
    BY <1>1, <1>2, SMT
  <2>3. QED
    BY <1>1, <2>1, <2>2 DEF Shows, Opens, Brings, Kept, Names
<1>5. \A p \in 0..Len(down') : p \in 0..Len(down) \/ p = last
  BY <1>1, <1>2, SMT
<1>6. ASSUME s \in rows'
      PROVE  talk'[s] \in Done /\ Brought(s)' /\ (reader' = "answers" => s \in missed')
  <2>1. s \in missed' \/ talk'[s] = "stored" \/ (e.type # "cleared" /\ \E p \in 0..Len(down) : Brings(s, p))
        \/ Names(e, "final", s)
    BY <1>6 DEF Calm, SentenceInv, Brought
  <2>2. CASE Names(e, "final", s)
    <3>1. Brings(s, last)'
      BY <1>2, <1>3, <2>2 DEF Brings
    <3>2. QED
      BY <1>2, <1>6, <3>1 DEF Brought, Calm
  <2>3. CASE e.type # "cleared" /\ \E p \in 0..Len(down) : Brings(s, p)
    BY <1>4, <1>6, <2>3 DEF Brought, Calm
  <2>4. QED
    BY <1>6, <2>1, <2>2, <2>3 DEF Brought, Calm
<1>7. ASSUME NEW p \in 0..Len(down'), Shows(s, p)'
      PROVE  talk'[s] \in Done /\ Backed(s, p)'
  <2>1. CASE p \in 0..Len(down)
    <3>1. talk[s] \in Done /\ Backed(s, p)
      BY <1>4, <1>7, <2>1 DEF SentenceInv
    <3>2. Cleared(p)' <=> Cleared(p) \/ e.type = "cleared"
      BY <1>1, <2>1
    <3>3. QED
      BY <3>1, <3>2 DEF Backed, Calm
  <2>2. CASE p = last
    <3>1. Names(e, "final", s) \/ Names(e, "history", s)
      BY <1>2, <1>3, <1>7, <2>2 DEF Shows
    <3>2. QED
      BY <3>1 DEF Backed
  <2>3. QED
    BY <1>5, <2>1, <2>2
<1>8. ASSUME NEW p \in 0..Len(down'), Opens(s, p)'
      PROVE  Closes(s, p)'
  <2>1. CASE p \in 0..Len(down)
    <3>1. Closes(s, p) /\ last > p
      BY <1>4, <1>8, <2>1 DEF SentenceInv
    <3>2. CASE Names(e, "final", s)
      BY <1>2, <1>3, <3>1, <3>2 DEF Closes
    <3>3. ASSUME NEW j \in DOMAIN down, j > p, Names(down[j], "final", s)
          PROVE  Closes(s, p)'
      <4>1. j \in DOMAIN down' /\ down'[j] = down[j]
        BY <1>1, <3>3, SMT
      <4>2. QED
        BY <3>3, <4>1 DEF Closes
    <3>4. QED
      BY <3>1, <3>2, <3>3 DEF Closes, Calm
  <2>2. CASE p = last
    BY <1>2, <1>3, <1>8, <2>2 DEF Opens, Closes
  <2>3. QED
    BY <1>5, <2>1, <2>2
<1>9. talk'[s] = "stored" => s \in rows' \cup stale'
  BY DEF Calm
<1>10. QED
  BY <1>6, <1>7, <1>8, <1>9 DEF SentenceInv

\* The link breaks: finals that are lost are marked, and so is all that a lost
\* acknowledgement would have taken off.
LEMMA LostFollows ==
    ASSUME TypeOK, NEW s \in Sentences, SentenceInv(s), DropDown(TRUE), page' = page,
           Calm(s, FALSE, FALSE), rows' = rows, talk' = talk
    PROVE  SentenceInv(s)'
<1>1. /\ down' = << >> /\ down \in Seq(Feed)
      /\ \A i \in DOMAIN down : down[i].type = "final" => down[i].about \subseteq missed'
      /\ \A i \in DOMAIN down : down[i].type = "cleared" => Rowless \subseteq stale'
  BY QueuesTyped DEF DropDown
<1>2. /\ 0 \in 0..Len(down) /\ \A p \in 0..Len(down) : p # 0 => p \in DOMAIN down
      /\ 0 \in 0..Len(down') /\ \A p \in 0..Len(down') : p = 0
      /\ \A p : ~Cleared(p)'
  BY <1>1, SMT DEF Cleared
<1>3. \A i \in DOMAIN down : Names(down[i], "final", s) => s \in missed'
  BY <1>1 DEF Names
<1>4. Cleared(0) => Rowless \subseteq stale'
  BY <1>1 DEF Cleared
<1>5. ASSUME s \in rows
      PROVE  talk'[s] \in Done /\ Brought(s)' /\ (reader' = "answers" => s \in missed')
  <2>1. s \in missed' \/ talk'[s] = "stored" \/ \E p \in 0..Len(down) : Brings(s, p)
    BY <1>5 DEF SentenceInv, Brought, Calm
  <2>2. ASSUME NEW p \in 0..Len(down), Brings(s, p)
        PROVE  s \in missed' \/ Brings(s, 0)'
    BY <1>2, <1>3, <2>2 DEF Brings, Kept
  <2>3. QED
    BY <1>2, <1>5, <2>1, <2>2 DEF Brought, Calm
<1>6. ASSUME Shows(s, 0)'
      PROVE  talk'[s] \in Done /\ Backed(s, 0)'
  <2>1. talk[s] \in Done /\ Backed(s, 0)
    BY <1>2, <1>6 DEF SentenceInv, Shows, Kept
  <2>2. Cleared(0) => s \in rows' \cup stale'
    BY <1>4, <2>1 DEF Rowless, Done
  <2>3. QED
    BY <2>1, <2>2 DEF Backed, Calm
<1>7. ASSUME Opens(s, 0)'
      PROVE  Closes(s, 0)'
  <2>1. Closes(s, 0)
    BY <1>2, <1>7 DEF SentenceInv, Opens
  <2>2. QED
    BY <1>3, <2>1 DEF Closes, Calm
<1>8. talk'[s] = "stored" => s \in rows' \cup stale'
  BY DEF Calm
<1>9. QED
  BY <1>2, <1>5, <1>6, <1>7, <1>8 DEF SentenceInv

\* The page takes an event.
LEMMA DeliverFollows ==
    ASSUME TypeOK, NEW s \in Sentences, SentenceInv(s), Deliver
    PROVE  SentenceInv(s)'
<1>1. /\ down # << >> /\ down' = Tail(down) /\ down \in Seq(Feed)
      /\ UNCHANGED << talk, rows, reader, stray, missed, stale >>
  BY QueuesTyped DEF Deliver, speech, store
<1>2. /\ Len(down) \in Nat /\ Len(down') \in Nat /\ Len(down) = Len(down') + 1
      /\ Head(down) = down[1] /\ down[1] \in Feed
      /\ DOMAIN down = 1..Len(down) /\ DOMAIN down' = 1..Len(down')
      /\ \A p \in 1..Len(down') : down'[p] = down[p + 1]
  BY <1>1, SMT
<1>3. PICK e \in Feed : e = down[1]
  BY <1>2
<1>4. page'[s] = IF e.type = "cleared" THEN {}
                 ELSE IF s \notin e.about THEN page[s]
                 ELSE CASE e.type = "partial" -> AfterPartial(page[s])
                        [] e.type = "final"   -> AfterFinal(page[s])
                        [] e.type = "history" -> AfterHistory(page[s])
  <2> DEFINE event == Head(down)
             On(bubbles) == CASE event.type = "partial" -> AfterPartial(bubbles)
                              [] event.type = "final"   -> AfterFinal(bubbles)
                              [] event.type = "history" -> AfterHistory(bubbles)
  <2>1. page' = IF event.type = "cleared"
                  THEN [t \in Sentences |-> {}]
                  ELSE [t \in Sentences |-> IF t \in event.about THEN On(page[t]) ELSE page[t]]
    BY DEF Deliver
  <2>2. event = e
    BY <1>2, <1>3
  <2> HIDE DEF event
  <2>3. page'[s] = IF event.type = "cleared" THEN {}
                   ELSE IF s \in event.about THEN On(page[s]) ELSE page[s]
    <3> HIDE DEF On
    <3>1. QED
      BY <2>1
  <2>4. QED
    BY <2>2, <2>3
<1>5. e.type \in {"partial", "final", "history", "cleared"} /\ page[s] \subseteq Bubbles
  BY DEF Feed, TypeOK
<1>6. /\ Kept(s)' => e.type # "cleared" /\ (Shows(s, 0) \/ Shows(s, 1))
      /\ Shows(s, 0) /\ e.type # "cleared" => Kept(s)'
      /\ Names(e, "final", s) => Kept(s)' /\ "heard" \notin page'[s]
      /\ "heard" \in page'[s] => Opens(s, 0) \/ Opens(s, 1)
  <2>1. Kept(s)' => e.type # "cleared" /\ (Kept(s) \/ Names(e, "final", s) \/ Names(e, "history", s))
    BY <1>4, <1>5, SMT DEF Kept, AfterPartial, AfterFinal, AfterHistory, Names, Bubbles
  <2>2. Kept(s) /\ e.type # "cleared" => Kept(s)'
    BY <1>4, <1>5, SMT DEF Kept, AfterPartial, AfterFinal, AfterHistory, Names, Bubbles
  <2>3. Names(e, "final", s) => Kept(s)' /\ "heard" \notin page'[s]
    BY <1>4, <1>5, SMT DEF Kept, AfterFinal, Names, Bubbles
  <2>4. "heard" \in page'[s] => "heard" \in page[s] \/ Names(e, "partial", s)
    BY <1>4, <1>5, SMT DEF AfterPartial, AfterFinal, AfterHistory, Names, Bubbles
  <2>5. QED
    BY <1>3, <2>1, <2>2, <2>3, <2>4 DEF Shows, Opens
<1>7. ASSUME NEW p \in 0..Len(down')
      PROVE  /\ p + 1 \in 1..Len(down) /\ p + 1 \in 0..Len(down) /\ p + 1 # 0
             /\ Cleared(p)' <=> Cleared(p + 1)
             /\ p # 0 => /\ down'[p] = down[p + 1]
                         /\ Shows(s, p)' <=> Shows(s, p + 1)
                         /\ Opens(s, p)' <=> Opens(s, p + 1)
  <2>1. p + 1 \in 1..Len(down) /\ p + 1 \in 0..Len(down) /\ p + 1 # 0
    BY <1>2, SMT
  <2>2. p # 0 => down'[p] = down[p + 1]
    BY <1>2, SMT
  <2>3. ASSUME Cleared(p)' PROVE Cleared(p + 1)
    <3>1. PICK j \in 1..Len(down') : j > p /\ down'[j].type = "cleared"
      BY <1>2, <2>3 DEF Cleared
    <3>2. j + 1 \in 1..Len(down) /\ j + 1 > p + 1 /\ down[j + 1].type = "cleared"
      BY <1>2, <3>1, SMT
    <3>3. QED
      BY <1>2, <3>2 DEF Cleared
  <2>4. ASSUME Cleared(p + 1) PROVE Cleared(p)'
    <3>1. PICK j \in 1..Len(down) : j > p + 1 /\ down[j].type = "cleared"
      BY <1>2, <2>4 DEF Cleared
    <3>2. j - 1 \in 1..Len(down') /\ j - 1 > p /\ (j - 1) + 1 = j
      BY <1>2, <3>1, SMT
    <3>3. down'[j - 1].type = "cleared"
      BY <1>2, <3>1, <3>2
    <3>4. QED
      BY <1>2, <3>2, <3>3 DEF Cleared
  <2>5. QED
    BY <2>1, <2>2, <2>3, <2>4 DEF Shows, Opens
<1>8. /\ 0 \in 0..Len(down) /\ 1 \in 0..Len(down) /\ 0 \in 0..Len(down')
      /\ Cleared(0)' <=> Cleared(1)
      /\ Cleared(0) <=> Cleared(1) \/ e.type = "cleared"
  <2>1. 0 \in 0..Len(down) /\ 1 \in 0..Len(down) /\ 0 \in 0..Len(down') /\ 0 + 1 = 1
    BY <1>2, SMT
  <2>2. Cleared(0)' <=> Cleared(1)
    BY <1>7, <2>1
  <2>3. Cleared(0) <=> Cleared(1) \/ e.type = "cleared"
    BY <1>2, <1>3, SMT DEF Cleared
  <2>4. QED
    BY <2>1, <2>2, <2>3
<1>9. ASSUME NEW p \in 0..Len(down), Brings(s, p)
      PROVE  \E q \in 0..Len(down') : Brings(s, q)'
  <2>1. CASE p = 0
    <3>1. Brings(s, 0)'
      BY <1>6, <1>8, <1>9, <2>1 DEF Brings, Shows
    <3>2. QED
      BY <1>8, <3>1
  <2>2. CASE p = 1
    <3>1. Names(e, "final", s) /\ ~Cleared(1)
      BY <1>3, <1>9, <2>2 DEF Brings
    <3>2. Brings(s, 0)'
      BY <1>6, <1>8, <3>1 DEF Brings
    <3>3. QED
      BY <1>8, <3>2
  <2>3. CASE p > 1
    <3>1. PICK q \in 0..Len(down') : q = p - 1 /\ q + 1 = p /\ q # 0 /\ p # 0
      BY <1>2, <2>3, SMT
    <3>2. Brings(s, q)'
      BY <1>7, <1>9, <3>1 DEF Brings
    <3>3. QED
      BY <3>2
  <2>4. QED
    BY <1>2, <2>1, <2>2, <2>3, SMT
<1>10. s \in rows' => talk'[s] \in Done /\ Brought(s)' /\ (reader' = "answers" => s \in missed')
  BY <1>1, <1>9 DEF SentenceInv, Brought
<1>11. ASSUME NEW p \in 0..Len(down'), Shows(s, p)'
       PROVE  talk'[s] \in Done /\ Backed(s, p)'
  <2>1. CASE p = 0
    <3>1. e.type # "cleared" /\ (Shows(s, 0) \/ Shows(s, 1))
      BY <1>6, <1>11, <2>1 DEF Shows
    <3>2. talk[s] \in Done /\ (Backed(s, 0) \/ Backed(s, 1))
      BY <1>8, <3>1 DEF SentenceInv
    <3>3. s \in rows \cup stale \/ Cleared(1) \/ Owed
      BY <1>8, <3>1, <3>2 DEF Backed
    <3>4. QED
      BY <1>1, <1>8, <2>1, <3>2, <3>3 DEF Backed, Owed
  <2>2. CASE p # 0
    <3>1. talk[s] \in Done /\ Backed(s, p + 1)
      BY <1>7, <1>11, <2>2 DEF SentenceInv
    <3>2. Cleared(p)' <=> Cleared(p + 1)
      BY <1>7
    <3>3. QED
      BY <1>1, <3>1, <3>2 DEF Backed, Owed
  <2>3. QED
    BY <2>1, <2>2
<1>12. ASSUME NEW p \in 0..Len(down'), Opens(s, p)'
       PROVE  Closes(s, p)'
  <2>1. ASSUME NEW k \in 0..Len(down), Closes(s, k), k = p + 1 \/ (k = 0 /\ p = 0),
               k = 0 => ~Names(e, "final", s)
        PROVE  Closes(s, p)'
    <3>1. ASSUME NEW j \in DOMAIN down, j > k, Names(down[j], "final", s)
          PROVE  Closes(s, p)'
      <4>1. j # 1 \/ k # 0
        BY <1>3, <2>1, <3>1
      <4>2. CASE j > p + 1
        <5>1. PICK i \in DOMAIN down' : i = j - 1 /\ i + 1 = j /\ i > p /\ i \in 1..Len(down')
          BY <1>2, <3>1, <4>2, SMT
        <5>2. Names(down'[i], "final", s)
          BY <1>2, <3>1, <5>1
        <5>3. QED
          BY <5>1, <5>2 DEF Closes
      <4>3. j > p + 1
        BY <1>2, <2>1, <3>1, <4>1, SMT
      <4>4. QED
        BY <4>2, <4>3
    <3>2. QED
      BY <1>1, <2>1, <3>1 DEF Closes
  <2>2. CASE p = 0
    <3>1. Opens(s, 0) \/ Opens(s, 1)
      BY <1>6, <1>12, <2>2 DEF Opens
    <3>2. ~Names(e, "final", s)
      BY <1>6, <1>12, <2>2 DEF Opens
    <3>3. Closes(s, 0) \/ Closes(s, 1)
      BY <1>8, <3>1 DEF SentenceInv
    <3>4. QED
      BY <1>8, <2>1, <2>2, <3>2, <3>3, SMT
  <2>3. CASE p # 0
    <3>1. p + 1 \in 0..Len(down) /\ p + 1 # 0 /\ Closes(s, p + 1)
      BY <1>7, <1>12, <2>3 DEF SentenceInv
    <3>2. QED
      BY <2>1, <3>1
  <2>4. QED
    BY <2>2, <2>3
<1>13. talk'[s] = "stored" => s \in rows' \cup stale'
  BY <1>1 DEF SentenceInv
<1>14. QED
  BY <1>10, <1>11, <1>12, <1>13 DEF SentenceInv

-----------------------------------------------------------------------------
(* The steps.                                                              *)

LEMMA FinalOrClearedOnly ==
    ASSUME NEW s, Calm(s, FALSE, FALSE), NEW final, NEW cleared
    PROVE  Calm(s, final, cleared)
  BY DEF Calm

\* A step that leaves a sentence and the rows alone.
LEMMA StillCalm ==
    ASSUME NEW s \in Sentences, SentenceInv(s), talk'[s] = talk[s], rows' = rows,
           missed \subseteq missed', stale \subseteq stale',
           reader' = "answers" => reader = "answers",
           Owed /\ talk[s] \in Done => Owed' \/ s \in rows' \cup stale'
    PROVE  Calm(s, FALSE, FALSE)
  BY DEF Calm, SentenceInv

\* An event is sent, or dropped.
LEMMA EmitFollows ==
    ASSUME TypeOK, NEW s \in Sentences, SentenceInv(s),
           NEW type \in {"partial", "final", "history", "cleared"}, NEW about \in SUBSET Sentences,
           Emit(type, about), page' = page,
           link # "up" => Calm(s, FALSE, FALSE),
           Calm(s, type = "final" /\ s \in about, type = "cleared"),
           type \in {"final", "history"} /\ s \in about => s \in rows' \cup stale' /\ talk'[s] \in Done,
           type = "partial" /\ s \in about => talk'[s] \in Underway,
           type = "cleared" /\ s \in rows' => s \in missed'
    PROVE  SentenceInv(s)'
<1>1. CASE link = "up"
  <2>1. PICK e \in Feed : e = Item(type, about) /\ e.type = type /\ e.about = about
    <3>1. /\ Item(type, about) \in Feed
          /\ Item(type, about).type = type /\ Item(type, about).about = about
      BY DEF Feed, Item
    <3>2. QED
      BY <3>1, Zenon
  <2>2. down' = Append(down, e)
    BY <1>1, <2>1 DEF Emit
  <2>3. Calm(s, Names(e, "final", s), e.type = "cleared")
    BY <2>1 DEF Calm, Names
  <2>4. /\ Names(e, "final", s) \/ Names(e, "history", s) =>
             s \in rows' \cup stale' /\ talk'[s] \in Done
        /\ Names(e, "partial", s) => talk'[s] \in Underway
        /\ e.type = "cleared" /\ s \in rows' => s \in missed'
    BY <2>1 DEF Names
  <2>5. QED
    BY <2>2, <2>3, <2>4, SentFollows
<1>2. CASE link # "up"
  <2>1. UNCHANGED << down, page >>
    BY <1>2 DEF Emit
  <2>2. QED
    BY <1>2, <2>1, SameFollows
<1>3. QED
  BY <1>1, <1>2

LEMMA SpeechFollows ==
    ASSUME TypeOK, NEW s \in Sentences, SentenceInv(s),
           (\E t \in Sentences : Hear(t) \/ Finish(t)) \/ Store \/ Refuse \/ Announce
    PROVE  SentenceInv(s)'
<1>1. ASSUME NEW t \in Sentences, Hear(t) PROVE SentenceInv(s)'
  <2>1. /\ talk[t] = "new" /\ talk' = [talk EXCEPT ![t] = "heard"] /\ Emit("partial", {t})
        /\ UNCHANGED << rows, reader, stray, page, missed, stale >>
    BY <1>1 DEF Hear, store, history
  <2>2. /\ talk'[t] = "heard" /\ (s = t => s \notin rows)
        /\ s # t => talk'[s] = talk[s]
    BY <1>1, <2>1 DEF TypeOK, SentenceInv, Done
  <2>3. Calm(s, FALSE, FALSE)
    BY <2>1, <2>2 DEF Calm, SentenceInv, Done, Underway, Owed
  <2>4. Calm(s, FALSE /\ s \in {t}, FALSE)
    BY <2>3
  <2>5. QED
    BY <2>1, <2>2, <2>3, FinalOrClearedOnly, EmitFollows DEF Underway
<1>2. ASSUME NEW t \in Sentences, Finish(t) PROVE SentenceInv(s)'
  <2>1. /\ talk[t] \in {"new", "heard"}
        /\ \/ talk' = [talk EXCEPT ![t] = "queued"] /\ missed' = missed
           \/ talk' = [talk EXCEPT ![t] = "over"] /\ missed' = missed \cup {t}
        /\ UNCHANGED << rows, reader, stray, page, stale, down >>
    BY <1>2 DEF Finish, store, channel
  <2>2. /\ talk'[t] = "queued" \/ (talk'[t] = "over" /\ t \in missed')
        /\ s # t => talk'[s] = talk[s]
        /\ missed \subseteq missed'
    BY <2>1 DEF TypeOK
  <2>3. Calm(s, FALSE, FALSE)
    BY <2>1, <2>2 DEF Calm, SentenceInv, Done, Underway, Owed
  <2>4. QED
    BY <2>1, <2>3, SameFollows
<1>3. CASE Store
  <2>1. PICK t \in Sentences : t = Head(finals)
    BY <1>3, HeadAndTail, QueuesTyped DEF Store
  <2>2. /\ talk[t] = "queued" /\ talk' = [talk EXCEPT ![t] = "stored"] /\ rows' = rows \cup {t}
        /\ missed' = IF reader = "answers" THEN missed \cup {t} ELSE missed
        /\ UNCHANGED << reader, stray, page, stale, down >>
    BY <1>3, <2>1 DEF Store, channel
  <2>3. talk'[t] = "stored" /\ (s # t => talk'[s] = talk[s])
    BY <2>2 DEF TypeOK
  <2>4. Calm(s, FALSE, FALSE)
    BY <2>2, <2>3 DEF Calm, SentenceInv, Done, Underway, Owed
  <2>5. QED
    BY <2>2, <2>4, SameFollows
<1>4. CASE Refuse
  <2>1. PICK t \in Sentences : t = Head(finals)
    BY <1>4, HeadAndTail, QueuesTyped DEF Refuse
  <2>2. /\ talk[t] = "queued" /\ talk' = [talk EXCEPT ![t] = "over"] /\ missed' = missed \cup {t}
        /\ UNCHANGED << rows, reader, stray, page, stale, down >>
    BY <1>4, <2>1 DEF Refuse, store, channel
  <2>3. talk'[t] = "over" /\ (s # t => talk'[s] = talk[s])
    BY <2>2 DEF TypeOK
  <2>4. Calm(s, FALSE, FALSE)
    BY <2>2, <2>3 DEF Calm, SentenceInv, Done, Underway, Owed
  <2>5. QED
    BY <2>2, <2>4, SameFollows
<1>5. CASE Announce
  <2>1. PICK t \in Sentences : t = Head(finals)
    BY <1>5, HeadAndTail, QueuesTyped DEF Announce
  <2>2. /\ talk[t] = "stored" /\ talk' = [talk EXCEPT ![t] = "over"] /\ Emit("final", {t})
        /\ missed' = IF link = "up" THEN missed ELSE missed \cup {t}
        /\ UNCHANGED << rows, reader, stray, page, stale >>
    BY <1>5, <2>1 DEF Announce, store
  <2>3. talk'[t] = "over" /\ (s # t => talk'[s] = talk[s])
    BY <2>2 DEF TypeOK
  <2>4. Calm(s, s \in {t}, FALSE) /\ (link # "up" => Calm(s, FALSE, FALSE))
    BY <2>2, <2>3 DEF Calm, SentenceInv, Done, Underway, Owed
  <2>5. s \in {t} => s \in rows' \cup stale' /\ talk'[s] \in Done
    BY <2>2, <2>3 DEF SentenceInv, Done
  <2>6. Calm(s, "final" = "final" /\ s \in {t}, "final" = "cleared")
    BY <2>4 DEF Calm
  <2>7. QED
    BY <2>2, <2>4, <2>5, <2>6, EmitFollows
<1>6. QED
  BY <1>1, <1>2, <1>3, <1>4, <1>5

LEMMA HandlersFollow ==
    ASSUME TypeOK, NEW s \in Sentences, SentenceInv(s),
           HandlerStep \/ HandlerFails \/ StrayStep
    PROVE  SentenceInv(s)'
<1>1. talk[s] \in {"new", "heard", "queued", "stored", "over"}
  BY DEF TypeOK
<1>2. CASE HandlerStep
  <2>1. /\ Work(reader) /\ stale \subseteq stale'
        /\ reader' = IF reader = "wipe" THEN "answers" ELSE "none"
        /\ UNCHANGED << talk, stray, page, missed >>
    BY <1>2 DEF HandlerStep
  <2>2. CASE reader = "wipe"
    <3>1. /\ rows' = {} /\ reader' = "answers" /\ down' = down
          /\ {t \in rows : talk[t] = "stored"} \subseteq stale'
      BY <1>2, <2>1, <2>2 DEF HandlerStep, Work, StaleBy
    <3>2. Calm(s, FALSE, FALSE)
      BY <2>1, <3>1 DEF Calm, SentenceInv, Owed
    <3>3. QED
      BY <2>1, <3>1, <3>2, SameFollows
  <2>3. CASE reader = "answers"
    <3>1. rows' = rows /\ reader' = "none" /\ Emit("cleared", {})
      BY <1>2, <2>1, <2>3 DEF HandlerStep, Work
    <3>2. link # "up" => Rowless' \subseteq stale'
      BY <1>2, <2>3 DEF HandlerStep, StaleBy
    <3>3. Calm(s, FALSE, TRUE) /\ (link # "up" => Calm(s, FALSE, FALSE))
      BY <2>1, <3>1, <3>2 DEF Calm, SentenceInv, Rowless, Done
    <3>4. s \in rows' => s \in missed'
      BY <2>1, <2>3, <3>1 DEF SentenceInv
    <3>5. Calm(s, "cleared" = "final" /\ s \in {}, "cleared" = "cleared")
      BY <3>3 DEF Calm
    <3>6. QED
      BY <2>1, <3>1, <3>3, <3>4, <3>5, EmitFollows
  <2>4. CASE reader = "query"
    <3>1. rows' = rows /\ reader' = "none" /\ Emit("history", rows)
      BY <1>2, <2>1, <2>4 DEF HandlerStep, Work, Recent
    <3>2. Calm(s, FALSE, FALSE)
      BY <2>1, <2>4, <3>1, StillCalm DEF Owed
    <3>3. Calm(s, "history" = "final" /\ s \in rows, "history" = "cleared")
      BY <3>2, FinalOrClearedOnly
    <3>4. s \in rows => s \in rows' \cup stale' /\ talk'[s] \in Done
      BY <2>1, <3>1 DEF SentenceInv
    <3>5. rows \in SUBSET Sentences
      BY DEF TypeOK
    <3>6. QED
      BY <2>1, <3>1, <3>2, <3>3, <3>4, <3>5, EmitFollows
  <2>5. QED
    BY <1>2, <2>2, <2>3, <2>4 DEF HandlerStep, TypeOK
<1>3. CASE HandlerFails
  <2>1. /\ reader' = "none" /\ stale' = IF reader = "answers" THEN stale \cup Rowless ELSE stale
        /\ UNCHANGED << talk, rows, stray, page, missed, down >>
    BY <1>3 DEF HandlerFails, speech, store, channel
  <2>2. Calm(s, FALSE, FALSE)
    BY <2>1, StillCalm DEF Owed, Rowless, Done
  <2>3. QED
    BY <2>1, <2>2, SameFollows
<1>4. CASE StrayStep
  <2>1. /\ Work(stray) /\ stray' = "none" /\ stale' = stale \cup StaleBy(stray, TRUE)
        /\ UNCHANGED << talk, reader, page, missed, down >>
    BY <1>4 DEF StrayStep, channel
  <2>2. CASE stray = "wipe"
    <3>1. rows' = {} /\ Rowless' \subseteq stale'
      BY <2>1, <2>2 DEF Work, StaleBy
    <3>2. Calm(s, FALSE, FALSE)
      BY <2>1, <3>1 DEF Calm, SentenceInv, Rowless, Done
    <3>3. QED
      BY <2>1, <3>2, SameFollows
  <2>3. CASE stray # "wipe"
    <3>1. rows' = rows /\ (stray = "answers" => Rowless' \subseteq stale')
      BY <2>1, <2>3 DEF Work, StaleBy
    <3>2. Calm(s, FALSE, FALSE)
      BY <2>1, <3>1, StillCalm DEF Owed, Rowless, Done
    <3>3. QED
      BY <2>1, <3>2, SameFollows
  <2>4. QED
    BY <2>2, <2>3
<1>5. QED
  BY <1>2, <1>3, <1>4

LEMMA CutsFollow ==
    ASSUME TypeOK, NEW s \in Sentences, SentenceInv(s), stray # "none" => link = "pc",
           CutPhone \/ CutPc \/ Crash
    PROVE  SentenceInv(s)'
<1>1. ASSUME NEW gone \in BOOLEAN, DropDown(gone)
      PROVE  missed \subseteq missed' /\ stale \subseteq stale' /\ (gone = FALSE => down' = down)
  BY <1>1 DEF DropDown
<1>2. CASE CutPhone
  <2>1. DropDown(TRUE) /\ UNCHANGED << talk, rows, reader, stray, page >>
    BY <1>2 DEF CutPhone, speech, store
  <2>2. Calm(s, FALSE, FALSE)
    BY <1>1, <2>1, StillCalm DEF Owed
  <2>3. QED
    BY <2>1, <2>2, LostFollows
<1>3. CASE CutPc
  <2>1. PICK gone \in BOOLEAN : DropDown(gone)
    BY <1>3 DEF CutPc
  <2>2. /\ reader' = "none" /\ stray' = reader /\ stray = "none"
        /\ UNCHANGED << talk, rows, page >>
    BY <1>3 DEF CutPc, speech, store
  <2>3. Calm(s, FALSE, FALSE)
    BY <1>1, <2>1, <2>2, StillCalm DEF Owed
  <2>4. CASE gone = TRUE
    BY <2>1, <2>2, <2>3, <2>4, LostFollows
  <2>5. CASE gone = FALSE
    BY <1>1, <2>1, <2>2, <2>3, <2>5, SameFollows
  <2>6. QED
    BY <2>4, <2>5
<1>4. CASE Crash
  <2>1. /\ reader' = "none"
        /\ talk'[s] = IF talk[s] = "new" THEN "new" ELSE "over"
        /\ talk[s] \in {"heard", "queued", "stored"} => s \in missed'
        /\ missed \subseteq missed'
        /\ stale' = IF "answers" \in {reader, stray} THEN stale \cup Rowless ELSE stale
        /\ UNCHANGED << rows, down, page >>
    BY <1>4 DEF Crash, store
  <2>2. Calm(s, FALSE, FALSE)
    BY <2>1 DEF Calm, SentenceInv, Done, Underway, Owed, Rowless
  <2>3. QED
    BY <2>1, <2>2, SameFollows
<1>5. QED
  BY <1>2, <1>3, <1>4

\* The rest leaves sentences, rows and events alone.
LEMMA RestFollows ==
    ASSUME TypeOK, NEW s \in Sentences, SentenceInv(s),
           \/ \E t \in Sentences : SaveAnswer(t) \/ Ask(t)
           \/ PressClear \/ Dispatch \/ Rejoin \/ UNCHANGED vars
    PROVE  SentenceInv(s)'
<1>1. /\ UNCHANGED << talk, rows, stray, down, page, missed, stale >>
      /\ reader' = reader \/ (reader = "none" /\ reader' # "answers")
  <2>1. CASE Dispatch
    <3>1. Head(up) \in Asked
      BY <2>1, HeadAndTail, QueuesTyped DEF Dispatch
    <3>2. reader = "none" /\ reader' # "answers"
      BY <2>1, <3>1 DEF Dispatch, Asked
    <3>3. QED
      BY <2>1, <3>2 DEF Dispatch, speech, store, history
  <2>2. ASSUME NEW t \in Sentences, SaveAnswer(t) \/ Ask(t)
        PROVE  UNCHANGED << talk, rows, stray, down, page, missed, stale, reader >>
    BY <2>2 DEF SaveAnswer, Ask, Send, speech, store, channel, history
  <2>3. ASSUME PressClear \/ Rejoin \/ UNCHANGED vars
        PROVE  UNCHANGED << talk, rows, stray, down, page, missed, stale, reader >>
    BY <2>3 DEF PressClear, Send, Rejoin, vars, speech, store, channel, history
  <2>4. QED
    BY <2>1, <2>2, <2>3
<1>2. Calm(s, FALSE, FALSE)
  BY <1>1, StillCalm DEF Owed
<1>3. QED
  BY <1>1, <1>2, SameFollows

LEMMA FollowInvariance ==
    /\ Init => FollowInv
    /\ TypeOK /\ FollowInv /\ [Next]_vars => FollowInv'
    /\ TypeOK /\ FollowInv => PhoneFollowsStore
<1>1. ASSUME Init PROVE FollowInv
  <2>1. /\ down = << >> /\ stray = "none" /\ rows = {}
        /\ \A s \in Sentences : talk[s] = "new" /\ page[s] = {}
    BY <1>1 DEF Init
  <2>2. \A p \in 0..Len(down) : p = 0
    BY <2>1
  <2>3. QED
    BY <2>1, <2>2 DEF FollowInv, SentenceInv, Shows, Opens, Kept
<1>2. ASSUME TypeOK, FollowInv, [Next]_vars PROVE FollowInv'
  <2>1. (stray # "none" => link = "pc")'
    BY <1>2, Zenon DEF FollowInv, Next, Hear, Finish, SaveAnswer, Ask, Send, Store, Refuse, Announce,
       Dispatch, HandlerStep, HandlerFails, StrayStep, PressClear, Deliver, CutPhone, CutPc, Crash,
       Rejoin, vars, channel
  <2>2. ASSUME NEW s \in Sentences PROVE SentenceInv(s)'
    <3>1. SentenceInv(s) /\ (stray # "none" => link = "pc")
      BY <1>2 DEF FollowInv
    <3>2. QED
      BY <1>2, <3>1, SpeechFollows, HandlersFollow, CutsFollow, RestFollows, DeliverFollows DEF Next
  <2>3. QED
    BY <2>1, <2>2 DEF FollowInv
<1>3. ASSUME TypeOK, FollowInv, Settled, NEW s \in Sentences
      PROVE  /\ s \in rows => Kept(s) \/ s \in missed
             /\ Kept(s) => s \in rows \cup stale
             /\ "heard" \in page[s] => s \in missed
  <2>1. SentenceInv(s) /\ down = << >>
    BY <1>3 DEF FollowInv, Settled
  <2>2. /\ 0 \in 0..Len(down) /\ \A p \in 0..Len(down) : p = 0
        /\ DOMAIN down = {} /\ ~Cleared(0) /\ ~Owed /\ talk[s] \in {"new", "over"}
    BY <1>3, <2>1 DEF Cleared, Owed, Settled
  <2>3. s \in rows => Kept(s) \/ s \in missed
    BY <2>1, <2>2 DEF SentenceInv, Brought, Brings
  <2>4. Kept(s) => s \in rows \cup stale
    BY <2>1, <2>2 DEF SentenceInv, Shows, Backed
  <2>5. "heard" \in page[s] => s \in missed
    BY <2>1, <2>2 DEF SentenceInv, Opens, Closes, Underway
  <2>6. QED
    BY <2>3, <2>4, <2>5
<1>4. QED
  BY <1>1, <1>2, <1>3 DEF PhoneFollowsStore

\* When nothing is under way the phone shows what SQLite has, whatever finals,
\* clears, histories, lost connections and crashes came together before: up to
\* the sentences whose final was lost, and those that a clear left on the phone.
THEOREM PhoneFollowsStoreAlways == Spec => []PhoneFollowsStore
<1>1. Init => TypeOK /\ FollowInv
  BY InitTyped, FollowInvariance
<1>2. TypeOK /\ FollowInv /\ [Next]_vars => (TypeOK /\ FollowInv)'
  BY StepTyped, FollowInvariance
<1>3. TypeOK /\ FollowInv => PhoneFollowsStore
  BY FollowInvariance
<1>4. QED
  BY <1>1, <1>2, <1>3, PTL DEF Spec
=============================================================================
