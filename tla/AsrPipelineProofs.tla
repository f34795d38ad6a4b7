-------------------------- MODULE AsrPipelineProofs --------------------------
(***************************************************************************)
(* Proofs about AsrPipeline, for every preroll, limit and lag and without  *)
(* the bounds of the small instances: no audio is recognised twice or out  *)
(* of order, no utterance is forgotten or outgrows the limit, and the      *)
(* finals are sent in order.                                               *)
(***************************************************************************)
EXTENDS AsrPipeline, SequenceTheorems, TLAPS

-----------------------------------------------------------------------------
(* The inductive invariant.                                                *)

Processing == worker \in {"events", "recognising"}

\* The types of what the worker cuts.
CutType ==
    /\ worker \in { "loading", "idle", "reading", "events", "recognising",
                    "finalising", "ended" }
    /\ loaded \in BOOLEAN
    /\ consumed \in BOOLEAN
    /\ taken \in Nat
    /\ Processing => taken > 0
    /\ worker \in {"recognising", "finalising"} => Len(outcome) > 0
    /\ events \in Seq({"start", "end"})
    /\ preroll \in Seq(Nat)
    /\ outcome \in Seq(Outcomes)
    /\ audio \in Seq(Seq(Nat))
    /\ Len(audio) = Len(outcome)
    /\ open \in 0..Len(outcome)

\* The newest block that has found its place: the one in hand has not, unless
\* it was consumed.
Placed == IF Processing /\ ~consumed THEN taken - 1 ELSE taken

\* Consecutive blocks.
Run(blocks) == \A k \in 1..Len(blocks) : blocks[k] + 1 = blocks[1] + k

\* Consecutive blocks up to the newest one that is placed.
UpToPlaced(blocks) == \A k \in 1..Len(blocks) : blocks[k] + Len(blocks) = Placed + k

\* Every block of the first is older than every block of the second.
Older(first, second) ==
    \A j \in DOMAIN first, k \in DOMAIN second : first[j] < second[k]

\* The utterances are runs of blocks, one after the other.
Cut ==
    /\ \A u \in Utterances : Run(audio[u])
    /\ \A u \in Utterances : \A k \in DOMAIN audio[u] : audio[u][k] <= Placed
    /\ \A u, v \in Utterances : u < v => Older(audio[u], audio[v])

\* The preroll comes after all of them and ends with the newest block.
PrerollNew ==
    /\ UpToPlaced(preroll)
    /\ \A u \in Utterances : Older(audio[u], preroll)

\* The open utterance is the newest one and has the blocks since its start.
OpenNew == open # 0 =>
    /\ open = Len(outcome)
    /\ preroll = << >>
    /\ loaded => UpToPlaced(audio[open])

\* Between two blocks nothing is left of the last one, and a worker that has
\* not loaded has nothing open.
BetweenBlocks ==
    /\ ~Processing => ~consumed /\ events = << >>
    /\ worker \in {"loading", "idle", "recognising", "finalising"} => open = 0

CutInv == CutType /\ Cut /\ PrerollNew /\ OpenNew /\ BetweenBlocks

-----------------------------------------------------------------------------
(* Sequences.                                                              *)

\* A suffix is the end of its sequence.
LEMMA SuffixIsEnd ==
    ASSUME NEW seq \in Seq(Nat), NEW n \in Nat
    PROVE  /\ Suffix(seq, n) \in Seq(Nat)
           /\ \E d \in Nat : /\ Len(Suffix(seq, n)) = Len(seq) - d
                            /\ \A k \in 1..Len(seq) - d : Suffix(seq, n)[k] = seq[k + d]
<1> DEFINE d == Less(Len(seq), n)
<1>1. d \in 0..Len(seq)
  BY DEF Less
<1>2. Suffix(seq, n) = SubSeq(seq, d + 1, Len(seq))
  BY DEF Suffix
<1> HIDE DEF d
<1>3. /\ SubSeq(seq, d + 1, Len(seq)) \in Seq(Nat)
      /\ Len(SubSeq(seq, d + 1, Len(seq))) = Len(seq) - d
      /\ \A k \in 1..Len(seq) - d : SubSeq(seq, d + 1, Len(seq))[k] = seq[k + d]
  BY <1>1
<1> QED BY <1>1, <1>2, <1>3

\* What ends with the newest block does so when that block is appended, and so
\* does a suffix of it.
LEMMA AppendNext ==
    ASSUME NEW blocks \in Seq(Nat), NEW next \in Nat,
           \A k \in 1..Len(blocks) : blocks[k] + Len(blocks) = next - 1 + k
    PROVE  \A k \in 1..Len(Append(blocks, next)) :
              Append(blocks, next)[k] + Len(Append(blocks, next)) = next + k
<1> SUFFICES ASSUME NEW k \in 1..Len(blocks) + 1
             PROVE  Append(blocks, next)[k] + (Len(blocks) + 1) = next + k
  OBVIOUS
<1>1. Len(blocks) \in Nat /\ k \in Nat
  OBVIOUS
<1>2. CASE k = Len(blocks) + 1
  BY <1>1, <1>2
<1>3. CASE k \in 1..Len(blocks)
  <2>1. Append(blocks, next)[k] = blocks[k] /\ blocks[k] \in Nat
    BY <1>3
  <2>2. blocks[k] + Len(blocks) = next - 1 + k
    BY <1>3
  <2>3. \A x, l \in Nat : x + l = next - 1 + k => x + (l + 1) = next + k
    BY <1>1
  <2>4. blocks[k] + (Len(blocks) + 1) = next + k
    BY <1>1, <2>1, <2>2, <2>3, Zenon
  <2> QED BY <2>1, <2>4, Zenon
<1> QED BY <1>1, <1>2, <1>3

LEMMA SuffixOfRun ==
    ASSUME NEW blocks \in Seq(Nat), NEW n \in Nat, NEW last \in Nat,
           \A k \in 1..Len(blocks) : blocks[k] + Len(blocks) = last + k
    PROVE  \A k \in 1..Len(Suffix(blocks, n)) :
              Suffix(blocks, n)[k] + Len(Suffix(blocks, n)) = last + k
<1>1. PICK d \in Nat : /\ Len(Suffix(blocks, n)) = Len(blocks) - d
                       /\ \A k \in 1..Len(blocks) - d : Suffix(blocks, n)[k] = blocks[k + d]
  BY SuffixIsEnd
<1> SUFFICES ASSUME NEW k \in 1..Len(blocks) - d
             PROVE  Suffix(blocks, n)[k] + (Len(blocks) - d) = last + k
  BY <1>1
<1>2. Len(blocks) \in Nat /\ k \in Nat /\ d \in Nat /\ k + d \in 1..Len(blocks)
  OBVIOUS
<1>3. blocks[k + d] + Len(blocks) = last + (k + d) /\ blocks[k + d] \in Nat
  BY <1>2
<1>4. Suffix(blocks, n)[k] = blocks[k + d]
  BY <1>1
<1>5. \A x, l \in Nat : x + l = last + (k + d) => x + (l - d) = last + k
  BY <1>2
<1>6. blocks[k + d] + (Len(blocks) - d) = last + k
  BY <1>2, <1>3, <1>5, Zenon
<1> QED BY <1>4, <1>6, Zenon

LEMMA UpToPlacedRuns ==
    ASSUME NEW blocks \in Seq(Nat), Placed \in Nat, UpToPlaced(blocks)
    PROVE  Run(blocks) /\ \A k \in 1..Len(blocks) : blocks[k] <= Placed
<1> SUFFICES ASSUME NEW k \in 1..Len(blocks)
             PROVE  blocks[k] + 1 = blocks[1] + k /\ blocks[k] <= Placed
  BY DEF Run
<1>1. Len(blocks) \in Nat /\ 1 \in 1..Len(blocks)
  OBVIOUS
<1>2. blocks[k] + Len(blocks) = Placed + k /\ blocks[1] + Len(blocks) = Placed + 1
  BY <1>1 DEF UpToPlaced
<1>3. blocks[k] \in Nat /\ blocks[1] \in Nat
  BY <1>1
<1> QED BY <1>1, <1>2, <1>3, SMTT(30)

-----------------------------------------------------------------------------
(* Every step keeps the invariant.                                         *)

LEMMA InitCut == Init => CutInv
<1> SUFFICES ASSUME Init PROVE CutInv
  OBVIOUS
<1>1. CutType
  <2>1. audio \in Seq(Seq(Nat)) /\ Len(audio) = 0
    BY DEF Init
  <2>2. outcome \in Seq(Outcomes) /\ Len(outcome) = 0
    BY DEF Init
  <2>3. events \in Seq({"start", "end"}) /\ preroll \in Seq(Nat)
    BY DEF Init
  <2>4. open \in 0..Len(outcome) /\ taken \in Nat
    BY <2>2 DEF Init
  <2>5. /\ worker = "loading" /\ loaded \in BOOLEAN /\ consumed \in BOOLEAN
        /\ ~Processing
    BY DEF Init, Processing
  <2> QED BY <2>1, <2>2, <2>3, <2>4, <2>5 DEF CutType
<1>2. Utterances = {}
  BY DEF Init, Utterances
<1>3. preroll = << >> /\ open = 0
  BY DEF Init
<1>4. BetweenBlocks
  BY DEF Init, BetweenBlocks, Processing
<1>5. Cut
  BY <1>2 DEF Cut
<1>6. PrerollNew
  BY <1>2, <1>3 DEF PrerollNew, UpToPlaced
<1>7. OpenNew
  BY <1>3 DEF OpenNew
<1> QED BY <1>1, <1>4, <1>5, <1>6, <1>7 DEF CutInv

LEMMA AudioNumbers ==
    ASSUME CutType
    PROVE  \A u \in Utterances : \A k \in DOMAIN audio[u] : audio[u][k] \in Nat
<1> SUFFICES ASSUME NEW u \in Utterances, NEW k \in DOMAIN audio[u] PROVE audio[u][k] \in Nat
  OBVIOUS
<1>1. u \in 1..Len(audio)
  BY DEF CutType, Utterances
<1>2. audio[u] \in Seq(Nat)
  BY <1>1 DEF CutType
<1> QED BY <1>2

LEMMA PlacedIsNumber == ASSUME CutType PROVE Placed \in Nat
BY DEF CutType, Placed

\* A step that adds no audio anywhere and forgets the preroll or the open
\* utterance at most.
LEMMA NoAudioCut ==
    ASSUME CutInv, CutType', BetweenBlocks',
           UNCHANGED audio, Len(outcome') = Len(outcome), Placed' = Placed,
           preroll' \in {preroll, << >>},
           open' \in {0, open},
           open' # 0 => preroll' = preroll /\ loaded' = loaded
    PROVE  CutInv'
<1>1. Utterances' = Utterances
  BY DEF CutInv, CutType, Utterances
<1>2. Cut'
  BY <1>1 DEF CutInv, Cut, Run, Older
<1>3. PrerollNew'
  BY <1>1 DEF CutInv, PrerollNew, UpToPlaced, Older
<1>4. OpenNew'
  BY DEF CutInv, OpenNew, UpToPlaced
<1> QED BY <1>2, <1>3, <1>4 DEF CutInv

\* The event loop does not touch what the worker cuts.
LEMMA LoopCut ==
    ASSUME CutInv, UNCHANGED << thread, loaded >>
    PROVE  CutInv'
<1> USE DEF thread, block, utterance, CutInv
<1>1. CutType' /\ BetweenBlocks'
  BY DEF CutType, BetweenBlocks, Processing
<1>2. Placed' = Placed
  BY DEF Placed, Processing
<1> QED BY <1>1, <1>2, NoAudioCut

LEMMA LoadCut == ASSUME CutInv, Load PROVE CutInv'
<1> USE DEF Load, block, utterance, CutInv
<1>1. CutType' /\ BetweenBlocks'
  BY DEF CutType, BetweenBlocks, Processing
<1>2. Placed' = Placed /\ open = 0
  BY DEF Placed, Processing, BetweenBlocks
<1> QED BY <1>1, <1>2, NoAudioCut

LEMMA IdleEndsCut == ASSUME CutInv, IdleEnds PROVE CutInv'
<1> USE DEF IdleEnds, block, utterance, CutInv
<1>1. CutType' /\ BetweenBlocks'
  BY DEF CutType, BetweenBlocks, Processing
<1>2. Placed' = Placed
  BY DEF Placed, Processing
<1> QED BY <1>1, <1>2, NoAudioCut

LEMMA TakeBlockCut == ASSUME CutInv, TakeBlock PROVE CutInv'
<1> USE DEF TakeBlock, utterance, CutInv
<1>1. events' \in Seq({"start", "end"})
  <2>1. events' \in { << >>, << "start" >>, << "start", "end" >>, << "end" >>,
                      << "end", "start" >> }
    BY DEF Reports
  <2>2. \A T : \A a, b \in T :
          << >> \in Seq(T) /\ << a >> \in Seq(T) /\ << a, b >> \in Seq(T)
    OBVIOUS
  <2>3. \A a, b \in {"start", "end"} :
          /\ << >> \in Seq({"start", "end"})
          /\ << a >> \in Seq({"start", "end"})
          /\ << a, b >> \in Seq({"start", "end"})
    BY <2>2
  <2> QED BY <2>1, <2>3, Zenon
<1>2. CutType' /\ BetweenBlocks'
  BY <1>1 DEF CutType, BetweenBlocks, Processing
<1>3. Placed' = Placed
  BY DEF Placed, Processing, BetweenBlocks, CutType
<1> QED BY <1>2, <1>3, NoAudioCut

LEMMA RecognisedCut == ASSUME CutInv, Recognised PROVE CutInv'
<1> USE DEF Recognised, block, CutInv
<1>1. PICK what \in {"spoken", "empty"} : outcome' = [outcome EXCEPT ![Len(outcome)] = what]
  OBVIOUS
<1>2. /\ outcome' \in Seq(Outcomes)
      /\ Len(outcome') = Len(outcome)
  <2>1. what \in Outcomes /\ outcome \in Seq(Outcomes) /\ Len(outcome) \in 1..Len(outcome)
    BY DEF Outcomes, CutType
  <2> QED BY <1>1, <2>1
<1>3. CutType' /\ BetweenBlocks'
  BY <1>2 DEF CutType, BetweenBlocks, Processing
<1>4. Placed' = Placed
  BY DEF Placed, Processing, BetweenBlocks
<1> QED BY <1>2, <1>3, <1>4, NoAudioCut

LEMMA FlushCut == ASSUME CutInv, Flush PROVE CutInv'
<1> USE DEF Flush, FlushOpen, ToRecogniser, CutInv
<1>1. CutType' /\ BetweenBlocks'
  <2>1. open' \in 0..Len(outcome')
    BY DEF CutType
  <2>2. BetweenBlocks'
    BY DEF BetweenBlocks, Processing
  <2> QED BY <2>1, <2>2 DEF CutType, Processing
<1>2. Placed' = Placed /\ open' \in {0, open}
  BY DEF Placed, Processing, BetweenBlocks
<1> QED BY <1>1, <1>2, NoAudioCut

LEMMA AbandonKeepsLength ==
    ASSUME CutType, NEW why \in Outcomes, Abandon(why)
    PROVE  outcome' \in Seq(Outcomes) /\ Len(outcome') = Len(outcome)
BY DEF Abandon, CutType

LEMMA StallCut == ASSUME CutInv, Stall PROVE CutInv'
<1> USE DEF Stall, block, CutInv
<1>1. outcome' \in Seq(Outcomes) /\ Len(outcome') = Len(outcome)
  BY AbandonKeepsLength DEF Outcomes
<1>2. CutType' /\ BetweenBlocks'
  <2>1. open' \in 0..Len(outcome')
    BY <1>1 DEF CutType
  <2>2. BetweenBlocks'
    BY <1>1 DEF BetweenBlocks, Processing
  <2> QED BY <1>1, <2>1, <2>2 DEF CutType, Processing
<1>3. Placed' = Placed
  BY DEF Placed, Processing
<1> QED BY <1>1, <1>2, <1>3, NoAudioCut

LEMMA RestartCut == ASSUME CutInv, Restart PROVE CutInv'
<1> USE DEF Restart, CutInv
<1>1. CutType' /\ BetweenBlocks'
  <2>1. open' \in 0..Len(outcome')
    BY DEF CutType
  <2>2. BetweenBlocks'
    BY DEF BetweenBlocks, Processing
  <2>3. preroll' \in Seq(Nat)
    OBVIOUS
  <2>4. ~Processing' /\ worker' = "loading" /\ loaded' \in BOOLEAN
    BY DEF Processing
  <2> QED BY <2>1, <2>2, <2>3, <2>4 DEF CutType
<1>2. Placed' = Placed
  BY DEF Placed, Processing
<1> QED BY <1>1, <1>2, NoAudioCut

LEMMA WaitEndsCut == ASSUME CutInv, WaitEnds PROVE CutInv'
<1> USE DEF CutInv
<1>1. Unload
  BY DEF WaitEnds
<1>2. outcome' \in Seq(Outcomes) /\ Len(outcome') = Len(outcome)
  BY <1>1, AbandonKeepsLength DEF Unload, Outcomes
<1>3. CutType' /\ BetweenBlocks'
  <2>1. open' \in 0..Len(outcome')
    BY <1>1, <1>2 DEF Unload, CutType
  <2>2. BetweenBlocks'
    BY <1>1, <1>2 DEF Unload, BetweenBlocks, Processing
  <2>3. preroll' \in Seq(Nat)
    BY <1>1 DEF Unload
  <2>4. loaded' \in BOOLEAN /\ (Processing' <=> Processing)
    BY <1>1 DEF Unload, Processing
  <2> QED BY <1>1, <1>2, <2>1, <2>2, <2>3, <2>4 DEF Unload, CutType
<1>4. Placed' = Placed
  BY <1>1 DEF Unload, Placed, Processing
<1> QED BY <1>1, <1>2, <1>3, <1>4, NoAudioCut DEF Unload

LEMMA StartEventCut == ASSUME CutInv, StartEvent PROVE CutInv'
<1>1. /\ worker = "events" /\ worker' = worker
      /\ events' \in Seq({"start", "end"})
      /\ UNCHANGED << loaded, consumed, taken >>
  BY DEF StartEvent, CutInv, CutType
<1>2. Placed' = Placed /\ Placed \in Nat
  BY <1>1, PlacedIsNumber DEF Placed, Processing, CutInv
<1>3. CASE open # 0
  <2>1. UNCHANGED << utterance, preroll >>
    BY <1>3 DEF StartEvent
  <2>2. CutType' /\ BetweenBlocks'
    BY <1>1, <2>1 DEF utterance, CutInv, CutType, BetweenBlocks, Processing
  <2> QED BY <1>1, <1>2, <2>1, <2>2, NoAudioCut DEF utterance
<1>4. CASE open = 0
  <2> USE DEF CutInv
  <2>1. /\ open' = Len(outcome) + 1
        /\ \E what \in Outcomes : outcome' = Append(outcome, what)
        /\ audio' = Append(audio, preroll)
        /\ preroll' = << >>
    BY <1>4 DEF StartEvent, Begin, Outcomes
  <2>2. /\ outcome' \in Seq(Outcomes) /\ Len(outcome') = Len(outcome) + 1
        /\ audio' \in Seq(Seq(Nat)) /\ Len(audio') = Len(outcome')
    BY <2>1 DEF CutType
  <2>3. Len(outcome) \in Nat /\ open' \in 1..Len(outcome')
    BY <2>1, <2>2 DEF CutType
  <2>4. CutType' /\ BetweenBlocks'
    <3>1. preroll' \in Seq(Nat)
      BY <2>1
    <3> QED BY <1>1, <2>2, <2>3, <3>1 DEF CutType, BetweenBlocks, Processing
  <2>5. /\ Utterances = 1..Len(outcome) /\ Utterances' = 1..Len(outcome) + 1
        /\ \A u \in Utterances : audio'[u] = audio[u]
        /\ audio'[Len(outcome) + 1] = preroll
    BY <2>1, <2>2 DEF Utterances, CutType
  <2>6. /\ Run(preroll)
        /\ \A k \in DOMAIN preroll : preroll[k] <= Placed
        /\ \A u \in Utterances : Older(audio[u], preroll)
    <3>1. DOMAIN preroll = 1..Len(preroll)
      BY DEF CutType
    <3> QED BY <1>2, <3>1, UpToPlacedRuns DEF PrerollNew, CutType
  <2>7. \A u \in Utterances' : u \in Utterances \/ u = Len(outcome) + 1
    BY <2>3, <2>5
  <2>8. Cut'
    <3>1. \A u \in Utterances' : Run(audio'[u]) /\ \A k \in DOMAIN audio'[u] : audio'[u][k] <= Placed
      BY <2>5, <2>6, <2>7, Zenon DEF Cut
    <3>2. ASSUME NEW u \in Utterances', NEW v \in Utterances', u < v
          PROVE  Older(audio'[u], audio'[v])
      <4>1. u \in Utterances
        BY <2>3, <2>5, <3>2
      <4>2. CASE v \in Utterances
        BY <2>5, <3>2, <4>1, <4>2 DEF Cut
      <4>3. CASE v = Len(outcome) + 1
        BY <2>5, <2>6, <4>1, <4>3
      <4> QED BY <2>7, <4>2, <4>3
    <3> QED BY <1>2, <3>1, <3>2 DEF Cut, Run, Older
  <2>9. PrerollNew'
    BY <2>1 DEF PrerollNew, UpToPlaced, Older
  <2>10. OpenNew'
    <3>1. UpToPlaced(preroll)
      BY DEF PrerollNew
    <3> QED BY <1>2, <2>1, <2>2, <2>5, <3>1 DEF OpenNew, UpToPlaced
  <2> QED BY <2>4, <2>8, <2>9, <2>10
<1> QED BY <1>3, <1>4

\* The block in hand joins the open utterance.
LEMMA AppendCut ==
    ASSUME CutInv, Processing, ~consumed, open # 0, loaded,
           audio' = [audio EXCEPT ![open] = Append(@, taken)],
           Len(outcome') = Len(outcome), Placed' = taken, preroll' = preroll
    PROVE  /\ audio' \in Seq(Seq(Nat)) /\ Len(audio') = Len(audio)
           /\ Cut' /\ PrerollNew'
           /\ \A k \in 1..Len(audio'[open]) : audio'[open][k] + Len(audio'[open]) = taken + k
<1> USE DEF CutInv
<1>1. /\ open = Len(outcome) /\ open \in Utterances
      /\ Utterances = 1..Len(outcome) /\ Utterances' = Utterances
      /\ Len(outcome) \in Nat
  BY DEF OpenNew, CutType, Utterances
<1>2. taken \in Nat /\ Placed = taken - 1 /\ Placed \in Nat /\ preroll = << >>
  BY DEF CutType, Placed, OpenNew
<1> DEFINE new == Append(audio[open], taken)
<1>3. /\ audio[open] \in Seq(Nat) /\ new \in Seq(Nat)
      /\ audio' \in Seq(Seq(Nat)) /\ Len(audio') = Len(audio)
      /\ audio'[open] = new
      /\ \A u \in Utterances : u # open => audio'[u] = audio[u]
  BY <1>1, <1>2 DEF CutType
<1>4. \A k \in 1..Len(audio[open]) : audio[open][k] + Len(audio[open]) = taken - 1 + k
  BY <1>2 DEF OpenNew, UpToPlaced
<1>5. \A k \in 1..Len(new) : new[k] + Len(new) = taken + k
  BY <1>2, <1>3, <1>4, AppendNext
<1>6. Run(new) /\ \A k \in DOMAIN new : new[k] <= taken
  <2>1. DOMAIN new = 1..Len(new)
    BY <1>3
  <2>2. \A k \in 1..Len(new) : new[k] + 1 = new[1] + k /\ new[k] <= taken
    <3> SUFFICES ASSUME NEW k \in 1..Len(new) PROVE new[k] + 1 = new[1] + k /\ new[k] <= taken
      OBVIOUS
    <3>1. Len(new) \in Nat /\ 1 \in 1..Len(new) /\ new[k] \in Nat /\ new[1] \in Nat
      BY <1>3, SMTT(30)
    <3>2. new[k] + Len(new) = taken + k /\ new[1] + Len(new) = taken + 1
      BY <1>5, <3>1
    <3> HIDE DEF new
    <3> QED BY <1>2, <3>1, <3>2
  <2> QED BY <2>1, <2>2 DEF Run
<1>7. ASSUME NEW u \in Utterances, u < open PROVE Older(audio[u], new)
  <2>1. \A j \in DOMAIN audio[u] : audio[u][j] <= Placed /\ audio[u][j] \in Nat
    BY AudioNumbers DEF Cut
  <2>2. Older(audio[u], audio[open])
    BY <1>1, <1>7 DEF Cut
  <2>3. \A k \in DOMAIN new : new[k] = taken \/ (k \in DOMAIN audio[open] /\ new[k] = audio[open][k])
    BY <1>3
  <2>4. \A j \in DOMAIN audio[u] : audio[u][j] < taken
    BY <1>2, <2>1
  <2> QED BY <2>2, <2>3, <2>4, Zenon DEF Older
<1> HIDE DEF new
<1>8. Cut'
  <2>1. ASSUME NEW u \in Utterances
        PROVE  Run(audio'[u]) /\ \A k \in DOMAIN audio'[u] : audio'[u][k] <= taken
    <3>1. CASE u = open
      BY <1>3, <1>6, <3>1
    <3>2. CASE u # open
      <4>1. Run(audio[u]) /\ \A k \in DOMAIN audio[u] : audio[u][k] <= Placed /\ audio[u][k] \in Nat
        BY AudioNumbers DEF Cut
      <4>2. audio'[u] = audio[u]
        BY <1>3, <3>2
      <4>3. \A k \in DOMAIN audio[u] : audio[u][k] <= taken
        BY <1>2, <4>1
      <4> QED BY <4>1, <4>2, <4>3, Zenon
    <3> QED BY <3>1, <3>2
  <2>2. ASSUME NEW u \in Utterances, NEW v \in Utterances, u < v
        PROVE  Older(audio'[u], audio'[v])
    <3>1. u # open /\ u < open
      BY <1>1, <2>2
    <3>2. CASE v = open
      BY <1>3, <1>7, <3>1, <3>2
    <3>3. CASE v # open
      BY <1>3, <2>2, <3>1, <3>3 DEF Cut
    <3> QED BY <3>2, <3>3
  <2> QED BY <1>1, <2>1, <2>2 DEF Cut, Run, Older
<1>9. PrerollNew'
  BY <1>2 DEF PrerollNew, UpToPlaced, Older
<1> QED BY <1>3, <1>5, <1>8, <1>9

\* What EndEvent and BlockEnds do to the open utterance: it has the block in
\* hand if it did not have it before and the pipeline is still loaded.
LEMMA AccumulateCut ==
    ASSUME CutInv, worker = "events", open # 0, Accumulate,
           outcome' = outcome, preroll' = preroll, loaded' = loaded, taken' = taken,
           open' \in {0, open},
           worker' \in {"events", "recognising", "reading"},
           worker' = "recognising" => Len(outcome) > 0 /\ open' = 0,
           worker' = "reading" => ~consumed' /\ events' = << >>,
           worker' # "reading" => consumed',
           consumed' \in BOOLEAN, events' \in Seq({"start", "end"})
    PROVE  CutInv'
<1> USE DEF CutInv
<1>1. Placed' = taken /\ taken \in Nat
  BY DEF Placed, Processing, CutType
<1>2. BetweenBlocks'
  BY DEF BetweenBlocks, Processing
<1>3. Utterances' = Utterances /\ preroll = << >>
  BY DEF Utterances, OpenNew
<1>4. CASE loaded /\ ~consumed
  <2>1. audio' = [audio EXCEPT ![open] = Append(@, taken)] /\ Processing
    BY <1>4 DEF Accumulate, Processing
  <2>2. /\ audio' \in Seq(Seq(Nat)) /\ Len(audio') = Len(audio)
        /\ Cut' /\ PrerollNew'
        /\ \A k \in 1..Len(audio'[open]) : audio'[open][k] + Len(audio'[open]) = taken + k
    BY <1>1, <1>4, <2>1, AppendCut
  <2>3. OpenNew'
    BY <1>1, <1>3, <2>2 DEF OpenNew, UpToPlaced
  <2>4. CutType'
    <3>1. open' \in 0..Len(outcome')
      BY DEF CutType
    <3> QED BY <2>1, <2>2, <3>1 DEF CutType, Processing
  <2> QED BY <1>2, <2>2, <2>3, <2>4
<1>5. CASE ~loaded \/ consumed
  <2>1. audio' = audio
    BY <1>5 DEF Accumulate
  <2>2. CutType'
    <3>1. open' \in 0..Len(outcome')
      BY DEF CutType
    <3> QED BY <2>1, <3>1 DEF CutType, Processing
  <2>3. \A u \in Utterances : \A k \in DOMAIN audio[u] : audio[u][k] <= Placed /\ audio[u][k] \in Nat
    BY AudioNumbers DEF Cut
  <2>4. Placed <= taken /\ Placed \in Nat /\ (consumed => Placed = taken)
    BY DEF Placed, Processing, CutType
  <2>5. \A u \in Utterances : \A k \in DOMAIN audio[u] : audio[u][k] <= taken
    BY <1>1, <2>3, <2>4
  <2>6. Cut'
    BY <1>1, <1>3, <2>1, <2>5, ZenonT(60) DEF Cut, Run, Older
  <2>7. PrerollNew'
    BY <1>3 DEF PrerollNew, UpToPlaced, Older
  <2>8. OpenNew'
    <3> SUFFICES ASSUME open' # 0, loaded PROVE UpToPlaced(audio[open])'
      BY <1>3 DEF OpenNew
    <3>1. consumed
      BY <1>5
    <3> QED BY <1>1, <2>1, <2>4, <3>1 DEF OpenNew, UpToPlaced
  <2> QED BY <1>2, <2>2, <2>6, <2>7, <2>8
<1> QED BY <1>4, <1>5 DEF CutType

LEMMA EndEventCut == ASSUME CutInv, EndEvent PROVE CutInv'
<1>1. /\ worker = "events" /\ Processing
      /\ events' \in Seq({"start", "end"})
      /\ UNCHANGED << loaded, outcome, preroll, taken >>
  BY DEF EndEvent, CutInv, CutType, Processing
<1>2. CASE open # 0
  <2>1. Accumulate /\ consumed' = TRUE
    BY <1>2 DEF EndEvent
  <2>2. /\ open' \in {0, open}
        /\ worker' \in {"events", "recognising"}
        /\ worker' = "recognising" => open' = 0
    BY <1>1, <1>2 DEF EndEvent, ToRecogniser
  <2>3. Len(outcome) > 0
    BY <1>2 DEF CutInv, CutType
  <2> QED BY <1>1, <1>2, <2>1, <2>2, <2>3, AccumulateCut
<1>3. CASE open = 0
  <2>1. UNCHANGED << audio, consumed, worker, open >>
    BY <1>3 DEF EndEvent
  <2>2. CutType' /\ BetweenBlocks'
    BY <1>1, <2>1 DEF CutInv, CutType, BetweenBlocks, Processing
  <2>3. Placed' = Placed
    BY <1>1, <2>1 DEF Placed, Processing
  <2> QED BY <1>1, <2>1, <2>2, <2>3, NoAudioCut
<1> QED BY <1>2, <1>3

LEMMA BlockEndsCut == ASSUME CutInv, BlockEnds PROVE CutInv'
<1>1. /\ worker = "events" /\ Processing /\ events = << >>
      /\ UNCHANGED << loaded, outcome, taken, events >>
      /\ taken \in Nat /\ taken > 0
  BY DEF BlockEnds, CutInv, CutType, Processing
<1>2. CASE open # 0
  <2>1. Accumulate /\ preroll' = preroll
    BY <1>2 DEF BlockEnds
  <2>2. \/ worker' = "recognising" /\ open' = 0 /\ consumed' = TRUE
        \/ worker' = "reading" /\ open' = open /\ consumed' = FALSE
    BY <1>2 DEF BlockEnds, ToRecogniser
  <2>3. Len(outcome) > 0
    BY <1>2 DEF CutInv, CutType
  <2>4. events' \in Seq({"start", "end"})
    BY <1>1 DEF CutInv, CutType
  <2> QED BY <1>1, <1>2, <2>1, <2>2, <2>3, <2>4, AccumulateCut
<1>3. CASE open = 0
  <2> USE DEF CutInv
  <2>1. /\ worker' = "reading" /\ consumed' = FALSE
        /\ preroll' = IF consumed THEN preroll ELSE Suffix(Append(preroll, taken), Preroll)
        /\ UNCHANGED << audio, open >>
    BY <1>3 DEF BlockEnds
  <2>2. Placed' = taken /\ Utterances' = Utterances
    BY <1>1, <2>1 DEF Placed, Processing, Utterances
  <2>3. CASE consumed
    <3>1. CutType' /\ BetweenBlocks'
      BY <1>1, <2>1, <2>3 DEF CutType, BetweenBlocks, Processing
    <3>2. Placed' = Placed
      BY <1>1, <2>2, <2>3 DEF Placed
    <3> QED BY <1>1, <2>1, <2>3, <3>1, <3>2, NoAudioCut
  <2>4. CASE ~consumed
    <3> DEFINE longer == Append(preroll, taken)
    <3>1. Placed = taken - 1 /\ preroll \in Seq(Nat) /\ longer \in Seq(Nat)
      BY <1>1, <2>4 DEF Placed, CutType
    <3>2. \A k \in 1..Len(longer) : longer[k] + Len(longer) = taken + k
      BY <1>1, <3>1, AppendNext DEF PrerollNew, UpToPlaced
    <3>3. Preroll \in Nat
      BY AsrPipelineAssumption
    <3> HIDE DEF longer
    <3>4. PICK d \in Nat :
            /\ Len(Suffix(longer, Preroll)) = Len(longer) - d
            /\ \A k \in 1..Len(longer) - d : Suffix(longer, Preroll)[k] = longer[k + d]
      BY <3>1, <3>3, SuffixIsEnd
    <3>5. preroll' = Suffix(longer, Preroll) /\ preroll' \in Seq(Nat)
      BY <2>1, <2>4, <3>1, <3>3, SuffixIsEnd DEF longer
    <3>6. UpToPlaced(preroll)'
      BY <1>1, <2>2, <3>1, <3>2, <3>3, <3>5, SuffixOfRun DEF UpToPlaced
    <3>7. CutType' /\ BetweenBlocks'
      BY <1>1, <1>3, <2>1, <3>5 DEF CutType, BetweenBlocks, Processing
    <3>8. \A u \in Utterances : \A k \in DOMAIN audio[u] : audio[u][k] <= taken - 1 /\ audio[u][k] \in Nat
      BY <3>1, AudioNumbers DEF Cut
    <3>9. Cut'
      <4>1. \A u \in Utterances : \A k \in DOMAIN audio[u] : audio[u][k] <= taken
        BY <1>1, <3>8
      <4> QED BY <2>1, <2>2, <4>1, ZenonT(60) DEF Cut, Run, Older
    <3>10. PrerollNew'
      <4>1. \A k \in DOMAIN preroll' : \E i \in 1..Len(longer) : preroll'[k] = longer[i]
        <5> SUFFICES ASSUME NEW k \in DOMAIN preroll'
                     PROVE  \E i \in 1..Len(longer) : preroll'[k] = longer[i]
          OBVIOUS
        <5>1. Len(longer) \in Nat /\ DOMAIN preroll' = 1..Len(longer) - d
          BY <3>1, <3>4, <3>5, SMTT(30)
        <5>2. k \in 1..Len(longer) - d /\ k + d \in 1..Len(longer)
          BY <5>1
        <5> QED BY <3>4, <3>5, <5>2
      <4>2. \A i \in 1..Len(longer) :
               longer[i] = taken \/ (i \in DOMAIN preroll /\ longer[i] = preroll[i])
        BY <3>1 DEF longer
      <4>3. \A u \in Utterances : \A j \in DOMAIN audio[u] : audio[u][j] < taken
        BY <1>1, <3>8
      <4>4. \A u \in Utterances : \A j \in DOMAIN audio[u], i \in 1..Len(longer) :
               audio[u][j] < longer[i]
        BY <4>2, <4>3 DEF PrerollNew, Older
      <4> QED BY <2>1, <2>2, <3>6, <4>1, <4>4 DEF PrerollNew, Older
    <3>11. OpenNew'
      BY <1>3, <2>1 DEF OpenNew
    <3> QED BY <3>7, <3>9, <3>10, <3>11
  <2> QED BY <2>3, <2>4
<1> QED BY <1>2, <1>3

LEMMA StepCut == CutInv /\ [Next]_vars => CutInv'
<1> SUFFICES ASSUME CutInv, [Next]_vars PROVE CutInv'
  OBVIOUS
<1>1. CASE Device
  BY <1>1, TakeBlockCut, StallCut DEF Device
<1>2. CASE Work
  BY <1>2, LoadCut, IdleEndsCut, StartEventCut, EndEventCut, BlockEndsCut, RecognisedCut,
     FlushCut DEF Work
<1>3. CASE Restart
  BY <1>3, RestartCut
<1>4. CASE Loop \/ InsertEnds
  BY <1>4, LoopCut DEF Loop, BeginCall, TakeLock, Announce, InsertEnds
<1>5. CASE StopPipelines \/ WaitTasks \/ CloseDatabase
  BY <1>5, LoopCut DEF StopPipelines, WaitTasks, CloseDatabase
<1>6. CASE WaitEnds
  BY <1>6, WaitEndsCut
<1>7. CASE UNCHANGED vars
  BY <1>7, LoopCut DEF vars
<1> QED BY <1>1, <1>2, <1>3, <1>4, <1>5, <1>6, <1>7 DEF Next

-----------------------------------------------------------------------------
(* What follows from it.                                                   *)

LEMMA CutIsApart == CutInv => UtterancesApart
<1> SUFFICES ASSUME CutInv, NEW u \in Utterances
             PROVE  /\ \A k \in 1..Len(audio[u]) - 1 : audio[u][k + 1] = audio[u][k] + 1
                    /\ \A v \in 1..u - 1 :
                          audio[u] # << >> /\ audio[v] # << >> => Last(audio[v]) < audio[u][1]
  BY DEF UtterancesApart
<1> USE DEF CutInv
<1>1. Utterances = 1..Len(outcome) /\ Len(outcome) \in Nat /\ audio[u] \in Seq(Nat)
  BY DEF CutType, Utterances
<1>2. ASSUME NEW k \in 1..Len(audio[u]) - 1
      PROVE  audio[u][k + 1] = audio[u][k] + 1
  <2>1. /\ k \in 1..Len(audio[u]) /\ k + 1 \in 1..Len(audio[u]) /\ 1 \in 1..Len(audio[u])
        /\ k \in Nat
    BY <1>1, <1>2
  <2>2. audio[u][k] \in Nat /\ audio[u][k + 1] \in Nat /\ audio[u][1] \in Nat
    BY <1>1, <2>1, SMTT(30)
  <2>3. audio[u][k] + 1 = audio[u][1] + k /\ audio[u][k + 1] + 1 = audio[u][1] + (k + 1)
    BY <2>1 DEF Cut, Run
  <2>4. \A x, y, z \in Nat : y + 1 = x + k /\ z + 1 = x + (k + 1) => z = y + 1
    BY <2>1
  <2> QED BY <2>2, <2>3, <2>4, Zenon
<1>3. ASSUME NEW v \in 1..u - 1, audio[u] # << >>, audio[v] # << >>
      PROVE  Last(audio[v]) < audio[u][1]
  <2>1. v \in Utterances /\ v < u /\ audio[v] \in Seq(Nat)
    <3>1. v \in Nat /\ v < u /\ v \in 1..Len(outcome)
      BY <1>1, <1>3
    <3>2. \A w \in 1..Len(outcome) : audio[w] \in Seq(Nat)
      BY DEF CutType
    <3> QED BY <1>1, <3>1, <3>2, Zenon
  <2>2. Len(audio[v]) \in DOMAIN audio[v] /\ 1 \in DOMAIN audio[u]
    BY <1>1, <1>3, <2>1
  <2> QED BY <2>1, <2>2 DEF Cut, Older, Last
<1> QED BY <1>2, <1>3

\* The invariant of the cut holds throughout.
THEOREM CutInvariance == Spec => []CutInv
<1>1. Init => CutInv
  BY InitCut
<1>2. CutInv /\ [Next]_vars => CutInv'
  BY StepCut
<1> QED BY <1>1, <1>2, PTL DEF Spec

\* No block is recognised twice, none is skipped within an utterance and no two
\* utterances overlap, for every preroll, limit and lag (pipeline.py:360-410).
THEOREM UtterancesApartAlways == Spec => []UtterancesApart
<1>1. CutInv => UtterancesApart
  BY CutIsApart
<1> QED BY <1>1, CutInvariance, PTL

-----------------------------------------------------------------------------
(* No utterance is forgotten.                                              *)

\* Of the utterances that have no outcome yet there is one at most, the newest,
\* and it is open or with the recogniser; the open one of an unloaded pipeline
\* has its outcome.
Accounted == \A u \in Utterances : outcome[u] = "open" =>
    /\ u = Len(outcome)
    /\ \/ u = open /\ loaded /\ worker \in {"reading", "events"}
       \/ open = 0 /\ worker \in {"recognising", "finalising"}

AccountInv == CutInv /\ Accounted

LEMMA StepAccounted == AccountInv /\ [Next]_vars => Accounted'
<1> SUFFICES ASSUME CutInv, Accounted, [Next]_vars PROVE Accounted'
  BY DEF AccountInv
<1>1. /\ Utterances = 1..Len(outcome) /\ Len(outcome) \in Nat /\ open \in 0..Len(outcome)
      /\ outcome \in Seq(Outcomes)
      /\ open # 0 => open = Len(outcome)
      /\ worker \in {"loading", "idle", "recognising", "finalising"} => open = 0
  BY DEF CutInv, CutType, OpenNew, BetweenBlocks, Utterances
<1>2. CASE UNCHANGED << outcome, open, loaded, worker >>
  BY <1>2 DEF Accounted, Utterances
<1>3. CASE TakeBlock
  BY <1>3 DEF TakeBlock, utterance, Accounted, Utterances
<1>4. CASE Load
  BY <1>1, <1>4 DEF Load, utterance, Accounted, Utterances
<1>5. CASE IdleEnds
  BY <1>1, <1>5 DEF IdleEnds, utterance, Accounted, Utterances
<1>6. ASSUME NEW why \in Outcomes \ {"open"}, Abandon(why),
             worker' \in {worker, "ended"}, worker' = worker \/ worker = "reading",
             open' \in {0, open}, open' # 0 => worker' = "ended"
      PROVE  Accounted'
  <2>1. CASE open = 0
    <3>1. outcome' = outcome
      BY <1>6, <2>1 DEF Abandon
    <3> QED BY <1>1, <1>6, <2>1, <3>1 DEF Accounted, Utterances
  <2>2. CASE open # 0
    <3>1. outcome' = [outcome EXCEPT ![open] = why] /\ open \in 1..Len(outcome)
      BY <1>1, <1>6, <2>2 DEF Abandon
    <3>2. Len(outcome') = Len(outcome) /\ Utterances' = Utterances
      <4>1. why \in Outcomes
        BY <1>6
      <4>2. outcome' \in Seq(Outcomes) /\ Len(outcome') = Len(outcome)
        BY <1>1, <3>1, <4>1
      <4>3. Utterances' = 1..Len(outcome')
        BY <4>2 DEF Utterances
      <4> QED BY <1>1, <4>2, <4>3
    <3>3. \A u \in Utterances : outcome'[u] # "open"
      BY <1>1, <1>6, <3>1 DEF Accounted
    <3> QED BY <3>2, <3>3 DEF Accounted
  <2> QED BY <2>1, <2>2
<1>7. CASE Stall
  BY <1>6, <1>7 DEF Stall, Outcomes
<1>8. CASE WaitEnds
  BY <1>1, <1>6, <1>8 DEF WaitEnds, Unload, Outcomes
<1>9. CASE StartEvent
  <2>1. worker = "events" /\ worker' = worker /\ loaded' = loaded
    BY <1>9 DEF StartEvent
  <2>2. CASE open # 0
    BY <1>9, <2>1, <2>2 DEF StartEvent, utterance, Accounted, Utterances
  <2>3. CASE open = 0
    <3> DEFINE what == IF loaded THEN "open" ELSE "unloaded"
    <3>1. open' = Len(outcome) + 1 /\ outcome' = Append(outcome, what)
      BY <1>9, <2>3 DEF StartEvent, Begin
    <3>4. what \in Outcomes /\ (what = "open" => loaded)
      BY DEF Outcomes
    <3> HIDE DEF what
    <3>2. \A u \in Utterances : outcome[u] # "open"
      BY <1>1, <2>1, <2>3 DEF Accounted
    <3>3. /\ Len(outcome') = Len(outcome) + 1
          /\ \A u \in Utterances' : u \in Utterances \/ u = Len(outcome')
          /\ \A u \in Utterances : outcome'[u] = outcome[u]
          /\ outcome'[Len(outcome')] = what
      <4>1. outcome' \in Seq(Outcomes) /\ Len(outcome') = Len(outcome) + 1
        BY <1>1, <3>1, <3>4
      <4>2. /\ \A u \in 1..Len(outcome) : outcome'[u] = outcome[u]
            /\ outcome'[Len(outcome) + 1] = what
        BY <1>1, <3>1, <3>4
      <4>3. Utterances' = 1..Len(outcome) + 1
        BY <4>1 DEF Utterances
      <4> QED BY <1>1, <4>1, <4>2, <4>3
    <3> QED BY <2>1, <3>1, <3>2, <3>3, <3>4 DEF Accounted
  <2> QED BY <2>2, <2>3
<1>10. CASE EndEvent
  <2>1. CASE open # 0 /\ loaded
    <3>1. /\ open' = 0 /\ worker' = "recognising" /\ outcome' = outcome
      BY <1>10, <2>1 DEF EndEvent, ToRecogniser
    <3> QED BY <3>1 DEF Accounted, Utterances
  <2>2. CASE ~(open # 0 /\ loaded)
    BY <1>10, <2>2, <1>2 DEF EndEvent
  <2> QED BY <2>1, <2>2
<1>11. CASE BlockEnds
  <2>1. /\ worker = "events" /\ outcome' = outcome /\ loaded' = loaded
        /\ \/ open' = 0 /\ worker' = "recognising"
           \/ open' = open /\ worker' = "reading"
    BY <1>11 DEF BlockEnds, ToRecogniser
  <2> QED BY <2>1 DEF Accounted, Utterances
<1>12. CASE Recognised
  <2>1. PICK what \in {"spoken", "empty"} : outcome' = [outcome EXCEPT ![Len(outcome)] = what]
    BY <1>12 DEF Recognised
  <2>2. Len(outcome') = Len(outcome) /\ Utterances' = Utterances
    <3>1. Len(outcome) \in 1..Len(outcome)
      BY <1>1, <1>12 DEF Recognised, CutInv, CutType
    <3>2. what \in Outcomes
      BY DEF Outcomes
    <3>3. outcome' \in Seq(Outcomes) /\ Len(outcome') = Len(outcome)
      BY <1>1, <2>1, <3>1, <3>2
    <3>4. Utterances' = 1..Len(outcome')
      BY <3>3 DEF Utterances
    <3> QED BY <1>1, <3>3, <3>4
  <2>3. \A u \in Utterances : outcome'[u] # "open"
    BY <1>1, <2>1 DEF Accounted
  <2> QED BY <2>2, <2>3 DEF Accounted
<1>13. CASE Flush
  <2>1. /\ worker = "reading" /\ outcome' = outcome /\ loaded' = loaded
        /\ \/ loaded /\ open' = 0 /\ worker' = "finalising"
           \/ (~loaded \/ open = 0) /\ worker' = "ended"
    BY <1>13 DEF Flush, FlushOpen, ToRecogniser
  <2>2. \A u \in Utterances : outcome[u] = "open" => u = Len(outcome) /\ u = open /\ loaded /\ open # 0
    BY <1>1, <2>1 DEF Accounted
  <2>3. Utterances' = Utterances
    BY <2>1 DEF Utterances
  <2> QED BY <2>1, <2>2, <2>3 DEF Accounted
<1>14. CASE Restart
  BY <1>1, <1>14 DEF Restart, Accounted, Utterances
<1>15. CASE Loop \/ InsertEnds \/ StopPipelines \/ WaitTasks \/ CloseDatabase
  BY <1>2, <1>15 DEF Loop, BeginCall, TakeLock, Announce, InsertEnds, StopPipelines, WaitTasks,
                     CloseDatabase, thread, utterance
<1>16. CASE UNCHANGED vars
  BY <1>2, <1>16 DEF vars, thread, utterance
<1> QED BY <1>3, <1>4, <1>5, <1>7, <1>8, <1>9, <1>10, <1>11, <1>12, <1>13, <1>14, <1>15, <1>16
        DEF Next, Device, Work

\* Whatever the order of stop, unload, stall and restart, an utterance is open,
\* with the recogniser, or has an outcome ("so no sentence is lost",
\* pipeline.py:299).
THEOREM SentencesAccountedAlways == Spec => []SentencesAccounted
<1>1. Init => Accounted
  BY DEF Init, Accounted, Utterances
<1>2. AccountInv /\ [Next]_vars => Accounted'
  BY StepAccounted
<1>3. Accounted => SentencesAccounted
  BY DEF Accounted, SentencesAccounted
<1> QED BY <1>1, <1>2, <1>3, CutInvariance, PTL DEF Spec, AccountInv

-----------------------------------------------------------------------------
(* No utterance outgrows the limit.                                        *)

\* The longest utterance there can be: a preroll as long as the limit or longer
\* is all taken, with the block in which the speech begins.
Limit == IF Preroll < Longest THEN Longest ELSE Preroll + 1

\* The block in hand is counted in the position; is it still to be added to an
\* utterance?
InHand == IF Processing THEN 1 ELSE 0
ToCome == IF Processing /\ ~consumed THEN 1 ELSE 0

\* The detector may date the start too early but never too late for the preroll,
\* so the length of the open utterance is seen in its position.
GrowthInv ==
    /\ pos \in Nat /\ start \in Nat
    /\ Len(preroll) <= Preroll
    /\ worker = "loading" => preroll = << >>
    /\ loaded => Len(preroll) + InHand <= pos
    /\ \A u \in DOMAIN audio : Len(audio[u]) <= Limit
    /\ open # 0 /\ loaded =>
          /\ Len(audio[open]) + ToCome <= Limit
          /\ Len(audio[open]) + ToCome + start <= pos
          /\ worker = "reading" => pos < start + Longest

LEMMA LimitIsNumber ==
    Preroll \in Nat /\ Longest \in Nat /\ Limit \in Nat /\ Preroll + 1 <= Limit /\ Longest <= Limit
  BY AsrPipelineAssumption, SMT DEF Limit

LEMMA Sizes ==
    ASSUME CutType
    PROVE  /\ Len(preroll) \in Nat
           /\ \A u \in DOMAIN audio : Len(audio[u]) \in Nat
           /\ DOMAIN audio = 1..Len(outcome)
           /\ open # 0 => open \in DOMAIN audio
  BY SMT DEF CutType

\* What Accumulate adds to the open utterance.
LEMMA AccumulateAdds ==
    ASSUME CutInv, open # 0, Accumulate
    PROVE  /\ DOMAIN audio' = DOMAIN audio
           /\ \A u \in DOMAIN audio : u # open => audio'[u] = audio[u]
           /\ Len(audio'[open]) = IF loaded /\ ~consumed THEN Len(audio[open]) + 1
                                                          ELSE Len(audio[open])
<1>1. open \in DOMAIN audio /\ audio[open] \in Seq(Nat) /\ taken \in Nat
  BY DEF CutInv, CutType
<1>2. CASE loaded /\ ~consumed
  <2>1. audio' = [audio EXCEPT ![open] = Append(audio[open], taken)]
    BY <1>2 DEF Accumulate
  <2>2. audio \in Seq(Seq(Nat)) /\ Len(Append(audio[open], taken)) = Len(audio[open]) + 1
    BY <1>1 DEF CutInv, CutType
  <2>3. /\ audio'[open] = Append(audio[open], taken) /\ DOMAIN audio' = DOMAIN audio
        /\ \A u \in DOMAIN audio : u # open => audio'[u] = audio[u]
    BY <1>1, <2>1, <2>2
  <2>4. Len(audio'[open]) = Len(audio[open]) + 1
    BY <2>2, <2>3
  <2>5. QED
    BY <1>2, <2>3, <2>4
<1>3. CASE ~(loaded /\ ~consumed)
  <2>1. audio' = audio
    BY <1>3 DEF Accumulate
  <2>2. Len(audio[open]) \in Nat
    BY <1>1
  <2>3. QED
    BY <1>3, <2>1, <2>2
<1>4. QED
  BY <1>2, <1>3

\* The worker begins an utterance.
LEMMA BeginGrowth ==
    ASSUME CutInv, GrowthInv, StartEvent
    PROVE  GrowthInv'
<1>1. /\ worker = "events" /\ worker' = "events" /\ UNCHANGED << loaded, pos, consumed >>
      /\ Processing /\ Processing'
  BY DEF StartEvent, Processing
<1>2. InHand = 1 /\ InHand' = 1 /\ ToCome' = ToCome /\ ToCome \in {0, 1}
  BY <1>1 DEF InHand, ToCome
<1>3. CASE open # 0
  BY <1>1, <1>2, <1>3 DEF StartEvent, utterance, GrowthInv
<1>4. CASE open = 0
  <2>1. PICK lag \in 0..Lag : start' = Less(Less(pos, 1 + lag), Preroll)
    BY <1>4 DEF StartEvent, Begin
  <2>2. /\ open' = Len(outcome) + 1 /\ audio' = Append(audio, preroll) /\ preroll' = << >>
    BY <1>4 DEF StartEvent, Begin
  <2>3. /\ Len(preroll) \in Nat /\ Len(outcome) \in Nat /\ Len(audio) = Len(outcome)
        /\ audio \in Seq(Seq(Nat)) /\ preroll \in Seq(Nat) /\ lag \in Nat
    BY AsrPipelineAssumption DEF CutInv, CutType
  <2>4. /\ DOMAIN audio' = 1..(Len(outcome) + 1) /\ DOMAIN audio = 1..Len(outcome)
        /\ \A u \in DOMAIN audio : audio'[u] = audio[u]
        /\ audio'[open'] = preroll /\ Len(preroll') = 0
    BY <2>2, <2>3
  <2>5. \A u \in DOMAIN audio' : Len(audio'[u]) <= Limit
    <3>1. Len(preroll) <= Limit
      BY <2>3, LimitIsNumber DEF GrowthInv
    <3>2. \A u \in DOMAIN audio' : u \in DOMAIN audio \/ u = open'
      BY <2>2, <2>3, <2>4
    <3>3. QED
      BY <2>4, <3>1, <3>2 DEF GrowthInv
  <2>6. start' \in Nat /\ (loaded => Len(preroll) + 1 + start' <= pos)
    <3>1. pos \in Nat /\ Len(preroll) <= Preroll /\ (loaded => Len(preroll) + 1 <= pos)
      BY <1>2 DEF GrowthInv
    <3>2. QED
      BY <2>1, <2>3, <3>1, LimitIsNumber DEF Less
  <2>7. Len(preroll) + 1 <= Limit
    BY <2>3, LimitIsNumber DEF GrowthInv
  <2>8. /\ pos \in Nat /\ (loaded => 1 <= pos)
    BY <1>2, <2>3 DEF GrowthInv
  <2>9. GrowthInv'
    <3>1. \A n \in Nat : n + 1 <= Limit => n + ToCome <= Limit
      BY <1>2, LimitIsNumber
    <3>2. loaded => Len(preroll) + ToCome + start' <= pos
      BY <1>2, <2>3, <2>6, <2>8
    <3>3. Len(preroll') <= Preroll /\ (loaded => Len(preroll') + InHand' <= pos)
      BY <1>2, <2>4, <2>8, LimitIsNumber
    <3>4. QED
      BY <1>1, <1>2, <2>3, <2>4, <2>5, <2>6, <2>7, <2>8, <3>1, <3>2, <3>3 DEF GrowthInv
  <2>10. QED
    BY <2>9
<1>5. QED
  BY <1>3, <1>4

\* A block joins the utterance that is open, which may end with it.
LEMMA JoinGrowth ==
    ASSUME CutInv, GrowthInv, worker = "events", open # 0, Accumulate,
           UNCHANGED << loaded, pos, preroll >>,
           \/ open' = 0 /\ start' = 0 /\ worker' = "recognising"
           \/ /\ open' = open /\ start' = start
              /\ \/ ~loaded /\ worker' \in {"events", "reading"}
                 \/ worker' = "reading" /\ ~TooLong
    PROVE  GrowthInv'
<1>1. /\ Len(preroll) \in Nat /\ open \in DOMAIN audio /\ Len(audio[open]) \in Nat
      /\ \A u \in DOMAIN audio : Len(audio[u]) \in Nat
      /\ pos \in Nat /\ start \in Nat
  BY Sizes DEF CutInv, GrowthInv
<1>2. /\ DOMAIN audio' = DOMAIN audio
      /\ \A u \in DOMAIN audio : u # open => audio'[u] = audio[u]
      /\ Len(audio'[open]) = IF loaded /\ ~consumed THEN Len(audio[open]) + 1
                                                          ELSE Len(audio[open])
  BY AccumulateAdds
<1>3. Processing /\ InHand = 1 /\ InHand' \in {0, 1} /\ (worker' = "reading" => ToCome' = 0)
  BY DEF Processing, InHand, ToCome
<1>4. loaded => /\ Len(audio'[open]) <= Limit
                /\ Len(audio'[open]) + start <= pos
  BY <1>1, <1>2, <1>3, LimitIsNumber DEF GrowthInv, ToCome
<1>5. Len(audio'[open]) <= Limit
  BY <1>1, <1>2, <1>4 DEF GrowthInv
<1>6. \A u \in DOMAIN audio' : Len(audio'[u]) <= Limit
  BY <1>2, <1>5 DEF GrowthInv
<1>7. /\ loaded' => Len(preroll') + InHand' <= pos'
      /\ pos' \in Nat /\ start' \in Nat /\ Len(preroll') <= Preroll /\ worker' # "loading"
  BY <1>1, <1>3 DEF GrowthInv
<1>8. ASSUME open' # 0, loaded'
      PROVE  /\ Len(audio'[open']) + ToCome' <= Limit
             /\ Len(audio'[open']) + ToCome' + start' <= pos'
             /\ worker' = "reading" => pos' < start' + Longest
  <2>1. /\ open' = open /\ start' = start /\ worker' = "reading" /\ ~TooLong /\ ToCome' = 0
        /\ Len(audio'[open]) \in Nat
    BY <1>1, <1>2, <1>3, <1>8
  <2>2. pos < start + Longest
    BY <1>1, <2>1, LimitIsNumber DEF TooLong
  <2>3. QED
    BY <1>1, <1>4, <1>8, <2>1, <2>2, LimitIsNumber
<1>9. QED
  BY <1>6, <1>7, <1>8 DEF GrowthInv

\* A step that adds nothing to an utterance or to the preroll.
LEMMA RestGrowth ==
    ASSUME CutInv, GrowthInv, UNCHANGED audio, preroll' \in {preroll, << >>},
           \/ pos' = pos /\ InHand' \in {0, InHand}
           \/ pos' = 0 /\ preroll' = << >> /\ ~loaded',
           worker' = "loading" => preroll' = << >>,
           loaded' => loaded \/ (preroll' = << >> /\ InHand' = 0),
           \/ open' = 0 /\ start' \in {0, start}
           \/ open' = open /\ start' = start /\ pos' = pos /\ (loaded' => loaded)
              /\ ToCome' = ToCome /\ (worker' = "reading" => worker = "reading")
    PROVE  GrowthInv'
<1>1. /\ Len(preroll) \in Nat /\ pos \in Nat /\ start \in Nat /\ Len(<< >>) = 0
      /\ InHand \in {0, 1} /\ Preroll \in Nat
  BY Sizes, LimitIsNumber DEF CutInv, GrowthInv, InHand
<1>2. Len(preroll') <= Preroll /\ Len(preroll') \in Nat
  BY <1>1 DEF GrowthInv
<1>3. ASSUME loaded' PROVE Len(preroll') + InHand' <= pos'
  <2>1. pos' = pos /\ InHand' \in {0, InHand}
    BY <1>3
  <2>2. CASE loaded
    BY <1>1, <2>1, <2>2 DEF GrowthInv
  <2>3. CASE ~loaded
    BY <1>1, <1>3, <2>1, <2>3
  <2>4. QED
    BY <2>2, <2>3
<1>4. pos' \in Nat /\ start' \in Nat
  BY <1>1
<1>5. QED
  BY <1>2, <1>3, <1>4 DEF GrowthInv

LEMMA StepGrowth == CutInv /\ GrowthInv /\ [Next]_vars => GrowthInv'
<1> SUFFICES ASSUME CutInv, GrowthInv, [Next]_vars PROVE GrowthInv'
  OBVIOUS
<1>1. CASE TakeBlock
  <2>1. /\ worker = "reading" /\ worker' = "events" /\ pos' = pos + 1 /\ consumed' = consumed
        /\ UNCHANGED << loaded, start, preroll, audio, open >> /\ ~consumed
    BY <1>1 DEF TakeBlock, utterance, CutInv, BetweenBlocks, Processing
  <2>2. InHand = 0 /\ InHand' = 1 /\ ToCome = 0 /\ ToCome' = 1
    BY <2>1 DEF InHand, ToCome, Processing
  <2>3. /\ Len(preroll) \in Nat /\ pos \in Nat /\ start \in Nat
        /\ open # 0 => Len(audio[open]) \in Nat
    BY Sizes DEF CutInv, GrowthInv
  <2>4. loaded' => Len(preroll') + InHand' <= pos'
    BY <2>1, <2>2, <2>3 DEF GrowthInv
  <2>5. ASSUME open' # 0, loaded'
        PROVE  /\ Len(audio'[open']) + ToCome' <= Limit
               /\ Len(audio'[open']) + ToCome' + start' <= pos'
    <3>1. Len(audio[open]) + start <= pos /\ pos < start + Longest
      BY <2>1, <2>2, <2>3, <2>5 DEF GrowthInv
    <3>2. QED
      BY <2>1, <2>2, <2>3, <2>5, <3>1, LimitIsNumber
  <2>6. QED
    BY <2>1, <2>3, <2>4, <2>5 DEF GrowthInv
<1>2. CASE StartEvent
  BY <1>2, BeginGrowth
<1>3. CASE EndEvent
  <2>1. worker = "events" /\ UNCHANGED << loaded, pos, preroll >>
    BY <1>3 DEF EndEvent
  <2>2. CASE open # 0
    <3>1. Accumulate
      BY <1>3, <2>2 DEF EndEvent
    <3>2. \/ open' = 0 /\ start' = 0 /\ worker' = "recognising"
          \/ open' = open /\ start' = start /\ ~loaded /\ worker' = "events"
      BY <1>3, <2>1, <2>2 DEF EndEvent, ToRecogniser
    <3>3. QED
      BY <2>1, <2>2, <3>1, <3>2, JoinGrowth
  <2>3. CASE open = 0
    <3>1. UNCHANGED << audio, consumed, worker, open, start >>
      BY <1>3, <2>3 DEF EndEvent
    <3>2. InHand' = InHand /\ ToCome' = ToCome
      BY <3>1 DEF InHand, ToCome, Processing
    <3>3. QED
      BY <2>1, <3>1, <3>2, RestGrowth
  <2>4. QED
    BY <2>2, <2>3
<1>4. CASE BlockEnds
  <2>1. worker = "events" /\ UNCHANGED << loaded, pos >>
    BY <1>4 DEF BlockEnds
  <2>2. CASE open # 0
    <3>1. Accumulate /\ preroll' = preroll
      BY <1>4, <2>2 DEF BlockEnds
    <3>2. \/ open' = 0 /\ start' = 0 /\ worker' = "recognising"
          \/ /\ open' = open /\ start' = start /\ worker' = "reading"
             /\ ~loaded \/ ~TooLong
      BY <1>4, <2>1, <2>2 DEF BlockEnds, ToRecogniser
    <3>3. QED
      BY <2>1, <2>2, <3>1, <3>2, JoinGrowth
  <2>3. CASE open = 0
    <3>1. /\ worker' = "reading" /\ UNCHANGED << audio, open, start >>
          /\ preroll' = IF consumed THEN preroll ELSE Suffix(Append(preroll, taken), Preroll)
      BY <1>4, <2>3 DEF BlockEnds
    <3>2. /\ InHand = 1 /\ InHand' = 0 /\ Len(preroll) \in Nat /\ pos \in Nat
          /\ preroll \in Seq(Nat) /\ taken \in Nat
      BY <2>1, <3>1, Sizes DEF InHand, Processing, CutInv, CutType, GrowthInv
    <3>3. Len(preroll') <= Preroll /\ Len(preroll') \in Nat /\ Len(preroll') <= Len(preroll) + 1
      <4>1. CASE consumed
        BY <3>1, <3>2, <4>1, LimitIsNumber DEF GrowthInv
      <4>2. CASE ~consumed
        <5> DEFINE longer == Append(preroll, taken)
        <5>1. longer \in Seq(Nat) /\ Len(longer) = Len(preroll) + 1
          BY <3>2
        <5> HIDE DEF longer
        <5>2. /\ Less(Len(longer), Preroll) \in Nat
              /\ Len(longer) - Less(Len(longer), Preroll) <= Preroll
              /\ Less(Len(longer), Preroll) <= Len(longer)
          BY <3>2, <5>1, LimitIsNumber DEF Less
        <5>3. Len(Suffix(longer, Preroll)) = Len(longer) - Less(Len(longer), Preroll)
          <6> DEFINE d == Less(Len(longer), Preroll)
          <6>1. d \in 0..Len(longer)
            BY <5>1, <5>2
          <6> HIDE DEF d
          <6>2. Len(SubSeq(longer, d + 1, Len(longer))) = Len(longer) - d
            BY <5>1, <6>1
          <6>3. QED
            BY <6>2 DEF Suffix, d
        <5>4. preroll' = Suffix(longer, Preroll)
          BY <3>1, <4>2 DEF longer
        <5>5. QED
          BY <3>2, <5>1, <5>2, <5>3, <5>4, LimitIsNumber
      <4>3. QED
        BY <4>1, <4>2
    <3>4. loaded' => Len(preroll') + InHand' <= pos'
      BY <2>1, <3>2, <3>3 DEF GrowthInv
    <3>5. QED
      BY <2>1, <2>3, <3>1, <3>3, <3>4 DEF GrowthInv
  <2>4. QED
    BY <2>2, <2>3
<1>5. CASE Load
  <2>1. preroll = << >> /\ preroll' = preroll /\ open = 0 /\ UNCHANGED << audio, pos, open, start >>
    BY <1>5 DEF Load, block, utterance, GrowthInv, CutInv, BetweenBlocks
  <2>2. InHand' = 0 /\ worker' # "loading"
    BY <1>5 DEF Load, InHand, Processing
  <2>3. QED
    BY <2>1, <2>2, RestGrowth
<1>6. CASE IdleEnds \/ Recognised \/ Stall
  <2>1. /\ UNCHANGED << audio, preroll, pos, open, start, loaded, consumed >>
        /\ worker' \in {"ended", "events"} /\ (worker' = "events" => worker = "recognising")
    BY <1>6 DEF IdleEnds, Recognised, Stall, block, utterance
  <2>2. worker \in {"idle", "recognising", "finalising", "reading"} /\ (worker = "recognising" => open = 0)
    BY <1>6 DEF IdleEnds, Recognised, Stall, CutInv, BetweenBlocks
  <2>3. InHand' = 0 \/ InHand' = InHand
    BY <2>1 DEF InHand, Processing
  <2>4. open = 0 \/ ToCome' = ToCome
    BY <2>1, <2>2 DEF ToCome, Processing
  <2>5. QED
    BY <2>1, <2>3, <2>4, RestGrowth
<1>7. CASE Flush
  <2>1. /\ UNCHANGED << audio, preroll, pos, loaded, consumed >> /\ worker = "reading"
        /\ worker' \in {"ended", "finalising"}
        /\ (open' = 0 /\ start' = 0) \/ (open' = open /\ start' = start)
    BY <1>7 DEF Flush, FlushOpen, ToRecogniser
  <2>2. InHand' = 0 /\ ToCome' = 0 /\ ToCome = 0
    BY <2>1 DEF InHand, ToCome, Processing
  <2>3. QED
    BY <2>1, <2>2, RestGrowth
<1>8. CASE Restart
  BY <1>8, RestGrowth DEF Restart
<1>9. CASE WaitEnds
  <2>1. UNCHANGED << audio, worker >> /\ ~loaded' /\ pos' = 0 /\ open' = 0 /\ start' = 0 /\ preroll' = << >>
    BY <1>9 DEF WaitEnds, Unload
  <2>2. QED
    BY <2>1, RestGrowth
<1>10. ASSUME UNCHANGED << thread, loaded >> PROVE GrowthInv'
  <2>1. UNCHANGED << audio, preroll, pos, open, start, loaded, consumed, worker >>
    BY <1>10 DEF thread, block, utterance
  <2>2. InHand' = InHand /\ ToCome' = ToCome /\ (worker' = "loading" => preroll' = << >>)
    BY <2>1 DEF InHand, ToCome, Processing, GrowthInv
  <2>3. QED
    BY <2>1, <2>2, RestGrowth
<1>11. CASE Loop \/ InsertEnds \/ StopPipelines \/ WaitTasks \/ CloseDatabase
  BY <1>10, <1>11 DEF Loop, BeginCall, TakeLock, Announce, InsertEnds, StopPipelines, WaitTasks,
                      CloseDatabase
<1>12. CASE UNCHANGED vars
  BY <1>10, <1>12 DEF vars
<1>13. QED
  BY <1>1, <1>2, <1>3, <1>4, <1>5, <1>6, <1>7, <1>8, <1>9, <1>11, <1>12 DEF Next, Device, Work

\* An utterance never has more blocks than the limit, or than a preroll that is
\* longer and the block of its start, wherever the detector dates the speech and
\* whatever ends and starts share a block (pipeline.py:395-470).
THEOREM GrowthInvariance == Spec => []GrowthInv
<1>1. Init => GrowthInv
  <2> SUFFICES ASSUME Init PROVE GrowthInv
    OBVIOUS
  <2>1. /\ pos = 0 /\ start = 0 /\ preroll = << >> /\ audio = << >> /\ ~loaded /\ worker = "loading"
    BY DEF Init
  <2>2. QED
    BY <2>1, LimitIsNumber DEF GrowthInv
<1>2. QED
  BY <1>1, StepGrowth, CutInvariance, PTL DEF Spec

\* With a limit above the preroll, as the default settings have it, no utterance
\* outgrows the limit.
THEOREM NeverOvergrownAlways ==
    ASSUME Preroll < Longest PROVE Spec => []NeverOvergrown
<1>1. CutInv /\ GrowthInv => NeverOvergrown
  <2> SUFFICES ASSUME CutInv, GrowthInv, NEW u \in Utterances PROVE Len(audio[u]) <= Longest
    BY DEF NeverOvergrown
  <2>1. u \in DOMAIN audio
    BY DEF CutInv, CutType, Utterances
  <2>2. QED
    BY <2>1 DEF GrowthInv, Limit
<1>2. QED
  BY <1>1, CutInvariance, GrowthInvariance, PTL

-----------------------------------------------------------------------------
(* The finals come in order.                                               *)

Calls == [kind : {"partial", "final"}, utterance : Nat]

Tasks == [utterance : Nat, at : {"waiting", "inserting", "inserted"}, awaited : BOOLEAN]

\* A call that may come after the final of utterance u.
Follows(call, u) == IF call.kind = "final" THEN u < call.utterance ELSE call.utterance # u

\* After a final come only finals of later utterances, and no partial of its own.
Orderly(calls) ==
    \A i, j \in DOMAIN calls :
        i < j /\ calls[i].kind = "final" => Follows(calls[j], calls[i].utterance)

Spoken(u) == u \in Utterances /\ outcome[u] = "spoken"

\* What is open or with the recogniser has no final yet.
Unspoken ==
    /\ open # 0 => ~Spoken(open)
    /\ worker \in {"recognising", "finalising"} => ~Spoken(Len(outcome))

\* The tasks are in order, and only the first holds the lock.
LockInv ==
    /\ \A k, l \in DOMAIN tasks : k < l => tasks[k].utterance < tasks[l].utterance
    /\ \A k \in DOMAIN tasks :
          /\ k > 1 => tasks[k].at = "waiting"
          /\ tasks[k].at = "inserted" => tasks[k].utterance \in stored

\* A final is with the worker's calls, then a task, then sent, and its
\* utterance is behind those that are further.
OrderInv ==
    /\ ready \in Seq(Calls) /\ sent \in Seq(Calls) /\ tasks \in Seq(Tasks)
    /\ Unspoken /\ LockInv
    /\ Orderly(ready) /\ Orderly(sent)
    /\ \A c \in Elements(ready) : c.kind = "final" => Spoken(c.utterance)
    /\ \A k \in DOMAIN tasks :
          /\ Spoken(tasks[k].utterance)
          /\ \A c \in Elements(ready) : Follows(c, tasks[k].utterance)
    /\ \A d \in Elements(sent) : d.kind = "final" =>
          /\ Spoken(d.utterance) /\ d.utterance \in stored
          /\ \A c \in Elements(ready) : Follows(c, d.utterance)
          /\ \A k \in DOMAIN tasks : d.utterance < tasks[k].utterance

-----------------------------------------------------------------------------
(* Sequences of calls and of tasks.                                        *)

LEMMA AppendKeepsOrder ==
    ASSUME NEW calls \in Seq(Calls), NEW call \in Calls, Orderly(calls),
           \A c \in Elements(calls) : c.kind = "final" => Follows(call, c.utterance)
    PROVE  /\ Append(calls, call) \in Seq(Calls)
           /\ Orderly(Append(calls, call))
           /\ Elements(Append(calls, call)) = Elements(calls) \cup {call}
<1> DEFINE longer == Append(calls, call)
<1>1. /\ longer \in Seq(Calls) /\ Len(calls) \in Nat /\ Len(longer) = Len(calls) + 1
      /\ DOMAIN calls = 1..Len(calls) /\ DOMAIN longer = 1..(Len(calls) + 1)
      /\ \A i \in DOMAIN calls : longer[i] = calls[i]
      /\ longer[Len(calls) + 1] = call
  OBVIOUS
<1> HIDE DEF longer
<1>2. \A i \in DOMAIN longer : i \in DOMAIN calls \/ i = Len(calls) + 1
  BY <1>1
<1>3. \A i \in DOMAIN calls : i \in DOMAIN longer /\ i < Len(calls) + 1 /\ ~(Len(calls) + 1 < i)
  BY <1>1
<1>4. Elements(longer) = Elements(calls) \cup {call}
  <2>1. Len(calls) + 1 \in DOMAIN longer
    BY <1>1
  <2>2. QED
    BY <1>1, <1>2, <1>3, <2>1 DEF Elements
<1>5. Orderly(longer)
  <2>1. SUFFICES ASSUME NEW i \in DOMAIN longer, NEW j \in DOMAIN longer, i < j,
                        longer[i].kind = "final"
                 PROVE  Follows(longer[j], longer[i].utterance)
    BY DEF Orderly
  <2>2. i \in DOMAIN calls
    BY <1>1, <2>1
  <2>3. CASE j \in DOMAIN calls
    BY <1>1, <2>1, <2>2, <2>3 DEF Orderly
  <2>4. CASE j = Len(calls) + 1
    BY <1>1, <2>1, <2>2, <2>4 DEF Elements
  <2>5. QED
    BY <1>2, <2>3, <2>4
<1>6. QED
  BY <1>1, <1>4, <1>5 DEF longer

LEMMA TailKeepsOrder ==
    ASSUME NEW calls \in Seq(Calls), calls # << >>, Orderly(calls)
    PROVE  /\ Tail(calls) \in Seq(Calls) /\ Head(calls) \in Calls
           /\ Orderly(Tail(calls))
           /\ Head(calls) \in Elements(calls) /\ Elements(Tail(calls)) \subseteq Elements(calls)
           /\ Head(calls).kind = "final" =>
                 \A c \in Elements(Tail(calls)) : Follows(c, Head(calls).utterance)
<1> DEFINE rest == Tail(calls)
<1>1. /\ rest \in Seq(Calls) /\ Head(calls) = calls[1] /\ 1 \in DOMAIN calls
      /\ calls[1] \in Calls
      /\ \A i \in DOMAIN rest : i \in Nat /\ i + 1 \in DOMAIN calls /\ rest[i] = calls[i + 1]
                                /\ 1 < i + 1
  BY SMT
<1> HIDE DEF rest
<1>2. \A i, j \in DOMAIN rest : i < j => i + 1 < j + 1
  BY <1>1
<1>3. Orderly(rest)
  BY <1>1, <1>2 DEF Orderly
<1>4. Elements(rest) \subseteq Elements(calls) /\ Head(calls) \in Elements(calls)
  BY <1>1 DEF Elements
<1>5. Head(calls).kind = "final" => \A c \in Elements(rest) : Follows(c, Head(calls).utterance)
  BY <1>1 DEF Orderly, Elements
<1>6. QED
  BY <1>1, <1>3, <1>4, <1>5 DEF rest

\* The tasks that are left when the first ones are gone.
LEMMA RestOfTasks ==
    ASSUME LockInv, tasks \in Seq(Tasks), NEW n \in 0..Len(tasks)
    PROVE  /\ SubSeq(tasks, n + 1, Len(tasks)) \in Seq(Tasks)
           /\ \A k \in DOMAIN SubSeq(tasks, n + 1, Len(tasks)) :
                 /\ k \in Nat /\ k > 0 /\ k + n \in DOMAIN tasks
                 /\ SubSeq(tasks, n + 1, Len(tasks))[k] = tasks[k + n]
<1>1. Len(tasks) \in Nat
  OBVIOUS
<1>2. /\ SubSeq(tasks, n + 1, Len(tasks)) \in Seq(Tasks)
      /\ Len(SubSeq(tasks, n + 1, Len(tasks))) = Len(tasks) - n
      /\ \A k \in 1..(Len(tasks) - n) : SubSeq(tasks, n + 1, Len(tasks))[k] = tasks[k + n]
  BY <1>1
<1>3. DOMAIN SubSeq(tasks, n + 1, Len(tasks)) = 1..(Len(tasks) - n)
  BY <1>2
<1>4. QED
  BY <1>1, <1>2, <1>3

LEMMA FirstLeaves ==
    ASSUME LockInv, tasks \in Seq(Tasks), NEW k \in DOMAIN tasks, tasks[k].at # "waiting"
    PROVE  k = 1 /\ 1 \in 0..Len(tasks) /\ Without(tasks, k) = SubSeq(tasks, 2, Len(tasks))
<1>1. k = 1 /\ Len(tasks) \in Nat /\ Len(tasks) >= 1
  BY DEF LockInv
<1>2. SubSeq(tasks, 1, 0) = << >> /\ SubSeq(tasks, 2, Len(tasks)) \in Seq(Tasks)
  BY <1>1
<1>3. << >> \o SubSeq(tasks, 2, Len(tasks)) = SubSeq(tasks, 2, Len(tasks))
  BY <1>2
<1>4. QED
  BY <1>1, <1>2, <1>3 DEF Without

-----------------------------------------------------------------------------
(* Kinds of steps.                                                         *)

\* The worker hands over a call, or none.
LEMMA HandOver ==
    ASSUME OrderInv, UNCHANGED << tasks, stored, sent >>, Unspoken',
           \A u : Spoken(u) => Spoken(u)',
           \/ ready' = ready
           \/ \E call \in Calls :
                 /\ ready' = Append(ready, call)
                 /\ call.kind = "final" => Spoken(call.utterance)'
                 /\ \A u : Spoken(u) => Follows(call, u)
    PROVE  OrderInv'
<1>1. CASE ready' = ready
  <2>1. /\ Elements(ready)' = Elements(ready) /\ Elements(sent)' = Elements(sent)
        /\ LockInv' /\ Orderly(ready)' /\ Orderly(sent)'
    BY <1>1 DEF OrderInv, LockInv, Orderly, Follows, Elements
  <2>2. QED
    BY <1>1, <2>1 DEF OrderInv, Follows
<1>2. ASSUME NEW call \in Calls, ready' = Append(ready, call),
             call.kind = "final" => Spoken(call.utterance)',
             \A u : Spoken(u) => Follows(call, u)
      PROVE  OrderInv'
  <2>1. /\ ready' \in Seq(Calls) /\ Orderly(ready)'
        /\ Elements(ready)' = Elements(ready) \cup {call}
    <3>1. /\ Append(ready, call) \in Seq(Calls) /\ Orderly(Append(ready, call))
          /\ Elements(Append(ready, call)) = Elements(ready) \cup {call}
      BY <1>2, AppendKeepsOrder DEF OrderInv
    <3>2. QED
      BY <1>2, <3>1 DEF Orderly, Elements, Follows
  <2>2. /\ sent' \in Seq(Calls) /\ tasks' \in Seq(Tasks) /\ LockInv' /\ Orderly(sent)'
        /\ Elements(sent)' = Elements(sent)
    BY DEF OrderInv, LockInv, Orderly, Follows, Elements
  <2>3. \A c \in Elements(ready)' : c.kind = "final" => Spoken(c.utterance)'
    BY <1>2, <2>1 DEF OrderInv
  <2>4. ASSUME NEW k \in DOMAIN tasks
        PROVE  /\ Spoken(tasks[k].utterance)'
               /\ \A c \in Elements(ready)' : Follows(c, tasks[k].utterance)
    BY <1>2, <2>1, <2>4 DEF OrderInv
  <2>5. ASSUME NEW d \in Elements(sent), d.kind = "final"
        PROVE  /\ Spoken(d.utterance)' /\ d.utterance \in stored'
               /\ \A c \in Elements(ready)' : Follows(c, d.utterance)
               /\ \A k \in DOMAIN tasks : d.utterance < tasks[k].utterance
    BY <1>2, <2>1, <2>5 DEF OrderInv
  <2>6. QED
    BY <2>1, <2>2, <2>3, <2>4, <2>5 DEF OrderInv, Follows
<1>3. QED
  BY <1>1, <1>2

\* The tasks keep their places and utterances.
LEMMA TasksStay ==
    ASSUME OrderInv, UNCHANGED << ready, sent, outcome, open, worker >>,
           tasks' \in Seq(Tasks), DOMAIN tasks' = DOMAIN tasks, stored \subseteq stored',
           \A k \in DOMAIN tasks :
              /\ tasks'[k].utterance = tasks[k].utterance
              /\ k > 1 => tasks'[k].at = "waiting"
              /\ tasks'[k].at = "inserted" => tasks'[k].utterance \in stored'
    PROVE  OrderInv'
<1>1. Unspoken' /\ \A u : Spoken(u)' <=> Spoken(u)
  BY DEF OrderInv, Unspoken, Spoken, Utterances
<1>2. LockInv'
  BY DEF OrderInv, LockInv
<1>3. Orderly(ready)' /\ Orderly(sent)' /\ Elements(ready)' = Elements(ready) /\ Elements(sent)' = Elements(sent)
  BY DEF OrderInv, Orderly, Elements, Follows
<1>4. QED
  BY <1>1, <1>2, <1>3 DEF OrderInv, Follows

\* The first tasks go; the first of all may leave a final behind.
LEMMA TasksLeave ==
    ASSUME OrderInv, NEW n \in 0..Len(tasks), tasks' = SubSeq(tasks, n + 1, Len(tasks)),
           ready' = ready, stored \subseteq stored', Unspoken',
           \A u : Spoken(u) => Spoken(u)',
           \/ sent' = sent
           \/ /\ n = 1 /\ tasks[1].utterance \in stored
              /\ sent' = Append(sent, Call("final", tasks[1].utterance))
    PROVE  OrderInv'
<1>1. /\ tasks' \in Seq(Tasks)
      /\ \A k \in DOMAIN tasks' :
            k \in Nat /\ k > 0 /\ k + n \in DOMAIN tasks /\ tasks'[k] = tasks[k + n]
  BY RestOfTasks DEF OrderInv
<1>2. /\ \A k, l \in DOMAIN tasks' : k < l => k + n < l + n
      /\ \A k \in DOMAIN tasks' : k > 1 => k + n > 1
  BY <1>1
<1>3. LockInv'
  BY <1>1, <1>2 DEF OrderInv, LockInv
<1>4. Elements(ready)' = Elements(ready) /\ Orderly(ready)'
  BY DEF OrderInv, Orderly, Elements, Follows
<1>5. CASE sent' = sent
  <2>1. Elements(sent)' = Elements(sent) /\ Orderly(sent)'
    BY <1>5 DEF OrderInv, Orderly, Elements, Follows
  <2>2. QED
    BY <1>1, <1>3, <1>4, <1>5, <2>1 DEF OrderInv, Follows
<1>6. CASE /\ n = 1 /\ tasks[1].utterance \in stored
           /\ sent' = Append(sent, Call("final", tasks[1].utterance))
  <2>1. 1 \in DOMAIN tasks /\ tasks[1].utterance \in Nat /\ \A k \in DOMAIN tasks' : 1 < k + n
    <3>1. tasks \in Seq(Tasks) /\ 1 \in DOMAIN tasks
      BY <1>6 DEF OrderInv
    <3>2. tasks[1] \in Tasks
      BY <3>1
    <3>3. \A k \in DOMAIN tasks' : 1 < k + n
      BY <1>1, <1>6
    <3>4. QED
      BY <3>1, <3>2, <3>3 DEF Tasks
  <2>2. PICK call \in Calls :
           call = Call("final", tasks[1].utterance) /\ call.kind = "final"
           /\ call.utterance = tasks[1].utterance
    <3>1. /\ Call("final", tasks[1].utterance) \in Calls
          /\ Call("final", tasks[1].utterance).kind = "final"
          /\ Call("final", tasks[1].utterance).utterance = tasks[1].utterance
      BY <2>1 DEF Call, Calls
    <3>2. QED
      BY <3>1, Zenon
  <2>3. \A c \in Elements(sent) : c.kind = "final" => Follows(call, c.utterance)
    BY <2>1, <2>2 DEF OrderInv, Follows
  <2>4. /\ sent' \in Seq(Calls) /\ Orderly(sent)' /\ Elements(sent)' = Elements(sent) \cup {call}
    <3>1. /\ Append(sent, call) \in Seq(Calls) /\ Orderly(Append(sent, call))
          /\ Elements(Append(sent, call)) = Elements(sent) \cup {call}
      BY <2>3, AppendKeepsOrder DEF OrderInv
    <3>2. QED
      BY <1>6, <2>2, <3>1 DEF Orderly, Elements, Follows
  <2>5. /\ Spoken(call.utterance)' /\ call.utterance \in stored'
        /\ \A c \in Elements(ready) : Follows(c, call.utterance)
        /\ \A k \in DOMAIN tasks' : call.utterance < tasks'[k].utterance
    BY <1>1, <1>6, <2>1, <2>2 DEF OrderInv, LockInv
  <2>6. ASSUME NEW d \in Elements(sent)', d.kind = "final"
        PROVE  /\ Spoken(d.utterance)' /\ d.utterance \in stored'
               /\ \A c \in Elements(ready)' : Follows(c, d.utterance)
               /\ \A k \in DOMAIN tasks' : d.utterance < tasks'[k].utterance
    <3>1. CASE d \in Elements(sent)
      BY <1>1, <1>4, <2>6, <3>1 DEF OrderInv
    <3>2. CASE d = call
      BY <1>4, <2>5, <3>2
    <3>3. QED
      BY <2>4, <2>6, <3>1, <3>2
  <2>7. \A k \in DOMAIN tasks' : /\ Spoken(tasks[k].utterance)'
                                 /\ \A c \in Elements(ready)' : Follows(c, tasks'[k].utterance)
    BY <1>1, <1>4 DEF OrderInv
  <2>8. \A c \in Elements(ready)' : c.kind = "final" => Spoken(c.utterance)'
    BY <1>4 DEF OrderInv
  <2>9. ready' \in Seq(Calls)
    BY DEF OrderInv
  <2>10. QED
    BY <1>1, <1>3, <1>4, <2>4, <2>6, <2>7, <2>8, <2>9 DEF OrderInv, Follows
<1>7. QED
  BY <1>5, <1>6

\* A call begins.
LEMMA CallBegins ==
    ASSUME OrderInv, BeginCall
    PROVE  OrderInv'
<1>1. /\ ready # << >> /\ ready' = Tail(ready)
      /\ UNCHANGED << outcome, open, worker, stored >>
  BY DEF BeginCall, thread, utterance
<1>2. PICK call \in Calls : call = Head(ready)
  BY <1>1, TailKeepsOrder DEF OrderInv
<1>3. /\ ready' \in Seq(Calls) /\ Orderly(ready)' /\ call \in Elements(ready)
      /\ Elements(ready)' \subseteq Elements(ready)
      /\ call.kind = "final" => \A c \in Elements(ready)' : Follows(c, call.utterance)
  <2>1. /\ Tail(ready) \in Seq(Calls) /\ Orderly(Tail(ready)) /\ Head(ready) \in Elements(ready)
        /\ Elements(Tail(ready)) \subseteq Elements(ready)
        /\ Head(ready).kind = "final" =>
              \A c \in Elements(Tail(ready)) : Follows(c, Head(ready).utterance)
    BY <1>1, TailKeepsOrder DEF OrderInv
  <2>2. Elements(ready)' = Elements(Tail(ready)) /\ (Orderly(ready)' <=> Orderly(Tail(ready)))
    BY <1>1 DEF Elements, Orderly, Follows
  <2>3. QED
    BY <1>1, <1>2, <2>1, <2>2
<1>4. Unspoken' /\ \A u : Spoken(u)' <=> Spoken(u)
  BY <1>1 DEF OrderInv, Unspoken, Spoken, Utterances
<1>5. CASE call.kind = "partial"
  <2>1. sent' = Append(sent, call) /\ tasks' = tasks
    BY <1>2, <1>5 DEF BeginCall
  <2>2. \A c \in Elements(sent) : c.kind = "final" => Follows(call, c.utterance)
    BY <1>3 DEF OrderInv
  <2>3. /\ sent' \in Seq(Calls) /\ Orderly(sent)' /\ Elements(sent)' = Elements(sent) \cup {call}
    <3>1. /\ Append(sent, call) \in Seq(Calls) /\ Orderly(Append(sent, call))
          /\ Elements(Append(sent, call)) = Elements(sent) \cup {call}
      BY <2>2, AppendKeepsOrder DEF OrderInv
    <3>2. QED
      BY <2>1, <3>1 DEF Orderly, Elements, Follows
  <2>4. LockInv'
    BY <1>1, <2>1 DEF OrderInv, LockInv
  <2>5. QED
    BY <1>1, <1>3, <1>4, <1>5, <2>1, <2>3, <2>4 DEF OrderInv, Follows
<1>6. CASE call.kind = "final"
  <2>1. PICK task \in Tasks : task.utterance = call.utterance /\ task.at = "waiting"
                              /\ tasks' = Append(tasks, task)
    <3>1. /\ [utterance |-> call.utterance, at |-> "waiting", awaited |-> FALSE] \in Tasks
          /\ tasks' = Append(tasks, [utterance |-> call.utterance, at |-> "waiting", awaited |-> FALSE])
      BY <1>2, <1>6 DEF BeginCall, Tasks, Calls
    <3>2. QED
      BY <3>1
  <2>2. sent' = sent
    BY <1>2, <1>6 DEF BeginCall
  <2>3. /\ tasks' \in Seq(Tasks) /\ Len(tasks) \in Nat
        /\ DOMAIN tasks = 1..Len(tasks) /\ DOMAIN tasks' = 1..(Len(tasks) + 1)
        /\ \A k \in DOMAIN tasks : tasks'[k] = tasks[k]
        /\ tasks'[Len(tasks) + 1] = task
    BY <2>1 DEF OrderInv
  <2>4. /\ \A k \in DOMAIN tasks' : k \in DOMAIN tasks \/ k = Len(tasks) + 1
        /\ \A k \in DOMAIN tasks' : ~(Len(tasks) + 1 < k)
    BY <2>3
  <2>5. \A k \in DOMAIN tasks : tasks[k].utterance < task.utterance
    BY <1>3, <1>6, <2>1 DEF OrderInv, Follows
  <2>6. LockInv'
    <3>1. ASSUME NEW k \in DOMAIN tasks', NEW l \in DOMAIN tasks', k < l
          PROVE  tasks'[k].utterance < tasks'[l].utterance
      <4>1. k \in DOMAIN tasks
        BY <2>4, <3>1
      <4>2. CASE l \in DOMAIN tasks
        BY <2>3, <3>1, <4>1, <4>2 DEF OrderInv, LockInv
      <4>3. CASE l = Len(tasks) + 1
        BY <2>3, <2>5, <4>1, <4>3
      <4>4. QED
        BY <2>4, <4>2, <4>3
    <3>2. ASSUME NEW k \in DOMAIN tasks'
          PROVE  /\ k > 1 => tasks'[k].at = "waiting"
                 /\ tasks'[k].at = "inserted" => tasks'[k].utterance \in stored'
      BY <1>1, <2>1, <2>3, <2>4 DEF OrderInv, LockInv
    <3>3. QED
      BY <3>1, <3>2 DEF LockInv
  <2>7. Elements(sent)' = Elements(sent) /\ Orderly(sent)' /\ sent' \in Seq(Calls)
    BY <2>2 DEF OrderInv, Orderly, Elements, Follows
  <2>8. \A c \in Elements(ready)' : c.kind = "final" => Spoken(c.utterance)'
    BY <1>3, <1>4 DEF OrderInv
  <2>9. ASSUME NEW k \in DOMAIN tasks'
        PROVE  /\ Spoken(tasks[k].utterance)'
               /\ \A c \in Elements(ready)' : Follows(c, tasks'[k].utterance)
    <3>1. CASE k \in DOMAIN tasks
      BY <1>3, <1>4, <2>3, <3>1 DEF OrderInv
    <3>2. CASE k = Len(tasks) + 1
      BY <1>3, <1>4, <1>6, <2>1, <2>3, <3>2 DEF OrderInv
    <3>3. QED
      BY <2>4, <3>1, <3>2
  <2>10. ASSUME NEW d \in Elements(sent), d.kind = "final"
         PROVE  /\ Spoken(d.utterance)' /\ d.utterance \in stored'
                /\ \A c \in Elements(ready)' : Follows(c, d.utterance)
                /\ \A k \in DOMAIN tasks' : d.utterance < tasks'[k].utterance
    <3>1. d.utterance < task.utterance
      BY <1>3, <1>6, <2>1, <2>10 DEF OrderInv, Follows
    <3>2. QED
      BY <1>1, <1>3, <1>4, <2>3, <2>4, <2>10, <3>1 DEF OrderInv
  <2>11. QED
    BY <1>3, <1>4, <2>3, <2>6, <2>7, <2>8, <2>9, <2>10 DEF OrderInv, Follows
<1>7. QED
  BY <1>5, <1>6 DEF Calls

-----------------------------------------------------------------------------
(* Every step keeps the order.                                             *)

\* What is known of the utterances from the invariant of the cut.
LEMMA NewestOpen ==
    ASSUME CutInv
    PROVE  /\ outcome \in Seq(Outcomes) /\ Len(outcome) \in Nat /\ Utterances = 1..Len(outcome)
           /\ open \in Nat /\ (open # 0 => open = Len(outcome) /\ open \in Utterances)
           /\ worker \in {"recognising", "finalising"} => open = 0 /\ Len(outcome) > 0
  BY DEF CutInv, CutType, OpenNew, BetweenBlocks, Utterances

\* An utterance gets an outcome, or none does.
LEMMA OutcomeGiven ==
    ASSUME CutInv, NEW u \in Utterances, NEW what \in Outcomes, ~Spoken(u),
           outcome' = [outcome EXCEPT ![u] = what]
    PROVE  /\ Utterances' = Utterances /\ Len(outcome') = Len(outcome)
           /\ \A v : Spoken(v) => Spoken(v)'
           /\ Spoken(u)' <=> what = "spoken"
<1>1. outcome \in Seq(Outcomes) /\ u \in 1..Len(outcome)
  BY NewestOpen
<1>2. /\ outcome' \in Seq(Outcomes) /\ Len(outcome') = Len(outcome)
      /\ outcome'[u] = what /\ \A v \in 1..Len(outcome) : v # u => outcome'[v] = outcome[v]
  BY <1>1
<1>3. Utterances' = 1..Len(outcome') /\ Utterances = 1..Len(outcome)
  BY <1>1, <1>2 DEF Utterances
<1>4. QED
  BY <1>1, <1>2, <1>3 DEF Spoken

LEMMA AbandonOrder ==
    ASSUME CutInv, Unspoken, NEW why \in {"stalled", "unloaded"}, Abandon(why),
           open' \in {0, open}, worker' \in {worker, "ended"}
    PROVE  Unspoken' /\ \A v : Spoken(v) => Spoken(v)'
<1>1. CASE open = 0
  BY <1>1 DEF Abandon, Unspoken, Spoken, Utterances
<1>2. CASE open # 0
  <2>1. open \in Utterances /\ why \in Outcomes /\ ~Spoken(open)
        /\ outcome' = [outcome EXCEPT ![open] = why]
    BY <1>2, NewestOpen DEF Abandon, Unspoken, Outcomes
  <2>2. (\A v : Spoken(v) => Spoken(v)') /\ (\A v : v = open => ~Spoken(v)')
    BY <2>1, OutcomeGiven
  <2>3. worker' \notin {"recognising", "finalising"}
    BY <1>2, NewestOpen
  <2>4. QED
    BY <2>2, <2>3 DEF Unspoken, Spoken
<1>3. QED
  BY <1>1, <1>2

\* The utterances have their outcomes, and what goes to the recogniser was open.
LEMMA NoOutcome ==
    ASSUME CutInv, Unspoken, outcome' = outcome, open' \in {0, open},
           worker' \in {"recognising", "finalising"} => worker' = worker \/ open # 0
    PROVE  Unspoken' /\ \A v : Spoken(v) => Spoken(v)'
  BY NewestOpen DEF Unspoken, Spoken, Utterances

LEMMA JoinOrder ==
    ASSUME CutInv, OrderInv, open # 0, Accumulate
    PROVE  \/ ready' = ready
           \/ \E call \in Calls :
                 /\ ready' = Append(ready, call)
                 /\ call.kind = "final" => Spoken(call.utterance)'
                 /\ \A u : Spoken(u) => Follows(call, u)
<1>1. /\ Call("partial", open) \in Calls
      /\ Call("partial", open).kind = "partial" /\ Call("partial", open).utterance = open
  BY NewestOpen DEF Call, Calls
<1>2. ready' \in {ready, Append(ready, Call("partial", open))}
  BY DEF Accumulate
<1>3. \A u : Spoken(u) => u # open
  BY DEF OrderInv, Unspoken
<1>4. QED
  BY <1>1, <1>2, <1>3 DEF Follows

LEMMA WorkerOrder ==
    ASSUME CutInv, OrderInv, Device \/ Work
    PROVE  OrderInv'
<1> USE DEF OrderInv
<1>1. CASE TakeBlock \/ Load \/ IdleEnds \/ Flush
  <2>1. /\ UNCHANGED << ready, tasks, stored, sent, outcome >> /\ open' \in {0, open}
        /\ worker' \in {"recognising", "finalising"} => open # 0
    BY <1>1 DEF TakeBlock, Load, IdleEnds, Flush, FlushOpen, ToRecogniser, service, utterance
  <2>2. Unspoken' /\ \A v : Spoken(v) => Spoken(v)'
    BY <2>1, NoOutcome
  <2>3. QED
    BY <2>1, <2>2, HandOver
<1>2. CASE Stall
  <2>1. /\ UNCHANGED << ready, tasks, stored, sent >> /\ Abandon("stalled")
        /\ open' = open /\ worker' = "ended"
    BY <1>2 DEF Stall, service
  <2>2. Unspoken' /\ \A v : Spoken(v) => Spoken(v)'
    BY <2>1, AbandonOrder
  <2>3. QED
    BY <2>1, <2>2, HandOver
<1>3. CASE StartEvent
  <2>1. UNCHANGED << ready, tasks, stored, sent, worker >> /\ worker = "events"
    BY <1>3 DEF StartEvent, service
  <2>2. CASE open # 0
    <3>1. outcome' = outcome /\ open' = open
      BY <1>3, <2>2 DEF StartEvent, utterance
    <3>2. Unspoken' /\ \A v : Spoken(v) => Spoken(v)'
      BY <2>1, <3>1, NoOutcome
    <3>3. QED
      BY <2>1, <3>2, HandOver
  <2>3. CASE open = 0
    <3>1. PICK what \in {"open", "unloaded"} :
             outcome' = Append(outcome, what) /\ open' = Len(outcome) + 1
      BY <1>3, <2>3 DEF StartEvent, Begin
    <3>2. /\ Utterances' = 1..(Len(outcome) + 1) /\ outcome'[Len(outcome) + 1] = what
          /\ \A v \in 1..Len(outcome) : outcome'[v] = outcome[v]
      <4>1. what \in Outcomes /\ outcome \in Seq(Outcomes)
        BY NewestOpen DEF Outcomes
      <4>2. QED
        BY <3>1, <4>1 DEF Utterances
    <3>3. \A v : Spoken(v) => Spoken(v)'
      BY <3>2, NewestOpen DEF Spoken
    <3>4. Unspoken'
      BY <2>1, <3>1, <3>2 DEF Unspoken, Spoken
    <3>5. QED
      BY <2>1, <3>3, <3>4, HandOver
  <2>4. QED
    BY <2>2, <2>3
<1>4. CASE EndEvent
  <2>1. /\ UNCHANGED << tasks, stored, sent, outcome >> /\ open' \in {0, open}
        /\ worker' \in {"recognising", "finalising"} => open # 0
        /\ (open # 0 /\ Accumulate) \/ ready' = ready
    BY <1>4 DEF EndEvent, ToRecogniser
  <2>2. Unspoken' /\ \A v : Spoken(v) => Spoken(v)'
    BY <2>1, NoOutcome
  <2>3. QED
    BY <2>1, <2>2, JoinOrder, HandOver
<1>5. CASE BlockEnds
  <2>1. /\ UNCHANGED << tasks, stored, sent, outcome >> /\ open' \in {0, open}
        /\ worker' \in {"recognising", "finalising"} => open # 0
        /\ (open # 0 /\ Accumulate) \/ ready' = ready
    BY <1>5 DEF BlockEnds, ToRecogniser
  <2>2. Unspoken' /\ \A v : Spoken(v) => Spoken(v)'
    BY <2>1, NoOutcome
  <2>3. QED
    BY <2>1, <2>2, JoinOrder, HandOver
<1>6. CASE Recognised
  <2>1. PICK u \in Utterances : u = Len(outcome) /\ ~Spoken(u)
    BY <1>6, NewestOpen DEF Recognised, Unspoken
  <2>2. /\ UNCHANGED << tasks, stored, sent >> /\ open' = 0 /\ worker' \in {"ended", "events"}
        /\ \/ /\ outcome' = [outcome EXCEPT ![u] = "spoken"]
              /\ ready' = Append(ready, Call("final", u))
           \/ /\ outcome' = [outcome EXCEPT ![u] = "empty"]
              /\ ready' = ready
    BY <1>6, <2>1, NewestOpen DEF Recognised
  <2>3. Unspoken'
    BY <2>2 DEF Unspoken
  <2>4. \A v : Spoken(v) => Spoken(v)'
    BY <2>1, <2>2, OutcomeGiven DEF Outcomes
  <2>5. CASE ready' = ready
    BY <2>2, <2>3, <2>4, <2>5, HandOver
  <2>6. CASE /\ outcome' = [outcome EXCEPT ![u] = "spoken"]
             /\ ready' = Append(ready, Call("final", u))
    <3>1. PICK call \in Calls : call = Call("final", u) /\ call.kind = "final" /\ call.utterance = u
      <4>1. /\ Call("final", u) \in Calls
            /\ Call("final", u).kind = "final" /\ Call("final", u).utterance = u
        BY NewestOpen DEF Call, Calls
      <4>2. QED
        BY <4>1, Zenon
    <3>2. \A v : v = u => Spoken(v)'
      BY <2>1, <2>6, OutcomeGiven DEF Outcomes
    <3>3. \A v : Spoken(v) => Follows(call, v)
      <4>1. \A v \in 1..Len(outcome) : v # Len(outcome) => v < Len(outcome)
        BY NewestOpen
      <4>2. QED
        BY <2>1, <3>1, <4>1, NewestOpen DEF Follows, Spoken
    <3>4. ready' = Append(ready, call) /\ Spoken(call.utterance)'
      BY <2>6, <3>1, <3>2
    <3>5. QED
      BY <2>2, <2>3, <2>4, <3>3, <3>4, HandOver
  <2>7. QED
    BY <2>2, <2>5, <2>6
<1>7. QED
  BY <1>1, <1>2, <1>3, <1>4, <1>5, <1>6 DEF Device, Work

LEMMA LoopOrder ==
    ASSUME CutInv, OrderInv, Loop \/ InsertEnds
    PROVE  OrderInv'
<1>1. tasks \in Seq(Tasks) /\ \A k \in DOMAIN tasks : tasks[k] \in Tasks
  BY DEF OrderInv
<1>2. CASE BeginCall
  BY <1>2, CallBegins
<1>3. CASE TakeLock
  <2>1. PICK k \in DOMAIN tasks : k = 1 /\ tasks' = [tasks EXCEPT ![k].at = "inserting"]
    BY <1>3 DEF TakeLock, HoldsLock
  <2>2. UNCHANGED << ready, sent, stored, outcome, open, worker >>
    BY <1>3 DEF TakeLock, thread, utterance
  <2>3. /\ tasks' \in Seq(Tasks) /\ DOMAIN tasks' = DOMAIN tasks
        /\ \A l \in DOMAIN tasks : /\ tasks'[l].utterance = tasks[l].utterance
                                   /\ l # k => tasks'[l] = tasks[l]
                                   /\ l = k => tasks'[l].at = "inserting"
    BY <1>1, <2>1 DEF Tasks
  <2>4. QED
    BY <2>1, <2>2, <2>3, TasksStay DEF OrderInv, LockInv
<1>4. ASSUME NEW k \in DOMAIN tasks, tasks[k].at # "waiting", tasks' = Without(tasks, k),
             UNCHANGED << thread, ready >>, stored \subseteq stored',
             \/ sent' = sent
             \/ /\ tasks[k].at = "inserted"
                /\ sent' = Append(sent, Call("final", tasks[k].utterance))
      PROVE  OrderInv'
  <2>1. k = 1 /\ 1 \in 0..Len(tasks) /\ tasks' = SubSeq(tasks, 1 + 1, Len(tasks))
    BY <1>1, <1>4, FirstLeaves DEF OrderInv
  <2>2. Unspoken' /\ \A u : Spoken(u) => Spoken(u)'
    BY <1>4 DEF thread, utterance, OrderInv, Unspoken, Spoken, Utterances
  <2>3. tasks[1].at = "inserted" => tasks[1].utterance \in stored
    BY <1>4, <2>1 DEF OrderInv, LockInv
  <2>4. QED
    BY <1>4, <2>1, <2>2, <2>3, TasksLeave
<1>5. CASE Announce
  BY <1>4, <1>5 DEF Announce
<1>6. CASE InsertEnds
  <2>1. PICK k \in DOMAIN tasks :
           /\ tasks[k].at = "inserting"
           /\ \/ /\ stored' = stored \cup {tasks[k].utterance}
                 /\ tasks' = [tasks EXCEPT ![k].at = "inserted"]
              \/ tasks' = Without(tasks, k) /\ stored' = stored
           /\ UNCHANGED << thread, ready, sent >>
    BY <1>6 DEF InsertEnds
  <2>2. CASE tasks' = Without(tasks, k) /\ stored' = stored
    BY <1>4, <2>1, <2>2
  <2>3. CASE /\ stored' = stored \cup {tasks[k].utterance}
             /\ tasks' = [tasks EXCEPT ![k].at = "inserted"]
    <3>1. UNCHANGED << ready, sent, outcome, open, worker >>
      BY <2>1 DEF thread, utterance
    <3>2. /\ tasks' \in Seq(Tasks) /\ DOMAIN tasks' = DOMAIN tasks
          /\ \A l \in DOMAIN tasks : /\ tasks'[l].utterance = tasks[l].utterance
                                     /\ l # k => tasks'[l] = tasks[l]
      BY <1>1, <2>3 DEF Tasks
    <3>3. k = 1
      BY <1>1, <2>1, FirstLeaves DEF OrderInv
    <3>4. QED
      BY <2>3, <3>1, <3>2, <3>3, TasksStay DEF OrderInv, LockInv
  <2>4. QED
    BY <2>1, <2>2, <2>3
<1>7. QED
  BY <1>2, <1>3, <1>5, <1>6 DEF Loop

LEMMA ClosingOrder ==
    ASSUME CutInv, OrderInv,
           Restart \/ StopPipelines \/ WaitTasks \/ WaitEnds \/ CloseDatabase \/ UNCHANGED vars
    PROVE  OrderInv'
<1>1. CASE Restart
  <2>1. UNCHANGED << ready, tasks, stored, sent, outcome >> /\ open' = 0 /\ worker' = "loading"
    BY <1>1 DEF Restart, service
  <2>2. Unspoken' /\ \A v : Spoken(v) => Spoken(v)'
    BY <2>1, NoOutcome DEF OrderInv
  <2>3. QED
    BY <2>1, <2>2, HandOver
<1>2. CASE StopPipelines \/ CloseDatabase \/ UNCHANGED vars
  <2>1. UNCHANGED << ready, tasks, stored, sent, outcome, open, worker >>
    BY <1>2 DEF StopPipelines, CloseDatabase, vars, thread, utterance, service
  <2>2. Unspoken' /\ \A v : Spoken(v) => Spoken(v)'
    BY <2>1, NoOutcome DEF OrderInv
  <2>3. QED
    BY <2>1, <2>2, HandOver
<1>3. CASE WaitTasks
  <2>1. /\ UNCHANGED << ready, sent, stored, outcome, open, worker >>
        /\ tasks' = [k \in DOMAIN tasks |-> [tasks[k] EXCEPT !.awaited = TRUE]]
    BY <1>3 DEF WaitTasks, thread, utterance
  <2>2. tasks \in Seq(Tasks) /\ \A k \in DOMAIN tasks : tasks[k] \in Tasks
    BY DEF OrderInv
  <2>3. /\ DOMAIN tasks' = DOMAIN tasks
        /\ \A k \in DOMAIN tasks : /\ tasks'[k] \in Tasks
                                   /\ tasks'[k].utterance = tasks[k].utterance
                                   /\ tasks'[k].at = tasks[k].at
    BY <2>1, <2>2 DEF Tasks
  <2>4. tasks' \in Seq(Tasks)
    <3>1. Len(tasks) \in Nat /\ DOMAIN tasks = 1..Len(tasks)
      BY <2>2
    <3>2. tasks' \in [1..Len(tasks) -> Tasks]
      BY <2>1, <2>3, <3>1
    <3>3. QED
      BY <3>1, <3>2
  <2>5. \A k \in DOMAIN tasks :
           /\ k > 1 => tasks'[k].at = "waiting"
           /\ tasks'[k].at = "inserted" => tasks'[k].utterance \in stored'
    BY <2>1, <2>3 DEF OrderInv, LockInv
  <2>6. stored \subseteq stored'
    BY <2>1
  <2>7. QED
    BY <2>1, <2>3, <2>4, <2>5, <2>6, TasksStay
<1>4. CASE WaitEnds
  <2>1. PICK n \in 0..Len(tasks) : tasks' = SubSeq(tasks, n + 1, Len(tasks))
    BY <1>4 DEF WaitEnds
  <2>2. /\ UNCHANGED << ready, sent, worker >> /\ stored \subseteq stored'
        /\ Abandon("unloaded") /\ open' = 0
    BY <1>4 DEF WaitEnds, Unload
  <2>3. Unspoken' /\ \A v : Spoken(v) => Spoken(v)'
    BY <2>2, AbandonOrder DEF OrderInv
  <2>4. QED
    BY <2>1, <2>2, <2>3, TasksLeave
<1>5. QED
  BY <1>1, <1>2, <1>3, <1>4

LEMMA OrderInvariance ==
    /\ Init => OrderInv
    /\ CutInv /\ OrderInv /\ [Next]_vars => OrderInv'
    /\ OrderInv => EventsInOrder
<1>1. Init => OrderInv
  <2> SUFFICES ASSUME Init PROVE OrderInv
    OBVIOUS
  <2>1. /\ ready = << >> /\ sent = << >> /\ tasks = << >> /\ open = 0 /\ worker = "loading"
    BY DEF Init
  <2>2. ready \in Seq(Calls) /\ sent \in Seq(Calls) /\ tasks \in Seq(Tasks)
    BY <2>1
  <2>3. DOMAIN ready = {} /\ DOMAIN sent = {} /\ DOMAIN tasks = {}
    BY <2>1
  <2>4. QED
    BY <2>1, <2>2, <2>3 DEF OrderInv, Unspoken, LockInv, Orderly, Elements
<1>2. CutInv /\ OrderInv /\ [Next]_vars => OrderInv'
  BY WorkerOrder, LoopOrder, ClosingOrder DEF Next
<1>3. ASSUME OrderInv, NEW i \in DOMAIN sent, sent[i].kind = "final"
      PROVE  /\ sent[i].utterance \in stored
             /\ \A j \in 1..i - 1 : sent[j].utterance <= sent[i].utterance
                                    \/ sent[j].kind = "partial"
             /\ \A j \in i + 1..Len(sent) : sent[j] # Call("partial", sent[i].utterance)
  <2>1. /\ Len(sent) \in Nat /\ DOMAIN sent = 1..Len(sent) /\ i \in Nat
        /\ \A j \in DOMAIN sent : sent[j] \in Calls
    BY <1>3 DEF OrderInv
  <2>2. sent[i].utterance \in stored
    BY <1>3 DEF OrderInv, Elements
  <2>3. ASSUME NEW j \in 1..i - 1, sent[j].kind # "partial"
        PROVE  sent[j].utterance <= sent[i].utterance
    <3>1. j \in DOMAIN sent /\ j < i
      BY <2>1, <2>3
    <3>2. sent[j].kind = "final" /\ sent[j].utterance \in Nat /\ sent[i].utterance \in Nat
      BY <1>3, <2>1, <2>3, <3>1 DEF Calls
    <3>3. Follows(sent[i], sent[j].utterance)
      BY <1>3, <3>1, <3>2 DEF OrderInv, Orderly
    <3>4. QED
      BY <1>3, <3>2, <3>3 DEF Follows
  <2>4. ASSUME NEW j \in i + 1..Len(sent), sent[j] = Call("partial", sent[i].utterance)
        PROVE  FALSE
    <3>1. j \in DOMAIN sent /\ i < j
      BY <2>1, <2>4
    <3>2. Follows(sent[j], sent[i].utterance)
      BY <1>3, <3>1 DEF OrderInv, Orderly
    <3>3. sent[j].kind = "partial" /\ sent[j].utterance = sent[i].utterance
      BY <2>4 DEF Call
    <3>4. QED
      BY <3>2, <3>3 DEF Follows
  <2>5. QED
    BY <2>2, <2>3, <2>4
<1>4. QED
  BY <1>1, <1>2, <1>3 DEF EventsInOrder

\* However the worker, the event loop, SQLite and the shutdown interleave, the
\* finals are sent in the order of the utterances, each with its row, and no
\* partial text after its final (transcription_service.py: _final_lock).
THEOREM EventsInOrderAlways == Spec => []EventsInOrder
<1>1. QED
  BY OrderInvariance, CutInvariance, PTL DEF Spec
=============================================================================
