----------------------------- MODULE PhoneProofs -----------------------------
(***************************************************************************)
(* Proofs about what a phone shows.                                        *)
(*                                                                         *)
(* First its answers (PhoneAnswers), for any number of questions, hotkey   *)
(* requests and pieces of text: the types, that a phone that was told      *)
(* everything can ask again, and that it shows every answer as the desktop *)
(* ended it.  Then who is online (RelayPresence): the types in every way   *)
(* the relay is run, and for any number of connections to a relay without  *)
(* Redis that a phone shows the presence the relay holds.  The two share   *)
(* no state.                                                               *)
(***************************************************************************)
EXTENDS PhoneAnswers, RelayPresence, FiniteSets, FiniteSetTheorems, SequenceTheorems, TLAPS

-----------------------------------------------------------------------------
(* The inductive invariant.                                                *)

Count(seq, e) == Cardinality({k \in DOMAIN seq : seq[k] = e})

Chunks(r) == Count(down, Frame("chunk", r))

\* No more text on the phone and on its way to it than was written.
TextBound == \A r \in Requests : shown[r] + Chunks(r) <= written[r]

TypeInv ==
    /\ serving \in Requests \cup {None}
    /\ outcome \in [Requests -> Outcomes \cup {"none"}]
    /\ written \in [Requests -> 0..MaxDeltas]
    /\ up \in Seq(Frames)
    /\ down \in Seq(Events)
    /\ status \in [Requests -> Statuses]
    /\ shown \in [Requests -> Nat]
    /\ active \in Requests \cup {None}
    /\ activeRef \in Requests \cup {None}
    /\ batched \in BOOLEAN
    /\ losses \in 0..MaxLosses
    /\ TextBound

\* The request is on its way to the desktop.
Asked(r) == \E k \in DOMAIN up : up[k] = Frame("request", r)

\* The desktop has not heard of the request.
Untouched(r) ==
    /\ serving # r /\ outcome[r] = "none"
    /\ \A k \in DOMAIN down : down[k].request # r

\* The ending of the request is on its way to the phone, or will be.
EndingSent(r) == \E k \in DOMAIN down : down[k].type \in Outcomes /\ down[k].request = r

EndingComes(r) == Asked(r) \/ serving = r \/ EndingSent(r)

\* A question is asked once, and waits for the desktop.
AskedOnce == \A k, l \in DOMAIN up : up[k].type = "request" /\ up[k] = up[l] => k = l

AskedInv == \A r \in Requests :
    Asked(r) => r \in Questions /\ status[r] = "streaming" /\ Untouched(r)

\* The phone knows the request that is served, or is about to hear of it.
ServingInv ==
    serving # None =>
        /\ outcome[serving] = "none"
        /\ status[serving] \in {"none", "streaming"}
        /\ status[serving] = "none" =>
              \E k \in DOMAIN down : down[k] = Frame("started", serving)

\* What is said of a request is said while it is served, or before its ending,
EndingFollows == \A k \in DOMAIN down :
    serving = down[k].request \/ EndingSent(down[k].request)

\* which comes once, last, and as the desktop recorded it.
EndingIsLast == \A k, l \in DOMAIN down :
    down[k].type \in Outcomes /\ down[l].request = down[k].request =>
        l <= k /\ outcome[down[k].request] = down[k].type

\* Text reaches a phone that knows the answer.
StartIsFirst == \A k \in DOMAIN down :
    down[k].type = "chunk" /\ status[down[k].request] = "none" =>
        \E j \in DOMAIN down : j < k /\ down[j] = Frame("started", down[k].request)

\* What the phone shows of a request tells what is still to come.
StatusInv == \A r \in Requests :
    /\ status[r] = "none" /\ r \in Questions => Untouched(r)
    /\ status[r] = "streaming" => EndingComes(r)
    /\ status[r] \notin {"none", "streaming"} =>
          /\ outcome[r] # "none" /\ status[r] = StatusOf(outcome[r])
          /\ \A k \in DOMAIN down : down[k].request # r

\* All the text is on the phone or on its way to it.
TextInv == \A r \in Requests : shown[r] + Chunks(r) = written[r]

\* The active answer will end.
ActiveInv == ~batched /\ active # None => EndingComes(active)

\* As long as nothing was lost.
Lossless ==
    /\ AskedOnce /\ AskedInv
    /\ ServingInv
    /\ EndingFollows /\ EndingIsLast /\ StartIsFirst
    /\ StatusInv /\ TextInv
    /\ ActiveInv

Inv == TypeInv /\ (losses = 0 => Lossless)

-----------------------------------------------------------------------------
(* Frames, events and how many there are of them.                          *)

EventTypes == {"started", "chunk"} \cup Outcomes

LEMMA FrameParts ==
    /\ \A t, r : Frame(t, r).type = t /\ Frame(t, r).request = r
    /\ \A t \in EventTypes, r \in Requests : Frame(t, r) \in Events
    /\ \A t \in {"request", "cancel"}, q \in Requests : Frame(t, q) \in Frames
    /\ \A e \in Events : /\ e.type \in EventTypes /\ e.request \in Requests
                         /\ e = Frame(e.type, e.request)
    /\ \A f \in Frames : /\ f.type \in {"request", "cancel"} /\ f.request \in Requests
                         /\ f = Frame(f.type, f.request)
<1>1. \A t, r : Frame(t, r).type = t /\ Frame(t, r).request = r
  BY DEF Frame
<1>2. /\ \A t \in EventTypes, r \in Requests : Frame(t, r) \in Events
      /\ \A t \in {"request", "cancel"}, q \in Requests : Frame(t, q) \in Frames
  BY DEF Events, Frames, EventTypes
<1>3. ASSUME NEW e \in Events
      PROVE  e.type \in EventTypes /\ e.request \in Requests /\ e = Frame(e.type, e.request)
  <2>1. \E t \in EventTypes, r \in Requests : e = Frame(t, r)
    BY <1>3 DEF Events, EventTypes
  <2>2. QED
    BY <1>1, <2>1, Zenon
<1>4. ASSUME NEW e \in Frames
      PROVE  /\ e.type \in {"request", "cancel"} /\ e.request \in Requests
             /\ e = Frame(e.type, e.request)
  <2>1. \E t \in {"request", "cancel"}, r \in Requests : e = Frame(t, r)
    BY <1>4 DEF Frames
  <2>2. QED
    BY <1>1, <2>1, Zenon
<1>5. QED
  BY <1>1, <1>2, <1>3, <1>4

LEMMA CountIsNumber ==
    ASSUME NEW S, NEW s \in Seq(S), NEW e
    PROVE  /\ IsFiniteSet({k \in DOMAIN s : s[k] = e})
           /\ Count(s, e) \in Nat
<1>1. DOMAIN s = 1..Len(s) /\ Len(s) \in Nat
  OBVIOUS
<1>2. IsFiniteSet(1..Len(s))
  BY <1>1, FS_Interval
<1>3. {k \in DOMAIN s : s[k] = e} \subseteq 1..Len(s)
  BY <1>1
<1>4. IsFiniteSet({k \in DOMAIN s : s[k] = e})
  BY <1>2, <1>3, FS_Subset
<1>5. QED
  BY <1>4, FS_CardinalityType DEF Count

LEMMA CountEmpty == \A e : Count(<< >>, e) = 0
<1>1. \A e : {k \in DOMAIN << >> : << >>[k] = e} = {}
  OBVIOUS
<1>2. QED
  BY <1>1, FS_EmptySet DEF Count

LEMMA CountAppend ==
    ASSUME NEW S, NEW s \in Seq(S), NEW x \in S, NEW e
    PROVE  Count(Append(s, x), e) = IF x = e THEN Count(s, e) + 1 ELSE Count(s, e)
<1> DEFINE old == {k \in DOMAIN s : s[k] = e}
           new == {k \in DOMAIN Append(s, x) : Append(s, x)[k] = e}
<1>1. /\ DOMAIN s = 1..Len(s) /\ Len(s) \in Nat
      /\ DOMAIN Append(s, x) = 1..(Len(s) + 1)
      /\ \A k \in 1..Len(s) : Append(s, x)[k] = s[k]
      /\ Append(s, x)[Len(s) + 1] = x
  OBVIOUS
<1>2. Len(s) + 1 \notin old
  BY <1>1
<1>3. new = IF x = e THEN old \cup {Len(s) + 1} ELSE old
  <2>1. ASSUME NEW k \in new PROVE k \in old \/ (k = Len(s) + 1 /\ x = e)
    <3>1. k \in 1..Len(s) \/ k = Len(s) + 1
      BY <1>1
    <3>2. QED
      BY <1>1, <3>1
  <2>2. old \subseteq new /\ (x = e => Len(s) + 1 \in new)
    BY <1>1
  <2>3. QED
    BY <2>1, <2>2
<1>4. IsFiniteSet(old)
  BY CountIsNumber
<1> HIDE DEF old, new
<1>5. Cardinality(old \cup {Len(s) + 1}) = Cardinality(old) + 1
  BY <1>2, <1>4, FS_AddElement
<1>6. QED
  BY <1>3, <1>5 DEF Count, old, new

\* The places of e in what is left, moved by one, are its places but the first.
LEMMA CountTail ==
    ASSUME NEW S, NEW s \in Seq(S), s # << >>, NEW e
    PROVE  Count(s, e) = IF Head(s) = e THEN Count(Tail(s), e) + 1 ELSE Count(Tail(s), e)
<1> DEFINE left == {k \in DOMAIN Tail(s) : Tail(s)[k] = e}
           all == {k \in DOMAIN s : s[k] = e}
           later == all \ {1}
           f == [k \in left |-> k + 1]
<1>1. /\ DOMAIN s = 1..Len(s) /\ Len(s) \in Nat /\ 1 \in 1..Len(s) /\ s[1] = Head(s)
      /\ DOMAIN Tail(s) = 1..(Len(s) - 1) /\ Tail(s) \in Seq(S)
      /\ \A k \in 1..(Len(s) - 1) : Tail(s)[k] = s[k + 1] /\ k + 1 \in 1..Len(s) /\ k + 1 # 1
      /\ \A k \in 1..Len(s) : k # 1 => k - 1 \in 1..(Len(s) - 1) /\ (k - 1) + 1 = k
  OBVIOUS
<1>2. IsFiniteSet(left) /\ IsFiniteSet(all) /\ IsFiniteSet(later)
  <2>1. IsFiniteSet(left)
    <3>1. Tail(s) \in Seq(S)
      BY <1>1
    <3>2. QED
      BY <3>1, CountIsNumber, Zenon
  <2>2. IsFiniteSet(all)
    BY CountIsNumber
  <2>3. later \subseteq all
    OBVIOUS
  <2>4. QED
    BY <2>1, <2>2, <2>3, FS_Subset
<1>3. f \in Bijection(left, later)
  <2>1. f \in [left -> later]
    BY <1>1
  <2>2. \A a, b \in left : f[a] = f[b] => a = b
    BY <1>1
  <2>3. \A k \in later : k - 1 \in left /\ f[k - 1] = k
    BY <1>1
  <2>4. QED
    BY <2>1, <2>2, <2>3 DEF Bijection, Injection, Surjection, IsInjective
<1>4. Cardinality(left) = Cardinality(later)
  BY <1>2, <1>3, FS_Bijection DEF ExistsBijection
<1>5. all = IF Head(s) = e THEN later \cup {1} ELSE later
  BY <1>1
<1>6. 1 \notin later
  OBVIOUS
<1> HIDE DEF left, all, later
<1>7. Cardinality(later \cup {1}) = Cardinality(later) + 1
  BY <1>2, <1>6, FS_AddElement
<1>8. QED
  BY <1>4, <1>5, <1>7 DEF Count, left, all

\* What is left when one is lost.
LEMMA WithoutOne ==
    ASSUME NEW S, NEW s \in Seq(S), NEW k \in DOMAIN s
    PROVE  /\ Without(s, k) \in Seq(S)
           /\ \A e : Count(Without(s, k), e) <= Count(s, e)
<1> DEFINE w == Without(s, k)
           a == SubSeq(s, 1, k - 1)
           b == SubSeq(s, k + 1, Len(s))
<1>1. /\ DOMAIN s = 1..Len(s) /\ Len(s) \in Nat /\ k \in 1..Len(s)
      /\ a \in Seq(S) /\ Len(a) = k - 1
      /\ b \in Seq(S) /\ Len(b) = Len(s) - k
      /\ \A i \in 1..(k - 1) : a[i] = s[i]
      /\ \A i \in 1..(Len(s) - k) : b[i] = s[k + i]
  OBVIOUS
<1>2. /\ w \in Seq(S) /\ DOMAIN w = 1..(Len(s) - 1)
      /\ \A i \in 1..(Len(s) - 1) : w[i] = IF i < k THEN s[i] ELSE s[i + 1]
  <2>1. w = a \o b
    BY DEF Without
  <2> HIDE DEF a, b, w
  <2>2. /\ w \in Seq(S) /\ Len(w) = Len(a) + Len(b) /\ DOMAIN w = 1..Len(w)
        /\ \A i \in 1..Len(w) : w[i] = IF i <= Len(a) THEN a[i] ELSE b[i - Len(a)]
    <3>1. a \in Seq(S) /\ b \in Seq(S)
      BY <1>1
    <3>2. QED
      BY <2>1, <3>1
  <2>3. ASSUME NEW i \in 1..(Len(s) - 1), ~(i < k) PROVE w[i] = s[i + 1]
    <3>1. /\ i - Len(a) \in 1..(Len(s) - k) /\ ~(i <= Len(a)) /\ i \in 1..Len(w)
          /\ k + (i - Len(a)) = i + 1
      BY <1>1, <2>2, <2>3
    <3>2. w[i] = b[i - Len(a)] /\ b[i - Len(a)] = s[k + (i - Len(a))]
      BY <1>1, <2>2, <3>1
    <3>3. QED
      BY <3>1, <3>2
  <2>4. ASSUME NEW i \in 1..(Len(s) - 1), i < k PROVE w[i] = s[i]
    BY <1>1, <2>2, <2>4
  <2>5. QED
    BY <1>1, <2>2, <2>3, <2>4
<1> HIDE DEF w
<1>3. ASSUME NEW e PROVE Count(w, e) <= Count(s, e)
  <2> DEFINE left == {i \in DOMAIN w : w[i] = e}
             all == {i \in DOMAIN s : s[i] = e}
             f == [i \in left |-> IF i < k THEN i ELSE i + 1]
  <2>1. f \in [left -> all]
    BY <1>1, <1>2
  <2>2. ASSUME NEW x \in left, NEW y \in left, f[x] = f[y] PROVE x = y
    <3>1. x \in Int /\ y \in Int /\ k \in Int
      BY <1>1, <1>2
    <3>2. /\ f[x] = IF x < k THEN x ELSE x + 1
          /\ f[y] = IF y < k THEN y ELSE y + 1
      OBVIOUS
    <3> HIDE DEF f, left
    <3>3. (IF x < k THEN x ELSE x + 1) = (IF y < k THEN y ELSE y + 1)
      BY <2>2, <3>2
    <3>4. QED
      BY <3>1, <3>3
  <2>3. f \in Injection(left, all)
    BY <2>1, <2>2 DEF Injection, IsInjective
  <2>4. IsFiniteSet(left) /\ IsFiniteSet(all)
    BY <1>2, CountIsNumber
  <2>5. QED
    BY <2>3, <2>4, FS_Injection DEF Count, ExistsInjection
<1>4. QED
  BY <1>2, <1>3 DEF w

-----------------------------------------------------------------------------
(* What an event that is sent, or handled, does to those on their way.     *)

LEMMA Said ==
    ASSUME TypeInv, NEW t \in EventTypes, NEW r \in Requests, down' = Append(down, Frame(t, r))
    PROVE  /\ down' \in Seq(Events) /\ Len(down) \in Nat
           /\ DOMAIN down = 1..Len(down) /\ DOMAIN down' = 1..(Len(down) + 1)
           /\ \A k \in DOMAIN down : /\ k \in DOMAIN down' /\ down'[k] = down[k]
                                     /\ k < Len(down) + 1
           /\ Len(down) + 1 \in DOMAIN down'
           /\ down'[Len(down) + 1] = Frame(t, r)
           /\ \A k \in DOMAIN down' : k \in DOMAIN down \/ k = Len(down) + 1
           /\ \A q : Chunks(q)' = IF t = "chunk" /\ q = r THEN Chunks(q) + 1 ELSE Chunks(q)
<1>1. down \in Seq(Events) /\ Frame(t, r) \in Events
  BY FrameParts DEF TypeInv
<1>2. /\ down' \in Seq(Events) /\ Len(down) \in Nat
      /\ DOMAIN down = 1..Len(down) /\ DOMAIN down' = 1..(Len(down) + 1)
      /\ \A k \in 1..Len(down) : down'[k] = down[k]
      /\ down'[Len(down) + 1] = Frame(t, r)
  BY <1>1
<1>3. ASSUME NEW q
      PROVE  Chunks(q)' = IF t = "chunk" /\ q = r THEN Chunks(q) + 1 ELSE Chunks(q)
  <2>1. Frame(t, r) = Frame("chunk", q) <=> t = "chunk" /\ q = r
    BY FrameParts
  <2>2. Count(down', Frame("chunk", q)) =
          IF Frame(t, r) = Frame("chunk", q) THEN Count(down, Frame("chunk", q)) + 1
                                             ELSE Count(down, Frame("chunk", q))
    BY <1>1, CountAppend
  <2>3. Chunks(q)' = Count(down', Frame("chunk", q))
    BY DEF Chunks, Count
  <2>4. QED
    BY <2>1, <2>2, <2>3 DEF Chunks
<1>4. QED
  BY <1>2, <1>3

LEMMA Handled ==
    ASSUME TypeInv, down # << >>, down' = Tail(down)
    PROVE  /\ down' \in Seq(Events) /\ Head(down) \in Events /\ Head(down) = down[1]
           /\ 1 \in DOMAIN down
           /\ \A k \in DOMAIN down' : /\ k + 1 \in DOMAIN down /\ down'[k] = down[k + 1]
                                      /\ k \in Nat \ {0}
           /\ \A k \in DOMAIN down : k # 1 => /\ k - 1 \in DOMAIN down' /\ down'[k - 1] = down[k]
                                              /\ 1 < k /\ k \in Nat
           /\ \A q : Chunks(q) = IF down[1] = Frame("chunk", q) THEN Chunks(q)' + 1
                                                                 ELSE Chunks(q)'
<1>1. down \in Seq(Events)
  BY DEF TypeInv
<1>2. /\ down' \in Seq(Events) /\ Head(down) \in Events /\ Head(down) = down[1]
      /\ DOMAIN down = 1..Len(down) /\ Len(down) \in Nat /\ 1 \in DOMAIN down
      /\ DOMAIN down' = 1..(Len(down) - 1)
      /\ \A k \in 1..(Len(down) - 1) : down'[k] = down[k + 1]
  BY <1>1
<1>3. \A k \in DOMAIN down : k # 1 => /\ k - 1 \in DOMAIN down' /\ down'[k - 1] = down[k]
                                      /\ 1 < k /\ k \in Nat
  <2> SUFFICES ASSUME NEW k \in DOMAIN down, k # 1
               PROVE  k - 1 \in DOMAIN down' /\ down'[k - 1] = down[k] /\ 1 < k /\ k \in Nat
    OBVIOUS
  <2>1. k - 1 \in 1..(Len(down) - 1) /\ (k - 1) + 1 = k /\ 1 < k /\ k \in Nat
    BY <1>2
  <2>2. QED
    BY <1>2, <2>1
<1>4. ASSUME NEW q
      PROVE  Chunks(q) = IF down[1] = Frame("chunk", q) THEN Chunks(q)' + 1 ELSE Chunks(q)'
  <2>1. Count(down, Frame("chunk", q)) =
          IF Head(down) = Frame("chunk", q) THEN Count(Tail(down), Frame("chunk", q)) + 1
                                            ELSE Count(Tail(down), Frame("chunk", q))
    BY <1>1, CountTail
  <2>2. Chunks(q)' = Count(Tail(down), Frame("chunk", q))
    BY DEF Chunks, Count
  <2>3. QED
    BY <1>2, <2>1, <2>2 DEF Chunks
<1>5. QED
  BY <1>2, <1>3, <1>4

\* Events have a request, and their number is a number.
LEMMA EventTyped ==
    ASSUME TypeInv
    PROVE  /\ \A k \in DOMAIN down : /\ down[k].type \in EventTypes /\ down[k].request \in Requests
                                     /\ down[k] = Frame(down[k].type, down[k].request)
                                     /\ down[k].request # None
           /\ \A q : Chunks(q) \in Nat
<1>1. down \in Seq(Events)
  BY DEF TypeInv
<1>2. \A k \in DOMAIN down : down[k] \in Events
  BY <1>1
<1>3. QED
  BY <1>1, <1>2, FrameParts, CountIsNumber, PhoneAnswersAssumption DEF Chunks

-----------------------------------------------------------------------------
(* The desktop says something.                                             *)

\* It accepts a request.
LEMMA AcceptKeeps ==
    ASSUME TypeInv, Lossless, NEW r \in Requests,
           Untouched(r), status[r] \in {"none", "streaming"},
           status[r] = "none" => r \notin Questions,
           \A q \in Requests : Asked(q)' <=> Asked(q) /\ q # r,
           AskedOnce',
           serving = None, serving' = r, down' = Append(down, Frame("started", r)),
           UNCHANGED << outcome, written, page, batched >>
    PROVE  Lossless'
<1>1. "started" \in EventTypes /\ "started" \notin Outcomes /\ r # None
  BY PhoneAnswersAssumption DEF EventTypes, Outcomes
<1> DEFINE n == Len(down) + 1
<1>2. /\ \A k \in DOMAIN down : k \in DOMAIN down' /\ down'[k] = down[k] /\ k < n
      /\ n \in DOMAIN down' /\ down'[n] = Frame("started", r)
      /\ \A k \in DOMAIN down' : k \in DOMAIN down \/ k = n
      /\ \A q : Chunks(q)' = Chunks(q)
  BY <1>1, Said
<1>3. Frame("started", r).type = "started" /\ Frame("started", r).request = r
  BY FrameParts
<1> HIDE DEF n
<1>4. UNCHANGED << status, shown, active, activeRef, batched, outcome, written >>
  BY DEF page
<1>5. \A q \in Requests : EndingSent(q) => EndingSent(q)'
  BY <1>2 DEF EndingSent
<1>6. \A q \in Requests : EndingComes(q) => EndingComes(q)'
  BY <1>5, PhoneAnswersAssumption DEF EndingComes
<1>7. \A q \in Requests \ {r} : Untouched(q) => Untouched(q)'
  BY <1>2, <1>3, <1>4 DEF Untouched
<1>8. AskedInv'
  BY <1>4, <1>7 DEF Lossless, AskedInv
<1>9. ServingInv'
  BY <1>2, <1>4 DEF Lossless, ServingInv, Untouched
<1>10. EndingFollows'
  <2> SUFFICES ASSUME NEW k \in DOMAIN down'
               PROVE  \/ serving' = down'[k].request
                      \/ \E l \in DOMAIN down' : /\ down'[l].type \in Outcomes
                                                 /\ down'[l].request = down'[k].request
    BY DEF EndingFollows, EndingSent
  <2>1. CASE k \in DOMAIN down
    <3>1. EndingSent(down[k].request) /\ down[k].request \in Requests
      BY <2>1, EventTyped DEF Lossless, EndingFollows
    <3>2. QED
      BY <1>2, <2>1, <3>1 DEF EndingSent
  <2>2. QED
    BY <1>2, <1>3, <2>1
<1>11. EndingIsLast'
  BY <1>1, <1>2, <1>3, <1>4 DEF Lossless, EndingIsLast, Untouched
<1>12. StartIsFirst'
  BY <1>2, <1>3, <1>4 DEF Lossless, StartIsFirst
<1>13. StatusInv'
  <2> SUFFICES ASSUME NEW q \in Requests
               PROVE  /\ status[q] = "none" /\ q \in Questions => Untouched(q)'
                      /\ status[q] = "streaming" => EndingComes(q)'
                      /\ status[q] \notin {"none", "streaming"} =>
                            /\ outcome[q] # "none" /\ status[q] = StatusOf(outcome[q])
                            /\ \A k \in DOMAIN down' : down'[k].request # q
    BY <1>4 DEF StatusInv, StatusOf
  <2>1. q # r => (status[q] \notin {"none", "streaming"} =>
                     \A k \in DOMAIN down' : down'[k].request # q)
    BY <1>2, <1>3 DEF Lossless, StatusInv
  <2>2. QED
    BY <1>6, <1>7, <2>1 DEF Lossless, StatusInv
<1>14. TextInv'
  BY <1>2, <1>4 DEF Lossless, TextInv
<1>15. ActiveInv'
  BY <1>4, <1>6 DEF Lossless, ActiveInv, TypeInv
<1>16. QED
  BY <1>8, <1>9, <1>10, <1>11, <1>12, <1>13, <1>14, <1>15 DEF Lossless

\* It turns a request down.
LEMMA RefuseKeeps ==
    ASSUME TypeInv, Lossless, NEW r \in Requests,
           Untouched(r), status[r] \in {"none", "streaming"},
           status[r] = "none" => r \notin Questions,
           \A q \in Requests : Asked(q)' <=> Asked(q) /\ q # r,
           AskedOnce',
           outcome' = [outcome EXCEPT ![r] = "error"], down' = Append(down, Frame("error", r)),
           UNCHANGED << serving, written, page, batched >>
    PROVE  Lossless'
<1>1. "error" \in EventTypes /\ "error" \in Outcomes /\ "error" # "none" /\ "error" # "chunk"
  BY DEF EventTypes, Outcomes
<1> DEFINE n == Len(down) + 1
<1>2. /\ \A k \in DOMAIN down : k \in DOMAIN down' /\ down'[k] = down[k] /\ k < n
      /\ n \in DOMAIN down' /\ down'[n] = Frame("error", r) /\ n \in Nat
      /\ \A k \in DOMAIN down' : k \in DOMAIN down \/ k = n
      /\ \A q : Chunks(q)' = Chunks(q)
      /\ DOMAIN down \subseteq Nat
  BY <1>1, Said
<1>3. Frame("error", r).type = "error" /\ Frame("error", r).request = r
  BY FrameParts
<1> HIDE DEF n
<1>4. /\ UNCHANGED << status, shown, active, activeRef, batched, serving, written >>
      /\ outcome'[r] = "error" /\ \A q \in Requests \ {r} : outcome'[q] = outcome[q]
  BY DEF page, TypeInv
<1>5. EndingSent(r)' /\ \A q \in Requests : EndingSent(q) => EndingSent(q)'
  BY <1>1, <1>2, <1>3 DEF EndingSent
<1>6. \A q \in Requests : EndingComes(q) => EndingComes(q)'
  BY <1>4, <1>5 DEF EndingComes
<1>7. \A q \in Requests \ {r} : Untouched(q) => Untouched(q)'
  BY <1>2, <1>3, <1>4 DEF Untouched
<1>8. AskedInv'
  BY <1>4, <1>7 DEF Lossless, AskedInv
<1>9. ServingInv'
  BY <1>2, <1>4 DEF Lossless, ServingInv, Untouched, TypeInv
<1>10. EndingFollows'
  <2> SUFFICES ASSUME NEW k \in DOMAIN down'
               PROVE  \/ serving' = down'[k].request
                      \/ \E l \in DOMAIN down' : /\ down'[l].type \in Outcomes
                                                 /\ down'[l].request = down'[k].request
    BY DEF EndingFollows, EndingSent
  <2>1. CASE k \in DOMAIN down
    <3>1. down[k].request \in Requests /\ (serving = down[k].request \/ EndingSent(down[k].request))
      BY <2>1, EventTyped DEF Lossless, EndingFollows
    <3>2. QED
      BY <1>2, <1>4, <2>1, <3>1 DEF EndingSent
  <2>2. QED
    BY <1>1, <1>2, <1>3, <2>1
<1>11. EndingIsLast'
  <2> SUFFICES ASSUME NEW k \in DOMAIN down', NEW l \in DOMAIN down',
                      down'[k].type \in Outcomes, down'[l].request = down'[k].request
               PROVE  l <= k /\ outcome'[down'[k].request] = down'[k].type
    BY DEF EndingIsLast
  <2>1. CASE k \in DOMAIN down
    <3>1. down[k].request \in Requests \ {r}
      BY <2>1, EventTyped DEF Untouched
    <3>2. l \in DOMAIN down
      BY <1>2, <1>3, <2>1, <3>1
    <3>3. QED
      BY <1>2, <1>4, <2>1, <3>1, <3>2 DEF Lossless, EndingIsLast
  <2>2. CASE k = n
    BY <1>2, <1>3, <1>4, <2>2
  <2>3. QED
    BY <1>2, <2>1, <2>2
<1>12. StartIsFirst'
  BY <1>1, <1>2, <1>3, <1>4 DEF Lossless, StartIsFirst
<1>13. StatusInv'
  <2> SUFFICES ASSUME NEW q \in Requests
               PROVE  /\ status[q] = "none" /\ q \in Questions => Untouched(q)'
                      /\ status[q] = "streaming" => EndingComes(q)'
                      /\ status[q] \notin {"none", "streaming"} =>
                            /\ outcome'[q] # "none" /\ status[q] = StatusOf(outcome'[q])
                            /\ \A k \in DOMAIN down' : down'[k].request # q
    BY <1>4 DEF StatusInv, StatusOf
  <2>1. q # r => (status[q] \notin {"none", "streaming"} =>
                     \A k \in DOMAIN down' : down'[k].request # q)
    BY <1>2, <1>3 DEF Lossless, StatusInv
  <2>2. q # r => outcome'[q] = outcome[q]
    BY <1>4
  <2>3. QED
    BY <1>6, <1>7, <2>1, <2>2 DEF Lossless, StatusInv
<1>14. TextInv'
  BY <1>2, <1>4 DEF Lossless, TextInv
<1>15. ActiveInv'
  BY <1>4, <1>6 DEF Lossless, ActiveInv, TypeInv
<1>16. QED
  BY <1>8, <1>9, <1>10, <1>11, <1>12, <1>13, <1>14, <1>15 DEF Lossless

\* It sends a piece of text.
LEMMA DeltaKeeps == ASSUME TypeInv, Lossless, SendDelta PROVE Lossless'
<1> DEFINE n == Len(down) + 1
<1>1. /\ serving \in Requests /\ serving # None
      /\ written' = [written EXCEPT ![serving] = written[serving] + 1]
      /\ down' = Append(down, Frame("chunk", serving))
      /\ UNCHANGED << serving, outcome, up, status, shown, active, activeRef, batched >>
  BY DEF SendDelta, TypeInv, page, history
<1>2. "chunk" \in EventTypes /\ "chunk" \notin Outcomes
  BY DEF EventTypes, Outcomes
<1>3. /\ \A k \in DOMAIN down : k \in DOMAIN down' /\ down'[k] = down[k] /\ k < n
      /\ n \in DOMAIN down' /\ down'[n] = Frame("chunk", serving)
      /\ \A k \in DOMAIN down' : k \in DOMAIN down \/ k = n
      /\ \A q : Chunks(q)' = IF q = serving THEN Chunks(q) + 1 ELSE Chunks(q)
  BY <1>1, <1>2, Said
<1>4. Frame("chunk", serving).type = "chunk" /\ Frame("chunk", serving).request = serving
  BY FrameParts
<1> HIDE DEF n
<1>5. \A q \in Requests : EndingSent(q) => EndingSent(q)'
  BY <1>3 DEF EndingSent
<1>6. \A q \in Requests : (Asked(q)' <=> Asked(q)) /\ (EndingComes(q) => EndingComes(q)')
  BY <1>1, <1>5 DEF EndingComes, Asked
<1>7. \A q \in Requests : Untouched(q) => Untouched(q)'
  BY <1>1, <1>3, <1>4 DEF Untouched
<1>8. AskedOnce' /\ AskedInv'
  BY <1>1, <1>6, <1>7 DEF Lossless, AskedInv, AskedOnce
<1>9. ServingInv'
  BY <1>1, <1>3 DEF Lossless, ServingInv
<1>10. EndingFollows'
  <2> SUFFICES ASSUME NEW k \in DOMAIN down'
               PROVE  \/ serving' = down'[k].request
                      \/ \E l \in DOMAIN down' : /\ down'[l].type \in Outcomes
                                                 /\ down'[l].request = down'[k].request
    BY DEF EndingFollows, EndingSent
  <2>1. CASE k \in DOMAIN down
    BY <1>1, <1>3, <2>1 DEF Lossless, EndingFollows, EndingSent
  <2>2. QED
    BY <1>1, <1>3, <1>4, <2>1
<1>11. EndingIsLast'
  <2> SUFFICES ASSUME NEW k \in DOMAIN down', NEW l \in DOMAIN down',
                      down'[k].type \in Outcomes, down'[l].request = down'[k].request
               PROVE  l <= k /\ outcome'[down'[k].request] = down'[k].type
    BY DEF EndingIsLast
  <2>1. k \in DOMAIN down
    BY <1>2, <1>3, <1>4
  <2>2. outcome[down[k].request] = down[k].type
    BY <1>3, <2>1 DEF Lossless, EndingIsLast
  <2>3. down[k].request # serving
    BY <1>1, <1>3, <2>1, <2>2 DEF Lossless, ServingInv, Outcomes
  <2>4. l \in DOMAIN down
    BY <1>3, <1>4, <2>1, <2>3
  <2>5. QED
    BY <1>1, <1>3, <2>1, <2>4 DEF Lossless, EndingIsLast
<1>12. StartIsFirst'
  BY <1>1, <1>3, <1>4 DEF Lossless, StartIsFirst, ServingInv
<1>13. StatusInv'
  <2> SUFFICES ASSUME NEW q \in Requests
               PROVE  /\ status[q] = "none" /\ q \in Questions => Untouched(q)'
                      /\ status[q] = "streaming" => EndingComes(q)'
                      /\ status[q] \notin {"none", "streaming"} =>
                            /\ outcome[q] # "none" /\ status[q] = StatusOf(outcome[q])
                            /\ \A k \in DOMAIN down' : down'[k].request # q
    BY <1>1 DEF StatusInv, StatusOf
  <2>1. status[q] \notin {"none", "streaming"} => q # serving
    BY <1>1 DEF Lossless, ServingInv
  <2>2. status[q] \notin {"none", "streaming"} => \A k \in DOMAIN down' : down'[k].request # q
    BY <1>3, <1>4, <2>1 DEF Lossless, StatusInv
  <2>3. QED
    BY <1>6, <1>7, <2>2 DEF Lossless, StatusInv
<1>14. TextInv'
  <2> SUFFICES ASSUME NEW q \in Requests PROVE shown[q] + Chunks(q)' = written'[q]
    BY <1>1 DEF TextInv
  <2>1. shown[q] + Chunks(q) = written[q] /\ shown[q] \in Nat /\ Chunks(q) \in Nat
    BY EventTyped DEF Lossless, TextInv, TypeInv
  <2>2. CASE q = serving
    <3>1. Chunks(q)' = Chunks(q) + 1 /\ written'[q] = written[q] + 1
      BY <1>1, <1>3, <2>2 DEF TypeInv
    <3>2. QED
      BY <2>1, <3>1
  <2>3. CASE q # serving
    BY <1>1, <1>3, <2>1, <2>3 DEF TypeInv
  <2>4. QED
    BY <2>2, <2>3
<1>15. ActiveInv'
  BY <1>1, <1>6 DEF Lossless, ActiveInv, TypeInv
<1>16. QED
  BY <1>8, <1>9, <1>10, <1>11, <1>12, <1>13, <1>14, <1>15 DEF Lossless

\* A run ends, by itself or because the phone said so.
LEMMA FinishKeeps ==
    ASSUME TypeInv, Lossless, NEW s \in Requests, serving = s,
           NEW result \in Outcomes, Finish(result),
           \A q \in Requests : Asked(q)' <=> Asked(q),
           AskedOnce',
           UNCHANGED << page, batched >>
    PROVE  Lossless'
<1> DEFINE n == Len(down) + 1
<1>1. /\ s # None /\ serving' = None
      /\ outcome' = [outcome EXCEPT ![s] = result]
      /\ down' = Append(down, Frame(result, s))
      /\ UNCHANGED << written, status, shown, active, activeRef, batched >>
  BY PhoneAnswersAssumption DEF Finish, page
<1>2. result \in EventTypes /\ result # "none" /\ result # "chunk"
  BY DEF EventTypes, Outcomes
<1>3. /\ \A k \in DOMAIN down : k \in DOMAIN down' /\ down'[k] = down[k] /\ k < n
      /\ n \in DOMAIN down' /\ down'[n] = Frame(result, s) /\ n \in Nat
      /\ \A k \in DOMAIN down' : k \in DOMAIN down \/ k = n
      /\ \A q : Chunks(q)' = Chunks(q)
      /\ DOMAIN down \subseteq Nat
  BY <1>1, <1>2, Said
<1>4. Frame(result, s).type = result /\ Frame(result, s).request = s
  BY FrameParts
<1> HIDE DEF n
<1>5. outcome'[s] = result /\ \A q \in Requests \ {s} : outcome'[q] = outcome[q]
  BY <1>1 DEF TypeInv
<1>6. EndingSent(s)' /\ \A q \in Requests : EndingSent(q) => EndingSent(q)'
  BY <1>2, <1>3, <1>4 DEF EndingSent
<1>7. \A q \in Requests : EndingComes(q) => EndingComes(q)'
  BY <1>6 DEF EndingComes
<1>8. ~Untouched(s) /\ \A q \in Requests : Untouched(q) => Untouched(q)'
  BY <1>1, <1>3, <1>4, <1>5, PhoneAnswersAssumption DEF Untouched
<1>9. AskedInv'
  BY <1>1, <1>8 DEF Lossless, AskedInv
<1>10. ServingInv'
  BY <1>1 DEF ServingInv
<1>11. EndingFollows'
  <2> SUFFICES ASSUME NEW k \in DOMAIN down'
               PROVE  \/ serving' = down'[k].request
                      \/ \E l \in DOMAIN down' : /\ down'[l].type \in Outcomes
                                                 /\ down'[l].request = down'[k].request
    BY DEF EndingFollows, EndingSent
  <2>1. CASE k \in DOMAIN down
    BY <1>3, <1>4, <2>1 DEF Lossless, EndingFollows, EndingSent
  <2>2. QED
    BY <1>3, <1>4, <2>1
<1>12. EndingIsLast'
  <2> SUFFICES ASSUME NEW k \in DOMAIN down', NEW l \in DOMAIN down',
                      down'[k].type \in Outcomes, down'[l].request = down'[k].request
               PROVE  l <= k /\ outcome'[down'[k].request] = down'[k].type
    BY DEF EndingIsLast
  <2>1. CASE k \in DOMAIN down
    <3>1. outcome[down[k].request] = down[k].type /\ down[k].request \in Requests
      BY <1>3, <2>1, EventTyped DEF Lossless, EndingIsLast
    <3>2. outcome[s] = "none"
      BY <1>1 DEF Lossless, ServingInv
    <3>3. down[k].request # s
      BY <1>3, <2>1, <3>1, <3>2 DEF Outcomes
    <3>4. l \in DOMAIN down
      BY <1>3, <1>4, <2>1, <3>3
    <3>5. QED
      BY <1>3, <1>5, <2>1, <3>1, <3>3, <3>4 DEF Lossless, EndingIsLast
  <2>2. CASE k = n
    BY <1>3, <1>4, <1>5, <2>2
  <2>3. QED
    BY <1>3, <2>1, <2>2
<1>13. StartIsFirst'
  BY <1>1, <1>2, <1>3, <1>4 DEF Lossless, StartIsFirst
<1>14. StatusInv'
  <2> SUFFICES ASSUME NEW q \in Requests
               PROVE  /\ status[q] = "none" /\ q \in Questions => Untouched(q)'
                      /\ status[q] = "streaming" => EndingComes(q)'
                      /\ status[q] \notin {"none", "streaming"} =>
                            /\ outcome'[q] # "none" /\ status[q] = StatusOf(outcome'[q])
                            /\ \A k \in DOMAIN down' : down'[k].request # q
    BY <1>1 DEF StatusInv, StatusOf
  <2>1. status[q] \notin {"none", "streaming"} => q # s
    BY <1>1 DEF Lossless, ServingInv
  <2>2. status[q] \notin {"none", "streaming"} =>
          outcome'[q] = outcome[q] /\ \A k \in DOMAIN down' : down'[k].request # q
    BY <1>3, <1>4, <1>5, <2>1 DEF Lossless, StatusInv
  <2>3. QED
    BY <1>7, <1>8, <2>2 DEF Lossless, StatusInv
<1>15. TextInv'
  BY <1>1, <1>3 DEF Lossless, TextInv
<1>16. ActiveInv'
  BY <1>1, <1>7 DEF Lossless, ActiveInv, TypeInv
<1>17. QED
  BY <1>9, <1>10, <1>11, <1>12, <1>13, <1>14, <1>15, <1>16 DEF Lossless

-----------------------------------------------------------------------------
(* The frames of the phone.                                                *)

LEMMA FrameTyped ==
    ASSUME TypeInv, NEW k \in DOMAIN up
    PROVE  /\ up[k].type \in {"request", "cancel"} /\ up[k].request \in Requests
           /\ up[k] = Frame(up[k].type, up[k].request)
<1>1. up[k] \in Frames
  BY DEF TypeInv
<1>2. QED
  BY <1>1, FrameParts

\* The desktop takes the next one.
LEMMA FrameTaken ==
    ASSUME TypeInv, Lossless, up # << >>, up' = Tail(up)
    PROVE  /\ Head(up).type \in {"request", "cancel"} /\ Head(up).request \in Requests
           /\ Head(up) = Frame(Head(up).type, Head(up).request)
           /\ AskedOnce'
           /\ Head(up).type = "request" =>
                 /\ Asked(Head(up).request)
                 /\ \A q \in Requests : Asked(q)' <=> Asked(q) /\ q # Head(up).request
           /\ Head(up).type # "request" => \A q \in Requests : Asked(q)' <=> Asked(q)
<1>1. up \in Seq(Frames)
  BY DEF TypeInv
<1>2. /\ Head(up) = up[1] /\ 1 \in DOMAIN up
      /\ \A k \in DOMAIN up' : k + 1 \in DOMAIN up /\ up'[k] = up[k + 1] /\ k + 1 # 1 /\ k \in Nat
      /\ \A k \in DOMAIN up : k # 1 => k - 1 \in DOMAIN up' /\ up'[k - 1] = up[k]
  <2>1. /\ DOMAIN up = 1..Len(up) /\ Len(up) \in Nat /\ 1 \in 1..Len(up) /\ Head(up) = up[1]
        /\ DOMAIN up' = 1..(Len(up) - 1)
        /\ \A k \in 1..(Len(up) - 1) : up'[k] = up[k + 1]
    BY <1>1
  <2>2. ASSUME NEW k \in DOMAIN up, k # 1 PROVE k - 1 \in DOMAIN up' /\ up'[k - 1] = up[k]
    <3>1. k - 1 \in 1..(Len(up) - 1) /\ (k - 1) + 1 = k
      BY <2>1, <2>2
    <3>2. QED
      BY <2>1, <3>1
  <2>3. QED
    BY <2>1, <2>2
<1>3. /\ up[1].type \in {"request", "cancel"} /\ up[1].request \in Requests
      /\ up[1] = Frame(up[1].type, up[1].request)
  BY <1>2, FrameTyped
<1>4. AskedOnce'
  <2> SUFFICES ASSUME NEW k \in DOMAIN up', NEW l \in DOMAIN up',
                      up'[k].type = "request", up'[k] = up'[l]
               PROVE  k = l
    BY DEF AskedOnce
  <2>1. k + 1 = l + 1 /\ k \in Nat /\ l \in Nat
    BY <1>2 DEF Lossless, AskedOnce
  <2>2. QED
    BY <2>1
<1>5. ASSUME NEW q \in Requests, up[1] # Frame("request", q) PROVE Asked(q)' <=> Asked(q)
  BY <1>2, <1>5 DEF Asked
<1>6. ASSUME NEW q \in Requests, up[1] = Frame("request", q) PROVE Asked(q) /\ ~Asked(q)'
  <2>1. Frame("request", q).type = "request"
    BY FrameParts
  <2>2. \A k \in DOMAIN up' : up'[k] # Frame("request", q)
    BY <1>2, <1>6, <2>1 DEF Lossless, AskedOnce
  <2>3. QED
    BY <1>2, <1>6, <2>2 DEF Asked
<1>7. \A q \in Requests : up[1] = Frame("request", q)
                            <=> up[1].type = "request" /\ up[1].request = q
  BY <1>3, FrameParts
<1>8. QED
  BY <1>2, <1>3, <1>4, <1>5, <1>6, <1>7

\* The phone sends one.
LEMMA FrameSent ==
    ASSUME TypeInv, Lossless, NEW t \in {"request", "cancel"}, NEW r \in Requests,
           t = "request" => ~Asked(r), up' = Append(up, Frame(t, r))
    PROVE  /\ AskedOnce'
           /\ \A q \in Requests : Asked(q)' <=> Asked(q) \/ (t = "request" /\ q = r)
<1>1. up \in Seq(Frames)
  BY DEF TypeInv
<1> DEFINE n == Len(up) + 1
<1>2. /\ \A k \in DOMAIN up : k \in DOMAIN up' /\ up'[k] = up[k]
      /\ n \in DOMAIN up' /\ up'[n] = Frame(t, r)
      /\ \A k \in DOMAIN up' : k \in DOMAIN up \/ k = n
  BY <1>1
<1> HIDE DEF n
<1>3. Frame(t, r).type = t /\ \A q : Frame(t, r) = Frame("request", q) <=> t = "request" /\ q = r
  BY FrameParts
<1>4. \A q \in Requests : Asked(q)' <=> Asked(q) \/ (t = "request" /\ q = r)
  BY <1>2, <1>3 DEF Asked
<1>5. AskedOnce'
  <2> SUFFICES ASSUME NEW k \in DOMAIN up', NEW l \in DOMAIN up',
                      up'[k].type = "request", up'[k] = up'[l]
               PROVE  k = l
    BY DEF AskedOnce
  <2>1. CASE k \in DOMAIN up /\ l \in DOMAIN up
    BY <1>2, <2>1 DEF Lossless, AskedOnce
  <2>2. t = "request" => \A m \in DOMAIN up : up[m] # Frame(t, r)
    BY DEF Asked
  <2>3. QED
    BY <1>2, <1>3, <2>1, <2>2
<1>6. QED
  BY <1>4, <1>5

-----------------------------------------------------------------------------
(* The steps of the desktop and of the phone.                              *)

\* A request that the desktop has not heard of is accepted or turned down.
LEMMA SubmitKeeps ==
    ASSUME TypeInv, Lossless, NEW r \in Requests,
           Untouched(r), status[r] \in {"none", "streaming"},
           status[r] = "none" => r \notin Questions,
           \A q \in Requests : Asked(q)' <=> Asked(q) /\ q # r,
           AskedOnce',
           Submit(r), UNCHANGED << page, batched >>
    PROVE  Lossless'
<1>1. CASE /\ serving = None /\ serving' = r /\ down' = Append(down, Frame("started", r))
           /\ UNCHANGED << outcome, written >>
  BY <1>1, AcceptKeeps
<1>2. CASE /\ outcome' = [outcome EXCEPT ![r] = "error"] /\ down' = Append(down, Frame("error", r))
           /\ UNCHANGED << serving, written >>
  BY <1>2, RefuseKeeps
<1>3. QED
  BY <1>1, <1>2 DEF Submit

LEMMA ReceiveRequestKeeps == ASSUME TypeInv, Lossless, ReceiveRequest PROVE Lossless'
<1>1. PICK r \in Requests : r = Head(up).request
  BY FrameTaken DEF ReceiveRequest
<1>2. /\ Asked(r) /\ AskedOnce' /\ \A q \in Requests : Asked(q)' <=> Asked(q) /\ q # r
  BY <1>1, FrameTaken DEF ReceiveRequest
<1>3. r \in Questions /\ status[r] = "streaming" /\ Untouched(r)
  BY <1>2 DEF Lossless, AskedInv
<1>4. QED
  BY <1>1, <1>2, <1>3, SubmitKeeps DEF ReceiveRequest, history

LEMMA PressHotkeyKeeps ==
    ASSUME TypeInv, Lossless, NEW h \in Hotkeys, PressHotkey(h)
    PROVE  Lossless'
<1>1. h \in Requests /\ h \notin Questions /\ serving # h /\ outcome[h] = "none"
  BY PhoneAnswersAssumption DEF PressHotkey, Requests
<1>2. ~EndingSent(h)
  BY <1>1 DEF Lossless, EndingIsLast, EndingSent, Outcomes
<1>3. Untouched(h)
  BY <1>1, <1>2 DEF Lossless, EndingFollows, Untouched
<1>4. ~Asked(h)
  BY <1>1 DEF Lossless, AskedInv
<1>5. status[h] \in {"none", "streaming"}
  BY <1>1 DEF Lossless, StatusInv
<1>6. /\ \A q \in Requests : Asked(q)' <=> Asked(q)
      /\ AskedOnce' /\ Submit(h) /\ UNCHANGED << page, batched >>
  BY DEF PressHotkey, Asked, AskedOnce, Lossless, history
<1>7. \A q \in Requests : Asked(q)' <=> Asked(q) /\ q # h
  BY <1>4, <1>6
<1>8. QED
  BY <1>1, <1>3, <1>5, <1>6, <1>7, SubmitKeeps

LEMMA RunEndsKeeps == ASSUME TypeInv, Lossless, RunEnds PROVE Lossless'
<1>1. PICK s \in Requests : s = serving
  BY DEF RunEnds, TypeInv
<1>2. PICK result \in Outcomes : Finish(result)
  BY DEF RunEnds, Outcomes
<1>3. /\ \A q \in Requests : Asked(q)' <=> Asked(q)
      /\ AskedOnce' /\ UNCHANGED << page, batched >>
  BY DEF RunEnds, Asked, AskedOnce, Lossless, history
<1>4. QED
  BY <1>1, <1>2, <1>3, FinishKeeps

\* Nothing happens but that a frame leaves which is no request.
LEMMA SameKeeps ==
    ASSUME TypeInv, Lossless, AskedOnce',
           \A q \in Requests : Asked(q)' <=> Asked(q),
           UNCHANGED << desktop, down, status, shown, active, batched >>
    PROVE  Lossless'
<1>1. \A q \in Requests : (EndingComes(q)' <=> EndingComes(q)) /\ (Untouched(q)' <=> Untouched(q))
  BY DEF EndingComes, EndingSent, Untouched, desktop
<1>2. AskedInv' /\ StatusInv' /\ ActiveInv'
  BY <1>1 DEF Lossless, AskedInv, StatusInv, ActiveInv, StatusOf, desktop, TypeInv
<1>3. ServingInv' /\ EndingFollows' /\ EndingIsLast' /\ StartIsFirst' /\ TextInv'
  BY DEF Lossless, ServingInv, EndingFollows, EndingIsLast, EndingSent, StartIsFirst, TextInv,
         Chunks, Count, desktop
<1>4. QED
  BY <1>2, <1>3 DEF Lossless

LEMMA ReceiveCancelKeeps == ASSUME TypeInv, Lossless, ReceiveCancel PROVE Lossless'
<1>1. /\ AskedOnce' /\ \A q \in Requests : Asked(q)' <=> Asked(q)
      /\ Head(up).request \in Requests
      /\ UNCHANGED << page, batched >>
  BY FrameTaken DEF ReceiveCancel, history
<1>2. CASE serving = Head(up).request
  <2>1. Finish("cancelled") /\ "cancelled" \in Outcomes
    BY <1>2 DEF ReceiveCancel, Outcomes
  <2>2. PICK s \in Requests : s = serving
    BY <1>1, <1>2
  <2>3. QED
    BY <1>1, <2>1, <2>2, FinishKeeps
<1>3. CASE serving # Head(up).request
  <2>1. UNCHANGED << desktop, down, status, shown, active, batched >>
    BY <1>1, <1>3 DEF ReceiveCancel, page
  <2>2. QED
    BY <1>1, <2>1, SameKeeps
<1>4. QED
  BY <1>2, <1>3

LEMMA PressStopKeeps == ASSUME TypeInv, Lossless, PressStop PROVE Lossless'
<1>1. /\ activeRef \in Requests /\ up' = Append(up, Frame("cancel", activeRef))
      /\ UNCHANGED << desktop, down, status, shown, active, batched >>
  BY DEF PressStop, TypeInv, page, history
<1>2. AskedOnce' /\ \A q \in Requests : Asked(q)' <=> Asked(q)
  BY <1>1, FrameSent
<1>3. QED
  BY <1>1, <1>2, SameKeeps

LEMMA RenderKeeps == ASSUME TypeInv, Lossless, Render PROVE Lossless'
<1>1. UNCHANGED << desktop, up, down, status, shown, active, batched >>
  BY DEF Render, history
<1>2. AskedOnce' /\ \A q \in Requests : Asked(q)' <=> Asked(q)
  BY <1>1 DEF Asked, AskedOnce, Lossless
<1>3. QED
  BY <1>1, <1>2, SameKeeps

LEMMA StartKeeps ==
    ASSUME TypeInv, Lossless, NEW q \in Questions, Start(q)
    PROVE  Lossless'
<1>1. /\ q \in Requests /\ q # None /\ status[q] = "none"
      /\ status' = [status EXCEPT ![q] = "streaming"]
      /\ active' = q /\ up' = Append(up, Frame("request", q))
      /\ UNCHANGED << serving, outcome, written, down, shown, batched >>
  BY PhoneAnswersAssumption DEF Start, Requests, desktop, history
<1>2. Untouched(q) /\ ~Asked(q)
  BY <1>1 DEF Lossless, StatusInv, AskedInv
<1>3. AskedOnce' /\ \A r \in Requests : Asked(r)' <=> Asked(r) \/ r = q
  BY <1>1, <1>2, FrameSent
<1>4. status'[q] = "streaming" /\ \A r \in Requests \ {q} : status'[r] = status[r]
  BY <1>1 DEF TypeInv
<1>5. \A r \in Requests : /\ Untouched(r)' <=> Untouched(r)
                          /\ EndingComes(r)' <=> EndingComes(r) \/ r = q
  BY <1>1, <1>3 DEF Untouched, EndingComes, EndingSent
<1>6. AskedInv'
  BY <1>2, <1>3, <1>4, <1>5 DEF Lossless, AskedInv
<1>7. ServingInv'
  <2>1. serving # None => serving \in Requests \ {q}
    BY <1>2 DEF TypeInv, Untouched
  <2>2. QED
    BY <1>1, <1>4, <2>1 DEF Lossless, ServingInv
<1>8. EndingFollows' /\ EndingIsLast' /\ TextInv'
  BY <1>1 DEF Lossless, EndingFollows, EndingIsLast, EndingSent, TextInv, Chunks, Count
<1>9. StartIsFirst'
  <2>1. \A k \in DOMAIN down : down[k].request \in Requests \ {q}
    BY <1>2, EventTyped DEF Untouched
  <2>2. QED
    BY <1>1, <1>4, <2>1 DEF Lossless, StartIsFirst
<1>10. StatusInv'
  <2> SUFFICES ASSUME NEW r \in Requests
               PROVE  /\ status'[r] = "none" /\ r \in Questions => Untouched(r)
                      /\ status'[r] = "streaming" => EndingComes(r)'
                      /\ status'[r] \notin {"none", "streaming"} =>
                            /\ outcome[r] # "none" /\ status'[r] = StatusOf(outcome[r])
                            /\ \A k \in DOMAIN down : down[k].request # r
    BY <1>1, <1>5 DEF StatusInv, StatusOf
  <2>1. CASE r = q
    BY <1>4, <1>5, <2>1
  <2>2. CASE r # q
    <3>1. status'[r] = status[r]
      BY <1>4, <2>2
    <3>2. QED
      BY <1>5, <3>1 DEF Lossless, StatusInv
  <2>3. QED
    BY <2>1, <2>2
<1>11. ActiveInv'
  <2>1. \A r \in Requests : r = q => EndingComes(r)'
    BY <1>5
  <2>2. QED
    BY <1>1, <2>1 DEF ActiveInv
<1>12. QED
  BY <1>3, <1>6, <1>7, <1>8, <1>9, <1>10, <1>11 DEF Lossless

-----------------------------------------------------------------------------
(* The page handles an event.                                              *)

\* What it knows of the event, and what stays true of those behind it.
LEMMA NextEvent ==
    ASSUME TypeInv, Lossless, HandleEvent, NEW r \in Requests, down[1].request = r
    PROVE  /\ down[1].type \in EventTypes
           /\ down # << >> /\ down' = Tail(down)
           /\ UNCHANGED << desktop, up, activeRef >>
           /\ ~batched' => ~batched /\ active = activeRef
           /\ ~Asked(r) /\ status[r] \in {"none", "streaming"}
           /\ down[1].type = "chunk" => status[r] = "streaming"
           /\ down[1].type \in Outcomes =>
                 /\ outcome[r] = down[1].type /\ outcome[r] # "none"
                 /\ \A k \in DOMAIN down' : down'[k].request # r
           /\ AskedOnce' /\ \A q \in Requests : Asked(q)' <=> Asked(q)
           /\ \A q \in Requests : Untouched(q) => Untouched(q)'
           /\ \A q \in Requests :
                 EndingComes(q) => EndingComes(q)' \/ (down[1].type \in Outcomes /\ q = r)
           /\ EndingFollows' /\ EndingIsLast'
<1>1. /\ down # << >> /\ down' = Tail(down) /\ UNCHANGED << desktop, up, activeRef >>
      /\ ~batched' => ~batched /\ active = activeRef
  BY DEF HandleEvent, TypeInv
<1>2. UNCHANGED << serving, outcome, written >>
  BY <1>1 DEF desktop
<1>3. /\ 1 \in DOMAIN down
      /\ \A k \in DOMAIN down' : /\ k + 1 \in DOMAIN down /\ down'[k] = down[k + 1]
                                 /\ k \in Nat \ {0}
      /\ \A k \in DOMAIN down : k # 1 => /\ k - 1 \in DOMAIN down' /\ down'[k - 1] = down[k]
                                         /\ 1 < k /\ k \in Nat
  BY <1>1, Handled
<1>4. down[1].type \in EventTypes
  BY <1>3, EventTyped
<1>5. ~Untouched(r)
  BY <1>3 DEF Untouched
<1>6. ~Asked(r)
  BY <1>5 DEF Lossless, AskedInv
<1>7. status[r] \in {"none", "streaming"}
  BY <1>3 DEF Lossless, StatusInv
<1>8. down[1].type = "chunk" => status[r] = "streaming"
  <2>1. \A j \in DOMAIN down : ~(j < 1)
    BY <1>3
  <2>2. QED
    BY <1>3, <1>7, <2>1 DEF Lossless, StartIsFirst
<1>9. ASSUME down[1].type \in Outcomes
      PROVE  /\ outcome[r] = down[1].type /\ outcome[r] # "none"
             /\ \A k \in DOMAIN down' : down'[k].request # r
  <2>1. outcome[r] = down[1].type /\ outcome[r] # "none"
    BY <1>3, <1>9 DEF Lossless, EndingIsLast, Outcomes
  <2>2. ASSUME NEW k \in DOMAIN down', down'[k].request = r PROVE FALSE
    <3>1. k + 1 \in DOMAIN down /\ down[k + 1].request = r /\ k + 1 # 1 /\ 1 < k + 1 /\ k \in Nat
      BY <1>3, <2>2
    <3>2. k + 1 <= 1
      BY <1>3, <1>9, <3>1 DEF Lossless, EndingIsLast
    <3>3. QED
      BY <3>1, <3>2
  <2>3. QED
    BY <2>1, <2>2
<1>10. AskedOnce' /\ \A q \in Requests : Asked(q)' <=> Asked(q)
  BY <1>1 DEF Asked, AskedOnce, Lossless
<1>11. \A q \in Requests : Untouched(q) => Untouched(q)'
  BY <1>2, <1>3 DEF Untouched
<1>12. \A q \in Requests : EndingSent(q) => EndingSent(q)' \/ (down[1].type \in Outcomes /\ q = r)
  BY <1>3 DEF EndingSent
<1>13. \A q \in Requests : EndingComes(q) => EndingComes(q)' \/ (down[1].type \in Outcomes /\ q = r)
  BY <1>2, <1>10, <1>12 DEF EndingComes
<1>14. EndingIsLast'
  <2> SUFFICES ASSUME NEW k \in DOMAIN down', NEW l \in DOMAIN down',
                      down'[k].type \in Outcomes, down'[l].request = down'[k].request
               PROVE  l <= k /\ outcome[down'[k].request] = down'[k].type
    BY <1>2 DEF EndingIsLast
  <2>1. l + 1 <= k + 1 /\ outcome[down'[k].request] = down'[k].type
    BY <1>3 DEF Lossless, EndingIsLast
  <2>2. QED
    BY <1>3, <2>1
<1>15. EndingFollows'
  <2> SUFFICES ASSUME NEW k \in DOMAIN down'
               PROVE  \/ serving' = down'[k].request
                      \/ \E l \in DOMAIN down' : /\ down'[l].type \in Outcomes
                                                 /\ down'[l].request = down'[k].request
    BY DEF EndingFollows, EndingSent
  <2>1. CASE serving = down'[k].request
    BY <1>2, <2>1
  <2>2. CASE serving # down'[k].request
    <3>1. PICK l \in DOMAIN down : down[l].type \in Outcomes /\ down[l].request = down[k + 1].request
      BY <1>3, <2>2 DEF Lossless, EndingFollows, EndingSent
    <3>2. k + 1 <= l /\ k \in Nat \ {0}
      BY <1>3, <3>1 DEF Lossless, EndingIsLast
    <3>3. l # 1
      BY <3>2
    <3>4. QED
      BY <1>3, <3>1, <3>3
  <2>3. QED
    BY <2>1, <2>2
<1>16. QED
  BY <1>1, <1>4, <1>6, <1>7, <1>8, <1>9, <1>10, <1>11, <1>13, <1>14, <1>15

\* llm_started opens the answer.
LEMMA StartedKeeps ==
    ASSUME TypeInv, Lossless, HandleEvent, NEW r \in Requests, down[1].request = r,
           down[1].type = "started"
    PROVE  Lossless'
<1>1. status' = [status EXCEPT ![r] = "streaming"] /\ active' = r /\ shown' = shown
  <2>1. Head(down) = down[1]
    BY NextEvent, Handled
  <2>2. OnStarted(r)
    BY <2>1 DEF HandleEvent, Outcomes
  <2>3. QED
    BY <2>2 DEF OnStarted
<1>2. /\ down # << >> /\ down' = Tail(down) /\ UNCHANGED << serving, outcome, written, up >>
      /\ "started" \notin Outcomes
  BY NextEvent DEF desktop, Outcomes
<1>3. status'[r] = "streaming" /\ \A q \in Requests \ {r} : status'[q] = status[q]
  BY <1>1 DEF TypeInv
<1>4. /\ \A q \in Requests : Asked(q)' <=> Asked(q)
      /\ \A q \in Requests : Untouched(q) => Untouched(q)'
      /\ \A q \in Requests : EndingComes(q) => EndingComes(q)'
  BY <1>2, NextEvent
<1>5. /\ 1 \in DOMAIN down
      /\ \A k \in DOMAIN down' : /\ k + 1 \in DOMAIN down /\ down'[k] = down[k + 1]
                                 /\ k \in Nat \ {0}
      /\ \A k \in DOMAIN down : k # 1 => /\ k - 1 \in DOMAIN down' /\ down'[k - 1] = down[k]
                                         /\ 1 < k /\ k \in Nat
      /\ \A q : Chunks(q) = IF down[1] = Frame("chunk", q) THEN Chunks(q)' + 1 ELSE Chunks(q)'
  BY <1>2, Handled
<1>6. EndingComes(r)
  BY <1>2, <1>5 DEF Lossless, EndingFollows, EndingComes
<1>7. AskedInv'
  BY <1>3, <1>4, NextEvent DEF Lossless, AskedInv
<1>8. \A q \in Requests, k \in DOMAIN down : down[k] = Frame("started", q) /\ q # r =>
         k - 1 \in DOMAIN down' /\ down'[k - 1] = Frame("started", q)
  <2>1. \A q \in Requests : q # r => down[1] # Frame("started", q)
    BY FrameParts
  <2>2. QED
    BY <1>5, <2>1
<1>9. ServingInv'
  <2>1. serving # None => serving \in Requests
    BY DEF TypeInv
  <2>2. CASE serving = r
    BY <1>2, <1>3, <2>2 DEF Lossless, ServingInv
  <2>3. CASE serving # r
    BY <1>2, <1>3, <1>8, <2>1, <2>3 DEF Lossless, ServingInv
  <2>4. QED
    BY <2>2, <2>3
<1>10. StartIsFirst'
  <2> SUFFICES ASSUME NEW k \in DOMAIN down', down'[k].type = "chunk",
                      status'[down'[k].request] = "none"
               PROVE  \E j \in DOMAIN down' : j < k /\ down'[j] = Frame("started", down'[k].request)
    BY DEF StartIsFirst
  <2>1. /\ k + 1 \in DOMAIN down /\ down[k + 1] = down'[k] /\ k \in Nat
        /\ down'[k].request \in Requests \ {r}
    BY <1>3, <1>5, EventTyped
  <2>2. PICK j \in DOMAIN down : j < k + 1 /\ down[j] = Frame("started", down'[k].request)
    BY <1>3, <2>1 DEF Lossless, StartIsFirst
  <2>3. j # 1
    BY <2>1, <2>2, FrameParts
  <2>4. j - 1 \in DOMAIN down' /\ down'[j - 1] = down[j] /\ j - 1 < k
    BY <1>5, <2>1, <2>2, <2>3
  <2>5. QED
    BY <2>2, <2>4
<1>11. StatusInv'
  <2> SUFFICES ASSUME NEW q \in Requests
               PROVE  /\ status'[q] = "none" /\ q \in Questions => Untouched(q)'
                      /\ status'[q] = "streaming" => EndingComes(q)'
                      /\ status'[q] \notin {"none", "streaming"} =>
                            /\ outcome[q] # "none" /\ status'[q] = StatusOf(outcome[q])
                            /\ \A k \in DOMAIN down' : down'[k].request # q
    BY <1>2 DEF StatusInv, StatusOf
  <2>1. CASE q = r
    BY <1>3, <1>4, <1>6, <2>1
  <2>2. CASE q # r
    <3>1. status'[q] = status[q]
      BY <1>3, <2>2
    <3>2. status[q] \notin {"none", "streaming"} => \A k \in DOMAIN down' : down'[k].request # q
      BY <1>5 DEF Lossless, StatusInv
    <3>3. QED
      BY <1>4, <3>1, <3>2 DEF Lossless, StatusInv
  <2>3. QED
    BY <2>1, <2>2
<1>12. TextInv'
  <2>1. \A q : down[1] # Frame("chunk", q)
    BY FrameParts
  <2>2. QED
    BY <1>1, <1>2, <1>5, <2>1 DEF Lossless, TextInv
<1>13. ActiveInv'
  <2>1. \A q \in Requests : q = r => EndingComes(q)'
    BY <1>4, <1>6
  <2>2. QED
    BY <1>1, <2>1 DEF ActiveInv
<1>14. QED
  BY <1>7, <1>9, <1>10, <1>11, <1>12, <1>13, NextEvent DEF Lossless

\* llm_chunk extends an answer that the page knows.
LEMMA ChunkKeeps ==
    ASSUME TypeInv, Lossless, HandleEvent, NEW r \in Requests, down[1].request = r,
           down[1].type = "chunk"
    PROVE  Lossless'
<1>1. /\ down # << >> /\ down' = Tail(down) /\ UNCHANGED << serving, outcome, written, up >>
      /\ "chunk" \notin Outcomes /\ status[r] = "streaming"
      /\ ~batched' => ~batched
  BY NextEvent DEF desktop, Outcomes
<1>2. /\ 1 \in DOMAIN down /\ Head(down) = down[1]
      /\ \A k \in DOMAIN down' : /\ k + 1 \in DOMAIN down /\ down'[k] = down[k + 1]
                                 /\ k \in Nat \ {0}
      /\ \A k \in DOMAIN down : k # 1 => /\ k - 1 \in DOMAIN down' /\ down'[k - 1] = down[k]
                                         /\ 1 < k /\ k \in Nat
      /\ \A q : Chunks(q) = IF down[1] = Frame("chunk", q) THEN Chunks(q)' + 1 ELSE Chunks(q)'
  BY <1>1, Handled
<1>3. shown' = [shown EXCEPT ![r] = shown[r] + 1] /\ UNCHANGED << status, active >>
  <2>1. OnChunk(r)
    BY <1>2 DEF HandleEvent, Outcomes
  <2>2. QED
    BY <1>1, <2>1 DEF OnChunk
<1>4. /\ \A q \in Requests : Asked(q)' <=> Asked(q)
      /\ \A q \in Requests : Untouched(q) => Untouched(q)'
      /\ \A q \in Requests : EndingComes(q) => EndingComes(q)'
  BY <1>1, NextEvent
<1>5. AskedInv'
  BY <1>3, <1>4 DEF Lossless, AskedInv
<1>6. \A q, k \in DOMAIN down : down[k] = Frame("started", q) => k # 1
  BY FrameParts
<1>7. \A q : \A k \in DOMAIN down : down[k] = Frame("started", q) =>
         k - 1 \in DOMAIN down' /\ down'[k - 1] = Frame("started", q)
  <2>1. \A q : down[1] # Frame("started", q)
    BY FrameParts
  <2>2. QED
    BY <1>2, <2>1
<1>8. ServingInv'
  BY <1>1, <1>3, <1>7 DEF Lossless, ServingInv
<1>9. StartIsFirst'
  <2> SUFFICES ASSUME NEW k \in DOMAIN down', down'[k].type = "chunk",
                      status[down'[k].request] = "none"
               PROVE  \E j \in DOMAIN down' : j < k /\ down'[j] = Frame("started", down'[k].request)
    BY <1>3 DEF StartIsFirst
  <2>1. k + 1 \in DOMAIN down /\ down[k + 1] = down'[k] /\ k \in Nat
    BY <1>2
  <2>2. PICK j \in DOMAIN down : j < k + 1 /\ down[j] = Frame("started", down'[k].request)
    BY <2>1 DEF Lossless, StartIsFirst
  <2>3. j # 1
    BY <2>2, FrameParts
  <2>4. j - 1 \in DOMAIN down' /\ down'[j - 1] = down[j] /\ j - 1 < k
    BY <1>2, <2>1, <2>2, <2>3
  <2>5. QED
    BY <2>2, <2>4
<1>10. StatusInv'
  <2> SUFFICES ASSUME NEW q \in Requests
               PROVE  /\ status[q] = "none" /\ q \in Questions => Untouched(q)'
                      /\ status[q] = "streaming" => EndingComes(q)'
                      /\ status[q] \notin {"none", "streaming"} =>
                            /\ outcome[q] # "none" /\ status[q] = StatusOf(outcome[q])
                            /\ \A k \in DOMAIN down' : down'[k].request # q
    BY <1>1, <1>3 DEF StatusInv, StatusOf
  <2>1. status[q] \notin {"none", "streaming"} => \A k \in DOMAIN down' : down'[k].request # q
    BY <1>2 DEF Lossless, StatusInv
  <2>2. QED
    BY <1>4, <2>1 DEF Lossless, StatusInv
<1>11. TextInv'
  <2> SUFFICES ASSUME NEW q \in Requests PROVE shown'[q] + Chunks(q)' = written[q]
    BY <1>1 DEF TextInv
  <2>1. down[1] = Frame("chunk", q) <=> q = r
    BY <1>2, EventTyped, FrameParts
  <2>2. /\ shown[q] + Chunks(q) = written[q] /\ shown[q] \in Nat
        /\ shown'[q] = IF q = r THEN shown[q] + 1 ELSE shown[q]
    BY <1>3 DEF Lossless, TextInv, TypeInv
  <2>3. Chunks(q)' \in Nat /\ Chunks(q) \in Nat
    <3>1. down' \in Seq(Events)
      BY <1>1, Handled
    <3>2. Count(down', Frame("chunk", q)) \in Nat
      BY <3>1, CountIsNumber
    <3>3. QED
      BY <3>2, EventTyped DEF Chunks, Count
  <2>4. Chunks(q) = IF q = r THEN Chunks(q)' + 1 ELSE Chunks(q)'
    BY <1>2, <2>1
  <2>5. CASE q = r
    BY <2>2, <2>3, <2>4, <2>5
  <2>6. CASE q # r
    BY <2>2, <2>3, <2>4, <2>6
  <2>7. QED
    BY <2>5, <2>6
<1>12. ActiveInv'
  BY <1>1, <1>3, <1>4 DEF Lossless, ActiveInv, TypeInv
<1>13. QED
  BY <1>5, <1>8, <1>9, <1>10, <1>11, <1>12, NextEvent DEF Lossless

\* llm_done, llm_cancelled and llm_error end it.
LEMMA EndingKeeps ==
    ASSUME TypeInv, Lossless, HandleEvent, NEW r \in Requests, down[1].request = r,
           down[1].type \in Outcomes
    PROVE  Lossless'
<1>1. /\ down # << >> /\ down' = Tail(down) /\ UNCHANGED << serving, outcome, written, up >>
      /\ "chunk" \notin Outcomes /\ "started" \notin Outcomes
      /\ ~batched' => ~batched /\ active = activeRef
      /\ outcome[r] = down[1].type /\ outcome[r] # "none"
      /\ \A k \in DOMAIN down' : down'[k].request # r
  BY NextEvent DEF desktop, Outcomes
<1>2. /\ 1 \in DOMAIN down /\ Head(down) = down[1]
      /\ \A k \in DOMAIN down' : /\ k + 1 \in DOMAIN down /\ down'[k] = down[k + 1]
                                 /\ k \in Nat \ {0}
      /\ \A k \in DOMAIN down : k # 1 => /\ k - 1 \in DOMAIN down' /\ down'[k - 1] = down[k]
                                         /\ 1 < k /\ k \in Nat
      /\ \A q : Chunks(q) = IF down[1] = Frame("chunk", q) THEN Chunks(q)' + 1 ELSE Chunks(q)'
  BY <1>1, Handled
<1>3. /\ status' = IF status[r] = "none" THEN status
                                         ELSE [status EXCEPT ![r] = StatusOf(outcome[r])]
      /\ active' = IF activeRef = r THEN None ELSE active
      /\ shown' = shown
  <2>1. OnEnding(r, down[1].type)
    BY <1>1, <1>2 DEF HandleEvent
  <2>2. QED
    BY <1>1, <2>1 DEF OnEnding
<1>4. /\ StatusOf(outcome[r]) \notin {"none", "streaming"}
      /\ \A q \in Requests \ {r} : status'[q] = status[q]
      /\ status'[r] = IF status[r] = "none" THEN "none" ELSE StatusOf(outcome[r])
  BY <1>1, <1>3 DEF TypeInv, StatusOf, Outcomes
<1>5. /\ \A q \in Requests : Asked(q)' <=> Asked(q)
      /\ \A q \in Requests : Untouched(q) => Untouched(q)'
      /\ \A q \in Requests \ {r} : EndingComes(q) => EndingComes(q)'
      /\ ~Asked(r)
  BY NextEvent
<1>6. serving # r
  BY <1>1, PhoneAnswersAssumption DEF Lossless, ServingInv
<1>7. AskedInv'
  BY <1>4, <1>5 DEF Lossless, AskedInv
<1>8. \A q : \A k \in DOMAIN down : down[k] = Frame("started", q) =>
         k - 1 \in DOMAIN down' /\ down'[k - 1] = Frame("started", q)
  <2>1. \A q : down[1] # Frame("started", q)
    BY <1>1, FrameParts
  <2>2. QED
    BY <1>2, <2>1
<1>9. ServingInv'
  <2>1. serving # None => serving \in Requests \ {r}
    BY <1>6 DEF TypeInv
  <2>2. QED
    BY <1>1, <1>4, <1>8, <2>1 DEF Lossless, ServingInv
<1>10. StartIsFirst'
  <2> SUFFICES ASSUME NEW k \in DOMAIN down', down'[k].type = "chunk",
                      status'[down'[k].request] = "none"
               PROVE  \E j \in DOMAIN down' : j < k /\ down'[j] = Frame("started", down'[k].request)
    BY DEF StartIsFirst
  <2>1. /\ k + 1 \in DOMAIN down /\ down[k + 1] = down'[k] /\ k \in Nat
        /\ down'[k].request \in Requests \ {r}
    BY <1>1, <1>2, EventTyped
  <2>2. PICK j \in DOMAIN down : j < k + 1 /\ down[j] = Frame("started", down'[k].request)
    BY <1>4, <2>1 DEF Lossless, StartIsFirst
  <2>3. j # 1
    BY <1>1, <2>2, FrameParts
  <2>4. j - 1 \in DOMAIN down' /\ down'[j - 1] = down[j] /\ j - 1 < k
    BY <1>2, <2>1, <2>2, <2>3
  <2>5. QED
    BY <2>2, <2>4
<1>11. StatusInv'
  <2> SUFFICES ASSUME NEW q \in Requests
               PROVE  /\ status'[q] = "none" /\ q \in Questions => Untouched(q)'
                      /\ status'[q] = "streaming" => EndingComes(q)'
                      /\ status'[q] \notin {"none", "streaming"} =>
                            /\ outcome[q] # "none" /\ status'[q] = StatusOf(outcome[q])
                            /\ \A k \in DOMAIN down' : down'[k].request # q
    BY <1>1 DEF StatusInv, StatusOf
  <2>1. CASE q = r
    <3>1. status[r] = "none" => r \notin Questions
      BY <1>1, <1>2 DEF Lossless, StatusInv, Untouched
    <3>2. QED
      BY <1>1, <1>4, <2>1, <3>1
  <2>2. CASE q # r
    <3>1. status'[q] = status[q]
      BY <1>4, <2>2
    <3>2. status[q] \notin {"none", "streaming"} => \A k \in DOMAIN down' : down'[k].request # q
      BY <1>2 DEF Lossless, StatusInv
    <3>3. QED
      BY <1>5, <2>2, <3>1, <3>2 DEF Lossless, StatusInv
  <2>3. QED
    BY <2>1, <2>2
<1>12. TextInv'
  <2>1. \A q : down[1] # Frame("chunk", q)
    BY <1>1, FrameParts
  <2>2. QED
    BY <1>1, <1>2, <1>3, <2>1 DEF Lossless, TextInv
<1>13. ActiveInv'
  <2> SUFFICES ASSUME ~batched', active' # None PROVE EndingComes(active)'
    BY DEF ActiveInv
  <2>1. active' = active /\ active \in Requests \ {r}
    BY <1>1, <1>3 DEF TypeInv
  <2>2. EndingComes(active)
    BY <1>1, <2>1 DEF Lossless, ActiveInv
  <2>3. \A q \in Requests \ {r} : q = active => EndingComes(q)'
    BY <1>5, <2>2
  <2>4. QED
    BY <2>1, <2>3
<1>14. QED
  BY <1>7, <1>9, <1>10, <1>11, <1>12, <1>13, NextEvent DEF Lossless

LEMMA HandleEventKeeps == ASSUME TypeInv, Lossless, HandleEvent PROVE Lossless'
<1>1. down # << >> /\ down' = Tail(down)
  BY DEF HandleEvent
<1>2. 1 \in DOMAIN down
  BY <1>1, Handled
<1>3. PICK r \in Requests : r = down[1].request
  BY <1>2, EventTyped
<1>4. down[1].type \in EventTypes
  BY <1>2, EventTyped
<1>5. QED
  BY <1>3, <1>4, StartedKeeps, ChunkKeeps, EndingKeeps DEF EventTypes

-----------------------------------------------------------------------------
(* Types, also when frames and events are lost.                            *)

LEMMA SubmitTypes ==
    ASSUME TypeInv, NEW r \in Requests, Submit(r), up' \in Seq(Frames), UNCHANGED << page, history >>
    PROVE  TypeInv'
<1>1. /\ UNCHANGED << written, status, shown, active, activeRef, batched, losses >>
      /\ serving' \in Requests \cup {None}
      /\ outcome' \in [Requests -> Outcomes \cup {"none"}]
  BY DEF Submit, TypeInv, page, history, Outcomes
<1>2. PICK t \in {"started", "error"} : down' = Append(down, Frame(t, r))
  BY DEF Submit
<1>3. t \in EventTypes /\ t # "chunk"
  BY DEF EventTypes, Outcomes
<1>4. down' \in Seq(Events) /\ \A q : Chunks(q)' = Chunks(q)
  BY <1>2, <1>3, Said
<1>5. TextBound'
  BY <1>1, <1>4 DEF TypeInv, TextBound
<1>6. QED
  BY <1>1, <1>4, <1>5 DEF TypeInv

LEMMA FinishTypes ==
    ASSUME TypeInv, NEW result \in Outcomes, serving # None, Finish(result), up' \in Seq(Frames),
           UNCHANGED << page, history >>
    PROVE  TypeInv'
<1>1. /\ UNCHANGED << written, status, shown, active, activeRef, batched, losses >>
      /\ serving' = None /\ serving \in Requests
      /\ outcome' \in [Requests -> Outcomes \cup {"none"}]
      /\ down' = Append(down, Frame(result, serving))
  BY DEF Finish, TypeInv, page, history
<1>2. result \in EventTypes /\ result # "chunk"
  BY DEF EventTypes, Outcomes
<1>3. down' \in Seq(Events) /\ \A q : Chunks(q)' = Chunks(q)
  BY <1>1, <1>2, Said
<1>4. TextBound'
  BY <1>1, <1>3 DEF TypeInv, TextBound
<1>5. QED
  BY <1>1, <1>3, <1>4 DEF TypeInv

LEMMA SendDeltaTypes == ASSUME TypeInv, SendDelta PROVE TypeInv'
<1>1. /\ serving \in Requests /\ written[serving] < MaxDeltas
      /\ written' = [written EXCEPT ![serving] = written[serving] + 1]
      /\ down' = Append(down, Frame("chunk", serving))
      /\ UNCHANGED << serving, outcome, up, status, shown, active, activeRef, batched, losses >>
  BY DEF SendDelta, TypeInv, page, history
<1>2. /\ down' \in Seq(Events)
      /\ \A q : Chunks(q)' = IF q = serving THEN Chunks(q) + 1 ELSE Chunks(q)
  <2>1. "chunk" \in EventTypes
    BY DEF EventTypes
  <2>2. QED
    BY <1>1, <2>1, Said
<1>3. /\ written \in [Requests -> 0..MaxDeltas] /\ MaxDeltas \in Nat
      /\ written[serving] + 1 \in 0..MaxDeltas
  BY <1>1, PhoneAnswersAssumption DEF TypeInv
<1>4. written' \in [Requests -> 0..MaxDeltas]
  BY <1>1, <1>3
<1>5. TextBound'
  <2> SUFFICES ASSUME NEW q \in Requests PROVE shown[q] + Chunks(q)' <= written'[q]
    BY <1>1 DEF TextBound
  <2>1. shown[q] + Chunks(q) <= written[q] /\ shown[q] \in Nat /\ Chunks(q) \in Nat /\ written[q] \in Nat
    BY <1>3, EventTyped DEF TextBound, TypeInv
  <2>2. CASE q = serving
    <3>1. Chunks(q)' = Chunks(q) + 1 /\ written'[q] = written[q] + 1
      BY <1>1, <1>2, <1>3, <2>2
    <3>2. QED
      BY <2>1, <3>1
  <2>3. CASE q # serving
    BY <1>1, <1>2, <1>3, <2>1, <2>3
  <2>4. QED
    BY <2>2, <2>3
<1>6. QED
  BY <1>1, <1>2, <1>4, <1>5 DEF TypeInv

LEMMA HandleEventTypes == ASSUME TypeInv, HandleEvent PROVE TypeInv'
<1>1. /\ down # << >> /\ down' = Tail(down) /\ UNCHANGED << desktop, up, activeRef, losses >>
      /\ batched' \in BOOLEAN
  BY DEF HandleEvent, TypeInv
<1>2. /\ down' \in Seq(Events) /\ 1 \in DOMAIN down /\ Head(down) = down[1]
      /\ \A q : Chunks(q) = IF down[1] = Frame("chunk", q) THEN Chunks(q)' + 1 ELSE Chunks(q)'
  BY <1>1, Handled
<1>3. PICK r \in Requests : r = down[1].request
  BY <1>2, EventTyped
<1>4. \A q : Chunks(q)' \in Nat /\ Chunks(q) \in Nat
  <2>1. \A q : Count(down', Frame("chunk", q)) \in Nat
    BY <1>2, CountIsNumber
  <2>2. QED
    BY <2>1, EventTyped DEF Chunks, Count
<1>5. /\ status' \in [Requests -> Statuses] /\ active' \in Requests \cup {None}
      /\ shown' \in [Requests -> Nat]
      /\ \A q \in Requests :
            shown'[q] = shown[q] \/ (shown'[q] = shown[q] + 1 /\ down[1] = Frame("chunk", q))
  <2>1. CASE down[1].type = "started"
    <3>1. OnStarted(r)
      BY <1>2, <1>3, <2>1 DEF HandleEvent, Outcomes
    <3>2. QED
      BY <3>1 DEF OnStarted, TypeInv, Statuses
  <2>2. CASE down[1].type = "chunk"
    <3>1. OnChunk(r)
      BY <1>2, <1>3, <2>2 DEF HandleEvent, Outcomes
    <3>2. down[1] = Frame("chunk", r)
      BY <1>2, <1>3, <2>2, EventTyped
    <3>3. /\ status' = status /\ active' = active
          /\ shown' = shown \/ shown' = [shown EXCEPT ![r] = shown[r] + 1]
      BY <3>1 DEF OnChunk
    <3>4. shown \in [Requests -> Nat] /\ shown[r] + 1 \in Nat
      BY DEF TypeInv
    <3>5. shown' \in [Requests -> Nat]
      BY <3>3, <3>4
    <3>6. \A q \in Requests :
             shown'[q] = shown[q] \/ (shown'[q] = shown[q] + 1 /\ down[1] = Frame("chunk", q))
      BY <3>2, <3>3, <3>4
    <3>7. QED
      BY <3>3, <3>5, <3>6 DEF TypeInv
  <2>3. CASE down[1].type \in Outcomes
    <3>1. OnEnding(r, down[1].type)
      BY <1>2, <1>3, <2>3 DEF HandleEvent, Outcomes
    <3>2. StatusOf(down[1].type) \in Statuses
      BY <2>3 DEF StatusOf, Outcomes, Statuses
    <3>3. QED
      BY <3>1, <3>2 DEF OnEnding, TypeInv
  <2>4. QED
    BY <1>2, <2>1, <2>2, <2>3, EventTyped DEF EventTypes
<1>6. TextBound'
  <2> SUFFICES ASSUME NEW q \in Requests PROVE shown'[q] + Chunks(q)' <= written[q]
    BY <1>1 DEF TextBound, desktop
  <2>1. shown[q] + Chunks(q) <= written[q] /\ shown[q] \in Nat /\ written[q] \in Nat
    BY PhoneAnswersAssumption DEF TextBound, TypeInv
  <2>2. CASE down[1] = Frame("chunk", q)
    <3>1. Chunks(q) = Chunks(q)' + 1 /\ (shown'[q] = shown[q] \/ shown'[q] = shown[q] + 1)
      BY <1>2, <1>5, <2>2
    <3>2. Chunks(q)' \in Nat
      BY <1>4
    <3>3. QED
      BY <2>1, <3>1, <3>2
  <2>3. CASE down[1] # Frame("chunk", q)
    BY <1>2, <1>5, <2>1, <2>3
  <2>4. QED
    BY <2>2, <2>3
<1>7. QED
  BY <1>1, <1>2, <1>5, <1>6 DEF TypeInv, desktop

LEMMA LoseTypes == ASSUME TypeInv, Lose PROVE TypeInv'
<1>1. /\ UNCHANGED << serving, outcome, written, status, shown, active, activeRef, batched >>
      /\ losses' \in 0..MaxLosses
  BY PhoneAnswersAssumption DEF Lose, TypeInv, desktop, page
<1>2. /\ up' \in Seq(Frames) /\ down' \in Seq(Events)
      /\ \A e : Count(down', e) <= Count(down, e)
  <2>1. CASE down' = down /\ \E k \in DOMAIN up : up' = Without(up, k)
    <3>1. up' \in Seq(Frames)
      BY <2>1, WithoutOne DEF TypeInv
    <3>2. \A e : Count(down, e) \in Nat
      BY CountIsNumber DEF TypeInv
    <3>3. \A e : Count(down', e) = Count(down, e)
      BY <2>1
    <3>4. QED
      BY <2>1, <3>1, <3>2, <3>3 DEF TypeInv
  <2>2. CASE up' = up /\ \E k \in DOMAIN down : down' = Without(down, k)
    <3>1. PICK k \in DOMAIN down : down' = Without(down, k)
      BY <2>2
    <3>2. down' \in Seq(Events) /\ \A e : Count(down', e) <= Count(down, e)
      BY <3>1, WithoutOne DEF TypeInv
    <3>3. QED
      BY <2>2, <3>2 DEF TypeInv
  <2>3. QED
    BY <2>1, <2>2 DEF Lose
<1>3. TextBound'
  <2> SUFFICES ASSUME NEW q \in Requests PROVE shown[q] + Chunks(q)' <= written[q]
    BY <1>1 DEF TextBound
  <2>1. Chunks(q)' = Count(down', Frame("chunk", q)) /\ Chunks(q) = Count(down, Frame("chunk", q))
    BY DEF Chunks, Count
  <2>2. Chunks(q)' <= Chunks(q) /\ Chunks(q)' \in Nat /\ Chunks(q) \in Nat
    BY <1>2, <2>1, CountIsNumber DEF TypeInv
  <2>3. shown[q] + Chunks(q) <= written[q] /\ shown[q] \in Nat /\ written[q] \in Nat
    BY PhoneAnswersAssumption DEF TypeInv, TextBound
  <2>4. QED
    BY <2>2, <2>3
<1>4. QED
  BY <1>1, <1>2, <1>3 DEF TypeInv

LEMMA InitInv == Init => Inv
<1> SUFFICES ASSUME Init PROVE Inv
  OBVIOUS
<1>1. \A q : Chunks(q) = 0
  BY CountEmpty DEF Init, Chunks
<1>2. TextBound /\ TextInv
  <2>1. \A q \in Requests : shown[q] = 0 /\ written[q] = 0
    BY DEF Init
  <2>2. QED
    BY <1>1, <2>1 DEF TextBound, TextInv
<1>3. TypeInv
  <2>1. 0 \in 0..MaxDeltas /\ 0 \in 0..MaxLosses /\ "none" \in Statuses
    BY PhoneAnswersAssumption DEF Statuses
  <2>2. up \in Seq(Frames) /\ down \in Seq(Events)
    BY DEF Init
  <2>3. QED
    BY <1>2, <2>1, <2>2 DEF Init, TypeInv
<1>4. Lossless
  <2>1. /\ up = << >> /\ down = << >> /\ serving = None /\ active = None
        /\ \A r \in Requests : status[r] = "none" /\ outcome[r] = "none" /\ r # None
    BY PhoneAnswersAssumption DEF Init
  <2>2. AskedOnce /\ \A r : ~Asked(r)
    BY <2>1 DEF AskedOnce, Asked
  <2>3. EndingFollows /\ EndingIsLast /\ StartIsFirst /\ \A r \in Requests : Untouched(r)
    BY <2>1 DEF EndingFollows, EndingIsLast, StartIsFirst, Untouched
  <2>4. QED
    BY <1>2, <2>1, <2>2, <2>3 DEF Lossless, AskedInv, ServingInv, StatusInv, ActiveInv
<1>5. QED
  BY <1>3, <1>4 DEF Inv

LEMMA StepTypes == TypeInv /\ [Next]_vars => TypeInv'
<1> SUFFICES ASSUME TypeInv, [Next]_vars PROVE TypeInv'
  OBVIOUS
<1>1. up \in Seq(Frames) /\ (up # << >> => Tail(up) \in Seq(Frames) /\ Head(up).request \in Requests)
  <2>1. up \in Seq(Frames)
    BY DEF TypeInv
  <2>2. up # << >> => Head(up) \in Frames /\ Tail(up) \in Seq(Frames)
    BY <2>1
  <2>3. QED
    BY <2>1, <2>2, FrameParts
<1>2. CASE ReceiveRequest
  BY <1>1, <1>2, SubmitTypes DEF ReceiveRequest
<1>3. CASE ReceiveCancel
  <2>1. CASE serving = Head(up).request
    <3>1. serving # None /\ "cancelled" \in Outcomes /\ Finish("cancelled")
      BY <1>1, <1>3, <2>1, PhoneAnswersAssumption DEF ReceiveCancel, Outcomes
    <3>2. QED
      BY <1>1, <1>3, <3>1, FinishTypes DEF ReceiveCancel
  <2>2. CASE serving # Head(up).request
    BY <1>1, <1>3, <2>2 DEF ReceiveCancel, TypeInv, TextBound, Chunks, Count, desktop, page,
                            history
  <2>3. QED
    BY <2>1, <2>2
<1>4. CASE SendDelta
  BY <1>4, SendDeltaTypes
<1>5. CASE RunEnds
  <2>1. PICK result \in Outcomes : Finish(result)
    BY <1>5 DEF RunEnds, Outcomes
  <2>2. QED
    BY <1>1, <1>5, <2>1, FinishTypes DEF RunEnds
<1>6. ASSUME NEW h \in Hotkeys, PressHotkey(h) PROVE TypeInv'
  <2>1. h \in Requests
    BY DEF Requests
  <2>2. QED
    BY <1>1, <1>6, <2>1, SubmitTypes DEF PressHotkey
<1>7. ASSUME NEW q \in Questions, Start(q) PROVE TypeInv'
  <2>1. q \in Requests /\ Frame("request", q) \in Frames
    BY FrameParts DEF Requests
  <2>2. up' \in Seq(Frames)
    BY <1>1, <1>7, <2>1 DEF Start
  <2>3. QED
    BY <1>7, <2>1, <2>2 DEF Start, TypeInv, TextBound, Chunks, Count, desktop, history, Statuses
<1>8. CASE PressStop
  <2>1. Frame("cancel", activeRef) \in Frames
    BY <1>8, FrameParts DEF PressStop, TypeInv
  <2>2. up' \in Seq(Frames)
    BY <1>1, <1>8, <2>1 DEF PressStop
  <2>3. QED
    BY <1>8, <2>2 DEF PressStop, TypeInv, TextBound, Chunks, Count, desktop, page, history
<1>9. CASE HandleEvent
  BY <1>9, HandleEventTypes
<1>10. CASE Render
  BY <1>10 DEF Render, TypeInv, TextBound, Chunks, Count, desktop, history
<1>11. CASE Lose
  BY <1>11, LoseTypes
<1>12. CASE UNCHANGED vars
  BY <1>12 DEF vars, TypeInv, TextBound, Chunks, Count, desktop, page
<1>13. QED
  BY <1>2, <1>3, <1>4, <1>5, <1>6, <1>7, <1>8, <1>9, <1>10, <1>11, <1>12 DEF Next, Desktop

LEMMA StepLossless ==
    ASSUME TypeInv, Lossless, [Next]_vars, losses' = losses
    PROVE  Lossless'
<1>1. ~Lose
  BY DEF Lose, TypeInv
<1>2. CASE Desktop
  BY <1>2, ReceiveRequestKeeps, ReceiveCancelKeeps, DeltaKeeps, RunEndsKeeps DEF Desktop
<1>3. CASE UNCHANGED vars
  <2>1. UNCHANGED << desktop, up, down, status, shown, active, batched >>
    BY <1>3 DEF vars, page
  <2>2. AskedOnce' /\ \A q \in Requests : Asked(q)' <=> Asked(q)
    BY <2>1 DEF Asked, AskedOnce, Lossless
  <2>3. QED
    BY <2>1, <2>2, SameKeeps
<1>4. QED
  BY <1>1, <1>2, <1>3, PressHotkeyKeeps, StartKeeps, PressStopKeeps, HandleEventKeeps, RenderKeeps
     DEF Next

\* The inductive invariant holds throughout.
THEOREM Invariance == Spec => []Inv
<1>1. Init => Inv
  BY InitInv
<1>2. Inv /\ [Next]_vars => Inv'
  <2> SUFFICES ASSUME Inv, [Next]_vars PROVE Inv'
    OBVIOUS
  <2>1. TypeInv'
    BY StepTypes DEF Inv
  <2>2. losses' = 0 => losses = 0
    <3>1. losses' = losses \/ losses' = losses + 1
      BY DEF Next, Desktop, ReceiveRequest, ReceiveCancel, SendDelta, RunEnds, PressHotkey, Start,
             PressStop, HandleEvent, Render, Lose, vars, history
    <3>2. losses \in Nat
      BY PhoneAnswersAssumption DEF Inv, TypeInv
    <3>3. QED
      BY <3>1, <3>2
  <2>3. QED
    BY <2>1, <2>2, StepLossless DEF Inv
<1>3. QED
  BY <1>1, <1>2, PTL DEF Spec

-----------------------------------------------------------------------------
(* What follows from it.                                                   *)

\* Every variable keeps its type, for any number of requests, pieces of text and
\* losses; the phone never shows more of an answer than was written.
THEOREM TypeCorrect == Spec => []TypeOK
<1>1. Inv => TypeOK
  <2> SUFFICES ASSUME Inv PROVE TypeOK
    OBVIOUS
  <2>1. ASSUME NEW r \in Requests PROVE shown[r] \in 0..MaxDeltas
    <3>1. /\ shown[r] \in Nat /\ Chunks(r) \in Nat /\ written[r] \in 0..MaxDeltas
          /\ shown[r] + Chunks(r) <= written[r]
      BY EventTyped DEF Inv, TypeInv, TextBound
    <3>2. QED
      BY <3>1, PhoneAnswersAssumption
  <2>2. shown \in [Requests -> 0..MaxDeltas]
    BY <2>1 DEF Inv, TypeInv
  <2>3. QED
    BY <2>2 DEF Inv, TypeInv, TypeOK
<1>2. QED
  BY <1>1, Invariance, PTL

\* Nothing comes any more.
LEMMA QuietIsOver == Quiet => \A r \in Requests : ~EndingComes(r) /\ Chunks(r) = 0
<1> SUFFICES ASSUME Quiet, NEW r \in Requests PROVE ~EndingComes(r) /\ Chunks(r) = 0
  OBVIOUS
<1>1. up = << >> /\ down = << >> /\ serving # r
  BY PhoneAnswersAssumption DEF Quiet
<1>2. ~EndingComes(r)
  BY <1>1 DEF EndingComes, Asked, EndingSent
<1>3. QED
  BY <1>1, <1>2, CountEmpty DEF Chunks

\* A phone that was told everything, one event per render, can ask again: for any
\* number of questions, stops and hotkey requests that cross.
THEOREM FreeWhenQuietAlways == Spec => []FreeWhenQuiet
<1>1. Inv => FreeWhenQuiet
  BY QuietIsOver DEF Inv, TypeInv, Lossless, ActiveInv, FreeWhenQuiet, Quiet
<1>2. QED
  BY <1>1, Invariance, PTL

\* It shows every answer as the desktop ended it and with all its text, however
\* events were batched.
THEOREM AnswersAgreeAlways == Spec => []AnswersAgree
<1>1. Inv => AnswersAgree
  <2> SUFFICES ASSUME Inv, Quiet, losses = 0, NEW r \in Requests, status[r] # "none"
               PROVE  status[r] = StatusOf(outcome[r]) /\ shown[r] = written[r]
    BY DEF AnswersAgree
  <2>1. shown[r] \in Nat /\ shown[r] + 0 = written[r]
    BY QuietIsOver DEF Inv, Lossless, TextInv, TypeInv
  <2>2. QED
    BY <2>1, QuietIsOver DEF Inv, Lossless, StatusInv
<1>2. QED
  BY <1>1, Invariance, PTL

-----------------------------------------------------------------------------
(***************************************************************************)
(* Presence, in one process.                                               *)
(***************************************************************************)

\* A relay without Redis, which is one process.
InMemory ==
    /\ ~Redis
    /\ PcSockets \cap Phones = {}
    /\ NoInstance \notin Instances
    /\ \A i, j \in alive : i = j

\* A handler that awaits nothing but its socket.
AtRest(s) == stage[s] \in {"new", "greeting", "serving", "gone"}

\* Nothing runs beside a handler or a sweep that is under way.
Serial ==
    /\ \A s, t \in Sockets : ~AtRest(s) /\ ~AtRest(t) => s = t
    /\ \A s \in Sockets, i \in Instances : ~AtRest(s) => sweep[i].at = "idle"

\* An open connection is one of a living instance.
HomeInv == \A s \in Sockets : stage[s] \notin {"new", "gone"} => home[s] \in alive

\* A phone's handler goes from its read to its greeting to its receive loop, in
\* which it has a subscriber.
PhoneInv == \A m \in Phones :
    /\ stage[m] \in {"new", "reading", "greeting", "serving", "gone"}
    /\ stage[m] = "serving" <=> sub[m] # "none"

\* The presence is what the handler of the PC last set or read.
StageInv == \A p \in PcSockets :
    /\ stage[p] \in {"announcing", "noting", "beaten"} => presence = Online
    /\ stage[p] \in {"retracting", "retracted"} => presence = Offline
    /\ stage[p] = "beating" => presence = read[p]

\* A sweep that has something to say has found that the presence expired.
SweepInv == \A i \in Instances : sweep[i].at # "idle" =>
    i \in alive /\ presence = Offline /\ sweep[i].found = Offline /\ last[i] = Online

\* A PC that is online was broadcast, is about to be, or has just left.
Vouches(p) ==
    \/ stage[p] \in {"announcing", "noting", "unsetting"}
    \/ stage[p] = "beaten" /\ read[p] = Offline
    \/ stage[p] \in {"greeting", "serving", "beating", "beaten"} /\ last[home[p]] = Online

OnlineInv ==
    presence = Online /\ alive # {} => \E p \in PcSockets : Vouches(p)

\* A phone that has been greeted, or is about to be, with a presence that was
\* not overtaken; and the last word it has received or has on its way.
Told(m) == stage[m] \in {"greeting", "serving"} /\ ~missed[m]

Word(m) == IF stage[m] = "greeting" THEN read[m]
           ELSE IF mail[m] = << >> THEN view[m] ELSE mail[m][Len(mail[m])]

\* A handler of the PC is about to broadcast the presence it has set.
Announcing(p) ==
    stage[p] \in {"announcing", "retracting"} \/ (stage[p] = "beaten" /\ read[p] = Offline)

\* The sweeper is going to find that the presence expired.
ToBeSwept(i) ==
    /\ presence = Offline
    /\ last[i] = Online
    /\ \A p \in PcSockets : stage[p] # "retracted"
    /\ sweep[i].at # "noting"

Owed(m) == (\E p \in PcSockets : Announcing(p)) \/ ToBeSwept(home[m])

ToldInv == \A m \in Phones : Told(m) => Word(m) = presence \/ Owed(m)

ControlInv == Serial /\ HomeInv /\ PhoneInv /\ StageInv /\ SweepInv /\ OnlineInv

PresenceInv == PresenceTypeOK /\ (~Redis => InMemory /\ ControlInv /\ ToldInv)

-----------------------------------------------------------------------------
(* Types.                                                                  *)

LEMMA PublishTyped ==
    ASSUME PresenceTypeOK, NEW word \in Words, Publish(word)
    PROVE  /\ mail' \in [Phones -> Seq(Words)]
           /\ view' \in [Phones -> Words \cup {Unknown}]
           /\ missed' \in [Phones -> BOOLEAN]
<1>1. \A m \in Phones : Append(mail[m], word) \in Seq(Words)
  BY DEF PresenceTypeOK
<1>2. mail' \in [Phones -> Seq(Words)]
  BY <1>1 DEF PresenceTypeOK, Publish
<1>3. missed' \in [Phones -> BOOLEAN]
  BY DEF PresenceTypeOK, Publish, Sockets
<1>4. QED
  BY <1>2, <1>3 DEF PresenceTypeOK, Publish

LEMMA HandlerTyped ==
    ASSUME PresenceTypeOK, NEW s \in Sockets, Accept(s) \/ HandlerTurn(s) \/ Close(s)
    PROVE  PresenceTypeOK'
<1>1. CASE Accept(s)
  <2>1. PICK i \in alive : home' = [home EXCEPT ![s] = i]
    BY <1>1 DEF Accept
  <2>2. home' \in [Sockets -> Instances \cup {NoInstance}]
    BY <2>1 DEF PresenceTypeOK
  <2>3. stage' \in [Sockets -> Stages]
    BY <1>1 DEF PresenceTypeOK, Accept, MoveTo, Stages
  <2>4. UNCHANGED << deployment, presence, alive, sub, silent, read, mail, view, missed, last,
                     sweep >>
    BY <1>1 DEF Accept, phoneVars
  <2>5. QED
    BY <2>2, <2>3, <2>4 DEF PresenceTypeOK
<1>2. CASE SetOnline(s) \/ Note(s) \/ SetOffline(s) \/ NoteRetracted(s) \/ BeatSet(s)
  BY <1>2 DEF PresenceTypeOK, SetOnline, Note, SetOffline, NoteRetracted, BeatSet, MoveTo, Stages,
              phoneVars, Words
<1>3. CASE ReadPresence(s) \/ Subscribe(s)
  BY <1>3 DEF PresenceTypeOK, ReadPresence, Subscribe, MoveTo, Stages, phoneVars
<1>4. CASE Greet(s)
  <2>1. \A m \in Phones : << read[m] >> \in Seq(Words)
    BY DEF PresenceTypeOK, Sockets
  <2>2. mail' \in [Phones -> Seq(Words)]
    BY <1>4, <2>1 DEF PresenceTypeOK, Greet
  <2>3. QED
    BY <1>4, <2>2 DEF PresenceTypeOK, Greet, MoveTo, Stages
<1>5. CASE Announce(s)
  <2>1. Publish(Online) /\ Online \in Words
    BY <1>5 DEF Announce, Words
  <2>2. QED
    BY <1>5, <2>1, PublishTyped DEF PresenceTypeOK, Announce, MoveTo, Stages
<1>6. CASE Retract(s)
  <2>1. Publish(Offline) /\ Offline \in Words
    BY <1>6 DEF Retract, Words
  <2>2. QED
    BY <1>6, <2>1, PublishTyped DEF PresenceTypeOK, Retract, MoveTo, Stages
<1>7. CASE BeatAnswer(s)
  <2>1. CASE read[s] = Online
    BY <1>7, <2>1 DEF PresenceTypeOK, BeatAnswer, MoveTo, Stages, phoneVars, Words, Online,
                      Offline
  <2>2. CASE read[s] # Online
    <3>1. Publish(Online) /\ Online \in Words /\ UNCHANGED last /\ MoveTo(s, "noting")
      BY <1>7, <2>2 DEF BeatAnswer, Words
    <3>2. UNCHANGED << deployment, presence, alive, home, sub, silent, read, sweep >>
      BY <1>7 DEF BeatAnswer
    <3>3. QED
      BY <3>1, <3>2, PublishTyped DEF PresenceTypeOK, MoveTo, Stages
  <2>3. QED
    BY <2>1, <2>2
<1>8. CASE Close(s)
  <2>1. mail' \in [Phones -> Seq(Words)]
    BY <1>8 DEF PresenceTypeOK, Close
  <2>2. last' \in [Instances -> Words \cup {Unknown}]
    BY <1>8 DEF PresenceTypeOK, Close, Unwatch
  <2>3. QED
    BY <1>8, <2>1, <2>2 DEF PresenceTypeOK, Close, MoveTo, Stages
<1>9. QED
  BY <1>1, <1>2, <1>3, <1>4, <1>5, <1>6, <1>7, <1>8 DEF HandlerTurn

LEMMA OthersTyped ==
    ASSUME PresenceTypeOK,
           \/ Expire
           \/ \E p \in PcSockets : BeatRead(p) \/ GoSilent(p)
           \/ \E m \in Phones : Deliver(m)
    PROVE  PresenceTypeOK'
<1>1. CASE Expire
  BY <1>1 DEF PresenceTypeOK, Expire, socketVars, phoneVars, Words
<1>2. ASSUME NEW p \in PcSockets, BeatRead(p) \/ GoSilent(p) PROVE PresenceTypeOK'
  <2>1. CASE BeatRead(p)
    BY <2>1 DEF PresenceTypeOK, BeatRead, MoveTo, Stages, phoneVars, Sockets
  <2>2. CASE GoSilent(p)
    BY <2>2 DEF PresenceTypeOK, GoSilent, phoneVars
  <2>3. QED
    BY <1>2, <2>1, <2>2
<1>3. ASSUME NEW m \in Phones, Deliver(m) PROVE PresenceTypeOK'
  <2>1. mail[m] \in Seq(Words) /\ mail[m] # << >>
    BY <1>3 DEF PresenceTypeOK, Deliver
  <2>2. Head(mail[m]) \in Words /\ Tail(mail[m]) \in Seq(Words)
    BY <2>1
  <2>3. QED
    BY <1>3, <2>2 DEF PresenceTypeOK, Deliver, socketVars
<1>4. QED
  BY <1>1, <1>2, <1>3

LEMMA SweeperTyped ==
    ASSUME PresenceTypeOK, NEW i \in Instances, SweeperTurn(i) \/ Crash(i)
    PROVE  PresenceTypeOK'
<1>1. CASE SweepRead(i)
  BY <1>1 DEF PresenceTypeOK, SweepRead, socketVars, phoneVars
<1>2. CASE SweepCompare(i)
  <2>1. sweep[i].found \in Words
    BY DEF PresenceTypeOK
  <2>2. sweep' \in [Instances -> [at : {"idle", "comparing", "noting"}, found : Words]]
    <3>1. \/ sweep' = [sweep EXCEPT ![i].at = "noting"]
          \/ sweep' = [sweep EXCEPT ![i] = Resting]
      BY <1>2 DEF SweepCompare
    <3>2. Resting \in [at : {"idle", "comparing", "noting"}, found : Words]
      BY DEF Resting, Words
    <3>3. [sweep[i] EXCEPT !.at = "noting"]
             \in [at : {"idle", "comparing", "noting"}, found : Words]
      <4>1. PICK a \in {"idle", "comparing", "noting"}, w \in Words :
               sweep[i] = [at |-> a, found |-> w]
        BY DEF PresenceTypeOK
      <4>2. [sweep[i] EXCEPT !.at = "noting"] = [at |-> "noting", found |-> w]
        BY <4>1
      <4>3. QED
        BY <4>2
    <3>4. QED
      BY <3>1, <3>2, <3>3 DEF PresenceTypeOK
  <2>3. /\ mail' \in [Phones -> Seq(Words)]
        /\ view' \in [Phones -> Words \cup {Unknown}]
        /\ missed' \in [Phones -> BOOLEAN]
    <3>1. CASE SweepDiffers(i, sweep[i].found)
      BY <1>2, <2>1, <3>1, PublishTyped DEF SweepCompare
    <3>2. CASE ~SweepDiffers(i, sweep[i].found)
      BY <1>2, <3>2 DEF PresenceTypeOK, SweepCompare, phoneVars
    <3>3. QED
      BY <3>1, <3>2
  <2>4. QED
    BY <1>2, <2>2, <2>3 DEF PresenceTypeOK, SweepCompare, socketVars
<1>3. CASE SweepNote(i)
  BY <1>3 DEF PresenceTypeOK, SweepNote, Resting, Words, socketVars, phoneVars
<1>4. CASE Crash(i)
  <2>1. mail' \in [Phones -> Seq(Words)]
    BY <1>4 DEF PresenceTypeOK, Crash
  <2>2. /\ stage' \in [Sockets -> Stages]
        /\ sub' \in [Sockets -> {"none", "starting", "live"}]
        /\ last' \in [Instances -> Words \cup {Unknown}]
    BY <1>4 DEF PresenceTypeOK, Crash, Stages
  <2>3. sweep' \in [Instances -> [at : {"idle", "comparing", "noting"}, found : Words]]
    BY <1>4 DEF PresenceTypeOK, Crash, Resting, Words
  <2>4. QED
    BY <1>4, <2>1, <2>2, <2>3 DEF PresenceTypeOK, Crash
<1>5. QED
  BY <1>1, <1>2, <1>3, <1>4 DEF SweeperTurn

LEMMA StepTyped == PresenceTypeOK /\ [PresenceNext]_presenceVars => PresenceTypeOK'
<1>1. ASSUME PresenceTypeOK, UNCHANGED presenceVars PROVE PresenceTypeOK'
  BY <1>1 DEF PresenceTypeOK, presenceVars
<1>2. ASSUME PresenceTypeOK, PresenceNext PROVE PresenceTypeOK'
  BY <1>2, HandlerTyped, OthersTyped, SweeperTyped DEF PresenceNext
<1>3. QED
  BY <1>1, <1>2

LEMMA InitTyped == PresenceInit => PresenceTypeOK
<1> SUFFICES ASSUME PresenceInit PROVE PresenceTypeOK
  OBVIOUS
<1>1. mail \in [Phones -> Seq(Words)]
  BY DEF PresenceInit
<1>2. deployment \in Deployments /\ alive \subseteq Instances
  BY RelayPresenceAssumption DEF PresenceInit
<1>3. QED
  BY <1>1, <1>2 DEF PresenceInit, PresenceTypeOK, Resting, Stages, Words

\* While a handler runs the others rest, and so do the sweepers.
LEMMA Alone ==
    ASSUME InMemory, NEW s \in Sockets, MayRun(s)
    PROVE  /\ \A t \in Sockets : t # s => AtRest(t)
           /\ \A i \in Instances : sweep[i].at = "idle"
  BY DEF InMemory, MayRun, MidHandler, MidSweep, AtRest

\* A step of a handler.
Step(s) == Accept(s) \/ HandlerTurn(s) \/ Close(s) \/ BeatRead(s)

\* What it leaves alone.
LEMMA StepIsLocal ==
    ASSUME PresenceTypeOK, NEW s \in Sockets, Step(s)
    PROVE  /\ MayRun(s)
           /\ UNCHANGED << alive, silent, sweep >>
           /\ \A t \in Sockets : t # s =>
                 UNCHANGED << stage[t], sub[t], read[t], home[t] >>
           /\ UNCHANGED home[s] \/ (stage[s] = "new" /\ home'[s] \in alive)
           /\ stage[s] = "new" => stage'[s] = "new" \/ home'[s] \in alive
           /\ stage[s] = "gone" => stage'[s] = "gone"
<1>1. CASE Accept(s)
  BY <1>1 DEF PresenceTypeOK, Accept, MoveTo, Sockets
<1>2. CASE SetOnline(s) \/ Announce(s) \/ Note(s) \/ ReadPresence(s)
  BY <1>2 DEF PresenceTypeOK, SetOnline, Announce, Note, ReadPresence, MoveTo, Sockets
<1>3. CASE Greet(s) \/ Subscribe(s) \/ Close(s)
  BY <1>3 DEF PresenceTypeOK, Greet, Subscribe, Close, MoveTo, Sockets
<1>4. CASE BeatRead(s) \/ BeatSet(s) \/ BeatAnswer(s)
  BY <1>4 DEF PresenceTypeOK, BeatRead, BeatSet, BeatAnswer, MoveTo, Sockets
<1>5. CASE SetOffline(s) \/ Retract(s) \/ NoteRetracted(s)
  BY <1>5 DEF PresenceTypeOK, SetOffline, Retract, NoteRetracted, MoveTo, Sockets
<1>6. QED
  BY <1>1, <1>2, <1>3, <1>4, <1>5 DEF Step, HandlerTurn

\* A PC that is online keeps somebody who vouches for it.
LEMMA StepVouches ==
    ASSUME InMemory, PresenceTypeOK, ControlInv, NEW s \in Sockets, Step(s)
    PROVE  OnlineInv'
<1> SUFFICES ASSUME presence' = Online, alive' # {}
             PROVE  \E p \in PcSockets : Vouches(p)'
  BY DEF OnlineInv
<1>1. /\ MayRun(s) /\ alive # {}
      /\ \A t \in Sockets : t # s =>
            AtRest(t) /\ UNCHANGED << stage[t], sub[t], read[t], home[t] >>
  BY StepIsLocal, Alone
<1>2. CASE SetOnline(s) \/ Announce(s) \/ Note(s)
  <2>1. s \in PcSockets /\ home[s] \in Instances
    BY <1>2 DEF ControlInv, PhoneInv, HomeInv, PresenceTypeOK, SetOnline, Announce, Note, Sockets
  <2>2. Vouches(s)'
    BY <1>2, <2>1 DEF PresenceTypeOK, SetOnline, Announce, Note, MoveTo, Vouches, Sockets
  <2>3. QED
    BY <2>1, <2>2
<1>3. CASE BeatAnswer(s) \/ (BeatSet(s) /\ read[s] = Offline)
  <2>1. s \in PcSockets /\ home[s] \in Instances
    BY <1>3 DEF ControlInv, PhoneInv, HomeInv, PresenceTypeOK, BeatAnswer, BeatSet, Sockets
  <2>2. Vouches(s)'
    BY <1>3, <2>1 DEF PresenceTypeOK, BeatAnswer, BeatSet, MoveTo, Vouches, Sockets
  <2>3. QED
    BY <2>1, <2>2
<1>4. CASE Close(s) /\ s \in PcSockets
  BY <1>4 DEF PresenceTypeOK, Close, MoveTo, Vouches, Sockets
<1>5. CASE Close(s) /\ s \notin PcSockets
  <2>1. PICK p \in PcSockets : Vouches(p)
    BY <1>1, <1>5 DEF ControlInv, OnlineInv, Close
  <2>2. p # s /\ p \in Sockets
    BY <1>5 DEF Sockets
  <2>3. stage[p] \in {"greeting", "serving"} /\ last[home[p]] = Online
    BY <1>1, <2>1, <2>2 DEF Vouches, AtRest
  <2>4. home[p] \in Instances /\ Watches(home[p], p)
    BY <2>2, <2>3 DEF ControlInv, HomeInv, PresenceTypeOK, Watches, Attached, Closing
  <2>5. last'[home[p]] = Online
    BY <1>5, <2>2, <2>3, <2>4 DEF Close, Unwatch
  <2>6. QED
    BY <1>1, <2>2, <2>3, <2>5 DEF Vouches
<1>6. CASE SetOffline(s) \/ Retract(s) \/ NoteRetracted(s)
  BY <1>6 DEF ControlInv, PhoneInv, StageInv, SetOffline, Retract, NoteRetracted, Sockets,
              Online, Offline
<1>7. CASE \/ Accept(s) \/ ReadPresence(s) \/ Greet(s) \/ Subscribe(s) \/ BeatRead(s)
           \/ BeatSet(s) /\ read[s] # Offline
  <2>1. presence = Online /\ UNCHANGED last
    BY <1>7 DEF Accept, ReadPresence, Greet, Subscribe, BeatRead, BeatSet, ControlInv, StageInv,
                PhoneInv, PresenceTypeOK, Words, Sockets
  <2>2. PICK p \in PcSockets : Vouches(p)
    BY <1>1, <2>1 DEF ControlInv, OnlineInv
  <2>3. CASE p # s
    BY <1>1, <2>1, <2>2, <2>3 DEF Vouches, Sockets
  <2>4. CASE p = s
    BY <1>7, <2>1, <2>2, <2>4 DEF InMemory, PresenceTypeOK, Accept, ReadPresence, Greet,
                                  Subscribe, BeatRead, BeatSet, MoveTo, Vouches, Sockets
  <2>5. QED
    BY <2>3, <2>4
<1>8. QED
  BY <1>2, <1>3, <1>4, <1>5, <1>6, <1>7 DEF Step, HandlerTurn

LEMMA StepControl ==
    ASSUME InMemory, PresenceTypeOK, ControlInv, NEW s \in Sockets, Step(s)
    PROVE  ControlInv'
<1>1. /\ \A t \in Sockets : t # s => AtRest(t)
      /\ \A i \in Instances : sweep[i].at = "idle"
  BY StepIsLocal, Alone
<1>2. Serial' /\ SweepInv'
  BY <1>1, StepIsLocal DEF Serial, SweepInv, AtRest
<1>3. HomeInv'
  BY StepIsLocal DEF ControlInv, HomeInv
<1>4. PhoneInv'
  <2> SUFFICES ASSUME s \in Phones
               PROVE  /\ stage'[s] \in {"new", "reading", "greeting", "serving", "gone"}
                      /\ stage'[s] = "serving" <=> sub'[s] # "none"
    BY StepIsLocal DEF ControlInv, PhoneInv, Sockets
  <2>1. s \notin PcSockets
    BY DEF InMemory
  <2>2. CASE Accept(s) \/ ReadPresence(s) \/ Greet(s) \/ Subscribe(s) \/ Close(s)
    BY <2>1, <2>2 DEF ControlInv, PhoneInv, PresenceTypeOK, Accept, ReadPresence, Greet,
                      Subscribe, Close, MoveTo
  <2>3. QED
    BY <2>1, <2>2 DEF ControlInv, PhoneInv, Step, HandlerTurn, SetOnline, Announce, Note,
                      BeatRead, BeatSet, BeatAnswer, SetOffline, Retract, NoteRetracted
<1>5. StageInv'
  <2> SUFFICES ASSUME s \in PcSockets
               PROVE  /\ stage'[s] \in {"announcing", "noting", "beaten"} => presence' = Online
                      /\ stage'[s] \in {"retracting", "retracted"} => presence' = Offline
                      /\ stage'[s] = "beating" => presence' = read'[s]
    BY <1>1, StepIsLocal DEF StageInv, AtRest, Sockets
  <2>1. CASE Accept(s) \/ SetOnline(s) \/ Announce(s) \/ Note(s)
    BY <2>1 DEF ControlInv, StageInv, PresenceTypeOK, Accept, SetOnline, Announce, Note, MoveTo
  <2>2. CASE ReadPresence(s) \/ Greet(s) \/ Subscribe(s) \/ Close(s)
    BY <2>2 DEF ControlInv, StageInv, PresenceTypeOK, ReadPresence, Greet, Subscribe, Close,
                MoveTo
  <2>3. CASE BeatRead(s) \/ BeatSet(s) \/ BeatAnswer(s)
    BY <2>3 DEF ControlInv, StageInv, PresenceTypeOK, BeatRead, BeatSet, BeatAnswer, MoveTo,
                Sockets
  <2>4. CASE SetOffline(s) \/ Retract(s) \/ NoteRetracted(s)
    BY <2>4 DEF ControlInv, StageInv, PresenceTypeOK, SetOffline, Retract, NoteRetracted, MoveTo
  <2>5. QED
    BY <2>1, <2>2, <2>3, <2>4 DEF Step, HandlerTurn
<1>6. QED
  BY <1>2, <1>3, <1>4, <1>5, StepVouches DEF ControlInv

LEMMA QuietControl ==
    ASSUME InMemory, PresenceTypeOK, ControlInv,
           \/ Expire
           \/ \E p \in PcSockets : GoSilent(p)
           \/ \E m \in Phones : Deliver(m)
           \/ UNCHANGED presenceVars
    PROVE  ControlInv'
<1>1. UNCHANGED << alive, home, stage, sub, read, last, sweep >>
  BY DEF Expire, GoSilent, Deliver, socketVars, presenceVars
<1>2. UNCHANGED presence \/ (Expire /\ presence' = Offline)
  BY DEF Expire, GoSilent, Deliver, presenceVars
<1>3. Serial' /\ HomeInv' /\ PhoneInv'
  BY <1>1 DEF ControlInv, Serial, HomeInv, PhoneInv, AtRest
<1>4. StageInv'
  BY <1>1, <1>2 DEF ControlInv, StageInv, Expire, TtlElapsed, Sockets
<1>5. SweepInv' /\ OnlineInv'
  BY <1>1, <1>2 DEF ControlInv, SweepInv, OnlineInv, Vouches, Online, Offline
<1>6. QED
  BY <1>3, <1>4, <1>5 DEF ControlInv

LEMMA SweeperControl ==
    ASSUME InMemory, PresenceTypeOK, ControlInv, NEW i \in Instances, SweeperTurn(i)
    PROVE  ControlInv'
<1>1. /\ UNCHANGED << presence, alive, home, stage, sub, read >>
      /\ \A s \in Sockets : AtRest(s)
  BY DEF SweeperTurn, SweepRead, SweepCompare, SweepNote, socketVars, InMemory, MaySweep,
         MidHandler, AtRest
<1>2. Serial' /\ HomeInv' /\ PhoneInv' /\ StageInv'
  BY <1>1 DEF ControlInv, Serial, HomeInv, PhoneInv, StageInv, AtRest
<1>3. CASE SweepRead(i)
  <2>1. UNCHANGED last /\ last[i] # Unknown /\ last[i] # presence
    BY <1>3 DEF SweepRead, SweepDiffers, InMemory
  <2>2. i \in alive
    BY <1>3 DEF ControlInv, HomeInv, SweepRead, Watched, Watches, Attached
  <2>3. presence # Online
    <3> SUFFICES ASSUME presence = Online PROVE FALSE
      OBVIOUS
    <3>1. PICK p \in PcSockets : Vouches(p)
      BY <2>2 DEF ControlInv, OnlineInv
    <3>2. stage[p] \in {"greeting", "serving"} /\ last[home[p]] = Online
      BY <1>1, <3>1 DEF Vouches, AtRest, Sockets
    <3>3. home[p] = i
      BY <2>2, <3>2 DEF ControlInv, HomeInv, InMemory, Sockets
    <3>4. QED
      BY <2>1, <3>2, <3>3
  <2>4. presence = Offline /\ last[i] = Online
    BY <2>1, <2>3 DEF PresenceTypeOK, Words
  <2>5. SweepInv'
    <3> SUFFICES ASSUME NEW j \in Instances, sweep'[j].at # "idle"
                 PROVE  /\ j \in alive' /\ presence' = Offline
                        /\ sweep'[j].found = Offline /\ last'[j] = Online
      BY DEF SweepInv
    <3>1. j \in alive
      BY <1>3, <2>2 DEF ControlInv, SweepInv, SweepRead, PresenceTypeOK
    <3>2. j = i
      BY <2>2, <3>1 DEF InMemory
    <3>3. sweep'[i] = [at |-> "comparing", found |-> presence]
      BY <1>3 DEF SweepRead, PresenceTypeOK
    <3>4. QED
      BY <1>1, <2>1, <2>4, <3>1, <3>2, <3>3
  <2>6. OnlineInv'
    BY <1>1, <2>4 DEF OnlineInv, Online, Offline
  <2>7. QED
    BY <1>2, <2>5, <2>6 DEF ControlInv
<1>4. CASE SweepCompare(i) \/ SweepNote(i)
  <2>1. i \in alive /\ presence = Offline /\ sweep[i].found = Offline /\ last[i] = Online
    BY <1>4 DEF ControlInv, SweepInv, SweepCompare, SweepNote
  <2>2. OnlineInv'
    BY <1>1, <2>1 DEF OnlineInv, Online, Offline
  <2>3. SweepInv'
    <3> SUFFICES ASSUME NEW j \in Instances, sweep'[j].at # "idle"
                 PROVE  /\ j \in alive' /\ presence' = Offline
                        /\ sweep'[j].found = Offline /\ last'[j] = Online
      BY DEF SweepInv
    <3>0. j \in alive
      BY <1>4, <2>1 DEF ControlInv, SweepInv, SweepCompare, SweepNote, PresenceTypeOK
    <3>1. j = i
      BY <2>1, <3>0 DEF InMemory
    <3>2. CASE SweepCompare(i)
      <4>1. SweepDiffers(i, sweep[i].found)
        BY <2>1 DEF SweepDiffers, Online, Offline, Unknown
      <4>2. sweep' = [sweep EXCEPT ![i].at = "noting"] /\ UNCHANGED last
        BY <3>2, <4>1 DEF SweepCompare
      <4>3. sweep'[i].found = sweep[i].found
        BY <4>2 DEF PresenceTypeOK
      <4>4. QED
        BY <1>1, <2>1, <3>1, <4>2, <4>3
    <3>3. CASE SweepNote(i)
      <4>1. sweep'[i] = Resting
        BY <3>3 DEF SweepNote, PresenceTypeOK
      <4>2. QED
        BY <3>1, <4>1 DEF Resting
    <3>4. QED
      BY <1>4, <3>2, <3>3
  <2>4. QED
    BY <1>2, <2>2, <2>3 DEF ControlInv
<1>5. QED
  BY <1>3, <1>4 DEF SweeperTurn

LEMMA InitControl == PresenceInit => ControlInv /\ ToldInv
  BY DEF PresenceInit, ControlInv, Serial, HomeInv, PhoneInv, StageInv, SweepInv, OnlineInv,
         ToldInv, AtRest, Told, Resting, Sockets, Online, Offline

\* Whoever is told after a broadcast is told the word that was broadcast: the
\* others have missed it.
LEMMA PublishReaches ==
    ASSUME InMemory, PresenceTypeOK, ControlInv, NEW word \in Words, Publish(word), UNCHANGED sub,
           NEW m \in Phones, stage'[m] = stage[m], Told(m)'
    PROVE  Word(m)' = word
<1>1. stage[m] # "greeting" /\ sub[m] = "live"
  BY DEF ControlInv, PhoneInv, PresenceTypeOK, Publish, Told, Sockets
<1>2. mail'[m] = Append(mail[m], word) /\ mail[m] \in Seq(Words)
  BY <1>1 DEF Publish, PresenceTypeOK
<1>3. mail'[m] # << >> /\ mail'[m][Len(mail'[m])] = word
  BY <1>2
<1>4. QED
  BY <1>1, <1>3 DEF Word

\* What nobody touches is told as before.
LEMMA WordStays ==
    ASSUME NEW m \in Phones, stage'[m] = stage[m], Told(m)',
           UNCHANGED << mail[m], view[m], read[m], missed[m] >>
    PROVE  Told(m) /\ Word(m)' = Word(m)
  BY DEF Told, Word

\* A broadcast settles all debts.
LEMMA BroadcastTells ==
    ASSUME InMemory, PresenceTypeOK, ControlInv, NEW s \in Sockets,
           Announce(s) \/ Retract(s) \/ (BeatAnswer(s) /\ read[s] = Offline)
    PROVE  ToldInv'
<1>1. UNCHANGED << presence, sub >> /\ presence \in Words
  BY DEF Announce, Retract, BeatAnswer, PresenceTypeOK
<1>2. s \in PcSockets /\ Publish(presence)
  <2>1. s \in PcSockets
    BY DEF ControlInv, PhoneInv, Announce, Retract, BeatAnswer, Sockets
  <2>2. CASE Announce(s) \/ Retract(s)
    BY <2>1, <2>2 DEF ControlInv, StageInv, Announce, Retract
  <2>3. CASE BeatAnswer(s) /\ read[s] = Offline
    BY <2>1, <2>3 DEF ControlInv, StageInv, BeatAnswer, Online, Offline
  <2>4. QED
    BY <2>1, <2>2, <2>3
<1>3. ASSUME NEW m \in Phones PROVE stage'[m] = stage[m]
  BY <1>2 DEF InMemory, PresenceTypeOK, Announce, Retract, BeatAnswer, MoveTo, Sockets
<1>4. QED
  BY <1>1, <1>2, <1>3, PublishReaches DEF ToldInv

\* Between a handler's broadcasts no handler of the PC but the one that runs
\* owes the phones a word.
LEMMA NothingAnnounced ==
    ASSUME InMemory, NEW s \in Sockets, MayRun(s), ~Announcing(s)
    PROVE  ~\E p \in PcSockets : Announcing(p)
  BY Alone DEF Announcing, AtRest, Sockets

LEMMA StepTells ==
    ASSUME InMemory, PresenceTypeOK, ControlInv, ToldInv, NEW s \in Sockets, Step(s)
    PROVE  ToldInv'
<1>1. CASE Announce(s) \/ Retract(s) \/ (BeatAnswer(s) /\ read[s] = Offline)
  BY <1>1, BroadcastTells
<1>2. CASE SetOnline(s) \/ SetOffline(s) \/ (BeatSet(s) /\ read[s] = Offline)
  <2>1. s \in PcSockets
    BY <1>2 DEF ControlInv, PhoneInv, SetOnline, SetOffline, BeatSet, Sockets
  <2>2. Announcing(s)'
    BY <1>2 DEF PresenceTypeOK, SetOnline, SetOffline, BeatSet, MoveTo, Announcing
  <2>3. QED
    BY <2>1, <2>2 DEF ToldInv, Owed
<1>3. CASE Note(s) \/ NoteRetracted(s) \/ ((BeatSet(s) \/ BeatAnswer(s)) /\ read[s] = Online)
  <2>1. /\ s \in PcSockets /\ MayRun(s) /\ ~Announcing(s)
        /\ presence = Online \/ stage[s] = "retracted"
    BY <1>3 DEF ControlInv, PhoneInv, StageInv, Note, NoteRetracted, BeatSet, BeatAnswer,
                Announcing, Sockets, Online, Offline
  <2>2. UNCHANGED << presence, mail, view, missed, read >>
    BY <1>3, <2>1 DEF ControlInv, StageInv, Note, NoteRetracted, BeatSet, BeatAnswer, phoneVars,
                      Online, Offline
  <2>3. ASSUME NEW m \in Phones, Told(m)' PROVE Word(m)' = presence'
    <3>1. stage'[m] = stage[m]
      BY <1>3, <2>1 DEF InMemory, PresenceTypeOK, Note, NoteRetracted, BeatSet, BeatAnswer,
                        MoveTo, Sockets
    <3>2. Told(m) /\ Word(m)' = Word(m)
      BY <2>2, <2>3, <3>1, WordStays
    <3>3. ~ToBeSwept(home[m])
      BY <2>1 DEF ToBeSwept, Online, Offline
    <3>4. ~Owed(m)
      BY <2>1, <3>3, NothingAnnounced DEF Owed, Sockets
    <3>5. QED
      BY <2>2, <3>2, <3>4 DEF ToldInv
  <2>4. QED
    BY <2>3 DEF ToldInv
<1>4. CASE Accept(s) \/ BeatRead(s) \/ Subscribe(s)
  <2>1. UNCHANGED << presence, mail, view, missed, last, sweep >>
    BY <1>4 DEF Accept, BeatRead, Subscribe, phoneVars
  <2>2. ASSUME NEW m \in Phones, Told(m)' PROVE Word(m)' = presence' \/ Owed(m)'
    <3>1. stage'[m] = stage[m] /\ read'[m] = read[m] /\ home'[m] = home[m]
      BY <1>4, <2>2 DEF InMemory, PresenceTypeOK, Accept, BeatRead, Subscribe, MoveTo, Told,
                        Sockets
    <3>2. Told(m) /\ Word(m)' = Word(m)
      BY <2>1, <2>2, <3>1, WordStays
    <3>3. Owed(m) => Owed(m)'
      <4>1. \A p \in PcSockets : Announcing(p) => Announcing(p)'
        BY <1>4 DEF PresenceTypeOK, Accept, BeatRead, Subscribe, MoveTo, Announcing, Sockets
      <4>2. ToBeSwept(home[m]) => ToBeSwept(home[m])'
        BY <1>4, <2>1, <3>1 DEF PresenceTypeOK, Accept, BeatRead, Subscribe, MoveTo, ToBeSwept,
                                Sockets
      <4>3. QED
        BY <4>1, <4>2 DEF Owed
    <3>4. QED
      BY <2>1, <3>2, <3>3 DEF ToldInv
  <2>3. QED
    BY <2>2 DEF ToldInv
<1>5. CASE ReadPresence(s) \/ Greet(s)
  <2>1. UNCHANGED << presence, home, view, missed, last, sweep >>
    BY <1>5 DEF ReadPresence, Greet, phoneVars
  <2>2. ASSUME NEW m \in Phones, Told(m)' PROVE Word(m)' = presence' \/ Owed(m)'
    <3>1. Owed(m) => Owed(m)'
      <4>1. \A p \in PcSockets : Announcing(p) => Announcing(p)'
        BY <1>5 DEF PresenceTypeOK, InMemory, ReadPresence, Greet, MoveTo, Announcing, Sockets
      <4>2. ToBeSwept(home[m]) => ToBeSwept(home[m])'
        BY <1>5, <2>1 DEF PresenceTypeOK, ReadPresence, Greet, MoveTo, ToBeSwept, Sockets
      <4>3. QED
        BY <4>1, <4>2 DEF Owed
    <3>2. CASE m # s
      <4>1. stage'[m] = stage[m] /\ read'[m] = read[m] /\ mail'[m] = mail[m]
        BY <1>5, <3>2 DEF PresenceTypeOK, ReadPresence, Greet, MoveTo, phoneVars, Sockets
      <4>2. Told(m) /\ Word(m)' = Word(m)
        BY <2>1, <2>2, <4>1, WordStays
      <4>3. QED
        BY <2>1, <3>1, <4>2 DEF ToldInv
    <3>3. CASE m = s /\ ReadPresence(s)
      BY <3>3 DEF PresenceTypeOK, ReadPresence, MoveTo, Word, Sockets
    <3>4. CASE m = s /\ Greet(s)
      <4>1. Told(m) /\ Word(m) = read[m]
        BY <2>1, <2>2, <3>4 DEF Told, Word, Greet
      <4>2. stage'[m] = "serving" /\ mail'[m] = << read[m] >>
        BY <3>4 DEF PresenceTypeOK, Greet, MoveTo, Sockets
      <4>3. Word(m)' = read[m]
        BY <4>2 DEF Word
      <4>4. QED
        BY <2>1, <3>1, <4>1, <4>3 DEF ToldInv
    <3>5. QED
      BY <1>5, <3>2, <3>3, <3>4
  <2>3. QED
    BY <2>2 DEF ToldInv
<1>6. CASE Close(s)
  <2>1. UNCHANGED << presence, home, view, missed, read, sweep >>
    BY <1>6 DEF Close
  <2>2. ASSUME NEW m \in Phones, Told(m)' PROVE Word(m)' = presence' \/ Owed(m)'
    <3>1. m # s
      BY <1>6, <2>2 DEF InMemory, PresenceTypeOK, Close, MoveTo, Told, Sockets
    <3>2. stage'[m] = stage[m] /\ mail'[m] = mail[m]
      BY <1>6, <3>1 DEF PresenceTypeOK, Close, MoveTo, Sockets
    <3>3. Told(m) /\ Word(m)' = Word(m)
      BY <2>1, <2>2, <3>2, WordStays
    <3>4. ~\E p \in PcSockets : Announcing(p)
      BY <1>6, NothingAnnounced DEF Close, Announcing
    <3>5. Watches(home[m], m) /\ home[m] \in Instances
      BY <3>3 DEF ControlInv, HomeInv, PresenceTypeOK, Told, Watches, Attached, Closing, Sockets
    <3>6. last'[home[m]] = last[home[m]]
      BY <1>6, <3>1, <3>5 DEF Close, Unwatch, Sockets
    <3>7. ToBeSwept(home[m]) => ToBeSwept(home[m])'
      BY <1>6, <2>1, <3>6 DEF PresenceTypeOK, Close, MoveTo, ToBeSwept, Sockets
    <3>8. QED
      BY <2>1, <3>3, <3>4, <3>7 DEF ToldInv, Owed
  <2>3. QED
    BY <2>2 DEF ToldInv
<1>7. read[s] \in {Online, Offline}
  BY DEF PresenceTypeOK, Words
<1>8. QED
  BY <1>1, <1>2, <1>3, <1>4, <1>5, <1>6, <1>7 DEF Step, HandlerTurn

\* Taking the oldest word off a queue leaves the newest one the newest.
LEMMA NewestStays ==
    ASSUME NEW S, NEW q \in Seq(S), q # << >>, NEW t, t = Tail(q)
    PROVE  IF t = << >> THEN Head(q) = q[Len(q)] ELSE t[Len(t)] = q[Len(q)]
<1>1. /\ Len(q) \in Nat /\ Len(q) > 0 /\ Head(q) = q[1]
      /\ t \in Seq(S) /\ Len(t) = Len(q) - 1
      /\ \A k \in 1..Len(t) : t[k] = q[k + 1]
  BY HeadTailProperties
<1>2. Len(t) = 0 <=> t = << >>
  BY <1>1
<1>3. CASE Len(t) = 0
  <2>1. Len(q) = 1
    BY <1>1, <1>3
  <2>2. QED
    BY <1>1, <1>2, <1>3, <2>1
<1>4. CASE Len(t) # 0
  <2>1. Len(t) \in 1..Len(t) /\ Len(t) + 1 = Len(q)
    BY <1>1, <1>4
  <2>2. QED
    BY <1>1, <1>2, <1>4, <2>1
<1>5. QED
  BY <1>3, <1>4

LEMMA DeliverTells ==
    ASSUME PresenceTypeOK, ToldInv, NEW d \in Phones, Deliver(d)
    PROVE  ToldInv'
<1>1. UNCHANGED << presence, home, stage, sub, silent, read, missed, last, sweep >>
  BY DEF Deliver, socketVars
<1>2. ASSUME NEW m \in Phones, Told(m)' PROVE Word(m)' = presence' \/ Owed(m)'
  <2>1. Told(m)
    BY <1>1, <1>2 DEF Told
  <2>2. Word(m)' = Word(m)
    <3>1. CASE m # d
      BY <1>1, <3>1 DEF PresenceTypeOK, Deliver, Word
    <3>2. CASE m = d
      <4>1. mail[d] \in Seq(Words) /\ mail[d] # << >> /\ mail'[d] = Tail(mail[d])
            /\ view'[d] = Head(mail[d])
        BY DEF PresenceTypeOK, Deliver
      <4>2. IF Tail(mail[d]) = << >> THEN Head(mail[d]) = mail[d][Len(mail[d])]
            ELSE Tail(mail[d])[Len(Tail(mail[d]))] = mail[d][Len(mail[d])]
        BY <4>1, NewestStays
      <4>3. QED
        BY <1>1, <3>2, <4>1, <4>2 DEF Word
    <3>3. QED
      BY <3>1, <3>2
  <2>3. Owed(m) => Owed(m)'
    BY <1>1 DEF Owed, Announcing, ToBeSwept
  <2>4. QED
    BY <1>1, <2>1, <2>2, <2>3 DEF ToldInv
<1>3. QED
  BY <1>2 DEF ToldInv

\* When the presence expires, the sweeper's last broadcast said that the PC is
\* there, so that it owes every phone the next one.
LEMMA ExpireTells ==
    ASSUME InMemory, PresenceTypeOK, ControlInv, Expire
    PROVE  ToldInv'
<1>1. /\ presence = Online /\ presence' = Offline
      /\ UNCHANGED << alive, home, stage, read, mail, view, missed, last, sweep >>
      /\ \A s \in Sockets : AtRest(s)
  BY DEF Expire, TtlElapsed, socketVars, phoneVars, AtRest
<1>2. ASSUME NEW m \in Phones, Told(m)' PROVE Owed(m)'
  <2>1. home[m] \in alive
    BY <1>1, <1>2 DEF ControlInv, HomeInv, Told, Sockets
  <2>2. PICK p \in PcSockets : Vouches(p)
    BY <1>1, <2>1 DEF ControlInv, OnlineInv
  <2>3. stage[p] \in {"greeting", "serving"} /\ last[home[p]] = Online
    BY <1>1, <2>2 DEF Vouches, AtRest, Sockets
  <2>4. home[p] = home[m] /\ home[m] \in Instances
    BY <2>1, <2>3 DEF ControlInv, HomeInv, PresenceTypeOK, InMemory, Sockets
  <2>5. sweep[home[m]].at # "noting"
    BY <1>1, <2>4 DEF ControlInv, SweepInv, Online, Offline
  <2>6. \A q \in PcSockets : stage[q] # "retracted"
    BY <1>1 DEF AtRest, Sockets
  <2>7. QED
    BY <1>1, <2>3, <2>4, <2>5, <2>6 DEF Owed, ToBeSwept
<1>3. QED
  BY <1>2 DEF ToldInv

LEMMA SweeperTells ==
    ASSUME InMemory, PresenceTypeOK, ControlInv, ToldInv, NEW i \in Instances, SweeperTurn(i)
    PROVE  ToldInv'
<1>1. /\ UNCHANGED << presence, home, stage, sub, read >>
      /\ \A s \in Sockets : AtRest(s)
  BY DEF SweeperTurn, SweepRead, SweepCompare, SweepNote, socketVars, InMemory, MaySweep,
         MidHandler, AtRest
<1>2. CASE SweepRead(i)
  <2>1. UNCHANGED << mail, view, missed, last >>
    BY <1>2 DEF SweepRead, phoneVars
  <2>2. ASSUME NEW m \in Phones, Told(m)' PROVE Word(m)' = presence' \/ Owed(m)'
    <3>1. Told(m) /\ Word(m)' = Word(m)
      BY <1>1, <2>1, <2>2, WordStays
    <3>2. sweep'[home[m]].at # "noting" \/ sweep'[home[m]] = sweep[home[m]]
      BY <1>2 DEF PresenceTypeOK, SweepRead
    <3>3. Owed(m) => Owed(m)'
      BY <1>1, <2>1, <3>2 DEF Owed, Announcing, ToBeSwept
    <3>4. QED
      BY <1>1, <3>1, <3>3 DEF ToldInv
  <2>3. QED
    BY <2>2 DEF ToldInv
<1>3. CASE SweepCompare(i)
  <2>1. presence = Offline /\ sweep[i].found = presence /\ last[i] = Online
    BY <1>3 DEF ControlInv, SweepInv, SweepCompare
  <2>2. Publish(presence)
    BY <1>3, <2>1 DEF SweepCompare, SweepDiffers, Online, Offline, Unknown
  <2>3. presence \in Words
    BY DEF PresenceTypeOK
  <2>4. QED
    BY <1>1, <2>2, <2>3, PublishReaches DEF ToldInv
<1>4. CASE SweepNote(i)
  <2>1. UNCHANGED << mail, view, missed >>
    BY <1>4 DEF SweepNote, phoneVars
  <2>2. ASSUME NEW m \in Phones, Told(m)' PROVE Word(m)' = presence'
    <3>1. Told(m) /\ Word(m)' = Word(m)
      BY <1>1, <2>1, <2>2, WordStays
    <3>2. home[m] = i /\ sweep[i].at = "noting"
      BY <1>4, <3>1 DEF ControlInv, HomeInv, SweepInv, InMemory, Told, Sockets, SweepNote
    <3>3. ~Owed(m)
      BY <1>1, <3>2 DEF Owed, Announcing, ToBeSwept, AtRest, Sockets
    <3>4. QED
      BY <1>1, <3>1, <3>3 DEF ToldInv
  <2>3. QED
    BY <2>2 DEF ToldInv
<1>5. QED
  BY <1>2, <1>3, <1>4 DEF SweeperTurn

\* The deployment stays, and instances only go.
LEMMA DeploymentStays ==
    ASSUME PresenceTypeOK, [PresenceNext]_presenceVars
    PROVE  UNCHANGED deployment /\ alive' \subseteq alive
<1>1. ASSUME NEW s \in Sockets, Step(s) PROVE UNCHANGED << deployment, alive >>
  BY <1>1 DEF Step, HandlerTurn, Accept, SetOnline, Announce, Note, ReadPresence, Greet,
              Subscribe, Close, BeatRead, BeatSet, BeatAnswer, SetOffline, Retract, NoteRetracted
<1>2. ASSUME NEW i \in Instances, SweeperTurn(i) PROVE UNCHANGED << deployment, alive >>
  BY <1>2 DEF SweeperTurn, SweepRead, SweepCompare, SweepNote
<1>3. ASSUME NEW i \in Instances, Crash(i) PROVE UNCHANGED deployment /\ alive' \subseteq alive
  BY <1>3 DEF Crash
<1>4. CASE \/ Expire \/ UNCHANGED presenceVars
           \/ \E p \in PcSockets : GoSilent(p)
           \/ \E m \in Phones : Deliver(m)
  BY <1>4 DEF Expire, GoSilent, Deliver, presenceVars
<1>5. PcSockets \subseteq Sockets
  BY DEF Sockets
<1>6. QED
  BY <1>1, <1>2, <1>3, <1>4, <1>5 DEF PresenceNext, Step

LEMMA StepInMemory ==
    ASSUME InMemory, PresenceTypeOK, ControlInv, ToldInv, [PresenceNext]_presenceVars
    PROVE  ControlInv' /\ ToldInv'
<1>1. ASSUME NEW s \in Sockets, Step(s)
      PROVE  ControlInv' /\ ToldInv'
  BY <1>1, StepControl, StepTells
<1>2. ASSUME NEW m \in Phones, Deliver(m)
      PROVE  ControlInv' /\ ToldInv'
  BY <1>2, QuietControl, DeliverTells
<1>3. CASE Expire
  BY <1>3, QuietControl, ExpireTells
<1>4. ASSUME NEW i \in Instances, SweeperTurn(i)
      PROVE  ControlInv' /\ ToldInv'
  BY <1>4, SweeperControl, SweeperTells
<1>5. ASSUME NEW i \in Instances, Crash(i) PROVE FALSE
  BY <1>5 DEF Crash, InMemory
<1>6. CASE UNCHANGED presenceVars \/ \E p \in PcSockets : GoSilent(p)
  <2>1. ControlInv'
    BY <1>6, QuietControl
  <2>2. UNCHANGED << presence, home, stage, sub, read, mail, view, last, sweep, missed >>
    BY <1>6 DEF GoSilent, presenceVars, phoneVars
  <2>3. ToldInv'
    BY <2>2 DEF ToldInv, Told, Word, Owed, Announcing, ToBeSwept
  <2>4. QED
    BY <2>1, <2>3
<1>7. PcSockets \subseteq Sockets
  BY DEF Sockets
<1>8. QED
  BY <1>1, <1>2, <1>3, <1>4, <1>5, <1>6, <1>7 DEF PresenceNext, Step

LEMMA StepPresence == PresenceInv /\ [PresenceNext]_presenceVars => PresenceInv'
<1> SUFFICES ASSUME PresenceInv, [PresenceNext]_presenceVars PROVE PresenceInv'
  OBVIOUS
<1>1. PresenceTypeOK /\ PresenceTypeOK' /\ UNCHANGED deployment /\ alive' \subseteq alive
  BY StepTyped, DeploymentStays DEF PresenceInv
<1>2. CASE Redis
  BY <1>1, <1>2 DEF PresenceInv, Redis
<1>3. CASE ~Redis
  <2>1. InMemory /\ ControlInv /\ ToldInv
    BY <1>3 DEF PresenceInv
  <2>2. InMemory'
    BY <1>1, <2>1 DEF InMemory, Redis
  <2>3. QED
    BY <1>1, <2>1, <2>2, StepInMemory DEF PresenceInv
<1>4. QED
  BY <1>2, <1>3

\* Every variable of the relay's presence keeps its type, in one process or
\* several.
THEOREM PresenceTypes == PresenceSpec => []PresenceTypeOK
  BY InitTyped, StepTyped, PTL DEF PresenceSpec

\* In one process: how handlers, sweeper, presence and what the phones were told
\* hang together.
THEOREM PresenceInvariance == PresenceSpec => []PresenceInv
<1>1. PresenceInit => PresenceInv
  <2> SUFFICES ASSUME PresenceInit PROVE PresenceInv
    OBVIOUS
  <2>1. deployment \in Deployments /\ alive = deployment.relays
    BY DEF PresenceInit
  <2>2. ~Redis => \A i, j \in alive : i = j
    BY <2>1, RelayPresenceAssumption DEF Redis
  <2>3. ~Redis => InMemory
    BY <2>2, RelayPresenceAssumption DEF InMemory
  <2>4. QED
    BY <2>3, InitTyped, InitControl DEF PresenceInv
<1>2. QED
  BY <1>1, StepPresence, PTL DEF PresenceSpec

\* In one process, a phone that missed no broadcast shows the presence the relay
\* holds whenever nothing is on its way, however connections of the PC overlap,
\* are cut off, and expire.
THEOREM PhonesAlwaysAgree == PresenceSpec => []PhonesAgree
<1>1. PresenceInv => PhonesAgree
  <2> SUFFICES ASSUME PresenceInv, ~Redis, Settled, NEW m \in Phones, Served(m), ~missed[m]
               PROVE  view[m] = presence
    BY DEF PhonesAgree
  <2>1. Told(m) /\ Word(m) = view[m]
    BY DEF Served, Settled, Told, Word
  <2>2. home[m] \in Instances /\ Watched(home[m])
    BY DEF PresenceInv, ControlInv, HomeInv, PresenceTypeOK, Served, Watched, Watches, Attached,
           Closing, Sockets
  <2>3. ~ToBeSwept(home[m])
    BY <2>2 DEF Settled, ToBeSwept, Online, Offline, Unknown
  <2>4. ~\E p \in PcSockets : Announcing(p)
    BY DEF Settled, Announcing, Sockets
  <2>5. QED
    BY <2>1, <2>3, <2>4 DEF PresenceInv, ToldInv, Owed
<1>2. QED
  BY <1>1, PresenceInvariance, PTL
=============================================================================
