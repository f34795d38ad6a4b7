------------------------- MODULE RelayTransportProofs -------------------------
(***************************************************************************)
(* Proofs about RelayTransport, for every size of the out queue and any    *)
(* number of events: the types, the count drain waits for, that no event   *)
(* arrives twice or overtakes another, that the transport implements       *)
(* LossyChannel, and that events are lost only for the causes the code     *)
(* names.                                                                  *)
(***************************************************************************)
EXTENDS RelayTransport, SequenceTheorems, TLAPS

-----------------------------------------------------------------------------
(* The inductive invariant.                                                *)

\* Events in the order they were handed in; heartbeats may be anywhere.
Ascending(s) == \A i, j \in 1..Len(s) :
    i < j /\ s[i] # Heartbeat /\ s[j] # Heartbeat => s[i] < s[j]

\* Every event of the first was handed in before every event of the second.
Before(s, t) == \A i \in 1..Len(s), j \in 1..Len(t) :
    s[i] # Heartbeat /\ t[j] # Heartbeat => s[i] < t[j]

\* The relay has received the oldest events, the socket carries later ones, then
\* comes the envelope in hand and then the queue.
InOrder ==
    /\ Ascending(received) /\ Ascending(flight) /\ Ascending(queue)
    /\ Before(received, flight) /\ Before(received, hand) /\ Before(received, queue)
    /\ Before(flight, hand) /\ Before(flight, queue)
    /\ Before(hand, queue)

\* The next event is newer than all of them.
NextIsNewest == \A e \in Events : e > offered =>
    /\ Before(received, << e >>) /\ Before(flight, << e >>)
    /\ Before(hand, << e >>) /\ Before(queue, << e >>)

Inv == TypeOK /\ UnfinishedCounts /\ InOrder /\ NextIsNewest

-----------------------------------------------------------------------------
(* Sequences.                                                              *)

LEMMA FramesAreNumbers == Frames \subseteq Nat /\ Heartbeat \in Frames /\ Events \subseteq Frames
BY RelayTransportAssumption DEF Frames, Events, Heartbeat

LEMMA HeartbeatFirstAndLast ==
    ASSUME NEW s \in Seq(Frames)
    PROVE  Before(s, << Heartbeat >>) /\ Before(<< Heartbeat >>, s)
BY DEF Before

LEMMA EmptyIsBefore ==
    ASSUME NEW s
    PROVE  Before(s, << >>) /\ Before(<< >>, s) /\ Ascending(<< >>)
BY DEF Before, Ascending

LEMMA EventsAreFrames ==
    ASSUME NEW s \in Seq(Events)
    PROVE  s \in Seq(Frames)
<1>1. Len(s) \in Nat /\ s \in [1..Len(s) -> Events]
  OBVIOUS
<1>2. s \in [1..Len(s) -> Frames]
  BY <1>1, FramesAreNumbers
<1> QED BY <1>1, <1>2, SeqDef

LEMMA OneFrame == ASSUME NEW x \in Frames PROVE << x >> \in Seq(Frames)
OBVIOUS

\* What is left of a sequence, and what was taken from it.
LEMMA TailKeepsOrder ==
    ASSUME NEW s \in Seq(Frames), s # << >>
    PROVE  /\ Tail(s) \in Seq(Frames) /\ Head(s) \in Frames /\ Len(Tail(s)) = Len(s) - 1
           /\ Ascending(s) => Ascending(Tail(s)) /\ Before(<< Head(s) >>, Tail(s))
           /\ \A t \in Seq(Frames) : Before(t, s) => Before(t, Tail(s)) /\ Before(t, << Head(s) >>)
           /\ \A t \in Seq(Frames) : Before(s, t) => Before(Tail(s), t) /\ Before(<< Head(s) >>, t)
<1>1. /\ Tail(s) \in Seq(Frames) /\ Head(s) \in Frames /\ Len(Tail(s)) = Len(s) - 1
      /\ Head(s) = s[1] /\ 1 \in 1..Len(s)
      /\ \A i \in 1..Len(Tail(s)) : Tail(s)[i] = s[i + 1] /\ i + 1 \in 1..Len(s) /\ 1 < i + 1
      /\ \A i, j \in 1..Len(Tail(s)) : i < j => i + 1 < j + 1
  OBVIOUS
<1>2. Len(<< Head(s) >>) = 1 /\ << Head(s) >>[1] = s[1]
  BY <1>1
<1>3. \A i \in 1..Len(<< Head(s) >>) : << Head(s) >>[i] = s[1]
  BY <1>2
<1>4. Ascending(s) => Ascending(Tail(s)) /\ Before(<< Head(s) >>, Tail(s))
  BY <1>1, <1>3 DEF Ascending, Before
<1>5. ASSUME NEW t \in Seq(Frames), Before(t, s)
      PROVE  Before(t, Tail(s)) /\ Before(t, << Head(s) >>)
  BY <1>1, <1>3, <1>5 DEF Before
<1>6. ASSUME NEW t \in Seq(Frames), Before(s, t)
      PROVE  Before(Tail(s), t) /\ Before(<< Head(s) >>, t)
  BY <1>1, <1>3, <1>6 DEF Before
<1> QED BY <1>1, <1>4, <1>5, <1>6

LEMMA AppendKeepsOrder ==
    ASSUME NEW s \in Seq(Frames), NEW x \in Frames
    PROVE  /\ Append(s, x) \in Seq(Frames) /\ Len(Append(s, x)) = Len(s) + 1
           /\ Ascending(s) /\ Before(s, << x >>) => Ascending(Append(s, x))
           /\ \A t \in Seq(Frames) : Before(t, s) /\ Before(t, << x >>) => Before(t, Append(s, x))
           /\ \A t \in Seq(Frames) : Before(s, t) /\ Before(<< x >>, t) => Before(Append(s, x), t)
<1> DEFINE a == Append(s, x)
<1>1. /\ a \in Seq(Frames) /\ Len(a) = Len(s) + 1 /\ Len(s) \in Nat
      /\ \A i \in 1..Len(a) : \/ i \in 1..Len(s) /\ a[i] = s[i]
                              \/ i = Len(s) + 1 /\ a[i] = x
  OBVIOUS
<1>2. 1 \in 1..Len(<< x >>) /\ << x >>[1] = x
  OBVIOUS
<1> HIDE DEF a
<1>3. Ascending(s) /\ Before(s, << x >>) => Ascending(a)
  <2> SUFFICES ASSUME Ascending(s), Before(s, << x >>),
                      NEW i \in 1..Len(a), NEW j \in 1..Len(a),
                      i < j, a[i] # Heartbeat, a[j] # Heartbeat
               PROVE  a[i] < a[j]
    BY DEF Ascending
  <2>1. i \in 1..Len(s) /\ a[i] = s[i]
    BY <1>1
  <2>2. CASE j \in 1..Len(s) /\ a[j] = s[j]
    BY <2>1, <2>2 DEF Ascending
  <2>3. CASE a[j] = x
    BY <1>2, <2>1, <2>3 DEF Before
  <2> QED BY <1>1, <2>2, <2>3
<1>4. ASSUME NEW t \in Seq(Frames), Before(t, s), Before(t, << x >>)
      PROVE  Before(t, a)
  BY <1>1, <1>2, <1>4, Zenon DEF Before
<1>5. ASSUME NEW t \in Seq(Frames), Before(s, t), Before(<< x >>, t)
      PROVE  Before(a, t)
  BY <1>1, <1>2, <1>5, Zenon DEF Before
<1> QED BY <1>1, <1>3, <1>4, <1>5 DEF a

-----------------------------------------------------------------------------
(* Every step keeps the invariant.                                         *)

LEMMA InitInv == Init => Inv
<1> SUFFICES ASSUME Init PROVE Inv
  OBVIOUS
<1>1. /\ queue = << >> /\ hand = << >> /\ flight = << >> /\ received = << >>
      /\ unfinished = 0 /\ offered = 0 /\ attempt = 0 /\ failures = 0
  BY DEF Init
<1>2. UnfinishedCounts /\ InOrder
  BY <1>1, EmptyIsBefore DEF UnfinishedCounts, InOrder
<1>3. NextIsNewest
  BY <1>1, EmptyIsBefore DEF NextIsNewest
<1>4. TypeOK
  <2>1. 0 \in Attempts /\ 0 \in 0..(Capacity + 1) /\ 0 \in 0..MaxEvents
    BY RelayTransportAssumption DEF Attempts
  <2>2. Len(queue) <= Capacity /\ Len(hand) <= 1
    BY <1>1, RelayTransportAssumption
  <2>3. queue \in Seq(Frames) /\ hand \in Seq(Frames) /\ flight \in Seq(Frames) /\ received \in Seq(Events)
    BY <1>1
  <2>4. /\ link \in Places /\ wire \in {"none", "up", "down"} /\ connected \in BOOLEAN
        /\ stop \in BOOLEAN /\ writer \in {"none", "idle", "ended"}
        /\ reader \in {"none", "waiting", "handling"}
        /\ shutdown \in {"no", "draining", "stopping", "stopped", "cancelled"}
    BY DEF Init, Places
  <2> QED BY <1>1, <2>1, <2>2, <2>3, <2>4 DEF TypeOK
<1> QED BY <1>2, <1>3, <1>4 DEF Inv

\* The types of what the queue, the socket and the relay hold.
DataType ==
    /\ queue \in Seq(Frames) /\ Len(queue) <= Capacity
    /\ hand \in Seq(Frames) /\ Len(hand) <= 1
    /\ unfinished = Len(queue) + Len(hand)
    /\ offered \in 0..MaxEvents
    /\ flight \in Seq(Frames)
    /\ received \in Seq(Events)

\* The types of the connection and of the tasks.
ControlType ==
    /\ link \in Places
    /\ wire \in {"none", "up", "down"}
    /\ connected \in BOOLEAN
    /\ stop \in BOOLEAN
    /\ attempt \in Attempts
    /\ failures \in Attempts
    /\ writer \in {"none", "idle", "ended"}
    /\ reader \in {"none", "waiting", "handling"}
    /\ shutdown \in {"no", "draining", "stopping", "stopped", "cancelled"}

DataInv == DataType /\ InOrder /\ NextIsNewest

LEMMA InvSplit == Inv <=> ControlType /\ DataInv
<1>1. ASSUME DataType PROVE unfinished \in 0..(Capacity + 1)
  <2>1. Len(queue) \in Nat /\ Len(hand) \in Nat /\ Capacity \in Nat
    BY <1>1, RelayTransportAssumption DEF DataType
  <2> QED BY <1>1, <2>1 DEF DataType
<1> QED BY <1>1 DEF Inv, TypeOK, UnfinishedCounts, DataInv, DataType, ControlType

LEMMA StepControl == ControlType /\ [Next]_vars => ControlType'
<1> SUFFICES ASSUME ControlType, [Next]_vars PROVE ControlType'
  OBVIOUS
<1> USE RelayTransportAssumption DEF ControlType, Places
<1>1. CASE SendEvent \/ Beat \/ Take
  BY <1>1 DEF SendEvent, Beat, Take, connection
<1>2. CASE Sent
  BY <1>2 DEF Sent, connection
<1>3. CASE Connect \/ Opened \/ AuthFails
  BY <1>3 DEF Connect, Opened, AuthFails, outgoing
<1>14. 0 \in Attempts
  BY DEF Attempts
<1>15. CASE AuthOk
  BY <1>14, <1>15, Zenon DEF AuthOk
<1>19. ASSUME NEW n \in Attempts PROVE Counted(n) \in Attempts
  BY DEF Attempts, Counted, Overflows
<1>20. ASSUME Crash PROVE link' \in {"done", "crashed"} /\ failures' \in Attempts
  <2>1. PICK healthy \in BOOLEAN :
          LET before == IF healthy THEN 0 ELSE failures
          IN  IF shutdown # "no"
                THEN link' = "done" /\ failures' = before
                ELSE /\ failures' = Counted(before)
                     /\ link' = IF Overflows(before) THEN "done" ELSE "crashed"
    BY <1>20 DEF Crash
  <2> QED BY <1>14, <1>19, <2>1
<1>16. ASSUME After
       PROVE  /\ link' \in {"done", "waiting", "crashed"}
              /\ attempt' \in Attempts /\ failures' \in Attempts
  BY <1>16, <1>19, <1>20 DEF After
<1>4. CASE Unreachable
  <2>1. /\ link' \in {"done", "waiting", "crashed"}
        /\ attempt' \in Attempts /\ failures' \in Attempts
    BY <1>4, <1>16 DEF Unreachable
  <2>2. connected' = FALSE /\ UNCHANGED << wire, stop, writer, reader, shutdown >>
    BY <1>4 DEF Unreachable, outgoing
  <2> QED BY <2>1, <2>2
<1>5. ASSUME EndSession PROVE /\ link' \in Places /\ writer' \in {"none", "idle", "ended"}
                             /\ reader' \in {"none", "waiting", "handling"}
                             /\ UNCHANGED << wire, connected, stop, attempt, failures >>
  BY <1>5 DEF EndSession
<1>6. CASE SessionOver
  BY <1>5, <1>6 DEF SessionOver
<1>7. CASE TornDown \/ Waited \/ Restarted
  BY <1>7 DEF TornDown, Waited, Restarted, outgoing
<1>8. CASE Closed
  <2>1. /\ link' \in {"done", "waiting", "crashed"}
        /\ attempt' \in Attempts /\ failures' \in Attempts
    BY <1>8, <1>16 DEF Closed
  <2>2. wire' = "none" /\ connected' = FALSE /\ UNCHANGED << stop, writer, reader, shutdown >>
    BY <1>8 DEF Closed, outgoing
  <2> QED BY <2>1, <2>2
<1>9. CASE Command \/ Handled \/ ReaderEnds
  BY <1>9 DEF Command, Handled, ReaderEnds, connection, outgoing
<1>10. CASE Break \/ Receive \/ Vanish
  BY <1>10 DEF Break, Receive, Vanish, connection, outgoing
<1>11. CASE Drain
  BY <1>11 DEF Drain, connection, outgoing
<1>17. CASE Stop
  <2>1. UNCHANGED << link, attempt, failures, outgoing, reader >>
    BY <1>17 DEF Stop
  <2>2. stop' = TRUE
    BY <1>17 DEF Stop
  <2>3. CASE wire = "none"
    BY <1>17, <2>1, <2>2, <2>3 DEF Stop, outgoing
  <2>4. CASE wire # "none"
    BY <1>17, <2>1, <2>2, <2>4 DEF Stop, outgoing
  <2> QED BY <2>3, <2>4
<1>18. CASE Stopped
  BY <1>18 DEF Stopped, outgoing
<1>12. CASE CancelRun
  BY <1>5, <1>12 DEF CancelRun, connection, outgoing
<1>13. CASE UNCHANGED vars
  BY <1>13 DEF vars, connection, outgoing
<1> QED BY <1>1, <1>2, <1>3, <1>4, <1>15, <1>6, <1>7, <1>8, <1>9, <1>10, <1>11, <1>17, <1>18,
        <1>12, <1>13 DEF Next, WriterTurn, RunTurn, ReaderTurn

\* A new frame at the end of the queue, whose first one may have made room.
LEMMA EnqueueData ==
    ASSUME DataInv, NEW f \in Frames, Enqueue(f),
           hand' = hand, flight' = flight, received' = received,
           Before(received, << f >>), Before(flight, << f >>),
           Before(hand, << f >>), Before(queue, << f >>)
    PROVE  /\ queue' \in Seq(Frames) /\ Len(queue') <= Capacity
           /\ unfinished' = Len(queue') + Len(hand')
           /\ InOrder'
           /\ \A e \in Events : Before(queue, << e >>) /\ Before(<< f >>, << e >>)
                              => Before(queue', << e >>)
<1> USE DEF DataInv, DataType
<1>1. /\ queue \in Seq(Frames) /\ hand \in Seq(Frames) /\ flight \in Seq(Frames)
      /\ received \in Seq(Frames)
      /\ Len(queue) \in Nat /\ Len(hand) \in Nat /\ Capacity \in Nat \ {0}
  BY EventsAreFrames, RelayTransportAssumption
<1>2. PICK q \in Seq(Frames) :
        /\ queue' = Append(q, f)
        /\ Len(q) < Capacity
        /\ unfinished' = Len(q) + 1 + Len(hand)
        /\ Ascending(q) /\ Before(q, << f >>)
        /\ Before(received, q) /\ Before(flight, q) /\ Before(hand, q)
        /\ \A e \in Events : Before(queue, << e >>) => Before(q, << e >>)
  <2>1. CASE Len(queue) < Capacity
    BY <1>1, <2>1 DEF Enqueue, InOrder
  <2>2. CASE ~(Len(queue) < Capacity)
    <3>1. queue # << >>
      BY <1>1, <2>2
    <3>2. /\ Tail(queue) \in Seq(Frames) /\ Len(Tail(queue)) = Len(queue) - 1
          /\ Ascending(Tail(queue)) /\ Before(Tail(queue), << f >>)
          /\ Before(received, Tail(queue)) /\ Before(flight, Tail(queue))
          /\ Before(hand, Tail(queue))
      BY <1>1, <3>1, TailKeepsOrder, OneFrame DEF InOrder
    <3>3. \A e \in Events : Before(queue, << e >>) => Before(Tail(queue), << e >>)
      <4>1. \A e \in Events : << e >> \in Seq(Frames)
        BY FramesAreNumbers
      <4> QED BY <1>1, <3>1, <4>1, TailKeepsOrder
    <3>4. /\ queue' = Append(Tail(queue), f) /\ unfinished' = unfinished
      BY <2>2 DEF Enqueue
    <3>5. Len(Tail(queue)) < Capacity /\ unfinished' = Len(Tail(queue)) + 1 + Len(hand)
      BY <1>1, <2>2, <3>2, <3>4
    <3> QED BY <3>2, <3>3, <3>4, <3>5
  <2> QED BY <2>1, <2>2
<1>3. /\ queue' \in Seq(Frames) /\ Len(queue') = Len(q) + 1
      /\ Ascending(queue')
      /\ Before(received, queue') /\ Before(flight, queue') /\ Before(hand, queue')
  BY <1>1, <1>2, AppendKeepsOrder
<1>4. Len(queue') <= Capacity /\ unfinished' = Len(queue') + Len(hand')
  BY <1>1, <1>2, <1>3
<1>5. InOrder'
  BY <1>3 DEF InOrder, Ascending, Before
<1>6. ASSUME NEW e \in Events, Before(queue, << e >>), Before(<< f >>, << e >>)
      PROVE  Before(queue', << e >>)
  <2>1. << e >> \in Seq(Frames)
    BY FramesAreNumbers
  <2> QED BY <1>2, <1>6, <2>1, AppendKeepsOrder
<1> QED BY <1>3, <1>4, <1>5, <1>6

LEMMA BeatData == ASSUME DataInv, Beat PROVE DataInv'
<1>1. /\ Enqueue(Heartbeat) /\ hand' = hand /\ flight' = flight /\ received' = received
      /\ offered' = offered
  BY DEF Beat, outside
<1>2. /\ received \in Seq(Frames) /\ flight \in Seq(Frames) /\ hand \in Seq(Frames)
      /\ queue \in Seq(Frames)
  BY EventsAreFrames DEF DataInv, DataType
<1>3. /\ Before(received, << Heartbeat >>) /\ Before(flight, << Heartbeat >>)
      /\ Before(hand, << Heartbeat >>) /\ Before(queue, << Heartbeat >>)
  BY <1>2, HeartbeatFirstAndLast
<1>4. /\ queue' \in Seq(Frames) /\ Len(queue') <= Capacity
      /\ unfinished' = Len(queue') + Len(hand')
      /\ InOrder'
      /\ \A e \in Events : Before(queue, << e >>) /\ Before(<< Heartbeat >>, << e >>)
                         => Before(queue', << e >>)
  BY <1>1, <1>3, EnqueueData, FramesAreNumbers
<1>5. \A e \in Events : Before(<< Heartbeat >>, << e >>)
  <2>1. \A e \in Events : << e >> \in Seq(Frames)
    BY FramesAreNumbers
  <2> QED BY <2>1, HeartbeatFirstAndLast
<1>6. NextIsNewest'
  BY <1>1, <1>4, <1>5 DEF NextIsNewest, DataInv, Before
<1> QED BY <1>1, <1>4, <1>6 DEF DataInv, DataType

LEMMA SendEventData == ASSUME DataInv, SendEvent PROVE DataInv'
<1>1. /\ hand' = hand /\ flight' = flight /\ received' = received
      /\ offered' = offered + 1 /\ offered' \in Events /\ offered' > offered
      /\ offered' \in Frames /\ offered' \in 0..MaxEvents
  BY RelayTransportAssumption DEF SendEvent, DataInv, DataType, Events, Frames
<1>2. \A e \in Events : e > offered' => e > offered /\ Before(<< offered' >>, << e >>)
  BY <1>1 DEF Before, Events, DataInv, DataType
<1>3. CASE connected /\ ~stop
  <2>1. Enqueue(offered')
    BY <1>3 DEF SendEvent
  <2>2. /\ Before(received, << offered' >>) /\ Before(flight, << offered' >>)
        /\ Before(hand, << offered' >>) /\ Before(queue, << offered' >>)
    BY <1>1 DEF DataInv, NextIsNewest
  <2>3. /\ queue' \in Seq(Frames) /\ Len(queue') <= Capacity
        /\ unfinished' = Len(queue') + Len(hand')
        /\ InOrder'
        /\ \A e \in Events : Before(queue, << e >>) /\ Before(<< offered' >>, << e >>)
                           => Before(queue', << e >>)
    BY <1>1, <2>1, <2>2, EnqueueData
  <2>4. NextIsNewest'
    BY <1>1, <1>2, <2>3 DEF NextIsNewest, DataInv, Before
  <2> QED BY <1>1, <2>3, <2>4 DEF DataInv, DataType
<1>4. CASE ~(connected /\ ~stop)
  <2>1. UNCHANGED << queue, unfinished >>
    BY <1>4 DEF SendEvent
  <2>2. NextIsNewest'
    BY <1>1, <1>2, <2>1 DEF NextIsNewest, DataInv, Before
  <2>3. InOrder'
    BY <1>1, <2>1 DEF InOrder, DataInv, Ascending, Before
  <2> QED BY <1>1, <2>1, <2>2, <2>3 DEF DataInv, DataType
<1> QED BY <1>3, <1>4

LEMMA OneEvent == ASSUME NEW e \in Events PROVE << e >> \in Seq(Frames)
BY OneFrame, FramesAreNumbers

LEMMA DataTypes ==
    ASSUME DataInv
    PROVE  /\ queue \in Seq(Frames) /\ hand \in Seq(Frames) /\ flight \in Seq(Frames)
           /\ received \in Seq(Frames)
           /\ Len(queue) \in Nat /\ Len(hand) \in Nat
BY EventsAreFrames DEF DataInv, DataType

\* The envelope in hand, when there is one.
LEMMA InHand ==
    ASSUME DataInv, hand # << >>
    PROVE  /\ hand[1] \in Frames /\ hand = << hand[1] >> /\ Len(hand) = 1
           /\ flight \o hand = Append(flight, hand[1])
<1>1. hand \in Seq(Frames) /\ flight \in Seq(Frames) /\ Len(hand) <= 1
  BY DEF DataInv, DataType
<1>2. Len(hand) = 1 /\ 1 \in 1..Len(hand)
  <2>1. Len(hand) \in Nat /\ Len(hand) # 0
    BY <1>1, EmptySeq
  <2>2. \A n \in Nat : n # 0 /\ n <= 1 => n = 1 /\ 1 \in 1..n
    OBVIOUS
  <2> QED BY <1>1, <2>1, <2>2, Zenon
<1>3. hand[1] \in Frames
  BY <1>1, <1>2
<1>4. hand = << hand[1] >>
  BY <1>1, <1>2
<1>5. \A x \in Frames : flight \o << x >> = Append(flight, x)
  BY <1>1
<1> QED BY <1>2, <1>3, <1>4, <1>5, Zenon

LEMMA TakeData == ASSUME DataInv, Take PROVE DataInv'
<1>1. /\ queue # << >> /\ hand = << >>
      /\ hand' = << Head(queue) >> /\ queue' = Tail(queue)
      /\ UNCHANGED << unfinished, offered, flight, received >>
  BY DEF Take, outside
<1>2. /\ Tail(queue) \in Seq(Frames) /\ Head(queue) \in Frames
      /\ Len(Tail(queue)) = Len(queue) - 1
      /\ << Head(queue) >> \in Seq(Frames)
      /\ Ascending(queue) => Ascending(Tail(queue)) /\ Before(<< Head(queue) >>, Tail(queue))
      /\ \A t \in Seq(Frames) :
            Before(t, queue) => Before(t, Tail(queue)) /\ Before(t, << Head(queue) >>)
      /\ \A t \in Seq(Frames) :
            Before(queue, t) => Before(Tail(queue), t) /\ Before(<< Head(queue) >>, t)
  BY <1>1, DataTypes, TailKeepsOrder, OneFrame
<1>3. DataType'
  <2>1. Len(hand) = 0 /\ Len(hand') = 1
    BY <1>1
  <2> QED BY <1>1, <1>2, <2>1, DataTypes, RelayTransportAssumption DEF DataInv, DataType
<1>4. /\ Ascending(queue') /\ Before(hand', queue')
      /\ Before(received, queue') /\ Before(received, hand')
      /\ Before(flight, queue') /\ Before(flight, hand')
  BY <1>1, <1>2, DataTypes DEF DataInv, InOrder
<1>5. InOrder'
  BY <1>1, <1>4 DEF DataInv, InOrder, Ascending, Before
<1>6. \A e \in Events : Before(queue, << e >>) => Before(queue', << e >>) /\ Before(hand', << e >>)
  BY <1>1, <1>2, OneEvent
<1>7. NextIsNewest'
  BY <1>1, <1>6 DEF DataInv, NextIsNewest, Before
<1> QED BY <1>3, <1>5, <1>7 DEF DataInv

\* The envelope in hand is done with, written to the socket or not.
LEMMA HandDoneData ==
    ASSUME DataInv, hand # << >>, Finished, flight' \in {flight, flight \o hand},
           UNCHANGED << queue, offered, received >>
    PROVE  DataInv'
<1>1. /\ hand[1] \in Frames /\ hand = << hand[1] >> /\ Len(hand) = 1
      /\ flight \o hand = Append(flight, hand[1])
  BY InHand
<1>2. hand' = << >> /\ unfinished' = unfinished - 1
  BY DEF Finished
<1>3. /\ flight' \in Seq(Frames) /\ Ascending(flight')
      /\ Before(received, flight') /\ Before(flight', queue)
      /\ \A e \in Events : Before(flight, << e >>) /\ Before(hand, << e >>) => Before(flight', << e >>)
  <2>1. CASE flight' = flight
    BY <2>1, DataTypes DEF DataInv, InOrder
  <2>2. CASE flight' = Append(flight, hand[1])
    <3>1. /\ Append(flight, hand[1]) \in Seq(Frames)
          /\ Ascending(Append(flight, hand[1]))
          /\ Before(received, Append(flight, hand[1])) /\ Before(Append(flight, hand[1]), queue)
      BY <1>1, DataTypes, AppendKeepsOrder DEF DataInv, InOrder
    <3>2. \A e \in Events : Before(flight, << e >>) /\ Before(hand, << e >>)
                         => Before(Append(flight, hand[1]), << e >>)
      BY <1>1, DataTypes, AppendKeepsOrder, OneEvent
    <3> QED BY <2>2, <3>1, <3>2
  <2> QED BY <1>1, <2>1, <2>2
<1>4. DataType'
  <2>1. hand' \in Seq(Frames) /\ Len(hand') = 0
    BY <1>2
  <2> QED BY <1>1, <1>2, <1>3, <2>1, DataTypes DEF DataInv, DataType
<1>5. /\ Before(received, hand') /\ Before(flight', hand') /\ Before(hand', queue)
      /\ \A e \in Events : Before(hand', << e >>)
  BY <1>2, EmptyIsBefore
<1>6. InOrder'
  BY <1>3, <1>5 DEF DataInv, InOrder, Ascending, Before
<1>7. NextIsNewest'
  BY <1>3, <1>5 DEF DataInv, NextIsNewest, Before
<1> QED BY <1>4, <1>6, <1>7 DEF DataInv

LEMMA SentData == ASSUME DataInv, Sent PROVE DataInv'
BY HandDoneData DEF Sent

LEMMA SameData ==
    ASSUME DataInv, UNCHANGED << queue, unfinished, hand, offered, flight, received >>
    PROVE  DataInv'
BY DEF DataInv, DataType, InOrder, NextIsNewest, Ascending, Before

LEMMA EndSessionData == ASSUME DataInv, EndSession PROVE DataInv'
<1>1. /\ WriterCancelled /\ flight' \in {flight, flight \o hand}
      /\ UNCHANGED << offered, received >>
  BY DEF EndSession
<1>2. CASE hand = << >>
  <2>1. flight \o hand = flight
    BY <1>2, DataTypes
  <2> QED BY <1>1, <1>2, <2>1, SameData DEF WriterCancelled
<1>3. CASE hand # << >>
  BY <1>1, <1>3, HandDoneData DEF WriterCancelled
<1> QED BY <1>2, <1>3

LEMMA ReceiveData == ASSUME DataInv, Receive PROVE DataInv'
<1>1. /\ flight # << >> /\ flight' = Tail(flight)
      /\ received' = IF Head(flight) = Heartbeat THEN received ELSE Append(received, Head(flight))
      /\ UNCHANGED << queue, unfinished, hand, offered >>
  BY DEF Receive, outgoing
<1>2. /\ Tail(flight) \in Seq(Frames) /\ Head(flight) \in Frames
      /\ Ascending(flight) => Ascending(Tail(flight)) /\ Before(<< Head(flight) >>, Tail(flight))
      /\ \A t \in Seq(Frames) :
            Before(t, flight) => Before(t, Tail(flight)) /\ Before(t, << Head(flight) >>)
      /\ \A t \in Seq(Frames) :
            Before(flight, t) => Before(Tail(flight), t) /\ Before(<< Head(flight) >>, t)
  BY <1>1, DataTypes, TailKeepsOrder
<1>3. /\ Ascending(received') /\ received' \in Seq(Events)
      /\ Before(received', flight') /\ Before(received', hand) /\ Before(received', queue)
      /\ \A e \in Events : Before(received, << e >>) /\ Before(flight, << e >>)
                         => Before(received', << e >>)
  <2>1. CASE Head(flight) = Heartbeat
    BY <1>1, <1>2, <2>1, DataTypes DEF DataInv, DataType, InOrder
  <2>2. CASE Head(flight) # Heartbeat
    <3> DEFINE x == Head(flight)
    <3>1. received' = Append(received, x) /\ x \in Events
      BY <1>1, <1>2, <2>2 DEF Frames
    <3>2. /\ Before(received, << x >>) /\ Before(<< x >>, Tail(flight))
          /\ Before(<< x >>, hand) /\ Before(<< x >>, queue)
          /\ Before(received, Tail(flight))
          /\ \A e \in Events : Before(flight, << e >>) => Before(<< x >>, << e >>)
      BY <1>2, DataTypes, OneEvent DEF DataInv, InOrder
    <3> HIDE DEF x
    <3>3. /\ Ascending(Append(received, x))
          /\ Before(Append(received, x), Tail(flight))
          /\ Before(Append(received, x), hand) /\ Before(Append(received, x), queue)
      BY <1>2, <3>1, <3>2, DataTypes, FramesAreNumbers, AppendKeepsOrder DEF DataInv, InOrder
    <3>4. \A e \in Events : Before(received, << e >>) /\ Before(flight, << e >>)
                         => Before(Append(received, x), << e >>)
      BY <3>1, <3>2, DataTypes, FramesAreNumbers, AppendKeepsOrder, OneEvent
    <3>5. Append(received, x) \in Seq(Events)
      BY <3>1 DEF DataInv, DataType
    <3> QED BY <1>1, <3>1, <3>3, <3>4, <3>5
  <2> QED BY <2>1, <2>2
<1>4. /\ Ascending(flight') /\ Before(flight', hand) /\ Before(flight', queue)
      /\ \A e \in Events : Before(flight, << e >>) => Before(flight', << e >>)
  BY <1>1, <1>2, DataTypes, OneEvent DEF DataInv, InOrder
<1>5. InOrder'
  BY <1>1, <1>3, <1>4 DEF DataInv, InOrder, Ascending, Before
<1>6. NextIsNewest'
  BY <1>1, <1>3, <1>4 DEF DataInv, NextIsNewest, Before
<1>7. DataType'
  BY <1>1, <1>2, <1>3 DEF DataInv, DataType
<1> QED BY <1>5, <1>6, <1>7 DEF DataInv

LEMMA VanishData == ASSUME DataInv, Vanish PROVE DataInv'
<1>1. flight' = << >> /\ UNCHANGED << queue, unfinished, hand, offered, received >>
  BY DEF Vanish, outgoing
<1>2. /\ Ascending(flight') /\ Before(received, flight') /\ Before(flight', hand)
      /\ Before(flight', queue) /\ \A e \in Events : Before(flight', << e >>)
  BY <1>1, EmptyIsBefore
<1>3. InOrder' /\ NextIsNewest'
  BY <1>1, <1>2 DEF DataInv, InOrder, NextIsNewest, Ascending, Before
<1>4. flight' \in Seq(Frames)
  BY <1>1
<1> QED BY <1>1, <1>3, <1>4 DEF DataInv, DataType

LEMMA StepData == DataInv /\ [Next]_vars => DataInv'
<1> SUFFICES ASSUME DataInv, [Next]_vars PROVE DataInv'
  OBVIOUS
<1>1. CASE SendEvent \/ Beat \/ WriterTurn
  BY <1>1, SendEventData, BeatData, TakeData, SentData DEF WriterTurn
<1>2. CASE RunTurn \/ ReaderTurn
  BY <1>2, SameData DEF RunTurn, ReaderTurn, Connect, TornDown, Closed, Waited, Restarted, Handled,
     ReaderEnds, outgoing, outside
<1>3. CASE Opened \/ Unreachable \/ AuthOk \/ AuthFails \/ Command \/ Break
  BY <1>3, SameData DEF Opened, Unreachable, AuthOk, AuthFails, Command, Break, outgoing, outside
<1>4. CASE SessionOver
  BY <1>4, EndSessionData DEF SessionOver
<1>5. CASE Receive \/ Vanish
  BY <1>5, ReceiveData, VanishData
<1>6. CASE Drain \/ Stop \/ Stopped
  BY <1>6, SameData DEF Drain, Stop, Stopped, outgoing, outside
<1>7. CASE CancelRun
  BY <1>7, EndSessionData, SameData DEF CancelRun, outgoing, outside
<1>8. CASE UNCHANGED vars
  BY <1>8, SameData DEF vars, outgoing, outside
<1> QED BY <1>1, <1>2, <1>3, <1>4, <1>5, <1>6, <1>7, <1>8 DEF Next

\* The inductive invariant holds throughout.
THEOREM Invariance == Spec => []Inv
<1>1. Init => Inv
  BY InitInv
<1>2. Inv /\ [Next]_vars => Inv'
  <2> SUFFICES ASSUME Inv, [Next]_vars PROVE Inv'
    OBVIOUS
  <2>1. ControlType /\ DataInv
    BY InvSplit
  <2>2. ControlType' /\ DataInv'
    BY <2>1, StepControl, StepData
  <2>3. ControlType' /\ DataInv' => Inv'
    BY InvSplit, PTL
  <2> QED BY <2>2, <2>3
<1> QED BY <1>1, <1>2, PTL DEF Spec

-----------------------------------------------------------------------------
(* What follows from it.                                                   *)

\* Every variable keeps its type, for every size of the queue.
THEOREM TypeCorrect == Spec => []TypeOK
<1>1. Inv => TypeOK
  BY DEF Inv
<1> QED BY <1>1, Invariance, PTL

\* drain waits for exactly what is queued or in the writer's hand
\* (websocket.py:372-375), whatever overflows, fails or is cancelled.
THEOREM UnfinishedCountsAlways == Spec => []UnfinishedCounts
<1>1. Inv => UnfinishedCounts
  BY DEF Inv
<1> QED BY <1>1, Invariance, PTL

\* The relay receives events in the order in which the services handed them in,
\* and none twice, across reconnects, full queues and cancelled writers.
ReceivedInOrder == \A i, j \in 1..Len(received) : i < j => received[i] < received[j]

THEOREM ReceivedInOrderAlways == Spec => []ReceivedInOrder
<1>1. Inv => ReceivedInOrder
  <2> SUFFICES ASSUME Inv PROVE ReceivedInOrder
    OBVIOUS
  <2>1. \A i \in 1..Len(received) : received[i] # Heartbeat
    <3>1. received \in Seq(Events)
      BY DEF Inv, TypeOK
    <3>2. \A i \in 1..Len(received) : received[i] \in Events
      BY <3>1
    <3> QED BY <3>2 DEF Events, Heartbeat
  <2> QED BY <2>1 DEF Inv, InOrder, Ascending, ReceivedInOrder
<1> QED BY <1>1, Invariance, PTL

-----------------------------------------------------------------------------
(* What is on its way.                                                     *)

LEMMA ElementsOfParts ==
    ASSUME NEW s \in Seq(Frames), NEW t \in Seq(Frames)
    PROVE  /\ s \o t \in Seq(Frames)
           /\ Elements(s \o t) = Elements(s) \cup Elements(t)
<1>1. /\ s \o t \in Seq(Frames) /\ Len(s) \in Nat /\ Len(t) \in Nat
      /\ DOMAIN (s \o t) = 1..(Len(s) + Len(t))
      /\ \A k \in 1..Len(s) : (s \o t)[k] = s[k]
      /\ \A k \in 1..Len(t) : (s \o t)[k + Len(s)] = t[k]
      /\ DOMAIN s = 1..Len(s) /\ DOMAIN t = 1..Len(t)
  OBVIOUS
<1>2. ASSUME NEW k \in DOMAIN (s \o t) PROVE (s \o t)[k] \in Elements(s) \cup Elements(t)
  <2>1. CASE k \in 1..Len(s)
    BY <1>1, <2>1 DEF Elements
  <2>2. CASE k \notin 1..Len(s)
    <3>1. PICK l \in 1..Len(t) : k = l + Len(s)
      <4>1. k - Len(s) \in 1..Len(t) /\ k = (k - Len(s)) + Len(s)
        BY <1>1, <2>2
      <4>2. QED
        BY <4>1
    <3>2. QED
      BY <1>1, <3>1 DEF Elements
  <2>3. QED
    BY <2>1, <2>2
<1>3. ASSUME NEW k \in DOMAIN s PROVE s[k] \in Elements(s \o t)
  <2>1. k \in DOMAIN (s \o t)
    BY <1>1
  <2>2. QED
    BY <1>1, <2>1 DEF Elements
<1>4. ASSUME NEW k \in DOMAIN t PROVE t[k] \in Elements(s \o t)
  <2>1. k + Len(s) \in DOMAIN (s \o t) /\ k \in 1..Len(t)
    BY <1>1
  <2>2. QED
    BY <1>1, <2>1 DEF Elements
<1>5. QED
  BY <1>1, <1>2, <1>3, <1>4 DEF Elements

LEMMA ElementsOfEnds ==
    ASSUME NEW s \in Seq(Frames)
    PROVE  /\ \A x \in Frames : Elements(Append(s, x)) = Elements(s) \cup {x}
           /\ s # << >> => /\ Head(s) \in Frames /\ Tail(s) \in Seq(Frames)
                           /\ Elements(s) = {Head(s)} \cup Elements(Tail(s))
           /\ Elements(<< >>) = {}
           /\ Elements(s) \subseteq Frames
<1>1. /\ Len(s) \in Nat /\ DOMAIN s = 1..Len(s) /\ \A k \in DOMAIN s : s[k] \in Frames
  OBVIOUS
<1>2. ASSUME NEW x \in Frames PROVE Elements(Append(s, x)) = Elements(s) \cup {x}
  <2>1. /\ << x >> \in Seq(Frames) /\ Append(s, x) = s \o << x >> /\ DOMAIN << x >> = {1}
        /\ << x >>[1] = x
    OBVIOUS
  <2>2. Elements(<< x >>) = {x}
    BY <2>1 DEF Elements
  <2>3. QED
    BY <2>1, <2>2, ElementsOfParts
<1>3. ASSUME s # << >>
      PROVE  /\ Head(s) \in Frames /\ Tail(s) \in Seq(Frames)
             /\ Elements(s) = {Head(s)} \cup Elements(Tail(s))
  <2>1. /\ Head(s) = s[1] /\ 1 \in DOMAIN s /\ Tail(s) \in Seq(Frames) /\ Head(s) \in Frames
        /\ DOMAIN Tail(s) = 1..(Len(s) - 1)
        /\ \A k \in 1..(Len(s) - 1) : Tail(s)[k] = s[k + 1] /\ k + 1 \in DOMAIN s
    BY <1>1, <1>3
  <2>2. ASSUME NEW k \in DOMAIN s PROVE s[k] = Head(s) \/ s[k] \in Elements(Tail(s))
    <3>1. CASE k = 1
      BY <2>1, <3>1
    <3>2. CASE k # 1
      <4>1. k - 1 \in 1..(Len(s) - 1) /\ (k - 1) + 1 = k
        BY <1>1, <3>2
      <4>2. Tail(s)[k - 1] = s[k]
        BY <2>1, <4>1
      <4>3. QED
        BY <2>1, <4>1, <4>2 DEF Elements
    <3>3. QED
      BY <3>1, <3>2
  <2>3. QED
    BY <2>1, <2>2 DEF Elements
<1>4. Elements(<< >>) = {}
  BY DEF Elements
<1>5. QED
  BY <1>1, <1>2, <1>3, <1>4 DEF Elements

LEMMA ElementsOfOne == ASSUME NEW x PROVE Elements(<< x >>) = {x}
<1>1. DOMAIN << x >> = {1} /\ << x >>[1] = x
  OBVIOUS
<1>2. QED
  BY <1>1 DEF Elements

LEMMA PendingParts ==
    ASSUME DataInv
    PROVE  /\ Elements(Pending) = Elements(flight) \cup Elements(hand) \cup Elements(queue)
           /\ Elements(Pending) \subseteq Frames
<1>1. /\ flight \in Seq(Frames) /\ hand \in Seq(Frames) /\ queue \in Seq(Frames)
  BY DataTypes
<1>2. /\ flight \o hand \in Seq(Frames)
      /\ Elements(flight \o hand) = Elements(flight) \cup Elements(hand)
      /\ Elements((flight \o hand) \o queue) = Elements(flight \o hand) \cup Elements(queue)
  BY <1>1, ElementsOfParts
<1>3. QED
  BY <1>1, <1>2, ElementsOfEnds DEF Pending

\* The same of the next state.
LEMMA PendingPartsNext ==
    ASSUME DataInv'
    PROVE  Elements(Pending') = Elements(flight') \cup Elements(hand') \cup Elements(queue')
<1>1. /\ flight' \in Seq(Frames) /\ hand' \in Seq(Frames) /\ queue' \in Seq(Frames)
  BY DEF DataInv, DataType
<1>2. /\ flight' \o hand' \in Seq(Frames)
      /\ Elements(flight' \o hand') = Elements(flight') \cup Elements(hand')
      /\ Elements((flight' \o hand') \o queue') = Elements(flight' \o hand') \cup Elements(queue')
  BY <1>1, ElementsOfParts
<1>3. QED
  BY <1>1, <1>2 DEF Pending

LEMMA EnqueuePending ==
    ASSUME DataInv, NEW frame \in Frames, Enqueue(frame)
    PROVE  /\ frame \in Elements(queue')
           /\ Elements(queue') \subseteq Elements(queue) \cup {frame}
           /\ \A e \in Elements(queue) :
                 e \in Elements(queue') \/ (Len(queue) = Capacity /\ e = Head(queue))
<1>1. queue \in Seq(Frames) /\ Len(queue) <= Capacity /\ Len(queue) \in Nat /\ Capacity \in Nat \ {0}
  BY RelayTransportAssumption DEF DataInv, DataType
<1>2. CASE Len(queue) < Capacity
  <2>1. queue' = Append(queue, frame)
    BY <1>2 DEF Enqueue
  <2>2. QED
    BY <1>1, <2>1, ElementsOfEnds
<1>3. CASE ~(Len(queue) < Capacity)
  <2>1. queue' = Append(Tail(queue), frame) /\ Len(queue) = Capacity /\ queue # << >>
    BY <1>1, <1>3 DEF Enqueue
  <2>2. Tail(queue) \in Seq(Frames) /\ Elements(queue) = {Head(queue)} \cup Elements(Tail(queue))
    BY <1>1, <2>1, ElementsOfEnds
  <2>3. Elements(queue') = Elements(Tail(queue)) \cup {frame}
    BY <2>1, <2>2, ElementsOfEnds
  <2>4. QED
    BY <2>1, <2>2, <2>3
<1>4. QED
  BY <1>2, <1>3

-----------------------------------------------------------------------------
(* The refinement.                                                         *)

\* What the relay receives next is older than all that is behind it.
LEMMA ReceiveOldest ==
    ASSUME DataInv, flight # << >>, Head(flight) # Heartbeat
    PROVE  \A e \in Elements(Tail(flight)) \cup Elements(hand) \cup Elements(queue) :
              e # Heartbeat => Head(flight) < e
<1>1. flight \in Seq(Frames) /\ hand \in Seq(Frames) /\ queue \in Seq(Frames)
  BY DataTypes
<1>2. /\ Before(<< Head(flight) >>, Tail(flight)) /\ Before(<< Head(flight) >>, hand)
      /\ Before(<< Head(flight) >>, queue)
      /\ Tail(flight) \in Seq(Frames)
  BY <1>1, TailKeepsOrder DEF DataInv, InOrder
<1>3. ASSUME NEW t \in Seq(Frames), Before(<< Head(flight) >>, t), NEW e \in Elements(t), e # Heartbeat
      PROVE  Head(flight) < e
  <2>1. 1 \in 1..Len(<< Head(flight) >>) /\ << Head(flight) >>[1] = Head(flight)
    OBVIOUS
  <2>2. PICK j \in 1..Len(t) : e = t[j]
    BY <1>3 DEF Elements
  <2>3. QED
    BY <1>3, <2>1, <2>2 DEF Before
<1>4. QED
  BY <1>1, <1>2, <1>3

LEMMA StepIsLossy ==
    DataInv /\ DataInv' /\ [Next]_vars => [Delivers!Next]_(Delivers!vars)
<1> SUFFICES ASSUME DataInv, DataInv', [Next]_vars PROVE [Delivers!Next]_(Delivers!vars)
  OBVIOUS
<1> DEFINE transit == Elements(Pending) \ {Heartbeat}
           behind == Elements(flight) \cup Elements(hand) \cup Elements(queue)
           behind2 == Elements(flight') \cup Elements(hand') \cup Elements(queue')
<1>1. transit = behind \ {Heartbeat} /\ transit' = behind2 \ {Heartbeat}
  BY PendingParts, PendingPartsNext
<1>2. /\ flight \in Seq(Frames) /\ hand \in Seq(Frames) /\ queue \in Seq(Frames)
      /\ flight \o hand \in Seq(Frames) /\ Elements(flight \o hand) = Elements(flight) \cup Elements(hand)
      /\ Elements(<< >>) = {}
  BY DataTypes, ElementsOfParts, ElementsOfEnds
<1>3. ASSUME behind2 \subseteq behind \cup {Heartbeat}, UNCHANGED << offered, received >>
      PROVE  Delivers!Next
  <2>1. transit' \in SUBSET transit
    BY <1>1, <1>3
  <2>2. QED
    BY <1>3, <2>1 DEF Delivers!Next, Delivers!Lose
<1>4. CASE SendEvent
  <2>1. /\ offered < MaxEvents /\ offered' = offered + 1 /\ offered' \in Frames
        /\ UNCHANGED << hand, flight, received >>
        /\ Enqueue(offered') \/ queue' = queue
    BY <1>4, RelayTransportAssumption DEF SendEvent, DataInv, DataType, Frames, Events
  <2>2. behind2 \subseteq behind \cup {offered'}
    BY <2>1, EnqueuePending
  <2>3. transit' \in SUBSET (transit \cup {offered'})
    BY <1>1, <2>2
  <2>4. QED
    BY <2>1, <2>3 DEF Delivers!Next, Delivers!Offer
<1>5. CASE Beat
  <2>1. Enqueue(Heartbeat) /\ UNCHANGED << hand, flight, offered, received >>
    BY <1>5 DEF Beat, outside
  <2>2. behind2 \subseteq behind \cup {Heartbeat}
    BY <2>1, EnqueuePending, FramesAreNumbers
  <2>3. QED
    BY <1>3, <2>1, <2>2
<1>6. CASE Take
  <2>1. /\ queue # << >> /\ hand' = << Head(queue) >> /\ queue' = Tail(queue)
        /\ UNCHANGED << flight, offered, received >>
    BY <1>6 DEF Take, outside
  <2>2. Head(queue) \in Frames /\ Elements(queue) = {Head(queue)} \cup Elements(Tail(queue))
    BY <1>2, <2>1, ElementsOfEnds
  <2>3. Elements(hand') = {Head(queue)}
    BY <2>1, ElementsOfOne
  <2>4. QED
    BY <1>3, <2>1, <2>2, <2>3
<1>7. ASSUME UNCHANGED << queue, offered, received >>, hand' \in {hand, << >>},
             flight' \in {flight, flight \o hand}
      PROVE  Delivers!Next
  BY <1>2, <1>3, <1>7
<1>8. CASE Sent
  BY <1>7, <1>8 DEF Sent, Finished
<1>9. ASSUME EndSession PROVE Delivers!Next
  <2>1. hand' \in {hand, << >>} /\ queue' = queue /\ flight' \in {flight, flight \o hand}
        /\ UNCHANGED << offered, received >>
    BY <1>9 DEF EndSession, WriterCancelled, Finished
  <2>2. QED
    BY <1>7, <2>1
<1>10. CASE Receive
  <2>1. /\ flight # << >> /\ flight' = Tail(flight) /\ UNCHANGED << hand, queue, offered >>
        /\ received' = IF Head(flight) = Heartbeat THEN received ELSE Append(received, Head(flight))
    BY <1>10 DEF Receive, outgoing
  <2>2. Elements(flight) = {Head(flight)} \cup Elements(Tail(flight)) /\ Head(flight) \in Frames
    BY <1>2, <2>1, ElementsOfEnds
  <2>3. CASE Head(flight) = Heartbeat
    BY <1>3, <2>1, <2>2, <2>3
  <2>4. CASE Head(flight) # Heartbeat
    <3>1. /\ Head(flight) \in transit /\ received' = Append(received, Head(flight))
          /\ behind = {Head(flight)} \cup behind2
      BY <1>1, <2>1, <2>2, <2>4
    <3>2. \A e \in behind2 : e # Heartbeat => Head(flight) < e
      BY <2>1, <2>4, ReceiveOldest
    <3>3. behind \subseteq Frames /\ Frames \subseteq Nat /\ Head(flight) \in Nat
      BY <2>2, PendingParts, FramesAreNumbers
    <3>4. ASSUME NEW e \in transit PROVE Head(flight) <= e
      <4>1. e = Head(flight) \/ (e \in behind2 /\ e # Heartbeat)
        BY <1>1, <3>1
      <4>2. e \in Nat
        BY <1>1, <3>3
      <4>3. e = Head(flight) \/ Head(flight) < e
        BY <3>2, <4>1
      <4>4. QED
        BY <3>3, <4>2, <4>3
    <3>5. transit' = transit \ {Head(flight)}
      BY <1>1, <3>1, <3>2, <3>3
    <3>6. QED
      BY <2>1, <3>1, <3>4, <3>5 DEF Delivers!Next, Delivers!Receive
  <2>5. QED
    BY <2>3, <2>4
<1>11. CASE Vanish
  BY <1>2, <1>3, <1>11 DEF Vanish, outgoing
<1>12. ASSUME UNCHANGED << queue, hand, flight, offered, received >>
       PROVE  UNCHANGED Delivers!vars
  BY <1>12 DEF Delivers!vars, Pending
<1>13. CASE RunTurn \/ Opened \/ Unreachable \/ AuthOk \/ AuthFails \/ Command \/ ReaderTurn \/ Break
  BY <1>12, <1>13 DEF RunTurn, Connect, TornDown, Closed, Waited, Restarted, Opened, Unreachable, AuthOk,
     AuthFails, Command, ReaderTurn, Handled, ReaderEnds, Break, outgoing, outside, connection
<1>14. CASE Drain \/ Stop \/ Stopped \/ UNCHANGED vars
  BY <1>12, <1>14 DEF Drain, Stop, Stopped, outgoing, outside, vars
<1>15. CASE SessionOver
  BY <1>9, <1>15 DEF SessionOver
<1>16. CASE CancelRun
  BY <1>9, <1>12, <1>16 DEF CancelRun, outgoing, outside
<1>17. QED
  BY <1>4, <1>5, <1>6, <1>8, <1>10, <1>11, <1>13, <1>14, <1>15, <1>16 DEF Next, WriterTurn

\* The transport is a lossy channel, for every size of its queue: what it has
\* accepted and not lost reaches the relay once and in the order of the calls,
\* across reconnects, full queues and cancelled writers.
THEOREM ImplementsLossyChannel == Spec => KeepsOrder
<1>1. Init => Delivers!Init
  BY ElementsOfEnds DEF Init, Delivers!Init, Pending, Elements
<1>2. Inv => DataInv
  BY InvSplit
<1>3. QED
  BY <1>1, <1>2, StepIsLossy, Invariance, PTL DEF Spec, KeepsOrder, Delivers!Spec

-----------------------------------------------------------------------------
(* Losses.                                                                 *)

LEMMA StepLosesForCause ==
    ASSUME DataInv, DataInv', [Next]_vars, wire = "up", ~stop, shutdown' # "cancelled"
    PROVE  /\ \A e \in Elements(Pending) :
                 \/ e \in Elements(Pending') \cup Elements(received') \cup {Heartbeat}
                 \/ Len(queue) = Capacity /\ e = Head(queue)
           /\ connected /\ offered' # offered => offered' \in Elements(Pending')
<1> DEFINE behind == Elements(flight) \cup Elements(hand) \cup Elements(queue)
           behind2 == Elements(flight') \cup Elements(hand') \cup Elements(queue')
<1>1. Elements(Pending) = behind /\ Elements(Pending') = behind2
  BY PendingParts, PendingPartsNext
<1>2. /\ flight \in Seq(Frames) /\ hand \in Seq(Frames) /\ queue \in Seq(Frames)
      /\ flight \o hand \in Seq(Frames) /\ Elements(flight \o hand) = Elements(flight) \cup Elements(hand)
      /\ Elements(<< >>) = {} /\ received \in Seq(Frames)
  BY DataTypes, ElementsOfParts, ElementsOfEnds
<1>3. ASSUME behind \subseteq behind2 \cup Elements(received') \cup {Heartbeat}, offered' = offered
      PROVE  /\ \A e \in behind :
                   \/ e \in behind2 \cup Elements(received') \cup {Heartbeat}
                   \/ Len(queue) = Capacity /\ e = Head(queue)
             /\ connected /\ offered' # offered => offered' \in behind2
  BY <1>3
<1>4. ASSUME queue \in Seq(Frames), queue' = queue, offered' = offered,
             Elements(flight) \cup Elements(hand) \subseteq
                Elements(flight') \cup Elements(hand') \cup Elements(received') \cup {Heartbeat}
      PROVE  behind \subseteq behind2 \cup Elements(received') \cup {Heartbeat} /\ offered' = offered
  BY <1>4
<1>5. CASE SendEvent
  <2>1. /\ offered' = offered + 1 /\ offered' \in Frames
        /\ UNCHANGED << hand, flight, received >>
        /\ IF connected /\ ~stop THEN Enqueue(offered') ELSE queue' = queue
    BY <1>5, RelayTransportAssumption DEF SendEvent, DataInv, DataType, Frames, Events
  <2>2. CASE connected /\ ~stop
    <3>1. Enqueue(offered')
      BY <2>1, <2>2
    <3>2. /\ offered' \in Elements(queue')
          /\ \A e \in Elements(queue) :
                e \in Elements(queue') \/ (Len(queue) = Capacity /\ e = Head(queue))
      BY <2>1, <3>1, EnqueuePending
    <3>3. QED
      BY <1>1, <2>1, <3>2
  <2>3. CASE ~(connected /\ ~stop)
    <3>1. behind2 = behind /\ ~connected
      BY <2>1, <2>3
    <3>2. QED
      BY <1>1, <3>1
  <2>4. QED
    BY <2>2, <2>3
<1>6. CASE Beat
  <2>1. Enqueue(Heartbeat) /\ UNCHANGED << hand, flight, offered, received >>
    BY <1>6 DEF Beat, outside
  <2>2. \A e \in Elements(queue) :
           e \in Elements(queue') \/ (Len(queue) = Capacity /\ e = Head(queue))
    BY <2>1, EnqueuePending, FramesAreNumbers
  <2>3. QED
    BY <1>1, <2>1, <2>2
<1>7. CASE Take
  <2>1. /\ queue # << >> /\ hand = << >> /\ hand' = << Head(queue) >> /\ queue' = Tail(queue)
        /\ UNCHANGED << flight, offered, received >>
    BY <1>7 DEF Take, outside
  <2>2. Head(queue) \in Frames /\ Elements(queue) = {Head(queue)} \cup Elements(Tail(queue))
    BY <1>2, <2>1, ElementsOfEnds
  <2>3. Elements(hand') = {Head(queue)}
    BY <2>1, ElementsOfOne
  <2>4. behind \subseteq behind2
    BY <1>2, <2>1, <2>2, <2>3
  <2>5. QED
    BY <1>1, <1>3, <2>1, <2>4
<1>8. CASE Sent
  <2>1. queue' = queue /\ flight' = flight \o hand /\ offered' = offered
    BY <1>8 DEF Sent
  <2>2. QED
    BY <1>1, <1>2, <1>3, <1>4, <2>1
<1>9. CASE Receive
  <2>1. /\ flight # << >> /\ flight' = Tail(flight) /\ UNCHANGED << hand, queue, offered >>
        /\ received' = IF Head(flight) = Heartbeat THEN received ELSE Append(received, Head(flight))
    BY <1>9 DEF Receive, outgoing
  <2>2. Elements(flight) = {Head(flight)} \cup Elements(Tail(flight)) /\ Head(flight) \in Frames
    BY <1>2, <2>1, ElementsOfEnds
  <2>3. Head(flight) \in Elements(received') \cup {Heartbeat}
    <3>1. CASE Head(flight) = Heartbeat
      BY <3>1
    <3>2. CASE Head(flight) # Heartbeat
      <4>1. received' = Append(received, Head(flight))
        BY <2>1, <3>2
      <4>2. QED
        BY <1>2, <2>2, <4>1, ElementsOfEnds
    <3>3. QED
      BY <3>1, <3>2
  <2>4. QED
    BY <1>1, <1>2, <1>3, <1>4, <2>1, <2>2, <2>3
<1>10. ASSUME UNCHANGED << queue, hand, flight, offered >>
       PROVE  behind2 = behind
  BY <1>10
<1>11. CASE RunTurn \/ Opened \/ Unreachable \/ AuthOk \/ AuthFails \/ Command \/ ReaderTurn \/ Break
  <2>1. UNCHANGED << queue, hand, flight, offered >>
    BY <1>11 DEF RunTurn, Connect, TornDown, Closed, Waited, Restarted, Opened, Unreachable, AuthOk,
       AuthFails, Command, ReaderTurn, Handled, ReaderEnds, Break, outgoing, outside, connection
  <2>2. QED
    BY <1>1, <1>3, <1>10, <2>1
<1>12. CASE Drain \/ Stop \/ Stopped \/ UNCHANGED vars
  <2>1. UNCHANGED << queue, hand, flight, offered >>
    BY <1>12 DEF Drain, Stop, Stopped, outgoing, outside, vars
  <2>2. QED
    BY <1>1, <1>3, <1>10, <2>1
<1>13. ~Vanish /\ ~SessionOver /\ ~CancelRun
  BY DEF Vanish, SessionOver, CancelRun
<1>14. QED
  BY <1>5, <1>6, <1>7, <1>8, <1>9, <1>11, <1>12, <1>13 DEF Next, WriterTurn

\* While the socket is up and nobody stops the program, nothing is lost but the
\* oldest envelope of a full queue, and what is sent while connected is accepted,
\* for every size of the queue.
THEOREM LostForCauseAlways == Spec => LostForCause
<1>1. Inv => DataInv
  BY InvSplit
<1>2. DataInv /\ DataInv' /\ [Next]_vars =>
        (wire = "up" /\ ~stop /\ shutdown' # "cancelled" =>
           /\ \A e \in Elements(Pending) :
                 \/ e \in Elements(Pending') \cup Elements(received') \cup {Heartbeat}
                 \/ Len(queue) = Capacity /\ e = Head(queue)
           /\ connected /\ offered' # offered => offered' \in Elements(Pending'))
  BY StepLosesForCause
<1>3. QED
  BY <1>1, <1>2, Invariance, PTL DEF Spec, LostForCause
=============================================================================
