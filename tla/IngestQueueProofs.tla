------------------------- MODULE IngestQueueProofs -------------------------
(***************************************************************************)
(* Theorems of IngestQueue, for any lanes, observers, sizes and bounds: an *)
(* observer's messages are handled in order, nothing runs after the close, *)
(* every drop is reported, and the bytes held are counted exactly.         *)
(***************************************************************************)
EXTENDS IngestQueue, FiniteSetTheorems, WellFoundedInduction, TLAPS

Queued == [n : Nat, observer : Observers, size : Sizes]

Typed ==
  /\ laneOf \in [Observers -> Lanes]
  /\ lane \in [Lanes -> Seq(Queued)]
  /\ handling \in [Lanes -> Queued \cup {NoMessage}]
  /\ up \subseteq Lanes
  /\ arrived \in Nat /\ dropped \in Nat /\ refused \in Nat /\ reported \in Nat
  /\ lastBegun \in [Observers -> Nat]
  /\ closed \in BOOLEAN /\ canceled \in BOOLEAN
  /\ start \in {"loop", "closing", "drained", "timedOut", "gaveUp", "stopped"}

(* A lane has only messages of the observers that are sent there, in the   *)
(* order in which they arrived, and its goroutine handles one of those.    *)
InOrder(l) ==
  /\ \A i \in 1..Len(lane[l]) :
       /\ laneOf[lane[l][i].observer] = l
       /\ lane[l][i].n <= arrived
       /\ lane[l][i].n > lastBegun[lane[l][i].observer]
  /\ \A i, j \in 1..Len(lane[l]) : i < j => lane[l][i].n < lane[l][j].n
  /\ handling[l] # NoMessage => laneOf[handling[l].observer] = l

Sorted == \A l \in Lanes : InOrder(l)

Begun == \A o \in Observers : lastBegun[o] <= arrived

OrderInv == Typed /\ Sorted /\ Begun

(* Where a goroutine returned there is nothing in its hand; before the     *)
(* time limit, it only returned because its lane was closed and empty.     *)
Ended ==
  \A l \in Lanes \ up :
    /\ handling[l] = NoMessage
    /\ ~canceled => lane[l] = <<>> /\ closed

(* How far Start has come.                                                 *)
Stages ==
  /\ start # "loop" => closed
  /\ canceled => start \notin {"loop", "closing"}
  /\ start \in {"drained", "gaveUp", "stopped"} => up = {}

(* While nothing is given up, what was accepted waits, is in hand or has   *)
(* been handled.                                                           *)
NothingLost == ~canceled => accepted = handled \cup Waiting \cup InHand

CloseInv ==
  /\ OrderInv
  /\ Ended
  /\ Stages
  /\ NothingLost
  /\ start = "drained" => accepted = handled

-----------------------------------------------------------------------------
(* Taking the first message off a lane, and putting one at its end.        *)
LEMMA TailOf ==
  ASSUME NEW S, NEW s \in Seq(S), s # <<>>
  PROVE  /\ Tail(s) \in Seq(S)
         /\ Len(Tail(s)) = Len(s) - 1
         /\ \A i \in 1..Len(Tail(s)) : Tail(s)[i] = s[i + 1] /\ i + 1 \in 1..Len(s)
         /\ Head(s) = s[1] /\ 1 \in 1..Len(s) /\ Head(s) \in S
         /\ Range(s) = Range(Tail(s)) \cup {Head(s)}
<1>1. /\ Tail(s) \in Seq(S)
      /\ Len(Tail(s)) = Len(s) - 1
      /\ \A i \in 1..Len(Tail(s)) : Tail(s)[i] = s[i + 1] /\ i + 1 \in 1..Len(s)
      /\ Head(s) = s[1] /\ 1 \in 1..Len(s) /\ Head(s) \in S
  OBVIOUS
<1>2. \A i \in 1..Len(s) : i = 1 \/ (i - 1 \in 1..Len(Tail(s)) /\ s[i] = Tail(s)[i - 1])
  BY <1>1
<1>3. DOMAIN s = 1..Len(s) /\ DOMAIN Tail(s) = 1..Len(Tail(s))
  BY <1>1
<1>4. \A i \in 1..Len(s) : s[i] \in Range(Tail(s)) \cup {Head(s)}
  BY <1>1, <1>2, <1>3 DEF Range
<1>5. \A i \in 1..Len(Tail(s)) : Tail(s)[i] \in Range(s)
  BY <1>1, <1>3 DEF Range
<1>6. Range(s) = Range(Tail(s)) \cup {Head(s)}
  BY <1>1, <1>3, <1>4, <1>5 DEF Range
<1> QED
  BY <1>1, <1>6

LEMMA QueuedAt ==
  ASSUME NEW s \in Seq(Queued)
  PROVE  \A i \in 1..Len(s) : s[i] \in Queued /\ s[i].n \in Nat /\ s[i].observer \in Observers
<1>1. \A i \in 1..Len(s) : s[i] \in Queued
  OBVIOUS
<1> QED
  BY <1>1 DEF Queued

LEMMA AppendOf ==
  ASSUME NEW S, NEW s \in Seq(S), NEW m \in S
  PROVE  /\ Append(s, m) \in Seq(S)
         /\ Len(Append(s, m)) = Len(s) + 1
         /\ \A i \in 1..Len(s) : Append(s, m)[i] = s[i]
         /\ Append(s, m)[Len(s) + 1] = m
         /\ Range(Append(s, m)) = Range(s) \cup {m}
<1>1. /\ Append(s, m) \in Seq(S)
      /\ Len(Append(s, m)) = Len(s) + 1
      /\ \A i \in 1..Len(s) : Append(s, m)[i] = s[i]
      /\ Append(s, m)[Len(s) + 1] = m
      /\ Len(s) \in Nat
  OBVIOUS
<1>2. DOMAIN s = 1..Len(s) /\ DOMAIN Append(s, m) = 1..(Len(s) + 1)
  BY <1>1
<1>3. \A i \in 1..(Len(s) + 1) : Append(s, m)[i] \in Range(s) \cup {m}
  BY <1>1, <1>2 DEF Range
<1>4. m \in Range(Append(s, m)) /\ Range(s) \subseteq Range(Append(s, m))
  BY <1>1, <1>2 DEF Range
<1>5. Range(Append(s, m)) = Range(s) \cup {m}
  BY <1>2, <1>3, <1>4 DEF Range
<1> QED
  BY <1>1, <1>5

-----------------------------------------------------------------------------
(* The initial states satisfy the invariants.                              *)
LEMMA CloseInit == Init => CloseInv
<1> SUFFICES ASSUME Init PROVE CloseInv
  OBVIOUS
<1> USE QueueAssumption DEF Init
<1>1. Typed
  <2>1. lane \in [Lanes -> Seq(Queued)]
    OBVIOUS
  <2>2. handling \in [Lanes -> Queued \cup {NoMessage}]
    OBVIOUS
  <2> QED
    BY <2>1, <2>2 DEF Typed
<1>2. Sorted /\ Begun /\ Ended /\ Stages
  BY DEF Sorted, InOrder, Begun, Ended, Stages
<1>3. Waiting = {} /\ InHand = {}
  BY DEF Waiting, InHand, Range
<1> QED
  BY <1>1, <1>2, <1>3 DEF CloseInv, OrderInv, NothingLost

(* A message that is accepted is the newest of all, at the end of its      *)
(* lane.                                                                   *)
LEMMA AcceptOrder ==
  ASSUME OrderInv, enqueue, NEW m \in Queued, m.n = arrived', Accept(m)
  PROVE  OrderInv'
<1> USE DEF OrderInv, Typed
<1>0. PICK L \in Lanes : L = laneOf[m.observer]
  BY DEF Queued
<1>1. /\ lane[L] \in Seq(Queued)
      /\ arrived' = arrived + 1 /\ arrived \in Nat
      /\ lane' = [lane EXCEPT ![L] = Append(lane[L], m)]
      /\ UNCHANGED <<laneOf, handling, up, closeVars, lastBegun, reported, dropped, refused>>
  BY <1>0 DEF enqueue, Accept, Queued
<1>2. /\ Append(lane[L], m) \in Seq(Queued)
      /\ Len(Append(lane[L], m)) = Len(lane[L]) + 1
      /\ \A i \in 1..Len(lane[L]) : Append(lane[L], m)[i] = lane[L][i]
      /\ Append(lane[L], m)[Len(lane[L]) + 1] = m
  BY <1>1, AppendOf
<1>3. /\ lane'[L] = Append(lane[L], m)
      /\ \A l \in Lanes \ {L} : lane'[l] = lane[l]
  BY <1>1
<1>4. Typed'
  BY <1>1, <1>2 DEF closeVars
<1>5. Begun'
  BY <1>1 DEF Begun
<1>6. ASSUME NEW l \in Lanes, l # L PROVE InOrder(l)'
  <2>1. lane[l] \in Seq(Queued) /\ \A i \in 1..Len(lane[l]) : lane[l][i] \in Queued
    OBVIOUS
  <2>2. lane'[l] = lane[l] /\ InOrder(l)
    BY <1>3, <1>6 DEF Sorted
  <2>3. \A i \in 1..Len(lane[l]) : lane[l][i].n <= arrived'
    <3>1. \A i \in 1..Len(lane[l]) : lane[l][i].n \in Nat
      BY <2>1 DEF Queued
    <3>2. \A i \in 1..Len(lane[l]) : lane[l][i].n <= arrived
      BY <2>2 DEF InOrder
    <3>3. arrived' = arrived + 1 /\ arrived \in Nat
      BY <1>1
    <3> HIDE DEF OrderInv, Typed
    <3> QED
      BY <3>1, <3>2, <3>3
  <2> QED
    BY <1>1, <2>2, <2>3 DEF InOrder
<1>7. Len(lane[L]) \in Nat /\ \A i \in 1..Len(lane[L]) : lane[L][i] \in Queued
  BY <1>1
<1>8. \A i \in 1..Len(lane'[L]) : i \in 1..Len(lane[L]) \/ (i = Len(lane[L]) + 1 /\ lane'[L][i] = m)
  BY <1>2, <1>3, <1>7
<1>9. \A i \in 1..Len(lane'[L]) :
        /\ laneOf'[lane'[L][i].observer] = L
        /\ lane'[L][i].n <= arrived'
        /\ lane'[L][i].n > lastBegun'[lane'[L][i].observer]
  BY <1>0, <1>1, <1>2, <1>3, <1>7, <1>8 DEF Sorted, InOrder, Begun, Queued
<1>10. ASSUME NEW i \in 1..Len(lane'[L]), NEW j \in 1..Len(lane'[L]), i < j
       PROVE  lane'[L][i].n < lane'[L][j].n
  <2>1. i \in 1..Len(lane[L]) /\ lane'[L][i] = lane[L][i] /\ lane[L][i].n <= arrived
    BY <1>1, <1>2, <1>3, <1>7, <1>8, <1>10 DEF Sorted, InOrder
  <2>2. CASE j \in 1..Len(lane[L])
    BY <1>1, <1>2, <1>3, <1>10, <2>1, <2>2 DEF Sorted, InOrder
  <2>3. CASE lane'[L][j] = m
    <3>1. lane[L][i].n \in Nat /\ m.n = arrived + 1
      BY <1>1, <1>7, <2>1 DEF Queued
    <3>2. lane[L][i].n < m.n
      BY <1>1, <2>1, <3>1
    <3> QED
      BY <2>1, <2>3, <3>2
  <2> QED
    BY <1>8, <2>2, <2>3
<1>11. InOrder(L)'
  BY <1>1, <1>9, <1>10 DEF Sorted, InOrder
<1> QED
  BY <1>4, <1>5, <1>6, <1>11 DEF Sorted

(* Where lanes only lose their first message and nobody else's order       *)
(* changes, what remains is in order.                                      *)
LEMMA TakeOrder ==
  ASSUME OrderInv, NEW l \in Lanes, lane[l] # <<>>,
         lane' = [lane EXCEPT ![l] = Tail(lane[l])],
         UNCHANGED <<laneOf, arrived>>,
         handling' \in [Lanes -> Queued \cup {NoMessage}],
         \A k \in Lanes \ {l} : handling'[k] = handling[k],
         handling'[l] \in {handling[l], Head(lane[l])},
         lastBegun' \in [Observers -> Nat],
         \A o \in Observers :
           \/ lastBegun'[o] = lastBegun[o]
           \/ o = Head(lane[l]).observer /\ lastBegun'[o] = Head(lane[l]).n
  PROVE  Sorted' /\ Begun' /\ lane' \in [Lanes -> Seq(Queued)]
<1> USE DEF OrderInv, Typed
<1> DEFINE s == lane[l]
<1>1. /\ Tail(s) \in Seq(Queued)
      /\ Len(Tail(s)) = Len(s) - 1
      /\ \A i \in 1..Len(Tail(s)) : Tail(s)[i] = s[i + 1] /\ i + 1 \in 1..Len(s)
      /\ Head(s) = s[1] /\ 1 \in 1..Len(s) /\ Head(s) \in Queued
      /\ s \in Seq(Queued)
  BY TailOf
<1>2. lane'[l] = Tail(s) /\ \A k \in Lanes \ {l} : lane'[k] = lane[k]
  OBVIOUS
<1>3. /\ laneOf[Head(s).observer] = l /\ Head(s).observer \in Observers
      /\ Head(s).n <= arrived /\ Head(s).n \in Nat
  BY <1>1 DEF Sorted, InOrder, Queued
<1>4. \A o \in Observers : lastBegun'[o] = lastBegun[o] \/ laneOf[o] = l
  BY <1>3
<1>5. ASSUME NEW k \in Lanes \ {l} PROVE InOrder(k)'
  <2>1. InOrder(k) /\ lane'[k] = lane[k] /\ handling'[k] = handling[k]
    BY <1>2 DEF Sorted
  <2>2. \A i \in 1..Len(lane[k]) : lane[k][i].observer \in Observers
    BY QueuedAt
  <2>3. \A i \in 1..Len(lane[k]) :
          lastBegun'[lane[k][i].observer] = lastBegun[lane[k][i].observer]
    BY <1>4, <2>1, <2>2 DEF InOrder
  <2> QED
    BY <2>1, <2>3 DEF InOrder
<1>6. InOrder(l)'
  <2> HIDE DEF s
  <2>1. InOrder(l) /\ s = lane[l]
    BY DEF Sorted, s
  <2>2. \A i \in 1..Len(s) : s[i] \in Queued /\ s[i].n \in Nat /\ s[i].observer \in Observers
    BY <1>1, QueuedAt
  <2>3. ASSUME NEW i \in 1..Len(Tail(s))
        PROVE  /\ laneOf[Tail(s)[i].observer] = l
               /\ Tail(s)[i].n <= arrived
               /\ Tail(s)[i].n > lastBegun'[Tail(s)[i].observer]
    <3>1. i + 1 \in 1..Len(s) /\ 1 < i + 1 /\ Tail(s)[i] = s[i + 1]
      BY <1>1
    <3>2. /\ laneOf[s[i + 1].observer] = l
          /\ s[i + 1].n <= arrived
          /\ s[i + 1].n > lastBegun[s[i + 1].observer]
          /\ s[1].n < s[i + 1].n
      BY <1>1, <2>1, <3>1 DEF InOrder
    <3>3. \/ lastBegun'[s[i + 1].observer] = lastBegun[s[i + 1].observer]
          \/ lastBegun'[s[i + 1].observer] = s[1].n
      BY <1>1, <2>1, <2>2, <3>1
    <3>4. s[i + 1].n > lastBegun'[s[i + 1].observer]
      BY <1>1, <2>2, <3>1, <3>2, <3>3
    <3> QED
      BY <3>1, <3>2, <3>4
  <2>4. ASSUME NEW i \in 1..Len(Tail(s)), NEW j \in 1..Len(Tail(s)), i < j
        PROVE  Tail(s)[i].n < Tail(s)[j].n
    <3>1. /\ i + 1 \in 1..Len(s) /\ j + 1 \in 1..Len(s) /\ i + 1 < j + 1
          /\ Tail(s)[i] = s[i + 1] /\ Tail(s)[j] = s[j + 1]
      BY <1>1, <2>4
    <3> QED
      BY <2>1, <3>1 DEF InOrder
  <2>5. handling'[l] # NoMessage => laneOf[handling'[l].observer] = l
    BY <1>3, <2>1 DEF InOrder
  <2>6. lane'[l] = Tail(s)
    BY <1>2 DEF s
  <2> QED
    BY <2>3, <2>4, <2>5, <2>6 DEF InOrder
<1>7. Begun'
  BY <1>3 DEF Begun
<1> QED
  BY <1>1, <1>5, <1>6, <1>7 DEF Sorted

(* Every step keeps the order of the lanes.                                *)
LEMMA OrderStep == OrderInv /\ [Next]_vars => OrderInv'
<1> SUFFICES ASSUME OrderInv, [Next]_vars PROVE OrderInv'
  OBVIOUS
<1> USE DEF laneVars, countVars, closeVars, history
<1>1. CASE enqueue
  <2>1. PICK m \in Queued : m.n = arrived' /\ (Accept(m) \/ Refuse(m) \/ Ignore)
    <3>1. PICK o \in Observers, size \in Sizes :
            LET m == [n |-> arrived', observer |-> o, size |-> size]
            IN Accept(m) \/ Refuse(m) \/ Ignore
      BY <1>1 DEF enqueue
    <3>2. [n |-> arrived', observer |-> o, size |-> size] \in Queued
      BY <1>1 DEF enqueue, OrderInv, Typed, Queued
    <3> QED
      BY <3>1, <3>2
  <2>2. CASE Accept(m)
    BY <1>1, <2>1, <2>2, AcceptOrder
  <2>3. CASE Refuse(m) \/ Ignore
    <3>1. /\ UNCHANGED <<laneOf, lane, handling, up, lastBegun>>
          /\ arrived' = arrived + 1 /\ arrived \in Nat
      BY <1>1, <2>3 DEF enqueue, Refuse, Ignore, OrderInv, Typed
    <3>2. Typed'
      BY <1>1, <2>3, <3>1 DEF enqueue, Refuse, Ignore, OrderInv, Typed
    <3>3. Begun'
      BY <3>1 DEF Begun, OrderInv, Typed
    <3>4. ASSUME NEW l \in Lanes PROVE InOrder(l)'
      <4>1. InOrder(l) /\ \A i \in 1..Len(lane[l]) : lane[l][i].n \in Nat
        BY QueuedAt DEF OrderInv, Typed, Sorted
      <4>2. \A i \in 1..Len(lane[l]) : lane[l][i].n <= arrived'
        BY <3>1, <4>1 DEF InOrder
      <4> QED
        BY <3>1, <4>1, <4>2 DEF InOrder
    <3> QED
      BY <3>2, <3>3, <3>4 DEF OrderInv, Sorted
  <2> QED
    BY <2>1, <2>2, <2>3
<1>2. ASSUME NEW l \in Lanes, HandleNext(l) PROVE OrderInv'
  <2>1. /\ lane[l] # <<>>
        /\ lane' = [lane EXCEPT ![l] = Tail(lane[l])]
        /\ handling' = [handling EXCEPT ![l] = Head(lane[l])]
        /\ lane[l] \in Seq(Queued) /\ Head(lane[l]) \in Queued
    BY <1>2, TailOf DEF HandleNext, NextIn, OrderInv, Typed
  <2>2. /\ handling' \in [Lanes -> Queued \cup {NoMessage}]
        /\ handling'[l] = Head(lane[l])
        /\ \A k \in Lanes \ {l} : handling'[k] = handling[k]
    BY <2>1 DEF OrderInv, Typed
  <2>3. lastBegun' = [lastBegun EXCEPT ![Head(lane[l]).observer] = Head(lane[l]).n]
    BY <1>2, <2>2 DEF HandleNext
  <2>4. /\ lastBegun' \in [Observers -> Nat]
        /\ \A o \in Observers :
             \/ lastBegun'[o] = lastBegun[o]
             \/ o = Head(lane[l]).observer /\ lastBegun'[o] = Head(lane[l]).n
    BY <2>1, <2>3 DEF OrderInv, Typed, Queued
  <2>5. UNCHANGED <<laneOf, arrived, up, countVars, closeVars, refused, reported>>
    BY <1>2 DEF HandleNext
  <2>6. Sorted' /\ Begun' /\ lane' \in [Lanes -> Seq(Queued)]
    BY <2>1, <2>2, <2>4, <2>5, TakeOrder
  <2> QED
    BY <2>2, <2>4, <2>5, <2>6 DEF OrderInv, Typed
<1>3. ASSUME NEW l \in Lanes, HandlerReturns(l) PROVE OrderInv'
  <2>1. /\ UNCHANGED <<laneOf, lane, up, dropped, closeVars, arrived, lastBegun, refused,
                       reported>>
        /\ handling' = [handling EXCEPT ![l] = NoMessage]
    BY <1>3 DEF HandlerReturns
  <2> QED
    BY <2>1 DEF OrderInv, Typed, Sorted, InOrder, Begun
<1>4. ASSUME NEW l \in Lanes, LaneEnds(l) PROVE OrderInv'
  <2>1. /\ UNCHANGED <<laneOf, handling, countVars, closeVars, history>>
        /\ up' \subseteq Lanes
    BY <1>4 DEF LaneEnds, OrderInv, Typed
  <2>2. CASE UNCHANGED lane
    BY <2>1, <2>2 DEF OrderInv, Typed, Sorted, InOrder, Begun
  <2>3. CASE lane[l] # <<>> /\ lane' = [lane EXCEPT ![l] = Tail(lane[l])]
    <3>1. Sorted' /\ Begun' /\ lane' \in [Lanes -> Seq(Queued)]
      BY <2>1, <2>3, TakeOrder DEF OrderInv, Typed
    <3> QED
      BY <2>1, <3>1 DEF OrderInv, Typed
  <2> QED
    BY <1>4, <2>2, <2>3 DEF LaneEnds
<1>5. CASE reportDrops \/ close \/ Closing \/ UNCHANGED vars
  <2>1. UNCHANGED <<laneVars, arrived, lastBegun, refused>>
    BY <1>5 DEF reportDrops, close, Closing, Drained, DrainTimesOut, WaitForHandlers,
       LastReport, vars
  <2>2. dropped' \in Nat /\ reported' \in Nat
    BY <1>5 DEF reportDrops, close, Closing, Drained, DrainTimesOut, WaitForHandlers,
       LastReport, takeDropped, vars, OrderInv, Typed
  <2>3. /\ closed' \in BOOLEAN /\ canceled' \in BOOLEAN
        /\ start' \in {"loop", "closing", "drained", "timedOut", "gaveUp", "stopped"}
    BY <1>5 DEF reportDrops, close, Closing, Drained, DrainTimesOut, WaitForHandlers,
       LastReport, vars, OrderInv, Typed
  <2> QED
    BY <2>1, <2>2, <2>3 DEF OrderInv, Typed, Sorted, InOrder, Begun
<1> QED
  BY <1>1, <1>2, <1>3, <1>4, <1>5 DEF Next, Lane

(* The messages of one observer are handed over in the order in which they *)
(* arrived, and never two at a time (messageQueue.enqueue, its lanes).     *)
THEOREM OrderTheorem == Spec => []ObserverOrder
<1>1. OrderInv => ObserverOrder
  <2> SUFFICES ASSUME OrderInv PROVE ObserverOrder
    OBVIOUS
  <2>1. ASSUME NEW l \in Lanes, NEW m \in Range(lane[l])
        PROVE  m.n > lastBegun[m.observer]
    <3>1. PICK i \in 1..Len(lane[l]) : m = lane[l][i]
      <4>1. DOMAIN lane[l] = 1..Len(lane[l])
        BY DEF OrderInv, Typed
      <4> QED
        BY <2>1, <4>1 DEF Range
    <3> QED
      BY <3>1 DEF OrderInv, Sorted, InOrder
  <2>2. ASSUME NEW k \in Lanes, NEW l \in Lanes, handling[k] # NoMessage,
               handling[l] # NoMessage, handling[k].observer = handling[l].observer
        PROVE  k = l
    BY <2>2 DEF OrderInv, Sorted, InOrder
  <2> QED
    BY <2>1, <2>2 DEF ObserverOrder
<1>2. Init => OrderInv
  BY CloseInit DEF CloseInv
<1> QED
  BY <1>1, <1>2, OrderStep, PTL DEF Spec

-----------------------------------------------------------------------------
(* Every step keeps the account of what was accepted: the messages that    *)
(* wait, are in hand or have been handled.                                 *)
LEMMA LostStep ==
  ASSUME CloseInv, [Next]_vars
  PROVE  NothingLost'
<1> SUFFICES ASSUME ~ canceled'
             PROVE  accepted' = handled' \cup Waiting' \cup InHand'
  BY DEF NothingLost
<1> USE DEF laneVars, countVars, closeVars, history
<1>0. /\ Typed /\ Ended /\ Stages /\ NothingLost
  BY DEF CloseInv, OrderInv
<1>1. CASE enqueue
  <2>1. UNCHANGED <<handling, handled, closeVars>>
    BY <1>1 DEF enqueue
  <2>2. PICK m \in Queued : Accept(m) \/ Refuse(m) \/ Ignore
    <3>1. PICK o \in Observers, size \in Sizes :
            LET m == [n |-> arrived', observer |-> o, size |-> size]
            IN Accept(m) \/ Refuse(m) \/ Ignore
      BY <1>1 DEF enqueue
    <3>2. [n |-> arrived', observer |-> o, size |-> size] \in Queued
      BY <1>0, <1>1 DEF enqueue, Typed, Queued
    <3> QED
      BY <3>1, <3>2
  <2>3. CASE Accept(m)
    <3>1. PICK l \in Lanes : l = laneOf[m.observer]
      BY <1>0 DEF Typed, Queued
    <3>2. /\ lane' = [lane EXCEPT ![l] = Append(lane[l], m)]
          /\ accepted' = accepted \cup {m}
      BY <2>3, <3>1 DEF Accept
    <3>3. Range(lane'[l]) = Range(lane[l]) \cup {m}
      BY <1>0, <3>2, AppendOf DEF Typed
    <3>4. \A k \in Lanes \ {l} : lane'[k] = lane[k]
      BY <1>0, <3>2 DEF Typed
    <3>5. Waiting' = Waiting \cup {m}
      BY <3>3, <3>4 DEF Waiting
    <3> QED
      BY <1>0, <2>1, <3>2, <3>5 DEF NothingLost, InHand
  <2>4. CASE Refuse(m) \/ Ignore
    BY <1>0, <2>1, <2>4 DEF Refuse, Ignore, NothingLost, Waiting, InHand
  <2> QED
    BY <2>2, <2>3, <2>4
<1>2. ASSUME NEW l \in Lanes, HandleNext(l)
      PROVE  accepted' = handled' \cup Waiting' \cup InHand'
  <2>1. /\ lane' = [lane EXCEPT ![l] = Tail(lane[l])]
        /\ handling' = [handling EXCEPT ![l] = Head(lane[l])]
        /\ handling[l] = NoMessage
        /\ Range(lane[l]) = Range(Tail(lane[l])) \cup {Head(lane[l])}
        /\ Head(lane[l]) \in Queued
        /\ UNCHANGED <<accepted, handled, canceled>>
    BY <1>0, <1>2, TailOf DEF HandleNext, Idle, NextIn, Typed
  <2>2. /\ lane'[l] = Tail(lane[l]) /\ handling'[l] = Head(lane[l])
        /\ \A k \in Lanes \ {l} : lane'[k] = lane[k] /\ handling'[k] = handling[k]
    BY <1>0, <2>1 DEF Typed
  <2>3. Head(lane[l]) # NoMessage
    BY <2>1, QueueAssumption DEF Queued
  <2>4. Waiting = Waiting' \cup {Head(lane[l])}
    BY <2>1, <2>2 DEF Waiting
  <2>5. InHand' = InHand \cup {Head(lane[l])}
    BY <2>1, <2>2, <2>3 DEF InHand
  <2> QED
    BY <1>0, <2>1, <2>4, <2>5 DEF NothingLost
<1>3. ASSUME NEW l \in Lanes, HandlerReturns(l)
      PROVE  accepted' = handled' \cup Waiting' \cup InHand'
  <2>1. /\ handling[l] # NoMessage
        /\ handled' = handled \cup {handling[l]}
        /\ UNCHANGED <<lane, accepted, canceled>>
        /\ handling' = [handling EXCEPT ![l] = NoMessage]
    BY <1>3 DEF HandlerReturns
  <2>2. handling'[l] = NoMessage /\ \A k \in Lanes \ {l} : handling'[k] = handling[k]
    BY <1>0, <2>1 DEF Typed
  <2>3. InHand = InHand' \cup {handling[l]}
    BY <2>1, <2>2 DEF InHand
  <2>4. Waiting' = Waiting
    BY <2>1 DEF Waiting
  <2> QED
    BY <1>0, <2>1, <2>3, <2>4 DEF NothingLost
<1>4. ASSUME NEW l \in Lanes, LaneEnds(l)
      PROVE  accepted' = handled' \cup Waiting' \cup InHand'
  <2>1. UNCHANGED <<lane, handling, accepted, handled, canceled>>
    BY <1>4 DEF LaneEnds
  <2> QED
    BY <1>0, <2>1 DEF NothingLost, Waiting, InHand
<1>5. CASE reportDrops \/ close \/ Closing \/ UNCHANGED vars
  <2>1. UNCHANGED <<lane, handling, accepted, handled>> /\ ~ canceled
    BY <1>0, <1>5 DEF reportDrops, close, Closing, Drained, DrainTimesOut,
       WaitForHandlers, LastReport, vars, Typed
  <2> QED
    BY <1>0, <2>1 DEF NothingLost, Waiting, InHand
<1> QED
  BY <1>1, <1>2, <1>3, <1>4, <1>5 DEF Next, Lane

(* A goroutine that returned stays out, and Start waits for all of them.   *)
LEMMA StagesStep ==
  ASSUME CloseInv, [Next]_vars
  PROVE  Ended' /\ Stages'
<1> USE DEF laneVars, countVars, closeVars, history
<1>0. /\ Typed /\ Ended /\ Stages
  BY DEF CloseInv, OrderInv
<1>1. CASE enqueue
  <2>1. UNCHANGED <<handling, up, closeVars>>
    BY <1>1 DEF enqueue
  <2>2. closed => UNCHANGED lane
    BY <1>1 DEF enqueue, Accept, Refuse, Ignore
  <2> QED
    BY <1>0, <2>1, <2>2 DEF Ended, Stages
<1>2. ASSUME NEW l \in Lanes, HandleNext(l) PROVE Ended' /\ Stages'
  <2>1. /\ UNCHANGED <<up, closeVars>> /\ l \in up
        /\ \A k \in Lanes \ {l} : lane'[k] = lane[k] /\ handling'[k] = handling[k]
    BY <1>0, <1>2 DEF HandleNext, NextIn, Idle, Typed
  <2> QED
    BY <1>0, <2>1 DEF Ended, Stages
<1>3. ASSUME NEW l \in Lanes, HandlerReturns(l) PROVE Ended' /\ Stages'
  <2>1. /\ UNCHANGED <<lane, up, closeVars>>
        /\ \A k \in Lanes : handling'[k] \in {handling[k], NoMessage}
    BY <1>0, <1>3 DEF HandlerReturns, Typed
  <2> QED
    BY <1>0, <2>1 DEF Ended, Stages
<1>4. ASSUME NEW l \in Lanes, LaneEnds(l) PROVE Ended' /\ Stages'
  <2>1. /\ UNCHANGED <<handling, closeVars>> /\ up' = up \ {l}
        /\ handling[l] = NoMessage
        /\ ~ canceled => lane[l] = <<>> /\ closed /\ UNCHANGED lane
    BY <1>4 DEF LaneEnds, Idle
  <2> QED
    BY <1>0, <2>1 DEF Ended, Stages
<1>5. CASE reportDrops \/ close \/ Closing \/ UNCHANGED vars
  <2>1. UNCHANGED laneVars /\ (closed => closed') /\ (canceled => canceled')
    BY <1>5 DEF reportDrops, close, Closing, Drained, DrainTimesOut, WaitForHandlers,
       LastReport, vars
  <2>2. Stages'
    BY <1>0, <1>5 DEF reportDrops, close, Closing, Drained, DrainTimesOut,
       WaitForHandlers, LastReport, Done, vars, Stages, Typed
  <2> QED
    BY <1>0, <2>1, <2>2 DEF Ended, Typed
<1> QED
  BY <1>1, <1>2, <1>3, <1>4, <1>5 DEF Next, Lane

(* Nothing is accepted or handled once the close has been reported.        *)
LEMMA DrainedStep ==
  ASSUME CloseInv, [Next]_vars, start' = "drained"
  PROVE  accepted' = handled'
<1> USE DEF laneVars, countVars, closeVars, history
<1>0. /\ Typed /\ Ended /\ Stages /\ NothingLost
      /\ start = "drained" => accepted = handled
  BY DEF CloseInv, OrderInv
<1>1. CASE Drained
  <2>1. up = {} /\ ~ canceled /\ UNCHANGED <<accepted, handled>>
    BY <1>0, <1>1 DEF Drained, Done, Stages
  <2>2. \A l \in Lanes : lane[l] = <<>> /\ handling[l] = NoMessage
    BY <1>0, <2>1 DEF Ended
  <2>3. Waiting = {} /\ InHand = {}
    BY <2>2 DEF Waiting, InHand, Range
  <2> QED
    BY <1>0, <2>1, <2>3 DEF NothingLost
<1>2. CASE start = "drained"
  <2>1. closed /\ up = {} /\ \A l \in Lanes : handling[l] = NoMessage
    BY <1>0, <1>2 DEF Stages, Ended
  <2>2. CASE enqueue
    BY <1>0, <1>2, <2>1, <2>2 DEF enqueue, Accept, Refuse, Ignore
  <2>3. ASSUME NEW l \in Lanes, Lane(l) PROVE FALSE
    BY <2>1, <2>3 DEF Lane, HandleNext, HandlerReturns, LaneEnds, Idle
  <2>4. CASE reportDrops \/ close \/ Closing \/ UNCHANGED vars
    BY <1>0, <1>2, <2>4 DEF reportDrops, close, Closing, Drained, DrainTimesOut,
       WaitForHandlers, LastReport, vars
  <2> QED
    BY <1>2, <2>2, <2>3, <2>4 DEF Next
<1>3. start = "drained" \/ Drained
  BY DEF Next, enqueue, Lane, HandleNext, HandlerReturns, LaneEnds, reportDrops, close,
     Closing, DrainTimesOut, WaitForHandlers, LastReport, vars
<1> QED
  BY <1>1, <1>2, <1>3

(* When Start has waited for the lanes no handler runs or will run, and a  *)
(* close in time has handled all that was accepted (messageQueue.close).   *)
THEOREM QuietTheorem == Spec => []QuietAfterClose
<1>1. CloseInv /\ [Next]_vars => CloseInv'
  <2> SUFFICES ASSUME CloseInv, [Next]_vars PROVE CloseInv'
    OBVIOUS
  <2>1. OrderInv'
    BY OrderStep DEF CloseInv
  <2>2. Ended' /\ Stages'
    BY StagesStep
  <2>3. NothingLost' /\ (start' = "drained" => accepted' = handled')
    BY LostStep, DrainedStep
  <2> QED
    BY <2>1, <2>2, <2>3 DEF CloseInv
<1>2. CloseInv => QuietAfterClose
  BY DEF CloseInv, OrderInv, Typed, Stages, Ended, QuietAfterClose, InHand
<1> QED
  BY CloseInit, <1>1, <1>2, PTL DEF Spec

(* Every message refused while the queue was open is in the log, once,     *)
(* when Start returns (takeDropped, reportDrops).                          *)
THEOREM DropsTheorem == Spec => []DropsReported
<1> DEFINE Inv == OrderInv /\ DropsReported
<1>1. Init => Inv
  BY CloseInit DEF CloseInv, Init, DropsReported
<1>2. Inv /\ [Next]_vars => Inv'
  <2> SUFFICES ASSUME Inv, [Next]_vars PROVE DropsReported'
    BY OrderStep
  <2> USE DEF laneVars, countVars, closeVars, history
  <2>0. dropped \in Nat /\ refused \in Nat /\ reported \in Nat /\ DropsReported
    BY DEF OrderInv, Typed
  <2>1. CASE enqueue
    <3>1. start # "stopped" /\ UNCHANGED <<start, reported>>
      BY <2>1 DEF enqueue
    <3>2. \/ dropped' = dropped /\ refused' = refused
          \/ dropped' = dropped + 1 /\ refused' = refused + 1
      BY <2>1 DEF enqueue, Accept, Refuse, Ignore
    <3> QED
      BY <2>0, <3>1, <3>2 DEF DropsReported
  <2>2. ASSUME NEW l \in Lanes, Lane(l) PROVE DropsReported'
    BY <2>0, <2>2 DEF Lane, HandleNext, HandlerReturns, LaneEnds, DropsReported
  <2>3. CASE reportDrops \/ LastReport
    <3>1. dropped' = 0 /\ reported' = reported + dropped /\ UNCHANGED refused
      BY <2>3 DEF reportDrops, LastReport, takeDropped
    <3> QED
      BY <2>0, <3>1 DEF DropsReported
  <2>4. CASE close \/ Drained \/ DrainTimesOut \/ WaitForHandlers \/ UNCHANGED vars
    <3>1. UNCHANGED <<dropped, reported, refused>>
      BY <2>4 DEF close, Drained, DrainTimesOut, WaitForHandlers, vars
    <3>2. start' = "stopped" => start = "stopped"
      BY <2>4 DEF close, Drained, DrainTimesOut, WaitForHandlers, vars
    <3> QED
      BY <2>0, <3>1, <3>2 DEF DropsReported
  <2> QED
    BY <2>1, <2>2, <2>3, <2>4 DEF Next, Closing
<1> QED
  BY <1>1, <1>2, PTL DEF Spec

-----------------------------------------------------------------------------
(* Weight: the sum that MapThenSumSet computes by recursion over the       *)
(* subsets of a finite set, one chosen member at a time.                   *)

Choice(s) == CHOOSE x \in s : TRUE
Step(f, s) == IF s = {} THEN 0 ELSE Choice(s).size + f[s \ {Choice(s)}]
Sums(f, T) == f = [s \in SUBSET T |-> Step(f, s)]

LEMMA WeightIsSum ==
  ASSUME NEW S
  PROVE  Weight(S) = (CHOOSE f : Sums(f, S))[S]
BY Zenon DEF Weight, MapThenSumSet, MapThenFoldSet, Sums, Step, Choice

LEMMA SmallestSubset ==
  ASSUME NEW S, IsFiniteSet(S), NEW B \in SUBSET (SUBSET S), B # {}
  PROVE  \E T \in B : \A U \in B : U \subseteq T => U = T
<1> DEFINE R == StrictSubsetOrdering(S)
<1>1. IsWellFoundedOn(R, SUBSET S)
  BY FS_StrictSubsetOrderingWellFounded, FS_FiniteSubsetsOfFinite
<1>2. \E T \in B : \A U \in B : ~ (<<U, T>> \in R)
  <2> HIDE DEF R
  <2> QED
    BY <1>1, WFMin
<1>3. PICK T \in B : \A U \in B : ~ (<<U, T>> \in R)
  BY <1>2
<1>4. \A U \in B : U \subseteq T => U = T
  BY <1>3 DEF StrictSubsetOrdering
<1> QED
  BY <1>4

LEMMA SumsAt ==
  ASSUME NEW T, NEW f, Sums(f, T), NEW s \in SUBSET T
  PROVE  f[s] = Step(f, s)
BY Zenon DEF Sums

LEMMA SumsAgree ==
  ASSUME NEW S, IsFiniteSet(S), NEW T \in SUBSET S, NEW U \in SUBSET S,
         NEW f, NEW g, Sums(f, T), Sums(g, U)
  PROVE  \A s \in SUBSET (T \cap U) : f[s] = g[s]
<1> DEFINE B == {s \in SUBSET (T \cap U) : f[s] # g[s]}
<1>1. SUFFICES ASSUME B # {} PROVE FALSE
  OBVIOUS
<1>2. B \in SUBSET (SUBSET S)
  OBVIOUS
<1>3. PICK s \in B : \A u \in B : u \subseteq s => u = s
  <2> HIDE DEF B
  <2> QED
    BY <1>1, <1>2, SmallestSubset
<1>4. s \in SUBSET T /\ s \in SUBSET U /\ f[s] # g[s]
  OBVIOUS
<1>5. f[s] = Step(f, s) /\ g[s] = Step(g, s)
  BY <1>4, SumsAt
<1>6. s # {}
  BY <1>4, <1>5 DEF Step
<1> DEFINE x == Choice(s)
<1>7. x \in s
  BY <1>6 DEF Choice
<1>8. s \ {x} \in SUBSET (T \cap U) /\ s \ {x} # s /\ s \ {x} \subseteq s
  BY <1>4, <1>7
<1>9. f[s \ {x}] = g[s \ {x}]
  BY <1>3, <1>8
<1> QED
  BY <1>4, <1>5, <1>6, <1>9 DEF Step

LEMMA SumsExist ==
  ASSUME NEW S, IsFiniteSet(S)
  PROVE  \A T \in SUBSET S : \E f : Sums(f, T)
<1> DEFINE B == {T \in SUBSET S : ~ \E f : Sums(f, T)}
<1>1. SUFFICES ASSUME B # {} PROVE FALSE
  OBVIOUS
<1>2. B \in SUBSET (SUBSET S)
  OBVIOUS
<1>3. PICK T \in B : \A U \in B : U \subseteq T => U = T
  <2> HIDE DEF B
  <2> QED
    BY <1>1, <1>2, SmallestSubset
<1>4. T \in SUBSET S /\ ~ \E f : Sums(f, T)
  OBVIOUS
<1>5. \A U \in SUBSET T : U # T => \E f : Sums(f, U)
  BY <1>3, <1>4
<1> DEFINE of(U) == CHOOSE f : Sums(f, U)
           F == [s \in SUBSET T |->
                   IF s = {} THEN 0
                   ELSE Choice(s).size + of(s \ {Choice(s)})[s \ {Choice(s)}]]
<1>6. \A U \in SUBSET T : U # T => Sums(of(U), U)
  BY <1>5
<1>7. ASSUME NEW s \in SUBSET T, s # T
      PROVE  F[s] = of(s)[s]
  <2>1. of(s)[s] = Step(of(s), s)
    <3>1. Sums(of(s), s) /\ s \in SUBSET s
      BY <1>6, <1>7
    <3> HIDE DEF of
    <3> QED
      BY <3>1, SumsAt
  <2>2. CASE s = {}
    BY <2>1, <2>2 DEF Step
  <2>3. CASE s # {}
    <3> DEFINE r == s \ {Choice(s)}
    <3>1. r \in SUBSET T /\ r \in SUBSET s /\ r # T /\ r # s
      BY <1>7, <2>3 DEF Choice
    <3>2. /\ Sums(of(r), r) /\ Sums(of(s), s)
          /\ r \in SUBSET S /\ s \in SUBSET S /\ r \in SUBSET (r \cap s)
      BY <1>4, <1>6, <1>7, <3>1
    <3> HIDE DEF of
    <3>3. of(r)[r] = of(s)[r]
      <4> HIDE DEF r
      <4> QED
        BY <3>2, SumsAgree
    <3>4. F[s] = Choice(s).size + of(r)[r]
      BY <1>7, <2>3
    <3> QED
      BY <2>1, <2>3, <3>3, <3>4 DEF Step
  <2> QED
    BY <2>2, <2>3
<1>8. \A s \in SUBSET T : F[s] = Step(F, s)
  <2> TAKE s \in SUBSET T
  <2>1. CASE s = {}
    BY <2>1 DEF Step
  <2>2. CASE s # {}
    <3> DEFINE r == s \ {Choice(s)}
    <3>1. r \in SUBSET T /\ r # T
      BY <2>2 DEF Choice
    <3>2. F[s] = Choice(s).size + of(r)[r]
      BY <2>2
    <3>3. F[r] = of(r)[r]
      BY <1>7, <3>1
    <3> QED
      BY <2>2, <3>2, <3>3 DEF Step
  <2> QED
    BY <2>1, <2>2
<1>9. Sums(F, T)
  <2>1. F = [s \in SUBSET T |-> F[s]]
    OBVIOUS
  <2> HIDE DEF F
  <2>2. [s \in SUBSET T |-> F[s]] = [s \in SUBSET T |-> Step(F, s)]
    BY <1>8
  <2> QED
    BY <2>1, <2>2, Zenon DEF Sums
<1> QED
  BY <1>4, <1>9

LEMMA WeightStep ==
  ASSUME NEW S, IsFiniteSet(S)
  PROVE  Weight(S) = IF S = {} THEN 0
                     ELSE Choice(S).size + Weight(S \ {Choice(S)})
<1> DEFINE of(U) == CHOOSE f : Sums(f, U)
           r == S \ {Choice(S)}
<1>1. \A U \in SUBSET S : Sums(of(U), U)
  BY SumsExist
<1>2. of(S)[S] = Step(of(S), S)
  <2>1. Sums(of(S), S) /\ S \in SUBSET S
    BY <1>1
  <2> HIDE DEF of
  <2> QED
    BY <2>1, SumsAt
<1>3. Weight(S) = of(S)[S] /\ Weight(r) = of(r)[r]
  BY WeightIsSum, Zenon
<1>4. r \in SUBSET S /\ S \in SUBSET S /\ r \in SUBSET (r \cap S)
  OBVIOUS
<1>5. Sums(of(r), r) /\ Sums(of(S), S)
  BY <1>1, <1>4
<1> HIDE DEF of
<1>6. of(r)[r] = of(S)[r]
  <2> HIDE DEF r
  <2> QED
    BY <1>4, <1>5, SumsAgree
<1> QED
  BY <1>2, <1>3, <1>6 DEF Step

(* The weight of a set does not depend on which member is taken first.     *)
LEMMA WeightWithout ==
  ASSUME NEW S, IsFiniteSet(S), \A x \in S : x.size \in Nat
  PROVE  \A T \in SUBSET S :
           Weight(T) \in Nat /\ \A m \in T : Weight(T) = m.size + Weight(T \ {m})
<1> DEFINE Good(T) ==
             Weight(T) \in Nat /\ \A m \in T : Weight(T) = m.size + Weight(T \ {m})
           B == {T \in SUBSET S : ~ Good(T)}
<1>1. SUFFICES ASSUME B # {} PROVE FALSE
  OBVIOUS
<1>2. B \in SUBSET (SUBSET S)
  OBVIOUS
<1>3. PICK T \in B : \A U \in B : U \subseteq T => U = T
  <2> HIDE DEF B
  <2> QED
    BY <1>1, <1>2, SmallestSubset
<1>4. T \in SUBSET S /\ ~ Good(T)
  BY <1>3
<1>5. \A U \in SUBSET T : U # T => Good(U)
  BY <1>3, <1>4
<1>6. \A U \in SUBSET S : IsFiniteSet(U)
  BY FS_Subset
<1> DEFINE x == Choice(T)
<1>7. T # {}
  <2>1. Weight({}) = 0
    BY FS_EmptySet, WeightStep
  <2>2. Good({})
    BY <2>1
  <2> QED
    BY <1>4, <2>2
<1>8. x \in T /\ x.size \in Nat
  BY <1>4, <1>7 DEF Choice
<1>9. Weight(T) = x.size + Weight(T \ {x})
  BY <1>4, <1>6, <1>7, WeightStep
<1> HIDE DEF x, B
<1>10. Good(T \ {x})
  BY <1>5, <1>8
<1>11. Weight(T) \in Nat
  BY <1>8, <1>9, <1>10
<1>12. ASSUME NEW m \in T
       PROVE  Weight(T) = m.size + Weight(T \ {m})
  <2>1. CASE m = x
    BY <1>9, <2>1
  <2>2. CASE m # x
    <3>1. (T \ {x}) \ {m} = (T \ {m}) \ {x}
      OBVIOUS
    <3>2. Weight(T \ {x}) = m.size + Weight((T \ {x}) \ {m})
      BY <1>10, <2>2
    <3>3. Good(T \ {m})
      BY <1>5
    <3>4. Weight(T \ {m}) = x.size + Weight((T \ {m}) \ {x})
      BY <1>8, <2>2, <3>3
    <3>5. m.size \in Nat /\ Weight((T \ {x}) \ {m}) \in Nat
      BY <1>4, <1>5, <1>8
    <3> DEFINE w == Weight((T \ {x}) \ {m})
    <3>6. Weight(T \ {x}) = m.size + w /\ Weight(T \ {m}) = x.size + w /\ w \in Nat
      BY <3>1, <3>2, <3>4, <3>5
    <3> HIDE DEF w
    <3> QED
      BY <1>8, <1>9, <3>5, <3>6
  <2> QED
    BY <2>1, <2>2
<1> QED
  BY <1>4, <1>11, <1>12

LEMMA WeightAdded ==
  ASSUME NEW S, IsFiniteSet(S), \A x \in S : x.size \in Nat,
         NEW m, m \notin S, m.size \in Nat
  PROVE  /\ IsFiniteSet(S \cup {m})
         /\ Weight(S) \in Nat
         /\ Weight(S \cup {m}) = Weight(S) + m.size
<1> DEFINE T == S \cup {m}
<1>1. IsFiniteSet(T) /\ \A x \in T : x.size \in Nat
  BY FS_AddElement
<1>2. T \ {m} = S /\ m \in T /\ S \in SUBSET T
  OBVIOUS
<1> HIDE DEF T
<1>3. Weight(S) \in Nat /\ Weight(T) = m.size + Weight(T \ {m})
  BY <1>1, <1>2, WeightWithout
<1> QED
  BY <1>1, <1>2, <1>3 DEF T

LEMMA WeightRemoved ==
  ASSUME NEW S, IsFiniteSet(S), \A x \in S : x.size \in Nat, NEW m \in S
  PROVE  /\ IsFiniteSet(S \ {m})
         /\ Weight(S \ {m}) \in Nat
         /\ Weight(S) = m.size + Weight(S \ {m})
<1>1. S \ {m} \in SUBSET S /\ S \in SUBSET S
  OBVIOUS
<1> QED
  BY <1>1, WeightWithout, FS_Subset

-----------------------------------------------------------------------------
(* The bytes.                                                              *)

Held == Waiting \cup InHand

(* What the channels and the counters can hold; a message in hand has been *)
(* begun, and so is no longer among those that wait.                       *)
Limits ==
  /\ \A l \in Lanes :
       /\ Len(lane[l]) <= LaneCap
       /\ \A i \in 1..Len(lane[l]) : lane[l][i].n \in 1..MaxArrivals
       /\ handling[l] # NoMessage =>
            /\ handling[l].n \in 1..MaxArrivals
            /\ handling[l].n <= lastBegun[handling[l].observer]
  /\ arrived <= MaxArrivals
  /\ reported + dropped = refused /\ refused <= arrived

(* A lane that gives a message up leaves its bytes counted.                *)
Accounted ==
  /\ IsFiniteSet(Held)
  /\ bytes \in Nat /\ bytes <= MaxBytes
  /\ Weight(Held) <= bytes
  /\ ~ canceled => bytes = Weight(Held)

BytesInv == OrderInv /\ Limits /\ Accounted

LEMMA InWaiting ==
  ASSUME Typed, NEW m
  PROVE  m \in Waiting <=> \E l \in Lanes : \E i \in 1..Len(lane[l]) : m = lane[l][i]
<1>1. \A l \in Lanes : DOMAIN lane[l] = 1..Len(lane[l])
  BY DEF Typed
<1> QED
  BY <1>1 DEF Waiting, Range

LEMMA HeldTyped ==
  ASSUME Typed
  PROVE  \A m \in Held : m \in Queued /\ m.size \in Nat
<1>1. \A m \in Queued : m.size \in Nat
  BY QueueAssumption DEF Queued
<1>2. \A l \in Lanes : \A i \in 1..Len(lane[l]) : lane[l][i] \in Queued
  BY QueuedAt DEF Typed
<1>3. \A m \in Waiting : m \in Queued
  BY <1>2, InWaiting
<1>4. \A m \in InHand : m \in Queued
  BY DEF InHand, Typed
<1> QED
  BY <1>1, <1>3, <1>4 DEF Held

LEMMA BytesInit == Init => BytesInv
<1> SUFFICES ASSUME Init PROVE BytesInv
  OBVIOUS
<1>1. OrderInv
  BY CloseInit DEF CloseInv
<1>2. Limits
  BY QueueAssumption DEF Init, Limits
<1>3. Held = {}
  BY DEF Init, Held, Waiting, InHand, Range
<1>4. IsFiniteSet({}) /\ Weight({}) = 0
  BY FS_EmptySet, WeightStep
<1> QED
  BY <1>1, <1>2, <1>3, <1>4, QueueAssumption DEF BytesInv, Accounted, Init

LEMMA BytesAccepted ==
  ASSUME BytesInv, enqueue, NEW m \in Queued, m.n = arrived', Accept(m)
  PROVE  Limits' /\ Accounted'
<1>0. Typed /\ Sorted /\ Begun /\ Limits /\ Accounted
  BY DEF BytesInv, OrderInv
<1>1. PICK L \in Lanes : L = laneOf[m.observer]
  BY <1>0 DEF Typed, Queued
<1>2. /\ lane[L] \in Seq(Queued) /\ Len(lane[L]) < LaneCap
      /\ arrived' = arrived + 1 /\ arrived \in Nat /\ arrived < MaxArrivals
      /\ lane' = [lane EXCEPT ![L] = Append(lane[L], m)]
      /\ m.size <= MaxBytes - bytes /\ bytes' = bytes + m.size
      /\ UNCHANGED <<laneOf, handling, lastBegun, reported, dropped, refused, canceled>>
  BY <1>0, <1>1 DEF enqueue, Accept, Fits, Typed, closeVars
<1>3. /\ Len(Append(lane[L], m)) = Len(lane[L]) + 1
      /\ \A i \in 1..Len(lane[L]) : Append(lane[L], m)[i] = lane[L][i]
      /\ Append(lane[L], m)[Len(lane[L]) + 1] = m
      /\ Range(Append(lane[L], m)) = Range(lane[L]) \cup {m}
      /\ Len(lane[L]) \in Nat
  BY <1>2, AppendOf
<1>4. lane'[L] = Append(lane[L], m) /\ \A l \in Lanes \ {L} : lane'[l] = lane[l]
  BY <1>0, <1>2 DEF Typed
<1>5. Limits'
  <2>1. m.n \in 1..MaxArrivals /\ MaxArrivals \in Nat /\ LaneCap \in Nat
    BY <1>2, QueueAssumption
  <2>2. Len(lane'[L]) <= LaneCap
    BY <1>2, <1>3, <1>4, <2>1
  <2>3. \A i \in 1..Len(lane'[L]) : lane'[L][i].n \in 1..MaxArrivals
    <3>1. \A i \in 1..Len(lane'[L]) : i \in 1..Len(lane[L]) \/ i = Len(lane[L]) + 1
      BY <1>3, <1>4
    <3> QED
      BY <1>0, <1>3, <1>4, <2>1, <3>1 DEF Limits
  <2>4. arrived' <= MaxArrivals /\ refused' <= arrived'
    BY <1>0, <1>2, <2>1 DEF Limits, Typed
  <2>5. \A l \in Lanes :
          /\ Len(lane'[l]) <= LaneCap
          /\ \A i \in 1..Len(lane'[l]) : lane'[l][i].n \in 1..MaxArrivals
    BY <1>0, <1>4, <2>2, <2>3 DEF Limits
  <2> QED
    BY <1>0, <1>2, <2>4, <2>5 DEF Limits
<1>6. m \notin Held
  <2>1. ASSUME m \in Waiting PROVE FALSE
    <3>1. PICK l \in Lanes : \E i \in 1..Len(lane[l]) : m = lane[l][i]
      BY <1>0, <2>1, InWaiting
    <3>2. m.n <= arrived
      BY <1>0, <3>1 DEF Sorted, InOrder
    <3>3. m.n = arrived + 1
      BY <1>2
    <3> QED
      BY <1>2, <3>2, <3>3
  <2>2. ASSUME m \in InHand PROVE FALSE
    <3>1. PICK l \in Lanes : handling[l] = m /\ m # NoMessage
      BY <2>2 DEF InHand
    <3>2. m.n <= lastBegun[m.observer] /\ m.observer \in Observers
      BY <1>0, <3>1 DEF Limits, Queued
    <3>3. lastBegun[m.observer] <= arrived /\ lastBegun[m.observer] \in Nat
      BY <1>0, <3>2 DEF Begun, Typed
    <3> QED
      BY <1>2, <3>2, <3>3
  <2> QED
    BY <2>1, <2>2 DEF Held
<1>7. Held' = Held \cup {m}
  <2>1. Waiting' = Waiting \cup {m}
    BY <1>3, <1>4 DEF Waiting
  <2> QED
    BY <1>2, <2>1 DEF Held, InHand
<1>8. m.size \in Nat
  BY QueueAssumption DEF Queued
<1>9. /\ IsFiniteSet(Held') /\ Weight(Held) \in Nat
      /\ Weight(Held') = Weight(Held) + m.size
  BY <1>0, <1>6, <1>7, <1>8, HeldTyped, WeightAdded DEF Accounted
<1>10. Accounted'
  BY <1>0, <1>2, <1>8, <1>9, QueueAssumption DEF Accounted
<1> QED
  BY <1>5, <1>10

LEMMA BytesTaken ==
  ASSUME BytesInv, NEW l \in Lanes, HandleNext(l)
  PROVE  Limits' /\ Accounted'
<1>0. Typed /\ Sorted /\ Begun /\ Limits /\ Accounted
  BY DEF BytesInv, OrderInv
<1> DEFINE h == Head(lane[l])
<1>1. /\ lane[l] # <<>> /\ lane[l] \in Seq(Queued) /\ handling[l] = NoMessage
      /\ lane' = [lane EXCEPT ![l] = Tail(lane[l])]
      /\ handling' = [handling EXCEPT ![l] = h]
      /\ UNCHANGED <<laneOf, bytes, canceled, arrived, dropped, refused, reported>>
  BY <1>0 DEF HandleNext, NextIn, Idle, Typed, countVars, closeVars
<1>2. /\ Len(Tail(lane[l])) = Len(lane[l]) - 1
      /\ \A i \in 1..Len(Tail(lane[l])) :
           Tail(lane[l])[i] = lane[l][i + 1] /\ i + 1 \in 1..Len(lane[l])
      /\ h = lane[l][1] /\ 1 \in 1..Len(lane[l]) /\ h \in Queued
      /\ Range(lane[l]) = Range(Tail(lane[l])) \cup {h}
  BY <1>1, TailOf
<1> HIDE DEF h
<1>3. /\ lane'[l] = Tail(lane[l]) /\ handling'[l] = h
      /\ \A k \in Lanes \ {l} : lane'[k] = lane[k] /\ handling'[k] = handling[k]
  BY <1>0, <1>1 DEF Typed
<1>4. lastBegun' = [lastBegun EXCEPT ![h.observer] = h.n]
  BY <1>3 DEF HandleNext
<1>5. /\ h.observer \in Observers /\ h.n \in Nat /\ h.n > lastBegun[h.observer]
      /\ h.n \in 1..MaxArrivals /\ h # NoMessage
  BY <1>0, <1>2, QueueAssumption DEF Sorted, InOrder, Limits, Queued
<1>6. /\ lastBegun'[h.observer] = h.n
      /\ \A o \in Observers \ {h.observer} : lastBegun'[o] = lastBegun[o]
  BY <1>0, <1>4, <1>5 DEF Typed
<1>7. Limits'
  <2>0. \A k \in Lanes :
          Len(lane[k]) <= LaneCap /\ \A i \in 1..Len(lane[k]) : lane[k][i].n \in 1..MaxArrivals
    BY <1>0 DEF Limits
  <2>1. Len(lane'[l]) <= LaneCap
    <3>1. Len(lane[l]) <= LaneCap /\ Len(lane[l]) \in Nat /\ LaneCap \in Nat
      BY <1>1, <2>0, QueueAssumption
    <3> QED
      BY <1>2, <1>3, <3>1
  <2>2. \A i \in 1..Len(lane'[l]) : lane'[l][i].n \in 1..MaxArrivals
    <3>1. \A i \in 1..Len(Tail(lane[l])) : Tail(lane[l])[i].n \in 1..MaxArrivals
      BY <1>2, <2>0
    <3> QED
      BY <1>3, <3>1
  <2>3. ASSUME NEW k \in Lanes, handling'[k] # NoMessage
        PROVE  /\ handling'[k].n \in 1..MaxArrivals
               /\ handling'[k].n <= lastBegun'[handling'[k].observer]
    <3>1. CASE k = l
      BY <1>3, <1>5, <1>6, <3>1
    <3>2. CASE k # l
      <4>1. /\ handling'[k] = handling[k] /\ handling[k].observer \in Observers
            /\ handling[k].n \in 1..MaxArrivals
            /\ handling[k].n <= lastBegun[handling[k].observer]
            /\ lastBegun[handling[k].observer] \in Nat
        BY <1>0, <1>3, <2>3, <3>2 DEF Limits, Typed, Queued
      <4>2. CASE handling[k].observer = h.observer
        BY <1>5, <1>6, <4>1, <4>2
      <4>3. CASE handling[k].observer # h.observer
        BY <1>6, <4>1, <4>3
      <4> QED
        BY <4>2, <4>3
    <3> QED
      BY <3>1, <3>2
  <2>4. \A k \in Lanes :
          Len(lane'[k]) <= LaneCap /\ \A i \in 1..Len(lane'[k]) : lane'[k][i].n \in 1..MaxArrivals
    BY <1>3, <2>0, <2>1, <2>2
  <2> QED
    BY <1>0, <1>1, <2>3, <2>4 DEF Limits
<1>8. Held' = Held
  <2>1. Waiting = Waiting' \cup {h}
    BY <1>2, <1>3 DEF Waiting
  <2>2. InHand' = InHand \cup {h}
    BY <1>1, <1>3, <1>5 DEF InHand
  <2> QED
    BY <2>1, <2>2 DEF Held
<1>9. Accounted'
  BY <1>0, <1>1, <1>8 DEF Accounted
<1> QED
  BY <1>7, <1>9

LEMMA BytesReturned ==
  ASSUME BytesInv, NEW l \in Lanes, HandlerReturns(l)
  PROVE  Limits' /\ Accounted'
<1>0. Typed /\ Sorted /\ Begun /\ Limits /\ Accounted
  BY DEF BytesInv, OrderInv
<1> DEFINE m == handling[l]
<1>1. /\ m # NoMessage /\ m \in Queued /\ bytes' = bytes - m.size
      /\ handling' = [handling EXCEPT ![l] = NoMessage]
      /\ UNCHANGED <<laneOf, lane, dropped, canceled, arrived, lastBegun, refused, reported>>
  BY <1>0 DEF HandlerReturns, Typed, closeVars
<1>2. handling'[l] = NoMessage /\ \A k \in Lanes \ {l} : handling'[k] = handling[k]
  BY <1>0, <1>1 DEF Typed
<1>3. Limits'
  BY <1>0, <1>1, <1>2 DEF Limits
<1>4. /\ m.observer \in Observers /\ m.size \in Nat /\ m.n \in Nat
      /\ m.n <= lastBegun[m.observer] /\ laneOf[m.observer] = l
      /\ lastBegun[m.observer] \in Nat
  BY <1>0, <1>1, QueueAssumption DEF Limits, Sorted, InOrder, Queued, Typed
<1>5. m \notin Waiting
  <2> SUFFICES ASSUME m \in Waiting PROVE FALSE
    OBVIOUS
  <2>1. PICK k \in Lanes : \E i \in 1..Len(lane[k]) : m = lane[k][i]
    BY <1>0, InWaiting
  <2>2. m.n > lastBegun[m.observer]
    BY <1>0, <2>1 DEF Sorted, InOrder
  <2> QED
    BY <1>4, <2>2
<1>6. \A k \in Lanes \ {l} : handling[k] # m
  BY <1>0, <1>1, <1>4 DEF Sorted, InOrder
<1>7. Held' = Held \ {m} /\ m \in Held
  <2>1. Waiting' = Waiting
    BY <1>1 DEF Waiting
  <2>2. InHand' = InHand \ {m} /\ m \in InHand
    BY <1>1, <1>2, <1>6 DEF InHand
  <2> QED
    BY <1>5, <2>1, <2>2 DEF Held
<1>8. /\ IsFiniteSet(Held') /\ Weight(Held') \in Nat
      /\ Weight(Held) = m.size + Weight(Held')
  <2> HIDE DEF m
  <2> QED
    BY <1>0, <1>7, HeldTyped, WeightRemoved DEF Accounted
<1>9. Accounted'
  BY <1>0, <1>1, <1>4, <1>8, QueueAssumption DEF Accounted
<1> QED
  BY <1>3, <1>9

LEMMA BytesEnded ==
  ASSUME BytesInv, NEW l \in Lanes, LaneEnds(l)
  PROVE  Limits' /\ Accounted'
<1>0. Typed /\ Sorted /\ Begun /\ Limits /\ Accounted
  BY DEF BytesInv, OrderInv
<1>1. UNCHANGED <<laneOf, handling, bytes, dropped, canceled, arrived, lastBegun, refused,
                  reported>>
  BY DEF LaneEnds, countVars, closeVars, history
<1>2. CASE UNCHANGED lane
  BY <1>0, <1>1, <1>2 DEF Limits, Accounted, Held, Waiting, InHand
<1>3. CASE canceled /\ lane[l] # <<>> /\ lane' = [lane EXCEPT ![l] = Tail(lane[l])]
  <2> DEFINE h == Head(lane[l])
  <2>1. /\ lane[l] \in Seq(Queued)
        /\ Len(Tail(lane[l])) = Len(lane[l]) - 1
        /\ \A i \in 1..Len(Tail(lane[l])) :
             Tail(lane[l])[i] = lane[l][i + 1] /\ i + 1 \in 1..Len(lane[l])
        /\ Range(lane[l]) = Range(Tail(lane[l])) \cup {h}
    BY <1>0, <1>3, TailOf DEF Typed
  <2> HIDE DEF h
  <2>2. lane'[l] = Tail(lane[l]) /\ \A k \in Lanes \ {l} : lane'[k] = lane[k]
    BY <1>0, <1>3 DEF Typed
  <2>3. Limits'
    <3>1. Len(lane[l]) <= LaneCap /\ Len(lane[l]) \in Nat /\ LaneCap \in Nat
      BY <1>0, <2>1, QueueAssumption DEF Limits
    <3>2. Len(lane'[l]) <= LaneCap
      BY <2>1, <2>2, <3>1
    <3>3. \A i \in 1..Len(Tail(lane[l])) : Tail(lane[l])[i].n \in 1..MaxArrivals
      BY <1>0, <2>1 DEF Limits
    <3>4. \A k \in Lanes :
            /\ Len(lane'[k]) <= LaneCap
            /\ \A i \in 1..Len(lane'[k]) : lane'[k][i].n \in 1..MaxArrivals
      BY <1>0, <2>2, <3>2, <3>3 DEF Limits
    <3> QED
      BY <1>0, <1>1, <3>4 DEF Limits
  <2>4. Held = Held' \cup {h}
    <3>1. Waiting = Waiting' \cup {h}
      BY <2>1, <2>2 DEF Waiting
    <3> QED
      BY <1>1, <3>1 DEF Held, InHand
  <2>5. CASE h \in Held'
    <3>1. Held' = Held
      BY <2>4, <2>5
    <3> QED
      BY <1>0, <1>1, <2>3, <3>1 DEF Accounted
  <2>6. CASE h \notin Held'
    <3>1. Held' = Held \ {h} /\ h \in Held
      BY <2>4, <2>6
    <3>2. /\ IsFiniteSet(Held') /\ Weight(Held') \in Nat
          /\ Weight(Held) = h.size + Weight(Held') /\ h.size \in Nat
      BY <1>0, <3>1, HeldTyped, WeightRemoved DEF Accounted
    <3>3. Accounted'
      BY <1>0, <1>1, <1>3, <3>2 DEF Accounted
    <3> QED
      BY <2>3, <3>3
  <2> QED
    BY <2>5, <2>6
<1> QED
  BY <1>2, <1>3 DEF LaneEnds

(* Until a shutdown gives messages up, bytes is the size of what waits and *)
(* what is handled, and nothing exceeds its bound (messageQueue.enqueue,   *)
(* the accounting after a handler).                                        *)
THEOREM BytesTheorem == Spec => []BytesExact
<1>1. BytesInv /\ [Next]_vars => BytesInv'
  <2> SUFFICES ASSUME BytesInv, [Next]_vars PROVE Limits' /\ Accounted'
    BY OrderStep DEF BytesInv
  <2>0. Typed /\ Limits /\ Accounted
    BY DEF BytesInv, OrderInv
  <2> USE DEF laneVars, countVars, closeVars, history
  <2>1. CASE enqueue
    <3>1. PICK m \in Queued : m.n = arrived' /\ (Accept(m) \/ Refuse(m) \/ Ignore)
      <4>1. PICK o \in Observers, size \in Sizes :
              LET m == [n |-> arrived', observer |-> o, size |-> size]
              IN Accept(m) \/ Refuse(m) \/ Ignore
        BY <2>1 DEF enqueue
      <4>2. [n |-> arrived', observer |-> o, size |-> size] \in Queued
        BY <2>0, <2>1 DEF enqueue, Typed, Queued
      <4> QED
        BY <4>1, <4>2
    <3>2. CASE Accept(m)
      BY <2>1, <3>1, <3>2, BytesAccepted
    <3>3. CASE Refuse(m) \/ Ignore
      <4>1. /\ UNCHANGED <<lane, handling, bytes, canceled, lastBegun, reported>>
            /\ arrived' = arrived + 1 /\ arrived < MaxArrivals
            /\ \/ dropped' = dropped /\ refused' = refused
               \/ dropped' = dropped + 1 /\ refused' = refused + 1
        BY <2>1, <3>3 DEF enqueue, Refuse, Ignore
      <4>2. Limits'
        BY <2>0, <4>1, QueueAssumption DEF Limits, Typed
      <4>3. Accounted'
        BY <2>0, <4>1 DEF Accounted, Held, Waiting, InHand
      <4> QED
        BY <4>2, <4>3
    <3> QED
      BY <3>1, <3>2, <3>3
  <2>2. ASSUME NEW l \in Lanes, Lane(l) PROVE Limits' /\ Accounted'
    BY <2>2, BytesTaken, BytesReturned, BytesEnded DEF Lane
  <2>3. CASE reportDrops \/ close \/ Closing \/ UNCHANGED vars
    <3>1. /\ UNCHANGED <<lane, handling, bytes, arrived, lastBegun, refused>>
          /\ canceled => canceled'
          /\ reported' + dropped' = reported + dropped
      BY <2>0, <2>3 DEF reportDrops, close, Closing, Drained, DrainTimesOut,
         WaitForHandlers, LastReport, takeDropped, vars, Typed
    <3> QED
      BY <2>0, <3>1 DEF Limits, Accounted, Held, Waiting, InHand
  <2> QED
    BY <2>1, <2>2, <2>3 DEF Next
<1>2. BytesInv => BytesExact
  <2> SUFFICES ASSUME BytesInv PROVE BytesExact
    OBVIOUS
  <2>0. Typed /\ Limits /\ Accounted
    BY DEF BytesInv, OrderInv
  <2>1. ~ canceled => bytes = Weight(Waiting \cup InHand)
    BY <2>0 DEF Accounted, Held
  <2>2. \A m \in Queued : m.n \in 1..MaxArrivals => m \in Message
    BY DEF Queued, Message
  <2>3. \A l \in Lanes : Range(lane[l]) \subseteq Message /\ Len(lane[l]) <= LaneCap
    <3> TAKE l \in Lanes
    <3>1. DOMAIN lane[l] = 1..Len(lane[l]) /\ \A i \in 1..Len(lane[l]) : lane[l][i] \in Queued
      BY <2>0, QueuedAt DEF Typed
    <3>2. \A i \in 1..Len(lane[l]) : lane[l][i] \in Message
      BY <2>0, <2>2, <3>1 DEF Limits
    <3> QED
      BY <2>0, <3>1, <3>2 DEF Range, Limits
  <2>4. handling \in [Lanes -> Message \cup {NoMessage}]
    BY <2>0, <2>2 DEF Typed, Limits
  <2>5. {dropped, refused, reported} \subseteq 0..MaxArrivals /\ bytes \in 0..MaxBytes
    BY <2>0, QueueAssumption DEF Limits, Typed, Accounted
  <2> QED
    BY <2>0, <2>1, <2>3, <2>4, <2>5 DEF BytesExact, TypeOK, Typed
<1> QED
  BY BytesInit, <1>1, <1>2, PTL DEF Spec
=============================================================================
