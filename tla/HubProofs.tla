----------------------------- MODULE HubProofs -----------------------------
(* What holds of Hub for any number of clients, workers and events and any *)
(* channel capacities: the counters, the life of a client, and what a      *)
(* fan-out delivers, drops and announces.                                  *)
EXTENDS Hub, FiniteSetTheorems, TLAPS

(* The types without the claim that the counters stay above zero, which    *)
(* needs to know what they count.                                          *)
Types ==
  /\ subscribe \in Seq(SubscribeMsg)
  /\ unsubscribe \in Seq(UnsubscribeMsg)
  /\ remove \in Seq(Clients)
  /\ broadcast \in Seq(Event)
  /\ clients \subseteq Clients
  /\ options \in [Clients -> AllOptions]
  /\ send \in [Clients -> Seq(Delivered)]
  /\ laggedCH \in [Clients -> Seq(Nat)]
  /\ closed \subseteq Clients
  /\ run \in RunState
  /\ phase \in [Clients -> {"idle", "hello", "open", "request", "remove", "gone"}]
  /\ request \in [Clients -> {NoRequest} \cup SubscribeMsg \cup UnsubscribeMsg]
  /\ \A c \in Clients : phase[c] = "request"
                          => request[c] \in SubscribeMsg \cup UnsubscribeMsg
  /\ worker \in [Workers -> {NoEvent} \cup Event]
  /\ issued \in [Clients -> SUBSET SubIDs]
  /\ published \in Nat

Counted == {c \in clients : options[c].IncludeObserverKey}
CountedRepeats == {c \in clients : options[c].IncludeRepeats}

Counts ==
  /\ observerKeyClients = Cardinality(Counted)
  /\ repeatClients = Cardinality(CountedRepeats)

(* A registration is in the channel at most once, and never for a client   *)
(* already in the map or already closed; only connected clients are in     *)
(* either; Run fans out to registered clients only.                        *)
Registering(i, c) == i \in DOMAIN subscribe /\ subscribe[i].kind = "register"
                       /\ subscribe[i].client = c
Lifecycle ==
  /\ clients \cap closed = {}
  /\ \A c \in clients \cup closed : phase[c] # "idle"
  /\ \A c \in Clients, i \in DOMAIN subscribe : Registering(i, c) =>
       /\ c \notin clients \cup closed
       /\ phase[c] # "idle"
       /\ \A j \in DOMAIN subscribe : Registering(j, c) => i = j
  /\ run.at # "select" => run.todo \subseteq clients
  /\ run.at \in {"evict", "resend", "notify"} => run.dst \in clients
-----------------------------------------------------------------------------
LEMMA SomeRecords ==
  /\ DefaultOptions \in AllOptions
  /\ Idle \in RunState
  /\ Idle.at = "select"
BY DEF DefaultOptions, AllOptions, Idle, RunState

LEMMA OfferingType ==
  ASSUME NEW e \in Event, NEW T \in SUBSET Clients
  PROVE  /\ Offering(e, T) \in RunState
         /\ Offering(e, T).at \in {"select", "offer"}
         /\ Offering(e, T).at # "select" => Offering(e, T).todo = T
BY SomeRecords DEF Offering, RunState, Idle

LEMMA BufferUpdate ==
  ASSUME NEW S, NEW D, NEW f \in [D -> Seq(S)], NEW d \in D
  PROVE  /\ \A e \in S : [f EXCEPT ![d] = Append(@, e)] \in [D -> Seq(S)]
         /\ f[d] # <<>> => [f EXCEPT ![d] = Tail(@)] \in [D -> Seq(S)]
OBVIOUS

LEMMA OverflowingType ==
  ASSUME NEW at \in {"evict", "resend", "notify"}, NEW e \in Event,
         NEW T \in SUBSET Clients, NEW c \in Clients, NEW n \in Nat
  PROVE  Overflowing(at, e, T, c, n) \in RunState
BY DEF Overflowing, RunState

LEMMA CheckedType == ASSUME NEW e \in Event PROVE Checked(e) \in Event
BY Zenon DEF Checked, Event

LEMMA NumberedType ==
  ASSUME NEW e \in Event, NEW n \in Nat PROVE Numbered(e, n) \in Event
BY Zenon DEF Numbered, Event

LEMMA OutEventType ==
  ASSUME NEW c \in Clients, NEW e \in Event, Types
  PROVE  OutEvent(c, e) \in Delivered
<1>1. e.n \in Nat
  BY DEF Event
<1>2. payloadFor(e, options[c]) \in Variants \cup {"base"}
  BY DEF payloadFor, Variants
<1>3. (c \in e.keyed /\ options[c].IncludeObserverKey) \in BOOLEAN
  BY DEF Types, AllOptions
<1> QED
  BY <1>1, <1>2, <1>3, Zenon DEF OutEvent, Delivered

LEMMA TypesInit == Init => Types
BY SomeRecords DEF Init, Types

LEMMA TypesNext == Types /\ [Next]_vars => Types'
<1> SUFFICES ASSUME Types, [Next]_vars
             PROVE  Types'
  OBVIOUS
<1> USE DEF Types
<1>0. CASE UNCHANGED vars
  BY <1>0 DEF vars, channelVars, clientVars, bufferVars, handlerVars, ingestVars
<1>1. ASSUME NEW c \in Clients, NewClient(c)
      PROVE  Types'
  <2>1. [kind |-> "register", client |-> c] \in SubscribeMsg
    BY DEF SubscribeMsg
  <2> QED
    BY <1>1, <2>1 DEF NewClient, clientVars, bufferVars, ingestVars
<1>2. ASSUME NEW c \in Clients, HelloSent(c)
      PROVE  Types'
  BY <1>2 DEF HelloSent, channelVars, clientVars, bufferVars, ingestVars
<1>3. ASSUME NEW c \in Clients, Disconnect(c)
      PROVE  Types'
  BY <1>3 DEF Disconnect, channelVars, clientVars, bufferVars, ingestVars
<1>4. ASSUME NEW c \in Clients, NEW m \in SubscribeMsg \cup UnsubscribeMsg,
             ReadMessage(c, m), issued' \in [Clients -> SUBSET SubIDs]
      PROVE  Types'
  BY <1>4 DEF ReadMessage, channelVars, clientVars, bufferVars, ingestVars
<1>5. ASSUME NEW c \in Clients, ReadSubscribe(c)
      PROVE  Types'
  <2>1. PICK id \in SubIDs, s \in Scopes :
          /\ ReadMessage(c, [kind |-> "scope", client |-> c, id |-> id, scope |-> s])
          /\ issued' = [issued EXCEPT ![c] = @ \cup {id}]
    BY <1>5 DEF ReadSubscribe
  <2>2. [kind |-> "scope", client |-> c, id |-> id, scope |-> s] \in SubscribeMsg
    BY DEF SubscribeMsg
  <2> QED
    BY <2>1, <2>2, <1>4
<1>6. ASSUME NEW c \in Clients, ReadUnsubscribe(c)
      PROVE  Types'
  <2>1. PICK id \in issued[c] :
          ReadMessage(c, [kind |-> "unsubscribe", client |-> c, id |-> id])
    BY <1>6 DEF ReadUnsubscribe
  <2>2. [kind |-> "unsubscribe", client |-> c, id |-> id] \in UnsubscribeMsg
    BY DEF UnsubscribeMsg
  <2> QED
    BY <2>1, <2>2, <1>4, <1>6 DEF ReadUnsubscribe
<1>7. ASSUME NEW c \in Clients, ReadConfigure(c)
      PROVE  Types'
  <2>1. PICK o \in Options :
          ReadMessage(c, [kind |-> "configure", client |-> c, options |-> o])
    BY <1>7 DEF ReadConfigure
  <2>2. [kind |-> "configure", client |-> c, options |-> o] \in SubscribeMsg
    BY DEF SubscribeMsg
  <2> QED
    BY <2>1, <2>2, <1>4, <1>7 DEF ReadConfigure
<1>8. ASSUME NEW c \in Clients, SendSubscribe(c)
      PROVE  Types'
  <2>1. request[c] \in SubscribeMsg
    BY <1>8 DEF SendSubscribe, UnsubscribeMsg
  <2> QED
    BY <1>8, <2>1 DEF SendSubscribe, clientVars, bufferVars, ingestVars
<1>9. ASSUME NEW c \in Clients, RemoveScope(c)
      PROVE  Types'
  <2>1. request[c] \in UnsubscribeMsg
    BY <1>9 DEF RemoveScope, SubscribeMsg
  <2> QED
    BY <1>9, <2>1 DEF RemoveScope, clientVars, bufferVars, ingestVars
<1>10. ASSUME NEW c \in Clients, Remove(c)
       PROVE  Types'
  BY <1>10 DEF Remove, clientVars, bufferVars, ingestVars
<1>11. ASSUME NEW c \in Clients, Pump(c)
       PROVE  Types'
  <2>1. CASE PumpEvent(c)
    BY <2>1 DEF PumpEvent, channelVars, clientVars, handlerVars, ingestVars
  <2>2. CASE PumpNotice(c)
    BY <2>2 DEF PumpNotice, channelVars, clientVars, handlerVars, ingestVars
  <2>3. CASE PumpWriteFails(c)
    <3>1. send' \in [Clients -> Seq(Delivered)] /\ laggedCH' \in [Clients -> Seq(Nat)]
      <4>1. CASE send[c] # <<>> /\ send' = [send EXCEPT ![c] = Tail(@)]
                   /\ UNCHANGED laggedCH
        BY <4>1, BufferUpdate
      <4>2. CASE laggedCH[c] # <<>> /\ laggedCH' = [laggedCH EXCEPT ![c] = Tail(@)]
                   /\ UNCHANGED send
        BY <4>2, BufferUpdate
      <4> QED
        BY <2>3, <4>1, <4>2 DEF PumpWriteFails
    <3> QED
      BY <2>3, <3>1 DEF PumpWriteFails, channelVars, clientVars, ingestVars
  <2>4. CASE PumpExits(c)
    BY <2>4 DEF PumpExits, channelVars, clientVars, bufferVars, ingestVars
  <2> QED
    BY <1>11, <2>1, <2>2, <2>3, <2>4 DEF Pump
<1>12. ASSUME NEW w \in Workers, BuildObservation(w)
       PROVE  Types'
  <2>1. PICK k \in Kinds, repeat \in BOOLEAN :
          worker' = [worker EXCEPT ![w] =
            [kind |-> k, Repeat |-> repeat, n |-> 0, checked |-> ~repeat,
             variants |-> {"resolved"} \cup IF ObserverKeyWanted
                                            THEN {"withKey", "resolvedWithKey"}
                                            ELSE {},
             keyed |-> {c \in clients : options[c].IncludeObserverKey}]]
    BY <1>12 DEF BuildObservation
  <2>2. worker'[w] \in Event
    BY <2>1, Zenon DEF Event, Variants
  <2>3. worker' \in [Workers -> {NoEvent} \cup Event]
    BY <2>1, <2>2
  <2> QED
    BY <1>12, <2>3
       DEF BuildObservation, channelVars, clientVars, bufferVars, handlerVars
<1>13. ASSUME NEW w \in Workers, BroadcastRepeat(w)
       PROVE  Types'
  <2>1. worker[w] \in Event
    BY <1>13 DEF BroadcastRepeat
  <2>2. Checked(worker[w]) \in Event
    BY <2>1, CheckedType
  <2> QED
    BY <1>13, <2>2
       DEF BroadcastRepeat, channelVars, clientVars, bufferVars, handlerVars
<1>14. ASSUME NEW w \in Workers, Broadcast(w)
       PROVE  Types'
  <2>1. worker[w] \in Event
    BY <1>14 DEF Broadcast
  <2>2. Numbered(worker[w], published + 1) \in Event
    BY <2>1, NumberedType
  <2>3. published' \in Nat /\ broadcast' \in Seq(Event)
    <3>1. CASE /\ published' = published + 1
               /\ broadcast' = Append(broadcast, Numbered(worker[w], published'))
      BY <3>1, <2>2
    <3>2. CASE UNCHANGED <<published, broadcast>>
      BY <3>2
    <3> QED
      BY <1>14, <3>1, <3>2 DEF Broadcast
  <2>4. worker' \in [Workers -> {NoEvent} \cup Event]
    BY <1>14 DEF Broadcast
  <2> QED
    BY <1>14, <2>3, <2>4 DEF Broadcast, clientVars, bufferVars, handlerVars
<1>15. CASE RunSubscribe
  <2>1. Head(subscribe) \in SubscribeMsg /\ Tail(subscribe) \in Seq(SubscribeMsg)
    BY <1>15 DEF RunSubscribe
  <2>2. CASE RunRegister(Head(subscribe))
    BY <1>15, <2>1, <2>2
       DEF RunSubscribe, RunRegister, SubscribeMsg, bufferVars, handlerVars, ingestVars
  <2>3. CASE RunConfigure(Head(subscribe))
    <3>1. Head(subscribe).options \in AllOptions
      BY <2>1, <2>3, CapAssumption DEF RunConfigure, SubscribeMsg
    <3>2. options' \in [Clients -> AllOptions]
      BY <3>1, <2>3 DEF RunConfigure
    <3> QED
      BY <1>15, <2>1, <2>3, <3>2
         DEF RunSubscribe, RunConfigure, bufferVars, handlerVars, ingestVars
  <2>4. CASE RunAddScope(Head(subscribe))
    BY <1>15, <2>1, <2>4
       DEF RunSubscribe, RunAddScope, bufferVars, handlerVars, ingestVars
  <2> QED
    BY <1>15, <2>2, <2>3, <2>4 DEF RunSubscribe
<1>16. CASE RunUnsubscribe
  BY <1>16 DEF RunUnsubscribe, bufferVars, handlerVars, ingestVars
<1>17. CASE RunRemove
  BY <1>17 DEF RunRemove, Deregister, bufferVars, handlerVars, ingestVars
<1>18. CASE RunBroadcast
  <2>1. Head(broadcast) \in Event /\ Tail(broadcast) \in Seq(Event)
    BY <1>18 DEF RunBroadcast
  <2>2. run' \in RunState
    BY <1>18, <2>1, OfferingType DEF RunBroadcast
  <2> QED
    BY <1>18, <2>1, <2>2
       DEF RunBroadcast, clientVars, bufferVars, handlerVars, ingestVars
<1>19. ASSUME NEW c \in Clients, RunOffer(c)
       PROVE  Types'
  <2>1. run.evt \in Event /\ run.todo \in SUBSET Clients
    BY <1>19 DEF RunOffer, RunState, Idle
  <2>2. OutEvent(c, run.evt) \in Delivered
    BY <2>1, OutEventType
  <2>3. Offering(run.evt, run.todo \ {c}) \in RunState
    BY <2>1, OfferingType
  <2>4. Overflowing("evict", run.evt, run.todo \ {c}, c, 1) \in RunState
    BY <2>1, OverflowingType
  <2>5. run' \in RunState
    BY <1>19, <2>3, <2>4 DEF RunOffer
  <2>6. send' \in [Clients -> Seq(Delivered)]
    <3>1. CASE send' = [send EXCEPT ![c] = Append(@, OutEvent(c, run.evt))]
      BY <3>1, <2>2, BufferUpdate
    <3> QED
      BY <1>19, <3>1 DEF RunOffer, Deliver
  <2> QED
    BY <1>19, <2>5, <2>6
       DEF RunOffer, Deliver, channelVars, clientVars, handlerVars, ingestVars
<1>20. ASSUME run.at \in {"evict", "resend", "notify"}
       PROVE  /\ run.evt \in Event
              /\ run.todo \in SUBSET Clients
              /\ run.dst \in Clients
              /\ run.dropped \in Nat
  BY <1>20 DEF RunState, Idle
<1>21. CASE RunEvict
  <2>1. run' \in RunState
    BY <1>21, <1>20, OverflowingType DEF RunEvict
  <2>2. send' \in [Clients -> Seq(Delivered)]
    <3>1. CASE send[run.dst] # <<>> /\ send' = [send EXCEPT ![run.dst] = Tail(@)]
      BY <3>1, <1>20, <1>21, BufferUpdate DEF RunEvict
    <3> QED
      BY <1>21, <3>1 DEF RunEvict, Evict
  <2> QED
    BY <1>21, <2>1, <2>2
       DEF RunEvict, channelVars, clientVars, handlerVars, ingestVars
<1>22. CASE RunResend
  <2>1. /\ run.evt \in Event /\ run.todo \in SUBSET Clients
        /\ run.dst \in Clients /\ run.dropped \in Nat /\ run.dropped + 1 \in Nat
    BY <1>22, <1>20 DEF RunResend
  <2>2. OutEvent(run.dst, run.evt) \in Delivered
    BY <2>1, OutEventType
  <2>3. run' \in RunState
    BY <1>22, <2>1, OverflowingType DEF RunResend
  <2>4. send' \in [Clients -> Seq(Delivered)]
    <3>1. CASE send' = [send EXCEPT ![run.dst] =
                                   Append(@, OutEvent(run.dst, run.evt))]
      BY <3>1, <2>1, <2>2, BufferUpdate
    <3> QED
      BY <1>22, <3>1 DEF RunResend, Deliver
  <2> QED
    BY <1>22, <2>3, <2>4
       DEF RunResend, channelVars, clientVars, handlerVars, ingestVars
<1>23. CASE RunNotify
  <2>1. run.evt \in Event /\ run.dst \in Clients /\ run.dropped \in Nat
          /\ run.todo \in SUBSET Clients
    BY <1>23, <1>20 DEF RunNotify
  <2>2. run' \in RunState
    BY <1>23, <2>1, OfferingType DEF RunNotify
  <2> QED
    BY <1>23, <2>1, <2>2
       DEF RunNotify, Notify, channelVars, clientVars, handlerVars, ingestVars
<1> QED
  BY <1>0, <1>1, <1>2, <1>3, <1>5, <1>6, <1>7, <1>8, <1>9, <1>10, <1>11, <1>12,
     <1>13, <1>14, <1>15, <1>16, <1>17, <1>18, <1>19, <1>21, <1>22, <1>23
     DEF Next, Handler, Ingest, Run, FanOut

-----------------------------------------------------------------------------
(* The counters.                                                           *)

LEMMA FiniteCounted ==
  ASSUME Types
  PROVE  IsFiniteSet(Counted) /\ IsFiniteSet(CountedRepeats)
BY CapAssumption, FS_Subset DEF Types, Counted, CountedRepeats

(* Adding a member to a finite set, or taking one out, changes its         *)
(* cardinality by the change of its membership.                            *)
LEMMA CountChange ==
  ASSUME NEW S, NEW T, NEW c, IsFiniteSet(S),
         \/ T = S
         \/ c \notin S /\ T = S \cup {c}
         \/ c \in S /\ T = S \ {c}
  PROVE  Cardinality(T) = Cardinality(S) + Delta(c \in S, c \in T)
<1>0. Cardinality(S) \in Nat
  BY FS_CardinalityType
<1>1. CASE T = S
  BY <1>0, <1>1 DEF Delta
<1>2. CASE c \notin S /\ T = S \cup {c}
  BY <1>0, <1>2, FS_AddElement DEF Delta
<1>3. CASE c \in S /\ T = S \ {c}
  BY <1>0, <1>3, FS_RemoveElement DEF Delta
<1> QED
  BY <1>1, <1>2, <1>3

LEMMA CountsInit == Init => Counts
<1> SUFFICES ASSUME Init PROVE Counts
  OBVIOUS
<1>1. Counted = {} /\ CountedRepeats = {}
  BY DEF Init, Counted, CountedRepeats
<1> QED
  BY <1>1, FS_EmptySet DEF Init, Counts

(* A registration adds a client whose flags are still off: it has sent no  *)
(* configure that Run has applied, since Run only applies those of         *)
(* registered clients and a client registers once.                         *)
OffUntilRegistered ==
  \A c \in Clients \ (clients \cup closed) : options[c] = DefaultOptions

LEMMA CountsNext ==
  ASSUME Types, Counts, Lifecycle, OffUntilRegistered, [Next]_vars
  PROVE  Counts' /\ OffUntilRegistered'
<1> USE DEF Counts
<1>1. ASSUME UNCHANGED <<clients, closed, options, observerKeyClients, repeatClients>>
      PROVE  Counts' /\ OffUntilRegistered'
  BY <1>1 DEF Counted, CountedRepeats, OffUntilRegistered
<1>2. CASE RunSubscribe
  <2> DEFINE m == Head(subscribe)
  <2>0. /\ m \in SubscribeMsg /\ subscribe # <<>> /\ 1 \in DOMAIN subscribe
        /\ m = subscribe[1]
    BY <1>2 DEF RunSubscribe, Types
  <2>1. CASE RunRegister(m)
    <3>1. m.client \in Clients
      BY <2>0, <2>1 DEF RunRegister, SubscribeMsg
    <3>2. m.client \notin clients \cup closed
      BY <2>0, <2>1, <3>1 DEF RunRegister, Lifecycle, Registering
    <3>3. options[m.client] = DefaultOptions
      BY <3>1, <3>2 DEF OffUntilRegistered
    <3>4. Counted' = Counted /\ CountedRepeats' = CountedRepeats
      BY <2>1, <3>3 DEF RunRegister, Counted, CountedRepeats, DefaultOptions
    <3>5. OffUntilRegistered'
      BY <1>2, <2>1 DEF RunSubscribe, RunRegister, OffUntilRegistered
    <3> QED
      BY <2>1, <3>4, <3>5 DEF RunRegister
  <2>2. CASE RunConfigure(m)
    <3>1. CASE m.client \notin clients
      <4>1. UNCHANGED <<clients, closed, options, observerKeyClients, repeatClients>>
        BY <1>2, <2>2, <3>1 DEF RunSubscribe, RunConfigure
      <4> QED
        BY <4>1, <1>1
    <3>2. CASE m.client \in clients
      <4> DEFINE c == m.client
      <4>1. /\ c \in Clients /\ c \in clients /\ clients' = clients /\ closed' = closed
            /\ options' = [options EXCEPT ![c] = m.options]
            /\ m.options \in AllOptions /\ options[c] \in AllOptions
            /\ observerKeyClients' = observerKeyClients
                 + Delta(options[c].IncludeObserverKey, m.options.IncludeObserverKey)
            /\ repeatClients' = repeatClients
                 + Delta(options[c].IncludeRepeats, m.options.IncludeRepeats)
        BY <1>2, <2>0, <2>2, <3>2, CapAssumption
           DEF RunSubscribe, RunConfigure, SubscribeMsg, Types
      <4>2. /\ (c \in Counted) = options[c].IncludeObserverKey
            /\ (c \in Counted') = m.options.IncludeObserverKey
            /\ (c \in CountedRepeats) = options[c].IncludeRepeats
            /\ (c \in CountedRepeats') = m.options.IncludeRepeats
        BY <4>1 DEF Counted, CountedRepeats, AllOptions, Types
      <4>3. \A d \in clients \ {c} :
              (d \in Counted' <=> d \in Counted)
                /\ (d \in CountedRepeats' <=> d \in CountedRepeats)
        BY <4>1 DEF Counted, CountedRepeats, Types
      <4>4. \/ Counted' = Counted
            \/ c \notin Counted /\ Counted' = Counted \cup {c}
            \/ c \in Counted /\ Counted' = Counted \ {c}
        BY <4>1, <4>3 DEF Counted
      <4>5. \/ CountedRepeats' = CountedRepeats
            \/ c \notin CountedRepeats /\ CountedRepeats' = CountedRepeats \cup {c}
            \/ c \in CountedRepeats /\ CountedRepeats' = CountedRepeats \ {c}
        BY <4>1, <4>3 DEF CountedRepeats
      <4> HIDE DEF c
      <4>6. observerKeyClients' = Cardinality(Counted')
        BY <4>1, <4>2, <4>4, FiniteCounted, CountChange
      <4>7. repeatClients' = Cardinality(CountedRepeats')
        BY <4>1, <4>2, <4>5, FiniteCounted, CountChange
      <4>8. OffUntilRegistered'
        BY <4>1 DEF OffUntilRegistered, Types
      <4> QED
        BY <4>6, <4>7, <4>8
    <3> QED
      BY <3>1, <3>2
  <2>3. CASE RunAddScope(m)
    <3>1. UNCHANGED <<clients, closed, options, observerKeyClients, repeatClients>>
      BY <1>2, <2>3 DEF RunSubscribe, RunAddScope
    <3> QED
      BY <3>1, <1>1
  <2> QED
    BY <1>2, <2>1, <2>2, <2>3 DEF RunSubscribe
<1>3. CASE RunRemove
  <2> DEFINE c == Head(remove)
  <2>1. CASE c \notin clients
    <3>1. UNCHANGED <<clients, closed, options, observerKeyClients, repeatClients>>
      BY <1>3, <2>1 DEF RunRemove
    <3> QED
      BY <3>1, <1>1
  <2>2. CASE c \in clients
    <3>1. /\ c \in Clients /\ options' = options /\ options[c] \in AllOptions
          /\ clients' = clients \ {c} /\ closed' = closed \cup {c}
          /\ observerKeyClients' = observerKeyClients
               - IF options[c].IncludeObserverKey THEN 1 ELSE 0
          /\ repeatClients' = repeatClients
               - IF options[c].IncludeRepeats THEN 1 ELSE 0
      BY <1>3, <2>2 DEF RunRemove, Deregister, Types
    <3>2. Counted' = Counted \ {c} /\ CountedRepeats' = CountedRepeats \ {c}
      BY <3>1 DEF Counted, CountedRepeats
    <3>3. /\ (c \in Counted) = options[c].IncludeObserverKey
          /\ (c \in CountedRepeats) = options[c].IncludeRepeats
      BY <2>2, <3>1 DEF Counted, CountedRepeats, AllOptions
    <3> HIDE DEF c
    <3>4. /\ Cardinality(Counted) \in Nat /\ Cardinality(CountedRepeats) \in Nat
      BY FiniteCounted, FS_CardinalityType
    <3>5. Cardinality(Counted') = Cardinality(Counted) - IF c \in Counted THEN 1 ELSE 0
      <4>1. Cardinality(Counted \ {c}) = IF c \in Counted THEN Cardinality(Counted) - 1
                                                           ELSE Cardinality(Counted)
        BY FiniteCounted, FS_RemoveElement
      <4> QED
        BY <3>2, <3>4, <4>1
    <3>6. Cardinality(CountedRepeats') = Cardinality(CountedRepeats)
                                           - IF c \in CountedRepeats THEN 1 ELSE 0
      <4>1. Cardinality(CountedRepeats \ {c}) =
              IF c \in CountedRepeats THEN Cardinality(CountedRepeats) - 1
                                      ELSE Cardinality(CountedRepeats)
        BY FiniteCounted, FS_RemoveElement
      <4> QED
        BY <3>2, <3>4, <4>1
    <3>7. OffUntilRegistered'
      BY <3>1 DEF OffUntilRegistered
    <3> QED
      BY <3>1, <3>3, <3>5, <3>6, <3>7
  <2> QED
    BY <2>1, <2>2
<1>4. CASE UNCHANGED vars
  BY <1>1, <1>4 DEF vars, clientVars
<1>5. ASSUME NEW c \in Clients, Handler(c) \/ Pump(c) \/ RunOffer(c)
      PROVE  UNCHANGED <<clients, closed, options, observerKeyClients, repeatClients>>
  BY <1>5 DEF Handler, Pump, NewClient, HelloSent, Disconnect, ReadSubscribe,
              ReadUnsubscribe, ReadConfigure, ReadMessage, SendSubscribe,
              RemoveScope, Remove, PumpEvent, PumpNotice, PumpWriteFails,
              PumpExits, RunOffer, clientVars
<1>6. ASSUME NEW w \in Workers, Ingest(w)
      PROVE  UNCHANGED <<clients, closed, options, observerKeyClients, repeatClients>>
  BY <1>6 DEF Ingest, BuildObservation, BroadcastRepeat, Broadcast, clientVars
<1>7. ASSUME RunUnsubscribe \/ RunBroadcast \/ RunEvict \/ RunResend \/ RunNotify
      PROVE  UNCHANGED <<clients, closed, options, observerKeyClients, repeatClients>>
  BY <1>7 DEF RunUnsubscribe, RunBroadcast, RunEvict, RunResend, RunNotify, clientVars
<1> QED
  BY <1>1, <1>2, <1>3, <1>4, <1>5, <1>6, <1>7 DEF Next, Run, FanOut

-----------------------------------------------------------------------------
(* Who is registered, closed, or about to be registered.                   *)

LEMMA LifecycleInit == Init => Lifecycle
BY SomeRecords DEF Init, Lifecycle, Registering

(* Steps that leave the map, the closed set and the fan-out alone, and put *)
(* nothing on the subscribe channel but a scope or a configure.            *)
LEMMA LifecycleQuiet ==
  ASSUME Types, Lifecycle, UNCHANGED <<clients, closed, run>>,
         \A c \in Clients : phase[c] # "idle" => phase'[c] # "idle",
         \/ UNCHANGED subscribe
         \/ \E m \in SubscribeMsg : m.kind # "register"
                                   /\ subscribe' = Append(subscribe, m)
  PROVE  Lifecycle'
<1>1. \A c \in Clients, i \in DOMAIN subscribe' :
        Registering(i, c)' => Registering(i, c)
  <2>1. CASE UNCHANGED subscribe
    BY <2>1 DEF Registering
  <2>2. ASSUME NEW m \in SubscribeMsg, m.kind # "register",
               subscribe' = Append(subscribe, m)
        PROVE  \A c \in Clients, i \in DOMAIN subscribe' :
                 Registering(i, c)' => Registering(i, c)
    BY <2>2 DEF Registering, Types
  <2> QED
    BY <2>1, <2>2
<1>2. \A c \in Clients, i \in DOMAIN subscribe' : Registering(i, c)' =>
        /\ c \notin clients' \cup closed'
        /\ phase'[c] # "idle"
        /\ \A j \in DOMAIN subscribe' : Registering(j, c)' => i = j
  BY <1>1 DEF Lifecycle, Registering
<1> QED
  BY <1>2 DEF Lifecycle, Types

LEMMA LifecycleNext ==
  ASSUME Types, Lifecycle, [Next]_vars
  PROVE  Lifecycle'
<1>1. ASSUME NEW c \in Clients, NewClient(c)
      PROVE  Lifecycle'
  <2> DEFINE m == [kind |-> "register", client |-> c]
  <2>1. /\ UNCHANGED <<clients, closed, run>>
        /\ phase[c] = "idle" /\ phase' = [phase EXCEPT ![c] = "hello"]
        /\ subscribe' = Append(subscribe, m)
    BY <1>1 DEF NewClient, clientVars
  <2>2. c \notin clients \cup closed
    BY <2>1 DEF Lifecycle
  <2>3. \A i \in DOMAIN subscribe : ~Registering(i, c)
    BY <2>1 DEF Lifecycle
  <2>4. \A d \in Clients, i \in DOMAIN subscribe' : Registering(i, d)' =>
          \/ i \in DOMAIN subscribe /\ Registering(i, d)
          \/ d = c /\ i = Len(subscribe) + 1
    BY <2>1 DEF Registering, Types
  <2>5. \A d \in Clients, i \in DOMAIN subscribe' : Registering(i, d)' =>
          /\ d \notin clients' \cup closed'
          /\ phase'[d] # "idle"
          /\ \A j \in DOMAIN subscribe' : Registering(j, d)' => i = j
    BY <2>1, <2>2, <2>3, <2>4 DEF Lifecycle, Types, Registering
  <2> QED
    BY <2>1, <2>5 DEF Lifecycle, Types
<1>2. ASSUME NEW c \in Clients, Handler(c), ~NewClient(c)
      PROVE  Lifecycle'
  <2>1. CASE SendSubscribe(c)
    <3>1. request[c] \in SubscribeMsg /\ request[c].kind # "register"
            /\ subscribe' = Append(subscribe, request[c])
      BY <2>1 DEF SendSubscribe, Types, UnsubscribeMsg
    <3>2. \A d \in Clients : phase[d] # "idle" => phase'[d] # "idle"
      BY <2>1 DEF SendSubscribe, Types
    <3> QED
      BY <2>1, <3>1, <3>2, LifecycleQuiet DEF SendSubscribe, clientVars
  <2>2. ASSUME HelloSent(c) \/ Disconnect(c) \/ ReadSubscribe(c)
                 \/ ReadUnsubscribe(c) \/ ReadConfigure(c)
        PROVE  Lifecycle'
    <3>1. \A d \in Clients : phase[d] # "idle" => phase'[d] # "idle"
      BY <2>2 DEF HelloSent, Disconnect, ReadSubscribe, ReadUnsubscribe,
                  ReadConfigure, ReadMessage, Types
    <3>2. UNCHANGED <<clients, closed, run, subscribe>>
      BY <2>2 DEF HelloSent, Disconnect, ReadSubscribe, ReadUnsubscribe,
                  ReadConfigure, ReadMessage, clientVars, channelVars
    <3> QED
      BY <3>1, <3>2, LifecycleQuiet
  <2>3. ASSUME RemoveScope(c) \/ Remove(c)
        PROVE  Lifecycle'
    <3>1. \A d \in Clients : phase[d] # "idle" => phase'[d] # "idle"
      BY <2>3 DEF RemoveScope, Remove, Types
    <3>2. UNCHANGED <<clients, closed, run, subscribe>>
      BY <2>3 DEF RemoveScope, Remove, clientVars
    <3> QED
      BY <3>1, <3>2, LifecycleQuiet
  <2> QED
    BY <1>2, <2>1, <2>2, <2>3 DEF Handler
<1>3. ASSUME UNCHANGED <<clients, closed, run, subscribe, phase>>
      PROVE  Lifecycle'
  BY <1>3, LifecycleQuiet
<1>4. ASSUME NEW c \in Clients, Pump(c)
      PROVE  Lifecycle'
  BY <1>4, <1>3 DEF Pump, PumpEvent, PumpNotice, PumpWriteFails, PumpExits,
                    clientVars, channelVars, handlerVars
<1>5. ASSUME NEW w \in Workers, Ingest(w)
      PROVE  Lifecycle'
  BY <1>5, <1>3 DEF Ingest, BuildObservation, BroadcastRepeat, Broadcast,
                    clientVars, channelVars, handlerVars
<1>6. CASE RunUnsubscribe
  BY <1>6, <1>3 DEF RunUnsubscribe, handlerVars
<1>7. CASE RunSubscribe
  <2> DEFINE m == Head(subscribe)
  <2>0. /\ run.at = "select" /\ UNCHANGED <<closed, run, phase>>
        /\ subscribe # <<>> /\ subscribe' = Tail(subscribe)
    BY <1>7 DEF RunSubscribe, handlerVars
  <2>1. /\ 1 \in DOMAIN subscribe /\ m = subscribe[1] /\ m \in SubscribeMsg
        /\ \A i \in DOMAIN subscribe' : i + 1 \in DOMAIN subscribe
                                        /\ i + 1 # 1
                                        /\ subscribe'[i] = subscribe[i + 1]
    BY <2>0 DEF Types
  <2>2. \A c \in Clients, i \in DOMAIN subscribe' :
          Registering(i, c)' => Registering(i + 1, c) /\ i + 1 \in DOMAIN subscribe
    BY <2>1 DEF Registering
  <2>3. CASE RunRegister(m)
    <3>1. m.client \in Clients /\ clients' = clients \cup {m.client}
            /\ Registering(1, m.client)
      BY <2>1, <2>3 DEF RunRegister, SubscribeMsg, Registering
    <3>2. m.client \notin closed /\ phase[m.client] # "idle"
      BY <2>1, <3>1 DEF Lifecycle
    <3>3. \A c \in Clients, i \in DOMAIN subscribe' :
            Registering(i, c)' => c # m.client
      BY <2>1, <2>2, <3>1 DEF Lifecycle
    <3>4. \A c \in Clients, i, j \in DOMAIN subscribe' :
            Registering(i, c)' /\ Registering(j, c)' => i = j
      <4> TAKE c \in Clients, i, j \in DOMAIN subscribe'
      <4>1. i \in Int /\ j \in Int
        BY <2>0 DEF Types
      <4>2. Registering(i, c)' /\ Registering(j, c)' => i + 1 = j + 1
        BY <2>2 DEF Lifecycle
      <4> QED
        BY <4>1, <4>2
    <3> QED
      BY <2>0, <2>2, <3>1, <3>2, <3>3, <3>4 DEF Lifecycle
  <2>4. CASE RunConfigure(m) \/ RunAddScope(m)
    <3>1. clients' = clients
      BY <2>4 DEF RunConfigure, RunAddScope
    <3>2. \A c \in Clients, i, j \in DOMAIN subscribe' :
            Registering(i, c)' /\ Registering(j, c)' => i = j
      <4> TAKE c \in Clients, i, j \in DOMAIN subscribe'
      <4>1. i \in Int /\ j \in Int
        BY <2>0 DEF Types
      <4>2. Registering(i, c)' /\ Registering(j, c)' => i + 1 = j + 1
        BY <2>2 DEF Lifecycle
      <4> QED
        BY <4>1, <4>2
    <3> QED
      BY <2>0, <2>2, <3>1, <3>2 DEF Lifecycle
  <2> QED
    BY <1>7, <2>3, <2>4 DEF RunSubscribe
<1>8. CASE RunRemove
  <2>1. CASE Head(remove) \notin clients
    BY <1>8, <2>1, <1>3 DEF RunRemove, handlerVars
  <2>2. CASE Head(remove) \in clients
    <3>1. /\ clients' = clients \ {Head(remove)} /\ closed' = closed \cup {Head(remove)}
          /\ run.at = "select" /\ UNCHANGED <<run, subscribe, phase>>
      BY <1>8, <2>2 DEF RunRemove, Deregister, handlerVars
    <3> QED
      BY <2>2, <3>1 DEF Lifecycle, Registering
  <2> QED
    BY <2>1, <2>2
<1>9. ASSUME UNCHANGED <<clients, closed, subscribe, phase>>,
             run'.at # "select" => run'.todo \subseteq clients,
             run'.at \in {"evict", "resend", "notify"} => run'.dst \in clients
      PROVE  Lifecycle'
  BY <1>9 DEF Lifecycle, Registering
<1>10. CASE RunBroadcast
  <2> DEFINE T == {c \in clients : Wants(c, Head(broadcast))}
  <2>1. Head(broadcast) \in Event /\ T \in SUBSET Clients /\ T \subseteq clients
    BY <1>10 DEF RunBroadcast, Types
  <2>2. run' = Offering(Head(broadcast), T)
    BY <1>10 DEF RunBroadcast
  <2> HIDE DEF T
  <2>3. run'.at # "select" => run'.todo \subseteq clients
    BY <2>1, <2>2, OfferingType
  <2>4. run'.at \notin {"evict", "resend", "notify"}
    BY <2>1, <2>2, OfferingType
  <2> QED
    BY <1>9, <1>10, <2>3, <2>4 DEF RunBroadcast, clientVars, handlerVars
<1>11. ASSUME NEW c \in Clients, RunOffer(c)
       PROVE  Lifecycle'
  <2>1. run.evt \in Event /\ run.todo \in SUBSET Clients /\ run.todo \subseteq clients
          /\ c \in clients
    BY <1>11 DEF RunOffer, Types, RunState, Idle, Lifecycle
  <2>2. CASE run' = Offering(run.evt, run.todo \ {c})
    <3>1. run'.at # "select" => run'.todo \subseteq clients
      BY <2>1, <2>2, OfferingType
    <3>2. run'.at \notin {"evict", "resend", "notify"}
      BY <2>1, <2>2, OfferingType
    <3> QED
      BY <1>9, <1>11, <3>1, <3>2 DEF RunOffer, clientVars, channelVars, handlerVars
  <2>3. CASE run' = Overflowing("evict", run.evt, run.todo \ {c}, c, 1)
    <3>1. run'.todo \subseteq clients /\ run'.dst \in clients
      BY <2>1, <2>3 DEF Overflowing
    <3> QED
      BY <1>9, <1>11, <3>1 DEF RunOffer, clientVars, channelVars, handlerVars
  <2> QED
    BY <1>11, <2>2, <2>3 DEF RunOffer
<1>12. ASSUME RunEvict \/ RunResend
       PROVE  Lifecycle'
  <2>1. run'.todo = run.todo /\ run'.dst = run.dst
    BY <1>12 DEF RunEvict, RunResend, Overflowing
  <2>2. run.todo \subseteq clients /\ run.dst \in clients
    BY <1>12 DEF RunEvict, RunResend, Lifecycle
  <2> QED
    BY <1>9, <1>12, <2>1, <2>2
       DEF RunEvict, RunResend, clientVars, channelVars, handlerVars
<1>13. CASE RunNotify
  <2>1. run.evt \in Event /\ run.todo \in SUBSET Clients /\ run.todo \subseteq clients
    BY <1>13 DEF RunNotify, Types, RunState, Idle, Lifecycle
  <2>2. run' = Offering(run.evt, run.todo)
    BY <1>13 DEF RunNotify
  <2>3. /\ run'.at # "select" => run'.todo \subseteq clients
        /\ run'.at \notin {"evict", "resend", "notify"}
    BY <2>1, <2>2, OfferingType
  <2> QED
    BY <1>9, <1>13, <2>3 DEF RunNotify, clientVars, channelVars, handlerVars
<1>14. CASE UNCHANGED vars
  BY <1>3, <1>14 DEF vars, clientVars, channelVars, handlerVars
<1> QED
  BY <1>1, <1>2, <1>4, <1>5, <1>6, <1>7, <1>8, <1>10, <1>11, <1>12, <1>13, <1>14
     DEF Next, Run, FanOut

-----------------------------------------------------------------------------
(* The order of delivery.  Events are numbered as they enter the broadcast *)
(* channel, so the last one Run took has the number Taken.                 *)

Taken == published - Len(broadcast)

(* A client that read event g and has q in its buffer got, or is about to  *)
(* get, events in order, none of them after n; the last of them is n.      *)
InLine(g, q, n) ==
  /\ g <= n
  /\ \A i \in 1..Len(q) : g < q[i].n /\ q[i].n <= n
  /\ \A i, j \in 1..Len(q) : i < j => q[i].n < q[j].n
Newest(g, q, n) ==
  \/ g = n
  \/ q # <<>> /\ q[Len(q)].n = n

(* A client that Run has yet to offer its event has only earlier ones, and *)
(* after an eviction there is room, since only Run adds to a buffer.       *)
Ordered ==
  /\ got \in [Clients -> Nat]
  /\ Taken \in Nat
  /\ \A i \in 1..Len(broadcast) : broadcast[i].n = Taken + i
  /\ \A c \in Clients : InLine(got[c], send[c], Taken) /\ Len(send[c]) <= SendCap
  /\ run.at # "select" =>
       /\ run.evt.n = Taken
       /\ \A c \in run.todo : InLine(got[c], send[c], Taken - 1)
  /\ run.at \in {"evict", "resend", "notify"} => run.dst \notin run.todo
  /\ run.at \in {"evict", "resend"} => InLine(got[run.dst], send[run.dst], Taken - 1)
  /\ run.at = "resend" => HasRoom(run.dst)
  /\ run.at = "notify" => Newest(got[run.dst], send[run.dst], Taken)

LEMMA BufferNumbers ==
  ASSUME NEW q \in Seq(Delivered)
  PROVE  \A i \in 1..Len(q) : q[i].n \in Nat
<1>1. \A i \in 1..Len(q) : q[i] \in Delivered
  OBVIOUS
<1>2. \A e \in Delivered : e.n \in Nat
  BY Zenon DEF Delivered
<1> QED
  BY <1>1, <1>2

LEMMA LineLater ==
  ASSUME NEW g \in Nat, NEW q \in Seq(Delivered), NEW n \in Int, InLine(g, q, n)
  PROVE  InLine(g, q, n + 1)
BY BufferNumbers DEF InLine

LEMMA LineAppended ==
  ASSUME NEW g \in Nat, NEW q \in Seq(Delivered), NEW n \in Nat, InLine(g, q, n - 1),
         NEW e \in Delivered, e.n = n
  PROVE  InLine(g, Append(q, e), n) /\ Newest(g, Append(q, e), n)
<1>1. /\ Len(Append(q, e)) = Len(q) + 1
      /\ \A i \in 1..Len(q) : Append(q, e)[i] = q[i]
      /\ Append(q, e)[Len(q) + 1] = e
      /\ Append(q, e) # <<>> /\ Len(q) \in Nat
  OBVIOUS
<1>2. \A i \in 1..Len(q) : q[i].n \in Nat
  BY BufferNumbers
<1> DEFINE r == Append(q, e)
<1> HIDE DEF r
<1>3. g <= n /\ \A i \in 1..Len(r) : g < r[i].n /\ r[i].n <= n
  <2>1. \A i \in 1..Len(q) : g < q[i].n /\ q[i].n < n
    BY <1>2 DEF InLine
  <2>2. \A i \in 1..Len(r) : i = Len(q) + 1 \/ i \in 1..Len(q)
    BY <1>1 DEF r
  <2>3. g < n
    BY DEF InLine
  <2> QED
    BY <1>1, <1>2, <2>1, <2>2, <2>3 DEF r
<1>4. \A i, j \in 1..Len(r) : i < j => r[i].n < r[j].n
  <2> TAKE i, j \in 1..Len(r)
  <2>1. CASE j = Len(q) + 1
    BY <1>1, <1>2, <2>1 DEF r, InLine
  <2>2. CASE j # Len(q) + 1
    <3>1. HAVE i < j
    <3>2. i \in 1..Len(q) /\ j \in 1..Len(q)
      BY <1>1, <2>2, <3>1 DEF r
    <3>3. r[i] = q[i] /\ r[j] = q[j]
      BY <1>1, <3>2 DEF r
    <3> QED
      BY <3>1, <3>2, <3>3 DEF InLine
  <2> QED
    BY <2>1, <2>2
<1>5. InLine(g, r, n)
  BY <1>3, <1>4 DEF InLine
<1>6. Newest(g, r, n)
  BY <1>1 DEF Newest, r
<1> QED
  BY <1>5, <1>6 DEF r

LEMMA LineTail ==
  ASSUME NEW g \in Nat, NEW q \in Seq(Delivered), NEW n \in Int, InLine(g, q, n), q # <<>>
  PROVE  /\ InLine(Head(q).n, Tail(q), n) /\ InLine(g, Tail(q), n)
         /\ Head(q).n \in Nat
         /\ Len(Tail(q)) = Len(q) - 1
         /\ Newest(g, q, n) => Newest(Head(q).n, Tail(q), n)
<1>1. /\ Len(Tail(q)) = Len(q) - 1 /\ Len(q) \in Nat \ {0}
      /\ \A i \in 1..Len(Tail(q)) : Tail(q)[i] = q[i + 1]
      /\ Head(q) = q[1]
  OBVIOUS
<1>0. \A i \in 1..Len(q) : q[i].n \in Nat
  BY BufferNumbers
<1>2. InLine(Head(q).n, Tail(q), n) /\ InLine(g, Tail(q), n)
  BY <1>0, <1>1 DEF InLine
<1>3. ASSUME Newest(g, q, n)
      PROVE  Newest(Head(q).n, Tail(q), n)
  <2>1. g # n
    BY <1>0, <1>1 DEF InLine
  <2>2. q[Len(q)].n = n
    BY <1>3, <2>1 DEF Newest
  <2>3. CASE Len(q) = 1
    BY <1>1, <2>2, <2>3 DEF Newest
  <2>4. CASE Len(q) # 1
    <3>1. Len(Tail(q)) \in 1..Len(Tail(q)) /\ Len(Tail(q)) + 1 = Len(q)
      BY <1>1, <2>4
    <3>2. Tail(q)[Len(Tail(q))] = q[Len(q)]
      BY <1>1, <3>1
    <3>3. Tail(q) # <<>>
      <4>1. Len(Tail(q)) # 0
        BY <1>1, <2>4
      <4>2. Len(<<>>) = 0
        OBVIOUS
      <4> QED
        BY <4>1, <4>2
    <3> QED
      BY <2>2, <3>2, <3>3 DEF Newest
  <2> QED
    BY <2>3, <2>4
<1> QED
  BY <1>0, <1>1, <1>2, <1>3

LEMMA OfferingEvent ==
  ASSUME NEW e, NEW T, Offering(e, T).at # "select"
  PROVE  Offering(e, T).evt = e /\ Offering(e, T).todo = T
BY DEF Offering, Idle

LEMMA RunningType ==
  ASSUME Types
  PROVE  /\ run.at # "select" => run.evt \in Event /\ run.todo \in SUBSET Clients
         /\ run.at \in {"evict", "resend", "notify"} => run.dst \in Clients
         /\ run.at \in {"select", "offer", "evict", "resend", "notify"}
BY DEF Types, RunState, Idle

LEMMA OrderedInit == Init => Ordered
<1> SUFFICES ASSUME Init PROVE Ordered
  OBVIOUS
<1>1. got \in [Clients -> Nat] /\ Taken = 0 /\ Len(broadcast) = 0
  <2>1. Len(broadcast) = 0 /\ published = 0 /\ got = [c \in Clients |-> 0]
    BY DEF Init
  <2> QED
    BY <2>1 DEF Taken
<1>2. \A c \in Clients : InLine(got[c], send[c], 0) /\ Len(send[c]) = 0
  BY DEF Init, InLine
<1>3. run.at = "select" /\ SendCap \in Nat
  BY CapAssumption DEF Init, Idle
<1> QED
  BY <1>1, <1>2, <1>3 DEF Ordered

LEMMA OrderedQuiet ==
  ASSUME Ordered, UNCHANGED <<broadcast, published, send, got, run>>
  PROVE  Ordered'
<1>1. Taken' = Taken
  BY DEF Taken
<1> QED
  BY <1>1 DEF Ordered, InLine, Newest, HasRoom

(* The write pump takes the oldest event.                                  *)
LEMMA OrderedPumped ==
  ASSUME Types, Ordered, NEW c \in Clients, send[c] # <<>>,
         send' = [send EXCEPT ![c] = Tail(@)],
         got' = [got EXCEPT ![c] = Head(send[c]).n],
         UNCHANGED <<broadcast, published, run>>
  PROVE  Ordered'
<1>1. Taken' = Taken /\ Taken \in Nat
  BY DEF Taken, Ordered
<1>2. \A d \in Clients : send[d] \in Seq(Delivered) /\ got[d] \in Nat
  BY DEF Types, Ordered
<1>3. send'[c] = Tail(send[c]) /\ got'[c] = Head(send[c]).n
  BY DEF Types, Ordered
<1>4. \A d \in Clients \ {c} : send'[d] = send[d] /\ got'[d] = got[d]
  BY DEF Types, Ordered
<1>5. ASSUME NEW d \in Clients, NEW n \in Int, InLine(got[d], send[d], n)
      PROVE  InLine(got'[d], send'[d], n)
  <2>1. CASE d = c
    BY <1>2, <1>3, <1>5, <2>1, LineTail
  <2>2. CASE d # c
    BY <1>4, <1>5, <2>2
  <2> QED
    BY <2>1, <2>2
<1>6. InLine(got[c], send[c], Taken) /\ Len(send[c]) <= SendCap
  BY DEF Ordered
<1>7. Head(send[c]).n \in Nat /\ Len(Tail(send[c])) = Len(send[c]) - 1
  BY <1>1, <1>2, <1>6, LineTail
<1>8. got' \in [Clients -> Nat]
  BY <1>7 DEF Ordered
<1>9. \A d \in Clients : InLine(got'[d], send'[d], Taken) /\ Len(send'[d]) <= SendCap
  <2> TAKE d \in Clients
  <2>1. InLine(got'[d], send'[d], Taken)
    BY <1>1, <1>5 DEF Ordered
  <2>2. Len(send'[d]) <= SendCap
    BY <1>2, <1>3, <1>4, <1>6, <1>7, CapAssumption DEF Ordered
  <2> QED
    BY <2>1, <2>2
<1>10. run.at # "select" => \A d \in run.todo : InLine(got'[d], send'[d], Taken - 1)
  BY <1>1, <1>5, RunningType DEF Ordered
<1>11. run.at \in {"evict", "resend"} => InLine(got'[run.dst], send'[run.dst], Taken - 1)
  BY <1>1, <1>5, RunningType DEF Ordered
<1>12. run.at = "resend" => HasRoom(run.dst)'
  <2> SUFFICES ASSUME run.at = "resend" PROVE Len(send'[run.dst]) < SendCap
    BY DEF HasRoom
  <2>1. run.dst \in Clients /\ Len(send[run.dst]) < SendCap
    BY RunningType DEF Ordered, HasRoom
  <2> QED
    BY <1>2, <1>3, <1>4, <1>7, <2>1, CapAssumption
<1>13. run.at = "notify" => Newest(got'[run.dst], send'[run.dst], Taken)
  <2> SUFFICES ASSUME run.at = "notify"
               PROVE  Newest(got'[run.dst], send'[run.dst], Taken)
    OBVIOUS
  <2>1. run.dst \in Clients /\ Newest(got[run.dst], send[run.dst], Taken)
    BY RunningType DEF Ordered
  <2>2. CASE run.dst = c
    BY <1>1, <1>2, <1>3, <1>6, <2>1, <2>2, LineTail
  <2>3. CASE run.dst # c
    BY <1>4, <2>1, <2>3
  <2> QED
    BY <2>2, <2>3
<1> QED
  BY <1>1, <1>8, <1>9, <1>10, <1>11, <1>12, <1>13 DEF Ordered

LEMMA OrderedBroadcast ==
  ASSUME Types, Ordered, NEW w \in Workers, Broadcast(w)
  PROVE  Ordered'
<1>0. UNCHANGED <<send, got, run>>
  BY DEF Broadcast, bufferVars, readVars
<1>1. CASE UNCHANGED <<published, broadcast>>
  BY <1>0, <1>1, OrderedQuiet
<1>2. CASE /\ published' = published + 1
           /\ broadcast' = Append(broadcast, Numbered(worker[w], published'))
  <2>1. worker[w] \in Event
    BY DEF Broadcast, Types
  <2>2. Numbered(worker[w], published').n = published + 1
    BY <1>2, <2>1 DEF Numbered, Event
  <2>3. /\ broadcast \in Seq(Event) /\ published \in Nat
        /\ Len(broadcast') = Len(broadcast) + 1
        /\ \A i \in 1..Len(broadcast) : broadcast'[i] = broadcast[i]
        /\ broadcast'[Len(broadcast) + 1].n = published + 1
    BY <1>2, <2>2 DEF Types
  <2>4. Taken' = Taken
    BY <1>2, <2>3 DEF Taken
  <2>5. \A i \in 1..Len(broadcast') : broadcast'[i].n = Taken' + i
    <3> TAKE i \in 1..Len(broadcast')
    <3>1. CASE i = Len(broadcast) + 1
      BY <2>3, <2>4, <3>1 DEF Taken
    <3>2. CASE i # Len(broadcast) + 1
      BY <2>3, <2>4, <3>2 DEF Ordered
    <3> QED
      BY <3>1, <3>2
  <2> QED
    BY <1>0, <2>4, <2>5 DEF Ordered, InLine, Newest, HasRoom
<1> QED
  BY <1>1, <1>2 DEF Broadcast

LEMMA OrderedTaken ==
  ASSUME Types, Ordered, RunBroadcast
  PROVE  Ordered'
<1> DEFINE e == Head(broadcast)
           T == {c \in clients : Wants(c, e)}
<1>1. /\ broadcast \in Seq(Event) /\ broadcast # <<>> /\ published \in Nat
      /\ broadcast' = Tail(broadcast) /\ run' = Offering(e, T)
      /\ UNCHANGED <<published, send, got>>
      /\ T \in SUBSET Clients
  BY DEF RunBroadcast, Types, ingestVars, bufferVars, readVars
<1>2. /\ Len(broadcast') = Len(broadcast) - 1 /\ Len(broadcast) \in Nat \ {0}
      /\ \A i \in 1..Len(broadcast') : broadcast'[i] = broadcast[i + 1]
      /\ e = broadcast[1] /\ e \in Event
  BY <1>1
<1>3. Taken' = Taken + 1 /\ Taken' \in Nat /\ Taken \in Nat
  BY <1>1, <1>2 DEF Taken, Ordered
<1>4. \A i \in 1..Len(broadcast') : broadcast'[i].n = Taken' + i
  <2> TAKE i \in 1..Len(broadcast')
  <2>1. i + 1 \in 1..Len(broadcast) /\ i \in Int
    BY <1>2
  <2>2. broadcast[i + 1].n = Taken + (i + 1)
    BY <2>1 DEF Ordered
  <2> QED
    BY <1>2, <1>3, <2>1, <2>2
<1>5. e.n = Taken'
  BY <1>2, <1>3 DEF Ordered
<1>6. \A c \in Clients :
        /\ InLine(got[c], send[c], Taken' - 1) /\ InLine(got[c], send[c], Taken')
        /\ Len(send[c]) <= SendCap
  <2> TAKE c \in Clients
  <2>1. /\ InLine(got[c], send[c], Taken) /\ Len(send[c]) <= SendCap
        /\ got[c] \in Nat /\ send[c] \in Seq(Delivered)
    BY DEF Ordered, Types
  <2>2. InLine(got[c], send[c], Taken + 1)
    BY <1>3, <2>1, LineLater
  <2>3. Taken' - 1 = Taken
    BY <1>3
  <2> QED
    BY <1>3, <2>1, <2>2, <2>3
<1> HIDE DEF e, T
<1>7. /\ run'.at \in {"select", "offer"}
      /\ run'.at # "select" => run'.evt = e /\ run'.todo = T
  BY <1>1, <1>2, OfferingType, OfferingEvent
<1> QED
  BY <1>1, <1>3, <1>4, <1>5, <1>6, <1>7 DEF Ordered

LEMMA OrderedOffered ==
  ASSUME Types, Ordered, NEW c \in Clients, RunOffer(c)
  PROVE  Ordered'
<1>1. /\ run.at = "offer" /\ c \in run.todo
      /\ run.evt \in Event /\ run.todo \in SUBSET Clients /\ run.evt.n = Taken
      /\ InLine(got[c], send[c], Taken - 1)
      /\ UNCHANGED <<broadcast, published, got>>
  BY RunningType DEF RunOffer, Ordered, channelVars, ingestVars, readVars
<1>2. Taken' = Taken /\ Taken \in Nat
  BY <1>1 DEF Taken, Ordered
<1>3. CASE /\ HasRoom(c) /\ Deliver(c, run.evt)
           /\ run' = Offering(run.evt, run.todo \ {c})
  <2> DEFINE o == OutEvent(c, run.evt)
  <2>1. o \in Delivered /\ o.n = Taken
    BY <1>1, OutEventType DEF OutEvent
  <2>2. /\ send' = [send EXCEPT ![c] = Append(@, o)]
        /\ send[c] \in Seq(Delivered) /\ got[c] \in Nat
        /\ Len(send[c]) < SendCap
    BY <1>3 DEF Deliver, HasRoom, Types, Ordered
  <2> HIDE DEF o
  <2>3. send'[c] = Append(send[c], o) /\ \A d \in Clients \ {c} : send'[d] = send[d]
    BY <2>2 DEF Types
  <2>4. InLine(got[c], send'[c], Taken)
    BY <1>1, <1>2, <2>1, <2>2, <2>3, LineAppended
  <2>5. Len(send'[c]) <= SendCap
    BY <2>1, <2>2, <2>3, CapAssumption
  <2>6. \A d \in Clients : InLine(got[d], send'[d], Taken) /\ Len(send'[d]) <= SendCap
    BY <2>3, <2>4, <2>5 DEF Ordered
  <2>7. \A d \in run.todo \ {c} : InLine(got[d], send'[d], Taken - 1)
    BY <1>1, <2>3 DEF Ordered
  <2>8. /\ run'.at \in {"select", "offer"}
        /\ run'.at # "select" => run'.evt = run.evt /\ run'.todo = run.todo \ {c}
    BY <1>1, <1>3, OfferingType, OfferingEvent
  <2> QED
    BY <1>1, <1>2, <2>6, <2>7, <2>8 DEF Ordered
<1>4. CASE /\ run' = Overflowing("evict", run.evt, run.todo \ {c}, c, 1)
           /\ UNCHANGED send
  BY <1>1, <1>2, <1>4 DEF Ordered, Overflowing
<1> QED
  BY <1>3, <1>4 DEF RunOffer

LEMMA OrderedEvicted ==
  ASSUME Types, Ordered, RunEvict
  PROVE  Ordered'
<1> DEFINE c == run.dst
<1>1. /\ run.at = "evict" /\ c \in Clients /\ c \notin run.todo
      /\ run.todo \in SUBSET Clients /\ run.evt.n = Taken
      /\ InLine(got[c], send[c], Taken) /\ InLine(got[c], send[c], Taken - 1)
      /\ Len(send[c]) <= SendCap
      /\ UNCHANGED <<broadcast, published, got>>
      /\ run' = Overflowing("resend", run.evt, run.todo, c, run.dropped)
  BY RunningType DEF RunEvict, Ordered, channelVars, ingestVars
<1>2. Taken' = Taken /\ Taken \in Nat /\ SendCap \in Nat \ {0}
  BY <1>1, CapAssumption DEF Taken, Ordered
<1>3. /\ run'.at = "resend" /\ run'.evt = run.evt /\ run'.todo = run.todo
      /\ run'.dst = c
  BY <1>1 DEF Overflowing
<1> HIDE DEF c
<1>4. send[c] \in Seq(Delivered) /\ got[c] \in Nat
  BY <1>1 DEF Types, Ordered
<1>5. CASE send[c] # <<>> /\ send' = [send EXCEPT ![c] = Tail(@)]
  <2>1. send'[c] = Tail(send[c]) /\ \A d \in Clients \ {c} : send'[d] = send[d]
    BY <1>1, <1>5 DEF Types
  <2>2. /\ InLine(got[c], send'[c], Taken) /\ InLine(got[c], send'[c], Taken - 1)
        /\ Len(send'[c]) = Len(send[c]) - 1
    <3>1. InLine(got[c], Tail(send[c]), Taken) /\ Len(Tail(send[c])) = Len(send[c]) - 1
      BY <1>1, <1>2, <1>4, <1>5, LineTail
    <3>2. Taken - 1 \in Int
      BY <1>2
    <3>3. InLine(got[c], Tail(send[c]), Taken - 1)
      BY <1>1, <1>4, <1>5, <3>2, LineTail
    <3> QED
      BY <2>1, <3>1, <3>3
  <2>3. Len(send'[c]) < SendCap
    BY <1>1, <1>2, <1>4, <2>2
  <2>4. \A d \in Clients : InLine(got[d], send'[d], Taken) /\ Len(send'[d]) <= SendCap
    <3>1. Len(send'[c]) <= SendCap
      BY <1>2, <1>4, <2>2, <2>3
    <3>2. \A d \in Clients : InLine(got[d], send[d], Taken) /\ Len(send[d]) <= SendCap
      BY DEF Ordered
    <3> QED
      BY <2>1, <2>2, <3>1, <3>2
  <2>5. \A d \in run.todo : InLine(got[d], send'[d], Taken - 1)
    BY <1>1, <2>1 DEF Ordered
  <2> QED
    BY <1>1, <1>2, <1>3, <2>2, <2>3, <2>4, <2>5 DEF Ordered, HasRoom
<1>6. CASE send[c] = <<>> /\ UNCHANGED send
  <2>1. Len(send[c]) < SendCap
    BY <1>2, <1>6
  <2> QED
    BY <1>1, <1>2, <1>3, <1>6, <2>1 DEF Ordered, HasRoom
<1> QED
  BY <1>5, <1>6 DEF RunEvict, Evict, c

LEMMA OrderedResent ==
  ASSUME Types, Ordered, RunResend
  PROVE  Ordered'
<1> DEFINE c == run.dst
           o == OutEvent(c, run.evt)
<1>1. /\ run.at = "resend" /\ c \in Clients /\ c \notin run.todo
      /\ run.todo \in SUBSET Clients /\ run.evt.n = Taken /\ run.evt \in Event
      /\ InLine(got[c], send[c], Taken - 1)
      /\ HasRoom(c)
      /\ UNCHANGED <<broadcast, published, got>>
  BY RunningType DEF RunResend, Ordered, channelVars, ingestVars
<1>2. Taken' = Taken /\ Taken \in Nat
  BY <1>1 DEF Taken, Ordered
<1>3. /\ send' = [send EXCEPT ![c] = Append(@, o)]
      /\ run' = Overflowing("notify", run.evt, run.todo, c, run.dropped)
  BY <1>1 DEF RunResend, Deliver
<1>4. /\ run'.at = "notify" /\ run'.evt = run.evt /\ run'.todo = run.todo
      /\ run'.dst = c
  BY <1>3 DEF Overflowing
<1>5. o \in Delivered /\ o.n = Taken
  BY <1>1, OutEventType DEF OutEvent
<1>6. send[c] \in Seq(Delivered) /\ got[c] \in Nat /\ Len(send[c]) < SendCap
  BY <1>1 DEF Types, Ordered, HasRoom
<1> HIDE DEF c, o
<1>7. send'[c] = Append(send[c], o) /\ \A d \in Clients \ {c} : send'[d] = send[d]
  BY <1>1, <1>3 DEF Types
<1>8. InLine(got[c], send'[c], Taken) /\ Newest(got[c], send'[c], Taken)
  BY <1>1, <1>2, <1>5, <1>6, <1>7, LineAppended
<1>9. Len(send'[c]) <= SendCap
  BY <1>5, <1>6, <1>7, CapAssumption
<1>10. \A d \in Clients : InLine(got[d], send'[d], Taken) /\ Len(send'[d]) <= SendCap
  BY <1>7, <1>8, <1>9 DEF Ordered
<1>11. \A d \in run.todo : InLine(got[d], send'[d], Taken - 1)
  BY <1>1, <1>7 DEF Ordered
<1> QED
  BY <1>1, <1>2, <1>4, <1>8, <1>10, <1>11 DEF Ordered

LEMMA OrderedNotified ==
  ASSUME Types, Ordered, RunNotify
  PROVE  Ordered'
<1>1. /\ run.evt \in Event /\ run.todo \in SUBSET Clients /\ run.at # "select"
      /\ UNCHANGED <<broadcast, published, send, got>>
      /\ run' = Offering(run.evt, run.todo)
  BY RunningType DEF RunNotify, channelVars, ingestVars, readVars
<1>2. Taken' = Taken
  BY <1>1 DEF Taken
<1>3. /\ run'.at \in {"select", "offer"}
      /\ run'.at # "select" => run'.evt = run.evt /\ run'.todo = run.todo
  BY <1>1, OfferingType, OfferingEvent
<1> QED
  BY <1>1, <1>2, <1>3 DEF Ordered

LEMMA OrderedNext ==
  ASSUME Types, Ordered, [Next]_vars
  PROVE  Ordered'
<1>1. ASSUME NEW c \in Clients, Handler(c)
      PROVE  Ordered'
  BY <1>1, OrderedQuiet
     DEF Handler, NewClient, HelloSent, Disconnect, ReadSubscribe, ReadUnsubscribe,
         ReadConfigure, ReadMessage, SendSubscribe, RemoveScope, Remove, channelVars,
         bufferVars, ingestVars, readVars
<1>2. ASSUME NEW c \in Clients, Pump(c)
      PROVE  Ordered'
  <2>1. CASE PumpEvent(c)
    BY <2>1, OrderedPumped DEF PumpEvent, channelVars, ingestVars
  <2>2. CASE PumpNotice(c)
    BY <2>2, OrderedQuiet DEF PumpNotice, channelVars, ingestVars
  <2>3. CASE PumpWriteFails(c)
    BY <2>3, OrderedPumped, OrderedQuiet DEF PumpWriteFails, channelVars, ingestVars
  <2>4. CASE PumpExits(c)
    BY <2>4, OrderedQuiet DEF PumpExits, channelVars, bufferVars, ingestVars, readVars
  <2> QED
    BY <1>2, <2>1, <2>2, <2>3, <2>4 DEF Pump
<1>3. ASSUME NEW w \in Workers, Ingest(w)
      PROVE  Ordered'
  BY <1>3, OrderedQuiet, OrderedBroadcast
     DEF Ingest, BuildObservation, BroadcastRepeat, channelVars, bufferVars, readVars
<1>4. CASE RunSubscribe \/ RunUnsubscribe \/ RunRemove
  BY <1>4, OrderedQuiet
     DEF RunSubscribe, RunUnsubscribe, RunRemove, bufferVars, ingestVars, readVars
<1>5. CASE UNCHANGED vars
  BY <1>5, OrderedQuiet DEF vars, channelVars, bufferVars, ingestVars, readVars
<1> QED
  BY <1>1, <1>2, <1>3, <1>4, <1>5, OrderedTaken, OrderedOffered, OrderedEvicted,
     OrderedResent, OrderedNotified DEF Next, Run, FanOut

-----------------------------------------------------------------------------
(* The observer key.                                                       *)

(* An event built while some client wanted the key carries both variants   *)
(* that have it, until it is in the last buffer.                           *)
KeyVariants(e) == e.keyed # {} => {"withKey", "resolvedWithKey"} \subseteq e.variants
KeysReady ==
  /\ \A w \in Workers : worker[w] # NoEvent => KeyVariants(worker[w])
  /\ \A i \in 1..Len(broadcast) : KeyVariants(broadcast[i])
  /\ run.at # "select" => KeyVariants(run.evt)
Keys == KeysReady /\ KeyReachesOptedIn

LEMMA KeysInit == Init => Keys
BY DEF Init, Idle, Keys, KeysReady, KeyReachesOptedIn

LEMMA KeysQuiet ==
  ASSUME Keys, UNCHANGED <<worker, broadcast, run, send>>
  PROVE  Keys'
BY DEF Keys, KeysReady, KeyReachesOptedIn

LEMMA OwedGetsKey ==
  ASSUME Types, NEW c \in Clients, NEW e \in Event, KeyVariants(e), OutEvent(c, e).owed
  PROVE  OutEvent(c, e).payload \in {"withKey", "resolvedWithKey"}
<1>1. c \in e.keyed /\ options[c].IncludeObserverKey
  BY DEF OutEvent
<1>2. "withKey" \in e.variants /\ "resolvedWithKey" \in e.variants
  BY <1>1 DEF KeyVariants
<1>3. options[c].ResolvePath \in BOOLEAN
  BY DEF Types, AllOptions
<1>4. payloadFor(e, options[c]) \in {"withKey", "resolvedWithKey"}
  BY <1>1, <1>2, <1>3 DEF payloadFor
<1> QED
  BY <1>4 DEF OutEvent

(* Whatever Run puts into a client's buffer is made from its event.        *)
LEMMA KeysDelivered ==
  ASSUME Types, Keys, NEW c \in Clients, run.at # "select",
         send' = [send EXCEPT ![c] = Append(@, OutEvent(c, run.evt))]
  PROVE  KeyReachesOptedIn'
<1> DEFINE o == OutEvent(c, run.evt)
<1>1. run.evt \in Event /\ KeyVariants(run.evt)
  BY RunningType DEF Keys, KeysReady
<1>2. o \in Delivered /\ (o.owed => o.payload \in {"withKey", "resolvedWithKey"})
  BY <1>1, OutEventType, OwedGetsKey
<1> HIDE DEF o
<1>3. /\ send[c] \in Seq(Delivered)
      /\ send'[c] = Append(send[c], o) /\ \A d \in Clients \ {c} : send'[d] = send[d]
  BY DEF Types, o
<1>4. /\ DOMAIN send'[c] = 1..(Len(send[c]) + 1) /\ DOMAIN send[c] = 1..Len(send[c])
      /\ \A i \in 1..Len(send[c]) : send'[c][i] = send[c][i]
      /\ send'[c][Len(send[c]) + 1] = o
  BY <1>2, <1>3
<1>5. \A d \in Clients : \A i \in DOMAIN send[d] :
        send[d][i].owed => send[d][i].payload \in {"withKey", "resolvedWithKey"}
  BY DEF Keys, KeyReachesOptedIn
<1>6. \A i \in DOMAIN send'[c] :
        send'[c][i].owed => send'[c][i].payload \in {"withKey", "resolvedWithKey"}
  <2> TAKE i \in DOMAIN send'[c]
  <2>1. CASE i = Len(send[c]) + 1
    BY <1>2, <1>4, <2>1
  <2>2. CASE i # Len(send[c]) + 1
    <3>1. i \in DOMAIN send[c] /\ send'[c][i] = send[c][i]
      BY <1>3, <1>4, <2>2
    <3> QED
      BY <1>5, <3>1
  <2> QED
    BY <2>1, <2>2
<1> QED
  BY <1>3, <1>5, <1>6 DEF KeyReachesOptedIn

LEMMA KeysTail ==
  ASSUME Types, Keys, NEW c \in Clients, send[c] # <<>>,
         send' = [send EXCEPT ![c] = Tail(@)]
  PROVE  KeyReachesOptedIn'
<1>1. /\ send[c] \in Seq(Delivered)
      /\ send'[c] = Tail(send[c]) /\ \A d \in Clients \ {c} : send'[d] = send[d]
  BY DEF Types
<1>2. /\ Len(Tail(send[c])) = Len(send[c]) - 1 /\ Len(send[c]) \in Nat
      /\ DOMAIN Tail(send[c]) = 1..Len(Tail(send[c])) /\ DOMAIN send[c] = 1..Len(send[c])
      /\ \A i \in 1..Len(Tail(send[c])) : Tail(send[c])[i] = send[c][i + 1]
  BY <1>1
<1>3. \A i \in DOMAIN send'[c] : i + 1 \in DOMAIN send[c] /\ send'[c][i] = send[c][i + 1]
  <2> TAKE i \in DOMAIN send'[c]
  <2>1. i \in 1..Len(Tail(send[c]))
    BY <1>1, <1>2
  <2>2. i + 1 \in 1..Len(send[c])
    BY <1>2, <2>1
  <2> QED
    BY <1>1, <1>2, <2>1, <2>2
<1> QED
  BY <1>1, <1>3 DEF Keys, KeyReachesOptedIn

LEMMA KeysNext ==
  ASSUME Types, Counts, Keys, [Next]_vars
  PROVE  Keys'
<1>1. ASSUME NEW c \in Clients, Handler(c)
      PROVE  Keys'
  BY <1>1, KeysQuiet
     DEF Handler, NewClient, HelloSent, Disconnect, ReadSubscribe, ReadUnsubscribe,
         ReadConfigure, ReadMessage, SendSubscribe, RemoveScope, Remove, channelVars,
         bufferVars, ingestVars, readVars
<1>2. ASSUME NEW c \in Clients, Pump(c)
      PROVE  Keys'
  <2>1. CASE send[c] # <<>> /\ send' = [send EXCEPT ![c] = Tail(@)]
               /\ UNCHANGED <<worker, broadcast, run>>
    BY <2>1, KeysTail DEF Keys, KeysReady
  <2>2. CASE UNCHANGED <<worker, broadcast, run, send>>
    BY <2>2, KeysQuiet
  <2> QED
    BY <1>2, <2>1, <2>2 DEF Pump, PumpEvent, PumpNotice, PumpWriteFails, PumpExits,
       channelVars, bufferVars, ingestVars
<1>3. ASSUME NEW w \in Workers, BuildObservation(w)
      PROVE  Keys'
  <2>1. PICK k \in Kinds, repeat \in BOOLEAN :
          worker' = [worker EXCEPT ![w] =
            [kind |-> k, Repeat |-> repeat, n |-> 0, checked |-> ~repeat,
             variants |-> {"resolved"} \cup IF ObserverKeyWanted
                                            THEN {"withKey", "resolvedWithKey"}
                                            ELSE {},
             keyed |-> {c \in clients : options[c].IncludeObserverKey}]]
    BY <1>3 DEF BuildObservation
  <2>2. Counted # {} => ObserverKeyWanted
    <3>1. Cardinality(Counted) \in Nat /\ (Counted # {} => Cardinality(Counted) # 0)
      BY FiniteCounted, FS_CardinalityType, FS_EmptySet
    <3> QED
      BY <3>1 DEF Counts, ObserverKeyWanted
  <2>3. worker'[w].keyed = Counted
          /\ (ObserverKeyWanted => {"withKey", "resolvedWithKey"} \subseteq worker'[w].variants)
    BY <2>1 DEF Types, Counted
  <2>4. KeyVariants(worker'[w])
    BY <2>2, <2>3 DEF KeyVariants
  <2>5. \A v \in Workers \ {w} : worker'[v] = worker[v]
    BY <2>1 DEF Types
  <2> QED
    BY <1>3, <2>4, <2>5
       DEF BuildObservation, Keys, KeysReady, KeyReachesOptedIn, channelVars, bufferVars
<1>4. ASSUME NEW w \in Workers, BroadcastRepeat(w)
      PROVE  Keys'
  <2>1. worker[w] \in Event /\ KeyVariants(worker[w])
    BY <1>4 DEF BroadcastRepeat, Types, Keys, KeysReady
  <2>2. KeyVariants(Checked(worker[w]))
    BY <2>1 DEF KeyVariants, Checked, Event
  <2>3. /\ worker'[w] \in {NoEvent, Checked(worker[w])}
        /\ \A v \in Workers \ {w} : worker'[v] = worker[v]
    BY <1>4 DEF BroadcastRepeat, Types
  <2>4. \A v \in Workers : worker'[v] # NoEvent => KeyVariants(worker'[v])
    BY <2>2, <2>3 DEF Keys, KeysReady
  <2> QED
    BY <1>4, <2>4
       DEF BroadcastRepeat, Keys, KeysReady, KeyReachesOptedIn, channelVars, bufferVars
<1>5. ASSUME NEW w \in Workers, Broadcast(w)
      PROVE  Keys'
  <2>1. worker[w] \in Event /\ KeyVariants(worker[w])
    BY <1>5 DEF Broadcast, Types, Keys, KeysReady
  <2>2. \A v \in Workers : worker'[v] # NoEvent => KeyVariants(worker'[v])
    BY <1>5 DEF Broadcast, Types, Keys, KeysReady
  <2>3. \A i \in 1..Len(broadcast') : KeyVariants(broadcast'[i])
    <3>1. CASE /\ published' = published + 1
               /\ broadcast' = Append(broadcast, Numbered(worker[w], published'))
      <4> DEFINE e == Numbered(worker[w], published')
      <4>1. e \in Event /\ KeyVariants(e)
        <5>1. e \in Event
          BY <2>1, <3>1, NumberedType DEF Types
        <5>2. e.keyed = worker[w].keyed /\ e.variants = worker[w].variants
          BY <2>1 DEF Numbered, Event
        <5> QED
          BY <2>1, <5>1, <5>2 DEF KeyVariants
      <4> HIDE DEF e
      <4>2. /\ Len(broadcast') = Len(broadcast) + 1 /\ Len(broadcast) \in Nat
            /\ \A i \in 1..Len(broadcast) : broadcast'[i] = broadcast[i]
            /\ broadcast'[Len(broadcast) + 1] = e
        BY <3>1, <4>1 DEF Types, e
      <4>3. \A i \in 1..Len(broadcast) : KeyVariants(broadcast[i])
        BY DEF Keys, KeysReady
      <4>4. \A i \in 1..Len(broadcast') : i \in 1..Len(broadcast) \/ i = Len(broadcast) + 1
        BY <4>2
      <4> QED
        BY <4>1, <4>2, <4>3, <4>4
    <3>2. CASE UNCHANGED <<published, broadcast>>
      BY <3>2 DEF Keys, KeysReady
    <3> QED
      BY <1>5, <3>1, <3>2 DEF Broadcast
  <2> QED
    BY <1>5, <2>2, <2>3 DEF Broadcast, Keys, KeysReady, KeyReachesOptedIn, bufferVars
<1>6. CASE RunSubscribe \/ RunUnsubscribe \/ RunRemove
  BY <1>6, KeysQuiet
     DEF RunSubscribe, RunUnsubscribe, RunRemove, bufferVars, ingestVars, readVars
<1>7. CASE RunBroadcast
  <2>1. /\ Head(broadcast) = broadcast[1] /\ broadcast' = Tail(broadcast)
        /\ \A i \in 1..Len(broadcast') :
             broadcast'[i] = broadcast[i + 1] /\ i + 1 \in 1..Len(broadcast)
        /\ 1 \in 1..Len(broadcast)
    BY <1>7 DEF RunBroadcast, Types
  <2>2. KeyVariants(Head(broadcast))
    BY <2>1 DEF Keys, KeysReady
  <2>3. run'.at # "select" => run'.evt = Head(broadcast)
    BY <1>7, OfferingEvent DEF RunBroadcast
  <2> QED
    BY <1>7, <2>1, <2>2, <2>3
       DEF RunBroadcast, Keys, KeysReady, KeyReachesOptedIn, ingestVars, bufferVars
<1>8. CASE FanOut
  <2>1. /\ UNCHANGED <<broadcast, worker>>
        /\ run.at # "select"
        /\ run'.at # "select" => run'.evt = run.evt
    <3>1. UNCHANGED <<broadcast, worker>> /\ run.at # "select"
      BY <1>8 DEF FanOut, RunOffer, RunEvict, RunResend, RunNotify, channelVars, ingestVars
    <3>2. \/ \E T : run' = Offering(run.evt, T)
          \/ \E a, T, d, n : run' = Overflowing(a, run.evt, T, d, n)
      BY <1>8 DEF FanOut, RunOffer, RunEvict, RunResend, RunNotify
    <3>3. run'.at # "select" => run'.evt = run.evt
      BY <3>2, OfferingEvent DEF Overflowing
    <3> QED
      BY <3>1, <3>3
  <2>2. KeysReady'
    BY <2>1 DEF Keys, KeysReady
  <2>3. KeyReachesOptedIn'
    <3>1. CASE \E c \in Clients :
                 send' = [send EXCEPT ![c] = Append(@, OutEvent(c, run.evt))]
      BY <2>1, <3>1, KeysDelivered
    <3>2. CASE \E c \in Clients : send[c] # <<>> /\ send' = [send EXCEPT ![c] = Tail(@)]
      BY <3>2, KeysTail
    <3>3. CASE UNCHANGED send
      BY <3>3 DEF Keys, KeyReachesOptedIn
    <3> QED
      BY <1>8, <3>1, <3>2, <3>3, RunningType
         DEF FanOut, RunOffer, RunEvict, RunResend, RunNotify, Deliver, Evict
  <2> QED
    BY <2>2, <2>3 DEF Keys
<1>9. CASE UNCHANGED vars
  BY <1>9, KeysQuiet DEF vars, channelVars, bufferVars, ingestVars
<1> QED
  BY <1>1, <1>2, <1>3, <1>4, <1>5, <1>6, <1>7, <1>8, <1>9 DEF Next, Ingest, Run

-----------------------------------------------------------------------------
(* Losses.                                                                 *)

(* A client gets no events before its pump runs: it has no scopes yet, and *)
(* none on the way.  So it cannot miss one either.                         *)
BeforeHello ==
  /\ DOMAIN subscriptions = Clients /\ missed \subseteq Clients
  /\ \A c \in Clients :
       /\ phase[c] = "request" => request[c].client = c
       /\ phase[c] \in {"idle", "hello"} =>
            /\ DOMAIN subscriptions[c] = {}
            /\ \A i \in 1..Len(subscribe) :
                 subscribe[i].kind = "scope" => subscribe[i].client # c
            /\ run.at # "select" => c \notin run.todo
            /\ run.at \in {"evict", "resend", "notify"} => c # run.dst
            /\ c \notin missed
Losses == BeforeHello /\ LossAnnounced

LEMMA LossesInit == Init => Losses
BY DEF Init, Idle, Losses, BeforeHello, LossAnnounced

LEMMA LossesQuiet ==
  ASSUME Losses, UNCHANGED <<subscriptions, phase, request, subscribe, run, missed,
                             laggedCH, pumping>>
  PROVE  Losses'
BY DEF Losses, BeforeHello, LossAnnounced

LEMMA LossesHandler ==
  ASSUME Types, Losses, NEW c \in Clients, Handler(c)
  PROVE  Losses'
<1>1. UNCHANGED <<subscriptions, run, missed, laggedCH>>
  BY DEF Handler, NewClient, HelloSent, Disconnect, ReadSubscribe, ReadUnsubscribe,
         ReadConfigure, ReadMessage, SendSubscribe, RemoveScope, Remove, clientVars,
         bufferVars, readVars
<1>2. \A d \in Clients : phase'[d] \in {"idle", "hello"} => phase[d] \in {"idle", "hello"}
  BY DEF Handler, NewClient, HelloSent, Disconnect, ReadSubscribe, ReadUnsubscribe,
         ReadConfigure, ReadMessage, SendSubscribe, RemoveScope, Remove, Types
<1>3. \A d \in Clients : phase'[d] = "request" => request'[d].client = d
  <2>1. CASE ReadSubscribe(c) \/ ReadUnsubscribe(c) \/ ReadConfigure(c)
    <3>1. ASSUME NEW m, ReadMessage(c, m), m.client = c
          PROVE  \A d \in Clients : phase'[d] = "request" => request'[d].client = d
      BY <3>1 DEF ReadMessage, Types, Losses, BeforeHello
    <3>2. CASE ReadSubscribe(c)
      <4>1. PICK id \in SubIDs, s \in Scopes :
              ReadMessage(c, [kind |-> "scope", client |-> c, id |-> id, scope |-> s])
        BY <3>2 DEF ReadSubscribe
      <4> QED
        BY <3>1, <4>1
    <3>3. CASE ReadUnsubscribe(c)
      <4>1. PICK id \in issued[c] :
              ReadMessage(c, [kind |-> "unsubscribe", client |-> c, id |-> id])
        BY <3>3 DEF ReadUnsubscribe
      <4> QED
        BY <3>1, <4>1
    <3>4. CASE ReadConfigure(c)
      <4>1. PICK o \in Options :
              ReadMessage(c, [kind |-> "configure", client |-> c, options |-> o])
        BY <3>4 DEF ReadConfigure
      <4> QED
        BY <3>1, <4>1
    <3> QED
      BY <2>1, <3>2, <3>3, <3>4
  <2>2. CASE NewClient(c) \/ HelloSent(c) \/ Disconnect(c) \/ Remove(c)
    BY <2>2 DEF NewClient, HelloSent, Disconnect, Remove, Types, Losses, BeforeHello
  <2>3. CASE SendSubscribe(c) \/ RemoveScope(c)
    BY <2>3 DEF SendSubscribe, RemoveScope, Types, Losses, BeforeHello
  <2> QED
    BY <2>1, <2>2, <2>3 DEF Handler
<1>4. ASSUME NEW d \in Clients, phase'[d] \in {"idle", "hello"},
             NEW i \in 1..Len(subscribe'), subscribe'[i].kind = "scope"
      PROVE  subscribe'[i].client # d
  <2>1. \A j \in 1..Len(subscribe) :
          subscribe[j].kind = "scope" => subscribe[j].client # d
    BY <1>2, <1>4 DEF Losses, BeforeHello
  <2>2. CASE UNCHANGED subscribe
    BY <1>4, <2>1, <2>2
  <2>3. CASE NewClient(c)
    <3> DEFINE m == [kind |-> "register", client |-> c]
    <3>1. m \in SubscribeMsg /\ m.kind # "scope"
      BY DEF SubscribeMsg
    <3> HIDE DEF m
    <3>2. subscribe' = Append(subscribe, m) /\ subscribe \in Seq(SubscribeMsg)
      BY <2>3 DEF NewClient, Types, m
    <3> QED
      BY <1>4, <2>1, <3>1, <3>2
  <2>4. CASE SendSubscribe(c)
    <3>1. /\ request[c] \in SubscribeMsg /\ request[c].client = c /\ c # d
          /\ subscribe' = Append(subscribe, request[c]) /\ subscribe \in Seq(SubscribeMsg)
      BY <1>2, <1>4, <2>4 DEF SendSubscribe, Types, UnsubscribeMsg, Losses, BeforeHello
    <3> QED
      BY <1>4, <2>1, <3>1
  <2> QED
    BY <2>2, <2>3, <2>4
       DEF Handler, HelloSent, Disconnect, ReadSubscribe, ReadUnsubscribe,
           ReadConfigure, ReadMessage, RemoveScope, Remove, channelVars
<1>5. BeforeHello'
  BY <1>1, <1>2, <1>3, <1>4 DEF Losses, BeforeHello
<1>6. LossAnnounced'
  <2>1. CASE HelloSent(c)
    <3>1. c \notin missed /\ pumping' = pumping \cup {c}
      BY <2>1 DEF HelloSent, Losses, BeforeHello
    <3> QED
      BY <1>1, <3>1 DEF Losses, LossAnnounced
  <2>2. CASE UNCHANGED pumping
    BY <1>1, <2>2 DEF Losses, LossAnnounced
  <2> QED
    BY <2>1, <2>2
       DEF Handler, NewClient, Disconnect, ReadSubscribe, ReadUnsubscribe,
           ReadConfigure, ReadMessage, SendSubscribe, RemoveScope, Remove
<1> QED
  BY <1>5, <1>6 DEF Losses

LEMMA LossesPump ==
  ASSUME Types, Losses, NEW c \in Clients, Pump(c)
  PROVE  Losses'
<1>1. /\ UNCHANGED <<subscriptions, phase, request, subscribe, run>>
      /\ missed' \subseteq missed /\ pumping' \subseteq pumping
  BY DEF Pump, PumpEvent, PumpNotice, PumpWriteFails, PumpExits, channelVars, clientVars,
         handlerVars, readVars
<1>2. BeforeHello'
  BY <1>1 DEF Losses, BeforeHello
<1>3. \A d \in Clients \ {c} : laggedCH'[d] = laggedCH[d]
  BY DEF Pump, PumpEvent, PumpNotice, PumpWriteFails, PumpExits, bufferVars, Types
<1>4. laggedCH'[c] = laggedCH[c] \/ c \notin missed' \/ c \notin pumping'
  BY DEF Pump, PumpEvent, PumpNotice, PumpWriteFails, PumpExits, bufferVars, Types
<1>5. LossAnnounced'
  BY <1>1, <1>3, <1>4 DEF Losses, BeforeHello, LossAnnounced
<1> QED
  BY <1>2, <1>5 DEF Losses

LEMMA LossesSubscriptions ==
  ASSUME Types, Losses, RunSubscribe \/ RunUnsubscribe
  PROVE  Losses'
<1>1. UNCHANGED <<phase, request, run, missed, laggedCH, pumping>>
  BY DEF RunSubscribe, RunUnsubscribe, bufferVars, handlerVars, readVars
<1>2. ASSUME NEW c \in Clients, phase[c] \in {"idle", "hello"},
             NEW i \in 1..Len(subscribe'), subscribe'[i].kind = "scope"
      PROVE  subscribe'[i].client # c
  <2>1. CASE RunUnsubscribe
    BY <1>2, <2>1 DEF RunUnsubscribe, Losses, BeforeHello
  <2>2. CASE RunSubscribe
    <3>1. /\ subscribe \in Seq(SubscribeMsg) /\ subscribe # <<>>
          /\ subscribe' = Tail(subscribe)
      BY <2>2 DEF RunSubscribe, Types
    <3>2. subscribe'[i] = subscribe[i + 1] /\ i + 1 \in 1..Len(subscribe)
      BY <1>2, <3>1
    <3> QED
      BY <1>2, <3>2 DEF Losses, BeforeHello
  <2> QED
    BY <2>1, <2>2
<1>3. /\ DOMAIN subscriptions' = Clients
      /\ \A c \in Clients : phase[c] \in {"idle", "hello"} => DOMAIN subscriptions'[c] = {}
  <2>0. /\ DOMAIN subscriptions = Clients
        /\ \A c \in Clients : phase[c] \in {"idle", "hello"} => DOMAIN subscriptions[c] = {}
    BY DEF Losses, BeforeHello
  <2>1. CASE RunSubscribe
    <3> DEFINE m == Head(subscribe)
    <3>1. m = subscribe[1] /\ m \in SubscribeMsg /\ 1 \in 1..Len(subscribe)
      BY <2>1 DEF RunSubscribe, Types
    <3>2. m.kind = "scope" => m.client \in Clients /\ phase[m.client] \notin {"idle", "hello"}
      BY <3>1 DEF SubscribeMsg, Losses, BeforeHello
    <3> HIDE DEF m
    <3>3. \/ UNCHANGED subscriptions
          \/ /\ m.kind = "scope"
             /\ subscriptions' = [subscriptions EXCEPT ![m.client] = Put(@, m.id, m.scope)]
      BY <2>1 DEF RunSubscribe, RunRegister, RunConfigure, RunAddScope, m
    <3> QED
      BY <2>0, <3>2, <3>3
  <2>2. CASE RunUnsubscribe
    <3> DEFINE m == Head(unsubscribe)
    <3>1. \/ UNCHANGED subscriptions
          \/ subscriptions' = [subscriptions EXCEPT ![m.client] =
                                 [id \in DOMAIN @ \ {m.id} |-> @[id]]]
      BY <2>2 DEF RunUnsubscribe
    <3> HIDE DEF m
    <3>2. CASE UNCHANGED subscriptions
      BY <2>0, <3>2
    <3>3. CASE subscriptions' = [subscriptions EXCEPT ![m.client] =
                                   [id \in DOMAIN @ \ {m.id} |-> @[id]]]
      <4>1. DOMAIN subscriptions' = Clients
        BY <2>0, <3>3
      <4>2. \A c \in Clients : DOMAIN subscriptions'[c] \subseteq DOMAIN subscriptions[c]
        BY <2>0, <3>3
      <4> QED
        BY <2>0, <4>1, <4>2
    <3> QED
      BY <3>1, <3>2, <3>3
  <2> QED
    BY <2>1, <2>2
<1>4. BeforeHello'
  BY <1>1, <1>2, <1>3 DEF Losses, BeforeHello
<1>5. LossAnnounced'
  BY <1>1 DEF Losses, LossAnnounced
<1> QED
  BY <1>4, <1>5 DEF Losses

LEMMA LossesRun ==
  ASSUME Types, Losses, RunBroadcast \/ FanOut
  PROVE  Losses'
<1>1. UNCHANGED <<subscriptions, phase, request, subscribe, pumping>>
  BY DEF RunBroadcast, FanOut, RunOffer, RunEvict, RunResend, RunNotify, channelVars,
         clientVars, handlerVars
<1>2. CASE RunBroadcast
  <2> DEFINE e == Head(broadcast)
             T == {c \in clients : Wants(c, e)}
  <2>1. run' = Offering(e, T) /\ UNCHANGED <<missed, laggedCH>> /\ run.at = "select"
    BY <1>2 DEF RunBroadcast, readVars, bufferVars
  <2>2. \A c \in T : DOMAIN subscriptions[c] # {}
    BY DEF Wants, matches
  <2>3. e \in Event /\ T \in SUBSET Clients
    BY <1>2 DEF RunBroadcast, Types
  <2> HIDE DEF e, T
  <2>4. /\ run'.at \in {"select", "offer"}
        /\ run'.at # "select" => run'.todo = T
    BY <2>1, <2>3, OfferingType
  <2> QED
    BY <1>1, <2>1, <2>2, <2>4 DEF Losses, BeforeHello, LossAnnounced
<1>3. ASSUME NEW c \in Clients, RunOffer(c)
      PROVE  Losses'
  <2>1. /\ run.at = "offer" /\ c \in run.todo
        /\ run.evt \in Event /\ run.todo \in SUBSET Clients
        /\ UNCHANGED <<missed, laggedCH>>
    BY <1>3, RunningType DEF RunOffer, readVars
  <2>2. \/ run' = Offering(run.evt, run.todo \ {c})
        \/ run' = Overflowing("evict", run.evt, run.todo \ {c}, c, 1)
    BY <1>3 DEF RunOffer
  <2>3. /\ run'.at \in {"select", "offer", "evict"}
        /\ run'.at # "select" => run'.todo = run.todo \ {c}
        /\ run'.at = "evict" => run'.dst = c
    <3>1. CASE run' = Offering(run.evt, run.todo \ {c})
      BY <2>1, <3>1, OfferingType
    <3>2. CASE run' = Overflowing("evict", run.evt, run.todo \ {c}, c, 1)
      BY <3>2 DEF Overflowing
    <3> QED
      BY <2>2, <3>1, <3>2
  <2> QED
    BY <1>1, <2>1, <2>3 DEF Losses, BeforeHello, LossAnnounced
<1>4. ASSUME RunEvict \/ RunResend
      PROVE  Losses'
  <2>1. /\ run.at \in {"evict", "resend"} /\ run.dst \in Clients
        /\ run'.at \in {"resend", "notify"} /\ run'.dst = run.dst /\ run'.todo = run.todo
        /\ UNCHANGED laggedCH
    BY <1>4, RunningType DEF RunEvict, RunResend, Overflowing
  <2>2. missed' \in {missed, missed \cup {run.dst}}
    BY <1>4 DEF RunEvict, RunResend
  <2> QED
    BY <1>1, <2>1, <2>2 DEF Losses, BeforeHello, LossAnnounced
<1>5. CASE RunNotify
  <2>0. run.dropped \in Nat
    BY <1>5 DEF RunNotify, Types, RunState, Idle
  <2>1. /\ run.at = "notify" /\ run.dst \in Clients /\ run.dropped \in Nat
        /\ run.evt \in Event /\ run.todo \in SUBSET Clients
        /\ run' = Offering(run.evt, run.todo) /\ UNCHANGED missed
        /\ laggedCH' = [laggedCH EXCEPT ![run.dst] = Notify(@)]
    BY <1>5, <2>0, RunningType DEF RunNotify, readVars
  <2>2. /\ run'.at \in {"select", "offer"}
        /\ run'.at # "select" => run'.todo = run.todo
    BY <2>1, OfferingType
  <2>3. laggedCH'[run.dst] # <<>>
    <3>1. laggedCH[run.dst] \in Seq(Nat) /\ laggedCH'[run.dst] = Notify(laggedCH[run.dst])
      BY <2>1 DEF Types
    <3>2. LaggedCap \in Nat \ {0}
      BY CapAssumption
    <3>3. CASE Len(laggedCH[run.dst]) < LaggedCap
      BY <2>1, <3>1, <3>3 DEF Notify
    <3>4. CASE ~ (Len(laggedCH[run.dst]) < LaggedCap)
      BY <3>1, <3>2, <3>4 DEF Notify
    <3> QED
      BY <3>3, <3>4
  <2>4. \A d \in Clients \ {run.dst} : laggedCH'[d] = laggedCH[d]
    BY <2>1 DEF Types
  <2> QED
    BY <1>1, <2>1, <2>2, <2>3, <2>4 DEF Losses, BeforeHello, LossAnnounced
<1> QED
  BY <1>2, <1>3, <1>4, <1>5 DEF FanOut

LEMMA LossesNext ==
  ASSUME Types, Losses, [Next]_vars
  PROVE  Losses'
<1>1. ASSUME NEW w \in Workers, Ingest(w)
      PROVE  Losses'
  BY <1>1, LossesQuiet
     DEF Ingest, BuildObservation, BroadcastRepeat, Broadcast, channelVars, clientVars,
         bufferVars, handlerVars, readVars
<1>2. CASE RunRemove
  BY <1>2, LossesQuiet DEF RunRemove, bufferVars, handlerVars, readVars
<1>3. CASE UNCHANGED vars
  BY <1>3, LossesQuiet DEF vars, channelVars, clientVars, bufferVars, handlerVars, readVars
<1> QED
  BY <1>1, <1>2, <1>3, LossesHandler, LossesPump, LossesSubscriptions, LossesRun
     DEF Next, Run

-----------------------------------------------------------------------------
(* Repeats.                                                                *)

(* The repeats in the channel, and those that looked at its length and are *)
(* sure to be sent; each of the latter belongs to a worker of its own.     *)
QueuedRepeats == {i \in DOMAIN broadcast : broadcast[i].Repeat}
PassedRepeats ==
  {w \in Workers : worker[w] # NoEvent /\ worker[w].checked /\ worker[w].Repeat}
RepeatsBounded ==
  Cardinality(QueuedRepeats) + Cardinality(PassedRepeats)
    <= (BroadcastCap \div 2) + Cardinality(Workers) - 1

LEMMA FiniteRepeats ==
  ASSUME Types
  PROVE  /\ IsFiniteSet(QueuedRepeats) /\ Cardinality(QueuedRepeats) \in Nat
         /\ Cardinality(QueuedRepeats) <= Len(broadcast)
         /\ IsFiniteSet(PassedRepeats) /\ Cardinality(PassedRepeats) \in Nat
         /\ Cardinality(PassedRepeats) <= Cardinality(Workers)
         /\ Cardinality(Workers) \in Nat
<1>1. /\ DOMAIN broadcast = 1..Len(broadcast) /\ Len(broadcast) \in Nat
      /\ QueuedRepeats \subseteq 1..Len(broadcast)
  BY DEF Types, QueuedRepeats
<1>2. IsFiniteSet(1..Len(broadcast)) /\ Cardinality(1..Len(broadcast)) = Len(broadcast)
  <2>1. /\ IsFiniteSet(1..Len(broadcast))
        /\ Cardinality(1..Len(broadcast)) =
             IF 1 > Len(broadcast) THEN 0 ELSE Len(broadcast) - 1 + 1
    BY <1>1, FS_Interval
  <2> QED
    BY <1>1, <2>1
<1>3. PassedRepeats \subseteq Workers /\ IsFiniteSet(Workers)
  BY CapAssumption DEF PassedRepeats
<1>4. IsFiniteSet(QueuedRepeats) /\ Cardinality(QueuedRepeats) <= Len(broadcast)
  <2> DEFINE D == 1..Len(broadcast)
  <2>1. QueuedRepeats \in SUBSET D /\ IsFiniteSet(D)
    BY <1>1, <1>2
  <2> HIDE DEF D
  <2>2. IsFiniteSet(QueuedRepeats) /\ Cardinality(QueuedRepeats) <= Cardinality(D)
    BY <2>1, FS_Subset
  <2> QED
    BY <1>2, <2>2 DEF D
<1>5. IsFiniteSet(PassedRepeats) /\ Cardinality(PassedRepeats) <= Cardinality(Workers)
  BY <1>3, FS_Subset
<1> QED
  BY <1>3, <1>4, <1>5, FS_CardinalityType

LEMMA RepeatsInit == Init => RepeatsBounded
<1> SUFFICES ASSUME Init PROVE RepeatsBounded
  OBVIOUS
<1>1. QueuedRepeats = {} /\ PassedRepeats = {}
  BY DEF Init, QueuedRepeats, PassedRepeats
<1>2. Cardinality(Workers) \in Nat /\ BroadcastCap \div 2 >= 1
  BY CapAssumption, FS_CardinalityType
<1>3. BroadcastCap \div 2 \in Nat
  BY CapAssumption
<1> QED
  BY <1>1, <1>2, <1>3, FS_EmptySet DEF RepeatsBounded

LEMMA RepeatsQuiet ==
  ASSUME RepeatsBounded, UNCHANGED <<broadcast, worker>>
  PROVE  RepeatsBounded'
BY DEF RepeatsBounded, QueuedRepeats, PassedRepeats

LEMMA RepeatsPassed ==
  ASSUME Types, Types', RepeatsBounded, NEW w \in Workers, BroadcastRepeat(w)
  PROVE  RepeatsBounded'
<1>0. UNCHANGED broadcast /\ QueuedRepeats' = QueuedRepeats
  BY DEF BroadcastRepeat, channelVars, QueuedRepeats
<1>1. CASE RepeatRoom
  <2>1. Len(broadcast) < BroadcastCap \div 2 /\ Len(broadcast) \in Nat
    BY <1>1 DEF RepeatRoom, Types
  <2>2. BroadcastCap \div 2 \in Nat
    BY CapAssumption
  <2>3. /\ Cardinality(QueuedRepeats') <= Len(broadcast)
        /\ Cardinality(PassedRepeats') <= Cardinality(Workers)
        /\ Cardinality(QueuedRepeats') \in Nat /\ Cardinality(PassedRepeats') \in Nat
        /\ Cardinality(Workers) \in Nat
    <3>1. (Types => /\ Cardinality(QueuedRepeats) <= Len(broadcast)
                   /\ Cardinality(PassedRepeats) <= Cardinality(Workers)
                   /\ Cardinality(QueuedRepeats) \in Nat /\ Cardinality(PassedRepeats) \in Nat
                   /\ Cardinality(Workers) \in Nat)'
      BY FiniteRepeats, PTL
    <3> QED
      BY <1>0, <3>1
  <2> QED
    BY <2>1, <2>2, <2>3 DEF RepeatsBounded
<1>2. CASE ~ RepeatRoom
  <2>1. PassedRepeats' \subseteq PassedRepeats
    BY <1>2 DEF BroadcastRepeat, PassedRepeats, Types
  <2>2. Cardinality(PassedRepeats') <= Cardinality(PassedRepeats)
          /\ Cardinality(PassedRepeats') \in Nat
    BY <2>1, FiniteRepeats, FS_Subset, FS_CardinalityType
  <2>3. BroadcastCap \div 2 \in Nat
    BY CapAssumption
  <2> QED
    BY <1>0, <2>2, <2>3, FiniteRepeats DEF RepeatsBounded
<1> QED
  BY <1>1, <1>2

LEMMA RepeatsSent ==
  ASSUME Types, RepeatsBounded, NEW w \in Workers, Broadcast(w)
  PROVE  RepeatsBounded'
<1>1. worker[w] \in Event /\ worker[w].checked
  BY DEF Broadcast, Types
<1>2. PassedRepeats' = PassedRepeats \ {w}
  BY DEF Broadcast, Types, PassedRepeats
<1>3. /\ IsFiniteSet(QueuedRepeats) /\ Cardinality(QueuedRepeats) \in Nat
      /\ IsFiniteSet(PassedRepeats) /\ Cardinality(PassedRepeats) \in Nat
      /\ Cardinality(Workers) \in Nat /\ BroadcastCap \div 2 \in Nat
  BY FiniteRepeats, CapAssumption
<1>4. Cardinality(PassedRepeats') <= Cardinality(PassedRepeats)
        /\ Cardinality(PassedRepeats') \in Nat
  BY <1>2, <1>3, FS_Subset, FS_CardinalityType
<1>5. CASE QueuedRepeats' = QueuedRepeats
  BY <1>3, <1>4, <1>5 DEF RepeatsBounded
<1>6. CASE w \in PassedRepeats /\ QueuedRepeats' = QueuedRepeats \cup {Len(broadcast) + 1}
  <2>1. Len(broadcast) + 1 \notin QueuedRepeats
    BY DEF QueuedRepeats, Types
  <2>2. Cardinality(QueuedRepeats') = Cardinality(QueuedRepeats) + 1
    BY <1>3, <1>6, <2>1, FS_AddElement
  <2>3. Cardinality(PassedRepeats') = Cardinality(PassedRepeats) - 1
    BY <1>2, <1>3, <1>6, FS_RemoveElement
  <2> QED
    BY <1>3, <2>2, <2>3 DEF RepeatsBounded
<1>7. CASE /\ published' = published + 1
           /\ broadcast' = Append(broadcast, Numbered(worker[w], published'))
  <2> DEFINE e == Numbered(worker[w], published')
  <2>1. e \in Event /\ e.Repeat = worker[w].Repeat
    <3>1. e \in Event
      BY <1>1, <1>7, NumberedType DEF Types
    <3>2. e.Repeat = worker[w].Repeat
      BY <1>1 DEF Numbered, Event
    <3> QED
      BY <3>1, <3>2
  <2> HIDE DEF e
  <2>2. /\ Len(broadcast) \in Nat
        /\ DOMAIN broadcast = 1..Len(broadcast)
        /\ DOMAIN broadcast' = 1..(Len(broadcast) + 1)
        /\ \A i \in 1..Len(broadcast) : broadcast'[i] = broadcast[i]
        /\ broadcast'[Len(broadcast) + 1] = e
    BY <1>7, <2>1 DEF Types, e
  <2>3. \A i \in DOMAIN broadcast' : i \in DOMAIN broadcast \/ i = Len(broadcast) + 1
    BY <2>2
  <2>4. CASE worker[w].Repeat
    <3>1. w \in PassedRepeats
      BY <1>1, <2>4 DEF PassedRepeats, Broadcast
    <3>2. QueuedRepeats' = QueuedRepeats \cup {Len(broadcast) + 1}
      <4>1. \A i \in DOMAIN broadcast : i # Len(broadcast) + 1 /\ i \in DOMAIN broadcast'
        BY <2>2
      <4>2. broadcast'[Len(broadcast) + 1].Repeat /\ Len(broadcast) + 1 \in DOMAIN broadcast'
        <5>1. broadcast'[Len(broadcast) + 1].Repeat
          BY <2>1, <2>2, <2>4, Zenon
        <5>2. Len(broadcast) + 1 \in 1..(Len(broadcast) + 1)
          BY <2>2
        <5> QED
          BY <2>2, <5>1, <5>2, Zenon
      <4>3. \A i \in DOMAIN broadcast : broadcast'[i] = broadcast[i]
        BY <2>2
      <4> QED
        BY <2>3, <4>1, <4>2, <4>3 DEF QueuedRepeats
    <3> QED
      BY <1>6, <3>1, <3>2
  <2>5. CASE ~ worker[w].Repeat
    <3>1. QueuedRepeats' = QueuedRepeats
      BY <2>1, <2>2, <2>3, <2>5 DEF QueuedRepeats
    <3> QED
      BY <1>5, <3>1
  <2> QED
    BY <2>4, <2>5
<1>8. CASE UNCHANGED <<published, broadcast>>
  BY <1>5, <1>8 DEF QueuedRepeats
<1> QED
  BY <1>7, <1>8 DEF Broadcast

LEMMA RepeatsTaken ==
  ASSUME Types, RepeatsBounded, RunBroadcast
  PROVE  RepeatsBounded'
<1> DEFINE f == [i \in QueuedRepeats' |-> i + 1]
<1>1. /\ broadcast' = Tail(broadcast) /\ broadcast # <<>> /\ broadcast \in Seq(Event)
      /\ PassedRepeats' = PassedRepeats
  BY DEF RunBroadcast, Types, PassedRepeats, ingestVars
<1>2. /\ Len(Tail(broadcast)) = Len(broadcast) - 1 /\ Len(broadcast) \in Nat
      /\ DOMAIN broadcast = 1..Len(broadcast)
      /\ DOMAIN Tail(broadcast) = 1..Len(Tail(broadcast))
      /\ \A i \in 1..Len(Tail(broadcast)) : Tail(broadcast)[i] = broadcast[i + 1]
  BY <1>1
<1>3. \A i \in QueuedRepeats' : i \in Int /\ i + 1 \in QueuedRepeats
  <2> TAKE i \in QueuedRepeats'
  <2>1. i \in 1..Len(Tail(broadcast)) /\ Tail(broadcast)[i].Repeat
    BY <1>1, <1>2 DEF QueuedRepeats
  <2>2. i \in Int /\ i + 1 \in 1..Len(broadcast)
    BY <1>2, <2>1
  <2> QED
    BY <1>2, <2>1, <2>2 DEF QueuedRepeats
<1>4. f \in Injection(QueuedRepeats', QueuedRepeats)
  BY <1>3 DEF Injection, IsInjective
<1>5. /\ IsFiniteSet(QueuedRepeats) /\ Cardinality(QueuedRepeats) \in Nat
      /\ Cardinality(PassedRepeats) \in Nat
      /\ Cardinality(Workers) \in Nat /\ BroadcastCap \div 2 \in Nat
  BY FiniteRepeats, CapAssumption
<1> HIDE DEF f
<1>6. IsFiniteSet(QueuedRepeats') /\ Cardinality(QueuedRepeats') <= Cardinality(QueuedRepeats)
  BY <1>4, <1>5, FS_Injection
<1>7. Cardinality(QueuedRepeats') \in Nat
  BY <1>6, FS_CardinalityType
<1> QED
  BY <1>1, <1>5, <1>6, <1>7 DEF RepeatsBounded

LEMMA RepeatsNext ==
  ASSUME Types, Types', RepeatsBounded, [Next]_vars
  PROVE  RepeatsBounded'
<1>1. ASSUME NEW c \in Clients, Handler(c) \/ Pump(c)
      PROVE  RepeatsBounded'
  BY <1>1, RepeatsQuiet
     DEF Handler, NewClient, HelloSent, Disconnect, ReadSubscribe, ReadUnsubscribe,
         ReadConfigure, ReadMessage, SendSubscribe, RemoveScope, Remove, Pump, PumpEvent,
         PumpNotice, PumpWriteFails, PumpExits, channelVars, ingestVars
<1>2. ASSUME NEW w \in Workers, BuildObservation(w)
      PROVE  RepeatsBounded'
  <2>1. PICK k \in Kinds, repeat \in BOOLEAN :
          worker' = [worker EXCEPT ![w] =
            [kind |-> k, Repeat |-> repeat, n |-> 0, checked |-> ~repeat,
             variants |-> {"resolved"} \cup IF ObserverKeyWanted
                                            THEN {"withKey", "resolvedWithKey"}
                                            ELSE {},
             keyed |-> {c \in clients : options[c].IncludeObserverKey}]]
    BY <1>2 DEF BuildObservation
  <2>2. /\ worker'[w].Repeat = repeat /\ worker'[w].checked = ~repeat
        /\ worker[w] = NoEvent
        /\ \A v \in Workers \ {w} : worker'[v] = worker[v]
    BY <1>2, <2>1 DEF Types, BuildObservation
  <2>3. PassedRepeats' = PassedRepeats
    BY <2>2 DEF PassedRepeats
  <2> QED
    BY <1>2, <2>3 DEF BuildObservation, RepeatsBounded, QueuedRepeats, channelVars
<1>3. CASE RunSubscribe \/ RunUnsubscribe \/ RunRemove \/ FanOut
  BY <1>3, RepeatsQuiet
     DEF RunSubscribe, RunUnsubscribe, RunRemove, FanOut, RunOffer, RunEvict, RunResend,
         RunNotify, channelVars, ingestVars
<1>4. CASE UNCHANGED vars
  BY <1>4, RepeatsQuiet DEF vars, channelVars, ingestVars
<1> QED
  BY <1>1, <1>2, <1>3, <1>4, RepeatsPassed, RepeatsSent, RepeatsTaken DEF Next, Ingest, Run

-----------------------------------------------------------------------------
(* The inductive invariant, and what follows from it.                      *)

IInv ==
  /\ Types
  /\ Counts
  /\ Lifecycle
  /\ OffUntilRegistered
  /\ Ordered
  /\ Keys
  /\ Losses
  /\ RepeatsBounded

LEMMA IInvHolds == Spec => []IInv
<1>1. Init => IInv
  <2>1. Init => OffUntilRegistered
    BY DEF OffUntilRegistered, Init
  <2> QED
    BY <2>1, TypesInit, CountsInit, LifecycleInit, OrderedInit, KeysInit, LossesInit,
       RepeatsInit DEF IInv
<1>2. IInv /\ [Next]_vars => IInv'
  BY TypesNext, CountsNext, LifecycleNext, OrderedNext, KeysNext, LossesNext, RepeatsNext
     DEF IInv
<1> QED
  BY <1>1, <1>2, PTL DEF Spec

(* Every variable of the hub keeps its type, and the two counters, which   *)
(* the code keeps by adding and subtracting one, never go below zero.      *)
THEOREM TypeCorrect == Spec => []TypeOK
<1>1. IInv => TypeOK
  BY FiniteCounted, FS_CardinalityType DEF IInv, Types, Counts, TypeOK
<1> QED
  BY <1>1, IInvHolds, PTL

(* ObserverKeyWanted and RepeatsWanted are exact, however Run's select     *)
(* orders registrations, configures and removals.                          *)
THEOREM CountersExact == Spec => []WantedCounts
<1>1. IInv => WantedCounts
  BY DEF IInv, Counts, WantedCounts, Counted, CountedRepeats
<1> QED
  BY <1>1, IInvHolds, PTL

(* Run never sends on or closes a closed channel: no panic ends the hub,   *)
(* for any number of clients and any interleaving of its channels.         *)
THEOREM NeverSendsOnClosed == Spec => []NoSendOnClosed
<1>1. IInv => NoSendOnClosed
  BY DEF IInv, Lifecycle, Registering, NoSendOnClosed, Types
<1> QED
  BY <1>1, IInvHolds, PTL

(* Evictions and the write pump never reorder or repeat what a client      *)
(* gets: it reads events in the order of their broadcast.                  *)
THEOREM InOrder == Spec => []DeliveredInOrder
<1>1. IInv => DeliveredInOrder
  <2> SUFFICES ASSUME IInv, NEW c \in Clients
               PROVE  LET ns == <<got[c]>> \o [i \in DOMAIN send[c] |-> send[c][i].n] IN
                        /\ \A i, j \in DOMAIN ns : i < j => ns[i] < ns[j]
                        /\ run.at = "offer" /\ c \in run.todo => ns[Len(ns)] < run.evt.n
    BY DEF DeliveredInOrder
  <2> DEFINE q == [i \in DOMAIN send[c] |-> send[c][i].n]
             ns == <<got[c]>> \o q
  <2>1. /\ got[c] \in Nat /\ send[c] \in Seq(Delivered) /\ Taken \in Nat
        /\ InLine(got[c], send[c], Taken)
    BY DEF IInv, Types, Ordered
  <2>2. /\ Len(send[c]) \in Nat /\ DOMAIN send[c] = 1..Len(send[c])
        /\ \A i \in 1..Len(send[c]) : send[c][i].n \in Nat
    BY <2>1, BufferNumbers
  <2>3. q \in Seq(Nat) /\ Len(q) = Len(send[c])
          /\ \A i \in 1..Len(send[c]) : q[i] = send[c][i].n
    BY <2>2
  <2> HIDE DEF q
  <2>4. /\ Len(ns) = Len(send[c]) + 1 /\ DOMAIN ns = 1..(Len(send[c]) + 1)
        /\ ns[1] = got[c]
        /\ \A i \in 2..(Len(send[c]) + 1) : ns[i] = q[i - 1]
    BY <2>1, <2>2, <2>3
  <2> HIDE DEF ns
  <2>5. \A i \in 2..(Len(send[c]) + 1) :
          i - 1 \in 1..Len(send[c]) /\ ns[i] = send[c][i - 1].n
    BY <2>2, <2>3, <2>4
  <2>6. ASSUME NEW i \in DOMAIN ns, NEW j \in DOMAIN ns, i < j
        PROVE  ns[i] < ns[j]
    <3>1. j \in 2..(Len(send[c]) + 1) /\ i \in Int
      BY <2>2, <2>4, <2>6
    <3>2. CASE i = 1
      BY <2>1, <2>4, <2>5, <3>1, <3>2 DEF InLine
    <3>3. CASE i # 1
      <4>1. i \in 2..(Len(send[c]) + 1) /\ i - 1 < j - 1
        BY <2>2, <2>4, <2>6, <3>1, <3>3
      <4> QED
        BY <2>1, <2>5, <3>1, <4>1 DEF InLine
    <3> QED
      BY <3>2, <3>3
  <2>7. ASSUME run.at = "offer", c \in run.todo
        PROVE  ns[Len(ns)] < run.evt.n
    <3>1. InLine(got[c], send[c], Taken - 1) /\ run.evt.n = Taken
      BY <2>7 DEF IInv, Ordered
    <3>2. CASE Len(send[c]) = 0
      <4>1. ns[Len(ns)] = got[c]
        BY <2>4, <3>2
      <4> QED
        BY <2>1, <3>1, <4>1 DEF InLine
    <3>3. CASE Len(send[c]) # 0
      <4>1. Len(send[c]) \in 1..Len(send[c]) /\ Len(ns) \in 2..(Len(send[c]) + 1)
        BY <2>2, <2>4, <3>3
      <4>2. ns[Len(ns)] = send[c][Len(send[c])].n
        <5>1. Len(ns) - 1 = Len(send[c])
          BY <2>2, <2>4
        <5> QED
          BY <2>5, <4>1, <5>1
      <4>3. send[c][Len(send[c])].n <= Taken - 1
        BY <3>1, <4>1 DEF InLine
      <4> QED
        BY <2>1, <2>2, <3>1, <4>1, <4>2, <4>3
    <3> QED
      BY <3>2, <3>3
  <2> QED
    BY <2>6, <2>7 DEF ns, q
<1> QED
  BY <1>1, IInvHolds, PTL

(* An overflow costs a client its oldest event, never the one that was     *)
(* just broadcast.                                                         *)
THEOREM NewestStays == Spec => []NewestKept
<1>1. IInv => NewestKept
  BY RunningType DEF IInv, Ordered, Newest, NewestKept
<1> QED
  BY <1>1, IInvHolds, PTL

(* A client that missed an event has a lagged notice before it, unless its *)
(* write pump is gone.                                                     *)
THEOREM LossesAnnounced == Spec => []LossAnnounced
<1>1. IInv => LossAnnounced
  BY DEF IInv, Losses
<1> QED
  BY <1>1, IInvHolds, PTL

(* Leaving out the key variants while the counter reads zero costs no      *)
(* client the key that it asked for.                                       *)
THEOREM KeyGetsThrough == Spec => []KeyReachesOptedIn
<1>1. IInv => KeyReachesOptedIn
  BY DEF IInv, Keys
<1> QED
  BY <1>1, IInvHolds, PTL

(* Repeats fill at most half of the broadcast channel, but for one per     *)
(* worker between its look at the channel and its send.                    *)
THEOREM RoomForFirstHearings == Spec => []RepeatsLeaveRoom
<1>1. IInv => RepeatsLeaveRoom
  <2> SUFFICES ASSUME IInv PROVE RepeatsLeaveRoom
    OBVIOUS
  <2>1. /\ Cardinality(QueuedRepeats) \in Nat /\ Cardinality(PassedRepeats) \in Nat
        /\ Cardinality(Workers) \in Nat /\ BroadcastCap \div 2 \in Nat
    BY FiniteRepeats, CapAssumption DEF IInv
  <2>2. Cardinality(QueuedRepeats) <= (BroadcastCap \div 2) + Cardinality(Workers) - 1
    BY <2>1 DEF IInv, RepeatsBounded
  <2> QED
    BY <2>2 DEF RepeatsLeaveRoom, QueuedRepeats
<1> QED
  BY <1>1, IInvHolds, PTL

=============================================================================
