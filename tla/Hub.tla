-------------------------------- MODULE Hub --------------------------------
(***************************************************************************)
(* The fan-out broker of internal/hub/hub.go together with the goroutines  *)
(* that talk to it: the connection handler and the write pump of           *)
(* internal/ws/handler.go, and the ingest workers that publish packet      *)
(* observations.                                                           *)
(*                                                                         *)
(* One goroutine, Run, owns the client map.  Everybody else reaches it     *)
(* through four buffered channels, and Run's select picks any channel that *)
(* has something to read: there is an order within a channel and none      *)
(* between two of them.                                                    *)
(*                                                                         *)
(* A fan-out is not one step: while Run walks the clients, a write pump    *)
(* may take events out of the very buffer Run found full.                  *)
(***************************************************************************)
EXTENDS Integers, Sequences, FiniteSets

CONSTANTS
  Clients,        (* connections; each is opened at most once              *)
  SubIDs,         (* subscription ids; AddScope always gets a fresh one    *)
  Scopes,         (* the subscribe scopes clients may send                 *)
  Kinds,          (* routing metadata of the events ingest publishes       *)
  Options,        (* the ClientOptions a configure message may carry       *)
  Workers,        (* ingest goroutines                                     *)
  SubscribeCap,   (* cap(subscribe):   64 in the code                      *)
  UnsubscribeCap, (* cap(unsubscribe): 64                                  *)
  RemoveCap,      (* cap(remove):      64                                  *)
  BroadcastCap,   (* cap(broadcast):  512                                  *)
  SendCap,        (* cap(Client.Send): 256                                 *)
  LaggedCap,      (* cap(Client.laggedCH): 8                               *)
  MaxPublished,   (* bound: events put on the broadcast channel            *)
  MaxRequests,    (* bound: messages one client sends                      *)
  NoRequest,      (* the handler has nothing to send to the hub            *)
  NoEvent         (* a worker has nothing to publish                       *)

AllOptions == [ResolvePath : BOOLEAN, IncludeObserverKey : BOOLEAN,
               IncludeRepeats : BOOLEAN]

ASSUME CapAssumption ==
  /\ {SubscribeCap, UnsubscribeCap, RemoveCap, SendCap, LaggedCap}
        \subseteq Nat \ {0}
  /\ BroadcastCap \in Nat \ {0, 1}
  /\ MaxPublished \in Nat
  /\ MaxRequests \in Nat
  /\ IsFiniteSet(Clients)
  /\ IsFiniteSet(Workers)
  /\ Options \subseteq AllOptions

VARIABLES
  subscribe,    (* registrations, scopes and configures, one channel       *)
  unsubscribe,
  remove,
  broadcast,
  clients,      (* Run's map                                               *)
  subscriptions,(* per client: the scopes in force, by subscription id     *)
  options,      (* per client: the three configure flags                   *)
  observerKeyClients,
  repeatClients,
  send,         (* per client: its buffered events                         *)
  laggedCH,     (* per client: its buffered lagged notices                 *)
  closed,       (* clients whose channels Run closed                       *)
  run,          (* where Run is in its loop                                *)
  phase,        (* per client: where its connection handler is             *)
  request,      (* per client: the message its handler is sending          *)
  requests,     (* per client: how many messages it has sent               *)
  pumping,      (* clients whose write pump runs                           *)
  worker,       (* per ingest worker: the event it is publishing           *)
  \* History, read by the properties only.
  published,    (* events put on the broadcast channel so far              *)
  got,          (* per client: number of the last event its pump read      *)
  missed,       (* clients that lost an event since they read a notice     *)
  issued,       (* per client: subscription ids it was given               *)
  unsubscribed  (* per client: ids RemoveScope returned for                *)

channelVars == <<subscribe, unsubscribe, remove, broadcast>>
clientVars  == <<clients, subscriptions, options, observerKeyClients,
                 repeatClients, closed>>
bufferVars  == <<send, laggedCH>>
handlerVars == <<phase, request, requests, pumping, unsubscribed, issued>>
ingestVars  == <<worker, published>>
readVars    == <<got, missed>>

vars == <<channelVars, clientVars, bufferVars, run, handlerVars, ingestVars,
          readVars>>

-----------------------------------------------------------------------------
(* Data                                                                    *)

DefaultOptions == [ResolvePath |-> FALSE, IncludeObserverKey |-> FALSE,
                   IncludeRepeats |-> FALSE]

(* An empty filter admits every event; the channel, route and observer     *)
(* filters only judge the event types that carry the field.                *)
Admits(filter, value) == filter = {} \/ value \in filter

scopeMatches(s, k) ==
  /\ Admits(s.Events, k.Type)
  /\ Admits(s.IATAs, k.IATA)
  /\ Admits(s.PayloadTypes, k.PayloadType)
  /\ k.Type = "channelMessage" => Admits(s.ChannelHashes, k.ChannelHash)
  /\ k.Type = "packetObservation" => Admits(s.RouteTypes, k.RouteType)
  /\ k.Type \in {"packetObservation", "observerStatus"}
        => Admits(s.ObserverIDs, k.ObserverID)

matches(c, k) == \E id \in DOMAIN subscriptions[c] :
                   scopeMatches(subscriptions[c][id], k)

(* The variant of the event's payload a client with options o receives;    *)
(* "base" always exists, the others only when ingest marshalled them.      *)
payloadFor(e, o) ==
  CASE o.IncludeObserverKey /\ o.ResolvePath /\ "resolvedWithKey" \in e.variants
         -> "resolvedWithKey"
    [] o.IncludeObserverKey /\ ~o.ResolvePath /\ "withKey" \in e.variants
         -> "withKey"
    [] OTHER -> IF o.ResolvePath /\ "resolved" \in e.variants
                THEN "resolved" ELSE "base"

Wants(c, e) == (e.Repeat => options[c].IncludeRepeats) /\ matches(c, e.kind)

(* Deviation: one client is not enough.                                    *)
ObserverKeyWantedByMany == observerKeyClients > 1
ObserverKeyWanted == observerKeyClients > 0
RepeatsWanted == repeatClients > 0

(* What ends up in a client's buffer.  owed is history: the client had the *)
(* key option on both when ingest built the event and when Run sent it.    *)
OutEvent(c, e) ==
  [n |-> e.n, payload |-> payloadFor(e, options[c]),
   owed |-> c \in e.keyed /\ options[c].IncludeObserverKey]

(* Where Run is: waiting in its select, about to offer an event to one of  *)
(* the clients left, or dealing with the full buffer of client dst.        *)
Idle == [at |-> "select"]
Offering(e, todo) ==
  IF todo = {} THEN Idle ELSE [at |-> "offer", evt |-> e, todo |-> todo]
Overflowing(at, e, todo, c, dropped) ==
  [at |-> at, evt |-> e, todo |-> todo, dst |-> c, dropped |-> dropped]

-----------------------------------------------------------------------------
(* The connection handler: NewClient, the read loop, Remove.  A send on a  *)
(* full channel blocks the handler, with no way to cancel it.              *)

NewClient(c) ==
  /\ phase[c] = "idle"
  /\ Len(subscribe) < SubscribeCap
  /\ subscribe' = Append(subscribe, [kind |-> "register", client |-> c])
  /\ phase' = [phase EXCEPT ![c] = "hello"]
  /\ UNCHANGED <<unsubscribe, remove, broadcast, clientVars, bufferVars, run,
                 request, requests, pumping, unsubscribed, issued, ingestVars, readVars>>

(* The hello went out: the write pump starts and the read loop begins.     *)
HelloSent(c) ==
  /\ phase[c] = "hello"
  /\ phase' = [phase EXCEPT ![c] = "open"]
  /\ pumping' = pumping \cup {c}
  /\ UNCHANGED <<channelVars, clientVars, bufferVars, run, request, requests,
                 unsubscribed, issued, ingestVars, readVars>>

(* Deviation: a read that does not notice its context is cancelled.        *)
DisconnectWhilePumping(c) ==
  /\ phase[c] = "hello" \/ c \in pumping
  /\ phase[c] \in {"hello", "open"}
  /\ phase' = [phase EXCEPT ![c] = "remove"]
  /\ UNCHANGED <<channelVars, clientVars, bufferVars, run, request, requests,
                 pumping, unsubscribed, issued, ingestVars, readVars>>

(* The hello failed, or the read failed: idle timeout, client gone, or the *)
(* context a failed write cancelled.  The deferred Remove comes next.      *)
Disconnect(c) ==
  /\ phase[c] \in {"hello", "open"}
  /\ phase' = [phase EXCEPT ![c] = "remove"]
  /\ UNCHANGED <<channelVars, clientVars, bufferVars, run, request, requests,
                 pumping, unsubscribed, issued, ingestVars, readVars>>

(* handleClientMessage up to its call into the hub.                        *)
ReadMessage(c, m) ==
  /\ phase[c] = "open"
  /\ requests[c] < MaxRequests
  /\ phase' = [phase EXCEPT ![c] = "request"]
  /\ request' = [request EXCEPT ![c] = m]
  /\ requests' = [requests EXCEPT ![c] = @ + 1]
  /\ UNCHANGED <<channelVars, clientVars, bufferVars, run, pumping,
                 unsubscribed, ingestVars, readVars>>

ReadSubscribe(c) ==
  \E id \in SubIDs \ UNION {issued[d] : d \in Clients}, s \in Scopes :
    /\ ReadMessage(c, [kind |-> "scope", client |-> c, id |-> id, scope |-> s])
    /\ issued' = [issued EXCEPT ![c] = @ \cup {id}]

ReadUnsubscribe(c) ==
  \E id \in issued[c] :
    /\ ReadMessage(c, [kind |-> "unsubscribe", client |-> c, id |-> id])
    /\ UNCHANGED issued

ReadConfigure(c) ==
  \E o \in Options :
    /\ ReadMessage(c, [kind |-> "configure", client |-> c, options |-> o])
    /\ UNCHANGED issued

(* AddScope and Configure: one channel with the registration.              *)
SendSubscribe(c) ==
  /\ phase[c] = "request"
  /\ request[c].kind \in {"scope", "configure"}
  /\ Len(subscribe) < SubscribeCap
  /\ subscribe' = Append(subscribe, request[c])
  /\ request' = [request EXCEPT ![c] = NoRequest]
  /\ phase' = [phase EXCEPT ![c] = "open"]
  /\ UNCHANGED <<unsubscribe, remove, broadcast, clientVars, bufferVars, run,
                 requests, pumping, unsubscribed, issued, ingestVars, readVars>>

RemoveScope(c) ==
  /\ phase[c] = "request"
  /\ request[c].kind = "unsubscribe"
  /\ Len(unsubscribe) < UnsubscribeCap
  /\ unsubscribe' = Append(unsubscribe, request[c])
  /\ unsubscribed' = [unsubscribed EXCEPT ![c] = @ \cup {request[c].id}]
  /\ request' = [request EXCEPT ![c] = NoRequest]
  /\ phase' = [phase EXCEPT ![c] = "open"]
  /\ UNCHANGED <<subscribe, remove, broadcast, clientVars, bufferVars, run,
                 requests, pumping, issued, ingestVars, readVars>>

Remove(c) ==
  /\ phase[c] = "remove"
  /\ Len(remove) < RemoveCap
  /\ remove' = Append(remove, c)
  /\ phase' = [phase EXCEPT ![c] = "gone"]
  /\ UNCHANGED <<subscribe, unsubscribe, broadcast, clientVars, bufferVars, run,
                 request, requests, pumping, unsubscribed, issued, ingestVars, readVars>>

-----------------------------------------------------------------------------
(* The write pump.                                                         *)

PumpEvent(c) ==
  /\ c \in pumping
  /\ send[c] # <<>>
  /\ send' = [send EXCEPT ![c] = Tail(@)]
  /\ got' = [got EXCEPT ![c] = Head(send[c]).n]
  /\ UNCHANGED <<channelVars, clientVars, laggedCH, run, handlerVars,
                 ingestVars, missed>>

PumpNotice(c) ==
  /\ c \in pumping
  /\ laggedCH[c] # <<>>
  /\ laggedCH' = [laggedCH EXCEPT ![c] = Tail(@)]
  /\ missed' = missed \ {c}
  /\ UNCHANGED <<channelVars, clientVars, send, run, handlerVars, ingestVars,
                 got>>

(* A write fails: what it carried is gone, and the context is cancelled.    *)
PumpWriteFails(c) ==
  /\ c \in pumping
  /\ \/ /\ send[c] # <<>>
        /\ send' = [send EXCEPT ![c] = Tail(@)]
        /\ got' = [got EXCEPT ![c] = Head(send[c]).n]
        /\ UNCHANGED laggedCH
     \/ /\ laggedCH[c] # <<>>
        /\ laggedCH' = [laggedCH EXCEPT ![c] = Tail(@)]
        /\ UNCHANGED <<send, got>>
  /\ pumping' = pumping \ {c}
  /\ UNCHANGED <<channelVars, clientVars, run, phase, request, requests,
                 unsubscribed, issued, ingestVars, missed>>

(* The handler returned, which cancels the context the pump selects on.    *)
PumpExits(c) ==
  /\ c \in pumping
  /\ phase[c] \in {"remove", "gone"}
  /\ pumping' = pumping \ {c}
  /\ UNCHANGED <<channelVars, clientVars, bufferVars, run, phase, request,
                 requests, unsubscribed, issued, ingestVars, readVars>>

-----------------------------------------------------------------------------
(* The ingest workers.                                                     *)

Checked(e) == [e EXCEPT !.checked = TRUE]
Numbered(e, n) == [e EXCEPT !.n = n]

(* broadcastPacketObservation marshals the key variants only when some     *)
(* client wants them; a repeat is built only when some client wants it.    *)
BuildObservation(w) ==
  \E k \in Kinds, repeat \in BOOLEAN :
    /\ worker[w] = NoEvent
    /\ published + Cardinality({v \in Workers : worker[v] # NoEvent})
         < MaxPublished
    /\ repeat => RepeatsWanted
    /\ worker' = [worker EXCEPT ![w] =
         [kind |-> k, Repeat |-> repeat, n |-> 0, checked |-> ~repeat,
          variants |-> {"resolved"} \cup IF ObserverKeyWanted
                                         THEN {"withKey", "resolvedWithKey"}
                                         ELSE {},
          keyed |-> {c \in clients : options[c].IncludeObserverKey}]]
    /\ UNCHANGED <<channelVars, clientVars, bufferVars, run, handlerVars,
                   published, readVars>>

(* Deviation: repeats may use the whole channel.                           *)
RepeatRoomWhole == Len(broadcast) < BroadcastCap
RepeatRoom == Len(broadcast) < BroadcastCap \div 2

(* BroadcastRepeat's look at the channel, before and apart from its send.  *)
BroadcastRepeat(w) ==
  /\ worker[w] # NoEvent
  /\ ~worker[w].checked
  /\ worker' = [worker EXCEPT ![w] =
       IF RepeatRoom THEN Checked(@) ELSE NoEvent]
  /\ UNCHANGED <<channelVars, clientVars, bufferVars, run, handlerVars,
                 published, readVars>>

(* The non-blocking send both kinds end with; a full channel drops.        *)
Broadcast(w) ==
  /\ worker[w] # NoEvent
  /\ worker[w].checked
  /\ IF Len(broadcast) < BroadcastCap
     THEN /\ published' = published + 1
          /\ broadcast' = Append(broadcast, Numbered(worker[w], published'))
     ELSE UNCHANGED <<published, broadcast>>
  /\ worker' = [worker EXCEPT ![w] = NoEvent]
  /\ UNCHANGED <<subscribe, unsubscribe, remove, clientVars, bufferVars, run,
                 handlerVars, readVars>>

-----------------------------------------------------------------------------
(* Run: one select case, or one step of a fan-out, at a time.              *)

Delta(was, is) == IF was = is THEN 0 ELSE IF is THEN 1 ELSE -1

RunRegister(m) ==
  /\ m.kind = "register"
  /\ clients' = clients \cup {m.client}
  /\ UNCHANGED <<subscriptions, options, observerKeyClients, repeatClients>>

RunConfigure(m) ==
  /\ m.kind = "configure"
  /\ IF m.client \in clients
     THEN LET was == options[m.client] IN
          /\ observerKeyClients' = observerKeyClients
               + Delta(was.IncludeObserverKey, m.options.IncludeObserverKey)
          /\ repeatClients' = repeatClients
               + Delta(was.IncludeRepeats, m.options.IncludeRepeats)
          /\ options' = [options EXCEPT ![m.client] = m.options]
     ELSE UNCHANGED <<observerKeyClients, repeatClients, options>>
  /\ UNCHANGED <<clients, subscriptions>>

(* f with x mapped to y.                                                   *)
Put(f, x, y) == [z \in DOMAIN f \cup {x} |-> IF z = x THEN y ELSE f[z]]

RunAddScope(m) ==
  /\ m.kind = "scope"
  /\ subscriptions' =
       IF m.client \in clients
       THEN [subscriptions EXCEPT ![m.client] = Put(@, m.id, m.scope)]
       ELSE subscriptions
  /\ UNCHANGED <<clients, options, observerKeyClients, repeatClients>>

RunSubscribe ==
  /\ run.at = "select"
  /\ subscribe # <<>>
  /\ LET m == Head(subscribe) IN
       RunRegister(m) \/ RunConfigure(m) \/ RunAddScope(m)
  /\ subscribe' = Tail(subscribe)
  /\ UNCHANGED <<unsubscribe, remove, broadcast, closed, bufferVars, run,
                 handlerVars, ingestVars, readVars>>

RunUnsubscribe ==
  /\ run.at = "select"
  /\ unsubscribe # <<>>
  /\ LET m == Head(unsubscribe) IN
       subscriptions' =
         IF m.client \in clients
         THEN [subscriptions EXCEPT ![m.client] =
                 [id \in DOMAIN @ \ {m.id} |-> @[id]]]
         ELSE subscriptions
  /\ unsubscribe' = Tail(unsubscribe)
  /\ UNCHANGED <<subscribe, remove, broadcast, clients, options,
                 observerKeyClients, repeatClients, closed, bufferVars, run,
                 handlerVars, ingestVars, readVars>>

(* Deviations: the flags keep counting; the client stays in the map.       *)
DeregisterKeepsCounts(c) ==
  /\ clients' = clients \ {c}
  /\ closed' = closed \cup {c}
  /\ UNCHANGED <<observerKeyClients, repeatClients>>
DeregisterKeepsClient(c) ==
  /\ closed' = closed \cup {c}
  /\ UNCHANGED <<clients, observerKeyClients, repeatClients>>

Deregister(c) ==
  /\ clients' = clients \ {c}
  /\ observerKeyClients' = observerKeyClients
       - IF options[c].IncludeObserverKey THEN 1 ELSE 0
  /\ repeatClients' = repeatClients
       - IF options[c].IncludeRepeats THEN 1 ELSE 0
  /\ closed' = closed \cup {c}

RunRemove ==
  /\ run.at = "select"
  /\ remove # <<>>
  /\ IF Head(remove) \in clients
     THEN Deregister(Head(remove))
     ELSE UNCHANGED <<clients, observerKeyClients, repeatClients, closed>>
  /\ remove' = Tail(remove)
  /\ UNCHANGED <<subscribe, unsubscribe, broadcast, subscriptions, options,
                 bufferVars, run, handlerVars, ingestVars, readVars>>

(* The clients an event is for cannot change during its fan-out: only Run  *)
(* changes subscriptions and options.                                      *)
RunBroadcast ==
  /\ run.at = "select"
  /\ broadcast # <<>>
  /\ LET e == Head(broadcast) IN
       run' = Offering(e, {c \in clients : Wants(c, e)})
  /\ broadcast' = Tail(broadcast)
  /\ UNCHANGED <<subscribe, unsubscribe, remove, clientVars, bufferVars,
                 handlerVars, ingestVars, readVars>>

HasRoom(c) == Len(send[c]) < SendCap
(* Deviation: the newest event jumps the queue.                            *)
DeliverFirst(c, e) == send' = [send EXCEPT ![c] = <<OutEvent(c, e)>> \o @]
Deliver(c, e) == send' = [send EXCEPT ![c] = Append(@, OutEvent(c, e))]

(* Deviation: a plain send, which waits for the client.                    *)
RunOfferBlocking(c) ==
  /\ run.at = "offer"
  /\ c \in run.todo
  /\ HasRoom(c)
  /\ Deliver(c, run.evt)
  /\ run' = Offering(run.evt, run.todo \ {c})
  /\ UNCHANGED <<channelVars, clientVars, laggedCH, handlerVars, ingestVars,
                 readVars>>

RunOffer(c) ==
  /\ run.at = "offer"
  /\ c \in run.todo
  /\ IF HasRoom(c)
     THEN /\ Deliver(c, run.evt)
          /\ run' = Offering(run.evt, run.todo \ {c})
     ELSE /\ run' = Overflowing("evict", run.evt, run.todo \ {c}, c, 1)
          /\ UNCHANGED send
  /\ UNCHANGED <<channelVars, clientVars, laggedCH, handlerVars, ingestVars,
                 readVars>>

(* Deviation: the oldest stays, so the newest is the one dropped.          *)
EvictNone(q) == q
Evict(q) == Tail(q)

(* The oldest event makes way; by now the pump may have emptied the buffer. *)
RunEvict ==
  /\ run.at = "evict"
  /\ IF send[run.dst] # <<>>
     THEN /\ send' = [send EXCEPT ![run.dst] = Evict(@)]
          /\ missed' = missed \cup {run.dst}
     ELSE UNCHANGED <<send, missed>>
  /\ run' = Overflowing("resend", run.evt, run.todo, run.dst, run.dropped)
  /\ UNCHANGED <<channelVars, clientVars, laggedCH, handlerVars, ingestVars,
                 got>>

RunResend ==
  /\ run.at = "resend"
  /\ IF HasRoom(run.dst)
     THEN /\ Deliver(run.dst, run.evt)
          /\ run' = Overflowing("notify", run.evt, run.todo, run.dst, run.dropped)
          /\ UNCHANGED missed
     ELSE /\ run' = Overflowing("notify", run.evt, run.todo, run.dst,
                                run.dropped + 1)
          /\ missed' = missed \cup {run.dst}
          /\ UNCHANGED send
  /\ UNCHANGED <<channelVars, clientVars, laggedCH, handlerVars, ingestVars,
                 got>>

(* A full laggedCH swallows the notice.  Deviation: so does any other.     *)
NotifyNone(q) == q
Notify(q) == IF Len(q) < LaggedCap THEN Append(q, run.dropped) ELSE q

RunNotify ==
  /\ run.at = "notify"
  /\ laggedCH' = [laggedCH EXCEPT ![run.dst] = Notify(@)]
  /\ run' = Offering(run.evt, run.todo)
  /\ UNCHANGED <<channelVars, clientVars, send, handlerVars, ingestVars,
                 readVars>>

-----------------------------------------------------------------------------
Init ==
  /\ subscribe = <<>> /\ unsubscribe = <<>> /\ remove = <<>> /\ broadcast = <<>>
  /\ clients = {} /\ closed = {} /\ pumping = {} /\ missed = {}
  /\ subscriptions = [c \in Clients |-> <<>>]
  /\ options = [c \in Clients |-> DefaultOptions]
  /\ observerKeyClients = 0 /\ repeatClients = 0 /\ published = 0
  /\ send = [c \in Clients |-> <<>>]
  /\ laggedCH = [c \in Clients |-> <<>>]
  /\ run = Idle
  /\ phase = [c \in Clients |-> "idle"]
  /\ request = [c \in Clients |-> NoRequest]
  /\ requests = [c \in Clients |-> 0]
  /\ worker = [w \in Workers |-> NoEvent]
  /\ got = [c \in Clients |-> 0]
  /\ issued = [c \in Clients |-> {}]
  /\ unsubscribed = [c \in Clients |-> {}]

Handler(c) ==
  \/ NewClient(c) \/ HelloSent(c) \/ Disconnect(c)
  \/ ReadSubscribe(c) \/ ReadUnsubscribe(c) \/ ReadConfigure(c)
  \/ SendSubscribe(c) \/ RemoveScope(c) \/ Remove(c)

Pump(c) ==
  PumpEvent(c) \/ PumpNotice(c) \/ PumpWriteFails(c) \/ PumpExits(c)

Ingest(w) == BuildObservation(w) \/ BroadcastRepeat(w) \/ Broadcast(w)

FanOut ==
  (\E c \in Clients : RunOffer(c)) \/ RunEvict \/ RunResend \/ RunNotify

Run == RunSubscribe \/ RunUnsubscribe \/ RunRemove \/ RunBroadcast \/ FanOut

Next ==
  \/ \E c \in Clients : Handler(c) \/ Pump(c)
  \/ \E w \in Workers : Ingest(w)
  \/ Run

(* The Go runtime keeps running a goroutine that can run, a select that    *)
(* finds a channel ready again and again picks it in the end, and a sender *)
(* parked on a full channel is served in turn.  What the remote client     *)
(* does - connect, send, read what it is sent - is never fair; only a      *)
(* handler whose context is done is sure to leave its read loop.           *)
Fairness ==
  /\ SF_vars(RunSubscribe) /\ SF_vars(RunUnsubscribe)
  /\ SF_vars(RunRemove) /\ SF_vars(RunBroadcast)
  /\ WF_vars(FanOut)
  /\ \A c \in Clients :
       /\ SF_vars(SendSubscribe(c)) /\ SF_vars(RemoveScope(c))
       /\ SF_vars(Remove(c))
       /\ WF_vars(PumpExits(c))
       /\ WF_vars(c \notin pumping /\ phase[c] = "open" /\ Disconnect(c))

Spec == Init /\ [][Next]_vars
FairSpec == Spec /\ Fairness

-----------------------------------------------------------------------------
(* Properties                                                              *)

Variants == {"resolved", "withKey", "resolvedWithKey"}
Event == [kind : Kinds, Repeat : BOOLEAN, n : Nat, checked : BOOLEAN,
          variants : SUBSET Variants, keyed : SUBSET Clients]
Delivered == [n : Nat, payload : Variants \cup {"base"}, owed : BOOLEAN]

SubscribeMsg ==
  [kind : {"register"}, client : Clients]
    \cup [kind : {"configure"}, client : Clients, options : Options]
    \cup [kind : {"scope"}, client : Clients, id : SubIDs, scope : Scopes]
UnsubscribeMsg == [kind : {"unsubscribe"}, client : Clients, id : SubIDs]

RunState ==
  {Idle}
    \cup [at : {"offer"}, evt : Event, todo : SUBSET Clients]
    \cup [at : {"evict", "resend", "notify"}, evt : Event,
          todo : SUBSET Clients, dst : Clients, dropped : Nat]

(* Every variable has the type the Go declarations give it; the counters,  *)
(* which are int64 there, never go below zero.                             *)
TypeOK ==
  /\ subscribe \in Seq(SubscribeMsg)
  /\ unsubscribe \in Seq(UnsubscribeMsg)
  /\ remove \in Seq(Clients)
  /\ broadcast \in Seq(Event)
  /\ clients \subseteq Clients
  /\ options \in [Clients -> AllOptions]
  /\ observerKeyClients \in Nat
  /\ repeatClients \in Nat
  /\ send \in [Clients -> Seq(Delivered)]
  /\ laggedCH \in [Clients -> Seq(Nat)]
  /\ closed \subseteq Clients
  /\ run \in RunState
  /\ phase \in [Clients -> {"idle", "hello", "open", "request", "remove", "gone"}]
  /\ request \in [Clients -> {NoRequest} \cup SubscribeMsg \cup UnsubscribeMsg]
  /\ \A c \in Clients : phase[c] = "request"
                          => request[c] \in SubscribeMsg \cup UnsubscribeMsg
  /\ worker \in [Workers -> {NoEvent} \cup Event]
  /\ issued \in [Clients -> SUBSET SubIDs]
  /\ published \in Nat

(* The counters ingest reads to decide what to build are exactly the       *)
(* number of registered clients with the flag, whatever order Run takes    *)
(* registrations, configures and removals in: a count that drifted up      *)
(* would marshal keys for nobody forever, one that drifted down would      *)
(* silence clients that asked.                                             *)
WantedCounts ==
  /\ observerKeyClients =
       Cardinality({c \in clients : options[c].IncludeObserverKey})
  /\ repeatClients = Cardinality({c \in clients : options[c].IncludeRepeats})

(* Run never sends on, or closes, a channel it already closed (a panic     *)
(* that would end the process): a closed client is in nobody's hands - not *)
(* in the map, not in the fan-out under way, not about to be registered    *)
(* again by a message still in the subscribe channel.                      *)
NoSendOnClosed ==
  \A c \in closed :
    /\ c \notin clients
    /\ run.at # "select" => c \notin run.todo
    /\ run.at \in {"evict", "resend", "notify"} => c # run.dst
    /\ \A i \in DOMAIN subscribe :
         subscribe[i].kind = "register" => subscribe[i].client # c

(* Events reach a client in the order they were broadcast, each at most    *)
(* once, however evictions and the write pump interleave.                  *)
DeliveredInOrder ==
  \A c \in Clients :
    LET ns == <<got[c]>> \o [i \in DOMAIN send[c] |-> send[c][i].n] IN
      /\ \A i, j \in DOMAIN ns : i < j => ns[i] < ns[j]
      /\ run.at = "offer" /\ c \in run.todo => ns[Len(ns)] < run.evt.n

(* When a fan-out to a full buffer is over, the newest event is in the     *)
(* buffer or already taken: what an overflow costs is always the oldest.    *)
NewestKept ==
  run.at = "notify" =>
    \/ got[run.dst] = run.evt.n
    \/ send[run.dst] # <<>> /\ send[run.dst][Len(send[run.dst])].n = run.evt.n

(* A client that lost an event has a lagged notice ahead of it: one is in  *)
(* its laggedCH or Run is about to put one there.  A notice dropped because*)
(* laggedCH is full costs nothing, those before it are still unread.       *)
LossAnnounced ==
  \A c \in missed :
    \/ laggedCH[c] # <<>>
    \/ run.at \in {"resend", "notify"} /\ run.dst = c
    \/ c \notin pumping

(* A client that had the key option on when ingest built an event, and     *)
(* still has when Run sends it, gets the key: skipping the key variants    *)
(* when the counter reads zero never starves an opted-in client.           *)
KeyReachesOptedIn ==
  \A c \in Clients : \A i \in DOMAIN send[c] :
    send[c][i].owed => send[c][i].payload \in {"withKey", "resolvedWithKey"}

(* Repeats never crowd out first hearings: they fill at most half of the   *)
(* broadcast channel, give or take one per worker that looked at its       *)
(* length before another's send.                                           *)
RepeatsLeaveRoom ==
  Cardinality({i \in DOMAIN broadcast : broadcast[i].Repeat})
    <= (BroadcastCap \div 2) + Cardinality(Workers) - 1

(* A handler that has to put something on a hub channel gets through, even *)
(* when no client ever reads what it is sent: a stalled client never       *)
(* stalls Run, and with it everybody else.                                 *)
HandlersGetThrough ==
  \A c \in Clients : phase[c] \in {"request", "remove"}
                       ~> phase[c] \notin {"request", "remove"}

(* A connection whose write pump gave up does not stay: its handler leaves *)
(* and calls Remove.                                                       *)
DeadPumpLeaves ==
  \A c \in Clients : phase[c] = "open" /\ c \notin pumping ~> phase[c] = "gone"

Drained == subscribe = <<>> /\ unsubscribe = <<>> /\ remove = <<>>

(* hub.go: "Remove deregisters a client and closes its Send channel." and  *)
(* "RemoveScope removes a single subscription by ID."  When Run has read   *)
(* all the handlers sent, a removed client is closed, and no subscription  *)
(* whose client was told "unsubscribed" is in force.                       *)
RemovalsTakeEffect ==
  Drained =>
    /\ \A c \in Clients : phase[c] = "gone" => c \in closed \ clients
    /\ \A c \in clients : DOMAIN subscriptions[c] \cap unsubscribed[c] = {}

=============================================================================
