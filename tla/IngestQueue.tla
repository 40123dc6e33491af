---------------------------- MODULE IngestQueue ----------------------------
(***************************************************************************)
(* The message queue of one broker's ingest worker, internal/ingest/       *)
(* queue.go, with the part of Worker.Start (internal/ingest/ingest.go)     *)
(* that feeds it, reports its drops and closes it.                         *)
(*                                                                         *)
(* Messages are spread over lanes by a hash of the observer in their       *)
(* topic; a lane is a bounded channel read by one goroutine.  The total    *)
(* size of what was accepted and is not handled yet is bounded too.        *)
(* enqueue, the accounting after a handler and the closing of the lanes    *)
(* each hold the queue's mutex from beginning to end: one step each.       *)
(***************************************************************************)
EXTENDS Integers, Sequences, FiniteSets, FiniteSetsExt, Functions

CONSTANTS
  Observers,   (* hash keys of the topics                                  *)
  Lanes,       (* 8 in the code                                            *)
  LaneCap,     (* 2048                                                     *)
  MaxBytes,    (* 32 MiB                                                   *)
  Sizes,       (* sizes of the messages that arrive                        *)
  MaxArrivals, (* bound: messages the broker delivers                      *)
  NoMessage    (* a lane's goroutine handles nothing                       *)

ASSUME QueueAssumption ==
  /\ LaneCap \in Nat \ {0}
  /\ MaxBytes \in Nat
  /\ Sizes \subseteq Nat \ {0}
  /\ IsFiniteSet(Lanes)
  /\ MaxArrivals \in Nat
  /\ NoMessage \notin [n : Nat, observer : Observers, size : Sizes]

VARIABLES
  laneOf,     (* where the hash sends each observer                        *)
  lane,       (* per lane: the messages in its channel                     *)
  handling,   (* per lane: the message its goroutine handles               *)
  up,         (* lanes whose goroutine has not returned                    *)
  bytes,
  dropped,    (* refused messages not reported yet                         *)
  closed,     (* the lanes are closed                                      *)
  canceled,   (* the handlers' context is canceled                         *)
  start,      (* where Start is                                            *)
  \* History.
  arrived,    (* messages delivered                                        *)
  accepted,   (* messages put in a lane                                    *)
  handled,    (* messages whose handler returned                           *)
  lastBegun,  (* per observer: number of the last message handed over      *)
  refused,    (* messages refused while the queue was open                 *)
  reported    (* drops written to the log                                  *)

laneVars == <<laneOf, lane, handling, up>>
countVars == <<bytes, dropped>>
closeVars == <<closed, canceled, start>>
history == <<arrived, accepted, handled, lastBegun, refused, reported>>
vars == <<laneVars, countVars, closeVars, history>>

Waiting == UNION {Range(lane[l]) : l \in Lanes}
InHand == {handling[l] : l \in Lanes} \ {NoMessage}
Weight(S) == MapThenSumSet(LAMBDA m : m.size, S)

-----------------------------------------------------------------------------
(* enqueue, called by paho's router for one message after another.         *)

Fits(m) == m.size <= MaxBytes - bytes

Accept(m) ==
  LET l == laneOf[m.observer] IN
  /\ ~closed
  /\ Fits(m)
  /\ Len(lane[l]) < LaneCap
  /\ lane' = [lane EXCEPT ![l] = Append(@, m)]
  /\ bytes' = bytes + m.size
  /\ accepted' = accepted \cup {m}
  /\ UNCHANGED <<dropped, refused>>

Refuse(m) ==
  /\ ~closed
  /\ ~Fits(m) \/ Len(lane[laneOf[m.observer]]) >= LaneCap
  /\ dropped' = dropped + 1
  /\ refused' = refused + 1
  /\ UNCHANGED <<lane, bytes, accepted>>

(* The lanes are closed: the message is neither queued nor counted.        *)
Ignore == closed /\ UNCHANGED <<lane, bytes, dropped, refused, accepted>>

enqueue ==
  /\ start # "stopped"
  /\ arrived < MaxArrivals
  /\ arrived' = arrived + 1
  /\ \E o \in Observers, size \in Sizes :
       LET m == [n |-> arrived', observer |-> o, size |-> size]
       IN Accept(m) \/ Refuse(m) \/ Ignore
  /\ UNCHANGED <<laneOf, handling, up, closeVars, handled, lastBegun, reported>>

-----------------------------------------------------------------------------
(* A lane's goroutine.                                                     *)

Idle(l) == l \in up /\ handling[l] = NoMessage

(* Deviation: any message of the lane may come first.                      *)
NextInAny(l) == \E i \in DOMAIN lane[l] :
  /\ handling' = [handling EXCEPT ![l] = lane[l][i]]
  /\ lane' = [lane EXCEPT ![l] = SubSeq(@, 1, i-1) \o SubSeq(@, i+1, Len(@))]
NextIn(l) ==
  /\ lane[l] # <<>>
  /\ handling' = [handling EXCEPT ![l] = Head(lane[l])]
  /\ lane' = [lane EXCEPT ![l] = Tail(@)]

HandleNext(l) ==
  /\ Idle(l)
  /\ ~canceled
  /\ NextIn(l)
  /\ lastBegun' = [lastBegun EXCEPT ![handling'[l].observer] = handling'[l].n]
  /\ UNCHANGED <<laneOf, up, countVars, closeVars, arrived, accepted, handled,
                 refused, reported>>

(* Deviation: the accounting is skipped (by a panic nobody recovers).      *)
HandlerReturnsUncounted(l) ==
  /\ handling[l] # NoMessage
  /\ handled' = handled \cup {handling[l]}
  /\ handling' = [handling EXCEPT ![l] = NoMessage]
  /\ UNCHANGED <<laneOf, lane, up, countVars, closeVars, arrived, accepted,
                 lastBegun, refused, reported>>

(* The handler returned, or panicked and was recovered.                    *)
HandlerReturns(l) ==
  /\ handling[l] # NoMessage
  /\ bytes' = bytes - handling[l].size
  /\ handled' = handled \cup {handling[l]}
  /\ handling' = [handling EXCEPT ![l] = NoMessage]
  /\ UNCHANGED <<laneOf, lane, up, dropped, closeVars, arrived, accepted,
                 lastBegun, refused, reported>>

(* The goroutine returns: with a message it will not handle in its hand,   *)
(* or because its lane is closed and empty.                                *)
LaneEnds(l) ==
  /\ Idle(l)
  /\ \/ canceled /\ lane[l] # <<>> /\ lane' = [lane EXCEPT ![l] = Tail(@)]
     \/ closed /\ lane[l] = <<>> /\ UNCHANGED lane
  /\ up' = up \ {l}
  /\ UNCHANGED <<laneOf, handling, countVars, closeVars, history>>

-----------------------------------------------------------------------------
(* Start: its loop, and the deferred close and last report.                *)

(* Deviation: the counter is read, not taken.                              *)
takeDroppedKeeps ==
  /\ reported' = reported + dropped
  /\ UNCHANGED dropped
takeDropped ==
  /\ reported' = reported + dropped
  /\ dropped' = 0

reportDrops ==
  /\ start = "loop"
  /\ takeDropped
  /\ UNCHANGED <<laneVars, bytes, closeVars, arrived, accepted, handled,
                 lastBegun, refused>>

(* Deviation: the lanes stay open.                                         *)
closeNoLane ==
  /\ start = "loop"
  /\ start' = "closing"
  /\ UNCHANGED <<laneVars, countVars, closed, canceled, history>>

(* The context of Start ended and the client is disconnected: close.       *)
close ==
  /\ start = "loop"
  /\ closed' = TRUE
  /\ start' = "closing"
  /\ UNCHANGED <<laneVars, countVars, canceled, history>>

Done == up = {}

Drained ==
  /\ start = "closing"
  /\ Done
  /\ canceled' = TRUE
  /\ start' = "drained"
  /\ UNCHANGED <<laneVars, countVars, closed, history>>

(* 20 seconds are over: what is not handled yet is given up.               *)
DrainTimesOut ==
  /\ start = "closing"
  /\ canceled' = TRUE
  /\ start' = "timedOut"
  /\ UNCHANGED <<laneVars, countVars, closed, history>>

(* Deviation: the wait ends with the time limit.                           *)
WaitForHandlersNone ==
  /\ start = "timedOut"
  /\ start' = "gaveUp"
  /\ UNCHANGED <<laneVars, countVars, closed, canceled, history>>
WaitForHandlers ==
  /\ start = "timedOut"
  /\ Done
  /\ start' = "gaveUp"
  /\ UNCHANGED <<laneVars, countVars, closed, canceled, history>>

LastReport ==
  /\ start \in {"drained", "gaveUp"}
  /\ takeDropped
  /\ start' = "stopped"
  /\ UNCHANGED <<laneVars, bytes, closed, canceled, arrived, accepted, handled,
                 lastBegun, refused>>

-----------------------------------------------------------------------------
Init ==
  /\ laneOf \in [Observers -> Lanes]
  /\ lane = [l \in Lanes |-> <<>>]
  /\ handling = [l \in Lanes |-> NoMessage]
  /\ up = Lanes
  /\ bytes = 0 /\ dropped = 0
  /\ closed = FALSE /\ canceled = FALSE
  /\ start = "loop"
  /\ arrived = 0 /\ accepted = {} /\ handled = {}
  /\ lastBegun = [o \in Observers |-> 0]
  /\ refused = 0 /\ reported = 0

Lane(l) == HandleNext(l) \/ HandlerReturns(l) \/ LaneEnds(l)
Closing == Drained \/ DrainTimesOut \/ WaitForHandlers \/ LastReport
Next ==
  \/ enqueue
  \/ \E l \in Lanes : Lane(l)
  \/ reportDrops \/ close \/ Closing

(* Goroutines that can run do.  How long a handler takes is the database's *)
(* business, but one whose context is canceled returns.                    *)
Fairness ==
  /\ WF_vars(Closing)
  /\ \A l \in Lanes : /\ WF_vars(HandleNext(l) \/ LaneEnds(l))
                      /\ WF_vars(canceled /\ HandlerReturns(l))

Spec == Init /\ [][Next]_vars
FairSpec == Spec /\ Fairness

-----------------------------------------------------------------------------
(* Properties                                                              *)

Message == [n : 1..MaxArrivals, observer : Observers, size : Sizes]

(* Every variable has its type; the bytes held never exceed the bound.     *)
TypeOK ==
  /\ laneOf \in [Observers -> Lanes]
  /\ \A l \in Lanes : Range(lane[l]) \subseteq Message /\ Len(lane[l]) <= LaneCap
  /\ handling \in [Lanes -> Message \cup {NoMessage}]
  /\ up \subseteq Lanes
  /\ bytes \in 0..MaxBytes
  /\ {dropped, refused, reported} \subseteq 0..MaxArrivals
  /\ {closed, canceled} \subseteq BOOLEAN
  /\ start \in {"loop", "closing", "drained", "timedOut", "gaveUp", "stopped"}

(* Until a shutdown gives messages up, bytes is the size of what waits and *)
(* what is being handled, and both bounds hold (TypeOK): memory that is    *)
(* free is never counted as taken, nor the other way round.                *)
BytesExact == TypeOK /\ (~canceled => bytes = Weight(Waiting \cup InHand))

(* The messages of one observer are handed over in the order in which they *)
(* arrived, and never two at a time: status and packets stay ordered.      *)
ObserverOrder ==
  /\ \A l \in Lanes : \A m \in Range(lane[l]) : m.n > lastBegun[m.observer]
  /\ \A k, l \in Lanes :
       /\ handling[k] # NoMessage /\ handling[l] # NoMessage
       /\ handling[k].observer = handling[l].observer
       => k = l

(* When close has returned, either way, no handler runs or will run: the   *)
(* caller goes on to flush presence and to close the database.  A close    *)
(* that reports success handled all that was ever accepted.                *)
QuietAfterClose ==
  /\ start \in {"drained", "gaveUp", "stopped"} => up = {} /\ InHand = {}
  /\ start = "drained" => accepted = handled

(* Every message refused while the queue was open is in the log, once,     *)
(* when Start returns.                                                     *)
DropsReported ==
  /\ reported + dropped = refused
  /\ start = "stopped" => dropped = 0

(* A shutdown ends, even when no handler returns before it is canceled.    *)
CloseReturns == start = "closing" ~> start = "stopped"

=============================================================================
