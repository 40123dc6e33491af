----------------------------- MODULE Admission -----------------------------
(***************************************************************************)
(* The per-client database slots of internal/guards/admission.go, with the *)
(* HTTP requests that take them.                                           *)
(*                                                                         *)
(* Every request runs between Begin and finish (internal/guards/           *)
(* middleware.go).  The first statement it sends to the database takes one *)
(* of its client's ClientCap slots, which finish gives back.  When there   *)
(* is none left, a request of an enforced family waits for one, at most    *)
(* ClientWait; a request of an observed family runs at once and only its   *)
(* place in the queue is kept, to count what enforcing would have refused. *)
(*                                                                         *)
(* Everything between g.mu.Lock and g.mu.Unlock is one step.  A wait is    *)
(* three: joining the queue, the select waking up, and the look at the     *)
(* slot once the mutex is taken again; a hand-over or the end of the       *)
(* request may come between any two of them.                               *)
(***************************************************************************)
EXTENDS Integers, Sequences, FiniteSets, SequencesExt

CONSTANTS
  Requests,       (* HTTP requests, each begun at most once                *)
  Keys,           (* clients, by address                                   *)
  ClientCap,      (* 4 in the code                                         *)
  Shared,         (* requests whose statements run in fetchShared's        *)
                  (* goroutine, which the request's end does not stop      *)
  Tolerant,       (* requests that go on when a statement fails: a stats   *)
                  (* page whose revision read failed, a hop page whose     *)
                  (* statistics read failed                                *)
  MaxStatements,  (* bound: statements one request sends                   *)
  NoKey           (* the key of a request that has not begun               *)

ASSUME AdmissionAssumption ==
  /\ ClientCap \in Nat \ {0}
  /\ IsFiniteSet(Requests)
  /\ Shared \subseteq Requests
  /\ Tolerant \subseteq Requests
  /\ MaxStatements \in Nat
  /\ NoKey \notin Keys

VARIABLES
  holders,    (* per client: slots taken                                   *)
  waiters,    (* per client: requests queued for a slot, oldest first      *)
  key,        (* per request: its client                                   *)
  enforced,   (* requests whose family enforced when they began            *)
  admitted,   (* requests that went through Admit                          *)
  done,       (* requests that called finish                               *)
  slot,       (* per request: its slot state                               *)
  closed,     (* enforced waiters whose channel is closed                  *)
  late,       (* requests that stayed in the queue for ClientWait          *)
  flagged,    (* requests counted for the cap                              *)
  stmt,       (* per request: where its statement is                       *)
  sent,       (* per request: statements sent                              *)
  failed      (* requests one of whose statements got no ticket            *)

tableVars == <<holders, waiters>>
requestVars == <<key, enforced, done>>
stmtVars == <<stmt, sent, failed>>
vars == <<tableVars, requestVars, admitted, slot, closed, late, flagged,
          stmtVars>>

-----------------------------------------------------------------------------
Begun(r) == key[r] # NoKey

(* SetEnforce may replace the enforcing families at any time; a request    *)
(* keeps what it found when it began.                                      *)
Begin(r) ==
  /\ ~Begun(r)
  /\ \E k \in Keys : key' = [key EXCEPT ![r] = k]
  /\ enforced' \in {enforced, enforced \cup {r}}
  /\ UNCHANGED <<tableVars, done, admitted, slot, closed, late, flagged, stmtVars>>

(* An observed waiter that has waited too long is dropped when its turn    *)
(* comes; any other waiter is handed the slot.                             *)
Expired(r) == r \notin enforced /\ r \in late

(* Deviation: only the oldest waiter is looked at, even when it expired.   *)
TakenOne(q, room) == {i \in DOMAIN q : i = 1}
(* The waiters a loop that hands out room slots takes off queue q: all up  *)
(* to and including the one that gets the last slot.                       *)
Taken(q, room) ==
  {i \in DOMAIN q :
     Cardinality({j \in 1..(i-1) : ~Expired(q[j])}) < room}
(* Deviation: the newest waiter is served.                                 *)
HandedLast(q, room) == IF q = <<>> THEN {} ELSE {q[Len(q)]}
Handed(q, room) == {q[i] : i \in {j \in Taken(q, room) : ~Expired(q[j])}}
Discarded(q, room) == {q[i] : i \in {j \in Taken(q, room) : Expired(q[j])}}

(* release, with request r's slot: its client's waiters are served.        *)
release(r) ==
  LET k == key[r]
      q == waiters[k]
      room == ClientCap - (holders[k] - 1)
      handed == Handed(q, room)
      discarded == Discarded(q, room)
  IN /\ holders' = [holders EXCEPT ![k] = @ - 1 + Cardinality(handed)]
     /\ waiters' = [waiters EXCEPT
          ![k] = SubSeq(@, Cardinality(Taken(q, room)) + 1, Len(@))]
     /\ slot' = [x \in Requests |->
          IF x = r THEN "none"
          ELSE IF x \in handed THEN "holder"
          ELSE IF x \in discarded THEN "discarded"
          ELSE slot[x]]
     /\ closed' = closed \cup (handed \cap enforced)
     /\ flagged' = flagged \cup discarded

dequeue(r) == waiters' = [waiters EXCEPT ![key[r]] = RemoveFirst(@, r)]

(* Deviation: an overdue wait is not counted.                              *)
LeaveQueueUncounted(r) ==
  /\ slot[r] = "waiting"
  /\ dequeue(r)
  /\ slot' = [slot EXCEPT ![r] = "none"]
  /\ closed' = IF r \in enforced THEN closed \cup {r} ELSE closed
  /\ UNCHANGED <<holders, flagged>>

(* Deviation: an enforced request is left asleep.                          *)
LeaveQueueSilently(r) ==
  /\ slot[r] = "waiting"
  /\ dequeue(r)
  /\ slot' = [slot EXCEPT ![r] = "none"]
  /\ flagged' = IF Expired(r) THEN flagged \cup {r} ELSE flagged
  /\ UNCHANGED <<holders, closed>>

(* finish by a request that is still queued: an enforced one is woken.     *)
LeaveQueue(r) ==
  /\ slot[r] = "waiting"
  /\ dequeue(r)
  /\ slot' = [slot EXCEPT ![r] = "none"]
  /\ closed' = IF r \in enforced THEN closed \cup {r} ELSE closed
  /\ flagged' = IF Expired(r) THEN flagged \cup {r} ELSE flagged
  /\ UNCHANGED holders

(* The handler returned, or panicked: finish runs once.  A request waits   *)
(* for its own statements, but not for a shared fetch once its client went *)
(* away.                                                                   *)
finish(r) ==
  /\ Begun(r)
  /\ r \notin done
  /\ stmt[r] = "none" \/ r \in Shared
  /\ done' = done \cup {r}
  /\ \/ slot[r] = "holder" /\ release(r)
     \/ LeaveQueue(r)
     \/ /\ slot[r] \in {"none", "discarded"}
        /\ UNCHANGED <<tableVars, slot, closed, flagged>>
  /\ UNCHANGED <<key, enforced, admitted, late, stmtVars>>

-----------------------------------------------------------------------------
(* Admit.  A statement without a ticket fails; one with a ticket, inert or *)
(* not, runs.                                                              *)

(* Deviation: one slot too many.                                           *)
TakeSlotWide(r) ==
  /\ holders[key[r]] <= ClientCap
  /\ holders' = [holders EXCEPT ![key[r]] = @ + 1]
  /\ slot' = [slot EXCEPT ![r] = "holder"]
  /\ UNCHANGED waiters

TakeSlot(r) ==
  /\ holders[key[r]] < ClientCap
  /\ holders' = [holders EXCEPT ![key[r]] = @ + 1]
  /\ slot' = [slot EXCEPT ![r] = "holder"]
  /\ UNCHANGED waiters

JoinQueue(r) ==
  /\ holders[key[r]] >= ClientCap
  /\ waiters' = [waiters EXCEPT ![key[r]] = Append(@, r)]
  /\ slot' = [slot EXCEPT ![r] = "waiting"]
  /\ UNCHANGED holders

Admit(r) ==
  /\ Begun(r)
  /\ r \notin done \/ r \in Shared
  /\ stmt[r] = "none"
  /\ sent[r] < MaxStatements
  /\ r \in failed => r \in Tolerant
  /\ sent' = [sent EXCEPT ![r] = @ + 1]
  /\ IF r \in done \cup admitted
     THEN UNCHANGED <<tableVars, admitted, slot>>
     ELSE /\ admitted' = admitted \cup {r}
          /\ TakeSlot(r) \/ JoinQueue(r)
  /\ stmt' = [stmt EXCEPT ![r] =
       IF r \in enforced /\ slot'[r] = "waiting" /\ r \notin admitted
       THEN "waiting" ELSE "running"]
  /\ UNCHANGED <<requestVars, closed, late, flagged, failed>>

(* A queued request has waited for ClientWait.                             *)
Late(r) ==
  /\ slot[r] = "waiting"
  /\ late' = late \cup {r}
  /\ UNCHANGED <<tableVars, requestVars, admitted, slot, closed, flagged, stmtVars>>

(* The select returns: the channel was closed, the timer fired, or the     *)
(* statement's context ended (its client is gone, or its own time limit    *)
(* is up).  Whichever it was, what counts is the state found under g.mu.   *)
Wake(r) ==
  /\ stmt[r] = "waiting"
  /\ \/ r \in closed /\ stmt' = [stmt EXCEPT ![r] = "woken"]
     \/ r \in late /\ stmt' = [stmt EXCEPT ![r] = "timedOut"]
     \/ r \notin Shared /\ stmt' = [stmt EXCEPT ![r] = "cancelled"]
  /\ UNCHANGED <<tableVars, requestVars, admitted, slot, closed, late, flagged,
                 sent, failed>>

Awake == {"woken", "timedOut", "cancelled"}

(* Deviations: what woke the select decides; a request that has waited      *)
(* long enough runs anyway.                                                *)
GrantedIfWoken(r) == r \in done \/ stmt[r] = "woken"
GrantedIfLate(r) == r \in done \/ slot[r] = "holder" \/ stmt[r] = "timedOut"
(* Back under g.mu with the request over, or with the slot handed over in  *)
(* the meantime: the statement runs.                                       *)
Granted(r) == r \in done \/ slot[r] = "holder"

Resume(r) ==
  /\ stmt[r] \in Awake
  /\ Granted(r)
  /\ stmt' = [stmt EXCEPT ![r] = "running"]
  /\ UNCHANGED <<tableVars, requestVars, admitted, slot, closed, late, flagged,
                 sent, failed>>

GiveUp(r) ==
  /\ stmt[r] \in Awake
  /\ ~Granted(r)
  /\ dequeue(r)
  /\ slot' = [slot EXCEPT ![r] = "none"]
  /\ flagged' = IF stmt[r] = "timedOut" THEN flagged \cup {r} ELSE flagged
  /\ stmt' = [stmt EXCEPT ![r] = "none"]
  /\ failed' = failed \cup {r}
  /\ UNCHANGED <<holders, requestVars, admitted, closed, late, sent>>

(* The statement is over and its rows are closed.                          *)
StatementEnds(r) ==
  /\ stmt[r] = "running"
  /\ stmt' = [stmt EXCEPT ![r] = "none"]
  /\ UNCHANGED <<tableVars, requestVars, admitted, slot, closed, late, flagged,
                 sent, failed>>

-----------------------------------------------------------------------------
Init ==
  /\ holders = [k \in Keys |-> 0]
  /\ waiters = [k \in Keys |-> <<>>]
  /\ key = [r \in Requests |-> NoKey]
  /\ enforced = {} /\ admitted = {} /\ done = {}
  /\ slot = [r \in Requests |-> "none"]
  /\ closed = {} /\ late = {} /\ flagged = {} /\ failed = {}
  /\ stmt = [r \in Requests |-> "none"]
  /\ sent = [r \in Requests |-> 0]

Next ==
  \E r \in Requests :
    \/ Begin(r) \/ finish(r)
    \/ Admit(r) \/ Late(r) \/ Wake(r) \/ Resume(r) \/ GiveUp(r)
    \/ StatementEnds(r)

Spec == Init /\ [][Next]_vars

-----------------------------------------------------------------------------
(* Properties                                                              *)

SlotStates == {"none", "holder", "waiting", "discarded"}
StmtStates == {"none", "waiting", "running"} \cup Awake

(* Every variable has its type; a client's slot count stays between zero   *)
(* and ClientCap.                                                          *)
TypeOK ==
  /\ holders \in [Keys -> 0..ClientCap]
  /\ waiters \in [Keys -> Seq(Requests)]
  /\ key \in [Requests -> Keys \cup {NoKey}]
  /\ {enforced, admitted, done, closed, late, flagged, failed}
        \subseteq SUBSET Requests
  /\ slot \in [Requests -> SlotStates]
  /\ stmt \in [Requests -> StmtStates]
  /\ sent \in [Requests -> Nat]

(* The slots a client is charged for are those its unfinished requests     *)
(* hold: none is lost when a hand-over meets a timeout or the end of the   *)
(* request, and none is freed twice.                                       *)
HoldersExact ==
  /\ \A k \in Keys :
       holders[k] = Cardinality({r \in Requests :
                                   key[r] = k /\ slot[r] = "holder"})
  /\ \A r \in done : slot[r] # "holder"

(* The queue of a client holds each of its waiting requests once and       *)
(* nobody else: whoever gives up or ends leaves it.                        *)
QueueExact ==
  \A k \in Keys :
    /\ IsInjective(waiters[k])
    /\ ToSet(waiters[k])
         = {r \in Requests \ done : key[r] = k /\ slot[r] = "waiting"}

(* Nobody waits while a slot is free, however many waiters a hand-over     *)
(* discards on its way.                                                    *)
NoIdleSlot == \A k \in Keys : waiters[k] # <<>> => holders[k] = ClientCap

(* A request asleep in Admit can still be woken by whoever changes its     *)
(* fate: it is in the queue, or its channel is closed.                     *)
NoLostWakeup ==
  \A r \in Requests : stmt[r] = "waiting" => slot[r] = "waiting" \/ r \in closed

(* Observing predicts enforcing: when an observed request is over, it was  *)
(* counted for the cap if and only if it stayed queued past ClientWait.    *)
ObservedCountsLate ==
  \A r \in done \ enforced : r \in flagged <=> r \in late

(* Slots go to waiters oldest first: nobody gets one past an older request *)
(* of the same client that still waits.                                    *)
OldestFirst ==
  [][\A k \in Keys : \A i, j \in DOMAIN waiters[k] :
       i < j /\ slot'[waiters[k][j]] = "holder"
         => slot'[waiters[k][i]] # "waiting"]_vars

(* A running statement of an enforced request that is not over, and none   *)
(* of whose statements failed, is covered by a slot.                       *)
RunsWithSlot ==
  \A r \in enforced \ (done \cup failed) :
    stmt[r] = "running" => slot[r] = "holder"

=============================================================================
