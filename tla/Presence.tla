------------------------------ MODULE Presence ------------------------------
(***************************************************************************)
(* The presence coalescer of internal/presence/coalescer.go as far as it   *)
(* is about observers, between the ingest workers, the observers table,    *)
(* the flush ticker, the observer cleanup and the shutdown.                *)
(*                                                                         *)
(* A cached observer's activity is recorded in memory and reaches the      *)
(* table with the next flush; an unknown observer is written through.  The *)
(* maps are read and changed under the mutex, but every call to the store  *)
(* happens outside of it: what was read before may be stale after.         *)
(***************************************************************************)
EXTENDS Integers, FiniteSets

CONSTANTS
  Observers,
  Workers,         (* ingest goroutines                                    *)
  StatusNames,     (* display names status messages set                    *)
  Unnamed,         (* the name of a new row                                *)
  DeleteAfter,     (* age at which the cleanup may delete an observer      *)
  MayFail,         (* the flushes that can fail                            *)
  MaxTime,         (* bound: the clock                                     *)
  MaxHeard,        (* bound: packets and status messages taken up          *)
  None,
  Stopped          (* a worker that has returned                           *)

ASSUME PresenceAssumption ==
  /\ DeleteAfter \in Nat \ {0}
  /\ MayFail \subseteq {"ticker", "cleanup"}
  /\ MaxTime \in Nat \ {0}
  /\ MaxHeard \in Nat

(* What the variables hold.                                                *)
Times == 0..MaxTime
Ids == 1..MaxTime
Names == StatusNames \cup {Unnamed}
Rows == [id : Ids, seen : Times, count : Nat, name : Names]
Identities == [id : Ids, name : Names, seen : Times]
Bumps == [id : Ids, seen : Times, count : Nat]
Batches == [Observers -> Bumps \cup {None}]
Flushes == [since : Times, batch : Batches]
Cleanups == [step : {"flush", "delete"}, batch : Batches, cutoff : Times]
Calls ==
  [call : {"upsert", "forget"}, observer : Observers, since : Times] \cup
  [call : {"cache"}, observer : Observers, since : Times, id : Ids, name : Names]

ASSUME NoneAssumption ==
  /\ None # Stopped
  /\ None \notin Rows \cup Identities \cup Bumps \cup Flushes \cup Cleanups \cup Calls
  /\ Stopped \notin Calls

VARIABLES
  clock,
  row,        (* the observers table; None where there is no row           *)
  identities, (* the cached observers                                      *)
  dirty,      (* activity not flushed yet                                  *)
  worker,     (* per worker: the call to the store it is in                *)
  ticker,     (* the batch Run is flushing and since when, or None         *)
  cleanup,    (* the cleanup: its batch and cutoff, or None                *)
  server,     (* how far the shutdown is                                   *)
  \* History.
  heard,      (* calls so far                                              *)
  active,     (* per observer: its last activity                           *)
  hearings,   (* per observer: times it was upserted                       *)
  lost,       (* per observer: of those, how many no row counts any more   *)
  unsaved     (* observers of a cleanup whose flush failed, until upserted *)

memory == <<identities, dirty>>
history == <<heard, active, hearings, lost, unsaved>>
vars == <<clock, row, memory, worker, ticker, cleanup, server, history>>

InCall(w) == worker[w] \notin {None, Stopped}
Later(s, t) == IF s > t THEN s ELSE t
NoBump == [id |-> 0, seen |-> 0, count |-> 0]
NoDirt == [o \in Observers |-> None]
BumpOf(batch, o) == IF batch[o] = None THEN NoBump ELSE batch[o]
Hears(o) ==
  /\ active' = [active EXCEPT ![o] = clock]
  /\ hearings' = [hearings EXCEPT ![o] = @ + 1]

-----------------------------------------------------------------------------
(* UpsertObserver and UpdateObserverStatus, called by the workers.         *)

Starts(w) ==
  /\ worker[w] = None
  /\ heard < MaxHeard
  /\ heard' = heard + 1

(* The observer is cached: nothing is written.                             *)
UpsertCached(w, o) ==
  /\ Starts(w)
  /\ identities[o] # None
  /\ dirty' = [dirty EXCEPT ![o] =
       [id |-> identities[o].id, seen |-> clock, count |-> BumpOf(dirty, o).count + 1]]
  /\ identities' = [identities EXCEPT ![o].seen = clock]
  /\ Hears(o)
  /\ UNCHANGED <<clock, row, worker, ticker, cleanup, server, lost, unsaved>>

UpsertMissed(w, o) ==
  /\ Starts(w)
  /\ identities[o] = None
  /\ worker' = [worker EXCEPT ![w] = [call |-> "upsert", observer |-> o, since |-> clock]]
  /\ UNCHANGED <<clock, row, memory, ticker, cleanup, server, active, hearings, lost,
                 unsaved>>

(* The store's upsert; a row starts with a count of zero.  The id of a row *)
(* is the time of its insertion, which no other row of the observer has.   *)
StoreUpsert(w) ==
  /\ InCall(w)
  /\ worker[w].call = "upsert"
  /\ LET o == worker[w].observer IN
     /\ IF row[o] = None
        THEN /\ row' = [row EXCEPT ![o] =
                          [id |-> clock, seen |-> clock, count |-> 0, name |-> Unnamed]]
             /\ lost' = [lost EXCEPT ![o] = @ + 1]
        ELSE /\ row' = [row EXCEPT ![o].seen = clock, ![o].count = @ + 1]
             /\ UNCHANGED lost
     /\ worker' = [worker EXCEPT ![w] =
          [call |-> "cache", observer |-> o, since |-> clock,
           id |-> row'[o].id, name |-> row'[o].name]]
     /\ Hears(o)
     /\ unsaved' = unsaved \ {o}
  /\ UNCHANGED <<clock, memory, ticker, cleanup, server, heard>>

StoreUpsertFails(w) ==
  /\ InCall(w)
  /\ worker[w].call = "upsert"
  /\ worker' = [worker EXCEPT ![w] = None]
  /\ UNCHANGED <<clock, row, memory, ticker, cleanup, server, history>>

CacheIdentity(w) ==
  /\ InCall(w)
  /\ worker[w].call = "cache"
  /\ identities' = [identities EXCEPT ![worker[w].observer] =
       [id |-> worker[w].id, name |-> worker[w].name, seen |-> clock]]
  /\ worker' = [worker EXCEPT ![w] = None]
  /\ UNCHANGED <<clock, row, dirty, ticker, cleanup, server, history>>

(* A status message, after its own UpsertObserver; it may set the name.    *)
StoreStatus(w, o, name) ==
  /\ Starts(w)
  /\ row[o] # None
  /\ row' = [row EXCEPT ![o].seen = clock, ![o].name = name]
  /\ active' = [active EXCEPT ![o] = clock]
  /\ worker' = [worker EXCEPT ![w] = [call |-> "forget", observer |-> o, since |-> clock]]
  /\ UNCHANGED <<clock, memory, ticker, cleanup, server, hearings, lost, unsaved>>

ForgetIdentity(w) ==
  /\ InCall(w)
  /\ worker[w].call = "forget"
  /\ identities' = [identities EXCEPT ![worker[w].observer] = None]
  /\ worker' = [worker EXCEPT ![w] = None]
  /\ UNCHANGED <<clock, row, dirty, ticker, cleanup, server, history>>

-----------------------------------------------------------------------------
(* Flushes                                                                 *)

(* Deviation: the flushed time replaces the stored one.                    *)
TouchedBlindly(r, bump) ==
  [r EXCEPT !.seen = bump.seen, !.count = @ + bump.count]
(* TouchObservers: one statement; GREATEST keeps a fresher last_seen.      *)
Touched(r, bump) ==
  [r EXCEPT !.seen = Later(@, bump.seen), !.count = @ + bump.count]

TouchObservers(batch) ==
  LET Applies(o) == row[o] # None /\ row[o].id = BumpOf(batch, o).id IN
  /\ row' = [o \in Observers |->
       IF Applies(o) THEN Touched(row[o], batch[o]) ELSE row[o]]
  /\ lost' = [o \in Observers |->
       lost[o] + IF Applies(o) THEN 0 ELSE BumpOf(batch, o).count]

(* A failed batch is dropped.                                              *)
TouchFails(batch) ==
  /\ lost' = [o \in Observers |-> lost[o] + BumpOf(batch, o).count]
  /\ UNCHANGED row

(* Deviation: the batch also stays where it was.                           *)
TakeDirtyKeeps ==
  ticker' = [since |-> clock, batch |-> dirty] /\ UNCHANGED dirty
TakeDirty ==
  ticker' = [since |-> clock, batch |-> dirty] /\ dirty' = NoDirt

(* Flush, first half: by the ticker, by Run on its way out, and by finish  *)
(* when every writer has stopped and Run has returned.                     *)
BeginFlush ==
  /\ ticker = None
  /\ TakeDirty
  /\ \/ server = "up" /\ UNCHANGED server
     \/ server = "stopping" /\ server' = "returned"
     \/ server = "finishing" /\ server' = "finished"
  /\ UNCHANGED <<clock, row, identities, worker, cleanup, history>>

EndFlush ==
  /\ ticker # None
  /\ \/ TouchObservers(ticker.batch)
     \/ "ticker" \in MayFail /\ TouchFails(ticker.batch)
  /\ ticker' = None
  /\ UNCHANGED <<clock, memory, worker, cleanup, server, heard, active, hearings,
                 unsaved>>

-----------------------------------------------------------------------------
(* DeleteOldObservers                                                      *)

(* Deviation: only what is dirty is saved before the deletion.             *)
SavedDirtyOnly == dirty
(* What the cleanup saves: the dirty activity, and the last activity of    *)
(* every cached observer, whose flush may have failed or not be over.      *)
Saved ==
  [o \in Observers |->
     IF identities[o] = None THEN dirty[o]
     ELSE [id |-> identities[o].id,
           seen |-> Later(BumpOf(dirty, o).seen, identities[o].seen),
           count |-> BumpOf(dirty, o).count]]

(* Deviation: what is cached stays cached.                                 *)
BeginCleanupRemembers ==
  /\ server = "up"
  /\ cleanup = None
  /\ clock > DeleteAfter
  /\ cleanup' = [step |-> "flush", batch |-> Saved, cutoff |-> clock - DeleteAfter]
  /\ dirty' = NoDirt
  /\ UNCHANGED <<clock, row, identities, worker, ticker, server, history>>

BeginCleanup ==
  /\ server = "up"
  /\ cleanup = None
  /\ clock > DeleteAfter
  /\ cleanup' = [step |-> "flush", batch |-> Saved, cutoff |-> clock - DeleteAfter]
  /\ dirty' = NoDirt
  /\ identities' = [o \in Observers |-> None]
  /\ UNCHANGED <<clock, row, worker, ticker, server, history>>

(* Its flush; an error ends the cleanup, and what it held is gone.         *)
CleanupFlush ==
  /\ cleanup # None
  /\ cleanup.step = "flush"
  /\ \/ /\ TouchObservers(cleanup.batch)
        /\ cleanup' = [cleanup EXCEPT !.step = "delete", !.batch = NoDirt]
        /\ UNCHANGED unsaved
     \/ /\ "cleanup" \in MayFail
        /\ TouchFails(cleanup.batch)
        /\ cleanup' = None
        /\ unsaved' = unsaved \cup {o \in Observers : cleanup.batch[o] # None}
  /\ UNCHANGED <<clock, memory, worker, ticker, server, heard, active, hearings>>

(* The deletion takes some of the expired rows: those with history, and    *)
(* those another transaction holds, stay.                                  *)
CleanupDelete ==
  /\ cleanup # None
  /\ cleanup.step = "delete"
  /\ \E S \in SUBSET {o \in Observers : row[o] # None /\ row[o].seen < cleanup.cutoff} :
       /\ row' = [o \in Observers |-> IF o \in S THEN None ELSE row[o]]
       /\ lost' = [o \in Observers |->
            lost[o] + IF o \in S THEN row[o].count ELSE 0]
  /\ cleanup' = None
  /\ UNCHANGED <<clock, memory, worker, ticker, server, heard, active, hearings,
                 unsaved>>

-----------------------------------------------------------------------------
(* Shutdown (cmd/beacon/main.go): the context ends; Run flushes once more  *)
(* and returns while the workers drain; when they have stopped, finish     *)
(* flushes what they left.                                                 *)

Shutdown ==
  /\ server = "up"
  /\ server' = "stopping"
  /\ UNCHANGED <<clock, row, memory, worker, ticker, cleanup, history>>

WorkerStops(w) ==
  /\ server # "up"
  /\ worker[w] = None
  /\ worker' = [worker EXCEPT ![w] = Stopped]
  /\ UNCHANGED <<clock, row, memory, ticker, cleanup, server, history>>

(* Deviation: finish only waits for Run.                                   *)
WritersStoppedMaybe == TRUE
(* All workers returned.  The wait for the cleanup, one of the background  *)
(* jobs, gives up after a while.                                           *)
WritersStopped == \A w \in Workers : worker[w] = Stopped

Finish ==
  /\ server = "returned"
  /\ ticker = None
  /\ WritersStopped
  /\ server' = "finishing"
  /\ UNCHANGED <<clock, row, memory, worker, ticker, cleanup, history>>

(* A tick is long: between two of them every call to the store ends, and   *)
(* the flush interval passes.                                              *)
Tick ==
  /\ clock < MaxTime
  /\ \A w \in Workers : InCall(w) => worker[w].since = clock
  /\ ticker # None => ticker.since = clock
  /\ server = "up" => \A o \in Observers : dirty[o] # None => dirty[o].seen = clock
  /\ clock' = clock + 1
  /\ UNCHANGED <<row, memory, worker, ticker, cleanup, server, history>>

-----------------------------------------------------------------------------
Init ==
  /\ clock = 1
  /\ row = [o \in Observers |-> None]
  /\ identities = [o \in Observers |-> None]
  /\ dirty = NoDirt
  /\ worker = [w \in Workers |-> None]
  /\ ticker = None /\ cleanup = None
  /\ server = "up"
  /\ heard = 0
  /\ active = [o \in Observers |-> 0]
  /\ hearings = [o \in Observers |-> 0]
  /\ lost = [o \in Observers |-> 0]
  /\ unsaved = {}

Work(w) ==
  \/ \E o \in Observers : \/ UpsertCached(w, o) \/ UpsertMissed(w, o)
                          \/ \E name \in StatusNames : StoreStatus(w, o, name)
  \/ StoreUpsert(w) \/ StoreUpsertFails(w) \/ CacheIdentity(w)
  \/ ForgetIdentity(w) \/ WorkerStops(w)

Next ==
  \/ \E w \in Workers : Work(w)
  \/ BeginFlush \/ EndFlush
  \/ BeginCleanup \/ CleanupFlush \/ CleanupDelete
  \/ Shutdown \/ Finish
  \/ Tick

Spec == Init /\ [][Next]_vars

-----------------------------------------------------------------------------
(* Properties                                                              *)

(* Every variable has its type; no counter is ever negative.               *)
TypeOK ==
  /\ clock \in Ids
  /\ row \in [Observers -> Rows \cup {None}]
  /\ identities \in [Observers -> Identities \cup {None}]
  /\ dirty \in Batches
  /\ worker \in [Workers -> Calls \cup {None, Stopped}]
  /\ ticker \in Flushes \cup {None}
  /\ cleanup \in Cleanups \cup {None}
  /\ server \in {"up", "stopping", "returned", "finishing", "finished"}
  /\ unsaved \subseteq Observers
  /\ active \in [Observers -> Nat] /\ hearings \in [Observers -> Nat] /\ lost \in [Observers -> Nat]

CountIn(batch, o) == BumpOf(batch, o).count

(* Every time an observer was upserted is in exactly one place: in its     *)
(* row, in memory, in a batch on its way to the table, or lost with a      *)
(* failed batch or a row that is gone.  Nothing is counted twice when      *)
(* flush, cleanup and workers meet.  (The sum needs the types.)            *)
CountsConserved ==
  /\ TypeOK
  /\ \A o \in Observers :
      hearings[o] = lost[o] + CountIn(dirty, o)
                    + (IF row[o] = None THEN 0 ELSE row[o].count)
                    + (IF ticker = None THEN 0 ELSE CountIn(ticker.batch, o))
                    + (IF cleanup = None THEN 0 ELSE CountIn(cleanup.batch, o))

(* The cleanup only deletes observers that were silent for DeleteAfter,    *)
(* though their last activity may never have reached the table: flushes    *)
(* fail, and are slow.  A status message that is slow to drop the identity *)
(* may cost a tick, and a cleanup whose own flush fails has dropped the    *)
(* last activity, which the next upsert renews (DeleteOldObservers).       *)
RecentSurvives ==
  [][\A o \in Observers :
       row[o] # None /\ row'[o] = None => active[o] <= cleanup.cutoff \/ o \in unsaved]_vars

(* A cached observer has the row its identity names: else its activity     *)
(* would vanish without a trace, for as long as it goes on being heard.    *)
CachedHasRow ==
  \A o \in Observers :
    identities[o] # None => row[o] # None /\ row[o].id = identities[o].id

(* When finish returns, the memory holds nothing that is not flushed: the  *)
(* connections close next.                                                 *)
FinishLeavesNothing == server = "finished" => dirty = NoDirt
=============================================================================
