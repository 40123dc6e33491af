-------------------------- MODULE PresenceProofs --------------------------
(***************************************************************************)
(* Theorems of Presence, for any observers, workers and bounds: no hearing *)
(* is counted twice or vanishes, a cached observer has its row, a recently *)
(* active one is not deleted, and the last flush leaves nothing.           *)
(***************************************************************************)
EXTENDS Presence, TLAPS

(* A call to the store ends within the tick after the one it began in.     *)
Prompt ==
  /\ \A w \in Workers : InCall(w) => worker[w].since <= clock /\ clock <= worker[w].since + 1
  /\ cleanup # None => cleanup.cutoff < clock

(* What a cleanup saved is flushed before it deletes.                      *)
Emptied == cleanup # None /\ cleanup.step = "delete" => cleanup.batch = NoDirt

Typed == TypeOK /\ Prompt /\ Emptied

(* A row the store returned is there until its identity is cached, and a   *)
(* cleanup does not delete it, nor that of a cached observer.              *)
Named ==
  /\ CachedHasRow
  /\ \A w \in Workers : InCall(w) /\ worker[w].call = "cache" =>
       /\ row[worker[w].observer] # None
       /\ row[worker[w].observer].id = worker[w].id
       /\ row[worker[w].observer].seen >= worker[w].since
  /\ cleanup # None =>
       \A o \in Observers : identities[o] # None => row[o].seen >= cleanup.cutoff

(* The last activity of an observer is in its row but for a tick, in its   *)
(* identity, or on its way with the cleanup.                               *)
Kept(o) ==
  \/ active[o] <= row[o].seen + 1
  \/ identities[o] # None /\ active[o] <= identities[o].seen
  \/ /\ cleanup # None
     /\ cleanup.step = "flush"
     /\ cleanup.batch[o] # None
     /\ cleanup.batch[o].id = row[o].id
     /\ active[o] <= cleanup.batch[o].seen

(* That is so for every row, unless the cleanup lost it; a status message  *)
(* that has yet to drop the identity has written the row.                  *)
Remembered ==
  /\ \A o \in Observers : active[o] <= clock
  /\ \A w \in Workers : InCall(w) /\ worker[w].call = "forget" =>
       LET o == worker[w].observer IN row[o] # None => row[o].seen >= worker[w].since
  /\ \A o \in Observers \ unsaved : row[o] # None => Kept(o)

(* Once Run has returned and finish flushes, every writer has stopped.     *)
Quiet ==
  /\ server \in {"finishing", "finished"} => WritersStopped
  /\ server = "finished" => dirty = NoDirt

-----------------------------------------------------------------------------
(* The initial states satisfy the invariant.                               *)
LEMMA TypedInit == Init => Typed
<1> SUFFICES ASSUME Init PROVE Typed
  OBVIOUS
<1> USE PresenceAssumption, NoneAssumption DEF Init
<1>1. dirty \in Batches
  BY DEF Batches, NoDirt
<1>2. clock \in Ids
  BY DEF Ids
<1>3. \A w \in Workers : ~ InCall(w)
  BY DEF InCall
<1> QED
  BY <1>1, <1>2, <1>3 DEF Typed, TypeOK, Prompt, Emptied

LEMMA NoDirtType == NoDirt \in Batches
BY DEF NoDirt, Batches

(* A batch has a bump or None for every observer, and a bump is not None.  *)
LEMMA BumpType ==
  ASSUME NEW batch \in Batches, NEW o \in Observers
  PROVE  /\ BumpOf(batch, o).count \in Nat
         /\ BumpOf(batch, o).seen \in Times
         /\ batch[o] = None => BumpOf(batch, o).count = 0
         /\ batch[o] # None => BumpOf(batch, o) = batch[o]
BY PresenceAssumption DEF Batches, Bumps, BumpOf, NoBump, Times, Ids

(* A touched row is a row, fresher and with a higher count.                *)
LEMMA TouchedType ==
  ASSUME NEW r \in Rows, NEW bump \in Bumps
  PROVE  /\ Touched(r, bump) \in Rows
         /\ Touched(r, bump).id = r.id
         /\ Touched(r, bump).count = r.count + bump.count
         /\ Touched(r, bump).seen = Later(r.seen, bump.seen)
<1>1. /\ r.count + bump.count \in Nat
      /\ Later(r.seen, bump.seen) \in Times
  BY PresenceAssumption DEF Rows, Bumps, Later, Times
<1> QED
  BY <1>1 DEF Touched, Rows

(* A flush changes rows only as Touched says, and counts what it loses.    *)
LEMMA TouchType ==
  ASSUME Typed, NEW batch \in Batches, TouchObservers(batch) \/ TouchFails(batch)
  PROVE  /\ row' \in [Observers -> Rows \cup {None}]
         /\ lost' \in [Observers -> Nat]
<1> USE DEF Typed, TypeOK
<1>1. \A o \in Observers : BumpOf(batch, o).count \in Nat
  BY BumpType
<1>2. lost' \in [Observers -> Nat]
  BY <1>1 DEF TouchObservers, TouchFails
<1>3. CASE TouchFails(batch)
  BY <1>2, <1>3 DEF TouchFails
<1>4. CASE TouchObservers(batch)
  <2>1. ASSUME NEW o \in Observers, row[o] # None, row[o].id = BumpOf(batch, o).id,
               batch[o] # None
        PROVE  Touched(row[o], batch[o]) \in Rows
    BY <2>1, TouchedType DEF Batches
  <2>2. ASSUME NEW o \in Observers, row[o] # None, row[o].id = BumpOf(batch, o).id,
               batch[o] = None
        PROVE  FALSE
    <3> QED
      BY <2>2 DEF BumpOf, NoBump, Rows, Ids
  <2> QED
    BY <1>2, <1>4, <2>1, <2>2 DEF TouchObservers
<1> QED
  BY <1>3, <1>4

(* Every step keeps the types.                                             *)
LEMMA TypedStep == Typed /\ [Next]_vars => Typed'
<1> SUFFICES ASSUME Typed, [Next]_vars PROVE Typed'
  OBVIOUS
<1> USE PresenceAssumption, NoneAssumption
    DEF Typed, TypeOK, memory, history, Times, Ids, Names, Rows, Identities, Bumps, Batches, Flushes,
        Cleanups, Calls
<1>1. ASSUME NEW w \in Workers, NEW o \in Observers, UpsertCached(w, o) PROVE Typed'
  <2>1. TypeOK'
    BY <1>1 DEF UpsertCached, Starts, Hears, BumpOf, NoBump, Bumps, InCall
  <2>2. Prompt'
    BY <1>1 DEF UpsertCached, Starts, Hears, BumpOf, NoBump, Bumps, InCall, Prompt
  <2>3. Emptied'
    BY <1>1 DEF UpsertCached, Emptied
  <2> QED
    BY <2>1, <2>2, <2>3
<1>2. ASSUME NEW w \in Workers, NEW o \in Observers, UpsertMissed(w, o) PROVE Typed'
  <2>1. TypeOK'
    BY <1>2 DEF UpsertMissed, Starts, InCall
  <2>2. Prompt'
    BY <1>2 DEF UpsertMissed, Starts, InCall, Prompt
  <2>3. Emptied'
    BY <1>2 DEF UpsertMissed, Emptied
  <2> QED
    BY <2>1, <2>2, <2>3
<1>3. ASSUME NEW w \in Workers, NEW o \in Observers, NEW name \in StatusNames, StoreStatus(w, o, name) PROVE Typed'
  <2>1. row[o] \in Rows /\ clock \in Times /\ name \in Names
    BY <1>3 DEF StoreStatus
  <2>2. [row[o] EXCEPT !.seen = clock, !.name = name] \in Rows
    BY <2>1 DEF Rows
  <2>3. row' = [row EXCEPT ![o] = [row[o] EXCEPT !.seen = clock, !.name = name]]
    BY <1>3 DEF StoreStatus
  <2>4. row' \in [Observers -> Rows \cup {None}]
    BY <2>2, <2>3
  <2>5. TypeOK'
    BY <1>3, <2>4 DEF StoreStatus, Starts
  <2>6. Prompt'
    BY <1>3 DEF StoreStatus, InCall, Prompt
  <2>7. Emptied'
    BY <1>3 DEF StoreStatus, Emptied
  <2> QED
    BY <2>5, <2>6, <2>7
<1>4. ASSUME NEW w \in Workers, StoreUpsert(w) PROVE Typed'
  <2>1. PICK o \in Observers : o = worker[w].observer
    BY <1>4 DEF StoreUpsert, InCall
  <2>2. /\ row' \in [Observers -> Rows \cup {None}]
        /\ row'[o] \in Rows
        /\ lost' \in [Observers -> Nat]
    BY <1>4, <2>1 DEF StoreUpsert
  <2>3. [call |-> "cache", observer |-> o, since |-> clock, id |-> row'[o].id,
         name |-> row'[o].name] \in Calls
    BY <2>2
  <2>4. /\ worker' = [worker EXCEPT ![w] =
             [call |-> "cache", observer |-> o, since |-> clock, id |-> row'[o].id,
              name |-> row'[o].name]]
        /\ active' \in [Observers -> Nat] /\ hearings' \in [Observers -> Nat]
    BY <1>4, <2>1 DEF StoreUpsert, Hears
  <2>5. TypeOK'
    BY <1>4, <2>2, <2>3, <2>4 DEF StoreUpsert
  <2>6. Prompt'
    BY <1>4, <2>4 DEF StoreUpsert, InCall, Prompt
  <2>7. Emptied'
    BY <1>4 DEF StoreUpsert, Emptied
  <2> QED
    BY <2>5, <2>6, <2>7
<1>5. ASSUME NEW w \in Workers, StoreUpsertFails(w) PROVE Typed'
  <2>1. TypeOK'
    BY <1>5 DEF StoreUpsertFails, InCall
  <2>2. Prompt'
    BY <1>5 DEF StoreUpsertFails, InCall, Prompt
  <2>3. Emptied'
    BY <1>5 DEF StoreUpsertFails, Emptied
  <2> QED
    BY <2>1, <2>2, <2>3
<1>6. ASSUME NEW w \in Workers, CacheIdentity(w) PROVE Typed'
  <2>1. TypeOK'
    BY <1>6 DEF CacheIdentity, InCall
  <2>2. Prompt'
    BY <1>6 DEF CacheIdentity, InCall, Prompt
  <2>3. Emptied'
    BY <1>6 DEF CacheIdentity, Emptied
  <2> QED
    BY <2>1, <2>2, <2>3
<1>7. ASSUME NEW w \in Workers, ForgetIdentity(w) PROVE Typed'
  <2>1. TypeOK'
    BY <1>7 DEF ForgetIdentity, InCall
  <2>2. Prompt'
    BY <1>7 DEF ForgetIdentity, InCall, Prompt
  <2>3. Emptied'
    BY <1>7 DEF ForgetIdentity, Emptied
  <2> QED
    BY <2>1, <2>2, <2>3
<1>8. ASSUME NEW w \in Workers, WorkerStops(w) PROVE Typed'
  <2>1. TypeOK'
    BY <1>8 DEF WorkerStops, InCall
  <2>2. Prompt'
    BY <1>8 DEF WorkerStops, InCall, Prompt
  <2>3. Emptied'
    BY <1>8 DEF WorkerStops, Emptied
  <2> QED
    BY <2>1, <2>2, <2>3
<1>9. CASE BeginFlush
  <2>1. TypeOK'
    BY <1>9 DEF BeginFlush, TakeDirty, NoDirt, InCall
  <2>2. Prompt'
    BY <1>9 DEF BeginFlush, TakeDirty, NoDirt, InCall, Prompt
  <2>3. Emptied'
    BY <1>9 DEF BeginFlush, Emptied
  <2> QED
    BY <2>1, <2>2, <2>3
<1>10. CASE EndFlush
  <2>1. row' \in [Observers -> Rows \cup {None}] /\ lost' \in [Observers -> Nat]
    BY <1>10, TouchType DEF EndFlush, Flushes, Cleanups
  <2>2. ticker' \in Flushes \cup {None}
    BY <1>10, NoDirtType DEF EndFlush
  <2>3. UNCHANGED <<clock, memory, worker, server, active, hearings>> /\ unsaved' \subseteq Observers
    BY <1>10 DEF EndFlush
  <2>4. TypeOK'
    BY <1>10, <2>1, <2>2, <2>3 DEF EndFlush
  <2>5. Prompt'
    BY <1>10 DEF EndFlush, InCall, Prompt
  <2>6. Emptied'
    BY <1>10 DEF EndFlush, Emptied, Cleanups
  <2> QED
    BY <2>4, <2>5, <2>6
<1>11. CASE BeginCleanup
  <2>1. TypeOK'
    BY <1>11 DEF BeginCleanup, Saved, NoDirt, Later, BumpOf, NoBump, InCall
  <2>2. Prompt'
    BY <1>11 DEF BeginCleanup, Saved, NoDirt, Later, BumpOf, NoBump, InCall, Prompt
  <2>3. Emptied'
    BY <1>11 DEF BeginCleanup, Emptied
  <2> QED
    BY <2>1, <2>2, <2>3
<1>12. CASE CleanupFlush
  <2>1. row' \in [Observers -> Rows \cup {None}] /\ lost' \in [Observers -> Nat]
    BY <1>12, TouchType DEF CleanupFlush, Flushes, Cleanups
  <2>2. cleanup' \in Cleanups \cup {None}
    <3>1. cleanup # None => [cleanup EXCEPT !.step = "delete", !.batch = NoDirt] \in Cleanups
      BY NoDirtType DEF Cleanups
    <3> QED
      BY <1>12, <3>1 DEF CleanupFlush
  <2>3. UNCHANGED <<clock, memory, worker, server, active, hearings>> /\ unsaved' \subseteq Observers
    BY <1>12 DEF CleanupFlush
  <2>4. TypeOK'
    BY <1>12, <2>1, <2>2, <2>3 DEF CleanupFlush
  <2>5. Prompt'
    BY <1>12 DEF CleanupFlush, InCall, Prompt
  <2>6. Emptied'
    BY <1>12 DEF CleanupFlush, Emptied, Cleanups
  <2> QED
    BY <2>4, <2>5, <2>6
<1>13. CASE CleanupDelete
  <2>1. TypeOK'
    BY <1>13 DEF CleanupDelete, InCall
  <2>2. Prompt'
    BY <1>13 DEF CleanupDelete, InCall, Prompt
  <2>3. Emptied'
    BY <1>13 DEF CleanupDelete, Emptied
  <2> QED
    BY <2>1, <2>2, <2>3
<1>14. CASE Shutdown
  <2>1. TypeOK'
    BY <1>14 DEF Shutdown, InCall
  <2>2. Prompt'
    BY <1>14 DEF Shutdown, InCall, Prompt
  <2>3. Emptied'
    BY <1>14 DEF Shutdown, Emptied
  <2> QED
    BY <2>1, <2>2, <2>3
<1>15. CASE Finish
  <2>1. TypeOK'
    BY <1>15 DEF Finish, InCall
  <2>2. Prompt'
    BY <1>15 DEF Finish, InCall, Prompt
  <2>3. Emptied'
    BY <1>15 DEF Finish, Emptied
  <2> QED
    BY <2>1, <2>2, <2>3
<1>16. CASE Tick
  <2>1. TypeOK'
    BY <1>16 DEF Tick, InCall
  <2>2. Prompt'
    BY <1>16 DEF Tick, InCall, Prompt
  <2>3. Emptied'
    BY <1>16 DEF Tick, Emptied
  <2> QED
    BY <2>1, <2>2, <2>3
<1>17. CASE UNCHANGED vars
  <2>1. TypeOK'
    BY <1>17 DEF vars, InCall
  <2>2. Prompt'
    BY <1>17 DEF vars, InCall, Prompt
  <2>3. Emptied'
    BY <1>17 DEF vars, Emptied
  <2> QED
    BY <2>1, <2>2, <2>3
<1> QED
  BY <1>1, <1>2, <1>3, <1>4, <1>5, <1>6, <1>7, <1>8, <1>9, <1>10, <1>11, <1>12, <1>13,
     <1>14, <1>15, <1>16, <1>17 DEF Next, Work
-----------------------------------------------------------------------------
RowCount(o) == IF row[o] = None THEN 0 ELSE row[o].count
TickerCount(o) == IF ticker = None THEN 0 ELSE CountIn(ticker.batch, o)
CleanupCount(o) == IF cleanup = None THEN 0 ELSE CountIn(cleanup.batch, o)

(* All counts are numbers; what is being flushed is a batch.               *)
LEMMA CountTypes ==
  ASSUME Typed
  PROVE  /\ \A o \in Observers :
              /\ RowCount(o) \in Nat /\ TickerCount(o) \in Nat /\ CleanupCount(o) \in Nat
              /\ CountIn(dirty, o) \in Nat /\ lost[o] \in Nat /\ hearings[o] \in Nat
         /\ ticker # None => ticker.batch \in Batches
         /\ cleanup # None => cleanup.batch \in Batches
<1> USE DEF Typed, TypeOK
<1>1. /\ ticker # None => ticker.batch \in Batches
      /\ cleanup # None => cleanup.batch \in Batches
  BY DEF Flushes, Cleanups
<1>2. \A o \in Observers : RowCount(o) \in Nat
  BY DEF RowCount, Rows
<1>3. \A o \in Observers :
        TickerCount(o) \in Nat /\ CleanupCount(o) \in Nat /\ CountIn(dirty, o) \in Nat
  BY <1>1, BumpType DEF TickerCount, CleanupCount, CountIn
<1> QED
  BY <1>1, <1>2, <1>3

(* A batch that is flushed is counted in the rows or lost.                 *)
LEMMA TouchCounts ==
  ASSUME Typed, NEW batch \in Batches, TouchObservers(batch) \/ TouchFails(batch),
         NEW o \in Observers
  PROVE  lost'[o] + RowCount(o)' = lost[o] + RowCount(o) + CountIn(batch, o)
<1> USE DEF Typed, TypeOK, CountIn
<1>1. BumpOf(batch, o).count \in Nat /\ lost[o] \in Nat /\ RowCount(o) \in Nat
  BY BumpType, CountTypes
<1>2. CASE TouchFails(batch)
  BY <1>1, <1>2 DEF TouchFails, RowCount
<1>3. CASE TouchObservers(batch) /\ ~ (row[o] # None /\ row[o].id = BumpOf(batch, o).id)
  BY <1>1, <1>3 DEF TouchObservers, RowCount
<1>4. CASE TouchObservers(batch) /\ row[o] # None /\ row[o].id = BumpOf(batch, o).id
  <2>1. row[o] \in Rows /\ batch[o] # None
    BY <1>4 DEF BumpOf, NoBump, Rows, Ids
  <2>2. BumpOf(batch, o) = batch[o]
    BY <2>1 DEF BumpOf
  <2>3. lost'[o] = lost[o] /\ row'[o] = Touched(row[o], batch[o])
    BY <1>1, <1>4 DEF TouchObservers
  <2>4. batch[o] \in Bumps
    BY <2>1 DEF Batches
  <2>5. row'[o] # None /\ row'[o].count = row[o].count + batch[o].count
    BY <2>1, <2>3, <2>4, TouchedType, NoneAssumption
  <2>6. row[o].count \in Nat /\ batch[o].count \in Nat
    BY <2>1, <2>4 DEF Rows, Bumps
  <2>7. RowCount(o) = row[o].count /\ RowCount(o)' = row'[o].count
    BY <2>5, <1>4 DEF RowCount
  <2> QED
    BY <1>1, <2>2, <2>3, <2>5, <2>6, <2>7
<1> QED
  BY <1>2, <1>3, <1>4

(* What a cleanup saves has the counts that are dirty, and fits a batch.   *)
LEMMA SavedType ==
  ASSUME Typed
  PROVE  Saved \in Batches /\ \A o \in Observers : CountIn(Saved, o) = CountIn(dirty, o)
<1> USE NoneAssumption DEF Typed, TypeOK
<1>1. ASSUME NEW o \in Observers, identities[o] # None
      PROVE  /\ Saved[o] \in Bumps
             /\ Saved[o].count = BumpOf(dirty, o).count
  <2>1. /\ identities[o].id \in Ids
        /\ Later(BumpOf(dirty, o).seen, identities[o].seen) \in Times
        /\ BumpOf(dirty, o).count \in Nat
    BY <1>1, BumpType DEF Identities, Later
  <2>2. Saved[o] = [id |-> identities[o].id,
                    seen |-> Later(BumpOf(dirty, o).seen, identities[o].seen),
                    count |-> BumpOf(dirty, o).count]
    BY <1>1 DEF Saved
  <2> QED
    BY <2>1, <2>2 DEF Bumps
<1>2. \A o \in Observers : identities[o] = None => Saved[o] = dirty[o]
  BY DEF Saved
<1>3. Saved \in Batches
  <2>1. \A o \in Observers : Saved[o] \in Bumps \cup {None}
    BY <1>1, <1>2 DEF Batches
  <2>2. Saved = [o \in Observers |-> Saved[o]]
    BY DEF Saved
  <2> QED
    BY <2>1, <2>2 DEF Batches
<1>4. \A o \in Observers : CountIn(Saved, o) = CountIn(dirty, o)
  BY <1>1, <1>2 DEF CountIn, BumpOf
<1> QED
  BY <1>3, <1>4

Balanced(o) ==
  hearings[o] = lost[o] + CountIn(dirty, o) + RowCount(o) + TickerCount(o) + CleanupCount(o)

LEMMA CountsAreBalanced ==
  CountsConserved <=> TypeOK /\ \A o \in Observers : Balanced(o)
BY DEF CountsConserved, Balanced, RowCount, TickerCount, CleanupCount

(* Every step keeps the sum for every observer.                            *)
LEMMA BalancedStep ==
  ASSUME Typed, Typed', [Next]_vars, NEW p \in Observers, Balanced(p)
  PROVE  Balanced(p)'
<1>0. /\ RowCount(p) \in Nat /\ TickerCount(p) \in Nat /\ CleanupCount(p) \in Nat
      /\ CountIn(dirty, p) \in Nat /\ lost[p] \in Nat /\ hearings[p] \in Nat
      /\ ticker # None => ticker.batch \in Batches
      /\ cleanup # None => cleanup.batch \in Batches
  BY CountTypes
<1> USE PresenceAssumption, NoneAssumption DEF Typed, TypeOK, memory, history, Balanced
<1>1. ASSUME NEW w \in Workers, NEW o \in Observers, UpsertCached(w, o) PROVE Balanced(p)'
  <2>1. /\ UNCHANGED <<row, lost, ticker, cleanup>>
        /\ hearings' = [hearings EXCEPT ![o] = @ + 1]
        /\ dirty' = [dirty EXCEPT ![o] = [id |-> identities[o].id, seen |-> clock,
                                          count |-> BumpOf(dirty, o).count + 1]]
    BY <1>1 DEF UpsertCached, Hears
  <2>2. CASE p = o
    <3>1. dirty'[o] # None /\ dirty'[o].count = BumpOf(dirty, o).count + 1
      <4>1. dirty'[o] = [id |-> identities[o].id, seen |-> clock,
                         count |-> BumpOf(dirty, o).count + 1]
        BY <2>1 DEF Batches
      <4>2. identities[o].id \in Ids /\ clock \in Times
        BY <1>1 DEF UpsertCached, Identities, Ids, Times
      <4>3. BumpOf(dirty, o).count + 1 \in Nat
        BY <1>0, <2>2 DEF CountIn
      <4> QED
        BY <4>1, <4>2, <4>3 DEF Bumps
    <3>2. CountIn(dirty, o)' = CountIn(dirty, o) + 1
      BY <3>1 DEF CountIn, BumpOf
    <3>3. UNCHANGED <<RowCount(o), TickerCount(o), CleanupCount(o), lost[o]>>
      BY <2>1 DEF RowCount, TickerCount, CleanupCount
    <3>4. hearings'[o] = hearings[o] + 1
      BY <2>1
    <3> QED
      BY <1>0, <2>2, <3>2, <3>3, <3>4
  <2>3. CASE p # o
    BY <1>0, <2>1, <2>3 DEF RowCount, TickerCount, CleanupCount, CountIn, BumpOf,
       Batches
  <2> QED
    BY <2>2, <2>3
<1>2. ASSUME NEW w \in Workers, NEW o \in Observers, UpsertMissed(w, o) PROVE Balanced(p)'
  BY <1>0, <1>2 DEF UpsertMissed, RowCount, TickerCount, CleanupCount, CountIn
<1>3. ASSUME NEW w \in Workers, NEW o \in Observers, NEW name \in StatusNames, StoreStatus(w, o, name) PROVE Balanced(p)'
  <2>1. /\ UNCHANGED <<dirty, hearings, lost, ticker, cleanup>>
        /\ row' = [row EXCEPT ![o].seen = clock, ![o].name = name]
        /\ row[o] \in Rows
    BY <1>3 DEF StoreStatus
  <2>2. row'[o] = [row[o] EXCEPT !.seen = clock, !.name = name] /\ row'[o] # None
    <3>1. clock \in Times /\ name \in Names
      BY DEF Names, Ids, Times
    <3>2. [row[o] EXCEPT !.seen = clock, !.name = name] \in Rows
      BY <2>1, <3>1 DEF Rows
    <3>3. row' = [row EXCEPT ![o] = [row[o] EXCEPT !.seen = clock, !.name = name]]
      BY <2>1
    <3> QED
      BY <3>2, <3>3
  <2>3. \A q \in Observers \ {o} : row'[q] = row[q]
    BY <2>1
  <2>4. RowCount(p)' = RowCount(p)
    BY <2>1, <2>2, <2>3 DEF RowCount, Rows
  <2> QED
    BY <1>0, <2>1, <2>4 DEF TickerCount, CleanupCount, CountIn
<1>4. ASSUME NEW w \in Workers, StoreUpsert(w) PROVE Balanced(p)'
  <2>1. PICK o \in Observers : o = worker[w].observer
    BY <1>4 DEF StoreUpsert, InCall, Calls
  <2>2. /\ UNCHANGED <<dirty, ticker, cleanup>>
        /\ hearings' = [hearings EXCEPT ![o] = @ + 1]
        /\ \/ /\ row[o] = None
              /\ row' = [row EXCEPT ![o] =
                           [id |-> clock, seen |-> clock, count |-> 0, name |-> Unnamed]]
              /\ lost' = [lost EXCEPT ![o] = @ + 1]
           \/ /\ row[o] # None
              /\ row' = [row EXCEPT ![o].seen = clock, ![o].count = @ + 1]
              /\ UNCHANGED lost
    BY <1>4, <2>1 DEF StoreUpsert, Hears
  <2>3. lost'[p] + RowCount(p)' = lost[p] + RowCount(p) + (IF p = o THEN 1 ELSE 0)
    <3>1. CASE row[o] = None
      BY <1>0, <2>2, <3>1 DEF RowCount
    <3>2. CASE row[o] # None
      BY <1>0, <2>2, <3>2 DEF RowCount, Rows
    <3> QED
      BY <3>1, <3>2
  <2>4. hearings'[p] = hearings[p] + (IF p = o THEN 1 ELSE 0)
    BY <1>0, <2>2
  <2>5. RowCount(p)' \in Nat /\ lost'[p] \in Nat
    BY DEF RowCount, Rows
  <2> QED
    BY <1>0, <2>2, <2>3, <2>4, <2>5 DEF TickerCount, CleanupCount, CountIn
<1>5. ASSUME NEW w \in Workers, StoreUpsertFails(w) PROVE Balanced(p)'
  BY <1>0, <1>5 DEF StoreUpsertFails, RowCount, TickerCount, CleanupCount, CountIn
<1>6. ASSUME NEW w \in Workers, CacheIdentity(w) PROVE Balanced(p)'
  BY <1>0, <1>6 DEF CacheIdentity, RowCount, TickerCount, CleanupCount, CountIn
<1>7. ASSUME NEW w \in Workers, ForgetIdentity(w) PROVE Balanced(p)'
  BY <1>0, <1>7 DEF ForgetIdentity, RowCount, TickerCount, CleanupCount, CountIn
<1>8. ASSUME NEW w \in Workers, WorkerStops(w) PROVE Balanced(p)'
  BY <1>0, <1>8 DEF WorkerStops, RowCount, TickerCount, CleanupCount, CountIn
<1>9. CASE BeginFlush
  <2>1. /\ ticker = None /\ ticker' = [since |-> clock, batch |-> dirty]
        /\ dirty' = NoDirt /\ UNCHANGED <<row, cleanup, hearings, lost>>
    BY <1>9 DEF BeginFlush, TakeDirty
  <2>2. ticker' # None
    BY <2>1 DEF Flushes, Ids, Times
  <2>3. TickerCount(p)' = CountIn(dirty, p) /\ TickerCount(p) = 0
    BY <2>1, <2>2 DEF TickerCount, CountIn
  <2>4. CountIn(dirty, p)' = 0
    BY <2>1 DEF CountIn, BumpOf, NoDirt, NoBump
  <2> QED
    BY <1>0, <2>1, <2>3, <2>4 DEF RowCount, CleanupCount
<1>10. CASE EndFlush
  <2>1. /\ ticker # None /\ ticker' = None /\ UNCHANGED <<dirty, cleanup, hearings>>
        /\ TouchObservers(ticker.batch) \/ TouchFails(ticker.batch)
    BY <1>10 DEF EndFlush
  <2>2. lost'[p] + RowCount(p)' = lost[p] + RowCount(p) + TickerCount(p)
    BY <1>0, <2>1, TouchCounts DEF TickerCount
  <2>3. RowCount(p)' \in Nat /\ lost'[p] \in Nat
    BY DEF RowCount, Rows
  <2> QED
    BY <1>0, <2>1, <2>2, <2>3 DEF TickerCount, CleanupCount, CountIn
<1>11. CASE BeginCleanup
  <2>1. /\ cleanup = None /\ dirty' = NoDirt /\ UNCHANGED <<row, ticker, hearings, lost>>
        /\ cleanup' = [step |-> "flush", batch |-> Saved, cutoff |-> clock - DeleteAfter]
    BY <1>11 DEF BeginCleanup
  <2>2. cleanup' # None /\ cleanup'.batch = Saved
    <3>1. cleanup' = [step |-> "flush", batch |-> Saved, cutoff |-> clock - DeleteAfter]
      BY <2>1
    <3>2. cleanup' \in Cleanups
      BY <1>11, <3>1, SavedType DEF BeginCleanup, Cleanups, Ids, Times
    <3> QED
      BY <3>1, <3>2
  <2>3. CountIn(Saved, p) = CountIn(dirty, p)
    BY SavedType
  <2>4. CleanupCount(p)' = CountIn(dirty, p) /\ CleanupCount(p) = 0
    BY <2>1, <2>2, <2>3 DEF CleanupCount, CountIn, BumpOf
  <2>5. CountIn(dirty, p)' = 0
    BY <2>1 DEF CountIn, BumpOf, NoDirt, NoBump
  <2> QED
    BY <1>0, <2>1, <2>4, <2>5 DEF RowCount, TickerCount
<1>12. CASE CleanupFlush
  <2>1. /\ cleanup # None /\ UNCHANGED <<dirty, ticker, hearings>>
        /\ TouchObservers(cleanup.batch) \/ TouchFails(cleanup.batch)
        /\ cleanup' = None \/ cleanup' = [cleanup EXCEPT !.step = "delete", !.batch = NoDirt]
    BY <1>12 DEF CleanupFlush
  <2>2. lost'[p] + RowCount(p)' = lost[p] + RowCount(p) + CleanupCount(p)
    BY <1>0, <2>1, TouchCounts DEF CleanupCount
  <2>3. CleanupCount(p)' = 0
    <3>1. CASE cleanup' = None
      BY <3>1 DEF CleanupCount
    <3>2. CASE cleanup'.batch = NoDirt
      BY <3>2 DEF CleanupCount, CountIn, BumpOf, NoDirt, NoBump
    <3> QED
      BY <2>1, <3>1, <3>2 DEF Cleanups
  <2>4. RowCount(p)' \in Nat /\ lost'[p] \in Nat
    BY DEF RowCount, Rows
  <2> QED
    BY <1>0, <2>1, <2>2, <2>3, <2>4 DEF TickerCount, CountIn
<1>13. CASE CleanupDelete
  <2>1. PICK S \in SUBSET {o \in Observers : row[o] # None /\ row[o].seen < cleanup.cutoff} :
          /\ row' = [o \in Observers |-> IF o \in S THEN None ELSE row[o]]
          /\ lost' = [o \in Observers |-> lost[o] + IF o \in S THEN row[o].count ELSE 0]
    BY <1>13 DEF CleanupDelete
  <2>2. cleanup # None /\ cleanup' = None /\ UNCHANGED <<dirty, ticker, hearings>>
    BY <1>13 DEF CleanupDelete
  <2>3. lost'[p] + RowCount(p)' = lost[p] + RowCount(p)
    BY <1>0, <2>1 DEF RowCount
  <2>4. CleanupCount(p) = 0 /\ CleanupCount(p)' = 0
    BY <1>13, <2>2 DEF Emptied, CleanupDelete, CleanupCount, CountIn, BumpOf, NoDirt,
       NoBump
  <2>5. RowCount(p)' \in Nat /\ lost'[p] \in Nat
    BY DEF RowCount, Rows
  <2> QED
    BY <1>0, <2>2, <2>3, <2>4, <2>5 DEF TickerCount, CountIn
<1>14. CASE Shutdown
  BY <1>0, <1>14 DEF Shutdown, RowCount, TickerCount, CleanupCount, CountIn
<1>15. CASE Finish
  BY <1>0, <1>15 DEF Finish, RowCount, TickerCount, CleanupCount, CountIn
<1>16. CASE Tick
  BY <1>0, <1>16 DEF Tick, RowCount, TickerCount, CleanupCount, CountIn
<1>17. CASE UNCHANGED vars
  BY <1>0, <1>17 DEF vars, RowCount, TickerCount, CleanupCount, CountIn
<1> QED
  BY <1>1, <1>2, <1>3, <1>4, <1>5, <1>6, <1>7, <1>8, <1>9, <1>10, <1>11, <1>12, <1>13,
     <1>14, <1>15, <1>16, <1>17 DEF Next, Work
-----------------------------------------------------------------------------
(* A flush keeps the rows, and makes none of them older.                   *)
LEMMA TouchRows ==
  ASSUME Typed, NEW batch \in Batches, TouchObservers(batch) \/ TouchFails(batch),
         NEW o \in Observers
  PROVE  /\ row[o] = None <=> row'[o] = None
         /\ row[o] # None =>
              /\ row'[o].id = row[o].id
              /\ row'[o].seen >= row[o].seen
              /\ TouchObservers(batch) /\ batch[o] # None /\ batch[o].id = row[o].id
                   => row'[o].seen >= batch[o].seen
<1> USE DEF Typed, TypeOK
<1>1. row[o] # None => row[o] \in Rows /\ row[o].seen \in Nat
  BY PresenceAssumption DEF Rows, Times
<1>2. CASE ~ TouchObservers(batch)
  BY <1>1, <1>2 DEF TouchFails
<1>3. CASE TouchObservers(batch) /\ ~ (row[o] # None /\ row[o].id = BumpOf(batch, o).id)
  BY <1>1, <1>3 DEF TouchObservers, BumpOf
<1>4. CASE TouchObservers(batch) /\ row[o] # None /\ row[o].id = BumpOf(batch, o).id
  <2>1. batch[o] # None /\ batch[o] \in Bumps
    BY <1>1, <1>4 DEF BumpOf, NoBump, Rows, Ids, Batches
  <2>2. row'[o] = Touched(row[o], batch[o])
    BY <1>4 DEF TouchObservers
  <2>3. /\ row'[o] \in Rows /\ row'[o].id = row[o].id
        /\ row'[o].seen = Later(row[o].seen, batch[o].seen)
    BY <1>1, <1>4, <2>1, <2>2, TouchedType
  <2>4. batch[o].seen \in Nat
    BY <2>1, PresenceAssumption DEF Bumps, Times
  <2> QED
    BY <1>1, <1>4, <2>3, <2>4, NoneAssumption DEF Later
<1> QED
  BY <1>2, <1>3, <1>4

(* The times that are compared are numbers.                                *)
LEMMA TimeTypes ==
  ASSUME Typed
  PROVE  /\ clock \in Nat
         /\ \A o \in Observers :
              /\ active[o] \in Nat
              /\ row[o] # None => row[o].seen \in Nat
              /\ identities[o] # None => identities[o].seen \in Nat /\ identities[o] \in Identities
         /\ \A w \in Workers : InCall(w) =>
              /\ worker[w] \in Calls
              /\ worker[w].observer \in Observers /\ worker[w].since \in Nat
         /\ cleanup # None =>
              /\ cleanup.cutoff \in Nat /\ cleanup.batch \in Batches
              /\ \A o \in Observers :
                   cleanup.batch[o] # None => cleanup.batch[o].seen \in Nat
<1> USE PresenceAssumption DEF Typed, TypeOK
<1>1. clock \in Nat /\ \A o \in Observers : active[o] \in Nat
  BY DEF Ids
<1>2. \A o \in Observers : row[o] # None => row[o].seen \in Nat
  BY DEF Rows, Times
<1>3. \A o \in Observers :
        identities[o] # None => identities[o].seen \in Nat /\ identities[o] \in Identities
  BY DEF Identities, Times
<1>4. \A w \in Workers : InCall(w) =>
        /\ worker[w] \in Calls
        /\ worker[w].observer \in Observers /\ worker[w].since \in Nat
  BY DEF InCall, Calls, Times
<1>5. cleanup # None =>
        /\ cleanup.cutoff \in Nat /\ cleanup.batch \in Batches
        /\ \A o \in Observers : cleanup.batch[o] # None => cleanup.batch[o].seen \in Nat
  BY DEF Cleanups, Batches, Bumps, Times
<1> QED
  BY <1>1, <1>2, <1>3, <1>4, <1>5

(* A row that a cached identity names, or is about to, is not older than   *)
(* the cutoff of the cleanup under way.                                    *)
LEMMA RowsNeeded ==
  ASSUME Typed, Named, NEW w \in Workers, InCall(w), worker[w].call = "cache", cleanup # None
  PROVE  row[worker[w].observer].seen >= cleanup.cutoff
<1>1. /\ row[worker[w].observer] # None
      /\ row[worker[w].observer].seen >= worker[w].since
  BY DEF Named
<1>2. clock <= worker[w].since + 1 /\ cleanup.cutoff < clock
  BY DEF Typed, Prompt
<1> QED
  BY <1>1, <1>2, TimeTypes

(* What a status message and the store's upsert write is a row.            *)
LEMMA RowTypes ==
  ASSUME Typed, NEW o \in Observers
  PROVE  /\ \A name \in StatusNames : row[o] # None =>
              /\ [row[o] EXCEPT !.seen = clock, !.name = name] \in Rows
              /\ [row[o] EXCEPT !.seen = clock, !.name = name].id = row[o].id
              /\ [row[o] EXCEPT !.seen = clock, !.name = name].seen = clock
         /\ [id |-> clock, seen |-> clock, count |-> 0, name |-> Unnamed] \in Rows
<1>1. clock \in Ids /\ clock \in Times /\ (row[o] # None => row[o] \in Rows)
  BY PresenceAssumption DEF Typed, TypeOK, Ids, Times
<1>2. ASSUME NEW name \in StatusNames, row[o] # None
      PROVE  /\ [row[o] EXCEPT !.seen = clock, !.name = name] \in Rows
             /\ [row[o] EXCEPT !.seen = clock, !.name = name].id = row[o].id
             /\ [row[o] EXCEPT !.seen = clock, !.name = name].seen = clock
  BY <1>1, <1>2 DEF Rows, Names
<1>3. [id |-> clock, seen |-> clock, count |-> 0, name |-> Unnamed] \in Rows
  BY <1>1 DEF Rows, Names
<1> QED
  BY <1>2, <1>3

(* The store's upsert leaves a row of the observer, seen now.              *)
LEMMA UpsertRow ==
  ASSUME Typed, NEW w \in Workers, StoreUpsert(w), NEW o \in Observers,
         o = worker[w].observer
  PROVE  /\ row'[o] \in Rows /\ row'[o].seen = clock
         /\ row[o] # None => row'[o].id = row[o].id
         /\ \A q \in Observers \ {o} : row'[q] = row[q]
         /\ worker' = [worker EXCEPT ![w] =
              [call |-> "cache", observer |-> o, since |-> clock, id |-> row'[o].id,
               name |-> row'[o].name]]
<1> USE DEF Typed, TypeOK
<1>1. CASE row[o] = None
  <2>1. row' = [row EXCEPT ![o] =
                  [id |-> clock, seen |-> clock, count |-> 0, name |-> Unnamed]]
    BY <1>1 DEF StoreUpsert
  <2>2. row'[o] = [id |-> clock, seen |-> clock, count |-> 0, name |-> Unnamed]
    BY <2>1
  <2> QED
    BY <1>1, <2>1, <2>2, RowTypes DEF StoreUpsert
<1>2. CASE row[o] # None
  <2>1. row' = [row EXCEPT ![o].seen = clock, ![o].count = @ + 1] /\ row[o] \in Rows
    BY <1>2 DEF StoreUpsert
  <2>2. clock \in Times /\ row[o].count + 1 \in Nat
    BY <2>1, PresenceAssumption DEF Rows, Ids, Times
  <2>3. row'[o] \in Rows
    BY <2>1, <2>2 DEF Rows
  <2>4. row'[o].seen = clock /\ row'[o].id = row[o].id
    BY <2>1 DEF Rows
  <2> QED
    BY <1>2, <2>1, <2>3, <2>4 DEF StoreUpsert
<1> QED
  BY <1>1, <1>2

(* A status message leaves the row of its observer, seen now.              *)
LEMMA StatusRow ==
  ASSUME Typed, NEW w \in Workers, NEW o \in Observers, NEW name \in StatusNames,
         StoreStatus(w, o, name)
  PROVE  /\ row'[o] \in Rows /\ row'[o].id = row[o].id /\ row'[o].seen = clock
         /\ \A q \in Observers \ {o} : row'[q] = row[q]
<1>1. /\ row[o] # None
      /\ row' = [row EXCEPT ![o] = [row[o] EXCEPT !.seen = clock, !.name = name]]
  BY DEF StoreStatus
<1>2. row'[o] = [row[o] EXCEPT !.seen = clock, !.name = name]
  BY <1>1 DEF Typed, TypeOK
<1> QED
  BY <1>1, <1>2, RowTypes DEF Typed, TypeOK

(* Every step keeps the rows of cached observers.                          *)
LEMMA NamedStep ==
  ASSUME Typed, Typed', Named, [Next]_vars
  PROVE  Named'
<1>0. /\ clock \in Nat
      /\ \A o \in Observers : row[o] # None => row[o].seen \in Nat
      /\ \A o \in Observers : row'[o] # None => row'[o].seen \in Nat
      /\ \A w \in Workers : InCall(w) =>
           worker[w].observer \in Observers /\ worker[w].since \in Nat
      /\ cleanup # None => cleanup.cutoff \in Nat
  BY TimeTypes DEF Typed, TypeOK, Rows, Times
<1> USE PresenceAssumption, NoneAssumption DEF memory, history
<1>1. ASSUME NEW w \in Workers, NEW o \in Observers, UpsertCached(w, o) PROVE Named'
  BY <1>1 DEF UpsertCached, Starts, InCall, Named, CachedHasRow
<1>2. ASSUME NEW w \in Workers, NEW o \in Observers, UpsertMissed(w, o) PROVE Named'
  BY <1>2 DEF UpsertMissed, Starts, InCall, Named, CachedHasRow
<1>3. ASSUME NEW w \in Workers, NEW o \in Observers, NEW name \in StatusNames, StoreStatus(w, o, name) PROVE Named'
  <2>1. /\ row'[o] \in Rows /\ row'[o].id = row[o].id /\ row'[o].seen = clock
        /\ \A q \in Observers \ {o} : row'[q] = row[q]
        /\ row'[o] # None
    BY <1>3, StatusRow
  <2>2. /\ UNCHANGED <<identities, cleanup>>
        /\ \A v \in Workers : InCall(v)' /\ worker'[v].call = "cache"
             => v # w /\ InCall(v) /\ worker'[v] = worker[v]
    BY <1>3 DEF StoreStatus, InCall, Typed, TypeOK
  <2>3. \A v \in Workers : InCall(v) => worker[v].since <= clock
    BY DEF Typed, Prompt
  <2>4. cleanup # None => clock >= cleanup.cutoff
    BY <1>0 DEF Typed, Prompt
  <2> QED
    BY <1>0, <2>1, <2>2, <2>3, <2>4 DEF Named, CachedHasRow
<1>4. ASSUME NEW w \in Workers, StoreUpsert(w) PROVE Named'
  <2>1. PICK o \in Observers : o = worker[w].observer
    BY <1>0, <1>4 DEF StoreUpsert
  <2>2. /\ row'[o] \in Rows /\ row'[o].seen = clock /\ row'[o] # None
        /\ row[o] # None => row'[o].id = row[o].id
        /\ \A q \in Observers \ {o} : row'[q] = row[q]
        /\ worker' = [worker EXCEPT ![w] =
             [call |-> "cache", observer |-> o, since |-> clock, id |-> row'[o].id,
              name |-> row'[o].name]]
        /\ UNCHANGED <<identities, cleanup>>
    <3>1. UNCHANGED <<identities, cleanup>>
      BY <1>4 DEF StoreUpsert
    <3>2. row'[o] # None
      BY <1>4, <2>1, UpsertRow
    <3> QED
      BY <1>4, <2>1, <3>1, <3>2, UpsertRow
  <2>3. /\ worker'[w].observer = o /\ worker'[w].since = clock /\ worker'[w].id = row'[o].id
        /\ \A v \in Workers \ {w} : worker'[v] = worker[v]
    BY <2>2 DEF Typed, TypeOK
  <2>4. \A v \in Workers : InCall(v) => worker[v].since <= clock
    BY DEF Typed, Prompt
  <2>5. cleanup # None => clock >= cleanup.cutoff
    BY <1>0 DEF Typed, Prompt
  <2>6. ASSUME NEW v \in Workers, InCall(v)', worker'[v].call = "cache"
        PROVE  /\ row'[worker'[v].observer] # None
               /\ row'[worker'[v].observer].id = worker'[v].id
               /\ row'[worker'[v].observer].seen >= worker'[v].since
    <3>1. CASE v = w
      BY <1>0, <2>2, <2>3, <3>1
    <3>2. CASE v # w
      BY <1>0, <2>2, <2>3, <2>4, <2>6, <3>2 DEF Named, InCall
    <3> QED
      BY <3>1, <3>2
  <2>7. CachedHasRow'
    BY <2>2 DEF Named, CachedHasRow
  <2>8. cleanup' # None =>
          \A q \in Observers : identities'[q] # None => row'[q].seen >= cleanup'.cutoff
    BY <2>2, <2>5 DEF Named
  <2> QED
    BY <2>6, <2>7, <2>8 DEF Named
<1>5. ASSUME NEW w \in Workers, StoreUpsertFails(w) PROVE Named'
  BY <1>5 DEF StoreUpsertFails, Starts, InCall, Named, CachedHasRow
<1>6. ASSUME NEW w \in Workers, CacheIdentity(w) PROVE Named'
  <2>1. PICK o \in Observers : o = worker[w].observer
    BY <1>0, <1>6 DEF CacheIdentity
  <2>2. /\ UNCHANGED <<row, cleanup>> /\ InCall(w) /\ worker[w].call = "cache"
        /\ identities' = [identities EXCEPT ![o] =
             [id |-> worker[w].id, name |-> worker[w].name, seen |-> clock]]
        /\ \A v \in Workers : InCall(v)' => InCall(v) /\ worker'[v] = worker[v]
    BY <1>6, <2>1 DEF CacheIdentity, InCall, Typed, TypeOK
  <2>3. /\ identities'[o].id = worker[w].id
        /\ \A q \in Observers \ {o} : identities'[q] = identities[q]
    BY <2>2 DEF Typed, TypeOK
  <2>4. row[o] # None /\ row[o].id = worker[w].id
    BY <2>1, <2>2 DEF Named
  <2>5. cleanup # None => row[o].seen >= cleanup.cutoff
    BY <2>1, <2>2, RowsNeeded
  <2> QED
    BY <2>2, <2>3, <2>4, <2>5 DEF Named, CachedHasRow
<1>7. ASSUME NEW w \in Workers, ForgetIdentity(w) PROVE Named'
  BY <1>7 DEF ForgetIdentity, Starts, InCall, Named, CachedHasRow
<1>8. ASSUME NEW w \in Workers, WorkerStops(w) PROVE Named'
  BY <1>8 DEF WorkerStops, Starts, InCall, Named, CachedHasRow
<1>9. CASE BeginFlush
  BY <1>9 DEF BeginFlush, Starts, InCall, Named, CachedHasRow
<1>10. CASE EndFlush
  <2>1. /\ ticker # None /\ UNCHANGED <<identities, worker>>
        /\ TouchObservers(ticker.batch) \/ TouchFails(ticker.batch)
        /\ cleanup' # None => cleanup # None /\ cleanup'.cutoff = cleanup.cutoff
    BY <1>10 DEF EndFlush, Typed, TypeOK, Cleanups
  <2>2. \A o \in Observers :
          /\ row[o] = None <=> row'[o] = None
          /\ row[o] # None => row'[o].id = row[o].id /\ row'[o].seen >= row[o].seen
                               /\ row'[o].seen \in Nat
    BY <1>0, <2>1, TouchRows, CountTypes
  <2>3. CachedHasRow'
    BY <2>1, <2>2 DEF Named, CachedHasRow
  <2>4. cleanup' # None =>
          \A q \in Observers : identities'[q] # None => row'[q].seen >= cleanup'.cutoff
    BY <1>0, <2>1, <2>2 DEF Named, CachedHasRow
  <2>5. ASSUME NEW v \in Workers, InCall(v)', worker'[v].call = "cache"
        PROVE  /\ row'[worker'[v].observer] # None
               /\ row'[worker'[v].observer].id = worker'[v].id
               /\ row'[worker'[v].observer].seen >= worker'[v].since
    BY <1>0, <2>1, <2>2, <2>5 DEF Named, InCall
  <2> QED
    BY <2>3, <2>4, <2>5 DEF Named
<1>11. CASE BeginCleanup
  BY <1>11 DEF BeginCleanup, Starts, InCall, Named, CachedHasRow
<1>12. CASE CleanupFlush
  <2>1. /\ cleanup # None /\ UNCHANGED <<identities, worker>>
        /\ TouchObservers(cleanup.batch) \/ TouchFails(cleanup.batch)
        /\ cleanup' # None => cleanup # None /\ cleanup'.cutoff = cleanup.cutoff
    BY <1>12 DEF CleanupFlush, Typed, TypeOK, Cleanups
  <2>2. \A o \in Observers :
          /\ row[o] = None <=> row'[o] = None
          /\ row[o] # None => row'[o].id = row[o].id /\ row'[o].seen >= row[o].seen
                               /\ row'[o].seen \in Nat
    BY <1>0, <2>1, TouchRows, CountTypes
  <2>3. CachedHasRow'
    BY <2>1, <2>2 DEF Named, CachedHasRow
  <2>4. cleanup' # None =>
          \A q \in Observers : identities'[q] # None => row'[q].seen >= cleanup'.cutoff
    BY <1>0, <2>1, <2>2 DEF Named, CachedHasRow
  <2>5. ASSUME NEW v \in Workers, InCall(v)', worker'[v].call = "cache"
        PROVE  /\ row'[worker'[v].observer] # None
               /\ row'[worker'[v].observer].id = worker'[v].id
               /\ row'[worker'[v].observer].seen >= worker'[v].since
    BY <1>0, <2>1, <2>2, <2>5 DEF Named, InCall
  <2> QED
    BY <2>3, <2>4, <2>5 DEF Named
<1>13. CASE CleanupDelete
  <2>1. PICK S \in SUBSET {o \in Observers : row[o] # None /\ row[o].seen < cleanup.cutoff} :
          row' = [o \in Observers |-> IF o \in S THEN None ELSE row[o]]
    BY <1>13 DEF CleanupDelete
  <2>2. cleanup # None /\ cleanup' = None /\ UNCHANGED <<identities, worker>>
    BY <1>13 DEF CleanupDelete
  <2>3. \A o \in Observers : identities[o] # None => row'[o] = row[o]
    BY <1>0, <2>1, <2>2 DEF Named
  <2>4. \A v \in Workers : InCall(v) /\ worker[v].call = "cache"
          => row'[worker[v].observer] = row[worker[v].observer]
    BY <1>0, <2>1, <2>2, RowsNeeded
  <2> QED
    BY <1>0, <2>2, <2>3, <2>4 DEF Named, CachedHasRow, InCall
<1>14. CASE Shutdown
  BY <1>14 DEF Shutdown, Starts, InCall, Named, CachedHasRow
<1>15. CASE Finish
  BY <1>15 DEF Finish, Starts, InCall, Named, CachedHasRow
<1>16. CASE Tick
  BY <1>16 DEF Tick, Starts, InCall, Named, CachedHasRow
<1>17. CASE UNCHANGED vars
  BY <1>17 DEF vars, Starts, InCall, Named, CachedHasRow
<1> QED
  BY <1>1, <1>2, <1>3, <1>4, <1>5, <1>6, <1>7, <1>8, <1>9, <1>10, <1>11, <1>12, <1>13,
     <1>14, <1>15, <1>16, <1>17 DEF Next, Work

(* Every step keeps the last activity of an observer where the cleanup     *)
(* finds it.                                                               *)
LEMMA RememberedStep ==
  ASSUME Typed, Typed', Named, Remembered, [Next]_vars
  PROVE  Remembered'
<1>0. /\ clock \in Nat
      /\ \A o \in Observers : row[o] # None => row[o].seen \in Nat
      /\ \A o \in Observers : row'[o] # None => row'[o].seen \in Nat
      /\ \A w \in Workers : InCall(w) =>
           worker[w].observer \in Observers /\ worker[w].since \in Nat
      /\ cleanup # None => cleanup.cutoff \in Nat
      /\ \A o \in Observers : active[o] \in Nat
      /\ \A o \in Observers : identities[o] # None => identities[o].seen \in Nat
      /\ \A w \in Workers : InCall(w) => worker[w].since <= clock /\ clock <= worker[w].since + 1
  BY TimeTypes DEF Typed, TypeOK, Prompt, Rows, Times
<1> USE PresenceAssumption, NoneAssumption DEF memory, history
<1>1. ASSUME NEW w \in Workers, NEW o \in Observers, UpsertCached(w, o) PROVE Remembered'
  <2>1. /\ UNCHANGED <<clock, row, worker, cleanup, unsaved>>
        /\ identities[o] # None
        /\ identities' = [identities EXCEPT ![o] = [identities[o] EXCEPT !.seen = clock]]
        /\ active' = [active EXCEPT ![o] = clock]
    BY <1>1 DEF UpsertCached, Hears
  <2>2. identities'[o] # None /\ identities'[o].seen = clock
    <3>1. identities[o] \in Identities /\ clock \in Times
      BY <2>1, TimeTypes DEF Typed, TypeOK, Ids, Times
    <3>2. /\ [identities[o] EXCEPT !.seen = clock] \in Identities
          /\ [identities[o] EXCEPT !.seen = clock].seen = clock
      BY <3>1 DEF Identities
    <3> QED
      BY <2>1, <3>2 DEF Typed, TypeOK
  <2>3. /\ active'[o] = clock
        /\ \A q \in Observers \ {o} : identities'[q] = identities[q] /\ active'[q] = active[q]
    BY <2>1 DEF Typed, TypeOK
  <2> QED
    BY <1>0, <2>1, <2>2, <2>3 DEF Remembered, Kept, InCall
<1>2. ASSUME NEW w \in Workers, NEW o \in Observers, UpsertMissed(w, o) PROVE Remembered'
  BY <1>0, <1>2 DEF UpsertMissed, Starts, InCall, Remembered, Kept
<1>3. ASSUME NEW w \in Workers, NEW o \in Observers, NEW name \in StatusNames, StoreStatus(w, o, name) PROVE Remembered'
  <2>1. /\ row'[o] \in Rows /\ row'[o].id = row[o].id /\ row'[o].seen = clock
        /\ \A q \in Observers \ {o} : row'[q] = row[q]
    BY <1>3, StatusRow
  <2>2. /\ UNCHANGED <<clock, identities, cleanup, unsaved>>
        /\ active'[o] = clock /\ \A q \in Observers \ {o} : active'[q] = active[q]
        /\ worker'[w].observer = o /\ worker'[w].since = clock
        /\ \A v \in Workers \ {w} : worker'[v] = worker[v]
    BY <1>3 DEF StoreStatus, Typed, TypeOK
  <2>3. ASSUME NEW v \in Workers, InCall(v)', worker'[v].call = "forget",
               row'[worker'[v].observer] # None
        PROVE  row'[worker'[v].observer].seen >= worker'[v].since
    <3>1. CASE v = w
      BY <1>0, <2>1, <2>2, <3>1
    <3>2. CASE v # w
      BY <1>0, <2>1, <2>2, <2>3, <3>2 DEF Remembered, InCall
    <3> QED
      BY <3>1, <3>2
  <2>4. ASSUME NEW q \in Observers \ unsaved', row'[q] # None
        PROVE  Kept(q)'
    <3>1. CASE q = o
      BY <1>0, <2>1, <2>2, <3>1 DEF Kept
    <3>2. CASE q # o
      BY <2>1, <2>2, <2>4, <3>2 DEF Remembered, Kept
    <3> QED
      BY <3>1, <3>2
  <2>5. \A q \in Observers : active'[q] <= clock'
    BY <1>0, <2>2 DEF Remembered
  <2> QED
    BY <2>3, <2>4, <2>5 DEF Remembered
<1>4. ASSUME NEW w \in Workers, StoreUpsert(w) PROVE Remembered'
  <2>1. PICK o \in Observers : o = worker[w].observer
    BY <1>0, <1>4 DEF StoreUpsert
  <2>2. /\ row'[o].seen = clock
        /\ \A q \in Observers \ {o} : row'[q] = row[q]
        /\ worker' = [worker EXCEPT ![w] =
             [call |-> "cache", observer |-> o, since |-> clock, id |-> row'[o].id,
              name |-> row'[o].name]]
    BY <1>4, <2>1, UpsertRow
  <2>3. /\ UNCHANGED <<clock, identities, cleanup>> /\ unsaved' = unsaved \ {o}
        /\ active'[o] = clock /\ \A q \in Observers \ {o} : active'[q] = active[q]
    BY <1>4, <2>1 DEF StoreUpsert, Hears, Typed, TypeOK
  <2>4. /\ worker'[w].call = "cache"
        /\ \A v \in Workers \ {w} : worker'[v] = worker[v]
    BY <2>2 DEF Typed, TypeOK
  <2>5. ASSUME NEW v \in Workers, InCall(v)', worker'[v].call = "forget",
               row'[worker'[v].observer] # None
        PROVE  row'[worker'[v].observer].seen >= worker'[v].since
    BY <1>0, <2>2, <2>4, <2>5 DEF Remembered, InCall
  <2>6. ASSUME NEW q \in Observers \ unsaved', row'[q] # None
        PROVE  Kept(q)'
    <3>1. CASE q = o
      BY <1>0, <2>2, <2>3, <3>1 DEF Kept
    <3>2. CASE q # o
      BY <2>2, <2>3, <2>6, <3>2 DEF Remembered, Kept
    <3> QED
      BY <3>1, <3>2
  <2>7. \A q \in Observers : active'[q] <= clock'
    BY <1>0, <2>3 DEF Remembered
  <2> QED
    BY <2>5, <2>6, <2>7 DEF Remembered
<1>5. ASSUME NEW w \in Workers, StoreUpsertFails(w) PROVE Remembered'
  BY <1>0, <1>5 DEF StoreUpsertFails, Starts, InCall, Remembered, Kept
<1>6. ASSUME NEW w \in Workers, CacheIdentity(w) PROVE Remembered'
  <2>1. PICK o \in Observers : o = worker[w].observer
    BY <1>0, <1>6 DEF CacheIdentity
  <2>2. /\ UNCHANGED <<clock, row, cleanup, active, unsaved>>
        /\ identities' = [identities EXCEPT ![o] =
             [id |-> worker[w].id, name |-> worker[w].name, seen |-> clock]]
        /\ \A v \in Workers : InCall(v)' => InCall(v) /\ worker'[v] = worker[v]
    BY <1>6, <2>1 DEF CacheIdentity, InCall, Typed, TypeOK
  <2>3. /\ identities'[o] = [id |-> worker[w].id, name |-> worker[w].name, seen |-> clock]
        /\ \A q \in Observers \ {o} : identities'[q] = identities[q]
    BY <2>2 DEF Typed, TypeOK
  <2>4. identities'[o] # None
    <3>1. worker[w] \in Calls /\ worker[w].call = "cache" /\ clock \in Times
      BY <1>6, TimeTypes DEF CacheIdentity, Typed, TypeOK, Ids, Times
    <3>2. [id |-> worker[w].id, name |-> worker[w].name, seen |-> clock] \in Identities
      BY <3>1 DEF Calls, Identities
    <3> QED
      BY <2>3, <3>2
  <2>5. ASSUME NEW q \in Observers \ unsaved', row'[q] # None
        PROVE  Kept(q)'
    <3>1. CASE q = o
      BY <2>2, <2>3, <2>4, <3>1 DEF Remembered, Kept
    <3>2. CASE q # o
      BY <2>2, <2>3, <2>5, <3>2 DEF Remembered, Kept
    <3> QED
      BY <3>1, <3>2
  <2> QED
    BY <2>2, <2>5 DEF Remembered
<1>7. ASSUME NEW w \in Workers, ForgetIdentity(w) PROVE Remembered'
  BY <1>0, <1>7 DEF ForgetIdentity, Starts, InCall, Remembered, Kept
<1>8. ASSUME NEW w \in Workers, WorkerStops(w) PROVE Remembered'
  BY <1>0, <1>8 DEF WorkerStops, Starts, InCall, Remembered, Kept
<1>9. CASE BeginFlush
  BY <1>0, <1>9 DEF BeginFlush, Starts, InCall, Remembered, Kept
<1>10. CASE EndFlush
  <2>1. /\ ticker # None /\ UNCHANGED <<clock, identities, worker, active>>
        /\ unsaved \subseteq unsaved'
        /\ TouchObservers(ticker.batch) \/ TouchFails(ticker.batch)
    BY <1>10 DEF EndFlush
  <2>2. \A o \in Observers :
          /\ row[o] = None <=> row'[o] = None
          /\ row[o] # None => row'[o].id = row[o].id /\ row'[o].seen >= row[o].seen
                               /\ row'[o].seen \in Nat /\ row[o].seen \in Nat
    BY <1>0, <2>1, TouchRows, CountTypes
  <2>3. \A o \in Observers : active'[o] <= clock'
    BY <2>1 DEF Remembered
  <2>4. ASSUME NEW v \in Workers, InCall(v)', worker'[v].call = "forget",
               row'[worker'[v].observer] # None
        PROVE  row'[worker'[v].observer].seen >= worker'[v].since
    BY <1>0, <2>1, <2>2, <2>4 DEF Remembered, InCall
  <2>5. ASSUME NEW q \in Observers \ unsaved', row'[q] # None
        PROVE  Kept(q)'
    BY <1>0, <1>10, <2>1, <2>2, <2>5 DEF Remembered, Kept, EndFlush
  <2> QED
    BY <2>3, <2>4, <2>5 DEF Remembered
<1>11. CASE BeginCleanup
  <2>1. /\ UNCHANGED <<clock, row, worker, active, unsaved>> /\ cleanup = None
        /\ cleanup' = [step |-> "flush", batch |-> Saved, cutoff |-> clock - DeleteAfter]
    BY <1>11 DEF BeginCleanup
  <2>2. /\ cleanup' # None
        /\ cleanup'.step = "flush" /\ cleanup'.batch = Saved
    <3>1. cleanup' \in Cleanups
      BY <1>11, <2>1, SavedType DEF BeginCleanup, Cleanups, Ids, Times, Typed, TypeOK
    <3> QED
      BY <2>1, <3>1
  <2>3. ASSUME NEW o \in Observers, identities[o] # None
        PROVE  /\ Saved[o] # None /\ Saved[o].id = row[o].id
               /\ Saved[o].seen >= identities[o].seen
               /\ Saved[o].seen \in Nat
    <3>1. Saved[o] = [id |-> identities[o].id,
                      seen |-> Later(BumpOf(dirty, o).seen, identities[o].seen),
                      count |-> BumpOf(dirty, o).count]
      BY <2>3 DEF Saved
    <3>2. /\ BumpOf(dirty, o).seen \in Nat /\ BumpOf(dirty, o).count \in Nat
          /\ identities[o].id \in Ids
          /\ Later(BumpOf(dirty, o).seen, identities[o].seen) \in Times
      BY <2>3, BumpType, TimeTypes DEF Typed, TypeOK, Times, Identities, Later
    <3>3. Saved[o] \in Bumps
      BY <3>1, <3>2 DEF Bumps
    <3> QED
      BY <1>0, <2>3, <3>1, <3>2, <3>3 DEF Later, Named, CachedHasRow
  <2>4. ASSUME NEW o \in Observers \ unsaved', row'[o] # None
        PROVE  Kept(o)'
    <3>1. Kept(o) /\ cleanup = None
      BY <2>1, <2>4 DEF Remembered
    <3>2. \/ active[o] <= row[o].seen + 1
          \/ identities[o] # None /\ active[o] <= identities[o].seen
      BY <3>1 DEF Kept
    <3> QED
      BY <1>0, <2>1, <2>2, <2>3, <3>2 DEF Kept
  <2> QED
    BY <2>1, <2>4 DEF Remembered, InCall
<1>12. CASE CleanupFlush
  <2>1. /\ cleanup # None /\ UNCHANGED <<clock, identities, worker, active>>
        /\ unsaved \subseteq unsaved'
        /\ TouchObservers(cleanup.batch) \/ TouchFails(cleanup.batch)
    BY <1>12 DEF CleanupFlush
  <2>2. \A o \in Observers :
          /\ row[o] = None <=> row'[o] = None
          /\ row[o] # None => row'[o].id = row[o].id /\ row'[o].seen >= row[o].seen
                               /\ row'[o].seen \in Nat /\ row[o].seen \in Nat
    BY <1>0, <2>1, TouchRows, CountTypes
  <2>3. \A o \in Observers : active'[o] <= clock'
    BY <2>1 DEF Remembered
  <2>4. ASSUME NEW v \in Workers, InCall(v)', worker'[v].call = "forget",
               row'[worker'[v].observer] # None
        PROVE  row'[worker'[v].observer].seen >= worker'[v].since
    BY <1>0, <2>1, <2>2, <2>4 DEF Remembered, InCall
  <2>5. ASSUME NEW q \in Observers \ unsaved', row'[q] # None
        PROVE  Kept(q)'
    <3>1. CASE TouchObservers(cleanup.batch)
      BY <1>0, <1>12, <2>1, <2>2, <2>5, <3>1, TouchRows, TimeTypes DEF Remembered, Kept,
         CleanupFlush
    <3>2. CASE ~ TouchObservers(cleanup.batch)
      BY <1>0, <1>12, <2>1, <2>2, <2>5, <3>2 DEF Remembered, Kept, CleanupFlush
    <3> QED
      BY <3>1, <3>2
  <2> QED
    BY <2>3, <2>4, <2>5 DEF Remembered
<1>13. CASE CleanupDelete
  BY <1>0, <1>13 DEF CleanupDelete, Starts, InCall, Remembered, Kept
<1>14. CASE Shutdown
  BY <1>0, <1>14 DEF Shutdown, Starts, InCall, Remembered, Kept
<1>15. CASE Finish
  BY <1>0, <1>15 DEF Finish, Starts, InCall, Remembered, Kept
<1>16. CASE Tick
  BY <1>0, <1>16 DEF Tick, Starts, InCall, Remembered, Kept
<1>17. CASE UNCHANGED vars
  BY <1>0, <1>17 DEF vars, Starts, InCall, Remembered, Kept
<1> QED
  BY <1>1, <1>2, <1>3, <1>4, <1>5, <1>6, <1>7, <1>8, <1>9, <1>10, <1>11, <1>12, <1>13,
     <1>14, <1>15, <1>16, <1>17 DEF Next, Work

(* Only a cleanup removes a row, one that no identity and no batch keeps.  *)
LEMMA RecentStep ==
  ASSUME Typed, Named, Remembered, [Next]_vars, NEW o \in Observers, row[o] # None, row'[o] = None
  PROVE  active[o] <= cleanup.cutoff \/ o \in unsaved
<1> USE PresenceAssumption, NoneAssumption DEF memory, history
<1>1. CASE CleanupDelete
  <2>1. cleanup # None /\ cleanup.step = "delete" /\ row[o].seen < cleanup.cutoff
    BY <1>1 DEF CleanupDelete, Typed, TypeOK
  <2>2. identities[o] = None
    BY <2>1, TimeTypes DEF Named
  <2>3. o \notin unsaved => active[o] <= row[o].seen + 1
    BY <2>1, <2>2 DEF Remembered, Kept
  <2> QED
    BY <2>1, <2>3, TimeTypes
<1>2. CASE row' = row
  BY <1>2
<1>3. CASE EndFlush \/ CleanupFlush
  BY <1>3, TouchRows, CountTypes DEF EndFlush, CleanupFlush
<1>4. ASSUME NEW w \in Workers, NEW q \in Observers, NEW name \in StatusNames,
             StoreStatus(w, q, name)
      PROVE  FALSE
  BY <1>4, StatusRow
<1>5. ASSUME NEW w \in Workers, StoreUpsert(w) PROVE FALSE
  <2>1. PICK q \in Observers : q = worker[w].observer
    BY <1>5, TimeTypes DEF StoreUpsert
  <2> QED
    BY <1>5, <2>1, UpsertRow
<1> QED
  BY <1>1, <1>2, <1>3, <1>4, <1>5 DEF Next, Work, vars, UpsertCached, UpsertMissed,
     StoreUpsertFails, CacheIdentity, ForgetIdentity, WorkerStops, BeginFlush,
     BeginCleanup, Shutdown, Finish, Tick

(* Every step keeps that a stopped server finds all writers stopped.       *)
LEMMA QuietStep ==
  ASSUME Quiet, [Next]_vars
  PROVE  Quiet'
<1> USE NoneAssumption DEF memory, history
<1>1. ASSUME NEW w \in Workers, NEW o \in Observers, UpsertCached(w, o) PROVE Quiet'
  BY <1>1 DEF UpsertCached, Starts, InCall, TakeDirty, WritersStopped, Quiet
<1>2. ASSUME NEW w \in Workers, NEW o \in Observers, UpsertMissed(w, o) PROVE Quiet'
  BY <1>2 DEF UpsertMissed, Starts, InCall, TakeDirty, WritersStopped, Quiet
<1>3. ASSUME NEW w \in Workers, NEW o \in Observers, NEW name \in StatusNames, StoreStatus(w, o, name) PROVE Quiet'
  BY <1>3 DEF StoreStatus, Starts, InCall, TakeDirty, WritersStopped, Quiet
<1>4. ASSUME NEW w \in Workers, StoreUpsert(w) PROVE Quiet'
  BY <1>4 DEF StoreUpsert, Starts, InCall, TakeDirty, WritersStopped, Quiet
<1>5. ASSUME NEW w \in Workers, StoreUpsertFails(w) PROVE Quiet'
  BY <1>5 DEF StoreUpsertFails, Starts, InCall, TakeDirty, WritersStopped, Quiet
<1>6. ASSUME NEW w \in Workers, CacheIdentity(w) PROVE Quiet'
  BY <1>6 DEF CacheIdentity, Starts, InCall, TakeDirty, WritersStopped, Quiet
<1>7. ASSUME NEW w \in Workers, ForgetIdentity(w) PROVE Quiet'
  BY <1>7 DEF ForgetIdentity, Starts, InCall, TakeDirty, WritersStopped, Quiet
<1>8. ASSUME NEW w \in Workers, WorkerStops(w) PROVE Quiet'
  BY <1>8 DEF WorkerStops, Starts, InCall, TakeDirty, WritersStopped, Quiet
<1>9. CASE BeginFlush
  BY <1>9 DEF BeginFlush, Starts, InCall, TakeDirty, WritersStopped, Quiet
<1>10. CASE EndFlush
  BY <1>10 DEF EndFlush, Starts, InCall, TakeDirty, WritersStopped, Quiet
<1>11. CASE BeginCleanup
  BY <1>11 DEF BeginCleanup, Starts, InCall, TakeDirty, WritersStopped, Quiet
<1>12. CASE CleanupFlush
  BY <1>12 DEF CleanupFlush, Starts, InCall, TakeDirty, WritersStopped, Quiet
<1>13. CASE CleanupDelete
  BY <1>13 DEF CleanupDelete, Starts, InCall, TakeDirty, WritersStopped, Quiet
<1>14. CASE Shutdown
  BY <1>14 DEF Shutdown, Starts, InCall, TakeDirty, WritersStopped, Quiet
<1>15. CASE Finish
  BY <1>15 DEF Finish, Starts, InCall, TakeDirty, WritersStopped, Quiet
<1>16. CASE Tick
  BY <1>16 DEF Tick, Starts, InCall, TakeDirty, WritersStopped, Quiet
<1>17. CASE UNCHANGED vars
  BY <1>17 DEF vars, Starts, InCall, TakeDirty, WritersStopped, Quiet
<1> QED
  BY <1>1, <1>2, <1>3, <1>4, <1>5, <1>6, <1>7, <1>8, <1>9, <1>10, <1>11, <1>12, <1>13,
     <1>14, <1>15, <1>16, <1>17 DEF Next, Work

-----------------------------------------------------------------------------
(* The theorems                                                            *)

(* Every time an observer was upserted is counted in exactly one place,    *)
(* whatever flush, cleanup and workers do in between (UpsertObserver,      *)
(* Flush, DeleteOldObservers, finish).                                     *)
THEOREM CountsTheorem == Spec => []CountsConserved
<1> DEFINE Inv == Typed /\ \A o \in Observers : Balanced(o)
<1>1. Init => Inv
  <2> SUFFICES ASSUME Init PROVE Inv
    OBVIOUS
  <2>1. \A o \in Observers : Balanced(o)
    BY DEF Init, Balanced, RowCount, TickerCount, CleanupCount, CountIn, BumpOf, NoDirt,
       NoBump
  <2> QED
    BY <2>1, TypedInit
<1>2. Inv /\ [Next]_vars => Inv'
  <2> SUFFICES ASSUME Inv, [Next]_vars PROVE Inv'
    OBVIOUS
  <2>1. Typed'
    BY TypedStep
  <2>2. \A o \in Observers : Balanced(o)'
    BY <2>1, BalancedStep
  <2> QED
    BY <2>1, <2>2
<1>3. Inv => CountsConserved
  BY CountsAreBalanced DEF Typed
<1> QED
  BY <1>1, <1>2, <1>3, PTL DEF Spec

(* The invariant of the rows: their types, that those of cached observers  *)
(* are there, and that no last activity is forgotten.                      *)
RowsInv == Typed /\ Named /\ Remembered

LEMMA RowsInitially == Init => RowsInv
<1> SUFFICES ASSUME Init PROVE RowsInv
  OBVIOUS
<1>1. \A w \in Workers : ~ InCall(w)
  BY DEF Init, InCall
<1> QED
  BY <1>1, TypedInit DEF RowsInv, Init, Named, CachedHasRow, Remembered

LEMMA RowsStep == RowsInv /\ [Next]_vars => RowsInv'
<1> SUFFICES ASSUME RowsInv, [Next]_vars PROVE RowsInv'
  OBVIOUS
<1> USE DEF RowsInv
<1>1. Typed'
  BY TypedStep
<1> QED
  BY <1>1, NamedStep, RememberedStep

(* A cached observer has the row its identity names: no cleanup deletes it *)
(* between the store's answer and setCached, nor after (UpsertObserver,    *)
(* DeleteOldObservers).                                                    *)
THEOREM CachedTheorem == Spec => []CachedHasRow
<1>1. RowsInv => CachedHasRow
  BY DEF RowsInv, Named
<1> QED
  BY <1>1, RowsInitially, RowsStep, PTL DEF Spec

(* No step deletes an observer that was active after the cutoff, though    *)
(* flushes fail and overtake each other (DeleteOldObservers): its cleanup  *)
(* saved that activity, or it lost it in a flush that failed.              *)
THEOREM RecentTheorem == Spec => RecentSurvives
<1>1. RowsInv /\ [Next]_vars =>
        [\A o \in Observers :
           row[o] # None /\ row'[o] = None => active[o] <= cleanup.cutoff \/ o \in unsaved]_vars
  BY RecentStep DEF RowsInv
<1> QED
  BY <1>1, RowsInitially, RowsStep, PTL DEF Spec, RecentSurvives

(* When finish returns, no activity is left in memory (finish, Run): all   *)
(* writers have stopped before it takes the last batch.                    *)
THEOREM FinishTheorem == Spec => []FinishLeavesNothing
<1>1. Init => Quiet
  BY DEF Init, Quiet
<1>2. Quiet /\ [Next]_vars => Quiet'
  BY QuietStep
<1>3. Quiet => FinishLeavesNothing
  BY DEF Quiet, FinishLeavesNothing
<1> QED
  BY <1>1, <1>2, <1>3, PTL DEF Spec
=============================================================================
