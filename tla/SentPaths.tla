----------------------------- MODULE SentPaths -----------------------------
(***************************************************************************)
(* Which hearings of a packet are streamed: internal/hub/sent.go and the   *)
(* lines around InsertObservation and MarkSent in internal/ingest/         *)
(* packet.go, run by the workers of all brokers at once.                   *)
(*                                                                         *)
(* The database stores the first hearing of a packet by an observer (a     *)
(* pair) and refuses the others.  The stored one is streamed; another one  *)
(* is streamed as a repeat if sentPaths says that its path is new.         *)
(* sentPaths remembers pairs and hearings for a while, in the order in     *)
(* which they were added.                                                  *)
(***************************************************************************)
EXTENDS Integers, Sequences, FiniteSets, FiniteSetsExt, Functions

CONSTANTS
  Workers,   (* one lane of one broker's queue each                        *)
  Pairs,     (* (packet, observer)                                         *)
  Paths,     (* paths a packet is heard over                               *)
  TTL,       (* 2 minutes in the code                                      *)
  MaxEntries,(* 200,000                                                    *)
  MaxTime,   (* bound: the clock                                           *)
  MaxHeard,  (* bound: hearings handled                                    *)
  NoPath     (* marks the key of a pair                                    *)

ASSUME SentAssumption ==
  /\ TTL \in Nat \ {0}
  /\ MaxEntries \in Nat \ {0, 1}
  /\ MaxTime \in Nat
  /\ MaxHeard \in Nat
  /\ NoPath \notin Paths

Keys == [pair : Pairs, path : Paths \cup {NoPath}]
Hearings == [pair : Pairs, path : Paths]

VARIABLES
  clock,
  at,       (* the keys of the map                                         *)
  order,    (* keys with their times                                       *)
  stored,   (* pairs with a row in packet_observations                     *)
  worker,   (* per worker: where it is with its hearing                    *)
  \* History.
  heard,    (* how many hearings were taken up                             *)
  paths,    (* per pair: the paths it was heard over                       *)
  crowded,  (* keys dropped to make room, ever                             *)
  streamed  (* broadcasts, numbered: the hearing, whether as a repeat,     *)
            (* and the clock as it was read and when it was marked         *)

vars == <<clock, at, order, stored, worker, heard, paths, crowded,
          streamed>>

-----------------------------------------------------------------------------
(* sentPaths                                                               *)

(* Deviation: one expired entry takes all with it.                         *)
StaleAll(q, now) ==
  IF q # <<>> /\ (now - q[1].at >= TTL \/ Len(q) >= MaxEntries) THEN Len(q) ELSE 0
(* How many entries add drops off the front: while the first has expired   *)
(* or there are MaxEntries of them.                                        *)
Stale(q, now) ==
  Min({n \in 0..Len(q) :
         n = Len(q) \/ (now - q[n + 1].at < TTL /\ Len(q) - n < MaxEntries)})

(* Deviation: the map keeps what the list dropped.                         *)
ForgetInList(s, now) ==
  [s EXCEPT !.order = SubSeq(@, Stale(@, now) + 1, Len(@))]
(* Of the first n entries of q, those at the bound when their turn came.    *)
Crowding(q, n) == {q[i].key : i \in {j \in 1..n : Len(q) - j + 1 >= MaxEntries}}
Forget(s, now) ==
  LET n == Stale(s.order, now) IN
  [at |-> s.at \ {s.order[i].key : i \in 1..n},
   order |-> SubSeq(s.order, n + 1, Len(s.order)),
   crowded |-> s.crowded \cup Crowding(s.order, n)]
(* add: the state after it, and whether the key was new.                   *)
Added(s, k, now) ==
  LET f == Forget(s, now) IN
  IF k \in f.at
  THEN [state |-> f, new |-> FALSE]
  ELSE [state |-> [f EXCEPT !.at = @ \cup {k},
                            !.order = Append(@, [key |-> k, at |-> now])],
        new |-> TRUE]

(* Deviation: every path of a pair counts, the first one too.              *)
MarkedAny(s, h, now) ==
  LET hearing == Added(s, h, now) IN [state |-> hearing.state, new |-> hearing.new]
(* mark: a path is new if it is, and its pair is not.                      *)
Marked(s, h, now) ==
  LET first == Added(s, [h EXCEPT !.path = NoPath], now)
      hearing == Added(first.state, h, now)
  IN [state |-> hearing.state, new |-> hearing.new /\ ~first.new]

-----------------------------------------------------------------------------
(* A worker                                                                *)

NoHearing == [pc |-> "idle"]

(* InsertObservation: the database lets one worker store the pair.         *)
Insert(w, h) ==
  /\ worker[w].pc = "idle"
  /\ heard < MaxHeard
  /\ heard' = heard + 1
  /\ paths' = [paths EXCEPT ![h.pair] = @ \cup {h.path}]
  /\ worker' = [worker EXCEPT ![w] =
       [pc |-> "marking", hearing |-> h, inserted |-> h.pair \notin stored]]
  /\ stored' = stored \cup {h.pair}
  /\ UNCHANGED <<clock, at, order, crowded, streamed>>

(* MarkSent reads the clock before it takes the mutex.                     *)
ReadClock(w) ==
  /\ worker[w].pc = "marking"
  /\ worker' = [worker EXCEPT ![w] =
       [pc |-> "locking", hearing |-> @.hearing, inserted |-> @.inserted,
        now |-> clock]]
  /\ UNCHANGED <<clock, at, order, stored, heard, paths, crowded, streamed>>

(* What a worker does with the answer, when some client wants repeats.     *)
Streams(x, new) == x.inserted \/ new

Mark(w) ==
  /\ worker[w].pc = "locking"
  /\ LET x == worker[w]
         m == Marked([at |-> at, order |-> order, crowded |-> crowded],
                     x.hearing, x.now)
     IN /\ at' = m.state.at
        /\ order' = m.state.order
        /\ crowded' = m.state.crowded
        /\ streamed' = IF Streams(x, m.new)
                       THEN streamed \cup {[hearing |-> x.hearing,
                                            repeat |-> ~x.inserted,
                                            now |-> x.now, marked |-> clock,
                                            n |-> Cardinality(streamed)]}
                       ELSE streamed
  /\ worker' = [worker EXCEPT ![w] = NoHearing]
  /\ UNCHANGED <<clock, stored, heard, paths>>

Tick == clock < MaxTime /\ clock' = clock + 1
        /\ UNCHANGED <<at, order, stored, worker, heard, paths, crowded, streamed>>

Init ==
  /\ clock = 0 /\ at = {} /\ order = <<>> /\ stored = {}
  /\ worker = [w \in Workers |-> NoHearing]
  /\ heard = 0 /\ streamed = {} /\ crowded = {}
  /\ paths = [p \in Pairs |-> {}]

Next ==
  \/ Tick
  \/ \E w \in Workers :
       \/ \E h \in Hearings : Insert(w, h)
       \/ ReadClock(w) \/ Mark(w)

Spec == Init /\ [][Next]_vars

-----------------------------------------------------------------------------
(* Properties                                                              *)

Entries == [key : Keys, at : 0..MaxTime]

(* The map and the list hold the same keys, each once, at most MaxEntries  *)
(* of them, however expiry and the size bound interleave.                     *)
InSync ==
  /\ clock \in 0..MaxTime
  /\ Range(order) \subseteq Entries
  /\ at = {order[i].key : i \in DOMAIN order}
  /\ Cardinality(at) = Len(order)
  /\ Len(order) <= MaxEntries

(* The same hearing is streamed as a repeat at most once per TTL: TTL      *)
(* passes between the look at the clock for one and the mark of the next,  *)
(* unless the hearing itself had to make room for others.                  *)
RepeatOncePerTTL ==
  \A x, y \in streamed :
    /\ x.repeat /\ y.repeat /\ x.hearing = y.hearing
    /\ x.n < y.n
    => y.marked - x.now >= TTL \/ x.hearing \in crowded

(* A pair heard over a single path so far has no repeats, whoever of the   *)
(* workers wins the insert and whoever marks first.                        *)
OnePathNoRepeat ==
  \A e \in streamed : e.repeat => Cardinality(paths[e.hearing.pair]) > 1

=============================================================================
