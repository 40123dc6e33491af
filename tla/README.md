# beacon-server: TLA+ models

beacon-server collects what MeshCore radio observers hear (over MQTT), stores it
in PostgreSQL, and serves it over HTTP and as a live WebSocket feed. It is one Go
process: brokers, workers, request handlers and background jobs are goroutines
that share memory under mutexes, channels and a database. These modules model
the parts whose correctness depends on how those goroutines interleave, check
them with TLC, and prove some of it with TLAPS.

    tlc -config HubClients.cfg MCHub.tla      # a run, see "Runs"
    tlapm HubProofs.tla                       # proofs, see "Proofs"

## 1. Inventory

### The system's parts

| Part | State it keeps | Operations | What is hard | What makes it correct |
|---|---|---|---|---|
| **Live feed hub** `internal/hub/hub.go` | the client map, each client's scopes and options, two flag counters, four channels, two per client | NewClient, AddScope, Configure, RemoveScope, Remove, Broadcast, BroadcastRepeat, Run | Run's select orders nothing between channels; write pumps empty the buffer it finds full | counters exact, no send on a closed channel, order and announced losses, nobody stalls Run |
| **Repeat suppression** `internal/hub/sent.go` | keys seen in the last two minutes, in time order | mark | several workers mark hearings of one packet; expiry and a size bound | a first hearing is no repeat, a repeat is streamed once per TTL |
| **WebSocket connection** `internal/ws` | connections per address, a byte budget | accept, read loop, write pump, ping | a dead client, a dead pump, a subscribe whose regions cannot be read | it always leaves; a scope is never wider than asked for |
| **Client admission** `internal/guards/admission.go` | slots, queue and holders per client | Begin, Admit, Finish | hand-over races timeout, client disconnect and the end of the request | no slot lost, freed twice or idle; ClientCap kept |
| **Statement routing** `db/planrouter.go` | a ticket per statement | begin, end, query | a ticket is given back exactly once | see admission |
| **Ingest queue** `internal/ingest/queue.go` | lanes, bytes held, drops | enqueue, lane loops, takeDropped, close | two bounds, a panic in a handler, a shutdown with a time limit | order per observer, exact accounting, quiet after close |
| **Ingest worker** `internal/ingest` | broker connection, decode caches | handlePacket, handleStatus, broadcast | the same hearing over two brokers and eight lanes | one row per hearing, see hub and repeat suppression |
| **Presence coalescer** `internal/presence` | cached identities, dirty bumps | UpsertObserver, UpdateObserverStatus, Flush, DeleteOldObservers, finish | every store call happens outside the mutex; flushes fail; the cleanup deletes rows others have cached | activity counted once, recent observers are kept, nothing left at exit |
| **Decrypt backfill** `internal/ingest/backfill.go` | a pending flag, requested hashes, a wake channel | RequestAll, RequestHashes, Run, take, run | requests during a run; live hearings of the same packet | no request forgotten, one message per packet |
| **Read model trust** `db/readmodel.go`, `internal/background/readmodel_*.go` | generations, clean and dirty streaks, expiry | Invalidate, Generation, Repaired, ObserveRun, Earn, SetExpiry; boot job, periodic task, audit, read-only watch | a writer's failure during a reconcile | trusted implies repaired since the last failure |
| **Read model tables** `db/cmi.go`, `db/packet_sites*.go` | two derived tables and their watermarks | fill, reconcile, verify, sweep | writers that bypass the model | the tables equal what they are derived from |
| **Hourly rollups** `db/rollup.go`, `internal/background/rollup.go` | hours: registered, rolled, dirty, partial | register, roll, mark dirty | an hour dirtied while it is rolled; raw rows gone | no change lost, no hour rolled from missing rows |
| **Retention tasks** `internal/background/tasks.go`, `route_retention.go` | cutoffs, grace periods | delete old observers, packets, routes | a cutoff that is stale when the rows are deleted | nothing needed is deleted |
| **Task scheduler** `internal/background/background.go` | a ticker per task | Run | one task's panic or delay | tasks are independent |
| **Response cache** `internal/cache` | Redis entries, shared fetches, a revision memo | fetch, invalidate | a fetch that straddles an invalidation; a mutex held across admission | no stale entry beyond its TTL |
| **Stats warming and plan checks** `internal/background/stats_warm.go`, `planguard.go`, ... | a run in flight and its report | Check, Last | callers that join a run | one run at a time, every caller gets a report |
| **Route statistics and maintenance** `db/route_*.go` | routes, evidence, grace | SQL | evidence counted once | |
| **MeshMapper imports** `internal/meshmapper` | zone and scope lists, a daily budget | refresh, import | one request a day, restarts, two importers | the budget is kept, lists are replaced whole |
| **Migrations** `db/migrate.go` | applied files, an advisory lock | Migrate | an interrupted concurrent index build | every file applied once |
| **Key and scope stores** `internal/keystore`, `internal/scopestore` | a copy-on-write map | Load, Lookup | - | one writer, one atomic pointer |
| **Live observation counts** `internal/obscount` | minute buckets | Add, Count | bucket boundaries | |
| **WebSocket tickets** `internal/wsticket` | none | Issue, Verify | - | |
| **Server start and stop** `cmd/beacon/main.go` | - | wiring, shutdown order | what still writes when a flush or a close happens | see presence and ingest queue |
| **HTTP API** `internal/api`, `db/*.go` reads | none | read queries | - | |
| **Tools** `internal/planguard`, `internal/backup` and their commands | - | - | - | |

Generated code (`db/sqlc`, `docs`), data (`internal/iatadb`) and support packages
(configuration, logging, metrics, profiling, `lora`, `borders`) keep no state the
models need.

### How they interact

- Two paho callbacks per broker put messages in that broker's **ingest queue**;
  its eight lane goroutines decode, call the **presence coalescer** for the
  observer, insert the hearing, **mark** it in the hub's sent paths, and
  broadcast it to the **hub**.
- A **WebSocket** handler talks to the hub through channels only; the hub calls
  nobody. The write pump reads the client's two channels.
- Every HTTP request runs between `Begin` and `Finish` of **admission**;
  every statement goes through `Admit`. A cache fetch shared by several requests
  carries the admission state of the one that started it.
- **Background tasks** share the store with all of them: the observer cleanup goes
  through the coalescer, writers that fail call `Invalidate` on the **trust** the
  readers consult.
- On **shutdown** the context of all ends at once; the coalescer's Run flushes
  and returns while workers still drain, and `finish` flushes again once they
  stopped.

## 2. Modules

One module per component, with one action per operation or, where a lock is
released or a channel operation may block, one action per step between two such
points. `MC*.tla` extends a module with the sets its `.cfg` refers to. Operators
introduced by a comment "Deviation:" are plausible mistakes; no action uses them,
they exist to show that a property would notice.

### Hub (`Hub.tla`, `HubProofs.tla`)

`internal/hub/hub.go` with what talks to it: the handler and write pump of
`internal/ws/handler.go` and the publishing end of `internal/ingest/ingest.go`.

| Model | Code |
|---|---|
| `subscribe`, `unsubscribe`, `remove`, `broadcast` | the hub's four buffered channels |
| `clients`, `subscriptions`, `options` | Run's map and the fields of `Client` only Run writes |
| `observerKeyClients`, `repeatClients` | the atomic counters |
| `send`, `laggedCH`, `closed` | a client's two channels, and whether they are closed |
| `run` | where Run is: in its select, or at a client of the fan-out (offer, evict, resend, notify) |
| `phase`, `request`, `pumping` | where a connection's handler is, the message it blocks on, whether its pump runs |
| `worker` | the event an ingest goroutine is about to publish |
| `published`, `got`, `missed`, `issued`, `unsubscribed` | history for the properties |

`RunSubscribe`, `RunUnsubscribe`, `RunRemove`, `RunBroadcast` are the cases of
Run's select, enabled whenever their channel has something: Go's select gives no
order between them. A fan-out is one step per channel operation (`RunOffer`,
`RunEvict`, `RunResend`, `RunNotify`), so a write pump's `PumpEvent` may come
between any two. The blocking sends of `NewClient`, `AddScope`, `Configure`,
`RemoveScope`, `Remove` are guarded by room in the channel. `BuildObservation`
reads the counters, `BroadcastRepeat` looks at the length of the channel,
`Broadcast` sends: three steps, since nothing holds them together.

Left out: the bytes of an event (a payload is the set of variants ingest
marshalled), the drop counters that are only logged, the send budget (a pump that
discards an event for the budget is a pump that took it, `PumpEvent`), the address
limiter and the lookup of a subscribe's regions, the broadcasts of nodes, channel
messages and statuses, which take the same path as an observation but carry no
variants and no repeats.

### Admission (`Admission.tla`, `AdmissionProofs.tla`)

`internal/guards/admission.go`; requests are those of `middleware.go`, statements
those of `db/planrouter.go`. `holders` and `waiters` are a client's slots and
queue, `slot` the request's slot state, `closed` the channels `release` and
`finish` close, `stmt` where a request's statement is. Everything between
`g.mu.Lock` and `Unlock` is one step. A wait in `Admit` is three: `JoinQueue`,
`Wake` (the select returns, for any of its three reasons), and `Resume` or
`GiveUp`, which look at the slot under the mutex again; hand-overs (`release`) and
ends of requests (`finish`, `LeaveQueue`) may come between them. `release`
performs its whole loop: `Taken` are the waiters it takes off the queue, `Handed`
those that got a slot, `Discarded` the observed ones that had waited too long.

`Shared` requests run their statements in `fetchShared`'s goroutine, which
survives the request. `Tolerant` requests go on after a statement failed, as the
callers of `hopGroupSmall` (`db/route_hop_stats.go`) do. Time is abstracted to `Late`: a request has
been queued for ClientWait. Left out: the class deadlines (they end a statement,
as `Wake` by cancellation and `StatementEnds` already do), the pool's acquire
limit, the shadow budget, the table of route classes.

### IngestQueue (`IngestQueue.tla`, `IngestQueueProofs.tla`)

`internal/ingest/queue.go` with `Worker.Start`'s use of it. A message has a number,
an observer and a size; `laneOf` is the hash, chosen freely at the start. `bytes`,
`dropped`, `closed` are the fields; `handling` and `up` what the lane goroutines
do; `start` how far the deferred close and last report of Start are. The drain's
20 seconds are `DrainTimesOut`, possible at any moment. Bytes may be freed only
after a handler returned, as in the deferred accounting of the lane loop; a
recovered panic returns like any handler.

### SentPaths (`SentPaths.tla`, `SentPathsProofs.tla`)

`internal/hub/sent.go` and the part of `handlePacket` (`internal/ingest/packet.go`)
that inserts a hearing, marks it and decides whether to stream it. `at` and `order`
are the map and the list; `Forget`, `Added` and `Marked` are the loop of `add`,
`add` and `mark`. A worker stores (`Insert`), reads the clock (`ReadClock`, before
the mutex) and marks (`Mark`). TRACE packets, which are not marked, are left out.

### Presence (`Presence.tla`, `PresenceProofs.tla`)

`internal/presence/coalescer.go` for observers, with the SQL statements it calls
(`db/queries/queries.sql`) and the shutdown of `cmd/beacon/main.go`. An upsert of a
cached observer is one step under the mutex (`UpsertCached`); a miss is three, the
look at the cache, the store's upsert and the caching of its answer
(`UpsertMissed`, `StoreUpsert`, `CacheIdentity`). A status message is the store's
update and then the removal of the identity (`StoreStatus`, `ForgetIdentity`).
`BeginFlush` takes what is dirty, `EndFlush` is the statement, which may fail.
The cleanup is three steps: `BeginCleanup` (take all, forget all), `CleanupFlush`,
`CleanupDelete`, which deletes any set of the rows older than the cutoff (rows with
stored history stay; that history is not modelled). `Finish` is `finish`. `unsaved`
is history: the observers whose last activity a cleanup took and then failed to
flush; `RecentSurvives` says nothing of those (see section 3).

The clock counts ticks long enough for a call to the store to end and for the
flush interval to pass (seconds, against a retention of days). Left out: brokers,
IATA codes and packets, which are coalesced in the same way but have no cleanup
that races them.

### ReadModel (`ReadModel.tla`, `ReadModelProofs.tla`)

`channel_message_iatas`, the read model of which sites heard which channel message:
the writers that keep it (`db/channels.go`, `internal/ingest`), the session that
repairs it (`db/cmi.go`, `internal/background/readmodel_cmi.go`), and the `Trust`
that decides whether pages are served from it (`db/readmodel.go`).

| Model | Code |
|---|---|
| `observed`, `obsId`, `message` | `observations` and `channel_messages` with their ids; an id is drawn when the statement begins, the row is visible when it commits |
| `sites` | the table's pairs; a hearing stands for its site |
| `state` | `CmiState` in `background_state['cmi']`: found, backfill progress, two generations of watermarks, first verification |
| `phase`, `draft`, `seen`, `recorded` | a writer between `InsertObservation`, its first Add, its insert attempt with the snapshot's hearings, the fallback, its second Add (`siteRecorded`) |
| `earned`, `dropped`, `dirty`, `clean` | Trust's fields and streaks |
| `behind`, `moved` | `gen > repairedGen`, and whether `gen` moved since the session read it: the two facts the counters are used for |
| `job`, `booted` | a session of `Boot` or `Task`, one at a time (advisory lock) |
| `orphans` | statements a crashed process had sent; `WaitForPreBootWriters` waits for them |

A statement that draws an id and commits later is two steps, any other is one. The
slices of a reconciled range are taken as one statement: a session that fails
between two slices saves nothing and starts over, and slices only insert.
`Unchecked` is the exact check over the newest `VerifyMessages` ids; a page compared
by Verify may lack any missing pair, so `CheckDiffers` needs only one missing pair
anywhere. A visit of the decrypt backfill lists packets, and a packet's row is there
before its first observation is, so a visit waits for no hearing: the message may be
stored first, and the hearing's own Add or a reconcile brings its site. A failing
`UpsertChannel` reports nothing, as in the code: the second Add
runs after it. `Rebuild` is what an operator does to make the task fill the table
again (`readmodel_cmi.go:198` provides for it), taken to happen between two sessions;
until the next task pages are read from the empty table.

`aged` and `overtaken` are history: whose statement was in flight when its ids were read
last, and whose was in flight at two reads, the case the two generations of watermarks
give up (`db/cmi.go:239-242`), with the other writers of its packet. `overtaken` also
holds who was passed over at first use. `Init`
starts the backfill below the first message there is (`db/cmi.go:137-143`) and both
ranges at the newest one: a message whose id was drawn before and is committed after,
below that first message, is in no range of any later session. If its insert fell back
to the one without sites, its earlier hearings stay missing. The proof of
`ReportedMissesHidden` showed the case, which the instances of the runs, with a legacy
message, do not reach: an instance without one violates the property if the exemption
is taken out. It takes a first use within the first messages of a database, and a
failed statement; the first verification would find the pair among the newest messages,
and then not let pages be served from the table. Left out: the operator's switch, the read-only server, `packet_sites`.

### Rollup (`Rollup.tla`, `RollupProofs.tla`)

The hourly analytics: what ingest stores (`packet.go`, `side_effects.go`), the pass
(`internal/background/rollup.go`), a roll (`db/rollup.go` and the statements of
`rollup.sql.go`), and the cleanup (`internal/background/tasks.go`).

`lastHeard`, `stored`, `messages` are the raw rows; `status`, `rolled`, `dirty`,
`rawDeletedBefore`, `revision` are `analytics_rollup_hours`, the content of the
families, `analytics_dirty_hours`, and the two counters of the bookkeeping row.
`RollHour` is a repeatable-read transaction and hence two steps: `RollBegin` (the
lock and the snapshot the families are computed from) and `RollCommit`; an insert
that updates a queued row in between makes it conflict (`RollConflicts`).
`RegisterHours`, `MarkPartialHours`, `MissingHours`, `DirtyHours` are the pass's
other statements. The cleanup is `RawCutoff`, then batches of `DeleteOldPackets`,
then one statement over the rollups in two steps: `SeeOldRollups` is its snapshot, and
`DeleteOldRollups` deletes the hour rows, after waiting for one that a roll has locked,
and of the families what the snapshot saw. Under READ COMMITTED the rows that the roll
inserted meanwhile are not among them; they outlive their hour until the next cleanup,
which is `rolled[h]` with `status[h] = "none"`. Hearings and packets are numbered in the order in which they are heard, which loses nothing, as
nothing else tells them apart.

The families' content of an hour is the hearings and messages they are computed
from. A pass has no budgets: each list is the whole list. Times are in ticks;
`rollupDelay` leaves time for an hour's last hearing to be stored, which the model
takes as an assumption: a hearing is stored within the tick it is handled in. A
server that takes longer than the delay between reading the clock and inserting
would put a hearing in an hour already rolled.

### DecryptBackfill (`BackfillService.tla`, `DecryptBackfill.tla`, `DecryptProofs.tla`)

`BackfillService` is what those who ask for a run are promised: requests gather in
`asked`, a run begins with all of them and serves them, one run at a time, and every
request is served unless the process ends: `ends` counts that, and a step that drops
a request without counting one is not a step of it. `DecryptBackfill` is the code:
`internal/ingest/backfill.go` beside the live lanes, the boot (`cmd/beacon/main.go`)
and the channel importer (`internal/meshmapper/channels.go`,
`internal/keystore/keystore.go`).

`all` and `hashes` are the pending request under the mutex, `wake` the one-slot
channel, `run` where `Run` is (waiting, taking, listing, trying), `list` the packets
of `run`'s query. A request and its `poke` are two steps, as are `SetImported` and
`RequestHashes`. A message's insert and the packet's `SetPacketDecrypted` are two
statements, live (`LiveDecrypt`, `LiveMark`) and in a run (`Try`, `Mark`). The run's
time limit is looked at between packets (`RunFails`), never inside one, as the
context of each packet is detached. The text is abstracted: a packet decrypts if its
channel has a key. Imported keys are restored before boot asks. Packets are not
deleted, the pauses between batches are left out.

`DecryptBackfill` implements `BackfillService` under `asked <- Asked`,
`serving <- request`, `ends <- restarts`, which only `Restart` counts up: TLC checks
the whole specification with its fairness (`ServesRequests`), `DecryptProofs` proves
the safety part for all constants.

## 3. Runs

### Runs that pass

The type invariants of IngestQueue, Presence and Rollup are conjuncts of the first
property of their run; Hub's is proved (`TypeCorrect`). Where a theorem of section 4
names a property, the run shows it on the instance and the theorem for all constants.

| Run (`.cfg`) | Bounds | Properties | What it shows |
|---|---|---|---|
| `HubClients` | 2 clients, 2 subscription ids, 2 messages each, 1 event, channels of 1 or 2 | `WantedCounts`, `NoSendOnClosed`, `KeyReachesOptedIn` | Registration, configure, scope, unsubscribe, removal and fan-out in every order Run may read them: the counters do not drift, no closed channel is used, and an opted-in client gets its keys although ingest looked at the counter earlier. |
| `HubFanOut` | 1 client, buffer 2, broadcast channel 4, 2 workers, 5 events of 2 kinds | `DeliveredInOrder`, `NewestKept`, `LossAnnounced`, `RepeatsLeaveRoom` | The buffer overflows more than once while the pump empties it: order, the newest event and the announcement of losses survive. Repeats fill at most half the broadcast channel, plus one per worker that looked at the same time. |
| `HubLiveness` | 2 clients, every channel of length 1 (broadcast 2), 2 events | `HandlersGetThrough`, `DeadPumpLeaves` | No client, however slow, keeps another's handler from getting its message into the hub; a connection whose pump died leaves. |
| `AdmissionSlots` | 4 requests of one client, 2 slots, 2 statements each, one shared, one tolerant | `TypeOK`, `HoldersExact`, `NoIdleSlot`, `OldestFirst`, `NoLostWakeup`, `RunsWithSlot`, `ObservedCountsLate` | Two requests queue behind two holders while slots are handed over, waits end and requests finish: no slot is lost, freed twice or idle, the queue is served in order, nobody sleeps unwoken, and observing counts what enforcing would refuse. |
| `IngestQueue` | 2 observers, 2 lanes of 2, 4 bytes, sizes 1 and 3, 4 messages | `BytesExact`, `ObserverOrder`, `QuietAfterClose`, `DropsReported`, `CloseReturns` | Both bounds are reached, observers share a lane or not, and the close comes at any moment, with and without a time-out. |
| `SentPaths` | 2 workers, 2 (packet, observer) pairs, 2 paths, room for 3 of 6 keys, TTL 2, clock to 3, 5 hearings | `InSync`, `OnePathNoRepeat`, `RepeatOncePerTTL` | Entries expire and make room while two workers insert and mark in any order. |
| `PresenceFlush` | 1 observer, 2 workers, 4 calls, clock to 5, cleanup after 3, all flushes may fail, status messages | `CountsConserved`, `CachedHasRow`, `FinishLeavesNothing`, `RecentSurvives` | Workers, ticker, cleanup and shutdown meet in every order, with a deletion and a new row of the same observer after it. What a failed or slow ticker flush did not bring to the table, the cleanup does, before it deletes. |
| `ReadModelLanes` | 2 hearings of one packet, a legacy message, 1 fault | `TypeOK`, `RecordedUnlessFailed` | Two lanes store one packet while its key arrives and the first fill, reconciles and verification run: the two Adds around the insert miss no site, and add none for a message that is not stored. |
| `ReadModelRestart` | 1 hearing, 1 backfill visit to its packet, a legacy message, 2 faults (a rebuild is one), trust dropped after 1 dirty run and restored after 2 clean ones | `ReportedMissesHidden`, `TrustReturns` | Two statements fail or the process crashes twice, anywhere, or the table is rebuilt: trust waits for every repair, and it always comes back, over a table that misses at most the pairs of packets two reads overtook. Pairs go missing below the one watermark or the other (a message the visit stores before its packet's first hearing), or behind the first fill. |
| `Rollup` | 2 hearings of one or two packets, hours of 1 tick, clock to 3, packets and rollups kept 2 ticks, 1 fault | `CompleteIsExact`, `HeldHoursKeepRaw`, `RevisionTracksView`, `RollsSettle` | An hour is heard, rolled, marked while it is rolled, rolled again, loses its raw rows and is retired, while it is rolled too, with late texts, a re-heard packet, conflicts, a failure or a restart in between. |
| `DecryptBackfill` | 2 packets of 2 channels, any imported keys at the start, 2 imports, 1 fault | `TypeOK`, `WakeupComing`, `ServesRequests`, `KnownKeysDecrypt` | Boot and importer ask while a run is under way and packets arrive: no request is forgotten, and a packet with a known key is decrypted. |

Why the bounds are enough. Hub: the properties are about one client's channels and
about the sum over clients, for which two differ from one as much as any number
does; `HubProofs` removes the bound for the counters and the closed channels.
Channel lengths of 1 and 2 make full channels the common case. Admission: clients
share nothing but the mutex, and two waiters are the least for which order and a
hand-over that skips one matter; two slots let two hand-overs be under way.
IngestQueue: lanes share the byte count and the close only. SentPaths: three
entries are what two hearings of a pair need, so that a pair may be dropped to make
room for its own hearing. Presence: observers are independent but for batching,
which is per observer; five ticks are a hearing, a silence of three, a cleanup and
a hearing after it. ReadModel: pairs of different packets meet in the watermarks
only, for which the legacy message is the second packet; two lanes of one packet are
what the two Adds are for; that the ranges begin at the watermark of the run before
last takes statements that overtake each other, which the proof of
`ReportedMissesHidden` covers; batch and exact check cover one message, so that both
have something they do not cover. Rollup: two hearings of one packet fall in one
hour, two hours, or before and after its deletion; two of different packets are what
a message that is stored while its hour is rolled again needs; three ticks take an
hour past both retentions (with four, and rollups kept for three, the safety
properties hold too: five million states). DecryptBackfill: two channels are needed for two requests to be
merged or to replace each other. No run stops for lack of a successor it should have: the bounds
on messages and time end every behaviour, so deadlock is not checked, and the
liveness properties say instead who must get on.

### Fairness

`HubLiveness` uses `FairSpec`. Run's select is strongly fair per case: Go's select
chooses at random among the ready cases, so a case that is ready again and again is
taken. A sender parked on a full channel is served in the order of arrival, so a
send is strongly fair too. A fan-out and a pump whose context ended go on (weak
fairness). A handler whose read context was cancelled leaves (weak). Nothing is
assumed of the remote client: that it connects, sends, or reads what it is sent.

`IngestQueue` uses a `FairSpec` in which goroutines that can run do, and in which
a handler is sure to return only once its context is canceled (every handler's
database call takes that context).

`ReadModelRestart` uses `LiveSpec`: a handler that has begun ends (its statements
return or fail), and the sessions run every interval. No hearing has to come. TLC
has weak fairness of a session as a whole, since its steps are one goroutine's.

`Rollup` uses `LiveSpec`: passes run every five minutes and get on. Time does not
have to pass, ingest and cleanup need not happen. Its bound on failures is what makes
`RollsSettle` hold: a roll that failed forever would leave its hour missing, as it
should.

`DecryptBackfill` uses `LiveSpec`: boot, importer, lanes and Run get on once they
have something to do. No packet has to arrive and nothing has to be imported.

### The run that finds a disagreement

| Run | Property | What the code does |
|---|---|---|
| `HubRemoveOvertakes` | `RemovalsTakeEffect` | A connection that opens and closes while Run is busy leaves its registration in `subscribe` and its `Remove` in `remove`. Run may read the second first (`hub.go:353`), find no such client, and register it afterwards: it stays in the map with nobody reading its channels. The same race lets an unsubscribe overtake the subscribe of the same id. |

Seen while modelling and not given a run of their own. Where a property excuses such
a case, its definition names it:

- `hub.go:11-12` says that a full buffer is drained; Run drops one event
  (`hub.go:378-381`), which `NewestKept` is about.
- `sent.go:37-39` says that a copy of the first hearing is never a repeat however
  two workers interleave. A worker that stored a hearing and stalls before it marks
  it can find another path's hearing and a copy of its own marked first; the copy
  is then streamed as a repeat. `OnePathNoRepeat` is what does hold.
- `Admit` takes `admitted` to mean that a request has its slot
  (`admission.go:324`). After a refusal (`admission.go:375`) it has not, and the next
  statement of a request that goes on gets a ticket without a slot, although
  `ClientCap` "is the number of requests per client that may run database statements
  at once". `RunsWithSlot` speaks of requests none of whose statements failed.
- The observer cleanup forgets the identities and drops its batch when its flush
  fails (`coalescer.go:227-236`). The next cleanup no longer knows of that activity
  and may delete a recently active observer that has no stored history.
  `RecentSurvives` excuses the observers of such a cleanup (`unsaved`), and one tick
  for a status message under way across the cutoff.
- An upsert that missed the cache puts the display name it read back after a status
  message changed it (`coalescer.go:121-127`, `201-209`); packets carry the old name
  until the next status message or cleanup.
- `db/readmodel.go:172-173` says that a reconcile that begins after `Invalidate`
  repairs the pair. Each range overlaps the previous run's by one interval, so a
  statement that drew its id before two reconciles read the newest ids and committed
  after both has its id below the next range; if its Add fails then, the reconcile
  that begins after the report fills nothing and still restores trust. The jobs run
  minutes apart, so such a statement has to be stuck on a lock for that long.
  `ReportedMissesHidden` and `TrustReturns` excuse the missing pairs of such
  statements' packets (`overtaken`), and no others. Before the first verification such
  a pair keeps pages off the table if the verification meets it, each time anew:
  `TrustReturns` leaves that case open (`~state.verified` and a missing pair, which its
  first conjunct says is an overtaken one's), and no other.
- `db/rollup.go:182` says that "AnalyticsRevision changes whenever rolled content, an
  hour's status or rollup coverage changes", and `queries/rollup.sql:287` that "both
  counters only grow, so their sum changes whenever rolled content or coverage does".
  `DeleteOldRollups` (`rollup.sql:291-310`) moves coverage only if an hour row goes. The
  family rows that a roll inserted while the statement waited for it go with the next
  cleanup, whether or not it retires an hour; the statistics that read families without
  joining the hours (`GetSignalStats`, `GetPathStats`) count them until then, and an
  answer cached meanwhile is not invalidated. It takes an hour rolled as it reaches
  retention, and so a `rollup_retention` within what packets are kept, which
  `config.go:602-607` allows and the run's instance has. `RevisionTracksView` exempts
  this one case (`status[h] = "none"` and the content goes); without the exemption TLC
  finds the run violating it.

## 4. Proofs

`HubProofs.tla` proves, for any finite sets of clients and workers, any scopes and
event kinds, any channel lengths allowed by `CapAssumption` and any bounds:

- `TypeCorrect`: `Spec => []TypeOK`;
- `CountersExact`: `Spec => []WantedCounts`;
- `NeverSendsOnClosed`: `Spec => []NoSendOnClosed`;
- `InOrder`: `Spec => []DeliveredInOrder`;
- `NewestStays`: `Spec => []NewestKept`;
- `LossesAnnounced`: `Spec => []LossAnnounced`;
- `KeyGetsThrough`: `Spec => []KeyReachesOptedIn`;
- `RoomForFirstHearings`: `Spec => []RepeatsLeaveRoom`.

These are all the safety properties its passing runs check. The invariant behind them
is `IInv`, a conjunction of eight named parts:

- `Types`: the type invariant, completed by what its proofs need;
- `Counts`: both counters equal the number of registered clients with the flag;
- `Lifecycle`: nobody is both in the client map and closed, and only connected
  clients are either; a registration is in `subscribe` at most once, and only for a
  connected client that is neither in the map nor closed; Run fans out to registered
  clients only;
- `OffUntilRegistered`: the options of a client that is not in the map, and was not
  closed, are the defaults. Without it `Counts` is not inductive: a registration
  adds a client to the map without touching the counters, which is right only
  because it cannot have a flag on yet.
- `Ordered`: the events in `broadcast` are numbered without a gap up to `published`, so
  the one Run fans out is right before them (`Taken`), and what a client read, what is
  in its buffer and what it is still to be offered are in line (`InLine`). It also says
  that after an eviction there is room, because only Run adds to a buffer: without it
  the resend could fail and `NewestKept` with it.
- `Keys`: an event built while somebody wanted the key has both variants that carry it,
  in the worker, in `broadcast` and in the fan-out.
- `Losses`: `LossAnnounced`, and that nothing is offered to a client whose pump does not
  run yet (`BeforeHello`), since a notice to it would not count.
- `RepeatsBounded`: the repeats in `broadcast` and those of workers that have looked at
  its length together stay within the bound. `RepeatsLeaveRoom` says this of the former
  alone, which is not inductive: the last worker to look sees no more than half, but
  by then every other worker may have one in hand.

`NoSendOnClosed` is not inductive because it does not say that a second
registration cannot be on its way; that a handler calls `NewClient` once and first
is what `Lifecycle` keeps. The step of each action is a theorem step of its own,
with the actions that do not touch the registry dispatched together; the counts use
the cardinality theorems of FiniteSetTheorems, one client at a time.

`AdmissionProofs.tla` proves every property of Admission that its run checks, for
any finite set of requests, any clients, any `ClientCap` above zero, any mix of
shared and tolerant requests and any number of statements, and `QueueExact`: `TypeCorrect`,
`SlotsExact` (`HoldersExact`), `QueuesExact`, `SlotsBusy` (`NoIdleSlot`),
`WakeupsArrive` (`NoLostWakeup`), `SlotBeforeStatement` (`RunsWithSlot`),
`ObservingExact` (`ObservedCountsLate`) and `ServedInOrder` (`OldestFirst`).

The argument has three layers.

- Sequences: what `RemoveFirst`, `Append` and `SubSeq` do to a queue without
  repetitions (`RemovedFirst`, `Appended`, `Served`). A least index exists because
  the strict subsets of a finite interval are well founded (`LeastExists`).
- `release`: `HandOver` shows that the waiters a release takes off a queue are an
  initial segment of it, all expired but the last, and `ReleaseHandsOver` what that
  makes of the slots. It needs `NoIdleSlot`: only a full client has waiters, so a
  release has exactly one slot to give.
- The inductive invariant `IInv` is `Table` (types, slots, queues, no idle slot) and
  `Marks`. Beyond the checked properties it says that a slot is only ever taken by a
  request that went through `Admit` and is given up when it ends (`Slots`), that
  nothing happens to a request before it begins (`Begins`), that an enforced request
  which has not given up has its slot or is in its wait for it (`Covered`, without
  which a second statement could run uncovered), and that an observed waiter is not
  counted while it is queued (`Counted`). TLC agrees with `IInv` on the instance of
  `AdmissionSlots`.

`DecryptProofs.tla` proves about DecryptBackfill, for any channels, packets and keys
and any bounds on imports and failures:

- `TypeInvariant`: `Spec => []TypeOK`, which includes that a packet is marked
  decrypted only when its message is stored;
- `NoLostWakeup`: `Spec => []WakeupComing`;
- `ServesSafely`: `Spec => Service!Init /\ [][Service!Next]_(Service!service)` and
  `[][Restart]_restarts`, the safety part of the refinement: initial states map to
  initial states, each action is `Ask`, `Begin`, `End`, `Reset` or a stutter of
  BackfillService, and `Reset`, which alone drops a request, is `Restart`.

`TypeOK` is inductive with `Storing`: whatever is about to be marked (by a lane that
inserted the message, by the run) has its message stored. `WakeupComing` is inductive
relative to it: only Take leaves `run = "taking"` for `"waiting"`, and only with
nothing asked. The refinement needs that `request` is empty outside a run, a conjunct
of `TypeOK`: `Take` is `Begin` only from an empty `serving`.

`IngestQueueProofs.tla` proves about IngestQueue, for any finite set of lanes, any
observers, sizes and bounds:

- `OrderTheorem`: `Spec => []ObserverOrder`;
- `QuietTheorem`: `Spec => []QuietAfterClose`;
- `DropsTheorem`: `Spec => []DropsReported`;
- `BytesTheorem`: `Spec => []BytesExact`.

An observer's order is that of its lane: `Sorted` says that a lane holds only
messages of the observers it is for, in order of arrival, all of them later than the
last one begun. `QuietAfterClose` needs to know why a goroutine returned (`Ended`:
before the time limit only because its lane was closed and empty), how far Start has
come (`Stages`), and that nothing accepted is anywhere but waiting, in hand or handled
while nothing is given up (`NothingLost`). `DropsReported` is a property of the
counters alone. `NoMessage` is assumed to be no message.

`BytesExact` equates a counter with a sum over a set, and the sum is a recursive
function of the community modules, out of reach of the induction theorems. Its proof
takes the detour of a least counterexample: the strict subsets of a finite set are well
founded, so a finite set without a sum, or with two, would have a smallest one
(`SmallestSubset`), and that one has a member to remove (`SumsExist`, `SumsAgree`). From
it follow what adding a message to a set and removing one do to its weight
(`WeightAdded`, `WeightRemoved`). Beside it the step needs that the message is new to
the set, or in it once: an arriving message has a number above all others, and one in
hand has a number that is not above the last begun of its observer while all that wait
are (`Limits`). `Accounted` goes on after a shutdown, where it is only `<=`: a lane that
gives a message up leaves its bytes counted. TLC agrees with both on the instance of
the run.

`PresenceProofs.tla` proves every property of Presence that its run checks, for any
observers and workers, any retention, any set of flushes that may fail, and any bounds:

- `CountsTheorem`: `Spec => []CountsConserved`;
- `CachedTheorem`: `Spec => []CachedHasRow`;
- `RecentTheorem`: `Spec => RecentSurvives`, an action property;
- `FinishTheorem`: `Spec => []FinishLeavesNothing`.

All but the last rest on `Typed`: the types, that a call to the store ends in the tick
after the one it began in (`Prompt`, which is what a tick means, and a condition of
`Tick`), and that the cleanup's batch is empty once it is flushed (`Emptied`).

- `CountsConserved` is then inductive, one observer at a time (`Balanced`): a flush
  moves a batch's count to the row or to the lost ones (`TouchCounts`), a cleanup saves
  exactly the counts that are dirty (`SavedType`).
- `CachedHasRow` needs `Named`: between the store's answer and its caching the row is
  already there with the id that will be cached, and no older than the call; since
  calls end within a tick and a cleanup's cutoff is before the clock, no cleanup under
  way can delete that row or one of a cached observer (`RowsNeeded`).
- `RecentSurvives` needs `Remembered`: the last activity of an observer is in its row
  but for one tick, or in its identity, or in the batch of a cleanup that has yet to
  flush it (`Kept`), unless a cleanup lost it. Since the cleanup takes the identities
  with what is dirty, nothing is forgotten when it clears the cache; that its batch
  names the row it will touch is `CachedHasRow` again.
- `FinishLeavesNothing` needs that all writers have stopped when `finish` begins its
  flush (`Quiet`).

`ReadModelProofs.tla` proves `RecordedTheorem`: `Spec => []RecordedUnlessFailed`, for
any number of lanes and visits of the backfill, any finite set of packets and any
bounds: the writers alone, without any session, leave no site out of the table for a
packet none of whose statements failed. The invariant is `IInv`. Its core is
`UnseenStillToAttempt`: while an insert that may still store the message is in
flight, a hearing of the same packet which its snapshot does not see has not passed
its own attempt, and so will add itself once it is past it. `NoneRefused`, `Committed`
and `Attempting` say what has happened before each step of a writer; ids are drawn
from above a maximum, which exists because the sets are finite (`MaxExists`). TLC
agrees with `IInv` on both instances of ReadModel.

It also proves `TypesTheorem`: `Spec => []TypeOK` and `HiddenTheorem`:
`Spec => []ReportedMissesHidden`, for any hearings, visits, packets, legacy messages,
batch, thresholds and faults. The invariant is `TrustInv`, `IInv` with nine more parts:

- `JobTypes`, `Rows`, `Marks`, `Stages`: types; sites and reports are of stored pairs;
  a watermark is an id that was read, so it is below every id drawn later; what has
  happened by each step of a session (a session verifies only a complete table, trust
  is earned only after boot, `moved` implies `behind`).
- `ObservationsInFlight`, `MessagesInFlight`: a statement that began after the last read
  of its ids will commit an id above what was read, one that was in flight at that read
  an id above what the read before it saw, unless it is overtaken. This is why a range
  must begin at the watermark of the run before last.
- `MissesCovered`: a missing pair is above one of the two old watermarks or ahead of the
  backfill, or its packet is overtaken. Filling a range, saving the watermarks and a
  step of the backfill each move one of the three bounds, and only past what they filled.
- `ReportsFilled`: if nothing was reported since the session began, the reported pairs
  that are still missing are below what the session read and above what it filled, so
  that none is left when it reaches `Repaired`. `moved` is what makes this hold: a
  report in the middle of a session sets it, and then `behind` stays up.
- `TrustRepaired` is `ReportedMissesHidden` without the streaks.

A step of a writer is covered by `Writes`, which says what any of them may do
(`WriterStep`, `WritesKeep`), the steps around a reconcile by `Rests`, and each step of a
reconcile or backfill by a lemma of its own. TLC agrees with `TrustInv` on an instance
with a legacy message and on one without.

`SentPathsProofs.tla` proves every property of SentPaths that its run checks, for any
workers, any pairs and paths, any `TTL`, `MaxEntries` and bounds that
`SentAssumption` allows:

- `AlwaysInSync`: `Spec => []InSync`;
- `NoRepeatOfOnePath`: `Spec => []OnePathNoRepeat`;
- `RepeatAfterTTL`: `Spec => []RepeatOncePerTTL`.

`InSync` needs only that the list has each key of the map once (`Good`): what the
eviction loop drops is an initial segment of the list (`LeastExists` gives its length),
so the map loses exactly its keys. `OnePathNoRepeat` is not inductive. A hearing is
called a repeat when `mark` finds the pair's key and not the hearing's own, so one has
to know that of a pair heard over one path both keys come and go together. `OnePath` says
how: the pair's key stands right before its hearing's, with the same time (`Follows`);
the hearing may outlive it only at the front of a list with no room for one more pair
(`Leads`), and then the next `mark` finds the hearing itself. `RepeatOncePerTTL` needs
`RepeatsTraced`: a hearing streamed as a repeat stays in the list with its time until TTL
has passed or it had to make room. TLC agrees with `IInv` for `MaxEntries` 2, 3 and 4.

`RollupProofs.tla` proves the safety properties of Rollup, for any hour length, clamp,
registration delay, retentions and bounds that `RollupAssumption` allows:

- `CompleteHours`: `Spec => []CompleteIsExact`;
- `HeldHours`: `Spec => []HeldHoursKeepRaw`;
- `RevisionTracks`: `Spec => RevisionTracksView`, an action property.

What makes a complete hour exact is a chain of four facts, each a conjunct of `IInv`:

- `Fresh`: a hearing that is not stored yet was heard in this tick, give or take the
  clamp; `Registered`: an hour has a status only when `Delay` has passed since it
  began. As `Delay >= HourLen + Clamp`, nothing lands in an hour any more once it is
  registered (`FreshHour`), which is where the proof would fail without the assumption.
- `RawRows`: a packet is there as long as a hearing not much older than its last one,
  and what the cleanup deleted is behind `rawDeletedBefore`, so that an hour after it
  is intact.
- `Snapshot`: the snapshot a roll computes from holds all hearings of its hour, and
  misses a message only if that hour is queued again, or if the commit will conflict.
- `Exact`: the property itself without its history variables.

`HeldHoursKeepRaw` needs `HeldBack`, that the cutoff of a cleanup under way is still
behind the hours it was held back for, and that what its last statement saw belongs to
hours past retention. `RevisionTracksView` is proved one action at a time and hour by
hour: only `RollCommit`, `MarkPartial` and `DeleteOldRollups` touch the view. The first
two increment the revision when they do; the third when an hour goes, and what it changes
of an hour without a status is the end of leftover rows, which is the exemption. TLC agrees with `IInv` on the instance of the run
and on three others with longer hours, a larger clamp and a longer delay.

Only model-checked: every liveness property, which is out of the provers' reach, the
liveness half of `ServesRequests` included.

## 5. Not modelled, and why

- **Parts without shared state**: HTTP reads and cursors, tickets, packet decoding,
  configuration, logging, geometry. **Tools that run alone**: backup, the plan guard
  harness. **Data and generated code**: airport tables, API documentation, and the
  generated queries other than the statements the modules translate. These make up
  most of the repository's lines. Their correctness is that of a function on its
  input or of a query on a table, which the repository's tests reach better than a
  model.
- **Single-goroutine loops over the database**: stats warming, index health, payload
  type backfill, route statistics and maintenance. What the database does inside one
  statement is taken as one step (two where it draws an id first).
- **`packet_sites`**, the second read model: the same Trust with its own sessions,
  audit and sweep. ReadModel has the first read model only, and of Trust not the
  expiry of a read-only server.
- **WebSocket budget and limiter**, **response cache**, **MeshMapper directory**,
  **migrations**: see the plan. Hazards of theirs are listed without a property.

## 6. Plan

Done: Hub, Admission, IngestQueue, SentPaths, Presence; ReadModel, Rollup,
DecryptBackfill with its abstract specification and refinement. Left, in the order
of how much depends on it:

1. **packet_sites**: its sessions and audit beside those of `cmi` over the same Trust
   operators; the read-only server's watch and expiry.
2. **WsConnection**: address limiter, send budget with its delayed notice, region
   lookups of a subscribe; composed with Hub.
3. **StatsRevision**: shared fetches, invalidation, and the revision memo that holds
   its mutex while it waits for a slot; composed with Admission, and with Rollup's
   `RevisionTracksView`, which makes the revision a sound cache key but for the rows
   that outlive their hour.
4. **Directory**, **Migrations**, the plan check's joining of runs, the route grace
   walk.

Refinements worth stating next: IngestQueue implements a queue per observer that loses
only what it reports; Presence implements an exact counter but for what is lost;
ReadModel implements a flag that is never up while a reported pair is missing.

Theorems worth proving next: the safety half of these refinements.
