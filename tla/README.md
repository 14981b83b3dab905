# Specifications of the response cache and its purges

TLA+ models of the cache machinery of the API: the two-tier cache of
`packages/memory`, the response cache and its scoped index in redis, the mutations and
the purges they owe, the retries of those, the reap of the index, the fill pause of a
deploy, and the schema each process keeps. Each module is translated from the source that `PROJECT.json` names line by
line under `map`; the properties are about orders of steps that the unit tests, which
run one call at a time against mocks, do not reach. Paths below are relative to `src/`,
and `scoped-cache/` is `api/src/scoped-cache/`.

Run a model with `tlc -config <cfg> <module>`; check a proof with `tlapm <module>.tla`.

## Inventory

The API is a set of processes over one database and one redis. What makes it hard is
what those processes share and may lose half way. The parts with state of that kind:

### Two-tier cache - `packages/memory/src/cache/lib/multi.ts`

- State: a local map per process, a redis tier, a counter of clears
  (`clearGeneration`), messages on the bus.
- Operations: `get`, `set`, `delete`, `clear`, and the handler of a peer's message.
- Hard: each call yields between its local and its shared half, so calls interleave
  with calls of the same process, of the peers, and with messages.
- Correct when a value a change retired never comes back to a tier, and a lookup does
  not answer with one its process has been told of.

### Response cache - `api/src/middleware/cache.ts`, `respond.ts`, `scoped-cache/fill-guard.ts`

- State: entries under a hash of the request; purge counters in redis, one per
  collection and one wholesale, which expire.
- Operations: look up; after a miss read the counters, query, file the entry in the
  index, write it, read the counters again, evict the entry when one moved.
- Hard: the query runs before a mutation commits and the write after its purge; a
  filing or a write may fail alone; a store swallows a delete it could not do.
- Correct when no stale entry stays with nothing left to drop it.

### Fingerprints - `scoped-cache/fingerprint.ts`, `index-path.ts`, `mutated-rows.ts`, the key functions of `redis-store.ts`

- State: none. A fingerprint is what a read pinned some fields to and what it views; a
  row has one too.
- Operations: the index sets a read is filed in, the ones a write reads back, what a
  written row or a declared pin drops, what a prune names, the merge of two purges.
- Hard: filing and finding are separate functions over the same layout, which changes
  with the scope fields, the primary key and how many values a read pins.
- Correct when a write that changes what a cached read answers finds and drops it, and
  a prune forgets no set.

### Item mutations - `api/src/services/items.ts`, `api/src/utils/transaction.ts`, `scoped-cache/item-scoped-cache-service.ts`, `hook-declarations.ts`

- State: of a request its transaction, the snapshot of the rows before, what its hooks
  declared and took over, the purges held back until the commit.
- Operations: create, update, delete, each with its hooks, write, failure and purge; a
  transaction of its own, one shared with other calls, rows written one by one; commit,
  rollback, restart after a lost race.
- Hard: hooks write rows themselves, on the transaction or past it; a call may fail at
  any step while its caller goes on; a restart runs hooks twice.
- Correct when no answer older than the data stays cached once the requests have ended.

### Scoped index and purges - `scoped-cache/purge.ts`, `redis-store.ts`

- State: a redis set of entry keys per slice of a collection (index sets), the set of a
  collection's index sets (index-key set), a marker telling that those names are
  complete, sets moved aside by a sweep, an expiry on each.
- Operations: file; row purge (bump, scan, drop, prune); collection purge (bump, take,
  move aside, collect, drop, release); wholesale clear or FLUSHDB; reap.
- Hard: many nodes run them command by command, and any may die between two.
- Correct when a purge reaches what it must, and nothing else.

### Retries - `api/src/scoped-cache-pending-purges.ts`, `purge.ts:960-1490`

- State: a table of purges that failed after their mutation committed; a promise chain
  per process; two redis clients, one for the index, one for the entries.
- Operations: record, list, purge again, clear; release of stranded sweeps. Asked for
  at boot, when a client is ready again, and by a timer.
- Hard: either client may be away, before or during a pass; a row may be recorded while
  a pass runs; a process may die mid-sweep with nothing recorded.
- Correct when no purge is forgotten that the code could remember, and the table
  empties again.

### Reap requests and their lock - `scoped-cache/reap-requests.ts`, `api/src/cache-lock.ts`

- State: four module variables per process, one lock key with a TTL.
- Operations: request (joins the waiting pass, or asks for one more), debounce, claim,
  renew, walk, release; a scheduled pass.
- Hard: what is requested during any await; a slow renewal; a TTL that runs out.
- Correct when each request is answered by a walk begun after it, callers return, and
  the lock is left only to those who hold it.

### Deploys - `scoped-cache/fill-pause.ts`, `api/src/cache-build-identity.ts`

- State: the recorded build, the index generation, the pause, its watcher's lease; per
  process, until when it may not fill.
- Operations: record at boot and on some reconnects, look, end, lapse; reap and mark.
- Hard: builds file differently, run beside each other, and are rolled back.
- Correct when no two builds fill at once, and a marker vouches for names that are all
  there.

### Schema - `api/src/utils/get-schema.ts`, `api/src/cache.ts:447-480,595-625`

- State: per process the schema in memory and a count of its drops; in redis a counter
  without a TTL; messages and listeners on the bus.
- Operations: look up, count in, build or wait, publish, delete the counter; drop the
  memory at a change, tell the others.
- Hard: a build takes several queries while changes commit; what it read travels to
  processes that have cleared meanwhile; builders die, the counter stays.
- Correct when a process without a schema gets one again, one call builds at a time,
  and an outdated schema is kept only while a clear is still to come.

### The rest

Every other part - the other services, permissions, flows, websockets, extensions, the app, the
SDK, storage drivers, the command line - is in `PROJECT.json` under `components`, with
the reason it is not modelled or the plan for it.

### How they interact

A mutation commits, then calls a purge, which runs against the index and the entries or
is recorded. On a shared transaction the purge is held back with those of the other
calls. A fill runs the other way round: index first, then the entry. The counters
are the only thing a fill and a purge both look at. Reaps prune the index both depend
on and write the marker that lets a collection purge trust it; deploys take that marker
back. The retry chain runs the same purges again. A change of the schema drops the schema
memory of its own process and reaches the others over the bus. Permission and schema results live in
the two-tier cache, which shares redis and the bus with all this, and no key.

## Modules

| Module | Models | Composes |
|---|---|---|
| `MultiCache` | the two-tier cache, its redis connection and the bus | |
| `ScopedCacheFill` | a fill beside purges of every mode, the release of stranded sweeps, the reap of a member | index, entries, counters |
| `ScopedCacheFillHistory` | the same, with the history that says which entries the code answers for | `ScopedCacheFill` |
| `ScopedCacheRecovery` | failing purges, their table, the drain, the release | purge steps, two clients, the database |
| `IndexReap` | who asks for a reap, who runs it, the lock | requests, schedule, lock |
| `ScopedCacheDeploy` | builds, pause, reap and marker | record, pause, index names |
| `ScopedCacheIndexExpiry` | the expiries of entries, index sets and index-key sets | scripts and time |
| `ScopedCacheFingerprint` | fingerprints, the layout of the index, what a purge reaches; no state | |
| `ItemMutation` | mutations, hooks, transactions and the purges they owe one cached read | `ScopedCacheFingerprint`, items service, transactions |
| `ReadThrough` | the abstract cache of one read, which `ItemMutation` implements | |
| `SchemaCache` | the schema memory, its build and its clears | redis counter, bus, processes |
| `MultiCacheProofs`, `ScopedCacheFillProofs`, `ScopedCacheIndexExpiryProofs`, `ItemMutationProofs` (with the theorems about fingerprints and `ReadThrough`), `SchemaCacheProofs`, `IndexReapProofs`, `ScopedCacheDeployProofs`, `ScopedCacheRecoveryProofs` | theorems | |
| `MC...` | instances for TLC | |

A step is what runs between two awaits, or one redis command or script. State follows
the code's names; what is not a name of the code is a history variable, and the
comment at its declaration says what it records.

**`MultiCache`.** `local`, `redis`, `gen` are the two tiers and `clearGeneration`;
`call` holds the calls in flight, `conn` the commands of a process not yet served, in
order, `inbox` the bus messages. A value is the number of the `set` that wrote it.
`KvRedis.clear` is its SCAN, page by page, and its UNLINKs. Messages are not lost.

**`ScopedCacheFill`.** A slice is one value of a collection's index path; `FiledIn`
tells in which sets an entry is filed, `written` which mutations of a slice have
committed, and an entry carries those its query saw. Each read and each purge is a little process
with a program counter. A missing counter reads null, a recreated one never repeats
(it is seeded from TIME). `NoReadOutlives` is the one assumption about time: a counter
lives at least five minutes (`fill-guard.ts:49-62`) and no read that took a value of it
outlives it. Fills that could not read the counters are kept unguarded, as the code
keeps them. Redis may refuse to move a counter (`RedisMayRefuse`): the purge goes on
(`TryBump`, `fill-guard.ts:139-161`), before its sweep, after the drop of the index
(`purge.ts:737-740`), inside the MULTI of a FLUSHDB and in the one more try after it
(`FlushCacheRedisDatabase`, `BumpAfterFlush`); or it refuses that MULTI, and the purge
clears the namespace instead (`FlushRefused`). The record of a failed eviction may be
refused too (`RecordPendingScopedCachePurge`).

**`ScopedCacheFillHistory`.** The same steps with four history variables, which guard
none of them; they say which entries the code answers for. A fill in flight is not told
of a purge whose move was refused (`lost[r]`), and nothing more is done about what it
writes (`kept[k]`: the mutations given up on under a key, also by a fill whose eviction
failed and could not be recorded). A FLUSHDB whose own move is refused takes the
counters along, so that until the wholesale one moves, a fill begun before compares
equal (`forgotten`: the mutations whose purges had moved, or tried to move, a counter
by then). The exceptions are per mutation: an entry that is without one the purge gave
up on is still owed the others. And `unnamed` holds the filings an entry has been
without while it was kept. An entry no index set names is out of reach of every purge,
and stays out of reach in effect when a later fill of the same key files it again and
writes nothing: the next prune takes that filing too. Whether an entry is reached among
several purges is therefore stated of those always named.

**`ScopedCacheRecovery`.** One collection, whose slices hold one entry each; a fill is
one step. `index` and `store` say whether the two clients are connected; a process just
started still dials both, and commands to the entries' store are refused meanwhile
(`cache.ts:733-742`). `work` is the mutation's purge and the pass of the
chain, both made of the same purge steps; `queue` is the promise chain. The rows of one
kind are one target of a drain, as `listPendingScopedCachePurges` groups them. `lost`
records the two cases nothing can recover: a purge whose process died before it was
recorded, and a row the database refused.

**`IndexReap`.** `run`, `again`, `forced`, `prompt` are `requestedPass` and the three
flags; `pass` is a pass through `runScopedCacheIndexReap`; `onWire` holds renewals sent
and not served. A walk takes time, may throw, and may leave the index marked.

**`ScopedCacheDeploy`.** `proc[p].until` is `fillsPausedUntil` as the number of the
pause it waits for. Three builds: one older than the index-key sets, which files sets
nothing names, and two that pause.

**`ScopedCacheIndexExpiry`.** Milliseconds, redis' rounding of TTL to the second, and
the three scripts that set expiries. A factor is a whole number here; the code also
accepts 1.5, which the same theorems do not speak of.

**`ScopedCacheFingerprint`.** Operators over one collection: its columns, its primary
key and its `scoped_cache_fields` are the parameters. `IndexKeys` is where a read is
filed, `RowIndexKeys` and `RowHomePinKeys` what a written row reads back, `MatchesRow`,
`ViewFieldsAreTouched` and `PurgedBy` whether it drops what it found, `ReachedByPin` the
same for a pin a hook declares, `FoundBy` the whole of a purge for one read.

**`ItemMutation`.** `rows` is the committed table, `overlay[q]` the uncommitted writes
of a transaction (which reads them, locks them, and loses a race to a commit of what it
read, `dirty`, where `Serializable` says so), `read`, `entry` and `filed` one cached
read and the sets naming it. A request has an opener - `service` (the call opens its
own transaction), `caller` (several calls share one), `rows` (created or updated one by
one in one) - and calls. `call[q]` is the call at work: `direct` and `taken` the rows
Directus and its hook wrote, `before` the snapshot; `sink[q]` what hooks declared;
`held[q]` the merged purges of a shared transaction; `due[q]` those to run now. A fill
is one step and a purge another: how they interleave is `ScopedCacheFill`'s subject.
`gaps` records the ways the code leaves a purge out, listed below.

**`ReadThrough`.** What the above promises of one read: the answer it keeps may lag
behind the data only while a writer is at work, and nobody but a writer takes it away.
`ItemMutation` implements it with the requests as writers and `Answer(rows)` as the data
(`Promise == INSTANCE ReadThrough WITH ...`); once a gap has been taken the mapping
shows nothing cached.

**`SchemaCache`.** `call[c].pc` is where a call of `getSchema` stands, `counter` is
`schemaCache--preparing`, `listeners` the subscriptions of a process, `wire` the
messages on their way to it, in order but for schemas being inflated. A generation is
only compared, so a drop marks the builds and the listeners it outdates (`outdated`)
instead of counting. A schema is the set of changes it shows. `dropped`, `missed` and
`late` are history: what a process cleared for, what it will never be told of, and what
it had cleared for before the schema it keeps arrived from elsewhere.

## What the runs check

| Run | Bounds | Shows |
|---|---|---|
| `multi_peers` | 2 processes, 3 calls (2 in one process), 2 keys, 2 writes | a peer's change a process has heard of never comes back (`PeerChangeIsNotUndone`), no lookup answers with a retired value (`AnswerIsNotRetired`) |
| `fill_guard` | 1 key, 1 slice, 1 read, 2 mutations purged by row or by FLUSHDB, 1 counter expiring, failing fills, refused moves and flushes | `GuardCatchesEveryPurge`, `StaleFilingIsReached` |
| `fill_one_purge` | 1 read, 1 mutation, 1 recovery, 2 slices of a collection, all modes, 1 reap, failing fills, refused moves and flushes | `StaleEntryIsOwed`, `PurgeSparesOtherSlices` |
| `reap_answers` | 1 process, 2 requests, 1 deploy, 1 death | `RequestsBeforeTheTestAreAnswered`, `EveryRequestReturns` (liveness) |
| `reap_lock` | 2 processes, 3 scheduled passes, 2 renewals each, 1 deploy, 1 death | `NoLockIsLeftBehind`, `LockIsItsHolders` |
| `deploy_roll` | 3 builds, one process each, 3 pauses, 3 quiet looks, 1 reconnect, 1 set | `VouchedSetsAreNamed`, `BuildsFillApart` |
| `expiry_slack` | 2 sets, 2 entries, TTLs of 1 s, 1.5 s and none, factor 2, steps of 250 ms | `IndexKeysOutliveTheirSets`, `SetsOutliveTheirEntries` |
| `recovery_drained` | 1 process, 2 slices, 2 mutations, 2 faults of any kinds, limit of 1 fingerprint | `StaleEntryIsOwed`, `EveryRowIsDrained` (liveness) |
| `mutation_purged` | 2 rows, 2 scope values (3 with the other request's), 6 reads, 8 pairs of requests, 2 attempts | `SettledReadIsFresh`, `DroppedEntryIsUnnamed`, `ImplementsReadThrough` (refinement) |
| `schema_kept` | 2 processes, a call each (one in an older snapshot), 1 change, 1 fault of any kind, limit 3 | `OldSchemaCameLate`, `OneCallBuilds`, `SchemaComesBack` (liveness) |

Why the bounds are enough to be interesting. In `MultiCache` a lookup must cross a
write of its own process and one of a peer: two calls in one process and one in the
other. A fill and a purge race pairwise, so one read meets two purges (one finishing
while the other starts, one's counter taken by the flush of the other; a refused flush
goes on as a clear, so that mode is met too), and one purge of any mode with its
recovery. Two of the other modes, and two reads beside purges, are among the further
bounds below, and in the theorems. One
key suffices because a fill touches no other key, and the second slice is there to see
that a purge of it leaves the key alone. For the lock, three passes are a holder, the
one that takes over, and a third to be hurt. For a deploy, two pauses are one deploy
over another and three let the first build deploy again, so that looks of its first
pause meet its second; one set is enough because each is named or not on its own. In the
recovery, one fault fails a purge and a second fails its drain, or kills the process;
two slices are one more than the limit, so both ways of recording happen. A mutation
writes one given slice or both; a collection purge, which cannot tell what changed,
counts every entry as superseded. `MaxQueue` only bounds how often the timer asks while
passes wait. In the mutations one read is observed, of each shape a fingerprint has -
one value, another, one nobody starts in, two values, the key, none - and two rows are
one the call names and one a hook moves; the other request is the one that races it.
The plans pair every opener with every kind of call it treats apart. The behaviours that
took a gap are cut off there (`NoGapYet`): the properties are silent about them. In the
schema cache one change and one fault already make a builder die, a publication fail or
a clear be lost; two calls are the builder and one that waits, and a limit of 3 is the
least at which there is a waiter and an overrun.

`BuildsFillApart` speaks of the time before any pause reached its ceiling - past it the
code lets two builds fill beside each other, as its comments say - and before looks a
watcher began under one pause ended a later one of its build (`miscounted`; the further
configuration `EndedTwice` shows what comes of that). A process of another
build that lives misses fewer than `QuietLooks` looks in a row, and a watcher's lease
runs out only when its watcher died: both are about timing the code chooses margins
for. `VouchedSetsAreNamed` excepts what a process of the oldest build files after it
outlived a pause, which the code accepts, and what a reap misses when a pause closes
under it (see the further configurations).

`CHECK_DEADLOCK FALSE` stands in every configuration because inputs are bounded: when
the mutations, reads or requests run out, a behaviour ends, and rightly so.

**Fairness.** Only the liveness properties of three modules need any. `SchemaCache`: a
call goes on - redis answers it, its timer fires - and calls keep coming to a process
that has no schema; the bus may deliver nothing, and no clear need go on. That is why
`SchemaComesBack` says something of the counter: whoever died holding it, it must reach
its limit and be deleted. `IndexReap`: loops go on, passes end or throw,
renewals are answered and the lock's TTL runs out - timers, replies of a live
connection, and redis' own clock; nothing is assumed of deaths, refusals, deploys or
requests. `ScopedCacheRecovery`: what was begun goes on, clients reconnect (the index
client's strategy has no last attempt unless `REDIS_RETRY_MAX_ATTEMPTS` sets one, which
`create-redis.ts` advises against for the API), and the retry timer fires, which it does by
default (`CACHE_SCOPED_PURGE_RETRY_INTERVAL` is `1m`); with 0 there is no timer, and
`EveryRowIsDrained` fails - that is its mutant.

## Where the code and its comments disagree

Two runs expect a violation; each quotes the comment in `PROJECT.json`.

- `schema_late`: the generation a waiter compares is the one its wait began at, not the
  one the schema was read at. A process that carried out a clear, then began to wait,
  keeps what a peer had read before that clear, with no clear left to come.
- `fill_unnames`: a purge moves its counter once, before it reads the index. A fill
  that begins after that move files itself, and the end of the purge - the SREM of a
  row purge, the release of a collection purge's moved set - takes the filing along.
  The fill compares equal counters and keeps an entry no index set names: no later
  purge finds it before its TTL.

**Further configurations** check the same specifications against more comments, and
TLC finds each violated:

- `MCMultiCacheOwnClear.cfg` (`OwnChangeIsNotUndone`): `clear()` advances
  `clearGeneration` before its redis tier is empty and ignores its own message, so a
  lookup begun in between puts a cleared value back into the local tier.
- `MCScopedCacheDeployEndedTwice.cfg` (`PausesEndOnTheirOwnLooks`): the script that ends
  a pause compares the build, not the pause. Quiet looks counted against one pause may
  end a later one of the same build.
- `MCScopedCacheRecoveryStranded.cfg` (`SweptEntryIsDropped`): a process dies mid-sweep
  and its restart has the index ready before the entries' store, which is away or still
  dialed. The release gives up, and only another `ready` of the index client asks for it
  again; the store's `ready` and the timer only drain the table, where a sweep that died
  has no row.
- `MCScopedCacheFillEviction.cfg` (`StaleEntryIsOwed`): a delete the store swallowed,
  followed by a probe that already succeeds, passes for an eviction and is not recorded.
- `MCIndexReapLate.cfg` (`EveryRequestIsAnswered`): a request made between the loop's
  last test and the microtask that forgets its promise is answered by no pass.
- `MCScopedCacheDeployStraddled.cfg` (`PauseCoversItsFilings`): a reap begun during a
  pause, and ended after its ceiling, marks complete an index it saw too little of.
- `MCScopedCacheDeployRollBack.cfg` (`RollForwardIsNoticed`): a roll back to a build
  that records nothing, and forward again, leaves the old marker in force.
- `MCScopedCacheDeployRecordBack.cfg` (`ReconnectTakesNothingBack`): a process still
  paused by its own deploy reconnects and records its build over the next one.
- `MCItemMutationDropped.cfg` (`RolledBackTasksWereNotNeeded`): "a rolled-back
  transaction drops its tasks: nothing it wrote landed" (`transaction.ts:110-111`), but a
  hook's write through a connection of its own did land.
- `MCScopedCacheIndexExpiryNoSlack.cfg` (`SetsOutliveTheirEntries`): at a factor of 1 a
  set expires before its entry by the time the fill took between filing and writing.

Some passing runs were checked at other bounds, and hold: `fill_guard` with no expiry and
all four modes (3,107,099 states); `fill_one_purge` with a counter that expires (1.5 million
states) and with a reap beside it (4.0 million); two reads beside one and beside two
mutations, by random behaviours (30 million states each);
`mutation_purged` with `Serializable = FALSE` (races are waited out) on the pairs of its
first two lines, with a hook that moves either row anywhere and a request of two rows
(4.7 million states), and by random behaviours with no scope field, one and two;
`schema_kept` with `MaxAttempts = 2`.

**The gaps of the mutations.** `ItemMutation` found these ways to a stale answer, which
the code states or which follow from it; `SettledReadIsFresh` holds of every behaviour
that took none.

- `dropped`: the configuration above. `queueAfterCommitOrRollback` exists, but the purge
  is queued by `queueMergedAfterCommit`.
- `retried`: a restarted attempt forgets what its hooks wrote past the transaction
  (the code's own `TODO(#610)`, `items.ts:529-530, 1963-1964`); rows created one by one
  take what the hooks of the failed attempt declared for purged (`items.ts:2760-2771`).
- `redeclared`: of rows sharing declarations one is taken over by one hook and declared
  by another that saw it only after.
- `overtaken`: the rows of `updateGroupByGroup` share declarations, and so do the attempts
  of a create (`items.ts:531`), while a row counts as declared once any hook declared it
  (`items.ts:1913-1925`, `2730-2799`): a later hook that moves it on, and only takes it
  over, leaves a slice out of the purge. Runs of one plan had passed without it; proving
  that the gaps listed were all of them, and wider instances, showed it.
- `deleted`: a deletion fails after its statement on a caller's transaction, which
  commits all the same: only what hooks declared is purged (`items.ts:4293-4315`).
- `raced`: another request moves a row between the read of its slice and the write that
  takes it out of another (`items.ts:1985`), unless hooks declared both.

And of the layout: a prune leaves a set out when `scoped_cache_fields` lists the primary
key first (`redis-store.ts:1459-1493`); `PruneNamesEveryFiling` has the premise.

## What is proved

The proofs hold for every value of the constants - any number of reads, purges, keys,
slices, sets and TTLs - under the assumptions named in the modules.

`MultiCacheProofs`, for any processes, keys, calls and writes

- `TypeCorrect`.
- `PeerChangesStay`, `AnswersAreCurrent`: `Spec => []PeerChangeIsNotUndone`,
  `Spec => []AnswerIsNotRetired`. Neither is inductive: a lookup in flight, a message on
  its way and a clear half done can each break them later. The strengthening,
  `RetiredInv`, turns on one fact: a value whose set has returned never comes back to
  redis once it left (`Gone`), as sets in flight have values of their own. What a change
  retires is gone when its commands are served - or, while a clear walks, is still ahead
  of it or among the keys it found - so what messages and processes know of is gone; and
  a lookup whose generation is unchanged began with all a peer has retired since.

`ScopedCacheFillProofs`

- `TypeCorrect`: `Spec => []TypeOK`.
- `GuardHolds`: `HistorySpec => []GuardCatchesEveryPurge`, whatever moves redis refuses.
  The property is not inductive: that a counter differs says nothing unless counters only
  grow and what a read took was there before. The invariant is the conjunction of
  `TypeOK`; counters started at one (so null, read as 0, is no value of a counter); a
  reading is no later than the counter it read; what has committed has its purge begun or
  on its way (`WrittenPurged`), and what is forgotten has begun (`ForgottenBegun`), so that
  the exceptions hide no purge still to come; and the guard itself.
  The hard steps are the expiry and the return of a counter, where `NoReadOutlives` is
  needed; a refused move, which adds its mutation to the `lost` of every read that
  compares equal; and FLUSHDB, which removes all counters at once: there the wholesale
  counter moves for every read in flight, or the mutations it hid are `forgotten`.
- `StaleFilingsReached`: `HistorySpec => []StaleFilingIsReached`: no superseded entry that
  has always been filed stays without something on its way to drop it, but for the
  mutations nothing more is done about. The invariant, `ReachInv`, adds to the guard what
  each stage of a purge holds (`Stages`: which pcs belong to which mode, what is in hand
  where), that a set of index names no purge has read is where it was (`UnmovedSets`),
  that an entry never without its filing is named, in its set or in one moved aside
  (`FilingsKept`), and that an entry without a mutation that is forgotten has its own fill
  still at it, which compares, keeps or evicts it, or is recorded or given up (`GapHeld`):
  the flush that made it forget took every entry written before. The premise `~StoreReturns` leaves out a store that comes back between the delete it
  swallowed and the probe: `MCScopedCacheFillEviction.cfg` shows that the conclusion is
  false then.
- `OnePurgeOwes`: with one mutation, `HistorySpec => []StaleEntryIsOwed`, named or not:
  however many reads and recoveries, no superseded entry stays unreached but for the same
  exceptions. The invariant, `OnceInv`, says that before the mutation's sweep nothing has
  been moved aside and every entry is filed, or a read will notice, or the entry is one
  given up (`KeptBefore`). Two mutations are too many: the prune of
  the first may take the filing of an entry written since, which the second then misses.
  That is the run `fill_unnames`.
- `PurgesSpare`: `Spec => [][PurgeSparesOtherSlices]_vars`. The strengthening, `FoundInv`:
  index sets hold only what is filed in them, and a purge has in hand only entries filed
  in a slice it purges or swept.

`ScopedCacheIndexExpiryProofs`

- `TypeCorrect`: an index-key set exists exactly while it names a set.
- `IndexKeysOutlive`: no expiry takes an index-key set before a set it names, for any
  TTLs and factor. It rests on a lemma about TTL's rounding: a set that reads `n`
  seconds has less than `n + 1` left, which is the second the script adds.
- `SetsOutlive`: no index set expires before an entry filed in it, provided the factor
  leaves every TTL room for the longest fill and half a second (`Slack`). The
  strengthening says so of entries filed and not yet written. At factor 1 the premise
  is false, and so is the conclusion, as the further configuration shows.

`ItemMutationProofs`, for any columns, scope fields and fingerprints

- `AnswerChangeIsPurged`: a write that changes what a read answers purges it. Where the
  two sides of the write hold the same rows and agree on what the read views, the
  answer is the same; so some row moved, or a viewed field did, and each is a way the
  rules drop the read.
- `MatchedReadIsFound`, `DeclaredPinFindsItsReads`: what matches is filed in a set that
  is read back, whichever of its pins filed it.
- `ChangedAnswerIsDropped`: the two together, for the purge an update or a deletion asks for.
- `PruneNamesEveryFiling`, `MergedPurgeReachesBoth`.
- `RefinementIsFresh`: whatever implements the abstract cache, `ReadThrough`, through the
  mapping of `ItemMutation` has no stale answer settled, so the refinement is the stronger
  property.

and for any requests, plans, rows, reads, hooks and numbers of attempts

- `TypeCorrect`. The strengthening, `TypeInv`, adds what a request holds at each phase
  (`PhaseIsCoherent`): a call at work is one of its plan's, a service request has no purge
  held back, what is due next fits who opened the transaction.
- `DroppedEntriesAreUnnamed`: `Spec => []DroppedEntryIsUnnamed`, where the index is not
  split by the primary key (the premise of `PruneNamesEveryFiling`, see the gaps).
- `SettledReadsAreFresh`: `Spec => []SettledReadIsFresh`. The property speaks of the end;
  the invariant, `OwedInv`, says of every state before it that a stale entry is owed its
  purge by some request at work (`Owes`). What a request owes it with changes hands: a
  hook that writes past the transaction leaves it to the declarations or to the rows its
  call took over (`OwnOwes`), the call to the snapshot it purges by, to what is held back
  until the transaction ends (`held`), or to what is due, and a roll back of rows written
  one by one to what their hooks took over (`TakenDrops`). Three more facts make that
  inductive. Writes not committed yet are already owed, by the call at work or by a purge
  held back (`OverlayIsOwed`), so that a commit can make the entry stale; what the hooks
  of earlier rows declared is held back before the next one counts it as purged
  (`PinsAreHeld`); and no row has uncommitted writes of two transactions (`RowsAreLocked`),
  so that what a call read of its row is still there when it commits, or `raced` records
  that it is not. A step then either moves no row as the read sees it, and everybody's
  debt stands (`StepOfOne`), or its own request owes the purge. That a debt is paid rests
  on the theorems about the rules above: whatever a read sees change, `Drops` it. TLC had
  checked `OwedInv` on `mutation_purged`, with a collection that scopes nothing, with
  wider plans and hooks, and with both requests hooked (8.8 million states), before it
  was proved.
- `RequestsArePromised`: `Spec => ImplementsReadThrough`, the refinement itself: from
  `OwedInv`, each step is a fill of the abstract cache, the start of a writer (`Begin`, or
  the end of a transaction that made no call), its end (a caller's rollback, the last purge
  done), or its work; the last writer to end leaves nothing stale because nobody is left
  to owe it.

`SchemaCacheProofs`

- `TypeCorrect`.
- `OneCallBuildsAtATime`: `Spec => []OneCallBuilds`. The strengthening: until the limit
  is reached the counter is above zero while a call builds, so the next increment is not
  one.
- `OldSchemasCameLate`: `Spec => []OldSchemaCameLate`. The strengthening follows the
  schema from the query to the memory: a clear that is coming belongs to a committed
  change; a build not marked outdated shows every change its process dropped for, unless
  it reads an older snapshot; so does the memory, but for what is `late`; and every
  committed change has been dropped for, is coming, or is missed, in each process.

`IndexReapProofs`, for any processes, requests, passes, deploys and deaths

- `TypeCorrect`.
- `LocksAreReleased`, `LocksMoveByTheirHolders`: `NoLockIsLeftBehind`, `LockIsItsHolders`.
  The strengthening, `LockInv`, follows the tokens: no two passes bear the same, the one
  a pass is about to claim with is neither in the lock nor on the wire, and a renewal on
  the wire is of a pass, or of one that died or was refused. `TokenAssumption` leaves a
  fresh token for each pass beside those.
- `RoundsAnswer`: `RequestsBeforeTheTestAreAnswered`. The strengthening, `RequestInv`,
  says of every request still waiting which flag, round or pass will answer it, by
  where its process's loop stands.

`ScopedCacheDeployProofs`, for any builds, processes, sets, pauses and quiet looks

- `TypeCorrect`.
- `TheMarkerIsTrue`: `Spec => []VouchedSetsAreNamed`, roll backs included. Not inductive:
  the marker is written at the end of a pass. The strengthening says that no marker holds
  the generation while a pause runs, and that a pass that may still mark has everything
  unnamed ahead of it or found. The steps that could break it are a record, which moves the
  generation away from both, and the close of a pause under a pass.
- `PausesKeepBuildsApart`: `Spec => []BuildsFillApart`, without roll backs. The
  strengthening: once a pause is over, whoever recorded itself is of the recorded build;
  and a watcher whose row of looks could still end its pause is alone with processes that
  have recorded nothing - a row of `QuietLooks` looks saw, at least once, everybody.

`ScopedCacheRecoveryProofs`, for any processes, entries, mutations, faults and limits

- `TypeCorrect`. Beside the sets it needs that a worker's shape fits what it is (only a
  mutation's purge records, only a sweep moves) and that rows are counted: each row of
  the table is of a mutation whose purge is over, so its number is new.
- `StaleEntriesAreOwed`: `Spec => []StaleEntryIsOwed`: through failed commands, failed
  drains, reconnects and deaths, a superseded entry has a mutation's purge still to drop
  or record it, a row of the table, or a stranded sweep, unless it is among the `lost`.
  The property itself is not inductive. `OwedInv` adds that what a sweep moved aside and
  read is what it drops (`Reads`); that a row purge has dropped what it takes out of the
  index (`Drops`); that a drain purges at least what the rows it listed name (`Lists`),
  for otherwise it would clear a row it did not serve; that every entry kept is named in
  the index or by a set moved aside; and it counts a row as owing only while no drain
  which listed it is past the drop with the entry still there (`Waits`).

Every safety property a passing run checks is stated by a theorem. Only model-checked are
the liveness properties, and what the further configurations show. Liveness under
fairness and ENABLED are out of the prover's reach and stay with TLC, as does induction
over data; none of the modules declares a RECURSIVE operator.

## Not modelled

- Lost bus messages in `MultiCache`: the code takes no action on a resubscription.
  `SchemaCache` loses them (`Lose`).
- In `ScopedCacheFill`, what the code gives up on is modelled and excepted by name, not
  repaired: a fill whose counters could not be read, one not told of a purge because redis
  refused to move its counter, one that compares after a FLUSHDB whose own move was
  refused and before the next, an eviction that failed and could not be recorded. Not
  modelled there: a reply lost after the FLUSHDB or a move of a counter has run (it counts
  as refused or as done), a clear or a sweep that fails after its counter moved
  (`ScopedCacheRecovery`'s subject, for row and collection purges), and a mode that
  differs between processes.
- `ScopedCacheFill` takes where an entry is filed as `FiledIn`; its constants are not an
  instance of `ScopedCacheFingerprint`.
- What a query resolves to - read plans, quantifier cases, relational paths, nested view
  fields, empty lists of pins: `ScopedCacheFingerprint` starts from the fingerprint.
- Of the mutations: `skipPurgeFor` and `purgeBareFingerprint` opt-outs, collections a
  cascade changes, rows that refer to rows of their own collection, the `cache.purge`
  filter, `upsertMany`, action events, savepoints and transactions of callers that do not
  go through `transaction()`, and purges that fail (`ScopedCacheRecovery`'s subject).
- Of the schema: reads that bypass the cache, and what a schema is made of.
- Permission results computed across a clear (`with-cache.ts`, a hazard without a
  property).
- The gates that refuse a fill, headers, statistics, tombstones, telemetry.
- Rows of a wholesale purge: `cache.clear()` goes through Keyv, which swallows the
  store's failure, so `purgeOrRecord` records nothing (a hazard without a property).
- Several mutations of one process purging at once in `ScopedCacheRecovery`; across
  processes they are separate workers of the same model.
- Fractional factors of the index expiry.

## Plan

1. Done: the modules above, the proofs of the two-tier cache, the fill guard, the
   expiries, the fingerprints, the abstract cache, the schema cache, the reap requests,
   the deploys, the recovery and the mutations, which implement the abstract cache.
2. An end that is reached: what fairness makes every request of `ItemMutation` end, so
   that a stale answer goes; to be checked by TLC, as liveness.
3. `FiledIn` of `ScopedCacheFill` as an instance of `ScopedCacheFingerprint`, and
   `ScopedCacheFill` shown to implement an abstract cache of its own.
4. The flush a changed build asks for at boot and its lock (`cache-build-identity.ts`),
   `with-cache.ts` over `MultiCache`.
5. Other state machines: clustered schedules (`synchronization.ts`), the autoscale
   supervisor, flow reloads, websocket authentication, session refresh, the locker of
   resumable uploads.
