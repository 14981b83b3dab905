--------------------------- MODULE ScopedCacheFill ---------------------------
(* Fills of the response cache racing the purges that follow mutations.       *)
(*                                                                            *)
(* A read that misses takes the purge counters, queries, files its entry in   *)
(* the index, writes the entry, then compares the counters again and evicts   *)
(* its own entry when one moved (middleware/respond.ts, scoped-cache/fill-    *)
(* guard.ts). A purge bumps the counters, finds the entries through the       *)
(* index, drops them, then drops their filings (scoped-cache/purge.ts,        *)
(* scoped-cache/redis-store.ts). Every command to the database, to the index  *)
(* and to the entries is a step; nothing but a script or a MULTI spans two.   *)
(*                                                                            *)
(* A slice is one value of a collection's index path: the unit a mutation     *)
(* writes and a row purge reads. FiledIn[k] are the slices entry k depends    *)
(* on, which are the index sets it is filed in. The content of an entry is    *)
(* the mutations of each slice its query saw. Which sets a real fingerprint   *)
(* is filed in and which a written row reads is a separate matter.            *)
(*                                                                            *)
(* Redis may refuse to move a counter. The purge logs it and goes on, so the  *)
(* fills in flight are not told of it (fill-guard.ts, lines 139-161).         *)
EXTENDS Naturals, FiniteSets

CONSTANTS Key,        \* cached requests
          Coll,       \* collections
          Slice,      \* slices of collections
          CollOf,     \* the collection of a slice
          FiledIn,    \* the slices an entry depends on
          Star,       \* the wholesale counter, "*"
          Read,       \* reads in flight
          Mutation,   \* mutations, each of them followed by one purge
          Sweeper,    \* recoveries of stranded sweeps
          Modes,      \* purge modes the mutations may take
          FillsMayFail, \* may filing throw, the store swallow a write and the
                        \* record of a failed eviction be refused?
          RedisMayRefuse, \* may redis refuse a purge's move of a counter or
                        \* its flush of the database?
          StoreReturns, \* may the entry store come back between a swallowed
                        \* delete and the probe that checks on it?
          MaxReaps,   \* bound: how many members the reap removes
          MaxExpiries,\* bound: how many counters expire
          None        \* no entry

AllModes == {"row", "collection", "clear", "flushdb"}

ASSUME SliceAssumption ==
  /\ CollOf \in [Slice -> Coll]
  /\ FiledIn \in [Key -> SUBSET Slice]
  /\ Star \notin Coll
ASSUME PurgeAssumption ==
  /\ Modes \subseteq AllModes
  /\ Mutation \cap Sweeper = {}
  /\ FillsMayFail \in BOOLEAN /\ RedisMayRefuse \in BOOLEAN /\ StoreReturns \in BOOLEAN
ASSUME BoundAssumption == MaxReaps \in Nat /\ MaxExpiries \in Nat
ASSUME NoneAssumption ==
  /\ None \notin [seen : [Slice -> SUBSET Mutation], guarded : BOOLEAN]
  /\ None \notin Key

Purger == Mutation \cup Sweeper
Counter == Coll \cup {Star}
SweptId == Purger \X Slice
Content == [Slice -> SUBSET Mutation]

VARIABLES
  written,  \* written[s]: the mutations of slice s that have committed
  bumps,    \* bumps[c]: how often counter c was bumped
  held,     \* held[c]: whether redis holds counter c
  entry,    \* entry[k]: what the cache holds under k
  index,    \* index[s]: the keys the index set of s names
  swept,    \* swept[<<w, s>>]: the keys of the set w moved aside
  read,     \* read[r]: where read r stands
  purge,    \* purge[w]: where purge w stands
  pending,  \* keys an eviction could not drop, recorded for a retry
  reaps, expiries

vars == <<written, bumps, held, entry, index, swept, read, purge, pending,
          reaps, expiries>>

(* A missing counter that reads as nothing comparable *)
EpochUndefined(c) == IF held[c] THEN bumps[c] ELSE None

(* A missing counter reads as null, here 0; a recreated one never repeats.    *)
Epoch(c) == IF held[c] THEN bumps[c] ELSE 0

ReadIdle == [pc |-> "idle", key |-> None, epochs |-> [c \in Counter |-> 0],
             guarded |-> FALSE, seen |-> [s \in Slice |-> {}], swallowed |-> FALSE]

(* A recovery, which commits nothing, drops and releases in collection mode. *)
PurgeIdle == [pc |-> "idle", mode |-> "collection", counter |-> Star, slices |-> {}, todo |-> {},
              unread |-> {}, sets |-> {}, found |-> {}]

PurgeDone == [PurgeIdle EXCEPT !.pc = "done"]

Init ==
  /\ written = [s \in Slice |-> {}]
  /\ bumps = [c \in Counter |-> 1]
  /\ held \in [Counter -> BOOLEAN]
  /\ entry = [k \in Key |-> None]
  /\ index = [s \in Slice |-> {}]
  /\ swept = [id \in SweptId |-> {}]
  /\ read = [r \in Read |-> ReadIdle]
  /\ purge = [w \in Purger |-> PurgeIdle]
  /\ pending = {}
  /\ reaps = 0
  /\ expiries = 0

-----------------------------------------------------------------------------
(* The read and its fill *)

(* The cache middleware finds nothing under the key. *)
Lookup(r, k) ==
  /\ read[r].pc = "idle"
  /\ entry[k] = None
  /\ read' = [read EXCEPT ![r] = [ReadIdle EXCEPT !.pc = "missed", !.key = k]]
  /\ UNCHANGED <<written, bumps, held, entry, index, swept, purge, pending, reaps, expiries>>

(* Before the query. A reading that fails leaves the fill unguarded. *)
ReadScopedCacheEpochs(r) ==
  /\ read[r].pc = "missed"
  /\ \/ read' = [read EXCEPT ![r].pc = "guarded", ![r].guarded = TRUE,
                             ![r].epochs = [c \in Counter |-> Epoch(c)]]
     \/ read' = [read EXCEPT ![r].pc = "guarded"]
  /\ UNCHANGED <<written, bumps, held, entry, index, swept, purge, pending, reaps, expiries>>

Query(r) ==
  /\ read[r].pc = "guarded"
  /\ read' = [read EXCEPT ![r].pc = "queried", ![r].seen = written]
  /\ UNCHANGED <<written, bumps, held, entry, index, swept, purge, pending, reaps, expiries>>

(* The members are filed before the entry exists. *)
IndexScopedCacheEntry(r) ==
  /\ read[r].pc = "queried"
  /\ index' = [s \in Slice |-> IF s \in FiledIn[read[r].key]
                                 THEN index[s] \cup {read[r].key} ELSE index[s]]
  /\ read' = [read EXCEPT ![r].pc = "filed"]
  /\ UNCHANGED <<written, bumps, held, entry, swept, purge, pending, reaps, expiries>>

(* Filing throws, some of its calls applied: the entry is never written. *)
IndexingFails(r) ==
  /\ FillsMayFail
  /\ read[r].pc = "queried"
  /\ \E filed \in SUBSET FiledIn[read[r].key]:
       index' = [s \in Slice |-> IF s \in filed
                                   THEN index[s] \cup {read[r].key} ELSE index[s]]
  /\ read' = [read EXCEPT ![r] = ReadIdle]
  /\ UNCHANGED <<written, bumps, held, entry, swept, purge, pending, reaps, expiries>>

(* The entry is written, unless the store swallowed the write. *)
SetCacheValue(r) ==
  /\ read[r].pc = "filed"
  /\ \/ entry' = [entry EXCEPT ![read[r].key] =
                    [seen |-> read[r].seen, guarded |-> read[r].guarded]]
     \/ FillsMayFail /\ UNCHANGED entry
  /\ read' = [read EXCEPT ![r].pc = "stored"]
  /\ UNCHANGED <<written, bumps, held, index, swept, purge, pending, reaps, expiries>>

(* A comparison of the wholesale counter alone *)
MovedWholesale(r) == read[r].epochs[Star] # Epoch(Star)

Moved(r) == \E c \in Counter: read[r].epochs[c] # Epoch(c)

(* The counters are read again: the fill ends when none moved. A reading that *)
(* fails answers no counter, which differs from every one taken. An unguarded *)
(* fill took none and compares none.                                          *)
SweptDuringFill(r) ==
  /\ read[r].pc = "stored"
  /\ \/ /\ ~read[r].guarded \/ ~Moved(r)
        /\ read' = [read EXCEPT ![r] = ReadIdle]
     \/ /\ read[r].guarded
        /\ read' = [read EXCEPT ![r].pc = "evicting"]
  /\ UNCHANGED <<written, bumps, held, entry, index, swept, purge, pending, reaps, expiries>>

(* evictCacheEntry deletes the entry; the store may swallow the delete. *)
DeleteEntry(r) ==
  /\ read[r].pc = "evicting"
  /\ \E swallowed \in BOOLEAN:
       /\ entry' = IF swallowed THEN entry ELSE [entry EXCEPT ![read[r].key] = None]
       /\ read' = [read EXCEPT ![r].pc = "probing", ![r].swallowed = swallowed]
  /\ UNCHANGED <<written, bumps, held, index, swept, purge, pending, reaps, expiries>>

(* It then probes the store: a store that drops nothing has the key recorded, *)
TrustTheDelete(r) == TRUE

ProbeSucceeds(r) == ~read[r].swallowed \/ StoreReturns

CacheStoreDropsEntries(r) ==
  /\ read[r].pc = "probing"
  /\ \/ ProbeSucceeds(r) /\ read' = [read EXCEPT ![r] = ReadIdle]
     \/ read' = [read EXCEPT ![r].pc = "recording"]
  /\ UNCHANGED <<written, bumps, held, entry, index, swept, purge, pending, reaps, expiries>>

(* in a table whose insert may fail, which is then only logged.               *)
RecordPendingScopedCachePurge(r) ==
  /\ read[r].pc = "recording"
  /\ \/ pending' = pending \cup {read[r].key}
     \/ FillsMayFail /\ UNCHANGED pending
  /\ read' = [read EXCEPT ![r] = ReadIdle]
  /\ UNCHANGED <<written, bumps, held, entry, index, swept, purge, reaps, expiries>>

-----------------------------------------------------------------------------
(* The purge that follows a mutation *)

SlicesOf(c) == {s \in Slice : CollOf[s] = c}

(* The slices a purge is about ... *)
PurgedSlices(mode, s) ==
  CASE mode = "row" -> {s}
    [] mode = "collection" -> SlicesOf(CollOf[s])
    [] OTHER -> Slice

(* ... and the counter every read depending on one of them takes *)
PurgeCounter(mode, s) ==
  IF mode \in {"row", "collection"} THEN CollOf[s] ELSE Star

Commit(w, s, mode) ==
  /\ w \in Mutation
  /\ purge[w].pc = "idle"
  /\ written' = [written EXCEPT ![s] = @ \cup {w}]
  /\ purge' = [purge EXCEPT ![w] =
       [PurgeIdle EXCEPT !.pc = "committed", !.mode = mode,
                         !.counter = PurgeCounter(mode, s),
                         !.slices = PurgedSlices(mode, s),
                         !.todo = PurgedSlices(mode, s)]]
  /\ UNCHANGED <<bumps, held, entry, index, swept, read, pending, reaps, expiries>>

Bump(c) ==
  /\ bumps' = [bumps EXCEPT ![c] = @ + 1]
  /\ held' = [held EXCEPT ![c] = TRUE]

(* Best effort: a move that redis refuses is logged, and the purge goes on. *)
TryBump(c) ==
  \/ Bump(c)
  \/ RedisMayRefuse /\ UNCHANGED <<bumps, held>>

(* Every purge moves its counter before anything is read or dropped. *)
BumpScopedCacheEpochs(w) ==
  /\ purge[w].pc = "committed"
  /\ TryBump(purge[w].counter)
  /\ purge' = [purge EXCEPT ![w].pc = purge[w].mode]
  /\ UNCHANGED <<written, entry, index, swept, read, pending, reaps, expiries>>

(* A row purge that reads every set of the collection *)
ScanWholeCollection(w) ==
  /\ purge[w].pc = "row"
  /\ LET found == UNION {index[s] : s \in SlicesOf(purge[w].counter)} IN
       purge' = [purge EXCEPT ![w] =
         IF found = {} THEN PurgeDone ELSE [@ EXCEPT !.found = found, !.pc = "drop"]]
  /\ UNCHANGED <<written, bumps, held, entry, index, swept, read, pending, reaps, expiries>>

(* Row purge: the entries the written slice names are found ... *)
ScanRowIndexedEntries(w) ==
  /\ purge[w].pc = "row"
  /\ LET found == UNION {index[s] : s \in purge[w].slices} IN
       purge' = [purge EXCEPT ![w] =
         IF found = {} THEN PurgeDone ELSE [@ EXCEPT !.found = found, !.pc = "drop"]]
  /\ UNCHANGED <<written, bumps, held, entry, index, swept, read, pending, reaps, expiries>>

(* ... dropped (the last step of a collection purge too) ... *)
DropSweptScopedCacheEntries(w) ==
  /\ purge[w].pc = "drop"
  /\ entry' = [k \in Key |-> IF k \in purge[w].found THEN None ELSE entry[k]]
  /\ purge' = [purge EXCEPT ![w].pc = IF purge[w].mode = "row" THEN "prune" ELSE "release"]
  /\ UNCHANGED <<written, bumps, held, index, swept, read, pending, reaps, expiries>>

(* ... and removed from every set of the collection they were filed in. *)
RemoveIndexedEntries(w) ==
  /\ purge[w].pc = "prune"
  /\ index' = [s \in Slice |->
       IF \E t \in purge[w].slices: CollOf[s] = CollOf[t]
         THEN index[s] \ {k \in purge[w].found : s \in FiledIn[k]} ELSE index[s]]
  /\ purge' = [purge EXCEPT ![w] = PurgeDone]
  /\ UNCHANGED <<written, bumps, held, entry, swept, read, pending, reaps, expiries>>

(* Collection purge: first the sets of its collection that were moved aside   *)
(* and never released; a recovery of stranded sweeps takes those of all.      *)
TakeSweptIndexKeys(w) ==
  /\ \/ purge[w].pc = "collection"
     \/ w \in Sweeper /\ purge[w].pc = "idle"
  /\ LET slices == IF w \in Sweeper THEN Slice ELSE purge[w].slices
         sets == {id \in SweptId : id[2] \in slices /\ swept[id] # {}} IN
       purge' = [purge EXCEPT ![w].pc = "collect", ![w].sets = sets, ![w].unread = sets]
  /\ UNCHANGED <<written, bumps, held, entry, index, swept, read, pending, reaps, expiries>>

(* Then each of the collection's own sets is moved aside ... *)
MoveIndexKey(w, s) ==
  /\ purge[w].pc = "collect" /\ purge[w].unread = {}
  /\ s \in purge[w].todo
  /\ swept' = [swept EXCEPT ![<<w, s>>] = index[s]]
  /\ index' = [index EXCEPT ![s] = {}]
  /\ purge' = [purge EXCEPT ![w].todo = @ \ {s}, ![w].unread = {<<w, s>>},
                            ![w].sets = @ \cup {<<w, s>>}]
  /\ UNCHANGED <<written, bumps, held, entry, read, pending, reaps, expiries>>

(* ... and read. *)
CollectSweptIndexKeys(w, id) ==
  /\ purge[w].pc = "collect"
  /\ id \in purge[w].unread
  /\ purge' = [purge EXCEPT ![w].unread = @ \ {id}, ![w].found = @ \cup swept[id]]
  /\ UNCHANGED <<written, bumps, held, entry, index, swept, read, pending, reaps, expiries>>

CollectDone(w) ==
  /\ purge[w].pc = "collect" /\ purge[w].unread = {} /\ purge[w].todo = {}
  /\ purge' = [purge EXCEPT ![w].pc = "drop"]
  /\ UNCHANGED <<written, bumps, held, entry, index, swept, read, pending, reaps, expiries>>

ReleaseSweptIndexKeys(w) ==
  /\ purge[w].pc = "release"
  /\ swept' = [id \in SweptId |-> IF id \in purge[w].sets THEN {} ELSE swept[id]]
  /\ purge' = [purge EXCEPT ![w] = PurgeDone]
  /\ UNCHANGED <<written, bumps, held, entry, index, read, pending, reaps, expiries>>

(* The process dies with every set moved aside and not yet released. *)
DieAfterMove(w) ==
  /\ w \in Mutation
  /\ purge[w].mode = "collection"
  /\ purge[w].pc \in {"collect", "drop", "release"} /\ purge[w].todo = {}
  /\ purge' = [purge EXCEPT ![w] = PurgeDone]
  /\ UNCHANGED <<written, bumps, held, entry, index, swept, read, pending, reaps, expiries>>

(* Flush of the namespace: the entries, then the index sets, then the         *)
(* wholesale counter again.                                                   *)
ClearResponseCache(w) ==
  /\ purge[w].pc = "clear"
  /\ entry' = [k \in Key |-> None]
  /\ purge' = [purge EXCEPT ![w].pc = "dropIndex"]
  /\ UNCHANGED <<written, bumps, held, index, swept, read, pending, reaps, expiries>>

DropIndex(w, s) ==
  /\ purge[w].pc = "dropIndex"
  /\ s \in purge[w].todo
  /\ index' = [index EXCEPT ![s] = {}]
  /\ swept' = [id \in SweptId |-> IF id[2] = s THEN {} ELSE swept[id]]
  /\ purge' = [purge EXCEPT ![w].todo = @ \ {s}]
  /\ UNCHANGED <<written, bumps, held, entry, read, pending, reaps, expiries>>

(* Whether every set is dropped or the drop fails on the way *)
DropScopedCacheIndexDone(w) ==
  /\ purge[w].pc = "dropIndex"
  /\ TryBump(Star)
  /\ purge' = [purge EXCEPT ![w] = PurgeDone]
  /\ UNCHANGED <<written, entry, index, swept, read, pending, reaps, expiries>>

(* Flush of a database of its own: one MULTI takes entries, index and         *)
(* counters, and moves the wholesale counter again, which redis may refuse.   *)
FlushCacheRedisDatabase(w) ==
  /\ purge[w].pc = "flushdb"
  /\ entry' = [k \in Key |-> None]
  /\ index' = [s \in Slice |-> {}]
  /\ swept' = [id \in SweptId |-> {}]
  /\ \/ /\ bumps' = [bumps EXCEPT ![Star] = @ + 1]
        /\ held' = [c \in Counter |-> c = Star]
        /\ purge' = [purge EXCEPT ![w] = PurgeDone]
     \/ /\ RedisMayRefuse
        /\ held' = [c \in Counter |-> FALSE]
        /\ purge' = [purge EXCEPT ![w].pc = "rebump"]
        /\ UNCHANGED bumps
  /\ UNCHANGED <<written, read, pending, reaps, expiries>>

(* A refused move is tried once more after the MULTI ... *)
BumpAfterFlush(w) ==
  /\ purge[w].pc = "rebump"
  /\ TryBump(Star)
  /\ purge' = [purge EXCEPT ![w] = PurgeDone]
  /\ UNCHANGED <<written, entry, index, swept, read, pending, reaps, expiries>>

(* ... and after a refused FLUSHDB the cache is cleared as a namespace is. *)
FlushRefused(w) ==
  /\ RedisMayRefuse
  /\ purge[w].pc = "flushdb"
  /\ purge' = [purge EXCEPT ![w].pc = "clear"]
  /\ UNCHANGED <<written, bumps, held, entry, index, swept, read, pending, reaps, expiries>>

-----------------------------------------------------------------------------
(* What happens on its own *)

(* The reap: one script checks the entry, removes the member, bumps. *)
ReapIndexMember(s, k) ==
  /\ reaps < MaxReaps
  /\ k \in index[s] /\ entry[k] = None
  /\ Bump(CollOf[s])
  /\ index' = [index EXCEPT ![s] = @ \ {k}]
  /\ reaps' = reaps + 1
  /\ UNCHANGED <<written, entry, swept, read, purge, pending, expiries>>

ExpireEntry(k) ==
  /\ entry[k] # None
  /\ entry' = [entry EXCEPT ![k] = None]
  /\ UNCHANGED <<written, bumps, held, index, swept, read, purge, pending, reaps, expiries>>

(* A counter is held at least five minutes past its last bump: no read is     *)
(* still in flight that took its reading before that bump.                    *)
NoReadOutlives(c) ==
  \A r \in Read: read[r].guarded => read[r].epochs[c] = Epoch(c)

ExpireEpoch(c) ==
  /\ expiries < MaxExpiries
  /\ held[c] /\ NoReadOutlives(c)
  /\ held' = [held EXCEPT ![c] = FALSE]
  /\ expiries' = expiries + 1
  /\ UNCHANGED <<written, bumps, entry, index, swept, read, purge, pending, reaps>>

-----------------------------------------------------------------------------
ReadNext(r) ==
  \/ \E k \in Key: Lookup(r, k)
  \/ ReadScopedCacheEpochs(r) \/ Query(r)
  \/ IndexScopedCacheEntry(r) \/ IndexingFails(r) \/ SetCacheValue(r)
  \/ SweptDuringFill(r) \/ DeleteEntry(r) \/ CacheStoreDropsEntries(r)
  \/ RecordPendingScopedCachePurge(r)

PurgeNext(w) ==
  \/ \E s \in Slice, mode \in Modes: Commit(w, s, mode)
  \/ BumpScopedCacheEpochs(w)
  \/ ScanRowIndexedEntries(w) \/ DropSweptScopedCacheEntries(w)
  \/ RemoveIndexedEntries(w)
  \/ TakeSweptIndexKeys(w) \/ CollectDone(w)
  \/ \E s \in Slice: MoveIndexKey(w, s) \/ DropIndex(w, s)
  \/ \E id \in SweptId: CollectSweptIndexKeys(w, id)
  \/ ReleaseSweptIndexKeys(w) \/ DieAfterMove(w)
  \/ ClearResponseCache(w) \/ DropScopedCacheIndexDone(w)
  \/ FlushCacheRedisDatabase(w) \/ BumpAfterFlush(w) \/ FlushRefused(w)

StoreNext ==
  \/ \E s \in Slice, k \in Key: ReapIndexMember(s, k)
  \/ \E k \in Key: ExpireEntry(k)
  \/ \E c \in Counter: ExpireEpoch(c)

Next ==
  \/ \E r \in Read: ReadNext(r)
  \/ \E w \in Purger: PurgeNext(w)
  \/ StoreNext

Spec == Init /\ [][Next]_vars

-----------------------------------------------------------------------------
ReadState ==
  [pc : {"idle", "missed", "guarded", "queried", "filed", "stored", "evicting", "probing",
         "recording"},
   key : Key \cup {None}, epochs : [Counter -> Nat], guarded : BOOLEAN,
   seen : Content, swallowed : BOOLEAN]

PurgeState ==
  [pc : {"idle", "committed", "collect", "drop", "prune", "release", "dropIndex", "rebump",
         "done"} \cup AllModes,
   mode : AllModes, counter : Counter, slices : SUBSET Slice,
   todo : SUBSET Slice, unread : SUBSET SweptId, sets : SUBSET SweptId,
   found : SUBSET Key]

(* The types of the cache, its index, its counters, the reads and the purges; *)
(* a read in flight is a read of some key.                                    *)
TypeOK ==
  /\ written \in Content
  /\ bumps \in [Counter -> Nat]
  /\ held \in [Counter -> BOOLEAN]
  /\ entry \in [Key -> [seen : Content, guarded : BOOLEAN] \cup {None}]
  /\ index \in [Slice -> SUBSET Key]
  /\ swept \in [SweptId -> SUBSET Key]
  /\ read \in [Read -> ReadState]
  /\ \A r \in Read: read[r].pc # "idle" => read[r].key \in Key
  /\ purge \in [Purger -> PurgeState]
  /\ pending \subseteq Key
  /\ reaps \in Nat
  /\ expiries \in Nat

(* What still comes for the entry under k, stale at slice s *)
WillDrop(w, k, s) ==
  \/ purge[w].pc \in {"committed"} \cup AllModes /\ s \in purge[w].slices
  \/ /\ purge[w].pc = "collect"
     /\ s \in purge[w].todo \/ \E id \in purge[w].unread: k \in swept[id]
  \/ purge[w].pc \in {"collect", "drop"} /\ k \in purge[w].found

WillEvict(r, k) ==
  read[r].key = k /\ read[r].pc \in {"filed", "stored", "evicting", "probing", "recording"}

Owed(k, s) ==
  \/ \E w \in Purger: WillDrop(w, k, s)
  \/ \E r \in Read: WillEvict(r, k)
  \/ k \in pending

Swept(k) == \E id \in SweptId: k \in swept[id]

(* An entry that is kept is reachable to the purges: every index set it       *)
(* depends on names it, or a sweep that moved its filing is about to drop it. *)
KeptEntryIsNamed ==
  \A k \in Key:
    (entry[k] # None /\ entry[k].guarded) =>
      \A s \in FiledIn[k]: k \in index[s] \/ Owed(k, s) \/ Swept(k)

(* A purge leaves the rest of the cache warm: a step that drops an entry is   *)
(* its expiry, its own read's eviction, a wholesale purge, or a purge or the  *)
(* recovery of a sweep of a slice it depends on.                              *)
PurgeSparesOtherSlices ==
  [][\A k \in Key:
       (entry[k] # None /\ entry'[k] = None /\ purge' # purge) =>
         \E w \in Purger:
           /\ purge'[w] # purge[w]
           /\ \/ purge[w].mode \in {"clear", "flushdb"}
              \/ (purge[w].slices \cup {id[2] : id \in purge[w].sets}) \cap FiledIn[k] # {}]_vars
=============================================================================
