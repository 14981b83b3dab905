----------------------- MODULE ScopedCacheFillProofs -----------------------
(* Proofs about ScopedCacheFill and its history, for any set of keys, slices, *)
(* collections, reads, mutations, sweepers and purge modes.                   *)
EXTENDS ScopedCacheFillHistory, TLAPS

-----------------------------------------------------------------------------
(* What the actions are built from has the types it should. *)

LEMMA IdleTypes == ReadIdle \in ReadState /\ PurgeIdle \in PurgeState /\ PurgeDone \in PurgeState
  BY DEF ReadIdle, ReadState, PurgeIdle, PurgeDone, PurgeState, Content, Counter, AllModes

LEMMA PurgedTypes ==
  ASSUME NEW mode \in AllModes, NEW s \in Slice
  PROVE  /\ PurgedSlices(mode, s) \in SUBSET Slice
         /\ s \in PurgedSlices(mode, s)
         /\ PurgeCounter(mode, s) \in Counter
  <1>1. CollOf[s] \in Coll
    BY SliceAssumption DEF SliceAssumption
  <1>. QED BY <1>1 DEF PurgedSlices, PurgeCounter, SlicesOf, Counter, AllModes

LEMMA EpochType ==
  ASSUME TypeOK, NEW c \in Counter
  PROVE  Epoch(c) \in Nat
  BY DEF TypeOK, Epoch

-----------------------------------------------------------------------------
(* Every step of a read, of a purge and of the store keeps the types. *)

LEMMA ReadTypes ==
  ASSUME TypeOK, NEW r \in Read, ReadNext(r)
  PROVE  TypeOK'
  <1>. USE IdleTypes
  <1>1. read[r] \in ReadState /\ (read[r].pc # "idle" => read[r].key \in Key)
    BY DEF TypeOK
  <1>2. ASSUME NEW state \in ReadState, state.pc # "idle" => state.key \in Key,
               read' = [read EXCEPT ![r] = state],
               UNCHANGED <<written, bumps, held, swept, purge, reaps, expiries>>,
               entry' \in [Key -> [seen : Content, guarded : BOOLEAN] \cup {None}],
               index' \in [Slice -> SUBSET Key], pending' \subseteq Key
        PROVE  TypeOK'
    BY <1>2 DEF TypeOK
  <1>3. ASSUME NEW p \in {"guarded", "queried", "filed", "stored", "evicting", "probing",
                         "recording"}
        PROVE  [read[r] EXCEPT !.pc = p] \in ReadState
    BY <1>1 DEF ReadState
  <1>4. ASSUME NEW k \in Key, Lookup(r, k) PROVE TypeOK'
    <2>1. [ReadIdle EXCEPT !.pc = "missed", !.key = k] \in ReadState
      BY DEF ReadState
    <2>. QED BY <1>2, <1>4, <2>1 DEF Lookup, TypeOK, ReadIdle
  <1>5. CASE ReadScopedCacheEpochs(r)
    <2>1. [c \in Counter |-> Epoch(c)] \in [Counter -> Nat]
      BY EpochType
    <2>. DEFINE taken == [read[r] EXCEPT !.pc = "guarded", !.guarded = TRUE,
                                         !.epochs = [c \in Counter |-> Epoch(c)]]
    <2>2. taken \in ReadState /\ taken.key = read[r].key
      BY <1>1, <2>1 DEF ReadState
    <2>3. read' = [read EXCEPT ![r] = taken]
          \/ read' = [read EXCEPT ![r] = [read[r] EXCEPT !.pc = "guarded"]]
      BY <1>5 DEF ReadScopedCacheEpochs, TypeOK, ReadState
    <2>. HIDE DEF taken
    <2>4. read[r].key \in Key
      BY <1>1, <1>5 DEF ReadScopedCacheEpochs
    <2>5. [read[r] EXCEPT !.pc = "guarded"].key = read[r].key
      BY <1>1 DEF ReadState
    <2>6. /\ UNCHANGED <<written, bumps, held, swept, purge, reaps, expiries>>
          /\ entry' \in [Key -> [seen : Content, guarded : BOOLEAN] \cup {None}]
          /\ index' \in [Slice -> SUBSET Key] /\ pending' \subseteq Key
      BY <1>5 DEF ReadScopedCacheEpochs, TypeOK
    <2>. QED BY <1>2, <1>3, <2>2, <2>3, <2>4, <2>5, <2>6
  <1>6. CASE Query(r)
    <2>1. [read[r] EXCEPT !.pc = "queried", !.seen = written] \in ReadState
      BY <1>1 DEF ReadState, Content, TypeOK
    <2>. QED BY <1>1, <1>2, <1>6, <2>1 DEF Query, TypeOK, ReadState
  <1>7. CASE IndexScopedCacheEntry(r)
    <2>1. read' = [read EXCEPT ![r] = [read[r] EXCEPT !.pc = "filed"]]
      BY <1>7 DEF IndexScopedCacheEntry
    <2>2. index' \in [Slice -> SUBSET Key]
      BY <1>1, <1>7 DEF IndexScopedCacheEntry, TypeOK
    <2>. QED BY <1>1, <1>2, <1>3, <1>7, <2>1, <2>2 DEF IndexScopedCacheEntry, TypeOK, ReadState
  <1>8. CASE IndexingFails(r)
    <2>1. index' \in [Slice -> SUBSET Key]
      BY <1>1, <1>8 DEF IndexingFails, TypeOK
    <2>. QED BY <1>2, <1>8, <2>1 DEF IndexingFails, TypeOK, ReadIdle
  <1>9. CASE SetCacheValue(r)
    <2>1. [seen |-> read[r].seen, guarded |-> read[r].guarded]
            \in [seen : Content, guarded : BOOLEAN]
      BY <1>1 DEF ReadState
    <2>2. entry' \in [Key -> [seen : Content, guarded : BOOLEAN] \cup {None}]
      BY <1>9, <2>1 DEF SetCacheValue, TypeOK
    <2>3. /\ read' = [read EXCEPT ![r] = [read[r] EXCEPT !.pc = "stored"]]
          /\ [read[r] EXCEPT !.pc = "stored"].key = read[r].key /\ read[r].key \in Key
          /\ UNCHANGED <<written, bumps, held, index, swept, purge, pending, reaps, expiries>>
      BY <1>1, <1>9 DEF SetCacheValue, ReadState
    <2>4. [read[r] EXCEPT !.pc = "stored"] \in ReadState
      BY <1>3
    <2>5. index' \in [Slice -> SUBSET Key] /\ pending' \subseteq Key
      BY <2>3 DEF TypeOK
    <2>. QED BY <1>2, <2>2, <2>3, <2>4, <2>5
  <1>10. CASE SweptDuringFill(r)
    <2>1. read[r].key \in Key /\ [read[r] EXCEPT !.pc = "evicting"].key = read[r].key
      BY <1>1, <1>10 DEF SweptDuringFill, ReadState
    <2>2. /\ UNCHANGED <<written, bumps, held, swept, purge, reaps, expiries>>
          /\ entry' \in [Key -> [seen : Content, guarded : BOOLEAN] \cup {None}]
          /\ index' \in [Slice -> SUBSET Key] /\ pending' \subseteq Key
      BY <1>10 DEF SweptDuringFill, TypeOK
    <2>3. CASE read' = [read EXCEPT ![r] = ReadIdle]
      BY <1>2, <2>2, <2>3 DEF ReadIdle
    <2>4. CASE read' = [read EXCEPT ![r].pc = "evicting"]
      BY <1>2, <1>3, <2>1, <2>2, <2>4
    <2>. QED BY <1>10, <2>3, <2>4 DEF SweptDuringFill
  <1>11. CASE DeleteEntry(r)
    <2>1. PICK swallowed \in BOOLEAN:
            /\ entry' = IF swallowed THEN entry ELSE [entry EXCEPT ![read[r].key] = None]
            /\ read' = [read EXCEPT ![r] = [read[r] EXCEPT !.pc = "probing",
                                                           !.swallowed = swallowed]]
      BY <1>11 DEF DeleteEntry
    <2>2. entry' \in [Key -> [seen : Content, guarded : BOOLEAN] \cup {None}]
      BY <2>1 DEF TypeOK
    <2>3. [read[r] EXCEPT !.pc = "probing", !.swallowed = swallowed] \in ReadState
      BY <1>1 DEF ReadState
    <2>. QED BY <1>1, <1>2, <1>11, <2>1, <2>2, <2>3 DEF DeleteEntry, TypeOK, ReadState
  <1>12. CASE CacheStoreDropsEntries(r)
    <2>1. read[r].key \in Key /\ [read[r] EXCEPT !.pc = "recording"].key = read[r].key
      BY <1>1, <1>12 DEF CacheStoreDropsEntries, ReadState
    <2>2. /\ UNCHANGED <<written, bumps, held, swept, purge, reaps, expiries>>
          /\ entry' \in [Key -> [seen : Content, guarded : BOOLEAN] \cup {None}]
          /\ index' \in [Slice -> SUBSET Key] /\ pending' \subseteq Key
      BY <1>12 DEF CacheStoreDropsEntries, TypeOK
    <2>3. CASE read' = [read EXCEPT ![r] = ReadIdle]
      BY <1>2, <2>2, <2>3 DEF ReadIdle
    <2>4. CASE read' = [read EXCEPT ![r].pc = "recording"]
      BY <1>2, <1>3, <2>1, <2>2, <2>4
    <2>. QED BY <1>12, <2>3, <2>4 DEF CacheStoreDropsEntries
  <1>13. CASE RecordPendingScopedCachePurge(r)
    <2>1. read[r].key \in Key
      BY <1>1, <1>13 DEF RecordPendingScopedCachePurge
    <2>. QED BY <1>2, <1>13, <2>1 DEF RecordPendingScopedCachePurge, TypeOK, ReadIdle
  <1>. QED BY <1>4, <1>5, <1>6, <1>7, <1>8, <1>9, <1>10, <1>11, <1>12, <1>13 DEF ReadNext

LEMMA PurgeTypes ==
  ASSUME TypeOK, NEW w \in Purger, PurgeNext(w)
  PROVE  TypeOK'
  <1>. USE IdleTypes
  <1>1. purge[w] \in PurgeState
    BY DEF TypeOK
  <1>2. ASSUME NEW state \in PurgeState,
               purge' = [purge EXCEPT ![w] = state],
               written' \in Content,
               UNCHANGED <<read, pending, reaps, expiries>>,
               bumps' \in [Counter -> Nat], held' \in [Counter -> BOOLEAN],
               entry' \in [Key -> [seen : Content, guarded : BOOLEAN] \cup {None}],
               index' \in [Slice -> SUBSET Key], swept' \in [SweptId -> SUBSET Key]
        PROVE  TypeOK'
    BY <1>2 DEF TypeOK
  <1>3. ASSUME NEW p \in {"collect", "drop", "prune", "release", "dropIndex", "rebump",
                         "done"} \cup AllModes
        PROVE  [purge[w] EXCEPT !.pc = p] \in PurgeState
    BY <1>1 DEF PurgeState
  <1>4. ASSUME NEW c \in Counter, TryBump(c)
        PROVE  bumps' \in [Counter -> Nat] /\ held' \in [Counter -> BOOLEAN]
    <2>1. CASE Bump(c)
      BY <2>1 DEF Bump, TypeOK
    <2>. QED BY <1>4, <2>1 DEF TryBump, TypeOK
  <1>5. ASSUME NEW found \in SUBSET Key
        PROVE  [purge[w] EXCEPT !.found = found, !.pc = "drop"] \in PurgeState
    BY <1>1 DEF PurgeState
  <1>6. ASSUME NEW s \in Slice, NEW mode \in Modes, Commit(w, s, mode) PROVE TypeOK'
    <2>1. mode \in AllModes
      BY PurgeAssumption DEF PurgeAssumption
    <2>2. PurgedSlices(mode, s) \in SUBSET Slice /\ PurgeCounter(mode, s) \in Counter
      BY <2>1, PurgedTypes
    <2>3. [PurgeIdle EXCEPT !.pc = "committed", !.mode = mode,
                            !.counter = PurgeCounter(mode, s),
                            !.slices = PurgedSlices(mode, s),
                            !.todo = PurgedSlices(mode, s)] \in PurgeState
      BY <2>1, <2>2 DEF PurgeState
    <2>4. written' \in Content
      BY <1>6 DEF Commit, TypeOK, Content
    <2>. QED BY <1>2, <1>6, <2>3, <2>4 DEF Commit, TypeOK
  <1>7. CASE BumpScopedCacheEpochs(w)
    <2>1. purge[w].counter \in Counter /\ purge[w].mode \in AllModes
      BY <1>1 DEF PurgeState
    <2>2. bumps' \in [Counter -> Nat] /\ held' \in [Counter -> BOOLEAN]
      BY <1>4, <1>7, <2>1 DEF BumpScopedCacheEpochs
    <2>. QED BY <1>2, <1>3, <1>7, <2>1, <2>2 DEF BumpScopedCacheEpochs, TypeOK
  <1>8. CASE ScanRowIndexedEntries(w)
    <2>. DEFINE found == UNION {index[s] : s \in purge[w].slices}
    <2>1. found \in SUBSET Key
      BY <1>1 DEF PurgeState, TypeOK
    <2>2. \/ purge' = [purge EXCEPT ![w] = PurgeDone]
          \/ purge' = [purge EXCEPT ![w] = [purge[w] EXCEPT !.found = found, !.pc = "drop"]]
      BY <1>8 DEF ScanRowIndexedEntries
    <2>. HIDE DEF found
    <2>. QED BY <1>2, <1>5, <1>8, <2>1, <2>2 DEF ScanRowIndexedEntries, TypeOK
  <1>9. CASE DropSweptScopedCacheEntries(w)
    <2>1. entry' \in [Key -> [seen : Content, guarded : BOOLEAN] \cup {None}]
      BY <1>9 DEF DropSweptScopedCacheEntries, TypeOK
    <2>. QED BY <1>2, <1>3, <1>9, <2>1 DEF DropSweptScopedCacheEntries, TypeOK
  <1>10. CASE RemoveIndexedEntries(w)
    <2>1. index' \in [Slice -> SUBSET Key]
      BY <1>10 DEF RemoveIndexedEntries, TypeOK
    <2>. QED BY <1>2, <1>10, <2>1 DEF RemoveIndexedEntries, TypeOK
  <1>11. CASE TakeSweptIndexKeys(w)
    <2>1. PICK sets \in SUBSET SweptId:
            purge' = [purge EXCEPT ![w] = [purge[w] EXCEPT !.pc = "collect", !.sets = sets,
                                                           !.unread = sets]]
      BY <1>11 DEF TakeSweptIndexKeys
    <2>2. [purge[w] EXCEPT !.pc = "collect", !.sets = sets, !.unread = sets] \in PurgeState
      BY <1>1 DEF PurgeState
    <2>. QED BY <1>2, <1>11, <2>1, <2>2 DEF TakeSweptIndexKeys, TypeOK
  <1>12. ASSUME NEW s \in Slice, MoveIndexKey(w, s) PROVE TypeOK'
    <2>. DEFINE state == [purge[w] EXCEPT !.todo = @ \ {s}, !.unread = {<<w, s>>},
                                          !.sets = @ \cup {<<w, s>>}]
    <2>1. <<w, s>> \in SweptId
      BY DEF SweptId
    <2>2. state \in PurgeState
      BY <1>1, <2>1 DEF PurgeState
    <2>3. swept' \in [SweptId -> SUBSET Key] /\ index' \in [Slice -> SUBSET Key]
      BY <1>12, <2>1 DEF MoveIndexKey, TypeOK
    <2>4. purge' = [purge EXCEPT ![w] = state]
      BY <1>12 DEF MoveIndexKey
    <2>. HIDE DEF state
    <2>. QED BY <1>2, <1>12, <2>2, <2>3, <2>4 DEF MoveIndexKey, TypeOK
  <1>13. ASSUME NEW id \in SweptId, CollectSweptIndexKeys(w, id) PROVE TypeOK'
    <2>1. [purge[w] EXCEPT !.unread = @ \ {id}, !.found = @ \cup swept[id]] \in PurgeState
      BY <1>1 DEF PurgeState, TypeOK
    <2>. QED BY <1>2, <1>13, <2>1 DEF CollectSweptIndexKeys, TypeOK
  <1>14. CASE CollectDone(w)
    BY <1>2, <1>3, <1>14 DEF CollectDone, TypeOK
  <1>15. CASE ReleaseSweptIndexKeys(w)
    <2>1. swept' \in [SweptId -> SUBSET Key]
      BY <1>15 DEF ReleaseSweptIndexKeys, TypeOK
    <2>. QED BY <1>2, <1>15, <2>1 DEF ReleaseSweptIndexKeys, TypeOK
  <1>16. CASE DieAfterMove(w)
    BY <1>2, <1>16 DEF DieAfterMove, TypeOK
  <1>17. CASE ClearResponseCache(w)
    BY <1>2, <1>3, <1>17 DEF ClearResponseCache, TypeOK
  <1>18. ASSUME NEW s \in Slice, DropIndex(w, s) PROVE TypeOK'
    <2>1. [purge[w] EXCEPT !.todo = @ \ {s}] \in PurgeState
      BY <1>1 DEF PurgeState
    <2>2. swept' \in [SweptId -> SUBSET Key] /\ index' \in [Slice -> SUBSET Key]
      BY <1>18 DEF DropIndex, TypeOK
    <2>. QED BY <1>2, <1>18, <2>1, <2>2 DEF DropIndex, TypeOK
  <1>19. CASE DropScopedCacheIndexDone(w)
    <2>1. bumps' \in [Counter -> Nat] /\ held' \in [Counter -> BOOLEAN]
      BY <1>4, <1>19 DEF DropScopedCacheIndexDone, Counter
    <2>. QED BY <1>2, <1>19, <2>1 DEF DropScopedCacheIndexDone, TypeOK
  <1>20. CASE FlushCacheRedisDatabase(w)
    <2>1. /\ entry' \in [Key -> [seen : Content, guarded : BOOLEAN] \cup {None}]
          /\ index' \in [Slice -> SUBSET Key] /\ swept' \in [SweptId -> SUBSET Key]
          /\ written' \in Content /\ UNCHANGED <<read, pending, reaps, expiries>>
      BY <1>20 DEF FlushCacheRedisDatabase, TypeOK
    <2>3. bumps' \in [Counter -> Nat]
      BY <1>20 DEF FlushCacheRedisDatabase, TypeOK
    <2>4. held' \in [Counter -> BOOLEAN]
      <3>1. [c \in Counter |-> c = Star] \in [Counter -> BOOLEAN]
            /\ [c \in Counter |-> FALSE] \in [Counter -> BOOLEAN]
        OBVIOUS
      <3>. QED BY <1>20, <3>1 DEF FlushCacheRedisDatabase
    <2>2. \/ purge' = [purge EXCEPT ![w] = PurgeDone]
          \/ purge' = [purge EXCEPT ![w] = [purge[w] EXCEPT !.pc = "rebump"]]
      BY <1>20 DEF FlushCacheRedisDatabase
    <2>. QED BY <1>2, <1>3, <2>1, <2>2, <2>3, <2>4
  <1>21. CASE BumpAfterFlush(w)
    <2>1. bumps' \in [Counter -> Nat] /\ held' \in [Counter -> BOOLEAN]
      BY <1>4, <1>21 DEF BumpAfterFlush, Counter
    <2>. QED BY <1>2, <1>21, <2>1 DEF BumpAfterFlush, TypeOK
  <1>22. CASE FlushRefused(w)
    BY <1>2, <1>3, <1>22 DEF FlushRefused, TypeOK, AllModes
  <1>. QED BY <1>6, <1>7, <1>8, <1>9, <1>10, <1>11, <1>12, <1>13, <1>14, <1>15, <1>16,
              <1>17, <1>18, <1>19, <1>20, <1>21, <1>22 DEF PurgeNext

LEMMA StoreTypes ==
  ASSUME TypeOK, StoreNext
  PROVE  TypeOK'
  <1>1. ASSUME NEW s \in Slice, NEW k \in Key, ReapIndexMember(s, k) PROVE TypeOK'
    <2>1. CollOf[s] \in Counter
      BY SliceAssumption DEF SliceAssumption, Counter
    <2>. QED BY <1>1, <2>1 DEF ReapIndexMember, Bump, TypeOK
  <1>2. ASSUME NEW k \in Key, ExpireEntry(k) PROVE TypeOK'
    BY <1>2 DEF ExpireEntry, TypeOK
  <1>3. ASSUME NEW c \in Counter, ExpireEpoch(c) PROVE TypeOK'
    BY <1>3 DEF ExpireEpoch, TypeOK
  <1>. QED BY <1>1, <1>2, <1>3 DEF StoreNext

LEMMA InitTypes == Init => TypeOK
  <1>. SUFFICES ASSUME Init PROVE TypeOK
    OBVIOUS
  <1>1. read \in [Read -> ReadState] /\ purge \in [Purger -> PurgeState]
    BY IdleTypes DEF Init
  <1>2. \A r \in Read: read[r].pc = "idle"
    BY DEF Init, ReadIdle
  <1>. QED BY <1>1, <1>2 DEF Init, TypeOK, Content

LEMMA StepTypes == TypeOK /\ [Next]_vars => TypeOK'
  <1>. SUFFICES ASSUME TypeOK, [Next]_vars PROVE TypeOK'
    OBVIOUS
  <1>1. CASE UNCHANGED vars
    BY <1>1 DEF vars, TypeOK
  <1>. QED BY <1>1, ReadTypes, PurgeTypes, StoreTypes DEF Next

(* Whatever the reads, purges, recoveries, reaps and expiries do, the cache,  *)
(* its index, the counters and the processes keep their types, and no fill    *)
(* in flight is without the key it fills.                                     *)
THEOREM TypeCorrect == Spec => []TypeOK
  BY InitTypes, StepTypes, PTL DEF Spec

-----------------------------------------------------------------------------
(* What a step does to the counters: it leaves them alone, moves one, lets    *)
(* one expire, or flushes them without moving the wholesale one.              *)

CountersStep ==
  \/ UNCHANGED <<bumps, held>>
  \/ \E c \in Counter: bumps' = [bumps EXCEPT ![c] = @ + 1] /\ held'[c]
  \/ \E c \in Counter: ExpireEpoch(c)
  \/ FlushedUnmoved /\ bumps' = bumps /\ \A k \in Key: entry'[k] = None

LEMMA BumpCounters ==
  ASSUME TypeOK, NEW c \in Counter, TryBump(c)
  PROVE  CountersStep
  <1>1. CASE Bump(c)
    <2>1. held'[c]
      BY <1>1 DEF Bump, TypeOK
    <2>. QED BY <1>1, <2>1 DEF Bump, CountersStep
  <1>. QED BY <1>1 DEF TryBump, CountersStep

LEMMA PurgeCounters ==
  ASSUME TypeOK, NEW w \in Purger, PurgeNext(w)
  PROVE  CountersStep /\ UNCHANGED <<read, pending>>
  <1>1. /\ Star \in Counter /\ purge[w].counter \in Counter /\ purge[w] \in PurgeState
        /\ purge \in [Purger -> PurgeState]
    BY DEF TypeOK, Counter, PurgeState
  <1>2. CASE BumpScopedCacheEpochs(w)
    BY <1>1, <1>2, BumpCounters DEF BumpScopedCacheEpochs
  <1>3. CASE DropScopedCacheIndexDone(w) \/ BumpAfterFlush(w)
    BY <1>1, <1>3, BumpCounters DEF DropScopedCacheIndexDone, BumpAfterFlush
  <1>4. CASE FlushCacheRedisDatabase(w)
    <2>1. CASE bumps' = [bumps EXCEPT ![Star] = @ + 1] /\ held' = [c \in Counter |-> c = Star]
      <3>1. held'[Star]
        BY <1>1, <2>1
      <3>. QED BY <1>1, <1>4, <2>1, <3>1 DEF FlushCacheRedisDatabase, CountersStep
    <2>2. CASE purge' = [purge EXCEPT ![w].pc = "rebump"] /\ UNCHANGED bumps
      <3>1. purge[w].pc = "flushdb" /\ purge'[w].pc = "rebump"
        BY <1>1, <1>4, <2>2 DEF FlushCacheRedisDatabase, PurgeState
      <3>2. FlushedUnmoved
        BY <3>1 DEF FlushedUnmoved
      <3>3. \A k \in Key: entry'[k] = None
        BY <1>4 DEF FlushCacheRedisDatabase
      <3>. QED BY <1>4, <2>2, <3>2, <3>3 DEF FlushCacheRedisDatabase, CountersStep
    <2>. QED BY <1>4, <2>1, <2>2 DEF FlushCacheRedisDatabase
  <1>. QED BY <1>2, <1>3, <1>4 DEF PurgeNext, Commit, BumpScopedCacheEpochs,
       DropScopedCacheIndexDone, BumpAfterFlush, ScanRowIndexedEntries, CountersStep,
       DropSweptScopedCacheEntries, RemoveIndexedEntries, TakeSweptIndexKeys, CollectDone,
       MoveIndexKey, DropIndex, CollectSweptIndexKeys, ReleaseSweptIndexKeys, DieAfterMove,
       ClearResponseCache, FlushRefused

LEMMA StoreCounters ==
  ASSUME TypeOK, StoreNext
  PROVE  CountersStep /\ UNCHANGED <<written, read, pending, purge, swept>>
  <1>1. ASSUME NEW s \in Slice, NEW k \in Key, ReapIndexMember(s, k) PROVE CountersStep
    <2>1. CollOf[s] \in Counter
      BY SliceAssumption DEF SliceAssumption, Counter
    <2>. QED BY <1>1, <2>1, BumpCounters DEF ReapIndexMember, TryBump
  <1>2. CountersStep
    BY <1>1 DEF StoreNext, ExpireEntry, CountersStep
  <1>. QED BY <1>2 DEF StoreNext, ReapIndexMember, ExpireEntry, ExpireEpoch

(* What a step of a read does to it: it ends or starts a fill with no reading, *)
(* takes a reading, queries, or goes on with what it took and saw.             *)
SameReading(q) == read'[q].guarded = read[q].guarded /\ read'[q].epochs = read[q].epochs

LEMMA ReadStep ==
  ASSUME TypeOK, NEW q \in Read, ReadNext(q)
  PROVE  /\ UNCHANGED <<written, bumps, held, purge>>
         /\ \A r \in Read \ {q}: read'[r] = read[r]
         /\ \/ ~read'[q].guarded
            \/ /\ read'[q].pc \notin Filling
               /\ SameReading(q) \/ read'[q].epochs = [c \in Counter |-> Epoch(c)]
            \/ SameReading(q) /\ read'[q].seen = written
            \/ /\ SameReading(q) /\ read[q].pc \in Filling
               /\ read'[q].seen = read[q].seen /\ read'[q].key = read[q].key
  <1>. DEFINE Goal == \/ ~read'[q].guarded
                      \/ /\ read'[q].pc \notin Filling
                         /\ SameReading(q) \/ read'[q].epochs = [c \in Counter |-> Epoch(c)]
                      \/ SameReading(q) /\ read'[q].seen = written
                      \/ /\ SameReading(q) /\ read[q].pc \in Filling
                         /\ read'[q].seen = read[q].seen /\ read'[q].key = read[q].key
  <1>1. read[q] \in ReadState /\ read \in [Read -> ReadState]
    BY DEF TypeOK
  <1>2. UNCHANGED <<written, bumps, held, purge>>
    BY DEF ReadNext, Lookup, ReadScopedCacheEpochs, Query, IndexScopedCacheEntry,
           IndexingFails, SetCacheValue, SweptDuringFill, DeleteEntry,
           CacheStoreDropsEntries, RecordPendingScopedCachePurge
  <1>3. \A r \in Read \ {q}: read'[r] = read[r]
    BY <1>1 DEF ReadNext, Lookup, ReadScopedCacheEpochs, Query, IndexScopedCacheEntry,
           IndexingFails, SetCacheValue, SweptDuringFill, DeleteEntry,
           CacheStoreDropsEntries, RecordPendingScopedCachePurge
  <1>4. ASSUME read' = [read EXCEPT ![q] = ReadIdle] PROVE Goal
    BY <1>1, <1>4 DEF ReadIdle
  <1>5. ASSUME NEW k \in Key, Lookup(q, k) PROVE Goal
    <2>1. read'[q] = [ReadIdle EXCEPT !.pc = "missed", !.key = k]
      BY <1>1, <1>5 DEF Lookup
    <2>. QED BY <2>1 DEF ReadIdle
  <1>6. ASSUME ReadScopedCacheEpochs(q) PROVE Goal
    <2>1. CASE read'[q] = [read[q] EXCEPT !.pc = "guarded"]
      BY <1>1, <2>1 DEF ReadState, SameReading, Filling
    <2>2. CASE read'[q] = [read[q] EXCEPT !.pc = "guarded", !.guarded = TRUE,
                                          !.epochs = [c \in Counter |-> Epoch(c)]]
      BY <1>1, <2>2 DEF ReadState, Filling
    <2>. QED BY <1>1, <1>6, <2>1, <2>2 DEF ReadScopedCacheEpochs
  <1>7. ASSUME Query(q) PROVE Goal
    <2>1. read'[q] = [read[q] EXCEPT !.pc = "queried", !.seen = written]
      BY <1>1, <1>7 DEF Query
    <2>. QED BY <1>1, <2>1 DEF ReadState, SameReading
  <1>8. ASSUME IndexScopedCacheEntry(q) PROVE Goal
    <2>1. read'[q] = [read[q] EXCEPT !.pc = "filed"] /\ read[q].pc = "queried"
      BY <1>1, <1>8 DEF IndexScopedCacheEntry
    <2>. QED BY <1>1, <2>1 DEF ReadState, SameReading, Filling
  <1>9. ASSUME IndexingFails(q) PROVE Goal
    BY <1>4, <1>9 DEF IndexingFails
  <1>10. ASSUME SetCacheValue(q) PROVE Goal
    <2>1. read'[q] = [read[q] EXCEPT !.pc = "stored"] /\ read[q].pc = "filed"
      BY <1>1, <1>10 DEF SetCacheValue
    <2>. QED BY <1>1, <2>1 DEF ReadState, SameReading, Filling
  <1>11. ASSUME SweptDuringFill(q) PROVE Goal
    <2>1. CASE read' = [read EXCEPT ![q].pc = "evicting"]
      <3>1. read'[q] = [read[q] EXCEPT !.pc = "evicting"]
        BY <1>1, <2>1
      <3>. QED BY <1>1, <3>1 DEF ReadState, SameReading, Filling
    <2>. QED BY <1>4, <1>11, <2>1 DEF SweptDuringFill
  <1>12. ASSUME DeleteEntry(q) PROVE Goal
    <2>1. PICK swallowed \in BOOLEAN:
            read'[q] = [read[q] EXCEPT !.pc = "probing", !.swallowed = swallowed]
      BY <1>1, <1>12 DEF DeleteEntry
    <2>. QED BY <1>1, <2>1 DEF ReadState, SameReading, Filling
  <1>13. ASSUME CacheStoreDropsEntries(q) PROVE Goal
    <2>1. CASE read' = [read EXCEPT ![q].pc = "recording"]
      <3>1. read'[q] = [read[q] EXCEPT !.pc = "recording"]
        BY <1>1, <2>1
      <3>. QED BY <1>1, <3>1 DEF ReadState, SameReading, Filling
    <2>. QED BY <1>4, <1>13, <2>1 DEF CacheStoreDropsEntries
  <1>14. ASSUME RecordPendingScopedCachePurge(q) PROVE Goal
    BY <1>4, <1>14 DEF RecordPendingScopedCachePurge
  <1>15. Goal
    BY <1>5, <1>6, <1>7, <1>8, <1>9, <1>10, <1>11, <1>12, <1>13, <1>14 DEF ReadNext
  <1>. QED BY <1>2, <1>3, <1>15

(* A step of a read leaves the counters alone, and only it moves a read on.   *)
LEMMA StepCounters ==
  ASSUME TypeOK, [Next]_vars
  PROVE  CountersStep /\ (UNCHANGED <<bumps, held>> \/ read' = read)
  <1>1. ASSUME NEW q \in Read, ReadNext(q) PROVE UNCHANGED <<bumps, held>>
    BY <1>1, ReadStep
  <1>2. CASE UNCHANGED vars
    BY <1>2 DEF vars, CountersStep
  <1>. QED BY <1>1, <1>2, PurgeCounters, StoreCounters DEF Next, CountersStep

(* A fill whose query has run goes on with what it saw and took.              *)
LEMMA StepReads ==
  ASSUME TypeOK, [Next]_vars, NEW r \in Read, read'[r].guarded, read'[r].pc \in Filling
  PROVE  /\ SameReading(r)
         /\ \/ read'[r].seen = written
            \/ /\ read[r].pc \in Filling
               /\ read'[r].seen = read[r].seen /\ read'[r].key = read[r].key
  <1>1. CASE read'[r] = read[r]
    BY <1>1 DEF SameReading
  <1>2. ASSUME NEW q \in Read, ReadNext(q)
        PROVE  read'[r] = read[r] \/ q = r
    BY <1>2, ReadStep
  <1>3. CASE ReadNext(r)
    BY <1>3, ReadStep
  <1>4. CASE UNCHANGED vars
    BY <1>1, <1>4 DEF vars
  <1>. QED BY <1>1, <1>2, <1>3, <1>4, PurgeCounters, StoreCounters DEF Next

-----------------------------------------------------------------------------
(* What a step does to the purges: one of them goes on, towards its end.      *)

LEMMA PurgeGoesOn ==
  ASSUME TypeOK, NEW w \in Purger, PurgeNext(w)
  PROVE  /\ \A v \in Purger \ {w}: purge'[v] = purge[v]
         /\ purge'[w].pc # "idle"
         /\ purge'[w].pc = "committed" => purge[w].pc = "idle"
  <1>1. purge[w] \in PurgeState /\ purge \in [Purger -> PurgeState]
    BY DEF TypeOK
  <1>. DEFINE Goal == /\ \A v \in Purger \ {w}: purge'[v] = purge[v]
                      /\ purge'[w].pc # "idle"
                      /\ purge'[w].pc = "committed" => purge[w].pc = "idle"
  <1>2. ASSUME NEW state, purge' = [purge EXCEPT ![w] = state], state.pc # "idle",
               state.pc = "committed" => purge[w].pc = "idle"
        PROVE  Goal
    BY <1>1, <1>2
  <1>3. ASSUME NEW p, purge' = [purge EXCEPT ![w].pc = p], p \notin {"idle", "committed"}
        PROVE  Goal
    <2>1. [purge[w] EXCEPT !.pc = p].pc = p
      BY <1>1 DEF PurgeState
    <2>. QED BY <1>2, <1>3, <2>1
  <1>4. ASSUME purge' = [purge EXCEPT ![w] = PurgeDone] PROVE Goal
    <2>1. PurgeDone.pc = "done"
      BY DEF PurgeDone, PurgeIdle
    <2>. QED BY <1>2, <1>4, <2>1
  <1>5. ASSUME NEW s \in Slice, NEW mode \in Modes, Commit(w, s, mode) PROVE Goal
    <2>. DEFINE state == [PurgeIdle EXCEPT !.pc = "committed", !.mode = mode,
                                           !.counter = PurgeCounter(mode, s),
                                           !.slices = PurgedSlices(mode, s),
                                           !.todo = PurgedSlices(mode, s)]
    <2>1. state.pc = "committed"
      BY DEF PurgeIdle
    <2>2. purge' = [purge EXCEPT ![w] = state] /\ purge[w].pc = "idle"
      BY <1>5 DEF Commit
    <2>. HIDE DEF state
    <2>. QED BY <1>2, <2>1, <2>2
  <1>6. ASSUME BumpScopedCacheEpochs(w) PROVE Goal
    <2>1. purge[w].mode \notin {"idle", "committed"}
      BY <1>1 DEF PurgeState, AllModes
    <2>. QED BY <1>3, <1>6, <2>1 DEF BumpScopedCacheEpochs
  <1>7. ASSUME ScanRowIndexedEntries(w) PROVE Goal
    <2>. DEFINE found == UNION {index[s] : s \in purge[w].slices}
    <2>1. [purge[w] EXCEPT !.found = found, !.pc = "drop"].pc = "drop"
      BY <1>1 DEF PurgeState
    <2>2. purge' = [purge EXCEPT ![w] = IF found = {} THEN PurgeDone
                                        ELSE [purge[w] EXCEPT !.found = found, !.pc = "drop"]]
      BY <1>7 DEF ScanRowIndexedEntries
    <2>. HIDE DEF found
    <2>. QED BY <1>2, <1>4, <2>1, <2>2
  <1>8. ASSUME DropSweptScopedCacheEntries(w) PROVE Goal
    BY <1>3, <1>8 DEF DropSweptScopedCacheEntries
  <1>9. ASSUME TakeSweptIndexKeys(w) PROVE Goal
    <2>1. PICK sets:
            purge' = [purge EXCEPT ![w] = [purge[w] EXCEPT !.pc = "collect", !.sets = sets,
                                                           !.unread = sets]]
      BY <1>9 DEF TakeSweptIndexKeys
    <2>2. [purge[w] EXCEPT !.pc = "collect", !.sets = sets, !.unread = sets].pc = "collect"
      BY <1>1 DEF PurgeState
    <2>. QED BY <1>2, <2>1, <2>2
  <1>10. ASSUME NEW s \in Slice, MoveIndexKey(w, s) PROVE Goal
    <2>. DEFINE state == [purge[w] EXCEPT !.todo = @ \ {s}, !.unread = {<<w, s>>},
                                          !.sets = @ \cup {<<w, s>>}]
    <2>1. state.pc = "collect"
      BY <1>1, <1>10 DEF MoveIndexKey, PurgeState
    <2>2. purge' = [purge EXCEPT ![w] = state]
      BY <1>10 DEF MoveIndexKey
    <2>. HIDE DEF state
    <2>. QED BY <1>2, <2>1, <2>2
  <1>11. ASSUME NEW id \in SweptId, CollectSweptIndexKeys(w, id) PROVE Goal
    <2>1. [purge[w] EXCEPT !.unread = @ \ {id}, !.found = @ \cup swept[id]].pc = "collect"
      BY <1>1, <1>11 DEF CollectSweptIndexKeys, PurgeState
    <2>. QED BY <1>2, <1>11, <2>1 DEF CollectSweptIndexKeys
  <1>12. ASSUME NEW s \in Slice, DropIndex(w, s) PROVE Goal
    <2>1. [purge[w] EXCEPT !.todo = @ \ {s}].pc = "dropIndex"
      BY <1>1, <1>12 DEF DropIndex, PurgeState
    <2>. QED BY <1>2, <1>12, <2>1 DEF DropIndex
  <1>13. ASSUME CollectDone(w) \/ ClearResponseCache(w) \/ FlushRefused(w) PROVE Goal
    BY <1>3, <1>13 DEF CollectDone, ClearResponseCache, FlushRefused
  <1>14. ASSUME \/ RemoveIndexedEntries(w) \/ ReleaseSweptIndexKeys(w) \/ DieAfterMove(w)
                \/ DropScopedCacheIndexDone(w) \/ BumpAfterFlush(w)
         PROVE  Goal
    BY <1>4, <1>14 DEF RemoveIndexedEntries, ReleaseSweptIndexKeys, DieAfterMove,
       DropScopedCacheIndexDone, BumpAfterFlush
  <1>15. ASSUME FlushCacheRedisDatabase(w) PROVE Goal
    BY <1>3, <1>4, <1>15 DEF FlushCacheRedisDatabase
  <1>16. Goal
    BY <1>5, <1>6, <1>7, <1>8, <1>9, <1>10, <1>11, <1>12, <1>13, <1>14, <1>15 DEF PurgeNext
  <1>. QED BY <1>16

LEMMA StepPurges ==
  ASSUME TypeOK, [Next]_vars
  PROVE  /\ purge' = purge \/ \E w \in Purger: PurgeNext(w)
         /\ \A u, v \in Purger: purge'[u] # purge[u] /\ purge'[v] # purge[v] => u = v
         /\ \A w \in Purger:
              purge'[w] # purge[w] =>
                purge'[w].pc # "idle" /\ (purge'[w].pc = "committed" => purge[w].pc = "idle")
  <1>1. purge' = purge \/ \E w \in Purger: PurgeNext(w)
    <2>1. ASSUME NEW q \in Read, ReadNext(q) PROVE purge' = purge
      BY <2>1, ReadStep
    <2>. QED BY <2>1, StoreCounters DEF Next, vars
  <1>. QED BY <1>1, PurgeGoesOn

(* What a step commits is a mutation whose purge has yet to begin.            *)
LEMMA StepCommits ==
  ASSUME TypeOK, [Next]_vars, NEW s \in Slice, NEW w \in written'[s], w \notin written[s]
  PROVE  /\ w \in Mutation /\ purge[w].pc = "idle"
         /\ purge'[w].pc = "committed" /\ s \in purge'[w].slices
  <1>1. ASSUME NEW v \in Purger, NEW s0 \in Slice, NEW mode \in Modes, Commit(v, s0, mode)
        PROVE  /\ w \in Mutation /\ purge[w].pc = "idle"
               /\ purge'[w].pc = "committed" /\ s \in purge'[w].slices
    <2>. DEFINE state == [PurgeIdle EXCEPT !.pc = "committed", !.mode = mode,
                                           !.counter = PurgeCounter(mode, s0),
                                           !.slices = PurgedSlices(mode, s0),
                                           !.todo = PurgedSlices(mode, s0)]
    <2>1. state.pc = "committed" /\ s0 \in state.slices
      <3>1. mode \in AllModes
        BY PurgeAssumption DEF PurgeAssumption
      <3>. QED BY <3>1, PurgedTypes DEF PurgeIdle
    <2>2. purge'[v] = state /\ v \in Mutation /\ purge[v].pc = "idle"
          /\ written' = [written EXCEPT ![s0] = @ \cup {v}]
      BY <1>1 DEF Commit, TypeOK
    <2>. HIDE DEF state
    <2>3. s = s0 /\ w = v
      BY <2>2 DEF TypeOK, Content
    <2>. QED BY <2>1, <2>2, <2>3
  <1>2. \/ written' = written
        \/ \E v \in Purger, s0 \in Slice, mode \in Modes: Commit(v, s0, mode)
    <2>1. ASSUME NEW q \in Read, ReadNext(q) PROVE written' = written
      BY <2>1, ReadStep
    <2>2. ASSUME NEW v \in Purger, PurgeNext(v)
          PROVE  \/ written' = written
                 \/ \E s0 \in Slice, mode \in Modes: Commit(v, s0, mode)
      BY <2>2 DEF PurgeNext, BumpScopedCacheEpochs, ScanRowIndexedEntries,
         DropSweptScopedCacheEntries, RemoveIndexedEntries, TakeSweptIndexKeys, CollectDone,
         MoveIndexKey, DropIndex, CollectSweptIndexKeys, ReleaseSweptIndexKeys, DieAfterMove,
         ClearResponseCache, DropScopedCacheIndexDone, FlushCacheRedisDatabase,
         BumpAfterFlush, FlushRefused
    <2>3. StoreNext => written' = written
      BY StoreCounters
    <2>4. CASE UNCHANGED vars
      BY <2>4 DEF vars
    <2>. QED BY <2>1, <2>2, <2>3, <2>4 DEF Next
  <1>. QED BY <1>1, <1>2

-----------------------------------------------------------------------------
(* The fill guard. A reading can tell that a counter moved because it never   *)
(* exceeds the count, and because a count that is held is not the 0 that a    *)
(* missing one reads as.                                                      *)

CountersStarted == \A c \in Counter: bumps[c] >= 1

ReadingsPrecede ==
  \A r \in Read: read[r].guarded => \A c \in Counter: read[r].epochs[c] <= bumps[c]

(* What has committed has its purge begun or on its way, and the counters     *)
(* that are forgotten are those of purges that have begun.                    *)
WrittenPurged ==
  \A s \in Slice: \A w \in written[s]:
    purge[w].pc # "idle" /\ (purge[w].pc = "committed" => s \in purge[w].slices)

ForgottenBegun == forgotten \subseteq Begun

GuardInv == /\ TypeOK /\ CountersStarted /\ ReadingsPrecede
            /\ WrittenPurged /\ ForgottenBegun /\ GuardCatchesEveryPurge

(* A bump is seen by every reading taken before it. *)
LEMMA BumpMovesReadings ==
  ASSUME GuardInv, NEW c \in Counter, bumps' = [bumps EXCEPT ![c] = @ + 1], held'[c],
         UNCHANGED read,
         NEW r \in Read, read[r].guarded
  PROVE  Moved(r)'
  <1>1. read[r].epochs[c] \in Nat /\ bumps[c] \in Nat /\ read[r].epochs[c] <= bumps[c]
    BY DEF GuardInv, TypeOK, ReadState, ReadingsPrecede
  <1>2. Epoch(c)' = bumps[c] + 1
    BY DEF Epoch, GuardInv, TypeOK
  <1>3. read'[r].epochs[c] # Epoch(c)'
    BY <1>1, <1>2
  <1>. QED BY <1>3 DEF Moved

(* So is the expiry of a counter no read in flight has outlived. *)
LEMMA ExpiryMovesReadings ==
  ASSUME GuardInv, NEW c \in Counter, ExpireEpoch(c), NEW r \in Read, read[r].guarded
  PROVE  Moved(r)'
  <1>1. read[r].epochs[c] = bumps[c]
    BY DEF ExpireEpoch, NoReadOutlives, Epoch
  <1>2. bumps[c] >= 1 /\ bumps[c] \in Nat
    BY DEF GuardInv, TypeOK, CountersStarted
  <1>3. Epoch(c)' = 0 /\ read' = read
    BY DEF ExpireEpoch, Epoch, GuardInv, TypeOK
  <1>4. read'[r].epochs[c] # Epoch(c)'
    BY <1>1, <1>2, <1>3
  <1>. QED BY <1>4 DEF Moved

(* Counters only go up, so a reading stays below them.                        *)
LEMMA StepReadings ==
  ASSUME GuardInv, [Next]_vars
  PROVE  CountersStarted' /\ ReadingsPrecede'
  <1>1. TypeOK
    BY DEF GuardInv
  <1>2. \A c \in Counter: bumps[c] \in Nat /\ bumps'[c] \in Nat /\ bumps'[c] >= bumps[c]
    <2>1. CASE \E c \in Counter: bumps' = [bumps EXCEPT ![c] = @ + 1]
      BY <1>1, <2>1 DEF TypeOK
    <2>2. CASE bumps' = bumps
      BY <1>1, <2>2 DEF TypeOK
    <2>. QED BY <1>1, <2>1, <2>2, StepCounters DEF CountersStep, ExpireEpoch
  <1>3. CountersStarted'
    <2>1. ASSUME NEW c \in Counter PROVE bumps'[c] >= 1
      <3>1. bumps[c] >= 1 /\ bumps[c] \in Nat /\ bumps'[c] \in Nat /\ bumps'[c] >= bumps[c]
        BY <1>2 DEF GuardInv, CountersStarted
      <3>. QED BY <3>1
    <2>. QED BY <2>1 DEF CountersStarted
  <1>4. ASSUME NEW r \in Read, read'[r].guarded, NEW c \in Counter
        PROVE  read'[r].epochs[c] <= bumps'[c]
    <2>1. CASE SameReading(r)
      <3>1. /\ read[r].epochs[c] \in Nat /\ bumps[c] \in Nat /\ bumps'[c] \in Nat
            /\ read[r].epochs[c] <= bumps[c] /\ bumps'[c] >= bumps[c]
        BY <1>1, <1>2, <1>4, <2>1 DEF GuardInv, ReadingsPrecede, SameReading, TypeOK, ReadState
      <3>2. read[r].epochs[c] <= bumps'[c]
        BY <3>1
      <3>. QED BY <2>1, <3>2 DEF SameReading
    <2>2. CASE read' = read
      BY <2>1, <2>2 DEF SameReading
    <2>3. ASSUME NEW q \in Read, ReadNext(q) PROVE read'[r].epochs[c] <= bumps'[c]
      <3>1. UNCHANGED <<bumps, held>> /\ (r # q => read'[r] = read[r])
        BY <1>1, <2>3, ReadStep
      <3>2. CASE read'[r].epochs = [d \in Counter |-> Epoch(d)]
        <4>1. bumps[c] \in Nat /\ bumps'[c] = bumps[c]
          BY <1>2, <3>1
        <4>. QED BY <3>2, <4>1 DEF Epoch
      <3>. QED BY <1>1, <1>4, <2>1, <2>3, <3>1, <3>2, ReadStep DEF SameReading
    <2>4. CASE UNCHANGED vars
      BY <2>2, <2>4 DEF vars
    <2>. QED BY <1>1, <2>2, <2>3, <2>4, PurgeCounters, StoreCounters DEF Next
  <1>. QED BY <1>3, <1>4 DEF ReadingsPrecede

LEMMA StepPurged ==
  ASSUME GuardInv, [Next]_vars
  PROVE  WrittenPurged' /\ Begun \subseteq Begun'
  <1>1. TypeOK
    BY DEF GuardInv
  <1>2. ASSUME NEW s \in Slice, NEW w \in written'[s]
        PROVE  purge'[w].pc # "idle" /\ (purge'[w].pc = "committed" => s \in purge'[w].slices)
    <2>1. CASE w \in written[s]
      <3>1. /\ w \in Purger /\ purge[w].pc # "idle"
            /\ purge[w].pc = "committed" => s \in purge[w].slices
        BY <1>1, <2>1 DEF GuardInv, WrittenPurged, TypeOK, Content, Purger
      <3>. QED BY <1>1, <3>1, StepPurges
    <2>2. CASE w \notin written[s]
      BY <1>1, <1>2, <2>2, StepCommits
    <2>. QED BY <2>1, <2>2
  <1>3. ASSUME NEW w \in Begun PROVE w \in Begun'
    <2>1. w \in Mutation /\ w \in Purger /\ purge[w].pc \notin {"idle", "committed"}
      BY DEF Begun, Purger
    <2>2. purge'[w].pc \notin {"idle", "committed"}
      BY <1>1, <2>1, StepPurges
    <2>. QED BY <2>1, <2>2 DEF Begun
  <1>. QED BY <1>2, <1>3 DEF WrittenPurged

(* The history remembers, for a fill in flight, the purges it was not told of *)
(* in this step, and when a flush moves no counter, those it may not compare. *)
LEMMA GuardKept ==
  ASSUME GuardInv, HistoryNext
  PROVE  GuardCatchesEveryPurge'
  <1>1. TypeOK /\ TypeOK' /\ [Next]_vars
    BY StepTypes DEF GuardInv, HistoryNext
  <1>2. SUFFICES ASSUME NEW r \in Read, read'[r].guarded, read'[r].pc \in Filling,
                        NEW s \in FiledIn[read'[r].key], NEW w \in written'[s],
                        w \notin read'[r].seen[s], w \notin forgotten', w \notin lost'[r],
                        ~Moved(r)'
                 PROVE  purge'[w].pc = "committed"
    BY DEF GuardCatchesEveryPurge, Missed
  <1>3. s \in Slice
    <2>1. read'[r].key \in Key
      BY <1>1, <1>2 DEF TypeOK, Filling
    <2>. QED BY <2>1, SliceAssumption DEF SliceAssumption
  <1>4. CASE w \notin written[s]
    BY <1>1, <1>3, <1>4, StepCommits
  <1>5. CASE w \in written[s] /\ FlushedUnmoved
    <2>1. forgotten' = Begun
      BY <1>5 DEF HistoryNext, RememberForgotten
    <2>2. w \in Mutation /\ w \in Purger /\ purge[w].pc = "committed"
      BY <1>1, <1>2, <1>3, <1>5, <2>1 DEF Begun, GuardInv, WrittenPurged, TypeOK, Content, Purger
    <2>3. PICK v \in Purger: purge[v].pc = "flushdb" /\ purge'[v].pc = "rebump"
      BY <1>5 DEF FlushedUnmoved
    <2>4. purge'[w] = purge[w]
      BY <1>1, <2>2, <2>3, StepPurges
    <2>. QED BY <2>2, <2>4
  <1>6. CASE w \in written[s] /\ ~FlushedUnmoved
    <2>1. /\ SameReading(r) /\ read[r].guarded /\ read[r].pc \in Filling
          /\ read'[r].seen = read[r].seen /\ read'[r].key = read[r].key
      BY <1>1, <1>2, <1>6, StepReads DEF SameReading
    <2>2. UNCHANGED <<bumps, held>>
      <3>1. ASSUME NEW c \in Counter, bumps' = [bumps EXCEPT ![c] = @ + 1], held'[c],
                   read' = read
            PROVE  FALSE
        BY <1>2, <2>1, <3>1, BumpMovesReadings
      <3>2. ASSUME NEW c \in Counter, ExpireEpoch(c) PROVE FALSE
        BY <1>2, <2>1, <3>2, ExpiryMovesReadings
      <3>. QED BY <1>1, <1>6, <3>1, <3>2, StepCounters DEF CountersStep
    <2>3. forgotten' = forgotten
      BY <1>6, <2>2 DEF HistoryNext, RememberForgotten
    <2>4. ~Moved(r)
      BY <1>2, <2>1, <2>2 DEF Moved, Epoch, SameReading
    <2>5. lost'[r] = IF Racing(r) THEN lost[r] \cup Refused ELSE lost[r]
      BY <1>2 DEF HistoryNext, RememberLost, Filling
    <2>6. w \in Missed(read[r].seen, s) \ lost[r]
      BY <1>2, <1>6, <2>1, <2>3, <2>5 DEF Missed
    <2>7. purge[w].pc = "committed"
      BY <2>1, <2>4, <2>6 DEF GuardInv, GuardCatchesEveryPurge
    <2>8. w \in Mutation
      BY <1>1, <1>3, <1>6 DEF TypeOK, Content
    <2>9. Racing(r)
      BY <2>1, <2>4 DEF Racing
    <2>. QED BY <1>2, <2>2, <2>5, <2>7, <2>8, <2>9 DEF Refused
  <1>. QED BY <1>4, <1>5, <1>6

LEMMA InitGuards == HistoryInit => GuardInv
  <1>. SUFFICES ASSUME HistoryInit PROVE GuardInv
    OBVIOUS
  <1>1. Init /\ forgotten = {}
    BY DEF HistoryInit
  <1>2. \A r \in Read: ~read[r].guarded
    BY <1>1 DEF Init, ReadIdle
  <1>3. CountersStarted
    BY <1>1 DEF Init, CountersStarted
  <1>4. WrittenPurged /\ ForgottenBegun
    BY <1>1 DEF Init, WrittenPurged, ForgottenBegun
  <1>. QED BY <1>1, <1>2, <1>3, <1>4, InitTypes DEF GuardInv, ReadingsPrecede,
       GuardCatchesEveryPurge

LEMMA HistorySteps == [HistoryNext]_historyVars => [Next]_vars
  BY DEF HistoryNext, historyVars

LEMMA StepGuards == GuardInv /\ [HistoryNext]_historyVars => GuardInv'
  <1>. SUFFICES ASSUME GuardInv, [HistoryNext]_historyVars PROVE GuardInv'
    OBVIOUS
  <1>1. [Next]_vars
    BY HistorySteps
  <1>2. TypeOK' /\ CountersStarted' /\ ReadingsPrecede' /\ WrittenPurged' /\ Begun \subseteq Begun'
    BY <1>1, StepTypes, StepReadings, StepPurged DEF GuardInv
  <1>3. CASE HistoryNext
    <2>1. ForgottenBegun'
      BY <1>2, <1>3 DEF HistoryNext, RememberForgotten, ForgottenBegun, GuardInv
    <2>. QED BY <1>2, <1>3, <2>1, GuardKept DEF GuardInv
  <1>4. CASE UNCHANGED historyVars
    <2>1. UNCHANGED <<written, bumps, held, read, purge, lost, forgotten>>
      BY <1>4 DEF historyVars, vars, history
    <2>2. ForgottenBegun'
      BY <1>2, <2>1 DEF ForgottenBegun, GuardInv
    <2>3. GuardCatchesEveryPurge'
      BY <2>1 DEF GuardInv, GuardCatchesEveryPurge, Missed, Moved, Epoch
    <2>. QED BY <1>2, <2>2, <2>3 DEF GuardInv
  <1>. QED BY <1>3, <1>4

(* The fill guard catches every purge the code says it does: a read that took *)
(* its counters before the query, and whose query a committed mutation has    *)
(* since superseded, finds a counter moved unless that mutation's purge has   *)
(* not begun yet, and so has not looked for entries yet either. The purges it *)
(* does not catch are those whose counter redis refused to move while the     *)
(* read was in flight, and, until the wholesale counter moves, those whose    *)
(* counters a flush of the database took without moving it. However many      *)
(* reads and purges cross, whatever is reaped, flushed or expires meanwhile.  *)
THEOREM GuardHolds == HistorySpec => []GuardCatchesEveryPurge
  <1>1. GuardInv => GuardCatchesEveryPurge
    BY DEF GuardInv
  <1>. QED BY <1>1, InitGuards, StepGuards, PTL DEF HistorySpec

-----------------------------------------------------------------------------
(* Purges. Each stage of a purge leaves it with the sets it has to release,   *)
(* of which it has found every key once it drops; and nothing is aside under  *)
(* the name of a purge that has yet to move the set.                          *)

Staged(p, aside) ==
  /\ p.pc = "idle" => p = PurgeIdle
  /\ p.pc \in AllModes => p.mode = p.pc \/ (p.pc = "clear" /\ p.mode = "flushdb")
  /\ p.pc \in {"committed"} \cup AllModes => p.todo = p.slices
  /\ p.pc = "collect" => p.mode = "collection"
  /\ p.pc \notin {"collect", "drop", "release"} \/ p.mode = "row" => p.sets = {}
  /\ p.pc = "collect" => \A id \in p.sets \ p.unread: aside[id] \subseteq p.found
  /\ p.pc = "drop" => \A id \in p.sets: aside[id] \subseteq p.found

Stages == \A w \in Purger: Staged(purge[w], swept)

Unmoved(w, s) == purge[w].pc = "idle" \/ s \in purge[w].todo

UnmovedSets ==
  \A w \in Purger: \A s \in Slice:
    Unmoved(w, s) =>
      swept[<<w, s>>] = {} /\ \A v \in Purger: <<w, s>> \notin purge[v].sets

SweepInv == TypeOK /\ Stages /\ UnmovedSets

(* A step of one purge that adds to no set moved aside, and takes as its own  *)
(* only sets that hold keys, keeps both.                                      *)
LEMMA SweepsKept ==
  ASSUME SweepInv, NEW w \in Purger, NEW state \in PurgeState,
         purge' = [purge EXCEPT ![w] = state],
         \A id \in SweptId: swept'[id] \subseteq swept[id],
         state.pc # "idle",
         \A s \in state.todo: Unmoved(w, s),
         \A id \in state.sets: id \in purge[w].sets \/ swept[id] # {},
         Staged(state, swept')
  PROVE  Stages' /\ UnmovedSets'
  <1>1. purge \in [Purger -> PurgeState] /\ purge' \in [Purger -> PurgeState]
        /\ purge'[w] = state /\ \A v \in Purger \ {w}: purge'[v] = purge[v]
    BY DEF SweepInv, TypeOK
  <1>2. ASSUME NEW v \in Purger PROVE Staged(purge[v], swept)'
    <2>1. CASE v = w
      BY <1>1, <2>1 DEF Staged
    <2>2. CASE v # w
      <3>1. purge'[v] = purge[v] /\ purge[v] \in PurgeState
        BY <1>1, <2>2
      <3>2. Staged(purge[v], swept)
        BY DEF SweepInv, Stages
      <3>3. \A id \in purge[v].sets: id \in SweptId
        BY <3>1 DEF PurgeState
      <3>. QED BY <3>1, <3>2, <3>3 DEF Staged
    <2>. QED BY <2>1, <2>2
  <1>3. ASSUME NEW u \in Purger, NEW s \in Slice, Unmoved(u, s)'
        PROVE  swept'[<<u, s>>] = {} /\ \A v \in Purger: <<u, s>> \notin purge'[v].sets
    <2>1. Unmoved(u, s)
      BY <1>1, <1>3 DEF Unmoved
    <2>2. swept[<<u, s>>] = {} /\ \A v \in Purger: <<u, s>> \notin purge[v].sets
      BY <2>1 DEF SweepInv, UnmovedSets
    <2>3. <<u, s>> \in SweptId
      BY DEF SweptId
    <2>4. swept'[<<u, s>>] = {}
      BY <2>2, <2>3
    <2>. QED BY <1>1, <2>2, <2>4
  <1>. QED BY <1>2, <1>3 DEF Stages, UnmovedSets

LEMMA IdleStaged ==
  ASSUME NEW aside
  PROVE  Staged(PurgeIdle, aside) /\ Staged(PurgeDone, aside) /\ PurgeDone.todo = {}
         /\ PurgeDone.sets = {} /\ PurgeDone.pc = "done"
  BY DEF Staged, PurgeIdle, PurgeDone, AllModes

LEMMA MoveSweeps ==
  ASSUME SweepInv, NEW w \in Purger, NEW s \in Slice, MoveIndexKey(w, s)
  PROVE  Stages' /\ UnmovedSets'
  <1>. DEFINE state == [purge[w] EXCEPT !.todo = @ \ {s}, !.unread = {<<w, s>>},
                                        !.sets = @ \cup {<<w, s>>}]
  <1>1. /\ purge[w] \in PurgeState /\ purge \in [Purger -> PurgeState]
        /\ swept \in [SweptId -> SUBSET Key]
    BY DEF SweepInv, TypeOK
  <1>2. /\ purge' = [purge EXCEPT ![w] = state]
        /\ swept' = [swept EXCEPT ![<<w, s>>] = index[s]]
        /\ purge[w].pc = "collect" /\ purge[w].unread = {} /\ s \in purge[w].todo
    BY DEF MoveIndexKey
  <1>3. <<w, s>> \in SweptId
    BY DEF SweptId
  <1>4. /\ state.pc = "collect" /\ state.todo = purge[w].todo \ {s} /\ state.mode = purge[w].mode
        /\ state.unread = {<<w, s>>} /\ state.sets = purge[w].sets \cup {<<w, s>>}
        /\ state.found = purge[w].found
    BY <1>1, <1>2 DEF PurgeState
  <1>. HIDE DEF state
  <1>5. \A v \in Purger: <<w, s>> \notin purge[v].sets
    BY <1>2 DEF SweepInv, UnmovedSets, Unmoved
  <1>6. \A id \in SweptId: id # <<w, s>> => swept'[id] = swept[id]
    BY <1>1, <1>2
  <1>7. purge'[w] = state /\ \A v \in Purger \ {w}: purge'[v] = purge[v]
    BY <1>1, <1>2
  <1>8. Staged(state, swept')
    <2>1. Staged(purge[w], swept)
      BY DEF SweepInv, Stages
    <2>2. \A id \in purge[w].sets: id \in SweptId /\ swept'[id] \subseteq purge[w].found
      <3>1. \A id \in purge[w].sets: id \in SweptId
        BY <1>1 DEF PurgeState
      <3>. QED BY <1>2, <1>5, <1>6, <2>1, <3>1 DEF Staged
    <2>3. state.mode = "collection"
      BY <1>2, <1>4, <2>1 DEF Staged
    <2>. QED BY <1>4, <2>2, <2>3 DEF Staged, AllModes
  <1>9. ASSUME NEW v \in Purger PROVE Staged(purge[v], swept)'
    <2>1. CASE v = w
      BY <1>7, <1>8, <2>1
    <2>2. CASE v # w
      <3>1. purge'[v] = purge[v] /\ purge[v] \in PurgeState
        BY <1>1, <1>7, <2>2
      <3>2. Staged(purge[v], swept)
        BY DEF SweepInv, Stages
      <3>3. \A id \in purge[v].sets: id \in SweptId
        BY <3>1 DEF PurgeState
      <3>4. \A id \in purge[v].sets: swept'[id] = swept[id]
        BY <1>5, <1>6, <3>3
      <3>. QED BY <3>1, <3>2, <3>4 DEF Staged
    <2>. QED BY <2>1, <2>2
  <1>10. ASSUME NEW u \in Purger, NEW t \in Slice, Unmoved(u, t)'
         PROVE  swept'[<<u, t>>] = {} /\ \A v \in Purger: <<u, t>> \notin purge'[v].sets
    <2>1. Unmoved(u, t) /\ <<u, t>> # <<w, s>>
      BY <1>4, <1>7, <1>10 DEF Unmoved
    <2>2. swept[<<u, t>>] = {} /\ \A v \in Purger: <<u, t>> \notin purge[v].sets
      BY <2>1 DEF SweepInv, UnmovedSets
    <2>3. <<u, t>> \in SweptId
      BY DEF SweptId
    <2>4. swept'[<<u, t>>] = {}
      BY <1>6, <2>1, <2>2, <2>3
    <2>. QED BY <1>4, <1>7, <2>1, <2>2, <2>4
  <1>. QED BY <1>9, <1>10 DEF Stages, UnmovedSets

LEMMA PurgeSweeps ==
  ASSUME SweepInv, NEW w \in Purger, PurgeNext(w)
  PROVE  Stages' /\ UnmovedSets'
  <1>. DEFINE Goal == Stages' /\ UnmovedSets'
  <1>1. /\ purge[w] \in PurgeState /\ purge \in [Purger -> PurgeState]
        /\ swept \in [SweptId -> SUBSET Key]
    BY DEF SweepInv, TypeOK
  <1>2. Staged(purge[w], swept)
    BY DEF SweepInv, Stages
  <1>3. ASSUME NEW s \in Slice, NEW mode \in Modes, Commit(w, s, mode) PROVE Goal
    <2>. DEFINE state == [PurgeIdle EXCEPT !.pc = "committed", !.mode = mode,
                                           !.counter = PurgeCounter(mode, s),
                                           !.slices = PurgedSlices(mode, s),
                                           !.todo = PurgedSlices(mode, s)]
    <2>1. mode \in AllModes
      BY PurgeAssumption DEF PurgeAssumption
    <2>2. state \in PurgeState
      BY <2>1, PurgedTypes, IdleTypes DEF PurgeState
    <2>3. purge' = [purge EXCEPT ![w] = state] /\ swept' = swept /\ purge[w].pc = "idle"
      BY <1>3 DEF Commit
    <2>4. state.pc = "committed" /\ state.todo = state.slices /\ state.sets = {}
          /\ state.todo \in SUBSET Slice
      BY <2>2 DEF PurgeIdle, PurgeState
    <2>. HIDE DEF state
    <2>5. Staged(state, swept')
      BY <2>4 DEF Staged, AllModes
    <2>. QED BY <2>2, <2>3, <2>4, <2>5, SweepsKept DEF Unmoved
  <1>4. ASSUME BumpScopedCacheEpochs(w) PROVE Goal
    <2>. DEFINE state == [purge[w] EXCEPT !.pc = purge[w].mode]
    <2>1. state \in PurgeState
      BY <1>1 DEF PurgeState
    <2>2. purge' = [purge EXCEPT ![w] = state] /\ swept' = swept /\ purge[w].pc = "committed"
      BY <1>4 DEF BumpScopedCacheEpochs
    <2>3. /\ state.pc = purge[w].mode /\ state.mode = purge[w].mode /\ state.todo = purge[w].todo
          /\ state.slices = purge[w].slices /\ state.sets = purge[w].sets
          /\ purge[w].mode \in AllModes
      BY <1>1 DEF PurgeState
    <2>. HIDE DEF state
    <2>4. Staged(state, swept')
      BY <1>2, <2>2, <2>3 DEF Staged, AllModes
    <2>. QED BY <2>1, <2>2, <2>3, <2>4, SweepsKept DEF Unmoved, AllModes
  <1>5. ASSUME purge' = [purge EXCEPT ![w] = PurgeDone],
               \A id \in SweptId: swept'[id] \subseteq swept[id]
        PROVE  Goal
    BY <1>5, IdleStaged, IdleTypes, SweepsKept
  <1>6. ASSUME NEW p \in {"drop", "prune", "release", "dropIndex"},
               purge' = [purge EXCEPT ![w] = [purge[w] EXCEPT !.pc = p]], swept' = swept,
               p \notin {"drop", "release"} => purge[w].sets = {},
               p \in {"drop", "release"} => purge[w].mode # "row",
               p = "drop" => \A id \in purge[w].sets: swept[id] \subseteq purge[w].found
        PROVE  Goal
    <2>. DEFINE state == [purge[w] EXCEPT !.pc = p]
    <2>1. state \in PurgeState
      BY <1>1 DEF PurgeState
    <2>2. /\ state.pc = p /\ state.mode = purge[w].mode /\ state.todo = purge[w].todo
          /\ state.sets = purge[w].sets /\ state.found = purge[w].found
      BY <1>1 DEF PurgeState
    <2>3. purge' = [purge EXCEPT ![w] = state]
      BY <1>6
    <2>. HIDE DEF state
    <2>4. Staged(state, swept')
      BY <1>6, <2>2 DEF Staged, AllModes
    <2>. QED BY <1>6, <2>1, <2>2, <2>3, <2>4, SweepsKept DEF Unmoved
  <1>7. ASSUME ScanRowIndexedEntries(w) PROVE Goal
    <2>. DEFINE found == UNION {index[s] : s \in purge[w].slices}
    <2>. DEFINE state == [purge[w] EXCEPT !.found = found, !.pc = "drop"]
    <2>1. found \in SUBSET Key
      BY <1>1 DEF PurgeState, SweepInv, TypeOK
    <2>2. /\ \/ purge' = [purge EXCEPT ![w] = PurgeDone]
             \/ purge' = [purge EXCEPT ![w] = state]
          /\ swept' = swept /\ purge[w].pc = "row"
      BY <1>7 DEF ScanRowIndexedEntries
    <2>. HIDE DEF found
    <2>3. state \in PurgeState
      BY <1>1, <2>1 DEF PurgeState
    <2>4. state.pc = "drop" /\ state.todo = purge[w].todo /\ state.sets = purge[w].sets
          /\ state.mode = purge[w].mode
      BY <1>1 DEF PurgeState
    <2>. HIDE DEF state
    <2>5. Staged(state, swept')
      BY <1>2, <2>2, <2>4 DEF Staged, AllModes
    <2>6. CASE purge' = [purge EXCEPT ![w] = state]
      BY <2>2, <2>3, <2>4, <2>5, <2>6, SweepsKept DEF Unmoved
    <2>. QED BY <1>5, <2>2, <2>6
  <1>8. ASSUME DropSweptScopedCacheEntries(w) PROVE Goal
    <2>1. purge[w].pc = "drop" /\ swept' = swept
      BY <1>8 DEF DropSweptScopedCacheEntries
    <2>2. CASE purge[w].mode = "row"
      BY <1>2, <1>6, <1>8, <2>1, <2>2 DEF DropSweptScopedCacheEntries, Staged
    <2>3. CASE purge[w].mode # "row"
      BY <1>6, <1>8, <2>1, <2>3 DEF DropSweptScopedCacheEntries
    <2>. QED BY <2>2, <2>3
  <1>9. ASSUME \/ RemoveIndexedEntries(w) \/ DieAfterMove(w) \/ DropScopedCacheIndexDone(w)
               \/ BumpAfterFlush(w)
        PROVE  Goal
    BY <1>5, <1>9 DEF RemoveIndexedEntries, DieAfterMove, DropScopedCacheIndexDone, BumpAfterFlush
  <1>10. ASSUME TakeSweptIndexKeys(w) PROVE Goal
    <2>. DEFINE slices == IF w \in Sweeper THEN Slice ELSE purge[w].slices
    <2>. DEFINE taken == {id \in SweptId : id[2] \in slices /\ swept[id] # {}}
    <2>. DEFINE state == [purge[w] EXCEPT !.pc = "collect", !.sets = taken, !.unread = taken]
    <2>1. purge' = [purge EXCEPT ![w] = state] /\ swept' = swept
          /\ (purge[w].pc = "collection" \/ purge[w].pc = "idle")
      BY <1>10 DEF TakeSweptIndexKeys
    <2>2. taken \in SUBSET SweptId /\ \A id \in taken: swept[id] # {}
      OBVIOUS
    <2>. HIDE DEF taken
    <2>3. state \in PurgeState
      BY <1>1, <2>2 DEF PurgeState
    <2>4. state.pc = "collect" /\ state.todo = purge[w].todo /\ state.sets = taken
          /\ state.unread = taken /\ state.mode = purge[w].mode
      BY <1>1 DEF PurgeState
    <2>. HIDE DEF state
    <2>5. state.mode = "collection"
      BY <1>2, <2>1, <2>4 DEF Staged, AllModes, PurgeIdle
    <2>6. Staged(state, swept')
      BY <2>4, <2>5 DEF Staged, AllModes
    <2>. QED BY <2>1, <2>2, <2>3, <2>4, <2>6, SweepsKept DEF Unmoved
  <1>11. ASSUME NEW id \in SweptId, CollectSweptIndexKeys(w, id) PROVE Goal
    <2>. DEFINE state == [purge[w] EXCEPT !.unread = @ \ {id}, !.found = @ \cup swept[id]]
    <2>1. purge' = [purge EXCEPT ![w] = state] /\ swept' = swept /\ purge[w].pc = "collect"
      BY <1>11 DEF CollectSweptIndexKeys
    <2>2. state \in PurgeState
      BY <1>1 DEF PurgeState
    <2>3. /\ state.pc = purge[w].pc /\ state.todo = purge[w].todo /\ state.sets = purge[w].sets
          /\ state.unread = purge[w].unread \ {id} /\ state.mode = purge[w].mode
          /\ state.found = purge[w].found \cup swept[id]
      BY <1>1 DEF PurgeState
    <2>. HIDE DEF state
    <2>4. Staged(state, swept')
      BY <1>2, <2>1, <2>3 DEF Staged, AllModes
    <2>. QED BY <2>1, <2>2, <2>3, <2>4, SweepsKept DEF Unmoved
  <1>12. ASSUME CollectDone(w) PROVE Goal
    <2>1. purge[w].pc = "collect" /\ purge[w].unread = {} /\ swept' = swept
          /\ purge' = [purge EXCEPT ![w] = [purge[w] EXCEPT !.pc = "drop"]]
      BY <1>12 DEF CollectDone
    <2>2. purge[w].mode # "row" /\ \A id \in purge[w].sets: swept[id] \subseteq purge[w].found
      BY <1>2, <2>1 DEF Staged
    <2>. QED BY <1>6, <2>1, <2>2
  <1>13. ASSUME ReleaseSweptIndexKeys(w) PROVE Goal
    BY <1>1, <1>5, <1>13 DEF ReleaseSweptIndexKeys
  <1>14. ASSUME ClearResponseCache(w) PROVE Goal
    <2>1. purge[w].sets = {}
      BY <1>2, <1>14 DEF ClearResponseCache, Staged
    <2>. QED BY <1>6, <1>14, <2>1 DEF ClearResponseCache
  <1>15. ASSUME NEW s \in Slice, DropIndex(w, s) PROVE Goal
    <2>. DEFINE state == [purge[w] EXCEPT !.todo = @ \ {s}]
    <2>1. purge' = [purge EXCEPT ![w] = state] /\ purge[w].pc = "dropIndex"
      BY <1>15 DEF DropIndex
    <2>2. \A id \in SweptId: swept'[id] \subseteq swept[id]
      BY <1>15 DEF DropIndex
    <2>3. state \in PurgeState
      BY <1>1 DEF PurgeState
    <2>4. /\ state.pc = purge[w].pc /\ state.todo = purge[w].todo \ {s}
          /\ state.sets = purge[w].sets /\ state.mode = purge[w].mode
      BY <1>1 DEF PurgeState
    <2>. HIDE DEF state
    <2>5. Staged(state, swept')
      BY <1>2, <2>1, <2>4 DEF Staged, AllModes
    <2>. QED BY <2>1, <2>2, <2>3, <2>4, <2>5, SweepsKept DEF Unmoved
  <1>16. ASSUME FlushCacheRedisDatabase(w) PROVE Goal
    <2>1. /\ \A id \in SweptId: swept'[id] \subseteq swept[id]
          /\ purge[w].pc = "flushdb"
          /\ \/ purge' = [purge EXCEPT ![w] = PurgeDone]
             \/ purge' = [purge EXCEPT ![w] = [purge[w] EXCEPT !.pc = "rebump"]]
      BY <1>1, <1>16 DEF FlushCacheRedisDatabase
    <2>. DEFINE state == [purge[w] EXCEPT !.pc = "rebump"]
    <2>2. state \in PurgeState
      BY <1>1 DEF PurgeState
    <2>3. /\ state.pc = "rebump" /\ state.todo = purge[w].todo
          /\ state.sets = purge[w].sets /\ state.mode = purge[w].mode
      BY <1>1 DEF PurgeState
    <2>4. \/ purge' = [purge EXCEPT ![w] = PurgeDone]
          \/ purge' = [purge EXCEPT ![w] = state]
      BY <2>1
    <2>. HIDE DEF state
    <2>5. state.sets = {}
      BY <1>2, <2>1, <2>3 DEF Staged
    <2>6. Staged(state, swept')
      BY <2>3, <2>5 DEF Staged, AllModes
    <2>. QED BY <1>5, <2>1, <2>2, <2>3, <2>4, <2>5, <2>6, SweepsKept DEF Unmoved
  <1>17. ASSUME FlushRefused(w) PROVE Goal
    <2>. DEFINE state == [purge[w] EXCEPT !.pc = "clear"]
    <2>1. state \in PurgeState
      BY <1>1 DEF PurgeState, AllModes
    <2>2. /\ state.pc = "clear" /\ state.todo = purge[w].todo /\ state.slices = purge[w].slices
          /\ state.sets = purge[w].sets /\ state.mode = purge[w].mode
      BY <1>1 DEF PurgeState
    <2>3. purge' = [purge EXCEPT ![w] = state] /\ swept' = swept /\ purge[w].pc = "flushdb"
      BY <1>17 DEF FlushRefused
    <2>. HIDE DEF state
    <2>4. /\ purge[w].mode = "flushdb" /\ purge[w].sets = {}
          /\ purge[w].todo = purge[w].slices
      BY <1>2, <2>3 DEF Staged, AllModes
    <2>5. Staged(state, swept')
      BY <2>2, <2>4 DEF Staged, AllModes
    <2>. QED BY <2>1, <2>2, <2>3, <2>4, <2>5, SweepsKept DEF Unmoved
  <1>. QED BY <1>3, <1>4, <1>7, <1>8, <1>9, <1>10, <1>11, <1>12, <1>13, <1>14, <1>15,
              <1>16, <1>17, MoveSweeps DEF PurgeNext

-----------------------------------------------------------------------------
(* What comes for a stale entry. An entry that was never without the filing   *)
(* of a slice is named there, in the index set or in a set moved aside.       *)

FilingsKept ==
  \A k \in Key: \A s \in FiledIn[k]:
    (entry[k] # None /\ <<k, s>> \notin unnamed) => Named(k, s)

(* While the counters of a purge are forgotten, an entry that is without its  *)
(* mutation has its own fill at it, which compares, keeps or evicts it.       *)
Covers(r, k) ==
  /\ read[r].key = k /\ Stands(r)
  /\ \/ read[r].pc = "stored" /\ read[r].guarded
     \/ read[r].pc = "evicting"
     \/ read[r].pc = "probing" /\ read[r].swallowed
     \/ read[r].pc = "recording"

GapHeld ==
  \A k \in Key: (entry[k] # None /\ entry[k].guarded) =>
    \A s \in FiledIn[k]: \A w \in forgotten \cap written[s]:
      \/ w \in entry[k].seen[s] \cup kept[k]
      \/ \E r \in Read: Covers(r, k)
      \/ k \in pending

ReachInv == GuardInv /\ SweepInv /\ FilingsKept /\ GapHeld /\ StaleFilingIsReached

LEMMA UnnameFilings ==
  ASSUME Unname
  PROVE  FilingsKept'
  <1>1. ASSUME NEW k \in Key, NEW s \in FiledIn[k], entry'[k] # None, <<k, s>> \notin unnamed'
        PROVE  Named(k, s)'
    <2>1. s \in Slice
      BY SliceAssumption DEF SliceAssumption
    <2>. DEFINE f == <<k, s>>
    <2>2. f \in Key \X Slice /\ f[1] = k /\ f[2] = s
      BY <2>1
    <2>. HIDE DEF f
    <2>3. f \notin unnamed'
      BY <1>1 DEF f
    <2>4. ~Lost(f[1], f[2])
      BY <1>1, <2>2, <2>3 DEF Unname
    <2>. QED BY <2>2, <2>4 DEF Lost
  <1>. QED BY <1>1 DEF FilingsKept

(* A filing an entry that stays was never without, it is not without before.  *)
LEMMA WasNamed ==
  ASSUME Unname, NEW k \in Key, NEW s \in FiledIn[k], entry'[k] # None, entry'[k] = entry[k],
         <<k, s>> \notin unnamed'
  PROVE  <<k, s>> \notin unnamed
  <1>1. s \in Slice
    BY SliceAssumption DEF SliceAssumption
  <1>. DEFINE f == <<k, s>>
  <1>2. f \in Key \X Slice /\ f[1] = k /\ f[2] = s /\ f = <<k, s>>
    BY <1>1
  <1>. HIDE DEF f
  <1>3. f \notin unnamed'
    BY <1>2
  <1>4. ~Lost(f[1], f[2])
    BY <1>2, <1>3 DEF Unname
  <1>. QED BY <1>2, <1>4 DEF Lost

(* A step answers for every entry that stays and that the index or a set      *)
(* moved aside names: what reached it does so after the step, unless its fill *)
(* gives up evicting it.                                                      *)
GivenUp(k) == \E q \in Read: GivesUp(q) /\ read[q].key = k

Stays(k) == entry[k] # None /\ entry'[k] = entry[k]

KeepsReached ==
  \A k \in Key: \A s \in FiledIn[k]:
    (Stays(k) /\ Named(k, s) /\ Named(k, s)' /\ Reached(k, s)) => Reached(k, s)' \/ GivenUp(k)

(* The counters of a reading that moved stay moved. *)
LEMMA StillMoved ==
  ASSUME GuardInv, read' = read, CountersStep, NEW r \in Read, read[r].guarded, Moved(r),
         NEW k \in Key, entry'[k] # None
  PROVE  Moved(r)'
  <1>1. CASE UNCHANGED <<bumps, held>>
    BY <1>1 DEF Moved, Epoch
  <1>. QED BY <1>1, BumpMovesReadings, ExpiryMovesReadings DEF CountersStep

LEMMA ReadsStillEvict ==
  ASSUME GuardInv, read' = read, CountersStep, NEW r \in Read, NEW k \in Key,
         MustEvict(r, k), Stays(k)
  PROVE  MustEvict(r, k)'
  <1>1. read[r].pc = "stored" /\ read[r].guarded /\ Moved(r) => Moved(r)'
    BY StillMoved DEF Stays
  <1>2. Stands(r)' /\ read'[r].key = k
    BY DEF MustEvict, Stands, Stays
  <1>. QED BY <1>1, <1>2 DEF MustEvict

(* A set stays aside when no purge comes to release it and it is not emptied. *)
LEMMA StaysAside ==
  ASSUME NEW k \in Key, NEW s \in Slice, MovedAside(k, s), TypeOK,
         \A w \in Purger: k \in swept[<<w, s>>] => k \in swept'[<<w, s>>],
         NEW w \in Purger, \A v \in Purger \ {w}: purge'[v] = purge[v],
         purge'[w].pc # "release"
  PROVE  MovedAside(k, s)'
  BY DEF MovedAside

(* A set stays aside, for an entry that stays, unless a clear drops the sets  *)
(* of its slice: who releases a set has dropped the entries it names.         *)
LEMMA PurgeKeepsAside ==
  ASSUME SweepInv, NEW w \in Purger, PurgeNext(w), NEW k \in Key, NEW s \in Slice,
         entry'[k] # None, MovedAside(k, s)
  PROVE  MovedAside(k, s)' \/ DropIndex(w, s)
  <1>1. /\ purge[w] \in PurgeState /\ purge \in [Purger -> PurgeState] /\ TypeOK
        /\ swept \in [SweptId -> SUBSET Key] /\ Staged(purge[w], swept)
    BY DEF SweepInv, Stages, TypeOK
  <1>2. \A v \in Purger, t \in Slice: <<v, t>> \in SweptId
    BY DEF SweptId
  <1>3. ASSUME NEW state, purge' = [purge EXCEPT ![w] = state], state.pc # "release",
               \A v \in Purger: k \in swept[<<v, s>>] => k \in swept'[<<v, s>>]
        PROVE  MovedAside(k, s)'
    <2>1. purge'[w].pc # "release" /\ \A v \in Purger \ {w}: purge'[v] = purge[v]
      BY <1>1, <1>3
    <2>. QED BY <1>1, <1>3, <2>1, StaysAside
  <1>4. PurgeDone.pc # "release"
    BY IdleStaged
  <1>5. ASSUME NEW s0 \in Slice, NEW mode \in Modes, Commit(w, s0, mode)
        PROVE  MovedAside(k, s)'
    <2>. DEFINE state == [PurgeIdle EXCEPT !.pc = "committed", !.mode = mode,
                                           !.counter = PurgeCounter(mode, s0),
                                           !.slices = PurgedSlices(mode, s0),
                                           !.todo = PurgedSlices(mode, s0)]
    <2>1. state.pc # "release"
      BY DEF PurgeIdle
    <2>2. purge' = [purge EXCEPT ![w] = state] /\ swept' = swept
      BY <1>5 DEF Commit
    <2>. HIDE DEF state
    <2>. QED BY <1>3, <2>1, <2>2
  <1>6. ASSUME NEW p, purge' = [purge EXCEPT ![w] = [purge[w] EXCEPT !.pc = p]],
               p # "release", swept' = swept
        PROVE  MovedAside(k, s)'
    <2>1. [purge[w] EXCEPT !.pc = p].pc # "release"
      BY <1>1, <1>6 DEF PurgeState
    <2>. QED BY <1>3, <1>6, <2>1
  <1>7. CASE BumpScopedCacheEpochs(w)
    <2>1. purge[w].mode # "release"
      BY <1>1 DEF PurgeState, AllModes
    <2>. QED BY <1>6, <1>7, <2>1 DEF BumpScopedCacheEpochs
  <1>8. CASE ScanRowIndexedEntries(w)
    <2>. DEFINE found == UNION {index[t] : t \in purge[w].slices}
    <2>1. [purge[w] EXCEPT !.found = found, !.pc = "drop"].pc # "release"
      BY <1>1 DEF PurgeState
    <2>. QED BY <1>3, <1>4, <1>8, <2>1 DEF ScanRowIndexedEntries
  <1>9. CASE DropSweptScopedCacheEntries(w)
    <2>. DEFINE state == [purge[w] EXCEPT !.pc = IF purge[w].mode = "row" THEN "prune"
                                                                          ELSE "release"]
    <2>1. /\ purge' = [purge EXCEPT ![w] = state] /\ purge[w].pc = "drop"
          /\ entry' = [l \in Key |-> IF l \in purge[w].found THEN None ELSE entry[l]]
          /\ swept' = swept
      BY <1>9 DEF DropSweptScopedCacheEntries
    <2>2. purge'[w].sets = purge[w].sets /\ \A v \in Purger \ {w}: purge'[v] = purge[v]
      BY <1>1, <2>1 DEF PurgeState
    <2>. HIDE DEF state
    <2>3. PICK u \in Purger:
            /\ k \in swept[<<u, s>>]
            /\ \A v \in Purger: purge[v].pc = "release" => <<u, s>> \notin purge[v].sets
      BY DEF MovedAside
    <2>4. k \notin purge[w].found
      BY <2>1
    <2>5. <<u, s>> \notin purge[w].sets
      BY <1>1, <2>1, <2>3, <2>4 DEF Staged
    <2>. QED BY <2>1, <2>2, <2>3, <2>5 DEF MovedAside
  <1>10. CASE \/ RemoveIndexedEntries(w) \/ DieAfterMove(w) \/ DropScopedCacheIndexDone(w)
              \/ BumpAfterFlush(w)
    BY <1>3, <1>4, <1>10 DEF RemoveIndexedEntries, DieAfterMove, DropScopedCacheIndexDone,
       BumpAfterFlush
  <1>11. CASE TakeSweptIndexKeys(w)
    <2>1. PICK sets:
            purge' = [purge EXCEPT ![w] = [purge[w] EXCEPT !.pc = "collect", !.sets = sets,
                                                           !.unread = sets]]
      BY <1>11 DEF TakeSweptIndexKeys
    <2>2. [purge[w] EXCEPT !.pc = "collect", !.sets = sets, !.unread = sets].pc # "release"
      BY <1>1 DEF PurgeState
    <2>. QED BY <1>3, <1>11, <2>1, <2>2 DEF TakeSweptIndexKeys
  <1>12. ASSUME NEW s0 \in Slice, MoveIndexKey(w, s0) PROVE MovedAside(k, s)'
    <2>. DEFINE state == [purge[w] EXCEPT !.todo = @ \ {s0}, !.unread = {<<w, s0>>},
                                          !.sets = @ \cup {<<w, s0>>}]
    <2>1. /\ purge' = [purge EXCEPT ![w] = state] /\ purge[w].pc = "collect"
          /\ swept' = [swept EXCEPT ![<<w, s0>>] = index[s0]] /\ s0 \in purge[w].todo
      BY <1>12 DEF MoveIndexKey
    <2>2. state.pc # "release"
      BY <1>1, <2>1 DEF PurgeState
    <2>. HIDE DEF state
    <2>3. swept[<<w, s0>>] = {}
      BY <2>1 DEF SweepInv, UnmovedSets, Unmoved
    <2>4. ASSUME NEW u \in Purger, k \in swept[<<u, s>>] PROVE k \in swept'[<<u, s>>]
      <3>1. <<u, s>> # <<w, s0>> /\ <<u, s>> \in SweptId
        BY <1>2, <2>3, <2>4
      <3>. QED BY <1>1, <2>1, <2>4, <3>1
    <2>. QED BY <1>3, <2>1, <2>2, <2>4
  <1>13. ASSUME NEW id \in SweptId, CollectSweptIndexKeys(w, id) PROVE MovedAside(k, s)'
    <2>1. [purge[w] EXCEPT !.unread = @ \ {id}, !.found = @ \cup swept[id]].pc # "release"
      BY <1>1, <1>13 DEF CollectSweptIndexKeys, PurgeState
    <2>. QED BY <1>3, <1>13, <2>1 DEF CollectSweptIndexKeys
  <1>14. CASE CollectDone(w) \/ ClearResponseCache(w) \/ FlushRefused(w)
    BY <1>6, <1>14 DEF CollectDone, ClearResponseCache, FlushRefused
  <1>15. CASE ReleaseSweptIndexKeys(w)
    <2>1. /\ purge' = [purge EXCEPT ![w] = PurgeDone] /\ purge[w].pc = "release"
          /\ swept' = [id \in SweptId |-> IF id \in purge[w].sets THEN {} ELSE swept[id]]
      BY <1>15 DEF ReleaseSweptIndexKeys
    <2>2. purge'[w].pc # "release" /\ \A v \in Purger \ {w}: purge'[v] = purge[v]
      BY <1>1, <1>4, <2>1
    <2>3. PICK u \in Purger:
            /\ k \in swept[<<u, s>>]
            /\ \A v \in Purger: purge[v].pc = "release" => <<u, s>> \notin purge[v].sets
      BY DEF MovedAside
    <2>4. swept'[<<u, s>>] = swept[<<u, s>>]
      BY <1>2, <2>1, <2>3
    <2>. QED BY <2>2, <2>3, <2>4 DEF MovedAside
  <1>16. ASSUME NEW s0 \in Slice, DropIndex(w, s0), s0 # s PROVE MovedAside(k, s)'
    <2>1. /\ purge' = [purge EXCEPT ![w] = [purge[w] EXCEPT !.todo = @ \ {s0}]]
          /\ swept' = [id \in SweptId |-> IF id[2] = s0 THEN {} ELSE swept[id]]
          /\ purge[w].pc = "dropIndex"
      BY <1>16 DEF DropIndex
    <2>2. [purge[w] EXCEPT !.todo = @ \ {s0}].pc # "release"
      BY <1>1, <2>1 DEF PurgeState
    <2>3. \A v \in Purger: swept'[<<v, s>>] = swept[<<v, s>>]
      BY <1>2, <1>16, <2>1
    <2>. QED BY <1>3, <2>1, <2>2, <2>3
  <1>17. ~FlushCacheRedisDatabase(w)
    BY DEF FlushCacheRedisDatabase
  <1>. QED BY <1>5, <1>7, <1>8, <1>9, <1>10, <1>11, <1>12, <1>13, <1>14, <1>15, <1>16, <1>17
           DEF PurgeNext

LEMMA DropUnnames ==
  ASSUME SweepInv, NEW w \in Purger, NEW k \in Key, NEW s \in Slice, DropIndex(w, s)
  PROVE  ~Named(k, s)'
  <1>1. index'[s] = {}
    BY DEF DropIndex, SweepInv, TypeOK
  <1>2. \A v \in Purger: swept'[<<v, s>>] = {}
    BY DEF DropIndex, SweptId
  <1>. QED BY <1>1, <1>2 DEF Named, MovedAside

(* A step of a purge answers for the entries that purge was to reach.         *)
LEMMA PurgeKeepsReached ==
  ASSUME GuardInv, SweepInv, NEW w \in Purger, PurgeNext(w), NEW state,
         purge' = [purge EXCEPT ![w] = state],
         \A k \in Key: \A s \in FiledIn[k]:
           (/\ Stays(k) /\ k \in index[s]
            /\ WillRead(w, s) \/ WillDropFound(w, k)) => Reached(k, s)'
  PROVE  KeepsReached
  <1>1. purge \in [Purger -> PurgeState] /\ CountersStep /\ UNCHANGED <<read, pending>>
    BY PurgeCounters DEF SweepInv, TypeOK
  <1>2. \A v \in Purger \ {w}: purge'[v] = purge[v]
    BY <1>1
  <1>3. ASSUME NEW k \in Key, NEW s \in FiledIn[k], Stays(k), Named(k, s),
               Named(k, s)', Reached(k, s)
        PROVE  Reached(k, s)'
    <2>1. CASE MovedAside(k, s)
      <3>1. s \in Slice
        BY SliceAssumption DEF SliceAssumption
      <3>2. MovedAside(k, s)'
        BY <1>3, <2>1, <3>1, PurgeKeepsAside, DropUnnames DEF Stays
      <3>. QED BY <3>2 DEF Reached
    <2>2. ASSUME NEW v \in Purger, WillRead(v, s) \/ WillDropFound(v, k) PROVE Reached(k, s)'
      <3>1. CASE v = w
        <4>1. k \in index[s] \/ MovedAside(k, s)
          BY <1>3 DEF Named
        <4>. QED BY <1>3, <2>1, <2>2, <3>1, <4>1
      <3>2. CASE v # w
        <4>1. (WillRead(v, s) \/ WillDropFound(v, k))'
          BY <1>2, <2>2, <3>2 DEF WillRead, WillDropFound
        <4>. QED BY <4>1 DEF Reached
      <3>. QED BY <3>1, <3>2
    <2>3. ASSUME NEW r \in Read, MustEvict(r, k) PROVE Reached(k, s)'
      <3>1. MustEvict(r, k)'
        BY <1>1, <1>3, <2>3, ReadsStillEvict
      <3>. QED BY <3>1 DEF Reached
    <2>4. CASE k \in pending
      BY <1>1, <2>4 DEF Reached
    <2>. QED BY <1>3, <2>1, <2>2, <2>3, <2>4 DEF Reached
  <1>. QED BY <1>3 DEF KeepsReached

LEMMA CommitReached ==
  ASSUME GuardInv, SweepInv, NEW w \in Purger, NEW s0 \in Slice, NEW mode \in Modes,
         Commit(w, s0, mode)
  PROVE  KeepsReached
  <1>1. PurgeNext(w) /\ purge[w].pc = "idle"
        /\ \E state: purge' = [purge EXCEPT ![w] = state]
    BY DEF PurgeNext, Commit
  <1>2. \A k \in Key: \A s \in FiledIn[k]: ~WillRead(w, s) /\ ~WillDropFound(w, k)
    BY <1>1 DEF WillRead, WillDropFound, AllModes
  <1>. QED BY <1>1, <1>2, PurgeKeepsReached

LEMMA MoveNames ==
  ASSUME SweepInv, NEW w \in Purger, NEW k \in Key, NEW s \in Slice, MoveIndexKey(w, s),
         k \in index[s]
  PROVE  MovedAside(k, s)'
  <1>1. /\ purge[w] \in PurgeState /\ purge \in [Purger -> PurgeState]
        /\ swept \in [SweptId -> SUBSET Key]
    BY DEF SweepInv, TypeOK
  <1>. DEFINE state == [purge[w] EXCEPT !.todo = @ \ {s}, !.unread = {<<w, s>>},
                                        !.sets = @ \cup {<<w, s>>}]
  <1>2. /\ purge' = [purge EXCEPT ![w] = state] /\ purge[w].pc = "collect"
        /\ swept' = [swept EXCEPT ![<<w, s>>] = index[s]] /\ s \in purge[w].todo
    BY DEF MoveIndexKey
  <1>3. state.pc = "collect"
    BY <1>1, <1>2 DEF PurgeState
  <1>. HIDE DEF state
  <1>4. purge'[w] = state /\ \A v \in Purger \ {w}: purge'[v] = purge[v]
    BY <1>1, <1>2
  <1>5. \A v \in Purger: <<w, s>> \notin purge[v].sets
    BY <1>2 DEF SweepInv, UnmovedSets, Unmoved
  <1>6. \A v \in Purger: purge'[v].pc = "release" => <<w, s>> \notin purge'[v].sets
    BY <1>3, <1>4, <1>5
  <1>7. k \in swept'[<<w, s>>]
    BY <1>1, <1>2 DEF SweptId
  <1>. QED BY <1>6, <1>7 DEF MovedAside

LEMMA PurgeReached ==
  ASSUME GuardInv, SweepInv, NEW w \in Purger, PurgeNext(w)
  PROVE  KeepsReached
  <1>1. /\ purge[w] \in PurgeState /\ purge \in [Purger -> PurgeState]
        /\ entry \in [Key -> [seen : Content, guarded : BOOLEAN] \cup {None}]
        /\ bumps \in [Counter -> Nat] /\ held \in [Counter -> BOOLEAN] /\ Star \in Counter
        /\ Staged(purge[w], swept)
    BY DEF SweepInv, TypeOK, Counter, Stages
  (* A purge that reaches nothing through the index has nothing to answer for. *)
  <1>2. ASSUME NEW state, purge' = [purge EXCEPT ![w] = state],
               \/ purge[w].pc \notin {"committed", "collect", "drop"} \cup AllModes
               \/ purge[w].pc = "collect" /\ purge[w].todo = {}
               \/ purge[w].pc = "drop" /\ purge[w].mode # "row"
        PROVE  KeepsReached
    <2>1. \A k \in Key: \A s \in FiledIn[k]: ~WillRead(w, s) /\ ~WillDropFound(w, k)
      BY <1>2 DEF WillRead, WillDropFound, AllModes
    <2>. QED BY <1>2, <2>1, PurgeKeepsReached
  <1>3. ASSUME BumpScopedCacheEpochs(w) PROVE KeepsReached
    <2>. DEFINE state == [purge[w] EXCEPT !.pc = purge[w].mode]
    <2>1. /\ purge' = [purge EXCEPT ![w] = state] /\ purge[w].pc = "committed"
      BY <1>3 DEF BumpScopedCacheEpochs
    <2>2. state.pc \in AllModes /\ state.slices = purge[w].slices
      BY <1>1 DEF PurgeState
    <2>. HIDE DEF state
    <2>4. purge'[w] = state
      BY <1>1, <2>1
    <2>5. ASSUME NEW k \in Key, NEW s \in FiledIn[k], WillRead(w, s) \/ WillDropFound(w, k)
          PROVE  Reached(k, s)'
      <3>1. s \in purge[w].slices
        BY <2>1, <2>5 DEF WillRead, WillDropFound
      <3>2. WillRead(w, s)'
        BY <2>2, <2>4, <3>1 DEF WillRead
      <3>. QED BY <3>2 DEF Reached
    <2>. QED BY <2>1, <2>5, PurgeKeepsReached
  <1>4. ASSUME ScanRowIndexedEntries(w) PROVE KeepsReached
    <2>. DEFINE found == UNION {index[s] : s \in purge[w].slices}
    <2>. DEFINE state == IF found = {} THEN PurgeDone
                                       ELSE [purge[w] EXCEPT !.found = found, !.pc = "drop"]
    <2>1. /\ purge' = [purge EXCEPT ![w] = state] /\ purge[w].pc = "row"
      BY <1>4 DEF ScanRowIndexedEntries
    <2>2. purge'[w] = state
      BY <1>1, <2>1
    <2>3. ASSUME NEW k \in Key, NEW s \in FiledIn[k], k \in index[s],
                 WillRead(w, s) \/ WillDropFound(w, k)
          PROVE  Reached(k, s)'
      <3>1. s \in purge[w].slices
        BY <2>1, <2>3 DEF WillRead, WillDropFound
      <3>2. k \in found
        BY <2>3, <3>1
      <3>3. state.pc = "drop" /\ state.mode = purge[w].mode /\ state.found = found
        BY <1>1, <3>2 DEF PurgeState
      <3>4. purge[w].mode = "row"
        BY <1>1, <2>1 DEF Staged, AllModes
      <3>. HIDE DEF state, found
      <3>5. WillDropFound(w, k)'
        BY <2>2, <3>2, <3>3, <3>4 DEF WillDropFound
      <3>. QED BY <3>5 DEF Reached
    <2>. HIDE DEF state
    <2>. QED BY <2>1, <2>3, PurgeKeepsReached
  <1>5. ASSUME DropSweptScopedCacheEntries(w) PROVE KeepsReached
    <2>. DEFINE state == [purge[w] EXCEPT !.pc = IF purge[w].mode = "row" THEN "prune"
                                                                          ELSE "release"]
    <2>1. /\ purge' = [purge EXCEPT ![w] = state] /\ purge[w].pc = "drop"
          /\ entry' = [k \in Key |-> IF k \in purge[w].found THEN None ELSE entry[k]]
      BY <1>5 DEF DropSweptScopedCacheEntries
    <2>. HIDE DEF state
    <2>2. ASSUME NEW k \in Key, NEW s \in FiledIn[k], Stays(k),
                 WillRead(w, s) \/ WillDropFound(w, k)
          PROVE  FALSE
      BY <2>1, <2>2 DEF WillRead, WillDropFound, AllModes, Stays
    <2>. QED BY <2>1, <2>2, PurgeKeepsReached
  <1>6. ASSUME TakeSweptIndexKeys(w) PROVE KeepsReached
    <2>1. PICK sets \in SUBSET SweptId:
            purge' = [purge EXCEPT ![w] = [purge[w] EXCEPT !.pc = "collect", !.sets = sets,
                                                           !.unread = sets]]
      BY <1>6 DEF TakeSweptIndexKeys
    <2>. DEFINE state == [purge[w] EXCEPT !.pc = "collect", !.sets = sets, !.unread = sets]
    <2>2. state.pc = "collect" /\ state.todo = purge[w].todo
      BY <1>1 DEF PurgeState
    <2>3. /\ purge' = [purge EXCEPT ![w] = state] /\ purge[w].pc \in {"collection", "idle"}
      BY <1>6, <2>1 DEF TakeSweptIndexKeys
    <2>. HIDE DEF state
    <2>4. purge'[w] = state
      BY <1>1, <2>3
    <2>5. ASSUME NEW k \in Key, NEW s \in FiledIn[k], WillRead(w, s) \/ WillDropFound(w, k)
          PROVE  Reached(k, s)'
      <3>1. s \in purge[w].slices /\ purge[w].pc = "collection"
        BY <2>3, <2>5 DEF WillRead, WillDropFound, AllModes
      <3>2. s \in purge[w].todo
        BY <1>1, <3>1 DEF Staged, AllModes
      <3>3. WillRead(w, s)'
        BY <2>2, <2>4, <3>2 DEF WillRead
      <3>. QED BY <3>3 DEF Reached
    <2>. QED BY <2>3, <2>5, PurgeKeepsReached
  <1>7. ASSUME NEW s0 \in Slice, MoveIndexKey(w, s0) PROVE KeepsReached
    <2>. DEFINE state == [purge[w] EXCEPT !.todo = @ \ {s0}, !.unread = {<<w, s0>>},
                                          !.sets = @ \cup {<<w, s0>>}]
    <2>1. /\ purge' = [purge EXCEPT ![w] = state] /\ purge[w].pc = "collect"
      BY <1>7 DEF MoveIndexKey
    <2>2. state.pc = "collect" /\ state.todo = purge[w].todo \ {s0}
      BY <1>1, <2>1 DEF PurgeState
    <2>. HIDE DEF state
    <2>3. purge'[w] = state
      BY <1>1, <2>1
    <2>4. ASSUME NEW k \in Key, NEW s \in FiledIn[k], k \in index[s],
                 WillRead(w, s) \/ WillDropFound(w, k)
          PROVE  Reached(k, s)'
      <3>1. s \in purge[w].todo
        BY <2>1, <2>4 DEF WillRead, WillDropFound, AllModes
      <3>2. CASE s = s0
        <4>1. MovedAside(k, s)'
          BY <1>7, <2>4, <3>2, MoveNames
        <4>. QED BY <4>1 DEF Reached
      <3>3. CASE s # s0
        <4>1. WillRead(w, s)'
          BY <2>2, <2>3, <3>1, <3>3 DEF WillRead
        <4>. QED BY <4>1 DEF Reached
      <3>. QED BY <3>2, <3>3
    <2>. QED BY <2>1, <2>4, PurgeKeepsReached
  <1>8. ASSUME NEW id \in SweptId, CollectSweptIndexKeys(w, id) PROVE KeepsReached
    <2>. DEFINE state == [purge[w] EXCEPT !.unread = @ \ {id}, !.found = @ \cup swept[id]]
    <2>1. /\ purge' = [purge EXCEPT ![w] = state] /\ purge[w].pc = "collect"
      BY <1>8 DEF CollectSweptIndexKeys
    <2>2. state.pc = "collect" /\ state.todo = purge[w].todo
      BY <1>1, <2>1 DEF PurgeState
    <2>. HIDE DEF state
    <2>3. purge'[w] = state
      BY <1>1, <2>1
    <2>4. ASSUME NEW k \in Key, NEW s \in FiledIn[k], WillRead(w, s) \/ WillDropFound(w, k)
          PROVE  Reached(k, s)'
      <3>1. s \in purge[w].todo
        BY <2>1, <2>4 DEF WillRead, WillDropFound, AllModes
      <3>2. WillRead(w, s)'
        BY <2>2, <2>3, <3>1 DEF WillRead
      <3>. QED BY <3>2 DEF Reached
    <2>. QED BY <2>1, <2>4, PurgeKeepsReached
  <1>9. ASSUME ClearResponseCache(w) \/ FlushCacheRedisDatabase(w) PROVE KeepsReached
    BY <1>9 DEF ClearResponseCache, FlushCacheRedisDatabase, KeepsReached, Stays
  <1>10. ASSUME FlushRefused(w) PROVE KeepsReached
    <2>. DEFINE state == [purge[w] EXCEPT !.pc = "clear"]
    <2>1. purge' = [purge EXCEPT ![w] = state] /\ purge[w].pc = "flushdb"
      BY <1>10 DEF FlushRefused
    <2>2. state.pc = "clear" /\ state.slices = purge[w].slices
      BY <1>1 DEF PurgeState
    <2>. HIDE DEF state
    <2>3. purge'[w] = state
      BY <1>1, <2>1
    <2>4. ASSUME NEW k \in Key, NEW s \in FiledIn[k], WillRead(w, s) \/ WillDropFound(w, k)
          PROVE  Reached(k, s)'
      <3>1. s \in purge[w].slices
        BY <2>1, <2>4 DEF WillRead, WillDropFound
      <3>2. WillRead(w, s)'
        BY <2>2, <2>3, <3>1 DEF WillRead, AllModes
      <3>. QED BY <3>2 DEF Reached
    <2>. QED BY <2>1, <2>4, PurgeKeepsReached
  <1>11. ASSUME \/ RemoveIndexedEntries(w) \/ ReleaseSweptIndexKeys(w) \/ CollectDone(w)
                \/ DropScopedCacheIndexDone(w) \/ BumpAfterFlush(w)
                \/ \E s \in Slice: DropIndex(w, s)
         PROVE  KeepsReached
    BY <1>2, <1>11 DEF RemoveIndexedEntries, ReleaseSweptIndexKeys, CollectDone, DropIndex,
       DropScopedCacheIndexDone, BumpAfterFlush, AllModes
  <1>12. ASSUME DieAfterMove(w) PROVE KeepsReached
    BY <1>2, <1>12 DEF DieAfterMove, AllModes
  <1>. QED BY <1>3, <1>4, <1>5, <1>6, <1>7, <1>8, <1>9, <1>10, <1>11, <1>12, CommitReached
           DEF PurgeNext

(* A read that holds its entry keeps it, when it finds no counter moved, or   *)
(* goes on to evict it, has it recorded or gives up.                          *)
LEMMA CoverGoesOn ==
  ASSUME TypeOK, ~StoreReturns, NEW q \in Read, ReadNext(q), NEW k \in Key,
         Stays(k), Covers(q, k)
  PROVE  \/ MustEvict(q, k)' \/ k \in pending' \/ GivesUp(q)
         \/ Keeps(q) /\ ~Moved(q) /\ read[q].pc = "stored"
  <1>. DEFINE Goal == \/ MustEvict(q, k)' \/ k \in pending' \/ GivesUp(q)
                      \/ Keeps(q) /\ ~Moved(q) /\ read[q].pc = "stored"
  <1>1. read \in [Read -> ReadState] /\ read[q] \in ReadState
        /\ entry \in [Key -> [seen : Content, guarded : BOOLEAN] \cup {None}]
    BY DEF TypeOK
  <1>2. Stands(q) /\ read[q].key = k
    BY DEF Covers
  <1>3. ASSUME read'[q].key = k, read'[q].seen = read[q].seen PROVE Stands(q)'
    BY <1>2, <1>3 DEF Stands, Stays
  <1>4. ReadIdle.pc = "idle"
    BY DEF ReadIdle
  <1>5. ASSUME NEW p \in {"evicting", "recording"}, read' = [read EXCEPT ![q].pc = p]
        PROVE  Goal
    <2>1. read'[q] = [read[q] EXCEPT !.pc = p]
      BY <1>1, <1>5
    <2>2. read'[q].pc = p /\ read'[q].key = read[q].key /\ read'[q].seen = read[q].seen
      BY <1>1, <2>1 DEF ReadState
    <2>. QED BY <1>2, <1>3, <2>2 DEF MustEvict
  <1>6. ASSUME SweptDuringFill(q) PROVE Goal
    <2>1. read[q].pc = "stored" /\ read[q].guarded
      BY <1>6 DEF SweptDuringFill, Covers
    <2>2. CASE ~Moved(q) /\ read' = [read EXCEPT ![q] = ReadIdle]
      <3>1. read'[q].pc = "idle"
        BY <1>1, <1>4, <2>2
      <3>. QED BY <1>2, <2>1, <2>2, <3>1 DEF Keeps, Goes
    <2>. QED BY <1>5, <1>6, <2>1, <2>2 DEF SweptDuringFill
  <1>7. ASSUME DeleteEntry(q) PROVE Goal
    <2>1. PICK swallowed \in BOOLEAN:
            /\ entry' = IF swallowed THEN entry ELSE [entry EXCEPT ![read[q].key] = None]
            /\ read' = [read EXCEPT ![q] = [read[q] EXCEPT !.pc = "probing",
                                                           !.swallowed = swallowed]]
      BY <1>7 DEF DeleteEntry
    <2>2. swallowed
      BY <1>1, <1>2, <2>1 DEF Stays
    <2>3. /\ read'[q].pc = "probing" /\ read'[q].swallowed = swallowed
          /\ read'[q].key = read[q].key /\ read'[q].seen = read[q].seen
      BY <1>1, <2>1 DEF ReadState
    <2>. QED BY <1>2, <1>3, <2>2, <2>3 DEF MustEvict
  <1>8. ASSUME CacheStoreDropsEntries(q) PROVE Goal
    BY <1>5, <1>8 DEF CacheStoreDropsEntries, ProbeSucceeds, Covers
  <1>9. ASSUME RecordPendingScopedCachePurge(q) PROVE Goal
    <2>1. read[q].pc = "recording" /\ read'[q].pc = "idle"
      BY <1>1, <1>4, <1>9 DEF RecordPendingScopedCachePurge
    <2>. QED BY <1>2, <2>1 DEF GivesUp, Goes
  <1>10. read[q].pc \in {"stored", "evicting", "probing", "recording"}
    BY DEF Covers
  <1>. QED BY <1>6, <1>7, <1>8, <1>9, <1>10 DEF ReadNext, Lookup, ReadScopedCacheEpochs, Query,
       IndexScopedCacheEntry, IndexingFails, SetCacheValue

(* A read that is bound to evict an entry goes on to.                         *)
LEMMA ReadEvicts ==
  ASSUME TypeOK, ~StoreReturns, NEW q \in Read, ReadNext(q), NEW k \in Key,
         Stays(k), MustEvict(q, k)
  PROVE  MustEvict(q, k)' \/ k \in pending' \/ GivenUp(k)
  <1>1. Covers(q, k) /\ read[q].key = k
    BY DEF MustEvict, Covers
  <1>2. read[q].pc = "stored" => Moved(q)
    BY DEF MustEvict
  <1>. QED BY <1>1, <1>2, CoverGoesOn DEF GivenUp

(* What a step of a read leaves alone *)
LEMMA ReadLeaves ==
  ASSUME TypeOK, NEW q \in Read, ReadNext(q)
  PROVE  /\ UNCHANGED <<written, bumps, held, purge, swept>>
         /\ \A r \in Read \ {q}: read'[r] = read[r]
         /\ pending \subseteq pending'
         /\ \A s \in Slice: index[s] \subseteq index'[s]
  BY DEF TypeOK, ReadNext, Lookup, ReadScopedCacheEpochs, Query, IndexScopedCacheEntry,
     IndexingFails, SetCacheValue, SweptDuringFill, DeleteEntry, CacheStoreDropsEntries,
     RecordPendingScopedCachePurge

LEMMA ReadReached ==
  ASSUME GuardInv, SweepInv, ~StoreReturns, NEW q \in Read, ReadNext(q)
  PROVE  \A k \in Key: \A s \in FiledIn[k]:
           (Stays(k) /\ Reached(k, s)) => Reached(k, s)' \/ GivenUp(k)
  <1>1. TypeOK
    BY DEF SweepInv
  <1>2. /\ UNCHANGED <<written, bumps, held, purge, swept>>
        /\ \A r \in Read \ {q}: read'[r] = read[r]
        /\ pending \subseteq pending'
    BY <1>1, ReadLeaves
  <1>3. ASSUME NEW k \in Key, NEW s \in FiledIn[k], Stays(k), Reached(k, s)
        PROVE  Reached(k, s)' \/ GivenUp(k)
    <2>1. ASSUME NEW v \in Purger, WillRead(v, s) \/ WillDropFound(v, k)
          PROVE  (WillRead(v, s) \/ WillDropFound(v, k))'
      BY <1>2, <2>1 DEF WillRead, WillDropFound
    <2>2. MovedAside(k, s) => MovedAside(k, s)'
      BY <1>2 DEF MovedAside
    <2>3. ASSUME NEW r \in Read, r # q, MustEvict(r, k) PROVE MustEvict(r, k)'
      <3>1. read'[r] = read[r] /\ UNCHANGED <<bumps, held>>
        BY <1>2, <2>3
      <3>2. Moved(r) => Moved(r)'
        BY <3>1 DEF Moved, Epoch
      <3>. QED BY <1>3, <2>3, <3>1, <3>2 DEF MustEvict, Stands, Stays
    <2>4. CASE \E r \in Read: r # q /\ MustEvict(r, k)
      BY <2>3, <2>4 DEF Reached
    <2>5. CASE MustEvict(q, k)
      <3>1. MustEvict(q, k)' \/ k \in pending' \/ GivenUp(k)
        BY <1>1, <1>3, <2>5, ReadEvicts
      <3>. QED BY <3>1 DEF Reached
    <2>6. CASE ~\E r \in Read: MustEvict(r, k)
      BY <1>2, <1>3, <2>1, <2>2, <2>6 DEF Reached
    <2>. QED BY <2>4, <2>5, <2>6
  <1>. QED BY <1>3

(* A read writes an entry from what its query saw, and is bound to evict it   *)
(* when its counters have moved.                                              *)
LEMMA ReadStores ==
  ASSUME TypeOK, NEW q \in Read, ReadNext(q), NEW k \in Key, entry'[k] # None,
         entry'[k].guarded, entry'[k] # entry[k]
  PROVE  /\ read[q].pc = "filed" /\ read[q].guarded /\ read[q].key = k
         /\ entry'[k].seen = read[q].seen /\ written' = written
         /\ MustEvict(q, k)' \/ ~Moved(q)
         /\ Writes(q) /\ Covers(q, k)'
  <1>1. read \in [Read -> ReadState] /\ read[q] \in ReadState
        /\ entry \in [Key -> [seen : Content, guarded : BOOLEAN] \cup {None}]
    BY DEF TypeOK
  <1>2. SetCacheValue(q)
    <2>1. ~DeleteEntry(q)
      BY <1>1 DEF DeleteEntry
    <2>. QED BY <2>1 DEF ReadNext, Lookup, ReadScopedCacheEpochs, Query, IndexScopedCacheEntry,
             IndexingFails, SweptDuringFill, CacheStoreDropsEntries, RecordPendingScopedCachePurge
  <1>. DEFINE value == [seen |-> read[q].seen, guarded |-> read[q].guarded]
  <1>3. /\ read' = [read EXCEPT ![q] = [read[q] EXCEPT !.pc = "stored"]]
        /\ read[q].pc = "filed" /\ read[q].key \in Key
        /\ entry' = [entry EXCEPT ![read[q].key] = value]
        /\ UNCHANGED <<written, bumps, held>>
    BY <1>1, <1>2 DEF SetCacheValue, TypeOK
  <1>4. /\ read'[q].pc = "stored" /\ read'[q].key = read[q].key
        /\ read'[q].guarded = read[q].guarded /\ read'[q].epochs = read[q].epochs
        /\ read'[q].seen = read[q].seen
    BY <1>1, <1>3 DEF ReadState
  <1>5. k = read[q].key /\ entry'[k] = value
    BY <1>1, <1>3
  <1>6. Moved(q) => Moved(q)'
    BY <1>3, <1>4 DEF Moved, Epoch
  <1>7. Stands(q)'
    BY <1>3, <1>4, <1>5 DEF Stands
  <1>. QED BY <1>3, <1>4, <1>5, <1>6, <1>7 DEF MustEvict, Covers, Writes, Goes

(* When a slice it saw was superseded and its counters have not moved, the    *)
(* purge of that slice has yet to look for the entry.                         *)
LEMMA ReadWrites ==
  ASSUME GuardInv, HistoryNext, NEW q \in Read, ReadNext(q), NEW k \in Key,
         NEW s \in Stale(k)', entry'[k] # entry[k]
  PROVE  \/ MustEvict(q, k)'
         \/ /\ read[q].pc = "filed" /\ read[q].guarded /\ read[q].key = k /\ ~Moved(q)
            /\ \E w \in Purger: purge[w].pc = "committed" /\ s \in purge[w].slices
  <1>1. PICK w \in written'[s]: /\ entry'[k] # None /\ entry'[k].guarded /\ s \in FiledIn[k]
                               /\ w \notin entry'[k].seen[s] /\ w \notin forgotten'
                               /\ w \notin kept'[k]
    BY DEF Stale, Missed
  <1>2. /\ read[q].pc = "filed" /\ read[q].guarded /\ read[q].key = k
        /\ entry'[k].seen = read[q].seen /\ written' = written
        /\ MustEvict(q, k)' \/ ~Moved(q)
        /\ Writes(q)
    BY <1>1, ReadStores DEF GuardInv
  <1>3. w \notin lost[q]
    <2>1. s \in Slice /\ TypeOK' /\ w \in Mutation
      BY <1>1, StepTypes, SliceAssumption DEF SliceAssumption, GuardInv, HistoryNext, TypeOK,
         Content
    <2>. QED BY <1>1, <1>2, <2>1 DEF HistoryNext, RememberKept
  <1>4. forgotten' = forgotten
    <2>1. UNCHANGED <<bumps, purge>>
      BY ReadStep DEF GuardInv
    <2>. QED BY <2>1 DEF HistoryNext, RememberForgotten, FlushedUnmoved
  <1>5. s \in Slice /\ w \in Purger
    BY <1>1, <1>2, SliceAssumption DEF SliceAssumption, GuardInv, TypeOK, Content, Purger
  <1>6. w \in Missed(read[q].seen, s) \ lost[q]
    BY <1>1, <1>2, <1>3, <1>4 DEF Missed
  <1>7. Moved(q) \/ purge[w].pc = "committed"
    BY <1>1, <1>2, <1>6 DEF GuardInv, GuardCatchesEveryPurge, Filling
  <1>8. purge[w].pc = "committed" => s \in purge[w].slices
    BY <1>1, <1>2, <1>5 DEF GuardInv, WrittenPurged
  <1>. QED BY <1>2, <1>5, <1>7, <1>8

LEMMA StoreReached ==
  ASSUME GuardInv, SweepInv, StoreNext
  PROVE  \A k \in Key: \A s \in FiledIn[k]: (Stays(k) /\ Reached(k, s)) => Reached(k, s)'
  <1>1. CountersStep /\ UNCHANGED <<swept, read, purge, pending>>
    <2>1. UNCHANGED pending
      BY DEF StoreNext, ReapIndexMember, ExpireEntry, ExpireEpoch
    <2>. QED BY <2>1, StoreCounters DEF SweepInv
  <1>2. ASSUME NEW k \in Key, NEW s \in FiledIn[k], Stays(k), Reached(k, s)
        PROVE  Reached(k, s)'
    <2>1. ASSUME NEW v \in Purger, WillRead(v, s) \/ WillDropFound(v, k)
          PROVE  (WillRead(v, s) \/ WillDropFound(v, k))'
      BY <1>1, <2>1 DEF WillRead, WillDropFound
    <2>2. MovedAside(k, s) => MovedAside(k, s)'
      BY <1>1 DEF MovedAside
    <2>3. ASSUME NEW r \in Read, MustEvict(r, k) PROVE MustEvict(r, k)'
      BY <1>1, <1>2, <2>3, ReadsStillEvict
    <2>. QED BY <1>1, <1>2, <2>1, <2>2, <2>3 DEF Reached
  <1>. QED BY <1>2

LEMMA StepKeepsReached ==
  ASSUME GuardInv, SweepInv, ~StoreReturns, [Next]_vars
  PROVE  KeepsReached
  <1>1. CASE UNCHANGED vars
    <2>1. UNCHANGED <<bumps, held, read, purge, swept, pending>>
      BY <1>1 DEF vars
    <2>2. ASSUME NEW k \in Key, NEW s \in FiledIn[k], Stays(k), Reached(k, s)
          PROVE  Reached(k, s)'
      <3>1. \A r \in Read: MustEvict(r, k) => MustEvict(r, k)'
        BY <2>1, <2>2, ReadsStillEvict DEF CountersStep
      <3>2. \A w \in Purger: WillRead(w, s) \/ WillDropFound(w, k)
                               => (WillRead(w, s) \/ WillDropFound(w, k))'
        BY <2>1 DEF WillRead, WillDropFound
      <3>3. MovedAside(k, s) => MovedAside(k, s)'
        BY <2>1 DEF MovedAside
      <3>. QED BY <2>1, <2>2, <3>1, <3>2, <3>3 DEF Reached
    <2>. QED BY <2>2 DEF KeepsReached
  <1>2. CASE Next
    BY <1>2, ReadReached, PurgeReached, StoreReached DEF Next, KeepsReached
  <1>. QED BY <1>1, <1>2

(* The only entry a step writes is a read's ... *)
LEMMA StepWrites ==
  ASSUME GuardInv, [Next]_vars, NEW k \in Key, entry'[k] # None, entry'[k] # entry[k]
  PROVE  \E q \in Read: ReadNext(q)
  <1>1. entry' # entry
    OBVIOUS
  <1>2. ~StoreNext
    BY <1>1 DEF StoreNext, ReapIndexMember, ExpireEntry, ExpireEpoch, GuardInv, TypeOK
  <1>3. ASSUME NEW w \in Purger, PurgeNext(w) PROVE FALSE
    <2>1. entry' = entry \/ DropSweptScopedCacheEntries(w) \/ ClearResponseCache(w)
          \/ FlushCacheRedisDatabase(w)
      BY <1>3 DEF PurgeNext, Commit, BumpScopedCacheEpochs, ScanRowIndexedEntries,
         RemoveIndexedEntries, TakeSweptIndexKeys, CollectDone, MoveIndexKey, DropIndex,
         CollectSweptIndexKeys, ReleaseSweptIndexKeys, DieAfterMove,
         DropScopedCacheIndexDone, BumpAfterFlush, FlushRefused
    <2>. QED BY <1>1, <2>1 DEF DropSweptScopedCacheEntries, ClearResponseCache,
           FlushCacheRedisDatabase
  <1>4. ~UNCHANGED vars
    BY <1>1 DEF vars
  <1>. QED BY <1>2, <1>3, <1>4 DEF Next

(* A flush that moves no counter leaves no entry.                             *)
LEMMA FlushEmpties ==
  ASSUME TypeOK, [Next]_vars, FlushedUnmoved
  PROVE  \A k \in Key: entry'[k] = None
  <1>1. PICK v \in Purger: purge[v].pc = "flushdb" /\ purge'[v].pc = "rebump"
    BY DEF FlushedUnmoved
  <1>2. PICK w \in Purger: PurgeNext(w)
    BY <1>1, StepPurges
  <1>3. w = v /\ purge[v] \in PurgeState /\ purge \in [Purger -> PurgeState]
    BY <1>1, <1>2, PurgeGoesOn DEF TypeOK
  <1>4. FlushCacheRedisDatabase(v)
    <2>1. ASSUME FlushRefused(v) PROVE FALSE
      <3>1. purge' = [purge EXCEPT ![v] = [purge[v] EXCEPT !.pc = "clear"]]
        BY <2>1 DEF FlushRefused
      <3>2. purge'[v].pc = "clear"
        BY <1>3, <3>1 DEF PurgeState
      <3>. QED BY <1>1, <3>2
    <2>2. ASSUME NEW s \in Slice PROVE ~MoveIndexKey(v, s) /\ ~DropIndex(v, s)
      BY <1>1 DEF MoveIndexKey, DropIndex
    <2>3. ASSUME NEW id \in SweptId PROVE ~CollectSweptIndexKeys(v, id)
      BY <1>1 DEF CollectSweptIndexKeys
    <2>4. ASSUME NEW s \in Slice, NEW mode \in Modes PROVE ~Commit(v, s, mode)
      BY <1>1 DEF Commit
    <2>5. ~TakeSweptIndexKeys(v) /\ ~DieAfterMove(v)
      BY <1>1 DEF TakeSweptIndexKeys, DieAfterMove
    <2>6. /\ ~BumpScopedCacheEpochs(v) /\ ~ScanRowIndexedEntries(v)
          /\ ~DropSweptScopedCacheEntries(v) /\ ~RemoveIndexedEntries(v)
          /\ ~CollectDone(v) /\ ~ReleaseSweptIndexKeys(v) /\ ~ClearResponseCache(v)
          /\ ~DropScopedCacheIndexDone(v) /\ ~BumpAfterFlush(v)
      BY <1>1 DEF BumpScopedCacheEpochs, ScanRowIndexedEntries, DropSweptScopedCacheEntries,
         RemoveIndexedEntries, CollectDone, ReleaseSweptIndexKeys, ClearResponseCache,
         DropScopedCacheIndexDone, BumpAfterFlush
    <2>. QED BY <1>2, <1>3, <2>1, <2>2, <2>3, <2>4, <2>5, <2>6 DEF PurgeNext
  <1>. QED BY <1>4 DEF FlushCacheRedisDatabase

(* What is kept as it is under a key only grows while its entry stays.        *)
LEMMA StaysKept ==
  ASSUME HistoryNext, NEW k \in Key, Stays(k)
  PROVE  \A w \in Mutation:
           (\/ w \in kept[k] \/ GivenUp(k)
            \/ \E q \in Read: Keeps(q) /\ read[q].key = k /\ w \in forgotten) => w \in kept'[k]
  <1>1. RememberKept
    BY DEF HistoryNext
  <1>2. ASSUME NEW w \in Mutation, w \in kept[k] PROVE w \in kept'[k]
    BY <1>1, <1>2 DEF RememberKept, Stays
  <1>3. ASSUME NEW w \in Mutation, GivenUp(k) PROVE w \in kept'[k]
    BY <1>1, <1>3 DEF RememberKept, GivenUp
  <1>4. ASSUME NEW w \in Mutation, NEW q \in Read, Keeps(q), read[q].key = k, w \in forgotten
        PROVE  w \in kept'[k]
    BY <1>1, <1>4 DEF RememberKept
  <1>. QED BY <1>2, <1>3, <1>4

(* Whoever gives up evicting an entry keeps it as it is.                      *)
LEMMA GivenUpIsKept ==
  ASSUME TypeOK', HistoryNext, NEW k \in Key, Stays(k), GivenUp(k)
  PROVE  Stale(k)' = {}
  <1>1. Mutation \subseteq kept'[k]
    BY StaysKept
  <1>2. \A s \in FiledIn[k]: written'[s] \subseteq Mutation
    BY SliceAssumption DEF SliceAssumption, TypeOK, Content
  <1>. QED BY <1>1, <1>2 DEF Stale, Missed

LEMMA GapKept ==
  ASSUME GuardInv, GapHeld, ~StoreReturns, HistoryNext
  PROVE  GapHeld'
  <1>1. TypeOK /\ TypeOK' /\ [Next]_vars
    BY StepTypes DEF GuardInv, HistoryNext
  <1>2. SUFFICES ASSUME NEW k \in Key, entry'[k] # None, entry'[k].guarded,
                        NEW s \in FiledIn[k], NEW w \in forgotten' \cap written'[s],
                        w \notin entry'[k].seen[s], w \notin kept'[k]
                 PROVE  (\E r \in Read: Covers(r, k)') \/ k \in pending'
    BY DEF GapHeld
  <1>3. w \in forgotten /\ forgotten' = forgotten
    BY <1>1, <1>2, FlushEmpties DEF HistoryNext, RememberForgotten
  <1>4. s \in Slice
    BY SliceAssumption DEF SliceAssumption
  <1>5. w \in written[s]
    <2>1. purge[w].pc # "idle"
      BY <1>3 DEF GuardInv, ForgottenBegun, Begun
    <2>. QED BY <1>1, <1>2, <1>4, <2>1, StepCommits
  <1>6. CASE entry'[k] # entry[k]
    <2>1. PICK q \in Read: ReadNext(q)
      BY <1>1, <1>2, <1>6, StepWrites
    <2>2. Covers(q, k)'
      BY <1>1, <1>2, <1>6, <2>1, ReadStores
    <2>. QED BY <2>2
  <1>7. CASE entry'[k] = entry[k]
    <2>1. Stays(k)
      BY <1>2, <1>7 DEF Stays
    <2>2. /\ w \notin kept[k] /\ ~GivenUp(k)
          /\ \A q \in Read: ~(Keeps(q) /\ read[q].key = k)
      <3>1. w \in Mutation
        BY <1>3 DEF GuardInv, ForgottenBegun, Begun
      <3>. QED BY <1>2, <1>3, <2>1, <3>1, StaysKept
    <2>3. (\E r \in Read: Covers(r, k)) \/ k \in pending
      BY <1>2, <1>3, <1>5, <1>7, <2>2 DEF GapHeld
    <2>4. pending \subseteq pending'
      <3>1. StoreNext => UNCHANGED pending
        BY DEF StoreNext, ReapIndexMember, ExpireEntry, ExpireEpoch
      <3>. QED BY <1>1, <3>1, ReadLeaves, PurgeCounters DEF Next, vars
    <2>5. ASSUME NEW r \in Read, Covers(r, k)
          PROVE  (\E q \in Read: Covers(q, k)') \/ k \in pending'
      <3>1. CASE read'[r] = read[r]
        <4>1. Covers(r, k)'
          BY <1>2, <1>7, <2>5, <3>1 DEF Covers, Stands
        <4>. QED BY <4>1
      <3>2. CASE ReadNext(r)
        <4>1. MustEvict(r, k)' \/ k \in pending'
          BY <1>1, <2>1, <2>2, <2>5, <3>2, CoverGoesOn DEF GivenUp, Covers
        <4>2. MustEvict(r, k)' => Covers(r, k)'
          BY DEF MustEvict, Covers
        <4>. QED BY <4>1, <4>2
      <3>3. ASSUME NEW q \in Read, ReadNext(q) PROVE read'[r] = read[r] \/ q = r
        BY <1>1, <3>3, ReadStep
      <3>4. CASE UNCHANGED vars
        BY <3>1, <3>4 DEF vars
      <3>. QED BY <1>1, <3>1, <3>2, <3>3, <3>4, PurgeCounters, StoreCounters DEF Next
    <2>. QED BY <2>3, <2>4, <2>5
  <1>. QED BY <1>6, <1>7

(* What a step that leaves an entry makes stale is the slice of a commit,     *)
(* whose purge has yet to look for the entries that saw it, or one whose      *)
(* counter was forgotten: its fill finds that the wholesale one moved.        *)
LEMMA StepSupersedes ==
  ASSUME GuardInv, GapHeld, HistoryNext, NEW k \in Key, entry'[k] = entry[k],
         NEW s \in Stale(k)'
  PROVE  \/ s \in Stale(k)
         \/ \E w \in Mutation: /\ purge[w].pc = "idle"
                               /\ purge'[w].pc = "committed" /\ s \in purge'[w].slices
         \/ \E r \in Read: MustEvict(r, k)'
         \/ k \in pending'
  <1>1. TypeOK /\ TypeOK' /\ [Next]_vars
    BY StepTypes DEF GuardInv, HistoryNext
  <1>2. PICK w \in written'[s]: /\ entry[k] # None /\ entry[k].guarded /\ s \in FiledIn[k]
                               /\ w \notin entry[k].seen[s] /\ w \notin forgotten'
                               /\ w \notin kept'[k]
    BY DEF Stale, Missed
  <1>3. s \in Slice /\ w \notin kept[k]
    <2>1. s \in Slice /\ w \in Mutation
      BY <1>1, <1>2, SliceAssumption DEF SliceAssumption, TypeOK, Content
    <2>. QED BY <1>2, <2>1, StaysKept DEF Stays
  <1>4. CASE w \notin written[s]
    BY <1>1, <1>2, <1>3, <1>4, StepCommits
  <1>5. CASE w \in written[s] /\ w \notin forgotten
    BY <1>2, <1>3, <1>5 DEF Stale, Missed
  <1>6. CASE w \in written[s] /\ w \in forgotten
    <2>1. ~FlushedUnmoved
      BY <1>1, <1>2, FlushEmpties
    <2>2. bumps'[Star] # bumps[Star]
      BY <1>2, <1>6, <2>1 DEF HistoryNext, RememberForgotten
    <2>3. read' = read /\ \E c \in Counter: bumps' = [bumps EXCEPT ![c] = @ + 1] /\ held'[c]
      BY <1>1, <2>1, <2>2, StepCounters DEF CountersStep, ExpireEpoch
    <2>4. pending \subseteq pending'
      <3>1. StoreNext => UNCHANGED pending
        BY DEF StoreNext, ReapIndexMember, ExpireEntry, ExpireEpoch
      <3>. QED BY <1>1, <3>1, ReadLeaves, PurgeCounters DEF Next, vars
    <2>5. (\E r \in Read: Covers(r, k)) \/ k \in pending
      BY <1>2, <1>3, <1>6 DEF GapHeld
    <2>6. ASSUME NEW r \in Read, Covers(r, k) PROVE MustEvict(r, k)'
      <3>1. read[r].guarded => Moved(r)'
        BY <2>3, BumpMovesReadings
      <3>2. Stands(r)' /\ read'[r] = read[r]
        BY <1>2, <2>3, <2>6 DEF Covers, Stands
      <3>. QED BY <2>6, <3>1, <3>2 DEF Covers, MustEvict
    <2>. QED BY <2>4, <2>5, <2>6
  <1>. QED BY <1>4, <1>5, <1>6

LEMMA QuietSweeps ==
  ASSUME SweepInv, UNCHANGED <<purge, swept>>
  PROVE  Stages' /\ UnmovedSets'
  BY DEF SweepInv, Stages, UnmovedSets, Unmoved

LEMMA InitSweeps == Init => SweepInv
  <1>. SUFFICES ASSUME Init PROVE Stages /\ UnmovedSets
    BY InitTypes DEF SweepInv
  <1>1. \A w \in Purger: purge[w] = PurgeIdle
    BY DEF Init
  <1>2. Stages
    BY <1>1, IdleStaged DEF Stages
  <1>3. \A w \in Purger: \A s \in Slice: swept[<<w, s>>] = {}
    BY DEF Init, SweptId
  <1>. QED BY <1>1, <1>2, <1>3 DEF UnmovedSets, PurgeIdle

LEMMA StepSweeps == SweepInv /\ [Next]_vars => SweepInv'
  <1>. SUFFICES ASSUME SweepInv, [Next]_vars PROVE Stages' /\ UnmovedSets'
    BY StepTypes DEF SweepInv
  <1>1. CASE UNCHANGED vars
    BY <1>1, QuietSweeps DEF vars
  <1>2. ASSUME NEW r \in Read, ReadNext(r) PROVE Stages' /\ UnmovedSets'
    <2>1. UNCHANGED <<purge, swept>>
      BY <1>2 DEF ReadNext, Lookup, ReadScopedCacheEpochs, Query, IndexScopedCacheEntry,
             IndexingFails, SetCacheValue, SweptDuringFill, DeleteEntry,
             CacheStoreDropsEntries, RecordPendingScopedCachePurge
    <2>. QED BY <2>1, QuietSweeps
  <1>3. ASSUME StoreNext PROVE Stages' /\ UnmovedSets'
    <2>1. UNCHANGED <<purge, swept>>
      BY <1>3 DEF StoreNext, ReapIndexMember, ExpireEntry, ExpireEpoch
    <2>. QED BY <2>1, QuietSweeps
  <1>. QED BY <1>1, <1>2, <1>3, PurgeSweeps DEF Next

LEMMA InitReached == HistoryInit => ReachInv
  <1>. SUFFICES ASSUME HistoryInit PROVE FilingsKept /\ GapHeld /\ StaleFilingIsReached
    BY InitGuards, InitSweeps DEF HistoryInit, ReachInv
  <1>1. \A k \in Key: entry[k] = None
    BY DEF HistoryInit, Init
  <1>. QED BY <1>1 DEF FilingsKept, GapHeld, StaleFilingIsReached, Stale

LEMMA StillGap ==
  ASSUME GapHeld, UNCHANGED historyVars
  PROVE  GapHeld'
  <1>1. /\ UNCHANGED <<written, bumps, held, entry, read, pending>>
        /\ UNCHANGED <<kept, forgotten>>
    BY DEF historyVars, vars, history
  <1>2. \A r \in Read: Stands(r)' <=> Stands(r)
    BY <1>1 DEF Stands
  <1>. QED BY <1>1, <1>2 DEF GapHeld, Covers

LEMMA StillReached ==
  ASSUME ReachInv, UNCHANGED historyVars
  PROVE  FilingsKept' /\ GapHeld' /\ StaleFilingIsReached'
  <1>1. /\ UNCHANGED <<written, bumps, held, entry, index, swept, read, purge, pending>>
        /\ UNCHANGED <<kept, forgotten, unnamed>>
    BY DEF historyVars, vars, history
  <1>2. \A r \in Read: (Stands(r)' <=> Stands(r)) /\ (Moved(r)' <=> Moved(r))
    BY <1>1 DEF Stands, Moved, Epoch
  <1>3. \A k \in Key, s \in Slice: MovedAside(k, s)' <=> MovedAside(k, s)
    BY <1>1 DEF MovedAside
  <1>4. \A k \in Key: \A s \in FiledIn[k]: s \in Slice
    BY SliceAssumption DEF SliceAssumption
  <1>5. FilingsKept'
    BY <1>1, <1>3, <1>4 DEF ReachInv, FilingsKept, Named
  <1>6. GapHeld'
    BY StillGap DEF ReachInv
  <1>7. ASSUME NEW k \in Key, NEW s \in Stale(k)', <<k, s>> \notin unnamed'
        PROVE  Reached(k, s)'
    <2>1. s \in Stale(k) /\ s \in FiledIn[k] /\ <<k, s>> \notin unnamed
      BY <1>1, <1>7 DEF Stale, Missed
    <2>2. Reached(k, s)
      BY <2>1 DEF ReachInv, StaleFilingIsReached
    <2>3. \A r \in Read: MustEvict(r, k) => MustEvict(r, k)'
      BY <1>1, <1>2 DEF MustEvict
    <2>4. \A w \in Purger: WillRead(w, s) \/ WillDropFound(w, k)
                             => (WillRead(w, s) \/ WillDropFound(w, k))'
      BY <1>1 DEF WillRead, WillDropFound
    <2>. QED BY <1>1, <1>3, <1>4, <2>1, <2>2, <2>3, <2>4 DEF Reached
  <1>. QED BY <1>5, <1>6, <1>7 DEF StaleFilingIsReached

LEMMA StepReached == ~StoreReturns /\ ReachInv /\ [HistoryNext]_historyVars => ReachInv'
  <1>. SUFFICES ASSUME ~StoreReturns, ReachInv, [HistoryNext]_historyVars PROVE ReachInv'
    OBVIOUS
  <1>1. [Next]_vars /\ GuardInv /\ SweepInv /\ GapHeld
    BY HistorySteps DEF ReachInv
  <1>2. GuardInv' /\ SweepInv' /\ KeepsReached
    BY <1>1, StepGuards, StepSweeps, StepKeepsReached
  <1>3. CASE UNCHANGED historyVars
    BY <1>2, <1>3, StillReached DEF ReachInv
  <1>4. CASE HistoryNext
    <2>1. Unname /\ FilingsKept' /\ GapHeld'
      BY <1>1, <1>4, UnnameFilings, GapKept DEF HistoryNext
    <2>2. ASSUME NEW k \in Key, NEW s \in Stale(k)', <<k, s>> \notin unnamed'
          PROVE  Reached(k, s)'
      <3>1. entry'[k] # None /\ s \in FiledIn[k]
        BY <2>2 DEF Stale
      <3>2. Named(k, s)'
        BY <2>1, <2>2, <3>1 DEF FilingsKept
      <3>3. CASE entry'[k] = entry[k]
        <4>1. CASE s \in Stale(k)
          <5>1. <<k, s>> \notin unnamed
            BY <2>1, <2>2, <3>1, <3>3, WasNamed
          <5>2. Reached(k, s) /\ Named(k, s) /\ Stays(k)
            BY <3>1, <3>3, <4>1, <5>1 DEF ReachInv, StaleFilingIsReached, FilingsKept, Stays
          <5>3. ~GivenUp(k)
            BY <1>2, <1>4, <2>2, <5>2, GivenUpIsKept DEF GuardInv
          <5>. QED BY <1>2, <3>1, <3>2, <5>2, <5>3 DEF KeepsReached
        <4>2. ASSUME NEW w \in Mutation, purge'[w].pc = "committed", s \in purge'[w].slices
              PROVE  Reached(k, s)'
          <5>1. WillRead(w, s)' /\ w \in Purger
            BY <4>2 DEF WillRead, Purger
          <5>. QED BY <5>1 DEF Reached
        <4>3. (\E r \in Read: MustEvict(r, k)') \/ k \in pending' => Reached(k, s)'
          BY DEF Reached
        <4>. QED BY <1>1, <1>4, <2>2, <3>3, <4>1, <4>2, <4>3, StepSupersedes
      <3>4. CASE entry'[k] # entry[k]
        <4>1. PICK q \in Read: ReadNext(q)
          BY <1>1, <3>1, <3>4, StepWrites
        <4>2. \/ MustEvict(q, k)'
              \/ \E w \in Purger: purge[w].pc = "committed" /\ s \in purge[w].slices
          BY <1>1, <1>4, <2>2, <3>4, <4>1, ReadWrites
        <4>3. ASSUME NEW w \in Purger, purge[w].pc = "committed", s \in purge[w].slices
              PROVE  Reached(k, s)'
          <5>1. purge' = purge
            BY <1>1, <4>1, ReadStep DEF GuardInv
          <5>2. WillRead(w, s)'
            BY <4>3, <5>1 DEF WillRead
          <5>. QED BY <5>2 DEF Reached
        <4>4. CASE MustEvict(q, k)'
          BY <4>4 DEF Reached
        <4>. QED BY <4>2, <4>3, <4>4
      <3>. QED BY <3>3, <3>4
    <2>3. StaleFilingIsReached'
      BY <2>2 DEF StaleFilingIsReached
    <2>. QED BY <1>2, <2>1, <2>3 DEF ReachInv
  <1>. QED BY <1>3, <1>4

(* However many fills and purges of any kind cross, whatever dies, fails, is  *)
(* refused, swallowed, reaped or expires: an entry that holds a superseded    *)
(* slice, and that was named there as long as it was kept, has a purge, an    *)
(* eviction, a set moved aside or a recorded retry coming. What is excepted   *)
(* is what its fill was not told of, as redis refused to move the counter or  *)
(* flushed it without moving the wholesale one, and an entry its fill failed  *)
(* to evict and to record. The store must not come back between a delete it   *)
(* swallowed and the probe that checks on it.                                 *)
THEOREM StaleFilingsReached == ~StoreReturns => (HistorySpec => []StaleFilingIsReached)
  <1>. SUFFICES ASSUME ~StoreReturns PROVE HistorySpec => []StaleFilingIsReached
    OBVIOUS
  <1>1. ReachInv => StaleFilingIsReached
    BY DEF ReachInv
  <1>2. ReachInv /\ [HistoryNext]_historyVars => ReachInv'
    BY StepReached
  <1>. QED BY <1>1, <1>2, InitReached, PTL DEF HistorySpec

-----------------------------------------------------------------------------
(* What a purge spares. A set names only the entries that depend on its       *)
(* slice, so a purge finds only entries of the slices it is about.            *)

IndexIsFiled ==
  /\ \A s \in Slice: \A k \in index[s]: s \in FiledIn[k]
  /\ \A id \in SweptId: \A k \in swept[id]: id[2] \in FiledIn[k]

About(p, k) == \E s \in FiledIn[k]: s \in p.slices \/ \E id \in p.sets: id[2] = s

Collected(p) ==
  /\ p.unread \subseteq p.sets
  /\ p.pc \in {"idle", "committed"} \cup AllModes => p.found = {} /\ p.unread = {}
  /\ \A k \in p.found: About(p, k)

FoundInv == SweepInv /\ IndexIsFiled /\ \A w \in Purger: Collected(purge[w])

LEMMA FoundKept ==
  ASSUME FoundInv, IndexIsFiled', NEW w \in Purger, NEW state, Collected(state),
         purge' = [purge EXCEPT ![w] = state], SweepInv'
  PROVE  FoundInv'
  <1>1. \A v \in Purger: purge'[v] = IF v = w THEN state ELSE purge[v]
    BY DEF FoundInv, SweepInv, TypeOK
  <1>2. ASSUME NEW v \in Purger PROVE Collected(purge[v])'
    <2>1. Collected(purge'[v])
      BY <1>1 DEF FoundInv
    <2>. QED BY <2>1 DEF Collected, About
  <1>. QED BY <1>2 DEF FoundInv

LEMMA IdleCollected == Collected(PurgeIdle) /\ Collected(PurgeDone)
  BY DEF Collected, PurgeIdle, PurgeDone

LEMMA PurgeFound ==
  ASSUME FoundInv, SweepInv', NEW w \in Purger, PurgeNext(w)
  PROVE  FoundInv'
  <1>1. /\ purge[w] \in PurgeState /\ purge \in [Purger -> PurgeState]
        /\ swept \in [SweptId -> SUBSET Key] /\ index \in [Slice -> SUBSET Key]
    BY DEF FoundInv, SweepInv, TypeOK
  <1>2. Collected(purge[w]) /\ Staged(purge[w], swept)
    BY DEF FoundInv, SweepInv, Stages
  <1>3. \A s \in Slice: <<w, s>> \in SweptId /\ <<w, s>>[2] = s
    BY DEF SweptId
  <1>4. ASSUME UNCHANGED <<index, swept>> PROVE IndexIsFiled'
    BY <1>4 DEF FoundInv, IndexIsFiled
  <1>5. ASSUME \A s \in Slice: index'[s] \subseteq index[s],
               \A id \in SweptId: swept'[id] \subseteq swept[id]
        PROVE  IndexIsFiled'
    BY <1>5 DEF FoundInv, IndexIsFiled
  <1>6. ASSUME NEW p \in {"drop", "prune", "release", "dropIndex", "rebump"} \cup AllModes,
               p \in AllModes => purge[w].pc \in {"committed"} \cup AllModes,
               NEW todo, purge' = [purge EXCEPT ![w] = [purge[w] EXCEPT !.pc = p, !.todo = todo]],
               IndexIsFiled'
        PROVE  FoundInv'
    <2>. DEFINE state == [purge[w] EXCEPT !.pc = p, !.todo = todo]
    <2>1. /\ state.pc = p /\ state.slices = purge[w].slices /\ state.sets = purge[w].sets
          /\ state.unread = purge[w].unread /\ state.found = purge[w].found
      BY <1>1 DEF PurgeState
    <2>2. purge' = [purge EXCEPT ![w] = state]
      BY <1>6
    <2>. HIDE DEF state
    <2>3. Collected(state)
      BY <1>2, <1>6, <2>1 DEF Collected, About, AllModes
    <2>. QED BY <1>6, <2>2, <2>3, FoundKept
  <1>7. ASSUME NEW p, purge' = [purge EXCEPT ![w] = [purge[w] EXCEPT !.pc = p]]
        PROVE  purge' = [purge EXCEPT ![w] = [purge[w] EXCEPT !.pc = p, !.todo = purge[w].todo]]
    <2>1. [purge[w] EXCEPT !.pc = p] = [purge[w] EXCEPT !.pc = p, !.todo = purge[w].todo]
      BY <1>1 DEF PurgeState
    <2>. QED BY <1>7, <2>1
  <1>8. ASSUME purge' = [purge EXCEPT ![w] = PurgeDone], IndexIsFiled' PROVE FoundInv'
    BY <1>8, IdleCollected, FoundKept
  <1>9. ASSUME NEW s \in Slice, NEW mode \in Modes, Commit(w, s, mode) PROVE FoundInv'
    <2>. DEFINE state == [PurgeIdle EXCEPT !.pc = "committed", !.mode = mode,
                                           !.counter = PurgeCounter(mode, s),
                                           !.slices = PurgedSlices(mode, s),
                                           !.todo = PurgedSlices(mode, s)]
    <2>1. state.unread = {} /\ state.sets = {} /\ state.found = {}
      BY DEF PurgeIdle
    <2>2. purge' = [purge EXCEPT ![w] = state] /\ IndexIsFiled'
      BY <1>4, <1>9 DEF Commit
    <2>. HIDE DEF state
    <2>. QED BY <2>1, <2>2, FoundKept DEF Collected
  <1>10. ASSUME BumpScopedCacheEpochs(w) PROVE FoundInv'
    <2>1. /\ purge' = [purge EXCEPT ![w] = [purge[w] EXCEPT !.pc = purge[w].mode]]
          /\ IndexIsFiled' /\ purge[w].pc = "committed" /\ purge[w].mode \in AllModes
      BY <1>1, <1>4, <1>10 DEF BumpScopedCacheEpochs, PurgeState
    <2>. QED BY <1>6, <1>7, <2>1
  <1>11. ASSUME ScanRowIndexedEntries(w) PROVE FoundInv'
    <2>. DEFINE found == UNION {index[s] : s \in purge[w].slices}
    <2>. DEFINE state == [purge[w] EXCEPT !.found = found, !.pc = "drop"]
    <2>1. /\ \/ purge' = [purge EXCEPT ![w] = PurgeDone]
             \/ purge' = [purge EXCEPT ![w] = state]
          /\ IndexIsFiled'
      BY <1>4, <1>11 DEF ScanRowIndexedEntries
    <2>2. /\ state.pc = "drop" /\ state.slices = purge[w].slices /\ state.sets = purge[w].sets
          /\ state.unread = purge[w].unread /\ state.found = found
      BY <1>1 DEF PurgeState
    <2>3. ASSUME NEW k \in found PROVE About(state, k)
      <3>1. PICK s \in purge[w].slices: k \in index[s]
        OBVIOUS
      <3>2. s \in FiledIn[k]
        BY <1>1, <3>1 DEF FoundInv, IndexIsFiled, PurgeState
      <3>. QED BY <2>2, <3>1, <3>2 DEF About
    <2>. HIDE DEF state, found
    <2>4. Collected(state)
      BY <1>2, <2>2, <2>3 DEF Collected, AllModes
    <2>. QED BY <1>8, <2>1, <2>4, FoundKept
  <1>12. ASSUME DropSweptScopedCacheEntries(w) PROVE FoundInv'
    <2>. DEFINE p == IF purge[w].mode = "row" THEN "prune" ELSE "release"
    <2>1. purge' = [purge EXCEPT ![w] = [purge[w] EXCEPT !.pc = p]] /\ IndexIsFiled'
          /\ p \in {"prune", "release"}
      BY <1>4, <1>12 DEF DropSweptScopedCacheEntries
    <2>. HIDE DEF p
    <2>2. p \notin AllModes
      BY <2>1 DEF AllModes
    <2>3. purge' = [purge EXCEPT ![w] = [purge[w] EXCEPT !.pc = p, !.todo = purge[w].todo]]
      BY <1>7, <2>1
    <2>. QED BY <1>6, <2>1, <2>2, <2>3
  <1>13. ASSUME RemoveIndexedEntries(w) \/ DieAfterMove(w) \/ ReleaseSweptIndexKeys(w)
                \/ DropScopedCacheIndexDone(w) \/ BumpAfterFlush(w)
         PROVE  FoundInv'
    <2>1. /\ \A s \in Slice: index'[s] \subseteq index[s]
          /\ \A id \in SweptId: swept'[id] \subseteq swept[id]
          /\ purge' = [purge EXCEPT ![w] = PurgeDone]
      BY <1>1, <1>13 DEF RemoveIndexedEntries, DieAfterMove, ReleaseSweptIndexKeys,
           DropScopedCacheIndexDone, BumpAfterFlush
    <2>. QED BY <1>5, <1>8, <2>1
  <1>14. ASSUME TakeSweptIndexKeys(w) PROVE FoundInv'
    <2>1. PICK sets \in SUBSET SweptId:
            purge' = [purge EXCEPT ![w] = [purge[w] EXCEPT !.pc = "collect", !.sets = sets,
                                                           !.unread = sets]]
      BY <1>14 DEF TakeSweptIndexKeys
    <2>. DEFINE state == [purge[w] EXCEPT !.pc = "collect", !.sets = sets, !.unread = sets]
    <2>2. /\ state.pc = "collect" /\ state.unread = sets /\ state.sets = sets
          /\ state.found = purge[w].found
      BY <1>1 DEF PurgeState
    <2>3. IndexIsFiled' /\ purge[w].pc \in {"collection", "idle"}
          /\ purge' = [purge EXCEPT ![w] = state]
      BY <1>4, <1>14, <2>1 DEF TakeSweptIndexKeys
    <2>. HIDE DEF state
    <2>4. Collected(state)
      BY <1>2, <2>2, <2>3 DEF Collected, AllModes
    <2>. QED BY <2>3, <2>4, FoundKept
  <1>15. ASSUME NEW s \in Slice, MoveIndexKey(w, s) PROVE FoundInv'
    <2>. DEFINE state == [purge[w] EXCEPT !.todo = @ \ {s}, !.unread = {<<w, s>>},
                                          !.sets = @ \cup {<<w, s>>}]
    <2>1. /\ purge' = [purge EXCEPT ![w] = state] /\ purge[w].pc = "collect"
          /\ swept' = [swept EXCEPT ![<<w, s>>] = index[s]]
          /\ index' = [index EXCEPT ![s] = {}]
      BY <1>15 DEF MoveIndexKey
    <2>2. /\ state.pc = "collect" /\ state.unread = {<<w, s>>}
          /\ state.sets = purge[w].sets \cup {<<w, s>>} /\ state.found = purge[w].found
          /\ state.slices = purge[w].slices
      BY <1>1, <2>1 DEF PurgeState
    <2>. HIDE DEF state
    <2>3. IndexIsFiled'
      <3>1. ASSUME NEW id \in SweptId, NEW k \in swept'[id] PROVE id[2] \in FiledIn[k]
        <4>1. CASE id = <<w, s>>
          <5>1. k \in index[s]
            BY <1>1, <1>3, <2>1, <3>1, <4>1
          <5>. QED BY <1>3, <4>1, <5>1 DEF FoundInv, IndexIsFiled
        <4>2. CASE id # <<w, s>>
          <5>1. k \in swept[id]
            BY <1>1, <2>1, <3>1, <4>2
          <5>. QED BY <5>1 DEF FoundInv, IndexIsFiled
        <4>. QED BY <4>1, <4>2
      <3>2. ASSUME NEW t \in Slice, NEW k \in index'[t] PROVE t \in FiledIn[k]
        <4>1. k \in index[t]
          BY <1>1, <2>1, <3>2
        <4>. QED BY <4>1 DEF FoundInv, IndexIsFiled
      <3>. QED BY <3>1, <3>2 DEF IndexIsFiled
    <2>4. Collected(state)
      BY <1>2, <2>1, <2>2 DEF Collected, About, AllModes
    <2>. QED BY <2>1, <2>3, <2>4, FoundKept
  <1>16. ASSUME NEW id \in SweptId, CollectSweptIndexKeys(w, id) PROVE FoundInv'
    <2>. DEFINE state == [purge[w] EXCEPT !.unread = @ \ {id}, !.found = @ \cup swept[id]]
    <2>1. purge' = [purge EXCEPT ![w] = state] /\ IndexIsFiled' /\ purge[w].pc = "collect"
          /\ id \in purge[w].unread
      BY <1>4, <1>16 DEF CollectSweptIndexKeys
    <2>2. /\ state.pc = purge[w].pc /\ state.unread = purge[w].unread \ {id}
          /\ state.sets = purge[w].sets /\ state.found = purge[w].found \cup swept[id]
          /\ state.slices = purge[w].slices
      BY <1>1 DEF PurgeState
    <2>. HIDE DEF state
    <2>3. id \in purge[w].sets
      BY <1>2, <2>1 DEF Collected
    <2>4. \A k \in swept[id]: id[2] \in FiledIn[k]
      BY DEF FoundInv, IndexIsFiled
    <2>5. Collected(state)
      BY <1>2, <2>1, <2>2, <2>3, <2>4 DEF Collected, About, AllModes
    <2>. QED BY <2>1, <2>5, FoundKept
  <1>17. ASSUME CollectDone(w) PROVE FoundInv'
    <2>1. purge' = [purge EXCEPT ![w] = [purge[w] EXCEPT !.pc = "drop"]] /\ IndexIsFiled'
      BY <1>4, <1>17 DEF CollectDone
    <2>. QED BY <1>6, <1>7, <2>1 DEF AllModes
  <1>18. ASSUME ClearResponseCache(w) PROVE FoundInv'
    <2>1. purge' = [purge EXCEPT ![w] = [purge[w] EXCEPT !.pc = "dropIndex"]] /\ IndexIsFiled'
      BY <1>4, <1>18 DEF ClearResponseCache
    <2>. QED BY <1>6, <1>7, <2>1 DEF AllModes
  <1>19. ASSUME NEW s \in Slice, DropIndex(w, s) PROVE FoundInv'
    <2>. DEFINE todo == purge[w].todo \ {s}
    <2>1. /\ purge' = [purge EXCEPT ![w] = [purge[w] EXCEPT !.todo = todo]]
          /\ purge[w].pc = "dropIndex"
      BY <1>19 DEF DropIndex
    <2>2. [purge[w] EXCEPT !.todo = todo] = [purge[w] EXCEPT !.pc = "dropIndex", !.todo = todo]
      BY <1>1, <2>1 DEF PurgeState
    <2>3. IndexIsFiled'
      BY <1>1, <1>5, <1>19 DEF DropIndex
    <2>. HIDE DEF todo
    <2>. QED BY <1>6, <2>1, <2>2, <2>3 DEF AllModes
  <1>20. ASSUME FlushRefused(w) PROVE FoundInv'
    <2>1. /\ purge' = [purge EXCEPT ![w] = [purge[w] EXCEPT !.pc = "clear"]]
          /\ purge[w].pc = "flushdb" /\ IndexIsFiled'
      BY <1>4, <1>20 DEF FlushRefused
    <2>. QED BY <1>6, <1>7, <2>1 DEF AllModes
  <1>21. ASSUME FlushCacheRedisDatabase(w) PROVE FoundInv'
    <2>1. IndexIsFiled'
      BY <1>21 DEF FlushCacheRedisDatabase, IndexIsFiled
    <2>2. \/ purge' = [purge EXCEPT ![w] = PurgeDone]
          \/ purge' = [purge EXCEPT ![w] = [purge[w] EXCEPT !.pc = "rebump"]]
      BY <1>21 DEF FlushCacheRedisDatabase
    <2>. QED BY <1>6, <1>7, <1>8, <2>1, <2>2 DEF AllModes
  <1>. QED BY <1>9, <1>10, <1>11, <1>12, <1>13, <1>14, <1>15, <1>16, <1>17, <1>18, <1>19, <1>20,
           <1>21 DEF PurgeNext

LEMMA InitFound == Init => FoundInv
  <1>. SUFFICES ASSUME Init PROVE IndexIsFiled /\ \A w \in Purger: Collected(purge[w])
    BY InitSweeps DEF FoundInv
  <1>1. \A w \in Purger: purge[w] = PurgeIdle
    BY DEF Init
  <1>2. \A w \in Purger: Collected(purge[w])
    BY <1>1, IdleCollected
  <1>. QED BY <1>2 DEF Init, IndexIsFiled

LEMMA StepFound == FoundInv /\ [Next]_vars => FoundInv'
  <1>. SUFFICES ASSUME FoundInv, [Next]_vars PROVE FoundInv'
    OBVIOUS
  <1>1. SweepInv'
    BY StepSweeps DEF FoundInv
  <1>2. ASSUME purge' = purge, IndexIsFiled' PROVE FoundInv'
    BY <1>1, <1>2 DEF FoundInv, Collected, About
  <1>3. CASE UNCHANGED vars
    BY <1>2, <1>3 DEF vars, FoundInv, IndexIsFiled
  <1>4. ASSUME NEW q \in Read, ReadNext(q) PROVE FoundInv'
    <2>1. UNCHANGED <<purge, swept>>
      BY <1>4 DEF ReadNext, Lookup, ReadScopedCacheEpochs, Query, IndexScopedCacheEntry,
             IndexingFails, SetCacheValue, SweptDuringFill, DeleteEntry,
             CacheStoreDropsEntries, RecordPendingScopedCachePurge
    <2>2. \/ index' = index
          \/ \E filed \in SUBSET FiledIn[read[q].key]:
               index' = [s \in Slice |-> IF s \in filed
                                           THEN index[s] \cup {read[q].key} ELSE index[s]]
      <3>1. CASE IndexScopedCacheEntry(q)
        BY <3>1 DEF IndexScopedCacheEntry
      <3>2. CASE IndexingFails(q)
        BY <3>2 DEF IndexingFails
      <3>. QED BY <1>4, <3>1, <3>2 DEF ReadNext, Lookup, ReadScopedCacheEpochs, Query,
             SetCacheValue, SweptDuringFill, DeleteEntry, CacheStoreDropsEntries,
             RecordPendingScopedCachePurge
    <2>3. IndexIsFiled'
      BY <2>1, <2>2 DEF FoundInv, IndexIsFiled
    <2>. QED BY <1>2, <2>1, <2>3
  <1>5. ASSUME StoreNext PROVE FoundInv'
    <2>1. /\ UNCHANGED <<purge, swept>>
          /\ \A s \in Slice: index'[s] \subseteq index[s]
      BY <1>5 DEF StoreNext, ReapIndexMember, ExpireEntry, ExpireEpoch, FoundInv, SweepInv, TypeOK
    <2>2. IndexIsFiled'
      BY <2>1 DEF FoundInv, IndexIsFiled
    <2>. QED BY <1>2, <2>1, <2>2
  <1>. QED BY <1>1, <1>3, <1>4, <1>5, PurgeFound DEF Next

LEMMA StepSpares ==
  ASSUME FoundInv, [Next]_vars, NEW k \in Key, entry[k] # None, entry'[k] = None,
         purge' # purge
  PROVE  \E w \in Purger:
           /\ purge'[w] # purge[w]
           /\ \/ purge[w].mode \in {"clear", "flushdb"}
              \/ (purge[w].slices \cup {id[2] : id \in purge[w].sets}) \cap FiledIn[k] # {}
  <1>1. PICK w \in Purger: PurgeNext(w)
    BY DEF vars, Next, ReadNext, Lookup, ReadScopedCacheEpochs, Query, IndexScopedCacheEntry,
       IndexingFails, SetCacheValue, SweptDuringFill, DeleteEntry, CacheStoreDropsEntries,
       RecordPendingScopedCachePurge,
       StoreNext, ReapIndexMember, ExpireEntry, ExpireEpoch
  <1>2. purge \in [Purger -> PurgeState] /\ purge[w] \in PurgeState
        /\ Staged(purge[w], swept) /\ Collected(purge[w])
    BY DEF FoundInv, SweepInv, TypeOK, Stages
  <1>3. purge'[w] # purge[w]
    <2>1. \E state: purge' = [purge EXCEPT ![w] = state]
      BY <1>1 DEF PurgeNext, Commit, BumpScopedCacheEpochs, ScanRowIndexedEntries,
         DropSweptScopedCacheEntries, RemoveIndexedEntries, TakeSweptIndexKeys, CollectDone,
         MoveIndexKey, DropIndex, CollectSweptIndexKeys, ReleaseSweptIndexKeys, DieAfterMove,
         ClearResponseCache, DropScopedCacheIndexDone, FlushCacheRedisDatabase, BumpAfterFlush,
         FlushRefused
    <2>. QED BY <1>2, <2>1
  <1>4. \/ DropSweptScopedCacheEntries(w) \/ ClearResponseCache(w) \/ FlushCacheRedisDatabase(w)
    BY <1>1 DEF PurgeNext, Commit, BumpScopedCacheEpochs, ScanRowIndexedEntries,
       RemoveIndexedEntries, TakeSweptIndexKeys, CollectDone, MoveIndexKey, DropIndex,
       CollectSweptIndexKeys, ReleaseSweptIndexKeys, DieAfterMove, DropScopedCacheIndexDone,
       BumpAfterFlush, FlushRefused
  <1>5. CASE ClearResponseCache(w) \/ FlushCacheRedisDatabase(w)
    <2>1. purge[w].mode \in {"clear", "flushdb"}
      BY <1>2, <1>5 DEF ClearResponseCache, FlushCacheRedisDatabase, Staged, AllModes
    <2>. QED BY <1>3, <2>1
  <1>6. CASE DropSweptScopedCacheEntries(w)
    <2>1. k \in purge[w].found
      BY <1>6 DEF DropSweptScopedCacheEntries
    <2>2. PICK s \in FiledIn[k]: s \in purge[w].slices \/ \E id \in purge[w].sets: id[2] = s
      BY <1>2, <2>1 DEF Collected, About
    <2>3. s \in (purge[w].slices \cup {id[2] : id \in purge[w].sets}) \cap FiledIn[k]
      BY <2>2
    <2>. QED BY <1>3, <2>3
  <1>. QED BY <1>4, <1>5, <1>6

(* A purge leaves the entries of other slices warm, whatever fills race it    *)
(* and whichever moved sets a dead sweep has left it to finish: what it drops *)
(* depends on a slice it is about or on one whose moved set it took over,     *)
(* unless it clears everything.                                               *)
THEOREM PurgesSpare == Spec => PurgeSparesOtherSlices
  <1>. DEFINE Spares ==
         \A k \in Key:
           (entry[k] # None /\ entry'[k] = None /\ purge' # purge) =>
             \E w \in Purger:
               /\ purge'[w] # purge[w]
               /\ \/ purge[w].mode \in {"clear", "flushdb"}
                  \/ (purge[w].slices \cup {id[2] : id \in purge[w].sets}) \cap FiledIn[k] # {}
  <1>1. FoundInv /\ [Next]_vars => [Spares]_vars
    BY StepSpares
  <1>2. PurgeSparesOtherSlices <=> [][Spares]_vars
    BY PTL DEF PurgeSparesOtherSlices
  <1>. HIDE DEF Spares
  <1>. QED BY <1>1, <1>2, InitFound, StepFound, PTL DEF Spec

-----------------------------------------------------------------------------
(* One purge. What takes an entry's name while it is kept is the end of an    *)
(* earlier purge, so before a first one has looked every entry is named, and  *)
(* after it every stale one that is not named is evicted by its own read.     *)

OnePurge == \A u, v \in Mutation: u = v

Evicting(k) == (\E r \in Read: MustEvict(r, k)) \/ k \in pending

Early(w) == purge[w].pc \in {"idle", "committed", "dropIndex", "rebump"} \cup AllModes

Before == \A w \in Mutation: purge[w].pc \in {"idle", "committed"}

(* A recovery commits nothing, so it never does what follows from a commit *)
Committers ==
  \A w \in Purger:
    (\/ purge[w].pc \in {"committed", "dropIndex", "prune", "rebump"} \cup AllModes
     \/ purge[w].todo # {} \/ purge[w].mode # "collection") => w \in Mutation

NothingAside ==
  (\A w \in Mutation: Early(w)) => \A id \in SweptId: swept[id] = {}

FiledBefore ==
  Before =>
    \A r \in Read: (read[r].pc = "filed" /\ read[r].guarded /\ ~Moved(r)) =>
      \A s \in FiledIn[read[r].key]: read[r].key \in index[s]

KeptBefore ==
  Before =>
    \A k \in Key:
      (entry[k] # None /\ entry[k].guarded /\ ~Evicting(k) /\ ~(Mutation \subseteq kept[k])) =>
        \A s \in FiledIn[k]: k \in index[s]

StaleReached ==
  \A k \in Key: \A s \in Stale(k): Evicting(k) \/ (Reached(k, s) /\ Named(k, s))

OnceInv == /\ GuardInv /\ SweepInv /\ GapHeld /\ Committers /\ NothingAside
           /\ FiledBefore /\ KeptBefore /\ StaleReached

LEMMA StillEvicting ==
  ASSUME GuardInv, ~StoreReturns, [Next]_vars, NEW k \in Key, Stays(k), Evicting(k)
  PROVE  Evicting(k)' \/ GivenUp(k)
  <1>1. TypeOK
    BY DEF GuardInv
  <1>2. ASSUME read' = read, pending' = pending, CountersStep PROVE Evicting(k)'
    <2>1. \A r \in Read: MustEvict(r, k) => MustEvict(r, k)'
      BY <1>2, ReadsStillEvict
    <2>. QED BY <1>2, <2>1 DEF Evicting
  <1>3. ASSUME NEW q \in Read, ReadNext(q) PROVE Evicting(k)' \/ GivenUp(k)
    <2>1. UNCHANGED <<bumps, held>> /\ pending \subseteq pending'
          /\ \A r \in Read \ {q}: read'[r] = read[r]
      BY <1>1, <1>3, ReadLeaves
    <2>2. \A r \in Read \ {q}: Moved(r) => Moved(r)'
      BY <2>1 DEF Moved, Epoch
    <2>3. \A r \in Read \ {q}: MustEvict(r, k) => MustEvict(r, k)'
      BY <2>1, <2>2 DEF MustEvict, Stands, Stays
    <2>4. MustEvict(q, k) => MustEvict(q, k)' \/ k \in pending' \/ GivenUp(k)
      BY <1>1, <1>3, ReadEvicts
    <2>. QED BY <2>1, <2>3, <2>4 DEF Evicting
  <1>4. CASE UNCHANGED vars
    BY <1>2, <1>4 DEF vars, CountersStep
  <1>5. StoreNext => UNCHANGED pending
    BY DEF StoreNext, ReapIndexMember, ExpireEntry, ExpireEpoch
  <1>. QED BY <1>1, <1>2, <1>3, <1>4, <1>5, PurgeCounters, StoreCounters DEF Next

(* What a step of a purge does to its own state, as far as the commits go *)
LEMMA PurgeCommits ==
  ASSUME TypeOK, Committers, NEW w \in Purger, PurgeNext(w)
  PROVE  /\ \A v \in Purger \ {w}: purge'[v] = purge[v]
         /\ (\/ purge'[w].pc \in {"committed", "dropIndex", "prune", "rebump"} \cup AllModes
             \/ purge'[w].todo # {} \/ purge'[w].mode # "collection") => w \in Mutation
         /\ Early(w)' => Early(w)
         /\ purge'[w].pc \in {"idle", "committed"} => purge[w].pc \in {"idle", "committed"}
  <1>. DEFINE Goal == /\ (\/ purge'[w].pc \in {"committed", "dropIndex", "prune", "rebump"} \cup AllModes
                          \/ purge'[w].todo # {} \/ purge'[w].mode # "collection")
                         => w \in Mutation
                      /\ Early(w)' => Early(w)
                      /\ purge'[w].pc \in {"idle", "committed"}
                           => purge[w].pc \in {"idle", "committed"}
  <1>1. purge[w] \in PurgeState /\ purge \in [Purger -> PurgeState]
    BY DEF TypeOK
  <1>2. \A v \in Purger \ {w}: purge'[v] = purge[v]
    BY PurgeGoesOn
  <1>3. ASSUME NEW s \in Slice, NEW mode \in Modes, Commit(w, s, mode) PROVE Goal
    BY <1>3 DEF Commit, Early
  <1>4. ASSUME purge' = [purge EXCEPT ![w] = PurgeDone] PROVE Goal
    <2>1. purge'[w] = PurgeDone
      BY <1>1, <1>4
    <2>. QED BY <2>1 DEF PurgeDone, PurgeIdle, Early, AllModes
  <1>5. ASSUME NEW state, purge' = [purge EXCEPT ![w] = state],
               state.mode = purge[w].mode, state.todo \subseteq purge[w].todo,
               state.pc \in {"collect", "drop", "release"}
        PROVE  Goal
    <2>1. purge'[w] = state
      BY <1>1, <1>5
    <2>. QED BY <1>5, <2>1 DEF Committers, Early, AllModes
  <1>6. ASSUME NEW state, purge' = [purge EXCEPT ![w] = state], w \in Mutation, Early(w),
               state.pc \notin {"idle", "committed"}
        PROVE  Goal
    <2>1. purge'[w] = state
      BY <1>1, <1>6
    <2>. QED BY <1>6, <2>1
  <1>7. ASSUME BumpScopedCacheEpochs(w) PROVE Goal
    <2>1. w \in Mutation /\ Early(w)
      BY <1>7 DEF BumpScopedCacheEpochs, Committers, Early
    <2>2. [purge[w] EXCEPT !.pc = purge[w].mode].pc \in AllModes
      BY <1>1 DEF PurgeState
    <2>. QED BY <1>6, <1>7, <2>1, <2>2 DEF BumpScopedCacheEpochs, AllModes
  <1>8. ASSUME ScanRowIndexedEntries(w) PROVE Goal
    <2>. DEFINE found == UNION {index[t] : t \in purge[w].slices}
    <2>1. w \in Mutation /\ Early(w)
      BY <1>8 DEF ScanRowIndexedEntries, Committers, Early, AllModes
    <2>2. [purge[w] EXCEPT !.found = found, !.pc = "drop"].pc = "drop"
      BY <1>1 DEF PurgeState
    <2>. QED BY <1>4, <1>6, <1>8, <2>1, <2>2 DEF ScanRowIndexedEntries
  <1>9. ASSUME DropSweptScopedCacheEntries(w) PROVE Goal
    <2>1. CASE purge[w].mode = "row"
      <3>1. w \in Mutation
        BY <2>1 DEF Committers
      <3>2. purge'[w].pc = "prune"
        BY <1>1, <1>9, <2>1 DEF DropSweptScopedCacheEntries, PurgeState
      <3>. QED BY <3>1, <3>2 DEF Early, AllModes
    <2>2. CASE purge[w].mode # "row"
      <3>. DEFINE state == [purge[w] EXCEPT !.pc = "release"]
      <3>1. state.pc = "release" /\ state.mode = purge[w].mode /\ state.todo = purge[w].todo
        BY <1>1 DEF PurgeState
      <3>2. purge' = [purge EXCEPT ![w] = state]
        BY <1>9, <2>2 DEF DropSweptScopedCacheEntries
      <3>. HIDE DEF state
      <3>. QED BY <1>5, <3>1, <3>2
    <2>. QED BY <2>1, <2>2
  <1>10. ASSUME \/ RemoveIndexedEntries(w) \/ ReleaseSweptIndexKeys(w) \/ DieAfterMove(w)
                \/ DropScopedCacheIndexDone(w) \/ BumpAfterFlush(w)
         PROVE  Goal
    BY <1>4, <1>10 DEF RemoveIndexedEntries, ReleaseSweptIndexKeys, DieAfterMove,
       DropScopedCacheIndexDone, BumpAfterFlush
  <1>11. ASSUME TakeSweptIndexKeys(w) PROVE Goal
    <2>1. PICK sets:
            purge' = [purge EXCEPT ![w] = [purge[w] EXCEPT !.pc = "collect", !.sets = sets,
                                                           !.unread = sets]]
      BY <1>11 DEF TakeSweptIndexKeys
    <2>. DEFINE state == [purge[w] EXCEPT !.pc = "collect", !.sets = sets, !.unread = sets]
    <2>2. state.pc = "collect" /\ state.mode = purge[w].mode /\ state.todo = purge[w].todo
      BY <1>1 DEF PurgeState
    <2>3. purge' = [purge EXCEPT ![w] = state]
      BY <2>1
    <2>. HIDE DEF state
    <2>. QED BY <1>5, <2>2, <2>3
  <1>12. ASSUME NEW s \in Slice, MoveIndexKey(w, s) PROVE Goal
    <2>. DEFINE state == [purge[w] EXCEPT !.todo = @ \ {s}, !.unread = {<<w, s>>},
                                          !.sets = @ \cup {<<w, s>>}]
    <2>1. purge' = [purge EXCEPT ![w] = state] /\ purge[w].pc = "collect"
      BY <1>12 DEF MoveIndexKey
    <2>2. state.pc = "collect" /\ state.mode = purge[w].mode /\ state.todo \subseteq purge[w].todo
      BY <1>1, <2>1 DEF PurgeState
    <2>. HIDE DEF state
    <2>. QED BY <1>5, <2>1, <2>2
  <1>13. ASSUME NEW id \in SweptId, CollectSweptIndexKeys(w, id) PROVE Goal
    <2>. DEFINE state == [purge[w] EXCEPT !.unread = @ \ {id}, !.found = @ \cup swept[id]]
    <2>1. purge' = [purge EXCEPT ![w] = state] /\ purge[w].pc = "collect"
      BY <1>13 DEF CollectSweptIndexKeys
    <2>2. state.pc = "collect" /\ state.mode = purge[w].mode /\ state.todo = purge[w].todo
      BY <1>1, <2>1 DEF PurgeState
    <2>. HIDE DEF state
    <2>. QED BY <1>5, <2>1, <2>2
  <1>14. ASSUME CollectDone(w) PROVE Goal
    <2>. DEFINE state == [purge[w] EXCEPT !.pc = "drop"]
    <2>1. state.pc = "drop" /\ state.mode = purge[w].mode /\ state.todo = purge[w].todo
      BY <1>1 DEF PurgeState
    <2>2. purge' = [purge EXCEPT ![w] = state]
      BY <1>14 DEF CollectDone
    <2>. HIDE DEF state
    <2>. QED BY <1>5, <2>1, <2>2
  <1>15. ASSUME ClearResponseCache(w) PROVE Goal
    <2>1. w \in Mutation /\ Early(w)
      BY <1>15 DEF ClearResponseCache, Committers, Early, AllModes
    <2>2. [purge[w] EXCEPT !.pc = "dropIndex"].pc = "dropIndex"
      BY <1>1 DEF PurgeState
    <2>. QED BY <1>6, <1>15, <2>1, <2>2 DEF ClearResponseCache
  <1>16. ASSUME NEW s \in Slice, DropIndex(w, s) PROVE Goal
    <2>1. w \in Mutation /\ Early(w) /\ purge[w].pc = "dropIndex"
      BY <1>16 DEF DropIndex, Committers, Early
    <2>2. [purge[w] EXCEPT !.todo = @ \ {s}].pc = "dropIndex"
      BY <1>1, <2>1 DEF PurgeState
    <2>. QED BY <1>6, <1>16, <2>1, <2>2 DEF DropIndex
  <1>17. ASSUME FlushRefused(w) PROVE Goal
    <2>1. w \in Mutation /\ Early(w)
      BY <1>17 DEF FlushRefused, Committers, Early, AllModes
    <2>2. [purge[w] EXCEPT !.pc = "clear"].pc = "clear"
      BY <1>1 DEF PurgeState
    <2>. QED BY <1>6, <1>17, <2>1, <2>2 DEF FlushRefused
  <1>18. ASSUME FlushCacheRedisDatabase(w) PROVE Goal
    <2>1. w \in Mutation /\ Early(w)
      BY <1>18 DEF FlushCacheRedisDatabase, Committers, Early, AllModes
    <2>2. [purge[w] EXCEPT !.pc = "rebump"].pc = "rebump"
      BY <1>1 DEF PurgeState
    <2>3. \/ purge' = [purge EXCEPT ![w] = PurgeDone]
          \/ purge' = [purge EXCEPT ![w] = [purge[w] EXCEPT !.pc = "rebump"]]
      BY <1>18 DEF FlushCacheRedisDatabase
    <2>. QED BY <1>4, <1>6, <2>1, <2>2, <2>3
  <1>19. Goal
    BY <1>3, <1>7, <1>8, <1>9, <1>10, <1>11, <1>12, <1>13, <1>14, <1>15, <1>16, <1>17, <1>18
       DEF PurgeNext
  <1>. QED BY <1>2, <1>19

LEMMA CommittersKept ==
  ASSUME OnceInv, NEW w \in Purger, PurgeNext(w)
  PROVE  /\ Committers' /\ NothingAside'
         /\ Before' => Before
         /\ Before' => UNCHANGED <<index, bumps, held>>
  <1>1. /\ TypeOK /\ Committers /\ w \in Purger /\ purge \in [Purger -> PurgeState]
        /\ swept \in [SweptId -> SUBSET Key]
    BY DEF OnceInv, SweepInv, TypeOK
  <1>2. /\ \A v \in Purger \ {w}: purge'[v] = purge[v]
        /\ (\/ purge'[w].pc \in {"committed", "dropIndex", "prune", "rebump"} \cup AllModes
            \/ purge'[w].todo # {} \/ purge'[w].mode # "collection") => w \in Mutation
        /\ Early(w)' => Early(w)
        /\ purge'[w].pc \in {"idle", "committed"} => purge[w].pc \in {"idle", "committed"}
    BY <1>1, PurgeCommits
  <1>3. Committers'
    BY <1>1, <1>2 DEF Committers
  <1>4. Before' => Before
    BY <1>2 DEF Before, Purger
  <1>5. ASSUME \A v \in Mutation: Early(v)' PROVE \A id \in SweptId: swept'[id] = {}
    <2>1. \A v \in Mutation: Early(v)
      BY <1>2, <1>5 DEF Early, Purger
    <2>2. \A id \in SweptId: swept[id] = {}
      BY <2>1 DEF OnceInv, NothingAside
    <2>3. ASSUME NEW s \in Slice, MoveIndexKey(w, s) PROVE FALSE
      <3>1. w \in Mutation /\ purge[w].pc = "collect"
        BY <1>1, <2>3 DEF MoveIndexKey, Committers
      <3>. QED BY <2>1, <3>1 DEF Early, AllModes
    <2>4. \A id \in SweptId: swept'[id] \subseteq swept[id]
      BY <1>1, <2>3 DEF PurgeNext, Commit, BumpScopedCacheEpochs, ScanRowIndexedEntries,
         DropSweptScopedCacheEntries, RemoveIndexedEntries, TakeSweptIndexKeys, CollectDone,
         DropIndex, CollectSweptIndexKeys, ReleaseSweptIndexKeys, DieAfterMove,
         ClearResponseCache, DropScopedCacheIndexDone, FlushCacheRedisDatabase, BumpAfterFlush,
         FlushRefused
    <2>. QED BY <2>2, <2>4
  <1>6. NothingAside'
    BY <1>5 DEF NothingAside
  <1>7. ASSUME Before' PROVE UNCHANGED <<index, bumps, held>>
    <2>1. Before
      BY <1>4, <1>7
    <2>2. \/ /\ purge[w].pc \notin {"dropIndex", "prune", "rebump"} \cup AllModes
             /\ purge[w].todo = {}
          \/ purge[w].pc \in {"idle", "committed"}
      BY <1>1, <2>1 DEF Committers, Before, AllModes
    <2>3. ~BumpScopedCacheEpochs(w)
      <3>1. ASSUME BumpScopedCacheEpochs(w) PROVE FALSE
        <4>1. w \in Mutation /\ purge'[w].pc = purge[w].mode /\ purge[w].mode \in AllModes
          BY <1>1, <3>1 DEF BumpScopedCacheEpochs, Committers, PurgeState
        <4>. QED BY <1>7, <4>1 DEF Before, AllModes
      <3>. QED BY <3>1
    <2>. QED BY <2>2, <2>3 DEF PurgeNext, Commit, ScanRowIndexedEntries,
         DropSweptScopedCacheEntries, RemoveIndexedEntries, TakeSweptIndexKeys, CollectDone,
         MoveIndexKey, DropIndex, CollectSweptIndexKeys, ReleaseSweptIndexKeys, DieAfterMove,
         ClearResponseCache, DropScopedCacheIndexDone, FlushCacheRedisDatabase, BumpAfterFlush,
         FlushRefused, AllModes
  <1>. QED BY <1>3, <1>4, <1>6, <1>7

LEMMA InitOnce == HistoryInit => OnceInv
  <1>. SUFFICES ASSUME HistoryInit PROVE OnceInv
    OBVIOUS
  <1>1. \A w \in Purger: purge[w] = PurgeIdle
    BY DEF HistoryInit, Init
  <1>2. Committers
    BY <1>1 DEF Committers, PurgeIdle, AllModes
  <1>3. NothingAside
    BY DEF HistoryInit, Init, NothingAside
  <1>4. FiledBefore
    BY DEF HistoryInit, Init, FiledBefore, ReadIdle
  <1>5. KeptBefore /\ StaleReached
    BY DEF HistoryInit, Init, KeptBefore, StaleReached, Stale
  <1>6. GapHeld
    BY InitReached DEF ReachInv
  <1>. QED BY <1>2, <1>3, <1>4, <1>5, <1>6, InitGuards, InitSweeps DEF OnceInv, HistoryInit

(* Before a purge has moved its counter, the index loses only the filings of  *)
(* no entry, and a reading taken before such a loss moved.                    *)
LEMMA StepFiles ==
  ASSUME OnceInv, [Next]_vars
  PROVE  FiledBefore'
  <1>1. TypeOK /\ GuardInv
    BY DEF OnceInv, GuardInv
  <1>2. SUFFICES ASSUME Before', NEW r \in Read, read'[r].pc = "filed", read'[r].guarded,
                        ~Moved(r)', NEW s \in FiledIn[read'[r].key]
                 PROVE  read'[r].key \in index'[s]
    BY DEF FiledBefore
  <1>3. ASSUME Before, read'[r] = read[r], UNCHANGED <<bumps, held>>, index[s] \subseteq index'[s]
        PROVE  read'[r].key \in index'[s]
    <2>1. ~Moved(r)
      BY <1>2, <1>3 DEF Moved, Epoch
    <2>. QED BY <1>2, <1>3, <2>1 DEF OnceInv, FiledBefore
  <1>4. CASE UNCHANGED vars
    <2>1. Before
      BY <1>2, <1>4 DEF Before, vars
    <2>. QED BY <1>3, <1>4, <2>1 DEF vars
  <1>5. ASSUME NEW q \in Read, ReadNext(q) PROVE read'[r].key \in index'[s]
    <2>1. UNCHANGED <<bumps, held, purge>> /\ (\A p \in Read \ {q}: read'[p] = read[p])
          /\ \A t \in Slice: index[t] \subseteq index'[t]
      BY <1>1, <1>5, ReadLeaves
    <2>2. CASE r # q
      <3>1. Before /\ read'[r] = read[r]
        BY <1>2, <2>1, <2>2 DEF Before
      <3>2. s \in Slice
        BY <1>1, <1>2, <3>1, SliceAssumption DEF SliceAssumption, TypeOK
      <3>. QED BY <1>3, <2>1, <3>1, <3>2
    <2>3. CASE r = q
      <3>1. IndexScopedCacheEntry(q)
        <4>1. read \in [Read -> ReadState] /\ read[q] \in ReadState /\ read'[q].pc = "filed"
          BY <1>1, <1>2, <2>3 DEF TypeOK
        <4>2. /\ ReadIdle.pc = "idle"
              /\ \A k \in Key: [ReadIdle EXCEPT !.pc = "missed", !.key = k].pc = "missed"
          BY DEF ReadIdle
        <4>3. \A k \in Key: ~Lookup(q, k)
          BY <4>1, <4>2 DEF Lookup
        <4>4. /\ ~IndexingFails(q) /\ ~SweptDuringFill(q) /\ ~CacheStoreDropsEntries(q)
              /\ ~RecordPendingScopedCachePurge(q)
          BY <4>1, <4>2 DEF IndexingFails, SweptDuringFill, CacheStoreDropsEntries,
             RecordPendingScopedCachePurge, ReadState
        <4>5. ~ReadScopedCacheEpochs(q) /\ ~Query(q) /\ ~SetCacheValue(q) /\ ~DeleteEntry(q)
          BY <4>1 DEF ReadScopedCacheEpochs, Query, SetCacheValue, DeleteEntry, ReadState
        <4>. QED BY <1>5, <4>3, <4>4, <4>5 DEF ReadNext
      <3>2. read'[q].key = read[q].key /\ read[q].key \in Key
        BY <1>1, <3>1 DEF TypeOK, ReadState, IndexScopedCacheEntry
      <3>3. s \in Slice
        BY <1>2, <2>3, <3>2, SliceAssumption DEF SliceAssumption
      <3>. QED BY <1>2, <2>3, <3>1, <3>2, <3>3 DEF IndexScopedCacheEntry
    <2>. QED BY <2>2, <2>3
  <1>6. ASSUME NEW w \in Purger, PurgeNext(w) PROVE read'[r].key \in index'[s]
    <2>1. Before /\ UNCHANGED <<index, bumps, held, read>>
      BY <1>1, <1>2, <1>6, CommittersKept, PurgeCounters
    <2>. QED BY <1>3, <2>1
  <1>7. CASE StoreNext
    <2>1. UNCHANGED <<read, purge>>
      BY <1>1, <1>7, StoreCounters
    <2>2. ASSUME NEW t \in Slice, NEW k \in Key, ReapIndexMember(t, k) PROVE FALSE
      <3>1. CollOf[t] \in Counter
        BY SliceAssumption DEF SliceAssumption, Counter
      <3>2. bumps' = [bumps EXCEPT ![CollOf[t]] = @ + 1] /\ held'[CollOf[t]]
        BY <1>1, <2>2, <3>1 DEF ReapIndexMember, Bump, TypeOK
      <3>3. read[r].guarded
        BY <1>2, <2>1
      <3>. QED BY <1>1, <1>2, <2>1, <3>1, <3>2, <3>3, BumpMovesReadings
    <2>3. ASSUME NEW c \in Counter, ExpireEpoch(c) PROVE FALSE
      BY <1>1, <1>2, <2>1, <2>3, ExpiryMovesReadings
    <2>4. UNCHANGED <<index, bumps, held>>
      BY <1>7, <2>2, <2>3 DEF StoreNext, ExpireEntry
    <2>5. Before
      BY <1>2, <2>1 DEF Before
    <2>. QED BY <1>3, <2>1, <2>4, <2>5
  <1>. QED BY <1>4, <1>5, <1>6, <1>7 DEF Next

(* A reap removes the filing of no entry that is there. *)
LEMMA StoreKeepsNames ==
  ASSUME TypeOK, StoreNext, NEW k \in Key, entry'[k] # None
  PROVE  \A s \in Slice: k \in index[s] => k \in index'[s]
  <1>1. ASSUME NEW t \in Slice, NEW m \in Key, ReapIndexMember(t, m), NEW s \in Slice,
               k \in index[s]
        PROVE  k \in index'[s]
    <2>1. k # m
      BY <1>1 DEF ReapIndexMember
    <2>. QED BY <1>1, <2>1 DEF ReapIndexMember, TypeOK
  <1>. QED BY <1>1 DEF StoreNext, ExpireEntry, ExpireEpoch

LEMMA StillEvicts ==
  ASSUME UNCHANGED <<bumps, held, entry, read, pending>>, NEW k \in Key
  PROVE  Evicting(k)' <=> Evicting(k)
  BY DEF Evicting, MustEvict, Stands, Moved, Epoch

LEMMA StepKeepsFilings ==
  ASSUME OnceInv, ~StoreReturns, [HistoryNext]_historyVars
  PROVE  KeptBefore'
  <1>1. TypeOK /\ GuardInv /\ [Next]_vars
    BY HistorySteps DEF OnceInv, GuardInv
  <1>2. SUFFICES ASSUME Before', NEW k \in Key, entry'[k] # None, entry'[k].guarded,
                        ~Evicting(k)', ~(Mutation \subseteq kept'[k]), NEW s \in FiledIn[k]
                 PROVE  k \in index'[s]
    BY DEF KeptBefore
  <1>3. s \in Slice
    BY SliceAssumption DEF SliceAssumption
  <1>4. CASE UNCHANGED historyVars
    <2>1. UNCHANGED <<bumps, held, entry, index, read, purge, pending>> /\ kept' = kept
      BY <1>4 DEF historyVars, vars, history
    <2>2. Before /\ ~Evicting(k)
      BY <1>2, <2>1, StillEvicts DEF Before
    <2>. QED BY <1>2, <2>1, <2>2 DEF OnceInv, KeptBefore
  <1>5. CASE HistoryNext /\ entry'[k] = entry[k]
    <2>1. Stays(k)
      BY <1>2, <1>5 DEF Stays
    <2>2. ~Evicting(k) /\ ~(Mutation \subseteq kept[k])
      BY <1>1, <1>2, <1>5, <2>1, StillEvicting, StaysKept
    <2>3. ASSUME Before, k \in index[s] => k \in index'[s] PROVE k \in index'[s]
      BY <1>2, <1>5, <2>2, <2>3 DEF OnceInv, KeptBefore
    <2>4. ASSUME NEW q \in Read, ReadNext(q) PROVE k \in index'[s]
      <3>1. purge' = purge /\ index[s] \subseteq index'[s]
        BY <1>1, <1>3, <2>4, ReadLeaves
      <3>2. Before
        BY <1>2, <3>1 DEF Before
      <3>. QED BY <2>3, <3>1, <3>2
    <2>5. ASSUME NEW w \in Purger, PurgeNext(w) PROVE k \in index'[s]
      BY <1>2, <2>3, <2>5, CommittersKept
    <2>6. CASE StoreNext
      <3>1. purge' = purge
        BY <1>1, <2>6, StoreCounters
      <3>2. Before
        BY <1>2, <3>1 DEF Before
      <3>. QED BY <1>1, <1>2, <1>3, <2>3, <2>6, <3>2, StoreKeepsNames
    <2>. QED BY <1>5, <2>4, <2>5, <2>6 DEF HistoryNext, Next
  <1>6. CASE entry'[k] # entry[k]
    <2>1. PICK q \in Read: ReadNext(q)
      BY <1>1, <1>2, <1>6, StepWrites
    <2>2. read[q].pc = "filed" /\ read[q].guarded /\ read[q].key = k
          /\ (MustEvict(q, k)' \/ ~Moved(q))
      BY <1>1, <1>2, <1>6, <2>1, ReadStores
    <2>3. ~Moved(q)
      BY <1>2, <2>2 DEF Evicting
    <2>4. purge' = purge /\ index[s] \subseteq index'[s]
      BY <1>1, <1>3, <2>1, ReadLeaves
    <2>5. Before
      BY <1>2, <2>4 DEF Before
    <2>. QED BY <2>2, <2>3, <2>4, <2>5 DEF OnceInv, FiledBefore
  <1>. QED BY <1>4, <1>5, <1>6

(* An entry that stays keeps its name while something comes for it: who takes *)
(* a name without dropping the entry is a purge that has looked.              *)
LEMMA PurgeKeepsNames ==
  ASSUME OnceInv, OnePurge, NEW w \in Purger, PurgeNext(w), NEW k \in Key, NEW s \in Slice,
         entry'[k] # None, Named(k, s), Reached(k, s), ~Evicting(k)
  PROVE  Named(k, s)'
  <1>1. /\ TypeOK /\ SweepInv /\ Committers /\ purge[w] \in PurgeState
        /\ index \in [Slice -> SUBSET Key]
    BY DEF OnceInv, SweepInv, TypeOK
  <1>2. CASE MovedAside(k, s)
    <2>1. ASSUME DropIndex(w, s) PROVE FALSE
      <3>1. w \in Mutation /\ purge[w].pc = "dropIndex"
        BY <1>1, <2>1 DEF DropIndex, Committers
      <3>2. \A v \in Mutation: Early(v)
        BY <3>1 DEF OnePurge, Early
      <3>3. \A v \in Purger: swept[<<v, s>>] = {}
        BY <3>2 DEF OnceInv, NothingAside, SweptId
      <3>. QED BY <1>2, <3>3 DEF MovedAside
    <2>. QED BY <1>1, <1>2, <2>1, PurgeKeepsAside DEF Named
  <1>3. CASE ~MovedAside(k, s)
    <2>1. k \in index[s]
      BY <1>3 DEF Named
    <2>2. PICK v \in Purger: WillRead(v, s) \/ WillDropFound(v, k)
      BY <1>3 DEF Reached, Evicting
    <2>3. v \in Mutation /\ purge[v].pc \notin {"prune", "dropIndex"}
      <3>1. CASE WillRead(v, s)
        BY <1>1, <3>1 DEF WillRead, Committers, AllModes
      <3>2. CASE WillDropFound(v, k)
        BY <1>1, <3>2 DEF WillDropFound, Committers
      <3>. QED BY <2>2, <3>1, <3>2
    <2>4. purge[w].pc \notin {"prune", "dropIndex"}
      BY <1>1, <2>3 DEF Committers, OnePurge
    <2>5. ASSUME NEW t \in Slice, MoveIndexKey(w, t) PROVE Named(k, s)'
      <3>1. CASE t = s
        BY <1>1, <2>1, <2>5, <3>1, MoveNames DEF Named
      <3>2. CASE t # s
        BY <1>1, <2>1, <2>5, <3>2 DEF MoveIndexKey, Named
      <3>. QED BY <3>1, <3>2
    <2>6. ~FlushCacheRedisDatabase(w)
      BY DEF FlushCacheRedisDatabase
    <2>7. CASE UNCHANGED index
      BY <2>1, <2>7 DEF Named
    <2>. QED BY <2>4, <2>5, <2>6, <2>7 DEF PurgeNext, Commit, BumpScopedCacheEpochs,
         ScanRowIndexedEntries, DropSweptScopedCacheEntries, RemoveIndexedEntries,
         TakeSweptIndexKeys, CollectDone, DropIndex, CollectSweptIndexKeys,
         ReleaseSweptIndexKeys, DieAfterMove, ClearResponseCache, DropScopedCacheIndexDone,
         BumpAfterFlush, FlushRefused
  <1>. QED BY <1>2, <1>3

LEMMA StepKeepsNames ==
  ASSUME OnceInv, OnePurge, [Next]_vars, NEW k \in Key, NEW s \in Slice,
         entry'[k] # None, Named(k, s), Reached(k, s), ~Evicting(k)
  PROVE  Named(k, s)'
  <1>1. TypeOK
    BY DEF OnceInv, SweepInv
  <1>2. ASSUME UNCHANGED <<swept, purge>>, k \in index[s] => k \in index'[s]
        PROVE  Named(k, s)'
    BY <1>2 DEF Named, MovedAside
  <1>3. CASE UNCHANGED vars
    BY <1>2, <1>3 DEF vars
  <1>4. ASSUME NEW q \in Read, ReadNext(q) PROVE Named(k, s)'
    BY <1>1, <1>2, <1>4, ReadLeaves
  <1>5. ASSUME NEW w \in Purger, PurgeNext(w) PROVE Named(k, s)'
    BY <1>5, PurgeKeepsNames
  <1>6. CASE StoreNext
    BY <1>1, <1>2, <1>6, StoreCounters, StoreKeepsNames
  <1>. QED BY <1>3, <1>4, <1>5, <1>6 DEF Next

LEMMA StepReachesStale ==
  ASSUME OnceInv, OnePurge, ~StoreReturns, HistoryNext
  PROVE  StaleReached'
  <1>1. /\ TypeOK /\ TypeOK' /\ GuardInv /\ SweepInv /\ GapHeld /\ Committers
        /\ [Next]_vars
    BY StepTypes DEF OnceInv, GuardInv, HistoryNext
  <1>2. SUFFICES ASSUME NEW k \in Key, NEW s \in Stale(k)', ~Evicting(k)'
                 PROVE  Reached(k, s)' /\ Named(k, s)'
    BY DEF StaleReached
  <1>3. /\ entry'[k] # None /\ entry'[k].guarded /\ s \in FiledIn[k] /\ s \in Slice
        /\ ~(Mutation \subseteq kept'[k])
    <2>1. entry'[k] # None /\ entry'[k].guarded /\ s \in FiledIn[k]
          /\ ~(written'[s] \subseteq kept'[k])
      BY DEF Stale, Missed
    <2>. QED BY <1>1, <2>1, SliceAssumption DEF SliceAssumption, TypeOK, Content
  <1>4. ASSUME NEW w \in Purger, purge'[w].pc = "committed", s \in purge'[w].slices,
               k \in index'[s]
        PROVE  Reached(k, s)' /\ Named(k, s)'
    BY <1>4 DEF Reached, WillRead, Named
  <1>5. CASE entry'[k] = entry[k]
    <2>1. Stays(k) /\ ~GivenUp(k)
      BY <1>1, <1>2, <1>3, <1>5, GivenUpIsKept DEF Stays
    <2>2. ~Evicting(k)
      BY <1>1, <1>2, <2>1, StillEvicting
    <2>3. CASE s \in Stale(k)
      <3>1. Reached(k, s) /\ Named(k, s)
        BY <2>2, <2>3 DEF OnceInv, StaleReached
      <3>2. Named(k, s)'
        BY <1>1, <1>3, <2>2, <3>1, StepKeepsNames
      <3>3. KeepsReached
        BY <1>1, StepKeepsReached
      <3>. QED BY <1>3, <2>1, <3>1, <3>2, <3>3 DEF KeepsReached
    <2>4. ASSUME NEW w \in Mutation, purge'[w].pc = "committed", s \in purge'[w].slices
          PROVE  Reached(k, s)' /\ Named(k, s)'
      <3>1. Before'
        BY <2>4 DEF Before, OnePurge
      <3>2. KeptBefore'
        BY StepKeepsFilings
      <3>3. k \in index'[s]
        BY <1>2, <1>3, <3>1, <3>2 DEF KeptBefore
      <3>. QED BY <1>4, <2>4, <3>3 DEF Purger
    <2>5. ~\E r \in Read: MustEvict(r, k)'
      BY <1>2 DEF Evicting
    <2>6. k \notin pending'
      BY <1>2 DEF Evicting
    <2>. QED BY <1>1, <1>2, <1>5, <2>3, <2>4, <2>5, <2>6, StepSupersedes
  <1>6. CASE entry'[k] # entry[k]
    <2>1. PICK q \in Read: ReadNext(q)
      BY <1>1, <1>3, <1>6, StepWrites
    <2>2. /\ read[q].pc = "filed" /\ read[q].guarded /\ read[q].key = k /\ ~Moved(q)
          /\ \E w \in Purger: purge[w].pc = "committed" /\ s \in purge[w].slices
      BY <1>1, <1>2, <1>6, <2>1, ReadWrites DEF Evicting
    <2>3. PICK w \in Purger: purge[w].pc = "committed" /\ s \in purge[w].slices
      BY <2>2
    <2>4. Before
      BY <1>1, <2>3 DEF Before, OnePurge, Committers
    <2>5. purge' = purge /\ index[s] \subseteq index'[s]
      BY <1>1, <1>3, <2>1, ReadLeaves
    <2>6. k \in index[s]
      BY <1>3, <2>2, <2>4 DEF OnceInv, FiledBefore
    <2>. QED BY <1>4, <2>3, <2>5, <2>6
  <1>. QED BY <1>5, <1>6

LEMMA StillStale ==
  ASSUME OnceInv, UNCHANGED historyVars
  PROVE  StaleReached'
  <1>1. /\ UNCHANGED <<written, bumps, held, entry, index, swept, read, purge, pending>>
        /\ UNCHANGED <<kept, forgotten>>
    BY DEF historyVars, vars, history
  <1>2. SUFFICES ASSUME NEW k \in Key, NEW s \in Stale(k)', ~Evicting(k)'
                 PROVE  Reached(k, s)' /\ Named(k, s)'
    BY DEF StaleReached
  <1>3. s \in Stale(k) /\ ~Evicting(k)
    BY <1>1, <1>2, StillEvicts DEF Stale, Missed
  <1>4. Reached(k, s) /\ Named(k, s)
    BY <1>3 DEF OnceInv, StaleReached
  <1>5. MovedAside(k, s)' <=> MovedAside(k, s)
    BY <1>1 DEF MovedAside
  <1>6. \A w \in Purger: WillRead(w, s) \/ WillDropFound(w, k)
                           => (WillRead(w, s) \/ WillDropFound(w, k))'
    BY <1>1 DEF WillRead, WillDropFound
  <1>. QED BY <1>1, <1>3, <1>4, <1>5, <1>6 DEF Reached, Named, Evicting

LEMMA StepOnce ==
  ~StoreReturns /\ OnePurge /\ OnceInv /\ [HistoryNext]_historyVars => OnceInv'
  <1>. SUFFICES ASSUME ~StoreReturns, OnePurge, OnceInv, [HistoryNext]_historyVars
                PROVE  OnceInv'
    OBVIOUS
  <1>1. GuardInv' /\ SweepInv' /\ [Next]_vars
    BY StepGuards, StepSweeps, HistorySteps DEF OnceInv
  <1>2. FiledBefore' /\ KeptBefore' /\ StaleReached' /\ GapHeld'
    BY <1>1, StepFiles, StepKeepsFilings, StepReachesStale, StillStale, GapKept, StillGap
       DEF OnceInv
  <1>3. Committers' /\ NothingAside'
    <2>1. ASSUME UNCHANGED <<purge, swept>> PROVE Committers' /\ NothingAside'
      BY <2>1 DEF OnceInv, Committers, NothingAside, Early
    <2>2. ASSUME NEW q \in Read, ReadNext(q) PROVE UNCHANGED <<purge, swept>>
      BY <2>2, ReadLeaves DEF OnceInv, GuardInv
    <2>3. StoreNext => UNCHANGED <<purge, swept>>
      BY StoreCounters DEF OnceInv, GuardInv
    <2>4. UNCHANGED vars => UNCHANGED <<purge, swept>>
      BY DEF vars
    <2>. QED BY <1>1, <2>1, <2>2, <2>3, <2>4, CommittersKept DEF Next
  <1>. QED BY <1>1, <1>2, <1>3 DEF OnceInv

LEMMA OnceOwes == OnceInv => StaleEntryIsOwed
  BY DEF OnceInv, StaleReached, StaleEntryIsOwed, Evicting, Reached

(* One mutation, of any kind, however many reads fill around its purge, with  *)
(* recoveries, failed filings, refused moves, deaths, reaps and expiries: no  *)
(* entry serves the superseded slice with nothing left to drop it, but for    *)
(* the fills the code excepts. A second purge can miss one, as a first that   *)
(* prunes the filings of what it found takes that of an entry written since   *)
(* under the same key.                                                        *)
THEOREM OnePurgeOwes == ~StoreReturns /\ OnePurge => (HistorySpec => []StaleEntryIsOwed)
  <1>. SUFFICES ASSUME ~StoreReturns, OnePurge PROVE HistorySpec => []StaleEntryIsOwed
    OBVIOUS
  <1>1. OnceInv /\ [HistoryNext]_historyVars => OnceInv'
    BY StepOnce
  <1>. QED BY <1>1, InitOnce, OnceOwes, PTL DEF HistorySpec
=============================================================================
