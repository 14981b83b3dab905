------------------------- MODULE ScopedCacheRecovery -------------------------
(* Purges that fail after their mutation committed, and what finishes them.   *)
(*                                                                            *)
(* A purge that throws is recorded in a table of the database; a drain lists  *)
(* the table, purges what it names and clears the rows it listed. A           *)
(* collection purge moves its index sets aside first: a process that dies     *)
(* before it drops what they name leaves them to a release                    *)
(* (scoped-cache/purge.ts, scoped-cache-pending-purges.ts). The index and the *)
(* entries sit behind two clients, each up or down on its own, and a process  *)
(* runs its drains and releases one after the other.                          *)
(*                                                                            *)
(* One collection, whose slices hold one entry each. A fill is one step: what *)
(* it does between its steps is ScopedCacheFill's matter.                     *)
EXTENDS Naturals, FiniteSets, Sequences

CONSTANTS
  Proc,
  Entry,
  Writes,       \* the sets of slices a mutation may write
  Kinds,        \* how mutations purge, "slices" or "collection"
  MaxFingerprints, \* cache_settings.scoped_purge_retry_max_fingerprints
  MaxMutations, \* bound: how many mutations commit
  Faults,       \* what goes wrong: "outage", "refusal" and "death"
  MaxFaults,    \* bound: how often, all of them together
  MaxQueue      \* bound: how many passes wait where the timer adds one more

ASSUME KindAssumption ==
  Kinds \subseteq {"slices", "collection"} /\ Faults \subseteq {"outage", "refusal", "death"}
ASSUME EntryAssumption == IsFiniteSet(Entry)
ASSUME WriteAssumption == Writes \subseteq SUBSET Entry
ASSUME LimitAssumption == MaxFingerprints \in Nat
ASSUME MaxAssumption ==
  {MaxMutations, MaxFaults, MaxQueue} \subseteq Nat

VARIABLES
  entry,  \* entry[k]: none, fresh or stale
  own,    \* the entries the index sets of the collection name
  swept,  \* swept[i]: the entries named by what sweep i moved aside
  table,  \* the recorded purges
  rowIds, \* rows recorded
  index,  \* index[p]: the client of the index, "up" or "down"
  store,  \* store[p]: the client of the entries, "up" or "down"
  work,   \* work[w]: a mutation's purge, or a pass of the chain
  queue,  \* queue[p]: the passes that wait for the one of the chain
  lost,   \* stale entries whose purge died, or could not be recorded
  mutations, faults

cache == <<entry, own, swept, lost>>
recorded == <<table, rowIds>>
links == <<index, store>>
bounds == <<mutations, faults>>
vars == <<cache, recorded, links, work, queue, bounds>>

Worker == Proc \X {"purge", "chain"}
Sweep == 1 .. MaxMutations + MaxFaults + 1
Row == 1 .. MaxMutations

Idle == [pc |-> "idle", kind |-> "slices", keys |-> {}, found |-> {}, taken |-> {},
         rows |-> {}, todo |-> {}]

Init ==
  /\ entry = [k \in Entry |-> "fresh"] /\ own = Entry
  /\ swept = [i \in Sweep |-> {}]
  /\ table = {} /\ rowIds = 0
  /\ index = [p \in Proc |-> "up"] /\ store = [p \in Proc |-> "up"]
  /\ work = [w \in Worker |-> Idle]
  /\ queue = [p \in Proc |-> <<>>]
  /\ lost = {}
  /\ mutations = 0 /\ faults = 0

Fault(f) == f \in Faults /\ faults < MaxFaults /\ faults' = faults + 1

StaleIn(keys) == {k \in keys : entry[k] = "stale"}

-----------------------------------------------------------------------------
(* Mutations and fills *)

(* A collection purge cannot tell which slices changed: all may have.         *)
Commit(p, kind, keys) ==
  /\ mutations < MaxMutations
  /\ work[<<p, "purge">>].pc = "idle"
  /\ entry' = [k \in Entry |-> IF k \in keys /\ entry[k] = "fresh" THEN "stale" ELSE entry[k]]
  /\ work' = [work EXCEPT ![<<p, "purge">>] =
                [Idle EXCEPT !.pc = "start", !.kind = kind, !.keys = keys]]
  /\ mutations' = mutations + 1
  /\ UNCHANGED <<own, swept, lost, recorded, links, queue, faults>>

(* No fill crosses the prune that ends a row purge. *)
Fill(k) ==
  /\ entry[k] = "none"
  /\ \E p \in Proc: index[p] = "up" /\ store[p] = "up"
  /\ \A w \in Worker: work[w].kind = "slices" => k \notin work[w].found
  /\ entry' = [entry EXCEPT ![k] = "fresh"]
  /\ own' = own \cup {k}
  /\ UNCHANGED <<swept, lost, recorded, links, work, queue, bounds>>

-----------------------------------------------------------------------------
(* The steps of a purge, a mutation's own or one a drain runs again *)

IndexUp(w) == index[w[1]] = "up"
StoreUp(w) == store[w[1]] = "up"

(* A purge that is over: a drain clears the rows it was for. *)
Over(w) ==
  IF w[2] = "chain" /\ work[w].rows # {} THEN [work[w] EXCEPT !.pc = "clear"] ELSE Idle

(* A drain goes on to one of the targets left, and is over after the last. *)
NextTarget(w) ==
  LET todo == work[w].todo IN
  IF todo = {} THEN {Idle}
  ELSE {[Idle EXCEPT !.pc = "start", !.kind = t.kind, !.keys = t.keys, !.rows = t.rows,
                     !.todo = todo \ {t}] : t \in todo}

ScanRowIndexedEntries(w) ==
  /\ work[w].pc = "start" /\ work[w].kind = "slices" /\ IndexUp(w)
  /\ LET found == own \cap work[w].keys IN
     work' = [work EXCEPT ![w] =
       IF found = {} THEN Over(w) ELSE [@ EXCEPT !.pc = "drop", !.found = found]]
  /\ UNCHANGED <<cache, recorded, links, queue, bounds>>

(* A collection purge reads what sweeps before it left, a release only that. *)
TakeSweptIndexKeys(w) ==
  /\ work[w].pc = "start" /\ work[w].kind # "slices" /\ IndexUp(w)
  /\ work' = [work EXCEPT ![w].pc = IF work[w].kind = "release" THEN "drop" ELSE "move",
                          ![w].taken = {i \in Sweep : swept[i] # {}},
                          ![w].found = UNION {swept[i] : i \in Sweep}]
  /\ UNCHANGED <<cache, recorded, links, queue, bounds>>

(* A sweep moves sets under a name nothing has.                               *)
FreshSweeps == {i \in Sweep : swept[i] = {} /\ \A w \in Worker: i \notin work[w].taken}

SweepMove(w) ==
  /\ work[w].pc = "move" /\ IndexUp(w)
  /\ FreshSweeps # {}
  /\ LET moved == CHOOSE i \in FreshSweeps: TRUE IN
     /\ swept' = [swept EXCEPT ![moved] = own]
     /\ work' = [work EXCEPT ![w].pc = "drop", ![w].found = @ \cup own,
                             ![w].taken = IF own = {} THEN @ ELSE @ \cup {moved}]
  /\ own' = {}
  /\ UNCHANGED <<entry, lost, recorded, links, queue, bounds>>

DropEntries(keys) ==
  /\ entry' = [k \in Entry |-> IF k \in keys THEN "none" ELSE entry[k]]
  /\ lost' = lost \ keys

DropSweptScopedCacheEntries(w) ==
  /\ work[w].pc = "drop" /\ StoreUp(w)
  /\ DropEntries(work[w].found)
  /\ work' = [work EXCEPT ![w].pc = "end"]
  /\ UNCHANGED <<own, swept, recorded, links, queue, bounds>>

(* Only what was dropped leaves the index. *)
EndPurge(w) ==
  /\ work[w].pc = "end" /\ IndexUp(w)
  /\ \/ /\ work[w].kind = "slices"
        /\ own' = own \ work[w].found
        /\ UNCHANGED swept
     \/ /\ work[w].kind # "slices"
        /\ swept' = [i \in Sweep |-> IF i \in work[w].taken THEN {} ELSE swept[i]]
        /\ UNCHANGED own
  /\ work' = [work EXCEPT ![w] = Over(w)]
  /\ UNCHANGED <<entry, lost, recorded, links, queue, bounds>>

(* A command fails with its client down, or redis or the database refuses it. *)
Fails(w) ==
  \/ /\ \/ work[w].pc \in {"start", "move", "end"} /\ ~IndexUp(w)
        \/ work[w].pc = "drop" /\ store[w[1]] = "down"
     /\ UNCHANGED faults
  \/ Fault("refusal")

(* The purge throws: a mutation's is recorded, a drain's keeps its rows. A    *)
(* collection's release of the sets it moved is logged and the purge is over. *)
PurgeThrows(w) ==
  /\ work[w].pc \in {"start", "move", "drop", "end", "probe", "clear"}
  /\ Fails(w)
  /\ \E dropped \in SUBSET (IF work[w].pc = "drop" THEN work[w].found ELSE {}):
       DropEntries(dropped)
  /\ \E next \in NextTarget(w):
       work' = [work EXCEPT ![w] =
         IF @.pc = "end" /\ @.kind = "collection" THEN Over(w)
         ELSE IF w[2] = "purge" THEN [@ EXCEPT !.pc = "record", !.found = {}, !.taken = {}]
         ELSE IF @.rows # {} THEN next ELSE Idle]
  /\ UNCHANGED <<own, swept, recorded, links, queue, mutations>>

-----------------------------------------------------------------------------
(* The record of a failed purge *)

(* Every failed purge recorded slice by slice *)
RowAsIs(kind, keys) == [id |-> rowIds + 1, kind |-> kind, keys |-> keys]

(* A purge of more slices than a retry replays is recorded as its collection. *)
PendingScopedCachePurgeRow(kind, keys) ==
  [id |-> rowIds + 1, kind |-> IF Cardinality(keys) > MaxFingerprints THEN "collection" ELSE kind,
   keys |-> IF Cardinality(keys) > MaxFingerprints \/ kind = "collection" THEN Entry ELSE keys]

(* The insert may be refused: nothing then comes for the entries. *)
RecordPendingScopedCachePurge(w) ==
  /\ work[w].pc = "record"
  /\ \/ /\ table' = table \cup {PendingScopedCachePurgeRow(work[w].kind, work[w].keys)}
        /\ rowIds' = rowIds + 1
        /\ UNCHANGED <<lost, faults>>
     \/ /\ Fault("refusal")
        /\ lost' = lost \cup StaleIn(work[w].keys)
        /\ UNCHANGED recorded
  /\ work' = [work EXCEPT ![w] = Idle]
  /\ UNCHANGED <<entry, own, swept, links, queue, mutations>>

-----------------------------------------------------------------------------
(* The chain of one process: drains and releases, never two at once *)

(* The rows of one kind make one target. *)
Target(kind) ==
  LET rows == {r \in table : r.kind = kind}
      keys == UNION {r.keys : r \in rows} IN
  [kind |-> IF Cardinality(keys) > MaxFingerprints THEN "collection" ELSE kind,
   keys |-> keys, rows |-> {r.id : r \in rows}]

(* A pass begins; a drain's first act is to list the table. *)
BeginPass(p) ==
  /\ work[<<p, "chain">>].pc = "idle" /\ queue[p] # <<>>
  /\ queue' = [queue EXCEPT ![p] = Tail(@)]
  /\ work' = [work EXCEPT ![<<p, "chain">>] =
       IF Head(queue[p]) = "release" THEN [Idle EXCEPT !.pc = "probe", !.kind = "release"]
       ELSE IF table = {} THEN Idle
       ELSE [Idle EXCEPT !.pc = "probe", !.todo = {Target(r.kind) : r \in table}]]
  /\ UNCHANGED <<cache, recorded, links, bounds>>

(* Written and read back before anything is purged: a store that drops        *)
(* nothing, being away or still dialed, ends the pass.                        *)
CacheStoreDropsEntries(p) ==
  LET w == <<p, "chain">> IN
  /\ work[w].pc = "probe"
  /\ \E next \in NextTarget(w):
       work' = [work EXCEPT ![w] =
         IF store[p] = "down" THEN Idle
         ELSE IF @.kind = "release" THEN [@ EXCEPT !.pc = "start"] ELSE next]
  /\ UNCHANGED <<cache, recorded, links, queue, bounds>>

(* Every row of the target's kind goes, listed or not. *)
ClearByKind(p) ==
  /\ work[<<p, "chain">>].pc = "clear"
  /\ table' = {r \in table : \A l \in table :
                 l.id \in work[<<p, "chain">>].rows => r.kind # l.kind}
  /\ \E next \in NextTarget(<<p, "chain">>):
       work' = [work EXCEPT ![<<p, "chain">>] = next]
  /\ UNCHANGED <<cache, rowIds, links, queue, bounds>>

(* The rows that were listed go, by their ids. *)
ClearPendingScopedCachePurges(p) ==
  /\ work[<<p, "chain">>].pc = "clear"
  /\ table' = {r \in table : r.id \notin work[<<p, "chain">>].rows}
  /\ \E next \in NextTarget(<<p, "chain">>):
       work' = [work EXCEPT ![<<p, "chain">>] = next]
  /\ UNCHANGED <<cache, rowIds, links, queue, bounds>>

-----------------------------------------------------------------------------
(* What asks for a pass *)

Ask(p, passes) == queue' = [queue EXCEPT ![p] = @ \o passes]

(* A retry interval of 0 *)
NoRetryInterval(p) == FALSE /\ UNCHANGED vars

RetryInterval(p) ==
  /\ Len(queue[p]) < MaxQueue
  /\ Ask(p, <<"drain">>)
  /\ UNCHANGED <<cache, recorded, links, work, bounds>>

(* `ready` of the index client: what sweeps stranded, then the table. *)
IndexReady(p) ==
  /\ index[p] = "down"
  /\ index' = [index EXCEPT ![p] = "up"]
  /\ Ask(p, <<"release", "drain">>)
  /\ UNCHANGED <<cache, recorded, store, work, bounds>>

(* `ready` of the other: the table. *)
StoreReady(p) ==
  /\ store[p] = "down"
  /\ store' = [store EXCEPT ![p] = "up"]
  /\ Ask(p, <<"drain">>)
  /\ UNCHANGED <<cache, recorded, index, work, bounds>>

LoseIndex(p) ==
  /\ Fault("outage") /\ index[p] = "up"
  /\ index' = [index EXCEPT ![p] = "down"]
  /\ UNCHANGED <<cache, recorded, store, work, queue, mutations>>

LoseStore(p) ==
  /\ Fault("outage") /\ store[p] = "up"
  /\ store' = [store EXCEPT ![p] = "down"]
  /\ UNCHANGED <<cache, recorded, index, work, queue, mutations>>

(* A process dies, and its purge with it; another dials redis and drains.     *)
Crash(p) ==
  /\ Fault("death")
  /\ lost' = lost \cup StaleIn(work[<<p, "purge">>].keys)
  /\ work' = [w \in Worker |-> IF w[1] = p THEN Idle ELSE work[w]]
  /\ queue' = [queue EXCEPT ![p] = <<"drain">>]
  /\ index' = [index EXCEPT ![p] = "down"]
  /\ store' = [store EXCEPT ![p] = "down"]
  /\ UNCHANGED <<entry, own, swept, recorded, mutations>>

-----------------------------------------------------------------------------
WorkNext(w) ==
  \/ ScanRowIndexedEntries(w) \/ TakeSweptIndexKeys(w) \/ SweepMove(w)
  \/ DropSweptScopedCacheEntries(w) \/ EndPurge(w) \/ PurgeThrows(w)
  \/ RecordPendingScopedCachePurge(w)

ChainNext(p) ==
  \/ BeginPass(p) \/ CacheStoreDropsEntries(p) \/ ClearPendingScopedCachePurges(p)
  \/ WorkNext(<<p, "chain">>)

Next ==
  \/ \E p \in Proc: \/ /\ "slices" \in Kinds
                       /\ \E keys \in Writes: Commit(p, "slices", keys)
                    \/ "collection" \in Kinds /\ Commit(p, "collection", Entry)
  \/ \E k \in Entry: Fill(k)
  \/ \E p \in Proc: \/ WorkNext(<<p, "purge">>) \/ ChainNext(p) \/ RetryInterval(p) \/ IndexReady(p) \/ StoreReady(p)
                    \/ LoseIndex(p) \/ LoseStore(p) \/ Crash(p)

(* Clients reconnect, the interval runs out, and what was begun goes on.      *)
Fairness ==
  /\ \A p \in Proc: /\ WF_vars(WorkNext(<<p, "purge">>)) /\ WF_vars(ChainNext(p))
                    /\ WF_vars(RetryInterval(p))
                    /\ WF_vars(IndexReady(p) \/ StoreReady(p))

Spec == Init /\ [][Next]_vars

FairSpec == Spec /\ Fairness

-----------------------------------------------------------------------------
TargetType == [kind : {"slices", "collection"}, keys : SUBSET Entry, rows : SUBSET Row]

WorkType ==
  [pc : {"idle", "start", "move", "drop", "end", "record", "probe", "clear"},
   kind : {"slices", "collection", "release"}, keys : SUBSET Entry, found : SUBSET Entry,
   taken : SUBSET Sweep, rows : SUBSET Row, todo : SUBSET TargetType]

(* The types; a row of slices names no more than a retry replays, and rows    *)
(* have ids of their own.                                                     *)
TypeOK ==
  /\ entry \in [Entry -> {"none", "fresh", "stale"}] /\ own \subseteq Entry
  /\ swept \in [Sweep -> SUBSET Entry]
  /\ rowIds \in 0 .. MaxMutations
  /\ table \subseteq [id : 1 .. rowIds, kind : {"slices", "collection"}, keys : SUBSET Entry]
  /\ \A r \in table: r.kind = "slices" => Cardinality(r.keys) <= MaxFingerprints
  /\ \A r, s \in table: r.id = s.id => r = s
  /\ index \in [Proc -> {"up", "down"}] /\ store \in [Proc -> {"up", "down"}]
  /\ work \in [Worker -> WorkType]
  /\ queue \in [Proc -> Seq({"drain", "release"})]
  /\ lost \subseteq StaleIn(Entry)

(* No stale entry is forgotten: the purge of its mutation is still at it, a   *)
(* row names it, a set moved aside does, or its purge is one the code cannot  *)
(* keep - its process died, or the database refused the row.                  *)
StaleEntryIsOwed ==
  \A k \in Entry: entry[k] = "stale" =>
    \/ k \in lost
    \/ \E p \in Proc: k \in work[<<p, "purge">>].keys
    \/ \E r \in table: k \in r.keys
    \/ \E i \in Sweep: k \in swept[i]

(* What is recorded is finished, whatever failed and came back meanwhile.     *)
EveryRowIsDrained == []<>(table = {})

(* An entry a sweep moved aside does not stay stale.                          *)
SweptEntryIsDropped ==
  \A k \in Entry:
    (entry[k] = "stale" /\ \E i \in Sweep: k \in swept[i]) ~> entry[k] # "stale"
=============================================================================
