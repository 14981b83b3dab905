----------------------- MODULE ScopedCacheRecoveryProofs -----------------------
(* Proofs about ScopedCacheRecovery, for any processes, entries, mutations    *)
(* and faults.                                                                *)
EXTENDS ScopedCacheRecovery, FiniteSetTheorems, SequenceTheorems, TLAPS

-----------------------------------------------------------------------------
(* What makes the properties inductive *)

(* What a worker may be at, by who it is *)
ShapedAs(w, s) ==
  /\ w[2] = "purge" =>
       /\ s.pc \in {"idle", "start", "move", "drop", "end", "record"}
       /\ s.kind \in {"slices", "collection"} /\ s.rows = {} /\ s.todo = {}
       /\ s.kind = "collection" /\ s.pc # "idle" => s.keys = Entry
       /\ s.found \subseteq s.keys
  /\ w[2] = "chain" => s.pc # "record"
  /\ s.pc = "move" => s.kind # "slices"
  /\ s.kind = "release" => s.rows = {}
  /\ s.rows \subseteq 1 .. rowIds /\ \A t \in s.todo: t.rows \subseteq 1 .. rowIds

Shaped(w) == ShapedAs(w, work[w])

Busy == {p \in Proc : work[<<p, "purge">>].pc # "idle"}

(* Every row is of a mutation whose purge is over. *)
Counted ==
  /\ mutations \in 0 .. MaxMutations /\ faults \in Nat
  /\ IsFiniteSet(Busy) /\ rowIds + Cardinality(Busy) <= mutations

TypeInv ==
  /\ TypeOK /\ Counted
  /\ \A w \in Worker: Shaped(w)

(* What was moved aside and read is what will be dropped.                     *)
Reads(w) ==
  work[w].pc \in {"move", "drop", "end"} /\ work[w].kind # "slices" =>
    \A i \in work[w].taken: swept[i] \subseteq work[w].found

(* No entry a row purge found is back before it left the index. *)
Drops(w) ==
  work[w].pc = "end" /\ work[w].kind = "slices" =>
    \A k \in work[w].found: entry[k] = "none"

(* A sweep nobody is about to release *)
Held(i) ==
  \A w \in Worker: work[w].pc = "end" /\ work[w].kind # "slices" => i \notin work[w].taken

Aside(k) == \E i \in Sweep: k \in swept[i] /\ Held(i)

EntriesAreNamed == \A k \in Entry: entry[k] # "none" => k \in own \/ Aside(k)

(* A mutation's purge that has still to drop the entry, or to be recorded     *)
Covers(p, k) ==
  LET s == work[<<p, "purge">>] IN
  k \in s.keys /\ (s.pc \in {"start", "move", "record"} \/ (s.pc = "drop" /\ k \in s.found))

(* A drain past the drop of the entry *)
Passed(w, k) ==
  work[w].pc \in {"end", "clear"} \/ (work[w].pc = "drop" /\ k \notin work[w].found)

(* A row that no drain which listed it is about to clear with the entry left  *)
Waits(r, k) ==
  k \in r.keys /\ \A p \in Proc: r.id \in work[<<p, "chain">>].rows => ~Passed(<<p, "chain">>, k)

(* A drain purges at least what the rows it listed name. *)
Lists(w) ==
  \A r \in table:
    /\ r.id \in work[w].rows => r.keys \subseteq work[w].keys
    /\ \A t \in work[w].todo: r.id \in t.rows => r.keys \subseteq t.keys

Owed(k) ==
  \/ k \in lost
  \/ \E p \in Proc: Covers(p, k)
  \/ \E r \in table: Waits(r, k)
  \/ Aside(k)

OwedInv ==
  /\ TypeInv
  /\ \A w \in Worker: Reads(w) /\ Drops(w) /\ Lists(w)
  /\ EntriesAreNamed
  /\ \A k \in Entry: entry[k] = "stale" => Owed(k)

-----------------------------------------------------------------------------
(* The types *)

CacheTypes ==
  /\ entry \in [Entry -> {"none", "fresh", "stale"}] /\ own \subseteq Entry
  /\ swept \in [Sweep -> SUBSET Entry]
  /\ lost \subseteq StaleIn(Entry)

TableTypes ==
  /\ rowIds \in 0 .. MaxMutations
  /\ table \subseteq [id : 1 .. rowIds, kind : {"slices", "collection"}, keys : SUBSET Entry]
  /\ \A r \in table: r.kind = "slices" => Cardinality(r.keys) <= MaxFingerprints
  /\ \A r, s \in table: r.id = s.id => r = s

LinkTypes ==
  /\ index \in [Proc -> {"up", "down"}] /\ store \in [Proc -> {"up", "down"}]
  /\ queue \in [Proc -> Seq({"drain", "release"})]

LEMMA TypeParts ==
  TypeInv <=> /\ CacheTypes /\ TableTypes /\ LinkTypes /\ Counted
              /\ work \in [Worker -> WorkType] /\ \A w \in Worker: Shaped(w)
  BY DEF TypeInv, TypeOK, CacheTypes, TableTypes, LinkTypes

LEMMA Constants == MaxMutations \in Nat /\ MaxFaults \in Nat /\ MaxFingerprints \in Nat
  BY MaxAssumption, LimitAssumption DEF MaxAssumption, LimitAssumption

LEMMA Workers ==
  ASSUME NEW p \in Proc
  PROVE  /\ <<p, "purge">> \in Worker /\ <<p, "chain">> \in Worker
         /\ <<p, "purge">>[1] = p /\ <<p, "purge">>[2] = "purge"
         /\ <<p, "chain">>[1] = p /\ <<p, "chain">>[2] = "chain"
         /\ <<p, "purge">> # <<p, "chain">>
  BY DEF Worker

LEMMA WorkerIs ==
  ASSUME NEW w \in Worker
  PROVE  w[1] \in Proc /\ w = <<w[1], w[2]>> /\ w[2] \in {"purge", "chain"}
  BY DEF Worker

LEMMA IdleTypes ==
  /\ Idle \in WorkType
  /\ Idle.pc = "idle" /\ Idle.kind = "slices" /\ Idle.keys = {} /\ Idle.found = {}
  /\ Idle.taken = {} /\ Idle.rows = {} /\ Idle.todo = {}
  BY DEF Idle, WorkType

(* Only worker w moves. *)
Only(w) == work' = [work EXCEPT ![w] = work'[w]]

OthersStand(w) == \A v \in Worker \ {w}: work'[v] = work[v]

LEMMA Others == ASSUME TypeInv, NEW w \in Worker, Only(w) PROVE OthersStand(w)
  BY DEF TypeInv, TypeOK, Only, OthersStand

(* A step of a worker has done with the types once its own state is right.    *)
LEMMA WorkTypes ==
  ASSUME TypeInv, NEW w \in Worker, Only(w), work'[w] \in WorkType, Shaped(w)',
         CacheTypes', TableTypes', LinkTypes', Counted', rowIds <= rowIds'
  PROVE  TypeInv'
  <1>1. rowIds \in Nat /\ rowIds' \in Nat
    BY Constants DEF TypeInv, TypeOK, TableTypes
  <1>2. work' \in [Worker -> WorkType]
    <2>1. work \in [Worker -> WorkType]
      BY DEF TypeInv, TypeOK
    <2>2. [work EXCEPT ![w] = work'[w]] \in [Worker -> WorkType]
      BY <2>1
    <2>. QED BY <2>2 DEF Only
  <1>3. ASSUME NEW v \in Worker \ {w} PROVE Shaped(v)'
    <2>1. Shaped(v) /\ work'[v] = work[v]
      BY Others DEF TypeInv, OthersStand
    <2>2. 1 .. rowIds \subseteq 1 .. rowIds'
      BY <1>1
    <2>. QED BY <2>1, <2>2 DEF Shaped, ShapedAs
  <1>4. \A v \in Worker: Shaped(v)'
    BY <1>3
  <1>. QED BY <1>2, <1>4 DEF TypeInv, TypeOK, CacheTypes, TableTypes, LinkTypes

LEMMA CountKept ==
  ASSUME TypeInv, UNCHANGED <<rowIds, mutations>>, faults' \in Nat, Busy' \subseteq Busy
  PROVE  Counted'
  <1>1. IsFiniteSet(Busy) /\ rowIds + Cardinality(Busy) <= mutations /\ rowIds \in Nat
        /\ mutations \in 0 .. MaxMutations
    BY Constants DEF TypeInv, TypeOK, Counted
  <1>2. IsFiniteSet(Busy') /\ Cardinality(Busy') <= Cardinality(Busy)
        /\ Cardinality(Busy) \in Nat /\ Cardinality(Busy') \in Nat
    BY <1>1, FS_Subset, FS_CardinalityType
  <1>. QED BY <1>1, <1>2, Constants DEF Counted

(* A worker that is not a mutation's purge beginning leaves the count. *)
LEMMA BusyKept ==
  ASSUME TypeInv, NEW w \in Worker, Only(w), work[w].pc # "idle" \/ w[2] = "chain"
  PROVE  Busy' \subseteq Busy
  <1>. SUFFICES ASSUME NEW p \in Proc, work'[<<p, "purge">>].pc # "idle"
                PROVE  work[<<p, "purge">>].pc # "idle"
    BY DEF Busy
  <1>1. CASE w = <<p, "purge">>
    BY <1>1, Workers
  <1>2. CASE w # <<p, "purge">>
    <2>1. <<p, "purge">> \in Worker \ {w}
      BY <1>2, Workers
    <2>2. work'[<<p, "purge">>] = work[<<p, "purge">>]
      BY <2>1, Others DEF OthersStand
    <2>. QED BY <2>2
  <1>. QED BY <1>1, <1>2

LEMMA FaultTypes ==
  ASSUME TypeInv, NEW f, Fault(f)
  PROVE  faults' \in Nat
  BY DEF Fault, TypeInv, Counted

LEMMA StateTypes ==
  ASSUME TypeInv, NEW w \in Worker
  PROVE  /\ work[w] \in WorkType /\ ShapedAs(w, work[w]) /\ rowIds \in Nat
         /\ w \in DOMAIN work
  BY Constants DEF TypeInv, TypeOK, Shaped

(* A step that records nothing and begins no purge of a mutation *)
LEMMA StepTypes ==
  ASSUME TypeInv, NEW w \in Worker, Only(w), work[w].pc # "idle" \/ w[2] = "chain",
         work'[w] \in WorkType, ShapedAs(w, work'[w]), CacheTypes', LinkTypes',
         table' \subseteq table, UNCHANGED <<rowIds, mutations>>, faults' \in Nat
  PROVE  TypeInv'
  <1>1. TableTypes'
    BY DEF TypeInv, TypeOK, TableTypes
  <1>2. Counted'
    BY BusyKept, CountKept
  <1>3. Shaped(w)'
    BY DEF Shaped, ShapedAs
  <1>4. rowIds <= rowIds'
    BY Constants DEF TypeInv, TypeOK
  <1>. QED BY <1>1, <1>2, <1>3, <1>4, WorkTypes

LEMMA CacheKept == ASSUME TypeInv, UNCHANGED cache PROVE CacheTypes'
  BY DEF TypeInv, TypeOK, CacheTypes, cache, StaleIn

LEMMA LinksKept == ASSUME TypeInv, UNCHANGED <<links, queue>> PROVE LinkTypes'
  BY DEF TypeInv, TypeOK, LinkTypes, links

LEMMA FaultsKept == ASSUME TypeInv, UNCHANGED faults PROVE faults' \in Nat
  BY DEF TypeInv, Counted

LEMMA OverTypes ==
  ASSUME TypeInv, NEW w \in Worker
  PROVE  Over(w) \in WorkType /\ ShapedAs(w, Over(w))
  <1>1. work[w] \in WorkType /\ ShapedAs(w, work[w])
    BY StateTypes
  <1>2. CASE w[2] = "chain" /\ work[w].rows # {}
    <2>. DEFINE s == [work[w] EXCEPT !.pc = "clear"]
    <2>1. Over(w) = s
      BY <1>2 DEF Over
    <2>2. s \in WorkType /\ ShapedAs(w, s)
      BY <1>1, <1>2 DEF WorkType, ShapedAs
    <2>. QED BY <2>1, <2>2
  <1>3. CASE ~(w[2] = "chain" /\ work[w].rows # {})
    <2>1. Over(w) = Idle
      BY <1>3 DEF Over
    <2>2. ShapedAs(w, Idle)
      BY IdleTypes DEF ShapedAs
    <2>. QED BY <2>1, <2>2, IdleTypes
  <1>. QED BY <1>2, <1>3

LEMMA NextTargetTypes ==
  ASSUME TypeInv, NEW w \in Worker, w[2] = "chain", NEW n \in NextTarget(w)
  PROVE  n \in WorkType /\ ShapedAs(w, n)
  <1>1. work[w] \in WorkType /\ ShapedAs(w, work[w])
    BY StateTypes
  <1>2. ASSUME n = Idle PROVE n \in WorkType /\ ShapedAs(w, n)
    BY <1>2, IdleTypes DEF ShapedAs
  <1>3. ASSUME n # Idle PROVE n \in WorkType /\ ShapedAs(w, n)
    <2>1. PICK t \in work[w].todo:
            n = [Idle EXCEPT !.pc = "start", !.kind = t.kind, !.keys = t.keys,
                             !.rows = t.rows, !.todo = work[w].todo \ {t}]
      BY <1>3 DEF NextTarget
    <2>2. t \in TargetType /\ work[w].todo \subseteq TargetType
      BY <1>1 DEF WorkType
    <2>3. n \in WorkType
      BY <2>1, <2>2 DEF Idle, WorkType, TargetType
    <2>4. /\ n.pc = "start" /\ n.kind = t.kind /\ n.rows = t.rows
          /\ n.todo = work[w].todo \ {t}
      BY <2>1 DEF Idle
    <2>5. ShapedAs(w, n)
      BY <1>1, <2>2, <2>4 DEF ShapedAs, TargetType
    <2>. QED BY <2>3, <2>5
  <1>. QED BY <1>2, <1>3

LEMMA ScanTypes ==
  ASSUME TypeInv, NEW w \in Worker, ScanRowIndexedEntries(w)
  PROVE  TypeInv' /\ Only(w)
  <1>1. work[w] \in WorkType /\ ShapedAs(w, work[w]) /\ w \in DOMAIN work
    BY StateTypes
  <1>. DEFINE found == own \cap work[w].keys
              s == [work[w] EXCEPT !.pc = "drop", !.found = found]
              n == IF found = {} THEN Over(w) ELSE s
  <1>2. work' = [work EXCEPT ![w] = n] /\ work[w].pc = "start" /\ work[w].kind = "slices"
    BY DEF ScanRowIndexedEntries
  <1>3. s \in WorkType /\ ShapedAs(w, s)
    BY <1>1, <1>2 DEF WorkType, ShapedAs
  <1>4. n \in WorkType /\ ShapedAs(w, n)
    BY <1>3, OverTypes
  <1>. HIDE DEF n
  <1>5. Only(w) /\ work'[w] = n
    BY <1>1, <1>2 DEF Only
  <1>6. UNCHANGED <<cache, recorded, links, queue, bounds>>
    BY DEF ScanRowIndexedEntries
  <1>7. CacheTypes' /\ LinkTypes' /\ faults' \in Nat
    BY <1>6, CacheKept, LinksKept, FaultsKept DEF bounds
  <1>. QED BY <1>2, <1>4, <1>5, <1>6, <1>7, StepTypes DEF recorded, bounds

LEMMA TakeTypes ==
  ASSUME TypeInv, NEW w \in Worker, TakeSweptIndexKeys(w)
  PROVE  TypeInv' /\ Only(w)
  <1>1. work[w] \in WorkType /\ ShapedAs(w, work[w]) /\ w \in DOMAIN work
    BY StateTypes
  <1>. DEFINE taken == {i \in Sweep : swept[i] # {}}
              found == UNION {swept[i] : i \in Sweep}
              pc == IF work[w].kind = "release" THEN "drop" ELSE "move"
              s == [work[w] EXCEPT !.pc = pc, !.taken = taken, !.found = found]
  <1>2. work' = [work EXCEPT ![w] = s] /\ work[w].pc = "start" /\ work[w].kind # "slices"
    BY <1>1 DEF TakeSweptIndexKeys
  <1>3. found \in SUBSET Entry /\ taken \in SUBSET Sweep
    BY DEF TypeInv, TypeOK
  <1>4. s \in WorkType /\ ShapedAs(w, s)
    <2>1. s \in WorkType
      BY <1>1, <1>3 DEF WorkType
    <2>. HIDE DEF found, taken
    <2>2. ShapedAs(w, s)
      BY <1>1, <1>2, <1>3 DEF WorkType, ShapedAs
    <2>. QED BY <2>1, <2>2
  <1>. HIDE DEF s
  <1>5. Only(w) /\ work'[w] = s
    BY <1>1, <1>2 DEF Only
  <1>6. UNCHANGED <<cache, recorded, links, queue, bounds>>
    BY DEF TakeSweptIndexKeys
  <1>7. CacheTypes' /\ LinkTypes' /\ faults' \in Nat
    BY <1>6, CacheKept, LinksKept, FaultsKept DEF bounds
  <1>. QED BY <1>2, <1>4, <1>5, <1>6, <1>7, StepTypes DEF recorded, bounds

LEMMA MoveTypes ==
  ASSUME TypeInv, NEW w \in Worker, SweepMove(w)
  PROVE  TypeInv' /\ Only(w)
  <1>1. work[w] \in WorkType /\ ShapedAs(w, work[w]) /\ w \in DOMAIN work
    BY StateTypes
  <1>. DEFINE moved == CHOOSE i \in FreshSweeps: TRUE
              taken == IF own = {} THEN work[w].taken ELSE work[w].taken \cup {moved}
              s == [work[w] EXCEPT !.pc = "drop", !.found = work[w].found \cup own,
                                   !.taken = taken]
  <1>2. work' = [work EXCEPT ![w] = s] /\ work[w].pc = "move"
    BY <1>1 DEF SweepMove
  <1>3. moved \in Sweep
    BY DEF SweepMove, FreshSweeps
  <1>4. swept' = [swept EXCEPT ![moved] = own] /\ own' = {} /\ UNCHANGED <<entry, lost>>
    BY DEF SweepMove
  <1>. HIDE DEF moved
  <1>5. own \subseteq Entry /\ swept \in [Sweep -> SUBSET Entry]
    BY DEF TypeInv, TypeOK
  <1>6. s \in WorkType
    BY <1>1, <1>3, <1>5 DEF WorkType
  <1>7. ShapedAs(w, s)
    BY <1>1, <1>2, <1>5, <1>6 DEF WorkType, ShapedAs
  <1>8. CacheTypes'
    BY <1>3, <1>4, <1>5 DEF TypeInv, TypeOK, CacheTypes, StaleIn
  <1>. HIDE DEF s
  <1>9. Only(w) /\ work'[w] = s
    BY <1>1, <1>2 DEF Only
  <1>10. UNCHANGED <<recorded, links, queue, bounds>>
    BY DEF SweepMove
  <1>11. LinkTypes' /\ faults' \in Nat
    BY <1>10, LinksKept, FaultsKept DEF bounds
  <1>. QED BY <1>2, <1>6, <1>7, <1>8, <1>9, <1>10, <1>11, StepTypes DEF recorded, bounds

LEMMA DropCache ==
  ASSUME TypeInv, NEW keys, DropEntries(keys), UNCHANGED <<own, swept>>
  PROVE  CacheTypes'
  BY DEF TypeInv, TypeOK, CacheTypes, StaleIn, DropEntries

LEMMA DropTypes ==
  ASSUME TypeInv, NEW w \in Worker, DropSweptScopedCacheEntries(w)
  PROVE  TypeInv' /\ Only(w)
  <1>1. work[w] \in WorkType /\ ShapedAs(w, work[w]) /\ w \in DOMAIN work
    BY StateTypes
  <1>. DEFINE s == [work[w] EXCEPT !.pc = "end"]
  <1>2. work' = [work EXCEPT ![w] = s] /\ work[w].pc = "drop"
    BY <1>1 DEF DropSweptScopedCacheEntries
  <1>3. s \in WorkType /\ ShapedAs(w, s)
    <2>1. s.pc = "end" /\ s.kind = work[w].kind /\ s.keys = work[w].keys
          /\ s.found = work[w].found /\ s.rows = work[w].rows /\ s.todo = work[w].todo
      BY <1>1 DEF WorkType
    <2>2. ShapedAs(w, s)
      BY <1>1, <1>2, <2>1 DEF ShapedAs
    <2>. QED BY <1>1, <2>2 DEF WorkType
  <1>. HIDE DEF s
  <1>4. Only(w) /\ work'[w] = s
    BY <1>1, <1>2 DEF Only
  <1>5. UNCHANGED <<own, swept, recorded, links, queue, bounds>> /\ DropEntries(work[w].found)
    BY DEF DropSweptScopedCacheEntries
  <1>6. CacheTypes' /\ LinkTypes' /\ faults' \in Nat
    BY <1>5, DropCache, LinksKept, FaultsKept DEF bounds
  <1>. QED BY <1>2, <1>3, <1>4, <1>5, <1>6, StepTypes DEF recorded, bounds

LEMMA EndTypes ==
  ASSUME TypeInv, NEW w \in Worker, EndPurge(w)
  PROVE  TypeInv' /\ Only(w)
  <1>1. w \in DOMAIN work /\ work[w].pc = "end" /\ work' = [work EXCEPT ![w] = Over(w)]
    BY StateTypes DEF EndPurge
  <1>2. Over(w) \in WorkType /\ ShapedAs(w, Over(w))
    BY OverTypes
  <1>3. Only(w) /\ work'[w] = Over(w)
    BY <1>1 DEF Only
  <1>4. CacheTypes'
    BY DEF EndPurge, TypeInv, TypeOK, CacheTypes, StaleIn
  <1>5. UNCHANGED <<recorded, links, queue, bounds>>
    BY DEF EndPurge
  <1>6. LinkTypes' /\ faults' \in Nat
    BY <1>5, LinksKept, FaultsKept DEF bounds
  <1>. QED BY <1>1, <1>2, <1>3, <1>4, <1>5, <1>6, StepTypes DEF recorded, bounds

(* Where a purge that throws leaves its worker *)
ThrownTo(w, n) ==
  \/ n = Over(w) /\ work[w].pc = "end" /\ work[w].kind = "collection"
  \/ /\ ~(work[w].pc = "end" /\ work[w].kind = "collection") /\ w[2] = "purge"
     /\ n = [work[w] EXCEPT !.pc = "record", !.found = {}, !.taken = {}]
  \/ w[2] = "chain" /\ n \in NextTarget(w)
  \/ w[2] = "chain" /\ n = Idle

LEMMA ThrowsTo ==
  ASSUME TypeInv, NEW w \in Worker, PurgeThrows(w)
  PROVE  Only(w) /\ ThrownTo(w, work'[w]) /\ faults' \in Nat
  <1>1. w \in DOMAIN work /\ w[2] \in {"purge", "chain"}
    BY StateTypes, WorkerIs
  <1>2. PICK next \in NextTarget(w):
          work' = [work EXCEPT ![w] =
            IF work[w].pc = "end" /\ work[w].kind = "collection" THEN Over(w)
            ELSE IF w[2] = "purge"
            THEN [work[w] EXCEPT !.pc = "record", !.found = {}, !.taken = {}]
            ELSE IF work[w].rows # {} THEN next ELSE Idle]
    BY <1>1 DEF PurgeThrows
  <1>. DEFINE n == IF work[w].pc = "end" /\ work[w].kind = "collection" THEN Over(w)
                   ELSE IF w[2] = "purge"
                   THEN [work[w] EXCEPT !.pc = "record", !.found = {}, !.taken = {}]
                   ELSE IF work[w].rows # {} THEN next ELSE Idle
  <1>3. ThrownTo(w, n)
    BY <1>1 DEF ThrownTo
  <1>4. work' = [work EXCEPT ![w] = n]
    BY <1>2
  <1>. HIDE DEF n
  <1>5. Only(w) /\ work'[w] = n
    BY <1>1, <1>4 DEF Only
  <1>6. faults' \in Nat
    BY FaultsKept, FaultTypes DEF PurgeThrows, Fails
  <1>. QED BY <1>3, <1>5, <1>6

LEMMA ThrowTypes ==
  ASSUME TypeInv, NEW w \in Worker, PurgeThrows(w)
  PROVE  TypeInv' /\ Only(w) /\ ThrownTo(w, work'[w])
  <1>1. work[w] \in WorkType /\ ShapedAs(w, work[w])
    BY StateTypes
  <1>2. Only(w) /\ ThrownTo(w, work'[w]) /\ faults' \in Nat
    BY ThrowsTo
  <1>3. work'[w] \in WorkType /\ ShapedAs(w, work'[w])
    <2>1. CASE work'[w] = Over(w)
      BY <2>1, OverTypes
    <2>2. CASE w[2] = "purge"
               /\ work'[w] = [work[w] EXCEPT !.pc = "record", !.found = {}, !.taken = {}]
      <3>. DEFINE s == [work[w] EXCEPT !.pc = "record", !.found = {}, !.taken = {}]
      <3>1. s.pc = "record" /\ s.kind = work[w].kind /\ s.keys = work[w].keys
            /\ s.found = {} /\ s.rows = work[w].rows /\ s.todo = work[w].todo
        BY <1>1 DEF WorkType
      <3>2. s \in WorkType
        BY <1>1 DEF WorkType
      <3>3. work[w].pc # "idle"
        BY DEF PurgeThrows
      <3>4. ShapedAs(w, s)
        BY <1>1, <2>2, <3>1, <3>3 DEF ShapedAs
      <3>. QED BY <2>2, <3>2, <3>4
    <2>3. CASE w[2] = "chain" /\ work'[w] \in NextTarget(w)
      BY <2>3, NextTargetTypes
    <2>4. CASE work'[w] = Idle
      BY <2>4, IdleTypes DEF ShapedAs
    <2>. QED BY <1>2, <2>1, <2>2, <2>3, <2>4 DEF ThrownTo
  <1>4. UNCHANGED <<own, swept, recorded, links, queue, mutations>> /\ work[w].pc # "idle"
    BY DEF PurgeThrows
  <1>5. CacheTypes'
    BY <1>4, DropCache DEF PurgeThrows
  <1>6. LinkTypes'
    BY <1>4, LinksKept
  <1>. QED BY <1>2, <1>3, <1>4, <1>5, <1>6, StepTypes DEF recorded

-----------------------------------------------------------------------------
(* The record of a purge that failed *)

LEMMA KeysAreFinite == ASSUME NEW keys \in SUBSET Entry PROVE Cardinality(keys) \in Nat
  BY EntryAssumption, FS_Subset, FS_CardinalityType DEF EntryAssumption

LEMMA RowTypes ==
  ASSUME TypeInv, NEW kind \in {"slices", "collection"}, NEW keys \in SUBSET Entry
  PROVE  LET r == PendingScopedCachePurgeRow(kind, keys) IN
         /\ r.id = rowIds + 1 /\ r.kind \in {"slices", "collection"}
         /\ r.keys \subseteq Entry /\ keys \subseteq r.keys
         /\ r = [id |-> r.id, kind |-> r.kind, keys |-> r.keys]
         /\ r.kind = "slices" => Cardinality(r.keys) <= MaxFingerprints
  <1>1. Cardinality(keys) \in Nat /\ MaxFingerprints \in Nat
    BY KeysAreFinite, Constants
  <1>. QED BY <1>1 DEF PendingScopedCachePurgeRow

(* The count moves from the purge to the row. *)
LEMMA RecordCounted ==
  ASSUME TypeInv, NEW p \in Proc, work[<<p, "purge">>].pc # "idle",
         Only(<<p, "purge">>), work'[<<p, "purge">>].pc = "idle",
         rowIds' \in {rowIds, rowIds + 1}, UNCHANGED mutations, faults' \in Nat
  PROVE  Counted' /\ rowIds' \in 0 .. MaxMutations
  <1>1. /\ IsFiniteSet(Busy) /\ rowIds + Cardinality(Busy) <= mutations /\ rowIds \in Nat
        /\ mutations \in 0 .. MaxMutations /\ MaxMutations \in Nat
    BY Constants DEF TypeInv, TypeOK, Counted
  <1>2. Busy' \subseteq Busy \ {p}
    <2>1. SUFFICES ASSUME NEW q \in Proc, work'[<<q, "purge">>].pc # "idle"
                   PROVE  q # p /\ work[<<q, "purge">>].pc # "idle"
      BY DEF Busy
    <2>2. q # p
      BY <2>1
    <2>3. <<q, "purge">> \in Worker \ {<<p, "purge">>}
      BY <2>2, Workers
    <2>4. work'[<<q, "purge">>] = work[<<q, "purge">>]
      BY <2>3, Workers, Others DEF OthersStand
    <2>. QED BY <2>1, <2>2, <2>4
  <1>3. p \in Busy
    BY DEF Busy
  <1>4. IsFiniteSet(Busy \ {p}) /\ Cardinality(Busy \ {p}) = Cardinality(Busy) - 1
    BY <1>1, <1>3, FS_RemoveElement
  <1>5. IsFiniteSet(Busy') /\ Cardinality(Busy') <= Cardinality(Busy) - 1
    BY <1>2, <1>4, FS_Subset
  <1>6. Cardinality(Busy) \in Nat /\ Cardinality(Busy') \in Nat
    BY <1>1, <1>5, FS_CardinalityType
  <1>7. rowIds' + Cardinality(Busy') <= mutations /\ rowIds' \in Nat /\ rowIds' <= mutations
    BY <1>1, <1>5, <1>6
  <1>8. rowIds' \in 0 .. MaxMutations
    BY <1>1, <1>7
  <1>. QED BY <1>1, <1>5, <1>7, <1>8 DEF Counted

LEMMA RecordTypes ==
  ASSUME TypeInv, NEW w \in Worker, RecordPendingScopedCachePurge(w)
  PROVE  TypeInv' /\ Only(w) /\ work'[w] = Idle /\ w[2] = "purge"
  <1>1. /\ work[w] \in WorkType /\ ShapedAs(w, work[w]) /\ w \in DOMAIN work
        /\ rowIds \in Nat /\ work[w].pc = "record"
    BY StateTypes DEF RecordPendingScopedCachePurge
  <1>2. work' = [work EXCEPT ![w] = Idle]
        /\ UNCHANGED <<entry, own, swept, links, queue, mutations>>
    BY DEF RecordPendingScopedCachePurge
  <1>3. Only(w) /\ work'[w] = Idle
    BY <1>1, <1>2 DEF Only
  <1>4. w[2] = "purge" /\ w = <<w[1], "purge">> /\ w[1] \in Proc
    BY <1>1, WorkerIs DEF ShapedAs
  <1>5. work[w].kind \in {"slices", "collection"} /\ work[w].keys \in SUBSET Entry
    BY <1>1, <1>4 DEF ShapedAs, WorkType
  <1>. DEFINE r == PendingScopedCachePurgeRow(work[w].kind, work[w].keys)
  <1>6. /\ r.id = rowIds + 1 /\ r.kind \in {"slices", "collection"} /\ r.keys \subseteq Entry
        /\ r = [id |-> r.id, kind |-> r.kind, keys |-> r.keys]
        /\ r.kind = "slices" => Cardinality(r.keys) <= MaxFingerprints
    BY <1>5, RowTypes
  <1>7. \/ table' = table \cup {r} /\ rowIds' = rowIds + 1 /\ UNCHANGED <<lost, faults>>
        \/ Fault("refusal") /\ lost' = lost \cup StaleIn(work[w].keys) /\ UNCHANGED recorded
    BY DEF RecordPendingScopedCachePurge
  <1>. HIDE DEF r
  <1>8. faults' \in Nat /\ rowIds' \in {rowIds, rowIds + 1}
    BY <1>7, FaultsKept, FaultTypes DEF recorded
  <1>9. Counted' /\ rowIds' \in 0 .. MaxMutations
    BY <1>1, <1>2, <1>3, <1>4, <1>8, IdleTypes, RecordCounted
  <1>10. TableTypes'
    <2>1. /\ table \subseteq [id : 1 .. rowIds, kind : {"slices", "collection"},
                              keys : SUBSET Entry]
          /\ \A u \in table: u.kind = "slices" => Cardinality(u.keys) <= MaxFingerprints
          /\ \A u, v \in table: u.id = v.id => u = v
      BY DEF TypeInv, TypeOK
    <2>2. CASE table' = table \cup {r} /\ rowIds' = rowIds + 1
      <3>1. r \in [id : 1 .. rowIds + 1, kind : {"slices", "collection"}, keys : SUBSET Entry]
        BY <1>1, <1>6
      <3>2. \A u \in table: u \in [id : 1 .. rowIds + 1, kind : {"slices", "collection"},
                                   keys : SUBSET Entry] /\ u.id # r.id
        BY <1>1, <1>6, <2>1
      <3>3. \A u, v \in table': u.id = v.id => u = v
        BY <2>1, <2>2, <3>2
      <3>4. \A u \in table': u.kind = "slices" => Cardinality(u.keys) <= MaxFingerprints
        BY <1>6, <2>1, <2>2
      <3>5. table' \subseteq [id : 1 .. rowIds', kind : {"slices", "collection"},
                              keys : SUBSET Entry]
        BY <2>2, <3>1, <3>2
      <3>. QED BY <1>9, <3>3, <3>4, <3>5 DEF TableTypes
    <2>3. CASE UNCHANGED recorded
      BY <1>9, <2>1, <2>3 DEF recorded, TableTypes
    <2>. QED BY <1>7, <2>2, <2>3
  <1>11. CacheTypes'
    BY <1>2, <1>5, <1>7 DEF TypeInv, TypeOK, CacheTypes, StaleIn
  <1>12. LinkTypes'
    BY <1>2, LinksKept
  <1>13. Shaped(w)'
    BY <1>3, IdleTypes DEF Shaped, ShapedAs
  <1>14. rowIds <= rowIds'
    BY <1>1, <1>8
  <1>15. TypeInv'
    BY <1>3, <1>9, <1>10, <1>11, <1>12, <1>13, <1>14, IdleTypes, WorkTypes
  <1>. QED BY <1>3, <1>4, <1>15

-----------------------------------------------------------------------------
(* Mutations and fills *)

LEMMA CommitTypes ==
  ASSUME TypeInv, NEW p \in Proc, NEW kind \in {"slices", "collection"},
         NEW keys \in SUBSET Entry, kind = "collection" => keys = Entry,
         Commit(p, kind, keys)
  PROVE  /\ TypeInv' /\ Only(<<p, "purge">>)
         /\ work'[<<p, "purge">>].pc = "start" /\ work'[<<p, "purge">>].kind = kind
         /\ work'[<<p, "purge">>].keys = keys /\ work'[<<p, "purge">>].taken = {}
  <1>. DEFINE w == <<p, "purge">>
              s == [Idle EXCEPT !.pc = "start", !.kind = kind, !.keys = keys]
  <1>1. w \in Worker /\ w \in DOMAIN work /\ w[2] = "purge"
    BY Workers, StateTypes
  <1>2. work' = [work EXCEPT ![w] = s] /\ work[w].pc = "idle"
    BY DEF Commit
  <1>3. /\ s.pc = "start" /\ s.kind = kind /\ s.keys = keys /\ s.found = {}
        /\ s.taken = {} /\ s.rows = {} /\ s.todo = {} /\ s \in WorkType
    BY DEF Idle, WorkType
  <1>4. ShapedAs(w, s)
    BY <1>3 DEF ShapedAs
  <1>. HIDE DEF s
  <1>5. Only(w) /\ work'[w] = s
    BY <1>1, <1>2 DEF Only
  <1>6. /\ mutations < MaxMutations /\ mutations' = mutations + 1
        /\ UNCHANGED <<own, swept, lost, recorded, links, queue, faults>>
        /\ entry' = [k \in Entry |->
                       IF k \in keys /\ entry[k] = "fresh" THEN "stale" ELSE entry[k]]
    BY DEF Commit
  <1>7. CacheTypes'
    BY <1>6 DEF TypeInv, TypeOK, CacheTypes, StaleIn
  <1>8. TableTypes' /\ LinkTypes' /\ rowIds <= rowIds'
    BY <1>6, LinksKept, Constants DEF TypeInv, TypeOK, TableTypes, recorded
  <1>9. Counted'
    <2>1. /\ IsFiniteSet(Busy) /\ rowIds + Cardinality(Busy) <= mutations /\ rowIds \in Nat
          /\ mutations \in 0 .. MaxMutations /\ MaxMutations \in Nat
      BY Constants DEF TypeInv, TypeOK, Counted
    <2>2. Busy' \subseteq Busy \cup {p}
      <3>1. SUFFICES ASSUME NEW q \in Proc, q # p, work'[<<q, "purge">>].pc # "idle"
                     PROVE  work[<<q, "purge">>].pc # "idle"
        BY DEF Busy
      <3>2. <<q, "purge">> \in Worker \ {w}
        BY <3>1, Workers
      <3>3. work'[<<q, "purge">>] = work[<<q, "purge">>]
        BY <1>1, <1>5, <3>2, Others DEF OthersStand
      <3>. QED BY <3>1, <3>3
    <2>3. p \notin Busy
      BY <1>2 DEF Busy
    <2>4. IsFiniteSet(Busy \cup {p}) /\ Cardinality(Busy \cup {p}) = Cardinality(Busy) + 1
      BY <2>1, <2>3, FS_AddElement
    <2>5. IsFiniteSet(Busy') /\ Cardinality(Busy') <= Cardinality(Busy) + 1
      BY <2>2, <2>4, FS_Subset
    <2>6. Cardinality(Busy) \in Nat /\ Cardinality(Busy') \in Nat
      BY <2>1, <2>5, FS_CardinalityType
    <2>7. rowIds + Cardinality(Busy') <= mutations + 1 /\ mutations + 1 \in 0 .. MaxMutations
      BY <1>6, <2>1, <2>5, <2>6
    <2>8. faults' \in Nat /\ rowIds' = rowIds
      BY <1>6, FaultsKept DEF recorded
    <2>. QED BY <1>6, <2>5, <2>7, <2>8 DEF Counted
  <1>10. Shaped(w)'
    BY <1>4, <1>5, <1>6 DEF Shaped, ShapedAs, recorded
  <1>11. TypeInv'
    BY <1>1, <1>3, <1>5, <1>7, <1>8, <1>9, <1>10, WorkTypes
  <1>. QED BY <1>3, <1>5, <1>11

(* A step no worker makes *)
LEMMA StillTypes ==
  ASSUME TypeInv, UNCHANGED <<work, recorded, mutations>>, CacheTypes', LinkTypes',
         faults' \in Nat
  PROVE  TypeInv'
  <1>1. TableTypes'
    BY DEF TypeInv, TypeOK, TableTypes, recorded
  <1>2. Counted'
    BY DEF TypeInv, Counted, Busy, recorded
  <1>3. \A v \in Worker: Shaped(v)'
    BY DEF TypeInv, Shaped, ShapedAs, recorded
  <1>4. work' \in [Worker -> WorkType]
    BY DEF TypeInv, TypeOK
  <1>. QED BY <1>1, <1>2, <1>3, <1>4 DEF TypeInv, TypeOK, CacheTypes, TableTypes, LinkTypes

LEMMA FillTypes ==
  ASSUME TypeInv, NEW k \in Entry, Fill(k)
  PROVE  TypeInv'
  <1>1. UNCHANGED <<swept, lost, recorded, links, work, queue, bounds>>
    BY DEF Fill
  <1>2. CacheTypes'
    BY DEF Fill, TypeInv, TypeOK, CacheTypes, StaleIn
  <1>. QED BY <1>1, <1>2, LinksKept, FaultsKept, StillTypes DEF bounds

-----------------------------------------------------------------------------
(* The chain, its links and what asks for a pass *)

LEMMA TargetTypes ==
  ASSUME TypeInv, NEW kind \in {"slices", "collection"}
  PROVE  /\ Target(kind) \in TargetType /\ Target(kind).rows \subseteq 1 .. rowIds
         /\ \A r \in table: r.kind = kind => r.keys \subseteq Target(kind).keys
         /\ \A r \in table: r.id \in Target(kind).rows => r.kind = kind
  <1>1. /\ table \subseteq [id : 1 .. rowIds, kind : {"slices", "collection"}, keys : SUBSET Entry]
        /\ \A r, s \in table: r.id = s.id => r = s
        /\ rowIds \in 0 .. MaxMutations /\ MaxMutations \in Nat
    BY Constants DEF TypeInv, TypeOK
  <1>. DEFINE rows == {r \in table : r.kind = kind}
              keys == UNION {r.keys : r \in rows}
              ids == {r.id : r \in rows}
  <1>2. keys \in SUBSET Entry /\ ids \subseteq 1 .. rowIds /\ ids \subseteq Row
    BY <1>1 DEF Row
  <1>3. /\ Target(kind).keys = keys /\ Target(kind).rows = ids
        /\ Target(kind) \in TargetType
    BY <1>2 DEF Target, TargetType
  <1>. QED BY <1>1, <1>2, <1>3

LEMMA BeginTypes ==
  ASSUME TypeInv, NEW p \in Proc, BeginPass(p)
  PROVE  /\ TypeInv' /\ Only(<<p, "chain">>)
         /\ work'[<<p, "chain">>].pc \in {"idle", "probe"} /\ work'[<<p, "chain">>].rows = {}
         /\ work'[<<p, "chain">>].todo \in {{}, {Target(r.kind) : r \in table}}
  <1>. DEFINE w == <<p, "chain">>
              todo == {Target(r.kind) : r \in table}
              release == [Idle EXCEPT !.pc = "probe", !.kind = "release"]
              drain == [Idle EXCEPT !.pc = "probe", !.todo = todo]
              n == IF Head(queue[p]) = "release" THEN release
                   ELSE IF table = {} THEN Idle ELSE drain
  <1>1. w \in Worker /\ w \in DOMAIN work /\ w[2] = "chain"
    BY Workers, StateTypes
  <1>2. work' = [work EXCEPT ![w] = n] /\ queue' = [queue EXCEPT ![p] = Tail(queue[p])]
        /\ queue[p] # <<>> /\ UNCHANGED <<cache, recorded, links, bounds>>
    BY DEF BeginPass
  <1>3. todo \subseteq TargetType /\ \A t \in todo: t.rows \subseteq 1 .. rowIds
    <2>1. \A r \in table: r.kind \in {"slices", "collection"}
      BY DEF TypeInv, TypeOK
    <2>. QED BY <2>1, TargetTypes
  <1>. HIDE DEF todo
  <1>4. release \in WorkType /\ ShapedAs(w, release) /\ release.rows = {} /\ release.todo = {}
        /\ release.pc = "probe"
    BY <1>1 DEF Idle, WorkType, ShapedAs
  <1>5. drain \in WorkType /\ ShapedAs(w, drain) /\ drain.rows = {} /\ drain.todo = todo
        /\ drain.pc = "probe"
    BY <1>1, <1>3 DEF Idle, WorkType, ShapedAs
  <1>6. ShapedAs(w, Idle)
    BY IdleTypes DEF ShapedAs
  <1>. HIDE DEF release, drain
  <1>7. n \in WorkType /\ ShapedAs(w, n) /\ n.pc \in {"idle", "probe"} /\ n.rows = {}
        /\ n.todo \in {{}, todo}
    BY <1>4, <1>5, <1>6, IdleTypes
  <1>. HIDE DEF n
  <1>8. Only(w) /\ work'[w] = n
    BY <1>1, <1>2 DEF Only
  <1>9. LinkTypes'
    <2>1. queue \in [Proc -> Seq({"drain", "release"})] /\ index' = index /\ store' = store
      BY <1>2 DEF TypeInv, TypeOK, links
    <2>2. Tail(queue[p]) \in Seq({"drain", "release"})
      BY <1>2, <2>1
    <2>. QED BY <1>2, <2>1, <2>2 DEF TypeInv, TypeOK, LinkTypes
  <1>10. TypeInv'
    BY <1>1, <1>2, <1>7, <1>8, <1>9, CacheKept, FaultsKept, StepTypes DEF recorded, bounds
  <1>. QED BY <1>7, <1>8, <1>10 DEF todo

LEMMA ProbeTypes ==
  ASSUME TypeInv, NEW p \in Proc, CacheStoreDropsEntries(p)
  PROVE  LET w == <<p, "chain">> IN
         /\ TypeInv' /\ Only(w)
         /\ \/ work'[w] = Idle
            \/ work[w].kind = "release" /\ work'[w] = [work[w] EXCEPT !.pc = "start"]
            \/ work'[w] \in NextTarget(w)
  <1>. DEFINE w == <<p, "chain">>
              s == [work[w] EXCEPT !.pc = "start"]
  <1>1. /\ w \in Worker /\ w[2] = "chain" /\ w \in DOMAIN work
        /\ work[w] \in WorkType /\ ShapedAs(w, work[w])
    BY Workers, StateTypes
  <1>2. PICK next \in NextTarget(w):
          work' = [work EXCEPT ![w] =
            IF store[p] = "down" THEN Idle
            ELSE IF work[w].kind = "release" THEN s ELSE next]
    BY DEF CacheStoreDropsEntries
  <1>. DEFINE n == IF store[p] = "down" THEN Idle
                   ELSE IF work[w].kind = "release" THEN s ELSE next
  <1>3. work' = [work EXCEPT ![w] = n]
    BY <1>2
  <1>4. s \in WorkType /\ (work[w].kind = "release" => ShapedAs(w, s))
    BY <1>1 DEF WorkType, ShapedAs
  <1>5. ShapedAs(w, Idle)
    BY IdleTypes DEF ShapedAs
  <1>6. next \in WorkType /\ ShapedAs(w, next)
    BY <1>1, NextTargetTypes
  <1>7. /\ n \in WorkType /\ ShapedAs(w, n)
        /\ n = Idle \/ (work[w].kind = "release" /\ n = s) \/ n \in NextTarget(w)
    BY <1>4, <1>5, <1>6, IdleTypes
  <1>. HIDE DEF n
  <1>8. Only(w) /\ work'[w] = n
    BY <1>1, <1>3 DEF Only
  <1>9. UNCHANGED <<cache, recorded, links, queue, bounds>>
    BY DEF CacheStoreDropsEntries
  <1>10. TypeInv'
    BY <1>1, <1>7, <1>8, <1>9, CacheKept, LinksKept, FaultsKept, StepTypes DEF recorded, bounds
  <1>. QED BY <1>7, <1>8, <1>10

LEMMA ClearTypes ==
  ASSUME TypeInv, NEW p \in Proc, ClearPendingScopedCachePurges(p)
  PROVE  /\ TypeInv' /\ Only(<<p, "chain">>)
         /\ work'[<<p, "chain">>] \in NextTarget(<<p, "chain">>)
  <1>. DEFINE w == <<p, "chain">>
  <1>1. w \in Worker /\ w[2] = "chain" /\ w \in DOMAIN work
    BY Workers, StateTypes
  <1>2. PICK next \in NextTarget(w): work' = [work EXCEPT ![w] = next]
    BY DEF ClearPendingScopedCachePurges
  <1>3. Only(w) /\ work'[w] = next
    BY <1>1, <1>2 DEF Only
  <1>4. next \in WorkType /\ ShapedAs(w, next)
    BY <1>1, NextTargetTypes
  <1>5. UNCHANGED <<cache, rowIds, links, queue, bounds>> /\ table' \subseteq table
    BY DEF ClearPendingScopedCachePurges
  <1>6. TypeInv'
    BY <1>1, <1>3, <1>4, <1>5, CacheKept, LinksKept, FaultsKept, StepTypes DEF bounds
  <1>. QED BY <1>2, <1>3, <1>6

LEMMA AskTypes ==
  ASSUME TypeInv, NEW p \in Proc, NEW passes \in Seq({"drain", "release"}), Ask(p, passes),
         index' \in [Proc -> {"up", "down"}], store' \in [Proc -> {"up", "down"}]
  PROVE  LinkTypes'
  <1>1. queue \in [Proc -> Seq({"drain", "release"})]
    BY DEF TypeInv, TypeOK
  <1>2. queue[p] \o passes \in Seq({"drain", "release"})
    BY <1>1
  <1>. QED BY <1>1, <1>2 DEF Ask, LinkTypes

LEMMA LinkSteps ==
  ASSUME TypeInv, NEW p \in Proc,
         \/ RetryInterval(p) \/ IndexReady(p) \/ StoreReady(p) \/ LoseIndex(p) \/ LoseStore(p)
  PROVE  TypeInv' /\ UNCHANGED <<cache, recorded, work>>
  <1>1. index \in [Proc -> {"up", "down"}] /\ store \in [Proc -> {"up", "down"}]
        /\ queue \in [Proc -> Seq({"drain", "release"})]
    BY DEF TypeInv, TypeOK
  <1>2. <<"drain">> \in Seq({"drain", "release"})
        /\ <<"release", "drain">> \in Seq({"drain", "release"})
    OBVIOUS
  <1>3. UNCHANGED <<cache, recorded, work, mutations>>
    BY DEF RetryInterval, IndexReady, StoreReady, LoseIndex, LoseStore, bounds
  <1>4. faults' \in Nat
    BY FaultsKept, FaultTypes
       DEF RetryInterval, IndexReady, StoreReady, LoseIndex, LoseStore, bounds
  <1>5. LinkTypes'
    <2>1. CASE RetryInterval(p)
      BY <1>1, <1>2, <2>1, AskTypes DEF RetryInterval, links
    <2>2. CASE IndexReady(p)
      <3>1. index' \in [Proc -> {"up", "down"}] /\ store' = store
        BY <1>1, <2>2 DEF IndexReady
      <3>2. Ask(p, <<"release", "drain">>)
        BY <2>2 DEF IndexReady
      <3>. QED BY <1>1, <1>2, <3>1, <3>2, AskTypes
    <2>3. CASE StoreReady(p)
      <3>1. store' \in [Proc -> {"up", "down"}] /\ index' = index
        BY <1>1, <2>3 DEF StoreReady
      <3>2. Ask(p, <<"drain">>)
        BY <2>3 DEF StoreReady
      <3>. QED BY <1>1, <1>2, <3>1, <3>2, AskTypes
    <2>4. CASE LoseIndex(p)
      BY <1>1, <2>4 DEF LoseIndex, LinkTypes
    <2>5. CASE LoseStore(p)
      BY <1>1, <2>5 DEF LoseStore, LinkTypes
    <2>. QED BY <2>1, <2>2, <2>3, <2>4, <2>5
  <1>6. TypeInv'
    BY <1>3, <1>4, <1>5, CacheKept, StillTypes
  <1>. QED BY <1>3, <1>6

LEMMA CrashTypes ==
  ASSUME TypeInv, NEW p \in Proc, Crash(p)
  PROVE  TypeInv'
  <1>1. /\ Fault("death") /\ lost' = lost \cup StaleIn(work[<<p, "purge">>].keys)
        /\ work' = [w \in Worker |-> IF w[1] = p THEN Idle ELSE work[w]]
        /\ queue' = [queue EXCEPT ![p] = <<"drain">>]
        /\ index' = [index EXCEPT ![p] = "down"] /\ store' = [store EXCEPT ![p] = "down"]
        /\ UNCHANGED <<entry, own, swept, recorded, mutations>>
    BY DEF Crash
  <1>2. work \in [Worker -> WorkType] /\ work' \in [Worker -> WorkType]
    BY <1>1, IdleTypes DEF TypeInv, TypeOK
  <1>3. \A v \in Worker: Shaped(v)'
    <2>1. SUFFICES ASSUME NEW v \in Worker PROVE ShapedAs(v, work'[v]) /\ rowIds' = rowIds
      BY DEF Shaped, ShapedAs
    <2>2. ShapedAs(v, Idle) /\ ShapedAs(v, work[v])
      BY IdleTypes, StateTypes DEF ShapedAs
    <2>. QED BY <1>1, <2>2 DEF recorded
  <1>4. faults' \in Nat /\ rowIds' = rowIds
    BY <1>1, FaultTypes DEF recorded
  <1>5. Busy' \subseteq Busy
    BY <1>1, Workers, IdleTypes DEF Busy
  <1>6. Counted'
    BY <1>1, <1>4, <1>5, CountKept
  <1>7. CacheTypes'
    BY <1>1, <1>2, Workers DEF TypeInv, TypeOK, CacheTypes, StaleIn, WorkType
  <1>8. LinkTypes'
    <2>1. <<"drain">> \in Seq({"drain", "release"})
      OBVIOUS
    <2>. QED BY <1>1, <2>1 DEF TypeInv, TypeOK, LinkTypes
  <1>9. TableTypes'
    BY <1>1 DEF TypeInv, TypeOK, TableTypes, recorded
  <1>. QED BY <1>2, <1>3, <1>6, <1>7, <1>8, <1>9
       DEF TypeInv, TypeOK, CacheTypes, TableTypes, LinkTypes

(* A step of a purge, a mutation's own or one of a drain *)
LEMMA WorkTyped ==
  ASSUME TypeInv, NEW w \in Worker, WorkNext(w)
  PROVE  TypeInv' /\ Only(w)
  BY ScanTypes, TakeTypes, MoveTypes, DropTypes, EndTypes, ThrowTypes, RecordTypes DEF WorkNext

(* The steps of the system, one disjunct each *)
LEMMA Steps ==
  ASSUME TypeInv, Next
  PROVE  \/ \E p \in Proc, kind \in {"slices", "collection"}, keys \in SUBSET Entry:
              (kind = "collection" => keys = Entry) /\ Commit(p, kind, keys)
         \/ \E k \in Entry: Fill(k)
         \/ \E w \in Worker: WorkNext(w)
         \/ \E p \in Proc: \/ BeginPass(p) \/ CacheStoreDropsEntries(p)
                           \/ ClearPendingScopedCachePurges(p) \/ Crash(p)
                           \/ RetryInterval(p) \/ IndexReady(p) \/ StoreReady(p)
                           \/ LoseIndex(p) \/ LoseStore(p)
  <1>1. ASSUME NEW p \in Proc, NEW keys \in Writes, Commit(p, "slices", keys)
        PROVE  \E kind \in {"slices", "collection"}, ks \in SUBSET Entry:
                 (kind = "collection" => ks = Entry) /\ Commit(p, kind, ks)
    <2>1. keys \in SUBSET Entry
      BY WriteAssumption DEF WriteAssumption
    <2>. QED BY <1>1, <2>1
  <1>2. ASSUME NEW p \in Proc, Commit(p, "collection", Entry)
        PROVE  \E kind \in {"slices", "collection"}, ks \in SUBSET Entry:
                 (kind = "collection" => ks = Entry) /\ Commit(p, kind, ks)
    BY <1>2
  <1>3. ASSUME NEW p \in Proc, WorkNext(<<p, "purge">>) \/ ChainNext(p)
        PROVE  \/ \E w \in Worker: WorkNext(w)
               \/ BeginPass(p) \/ CacheStoreDropsEntries(p) \/ ClearPendingScopedCachePurges(p)
    BY <1>3, Workers DEF ChainNext
  <1>. QED BY <1>1, <1>2, <1>3 DEF Next

LEMMA InitTypes == Init => TypeInv
  <1>. SUFFICES ASSUME Init PROVE TypeInv
    OBVIOUS
  <1>1. MaxMutations \in Nat
    BY Constants
  <1>2. work \in [Worker -> WorkType] /\ \A w \in Worker: work[w] = Idle
    BY IdleTypes DEF Init
  <1>3. \A w \in Worker: Shaped(w)
    BY <1>2, IdleTypes DEF Shaped, ShapedAs
  <1>4. Busy = {}
    <2>1. ASSUME NEW p \in Proc PROVE work[<<p, "purge">>].pc = "idle"
      <3>1. <<p, "purge">> \in Worker
        BY Workers
      <3>. QED BY <1>2, <3>1, IdleTypes
    <2>. QED BY <2>1 DEF Busy
  <1>5. IsFiniteSet(Busy) /\ Cardinality(Busy) = 0
    BY <1>4, FS_EmptySet
  <1>6. Counted
    BY <1>1, <1>5 DEF Init, Counted
  <1>7. CacheTypes
    BY DEF Init, CacheTypes, StaleIn
  <1>8. TableTypes
    BY <1>1 DEF Init, TableTypes
  <1>9. LinkTypes
    BY DEF Init, LinkTypes
  <1>. QED BY <1>2, <1>3, <1>6, <1>7, <1>8, <1>9, TypeParts

LEMMA NextTypes == TypeInv /\ [Next]_vars => TypeInv'
  <1>. SUFFICES ASSUME TypeInv, [Next]_vars PROVE TypeInv'
    OBVIOUS
  <1>1. CASE UNCHANGED vars
    BY <1>1, CacheKept, LinksKept, FaultsKept, StillTypes DEF vars, bounds
  <1>2. CASE Next
    BY <1>2, Steps, CommitTypes, FillTypes, WorkTyped, BeginTypes, ProbeTypes, ClearTypes,
       CrashTypes, LinkSteps
  <1>. QED BY <1>1, <1>2

(* Whatever fails, the recorded purges, the sets moved aside and the passes   *)
(* of a chain keep their types: a row of slices names no more than a retry    *)
(* replays, rows have ids of their own, and there are no more rows than       *)
(* mutations whose purge is over (scoped-cache-pending-purges.ts).            *)
THEOREM TypeCorrect == Spec => []TypeOK
  <1>1. TypeInv => TypeOK
    BY DEF TypeInv
  <1>. QED BY InitTypes, NextTypes, <1>1, PTL DEF Spec

-----------------------------------------------------------------------------
(* What one step must show of its own worker, and what the others keep *)

LEMMA AsideKept ==
  ASSUME OwedInv, NEW w \in Worker, Only(w), NEW k, Aside(k),
         \A i \in Sweep: Held(i) => swept[i] \subseteq swept'[i],
         \A i \in Sweep: Held(i) /\ k \in swept[i]
                           => ~(/\ work'[w].pc = "end" /\ work'[w].kind # "slices"
                                /\ i \in work'[w].taken)
  PROVE  Aside(k)'
  <1>1. PICK i \in Sweep: k \in swept[i] /\ Held(i)
    BY DEF Aside
  <1>2. Held(i)'
    BY <1>1, Others DEF OwedInv, OthersStand, Held
  <1>. QED BY <1>1, <1>2 DEF Aside, Sweep

LEMMA WaitsKept ==
  ASSUME OwedInv, NEW w \in Worker, Only(w), NEW k, NEW r, Waits(r, k),
         w[2] = "chain" /\ r.id \in work'[w].rows => ~Passed(w, k)'
  PROVE  Waits(r, k)'
  <1>. SUFFICES ASSUME NEW p \in Proc, r.id \in work'[<<p, "chain">>].rows
                PROVE  ~Passed(<<p, "chain">>, k)'
    BY DEF Waits
  <1>1. CASE w = <<p, "chain">>
    BY <1>1, Workers
  <1>2. CASE w # <<p, "chain">>
    <2>1. <<p, "chain">> \in Worker \ {w}
      BY <1>2, Workers
    <2>2. work'[<<p, "chain">>] = work[<<p, "chain">>]
      BY <2>1, Others DEF OwedInv, OthersStand
    <2>. QED BY <2>2 DEF Waits, Passed
  <1>. QED BY <1>1, <1>2

LEMMA CoversKept ==
  ASSUME OwedInv, NEW w \in Worker, Only(w), NEW k, NEW p \in Proc, Covers(p, k),
         w # <<p, "purge">>
  PROVE  Covers(p, k)'
  <1>1. <<p, "purge">> \in Worker \ {w}
    BY Workers
  <1>2. work'[<<p, "purge">>] = work[<<p, "purge">>]
    BY <1>1, Others DEF OwedInv, OthersStand
  <1>. QED BY <1>2 DEF Covers

(* An entry stays owed if the step keeps what its own worker owed. *)
LEMMA OwedKept ==
  ASSUME OwedInv, NEW w \in Worker, Only(w), NEW k \in Entry, Owed(k),
         k \in lost => k \in lost',
         Aside(k) => Aside(k)',
         \A p \in Proc: w = <<p, "purge">> /\ Covers(p, k) => Owed(k)',
         \A r \in table: Waits(r, k) /\ r \in table' /\ w[2] = "chain"
                           /\ r.id \in work'[w].rows /\ Passed(w, k)' => Owed(k)',
         \A r \in table \ table': ~Waits(r, k)
  PROVE  Owed(k)'
  <1>1. ASSUME NEW p \in Proc, Covers(p, k) PROVE Owed(k)'
    BY <1>1, CoversKept DEF Owed
  <1>2. ASSUME NEW r \in table, Waits(r, k) PROVE Owed(k)'
    BY <1>2, WaitsKept DEF Owed
  <1>. QED BY <1>1, <1>2 DEF Owed

LEMMA StepOwed ==
  ASSUME OwedInv, NEW w \in Worker, Only(w), TypeInv',
         \A v \in Worker \ {w}: \A i \in work[v].taken: swept'[i] \subseteq swept[i],
         \A k \in Entry: entry[k] = "none" => entry'[k] = "none",
         \A r \in table': r \in table \/ r.id \notin 1 .. rowIds,
         Reads(w)', Drops(w)', Lists(w)', EntriesAreNamed',
         \A k \in Entry: entry'[k] = "stale" => Owed(k)'
  PROVE  OwedInv'
  <1>1. ASSUME NEW v \in Worker \ {w} PROVE Reads(v)' /\ Drops(v)' /\ Lists(v)'
    <2>1. work'[v] = work[v] /\ work[v] \in WorkType /\ ShapedAs(v, work[v])
      BY Others, StateTypes DEF OwedInv, OthersStand
    <2>2. Reads(v) /\ Drops(v) /\ Lists(v)
      BY DEF OwedInv
    <2>3. Reads(v)'
      BY <2>1, <2>2 DEF Reads
    <2>4. Drops(v)'
      BY <2>1, <2>2 DEF Drops, WorkType
    <2>5. Lists(v)'
      BY <2>1, <2>2 DEF Lists, ShapedAs
    <2>. QED BY <2>3, <2>4, <2>5
  <1>2. \A v \in Worker: Reads(v)' /\ Drops(v)' /\ Lists(v)'
    BY <1>1
  <1>. QED BY <1>2 DEF OwedInv

LEMMA OverLists ==
  ASSUME OwedInv, NEW w \in Worker
  PROVE  /\ Over(w).pc \in {"idle", "clear"} /\ Over(w).rows \subseteq work[w].rows
         /\ \A r \in table:
              /\ r.id \in Over(w).rows => r.keys \subseteq Over(w).keys
              /\ \A t \in Over(w).todo: r.id \in t.rows => r.keys \subseteq t.keys
  <1>1. work[w] \in WorkType /\ Lists(w)
    BY StateTypes DEF OwedInv
  <1>2. CASE Over(w) = Idle
    BY <1>2, IdleTypes
  <1>3. CASE Over(w) = [work[w] EXCEPT !.pc = "clear"]
    <2>1. Over(w).pc = "clear" /\ Over(w).rows = work[w].rows /\ Over(w).keys = work[w].keys
          /\ Over(w).todo = work[w].todo
      BY <1>1, <1>3 DEF WorkType
    <2>. QED BY <1>1, <2>1 DEF Lists
  <1>. QED BY <1>2, <1>3 DEF Over

LEMMA NextTargetLists ==
  ASSUME OwedInv, NEW w \in Worker, NEW n \in NextTarget(w)
  PROVE  /\ n.pc \in {"idle", "start"}
         /\ \A r \in table:
              /\ r.id \in n.rows => r.keys \subseteq n.keys
              /\ \A t \in n.todo: r.id \in t.rows => r.keys \subseteq t.keys
  <1>1. Lists(w)
    BY DEF OwedInv
  <1>2. ASSUME n # Idle
        PROVE  \E t \in work[w].todo: /\ n.pc = "start" /\ n.keys = t.keys /\ n.rows = t.rows
                                      /\ n.todo = work[w].todo \ {t}
    BY <1>2 DEF NextTarget, Idle
  <1>. QED BY <1>1, <1>2, IdleTypes DEF Lists

-----------------------------------------------------------------------------
(* The steps of a purge *)

LEMMA ScanOwed ==
  ASSUME OwedInv, NEW w \in Worker, ScanRowIndexedEntries(w)
  PROVE  OwedInv'
  <1>1. TypeInv' /\ Only(w) /\ TypeInv
    BY ScanTypes DEF OwedInv
  <1>. DEFINE found == own \cap work[w].keys
              s == [work[w] EXCEPT !.pc = "drop", !.found = found]
  <1>2. /\ work[w].pc = "start" /\ work[w].kind = "slices" /\ UNCHANGED <<cache, recorded>>
        /\ work[w] \in WorkType /\ ShapedAs(w, work[w]) /\ w \in DOMAIN work
    BY <1>1, StateTypes DEF ScanRowIndexedEntries
  <1>3. work'[w] = IF found = {} THEN Over(w) ELSE s
    BY <1>2 DEF ScanRowIndexedEntries
  <1>4. /\ s.pc = "drop" /\ s.found = found /\ s.kind = "slices" /\ s.keys = work[w].keys
        /\ s.rows = work[w].rows /\ s.todo = work[w].todo
    BY <1>2 DEF WorkType
  <1>. HIDE DEF s
  <1>5. work'[w].pc \in {"idle", "clear", "drop"} /\ work'[w].rows \subseteq work[w].rows
    BY <1>3, <1>4, OverLists
  <1>6. Reads(w)' /\ Drops(w)'
    BY <1>3, <1>4, OverLists DEF Reads, Drops
  <1>7. Lists(w)'
    BY <1>2, <1>3, <1>4, OverLists DEF Lists, OwedInv, recorded
  <1>8. \A k: Aside(k) => Aside(k)'
    BY <1>1, <1>2, <1>5, AsideKept DEF cache
  <1>9. EntriesAreNamed'
    BY <1>2, <1>8 DEF EntriesAreNamed, OwedInv, cache
  <1>10. ASSUME NEW k \in Entry, entry'[k] = "stale" PROVE Owed(k)'
    <2>1. Owed(k) /\ (k \in own \/ Aside(k))
      BY <1>2, <1>10 DEF OwedInv, EntriesAreNamed, cache
    <2>2. CASE Aside(k)
      BY <1>8, <2>2 DEF Owed
    <2>3. CASE k \in own
      <3>1. k \in work[w].keys => work'[w] = s /\ k \in found
        BY <1>3, <2>3
      <3>2. ASSUME NEW p \in Proc, w = <<p, "purge">>, Covers(p, k) PROVE Owed(k)'
        BY <1>4, <3>1, <3>2 DEF Covers, Owed
      <3>3. ASSUME NEW r \in table, Waits(r, k), r.id \in work'[w].rows PROVE ~Passed(w, k)'
        <4>1. k \in r.keys /\ r.id \in work[w].rows
          BY <1>5, <3>3 DEF Waits
        <4>2. k \in work[w].keys
          BY <4>1 DEF OwedInv, Lists
        <4>. QED BY <1>4, <3>1, <4>2 DEF Passed
      <3>. QED BY <1>1, <1>2, <1>8, <2>1, <3>2, <3>3, OwedKept DEF cache, recorded
    <2>. QED BY <2>1, <2>2, <2>3
  <1>. QED BY <1>1, <1>2, <1>6, <1>7, <1>9, <1>10, StepOwed DEF cache, recorded

LEMMA TakeOwed ==
  ASSUME OwedInv, NEW w \in Worker, TakeSweptIndexKeys(w)
  PROVE  OwedInv'
  <1>1. TypeInv' /\ Only(w) /\ TypeInv
    BY TakeTypes DEF OwedInv
  <1>. DEFINE taken == {i \in Sweep : swept[i] # {}}
              found == UNION {swept[i] : i \in Sweep}
              pc == IF work[w].kind = "release" THEN "drop" ELSE "move"
              s == [work[w] EXCEPT !.pc = pc, !.taken = taken, !.found = found]
  <1>2. /\ work[w].pc = "start" /\ work[w].kind # "slices" /\ UNCHANGED <<cache, recorded>>
        /\ work[w] \in WorkType /\ ShapedAs(w, work[w]) /\ w \in DOMAIN work
    BY <1>1, StateTypes DEF TakeSweptIndexKeys
  <1>3. work'[w] = s
    BY <1>2 DEF TakeSweptIndexKeys
  <1>4. /\ s.pc = pc /\ s.found = found /\ s.taken = taken /\ s.kind = work[w].kind
        /\ s.keys = work[w].keys /\ s.rows = work[w].rows /\ s.todo = work[w].todo
    BY <1>2 DEF WorkType
  <1>. HIDE DEF s
  <1>5. \A i \in taken: swept[i] \subseteq found
    OBVIOUS
  <1>6. Reads(w)' /\ Drops(w)'
    BY <1>2, <1>3, <1>4, <1>5 DEF Reads, Drops, cache
  <1>7. Lists(w)'
    BY <1>2, <1>3, <1>4 DEF Lists, OwedInv, recorded
  <1>8. \A k: Aside(k) => Aside(k)'
    BY <1>1, <1>2, <1>3, <1>4, AsideKept DEF cache
  <1>9. EntriesAreNamed'
    BY <1>2, <1>8 DEF EntriesAreNamed, OwedInv, cache
  <1>10. ASSUME NEW k \in Entry, entry'[k] = "stale" PROVE Owed(k)'
    <2>1. Owed(k)
      BY <1>2, <1>10 DEF OwedInv, cache
    <2>2. ASSUME NEW p \in Proc, w = <<p, "purge">>, Covers(p, k) PROVE Owed(k)'
      <3>1. pc = "move"
        BY <1>2, <2>2, Workers DEF ShapedAs
      <3>. QED BY <1>3, <1>4, <2>2, <3>1 DEF Covers, Owed
    <2>3. ASSUME NEW r \in table, r.id \in work'[w].rows PROVE ~Passed(w, k)'
      BY <1>2, <1>3, <1>4, <2>3 DEF Passed, ShapedAs
    <2>. QED BY <1>1, <1>2, <1>8, <2>1, <2>2, <2>3, OwedKept DEF cache, recorded
  <1>. QED BY <1>1, <1>2, <1>6, <1>7, <1>9, <1>10, StepOwed DEF cache, recorded

LEMMA MoveOwed ==
  ASSUME OwedInv, NEW w \in Worker, SweepMove(w)
  PROVE  OwedInv'
  <1>1. TypeInv' /\ Only(w) /\ TypeInv
    BY MoveTypes DEF OwedInv
  <1>0. PICK moved \in Sweep:
          /\ moved \in FreshSweeps /\ swept' = [swept EXCEPT ![moved] = own]
          /\ work' = [work EXCEPT ![w].pc = "drop", ![w].found = @ \cup own,
                                  ![w].taken = IF own = {} THEN @ ELSE @ \cup {moved}]
    BY DEF SweepMove, FreshSweeps
  <1>. DEFINE taken == IF own = {} THEN work[w].taken ELSE work[w].taken \cup {moved}
              s == [work[w] EXCEPT !.pc = "drop", !.found = work[w].found \cup own,
                                   !.taken = taken]
  <1>2. /\ work[w].pc = "move" /\ UNCHANGED <<entry, lost, recorded>> /\ own' = {}
        /\ swept' = [swept EXCEPT ![moved] = own]
        /\ work[w] \in WorkType /\ ShapedAs(w, work[w]) /\ w \in DOMAIN work
    BY <1>0, <1>1, StateTypes DEF SweepMove
  <1>3. moved \in Sweep /\ swept[moved] = {} /\ \A v \in Worker: moved \notin work[v].taken
    BY <1>0 DEF FreshSweeps
  <1>4. work'[w] = s
    BY <1>0, <1>2
  <1>5. /\ s.pc = "drop" /\ s.found = work[w].found \cup own /\ s.taken = taken
        /\ s.kind = work[w].kind
        /\ s.keys = work[w].keys /\ s.rows = work[w].rows /\ s.todo = work[w].todo
    BY <1>2 DEF WorkType
  <1>. HIDE DEF s
  <1>6. /\ \A i \in Sweep: swept[i] \subseteq swept'[i]
        /\ \A i \in Sweep: i # moved => swept'[i] = swept[i]
        /\ swept'[moved] = own
    BY <1>1, <1>2, <1>3 DEF TypeInv, TypeOK
  <1>7. Reads(w)' /\ Drops(w)'
    <2>1. \A i \in work[w].taken: swept[i] \subseteq work[w].found /\ i \in Sweep
      BY <1>2 DEF OwedInv, Reads, ShapedAs, WorkType
    <2>2. \A i \in taken: swept'[i] \subseteq work[w].found \cup own
      BY <1>3, <1>6, <2>1
    <2>. QED BY <1>4, <1>5, <2>2 DEF Reads, Drops
  <1>8. Lists(w)'
    BY <1>2, <1>4, <1>5 DEF Lists, OwedInv, recorded
  <1>9. \A k: Aside(k) => Aside(k)'
    BY <1>1, <1>4, <1>5, <1>6, AsideKept
  <1>10. Held(moved)'
    <2>1. \A v \in Worker \ {w}: work'[v] = work[v]
      BY <1>1, Others DEF OthersStand
    <2>. QED BY <1>3, <1>4, <1>5, <2>1 DEF Held
  <1>11. \A k \in own: Aside(k)'
    BY <1>3, <1>6, <1>10 DEF Aside, Sweep
  <1>12. \A k \in Entry: entry'[k] # "none" => Aside(k)'
    BY <1>2, <1>9, <1>11 DEF OwedInv, EntriesAreNamed
  <1>13. EntriesAreNamed' /\ \A k \in Entry: entry'[k] = "stale" => Owed(k)'
    BY <1>12 DEF EntriesAreNamed, Owed
  <1>14. \A v \in Worker \ {w}: \A i \in work[v].taken: swept'[i] \subseteq swept[i]
    <2>1. \A v \in Worker: work[v].taken \subseteq Sweep
      BY <1>1, StateTypes DEF WorkType
    <2>. QED BY <1>3, <1>6, <2>1
  <1>. QED BY <1>1, <1>2, <1>7, <1>8, <1>13, <1>14, StepOwed DEF recorded

LEMMA DropOwed ==
  ASSUME OwedInv, NEW w \in Worker, DropSweptScopedCacheEntries(w)
  PROVE  OwedInv'
  <1>1. TypeInv' /\ Only(w) /\ TypeInv
    BY DropTypes DEF OwedInv
  <1>. DEFINE s == [work[w] EXCEPT !.pc = "end"]
              found == work[w].found
  <1>2. /\ work[w].pc = "drop" /\ UNCHANGED <<own, swept, recorded>>
        /\ entry' = [k \in Entry |-> IF k \in found THEN "none" ELSE entry[k]]
        /\ lost' = lost \ found
        /\ work[w] \in WorkType /\ w \in DOMAIN work
    BY <1>1, StateTypes DEF DropSweptScopedCacheEntries, DropEntries
  <1>3. work'[w] = s
    BY <1>2 DEF DropSweptScopedCacheEntries
  <1>4. /\ s.pc = "end" /\ s.found = found /\ s.taken = work[w].taken /\ s.kind = work[w].kind
        /\ s.keys = work[w].keys /\ s.rows = work[w].rows /\ s.todo = work[w].todo
    BY <1>2 DEF WorkType
  <1>. HIDE DEF s
  <1>5. Reads(w)' /\ Drops(w)' /\ Reads(w)
    BY <1>2, <1>3, <1>4 DEF OwedInv, Reads, Drops, WorkType
  <1>6. Lists(w)'
    BY <1>2, <1>3, <1>4 DEF Lists, OwedInv, recorded
  <1>7. ASSUME NEW k \in Entry, k \notin found, Aside(k) PROVE Aside(k)'
    <2>1. \A i \in Sweep: Held(i) /\ k \in swept[i]
            => ~(work'[w].pc = "end" /\ work'[w].kind # "slices" /\ i \in work'[w].taken)
      BY <1>2, <1>3, <1>4, <1>5, <1>7 DEF Reads
    <2>. QED BY <1>1, <1>2, <1>7, <2>1, AsideKept
  <1>8. EntriesAreNamed'
    BY <1>2, <1>7 DEF EntriesAreNamed, OwedInv
  <1>9. ASSUME NEW k \in Entry, entry'[k] = "stale" PROVE Owed(k)'
    <2>1. Owed(k) /\ k \notin found
      BY <1>2, <1>9 DEF OwedInv
    <2>2. \A p \in Proc: w = <<p, "purge">> => ~Covers(p, k)
      BY <1>2, <2>1 DEF Covers
    <2>3. ASSUME NEW r \in table, Waits(r, k), w[2] = "chain", r.id \in work'[w].rows
          PROVE  FALSE
      <3>1. r.id \in work[w].rows /\ Passed(w, k)
        BY <1>2, <1>3, <1>4, <2>1, <2>3 DEF Passed
      <3>2. w = <<w[1], "chain">> /\ w[1] \in Proc
        BY <2>3, WorkerIs
      <3>. QED BY <2>3, <3>1, <3>2 DEF Waits
    <2>. QED BY <1>1, <1>2, <1>7, <2>1, <2>2, <2>3, OwedKept DEF recorded
  <1>10. \A k \in Entry: entry[k] = "none" => entry'[k] = "none"
    BY <1>2
  <1>. QED BY <1>1, <1>2, <1>5, <1>6, <1>8, <1>9, <1>10, StepOwed DEF recorded

(* A drain about to release, or to clear its rows, is past every entry they name. *)
LEMMA PastRows ==
  ASSUME NEW w \in Worker, w[2] = "chain", NEW k, NEW r, Waits(r, k),
         work[w].pc \in {"end", "clear"}
  PROVE  r.id \notin work[w].rows
  <1>1. w = <<w[1], "chain">> /\ w[1] \in Proc
    BY WorkerIs
  <1>. QED BY <1>1 DEF Waits, Passed

LEMMA EndOwed ==
  ASSUME OwedInv, NEW w \in Worker, EndPurge(w)
  PROVE  OwedInv'
  <1>1. TypeInv' /\ Only(w) /\ TypeInv
    BY EndTypes DEF OwedInv
  <1>2. /\ work[w].pc = "end" /\ UNCHANGED <<entry, lost, recorded>>
        /\ \/ work[w].kind = "slices" /\ own' = own \ work[w].found /\ swept' = swept
           \/ /\ work[w].kind # "slices" /\ own' = own
              /\ swept' = [i \in Sweep |-> IF i \in work[w].taken THEN {} ELSE swept[i]]
        /\ w \in DOMAIN work
    BY <1>1, StateTypes DEF EndPurge
  <1>3. work'[w] = Over(w)
    BY <1>2 DEF EndPurge
  <1>4. work'[w].pc \in {"idle", "clear"} /\ work'[w].rows \subseteq work[w].rows
    BY <1>3, OverLists
  <1>5. Reads(w)' /\ Drops(w)'
    BY <1>4 DEF Reads, Drops
  <1>6. Lists(w)'
    BY <1>2, <1>3, OverLists DEF Lists, recorded
  <1>7. ASSUME NEW k, Aside(k) PROVE Aside(k)'
    <2>1. \A i \in Sweep: Held(i) => swept[i] \subseteq swept'[i]
      BY <1>2 DEF Held
    <2>. QED BY <1>1, <1>4, <1>7, <2>1, AsideKept
  <1>8. EntriesAreNamed'
    <2>1. Drops(w)
      BY DEF OwedInv
    <2>. QED BY <1>2, <1>7, <2>1 DEF EntriesAreNamed, OwedInv, Drops
  <1>9. ASSUME NEW k \in Entry, entry'[k] = "stale" PROVE Owed(k)'
    <2>1. Owed(k)
      BY <1>2, <1>9 DEF OwedInv
    <2>2. \A p \in Proc: w = <<p, "purge">> => ~Covers(p, k)
      BY <1>2 DEF Covers
    <2>3. \A r \in table: Waits(r, k) /\ w[2] = "chain" => r.id \notin work'[w].rows
      BY <1>2, <1>4, PastRows
    <2>. QED BY <1>1, <1>2, <1>7, <2>1, <2>2, <2>3, OwedKept DEF recorded
  <1>10. \A v \in Worker \ {w}: \A i \in work[v].taken: swept'[i] \subseteq swept[i]
    <2>1. \A v \in Worker: work[v].taken \subseteq Sweep
      BY <1>1, StateTypes DEF WorkType
    <2>. QED BY <1>2, <2>1
  <1>. QED BY <1>1, <1>2, <1>5, <1>6, <1>8, <1>9, <1>10, StepOwed DEF recorded

(* A step that drops entries, gives its worker nothing to release and keeps   *)
(* the table *)
LEMMA BackOwed ==
  ASSUME OwedInv, NEW w \in Worker, Only(w), TypeInv', UNCHANGED <<own, swept>>,
         NEW dropped, DropEntries(dropped), table' \subseteq table,
         work'[w].pc \notin {"move", "drop", "end"}, Lists(w)',
         \A k \in Entry, p \in Proc: w = <<p, "purge">> /\ Covers(p, k) => Covers(p, k)',
         \A k \in Entry: \A r \in table \ table': ~Waits(r, k),
         \A k \in Entry: \A r \in table: w[2] = "chain" /\ Waits(r, k) /\ Passed(w, k)'
                                            => r.id \notin work'[w].rows
  PROVE  OwedInv'
  <1>1. /\ entry' = [k \in Entry |-> IF k \in dropped THEN "none" ELSE entry[k]]
        /\ lost' = lost \ dropped
    BY DEF DropEntries
  <1>2. Reads(w)' /\ Drops(w)'
    BY DEF Reads, Drops
  <1>3. ASSUME NEW k, Aside(k) PROVE Aside(k)'
    BY <1>3, AsideKept
  <1>4. EntriesAreNamed'
    BY <1>1, <1>3 DEF EntriesAreNamed, OwedInv
  <1>5. ASSUME NEW k \in Entry, entry'[k] = "stale" PROVE Owed(k)'
    <2>1. Owed(k) /\ k \notin dropped
      BY <1>1, <1>5 DEF OwedInv
    <2>2. \A p \in Proc: w = <<p, "purge">> /\ Covers(p, k) => Owed(k)'
      BY DEF Owed
    <2>3. \A r \in table: Waits(r, k) /\ r \in table' /\ w[2] = "chain"
                            /\ r.id \in work'[w].rows /\ Passed(w, k)' => Owed(k)'
      OBVIOUS
    <2>. QED BY <1>1, <1>3, <2>1, <2>2, <2>3, OwedKept
  <1>6. /\ \A k \in Entry: entry[k] = "none" => entry'[k] = "none"
        /\ \A r \in table': r \in table \/ r.id \notin 1 .. rowIds
        /\ \A v \in Worker \ {w}: \A i \in work[v].taken: swept'[i] \subseteq swept[i]
    BY <1>1
  <1>. QED BY <1>2, <1>4, <1>5, <1>6, StepOwed

LEMMA ThrowOwed ==
  ASSUME OwedInv, NEW w \in Worker, PurgeThrows(w)
  PROVE  OwedInv'
  <1>1. TypeInv' /\ Only(w) /\ TypeInv /\ ThrownTo(w, work'[w])
    BY ThrowTypes DEF OwedInv
  <1>2. /\ work[w] \in WorkType /\ ShapedAs(w, work[w]) /\ w[2] \in {"purge", "chain"}
        /\ UNCHANGED <<own, swept, recorded>> /\ table' = table
    BY <1>1, StateTypes, WorkerIs DEF PurgeThrows, recorded
  <1>3. PICK dropped \in SUBSET (IF work[w].pc = "drop" THEN work[w].found ELSE {}):
          DropEntries(dropped)
    BY DEF PurgeThrows
  <1>4. /\ work'[w].pc \notin {"move", "drop", "end"} /\ Lists(w)'
        /\ \A k \in Entry, p \in Proc: w = <<p, "purge">> /\ Covers(p, k) => Covers(p, k)'
        /\ \A k \in Entry: \A r \in table: w[2] = "chain" /\ Waits(r, k) /\ Passed(w, k)'
                                             => r.id \notin work'[w].rows
    <2>1. CASE work'[w] = Over(w) /\ work[w].pc = "end"
      <3>1. /\ work'[w].pc \in {"idle", "clear"} /\ work'[w].rows \subseteq work[w].rows
            /\ Lists(w)'
        BY <1>2, <2>1, OverLists DEF Lists
      <3>2. \A k \in Entry, p \in Proc: w = <<p, "purge">> => ~Covers(p, k)
        BY <2>1 DEF Covers
      <3>3. \A k \in Entry: \A r \in table: w[2] = "chain" /\ Waits(r, k)
                                              => r.id \notin work'[w].rows
        BY <2>1, <3>1, PastRows
      <3>. QED BY <3>1, <3>2, <3>3
    <2>2. CASE w[2] = "purge"
               /\ work'[w] = [work[w] EXCEPT !.pc = "record", !.found = {}, !.taken = {}]
      <3>1. /\ work'[w].pc = "record" /\ work'[w].keys = work[w].keys
            /\ work'[w].rows = {} /\ work'[w].todo = {}
        BY <1>2, <2>2 DEF WorkType, ShapedAs
      <3>2. Lists(w)'
        BY <3>1 DEF Lists
      <3>3. \A k \in Entry, p \in Proc: w = <<p, "purge">> /\ Covers(p, k) => Covers(p, k)'
        BY <3>1 DEF Covers
      <3>. QED BY <2>2, <3>1, <3>2, <3>3
    <2>3. CASE w[2] = "chain" /\ work'[w] \in NextTarget(w)
      <3>1. work'[w].pc \in {"idle", "start"} /\ Lists(w)'
        BY <1>2, <2>3, NextTargetLists DEF Lists
      <3>2. \A k \in Entry: ~Passed(w, k)'
        BY <3>1 DEF Passed
      <3>3. \A p \in Proc: w # <<p, "purge">>
        BY <2>3, Workers
      <3>. QED BY <3>1, <3>2, <3>3
    <2>4. CASE w[2] = "chain" /\ work'[w] = Idle
      <3>1. work'[w].pc = "idle" /\ work'[w].rows = {} /\ Lists(w)'
        BY <2>4, IdleTypes DEF Lists
      <3>2. \A p \in Proc: w # <<p, "purge">>
        BY <2>4, Workers
      <3>. QED BY <3>1, <3>2
    <2>. QED BY <1>1, <2>1, <2>2, <2>3, <2>4 DEF ThrownTo
  <1>. QED BY <1>1, <1>2, <1>3, <1>4, BackOwed

LEMMA RecordOwed ==
  ASSUME OwedInv, NEW w \in Worker, RecordPendingScopedCachePurge(w)
  PROVE  OwedInv'
  <1>1. TypeInv' /\ Only(w) /\ TypeInv /\ work'[w] = Idle /\ w[2] = "purge"
    BY RecordTypes DEF OwedInv
  <1>2. /\ work[w] \in WorkType /\ ShapedAs(w, work[w]) /\ rowIds \in Nat
        /\ w = <<w[1], "purge">> /\ w[1] \in Proc /\ work[w].pc = "record"
        /\ UNCHANGED <<entry, own, swept>>
    BY <1>1, StateTypes, WorkerIs DEF RecordPendingScopedCachePurge
  <1>. DEFINE r == PendingScopedCachePurgeRow(work[w].kind, work[w].keys)
  <1>3. r.id = rowIds + 1 /\ work[w].keys \subseteq r.keys
    BY <1>1, <1>2, RowTypes DEF ShapedAs, WorkType
  <1>4. \/ table' = table \cup {r} /\ lost' = lost
        \/ table' = table /\ lost' = lost \cup StaleIn(work[w].keys)
    BY DEF RecordPendingScopedCachePurge, recorded
  <1>. HIDE DEF r
  <1>5. Reads(w)' /\ Drops(w)' /\ Lists(w)'
    BY <1>1, IdleTypes DEF Reads, Drops, Lists
  <1>6. \A k: Aside(k) => Aside(k)'
    BY <1>1, <1>2, IdleTypes, AsideKept
  <1>7. EntriesAreNamed'
    BY <1>2, <1>6 DEF EntriesAreNamed, OwedInv
  <1>8. r.id \notin 1 .. rowIds /\ \A u \in table': u \in table \/ u.id \notin 1 .. rowIds
    BY <1>2, <1>3, <1>4
  <1>9. \A p \in Proc: r.id \notin work'[<<p, "chain">>].rows
    <2>1. SUFFICES ASSUME NEW p \in Proc PROVE r.id \notin work'[<<p, "chain">>].rows
      OBVIOUS
    <2>2. <<p, "chain">> \in Worker /\ <<p, "chain">> # w
      BY <1>1, Workers
    <2>3. work'[<<p, "chain">>] = work[<<p, "chain">>] /\ ShapedAs(<<p, "chain">>, work[<<p, "chain">>])
      BY <1>1, <2>2, Others, StateTypes DEF OthersStand
    <2>. QED BY <1>8, <2>3 DEF ShapedAs
  <1>10. ASSUME NEW k \in Entry, entry'[k] = "stale" PROVE Owed(k)'
    <2>1. Owed(k) /\ entry[k] = "stale"
      BY <1>2, <1>10 DEF OwedInv
    <2>2. CASE k \in work[w].keys
      <3>1. CASE table' = table \cup {r}
        <4>1. k \in r.keys
          BY <1>3, <2>2
        <4>2. ASSUME NEW u, u = r PROVE Waits(u, k)'
          BY <1>9, <4>1, <4>2 DEF Waits
        <4>3. r \in table'
          BY <3>1
        <4>4. PICK u : u = r
          OBVIOUS
        <4>. QED BY <4>2, <4>3, <4>4 DEF Owed
      <3>2. CASE lost' = lost \cup StaleIn(work[w].keys)
        BY <2>1, <2>2, <3>2 DEF StaleIn, Owed
      <3>. QED BY <1>4, <3>1, <3>2
    <2>3. CASE k \notin work[w].keys
      <3>1. \A p \in Proc: w = <<p, "purge">> => ~Covers(p, k)
        BY <2>3 DEF Covers
      <3>2. table \subseteq table' /\ lost \subseteq lost'
        BY <1>4
      <3>. QED BY <1>1, <1>6, <2>1, <3>1, <3>2, OwedKept
    <2>. QED BY <2>2, <2>3
  <1>. QED BY <1>1, <1>2, <1>5, <1>7, <1>8, <1>10, StepOwed

-----------------------------------------------------------------------------
(* Mutations, fills and the chain *)

LEMMA CommitOwed ==
  ASSUME OwedInv, NEW p \in Proc, NEW kind \in {"slices", "collection"},
         NEW keys \in SUBSET Entry, kind = "collection" => keys = Entry,
         Commit(p, kind, keys)
  PROVE  OwedInv'
  <1>. DEFINE w == <<p, "purge">>
  <1>1. /\ w \in Worker /\ w[2] = "purge" /\ \A q \in Proc: w = <<q, "purge">> => q = p
        /\ \A q \in Proc: w # <<q, "chain">>
    BY Workers
  <1>2. /\ TypeInv /\ TypeInv' /\ Only(w) /\ work'[w].pc = "start" /\ work'[w].keys = keys
    BY CommitTypes DEF OwedInv
  <1>3. work'[w].rows = {} /\ work'[w].todo = {}
    <2>1. Shaped(w)'
      BY <1>1, <1>2 DEF TypeInv
    <2>. QED BY <1>1, <2>1 DEF Shaped, ShapedAs
  <1>4. /\ entry' = [k \in Entry |-> IF k \in keys /\ entry[k] = "fresh" THEN "stale" ELSE entry[k]]
        /\ work[w].pc = "idle" /\ UNCHANGED <<own, swept, lost, recorded>>
    BY DEF Commit
  <1>5. Reads(w)' /\ Drops(w)' /\ Lists(w)'
    BY <1>2, <1>3 DEF Reads, Drops, Lists
  <1>6. \A k: Aside(k) => Aside(k)'
    BY <1>1, <1>2, <1>4, AsideKept
  <1>7. EntriesAreNamed'
    BY <1>4, <1>6 DEF EntriesAreNamed, OwedInv
  <1>8. ASSUME NEW k \in Entry, entry'[k] = "stale" PROVE Owed(k)'
    <2>1. CASE k \in keys
      BY <1>2, <2>1 DEF Owed, Covers
    <2>2. CASE k \notin keys
      <3>1. Owed(k)
        BY <1>4, <1>8, <2>2 DEF OwedInv
      <3>2. \A q \in Proc: w = <<q, "purge">> => ~Covers(q, k)
        BY <1>4 DEF Covers
      <3>. QED BY <1>1, <1>2, <1>4, <1>6, <3>1, <3>2, OwedKept DEF recorded
    <2>. QED BY <2>1, <2>2
  <1>9. \A k \in Entry: entry[k] = "none" => entry'[k] = "none"
    BY <1>4
  <1>. QED BY <1>1, <1>2, <1>4, <1>5, <1>7, <1>8, <1>9, StepOwed DEF recorded

(* A step no worker makes, which changes at most entries that are no staler   *)
LEMMA StillOwed ==
  ASSUME OwedInv, TypeInv', UNCHANGED <<work, recorded, swept, lost>>,
         \A v \in Worker: Drops(v)', EntriesAreNamed',
         \A k \in Entry: entry'[k] = "stale" => entry[k] = "stale"
  PROVE  OwedInv'
  <1>1. \A v \in Worker: Reads(v)' /\ Lists(v)'
    BY DEF OwedInv, Reads, Lists, recorded
  <1>2. \A k \in Entry: Owed(k) => Owed(k)'
    BY DEF Owed, Covers, Waits, Passed, Aside, Held, recorded
  <1>. QED BY <1>1, <1>2 DEF OwedInv

LEMMA FillOwed ==
  ASSUME OwedInv, NEW k \in Entry, Fill(k)
  PROVE  OwedInv'
  <1>1. TypeInv' /\ entry \in [Entry -> {"none", "fresh", "stale"}]
    BY FillTypes DEF OwedInv, TypeInv, TypeOK
  <1>2. /\ UNCHANGED <<swept, lost, recorded, work>> /\ own' = own \cup {k}
        /\ entry' = [entry EXCEPT ![k] = "fresh"]
        /\ \A w \in Worker: work[w].kind = "slices" => k \notin work[w].found
    BY DEF Fill
  <1>3. ASSUME NEW v \in Worker PROVE Drops(v)'
    BY <1>1, <1>2 DEF OwedInv, Drops
  <1>4. EntriesAreNamed'
    BY <1>1, <1>2 DEF OwedInv, EntriesAreNamed, Aside, Held
  <1>5. \A j \in Entry: entry'[j] = "stale" => entry[j] = "stale"
    BY <1>1, <1>2
  <1>. QED BY <1>1, <1>2, <1>3, <1>4, <1>5, StillOwed

LEMMA QuietOwed ==
  ASSUME OwedInv, TypeInv', UNCHANGED <<cache, recorded, work>>
  PROVE  OwedInv'
  <1>1. \A v \in Worker: Drops(v)'
    BY DEF OwedInv, Drops, cache
  <1>2. EntriesAreNamed'
    BY DEF OwedInv, EntriesAreNamed, Aside, Held, cache
  <1>. QED BY <1>1, <1>2, StillOwed DEF cache

LEMMA NothingDropped ==
  ASSUME TypeInv, UNCHANGED cache
  PROVE  DropEntries({}) /\ UNCHANGED <<own, swept>>
  BY DEF DropEntries, cache, TypeInv, TypeOK

LEMMA ChainOwed ==
  ASSUME OwedInv, NEW p \in Proc,
         BeginPass(p) \/ CacheStoreDropsEntries(p) \/ ClearPendingScopedCachePurges(p)
  PROVE  OwedInv'
  <1>. DEFINE w == <<p, "chain">>
  <1>1. /\ w \in Worker /\ w[2] = "chain" /\ \A q \in Proc: w # <<q, "purge">>
        /\ work[w] \in WorkType /\ TypeInv
    BY Workers, StateTypes DEF OwedInv
  <1>2. /\ TypeInv' /\ Only(w) /\ UNCHANGED cache /\ table' \subseteq table
        /\ work'[w].pc \in {"idle", "probe", "start"} /\ Lists(w)'
        /\ \A k \in Entry: \A r \in table \ table': ~Waits(r, k)
    <2>1. CASE BeginPass(p)
      <3>1. /\ TypeInv' /\ Only(w) /\ UNCHANGED <<cache, recorded>>
            /\ work'[w].pc \in {"idle", "probe"} /\ work'[w].rows = {}
            /\ work'[w].todo \in {{}, {Target(r.kind) : r \in table}}
        BY <1>1, <2>1, BeginTypes DEF BeginPass
      <3>2. ASSUME NEW t \in work'[w].todo, NEW r \in table, r.id \in t.rows
            PROVE  r.keys \subseteq t.keys
        <4>1. PICK u \in table: t = Target(u.kind)
          BY <3>1, <3>2
        <4>2. u.kind \in {"slices", "collection"}
          BY <1>1 DEF TypeInv, TypeOK
        <4>. QED BY <1>1, <3>2, <4>1, <4>2, TargetTypes
      <3>. QED BY <3>1, <3>2 DEF Lists, recorded
    <2>2. CASE CacheStoreDropsEntries(p)
      <3>1. /\ TypeInv' /\ Only(w) /\ UNCHANGED <<cache, recorded>>
            /\ \/ work'[w] = Idle
               \/ work[w].kind = "release" /\ work'[w] = [work[w] EXCEPT !.pc = "start"]
               \/ work'[w] \in NextTarget(w)
        BY <1>1, <2>2, ProbeTypes DEF CacheStoreDropsEntries
      <3>2. CASE work'[w] = Idle
        BY <3>1, <3>2, IdleTypes DEF Lists, recorded
      <3>3. CASE work'[w] = [work[w] EXCEPT !.pc = "start"]
        <4>1. /\ work'[w].pc = "start" /\ work'[w].keys = work[w].keys
              /\ work'[w].rows = work[w].rows /\ work'[w].todo = work[w].todo
          BY <1>1, <3>3 DEF WorkType
        <4>. QED BY <1>1, <3>1, <4>1 DEF OwedInv, Lists, recorded
      <3>4. CASE work'[w] \in NextTarget(w)
        BY <1>1, <3>1, <3>4, NextTargetLists DEF Lists, recorded
      <3>. QED BY <3>1, <3>2, <3>3, <3>4
    <2>3. CASE ClearPendingScopedCachePurges(p)
      <3>1. /\ TypeInv' /\ Only(w) /\ UNCHANGED cache /\ work[w].pc = "clear"
            /\ table' = {r \in table : r.id \notin work[w].rows}
            /\ work'[w] \in NextTarget(w)
        BY <1>1, <2>3, ClearTypes DEF ClearPendingScopedCachePurges
      <3>2. Lists(w)'
        BY <1>1, <3>1, NextTargetLists DEF Lists
      <3>3. \A k \in Entry: \A r \in table \ table': ~Waits(r, k)
        BY <1>1, <3>1, PastRows
      <3>. QED BY <1>1, <3>1, <3>2, <3>3, NextTargetLists
    <2>. QED BY <2>1, <2>2, <2>3
  <1>3. \A k \in Entry: ~Passed(w, k)'
    BY <1>2 DEF Passed
  <1>4. DropEntries({}) /\ UNCHANGED <<own, swept>>
    BY <1>1, <1>2, NothingDropped
  <1>. QED BY <1>1, <1>2, <1>3, <1>4, BackOwed

(* What dies with a process is what its purge had still to drop. *)
LEMMA CrashOwed ==
  ASSUME OwedInv, NEW p \in Proc, Crash(p)
  PROVE  OwedInv'
  <1>1. TypeInv' /\ TypeInv
    BY CrashTypes DEF OwedInv
  <1>2. /\ lost' = lost \cup StaleIn(work[<<p, "purge">>].keys)
        /\ work' = [w \in Worker |-> IF w[1] = p THEN Idle ELSE work[w]]
        /\ UNCHANGED <<entry, own, swept, recorded>>
    BY DEF Crash
  <1>3. \A v \in Worker: work'[v] = work[v] \/ work'[v] = Idle
    BY <1>2
  <1>4. \A v \in Worker: Reads(v)' /\ Drops(v)' /\ Lists(v)'
    <2>1. SUFFICES ASSUME NEW v \in Worker PROVE Reads(v)' /\ Drops(v)' /\ Lists(v)'
      OBVIOUS
    <2>2. CASE work'[v] = work[v]
      BY <1>2, <2>2 DEF OwedInv, Reads, Drops, Lists, recorded
    <2>3. CASE work'[v] = Idle
      BY <2>3, IdleTypes DEF Reads, Drops, Lists
    <2>. QED BY <1>3, <2>2, <2>3
  <1>5. \A k: Aside(k) => Aside(k)'
    <2>1. \A i: Held(i) => Held(i)'
      BY <1>3, IdleTypes DEF Held
    <2>. QED BY <1>2, <2>1 DEF Aside
  <1>6. EntriesAreNamed'
    BY <1>2, <1>5 DEF OwedInv, EntriesAreNamed
  <1>7. ASSUME NEW k \in Entry, entry'[k] = "stale" PROVE Owed(k)'
    <2>1. Owed(k) /\ entry[k] = "stale"
      BY <1>2, <1>7 DEF OwedInv
    <2>2. ASSUME NEW q \in Proc, Covers(q, k) PROVE Owed(k)'
      <3>1. CASE q = p
        BY <1>2, <2>1, <2>2, <3>1 DEF Covers, StaleIn, Owed
      <3>2. CASE q # p
        BY <1>2, <2>2, <3>2, Workers DEF Covers, Owed
      <3>. QED BY <3>1, <3>2
    <2>3. ASSUME NEW r \in table, Waits(r, k) PROVE Owed(k)'
      <3>1. Waits(r, k)'
        <4>1. SUFFICES ASSUME NEW q \in Proc, r.id \in work'[<<q, "chain">>].rows
                       PROVE  ~Passed(<<q, "chain">>, k)'
          BY <2>3 DEF Waits
        <4>2. work'[<<q, "chain">>] = work[<<q, "chain">>]
          BY <1>3, <4>1, Workers, IdleTypes
        <4>. QED BY <2>3, <4>1, <4>2 DEF Waits, Passed
      <3>. QED BY <1>2, <3>1 DEF Owed, recorded
    <2>4. k \in lost => Owed(k)'
      BY <1>2 DEF Owed
    <2>. QED BY <1>5, <2>1, <2>2, <2>3, <2>4 DEF Owed
  <1>. QED BY <1>1, <1>4, <1>6, <1>7 DEF OwedInv

-----------------------------------------------------------------------------
LEMMA WorkOwed ==
  ASSUME OwedInv, NEW w \in Worker, WorkNext(w)
  PROVE  OwedInv'
  BY ScanOwed, TakeOwed, MoveOwed, DropOwed, EndOwed, ThrowOwed, RecordOwed DEF WorkNext

LEMMA InitOwed == Init => OwedInv
  <1>. SUFFICES ASSUME Init PROVE OwedInv
    OBVIOUS
  <1>1. TypeInv /\ \A w \in Worker: work[w] = Idle
    BY InitTypes DEF Init
  <1>2. \A w \in Worker: Reads(w) /\ Drops(w) /\ Lists(w)
    BY <1>1, IdleTypes DEF Reads, Drops, Lists
  <1>3. EntriesAreNamed /\ \A k \in Entry: entry[k] # "stale"
    BY DEF Init, EntriesAreNamed
  <1>. QED BY <1>1, <1>2, <1>3 DEF OwedInv

LEMMA NextOwed == OwedInv /\ [Next]_vars => OwedInv'
  <1>. SUFFICES ASSUME OwedInv, [Next]_vars PROVE OwedInv'
    OBVIOUS
  <1>1. TypeInv /\ TypeInv'
    BY NextTypes DEF OwedInv
  <1>2. CASE UNCHANGED vars
    BY <1>1, <1>2, QuietOwed DEF vars
  <1>3. CASE Next
    <2>1. ASSUME NEW p \in Proc, \/ RetryInterval(p) \/ IndexReady(p) \/ StoreReady(p)
                                 \/ LoseIndex(p) \/ LoseStore(p)
          PROVE  OwedInv'
      BY <1>1, <2>1, LinkSteps, QuietOwed
    <2>. QED BY <1>1, <1>3, <2>1, Steps, CommitOwed, FillOwed, WorkOwed, ChainOwed, CrashOwed
  <1>. QED BY <1>2, <1>3

(* No stale entry is forgotten, whatever fails, dies or is refused: while it  *)
(* is stale its mutation's purge is still at it, a recorded row names it and  *)
(* no drain is about to clear that row, or it was moved aside into a set      *)
(* nobody is about to release (scoped-cache/purge.ts,                         *)
(* scoped-cache-pending-purges.ts). The exceptions are the two the code       *)
(* cannot keep: the process of its purge died, or the database refused the    *)
(* row.                                                                       *)
THEOREM StaleEntriesAreOwed == Spec => []StaleEntryIsOwed
  <1>1. OwedInv => StaleEntryIsOwed
    BY DEF OwedInv, Owed, Covers, Waits, Aside, StaleEntryIsOwed
  <1>. QED BY InitOwed, NextOwed, <1>1, PTL DEF Spec
=============================================================================
