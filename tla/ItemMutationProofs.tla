--------------------------- MODULE ItemMutationProofs ---------------------------
(* Proofs about ItemMutation and the rules it is built from,                  *)
(* ScopedCacheFingerprint, for any columns, scope fields, rows, reads and     *)
(* requests: a write that changes what a read answers purges it, the purge    *)
(* finds it where the index filed it, purges that merge reach what each of    *)
(* them does. Then of the mutations: their types, the index sets of the       *)
(* entry, who owes the purge of a stale one (OwedInv), and the abstract cache *)
(* they implement.                                                            *)
EXTENDS ItemMutation, FiniteSetTheorems, WellFoundedInduction, TLAPS

(* A table holds rows of every column, each at its key. *)
IsTable(state, absent) ==
  \A r \in DOMAIN state :
    state[r] # absent => DOMAIN state[r] = Field /\ state[r][PrimaryKey] = r

-----------------------------------------------------------------------------
(* Rows and what they pin *)

LEMMA PinnableFieldsAreColumns == PinnableFields \subseteq Field
  BY FieldAssumption DEF PinnableFields, Scopes

(* A row answers with its one value for each field a read can pin. *)
LEMMA RowAnswersForItsFields ==
  ASSUME NEW row, DOMAIN row = Field
  PROVE  /\ Pinned(RowFingerprint(row)) = PinnableFields
         /\ \A f \in PinnableFields : Pins(RowFingerprint(row), f) = {row[f]}
  BY PinnableFieldsAreColumns DEF RowFingerprint, Pinned, Pins

(* A row of a snapshot matches what the row it was read from does. *)
LEMMA SnapshotMatchesAsItsRows ==
  ASSUME NEW fp, IsRead(fp), NEW state, NEW absent, IsTable(state, absent),
         NEW keys \in SUBSET DOMAIN state, NEW r \in keys, state[r] # absent
  PROVE  /\ r \in DOMAIN Snapshot(state, keys, absent)
         /\ MatchesRow(fp, RowFingerprint(Snapshot(state, keys, absent)[r]))
              <=> MatchesRow(fp, RowFingerprint(state[r]))
  <1>1. CASE ScopeFields # << >>
    BY <1>1 DEF Snapshot
  <1>2. CASE ScopeFields = << >>
    <2>1. PinnableFields = {PrimaryKey}
      BY <1>2 DEF PinnableFields, Scopes
    <2>2. Snapshot(state, keys, absent)[r] = [f \in {PrimaryKey} |-> r]
      BY <1>2 DEF Snapshot
    <2>3. /\ Pins(RowFingerprint([f \in {PrimaryKey} |-> r]), PrimaryKey) = {r}
          /\ Pins(RowFingerprint(state[r]), PrimaryKey) = {r}
      BY <2>1, RowAnswersForItsFields, FieldAssumption DEF IsTable, RowFingerprint, Pins, Pinned
    <2>4. r \in DOMAIN Snapshot(state, keys, absent)
      BY <1>2 DEF Snapshot
    <2> QED
      BY <2>1, <2>2, <2>3, <2>4 DEF MatchesRow, IsRead, Pinned
  <1> QED
    BY <1>1, <1>2

-----------------------------------------------------------------------------
(* What changes an answer *)

InSlice(fp, state, absent, r) ==
  state[r] # absent /\ MatchesRow(fp, RowFingerprint(state[r]))

Viewed(fp) == IF fp.view = {} \/ AnyField \in fp.view THEN Field ELSE fp.view

(* Tables with the same rows in the slice, of the same viewed columns, answer *)
(* alike.                                                                     *)
LEMMA SameSliceSameAnswer ==
  ASSUME NEW fp, NEW old, NEW new, NEW absent, DOMAIN old = DOMAIN new,
         \A r \in DOMAIN old :
           /\ InSlice(fp, old, absent, r) <=> InSlice(fp, new, absent, r)
           /\ InSlice(fp, old, absent, r) =>
                \A f \in {PrimaryKey} \cup Viewed(fp) : old[r][f] = new[r][f]
  PROVE  AnswerOf(fp, old, absent) = AnswerOf(fp, new, absent)
  <1> DEFINE columns(row) == [f \in {PrimaryKey} \cup Viewed(fp) |-> row[f]]
             slice(state) == {r \in DOMAIN state : InSlice(fp, state, absent, r)}
  <1>1. ASSUME NEW state PROVE AnswerOf(fp, state, absent) = {columns(state[r]) : r \in slice(state)}
    BY DEF AnswerOf, InSlice, Viewed
  <1>2. slice(old) = slice(new)
    OBVIOUS
  <1>3. \A r \in slice(old) : columns(old[r]) = columns(new[r])
    OBVIOUS
  <1> HIDE DEF columns, slice
  <1>4. {columns(old[r]) : r \in slice(old)} = {columns(new[r]) : r \in slice(new)}
    BY <1>2, <1>3
  <1> QED
    BY <1>1, <1>4

(* Where the two sides of a write differ in known fields only, they hold the  *)
(* same rows and agree on every other field.                                  *)
LEMMA UnchangedFields ==
  ASSUME NEW before, NEW after, IsFiniteSet(DOMAIN before), IsFiniteSet(DOMAIN after),
         ChangedFields(before, after) # Field
  PROVE  /\ DOMAIN before = DOMAIN after
         /\ \A k \in DOMAIN after, f \in Field \ ChangedFields(before, after) :
              before[k][f] = after[k][f]
         /\ ScopeFields = << >> => DOMAIN after = {}
  <1>1. /\ Cardinality(DOMAIN before) = Cardinality(DOMAIN after)
        /\ DOMAIN after \subseteq DOMAIN before
        /\ ScopeFields = << >> => DOMAIN after = {}
    BY DEF ChangedFields
  <1>2. DOMAIN before = DOMAIN after
    BY <1>1, FS_Subset
  <1>3. ChangedFields(before, after)
          = {f \in Field : \E k \in DOMAIN after : before[k][f] # after[k][f]}
    BY DEF ChangedFields
  <1> QED
    BY <1>1, <1>2, <1>3

(* A write that changes what a read answers purges it: some row it wrote was  *)
(* in the slice the read pinned or is now, and it changed a field the read    *)
(* views or pins (scopedCacheFingerprintPurgedBy of fingerprint.ts, given the *)
(* two snapshots and the changed columns of mutated-rows.ts).                 *)
THEOREM AnswerChangeIsPurged ==
  ASSUME NEW fp, IsRead(fp), NEW old, NEW new, NEW absent, DOMAIN old = DOMAIN new,
         IsTable(old, absent), IsTable(new, absent),
         NEW keys \in SUBSET DOMAIN old, IsFiniteSet(keys),
         \A r \in DOMAIN old \ keys : old[r] = new[r],
         AnswerOf(fp, old, absent) # AnswerOf(fp, new, absent)
  PROVE  LET before == Snapshot(old, keys, absent)
             after == Snapshot(new, keys, absent)
         IN PurgedBy(fp, Fingerprints(before) \cup Fingerprints(after),
                     ChangedFields(before, after))
  <1> DEFINE before == Snapshot(old, keys, absent)
             after == Snapshot(new, keys, absent)
             changed == ChangedFields(before, after)
             written == Fingerprints(before) \cup Fingerprints(after)
  <1>1. /\ DOMAIN before \subseteq keys /\ DOMAIN after \subseteq keys
        /\ IsFiniteSet(DOMAIN before) /\ IsFiniteSet(DOMAIN after)
    BY FS_Subset DEF Snapshot
  <1>2. \E row \in written : MatchesRow(fp, row)
    <2>1. SUFFICES ASSUME \A row \in written : ~MatchesRow(fp, row) PROVE FALSE
      OBVIOUS
    <2>2. ASSUME NEW r \in keys
          PROVE  ~InSlice(fp, old, absent, r) /\ ~InSlice(fp, new, absent, r)
      <3>1. old[r] # absent => RowFingerprint(before[r]) \in written
        BY SnapshotMatchesAsItsRows DEF Fingerprints
      <3>2. new[r] # absent => RowFingerprint(after[r]) \in written
        BY SnapshotMatchesAsItsRows DEF Fingerprints
      <3> QED
        BY <2>1, <3>1, <3>2, SnapshotMatchesAsItsRows DEF InSlice
    <2>3. \A r \in DOMAIN old :
            /\ InSlice(fp, old, absent, r) <=> InSlice(fp, new, absent, r)
            /\ InSlice(fp, old, absent, r) =>
                 \A f \in {PrimaryKey} \cup Viewed(fp) : old[r][f] = new[r][f]
      BY <2>2 DEF InSlice
    <2> QED
      BY <2>3, SameSliceSameAnswer
  <1>3. ViewFieldsAreTouched(ViewedFields(fp), changed)
    <2>1. SUFFICES ASSUME ~ViewFieldsAreTouched(ViewedFields(fp), changed) PROVE FALSE
      OBVIOUS
    <2>2. /\ changed # Field
          /\ fp.view # {} /\ AnyField \notin fp.view
          /\ (fp.view \cup Pinned(fp)) \cap changed = {}
      BY <2>1 DEF ViewFieldsAreTouched, ViewedFields
    <2>3. /\ DOMAIN before = DOMAIN after
          /\ \A k \in DOMAIN after, f \in Field \ changed : before[k][f] = after[k][f]
          /\ ScopeFields = << >> => DOMAIN after = {}
      BY <1>1, <2>2, UnchangedFields
    <2>4. CASE ScopeFields = << >>
      <3>1. keys = {}
        BY <2>3, <2>4 DEF Snapshot
      <3>2. \A r \in DOMAIN old :
              /\ InSlice(fp, old, absent, r) <=> InSlice(fp, new, absent, r)
              /\ InSlice(fp, old, absent, r) =>
                   \A f \in {PrimaryKey} \cup Viewed(fp) : old[r][f] = new[r][f]
        BY <3>1 DEF InSlice
      <3> QED
        BY <3>2, SameSliceSameAnswer
    <2>5. CASE ScopeFields # << >>
      <3>1. ASSUME NEW r \in keys
            PROVE  /\ old[r] = absent <=> new[r] = absent
                   /\ old[r] # absent => \A f \in Field \ changed : old[r][f] = new[r][f]
        BY <2>3, <2>5 DEF Snapshot
      <3>2. ASSUME NEW r \in keys, old[r] # absent
            PROVE  /\ MatchesRow(fp, RowFingerprint(old[r]))
                        <=> MatchesRow(fp, RowFingerprint(new[r]))
                   /\ \A f \in {PrimaryKey} \cup Viewed(fp) : old[r][f] = new[r][f]
        <4>1. /\ DOMAIN old[r] = Field /\ DOMAIN new[r] = Field
              /\ old[r][PrimaryKey] = r /\ new[r][PrimaryKey] = r
          BY <3>1, <3>2 DEF IsTable
        <4>2. \A f \in Pinned(fp) : f \in PinnableFields /\ old[r][f] = new[r][f]
          BY <2>2, <3>1, <3>2, PinnableFieldsAreColumns DEF IsRead
        <4>3. \A f \in Pinned(fp) :
                Pins(RowFingerprint(old[r]), f) = Pins(RowFingerprint(new[r]), f)
          BY <4>1, <4>2, RowAnswersForItsFields
        <4>4. Viewed(fp) \subseteq Field \ changed
          BY <2>2 DEF Viewed, IsRead
        <4> QED
          BY <3>1, <3>2, <4>1, <4>3, <4>4 DEF MatchesRow
      <3>3. \A r \in DOMAIN old :
              /\ InSlice(fp, old, absent, r) <=> InSlice(fp, new, absent, r)
              /\ InSlice(fp, old, absent, r) =>
                   \A f \in {PrimaryKey} \cup Viewed(fp) : old[r][f] = new[r][f]
        BY <3>1, <3>2 DEF InSlice
      <3> QED
        BY <3>3, SameSliceSameAnswer
    <2> QED
      BY <2>4, <2>5
  <1> QED
    BY <1>2, <1>3 DEF PurgedBy

-----------------------------------------------------------------------------
(* Where a read is filed *)

(* Every set of naturals that is not empty has a least element. *)
LEMMA LeastNatural ==
  ASSUME NEW T \in SUBSET Nat, T # {}
  PROVE  \E i \in T : \A j \in T : i <= j
  <1> DEFINE Less == {ss \in Nat \X Nat : ss[1] < ss[2]}
  <1>1. ASSUME NEW ff \in [Nat -> Nat], \A n \in Nat : ff[n + 1] < ff[n]
        PROVE  FALSE
    <2>1. \A n \in Nat : ff[n + 1] \in Nat /\ ff[n] \in Nat
      OBVIOUS
    <2>2. \A n \in Nat : <<ff[n + 1], ff[n]>> \in OpToRel(<, Nat)
      BY <1>1, <2>1, Zenon DEF OpToRel
    <2> QED
      BY <2>2, NatLessThanWellFounded, Zenon DEF IsWellFoundedOn
  <1>2. IsWellFoundedOn(Less, Nat)
    BY <1>1 DEF IsWellFoundedOn
  <1>3. PICK i \in T : \A j \in T : <<j, i>> \notin Less
    BY <1>2, WFMin, Zenon
  <1>4. ASSUME NEW j \in T PROVE i <= j
    <2>1. i \in Nat /\ j \in Nat
      OBVIOUS
    <2>2. ~(j < i)
      BY <1>3, <2>1
    <2> QED
      BY <2>1, <2>2
  <1> QED
    BY <1>4

(* A read pinning a field off the key and the index path has a home pin. *)
LEMMA HomePinIsPinned ==
  ASSUME NEW fp, IsRead(fp), ~IsBare(fp), PrimaryKey \notin Pinned(fp)
  PROVE  HomePin(fp) \in Pinned(fp)
  <1>1. RankedPins(fp) \subseteq Nat /\ RankedPins(fp) # {}
    <2>1. DOMAIN ScopeFields \subseteq Nat
      BY FieldAssumption
    <2>2. PICK f \in Pinned(fp) : f \in Scopes
      BY DEF IsBare, IsRead, PinnableFields
    <2> QED
      BY <2>1, <2>2 DEF RankedPins, Scopes
  <1>2. PICK i \in RankedPins(fp) : \A j \in RankedPins(fp) : i <= j
    BY <1>1, LeastNatural
  <1>3. (CHOOSE k \in RankedPins(fp) : \A j \in RankedPins(fp) : k <= j) \in RankedPins(fp)
    BY <1>2
  <1> QED
    BY <1>1, <1>3 DEF HomePin, RankedPins

(* Every filing of a read but the bare one names a value it pins. *)
LEMMA FiledByAPin ==
  ASSUME NEW fp, IsRead(fp)
  PROVE  \/ IsBare(fp) /\ IndexKeys(fp) = {BareKey}
         \/ \E f \in Pinned(fp) : IndexKeys(fp) = {HomePinKey(f, v) : v \in fp.pinned[f]}
         \/ /\ HasIndexPath /\ IndexPath \in Pinned(fp)
            /\ IndexKeys(fp) = {IndexKey(v) : v \in fp.pinned[IndexPath]}
  <1>1. CASE PrimaryKey \in Pinned(fp)
    BY <1>1 DEF IndexKeys, Pins
  <1>2. CASE PrimaryKey \notin Pinned(fp) /\ IndexValues(fp) # {}
    BY <1>2 DEF IndexKeys, IndexValues, Pins
  <1>3. CASE PrimaryKey \notin Pinned(fp) /\ IndexValues(fp) = {} /\ IsBare(fp)
    BY <1>3 DEF IndexKeys, IsBare
  <1>4. CASE PrimaryKey \notin Pinned(fp) /\ IndexValues(fp) = {} /\ ~IsBare(fp)
    BY <1>4, HomePinIsPinned DEF IndexKeys, Pins
  <1> QED
    BY <1>1, <1>2, <1>3, <1>4

(* A read that a written row matches is in one of the sets the row names,     *)
(* whichever of its pins filed it (scopedCacheFingerprintIndexKeys against    *)
(* scopedCacheRowIndexKeys and scopedCacheRowHomePinKeys of redis-store.ts).  *)
THEOREM MatchedReadIsFound ==
  ASSUME NEW fp, IsRead(fp), NEW written, NEW row \in written, MatchesRow(fp, row),
         NEW sets, IndexKeys(fp) \subseteq sets
  PROVE  FoundByRows(sets, written) # {}
  <1>1. CASE IsBare(fp) /\ IndexKeys(fp) = {BareKey}
    BY <1>1 DEF FoundByRows, RowIndexKeys
  <1>2. ASSUME NEW f \in Pinned(fp), IndexKeys(fp) = {HomePinKey(f, v) : v \in fp.pinned[f]}
        PROVE  FoundByRows(sets, written) # {}
    <2>1. PICK v \in fp.pinned[f] : v \in Pins(row, f)
      BY DEF MatchesRow
    <2>2. f \in Pinned(row) /\ v \in row.pinned[f]
      BY <2>1 DEF Pins
    <2>3. HomePinKey(f, v) \in RowHomePinKeys(written)
      BY <2>2 DEF RowHomePinKeys, HomePinKeysOf
    <2> QED
      BY <1>2, <2>1, <2>3 DEF FoundByRows
  <1>3. ASSUME HasIndexPath, IndexPath \in Pinned(fp),
               IndexKeys(fp) = {IndexKey(v) : v \in fp.pinned[IndexPath]}
        PROVE  FoundByRows(sets, written) # {}
    <2>1. PICK v \in fp.pinned[IndexPath] : v \in Pins(row, IndexPath)
      BY <1>3 DEF MatchesRow
    <2>2. v \in UNION {IndexValues(r) : r \in written}
      BY <1>3, <2>1 DEF IndexValues
    <2> QED
      BY <1>3, <2>1, <2>2 DEF FoundByRows, RowIndexKeys
  <1> QED
    BY <1>1, <1>2, <1>3, FiledByAPin

(* A read a declared pin leaves room for is in one of the sets a sweep of     *)
(* that pin reads, alone or with others: those of the pins' values at the     *)
(* index path, and of every home pin, when each of them pins that path.       *)
THEOREM DeclaredPinFindsItsReads ==
  ASSUME NEW fp, IsRead(fp), NEW declared, NEW d \in declared, ReachedByPin(fp, d),
         NEW sets, sets # {}, IndexKeys(fp) \subseteq sets, IndexKeys(fp) # {}
  PROVE  FoundByPins(sets, declared) # {}
  <1>1. CASE ~(HasIndexPath /\ \A e \in declared : IndexPath \in Pinned(e))
    BY <1>1 DEF FoundByPins
  <1>2. CASE HasIndexPath /\ \A e \in declared : IndexPath \in Pinned(e)
    <2>1. FoundByPins(sets, declared)
            = {k \in sets : k \in RowIndexKeys(declared) \/ k[1] = "pin"}
      BY <1>2 DEF FoundByPins
    <2>2. CASE IsBare(fp) /\ IndexKeys(fp) = {BareKey}
      BY <2>1, <2>2 DEF RowIndexKeys
    <2>3. ASSUME NEW f \in Pinned(fp), IndexKeys(fp) = {HomePinKey(f, v) : v \in fp.pinned[f]}
          PROVE  FoundByPins(sets, declared) # {}
      BY <2>1, <2>3 DEF HomePinKey
    <2>4. ASSUME IndexPath \in Pinned(fp),
                 IndexKeys(fp) = {IndexKey(v) : v \in fp.pinned[IndexPath]}
          PROVE  FoundByPins(sets, declared) # {}
      <3>1. IndexPath \in Pinned(d) /\ ~IsBare(d)
        BY <1>2 DEF IsBare
      <3>2. PICK v \in fp.pinned[IndexPath] : v \in d.pinned[IndexPath]
        BY <2>4, <3>1 DEF ReachedByPin, CouldContainPin
      <3>3. v \in UNION {IndexValues(e) : e \in declared}
        BY <1>2, <3>1, <3>2 DEF IndexValues, Pins
      <3> QED
        BY <2>1, <2>4, <3>2, <3>3 DEF RowIndexKeys
    <2> QED
      BY <2>2, <2>3, <2>4, FiledByAPin
  <1> QED
    BY <1>1, <1>2

(* A prune names every set a read is filed in, as scopedCacheFingerprint-     *)
(* PrunedIndexKeys of redis-store.ts says, where the index is not split by    *)
(* the primary key itself.                                                    *)
THEOREM PruneNamesEveryFiling ==
  ASSUME NEW fp, IsRead(fp), HasIndexPath => IndexPath # PrimaryKey
  PROVE  IndexKeys(fp) \subseteq PrunedIndexKeys(fp)
  <1>1. CASE IndexValues(fp) # {}
    <2>1. HasIndexPath /\ IndexPath \in Pinned(fp) /\ IndexValues(fp) = fp.pinned[IndexPath]
      BY <1>1 DEF IndexValues, Pins
    <2>2. PrunedIndexKeys(fp)
            = {IndexKey(v) : v \in IndexValues(fp)}
                \cup UNION {{HomePinKey(f, v) : v \in fp.pinned[f]} : f \in Pinned(fp) \ {IndexPath}}
      BY <1>1 DEF PrunedIndexKeys
    <2>3. CASE PrimaryKey \in Pinned(fp)
      <3>1. IndexKeys(fp) = {HomePinKey(PrimaryKey, v) : v \in fp.pinned[PrimaryKey]}
        BY <2>3 DEF IndexKeys, Pins, IsBare
      <3>2. PrimaryKey \in Pinned(fp) \ {IndexPath}
        BY <2>1, <2>3
      <3> QED
        BY <2>2, <3>1, <3>2
    <2>4. CASE PrimaryKey \notin Pinned(fp)
      <3>1. IndexKeys(fp) = {IndexKey(v) : v \in IndexValues(fp)}
        BY <1>1, <2>1, <2>4 DEF IndexKeys, IsBare
      <3> QED
        BY <2>2, <3>1
    <2> QED
      BY <2>3, <2>4
  <1>2. CASE IndexValues(fp) = {} /\ ~IsBare(fp)
    <2>1. PrunedIndexKeys(fp) = HomePinKeysOf(fp)
      BY <1>2 DEF PrunedIndexKeys
    <2>2. PICK f \in Pinned(fp) : IndexKeys(fp) = {HomePinKey(f, v) : v \in fp.pinned[f]}
      BY <1>2, FiledByAPin DEF IndexValues, Pins, IsRead
    <2> QED
      BY <2>1, <2>2 DEF HomePinKeysOf
  <1>3. CASE IndexValues(fp) = {} /\ IsBare(fp)
    BY <1>3 DEF IndexKeys, PrunedIndexKeys, IsBare
  <1> QED
    BY <1>1, <1>2, <1>3

-----------------------------------------------------------------------------
(* What a purge reaches *)

LEMMA EveryReadIsFiled ==
  ASSUME NEW fp, IsRead(fp)
  PROVE  IndexKeys(fp) # {}
  BY FiledByAPin DEF IsRead

(* The purge of a mutation drops every read it changed the answer of, whatever *)
(* its hooks declared: purgeScopedCacheFingerprintIndex of purge.ts finds the *)
(* entry in the sets its rows name, and its rows match it.                    *)
THEOREM ChangedAnswerIsDropped ==
  ASSUME NEW fp, IsRead(fp), NEW old, NEW new, NEW absent, DOMAIN old = DOMAIN new,
         IsTable(old, absent), IsTable(new, absent),
         NEW keys \in SUBSET DOMAIN old, IsFiniteSet(keys),
         \A r \in DOMAIN old \ keys : old[r] = new[r],
         AnswerOf(fp, old, absent) # AnswerOf(fp, new, absent),
         NEW declared, NEW sets, IndexKeys(fp) \subseteq sets
  PROVE  LET before == Snapshot(old, keys, absent)
             after == Snapshot(new, keys, absent)
             purge == SlicesPurge(Fingerprints(before) \cup Fingerprints(after),
                                  ChangedFields(before, after), TRUE, declared)
         IN FoundBy(purge, fp, sets) # {}
  <1> DEFINE before == Snapshot(old, keys, absent)
             after == Snapshot(new, keys, absent)
             written == Fingerprints(before) \cup Fingerprints(after)
             changed == ChangedFields(before, after)
             purge == SlicesPurge(written, changed, TRUE, declared)
  <1>1. PurgedBy(fp, written, changed)
    BY AnswerChangeIsPurged
  <1>2. PICK row \in written : MatchesRow(fp, row)
    BY <1>1 DEF PurgedBy
  <1>3. FoundByRows(sets, written) # {}
    BY <1>2, MatchedReadIsFound
  <1> HIDE DEF before, after, written, changed
  <1>4. purge.driven /\ purge.bare /\ purge.own = written /\ purge.changed = changed
    BY <1>2 DEF SlicesPurge
  <1>5. FoundByRows(sets, written) \subseteq FoundBy(purge, fp, sets)
    BY <1>1, <1>4 DEF FoundBy
  <1>6. FoundBy(purge, fp, sets) # {}
    BY <1>3, <1>5
  <1> QED
    BY <1>6 DEF before, after, written, changed

(* A row a read matches is a pin the read leaves room for. *)
LEMMA MatchedRowIsReachedAsAPin ==
  ASSUME NEW fp, NEW row, MatchesRow(fp, row)
  PROVE  ReachedByPin(fp, row)
  BY DEF MatchesRow, ReachedByPin, CouldContainPin, IsBare, Pins

(* A purge, whole or of slices: one taken whole is bound to no row. *)
IsRequest(p) ==
  p.whole \in BOOLEAN /\ p.driven \in BOOLEAN /\ p.bare \in BOOLEAN /\ p.changed \subseteq Field

LEMMA WiderWritePurges ==
  ASSUME NEW fp, NEW written, NEW more, NEW changed \in SUBSET Field, NEW wider \in SUBSET Field,
         PurgedBy(fp, written, changed), written \subseteq more, changed \subseteq wider
  PROVE  PurgedBy(fp, more, wider)
  BY DEF PurgedBy, ViewFieldsAreTouched

(* What one of two purges reaches their merge does, seen from either of them. *)
LEMMA MergeReachesOne ==
  ASSUME NEW fp, IsRead(fp), NEW p, NEW q, IsRequest(p), IsRequest(q),
         NEW merged, IsRequest(merged), merged.bare = p.bare,
         merged.whole = (p.whole \/ q.whole), merged.driven = (p.driven /\ q.driven),
         ~merged.whole => p.own \subseteq merged.own,
         p.changed \subseteq merged.changed, p.declared \subseteq merged.declared,
         NEW sets, IndexKeys(fp) \subseteq sets, FoundBy(p, fp, sets) # {}
  PROVE  FoundBy(merged, fp, sets) # {}
  <1>1. IndexKeys(fp) # {} /\ sets # {}
    BY EveryReadIsFiled
  <1>2. CASE merged.whole
    BY <1>1, <1>2 DEF FoundBy
  <1>3. ASSUME NEW d \in SweptByPin(merged), ReachedByPin(fp, d)
        PROVE  FoundBy(merged, fp, sets) # {}
    <2>1. FoundByPins(sets, SweptByPin(merged)) # {}
      BY <1>1, <1>3, DeclaredPinFindsItsReads
    <2>2. FoundByPins(sets, SweptByPin(merged)) \subseteq FoundBy(merged, fp, sets)
      BY <1>3 DEF FoundBy
    <2> QED
      BY <2>1, <2>2
  <1>4. CASE /\ ~merged.whole /\ p.driven /\ (p.bare \/ ~IsBare(fp))
             /\ PurgedBy(fp, p.own, p.changed)
    <2>1. PICK row \in p.own : MatchesRow(fp, row)
      BY <1>4 DEF PurgedBy
    <2>2. CASE q.driven
      <3>1. merged.driven /\ PurgedBy(fp, merged.own, merged.changed)
        BY <1>4, <2>2, WiderWritePurges DEF IsRequest
      <3>2. FoundByRows(sets, merged.own) # {}
        BY <1>4, <2>1, MatchedReadIsFound
      <3>3. FoundByRows(sets, merged.own) \subseteq FoundBy(merged, fp, sets)
        BY <1>4, <3>1 DEF FoundBy
      <3> QED
        BY <3>2, <3>3
    <2>3. CASE ~q.driven
      <3>1. row \in SweptByPin(merged)
        BY <1>4, <2>1, <2>3 DEF SweptByPin
      <3> QED
        BY <1>3, <2>1, <3>1, MatchedRowIsReachedAsAPin
    <2> QED
      BY <2>2, <2>3
  <1>5. CASE ~merged.whole /\ \E d \in SweptByPin(p) : ReachedByPin(fp, d)
    <2>1. SweptByPin(p) \subseteq SweptByPin(merged)
      BY <1>5 DEF SweptByPin, IsRequest
    <2> QED
      BY <1>3, <1>5, <2>1
  <1>6. \/ merged.whole
        \/ /\ p.driven /\ (p.bare \/ ~IsBare(fp))
           /\ PurgedBy(fp, p.own, p.changed)
        \/ \E d \in SweptByPin(p) : ReachedByPin(fp, d)
    BY DEF FoundBy
  <1> QED
    BY <1>2, <1>4, <1>5, <1>6

(* "One purge reaching every entry either of two purges of a collection       *)
(* reaches" (mergeScopedCachePurgeRequests of item-scoped-cache-service.ts),  *)
(* for purges that both take the bare fingerprint or both leave it.           *)
THEOREM MergedPurgeReachesBoth ==
  ASSUME NEW fp, IsRead(fp), NEW p, NEW q, IsRequest(p), IsRequest(q), p.bare = q.bare,
         NEW sets, IndexKeys(fp) \subseteq sets,
         FoundBy(p, fp, sets) # {} \/ FoundBy(q, fp, sets) # {}
  PROVE  FoundBy(MergeRequests(p, q), fp, sets) # {}
  <1> DEFINE merged == MergeRequests(p, q)
  <1>1. /\ IsRequest(merged) /\ merged.bare = p.bare /\ merged.bare = q.bare
        /\ merged.whole = (p.whole \/ q.whole) /\ merged.whole = (q.whole \/ p.whole)
        /\ merged.driven = (p.driven /\ q.driven) /\ merged.driven = (q.driven /\ p.driven)
        /\ p.changed \cup q.changed \subseteq merged.changed
        /\ p.declared \cup q.declared \subseteq merged.declared
        /\ ~merged.whole => p.own \cup q.own \subseteq merged.own
    BY DEF MergeRequests, IsRequest
  <1> HIDE DEF merged
  <1>2. FoundBy(p, fp, sets) # {} => FoundBy(merged, fp, sets) # {}
    BY <1>1, MergeReachesOne
  <1>3. FoundBy(q, fp, sets) # {} => FoundBy(merged, fp, sets) # {}
    BY <1>1, MergeReachesOne
  <1> QED
    BY <1>2, <1>3 DEF merged

-----------------------------------------------------------------------------
(* What the abstract cache promises *)

(* A fact about the abstraction, for the theorem below: what is cached while  *)
(* no writer is at work is the data, as a writer ends on a right answer only. *)
(* It says nothing of the code (services/items.ts) until the requests are     *)
(* shown to implement the abstraction.                                        *)
LEMMA SettledAnswerIsRight == Promise!Spec => []Promise!SettledIsRight
  <1>1. Promise!Init => Promise!SettledIsRight
    BY DEF Promise!Init, Promise!SettledIsRight, Promise!Right
  <1>2. Promise!SettledIsRight /\ [Promise!Next]_(Promise!vars) => Promise!SettledIsRight'
    <2>. DEFINE data == Answer(rows)
                cached == IF gaps = {} THEN entry ELSE None
    <2>. SUFFICES ASSUME Promise!SettledIsRight, [Promise!Next]_(Promise!vars)
                  PROVE  Promise!SettledIsRight'
      OBVIOUS
    <2>1. Writing = {} => cached \in {None, data}
      BY DEF Promise!SettledIsRight, Promise!Right
    <2>2. Writing' = {} => cached' \in {None, data'}
      <3>1. CASE Promise!Fill
        BY <3>1 DEF Promise!Fill
      <3>2. ASSUME NEW w \in Request, Promise!Start(w) PROVE  Writing' = {} => cached' \in {None, data'}
        BY <3>2 DEF Promise!Start
      <3>3. ASSUME NEW w \in Request, Promise!Work(w) 
            PROVE  Writing' = {} => cached' \in {None, data'}
        BY <3>3 DEF Promise!Work
      <3>4. ASSUME NEW w \in Request, Promise!Finish(w)
            PROVE  Writing' = {} => cached' \in {None, data'}
        BY <3>4 DEF Promise!Finish, Promise!Right
      <3>5. CASE UNCHANGED (Promise!vars)
        BY <2>1, <3>5 DEF Promise!vars
      <3>. QED BY <3>1, <3>2, <3>3, <3>4, <3>5 DEF Promise!Next
    <2>. QED BY <2>2 DEF Promise!SettledIsRight, Promise!Right
  <1>. QED BY <1>1, <1>2, PTL DEF Promise!Spec

(* Requests that implement the abstract cache leave no stale read behind them *)
(* once they have all ended, while no purge is missed (services/items.ts): a  *)
(* stale entry would be an answer the cache keeps with no writer at work.     *)
THEOREM RefinementIsFresh == ImplementsReadThrough => []SettledReadIsFresh
  <1>1. Promise!SettledIsRight => SettledReadIsFresh
    BY DEF Promise!SettledIsRight, Promise!Right, SettledReadIsFresh, Settled, Stale
  <1>. QED BY SettledAnswerIsRight, <1>1, PTL DEF ImplementsReadThrough

-----------------------------------------------------------------------------
(* The types of the state *)

(* What a snapshot keeps of a row where nothing is scoped: its key. *)
KeyOf(r) == [f \in {PrimaryKey} |-> r]

(* What a snapshot can show of a row *)
Shown == Stored \cup {KeyOf(r) : r \in Row}

Shows(r, row) == IF ScopeFields = << >> THEN row = KeyOf(r) ELSE StoredAt(r, row)

Snapshots == {s \in UNION {[keys -> Shown] : keys \in SUBSET Row} :
                \A r \in DOMAIN s : Shows(r, s[r])}

Pin == {DeclaredPin(row) : row \in Stored}

PurgeRequest ==
  [whole : BOOLEAN, own : SUBSET {RowFingerprint(row) : row \in Shown}, driven : BOOLEAN,
   changed : SUBSET Field, bare : BOOLEAN, declared : SUBSET Pin]

Sinks == [declared : SUBSET Pin, keys : SUBSET Row, taken : SUBSET Row]

Overlays ==
  {o \in [Row -> Stored \cup {Absent, None}] :
     \A r \in Row : o[r] \in {Absent, None} \/ StoredAt(r, o[r])}

CallStates ==
  [kind : {"none", "create", "update", "delete"}, row : Row \cup {None}, set : Settings,
   before : Snapshots, direct : SUBSET Row, taken : SUBSET Row, undeclared : BOOLEAN,
   atStart : SUBSET Pin, own : {None, "declared", "taken"},
   outcome : {"none", "answered", "refused", "cancelled", "thrown"}]

Nexts == {"open", "rollback", "over"}

Types ==
  /\ rows \in Tables /\ read \in Read /\ plan \in Plans
  /\ phase \in [Request -> Phases]
  /\ calls \in [Request -> Nat]
  /\ call \in [Request -> CallStates]
  /\ attempt \in [Request -> 1..MaxAttempts]
  /\ overlay \in [Request -> Overlays]
  /\ sink \in [Request -> Sinks]
  /\ held \in [Request -> Seq(PurgeRequest)]
  /\ due \in [Request -> [purges : Seq(PurgeRequest), next : Nexts]]
  /\ landed \in [Request -> SUBSET {"declared", "taken"}]

(* The phases of a call whose hooks have answered *)
Working == {"answered", "written", "failed"}

(* A call at work is one of the request's, and its parts agree. *)
CallIsCoherent(q) ==
  LET c == call[q]
  IN /\ calls[q] \in 1..Len(Calls(q))
     /\ c.kind = Calls(q)[calls[q]].kind /\ c.kind # "none"
     /\ c.row \in Row
     /\ c.kind = "create" => c.set \in [Field \ {PrimaryKey} -> Value]
     /\ Opener(q) # "rows" => c.atStart = {}
     /\ c.direct \cap c.taken = {}
     /\ c.outcome # "answered" => c.direct = {}
     /\ c.undeclared => c.kind = "update" /\ c.taken # {}
     /\ c.kind = "delete" => c.taken = {}
     /\ c.own = "taken" => c.taken # {}

(* A call its hooks have not answered wrote nothing. *)
CallIsFresh(q) ==
  /\ call[q].direct = {} /\ call[q].taken = {} /\ call[q].own = None
  /\ call[q].outcome = "none" /\ ~call[q].undeclared

(* What a request holds at each phase *)
PhaseIsCoherent(q) ==
  /\ calls[q] <= Len(Calls(q))
  /\ phase[q] \in {"called", "committed"} \cup Working => CallIsCoherent(q)
  /\ phase[q] = "called" => CallIsFresh(q)
  /\ phase[q] \in {"committed", "over"} => overlay[q] = NoWrites
  /\ phase[q] = "committed" => ~Shared(q)
  /\ phase[q] = "rollback" => Opener(q) = "rows"
  /\ phase[q] = "over" => held[q] = << >> /\ due[q].purges = << >>
  /\ phase[q] = "open" /\ calls[q] = 0 => overlay[q] = NoWrites
  /\ phase[q] # "purging" => due[q].purges = << >>
  /\ phase[q] = "purging" =>
       /\ due[q].next = "over" => held[q] = << >> /\ overlay[q] = NoWrites
       /\ due[q].next = "open" => Opener(q) = "caller" /\ calls[q] > 0
       /\ due[q].next = "rollback" => Opener(q) = "rows"
  /\ ~Shared(q) =>
       /\ held[q] = << >>
       /\ phase[q] = "open" => calls[q] = 0
       /\ phase[q] \in {"called"} \cup Working => calls[q] = 1
       /\ phase[q] = "open" /\ Calls(q) # << >> /\ Calls(q)[1].kind = "update" =>
            sink[q] = NoDeclarations
       /\ phase[q] = "called" /\ call[q].kind = "update" => sink[q] = NoDeclarations

TypeInv == Types /\ \A q \in Request : PhaseIsCoherent(q)

-----------------------------------------------------------------------------
(* The types of what the requests compute *)

LEMMA NothingIsTyped == << >> \in Settings /\ << >> \in Snapshots /\ NoWrites \in Overlays
  <1>1. << >> \in [{} -> Value] /\ << >> \in [{} -> Shown] /\ DOMAIN << >> = {}
    OBVIOUS
  <1> QED
    BY <1>1 DEF Settings, Snapshots, NoWrites, Overlays

LEMMA NoCallIsTyped == NoCall \in CallStates
  BY NothingIsTyped DEF NoCall, CallStates

LEMMA TablesAreTables ==
  ASSUME NEW state \in Tables
  PROVE  DOMAIN state = Row /\ IsTable(state, Absent)
  BY DEF Tables, IsTable, StoredAt, Stored

LEMMA VisibleIsATable ==
  ASSUME NEW q \in Request, rows \in Tables, overlay[q] \in Overlays
  PROVE  Visible(q) \in Tables
  BY DEF Visible, Tables, Overlays, StoredAt, Stored

LEMMA SnapshotsAreTyped ==
  ASSUME NEW state \in Tables, NEW keys \in SUBSET Row
  PROVE  /\ Snapshot(state, keys, Absent) \in Snapshots
         /\ DOMAIN Snapshot(state, keys, Absent) \subseteq keys
  <1>1. CASE ScopeFields = << >>
    <2>1. Snapshot(state, keys, Absent) = [k \in keys |-> KeyOf(k)]
      BY <1>1 DEF Snapshot, KeyOf
    <2>2. \A k \in keys : KeyOf(k) \in Shown /\ Shows(k, KeyOf(k))
      BY <1>1 DEF Shown, Shows
    <2> QED
      BY <2>1, <2>2 DEF Snapshots
  <1>2. CASE ScopeFields # << >>
    <2>1. Snapshot(state, keys, Absent) = [k \in {x \in keys : state[x] # Absent} |-> state[k]]
      BY <1>2 DEF Snapshot
    <2>2. \A k \in keys : state[k] # Absent => state[k] \in Shown /\ Shows(k, state[k])
      BY <1>2 DEF Shown, Shows, Tables, StoredAt
    <2> QED
      BY <2>1, <2>2 DEF Snapshots
  <1> QED
    BY <1>1, <1>2

LEMMA OverIsASnapshot ==
  ASSUME NEW s \in Snapshots, NEW known \in SUBSET DOMAIN s, NEW t \in Snapshots
  PROVE  Over([k \in known |-> s[k]], t) \in Snapshots
  <1>1. /\ DOMAIN s \subseteq Row /\ DOMAIN t \subseteq Row
        /\ \A k \in DOMAIN s : s[k] \in Shown /\ Shows(k, s[k])
        /\ \A k \in DOMAIN t : t[k] \in Shown /\ Shows(k, t[k])
    BY DEF Snapshots
  <1>2. Over([k \in known |-> s[k]], t)
          = [x \in known \cup DOMAIN t |-> IF x \in known THEN s[x] ELSE t[x]]
    BY DEF Over
  <1> QED
    BY <1>1, <1>2 DEF Snapshots

LEMMA ChangesAreTyped ==
  ASSUME NEW r \in Row, NEW row, row = Absent \/ StoredAt(r, row), NEW set \in Settings
  PROVE  /\ Change(row, set) = Absent <=> row = Absent
         /\ row # Absent => StoredAt(r, Change(row, set))
  <1>1. CASE row # Absent
    <2>1. PICK fields \in SUBSET (Field \ {PrimaryKey}) : set \in [fields -> Value]
      BY DEF Settings
    <2>2. Change(row, set) = [x \in fields \cup Field |-> IF x \in fields THEN set[x] ELSE row[x]]
      BY <1>1, <2>1 DEF Change, Over, StoredAt, Stored
    <2>3. StoredAt(r, Change(row, set))
      BY <1>1, <2>1, <2>2, FieldAssumption DEF StoredAt, Stored
    <2> QED
      BY <1>1, <2>3, NoneAssumption DEF StoredAt
  <1> QED
    BY <1>1 DEF Change

LEMMA CreatedRowsAreTyped ==
  ASSUME NEW r \in Row, NEW set \in [Field \ {PrimaryKey} -> Value]
  PROVE  StoredAt(r, Over(set, [f \in {PrimaryKey} |-> r]))
  BY FieldAssumption, RowAssumption DEF Over, StoredAt, Stored

LEMMA DeclaredPinsAreTyped ==
  ASSUME NEW r, NEW row, StoredAt(r, row)
  PROVE  DeclaredPin(row) \in Pin
  BY DEF Pin, StoredAt

LEMMA FingerprintsAreTyped ==
  ASSUME NEW s \in Snapshots
  PROVE  Fingerprints(s) \in SUBSET {RowFingerprint(row) : row \in Shown}
  <1>1. \A k \in DOMAIN s : s[k] \in Shown
    BY DEF Snapshots
  <1> QED
    BY <1>1 DEF Fingerprints

LEMMA ChangedFieldsAreFields ==
  ASSUME NEW before, NEW after
  PROVE  ChangedFields(before, after) \in SUBSET Field
  BY DEF ChangedFields

(* What a call knows of its rows when its hooks have answered *)
BeforeOf(c, state, direct, taken, outcome) ==
  CASE c.kind = "update" ->
         LET known == DOMAIN c.before \cap (direct \cup taken)
             added == IF outcome = "refused" THEN {} ELSE (direct \cup taken) \ {c.row}
         IN Over([k \in known |-> c.before[k]], Snapshot(state, added, Absent))
    [] c.kind = "delete" /\ outcome = "answered" -> Snapshot(state, {c.row}, Absent)
    [] OTHER -> << >>

LEMMA AnswersAreTyped ==
  ASSUME NEW c \in CallStates, c.row \in Row, NEW state \in Tables, NEW direct \in SUBSET Row,
         NEW taken \in SUBSET Row,
         NEW outcome \in {"answered", "refused", "cancelled", "thrown"}
  PROVE  /\ BeforeOf(c, state, direct, taken, outcome) \in Snapshots
         /\ Answered(c, state, direct, taken, outcome) =
              [kind |-> c.kind, row |-> c.row, set |-> c.set,
               before |-> BeforeOf(c, state, direct, taken, outcome), direct |-> direct,
               taken |-> taken, undeclared |-> c.undeclared, atStart |-> c.atStart,
               own |-> c.own, outcome |-> outcome]
         /\ Answered(c, state, direct, taken, outcome) \in CallStates
  <1> DEFINE before == BeforeOf(c, state, direct, taken, outcome)
             known == DOMAIN c.before \cap (direct \cup taken)
             added == IF outcome = "refused" THEN {} ELSE (direct \cup taken) \ {c.row}
  <1>1. c.before \in Snapshots
    BY DEF CallStates
  <1>2. /\ Snapshot(state, added, Absent) \in Snapshots
        /\ Snapshot(state, {c.row}, Absent) \in Snapshots
    BY SnapshotsAreTyped
  <1>3. Over([k \in known |-> c.before[k]], Snapshot(state, added, Absent)) \in Snapshots
    BY <1>1, <1>2, OverIsASnapshot
  <1>4. before \in Snapshots
    BY <1>2, <1>3, NothingIsTyped DEF BeforeOf
  <1>5. Answered(c, state, direct, taken, outcome) =
          [c EXCEPT !.direct = direct, !.taken = taken, !.outcome = outcome, !.before = before]
    BY DEF Answered, BeforeOf
  <1> HIDE DEF before
  <1>6. Answered(c, state, direct, taken, outcome) =
          [kind |-> c.kind, row |-> c.row, set |-> c.set, before |-> before, direct |-> direct,
           taken |-> taken, undeclared |-> c.undeclared, atStart |-> c.atStart,
           own |-> c.own, outcome |-> outcome]
    BY <1>5 DEF CallStates
  <1>7. Answered(c, state, direct, taken, outcome) \in CallStates
    BY <1>4, <1>6 DEF CallStates
  <1> QED
    BY <1>4, <1>6, <1>7 DEF before

LEMMA StartsAreTyped ==
  ASSUME NEW q \in Request, NEW c \in CallInputs, NEW state \in Tables, sink[q] \in Sinks
  PROVE  /\ Started(q, c, state) \in CallStates
         /\ Started(q, c, state) =
              [kind |-> c.kind, row |-> c.row, set |-> c.set,
               before |-> IF c.kind = "update" THEN Snapshot(state, {c.row}, Absent) ELSE << >>,
               direct |-> {}, taken |-> {}, undeclared |-> FALSE,
               atStart |-> IF Opener(q) = "rows" THEN Declared(q) ELSE {}, own |-> None,
               outcome |-> "none"]
         /\ c.row \in Row /\ c.kind \in {"create", "update", "delete"}
         /\ c.kind = "create" => c.set \in [Field \ {PrimaryKey} -> Value]
  <1> DEFINE before == IF c.kind = "update" THEN Snapshot(state, {c.row}, Absent) ELSE << >>
             atStart == IF Opener(q) = "rows" THEN Declared(q) ELSE {}
  <1>1. /\ c.row \in Row /\ c.kind \in {"create", "update", "delete"}
        /\ c.kind = "create" => c.set \in [Field \ {PrimaryKey} -> Value]
    BY DEF CallInputs
  <1>2. c.set \in Settings
    BY DEF CallInputs, Settings
  <1>3. before \in Snapshots /\ atStart \in SUBSET Pin
    BY <1>1, NothingIsTyped, SnapshotsAreTyped DEF Declared, Sinks
  <1>4. Started(q, c, state) =
          [NoCall EXCEPT !.kind = c.kind, !.row = c.row, !.set = c.set,
             !.atStart = atStart, !.before = before]
    BY DEF Started
  <1> HIDE DEF before, atStart
  <1>5. Started(q, c, state) =
          [kind |-> c.kind, row |-> c.row, set |-> c.set, before |-> before, direct |-> {},
           taken |-> {}, undeclared |-> FALSE, atStart |-> atStart, own |-> None,
           outcome |-> "none"]
    BY <1>4 DEF NoCall
  <1>6. Started(q, c, state) \in CallStates
    BY <1>1, <1>2, <1>3, <1>5 DEF CallStates
  <1> QED
    BY <1>1, <1>5, <1>6 DEF before, atStart

-----------------------------------------------------------------------------
(* The types of purges *)

LEMMA WholePurgesAreTyped ==
  ASSUME NEW bare \in BOOLEAN, NEW declared \in SUBSET Pin
  PROVE  WholePurge(bare, declared) \in PurgeRequest
  BY DEF WholePurge, PurgeRequest

LEMMA SlicesPurgesAreTyped ==
  ASSUME NEW own \in SUBSET {RowFingerprint(row) : row \in Shown}, NEW changed \in SUBSET Field,
         NEW bare \in BOOLEAN, NEW declared \in SUBSET Pin
  PROVE  SlicesPurge(own, changed, bare, declared) \in PurgeRequest
  BY DEF SlicesPurge, PurgeRequest

LEMMA MergesAreTyped ==
  ASSUME NEW p \in PurgeRequest, NEW r \in PurgeRequest
  PROVE  MergeRequests(p, r) \in PurgeRequest
  <1> DEFINE prints == {RowFingerprint(row) : row \in Shown}
  <1> HIDE DEF prints
  <1>1. PurgeRequest = [whole : BOOLEAN, own : SUBSET prints, driven : BOOLEAN,
                        changed : SUBSET Field, bare : BOOLEAN, declared : SUBSET Pin]
    BY DEF PurgeRequest, prints
  <1> QED
    BY <1>1 DEF MergeRequests

LEMMA QueuesAreTyped ==
  ASSUME NEW queue \in Seq(PurgeRequest), NEW p \in PurgeRequest
  PROVE  Enqueue(queue, p) \in Seq(PurgeRequest)
  <1> DEFINE same == {i \in DOMAIN queue : queue[i].bare = p.bare}
             merged == [i \in DOMAIN queue |-> IF i \in same THEN MergeRequests(queue[i], p) ELSE queue[i]]
  <1>1. Enqueue(queue, p) = IF same = {} THEN Append(queue, p) ELSE merged
    BY DEF Enqueue
  <1>2. Append(queue, p) \in Seq(PurgeRequest)
    OBVIOUS
  <1>3. \A i \in DOMAIN queue : queue[i] \in PurgeRequest
    OBVIOUS
  <1>4. \A i \in DOMAIN queue :
          (IF i \in same THEN MergeRequests(queue[i], p) ELSE queue[i]) \in PurgeRequest
    BY <1>3, MergesAreTyped
  <1>5. merged \in [1..Len(queue) -> PurgeRequest]
    BY <1>4
  <1>6. merged \in Seq(PurgeRequest)
    BY <1>5
  <1> QED
    BY <1>1, <1>2, <1>6

(* What a mutation owes is no purge or one. *)
AtMostOne == {<< >>} \cup {<<p>> : p \in PurgeRequest}

LEMMA HeldAreTyped ==
  ASSUME NEW queue \in Seq(PurgeRequest), NEW purges \in AtMostOne
  PROVE  Hold(queue, purges) \in Seq(PurgeRequest)
  BY QueuesAreTyped DEF Hold, AtMostOne

LEMMA AtMostOneIsASequence == AtMostOne \subseteq Seq(PurgeRequest)
  <1>1. << >> \in Seq(PurgeRequest) /\ \A p \in PurgeRequest : <<p>> \in Seq(PurgeRequest)
    OBVIOUS
  <1> QED
    BY <1>1 DEF AtMostOne

LEMMA DeclaredPurgesAreTyped ==
  ASSUME NEW q \in Request, sink[q] \in Sinks
  PROVE  DeclaredPurge(q) \in AtMostOne
  <1>1. SlicesPurge({}, {}, FALSE, Declared(q)) \in PurgeRequest
    BY SlicesPurgesAreTyped DEF Declared, Sinks
  <1> QED
    BY <1>1 DEF DeclaredPurge, AtMostOne

LEMMA UpdatedPurgesAreTyped ==
  ASSUME NEW q \in Request, sink[q] \in Sinks, call[q] \in CallStates, NEW state \in Tables,
         NEW written \in SUBSET Row, NEW readable \in BOOLEAN
  PROVE  UpdatedPurge(q, state, written, readable) \in AtMostOne
  <1> DEFINE before == call[q].before
             after == Snapshot(state, written, Absent)
             own == Fingerprints(before) \cup Fingerprints(after)
             changed == ChangedFields(before, after)
  <1>1. own \in SUBSET {RowFingerprint(row) : row \in Shown}
    BY FingerprintsAreTyped, SnapshotsAreTyped DEF CallStates
  <1>2. changed \in SUBSET Field
    BY ChangedFieldsAreFields
  <1>3. Declared(q) \in SUBSET Pin
    BY DEF Declared, Sinks
  <1>4. UpdatedPurge(q, state, written, readable) =
          IF call[q].undeclared \/ ~readable THEN <<WholePurge(TRUE, Declared(q))>>
          ELSE <<SlicesPurge(own, changed, TRUE, Declared(q))>>
    BY DEF UpdatedPurge
  <1> HIDE DEF own, changed
  <1> QED
    BY <1>1, <1>2, <1>3, <1>4, WholePurgesAreTyped, SlicesPurgesAreTyped DEF AtMostOne

LEMMA CreatedPurgesAreTyped ==
  ASSUME NEW q \in Request, sink[q] \in Sinks, NEW state \in Tables,
         NEW written \in SUBSET Row, NEW taken, NEW atStart, NEW readable \in BOOLEAN
  PROVE  CreatedPurge(q, state, written, taken, atStart, readable) \in AtMostOne
  <1> DEFINE own == Fingerprints(Snapshot(state, written, Absent))
  <1>1. own \in SUBSET {RowFingerprint(row) : row \in Shown}
    BY FingerprintsAreTyped, SnapshotsAreTyped
  <1>2. Declared(q) \in SUBSET Pin /\ DeclaredPurge(q) \in AtMostOne
    BY DeclaredPurgesAreTyped DEF Declared, Sinks
  <1>3. CreatedPurge(q, state, written, taken, atStart, readable) \in
          {<< >>, DeclaredPurge(q), <<SlicesPurge(own, Field, TRUE, Declared(q))>>,
           <<WholePurge(TRUE, Declared(q))>>}
    BY DEF CreatedPurge
  <1> HIDE DEF own
  <1>4. /\ SlicesPurge(own, Field, TRUE, Declared(q)) \in PurgeRequest
        /\ WholePurge(TRUE, Declared(q)) \in PurgeRequest
    BY <1>1, <1>2, WholePurgesAreTyped, SlicesPurgesAreTyped
  <1> QED
    BY <1>2, <1>3, <1>4 DEF AtMostOne

LEMMA HookWrittenPurgesAreTyped ==
  ASSUME NEW q \in Request, sink[q] \in Sinks, NEW taken
  PROVE  HookWrittenPurge(q, taken) \in AtMostOne
  BY WholePurgesAreTyped, DeclaredPurgesAreTyped
     DEF HookWrittenPurge, AtMostOne, Declared, Sinks

LEMMA SuccessPurgesAreTyped ==
  ASSUME NEW q \in Request, sink[q] \in Sinks, call[q] \in CallStates, NEW state \in Tables,
         NEW readable \in BOOLEAN
  PROVE  SuccessPurge(q, state, readable) \in AtMostOne
  <1> DEFINE c == call[q]
             written == c.direct \cup c.taken
             own == Fingerprints(c.before)
  <1>1. written \in SUBSET Row /\ c.before \in Snapshots
    BY DEF CallStates
  <1>2. /\ CreatedPurge(q, state, written, c.taken, c.atStart, readable) \in AtMostOne
        /\ UpdatedPurge(q, state, written, readable) \in AtMostOne
        /\ DeclaredPurge(q) \in AtMostOne
    BY <1>1, CreatedPurgesAreTyped, UpdatedPurgesAreTyped, DeclaredPurgesAreTyped
  <1>3. own \in SUBSET {RowFingerprint(row) : row \in Shown}
    BY <1>1, FingerprintsAreTyped
  <1>4. SlicesPurge(own, Field, TRUE, Declared(q)) \in PurgeRequest
    BY <1>3, SlicesPurgesAreTyped DEF Declared, Sinks
  <1>5. SuccessPurge(q, state, readable) \in
          {CreatedPurge(q, state, written, c.taken, c.atStart, readable), DeclaredPurge(q),
           UpdatedPurge(q, state, written, readable),
           <<SlicesPurge(own, Field, TRUE, Declared(q))>>}
    BY DEF SuccessPurge
  <1> QED
    BY <1>2, <1>4, <1>5 DEF AtMostOne

LEMMA FailurePurgesAreTyped ==
  ASSUME NEW q \in Request, sink[q] \in Sinks, call[q] \in CallStates, NEW state \in Tables,
         NEW readable \in BOOLEAN
  PROVE  FailurePurge(q, state, readable) \in AtMostOne
  <1> DEFINE c == call[q]
             wrote == IF c.outcome = "answered" /\ Shared(q) THEN c.direct \cup c.taken
                      ELSE c.taken
  <1>1. wrote \in SUBSET Row /\ c.taken \in SUBSET Row
    BY DEF CallStates
  <1>2. /\ CreatedPurge(q, state, c.taken, c.taken, c.atStart, readable) \in AtMostOne
        /\ UpdatedPurge(q, state, wrote, readable) \in AtMostOne
        /\ DeclaredPurge(q) \in AtMostOne
    BY <1>1, CreatedPurgesAreTyped, UpdatedPurgesAreTyped, DeclaredPurgesAreTyped
  <1>3. WholePurge(TRUE, Declared(q)) \in PurgeRequest
    BY WholePurgesAreTyped DEF Declared, Sinks
  <1>4. FailurePurge(q, state, readable) \in
          {CreatedPurge(q, state, c.taken, c.taken, c.atStart, readable), DeclaredPurge(q),
           UpdatedPurge(q, state, wrote, readable), <<WholePurge(TRUE, Declared(q))>>}
    BY DEF FailurePurge
  <1> QED
    BY <1>2, <1>3, <1>4 DEF AtMostOne

-----------------------------------------------------------------------------
(* Type correctness *)

LEMMA PlansAreTyped ==
  ASSUME Types, NEW q \in Request
  PROVE  /\ Opener(q) \in {"service", "caller", "rows"}
         /\ Calls(q) \in Seq(CallInputs) /\ Len(Calls(q)) \in Nat
         /\ Shared(q) <=> Opener(q) # "service"
  BY PlanAssumption DEF Types, Opener, Calls, Shared

LEMMA InitTypes == Init => TypeInv
  <1> SUFFICES ASSUME Init PROVE TypeInv
    OBVIOUS
  <1>1. Types
    <2>1. NoDeclarations \in Sinks
      BY DEF NoDeclarations, Sinks
    <2>2. [purges |-> << >>, next |-> "over"] \in [purges : Seq(PurgeRequest), next : Nexts]
      BY DEF Nexts
    <2>3. 1 \in 1..MaxAttempts
      BY AttemptAssumption
    <2>4. rows \in Tables
      BY StateAssumption DEF Init
    <2> QED
      BY <2>1, <2>2, <2>3, <2>4, NothingIsTyped, NoCallIsTyped DEF Init, Types, Phases
  <1>2. ASSUME NEW q \in Request PROVE PhaseIsCoherent(q)
    <2>1. /\ phase[q] = "open" /\ calls[q] = 0 /\ overlay[q] = NoWrites
          /\ held[q] = << >> /\ due[q].purges = << >> /\ sink[q] = NoDeclarations
      BY DEF Init
    <2> QED
      BY <1>1, <2>1, PlansAreTyped DEF PhaseIsCoherent, Working
  <1> QED
    BY <1>1, <1>2 DEF TypeInv

(* A step of one request leaves what the others hold. *)
LEMMA OthersStayCoherent ==
  ASSUME NEW p \in Request, PhaseIsCoherent(p), plan' = plan, phase'[p] = phase[p],
         calls'[p] = calls[p], call'[p] = call[p], overlay'[p] = overlay[p],
         sink'[p] = sink[p], held'[p] = held[p], due'[p] = due[p]
  PROVE  PhaseIsCoherent(p)'
  <1>1. CallIsCoherent(p) => CallIsCoherent(p)'
    BY DEF CallIsCoherent, Calls, Opener
  <1>2. CallIsFresh(p) => CallIsFresh(p)'
    BY DEF CallIsFresh
  <1> QED
    BY <1>1, <1>2 DEF PhaseIsCoherent, Opener, Calls, Shared, NoWrites

LEMMA FillKeepsTypes ==
  ASSUME TypeInv, Fill
  PROVE  TypeInv'
  <1>1. Types'
    BY DEF TypeInv, Types, Fill
  <1>2. \A p \in Request : PhaseIsCoherent(p)'
    BY OthersStayCoherent DEF TypeInv, Fill
  <1> QED
    BY <1>1, <1>2 DEF TypeInv

LEMMA BeginKeepsTypes ==
  ASSUME TypeInv, NEW q \in Request, Begin(q)
  PROVE  TypeInv'
  <1>1. Types /\ PhaseIsCoherent(q)
    BY DEF TypeInv
  <1>2. PICK c \in CallInputs : c = Calls(q)[calls[q] + 1]
    BY <1>1, PlansAreTyped DEF Begin, Types
  <1>8. calls[q] \in Nat /\ calls[q] + 1 \in 1..Len(Calls(q))
    BY <1>1, PlansAreTyped DEF Begin, Types
  <1>3. Visible(q) \in Tables /\ sink[q] \in Sinks
    BY <1>1, VisibleIsATable DEF Types
  <1> DEFINE started == Started(q, c, Visible(q))
  <1>4. /\ started \in CallStates
        /\ started.kind = c.kind /\ started.row = c.row /\ started.set = c.set
        /\ started.direct = {} /\ started.taken = {} /\ ~started.undeclared
        /\ started.atStart = (IF Opener(q) = "rows" THEN Declared(q) ELSE {})
        /\ started.own = None /\ started.outcome = "none"
        /\ c.row \in Row /\ c.kind \in {"create", "update", "delete"}
        /\ c.kind = "create" => c.set \in [Field \ {PrimaryKey} -> Value]
    <2>1. /\ started \in CallStates
          /\ c.row \in Row /\ c.kind \in {"create", "update", "delete"}
          /\ c.kind = "create" => c.set \in [Field \ {PrimaryKey} -> Value]
      BY <1>2, <1>3, StartsAreTyped
    <2>2. started =
            [kind |-> c.kind, row |-> c.row, set |-> c.set,
             before |-> IF c.kind = "update" THEN Snapshot(Visible(q), {c.row}, Absent) ELSE << >>,
             direct |-> {}, taken |-> {}, undeclared |-> FALSE,
             atStart |-> IF Opener(q) = "rows" THEN Declared(q) ELSE {}, own |-> None,
             outcome |-> "none"]
      BY <1>2, <1>3, StartsAreTyped
    <2> QED
      BY <2>1, <2>2
  <1> HIDE DEF started
  <1>5. Types'
    <2>1. call' \in [Request -> CallStates]
      BY <1>1, <1>2, <1>4 DEF Begin, Types, started
    <2>2. sink' \in [Request -> Sinks]
      BY <1>1 DEF Begin, Types, NoDeclarations, Sinks
    <2> QED
      BY <1>1, <1>8, <2>1, <2>2 DEF Begin, Types, Phases, store
  <1>6. PhaseIsCoherent(q)'
    <2>1. /\ call'[q] = started /\ calls'[q] = calls[q] + 1
          /\ phase'[q] = "called" /\ plan' = plan /\ overlay' = overlay /\ held' = held
          /\ due' = due /\ (Opener(q) # "caller" => sink' = sink)
      BY <1>1, <1>2 DEF Begin, Types, store, started
    <2>2. CallIsCoherent(q)'
      <3>1. Calls(q)' = Calls(q) /\ Opener(q)' = Opener(q)
        BY <2>1 DEF Calls, Opener
      <3>2. None \notin {"declared", "taken"}
        BY NoneAssumption
      <3> QED
        BY <1>2, <1>8, <1>4, <2>1, <3>1, <3>2 DEF CallIsCoherent
    <2>3. CallIsFresh(q)' /\ call'[q].kind = c.kind
      BY <1>4, <2>1 DEF CallIsFresh
    <2>4. ~Shared(q) => calls[q] = 0 /\ Opener(q) # "caller"
      BY <1>1 DEF PhaseIsCoherent, Begin, Shared
    <2>5. ~Shared(q) /\ c.kind = "update" => sink[q] = NoDeclarations
      BY <1>1, <1>2, <2>4, PlansAreTyped DEF PhaseIsCoherent, Begin
    <2>6. calls[q] + 1 <= Len(Calls(q)) /\ calls[q] + 1 # 0
      BY <1>8
    <2> QED
      BY <1>1, <2>1, <2>2, <2>3, <2>4, <2>5, <2>6
         DEF PhaseIsCoherent, Begin, Shared, Opener, Calls, Working, NoDeclarations
  <1>7. \A p \in Request \ {q} : PhaseIsCoherent(p)'
    BY <1>1, OthersStayCoherent DEF TypeInv, Types, Begin, store
  <1> QED
    BY <1>5, <1>6, <1>7 DEF TypeInv

LEMMA QuietHookKeepsTypes ==
  ASSUME TypeInv, NEW q \in Request, QuietHook(q)
  PROVE  TypeInv'
  <1>1. Types /\ PhaseIsCoherent(q) /\ phase[q] = "called"
    BY DEF TypeInv, QuietHook
  <1>2. PICK outcome \in {"answered", "cancelled", "thrown"}, added \in SUBSET Row :
          /\ call' = [call EXCEPT ![q] =
               Answered(call[q], Visible(q),
                        IF outcome = "answered" THEN {call[q].row} \cup added ELSE {}, {},
                        outcome)]
          /\ phase' = [phase EXCEPT ![q] = PhaseAfter(outcome)]
    BY DEF QuietHook
  <1> DEFINE direct == IF outcome = "answered" THEN {call[q].row} \cup added ELSE {}
             answer == Answered(call[q], Visible(q), direct, {}, outcome)
  <1>3. CallIsCoherent(q) /\ CallIsFresh(q) /\ direct \in SUBSET Row
    BY <1>1 DEF PhaseIsCoherent, CallIsCoherent
  <1>4. Visible(q) \in Tables /\ call[q] \in CallStates
    BY <1>1, VisibleIsATable DEF Types
  <1>5. /\ answer \in CallStates /\ answer.kind = call[q].kind /\ answer.row = call[q].row
        /\ answer.set = call[q].set /\ answer.direct = direct /\ answer.taken = {}
        /\ answer.undeclared = call[q].undeclared /\ answer.atStart = call[q].atStart
        /\ answer.own = call[q].own /\ answer.outcome = outcome
    BY <1>3, <1>4, AnswersAreTyped DEF CallIsCoherent
  <1>6. PhaseAfter(outcome) \in Working
    BY DEF PhaseAfter, Working
  <1> HIDE DEF answer
  <1>7. /\ call' = [call EXCEPT ![q] = answer]
        /\ phase' = [phase EXCEPT ![q] = PhaseAfter(outcome)]
        /\ UNCHANGED <<rows, read, plan, calls, attempt, overlay, sink, held, due, landed>>
    BY <1>2 DEF QuietHook, store, answer
  <1>8. Types'
    BY <1>1, <1>5, <1>6, <1>7 DEF Types, Phases, Working
  <1>9. PhaseIsCoherent(q)'
    <2>1. call'[q] = answer /\ phase'[q] \in Working
      BY <1>1, <1>6, <1>7 DEF Types
    <2>2. CallIsCoherent(q)'
      BY <1>3, <1>5, <1>7, <2>1 DEF CallIsCoherent, CallIsFresh, Calls, Opener
    <2> QED
      BY <1>1, <1>7, <2>1, <2>2 DEF PhaseIsCoherent, Working, Calls, Opener, Shared
  <1>10. \A p \in Request \ {q} : PhaseIsCoherent(p)'
    BY <1>1, <1>7, OthersStayCoherent DEF TypeInv, Types
  <1> QED
    BY <1>8, <1>9, <1>10 DEF TypeInv

(* What one writing hook does: the row it writes, by which connection, whether *)
(* it takes the row over and declares it, and how it ends the call.           *)
HookOld(q, w, own) == IF own THEN rows[w.row] ELSE Visible(q)[w.row]

HookNew(q, w, own) == Change(HookOld(q, w, own), w.set)

HookTakes(w, takes) == IF takes THEN {w.row} ELSE {}

HookLeaves(q, w, takes, outcome) ==
  IF outcome # "answered" \/ (call[q].kind = "create" /\ takes) THEN {}
  ELSE {call[q].row} \ HookTakes(w, takes)

HookSink(q, w, own, takes, declares, outcome) ==
  [declared |-> IF declares
                THEN sink[q].declared
                       \cup {DeclaredPin(HookOld(q, w, own)), DeclaredPin(HookNew(q, w, own))}
                ELSE sink[q].declared,
   keys |-> IF declares THEN sink[q].keys \cup {w.row} ELSE sink[q].keys,
   taken |-> IF outcome = "answered" THEN sink[q].taken \cup HookTakes(w, takes)
             ELSE sink[q].taken]

HookAnswer(q, w, own, takes, outcome) ==
  Answered(call[q], [Visible(q) EXCEPT ![w.row] = HookNew(q, w, own)],
           HookLeaves(q, w, takes, outcome), HookTakes(w, takes), outcome)

HookUndeclared(q, w, own, takes, declares, outcome) ==
  /\ call[q].kind = "update" /\ takes /\ w.row # call[q].row
  /\ w.row \notin HookSink(q, w, own, takes, declares, outcome).keys

HookOwn(own, declares) == IF ~own THEN None ELSE IF declares THEN "declared" ELSE "taken"

HookCall(q, w, own, takes, declares, outcome) ==
  [HookAnswer(q, w, own, takes, outcome) EXCEPT
     !.own = HookOwn(own, declares),
     !.undeclared = HookUndeclared(q, w, own, takes, declares, outcome)]

HookGaps(q, w, own, takes, declares) ==
  (IF /\ call[q].kind = "update" /\ w.row = call[q].row /\ ~declares
      /\ SnapshotIsOld(q, call[q].row)
   THEN {"raced"} ELSE {}) \cup
  (IF w.row \in sink[q].taken \ sink[q].keys /\ declares THEN {"redeclared"} ELSE {}) \cup
  (IF /\ takes /\ ~declares /\ w.row \in sink[q].keys
      /\ HookNew(q, w, own) # HookOld(q, w, own)
      /\ \/ call[q].kind = "update" /\ w.row # call[q].row
         \/ DeclaredPin(HookOld(q, w, own)) \notin Declared(q)
   THEN {"overtaken"} ELSE {})

HookAllowed(q, w, own, takes, declares, outcome) ==
  /\ HookOld(q, w, own) # Absent /\ Unlocked(q, w.row) /\ (own => overlay[q][w.row] = None)
  /\ takes \/ declares
  /\ takes => call[q].kind # "delete" /\ outcome \in {"answered", "refused"}
  /\ outcome = "refused" => call[q].kind = "update" /\ takes

HookWrites(q, w, own, takes, declares, outcome) ==
  /\ HookAllowed(q, w, own, takes, declares, outcome)
  /\ rows' = IF own THEN [rows EXCEPT ![w.row] = HookNew(q, w, own)] ELSE rows
  /\ overlay' = IF own THEN overlay ELSE [overlay EXCEPT ![q][w.row] = HookNew(q, w, own)]
  /\ sink' = [sink EXCEPT ![q] = HookSink(q, w, own, takes, declares, outcome)]
  /\ call' = [call EXCEPT ![q] = HookCall(q, w, own, takes, declares, outcome)]
  /\ gaps' = gaps \cup HookGaps(q, w, own, takes, declares)
  /\ phase' = [phase EXCEPT ![q] = PhaseAfter(outcome)]
  /\ UNCHANGED <<read, entry, filed, plan, calls, attempt, held, due, landed>>

LEMMA WritingHooksWrite ==
  ASSUME Types, NEW q \in Request, WritingHook(q)
  PROVE  /\ phase[q] = "called"
         /\ \E w \in HookWrite, own \in BOOLEAN, takes \in BOOLEAN, declares \in BOOLEAN,
               outcome \in {"answered", "refused", "cancelled", "thrown"} :
              HookWrites(q, w, own, takes, declares, outcome)
  <1>1. PICK w \in HookWrite, own \in BOOLEAN, takes \in BOOLEAN, declares \in BOOLEAN,
               outcome \in {"answered", "refused", "cancelled", "thrown"} :
          LET c == call[q]
              old == IF own THEN rows[w.row] ELSE Visible(q)[w.row]
              new == Change(old, w.set)
              taken == IF takes THEN {w.row} ELSE {}
              direct == IF outcome # "answered" \/ (c.kind = "create" /\ takes) THEN {}
                        ELSE {c.row} \ taken
          IN /\ old # Absent /\ Unlocked(q, w.row) /\ (own => overlay[q][w.row] = None)
             /\ takes \/ declares
             /\ takes => c.kind # "delete" /\ outcome \in {"answered", "refused"}
             /\ outcome = "refused" => c.kind = "update" /\ takes
             /\ IF own
                THEN /\ rows' = [rows EXCEPT ![w.row] = new]
                     /\ dirty' = LostBy({w.row}) /\ UNCHANGED overlay
                ELSE /\ overlay' = [overlay EXCEPT ![q][w.row] = new]
                     /\ UNCHANGED <<rows, dirty>>
             /\ sink' = [sink EXCEPT
                  ![q] = [declared |-> IF declares THEN @.declared \cup {DeclaredPin(old), DeclaredPin(new)}
                                       ELSE @.declared,
                          keys |-> IF declares THEN @.keys \cup {w.row} ELSE @.keys,
                          taken |-> IF outcome = "answered" THEN @.taken \cup taken ELSE @.taken]]
             /\ call' = [call EXCEPT ![q] =
                  [Answered(c, [Visible(q) EXCEPT ![w.row] = new], direct, taken, outcome) EXCEPT
                     !.own = IF ~own THEN None ELSE IF declares THEN "declared" ELSE "taken",
                     !.undeclared = /\ c.kind = "update" /\ takes /\ w.row # c.row
                                    /\ w.row \notin sink'[q].keys]]
             /\ gaps' = gaps \cup
                  (IF c.kind = "update" /\ w.row = c.row /\ ~declares /\ SnapshotIsOld(q, c.row)
                   THEN {"raced"} ELSE {}) \cup
                  (IF w.row \in sink[q].taken \ sink[q].keys /\ declares
                   THEN {"redeclared"} ELSE {}) \cup
                  (IF /\ takes /\ ~declares /\ w.row \in sink[q].keys /\ new # old
                      /\ \/ c.kind = "update" /\ w.row # c.row
                         \/ DeclaredPin(old) \notin Declared(q)
                   THEN {"overtaken"} ELSE {})
             /\ phase' = [phase EXCEPT ![q] = PhaseAfter(outcome)]
    BY DEF WritingHook
  <1>2. sink' = [sink EXCEPT ![q] = HookSink(q, w, own, takes, declares, outcome)]
    BY <1>1 DEF HookSink, HookOld, HookNew, HookTakes
  <1>3. sink'[q] = HookSink(q, w, own, takes, declares, outcome)
    BY <1>2 DEF Types
  <1>4. call' = [call EXCEPT ![q] = HookCall(q, w, own, takes, declares, outcome)]
    BY <1>1, <1>3 DEF HookCall, HookAnswer, HookOld, HookNew, HookTakes, HookLeaves, HookOwn,
                      HookUndeclared
  <1>5. HookAllowed(q, w, own, takes, declares, outcome)
    BY <1>1 DEF HookAllowed, HookOld
  <1>6. /\ rows' = IF own THEN [rows EXCEPT ![w.row] = HookNew(q, w, own)] ELSE rows
        /\ overlay' = IF own THEN overlay ELSE [overlay EXCEPT ![q][w.row] = HookNew(q, w, own)]
    BY <1>1 DEF HookOld, HookNew
  <1>7. gaps' = gaps \cup HookGaps(q, w, own, takes, declares)
    BY <1>1 DEF HookGaps, HookOld, HookNew
  <1>8. /\ phase' = [phase EXCEPT ![q] = PhaseAfter(outcome)] /\ phase[q] = "called"
        /\ UNCHANGED <<read, entry, filed, plan, calls, attempt, held, due, landed>>
    BY <1>1 DEF WritingHook
  <1>9. HookWrites(q, w, own, takes, declares, outcome)
    BY <1>2, <1>4, <1>5, <1>6, <1>7, <1>8 DEF HookWrites
  <1> QED
    BY <1>8, <1>9

(* What the parts of a writing hook are, for the hooks there are *)
LEMMA HooksAreTyped ==
  ASSUME Types, NEW q \in Request, PhaseIsCoherent(q), phase[q] = "called",
         NEW w \in HookWrite, NEW own \in BOOLEAN, NEW takes \in BOOLEAN,
         NEW declares \in BOOLEAN,
         NEW outcome \in {"answered", "refused", "cancelled", "thrown"},
         HookAllowed(q, w, own, takes, declares, outcome)
  PROVE  /\ w.row \in Row /\ w.set \in Settings
         /\ StoredAt(w.row, HookOld(q, w, own)) /\ StoredAt(w.row, HookNew(q, w, own))
         /\ [Visible(q) EXCEPT ![w.row] = HookNew(q, w, own)] \in Tables
         /\ HookSink(q, w, own, takes, declares, outcome) \in Sinks
         /\ HookLeaves(q, w, takes, outcome) \in SUBSET Row
         /\ HookTakes(w, takes) \in SUBSET Row
         /\ HookOwn(own, declares) \in {None, "declared", "taken"}
         /\ HookUndeclared(q, w, own, takes, declares, outcome) \in BOOLEAN
  <1>1. w.row \in Row /\ w.set \in Settings
    BY HookAssumption
  <1>2. Visible(q) \in Tables /\ rows \in Tables /\ call[q] \in CallStates /\ sink[q] \in Sinks
    BY VisibleIsATable DEF Types
  <1>3. StoredAt(w.row, HookOld(q, w, own))
    BY <1>1, <1>2 DEF HookOld, HookAllowed, Tables
  <1>4. StoredAt(w.row, HookNew(q, w, own))
    BY <1>1, <1>3, ChangesAreTyped DEF HookNew, HookAllowed
  <1>5. [Visible(q) EXCEPT ![w.row] = HookNew(q, w, own)] \in Tables
    BY <1>1, <1>2, <1>4 DEF Tables, StoredAt
  <1>6. HookSink(q, w, own, takes, declares, outcome) \in Sinks
    BY <1>1, <1>2, <1>3, <1>4, DeclaredPinsAreTyped DEF HookSink, Sinks, HookTakes
  <1>7. call[q].row \in Row
    BY DEF PhaseIsCoherent, CallIsCoherent
  <1>8. HookLeaves(q, w, takes, outcome) \in SUBSET Row /\ HookTakes(w, takes) \in SUBSET Row
    BY <1>1, <1>7 DEF HookLeaves, HookTakes
  <1>9. /\ HookOwn(own, declares) \in {None, "declared", "taken"}
        /\ HookUndeclared(q, w, own, takes, declares, outcome) \in BOOLEAN
    BY DEF HookOwn, HookUndeclared
  <1> QED
    BY <1>1, <1>3, <1>4, <1>5, <1>6, <1>8, <1>9

(* The call a writing hook answers *)
LEMMA HookCallsAreTyped ==
  ASSUME Types, NEW q \in Request, PhaseIsCoherent(q), phase[q] = "called",
         NEW w \in HookWrite, NEW own \in BOOLEAN, NEW takes \in BOOLEAN,
         NEW declares \in BOOLEAN,
         NEW outcome \in {"answered", "refused", "cancelled", "thrown"},
         HookAllowed(q, w, own, takes, declares, outcome)
  PROVE  /\ HookCall(q, w, own, takes, declares, outcome) =
              [kind |-> call[q].kind, row |-> call[q].row, set |-> call[q].set,
               before |-> BeforeOf(call[q], [Visible(q) EXCEPT ![w.row] = HookNew(q, w, own)],
                                   HookLeaves(q, w, takes, outcome), HookTakes(w, takes),
                                   outcome),
               direct |-> HookLeaves(q, w, takes, outcome), taken |-> HookTakes(w, takes),
               undeclared |-> HookUndeclared(q, w, own, takes, declares, outcome),
               atStart |-> call[q].atStart, own |-> HookOwn(own, declares),
               outcome |-> outcome]
         /\ HookCall(q, w, own, takes, declares, outcome) \in CallStates
  <1> DEFINE state == [Visible(q) EXCEPT ![w.row] = HookNew(q, w, own)]
             leaves == HookLeaves(q, w, takes, outcome)
             took == HookTakes(w, takes)
             before == BeforeOf(call[q], state, leaves, took, outcome)
             undeclared == HookUndeclared(q, w, own, takes, declares, outcome)
             kept == HookOwn(own, declares)
             answer == HookAnswer(q, w, own, takes, outcome)
  <1>2. call[q] \in CallStates /\ call[q].row \in Row
    BY DEF Types, PhaseIsCoherent, CallIsCoherent
  <1>1. /\ w.row \in Row /\ w.set \in Settings
        /\ StoredAt(w.row, HookOld(q, w, own)) /\ StoredAt(w.row, HookNew(q, w, own))
        /\ [Visible(q) EXCEPT ![w.row] = HookNew(q, w, own)] \in Tables
        /\ HookSink(q, w, own, takes, declares, outcome) \in Sinks
        /\ HookLeaves(q, w, takes, outcome) \in SUBSET Row
        /\ HookTakes(w, takes) \in SUBSET Row
        /\ HookOwn(own, declares) \in {None, "declared", "taken"}
        /\ HookUndeclared(q, w, own, takes, declares, outcome) \in BOOLEAN
    BY HooksAreTyped
  <1>5. state \in Tables
    BY <1>1
  <1>8. leaves \in SUBSET Row /\ took \in SUBSET Row
    BY <1>1
  <1>9. kept \in {None, "declared", "taken"} /\ undeclared \in BOOLEAN
    BY <1>1
  <1> HIDE DEF state, leaves, took, undeclared, kept
  <1>10. /\ before \in Snapshots
         /\ Answered(call[q], state, leaves, took, outcome) =
              [kind |-> call[q].kind, row |-> call[q].row, set |-> call[q].set,
               before |-> before, direct |-> leaves,
               taken |-> took, undeclared |-> call[q].undeclared, atStart |-> call[q].atStart,
               own |-> call[q].own, outcome |-> outcome]
         /\ Answered(call[q], state, leaves, took, outcome) \in CallStates
    BY <1>2, <1>5, <1>8, AnswersAreTyped
  <1>11. answer = Answered(call[q], state, leaves, took, outcome)
    BY DEF HookAnswer, state, leaves, took
  <1>12. HookCall(q, w, own, takes, declares, outcome)
           = [answer EXCEPT !.own = kept, !.undeclared = undeclared]
    BY DEF HookCall, kept, undeclared
  <1> HIDE DEF before, answer
  <1>15. answer =
           [kind |-> call[q].kind, row |-> call[q].row, set |-> call[q].set,
            before |-> before, direct |-> leaves,
            taken |-> took, undeclared |-> call[q].undeclared, atStart |-> call[q].atStart,
            own |-> call[q].own, outcome |-> outcome]
    BY <1>10, <1>11
  <1>13. HookCall(q, w, own, takes, declares, outcome) =
           [kind |-> call[q].kind, row |-> call[q].row, set |-> call[q].set,
            before |-> before, direct |-> leaves, taken |-> took, undeclared |-> undeclared,
            atStart |-> call[q].atStart, own |-> kept, outcome |-> outcome]
    BY <1>12, <1>15
  <1>14. HookCall(q, w, own, takes, declares, outcome) \in CallStates
    BY <1>2, <1>8, <1>9, <1>10, <1>13 DEF CallStates
  <1> QED
    BY <1>13, <1>14 DEF state, leaves, took, undeclared, kept, before

LEMMA WritingHookKeepsTypes ==
  ASSUME TypeInv, NEW q \in Request, WritingHook(q)
  PROVE  TypeInv'
  <1>1. Types /\ PhaseIsCoherent(q)
    BY DEF TypeInv
  <1>2. phase[q] = "called"
    BY <1>1, WritingHooksWrite
  <1>3. PICK w \in HookWrite, own \in BOOLEAN, takes \in BOOLEAN, declares \in BOOLEAN,
             outcome \in {"answered", "refused", "cancelled", "thrown"} :
          HookWrites(q, w, own, takes, declares, outcome)
    BY <1>1, WritingHooksWrite
  <1>4. HookAllowed(q, w, own, takes, declares, outcome)
    BY <1>3 DEF HookWrites
  <1>12. /\ w.row \in Row /\ w.set \in Settings
        /\ StoredAt(w.row, HookOld(q, w, own)) /\ StoredAt(w.row, HookNew(q, w, own))
        /\ [Visible(q) EXCEPT ![w.row] = HookNew(q, w, own)] \in Tables
        /\ HookSink(q, w, own, takes, declares, outcome) \in Sinks
        /\ HookLeaves(q, w, takes, outcome) \in SUBSET Row
        /\ HookTakes(w, takes) \in SUBSET Row
        /\ HookOwn(own, declares) \in {None, "declared", "taken"}
        /\ HookUndeclared(q, w, own, takes, declares, outcome) \in BOOLEAN
    BY <1>1, <1>2, <1>4, HooksAreTyped
  <1>13. /\ HookCall(q, w, own, takes, declares, outcome) =
              [kind |-> call[q].kind, row |-> call[q].row, set |-> call[q].set,
               before |-> BeforeOf(call[q], [Visible(q) EXCEPT ![w.row] = HookNew(q, w, own)],
                                   HookLeaves(q, w, takes, outcome), HookTakes(w, takes),
                                   outcome),
               direct |-> HookLeaves(q, w, takes, outcome), taken |-> HookTakes(w, takes),
               undeclared |-> HookUndeclared(q, w, own, takes, declares, outcome),
               atStart |-> call[q].atStart, own |-> HookOwn(own, declares),
               outcome |-> outcome]
         /\ HookCall(q, w, own, takes, declares, outcome) \in CallStates
    BY <1>1, <1>2, <1>4, HookCallsAreTyped
  <1> DEFINE next == HookCall(q, w, own, takes, declares, outcome)
             noted == HookSink(q, w, own, takes, declares, outcome)
             new == HookNew(q, w, own)
  <1>5. /\ w.row \in Row /\ StoredAt(w.row, new) /\ noted \in Sinks /\ next \in CallStates
    BY <1>12, <1>13
  <1>6. /\ next.kind = call[q].kind /\ next.row = call[q].row /\ next.set = call[q].set
        /\ next.direct = HookLeaves(q, w, takes, outcome) /\ next.taken = HookTakes(w, takes)
        /\ next.undeclared = HookUndeclared(q, w, own, takes, declares, outcome)
        /\ next.atStart = call[q].atStart /\ next.own = HookOwn(own, declares)
        /\ next.outcome = outcome
    BY <1>13
  <1> HIDE DEF next, noted, new
  <1>7. /\ rows' = IF own THEN [rows EXCEPT ![w.row] = new] ELSE rows
        /\ overlay' = IF own THEN overlay ELSE [overlay EXCEPT ![q][w.row] = new]
        /\ sink' = [sink EXCEPT ![q] = noted] /\ call' = [call EXCEPT ![q] = next]
        /\ phase' = [phase EXCEPT ![q] = PhaseAfter(outcome)]
        /\ UNCHANGED <<read, entry, filed, plan, calls, attempt, held, due, landed>>
    BY <1>3 DEF HookWrites, next, noted, new
  <1>8. PhaseAfter(outcome) \in Working
    BY DEF PhaseAfter, Working
  <1>9. Types'
    <2>1. rows' \in Tables
      BY <1>1, <1>5, <1>7 DEF Types, Tables, StoredAt
    <2>2. overlay' \in [Request -> Overlays]
      <3>1. overlay[q] \in Overlays
        BY <1>1 DEF Types
      <3>2. [overlay[q] EXCEPT ![w.row] = new] \in Overlays
        BY <1>5, <3>1 DEF Overlays, StoredAt
      <3> QED
        BY <1>1, <1>7, <3>2 DEF Types
    <2> QED
      BY <1>1, <1>5, <1>7, <1>8, <2>1, <2>2 DEF Types, Phases, Working
  <1>10. PhaseIsCoherent(q)'
    <2>1. call'[q] = next /\ phase'[q] \in Working
      BY <1>1, <1>7, <1>8 DEF Types
    <2>2. CallIsCoherent(q) /\ CallIsFresh(q)
      BY <1>1, <1>2 DEF PhaseIsCoherent
    <2>3. CallIsCoherent(q)'
      <3>1. next.direct \cap next.taken = {} /\ (outcome # "answered" => next.direct = {})
        BY <1>6 DEF HookLeaves
      <3>2. /\ next.undeclared => call[q].kind = "update" /\ next.taken # {}
            /\ call[q].kind = "delete" => next.taken = {}
            /\ next.own = "taken" => next.taken # {}
        BY <1>4, <1>6, NoneAssumption DEF HookUndeclared, HookTakes, HookOwn, HookAllowed
      <3>3. Calls(q)' = Calls(q) /\ Opener(q)' = Opener(q)
        BY <1>7 DEF Calls, Opener
      <3> QED
        BY <1>6, <1>7, <2>1, <2>2, <3>1, <3>2, <3>3 DEF CallIsCoherent
    <2> QED
      BY <1>1, <1>2, <1>7, <2>1, <2>3 DEF PhaseIsCoherent, Working, Calls, Opener, Shared
  <1>11. \A p \in Request \ {q} : PhaseIsCoherent(p)'
    BY <1>1, <1>7, OthersStayCoherent DEF TypeInv, Types
  <1> QED
    BY <1>9, <1>10, <1>11 DEF TypeInv

LEMMA WrittenIsTyped ==
  ASSUME Types, NEW q \in Request, CallIsCoherent(q)
  PROVE  Written(q) \in Overlays
  <1> DEFINE c == call[q]
             now == Visible(q)
             new == CASE c.kind = "update" -> [r \in c.direct |-> Change(now[r], c.set)]
                      [] c.kind = "create" -> [r \in c.direct |-> Over(c.set, [f \in {PrimaryKey} |-> r])]
                      [] OTHER -> [r \in c.direct |-> Absent]
  <1>1. now \in Tables /\ overlay[q] \in Overlays /\ c \in CallStates
    BY VisibleIsATable DEF Types
  <1>2. c.direct \in SUBSET Row /\ c.set \in Settings
    BY <1>1 DEF CallStates
  <1>3. ASSUME NEW r \in c.direct
        PROVE  new[r] = Absent \/ StoredAt(r, new[r])
    <2>1. r \in Row /\ (now[r] = Absent \/ StoredAt(r, now[r]))
      BY <1>1, <1>2, <1>3 DEF Tables
    <2>2. CASE c.kind = "update"
      BY <1>2, <1>3, <2>1, <2>2, ChangesAreTyped
    <2>3. CASE c.kind = "create"
      <3>1. c.set \in [Field \ {PrimaryKey} -> Value]
        BY <2>3 DEF CallIsCoherent
      <3>2. StoredAt(r, Over(c.set, [f \in {PrimaryKey} |-> r]))
        BY <2>1, <3>1, CreatedRowsAreTyped
      <3> QED
        BY <1>3, <2>3, <3>2
    <2>4. CASE c.kind # "create" /\ c.kind # "update"
      BY <1>3, <2>4
    <2> QED
      BY <2>2, <2>3, <2>4
  <1>4. Written(q) = [r \in Row |-> IF r \in c.direct /\ new[r] # now[r] THEN new[r] ELSE overlay[q][r]]
    BY DEF Written
  <1> HIDE DEF new
  <1> QED
    BY <1>1, <1>2, <1>3, <1>4 DEF Overlays, StoredAt

LEMMA WriteKeepsTypes ==
  ASSUME TypeInv, NEW q \in Request, Write(q)
  PROVE  TypeInv'
  <1>1. Types /\ PhaseIsCoherent(q) /\ phase[q] = "answered"
    BY DEF TypeInv, Write
  <1>2. CallIsCoherent(q)
    BY <1>1 DEF PhaseIsCoherent, Working
  <1>3. Written(q) \in Overlays
    BY <1>1, <1>2, WrittenIsTyped
  <1>4. /\ overlay' = [overlay EXCEPT ![q] = Written(q)]
        /\ phase' = [phase EXCEPT ![q] = "written"]
        /\ UNCHANGED <<rows, read, plan, calls, call, attempt, sink, held, due, landed>>
    BY DEF Write, store
  <1> HIDE DEF Write
  <1>5. Types'
    BY <1>1, <1>3, <1>4 DEF Types, Phases
  <1>6. PhaseIsCoherent(q)'
    <2>1. phase'[q] = "written"
      BY <1>1, <1>4 DEF Types
    <2>2. CallIsCoherent(q)'
      BY <1>2, <1>4 DEF CallIsCoherent, Calls, Opener
    <2> QED
      BY <1>1, <1>4, <2>1, <2>2 DEF PhaseIsCoherent, Working, Calls, Opener, Shared
  <1>7. \A p \in Request \ {q} : PhaseIsCoherent(p)'
    BY <1>1, <1>4, OthersStayCoherent DEF TypeInv, Types
  <1> QED
    BY <1>5, <1>6, <1>7 DEF TypeInv

LEMMA FailKeepsTypes ==
  ASSUME TypeInv, NEW q \in Request, Fail(q)
  PROVE  TypeInv'
  <1>1. Types /\ PhaseIsCoherent(q)
    BY DEF TypeInv
  <1>2. /\ phase[q] \in {"answered", "written"} /\ phase' = [phase EXCEPT ![q] = "failed"]
        /\ UNCHANGED <<rows, read, plan, calls, call, attempt, overlay, sink, held, due, landed>>
    BY DEF Fail, store
  <1>3. Types'
    BY <1>1, <1>2 DEF Types, Phases
  <1>4. PhaseIsCoherent(q)'
    <2>1. phase'[q] = "failed"
      BY <1>1, <1>2 DEF Types
    <2>2. CallIsCoherent(q)'
      BY <1>1, <1>2 DEF PhaseIsCoherent, CallIsCoherent, Calls, Opener, Working
    <2> QED
      BY <1>1, <1>2, <2>1, <2>2 DEF PhaseIsCoherent, Working, Calls, Opener, Shared
  <1>5. \A p \in Request \ {q} : PhaseIsCoherent(p)'
    BY <1>1, <1>2, OthersStayCoherent DEF TypeInv, Types
  <1> QED
    BY <1>3, <1>4, <1>5 DEF TypeInv

(* What a commit leaves: the rows as its transaction saw them. *)
LEMMA CommitsAreTyped ==
  ASSUME Types, NEW q \in Request, CommitWrites(q)
  PROVE  /\ rows' = Visible(q) /\ rows' \in Tables
         /\ overlay' = [overlay EXCEPT ![q] = NoWrites] /\ overlay' \in [Request -> Overlays]
  <1>1. rows' = Visible(q) /\ overlay' = [overlay EXCEPT ![q] = NoWrites]
    BY DEF CommitWrites
  <1>2. Visible(q) \in Tables
    BY VisibleIsATable DEF Types
  <1> QED
    BY <1>1, <1>2, NothingIsTyped DEF Types

LEMMA CommitKeepsTypes ==
  ASSUME TypeInv, NEW q \in Request, Commit(q)
  PROVE  TypeInv'
  <1>1. Types /\ PhaseIsCoherent(q) /\ phase[q] = "written" /\ ~Shared(q)
    BY DEF TypeInv, Commit
  <1>2. /\ rows' = Visible(q) /\ rows' \in Tables
        /\ overlay' = [overlay EXCEPT ![q] = NoWrites] /\ overlay' \in [Request -> Overlays]
    BY <1>1, CommitsAreTyped DEF Commit
  <1>3. /\ phase' = [phase EXCEPT ![q] = "committed"]
        /\ UNCHANGED <<read, plan, calls, call, attempt, sink, held, due, landed>>
    BY DEF Commit
  <1>4. Types'
    BY <1>1, <1>2, <1>3 DEF Types, Phases
  <1>5. PhaseIsCoherent(q)'
    <2>1. phase'[q] = "committed" /\ overlay'[q] = NoWrites
      BY <1>1, <1>2, <1>3 DEF Types
    <2>2. CallIsCoherent(q)'
      BY <1>1, <1>3 DEF PhaseIsCoherent, CallIsCoherent, Calls, Opener, Working
    <2> QED
      BY <1>1, <1>3, <2>1, <2>2 DEF PhaseIsCoherent, Working, Calls, Opener, Shared, NoWrites
  <1>6. \A p \in Request \ {q} : PhaseIsCoherent(p)'
    BY <1>1, <1>2, <1>3, OthersStayCoherent DEF TypeInv, Types
  <1> QED
    BY <1>4, <1>5, <1>6 DEF TypeInv

(* A request that goes on to its purges *)
LEMMA OwingIsTyped ==
  ASSUME Types, NEW q \in Request, NEW purges \in Seq(PurgeRequest), NEW next \in Nexts,
         Owe(q, purges, next)
  PROVE  /\ due' \in [Request -> [purges : Seq(PurgeRequest), next : Nexts]]
         /\ due' = [due EXCEPT ![q] = [purges |-> purges, next |-> next]]
         /\ due'[q].purges = purges /\ due'[q].next = next
         /\ phase' \in [Request -> Phases] /\ phase' = [phase EXCEPT ![q] = "purging"]
         /\ phase'[q] = "purging"
  <1> DEFINE owed == [purges |-> purges, next |-> next]
  <1>1. owed \in [purges : Seq(PurgeRequest), next : Nexts]
    OBVIOUS
  <1> HIDE DEF owed
  <1>2. due' = [due EXCEPT ![q] = owed] /\ phase' = [phase EXCEPT ![q] = "purging"]
    BY DEF Owe, owed
  <1>3. owed.purges = purges /\ owed.next = next
    BY DEF owed
  <1>4. /\ due' \in [Request -> [purges : Seq(PurgeRequest), next : Nexts]]
        /\ due'[q] = owed
        /\ phase' \in [Request -> Phases] /\ phase'[q] = "purging"
    BY <1>1, <1>2 DEF Types, Phases
  <1> QED
    BY <1>2, <1>3, <1>4 DEF owed

LEMMA PurgeCommittedKeepsTypes ==
  ASSUME TypeInv, NEW q \in Request, PurgeCommitted(q)
  PROVE  TypeInv'
  <1>1. Types /\ PhaseIsCoherent(q) /\ phase[q] = "committed"
    BY DEF TypeInv, PurgeCommitted
  <1>2. PICK readable \in BOOLEAN : Owe(q, SuccessPurge(q, rows, readable), "over")
    BY DEF PurgeCommitted
  <1> DEFINE purges == SuccessPurge(q, rows, readable)
  <1>3. purges \in AtMostOne
    BY <1>1, SuccessPurgesAreTyped DEF Types
  <1>4. purges \in Seq(PurgeRequest) /\ "over" \in Nexts
    BY <1>3, AtMostOneIsASequence DEF Nexts
  <1> HIDE DEF purges
  <1>5. Owe(q, purges, "over")
    BY <1>2 DEF purges
  <1>6. /\ due' \in [Request -> [purges : Seq(PurgeRequest), next : Nexts]]
        /\ due' = [due EXCEPT ![q] = [purges |-> purges, next |-> "over"]]
        /\ due'[q].purges = purges /\ due'[q].next = "over"
        /\ phase' \in [Request -> Phases] /\ phase' = [phase EXCEPT ![q] = "purging"]
        /\ phase'[q] = "purging"
    BY <1>1, <1>4, <1>5, OwingIsTyped
  <1>7. UNCHANGED <<rows, read, plan, calls, call, attempt, overlay, sink, held, landed>>
    BY DEF PurgeCommitted, store
  <1>8. Types'
    BY <1>1, <1>6, <1>7 DEF Types
  <1>9. PhaseIsCoherent(q)'
    BY <1>1, <1>6, <1>7 DEF PhaseIsCoherent, Working, Calls, Opener, Shared, NoWrites
  <1>10. \A p \in Request \ {q} : PhaseIsCoherent(p)'
    BY <1>1, <1>6, <1>7, OthersStayCoherent DEF TypeInv, Types
  <1> QED
    BY <1>8, <1>9, <1>10 DEF TypeInv

LEMMA CatchKeepsTypes ==
  ASSUME TypeInv, NEW q \in Request, Catch(q)
  PROVE  TypeInv'
  <1>1. Types /\ PhaseIsCoherent(q) /\ phase[q] = "failed" /\ ~Shared(q)
    BY DEF TypeInv, Catch
  <1>2. PICK readable \in BOOLEAN : Owe(q, FailurePurge(q, rows, readable), "over")
    BY DEF Catch
  <1> DEFINE purges == FailurePurge(q, rows, readable)
  <1>3. purges \in AtMostOne
    BY <1>1, FailurePurgesAreTyped DEF Types
  <1>4. purges \in Seq(PurgeRequest) /\ "over" \in Nexts
    BY <1>3, AtMostOneIsASequence DEF Nexts
  <1> HIDE DEF purges
  <1>5. Owe(q, purges, "over")
    BY <1>2 DEF purges
  <1>6. /\ due' \in [Request -> [purges : Seq(PurgeRequest), next : Nexts]]
        /\ due' = [due EXCEPT ![q] = [purges |-> purges, next |-> "over"]]
        /\ due'[q].purges = purges /\ due'[q].next = "over"
        /\ phase' \in [Request -> Phases] /\ phase' = [phase EXCEPT ![q] = "purging"]
        /\ phase'[q] = "purging"
    BY <1>1, <1>4, <1>5, OwingIsTyped
  <1>7. /\ overlay' = [overlay EXCEPT ![q] = NoWrites]
        /\ UNCHANGED <<rows, read, plan, calls, call, attempt, sink, held, landed>>
    BY DEF Catch, store
  <1>8. overlay' \in [Request -> Overlays] /\ overlay'[q] = NoWrites
    BY <1>1, <1>7, NothingIsTyped DEF Types
  <1>9. Types'
    BY <1>1, <1>6, <1>7, <1>8 DEF Types
  <1>10. PhaseIsCoherent(q)'
    BY <1>1, <1>6, <1>7, <1>8 DEF PhaseIsCoherent, Working, Calls, Opener, Shared, NoWrites
  <1>11. \A p \in Request \ {q} : PhaseIsCoherent(p)'
    BY <1>1, <1>6, <1>7, OthersStayCoherent DEF TypeInv, Types
  <1> QED
    BY <1>9, <1>10, <1>11 DEF TypeInv

LEMMA RetryKeepsTypes ==
  ASSUME TypeInv, NEW q \in Request, Retry(q)
  PROVE  TypeInv'
  <1>1. Types /\ PhaseIsCoherent(q)
    BY DEF TypeInv
  <1> DEFINE replaced == Opener(q) = "service" /\ call[q].kind = "update"
  <1>2. /\ attempt[q] < MaxAttempts /\ Opener(q) # "caller"
        /\ phase[q] \in {"answered", "written"} \/ (phase[q] = "open" /\ calls[q] > 0)
        /\ attempt' = [attempt EXCEPT ![q] = @ + 1]
        /\ overlay' = [overlay EXCEPT ![q] = NoWrites]
        /\ calls' = [calls EXCEPT ![q] = 0] /\ call' = [call EXCEPT ![q] = NoCall]
        /\ held' = [held EXCEPT ![q] = << >>] /\ landed' = [landed EXCEPT ![q] = {}]
        /\ phase' = [phase EXCEPT ![q] = "open"]
        /\ sink' = IF replaced THEN [sink EXCEPT ![q] = NoDeclarations] ELSE sink
        /\ UNCHANGED <<rows, read, plan, due>>
    BY DEF Retry, store
  <1>3. Types'
    <2>1. attempt' \in [Request -> 1..MaxAttempts]
      BY <1>1, <1>2, AttemptAssumption DEF Types
    <2>2. sink' \in [Request -> Sinks]
      BY <1>1, <1>2 DEF Types, NoDeclarations, Sinks
    <2>3. calls' \in [Request -> Nat] /\ held' \in [Request -> Seq(PurgeRequest)]
      BY <1>1, <1>2 DEF Types
    <2>4. /\ overlay' \in [Request -> Overlays] /\ call' \in [Request -> CallStates]
          /\ landed' \in [Request -> SUBSET {"declared", "taken"}]
      BY <1>1, <1>2, NothingIsTyped, NoCallIsTyped DEF Types
    <2> QED
      BY <1>1, <1>2, <2>1, <2>2, <2>3, <2>4 DEF Types, Phases
  <1>4. PhaseIsCoherent(q)'
    <2>1. /\ phase'[q] = "open" /\ calls'[q] = 0 /\ overlay'[q] = NoWrites
          /\ held'[q] = << >> /\ due'[q] = due[q]
      BY <1>1, <1>2 DEF Types
    <2>2. due[q].purges = << >> /\ phase[q] # "purging"
      BY <1>1, <1>2 DEF PhaseIsCoherent
    <2>3. ~Shared(q) /\ Calls(q) # << >> /\ Calls(q)[1].kind = "update" =>
            sink'[q] = NoDeclarations
      <3>1. SUFFICES ASSUME ~Shared(q), Calls(q)[1].kind = "update"
                     PROVE  sink'[q] = NoDeclarations
        OBVIOUS
      <3>2. Opener(q) = "service" /\ phase[q] \in Working
        BY <1>1, <1>2, <3>1 DEF Shared, PhaseIsCoherent, Working
      <3>3. call[q].kind = "update"
        BY <1>1, <3>1, <3>2 DEF PhaseIsCoherent, CallIsCoherent
      <3> QED
        BY <1>1, <1>2, <3>2, <3>3 DEF Types
    <2>4. 0 <= Len(Calls(q))
      BY <1>1, PlansAreTyped
    <2> QED
      BY <1>1, <1>2, <2>1, <2>2, <2>3, <2>4
         DEF PhaseIsCoherent, Working, Calls, Opener, Shared, NoWrites, NoDeclarations
  <1>5. \A p \in Request \ {q} : PhaseIsCoherent(p)'
    BY <1>1, <1>2, OthersStayCoherent DEF TypeInv, Types
  <1> QED
    BY <1>3, <1>4, <1>5 DEF TypeInv

LEMMA SettleKeepsTypes ==
  ASSUME TypeInv, NEW q \in Request, Settle(q)
  PROVE  TypeInv'
  <1>1. Types /\ PhaseIsCoherent(q) /\ phase[q] = "written" /\ Shared(q)
    BY DEF TypeInv, Settle
  <1> DEFINE purges == SuccessPurge(q, Visible(q), TRUE)
             queue == Hold(held[q], purges)
             reported == landed[q] \cup ({call[q].own} \ {None})
  <1>2. queue \in Seq(PurgeRequest)
    BY <1>1, VisibleIsATable, SuccessPurgesAreTyped, HeldAreTyped DEF Types
  <1>3. reported \in SUBSET {"declared", "taken"}
    BY <1>1 DEF Types, CallStates
  <1> HIDE DEF queue, reported
  <1>4. /\ held' = [held EXCEPT ![q] = queue] /\ landed' = [landed EXCEPT ![q] = reported]
        /\ phase' = [phase EXCEPT ![q] = "open"]
        /\ UNCHANGED <<rows, read, plan, calls, call, attempt, overlay, sink, due>>
    BY DEF Settle, store, queue, reported
  <1>5. Types'
    BY <1>1, <1>2, <1>3, <1>4 DEF Types, Phases
  <1>6. PhaseIsCoherent(q)'
    <2>1. phase'[q] = "open" /\ calls[q] # 0 /\ due[q].purges = << >>
      BY <1>1, <1>4, PlansAreTyped DEF Types, PhaseIsCoherent, CallIsCoherent, Working
    <2> QED
      BY <1>1, <1>4, <2>1 DEF PhaseIsCoherent, Working, Calls, Opener, Shared
  <1>7. \A p \in Request \ {q} : PhaseIsCoherent(p)'
    BY <1>1, <1>4, OthersStayCoherent DEF TypeInv, Types
  <1> QED
    BY <1>5, <1>6, <1>7 DEF TypeInv

LEMMA CatchSharedKeepsTypes ==
  ASSUME TypeInv, NEW q \in Request, CatchShared(q)
  PROVE  TypeInv'
  <1>1. Types /\ PhaseIsCoherent(q) /\ phase[q] = "failed" /\ Shared(q)
    BY DEF TypeInv, CatchShared
  <1>2. PICK readable \in BOOLEAN :
          held' = [held EXCEPT ![q] = Hold(@, FailurePurge(q, Visible(q), readable))]
    BY DEF CatchShared
  <1> DEFINE queue == Hold(held[q], FailurePurge(q, Visible(q), readable))
             purges == HookWrittenPurge(q, IF call[q].kind = "delete" THEN {} ELSE call[q].taken)
             next == IF Opener(q) = "rows" THEN "rollback" ELSE "open"
  <1>3. queue \in Seq(PurgeRequest)
    BY <1>1, VisibleIsATable, FailurePurgesAreTyped, HeldAreTyped DEF Types
  <1>4. purges \in Seq(PurgeRequest) /\ next \in Nexts
    BY <1>1, HookWrittenPurgesAreTyped, AtMostOneIsASequence DEF Types, Nexts
  <1>5. Owe(q, purges, next) /\ held' = [held EXCEPT ![q] = queue]
    BY <1>2 DEF CatchShared
  <1>6. /\ next = "open" => Opener(q) = "caller"
        /\ next = "rollback" => Opener(q) = "rows"
        /\ next # "over"
    BY <1>1, PlansAreTyped
  <1> HIDE DEF queue, purges, next
  <1>7. /\ due' \in [Request -> [purges : Seq(PurgeRequest), next : Nexts]]
        /\ due' = [due EXCEPT ![q] = [purges |-> purges, next |-> next]]
        /\ due'[q].purges = purges /\ due'[q].next = next
        /\ phase' \in [Request -> Phases] /\ phase' = [phase EXCEPT ![q] = "purging"]
        /\ phase'[q] = "purging"
    BY <1>1, <1>4, <1>5, OwingIsTyped
  <1>8. UNCHANGED <<rows, read, plan, calls, call, attempt, overlay, sink, landed>>
    BY DEF CatchShared, store
  <1>9. Types'
    BY <1>1, <1>3, <1>5, <1>7, <1>8 DEF Types
  <1>10. PhaseIsCoherent(q)'
    <2>1. calls[q] > 0
      BY <1>1 DEF PhaseIsCoherent, CallIsCoherent, Working
    <2> QED
      BY <1>1, <1>6, <1>7, <1>8, <2>1 DEF PhaseIsCoherent, Working, Calls, Opener, Shared
  <1>11. \A p \in Request \ {q} : PhaseIsCoherent(p)'
    BY <1>1, <1>5, <1>7, <1>8, OthersStayCoherent DEF TypeInv, Types
  <1> QED
    BY <1>9, <1>10, <1>11 DEF TypeInv

LEMMA CommitSharedKeepsTypes ==
  ASSUME TypeInv, NEW q \in Request, CommitShared(q)
  PROVE  TypeInv'
  <1>1. Types /\ PhaseIsCoherent(q) /\ phase[q] = "open" /\ Shared(q)
    BY DEF TypeInv, CommitShared
  <1>2. /\ rows' = Visible(q) /\ rows' \in Tables
        /\ overlay' = [overlay EXCEPT ![q] = NoWrites] /\ overlay' \in [Request -> Overlays]
    BY <1>1, CommitsAreTyped DEF CommitShared
  <1>3. held[q] \in Seq(PurgeRequest) /\ "over" \in Nexts /\ Owe(q, held[q], "over")
    BY <1>1 DEF Types, Nexts, CommitShared
  <1>4. /\ due' \in [Request -> [purges : Seq(PurgeRequest), next : Nexts]]
        /\ due' = [due EXCEPT ![q] = [purges |-> held[q], next |-> "over"]]
        /\ due'[q].purges = held[q] /\ due'[q].next = "over"
        /\ phase' \in [Request -> Phases] /\ phase' = [phase EXCEPT ![q] = "purging"]
        /\ phase'[q] = "purging"
    BY <1>1, <1>3, OwingIsTyped
  <1>5. /\ held' = [held EXCEPT ![q] = << >>]
        /\ UNCHANGED <<read, plan, calls, call, attempt, sink, landed>>
    BY DEF CommitShared
  <1>6. held' \in [Request -> Seq(PurgeRequest)] /\ held'[q] = << >> /\ overlay'[q] = NoWrites
    BY <1>1, <1>2, <1>5 DEF Types
  <1>7. Types'
    BY <1>1, <1>2, <1>4, <1>5, <1>6 DEF Types
  <1>8. PhaseIsCoherent(q)'
    BY <1>1, <1>4, <1>5, <1>6 DEF PhaseIsCoherent, Working, Calls, Opener, Shared, NoWrites
  <1>9. \A p \in Request \ {q} : PhaseIsCoherent(p)'
    BY <1>1, <1>2, <1>4, <1>5, OthersStayCoherent DEF TypeInv, Types
  <1> QED
    BY <1>7, <1>8, <1>9 DEF TypeInv

LEMMA RollBackCallerKeepsTypes ==
  ASSUME TypeInv, NEW q \in Request, RollBackCaller(q)
  PROVE  TypeInv'
  <1>1. /\ Types /\ PhaseIsCoherent(q) /\ phase[q] = "open" /\ Opener(q) = "caller"
    BY DEF TypeInv, RollBackCaller
  <1>2. /\ overlay' = [overlay EXCEPT ![q] = NoWrites] /\ held' = [held EXCEPT ![q] = << >>]
        /\ phase' = [phase EXCEPT ![q] = "over"]
        /\ UNCHANGED <<rows, read, plan, calls, call, attempt, sink, due, landed>>
    BY DEF RollBackCaller, store
  <1>3. Types'
    <2>1. overlay' \in [Request -> Overlays] /\ held' \in [Request -> Seq(PurgeRequest)]
      BY <1>1, <1>2, NothingIsTyped DEF Types
    <2> QED
      BY <1>1, <1>2, <2>1 DEF Types, Phases
  <1>4. PhaseIsCoherent(q)'
    <2>1. phase'[q] = "over" /\ overlay'[q] = NoWrites /\ held'[q] = << >>
      BY <1>1, <1>2 DEF Types
    <2> QED
      BY <1>1, <1>2, <2>1 DEF PhaseIsCoherent, Working, Calls, Opener, Shared, NoWrites
  <1>5. \A p \in Request \ {q} : PhaseIsCoherent(p)'
    BY <1>1, <1>2, OthersStayCoherent DEF TypeInv, Types
  <1> QED
    BY <1>3, <1>4, <1>5 DEF TypeInv

LEMMA RollBackRowsKeepsTypes ==
  ASSUME TypeInv, NEW q \in Request, RollBackRows(q)
  PROVE  TypeInv'
  <1>1. Types /\ PhaseIsCoherent(q) /\ Opener(q) = "rows" /\ phase[q] \in {"open", "rollback"}
    BY DEF TypeInv, RollBackRows
  <1>2. PICK readable \in BOOLEAN :
          Owe(q, CreatedPurge(q, rows, sink[q].taken, sink[q].taken, {}, readable), "over")
    BY DEF RollBackRows
  <1> DEFINE purges == CreatedPurge(q, rows, sink[q].taken, sink[q].taken, {}, readable)
  <1>3. sink[q] \in Sinks /\ sink[q].taken \in SUBSET Row /\ rows \in Tables
    BY <1>1 DEF Types, Sinks
  <1>4. purges \in AtMostOne
    BY <1>3, CreatedPurgesAreTyped
  <1>5. purges \in Seq(PurgeRequest) /\ "over" \in Nexts
    BY <1>4, AtMostOneIsASequence DEF Nexts
  <1> HIDE DEF purges
  <1>6. Owe(q, purges, "over")
    BY <1>2 DEF purges
  <1>7. /\ due' \in [Request -> [purges : Seq(PurgeRequest), next : Nexts]]
        /\ due' = [due EXCEPT ![q] = [purges |-> purges, next |-> "over"]]
        /\ due'[q].purges = purges /\ due'[q].next = "over"
        /\ phase' \in [Request -> Phases] /\ phase' = [phase EXCEPT ![q] = "purging"]
        /\ phase'[q] = "purging"
    BY <1>1, <1>5, <1>6, OwingIsTyped
  <1>8. /\ overlay' = [overlay EXCEPT ![q] = NoWrites] /\ held' = [held EXCEPT ![q] = << >>]
        /\ UNCHANGED <<rows, read, plan, calls, call, attempt, sink, landed>>
    BY DEF RollBackRows, store
  <1>9. /\ overlay' \in [Request -> Overlays] /\ overlay'[q] = NoWrites
        /\ held' \in [Request -> Seq(PurgeRequest)] /\ held'[q] = << >>
    BY <1>1, <1>8, NothingIsTyped DEF Types
  <1>10. Types'
    BY <1>1, <1>7, <1>8, <1>9 DEF Types
  <1>11. PhaseIsCoherent(q)'
    BY <1>1, <1>7, <1>8, <1>9 DEF PhaseIsCoherent, Working, Calls, Opener, Shared, NoWrites
  <1>12. \A p \in Request \ {q} : PhaseIsCoherent(p)'
    BY <1>1, <1>7, <1>8, OthersStayCoherent DEF TypeInv, Types
  <1> QED
    BY <1>10, <1>11, <1>12 DEF TypeInv

LEMMA RunPurgeKeepsTypes ==
  ASSUME TypeInv, NEW q \in Request, RunPurge(q)
  PROVE  TypeInv'
  <1>1. Types /\ PhaseIsCoherent(q) /\ phase[q] = "purging" /\ due[q].purges # << >>
    BY DEF TypeInv, RunPurge
  <1> DEFINE left == [due[q] EXCEPT !.purges = Tail(@)]
  <1>2. /\ left \in [purges : Seq(PurgeRequest), next : Nexts] /\ left.next = due[q].next
    <2>1. due[q] \in [purges : Seq(PurgeRequest), next : Nexts]
      BY <1>1 DEF Types
    <2>2. Tail(due[q].purges) \in Seq(PurgeRequest)
      BY <1>1, <2>1
    <2> QED
      BY <2>1, <2>2
  <1> HIDE DEF left
  <1>3. /\ due' = [due EXCEPT ![q] = left]
        /\ UNCHANGED <<rows, read, plan, phase, calls, call, attempt, overlay, sink, held, landed>>
    BY DEF RunPurge, left
  <1>4. Types'
    BY <1>1, <1>2, <1>3 DEF Types
  <1>5. PhaseIsCoherent(q)'
    <2>1. due'[q].next = due[q].next
      BY <1>1, <1>2, <1>3 DEF Types
    <2> QED
      BY <1>1, <1>3, <2>1 DEF PhaseIsCoherent, Working, Calls, Opener, Shared
  <1>6. \A p \in Request \ {q} : PhaseIsCoherent(p)'
    BY <1>1, <1>3, OthersStayCoherent DEF TypeInv, Types
  <1> QED
    BY <1>4, <1>5, <1>6 DEF TypeInv

LEMMA PurgesDoneKeepsTypes ==
  ASSUME TypeInv, NEW q \in Request, PurgesDone(q)
  PROVE  TypeInv'
  <1>1. Types /\ PhaseIsCoherent(q) /\ phase[q] = "purging" /\ due[q].purges = << >>
    BY DEF TypeInv, PurgesDone
  <1>2. /\ phase' = [phase EXCEPT ![q] = due[q].next]
        /\ UNCHANGED <<rows, read, plan, calls, call, attempt, overlay, sink, held, due, landed>>
    BY DEF PurgesDone, store
  <1>3. due[q].next \in Nexts
    BY <1>1 DEF Types
  <1>4. Types'
    BY <1>1, <1>2, <1>3 DEF Types, Phases, Nexts
  <1>5. PhaseIsCoherent(q)'
    <2>1. phase'[q] = due[q].next
      BY <1>1, <1>2 DEF Types
    <2>2. Opener(q) = "caller" => Shared(q)
      BY DEF Shared
    <2> QED
      BY <1>1, <1>2, <1>3, <2>1, <2>2
         DEF PhaseIsCoherent, Working, Calls, Opener, Shared, NoWrites, Nexts
  <1>6. \A p \in Request \ {q} : PhaseIsCoherent(p)'
    BY <1>1, <1>2, OthersStayCoherent DEF TypeInv, Types
  <1> QED
    BY <1>4, <1>5, <1>6 DEF TypeInv

LEMMA NextKeepsTypes ==
  ASSUME TypeInv, [Next]_vars
  PROVE  TypeInv'
  <1>1. CASE UNCHANGED vars
    <2>1. Types'
      BY <1>1 DEF TypeInv, Types, vars
    <2>2. \A p \in Request : PhaseIsCoherent(p)'
      BY <1>1, OthersStayCoherent DEF TypeInv, vars
    <2> QED
      BY <2>1, <2>2 DEF TypeInv
  <1>2. ASSUME NEW q \in Request,
               \/ Begin(q) \/ QuietHook(q) \/ WritingHook(q) \/ Write(q) \/ Fail(q)
               \/ Commit(q) \/ PurgeCommitted(q) \/ Catch(q) \/ Retry(q)
        PROVE  TypeInv'
    BY <1>2, BeginKeepsTypes, QuietHookKeepsTypes, WritingHookKeepsTypes, WriteKeepsTypes,
       FailKeepsTypes, CommitKeepsTypes, PurgeCommittedKeepsTypes, CatchKeepsTypes,
       RetryKeepsTypes
  <1>3. ASSUME NEW q \in Request,
               \/ Settle(q) \/ CatchShared(q) \/ CommitShared(q) \/ RollBackCaller(q)
               \/ RollBackRows(q) \/ RunPurge(q) \/ PurgesDone(q)
        PROVE  TypeInv'
    BY <1>3, SettleKeepsTypes, CatchSharedKeepsTypes, CommitSharedKeepsTypes,
       RollBackCallerKeepsTypes, RollBackRowsKeepsTypes, RunPurgeKeepsTypes,
       PurgesDoneKeepsTypes
  <1> QED
    BY <1>1, <1>2, <1>3, FillKeepsTypes DEF Next

LEMMA TypeInvImpliesTypeOK == TypeInv => TypeOK
  <1> SUFFICES ASSUME TypeInv PROVE TypeOK
    OBVIOUS
  <1>1. /\ rows \in Tables /\ phase \in [Request -> Phases]
        /\ attempt \in [Request -> 1..MaxAttempts]
    BY DEF TypeInv, Types
  <1>2. ASSUME NEW q \in Request
        PROVE  /\ \A r \in Row : overlay[q][r] \in {Absent, None} \/ StoredAt(r, overlay[q][r])
               /\ sink[q].keys \cup sink[q].taken \subseteq Row
               /\ \A declared \in sink[q].declared : Pinned(declared) \subseteq PinnableFields
               /\ calls[q] \in 0..Len(Calls(q)) /\ call[q].taken \cup call[q].direct \subseteq Row
               /\ phase[q] \in {"committed", "over"} => overlay[q] = NoWrites
               /\ phase[q] = "over" => held[q] = << >> /\ due[q].purges = << >>
               /\ held[q] # << >> => Shared(q)
    <2>1. Types /\ PhaseIsCoherent(q)
      BY DEF TypeInv
    <2>2. \A r \in Row : overlay[q][r] \in {Absent, None} \/ StoredAt(r, overlay[q][r])
      BY <2>1 DEF Types, Overlays
    <2>3. sink[q].keys \cup sink[q].taken \subseteq Row
      BY <2>1 DEF Types, Sinks
    <2>4. ASSUME NEW declared \in sink[q].declared
          PROVE  Pinned(declared) \subseteq PinnableFields
      <3>1. PICK row \in Stored : declared = DeclaredPin(row)
        BY <2>1 DEF Types, Sinks, Pin
      <3> QED
        BY <3>1 DEF DeclaredPin, Pinned, PinnableFields
    <2>5. calls[q] \in 0..Len(Calls(q))
      BY <2>1, PlansAreTyped DEF Types, PhaseIsCoherent
    <2>6. call[q].taken \cup call[q].direct \subseteq Row
      BY <2>1 DEF Types, CallStates
    <2> QED
      BY <2>1, <2>2, <2>3, <2>4, <2>5, <2>6 DEF PhaseIsCoherent
  <1> QED
    BY <1>1, <1>2 DEF TypeOK

(* ItemMutation is type correct, and an ended request has no write left to     *)
(* commit and no purge left to run: what services/items.ts returns after.     *)
THEOREM TypeCorrect == Spec => []TypeOK
  <1>1. TypeInv /\ [Next]_vars => TypeInv'
    BY NextKeepsTypes
  <1> QED
    BY InitTypes, <1>1, TypeInvImpliesTypeOK, PTL DEF Spec

-----------------------------------------------------------------------------
(* The index sets of the entry *)

(* An entry is in every set its read is filed in. *)
EntryIsNamed == entry # None => IndexKeys(read) \subseteq filed

(* It is in those alone, and in none once it is dropped. *)
NamedAsFiled == filed = IF entry = None THEN {} ELSE IndexKeys(read)

(* A step leaves the entry and its sets, files it, or runs a purge. *)
LEMMA StepsOfTheEntry ==
  ASSUME TypeInv, [Next]_vars
  PROVE  /\ read' = read
         /\ \/ entry' = entry /\ filed' = filed
            \/ Fill
            \/ \E p \in PurgeRequest : Purge(p)
  <1>1. CASE UNCHANGED vars
    BY <1>1 DEF vars
  <1>2. CASE Fill
    BY <1>2 DEF Fill
  <1>3. ASSUME NEW q \in Request,
               \/ Begin(q) \/ QuietHook(q) \/ Write(q) \/ Fail(q) \/ Commit(q)
               \/ PurgeCommitted(q) \/ Catch(q) \/ Retry(q)
        PROVE  read' = read /\ entry' = entry /\ filed' = filed
    BY <1>3 DEF Begin, QuietHook, Write, Fail, Commit, PurgeCommitted, Catch, Retry, store
  <1>4. ASSUME NEW q \in Request,
               \/ WritingHook(q) \/ Settle(q) \/ CatchShared(q) \/ CommitShared(q)
               \/ RollBackCaller(q) \/ RollBackRows(q) \/ PurgesDone(q)
        PROVE  read' = read /\ entry' = entry /\ filed' = filed
    BY <1>4 DEF WritingHook, Settle, CatchShared, CommitShared, RollBackCaller, RollBackRows,
                PurgesDone, store
  <1>5. ASSUME NEW q \in Request, RunPurge(q)
        PROVE  read' = read /\ \E p \in PurgeRequest : Purge(p)
    <2>1. due[q].purges \in Seq(PurgeRequest) /\ due[q].purges # << >>
      BY <1>5 DEF TypeInv, Types, RunPurge
    <2>2. Head(due[q].purges) \in PurgeRequest
      BY <2>1
    <2> QED
      BY <1>5, <2>2 DEF RunPurge
  <1> QED
    BY <1>1, <1>2, <1>3, <1>4, <1>5 DEF Next

LEMMA ReadsAreReads ==
  ASSUME Types
  PROVE  IsRead(read) /\ Answer(rows) # None
  BY StateAssumption, NoneAssumption DEF Types, Answer

LEMMA EntryStaysNamed ==
  ASSUME TypeInv, EntryIsNamed, [Next]_vars
  PROVE  EntryIsNamed'
  <1>1. IsRead(read) /\ IndexKeys(read) # {}
    BY ReadsAreReads, EveryReadIsFiled DEF TypeInv
  <1>2. CASE read' = read /\ entry' = entry /\ filed' = filed
    BY <1>2 DEF EntryIsNamed
  <1>3. CASE Fill
    BY <1>3 DEF Fill, EntryIsNamed
  <1>4. ASSUME read' = read, NEW p \in PurgeRequest, Purge(p)
        PROVE  EntryIsNamed'
    <2> DEFINE found == FoundBy(p, read, filed)
    <2>1. /\ entry' = IF found # {} THEN None ELSE entry
          /\ found = {} => filed' = IF p.whole THEN {} ELSE filed
      BY <1>4 DEF Purge
    <2>2. p.whole /\ found = {} => filed = {}
      BY DEF FoundBy
    <2> HIDE DEF found
    <2> QED
      BY <1>1, <1>4, <2>1, <2>2 DEF EntryIsNamed
  <1> QED
    BY <1>2, <1>3, <1>4, StepsOfTheEntry

LEMMA NamingIsKept ==
  ASSUME HasIndexPath => IndexPath # PrimaryKey, TypeInv, NamedAsFiled, [Next]_vars
  PROVE  NamedAsFiled'
  <1>1. IsRead(read) /\ IndexKeys(read) # {} /\ Answer(rows) # None
    BY ReadsAreReads, EveryReadIsFiled DEF TypeInv
  <1>2. CASE read' = read /\ entry' = entry /\ filed' = filed
    BY <1>2 DEF NamedAsFiled
  <1>3. CASE Fill
    BY <1>1, <1>3 DEF Fill, NamedAsFiled
  <1>4. ASSUME read' = read, NEW p \in PurgeRequest, Purge(p)
        PROVE  NamedAsFiled'
    <2> DEFINE found == FoundBy(p, read, filed)
    <2>1. /\ entry' = IF found # {} THEN None ELSE entry
          /\ filed' = IF p.whole THEN {}
                      ELSE IF found # {} THEN filed \ (found \cup PrunedIndexKeys(read))
                      ELSE filed
      BY <1>4 DEF Purge
    <2>2. p.whole => filed \subseteq found
      BY DEF FoundBy
    <2>3. found \subseteq filed
      BY DEF FoundBy, FoundByRows, FoundByPins
    <2>4. IndexKeys(read) \subseteq PrunedIndexKeys(read)
      BY <1>1, PruneNamesEveryFiling
    <2> HIDE DEF found
    <2>5. CASE entry = None
      BY <1>4, <2>1, <2>3, <2>5 DEF NamedAsFiled
    <2>6. CASE entry # None
      BY <1>1, <1>4, <2>1, <2>2, <2>3, <2>4, <2>6 DEF NamedAsFiled
    <2> QED
      BY <2>5, <2>6
  <1> QED
    BY <1>2, <1>3, <1>4, StepsOfTheEntry

(* A purge that drops an entry takes it out of every set naming it, wherever  *)
(* the index is not split by the primary key (redis-store.ts): whatever else  *)
(* ran between the filing and the purge.                                      *)
THEOREM DroppedEntriesAreUnnamed ==
  ASSUME HasIndexPath => IndexPath # PrimaryKey
  PROVE  Spec => []DroppedEntryIsUnnamed
  <1>1. Init => TypeInv /\ NamedAsFiled
    BY InitTypes DEF Init, NamedAsFiled
  <1>2. TypeInv /\ NamedAsFiled /\ [Next]_vars => (TypeInv /\ NamedAsFiled)'
    BY NextKeepsTypes, NamingIsKept
  <1>3. NamedAsFiled => DroppedEntryIsUnnamed
    BY DEF NamedAsFiled, DroppedEntryIsUnnamed
  <1> QED
    BY <1>1, <1>2, <1>3, PTL DEF Spec

-----------------------------------------------------------------------------
(* What a read sees of a row, and which purges drop it *)

(* What a row adds to the answer of a read *)
Sees(fp, row) ==
  IF row # Absent /\ MatchesRow(fp, RowFingerprint(row))
  THEN {[f \in {PrimaryKey} \cup Viewed(fp) |-> row[f]]} ELSE {}

(* Whether a purge finds an entry filed where the index files it *)
Drops(fp, p) == FoundBy(p, fp, IndexKeys(fp)) # {}

DropsAny(fp, purges) == \E i \in DOMAIN purges : Drops(fp, purges[i])

Reached(fp, declared) == \E d \in declared : ReachedByPin(fp, d)

LEMMA AnswerIsWhatRowsShow ==
  ASSUME NEW fp, NEW state \in Tables
  PROVE  AnswerOf(fp, state, Absent) = UNION {Sees(fp, state[r]) : r \in Row}
  <1> DEFINE columns(row) == [f \in {PrimaryKey} \cup Viewed(fp) |-> row[f]]
             seen(r) == state[r] # Absent /\ MatchesRow(fp, RowFingerprint(state[r]))
  <1>1. AnswerOf(fp, state, Absent) = {columns(state[r]) : r \in {x \in Row : seen(x)}}
    BY TablesAreTables DEF AnswerOf, Viewed
  <1>2. \A r \in Row : Sees(fp, state[r]) = IF seen(r) THEN {columns(state[r])} ELSE {}
    BY DEF Sees
  <1> HIDE DEF columns, seen
  <1>3. {columns(state[r]) : r \in {x \in Row : seen(x)}}
          = UNION {IF seen(r) THEN {columns(state[r])} ELSE {} : r \in Row}
    OBVIOUS
  <1> QED
    BY <1>1, <1>2, <1>3

LEMMA SameSightSameAnswer ==
  ASSUME NEW fp, NEW old \in Tables, NEW new \in Tables,
         \A r \in Row : Sees(fp, old[r]) = Sees(fp, new[r])
  PROVE  AnswerOf(fp, old, Absent) = AnswerOf(fp, new, Absent)
  <1>1. {Sees(fp, old[r]) : r \in Row} = {Sees(fp, new[r]) : r \in Row}
    OBVIOUS
  <1> QED
    BY <1>1, AnswerIsWhatRowsShow

(* Tables of which a read sees one row differently answer it differently. *)
LEMMA OtherSightOtherAnswer ==
  ASSUME NEW fp, NEW old \in Tables, NEW new \in Tables, NEW r \in Row,
         Sees(fp, old[r]) # Sees(fp, new[r])
  PROVE  AnswerOf(fp, old, Absent) # AnswerOf(fp, new, Absent)
  <1>1. ASSUME NEW state \in Tables, NEW x \in AnswerOf(fp, state, Absent), x[PrimaryKey] = r
        PROVE  Sees(fp, state[r]) = {x}
    <2>1. PICK k \in Row : x \in Sees(fp, state[k])
      BY AnswerIsWhatRowsShow
    <2>2. state[k] # Absent /\ x = [f \in {PrimaryKey} \cup Viewed(fp) |-> state[k][f]]
      BY <2>1 DEF Sees
    <2>3. x[PrimaryKey] = k
      BY <2>2 DEF Tables, StoredAt
    <2> QED
      BY <1>1, <2>1, <2>2, <2>3 DEF Sees
  <1>2. ASSUME NEW state \in Tables, Sees(fp, state[r]) # {}
        PROVE  \E x \in AnswerOf(fp, state, Absent) : x[PrimaryKey] = r
    <2>1. state[r] # Absent
      BY <1>2 DEF Sees
    <2>2. [f \in {PrimaryKey} \cup Viewed(fp) |-> state[r][f]] \in Sees(fp, state[r])
      BY <1>2 DEF Sees
    <2>3. [f \in {PrimaryKey} \cup Viewed(fp) |-> state[r][f]] \in AnswerOf(fp, state, Absent)
      BY <2>2, AnswerIsWhatRowsShow
    <2>4. [f \in {PrimaryKey} \cup Viewed(fp) |-> state[r][f]][PrimaryKey] = r
      BY <2>1 DEF Tables, StoredAt
    <2> QED
      BY <2>3, <2>4
  <1> QED
    BY <1>1, <1>2

(* Where nothing is scoped, a row is matched by its key. *)
LEMMA KeyMatchesAsTheRow ==
  ASSUME NEW fp, IsRead(fp), ScopeFields = << >>, NEW r, NEW row, StoredAt(r, row)
  PROVE  MatchesRow(fp, RowFingerprint(row)) <=> MatchesRow(fp, RowFingerprint(KeyOf(r)))
  <1>1. PinnableFields = {PrimaryKey}
    BY DEF PinnableFields, Scopes
  <1>2. /\ Pins(RowFingerprint(KeyOf(r)), PrimaryKey) = {r}
        /\ Pins(RowFingerprint(row), PrimaryKey) = {r}
    BY <1>1, FieldAssumption DEF RowFingerprint, Pins, Pinned, KeyOf, StoredAt, Stored
  <1> QED
    BY <1>1, <1>2 DEF MatchesRow, IsRead

(* What a hook declares of a row a read sees leaves room for that read. *)
LEMMA SeenRowIsReached ==
  ASSUME NEW fp, NEW r, NEW row, StoredAt(r, row), Sees(fp, row) # {}
  PROVE  ReachedByPin(fp, DeclaredPin(row))
  <1> DEFINE fields == IF Scopes = {} THEN {PrimaryKey} ELSE Scopes
  <1>1. fields # {} /\ fields \subseteq PinnableFields
    BY DEF PinnableFields
  <1>2. DeclaredPin(row) = [pinned |-> [f \in fields |-> {row[f]}], view |-> {}]
    BY DEF DeclaredPin
  <1> HIDE DEF fields
  <1>3. ~IsBare(DeclaredPin(row)) /\ Pinned(DeclaredPin(row)) = fields
    BY <1>1, <1>2 DEF IsBare, Pinned
  <1>4. ASSUME NEW f \in fields, f \in Pinned(fp)
        PROVE  fp.pinned[f] \cap DeclaredPin(row).pinned[f] # {}
    <2>1. Pins(RowFingerprint(row), f) = {row[f]}
      BY <1>1, <1>4, RowAnswersForItsFields DEF StoredAt, Stored
    <2>2. Pins(RowFingerprint(row), f) \cap fp.pinned[f] # {}
      BY <1>4 DEF Sees, MatchesRow
    <2>3. DeclaredPin(row).pinned[f] = {row[f]}
      BY <1>2, <1>4
    <2> QED
      BY <2>1, <2>2, <2>3
  <1> QED
    BY <1>3, <1>4 DEF ReachedByPin, CouldContainPin

LEMMA WholePurgeDrops ==
  ASSUME NEW fp, IsRead(fp), NEW bare, NEW declared
  PROVE  Drops(fp, WholePurge(bare, declared))
  <1>1. IndexKeys(fp) # {}
    BY EveryReadIsFiled
  <1>2. IndexKeys(fp) \subseteq FoundBy(WholePurge(bare, declared), fp, IndexKeys(fp))
    BY DEF FoundBy, WholePurge
  <1> QED
    BY <1>1, <1>2 DEF Drops

LEMMA DeclaredPinDrops ==
  ASSUME NEW fp, IsRead(fp), NEW own, NEW changed, NEW bare, NEW declared,
         Reached(fp, declared)
  PROVE  Drops(fp, SlicesPurge(own, changed, bare, declared))
  <1> DEFINE p == SlicesPurge(own, changed, bare, declared)
  <1>1. PICK d \in declared : ReachedByPin(fp, d)
    BY DEF Reached
  <1>2. d \in SweptByPin(p)
    BY DEF SweptByPin, SlicesPurge
  <1>3. IndexKeys(fp) # {}
    BY EveryReadIsFiled
  <1> HIDE DEF p
  <1>4. FoundByPins(IndexKeys(fp), SweptByPin(p)) # {}
    BY <1>1, <1>2, <1>3, DeclaredPinFindsItsReads
  <1>5. FoundByPins(IndexKeys(fp), SweptByPin(p)) \subseteq FoundBy(p, fp, IndexKeys(fp))
    BY <1>1, <1>2 DEF FoundBy
  <1> QED
    BY <1>4, <1>5 DEF Drops, p

LEMMA MatchedRowDrops ==
  ASSUME NEW fp, IsRead(fp), NEW own, NEW row \in own, MatchesRow(fp, row), NEW changed,
         ViewFieldsAreTouched(ViewedFields(fp), changed), NEW declared
  PROVE  Drops(fp, SlicesPurge(own, changed, TRUE, declared))
  <1> DEFINE p == SlicesPurge(own, changed, TRUE, declared)
  <1>1. p.driven /\ p.bare /\ p.own = own /\ p.changed = changed
    BY DEF SlicesPurge
  <1>2. PurgedBy(fp, own, changed)
    BY DEF PurgedBy
  <1>3. FoundByRows(IndexKeys(fp), own) # {}
    BY MatchedReadIsFound
  <1> HIDE DEF p
  <1>4. FoundByRows(IndexKeys(fp), own) \subseteq FoundBy(p, fp, IndexKeys(fp))
    BY <1>1, <1>2 DEF FoundBy
  <1> QED
    BY <1>3, <1>4 DEF Drops, p

(* An entry in more sets is found as well. *)
LEMMA NamedEntryIsFound ==
  ASSUME NEW fp, NEW p, Drops(fp, p), NEW sets, IndexKeys(fp) \subseteq sets
  PROVE  FoundBy(p, fp, sets) # {}
  <1>1. FoundBy(p, fp, IndexKeys(fp)) \subseteq FoundBy(p, fp, sets)
    <2>1. /\ FoundByRows(IndexKeys(fp), p.own) \subseteq FoundByRows(sets, p.own)
          /\ FoundByPins(IndexKeys(fp), SweptByPin(p)) \subseteq FoundByPins(sets, SweptByPin(p))
      BY DEF FoundByRows, FoundByPins
    <2> QED
      BY <2>1 DEF FoundBy
  <1> QED
    BY <1>1 DEF Drops

LEMMA HeldPurgesDrop ==
  ASSUME NEW fp, IsRead(fp), NEW queue \in Seq(PurgeRequest), NEW purges \in AtMostOne,
         DropsAny(fp, queue) \/ DropsAny(fp, purges)
  PROVE  DropsAny(fp, Hold(queue, purges))
  <1>1. CASE purges = << >>
    BY <1>1 DEF Hold, DropsAny
  <1>2. CASE purges # << >>
    <2>1. PICK p \in PurgeRequest : purges = <<p>>
      BY <1>2 DEF AtMostOne
    <2> DEFINE same == {i \in DOMAIN queue : queue[i].bare = p.bare}
               merged == [i \in DOMAIN queue |-> IF i \in same THEN MergeRequests(queue[i], p) ELSE queue[i]]
    <2>2. Hold(queue, purges) = IF same = {} THEN Append(queue, p) ELSE merged
      BY <1>2, <2>1 DEF Hold, Enqueue
    <2>3. DropsAny(fp, queue) \/ Drops(fp, p)
      BY <2>1 DEF DropsAny
    <2>4. CASE same = {}
      <3> DEFINE longer == Append(queue, p)
      <3>1. /\ DOMAIN queue = 1..Len(queue) /\ DOMAIN longer = 1..(Len(queue) + 1)
            /\ Len(queue) \in Nat
            /\ \A i \in 1..Len(queue) : longer[i] = queue[i]
            /\ longer[Len(queue) + 1] = p
        OBVIOUS
      <3> HIDE DEF longer
      <3>2. DropsAny(fp, longer)
        BY <2>3, <3>1 DEF DropsAny
      <3> QED
        BY <2>2, <2>4, <3>2 DEF longer
    <2>5. CASE same # {}
      <3>1. \A i \in DOMAIN queue : queue[i] \in PurgeRequest
        OBVIOUS
      <3>2. ASSUME NEW i \in same, Drops(fp, queue[i]) \/ Drops(fp, p)
            PROVE  Drops(fp, MergeRequests(queue[i], p))
        <4>1. IsRequest(queue[i]) /\ IsRequest(p) /\ queue[i].bare = p.bare
          BY <3>1 DEF IsRequest, PurgeRequest
        <4> QED
          BY <3>2, <4>1, MergedPurgeReachesBoth DEF Drops
      <3>3. DropsAny(fp, merged)
        BY <2>3, <2>5, <3>2 DEF DropsAny
      <3> QED
        BY <2>2, <2>5, <3>3
    <2> QED
      BY <2>4, <2>5
  <1> QED
    BY <1>1, <1>2

(* What a snapshot knows of a row *)
BeforeIn(before, r) == IF r \in DOMAIN before THEN before[r] ELSE Absent

(* Whether a snapshot tells the row it has of the one a read sees there now *)
Tells(fp, before, r, row) ==
  IF ScopeFields = << >> THEN MatchesRow(fp, RowFingerprint(KeyOf(r)))
  ELSE Sees(fp, BeforeIn(before, r)) # Sees(fp, row)

LEMMA EveryFieldIsTouched ==
  ASSUME NEW view
  PROVE  ViewFieldsAreTouched(view, Field)
  BY DEF ViewFieldsAreTouched

LEMMA ToldChangeDrops ==
  ASSUME NEW fp, IsRead(fp), NEW before \in Snapshots, NEW state \in Tables,
         NEW written \in SUBSET Row, NEW r \in written, Tells(fp, before, r, state[r]),
         NEW declared
  PROVE  LET after == Snapshot(state, written, Absent)
         IN Drops(fp, SlicesPurge(Fingerprints(before) \cup Fingerprints(after),
                                  ChangedFields(before, after), TRUE, declared))
  <1> DEFINE after == Snapshot(state, written, Absent)
             own == Fingerprints(before) \cup Fingerprints(after)
             changed == ChangedFields(before, after)
  <1>1. CASE ScopeFields = << >>
    <2>1. after = [k \in written |-> KeyOf(k)]
      BY <1>1 DEF Snapshot, KeyOf
    <2>2. RowFingerprint(KeyOf(r)) \in own
      BY <2>1 DEF Fingerprints
    <2>3. changed = Field
      BY <1>1, <2>1 DEF ChangedFields
    <2>4. MatchesRow(fp, RowFingerprint(KeyOf(r)))
      BY <1>1 DEF Tells
    <2> HIDE DEF own, changed
    <2>5. Drops(fp, SlicesPurge(own, changed, TRUE, declared))
      BY <2>2, <2>3, <2>4, EveryFieldIsTouched, MatchedRowDrops
    <2> QED
      BY <2>5 DEF own, changed
  <1>2. CASE ScopeFields # << >>
    <2> DEFINE old == [k \in Row |-> BeforeIn(before, k)]
               new == [k \in Row |-> IF k \in written THEN state[k] ELSE Absent]
    <2>1. /\ DOMAIN before \subseteq Row
          /\ \A k \in DOMAIN before : StoredAt(k, before[k]) /\ before[k] # Absent
          /\ before = [k \in DOMAIN before |-> before[k]]
      BY <1>2, NoneAssumption DEF Snapshots, Shows, StoredAt
    <2>2. old \in Tables /\ Snapshot(old, Row, Absent) = before
      <3>1. old \in Tables
        BY <2>1 DEF BeforeIn, Tables, StoredAt
      <3>2. {x \in Row : old[x] # Absent} = DOMAIN before
        BY <2>1 DEF BeforeIn
      <3>3. Snapshot(old, Row, Absent) = [k \in {x \in Row : old[x] # Absent} |-> old[k]]
        BY <1>2 DEF Snapshot
      <3>4. \A k \in DOMAIN before : old[k] = before[k]
        BY <2>1 DEF BeforeIn
      <3> HIDE DEF old
      <3>5. Snapshot(old, Row, Absent) = [k \in DOMAIN before |-> before[k]]
        BY <3>2, <3>3, <3>4
      <3> QED
        BY <2>1, <3>1, <3>5
    <2>3. new \in Tables /\ Snapshot(new, Row, Absent) = after
      <3>1. new \in Tables
        BY DEF Tables
      <3>2. {x \in Row : new[x] # Absent} = {x \in written : state[x] # Absent}
        OBVIOUS
      <3>3. Snapshot(new, Row, Absent) = [k \in {x \in Row : new[x] # Absent} |-> new[k]]
        BY <1>2 DEF Snapshot
      <3>4. after = [k \in {x \in written : state[x] # Absent} |-> state[k]]
        BY <1>2 DEF Snapshot
      <3>5. \A k \in written : new[k] = state[k]
        OBVIOUS
      <3> HIDE DEF new, after
      <3>6. Snapshot(new, Row, Absent) = after
        BY <3>2, <3>3, <3>4, <3>5
      <3> QED
        BY <3>1, <3>6
    <2>4. Sees(fp, old[r]) # Sees(fp, new[r])
      BY <1>2 DEF Tells
    <2> HIDE DEF old, new
    <2>5. AnswerOf(fp, old, Absent) # AnswerOf(fp, new, Absent)
      BY <2>2, <2>3, <2>4, OtherSightOtherAnswer
    <2>6. /\ DOMAIN old = Row /\ DOMAIN new = Row
          /\ IsTable(old, Absent) /\ IsTable(new, Absent)
      BY <2>2, <2>3, TablesAreTables
    <2>7. FoundBy(SlicesPurge(Fingerprints(Snapshot(old, Row, Absent))
                                \cup Fingerprints(Snapshot(new, Row, Absent)),
                              ChangedFields(Snapshot(old, Row, Absent), Snapshot(new, Row, Absent)),
                              TRUE, declared), fp, IndexKeys(fp)) # {}
      BY <2>5, <2>6, RowAssumption, ChangedAnswerIsDropped
    <2> QED
      BY <2>2, <2>3, <2>7 DEF Drops
  <1> QED
    BY <1>1, <1>2

-----------------------------------------------------------------------------
(* What the purges of a call drop *)

(* A call that purges the collection whole: a row was taken over, of which no *)
(* one declared what slice it left.                                           *)
Unbounded(c, keys) ==
  \/ c.kind = "update" /\ c.undeclared
  \/ c.kind = "create" /\ ~(c.taken \subseteq keys)

(* Whether the purge of a call reaches a read by one of its rows *)
ShowsChange(fp, c, r, row) ==
  CASE c.kind = "update" -> Tells(fp, c.before, r, row)
    [] c.kind = "create" -> Sees(fp, row) # {}
    [] OTHER -> r \in DOMAIN c.before /\ MatchesRow(fp, RowFingerprint(c.before[r]))

LEMMA OnePurgeDrops ==
  ASSUME NEW fp, NEW p, Drops(fp, p)
  PROVE  DropsAny(fp, <<p>>)
  <1>1. 1 \in DOMAIN <<p>> /\ <<p>>[1] = p
    OBVIOUS
  <1> QED
    BY <1>1 DEF DropsAny

LEMMA DeclaredPurgeDrops ==
  ASSUME NEW q, NEW fp, IsRead(fp), Reached(fp, sink[q].declared)
  PROVE  DropsAny(fp, DeclaredPurge(q))
  <1>1. Drops(fp, SlicesPurge({}, {}, FALSE, Declared(q)))
    BY DeclaredPinDrops DEF Declared
  <1>2. DeclaredPurge(q) = <<SlicesPurge({}, {}, FALSE, Declared(q))>>
    BY DEF DeclaredPurge, Declared, Reached
  <1> QED
    BY <1>1, <1>2, OnePurgeDrops

LEMMA UpdatedPurgeDrops ==
  ASSUME NEW q, NEW fp, IsRead(fp), NEW state \in Tables, NEW written \in SUBSET Row,
         NEW readable, call[q].before \in Snapshots,
         \/ Reached(fp, sink[q].declared)
         \/ call[q].undeclared
         \/ \E r \in written : Tells(fp, call[q].before, r, state[r])
  PROVE  DropsAny(fp, UpdatedPurge(q, state, written, readable))
  <1> DEFINE after == Snapshot(state, written, Absent)
             own == Fingerprints(call[q].before) \cup Fingerprints(after)
             changed == ChangedFields(call[q].before, after)
  <1>1. UpdatedPurge(q, state, written, readable) =
          IF call[q].undeclared \/ ~readable THEN <<WholePurge(TRUE, Declared(q))>>
          ELSE <<SlicesPurge(own, changed, TRUE, Declared(q))>>
    BY DEF UpdatedPurge
  <1>2. Drops(fp, WholePurge(TRUE, Declared(q)))
    BY WholePurgeDrops
  <1>3. ASSUME NEW r \in written, Tells(fp, call[q].before, r, state[r])
        PROVE  Drops(fp, SlicesPurge(own, changed, TRUE, Declared(q)))
    BY <1>3, ToldChangeDrops
  <1>4. Reached(fp, sink[q].declared) => Drops(fp, SlicesPurge(own, changed, TRUE, Declared(q)))
    BY DeclaredPinDrops DEF Declared
  <1> HIDE DEF own, changed
  <1> QED
    BY <1>1, <1>2, <1>3, <1>4, OnePurgeDrops

LEMMA CreatedPurgeDrops ==
  ASSUME NEW q, NEW fp, IsRead(fp), NEW state \in Tables, NEW written \in SUBSET Row,
         NEW taken \in SUBSET written, NEW atStart, NEW readable,
         \/ Reached(fp, sink[q].declared)
         \/ ~(taken \subseteq sink[q].keys)
         \/ \E r \in written : Sees(fp, state[r]) # {}
  PROVE  DropsAny(fp, CreatedPurge(q, state, written, taken, atStart, readable))
           \/ Reached(fp, atStart)
  <1> DEFINE own == Fingerprints(Snapshot(state, written, Absent))
  <1>1. CASE written = {}
    <2>1. Reached(fp, sink[q].declared)
      BY <1>1
    <2>2. CASE Declared(q) = atStart
      BY <2>1, <2>2 DEF Declared
    <2>3. CASE Declared(q) # atStart
      BY <1>1, <2>1, <2>3, DeclaredPurgeDrops DEF CreatedPurge
    <2> QED
      BY <2>2, <2>3
  <1>2. CASE written # {}
    <2>1. CreatedPurge(q, state, written, taken, atStart, readable) =
            IF taken \subseteq sink[q].keys /\ readable
            THEN <<SlicesPurge(own, Field, TRUE, Declared(q))>>
            ELSE <<WholePurge(TRUE, Declared(q))>>
      BY <1>2 DEF CreatedPurge, Narrowed
    <2>2. Drops(fp, WholePurge(TRUE, Declared(q)))
      BY WholePurgeDrops
    <2>3. Reached(fp, sink[q].declared) => Drops(fp, SlicesPurge(own, Field, TRUE, Declared(q)))
      BY DeclaredPinDrops DEF Declared
    <2>4. ASSUME NEW r \in written, Sees(fp, state[r]) # {}
          PROVE  Drops(fp, SlicesPurge(own, Field, TRUE, Declared(q)))
      <3> DEFINE s == Snapshot(state, written, Absent)
      <3>1. DOMAIN state = Row /\ IsTable(state, Absent)
        BY TablesAreTables
      <3>2. r \in DOMAIN s /\ MatchesRow(fp, RowFingerprint(s[r]))
        BY <2>4, <3>1, SnapshotMatchesAsItsRows DEF Sees
      <3>3. RowFingerprint(s[r]) \in own
        BY <3>2 DEF Fingerprints
      <3> HIDE DEF s, own
      <3> QED
        BY <3>2, <3>3, EveryFieldIsTouched, MatchedRowDrops
    <2> HIDE DEF own
    <2> QED
      BY <2>1, <2>2, <2>3, <2>4, OnePurgeDrops
  <1> QED
    BY <1>1, <1>2

LEMMA SuccessPurgeDrops ==
  ASSUME NEW q \in Request, call[q] \in CallStates, CallIsCoherent(q), NEW fp, IsRead(fp),
         NEW state \in Tables, NEW readable \in BOOLEAN,
         \/ Reached(fp, sink[q].declared)
         \/ Unbounded(call[q], sink[q].keys)
         \/ \E r \in call[q].direct \cup call[q].taken : ShowsChange(fp, call[q], r, state[r])
  PROVE  \/ DropsAny(fp, SuccessPurge(q, state, readable))
         \/ call[q].kind = "create" /\ Reached(fp, call[q].atStart)
  <1> DEFINE c == call[q]
             written == c.direct \cup c.taken
  <1>1. /\ written \in SUBSET Row /\ c.taken \in SUBSET written /\ c.before \in Snapshots
        /\ c.kind \in {"create", "update", "delete"}
    BY DEF CallStates, CallIsCoherent
  <1>2. CASE c.kind = "create"
    <2>1. SuccessPurge(q, state, readable)
            = CreatedPurge(q, state, written, c.taken, c.atStart, readable)
      BY <1>2 DEF SuccessPurge
    <2>2. \/ Reached(fp, sink[q].declared)
          \/ ~(c.taken \subseteq sink[q].keys)
          \/ \E r \in written : Sees(fp, state[r]) # {}
      BY <1>2 DEF Unbounded, ShowsChange
    <2> QED
      BY <1>1, <1>2, <2>1, <2>2, CreatedPurgeDrops
  <1>3. CASE c.kind # "create" /\ written = {}
    <2>1. SuccessPurge(q, state, readable) = DeclaredPurge(q)
      BY <1>3 DEF SuccessPurge
    <2>2. Reached(fp, sink[q].declared)
      BY <1>3 DEF Unbounded, CallIsCoherent
    <2> QED
      BY <2>1, <2>2, DeclaredPurgeDrops
  <1>4. CASE c.kind = "update" /\ written # {}
    <2>1. SuccessPurge(q, state, readable) = UpdatedPurge(q, state, written, readable)
      BY <1>4 DEF SuccessPurge
    <2>2. \/ Reached(fp, sink[q].declared)
          \/ c.undeclared
          \/ \E r \in written : Tells(fp, c.before, r, state[r])
      BY <1>4 DEF Unbounded, ShowsChange
    <2> QED
      BY <1>1, <2>1, <2>2, UpdatedPurgeDrops
  <1>5. CASE c.kind = "delete" /\ written # {}
    <2> DEFINE own == Fingerprints(c.before)
    <2>1. SuccessPurge(q, state, readable) = <<SlicesPurge(own, Field, TRUE, Declared(q))>>
      BY <1>5 DEF SuccessPurge
    <2>2. \/ Reached(fp, sink[q].declared)
          \/ \E r \in DOMAIN c.before : MatchesRow(fp, RowFingerprint(c.before[r]))
      BY <1>5 DEF Unbounded, ShowsChange
    <2>3. Reached(fp, sink[q].declared) => Drops(fp, SlicesPurge(own, Field, TRUE, Declared(q)))
      BY DeclaredPinDrops DEF Declared
    <2>4. ASSUME NEW r \in DOMAIN c.before, MatchesRow(fp, RowFingerprint(c.before[r]))
          PROVE  Drops(fp, SlicesPurge(own, Field, TRUE, Declared(q)))
      <3>1. RowFingerprint(c.before[r]) \in own
        BY DEF Fingerprints
      <3> HIDE DEF own
      <3> QED
        BY <2>4, <3>1, EveryFieldIsTouched, MatchedRowDrops
    <2> QED
      BY <2>1, <2>2, <2>3, <2>4, OnePurgeDrops
  <1> QED
    BY <1>1, <1>2, <1>3, <1>4, <1>5

LEMMA FailurePurgeDrops ==
  ASSUME NEW q \in Request, call[q] \in CallStates, CallIsCoherent(q), NEW fp, IsRead(fp),
         NEW state \in Tables, NEW readable \in BOOLEAN,
         \/ Reached(fp, sink[q].declared)
         \/ Unbounded(call[q], sink[q].keys)
         \/ /\ call[q].kind # "delete"
            /\ \E r \in (IF Shared(q) THEN call[q].direct ELSE {}) \cup call[q].taken :
                 ShowsChange(fp, call[q], r, state[r])
  PROVE  \/ DropsAny(fp, FailurePurge(q, state, readable))
         \/ call[q].kind = "create" /\ Reached(fp, call[q].atStart)
  <1> DEFINE c == call[q]
             wrote == IF c.outcome = "answered" /\ Shared(q) THEN c.direct \cup c.taken
                      ELSE c.taken
  <1>1. /\ wrote \in SUBSET Row /\ c.taken \in SUBSET Row /\ c.taken \in SUBSET wrote
        /\ c.before \in Snapshots /\ c.kind \in {"create", "update", "delete"}
    BY DEF CallStates, CallIsCoherent
  <1>2. (IF Shared(q) THEN c.direct ELSE {}) \cup c.taken = wrote
    BY DEF CallIsCoherent
  <1>3. CASE c.kind = "create" /\ Shared(q)
    <2>1. FailurePurge(q, state, readable) = <<WholePurge(TRUE, Declared(q))>>
      BY <1>3 DEF FailurePurge
    <2> QED
      BY <2>1, WholePurgeDrops, OnePurgeDrops
  <1>4. CASE c.kind = "create" /\ ~Shared(q)
    <2>1. FailurePurge(q, state, readable)
            = CreatedPurge(q, state, c.taken, c.taken, c.atStart, readable)
      BY <1>4 DEF FailurePurge
    <2>2. \/ Reached(fp, sink[q].declared)
          \/ ~(c.taken \subseteq sink[q].keys)
          \/ \E r \in c.taken : Sees(fp, state[r]) # {}
      BY <1>4 DEF Unbounded, ShowsChange
    <2>3. c.taken \in SUBSET Row /\ c.taken \in SUBSET c.taken
      BY <1>1
    <2> HIDE DEF c, wrote
    <2>4. DropsAny(fp, CreatedPurge(q, state, c.taken, c.taken, c.atStart, readable))
            \/ Reached(fp, c.atStart)
      BY <2>2, <2>3, CreatedPurgeDrops
    <2> QED
      BY <1>4, <2>1, <2>4 DEF c
  <1>5. CASE c.kind = "update"
    <2>1. \/ Reached(fp, sink[q].declared)
          \/ c.undeclared
          \/ \E r \in wrote : Tells(fp, c.before, r, state[r])
      BY <1>2, <1>5 DEF Unbounded, ShowsChange
    <2>2. DropsAny(fp, UpdatedPurge(q, state, wrote, readable))
      BY <1>1, <2>1, UpdatedPurgeDrops
    <2>3. CASE wrote # {} \/ (c.outcome = "answered" /\ Shared(q))
      <3>1. FailurePurge(q, state, readable) = UpdatedPurge(q, state, wrote, readable)
        BY <1>5, <2>3 DEF FailurePurge
      <3> QED
        BY <2>2, <3>1
    <2>4. CASE wrote = {} /\ ~(c.outcome = "answered" /\ Shared(q))
      <3>1. FailurePurge(q, state, readable) = DeclaredPurge(q)
        BY <1>5, <2>4 DEF FailurePurge
      <3>2. Reached(fp, sink[q].declared)
        BY <1>1, <2>1, <2>4 DEF CallIsCoherent
      <3> QED
        BY <3>1, <3>2, DeclaredPurgeDrops
    <2> QED
      BY <2>3, <2>4
  <1>6. CASE c.kind = "delete"
    <2>1. FailurePurge(q, state, readable) = DeclaredPurge(q)
      BY <1>6 DEF FailurePurge
    <2>2. Reached(fp, sink[q].declared)
      BY <1>6 DEF Unbounded
    <2> QED
      BY <2>1, <2>2, DeclaredPurgeDrops
  <1> QED
    BY <1>1, <1>3, <1>4, <1>5, <1>6

LEMMA HookWrittenPurgeDrops ==
  ASSUME NEW q, NEW fp, IsRead(fp), NEW taken,
         taken # {} \/ Reached(fp, sink[q].declared)
  PROVE  DropsAny(fp, HookWrittenPurge(q, taken))
  <1>1. CASE taken # {}
    BY <1>1, WholePurgeDrops, OnePurgeDrops DEF HookWrittenPurge
  <1>2. CASE taken = {}
    BY <1>2, DeclaredPurgeDrops DEF HookWrittenPurge
  <1> QED
    BY <1>1, <1>2

-----------------------------------------------------------------------------
(* Who owes the purge of a stale entry                                        *)
(*                                                                            *)
(* An entry goes stale by a write that lands: a commit, or a hook's by its    *)
(* own connection. Each request at work then holds something that makes it    *)
(* purge the read: what its hooks declared (PinsReach), a row taken over from *)
(* a slice nobody knows (Whole), a snapshot that shows one of its rows was or *)
(* is in the slice, or a purge held back or due. What it holds changes hands  *)
(* as the call is answered, settles, fails, and as its transaction ends.      *)

PinsReach(q) == Reached(read, sink[q].declared)

Whole(q) == Unbounded(call[q], sink[q].keys)

HeldDrops(q) == DropsAny(read, held[q])

DueDrops(q) == DropsAny(read, due[q].purges)

(* The purge of the call at work reaches the read whose answer an uncommitted *)
(* write of the transaction is about to change. *)
CallCovers(q, r) ==
  \/ PinsReach(q)
  \/ Whole(q)
  \/ /\ r \in call[q].direct \cup call[q].taken
     /\ ShowsChange(read, call[q], r, overlay[q][r])
     /\ call[q].kind = "delete" => overlay[q][r] = Absent

(* Uncommitted writes are owed by the call at work, or by purges held back. *)
OverlayIsOwed(q) ==
  \A r \in Row :
    overlay[q][r] # None /\ Sees(read, overlay[q][r]) # Sees(read, rows[r]) =>
      HeldDrops(q) \/ (phase[q] \in Working /\ CallCovers(q, r))

(* A row taken over that its hook wrote by its own connection *)
ShowsTaken(q) ==
  \E r \in call[q].taken : overlay[q][r] = None /\ ShowsChange(read, call[q], r, rows[r])

(* The call at work owes what a hook of its own wrote past the transaction. *)
OwnOwes(q) ==
  \/ call[q].own # None /\ PinsReach(q)
  \/ call[q].own = "taken" /\ (Whole(q) \/ ShowsTaken(q))

(* A roll back of rows written one by one purges what their hooks took over. *)
TakenDrops(q) ==
  \/ ~(sink[q].taken \subseteq sink[q].keys)
  \/ \E r \in sink[q].taken : Sees(read, rows[r]) # {}

ServiceOwes(q) ==
  \/ phase[q] \in {"open", "called"} /\ PinsReach(q)
  \/ phase[q] \in Working /\ (OwnOwes(q) \/ (call[q].kind # "update" /\ PinsReach(q)))
  \/ /\ phase[q] = "committed"
     /\ \/ PinsReach(q)
        \/ Whole(q)
        \/ \E r \in call[q].direct \cup call[q].taken : ShowsChange(read, call[q], r, rows[r])
  \/ phase[q] = "purging" /\ DueDrops(q)

CallerOwes(q) ==
  \/ phase[q] \in {"open", "called"} \cup Working /\ landed[q] # {} /\ HeldDrops(q)
  \/ phase[q] \in Working /\ OwnOwes(q)
  \/ /\ phase[q] = "purging"
     /\ DueDrops(q) \/ (due[q].next = "open" /\ landed[q] # {} /\ HeldDrops(q))

RowsOwe(q) ==
  \/ /\ phase[q] \in {"open", "called"} \cup Working
     /\ PinsReach(q) \/ ("taken" \in landed[q] /\ HeldDrops(q) /\ TakenDrops(q))
  \/ phase[q] \in {"answered", "written"} /\ OwnOwes(q) /\ TakenDrops(q)
  \/ phase[q] = "failed" /\ call[q].own = "taken"
  \/ /\ phase[q] = "purging"
     /\ DueDrops(q) \/ (due[q].next = "rollback" /\ (PinsReach(q) \/ TakenDrops(q)))
  \/ phase[q] = "rollback" /\ (PinsReach(q) \/ TakenDrops(q))

Owes(q) ==
  \/ Opener(q) = "service" /\ ServiceOwes(q)
  \/ Opener(q) = "caller" /\ CallerOwes(q)
  \/ Opener(q) = "rows" /\ RowsOwe(q)

(* Rows written one by one count what their hooks declared as purged by the   *)
(* call that declared it: it is held back when the next one begins.           *)
PinsAreHeld(q) ==
  Opener(q) = "rows" =>
    /\ phase[q] = "open" /\ PinsReach(q) =>
         \/ HeldDrops(q)
         \/ calls[q] = 0 /\ Calls(q) # << >> /\ Calls(q)[1].kind # "create"
    /\ phase[q] \in {"called"} \cup Working /\ call[q].kind = "create"
         /\ Reached(read, call[q].atStart) => HeldDrops(q)

(* No row has uncommitted writes of two transactions. *)
RowsAreLocked ==
  \A p, q \in Request, r \in Row : p # q => overlay[p][r] = None \/ overlay[q][r] = None

StaleIsOwed == Stale => \E q \in Request : Owes(q)

OwedInv ==
  /\ RowsAreLocked
  /\ gaps = {} => StaleIsOwed /\ \A q \in Request : OverlayIsOwed(q) /\ PinsAreHeld(q)

(* What a request holds stays. *)
Stands(p) ==
  /\ phase'[p] = phase[p] /\ calls'[p] = calls[p] /\ call'[p] = call[p]
  /\ overlay'[p] = overlay[p] /\ sink'[p] = sink[p] /\ held'[p] = held[p]
  /\ due'[p] = due[p] /\ landed'[p] = landed[p]

SameSight == \A r \in Row : Sees(read, rows'[r]) = Sees(read, rows[r])

LEMMA ShowsBySight ==
  ASSUME NEW fp, NEW c, NEW r, NEW old, NEW new, Sees(fp, old) = Sees(fp, new)
  PROVE  ShowsChange(fp, c, r, old) <=> ShowsChange(fp, c, r, new)
  BY DEF ShowsChange, Tells

LEMMA OthersStillOwe ==
  ASSUME Types, NEW p \in Request, Stands(p), read' = read, plan' = plan, SameSight, Owes(p)
  PROVE  Owes(p)'
  <1>1. /\ PinsReach(p)' = PinsReach(p) /\ Whole(p)' = Whole(p)
        /\ HeldDrops(p)' = HeldDrops(p) /\ DueDrops(p)' = DueDrops(p)
    BY DEF PinsReach, Whole, HeldDrops, DueDrops, Stands
  <1>2. call[p].taken \subseteq Row /\ call[p].direct \subseteq Row /\ sink[p].taken \subseteq Row
    BY DEF Types, CallStates, Sinks
  <1>3. \A r \in Row : ShowsChange(read, call[p], r, rows'[r])
                         <=> ShowsChange(read, call[p], r, rows[r])
    BY ShowsBySight DEF SameSight
  <1>4. ShowsTaken(p)' <=> ShowsTaken(p)
    BY <1>2, <1>3 DEF ShowsTaken, Stands
  <1>5. OwnOwes(p)' <=> OwnOwes(p)
    BY <1>1, <1>4 DEF OwnOwes, Stands
  <1>6. TakenDrops(p)' <=> TakenDrops(p)
    BY <1>2 DEF TakenDrops, Stands, SameSight
  <1>7. ServiceOwes(p) => ServiceOwes(p)'
    BY <1>1, <1>2, <1>3, <1>5 DEF ServiceOwes, Stands
  <1>8. CallerOwes(p) => CallerOwes(p)'
    BY <1>1, <1>5 DEF CallerOwes, Stands
  <1>9. RowsOwe(p) => RowsOwe(p)'
    BY <1>1, <1>5, <1>6 DEF RowsOwe, Stands
  <1> QED
    BY <1>7, <1>8, <1>9 DEF Owes, Opener

LEMMA OthersStayOwed ==
  ASSUME NEW p \in Request, Stands(p), read' = read, plan' = plan,
         \A r \in Row : rows'[r] = rows[r] \/ overlay[p][r] = None,
         OverlayIsOwed(p), PinsAreHeld(p)
  PROVE  OverlayIsOwed(p)' /\ PinsAreHeld(p)'
  <1>1. /\ PinsReach(p)' = PinsReach(p) /\ Whole(p)' = Whole(p)
        /\ HeldDrops(p)' = HeldDrops(p)
    BY DEF PinsReach, Whole, HeldDrops, Stands
  <1>2. \A r \in Row : CallCovers(p, r) => CallCovers(p, r)'
    BY <1>1 DEF CallCovers, Stands
  <1>3. OverlayIsOwed(p)'
    BY <1>1, <1>2 DEF OverlayIsOwed, Stands
  <1>4. PinsAreHeld(p)'
    BY <1>1 DEF PinsAreHeld, Stands, Opener, Calls
  <1> QED
    BY <1>3, <1>4

(* What the step of one request must show *)
LEMMA StepOfOne ==
  ASSUME TypeInv, TypeInv', OwedInv, NEW q \in Request, read' = read, plan' = plan,
         \A p \in Request \ {q} : Stands(p),
         gaps' = {} => gaps = {},
         \A r \in Row : overlay'[q][r] \in {overlay[q][r], None} \/ Unlocked(q, r),
         \A r \in Row : rows'[r] = rows[r] \/ Unlocked(q, r),
         gaps' = {} => OverlayIsOwed(q)' /\ PinsAreHeld(q)',
         gaps' = {} => \/ entry' = None
                       \/ entry' = entry /\ ((~SameSight \/ Owes(q)) => Owes(q)')
  PROVE  OwedInv'
  <1>1. RowsAreLocked'
    BY DEF OwedInv, RowsAreLocked, Stands, Unlocked
  <1>2. ASSUME gaps' = {}, NEW p \in Request
        PROVE  OverlayIsOwed(p)' /\ PinsAreHeld(p)'
    <2>1. CASE p = q
      BY <1>2, <2>1
    <2>2. CASE p # q
      <3>1. \A r \in Row : rows'[r] = rows[r] \/ overlay[p][r] = None
        BY <2>2 DEF Unlocked
      <3>2. OverlayIsOwed(p) /\ PinsAreHeld(p)
        BY <1>2 DEF OwedInv
      <3> QED
        BY <2>2, <3>1, <3>2, OthersStayOwed
    <2> QED
      BY <2>1, <2>2
  <1>3. ASSUME gaps' = {}, Stale'
        PROVE  \E p \in Request : Owes(p)'
    <2>1. entry' # None /\ entry' # Answer(rows)' /\ entry' = entry
      BY <1>3 DEF Stale
    <2>2. CASE ~SameSight
      BY <1>3, <2>1, <2>2
    <2>3. CASE SameSight
      <3>1. rows \in Tables /\ rows' \in Tables
        BY DEF TypeInv, Types
      <3>2. Answer(rows)' = Answer(rows)
        BY <2>3, <3>1, SameSightSameAnswer DEF Answer, SameSight
      <3>3. Stale
        BY <2>1, <3>2 DEF Stale
      <3>4. PICK p \in Request : Owes(p)
        BY <1>3, <3>3 DEF OwedInv, StaleIsOwed
      <3>5. CASE p = q
        BY <1>3, <2>1, <3>4, <3>5
      <3>6. CASE p # q
        BY <2>3, <3>4, <3>6, OthersStillOwe DEF TypeInv
      <3> QED
        BY <3>5, <3>6
    <2> QED
      BY <2>2, <2>3
  <1> QED
    BY <1>1, <1>2, <1>3 DEF OwedInv, StaleIsOwed

(* A step that moves no row and leaves the entry *)
LEMMA StepOffTheRows ==
  ASSUME TypeInv, TypeInv', OwedInv, NEW q \in Request,
         UNCHANGED <<rows, read, entry, plan>>,
         \A p \in Request \ {q} : Stands(p),
         gaps' = {} => gaps = {},
         overlay'[q] \in {overlay[q], NoWrites},
         gaps' = {} => OverlayIsOwed(q)' /\ PinsAreHeld(q)',
         gaps' = {} /\ Owes(q) => Owes(q)'
  PROVE  OwedInv'
  <1>1. SameSight
    BY DEF SameSight
  <1>2. \A r \in Row : overlay'[q][r] \in {overlay[q][r], None}
    BY DEF NoWrites
  <1> QED
    BY <1>1, <1>2, StepOfOne

(* Where a transaction left no write, none is owed. *)
LEMMA NoWritesAreOwed ==
  ASSUME NEW q, overlay[q] = NoWrites
  PROVE  OverlayIsOwed(q)
  BY DEF OverlayIsOwed, NoWrites

LEMMA BeginKeepsOwed ==
  ASSUME TypeInv, TypeInv', OwedInv, NEW q \in Request, Begin(q)
  PROVE  OwedInv'
  <1>1. /\ Types /\ PhaseIsCoherent(q) /\ phase[q] = "open"
        /\ call' = [call EXCEPT ![q] = Started(q, Calls(q)[calls[q] + 1], Visible(q))]
        /\ calls' = [calls EXCEPT ![q] = @ + 1]
        /\ sink' = IF Opener(q) = "caller" THEN [sink EXCEPT ![q] = NoDeclarations] ELSE sink
        /\ phase' = [phase EXCEPT ![q] = "called"]
        /\ UNCHANGED <<rows, entry, filed, read, plan, attempt, overlay, dirty, held, due,
                       landed, gaps>>
    BY DEF TypeInv, Begin, store
  <1>2. PICK c \in CallInputs : c = Calls(q)[calls[q] + 1]
    BY <1>1, PlansAreTyped DEF Begin, Types
  <1>3. sink[q] \in Sinks /\ Visible(q) \in Tables
    BY <1>1, VisibleIsATable DEF Types
  <1>4. /\ call'[q].kind = c.kind
        /\ call'[q].atStart = IF Opener(q) = "rows" THEN Declared(q) ELSE {}
    <2>1. Started(q, c, Visible(q)) =
            [kind |-> c.kind, row |-> c.row, set |-> c.set,
             before |-> IF c.kind = "update" THEN Snapshot(Visible(q), {c.row}, Absent) ELSE << >>,
             direct |-> {}, taken |-> {}, undeclared |-> FALSE,
             atStart |-> IF Opener(q) = "rows" THEN Declared(q) ELSE {}, own |-> None,
             outcome |-> "none"]
      BY <1>3, StartsAreTyped
    <2>2. call'[q] = Started(q, c, Visible(q))
      BY <1>1, <1>2 DEF Types
    <2> QED
      BY <2>1, <2>2
  <1>5. \A p \in Request \ {q} : Stands(p)
    BY <1>1 DEF Stands, Types
  <1>6. /\ phase'[q] = "called" /\ Opener(q)' = Opener(q) /\ Calls(q)' = Calls(q)
        /\ Opener(q) # "caller" => sink'[q] = sink[q]
    BY <1>1 DEF Types, Opener, Calls
  <1>7. /\ HeldDrops(q)' = HeldDrops(q) /\ DueDrops(q)' = DueDrops(q)
        /\ Opener(q) # "caller" => PinsReach(q)' = PinsReach(q)
    BY <1>1, <1>6 DEF HeldDrops, DueDrops, PinsReach
  <1>8. ASSUME gaps = {}
        PROVE  OverlayIsOwed(q)' /\ PinsAreHeld(q)'
    <2>1. OverlayIsOwed(q) /\ PinsAreHeld(q)
      BY <1>8 DEF OwedInv
    <2>2. OverlayIsOwed(q)'
      BY <1>1, <1>7, <2>1 DEF OverlayIsOwed, Working
    <2>3. PinsAreHeld(q)'
      <3>1. SUFFICES ASSUME Opener(q) = "rows", c.kind = "create", Reached(read, Declared(q))
                     PROVE  HeldDrops(q)
        BY <1>1, <1>4, <1>6, <1>7 DEF PinsAreHeld, Working
      <3>2. PinsReach(q)
        BY <3>1 DEF PinsReach, Declared
      <3>3. ~(calls[q] = 0 /\ Calls(q)[1].kind # "create")
        BY <1>2, <3>1
      <3> QED
        BY <1>1, <2>1, <3>1, <3>2, <3>3 DEF PinsAreHeld
    <2> QED
      BY <2>2, <2>3
  <1>9. Owes(q) => Owes(q)'
    <2>1. Opener(q) = "service" => (ServiceOwes(q) => ServiceOwes(q)')
      BY <1>1, <1>6, <1>7 DEF ServiceOwes, Working
    <2>2. CallerOwes(q) => CallerOwes(q)'
      BY <1>1, <1>6, <1>7 DEF CallerOwes, Working
    <2>3. TakenDrops(q)' = TakenDrops(q) \/ Opener(q) = "caller"
      BY <1>1 DEF TakenDrops
    <2>4. Opener(q) = "rows" => (RowsOwe(q) => RowsOwe(q)')
      BY <1>1, <1>6, <1>7, <2>3 DEF RowsOwe, Working
    <2> QED
      BY <1>6, <2>1, <2>2, <2>4 DEF Owes
  <1> QED
    BY <1>1, <1>5, <1>8, <1>9, StepOffTheRows

(* Answered calls hold what their handler held. *)
LEMMA QuietHookKeepsOwed ==
  ASSUME TypeInv, TypeInv', OwedInv, NEW q \in Request, QuietHook(q)
  PROVE  OwedInv'
  <1>1. /\ Types /\ PhaseIsCoherent(q) /\ CallIsCoherent(q) /\ phase[q] = "called"
        /\ UNCHANGED <<rows, entry, filed, read, plan, calls, attempt, overlay, dirty, sink,
                       held, due, landed, gaps>>
    BY DEF TypeInv, QuietHook, store, PhaseIsCoherent
  <1>2. PICK outcome \in {"answered", "cancelled", "thrown"}, direct \in SUBSET Row :
          /\ call' = [call EXCEPT ![q] = Answered(call[q], Visible(q), direct, {}, outcome)]
          /\ phase' = [phase EXCEPT ![q] = PhaseAfter(outcome)]
    <2>1. PICK outcome \in {"answered", "cancelled", "thrown"}, added \in SUBSET Row :
            /\ call' = [call EXCEPT ![q] =
                 Answered(call[q], Visible(q),
                          IF outcome = "answered" THEN {call[q].row} \cup added ELSE {}, {},
                          outcome)]
            /\ phase' = [phase EXCEPT ![q] = PhaseAfter(outcome)]
      BY DEF QuietHook
    <2>2. (IF outcome = "answered" THEN {call[q].row} \cup added ELSE {}) \in SUBSET Row
      BY <1>1 DEF CallIsCoherent
    <2> QED
      BY <2>1, <2>2
  <1>3. /\ call'[q].kind = call[q].kind /\ call'[q].atStart = call[q].atStart
        /\ phase'[q] \in Working
    <2>1. Answered(call[q], Visible(q), direct, {}, outcome) =
              [kind |-> call[q].kind, row |-> call[q].row, set |-> call[q].set,
               before |-> BeforeOf(call[q], Visible(q), direct, {}, outcome), direct |-> direct,
               taken |-> {}, undeclared |-> call[q].undeclared, atStart |-> call[q].atStart,
               own |-> call[q].own, outcome |-> outcome]
      <3>1. /\ call[q] \in CallStates /\ call[q].row \in Row /\ Visible(q) \in Tables
            /\ {} \in SUBSET Row
            /\ outcome \in {"answered", "refused", "cancelled", "thrown"}
        BY <1>1, VisibleIsATable DEF Types, CallIsCoherent
      <3> QED
        BY <3>1, AnswersAreTyped
    <2>2. call'[q] = Answered(call[q], Visible(q), direct, {}, outcome)
      BY <1>1, <1>2 DEF Types
    <2>3. phase'[q] = PhaseAfter(outcome) /\ PhaseAfter(outcome) \in Working
      BY <1>1, <1>2 DEF Types, PhaseAfter, Working
    <2> QED
      BY <2>1, <2>2, <2>3
  <1>4. \A p \in Request \ {q} : Stands(p)
    BY <1>1, <1>2 DEF Stands, Types
  <1>5. /\ HeldDrops(q)' = HeldDrops(q) /\ PinsReach(q)' = PinsReach(q)
        /\ TakenDrops(q)' = TakenDrops(q) /\ Opener(q)' = Opener(q)
    BY <1>1 DEF HeldDrops, PinsReach, TakenDrops, Opener
  <1>6. ASSUME gaps = {}
        PROVE  OverlayIsOwed(q)' /\ PinsAreHeld(q)'
    <2>1. OverlayIsOwed(q) /\ PinsAreHeld(q)
      BY <1>6 DEF OwedInv
    <2>2. OverlayIsOwed(q)'
      BY <1>1, <1>5, <2>1 DEF OverlayIsOwed, Working
    <2>3. PinsAreHeld(q)'
      BY <1>1, <1>3, <1>5, <2>1 DEF PinsAreHeld, Working
    <2> QED
      BY <2>2, <2>3
  <1>7. Owes(q) => Owes(q)'
    <2>1. Opener(q) = "service" /\ call[q].kind = "update" => ~PinsReach(q)
      BY <1>1 DEF PhaseIsCoherent, Shared, NoDeclarations, PinsReach, Reached
    <2>2. Opener(q) = "service" => (ServiceOwes(q) => ServiceOwes(q)')
      BY <1>1, <1>3, <1>5, <2>1 DEF ServiceOwes, Working
    <2>3. CallerOwes(q) => CallerOwes(q)'
      BY <1>1, <1>3, <1>5 DEF CallerOwes, Working
    <2>4. RowsOwe(q) => RowsOwe(q)'
      BY <1>1, <1>3, <1>5 DEF RowsOwe, Working
    <2> QED
      BY <1>5, <2>2, <2>3, <2>4 DEF Owes
  <1> QED
    BY <1>1, <1>4, <1>6, <1>7, StepOffTheRows

LEMMA FailKeepsOwed ==
  ASSUME TypeInv, TypeInv', OwedInv, NEW q \in Request, Fail(q)
  PROVE  OwedInv'
  <1>1. /\ Types /\ phase[q] \in {"answered", "written"}
        /\ phase' = [phase EXCEPT ![q] = "failed"]
        /\ UNCHANGED <<rows, entry, filed, read, plan, calls, call, attempt, overlay, dirty,
                       sink, held, due, landed, gaps>>
    BY DEF TypeInv, Fail, store
  <1>2. phase'[q] = "failed" /\ \A p \in Request \ {q} : Stands(p)
    BY <1>1 DEF Stands, Types
  <1>3. /\ HeldDrops(q)' = HeldDrops(q) /\ PinsReach(q)' = PinsReach(q)
        /\ TakenDrops(q)' = TakenDrops(q) /\ OwnOwes(q)' = OwnOwes(q)
        /\ Opener(q)' = Opener(q)
        /\ \A r \in Row : CallCovers(q, r)' = CallCovers(q, r)
    BY <1>1 DEF HeldDrops, PinsReach, TakenDrops, OwnOwes, ShowsTaken, Whole, CallCovers, Opener
  <1>4. ASSUME gaps = {}
        PROVE  OverlayIsOwed(q)' /\ PinsAreHeld(q)'
    <2>1. OverlayIsOwed(q) /\ PinsAreHeld(q)
      BY <1>4 DEF OwedInv
    <2>2. OverlayIsOwed(q)'
      BY <1>1, <1>2, <1>3, <2>1 DEF OverlayIsOwed, Working
    <2>3. PinsAreHeld(q)'
      BY <1>1, <1>2, <1>3, <2>1 DEF PinsAreHeld, Working
    <2> QED
      BY <2>2, <2>3
  <1>5. Owes(q) => Owes(q)'
    <2>1. ServiceOwes(q) => ServiceOwes(q)'
      BY <1>1, <1>2, <1>3 DEF ServiceOwes, Working
    <2>2. CallerOwes(q) => CallerOwes(q)'
      BY <1>1, <1>2, <1>3 DEF CallerOwes, Working
    <2>3. OwnOwes(q) => PinsReach(q) \/ call[q].own = "taken"
      BY DEF OwnOwes
    <2>4. RowsOwe(q) => RowsOwe(q)'
      BY <1>1, <1>2, <1>3, <2>3 DEF RowsOwe, Working
    <2> QED
      BY <1>3, <2>1, <2>2, <2>4 DEF Owes
  <1> QED
    BY <1>1, <1>2, <1>4, <1>5, StepOffTheRows

(* A commit moves the rows its transaction wrote, and no other request's. *)
LEMMA CommitsUnlocked ==
  ASSUME Types, OwedInv, NEW q \in Request, CommitWrites(q)
  PROVE  /\ \A r \in Row : rows'[r] = IF overlay[q][r] # None THEN overlay[q][r] ELSE rows[r]
         /\ \A r \in Row : rows'[r] = rows[r] \/ Unlocked(q, r)
  <1>1. \A r \in Row : rows'[r] = IF overlay[q][r] # None THEN overlay[q][r] ELSE rows[r]
    BY DEF CommitWrites, Visible
  <1>2. \A r \in Row : overlay[q][r] # None => Unlocked(q, r)
    BY DEF OwedInv, RowsAreLocked, Unlocked
  <1> QED
    BY <1>1, <1>2

LEMMA CommitKeepsOwed ==
  ASSUME TypeInv, TypeInv', OwedInv, NEW q \in Request, Commit(q)
  PROVE  OwedInv'
  <1>1. /\ Types /\ PhaseIsCoherent(q) /\ CallIsCoherent(q) /\ phase[q] = "written"
        /\ ~Shared(q) /\ CommitWrites(q)
        /\ overlay' = [overlay EXCEPT ![q] = NoWrites]
        /\ phase' = [phase EXCEPT ![q] = "committed"]
        /\ UNCHANGED <<entry, filed, read, plan, calls, call, attempt, sink, held, due,
                       landed, gaps>>
    BY DEF TypeInv, Commit, CommitWrites, PhaseIsCoherent, Working
  <1>2. /\ \A r \in Row : rows'[r] = IF overlay[q][r] # None THEN overlay[q][r] ELSE rows[r]
        /\ \A r \in Row : rows'[r] = rows[r] \/ Unlocked(q, r)
    BY <1>1, CommitsUnlocked
  <1>3. /\ phase'[q] = "committed" /\ \A p \in Request \ {q} : Stands(p)
        /\ overlay'[q] = NoWrites /\ Opener(q)' = "service" /\ Opener(q) = "service"
    BY <1>1 DEF Stands, Types, Opener, Shared
  <1>4. PinsReach(q)' = PinsReach(q) /\ Whole(q)' = Whole(q)
    BY <1>1 DEF PinsReach, Whole
  <1>5. OverlayIsOwed(q)' /\ PinsAreHeld(q)'
    BY <1>3, NoWritesAreOwed DEF OverlayIsOwed, NoWrites, PinsAreHeld
  <1>6. ASSUME NEW r \in Row, r \in call[q].direct \cup call[q].taken,
               ShowsChange(read, call[q], r, rows'[r])
        PROVE  Owes(q)'
    BY <1>1, <1>3, <1>6 DEF Owes, ServiceOwes
  <1>7. PinsReach(q) \/ Whole(q) => Owes(q)'
    BY <1>3, <1>4 DEF Owes, ServiceOwes
  <1>8. ASSUME gaps = {}, ~SameSight
        PROVE  Owes(q)'
    <2>1. PICK r \in Row : Sees(read, rows'[r]) # Sees(read, rows[r])
      BY <1>8 DEF SameSight
    <2>2. overlay[q][r] # None /\ rows'[r] = overlay[q][r]
      BY <1>2, <2>1
    <2>3. held[q] = << >>
      BY <1>1 DEF PhaseIsCoherent
    <2>4. ~HeldDrops(q)
      BY <2>3 DEF HeldDrops, DropsAny
    <2>5. CallCovers(q, r)
      BY <1>8, <2>1, <2>2, <2>4 DEF OwedInv, OverlayIsOwed
    <2> QED
      BY <1>6, <1>7, <2>2, <2>5 DEF CallCovers
  <1>9. ASSUME Owes(q)
        PROVE  Owes(q)'
    <2>1. OwnOwes(q) \/ PinsReach(q)
      BY <1>1, <1>3, <1>9 DEF Owes, ServiceOwes
    <2>2. ASSUME ShowsTaken(q)
          PROVE  Owes(q)'
      <3>1. PICK r \in call[q].taken :
              overlay[q][r] = None /\ ShowsChange(read, call[q], r, rows[r])
        BY <2>2 DEF ShowsTaken
      <3>2. r \in Row
        BY <1>1 DEF Types, CallStates
      <3> QED
        BY <1>2, <1>6, <3>1, <3>2
    <2> QED
      BY <1>7, <2>1, <2>2 DEF OwnOwes
  <1>10. \A r \in Row : overlay'[q][r] \in {overlay[q][r], None} \/ Unlocked(q, r)
    BY <1>3 DEF NoWrites
  <1> QED
    BY <1>1, <1>2, <1>3, <1>5, <1>8, <1>9, <1>10, StepOfOne

LEMMA PurgeCommittedKeepsOwed ==
  ASSUME TypeInv, TypeInv', OwedInv, NEW q \in Request, PurgeCommitted(q)
  PROVE  OwedInv'
  <1>1. /\ Types /\ PhaseIsCoherent(q) /\ CallIsCoherent(q) /\ phase[q] = "committed"
        /\ UNCHANGED <<rows, entry, filed, read, plan, calls, call, attempt, overlay, dirty,
                       sink, held, landed, gaps>>
    BY DEF TypeInv, PurgeCommitted, store, PhaseIsCoherent
  <1>2. PICK readable \in BOOLEAN : Owe(q, SuccessPurge(q, rows, readable), "over")
    BY DEF PurgeCommitted
  <1>3. /\ due' = [due EXCEPT ![q] = [purges |-> SuccessPurge(q, rows, readable),
                                      next |-> "over"]]
        /\ phase' = [phase EXCEPT ![q] = "purging"]
    BY <1>2 DEF Owe
  <1>4. /\ phase'[q] = "purging" /\ due'[q].purges = SuccessPurge(q, rows, readable)
        /\ \A p \in Request \ {q} : Stands(p)
        /\ overlay[q] = NoWrites /\ overlay'[q] = NoWrites
        /\ Opener(q) = "service" /\ Opener(q)' = "service"
    BY <1>1, <1>3 DEF Stands, Types, Opener, Shared, PhaseIsCoherent
  <1>5. OverlayIsOwed(q)' /\ PinsAreHeld(q)'
    BY <1>4 DEF OverlayIsOwed, NoWrites, PinsAreHeld
  <1>6. ASSUME Owes(q)
        PROVE  Owes(q)'
    <2>1. \/ Reached(read, sink[q].declared)
          \/ Unbounded(call[q], sink[q].keys)
          \/ \E r \in call[q].direct \cup call[q].taken : ShowsChange(read, call[q], r, rows[r])
      BY <1>1, <1>4, <1>6 DEF Owes, ServiceOwes, PinsReach, Whole, Working
    <2>2. call[q] \in CallStates /\ IsRead(read) /\ rows \in Tables
      BY <1>1, ReadsAreReads DEF Types
    <2>3. \/ DropsAny(read, SuccessPurge(q, rows, readable))
          \/ call[q].kind = "create" /\ Reached(read, call[q].atStart)
      BY <1>1, <2>1, <2>2, SuccessPurgeDrops
    <2>4. call[q].atStart = {}
      BY <1>1, <1>4 DEF CallIsCoherent
    <2>5. DropsAny(read, due'[q].purges)
      BY <1>4, <2>3, <2>4 DEF Reached
    <2> QED
      BY <1>1, <1>4, <2>5 DEF Owes, ServiceOwes, DueDrops
  <1> QED
    BY <1>1, <1>4, <1>5, <1>6, StepOffTheRows

LEMMA CatchKeepsOwed ==
  ASSUME TypeInv, TypeInv', OwedInv, NEW q \in Request, Catch(q)
  PROVE  OwedInv'
  <1>1. /\ Types /\ PhaseIsCoherent(q) /\ CallIsCoherent(q) /\ phase[q] = "failed" /\ ~Shared(q)
        /\ overlay' = [overlay EXCEPT ![q] = NoWrites]
        /\ UNCHANGED <<rows, entry, filed, read, plan, calls, call, attempt, sink, held,
                       landed, gaps>>
    BY DEF TypeInv, Catch, store, PhaseIsCoherent, Working
  <1>2. PICK readable \in BOOLEAN : Owe(q, FailurePurge(q, rows, readable), "over")
    BY DEF Catch
  <1>3. /\ due' = [due EXCEPT ![q] = [purges |-> FailurePurge(q, rows, readable),
                                      next |-> "over"]]
        /\ phase' = [phase EXCEPT ![q] = "purging"]
    BY <1>2 DEF Owe
  <1>4. /\ phase'[q] = "purging" /\ due'[q].purges = FailurePurge(q, rows, readable)
        /\ \A p \in Request \ {q} : Stands(p)
        /\ overlay'[q] = NoWrites
        /\ Opener(q) = "service" /\ Opener(q)' = "service"
    BY <1>1, <1>3 DEF Stands, Types, Opener, Shared
  <1>5. OverlayIsOwed(q)' /\ PinsAreHeld(q)'
    BY <1>4 DEF OverlayIsOwed, NoWrites, PinsAreHeld
  <1>6. ASSUME Owes(q)
        PROVE  Owes(q)'
    <2>1. OwnOwes(q) \/ PinsReach(q)
      BY <1>1, <1>4, <1>6 DEF Owes, ServiceOwes, Working
    <2>2. \/ Reached(read, sink[q].declared)
          \/ Unbounded(call[q], sink[q].keys)
          \/ /\ call[q].kind # "delete"
             /\ \E r \in (IF Shared(q) THEN call[q].direct ELSE {}) \cup call[q].taken :
                  ShowsChange(read, call[q], r, rows[r])
      BY <1>1, <2>1 DEF OwnOwes, ShowsTaken, PinsReach, Whole, CallIsCoherent
    <2>3. call[q] \in CallStates /\ IsRead(read) /\ rows \in Tables
      BY <1>1, ReadsAreReads DEF Types
    <2>4. \/ DropsAny(read, FailurePurge(q, rows, readable))
          \/ call[q].kind = "create" /\ Reached(read, call[q].atStart)
      BY <1>1, <2>2, <2>3, FailurePurgeDrops
    <2>5. call[q].atStart = {}
      BY <1>1, <1>4 DEF CallIsCoherent
    <2>6. DropsAny(read, due'[q].purges)
      BY <1>4, <2>4, <2>5 DEF Reached
    <2> QED
      BY <1>1, <1>4, <2>6 DEF Owes, ServiceOwes, DueDrops
  <1> QED
    BY <1>1, <1>4, <1>5, <1>6, StepOffTheRows

(* What a restarted attempt would no longer purge is among the known gaps. *)
LEMMA RetryKeepsOwed ==
  ASSUME TypeInv, TypeInv', OwedInv, NEW q \in Request, Retry(q)
  PROVE  OwedInv'
  <1> DEFINE replaced == Opener(q) = "service" /\ call[q].kind = "update"
             counted == Opener(q) = "rows" /\ \E i \in 1..calls[q] : Calls(q)[i].kind = "create"
             reports == landed[q] \cup {call[q].own}
  <1>1. /\ Types /\ PhaseIsCoherent(q) /\ Opener(q) # "caller"
        /\ phase[q] \in {"answered", "written"} \/ (phase[q] = "open" /\ calls[q] > 0)
        /\ overlay' = [overlay EXCEPT ![q] = NoWrites]
        /\ calls' = [calls EXCEPT ![q] = 0] /\ call' = [call EXCEPT ![q] = NoCall]
        /\ held' = [held EXCEPT ![q] = << >>] /\ landed' = [landed EXCEPT ![q] = {}]
        /\ phase' = [phase EXCEPT ![q] = "open"]
        /\ sink' = IF replaced THEN [sink EXCEPT ![q] = NoDeclarations] ELSE sink
        /\ UNCHANGED <<rows, entry, filed, read, plan, due>>
    BY DEF TypeInv, Retry, store
  <1>2. gaps' = IF \/ "taken" \in reports \/ (replaced /\ "declared" \in reports)
                   \/ counted /\ Declared(q) # {}
                THEN gaps \cup {"retried"} ELSE gaps
    BY DEF Retry
  <1>3. ASSUME gaps' = {}
        PROVE  /\ gaps = {} /\ call[q].own # "taken" /\ "taken" \notin landed[q]
               /\ replaced => call[q].own # "declared"
               /\ counted => Declared(q) = {}
    BY <1>2, <1>3
  <1> HIDE DEF counted, reports
  <1>4. /\ phase'[q] = "open" /\ calls'[q] = 0 /\ overlay'[q] = NoWrites
        /\ \A p \in Request \ {q} : Stands(p)
        /\ ~replaced => sink'[q] = sink[q]
        /\ replaced => sink'[q] = NoDeclarations
        /\ Opener(q)' = Opener(q) /\ Calls(q)' = Calls(q)
    BY <1>1 DEF Stands, Types, Opener, Calls
  <1>5. ~replaced => PinsReach(q)' = PinsReach(q)
    BY <1>1, <1>4 DEF PinsReach
  <1>6. calls[q] \in 1..Len(Calls(q)) /\ Len(Calls(q)) \in Nat
    BY <1>1, PlansAreTyped DEF PhaseIsCoherent, CallIsCoherent, Working, Types
  <1>7. ASSUME gaps' = {}
        PROVE  OverlayIsOwed(q)' /\ PinsAreHeld(q)'
    <2>1. OverlayIsOwed(q)'
      BY <1>4 DEF OverlayIsOwed, NoWrites
    <2>2. ASSUME Opener(q) = "rows", PinsReach(q)'
          PROVE  Calls(q) # << >> /\ Calls(q)[1].kind # "create"
      <3>1. PinsReach(q) /\ Declared(q) # {}
        BY <1>5, <2>2 DEF PinsReach, Reached, Declared
      <3>2. ~counted
        BY <1>3, <1>7, <3>1
      <3> QED
        BY <1>6, <2>2, <3>2 DEF counted
    <2>3. PinsAreHeld(q)'
      BY <1>4, <2>2 DEF PinsAreHeld, Working
    <2> QED
      BY <2>1, <2>3
  <1>8. ASSUME gaps' = {}, Owes(q)
        PROVE  Owes(q)'
    <2>1. OwnOwes(q) => call[q].own = "declared" /\ PinsReach(q)
      BY <1>1, <1>3, <1>8 DEF OwnOwes, Types, CallStates
    <2>2. CASE Opener(q) = "service"
      <3>1. phase[q] \in {"answered", "written"}
        BY <1>1, <1>6, <2>2 DEF PhaseIsCoherent, Shared
      <3>2. PinsReach(q) /\ ~replaced
        BY <1>3, <1>8, <2>1, <2>2, <3>1 DEF Owes, ServiceOwes
      <3> QED
        BY <1>4, <1>5, <2>2, <3>2 DEF Owes, ServiceOwes
    <2>3. CASE Opener(q) = "rows"
      <3>1. PinsReach(q)
        BY <1>1, <1>3, <1>8, <2>1, <2>3 DEF Owes, RowsOwe
      <3> QED
        BY <1>4, <1>5, <2>3, <3>1 DEF Owes, RowsOwe
    <2> QED
      BY <1>1, <1>8, <2>2, <2>3 DEF Owes
  <1> QED
    BY <1>1, <1>3, <1>4, <1>7, <1>8, StepOffTheRows

(* A request whose declarations rows written one by one count as purged holds *)
(* their purge back. *)
LEMMA SettledPurgeIsHeld ==
  ASSUME Types, NEW q \in Request, CallIsCoherent(q), phase[q] \in Working, PinsAreHeld(q),
         NEW purges \in AtMostOne,
         \/ DropsAny(read, held[q])
         \/ DropsAny(read, purges)
         \/ call[q].kind = "create" /\ Reached(read, call[q].atStart)
  PROVE  DropsAny(read, Hold(held[q], purges))
  <1>1. IsRead(read) /\ held[q] \in Seq(PurgeRequest)
    BY ReadsAreReads DEF Types
  <1>2. call[q].kind = "create" /\ Reached(read, call[q].atStart) => DropsAny(read, held[q])
    BY DEF PinsAreHeld, HeldDrops, CallIsCoherent, Reached
  <1> QED
    BY <1>1, <1>2, HeldPurgesDrop

LEMMA SettleKeepsOwed ==
  ASSUME TypeInv, TypeInv', OwedInv, NEW q \in Request, Settle(q)
  PROVE  OwedInv'
  <1> DEFINE purges == SuccessPurge(q, Visible(q), TRUE)
             queue == Hold(held[q], purges)
             reported == landed[q] \cup ({call[q].own} \ {None})
  <1>1. /\ Types /\ PhaseIsCoherent(q) /\ CallIsCoherent(q) /\ phase[q] = "written" /\ Shared(q)
        /\ held' = [held EXCEPT ![q] = queue] /\ landed' = [landed EXCEPT ![q] = reported]
        /\ phase' = [phase EXCEPT ![q] = "open"]
        /\ UNCHANGED <<rows, entry, filed, read, plan, calls, call, attempt, overlay, dirty,
                       sink, due, gaps>>
    BY DEF TypeInv, Settle, store, PhaseIsCoherent, Working
  <1>2. purges \in AtMostOne
    BY <1>1, VisibleIsATable, SuccessPurgesAreTyped DEF Types
  <1>3. ASSUME gaps = {},
               \/ HeldDrops(q)
               \/ PinsReach(q)
               \/ Whole(q)
               \/ \E r \in call[q].direct \cup call[q].taken :
                    ShowsChange(read, call[q], r, Visible(q)[r])
        PROVE  DropsAny(read, queue)
    <2>1. call[q] \in CallStates /\ IsRead(read) /\ Visible(q) \in Tables
      BY <1>1, ReadsAreReads, VisibleIsATable DEF Types
    <2>2. \/ DropsAny(read, held[q])
          \/ DropsAny(read, purges)
          \/ call[q].kind = "create" /\ Reached(read, call[q].atStart)
      BY <1>1, <1>3, <2>1, SuccessPurgeDrops DEF HeldDrops, PinsReach, Whole
    <2>3. PinsAreHeld(q)
      BY <1>3 DEF OwedInv
    <2> HIDE DEF purges
    <2>4. DropsAny(read, Hold(held[q], purges))
      BY <1>1, <1>2, <2>2, <2>3, SettledPurgeIsHeld DEF Working
    <2> QED
      BY <2>4
  <1> HIDE DEF purges, queue
  <1>4. /\ phase'[q] = "open" /\ held'[q] = queue /\ landed'[q] = reported
        /\ \A p \in Request \ {q} : Stands(p)
        /\ Opener(q)' = Opener(q) /\ Opener(q) \in {"caller", "rows"}
    BY <1>1, PlansAreTyped DEF Stands, Types, Opener, Shared
  <1>5. /\ HeldDrops(q)' = DropsAny(read, queue) /\ PinsReach(q)' = PinsReach(q)
        /\ TakenDrops(q)' = TakenDrops(q)
    BY <1>1, <1>4 DEF HeldDrops, PinsReach, TakenDrops
  <1>6. \A r \in Row : Visible(q)[r] = IF overlay[q][r] # None THEN overlay[q][r] ELSE rows[r]
    BY DEF Visible
  <1>7. ASSUME gaps = {}
        PROVE  OverlayIsOwed(q)' /\ PinsAreHeld(q)'
    <2>1. OverlayIsOwed(q)'
      <3>1. SUFFICES ASSUME NEW r \in Row, overlay[q][r] # None,
                            Sees(read, overlay[q][r]) # Sees(read, rows[r])
                     PROVE  DropsAny(read, queue)
        BY <1>1, <1>5 DEF OverlayIsOwed
      <3>2. HeldDrops(q) \/ CallCovers(q, r)
        BY <1>7, <3>1 DEF OwedInv, OverlayIsOwed
      <3> QED
        BY <1>3, <1>6, <1>7, <3>1, <3>2 DEF CallCovers
    <2>2. PinsAreHeld(q)'
      BY <1>3, <1>4, <1>5, <1>7 DEF PinsAreHeld, Working
    <2> QED
      BY <2>1, <2>2
  <1>8. ASSUME gaps = {}, Owes(q)
        PROVE  Owes(q)'
    <2>1. ShowsTaken(q) => \E r \in call[q].taken : ShowsChange(read, call[q], r, Visible(q)[r])
      BY <1>1, <1>6 DEF ShowsTaken, Types, CallStates
    <2>2. OwnOwes(q) => DropsAny(read, queue)
      BY <1>3, <1>8, <2>1 DEF OwnOwes
    <2>3. landed[q] \subseteq reported /\ (call[q].own # None => call[q].own \in reported)
      OBVIOUS
    <2>4. OwnOwes(q) => call[q].own # None /\ (PinsReach(q) \/ call[q].own = "taken")
      BY NoneAssumption DEF OwnOwes
    <2> HIDE DEF reported
    <2>5. CASE Opener(q) = "caller"
      <3>1. (landed[q] # {} /\ HeldDrops(q)) \/ OwnOwes(q)
        BY <1>1, <1>8, <2>5 DEF Owes, CallerOwes
      <3>2. reported # {} /\ DropsAny(read, queue)
        BY <1>3, <1>8, <2>2, <2>3, <2>4, <3>1
      <3> QED
        BY <1>4, <1>5, <2>5, <3>2 DEF Owes, CallerOwes
    <2>6. CASE Opener(q) = "rows"
      <3>1. \/ PinsReach(q)
            \/ "taken" \in landed[q] /\ HeldDrops(q) /\ TakenDrops(q)
            \/ OwnOwes(q) /\ TakenDrops(q)
        BY <1>1, <1>8, <2>6 DEF Owes, RowsOwe
      <3>2. PinsReach(q) \/ ("taken" \in reported /\ DropsAny(read, queue) /\ TakenDrops(q))
        BY <1>3, <1>8, <2>2, <2>3, <2>4, <3>1
      <3> QED
        BY <1>4, <1>5, <2>6, <3>2 DEF Owes, RowsOwe
    <2> QED
      BY <1>4, <2>5, <2>6
  <1> QED
    BY <1>1, <1>4, <1>7, <1>8, StepOffTheRows

LEMMA CatchSharedKeepsOwed ==
  ASSUME TypeInv, TypeInv', OwedInv, NEW q \in Request, CatchShared(q)
  PROVE  OwedInv'
  <1>1. PICK readable \in BOOLEAN :
          held' = [held EXCEPT ![q] = Hold(@, FailurePurge(q, Visible(q), readable))]
    BY DEF CatchShared
  <1> DEFINE purges == FailurePurge(q, Visible(q), readable)
             queue == Hold(held[q], purges)
             taken == IF call[q].kind = "delete" THEN {} ELSE call[q].taken
             next == IF Opener(q) = "rows" THEN "rollback" ELSE "open"
  <1>2. /\ Types /\ PhaseIsCoherent(q) /\ CallIsCoherent(q) /\ phase[q] = "failed" /\ Shared(q)
        /\ held' = [held EXCEPT ![q] = queue]
        /\ due' = [due EXCEPT ![q] = [purges |-> HookWrittenPurge(q, taken), next |-> next]]
        /\ phase' = [phase EXCEPT ![q] = "purging"]
        /\ UNCHANGED <<rows, entry, filed, read, plan, calls, call, attempt, overlay, dirty,
                       sink, landed>>
    BY <1>1 DEF TypeInv, CatchShared, Owe, store, PhaseIsCoherent, Working
  <1>3. gaps' = {} => /\ gaps = {}
                      /\ ~(call[q].kind = "delete" /\ \E r \in call[q].direct : overlay[q][r] = Absent)
    BY DEF CatchShared
  <1>4. purges \in AtMostOne
    BY <1>2, VisibleIsATable, FailurePurgesAreTyped DEF Types
  <1>5. ASSUME gaps = {},
               \/ HeldDrops(q)
               \/ PinsReach(q)
               \/ Whole(q)
               \/ /\ call[q].kind # "delete"
                  /\ \E r \in call[q].direct \cup call[q].taken :
                       ShowsChange(read, call[q], r, Visible(q)[r])
        PROVE  DropsAny(read, queue)
    <2>1. call[q] \in CallStates /\ IsRead(read) /\ Visible(q) \in Tables
      BY <1>2, ReadsAreReads, VisibleIsATable DEF Types
    <2>2. CASE HeldDrops(q)
      BY <1>4, <1>2, <2>1, <2>2, HeldPurgesDrop DEF HeldDrops, Types
    <2>3. CASE ~HeldDrops(q)
      <3>1. \/ Reached(read, sink[q].declared)
            \/ Unbounded(call[q], sink[q].keys)
            \/ /\ call[q].kind # "delete"
               /\ \E r \in (IF Shared(q) THEN call[q].direct ELSE {}) \cup call[q].taken :
                    ShowsChange(read, call[q], r, Visible(q)[r])
        BY <1>2, <1>5, <2>3 DEF PinsReach, Whole
      <3>2. \/ DropsAny(read, FailurePurge(q, Visible(q), readable))
            \/ call[q].kind = "create" /\ Reached(read, call[q].atStart)
        BY <1>2, <2>1, <3>1, FailurePurgeDrops
      <3>3. PinsAreHeld(q)
        BY <1>5 DEF OwedInv
      <3>4. DropsAny(read, purges) \/ (call[q].kind = "create" /\ Reached(read, call[q].atStart))
        BY <3>2
      <3> HIDE DEF purges
      <3>5. DropsAny(read, Hold(held[q], purges))
        BY <1>2, <1>4, <3>3, <3>4, SettledPurgeIsHeld DEF Working
      <3> QED
        BY <3>5
    <2> QED
      BY <2>2, <2>3
  <1> HIDE DEF purges, queue
  <1>6. /\ phase'[q] = "purging" /\ held'[q] = queue
        /\ due'[q].purges = HookWrittenPurge(q, taken) /\ due'[q].next = next
        /\ \A p \in Request \ {q} : Stands(p)
        /\ Opener(q)' = Opener(q) /\ Opener(q) \in {"caller", "rows"}
    BY <1>2, PlansAreTyped DEF Stands, Types, Opener, Shared
  <1>7. /\ HeldDrops(q)' = DropsAny(read, queue) /\ TakenDrops(q)' = TakenDrops(q)
        /\ landed'[q] = landed[q]
        /\ DueDrops(q)' = DropsAny(read, HookWrittenPurge(q, taken))
    BY <1>2, <1>6 DEF HeldDrops, TakenDrops, DueDrops
  <1>8. \A r \in Row : Visible(q)[r] = IF overlay[q][r] # None THEN overlay[q][r] ELSE rows[r]
    BY DEF Visible
  <1>9. ASSUME gaps' = {}
        PROVE  OverlayIsOwed(q)' /\ PinsAreHeld(q)'
    <2>1. OverlayIsOwed(q)'
      <3>1. SUFFICES ASSUME NEW r \in Row, overlay[q][r] # None,
                            Sees(read, overlay[q][r]) # Sees(read, rows[r])
                     PROVE  DropsAny(read, queue)
        BY <1>2, <1>7 DEF OverlayIsOwed
      <3>2. HeldDrops(q) \/ CallCovers(q, r)
        BY <1>3, <1>9, <3>1 DEF OwedInv, OverlayIsOwed
      <3>3. call[q].kind = "delete" /\ r \in call[q].direct \cup call[q].taken
              => overlay[q][r] # Absent
        BY <1>2, <1>3, <1>9 DEF CallIsCoherent
      <3> QED
        BY <1>3, <1>5, <1>8, <1>9, <3>1, <3>2, <3>3 DEF CallCovers
    <2>2. PinsAreHeld(q)'
      BY <1>6 DEF PinsAreHeld, Working
    <2> QED
      BY <2>1, <2>2
  <1>10. ASSUME gaps' = {}, Owes(q)
         PROVE  Owes(q)'
    <2>1. PinsReach(q) \/ call[q].own = "taken" => DueDrops(q)'
      <3>1. call[q].own = "taken" => taken # {}
        BY <1>2 DEF CallIsCoherent
      <3>2. IsRead(read)
        BY <1>2, ReadsAreReads
      <3> QED
        BY <1>7, <3>1, <3>2, HookWrittenPurgeDrops DEF PinsReach
    <2>2. OwnOwes(q) => PinsReach(q) \/ call[q].own = "taken"
      BY DEF OwnOwes
    <2>3. CASE Opener(q) = "caller"
      <3>1. (landed[q] # {} /\ HeldDrops(q)) \/ OwnOwes(q)
        BY <1>2, <1>10, <2>3 DEF Owes, CallerOwes
      <3>2. next = "open"
        BY <2>3
      <3> QED
        BY <1>3, <1>5, <1>6, <1>7, <1>10, <2>1, <2>2, <2>3, <3>1, <3>2 DEF Owes, CallerOwes
    <2>4. CASE Opener(q) = "rows"
      <3>1. PinsReach(q) \/ TakenDrops(q) \/ call[q].own = "taken"
        BY <1>2, <1>10, <2>4 DEF Owes, RowsOwe
      <3>2. next = "rollback"
        BY <2>4
      <3> QED
        BY <1>6, <1>7, <2>1, <2>4, <3>1, <3>2 DEF Owes, RowsOwe
    <2> QED
      BY <1>6, <2>3, <2>4
  <1> QED
    BY <1>2, <1>3, <1>6, <1>9, <1>10, StepOffTheRows

LEMMA CommitSharedKeepsOwed ==
  ASSUME TypeInv, TypeInv', OwedInv, NEW q \in Request, CommitShared(q)
  PROVE  OwedInv'
  <1>1. /\ Types /\ PhaseIsCoherent(q) /\ phase[q] = "open" /\ Shared(q)
        /\ calls[q] = Len(Calls(q)) /\ CommitWrites(q)
        /\ overlay' = [overlay EXCEPT ![q] = NoWrites]
        /\ due' = [due EXCEPT ![q] = [purges |-> held[q], next |-> "over"]]
        /\ phase' = [phase EXCEPT ![q] = "purging"]
        /\ held' = [held EXCEPT ![q] = << >>]
        /\ UNCHANGED <<entry, filed, read, plan, calls, call, attempt, sink, landed, gaps>>
    BY DEF TypeInv, CommitShared, CommitWrites, Owe
  <1>2. /\ \A r \in Row : rows'[r] = IF overlay[q][r] # None THEN overlay[q][r] ELSE rows[r]
        /\ \A r \in Row : rows'[r] = rows[r] \/ Unlocked(q, r)
    BY <1>1, CommitsUnlocked
  <1>3. /\ phase'[q] = "purging" /\ overlay'[q] = NoWrites /\ due'[q].purges = held[q]
        /\ \A p \in Request \ {q} : Stands(p)
        /\ Opener(q)' = Opener(q) /\ Opener(q) \in {"caller", "rows"}
    BY <1>1, PlansAreTyped DEF Stands, Types, Opener, Shared
  <1>4. OverlayIsOwed(q)' /\ PinsAreHeld(q)'
    BY <1>3 DEF OverlayIsOwed, NoWrites, PinsAreHeld, Working
  <1>5. HeldDrops(q) => Owes(q)'
    BY <1>1, <1>3 DEF HeldDrops, DueDrops, Owes, CallerOwes, RowsOwe
  <1>6. ASSUME gaps = {}, ~SameSight
        PROVE  Owes(q)'
    <2>1. PICK r \in Row : Sees(read, rows'[r]) # Sees(read, rows[r])
      BY <1>6 DEF SameSight
    <2>2. overlay[q][r] # None /\ rows'[r] = overlay[q][r]
      BY <1>2, <2>1
    <2> QED
      BY <1>1, <1>5, <1>6, <2>1, <2>2 DEF OwedInv, OverlayIsOwed, Working
  <1>7. ASSUME gaps = {}, Owes(q)
        PROVE  Owes(q)'
    <2>1. CASE Opener(q) = "caller"
      BY <1>1, <1>5, <1>7, <2>1 DEF Owes, CallerOwes, Working
    <2>2. CASE Opener(q) = "rows"
      <3>1. PinsReach(q) \/ HeldDrops(q)
        BY <1>1, <1>7, <2>2 DEF Owes, RowsOwe, Working
      <3>2. calls[q] = 0 => Calls(q) = << >>
        <4>1. \A s \in Seq(CallInputs) : Len(s) = 0 => s = << >>
          OBVIOUS
        <4> QED
          BY <1>1, <4>1, PlansAreTyped
      <3>3. PinsReach(q) => HeldDrops(q)
        BY <1>1, <1>7, <2>2, <3>2 DEF OwedInv, PinsAreHeld
      <3> QED
        BY <1>5, <3>1, <3>3
    <2> QED
      BY <1>3, <2>1, <2>2
  <1>8. \A r \in Row : overlay'[q][r] \in {overlay[q][r], None} \/ Unlocked(q, r)
    BY <1>3 DEF NoWrites
  <1> QED
    BY <1>1, <1>2, <1>3, <1>4, <1>6, <1>7, <1>8, StepOfOne

LEMMA RollBackCallerKeepsOwed ==
  ASSUME TypeInv, TypeInv', OwedInv, NEW q \in Request, RollBackCaller(q)
  PROVE  OwedInv'
  <1>1. /\ Types /\ phase[q] = "open" /\ Opener(q) = "caller"
        /\ overlay' = [overlay EXCEPT ![q] = NoWrites] /\ held' = [held EXCEPT ![q] = << >>]
        /\ phase' = [phase EXCEPT ![q] = "over"]
        /\ gaps' = (IF landed[q] # {} THEN gaps \cup {"dropped"} ELSE gaps)
        /\ UNCHANGED <<rows, entry, filed, read, plan, calls, call, attempt, sink, due, landed>>
    BY DEF TypeInv, RollBackCaller, store
  <1>2. /\ overlay'[q] = NoWrites /\ \A p \in Request \ {q} : Stands(p)
        /\ Opener(q)' = "caller"
    BY <1>1 DEF Stands, Types, Opener
  <1>3. OverlayIsOwed(q)' /\ PinsAreHeld(q)'
    BY <1>2 DEF OverlayIsOwed, NoWrites, PinsAreHeld
  <1>4. gaps' = {} => ~Owes(q)
    BY <1>1 DEF Owes, CallerOwes, Working
  <1> QED
    BY <1>1, <1>2, <1>3, <1>4, StepOffTheRows

LEMMA RollBackRowsKeepsOwed ==
  ASSUME TypeInv, TypeInv', OwedInv, NEW q \in Request, RollBackRows(q)
  PROVE  OwedInv'
  <1>1. PICK readable \in BOOLEAN :
          Owe(q, CreatedPurge(q, rows, sink[q].taken, sink[q].taken, {}, readable), "over")
    BY DEF RollBackRows
  <1>2. /\ Types /\ Opener(q) = "rows" /\ phase[q] \in {"open", "rollback"}
        /\ overlay' = [overlay EXCEPT ![q] = NoWrites] /\ held' = [held EXCEPT ![q] = << >>]
        /\ phase' = [phase EXCEPT ![q] = "purging"]
        /\ due' = [due EXCEPT ![q] =
             [purges |-> CreatedPurge(q, rows, sink[q].taken, sink[q].taken, {}, readable),
              next |-> "over"]]
        /\ UNCHANGED <<rows, entry, filed, read, plan, calls, call, attempt, sink, landed, gaps>>
    BY <1>1 DEF TypeInv, RollBackRows, store, Owe
  <1>3. /\ overlay'[q] = NoWrites /\ \A p \in Request \ {q} : Stands(p)
        /\ Opener(q)' = "rows" /\ phase'[q] = "purging"
        /\ due'[q].purges = CreatedPurge(q, rows, sink[q].taken, sink[q].taken, {}, readable)
    BY <1>2 DEF Stands, Types, Opener
  <1>4. OverlayIsOwed(q)' /\ PinsAreHeld(q)'
    BY <1>3 DEF OverlayIsOwed, NoWrites, PinsAreHeld, Working
  <1>5. ASSUME Owes(q)
        PROVE  Owes(q)'
    <2>1. PinsReach(q) \/ TakenDrops(q)
      BY <1>2, <1>5 DEF Owes, RowsOwe, Working
    <2>2. /\ IsRead(read) /\ rows \in Tables /\ sink[q].taken \in SUBSET Row
          /\ sink[q].taken \in SUBSET sink[q].taken
      BY <1>2, ReadsAreReads DEF Types, Sinks
    <2>3. \/ Reached(read, sink[q].declared)
          \/ ~(sink[q].taken \subseteq sink[q].keys)
          \/ \E r \in sink[q].taken : Sees(read, rows[r]) # {}
      BY <2>1 DEF PinsReach, TakenDrops
    <2>4. \/ DropsAny(read, CreatedPurge(q, rows, sink[q].taken, sink[q].taken, {}, readable))
          \/ Reached(read, {})
      BY <2>2, <2>3, CreatedPurgeDrops
    <2>5. DropsAny(read, due'[q].purges)
      BY <1>3, <2>4 DEF Reached
    <2> QED
      BY <1>2, <1>3, <2>5 DEF Owes, RowsOwe, DueDrops
  <1> QED
    BY <1>2, <1>3, <1>4, <1>5, StepOffTheRows

(* A purge that does not drop the entry leaves a later one to. *)
LEMMA RunPurgeKeepsOwed ==
  ASSUME TypeInv, TypeInv', EntryIsNamed, OwedInv, NEW q \in Request, RunPurge(q)
  PROVE  OwedInv'
  <1> DEFINE first == Head(due[q].purges)
             rest == Tail(due[q].purges)
             left == [due[q] EXCEPT !.purges = rest]
  <1>1. /\ Types /\ PhaseIsCoherent(q) /\ phase[q] = "purging" /\ due[q].purges # << >>
        /\ Purge(first) /\ due' = [due EXCEPT ![q] = left]
        /\ UNCHANGED <<rows, read, plan, phase, calls, call, attempt, overlay, sink, held,
                       landed, gaps>>
    BY DEF TypeInv, RunPurge
  <1>2. due[q] \in [purges : Seq(PurgeRequest), next : Nexts]
    BY <1>1 DEF Types
  <1>3. left.purges = rest /\ left.next = due[q].next
    BY <1>2
  <1>4. DropsAny(read, due[q].purges) => Drops(read, first) \/ DropsAny(read, rest)
    <2>1. SUFFICES ASSUME NEW i \in DOMAIN due[q].purges, Drops(read, due[q].purges[i]), i # 1
                   PROVE  DropsAny(read, rest)
      BY <1>1, <1>2 DEF DropsAny
    <2>2. i - 1 \in DOMAIN rest /\ rest[i - 1] = due[q].purges[i]
      BY <1>1, <1>2, <2>1
    <2> QED
      BY <2>1, <2>2 DEF DropsAny
  <1> HIDE DEF first, rest, left
  <1>5. /\ due'[q].purges = rest /\ due'[q].next = due[q].next
        /\ \A p \in Request \ {q} : Stands(p)
        /\ Opener(q)' = Opener(q)
    BY <1>1, <1>3 DEF Stands, Types, Opener
  <1>6. /\ HeldDrops(q)' = HeldDrops(q) /\ PinsReach(q)' = PinsReach(q)
        /\ TakenDrops(q)' = TakenDrops(q)
    BY <1>1 DEF HeldDrops, PinsReach, TakenDrops
  <1>7. ASSUME gaps = {}
        PROVE  OverlayIsOwed(q)' /\ PinsAreHeld(q)'
    <2>1. OverlayIsOwed(q)
      BY <1>7 DEF OwedInv
    <2>2. OverlayIsOwed(q)'
      BY <1>1, <1>6, <2>1 DEF OverlayIsOwed, Working
    <2> QED
      BY <1>1, <2>2 DEF PinsAreHeld, Working
  <1>8. entry' = None \/ (entry' = entry /\ (entry = None \/ ~Drops(read, first)))
    <2>1. entry' = IF FoundBy(first, read, filed) # {} THEN None ELSE entry
      BY <1>1 DEF Purge
    <2>2. entry # None /\ Drops(read, first) => FoundBy(first, read, filed) # {}
      BY NamedEntryIsFound DEF EntryIsNamed
    <2> QED
      BY <2>1, <2>2
  <1>9. ASSUME ~Drops(read, first), Owes(q)
        PROVE  Owes(q)'
    <2>1. DueDrops(q) => DueDrops(q)'
      BY <1>1, <1>4, <1>5, <1>9 DEF DueDrops
    <2>2. ServiceOwes(q) => ServiceOwes(q)'
      BY <1>1, <2>1 DEF ServiceOwes, Working
    <2>3. CallerOwes(q) => CallerOwes(q)'
      BY <1>1, <1>5, <1>6, <2>1 DEF CallerOwes, Working
    <2>4. RowsOwe(q) => RowsOwe(q)'
      BY <1>1, <1>5, <1>6, <2>1 DEF RowsOwe, Working
    <2> QED
      BY <1>5, <1>9, <2>2, <2>3, <2>4 DEF Owes
  <1>10. SameSight
    BY <1>1 DEF SameSight
  <1> QED
    BY <1>1, <1>5, <1>7, <1>8, <1>9, <1>10, StepOfOne

LEMMA PurgesDoneKeepsOwed ==
  ASSUME TypeInv, TypeInv', OwedInv, NEW q \in Request, PurgesDone(q)
  PROVE  OwedInv' /\ (gaps = {} /\ Owes(q) => Owes(q)')
  <1>1. /\ Types /\ PhaseIsCoherent(q) /\ phase[q] = "purging" /\ due[q].purges = << >>
        /\ phase' = [phase EXCEPT ![q] = due[q].next]
        /\ UNCHANGED <<rows, entry, filed, read, plan, calls, call, attempt, overlay, sink,
                       held, due, landed, gaps>>
    BY DEF TypeInv, PurgesDone, store
  <1>2. /\ phase'[q] = due[q].next /\ \A p \in Request \ {q} : Stands(p)
        /\ Opener(q)' = Opener(q) /\ due[q].next \in Nexts
    BY <1>1 DEF Stands, Types, Opener
  <1>3. ~DueDrops(q)
    BY <1>1 DEF DueDrops, DropsAny
  <1>4. /\ HeldDrops(q)' = HeldDrops(q) /\ PinsReach(q)' = PinsReach(q)
        /\ TakenDrops(q)' = TakenDrops(q)
    BY <1>1 DEF HeldDrops, PinsReach, TakenDrops
  <1>5. ASSUME gaps = {}
        PROVE  OverlayIsOwed(q)' /\ PinsAreHeld(q)'
    <2>1. OverlayIsOwed(q)
      BY <1>5 DEF OwedInv
    <2>2. OverlayIsOwed(q)'
      BY <1>1, <1>4, <2>1 DEF OverlayIsOwed, Working
    <2>3. PinsAreHeld(q)'
      BY <1>1, <1>2 DEF PinsAreHeld, PhaseIsCoherent, Nexts, Working
    <2> QED
      BY <2>2, <2>3
  <1>6. ASSUME Owes(q)
        PROVE  Owes(q)'
    <2>1. ~ServiceOwes(q)
      BY <1>1, <1>3 DEF ServiceOwes, Working
    <2>2. CallerOwes(q) => CallerOwes(q)'
      BY <1>1, <1>2, <1>3, <1>4 DEF CallerOwes, Working
    <2>3. RowsOwe(q) => RowsOwe(q)'
      BY <1>1, <1>2, <1>3, <1>4 DEF RowsOwe, Working
    <2> QED
      BY <1>2, <1>6, <2>1, <2>2, <2>3 DEF Owes
  <1> QED
    BY <1>1, <1>2, <1>5, <1>6, StepOffTheRows

LEMMA FillKeepsOwed ==
  ASSUME TypeInv, OwedInv, Fill
  PROVE  OwedInv'
  <1>1. UNCHANGED <<rows, read, plan, phase, calls, call, attempt, overlay, sink, held, due,
                    landed, gaps>>
    BY DEF Fill
  <1>2. entry' = Answer(rows) /\ Answer(rows)' = Answer(rows)
    BY <1>1 DEF Fill, Answer
  <1>3. RowsAreLocked' /\ ~Stale'
    BY <1>1, <1>2 DEF OwedInv, RowsAreLocked, Stale
  <1>4. ASSUME gaps = {}, NEW p \in Request
        PROVE  OverlayIsOwed(p)' /\ PinsAreHeld(p)'
    BY <1>1, <1>4, OthersStayOwed DEF OwedInv, Stands
  <1> QED
    BY <1>1, <1>3, <1>4 DEF OwedInv, StaleIsOwed

(* What a row may hold *)
StoredOrGone(r, row) == row = Absent \/ StoredAt(r, row)

LEMMA SeenIsStored ==
  ASSUME NEW fp, NEW r, NEW row, StoredOrGone(r, row), Sees(fp, row) # {}
  PROVE  StoredAt(r, row) /\ MatchesRow(fp, RowFingerprint(row))
  BY DEF Sees, StoredOrGone

LEMMA DeclaredSliceReaches ==
  ASSUME NEW q, NEW r, NEW row, StoredOrGone(r, row), Sees(read, row) # {},
         DeclaredPin(row) \in sink[q].declared
  PROVE  PinsReach(q)
  BY SeenIsStored, SeenRowIsReached DEF PinsReach, Reached

(* A snapshot of the row a write changes tells the change. *)
LEMMA FreshSnapshotTells ==
  ASSUME NEW fp, IsRead(fp), NEW before, NEW r, NEW old, NEW new,
         StoredOrGone(r, old), StoredOrGone(r, new), Sees(fp, old) # Sees(fp, new),
         ScopeFields = << >> \/ BeforeIn(before, r) = old
  PROVE  Tells(fp, before, r, new)
  <1>1. CASE ScopeFields = << >>
    <2>1. Sees(fp, old) # {} \/ Sees(fp, new) # {}
      OBVIOUS
    <2>2. PICK row \in {old, new} : Sees(fp, row) # {} /\ StoredOrGone(r, row)
      BY <2>1
    <2>3. MatchesRow(fp, RowFingerprint(KeyOf(r)))
      BY <1>1, <2>2, SeenIsStored, KeyMatchesAsTheRow
    <2> QED
      BY <1>1, <2>3 DEF Tells
  <1>2. CASE ScopeFields # << >>
    BY <1>2 DEF Tells
  <1> QED
    BY <1>1, <1>2

(* What a snapshot that is not old shows *)
LEMMA FreshSnapshotShows ==
  ASSUME NEW q, NEW r, ~SnapshotIsOld(q, r)
  PROVE  /\ ScopeFields = << >> => /\ r \in DOMAIN call[q].before
                                   /\ call[q].before[r] = KeyOf(r)
         /\ ScopeFields # << >> => BeforeIn(call[q].before, r) = Visible(q)[r]
  <1> DEFINE shown == [k \in {r} \cap DOMAIN call[q].before |-> call[q].before[k]]
  <1>1. Snapshot(Visible(q), {r}, Absent) = shown
    BY DEF SnapshotIsOld
  <1>2. /\ DOMAIN shown = {r} \cap DOMAIN call[q].before
        /\ r \in DOMAIN call[q].before => shown[r] = call[q].before[r]
    OBVIOUS
  <1> HIDE DEF shown
  <1>3. CASE ScopeFields = << >>
    <2>1. shown = [k \in {r} |-> KeyOf(k)]
      BY <1>1, <1>3 DEF Snapshot, KeyOf
    <2>2. DOMAIN shown = {r} /\ shown[r] = KeyOf(r)
      BY <2>1
    <2> QED
      BY <1>2, <1>3, <2>2
  <1>4. CASE ScopeFields # << >>
    <2>1. shown = [k \in {x \in {r} : Visible(q)[x] # Absent} |-> Visible(q)[k]]
      BY <1>1, <1>4 DEF Snapshot
    <2>2. /\ DOMAIN shown = {x \in {r} : Visible(q)[x] # Absent}
          /\ Visible(q)[r] # Absent => shown[r] = Visible(q)[r]
      BY <2>1
    <2> QED
      BY <1>2, <1>4, <2>2 DEF BeforeIn
  <1> QED
    BY <1>3, <1>4

LEMMA VisibleRowsAreStored ==
  ASSUME Types, NEW q \in Request, NEW r \in Row
  PROVE  /\ StoredOrGone(r, rows[r]) /\ StoredOrGone(r, Visible(q)[r])
         /\ Visible(q)[r] = IF overlay[q][r] # None THEN overlay[q][r] ELSE rows[r]
  <1>1. rows \in Tables /\ Visible(q) \in Tables
    BY VisibleIsATable DEF Types
  <1>2. \A state \in Tables : StoredOrGone(r, state[r])
    BY DEF Tables, StoredOrGone
  <1> QED
    BY <1>1, <1>2 DEF Visible

LEMMA WrittenRows ==
  ASSUME NEW q, NEW r \in Row
  PROVE  \/ Written(q)[r] = overlay[q][r]
         \/ /\ r \in call[q].direct
            /\ call[q].kind \notin {"update", "create"} => Written(q)[r] = Absent
  BY DEF Written

(* Hooks that declared both sides of a row whose snapshot is old cover it. *)
LEMMA DeclaredSlicesCover ==
  ASSUME Types, NEW q \in Request, NEW r \in Row, NEW new, StoredOrGone(r, new),
         SlicesDeclared(q, r), Sees(read, new) # Sees(read, Visible(q)[r]), ~PinsReach(q)
  PROVE  /\ Tells(read, call[q].before, r, new)
         /\ Sees(read, Visible(q)[r]) = {}
  <1> DEFINE before == call[q].before
  <1>1. /\ r \in DOMAIN before /\ DeclaredPin(before[r]) \in sink[q].declared
        /\ DeclaredPin(Visible(q)[r]) \in sink[q].declared
    BY DEF SlicesDeclared, Declared
  <1>2. before \in Snapshots /\ StoredOrGone(r, Visible(q)[r]) /\ IsRead(read)
    BY VisibleRowsAreStored, ReadsAreReads DEF Types, CallStates
  <1>3. Sees(read, Visible(q)[r]) = {}
    BY <1>1, <1>2, DeclaredSliceReaches
  <1>4. CASE ScopeFields = << >>
    <2>1. Tells(read, call[q].before, r, new)
      BY <1>2, <1>4, FreshSnapshotTells
    <2> QED
      BY <1>3, <2>1
  <1>5. CASE ScopeFields # << >>
    <2>1. StoredOrGone(r, before[r])
      BY <1>1, <1>2, <1>5 DEF Snapshots, Shows, StoredOrGone
    <2>2. Sees(read, before[r]) = {}
      BY <1>1, <2>1, DeclaredSliceReaches
    <2> QED
      BY <1>1, <1>3, <1>5, <2>2 DEF Tells, BeforeIn
  <1> QED
    BY <1>3, <1>4, <1>5

(* A statement that changes what the read sees of a row is covered by what    *)
(* its call holds, as long as no race was lost.                               *)
LEMMA StatementIsCovered ==
  ASSUME Types, NEW q \in Request, CallIsCoherent(q), NEW r \in call[q].direct, NEW new,
         StoredOrGone(r, new), Sees(read, new) # Sees(read, Visible(q)[r]),
         call[q].kind = "create" => Visible(q)[r] = Absent,
         call[q].kind = "delete" => new = Absent,
         call[q].kind # "create" => ~SnapshotIsOld(q, r) \/ SlicesDeclared(q, r)
  PROVE  PinsReach(q) \/ ShowsChange(read, call[q], r, new)
  <1>1. r \in Row /\ call[q].kind \in {"create", "update", "delete"} /\ IsRead(read)
    BY ReadsAreReads DEF Types, CallStates, CallIsCoherent
  <1>2. StoredOrGone(r, Visible(q)[r])
    BY <1>1, VisibleRowsAreStored
  <1>3. CASE call[q].kind = "create"
    BY <1>3 DEF ShowsChange, Sees
  <1>4. CASE call[q].kind = "update"
    <2>1. CASE SlicesDeclared(q, r)
      BY <1>1, <1>4, <2>1, DeclaredSlicesCover DEF ShowsChange
    <2>2. CASE ~SnapshotIsOld(q, r)
      <3>1. ScopeFields = << >> \/ BeforeIn(call[q].before, r) = Visible(q)[r]
        BY <2>2, FreshSnapshotShows
      <3>2. Tells(read, call[q].before, r, new)
        BY <1>1, <1>2, <3>1, FreshSnapshotTells
      <3> QED
        BY <1>4, <3>2 DEF ShowsChange
    <2> QED
      BY <1>4, <2>1, <2>2
  <1>5. CASE call[q].kind = "delete"
    <2>1. Sees(read, Visible(q)[r]) # {}
      BY <1>5 DEF Sees
    <2>2. CASE SlicesDeclared(q, r)
      BY <1>1, <2>1, <2>2, DeclaredSlicesCover
    <2>3. CASE ~SnapshotIsOld(q, r)
      <3>1. StoredAt(r, Visible(q)[r]) /\ MatchesRow(read, RowFingerprint(Visible(q)[r]))
        BY <1>2, <2>1, SeenIsStored
      <3>2. Visible(q)[r] # Absent
        BY <2>1 DEF Sees
      <3>3. r \in DOMAIN call[q].before /\ MatchesRow(read, RowFingerprint(call[q].before[r]))
        BY <1>1, <2>3, <3>1, <3>2, FreshSnapshotShows, KeyMatchesAsTheRow DEF BeforeIn
      <3> QED
        BY <1>5, <3>3 DEF ShowsChange
    <2> QED
      BY <1>5, <2>2, <2>3
  <1> QED
    BY <1>1, <1>3, <1>4, <1>5

LEMMA WriteKeepsOwed ==
  ASSUME TypeInv, TypeInv', OwedInv, NEW q \in Request, Write(q)
  PROVE  OwedInv'
  <1>1. /\ Types /\ PhaseIsCoherent(q) /\ CallIsCoherent(q) /\ phase[q] = "answered"
        /\ \A r \in call[q].direct :
             /\ Unlocked(q, r)
             /\ call[q].kind = "create" => Visible(q)[r] = Absent
        /\ overlay' = [overlay EXCEPT ![q] = Written(q)]
        /\ phase' = [phase EXCEPT ![q] = "written"]
        /\ UNCHANGED <<rows, entry, filed, read, plan, calls, call, attempt, dirty, sink, held,
                       due, landed>>
    BY DEF TypeInv, Write, store, PhaseIsCoherent, Working
  <1>2. gaps' = {} =>
          /\ gaps = {}
          /\ call[q].kind # "create" =>
               \A r \in call[q].direct :
                 Written(q)[r] # overlay[q][r] => ~SnapshotIsOld(q, r) \/ SlicesDeclared(q, r)
    BY DEF Write
  <1>3. /\ phase'[q] = "written" /\ overlay'[q] = Written(q)
        /\ \A p \in Request \ {q} : Stands(p)
        /\ Opener(q)' = Opener(q) /\ Written(q) \in Overlays
    <2>1. overlay' \in [Request -> Overlays]
      BY DEF TypeInv, Types
    <2> QED
      BY <1>1, <2>1 DEF Stands, Types, Opener
  <1>4. /\ HeldDrops(q)' = HeldDrops(q) /\ PinsReach(q)' = PinsReach(q)
        /\ TakenDrops(q)' = TakenDrops(q) /\ Whole(q)' = Whole(q)
    BY <1>1 DEF HeldDrops, PinsReach, TakenDrops, Whole
  <1>5. SameSight
    BY <1>1 DEF SameSight
  <1>6. \A r \in Row : overlay'[q][r] \in {overlay[q][r], None} \/ Unlocked(q, r)
    BY <1>1, <1>3, WrittenRows
  <1>7. ASSUME gaps' = {}
        PROVE  OverlayIsOwed(q)' /\ PinsAreHeld(q)'
    <2>1. OverlayIsOwed(q) /\ PinsAreHeld(q)
      BY <1>2, <1>7 DEF OwedInv
    <2>2. PinsAreHeld(q)'
      BY <1>1, <1>3, <1>4, <2>1 DEF PinsAreHeld, Working
    <2>3. ASSUME NEW r \in Row, overlay'[q][r] # None,
                 Sees(read, overlay'[q][r]) # Sees(read, rows[r]), ~HeldDrops(q)
          PROVE  CallCovers(q, r)'
      <3>1. CASE overlay'[q][r] = overlay[q][r]
        <4>1. CallCovers(q, r)
          BY <2>1, <2>3, <3>1 DEF OverlayIsOwed
        <4> QED
          BY <1>1, <1>4, <3>1, <4>1 DEF CallCovers
      <3>2. CASE overlay'[q][r] # overlay[q][r]
        <4> DEFINE new == Written(q)[r]
                   now == Visible(q)[r]
        <4>1. /\ r \in call[q].direct /\ (call[q].kind = "delete" => new = Absent)
              /\ StoredOrGone(r, new)
          BY <1>3, <2>3, <3>2, WrittenRows DEF Overlays, StoredOrGone
        <4>2. ASSUME PinsReach(q) \/ Whole(q) \/ ShowsChange(read, call[q], r, new)
              PROVE  CallCovers(q, r)'
          BY <1>1, <1>3, <1>4, <4>1, <4>2 DEF CallCovers
        <4>3. CASE Sees(read, new) # Sees(read, now)
          BY <1>1, <1>2, <1>3, <1>7, <3>2, <4>1, <4>2, <4>3, StatementIsCovered
        <4>4. CASE Sees(read, new) = Sees(read, now)
          <5>1. overlay[q][r] # None /\ Sees(read, overlay[q][r]) # Sees(read, rows[r])
                /\ now = overlay[q][r]
            BY <1>1, <1>3, <2>3, <4>4, VisibleRowsAreStored
          <5>2. CallCovers(q, r)
            BY <2>1, <2>3, <5>1 DEF OverlayIsOwed
          <5>3. ShowsChange(read, call[q], r, overlay[q][r])
                  => ShowsChange(read, call[q], r, new)
            BY <4>4, <5>1, ShowsBySight
          <5> QED
            BY <4>2, <5>2, <5>3 DEF CallCovers
        <4> QED
          BY <4>3, <4>4
      <3> QED
        BY <3>1, <3>2
    <2>4. OverlayIsOwed(q)'
      BY <1>1, <1>3, <1>4, <2>3 DEF OverlayIsOwed, Working
    <2> QED
      BY <2>2, <2>4
  <1>8. Owes(q) => Owes(q)'
    <2>1. ASSUME ShowsTaken(q)
          PROVE  ShowsTaken(q)'
      <3>1. PICK r \in call[q].taken :
              overlay[q][r] = None /\ ShowsChange(read, call[q], r, rows[r])
        BY <2>1 DEF ShowsTaken
      <3>2. r \in Row /\ r \notin call[q].direct
        BY <1>1 DEF Types, CallStates, CallIsCoherent
      <3>3. overlay'[q][r] = None
        BY <1>3, <3>1, <3>2, WrittenRows
      <3> QED
        BY <1>1, <3>1, <3>3 DEF ShowsTaken
    <2>2. OwnOwes(q) => OwnOwes(q)'
      BY <1>1, <1>4, <2>1 DEF OwnOwes
    <2>3. ServiceOwes(q) => ServiceOwes(q)'
      BY <1>1, <1>3, <1>4, <2>2 DEF ServiceOwes, Working
    <2>4. CallerOwes(q) => CallerOwes(q)'
      BY <1>1, <1>3, <1>4, <2>2 DEF CallerOwes, Working
    <2>5. RowsOwe(q) => RowsOwe(q)'
      BY <1>1, <1>3, <1>4, <2>2 DEF RowsOwe, Working
    <2> QED
      BY <1>3, <2>3, <2>4, <2>5 DEF Owes
  <1> QED
    BY <1>1, <1>2, <1>3, <1>5, <1>6, <1>7, <1>8, StepOfOne

(* What a writing hook does to what its request holds: it writes row r from   *)
(* old to new, by its own connection or not, takes it over or declares it.    *)
HookDoes(q, r, own, takes, declares, refused, old, new) ==
  /\ StoredAt(r, old) /\ StoredAt(r, new) /\ old = Visible(q)[r]
  /\ own => overlay[q][r] = None /\ old = rows[r]
  /\ Unlocked(q, r) /\ (takes \/ declares)
  /\ rows' = (IF own THEN [rows EXCEPT ![r] = new] ELSE rows)
  /\ overlay' = (IF own THEN overlay ELSE [overlay EXCEPT ![q][r] = new])
  /\ sink'[q].declared = sink[q].declared
                           \cup (IF declares THEN {DeclaredPin(old), DeclaredPin(new)} ELSE {})
  /\ sink'[q].keys = sink[q].keys \cup (IF declares THEN {r} ELSE {})
  /\ sink'[q].taken = sink[q].taken \cup (IF takes /\ ~refused THEN {r} ELSE {})
  /\ call'[q].kind = call[q].kind /\ call'[q].atStart = call[q].atStart
  /\ call'[q].taken = (IF takes THEN {r} ELSE {})
  /\ call'[q].own = (IF ~own THEN None ELSE IF declares THEN "declared" ELSE "taken")
  /\ call[q].kind = "update" /\ takes /\ r # call[q].row /\ r \notin sink'[q].keys
       => call'[q].undeclared
  /\ takes => /\ call[q].kind # "delete"
              /\ phase'[q] = IF refused THEN "failed" ELSE "answered"
  /\ takes /\ call[q].kind = "update" /\ r = call[q].row
       => BeforeIn(call'[q].before, r) = BeforeIn(call[q].before, r)
  /\ phase'[q] \in Working
  /\ \A p \in Request \ {q} : Stands(p)
  /\ held' = held /\ landed' = landed

HookMissesNothing(q, r, takes, declares, old, new) ==
  /\ gaps = {}
  /\ call[q].kind = "update" /\ r = call[q].row /\ ~declares => ~SnapshotIsOld(q, r)
  /\ declares => r \notin sink[q].taken \ sink[q].keys
  /\ takes /\ ~declares /\ r \in sink[q].keys /\ new # old =>
       /\ ~(call[q].kind = "update" /\ r # call[q].row)
       /\ DeclaredPin(old) \in sink[q].declared

(* An update that takes its own row over keeps what it read of it. *)
LEMMA TakenRowIsKnown ==
  ASSUME NEW c, c.kind = "update", NEW state, NEW outcome
  PROVE  BeforeIn(BeforeOf(c, state, {}, {c.row}, outcome), c.row) = BeforeIn(c.before, c.row)
  <1> DEFINE known == DOMAIN c.before \cap {c.row}
             before == BeforeOf(c, state, {}, {c.row}, outcome)
  <1>1. before = Over([k \in known |-> c.before[k]], Snapshot(state, {}, Absent))
    BY DEF BeforeOf
  <1>2. DOMAIN Snapshot(state, {}, Absent) = {}
    BY DEF Snapshot
  <1>3. before = [x \in known |-> c.before[x]]
    BY <1>1, <1>2 DEF Over
  <1> HIDE DEF before
  <1>4. BeforeIn(before, c.row) = BeforeIn(c.before, c.row)
    BY <1>3 DEF BeforeIn
  <1> QED
    BY <1>4 DEF before

LEMMA WritingHooksDo ==
  ASSUME TypeInv, NEW q \in Request, WritingHook(q)
  PROVE  \E r \in Row, own, takes, declares, refused \in BOOLEAN, old, new \in Stored :
           /\ HookDoes(q, r, own, takes, declares, refused, old, new)
           /\ gaps' = {} => HookMissesNothing(q, r, takes, declares, old, new)
  <1>1. Types /\ PhaseIsCoherent(q)
    BY DEF TypeInv
  <1>2. phase[q] = "called"
    BY <1>1, WritingHooksWrite
  <1>3. PICK w \in HookWrite, own \in BOOLEAN, takes \in BOOLEAN, declares \in BOOLEAN,
             outcome \in {"answered", "refused", "cancelled", "thrown"} :
          HookWrites(q, w, own, takes, declares, outcome)
    BY <1>1, WritingHooksWrite
  <1>4. HookAllowed(q, w, own, takes, declares, outcome)
    BY <1>3 DEF HookWrites
  <1>5. /\ w.row \in Row /\ w.set \in Settings
        /\ StoredAt(w.row, HookOld(q, w, own)) /\ StoredAt(w.row, HookNew(q, w, own))
        /\ [Visible(q) EXCEPT ![w.row] = HookNew(q, w, own)] \in Tables
        /\ HookSink(q, w, own, takes, declares, outcome) \in Sinks
        /\ HookLeaves(q, w, takes, outcome) \in SUBSET Row
        /\ HookTakes(w, takes) \in SUBSET Row
        /\ HookOwn(own, declares) \in {None, "declared", "taken"}
        /\ HookUndeclared(q, w, own, takes, declares, outcome) \in BOOLEAN
    BY <1>1, <1>2, <1>4, HooksAreTyped
  <1>6. HookCall(q, w, own, takes, declares, outcome) =
          [kind |-> call[q].kind, row |-> call[q].row, set |-> call[q].set,
           before |-> BeforeOf(call[q], [Visible(q) EXCEPT ![w.row] = HookNew(q, w, own)],
                               HookLeaves(q, w, takes, outcome), HookTakes(w, takes),
                               outcome),
           direct |-> HookLeaves(q, w, takes, outcome), taken |-> HookTakes(w, takes),
           undeclared |-> HookUndeclared(q, w, own, takes, declares, outcome),
           atStart |-> call[q].atStart, own |-> HookOwn(own, declares),
           outcome |-> outcome]
    BY <1>1, <1>2, <1>4, HookCallsAreTyped
  <1>7. PICK old, new \in Stored : old = HookOld(q, w, own) /\ new = HookNew(q, w, own)
    BY <1>5 DEF StoredAt
  <1>8. /\ call'[q] = HookCall(q, w, own, takes, declares, outcome)
        /\ sink'[q] = HookSink(q, w, own, takes, declares, outcome)
        /\ phase'[q] = PhaseAfter(outcome)
        /\ \A p \in Request \ {q} : Stands(p)
        /\ held' = held /\ landed' = landed
    BY <1>1, <1>3 DEF HookWrites, Types, Stands
  <1>9. /\ call'[q].kind = call[q].kind /\ call'[q].atStart = call[q].atStart
        /\ call'[q].taken = HookTakes(w, takes) /\ call'[q].own = HookOwn(own, declares)
        /\ call'[q].undeclared = HookUndeclared(q, w, own, takes, declares, outcome)
        /\ call'[q].before = BeforeOf(call[q], [Visible(q) EXCEPT ![w.row] = HookNew(q, w, own)],
                                      HookLeaves(q, w, takes, outcome), HookTakes(w, takes),
                                      outcome)
    BY <1>6, <1>8
  <1>10. HookDoes(q, w.row, own, takes, declares, outcome = "refused", old, new)
    <2>1. /\ StoredAt(w.row, old) /\ StoredAt(w.row, new)
          /\ own => overlay[q][w.row] = None /\ old = rows[w.row]
          /\ Unlocked(q, w.row) /\ (takes \/ declares)
      BY <1>4, <1>5, <1>7 DEF HookAllowed, HookOld
    <2>2. old = Visible(q)[w.row]
      BY <1>1, <1>5, <1>7, <2>1, VisibleRowsAreStored DEF HookOld
    <2>3. /\ rows' = (IF own THEN [rows EXCEPT ![w.row] = new] ELSE rows)
          /\ overlay' = (IF own THEN overlay ELSE [overlay EXCEPT ![q][w.row] = new])
      BY <1>3, <1>7 DEF HookWrites
    <2>4. takes => call[q].kind # "delete" /\ outcome \in {"answered", "refused"}
      BY <1>4 DEF HookAllowed
    <2>5. /\ sink'[q].declared = sink[q].declared
               \cup (IF declares THEN {DeclaredPin(old), DeclaredPin(new)} ELSE {})
          /\ sink'[q].keys = sink[q].keys \cup (IF declares THEN {w.row} ELSE {})
          /\ sink'[q].taken = sink[q].taken
               \cup (IF takes /\ ~(outcome = "refused") THEN {w.row} ELSE {})
      BY <1>7, <1>8, <2>4 DEF HookSink, HookTakes
    <2>6. /\ call'[q].taken = (IF takes THEN {w.row} ELSE {})
          /\ call'[q].own = (IF ~own THEN None ELSE IF declares THEN "declared" ELSE "taken")
      BY <1>9 DEF HookTakes, HookOwn
    <2>7. call[q].kind = "update" /\ takes /\ w.row # call[q].row /\ w.row \notin sink'[q].keys
            => call'[q].undeclared
      BY <1>8, <1>9 DEF HookUndeclared
    <2>8. takes => phase'[q] = IF outcome = "refused" THEN "failed" ELSE "answered"
      BY <1>8, <2>4 DEF PhaseAfter
    <2>9. phase'[q] \in Working
      BY <1>8 DEF PhaseAfter, Working
    <2>10. ASSUME takes, call[q].kind = "update", w.row = call[q].row
           PROVE  BeforeIn(call'[q].before, w.row) = BeforeIn(call[q].before, w.row)
      <3>1. HookTakes(w, takes) = {call[q].row} /\ HookLeaves(q, w, takes, outcome) = {}
        BY <2>10 DEF HookTakes, HookLeaves
      <3>2. PICK state : state = [Visible(q) EXCEPT ![w.row] = HookNew(q, w, own)]
        OBVIOUS
      <3>3. call'[q].before = BeforeOf(call[q], state, {}, {call[q].row}, outcome)
        BY <1>9, <3>1, <3>2
      <3> QED
        BY <2>10, <3>3, TakenRowIsKnown
    <2> QED
      BY <1>8, <1>9, <2>1, <2>2, <2>3, <2>4, <2>5, <2>6, <2>7, <2>8, <2>9, <2>10 DEF HookDoes
  <1>11. gaps' = {} => HookMissesNothing(q, w.row, takes, declares, old, new)
    <2>1. gaps' = gaps \cup HookGaps(q, w, own, takes, declares)
      BY <1>3 DEF HookWrites
    <2> QED
      BY <1>7, <2>1 DEF HookGaps, HookMissesNothing, Declared
  <1>12. PICK refused \in BOOLEAN : refused = (outcome = "refused")
    OBVIOUS
  <1>13. HookDoes(q, w.row, own, takes, declares, refused, old, new)
    BY <1>10, <1>12
  <1> QED
    BY <1>5, <1>11, <1>13

(* A hook's write that changes what the read sees is covered from then on. *)
LEMMA HookedRowIsCovered ==
  ASSUME Types, NEW q \in Request, CallIsCoherent(q), read' = read,
         NEW r \in Row, NEW own \in BOOLEAN, NEW takes \in BOOLEAN, NEW declares \in BOOLEAN,
         NEW refused \in BOOLEAN, NEW old, NEW new,
         HookDoes(q, r, own, takes, declares, refused, old, new),
         HookMissesNothing(q, r, takes, declares, old, new),
         Sees(read, old) # Sees(read, new), ~PinsReach(q)'
  PROVE  takes /\ ~declares /\ (Whole(q)' \/ ShowsChange(read, call'[q], r, new))
  <1>1. /\ StoredOrGone(r, old) /\ StoredOrGone(r, new) /\ IsRead(read)
        /\ call[q].kind \in {"create", "update", "delete"}
    BY ReadsAreReads DEF HookDoes, StoredOrGone, Types, CallStates, CallIsCoherent
  <1>2. \A row \in {old, new} : Sees(read, row) # {} => DeclaredPin(row) \notin sink'[q].declared
    BY <1>1, SeenIsStored, SeenRowIsReached DEF PinsReach, Reached
  <1>3. ~declares /\ takes
    BY <1>2 DEF HookDoes
  <1>4. sink'[q].keys = sink[q].keys /\ sink'[q].declared = sink[q].declared
    BY <1>3 DEF HookDoes
  <1>5. CASE call[q].kind = "create"
    <2>1. CASE r \notin sink[q].keys
      BY <1>3, <1>4, <1>5, <2>1 DEF HookDoes, Whole, Unbounded
    <2>2. CASE r \in sink[q].keys
      <3>1. DeclaredPin(old) \in sink'[q].declared
        BY <1>3, <1>4, <2>2 DEF HookMissesNothing
      <3>2. Sees(read, new) # {}
        BY <1>2, <3>1
      <3> QED
        BY <1>3, <1>5, <3>2 DEF ShowsChange, HookDoes
    <2> QED
      BY <2>1, <2>2
  <1>6. CASE call[q].kind = "update" /\ r = call[q].row
    <2>1. ~SnapshotIsOld(q, r)
      BY <1>3, <1>6 DEF HookMissesNothing
    <2>2. ScopeFields = << >> \/ BeforeIn(call'[q].before, r) = old
      BY <1>3, <1>6, <2>1, FreshSnapshotShows DEF HookDoes
    <2>3. Tells(read, call'[q].before, r, new)
      BY <1>1, <2>2, FreshSnapshotTells
    <2> QED
      BY <1>3, <1>6, <2>3 DEF ShowsChange, HookDoes
  <1>7. CASE call[q].kind = "update" /\ r # call[q].row
    <2>1. r \notin sink[q].keys
      BY <1>3, <1>7 DEF HookMissesNothing
    <2> QED
      BY <1>3, <1>4, <1>7, <2>1 DEF HookDoes, Whole, Unbounded
  <1> QED
    BY <1>1, <1>3, <1>5, <1>6, <1>7 DEF HookDoes

(* Rows a hook takes over are dropped by the roll back of rows written one by *)
(* one: the rows it took before, *)
LEMMA TakenStaysDropped ==
  ASSUME Types, NEW q \in Request, read' = read,
         NEW r \in Row, NEW own \in BOOLEAN, NEW takes \in BOOLEAN, NEW declares \in BOOLEAN,
         NEW refused \in BOOLEAN, NEW old, NEW new,
         HookDoes(q, r, own, takes, declares, refused, old, new),
         HookMissesNothing(q, r, takes, declares, old, new),
         TakenDrops(q), ~PinsReach(q)'
  PROVE  TakenDrops(q)'
  <1>1. \A row \in {old, new} :
          Sees(read, row) # {} => DeclaredPin(row) \notin sink'[q].declared
    BY SeenIsStored, SeenRowIsReached DEF PinsReach, Reached, HookDoes, StoredOrGone
  <1>2. sink[q].taken \subseteq sink'[q].taken /\ sink[q].taken \subseteq Row
    BY DEF HookDoes, Types, Sinks
  <1>3. ASSUME NEW x \in sink[q].taken, x \notin sink[q].keys
        PROVE  TakenDrops(q)'
    <2>1. x \notin sink'[q].keys
      BY <1>3 DEF HookDoes, HookMissesNothing
    <2> QED
      BY <1>2, <2>1 DEF TakenDrops
  <1>4. ASSUME NEW x \in sink[q].taken, Sees(read, rows[x]) # {}, x \in sink[q].keys
        PROVE  TakenDrops(q)'
    <2>1. CASE rows'[x] = rows[x]
      BY <1>2, <1>4, <2>1 DEF TakenDrops
    <2>2. CASE rows'[x] # rows[x]
      <3>1. own /\ x = r /\ old = rows[r] /\ rows'[r] = new
        BY <1>2, <2>2 DEF HookDoes, Types, Tables
      <3>2. ~declares /\ takes
        BY <1>1, <1>4, <3>1 DEF HookDoes
      <3>3. DeclaredPin(old) \in sink'[q].declared
        BY <1>4, <2>2, <3>1, <3>2 DEF HookMissesNothing, HookDoes
      <3> QED
        BY <1>1, <1>4, <3>1, <3>3
    <2> QED
      BY <2>1, <2>2
  <1> QED
    BY <1>3, <1>4 DEF TakenDrops

(* and the one it takes now. *)
LEMMA TakenNowIsDropped ==
  ASSUME Types, NEW q \in Request, read' = read,
         NEW r \in Row, NEW own \in BOOLEAN, NEW takes \in BOOLEAN, NEW declares \in BOOLEAN,
         NEW refused \in BOOLEAN, NEW old, NEW new,
         HookDoes(q, r, own, takes, declares, refused, old, new),
         HookMissesNothing(q, r, takes, declares, old, new),
         own, takes, ~declares, ~refused, Sees(read, old) # Sees(read, new), ~PinsReach(q)'
  PROVE  TakenDrops(q)'
  <1>1. \A row \in {old, new} :
          Sees(read, row) # {} => DeclaredPin(row) \notin sink'[q].declared
    BY SeenIsStored, SeenRowIsReached DEF PinsReach, Reached, HookDoes, StoredOrGone
  <1>2. /\ r \in sink'[q].taken /\ sink'[q].keys = sink[q].keys
        /\ sink'[q].declared = sink[q].declared /\ rows'[r] = new
    BY DEF HookDoes, Types, Tables
  <1>3. CASE r \notin sink[q].keys
    BY <1>2, <1>3 DEF TakenDrops
  <1>4. CASE r \in sink[q].keys
    <2>1. DeclaredPin(old) \in sink'[q].declared
      BY <1>2, <1>4 DEF HookMissesNothing
    <2>2. Sees(read, rows'[r]) # {}
      BY <1>1, <1>2, <2>1
    <2> QED
      BY <1>2, <2>2 DEF TakenDrops
  <1> QED
    BY <1>3, <1>4

LEMMA WritingHookKeepsOwed ==
  ASSUME TypeInv, TypeInv', OwedInv, NEW q \in Request, WritingHook(q)
  PROVE  OwedInv'
  <1>1. /\ Types /\ PhaseIsCoherent(q) /\ CallIsCoherent(q) /\ phase[q] = "called"
        /\ UNCHANGED <<read, entry, plan>>
        /\ gaps' = {} => gaps = {}
    <2>1. gaps \subseteq gaps'
      BY DEF WritingHook
    <2>2. phase[q] = "called"
      BY DEF WritingHook
    <2> QED
      BY <2>1, <2>2 DEF TypeInv, WritingHook, PhaseIsCoherent
  <1>2. PICK r \in Row, own, takes, declares, refused \in BOOLEAN, old, new \in Stored :
          /\ HookDoes(q, r, own, takes, declares, refused, old, new)
          /\ gaps' = {} => HookMissesNothing(q, r, takes, declares, old, new)
    BY WritingHooksDo
  <1>3. /\ \A p \in Request \ {q} : Stands(p)
        /\ held' = held /\ landed' = landed /\ Opener(q)' = Opener(q)
        /\ phase'[q] \in Working
    BY <1>1, <1>2 DEF HookDoes, Opener
  <1>4. /\ \A x \in Row : rows'[x] = IF own /\ x = r THEN new ELSE rows[x]
        /\ \A x \in Row : overlay'[q][x] = IF ~own /\ x = r THEN new ELSE overlay[q][x]
        /\ Unlocked(q, r)
    <2>1. rows \in [Row -> Stored \cup {Absent}] /\ overlay[q] \in [Row -> Stored \cup {Absent, None}]
      BY <1>1 DEF Types, Tables, Overlays
    <2>2. overlay'[q] = IF own THEN overlay[q] ELSE [overlay[q] EXCEPT ![r] = new]
      BY <1>1, <1>2 DEF HookDoes, Types
    <2> QED
      BY <1>2, <2>1, <2>2 DEF HookDoes
  <1>5. HeldDrops(q)' = HeldDrops(q) /\ (PinsReach(q) => PinsReach(q)')
    BY <1>1, <1>2 DEF HeldDrops, PinsReach, Reached, HookDoes
  <1>6. ASSUME gaps' = {}, Sees(read, old) # Sees(read, new), ~PinsReach(q)'
        PROVE  takes /\ ~declares /\ (Whole(q)' \/ ShowsChange(read, call'[q], r, new))
    BY <1>1, <1>2, <1>6, HookedRowIsCovered
  <1>7. ASSUME gaps' = {}
        PROVE  OverlayIsOwed(q)' /\ PinsAreHeld(q)'
    <2>1. OverlayIsOwed(q) /\ PinsAreHeld(q)
      BY <1>1, <1>7 DEF OwedInv
    <2>2. PinsAreHeld(q)'
      BY <1>1, <1>2, <1>3, <1>5, <2>1 DEF PinsAreHeld, Working, HookDoes
    <2>3. ASSUME NEW x \in Row, overlay'[q][x] # None,
                 Sees(read, overlay'[q][x]) # Sees(read, rows'[x]), ~HeldDrops(q)
          PROVE  CallCovers(q, x)'
      <3>1. \A y \in Row : overlay[q][y] # None => Sees(read, overlay[q][y]) = Sees(read, rows[y])
        BY <1>1, <2>1, <2>3 DEF OverlayIsOwed, Working
      <3>2. x = r /\ ~own
        BY <1>2, <1>4, <2>3, <3>1 DEF HookDoes
      <3>3. old = (IF overlay[q][r] # None THEN overlay[q][r] ELSE rows[r])
        BY <1>1, <1>2, VisibleRowsAreStored DEF HookDoes
      <3>4. overlay'[q][r] = new /\ rows'[r] = rows[r] /\ Sees(read, old) # Sees(read, new)
        BY <1>4, <2>3, <3>1, <3>2, <3>3
      <3>5. CASE PinsReach(q)'
        BY <3>5 DEF CallCovers
      <3>6. CASE ~PinsReach(q)'
        <4>1. takes /\ (Whole(q)' \/ ShowsChange(read, call'[q], r, new))
          BY <1>6, <1>7, <3>4, <3>6
        <4>2. r \in call'[q].taken /\ call'[q].kind # "delete"
          BY <1>2, <4>1 DEF HookDoes
        <4> QED
          BY <1>1, <3>2, <3>4, <4>1, <4>2 DEF CallCovers
      <3> QED
        BY <3>5, <3>6
    <2>4. OverlayIsOwed(q)'
      BY <1>1, <1>3, <1>5, <2>3 DEF OverlayIsOwed
    <2> QED
      BY <2>2, <2>4
  <1>8. ASSUME gaps' = {}, ~SameSight
        PROVE  Owes(q)'
    <2>1. PICK x \in Row : Sees(read, rows'[x]) # Sees(read, rows[x])
      BY <1>8 DEF SameSight
    <2>2. own /\ x = r /\ rows'[r] = new /\ Sees(read, old) # Sees(read, new)
      BY <1>2, <1>4, <2>1 DEF HookDoes
    <2>3. call'[q].own # None /\ (~declares => call'[q].own = "taken")
      BY <1>2, <2>2, NoneAssumption DEF HookDoes
    <2>4. CASE PinsReach(q)'
      <3>1. OwnOwes(q)'
        BY <2>3, <2>4 DEF OwnOwes
      <3> QED
        BY <1>1, <1>3, <2>4, <3>1, PlansAreTyped
           DEF Owes, ServiceOwes, CallerOwes, RowsOwe
    <2>5. CASE ~PinsReach(q)'
      <3>1. takes /\ ~declares /\ (Whole(q)' \/ ShowsChange(read, call'[q], r, new))
        BY <1>6, <1>8, <2>2, <2>5
      <3>2. r \in call'[q].taken /\ overlay'[q][r] = None
        BY <1>2, <1>4, <2>2, <3>1 DEF HookDoes
      <3>3. OwnOwes(q)'
        BY <1>1, <2>2, <2>3, <3>1, <3>2 DEF OwnOwes, ShowsTaken
      <3>4. CASE Opener(q) = "rows"
        <4>1. CASE refused
          BY <1>2, <1>3, <2>3, <3>1, <3>4, <4>1 DEF HookDoes, Owes, RowsOwe
        <4>2. CASE ~refused
          <5>1. TakenDrops(q)'
            BY <1>1, <1>2, <1>8, <2>2, <2>5, <3>1, <4>2, TakenNowIsDropped
          <5>2. phase'[q] = "answered"
            BY <1>2, <3>1, <4>2 DEF HookDoes
          <5> QED
            BY <1>3, <3>3, <3>4, <5>1, <5>2 DEF Owes, RowsOwe
        <4> QED
          BY <4>1, <4>2
      <3> QED
        BY <1>1, <1>3, <3>3, <3>4, PlansAreTyped DEF Owes, ServiceOwes, CallerOwes
    <2> QED
      BY <2>4, <2>5
  <1>9. ASSUME gaps' = {}, Owes(q)
        PROVE  Owes(q)'
    <2>1. Opener(q) = "service" /\ call[q].kind = "update" => ~PinsReach(q)
      BY <1>1 DEF PhaseIsCoherent, Shared, Opener, NoDeclarations, PinsReach, Reached
    <2>2. call'[q].kind = call[q].kind
      BY <1>2 DEF HookDoes
    <2>3. CASE Opener(q) = "service"
      <3>1. PinsReach(q)
        BY <1>1, <1>9, <2>3 DEF Owes, ServiceOwes, Working
      <3> QED
        BY <1>3, <1>5, <2>1, <2>2, <2>3, <3>1 DEF Owes, ServiceOwes
    <2>4. CASE Opener(q) = "caller"
      BY <1>1, <1>3, <1>5, <1>9, <2>4 DEF Owes, CallerOwes, Working
    <2>5. CASE Opener(q) = "rows"
      <3>1. PinsReach(q) \/ ("taken" \in landed[q] /\ HeldDrops(q) /\ TakenDrops(q))
        BY <1>1, <1>9, <2>5 DEF Owes, RowsOwe, Working
      <3>2. TakenDrops(q) => TakenDrops(q)' \/ PinsReach(q)'
        BY <1>1, <1>2, <1>9, TakenStaysDropped
      <3> QED
        BY <1>3, <1>5, <2>5, <3>1, <3>2 DEF Owes, RowsOwe
    <2> QED
      BY <1>1, <2>3, <2>4, <2>5, PlansAreTyped
  <1>10. /\ \A x \in Row : overlay'[q][x] \in {overlay[q][x], None} \/ Unlocked(q, x)
         /\ \A x \in Row : rows'[x] = rows[x] \/ Unlocked(q, x)
    BY <1>4
  <1> QED
    BY <1>1, <1>3, <1>7, <1>8, <1>9, <1>10, StepOfOne

-----------------------------------------------------------------------------
(* A read settled is a read fresh *)

(* A request that has not begun holds nothing yet. *)
Untouched(q) ==
  phase[q] = "open" /\ calls[q] = 0 /\ attempt[q] = 1 =>
    sink[q] = NoDeclarations /\ landed[q] = {}

IInv == TypeInv /\ EntryIsNamed /\ OwedInv /\ \A q \in Request : Untouched(q)

(* A step of one request leaves where the others are. *)
LEMMA OthersStayThere ==
  ASSUME Types, NEW p \in Request, NEW q \in Request, p # q,
         \/ Begin(p) \/ QuietHook(p) \/ WritingHook(p) \/ Write(p) \/ Fail(p)
         \/ Commit(p) \/ PurgeCommitted(p) \/ Catch(p) \/ Retry(p)
         \/ Settle(p) \/ CatchShared(p) \/ CommitShared(p)
         \/ RollBackCaller(p) \/ RollBackRows(p) \/ RunPurge(p) \/ PurgesDone(p)
  PROVE  UNCHANGED <<phase[q], calls[q], attempt[q], sink[q], landed[q]>>
  <1>1. CASE Begin(p)
    BY <1>1 DEF Begin, Types
  <1>2. CASE QuietHook(p)
    BY <1>2 DEF QuietHook, Types
  <1>3. CASE WritingHook(p)
    <2>1. PICK w \in HookWrite, own \in BOOLEAN, takes \in BOOLEAN, declares \in BOOLEAN,
               outcome \in {"answered", "refused", "cancelled", "thrown"} :
            HookWrites(p, w, own, takes, declares, outcome)
      BY <1>3, WritingHooksWrite
    <2>2. /\ phase' = [phase EXCEPT ![p] = PhaseAfter(outcome)]
          /\ sink' = [sink EXCEPT ![p] = HookSink(p, w, own, takes, declares, outcome)]
          /\ UNCHANGED <<calls, attempt, landed>>
      BY <2>1 DEF HookWrites
    <2> QED
      BY <2>2 DEF Types
  <1>4. CASE Write(p) \/ Fail(p) \/ Commit(p)
    BY <1>4 DEF Write, Fail, Commit, Types
  <1>5. CASE PurgeCommitted(p) \/ Catch(p)
    BY <1>5 DEF PurgeCommitted, Catch, Owe, Types
  <1>6. CASE Retry(p)
    BY <1>6 DEF Retry, Types
  <1>7. CASE Settle(p) \/ RunPurge(p) \/ PurgesDone(p)
    BY <1>7 DEF Settle, RunPurge, PurgesDone, Types
  <1>8. CASE CatchShared(p)
    BY <1>8 DEF CatchShared, Owe, Types
  <1>9. CASE CommitShared(p)
    BY <1>9 DEF CommitShared, Owe, Types
  <1>10. CASE RollBackCaller(p) \/ RollBackRows(p)
    BY <1>10 DEF RollBackCaller, RollBackRows, Owe, Types
  <1> QED
    BY <1>1, <1>2, <1>3, <1>4, <1>5, <1>6, <1>7, <1>8, <1>9, <1>10

(* Where a step of a request that neither opens nor ends it takes it *)
LEMMA StepsAtWork ==
  ASSUME TypeInv, NEW q \in Request,
         \/ QuietHook(q) \/ WritingHook(q) \/ Write(q) \/ Fail(q)
         \/ Commit(q) \/ PurgeCommitted(q) \/ Catch(q) \/ CatchShared(q) \/ RunPurge(q)
  PROVE  /\ phase[q] \in {"called", "committed", "purging"} \cup Working
         /\ phase'[q] \in {"committed", "purging"} \cup Working
  <1>1. Types
    BY DEF TypeInv
  <1>2. CASE QuietHook(q)
    BY <1>1, <1>2 DEF QuietHook, PhaseAfter, Types, Working
  <1>3. CASE WritingHook(q)
    <2>1. PICK r \in Row, own, takes, declares, refused \in BOOLEAN, old, new \in Stored :
            HookDoes(q, r, own, takes, declares, refused, old, new)
      BY <1>3, WritingHooksDo
    <2>2. phase'[q] \in Working
      BY <2>1 DEF HookDoes
    <2> QED
      BY <1>3, <2>2 DEF WritingHook
  <1>4. CASE Write(q) \/ Fail(q) \/ Commit(q)
    BY <1>1, <1>4 DEF Write, Fail, Commit, Types, Working
  <1>5. CASE PurgeCommitted(q) \/ Catch(q)
    BY <1>1, <1>5 DEF PurgeCommitted, Catch, Owe, Types, Working
  <1>6. CASE CatchShared(q)
    BY <1>1, <1>6 DEF CatchShared, Owe, Types, Working
  <1>7. CASE RunPurge(q)
    BY <1>1, <1>7 DEF RunPurge
  <1> QED
    BY <1>2, <1>3, <1>4, <1>5, <1>6, <1>7

(* A shared transaction goes on to its next call having made one. *)
LEMMA StepsBetweenCalls ==
  ASSUME TypeInv, NEW q \in Request, Settle(q) \/ PurgesDone(q)
  PROVE  /\ phase[q] \in {"written", "purging"} /\ calls'[q] = calls[q]
         /\ phase'[q] \in Nexts /\ (phase'[q] = "open" => calls[q] > 0)
  <1>1. Types /\ PhaseIsCoherent(q)
    BY DEF TypeInv
  <1>2. CASE Settle(q)
    <2>1. phase[q] = "written" /\ phase'[q] = "open" /\ calls' = calls
      BY <1>1, <1>2 DEF Settle, Types
    <2>2. calls[q] \in 1..Len(Calls(q)) /\ calls[q] \in Nat
      BY <1>1, <2>1 DEF PhaseIsCoherent, CallIsCoherent, Working, Types
    <2>3. calls[q] > 0
      BY <2>2
    <2> QED
      BY <2>1, <2>3 DEF Nexts
  <1>3. CASE PurgesDone(q)
    <2>1. phase[q] = "purging" /\ phase'[q] = due[q].next /\ calls' = calls
      BY <1>1, <1>3 DEF PurgesDone, Types
    <2> QED
      BY <1>1, <2>1 DEF PhaseIsCoherent, Types
  <1> QED
    BY <1>2, <1>3

LEMMA RequestsStayUntouched ==
  ASSUME TypeInv, [Next]_vars, NEW q \in Request, Untouched(q)
  PROVE  Untouched(q)'
  <1>1. Types
    BY DEF TypeInv
  <1>2. CASE UNCHANGED vars \/ Fill
    BY <1>2 DEF vars, Fill, Untouched, NoDeclarations
  <1>3. ASSUME NEW p \in Request, p # q,
               \/ Begin(p) \/ QuietHook(p) \/ WritingHook(p) \/ Write(p) \/ Fail(p)
               \/ Commit(p) \/ PurgeCommitted(p) \/ Catch(p) \/ Retry(p)
               \/ Settle(p) \/ CatchShared(p) \/ CommitShared(p)
               \/ RollBackCaller(p) \/ RollBackRows(p) \/ RunPurge(p) \/ PurgesDone(p)
        PROVE  Untouched(q)'
    <2>1. UNCHANGED <<phase[q], calls[q], attempt[q], sink[q], landed[q]>>
      BY <1>1, <1>3, OthersStayThere
    <2> QED
      BY <2>1 DEF Untouched, NoDeclarations
  <1>4. CASE \/ QuietHook(q) \/ WritingHook(q) \/ Write(q) \/ Fail(q) \/ Commit(q)
             \/ PurgeCommitted(q) \/ Catch(q) \/ CatchShared(q) \/ RunPurge(q)
    BY <1>4, StepsAtWork DEF Untouched, Working
  <1>5. CASE Begin(q) \/ CommitShared(q) \/ RollBackCaller(q) \/ RollBackRows(q)
    <2>1. phase'[q] # "open"
      BY <1>1, <1>5 DEF Begin, CommitShared, RollBackCaller, RollBackRows, Owe, Types
    <2> QED
      BY <2>1 DEF Untouched
  <1>6. CASE Retry(q)
    <2>1. attempt'[q] = attempt[q] + 1 /\ attempt[q] \in 1..MaxAttempts
      BY <1>1, <1>6 DEF Retry, Types
    <2> QED
      BY <2>1, AttemptAssumption DEF Untouched
  <1>7. CASE Settle(q) \/ PurgesDone(q)
    <2>1. calls'[q] = calls[q] /\ (phase'[q] = "open" => calls[q] > 0)
      BY <1>7, StepsBetweenCalls
    <2> QED
      BY <2>1 DEF Untouched
  <1> QED
    BY <1>2, <1>3, <1>4, <1>5, <1>6, <1>7 DEF Next

LEMMA InitOwes == Init => IInv
  <1> SUFFICES ASSUME Init PROVE IInv
    OBVIOUS
  <1>1. /\ TypeInv /\ EntryIsNamed /\ ~Stale
    BY InitTypes DEF Init, EntryIsNamed, Stale
  <1>2. /\ RowsAreLocked
        /\ \A q \in Request : OverlayIsOwed(q)
    BY DEF Init, RowsAreLocked, OverlayIsOwed, NoWrites
  <1>3. ASSUME NEW q \in Request
        PROVE  PinsAreHeld(q) /\ Untouched(q)
    <2>1. phase[q] = "open" /\ sink[q] = NoDeclarations /\ landed[q] = {}
      BY DEF Init
    <2>2. ~PinsReach(q)
      BY <2>1 DEF PinsReach, Reached, NoDeclarations
    <2> QED
      BY <2>1, <2>2 DEF PinsAreHeld, Untouched, Working
  <1> QED
    BY <1>1, <1>2, <1>3 DEF IInv, OwedInv, StaleIsOwed

LEMMA NextKeepsOwed ==
  ASSUME IInv, [Next]_vars
  PROVE  IInv'
  <1>1. TypeInv /\ EntryIsNamed /\ OwedInv /\ TypeInv' /\ EntryIsNamed'
    BY NextKeepsTypes, EntryStaysNamed DEF IInv
  <1>2. \A q \in Request : Untouched(q)'
    BY RequestsStayUntouched DEF IInv
  <1>3. CASE UNCHANGED vars
    <2>1. RowsAreLocked' /\ Stale' = Stale
      BY <1>1, <1>3 DEF vars, OwedInv, RowsAreLocked, Stale, Answer
    <2>2. \A p \in Request : Stands(p) /\ SameSight /\ read' = read /\ plan' = plan
      BY <1>3 DEF vars, Stands, SameSight
    <2>3. \A p \in Request : Owes(p) => Owes(p)'
      BY <1>1, <2>2, OthersStillOwe DEF TypeInv
    <2>4. ASSUME gaps = {}, NEW p \in Request
          PROVE  OverlayIsOwed(p)' /\ PinsAreHeld(p)'
      BY <1>1, <1>3, <2>2, <2>4, OthersStayOwed DEF OwedInv, vars
    <2>5. gaps' = gaps
      BY <1>3 DEF vars
    <2> QED
      BY <1>1, <1>2, <2>1, <2>3, <2>4, <2>5 DEF IInv, OwedInv, StaleIsOwed
  <1>4. ASSUME NEW q \in Request,
               \/ Begin(q) \/ QuietHook(q) \/ WritingHook(q) \/ Write(q) \/ Fail(q)
               \/ Commit(q) \/ PurgeCommitted(q) \/ Catch(q) \/ Retry(q)
        PROVE  OwedInv'
    BY <1>1, <1>4, BeginKeepsOwed, QuietHookKeepsOwed, WritingHookKeepsOwed, WriteKeepsOwed,
       FailKeepsOwed, CommitKeepsOwed, PurgeCommittedKeepsOwed, CatchKeepsOwed, RetryKeepsOwed
  <1>5. ASSUME NEW q \in Request,
               \/ Settle(q) \/ CatchShared(q) \/ CommitShared(q) \/ RollBackCaller(q)
               \/ RollBackRows(q) \/ RunPurge(q)
        PROVE  OwedInv'
    BY <1>1, <1>5, SettleKeepsOwed, CatchSharedKeepsOwed, CommitSharedKeepsOwed,
       RollBackCallerKeepsOwed, RollBackRowsKeepsOwed, RunPurgeKeepsOwed
  <1>6. ASSUME NEW q \in Request, PurgesDone(q)
        PROVE  OwedInv'
    BY <1>1, <1>6, PurgesDoneKeepsOwed
  <1>7. CASE Fill
    BY <1>1, <1>2, <1>7, FillKeepsOwed DEF IInv
  <1> QED
    BY <1>1, <1>2, <1>3, <1>4, <1>5, <1>6, <1>7 DEF Next, IInv

(* A request that owes a purge is at work. *)
LEMMA OwingIsWriting ==
  ASSUME TypeInv, NEW q \in Request, Untouched(q), Owes(q)
  PROVE  q \in Writing
  <1>1. phase[q] # "over"
    BY DEF Owes, ServiceOwes, CallerOwes, RowsOwe, Working
  <1>2. ~(phase[q] = "open" /\ calls[q] = 0 /\ attempt[q] = 1)
    <2>1. SUFFICES ASSUME phase[q] = "open", sink[q] = NoDeclarations, landed[q] = {}
                   PROVE  FALSE
      BY DEF Untouched
    <2>2. ~PinsReach(q)
      BY <2>1 DEF PinsReach, Reached, NoDeclarations
    <2> QED
      BY <2>1, <2>2 DEF Owes, ServiceOwes, CallerOwes, RowsOwe, Working
  <1> QED
    BY <1>1, <1>2 DEF Writing

LEMMA SettledIsFresh == IInv => SettledReadIsFresh
  BY OwingIsWriting DEF IInv, OwedInv, StaleIsOwed, SettledReadIsFresh, Settled

(* Once every request has ended, the cached read answers what the database    *)
(* does (services/items.ts): for any number of requests, calls, rows, reads,  *)
(* hooks that report what they write, lost races and rollbacks, as long as    *)
(* no purge was missed in one of the ways `gaps` lists.                       *)
THEOREM SettledReadsAreFresh == Spec => []SettledReadIsFresh
  <1>1. IInv /\ [Next]_vars => IInv'
    BY NextKeepsOwed
  <1> QED
    BY InitOwes, <1>1, SettledIsFresh, PTL DEF Spec

-----------------------------------------------------------------------------
(* The requests are the writers of a read-through cache *)

(* What the observed cache answers, as long as no purge was missed *)
Cached == IF gaps = {} THEN entry ELSE None

LEMMA FillIsPromised ==
  ASSUME Cached = None, Cached' = Answer(rows), Answer(rows)' = Answer(rows), Writing' = Writing
  PROVE  Promise!Next
  BY DEF Promise!Next, Promise!Fill, Cached

LEMMA StartIsPromised ==
  ASSUME NEW q \in Request, q \notin Writing, Writing' = Writing \cup {q},
         Answer(rows)' = Answer(rows), Cached' = Cached
  PROVE  Promise!Next
  BY DEF Promise!Next, Promise!Start, Cached

LEMMA WorkIsPromised ==
  ASSUME NEW q \in Request, q \in Writing, Writing' = Writing, Cached' \in {Cached, None}
  PROVE  Promise!Next
  BY DEF Promise!Next, Promise!Work, Cached

LEMMA FinishIsPromised ==
  ASSUME NEW q \in Request, q \in Writing, Writing' = Writing \ {q},
         Cached' \in {Cached, None}, Answer(rows)' = Answer(rows),
         Writing' = {} => Cached' \in {None, Answer(rows)'}
  PROVE  Promise!Next
  BY DEF Promise!Next, Promise!Finish, Promise!Right, Cached

LEMMA GapsOnlyGrow ==
  ASSUME [Next]_vars
  PROVE  gaps \subseteq gaps'
  <1>1. CASE UNCHANGED vars \/ Fill
    BY <1>1 DEF vars, Fill
  <1>2. ASSUME NEW q \in Request,
               \/ Begin(q) \/ QuietHook(q) \/ Fail(q) \/ Commit(q) \/ PurgeCommitted(q)
               \/ Catch(q) \/ Settle(q) \/ CommitShared(q) \/ RollBackRows(q)
               \/ RunPurge(q) \/ PurgesDone(q)
        PROVE  gaps' = gaps
    BY <1>2 DEF Begin, QuietHook, Fail, Commit, PurgeCommitted, Catch, Settle, CommitShared,
         RollBackRows, RunPurge, PurgesDone
  <1>3. ASSUME NEW q \in Request,
               Write(q) \/ CatchShared(q) \/ RollBackCaller(q)
        PROVE  gaps \subseteq gaps'
    BY <1>3 DEF Write, CatchShared, RollBackCaller
  <1>4. ASSUME NEW q \in Request, WritingHook(q)
        PROVE  gaps \subseteq gaps'
    BY <1>4 DEF WritingHook
  <1>5. ASSUME NEW q \in Request, Retry(q)
        PROVE  gaps \subseteq gaps'
    BY <1>5 DEF Retry
  <1> QED
    BY <1>1, <1>2, <1>3, <1>4, <1>5 DEF Next

(* Only a fill gives an answer to the cache. *)
LEMMA CachedStaysOrGoes ==
  ASSUME TypeInv, [Next]_vars, ~Fill
  PROVE  Cached' \in {Cached, None}
  <1>1. entry' \in {entry, None}
    BY StepsOfTheEntry DEF Purge
  <1> QED
    BY <1>1, GapsOnlyGrow DEF Cached

LEMMA UnwrittenStaysCached ==
  ASSUME UNCHANGED <<rows, read, entry, gaps>>
  PROVE  Answer(rows)' = Answer(rows) /\ Cached' = Cached
  BY DEF Answer, Cached

(* The requests at work change by one at most. *)
LEMMA WritingOfOne ==
  ASSUME Types, NEW q \in Request,
         \/ Begin(q) \/ QuietHook(q) \/ WritingHook(q) \/ Write(q) \/ Fail(q)
         \/ Commit(q) \/ PurgeCommitted(q) \/ Catch(q) \/ Retry(q)
         \/ Settle(q) \/ CatchShared(q) \/ CommitShared(q)
         \/ RollBackCaller(q) \/ RollBackRows(q) \/ RunPurge(q) \/ PurgesDone(q)
  PROVE  Writing' \ {q} = Writing \ {q}
  <1>1. \A p \in Request \ {q} : UNCHANGED <<phase[p], calls[p], attempt[p]>>
    BY OthersStayThere
  <1> QED
    BY <1>1 DEF Writing

LEMMA SettledIsRight == IInv /\ Writing = {} => Cached \in {None, Answer(rows)}
  BY SettledIsFresh DEF SettledReadIsFresh, Settled, Stale, Cached

LEMMA StepsArePromised ==
  ASSUME IInv, [Next]_vars
  PROVE  [Promise!Next]_(Promise!vars)
  <1>1. TypeInv /\ Types /\ IInv'
    BY NextKeepsOwed DEF IInv, TypeInv
  <1>2. Writing' = {} => Cached' \in {None, Answer(rows)'}
    <2>1. (IInv /\ Writing = {} => Cached \in {None, Answer(rows)})'
      BY SettledIsRight, PTL
    <2> QED
      BY <1>1, <2>1
  <1>3. CASE UNCHANGED vars
    BY <1>3 DEF vars, Promise!vars, Answer, Writing
  <1>4. CASE Fill
    <2>1. /\ entry = None /\ entry' = Answer(rows) /\ Answer(rows)' = Answer(rows)
          /\ gaps' = gaps /\ Writing' = Writing
      BY <1>4 DEF Fill, Answer, Writing
    <2>2. CASE gaps = {}
      BY <2>1, <2>2, FillIsPromised DEF Cached
    <2>3. CASE gaps # {}
      BY <2>1, <2>3 DEF Promise!vars
    <2> QED
      BY <2>2, <2>3
  <1>5. ASSUME NEW q \in Request,
               \/ QuietHook(q) \/ WritingHook(q) \/ Write(q) \/ Fail(q) \/ Commit(q)
               \/ PurgeCommitted(q) \/ Catch(q) \/ CatchShared(q) \/ RunPurge(q), ~Fill
        PROVE  Promise!Next
    <2>1. q \in Writing /\ q \in Writing'
      BY <1>1, <1>5, StepsAtWork DEF Writing, Working
    <2>2. Writing' = Writing
      BY <1>1, <1>5, <2>1, WritingOfOne
    <2> QED
      BY <1>1, <1>5, <2>1, <2>2, CachedStaysOrGoes, WorkIsPromised
  <1>6. ASSUME NEW q \in Request, Retry(q), ~Fill
        PROVE  Promise!Next
    <2>1. /\ attempt'[q] = attempt[q] + 1 /\ attempt[q] \in 1..MaxAttempts
          /\ phase'[q] = "open"
          /\ phase[q] \in {"answered", "written"} \/ (phase[q] = "open" /\ calls[q] > 0)
          /\ calls[q] \in Nat
      BY <1>1, <1>6 DEF Retry, Types
    <2>2. attempt'[q] # 1
      BY <2>1, AttemptAssumption
    <2>3. q \in Writing /\ q \in Writing'
      BY <2>1, <2>2 DEF Writing
    <2>4. Writing' = Writing
      BY <1>1, <1>6, <2>3, WritingOfOne
    <2> QED
      BY <1>1, <1>6, <2>3, <2>4, CachedStaysOrGoes, WorkIsPromised
  <1>7. ASSUME NEW q \in Request, Settle(q) \/ PurgesDone(q), phase'[q] # "over", ~Fill
        PROVE  Promise!Next
    <2>1. /\ phase[q] \in {"written", "purging"} /\ calls'[q] = calls[q]
          /\ phase'[q] = "open" => calls[q] > 0
      BY <1>1, <1>7, StepsBetweenCalls
    <2>2. calls[q] > 0 => calls[q] # 0
      OBVIOUS
    <2>3. q \in Writing /\ q \in Writing'
      BY <1>7, <2>1, <2>2 DEF Writing
    <2>4. Writing' = Writing
      BY <1>1, <1>7, <2>3, WritingOfOne
    <2> QED
      BY <1>1, <1>7, <2>3, <2>4, CachedStaysOrGoes, WorkIsPromised
  <1>8. ASSUME NEW q \in Request, PurgesDone(q), phase'[q] = "over"
        PROVE  Promise!Next
    <2>1. phase[q] = "purging" /\ UNCHANGED <<rows, read, entry, gaps>>
      BY <1>8 DEF PurgesDone, store
    <2>2. q \in Writing /\ q \notin Writing'
      BY <1>8, <2>1 DEF Writing
    <2>3. Writing' = Writing \ {q}
      BY <1>1, <1>8, <2>2, WritingOfOne
    <2>4. Writing' = {} => Cached' \in {None, Answer(rows)'}
      BY <1>2
    <2> QED
      BY <2>1, <2>2, <2>3, <2>4, UnwrittenStaysCached, FinishIsPromised
  <1>9. ASSUME NEW q \in Request, RollBackCaller(q), ~Fill
        PROVE  Promise!Next
    <2>1. /\ phase[q] = "open" /\ calls[q] > 0 /\ phase'[q] = "over"
          /\ UNCHANGED <<rows, read>> /\ calls[q] \in Nat
      BY <1>1, <1>9 DEF RollBackCaller, store, Types
    <2>2. q \in Writing /\ q \notin Writing'
      BY <2>1 DEF Writing
    <2>3. Writing' = Writing \ {q}
      BY <1>1, <1>9, <2>2, WritingOfOne
    <2>4. Writing' = {} => Cached' \in {None, Answer(rows)'}
      BY <1>2
    <2>5. Answer(rows)' = Answer(rows)
      BY <2>1 DEF Answer
    <2> QED
      BY <1>1, <1>9, <2>2, <2>3, <2>4, <2>5, CachedStaysOrGoes, FinishIsPromised
  <1>10. ASSUME NEW q \in Request, Begin(q) \/ CommitShared(q) \/ RollBackRows(q), ~Fill
        PROVE  Promise!Next
    <2>1. phase[q] \in {"open", "rollback"} /\ phase'[q] \in {"called", "purging"}
      BY <1>1, <1>10 DEF Begin, CommitShared, RollBackRows, Owe, Types
    <2>2. q \in Writing'
      BY <2>1 DEF Writing
    <2>3. CASE q \in Writing
      <3>1. Writing' = Writing
        BY <1>1, <1>10, <2>2, <2>3, WritingOfOne
      <3> QED
        BY <1>1, <1>10, <2>3, <3>1, CachedStaysOrGoes, WorkIsPromised
    <2>4. CASE q \notin Writing
      <3>1. Writing' = Writing \cup {q}
        BY <1>1, <1>10, <2>2, <2>4, WritingOfOne
      <3>2. phase[q] = "open" /\ calls[q] = 0
        BY <2>1, <2>4 DEF Writing
      <3>3. UNCHANGED <<rows, read, entry, gaps>>
        <4>1. CASE Begin(q) \/ RollBackRows(q)
          BY <4>1 DEF Begin, RollBackRows, store
        <4>2. CASE CommitShared(q)
          <5>1. overlay[q] = NoWrites
            BY <1>1, <3>2 DEF TypeInv, PhaseIsCoherent
          <5>2. rows' = [r \in Row |-> rows[r]]
            BY <4>2, <5>1 DEF CommitShared, CommitWrites, Visible, NoWrites
          <5>3. rows' = rows
            BY <1>1, <5>2 DEF Types, Tables
          <5> QED
            BY <4>2, <5>3 DEF CommitShared
        <4> QED
          BY <1>10, <4>1, <4>2
      <3> QED
        BY <2>4, <3>1, <3>3, UnwrittenStaysCached, StartIsPromised
    <2> QED
      BY <2>3, <2>4
  <1>11. ASSUME NEW q \in Request,
                \/ Begin(q) \/ QuietHook(q) \/ WritingHook(q) \/ Write(q) \/ Fail(q)
                \/ Commit(q) \/ PurgeCommitted(q) \/ Catch(q) \/ Retry(q)
                \/ Settle(q) \/ CatchShared(q) \/ CommitShared(q)
                \/ RollBackCaller(q) \/ RollBackRows(q) \/ RunPurge(q) \/ PurgesDone(q),
                ~Fill
         PROVE  Promise!Next
    <2>1. Settle(q) => phase'[q] # "over"
      BY <1>1 DEF Settle, Types
    <2> QED
      BY <1>5, <1>6, <1>7, <1>8, <1>9, <1>10, <1>11, <2>1
  <1> QED
    BY <1>3, <1>4, <1>11 DEF Next

(* Requests are the writers of a read-through cache (services/items.ts): the  *)
(* observed read is answered from the database as it is, or as it was while a *)
(* request that has not ended yet owes the purge; only requests take an       *)
(* answer away, and the last one to end leaves nothing stale.                 *)
THEOREM RequestsArePromised == Spec => ImplementsReadThrough
  <1>1. Init => Promise!Init
    BY DEF Init, Promise!Init, Writing
  <1>2. IInv /\ [Next]_vars => [Promise!Next]_(Promise!vars)
    BY StepsArePromised
  <1>3. IInv /\ [Next]_vars => IInv'
    BY NextKeepsOwed
  <1> QED
    BY InitOwes, <1>1, <1>2, <1>3, PTL DEF Spec, ImplementsReadThrough, Promise!Spec
=============================================================================
