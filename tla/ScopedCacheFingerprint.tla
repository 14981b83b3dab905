------------------------- MODULE ScopedCacheFingerprint -------------------------
(* What a cached read depends on, where the index files it, and what a purge  *)
(* reaches: the rules of one collection, with no state of their own.          *)
(*                                                                            *)
(* A fingerprint is the values a read pinned some fields to, and the fields   *)
(* it views (scoped-cache/fingerprint.ts). A written row is read as a         *)
(* fingerprint too: it pins what a read may pin. The index files a read in    *)
(* sets named by what it pins (redis-store.ts), a write reads back the sets   *)
(* its rows name, and drops what its rows match (purge.ts).                   *)
(* The scope fields are columns of the collection itself: a path through its  *)
(* relations reaches the index as one more pinned field.                      *)
EXTENDS Naturals, Sequences, FiniteSets

CONSTANTS
  Field,       \* the columns of the collection
  PrimaryKey,  \* its primary key
  ScopeFields, \* its scoped_cache_fields, in declared order
  AnyField     \* the `*` of a view

ASSUME FieldAssumption ==
  PrimaryKey \in Field /\ ScopeFields \in Seq(Field) /\ AnyField \notin Field

Scopes == {ScopeFields[i] : i \in DOMAIN ScopeFields}

(* The fields a read can pin, and a written row answers for. *)
PinnableFields == {PrimaryKey} \cup Scopes

-----------------------------------------------------------------------------
(* Fingerprints *)

Pinned(fp) == DOMAIN fp.pinned

Pins(fp, f) == IF f \in Pinned(fp) THEN fp.pinned[f] ELSE {}

Bare == [pinned |-> << >>, view |-> {}]

IsBare(fp) == Pinned(fp) = {}

(* A read pins fields it can pin, each to some value, and views columns. *)
IsRead(fp) ==
  /\ Pinned(fp) \subseteq PinnableFields
  /\ \A f \in Pinned(fp) : fp.pinned[f] # {}
  /\ fp.view \subseteq Field \cup {AnyField}

(* A row's fingerprint: it views nothing, being no read. *)
RowFingerprint(row) ==
  [pinned |-> [f \in PinnableFields \cap DOMAIN row |-> {row[f]}], view |-> {}]

(* Whether a row satisfies all a read pinned together. *)
MatchesRow(fp, row) == \A f \in Pinned(fp) : Pins(row, f) \cap fp.pinned[f] # {}

(* Every field is what a write changed that put a row in or took it out: the  *)
(* code's null. A read viewing no field is taken to view them all.            *)
ViewFieldsAreTouched(view, changed) ==
  changed = Field \/ view = {} \/ AnyField \in view \/ view \cap changed # {}

(* What a read answers: the rows of its slice, with the columns it views. *)
AnswerOf(fp, state, absent) ==
  LET viewed == IF fp.view = {} \/ AnyField \in fp.view THEN Field ELSE fp.view
      present == {r \in DOMAIN state : state[r] # absent}
      slice == {r \in present : MatchesRow(fp, RowFingerprint(state[r]))}
  IN {[f \in {PrimaryKey} \cup viewed |-> state[r][f]] : r \in slice}

(* Whether an entry leaves room for a row of what a declared pin names. *)
CouldContainPin(fp, declared) ==
  \A f \in Pinned(declared) :
    f \in Pinned(fp) => fp.pinned[f] \cap declared.pinned[f] # {}

(* A field a read pinned is one it views, beside those it declares. *)
ViewedFields(fp) == IF fp.view = {} THEN {} ELSE fp.view \cup Pinned(fp)

PurgedBy(fp, rows, changed) ==
  /\ ViewFieldsAreTouched(ViewedFields(fp), changed)
  /\ \E row \in rows : MatchesRow(fp, row)

(* A pin naming nothing reaches the reads that could not be narrowed, only. *)
ReachedByPin(fp, declared) ==
  IF IsBare(declared) THEN IsBare(fp) ELSE CouldContainPin(fp, declared)

-----------------------------------------------------------------------------
(* The sets of the index, by name *)

BareKey == <<"bare">>
IndexKey(v) == <<"index", v>>
HomePinKey(f, v) == <<"pin", f, v>>

(* The field the index is split by: the first declared of the deepest chains, *)
(* which columns of the collection itself make one hop deep all.              *)
HasIndexPath == ScopeFields # << >>
IndexPath == Head(ScopeFields)

IndexValues(fp) == IF HasIndexPath THEN Pins(fp, IndexPath) ELSE {}

RankedPins(fp) == {i \in DOMAIN ScopeFields : ScopeFields[i] \in Pinned(fp)}

(* The field a read off the key and the index path is filed by: the first     *)
(* declared it pins, else the one with the fewest values.                     *)
HomePin(fp) ==
  IF RankedPins(fp) # {}
  THEN ScopeFields[CHOOSE i \in RankedPins(fp) : \A j \in RankedPins(fp) : i <= j]
  ELSE CHOOSE f \in Pinned(fp) :
         \A g \in Pinned(fp) : Cardinality(fp.pinned[f]) <= Cardinality(fp.pinned[g])

(* The sets a read is filed in: the key's, else the index path's, else its    *)
(* home pin's, one per value, else the bare one.                              *)
IndexKeys(fp) ==
  CASE PrimaryKey \in Pinned(fp) -> {HomePinKey(PrimaryKey, v) : v \in Pins(fp, PrimaryKey)}
    [] PrimaryKey \notin Pinned(fp) /\ IndexValues(fp) # {} ->
         {IndexKey(v) : v \in IndexValues(fp)}
    [] IsBare(fp) -> {BareKey}
    [] OTHER -> {HomePinKey(HomePin(fp), v) : v \in Pins(fp, HomePin(fp))}

(* The sets the rows of a write name: the bare one, those of their values at  *)
(* the index path, and one per field and value they carry.                    *)
RowIndexKeys(rows) == {BareKey} \cup {IndexKey(v) : v \in UNION {IndexValues(r) : r \in rows}}

HomePinKeysOf(fp) == UNION {{HomePinKey(f, v) : v \in fp.pinned[f]} : f \in Pinned(fp)}

RowHomePinKeys(rows) == UNION {HomePinKeysOf(r) : r \in rows}

(* The sets of a read a row-driven purge reads back, and a pin-driven one: the *)
(* pins' own with every home pin's when they all pin the index path.           *)
FoundByRows(filed, rows) == filed \cap (RowIndexKeys(rows) \cup RowHomePinKeys(rows))

FoundByPins(filed, declared) ==
  IF HasIndexPath /\ \A d \in declared : IndexPath \in Pinned(d)
  THEN {k \in filed : k \in RowIndexKeys(declared) \/ k[1] = "pin"}
  ELSE filed

(* A prune that leaves every set but the ones an entry was found in *)
PrunedNowhereElse(fp) == {}

(* The sets a prune takes a member out of, beside the ones it was found in. *)
PrunedIndexKeys(fp) ==
  CASE IndexValues(fp) # {} ->
         {IndexKey(v) : v \in IndexValues(fp)}
           \cup UNION {{HomePinKey(f, v) : v \in fp.pinned[f]} : f \in Pinned(fp) \ {IndexPath}}
    [] IndexValues(fp) = {} /\ ~IsBare(fp) -> HomePinKeysOf(fp)
    [] OTHER -> {BareKey}

-----------------------------------------------------------------------------
(* Snapshots of the rows a mutation writes: the columns of each row that is   *)
(* there, by key. Where nothing is scoped no row is read, and its key is all  *)
(* there is, of rows that are gone too.                                       *)

Snapshot(stored, keys, absent) ==
  IF ScopeFields = << >>
  THEN [k \in keys |-> [f \in {PrimaryKey} |-> k]]
  ELSE [k \in {x \in keys : stored[x] # absent} |-> stored[k]]

(* An unknown difference reads as every field. *)
ChangedFields(before, after) ==
  IF \/ Cardinality(DOMAIN before) # Cardinality(DOMAIN after)
     \/ \E k \in DOMAIN after : k \notin DOMAIN before
     \/ ScopeFields = << >> /\ DOMAIN after # {}
  THEN Field
  ELSE {f \in Field : \E k \in DOMAIN after : before[k][f] # after[k][f]}

Fingerprints(snapshot) == {RowFingerprint(snapshot[k]) : k \in DOMAIN snapshot}

-----------------------------------------------------------------------------
(* What a mutation asks of a purge: the collection whole, or its own slices,  *)
(* bound to the rows it wrote when `driven`, with the bare fingerprint or     *)
(* without, and what its hooks declared.                                      *)

WholePurge(bare, declared) ==
  [whole |-> TRUE, own |-> {}, driven |-> FALSE, changed |-> {},
   bare |-> bare, declared |-> declared]

SlicesPurge(own, changed, bare, declared) ==
  [whole |-> FALSE, own |-> own, driven |-> own # {}, changed |-> changed,
   bare |-> bare, declared |-> declared]

(* One purge for two of the same transaction. *)
MergeRequests(p, q) ==
  [whole |-> p.whole \/ q.whole,
   own |-> IF p.whole \/ q.whole THEN {} ELSE p.own \cup q.own,
   driven |-> p.driven /\ q.driven,
   changed |-> p.changed \cup q.changed,
   bare |-> p.bare,
   declared |-> p.declared \cup q.declared]

(* What is swept by pin: what the hooks declared, and the slices no row bounds. *)
SweptByPin(p) ==
  p.declared \cup
    (IF p.whole \/ p.driven THEN {} ELSE p.own \cup (IF p.bare THEN {Bare} ELSE {}))

(* The sets of a read in which one of the sweeps of a purge finds it matched. *)
FoundBy(p, fp, filed) ==
  UNION {
    IF p.whole THEN filed ELSE {},
    IF p.driven /\ (p.bare \/ ~IsBare(fp)) /\ PurgedBy(fp, p.own, p.changed)
      THEN FoundByRows(filed, p.own) ELSE {},
    IF \E d \in SweptByPin(p) : ReachedByPin(fp, d)
      THEN FoundByPins(filed, SweptByPin(p)) ELSE {}}

=============================================================================
