------------------------ MODULE ScopedCacheIndexExpiry ------------------------
(* The expiries of one collection's index, in milliseconds.                   *)
(*                                                                            *)
(* Three kinds of keys expire, each on its own: the entries, the index sets   *)
(* naming entries, and the index-key set naming the index sets. A purge       *)
(* reaches an entry only through the two others, so neither may go first      *)
(* (scoped-cache/redis-store.ts). A step is one script, or time passing: what *)
(* is kept of a key is what redis says is left of it.                         *)
EXTENDS Integers

CONSTANTS
  Set,     \* the index sets of the collection
  Entry,   \* the entries filed in them
  CacheTtl,\* the TTLs entries are written with, 0 for none
  Factor,  \* cache_settings.scoped_index_ttl_factor, a whole number of 1 or more
  Elapse,  \* bound: how much time passes at once
  MaxFill  \* how long a fill may take from its filing to its entry

ASSUME TtlAssumption == CacheTtl \subseteq Nat
ASSUME FactorAssumption == Factor \in Nat \ {0}
ASSUME TimeAssumption == Elapse \subseteq Nat \ {0} /\ MaxFill \in Nat

VARIABLES
  keys,  \* what is left of the index-key set
  named, \* the sets it names: redis holds no empty set
  left,  \* left[s]: what is left of the index set s
  fill   \* fill[e]: an entry and the sets it is filed in

vars == <<keys, named, left, fill>>

(* What is left of a key redis does not hold, and of one it holds for ever.   *)
Missing == 0
Forever == -1

Outlives(a, b) == a = Forever \/ (b # Forever /\ a >= b)

(* `TTL` rounds to the second; -1 says no expiry, -2 no key. *)
TTL(ms) ==
  IF ms = Missing THEN -2 ELSE IF ms = Forever THEN -1 ELSE (ms + 500) \div 1000

NoFill == [state |-> "none", sets |-> {}, ttl |-> 0, waited |-> 0, life |-> Missing]

Init ==
  /\ keys = Missing /\ named = {}
  /\ left = [s \in Set |-> Missing]
  /\ fill = [e \in Entry |-> NoFill]

-----------------------------------------------------------------------------
(* The expiry of an index set, for entries of a TTL: rounded up to a second. *)
Want(ttl) == (ttl * Factor + 999) \div 1000

(* What the index-key set is kept for without the second a rounding may hide *)
KeptRounded(s, want) == IF TTL(left[s]) >= want THEN TTL(left[s]) * 1000 ELSE want * 1000

(* What the index-key set must be kept for to outlive the set of a filing: a  *)
(* set kept at least this call's expiry counts one second more.               *)
Kept(s, want) == IF TTL(left[s]) >= want THEN (TTL(left[s]) + 1) * 1000 ELSE want * 1000

(* An expiry of the index-key set only moves out. *)
MoveKeysOut(longest) ==
  keys' = IF keys = Missing \/ (keys # Forever /\ keys < longest) THEN longest ELSE keys

(* A bare EXPIRE, which cuts short what an earlier filing asked for *)
SetExpiry(s, want) == IF want = 0 THEN Forever ELSE want * 1000

(* An expiry of an index set only moves out, too, as `TTL` reads it. *)
FiledExpiry(s, want) ==
  IF want = 0 THEN Forever
  ELSE IF left[s] = Missing \/ (left[s] # Forever /\ TTL(left[s]) < want)
    THEN want * 1000 ELSE left[s]

(* A script that files and does not name *)
FileUnnamed(sets, want) ==
  /\ UNCHANGED named
  /\ \E s \in sets: MoveKeysOut(Kept(s, want))
  /\ left' = [s \in Set |-> IF s \in sets THEN FiledExpiry(s, want) ELSE left[s]]

(* The file script: name every set, move the index-key set's expiry out, and  *)
(* only then file.                                                            *)
IndexFileScript(sets, want) ==
  /\ named' = named \cup sets
  /\ IF want = 0 \/ \E s \in sets: left[s] = Forever
     THEN keys' = Forever
     ELSE \E s \in sets: /\ \A t \in sets: Kept(t, want) <= Kept(s, want)
                         /\ MoveKeysOut(Kept(s, want))
  /\ left' = [s \in Set |-> IF s \in sets THEN FiledExpiry(s, want) ELSE left[s]]

(* A fill files its entry before it writes it. *)
FileIndexedEntries(e, sets, ttl) ==
  /\ fill[e].state = "none"
  /\ IndexFileScript(sets, Want(ttl))
  /\ fill' = [fill EXCEPT ![e] =
                [NoFill EXCEPT !.state = "filed", !.sets = sets, !.ttl = ttl]]

WriteEntry(e) ==
  /\ fill[e].state = "filed"
  /\ fill' = [fill EXCEPT ![e].state = "cached",
                ![e].life = IF fill[e].ttl = 0 THEN Forever ELSE fill[e].ttl]
  /\ UNCHANGED <<keys, named, left>>

(* The write fails, or a purge drops the entry. *)
DropEntry(e) ==
  /\ fill[e].state # "none"
  /\ fill' = [fill EXCEPT ![e] = NoFill]
  /\ UNCHANGED <<keys, named, left>>

-----------------------------------------------------------------------------
(* The register script of a reap: the sets of a page that still exist *)
RegisterCollectionIndexKeys(page) ==
  LET live == {s \in page : left[s] # Missing} IN
  /\ live # {}
  /\ named' = named \cup live
  /\ IF \E s \in live: left[s] = Forever
     THEN keys' = Forever
     ELSE \E s \in live: /\ \A t \in live: left[t] <= left[s]
                         /\ MoveKeysOut(left[s])
  /\ UNCHANGED <<left, fill>>

(* A name goes; an index-key set that names nothing goes with it. *)
Unname(s) ==
  /\ named' = named \ {s}
  /\ keys' = IF named \subseteq {s} THEN Missing ELSE keys

PruneCollectionIndexKeys(s) ==
  /\ s \in named /\ left[s] = Missing
  /\ Unname(s)
  /\ UNCHANGED <<left, fill>>

(* The set goes to a purge, with the entries it names, which the purge drops. *)
Take(s) ==
  /\ left' = [left EXCEPT ![s] = Missing]
  /\ fill' = [e \in Entry |-> [fill[e] EXCEPT !.sets = @ \ {s}]]

SweepMove(s) ==
  /\ s \in named \/ left[s] # Missing
  /\ Unname(s)
  /\ Take(s)

DropIndex(s) == left[s] # Missing /\ Take(s) /\ UNCHANGED <<keys, named>>

(* Redis evicts the index-key set: its names are lost, the sets are not. *)
EvictIndexKeys ==
  /\ keys # Missing
  /\ keys' = Missing /\ named' = {}
  /\ UNCHANGED <<left, fill>>

-----------------------------------------------------------------------------
After(ms, d) == IF ms = Forever THEN Forever ELSE IF ms > d THEN ms - d ELSE Missing

Waits(f, d) ==
  IF f.state = "filed" THEN [f EXCEPT !.waited = @ + d]
  ELSE IF f.state = "cached" /\ After(f.life, d) # Missing
    THEN [f EXCEPT !.life = After(f.life, d)] ELSE NoFill

(* Time passes; a fill does not take longer than MaxFill. *)
Pass(d) ==
  /\ \A e \in Entry: fill[e].state = "filed" => fill[e].waited + d <= MaxFill
  /\ keys' = After(keys, d)
  /\ named' = IF keys' = Missing THEN {} ELSE named
  /\ left' = [s \in Set |-> After(left[s], d)]
  /\ fill' = [e \in Entry |-> Waits(fill[e], d)]

EntryNext(e) ==
  \/ \E sets \in (SUBSET Set) \ {{}}, ttl \in CacheTtl: FileIndexedEntries(e, sets, ttl)
  \/ WriteEntry(e) \/ DropEntry(e)

SetNext(s) == PruneCollectionIndexKeys(s) \/ SweepMove(s) \/ DropIndex(s)

Next ==
  \/ \E e \in Entry: EntryNext(e)
  \/ \E page \in SUBSET Set: RegisterCollectionIndexKeys(page)
  \/ \E s \in Set: SetNext(s)
  \/ EvictIndexKeys
  \/ \E d \in Elapse: Pass(d)

Spec == Init /\ [][Next]_vars

-----------------------------------------------------------------------------
Left == Nat \cup {Forever}

(* The types; the index-key set is there while it names a set. *)
TypeOK ==
  /\ keys \in Left /\ named \subseteq Set /\ left \in [Set -> Left]
  /\ fill \in [Entry -> [state : {"none", "filed", "cached"}, sets : SUBSET Set,
                         ttl : CacheTtl \cup {0}, waited : 0 .. MaxFill, life : Left]]
  /\ keys = Missing <=> named = {}

(* The index-key set outlives every set it names: no expiry leaves a set that *)
(* a collection-wide purge does not find, whatever order fills of any TTL,    *)
(* reaps, sweeps, drops and evictions come in.                                *)
IndexKeysOutliveTheirSets ==
  \A s \in named: Outlives(keys, left[s])

(* An index set outlives every entry filed in it that no purge took over, so  *)
(* no expiry leaves a cached entry a purge cannot reach.                      *)
SetsOutliveTheirEntries ==
  \A e \in Entry: fill[e].state = "cached" =>
    \A s \in fill[e].sets: Outlives(left[s], fill[e].life)
=============================================================================
