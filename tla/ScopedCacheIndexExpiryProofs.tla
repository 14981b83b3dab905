--------------------- MODULE ScopedCacheIndexExpiryProofs ---------------------
(* Proofs about ScopedCacheIndexExpiry, for any sets, entries, TTLs, factor   *)
(* and steps of time.                                                         *)
EXTENDS ScopedCacheIndexExpiry, TLAPS

-----------------------------------------------------------------------------
(* Expiries and how they compare *)

LEMMA OutlivesTransitive ==
  ASSUME NEW a \in Left, NEW b \in Left, NEW c \in Left, Outlives(a, b), Outlives(b, c)
  PROVE  Outlives(a, c)
  BY DEF Left, Outlives, Forever

(* TTL is right to half a second. *)
LEMMA TTLRounds ==
  ASSUME NEW ms \in Nat \ {0}
  PROVE  /\ TTL(ms) \in Nat
         /\ TTL(ms) * 1000 <= ms + 500
         /\ ms < TTL(ms) * 1000 + 500
  BY DEF TTL, Missing, Forever

(* The expiry a TTL asks for is a whole number of seconds, 0 only for none. *)
LEMMA WantType ==
  ASSUME NEW ttl \in Nat
  PROVE  Want(ttl) \in Nat /\ (Want(ttl) = 0 <=> ttl = 0)
  <1>. DEFINE product == ttl * Factor
  <1>1. product \in Nat /\ (product = 0 <=> ttl = 0)
    BY FactorAssumption DEF FactorAssumption
  <1>2. ASSUME NEW p \in Nat
        PROVE  (p + 999) \div 1000 \in Nat /\ ((p + 999) \div 1000 = 0 <=> p = 0)
    OBVIOUS
  <1>. HIDE DEF product
  <1>3. (product + 999) \div 1000 \in Nat /\ ((product + 999) \div 1000 = 0 <=> product = 0)
    BY <1>1, <1>2
  <1>. QED BY <1>1, <1>3 DEF Want, product

(* A filing only moves the expiry of an index set out, and keeps it at most   *)
(* half a second short of what it asked for.                                  *)
LEMMA FiledMovesOut ==
  ASSUME TypeOK, NEW s \in Set, NEW want \in Nat
  PROVE  /\ FiledExpiry(s, want) \in Left \ {Missing}
         /\ Outlives(FiledExpiry(s, want), left[s])
         /\ want = 0 => FiledExpiry(s, want) = Forever
         /\ want # 0 => FiledExpiry(s, want) = Forever \/ FiledExpiry(s, want) >= want * 1000 - 500
  <1>1. left[s] \in Left
    BY DEF TypeOK
  <1>2. CASE want = 0
    BY <1>1, <1>2 DEF FiledExpiry, Left, Outlives, Forever, Missing
  <1>3. CASE want # 0 /\ left[s] = Missing
    BY <1>3 DEF FiledExpiry, Left, Outlives, Forever, Missing
  <1>4. CASE want # 0 /\ left[s] = Forever
    BY <1>4 DEF FiledExpiry, Left, Outlives, Forever, Missing
  <1>5. CASE want # 0 /\ left[s] # Missing /\ left[s] # Forever
    <2>1. left[s] \in Nat \ {0}
      BY <1>1, <1>5 DEF Left, Missing
    <2>2. TTL(left[s]) \in Nat /\ TTL(left[s]) * 1000 <= left[s] + 500
          /\ left[s] < TTL(left[s]) * 1000 + 500
      BY <2>1, TTLRounds
    <2>3. CASE TTL(left[s]) < want
      <3>1. FiledExpiry(s, want) = want * 1000
        BY <1>5, <2>3 DEF FiledExpiry
      <3>2. want * 1000 >= TTL(left[s]) * 1000 + 1000
        BY <2>2, <2>3
      <3>. QED BY <1>5, <2>1, <2>2, <3>1, <3>2 DEF Left, Outlives, Forever, Missing
    <2>4. CASE ~(TTL(left[s]) < want)
      <3>1. FiledExpiry(s, want) = left[s]
        BY <1>5, <2>4 DEF FiledExpiry
      <3>. QED BY <1>5, <2>1, <2>2, <2>4, <3>1 DEF Left, Outlives, Forever, Missing
    <2>. QED BY <2>3, <2>4
  <1>. QED BY <1>2, <1>3, <1>4, <1>5

(* What the index-key set is kept for outlives the set of the filing. *)
LEMMA KeptOutlives ==
  ASSUME TypeOK, NEW s \in Set, left[s] # Forever, NEW want \in Nat \ {0}
  PROVE  Kept(s, want) \in Nat \ {0} /\ Outlives(Kept(s, want), FiledExpiry(s, want))
  <1>1. left[s] \in Nat
    BY DEF TypeOK, Left
  <1>2. CASE left[s] = Missing
    BY <1>2 DEF Kept, FiledExpiry, TTL, Outlives, Missing, Forever
  <1>3. CASE left[s] # Missing
    <2>1. TTL(left[s]) \in Nat /\ left[s] < TTL(left[s]) * 1000 + 500
      BY <1>1, <1>3, TTLRounds DEF Missing
    <2>2. CASE TTL(left[s]) >= want
      <3>1. Kept(s, want) = (TTL(left[s]) + 1) * 1000 /\ FiledExpiry(s, want) = left[s]
        BY <1>3, <2>1, <2>2 DEF Kept, FiledExpiry
      <3>. QED BY <1>1, <2>1, <3>1 DEF Outlives, Forever
    <2>3. CASE ~(TTL(left[s]) >= want)
      <3>1. Kept(s, want) = want * 1000 /\ FiledExpiry(s, want) = want * 1000
        BY <1>3, <2>1, <2>3 DEF Kept, FiledExpiry
      <3>. QED BY <3>1 DEF Outlives, Forever
    <2>. QED BY <2>2, <2>3
  <1>. QED BY <1>2, <1>3

LEMMA KeysMoveOut ==
  ASSUME TypeOK, NEW longest \in Nat \ {0}, MoveKeysOut(longest)
  PROVE  /\ keys' \in Left \ {Missing}
         /\ Outlives(keys', longest)
         /\ keys # Missing => Outlives(keys', keys)
  BY DEF TypeOK, MoveKeysOut, Left, Outlives, Missing, Forever

LEMMA AfterType ==
  ASSUME NEW ms \in Left, NEW d \in Nat \ {0}
  PROVE  After(ms, d) \in Left
  BY DEF After, Left, Missing, Forever

LEMMA AfterKeepsOrder ==
  ASSUME NEW a \in Left, NEW b \in Left, NEW d \in Nat \ {0}, Outlives(a, b)
  PROVE  Outlives(After(a, d), After(b, d))
  BY DEF After, Left, Outlives, Missing, Forever

-----------------------------------------------------------------------------
(* The file script and the register script keep the index-key set ahead. *)

IndexTypeOK ==
  /\ keys \in Left /\ named \subseteq Set /\ left \in [Set -> Left]
  /\ keys = Missing <=> named = {}

LEMMA FileScriptKeepsOrder ==
  ASSUME TypeOK, IndexKeysOutliveTheirSets,
         NEW sets \in (SUBSET Set) \ {{}}, NEW want \in Nat, IndexFileScript(sets, want)
  PROVE  IndexTypeOK' /\ IndexKeysOutliveTheirSets'
  <1>1. left' \in [Set -> Left] /\ named' \subseteq Set /\ named' # {}
    <2>1. named' = named \cup sets /\ named \subseteq Set
      BY DEF IndexFileScript, TypeOK
    <2>2. \A s \in Set: left[s] \in Left /\ FiledExpiry(s, want) \in Left
      BY FiledMovesOut DEF TypeOK
    <2>3. left' = [s \in Set |-> IF s \in sets THEN FiledExpiry(s, want) ELSE left[s]]
      BY DEF IndexFileScript
    <2>4. left' \in [Set -> Left]
      BY <2>2, <2>3
    <2>. QED BY <2>1, <2>4
  <1>2. \A s \in named \ sets: keys # Missing /\ Outlives(keys, left[s]) /\ left'[s] = left[s]
    BY DEF IndexFileScript, TypeOK, IndexKeysOutliveTheirSets
  <1>3. CASE want = 0 \/ \E s \in sets: left[s] = Forever
    <2>1. keys' = Forever
      BY <1>3 DEF IndexFileScript
    <2>. QED BY <1>1, <2>1 DEF IndexTypeOK, IndexKeysOutliveTheirSets, Outlives, Left, Missing, Forever
  <1>4. CASE ~(want = 0 \/ \E s \in sets: left[s] = Forever)
    <2>1. PICK s \in sets: (\A t \in sets: Kept(t, want) <= Kept(s, want)) /\ MoveKeysOut(Kept(s, want))
      BY <1>4 DEF IndexFileScript
    <2>2. \A t \in sets: /\ Kept(t, want) \in Nat \ {0}
                         /\ Outlives(Kept(t, want), FiledExpiry(t, want))
                         /\ FiledExpiry(t, want) \in Left
      BY <1>4, KeptOutlives, FiledMovesOut
    <2>3. keys' \in Left \ {Missing} /\ Outlives(keys', Kept(s, want))
          /\ (keys # Missing => Outlives(keys', keys))
      BY <2>1, <2>2, KeysMoveOut
    <2>4. ASSUME NEW t \in sets PROVE Outlives(keys', left'[t])
      <3>1. left'[t] = FiledExpiry(t, want)
        BY DEF IndexFileScript
      <3>2. Outlives(Kept(s, want), Kept(t, want))
        BY <2>1, <2>2 DEF Outlives, Forever
      <3>3. /\ Kept(s, want) \in Left /\ Kept(t, want) \in Left /\ FiledExpiry(t, want) \in Left
            /\ keys' \in Left /\ Outlives(Kept(t, want), FiledExpiry(t, want))
        BY <2>2, <2>3 DEF Left
      <3>4. Outlives(keys', Kept(t, want))
        BY <2>3, <3>2, <3>3, OutlivesTransitive
      <3>. QED BY <3>1, <3>3, <3>4, OutlivesTransitive
    <2>5. ASSUME NEW t \in named \ sets PROVE Outlives(keys', left'[t])
      BY <1>2, <2>3, OutlivesTransitive DEF TypeOK
    <2>6. named' = named \cup sets
      BY DEF IndexFileScript
    <2>. QED BY <1>1, <2>3, <2>4, <2>5, <2>6 DEF IndexTypeOK, IndexKeysOutliveTheirSets
  <1>. QED BY <1>3, <1>4

LEMMA RegisterKeepsOrder ==
  ASSUME TypeOK, IndexKeysOutliveTheirSets,
         NEW page \in SUBSET Set, RegisterCollectionIndexKeys(page)
  PROVE  IndexTypeOK' /\ IndexKeysOutliveTheirSets'
  <1>. DEFINE live == {s \in page : left[s] # Missing}
  <1>1. live # {} /\ live \subseteq Set /\ named' = named \cup live /\ UNCHANGED left
    BY DEF RegisterCollectionIndexKeys
  <1>2. \A s \in named: keys # Missing /\ Outlives(keys, left[s])
    BY DEF TypeOK, IndexKeysOutliveTheirSets
  <1>3. CASE \E s \in live: left[s] = Forever
    <2>1. keys' = Forever
      BY <1>3 DEF RegisterCollectionIndexKeys
    <2>. QED BY <1>1, <2>1
         DEF IndexTypeOK, IndexKeysOutliveTheirSets, TypeOK, Outlives, Left, Missing, Forever
  <1>4. CASE ~\E s \in live: left[s] = Forever
    <2>1. PICK s \in live: (\A t \in live: left[t] <= left[s]) /\ MoveKeysOut(left[s])
      BY <1>4 DEF RegisterCollectionIndexKeys
    <2>2. \A t \in live: left[t] \in Nat \ {0}
      BY <1>1, <1>4 DEF TypeOK, Left, Missing
    <2>3. keys' \in Left \ {Missing} /\ Outlives(keys', left[s])
          /\ (keys # Missing => Outlives(keys', keys))
      BY <2>1, <2>2, KeysMoveOut
    <2>4. ASSUME NEW t \in live PROVE Outlives(keys', left[t])
      <3>1. Outlives(left[s], left[t])
        BY <2>1, <2>2 DEF Outlives, Forever
      <3>. QED BY <1>1, <2>3, <3>1, OutlivesTransitive DEF TypeOK
    <2>5. ASSUME NEW t \in named PROVE Outlives(keys', left[t])
      BY <1>2, <2>3, OutlivesTransitive DEF TypeOK
    <2>. QED BY <1>1, <2>3, <2>4, <2>5 DEF IndexTypeOK, IndexKeysOutliveTheirSets, TypeOK
  <1>. QED BY <1>3, <1>4

-----------------------------------------------------------------------------
(* Every step keeps the types and the order of the two expiries. *)

LEMMA PassTypes ==
  ASSUME TypeOK, NEW d \in Elapse, Pass(d)
  PROVE  fill' \in [Entry -> [state : {"none", "filed", "cached"}, sets : SUBSET Set,
                              ttl : CacheTtl \cup {0}, waited : 0 .. MaxFill, life : Left]]
  <1>1. d \in Nat \ {0}
    BY TimeAssumption DEF TimeAssumption
  <1>2. ASSUME NEW e \in Entry
        PROVE  Waits(fill[e], d) \in [state : {"none", "filed", "cached"}, sets : SUBSET Set,
                              ttl : CacheTtl \cup {0}, waited : 0 .. MaxFill, life : Left]
    <2>1. fill[e] \in [state : {"none", "filed", "cached"}, sets : SUBSET Set,
                       ttl : CacheTtl \cup {0}, waited : 0 .. MaxFill, life : Left]
      BY DEF TypeOK
    <2>2. CASE fill[e].state = "filed"
      <3>1. fill[e].waited + d \in 0 .. MaxFill
        BY <1>1, <2>1, <2>2, TimeAssumption DEF Pass, TimeAssumption
      <3>. QED BY <2>1, <2>2, <3>1 DEF Waits
    <2>3. CASE fill[e].state = "cached" /\ After(fill[e].life, d) # Missing
      <3>1. After(fill[e].life, d) \in Left
        BY <1>1, <2>1, AfterType
      <3>. QED BY <2>1, <2>3, <3>1 DEF Waits
    <2>4. CASE fill[e].state # "filed" /\ ~(fill[e].state = "cached" /\ After(fill[e].life, d) # Missing)
      BY <2>1, <2>4, TimeAssumption DEF Waits, NoFill, Left, Missing, TimeAssumption
    <2>. QED BY <2>2, <2>3, <2>4
  <1>. QED BY <1>2 DEF Pass

LEMMA NextKeepsOrder ==
  ASSUME TypeOK, IndexKeysOutliveTheirSets, [Next]_vars
  PROVE  TypeOK' /\ IndexKeysOutliveTheirSets'
  <1>. DEFINE FillType == [state : {"none", "filed", "cached"}, sets : SUBSET Set,
                           ttl : CacheTtl \cup {0}, waited : 0 .. MaxFill, life : Left]
  <1>. USE TtlAssumption, TimeAssumption DEF TtlAssumption, TimeAssumption
  <1>0. fill \in [Entry -> FillType] /\ NoFill \in FillType
    BY DEF TypeOK, NoFill, Left, Missing
  <1>1. ASSUME fill' \in [Entry -> FillType], IndexTypeOK' PROVE TypeOK'
    BY <1>1 DEF TypeOK, IndexTypeOK
  <1>2. ASSUME NEW e \in Entry, NEW sets \in (SUBSET Set) \ {{}}, NEW ttl \in CacheTtl,
               FileIndexedEntries(e, sets, ttl)
        PROVE  TypeOK' /\ IndexKeysOutliveTheirSets'
    <2>1. Want(ttl) \in Nat
      BY WantType
    <2>2. IndexTypeOK' /\ IndexKeysOutliveTheirSets'
      BY <1>2, <2>1, FileScriptKeepsOrder DEF FileIndexedEntries
    <2>3. fill' \in [Entry -> FillType]
      BY <1>0, <1>2 DEF FileIndexedEntries, NoFill, Left, Missing
    <2>. QED BY <1>1, <2>2, <2>3
  <1>3. ASSUME NEW e \in Entry, WriteEntry(e) \/ DropEntry(e)
        PROVE  TypeOK' /\ IndexKeysOutliveTheirSets'
    <2>1. fill' \in [Entry -> FillType]
      <3>1. CASE WriteEntry(e)
        <4>1. (IF fill[e].ttl = 0 THEN Forever ELSE fill[e].ttl) \in Left
          BY <1>0 DEF Left, Forever
        <4>. QED BY <1>0, <3>1, <4>1 DEF WriteEntry
      <3>2. CASE DropEntry(e)
        BY <1>0, <3>2 DEF DropEntry
      <3>. QED BY <1>3, <3>1, <3>2
    <2>2. UNCHANGED <<keys, named, left>>
      BY <1>3 DEF WriteEntry, DropEntry
    <2>. QED BY <2>1, <2>2 DEF TypeOK, IndexKeysOutliveTheirSets
  <1>4. ASSUME NEW page \in SUBSET Set, RegisterCollectionIndexKeys(page)
        PROVE  TypeOK' /\ IndexKeysOutliveTheirSets'
    <2>1. IndexTypeOK' /\ IndexKeysOutliveTheirSets'
      BY <1>4, RegisterKeepsOrder
    <2>2. UNCHANGED fill
      BY <1>4 DEF RegisterCollectionIndexKeys
    <2>. QED BY <1>0, <1>1, <2>1, <2>2
  <1>5. ASSUME NEW s \in Set, SetNext(s)
        PROVE  TypeOK' /\ IndexKeysOutliveTheirSets'
    <2>1. [e \in Entry |-> [fill[e] EXCEPT !.sets = @ \ {s}]] \in [Entry -> FillType]
      BY <1>0
    <2>2. CASE PruneCollectionIndexKeys(s)
      BY <2>2 DEF PruneCollectionIndexKeys, Unname, TypeOK, IndexKeysOutliveTheirSets,
                  Left, Missing
    <2>3. CASE SweepMove(s)
      <3>1. fill' \in [Entry -> FillType]
        BY <2>1, <2>3 DEF SweepMove, Take
      <3>2. /\ named' = named \ {s} /\ left' = [left EXCEPT ![s] = Missing]
            /\ keys' = IF named' = {} THEN Missing ELSE keys
        BY <2>3 DEF SweepMove, Unname, Take
      <3>3. IndexTypeOK' /\ IndexKeysOutliveTheirSets'
        BY <3>2 DEF TypeOK, IndexTypeOK, IndexKeysOutliveTheirSets, Left, Missing
      <3>. QED BY <1>1, <3>1, <3>3
    <2>4. CASE DropIndex(s)
      <3>1. fill' \in [Entry -> FillType]
        BY <2>1, <2>4 DEF DropIndex, Take
      <3>2. UNCHANGED <<keys, named>> /\ left' = [left EXCEPT ![s] = Missing]
        BY <2>4 DEF DropIndex, Take
      <3>3. Outlives(keys, Missing)
        BY DEF TypeOK, Outlives, Left, Missing, Forever
      <3>4. IndexTypeOK' /\ IndexKeysOutliveTheirSets'
        BY <3>2, <3>3 DEF TypeOK, IndexTypeOK, IndexKeysOutliveTheirSets, Left, Missing
      <3>. QED BY <1>1, <3>1, <3>4
    <2>. QED BY <1>5, <2>2, <2>3, <2>4 DEF SetNext
  <1>6. CASE EvictIndexKeys
    BY <1>6 DEF EvictIndexKeys, TypeOK, IndexKeysOutliveTheirSets, Left, Missing
  <1>7. ASSUME NEW d \in Elapse, Pass(d)
        PROVE  TypeOK' /\ IndexKeysOutliveTheirSets'
    <2>1. fill' \in [Entry -> FillType]
      BY <1>7, PassTypes
    <2>2. keys' \in Left /\ left' \in [Set -> Left]
      BY <1>7, AfterType DEF Pass, TypeOK
    <2>3. keys = Missing => keys' = Missing
      BY <1>7 DEF Pass, After, Missing, Forever
    <2>4. IndexTypeOK'
      BY <1>7, <2>2, <2>3 DEF Pass, TypeOK, IndexTypeOK
    <2>5. ASSUME NEW s \in named' PROVE Outlives(keys', left'[s])
      <3>1. s \in named
        BY <1>7 DEF Pass
      <3>2. Outlives(keys, left[s])
        BY <3>1 DEF IndexKeysOutliveTheirSets
      <3>. QED BY <1>7, <3>1, <3>2, AfterKeepsOrder DEF Pass, TypeOK
    <2>. QED BY <1>1, <2>1, <2>4, <2>5 DEF IndexKeysOutliveTheirSets
  <1>8. CASE UNCHANGED vars
    BY <1>8 DEF vars, TypeOK, IndexKeysOutliveTheirSets
  <1>. QED BY <1>2, <1>3, <1>4, <1>5, <1>6, <1>7, <1>8 DEF Next, EntryNext

LEMMA InitKeepsOrder ==
  ASSUME Init
  PROVE  TypeOK /\ IndexKeysOutliveTheirSets
  BY TimeAssumption
     DEF Init, TypeOK, IndexKeysOutliveTheirSets, NoFill, Left, Missing, TimeAssumption

(* The types of what redis holds of the index, and an index-key set that is   *)
(* there exactly while it names a set (redis-store.ts, the scripts).          *)
THEOREM TypeCorrect == Spec => []TypeOK
  <1>. QED BY InitKeepsOrder, NextKeepsOrder, PTL DEF Spec

(* The index-key set outlives every set it names, whatever TTLs fills ask for *)
(* and however they meet reaps, sweeps, drops and evictions (the file and the *)
(* register script of redis-store.ts).                                        *)
THEOREM IndexKeysOutlive == Spec => []IndexKeysOutliveTheirSets
  <1>. QED BY InitKeepsOrder, NextKeepsOrder, PTL DEF Spec

-----------------------------------------------------------------------------
(* The index sets and their entries                                           *)

(* The factor leaves a fill the time it takes, and the half second by which   *)
(* an expiry read to the second may fall short.                               *)
Slack == \A ttl \in CacheTtl \ {0}: Want(ttl) * 1000 >= ttl + MaxFill + 500

(* What is left of a set covers the TTL an entry on its way will start.       *)
CoversFill(remaining, f) ==
  \/ remaining = Forever
  \/ f.ttl # 0 /\ remaining >= f.ttl + MaxFill - f.waited

FillsAreCovered ==
  \A e \in Entry: \A s \in fill[e].sets:
    /\ fill[e].state = "filed" => CoversFill(left[s], fill[e])
    /\ fill[e].state = "cached" => Outlives(left[s], fill[e].life) /\ fill[e].life # Missing

LEMMA FillTypes ==
  ASSUME TypeOK, NEW e \in Entry
  PROVE  /\ fill[e].state \in {"none", "filed", "cached"} /\ fill[e].sets \subseteq Set
         /\ fill[e].ttl \in Nat /\ fill[e].waited \in 0 .. MaxFill /\ fill[e].life \in Left
  <1>1. fill[e] \in [state : {"none", "filed", "cached"}, sets : SUBSET Set,
                    ttl : CacheTtl \cup {0}, waited : 0 .. MaxFill, life : Left]
    BY DEF TypeOK
  <1>2. CacheTtl \cup {0} \subseteq Nat
    BY TtlAssumption DEF TtlAssumption
  <1>. QED BY <1>1, <1>2

LEMMA MoreCovers ==
  ASSUME NEW a \in Left, NEW b \in Left, Outlives(a, b), b # Missing,
         TypeOK, NEW e \in Entry, CoversFill(b, fill[e])
  PROVE  CoversFill(a, fill[e])
  BY FillTypes, TimeAssumption DEF CoversFill, Outlives, Left, Missing, Forever, TimeAssumption

LEMMA CoveredIsThere ==
  ASSUME NEW b \in Left, TypeOK, NEW e \in Entry, CoversFill(b, fill[e])
  PROVE  b # Missing
  BY FillTypes, TimeAssumption DEF CoversFill, Left, Missing, Forever, TimeAssumption

LEMMA FileKeepsCover ==
  ASSUME TypeOK, FillsAreCovered, Slack,
         NEW e \in Entry, NEW sets \in (SUBSET Set) \ {{}}, NEW ttl \in CacheTtl,
         FileIndexedEntries(e, sets, ttl)
  PROVE  FillsAreCovered'
  <1>. DEFINE want == Want(ttl)
  <1>1. ttl \in Nat /\ want \in Nat /\ (want = 0 <=> ttl = 0)
    BY WantType, TtlAssumption DEF TtlAssumption
  <1>2. \A s \in Set: Outlives(left'[s], left[s]) /\ left'[s] \in Left /\ left[s] \in Left
    <2>1. \A s \in Set: /\ left'[s] = IF s \in sets THEN FiledExpiry(s, want) ELSE left[s]
                        /\ left[s] \in Left
      BY DEF FileIndexedEntries, IndexFileScript, TypeOK
    <2>2. \A s \in Set: Outlives(left[s], left[s])
      BY <2>1 DEF Outlives, Left, Forever
    <2>. HIDE DEF want
    <2>. QED BY <1>1, <2>1, <2>2, FiledMovesOut
  <1>3. ASSUME NEW s \in sets PROVE CoversFill(left'[s], [NoFill EXCEPT !.ttl = ttl])
    <2>1. left'[s] = FiledExpiry(s, want) /\ s \in Set
      BY DEF FileIndexedEntries, IndexFileScript
    <2>2. want # 0 => want * 1000 >= ttl + MaxFill + 500
      BY <1>1 DEF Slack
    <2>. HIDE DEF want
    <2>3. CASE want = 0
      BY <1>1, <2>1, <2>3, FiledMovesOut DEF CoversFill
    <2>4. CASE want # 0
      <3>1. FiledExpiry(s, want) \in Left
            /\ (FiledExpiry(s, want) = Forever \/ FiledExpiry(s, want) >= want * 1000 - 500)
        BY <1>1, <2>1, <2>4, FiledMovesOut
      <3>. QED BY <1>1, <2>1, <2>2, <2>4, <3>1, TimeAssumption
           DEF CoversFill, NoFill, Left, Forever, TimeAssumption
    <2>. QED BY <2>3, <2>4
  <1>4. fill' = [fill EXCEPT ![e] = [NoFill EXCEPT !.state = "filed", !.sets = sets, !.ttl = ttl]]
    BY DEF FileIndexedEntries
  <1>5. ASSUME NEW f \in Entry, NEW s \in fill'[f].sets
        PROVE  /\ fill'[f].state = "filed" => CoversFill(left'[s], fill'[f])
               /\ fill'[f].state = "cached" => Outlives(left'[s], fill'[f].life) /\ fill'[f].life # Missing
    <2>1. CASE f = e
      <3>1. fill'[f] = [NoFill EXCEPT !.state = "filed", !.sets = sets, !.ttl = ttl] /\ s \in sets
        BY <1>4, <1>5, <2>1 DEF TypeOK, NoFill
      <3>. QED BY <1>3, <3>1 DEF CoversFill, NoFill
    <2>2. CASE f # e
      <3>1. fill'[f] = fill[f] /\ s \in fill[f].sets /\ s \in Set
        BY <1>4, <1>5, <2>2, FillTypes DEF TypeOK
      <3>2. Outlives(left'[s], left[s]) /\ left'[s] \in Left /\ left[s] \in Left
        BY <1>2, <3>1
      <3>3. CASE fill[f].state = "filed"
        <4>1. CoversFill(left[s], fill[f])
          BY <3>1, <3>3 DEF FillsAreCovered
        <4>. QED BY <3>1, <3>2, <3>3, <4>1, CoveredIsThere, MoreCovers
      <3>4. CASE fill[f].state = "cached"
        BY <3>1, <3>2, <3>4, OutlivesTransitive, FillTypes DEF FillsAreCovered
      <3>. QED BY <3>1, <3>3, <3>4
    <2>. QED BY <2>1, <2>2
  <1>. QED BY <1>5 DEF FillsAreCovered

LEMMA PassKeepsCover ==
  ASSUME TypeOK, FillsAreCovered, NEW d \in Elapse, Pass(d)
  PROVE  FillsAreCovered'
  <1>1. d \in Nat \ {0}
    BY TimeAssumption DEF TimeAssumption
  <1>2. ASSUME NEW e \in Entry, NEW s \in fill'[e].sets
        PROVE  /\ fill'[e].state = "filed" => CoversFill(left'[s], fill'[e])
               /\ fill'[e].state = "cached" => Outlives(left'[s], fill'[e].life) /\ fill'[e].life # Missing
    <2>1. fill'[e] = Waits(fill[e], d)
      BY DEF Pass
    <2>2. CASE fill[e].state = "filed"
      <3>1. fill'[e] = [fill[e] EXCEPT !.waited = @ + d]
        BY <2>1, <2>2 DEF Waits
      <3>2. s \in fill[e].sets /\ s \in Set /\ fill[e].waited + d <= MaxFill
        BY <1>2, <2>2, <3>1, FillTypes DEF Pass, TypeOK
      <3>3. CoversFill(left[s], fill[e]) /\ left[s] \in Left /\ left'[s] = After(left[s], d)
        BY <2>2, <3>2 DEF FillsAreCovered, Pass, TypeOK
      <3>4. /\ fill'[e].state = "filed" /\ fill'[e].ttl = fill[e].ttl
            /\ fill'[e].waited = fill[e].waited + d
        BY <2>2, <3>1 DEF TypeOK
      <3>5. fill[e].ttl \in Nat /\ fill[e].waited \in Nat
        BY FillTypes, TimeAssumption DEF TimeAssumption
      <3>6. CoversFill(left'[s], fill'[e])
        BY <1>1, <3>2, <3>3, <3>4, <3>5, TimeAssumption
           DEF CoversFill, After, Left, Missing, Forever, TimeAssumption
      <3>. QED BY <3>4, <3>6
    <2>3. CASE fill[e].state = "cached" /\ After(fill[e].life, d) # Missing
      <3>1. fill'[e] = [fill[e] EXCEPT !.life = After(fill[e].life, d)]
        BY <2>1, <2>3 DEF Waits
      <3>2. s \in fill[e].sets /\ s \in Set /\ fill'[e].life = After(fill[e].life, d)
            /\ fill'[e].state = "cached"
        BY <1>2, <2>3, <3>1, FillTypes DEF TypeOK
      <3>3. Outlives(left[s], fill[e].life) /\ left[s] \in Left /\ left'[s] = After(left[s], d)
        BY <2>3, <3>2 DEF FillsAreCovered, Pass, TypeOK
      <3>. QED BY <1>1, <2>3, <3>2, <3>3, AfterKeepsOrder, FillTypes
    <2>4. CASE fill[e].state # "filed" /\ ~(fill[e].state = "cached" /\ After(fill[e].life, d) # Missing)
      BY <2>1, <2>4 DEF Waits, NoFill
    <2>. QED BY <2>2, <2>3, <2>4
  <1>. QED BY <1>2 DEF FillsAreCovered

LEMMA NextKeepsCover ==
  ASSUME TypeOK, FillsAreCovered, Slack, [Next]_vars
  PROVE  FillsAreCovered'
  <1>1. ASSUME NEW e \in Entry, WriteEntry(e) PROVE FillsAreCovered'
    <2>. DEFINE life == IF fill[e].ttl = 0 THEN Forever ELSE fill[e].ttl
    <2>1. fill' = [fill EXCEPT ![e].state = "cached", ![e].life = life] /\ UNCHANGED left
      BY <1>1 DEF WriteEntry
    <2>2. ASSUME NEW s \in fill[e].sets PROVE Outlives(left[s], life) /\ life # Missing
      <3>1. CoversFill(left[s], fill[e]) /\ left[s] \in Left
        BY <1>1, <2>2, FillTypes DEF FillsAreCovered, WriteEntry, TypeOK
      <3>. QED BY <3>1, FillTypes, TimeAssumption
           DEF CoversFill, Outlives, Left, Missing, Forever, TimeAssumption
    <2>. HIDE DEF life
    <2>3. ASSUME NEW f \in Entry, NEW s \in fill'[f].sets
          PROVE  /\ fill'[f].state = "filed" => CoversFill(left[s], fill'[f])
                 /\ fill'[f].state = "cached" => Outlives(left[s], fill'[f].life) /\ fill'[f].life # Missing
      <3>1. CASE f = e
        BY <2>1, <2>2, <2>3, <3>1 DEF TypeOK
      <3>2. CASE f # e
        BY <2>1, <2>3, <3>2 DEF TypeOK, FillsAreCovered
      <3>. QED BY <3>1, <3>2
    <2>. QED BY <2>1, <2>3 DEF FillsAreCovered
  <1>2. ASSUME NEW e \in Entry, DropEntry(e) PROVE FillsAreCovered'
    BY <1>2 DEF DropEntry, FillsAreCovered, TypeOK, NoFill
  <1>3. ASSUME NEW s \in Set, Take(s) PROVE FillsAreCovered'
    <2>1. ASSUME NEW e \in Entry, NEW t \in fill'[e].sets
          PROVE  /\ t \in fill[e].sets /\ left'[t] = left[t] /\ fill'[e].state = fill[e].state
                 /\ fill'[e].ttl = fill[e].ttl /\ fill'[e].waited = fill[e].waited
                 /\ fill'[e].life = fill[e].life
      <3>1. fill'[e] = [fill[e] EXCEPT !.sets = @ \ {s}] /\ left' = [left EXCEPT ![s] = Missing]
        BY <1>3 DEF Take
      <3>. QED BY <2>1, <3>1, FillTypes DEF TypeOK
    <2>. QED BY <2>1 DEF FillsAreCovered, CoversFill
  <1>4. CASE UNCHANGED <<left, fill>>
    BY <1>4 DEF FillsAreCovered, CoversFill
  <1>. QED BY <1>1, <1>2, <1>3, <1>4, FileKeepsCover, PassKeepsCover
       DEF Next, EntryNext, SetNext, PruneCollectionIndexKeys, SweepMove, DropIndex,
           RegisterCollectionIndexKeys, EvictIndexKeys, vars

(* With slack enough for a fill's own time, an index set outlives every entry *)
(* filed in it, whatever else is filed, swept or dropped (indexScopedCacheEntry*)
(* of purge.ts and the file script). At a factor of 1 there is no such slack. *)
THEOREM SetsOutlive == Slack => (Spec => []SetsOutliveTheirEntries)
  <1>. SUFFICES ASSUME Slack PROVE Spec => []SetsOutliveTheirEntries
    OBVIOUS
  <1>1. Init => FillsAreCovered
    <2>1. Init => \A e \in Entry: fill[e].sets = {}
      BY DEF Init, NoFill
    <2>. QED BY <2>1 DEF FillsAreCovered
  <1>2. TypeOK /\ FillsAreCovered /\ [Next]_vars => FillsAreCovered'
    BY NextKeepsCover
  <1>3. TypeOK /\ FillsAreCovered => SetsOutliveTheirEntries
    BY DEF FillsAreCovered, SetsOutliveTheirEntries
  <1>. QED BY <1>1, <1>2, <1>3, TypeCorrect, PTL DEF Spec
=============================================================================
