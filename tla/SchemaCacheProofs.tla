--------------------------- MODULE SchemaCacheProofs ---------------------------
(* Proofs about SchemaCache, for any processes, calls, writes and limits.     *)
EXTENDS SchemaCache, SequenceTheorems, TLAPS

--------------------------------------------------------------------------------
(* What a sequence holds once an element is added or taken out. *)

LEMMA Held ==
  ASSUME NEW S, NEW s \in Seq(S), NEW x
  PROVE  x \in ToSet(s) <=> \E k \in 1 .. Len(s) : s[k] = x
  <1>1. DOMAIN s = 1 .. Len(s)
    BY LenProperties
  <1>. QED BY <1>1, Zenon DEF ToSet

LEMMA AppendHolds ==
  ASSUME NEW S, NEW s \in Seq(S), NEW x \in S
  PROVE  Append(s, x) \in Seq(S) /\ ToSet(Append(s, x)) = ToSet(s) \cup {x}
  <1>1. /\ Append(s, x) \in Seq(S) /\ Len(Append(s, x)) = Len(s) + 1
        /\ \A i \in 1 .. Len(s) : Append(s, x)[i] = s[i]
        /\ Append(s, x)[Len(s) + 1] = x
    BY AppendProperties
  <1>2. DOMAIN s = 1 .. Len(s) /\ DOMAIN Append(s, x) = 1 .. Len(s) + 1 /\ Len(s) \in Nat
    BY <1>1, LenProperties
  <1>. QED BY <1>1, <1>2 DEF ToSet

LEMMA SubSeqHolds ==
  ASSUME NEW S, NEW s \in Seq(S), NEW m \in 1 .. Len(s) + 1, NEW n \in 0 .. Len(s)
  PROVE  /\ SubSeq(s, m, n) \in Seq(S)
         /\ \A x : x \in ToSet(SubSeq(s, m, n)) <=> \E k \in m .. n : s[k] = x
  <1>. DEFINE t == SubSeq(s, m, n)
  <1>1. Len(s) \in Nat /\ m \in Int /\ n \in Int /\ m .. n \subseteq 1 .. Len(s)
    BY LenProperties
  <1>2. \A k \in m .. n : s[k] \in S
    BY <1>1, ElementOfSeq
  <1>3. /\ t \in Seq(S)
        /\ Len(t) = IF m <= n THEN n - m + 1 ELSE 0
        /\ \A k \in 1 .. n - m + 1 : t[k] = s[m + k - 1]
    BY <1>1, <1>2, SubSeqProperties
  <1>. HIDE DEF t
  <1>4. ASSUME NEW x PROVE x \in ToSet(t) <=> \E k \in 1 .. Len(t) : t[k] = x
    BY <1>3, Held
  <1>5. \A k \in 1 .. Len(t) : m + k - 1 \in m .. n /\ t[k] = s[m + k - 1]
    BY <1>1, <1>3
  <1>6. \A k \in m .. n : k - m + 1 \in 1 .. Len(t) /\ t[k - m + 1] = s[k]
    BY <1>1, <1>3
  <1>7. \A x : x \in ToSet(t) <=> \E k \in m .. n : s[k] = x
    <2>1. ASSUME NEW x, x \in ToSet(t) PROVE \E k \in m .. n : s[k] = x
      BY <1>4, <1>5, <2>1
    <2>2. ASSUME NEW x, NEW k \in m .. n, s[k] = x PROVE x \in ToSet(t)
      BY <1>4, <1>6, <2>2
    <2>. QED BY <2>1, <2>2
  <1>. QED BY <1>3, <1>7 DEF t

LEMMA TailHolds ==
  ASSUME NEW S, NEW s \in Seq(S), s # <<>>
  PROVE  /\ Tail(s) \in Seq(S) /\ Head(s) \in ToSet(s)
         /\ ToSet(s) = ToSet(Tail(s)) \cup {Head(s)}
  <1>1. Len(s) \in Nat \ {0} /\ Head(s) = s[1]
    BY LenProperties, EmptySeq
  <1>2. Tail(s) = SubSeq(s, 2, Len(s))
    BY TailIsSubSeq
  <1>3. /\ Tail(s) \in Seq(S)
        /\ \A x : x \in ToSet(Tail(s)) <=> \E k \in 2 .. Len(s) : s[k] = x
    <2>1. 2 \in 1 .. Len(s) + 1 /\ Len(s) \in 0 .. Len(s)
      BY <1>1
    <2>2. /\ SubSeq(s, 2, Len(s)) \in Seq(S)
          /\ \A x : x \in ToSet(SubSeq(s, 2, Len(s))) <=> \E k \in 2 .. Len(s) : s[k] = x
      BY <2>1, SubSeqHolds
    <2>. QED BY <1>2, <2>2
  <1>4. \A x : x \in ToSet(s) <=> \E k \in 1 .. Len(s) : s[k] = x
    BY Held
  <1>5. 1 .. Len(s) = {1} \cup (2 .. Len(s))
    BY <1>1
  <1>6. \A x : x \in ToSet(s) <=> x \in ToSet(Tail(s)) \/ x = Head(s)
    BY <1>1, <1>3, <1>4, <1>5, Zenon
  <1>. QED BY <1>3, <1>6, Zenon

LEMMA RemoveAtHolds ==
  ASSUME NEW S, NEW s \in Seq(S), NEW i \in 1 .. Len(s)
  PROVE  /\ RemoveAt(s, i) \in Seq(S) /\ s[i] \in ToSet(s)
         /\ ToSet(s) = ToSet(RemoveAt(s, i)) \cup {s[i]}
  <1>. DEFINE before == SubSeq(s, 1, i - 1)
              after == SubSeq(s, i + 1, Len(s))
  <1>1. Len(s) \in Nat
    BY LenProperties
  <1>2. /\ before \in Seq(S)
        /\ \A x : x \in ToSet(before) <=> \E k \in 1 .. i - 1 : s[k] = x
    BY <1>1, SubSeqHolds
  <1>3. /\ after \in Seq(S)
        /\ \A x : x \in ToSet(after) <=> \E k \in i + 1 .. Len(s) : s[k] = x
    BY <1>1, SubSeqHolds
  <1>. HIDE DEF before, after
  <1>4. before \o after \in Seq(S) /\ Range(before \o after) = Range(before) \cup Range(after)
    BY <1>2, <1>3, ConcatProperties, RangeConcatenation
  <1>5. RemoveAt(s, i) = before \o after /\ ToSet(RemoveAt(s, i)) = ToSet(before) \cup ToSet(after)
    BY <1>4 DEF RemoveAt, before, after, Range, ToSet
  <1>6. \A x : x \in ToSet(s) <=> \E k \in 1 .. Len(s) : s[k] = x
    BY Held
  <1>7. 1 .. Len(s) = (1 .. i - 1) \cup {i} \cup (i + 1 .. Len(s))
    BY <1>1
  <1>8. \A x : x \in ToSet(s) <=> x \in ToSet(before) \/ x \in ToSet(after) \/ x = s[i]
    BY <1>2, <1>3, <1>6, <1>7, Zenon
  <1>. QED BY <1>4, <1>5, <1>8, Zenon

--------------------------------------------------------------------------------
(* What the types do not say of a call and its steps need: a call that does   *)
(* not build has built nothing, and one that goes on has attempts left.       *)
Counts(r) ==
  /\ r.pc \in {"idle", "again", "resetting", "waiting"} => r.count = 0
  /\ r.pc = "building" => r.count < MaxBuilds
  /\ r.pc \in {"resetting", "waiting"} => r.attempt < MaxAttempts
  /\ r.pc = "reading" => r.schema \in Schema

TypeInv == TypeOK /\ \A c \in Call : Counts(call[c])

LEMMA IdleCounts == Idle \in CallRecord /\ Counts(Idle)
  BY LimitAssumption DEF Idle, Standing, CallRecord, Counts

LEMMA StandingCounts ==
  ASSUME NEW pc, NEW attempt \in 0 .. MaxAttempts, NEW count \in 0 .. MaxBuilds,
         NEW schema \in {None} \cup Schema,
         \/ pc = "again" /\ count = 0
         \/ pc = "building" /\ count < MaxBuilds
         \/ pc = "reading" /\ schema \in Schema
         \/ pc \in {"publishing", "unlocking"}
  PROVE  /\ Standing(pc, attempt, count, schema) \in CallRecord
         /\ Counts(Standing(pc, attempt, count, schema))
  BY DEF Standing, CallRecord, Counts

LEMMA InitTypes == Init => TypeInv
  <1>. SUFFICES ASSUME Init PROVE TypeInv
    OBVIOUS
  <1>1. call \in [Call -> CallRecord] /\ \A c \in Call : Counts(call[c])
    BY IdleCounts DEF Init
  <1>2. db \in Seq(Write) /\ clearing \in [Write -> {"none", "committed", "dropped", "told"}]
    BY DEF Init
  <1>3. memory \in [Process -> {None} \cup Schema] /\ counter \in Nat
    BY DEF Init
  <1>4. /\ listeners \in [Process -> SUBSET {"current", "outdated"}]
        /\ wire \in [Process -> Seq(Message)]
    BY DEF Init
  <1>5. dropped \in [Process -> Schema] /\ missed = dropped /\ late = dropped
    BY DEF Init, Schema
  <1>6. overrun \in BOOLEAN
    BY Zenon DEF Init
  <1>7. faults \in 0 .. MaxFaults
    BY BoundAssumption DEF Init
  <1>. QED BY <1>1, <1>2, <1>3, <1>4, <1>5, <1>6, <1>7 DEF TypeInv, TypeOK

LEMMA WrittenByThen ==
  ASSUME db \in Seq(Write), NEW n \in 0 .. Len(db)
  PROVE  ToSet(SubSeq(db, 1, n)) \subseteq ToSet(db) /\ ToSet(db) \subseteq Write
  <1>1. \A w : w \in ToSet(db) <=> \E k \in 1 .. Len(db) : db[k] = w
    BY Held
  <1>2. 1 \in 1 .. Len(db) + 1 /\ Len(db) \in Nat
    BY LenProperties
  <1>3. \A w : w \in ToSet(SubSeq(db, 1, n)) <=> \E k \in 1 .. n : db[k] = w
    BY <1>2, SubSeqHolds
  <1>4. \A k \in 1 .. Len(db) : db[k] \in Write
    BY <1>2, ElementOfSeq
  <1>5. 1 .. n \subseteq 1 .. Len(db)
    BY <1>2
  <1>. QED BY <1>1, <1>3, <1>4, <1>5, Zenon

LEMMA OneCallTypes ==
  ASSUME TypeInv, NEW c \in Call, NEW r \in CallRecord, Counts(r), call' = [call EXCEPT ![c] = r]
  PROVE  call' \in [Call -> CallRecord] /\ (\A d \in Call : Counts(call[d]))'
  BY DEF TypeInv, TypeOK, Counts

LEMMA CallTypes ==
  ASSUME TypeInv, NEW c \in Call, CallStep(c) \/ GetDatabaseSchemaFails(c)
  PROVE  call' \in [Call -> CallRecord] /\ (\A d \in Call : Counts(call[d]))'
  <1>0. SUFFICES \E r \in CallRecord : Counts(r) /\ call' = [call EXCEPT ![c] = r]
    BY OneCallTypes, Zenon
  <1>. DEFINE r == call[c]
  <1>r. r \in CallRecord /\ Counts(r) /\ r = [pc |-> r.pc, attempt |-> r.attempt, count |-> r.count,
                                             outdated |-> r.outdated, schema |-> r.schema]
    BY DEF TypeInv, TypeOK, CallRecord
  <1>1. CASE GetSchema(c)
    <2>1. /\ [r EXCEPT !.pc = "building"] \in CallRecord /\ Counts([r EXCEPT !.pc = "building"])
          /\ [r EXCEPT !.pc = "waiting"] \in CallRecord /\ Counts([r EXCEPT !.pc = "waiting"])
          /\ [r EXCEPT !.pc = "resetting"] \in CallRecord /\ Counts([r EXCEPT !.pc = "resetting"])
      BY <1>1, <1>r, LimitAssumption DEF GetSchema, Asks, CallRecord, Counts
    <2>. QED BY <1>1, <2>1 DEF GetSchema, CountIn, MoveTo
  <1>2. CASE Answer(c)
    BY <1>2, IdleCounts DEF Answer, Return
  <1>3. CASE ResetCounter(c)
    <2>1. [r EXCEPT !.pc = "waiting"] \in CallRecord /\ Counts([r EXCEPT !.pc = "waiting"])
      BY <1>3, <1>r DEF ResetCounter, At, CallRecord, Counts
    <2>. QED BY <1>3, <2>1 DEF ResetCounter, MoveTo
  <1>4. CASE TimeOut(c)
    <2>1. Again(c) \in CallRecord /\ Counts(Again(c))
      <3>1. r.attempt + 1 \in 0 .. MaxAttempts /\ 0 \in 0 .. MaxBuilds
        BY <1>4, <1>r, LimitAssumption DEF TimeOut, At, CallRecord, Counts
      <3>. QED BY <3>1, StandingCounts DEF Again
    <2>. QED BY <1>4, <2>1 DEF TimeOut
  <1>5. CASE GetDatabaseSchema(c)
    <2>1. PICK n \in 0 .. Len(db) :
            call' = [call EXCEPT ![c] = Standing("reading", r.attempt, r.count + 1, ToSet(SubSeq(db, 1, n)))]
      <3>1. db \in Seq(Write) /\ Len(db) \in 0 .. Len(db)
        BY LenProperties DEF TypeInv, TypeOK
      <3>. QED BY <1>5, <3>1 DEF GetDatabaseSchema
    <2>2. ToSet(SubSeq(db, 1, n)) \in Schema
      BY WrittenByThen DEF TypeInv, TypeOK, Schema
    <2>3. r.attempt \in 0 .. MaxAttempts /\ r.count + 1 \in 0 .. MaxBuilds
      BY <1>5, <1>r, LimitAssumption DEF GetDatabaseSchema, At, CallRecord, Counts
    <2>. QED BY <2>1, <2>2, <2>3, StandingCounts
  <1>6. ASSUME NEW schema \in {None} \cup Schema
        PROVE  /\ Standing("publishing", 0, 0, schema) \in CallRecord
               /\ Counts(Standing("publishing", 0, 0, schema))
    BY LimitAssumption, StandingCounts
  <1>7. CASE EndBuild(c)
    <2>1. r.attempt \in 0 .. MaxAttempts /\ r.count \in 0 .. MaxBuilds /\ r.schema \in {None} \cup Schema
      BY <1>r DEF CallRecord
    <2>2. ASSUME r.count < MaxBuilds
          PROVE  /\ Standing("building", r.attempt, r.count, None) \in CallRecord
                 /\ Counts(Standing("building", r.attempt, r.count, None))
      BY <2>1, <2>2, StandingCounts
    <2>. QED BY <1>6, <1>7, <2>1, <2>2 DEF EndBuild, Publish
  <1>8. CASE GetDatabaseSchemaFails(c)
    BY <1>6, <1>8 DEF GetDatabaseSchemaFails, Publish
  <1>9. CASE PublishDone(c)
    <2>1. Standing("unlocking", 0, 0, None) \in CallRecord /\ Counts(Standing("unlocking", 0, 0, None))
      BY LimitAssumption, StandingCounts
    <2>. QED BY <1>9, <2>1, IdleCounts DEF PublishDone, Return
  <1>10. CASE DeleteCounter(c)
    BY <1>10, IdleCounts DEF DeleteCounter, Return
  <1>. QED BY <1>1, <1>2, <1>3, <1>4, <1>5, <1>7, <1>8, <1>9, <1>10 DEF CallStep

--------------------------------------------------------------------------------
(* A drop of the memory changes no call but for what its build is worth. *)
LEMMA DropTypes ==
  ASSUME TypeInv, NEW p \in Process, NEW w \in Write, DropMemorySchemaCache(p, w)
  PROVE  /\ call' \in [Call -> CallRecord] /\ (\A c \in Call : Counts(call[c]))'
         /\ memory' \in [Process -> {None} \cup Schema]
         /\ listeners' \in [Process -> SUBSET {"current", "outdated"}]
         /\ dropped' \in [Process -> Schema] /\ late' \in [Process -> Schema]
  <1>. DEFINE Marked(c) == [call[c] EXCEPT !.outdated = TRUE]
  <1>1. ASSUME NEW c \in Call PROVE Marked(c) \in CallRecord /\ Counts(Marked(c))
    <2>1. call[c] \in CallRecord /\ Counts(call[c])
      BY DEF TypeInv, TypeOK, CallRecord
    <2>. QED BY <2>1 DEF CallRecord, Counts
  <1>2. call' \in [Call -> CallRecord] /\ (\A c \in Call : Counts(call[c]))'
    BY <1>1 DEF TypeInv, TypeOK, DropMemorySchemaCache
  <1>. QED BY <1>2 DEF TypeInv, TypeOK, DropMemorySchemaCache, Schema

(* The memory and what it may lack. *)
KeptTypes ==
  /\ memory \in [Process -> {None} \cup Schema]
  /\ dropped \in [Process -> Schema] /\ late \in [Process -> Schema]

LEMMA SetMemoryTypes ==
  ASSUME KeptTypes, NEW p \in Process, NEW schema \in Schema, NEW before \in Schema,
         SetMemorySchemaCache(p, schema, before), UNCHANGED dropped
  PROVE  KeptTypes'
  BY DEF KeptTypes, SetMemorySchemaCache

LEMMA BusListenerTypes ==
  ASSUME TypeInv, NEW p \in Process, NEW schema \in {None} \cup Schema, BusListener(p, schema),
         UNCHANGED dropped
  PROVE  /\ call' \in [Call -> CallRecord] /\ (\A c \in Call : Counts(call[c]))'
         /\ KeptTypes'
         /\ listeners' \in [Process -> SUBSET {"current", "outdated"}]
  <1>1. \A c \in Call : At(c, "waiting") => Again(c) \in CallRecord /\ Counts(Again(c))
    <2>1. SUFFICES ASSUME NEW c \in Call, At(c, "waiting") PROVE Again(c) \in CallRecord /\ Counts(Again(c))
      OBVIOUS
    <2>2. call[c].attempt + 1 \in 0 .. MaxAttempts /\ 0 \in 0 .. MaxBuilds
      BY <2>1, LimitAssumption DEF At, TypeInv, TypeOK, CallRecord, Counts
    <2>. QED BY <2>2, StandingCounts DEF Again
  <1>2. call' \in [Call -> CallRecord] /\ (\A c \in Call : Counts(call[c]))'
    BY <1>1, IdleCounts DEF TypeInv, TypeOK, BusListener
  <1>3. KeptTypes /\ DroppedBefore(p) \in Schema
    BY DEF TypeInv, TypeOK, KeptTypes, DroppedBefore, Schema
  <1>4. KeptTypes'
    BY <1>3, SetMemoryTypes DEF BusListener, Adopt, KeptTypes
  <1>. QED BY <1>2, <1>4 DEF BusListener, TypeInv, TypeOK

(* The messages on their way to a process. *)
LEMMA ReceiveTypes ==
  ASSUME TypeInv, NEW p \in Process, NEW i \in 1 .. Len(wire[p])
  PROVE  /\ wire[p] \in Seq(Message) /\ wire[p][i] \in Message
         /\ [wire EXCEPT ![p] = RemoveAt(@, i)] \in [Process -> Seq(Message)]
  <1>1. wire \in [Process -> Seq(Message)] /\ wire[p] \in Seq(Message)
    BY DEF TypeInv, TypeOK
  <1>2. wire[p][i] \in Message /\ RemoveAt(wire[p], i) \in Seq(Message)
    BY <1>1, ElementOfSeq, RemoveAtHolds
  <1>. QED BY <1>1, <1>2

LEMMA DonePublishedTypes ==
  ASSUME TypeInv, NEW c \in Call, DonePublished(c)
  PROVE  wire' \in [Process -> Seq(Message)]
  <1>1. PICK P : wire' = [p \in Process |-> IF p \in P THEN Append(wire[p], Done(call[c].schema)) ELSE wire[p]]
    BY DEF DonePublished
  <1>2. Done(call[c].schema) \in Message /\ wire \in [Process -> Seq(Message)]
    BY DEF Done, Message, TypeInv, TypeOK, CallRecord
  <1>3. \A p \in Process : Append(wire[p], Done(call[c].schema)) \in Seq(Message)
    BY <1>2, AppendHolds
  <1>. QED BY <1>1, <1>2, <1>3

(* What a step of a call leaves of everything but the calls. *)
LEMMA CallStepTypes ==
  ASSUME TypeInv, NEW c \in Call, CallStep(c) \/ GetDatabaseSchemaFails(c)
  PROVE  TypeInv'
  <1>. USE DEF TypeInv, TypeOK
  <1>1. call' \in [Call -> CallRecord] /\ (\A d \in Call : Counts(call[d]))'
    BY CallTypes
  <1>2. Home[c] \in Process /\ UNCHANGED <<clears, missed>>
    BY HomeAssumption DEF CallStep, GetSchema, Answer, ResetCounter, TimeOut, GetDatabaseSchema, EndBuild,
       PublishDone, DeleteCounter, GetDatabaseSchemaFails, clears, ghosts, kept
  <1>3. counter' \in Nat /\ overrun' \in BOOLEAN
    <2>1. counter' \in Nat
      BY DEF CallStep, GetSchema, CountIn, Answer, ResetCounter, TimeOut, GetDatabaseSchema, EndBuild,
         PublishDone, DeleteCounter, GetDatabaseSchemaFails
    <2>2. overrun' = overrun \/ overrun' = TRUE
      <3>1. CASE ResetCounter(c)
        BY <3>1, Zenon DEF ResetCounter
      <3>2. CASE ~ResetCounter(c)
        BY <3>2, Zenon DEF CallStep, GetSchema, Answer, TimeOut, GetDatabaseSchema, EndBuild,
           PublishDone, DeleteCounter, GetDatabaseSchemaFails, ghosts
      <3>. QED BY <3>1, <3>2
    <2>3. overrun' \in BOOLEAN
      BY <2>2, Zenon
    <2>. QED BY <2>1, <2>3
  <1>4. faults' \in 0 .. MaxFaults
    BY BoundAssumption DEF CallStep, GetSchema, Answer, ResetCounter, TimeOut, GetDatabaseSchema, EndBuild,
       PublishDone, DeleteCounter, GetDatabaseSchemaFails, Fault
  <1>5. listeners' \in [Process -> SUBSET {"current", "outdated"}]
    BY <1>2 DEF CallStep, GetSchema, CountIn, Listen, Answer, ResetCounter, TimeOut, GetDatabaseSchema, EndBuild,
       PublishDone, DeleteCounter, GetDatabaseSchemaFails, heard
  <1>6. wire' \in [Process -> Seq(Message)]
    BY DonePublishedTypes DEF CallStep, GetSchema, Answer, ResetCounter, TimeOut, GetDatabaseSchema, EndBuild,
       PublishDone, DeleteCounter, GetDatabaseSchemaFails, heard
  <1>7. KeptTypes'
    <2>1. CASE EndBuild(c)
      <3>1. KeptTypes /\ UNCHANGED dropped
        BY <2>1 DEF KeptTypes, EndBuild
      <3>2. ASSUME SetMemorySchemaCache(Home[c], call[c].schema, IF c \in Transactional THEN dropped[Home[c]] ELSE {}),
                   At(c, "reading")
            PROVE  KeptTypes'
        <4>1. call[c].schema \in Schema
          BY <3>2 DEF At, Counts
        <4>2. (IF c \in Transactional THEN dropped[Home[c]] ELSE {}) \in Schema
          BY <1>2 DEF Schema
        <4>. QED BY <1>2, <3>1, <3>2, <4>1, <4>2, SetMemoryTypes
      <3>. QED BY <2>1, <3>1, <3>2 DEF EndBuild, KeptTypes
    <2>2. CASE ~EndBuild(c)
      BY <2>2 DEF CallStep, GetSchema, Answer, ResetCounter, TimeOut, GetDatabaseSchema, PublishDone,
         DeleteCounter, GetDatabaseSchemaFails, ghosts, kept, KeptTypes
    <2>. QED BY <2>1, <2>2
  <1>. QED BY <1>1, <1>2, <1>3, <1>4, <1>5, <1>6, <1>7 DEF KeptTypes, clears

LEMMA ClearTypes ==
  ASSUME TypeInv, NEW w \in Write, Commit(w) \/ ClearStep(w)
  PROVE  TypeInv'
  <1>. USE DEF TypeInv, TypeOK
  <1>1. CASE Commit(w)
    <2>1. Append(db, w) \in Seq(Write)
      BY AppendHolds
    <2>. QED BY <1>1, <2>1 DEF Commit, heard, ghosts
  <1>2. CASE ClearSystemCache(w)
    BY <1>2, HomeAssumption, DropTypes DEF ClearSystemCache
  <1>3. CASE PublishSchemaChanged(w)
    <2>1. \A p \in Process : Append(wire[p], Changed(w)) \in Seq(Message)
      <3>1. Changed(w) \in Message
        BY DEF Changed, Message
      <3>. QED BY <3>1, AppendHolds
    <2>2. wire' \in [Process -> Seq(Message)]
      BY <1>3, <2>1 DEF PublishSchemaChanged
    <2>3. missed' \in [Process -> Schema]
      <3>1. \A p \in Process : missed[p] \in Schema /\ missed[p] \cup {w} \in Schema
        BY DEF Schema
      <3>. QED BY <1>3, <3>1 DEF PublishSchemaChanged, MissedBy
    <2>4. faults' \in 0 .. MaxFaults
      BY <1>3, BoundAssumption DEF PublishSchemaChanged, Fault
    <2>. QED BY <1>3, <2>2, <2>3, <2>4 DEF PublishSchemaChanged, kept
  <1>. QED BY <1>1, <1>2, <1>3 DEF ClearStep

LEMMA BusTypes ==
  ASSUME TypeInv, NEW p \in Process, BusStep(p) \/ Lose(p) \/ Die(p)
  PROVE  TypeInv'
  <1>. USE DEF TypeInv, TypeOK
  <1>1. CASE BusStep(p)
    <2>1. PICK i \in 1 .. Len(wire[p]) : Receive(p, i)
      BY <1>1 DEF BusStep
    <2>2. wire' \in [Process -> Seq(Message)] /\ wire[p][i] \in Message
      BY <2>1, ReceiveTypes DEF Receive
    <2>3. CASE wire[p][i].channel = "changed" /\ DropMemorySchemaCache(p, wire[p][i].write)
      <3>1. wire[p][i].write \in Write
        BY <2>2, <2>3 DEF Message
      <3>. QED BY <2>1, <2>2, <2>3, <3>1, DropTypes DEF Receive, clears
    <2>4. CASE /\ wire[p][i].channel = "done" /\ UNCHANGED dropped
               /\ IF listeners[p] = {} THEN UNCHANGED <<memory, late, listeners, call>>
                  ELSE BusListener(p, wire[p][i].schema)
      <3>1. wire[p][i].schema \in {None} \cup Schema
        BY <2>2, <2>4 DEF Message
      <3>. QED BY <2>1, <2>2, <2>4, <3>1, BusListenerTypes DEF Receive, clears, KeptTypes
    <2>. QED BY <2>1, <2>3, <2>4 DEF Receive
  <1>2. CASE Lose(p)
    <2>1. /\ Tail(wire[p]) \in Seq(Message) /\ Head(wire[p]) \in Message
          /\ Head(wire[p]).channel = "changed"
      BY <1>2, HeadTailProperties DEF Lose
    <2>2. wire' \in [Process -> Seq(Message)]
      BY <1>2, <2>1 DEF Lose
    <2>3. missed' \in [Process -> Schema]
      <3>1. Head(wire[p]).write \in Write
        BY <2>1 DEF Message
      <3>2. \A q \in Process : missed[q] \in Schema /\ missed[q] \cup {Head(wire[p]).write} \in Schema
        BY <3>1 DEF Schema
      <3>. QED BY <1>2, <3>2 DEF Lose, MissedBy
    <2>4. faults' \in 0 .. MaxFaults
      BY <1>2, BoundAssumption DEF Lose, Fault
    <2>. QED BY <1>2, <2>2, <2>3, <2>4 DEF Lose, clears, kept
  <1>3. CASE Die(p)
    <2>. DEFINE untold == {w \in Write : clearing[w] \in {"committed", "dropped"} /\ Writer[w] = p}
    <2>1. call' \in [Call -> CallRecord] /\ (\A c \in Call : Counts(call[c]))'
      BY <1>3, IdleCounts DEF Die
    <2>2. clearing' \in [Write -> {"none", "committed", "dropped", "told"}]
      BY <1>3 DEF Die
    <2>3. missed' \in [Process -> Schema]
      <3>1. \A q \in Process : {} \in Schema /\ missed[q] \cup (untold \ dropped[q]) \in Schema
        BY DEF Schema
      <3>. QED BY <1>3, <3>1 DEF Die
    <2>4. ToSet(db) \in Schema
      <3>1. Len(db) \in 0 .. Len(db)
        BY LenProperties
      <3>. QED BY <3>1, WrittenByThen DEF Schema
    <2>5. KeptTypes'
      BY <1>3, <2>4 DEF Die, KeptTypes, Schema
    <2>6. listeners' \in [Process -> SUBSET {"current", "outdated"}] /\ wire' \in [Process -> Seq(Message)]
      BY <1>3 DEF Die
    <2>7. faults' \in 0 .. MaxFaults
      BY <1>3, BoundAssumption DEF Die, Fault
    <2>. QED BY <1>3, <2>1, <2>2, <2>3, <2>5, <2>6, <2>7 DEF Die, KeptTypes
  <1>. QED BY <1>1, <1>2, <1>3

LEMMA StepTypes == TypeInv /\ [Next]_vars => TypeInv'
  <1>1. ASSUME TypeInv, Next PROVE TypeInv'
    BY <1>1, CallStepTypes, ClearTypes, BusTypes DEF Next
  <1>2. ASSUME TypeInv, UNCHANGED vars PROVE TypeInv'
    BY <1>2 DEF vars, clears, heard, ghosts, TypeInv, TypeOK
  <1>. QED BY <1>1, <1>2

(* Every step of a call, of a clear and of the bus keeps the types: the       *)
(* attempts of a call and of a build among them, which get-schema.ts bounds   *)
(* by comparing them with MAX_ATTEMPTS where each starts over.                *)
THEOREM TypeCorrect == Spec => []TypeOK
  <1>1. Spec => []TypeInv
    BY InitTypes, StepTypes, PTL DEF Spec
  <1>2. TypeInv => TypeOK
    BY DEF TypeInv
  <1>. QED BY <1>1, <1>2, PTL

--------------------------------------------------------------------------------
(* OneCallBuilds is not inductive: a second call builds when it counts itself *)
(* in as the first, so what it needs is that the counter stays up while a     *)
(* call builds.                                                               *)
CounterHeld ==
  /\ \A c, d \in Call : Builds(c) /\ Builds(d) => c = d
  /\ \A c \in Call : Builds(c) => counter > 0

LockInv == overrun \/ CounterHeld

LEMMA FewerBuild ==
  ASSUME CounterHeld, \A c \in Call : Builds(c)' => Builds(c), counter' = counter
  PROVE  CounterHeld'
  BY DEF CounterHeld

LEMMA CallStepLocks ==
  ASSUME TypeInv, CounterHeld, NEW c \in Call, CallStep(c) \/ GetDatabaseSchemaFails(c)
  PROVE  CounterHeld' \/ overrun'
  <1>. USE DEF TypeInv, TypeOK
  <1>1. CASE GetSchema(c)
    <2>1. counter' = counter + 1 /\ \A d \in Call : d # c => call'[d] = call[d]
      BY <1>1 DEF GetSchema, CountIn, MoveTo
    <2>2. ~Builds(c)
      BY <1>1 DEF GetSchema, Asks, Builds
    <2>3. counter' # 1 => ~Builds(c)'
      <3>1. call[c] \in CallRecord /\ (counter' # 1 => MoveTo(c, "waiting") \/ MoveTo(c, "resetting"))
        BY <1>1 DEF GetSchema, CountIn
      <3>. QED BY <3>1 DEF MoveTo, Builds, CallRecord
    <2>4. counter' = 1 => \A d \in Call : ~Builds(d)
      BY <2>1 DEF CounterHeld
    <2>5. \A d \in Call : d # c => (Builds(d)' <=> Builds(d))
      BY <2>1 DEF Builds
    <2>. QED BY <2>1, <2>2, <2>3, <2>4, <2>5 DEF CounterHeld
  <1>2. CASE Answer(c) \/ TimeOut(c) \/ GetDatabaseSchema(c) \/ EndBuild(c) \/ GetDatabaseSchemaFails(c)
             \/ PublishDone(c)
    <2>1. counter' = counter /\ \A d \in Call : d # c => call'[d] = call[d]
      BY <1>2 DEF Answer, Return, TimeOut, GetDatabaseSchema, EndBuild, Publish, GetDatabaseSchemaFails,
         PublishDone
    <2>2. Builds(c)' => Builds(c)
      BY <1>2 DEF Answer, Return, Idle, TimeOut, Again, GetDatabaseSchema, EndBuild, Publish,
         GetDatabaseSchemaFails, PublishDone, Standing, At, Builds
    <2>3. \A d \in Call : Builds(d)' => Builds(d)
      BY <2>1, <2>2 DEF Builds
    <2>. QED BY <2>1, <2>3, FewerBuild
  <1>3. CASE ResetCounter(c)
    BY <1>3, Zenon DEF ResetCounter
  <1>4. CASE DeleteCounter(c)
    <2>1. Builds(c) /\ \A d \in Call : d # c => ~Builds(d)
      BY <1>4 DEF DeleteCounter, At, Builds, CounterHeld
    <2>2. ~Builds(c)' /\ \A d \in Call : d # c => call'[d] = call[d]
      BY <1>4 DEF DeleteCounter, Return, Idle, Standing, Builds
    <2>3. \A d \in Call : ~Builds(d)'
      BY <2>1, <2>2 DEF Builds
    <2>. QED BY <2>3 DEF CounterHeld
  <1>. QED BY <1>1, <1>2, <1>3, <1>4 DEF CallStep

LEMMA DropBuilds ==
  ASSUME TypeInv, NEW p \in Process, NEW w, DropMemorySchemaCache(p, w), NEW c \in Call
  PROVE  call'[c].pc = call[c].pc
  <1>1. call[c] \in CallRecord
    BY DEF TypeInv, TypeOK
  <1>2. [call[c] EXCEPT !.outdated = TRUE].pc = call[c].pc
    BY <1>1 DEF CallRecord
  <1>3. call'[c] = call[c] \/ call'[c] = [call[c] EXCEPT !.outdated = TRUE]
    BY DEF DropMemorySchemaCache
  <1>. QED BY <1>2, <1>3

LEMMA OtherStepsLock ==
  ASSUME TypeInv, CounterHeld,
         \/ \E w \in Write : Commit(w) \/ ClearStep(w)
         \/ \E p \in Process : BusStep(p) \/ Lose(p) \/ Die(p)
  PROVE  CounterHeld'
  <1>. USE DEF TypeInv, TypeOK
  <1>1. counter' = counter
    BY DEF Commit, ClearStep, ClearSystemCache, PublishSchemaChanged, BusStep, Receive, Lose, Die
  <1>2. SUFFICES ASSUME NEW c \in Call, Builds(c)' PROVE Builds(c)
    BY <1>1, FewerBuild
  <1>3. ASSUME NEW p \in Process, NEW w, DropMemorySchemaCache(p, w) PROVE Builds(c)
    <2>1. call'[c].pc = call[c].pc
      BY <1>3, DropBuilds
    <2>. QED BY <1>2, <2>1 DEF Builds
  <1>4. CASE call'[c] = call[c]
    BY <1>2, <1>4 DEF Builds
  <1>5. CASE call'[c] # call[c]
    <2>1. CASE \E w \in Write : ClearSystemCache(w)
      BY <1>3, <2>1, HomeAssumption DEF ClearSystemCache
    <2>2. ASSUME NEW p \in Process, NEW schema, BusListener(p, schema) PROVE Builds(c)
      BY <1>2, <1>5, <2>2 DEF BusListener, Again, Idle, Standing, Builds
    <2>3. CASE \E p \in Process : BusStep(p)
      BY <1>3, <1>5, <2>2, <2>3 DEF BusStep, Receive
    <2>4. CASE \E p \in Process : Die(p)
      BY <1>2, <1>5, <2>4 DEF Die, Idle, Standing, Builds
    <2>5. CASE \E w \in Write : Commit(w) \/ PublishSchemaChanged(w)
      BY <1>5, <2>5 DEF Commit, PublishSchemaChanged
    <2>6. CASE \E p \in Process : Lose(p)
      BY <1>5, <2>6 DEF Lose
    <2>. QED BY <2>1, <2>3, <2>4, <2>5, <2>6 DEF ClearStep
  <1>. QED BY <1>4, <1>5

LEMMA OverrunStays == [Next]_vars /\ overrun => overrun'
  <1>1. ASSUME Next, overrun PROVE overrun'
    BY <1>1, Zenon DEF Next, CallStep, GetSchema, Answer, ResetCounter, TimeOut, GetDatabaseSchema, EndBuild,
       PublishDone, DeleteCounter, GetDatabaseSchemaFails, Commit, ClearStep, ClearSystemCache,
       PublishSchemaChanged, BusStep, Receive, Lose, Die, ghosts
  <1>2. ASSUME UNCHANGED vars, overrun PROVE overrun'
    BY <1>2, Zenon DEF vars, ghosts
  <1>. QED BY <1>1, <1>2

(* Only the call that found the counter at zero builds, and the counter is    *)
(* above zero until that call deletes it, so no second call builds: unless    *)
(* the counter reached its limit and was deleted under the one that built.    *)
THEOREM OneCallBuildsAtATime == Spec => []OneCallBuilds
  <1>1. Init => LockInv
    BY DEF Init, LockInv, CounterHeld, Builds, Idle, Standing
  <1>2. TypeInv /\ LockInv /\ [Next]_vars => LockInv'
    <2>1. ASSUME TypeInv, CounterHeld, Next PROVE CounterHeld' \/ overrun'
      BY <2>1, CallStepLocks, OtherStepsLock DEF Next
    <2>2. ASSUME CounterHeld, UNCHANGED vars PROVE CounterHeld'
      BY <2>2, FewerBuild DEF vars, Builds
    <2>. QED BY <2>1, <2>2, OverrunStays DEF LockInv
  <1>3. LockInv => OneCallBuilds
    BY DEF LockInv, CounterHeld, OneCallBuilds
  <1>. QED BY <1>1, <1>2, <1>3, InitTypes, StepTypes, PTL DEF Spec

--------------------------------------------------------------------------------
(* OldSchemaCameLate is not inductive either. A schema kept shows what its    *)
(* process has dropped its memory for, unless it came late: for that, the one *)
(* a build reads must. And what the process has not dropped for has still to  *)
(* reach it, or never will.                                                   *)
ClearsAreCommitted ==
  /\ \A w \in Write : clearing[w] # "none" => w \in ToSet(db)
  /\ \A p \in Process : dropped[p] \subseteq ToSet(db)
  /\ \A p \in Process, w \in Write : Changed(w) \in ToSet(wire[p]) => w \in ToSet(db)

BuildsShowDrops ==
  \A c \in Call : c \notin Transactional /\ call[c].pc = "reading" /\ ~call[c].outdated =>
    dropped[Home[c]] \subseteq call[c].schema

MemoryShowsDrops ==
  \A p \in Process : memory[p] # None => dropped[p] \subseteq memory[p] \cup late[p]

ClearsReach ==
  \A p \in Process : \A w \in ToSet(db) : Coming(p, w) \/ w \in missed[p] \cup dropped[p]

LateInv == ClearsAreCommitted /\ BuildsShowDrops /\ MemoryShowsDrops /\ ClearsReach

LEMMA InitLate == Init => LateInv
  <1>1. ToSet(<<>>) = {}
    BY DEF ToSet
  <1>. QED BY <1>1, HomeAssumption
       DEF Init, LateInv, ClearsAreCommitted, BuildsShowDrops, MemoryShowsDrops, ClearsReach, Idle, Standing

(* A message of a build on its way hides no clear. *)
LEMMA DonePublishedKeepsClears ==
  ASSUME TypeInv, NEW c \in Call, DonePublished(c), NEW p \in Process, NEW w
  PROVE  Changed(w) \in ToSet(wire'[p]) <=> Changed(w) \in ToSet(wire[p])
  <1>1. Done(call[c].schema) \in Message /\ wire[p] \in Seq(Message)
    BY DEF Done, Message, TypeInv, TypeOK, CallRecord
  <1>2. Changed(w).channel # Done(call[c].schema).channel
    BY DEF Changed, Done
  <1>3. wire'[p] = wire[p] \/ wire'[p] = Append(wire[p], Done(call[c].schema))
    BY DEF DonePublished
  <1>4. ToSet(Append(wire[p], Done(call[c].schema))) = ToSet(wire[p]) \cup {Done(call[c].schema)}
    BY <1>1, AppendHolds
  <1>. QED BY <1>2, <1>3, <1>4

LEMMA CallStepLate ==
  ASSUME TypeInv, LateInv, NEW c \in Call, CallStep(c) \/ GetDatabaseSchemaFails(c)
  PROVE  LateInv'
  <1>. USE DEF TypeInv, TypeOK, LateInv
  <1>0. Home[c] \in Process
    BY HomeAssumption
  <1>1. UNCHANGED <<db, clearing, dropped, missed>>
    BY DEF CallStep, GetSchema, Answer, ResetCounter, TimeOut, GetDatabaseSchema, EndBuild,
       PublishDone, DeleteCounter, GetDatabaseSchemaFails, clears, ghosts, kept
  <1>2. \A p \in Process, w \in Write : Changed(w) \in ToSet(wire'[p]) <=> Changed(w) \in ToSet(wire[p])
    <2>1. CASE UNCHANGED wire
      BY <2>1
    <2>2. CASE wire' # wire
      BY <2>2, DonePublishedKeepsClears DEF CallStep, GetSchema, Answer, ResetCounter, TimeOut,
         GetDatabaseSchema, EndBuild, PublishDone, DeleteCounter, GetDatabaseSchemaFails, heard
    <2>. QED BY <2>1, <2>2
  <1>3. ClearsAreCommitted'
    BY <1>1, <1>2 DEF ClearsAreCommitted
  <1>4. ClearsReach'
    <2>1. ToSet(db) \subseteq Write
      <3>1. Len(db) \in 0 .. Len(db)
        BY LenProperties
      <3>. QED BY <3>1, WrittenByThen
    <2>. QED BY <1>1, <1>2, <2>1 DEF ClearsReach, Coming
  <1>5. BuildsShowDrops'
    <2>1. \A d \in Call : d # c => call'[d] = call[d]
      BY DEF CallStep, GetSchema, CountIn, MoveTo, Answer, Return, ResetCounter, TimeOut, GetDatabaseSchema,
         EndBuild, Publish, GetDatabaseSchemaFails, PublishDone, DeleteCounter
    <2>2. c \notin Transactional /\ call'[c].pc = "reading" => call'[c].schema = ToSet(db)
      <3>1. CASE GetDatabaseSchema(c)
        <4>1. SubSeq(db, 1, Len(db)) = db
          BY SubSeqFull
        <4>2. ASSUME c \notin Transactional
              PROVE  call' = [call EXCEPT ![c] = Standing("reading", call[c].attempt, call[c].count + 1,
                                                          ToSet(SubSeq(db, 1, Len(db))))]
          BY <3>1, <4>2 DEF GetDatabaseSchema
        <4>3. Standing("reading", call[c].attempt, call[c].count + 1, ToSet(SubSeq(db, 1, Len(db)))).schema
                = ToSet(db)
          BY <4>1 DEF Standing
        <4>. QED BY <4>2, <4>3
      <3>2. CASE GetSchema(c) \/ ResetCounter(c)
        <4>1. call[c] \in CallRecord
              /\ \/ MoveTo(c, "waiting") \/ MoveTo(c, "resetting") \/ MoveTo(c, "building")
          BY <3>2 DEF GetSchema, CountIn, ResetCounter
        <4>2. call'[c].pc # "reading"
          BY <4>1 DEF MoveTo, CallRecord
        <4>. QED BY <4>2
      <3>3. CASE ~GetDatabaseSchema(c) /\ ~GetSchema(c) /\ ~ResetCounter(c)
        <4>1. call'[c].pc # "reading"
          BY <3>3 DEF CallStep, Answer, Return, Idle, TimeOut, Again, EndBuild, Publish,
             GetDatabaseSchemaFails, PublishDone, DeleteCounter, Standing
        <4>. QED BY <4>1
      <3>. QED BY <3>1, <3>2, <3>3
    <2>3. BuildsShowDrops /\ dropped[Home[c]] \subseteq ToSet(db)
      BY <1>0 DEF ClearsAreCommitted
    <2>. HIDE DEF TypeInv, TypeOK, LateInv
    <2>. QED BY <1>1, <2>1, <2>2, <2>3 DEF BuildsShowDrops
  <1>6. MemoryShowsDrops'
    <2>1. CASE UNCHANGED <<memory, late>>
      BY <1>1, <2>1 DEF MemoryShowsDrops
    <2>2. CASE ~UNCHANGED <<memory, late>>
      <3>1. /\ At(c, "reading") /\ ~call[c].outdated
            /\ SetMemorySchemaCache(Home[c], call[c].schema,
                                    IF c \in Transactional THEN dropped[Home[c]] ELSE {})
        BY <2>2 DEF CallStep, GetSchema, Answer, ResetCounter, TimeOut, GetDatabaseSchema, EndBuild,
           PublishDone, DeleteCounter, GetDatabaseSchemaFails, ghosts, kept
      <3>2. dropped[Home[c]] \subseteq
              call[c].schema \cup (IF c \in Transactional THEN dropped[Home[c]] ELSE {})
        BY <3>1 DEF BuildsShowDrops, At
      <3>. QED BY <1>0, <1>1, <3>1, <3>2 DEF SetMemorySchemaCache, MemoryShowsDrops
    <2>. QED BY <2>1, <2>2
  <1>. QED BY <1>3, <1>4, <1>5, <1>6

(* A drop for a write the database has committed. *)
LEMMA DropLate ==
  ASSUME TypeInv, LateInv, NEW p \in Process, NEW w \in ToSet(db), DropMemorySchemaCache(p, w),
         UNCHANGED db
  PROVE  /\ (\A q \in Process : dropped[q] \subseteq ToSet(db))'
         /\ BuildsShowDrops' /\ MemoryShowsDrops'
         /\ \A q \in Process : dropped[q] \subseteq dropped'[q]
         /\ w \in dropped'[p]
  <1>. USE DEF TypeInv, TypeOK, LateInv
  <1>1. \A q \in Process : dropped'[q] = IF q = p THEN dropped[q] \cup {w} ELSE dropped[q]
    BY DEF DropMemorySchemaCache
  <1>2. BuildsShowDrops'
    <2>1. SUFFICES ASSUME NEW c \in Call, c \notin Transactional, call'[c].pc = "reading",
                          ~call'[c].outdated
                   PROVE  dropped'[Home[c]] \subseteq call'[c].schema
      BY DEF BuildsShowDrops
    <2>2. call[c] \in CallRecord /\ [call[c] EXCEPT !.outdated = TRUE].outdated
      BY DEF CallRecord
    <2>3. call'[c] = call[c] /\ Home[c] # p
      <3>1. call'[c] = IF Home[c] = p /\ At(c, "reading") THEN [call[c] EXCEPT !.outdated = TRUE] ELSE call[c]
        BY DEF DropMemorySchemaCache
      <3>2. call'[c] = call[c]
        BY <2>1, <2>2, <3>1
      <3>3. At(c, "reading")
        BY <2>1, <3>2 DEF At
      <3>. QED BY <2>1, <2>2, <3>1, <3>2, <3>3
    <2>. QED BY <1>1, <2>1, <2>3, HomeAssumption DEF BuildsShowDrops
  <1>3. MemoryShowsDrops'
    BY <1>1 DEF MemoryShowsDrops, DropMemorySchemaCache
  <1>. QED BY <1>1, <1>2, <1>3 DEF ClearsAreCommitted

LEMMA ClearLate ==
  ASSUME TypeInv, LateInv, NEW w \in Write, Commit(w) \/ ClearStep(w)
  PROVE  LateInv'
  <1>. USE DEF TypeInv, TypeOK, LateInv
  <1>0. ToSet(db) \subseteq Write
    <2>1. Len(db) \in 0 .. Len(db)
      BY LenProperties
    <2>. QED BY <2>1, WrittenByThen
  <1>1. CASE Commit(w)
    <2>1. ToSet(db') = ToSet(db) \cup {w}
      BY <1>1, AppendHolds DEF Commit
    <2>2. /\ UNCHANGED <<memory, call, dropped, late, missed, wire>>
          /\ \A v \in Write : v # w => clearing'[v] = clearing[v]
          /\ clearing'[w] = "committed"
      BY <1>1 DEF Commit, heard, ghosts
    <2>3. ClearsAreCommitted'
      BY <2>1, <2>2 DEF ClearsAreCommitted
    <2>4. ClearsReach'
      BY <1>0, <2>1, <2>2 DEF ClearsReach, Coming
    <2>. QED BY <2>2, <2>3, <2>4 DEF BuildsShowDrops, MemoryShowsDrops
  <1>2. CASE ClearSystemCache(w)
    <2>1. /\ w \in ToSet(db) /\ Writer[w] \in Process
          /\ UNCHANGED <<db, wire, missed>> /\ DropMemorySchemaCache(Writer[w], w)
          /\ \A v \in Write : v # w => clearing'[v] = clearing[v]
          /\ clearing'[w] = "dropped"
      BY <1>2, HomeAssumption DEF ClearSystemCache, ClearsAreCommitted
    <2>2. /\ (\A q \in Process : dropped[q] \subseteq ToSet(db))'
          /\ BuildsShowDrops' /\ MemoryShowsDrops'
          /\ \A q \in Process : dropped[q] \subseteq dropped'[q]
      BY <2>1, DropLate
    <2>3. ClearsAreCommitted'
      BY <2>1, <2>2 DEF ClearsAreCommitted
    <2>4. ClearsReach'
      BY <1>0, <2>1, <2>2 DEF ClearsReach, Coming
    <2>. QED BY <2>2, <2>3, <2>4
  <1>3. CASE PublishSchemaChanged(w)
    <2>1. /\ w \in ToSet(db) /\ UNCHANGED <<db, memory, call, dropped, late>>
          /\ \A v \in Write : v # w => clearing'[v] = clearing[v]
          /\ clearing'[w] = "told"
      BY <1>3 DEF PublishSchemaChanged, kept, ClearsAreCommitted
    <2>2. \/ /\ missed' = missed
             /\ \A p \in Process : wire'[p] = Append(wire[p], Changed(w))
          \/ /\ wire' = wire
             /\ \A p \in Process : w \in missed'[p] \cup dropped[p] /\ missed[p] \subseteq missed'[p]
      BY <1>3 DEF PublishSchemaChanged, MissedBy
    <2>3. \A p \in Process : ToSet(Append(wire[p], Changed(w))) = ToSet(wire[p]) \cup {Changed(w)}
      <3>1. Changed(w) \in Message
        BY DEF Changed, Message
      <3>. QED BY <3>1, AppendHolds
    <2>4. \A v : Changed(v) = Changed(w) => v = w
      BY DEF Changed
    <2>5. ASSUME NEW p \in Process
          PROVE  /\ \A v : Changed(v) \in ToSet(wire[p]) => Changed(v) \in ToSet(wire'[p])
                 /\ \A v : Changed(v) \in ToSet(wire'[p]) => v = w \/ Changed(v) \in ToSet(wire[p])
                 /\ Changed(w) \in ToSet(wire'[p]) \/ w \in missed'[p] \cup dropped[p]
                 /\ missed[p] \subseteq missed'[p]
      <3>1. CASE missed' = missed /\ wire'[p] = Append(wire[p], Changed(w))
        BY <2>3, <2>4, <3>1
      <3>2. CASE wire' = wire /\ w \in missed'[p] \cup dropped[p] /\ missed[p] \subseteq missed'[p]
        BY <3>2
      <3>. QED BY <2>2, <3>1, <3>2
    <2>6. ClearsAreCommitted'
      BY <2>1, <2>5 DEF ClearsAreCommitted
    <2>7. ClearsReach'
      <3>1. SUFFICES ASSUME NEW p \in Process, NEW v \in ToSet(db)
                     PROVE  Coming(p, v)' \/ v \in missed'[p] \cup dropped[p]
        BY <2>1 DEF ClearsReach
      <3>2. CASE v = w
        BY <2>5, <3>2 DEF Coming
      <3>3. CASE v # w
        BY <1>0, <2>1, <2>5, <3>1, <3>3 DEF ClearsReach, Coming
      <3>. QED BY <3>2, <3>3
    <2>. QED BY <2>1, <2>6, <2>7 DEF BuildsShowDrops, MemoryShowsDrops
  <1>. QED BY <1>1, <1>2, <1>3 DEF ClearStep

LEMMA BusLate ==
  ASSUME TypeInv, LateInv, NEW p \in Process, BusStep(p) \/ Lose(p) \/ Die(p)
  PROVE  LateInv'
  <1>. USE DEF TypeInv, TypeOK, LateInv
  <1>0. ToSet(db) \subseteq Write
    <2>1. Len(db) \in 0 .. Len(db)
      BY LenProperties
    <2>. QED BY <2>1, WrittenByThen
  <1>1. CASE BusStep(p)
    <2>1. PICK i \in 1 .. Len(wire[p]) : Receive(p, i)
      BY <1>1 DEF BusStep
    <2>. DEFINE message == wire[p][i]
    <2>2. /\ message \in Message /\ message \in ToSet(wire[p])
          /\ \A m : m \in ToSet(wire[p]) => m \in ToSet(wire'[p]) \/ m = message
          /\ \A m : m \in ToSet(wire'[p]) => m \in ToSet(wire[p])
          /\ \A q \in Process : q # p => wire'[q] = wire[q]
      <3>1. wire[p] \in Seq(Message) /\ wire'[p] = RemoveAt(wire[p], i)
        BY <2>1 DEF Receive
      <3>2. message \in ToSet(wire[p]) /\ ToSet(wire[p]) = ToSet(wire'[p]) \cup {message}
        BY <3>1, RemoveAtHolds
      <3>. QED BY <2>1, <3>2, ReceiveTypes DEF Receive
    <2>3. UNCHANGED <<db, clearing, missed>>
      BY <2>1 DEF Receive, clears
    <2>4. CASE message.channel = "changed" /\ DropMemorySchemaCache(p, message.write)
      <3>. DEFINE w == message.write
      <3>1. message = Changed(w) /\ w \in Write
        BY <2>2, <2>4 DEF Changed, Message
      <3>2. w \in ToSet(db) /\ \A v : Changed(v) = Changed(w) => v = w
        BY <2>2, <3>1 DEF ClearsAreCommitted, Changed
      <3>3. /\ (\A q \in Process : dropped[q] \subseteq ToSet(db))'
            /\ BuildsShowDrops' /\ MemoryShowsDrops'
            /\ \A q \in Process : dropped[q] \subseteq dropped'[q]
            /\ w \in dropped'[p]
        BY <2>3, <2>4, <3>2, DropLate
      <3>4. ClearsAreCommitted'
        BY <2>2, <2>3, <3>3 DEF ClearsAreCommitted
      <3>5. ClearsReach'
        <4>1. SUFFICES ASSUME NEW q \in Process, NEW v \in ToSet(db)
                       PROVE  Coming(q, v)' \/ v \in missed[q] \cup dropped'[q]
          BY <2>3 DEF ClearsReach
        <4>2. Coming(q, v) \/ v \in missed[q] \cup dropped[q]
          BY DEF ClearsReach
        <4>3. CASE q = p /\ v = w
          BY <3>3, <4>3
        <4>4. CASE q # p \/ v # w
          BY <2>2, <2>3, <3>1, <3>2, <3>3, <4>2, <4>4 DEF Coming
        <4>. QED BY <4>3, <4>4
      <3>. QED BY <3>3, <3>4, <3>5
    <2>5. CASE /\ message.channel = "done" /\ UNCHANGED dropped
               /\ IF listeners[p] = {} THEN UNCHANGED <<memory, late, listeners, call>>
                  ELSE BusListener(p, message.schema)
      <3>1. \A q \in Process : \A v : Changed(v) \in ToSet(wire'[q]) <=> Changed(v) \in ToSet(wire[q])
        <4>1. \A v : Changed(v).channel # message.channel
          BY <2>5 DEF Changed
        <4>. QED BY <2>2, <4>1
      <3>2. ClearsAreCommitted' /\ ClearsReach'
        BY <2>3, <2>5, <3>1 DEF ClearsAreCommitted, ClearsReach, Coming
      <3>3. BuildsShowDrops'
        <4>1. \A c \in Call : call'[c] = call[c] \/ call'[c].pc # "reading"
          BY <2>5 DEF BusListener, Again, Idle, Standing
        <4>. QED BY <2>5, <4>1 DEF BuildsShowDrops
      <3>4. MemoryShowsDrops'
        <4>1. CASE UNCHANGED <<memory, late>>
          BY <2>5, <4>1 DEF MemoryShowsDrops
        <4>2. CASE "current" \in listeners[p] /\ SetMemorySchemaCache(p, message.schema, DroppedBefore(p))
          BY <2>5, <4>2 DEF MemoryShowsDrops, SetMemorySchemaCache, DroppedBefore
        <4>. QED BY <2>5, <4>1, <4>2 DEF BusListener, Adopt
      <3>. QED BY <3>2, <3>3, <3>4
    <2>. QED BY <2>1, <2>4, <2>5 DEF Receive
  <1>2. CASE Lose(p)
    <2>. DEFINE w == Head(wire[p]).write
    <2>1. /\ Head(wire[p]) \in ToSet(wire[p]) /\ Head(wire[p]) \in Message
          /\ ToSet(wire[p]) = ToSet(Tail(wire[p])) \cup {Head(wire[p])}
      BY <1>2, TailHolds, HeadTailProperties DEF Lose
    <2>2. Head(wire[p]) = Changed(w) /\ w \in Write
      BY <1>2, <2>1 DEF Lose, Changed, Message
    <2>3. /\ UNCHANGED <<db, clearing, memory, dropped, late, call>>
          /\ wire'[p] = Tail(wire[p])
          /\ \A q \in Process : q # p => wire'[q] = wire[q]
          /\ w \in missed'[p] \cup dropped[p]
          /\ \A q \in Process : missed[q] \subseteq missed'[q]
      BY <1>2 DEF Lose, MissedBy, clears, kept
    <2>4. ClearsAreCommitted'
      BY <2>1, <2>3 DEF ClearsAreCommitted
    <2>5. ClearsReach'
      <3>1. SUFFICES ASSUME NEW q \in Process, NEW v \in ToSet(db)
                     PROVE  Coming(q, v)' \/ v \in missed'[q] \cup dropped[q]
        BY <2>3 DEF ClearsReach
      <3>2. Coming(q, v) \/ v \in missed[q] \cup dropped[q]
        BY DEF ClearsReach
      <3>3. CASE q = p /\ v = w
        BY <2>3, <3>3
      <3>4. CASE q # p \/ v # w
        <4>1. v # w => Changed(v) # Changed(w)
          BY DEF Changed
        <4>. QED BY <2>1, <2>2, <2>3, <3>2, <3>4, <4>1 DEF Coming
      <3>. QED BY <3>3, <3>4
    <2>. QED BY <2>3, <2>4, <2>5 DEF BuildsShowDrops, MemoryShowsDrops
  <1>3. CASE Die(p)
    <2>. DEFINE untold == {w \in Write : clearing[w] \in {"committed", "dropped"} /\ Writer[w] = p}
    <2>1. /\ UNCHANGED db /\ wire'[p] = <<>> /\ dropped'[p] = ToSet(db) /\ memory'[p] = None
          /\ \A q \in Process : q # p => /\ wire'[q] = wire[q] /\ dropped'[q] = dropped[q]
                                         /\ memory'[q] = memory[q] /\ late'[q] = late[q]
                                         /\ missed'[q] = missed[q] \cup (untold \ dropped[q])
          /\ \A w \in Write : clearing'[w] = IF w \in untold THEN "told" ELSE clearing[w]
          /\ \A c \in Call : call'[c] = IF Home[c] = p THEN Idle ELSE call[c]
      BY <1>3 DEF Die
    <2>2. ToSet(<<>>) = {} /\ Idle.pc # "reading"
      BY DEF ToSet, Idle, Standing
    <2>3. ClearsAreCommitted'
      <3>1. \A w \in Write : clearing'[w] # "none" => w \in ToSet(db)
        BY <2>1 DEF ClearsAreCommitted
      <3>2. ASSUME NEW q \in Process PROVE dropped'[q] \subseteq ToSet(db)
        <4>1. dropped[q] \subseteq ToSet(db)
          BY DEF ClearsAreCommitted
        <4>2. dropped'[q] = ToSet(db) \/ dropped'[q] = dropped[q]
          BY <2>1
        <4>. QED BY <4>1, <4>2
      <3>3. \A q \in Process, w \in Write : Changed(w) \in ToSet(wire'[q]) => w \in ToSet(db)
        BY <2>1, <2>2 DEF ClearsAreCommitted
      <3>. QED BY <2>1, <3>1, <3>2, <3>3 DEF ClearsAreCommitted
    <2>4. BuildsShowDrops'
      BY <2>1, <2>2, HomeAssumption DEF BuildsShowDrops
    <2>5. MemoryShowsDrops'
      BY <2>1 DEF MemoryShowsDrops
    <2>6. ClearsReach'
      <3>1. SUFFICES ASSUME NEW q \in Process, NEW v \in ToSet(db)
                     PROVE  Coming(q, v)' \/ v \in missed'[q] \cup dropped'[q]
        BY <2>1 DEF ClearsReach
      <3>2. CASE q = p
        BY <2>1, <3>2
      <3>3. CASE q # p
        <4>1. Coming(q, v) \/ v \in missed[q] \cup dropped[q]
          BY DEF ClearsReach
        <4>2. v \in untold => v \in missed'[q] \cup dropped'[q]
          BY <2>1, <3>3
        <4>3. v \notin untold => clearing'[v] = clearing[v]
          BY <1>0, <2>1
        <4>. QED BY <2>1, <3>3, <4>1, <4>2, <4>3 DEF Coming
      <3>. QED BY <3>2, <3>3
    <2>. QED BY <2>3, <2>4, <2>5, <2>6
  <1>. QED BY <1>1, <1>2, <1>3

LEMMA StepLate == TypeInv /\ LateInv /\ [Next]_vars => LateInv'
  <1>1. ASSUME TypeInv, LateInv, Next PROVE LateInv'
    BY <1>1, CallStepLate, ClearLate, BusLate DEF Next
  <1>2. ASSUME LateInv, UNCHANGED vars PROVE LateInv'
    BY <1>2 DEF vars, clears, heard, ghosts, LateInv, ClearsAreCommitted, BuildsShowDrops, MemoryShowsDrops,
       ClearsReach, Coming
  <1>. QED BY <1>1, <1>2

(* A schema a process keeps lacks a write only while the clear of that write  *)
(* has still to reach the process, or never will, or the process took the     *)
(* schema late: whatever the order in which builds, waits, publications and   *)
(* clears pass one another.                                                   *)
THEOREM OldSchemasCameLate == Spec => []OldSchemaCameLate
  <1>1. LateInv => OldSchemaCameLate
    BY DEF LateInv, MemoryShowsDrops, ClearsReach, OldSchemaCameLate
  <1>. QED BY <1>1, InitTypes, StepTypes, InitLate, StepLate, PTL DEF Spec
=============================================================================
