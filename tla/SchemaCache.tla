------------------------------ MODULE SchemaCache ------------------------------
(* The schema each process keeps in memory: who builds it, who waits for the  *)
(* build of another, and how a change of the schema reaches every process.    *)
(*                                                                            *)
(* A call of getSchema (utils/get-schema.ts) that finds nothing in memory     *)
(* increments a counter in redis, which has no TTL: the first builds, the     *)
(* others wait on the bus for what it publishes, or for a timer. A write of   *)
(* the schema drops its own process's memory, then tells the others on the    *)
(* bus (clearSystemCache, cache.ts). A count of the drops, the generation, is  *)
(* only ever compared with what a build or a wait noted of it: it stands here *)
(* as what each drop makes of the builds and of the listeners of its process. *)
(*                                                                            *)
(* A schema is the set of writes it shows: a build reads in several queries,  *)
(* and shows what its first one did. The bus keeps the order, but a schema    *)
(* travels compressed: others overtake it while it is inflated.               *)
EXTENDS Naturals, Sequences, SequencesExt

CONSTANTS Process, Call, Write, None,
          Home,          \* Home[c]: the process call c runs in
          Writer,        \* Writer[w]: the process write w is made in
          Transactional, \* the calls given a transaction that reads one snapshot
          MaxAttempts,   \* MAX_ATTEMPTS, of a call
          MaxBuilds,     \* MAX_ATTEMPTS, of a build
          MaxIterations, \* CACHE_SCHEMA_MAX_ITERATIONS
          MaxDone,       \* bound: how many builds are on their way to a process at once
          MaxFaults      \* bound: queries and publications refused, messages lost,
                         \* processes that die

ASSUME HomeAssumption ==
  Home \in [Call -> Process] /\ Writer \in [Write -> Process] /\ Transactional \subseteq Call
ASSUME LimitAssumption == {MaxAttempts, MaxBuilds} \subseteq Nat \ {0} /\ MaxIterations \in Nat \ {0, 1}
ASSUME BoundAssumption == {MaxDone, MaxFaults} \subseteq Nat
ASSUME NoneAssumption == \A schema \in SUBSET Write : schema # None

VARIABLES
  db,         \* the writes the database has committed, in order
  clearing,   \* clearing[w]: where the clear after write w stands
  memory,     \* memory[p]: memorySchemaCache
  counter,    \* `schemaCache--preparing` in redis
  call,       \* call[c]: where the call stands
  listeners,  \* listeners[p]: "current", "outdated" or both, as the generations at which
              \* its listeners of `schemaCache--done` began
  wire,       \* wire[p]: the messages on their way to p, in order
  dropped,    \* dropped[p]: the writes p has dropped its memory for
  missed,     \* missed[p]: the writes p will never be told of
  late,       \* late[p]: the writes already dropped for when what p keeps was waited
              \* for, or read in an older snapshot
  overrun,    \* whether the counter was ever deleted for having reached its limit
  faults

ghosts == <<dropped, missed, late, overrun>>
clears == <<db, clearing>>
kept == <<memory, dropped, late>>
heard == <<listeners, wire>>
vars == <<clears, memory, counter, call, heard, ghosts, faults>>

Standing(pc, attempt, count, schema) ==
  [pc |-> pc, attempt |-> attempt, count |-> count, outdated |-> FALSE, schema |-> schema]
Idle == Standing("idle", 0, 0, None)

Changed(w) == [channel |-> "changed", write |-> w]
Done(schema) == [channel |-> "done", schema |-> schema]

Init ==
  /\ db = <<>> /\ clearing = [w \in Write |-> "none"]
  /\ memory = [p \in Process |-> None]
  /\ counter = 0
  /\ call = [c \in Call |-> Idle]
  /\ listeners = [p \in Process |-> {}]
  /\ wire = [p \in Process |-> <<>>]
  /\ dropped = [p \in Process |-> {}] /\ missed = dropped /\ late = dropped
  /\ overrun = FALSE
  /\ faults = 0

At(c, pc) == call[c].pc = pc
MoveTo(c, pc) == call' = [call EXCEPT ![c] = [@ EXCEPT !.pc = pc]]
Return(c) == call' = [call EXCEPT ![c] = Idle]
Fault == faults < MaxFaults /\ faults' = faults + 1

--------------------------------------------------------------------------------
(* dropMemorySchemaCache, for write w: what the process builds or waits for   *)
(* began at a generation that is over.                                        *)
DropMemorySchemaCache(p, w) ==
  /\ memory' = [memory EXCEPT ![p] = None]
  /\ call' = [c \in Call |-> IF Home[c] = p /\ At(c, "reading") THEN [call[c] EXCEPT !.outdated = TRUE]
                             ELSE call[c]]
  /\ listeners' = [listeners EXCEPT ![p] = IF @ = {} THEN {} ELSE {"outdated"}]
  /\ dropped' = [dropped EXCEPT ![p] = @ \cup {w}]
  /\ late' = [late EXCEPT ![p] = {}]

(* A service commits a change of the schema; its `finally` clears. *)
Commit(w) ==
  /\ clearing[w] = "none"
  /\ db' = Append(db, w)
  /\ clearing' = [clearing EXCEPT ![w] = "committed"]
  /\ UNCHANGED <<memory, counter, call, heard, ghosts, faults>>

(* clearSystemCache up to the clear of the permissions. *)
ClearSystemCache(w) ==
  /\ clearing[w] = "committed"
  /\ clearing' = [clearing EXCEPT ![w] = "dropped"]
  /\ DropMemorySchemaCache(Writer[w], w)
  /\ UNCHANGED <<db, counter, wire, missed, overrun, faults>>

MissedBy(P, w) ==
  missed' = [p \in Process |-> IF p \in P /\ w \notin dropped[p] THEN missed[p] \cup {w}
                               ELSE missed[p]]

(* Then it tells every process, its own included, or is refused: that is      *)
(* logged, and nobody is told.                                                *)
PublishSchemaChanged(w) ==
  /\ clearing[w] = "dropped"
  /\ clearing' = [clearing EXCEPT ![w] = "told"]
  /\ \/ /\ wire' = [p \in Process |-> Append(wire[p], Changed(w))]
        /\ UNCHANGED <<missed, faults>>
     \/ Fault /\ MissedBy(Process, w) /\ UNCHANGED wire
  /\ UNCHANGED <<db, kept, counter, call, listeners, overrun>>

--------------------------------------------------------------------------------
Asks(c) == call[c].pc \in {"idle", "again"}

(* A retry finds a schema in memory, or throws after the last attempt. *)
Answer(c) ==
  /\ At(c, "again")
  /\ memory[Home[c]] # None \/ call[c].attempt = MaxAttempts
  /\ Return(c)
  /\ UNCHANGED <<clears, memory, counter, heard, ghosts, faults>>

Listen(p) == listeners' = [listeners EXCEPT ![p] = @ \cup {"current"}]

(* A call that finds none counts itself in: the first one builds, the others  *)
(* listen.                                                                    *)
CountIn(c) ==
  /\ counter' = counter + 1
  /\ \/ counter' = 1 /\ MoveTo(c, "building") /\ UNCHANGED listeners
     \/ counter' \in 2 .. MaxIterations - 1 /\ MoveTo(c, "waiting") /\ Listen(Home[c])
     \/ counter' >= MaxIterations /\ MoveTo(c, "resetting") /\ UNCHANGED listeners

(* Variant: no attempt is the last one. *)
GetSchemaForever(c) ==
  /\ Asks(c) /\ memory[Home[c]] = None
  /\ CountIn(c)
  /\ UNCHANGED <<clears, memory, wire, ghosts, faults>>

GetSchema(c) ==
  /\ Asks(c) /\ memory[Home[c]] = None /\ call[c].attempt < MaxAttempts
  /\ CountIn(c)
  /\ UNCHANGED <<clears, memory, wire, ghosts, faults>>

(* Variant: the counter restarts with the call that resets it. *)
RestartCounter(c) ==
  /\ At(c, "resetting")
  /\ counter' = 1 /\ overrun' = TRUE
  /\ MoveTo(c, "waiting") /\ Listen(Home[c])
  /\ UNCHANGED <<clears, kept, wire, missed, faults>>

(* The counter at its limit is deleted first, whoever builds. *)
ResetCounter(c) ==
  /\ At(c, "resetting")
  /\ counter' = 0 /\ overrun' = TRUE
  /\ MoveTo(c, "waiting") /\ Listen(Home[c])
  /\ UNCHANGED <<clears, kept, wire, missed, faults>>

Again(c) == Standing("again", call[c].attempt + 1, 0, None)

(* The timer leaves the listener behind. *)
TimeOut(c) ==
  /\ At(c, "waiting")
  /\ call' = [call EXCEPT ![c] = Again(c)]
  /\ UNCHANGED <<clears, memory, counter, heard, ghosts, faults>>

--------------------------------------------------------------------------------
(* A build notes the generation as it sends its first query. Given a          *)
(* transaction that reads one snapshot, it shows what was committed when that *)
(* one began.                                                                 *)
GetDatabaseSchema(c) ==
  /\ At(c, "building")
  /\ \E n \in IF c \in Transactional THEN 0 .. Len(db) ELSE {Len(db)} :
       call' = [call EXCEPT ![c] =
                  Standing("reading", call[c].attempt, call[c].count + 1, ToSet(SubSeq(db, 1, n)))]
  /\ UNCHANGED <<clears, memory, counter, heard, ghosts, faults>>

Publish(c, schema) == call' = [call EXCEPT ![c] = Standing("publishing", 0, 0, schema)]

(* setMemorySchemaCache; what it may lack is what was dropped for before.     *)
SetMemorySchemaCache(p, schema, before) ==
  /\ memory' = [memory EXCEPT ![p] = schema]
  /\ late' = [late EXCEPT ![p] = before]

(* It reads again when the memory was dropped meanwhile, a few times at most, *)
(* and is then published as a failure.                                        *)
EndBuild(c) ==
  LET p == Home[c] IN
  /\ At(c, "reading")
  /\ \/ /\ call[c].outdated /\ call[c].count < MaxBuilds
        /\ call' = [call EXCEPT ![c] = Standing("building", call[c].attempt, call[c].count, None)]
        /\ UNCHANGED <<memory, late>>
     \/ /\ call[c].outdated /\ call[c].count = MaxBuilds
        /\ Publish(c, None)
        /\ UNCHANGED <<memory, late>>
     \/ /\ ~call[c].outdated
        /\ SetMemorySchemaCache(p, call[c].schema, IF c \in Transactional THEN dropped[p] ELSE {})
        /\ Publish(c, call[c].schema)
  /\ UNCHANGED <<clears, counter, heard, dropped, missed, overrun, faults>>

GetDatabaseSchemaFails(c) ==
  /\ At(c, "reading") /\ Fault
  /\ Publish(c, None)
  /\ UNCHANGED <<clears, memory, counter, heard, ghosts>>

(* Redis may have served the subscription of a process that listens. *)
Served(p) ==
  /\ listeners[p] # {}
  /\ Len(SelectSeq(wire[p], LAMBDA message : message.channel = "done")) < MaxDone

DonePublished(c) ==
  \E P \in SUBSET {p \in Process : Served(p)} :
    wire' = [p \in Process |-> IF p \in P THEN Append(wire[p], Done(call[c].schema)) ELSE wire[p]]

(* Variant: the counter is deleted while the message is published. *)
PublishUnlocked(c) ==
  /\ At(c, "publishing") /\ counter' = 0
  /\ \/ DonePublished(c) /\ call' = [call EXCEPT ![c] = Standing("unlocking", 0, 0, None)] /\ UNCHANGED faults
     \/ Fault /\ Return(c) /\ UNCHANGED wire
  /\ UNCHANGED <<clears, memory, listeners, ghosts>>

(* The `finally` of the build publishes, then deletes the counter: refused    *)
(* either, it throws and leaves the counter.                                  *)
PublishDone(c) ==
  /\ At(c, "publishing")
  /\ \/ /\ DonePublished(c)
        /\ call' = [call EXCEPT ![c] = Standing("unlocking", 0, 0, None)]
        /\ UNCHANGED faults
     \/ Fault /\ Return(c) /\ UNCHANGED wire
  /\ UNCHANGED <<clears, memory, counter, listeners, ghosts>>

DeleteCounter(c) ==
  /\ At(c, "unlocking")
  /\ \/ counter' = 0 /\ UNCHANGED faults
     \/ Fault /\ UNCHANGED counter
  /\ Return(c)
  /\ UNCHANGED <<clears, memory, heard, ghosts>>

--------------------------------------------------------------------------------
(* What p had dropped for when it began to listen: all it has dropped for, at *)
(* the current generation.                                                    *)
DroppedBefore(p) == IF "current" \in listeners[p] THEN dropped[p] ELSE {}

(* Variant: a peer's schema is always kept. *)
AdoptAlways(p, schema) == SetMemorySchemaCache(p, schema, DroppedBefore(p))

(* A peer's schema is kept when the memory was not dropped since the listener *)
(* began.                                                                     *)
Adopt(p, schema) ==
  IF "current" \in listeners[p] THEN SetMemorySchemaCache(p, schema, DroppedBefore(p))
  ELSE UNCHANGED <<memory, late>>

(* busListener: the listeners of p all answer, and are gone. *)
BusListener(p, schema) ==
  /\ listeners' = [listeners EXCEPT ![p] = {}]
  /\ call' = [c \in Call |-> IF Home[c] # p \/ ~At(c, "waiting") THEN call[c]
                             ELSE IF schema = None THEN Again(c) ELSE Idle]
  /\ IF schema = None THEN UNCHANGED <<memory, late>> ELSE Adopt(p, schema)

Inflated(message) == message.channel = "done" /\ message.schema # None

(* The subscriber of p handles a message that nothing holds up but schemas    *)
(* being inflated; one nobody listens for is dropped.                         *)
Receive(p, i) ==
  LET message == wire[p][i] IN
  /\ \A j \in 1 .. i - 1 : Inflated(wire[p][j])
  /\ wire' = [wire EXCEPT ![p] = RemoveAt(@, i)]
  /\ \/ /\ message.channel = "changed"
        /\ DropMemorySchemaCache(p, message.write)
     \/ /\ message.channel = "done"
        /\ IF listeners[p] = {} THEN UNCHANGED <<memory, late, listeners, call>>
           ELSE BusListener(p, message.schema)
        /\ UNCHANGED dropped
  /\ UNCHANGED <<clears, counter, missed, overrun, faults>>

(* A subscriber that is away misses its messages, and none comes twice: a     *)
(* build it misses is one it was not served.                                  *)
Lose(p) ==
  /\ wire[p] # <<>> /\ Head(wire[p]).channel = "changed" /\ Fault
  /\ wire' = [wire EXCEPT ![p] = Tail(@)]
  /\ MissedBy({p}, Head(wire[p]).write)
  /\ UNCHANGED <<clears, kept, counter, call, listeners, overrun>>

(* A process dies and starts again with nothing in memory. The clears it had  *)
(* not told of are told to nobody, the counter it held stays.                 *)
Die(p) ==
  LET untold == {w \in Write : clearing[w] \in {"committed", "dropped"} /\ Writer[w] = p} IN
  /\ Fault
  /\ clearing' = [w \in Write |-> IF w \in untold THEN "told" ELSE clearing[w]]
  /\ missed' = [q \in Process |-> IF q = p THEN {} ELSE missed[q] \cup (untold \ dropped[q])]
  /\ memory' = [memory EXCEPT ![p] = None]
  /\ dropped' = [dropped EXCEPT ![p] = ToSet(db)] /\ late' = [late EXCEPT ![p] = {}]
  /\ listeners' = [listeners EXCEPT ![p] = {}] /\ wire' = [wire EXCEPT ![p] = <<>>]
  /\ call' = [c \in Call |-> IF Home[c] = p THEN Idle ELSE call[c]]
  /\ UNCHANGED <<db, counter, overrun>>

--------------------------------------------------------------------------------
CallStep(c) ==
  \/ GetSchema(c) \/ Answer(c) \/ ResetCounter(c) \/ TimeOut(c)
  \/ GetDatabaseSchema(c) \/ EndBuild(c) \/ PublishDone(c) \/ DeleteCounter(c)

ClearStep(w) == ClearSystemCache(w) \/ PublishSchemaChanged(w)

BusStep(p) == \E i \in 1 .. Len(wire[p]) : Receive(p, i)

Next ==
  \/ \E c \in Call : CallStep(c) \/ GetDatabaseSchemaFails(c)
  \/ \E w \in Write : Commit(w) \/ ClearStep(w)
  \/ \E p \in Process : BusStep(p) \/ Lose(p) \/ Die(p)

Spec == Init /\ [][Next]_vars

(* A call goes on, redis answers it and its timer fires; and calls keep coming *)
(* to a process that has no schema. The bus may deliver nothing.              *)
FairSpec == Spec /\ \A c \in Call : WF_vars(CallStep(c))

--------------------------------------------------------------------------------
Schema == SUBSET Write
Message == [channel : {"changed"}, write : Write] \cup [channel : {"done"}, schema : {None} \cup Schema]
CallRecord == [pc : {"idle", "again", "resetting", "waiting", "building", "reading", "publishing",
                     "unlocking"},
               attempt : 0 .. MaxAttempts, count : 0 .. MaxBuilds, outdated : BOOLEAN,
               schema : {None} \cup Schema]

TypeOK ==
  /\ db \in Seq(Write)
  /\ clearing \in [Write -> {"none", "committed", "dropped", "told"}]
  /\ memory \in [Process -> {None} \cup Schema]
  /\ counter \in Nat
  /\ call \in [Call -> CallRecord]
  /\ listeners \in [Process -> SUBSET {"current", "outdated"}]
  /\ wire \in [Process -> Seq(Message)]
  /\ {dropped, missed, late} \subseteq [Process -> Schema] /\ overrun \in BOOLEAN
  /\ faults \in 0 .. MaxFaults

(* The clear of w has still to reach p. *)
Coming(p, w) ==
  \/ clearing[w] \in {"committed", "dropped"}
  \/ Changed(w) \in ToSet(wire[p])

(* A process keeps a schema that lacks a write only while the clear of that   *)
(* write is still to reach it, or never will, or had reached it before the    *)
(* process took the schema from the bus or from an older snapshot.            *)
OldSchemaCameLate ==
  \A p \in Process : memory[p] # None =>
    \A w \in ToSet(db) \ memory[p] : Coming(p, w) \/ w \in missed[p] \cup late[p]

(* The same without the last excuse, which the comments of get-schema.ts and  *)
(* cache.ts leave no room for.                                                *)
OldSchemaIsCleared ==
  \A p \in Process : memory[p] # None =>
    \A w \in ToSet(db) \ memory[p] : Coming(p, w) \/ w \in missed[p]

Builds(c) == call[c].pc \in {"building", "reading", "publishing", "unlocking"}

(* One call builds at a time, until the counter reaches its limit. *)
OneCallBuilds == overrun \/ \A c, d \in Call : Builds(c) /\ Builds(d) => c = d

(* A process without a schema gets one again, whatever became of the builder  *)
(* and of the counter it held.                                                *)
SchemaComesBack == \A p \in Process : memory[p] = None ~> memory[p] # None
=============================================================================
