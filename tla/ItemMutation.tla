------------------------------ MODULE ItemMutation ------------------------------
(* Item mutations over one scoped collection, the transactions and the hooks  *)
(* they run in, and the purges they owe one cached read.                      *)
(*                                                                            *)
(* A mutation (services/items.ts: updateGroups, createMany, deleteMany) reads *)
(* the slices its rows are in, runs its filter hooks, writes, commits, reads  *)
(* the rows again and purges both sides. Its transaction is one it opens      *)
(* itself (`service`), one of its caller that other calls share (`caller`),   *)
(* or one that disableBatching writes its rows in one by one (`rows`). On a   *)
(* shared transaction the purge is held back until that one commits, and      *)
(* dropped when it rolls back (utils/transaction.ts).                         *)
(* A hook may write a row itself, on the transaction or through a connection  *)
(* of its own, which no rollback takes back. It then says so: it takes the    *)
(* row over in its answer, or declares the slices it moved the row between.   *)
(*                                                                            *)
(* A fill is one step here, and a purge another: what a fill racing a purge   *)
(* leaves is the subject of ScopedCacheFill.                                  *)
(*                                                                            *)
(* The code leaves the purge of a write out in ways it states or that follow  *)
(* from it; `gaps` records the ones a behaviour took:                         *)
(*   dropped     a rollback of a caller's transaction drops the purge of what *)
(*               hooks wrote, in calls that ended well, by their connection   *)
(*   retried     a restarted attempt forgets such a write, or takes what the  *)
(*               hooks of creates had declared for purged already             *)
(*   redeclared  a row of the same request was taken over by one hook, and    *)
(*               declared by another that saw it only after                   *)
(*   overtaken   a row of the same request was declared by one hook, and      *)
(*               moved by another that only took it over, from a slice or to  *)
(*               one the declaration does not name                            *)
(*   deleted     a deletion fails after its statement on a caller's           *)
(*               transaction, which commits all the same                      *)
(*   raced       another request moved a row between the read of its slice    *)
(*               and the write that takes it out of another one               *)
EXTENDS ScopedCacheFingerprint

CONSTANTS
  Request,      \* the requests, each with one transaction
  Plans,        \* what the requests may do, by request: who opens the transaction
                \* (`service`, `caller` or `rows`) and the calls made in it
  Row,          \* the primary keys
  Value,        \* the values of columns
  InitialRows,  \* the states the rows may start in
  Read,         \* the fingerprints of the reads observed, one per behaviour
  HookWrite,    \* what hooks may write: records of row and set
  Hooked,       \* the requests whose calls run a hook
  Serializable, \* whether a lost write race aborts the attempt (sqlite, cockroach)
  MaxAttempts,  \* the attempts of transaction(): 4 in the code
  Absent, None  \* a row that is not there; no entry, no write

Stored == [Field -> Value]

StoredAt(r, row) == row \in Stored /\ row[PrimaryKey] = r

(* What a table may hold: each row at its key, or none. *)
Tables ==
  {state \in [Row -> Stored \cup {Absent}] :
     \A r \in Row : state[r] = Absent \/ StoredAt(r, state[r])}

(* What a statement sets: no key is ever rewritten. *)
Settings == UNION {[fields -> Value] : fields \in SUBSET (Field \ {PrimaryKey})}

CallInputs ==
  [kind : {"update", "delete"}, row : Row, set : Settings]
    \cup [kind : {"create"}, row : Row, set : [Field \ {PrimaryKey} -> Value]]

ASSUME RowAssumption == IsFiniteSet(Row) /\ Row \subseteq Value

ASSUME NoneAssumption ==
  /\ Absent # None /\ {Absent, None} \cap Stored = {} /\ None \notin {"declared", "taken"}
  /\ \A fp \in Read : \A state \in Tables : AnswerOf(fp, state, Absent) # None

ASSUME StateAssumption ==
  InitialRows \subseteq Tables /\ \A fp \in Read : IsRead(fp)

ASSUME PlanAssumption ==
  \A p \in Plans :
    p \in [Request -> [opener : {"service", "caller", "rows"}, calls : Seq(CallInputs)]]

ASSUME HookAssumption ==
  HookWrite \subseteq [row : Row, set : Settings] /\ Hooked \subseteq Request

ASSUME AttemptAssumption == MaxAttempts \in Nat \ {0} /\ Serializable \in BOOLEAN

VARIABLES
  rows,    \* the committed rows
  read,    \* the fingerprint of the read observed
  entry,   \* its cached answer
  filed,   \* the index sets naming its entry
  plan,    \* plan[q]: the opener and the calls of the request
  phase,   \* phase[q]: where it is
  calls,   \* calls[q]: how many of them it began
  call,    \* call[q]: the current one
  attempt, \* attempt[q]: the attempts its transaction took
  overlay, \* overlay[q]: the uncommitted writes of its transaction
  dirty,   \* dirty[q]: the rows others committed since its attempt read them
  sink,    \* sink[q]: what its hooks declared, and took over
  held,    \* held[q]: the purges held back until the shared transaction commits
  due,     \* due[q]: the purges to run now, and where the request goes next
  landed,  \* landed[q]: how its ended calls reported writes no rollback takes back
  gaps     \* the ways a purge is known to be missed that the behaviour took

store == <<rows, entry, filed>>
vars == <<rows, read, entry, filed, plan, phase, calls, call, attempt, overlay, dirty,
          sink, held, due, landed, gaps>>

Opener(q) == plan[q].opener
Calls(q) == plan[q].calls

Shared(q) == Opener(q) # "service"

Visible(q) == [r \in Row |-> IF overlay[q][r] # None THEN overlay[q][r] ELSE rows[r]]

NoWrites == [r \in Row |-> None]
NoDeclarations == [declared |-> {}, keys |-> {}, taken |-> {}]
NoCall == [kind |-> "none", row |-> None, set |-> << >>, before |-> << >>, direct |-> {},
           taken |-> {}, undeclared |-> FALSE, atStart |-> {}, own |-> None,
           outcome |-> "none"]

Answer(state) == AnswerOf(read, state, Absent)

Init ==
  /\ rows \in InitialRows
  /\ read \in Read
  /\ entry = None /\ filed = {}
  /\ plan \in Plans
  /\ phase = [q \in Request |-> "open"]
  /\ calls = [q \in Request |-> 0]
  /\ call = [q \in Request |-> NoCall]
  /\ attempt = [q \in Request |-> 1]
  /\ overlay = [q \in Request |-> NoWrites]
  /\ dirty = [q \in Request |-> {}]
  /\ sink = [q \in Request |-> NoDeclarations]
  /\ held = [q \in Request |-> << >>]
  /\ due = [q \in Request |-> [purges |-> << >>, next |-> "over"]]
  /\ landed = [q \in Request |-> {}]
  /\ gaps = {}

-----------------------------------------------------------------------------
(* The cached read *)

Fill ==
  /\ entry = None
  /\ entry' = Answer(rows)
  /\ filed' = filed \cup IndexKeys(read)
  /\ UNCHANGED <<rows, read, plan, phase, calls, call, attempt, overlay, dirty, sink, held,
                 due, landed, gaps>>

(* Entries are dropped, then pruned from the index; the collection's sweep    *)
(* takes its index sets whole.                                                *)
Purge(p) ==
  LET found == FoundBy(p, read, filed)
  IN /\ entry' = IF found # {} THEN None ELSE entry
     /\ filed' = IF p.whole THEN {}
                 ELSE IF found # {} THEN filed \ (found \cup PrunedIndexKeys(read))
                 ELSE filed

(* The purges a request owes run one after another. *)
RunPurge(q) ==
  /\ phase[q] = "purging" /\ due[q].purges # << >>
  /\ Purge(Head(due[q].purges))
  /\ due' = [due EXCEPT ![q].purges = Tail(@)]
  /\ UNCHANGED <<rows, read, plan, phase, calls, call, attempt, overlay, dirty, sink, held,
                 landed, gaps>>

PurgesDone(q) ==
  /\ phase[q] = "purging" /\ due[q].purges = << >>
  /\ phase' = [phase EXCEPT ![q] = due[q].next]
  /\ UNCHANGED <<store, read, plan, calls, call, attempt, overlay, dirty, sink, held, due,
                 landed, gaps>>

Owe(q, purges, next) ==
  /\ due' = [due EXCEPT ![q] = [purges |-> purges, next |-> next]]
  /\ phase' = [phase EXCEPT ![q] = "purging"]

-----------------------------------------------------------------------------
(* What a mutation asks of its purge, given the rows as it can read them      *)

Declared(q) == sink[q].declared

(* Only what the hooks declared, leaving the bare fingerprint warm. *)
DeclaredPurge(q) ==
  IF Declared(q) = {} THEN << >> ELSE <<SlicesPurge({}, {}, FALSE, Declared(q))>>

(* Both sides of the rows an update wrote, when both could be read. *)
UpdatedPurge(q, state, written, readable) ==
  LET before == call[q].before
      after == Snapshot(state, written, Absent)
  IN IF call[q].undeclared \/ ~readable
     THEN <<WholePurge(TRUE, Declared(q))>>
     ELSE <<SlicesPurge(Fingerprints(before) \cup Fingerprints(after),
                        ChangedFields(before, after), TRUE, Declared(q))>>

(* Every create narrowed to the slices its rows end in *)
NarrowedAlways(taken, keys) == TRUE

(* Whether a create may purge the slices its rows end in, and no more *)
Narrowed(taken, keys) == taken \subseteq keys

(* A row a create's hook took over may have moved from a slice never read: it *)
(* takes a declaration for that row to narrow the purge.                      *)
CreatedPurge(q, state, written, taken, atStart, readable) ==
  IF written = {}
  THEN IF Declared(q) = atStart THEN << >> ELSE DeclaredPurge(q)
  ELSE IF Narrowed(taken, sink[q].keys) /\ readable
  THEN <<SlicesPurge(Fingerprints(Snapshot(state, written, Absent)), Field, TRUE,
                     Declared(q))>>
  ELSE <<WholePurge(TRUE, Declared(q))>>

(* What a failed call's hooks declared, and not the rows they took over *)
PurgeDeclaredOnly(q, taken) == DeclaredPurge(q)

(* Through the pool and at once, what the hooks of a failed call wrote on a   *)
(* shared transaction, should it roll back.                                   *)
HookWrittenPurge(q, taken) ==
  IF taken # {} THEN <<WholePurge(TRUE, Declared(q))>> ELSE DeclaredPurge(q)

SuccessPurge(q, state, readable) ==
  LET c == call[q]
      written == c.direct \cup c.taken
  IN CASE c.kind = "create" ->
            CreatedPurge(q, state, written, c.taken, c.atStart, readable)
       [] c.kind # "create" /\ written = {} -> DeclaredPurge(q)
       [] c.kind = "update" /\ written # {} -> UpdatedPurge(q, state, written, readable)
       [] OTHER -> <<SlicesPurge(Fingerprints(c.before), Field, TRUE, Declared(q))>>

(* The purge of a failed call, by where it failed. What it opened rolled      *)
(* back, leaving what its hooks wrote; on a shared transaction what it wrote  *)
(* before failing commits with the rest.                                      *)
FailurePurge(q, state, readable) ==
  LET c == call[q]
      wrote == IF c.outcome = "answered" /\ Shared(q) THEN c.direct \cup c.taken ELSE c.taken
  IN CASE c.kind = "create" /\ Shared(q) -> <<WholePurge(TRUE, Declared(q))>>
       [] c.kind = "create" /\ ~Shared(q) ->
            CreatedPurge(q, state, c.taken, c.taken, c.atStart, readable)
       [] c.kind = "update" /\ (wrote # {} \/ (c.outcome = "answered" /\ Shared(q))) ->
            UpdatedPurge(q, state, wrote, readable)
       [] OTHER -> DeclaredPurge(q)

(* Purges of one transaction merge, in the place of the first, when both      *)
(* take the bare fingerprint or neither does.                                 *)
Enqueue(queue, p) ==
  LET same == {i \in DOMAIN queue : queue[i].bare = p.bare}
  IN IF same = {} THEN Append(queue, p)
     ELSE [i \in DOMAIN queue |-> IF i \in same THEN MergeRequests(queue[i], p) ELSE queue[i]]

Hold(queue, purges) == IF purges = << >> THEN queue ELSE Enqueue(queue, purges[1])

-----------------------------------------------------------------------------
(* The handler of a call *)

(* An update reads its rows before any hook. *)
Started(q, c, state) ==
  [NoCall EXCEPT !.kind = c.kind, !.row = c.row, !.set = c.set,
     !.atStart = IF Opener(q) = "rows" THEN Declared(q) ELSE {},
     !.before = IF c.kind = "update" THEN Snapshot(state, {c.row}, Absent) ELSE << >>]

Begin(q) ==
  /\ phase[q] = "open" /\ calls[q] < Len(Calls(q))
  /\ calls' = [calls EXCEPT ![q] = @ + 1]
  /\ call' = [call EXCEPT ![q] = Started(q, Calls(q)[calls[q] + 1], Visible(q))]
  \* a caller's calls have a set of declarations each, rows share one
  /\ sink' = IF Opener(q) = "caller" THEN [sink EXCEPT ![q] = NoDeclarations] ELSE sink
  /\ phase' = [phase EXCEPT ![q] = "called"]
  /\ UNCHANGED <<store, read, plan, attempt, overlay, dirty, held, due, landed, gaps>>

(* A hook declares both sides of a row by all its scope fields, or its key. *)
DeclaredPin(row) ==
  [pinned |-> [f \in (IF Scopes = {} THEN {PrimaryKey} ELSE Scopes) |-> {row[f]}], view |-> {}]

Over(f, g) ==
  [x \in DOMAIN f \cup DOMAIN g |-> IF x \in DOMAIN f THEN f[x] ELSE g[x]]

Change(row, set) == IF row = Absent THEN Absent ELSE Over(set, row)

(* A row another transaction wrote is locked until that one settles. *)
Unlocked(q, r) == \A p \in Request \ {q} : overlay[p][r] = None

(* A commit is a race lost by the transactions that read its rows. *)
LostBy(written) ==
  [p \in Request |-> dirty[p] \cup (written \cap ({call[p].row} \cup DOMAIN call[p].before))]

(* The answer of the hooks: the rows Directus is to write, the rows a hook    *)
(* took over. An update then reads the rows its hooks added, a delete the     *)
(* rows it deletes.                                                           *)
Answered(c, state, direct, taken, outcome) ==
  [c EXCEPT
    !.direct = direct, !.taken = taken, !.outcome = outcome,
    !.before =
      CASE c.kind = "update" ->
             LET known == DOMAIN c.before \cap (direct \cup taken)
                 added == IF outcome = "refused" THEN {} ELSE (direct \cup taken) \ {c.row}
             IN Over([k \in known |-> c.before[k]], Snapshot(state, added, Absent))
        [] c.kind = "delete" /\ outcome = "answered" -> Snapshot(state, {c.row}, Absent)
        [] OTHER -> << >>]

PhaseAfter(outcome) ==
  CASE outcome = "answered" -> "answered"
    [] outcome = "cancelled" -> "written"
    [] OTHER -> "failed"

(* No hook, or one that writes nothing: it answers the call, adds a row to an *)
(* update, cancels the call or throws.                                        *)
QuietHook(q) ==
  /\ phase[q] = "called"
  /\ \E outcome \in {"answered", "cancelled", "thrown"}, added \in SUBSET Row :
       LET c == call[q]
       IN /\ Cardinality(added) <= 1 /\ c.row \notin added
          /\ added # {} => c.kind = "update" /\ outcome = "answered"
          /\ outcome # "answered" \/ added # {} => q \in Hooked
          /\ call' = [call EXCEPT ![q] =
               Answered(c, Visible(q), IF outcome = "answered" THEN {c.row} \cup added ELSE {},
                        {}, outcome)]
          /\ phase' = [phase EXCEPT ![q] = PhaseAfter(outcome)]
  /\ UNCHANGED <<store, read, plan, calls, attempt, overlay, dirty, sink, held, due, landed,
                 gaps>>

(* Whether the row is not what the snapshot of the call shows *)
SnapshotIsOld(q, r) ==
  Snapshot(Visible(q), {r}, Absent)
    # [k \in {r} \cap DOMAIN call[q].before |-> call[q].before[k]]

(* Whether hooks declared both the slice it shows and the one the row is in *)
SlicesDeclared(q, r) ==
  /\ r \in DOMAIN call[q].before /\ Visible(q)[r] # Absent
  /\ {DeclaredPin(call[q].before[r]), DeclaredPin(Visible(q)[r])} \subseteq Declared(q)

(* A hook that writes a row itself, through a connection of its own or on the *)
(* transaction, and reports it: its answer takes the row over, or it declares *)
(* the slices of the row. A deletion's answer takes no row over, nor does a   *)
(* cancellation or an error.                                                  *)
WritingHook(q) ==
  /\ phase[q] = "called" /\ q \in Hooked
  /\ \E w \in HookWrite, own \in BOOLEAN, takes \in BOOLEAN, declares \in BOOLEAN,
        outcome \in {"answered", "refused", "cancelled", "thrown"} :
       LET c == call[q]
           old == IF own THEN rows[w.row] ELSE Visible(q)[w.row]
           new == Change(old, w.set)
           taken == IF takes THEN {w.row} ELSE {}
           direct == IF outcome # "answered" \/ (c.kind = "create" /\ takes) THEN {}
                     ELSE {c.row} \ taken
       IN /\ old # Absent /\ Unlocked(q, w.row) /\ (own => overlay[q][w.row] = None)
          /\ takes \/ declares
          /\ takes => c.kind # "delete" /\ outcome \in {"answered", "refused"}
          /\ outcome = "refused" => c.kind = "update" /\ takes
          /\ IF own
             THEN /\ rows' = [rows EXCEPT ![w.row] = new]
                  /\ dirty' = LostBy({w.row}) /\ UNCHANGED overlay
             ELSE /\ overlay' = [overlay EXCEPT ![q][w.row] = new]
                  /\ UNCHANGED <<rows, dirty>>
          /\ sink' = [sink EXCEPT
               ![q] = [declared |-> IF declares THEN @.declared \cup {DeclaredPin(old), DeclaredPin(new)}
                                    ELSE @.declared,
                       keys |-> IF declares THEN @.keys \cup {w.row} ELSE @.keys,
                       taken |-> IF outcome = "answered" THEN @.taken \cup taken ELSE @.taken]]
          /\ call' = [call EXCEPT ![q] =
               [Answered(c, [Visible(q) EXCEPT ![w.row] = new], direct, taken, outcome) EXCEPT
                  !.own = IF ~own THEN None ELSE IF declares THEN "declared" ELSE "taken",
                  !.undeclared = /\ c.kind = "update" /\ takes /\ w.row # c.row
                                 /\ w.row \notin sink'[q].keys]]
          /\ gaps' = gaps \cup
               \* the row read before the hooks has since been moved by another request
               (IF c.kind = "update" /\ w.row = c.row /\ ~declares /\ SnapshotIsOld(q, c.row)
                THEN {"raced"} ELSE {}) \cup
               \* a hook of another row took it over without saying what slice it left
               (IF w.row \in sink[q].taken \ sink[q].keys /\ declares
                THEN {"redeclared"} ELSE {}) \cup
               \* what another hook declared of a row stands for a move it did not see
               (IF /\ takes /\ ~declares /\ w.row \in sink[q].keys /\ new # old
                   /\ \/ c.kind = "update" /\ w.row # c.row
                      \/ DeclaredPin(old) \notin Declared(q)
                THEN {"overtaken"} ELSE {})
          /\ phase' = [phase EXCEPT ![q] = PhaseAfter(outcome)]
  /\ UNCHANGED <<read, entry, filed, plan, calls, attempt, held, due, landed>>

(* The statement of the call, on the rows as they are by then. *)
Written(q) ==
  LET c == call[q]
      now == Visible(q)
      new == CASE c.kind = "update" -> [r \in c.direct |-> Change(now[r], c.set)]
               [] c.kind = "create" -> [r \in c.direct |-> Over(c.set, [f \in {PrimaryKey} |-> r])]
               [] OTHER -> [r \in c.direct |-> Absent]
  IN [r \in Row |-> IF r \in c.direct /\ new[r] # now[r] THEN new[r] ELSE overlay[q][r]]

Write(q) ==
  /\ phase[q] = "answered"
  /\ \A r \in call[q].direct :
       /\ Unlocked(q, r)
       /\ call[q].kind = "create" => Visible(q)[r] = Absent
       /\ call[q].kind = "delete" => Visible(q)[r] # Absent
  /\ overlay' = [overlay EXCEPT ![q] = Written(q)]
  /\ phase' = [phase EXCEPT ![q] = "written"]
  \* another request moved a row after the snapshot that names the slice it leaves
  /\ gaps' = IF /\ call[q].kind # "create"
                /\ \E r \in call[q].direct :
                     /\ Written(q)[r] # overlay[q][r]
                     /\ SnapshotIsOld(q, r) /\ ~SlicesDeclared(q, r)
             THEN gaps \cup {"raced"} ELSE gaps
  /\ UNCHANGED <<store, read, plan, calls, call, attempt, dirty, sink, held, due, landed>>

(* The statement fails, a check before it or after it, the commit. *)
Fail(q) ==
  /\ phase[q] \in {"answered", "written"}
  /\ phase' = [phase EXCEPT ![q] = "failed"]
  /\ UNCHANGED <<store, read, plan, calls, call, attempt, overlay, dirty, sink, held, due,
                 landed, gaps>>

-----------------------------------------------------------------------------
(* A transaction the call opened itself *)

(* What must abort an attempt where races are not waited out. *)
Conflict(q) == Serializable /\ \E r \in dirty[q] : overlay[q][r] # None

CommitWrites(q) ==
  /\ ~Conflict(q)
  /\ rows' = Visible(q)
  /\ dirty' = [LostBy({r \in Row : overlay[q][r] # None}) EXCEPT ![q] = {}]
  /\ overlay' = [overlay EXCEPT ![q] = NoWrites]

Commit(q) ==
  /\ phase[q] = "written" /\ ~Shared(q)
  /\ CommitWrites(q)
  /\ phase' = [phase EXCEPT ![q] = "committed"]
  /\ UNCHANGED <<read, entry, filed, plan, calls, call, attempt, sink, held, due, landed, gaps>>

(* The rows are read again, which may fail, and purged. *)
PurgeCommitted(q) ==
  /\ phase[q] = "committed"
  /\ \E readable \in BOOLEAN : Owe(q, SuccessPurge(q, rows, readable), "over")
  /\ UNCHANGED <<store, read, plan, calls, call, attempt, overlay, dirty, sink, held, landed,
                 gaps>>

(* A failed call rolls back what it opened, and purges what that leaves. *)
Catch(q) ==
  /\ phase[q] = "failed" /\ ~Shared(q)
  /\ overlay' = [overlay EXCEPT ![q] = NoWrites]
  /\ dirty' = [dirty EXCEPT ![q] = {}]
  /\ \E readable \in BOOLEAN : Owe(q, FailurePurge(q, rows, readable), "over")
  /\ UNCHANGED <<store, read, plan, calls, call, attempt, sink, held, landed, gaps>>

(* A lost race restarts the transaction's handler, hooks included: an update  *)
(* starts from new declarations, other calls keep those of the attempt.       *)
Retry(q) ==
  /\ Serializable /\ Opener(q) # "caller" /\ attempt[q] < MaxAttempts
  /\ phase[q] \in {"answered", "written"} \/ (phase[q] = "open" /\ calls[q] > 0)
  /\ Conflict(q) \/ \E p \in Request \ {q} : overlay[p] # NoWrites
  /\ attempt' = [attempt EXCEPT ![q] = @ + 1]
  /\ overlay' = [overlay EXCEPT ![q] = NoWrites]
  /\ dirty' = [dirty EXCEPT ![q] = {}]
  /\ calls' = [calls EXCEPT ![q] = 0]
  /\ call' = [call EXCEPT ![q] = NoCall]
  /\ held' = [held EXCEPT ![q] = << >>]
  /\ landed' = [landed EXCEPT ![q] = {}]
  /\ phase' = [phase EXCEPT ![q] = "open"]
  /\ LET replaced == Opener(q) = "service" /\ call[q].kind = "update"
         counted == Opener(q) = "rows" /\ \E i \in 1..calls[q] : Calls(q)[i].kind = "create"
         reports == landed[q] \cup {call[q].own}
     IN /\ sink' = IF replaced THEN [sink EXCEPT ![q] = NoDeclarations] ELSE sink
        /\ gaps' = IF \/ "taken" \in reports \/ (replaced /\ "declared" \in reports)
                      \/ counted /\ Declared(q) # {}
                   THEN gaps \cup {"retried"} ELSE gaps
  /\ UNCHANGED <<store, read, plan, due>>

-----------------------------------------------------------------------------
(* A transaction shared with other calls *)

Settle(q) ==
  /\ phase[q] = "written" /\ Shared(q)
  /\ held' = [held EXCEPT ![q] = Hold(@, SuccessPurge(q, Visible(q), TRUE))]
  /\ landed' = [landed EXCEPT ![q] = @ \cup ({call[q].own} \ {None})]
  /\ phase' = [phase EXCEPT ![q] = "open"]
  /\ UNCHANGED <<store, read, plan, calls, call, attempt, overlay, dirty, sink, due, gaps>>

(* A failed call holds its purge back as one that succeeds, and purges at     *)
(* once what its hooks wrote. Its rows' transaction rolls back, a caller may  *)
(* go on with its own.                                                        *)
CatchShared(q) ==
  /\ phase[q] = "failed" /\ Shared(q)
  /\ \E readable \in BOOLEAN :
       held' = [held EXCEPT ![q] = Hold(@, FailurePurge(q, Visible(q), readable))]
  /\ Owe(q, HookWrittenPurge(q, IF call[q].kind = "delete" THEN {} ELSE call[q].taken),
         IF Opener(q) = "rows" THEN "rollback" ELSE "open")
  /\ gaps' = IF call[q].kind = "delete" /\ \E r \in call[q].direct : overlay[q][r] = Absent
             THEN gaps \cup {"deleted"} ELSE gaps
  /\ UNCHANGED <<store, read, plan, calls, call, attempt, overlay, dirty, sink, landed>>

(* The tasks held back run once it commits, one after another. *)
CommitShared(q) ==
  /\ phase[q] = "open" /\ Shared(q) /\ calls[q] = Len(Calls(q))
  /\ CommitWrites(q)
  /\ Owe(q, held[q], "over")
  /\ held' = [held EXCEPT ![q] = << >>]
  /\ UNCHANGED <<read, entry, filed, plan, calls, call, attempt, sink, landed, gaps>>

(* A rollback that leaves them held *)
RollBackKeepsTasks(q) ==
  /\ phase[q] = "open" /\ Opener(q) = "caller" /\ calls[q] > 0
  /\ overlay' = [overlay EXCEPT ![q] = NoWrites]
  /\ dirty' = [dirty EXCEPT ![q] = {}]
  /\ phase' = [phase EXCEPT ![q] = "over"]
  /\ gaps' = IF landed[q] # {} THEN gaps \cup {"dropped"} ELSE gaps
  /\ UNCHANGED <<store, read, plan, calls, call, attempt, sink, held, due, landed>>

(* A rollback drops them. *)
RollBackCaller(q) ==
  /\ phase[q] = "open" /\ Opener(q) = "caller" /\ calls[q] > 0
  /\ overlay' = [overlay EXCEPT ![q] = NoWrites]
  /\ dirty' = [dirty EXCEPT ![q] = {}]
  /\ held' = [held EXCEPT ![q] = << >>]
  /\ phase' = [phase EXCEPT ![q] = "over"]
  /\ gaps' = IF landed[q] # {} THEN gaps \cup {"dropped"} ELSE gaps
  /\ UNCHANGED <<store, read, plan, calls, call, attempt, sink, due, landed>>

(* Rows written one by one purge what their hooks wrote when one of them, or  *)
(* the check after the last one, rolls them all back.                         *)
RollBackRows(q) ==
  /\ Opener(q) = "rows"
  /\ phase[q] = "rollback" \/ (phase[q] = "open" /\ calls[q] = Len(Calls(q)))
  /\ overlay' = [overlay EXCEPT ![q] = NoWrites]
  /\ dirty' = [dirty EXCEPT ![q] = {}]
  /\ held' = [held EXCEPT ![q] = << >>]
  /\ \E readable \in BOOLEAN :
       Owe(q, CreatedPurge(q, rows, sink[q].taken, sink[q].taken, {}, readable), "over")
  /\ UNCHANGED <<store, read, plan, calls, call, attempt, sink, landed, gaps>>

-----------------------------------------------------------------------------
Next ==
  \/ Fill
  \/ \E q \in Request :
       \/ Begin(q) \/ QuietHook(q) \/ WritingHook(q) \/ Write(q) \/ Fail(q)
       \/ Commit(q) \/ PurgeCommitted(q) \/ Catch(q) \/ Retry(q)
       \/ Settle(q) \/ CatchShared(q) \/ CommitShared(q)
       \/ RollBackCaller(q) \/ RollBackRows(q)
       \/ RunPurge(q) \/ PurgesDone(q)

Spec == Init /\ [][Next]_vars

-----------------------------------------------------------------------------
Phases == {"open", "called", "answered", "written", "failed", "committed", "rollback",
           "purging", "over"}

(* Where each request may be, and what the parts of its state then hold: an   *)
(* ended one has no write left to commit and no purge left to run.            *)
TypeOK ==
  /\ rows \in Tables
  /\ phase \in [Request -> Phases]
  /\ attempt \in [Request -> 1..MaxAttempts]
  /\ \A q \in Request :
       /\ \A r \in Row : overlay[q][r] \in {Absent, None} \/ StoredAt(r, overlay[q][r])
       /\ sink[q].keys \cup sink[q].taken \subseteq Row
       /\ \A declared \in sink[q].declared : Pinned(declared) \subseteq PinnableFields
       /\ calls[q] \in 0..Len(Calls(q)) /\ call[q].taken \cup call[q].direct \subseteq Row
       /\ phase[q] \in {"committed", "over"} => overlay[q] = NoWrites
       /\ phase[q] = "over" => held[q] = << >> /\ due[q].purges = << >>
       /\ held[q] # << >> => Shared(q)

Writing ==
  {q \in Request : phase[q] # "over" /\ ~(phase[q] = "open" /\ calls[q] = 0 /\ attempt[q] = 1)}

Settled == Writing = {}

Stale == entry # None /\ entry # Answer(rows)

(* Once every request has ended, the cached read answers what the database    *)
(* does, unless a purge was missed in one of the ways the code leaves open:   *)
(* whatever the hooks wrote, where, and however each call ended.              *)
SettledReadIsFresh == Settled /\ gaps = {} => ~Stale

(* A purge that drops an entry takes it out of every index set naming it: the *)
(* next write would test a name that is left for as long as its set lives.    *)
DroppedEntryIsUnnamed == entry = None => filed = {}

(* The requests are the writers of a cache that answers a stale read only     *)
(* while one of them is at work, and takes an answer away for none else: as   *)
(* long as no purge is missed. A request that a lost race restarts stays one. *)
Promise == INSTANCE ReadThrough WITH
  Writer <- Request, data <- Answer(rows), writing <- Writing,
  cached <- IF gaps = {} THEN entry ELSE None

ImplementsReadThrough == Promise!Spec

(* "A rolled-back transaction drops its tasks: nothing it wrote landed, so    *)
(* nothing needs them" (utils/transaction.ts).                                *)
RolledBackTasksWereNotNeeded == Settled /\ gaps \subseteq {"dropped"} => ~Stale

=============================================================================
