------------------------------- MODULE IndexReap -------------------------------
(* Reaps of the scoped index: who asks for one, who runs it, and the lock.    *)
(*                                                                            *)
(* Each process coalesces the requests it gets into passes over the index     *)
(* (scoped-cache/reap-requests.ts); one more job runs a pass on a schedule    *)
(* (schedules/scoped-cache-reap.ts). A pass runs under a lock in redis that   *)
(* expires unless renewed and names the pass holding it (cache-lock.ts).      *)
(*                                                                            *)
(* A step is what runs between two awaits, or one command at redis. What a    *)
(* pass does to the index is left to ScopedCacheDeploy: here it takes time,   *)
(* may throw, and may leave the index-key sets marked complete.               *)
EXTENDS Naturals, FiniteSets

CONSTANTS Node, Request, Token, None,
          PausedAtFirst, \* whether the processes may start with their fills paused
          MaxScheduled, \* bound: how many passes the schedule starts
          MaxRenewals,  \* bound: how often a pass renews its lock
          MaxDeploys,   \* bound: how often the mark is taken back
          MaxCrashes    \* bound: how many processes die

Job == Node \X {"requested", "scheduled"}

(* Tokens are UUIDs: one is always free, beside those of the passes there     *)
(* are, of the lock and of the renewals the dead left on their way.           *)
ASSUME TokenAssumption ==
  None \notin Token /\ Cardinality(Token) > Cardinality(Job) + 2 * MaxCrashes + 1
ASSUME PausedAssumption == PausedAtFirst \subseteq BOOLEAN
ASSUME BoundAssumption == {MaxScheduled, MaxRenewals, MaxDeploys, MaxCrashes} \subseteq Nat

VARIABLES
  run,       \* run[n]: the requested pass of n, requestedPass and its loop
  again,     \* again[n]: passRequestedAgain
  forced,    \* forced[n]: forcedPassRequested
  prompt,    \* prompt[n]: promptPassRequested
  paused,    \* paused[n]: scopedCacheFillPaused on n
  pass,      \* pass[j]: where the pass of job j stands
  lock,      \* the token the lock names
  onWire,    \* tokens whose renewal redis has not served
  marked,    \* whether the index-key sets are marked complete
  req,       \* req[q]: where the caller of request q stands
  walked,    \* requests followed by a whole walk of the index
  excused,   \* requests made while fills were paused, or a round of theirs found
             \* no reason to walk for or failed
  abandoned, \* tokens of passes that died, or whose claim or release was refused
  scheduled, deploys, crashes

flags == <<again, forced, prompt>>
ghosts == <<walked, excused>>
bounds == <<scheduled, deploys, crashes>>
vars == <<run, flags, paused, pass, lock, onWire, marked, req, ghosts, abandoned, bounds>>

NoRun == [pc |-> "none", forced |-> FALSE]
NoPass == [pc |-> "none", token |-> None, covered |-> {}, renewals |-> 0]
NotAsked == [state |-> "none", node |-> None, forced |-> FALSE]

Init ==
  /\ run = [n \in Node |-> NoRun]
  /\ again = [n \in Node |-> FALSE] /\ forced = again /\ prompt = again
  /\ paused \in [Node -> PausedAtFirst]
  /\ pass = [j \in Job |-> NoPass]
  /\ lock = None /\ onWire = {}
  /\ marked \in BOOLEAN
  /\ req = [q \in Request |-> NotAsked]
  /\ walked = {} /\ excused = {}
  /\ abandoned = {}
  /\ scheduled = 0 /\ deploys = 0 /\ crashes = 0

Waiting == {q \in Request : req[q].state = "waiting"}
WaitingAt(n) == {q \in Waiting : req[q].node = n}

-----------------------------------------------------------------------------
(* The loop of one process's requested passes *)

(* While fills are paused there is nothing to walk; a forced pass walks       *)
(* without asking whether the index is marked.                                *)
LoopTest(n, passForced) ==
  run' = [run EXCEPT ![n] =
    [pc |-> CASE paused[n] -> "ended" [] passForced -> "claim" [] OTHER -> "check",
     forced |-> passForced]]

(* A round: what was asked until now is answered by this pass. *)
BeginRound(n, passForced) ==
  /\ again' = [again EXCEPT ![n] = FALSE]
  /\ prompt' = [prompt EXCEPT ![n] = FALSE]
  /\ forced' = [forced EXCEPT ![n] = FALSE]
  /\ LoopTest(n, passForced)

Debounce(n, passForced, passPrompt) ==
  /\ run' = [run EXCEPT ![n].pc = "debounce"]
  /\ forced' = [forced EXCEPT ![n] = passForced]
  /\ prompt' = [prompt EXCEPT ![n] = passPrompt]
  /\ UNCHANGED again

(* A request joins the pass there is, or starts one. *)
Join(n, forcePass, skipDebounce) ==
  LET passForced == forced[n] \/ forcePass
      passPrompt == prompt[n] \/ skipDebounce IN
  \/ /\ run[n].pc # "none"
     /\ again' = [again EXCEPT ![n] = TRUE]
     /\ forced' = [forced EXCEPT ![n] = passForced]
     /\ prompt' = [prompt EXCEPT ![n] = passPrompt]
     /\ UNCHANGED run
  \/ /\ run[n].pc = "none"
     /\ IF passPrompt THEN BeginRound(n, passForced)
                      ELSE Debounce(n, passForced, passPrompt)

RequestScopedCacheIndexReap(n, q, forcePass, skipDebounce) ==
  /\ req[q].state = "none"
  /\ req' = [req EXCEPT ![q] = [state |-> "waiting", node |-> n, forced |-> forcePass]]
  /\ Join(n, forcePass, skipDebounce)
  /\ excused' = IF paused[n] THEN excused \cup {q} ELSE excused
  /\ UNCHANGED <<paused, pass, lock, onWire, marked, walked, abandoned, bounds>>

(* The pause of a deploy ends on this node, which asks for a pass. *)
ResumeScopedCacheFills(n) ==
  /\ paused[n]
  /\ paused' = [paused EXCEPT ![n] = FALSE]
  /\ IF run[n].pc = "none" THEN Debounce(n, forced[n], prompt[n])
                           ELSE again' = [again EXCEPT ![n] = TRUE]
                                /\ UNCHANGED <<run, forced, prompt>>
  /\ UNCHANGED <<pass, lock, onWire, marked, req, ghosts, abandoned, bounds>>

(* The flags are read before the wait: what arrives during it is not seen. *)
WaitDebounceLate(n) ==
  /\ run[n].pc = "debounce"
  /\ again' = [again EXCEPT ![n] = FALSE]
  /\ prompt' = [prompt EXCEPT ![n] = FALSE]
  /\ LoopTest(n, FALSE)
  /\ UNCHANGED <<forced, paused, pass, lock, onWire, marked, req, ghosts, abandoned, bounds>>

(* The debounce runs out, or a request that skips it ends it. *)
WaitDebounce(n) ==
  /\ run[n].pc = "debounce"
  /\ BeginRound(n, forced[n])
  /\ UNCHANGED <<paused, pass, lock, onWire, marked, req, ghosts, abandoned, bounds>>

(* The marker is read; a reading that fails ends the round. *)
IndexKeysComplete(n) ==
  /\ run[n].pc = "check"
  /\ \/ /\ marked
        /\ run' = [run EXCEPT ![n].pc = "ended"]
        /\ excused' = excused \cup {q \in WaitingAt(n) : ~req[q].forced}
     \/ /\ ~marked
        /\ run' = [run EXCEPT ![n].pc = "claim"]
        /\ UNCHANGED excused
     \/ /\ run' = [run EXCEPT ![n].pc = "ended"]
        /\ excused' = excused \cup WaitingAt(n)
  /\ UNCHANGED <<flags, paused, pass, lock, onWire, marked, req, walked, abandoned, bounds>>

(* Another pass holds the lock and may have read the index too early. *)
PollLock(n) ==
  /\ run[n].pc = "poll"
  /\ LoopTest(n, run[n].forced)
  /\ UNCHANGED <<flags, paused, pass, lock, onWire, marked, req, ghosts, abandoned, bounds>>

(* The round is over: once more when a request came during it. *)
EndRound(n) ==
  /\ run[n].pc = "ended"
  /\ \/ /\ again[n]
        /\ IF prompt[n] THEN BeginRound(n, forced[n])
                        ELSE Debounce(n, forced[n], prompt[n])
     \/ /\ ~again[n]
        /\ run' = [run EXCEPT ![n].pc = "settled"]
        /\ UNCHANGED flags
  /\ UNCHANGED <<paused, pass, lock, onWire, marked, req, ghosts, abandoned, bounds>>

(* The pass is forgotten and its callers never hear of it. *)
SettleUnheard(n) ==
  /\ run[n].pc = "settled"
  /\ run' = [run EXCEPT ![n] = NoRun]
  /\ UNCHANGED <<flags, paused, pass, lock, onWire, marked, req, ghosts, abandoned, bounds>>

(* The promise settles and is forgotten one microtask later, and every caller *)
(* that joined it is answered.                                                *)
Settle(n) ==
  /\ run[n].pc = "settled"
  /\ run' = [run EXCEPT ![n] = NoRun]
  /\ req' = [q \in Request |->
       IF q \in WaitingAt(n) THEN [req[q] EXCEPT !.state = "resolved"] ELSE req[q]]
  /\ UNCHANGED <<flags, paused, pass, lock, onWire, marked, ghosts, abandoned, bounds>>

-----------------------------------------------------------------------------
(* One pass, under the lock *)

FreshToken == Token \ ({lock} \cup onWire \cup {pass[j].token : j \in Job})

(* A pass is named by a token of its own, then claims the lock. *)
StartPass(j) ==
  /\ FreshToken # {}
  /\ LET token == CHOOSE t \in FreshToken : TRUE IN
     /\ pass' = [pass EXCEPT ![j] = [NoPass EXCEPT !.pc = "claim", !.token = token]]
     /\ abandoned' = abandoned \ {token}

(* The schedule's job starts a pass unless this process pauses its fills. *)
Schedule(n) ==
  /\ scheduled < MaxScheduled
  /\ ~paused[n]
  /\ pass[<<n, "scheduled">>].pc = "none"
  /\ StartPass(<<n, "scheduled">>)
  /\ scheduled' = scheduled + 1
  /\ UNCHANGED <<run, flags, paused, lock, onWire, marked, req, ghosts, deploys, crashes>>

RunScopedCacheIndexReap(n) ==
  /\ run[n].pc = "claim"
  /\ run' = [run EXCEPT ![n].pc = "pass"]
  /\ StartPass(<<n, "requested">>)
  /\ UNCHANGED <<flags, paused, lock, onWire, marked, req, ghosts, bounds>>

(* The job of a pass that is over goes on: ended or, the lock taken, polling. *)
LeavePass(j, pc) ==
  /\ pass' = [pass EXCEPT ![j] = NoPass]
  /\ run' = IF j[2] = "requested" THEN [run EXCEPT ![j[1]].pc = pc] ELSE run

(* The hold script: claim a free lock, renew one's own. *)
Holds(t) == lock \in {None, t}

HoldCacheLock(j) ==
  /\ pass[j].pc = "claim"
  /\ \/ /\ Holds(pass[j].token)
        /\ lock' = pass[j].token
        /\ pass' = [pass EXCEPT ![j].pc = "walk", ![j].covered = Waiting]
        /\ UNCHANGED run
     \/ /\ ~Holds(pass[j].token)
        /\ LeavePass(j, "poll")
        /\ UNCHANGED lock
  /\ UNCHANGED <<flags, paused, onWire, marked, req, ghosts, abandoned, bounds>>

(* The claim is refused, or its answer lost: the round fails. *)
ClaimFails(j) ==
  /\ pass[j].pc = "claim"
  /\ \/ UNCHANGED <<lock, abandoned>>
     \/ /\ lock = None /\ lock' = pass[j].token
        /\ abandoned' = abandoned \cup {pass[j].token}
  /\ LeavePass(j, "ended")
  /\ excused' = IF j[2] = "requested" THEN excused \cup WaitingAt(j[1]) ELSE excused
  /\ UNCHANGED <<flags, paused, onWire, marked, req, walked, bounds>>

(* The timer sends a renewal while the pass walks. *)
Renew(j) ==
  /\ pass[j].pc = "walk"
  /\ pass[j].renewals < MaxRenewals
  /\ pass[j].token \notin onWire
  /\ onWire' = onWire \cup {pass[j].token}
  /\ pass' = [pass EXCEPT ![j].renewals = @ + 1]
  /\ UNCHANGED <<run, flags, paused, lock, marked, req, ghosts, abandoned, bounds>>

(* Redis serves it, or the connection drops it. *)
ServeRenewal(t) ==
  /\ t \in onWire
  /\ onWire' = onWire \ {t}
  /\ \/ Holds(t) /\ lock' = t
     \/ UNCHANGED lock
  /\ UNCHANGED <<run, flags, paused, pass, marked, req, ghosts, abandoned, bounds>>

(* The walk reaches its end, and may mark the index complete, or throws. *)
ReapScopedCacheIndex(j) ==
  /\ pass[j].pc = "walk"
  /\ \/ /\ walked' = walked \cup pass[j].covered
        /\ marked' \in {marked, TRUE}
        /\ UNCHANGED excused
     \/ /\ excused' = IF j[2] = "requested" THEN excused \cup WaitingAt(j[1]) ELSE excused
        /\ UNCHANGED <<walked, marked>>
  /\ pass' = [pass EXCEPT ![j].pc = "release"]
  /\ UNCHANGED <<run, flags, paused, lock, onWire, req, abandoned, bounds>>

(* A release sent whatever is still on its way *)
ReleaseAtOnce(j) == TRUE

(* No renewal of the pass is still on its way. *)
RenewalSettled(j) == pass[j].token \notin onWire

(* A release that does not compare the holder *)
ReleaseAnyLock(j) ==
  /\ pass[j].pc = "release"
  /\ RenewalSettled(j)
  /\ lock' = None
  /\ LeavePass(j, "ended")
  /\ UNCHANGED <<flags, paused, onWire, marked, req, ghosts, abandoned, bounds>>

(* The release script deletes the lock only while it names this pass. *)
ReleaseCacheLock(j) ==
  /\ pass[j].pc = "release"
  /\ RenewalSettled(j)
  /\ \/ /\ lock' = IF lock = pass[j].token THEN None ELSE lock
        /\ UNCHANGED abandoned
     \/ /\ lock = pass[j].token      \* refused
        /\ abandoned' = abandoned \cup {lock}
        /\ UNCHANGED lock
  /\ LeavePass(j, "ended")
  /\ UNCHANGED <<flags, paused, onWire, marked, req, ghosts, bounds>>

-----------------------------------------------------------------------------
(* A lock written without a TTL *)
KeepLock == FALSE /\ UNCHANGED vars

(* The lock's TTL runs out, under a dead holder or a slow one. *)
ExpireLock ==
  /\ lock # None
  /\ lock' = None
  /\ UNCHANGED <<run, flags, paused, pass, onWire, marked, req, ghosts, abandoned, bounds>>

(* The boot of another build: the marker no longer counts. *)
TakeMarkBack ==
  /\ deploys < MaxDeploys
  /\ marked
  /\ marked' = FALSE
  /\ deploys' = deploys + 1
  /\ UNCHANGED <<run, flags, paused, pass, lock, onWire, req, ghosts, abandoned, scheduled, crashes>>

(* A process dies; the one started in its place pauses its fills first. *)
Crash(n) ==
  /\ crashes < MaxCrashes
  /\ crashes' = crashes + 1
  /\ run' = [run EXCEPT ![n] = NoRun]
  /\ again' = [again EXCEPT ![n] = FALSE]
  /\ forced' = [forced EXCEPT ![n] = FALSE]
  /\ prompt' = [prompt EXCEPT ![n] = FALSE]
  /\ paused' = [paused EXCEPT ![n] = TRUE]
  /\ pass' = [j \in Job |-> IF j[1] = n THEN NoPass ELSE pass[j]]
  /\ abandoned' = abandoned \cup ({pass[j].token : j \in {n} \X {"requested", "scheduled"}} \ {None})
  /\ req' = [q \in Request |->
       IF q \in WaitingAt(n) THEN [req[q] EXCEPT !.state = "lost"] ELSE req[q]]
  /\ UNCHANGED <<lock, onWire, marked, ghosts, scheduled, deploys>>

-----------------------------------------------------------------------------
RunNext(n) ==
  \/ WaitDebounce(n) \/ IndexKeysComplete(n) \/ PollLock(n)
  \/ RunScopedCacheIndexReap(n) \/ EndRound(n) \/ Settle(n)

PassNext(j) ==
  \/ HoldCacheLock(j) \/ ClaimFails(j) \/ ReapScopedCacheIndex(j) \/ ReleaseCacheLock(j)

(* The requests the code makes: a build or a resume asks for a pass, a drop   *)
(* forces one, an operator's clear forces one and skips the debounce.         *)
Ask(n) ==
  \E q \in Request:
    \/ RequestScopedCacheIndexReap(n, q, FALSE, FALSE)
    \/ RequestScopedCacheIndexReap(n, q, TRUE, FALSE)
    \/ RequestScopedCacheIndexReap(n, q, TRUE, TRUE)

Next ==
  \/ \E n \in Node: Ask(n) \/ RunNext(n) \/ ResumeScopedCacheFills(n) \/ Schedule(n) \/ Crash(n)
  \/ \E j \in Job: PassNext(j) \/ Renew(j)
  \/ \E t \in Token: ServeRenewal(t)
  \/ ExpireLock \/ TakeMarkBack

(* Timers fire, redis answers, a lock nobody renews expires. *)
Fairness ==
  /\ \A n \in Node: WF_vars(RunNext(n))
  /\ \A j \in Job: WF_vars(PassNext(j))
  /\ \A t \in Token: WF_vars(ServeRenewal(t))
  /\ WF_vars(ExpireLock)

Spec == Init /\ [][Next]_vars

FairSpec == Spec /\ Fairness

-----------------------------------------------------------------------------
(* The types of the flags, the passes, the lock and the requests; a pass has  *)
(* a token, and a request that waits has a loop to wait for.                  *)
TypeOK ==
  /\ run \in [Node -> [pc : {"none", "debounce", "check", "claim", "pass", "poll", "ended", "settled"},
                       forced : BOOLEAN]]
  /\ {again, forced, prompt, paused} \subseteq [Node -> BOOLEAN]
  /\ pass \in [Job -> [pc : {"none", "claim", "walk", "release"}, token : Token \cup {None},
                       covered : SUBSET Request, renewals : 0 .. MaxRenewals]]
  /\ \A j \in Job: pass[j].pc = "none" <=> pass[j].token = None
  /\ lock \in Token \cup {None} /\ onWire \subseteq Token
  /\ marked \in BOOLEAN /\ abandoned \subseteq Token
  /\ req \in [Request -> [state : {"none", "waiting", "resolved", "lost"},
                          node : Node \cup {None}, forced : BOOLEAN]]
  /\ walked \subseteq Request /\ excused \subseteq Request
  /\ \A q \in Waiting: req[q].node \in Node /\ run[req[q].node].pc # "none"

(* A caller is answered once a pass begun after its request has walked the    *)
(* whole index - wherever it ran - unless fills were paused while it waited,  *)
(* the index was marked complete and it did not force a walk, or a pass for   *)
(* it failed and was logged.                                                  *)
Answered(q) == q \in walked \cup excused

EveryRequestIsAnswered ==
  \A q \in Request: req[q].state = "resolved" => Answered(q)

(* The same when no request came after the last round's test of the flag: all *)
(* the callers the promise is about to answer have their answer.              *)
RequestsBeforeTheTestAreAnswered ==
  \A n \in Node: (run[n].pc = "settled" /\ ~again[n]) =>
    \A q \in WaitingAt(n): Answered(q)

(* The lock names a pass that will release it, or one that died or whose      *)
(* claim or release was refused: nothing else is left to its TTL.             *)
NoLockIsLeftBehind ==
  lock # None => lock \in abandoned \/ \E j \in Job: pass[j].token = lock

(* The lock passes from one pass to another only by the first one's release   *)
(* or by its TTL, and only the pass it names releases it.                     *)
LockIsItsHolders ==
  [][lock # None /\ lock' # lock =>
       /\ lock' = None
       /\ pass' # pass => \E j \in Job: pass[j].token = lock /\ pass'[j].token = None]_vars

(* A caller that awaits its request is answered, or its process dies.         *)
EveryRequestReturns ==
  \A q \in Request: req[q].state = "waiting" ~> req[q].state # "waiting"
=============================================================================
