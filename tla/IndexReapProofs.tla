----------------------------- MODULE IndexReapProofs -----------------------------
(* Proofs about IndexReap, for any processes, requests, passes, deploys and   *)
(* deaths.                                                                    *)
EXTENDS IndexReap, TLAPS

-----------------------------------------------------------------------------
(* What makes the properties inductive *)

Jobs(n) == {<<n, "requested">>, <<n, "scheduled">>}

(* A pass has a token of its own until it is over, and what redis may still   *)
(* write to the lock is the token of a pass, or of one that lost track of it. *)
PassesAreNamed ==
  /\ \A i, j \in Job: i # j /\ pass[i].token = pass[j].token => pass[i].token = None
  /\ \A j \in Job: pass[j].pc = "claim" => pass[j].token \notin {lock} \cup onWire
  /\ \A t \in onWire: t \in abandoned \/ \E j \in Job: pass[j].token = t

(* A loop waits for its pass while there is one. *)
LoopsAwaitPasses ==
  \A n \in Node: run[n].pc = "pass" <=> pass[<<n, "requested">>].pc # "none"

LockInv == TypeOK /\ LoopsAwaitPasses /\ PassesAreNamed /\ NoLockIsLeftBehind

(* Who waits on a process whose fills are paused asked during the pause. *)
PausedAreExcused ==
  \A q \in Waiting: paused[req[q].node] => q \in excused

(* A request the next round will see, forced walk and all *)
AsksAgain(n, q) == again[n] /\ (req[q].forced => forced[n])

(* A request the round under way answers, in each place that round can be *)
Stands(n, q) ==
  \/ run[n].pc = "debounce" /\ (req[q].forced => forced[n])
  \/ run[n].pc = "check" /\ ~req[q].forced
  \/ run[n].pc \in {"claim", "poll"} /\ (req[q].forced => run[n].forced)
  \/ run[n].pc = "pass" /\ pass[<<n, "requested">>].pc = "claim"
     /\ (req[q].forced => run[n].forced)
  \/ run[n].pc = "pass" /\ pass[<<n, "requested">>].pc = "walk"
     /\ q \in pass[<<n, "requested">>].covered

Served(n, q) == Answered(q) \/ AsksAgain(n, q) \/ Stands(n, q)

EachIsServed == \A q \in Waiting: Served(req[q].node, q)

RequestInv == LockInv /\ PausedAreExcused /\ EachIsServed

-----------------------------------------------------------------------------
(* What the parts of a step are *)

Running == [pc : {"none", "debounce", "check", "claim", "pass", "poll", "ended", "settled"},
            forced : BOOLEAN]
Passing == [pc : {"none", "claim", "walk", "release"}, token : Token \cup {None},
            covered : SUBSET Request, renewals : 0 .. MaxRenewals]
Asking == [state : {"none", "waiting", "resolved", "lost"}, node : Node \cup {None},
           forced : BOOLEAN]

(* A pass starts under a token nothing else names. *)
LEMMA StartTakesAFreshToken ==
  ASSUME NEW j \in Job, StartPass(j)
  PROVE  \E t \in FreshToken :
           /\ pass' = [pass EXCEPT ![j] = [NoPass EXCEPT !.pc = "claim", !.token = t]]
           /\ abandoned' = abandoned \ {t}
  <1>. DEFINE t == CHOOSE x \in FreshToken : TRUE
  <1>1. t \in FreshToken
    BY DEF StartPass
  <1>. QED BY <1>1 DEF StartPass

LEMMA JobsOf == \A n \in Node: Jobs(n) \subseteq Job
  BY DEF Jobs, Job

LEMMA JobParts == \A j \in Job: j = <<j[1], j[2]>> /\ j[1] \in Node /\ j[2] \in {"requested", "scheduled"}
  BY DEF Job

(* A join, a round and a debounce keep the types of what they set. *)
LEMMA JoinTypes ==
  ASSUME TypeOK, NEW n \in Node, NEW f \in BOOLEAN, NEW s \in BOOLEAN
  PROVE  /\ BeginRound(n, f) =>
              /\ run' \in [Node -> Running] /\ {again', forced', prompt'} \subseteq [Node -> BOOLEAN]
              /\ \A m \in Node: run[m].pc # "none" => run'[m].pc # "none"
              /\ run'[n].pc # "none"
         /\ Debounce(n, f, s) =>
              /\ run' \in [Node -> Running] /\ {again', forced', prompt'} \subseteq [Node -> BOOLEAN]
              /\ \A m \in Node: run[m].pc # "none" => run'[m].pc # "none"
              /\ run'[n].pc # "none"
  <1>1. /\ run \in [Node -> Running] /\ again \in [Node -> BOOLEAN] /\ forced \in [Node -> BOOLEAN]
        /\ prompt \in [Node -> BOOLEAN] /\ paused \in [Node -> BOOLEAN]
    BY DEF TypeOK, Running
  <1>2. BeginRound(n, f) =>
              /\ run' \in [Node -> Running] /\ {again', forced', prompt'} \subseteq [Node -> BOOLEAN]
              /\ \A m \in Node: run[m].pc # "none" => run'[m].pc # "none"
              /\ run'[n].pc # "none"
    BY <1>1 DEF BeginRound, LoopTest, Running
  <1>3. Debounce(n, f, s) =>
              /\ run' \in [Node -> Running] /\ {again', forced', prompt'} \subseteq [Node -> BOOLEAN]
              /\ \A m \in Node: run[m].pc # "none" => run'[m].pc # "none"
              /\ run'[n].pc # "none"
    BY <1>1 DEF Debounce, Running
  <1>. QED BY <1>2, <1>3

-----------------------------------------------------------------------------
(* Every step keeps the types. *)

(* A loop that moves, its flags and the callers it serves *)
LEMMA LoopKeepsTypes ==
  ASSUME TypeOK, UNCHANGED <<pass, lock, onWire, marked, walked, abandoned>>,
         run' \in [Node -> Running], {again', forced', prompt', paused'} \subseteq [Node -> BOOLEAN],
         req' \in [Request -> Asking], excused' \subseteq Request,
         \A q \in Waiting': req'[q].node \in Node /\ run'[req'[q].node].pc # "none"
  PROVE  TypeOK'
  BY DEF TypeOK, Running, Asking, Waiting

LEMMA TypedParts ==
  ASSUME TypeOK
  PROVE  /\ run \in [Node -> Running] /\ pass \in [Job -> Passing] /\ req \in [Request -> Asking]
         /\ again \in [Node -> BOOLEAN] /\ forced \in [Node -> BOOLEAN]
         /\ prompt \in [Node -> BOOLEAN] /\ paused \in [Node -> BOOLEAN]
         /\ (\A j \in Job: pass[j].pc = "none" <=> pass[j].token = None)
         /\ Waiting \subseteq Request /\ (\A q \in Waiting: req[q].node \in Node /\ run[req[q].node].pc # "none")
  BY DEF TypeOK, Running, Passing, Asking, Waiting

LEMMA MoveTypes ==
  ASSUME TypeOK, NEW n \in Node, NEW pc \in {"claim", "pass", "poll", "ended", "settled"},
         run' = [run EXCEPT ![n].pc = pc]
  PROVE  run' \in [Node -> Running] /\ \A m \in Node: run[m].pc # "none" => run'[m].pc # "none"
  BY TypedParts DEF Running

LEMMA FlagTypes == TypeOK /\ UNCHANGED flags => {again', forced', prompt'} \subseteq [Node -> BOOLEAN]
  BY TypedParts DEF flags

(* A request sets the flags of a loop there is, or begins one; what it asks   *)
(* for is never taken from what was asked before.                             *)
Joins(n, passForced, passPrompt) ==
  /\ again' = [again EXCEPT ![n] = TRUE]
  /\ forced' = [forced EXCEPT ![n] = passForced]
  /\ prompt' = [prompt EXCEPT ![n] = passPrompt]
  /\ run[n].pc # "none" /\ run' = run

LEMMA JoinCases ==
  ASSUME TypeOK, NEW n \in Node, NEW f \in BOOLEAN, NEW s \in BOOLEAN, Join(n, f, s)
  PROVE  \E passForced \in BOOLEAN, passPrompt \in BOOLEAN:
           /\ f \/ forced[n] => passForced
           /\ \/ Joins(n, passForced, passPrompt)
              \/ run[n].pc = "none" /\ BeginRound(n, passForced)
              \/ run[n].pc = "none" /\ Debounce(n, passForced, passPrompt)
  <1>. DEFINE passForced == forced[n] \/ f
              passPrompt == prompt[n] \/ s
  <1>1. passForced \in BOOLEAN /\ passPrompt \in BOOLEAN /\ (f \/ forced[n] => passForced)
    OBVIOUS
  <1>2. \/ Joins(n, passForced, passPrompt)
        \/ run[n].pc = "none" /\ BeginRound(n, passForced)
        \/ run[n].pc = "none" /\ Debounce(n, passForced, passPrompt)
    BY Zenon DEF Join, Joins
  <1>. HIDE DEF passForced, passPrompt
  <1>. QED BY <1>1, <1>2, Zenon

LEMMA RequestTypes ==
  ASSUME TypeOK, NEW n \in Node, NEW q \in Request, NEW f \in BOOLEAN, NEW s \in BOOLEAN,
         RequestScopedCacheIndexReap(n, q, f, s)
  PROVE  TypeOK'
  <1>1. /\ run' \in [Node -> Running] /\ {again', forced', prompt'} \subseteq [Node -> BOOLEAN]
        /\ \A m \in Node: run[m].pc # "none" => run'[m].pc # "none"
        /\ run'[n].pc # "none"
    <2>1. PICK passForced \in BOOLEAN, passPrompt \in BOOLEAN:
            \/ Joins(n, passForced, passPrompt)
            \/ BeginRound(n, passForced)
            \/ Debounce(n, passForced, passPrompt)
      BY JoinCases DEF RequestScopedCacheIndexReap
    <2>2. CASE BeginRound(n, passForced) \/ Debounce(n, passForced, passPrompt)
      BY <2>2, JoinTypes
    <2>3. CASE Joins(n, passForced, passPrompt)
      <3>1. {again', forced', prompt'} \subseteq [Node -> BOOLEAN]
        BY <2>3, TypedParts DEF Joins
      <3>. QED BY <2>3, <3>1, TypedParts DEF Joins
    <2>. QED BY <2>1, <2>2, <2>3
  <1>2. req' \in [Request -> Asking] /\ excused' \subseteq Request /\ UNCHANGED paused
    BY TypedParts DEF RequestScopedCacheIndexReap, TypeOK, Asking
  <1>3. \A w \in Waiting': req'[w].node \in Node /\ run'[req'[w].node].pc # "none"
    <2>1. SUFFICES ASSUME NEW w \in Waiting' PROVE req'[w].node \in Node /\ run'[req'[w].node].pc # "none"
      OBVIOUS
    <2>2. CASE w = q
      BY <1>1, <2>2, TypedParts DEF RequestScopedCacheIndexReap
    <2>3. CASE w # q
      <3>1. w \in Waiting /\ req'[w] = req[w]
        BY <2>3, TypedParts DEF RequestScopedCacheIndexReap, Waiting
      <3>2. req[w].node \in Node /\ run'[req[w].node].pc # "none"
        BY <1>1, <3>1, TypedParts
      <3>. QED BY <3>1, <3>2
    <2>. QED BY <2>2, <2>3
  <1>. QED BY <1>1, <1>2, <1>3, LoopKeepsTypes, TypedParts DEF RequestScopedCacheIndexReap

LEMMA LoopTypes ==
  ASSUME TypeOK, NEW n \in Node,
         WaitDebounce(n) \/ IndexKeysComplete(n) \/ PollLock(n) \/ EndRound(n)
         \/ ResumeScopedCacheFills(n)
  PROVE  /\ TypeOK'
         /\ \A m \in Node: run[m].pc # "none" => run'[m].pc # "none"
  <1>. DEFINE Looped ==
         /\ run' \in [Node -> Running] /\ {again', forced', prompt'} \subseteq [Node -> BOOLEAN]
         /\ \A m \in Node: run[m].pc # "none" => run'[m].pc # "none"
  <1>1. ASSUME Looped, UNCHANGED <<pass, lock, onWire, marked, req, walked, abandoned>>,
               paused' \in [Node -> BOOLEAN], excused' \subseteq Request
        PROVE  TypeOK' /\ Looped
    <2>1. Waiting' = Waiting
      BY <1>1 DEF Waiting
    <2>. QED BY <1>1, <2>1, LoopKeepsTypes, TypedParts
  <1>2. UNCHANGED <<pass, lock, onWire, marked, req, walked, abandoned>>
    BY DEF WaitDebounce, IndexKeysComplete, PollLock, EndRound, ResumeScopedCacheFills, ghosts, bounds
  <1>3. paused' \in [Node -> BOOLEAN] /\ excused' \subseteq Request
    BY TypedParts DEF WaitDebounce, IndexKeysComplete, PollLock, EndRound, ResumeScopedCacheFills,
       ghosts, TypeOK, WaitingAt
  <1>4. forced[n] \in BOOLEAN /\ prompt[n] \in BOOLEAN /\ run[n].forced \in BOOLEAN
    BY TypedParts DEF Running
  <1>5. Looped
    <2>1. CASE WaitDebounce(n)
      BY <1>4, <2>1, JoinTypes DEF WaitDebounce
    <2>2. CASE IndexKeysComplete(n)
      <3>1. (run' = [run EXCEPT ![n].pc = "ended"] \/ run' = [run EXCEPT ![n].pc = "claim"])
            /\ UNCHANGED flags
        BY <2>2 DEF IndexKeysComplete, flags
      <3>. QED BY <3>1, MoveTypes, FlagTypes
    <2>3. CASE PollLock(n)
      BY <1>4, <2>3, TypedParts DEF PollLock, LoopTest, Running, flags
    <2>4. CASE EndRound(n)
      <3>1. CASE BeginRound(n, forced[n]) \/ Debounce(n, forced[n], prompt[n])
        BY <1>4, <3>1, JoinTypes
      <3>2. CASE run' = [run EXCEPT ![n].pc = "settled"] /\ UNCHANGED flags
        BY <3>2, MoveTypes, FlagTypes
      <3>. QED BY <2>4, <3>1, <3>2 DEF EndRound
    <2>5. CASE ResumeScopedCacheFills(n)
      <3>1. CASE Debounce(n, forced[n], prompt[n])
        BY <1>4, <3>1, JoinTypes
      <3>2. CASE again' = [again EXCEPT ![n] = TRUE] /\ UNCHANGED <<run, forced, prompt>>
        BY <3>2, TypedParts
      <3>. QED BY <2>5, <3>1, <3>2 DEF ResumeScopedCacheFills
    <2>. QED BY <2>1, <2>2, <2>3, <2>4, <2>5
  <1>. QED BY <1>1, <1>2, <1>3, <1>5

LEMMA SettleTypes ==
  ASSUME TypeOK, NEW n \in Node, Settle(n)
  PROVE  /\ TypeOK'
         /\ Waiting' = Waiting \ WaitingAt(n) /\ \A q \in Waiting': req'[q] = req[q]
  <1>1. run' \in [Node -> Running] /\ \A m \in Node \ {n}: run'[m] = run[m]
    BY TypedParts DEF Settle, Running, NoRun
  <1>2. req' \in [Request -> Asking]
    BY TypedParts DEF Settle, Asking
  <1>3. Waiting' = Waiting \ WaitingAt(n) /\ \A q \in Waiting': req'[q] = req[q]
    BY TypedParts DEF Settle, Waiting, WaitingAt, Asking
  <1>4. \A q \in Waiting': req'[q].node \in Node /\ run'[req'[q].node].pc # "none"
    BY <1>1, <1>3, TypedParts DEF WaitingAt
  <1>. QED BY <1>1, <1>2, <1>3, <1>4, LoopKeepsTypes, TypedParts DEF Settle, flags, ghosts, TypeOK

LEMMA CrashTypes ==
  ASSUME TypeOK, NEW n \in Node, Crash(n)
  PROVE  /\ TypeOK'
         /\ Waiting' = Waiting \ WaitingAt(n) /\ \A q \in Waiting': req'[q] = req[q]
  <1>1. run' \in [Node -> Running] /\ \A m \in Node \ {n}: run'[m] = run[m]
    BY TypedParts DEF Crash, Running, NoRun
  <1>2. req' \in [Request -> Asking]
    BY TypedParts DEF Crash, Asking
  <1>3. Waiting' = Waiting \ WaitingAt(n) /\ \A q \in Waiting': req'[q] = req[q]
    BY TypedParts DEF Crash, Waiting, WaitingAt, Asking
  <1>4. \A q \in Waiting': req'[q].node \in Node /\ run'[req'[q].node].pc # "none"
    BY <1>1, <1>3, TypedParts DEF WaitingAt
  <1>5. {again', forced', prompt', paused'} \subseteq [Node -> BOOLEAN]
    BY TypedParts DEF Crash
  <1>6. pass' \in [Job -> Passing] /\ \A j \in Job: pass'[j].pc = "none" <=> pass'[j].token = None
    BY TypedParts, BoundAssumption DEF Crash, Passing, NoPass, BoundAssumption
  <1>7. abandoned' \subseteq Token
    <2>1. Jobs(n) \subseteq Job /\ Jobs(n) = {n} \X {"requested", "scheduled"}
      BY JobsOf DEF Jobs
    <2>2. {pass[j].token : j \in Jobs(n)} \subseteq Token \cup {None}
      BY <2>1, TypedParts DEF Passing
    <2>. QED BY <2>1, <2>2 DEF Crash, TypeOK
  <1>. QED BY <1>1, <1>2, <1>3, <1>4, <1>5, <1>6, <1>7 DEF Crash, ghosts, TypeOK, Running, Asking, Passing, Waiting

(* A pass begins, or one that there is moves on and may end. *)
LEMMA PassTypes ==
  ASSUME TypeOK, NEW j \in Job,
         PassNext(j) \/ Renew(j) \/ (\E n \in Node: Schedule(n) \/ RunScopedCacheIndexReap(n))
  PROVE  /\ TypeOK' /\ UNCHANGED <<flags, paused, req>>
         /\ \A m \in Node: run[m].pc # "none" => run'[m].pc # "none"
  <1>. DEFINE Named == \A i \in Job: pass'[i].pc = "none" <=> pass'[i].token = None
              Ran == /\ run' \in [Node -> Running]
                     /\ \A m \in Node: run[m].pc # "none" => run'[m].pc # "none"
              Passed == pass' \in [Job -> Passing] /\ Named
              Held == /\ lock' \in Token \cup {None} /\ onWire' \subseteq Token
                      /\ abandoned' \subseteq Token
              Seen == /\ walked' \subseteq Request /\ excused' \subseteq Request
                      /\ marked' \in BOOLEAN /\ UNCHANGED <<flags, paused, req>>
  <1>1. ASSUME Passed, Ran, Held, Seen PROVE TypeOK' /\ Ran /\ Seen
    <2>1. Waiting' = Waiting
      BY <1>1 DEF Waiting
    <2>. QED BY <1>1, <2>1 DEF TypeOK, Passing, Running, flags
  <1>2. ASSUME NEW i \in Job, NEW pc \in {"poll", "ended"}, LeavePass(i, pc)
        PROVE  Passed /\ Ran
    <2>1. Passed
      BY <1>2, TypedParts, BoundAssumption DEF LeavePass, Passing, NoPass, BoundAssumption
    <2>. QED BY <1>2, <2>1, TypedParts, JobParts DEF LeavePass, Running
  <1>3. ASSUME NEW i \in Job, StartPass(i)
        PROVE  Passed /\ abandoned' \subseteq Token
    <2>1. PICK t \in FreshToken :
            /\ pass' = [pass EXCEPT ![i] = [NoPass EXCEPT !.pc = "claim", !.token = t]]
            /\ abandoned' = abandoned \ {t}
      BY <1>3, StartTakesAFreshToken
    <2>2. t \in Token /\ t # None
      BY TokenAssumption DEF FreshToken, TokenAssumption
    <2>3. [NoPass EXCEPT !.pc = "claim", !.token = t] \in Passing
      <3>1. 0 \in 0 .. MaxRenewals
        BY BoundAssumption DEF BoundAssumption
      <3>. QED BY <2>2, <3>1 DEF Passing, NoPass
    <2>4. /\ pass'[i].pc = "claim" /\ pass'[i].token = t
          /\ \A k \in Job \ {i}: pass'[k] = pass[k]
      BY <2>1, TypedParts DEF NoPass
    <2>5. pass' \in [Job -> Passing]
      BY <2>1, <2>3, TypedParts
    <2>6. abandoned' \subseteq Token
      BY <2>1 DEF TypeOK
    <2>. QED BY <2>2, <2>4, <2>5, <2>6, TypedParts
  <1>4. pass[j].token \in Token \cup {None} /\ (pass[j].pc # "none" => pass[j].token \in Token)
    BY TypedParts DEF Passing
  <1>5. /\ lock \in Token \cup {None} /\ onWire \subseteq Token /\ abandoned \subseteq Token
        /\ walked \subseteq Request /\ excused \subseteq Request /\ marked \in BOOLEAN
    BY DEF TypeOK
  <1>6. CASE HoldCacheLock(j)
    <2>1. CASE /\ lock' = pass[j].token
               /\ pass' = [pass EXCEPT ![j].pc = "walk", ![j].covered = Waiting] /\ UNCHANGED run
      <3>1. pass[j].pc = "claim" /\ j[1] \in Node
        BY <1>6, JobParts DEF HoldCacheLock
      <3>. DEFINE walking == [pass[j] EXCEPT !.pc = "walk", !.covered = Waiting]
      <3>2. walking \in Passing /\ walking.pc = "walk" /\ walking.token = pass[j].token
        <4>1. pass[j] \in Passing /\ Waiting \in SUBSET Request
          BY TypedParts
        <4>. QED BY <4>1 DEF Passing
      <3>3. pass' = [pass EXCEPT ![j] = walking]
        BY <2>1
      <3>. HIDE DEF walking
      <3>4. Passed
        BY <3>1, <3>2, <3>3, TypedParts
      <3>. QED BY <1>1, <1>4, <1>5, <1>6, <2>1, <3>4, TypedParts DEF HoldCacheLock, flags, ghosts
    <2>2. CASE LeavePass(j, "poll") /\ UNCHANGED lock
      BY <1>1, <1>2, <1>5, <1>6, <2>2 DEF HoldCacheLock, flags, ghosts
    <2>. QED BY <1>6, <2>1, <2>2 DEF HoldCacheLock
  <1>7. CASE ClaimFails(j)
    <2>1. Passed /\ Ran
      BY <1>2, <1>7 DEF ClaimFails
    <2>. QED BY <1>1, <1>4, <1>5, <1>7, <2>1 DEF ClaimFails, flags, Waiting, WaitingAt
  <1>8. CASE Renew(j)
    <2>1. Passed /\ Ran
      BY <1>8, TypedParts, BoundAssumption DEF Renew, Passing, BoundAssumption
    <2>. QED BY <1>1, <1>4, <1>5, <1>8, <2>1 DEF Renew, flags, ghosts
  <1>9. CASE ReapScopedCacheIndex(j)
    <2>1. Passed /\ Ran /\ pass[j].covered \subseteq Request
      BY <1>9, TypedParts DEF ReapScopedCacheIndex, Passing
    <2>. QED BY <1>1, <1>4, <1>5, <1>9, <2>1 DEF ReapScopedCacheIndex, flags, Waiting, WaitingAt
  <1>10. CASE ReleaseCacheLock(j)
    <2>1. Passed /\ Ran
      BY <1>2, <1>10 DEF ReleaseCacheLock
    <2>. QED BY <1>1, <1>4, <1>5, <1>10, <2>1 DEF ReleaseCacheLock, flags, ghosts
  <1>11. CASE \E n \in Node: Schedule(n) \/ RunScopedCacheIndexReap(n)
    <2>1. PICK n \in Node: Schedule(n) \/ RunScopedCacheIndexReap(n)
      BY <1>11
    <2>2. PICK i \in Jobs(n): StartPass(i)
      BY <2>1 DEF Schedule, RunScopedCacheIndexReap, Jobs
    <2>3. Passed /\ abandoned' \subseteq Token
      BY <1>3, <2>2, JobsOf
    <2>4. Ran
      BY <2>1, MoveTypes, TypedParts DEF Schedule, RunScopedCacheIndexReap
    <2>. QED BY <1>1, <1>5, <2>1, <2>3, <2>4 DEF Schedule, RunScopedCacheIndexReap, flags, ghosts
  <1>. QED BY <1>6, <1>7, <1>8, <1>9, <1>10, <1>11 DEF PassNext

LEMMA StoreTypes ==
  ASSUME TypeOK, (\E t \in Token: ServeRenewal(t)) \/ ExpireLock \/ TakeMarkBack
  PROVE  TypeOK'
  <1>1. /\ UNCHANGED <<run, again, forced, prompt, paused, pass, req, walked, excused, abandoned>>
        /\ lock' \in Token \cup {None} /\ onWire' \subseteq onWire /\ marked' \in BOOLEAN
    <2>1. CASE \E t \in Token: ServeRenewal(t)
      BY <2>1 DEF TypeOK, ServeRenewal, flags, ghosts
    <2>2. CASE ExpireLock
      BY <2>2 DEF TypeOK, ExpireLock, flags, ghosts
    <2>3. CASE TakeMarkBack
      BY <2>3 DEF TypeOK, TakeMarkBack, flags, ghosts
    <2>. QED BY <2>1, <2>2, <2>3
  <1>2. Waiting' = Waiting
    BY <1>1 DEF Waiting
  <1>. QED BY <1>1, <1>2 DEF TypeOK

LEMMA NextTypes == TypeOK /\ [Next]_vars => TypeOK'
  <1>. SUFFICES ASSUME TypeOK, [Next]_vars PROVE TypeOK'
    OBVIOUS
  <1>1. CASE \E n \in Node: Ask(n)
    BY <1>1, RequestTypes DEF Ask
  <1>2. CASE \E n \in Node: RunNext(n) \/ ResumeScopedCacheFills(n) \/ Schedule(n) \/ Crash(n)
    BY <1>2, LoopTypes, SettleTypes, CrashTypes, PassTypes, JobsOf DEF RunNext, Jobs
  <1>3. CASE \E j \in Job: PassNext(j) \/ Renew(j)
    BY <1>3, PassTypes
  <1>4. CASE (\E t \in Token: ServeRenewal(t)) \/ ExpireLock \/ TakeMarkBack
    BY <1>4, StoreTypes
  <1>5. CASE UNCHANGED vars
    BY <1>5 DEF vars, TypeOK, flags, ghosts, Waiting
  <1>. QED BY <1>1, <1>2, <1>3, <1>4, <1>5 DEF Next

LEMMA InitTypes == Init => TypeOK
  BY PausedAssumption, BoundAssumption
     DEF Init, TypeOK, NoRun, NoPass, NotAsked, Waiting, PausedAssumption, BoundAssumption

(* At any number of processes, requests and faults the model is well typed: a *)
(* pass has a token, and a request waits only on a process that has a loop.   *)
THEOREM TypeCorrect == Spec => []TypeOK
  BY InitTypes, NextTypes, PTL DEF Spec

-----------------------------------------------------------------------------
(* The lock *)

(* A loop goes on to a step that is not its pass, or is left as it is. *)
LEMMA LoopMoves ==
  ASSUME TypeOK, NEW n \in Node,
         Ask(n) \/ WaitDebounce(n) \/ IndexKeysComplete(n) \/ PollLock(n) \/ EndRound(n)
         \/ Settle(n) \/ ResumeScopedCacheFills(n)
  PROVE  /\ UNCHANGED <<pass, lock, onWire, abandoned>>
         /\ run[n].pc = "pass" => run' = run
         /\ run[n].pc # "pass" => run'[n].pc # "pass"
         /\ \A m \in Node \ {n}: run'[m] = run[m]
  <1>1. ASSUME NEW f, BeginRound(n, f)
        PROVE  run'[n].pc # "pass" /\ \A m \in Node \ {n}: run'[m] = run[m]
    BY <1>1, TypedParts DEF BeginRound, LoopTest, Running
  <1>2. ASSUME NEW f, NEW s, Debounce(n, f, s)
        PROVE  run'[n].pc # "pass" /\ \A m \in Node \ {n}: run'[m] = run[m]
    BY <1>2, TypedParts DEF Debounce, Running
  <1>3. CASE Ask(n)
    BY <1>1, <1>2, <1>3 DEF Ask, RequestScopedCacheIndexReap, Join
  <1>4. CASE WaitDebounce(n) \/ EndRound(n)
    <2>1. CASE \E f, s: BeginRound(n, f) \/ Debounce(n, f, s)
      BY <1>1, <1>2, <1>4, <2>1 DEF WaitDebounce, EndRound
    <2>2. CASE run[n].pc = "ended" /\ run' = [run EXCEPT ![n].pc = "settled"]
      BY <1>4, <2>2, TypedParts DEF WaitDebounce, EndRound, Running
    <2>. QED BY <1>4, <2>1, <2>2 DEF WaitDebounce, EndRound
  <1>5. CASE IndexKeysComplete(n)
    BY <1>5, TypedParts DEF IndexKeysComplete, Running
  <1>6. CASE PollLock(n)
    BY <1>6, TypedParts DEF PollLock, LoopTest, Running
  <1>7. CASE Settle(n)
    BY <1>7, TypedParts DEF Settle, NoRun
  <1>8. CASE ResumeScopedCacheFills(n)
    BY <1>1, <1>2, <1>8 DEF ResumeScopedCacheFills
  <1>. QED BY <1>3, <1>4, <1>5, <1>6, <1>7, <1>8

LEMMA LoopKeepsLockInv ==
  ASSUME LockInv, NEW n \in Node, TypeOK',
         Ask(n) \/ WaitDebounce(n) \/ IndexKeysComplete(n) \/ PollLock(n) \/ EndRound(n)
         \/ Settle(n) \/ ResumeScopedCacheFills(n)
  PROVE  LockInv'
  <1>1. /\ UNCHANGED <<pass, lock, onWire, abandoned>>
        /\ run[n].pc = "pass" => run' = run
        /\ run[n].pc # "pass" => run'[n].pc # "pass"
        /\ \A m \in Node \ {n}: run'[m] = run[m]
    BY LoopMoves DEF LockInv
  <1>2. LoopsAwaitPasses'
    BY <1>1 DEF LockInv, LoopsAwaitPasses
  <1>. QED BY <1>1, <1>2 DEF LockInv, PassesAreNamed, NoLockIsLeftBehind

LEMMA StartKeepsLockInv ==
  ASSUME LockInv, NEW n \in Node, TypeOK', Schedule(n) \/ RunScopedCacheIndexReap(n)
  PROVE  LockInv'
  <1>1. PICK i \in Jobs(n):
          /\ pass[i].pc = "none" /\ StartPass(i) /\ UNCHANGED <<lock, onWire>>
          /\ \/ i = <<n, "scheduled">> /\ run' = run
             \/ i = <<n, "requested">> /\ run' = [run EXCEPT ![n].pc = "pass"]
    BY DEF Schedule, RunScopedCacheIndexReap, Jobs, LockInv, LoopsAwaitPasses
  <1>2. PICK t \in FreshToken :
          /\ pass' = [pass EXCEPT ![i] = [NoPass EXCEPT !.pc = "claim", !.token = t]]
          /\ abandoned' = abandoned \ {t}
    BY <1>1, StartTakesAFreshToken, JobsOf
  <1>3. /\ i \in Job /\ pass'[i].pc = "claim" /\ pass'[i].token = t
        /\ \A k \in Job \ {i}: pass'[k] = pass[k]
    BY <1>1, <1>2, JobsOf, TypedParts DEF NoPass, LockInv
  <1>4. pass[i].token = None /\ t # None
    BY <1>1, <1>3, TypedParts, TokenAssumption DEF LockInv, FreshToken, TokenAssumption
  <1>5. t \notin {lock} \cup onWire /\ \A k \in Job: pass[k].token # t
    BY DEF FreshToken
  <1>6. LoopsAwaitPasses'
    <2>1. \A m \in Node: <<m, "requested">> \in Job
      BY DEF Job
    <2>2. CASE i = <<n, "scheduled">> /\ run' = run
      BY <1>3, <2>1, <2>2 DEF LockInv, LoopsAwaitPasses
    <2>3. CASE i = <<n, "requested">> /\ run' = [run EXCEPT ![n].pc = "pass"]
      <3>1. run'[n].pc = "pass" /\ \A m \in Node \ {n}: run'[m] = run[m]
        BY <2>3, TypedParts DEF LockInv, Running
      <3>. QED BY <1>3, <2>1, <2>3, <3>1 DEF LockInv, LoopsAwaitPasses
    <2>. QED BY <1>1, <2>2, <2>3
  <1>7. PassesAreNamed'
    <2>1. \A a, b \in Job: a # b /\ pass'[a].token = pass'[b].token => pass'[a].token = None
      BY <1>3, <1>5 DEF LockInv, PassesAreNamed
    <2>2. \A a \in Job: pass'[a].pc = "claim" => pass'[a].token \notin {lock'} \cup onWire'
      BY <1>1, <1>3, <1>5 DEF LockInv, PassesAreNamed
    <2>3. \A w \in onWire': w \in abandoned' \/ \E a \in Job: pass'[a].token = w
      BY <1>1, <1>2, <1>3, <1>4, <1>5, TypedParts, TokenAssumption
         DEF LockInv, PassesAreNamed, TypeOK, TokenAssumption
    <2>. QED BY <2>1, <2>2, <2>3 DEF PassesAreNamed
  <1>8. NoLockIsLeftBehind'
    BY <1>1, <1>2, <1>3, <1>4, <1>5 DEF LockInv, NoLockIsLeftBehind
  <1>. QED BY <1>6, <1>7, <1>8 DEF LockInv

(* A pass that is over leaves its loop and is named by nothing. *)
LEMMA LeavingClears ==
  ASSUME TypeOK, LoopsAwaitPasses, NEW j \in Job, NEW pc \in {"poll", "ended"}, LeavePass(j, pc)
  PROVE  /\ pass'[j] = NoPass /\ \A k \in Job \ {j}: pass'[k] = pass[k]
         /\ LoopsAwaitPasses'
  <1>1. pass'[j] = NoPass /\ \A k \in Job \ {j}: pass'[k] = pass[k]
    BY TypedParts DEF LeavePass
  <1>2. \A m \in Node: <<m, "requested">> \in Job
    BY DEF Job
  <1>3. CASE j[2] = "requested"
    <2>1. j = <<j[1], "requested">> /\ j[1] \in Node
      BY <1>3, JobParts
    <2>2. run'[j[1]].pc = pc /\ \A m \in Node \ {j[1]}: run'[m] = run[m]
      BY <1>3, <2>1, TypedParts DEF LeavePass, Running
    <2>. QED BY <1>1, <1>2, <2>1, <2>2 DEF LoopsAwaitPasses, NoPass
  <1>4. CASE j[2] # "requested"
    BY <1>1, <1>2, <1>4 DEF LoopsAwaitPasses, LeavePass
  <1>. QED BY <1>1, <1>3, <1>4

(* What a pass leaves to redis when it goes is not its own, or is abandoned. *)
LEMMA LeavingKeepsLockInv ==
  ASSUME LockInv, TypeOK', NEW j \in Job, NEW pc \in {"poll", "ended"}, LeavePass(j, pc),
         pass[j].pc # "none", onWire' = onWire, pass[j].token \notin onWire,
         abandoned \subseteq abandoned',
         \/ lock' = None
         \/ lock' = lock /\ lock # pass[j].token
         \/ lock' = pass[j].token /\ pass[j].token \in abandoned'
  PROVE  LockInv'
  <1>1. /\ pass'[j] = NoPass /\ \A k \in Job \ {j}: pass'[k] = pass[k]
        /\ LoopsAwaitPasses'
    BY LeavingClears DEF LockInv
  <1>2. pass'[j].token = None /\ pass'[j].pc = "none"
    BY <1>1 DEF NoPass
  <1>3. pass[j].token \in Token /\ pass[j].token # None
    BY TypedParts, TokenAssumption DEF LockInv, Passing, TokenAssumption
  <1>4. PassesAreNamed'
    <2>1. \A a, b \in Job: a # b /\ pass'[a].token = pass'[b].token => pass'[a].token = None
      BY <1>1, <1>2 DEF LockInv, PassesAreNamed
    <2>2. \A a \in Job: pass'[a].pc = "claim" => pass'[a].token \notin {lock'} \cup onWire'
      <3>1. SUFFICES ASSUME NEW a \in Job, pass'[a].pc = "claim"
                     PROVE  pass'[a].token \notin {lock'} \cup onWire'
        OBVIOUS
      <3>2. a # j /\ pass'[a] = pass[a]
        BY <1>1, <1>2, <3>1
      <3>3. pass[a].token \notin {lock} \cup onWire /\ pass[a].token # None
        BY <3>1, <3>2, TypedParts DEF LockInv, PassesAreNamed
      <3>4. pass[a].token # pass[j].token
        BY <3>2, <3>3 DEF LockInv, PassesAreNamed
      <3>. QED BY <3>2, <3>3, <3>4
    <2>3. \A w \in onWire': w \in abandoned' \/ \E a \in Job: pass'[a].token = w
      BY <1>1 DEF LockInv, PassesAreNamed
    <2>. QED BY <2>1, <2>2, <2>3 DEF PassesAreNamed
  <1>5. NoLockIsLeftBehind'
    BY <1>1, <1>3 DEF LockInv, NoLockIsLeftBehind
  <1>. QED BY <1>1, <1>4, <1>5 DEF LockInv

LEMMA HoldKeepsLockInv ==
  ASSUME LockInv, TypeOK', NEW j \in Job, HoldCacheLock(j)
  PROVE  LockInv'
  <1>1. pass[j].token \notin onWire /\ pass[j].token # lock /\ pass[j].token # None
    BY TypedParts DEF LockInv, PassesAreNamed, HoldCacheLock
  <1>2. CASE LeavePass(j, "poll") /\ UNCHANGED lock
    BY <1>1, <1>2, LeavingKeepsLockInv DEF HoldCacheLock
  <1>3. CASE /\ lock' = pass[j].token
             /\ pass' = [pass EXCEPT ![j].pc = "walk", ![j].covered = Waiting] /\ UNCHANGED run
    <2>1. /\ pass'[j].pc = "walk" /\ pass'[j].token = pass[j].token
          /\ \A k \in Job \ {j}: pass'[k] = pass[k]
      BY <1>3, TypedParts DEF LockInv, Passing
    <2>2. LoopsAwaitPasses'
      <3>1. \A m \in Node: <<m, "requested">> \in Job
        BY DEF Job
      <3>. QED BY <1>3, <2>1, <3>1 DEF LockInv, LoopsAwaitPasses, HoldCacheLock
    <2>3. PassesAreNamed' /\ NoLockIsLeftBehind'
      <3>1. onWire' = onWire /\ abandoned' = abandoned
        BY DEF HoldCacheLock
      <3>2. \A a \in Job: pass'[a].token = pass[a].token
        BY <2>1
      <3>3. \A a, b \in Job: a # b /\ pass'[a].token = pass'[b].token => pass'[a].token = None
        BY <3>2 DEF LockInv, PassesAreNamed
      <3>4. \A a \in Job: pass'[a].pc = "claim" => pass'[a].token \notin {lock'} \cup onWire'
        <4>1. SUFFICES ASSUME NEW a \in Job, pass'[a].pc = "claim"
                       PROVE  pass'[a].token \notin {lock'} \cup onWire'
          OBVIOUS
        <4>2. a # j /\ pass'[a] = pass[a]
          BY <2>1, <4>1
        <4>3. pass[a].token \notin {lock} \cup onWire /\ pass[a].token # pass[j].token
          BY <1>1, <4>1, <4>2 DEF LockInv, PassesAreNamed
        <4>. QED BY <1>3, <3>1, <4>2, <4>3
      <3>5. \A w \in onWire': w \in abandoned' \/ \E a \in Job: pass'[a].token = w
        BY <3>1, <3>2 DEF LockInv, PassesAreNamed
      <3>. QED BY <1>3, <3>2, <3>3, <3>4, <3>5 DEF PassesAreNamed, NoLockIsLeftBehind
    <2>. QED BY <2>2, <2>3 DEF LockInv
  <1>. QED BY <1>2, <1>3 DEF HoldCacheLock

LEMMA WalkKeepsLockInv ==
  ASSUME LockInv, TypeOK', NEW j \in Job, Renew(j) \/ ReapScopedCacheIndex(j)
  PROVE  LockInv'
  <1>1. /\ UNCHANGED <<run, lock, abandoned>> /\ pass[j].pc = "walk"
        /\ pass'[j].pc \in {"walk", "release"} /\ pass'[j].token = pass[j].token
        /\ \A k \in Job \ {j}: pass'[k] = pass[k]
        /\ onWire' \subseteq onWire \cup {pass[j].token}
    <2>1. CASE Renew(j)
      BY <2>1, TypedParts DEF LockInv, Passing, Renew
    <2>2. CASE ReapScopedCacheIndex(j)
      BY <2>2, TypedParts DEF LockInv, Passing, ReapScopedCacheIndex
    <2>. QED BY <2>1, <2>2
  <1>2. LoopsAwaitPasses'
    <2>1. \A m \in Node: <<m, "requested">> \in Job
      BY DEF Job
    <2>. QED BY <1>1, <2>1 DEF LockInv, LoopsAwaitPasses
  <1>3. pass[j].token # None
    BY <1>1, TypedParts DEF LockInv
  <1>4. \A a \in Job: pass'[a].token = pass[a].token
    BY <1>1
  <1>5. \A a, b \in Job: a # b /\ pass'[a].token = pass'[b].token => pass'[a].token = None
    BY <1>4 DEF LockInv, PassesAreNamed
  <1>6. \A a \in Job: pass'[a].pc = "claim" => pass'[a].token \notin {lock'} \cup onWire'
    <2>1. SUFFICES ASSUME NEW a \in Job, pass'[a].pc = "claim"
                   PROVE  pass'[a].token \notin {lock'} \cup onWire'
      OBVIOUS
    <2>2. a # j /\ pass'[a] = pass[a]
      BY <1>1, <2>1
    <2>3. pass[a].token \notin {lock} \cup onWire /\ pass[a].token # pass[j].token
      BY <1>3, <2>1, <2>2 DEF LockInv, PassesAreNamed
    <2>. QED BY <1>1, <2>2, <2>3
  <1>7. \A w \in onWire': w \in abandoned' \/ \E a \in Job: pass'[a].token = w
    BY <1>1, <1>4 DEF LockInv, PassesAreNamed
  <1>8. NoLockIsLeftBehind'
    BY <1>1, <1>4 DEF LockInv, NoLockIsLeftBehind
  <1>. QED BY <1>2, <1>5, <1>6, <1>7, <1>8 DEF LockInv, PassesAreNamed

LEMMA EndKeepsLockInv ==
  ASSUME LockInv, TypeOK', NEW j \in Job, ClaimFails(j) \/ ReleaseCacheLock(j)
  PROVE  LockInv'
  <1>1. pass[j].pc # "none" /\ pass[j].token \notin onWire
    BY DEF LockInv, PassesAreNamed, ClaimFails, ReleaseCacheLock, RenewalSettled
  <1>2. LeavePass(j, "ended") /\ UNCHANGED onWire /\ abandoned \subseteq abandoned'
    BY DEF ClaimFails, ReleaseCacheLock
  <1>3. \/ lock' = None
        \/ lock' = lock /\ lock # pass[j].token
        \/ lock' = pass[j].token /\ pass[j].token \in abandoned'
    BY DEF LockInv, PassesAreNamed, ClaimFails, ReleaseCacheLock
  <1>. QED BY <1>1, <1>2, <1>3, LeavingKeepsLockInv

LEMMA StoreKeepsLockInv ==
  ASSUME LockInv, TypeOK', (\E t \in Token: ServeRenewal(t)) \/ ExpireLock \/ TakeMarkBack
  PROVE  LockInv'
  <1>1. /\ UNCHANGED <<run, pass, abandoned>> /\ onWire' \subseteq onWire
        /\ lock' \in {lock, None} \cup onWire
    BY DEF ServeRenewal, ExpireLock, TakeMarkBack
  <1>2. \A j \in Job: pass[j].pc = "claim" => pass[j].token # None
    BY TypedParts DEF LockInv
  <1>. QED BY <1>1, <1>2 DEF LockInv, LoopsAwaitPasses, PassesAreNamed, NoLockIsLeftBehind

LEMMA CrashKeepsLockInv ==
  ASSUME LockInv, TypeOK', NEW n \in Node, Crash(n)
  PROVE  LockInv'
  <1>1. UNCHANGED <<lock, onWire>>
    BY DEF Crash
  <1>2. \A j \in Job: IF j \in Jobs(n) THEN pass'[j] = NoPass ELSE pass'[j] = pass[j]
    BY JobParts DEF Crash, Jobs
  <1>3. abandoned' = abandoned \cup ({pass[j].token : j \in Jobs(n)} \ {None})
    <2>1. Jobs(n) = {n} \X {"requested", "scheduled"}
      BY DEF Jobs
    <2>. QED BY <2>1 DEF Crash
  <1>4. NoPass.token = None /\ NoPass.pc = "none"
    BY DEF NoPass
  <1>5. LoopsAwaitPasses'
    <2>1. \A m \in Node: <<m, "requested">> \in Job /\ (<<m, "requested">> \in Jobs(n) <=> m = n)
      BY DEF Job, Jobs
    <2>2. run'[n].pc = "none" /\ \A m \in Node \ {n}: run'[m] = run[m]
      BY TypedParts DEF LockInv, Crash, NoRun
    <2>3. \A m \in Node: run[m].pc = "pass" <=> pass[<<m, "requested">>].pc # "none"
      BY DEF LockInv, LoopsAwaitPasses
    <2>4. /\ pass'[<<n, "requested">>].pc = "none"
          /\ \A m \in Node \ {n}: pass'[<<m, "requested">>] = pass[<<m, "requested">>]
      BY <1>2, <1>4, <2>1
    <2>. QED BY <2>2, <2>3, <2>4 DEF LoopsAwaitPasses
  <1>6. \A a, b \in Job: a # b /\ pass'[a].token = pass'[b].token => pass'[a].token = None
    BY <1>2, <1>4 DEF LockInv, PassesAreNamed
  <1>7. \A a \in Job: pass'[a].pc = "claim" => pass'[a].token \notin {lock'} \cup onWire'
    BY <1>1, <1>2, <1>4 DEF LockInv, PassesAreNamed
  <1>8. ASSUME NEW t, t # None, t \in abandoned \/ \E j \in Job: pass[j].token = t
        PROVE  t \in abandoned' \/ \E j \in Job: pass'[j].token = t
    BY <1>2, <1>3, <1>8
  <1>9. \A w \in onWire': w # None /\ (w \in abandoned' \/ \E a \in Job: pass'[a].token = w)
    <2>1. \A w \in onWire: w # None
      BY TokenAssumption DEF LockInv, TypeOK, TokenAssumption
    <2>2. \A w \in onWire: w \in abandoned \/ \E a \in Job: pass[a].token = w
      BY DEF LockInv, PassesAreNamed
    <2>. QED BY <1>1, <1>8, <2>1, <2>2
  <1>10. NoLockIsLeftBehind'
    BY <1>1, <1>8 DEF LockInv, NoLockIsLeftBehind
  <1>. QED BY <1>5, <1>6, <1>7, <1>9, <1>10 DEF LockInv, PassesAreNamed

LEMMA NextKeepsLockInv == LockInv /\ [Next]_vars => LockInv'
  <1>. SUFFICES ASSUME LockInv, [Next]_vars PROVE LockInv'
    OBVIOUS
  <1>0. TypeOK'
    BY NextTypes DEF LockInv
  <1>1. CASE \E n \in Node: Ask(n) \/ RunNext(n) \/ ResumeScopedCacheFills(n) \/ Schedule(n)
    BY <1>0, <1>1, LoopKeepsLockInv, StartKeepsLockInv DEF RunNext
  <1>2. CASE \E n \in Node: Crash(n)
    BY <1>0, <1>2, CrashKeepsLockInv
  <1>3. CASE \E j \in Job: PassNext(j) \/ Renew(j)
    BY <1>0, <1>3, HoldKeepsLockInv, WalkKeepsLockInv, EndKeepsLockInv DEF PassNext
  <1>4. CASE (\E t \in Token: ServeRenewal(t)) \/ ExpireLock \/ TakeMarkBack
    BY <1>0, <1>4, StoreKeepsLockInv
  <1>5. CASE UNCHANGED vars
    BY <1>0, <1>5 DEF vars, LockInv, LoopsAwaitPasses, PassesAreNamed, NoLockIsLeftBehind
  <1>. QED BY <1>1, <1>2, <1>3, <1>4, <1>5 DEF Next

LEMMA InitLockInv == Init => LockInv
  <1>1. \A n \in Node: <<n, "requested">> \in Job
    BY DEF Job
  <1>. QED BY <1>1, InitTypes
         DEF Init, LockInv, LoopsAwaitPasses, PassesAreNamed, NoLockIsLeftBehind, NoRun, NoPass

(* No step but a death, or a refused claim or release, leaves the lock to a   *)
(* token nobody will release: at any number of processes, passes, renewals    *)
(* and expiries.                                                              *)
THEOREM LocksAreReleased == Spec => []NoLockIsLeftBehind
  <1>1. LockInv => NoLockIsLeftBehind
    BY DEF LockInv
  <1>. QED BY <1>1, InitLockInv, NextKeepsLockInv, PTL DEF Spec

LEMMA LockMoves ==
  ASSUME TypeOK, Next, lock # None, lock' # lock
  PROVE  /\ lock' = None
         /\ pass' # pass => \E j \in Job: pass[j].token = lock /\ pass'[j].token = None
  <1>1. CASE \E n \in Node: Ask(n) \/ RunNext(n) \/ ResumeScopedCacheFills(n) \/ Schedule(n) \/ Crash(n)
    BY <1>1 DEF Ask, RequestScopedCacheIndexReap, RunNext, WaitDebounce, IndexKeysComplete, PollLock,
       RunScopedCacheIndexReap, EndRound, Settle, ResumeScopedCacheFills, Schedule, Crash
  <1>2. CASE \E j \in Job: PassNext(j) \/ Renew(j)
    <2>1. PICK j \in Job: ReleaseCacheLock(j)
      BY <1>2 DEF PassNext, HoldCacheLock, Holds, ClaimFails, ReapScopedCacheIndex, Renew
    <2>2. lock' = None /\ lock = pass[j].token /\ pass'[j] = NoPass
      BY <2>1, TypedParts DEF ReleaseCacheLock, LeavePass
    <2>. QED BY <2>2 DEF NoPass
  <1>3. CASE (\E t \in Token: ServeRenewal(t)) \/ ExpireLock \/ TakeMarkBack
    BY <1>3 DEF ServeRenewal, Holds, ExpireLock, TakeMarkBack
  <1>. QED BY <1>1, <1>2, <1>3 DEF Next

(* One pass never takes the lock from another: it is freed first, by the pass *)
(* it names or by its TTL - whatever renewals are still on their way.         *)
THEOREM LocksMoveByTheirHolders == Spec => LockIsItsHolders
  <1>. DEFINE Moves ==
         lock # None /\ lock' # lock =>
           /\ lock' = None
           /\ pass' # pass => \E j \in Job: pass[j].token = lock /\ pass'[j].token = None
  <1>1. TypeOK /\ [Next]_vars => [Moves]_vars
    BY LockMoves
  <1>2. LockIsItsHolders <=> [][Moves]_vars
    BY DEF LockIsItsHolders
  <1>. HIDE DEF Moves
  <1>. QED BY <1>1, <1>2, TypeCorrect, PTL DEF Spec

-----------------------------------------------------------------------------
(* The requests *)

(* A round begun, or put off, serves who asked for no more than it does. *)
LEMMA RoundsServe ==
  ASSUME TypeOK, NEW n \in Node, NEW q \in Request, NEW f \in BOOLEAN, req'[q].forced => f,
         paused[n] => q \in excused'
  PROVE  /\ LoopTest(n, f) => Served(n, q)'
         /\ BeginRound(n, f) => Served(n, q)'
         /\ \A s: Debounce(n, f, s) => Served(n, q)'
  <1>1. LoopTest(n, f) => Served(n, q)'
    <2>1. CASE paused[n]
      BY <2>1 DEF Served, Answered
    <2>2. CASE ~paused[n] /\ f
      BY <2>2, TypedParts DEF LoopTest, Served, Stands
    <2>3. CASE ~paused[n] /\ ~f
      BY <2>3, TypedParts DEF LoopTest, Served, Stands
    <2>. QED BY <2>1, <2>2, <2>3
  <1>2. \A s: Debounce(n, f, s) => Served(n, q)'
    BY TypedParts DEF Debounce, Running, Served, Stands
  <1>. QED BY <1>1, <1>2 DEF BeginRound

(* Who waits on a loop that a step leaves alone is served as before. *)
LEMMA UnmovedServe ==
  ASSUME NEW n \in Node, NEW q \in Request, Served(n, q), req'[q] = req[q], run'[n] = run[n],
         again'[n] = again[n], forced'[n] = forced[n],
         pass'[<<n, "requested">>] = pass[<<n, "requested">>],
         walked \subseteq walked', excused \subseteq excused'
  PROVE  Served(n, q)'
  BY DEF Served, Answered, AsksAgain, Stands

(* A step of one loop that keeps the requests there are: what it owes to its  *)
(* own callers is all there is to show.                                       *)
LEMMA OneLoopServes ==
  ASSUME RequestInv, NEW n \in Node, UNCHANGED <<pass, req, paused>>,
         walked \subseteq walked', excused \subseteq excused',
         \A m \in Node \ {n}: run'[m] = run[m] /\ again'[m] = again[m] /\ forced'[m] = forced[m],
         \A q \in WaitingAt(n): Served(n, q)'
  PROVE  PausedAreExcused' /\ EachIsServed'
  <1>1. Waiting' = Waiting
    BY DEF Waiting
  <1>2. PausedAreExcused'
    BY <1>1 DEF RequestInv, PausedAreExcused
  <1>3. ASSUME NEW q \in Waiting PROVE Served(req[q].node, q)'
    <2>1. CASE req[q].node = n
      BY <2>1, <1>3 DEF WaitingAt
    <2>2. CASE req[q].node # n
      BY <2>2, <1>3, UnmovedServe, TypedParts DEF RequestInv, LockInv, EachIsServed
    <2>. QED BY <2>1, <2>2
  <1>. QED BY <1>1, <1>2, <1>3 DEF EachIsServed

LEMMA WaitDebounceServes ==
  ASSUME RequestInv, NEW n \in Node, WaitDebounce(n)
  PROVE  PausedAreExcused' /\ EachIsServed'
  <1>1. UNCHANGED <<pass, req, paused, walked, excused>>
    BY DEF WaitDebounce, ghosts
  <1>2. \A m \in Node \ {n}: run'[m] = run[m] /\ again'[m] = again[m] /\ forced'[m] = forced[m]
    BY TypedParts DEF WaitDebounce, BeginRound, LoopTest, RequestInv, LockInv
  <1>3. ASSUME NEW q \in WaitingAt(n) PROVE Served(n, q)'
    <2>1. q \in Waiting /\ q \in Request /\ req[q].node = n
      BY DEF WaitingAt, Waiting
    <2>2. Served(n, q) /\ (paused[n] => q \in excused')
      BY <1>1, <2>1 DEF RequestInv, EachIsServed, PausedAreExcused
    <2>3. CASE Answered(q)
      BY <1>1, <2>3 DEF Served, Answered
    <2>4. CASE req[q].forced => forced[n]
      <3>1. forced[n] \in BOOLEAN /\ TypeOK
        BY TypedParts DEF RequestInv, LockInv
      <3>. QED BY <1>1, <2>1, <2>2, <2>4, <3>1, RoundsServe DEF WaitDebounce
    <2>. QED BY <2>2, <2>3, <2>4 DEF Served, AsksAgain, Stands, WaitDebounce
  <1>. QED BY <1>1, <1>2, <1>3, OneLoopServes

LEMMA IndexKeysCompleteServes ==
  ASSUME RequestInv, NEW n \in Node, IndexKeysComplete(n)
  PROVE  PausedAreExcused' /\ EachIsServed'
  <1>1. UNCHANGED <<pass, req, paused, walked, again, forced>> /\ excused \subseteq excused'
    BY DEF IndexKeysComplete, flags
  <1>2. \A m \in Node \ {n}: run'[m] = run[m]
    BY TypedParts DEF IndexKeysComplete, RequestInv, LockInv
  <1>3. ASSUME NEW q \in WaitingAt(n) PROVE Served(n, q)'
    <2>1. q \in Waiting /\ req[q].node = n /\ Served(n, q) /\ run[n].pc = "check"
      BY DEF WaitingAt, RequestInv, EachIsServed, IndexKeysComplete
    <2>2. CASE Answered(q) \/ AsksAgain(n, q)
      BY <1>1, <2>2 DEF Served, Answered, AsksAgain
    <2>3. CASE ~req[q].forced
      <3>1. CASE run' = [run EXCEPT ![n].pc = "claim"]
        BY <1>1, <2>1, <2>3, <3>1, TypedParts DEF Served, Stands, RequestInv, LockInv, Running
      <3>2. CASE q \in excused'
        BY <3>2 DEF Served, Answered
      <3>. QED BY <2>1, <2>3, <3>1, <3>2 DEF IndexKeysComplete
    <2>. QED BY <2>1, <2>2, <2>3 DEF Served, Stands
  <1>. QED BY <1>1, <1>2, <1>3, OneLoopServes

LEMMA PollLockServes ==
  ASSUME RequestInv, NEW n \in Node, PollLock(n)
  PROVE  PausedAreExcused' /\ EachIsServed'
  <1>1. UNCHANGED <<pass, req, paused, walked, excused, again, forced>>
    BY DEF PollLock, flags, ghosts
  <1>2. \A m \in Node \ {n}: run'[m] = run[m]
    BY TypedParts DEF PollLock, LoopTest, RequestInv, LockInv
  <1>3. ASSUME NEW q \in WaitingAt(n) PROVE Served(n, q)'
    <2>1. q \in Waiting /\ q \in Request /\ req[q].node = n /\ run[n].pc = "poll"
      BY DEF WaitingAt, Waiting, PollLock
    <2>2. Served(n, q) /\ (paused[n] => q \in excused')
      BY <1>1, <2>1 DEF RequestInv, EachIsServed, PausedAreExcused
    <2>3. CASE Answered(q) \/ AsksAgain(n, q)
      BY <1>1, <2>3 DEF Served, Answered, AsksAgain
    <2>4. CASE req[q].forced => run[n].forced
      <3>1. run[n].forced \in BOOLEAN /\ TypeOK
        BY TypedParts DEF RequestInv, LockInv, Running
      <3>. QED BY <1>1, <2>1, <2>2, <2>4, <3>1, RoundsServe DEF PollLock
    <2>. QED BY <2>1, <2>2, <2>3, <2>4 DEF Served, Stands
  <1>. QED BY <1>1, <1>2, <1>3, OneLoopServes

LEMMA EndRoundServes ==
  ASSUME RequestInv, NEW n \in Node, EndRound(n)
  PROVE  PausedAreExcused' /\ EachIsServed'
  <1>1. UNCHANGED <<pass, req, paused, walked, excused>>
    BY DEF EndRound, ghosts
  <1>2. \A m \in Node \ {n}: run'[m] = run[m] /\ again'[m] = again[m] /\ forced'[m] = forced[m]
    <2>1. CASE run' = [run EXCEPT ![n].pc = "settled"] /\ UNCHANGED flags
      BY <2>1, TypedParts DEF flags, RequestInv, LockInv
    <2>2. CASE BeginRound(n, forced[n])
      BY <2>2, TypedParts DEF BeginRound, LoopTest, RequestInv, LockInv
    <2>3. CASE Debounce(n, forced[n], prompt[n])
      BY <2>3, TypedParts DEF Debounce, RequestInv, LockInv
    <2>. QED BY <2>1, <2>2, <2>3 DEF EndRound
  <1>3. ASSUME NEW q \in WaitingAt(n) PROVE Served(n, q)'
    <2>1. q \in Waiting /\ q \in Request /\ req[q].node = n /\ run[n].pc = "ended"
      BY DEF WaitingAt, Waiting, EndRound
    <2>2. Served(n, q) /\ (paused[n] => q \in excused')
      BY <1>1, <2>1 DEF RequestInv, EachIsServed, PausedAreExcused
    <2>3. CASE Answered(q)
      BY <1>1, <2>3 DEF Served, Answered
    <2>4. CASE again[n] /\ (req[q].forced => forced[n])
      <3>1. forced[n] \in BOOLEAN /\ prompt[n] \in BOOLEAN /\ TypeOK
        BY TypedParts DEF RequestInv, LockInv
      <3>2. BeginRound(n, forced[n]) \/ Debounce(n, forced[n], prompt[n])
        BY <2>4 DEF EndRound
      <3>. QED BY <1>1, <2>1, <2>2, <2>4, <3>1, <3>2, RoundsServe
    <2>. QED BY <2>1, <2>2, <2>3, <2>4 DEF Served, Stands, AsksAgain
  <1>. QED BY <1>1, <1>2, <1>3, OneLoopServes

(* Callers that are answered, or whose process died, are owed nothing more. *)
LEMMA GoneServes ==
  ASSUME RequestInv, NEW n \in Node, Settle(n) \/ Crash(n)
  PROVE  PausedAreExcused' /\ EachIsServed'
  <1>1. Waiting' = Waiting \ WaitingAt(n) /\ \A q \in Waiting': req'[q] = req[q]
    BY SettleTypes, CrashTypes DEF RequestInv, LockInv
  <1>2. \A m \in Node \ {n}:
          /\ run'[m] = run[m] /\ again'[m] = again[m] /\ forced'[m] = forced[m]
          /\ paused'[m] = paused[m] /\ pass'[<<m, "requested">>] = pass[<<m, "requested">>]
    <2>1. CASE Settle(n)
      BY <2>1, TypedParts DEF Settle, flags, RequestInv, LockInv
    <2>2. CASE Crash(n)
      <3>1. \A m \in Node: <<m, "requested">> \in Job
        BY DEF Job
      <3>. QED BY <2>2, <3>1, TypedParts DEF Crash, RequestInv, LockInv
    <2>. QED BY <2>1, <2>2
  <1>3. UNCHANGED <<walked, excused>>
    BY DEF Settle, Crash, ghosts
  <1>4. \A q \in Waiting': q \in Waiting /\ q \in Request /\ req[q].node \in Node \ {n}
    BY <1>1, TypedParts DEF WaitingAt, RequestInv, LockInv
  <1>5. PausedAreExcused'
    BY <1>1, <1>2, <1>3, <1>4 DEF RequestInv, PausedAreExcused
  <1>6. ASSUME NEW q \in Waiting' PROVE Served(req[q].node, q)'
    <2>1. q \in Request /\ req[q].node \in Node \ {n} /\ Served(req[q].node, q) /\ req'[q] = req[q]
      BY <1>1, <1>4 DEF RequestInv, EachIsServed
    <2>. QED BY <1>2, <1>3, <2>1, UnmovedServe
  <1>. QED BY <1>1, <1>5, <1>6 DEF EachIsServed

LEMMA ResumeServes ==
  ASSUME RequestInv, NEW n \in Node, ResumeScopedCacheFills(n)
  PROVE  PausedAreExcused' /\ EachIsServed'
  <1>1. UNCHANGED <<pass, req, walked, excused>> /\ Waiting' = Waiting
    BY DEF ResumeScopedCacheFills, ghosts, Waiting
  <1>2. \A m \in Node \ {n}:
          run'[m] = run[m] /\ again'[m] = again[m] /\ forced'[m] = forced[m] /\ paused'[m] = paused[m]
    <2>1. CASE Debounce(n, forced[n], prompt[n])
      BY <2>1, TypedParts DEF ResumeScopedCacheFills, Debounce, RequestInv, LockInv
    <2>2. CASE again' = [again EXCEPT ![n] = TRUE] /\ UNCHANGED <<run, forced, prompt>>
      BY <2>2, TypedParts DEF ResumeScopedCacheFills, RequestInv, LockInv
    <2>. QED BY <2>1, <2>2 DEF ResumeScopedCacheFills
  <1>3. ~paused'[n]
    BY TypedParts DEF ResumeScopedCacheFills, RequestInv, LockInv
  <1>4. PausedAreExcused'
    BY <1>1, <1>2, <1>3, TypedParts DEF RequestInv, LockInv, PausedAreExcused
  <1>5. ASSUME NEW q \in Waiting PROVE Served(req[q].node, q)'
    <2>1. q \in Request /\ req[q].node \in Node /\ run[req[q].node].pc # "none"
          /\ Served(req[q].node, q)
      BY TypedParts DEF RequestInv, LockInv, EachIsServed
    <2>2. CASE req[q].node # n
      BY <1>1, <1>2, <2>1, <2>2, UnmovedServe
    <2>3. CASE req[q].node = n
      <3>1. UNCHANGED <<run, forced>> /\ again'[n]
        BY <2>1, <2>3, TypedParts DEF ResumeScopedCacheFills, RequestInv, LockInv
      <3>. QED BY <1>1, <2>1, <2>3, <3>1 DEF Served, Answered, AsksAgain, Stands
    <2>. QED BY <2>2, <2>3
  <1>. QED BY <1>1, <1>4, <1>5 DEF EachIsServed

LEMMA RequestServes ==
  ASSUME RequestInv, NEW n \in Node, NEW w \in Request, NEW f \in BOOLEAN, NEW s \in BOOLEAN,
         RequestScopedCacheIndexReap(n, w, f, s)
  PROVE  PausedAreExcused' /\ EachIsServed'
  <1>1. UNCHANGED <<paused, pass, walked>> /\ excused \subseteq excused'
        /\ (paused[n] => w \in excused')
    BY DEF RequestScopedCacheIndexReap
  <1>2. /\ w \notin Waiting /\ Waiting' = Waiting \cup {w}
        /\ \A q \in Request \ {w}: req'[q] = req[q]
        /\ req'[w] = [state |-> "waiting", node |-> n, forced |-> f]
    BY TypedParts DEF RequestScopedCacheIndexReap, RequestInv, LockInv, Waiting
  <1>3. PausedAreExcused'
    BY <1>1, <1>2, TypedParts DEF RequestInv, LockInv, PausedAreExcused
  <1>4. PICK passForced \in BOOLEAN, passPrompt \in BOOLEAN:
          /\ f \/ forced[n] => passForced
          /\ \/ Joins(n, passForced, passPrompt)
             \/ run[n].pc = "none" /\ BeginRound(n, passForced)
             \/ run[n].pc = "none" /\ Debounce(n, passForced, passPrompt)
    BY JoinCases DEF RequestScopedCacheIndexReap, RequestInv, LockInv
  <1>5. \A m \in Node \ {n}: run'[m] = run[m] /\ again'[m] = again[m] /\ forced'[m] = forced[m]
    BY <1>4, TypedParts DEF Joins, BeginRound, LoopTest, Debounce, RequestInv, LockInv
  <1>6. Served(n, w)'
    <2>1. CASE Joins(n, passForced, passPrompt)
      BY <1>2, <1>4, <2>1, TypedParts DEF Joins, Served, AsksAgain, RequestInv, LockInv
    <2>2. CASE BeginRound(n, passForced) \/ Debounce(n, passForced, passPrompt)
      BY <1>1, <1>2, <1>4, <2>2, RoundsServe DEF RequestInv, LockInv
    <2>. QED BY <1>4, <2>1, <2>2
  <1>7. ASSUME NEW q \in Waiting PROVE Served(req[q].node, q)' /\ req'[q] = req[q]
    <2>1. /\ q \in Request /\ req[q].node \in Node /\ run[req[q].node].pc # "none"
          /\ Served(req[q].node, q) /\ req'[q] = req[q]
      BY <1>2, TypedParts DEF RequestInv, LockInv, EachIsServed
    <2>2. CASE req[q].node # n
      BY <1>1, <1>5, <2>1, <2>2, UnmovedServe
    <2>3. CASE req[q].node = n
      <3>1. Joins(n, passForced, passPrompt)
        BY <1>4, <2>1, <2>3
      <3>2. run' = run /\ again'[n] /\ forced'[n] = passForced
        BY <3>1, TypedParts DEF Joins, RequestInv, LockInv
      <3>. QED BY <1>1, <1>4, <2>1, <2>3, <3>2 DEF Served, Answered, AsksAgain, Stands
    <2>. QED BY <2>1, <2>2, <2>3
  <1>. QED BY <1>2, <1>3, <1>6, <1>7 DEF EachIsServed

LEMMA StartServes ==
  ASSUME RequestInv, NEW n \in Node, Schedule(n) \/ RunScopedCacheIndexReap(n)
  PROVE  PausedAreExcused' /\ EachIsServed'
  <1>1. UNCHANGED <<req, paused, walked, excused, again, forced>>
    BY DEF Schedule, RunScopedCacheIndexReap, flags, ghosts
  <1>2. PICK i \in Jobs(n):
          /\ StartPass(i)
          /\ \/ i = <<n, "scheduled">> /\ run' = run
             \/ /\ i = <<n, "requested">>
                /\ run[n].pc = "claim" /\ run' = [run EXCEPT ![n].pc = "pass"]
    BY DEF Schedule, RunScopedCacheIndexReap, Jobs
  <1>3. PICK t \in FreshToken :
          pass' = [pass EXCEPT ![i] = [NoPass EXCEPT !.pc = "claim", !.token = t]]
    BY <1>2, StartTakesAFreshToken, JobsOf
  <1>4. /\ i \in Job /\ pass'[i].pc = "claim" /\ \A k \in Job \ {i}: pass'[k] = pass[k]
    BY <1>2, <1>3, JobsOf, TypedParts DEF NoPass, RequestInv, LockInv
  <1>5. \A m \in Node: <<m, "requested">> \in Job
    BY DEF Job
  <1>6. \A m \in Node: (<<m, "requested">> # i => pass'[<<m, "requested">>] = pass[<<m, "requested">>])
                       /\ (m # n => run'[m] = run[m] /\ <<m, "requested">> # i)
    <2>1. \A m \in Node: <<m, "requested">> # i => pass'[<<m, "requested">>] = pass[<<m, "requested">>]
      BY <1>4, <1>5
    <2>2. \A m \in Node \ {n}: run'[m] = run[m]
      BY <1>2, TypedParts DEF RequestInv, LockInv
    <2>3. \A m \in Node \ {n}: <<m, "requested">> # i
      BY <1>2
    <2>. QED BY <2>1, <2>2, <2>3
  <1>7. CASE i = <<n, "scheduled">>
    BY <1>1, <1>2, <1>6, <1>7, UnmovedServe, OneLoopServes, TypedParts
       DEF RequestInv, LockInv, PausedAreExcused, EachIsServed, Waiting
  <1>8. CASE i = <<n, "requested">>
    <2>1. run'[n].pc = "pass" /\ run'[n].forced = run[n].forced /\ run[n].pc = "claim"
      BY <1>2, <1>8, TypedParts DEF RequestInv, LockInv, Running
    <2>2. ASSUME NEW q \in Waiting PROVE Served(req[q].node, q)'
      <3>1. q \in Request /\ req[q].node \in Node /\ Served(req[q].node, q)
        BY TypedParts DEF RequestInv, LockInv, EachIsServed
      <3>2. CASE req[q].node # n
        BY <1>1, <1>6, <3>1, <3>2, UnmovedServe
      <3>3. CASE req[q].node = n
        BY <1>1, <1>4, <1>8, <2>1, <3>1, <3>3 DEF Served, Answered, AsksAgain, Stands
      <3>. QED BY <3>2, <3>3
    <2>3. Waiting' = Waiting
      BY <1>1 DEF Waiting
    <2>. QED BY <1>1, <2>2, <2>3 DEF RequestInv, PausedAreExcused, EachIsServed
  <1>. QED BY <1>2, <1>7, <1>8

LEMMA PassServes ==
  ASSUME RequestInv, NEW j \in Job, PassNext(j) \/ Renew(j)
  PROVE  PausedAreExcused' /\ EachIsServed'
  <1>. DEFINE n == j[1]
  <1>1. /\ UNCHANGED <<req, paused, again, forced>> /\ Waiting' = Waiting
        /\ walked \subseteq walked' /\ excused \subseteq excused'
    BY DEF PassNext, HoldCacheLock, ClaimFails, ReapScopedCacheIndex, ReleaseCacheLock, Renew,
       flags, ghosts, Waiting
  <1>2. PausedAreExcused'
    BY <1>1 DEF RequestInv, PausedAreExcused
  <1>3. ASSUME NEW pc, LeavePass(j, pc), pass[j].pc # "none", j[2] = "requested"
        PROVE  n \in Node /\ run[n].pc = "pass" /\ run'[n].pc = pc /\ run'[n].forced = run[n].forced
    BY <1>3, JobParts, TypedParts DEF LeavePass, RequestInv, LockInv, LoopsAwaitPasses, Running
  <1>4. \A m \in Node: (j # <<m, "requested">>) =>
          run'[m] = run[m] /\ pass'[<<m, "requested">>] = pass[<<m, "requested">>]
    <2>1. \A m \in Node: <<m, "requested">> \in Job
      BY DEF Job
    <2>2. \A k \in Job \ {j}: pass'[k] = pass[k]
      BY TypedParts DEF PassNext, HoldCacheLock, ClaimFails, ReapScopedCacheIndex, ReleaseCacheLock,
         Renew, LeavePass, RequestInv, LockInv
    <2>3. run' = run \/ (j[2] = "requested" /\ \A m \in Node \ {n}: run'[m] = run[m])
      BY TypedParts DEF PassNext, HoldCacheLock, ClaimFails, ReapScopedCacheIndex, ReleaseCacheLock,
         Renew, LeavePass, RequestInv, LockInv
    <2>. QED BY <2>1, <2>2, <2>3, JobParts
  <1>5. ASSUME NEW q \in Waiting PROVE Served(req[q].node, q)'
    <2>1. q \in Request /\ req[q].node \in Node /\ Served(req[q].node, q)
      BY TypedParts DEF RequestInv, LockInv, EachIsServed
    <2>2. CASE j # <<req[q].node, "requested">>
      BY <1>1, <1>4, <2>1, <2>2, UnmovedServe
    <2>3. CASE j = <<req[q].node, "requested">>
      <3>1. n = req[q].node /\ j[2] = "requested" /\ q \in WaitingAt(n)
        BY <2>3 DEF WaitingAt
      <3>2. CASE Answered(q) \/ AsksAgain(n, q)
        BY <1>1, <3>1, <3>2 DEF Served, Answered, AsksAgain
      <3>3. CASE HoldCacheLock(j) /\ Stands(n, q)
        <4>1. pass[j].pc = "claim" /\ run[n].pc = "pass" /\ (req[q].forced => run[n].forced)
          BY <2>1, <2>3, <3>1, <3>3 DEF HoldCacheLock, Stands, RequestInv, LockInv, LoopsAwaitPasses
        <4>2. CASE LeavePass(j, "poll")
          BY <1>1, <1>3, <3>1, <4>1, <4>2 DEF Served, Stands
        <4>3. CASE pass' = [pass EXCEPT ![j].pc = "walk", ![j].covered = Waiting] /\ UNCHANGED run
          <5>1. pass'[j].pc = "walk" /\ pass'[j].covered = Waiting
            BY <4>3, TypedParts DEF RequestInv, LockInv, Passing
          <5>. QED BY <1>1, <2>3, <3>1, <4>1, <4>3, <5>1 DEF Served, Stands
        <4>. QED BY <3>3, <4>2, <4>3 DEF HoldCacheLock
      <3>4. CASE ClaimFails(j)
        BY <3>1, <3>4 DEF ClaimFails, Served, Answered
      <3>5. CASE Renew(j) /\ Stands(n, q)
        <4>1. /\ pass'[j].pc = pass[j].pc /\ pass'[j].covered = pass[j].covered /\ run' = run
          BY <3>5, TypedParts DEF Renew, RequestInv, LockInv, Passing
        <4>. QED BY <1>1, <2>3, <3>1, <3>5, <4>1 DEF Served, Stands
      <3>6. CASE ReapScopedCacheIndex(j) /\ Stands(n, q)
        <4>1. pass[j].pc = "walk" /\ run[n].pc = "pass"
          BY <2>1, <2>3, <3>1, <3>6 DEF ReapScopedCacheIndex, RequestInv, LockInv, LoopsAwaitPasses
        <4>2. q \in pass[j].covered
          BY <2>3, <3>1, <3>6, <4>1 DEF Stands
        <4>. QED BY <3>1, <3>6, <4>2 DEF ReapScopedCacheIndex, Served, Answered
      <3>7. CASE ReleaseCacheLock(j)
        <4>1. pass[j].pc = "release" /\ run[n].pc = "pass"
          BY <2>1, <2>3, <3>1, <3>7 DEF ReleaseCacheLock, RequestInv, LockInv, LoopsAwaitPasses
        <4>2. ~Stands(n, q)
          BY <2>3, <3>1, <4>1 DEF Stands
        <4>. QED BY <2>1, <3>1, <3>2, <4>2 DEF Served
      <3>. QED BY <2>1, <3>1, <3>2, <3>3, <3>4, <3>5, <3>6, <3>7 DEF PassNext, Served
    <2>. QED BY <2>2, <2>3
  <1>. QED BY <1>1, <1>2, <1>5 DEF EachIsServed

LEMMA NextKeepsRequestInv == RequestInv /\ [Next]_vars => RequestInv'
  <1>. SUFFICES ASSUME RequestInv, [Next]_vars PROVE RequestInv'
    OBVIOUS
  <1>1. LockInv'
    BY NextKeepsLockInv DEF RequestInv
  <1>2. CASE \E n \in Node: Ask(n)
    BY <1>1, <1>2, RequestServes DEF Ask, RequestInv
  <1>3. CASE \E n \in Node: RunNext(n) \/ ResumeScopedCacheFills(n) \/ Schedule(n) \/ Crash(n)
    BY <1>1, <1>3, WaitDebounceServes, IndexKeysCompleteServes, PollLockServes, EndRoundServes,
       GoneServes, ResumeServes, StartServes DEF RunNext, RequestInv
  <1>4. CASE \E j \in Job: PassNext(j) \/ Renew(j)
    BY <1>1, <1>4, PassServes DEF RequestInv
  <1>5. CASE (\E t \in Token: ServeRenewal(t)) \/ ExpireLock \/ TakeMarkBack \/ UNCHANGED vars
    <2>1. UNCHANGED <<run, again, forced, paused, pass, req, walked, excused>>
      BY <1>5 DEF ServeRenewal, ExpireLock, TakeMarkBack, vars, flags, ghosts
    <2>2. PausedAreExcused' /\ EachIsServed'
      BY <2>1 DEF RequestInv, PausedAreExcused, EachIsServed, Waiting, Served, Answered, AsksAgain,
         Stands
    <2>. QED BY <1>1, <2>2 DEF RequestInv
  <1>. QED BY <1>2, <1>3, <1>4, <1>5 DEF Next

LEMMA InitRequestInv == Init => RequestInv
  BY InitLockInv DEF Init, RequestInv, PausedAreExcused, EachIsServed, Waiting, NotAsked

(* A loop that ends with no request since its last test has answered all its  *)
(* callers: each was followed by a whole walk of the index, wherever it ran,  *)
(* or had a reason not to be - at any number of processes and requests,       *)
(* forced, prompt or neither, with locks lost and processes dead.             *)
THEOREM RoundsAnswer == Spec => []RequestsBeforeTheTestAreAnswered
  <1>1. RequestInv => RequestsBeforeTheTestAreAnswered
    BY DEF RequestInv, EachIsServed, Served, AsksAgain, Stands, RequestsBeforeTheTestAreAnswered,
       WaitingAt
  <1>. QED BY <1>1, InitRequestInv, NextKeepsRequestInv, PTL DEF Spec
=============================================================================
