------------------------- MODULE ScopedCacheDeployProofs -------------------------
(* Proofs about ScopedCacheDeploy, for any fleet of processes and builds, any *)
(* index sets, pauses, deaths and reconnects.                                 *)
EXTENDS ScopedCacheDeploy, TLAPS

-----------------------------------------------------------------------------
(* What makes the properties inductive *)

(* A generation is seeded once and moved by each pause that opens; a pass     *)
(* reads one.                                                                 *)
TypeInv ==
  /\ TypeOK
  /\ generation <= opened + 1
  /\ \A p \in Process: pass[p].on => pass[p].generation > 0

(* The looks p counted under the pause it may end saw no other build, and one *)
(* that came since has not recorded itself: it would have replaced the pause. *)
SawNobodyElse(p) ==
  Up(p) /\ pause.build = BuildOf[p] /\ pause.number = proc[p].from
  /\ (proc[p].look = "end" \/ proc[p].looks > proc[p].missed)

EndersAreAlone ==
  \A p, q \in Process: SawNobodyElse(p) /\ q \in Others(p) => proc[q].until = Unknown

(* Once the pause is over, who recorded itself is of the recorded build.      *)
LatestBuild == IF recorded = None THEN Legacy ELSE recorded

OneBuildIsLeft ==
  pause.number = 0 =>
    \A p \in Process: Up(p) /\ proc[p].until # Unknown => BuildOf[p] = LatestBuild

OneBuildFills == \A p, q \in Process: Fills(p) /\ Fills(q) => BuildOf[p] = BuildOf[q]

(* A process that has not booted has looked at nothing, and a pause is of a   *)
(* recorded build.                                                            *)
FreshAreBlank ==
  /\ \A p \in Process: proc[p].up = "off" => proc[p].looks = 0
  /\ pause.number # 0 => recorded # None

Apart == EndersAreAlone /\ OneBuildIsLeft /\ OneBuildFills

ApartInv == TypeInv /\ FreshAreBlank /\ (elapsed = 0 /\ ~miscounted => Apart)

(* No marker speaks for the index while a pause runs. *)
PausesUnvouch == pause.number # 0 => marker < generation

(* What nothing names although it must *)
Unnamed == exists \ (named \cup outlived \cup straddled)

(* A pass that may still mark has everything unnamed ahead of it. *)
PassesOweTheUnnamed ==
  pause.number = 0 /\ ~legacySince =>
    \A p \in Process: pass[p].on /\ pass[p].generation = generation =>
      Unnamed \subseteq pass[p].owed \cup pass[p].found

NamedInv == TypeInv /\ PausesUnvouch /\ PassesOweTheUnnamed /\ VouchedSetsAreNamed

-----------------------------------------------------------------------------
(* The types of the parts *)

ProcState == [up : {"off", "up", "gone"}, until : 0 .. Unknown,
              looks : 0 .. QuietLooks, look : {"none", "collect", "end"},
              missed : 0 .. QuietLooks - 1, from : 0 .. opened]

PassState == [on : BOOLEAN, generation : 0 .. generation, owed : SUBSET exists, found : SUBSET Set]

LEMMA Bounds == /\ QuietLooks \in Nat /\ QuietLooks > 0
                /\ MaxPauses \in Nat /\ MaxReconnects \in Nat /\ Unknown = MaxPauses + 1
  BY QuietAssumption, MaxAssumption DEF QuietAssumption, MaxAssumption, Unknown

LEMMA Typed ==
  ASSUME TypeInv
  PROVE  /\ proc \in [Process -> ProcState] /\ pass \in [Process -> PassState]
         /\ pause.number \in {0} \cup elapsed + 1 .. opened
         /\ pause.build = IF pause.number = 0 THEN None ELSE recorded
         /\ pause = [build |-> pause.build, number |-> pause.number]
         /\ opened \in 0 .. MaxPauses /\ elapsed \in 0 .. opened
         /\ generation \in 0 .. opened + 1 /\ marker \in 0 .. generation
         /\ recorded \in Build \cup {None} /\ watch \in Process \cup {None}
         /\ exists \subseteq Set /\ named \subseteq Set /\ outlived \cup straddled \subseteq exists
         /\ \A p \in Process: /\ pass[p].on \/ proc[p].look # "none" => Up(p)
                              /\ pass[p].on => pass[p].generation > 0
  BY Bounds DEF TypeInv, TypeOK, ProcState, PassState

(* A step that leaves redis, the index and the reaps to what they were, but   *)
(* for one process.                                                           *)
LEMMA ProcKeepsTypes ==
  ASSUME TypeInv, NEW p \in Process, NEW state \in ProcState, proc' = [proc EXCEPT ![p] = state],
         pass[p].on \/ state.look # "none" => state.up = "up",
         UNCHANGED <<recorded, generation, marker, pause, index, outlived, straddled, pass, clock>>,
         watch' \in Process \cup {None}, miscounted' \in BOOLEAN, legacySince' \in BOOLEAN
  PROVE  TypeInv'
  BY Typed DEF TypeInv, TypeOK, ProcState, PassState, Up, index, clock

LEMMA ProcTypes ==
  ASSUME TypeInv, NEW p \in Process,
         Boot(p) \/ WatchFillPause(p) \/ OnlyThisBuildAnswers(p) \/ NoQuietLook(p) \/ Lapse(p)
  PROVE  TypeInv'
  <1>1. /\ proc[p] \in ProcState /\ proc \in [Process -> ProcState]
        /\ (pass[p].on \/ proc[p].look # "none" => proc[p].up = "up")
        /\ miscounted \in BOOLEAN /\ legacySince \in BOOLEAN
    BY Typed DEF Up, TypeInv, TypeOK
  <1>2. pause.number \in 0 .. opened /\ pause.number \in 0 .. Unknown /\ 0 \in 0 .. Unknown
        /\ Unknown \in 0 .. Unknown /\ 0 \in 0 .. QuietLooks
    BY Typed, Bounds
  <1>3. CASE Boot(p)
    <2>. DEFINE booted(until) == [proc[p] EXCEPT !.up = "up", !.until = until]
    <2>1. \A u \in 0 .. Unknown:
            booted(u) \in ProcState /\ booted(u).up = "up" /\ booted(u).look = proc[p].look
      BY <1>1 DEF ProcState
    <2>2. proc' = [proc EXCEPT ![p] = booted(0)] \/ proc' = [proc EXCEPT ![p] = booted(Unknown)]
      BY <1>3 DEF Boot
    <2>. HIDE DEF booted
    <2>3. /\ UNCHANGED <<shared, index, outlived, straddled, miscounted, pass, clock>>
          /\ legacySince' \in BOOLEAN
      BY <1>1, <1>3 DEF Boot
    <2>. QED BY <1>1, <1>2, <2>1, <2>2, <2>3, ProcKeepsTypes, Typed DEF shared
  <1>4. CASE WatchFillPause(p)
    <2>. DEFINE resumed == [proc[p] EXCEPT !.until = 0, !.look = "none"]
                looking == [proc[p] EXCEPT !.until = pause.number, !.look = "collect"]
                waiting == [proc[p] EXCEPT !.until = pause.number, !.looks = 0]
    <2>1. /\ resumed \in ProcState /\ looking \in ProcState /\ waiting \in ProcState
          /\ resumed.up = proc[p].up /\ looking.up = proc[p].up /\ waiting.up = proc[p].up
      <3>1. resumed \in ProcState /\ resumed.up = proc[p].up
        BY <1>1, <1>2 DEF ProcState
      <3>2. looking \in ProcState /\ looking.up = proc[p].up
        BY <1>1, <1>2 DEF ProcState
      <3>3. waiting \in ProcState /\ waiting.up = proc[p].up
        BY <1>1, <1>2 DEF ProcState
      <3>. QED BY <3>1, <3>2, <3>3
    <2>2. \/ proc' = [proc EXCEPT ![p] = resumed]
          \/ proc' = [proc EXCEPT ![p] = looking]
          \/ proc' = [proc EXCEPT ![p] = waiting]
      BY <1>4 DEF WatchFillPause, ResumeScopedCacheFills
    <2>. HIDE DEF resumed, looking, waiting
    <2>3. proc[p].up = "up" /\ watch' \in Process \cup {None}
      BY <1>4, Typed DEF WatchFillPause, Held, Up
    <2>. QED BY <1>1, <1>4, <2>1, <2>2, <2>3, ProcKeepsTypes DEF WatchFillPause, ghosts
  <1>5. CASE OnlyThisBuildAnswers(p)
    <2>1. PICK looks \in 0 .. QuietLooks, missed \in 0 .. QuietLooks - 1, from \in 0 .. opened,
               look \in {"none", "end"}:
            proc' = [proc EXCEPT ![p] =
                      [proc[p] EXCEPT !.looks = looks, !.look = look, !.missed = missed,
                                      !.from = from]]
      <3>. DEFINE missed == IF Others(p) = {} THEN 0
                            ELSE IF proc[p].looks = 0 THEN 1 ELSE proc[p].missed + 1
                  looks == IF proc[p].looks + 1 > QuietLooks THEN QuietLooks ELSE proc[p].looks + 1
                  from == IF proc[p].looks = 0 THEN pause.number ELSE proc[p].from
                  look == IF proc[p].looks + 1 >= QuietLooks THEN "end" ELSE "none"
      <3>1. proc[p].looks \in 0 .. QuietLooks /\ proc[p].missed \in 0 .. QuietLooks - 1
            /\ proc[p].from \in 0 .. opened
        BY <1>1 DEF ProcState
      <3>2. missed < QuietLooks
        BY <1>5 DEF OnlyThisBuildAnswers
      <3>3. missed \in 0 .. QuietLooks - 1
        BY <3>1, <3>2, Bounds
      <3>4. looks \in 0 .. QuietLooks /\ from \in 0 .. opened
        BY <1>2, <3>1, Bounds
      <3>5. proc' = [proc EXCEPT ![p] =
                      [proc[p] EXCEPT !.looks = looks, !.look = look, !.missed = missed,
                                      !.from = from]]
        BY <1>5 DEF OnlyThisBuildAnswers
      <3>. HIDE DEF missed, looks, from, look
      <3>6. look \in {"none", "end"}
        BY DEF look
      <3>. QED BY <3>3, <3>4, <3>5, <3>6
    <2>. DEFINE state == [proc[p] EXCEPT !.looks = looks, !.look = look, !.missed = missed,
                                         !.from = from]
    <2>2. state \in ProcState /\ state.up = proc[p].up /\ proc[p].up = "up"
      BY <1>1, <1>5 DEF ProcState, OnlyThisBuildAnswers, Up
    <2>. HIDE DEF state
    <2>3. proc' = [proc EXCEPT ![p] = state]
      BY <2>1 DEF state
    <2>4. /\ UNCHANGED <<recorded, generation, marker, pause, watch, index, pass, clock>>
          /\ UNCHANGED <<outlived, straddled, miscounted, legacySince>>
      BY <1>5 DEF OnlyThisBuildAnswers, ghosts, shared
    <2>. QED BY <1>1, <2>2, <2>3, <2>4, ProcKeepsTypes, Typed
  <1>6. CASE NoQuietLook(p)
    <2>. DEFINE state == [proc[p] EXCEPT !.looks = 0, !.look = "none"]
    <2>1. state \in ProcState /\ state.up = proc[p].up /\ proc' = [proc EXCEPT ![p] = state]
      BY <1>1, <1>6, Bounds DEF ProcState, NoQuietLook
    <2>. HIDE DEF state
    <2>2. /\ UNCHANGED <<recorded, generation, marker, pause, watch, index, pass, clock>>
          /\ UNCHANGED <<outlived, straddled, miscounted, legacySince>> /\ proc[p].up = "up"
      BY <1>6 DEF NoQuietLook, ghosts, shared, Up
    <2>. QED BY <1>1, <2>1, <2>2, ProcKeepsTypes, Typed
  <1>7. CASE Lapse(p)
    <2>. DEFINE state == [proc[p] EXCEPT !.until = 0, !.look = "none"]
    <2>1. state \in ProcState /\ state.up = proc[p].up /\ proc' = [proc EXCEPT ![p] = state]
      BY <1>1, <1>2, <1>7, Bounds DEF ProcState, Lapse, ResumeScopedCacheFills
    <2>. HIDE DEF state
    <2>. QED BY <1>1, <1>7, <2>1, ProcKeepsTypes, Typed DEF Lapse, ghosts, shared, Held, Up
  <1>. QED BY <1>3, <1>4, <1>5, <1>6, <1>7

(* What recording a build does, whoever hears the answer *)
LEMMA Recording ==
  ASSUME TypeInv, NEW p \in Process, FirstReady(p) \/ Reconnect(p)
  PROVE  /\ Up(p)
         /\ \/ /\ recorded = BuildOf[p]
               /\ UNCHANGED <<recorded, generation, pause, opened, legacySince>>
            \/ /\ recorded # BuildOf[p] /\ opened < MaxPauses
               /\ recorded' = BuildOf[p] /\ generation' = generation + 1 /\ opened' = opened + 1
               /\ pause' = [build |-> BuildOf[p], number |-> opened + 1] /\ legacySince' = FALSE
         /\ \/ proc' = [proc EXCEPT ![p].until = pause'.number, ![p].looks = 0]
            \/ UNCHANGED proc
         /\ UNCHANGED <<marker, watch, exists, named, outlived, straddled, miscounted, pass, elapsed>>
         /\ reconnects' \in 0 .. MaxReconnects
  <1>1. reconnects' \in 0 .. MaxReconnects
    BY Bounds DEF TypeInv, TypeOK, FirstReady, Reconnect
  <1>. QED BY <1>1 DEF FirstReady, Reconnect, RecordScopedCacheBuild, RecordScript, Held, index

LEMMA RecordTypes ==
  ASSUME TypeInv, NEW p \in Process, FirstReady(p) \/ Reconnect(p)
  PROVE  TypeInv'
  <1>0. UNCHANGED elapsed
    BY Recording
  <1>1. /\ pause'.number \in {0} \cup elapsed' + 1 .. opened' /\ pause'.number <= opened'
        /\ pause'.build = IF pause'.number = 0 THEN None ELSE recorded'
        /\ pause' = [build |-> pause'.build, number |-> pause'.number]
        /\ opened' \in 0 .. MaxPauses /\ opened <= opened' /\ elapsed' \in 0 .. opened'
        /\ generation' \in 0 .. opened' + 1 /\ generation <= generation' /\ opened' <= MaxPauses
        /\ recorded' \in Build \cup {None} /\ legacySince' \in BOOLEAN
    <2>1. BuildOf[p] \in Build
      BY BuildAssumption DEF BuildAssumption
    <2>2. CASE UNCHANGED <<recorded, generation, pause, opened, legacySince>>
      <3>1. legacySince \in BOOLEAN /\ pause'.number = pause.number /\ pause'.build = pause.build
        BY <2>2 DEF TypeInv, TypeOK
      <3>. QED BY <1>0, <2>2, <3>1, Typed, Bounds
    <2>3. CASE /\ recorded # BuildOf[p] /\ opened < MaxPauses
               /\ recorded' = BuildOf[p] /\ generation' = generation + 1 /\ opened' = opened + 1
               /\ pause' = [build |-> BuildOf[p], number |-> opened + 1] /\ legacySince' = FALSE
      <3>1. pause'.number = opened' /\ pause'.build = recorded' /\ opened' = opened + 1
            /\ pause' = [build |-> pause'.build, number |-> pause'.number]
        BY <2>3
      <3>2. opened \in Nat /\ elapsed \in 0 .. opened /\ generation \in 0 .. opened + 1
            /\ opened < MaxPauses
        BY <2>3, Typed
      <3>3. /\ pause'.number \in {0} \cup elapsed' + 1 .. opened' /\ pause'.number <= opened'
            /\ pause'.number # 0
            /\ opened' \in 0 .. MaxPauses /\ opened <= opened' /\ elapsed' \in 0 .. opened'
        BY <1>0, <3>1, <3>2, Bounds
      <3>4. /\ generation' = generation + 1 /\ recorded' = BuildOf[p] /\ legacySince' = FALSE
        BY <2>3
      <3>5. generation' \in 0 .. opened' + 1 /\ generation <= generation' /\ opened' <= MaxPauses
        BY <3>1, <3>2, <3>3, <3>4, Bounds
      <3>. QED BY <2>1, <3>1, <3>3, <3>4, <3>5
    <2>. QED BY <2>2, <2>3, Recording
  <1>2. /\ UNCHANGED <<marker, watch, exists, named, outlived, straddled, miscounted, pass, elapsed>>
        /\ reconnects' \in 0 .. MaxReconnects
    BY Recording
  <1>3. /\ proc' \in [Process -> ProcState']
        /\ \A q \in Process: proc'[q].up = proc[q].up /\ proc'[q].look = proc[q].look
    <2>. DEFINE state == [proc[p] EXCEPT !.until = pause'.number, !.looks = 0]
    <2>1. ProcState \subseteq ProcState'
      BY <1>1, Typed, Bounds DEF ProcState
    <2>2. pause'.number \in 0 .. Unknown /\ 0 \in 0 .. QuietLooks
      BY <1>1, <1>2, Typed, Bounds
    <2>3. state \in ProcState /\ state.up = proc[p].up /\ state.look = proc[p].look
      BY <2>2, Typed DEF ProcState
    <2>4. proc' = [proc EXCEPT ![p] = state] \/ proc' = proc
      BY Recording
    <2>. HIDE DEF state
    <2>. QED BY <2>1, <2>3, <2>4, Typed
  <1>4. pass' \in [Process -> PassState']
    <2>1. PassState \subseteq PassState'
      BY <1>1, <1>2, Typed DEF PassState
    <2>. QED BY <1>2, <2>1, Typed
  <1>5. \A q \in Process: /\ pass'[q].on \/ proc'[q].look # "none" => proc'[q].up = "up"
                          /\ pass'[q].on => pass'[q].generation > 0
    BY <1>2, <1>3, Typed DEF Up
  <1>6. /\ watch' \in Process \cup {None} /\ marker' \in 0 .. generation'
        /\ exists' \subseteq Set /\ named' \subseteq Set /\ outlived' \cup straddled' \subseteq exists'
        /\ miscounted' \in BOOLEAN
    BY <1>1, <1>2, Typed DEF TypeInv, TypeOK
  <1>. QED BY <1>1, <1>2, <1>3, <1>4, <1>5, <1>6, Bounds
       DEF TypeInv, TypeOK, ProcState, PassState, Up

(* A pause that closes takes nothing from the index. *)
LEMMA CloseTypes ==
  ASSUME TypeInv, ClosePause
  PROVE  /\ pause'.number = 0 /\ pause'.build = None
         /\ pause' = [build |-> pause'.build, number |-> pause'.number]
         /\ straddled' \subseteq exists /\ straddled \subseteq straddled'
  BY Typed DEF ClosePause, NoPause

LEMMA EndTypes ==
  ASSUME TypeInv, NEW p \in Process, EndFillPause(p)
  PROVE  TypeInv'
  <1>. DEFINE resumed == [proc[p] EXCEPT !.until = 0, !.look = "none"]
              refused == [proc[p] EXCEPT !.look = "none"]
  <1>1. proc[p] \in ProcState /\ proc[p].up = "up" /\ 0 \in 0 .. Unknown
    BY Typed, Bounds DEF EndFillPause, Up
  <1>2. /\ resumed \in ProcState /\ resumed.up = "up" /\ resumed.look = "none"
        /\ refused \in ProcState /\ refused.up = "up" /\ refused.look = "none"
    <2>1. resumed \in ProcState /\ resumed.up = "up" /\ resumed.look = "none"
      BY <1>1 DEF ProcState
    <2>2. refused \in ProcState /\ refused.up = "up" /\ refused.look = "none"
      BY <1>1 DEF ProcState
    <2>. QED BY <2>1, <2>2
  <1>3. proc' = [proc EXCEPT ![p] = resumed] \/ proc' = [proc EXCEPT ![p] = refused]
    BY DEF EndFillPause, ResumeScopedCacheFills
  <1>. HIDE DEF resumed, refused
  <1>4. /\ proc' \in [Process -> ProcState]
        /\ \A q \in Process: pass[q].on \/ proc'[q].look # "none" => proc'[q].up = "up"
    BY <1>1, <1>2, <1>3, Typed DEF Up
  <1>5. /\ UNCHANGED <<recorded, generation, marker, exists, named, outlived, legacySince, pass>>
        /\ UNCHANGED <<opened, elapsed, reconnects>>
    BY DEF EndFillPause, index, clock
  <1>6. CASE pause.build # BuildOf[p]
    <2>1. UNCHANGED <<pause, watch, straddled, miscounted>>
      BY <1>6 DEF EndFillPause
    <2>. QED BY <1>4, <1>5, <2>1 DEF TypeInv, TypeOK, ProcState, Up
  <1>7. CASE pause.build = BuildOf[p]
    <2>1. ClosePause /\ watch' = None /\ miscounted' \in BOOLEAN
      BY <1>7 DEF EndFillPause, TypeInv, TypeOK
    <2>. QED BY <1>4, <1>5, <2>1, CloseTypes, Typed DEF TypeInv, TypeOK, ProcState, Up
  <1>. QED BY <1>6, <1>7

LEMMA GoneTypes ==
  ASSUME TypeInv, NEW p \in Process, Die(p)
  PROVE  TypeInv'
  <1>. DEFINE gone == [NotUp EXCEPT !.up = "gone"]
  <1>1. gone \in ProcState /\ gone.up = "gone" /\ gone.look = "none"
    <2>1. /\ 0 \in 0 .. QuietLooks /\ 0 \in 0 .. QuietLooks - 1 /\ 0 \in 0 .. opened
          /\ Unknown \in 0 .. Unknown
      BY Typed, Bounds
    <2>. QED BY <2>1 DEF ProcState, NotUp
  <1>2. NoPass \in PassState /\ NoPass.on = FALSE
    <2>1. 0 \in 0 .. generation
      BY Typed
    <2>. QED BY <2>1 DEF NoPass, PassState
  <1>3. proc' = [proc EXCEPT ![p] = gone] /\ pass' = [pass EXCEPT ![p] = NoPass]
    BY DEF Die
  <1>. HIDE DEF gone
  <1>4. /\ proc' \in [Process -> ProcState] /\ pass' \in [Process -> PassState]
        /\ \A q \in Process: /\ pass'[q].on \/ proc'[q].look # "none" => proc'[q].up = "up"
                             /\ pass'[q].on => pass'[q].generation > 0
    BY <1>1, <1>2, <1>3, Typed DEF Up
  <1>5. /\ UNCHANGED <<recorded, generation, marker, pause, watch, exists, named>>
        /\ UNCHANGED <<outlived, straddled, miscounted, legacySince, opened, elapsed, reconnects>>
    BY DEF Die, shared, index, ghosts, clock
  <1>. QED BY <1>4, <1>5 DEF TypeInv, TypeOK, ProcState, PassState, Up

LEMMA ClockTypes ==
  ASSUME TypeInv, ExpireWatch \/ ReachCeiling
  PROVE  TypeInv'
  <1>1. CASE ExpireWatch
    BY <1>1 DEF ExpireWatch, TypeInv, TypeOK, index, ghosts, clock, Up
  <1>2. CASE ReachCeiling
    <2>1. /\ UNCHANGED <<recorded, generation, marker, watch, exists, named, outlived, miscounted>>
          /\ UNCHANGED <<legacySince, proc, pass, opened, reconnects>>
          /\ elapsed' = elapsed + 1 /\ elapsed < opened
      BY <1>2 DEF ReachCeiling, index
    <2>2. elapsed' \in 0 .. opened'
      BY <2>1, Typed
    <2>3. /\ pause'.number \in {0} \cup elapsed' + 1 .. opened'
          /\ pause'.build = IF pause'.number = 0 THEN None ELSE recorded'
          /\ pause' = [build |-> pause'.build, number |-> pause'.number]
          /\ outlived' \cup straddled' \subseteq exists'
      <3>1. CASE pause.number = elapsed + 1
        BY <1>2, <2>1, <3>1, CloseTypes, Typed DEF ReachCeiling
      <3>2. CASE pause.number # elapsed + 1
        <4>1. UNCHANGED <<pause, straddled>>
          BY <1>2, <3>2 DEF ReachCeiling
        <4>. QED BY <2>1, <3>2, <4>1, Typed
      <3>. QED BY <3>1, <3>2
    <2>4. recorded' \in Build \cup {None}
      BY <2>1, Typed
    <2>. QED BY <2>1, <2>2, <2>3, <2>4 DEF TypeInv, TypeOK, Up
  <1>. QED BY <1>1, <1>2

(* A step of the index and of the reaps: the pause and the processes stand.   *)
LEMMA IndexKeepsTypes ==
  ASSUME TypeInv, UNCHANGED <<recorded, pause, watch, proc, clock, miscounted, legacySince>>,
         generation' \in 0 .. opened + 1, generation <= generation', marker' \in 0 .. generation',
         exists' \subseteq Set, named' \subseteq Set, outlived' \cup straddled' \subseteq exists',
         pass' \in [Process -> PassState'],
         \A p \in Process: pass'[p].on => Up(p) /\ pass'[p].generation > 0
  PROVE  TypeInv'
  <1>1. UNCHANGED <<opened, elapsed, reconnects>> /\ opened' + 1 <= MaxPauses + 1
    BY Typed, Bounds DEF clock
  <1>. QED BY <1>1, Typed, Bounds DEF TypeInv, TypeOK, ProcState, PassState, Up

LEMMA FillTypes ==
  ASSUME TypeInv, NEW p \in Process, NEW s \in Set, IndexScopedCacheEntry(p, s)
  PROVE  TypeInv'
  <1>1. /\ exists' = exists \cup {s} /\ named' \subseteq named \cup {s}
        /\ outlived' \subseteq outlived \cup {s} /\ straddled' = straddled
        /\ UNCHANGED <<recorded, generation, marker, pause, watch, proc, pass, clock>>
        /\ UNCHANGED <<miscounted, legacySince>>
    BY DEF IndexScopedCacheEntry, shared
  <1>2. PassState \subseteq PassState'
    BY <1>1 DEF PassState
  <1>. QED BY <1>1, <1>2, IndexKeepsTypes, Typed

LEMMA RemovalTypes ==
  ASSUME TypeInv, NEW sets \in SUBSET Set, Gone(sets), named' \subseteq named
  PROVE  TypeInv'
  <1>1. PICK empty \in {{}, sets}:
          pass' = [p \in Process |-> [pass[p] EXCEPT !.owed = @ \ sets, !.found = @ \ empty]]
    BY DEF Gone
  <1>2. /\ exists' = exists \ sets /\ outlived' = outlived \ sets /\ straddled' = straddled \ sets
        /\ UNCHANGED <<recorded, generation, marker, pause, watch, proc, clock>>
        /\ UNCHANGED <<miscounted, legacySince>>
    BY DEF Gone, shared
  <1>3. ASSUME NEW p \in Process
        PROVE  /\ [pass[p] EXCEPT !.owed = @ \ sets, !.found = @ \ empty] \in PassState'
               /\ pass'[p].on = pass[p].on /\ pass'[p].generation = pass[p].generation
    <2>1. pass[p] \in PassState
      BY Typed
    <2>2. pass[p].owed \ sets \in SUBSET (exists \ sets) /\ pass[p].found \ empty \in SUBSET Set
      BY <2>1 DEF PassState
    <2>3. [pass[p] EXCEPT !.owed = @ \ sets, !.found = @ \ empty]
            \in [on : BOOLEAN, generation : 0 .. generation, owed : SUBSET (exists \ sets),
                 found : SUBSET Set]
      BY <2>1, <2>2 DEF PassState
    <2>4. PassState' = [on : BOOLEAN, generation : 0 .. generation, owed : SUBSET (exists \ sets),
                        found : SUBSET Set]
      BY <1>2 DEF PassState
    <2>5. /\ pass'[p].on = pass[p].on /\ pass'[p].generation = pass[p].generation
      BY <1>1, <2>1 DEF PassState
    <2>. QED BY <2>3, <2>4, <2>5
  <1>4. pass' \in [Process -> PassState']
    BY <1>1, <1>3
  <1>5. \A p \in Process: pass'[p].on => Up(p) /\ pass'[p].generation > 0
    BY <1>3, Typed
  <1>6. /\ exists' \subseteq Set /\ named' \subseteq Set /\ outlived' \cup straddled' \subseteq exists'
        /\ generation' \in 0 .. opened + 1 /\ generation <= generation' /\ marker' \in 0 .. generation'
    BY <1>2, Typed
  <1>. QED BY <1>2, <1>4, <1>5, <1>6, IndexKeepsTypes

LEMMA IndexTypes ==
  ASSUME TypeInv, (\E s \in Set: IndexNext(s)) \/ FlushDb
  PROVE  TypeInv'
  <1>1. CASE \E p \in Process, s \in Set: IndexScopedCacheEntry(p, s)
    BY <1>1, FillTypes
  <1>2. CASE \E s \in Set: Unlink(s) \/ SweepMove(s)
    BY <1>2, RemovalTypes DEF Unlink, SweepMove
  <1>3. CASE FlushDb
    BY <1>3, RemovalTypes DEF FlushDb
  <1>4. CASE \E s \in Set: Prune(s)
    <2>1. /\ named' \subseteq named
          /\ UNCHANGED <<recorded, generation, marker, pause, watch, proc, pass, exists, clock>>
          /\ UNCHANGED <<outlived, straddled, miscounted, legacySince>>
      BY <1>4 DEF Prune, shared, ghosts
    <2>2. PassState \subseteq PassState'
      BY <2>1 DEF PassState
    <2>. QED BY <2>1, <2>2, IndexKeepsTypes, Typed
  <1>. QED BY <1>1, <1>2, <1>3, <1>4 DEF IndexNext

(* What a step of its reap makes of the pass of p *)
ReapMoves(p) ==
  \E state \in PassState': /\ pass' = [pass EXCEPT ![p] = state]
                           /\ state.on => Up(p) /\ state.generation > 0

LEMMA ReapTypes ==
  ASSUME TypeInv, NEW p \in Process, ReapNext(p)
  PROVE  TypeInv'
  <1>1. /\ UNCHANGED <<recorded, pause, watch, proc, clock, exists, miscounted, legacySince>>
        /\ named \subseteq named' /\ named' \subseteq named \cup exists
        /\ outlived' \subseteq outlived /\ straddled' \subseteq straddled
    BY DEF ReapNext, BeginReap, MarkComplete, ReapFails, ScanFinds, RegisterCollectionIndexKeys,
       shared, index, ghosts
  <1>2. /\ generation' \in 0 .. opened + 1 /\ generation <= generation' /\ marker' \in 0 .. generation'
    <2>1. CASE BeginReap(p)
      BY <2>1, Typed DEF BeginReap
    <2>2. CASE UNCHANGED <<generation, marker>>
      BY <2>2, Typed
    <2>3. CASE MarkComplete(p)
      <3>1. pass[p].generation \in 0 .. generation
        BY Typed DEF PassState
      <3>. QED BY <2>3, <3>1, Typed DEF MarkComplete
    <2>. QED BY <2>1, <2>2, <2>3 DEF ReapNext, ReapFails, ScanFinds, RegisterCollectionIndexKeys, shared
  <1>3. ReapMoves(p)
    <2>1. NoPass \in PassState' /\ NoPass.on = FALSE
      BY <1>2, Typed DEF PassState, NoPass
    <2>2. CASE BeginReap(p)
      <3>. DEFINE begun == [on |-> TRUE, generation |-> generation', owed |-> exists, found |-> {}]
      <3>1. generation' \in 0 .. generation' /\ generation' > 0
        BY <1>2, <2>2, Typed DEF BeginReap
      <3>2. begun \in PassState' /\ begun.generation > 0
        BY <1>1, <3>1 DEF PassState
      <3>. QED BY <2>2, <3>2 DEF BeginReap, Fills, ReapMoves
    <2>3. CASE MarkComplete(p) \/ ReapFails(p)
      BY <2>1, <2>3 DEF MarkComplete, ReapFails, ReapMoves
    <2>4. ASSUME NEW s \in Set, ScanFinds(p, s)
         PROVE  ReapMoves(p)
      <3>. DEFINE next == [pass[p] EXCEPT !.owed = @ \ {s}, !.found = @ \cup {s}]
      <3>1. next \in PassState' /\ next.on = pass[p].on /\ next.generation = pass[p].generation
        BY <1>1, <2>4, Typed DEF PassState, ScanFinds, shared
      <3>. QED BY <2>4, <3>1, Typed DEF ScanFinds, ReapMoves
    <2>5. ASSUME NEW s \in Set, RegisterCollectionIndexKeys(p, s)
         PROVE  ReapMoves(p)
      <3>. DEFINE next == [pass[p] EXCEPT !.found = @ \ {s}]
      <3>1. next \in PassState' /\ next.on = pass[p].on /\ next.generation = pass[p].generation
        BY <1>1, <2>5, Typed DEF PassState, RegisterCollectionIndexKeys, shared
      <3>. QED BY <2>5, <3>1, Typed DEF RegisterCollectionIndexKeys, ReapMoves
    <2>6. CASE \E s \in Set: ScanFinds(p, s) \/ RegisterCollectionIndexKeys(p, s)
      <3>1. PICK s \in Set: ScanFinds(p, s) \/ RegisterCollectionIndexKeys(p, s)
        BY <2>6
      <3>2. CASE ScanFinds(p, s)
        BY <2>4, <3>2
      <3>3. CASE RegisterCollectionIndexKeys(p, s)
        BY <2>5, <3>3
      <3>. QED BY <3>1, <3>2, <3>3
    <2>. QED BY <2>2, <2>3, <2>6 DEF ReapNext
  <1>4. PassState \subseteq PassState'
    BY <1>1, <1>2, Typed DEF PassState
  <1>5. pass' \in [Process -> PassState']
        /\ \A q \in Process: pass'[q].on => Up(q) /\ pass'[q].generation > 0
    BY <1>3, <1>4, Typed DEF ReapMoves
  <1>6. exists' \subseteq Set /\ named' \subseteq Set /\ outlived' \cup straddled' \subseteq exists'
    BY <1>1, Typed
  <1>. QED BY <1>1, <1>2, <1>5, <1>6, IndexKeepsTypes

LEMMA NextTypes == TypeInv /\ [Next]_vars => TypeInv'
  <1>. SUFFICES ASSUME TypeInv, [Next]_vars PROVE TypeInv'
    OBVIOUS
  <1>1. ASSUME NEW p \in Process, PauseNext(p) PROVE TypeInv'
    BY <1>1, ProcTypes, RecordTypes, EndTypes, GoneTypes DEF PauseNext
  <1>2. ASSUME NEW p \in Process, ReapNext(p) PROVE TypeInv'
    BY <1>2, ReapTypes
  <1>3. CASE (\E s \in Set: IndexNext(s)) \/ FlushDb
    BY <1>3, IndexTypes
  <1>4. CASE ExpireWatch \/ ReachCeiling
    BY <1>4, ClockTypes
  <1>5. CASE UNCHANGED vars
    BY <1>5 DEF TypeInv, TypeOK, vars, shared, index, ghosts, clock, Up
  <1>. QED BY <1>1, <1>2, <1>3, <1>4, <1>5 DEF Next

LEMMA InitTypes == Init => TypeInv
  <1>. SUFFICES ASSUME Init PROVE TypeInv
    OBVIOUS
  <1>1. /\ 0 \in 0 .. QuietLooks /\ 0 \in 0 .. QuietLooks - 1 /\ 0 \in 0 .. opened
        /\ Unknown \in 0 .. Unknown /\ 0 \in 0 .. generation /\ 0 \in 0 .. MaxPauses
        /\ 0 \in 0 .. MaxPauses + 1 /\ 0 \in 0 .. MaxReconnects /\ 0 <= opened + 1
    BY Bounds DEF Init
  <1>2. NotUp \in ProcState /\ NotUp.look = "none"
    BY <1>1 DEF ProcState, NotUp
  <1>3. NoPass \in PassState /\ NoPass.on = FALSE
    BY <1>1 DEF PassState, NoPass
  <1>4. proc \in [Process -> ProcState] /\ pass \in [Process -> PassState]
    BY <1>2, <1>3 DEF Init
  <1>5. \A p \in Process: ~pass[p].on /\ proc[p].look = "none"
    BY <1>2, <1>3 DEF Init
  <1>6. /\ recorded = None /\ generation = 0 /\ marker = 0 /\ pause = NoPause /\ watch = None
        /\ exists = {} /\ named = {} /\ outlived = {} /\ straddled = {}
        /\ miscounted = FALSE /\ legacySince = FALSE
        /\ opened = 0 /\ elapsed = 0 /\ reconnects = 0
    BY DEF Init
  <1>. QED BY <1>1, <1>4, <1>5, <1>6 DEF TypeInv, TypeOK, ProcState, PassState, NoPause

(* TypeOK: a pause that runs is the recorded build's and not yet at its       *)
(* ceiling, and only a process that is up looks or reaps.                     *)
THEOREM TypeCorrect == Spec => []TypeOK
  <1>1. TypeInv => TypeOK
    BY DEF TypeInv
  <1>. QED BY <1>1, InitTypes, NextTypes, PTL DEF Spec

-----------------------------------------------------------------------------
(* What the marker vouches for *)

LEMMA NamedFacts ==
  ASSUME NamedInv
  PROVE  /\ TypeInv /\ (pause.number # 0 => marker < generation)
         /\ generation \in Nat /\ marker \in Nat /\ marker <= generation
         /\ (pause.number = 0 => pause = NoPause)
         /\ (pause.number = 0 /\ ~legacySince =>
               \A p \in Process: pass[p].on /\ pass[p].generation = generation =>
                 Unnamed \subseteq pass[p].owed \cup pass[p].found)
         /\ (marker # 0 /\ marker = generation /\ ~legacySince => Unnamed = {} /\ pause.number = 0)
  <1>1. TypeInv /\ (pause.number # 0 => marker < generation)
    BY DEF NamedInv, PausesUnvouch
  <1>2. generation \in Nat /\ marker \in Nat /\ marker <= generation
    BY <1>1, Typed, Bounds
  <1>3. pause.number = 0 => pause = NoPause
    BY <1>1, Typed DEF NoPause
  <1>4. marker # 0 /\ marker = generation /\ ~legacySince => Unnamed = {}
    BY DEF NamedInv, VouchedSetsAreNamed, Vouched, Unnamed
  <1>5. marker = generation => pause.number = 0
    BY <1>1, <1>2
  <1>. QED BY <1>1, <1>2, <1>3, <1>4, <1>5 DEF NamedInv, PassesOweTheUnnamed

(* A step under which nothing comes unnamed and no pass loses what it owes    *)
(* keeps the invariant.                                                       *)
LEMMA NothingComesUnnamed ==
  ASSUME NamedInv, TypeInv', UNCHANGED <<generation, marker, pause>>, ~legacySince' => ~legacySince,
         pause.number = 0 /\ ~legacySince' =>
           /\ Unnamed' \subseteq Unnamed
           /\ \A p \in Process: pass'[p].on =>
                \/ Unnamed' \subseteq pass'[p].owed \cup pass'[p].found
                \/ /\ pass[p].on /\ pass'[p].generation = pass[p].generation
                   /\ Unnamed' \cap (pass[p].owed \cup pass[p].found)
                        \subseteq pass'[p].owed \cup pass'[p].found
  PROVE  NamedInv'
  <1>1. PausesUnvouch'
    BY NamedFacts DEF PausesUnvouch
  <1>2. PassesOweTheUnnamed'
    <2>. SUFFICES ASSUME pause.number = 0, ~legacySince', NEW p \in Process, pass'[p].on,
                         pass'[p].generation = generation
                  PROVE  Unnamed' \subseteq pass'[p].owed \cup pass'[p].found
      BY DEF PassesOweTheUnnamed
    <2>. QED BY NamedFacts
  <1>3. VouchedSetsAreNamed'
    <2>. SUFFICES ASSUME marker # 0, marker = generation, ~legacySince' PROVE Unnamed' = {}
      BY DEF VouchedSetsAreNamed, Vouched, Unnamed
    <2>. QED BY NamedFacts
  <1>. QED BY <1>1, <1>2, <1>3 DEF NamedInv

(* A pause that opens moves the generation away from the marker; one that     *)
(* closes leaves a pass under way nothing unnamed.                            *)
LEMMA RecordNames ==
  ASSUME NamedInv, TypeInv', NEW p \in Process, FirstReady(p) \/ Reconnect(p)
  PROVE  NamedInv'
  <1>1. TypeInv
    BY DEF NamedInv
  <1>2. UNCHANGED <<marker, exists, named, outlived, straddled, pass>>
    BY <1>1, Recording
  <1>3. CASE UNCHANGED <<recorded, generation, pause, opened, legacySince>>
    BY <1>2, <1>3, NothingComesUnnamed DEF Unnamed
  <1>4. CASE /\ generation' = generation + 1 /\ opened' = opened + 1
             /\ pause' = [build |-> BuildOf[p], number |-> opened + 1]
    <2>1. marker' < generation' /\ pause'.number # 0 /\ marker' # generation'
      BY <1>1, <1>2, <1>4, NamedFacts, Typed
    <2>. QED BY <2>1 DEF NamedInv, PausesUnvouch, PassesOweTheUnnamed, VouchedSetsAreNamed, Vouched
  <1>. QED BY <1>1, <1>3, <1>4, Recording

LEMMA CloseNames ==
  ASSUME NamedInv, TypeInv', ClosePause, pause.number # 0,
         UNCHANGED <<generation, marker, exists, named, outlived, pass>>
  PROVE  NamedInv'
  <1>1. marker' < generation' /\ pause'.number = 0
    BY NamedFacts, CloseTypes
  <1>2. \A p \in Process: pass'[p].on => Unnamed' = {}
    BY DEF ClosePause, Unnamed
  <1>3. generation' \in Nat /\ marker' \in Nat
    BY NamedFacts
  <1>. QED BY <1>1, <1>2, <1>3 DEF NamedInv, PausesUnvouch, PassesOweTheUnnamed,
       VouchedSetsAreNamed, Vouched

LEMMA PauseNames ==
  ASSUME NamedInv, TypeInv', NEW p \in Process, PauseNext(p)
  PROVE  NamedInv'
  <1>0. TypeInv
    BY DEF NamedInv
  <1>1. CASE \/ Boot(p) \/ WatchFillPause(p) \/ OnlyThisBuildAnswers(p) \/ NoQuietLook(p)
             \/ Lapse(p)
    <2>1. /\ UNCHANGED <<generation, marker, pause, exists, named, outlived, straddled, pass>>
      BY <1>1 DEF Boot, WatchFillPause, OnlyThisBuildAnswers, NoQuietLook, Lapse, shared, index, ghosts
    <2>2. ~legacySince' => ~legacySince
      BY <1>1, Zenon DEF Boot, WatchFillPause, OnlyThisBuildAnswers, NoQuietLook, Lapse, ghosts
    <2>. QED BY <2>1, <2>2, NothingComesUnnamed DEF Unnamed
  <1>2. CASE Die(p)
    <2>1. /\ UNCHANGED <<generation, marker, pause, exists, named, outlived, straddled, legacySince>>
          /\ pass' = [pass EXCEPT ![p] = NoPass]
      BY <1>2 DEF Die, shared, index, ghosts
    <2>2. \A q \in Process: pass'[q].on => pass'[q] = pass[q]
      BY <1>0, <2>1, Typed DEF NoPass
    <2>. QED BY <2>1, <2>2, NothingComesUnnamed DEF Unnamed
  <1>3. CASE FirstReady(p) \/ Reconnect(p)
    BY <1>3, RecordNames
  <1>4. CASE EndFillPause(p)
    <2>1. /\ UNCHANGED <<generation, marker, exists, named, outlived, legacySince, pass>>
      BY <1>4 DEF EndFillPause, index
    <2>2. CASE pause.build # BuildOf[p]
      <3>1. UNCHANGED <<pause, straddled>>
        BY <1>4, <2>2 DEF EndFillPause
      <3>. QED BY <2>1, <3>1, NothingComesUnnamed DEF Unnamed
    <2>3. CASE pause.build = BuildOf[p]
      <3>1. pause.number # 0
        BY <1>0, <2>3, Typed, BuildAssumption DEF BuildAssumption
      <3>2. ClosePause
        BY <1>4, <2>3 DEF EndFillPause
      <3>. QED BY <2>1, <3>1, <3>2, CloseNames
    <2>. QED BY <2>2, <2>3
  <1>. QED BY <1>1, <1>2, <1>3, <1>4 DEF PauseNext

LEMMA ClockNames ==
  ASSUME NamedInv, TypeInv', ExpireWatch \/ ReachCeiling
  PROVE  NamedInv'
  <1>1. /\ UNCHANGED <<generation, marker, exists, named, outlived, legacySince, pass>>
    BY DEF ExpireWatch, ReachCeiling, index, ghosts
  <1>2. CASE ClosePause /\ pause.number = elapsed + 1
    <2>1. pause.number # 0
      BY <1>2, NamedFacts, Typed
    <2>. QED BY <1>1, <1>2, <2>1, CloseNames
  <1>3. CASE UNCHANGED <<pause, straddled>>
    BY <1>1, <1>3, NothingComesUnnamed DEF Unnamed
  <1>. QED BY <1>2, <1>3 DEF ExpireWatch, ReachCeiling, ghosts

LEMMA IndexNames ==
  ASSUME NamedInv, TypeInv', (\E s \in Set: IndexNext(s)) \/ FlushDb
  PROVE  NamedInv'
  <1>0. TypeInv
    BY DEF NamedInv
  <1>1. ASSUME NEW p \in Process, NEW s \in Set, IndexScopedCacheEntry(p, s)
        PROVE  NamedInv'
    <2>1. /\ UNCHANGED <<generation, marker, pause, straddled, legacySince, pass>>
          /\ exists' = exists \cup {s}
      BY <1>1 DEF IndexScopedCacheEntry, shared
    <2>2. pause.number = 0 /\ ~legacySince =>
            named' \cup outlived' = named \cup outlived \cup {s}
      BY <1>1, NamedFacts DEF IndexScopedCacheEntry
    <2>3. pause.number = 0 /\ ~legacySince => Unnamed' \subseteq Unnamed
      BY <2>1, <2>2 DEF Unnamed
    <2>. QED BY <2>1, <2>3, NothingComesUnnamed
  <1>2. ASSUME NEW sets \in SUBSET Set, Gone(sets), named' \subseteq named, named \ named' \subseteq sets
        PROVE  NamedInv'
    <2>1. /\ UNCHANGED <<generation, marker, pause, legacySince>>
          /\ exists' = exists \ sets /\ outlived' = outlived \ sets /\ straddled' = straddled \ sets
      BY <1>2 DEF Gone, shared
    <2>2. Unnamed' \subseteq Unnamed \ sets
      BY <1>2, <2>1 DEF Unnamed
    <2>3. ASSUME NEW p \in Process
          PROVE  /\ pass'[p].on = pass[p].on /\ pass'[p].generation = pass[p].generation
                 /\ pass[p].owed \ sets \subseteq pass'[p].owed
                 /\ pass[p].found \ sets \subseteq pass'[p].found
      <3>1. PICK empty \in {{}, sets}:
              pass' = [q \in Process |-> [pass[q] EXCEPT !.owed = @ \ sets, !.found = @ \ empty]]
        BY <1>2 DEF Gone
      <3>2. pass[p] \in PassState
        BY <1>0, Typed
      <3>3. pass'[p] = [pass[p] EXCEPT !.owed = @ \ sets, !.found = @ \ empty]
        BY <3>1
      <3>4. /\ pass'[p].on = pass[p].on /\ pass'[p].generation = pass[p].generation
            /\ pass'[p].owed = pass[p].owed \ sets /\ pass'[p].found = pass[p].found \ empty
        BY <3>2, <3>3 DEF PassState
      <3>. QED BY <3>1, <3>4
    <2>. QED BY <2>1, <2>2, <2>3, NothingComesUnnamed
  <1>3. ASSUME NEW s \in Set, Prune(s) PROVE NamedInv'
    <2>1. /\ UNCHANGED <<generation, marker, pause, exists, outlived, straddled, legacySince, pass>>
          /\ named' = named \ {s} /\ s \notin exists
      BY <1>3 DEF Prune, shared, ghosts
    <2>. QED BY <2>1, NothingComesUnnamed DEF Unnamed
  <1>4. CASE \E s \in Set: Unlink(s) \/ SweepMove(s)
    BY <1>2, <1>4 DEF Unlink, SweepMove
  <1>5. CASE FlushDb
    BY <1>0, <1>2, <1>5, Typed DEF FlushDb
  <1>. QED BY <1>1, <1>3, <1>4, <1>5 DEF IndexNext

LEMMA ReapNames ==
  ASSUME NamedInv, TypeInv', NEW p \in Process, ReapNext(p)
  PROVE  NamedInv'
  <1>0. TypeInv /\ pass \in [Process -> PassState] /\ exists \subseteq Set
        /\ outlived \cup straddled \subseteq exists
    BY Typed DEF NamedInv
  <1>1. CASE BeginReap(p)
    <2>1. /\ UNCHANGED <<marker, pause, exists, named, outlived, straddled, legacySince>>
          /\ generation' = IF generation = 0 THEN 1 ELSE generation
          /\ pass' = [pass EXCEPT ![p] =
               [on |-> TRUE, generation |-> generation', owed |-> exists, found |-> {}]]
      BY <1>1 DEF BeginReap, index, ghosts
    <2>2. Unnamed' = Unnamed /\ pass'[p].owed = exists /\ Unnamed \subseteq exists
          /\ \A q \in Process \ {p}: pass'[q] = pass[q]
      BY <1>0, <2>1 DEF Unnamed
    <2>3. CASE generation # 0
      BY <2>1, <2>2, <2>3, NothingComesUnnamed
    <2>4. CASE generation = 0
      <3>1. \A q \in Process: ~pass[q].on
        BY <1>0, <2>4, Typed DEF PassState
      <3>2. marker' = 0 /\ generation' = 1 /\ pause'.number = 0
        BY <2>1, <2>4, NamedFacts
      <3>3. \A q \in Process: pass'[q].on => Unnamed' \subseteq pass'[q].owed
        BY <2>2, <3>1
      <3>. QED BY <3>2, <3>3 DEF NamedInv, PausesUnvouch, PassesOweTheUnnamed, VouchedSetsAreNamed, Vouched
    <2>. QED BY <2>3, <2>4
  <1>2. CASE MarkComplete(p)
    <2>1. /\ UNCHANGED <<generation, pause, exists, named, outlived, straddled, legacySince>>
          /\ pass' = [pass EXCEPT ![p] = NoPass]
          /\ pass[p].on /\ pass[p].owed = {} /\ pass[p].found = {}
          /\ marker' = IF MayMark(p) THEN pass[p].generation ELSE marker
      BY <1>2 DEF MarkComplete, index, ghosts
    <2>2. \A q \in Process: pass'[q].on => pass'[q] = pass[q]
      BY <1>0, <2>1 DEF NoPass
    <2>3. CASE MayMark(p)
      <3>1. marker' = generation /\ pause.number = 0 /\ pass[p].generation = generation
        BY <2>1, <2>3 DEF MayMark, NoPause
      <3>2. ~legacySince => Unnamed = {}
        BY <2>1, <3>1, NamedFacts
      <3>3. Unnamed' = Unnamed
        BY <2>1 DEF Unnamed
      <3>. QED BY <2>1, <3>1, <3>2, <3>3 DEF NamedInv, PausesUnvouch, PassesOweTheUnnamed,
           VouchedSetsAreNamed, Vouched, Unnamed
    <2>4. CASE ~MayMark(p)
      BY <2>1, <2>2, <2>4, NothingComesUnnamed DEF Unnamed
    <2>. QED BY <2>3, <2>4
  <1>3. CASE ReapFails(p)
    <2>1. /\ UNCHANGED <<generation, marker, pause, exists, named, outlived, straddled, legacySince>>
          /\ pass' = [pass EXCEPT ![p] = NoPass]
      BY <1>3 DEF ReapFails, shared, index, ghosts
    <2>2. \A q \in Process: pass'[q].on => pass'[q] = pass[q]
      BY <1>0, <2>1 DEF NoPass
    <2>. QED BY <2>1, <2>2, NothingComesUnnamed DEF Unnamed
  <1>4. ASSUME NEW s \in Set, ScanFinds(p, s) PROVE NamedInv'
    <2>1. /\ UNCHANGED <<generation, marker, pause, exists, named, outlived, straddled, legacySince>>
          /\ pass' = [pass EXCEPT ![p].owed = @ \ {s}, ![p].found = @ \cup {s}]
      BY <1>4 DEF ScanFinds, shared, index, ghosts
    <2>2. /\ pass'[p].on = pass[p].on /\ pass'[p].generation = pass[p].generation
          /\ pass'[p].owed = pass[p].owed \ {s} /\ pass'[p].found = pass[p].found \cup {s}
          /\ \A q \in Process \ {p}: pass'[q] = pass[q]
      BY <1>0, <2>1 DEF PassState
    <2>. QED BY <2>1, <2>2, NothingComesUnnamed DEF Unnamed
  <1>5. ASSUME NEW s \in Set, RegisterCollectionIndexKeys(p, s) PROVE NamedInv'
    <2>1. /\ UNCHANGED <<generation, marker, pause, exists, legacySince>>
          /\ outlived' = outlived \ {s} /\ straddled' = straddled \ {s}
          /\ named' = IF s \in exists THEN named \cup {s} ELSE named
          /\ pass' = [pass EXCEPT ![p].found = @ \ {s}]
      BY <1>5 DEF RegisterCollectionIndexKeys, shared
    <2>2. /\ pass'[p].on = pass[p].on /\ pass'[p].generation = pass[p].generation
          /\ pass'[p].owed = pass[p].owed /\ pass'[p].found = pass[p].found \ {s}
          /\ \A q \in Process \ {p}: pass'[q] = pass[q]
      BY <1>0, <2>1 DEF PassState
    <2>3. Unnamed' \subseteq Unnamed \ {s}
      BY <1>0, <2>1 DEF Unnamed
    <2>. QED BY <2>1, <2>2, <2>3, NothingComesUnnamed
  <1>. QED BY <1>1, <1>2, <1>3, <1>4, <1>5 DEF ReapNext

(* VouchedSetsAreNamed: while the marker holds the index generation, the      *)
(* index-key sets name every set the index holds, but for the two kinds left  *)
(* out.                                                                       *)
THEOREM TheMarkerIsTrue == Spec => []VouchedSetsAreNamed
  <1>1. Init => NamedInv
    <2>. SUFFICES ASSUME Init PROVE NamedInv
      OBVIOUS
    <2>1. TypeInv /\ pause.number = 0 /\ marker = 0 /\ \A p \in Process: ~pass[p].on
      BY InitTypes DEF Init, NoPause, NoPass
    <2>. QED BY <2>1 DEF NamedInv, PausesUnvouch, PassesOweTheUnnamed, VouchedSetsAreNamed, Vouched
  <1>2. NamedInv /\ [Next]_vars => NamedInv'
    <2>. SUFFICES ASSUME NamedInv, [Next]_vars PROVE NamedInv'
      OBVIOUS
    <2>1. TypeInv'
      BY NextTypes DEF NamedInv
    <2>2. ASSUME NEW p \in Process, PauseNext(p) PROVE NamedInv'
      BY <2>1, <2>2, PauseNames
    <2>3. ASSUME NEW p \in Process, ReapNext(p) PROVE NamedInv'
      BY <2>1, <2>3, ReapNames
    <2>4. CASE (\E s \in Set: IndexNext(s)) \/ FlushDb
      BY <2>1, <2>4, IndexNames
    <2>5. CASE ExpireWatch \/ ReachCeiling
      BY <2>1, <2>5, ClockNames
    <2>6. CASE UNCHANGED vars
      BY <2>1, <2>6, NothingComesUnnamed DEF vars, shared, index, ghosts, Unnamed
    <2>. QED BY <2>2, <2>3, <2>4, <2>5, <2>6 DEF Next
  <1>3. NamedInv => VouchedSetsAreNamed
    BY DEF NamedInv
  <1>. QED BY <1>1, <1>2, <1>3, PTL DEF Spec

-----------------------------------------------------------------------------
(* Two builds that fill at once *)

LEMMA ApartFacts ==
  ASSUME ApartInv
  PROVE  /\ TypeInv /\ proc \in [Process -> ProcState] /\ elapsed \in Nat
         /\ QuietLooks \in Nat /\ QuietLooks > 0 /\ MaxPauses \in Nat /\ Unknown = MaxPauses + 1
         /\ pause.number \in Nat /\ pause.number <= opened /\ opened \in Nat /\ opened <= MaxPauses
         /\ (pause.number = 0 => pause.build = None) /\ (pause.number # 0 => pause.build = recorded)
         /\ (pause.number = 0 <=> pause = NoPause)
         /\ BuildOf \in [Process -> Build] /\ None \notin Build /\ Legacy \in Build
         /\ \A p \in Process: /\ proc[p].looks \in 0 .. QuietLooks
                              /\ proc[p].missed \in 0 .. QuietLooks - 1
                              /\ proc[p].from \in 0 .. opened
                              /\ proc[p].look # "none" => Up(p)
  <1>1. TypeInv
    BY DEF ApartInv
  <1>2. \A p \in Process: /\ proc[p].looks \in 0 .. QuietLooks
                          /\ proc[p].missed \in 0 .. QuietLooks - 1
                          /\ proc[p].from \in 0 .. opened
    BY <1>1, Typed DEF ProcState
  <1>3. pause.number = 0 <=> pause = NoPause
    BY <1>1, Typed DEF NoPause
  <1>. QED BY <1>1, <1>2, <1>3, Typed, Bounds, BuildAssumption DEF BuildAssumption

(* A step of one process that lets nobody end the pause who might not have,   *)
(* and lets it fill only once the pause is over.                              *)
LEMMA OneProcessStaysApart ==
  ASSUME ApartInv, TypeInv', UNCHANGED <<recorded, pause, elapsed>>, ~miscounted' => ~miscounted,
         NEW p \in Process, \A q \in Process \ {p}: proc'[q] = proc[q],
         proc'[p].up = proc[p].up \/ proc'[p].up = "gone", Up(p),
         proc'[p].until = proc[p].until \/ proc[p].until # Unknown,
         Up(p)' /\ proc'[p].until = 0 => proc[p].until = 0 \/ pause.number = 0,
         elapsed = 0 /\ ~miscounted /\ SawNobodyElse(p)' => SawNobodyElse(p) \/ Others(p) = {}
  PROVE  ApartInv'
  <1>1. FreshAreBlank'
    BY DEF ApartInv, FreshAreBlank, Up
  <1>2. SUFFICES ASSUME elapsed = 0, ~miscounted PROVE Apart'
    BY <1>1 DEF ApartInv
  <1>3. Apart /\ Unknown' = Unknown /\ Unknown # 0
    BY <1>2, ApartFacts DEF ApartInv, Unknown
  <1>4. \A q \in Process: (Up(q)' => Up(q)) /\ Others(q)' \subseteq Others(q)
    BY DEF Up, Others
  <1>5. EndersAreAlone'
    <2>. SUFFICES ASSUME NEW e \in Process, NEW q \in Process, SawNobodyElse(e)', q \in Others(e)'
                  PROVE  proc'[q].until = Unknown
      BY <1>3 DEF EndersAreAlone
    <2>1. SawNobodyElse(e)
      BY <1>2, <1>4 DEF SawNobodyElse, Up
    <2>2. proc[q].until = Unknown
      BY <1>3, <1>4, <2>1 DEF Apart, EndersAreAlone
    <2>. QED BY <2>2
  <1>6. OneBuildIsLeft'
    BY <1>3, <1>4 DEF Apart, OneBuildIsLeft, LatestBuild
  <1>7. OneBuildFills'
    <2>1. CASE pause.number = 0
      BY <1>3, <1>6, <2>1 DEF OneBuildIsLeft, OneBuildFills, Fills, LatestBuild
    <2>2. CASE pause.number # 0
      <3>1. \A q \in Process: Fills(q)' => Fills(q)
        BY <1>4, <2>2 DEF Fills
      <3>. QED BY <1>3, <3>1 DEF Apart, OneBuildFills
    <2>. QED BY <2>1, <2>2
  <1>. QED BY <1>5, <1>6, <1>7 DEF Apart

LEMMA BootApart ==
  ASSUME ~RollBack, ApartInv, TypeInv', NEW p \in Process, Boot(p)
  PROVE  ApartInv'
  <1>1. /\ UNCHANGED <<recorded, pause, elapsed, miscounted>> /\ proc[p].up = "off"
        /\ \A q \in Process \ {p}: proc'[q] = proc[q]
        /\ proc'[p].up = "up" /\ proc'[p].looks = proc[p].looks /\ proc'[p].look = proc[p].look
        /\ proc'[p].missed = proc[p].missed
        /\ proc'[p].until = IF BuildOf[p] = Legacy THEN 0 ELSE Unknown
        /\ BuildOf[p] = Legacy => recorded = None
    BY ApartFacts DEF Boot, shared, clock, ProcState
  <1>2. FreshAreBlank'
    BY <1>1 DEF ApartInv, FreshAreBlank
  <1>3. SUFFICES ASSUME elapsed = 0, ~miscounted PROVE Apart'
    BY <1>1, <1>2 DEF ApartInv
  <1>4. Apart /\ Unknown' = Unknown /\ Unknown # 0
    BY <1>3, ApartFacts DEF ApartInv, Unknown
  <1>5. ~SawNobodyElse(p)'
    <2>1. proc[p].looks = 0 /\ proc[p].look = "none"
      BY <1>1, ApartFacts DEF ApartInv, FreshAreBlank, Up
    <2>. QED BY <1>1, <2>1, ApartFacts DEF SawNobodyElse
  <1>6. \A q \in Process \ {p}: (Up(q)' <=> Up(q)) /\ (SawNobodyElse(q)' => SawNobodyElse(q))
    BY <1>1 DEF Up, SawNobodyElse
  <1>7. CASE BuildOf[p] # Legacy
    <2>1. EndersAreAlone'
      BY <1>1, <1>4, <1>5, <1>6, <1>7 DEF Apart, EndersAreAlone, Others
    <2>2. OneBuildIsLeft' /\ OneBuildFills'
      BY <1>1, <1>4, <1>6, <1>7 DEF Apart, OneBuildIsLeft, OneBuildFills, Fills, LatestBuild
    <2>. QED BY <2>1, <2>2 DEF Apart
  <1>8. CASE BuildOf[p] = Legacy
    <2>1. recorded = None /\ pause.number = 0 /\ pause.build = None
      BY <1>1, <1>8, ApartFacts DEF ApartInv, FreshAreBlank
    <2>2. EndersAreAlone'
      BY <1>1, <2>1, ApartFacts DEF EndersAreAlone, SawNobodyElse
    <2>3. OneBuildIsLeft'
      BY <1>1, <1>4, <1>6, <1>8, <2>1 DEF Apart, OneBuildIsLeft, LatestBuild
    <2>4. OneBuildFills'
      BY <1>1, <1>4, <2>1, <2>3 DEF OneBuildIsLeft, OneBuildFills, Fills, LatestBuild
    <2>. QED BY <2>2, <2>3, <2>4 DEF Apart
  <1>. QED BY <1>7, <1>8

(* Another build replaces the pause by one no look was counted under.         *)
LEMMA RecordApart ==
  ASSUME ApartInv, TypeInv', NEW p \in Process, FirstReady(p) \/ Reconnect(p)
  PROVE  ApartInv'
  <1>1. /\ Up(p) /\ UNCHANGED <<elapsed, miscounted>>
        /\ proc' = [proc EXCEPT ![p].until = pause'.number, ![p].looks = 0] \/ UNCHANGED proc
    BY Recording, ApartFacts
  <1>2. /\ \A q \in Process \ {p}: proc'[q] = proc[q]
        /\ proc'[p].up = proc[p].up /\ proc'[p].look = proc[p].look
        /\ proc'[p].missed = proc[p].missed /\ proc'[p].from = proc[p].from
        /\ \/ proc'[p].until = pause'.number /\ proc'[p].looks = 0
           \/ proc'[p] = proc[p]
    BY <1>1, ApartFacts DEF ProcState
  <1>3. CASE UNCHANGED <<recorded, pause>> /\ recorded = BuildOf[p]
    <2>1. FreshAreBlank'
      BY <1>1, <1>2, <1>3 DEF ApartInv, FreshAreBlank, Up
    <2>2. SUFFICES ASSUME elapsed = 0, ~miscounted PROVE Apart'
      BY <1>1, <2>1 DEF ApartInv
    <2>3. Apart /\ Unknown' = Unknown /\ Unknown # 0
      BY <2>2, ApartFacts DEF ApartInv, Unknown
    <2>4. \A q \in Process: /\ Up(q)' <=> Up(q)
                            /\ Others(q)' = Others(q)
                            /\ SawNobodyElse(q)' => SawNobodyElse(q)
      <3>1. \A q \in Process: Up(q)' <=> Up(q)
        BY <1>2 DEF Up
      <3>2. \A q \in Process: SawNobodyElse(q)' => SawNobodyElse(q)
        <4>1. \A q \in Process \ {p}: SawNobodyElse(q)' => SawNobodyElse(q)
          BY <1>2, <1>3 DEF SawNobodyElse, Up
        <4>2. SawNobodyElse(p)' => SawNobodyElse(p)
          BY <1>2, <1>3, ApartFacts DEF SawNobodyElse, Up
        <4>. QED BY <4>1, <4>2
      <3>. QED BY <3>1, <3>2 DEF Others
    <2>5. EndersAreAlone'
      <3>1. pause.number # 0 => \A e \in Process: pause.build = BuildOf[e] => p \notin Others(e)
        BY <1>3, ApartFacts DEF Others
      <3>2. \A e \in Process: SawNobodyElse(e) => pause.number # 0
        BY ApartFacts DEF SawNobodyElse
      <3>. QED BY <1>2, <1>3, <2>3, <2>4, <3>1, <3>2 DEF Apart, EndersAreAlone, SawNobodyElse
    <2>6. OneBuildIsLeft'
      <3>1. BuildOf[p] = LatestBuild
        BY <1>3, ApartFacts DEF LatestBuild
      <3>. QED BY <1>2, <1>3, <2>3, <2>4, <3>1 DEF Apart, OneBuildIsLeft, LatestBuild
    <2>7. OneBuildFills'
      <3>1. CASE pause.number = 0
        BY <1>3, <2>3, <2>6, <3>1 DEF OneBuildIsLeft, OneBuildFills, Fills, LatestBuild
      <3>2. CASE pause.number # 0
        BY <1>2, <1>3, <2>3, <2>4, <3>2 DEF Apart, OneBuildFills, Fills
      <3>. QED BY <3>1, <3>2
    <2>. QED BY <2>5, <2>6, <2>7 DEF Apart
  <1>4. CASE /\ recorded' = BuildOf[p]
             /\ pause' = [build |-> BuildOf[p], number |-> opened + 1]
    <2>1. pause'.number = opened + 1 /\ pause'.number # 0 /\ recorded' # None
      BY <1>4, ApartFacts
    <2>2. FreshAreBlank'
      BY <1>1, <1>2, <2>1 DEF ApartInv, FreshAreBlank, Up
    <2>3. \A q \in Process: ~SawNobodyElse(q)'
      <3>1. \A q \in Process: proc'[q].from = proc[q].from /\ proc[q].from # opened + 1
        BY <1>2, ApartFacts
      <3>. QED BY <2>1, <3>1 DEF SawNobodyElse
    <2>4. \A q \in Process: Fills(q)' => Fills(q)
      BY <1>2, <2>1 DEF Fills, Up
    <2>5. EndersAreAlone' /\ OneBuildIsLeft'
      BY <2>1, <2>3 DEF EndersAreAlone, OneBuildIsLeft
    <2>6. OneBuildFills => OneBuildFills'
      BY <2>4 DEF OneBuildFills
    <2>. QED BY <1>1, <2>2, <2>5, <2>6 DEF ApartInv, Apart
  <1>. QED BY <1>3, <1>4, Recording, ApartFacts

(* A look of a row that missed nobody more often than it looked saw, once,    *)
(* that nobody else was there.                                                *)
LEMMA LookApart ==
  ASSUME ApartInv, TypeInv', NEW p \in Process,
         WatchFillPause(p) \/ OnlyThisBuildAnswers(p) \/ NoQuietLook(p) \/ Lapse(p)
  PROVE  ApartInv'
  <1>0. proc \in [Process -> ProcState] /\ Unknown \notin 1 .. MaxPauses
    BY ApartFacts
  <1>1. CASE WatchFillPause(p)
    <2>1. /\ UNCHANGED <<recorded, pause, elapsed, miscounted>>
          /\ Up(p) /\ proc[p].until # Unknown
          /\ \A q \in Process \ {p}: proc'[q] = proc[q]
      BY <1>0, <1>1 DEF WatchFillPause, Held, ghosts, clock, ResumeScopedCacheFills
    <2>2. \/ proc' = [proc EXCEPT ![p].until = 0, ![p].look = "none"] /\ pause.number = 0
          \/ proc' = [proc EXCEPT ![p].until = pause.number, ![p].look = "collect"] /\ pause.number # 0
          \/ proc' = [proc EXCEPT ![p].until = pause.number, ![p].looks = 0] /\ pause.number # 0
      BY <1>1, ApartFacts DEF WatchFillPause, ResumeScopedCacheFills
    <2>3. /\ proc'[p].up = proc[p].up /\ proc'[p].missed = proc[p].missed
          /\ proc'[p].from = proc[p].from
          /\ proc'[p].until = 0 => pause.number = 0
          /\ proc'[p].looks = proc[p].looks \/ proc'[p].looks = 0
          /\ proc'[p].look = "end" => proc[p].look = "end"
      BY <1>0, <2>2 DEF ProcState
    <2>4. SawNobodyElse(p)' => SawNobodyElse(p)
      BY <2>1, <2>3, ApartFacts DEF SawNobodyElse, Up
    <2>. QED BY <2>1, <2>3, <2>4, OneProcessStaysApart
  <1>2. CASE OnlyThisBuildAnswers(p)
    <2>. DEFINE first == proc[p].looks = 0
                missed == IF Others(p) = {} THEN 0 ELSE IF first THEN 1 ELSE proc[p].missed + 1
    <2>1. /\ UNCHANGED <<recorded, pause, elapsed, miscounted>> /\ Up(p) /\ missed < QuietLooks
          /\ \A q \in Process \ {p}: proc'[q] = proc[q]
      <3>1. UNCHANGED <<recorded, pause, elapsed, miscounted>> /\ Up(p)
        BY <1>2 DEF OnlyThisBuildAnswers, shared, ghosts, clock
      <3>2. missed < QuietLooks
        BY <1>2 DEF OnlyThisBuildAnswers
      <3>3. \A q \in Process \ {p}: proc'[q] = proc[q]
        BY <1>0, <1>2 DEF OnlyThisBuildAnswers
      <3>. QED BY <3>1, <3>2, <3>3
    <2>2. /\ proc'[p].up = proc[p].up /\ proc'[p].until = proc[p].until
          /\ proc'[p].looks = IF proc[p].looks + 1 > QuietLooks THEN QuietLooks ELSE proc[p].looks + 1
          /\ proc'[p].look = IF proc[p].looks + 1 >= QuietLooks THEN "end" ELSE "none"
          /\ proc'[p].missed = missed
          /\ proc'[p].from = IF first THEN pause.number ELSE proc[p].from
      <3>. DEFINE looks == IF proc[p].looks + 1 > QuietLooks THEN QuietLooks ELSE proc[p].looks + 1
                  from == IF first THEN pause.number ELSE proc[p].from
                  look == IF proc[p].looks + 1 >= QuietLooks THEN "end" ELSE "none"
      <3>1. proc' = [proc EXCEPT ![p] = [proc[p] EXCEPT !.looks = looks, !.look = look,
                                                        !.missed = missed, !.from = from]]
        BY <1>2 DEF OnlyThisBuildAnswers
      <3>. HIDE DEF missed, looks, from, look
      <3>2. /\ proc'[p].up = proc[p].up /\ proc'[p].until = proc[p].until
            /\ proc'[p].looks = looks /\ proc'[p].look = look
            /\ proc'[p].missed = missed /\ proc'[p].from = from
        BY <1>0, <3>1 DEF ProcState
      <3>. QED BY <3>2 DEF looks, from, look
    <2>3. SawNobodyElse(p)' => SawNobodyElse(p) \/ Others(p) = {}
      <3>. SUFFICES ASSUME SawNobodyElse(p)', Others(p) # {} PROVE SawNobodyElse(p)
        OBVIOUS
      <3>1. proc'[p].look = "end" \/ proc'[p].looks > missed
        BY <2>2 DEF SawNobodyElse
      <3>2. /\ proc[p].looks \in 0 .. QuietLooks /\ proc[p].missed \in 0 .. QuietLooks - 1
            /\ QuietLooks \in Nat /\ QuietLooks > 0
        BY ApartFacts
      <3>3. CASE first
        <4>1. missed = 1 /\ proc[p].looks = 0
          BY <3>3
        <4>. QED BY <2>1, <2>2, <3>1, <3>2, <4>1
      <3>4. CASE ~first
        <4>1. missed = proc[p].missed + 1
          BY <3>4
        <4>2. proc[p].looks > proc[p].missed
          BY <2>1, <2>2, <3>1, <3>2, <4>1
        <4>3. pause.build = BuildOf[p] /\ pause.number = proc[p].from
          BY <2>1, <2>2, <3>4 DEF SawNobodyElse
        <4>. QED BY <2>1, <4>2, <4>3 DEF SawNobodyElse
      <3>. QED BY <3>3, <3>4
    <2>. QED BY <2>1, <2>2, <2>3, OneProcessStaysApart
  <1>3. CASE NoQuietLook(p)
    <2>1. /\ UNCHANGED <<recorded, pause, elapsed, miscounted>> /\ Up(p)
          /\ \A q \in Process \ {p}: proc'[q] = proc[q]
          /\ proc'[p].up = proc[p].up /\ proc'[p].until = proc[p].until
          /\ proc'[p].looks = 0 /\ proc'[p].look = "none" /\ proc'[p].missed = proc[p].missed
      BY <1>0, <1>3 DEF NoQuietLook, shared, ghosts, clock, ProcState
    <2>2. ~SawNobodyElse(p)'
      BY <2>1, ApartFacts DEF SawNobodyElse
    <2>. QED BY <2>1, <2>2, OneProcessStaysApart
  <1>4. CASE Lapse(p)
    <2>1. /\ UNCHANGED <<recorded, pause, elapsed, miscounted>> /\ Up(p)
          /\ proc[p].until \in 1 .. MaxPauses /\ proc[p].until <= elapsed
          /\ proc' = [proc EXCEPT ![p].until = 0, ![p].look = "none"]
      BY <1>4 DEF Lapse, shared, ghosts, clock, Held, ResumeScopedCacheFills
    <2>2. elapsed # 0
      BY <2>1, ApartFacts
    <2>3. proc'[p].up = "up" /\ \A q \in Process \ {p}: proc'[q] = proc[q]
      BY <1>0, <2>1 DEF ProcState, Up
    <2>. QED BY <2>1, <2>2, <2>3 DEF ApartInv, FreshAreBlank
  <1>. QED BY <1>1, <1>2, <1>3, <1>4

(* A pause its own looks end leaves who is of its build, and who has yet to   *)
(* record itself.                                                             *)
LEMMA EndApart ==
  ASSUME ApartInv, TypeInv', NEW p \in Process, EndFillPause(p)
  PROVE  ApartInv'
  <1>0. proc \in [Process -> ProcState]
    BY ApartFacts
  <1>1. /\ UNCHANGED <<recorded, elapsed>> /\ Up(p) /\ proc[p].look = "end"
        /\ \A q \in Process \ {p}: proc'[q] = proc[q]
        /\ proc'[p].up = proc[p].up /\ proc'[p].looks = proc[p].looks /\ proc'[p].look = "none"
        /\ proc'[p].missed = proc[p].missed /\ proc'[p].from = proc[p].from
    BY <1>0 DEF EndFillPause, clock, ProcState, ResumeScopedCacheFills
  <1>2. CASE pause.build # BuildOf[p]
    <2>1. UNCHANGED <<pause, miscounted>> /\ proc'[p].until = proc[p].until
      BY <1>0, <1>2 DEF EndFillPause, ProcState
    <2>2. ~SawNobodyElse(p)'
      BY <1>2, <2>1 DEF SawNobodyElse
    <2>. QED BY <1>1, <2>1, <2>2, OneProcessStaysApart
  <1>3. CASE pause.build = BuildOf[p]
    <2>1. /\ pause' = NoPause /\ pause'.number = 0 /\ pause'.build = None
          /\ miscounted' = (miscounted \/ proc[p].from # pause.number)
      BY <1>3 DEF EndFillPause, ClosePause, NoPause
    <2>2. FreshAreBlank'
      BY <1>1, <2>1 DEF ApartInv, FreshAreBlank, Up
    <2>3. SUFFICES ASSUME elapsed = 0, ~miscounted' PROVE Apart'
      BY <1>1, <2>2 DEF ApartInv
    <2>4. ~miscounted /\ proc[p].from = pause.number
      BY <2>1, <2>3
    <2>5. Apart /\ Unknown' = Unknown /\ Unknown # 0
      BY <2>3, <2>4, ApartFacts DEF ApartInv, Unknown
    <2>6. recorded = BuildOf[p] /\ recorded # None
      BY <1>3, ApartFacts
    <2>7. SawNobodyElse(p)
      BY <1>1, <1>3, <2>4 DEF SawNobodyElse
    <2>8. \A q \in Process: Up(q) /\ BuildOf[q] # BuildOf[p] => proc[q].until = Unknown
      BY <2>5, <2>7 DEF Apart, EndersAreAlone, Others
    <2>9. OneBuildIsLeft'
      BY <1>1, <2>5, <2>6, <2>8 DEF OneBuildIsLeft, LatestBuild, Up
    <2>10. OneBuildFills'
      BY <2>1, <2>5, <2>9 DEF OneBuildIsLeft, OneBuildFills, Fills
    <2>11. EndersAreAlone'
      BY <2>1, ApartFacts DEF EndersAreAlone, SawNobodyElse
    <2>. QED BY <2>9, <2>10, <2>11 DEF Apart
  <1>. QED BY <1>2, <1>3

LEMMA DieApart ==
  ASSUME ApartInv, TypeInv', NEW p \in Process, Die(p)
  PROVE  ApartInv'
  <1>1. /\ UNCHANGED <<recorded, pause, elapsed, miscounted>> /\ Up(p)
        /\ \A q \in Process \ {p}: proc'[q] = proc[q]
        /\ proc'[p].up = "gone" /\ proc'[p].until = Unknown
    BY ApartFacts DEF Die, shared, ghosts, clock, NotUp
  <1>2. (\A q \in Process: Up(q)' => Up(q)) /\ ~Up(p)' /\ ~SawNobodyElse(p)'
    BY <1>1 DEF Up, SawNobodyElse
  <1>3. FreshAreBlank'
    BY <1>1 DEF ApartInv, FreshAreBlank
  <1>4. SUFFICES ASSUME elapsed = 0, ~miscounted PROVE Apart'
    BY <1>1, <1>3 DEF ApartInv
  <1>5. Apart /\ Unknown' = Unknown
    BY <1>4 DEF ApartInv, Unknown
  <1>6. EndersAreAlone'
    BY <1>1, <1>2, <1>5 DEF Apart, EndersAreAlone, SawNobodyElse, Others, Up
  <1>7. OneBuildIsLeft' /\ OneBuildFills'
    BY <1>1, <1>2, <1>5 DEF Apart, OneBuildIsLeft, OneBuildFills, Fills, LatestBuild
  <1>. QED BY <1>6, <1>7 DEF Apart

(* BuildsFillApart: two builds fill at once only after a pause reached its    *)
(* ceiling, or was ended by looks counted under an earlier one. A roll back   *)
(* is left out: the build it goes back to looks at no pause.                  *)
THEOREM PausesKeepBuildsApart == ASSUME ~RollBack PROVE Spec => []BuildsFillApart
  <1>1. Init => ApartInv
    <2>. SUFFICES ASSUME Init PROVE ApartInv
      OBVIOUS
    <2>1. /\ TypeInv /\ pause.number = 0 /\ pause.build = None
          /\ \A p \in Process: proc[p].up = "off" /\ proc[p].looks = 0
      BY InitTypes DEF Init, NoPause, NotUp
    <2>2. None \notin Build /\ BuildOf \in [Process -> Build]
      BY BuildAssumption DEF BuildAssumption
    <2>. QED BY <2>1, <2>2 DEF ApartInv, FreshAreBlank, Apart, EndersAreAlone, OneBuildIsLeft, OneBuildFills,
         SawNobodyElse, Fills, Up
  <1>2. ApartInv /\ [Next]_vars => ApartInv'
    <2>. SUFFICES ASSUME ApartInv, [Next]_vars PROVE ApartInv'
      OBVIOUS
    <2>1. TypeInv'
      BY NextTypes DEF ApartInv
    <2>2. ASSUME NEW p \in Process, PauseNext(p) PROVE ApartInv'
      BY <2>1, <2>2, BootApart, RecordApart, LookApart, EndApart, DieApart DEF PauseNext
    <2>3. CASE UNCHANGED <<recorded, pause, proc, elapsed, miscounted>>
      BY <2>1, <2>3 DEF ApartInv, FreshAreBlank, Apart, EndersAreAlone, OneBuildIsLeft, OneBuildFills,
         SawNobodyElse, Others, Fills, Up, LatestBuild, Unknown
    <2>4. ASSUME NEW p \in Process, ReapNext(p)
          PROVE  UNCHANGED <<recorded, pause, proc, elapsed, miscounted>>
      BY <2>4 DEF ReapNext, BeginReap, MarkComplete, ReapFails, ScanFinds, RegisterCollectionIndexKeys,
         shared, ghosts, clock
    <2>5. CASE (\E s \in Set: IndexNext(s)) \/ FlushDb
      <3>1. UNCHANGED <<recorded, pause, proc, elapsed, miscounted>>
        BY <2>5 DEF IndexNext, IndexScopedCacheEntry, Unlink, SweepMove, Prune, FlushDb, Gone,
           shared, ghosts, clock
      <3>. QED BY <2>3, <3>1
    <2>6. CASE ExpireWatch
      <3>1. UNCHANGED <<recorded, pause, proc, elapsed, miscounted>>
        BY <2>6 DEF ExpireWatch, ghosts, clock
      <3>. QED BY <2>3, <3>1
    <2>7. CASE ReachCeiling
      <3>1. UNCHANGED <<recorded, proc>> /\ elapsed' # 0
        BY <2>7, ApartFacts DEF ReachCeiling
      <3>2. pause'.number = 0 \/ pause' = pause
        BY <2>7 DEF ReachCeiling, ClosePause, NoPause
      <3>. QED BY <2>1, <3>1, <3>2 DEF ApartInv, FreshAreBlank
    <2>8. CASE UNCHANGED vars
      <3>1. UNCHANGED <<recorded, pause, proc, elapsed, miscounted>>
        BY <2>8 DEF vars, shared, ghosts, clock
      <3>. QED BY <2>3, <3>1
    <2>9. \/ \E p \in Process: PauseNext(p) \/ ReapNext(p)
          \/ (\E s \in Set: IndexNext(s)) \/ FlushDb
          \/ ExpireWatch \/ ReachCeiling \/ UNCHANGED vars
      BY DEF Next
    <2>. QED BY <2>2, <2>3, <2>4, <2>5, <2>6, <2>7, <2>8, <2>9
  <1>3. ApartInv => BuildsFillApart
    <2>. SUFFICES ASSUME ApartInv, elapsed = 0, ~miscounted PROVE OneBuildFills
      BY ApartFacts DEF BuildsFillApart, OneBuildFills
    <2>. QED BY DEF ApartInv, Apart
  <1>. QED BY <1>1, <1>2, <1>3, PTL DEF Spec
=============================================================================
