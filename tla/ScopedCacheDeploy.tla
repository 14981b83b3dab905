--------------------------- MODULE ScopedCacheDeploy ---------------------------
(* A rolling deploy: the recorded build, the fill pause, and the marker.      *)
(*                                                                            *)
(* Redis holds index sets, and names of index sets in the index-key set of    *)
(* their collection. A collection-wide read trusts the names while the marker *)
(* holds the index generation, and scans the keyspace otherwise               *)
(* (scoped-cache/redis-store.ts). A reap names what it finds and writes the   *)
(* marker. Processes of the build older than the names file sets nothing      *)
(* names; two builds file differently. So the first boot of a build moves the *)
(* generation and opens a pause of its fills, which its watcher ends once no  *)
(* other build answers (scoped-cache/fill-pause.ts).                          *)
(*                                                                            *)
(* A process boots once: a restart is another process. Pauses are numbered in *)
(* the order they open, which is the order their ceilings are reached in.     *)
EXTENDS Naturals, FiniteSets

CONSTANTS Process, Build, Set, None,
          BuildOf,      \* the build each process runs
          Legacy,       \* the build older than the index-key sets
          QuietLooks,   \* QUIET_LOOKS_TO_RESUME
          RollBack,     \* whether a roll back to the Legacy build may happen
          MaxPauses,    \* bound: how many pauses open
          MaxReconnects \* bound: how many reconnects record the build again

ASSUME BuildAssumption == BuildOf \in [Process -> Build] /\ Legacy \in Build /\ None \notin Build
ASSUME QuietAssumption == QuietLooks \in Nat \ {0}
ASSUME RollBackAssumption == RollBack \in BOOLEAN
ASSUME MaxAssumption == {MaxPauses, MaxReconnects} \subseteq Nat

VARIABLES
  recorded,   \* the recorded build
  generation, \* the index generation, 0 when there is none
  marker,     \* the generation the marker names, 0 when there is none
  pause,      \* the fill pause: the build that opened it and its number
  watch,      \* the process that watches the pause
  exists,     \* the index sets redis holds
  named,      \* the index sets an index-key set names
  proc,       \* proc[p]: a process and its fills
  pass,       \* pass[p]: its reap
  opened,     \* pauses opened
  elapsed,    \* pauses whose ceiling is reached
  outlived,   \* sets filed by a Legacy process that outlived a pause
  straddled,  \* sets nothing named when a pause closed under a running reap
  miscounted, \* whether looks begun under one pause ended a later one
  legacySince,\* whether a Legacy process booted since the last build recorded
  reconnects

shared == <<recorded, generation, marker, pause, watch>>
index == <<exists, named>>
ghosts == <<outlived, straddled, miscounted, legacySince>>
clock == <<opened, elapsed, reconnects>>
vars == <<shared, index, ghosts, proc, pass, clock>>

NoPause == [build |-> None, number |-> 0]
NoPass == [on |-> FALSE, generation |-> 0, owed |-> {}, found |-> {}]

(* until: when the process may fill again, scopedCacheFillPaused - "unknown"  *)
(* before it read the build back, then the number of the pause that holds it, *)
(* 0 for none. Of its quiet looks in a row: how many, how many of the last    *)
(* another build missed though it lives, and the pause the row began at.      *)
Unknown == MaxPauses + 1
NotUp == [up |-> "off", until |-> Unknown, looks |-> 0, look |-> "none",
          missed |-> 0, from |-> 0]

Init ==
  /\ recorded = None /\ generation = 0 /\ marker = 0
  /\ pause = NoPause /\ watch = None
  /\ exists = {} /\ named = {}
  /\ outlived = {} /\ straddled = {} /\ miscounted = FALSE /\ legacySince = FALSE
  /\ proc = [p \in Process |-> NotUp]
  /\ pass = [p \in Process |-> NoPass]
  /\ opened = 0 /\ elapsed = 0 /\ reconnects = 0

Up(p) == proc[p].up = "up"
Fills(p) == Up(p) /\ proc[p].until = 0
Held(p) == Up(p) /\ proc[p].until \in 1 .. MaxPauses
Others(p) == {q \in Process : Up(q) /\ BuildOf[q] # BuildOf[p]}

-----------------------------------------------------------------------------
(* Boots, deaths, and the record of the build *)

(* A Legacy process fills at once: nothing holds it. One boots before another *)
(* build is recorded, or as that build is rolled back.                        *)
Boot(p) ==
  /\ proc[p].up = "off"
  /\ BuildOf[p] = Legacy => RollBack \/ recorded = None
  /\ proc' = [proc EXCEPT ![p].up = "up",
                          ![p].until = IF BuildOf[p] = Legacy THEN 0 ELSE Unknown]
  /\ legacySince' = (legacySince \/ BuildOf[p] = Legacy)
  /\ UNCHANGED <<shared, index, outlived, straddled, miscounted, pass, clock>>

Die(p) ==
  /\ Up(p)
  /\ proc' = [proc EXCEPT ![p] = [NotUp EXCEPT !.up = "gone"]]
  /\ pass' = [pass EXCEPT ![p] = NoPass]
  /\ UNCHANGED <<shared, index, ghosts, clock>>

(* A changed build that leaves a running pause to the build before *)
RecordKeepsPause(b) ==
  \/ /\ recorded = b
     /\ UNCHANGED <<recorded, generation, pause, opened, legacySince>>
  \/ /\ recorded # b /\ opened < MaxPauses
     /\ recorded' = b
     /\ generation' = generation + 1
     /\ opened' = opened + 1
     /\ pause' = IF pause = NoPause THEN [build |-> b, number |-> opened + 1] ELSE pause
     /\ legacySince' = FALSE

(* The record script: another build than the recorded one moves the           *)
(* generation and replaces the pause.                                         *)
RecordScript(b) ==
  \/ /\ recorded = b
     /\ UNCHANGED <<recorded, generation, pause, opened, legacySince>>
  \/ /\ recorded # b /\ opened < MaxPauses
     /\ recorded' = b
     /\ generation' = generation + 1
     /\ opened' = opened + 1
     /\ pause' = [build |-> b, number |-> opened + 1]
     /\ legacySince' = FALSE

(* Record, then hold the fills for what is left of the pause. The answer may  *)
(* be lost after the script ran: the process stays as it was.                 *)
RecordScopedCacheBuild(p) ==
  /\ RecordScript(BuildOf[p])
  /\ \/ proc' = [proc EXCEPT ![p].until = pause'.number, ![p].looks = 0]
     \/ UNCHANGED proc
  /\ UNCHANGED <<marker, watch, index, outlived, straddled, miscounted, pass, elapsed>>

FirstReady(p) ==
  /\ Up(p) /\ proc[p].until = Unknown
  /\ RecordScopedCacheBuild(p)
  /\ UNCHANGED reconnects

(* A later `ready` records again while the process is paused. *)
Reconnect(p) ==
  /\ Held(p)
  /\ reconnects < MaxReconnects
  /\ reconnects' = reconnects + 1
  /\ RecordScopedCacheBuild(p)

-----------------------------------------------------------------------------
(* The looks at the pause *)

ResumeScopedCacheFills(p) ==
  proc' = [proc EXCEPT ![p].until = 0, ![p].look = "none"]

(* The watch script, and what the look makes of its answer *)
WatchFillPause(p) ==
  /\ Held(p) /\ proc[p].look = "none"
  /\ \/ /\ pause = NoPause
        /\ ResumeScopedCacheFills(p)
        /\ UNCHANGED watch
     \/ /\ pause # NoPause /\ watch \in {None, p}
        /\ watch' = p
        /\ proc' = [proc EXCEPT ![p].until = pause.number, ![p].look = "collect"]
     \/ /\ pause # NoPause /\ watch \notin {None, p}
        /\ proc' = [proc EXCEPT ![p].until = pause.number, ![p].looks = 0]
        /\ UNCHANGED watch
  /\ UNCHANGED <<recorded, generation, marker, pause, index, ghosts, pass, clock>>

(* One more quiet look: every process that answers runs this build. A process *)
(* that lives misses fewer than QuietLooks looks in a row.                    *)
OnlyThisBuildAnswers(p) ==
  LET first == proc[p].looks = 0
      looks == proc[p].looks + 1
      missed == IF Others(p) = {} THEN 0 ELSE IF first THEN 1 ELSE proc[p].missed + 1 IN
  /\ Up(p) /\ proc[p].look = "collect"
  /\ missed < QuietLooks
  /\ proc' = [proc EXCEPT ![p].looks = IF looks > QuietLooks THEN QuietLooks ELSE looks,
                          ![p].look = IF looks >= QuietLooks THEN "end" ELSE "none",
                          ![p].missed = missed,
                          ![p].from = IF first THEN pause.number ELSE @]
  /\ UNCHANGED <<shared, index, ghosts, pass, clock>>

(* Another build answers, or this process's own answer does not come, or the  *)
(* look fails.                                                                *)
NoQuietLook(p) ==
  /\ Up(p) /\ proc[p].look # "none"
  /\ proc' = [proc EXCEPT ![p].looks = 0, ![p].look = "none"]
  /\ UNCHANGED <<shared, index, ghosts, pass, clock>>

(* A pause closes: what a reap under way may have passed is left to the next. *)
ClosePause ==
  /\ pause' = NoPause
  /\ straddled' = IF \E p \in Process: pass[p].on THEN straddled \cup (exists \ named)
                                                ELSE straddled

(* An end script that compares no build *)
EndAnyPause(p) ==
  /\ Up(p) /\ proc[p].look = "end"
  /\ ClosePause /\ watch' = None
  /\ ResumeScopedCacheFills(p)
  /\ UNCHANGED <<recorded, generation, marker, index, outlived, miscounted, legacySince, pass, clock>>

(* The end script: only the pause this build opened. *)
EndFillPause(p) ==
  /\ Up(p) /\ proc[p].look = "end"
  /\ \/ /\ pause.build = BuildOf[p]
        /\ ClosePause /\ watch' = None
        /\ miscounted' = (miscounted \/ proc[p].from # pause.number)
        /\ ResumeScopedCacheFills(p)
     \/ /\ pause.build # BuildOf[p]
        /\ proc' = [proc EXCEPT ![p].look = "none"]
        /\ UNCHANGED <<pause, watch, straddled, miscounted>>
  /\ UNCHANGED <<recorded, generation, marker, index, outlived, legacySince, pass, clock>>

(* The watch outlives two missed looks: only one whose process died runs out. *)
ExpireWatch ==
  /\ watch # None /\ ~Up(watch)
  /\ watch' = None
  /\ UNCHANGED <<recorded, generation, marker, pause, index, ghosts, proc, pass, clock>>

(* The ceiling of the oldest pause is reached. *)
ReachCeiling ==
  /\ elapsed < opened
  /\ elapsed' = elapsed + 1
  /\ IF pause.number = elapsed + 1 THEN ClosePause ELSE UNCHANGED <<pause, straddled>>
  /\ UNCHANGED <<recorded, generation, marker, watch, index, outlived, miscounted, legacySince,
                 proc, pass, opened, reconnects>>

(* A process whose own clock passed the ceiling it knows fills again. *)
Lapse(p) ==
  /\ Held(p) /\ proc[p].until <= elapsed
  /\ ResumeScopedCacheFills(p)
  /\ UNCHANGED <<shared, index, ghosts, pass, clock>>

-----------------------------------------------------------------------------
(* The index: filings, and how a set or a name goes *)

(* A fill names every set it files into; one of the Legacy build does not. *)
IndexScopedCacheEntry(p, s) ==
  /\ Fills(p)
  /\ exists' = exists \cup {s}
  /\ IF BuildOf[p] = Legacy
     THEN /\ UNCHANGED named
          /\ outlived' = IF pause = NoPause /\ ~legacySince THEN outlived \cup {s} ELSE outlived
     ELSE named' = named \cup {s} /\ UNCHANGED outlived
  /\ UNCHANGED <<shared, straddled, miscounted, legacySince, proc, pass, clock>>

(* A set that goes is no longer owed by the SCAN of a pass, and one it found  *)
(* may read empty, of no collection to be named in.                           *)
Gone(sets) ==
  /\ exists' = exists \ sets
  /\ outlived' = outlived \ sets /\ straddled' = straddled \ sets
  /\ \E empty \in {{}, sets}:
       pass' = [p \in Process |-> [pass[p] EXCEPT !.owed = @ \ sets, !.found = @ \ empty]]
  /\ UNCHANGED <<shared, miscounted, legacySince, proc, clock>>

(* A set expires, its last member goes, or a drop of the index unlinks it:    *)
(* its name stays.                                                            *)
Unlink(s) == s \in exists /\ Gone({s}) /\ UNCHANGED named

(* A sweep renames the set away and takes its name in one script. *)
SweepMove(s) == s \in exists \cup named /\ Gone({s}) /\ named' = named \ {s}

FlushDb == exists \cup named # {} /\ Gone(Set) /\ named' = {}

(* The prune script: a name goes only while its set is missing. *)
Prune(s) ==
  /\ s \in named /\ s \notin exists
  /\ named' = named \ {s}
  /\ UNCHANGED <<shared, exists, ghosts, proc, pass, clock>>

-----------------------------------------------------------------------------
(* The reap *)

(* The generation, seeded when there is none, is read before the SCAN. *)
BeginReap(p) ==
  /\ Fills(p) /\ BuildOf[p] # Legacy
  /\ ~pass[p].on
  /\ generation' = IF generation = 0 THEN 1 ELSE generation
  /\ pass' = [pass EXCEPT ![p] =
                [on |-> TRUE, generation |-> generation', owed |-> exists, found |-> {}]]
  /\ UNCHANGED <<recorded, marker, pause, watch, index, ghosts, proc, clock>>

(* A page of the SCAN: what was there throughout comes, what came may too. *)
ScanFinds(p, s) ==
  /\ pass[p].on
  /\ s \in exists /\ s \notin pass[p].found
  /\ pass' = [pass EXCEPT ![p].owed = @ \ {s}, ![p].found = @ \cup {s}]
  /\ UNCHANGED <<shared, index, ghosts, proc, clock>>

(* The register script names the sets of the page that are still there. *)
RegisterCollectionIndexKeys(p, s) ==
  /\ s \in pass[p].found
  /\ pass' = [pass EXCEPT ![p].found = @ \ {s}]
  /\ named' = IF s \in exists THEN named \cup {s} ELSE named
  /\ outlived' = outlived \ {s} /\ straddled' = straddled \ {s}
  /\ UNCHANGED <<shared, exists, miscounted, legacySince, proc, clock>>

(* A mark that looks at no pause *)
MarkInPause(p) == generation = pass[p].generation

(* The mark script writes only at the generation the pass read and while no   *)
(* pause runs.                                                                *)
MayMark(p) == generation = pass[p].generation /\ pause = NoPause

MarkComplete(p) ==
  /\ pass[p].on /\ pass[p].owed = {} /\ pass[p].found = {}
  /\ marker' = IF MayMark(p) THEN pass[p].generation ELSE marker
  /\ pass' = [pass EXCEPT ![p] = NoPass]
  /\ UNCHANGED <<recorded, generation, pause, watch, index, ghosts, proc, clock>>

(* A pass that throws writes nothing. *)
ReapFails(p) ==
  /\ pass[p].on
  /\ pass' = [pass EXCEPT ![p] = NoPass]
  /\ UNCHANGED <<shared, index, ghosts, proc, clock>>

-----------------------------------------------------------------------------
PauseNext(p) ==
  \/ Boot(p) \/ Die(p) \/ FirstReady(p) \/ Reconnect(p)
  \/ WatchFillPause(p) \/ OnlyThisBuildAnswers(p) \/ NoQuietLook(p) \/ EndFillPause(p)
  \/ Lapse(p)

ReapNext(p) ==
  \/ BeginReap(p) \/ MarkComplete(p) \/ ReapFails(p)
  \/ \E s \in Set: ScanFinds(p, s) \/ RegisterCollectionIndexKeys(p, s)

IndexNext(s) ==
  \/ \E p \in Process: IndexScopedCacheEntry(p, s)
  \/ Unlink(s) \/ SweepMove(s) \/ Prune(s)

Next ==
  \/ \E p \in Process: PauseNext(p) \/ ReapNext(p)
  \/ \E s \in Set: IndexNext(s)
  \/ FlushDb \/ ExpireWatch \/ ReachCeiling

Spec == Init /\ [][Next]_vars

-----------------------------------------------------------------------------
(* The types; a pause that runs is the recorded build's and not yet at its    *)
(* ceiling, and only a process that is up looks or reaps.                     *)
TypeOK ==
  /\ recorded \in Build \cup {None} /\ watch \in Process \cup {None}
  /\ generation \in 0 .. MaxPauses + 1 /\ marker \in 0 .. generation
  /\ pause \in [build : Build \cup {None}, number : {0} \cup elapsed + 1 .. opened]
  /\ pause.build = IF pause.number = 0 THEN None ELSE recorded
  /\ exists \subseteq Set /\ named \subseteq Set /\ outlived \cup straddled \subseteq exists
  /\ legacySince \in BOOLEAN
  /\ proc \in [Process -> [up : {"off", "up", "gone"}, until : 0 .. Unknown,
                           looks : 0 .. QuietLooks, look : {"none", "collect", "end"},
                           missed : 0 .. QuietLooks - 1, from : 0 .. opened]]
  /\ pass \in [Process -> [on : BOOLEAN, generation : 0 .. generation,
                           owed : SUBSET exists, found : SUBSET Set]]
  /\ opened \in 0 .. MaxPauses /\ elapsed \in 0 .. opened
  /\ miscounted \in BOOLEAN /\ reconnects \in 0 .. MaxReconnects
  /\ \A p \in Process: pass[p].on \/ proc[p].look # "none" => Up(p)

Vouched == marker # 0 /\ marker = generation

(* While the marker vouches for the names, every set the index holds is named *)
(* - but for what a process of the build before files after it outlived the   *)
(* pause, which is accepted, until a roll back is noticed by the next record. *)
PauseCoversItsFilings ==
  Vouched /\ ~legacySince => exists \ outlived \subseteq named

(* The same but for the sets nothing named when a pause closed under a reap   *)
(* begun before, which passes what is filed behind it.                        *)
VouchedSetsAreNamed ==
  Vouched /\ ~legacySince => exists \ (outlived \cup straddled) \subseteq named

(* The first process up after a roll back to the Legacy build, once it read   *)
(* the build back, trusts no marker over sets nothing names.                  *)
RollForwardIsNoticed ==
  [][\A p \in Process:
       /\ proc[p].until = Unknown /\ proc'[p].up = "up" /\ proc'[p].until # Unknown
       /\ \A q \in Process \ {p}: ~Up(q)
       => ~Vouched' \/ exists \ outlived \subseteq named]_vars

(* Two builds fill at once only after a pause of a deploy reached its ceiling, *)
(* or was ended by looks its watcher had begun under an earlier one.          *)
BuildsFillApart ==
  \A p, q \in Process:
    Fills(p) /\ Fills(q) /\ BuildOf[p] # BuildOf[q] => elapsed > 0 \/ miscounted

(* The same whatever pause the looks were counted under. *)
PausesEndOnTheirOwnLooks ==
  \A p, q \in Process:
    Fills(p) /\ Fills(q) /\ BuildOf[p] # BuildOf[q] => elapsed > 0

(* A build is recorded by a process that had not recorded it yet: a reconnect *)
(* of a process of the build before does not take the record back.            *)
ReconnectTakesNothingBack ==
  [][recorded' # recorded =>
       \E p \in Process: BuildOf[p] = recorded' /\ Up(p) /\ proc[p].until = Unknown]_vars
=============================================================================
