------------------------ MODULE ScopedCacheFillHistory ------------------------
(* The fills and purges of ScopedCacheFill, with the history that says which  *)
(* entries the code answers for. The variables added here guard no step; the  *)
(* steps are those of ScopedCacheFill.                                        *)
(*                                                                            *)
(* Two things take an entry out of the code's reach. A fill is not told of a  *)
(* purge whose counter redis refuses to move: lost, kept and forgotten say    *)
(* which mutations a fill, an entry or every fill was not told of. And a      *)
(* purge finds an entry through the index: unnamed says which entries the     *)
(* index has been without, as a later fill may file the key of one again.     *)
EXTENDS ScopedCacheFill

VARIABLES
  lost,      \* lost[r]: the mutations fill r was not told of
  kept,      \* kept[k]: the mutations nothing more is done about under k
  forgotten, \* the mutations whose counters went in a flush that did not move
             \* the wholesale one, until that one moves
  unnamed    \* the filings kept entries have been without

history == <<lost, kept, forgotten, unnamed>>
historyVars == <<vars, history>>

-----------------------------------------------------------------------------
(* The mutations whose purge has moved its counter, or failed to *)
Begun == {w \in Mutation : purge[w].pc \notin {"idle", "committed"}}

(* A guarded fill whose query has run, and which finds no counter moved *)
Filling == {"queried", "filed", "stored"}

Racing(r) == read[r].guarded /\ read[r].pc \in Filling /\ ~Moved(r)

(* The read's entry is there, or another of the same rows. *)
Stands(r) == /\ read[r].key \in Key
             /\ entry[read[r].key] # None /\ entry[read[r].key].seen = read[r].seen

(* What the step does: it refuses the move of a purge's counter ... *)
Refused ==
  {w \in Mutation : purge[w].pc = "committed" /\ purge'[w].pc # "committed" /\ bumps' = bumps}

(* ... flushes the counters without moving the wholesale one ... *)
FlushedUnmoved ==
  \E w \in Purger: purge[w].pc = "flushdb" /\ purge'[w].pc = "rebump"

(* ... writes the entry of a read, ends one that found no counter moved, or   *)
(* ends one whose eviction neither happened nor was recorded.                 *)
Goes(r, from, to) == read[r].pc = from /\ read'[r].pc = to

Writes(r) == Goes(r, "filed", "stored") /\ Stands(r)'

Keeps(r) == Goes(r, "stored", "idle") /\ read[r].guarded /\ Stands(r)

GivesUp(r) ==
  Goes(r, "recording", "idle") /\ Stands(r) /\ read[r].key \notin pending'

-----------------------------------------------------------------------------
(* A fill in flight is not told of a purge whose move was refused. *)
RememberLost ==
  lost' = [r \in Read |-> IF read'[r].pc = "idle" THEN {}
                          ELSE IF Racing(r) THEN lost[r] \cup Refused ELSE lost[r]]

(* An entry is kept as its fill left it, by a fill that compared while the    *)
(* counters were forgotten, or by one that failed to evict it.                *)
RememberKept ==
  kept' = [k \in Key |-> {w \in Mutation :
    \/ entry'[k] # None /\ entry'[k] = entry[k] /\ w \in kept[k]
    \/ \E r \in Read: /\ read[r].key = k
                      /\ \/ Writes(r) /\ w \in lost[r]
                         \/ Keeps(r) /\ w \in forgotten
                         \/ GivesUp(r)}]

RememberForgotten ==
  forgotten' = IF FlushedUnmoved THEN Begun
               ELSE IF bumps'[Star] # bumps[Star] THEN {} ELSE forgotten

(* A set moved aside, until a purge which dropped its entries releases it *)
MovedAside(k, s) ==
  \E w \in Purger: /\ k \in swept[<<w, s>>]
                   /\ \A v \in Purger: purge[v].pc = "release" => <<w, s>> \notin purge[v].sets

(* What names an entry in a slice *)
Named(k, s) == k \in index[s] \/ MovedAside(k, s)

(* A filing that is missing while its entry is kept counts as long as that    *)
(* entry does.                                                                *)
Lost(k, s) == ~Named(k, s)' \/ (<<k, s>> \in unnamed /\ entry'[k] = entry[k])

Unname ==
  unnamed' = {f \in Key \X Slice :
                f[2] \in FiledIn[f[1]] /\ entry'[f[1]] # None /\ Lost(f[1], f[2])}

HistoryInit ==
  /\ Init
  /\ lost = [r \in Read |-> {}] /\ kept = [k \in Key |-> {}]
  /\ forgotten = {} /\ unnamed = {}

HistoryNext == Next /\ RememberLost /\ RememberKept /\ RememberForgotten /\ Unname

HistorySpec == HistoryInit /\ [][HistoryNext]_historyVars

-----------------------------------------------------------------------------
(* The mutations of slice s that rows seen are without, but for those whose   *)
(* counters are forgotten                                                     *)
Missed(seen, s) == written[s] \ (seen[s] \cup forgotten)

(* The fill guard: once its query has run, a guarded read whose rows are      *)
(* without a mutation finds a counter moved, unless the purge of that         *)
(* mutation has yet to move it - and so has yet to look for the entries to    *)
(* drop. The code excepts the fills in flight when redis refuses that move,   *)
(* and, when it refuses the one inside a flush of the database, those that    *)
(* compare before the wholesale counter next moves (fill-guard.ts, lines      *)
(* 143-148; purge.ts, lines 764-766).                                         *)
GuardCatchesEveryPurge ==
  \A r \in Read: (read[r].guarded /\ read[r].pc \in Filling) =>
    \A s \in FiledIn[read[r].key]: \A w \in Missed(read[r].seen, s) \ lost[r]:
      Moved(r) \/ purge[w].pc = "committed"

(* The superseded slices of an entry the code answers for *)
Stale(k) ==
  IF entry[k] # None /\ entry[k].guarded
    THEN {s \in FiledIn[k] : Missed(entry[k].seen, s) \ kept[k] # {}} ELSE {}

(* What still comes for the entry under k, stale at slice s and named there:  *)
(* a purge that has yet to read the set, or has read it and drops next, a     *)
(* read that will evict, a set that is moved aside, or a recorded retry.      *)
WillRead(w, s) ==
  \/ purge[w].pc \in {"committed"} \cup AllModes /\ s \in purge[w].slices
  \/ purge[w].pc = "collect" /\ s \in purge[w].todo

WillDropFound(w, k) ==
  purge[w].pc = "drop" /\ purge[w].mode = "row" /\ k \in purge[w].found

MustEvict(r, k) ==
  /\ read[r].key = k /\ Stands(r)
  /\ \/ read[r].pc = "stored" /\ read[r].guarded /\ Moved(r)
     \/ read[r].pc = "evicting"
     \/ read[r].pc = "probing" /\ read[r].swallowed
     \/ read[r].pc = "recording"

Reached(k, s) ==
  \/ \E w \in Purger: WillRead(w, s) \/ WillDropFound(w, k)
  \/ \E r \in Read: MustEvict(r, k)
  \/ MovedAside(k, s)
  \/ k \in pending

(* No entry serves a superseded slice with nothing left to drop it: a purge   *)
(* is on its way to it, its own read is bound to evict it, a set moved aside  *)
(* names it, as the recovery drops what it names, or its eviction was         *)
(* recorded for a retry. The exceptions are those the code states: a fill     *)
(* that a failed reading left unguarded, one that was not told of the purge   *)
(* as redis refused to move its counter, one that compared after a flush of   *)
(* the database whose own move redis refused and before the next move of that *)
(* counter, and one whose eviction failed and could not be recorded either.   *)
StaleEntryIsOwed ==
  \A k \in Key: \A s \in Stale(k): Reached(k, s)

(* The same for any number of purges, but for the entries that have at some   *)
(* time been kept without the filing that slice's purge finds them by.        *)
StaleFilingIsReached ==
  \A k \in Key: \A s \in Stale(k): <<k, s>> \notin unnamed => Reached(k, s)
=============================================================================
