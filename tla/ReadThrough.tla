------------------------------ MODULE ReadThrough ------------------------------
(* What the response cache promises of one read, whatever fills it and        *)
(* purges it: the answer it keeps may lag behind the data only while a writer *)
(* is at work, and only a writer takes it away.                               *)
CONSTANTS
  Writer, \* those who write the data and owe the purges of what they wrote
  None    \* nothing cached

VARIABLES
  data,    \* what the read answers from the database
  cached,  \* what the cache answers
  writing  \* the writers at work

vars == <<data, cached, writing>>

Init == cached = None /\ writing = {}

Fill == cached = None /\ cached' = data /\ UNCHANGED <<data, writing>>

Start(w) == w \notin writing /\ writing' = writing \cup {w} /\ UNCHANGED <<data, cached>>

(* A writer may write, purge, or do both at once. *)
Work(w) == w \in writing /\ cached' \in {cached, None} /\ UNCHANGED writing

Right(answer) == answer \in {None, data}

(* The last one to end leaves nothing stale. *)
Finish(w) ==
  /\ w \in writing /\ writing' = writing \ {w}
  /\ cached' \in {cached, None} /\ UNCHANGED data
  /\ writing' = {} => Right(cached')

Next == Fill \/ \E w \in Writer : Start(w) \/ Work(w) \/ Finish(w)

Spec == Init /\ [][Next]_vars

(* What is cached while no writer is at work is the data itself, the promise  *)
(* of services/items.ts that a mutation returns once its purge ran.           *)
SettledIsRight == writing = {} => Right(cached)
=============================================================================
