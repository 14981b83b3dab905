----------------------------- MODULE MultiCache -----------------------------
(* The two-tier cache of packages/memory (CacheMulti): every process keeps a  *)
(* local tier, all of them share one redis tier, and a change is announced to *)
(* the other processes on the bus so that they drop their local copy.         *)
(*                                                                            *)
(* A call is one asynchronous get, set, delete or clear; a process runs       *)
(* several at once and each `await` is a step of its own. The commands of a   *)
(* process travel on one connection and are served in the order they were     *)
(* sent; the bus messages arrive on a second one, in the order redis saw the  *)
(* publications, whatever the first connection is doing.                      *)
(*                                                                            *)
(* A value is the number of the `set` that wrote it. `retired`, `completed`,  *)
(* `peerRetired` and `ownRetired` are history variables: they only state      *)
(* which values a change meant to drop.                                       *)
EXTENDS Naturals, Sequences

CONSTANTS Proc,       \* the processes of the deployment
          Key,        \* cache keys
          Call,       \* the asynchronous calls that may be in flight
          ProcOf,     \* the process a call runs in
          MaxWrites,  \* bound: how many sets, deletes and clears are begun
          None        \* no value; as the key of a message: every key

ASSUME ProcOfAssumption == ProcOf \in [Call -> Proc]
ASSUME MaxWritesAssumption == MaxWrites \in Nat
ASSUME NoneAssumption == None \notin Nat /\ None \notin Key

VARIABLES
  local,        \* local[p][k]: the local tier of process p
  redis,        \* redis[k]: the shared tier
  gen,          \* gen[p]: clearGeneration of process p
  call,         \* call[c]: where the asynchronous call c stands
  conn,         \* conn[p]: the calls whose command waits to be served
  inbox,        \* inbox[p]: bus messages published and not yet handled by p
  writes,       \* how many sets, deletes and clears were begun
  completed,    \* <<key, value>> of every set that has returned
  peerRetired,  \* those retired by a peer's change p has been told of
  ownRetired    \* those dropped by a delete or clear of p that has returned

vars == <<local, redis, gen, call, conn, inbox, writes,
          completed, peerRetired, ownRetired>>

Value == 1..MaxWrites

Idle == [op |-> "idle", pc |-> "idle", key |-> None, val |-> None, gen |-> 0,
         todo |-> {}, found |-> {}, retired |-> {}]

Init ==
  /\ local = [p \in Proc |-> [k \in Key |-> None]]
  /\ redis = [k \in Key |-> None]
  /\ gen = [p \in Proc |-> 0]
  /\ call = [c \in Call |-> Idle]
  /\ conn = [p \in Proc |-> <<>>]
  /\ inbox = [p \in Proc |-> <<>>]
  /\ writes = 0
  /\ completed = {}
  /\ peerRetired = [p \in Proc |-> {}]
  /\ ownRetired = [p \in Proc |-> {}]

(* A command leaves on the connection of the call's process. *)
Send(c) == conn' = [conn EXCEPT ![ProcOf[c]] = Append(@, c)]

(* Call c is the next one redis answers on its connection. *)
Served(c) ==
  /\ conn[ProcOf[c]] # <<>>
  /\ Head(conn[ProcOf[c]]) = c

Answer(c) == conn' = [conn EXCEPT ![ProcOf[c]] = Tail(@)]

-----------------------------------------------------------------------------
(* get *)

(* A local miss: the generation is read and GET is sent. A local hit returns  *)
(* without changing anything.                                                 *)
GetBegin(c, k) ==
  LET p == ProcOf[c] IN
  /\ call[c] = Idle
  /\ local[p][k] = None
  /\ call' = [call EXCEPT ![c] =
       [Idle EXCEPT !.op = "get", !.pc = "sent", !.key = k, !.gen = gen[p],
                    !.retired = peerRetired[p] \cup ownRetired[p]]]
  /\ Send(c)
  /\ UNCHANGED <<local, redis, gen, inbox, writes, completed, peerRetired, ownRetired>>

ServeGet(c) ==
  /\ Served(c)
  /\ call[c].op = "get"
  /\ call' = [call EXCEPT ![c].pc = "answered", ![c].val = redis[call[c].key]]
  /\ Answer(c)
  /\ UNCHANGED <<local, redis, gen, inbox, writes, completed, peerRetired, ownRetired>>

(* The value is decompressed: it refills the local tier unless the process    *)
(* applied a clear since the generation was read.                             *)
MayRefill(c) ==
  /\ call[c].val # None
  /\ gen[ProcOf[c]] = call[c].gen

GetEnd(c) ==
  LET p == ProcOf[c] IN
  /\ call[c].op = "get" /\ call[c].pc = "answered"
  /\ local' = IF MayRefill(c)
                THEN [local EXCEPT ![p][call[c].key] = call[c].val]
                ELSE local
  /\ call' = [call EXCEPT ![c] = Idle]
  /\ UNCHANGED <<redis, gen, conn, inbox, writes, completed, peerRetired, ownRetired>>

-----------------------------------------------------------------------------
(* set, delete, clear: the local tier changes as the call begins, the shared  *)
(* one when redis serves the command, and the bus is told after that.         *)

(* A clear applied without advancing the generation *)
KeepGeneration(p) == UNCHANGED gen

AdvanceGeneration(p) == gen' = [gen EXCEPT ![p] = @ + 1]

BeginWrite(c, op, k, v, pc) ==
  /\ call[c] = Idle
  /\ writes < MaxWrites
  /\ writes' = writes + 1
  /\ AdvanceGeneration(ProcOf[c])
  /\ call' = [call EXCEPT ![c] =
       [Idle EXCEPT !.op = op, !.pc = pc, !.key = k, !.val = v,
                    !.todo = IF op = "clear" THEN Key ELSE {},
                    !.retired = {kv \in completed : k \in {kv[1], None}}]]
  /\ UNCHANGED <<redis, inbox, completed, peerRetired, ownRetired>>

(* A value of 1000 bytes or more is compressed before SET leaves. *)
SetBegin(c, k) ==
  /\ \/ BeginWrite(c, "set", k, writes + 1, "sent") /\ Send(c)
     \/ BeginWrite(c, "set", k, writes + 1, "compressing") /\ UNCHANGED conn
  /\ local' = [local EXCEPT ![ProcOf[c]][k] = writes + 1]

SetCompressed(c) ==
  /\ call[c].pc = "compressing"
  /\ call' = [call EXCEPT ![c].pc = "sent"]
  /\ Send(c)
  /\ UNCHANGED <<local, redis, gen, inbox, writes, completed, peerRetired, ownRetired>>

DeleteBegin(c, k) ==
  /\ BeginWrite(c, "delete", k, None, "sent")
  /\ Send(c)
  /\ local' = [local EXCEPT ![ProcOf[c]][k] = None]

ClearBegin(c) ==
  /\ BeginWrite(c, "clear", None, None, "scan")
  /\ Send(c)
  /\ local' = [local EXCEPT ![ProcOf[c]] = [k \in Key |-> None]]

(* SET or UNLINK of one key. *)
ServeWrite(c) ==
  /\ Served(c)
  /\ call[c].op \in {"set", "delete"} /\ call[c].pc = "sent"
  /\ redis' = [redis EXCEPT ![call[c].key] = call[c].val]
  /\ call' = [call EXCEPT ![c].pc = "written"]
  /\ Answer(c)
  /\ UNCHANGED <<local, gen, inbox, writes, completed, peerRetired, ownRetired>>

(* One page of the SCAN: the keys of the page that exist join the pipeline of *)
(* UNLINKs, which is sent only once the whole walk is over.                   *)
ServeScan(c) ==
  /\ Served(c)
  /\ call[c].pc = "scan"
  /\ \E page \in SUBSET call[c].todo \ {{}}:
       call' = [call EXCEPT ![c].pc = "scanned",
                            ![c].todo = @ \ page,
                            ![c].found = @ \cup {k \in page : redis[k] # None}]
  /\ Answer(c)
  /\ UNCHANGED <<local, redis, gen, inbox, writes, completed, peerRetired, ownRetired>>

(* A walk that stops at its first page *)
ClearScannedOnePage(c) ==
  /\ call[c].pc = "scanned"
  /\ call' = [call EXCEPT ![c].pc = "unlink"]
  /\ Send(c)
  /\ UNCHANGED <<local, redis, gen, inbox, writes, completed, peerRetired, ownRetired>>

ClearScanned(c) ==
  /\ call[c].pc = "scanned"
  /\ call' = [call EXCEPT ![c].pc = IF call[c].todo = {} THEN "unlink" ELSE "scan"]
  /\ Send(c)
  /\ UNCHANGED <<local, redis, gen, inbox, writes, completed, peerRetired, ownRetired>>

(* The pipeline is served command by command, so another connection may come  *)
(* between two of its UNLINKs.                                                *)
ServeUnlink(c) ==
  /\ Served(c)
  /\ call[c].pc = "unlink"
  /\ \E page \in SUBSET call[c].found:
       /\ page = {} => call[c].found = {}
       /\ redis' = [k \in Key |-> IF k \in page THEN None ELSE redis[k]]
       /\ IF page = call[c].found
            THEN /\ call' = [call EXCEPT ![c].pc = "written", ![c].found = {}]
                 /\ Answer(c)
            ELSE /\ call' = [call EXCEPT ![c].found = @ \ page]
                 /\ UNCHANGED conn
  /\ UNCHANGED <<local, gen, inbox, writes, completed, peerRetired, ownRetired>>

(* clearOthers: both tiers are done, the message leaves. *)
ClearOthers(c) ==
  /\ call[c].pc = "written"
  /\ call' = [call EXCEPT ![c].pc = "publish"]
  /\ Send(c)
  /\ UNCHANGED <<local, redis, gen, inbox, writes, completed, peerRetired, ownRetired>>

(* A message that does not say who sent it *)
MessageOfNobody(c) ==
  [key |-> call[c].key, origin |-> None, retired |-> call[c].retired]

Message(c) ==
  [key |-> call[c].key, origin |-> ProcOf[c], retired |-> call[c].retired]

ServePublish(c) ==
  /\ Served(c)
  /\ call[c].pc = "publish"
  /\ inbox' = [p \in Proc |-> Append(inbox[p], Message(c))]
  /\ call' = [call EXCEPT ![c].pc = "published"]
  /\ Answer(c)
  /\ UNCHANGED <<local, redis, gen, writes, completed, peerRetired, ownRetired>>

WriteEnd(c) ==
  LET p == ProcOf[c] IN
  /\ call[c].pc = "published"
  /\ call' = [call EXCEPT ![c] = Idle]
  /\ completed' = IF call[c].op = "set"
                    THEN completed \cup {<<call[c].key, call[c].val>>} ELSE completed
  /\ ownRetired' = [ownRetired EXCEPT ![p] =
                       IF call[c].op = "set" THEN @ ELSE @ \cup call[c].retired]
  /\ UNCHANGED <<local, redis, gen, conn, inbox, writes, peerRetired>>

-----------------------------------------------------------------------------
(* A message reaches process p: its own is ignored; a peer's advances the     *)
(* generation and drops the key, or the whole local tier.                     *)
OnMessageClear(p) ==
  /\ inbox[p] # <<>>
  /\ inbox' = [inbox EXCEPT ![p] = Tail(@)]
  /\ LET m == Head(inbox[p]) IN
       IF m.origin = p
         THEN UNCHANGED <<local, gen, peerRetired>>
         ELSE /\ AdvanceGeneration(p)
              /\ local' = [local EXCEPT ![p] =
                   [k \in Key |-> IF m.key \in {k, None} THEN None ELSE @[k]]]
              /\ peerRetired' = [peerRetired EXCEPT ![p] = @ \cup m.retired]
  /\ UNCHANGED <<redis, call, conn, writes, completed, ownRetired>>

(* The least recently used entry leaves a full local tier. *)
Evict(p, k) ==
  /\ local[p][k] # None
  /\ local' = [local EXCEPT ![p][k] = None]
  /\ UNCHANGED <<redis, gen, call, conn, inbox, writes, completed, peerRetired, ownRetired>>

Next ==
  \/ \E c \in Call:
       \/ \E k \in Key: GetBegin(c, k) \/ SetBegin(c, k) \/ DeleteBegin(c, k)
       \/ ServeGet(c) \/ GetEnd(c)
       \/ SetCompressed(c) \/ ServeWrite(c)
       \/ ClearBegin(c) \/ ServeScan(c) \/ ClearScanned(c) \/ ServeUnlink(c)
       \/ ClearOthers(c) \/ ServePublish(c) \/ WriteEnd(c)
  \/ \E p \in Proc: OnMessageClear(p) \/ \E k \in Key: Evict(p, k)

Spec == Init /\ [][Next]_vars

-----------------------------------------------------------------------------
CallState ==
  [op : {"idle", "get", "set", "delete", "clear"},
   pc : {"idle", "compressing", "sent", "answered", "scan", "scanned", "unlink",
         "written", "publish", "published"},
   key : Key \cup {None}, val : Value \cup {None}, gen : Nat,
   todo : SUBSET Key, found : SUBSET Key, retired : SUBSET (Key \X Value)]

MessageType ==
  [key : Key \cup {None}, origin : Proc, retired : SUBSET (Key \X Value)]

(* The types of the state of CacheMulti, its redis connection and its bus. *)
TypeOK ==
  /\ local \in [Proc -> [Key -> Value \cup {None}]]
  /\ redis \in [Key -> Value \cup {None}]
  /\ gen \in [Proc -> Nat]
  /\ call \in [Call -> CallState]
  /\ conn \in [Proc -> Seq(Call)]
  /\ inbox \in [Proc -> Seq(MessageType)]
  /\ writes \in 0..MaxWrites
  /\ completed \subseteq Key \X Value
  /\ peerRetired \in [Proc -> SUBSET (Key \X Value)]
  /\ ownRetired \in [Proc -> SUBSET (Key \X Value)]

(* Once a process has handled the message of a peer's set, delete or clear,   *)
(* its local tier never again holds a value whose set had returned before     *)
(* that change began: the generation comparison of `get` keeps a value read   *)
(* before the message, and still being decompressed, from coming back.        *)
PeerChangeIsNotUndone ==
  \A p \in Proc, k \in Key: <<k, local[p][k]>> \notin peerRetired[p]

(* A lookup that goes to redis never answers a value retired by a change the  *)
(* process had been told of, or had itself finished, when the lookup began:   *)
(* the message is only published once the shared tier is done.                *)
AnswerIsNotRetired ==
  \A c \in Call:
    call[c].pc = "answered" => <<call[c].key, call[c].val>> \notin call[c].retired

(* What the comment on clearGeneration promises of the process's own clears:  *)
(* once they have returned, the local tier no longer holds what they dropped. *)
OwnChangeIsNotUndone ==
  \A p \in Proc, k \in Key: <<k, local[p][k]>> \notin ownRetired[p]
=============================================================================
