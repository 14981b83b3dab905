---------------------------- MODULE MultiCacheProofs ----------------------------
(* Proofs about MultiCache, for any processes, keys, calls and writes.        *)
EXTENDS MultiCache, SequenceTheorems, TLAPS

-----------------------------------------------------------------------------
(* What makes the properties inductive *)

Writing == {"set", "delete", "clear"}

(* What a call is about, by where it stands *)
Shaped(s) ==
  /\ s.op \in {"get", "set", "delete"} => s.key \in Key
  /\ s.op = "clear" => s.key = None
  /\ s.op = "set" => s.val \in Value
  /\ s.op \in {"delete", "clear"} => s.val = None
  /\ s.op = "get" => s.pc \in {"sent", "answered"}
  /\ s.pc = "answered" => s.op = "get"
  /\ s.pc = "compressing" => s.op = "set"
  /\ s.pc \in {"scan", "scanned", "unlink"} => s.op = "clear"
  /\ s.pc \in {"written", "publish", "published"} => s.op \in Writing
  /\ s.pc = "unlink" => s.todo = {}

TypeInv == TypeOK /\ \A c \in Call: Shaped(call[c])

(* A set in flight has a value of its own, that no set returned with.         *)
SetsAreNew ==
  /\ \A kv \in completed: kv[2] <= writes
  /\ \A c \in Call: call[c].op = "set" =>
       /\ call[c].val <= writes
       /\ \A kv \in completed: kv[2] # call[c].val
       /\ \A d \in Call \ {c}: call[d].op = "set" => call[d].val # call[c].val

(* A value a set returned with never comes back to redis once it left it.     *)
Gone == {kv \in completed : redis[kv[1]] # kv[2]}

(* What a change retires is of its keys, and has left redis when the change   *)
(* is over with it, or is ahead of its walk; what a lookup must not answer    *)
(* has left before.                                                           *)
Retires(s) ==
  /\ s.op = "get" => s.retired \subseteq Gone
  /\ s.op \in Writing => \A kv \in s.retired: kv \in completed /\ s.key \in {kv[1], None}
  /\ s.pc \in {"written", "publish", "published"} => s.retired \subseteq Gone
  /\ s.pc \in {"scan", "scanned", "unlink"} =>
       \A kv \in s.retired: redis[kv[1]] = kv[2] => kv[1] \in s.todo \cup s.found

Tells(m) == m.retired \subseteq Gone /\ \A kv \in m.retired: m.key \in {kv[1], None}

(* A lookup of an unchanged generation began with all a peer retired since.   *)
Knows(c) ==
  call[c].op = "get" =>
    /\ call[c].gen <= gen[ProcOf[c]]
    /\ call[c].gen = gen[ProcOf[c]] => peerRetired[ProcOf[c]] \subseteq call[c].retired

BusTells == \A p \in Proc: \A i \in DOMAIN inbox[p]: Tells(inbox[p][i])

RetiredAreGone == \A p \in Proc: peerRetired[p] \cup ownRetired[p] \subseteq Gone

RetiredInv ==
  /\ TypeInv /\ SetsAreNew
  /\ \A c \in Call: Retires(call[c]) /\ Knows(c)
  /\ BusTells /\ RetiredAreGone
  /\ PeerChangeIsNotUndone /\ AnswerIsNotRetired

-----------------------------------------------------------------------------
(* The types *)

LEMMA Homes == \A c \in Call: ProcOf[c] \in Proc
  BY ProcOfAssumption DEF ProcOfAssumption

LEMMA Values == Value \subseteq Nat \ {0} /\ None \notin Value /\ None \notin Key /\ MaxWrites \in Nat
  BY MaxWritesAssumption, NoneAssumption DEF Value, MaxWritesAssumption, NoneAssumption

LEMMA IdleTypes == Idle \in CallState /\ Shaped(Idle)
  BY DEF Idle, CallState, Shaped, Writing

LEMMA Connection ==
  ASSUME TypeInv, NEW c \in Call, Send(c) \/ (Served(c) /\ Answer(c)) \/ UNCHANGED conn
  PROVE  conn' \in [Proc -> Seq(Call)]
  <1>1. conn \in [Proc -> Seq(Call)] /\ ProcOf[c] \in Proc
    BY Homes DEF TypeInv, TypeOK
  <1>2. CASE Send(c)
    <2>1. Append(conn[ProcOf[c]], c) \in Seq(Call)
      BY <1>1, AppendProperties
    <2>. QED BY <1>1, <1>2, <2>1 DEF Send
  <1>3. CASE Served(c) /\ Answer(c)
    <2>1. Tail(conn[ProcOf[c]]) \in Seq(Call)
      BY <1>1, <1>3, HeadTailProperties DEF Served
    <2>. QED BY <1>1, <1>3, <2>1 DEF Answer
  <1>. QED BY <1>1, <1>2, <1>3

(* A step of one call that leaves the buses alone *)
LEMMA CallTypes ==
  ASSUME TypeInv, NEW c \in Call, NEW state \in CallState, Shaped(state),
         call' = [call EXCEPT ![c] = state],
         Send(c) \/ (Served(c) /\ Answer(c)) \/ UNCHANGED conn,
         local' \in [Proc -> [Key -> Value \cup {None}]], redis' \in [Key -> Value \cup {None}],
         gen' \in [Proc -> Nat], inbox' \in [Proc -> Seq(MessageType)], writes' \in 0 .. MaxWrites,
         completed' \subseteq Key \X Value, peerRetired' = peerRetired,
         ownRetired' \in [Proc -> SUBSET (Key \X Value)]
  PROVE  TypeInv'
  <1>1. call' \in [Call -> CallState] /\ \A d \in Call: Shaped(call'[d])
    BY DEF TypeInv, TypeOK
  <1>2. conn' \in [Proc -> Seq(Call)]
    BY Connection
  <1>. QED BY <1>1, <1>2 DEF TypeInv, TypeOK

(* What the steps that only move a call make of it *)
LEMMA MoveTypes ==
  ASSUME TypeInv, NEW c \in Call,
         \/ ServeGet(c) \/ SetCompressed(c) \/ ServeScan(c) \/ ClearScanned(c) \/ ClearOthers(c)
  PROVE  TypeInv'
  <1>1. /\ call[c] \in CallState /\ Shaped(call[c])
        /\ UNCHANGED <<local, redis, gen, inbox, writes, completed, peerRetired, ownRetired>>
    BY DEF TypeInv, TypeOK, ServeGet, SetCompressed, ServeScan, ClearScanned, ClearOthers
  <1>2. Send(c) \/ (Served(c) /\ Answer(c))
    BY DEF ServeGet, SetCompressed, ServeScan, ClearScanned, ClearOthers
  <1>3. \E state \in CallState: Shaped(state) /\ call' = [call EXCEPT ![c] = state]
    <2>1. CASE ServeGet(c)
      <3>. DEFINE state == [call[c] EXCEPT !.pc = "answered", !.val = redis[call[c].key]]
      <3>1. redis[call[c].key] \in Value \cup {None}
        BY <1>1, <2>1 DEF ServeGet, Shaped, TypeInv, TypeOK
      <3>2. state \in CallState /\ Shaped(state)
        BY <1>1, <2>1, <3>1 DEF ServeGet, CallState, Shaped
      <3>. QED BY <2>1, <3>2 DEF ServeGet
    <2>2. CASE SetCompressed(c)
      <3>. DEFINE state == [call[c] EXCEPT !.pc = "sent"]
      <3>1. state \in CallState /\ Shaped(state)
        BY <1>1, <2>2 DEF SetCompressed, CallState, Shaped
      <3>. QED BY <2>2, <3>1 DEF SetCompressed
    <2>3. CASE ServeScan(c)
      <3>1. PICK page \in SUBSET call[c].todo \ {{}}:
              call' = [call EXCEPT ![c].pc = "scanned", ![c].todo = @ \ page,
                                   ![c].found = @ \cup {k \in page : redis[k] # None}]
        BY <2>3 DEF ServeScan
      <3>. DEFINE found == call[c].found \cup {k \in page : redis[k] # None}
                  todo == call[c].todo \ page
                  state == [call[c] EXCEPT !.pc = "scanned", !.todo = todo, !.found = found]
      <3>2. call' = [call EXCEPT ![c] = state]
        BY <3>1
      <3>3. found \in SUBSET Key /\ todo \in SUBSET Key
        BY <1>1 DEF CallState
      <3>. HIDE DEF found, todo
      <3>4. state \in CallState /\ Shaped(state)
        BY <1>1, <2>3, <3>3 DEF ServeScan, CallState, Shaped
      <3>. QED BY <3>2, <3>4
    <2>4. CASE ClearScanned(c)
      <3>. DEFINE state == [call[c] EXCEPT !.pc = IF call[c].todo = {} THEN "unlink" ELSE "scan"]
      <3>1. state \in CallState /\ Shaped(state)
        BY <1>1, <2>4 DEF ClearScanned, CallState, Shaped
      <3>. QED BY <2>4, <3>1 DEF ClearScanned
    <2>5. CASE ClearOthers(c)
      <3>. DEFINE state == [call[c] EXCEPT !.pc = "publish"]
      <3>1. state \in CallState /\ Shaped(state)
        BY <1>1, <2>5 DEF ClearOthers, CallState, Shaped, Writing
      <3>. QED BY <2>5, <3>1 DEF ClearOthers
    <2>. QED BY <2>1, <2>2, <2>3, <2>4, <2>5
  <1>. QED BY <1>1, <1>2, <1>3, CallTypes DEF TypeInv, TypeOK

LEMMA GetTypes ==
  ASSUME TypeInv, NEW c \in Call, (\E k \in Key: GetBegin(c, k)) \/ GetEnd(c)
  PROVE  TypeInv'
  <1>1. CASE \E k \in Key: GetBegin(c, k)
    <2>1. PICK k \in Key: GetBegin(c, k)
      BY <1>1
    <2>. DEFINE retired == peerRetired[ProcOf[c]] \cup ownRetired[ProcOf[c]]
                state == [Idle EXCEPT !.op = "get", !.pc = "sent", !.key = k, !.gen = gen[ProcOf[c]],
                                      !.retired = retired]
    <2>2. retired \in SUBSET (Key \X Value) /\ gen[ProcOf[c]] \in Nat
      BY Homes DEF TypeInv, TypeOK
    <2>3. call' = [call EXCEPT ![c] = state]
      BY <2>1 DEF GetBegin
    <2>. HIDE DEF retired
    <2>4. state \in CallState /\ Shaped(state)
      BY <2>2 DEF Idle, CallState, Shaped, Writing
    <2>5. /\ UNCHANGED <<local, redis, gen, inbox, writes, completed, peerRetired, ownRetired>>
          /\ Send(c)
      BY <2>1 DEF GetBegin
    <2>. QED BY <2>3, <2>4, <2>5, CallTypes DEF TypeInv, TypeOK
  <1>2. CASE GetEnd(c)
    <2>1. /\ UNCHANGED <<redis, gen, conn, inbox, writes, completed, peerRetired, ownRetired>>
          /\ call' = [call EXCEPT ![c] = Idle]
      BY <1>2 DEF GetEnd
    <2>2. local' \in [Proc -> [Key -> Value \cup {None}]]
      <3>1. ProcOf[c] \in Proc /\ call[c].key \in Key /\ call[c].val \in Value \cup {None}
        BY <1>2, Homes DEF GetEnd, TypeInv, TypeOK, CallState, Shaped
      <3>2. local' = [local EXCEPT ![ProcOf[c]][call[c].key] = call[c].val] \/ local' = local
        BY <1>2 DEF GetEnd
      <3>3. local \in [Proc -> [Key -> Value \cup {None}]]
        BY DEF TypeInv, TypeOK
      <3>4. [local EXCEPT ![ProcOf[c]][call[c].key] = call[c].val]
              \in [Proc -> [Key -> Value \cup {None}]]
        BY <3>1, <3>3
      <3>. QED BY <3>2, <3>3, <3>4
    <2>. QED BY <2>1, <2>2, IdleTypes, CallTypes DEF TypeInv, TypeOK
  <1>. QED BY <1>1, <1>2

(* What a set, a delete or a clear that begins does: the call it becomes, and *)
(* the local tier it leaves.                                                  *)
LEMMA Begun ==
  ASSUME TypeInv, NEW c \in Call,
         (\E k \in Key: SetBegin(c, k) \/ DeleteBegin(c, k)) \/ ClearBegin(c)
  PROVE  \E state \in CallState:
           /\ Shaped(state) /\ call' = [call EXCEPT ![c] = state] /\ call[c] = Idle
           /\ state.op \in Writing /\ state.pc \in {"compressing", "sent", "scan"}
           /\ state.op = "set" => state.val = writes + 1
           /\ state.retired = {kv \in completed : state.key \in {kv[1], None}}
           /\ state.pc = "scan" => state.todo = Key
           /\ writes < MaxWrites /\ writes' = writes + 1
           /\ gen' = [gen EXCEPT ![ProcOf[c]] = @ + 1]
           /\ UNCHANGED <<redis, inbox, completed, peerRetired, ownRetired>>
           /\ Send(c) \/ UNCHANGED conn
           /\ local' \in [Proc -> [Key -> Value \cup {None}]]
           /\ \A p \in Proc, k \in Key: local'[p][k] \in {local[p][k], None, writes + 1}
  <1>1. /\ ProcOf[c] \in Proc /\ writes \in 0 .. MaxWrites /\ completed \subseteq Key \X Value
        /\ local \in [Proc -> [Key -> Value \cup {None}]]
    BY Homes DEF TypeInv, TypeOK
  <1>. DEFINE old(k) == {kv \in completed : k \in {kv[1], None}}
              begun(op, k, v, pc) ==
                [Idle EXCEPT !.op = op, !.pc = pc, !.key = k, !.val = v,
                             !.todo = IF op = "clear" THEN Key ELSE {}, !.retired = old(k)]
  <1>2. ASSUME NEW k \in Key, NEW pc \in {"sent", "compressing"}, BeginWrite(c, "set", k, writes + 1, pc)
        PROVE  /\ begun("set", k, writes + 1, pc) \in CallState /\ Shaped(begun("set", k, writes + 1, pc))
               /\ writes + 1 \in Value
    <2>1. writes + 1 \in Value
      BY <1>1, <1>2, Values DEF BeginWrite, Value
    <2>2. old(k) \in SUBSET (Key \X Value)
      BY <1>1
    <2>. HIDE DEF old
    <2>. QED BY <2>1, <2>2 DEF Idle, CallState, Shaped, Writing
  <1>3. ASSUME NEW k \in Key
        PROVE  begun("delete", k, None, "sent") \in CallState /\ Shaped(begun("delete", k, None, "sent"))
    <2>1. old(k) \in SUBSET (Key \X Value)
      BY <1>1
    <2>. HIDE DEF old
    <2>. QED BY <2>1 DEF Idle, CallState, Shaped, Writing
  <1>4. begun("clear", None, None, "scan") \in CallState /\ Shaped(begun("clear", None, None, "scan"))
    <2>1. old(None) \in SUBSET (Key \X Value)
      BY <1>1
    <2>. HIDE DEF old
    <2>. QED BY <2>1 DEF Idle, CallState, Shaped, Writing
  <1>5. ASSUME NEW op \in Writing, NEW k, NEW v, NEW pc
        PROVE  /\ begun(op, k, v, pc).op = op /\ begun(op, k, v, pc).pc = pc
               /\ begun(op, k, v, pc).key = k /\ begun(op, k, v, pc).val = v
               /\ begun(op, k, v, pc).retired = old(k)
               /\ op = "clear" => begun(op, k, v, pc).todo = Key
    BY DEF Idle
  <1>6. ASSUME NEW op, NEW k, NEW v, NEW pc, BeginWrite(c, op, k, v, pc)
        PROVE  /\ call' = [call EXCEPT ![c] = begun(op, k, v, pc)] /\ call[c] = Idle
               /\ writes < MaxWrites /\ writes' = writes + 1
               /\ gen' = [gen EXCEPT ![ProcOf[c]] = @ + 1]
               /\ UNCHANGED <<redis, inbox, completed, peerRetired, ownRetired>>
    BY <1>6 DEF BeginWrite, AdvanceGeneration
  <1>. HIDE DEF begun
  <1>7. ASSUME NEW k \in Key, NEW v \in Value \cup {None},
               local' = [local EXCEPT ![ProcOf[c]][k] = v]
        PROVE  /\ local' \in [Proc -> [Key -> Value \cup {None}]]
               /\ \A p \in Proc, l \in Key: local'[p][l] \in {local[p][l], v}
    BY <1>1, <1>7
  <1>8. CASE \E k \in Key: SetBegin(c, k)
    <2>1. PICK k \in Key: SetBegin(c, k)
      BY <1>8
    <2>2. PICK pc \in {"sent", "compressing"}:
            BeginWrite(c, "set", k, writes + 1, pc) /\ (Send(c) \/ UNCHANGED conn)
      BY <2>1 DEF SetBegin
    <2>3. local' = [local EXCEPT ![ProcOf[c]][k] = writes + 1]
      BY <2>1 DEF SetBegin
    <2>4. "set" \in Writing /\ writes + 1 \in Value \cup {None}
      BY <1>2, <2>2 DEF Writing
    <2>. DEFINE begins == begun("set", k, writes + 1, pc)
    <2>5. begins \in CallState /\ Shaped(begins)
      BY <1>2, <2>2
    <2>6. /\ begins.op = "set" /\ begins.pc = pc /\ begins.key = k /\ begins.val = writes + 1
          /\ begins.retired = old(k)
      BY <1>5, <2>4
    <2>7. /\ call' = [call EXCEPT ![c] = begins] /\ call[c] = Idle
          /\ writes < MaxWrites /\ writes' = writes + 1
          /\ gen' = [gen EXCEPT ![ProcOf[c]] = @ + 1]
          /\ UNCHANGED <<redis, inbox, completed, peerRetired, ownRetired>>
      BY <1>6, <2>2
    <2>8. /\ local' \in [Proc -> [Key -> Value \cup {None}]]
          /\ \A p \in Proc, l \in Key: local'[p][l] \in {local[p][l], None, writes + 1}
      <3>. DEFINE value == writes + 1
      <3>1. value \in Value \cup {None} /\ local' = [local EXCEPT ![ProcOf[c]][k] = value]
        BY <2>3, <2>4
      <3>. HIDE DEF value
      <3>2. /\ local' \in [Proc -> [Key -> Value \cup {None}]]
            /\ \A p \in Proc, l \in Key: local'[p][l] \in {local[p][l], value}
        BY <1>7, <3>1
      <3>. QED BY <3>2 DEF value
    <2>. HIDE DEF begins
    <2>. QED BY <2>2, <2>4, <2>5, <2>6, <2>7, <2>8
  <1>9. CASE \E k \in Key: DeleteBegin(c, k)
    <2>1. PICK k \in Key: DeleteBegin(c, k)
      BY <1>9
    <2>2. BeginWrite(c, "delete", k, None, "sent") /\ Send(c)
          /\ local' = [local EXCEPT ![ProcOf[c]][k] = None] /\ "delete" \in Writing
      BY <2>1 DEF DeleteBegin, Writing
    <2>. DEFINE begins == begun("delete", k, None, "sent")
    <2>3. begins \in CallState /\ Shaped(begins)
      BY <1>3
    <2>4. begins.op = "delete" /\ begins.pc = "sent" /\ begins.key = k /\ begins.retired = old(k)
      BY <1>5, <2>2
    <2>5. /\ call' = [call EXCEPT ![c] = begins] /\ call[c] = Idle
          /\ writes < MaxWrites /\ writes' = writes + 1
          /\ gen' = [gen EXCEPT ![ProcOf[c]] = @ + 1]
          /\ UNCHANGED <<redis, inbox, completed, peerRetired, ownRetired>>
      BY <1>6, <2>2
    <2>6. /\ local' \in [Proc -> [Key -> Value \cup {None}]]
          /\ \A p \in Proc, l \in Key: local'[p][l] \in {local[p][l], None, writes + 1}
      BY <1>7, <2>2
    <2>. HIDE DEF begins
    <2>. QED BY <2>2, <2>3, <2>4, <2>5, <2>6
  <1>10. CASE ClearBegin(c)
    <2>1. BeginWrite(c, "clear", None, None, "scan") /\ Send(c) /\ "clear" \in Writing
          /\ local' = [local EXCEPT ![ProcOf[c]] = [k \in Key |-> None]]
      BY <1>10 DEF ClearBegin, Writing
    <2>2. /\ local' \in [Proc -> [Key -> Value \cup {None}]]
          /\ \A p \in Proc, l \in Key: local'[p][l] \in {local[p][l], None}
      BY <1>1, <2>1
    <2>. QED BY <1>4, <1>5, <1>6, <2>1, <2>2
  <1>. QED BY <1>8, <1>9, <1>10

LEMMA BeginTypes ==
  ASSUME TypeInv, NEW c \in Call,
         (\E k \in Key: SetBegin(c, k) \/ DeleteBegin(c, k)) \/ ClearBegin(c)
  PROVE  TypeInv'
  <1>1. PICK state \in CallState:
           /\ Shaped(state) /\ call' = [call EXCEPT ![c] = state]
           /\ writes < MaxWrites /\ writes' = writes + 1
           /\ gen' = [gen EXCEPT ![ProcOf[c]] = @ + 1]
           /\ UNCHANGED <<redis, inbox, completed, peerRetired, ownRetired>>
           /\ Send(c) \/ UNCHANGED conn
           /\ local' \in [Proc -> [Key -> Value \cup {None}]]
    BY Begun
  <1>2. writes' \in 0 .. MaxWrites /\ gen' \in [Proc -> Nat]
    BY <1>1, Values, Homes DEF TypeInv, TypeOK
  <1>. QED BY <1>1, <1>2, CallTypes DEF TypeInv, TypeOK

LEMMA ServeTypes ==
  ASSUME TypeInv, NEW c \in Call, ServeWrite(c) \/ ServeUnlink(c) \/ ServePublish(c)
  PROVE  TypeInv'
  <1>1. call[c] \in CallState /\ Shaped(call[c]) /\ redis \in [Key -> Value \cup {None}]
    BY DEF TypeInv, TypeOK
  <1>2. CASE ServeWrite(c)
    <2>. DEFINE written == [call[c] EXCEPT !.pc = "written"]
    <2>1. written \in CallState /\ Shaped(written)
      BY <1>1, <1>2 DEF ServeWrite, CallState, Shaped, Writing
    <2>2. /\ call' = [call EXCEPT ![c] = written] /\ Served(c) /\ Answer(c)
          /\ UNCHANGED <<local, gen, inbox, writes, completed, peerRetired, ownRetired>>
      BY <1>2 DEF ServeWrite
    <2>3. redis' \in [Key -> Value \cup {None}]
      <3>1. call[c].val \in Value \cup {None}
        BY <1>1 DEF CallState
      <3>. QED BY <1>1, <1>2, <3>1 DEF ServeWrite
    <2>. HIDE DEF written
    <2>. QED BY <2>1, <2>2, <2>3, CallTypes DEF TypeInv, TypeOK
  <1>3. CASE ServeUnlink(c)
    <2>1. PICK page \in SUBSET call[c].found:
            /\ redis' = [k \in Key |-> IF k \in page THEN None ELSE redis[k]]
            /\ IF page = call[c].found
                 THEN /\ call' = [call EXCEPT ![c].pc = "written", ![c].found = {}]
                      /\ Answer(c)
                 ELSE /\ call' = [call EXCEPT ![c].found = @ \ page]
                      /\ UNCHANGED conn
      BY <1>3 DEF ServeUnlink
    <2>. DEFINE written == [call[c] EXCEPT !.pc = "written", !.found = {}]
                partly == [call[c] EXCEPT !.found = @ \ page]
    <2>2. written \in CallState /\ Shaped(written)
      BY <1>1, <1>3 DEF ServeUnlink, CallState, Shaped, Writing
    <2>3. partly \in CallState /\ Shaped(partly)
      BY <1>1 DEF CallState, Shaped, Writing
    <2>4. (call' = [call EXCEPT ![c] = written] /\ Answer(c))
          \/ (call' = [call EXCEPT ![c] = partly] /\ UNCHANGED conn)
      <3>1. CASE page = call[c].found
        <4>1. call' = [call EXCEPT ![c].pc = "written", ![c].found = {}] /\ Answer(c)
          BY <2>1, <3>1
        <4>. QED BY <4>1
      <3>2. CASE page # call[c].found
        <4>1. call' = [call EXCEPT ![c].found = @ \ page] /\ UNCHANGED conn
          BY <2>1, <3>2
        <4>. QED BY <4>1
      <3>. QED BY <3>1, <3>2
    <2>5. redis' \in [Key -> Value \cup {None}]
      BY <1>1, <2>1
    <2>6. /\ Served(c)
          /\ UNCHANGED <<local, gen, inbox, writes, completed, peerRetired, ownRetired>>
      BY <1>3 DEF ServeUnlink
    <2>. HIDE DEF written, partly
    <2>. QED BY <2>2, <2>3, <2>4, <2>5, <2>6, CallTypes DEF TypeInv, TypeOK
  <1>4. CASE ServePublish(c)
    <2>. DEFINE published == [call[c] EXCEPT !.pc = "published"]
    <2>1. published \in CallState /\ Shaped(published)
      BY <1>1, <1>4 DEF ServePublish, CallState, Shaped, Writing
    <2>2. /\ call' = [call EXCEPT ![c] = published] /\ Served(c) /\ Answer(c)
          /\ inbox' = [p \in Proc |-> Append(inbox[p], Message(c))]
          /\ UNCHANGED <<local, redis, gen, writes, completed, peerRetired, ownRetired>>
      BY <1>4 DEF ServePublish
    <2>3. Message(c) \in MessageType
      BY <1>1, Homes DEF Message, MessageType, CallState
    <2>4. inbox' \in [Proc -> Seq(MessageType)]
      BY <2>2, <2>3, AppendProperties DEF TypeInv, TypeOK
    <2>. HIDE DEF published
    <2>. QED BY <2>1, <2>2, <2>4, CallTypes DEF TypeInv, TypeOK
  <1>. QED BY <1>2, <1>3, <1>4

LEMMA EndTypes ==
  ASSUME TypeInv, NEW c \in Call, WriteEnd(c)
  PROVE  TypeInv'
  <1>1. call[c] \in CallState /\ Shaped(call[c]) /\ call[c].op \in Writing
    BY DEF TypeInv, TypeOK, WriteEnd, Shaped
  <1>2. completed' \subseteq Key \X Value
    <2>1. call[c].op = "set" => <<call[c].key, call[c].val>> \in Key \X Value
      BY <1>1 DEF Shaped
    <2>. QED BY <2>1 DEF WriteEnd, TypeInv, TypeOK
  <1>3. ownRetired' \in [Proc -> SUBSET (Key \X Value)]
    <2>1. call[c].retired \in SUBSET (Key \X Value)
      BY <1>1 DEF CallState
    <2>. QED BY <2>1, Homes DEF WriteEnd, TypeInv, TypeOK
  <1>4. /\ call' = [call EXCEPT ![c] = Idle]
        /\ UNCHANGED <<local, redis, gen, conn, inbox, writes, peerRetired>>
    BY DEF WriteEnd
  <1>. QED BY <1>2, <1>3, <1>4, IdleTypes, CallTypes DEF TypeInv, TypeOK

LEMMA ProcessTypes ==
  ASSUME TypeInv, NEW p \in Proc, OnMessageClear(p) \/ \E k \in Key: Evict(p, k)
  PROVE  TypeInv'
  <1>0. local \in [Proc -> [Key -> Value \cup {None}]] /\ inbox[p] \in Seq(MessageType)
        /\ inbox \in [Proc -> Seq(MessageType)]
    BY DEF TypeInv, TypeOK
  <1>1. CASE OnMessageClear(p)
    <2>1. Head(inbox[p]) \in MessageType /\ Tail(inbox[p]) \in Seq(MessageType)
      BY <1>0, <1>1, HeadTailProperties DEF OnMessageClear
    <2>2. /\ inbox' = [inbox EXCEPT ![p] = Tail(@)]
          /\ UNCHANGED <<redis, call, conn, writes, completed, ownRetired>>
      BY <1>1 DEF OnMessageClear
    <2>3. inbox' \in [Proc -> Seq(MessageType)]
      BY <1>0, <2>1, <2>2
    <2>4. CASE UNCHANGED <<local, gen, peerRetired>>
      BY <2>2, <2>3, <2>4 DEF TypeInv, TypeOK
    <2>5. CASE /\ gen' = [gen EXCEPT ![p] = @ + 1]
               /\ local' = [local EXCEPT ![p] =
                    [k \in Key |-> IF Head(inbox[p]).key \in {k, None} THEN None ELSE @[k]]]
               /\ peerRetired' = [peerRetired EXCEPT ![p] = @ \cup Head(inbox[p]).retired]
      <3>1. Head(inbox[p]).retired \in SUBSET (Key \X Value)
        BY <2>1 DEF MessageType
      <3>2. peerRetired' \in [Proc -> SUBSET (Key \X Value)] /\ gen' \in [Proc -> Nat]
        BY <2>5, <3>1 DEF TypeInv, TypeOK
      <3>3. local' \in [Proc -> [Key -> Value \cup {None}]]
        BY <1>0, <2>5
      <3>. QED BY <2>2, <2>3, <3>2, <3>3 DEF TypeInv, TypeOK
    <2>. QED BY <1>1, <2>4, <2>5 DEF OnMessageClear, AdvanceGeneration
  <1>2. CASE \E k \in Key: Evict(p, k)
    <2>1. /\ UNCHANGED <<redis, gen, call, conn, inbox, writes, completed, peerRetired, ownRetired>>
          /\ local' \in [Proc -> [Key -> Value \cup {None}]]
      BY <1>0, <1>2 DEF Evict
    <2>. QED BY <2>1 DEF TypeInv, TypeOK
  <1>. QED BY <1>1, <1>2

LEMMA NextTypes == TypeInv /\ [Next]_vars => TypeInv'
  <1>. SUFFICES ASSUME TypeInv, [Next]_vars PROVE TypeInv'
    OBVIOUS
  <1>1. CASE UNCHANGED vars
    BY <1>1 DEF vars, TypeInv, TypeOK
  <1>2. CASE Next
    BY <1>2, MoveTypes, GetTypes, BeginTypes, ServeTypes, EndTypes, ProcessTypes DEF Next
  <1>. QED BY <1>1, <1>2

LEMMA InitTypes == Init => TypeInv
  <1>. SUFFICES ASSUME Init PROVE TypeInv
    OBVIOUS
  <1>1. 0 \in 0 .. MaxWrites
    BY Values
  <1>2. call \in [Call -> CallState] /\ \A c \in Call: Shaped(call[c])
    BY IdleTypes DEF Init
  <1>3. conn \in [Proc -> Seq(Call)] /\ inbox \in [Proc -> Seq(MessageType)]
    BY EmptySeq DEF Init
  <1>. QED BY <1>1, <1>2, <1>3 DEF Init, TypeInv, TypeOK

(* TypeOK: the types of the tiers, the calls, the connection and the bus.     *)
THEOREM TypeCorrect == Spec => []TypeOK
  <1>1. TypeInv => TypeOK
    BY DEF TypeInv
  <1>. QED BY <1>1, InitTypes, NextTypes, PTL DEF Spec

-----------------------------------------------------------------------------
(* What a step may leave of the invariant as it was *)

(* No value a set returned with comes back to redis. *)
NothingReturns ==
  /\ completed \subseteq completed'
  /\ \A kv \in completed: redis[kv[1]] # kv[2] => redis'[kv[1]] # kv[2]

OthersStand(c) == \A d \in Call \ {c}: call'[d] = call[d]

LEMMA GoneGrows == NothingReturns => Gone \subseteq Gone'
  BY DEF NothingReturns, Gone

LEMMA OthersRetire ==
  ASSUME RetiredInv, NothingReturns, NEW c \in Call, OthersStand(c), Retires(call[c])'
  PROVE  \A d \in Call: Retires(call[d])'
  <1>. SUFFICES ASSUME NEW d \in Call \ {c} PROVE Retires(call[d])'
    OBVIOUS
  <1>1. Retires(call[d]) /\ call'[d] = call[d] /\ Gone \subseteq Gone'
    BY GoneGrows DEF RetiredInv, OthersStand
  <1>. DEFINE s == call[d]
  <1>2. s.op = "get" => s.retired \subseteq Gone'
    BY <1>1 DEF Retires
  <1>3. s.op \in Writing => \A kv \in s.retired: kv \in completed' /\ s.key \in {kv[1], None}
    BY <1>1 DEF Retires, NothingReturns
  <1>4. s.pc \in {"written", "publish", "published"} => s.retired \subseteq Gone'
    BY <1>1 DEF Retires
  <1>5. s.pc \in {"scan", "scanned", "unlink"} =>
          \A kv \in s.retired: redis'[kv[1]] = kv[2] => kv[1] \in s.todo \cup s.found
    <2>1. s.pc \in {"scan", "scanned", "unlink"} => s.op \in Writing
      BY DEF RetiredInv, TypeInv, Shaped, Writing
    <2>. QED BY <1>1, <2>1 DEF Retires, NothingReturns
  <1>. QED BY <1>1, <1>2, <1>3, <1>4, <1>5 DEF Retires

LEMMA OthersKnow ==
  ASSUME RetiredInv, NEW c \in Call, OthersStand(c), Knows(c)', UNCHANGED peerRetired,
         gen' \in [Proc -> Nat], \A p \in Proc: gen[p] <= gen'[p]
  PROVE  \A d \in Call: Knows(d)'
  <1>. SUFFICES ASSUME NEW d \in Call \ {c} PROVE Knows(d)'
    OBVIOUS
  <1>1. Knows(d) /\ call'[d] = call[d] /\ ProcOf[d] \in Proc
    BY Homes DEF RetiredInv, OthersStand
  <1>2. gen[ProcOf[d]] \in Nat /\ gen'[ProcOf[d]] \in Nat /\ call[d].gen \in Nat
    BY <1>1 DEF RetiredInv, TypeInv, TypeOK, CallState
  <1>3. gen[ProcOf[d]] <= gen'[ProcOf[d]]
    BY <1>1
  <1>. QED BY <1>1, <1>2, <1>3 DEF Knows

LEMMA BusKept ==
  ASSUME RetiredInv, NothingReturns, UNCHANGED inbox
  PROVE  BusTells'
  BY GoneGrows DEF RetiredInv, BusTells, Tells

LEMMA GoneKept ==
  ASSUME RetiredInv, NothingReturns, UNCHANGED <<peerRetired, ownRetired>>
  PROVE  RetiredAreGone'
  BY GoneGrows DEF RetiredInv, RetiredAreGone

LEMMA NewKept ==
  ASSUME RetiredInv, UNCHANGED <<completed, writes>>,
         \A d \in Call: call'[d].op = "set" => call[d].op = "set" /\ call'[d].val = call[d].val
  PROVE  SetsAreNew'
  <1>1. \A kv \in completed': kv[2] <= writes'
    BY DEF RetiredInv, SetsAreNew
  <1>2. ASSUME NEW c \in Call, call'[c].op = "set"
        PROVE  /\ call'[c].val <= writes'
               /\ \A kv \in completed': kv[2] # call'[c].val
               /\ \A d \in Call \ {c}: call'[d].op = "set" => call'[d].val # call'[c].val
    BY <1>2 DEF RetiredInv, SetsAreNew
  <1>. QED BY <1>1, <1>2 DEF SetsAreNew

LEMMA LocalKept ==
  ASSUME RetiredInv, UNCHANGED peerRetired,
         \A p \in Proc, k \in Key: local'[p][k] \in {local[p][k], None, writes + 1}
  PROVE  PeerChangeIsNotUndone'
  <1>. SUFFICES ASSUME NEW p \in Proc, NEW k \in Key
                PROVE  <<k, local'[p][k]>> \notin peerRetired[p]
    BY DEF PeerChangeIsNotUndone
  <1>1. peerRetired[p] \subseteq completed /\ completed \subseteq Key \X Value /\ writes \in Nat
    BY Values DEF RetiredInv, RetiredAreGone, Gone, TypeInv, TypeOK
  <1>2. <<k, local[p][k]>> \notin peerRetired[p]
    BY DEF RetiredInv, PeerChangeIsNotUndone
  <1>3. <<k, None>> \notin peerRetired[p]
    BY <1>1, Values
  <1>4. <<k, writes + 1>> \notin peerRetired[p]
    BY <1>1 DEF RetiredInv, SetsAreNew
  <1>. QED BY <1>2, <1>3, <1>4

LEMMA AnswersKept ==
  ASSUME RetiredInv, NEW c \in Call, OthersStand(c),
         call'[c].pc = "answered" => <<call'[c].key, call'[c].val>> \notin call'[c].retired
  PROVE  AnswerIsNotRetired'
  BY DEF RetiredInv, AnswerIsNotRetired, OthersStand

-----------------------------------------------------------------------------
(* The steps *)

LEMMA CallStep ==
  ASSUME RetiredInv, TypeInv', NEW c \in Call, NothingReturns, OthersStand(c),
         Retires(call[c])', Knows(c)',
         call'[c].pc = "answered" => <<call'[c].key, call'[c].val>> \notin call'[c].retired,
         UNCHANGED peerRetired, \A p \in Proc: gen[p] <= gen'[p],
         SetsAreNew', BusTells', RetiredAreGone', PeerChangeIsNotUndone'
  PROVE  RetiredInv'
  <1>1. gen' \in [Proc -> Nat]
    BY DEF TypeInv, TypeOK
  <1>2. \A d \in Call: Knows(d)'
    BY <1>1, OthersKnow
  <1>3. \A d \in Call: Retires(call[d])'
    BY OthersRetire
  <1>4. AnswerIsNotRetired'
    BY AnswersKept
  <1>. QED BY <1>2, <1>3, <1>4 DEF RetiredInv

(* A step of a call under way that touches nothing but itself and redis       *)
LEMMA QuietStep ==
  ASSUME RetiredInv, TypeInv', NEW c \in Call, NothingReturns, OthersStand(c),
         UNCHANGED <<local, gen, inbox, writes, completed, peerRetired, ownRetired>>,
         Retires(call[c])',
         call'[c].op = call[c].op, call'[c].gen = call[c].gen, call'[c].retired = call[c].retired,
         call[c].op = "set" => call'[c].val = call[c].val,
         call'[c].pc = "answered" => <<call'[c].key, call'[c].val>> \notin call'[c].retired
  PROVE  RetiredInv'
  <1>1. Knows(c)'
    BY DEF RetiredInv, Knows
  <1>2. \A d \in Call: call'[d].op = "set" => call[d].op = "set" /\ call'[d].val = call[d].val
    BY DEF OthersStand
  <1>3. SetsAreNew'
    BY <1>2, NewKept
  <1>4. PeerChangeIsNotUndone'
    BY LocalKept
  <1>5. \A p \in Proc: gen[p] <= gen'[p]
    BY DEF RetiredInv, TypeInv, TypeOK
  <1>6. BusTells' /\ RetiredAreGone'
    BY BusKept, GoneKept
  <1>. QED BY <1>1, <1>3, <1>4, <1>5, <1>6, CallStep

LEMMA MoveRetires ==
  ASSUME RetiredInv, TypeInv', NEW c \in Call,
         SetCompressed(c) \/ ClearScanned(c) \/ ClearOthers(c)
  PROVE  RetiredInv'
  <1>0. /\ UNCHANGED <<local, redis, gen, inbox, writes, completed, peerRetired, ownRetired>>
        /\ call \in [Call -> CallState]
    BY DEF SetCompressed, ClearScanned, ClearOthers, RetiredInv, TypeInv, TypeOK
  <1>1. /\ UNCHANGED <<local, redis, gen, inbox, writes, completed, peerRetired, ownRetired>>
        /\ OthersStand(c)
    <2>1. ASSUME NEW d \in Call \ {c} PROVE call'[d] = call[d]
      BY <1>0 DEF SetCompressed, ClearScanned, ClearOthers
    <2>. QED BY <1>0, <2>1 DEF OthersStand
  <1>2. NothingReturns /\ Gone' = Gone
    BY <1>1 DEF NothingReturns, Gone
  <1>3. call[c] \in CallState /\ Shaped(call[c]) /\ call \in [Call -> CallState] /\ Retires(call[c])
    BY DEF RetiredInv, TypeInv, TypeOK
  <1>4. \E pc \in {"sent", "unlink", "scan", "publish"}:
          /\ call'[c] = [call[c] EXCEPT !.pc = pc]
          /\ pc \in {"unlink", "scan"} => call[c].pc = "scanned"
          /\ pc = "publish" => call[c].pc = "written"
    BY <1>3 DEF SetCompressed, ClearScanned, ClearOthers
  <1>5. PICK pc \in {"sent", "unlink", "scan", "publish"}:
          /\ call'[c] = [call[c] EXCEPT !.pc = pc]
          /\ pc \in {"unlink", "scan"} => call[c].pc = "scanned"
          /\ pc = "publish" => call[c].pc = "written"
    BY <1>4
  <1>6. /\ call'[c].op = call[c].op /\ call'[c].gen = call[c].gen
        /\ call'[c].retired = call[c].retired /\ call'[c].val = call[c].val
        /\ call'[c].key = call[c].key /\ call'[c].todo = call[c].todo
        /\ call'[c].found = call[c].found /\ call'[c].pc = pc
    BY <1>3, <1>5 DEF CallState
  <1>7. Retires(call[c])'
    BY <1>1, <1>2, <1>3, <1>5, <1>6 DEF Retires
  <1>. QED BY <1>1, <1>2, <1>6, <1>7, QuietStep

LEMMA ServeGetRetires ==
  ASSUME RetiredInv, TypeInv', NEW c \in Call, ServeGet(c)
  PROVE  RetiredInv'
  <1>0. /\ UNCHANGED <<local, redis, gen, inbox, writes, completed, peerRetired, ownRetired>>
        /\ call \in [Call -> CallState]
    BY DEF ServeGet, RetiredInv, TypeInv, TypeOK
  <1>1. /\ UNCHANGED <<local, redis, gen, inbox, writes, completed, peerRetired, ownRetired>>
        /\ OthersStand(c)
    <2>1. ASSUME NEW d \in Call \ {c} PROVE call'[d] = call[d]
      BY <1>0 DEF ServeGet
    <2>. QED BY <1>0, <2>1 DEF OthersStand
  <1>2. NothingReturns /\ Gone' = Gone
    BY <1>1 DEF NothingReturns, Gone
  <1>3. /\ call[c] \in CallState /\ call \in [Call -> CallState] /\ Retires(call[c])
        /\ call[c].op = "get"
    BY DEF RetiredInv, TypeInv, TypeOK, ServeGet
  <1>4. call'[c] = [call[c] EXCEPT !.pc = "answered", !.val = redis[call[c].key]]
    BY <1>3 DEF ServeGet
  <1>5. /\ call'[c].op = "get" /\ call'[c].gen = call[c].gen /\ call'[c].retired = call[c].retired
        /\ call'[c].key = call[c].key /\ call'[c].pc = "answered"
        /\ call'[c].val = redis[call[c].key]
    BY <1>3, <1>4 DEF CallState
  <1>6. <<call[c].key, redis[call[c].key]>> \notin call[c].retired
    BY <1>3 DEF Retires, Gone
  <1>7. Retires(call[c])'
    BY <1>1, <1>2, <1>3, <1>5 DEF Retires, Writing
  <1>. QED BY <1>1, <1>2, <1>3, <1>5, <1>6, <1>7, QuietStep

LEMMA ServeWriteRetires ==
  ASSUME RetiredInv, TypeInv', NEW c \in Call, ServeWrite(c)
  PROVE  RetiredInv'
  <1>1. /\ UNCHANGED <<local, gen, inbox, writes, completed, peerRetired, ownRetired>>
        /\ OthersStand(c)
    BY DEF ServeWrite, OthersStand
  <1>2. /\ call[c] \in CallState /\ call \in [Call -> CallState] /\ Retires(call[c])
        /\ call[c].op \in {"set", "delete"} /\ call[c].key \in Key
        /\ call[c].op = "delete" => call[c].val = None
        /\ redis \in [Key -> Value \cup {None}] /\ completed \subseteq Key \X Value
    BY DEF RetiredInv, TypeInv, TypeOK, ServeWrite, Shaped
  <1>3. redis' = [redis EXCEPT ![call[c].key] = call[c].val]
    BY DEF ServeWrite
  <1>4. \A kv \in completed: kv[2] # call[c].val
    <2>1. CASE call[c].op = "set"
      BY <2>1 DEF RetiredInv, SetsAreNew
    <2>2. CASE call[c].op = "delete"
      BY <1>2, <2>2, Values
    <2>. QED BY <1>2, <2>1, <2>2
  <1>5. \A kv \in completed: redis'[kv[1]] = redis[kv[1]] \/ redis'[kv[1]] # kv[2]
    BY <1>2, <1>3, <1>4
  <1>6. NothingReturns
    BY <1>1, <1>5 DEF NothingReturns
  <1>7. call'[c] = [call[c] EXCEPT !.pc = "written"]
    BY <1>2 DEF ServeWrite
  <1>8. /\ call'[c].op = call[c].op /\ call'[c].gen = call[c].gen
        /\ call'[c].retired = call[c].retired /\ call'[c].val = call[c].val
        /\ call'[c].key = call[c].key /\ call'[c].pc = "written"
    BY <1>2, <1>7 DEF CallState
  <1>9. \A kv \in call[c].retired: kv \in completed /\ kv[1] = call[c].key
    BY <1>2, Values DEF Retires, Writing
  <1>10. call[c].retired \subseteq Gone'
    BY <1>1, <1>2, <1>3, <1>4, <1>9 DEF Gone
  <1>11. Retires(call[c])'
    BY <1>1, <1>2, <1>8, <1>10 DEF Retires
  <1>. QED BY <1>1, <1>6, <1>8, <1>11, QuietStep

LEMMA ServeScanRetires ==
  ASSUME RetiredInv, TypeInv', NEW c \in Call, ServeScan(c)
  PROVE  RetiredInv'
  <1>1. /\ UNCHANGED <<local, redis, gen, inbox, writes, completed, peerRetired, ownRetired>>
        /\ call \in [Call -> CallState] /\ call[c] \in CallState /\ Retires(call[c])
        /\ call[c].pc = "scan" /\ call[c].op = "clear" /\ completed \subseteq Key \X Value
    BY DEF ServeScan, RetiredInv, TypeInv, TypeOK, Shaped
  <1>2. PICK page \in SUBSET call[c].todo \ {{}}:
          call' = [call EXCEPT ![c].pc = "scanned", ![c].todo = @ \ page,
                               ![c].found = @ \cup {k \in page : redis[k] # None}]
    BY DEF ServeScan
  <1>. DEFINE found == call[c].found \cup {k \in page : redis[k] # None}
              todo == call[c].todo \ page
  <1>3. call'[c] = [call[c] EXCEPT !.pc = "scanned", !.todo = todo, !.found = found]
    BY <1>1, <1>2
  <1>4. OthersStand(c)
    BY <1>1, <1>2 DEF OthersStand
  <1>5. NothingReturns /\ Gone' = Gone
    BY <1>1 DEF NothingReturns, Gone
  <1>6. ASSUME NEW kv \in call[c].retired, redis[kv[1]] = kv[2]
        PROVE  kv[1] \in todo \cup found
    <2>1. kv[1] \in call[c].todo \cup call[c].found /\ kv \in completed
      BY <1>1, <1>6 DEF Retires, Writing
    <2>2. kv[2] # None
      BY <1>1, <2>1, Values
    <2>. QED BY <1>6, <2>1, <2>2
  <1>. HIDE DEF found, todo
  <1>7. /\ call'[c].op = "clear" /\ call'[c].gen = call[c].gen /\ call'[c].retired = call[c].retired
        /\ call'[c].key = call[c].key /\ call'[c].pc = "scanned"
        /\ call'[c].todo = todo /\ call'[c].found = found
    BY <1>1, <1>3 DEF CallState
  <1>8. Retires(call[c])'
    BY <1>1, <1>6, <1>7 DEF Retires, Writing
  <1>. QED BY <1>1, <1>4, <1>5, <1>7, <1>8, QuietStep

LEMMA ServeUnlinkRetires ==
  ASSUME RetiredInv, TypeInv', NEW c \in Call, ServeUnlink(c)
  PROVE  RetiredInv'
  <1>1. /\ UNCHANGED <<local, gen, inbox, writes, completed, peerRetired, ownRetired>>
        /\ call \in [Call -> CallState] /\ call[c] \in CallState /\ Retires(call[c])
        /\ call[c].pc = "unlink" /\ call[c].op = "clear" /\ call[c].todo = {}
        /\ completed \subseteq Key \X Value
    BY DEF ServeUnlink, RetiredInv, TypeInv, TypeOK, Shaped
  <1>2. PICK page \in SUBSET call[c].found:
          /\ redis' = [k \in Key |-> IF k \in page THEN None ELSE redis[k]]
          /\ IF page = call[c].found
               THEN /\ call' = [call EXCEPT ![c].pc = "written", ![c].found = {}]
                    /\ Answer(c)
               ELSE /\ call' = [call EXCEPT ![c].found = @ \ page]
                    /\ UNCHANGED conn
    BY DEF ServeUnlink
  <1>. DEFINE left == call[c].found \ page
              full == page = call[c].found
  <1>3. call'[c] = IF full THEN [call[c] EXCEPT !.pc = "written", !.found = {}]
                           ELSE [call[c] EXCEPT !.found = left]
    BY <1>1, <1>2
  <1>4. OthersStand(c)
    <2>1. ASSUME NEW d \in Call \ {c} PROVE call'[d] = call[d]
      BY <1>1, <1>2
    <2>. QED BY <2>1 DEF OthersStand
  <1>5. ASSUME NEW kv \in completed
        PROVE  /\ redis'[kv[1]] # None => redis'[kv[1]] = redis[kv[1]] /\ kv[1] \notin page
               /\ kv[2] # None
    BY <1>1, <1>2, Values
  <1>6. NothingReturns
    BY <1>1, <1>5 DEF NothingReturns
  <1>7. call[c].retired \subseteq completed
    BY <1>1 DEF Retires, Writing
  <1>8. ASSUME NEW kv \in call[c].retired, redis'[kv[1]] = kv[2]
        PROVE  kv[1] \in left
    BY <1>1, <1>5, <1>7, <1>8 DEF Retires
  <1>9. full => left = {}
    OBVIOUS
  <1>. HIDE DEF left, full
  <1>10. /\ call'[c].op = "clear" /\ call'[c].gen = call[c].gen /\ call'[c].retired = call[c].retired
         /\ call'[c].key = call[c].key /\ call'[c].pc # "answered"
         /\ full => call'[c].pc = "written"
         /\ ~full => call'[c].pc = "unlink" /\ call'[c].todo = {} /\ call'[c].found = left
    BY <1>1, <1>3 DEF CallState
  <1>11. Retires(call[c])'
    <2>1. \A kv \in call'[c].retired: kv \in completed' /\ call'[c].key \in {kv[1], None}
      BY <1>1, <1>10 DEF Retires, Writing
    <2>2. full => call'[c].retired \subseteq Gone'
      BY <1>1, <1>7, <1>8, <1>9, <1>10 DEF Gone
    <2>3. ~full => \A kv \in call'[c].retired: redis'[kv[1]] = kv[2] => kv[1] \in call'[c].found
      BY <1>8, <1>10
    <2>. QED BY <1>10, <2>1, <2>2, <2>3 DEF Retires
  <1>. QED BY <1>1, <1>4, <1>6, <1>10, <1>11, QuietStep

LEMMA ServePublishRetires ==
  ASSUME RetiredInv, TypeInv', NEW c \in Call, ServePublish(c)
  PROVE  RetiredInv'
  <1>1. /\ UNCHANGED <<local, redis, gen, writes, completed, peerRetired, ownRetired>>
        /\ call \in [Call -> CallState] /\ call[c] \in CallState /\ Retires(call[c])
        /\ call[c].pc = "publish" /\ call[c].op \in Writing
        /\ inbox \in [Proc -> Seq(MessageType)]
        /\ inbox' = [p \in Proc |-> Append(inbox[p], Message(c))]
    BY DEF ServePublish, RetiredInv, TypeInv, TypeOK, Shaped
  <1>2. call'[c] = [call[c] EXCEPT !.pc = "published"]
    BY <1>1 DEF ServePublish
  <1>3. OthersStand(c)
    <2>1. ASSUME NEW d \in Call \ {c} PROVE call'[d] = call[d]
      BY <1>1 DEF ServePublish
    <2>. QED BY <2>1 DEF OthersStand
  <1>4. NothingReturns /\ Gone' = Gone
    BY <1>1 DEF NothingReturns, Gone
  <1>5. /\ call'[c].op = call[c].op /\ call'[c].gen = call[c].gen
        /\ call'[c].retired = call[c].retired /\ call'[c].val = call[c].val
        /\ call'[c].key = call[c].key /\ call'[c].pc = "published"
    BY <1>1, <1>2 DEF CallState
  <1>6. Retires(call[c])'
    BY <1>1, <1>4, <1>5 DEF Retires
  <1>7. BusTells'
    <2>. SUFFICES ASSUME NEW p \in Proc, NEW i \in DOMAIN inbox'[p]
                  PROVE  /\ inbox'[p][i].retired \subseteq Gone'
                         /\ \A kv \in inbox'[p][i].retired: inbox'[p][i].key \in {kv[1], None}
      BY DEF BusTells, Tells
    <2>1. Message(c) \in MessageType
      BY <1>1, Homes DEF Message, MessageType, CallState
    <2>2. \/ i \in DOMAIN inbox[p] /\ inbox'[p][i] = inbox[p][i]
          \/ inbox'[p][i] = Message(c)
      BY <1>1, <2>1, AppendProperties
    <2>3. i \in DOMAIN inbox[p] => Tells(inbox[p][i])
      BY DEF RetiredInv, BusTells
    <2>4. Tells(Message(c))
      BY <1>1 DEF Tells, Message, Retires
    <2>. QED BY <1>4, <2>2, <2>3, <2>4 DEF Tells
  <1>8. SetsAreNew'
    <2>1. \A d \in Call: call'[d].op = "set" => call[d].op = "set" /\ call'[d].val = call[d].val
      BY <1>3, <1>5 DEF OthersStand
    <2>. QED BY <1>1, <2>1, NewKept
  <1>9. PeerChangeIsNotUndone' /\ RetiredAreGone'
    BY <1>1, <1>4, LocalKept, GoneKept
  <1>10. \A p \in Proc: gen[p] <= gen'[p]
    BY <1>1 DEF RetiredInv, TypeInv, TypeOK
  <1>11. Knows(c)'
    BY <1>1, <1>5 DEF Knows, Writing
  <1>. QED BY <1>1, <1>3, <1>4, <1>5, <1>6, <1>7, <1>8, <1>9, <1>10, <1>11, CallStep

LEMMA WriteEndRetires ==
  ASSUME RetiredInv, TypeInv', NEW c \in Call, WriteEnd(c)
  PROVE  RetiredInv'
  <1>1. /\ UNCHANGED <<local, redis, gen, conn, inbox, writes, peerRetired>>
        /\ call \in [Call -> CallState] /\ call[c] \in CallState /\ Retires(call[c])
        /\ call[c].op \in Writing /\ call[c].retired \subseteq Gone
        /\ completed' = IF call[c].op = "set"
                          THEN completed \cup {<<call[c].key, call[c].val>>} ELSE completed
        /\ ownRetired \in [Proc -> SUBSET (Key \X Value)]
    BY DEF WriteEnd, RetiredInv, TypeInv, TypeOK, Shaped, Retires
  <1>2. call'[c] = Idle /\ OthersStand(c)
    <2>1. ASSUME NEW d \in Call \ {c} PROVE call'[d] = call[d]
      BY <1>1 DEF WriteEnd
    <2>. QED BY <1>1, <2>1 DEF OthersStand, WriteEnd
  <1>3. NothingReturns
    BY <1>1 DEF NothingReturns
  <1>4. /\ call'[c].op = "idle" /\ call'[c].pc = "idle"
    BY <1>2 DEF Idle
  <1>5. Retires(call[c])' /\ Knows(c)'
    BY <1>4 DEF Retires, Knows, Writing
  <1>6. SetsAreNew'
    <2>. DEFINE new == <<call[c].key, call[c].val>>
    <2>1. new[2] = call[c].val
      OBVIOUS
    <2>2. \A kv \in completed': kv \in completed \/ (call[c].op = "set" /\ kv = new)
      BY <1>1
    <2>. HIDE DEF new
    <2>3. \A kv \in completed': kv[2] <= writes'
      BY <1>1, <2>1, <2>2 DEF RetiredInv, SetsAreNew
    <2>4. ASSUME NEW d \in Call, call'[d].op = "set"
          PROVE  /\ call'[d].val <= writes'
                 /\ \A kv \in completed': kv[2] # call'[d].val
                 /\ \A e \in Call \ {d}: call'[e].op = "set" => call'[e].val # call'[d].val
      <3>1. d # c /\ call'[d] = call[d]
        BY <1>2, <1>4, <2>4 DEF OthersStand
      <3>2. call[d].val <= writes'
        BY <1>1, <2>4, <3>1 DEF RetiredInv, SetsAreNew
      <3>3. \A kv \in completed': kv[2] # call[d].val
        BY <2>1, <2>2, <2>4, <3>1 DEF RetiredInv, SetsAreNew
      <3>4. \A e \in Call \ {d}: call'[e].op = "set" => call'[e].val # call[d].val
        BY <1>2, <1>4, <2>4, <3>1 DEF RetiredInv, SetsAreNew, OthersStand
      <3>. QED BY <3>1, <3>2, <3>3, <3>4
    <2>. QED BY <2>3, <2>4 DEF SetsAreNew
  <1>7. RetiredAreGone'
    <2>1. \A p \in Proc: ownRetired'[p] \subseteq ownRetired[p] \cup call[c].retired
      BY <1>1, Homes DEF WriteEnd
    <2>2. \A p \in Proc: peerRetired[p] \cup ownRetired[p] \subseteq Gone
      BY DEF RetiredInv, RetiredAreGone
    <2>. QED BY <1>1, <1>3, <2>1, <2>2, GoneGrows DEF RetiredAreGone
  <1>8. BusTells' /\ PeerChangeIsNotUndone'
    BY <1>1, <1>3, BusKept, LocalKept
  <1>9. \A p \in Proc: gen[p] <= gen'[p]
    BY <1>1 DEF RetiredInv, TypeInv, TypeOK
  <1>. QED BY <1>1, <1>2, <1>3, <1>4, <1>5, <1>6, <1>7, <1>8, <1>9, CallStep

LEMMA GetBeginRetires ==
  ASSUME RetiredInv, TypeInv', NEW c \in Call, \E k \in Key: GetBegin(c, k)
  PROVE  RetiredInv'
  <1>1. PICK k \in Key: GetBegin(c, k)
    OBVIOUS
  <1>. DEFINE retired == peerRetired[ProcOf[c]] \cup ownRetired[ProcOf[c]]
  <1>2. /\ UNCHANGED <<local, redis, gen, inbox, writes, completed, peerRetired, ownRetired>>
        /\ call \in [Call -> CallState]
        /\ call' = [call EXCEPT ![c] =
             [Idle EXCEPT !.op = "get", !.pc = "sent", !.key = k, !.gen = gen[ProcOf[c]],
                          !.retired = retired]]
    BY <1>1 DEF GetBegin, RetiredInv, TypeInv, TypeOK
  <1>3. retired \subseteq Gone /\ peerRetired[ProcOf[c]] \subseteq retired
        /\ gen[ProcOf[c]] \in Nat
    BY Homes DEF RetiredInv, RetiredAreGone, TypeInv, TypeOK
  <1>. HIDE DEF retired
  <1>4. OthersStand(c)
    <2>1. ASSUME NEW d \in Call \ {c} PROVE call'[d] = call[d]
      BY <1>2
    <2>. QED BY <2>1 DEF OthersStand
  <1>5. /\ call'[c].op = "get" /\ call'[c].pc = "sent" /\ call'[c].gen = gen[ProcOf[c]]
        /\ call'[c].retired = retired
    BY <1>2 DEF Idle
  <1>6. NothingReturns /\ Gone' = Gone
    BY <1>2 DEF NothingReturns, Gone
  <1>7. Retires(call[c])'
    BY <1>3, <1>5, <1>6 DEF Retires, Writing
  <1>8. Knows(c)'
    BY <1>2, <1>3, <1>5 DEF Knows
  <1>9. SetsAreNew'
    <2>1. \A d \in Call: call'[d].op = "set" => call[d].op = "set" /\ call'[d].val = call[d].val
      BY <1>4, <1>5 DEF OthersStand
    <2>. QED BY <1>2, <2>1, NewKept
  <1>10. BusTells' /\ RetiredAreGone' /\ PeerChangeIsNotUndone'
    BY <1>2, <1>6, BusKept, GoneKept, LocalKept
  <1>11. \A p \in Proc: gen[p] <= gen'[p]
    BY <1>2 DEF RetiredInv, TypeInv, TypeOK
  <1>. QED BY <1>2, <1>4, <1>5, <1>6, <1>7, <1>8, <1>9, <1>10, <1>11, CallStep

(* The refill: an unchanged generation and what the lookup must not answer    *)
(* keep a value that a peer retired out of the local tier.                    *)
LEMMA GetEndRetires ==
  ASSUME RetiredInv, TypeInv', NEW c \in Call, GetEnd(c)
  PROVE  RetiredInv'
  <1>. DEFINE here == ProcOf[c]
  <1>1. /\ UNCHANGED <<redis, gen, conn, inbox, writes, completed, peerRetired, ownRetired>>
        /\ call \in [Call -> CallState] /\ call[c] \in CallState /\ here \in Proc
        /\ call[c].op = "get" /\ call[c].pc = "answered" /\ call[c].key \in Key
        /\ local \in [Proc -> [Key -> Value \cup {None}]]
    BY Homes DEF GetEnd, RetiredInv, TypeInv, TypeOK, Shaped
  <1>2. call'[c] = Idle /\ OthersStand(c)
    <2>1. ASSUME NEW d \in Call \ {c} PROVE call'[d] = call[d]
      BY <1>1 DEF GetEnd
    <2>. QED BY <1>1, <2>1 DEF OthersStand, GetEnd
  <1>3. call'[c].op = "idle" /\ call'[c].pc = "idle"
    BY <1>2 DEF Idle
  <1>4. NothingReturns
    BY <1>1 DEF NothingReturns
  <1>5. Retires(call[c])' /\ Knows(c)'
    BY <1>3 DEF Retires, Knows, Writing
  <1>6. SetsAreNew'
    <2>1. \A d \in Call: call'[d].op = "set" => call[d].op = "set" /\ call'[d].val = call[d].val
      BY <1>2, <1>3 DEF OthersStand
    <2>. QED BY <1>1, <2>1, NewKept
  <1>7. PeerChangeIsNotUndone'
    <2>1. CASE MayRefill(c)
      <3>1. <<call[c].key, call[c].val>> \notin peerRetired[here]
        <4>1. peerRetired[here] \subseteq call[c].retired
          BY <1>1, <2>1 DEF RetiredInv, Knows, MayRefill
        <4>2. <<call[c].key, call[c].val>> \notin call[c].retired
          BY <1>1 DEF RetiredInv, AnswerIsNotRetired
        <4>. QED BY <4>1, <4>2
      <3>2. local' = [local EXCEPT ![here][call[c].key] = call[c].val]
        BY <2>1 DEF GetEnd
      <3>. SUFFICES ASSUME NEW p \in Proc, NEW k \in Key
                    PROVE  <<k, local'[p][k]>> \notin peerRetired[p]
        BY <1>1 DEF PeerChangeIsNotUndone
      <3>3. <<k, local[p][k]>> \notin peerRetired[p]
        BY DEF RetiredInv, PeerChangeIsNotUndone
      <3>. HIDE DEF here
      <3>4. \/ p = here /\ k = call[c].key /\ local'[p][k] = call[c].val
            \/ local'[p][k] = local[p][k]
        BY <1>1, <3>2
      <3>. QED BY <3>1, <3>3, <3>4
    <2>2. CASE ~MayRefill(c)
      <3>1. local' = local
        BY <2>2 DEF GetEnd
      <3>. QED BY <1>1, <3>1, LocalKept
    <2>. QED BY <2>1, <2>2
  <1>8. BusTells' /\ RetiredAreGone'
    BY <1>1, <1>4, BusKept, GoneKept
  <1>9. \A p \in Proc: gen[p] <= gen'[p]
    BY <1>1 DEF RetiredInv, TypeInv, TypeOK
  <1>. QED BY <1>1, <1>2, <1>3, <1>4, <1>5, <1>6, <1>7, <1>8, <1>9, CallStep

LEMMA BeginRetires ==
  ASSUME RetiredInv, TypeInv', NEW c \in Call,
         (\E k \in Key: SetBegin(c, k) \/ DeleteBegin(c, k)) \/ ClearBegin(c)
  PROVE  RetiredInv'
  <1>0. TypeInv /\ call \in [Call -> CallState] /\ gen \in [Proc -> Nat]
        /\ writes \in Nat /\ completed \subseteq Key \X Value
    BY Values DEF RetiredInv, TypeInv, TypeOK
  <1>1. PICK state \in CallState:
           /\ Shaped(state) /\ call' = [call EXCEPT ![c] = state]
           /\ state.op \in Writing /\ state.pc \in {"compressing", "sent", "scan"}
           /\ state.op = "set" => state.val = writes + 1
           /\ state.retired = {kv \in completed : state.key \in {kv[1], None}}
           /\ state.pc = "scan" => state.todo = Key
           /\ writes' = writes + 1
           /\ gen' = [gen EXCEPT ![ProcOf[c]] = @ + 1]
           /\ UNCHANGED <<redis, inbox, completed, peerRetired, ownRetired>>
           /\ \A p \in Proc, k \in Key: local'[p][k] \in {local[p][k], None, writes + 1}
    BY <1>0, Begun
  <1>2. call'[c] = state /\ OthersStand(c)
    BY <1>0, <1>1 DEF OthersStand
  <1>3. NothingReturns /\ Gone' = Gone
    BY <1>1 DEF NothingReturns, Gone
  <1>4. Retires(call[c])'
    BY <1>0, <1>1, <1>2 DEF Retires, Writing
  <1>5. Knows(c)'
    BY <1>1, <1>2 DEF Knows, Writing
  <1>6. SetsAreNew'
    <2>1. \A kv \in completed': kv[2] <= writes /\ kv[2] \in Nat
      BY <1>0, <1>1, Values DEF RetiredInv, SetsAreNew
    <2>2. ASSUME NEW d \in Call \ {c}, call'[d].op = "set"
          PROVE  /\ call'[d].val <= writes /\ call'[d].val \in Nat
                 /\ \A kv \in completed': kv[2] # call'[d].val
                 /\ \A e \in Call \ {c, d}: call'[e].op = "set" => call'[e].val # call'[d].val
      <3>1. call'[d] = call[d]
        BY <1>2 DEF OthersStand
      <3>2. call[d].val \in Nat
        BY <2>2, <3>1, Values DEF RetiredInv, TypeInv, Shaped
      <3>3. call[d].val <= writes /\ \A kv \in completed': kv[2] # call[d].val
        BY <1>1, <2>2, <3>1 DEF RetiredInv, SetsAreNew
      <3>4. \A e \in Call \ {c, d}: call'[e].op = "set" => call'[e].val # call[d].val
        BY <1>2, <2>2, <3>1 DEF RetiredInv, SetsAreNew, OthersStand
      <3>. QED BY <3>1, <3>2, <3>3, <3>4
    <2>3. ASSUME NEW d \in Call, call'[d].op = "set"
          PROVE  /\ call'[d].val <= writes'
                 /\ \A kv \in completed': kv[2] # call'[d].val
                 /\ \A e \in Call \ {d}: call'[e].op = "set" => call'[e].val # call'[d].val
      <3>1. CASE d = c
        <4>1. call'[d].val = writes + 1
          BY <1>1, <1>2, <2>3, <3>1
        <4>2. \A kv \in completed': kv[2] # writes + 1
          BY <1>0, <2>1
        <4>3. \A e \in Call \ {d}: call'[e].op = "set" => call'[e].val # writes + 1
          BY <1>0, <2>2, <3>1
        <4>. QED BY <1>0, <1>1, <4>1, <4>2, <4>3
      <3>2. CASE d # c
        <4>1. call'[d].val <= writes'
          BY <1>0, <1>1, <2>2, <2>3, <3>2
        <4>2. call'[c].op = "set" => call'[c].val # call'[d].val
          BY <1>0, <1>1, <1>2, <2>2, <2>3, <3>2
        <4>. QED BY <2>2, <2>3, <3>2, <4>1, <4>2
      <3>. QED BY <3>1, <3>2
    <2>. QED BY <1>0, <1>1, <2>1, <2>3 DEF SetsAreNew
  <1>7. BusTells' /\ RetiredAreGone' /\ PeerChangeIsNotUndone'
    BY <1>1, <1>3, BusKept, GoneKept, LocalKept
  <1>8. \A p \in Proc: gen[p] <= gen'[p]
    BY <1>0, <1>1
  <1>. QED BY <1>1, <1>2, <1>3, <1>4, <1>5, <1>6, <1>7, <1>8, CallStep

(* A message: what it retires leaves the local tier as the generation moves   *)
LEMMA MessageRetires ==
  ASSUME RetiredInv, TypeInv', NEW p \in Proc, OnMessageClear(p)
  PROVE  RetiredInv'
  <1>. DEFINE m == Head(inbox[p])
  <1>1. /\ UNCHANGED <<redis, call, conn, writes, completed, ownRetired>>
        /\ inbox[p] # <<>> /\ inbox' = [inbox EXCEPT ![p] = Tail(@)]
        /\ inbox \in [Proc -> Seq(MessageType)] /\ gen \in [Proc -> Nat]
        /\ local \in [Proc -> [Key -> Value \cup {None}]]
        /\ peerRetired \in [Proc -> SUBSET (Key \X Value)]
        /\ call \in [Call -> CallState]
    BY DEF OnMessageClear, RetiredInv, TypeInv, TypeOK
  <1>2. NothingReturns /\ Gone' = Gone
    BY <1>1 DEF NothingReturns, Gone
  <1>3. Tells(m)
    BY <1>1 DEF RetiredInv, BusTells
  <1>4. BusTells'
    <2>. SUFFICES ASSUME NEW q \in Proc, NEW i \in DOMAIN inbox'[q]
                  PROVE  /\ inbox'[q][i].retired \subseteq Gone'
                         /\ \A kv \in inbox'[q][i].retired: inbox'[q][i].key \in {kv[1], None}
      BY DEF BusTells, Tells
    <2>1. \E j \in DOMAIN inbox[q]: inbox'[q][i] = inbox[q][j]
      <3>1. CASE q = p
        <4>1. inbox'[q] = Tail(inbox[p]) /\ inbox[p] \in Seq(MessageType)
          BY <1>1, <3>1
        <4>2. /\ i + 1 \in DOMAIN inbox[p]
              /\ Tail(inbox[p])[i] = inbox[p][i + 1]
          BY <1>1, <4>1
        <4>. QED BY <3>1, <4>1, <4>2
      <3>2. CASE q # p
        BY <1>1, <3>2
      <3>. QED BY <3>1, <3>2
    <2>2. \A j \in DOMAIN inbox[q]: Tells(inbox[q][j])
      BY DEF RetiredInv, BusTells
    <2>. QED BY <1>2, <2>1, <2>2 DEF Tells
  <1>5. SetsAreNew'
    BY <1>1, NewKept
  <1>6. \A d \in Call: Retires(call[d])'
    <2>1. \A d \in Call: Retires(call[d])
      BY DEF RetiredInv
    <2>. QED BY <1>1, <1>2, <2>1 DEF Retires
  <1>7. AnswerIsNotRetired'
    BY <1>1 DEF RetiredInv, AnswerIsNotRetired
  <1>8. CASE m.origin = p
    <2>1. UNCHANGED <<local, gen, peerRetired>>
      BY <1>8 DEF OnMessageClear
    <2>2. \A d \in Call: Knows(d)'
      BY <1>1, <2>1 DEF RetiredInv, Knows
    <2>3. RetiredAreGone' /\ PeerChangeIsNotUndone'
      BY <1>1, <1>2, <2>1, GoneKept, LocalKept
    <2>. QED BY <1>4, <1>5, <1>6, <1>7, <2>2, <2>3 DEF RetiredInv
  <1>9. CASE m.origin # p
    <2>1. /\ gen' = [gen EXCEPT ![p] = @ + 1]
          /\ local' = [local EXCEPT ![p] =
               [k \in Key |-> IF m.key \in {k, None} THEN None ELSE @[k]]]
          /\ peerRetired' = [peerRetired EXCEPT ![p] = @ \cup m.retired]
      BY <1>9 DEF OnMessageClear, AdvanceGeneration
    <2>2. ASSUME NEW d \in Call PROVE Knows(d)'
      <3>1. Knows(d) /\ call'[d] = call[d] /\ ProcOf[d] \in Proc /\ call[d].gen \in Nat
        BY <1>1, Homes DEF RetiredInv, CallState
      <3>2. CASE ProcOf[d] = p
        <4>1. gen'[p] = gen[p] + 1 /\ gen[p] \in Nat
          BY <1>1, <2>1
        <4>. QED BY <3>1, <3>2, <4>1 DEF Knows
      <3>3. CASE ProcOf[d] # p
        <4>1. gen'[ProcOf[d]] = gen[ProcOf[d]] /\ peerRetired'[ProcOf[d]] = peerRetired[ProcOf[d]]
          BY <1>1, <2>1, <3>1, <3>3
        <4>. QED BY <3>1, <4>1 DEF Knows
      <3>. QED BY <3>2, <3>3
    <2>3. RetiredAreGone'
      <3>1. \A q \in Proc: peerRetired[q] \cup ownRetired[q] \subseteq Gone
        BY DEF RetiredInv, RetiredAreGone
      <3>2. \A q \in Proc: peerRetired'[q] \subseteq peerRetired[q] \cup m.retired
        BY <1>1, <2>1
      <3>3. m.retired \subseteq Gone
        BY <1>3 DEF Tells
      <3>. QED BY <1>1, <1>2, <3>1, <3>2, <3>3 DEF RetiredAreGone
    <2>4. PeerChangeIsNotUndone'
      <3>. SUFFICES ASSUME NEW q \in Proc, NEW k \in Key
                    PROVE  <<k, local'[q][k]>> \notin peerRetired'[q]
        BY DEF PeerChangeIsNotUndone
      <3>1. <<k, local[q][k]>> \notin peerRetired[q] /\ <<k, None>> \notin peerRetired[q]
        BY <1>1, Values DEF RetiredInv, PeerChangeIsNotUndone
      <3>2. CASE q # p
        BY <1>1, <2>1, <3>1, <3>2
      <3>3. CASE q = p
        <4>1. /\ local'[q][k] = IF m.key \in {k, None} THEN None ELSE local[q][k]
              /\ peerRetired'[q] = peerRetired[q] \cup m.retired
          BY <1>1, <2>1, <3>3
        <4>2. m.retired \subseteq Key \X Value
          BY <1>3 DEF Tells, Gone, RetiredInv, TypeInv, TypeOK
        <4>3. <<k, local'[q][k]>> \notin m.retired
          <5>1. CASE m.key \in {k, None}
            BY <4>1, <4>2, <5>1, Values
          <5>2. CASE m.key \notin {k, None}
            BY <1>3, <5>2 DEF Tells
          <5>. QED BY <5>1, <5>2
        <4>. QED BY <3>1, <4>1, <4>3
      <3>. QED BY <3>2, <3>3
    <2>. QED BY <1>4, <1>5, <1>6, <1>7, <2>2, <2>3, <2>4 DEF RetiredInv
  <1>. QED BY <1>8, <1>9

LEMMA EvictRetires ==
  ASSUME RetiredInv, TypeInv', NEW p \in Proc, \E k \in Key: Evict(p, k)
  PROVE  RetiredInv'
  <1>1. /\ UNCHANGED <<redis, gen, call, conn, inbox, writes, completed, peerRetired, ownRetired>>
        /\ local \in [Proc -> [Key -> Value \cup {None}]]
    BY DEF Evict, RetiredInv, TypeInv, TypeOK
  <1>2. NothingReturns /\ Gone' = Gone
    BY <1>1 DEF NothingReturns, Gone
  <1>3. \A q \in Proc, l \in Key: local'[q][l] \in {local[q][l], None, writes + 1}
    BY <1>1 DEF Evict
  <1>4. PeerChangeIsNotUndone' /\ BusTells' /\ RetiredAreGone' /\ SetsAreNew'
    BY <1>1, <1>2, <1>3, LocalKept, BusKept, GoneKept, NewKept
  <1>5. \A d \in Call: Retires(call[d])' /\ Knows(d)'
    <2>1. \A d \in Call: Retires(call[d]) /\ Knows(d)
      BY DEF RetiredInv
    <2>. QED BY <1>1, <1>2, <2>1 DEF Retires, Knows
  <1>6. AnswerIsNotRetired'
    BY <1>1 DEF RetiredInv, AnswerIsNotRetired
  <1>. QED BY <1>4, <1>5, <1>6 DEF RetiredInv

LEMMA NextRetires == RetiredInv /\ [Next]_vars => RetiredInv'
  <1>. SUFFICES ASSUME RetiredInv, [Next]_vars PROVE RetiredInv'
    OBVIOUS
  <1>1. TypeInv'
    BY NextTypes DEF RetiredInv
  <1>2. CASE UNCHANGED vars
    <2>1. /\ UNCHANGED <<local, redis, gen, call, inbox, writes, completed, peerRetired, ownRetired>>
          /\ Gone' = Gone
      BY <1>2 DEF vars, Gone
    <2>2. SetsAreNew' /\ AnswerIsNotRetired' /\ PeerChangeIsNotUndone'
      BY <2>1 DEF RetiredInv, SetsAreNew, AnswerIsNotRetired, PeerChangeIsNotUndone
    <2>3. BusTells' /\ RetiredAreGone'
      BY <2>1 DEF RetiredInv, BusTells, Tells, RetiredAreGone
    <2>4. \A d \in Call: Retires(call[d])' /\ Knows(d)'
      BY <2>1 DEF RetiredInv, Retires, Knows
    <2>. QED BY <1>1, <2>2, <2>3, <2>4 DEF RetiredInv
  <1>3. ASSUME NEW c \in Call,
               \/ \E k \in Key: GetBegin(c, k) \/ SetBegin(c, k) \/ DeleteBegin(c, k)
               \/ ServeGet(c) \/ GetEnd(c) \/ ClearBegin(c)
        PROVE  RetiredInv'
    BY <1>1, <1>3, GetBeginRetires, BeginRetires, ServeGetRetires, GetEndRetires
  <1>4. ASSUME NEW c \in Call,
               \/ SetCompressed(c) \/ ServeWrite(c)
               \/ ServeScan(c) \/ ClearScanned(c) \/ ServeUnlink(c)
               \/ ClearOthers(c) \/ ServePublish(c) \/ WriteEnd(c)
        PROVE  RetiredInv'
    BY <1>1, <1>4, MoveRetires, ServeWriteRetires, ServeScanRetires, ServeUnlinkRetires,
       ServePublishRetires, WriteEndRetires
  <1>5. ASSUME NEW p \in Proc, OnMessageClear(p) \/ \E k \in Key: Evict(p, k)
        PROVE  RetiredInv'
    BY <1>1, <1>5, MessageRetires, EvictRetires
  <1>. QED BY <1>2, <1>3, <1>4, <1>5 DEF Next

LEMMA InitRetires == Init => RetiredInv
  <1>. SUFFICES ASSUME Init PROVE RetiredInv
    OBVIOUS
  <1>1. \A c \in Call: call[c].op = "idle" /\ call[c].pc = "idle"
    BY DEF Init, Idle
  <1>2. \A c \in Call: Retires(call[c]) /\ Knows(c)
    BY <1>1 DEF Retires, Knows, Writing
  <1>3. SetsAreNew /\ AnswerIsNotRetired
    BY <1>1 DEF Init, SetsAreNew, AnswerIsNotRetired
  <1>4. PeerChangeIsNotUndone /\ RetiredAreGone
    BY DEF Init, PeerChangeIsNotUndone, RetiredAreGone
  <1>5. BusTells
    BY DEF Init, BusTells
  <1>. QED BY <1>2, <1>3, <1>4, <1>5, InitTypes DEF RetiredInv

(* PeerChangeIsNotUndone: the comparison of the generations in `get` keeps    *)
(* what a peer's change retired from coming back to the local tier.           *)
THEOREM PeerChangesStay == Spec => []PeerChangeIsNotUndone
  <1>1. RetiredInv => PeerChangeIsNotUndone
    BY DEF RetiredInv
  <1>. QED BY <1>1, InitRetires, NextRetires, PTL DEF Spec

(* AnswerIsNotRetired: the message of a change leaves after the shared tier   *)
(* is done, so a lookup begun after it never answers what it retired.         *)
THEOREM AnswersAreCurrent == Spec => []AnswerIsNotRetired
  <1>1. RetiredInv => AnswerIsNotRetired
    BY DEF RetiredInv
  <1>. QED BY <1>1, InitRetires, NextRetires, PTL DEF Spec
=============================================================================
