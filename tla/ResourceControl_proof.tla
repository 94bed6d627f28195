------------------------ MODULE ResourceControl_proof ------------------------
(***************************************************************************)
(* Theorems about ResourceControl: type correctness of the whole           *)
(* composition; no handler is valid while an invalidation runs; user data  *)
(* is alive while it is referred to; a handler is released once; at most   *)
(* one sequence of operations is under way; and, where no thread is        *)
(* preempted or no RPC invalidates, no two sequences mix on the connection.*)
(***************************************************************************)
EXTENDS ResourceControl, FiniteSetTheorems, SequenceTheorems, TLAPS

(* SetToSeq of a finite set is a sequence over it.                         *)
LEMMA SetToSeqType ==
  ASSUME NEW S, IsFiniteSet(S)
  PROVE  SetToSeq(S) \in Seq(S)
<1> DEFINE n == Cardinality(S)
<1>1. n \in Nat
  BY FS_CardinalityType
<1>2. PICK f : f \in Bijection(1..n, S)
  BY FS_CardinalityType, FS_NatBijection DEF ExistsBijection
<1>3. f \in [1..n -> S] /\ IsInjective(f)
  BY <1>2 DEF Bijection, Injection, IsInjective
<1>4. SetToSeq(S) \in [1..n -> S]
  BY <1>3 DEF SetToSeq
<1> QED
  BY <1>1, <1>4

(* Executing commands keeps the counters integers.                         *)
LEMMA ApplyType ==
  ASSUME RedisTypeOK, NEW q \in Seq(Request), Apply(q)
  PROVE  /\ field' \in [Keys -> [Sessions -> Int]]
         /\ exists' \in SUBSET Keys
<1>1. ASSUME NEW k, NEW s, NEW n
      PROVE  Cardinality(Increments(q, k, s, n)) \in Nat
  <2>1. Len(q) \in Nat /\ DOMAIN q = 1..Len(q)
    OBVIOUS
  <2>2. IsFiniteSet(DOMAIN q)
    BY <2>1, FS_Interval
  <2>3. Increments(q, k, s, n) \subseteq DOMAIN q
    BY DEF Increments
  <2> QED
    BY <2>2, <2>3, FS_Subset, FS_CardinalityType
<1>2. \A k \in Keys, s \in Sessions : field[k][s] \in Int
  BY DEF RedisTypeOK
<1>3. \A k \in Keys, s \in Sessions :
        (IF Zeroed(q, k) = {} THEN field[k][s] ELSE 0)
         + Cardinality(Increments(q, k, s, 1)) - Cardinality(Increments(q, k, s, -1)) \in Int
  BY <1>1, <1>2
<1>4. field' \in [Keys -> [Sessions -> Int]]
  BY <1>3 DEF Apply
<1>5. exists' \in SUBSET Keys
  BY DEF Apply, RedisTypeOK
<1> QED
  BY <1>4, <1>5

(* The request and reply events the sequences build.                       *)
LEMMA EventTypes ==
  /\ \A i \in SeqIds, c \in Commands : Req(i, c) \in Request
  /\ \A i \in SeqIds, k \in Keys : HSet(i, k) \in Request
  /\ \A i \in SeqIds, k \in Keys, s \in Sessions, n \in {-1, 0, 1} :
       HIncrBy(i, k, s, n) \in Request
  /\ \A i \in SeqIds, r \in Results, kd \in {"none", "int", "array", "keys"}, ks \in SUBSET Keys :
       Rep(i, r, kd, ks) \in Reply
BY DEF Req, HSet, HIncrBy, Rep, Request, Reply, Commands

(* Every event names the sequence it belongs to.                           *)
LEMMA RequestSeq ==
  /\ \A r \in Request : r.seq \in SeqIds
  /\ \A r \in Reply : r.seq \in SeqIds /\ r.keys \in SUBSET Keys
BY DEF Request, Reply

(* The tag of an event tells requests from replies.                        *)
LEMMA EventKind ==
  ASSUME NEW r \in Request \cup Reply
  PROVE  /\ r.t = "req" => r \in Request
         /\ r.t = "rep" => r \in Reply
BY DEF Request, Reply

(* The server's steps keep its state and its replies in their types.       *)
LEMMA ServerType ==
  ASSUME RedisTypeOK, Server \/ ServerRefuse
  PROVE  RedisTypeOK'
<1> USE DEF RedisTypeOK
<1>0. ASSUME wire # << >>, NEW r \in Reply, Respond(r)
      PROVE  wire' \in Seq(Request) /\ sock' \in Seq(Reply)
  BY <1>0 DEF Respond
<1>a. wire # << >> => Head(wire) \in Request
  OBVIOUS
<1>1. wire # << >> => Head(wire) \in Request /\ Head(wire).seq \in SeqIds
  BY <1>a, RequestSeq
<1>2. NoMulti \in [open : BOOLEAN, bad : BOOLEAN, q : Seq(Request)]
      /\ [NoMulti EXCEPT !.open = TRUE] \in [open : BOOLEAN, bad : BOOLEAN, q : Seq(Request)]
  <2>1. << >> \in Seq(Request)
    OBVIOUS
  <2> QED
    BY <2>1 DEF NoMulti
<1>3. wire # << >> => \A r \in Results, kd \in {"none", "int", "array", "keys"}, ks \in SUBSET Keys :
                         Rep(Head(wire).seq, r, kd, ks) \in Reply
  BY <1>1, EventTypes
<1>4. CASE ServerMulti
  <2>1. \E r \in Reply : Respond(r)
    BY <1>3, <1>4 DEF ServerMulti, Results
  <2> QED
    BY <1>0, <1>2, <1>4, <2>1 DEF ServerMulti
<1>5. CASE ServerQueue
  <2>1. Append(multi.q, Head(wire)) \in Seq(Request)
    BY <1>1, <1>5 DEF ServerQueue
  <2> QED
    BY <1>0, <1>3, <1>5, <2>1 DEF ServerQueue, Results
<1>6. CASE ServerKeys
  BY <1>0, <1>3, <1>6 DEF ServerKeys, Results
<1>7. CASE ServerDirect
  <2>1. <<Head(wire)>> \in Seq(Request)
    BY <1>1, <1>7 DEF ServerDirect
  <2>2. field' \in [Keys -> [Sessions -> Int]] /\ exists' \in SUBSET Keys
    BY <1>7, <2>1, ApplyType DEF ServerDirect
  <2> QED
    BY <1>0, <1>3, <1>7, <2>2 DEF ServerDirect, Results
<1>8. CASE ServerExec
  <2>1. multi.q \in Seq(Request)
    OBVIOUS
  <2>2. field' \in [Keys -> [Sessions -> Int]] /\ exists' \in SUBSET Keys
    BY <1>8, <2>1, ApplyType DEF ServerExec
  <2>3. \E r \in Reply : Respond(r)
    BY <1>3, <1>8 DEF ServerExec, Results
  <2> QED
    BY <1>0, <1>2, <1>8, <2>2, <2>3 DEF ServerExec
<1>9. CASE ServerRefuse
  BY <1>0, <1>2, <1>3, <1>9 DEF ServerRefuse, Results
<1> QED
  BY <1>4, <1>5, <1>6, <1>7, <1>8, <1>9 DEF Server

-----------------------------------------------------------------------------
(* Facts about the records of the sequences.                               *)
InvType == [state : {"INITIAL", "GET_KEYS", "CLEAN_RES", "FINISH"}, initial : BOOLEAN, count : Int]
SeqType == [state : {"NONE", "MULTI_START", "OP_RES"}, list : Seq(Op), count : Int, err : BOOLEAN]
MultiType == [open : BOOLEAN, bad : BOOLEAN, q : Seq(Request)]

LEMMA SequenceTypes ==
  /\ NoSeq \in SeqType
  /\ \A list \in Seq(Op) : NewSeq(list) \in SeqType
  /\ NoMulti \in MultiType
  /\ InvCleaned \in InvType
  /\ \A v \in InvType : InvPerformed(v) \in InvType
<1>1. << >> \in Seq(Op) /\ << >> \in Seq(Request)
  OBVIOUS
<1> QED
  BY <1>1 DEF NoSeq, NewSeq, SeqType, NoMulti, MultiType, InvCleaned, InvPerformed, InvType

(* Posting requests and consuming the head of the event queue.             *)
LEMMA QueueTypes ==
  ASSUME evq \in Seq(Request \cup Reply)
  PROVE  /\ evq # << >> => /\ Tail(evq) \in Seq(Request \cup Reply)
                          /\ Head(evq) \in Request \cup Reply
         /\ \A r \in Request \cup Reply : Append(evq, r) \in Seq(Request \cup Reply)
         /\ evq # << >> => \A r \in Request \cup Reply :
                             Append(Tail(evq), r) \in Seq(Request \cup Reply)
         /\ evq # << >> => \A q \in Seq(Request \cup Reply) :
                             Tail(evq) \o q \in Seq(Request \cup Reply)
OBVIOUS

(* OperationResources::perform.                                            *)
LEMMA PerformType ==
  ASSUME ConnTypeOK, NEW list \in Seq(Op), NEW thread \in Sessions \cup {NoSession},
         PerformOperations(list, thread)
  PROVE  /\ ops' \in [OpIds -> SeqType]
         /\ evq' \in Seq(Request \cup Reply)
         /\ busy' \in BOOLEAN
         /\ holder' \in Sessions \cup {NoSession}
<1>1. PICK i \in FreeIds :
        /\ ops' = [ops EXCEPT ![i] = NewSeq(list)]
        /\ evq' = Append(evq, Req(i, "MULTI"))
        /\ IF Preemption /\ thread # NoSession
             THEN holder' = thread /\ UNCHANGED busy
             ELSE busy' = TRUE /\ UNCHANGED holder
  BY DEF PerformOperations
<1>2. i \in OpIds /\ i \in SeqIds
  BY DEF FreeIds, SeqIds
<1>3. Req(i, "MULTI") \in Request
  BY <1>2, EventTypes DEF Commands
<1>4. evq' \in Seq(Request \cup Reply)
  BY <1>1, <1>3, QueueTypes DEF ConnTypeOK
<1>5. ops' \in [OpIds -> SeqType]
  BY <1>1, <1>2, SequenceTypes DEF ConnTypeOK, SeqType
<1> QED
  BY <1>1, <1>4, <1>5 DEF ConnTypeOK

(* process_operations_list.                                                *)
LEMMA ProcessListType ==
  ASSUME ConnTypeOK, NEW rol \in Seq(Op), NEW s \in Sessions, ProcessOperationsList(rol, s)
  PROVE  /\ ops' \in [OpIds -> SeqType]
         /\ evq' \in Seq(Request \cup Reply)
         /\ busy' \in BOOLEAN
         /\ holder' \in Sessions \cup {NoSession}
         /\ opQueue' \in Seq(Op)
<1>1. CASE PerformOperations(rol, s) /\ UNCHANGED opQueue
  BY <1>1, PerformType DEF ConnTypeOK
<1>2. CASE opQueue' = opQueue \o rol /\ UNCHANGED <<ops, evq, busy, holder>>
  BY <1>2 DEF ConnTypeOK, SeqType
<1> QED
  BY <1>1, <1>2 DEF ProcessOperationsList

(* Every step of the redis thread, and every fault, keeps the types of the *)
(* connection and of the server.                                           *)
LEMMA RedisThreadType ==
  ASSUME RedisTypeOK, ConnTypeOK,
         RedisThread \/ OnDisconnect \/ ConnectFailed
  PROVE  RedisTypeOK' /\ ConnTypeOK'
<1> USE DEF redisVars, seqVars, faultVars
<1>e. evq \in Seq(Request \cup Reply)
  BY DEF ConnTypeOK
<1>k. /\ InvId \in SeqIds
      /\ Req(InvId, "KEYS") \in Request /\ Req(InvId, "MULTI") \in Request
      /\ Req(InvId, "EXEC") \in Request
  BY EventTypes DEF SeqIds, Commands
<1>1. CASE ProcessRequestEvent
  <2>z. evq # << >> /\ Head(evq).t = "req"
    BY <1>1 DEF ProcessRequestEvent
  <2>0. evq # << >> /\ Head(evq) \in Request /\ Head(evq).seq \in SeqIds
    <3>1. Head(evq) \in Request \cup Reply
      BY <1>e, <2>z, QueueTypes
    <3>2. Head(evq) \in Request
      BY <2>z, <3>1, EventKind
    <3> QED
      BY <2>z, <3>2, RequestSeq
  <2>1. RedisTypeOK'
    <3>0. wire \in Seq(Request) /\ (wire' = Append(wire, Head(evq)) \/ wire' = wire)
      BY <1>1 DEF ProcessRequestEvent, RedisTypeOK
    <3>1. wire' \in Seq(Request)
      BY <2>0, <3>0
    <3> QED
      BY <1>1, <3>1 DEF ProcessRequestEvent, RedisTypeOK
  <2>2. Rep(Head(evq).seq, "NotConnected", "none", {}) \in Reply
    BY <2>0, EventTypes DEF Results
  <2>3. evq' \in Seq(Request \cup Reply)
    BY <1>1, <1>e, <2>0, <2>2, QueueTypes DEF ProcessRequestEvent
  <2> QED
    BY <1>1, <2>1, <2>3 DEF ProcessRequestEvent, ConnTypeOK
<1>2. CASE HandleRead
  <2>1. Head(sock) \in Reply /\ Tail(sock) \in Seq(Reply)
    BY <1>2 DEF HandleRead, RedisTypeOK
  <2>2. evq' \in Seq(Request \cup Reply)
    BY <1>2, <1>e, <2>1, QueueTypes DEF HandleRead
  <2> QED
    BY <1>2, <2>1, <2>2 DEF HandleRead, RedisTypeOK, ConnTypeOK
<1>b. CASE HandleLastRead
  <2>1. Head(sock) \in Reply /\ << >> \in Seq(Reply)
    BY <1>b DEF HandleLastRead, RedisTypeOK
  <2>2. evq' \in Seq(Request \cup Reply)
    BY <1>b, <1>e, <2>1, QueueTypes DEF HandleLastRead
  <2>3. RedisTypeOK'
    BY <1>b, <2>1, SequenceTypes DEF HandleLastRead, RedisTypeOK, MultiType
  <2>4. inited' \in BOOLEAN
    <3>1. inited' = (inited /\ ~busy)
      BY <1>b DEF HandleLastRead
    <3> QED
      BY <3>1, Zenon
  <2> QED
    BY <1>b, <2>2, <2>3, <2>4 DEF HandleLastRead, ConnTypeOK
<1>3. CASE ProcessOperationsQueue
  <2>1. << >> \in Seq(Op)
    OBVIOUS
  <2>2. /\ ops' \in [OpIds -> SeqType] /\ evq' \in Seq(Request \cup Reply)
        /\ busy' \in BOOLEAN /\ holder' \in Sessions \cup {NoSession}
        /\ opQueue' \in Seq(Op)
    <3>1. CASE UNCHANGED <<opQueue, ops, evq, busy, holder>>
      BY <3>1 DEF ConnTypeOK, SeqType
    <3>2. CASE PerformOperations(opQueue, NoSession) /\ opQueue' = << >>
      BY <2>1, <3>2, PerformType DEF ConnTypeOK
    <3> QED
      BY <1>3, <3>1, <3>2 DEF ProcessOperationsQueue
  <2> QED
    BY <1>3, <2>2 DEF ProcessOperationsQueue, RedisTypeOK, ConnTypeOK, SeqType
<1>4. CASE OnReconnect
  BY <1>4 DEF OnReconnect, RedisTypeOK, ConnTypeOK
<1>5. CASE OnConnect
  <2>1. evq' \in Seq(Request \cup Reply)
    BY <1>5, <1>e, <1>k, QueueTypes DEF OnConnect
  <2>2. inv' \in InvType
    BY <1>5, SequenceTypes DEF OnConnect, ConnTypeOK, InvType
  <2>3. pc' \in {"loop", "drain"}
    BY <1>5 DEF OnConnect, ConnTypeOK
  <2> QED
    BY <1>5, <2>1, <2>2, <2>3 DEF OnConnect, RedisTypeOK, ConnTypeOK, InvType
<1>6. CASE ConnectFailed
  BY <1>6 DEF ConnectFailed, RedisTypeOK, ConnTypeOK
<1>7. CASE OnDisconnect
  <2> DEFINE pending == sock \o wire
             lost == [i \in 1..Len(pending) |-> Rep(pending[i].seq, "IOError", "none", {})]
  <2>1. pending \in Seq(Request \cup Reply)
    BY DEF RedisTypeOK
  <2>2. \A i \in 1..Len(pending) : pending[i].seq \in SeqIds
    BY <2>1, RequestSeq
  <2>3. \A i \in 1..Len(pending) : Rep(pending[i].seq, "IOError", "none", {}) \in Request \cup Reply
    BY <2>2, EventTypes DEF Results
  <2>4. lost \in Seq(Request \cup Reply)
    BY <2>1, <2>3
  <2>5. evq' = evq \o lost
    BY <1>7 DEF OnDisconnect
  <2>6. evq' \in Seq(Request \cup Reply)
    BY <1>e, <2>4, <2>5
  <2>a. /\ wire' = << >> /\ sock' = << >> /\ multi' = NoMulti
        /\ exists' = exists /\ field' = field
    BY <1>7 DEF OnDisconnect
  <2>7. RedisTypeOK'
    BY <2>a, SequenceTypes DEF RedisTypeOK, MultiType
  <2>b. inited' \in BOOLEAN
    <3>1. inited' = (inited /\ ~busy)
      BY <1>7 DEF OnDisconnect
    <3> QED
      BY <3>1, Zenon
  <2>c. busy' = FALSE /\ drops' = drops + 1 /\ ctx' = "null"
    BY <1>7 DEF OnDisconnect
  <2>d. drops' \in Nat
    BY <2>c DEF ConnTypeOK
  <2>8. busy' \in BOOLEAN /\ ctx' = "null"
    BY <2>c
  <2> QED
    BY <1>7, <2>6, <2>7, <2>8, <2>b, <2>d DEF OnDisconnect, ConnTypeOK
<1>i. InvReply => /\ evq # << >> /\ Tail(evq) \in Seq(Request \cup Reply)
                  /\ Head(evq) \in Reply
  <2> SUFFICES ASSUME InvReply PROVE /\ evq # << >> /\ Tail(evq) \in Seq(Request \cup Reply)
                                     /\ Head(evq) \in Reply
    OBVIOUS
  <2>1. evq # << >> /\ Head(evq).t = "rep"
    BY DEF InvReply
  <2>0. Head(evq) \in Request \cup Reply
    BY <1>e, <2>1, QueueTypes
  <2>2. Head(evq) \in Reply
    BY <2>0, <2>1, EventKind
  <2>3. Tail(evq) \in Seq(Request \cup Reply)
    BY <1>e, <2>1, QueueTypes
  <2> QED
    BY <2>1, <2>2, <2>3
<1>8. CASE InvOnError
  <2>1. inv' \in InvType
    <3>1. inv \in InvType /\ inv.count \in Int
      BY DEF ConnTypeOK, InvType
    <3>2. PICK n \in Int : n = inv.count - 1
      BY <3>1
    <3>3. inv' = inv \/ inv' = [inv EXCEPT !.count = n]
      BY <1>8, <3>2 DEF InvOnError
    <3> QED
      BY ONLY <3>1, <3>2, <3>3 DEF InvType
  <2>2. proc' \in {"running", "crashed", "terminated"}
    BY <1>8 DEF InvOnError, ConnTypeOK
  <2>3. evq' \in Seq(Request \cup Reply)
    BY <1>8, <1>i DEF InvOnError
  <2> QED
    BY <1>8, <2>1, <2>2, <2>3 DEF InvOnError, RedisTypeOK, ConnTypeOK, InvType
<1>9. CASE InvGotKeys
  <2> DEFINE ks == SetToSeq(Head(evq).keys)
             hsets == [i \in 1..Len(ks) |-> HSet(InvId, ks[i])]
  <2>1. Head(evq).keys \in SUBSET Keys
    BY <1>9, <1>i, RequestSeq DEF InvGotKeys
  <2>2. IsFiniteSet(Head(evq).keys)
    BY <2>1, RedisAssumption, FS_Subset
  <2>3. ks \in Seq(Head(evq).keys)
    BY <2>2, SetToSeqType
  <2>4. ks \in Seq(Keys)
    BY <2>1, <2>3
  <2> HIDE DEF ks
  <2>5. \A i \in 1..Len(ks) : HSet(InvId, ks[i]) \in Request \cup Reply
    BY <1>k, <2>4, EventTypes
  <2>6. hsets \in Seq(Request \cup Reply) /\ Len(ks) \in Nat
    BY <2>4, <2>5
  <2> HIDE DEF hsets
  <2>7. <<Req(InvId, "MULTI")>> \in Seq(Request \cup Reply)
        /\ <<Req(InvId, "EXEC")>> \in Seq(Request \cup Reply)
    BY <1>k
  <2>8. evq' = Tail(evq) \o <<Req(InvId, "MULTI")>> \o hsets \o <<Req(InvId, "EXEC")>>
        /\ inv' = [state |-> "CLEAN_RES", initial |-> inv.initial, count |-> Len(ks) + 2]
    BY <1>9 DEF InvGotKeys, ks, hsets
  <2>a. Tail(evq) \in Seq(Request \cup Reply)
    BY <1>9, <1>i DEF InvGotKeys
  <2>b. Tail(evq) \o <<Req(InvId, "MULTI")>> \in Seq(Request \cup Reply)
    BY <2>7, <2>a
  <2>c. Tail(evq) \o <<Req(InvId, "MULTI")>> \o hsets \in Seq(Request \cup Reply)
    BY <2>6, <2>b
  <2>9. evq' \in Seq(Request \cup Reply)
    BY <2>7, <2>8, <2>c
  <2>10. inv' \in InvType
    BY <2>6, <2>8 DEF ConnTypeOK, InvType
  <2> QED
    BY <1>9, <2>9, <2>10 DEF InvGotKeys, RedisTypeOK, ConnTypeOK, InvType
<1>10. CASE InvCleaning
  <2>0. inv \in InvType /\ inv' = [inv EXCEPT !.count = @ - 1]
    BY <1>10 DEF InvCleaning, ConnTypeOK, InvType
  <2>1. inv' \in InvType
    BY <2>0 DEF InvType
  <2>2. evq' \in Seq(Request \cup Reply)
    BY <1>10, <1>i DEF InvCleaning
  <2> QED
    BY <1>10, <2>1, <2>2 DEF InvCleaning, RedisTypeOK, ConnTypeOK, InvType
<1>11. CASE InvFinished
  <2>1. inv' \in InvType
    BY <1>11 DEF InvFinished, InvType
  <2>2. evq' \in Seq(Request \cup Reply)
    BY <1>11, <1>i DEF InvFinished
  <2>3. container_ready' \in BOOLEAN /\ clears' \in Nat
    BY <1>11 DEF InvFinished, ConnTypeOK
  <2> QED
    BY <1>11, <2>1, <2>2, <2>3 DEF InvFinished, RedisTypeOK, ConnTypeOK, InvType
<1>12. ASSUME NEW i \in OpIds,
              OpMultiAnswered(i) \/ OpQueued(i) \/ OpSucceeded(i) \/ OpErrored(i)
       PROVE  RedisTypeOK' /\ ConnTypeOK'
  <2>a. /\ evq # << >> /\ Tail(evq) \in Seq(Request \cup Reply)
        /\ ops[i] \in SeqType /\ ops \in [OpIds -> SeqType] /\ i \in SeqIds
    BY <1>12, <1>e, QueueTypes
       DEF OpMultiAnswered, OpQueued, OpSucceeded, OpErrored, OpLast, OpReply,
           ConnTypeOK, SeqType, SeqIds
  <2>1. CASE OpMultiAnswered(i)
    <3> DEFINE list == ops[i].list
               incs == [j \in 1..Len(list) |->
                 HIncrBy(i, list[j].k, list[j].s, IF list[j].op = "get" THEN 1 ELSE -1)]
    <3>1. list \in Seq(Op)
      BY <2>a DEF SeqType
    <3> HIDE DEF list
    <3>0. \A o \in Op : o.k \in Keys /\ o.s \in Sessions
      BY DEF Op
    <3>2. \A j \in 1..Len(list) : list[j].k \in Keys /\ list[j].s \in Sessions
      BY <3>0, <3>1
    <3>3. \A j \in 1..Len(list) :
            HIncrBy(i, list[j].k, list[j].s, IF list[j].op = "get" THEN 1 ELSE -1) \in Request \cup Reply
      BY <2>a, <3>2, EventTypes
    <3>4. incs \in Seq(Request \cup Reply) /\ Len(list) \in Nat
      BY <3>1, <3>3
    <3> HIDE DEF incs
    <3>5. <<Req(i, "EXEC")>> \in Seq(Request \cup Reply)
      BY <2>a, EventTypes DEF Commands
    <3>6. evq' = Tail(evq) \o (incs \o <<Req(i, "EXEC")>>)
      BY <2>1 DEF OpMultiAnswered, OpCommands, list, incs
    <3>7. evq' \in Seq(Request \cup Reply)
      BY <2>a, <3>4, <3>5, <3>6
    <3>8. ops' = [ops EXCEPT ![i] = [state |-> "OP_RES", list |-> list,
                                      count |-> Len(list) + 1, err |-> ops[i].err]]
      BY <2>1, <2>a DEF OpMultiAnswered, list
    <3>9. ops' \in [OpIds -> SeqType]
      BY <2>a, <3>1, <3>4, <3>8 DEF SeqType
    <3> QED
      BY <2>1, <3>7, <3>9 DEF OpMultiAnswered, RedisTypeOK, ConnTypeOK, SeqType
  <2>2. CASE OpQueued(i)
    <3>1. ops' = [ops EXCEPT ![i] = [state |-> "OP_RES", list |-> ops[i].list,
                                      count |-> ops[i].count - 1, err |-> OpFailed(i)]]
      BY <2>2, <2>a DEF OpQueued
    <3>2. OpFailed(i) \in BOOLEAN
      BY <2>a DEF OpFailed, SeqType
    <3> HIDE DEF OpFailed
    <3>3. ops' \in [OpIds -> SeqType]
      BY <2>a, <3>1, <3>2 DEF SeqType
    <3>4. evq' \in Seq(Request \cup Reply)
      BY <2>2, <2>a DEF OpQueued
    <3> QED
      BY <2>2, <3>3, <3>4 DEF OpQueued, RedisTypeOK, ConnTypeOK, SeqType
  <2>b. OpLast(i) => ops' \in [OpIds -> SeqType] /\ busy' = FALSE
    BY <2>a, SequenceTypes DEF OpLast
  <2>3. CASE OpSucceeded(i)
    <3>1. evq' \in Seq(Request \cup Reply)
      BY <2>3, <1>e, <1>k, <2>a, QueueTypes DEF OpSucceeded
    <3>2. inv' \in InvType
      BY <2>3, SequenceTypes DEF OpSucceeded, ConnTypeOK, InvType
    <3>3. pc' \in {"loop", "drain"}
      BY <2>3 DEF OpSucceeded, ConnTypeOK
    <3> QED
      BY <2>3, <2>b, <3>1, <3>2, <3>3 DEF OpSucceeded, RedisTypeOK, ConnTypeOK, SeqType, InvType
  <2>4. CASE OpErrored(i)
    <3>1. evq' \in Seq(Request \cup Reply)
      BY <2>4, <2>a DEF OpErrored
    <3>2. inv' \in InvType /\ inited' \in BOOLEAN
      BY <2>4, SequenceTypes DEF OpErrored, ConnTypeOK, InvType
    <3>3. /\ proc' \in {"running", "crashed", "terminated"}
          /\ ctx' \in {"null", "connecting", "open", "closing"}
      BY <2>4 DEF OpErrored, ConnTypeOK
    <3>4. multi' \in MultiType /\ wire' = wire /\ sock' = sock
      BY <2>4, SequenceTypes DEF OpErrored, RedisTypeOK, MultiType
    <3> QED
      BY <2>4, <2>b, <3>1, <3>2, <3>3, <3>4
         DEF OpErrored, RedisTypeOK, ConnTypeOK, SeqType, InvType, MultiType
  <2> QED
    BY <1>12, <2>1, <2>2, <2>3, <2>4
<1> QED
  BY <1>1, <1>2, <1>b, <1>3, <1>4, <1>5, <1>6, <1>7, <1>8, <1>9, <1>10, <1>11, <1>12 DEF RedisThread

-----------------------------------------------------------------------------
(* The operations built from a set of positions of a session's list.       *)
LEMMA OperationListType ==
  ASSUME NEW s \in Sessions, NEW P \in SUBSET (1..Size(s)), NEW o \in {"get", "put"}
  PROVE  OperationList(o, s, P) \in Seq(Op)
<1> DEFINE q == SetToSeq(P)
<1>1. Need[s].key \in Seq(Keys) /\ Size(s) \in Nat
  BY ControlAssumption DEF Size
<1>a. IsFiniteSet(1..Size(s)) /\ P \subseteq 1..Size(s)
  BY <1>1, FS_Interval
<1>2. IsFiniteSet(P)
  BY <1>a, FS_Subset
<1>3. q \in Seq(P)
  BY <1>2, SetToSeqType
<1> HIDE DEF q
<1>b. \A j \in 1..Len(q) : q[j] \in P
  BY <1>3
<1>4. \A j \in 1..Len(q) : q[j] \in 1..Size(s)
  BY <1>a, <1>b, Zenon
<1>5. \A j \in 1..Len(q) : Need[s].key[q[j]] \in Keys
  BY <1>1, <1>4 DEF Size
<1>6. \A j \in 1..Len(q) : [op |-> o, s |-> s, k |-> Need[s].key[q[j]]] \in Op
  BY <1>5 DEF Op
<1>7. Len(q) \in Nat
  BY <1>3
<1>8. OperationList(o, s, P) = [j \in 1..Len(q) |-> [op |-> o, s |-> s, k |-> Need[s].key[q[j]]]]
  BY DEF OperationList, q
<1> QED
  BY <1>6, <1>7, <1>8

ControlTypeOK ==
  /\ spc \in [Sessions -> {"idle", "check", "emplace", "hold", "refused", "done"}]
  /\ idx \in [Sessions -> Nat]
  /\ over \in [Sessions -> SUBSET Nat]
  /\ taken \in [Sessions -> SUBSET Nat]
  /\ \A s \in Sessions : taken[s] \subseteq 1..Size(s)
  /\ handlers \in [Sessions -> {"none", "valid", "invalid"}]
  /\ hlock \in {"free", "put", "rpc"}
  /\ rpc \in {"idle", "mark", "start", "set", "wait"}
  /\ rpc_reply \in {"none", "success", "timeout"}
  /\ invalidations \in Nat /\ restarts \in Nat

(* A thread that submits operations changes only the sequences.            *)
LEMMA SubmitType ==
  ASSUME TypeOK, NEW rol \in Seq(Op), NEW s \in Sessions, ProcessOperationsList(rol, s),
         UNCHANGED <<redisVars, ctx, inited, inv, pc, container_ready, proc, faultVars>>
  PROVE  RedisTypeOK' /\ ConnTypeOK' /\ holder' \in Sessions \cup {NoSession}
<1>1. /\ ops' \in [OpIds -> SeqType] /\ evq' \in Seq(Request \cup Reply)
      /\ busy' \in BOOLEAN /\ holder' \in Sessions \cup {NoSession}
      /\ opQueue' \in Seq(Op)
  BY ProcessListType DEF TypeOK
<1> QED
  BY <1>1 DEF TypeOK, RedisTypeOK, ConnTypeOK, redisVars, faultVars, SeqType

(* ResourceControl::put.                                                   *)
LEMMA PutType ==
  ASSUME TypeOK, NEW s \in Sessions, PutHandler(s)
  PROVE  /\ RedisTypeOK' /\ ConnTypeOK'
         /\ handlers' \in [Sessions -> {"none", "valid", "invalid"}]
         /\ hlock' \in {"free", "put", "rpc"}
<1>1. handlers' \in [Sessions -> {"none", "valid", "invalid"}]
  BY DEF PutHandler, TypeOK
<1>2. CASE handlers[s] = "valid" /\ taken[s] # {}
  <2>1. OperationList("put", s, taken[s]) \in Seq(Op)
    BY OperationListType DEF TypeOK
  <2>2. /\ ProcessOperationsList(OperationList("put", s, taken[s]), s)
        /\ UNCHANGED <<redisVars, ctx, inited, inv, pc, container_ready, proc, faultVars>>
        /\ hlock' = IF holder' = s THEN "put" ELSE "free"
    BY <1>2 DEF PutHandler
  <2> QED
    BY <1>1, <2>1, <2>2, SubmitType
<1>3. CASE ~(handlers[s] = "valid" /\ taken[s] # {})
  BY <1>1, <1>3
     DEF PutHandler, TypeOK, RedisTypeOK, ConnTypeOK, redisVars, faultVars
<1> QED
  BY <1>2, <1>3

(* Type correctness of the composition: session threads, RPC thread, redis *)
(* thread, connection and server, under every fault the model has.         *)
THEOREM TypeCorrect == Spec => []TypeOK
<1>0. TypeOK <=> RedisTypeOK /\ ConnTypeOK /\ ControlTypeOK
  BY DEF TypeOK, ControlTypeOK
<1>1. Init => TypeOK
  <2> SUFFICES ASSUME Init PROVE TypeOK
    OBVIOUS
  <2>1. RedisTypeOK
    BY SequenceTypes DEF Init, RedisInit, RedisTypeOK, MultiType
  <2>2. ConnTypeOK
    <3>1. << >> \in Seq(Op) /\ << >> \in Seq(Request \cup Reply)
      OBVIOUS
    <3>2. inv \in InvType /\ ops \in [OpIds -> SeqType]
      BY SequenceTypes DEF Init, ConnInit, InvType
    <3>3. inited \in BOOLEAN /\ busy \in BOOLEAN /\ container_ready \in BOOLEAN
      BY Zenon DEF Init, ConnInit
    <3>4. drops \in Nat /\ errors \in Nat /\ clears \in Nat
      BY DEF Init, ConnInit
    <3> QED
      BY <3>1, <3>2, <3>3, <3>4 DEF Init, ConnInit, ConnTypeOK, SeqType, InvType
  <2>3. ControlTypeOK
    BY DEF Init, ControlInit, ControlTypeOK
  <2> QED
    BY <1>0, <2>1, <2>2, <2>3
<1>2. TypeOK /\ [Next]_vars => TypeOK'
  <2> SUFFICES ASSUME TypeOK, [Next]_vars PROVE TypeOK'
    OBVIOUS
  <2>0. (RedisTypeOK' /\ ConnTypeOK' /\ ControlTypeOK') => TypeOK'
    BY DEF TypeOK, ControlTypeOK
  <2>t. RedisTypeOK /\ ConnTypeOK /\ ControlTypeOK
    BY <1>0
  <2>u. UNCHANGED ctlVars => ControlTypeOK'
    BY <2>t DEF ctlVars, sessVars, ControlTypeOK
  <2>c. UNCHANGED <<redisVars, connVars>> => RedisTypeOK' /\ ConnTypeOK'
    BY <2>t DEF redisVars, connVars, seqVars, faultVars, RedisTypeOK, ConnTypeOK
  <2>1. CASE Client
    BY <2>0, <2>1, <2>t, <2>u, RedisThreadType DEF Client
  <2>2. CASE Redis_
    <3>1. RedisTypeOK'
      BY <2>2, <2>t, ServerType DEF Redis_, ServerStep
    <3>2. ConnTypeOK'
      BY <2>2, <2>t DEF Redis_, ServerStep, connVars, seqVars, faultVars, ConnTypeOK
    <3> QED
      BY <2>0, <2>2, <2>u, <3>1, <3>2 DEF Redis_
  <2>3. CASE Fault
    <3>1. CASE ServerFault
      <4>1. RedisTypeOK'
        BY <3>1, <2>t, ServerType DEF ServerFault
      <4>2. errors' \in Nat
        BY <3>1, <2>t DEF ServerFault, ConnTypeOK
      <4>3. ConnTypeOK'
        BY <3>1, <2>t, <4>2 DEF ServerFault, seqVars, ConnTypeOK
      <4> QED
        BY <2>0, <2>3, <2>u, <4>1, <4>3 DEF Fault
    <3>2. CASE OnDisconnect \/ ConnectFailed
      BY <2>0, <2>3, <2>t, <2>u, <3>2, RedisThreadType DEF Fault
    <3> QED
      BY <2>3, <3>1, <3>2 DEF Fault
  <2>4. ASSUME NEW s \in Sessions, SessionThread(s) PROVE TypeOK'
    <3>1. CASE GetStart(s)
      <4>1. spc' \in [Sessions -> {"idle", "check", "emplace", "hold", "refused", "done"}]
        BY <3>1, <2>t DEF GetStart, OnError, ControlTypeOK
      <4> QED
        BY <2>0, <2>t, <2>c, <3>1, <4>1 DEF GetStart, ControlTypeOK
    <3>2. CASE CheckValue(s)
      <4>1. idx' \in [Sessions -> Nat] /\ over' \in [Sessions -> SUBSET Nat]
        BY <3>2, <2>t DEF CheckValue, ControlTypeOK
      <4> QED
        BY <2>0, <2>t, <2>c, <3>2, <4>1 DEF CheckValue, ControlTypeOK
    <3>3. CASE CheckFailed(s)
      <4>1. spc' \in [Sessions -> {"idle", "check", "emplace", "hold", "refused", "done"}]
        BY <3>3, <2>t DEF CheckFailed, OnError, ControlTypeOK
      <4> QED
        BY <2>0, <2>t, <2>c, <3>3, <4>1 DEF CheckFailed, ControlTypeOK
    <3>4. CASE GetGranted(s)
      <4> DEFINE act == FirstFree(Need[s].failover, over[s])
      <4>1. act \in SUBSET (1..Size(s)) /\ act \in SUBSET Nat
        BY ControlAssumption DEF FirstFree, Size
      <4> HIDE DEF act
      <4>2. OperationList("get", s, act) \in Seq(Op)
        BY <4>1, OperationListType
      <4>3. /\ ProcessOperationsList(OperationList("get", s, act), s)
            /\ UNCHANGED <<redisVars, ctx, inited, inv, pc, container_ready, proc, faultVars>>
            /\ taken' = [taken EXCEPT ![s] = act]
            /\ spc' = [spc EXCEPT ![s] = "emplace"]
        BY <3>4 DEF GetGranted, act
      <4>4. RedisTypeOK' /\ ConnTypeOK'
        BY <4>2, <4>3, SubmitType
      <4>5. /\ taken' \in [Sessions -> SUBSET Nat]
            /\ \A x \in Sessions : taken'[x] \subseteq 1..Size(x)
        BY <2>t, <4>1, <4>3 DEF ControlTypeOK
      <4>6. ControlTypeOK'
        BY <2>t, <3>4, <4>3, <4>5 DEF GetGranted, ControlTypeOK
      <4> QED
        BY <2>0, <4>4, <4>6
    <3>5. CASE GetEmplace(s)
      BY <2>0, <2>t, <2>c, <3>5 DEF GetEmplace, ControlTypeOK
    <3>6. CASE GetBusy(s)
      <4>1. spc' \in [Sessions -> {"idle", "check", "emplace", "hold", "refused", "done"}]
        BY <3>6, <2>t DEF GetBusy, ControlTypeOK
      <4> QED
        BY <2>0, <2>t, <2>c, <3>6, <4>1 DEF GetBusy, ControlTypeOK
    <3>7. CASE SessionPut(s)
      <4>1. /\ RedisTypeOK' /\ ConnTypeOK'
            /\ handlers' \in [Sessions -> {"none", "valid", "invalid"}]
            /\ hlock' \in {"free", "put", "rpc"}
        BY <3>7, PutType DEF SessionPut
      <4>2. ControlTypeOK'
        BY <2>t, <3>7, <4>1 DEF SessionPut, PutHandler, ControlTypeOK
      <4> QED
        BY <2>0, <4>1, <4>2
    <3> QED
      BY <2>4, <3>1, <3>2, <3>3, <3>4, <3>5, <3>6, <3>7 DEF SessionThread
  <2>5. ASSUME NEW s \in Sessions, RpcPut(s) PROVE TypeOK'
    <3>1. /\ RedisTypeOK' /\ ConnTypeOK'
          /\ handlers' \in [Sessions -> {"none", "valid", "invalid"}]
          /\ hlock' \in {"free", "put", "rpc"}
      BY <2>5, PutType DEF RpcPut
    <3>2. ControlTypeOK'
      BY <2>t, <2>5, <3>1 DEF RpcPut, PutHandler, ControlTypeOK
    <3> QED
      BY <2>0, <3>1, <3>2
  <2>6. CASE ThreadResumed
    <3>a. busy' = TRUE /\ holder' = NoSession
      BY <2>6 DEF ThreadResumed, SetBusy
    <3>b. busy' \in BOOLEAN
      BY <3>a
    <3>c. RedisTypeOK'
      BY <2>6, <2>t DEF ThreadResumed, SetBusy, redisVars, RedisTypeOK
    <3>1. RedisTypeOK' /\ ConnTypeOK'
      BY <2>6, <2>t, <3>a, <3>b, <3>c DEF ThreadResumed, SetBusy, faultVars, ConnTypeOK
    <3>2. ControlTypeOK'
      BY <2>6, <2>t DEF ThreadResumed, sessVars, ControlTypeOK
    <3> QED
      BY <2>0, <3>1, <3>2
  <2>7. CASE InvalidateUnready
    <3>a. container_ready' = FALSE
      BY <2>7 DEF InvalidateUnready
    <3>b. container_ready' \in BOOLEAN
      BY <3>a
    <3>c. RedisTypeOK'
      BY <2>7, <2>t DEF InvalidateUnready, redisVars, RedisTypeOK
    <3>1. RedisTypeOK' /\ ConnTypeOK'
      BY <2>7, <2>t, <3>b, <3>c DEF InvalidateUnready, seqVars, faultVars, ConnTypeOK
    <3>2. ControlTypeOK'
      BY <2>7, <2>t DEF InvalidateUnready, sessVars, ControlTypeOK
    <3> QED
      BY <2>0, <3>1, <3>2
  <2>8. CASE InvalidateHandlers
    <3>1. handlers' \in [Sessions -> {"none", "valid", "invalid"}]
      BY <2>8 DEF InvalidateHandlers
    <3>2. ControlTypeOK'
      BY <2>8, <2>t, <3>1 DEF InvalidateHandlers, sessVars, ControlTypeOK
    <3> QED
      BY <2>0, <2>c, <2>8, <3>2 DEF InvalidateHandlers
  <2>9. CASE InvalidateSequence
    <3>1. evq' \in Seq(Request \cup Reply) /\ inv' \in InvType
      <4>1. Req(InvId, "KEYS") \in Request
        BY EventTypes DEF SeqIds, Commands
      <4>2. evq \in Seq(Request \cup Reply) /\ inv \in InvType
        BY <2>t DEF ConnTypeOK, InvType
      <4> QED
        BY <2>9, <4>1, <4>2, QueueTypes, SequenceTypes DEF InvalidateSequence, InvalidateStart
    <3>2. inited' \in BOOLEAN
      <4>1. inited' = (inited /\ Preemption)
        BY <2>9 DEF InvalidateSequence
      <4> QED
        BY <4>1, Zenon
    <3>3. rpc' \in {"idle", "mark", "start", "set", "wait"}
      BY <2>9 DEF InvalidateSequence
    <3>4. RedisTypeOK' /\ ConnTypeOK'
      BY <2>9, <2>t, <3>1, <3>2
         DEF InvalidateSequence, redisVars, faultVars, RedisTypeOK, ConnTypeOK, InvType
    <3>5. ControlTypeOK'
      BY <2>9, <2>t, <3>3 DEF InvalidateSequence, sessVars, ControlTypeOK
    <3> QED
      BY <2>0, <3>4, <3>5
  <2>10. CASE InvalidateReset
    <3>a. inited' = FALSE
      BY <2>10 DEF InvalidateReset
    <3>b. inited' \in BOOLEAN
      BY <3>a
    <3>c. RedisTypeOK'
      BY <2>10, <2>t DEF InvalidateReset, redisVars, RedisTypeOK
    <3>1. RedisTypeOK' /\ ConnTypeOK'
      BY <2>10, <2>t, <3>b, <3>c DEF InvalidateReset, faultVars, ConnTypeOK
    <3>2. ControlTypeOK'
      BY <2>10, <2>t DEF InvalidateReset, sessVars, ControlTypeOK
    <3> QED
      BY <2>0, <3>1, <3>2
  <2>11. CASE InvalidateAnswer
    <3>1. ControlTypeOK'
      BY <2>11, <2>t DEF InvalidateAnswer, sessVars, ControlTypeOK
    <3> QED
      BY <2>0, <2>c, <2>11, <3>1 DEF InvalidateAnswer
  <2>12. CASE Restart
    <3>1. RedisTypeOK'
      BY <2>12, <2>t, SequenceTypes DEF Restart, RedisTypeOK, MultiType
    <3>2. << >> \in Seq(Op) /\ << >> \in Seq(Request \cup Reply)
      OBVIOUS
    <3>3. /\ inv' \in InvType /\ ops' \in [OpIds -> SeqType]
      BY <2>12, SequenceTypes DEF Restart, InvType
    <3>4. ConnTypeOK'
      BY <2>12, <2>t, <3>2, <3>3 DEF Restart, ConnTypeOK, InvType, SeqType
    <3>5. ControlTypeOK'
      BY <2>12, <2>t DEF Restart, ControlTypeOK
    <3> QED
      BY <2>0, <3>1, <3>4, <3>5
  <2>13. CASE UNCHANGED vars
    BY <2>0, <2>u, <2>c, <2>13 DEF vars
  <2> QED
    BY <2>1, <2>2, <2>3, <2>4, <2>5, <2>6, <2>7, <2>8, <2>9, <2>10, <2>11, <2>12, <2>13
       DEF Next, Invalidate
<1> QED
  BY <1>1, <1>2, PTL DEF Spec

-----------------------------------------------------------------------------
(* The inductive invariant behind NoReleaseWhileInvalidating: from the     *)
(* marking of the handlers to its answer the RPC thread owns handlers_lock, *)
(* so no thread can add a handler.                                         *)
InvalidatingInv ==
  rpc \in {"start", "set", "wait"} =>
    hlock = "rpc" /\ \A s \in Sessions : handlers[s] # "valid"

(* No handler is valid while ResourceControl::invalidate_resources clears  *)
(* the counters, for any number of sessions and resources and under any    *)
(* preemption: a release is never sent for a counter being cleared.        *)
THEOREM NoRelease == Spec => []NoReleaseWhileInvalidating
<1>1. Init => InvalidatingInv
  BY DEF Init, ControlInit, InvalidatingInv
<1>2. TypeOK /\ InvalidatingInv /\ [Next]_vars => InvalidatingInv'
  <2> SUFFICES ASSUME TypeOK, InvalidatingInv, [Next]_vars PROVE InvalidatingInv'
    OBVIOUS
  <2> USE DEF InvalidatingInv
  <2>0. handlers \in [Sessions -> {"none", "valid", "invalid"}]
    BY DEF TypeOK
  <2>1. CASE Client
    BY <2>1 DEF Client, ctlVars
  <2>2. CASE Redis_
    BY <2>2 DEF Redis_, ctlVars
  <2>3. CASE Fault
    BY <2>3 DEF Fault, ctlVars
  <2>4. ASSUME NEW s \in Sessions, SessionThread(s) PROVE InvalidatingInv'
    <3>1. CASE GetStart(s)
      BY <3>1 DEF GetStart
    <3>2. CASE CheckValue(s)
      BY <3>2 DEF CheckValue
    <3>3. CASE CheckFailed(s)
      BY <3>3 DEF CheckFailed
    <3>4. CASE GetGranted(s)
      BY <3>4 DEF GetGranted
    <3>5. CASE GetEmplace(s)
      BY <3>5 DEF GetEmplace
    <3>6. CASE GetBusy(s)
      BY <3>6 DEF GetBusy
    <3>7. CASE SessionPut(s)
      BY <3>7 DEF SessionPut, PutHandler
    <3> QED
      BY <2>4, <3>1, <3>2, <3>3, <3>4, <3>5, <3>6, <3>7 DEF SessionThread
  <2>5. ASSUME NEW s \in Sessions, RpcPut(s) PROVE InvalidatingInv'
    BY <2>5 DEF RpcPut, PutHandler
  <2>6. CASE ThreadResumed
    BY <2>6 DEF ThreadResumed
  <2>7. CASE InvalidateUnready
    BY <2>7 DEF InvalidateUnready
  <2>8. CASE InvalidateHandlers
    BY <2>8 DEF InvalidateHandlers
  <2>9. CASE InvalidateSequence
    BY <2>9 DEF InvalidateSequence
  <2>10. CASE InvalidateReset
    BY <2>10 DEF InvalidateReset
  <2>11. CASE InvalidateAnswer
    BY <2>11 DEF InvalidateAnswer
  <2>12. CASE Restart
    BY <2>12 DEF Restart
  <2>13. CASE UNCHANGED vars
    BY <2>13 DEF vars, ctlVars
  <2> QED
    BY <2>1, <2>2, <2>3, <2>4, <2>5, <2>6, <2>7, <2>8, <2>9, <2>10, <2>11, <2>12, <2>13
       DEF Next, Invalidate
<1>3. InvalidatingInv => NoReleaseWhileInvalidating
  BY DEF InvalidatingInv, NoReleaseWhileInvalidating
<1> QED
  BY <1>1, <1>2, <1>3, TypeCorrect, PTL DEF Spec

-----------------------------------------------------------------------------
(* Counting positions of a sequence: the ones whose element is in S.       *)
Positions(q, S) == {j \in DOMAIN q : q[j] \in S}

Count(q, S) == Cardinality(Positions(q, S))

LEMMA CountType ==
  ASSUME NEW T, NEW q \in Seq(T), NEW S
  PROVE  IsFiniteSet(Positions(q, S)) /\ Count(q, S) \in Nat
<1>1. DOMAIN q = 1..Len(q) /\ Len(q) \in Nat
  OBVIOUS
<1>2. IsFiniteSet(DOMAIN q)
  BY <1>1, FS_Interval
<1> QED
  BY <1>2, FS_Subset, FS_CardinalityType DEF Positions, Count

(* Nothing in an empty sequence.                                           *)
LEMMA CountEmpty ==
  ASSUME NEW S
  PROVE  Count(<< >>, S) = 0
<1>1. Positions(<< >>, S) = {}
  BY DEF Positions
<1> QED
  BY <1>1, FS_EmptySet DEF Count

(* Of two sequences one after the other.                                   *)
LEMMA CountConcat ==
  ASSUME NEW T, NEW p \in Seq(T), NEW q \in Seq(T), NEW S
  PROVE  Count(p \o q, S) = Count(p, S) + Count(q, S)
<1> DEFINE n == Len(p)
           A == Positions(p, S)
           B == Positions(q, S)
           C == {j \in (n + 1) .. (n + Len(q)) : q[j - n] \in S}
<1>1. /\ n \in Nat /\ Len(q) \in Nat /\ DOMAIN p = 1..n /\ DOMAIN q = 1..Len(q)
      /\ DOMAIN (p \o q) = 1..(n + Len(q))
      /\ \A j \in 1..(n + Len(q)) : (p \o q)[j] = IF j <= n THEN p[j] ELSE q[j - n]
  BY ConcatProperties
<1>2. Positions(p \o q, S) = A \cup C /\ A \cap C = {}
  BY <1>1 DEF Positions
<1>3. IsFiniteSet(A) /\ IsFiniteSet(B)
  BY CountType
<1>4. ExistsBijection(B, C)
  <2> DEFINE f == [j \in B |-> j + n]
  <2>1. f \in [B -> C]
    BY <1>1 DEF Positions
  <2>2. \A a, b \in B : f[a] = f[b] => a = b
    BY <1>1 DEF Positions
  <2>3. \A c \in C : \E b \in B : f[b] = c
    <3> SUFFICES ASSUME NEW c \in C PROVE \E b \in B : f[b] = c
      OBVIOUS
    <3>1. c - n \in B /\ c \in Int
      BY <1>1 DEF Positions
    <3> QED
      BY <1>1, <3>1
  <2> QED
    BY <2>1, <2>2, <2>3 DEF ExistsBijection, Bijection, Injection, Surjection, IsInjective
<1>5. IsFiniteSet(C) /\ Cardinality(C) = Cardinality(B)
  BY <1>3, <1>4, FS_Bijection
<1> HIDE DEF C
<1>6. Cardinality(A \cup C) = Cardinality(A) + Cardinality(C) - 0
  BY <1>2, <1>3, <1>5, FS_Union, FS_EmptySet
<1>7. Cardinality(A) \in Nat /\ Cardinality(C) \in Nat
  BY <1>3, <1>5, FS_CardinalityType
<1> QED
  BY <1>2, <1>5, <1>6, <1>7 DEF Count

LEMMA CountOne ==
  ASSUME NEW x, NEW S
  PROVE  Count(<<x>>, S) = IF x \in S THEN 1 ELSE 0
<1>1. DOMAIN <<x>> = {1} /\ <<x>>[1] = x
  OBVIOUS
<1>2. Positions(<<x>>, S) = IF x \in S THEN {1} ELSE {}
  BY <1>1 DEF Positions
<1> QED
  BY <1>2, FS_EmptySet, FS_Singleton DEF Count

LEMMA CountAppend ==
  ASSUME NEW T, NEW q \in Seq(T), NEW x \in T, NEW S
  PROVE  Count(Append(q, x), S) = Count(q, S) + IF x \in S THEN 1 ELSE 0
<1>1. Append(q, x) = q \o <<x>>
  BY AppendIsConcat
<1>2. <<x>> \in Seq(T)
  OBVIOUS
<1>3. Count(q \o <<x>>, S) = Count(q, S) + Count(<<x>>, S)
  BY <1>2, CountConcat
<1>4. Count(<<x>>, S) = IF x \in S THEN 1 ELSE 0
  BY CountOne
<1> QED
  BY <1>1, <1>3, <1>4

LEMMA CountTail ==
  ASSUME NEW T, NEW q \in Seq(T), q # << >>, NEW S
  PROVE  Count(q, S) = Count(Tail(q), S) + IF Head(q) \in S THEN 1 ELSE 0
<1>1. /\ Tail(q) \in Seq(T) /\ <<Head(q)>> \in Seq(T) /\ q = <<Head(q)>> \o Tail(q)
  OBVIOUS
<1>2. Count(q, S) = Count(<<Head(q)>>, S) + Count(Tail(q), S)
  <2>1. PICK h, t : h = <<Head(q)>> /\ t = Tail(q)
    OBVIOUS
  <2>2. Count(h \o t, S) = Count(h, S) + Count(t, S)
    BY ONLY <1>1, <2>1, CountConcat
  <2> QED
    BY ONLY <1>1, <2>1, <2>2
<1>3. Count(Tail(q), S) \in Nat
  BY <1>1, CountType
<1> QED
  BY <1>2, <1>3, CountOne

(* Sequences marked at the same positions.                                 *)
LEMMA CountSame ==
  ASSUME NEW p, NEW q, NEW R, NEW S, DOMAIN p = DOMAIN q,
         \A j \in DOMAIN p : p[j] \in R <=> q[j] \in S
  PROVE  Count(p, R) = Count(q, S)
<1>1. Positions(p, R) = Positions(q, S)
  BY DEF Positions
<1> QED
  BY <1>1 DEF Count

(* All the positions, or none.                                             *)
LEMMA CountAll ==
  ASSUME NEW T, NEW q \in Seq(T), NEW S
  PROVE  /\ (\A j \in DOMAIN q : q[j] \in S) => Count(q, S) = Len(q)
         /\ (\A j \in DOMAIN q : q[j] \notin S) => Count(q, S) = 0
         /\ Count(q, S) = 0 => \A j \in DOMAIN q : q[j] \notin S
<1>1. DOMAIN q = 1..Len(q) /\ Len(q) \in Nat
  OBVIOUS
<1>2. ASSUME \A j \in DOMAIN q : q[j] \in S PROVE Count(q, S) = Len(q)
  <2>1. Positions(q, S) = 1..Len(q)
    BY <1>1, <1>2 DEF Positions
  <2> QED
    BY <1>1, <2>1, FS_Interval DEF Count
<1>3. ASSUME \A j \in DOMAIN q : q[j] \notin S PROVE Count(q, S) = 0
  <2>1. Positions(q, S) = {}
    BY <1>3 DEF Positions
  <2> QED
    BY <2>1, FS_EmptySet DEF Count
<1>4. ASSUME Count(q, S) = 0 PROVE \A j \in DOMAIN q : q[j] \notin S
  <2>1. Positions(q, S) = {}
    BY <1>4, CountType, FS_EmptySet DEF Count
  <2> QED
    BY <2>1 DEF Positions
<1> QED
  BY <1>2, <1>3, <1>4

-----------------------------------------------------------------------------
(* Events that refer to a sequence object, wherever they are.              *)
Events == Request \cup Reply
EventsOf(i) == {r \in Events : r.seq = i}

Outstanding(i) ==
  Count(wire, EventsOf(i)) + Count(sock, EventsOf(i)) + Count(evq, EventsOf(i))

(* How many answers a sequence object still waits for.                     *)
Waits(op) ==
  IF op.state = "NONE" THEN 0 ELSE IF op.state = "MULTI_START" THEN 1 ELSE op.count

(* The inductive invariant behind UserDataAlive: as many events refer to   *)
(* an object as it waits for.                                              *)
AwaitedInv == \A i \in OpIds : Outstanding(i) = Waits(ops[i])

LEMMA EventSeqs ==
  ASSUME TypeOK
  PROVE  /\ wire \in Seq(Events) /\ sock \in Seq(Events) /\ evq \in Seq(Events)
         /\ \A i \in SeqIds : Count(wire, EventsOf(i)) \in Nat /\ Count(sock, EventsOf(i)) \in Nat
                              /\ Count(evq, EventsOf(i)) \in Nat
<1>1. wire \in Seq(Events) /\ sock \in Seq(Events) /\ evq \in Seq(Events)
  BY SeqMonotonic DEF TypeOK, RedisTypeOK, ConnTypeOK, Events
<1> QED
  BY <1>1, CountType

(* The server answers a command of a sequence to the same sequence.        *)
LEMMA AnsweredSame ==
  ASSUME TypeOK, Server \/ ServerRefuse, UNCHANGED evq, NEW i \in SeqIds
  PROVE  Outstanding(i)' = Outstanding(i)
<1>1. wire \in Seq(Request) /\ wire # << >> /\ Head(wire) \in Request /\ Head(wire).seq \in SeqIds
  <2>1. wire \in Seq(Request) /\ wire # << >>
    BY DEF Server, ServerMulti, ServerQueue, ServerKeys, ServerDirect, ServerExec, ServerRefuse,
           TypeOK, RedisTypeOK
  <2>2. Head(wire) \in Request
    BY <2>1
  <2> QED
    BY <2>1, <2>2, RequestSeq
<1>2. PICK r : /\ Respond(r)
               /\ \E e \in Results, kd \in {"none", "int", "array", "keys"}, ks \in SUBSET Keys :
                    r = Rep(Head(wire).seq, e, kd, ks)
  <2>1. exists \in SUBSET Keys
    BY DEF TypeOK, RedisTypeOK
  <2> QED
    BY <2>1 DEF Server, ServerMulti, ServerQueue, ServerKeys, ServerDirect, ServerExec, ServerRefuse,
                Results
<1>3. r \in Reply /\ r.seq = Head(wire).seq
  BY <1>1, <1>2, EventTypes DEF Rep
<1>4. wire' = Tail(wire) /\ sock' = Append(sock, r)
  BY <1>2 DEF Respond
<1>5. wire \in Seq(Events) /\ sock \in Seq(Events) /\ r \in Events /\ Head(wire) \in Events
  BY <1>1, <1>3, EventSeqs DEF Events
<1>6. r \in EventsOf(i) <=> Head(wire) \in EventsOf(i)
  BY <1>3, <1>5 DEF EventsOf
<1>7. /\ Count(wire, EventsOf(i)) = Count(wire', EventsOf(i))
                                      + IF Head(wire) \in EventsOf(i) THEN 1 ELSE 0
      /\ Count(sock', EventsOf(i)) = Count(sock, EventsOf(i))
                                      + IF r \in EventsOf(i) THEN 1 ELSE 0
  BY <1>1, <1>4, <1>5, CountTail, CountAppend
<1>8. wire' \in Seq(Events)
  BY <1>1, <1>4, <1>5
<1>9. Count(wire', EventsOf(i)) \in Nat
  BY <1>8, CountType
<1> QED
  BY <1>6, <1>7, <1>9, EventSeqs DEF Outstanding

(* Nothing is posted, sent, answered or read.                              *)
LEMMA StillSame ==
  ASSUME UNCHANGED <<wire, sock, evq>>, NEW j \in SeqIds
  PROVE  Outstanding(j)' = Outstanding(j)
BY DEF Outstanding

(* What is left when the last reply of a closing connection is read.       *)
LEMMA NothingAfter ==
  ASSUME TypeOK, sock # << >>, LastAwaited
  PROVE  Tail(sock) = << >> /\ wire = << >>
<1>1. Tail(sock) \in Seq(Reply) /\ wire \in Seq(Request)
  BY DEF TypeOK, RedisTypeOK
<1>2. Len(Tail(sock) \o wire) = 0
  <2>1. Tail(sock) \o wire = << >>
    BY DEF LastAwaited
  <2>2. Len(<< >>) = 0
    OBVIOUS
  <2> QED
    BY <2>1, <2>2
<1>3. Len(Tail(sock)) \in Nat /\ Len(wire) \in Nat /\ Len(Tail(sock) \o wire) = Len(Tail(sock)) + Len(wire)
  BY <1>1
<1>4. Len(Tail(sock)) = 0 /\ Len(wire) = 0
  BY <1>2, <1>3
<1> QED
  BY <1>1, <1>4, EmptySeq

(* A reply is read: it becomes an event.                                   *)
LEMMA ReadSame ==
  ASSUME TypeOK, HandleRead \/ HandleLastRead, NEW i \in SeqIds
  PROVE  Outstanding(i)' = Outstanding(i)
<1>1. /\ sock # << >> /\ evq' = Append(evq, Head(sock)) /\ sock' = Tail(sock) /\ wire' = wire
  BY NothingAfter DEF HandleRead, HandleLastRead
<1>2. sock \in Seq(Events) /\ evq \in Seq(Events)
  BY EventSeqs
<1>3. Head(sock) \in Events /\ sock' \in Seq(Events)
  BY <1>1, <1>2
<1>4. /\ Count(sock, EventsOf(i)) = Count(sock', EventsOf(i))
                                      + IF Head(sock) \in EventsOf(i) THEN 1 ELSE 0
      /\ Count(evq', EventsOf(i)) = Count(evq, EventsOf(i))
                                      + IF Head(sock) \in EventsOf(i) THEN 1 ELSE 0
  BY <1>1, <1>2, <1>3, CountTail, CountAppend
<1>5. Count(sock', EventsOf(i)) \in Nat
  BY <1>3, CountType
<1> QED
  BY <1>1, <1>4, <1>5, EventSeqs DEF Outstanding

(* The head of the event queue is processed, and events are posted.        *)
LEMMA Consumed ==
  ASSUME TypeOK, evq # << >>, NEW posted \in Seq(Events), evq' = Tail(evq) \o posted,
         UNCHANGED <<wire, sock>>, NEW i \in SeqIds
  PROVE  Outstanding(i)' = Outstanding(i) - (IF Head(evq).seq = i THEN 1 ELSE 0)
                                          + Count(posted, EventsOf(i))
<1>1. evq \in Seq(Events) /\ Head(evq) \in Events /\ Tail(evq) \in Seq(Events)
  BY EventSeqs
<1>2. Head(evq) \in EventsOf(i) <=> Head(evq).seq = i
  BY <1>1 DEF EventsOf
<1>a. Count(evq, EventsOf(i)) = Count(Tail(evq), EventsOf(i))
                                  + IF Head(evq) \in EventsOf(i) THEN 1 ELSE 0
  BY <1>1, CountTail
<1>3. Count(evq', EventsOf(i)) = Count(Tail(evq), EventsOf(i)) + Count(posted, EventsOf(i))
  BY <1>1, CountConcat
<1>4. Count(Tail(evq), EventsOf(i)) \in Nat /\ Count(posted, EventsOf(i)) \in Nat
  BY <1>1, CountType
<1>5. /\ Count(wire, EventsOf(i)) \in Nat /\ Count(sock, EventsOf(i)) \in Nat
      /\ Count(wire', EventsOf(i)) = Count(wire, EventsOf(i))
      /\ Count(sock', EventsOf(i)) = Count(sock, EventsOf(i))
  BY EventSeqs
<1>6. Outstanding(i)' = Count(wire', EventsOf(i)) + Count(sock', EventsOf(i)) + Count(evq', EventsOf(i))
  BY DEF Outstanding
<1>7. Outstanding(i) = Count(wire, EventsOf(i)) + Count(sock, EventsOf(i)) + Count(evq, EventsOf(i))
  BY DEF Outstanding
<1> QED
  BY ONLY <1>2, <1>a, <1>3, <1>4, <1>5, <1>6, <1>7

LEMMA Posted ==
  ASSUME TypeOK, NEW r \in Events, evq' = Append(evq, r), UNCHANGED <<wire, sock>>, NEW i \in SeqIds
  PROVE  Outstanding(i)' = Outstanding(i) + IF r.seq = i THEN 1 ELSE 0
<1>1. Count(evq', EventsOf(i)) = Count(evq, EventsOf(i)) + IF r \in EventsOf(i) THEN 1 ELSE 0
  BY EventSeqs, CountAppend
<1>2. r \in EventsOf(i) <=> r.seq = i
  BY DEF EventsOf
<1> QED
  BY <1>1, <1>2, EventSeqs DEF Outstanding

(* A command is sent, or answered NotConnected.                            *)
LEMMA SentSame ==
  ASSUME TypeOK, ProcessRequestEvent, NEW i \in SeqIds
  PROVE  Outstanding(i)' = Outstanding(i)
<1>1. evq # << >> /\ UNCHANGED sock
  BY DEF ProcessRequestEvent
<1>2. evq \in Seq(Events) /\ Head(evq) \in Events /\ Tail(evq) \in Seq(Events) /\ wire \in Seq(Events)
  BY <1>1, EventSeqs
<1>3. CASE evq' = Tail(evq) /\ wire' = Append(wire, Head(evq))
  <2>1. /\ Count(evq, EventsOf(i)) = Count(evq', EventsOf(i))
                                        + IF Head(evq) \in EventsOf(i) THEN 1 ELSE 0
        /\ Count(wire', EventsOf(i)) = Count(wire, EventsOf(i))
                                        + IF Head(evq) \in EventsOf(i) THEN 1 ELSE 0
    BY <1>1, <1>2, <1>3, CountTail, CountAppend
  <2>2. Count(evq', EventsOf(i)) \in Nat
    BY <1>2, <1>3, CountType
  <2> QED
    BY <1>1, <2>1, <2>2, EventSeqs DEF Outstanding
<1>4. CASE /\ evq' = Append(Tail(evq), Rep(Head(evq).seq, "NotConnected", "none", {}))
           /\ UNCHANGED wire
  <2> DEFINE r == Rep(Head(evq).seq, "NotConnected", "none", {})
  <2>1. Head(evq).seq \in SeqIds
    BY <1>2, RequestSeq DEF Events
  <2>2. r \in Events /\ r.seq = Head(evq).seq
    BY <2>1, EventTypes DEF Rep, Results, Events
  <2>3. evq' = Tail(evq) \o <<r>> /\ <<r>> \in Seq(Events)
    <3> HIDE DEF r
    <3>1. evq' = Append(Tail(evq), r)
      BY <1>4 DEF r
    <3>2. Append(Tail(evq), r) = Tail(evq) \o <<r>>
      BY <1>2, <2>2, AppendIsConcat
    <3> QED
      BY <2>2, <3>1, <3>2
  <2>4. r \in EventsOf(i) <=> Head(evq).seq = i
    BY <2>2 DEF EventsOf
  <2> HIDE DEF r
  <2>5. Outstanding(i)' = Outstanding(i) - (IF Head(evq).seq = i THEN 1 ELSE 0)
                                         + Count(<<r>>, EventsOf(i))
    BY <1>1, <1>4, <2>3, Consumed
  <2>6. Count(<<r>>, EventsOf(i)) = IF r \in EventsOf(i) THEN 1 ELSE 0
    BY CountOne
  <2>7. Outstanding(i) \in Int
    BY EventSeqs DEF Outstanding
  <2> QED
    BY <2>4, <2>5, <2>6, <2>7
<1> QED
  BY <1>3, <1>4, StillSame DEF ProcessRequestEvent

(* The connection breaks: what was on it is answered without a reply.      *)
LEMMA LostSame ==
  ASSUME TypeOK, OnDisconnect, NEW i \in SeqIds
  PROVE  Outstanding(i)' = Outstanding(i)
<1> DEFINE pending == sock \o wire
           lost == [j \in 1..Len(pending) |-> Rep(pending[j].seq, "IOError", "none", {})]
<1>1. evq' = evq \o lost /\ wire' = << >> /\ sock' = << >>
  BY DEF OnDisconnect
<1>2. sock \in Seq(Events) /\ wire \in Seq(Events) /\ evq \in Seq(Events)
  BY EventSeqs
<1>3. pending \in Seq(Events) /\ Count(pending, EventsOf(i)) = Count(sock, EventsOf(i)) + Count(wire, EventsOf(i))
  BY <1>2, CountConcat
<1> HIDE DEF pending
<1>4. Len(pending) \in Nat /\ DOMAIN pending = 1..Len(pending)
      /\ \A j \in 1..Len(pending) : pending[j] \in Events
  BY <1>3
<1>5. \A j \in 1..Len(pending) : pending[j].seq \in SeqIds
  BY <1>4, RequestSeq DEF Events
<1>6. \A j \in 1..Len(pending) : lost[j] \in Events /\ lost[j].seq = pending[j].seq
  BY <1>5, EventTypes DEF Rep, Results, Events
<1>7. lost \in Seq(Events) /\ DOMAIN lost = DOMAIN pending
  BY <1>4, <1>6
<1>8. \A j \in DOMAIN lost : lost[j] \in EventsOf(i) <=> pending[j] \in EventsOf(i)
  BY <1>4, <1>6, <1>7 DEF EventsOf
<1> HIDE DEF lost
<1>9. Count(lost, EventsOf(i)) = Count(pending, EventsOf(i))
  BY <1>7, <1>8, CountSame
<1>10. Count(evq', EventsOf(i)) = Count(evq, EventsOf(i)) + Count(lost, EventsOf(i))
  BY <1>1, <1>2, <1>7, CountConcat
<1> QED
  BY <1>1, <1>3, <1>9, <1>10, CountEmpty, EventSeqs DEF Outstanding

-----------------------------------------------------------------------------
(* What each step does to the events of each sequence object.              *)
One(b) == IF b THEN 1 ELSE 0

LEMMA IdFacts ==
  /\ InvId \in SeqIds /\ OpIds \subseteq SeqIds /\ InvId \notin OpIds
  /\ \A j \in SeqIds : j # InvId => j \in OpIds
  /\ Req(InvId, "KEYS") \in Events /\ Req(InvId, "KEYS").seq = InvId
  /\ \A i \in OpIds : Req(i, "MULTI") \in Events /\ Req(i, "MULTI").seq = i
  /\ \A i \in SeqIds : Req(i, "MULTI") \in Events /\ Req(i, "MULTI").seq = i
                    /\ Req(i, "EXEC") \in Events /\ Req(i, "EXEC").seq = i
<1>1. InvId \in SeqIds /\ OpIds \subseteq SeqIds /\ InvId \notin OpIds
      /\ \A j \in SeqIds : j # InvId => j \in OpIds
  BY DEF SeqIds, OpIds, InvId
<1>2. \A i \in SeqIds, c \in Commands : Req(i, c) \in Events /\ Req(i, c).seq = i
  BY EventTypes DEF Events, Req
<1> QED
  BY <1>1, <1>2 DEF Commands

LEMMA OutstandingType ==
  ASSUME TypeOK, NEW j \in SeqIds
  PROVE  Outstanding(j) \in Nat
BY EventSeqs DEF Outstanding

(* An answer is processed and nothing is posted.                           *)
LEMMA TailStep ==
  ASSUME TypeOK, evq # << >>, evq' = Tail(evq), UNCHANGED <<wire, sock>>, NEW j \in SeqIds
  PROVE  Outstanding(j)' = Outstanding(j) - One(j = Head(evq).seq)
<1>1. << >> \in Seq(Events) /\ Tail(evq) \in Seq(Events)
  BY EventSeqs
<1>2. evq' = Tail(evq) \o << >>
  BY <1>1, ConcatEmptySeq
<1>3. Outstanding(j)' = Outstanding(j) - (IF Head(evq).seq = j THEN 1 ELSE 0)
                                       + Count(<< >>, EventsOf(j))
  BY <1>1, <1>2, Consumed
<1> QED
  BY <1>3, CountEmpty, OutstandingType DEF One

(* An answer is processed and one request is posted.                       *)
LEMMA TailPostStep ==
  ASSUME TypeOK, evq # << >>, NEW r \in Events, evq' = Append(Tail(evq), r),
         UNCHANGED <<wire, sock>>, NEW j \in SeqIds
  PROVE  Outstanding(j)' = Outstanding(j) - One(j = Head(evq).seq) + One(j = r.seq)
<1>1. Tail(evq) \in Seq(Events) /\ <<r>> \in Seq(Events)
  BY EventSeqs
<1>2. evq' = Tail(evq) \o <<r>>
  BY <1>1, AppendIsConcat
<1>3. Outstanding(j)' = Outstanding(j) - (IF Head(evq).seq = j THEN 1 ELSE 0)
                                       + Count(<<r>>, EventsOf(j))
  BY <1>1, <1>2, Consumed
<1>4. Count(<<r>>, EventsOf(j)) = IF r \in EventsOf(j) THEN 1 ELSE 0
  BY CountOne
<1> QED
  BY <1>3, <1>4, OutstandingType DEF One, EventsOf

(* The connect callback and the RPC thread may post the KEYS of inv_seq.   *)
LEMMA KeysStep ==
  ASSUME TypeOK, evq' = Append(evq, Req(InvId, "KEYS")), UNCHANGED <<wire, sock>>, NEW j \in SeqIds
  PROVE  Outstanding(j)' = Outstanding(j) + One(j = InvId)
BY IdFacts, Posted, OutstandingType DEF One

(* perform() posts the MULTI of a new object.                              *)
LEMMA PerformStep ==
  ASSUME TypeOK, NEW list \in Seq(Op), NEW thread, PerformOperations(list, thread),
         UNCHANGED <<wire, sock>>
  PROVE  \E i \in OpIds : /\ ops[i].state = "NONE" /\ ops' = [ops EXCEPT ![i] = NewSeq(list)]
                          /\ \A j \in SeqIds : Outstanding(j)' = Outstanding(j) + One(j = i)
<1>1. PICK i \in FreeIds : /\ ops' = [ops EXCEPT ![i] = NewSeq(list)]
                           /\ evq' = Append(evq, Req(i, "MULTI"))
  BY DEF PerformOperations
<1>2. i \in OpIds /\ ops[i].state = "NONE"
  BY DEF FreeIds
<1>3. \A j \in SeqIds : Outstanding(j)' = Outstanding(j) + One(j = i)
  BY <1>1, <1>2, IdFacts, Posted, OutstandingType DEF One
<1> QED
  BY <1>1, <1>2, <1>3

(* The keys are known: MULTI, one HSET for each, EXEC.                     *)
LEMMA GotKeysStep ==
  ASSUME TypeOK, InvGotKeys, NEW j \in SeqIds
  PROVE  /\ inv'.count \in Nat /\ inv'.state = "CLEAN_RES"
         /\ Outstanding(j)' = Outstanding(j) + IF j = InvId THEN inv'.count - 1 ELSE 0
<1> DEFINE ks == SetToSeq(Head(evq).keys)
           hsets == [i \in 1..Len(ks) |-> HSet(InvId, ks[i])]
           m == <<Req(InvId, "MULTI")>>
           x == <<Req(InvId, "EXEC")>>
<1>1. evq # << >> /\ Head(evq).t = "rep" /\ Head(evq).seq = InvId /\ UNCHANGED <<wire, sock>>
  BY DEF InvGotKeys, InvReply, redisVars
<1>2. Tail(evq) \in Seq(Events) /\ Head(evq) \in Reply
  BY <1>1, EventSeqs, EventKind DEF Events
<1>3. ks \in Seq(Keys)
  <2>1. Head(evq).keys \in SUBSET Keys
    BY <1>2, RequestSeq
  <2>2. IsFiniteSet(Head(evq).keys)
    BY <2>1, RedisAssumption, FS_Subset
  <2>3. ks \in Seq(Head(evq).keys)
    BY <2>2, SetToSeqType
  <2> QED
    BY <2>1, <2>3
<1> HIDE DEF ks
<1>4. /\ evq' = ((Tail(evq) \o m) \o hsets) \o x
      /\ inv' = [state |-> "CLEAN_RES", initial |-> inv.initial, count |-> Len(ks) + 2]
  BY DEF InvGotKeys, ks
<1>5. Len(ks) \in Nat /\ \A i \in 1..Len(ks) : ks[i] \in Keys
  BY <1>3
<1>6. \A i \in 1..Len(ks) : hsets[i] \in Events /\ hsets[i].seq = InvId
  BY <1>5, EventTypes, IdFacts DEF HSet, Req, Events
<1>7. hsets \in Seq(Events) /\ Len(hsets) = Len(ks) /\ DOMAIN hsets = 1..Len(ks)
  BY <1>5, <1>6
<1>8. m \in Seq(Events) /\ x \in Seq(Events)
  BY IdFacts
<1>9. Count(m, EventsOf(j)) = One(j = InvId) /\ Count(x, EventsOf(j)) = One(j = InvId)
  BY IdFacts, CountOne DEF EventsOf, One
<1>10. Count(hsets, EventsOf(j)) = IF j = InvId THEN Len(ks) ELSE 0
  <2>1. CASE j = InvId
    <3>1. \A i \in DOMAIN hsets : hsets[i] \in EventsOf(j)
      BY <1>6, <1>7, <2>1 DEF EventsOf
    <3> HIDE DEF hsets
    <3> QED
      BY <1>7, <2>1, <3>1, CountAll
  <2>2. CASE j # InvId
    <3>1. \A i \in DOMAIN hsets : hsets[i] \notin EventsOf(j)
      BY <1>6, <1>7, <2>2 DEF EventsOf
    <3> HIDE DEF hsets
    <3> QED
      BY <1>7, <2>2, <3>1, CountAll
  <2> QED
    BY <2>1, <2>2
<1> HIDE DEF hsets, m, x
<1>12. (m \o hsets) \o x \in Seq(Events) /\ m \o hsets \in Seq(Events)
  BY <1>7, <1>8, ConcatProperties
<1>11. ((Tail(evq) \o m) \o hsets) \o x = Tail(evq) \o ((m \o hsets) \o x)
  <2>1. (Tail(evq) \o m) \o hsets = Tail(evq) \o (m \o hsets)
    <3>1. Tail(evq) \in Seq(Events) /\ m \in Seq(Events) /\ hsets \in Seq(Events)
      BY <1>2, <1>7, <1>8
    <3>2. PICK t \in Seq(Events), y \in Seq(Events), z \in Seq(Events) :
            t = Tail(evq) /\ y = m /\ z = hsets
      BY <3>1
    <3>3. (t \o y) \o z = t \o (y \o z)
      BY ONLY ConcatAssociative
    <3> QED
      BY ONLY <3>2, <3>3
  <2>2. (Tail(evq) \o (m \o hsets)) \o x = Tail(evq) \o ((m \o hsets) \o x)
    <3> DEFINE mh == m \o hsets
    <3>1. mh \in Seq(Events)
      BY <1>12
    <3> HIDE DEF mh
    <3>2. (Tail(evq) \o mh) \o x = Tail(evq) \o (mh \o x)
      <4>1. Tail(evq) \in Seq(Events) /\ x \in Seq(Events)
        BY <1>2, <1>8
      <4> QED
        BY ONLY <3>1, <4>1, ConcatAssociative
    <3> QED
      BY <3>2 DEF mh
  <2> QED
    BY <2>1, <2>2
<1>13. Count((m \o hsets) \o x, EventsOf(j))
         = Count(m, EventsOf(j)) + Count(hsets, EventsOf(j)) + Count(x, EventsOf(j))
  <2>1. Count(m \o hsets, EventsOf(j)) = Count(m, EventsOf(j)) + Count(hsets, EventsOf(j))
    BY <1>7, <1>8, CountConcat
  <2>2. Count((m \o hsets) \o x, EventsOf(j)) = Count(m \o hsets, EventsOf(j)) + Count(x, EventsOf(j))
    BY <1>8, <1>12, CountConcat
  <2> QED
    BY <2>1, <2>2
<1>14. Outstanding(j)' = Outstanding(j) - (IF Head(evq).seq = j THEN 1 ELSE 0)
                                        + Count((m \o hsets) \o x, EventsOf(j))
  BY <1>1, <1>4, <1>11, <1>12, Consumed
<1>15. inv'.count = Len(ks) + 2 /\ inv'.state = "CLEAN_RES"
  BY <1>4
<1> QED
  BY <1>1, <1>5, <1>9, <1>10, <1>13, <1>14, <1>15, OutstandingType DEF One

(* MULTI is answered: the increments and EXEC of the list.                 *)
LEMMA MultiAnsweredStep ==
  ASSUME TypeOK, NEW i \in OpIds, OpMultiAnswered(i), NEW j \in SeqIds
  PROVE  /\ Len(ops[i].list) \in Nat
         /\ Outstanding(j)' = Outstanding(j) + IF j = i THEN Len(ops[i].list) ELSE 0
<1> DEFINE list == ops[i].list
           h == [n \in 1..Len(list) |->
                   HIncrBy(i, list[n].k, list[n].s, IF list[n].op = "get" THEN 1 ELSE -1)]
           x == <<Req(i, "EXEC")>>
<1>1. evq # << >> /\ Head(evq).seq = i /\ UNCHANGED <<wire, sock>>
  BY DEF OpMultiAnswered, OpReply, redisVars
<1>2. Tail(evq) \in Seq(Events)
  BY <1>1, EventSeqs
<1>3. list \in Seq(Op)
  BY DEF TypeOK, ConnTypeOK
<1> HIDE DEF list
<1>4. evq' = Tail(evq) \o (h \o x)
  BY DEF OpMultiAnswered, OpCommands, list
<1>5. Len(list) \in Nat /\ \A n \in 1..Len(list) : list[n] \in Op
  BY <1>3
<1>a. \A n \in 1..Len(list) : list[n].k \in Keys /\ list[n].s \in Sessions
  BY <1>5 DEF Op
<1>6. \A n \in 1..Len(list) : h[n] \in Events /\ h[n].seq = i
  BY <1>a, EventTypes, IdFacts DEF HIncrBy, Req, Events
<1>7. h \in Seq(Events) /\ Len(h) = Len(list) /\ DOMAIN h = 1..Len(list)
  BY <1>5, <1>6
<1>8. x \in Seq(Events)
  BY IdFacts
<1>9. Count(x, EventsOf(j)) = One(j = i)
  BY IdFacts, CountOne DEF EventsOf, One
<1>10. Count(h, EventsOf(j)) = IF j = i THEN Len(list) ELSE 0
  <2>1. CASE j = i
    <3>1. \A n \in DOMAIN h : h[n] \in EventsOf(j)
      BY <1>6, <1>7, <2>1 DEF EventsOf
    <3> HIDE DEF h
    <3> QED
      BY <1>7, <2>1, <3>1, CountAll
  <2>2. CASE j # i
    <3>1. \A n \in DOMAIN h : h[n] \notin EventsOf(j)
      BY <1>6, <1>7, <2>2 DEF EventsOf
    <3> HIDE DEF h
    <3> QED
      BY <1>7, <2>2, <3>1, CountAll
  <2> QED
    BY <2>1, <2>2
<1> HIDE DEF h, x
<1>11. h \o x \in Seq(Events) /\ Count(h \o x, EventsOf(j)) = Count(h, EventsOf(j)) + Count(x, EventsOf(j))
  BY <1>7, <1>8, CountConcat, ConcatProperties
<1>12. Outstanding(j)' = Outstanding(j) - (IF Head(evq).seq = j THEN 1 ELSE 0)
                                        + Count(h \o x, EventsOf(j))
  BY <1>1, <1>4, <1>11, Consumed
<1> QED
  BY <1>1, <1>5, <1>9, <1>10, <1>11, <1>12, OutstandingType DEF One, list

-----------------------------------------------------------------------------
(* Submitting operations, by a session or the RPC thread: they are         *)
(* postponed, or a new object is created for them.                         *)
LEMMA SubmitStep ==
  ASSUME TypeOK, NEW rol \in Seq(Op), NEW s, ProcessOperationsList(rol, s), UNCHANGED <<wire, sock>>
  PROVE  \/ /\ opQueue' = opQueue \o rol /\ UNCHANGED <<ops, evq, busy, holder>>
            /\ \A j \in SeqIds : Outstanding(j)' = Outstanding(j)
         \/ /\ IsReady /\ ~busy /\ UNCHANGED opQueue
            /\ PerformOperations(rol, s)
            /\ \E i \in OpIds :
                 /\ ops[i].state = "NONE" /\ ops' = [ops EXCEPT ![i] = NewSeq(rol)]
                 /\ \A j \in SeqIds : Outstanding(j)' = Outstanding(j) + One(j = i)
<1>1. CASE IsReady /\ ~busy
  BY <1>1, PerformStep DEF ProcessOperationsList
<1>2. CASE ~(IsReady /\ ~busy)
  <2>1. opQueue' = opQueue \o rol /\ UNCHANGED <<ops, evq, busy, holder>>
    BY <1>2 DEF ProcessOperationsList
  <2> QED
    BY <2>1, StillSame
<1> QED
  BY <1>1, <1>2

(* A new object waits for the answer of its MULTI.                         *)
LEMMA NewSeqStep ==
  ASSUME TypeOK, AwaitedInv, NEW list, NEW i \in OpIds,
         ops[i].state = "NONE", ops' = [ops EXCEPT ![i] = NewSeq(list)],
         \A j \in SeqIds : Outstanding(j)' = Outstanding(j) + One(j = i)
  PROVE  AwaitedInv'
<1> SUFFICES ASSUME NEW n \in OpIds PROVE Outstanding(n)' = Waits(ops'[n])
  BY DEF AwaitedInv
<1>0. n \in SeqIds /\ Outstanding(n) \in Nat
  BY IdFacts, OutstandingType
<1>1. CASE n = i
  <2>1. ops'[i] = NewSeq(list)
    BY DEF TypeOK, ConnTypeOK
  <2>2. Waits(NewSeq(list)) = 1
    BY DEF Waits, NewSeq
  <2>3. Outstanding(i) = 0
    BY DEF AwaitedInv, Waits
  <2> QED
    BY <1>0, <1>1, <2>1, <2>2, <2>3 DEF One
<1>2. CASE n # i
  <2>1. ops'[n] = ops[n]
    BY <1>2 DEF TypeOK, ConnTypeOK
  <2> QED
    BY <1>0, <1>2, <2>1 DEF One, AwaitedInv
<1> QED
  BY <1>1, <1>2

(* Steps that leave the objects alone and move or post no event of theirs. *)
LEMMA OpsSame ==
  ASSUME AwaitedInv, UNCHANGED ops, \A j \in OpIds : Outstanding(j)' = Outstanding(j)
  PROVE  AwaitedInv'
BY DEF AwaitedInv

(* One answer of object i, which then waits for `n' answers.               *)
LEMMA OpStep ==
  ASSUME TypeOK, AwaitedInv, NEW i \in OpIds, NEW op, ops' = [ops EXCEPT ![i] = op],
         Outstanding(i)' = Waits(op),
         \A j \in OpIds : j # i => Outstanding(j)' = Outstanding(j)
  PROVE  AwaitedInv'
<1>1. \A j \in OpIds : ops'[j] = IF j = i THEN op ELSE ops[j]
  BY DEF TypeOK, ConnTypeOK
<1> QED
  BY <1>1 DEF AwaitedInv

LEMMA RedisThreadAwaited ==
  ASSUME TypeOK, AwaitedInv, RedisThread \/ OnDisconnect \/ ConnectFailed
  PROVE  AwaitedInv'
<1> USE IdFacts
<1>1. CASE ProcessRequestEvent
  BY <1>1, SentSame, OpsSame DEF ProcessRequestEvent, seqVars
<1>2. CASE HandleRead
  BY <1>2, ReadSame, OpsSame DEF HandleRead, seqVars
<1>b. CASE HandleLastRead
  BY <1>b, ReadSame, OpsSame DEF HandleLastRead
<1>3. CASE ProcessOperationsQueue
  <2>1. UNCHANGED <<wire, sock>> /\ opQueue \in Seq(Op)
    BY <1>3 DEF ProcessOperationsQueue, redisVars, TypeOK, ConnTypeOK
  <2>2. CASE UNCHANGED <<opQueue, ops, evq, busy, holder>>
    BY <2>1, <2>2, StillSame, OpsSame
  <2>3. CASE PerformOperations(opQueue, NoSession)
    BY <2>1, <2>3, PerformStep, NewSeqStep
  <2> QED
    BY <1>3, <2>2, <2>3 DEF ProcessOperationsQueue
<1>4. CASE OnReconnect \/ ConnectFailed
  BY <1>4, StillSame, OpsSame DEF OnReconnect, ConnectFailed, redisVars, seqVars
<1>5. CASE OnConnect
  <2>1. UNCHANGED <<wire, sock, ops>>
    BY <1>5 DEF OnConnect, redisVars
  <2>2. CASE UNCHANGED evq
    BY <2>1, <2>2, StillSame, OpsSame
  <2>3. CASE evq' = Append(evq, Req(InvId, "KEYS"))
    <3>1. \A j \in OpIds : Outstanding(j)' = Outstanding(j)
      BY <2>1, <2>3, KeysStep, OutstandingType DEF One
    <3> QED
      BY <2>1, <3>1, OpsSame
  <2> QED
    BY <1>5, <2>2, <2>3 DEF OnConnect
<1>6. CASE OnDisconnect
  BY <1>6, LostSame, OpsSame DEF OnDisconnect
<1>7. CASE InvOnError \/ InvCleaning \/ InvFinished
  <2>1. evq # << >> /\ evq' = Tail(evq) /\ Head(evq).seq = InvId /\ UNCHANGED <<wire, sock, ops>>
    BY <1>7 DEF InvOnError, InvCleaning, InvFinished, InvReply, redisVars
  <2>2. \A j \in OpIds : Outstanding(j)' = Outstanding(j)
    BY <2>1, TailStep, OutstandingType DEF One
  <2> QED
    BY <2>1, <2>2, OpsSame
<1>8. CASE InvGotKeys
  <2>1. \A j \in OpIds : Outstanding(j)' = Outstanding(j)
    BY <1>8, GotKeysStep, OutstandingType
  <2> QED
    BY <1>8, <2>1, OpsSame DEF InvGotKeys
<1>9. ASSUME NEW i \in OpIds, OpMultiAnswered(i)
      PROVE  AwaitedInv'
  <2> DEFINE op == [state |-> "OP_RES", list |-> ops[i].list,
                    count |-> Len(ops[i].list) + 1, err |-> ops[i].err]
  <2>1. ops[i].state = "MULTI_START" /\ ops' = [ops EXCEPT ![i] = op]
    BY <1>9 DEF OpMultiAnswered
  <2>2. Outstanding(i) = 1
    BY <2>1 DEF AwaitedInv, Waits
  <2>3. Waits(op) = Len(ops[i].list) + 1
    BY DEF Waits
  <2> HIDE DEF op
  <2>4. /\ Outstanding(i)' = Outstanding(i) + Len(ops[i].list) /\ Len(ops[i].list) \in Nat
        /\ \A j \in OpIds : j # i => Outstanding(j)' = Outstanding(j)
    BY <1>9, MultiAnsweredStep, OutstandingType
  <2>5. Outstanding(i)' = Waits(op)
    BY <2>2, <2>3, <2>4
  <2> QED
    BY <2>1, <2>4, <2>5, OpStep
<1>10. ASSUME NEW i \in OpIds, OpQueued(i)
       PROVE  AwaitedInv'
  <2> DEFINE op == [state |-> "OP_RES", list |-> ops[i].list,
                    count |-> ops[i].count - 1, err |-> OpFailed(i)]
  <2>1. ops[i].state = "OP_RES" /\ ops' = [ops EXCEPT ![i] = op]
    BY <1>10 DEF OpQueued
  <2>2. evq # << >> /\ evq' = Tail(evq) /\ Head(evq).seq = i /\ UNCHANGED <<wire, sock>>
    BY <1>10 DEF OpQueued, OpReply, redisVars
  <2>3. \A j \in OpIds : Outstanding(j)' = Outstanding(j) - One(j = i)
    BY <2>2, TailStep
  <2>4. Waits(op) = ops[i].count - 1 /\ Waits(ops[i]) = ops[i].count
    BY <2>1 DEF Waits
  <2> HIDE DEF op
  <2>5. Outstanding(i)' = Waits(op) /\ \A j \in OpIds : j # i => Outstanding(j)' = Outstanding(j)
    BY <2>3, <2>4, OutstandingType DEF AwaitedInv, One
  <2> QED
    BY <2>1, <2>5, OpStep
<1>11. ASSUME NEW i \in OpIds, OpSucceeded(i) \/ OpErrored(i)
       PROVE  AwaitedInv'
  <2>1. /\ ops[i].state = "OP_RES" /\ ops[i].count = 1 /\ ops' = [ops EXCEPT ![i] = NoSeq]
        /\ evq # << >> /\ Head(evq).seq = i /\ UNCHANGED <<wire, sock>>
    BY <1>11 DEF OpSucceeded, OpErrored, OpLast, OpReply, redisVars
  <2>2. \A j \in OpIds : Outstanding(j)' = Outstanding(j) - One(j = i)
    <3>1. CASE evq' = Tail(evq)
      BY <2>1, <3>1, TailStep
    <3>2. CASE evq' = Append(Tail(evq), Req(InvId, "KEYS"))
      BY <2>1, <3>2, TailPostStep, OutstandingType DEF One
    <3> QED
      BY <1>11, <3>1, <3>2 DEF OpSucceeded, OpErrored
  <2>3. Waits(ops[i]) = 1 /\ Waits(NoSeq) = 0
    BY <2>1 DEF Waits, NoSeq
  <2>4. Outstanding(i)' = Waits(NoSeq) /\ \A j \in OpIds : j # i => Outstanding(j)' = Outstanding(j)
    BY <2>2, <2>3, OutstandingType DEF AwaitedInv, One
  <2> QED
    BY <2>1, <2>4, OpStep
<1> QED
  BY <1>1, <1>2, <1>b, <1>3, <1>4, <1>5, <1>6, <1>7, <1>8, <1>9, <1>10, <1>11 DEF RedisThread

(* What the session and RPC threads do to the redis thread's side: they    *)
(* submit operations, or leave it alone, or post the KEYS of inv_seq.      *)
LEMMA SessionEffect ==
  ASSUME TypeOK, NEW s \in Sessions, SessionThread(s) \/ RpcPut(s)
  PROVE  \/ UNCHANGED <<redisVars, connVars>>
         \/ /\ UNCHANGED <<redisVars, ctx, inited, inv, pc, container_ready, proc, faultVars>>
            /\ \E rol \in Seq(Op) : ProcessOperationsList(rol, s)
<1>1. CASE GetGranted(s)
  <2> DEFINE act == FirstFree(Need[s].failover, over[s])
  <2>1. act \in SUBSET (1..Size(s))
    BY ControlAssumption DEF FirstFree, Size
  <2> HIDE DEF act
  <2>2. OperationList("get", s, act) \in Seq(Op)
    BY <2>1, OperationListType
  <2> QED
    BY <1>1, <2>2 DEF GetGranted, act
<1>2. CASE PutHandler(s)
  <2>1. OperationList("put", s, taken[s]) \in Seq(Op)
    BY OperationListType DEF TypeOK
  <2>2. CASE handlers[s] = "valid" /\ taken[s] # {}
    BY <1>2, <2>1, <2>2 DEF PutHandler
  <2>3. CASE ~(handlers[s] = "valid" /\ taken[s] # {})
    BY <1>2, <2>3 DEF PutHandler, redisVars, connVars, seqVars, faultVars
  <2> QED
    BY <2>2, <2>3
<1>3. CASE GetStart(s) \/ CheckValue(s) \/ CheckFailed(s) \/ GetEmplace(s) \/ GetBusy(s)
  BY <1>3 DEF GetStart, CheckValue, CheckFailed, GetEmplace, GetBusy
<1> QED
  BY <1>1, <1>2, <1>3 DEF SessionThread, SessionPut, RpcPut

LEMMA AwaitedInductive ==
  ASSUME TypeOK, AwaitedInv, [Next]_vars
  PROVE  AwaitedInv'
<1> USE IdFacts
<1>0. UNCHANGED <<wire, sock, evq, ops>> => AwaitedInv'
  BY StillSame, OpsSame
<1>1. CASE Client
  BY <1>1, RedisThreadAwaited DEF Client
<1>2. CASE Redis_ \/ (ServerFault /\ Fault)
  <2>1. (Server \/ ServerRefuse) /\ UNCHANGED <<evq, ops>>
    BY <1>2 DEF Redis_, ServerStep, ServerFault, connVars, seqVars
  <2> QED
    BY <2>1, AnsweredSame, OpsSame
<1>3. CASE OnDisconnect \/ ConnectFailed
  BY <1>3, RedisThreadAwaited
<1>4. ASSUME NEW s \in Sessions, SessionThread(s) \/ RpcPut(s) PROVE AwaitedInv'
  <2>1. CASE UNCHANGED <<redisVars, connVars>>
    BY <1>0, <2>1 DEF redisVars, connVars, seqVars
  <2>2. ASSUME NEW rol \in Seq(Op), ProcessOperationsList(rol, s), UNCHANGED <<wire, sock>>
        PROVE  AwaitedInv'
    BY <2>2, SubmitStep, NewSeqStep, OpsSame
  <2> QED
    BY <1>4, <2>1, <2>2, SessionEffect DEF redisVars
<1>5. CASE ThreadResumed \/ InvalidateUnready \/ InvalidateHandlers \/ InvalidateReset \/ InvalidateAnswer
  BY <1>0, <1>5 DEF ThreadResumed, SetBusy, InvalidateUnready, InvalidateHandlers, InvalidateReset,
                    InvalidateAnswer, redisVars, connVars, seqVars
<1>6. CASE InvalidateSequence
  <2>1. UNCHANGED <<wire, sock, ops>>
    BY <1>6 DEF InvalidateSequence, redisVars
  <2>2. CASE UNCHANGED evq
    BY <1>0, <2>1, <2>2
  <2>3. CASE evq' = Append(evq, Req(InvId, "KEYS"))
    <3>1. \A j \in OpIds : Outstanding(j)' = Outstanding(j)
      BY <2>1, <2>3, KeysStep, OutstandingType DEF One
    <3> QED
      BY <2>1, <3>1, OpsSame
  <2> QED
    BY <1>6, <2>2, <2>3 DEF InvalidateSequence, InvalidateStart
<1>7. CASE Restart
  <2>1. wire' = << >> /\ sock' = << >> /\ evq' = << >> /\ ops' = [i \in OpIds |-> NoSeq]
    BY <1>7 DEF Restart
  <2> QED
    BY <2>1, CountEmpty DEF AwaitedInv, Outstanding, Waits, NoSeq
<1>8. CASE UNCHANGED vars
  BY <1>0, <1>8 DEF vars, redisVars, connVars, seqVars
<1> QED
  BY <1>1, <1>2, <1>3, <1>4, <1>5, <1>6, <1>7, <1>8 DEF Next, Fault, Invalidate

(* As many events refer to an object as it waits for, so none is left when *)
(* it is deleted.                                                          *)
LEMMA NoneLeft ==
  ASSUME TypeOK, AwaitedInv
  PROVE  UserDataAlive
<1> SUFFICES ASSUME NEW r \in Range(wire) \cup Range(sock) \cup Range(evq), r.seq \in OpIds,
                    ops[r.seq].state = "NONE"
             PROVE  FALSE
  BY DEF UserDataAlive
<1> DEFINE i == r.seq
<1>1. wire \in Seq(Events) /\ sock \in Seq(Events) /\ evq \in Seq(Events) /\ i \in SeqIds
  BY EventSeqs, IdFacts
<1>2. Outstanding(i) = 0
  BY DEF AwaitedInv, Waits
<1> HIDE DEF i
<1>3. Count(wire, EventsOf(i)) = 0 /\ Count(sock, EventsOf(i)) = 0 /\ Count(evq, EventsOf(i)) = 0
  BY <1>1, <1>2, EventSeqs DEF Outstanding
<1>4. ASSUME NEW q \in Seq(Events), Count(q, EventsOf(i)) = 0, r \in Range(q) PROVE FALSE
  <2>1. PICK j \in DOMAIN q : r = q[j]
    BY <1>4 DEF Range
  <2>2. r \in Events
    BY <1>4, <2>1
  <2>3. r \in EventsOf(i)
    BY <2>2 DEF EventsOf, i
  <2> QED
    BY <1>4, <2>1, <2>3, CountAll
<1> QED
  BY <1>1, <1>3, <1>4

(* Every request and reply refers to a sequence object that exists, for    *)
(* any number of operations in flight, whatever commands are refused,      *)
(* connections lost and threads preempted: process_reply_event deletes an  *)
(* object on its last answer and never earlier.                            *)
THEOREM ReferredIsAlive == Spec => []UserDataAlive
<1>1. Init => AwaitedInv
  BY CountEmpty DEF Init, RedisInit, ConnInit, AwaitedInv, Outstanding, Waits, NoSeq
<1>2. TypeOK /\ AwaitedInv /\ [Next]_vars => AwaitedInv'
  BY AwaitedInductive
<1>3. TypeOK /\ AwaitedInv => UserDataAlive
  BY NoneLeft
<1> QED
  BY <1>1, <1>2, <1>3, TypeCorrect, PTL DEF Spec

-----------------------------------------------------------------------------
(* SetToSeq lists every element of a finite set once.                      *)
LEMMA SetToSeqBijection ==
  ASSUME NEW S, IsFiniteSet(S)
  PROVE  SetToSeq(S) \in Bijection(1..Cardinality(S), S) /\ Len(SetToSeq(S)) = Cardinality(S)
<1> DEFINE n == Cardinality(S)
<1>1. n \in Nat /\ IsFiniteSet(1..n) /\ Cardinality(1..n) = n
  BY FS_CardinalityType, FS_Interval
<1>2. PICK f : f \in Bijection(1..n, S)
  BY FS_CardinalityType, FS_NatBijection DEF ExistsBijection
<1>3. f \in [1..n -> S] /\ IsInjective(f)
  BY <1>2 DEF Bijection, Injection, IsInjective
<1>4. SetToSeq(S) \in [1..n -> S] /\ IsInjective(SetToSeq(S))
  BY <1>3 DEF SetToSeq
<1>5. SetToSeq(S) \in Injection(1..n, S)
  BY <1>4 DEF Injection, IsInjective
<1>6. SetToSeq(S) \in Surjection(1..n, S)
  BY <1>1, <1>5, FS_Injection
<1> QED
  BY <1>1, <1>4, <1>5, <1>6 DEF Bijection

Position(s, P, k) == {i \in P : Need[s].key[i] = k}

(* The list of operations of a session has one for each of its positions,  *)
(* and none of another kind or session.                                    *)
LEMMA OperationCount ==
  ASSUME NEW s \in Sessions, NEW P \in SUBSET (1..Size(s)), NEW o \in {"get", "put"},
         NEW o2 \in {"get", "put"}, NEW t \in Sessions, NEW k \in Keys
  PROVE  Cardinality(Places(OperationList(o, s, P), o2, t, k))
           = IF o = o2 /\ s = t THEN Cardinality(Position(s, P, k)) ELSE 0
<1> DEFINE q == SetToSeq(P)
           list == OperationList(o, s, P)
           D == Places(list, o2, t, k)
<1>0. IsFiniteSet(P)
  <2>1. Size(s) \in Nat
    BY ControlAssumption DEF Size
  <2>2. IsFiniteSet(1..Size(s))
    BY <2>1, FS_Interval
  <2> QED
    BY <2>2, FS_Subset
<1>1. q \in Bijection(1..Cardinality(P), P) /\ Len(q) = Cardinality(P)
  BY <1>0, SetToSeqBijection
<1>2. list = [j \in 1..Cardinality(P) |-> [op |-> o, s |-> s, k |-> Need[s].key[q[j]]]]
  BY <1>1 DEF OperationList
<1> HIDE DEF q, list
<1>3. D = {j \in 1..Cardinality(P) : [op |-> o, s |-> s, k |-> Need[s].key[q[j]]]
                                       = [op |-> o2, s |-> t, k |-> k]}
  BY <1>2 DEF Places
<1>4. CASE ~(o = o2 /\ s = t)
  <2>1. D = {}
    BY <1>3, <1>4
  <2> QED
    BY <1>4, <2>1, FS_EmptySet DEF list
<1>5. CASE o = o2 /\ s = t
  <2>1. D = {j \in 1..Cardinality(P) : Need[s].key[q[j]] = k}
    BY <1>3, <1>5
  <2> HIDE DEF D
  <2>2. D \subseteq 1..Cardinality(P)
    BY <2>1
  <2> DEFINE f == [j \in D |-> q[j]]
             C == Position(s, P, k)
  <2>3. /\ q \in [1..Cardinality(P) -> P]
        /\ \A a, b \in 1..Cardinality(P) : q[a] = q[b] => a = b
        /\ \A y \in P : \E j \in 1..Cardinality(P) : q[j] = y
    BY <1>1 DEF Bijection, Injection, Surjection, IsInjective
  <2>4. f \in [D -> C]
    BY <2>1, <2>3 DEF Position
  <2>5. \A a, b \in D : f[a] = f[b] => a = b
    BY <2>2, <2>3
  <2>6. \A y \in C : \E j \in D : f[j] = y
    BY <2>1, <2>3 DEF Position
  <2>7. ExistsBijection(D, C)
    BY <2>4, <2>5, <2>6 DEF ExistsBijection, Bijection, Injection, Surjection, IsInjective
  <2>8. IsFiniteSet(D)
    <3>1. IsFiniteSet(1..Cardinality(P))
      BY <1>0, FS_CardinalityType, FS_Interval
    <3> QED
      BY <2>2, <3>1, FS_Subset
  <2>9. Cardinality(C) = Cardinality(D)
    BY <2>7, <2>8, FS_Bijection
  <2> QED
    BY <1>5, <2>9 DEF D, list
<1> QED
  BY <1>4, <1>5

-----------------------------------------------------------------------------
(* The operations of one kind, session and resource in the objects, and    *)
(* all that are under way: those and the postponed ones.                   *)
Sent(o, s, k) == UNION {{i} \X Places(ops[i].list, o, s, k) : i \in OpIds}

Underway(o, s, k) == Cardinality(Places(opQueue, o, s, k)) + Cardinality(Sent(o, s, k))

(* Places are counted as positions are.                                    *)
LEMMA PlacesCount ==
  ASSUME NEW list, NEW o, NEW s, NEW k
  PROVE  Places(list, o, s, k) = Positions(list, {[op |-> o, s |-> s, k |-> k]})
BY DEF Places, Positions

LEMMA PlacesType ==
  ASSUME NEW list \in Seq(Op), NEW o, NEW s, NEW k
  PROVE  /\ IsFiniteSet(Places(list, o, s, k))
         /\ Cardinality(Places(list, o, s, k)) \in Nat
BY PlacesCount, CountType DEF Count

LEMMA PlacesConcat ==
  ASSUME NEW p \in Seq(Op), NEW q \in Seq(Op), NEW o, NEW s, NEW k
  PROVE  Cardinality(Places(p \o q, o, s, k))
           = Cardinality(Places(p, o, s, k)) + Cardinality(Places(q, o, s, k))
<1>1. /\ Places(p \o q, o, s, k) = Positions(p \o q, {[op |-> o, s |-> s, k |-> k]})
      /\ Places(p, o, s, k) = Positions(p, {[op |-> o, s |-> s, k |-> k]})
      /\ Places(q, o, s, k) = Positions(q, {[op |-> o, s |-> s, k |-> k]})
  BY PlacesCount
<1>2. Count(p \o q, {[op |-> o, s |-> s, k |-> k]})
        = Count(p, {[op |-> o, s |-> s, k |-> k]}) + Count(q, {[op |-> o, s |-> s, k |-> k]})
  BY CountConcat
<1> QED
  BY <1>1, <1>2 DEF Count

LEMMA PlacesEmpty ==
  ASSUME NEW o, NEW s, NEW k
  PROVE  Places(<< >>, o, s, k) = {}
BY DEF Places

(* A family of finite sets, one for each object, has a finite union.       *)
LEMMA SentFinite ==
  ASSUME TypeOK, NEW o, NEW s, NEW k
  PROVE  IsFiniteSet(Sent(o, s, k)) /\ Cardinality(Sent(o, s, k)) \in Nat
<1> DEFINE F == [i \in OpIds |-> {i} \X Places(ops[i].list, o, s, k)]
           R == {{i} \X Places(ops[i].list, o, s, k) : i \in OpIds}
<1>1. IsFiniteSet(OpIds)
  BY RedisAssumption, FS_Interval DEF OpIds
<1>2. F \in Surjection(OpIds, R)
  BY DEF Surjection
<1>3. IsFiniteSet(R)
  BY <1>1, <1>2, FS_Surjection
<1>4. \A X \in R : IsFiniteSet(X)
  <2> SUFFICES ASSUME NEW i \in OpIds PROVE IsFiniteSet({i} \X Places(ops[i].list, o, s, k))
    OBVIOUS
  <2>1. ops[i].list \in Seq(Op)
    BY DEF TypeOK, ConnTypeOK
  <2>2. IsFiniteSet(Places(ops[i].list, o, s, k)) /\ IsFiniteSet({i})
    BY <2>1, PlacesType, FS_Singleton
  <2> QED
    BY <2>2, FS_Product
<1>5. IsFiniteSet(UNION R)
  BY <1>3, <1>4, FS_UNION
<1> QED
  BY <1>5, FS_CardinalityType DEF Sent

(* A new object adds its list.                                             *)
LEMMA SentNew ==
  ASSUME TypeOK, NEW i \in OpIds, ops[i].list = << >>, NEW list \in Seq(Op),
         ops' = [ops EXCEPT ![i] = NewSeq(list)], NEW o, NEW s, NEW k
  PROVE  Cardinality(Sent(o, s, k)') = Cardinality(Sent(o, s, k)) + Cardinality(Places(list, o, s, k))
<1> DEFINE N == {i} \X Places(list, o, s, k)
<1>1. \A j \in OpIds : ops'[j].list = IF j = i THEN list ELSE ops[j].list
  BY DEF TypeOK, ConnTypeOK, NewSeq
<1>2. Sent(o, s, k)' = Sent(o, s, k) \cup N
  <2>1. ASSUME NEW x \in Sent(o, s, k)' PROVE x \in Sent(o, s, k) \cup N
    <3>1. PICK j \in OpIds : x \in {j} \X Places(ops'[j].list, o, s, k)
      BY <2>1 DEF Sent
    <3> QED
      BY <1>1, <3>1 DEF Sent
  <2>2. ASSUME NEW x \in Sent(o, s, k) PROVE x \in Sent(o, s, k)'
    <3>1. PICK j \in OpIds : x \in {j} \X Places(ops[j].list, o, s, k)
      BY <2>2 DEF Sent
    <3>2. j # i
      BY <3>1, PlacesEmpty
    <3> QED
      BY <1>1, <3>1, <3>2 DEF Sent
  <2>3. ASSUME NEW x \in N PROVE x \in Sent(o, s, k)'
    BY <1>1, <2>3 DEF Sent
  <2> QED
    BY <2>1, <2>2, <2>3
<1>3. Sent(o, s, k) \cap N = {}
  <2> SUFFICES ASSUME NEW x \in Sent(o, s, k), x \in N PROVE FALSE
    OBVIOUS
  <2>1. PICK j \in OpIds : x \in {j} \X Places(ops[j].list, o, s, k)
    BY DEF Sent
  <2>2. j = i
    BY <2>1
  <2> QED
    BY <2>1, <2>2, PlacesEmpty
<1>4. IsFiniteSet(Places(list, o, s, k)) /\ IsFiniteSet({i}) /\ Cardinality({i}) = 1
      /\ Cardinality(Places(list, o, s, k)) \in Nat
  BY PlacesType, FS_Singleton
<1>5. IsFiniteSet(N) /\ Cardinality(N) = Cardinality(Places(list, o, s, k))
  BY <1>4, FS_Product
<1>6. IsFiniteSet(Sent(o, s, k)) /\ Cardinality(Sent(o, s, k)) \in Nat
  BY SentFinite
<1> HIDE DEF N
<1>7. Cardinality(Sent(o, s, k) \cup N)
        = Cardinality(Sent(o, s, k)) + Cardinality(N) - Cardinality(Sent(o, s, k) \cap N)
  BY <1>5, <1>6, FS_Union
<1>8. Cardinality(Sent(o, s, k) \cap N) = 0
  BY <1>3, FS_EmptySet
<1> QED
  BY <1>2, <1>4, <1>5, <1>6, <1>7, <1>8

(* An object keeps its list until it is deleted.                           *)
LEMMA SentShrinks ==
  ASSUME TypeOK, \A j \in OpIds : ops'[j].list \in {ops[j].list, << >>}, NEW o, NEW s, NEW k
  PROVE  Cardinality(Sent(o, s, k)') \in Nat /\ Cardinality(Sent(o, s, k)') <= Cardinality(Sent(o, s, k))
<1>1. Sent(o, s, k)' \subseteq Sent(o, s, k)
  <2> SUFFICES ASSUME NEW x \in Sent(o, s, k)' PROVE x \in Sent(o, s, k)
    OBVIOUS
  <2>1. PICK j \in OpIds : x \in {j} \X Places(ops'[j].list, o, s, k)
    BY DEF Sent
  <2>2. ops'[j].list = ops[j].list
    BY <2>1, PlacesEmpty
  <2> QED
    BY <2>1, <2>2 DEF Sent
<1> QED
  BY <1>1, SentFinite, FS_Subset, FS_CardinalityType

(* What executes is part of what is under way.                             *)
LEMMA UnexecutedUnderway ==
  ASSUME TypeOK, NEW o, NEW s, NEW k
  PROVE  /\ Unexecuted(o, s, k) \in Nat /\ Underway(o, s, k) \in Nat
         /\ Unexecuted(o, s, k) <= Underway(o, s, k)
<1> DEFINE U == UNION {{i} \X Places(ops[i].list, o, s, k) : i \in {n \in OpIds : ~Executed(n)}}
<1>1. U \subseteq Sent(o, s, k)
  BY DEF Sent
<1>2. IsFiniteSet(Sent(o, s, k)) /\ Cardinality(Sent(o, s, k)) \in Nat
  BY SentFinite
<1>3. Cardinality(U) \in Nat /\ Cardinality(U) <= Cardinality(Sent(o, s, k))
  BY <1>1, <1>2, FS_Subset, FS_CardinalityType
<1>4. opQueue \in Seq(Op)
  BY DEF TypeOK, ConnTypeOK
<1>5. Cardinality(Places(opQueue, o, s, k)) \in Nat
  BY <1>4, PlacesType
<1>6. Unexecuted(o, s, k) = Cardinality(Places(opQueue, o, s, k)) + Cardinality(U)
  BY DEF Unexecuted
<1> HIDE DEF U
<1> QED
  BY <1>2, <1>3, <1>5, <1>6 DEF Underway

-----------------------------------------------------------------------------
(* The inductive invariant behind ReleaseOnce: deleted objects have no     *)
(* list; a handler is put in the table after its operations, and once it   *)
(* has left the table at most one release of each position is under way.   *)
FreeIsEmpty == \A i \in OpIds : ops[i].state = "NONE" => ops[i].list = << >>

Early(s) == spc[s] \in {"idle", "check", "emplace"}

ReleaseInv ==
  /\ FreeIsEmpty
  /\ \A s \in Sessions : Early(s) => handlers[s] = "none"
  /\ \A s \in Sessions, k \in Keys :
       /\ Early(s) \/ handlers[s] # "none" => Underway("put", s, k) = 0
       /\ Underway("put", s, k) <= Cardinality(Position(s, taken[s], k))

(* Submitted operations are under way, postponed or in an object.          *)
LEMMA SubmitUnderway ==
  ASSUME TypeOK, FreeIsEmpty, NEW rol \in Seq(Op), NEW t, ProcessOperationsList(rol, t),
         UNCHANGED <<wire, sock>>
  PROVE  /\ FreeIsEmpty'
         /\ \A o, s, k : Underway(o, s, k)' = Underway(o, s, k) + Cardinality(Places(rol, o, s, k))
<1>0. opQueue \in Seq(Op) /\ ops \in [OpIds -> SeqType]
  BY DEF TypeOK, ConnTypeOK, SeqType
<1>1. CASE opQueue' = opQueue \o rol /\ UNCHANGED ops
  <2>1. ASSUME NEW o, NEW s, NEW k
        PROVE  Underway(o, s, k)' = Underway(o, s, k) + Cardinality(Places(rol, o, s, k))
    <3>1. Sent(o, s, k)' = Sent(o, s, k)
      BY <1>1 DEF Sent
    <3>2. Cardinality(Places(opQueue', o, s, k))
            = Cardinality(Places(opQueue, o, s, k)) + Cardinality(Places(rol, o, s, k))
      BY <1>0, <1>1, PlacesConcat
    <3> QED
      BY <1>0, <3>1, <3>2, PlacesType, SentFinite DEF Underway
  <2> QED
    BY <1>1, <2>1 DEF FreeIsEmpty
<1>2. ASSUME NEW i \in OpIds, ops[i].state = "NONE", ops' = [ops EXCEPT ![i] = NewSeq(rol)],
             UNCHANGED opQueue
      PROVE  /\ FreeIsEmpty'
             /\ \A o, s, k : Underway(o, s, k)' = Underway(o, s, k) + Cardinality(Places(rol, o, s, k))
  <2>1. ops[i].list = << >>
    BY <1>2 DEF FreeIsEmpty
  <2>2. FreeIsEmpty'
    BY <1>0, <1>2 DEF FreeIsEmpty, NewSeq
  <2>3. ASSUME NEW o, NEW s, NEW k
        PROVE  Underway(o, s, k)' = Underway(o, s, k) + Cardinality(Places(rol, o, s, k))
    <3>1. Cardinality(Sent(o, s, k)') = Cardinality(Sent(o, s, k)) + Cardinality(Places(rol, o, s, k))
      BY <1>2, <2>1, SentNew
    <3> QED
      BY <1>0, <1>2, <3>1, PlacesType, SentFinite DEF Underway
  <2> QED
    BY <2>2, <2>3
<1> QED
  BY <1>1, <1>2, SubmitStep

(* Steps that leave the postponed operations and the objects alone.        *)
LEMMA UnderwaySame ==
  ASSUME FreeIsEmpty, UNCHANGED <<opQueue, ops>>
  PROVE  FreeIsEmpty' /\ \A o, s, k : Underway(o, s, k)' = Underway(o, s, k)
BY DEF FreeIsEmpty, Underway, Sent

(* An object goes on with its list, or is deleted.                         *)
LEMMA UnderwayOp ==
  ASSUME TypeOK, FreeIsEmpty, UNCHANGED opQueue, NEW i \in OpIds, NEW op,
         ops' = [ops EXCEPT ![i] = op],
         op.list \in {ops[i].list, << >>}, op.state = "NONE" => op.list = << >>
  PROVE  /\ FreeIsEmpty'
         /\ \A o, s, k : Underway(o, s, k)' \in Nat /\ Underway(o, s, k)' <= Underway(o, s, k)
<1>1. \A j \in OpIds : ops'[j] = IF j = i THEN op ELSE ops[j]
  BY DEF TypeOK, ConnTypeOK
<1>2. FreeIsEmpty'
  BY <1>1 DEF FreeIsEmpty
<1>3. ASSUME NEW o, NEW s, NEW k
      PROVE  Underway(o, s, k)' \in Nat /\ Underway(o, s, k)' <= Underway(o, s, k)
  <2>1. opQueue \in Seq(Op)
    BY DEF TypeOK, ConnTypeOK
  <2>2. Cardinality(Places(opQueue, o, s, k)) \in Nat
    BY <2>1, PlacesType
  <2>3. Cardinality(Sent(o, s, k)') \in Nat /\ Cardinality(Sent(o, s, k)') <= Cardinality(Sent(o, s, k))
    BY <1>1, SentShrinks
  <2> QED
    BY <2>2, <2>3, SentFinite DEF Underway
<1> QED
  BY <1>2, <1>3

(* The redis thread sends what was postponed and deletes what was          *)
(* answered: it puts nothing new under way.                                *)
LEMMA RedisThreadUnderway ==
  ASSUME TypeOK, FreeIsEmpty, RedisThread \/ OnDisconnect \/ ConnectFailed
  PROVE  /\ FreeIsEmpty'
         /\ \A o, s, k : Underway(o, s, k)' \in Nat /\ Underway(o, s, k)' <= Underway(o, s, k)
<1>0. /\ \A o, s, k : Underway(o, s, k) \in Nat
      /\ opQueue \in Seq(Op)
  BY UnexecutedUnderway DEF TypeOK, ConnTypeOK
<1>1. CASE ProcessOperationsQueue
  <2>1. CASE UNCHANGED <<opQueue, ops>>
    BY <1>0, <2>1, UnderwaySame
  <2>2. CASE PerformOperations(opQueue, NoSession) /\ opQueue' = << >>
    <3>1. UNCHANGED <<wire, sock>>
      BY <1>1 DEF ProcessOperationsQueue, redisVars
    <3>2. PICK i \in OpIds : ops[i].state = "NONE" /\ ops' = [ops EXCEPT ![i] = NewSeq(opQueue)]
      BY <1>0, <2>2, <3>1, PerformStep
    <3>3. ops[i].list = << >>
      BY <3>2 DEF FreeIsEmpty
    <3>4. FreeIsEmpty'
      BY <3>2 DEF FreeIsEmpty, NewSeq, TypeOK, ConnTypeOK
    <3>5. ASSUME NEW o, NEW s, NEW k
          PROVE  Underway(o, s, k)' = Underway(o, s, k)
      <4>1. Cardinality(Sent(o, s, k)')
              = Cardinality(Sent(o, s, k)) + Cardinality(Places(opQueue, o, s, k))
        BY <1>0, <3>2, <3>3, SentNew
      <4>2. Cardinality(Places(opQueue', o, s, k)) = 0
        BY <2>2, PlacesEmpty, FS_EmptySet
      <4> QED
        BY <1>0, <4>1, <4>2, PlacesType, SentFinite DEF Underway
    <3> QED
      BY <1>0, <3>4, <3>5
  <2> QED
    BY <1>1, <2>1, <2>2 DEF ProcessOperationsQueue
<1>2. CASE \/ ProcessRequestEvent \/ HandleRead \/ HandleLastRead \/ OnReconnect \/ OnConnect
           \/ ConnectFailed \/ OnDisconnect \/ InvOnError \/ InvGotKeys \/ InvCleaning \/ InvFinished
  <2>1. UNCHANGED <<opQueue, ops>>
    BY <1>2 DEF ProcessRequestEvent, HandleRead, HandleLastRead, OnReconnect, OnConnect,
                ConnectFailed, OnDisconnect, InvOnError, InvGotKeys, InvCleaning, InvFinished, seqVars
  <2> QED
    BY <1>0, <2>1, UnderwaySame
<1>3. ASSUME NEW i \in OpIds, OpMultiAnswered(i) \/ OpQueued(i) \/ OpSucceeded(i) \/ OpErrored(i)
      PROVE  /\ FreeIsEmpty'
             /\ \A o, s, k : Underway(o, s, k)' \in Nat /\ Underway(o, s, k)' <= Underway(o, s, k)
  <2>1. UNCHANGED opQueue
    BY <1>3 DEF OpMultiAnswered, OpQueued, OpSucceeded, OpErrored
  <2>2. PICK op : /\ ops' = [ops EXCEPT ![i] = op]
                  /\ op.list \in {ops[i].list, << >>} /\ (op.state = "NONE" => op.list = << >>)
    <3>1. CASE OpMultiAnswered(i) \/ OpQueued(i)
      <4>1. PICK n, e : ops' = [ops EXCEPT ![i] = [state |-> "OP_RES", list |-> ops[i].list,
                                                   count |-> n, err |-> e]]
        BY <3>1 DEF OpMultiAnswered, OpQueued
      <4> DEFINE op == [state |-> "OP_RES", list |-> ops[i].list, count |-> n, err |-> e]
      <4>2. op.list = ops[i].list /\ op.state = "OP_RES"
        OBVIOUS
      <4> QED
        BY <4>1, <4>2
    <3>2. CASE OpSucceeded(i) \/ OpErrored(i)
      <4>1. ops' = [ops EXCEPT ![i] = NoSeq]
        BY <3>2 DEF OpSucceeded, OpErrored, OpLast
      <4>2. NoSeq.list = << >>
        BY DEF NoSeq
      <4> QED
        BY <4>1, <4>2
    <3> QED
      BY <1>3, <3>1, <3>2
  <2> QED
    BY <2>1, <2>2, UnderwayOp
<1> QED
  BY <1>1, <1>2, <1>3 DEF RedisThread

(* The sessions' side of the invariant, for steps that put nothing new     *)
(* under way and leave handlers and taken resources alone.                 *)
LEMMA ReleaseFrame ==
  ASSUME TypeOK, ReleaseInv, FreeIsEmpty', UNCHANGED <<handlers, taken>>,
         \A s \in Sessions : Early(s)' => Early(s),
         \A s \in Sessions, k \in Keys :
           Underway("put", s, k)' \in Nat /\ Underway("put", s, k)' <= Underway("put", s, k)
  PROVE  ReleaseInv'
<1>1. \A s \in Sessions, k \in Keys : Cardinality(Position(s, taken[s], k)) \in Nat
  <2> SUFFICES ASSUME NEW s \in Sessions, NEW k \in Keys
               PROVE  Cardinality(Position(s, taken[s], k)) \in Nat
    OBVIOUS
  <2>1. Size(s) \in Nat
    BY ControlAssumption DEF Size
  <2>2. IsFiniteSet(1..Size(s)) /\ Position(s, taken[s], k) \subseteq 1..Size(s)
    BY <2>1, FS_Interval DEF Position, TypeOK
  <2> QED
    BY <2>2, FS_Subset, FS_CardinalityType
<1>2. \A s \in Sessions, k \in Keys : Underway("put", s, k) \in Nat
  BY UnexecutedUnderway
<1> QED
  BY <1>1, <1>2 DEF ReleaseInv

(* ResourceControl::put, by whatever thread: the handler leaves the table  *)
(* and its release is put under way once.                                  *)
LEMMA PutReleases ==
  ASSUME TypeOK, ReleaseInv, NEW s \in Sessions, PutHandler(s), ~Early(s),
         \A t \in Sessions : Early(t)' <=> Early(t)
  PROVE  ReleaseInv'
<1>0. /\ UNCHANGED <<wire, sock, taken>> /\ taken \in [Sessions -> SUBSET Nat]
      /\ taken[s] \in SUBSET (1..Size(s))
      /\ handlers \in [Sessions -> {"none", "valid", "invalid"}]
      /\ handlers' = [handlers EXCEPT ![s] = "none"]
  BY DEF PutHandler, redisVars, TypeOK
<1>1. \A t \in Sessions : handlers'[t] = IF t = s THEN "none" ELSE handlers[t]
  BY <1>0
<1>2. FreeIsEmpty /\ \A t \in Sessions, k \in Keys : Underway("put", t, k) \in Nat
  BY UnexecutedUnderway DEF ReleaseInv
<1>3. CASE handlers[s] = "valid" /\ taken[s] # {}
  <2> DEFINE rol == OperationList("put", s, taken[s])
  <2>1. rol \in Seq(Op) /\ ProcessOperationsList(rol, s)
    BY <1>0, <1>3, OperationListType DEF PutHandler
  <2>2. \A t \in Sessions, k \in Keys :
          Cardinality(Places(rol, "put", t, k))
            = IF s = t THEN Cardinality(Position(s, taken[s], k)) ELSE 0
    BY <1>0, OperationCount
  <2> HIDE DEF rol
  <2>3. /\ FreeIsEmpty'
        /\ \A t \in Sessions, k \in Keys :
             Underway("put", t, k)' = Underway("put", t, k) + Cardinality(Places(rol, "put", t, k))
    BY <1>0, <1>2, <2>1, SubmitUnderway
  <2>4. \A k \in Keys : Underway("put", s, k) = 0
    BY <1>3 DEF ReleaseInv
  <2>5. ASSUME NEW k \in Keys
        PROVE  Underway("put", s, k)' = Cardinality(Position(s, taken[s], k))
    <3>1. Cardinality(Places(rol, "put", s, k)) = Cardinality(Position(s, taken[s], k))
      BY <2>2
    <3>2. Cardinality(Places(rol, "put", s, k)) \in Nat
      BY <2>1, PlacesType
    <3>3. Underway("put", s, k)' = Underway("put", s, k) + Cardinality(Places(rol, "put", s, k))
      BY <2>3
    <3>4. Underway("put", s, k) = 0
      BY <2>4
    <3> QED
      BY <3>1, <3>2, <3>3, <3>4
  <2>6. \A t \in Sessions, k \in Keys : t # s => Underway("put", t, k)' = Underway("put", t, k)
    BY <1>2, <2>2, <2>3
  <2>7. \A k \in Keys : Cardinality(Position(s, taken[s], k)) \in Nat
    BY <1>2, <2>2, <2>3, <2>4, <2>1, PlacesType
  <2>8. ASSUME NEW t \in Sessions, NEW k \in Keys
        PROVE  /\ (Early(t)' \/ handlers'[t] # "none") => Underway("put", t, k)' = 0
               /\ Underway("put", t, k)' <= Cardinality(Position(t, taken'[t], k))
    <3>1. CASE t = s
      BY <1>0, <1>1, <2>5, <2>7, <3>1
    <3>2. CASE t # s
      BY <1>0, <1>1, <2>6, <3>2 DEF ReleaseInv
    <3> QED
      BY <3>1, <3>2
  <2>9. \A t \in Sessions : Early(t)' => handlers'[t] = "none"
    BY <1>1 DEF ReleaseInv
  <2> QED
    BY <2>3, <2>8, <2>9 DEF ReleaseInv
<1>4. CASE ~(handlers[s] = "valid" /\ taken[s] # {})
  <2>1. UNCHANGED <<opQueue, ops>>
    BY <1>4 DEF PutHandler
  <2>2. FreeIsEmpty' /\ \A o, t, k : Underway(o, t, k)' = Underway(o, t, k)
    BY <1>2, <2>1, UnderwaySame
  <2> QED
    BY <1>0, <1>1, <2>2 DEF ReleaseInv
<1> QED
  BY <1>3, <1>4

(* RES_SUCC: only gets are put under way for a session that has none yet.  *)
LEMMA GrantReleases ==
  ASSUME TypeOK, ReleaseInv, NEW s \in Sessions, GetGranted(s)
  PROVE  ReleaseInv'
<1> DEFINE act == FirstFree(Need[s].failover, over[s])
           rol == OperationList("get", s, act)
<1>0. act \in SUBSET (1..Size(s))
  BY ControlAssumption DEF FirstFree, Size
<1>1. /\ spc[s] = "check" /\ spc' = [spc EXCEPT ![s] = "emplace"]
      /\ taken' = [taken EXCEPT ![s] = act] /\ UNCHANGED <<wire, sock, handlers>>
      /\ ProcessOperationsList(rol, s)
  BY DEF GetGranted, Checked, redisVars
<1>2. rol \in Seq(Op)
  BY <1>0, OperationListType
<1>3. \A t \in Sessions, k \in Keys : Cardinality(Places(rol, "put", t, k)) = 0
  BY <1>0, OperationCount
<1> HIDE DEF act, rol
<1>4. /\ \A t \in Sessions : Early(t)' <=> Early(t)
      /\ \A t \in Sessions : t # s => taken'[t] = taken[t]
      /\ taken'[s] = act /\ Early(s)
  BY <1>1 DEF Early, TypeOK
<1>5. FreeIsEmpty /\ \A t \in Sessions, k \in Keys : Underway("put", t, k) \in Nat
  BY UnexecutedUnderway DEF ReleaseInv
<1>6. FreeIsEmpty' /\ \A t \in Sessions, k \in Keys : Underway("put", t, k)' = Underway("put", t, k)
  BY <1>1, <1>2, <1>3, <1>5, SubmitUnderway
<1>7. \A k \in Keys : Underway("put", s, k) = 0 /\ Cardinality(Position(s, act, k)) \in Nat
  <2>1. Size(s) \in Nat
    BY ControlAssumption DEF Size
  <2>2. IsFiniteSet(1..Size(s))
    BY <2>1, FS_Interval
  <2>3. ASSUME NEW k \in Keys PROVE Cardinality(Position(s, act, k)) \in Nat
    <3>1. Position(s, act, k) \subseteq 1..Size(s)
      BY <1>0, Zenon DEF Position
    <3> QED
      BY <2>2, <3>1, FS_Subset, FS_CardinalityType
  <2> QED
    BY <1>4, <2>3 DEF ReleaseInv
<1>8. ASSUME NEW t \in Sessions, NEW k \in Keys
      PROVE  Underway("put", t, k)' <= Cardinality(Position(t, taken'[t], k))
  <2>1. CASE t = s
    BY <1>4, <1>6, <1>7, <2>1
  <2>2. CASE t # s
    BY <1>4, <1>6, <2>2 DEF ReleaseInv
  <2> QED
    BY <2>1, <2>2
<1> QED
  BY <1>1, <1>4, <1>6, <1>8 DEF ReleaseInv

LEMMA ReleaseInductive ==
  ASSUME TypeOK, ReleaseInv, [Next]_vars
  PROVE  ReleaseInv'
<1>0. FreeIsEmpty /\ \A o, t, k : Underway(o, t, k) \in Nat
  BY UnexecutedUnderway DEF ReleaseInv
<1>1. CASE Client \/ (Fault /\ (OnDisconnect \/ ConnectFailed))
  <2>1. (RedisThread \/ OnDisconnect \/ ConnectFailed) /\ UNCHANGED <<spc, handlers, taken>>
    BY <1>1 DEF Client, Fault, ctlVars, sessVars
  <2>2. \A s \in Sessions : Early(s)' => Early(s)
    BY <2>1 DEF Early
  <2>3. /\ FreeIsEmpty'
        /\ \A o, s, k : Underway(o, s, k)' \in Nat /\ Underway(o, s, k)' <= Underway(o, s, k)
    BY <1>0, <2>1, RedisThreadUnderway
  <2> QED
    BY <2>1, <2>2, <2>3, ReleaseFrame
<1>2. ASSUME UNCHANGED <<opQueue, ops, handlers, taken>>, \A s \in Sessions : Early(s)' => Early(s)
      PROVE  ReleaseInv'
  <2>1. FreeIsEmpty' /\ \A o, s, k : Underway(o, s, k)' = Underway(o, s, k)
    BY <1>0, <1>2, UnderwaySame
  <2> QED
    BY <1>0, <1>2, <2>1, ReleaseFrame
<1>3. CASE Redis_ \/ (Fault /\ ServerFault)
  BY <1>2, <1>3 DEF Redis_, Fault, ServerStep, ServerFault, connVars, seqVars, ctlVars, sessVars, Early
<1>4. ASSUME NEW s \in Sessions, SessionThread(s) PROVE ReleaseInv'
  <2>0. spc \in [Sessions -> {"idle", "check", "emplace", "hold", "refused", "done"}]
    BY DEF TypeOK
  <2>1. CASE GetStart(s) \/ CheckFailed(s) \/ GetBusy(s)
    <3>1. spc[s] \in {"idle", "check"} /\ \E v : spc' = [spc EXCEPT ![s] = v]
      BY <2>1 DEF GetStart, CheckFailed, GetBusy, Checked
    <3>2. \A t \in Sessions : Early(t)' => Early(t)
      BY <2>0, <3>1 DEF Early
    <3> QED
      BY <1>2, <2>1, <3>2 DEF GetStart, CheckFailed, GetBusy, connVars, seqVars
  <2>2. CASE CheckValue(s)
    BY <1>2, <2>2 DEF CheckValue, connVars, seqVars, Early
  <2>3. CASE GetGranted(s)
    BY <2>3, GrantReleases
  <2>4. CASE GetEmplace(s)
    <3>1. /\ spc[s] = "emplace" /\ spc' = [spc EXCEPT ![s] = "hold"]
          /\ handlers' = [handlers EXCEPT ![s] = "valid"] /\ UNCHANGED <<opQueue, ops, taken>>
      BY <2>4 DEF GetEmplace, connVars, seqVars
    <3>2. FreeIsEmpty' /\ \A o, t, k : Underway(o, t, k)' = Underway(o, t, k)
      BY <1>0, <3>1, UnderwaySame
    <3>3. /\ \A t \in Sessions : Early(t)' => Early(t) /\ t # s
          /\ \A t \in Sessions : t # s => handlers'[t] = handlers[t]
          /\ Early(s)
      BY <2>0, <3>1 DEF Early, TypeOK
    <3>4. ASSUME NEW t \in Sessions, NEW k \in Keys
          PROVE  /\ (Early(t)' \/ handlers'[t] # "none") => Underway("put", t, k)' = 0
                 /\ Underway("put", t, k)' <= Cardinality(Position(t, taken'[t], k))
      BY <3>1, <3>2, <3>3 DEF ReleaseInv
    <3> QED
      BY <3>2, <3>3, <3>4 DEF ReleaseInv
  <2>5. CASE SessionPut(s)
    <3>1. spc[s] = "hold" /\ spc' = [spc EXCEPT ![s] = "done"] /\ PutHandler(s)
      BY <2>5 DEF SessionPut
    <3>2. ~Early(s) /\ \A t \in Sessions : Early(t)' <=> Early(t)
      BY <2>0, <3>1 DEF Early
    <3> QED
      BY <3>1, <3>2, PutReleases
  <2> QED
    BY <1>4, <2>1, <2>2, <2>3, <2>4, <2>5 DEF SessionThread
<1>5. ASSUME NEW s \in Sessions, RpcPut(s) PROVE ReleaseInv'
  <2>1. handlers[s] # "none" /\ PutHandler(s) /\ UNCHANGED spc
    BY <1>5 DEF RpcPut
  <2>2. ~Early(s) /\ \A t \in Sessions : Early(t)' <=> Early(t)
    BY <2>1 DEF ReleaseInv, Early
  <2> QED
    BY <2>1, <2>2, PutReleases
<1>6. CASE ThreadResumed \/ InvalidateUnready \/ InvalidateSequence \/ InvalidateReset \/ InvalidateAnswer
  BY <1>2, <1>6 DEF ThreadResumed, SetBusy, InvalidateUnready, InvalidateSequence, InvalidateReset,
                    InvalidateAnswer, connVars, seqVars, sessVars, Early
<1>7. CASE InvalidateHandlers
  <2>1. /\ handlers' = [s \in Sessions |-> IF handlers[s] = "none" THEN "none" ELSE "invalid"]
        /\ UNCHANGED <<spc, taken, opQueue, ops>>
    BY <1>7 DEF InvalidateHandlers, sessVars, connVars, seqVars
  <2>2. FreeIsEmpty' /\ \A o, t, k : Underway(o, t, k)' = Underway(o, t, k)
    BY <1>0, <2>1, UnderwaySame
  <2>3. \A t \in Sessions : (Early(t)' <=> Early(t)) /\ (handlers'[t] # "none" <=> handlers[t] # "none")
    BY <2>1 DEF Early
  <2> QED
    BY <2>1, <2>2, <2>3 DEF ReleaseInv
<1>8. CASE Restart
  <2>1. /\ opQueue' = << >> /\ ops' = [i \in OpIds |-> NoSeq]
        /\ handlers' = [s \in Sessions |-> "none"] /\ taken' = [s \in Sessions |-> {}]
    BY <1>8 DEF Restart
  <2>2. \A i \in OpIds : ops'[i].list = << >>
    BY <2>1 DEF NoSeq
  <2>3. ASSUME NEW o, NEW s, NEW k PROVE Underway(o, s, k)' = 0
    <3>1. Places(opQueue', o, s, k) = {} /\ Sent(o, s, k)' = {}
      BY <2>1, <2>2, PlacesEmpty DEF Sent
    <3> QED
      BY <3>1, FS_EmptySet DEF Underway
  <2>4. \A s \in Sessions, k \in Keys : Cardinality(Position(s, taken'[s], k)) = 0
    <3>1. \A s \in Sessions, k \in Keys : Position(s, taken'[s], k) = {}
      BY <2>1 DEF Position
    <3> QED
      BY <3>1, FS_EmptySet
  <2>5. FreeIsEmpty'
    BY <2>2 DEF FreeIsEmpty
  <2>6. \A s \in Sessions : handlers'[s] = "none"
    BY <2>1
  <2>7. \A s \in Sessions, k \in Keys :
          Underway("put", s, k)' = 0 /\ Underway("put", s, k)' <= Cardinality(Position(s, taken'[s], k))
    BY <2>3, <2>4
  <2> QED
    BY <2>5, <2>6, <2>7 DEF ReleaseInv
<1>9. CASE UNCHANGED vars
  BY <1>2, <1>9 DEF vars, connVars, seqVars, ctlVars, sessVars, Early
<1> QED
  BY <1>1, <1>3, <1>4, <1>5, <1>6, <1>7, <1>8, <1>9 DEF Next, Fault, Invalidate

(* Nothing is under way at the start.                                      *)
LEMMA ReleaseInit ==
  ASSUME Init
  PROVE  ReleaseInv
<1>1. /\ opQueue = << >> /\ ops = [i \in OpIds |-> NoSeq]
      /\ handlers = [s \in Sessions |-> "none"] /\ taken = [s \in Sessions |-> {}]
  BY DEF Init, ConnInit, ControlInit
<1>2. \A i \in OpIds : ops[i].list = << >>
  BY <1>1 DEF NoSeq
<1>3. ASSUME NEW o, NEW s, NEW k PROVE Underway(o, s, k) = 0
  <2>1. Places(opQueue, o, s, k) = {} /\ Sent(o, s, k) = {}
    BY <1>1, <1>2, PlacesEmpty DEF Sent
  <2> QED
    BY <2>1, FS_EmptySet DEF Underway
<1>4. \A s \in Sessions, k \in Keys : Cardinality(Position(s, taken[s], k)) = 0
  <2>1. \A s \in Sessions, k \in Keys : Position(s, taken[s], k) = {}
    BY <1>1 DEF Position
  <2> QED
    BY <2>1, FS_EmptySet
<1>5. FreeIsEmpty
  BY <1>2 DEF FreeIsEmpty
<1>6. \A s \in Sessions : handlers[s] = "none"
  BY <1>1
<1>7. \A s \in Sessions, k \in Keys :
        Underway("put", s, k) = 0 /\ Underway("put", s, k) <= Cardinality(Position(s, taken[s], k))
  BY <1>3, <1>4
<1> QED
  BY <1>5, <1>6, <1>7 DEF ReleaseInv

(* A handler is released at most once whatever the session, an RPC that    *)
(* puts the handler and an RPC that invalidates all do in whatever order:  *)
(* for any lists of resources, any faults and any preemption.              *)
THEOREM ReleasedOnce == Spec => []ReleaseOnce
<1>1. Init => ReleaseInv
  BY ReleaseInit
<1>2. TypeOK /\ ReleaseInv /\ [Next]_vars => ReleaseInv'
  BY ReleaseInductive
<1>3. TypeOK /\ ReleaseInv => ReleaseOnce
  <2> SUFFICES ASSUME TypeOK, ReleaseInv, NEW s \in Sessions, NEW k \in Keys
               PROVE  /\ Unexecuted("put", s, k) <= Cardinality(Position(s, taken[s], k))
                      /\ Unexecuted("put", s, k) > 0 => handlers[s] = "none"
    BY DEF ReleaseOnce, Position
  <2>1. /\ Unexecuted("put", s, k) \in Nat /\ Underway("put", s, k) \in Nat
        /\ Unexecuted("put", s, k) <= Underway("put", s, k)
    BY UnexecutedUnderway
  <2>2. /\ handlers[s] # "none" => Underway("put", s, k) = 0
        /\ Underway("put", s, k) <= Cardinality(Position(s, taken[s], k))
    BY DEF ReleaseInv
  <2>3. Cardinality(Position(s, taken[s], k)) \in Nat
    <3>1. Size(s) \in Nat
      BY ControlAssumption DEF Size
    <3>2. IsFiniteSet(1..Size(s)) /\ Position(s, taken[s], k) \subseteq 1..Size(s)
      BY <3>1, FS_Interval DEF Position, TypeOK
    <3> QED
      BY <3>2, FS_Subset, FS_CardinalityType
  <2> QED
    BY <2>1, <2>2, <2>3
<1> QED
  BY <1>1, <1>2, <1>3, TypeCorrect, PTL DEF Spec

-----------------------------------------------------------------------------
(* The write connection is used by one sequence at a time.                 *)
InFlight(i) == ops[i].state # "NONE"

(* The most answers inv_seq can still wait for.                            *)
InvWaits(v) ==
  IF v.state = "GET_KEYS" THEN 1 ELSE IF v.state = "CLEAN_RES" THEN v.count ELSE 0

(* At most one operation sequence is in flight; the busy flag or a thread  *)
(* about to set it stands for it, or it is being told that its connection  *)
(* is gone; and the invalidation has something under way only while        *)
(* nothing else has and resources_inited is false.                         *)
OneAtATime ==
  /\ \A i \in OpIds : InFlight(i) => Waits(ops[i]) >= 1
  /\ \A i, j \in OpIds : InFlight(i) /\ InFlight(j) => i = j
  /\ \A i \in OpIds : InFlight(i) => busy \/ holder # NoSession \/ ctx # "open"
  /\ \A i \in OpIds : InFlight(i) => Outstanding(InvId) = 0
  /\ Outstanding(InvId) > 0 => ~inited
  /\ Outstanding(InvId) <= InvWaits(inv)

(* What the flag means where no thread is preempted.                       *)
Unpreempted ==
  /\ holder = NoSession
  /\ busy => \E i \in OpIds : InFlight(i)
  /\ \A i \in OpIds : InFlight(i) => busy \/ ~inited

ConnectionInv ==
  /\ ctx # "closing"
  /\ ctx # "open" => wire = << >> /\ sock = << >>
  /\ OneAtATime
  /\ Preemption = FALSE => Unpreempted
  /\ MaxInvalidations = 0 => rpc = "idle"

(* Steps that start and end nothing.                                       *)
LEMMA OneAtATimeSame ==
  ASSUME OneAtATime, UNCHANGED <<ops, busy, holder, inited, inv>>, ctx' = "open" => ctx = "open",
         Outstanding(InvId)' = Outstanding(InvId)
  PROVE  OneAtATime' /\ (Unpreempted => Unpreempted')
BY DEF OneAtATime, Unpreempted, InFlight

(* Nothing is outstanding on a new connection.                             *)
LEMMA NothingOutstanding ==
  ASSUME TypeOK, AwaitedInv, OneAtATime, wire = << >>, sock = << >>, evq = << >>
  PROVE  /\ \A j \in SeqIds : Outstanding(j) = 0
         /\ \A i \in OpIds : ~InFlight(i)
<1>1. \A j \in SeqIds : Outstanding(j) = 0
  BY CountEmpty DEF Outstanding
<1>2. \A i \in OpIds : ~InFlight(i)
  BY <1>1, IdFacts DEF AwaitedInv, OneAtATime
<1> QED
  BY <1>1, <1>2

(* No operation is in flight when a thread may start a sequence.           *)
LEMMA NothingInFlight ==
  ASSUME OneAtATime, ctx = "open", inited, ~busy, holder = NoSession, Outstanding(InvId) \in Nat
  PROVE  Outstanding(InvId) = 0 /\ \A i \in OpIds : ~InFlight(i)
BY DEF OneAtATime

(* An operation sequence is started.                                       *)
LEMMA StartedAlone ==
  ASSUME TypeOK, OneAtATime, NEW list \in Seq(Op), NEW thread, PerformOperations(list, thread),
         ctx = "open", inited, ~busy, holder = NoSession, UNCHANGED <<wire, sock, ctx, inited, inv>>
  PROVE  OneAtATime' /\ (Preemption = FALSE /\ Unpreempted => Unpreempted')
<1>1. PICK i \in OpIds : /\ ops[i].state = "NONE" /\ ops' = [ops EXCEPT ![i] = NewSeq(list)]
                         /\ \A j \in SeqIds : Outstanding(j)' = Outstanding(j) + One(j = i)
  BY PerformStep
<1>2. (busy' \/ holder' # NoSession) /\ (Preemption = FALSE => busy' = TRUE /\ UNCHANGED holder)
  BY DEF PerformOperations
<1>3. Outstanding(InvId) = 0 /\ \A j \in OpIds : ~InFlight(j)
  BY IdFacts, OutstandingType, NothingInFlight
<1>4. Outstanding(InvId)' = 0
  BY <1>1, <1>3, IdFacts DEF One
<1>5. \A j \in OpIds : ops'[j] = IF j = i THEN NewSeq(list) ELSE ops[j]
  BY <1>1 DEF TypeOK, ConnTypeOK
<1>6. NewSeq(list).state # "NONE" /\ Waits(NewSeq(list)) = 1
  BY DEF NewSeq, Waits
<1>7. \A j \in OpIds : (InFlight(j)' <=> j = i) /\ (InFlight(j)' => Waits(ops'[j]) = 1)
  BY <1>3, <1>5, <1>6 DEF InFlight
<1>8. inv' = inv /\ Outstanding(InvId)' <= InvWaits(inv')
  BY <1>3, <1>4 DEF OneAtATime
<1>9. OneAtATime'
  BY <1>2, <1>4, <1>7, <1>8 DEF OneAtATime
<1> QED
  BY <1>2, <1>7, <1>9 DEF Unpreempted

(* One answer of the only operation in flight.                             *)
LEMMA AnswerOfOne ==
  ASSUME TypeOK, OneAtATime, NEW i \in OpIds, InFlight(i), NEW op, ops' = [ops EXCEPT ![i] = op],
         op.state # "NONE", Waits(op) >= 1, UNCHANGED <<busy, holder, inited, inv, ctx>>,
         Outstanding(InvId)' = Outstanding(InvId)
  PROVE  OneAtATime' /\ (Unpreempted => Unpreempted')
<1>1. \A j \in OpIds : ops'[j] = IF j = i THEN op ELSE ops[j]
  BY DEF TypeOK, ConnTypeOK
<1>2. \A j \in OpIds : (InFlight(j)' <=> j = i) /\ (InFlight(j) <=> j = i)
  BY <1>1 DEF InFlight, OneAtATime
<1>3. \A j \in OpIds : InFlight(j)' => Waits(ops'[j]) >= 1
  BY <1>1, <1>2
<1>4. OneAtATime'
  BY <1>2, <1>3 DEF OneAtATime
<1> QED
  BY <1>2, <1>4 DEF Unpreempted

(* The last answer of the only operation in flight, after which the        *)
(* invalidation may start.                                                 *)
LEMMA LastOfOne ==
  ASSUME TypeOK, OneAtATime, NEW i \in OpIds, InFlight(i), ops' = [ops EXCEPT ![i] = NoSeq],
         busy' = FALSE, UNCHANGED holder, Outstanding(InvId)' \in Nat,
         Outstanding(InvId)' > 0 => ~inited',
         Outstanding(InvId)' <= InvWaits(inv')
  PROVE  OneAtATime' /\ (Unpreempted => Unpreempted')
<1>1. \A j \in OpIds : ops'[j] = IF j = i THEN NoSeq ELSE ops[j]
  BY DEF TypeOK, ConnTypeOK
<1>2. \A j \in OpIds : ~InFlight(j)'
  BY <1>1 DEF InFlight, OneAtATime, NoSeq
<1> QED
  BY <1>2 DEF OneAtATime, Unpreempted

(* inv_seq advances while nothing else is under way.                       *)
LEMMA InvAdvances ==
  ASSUME OneAtATime, Outstanding(InvId) > 0, UNCHANGED <<ops, busy, holder>>,
         Outstanding(InvId)' \in Nat,
         Outstanding(InvId)' > 0 => ~inited', Outstanding(InvId)' <= InvWaits(inv')
  PROVE  OneAtATime' /\ (Unpreempted => Unpreempted')
<1>1. \A j \in OpIds : ~InFlight(j)
  BY DEF OneAtATime
<1>2. \A j \in OpIds : ~InFlight(j)'
  BY <1>1 DEF InFlight
<1> QED
  BY <1>1, <1>2 DEF OneAtATime, Unpreempted

(* inv_seq starts when nothing is under way.                               *)
LEMMA InvStarts ==
  ASSUME OneAtATime, \A i \in OpIds : ~InFlight(i), UNCHANGED <<ops, busy, holder>>,
         Outstanding(InvId) = 0, Outstanding(InvId)' = 1, inited' = FALSE, inv'.state = "GET_KEYS"
  PROVE  OneAtATime' /\ (Unpreempted => Unpreempted')
<1>1. \A j \in OpIds : ~InFlight(j)'
  BY DEF InFlight
<1>2. InvWaits(inv') = 1
  BY DEF InvWaits
<1> QED
  BY <1>1, <1>2 DEF OneAtATime, Unpreempted

(* An answer of a sequence is one of its outstanding events.               *)
LEMMA HeadOutstanding ==
  ASSUME TypeOK, evq # << >>, NEW i \in SeqIds, Head(evq).seq = i
  PROVE  Outstanding(i) > 0
<1>1. evq \in Seq(Events) /\ Head(evq) \in Events /\ Tail(evq) \in Seq(Events)
  BY EventSeqs
<1>2. Head(evq) \in EventsOf(i)
  BY <1>1 DEF EventsOf
<1>3. Count(evq, EventsOf(i)) = Count(Tail(evq), EventsOf(i)) + 1
  BY <1>1, <1>2, CountTail
<1>4. Count(Tail(evq), EventsOf(i)) \in Nat
  BY <1>1, CountType
<1> QED
  BY <1>3, <1>4, EventSeqs DEF Outstanding

(* When the head of the queue is the only event left, the connection is    *)
(* empty.                                                                  *)
LEMMA OneLeft ==
  ASSUME TypeOK, evq # << >>, NEW i \in SeqIds, Head(evq).seq = i, Outstanding(i) = 1,
         \A j \in SeqIds : j # i => Outstanding(j) = 0
  PROVE  wire = << >> /\ sock = << >>
<1>1. evq \in Seq(Events) /\ Head(evq) \in Events /\ Tail(evq) \in Seq(Events)
      /\ wire \in Seq(Events) /\ sock \in Seq(Events)
  BY EventSeqs
<1>2. Head(evq) \in EventsOf(i)
  BY <1>1 DEF EventsOf
<1>3. Count(evq, EventsOf(i)) = Count(Tail(evq), EventsOf(i)) + 1
  BY <1>1, <1>2, CountTail
<1>4. Count(Tail(evq), EventsOf(i)) \in Nat
  BY <1>1, CountType
<1>5. \A j \in SeqIds : Count(wire, EventsOf(j)) = 0 /\ Count(sock, EventsOf(j)) = 0
  <2> SUFFICES ASSUME NEW j \in SeqIds
               PROVE  Count(wire, EventsOf(j)) = 0 /\ Count(sock, EventsOf(j)) = 0
    OBVIOUS
  <2>1. /\ Count(wire, EventsOf(j)) \in Nat /\ Count(sock, EventsOf(j)) \in Nat
        /\ Count(evq, EventsOf(j)) \in Nat
    BY EventSeqs
  <2>2. Outstanding(j) = Count(wire, EventsOf(j)) + Count(sock, EventsOf(j)) + Count(evq, EventsOf(j))
    BY DEF Outstanding
  <2>3. CASE j = i
    BY <1>3, <1>4, <2>1, <2>2, <2>3
  <2>4. CASE j # i
    BY <2>1, <2>2, <2>4
  <2> QED
    BY <2>3, <2>4
<1>6. ASSUME NEW q \in Seq(Events), q # << >>, \A j \in SeqIds : Count(q, EventsOf(j)) = 0
      PROVE  FALSE
  <2>1. Head(q) \in Events /\ Head(q).seq \in SeqIds /\ Tail(q) \in Seq(Events)
    BY <1>6, RequestSeq DEF Events
  <2>2. PICK j \in SeqIds : j = Head(q).seq
    BY <2>1
  <2>3. Head(q) \in EventsOf(j)
    BY <2>1, <2>2 DEF EventsOf
  <2>4. Count(q, EventsOf(j)) = Count(Tail(q), EventsOf(j)) + 1
    BY <1>6, <2>3, CountTail
  <2>5. Count(Tail(q), EventsOf(j)) \in Nat
    BY <2>1, CountType
  <2> QED
    BY <1>6, <2>4, <2>5
<1> QED
  BY <1>1, <1>5, <1>6

LEMMA OutstandingTypeNext ==
  ASSUME TypeOK', NEW j \in SeqIds
  PROVE  Outstanding(j)' \in Nat
<1>1. wire' \in Seq(Events) /\ sock' \in Seq(Events) /\ evq' \in Seq(Events)
  BY SeqMonotonic DEF TypeOK, RedisTypeOK, ConnTypeOK, Events
<1>2. /\ Count(wire', EventsOf(j)) \in Nat /\ Count(sock', EventsOf(j)) \in Nat
      /\ Count(evq', EventsOf(j)) \in Nat
  BY <1>1, CountType
<1> QED
  BY <1>2 DEF Outstanding

LEMMA RedisThreadConnection ==
  ASSUME TypeOK, TypeOK', AwaitedInv, ConnectionInv, UNCHANGED rpc,
         RedisThread \/ OnDisconnect \/ ConnectFailed
  PROVE  ConnectionInv'
<1> USE IdFacts
<1> DEFINE Kept == OneAtATime' /\ (Preemption = FALSE => Unpreempted')
<1>0. /\ OneAtATime /\ (Preemption = FALSE => Unpreempted) /\ ctx # "closing"
      /\ ctx # "open" => wire = << >> /\ sock = << >>
      /\ MaxInvalidations = 0 => rpc' = "idle"
      /\ \A j \in SeqIds : Outstanding(j) \in Nat /\ Outstanding(j)' \in Nat
  <2>1. \A j \in SeqIds : Outstanding(j) \in Nat
    BY OutstandingType
  <2>2. \A j \in SeqIds : Outstanding(j)' \in Nat
    BY OutstandingTypeNext
  <2> QED
    BY <2>1, <2>2 DEF ConnectionInv
<1>1. CASE ProcessRequestEvent
  <2>1. UNCHANGED <<sock, ctx, inited, busy, holder, inv, ops>> /\ (ctx # "open" => wire' = wire)
    BY <1>1 DEF ProcessRequestEvent, IsConnected, seqVars
  <2>2. Kept
    BY <1>0, <1>1, <2>1, SentSame, OneAtATimeSame
  <2> QED
    BY <1>0, <2>1, <2>2 DEF ConnectionInv
<1>2. CASE HandleRead
  <2>1. UNCHANGED <<wire, ctx, inited, busy, holder, inv, ops>> /\ sock # << >>
    BY <1>2 DEF HandleRead, seqVars
  <2>2. Kept
    BY <1>0, <1>2, <2>1, ReadSame, OneAtATimeSame
  <2> QED
    BY <1>0, <2>1, <2>2 DEF ConnectionInv
<1>b. CASE HandleLastRead
  BY <1>0, <1>b DEF HandleLastRead, LastAwaited
<1>3. CASE ProcessOperationsQueue
  <2>1. UNCHANGED <<wire, sock, ctx, inited, inv>> /\ opQueue \in Seq(Op)
    BY <1>3 DEF ProcessOperationsQueue, redisVars, TypeOK, ConnTypeOK
  <2>2. Kept
    <3>1. CASE UNCHANGED <<opQueue, ops, evq, busy, holder>>
      BY <1>0, <2>1, <3>1, StillSame, OneAtATimeSame
    <3>2. CASE PerformOperations(opQueue, NoSession) /\ IsReady /\ ~busy
      <4>1. ctx = "open" /\ inited /\ holder = NoSession
        BY <1>0, <1>3, <3>2 DEF ProcessOperationsQueue, IsReady, IsConnected
      <4> QED
        BY <1>0, <2>1, <3>2, <4>1, StartedAlone
    <3> QED
      BY <1>3, <3>1, <3>2 DEF ProcessOperationsQueue
  <2> QED
    BY <1>0, <2>1, <2>2 DEF ConnectionInv
<1>4. CASE OnReconnect \/ ConnectFailed
  <2>1. /\ UNCHANGED <<wire, sock, evq, inited, busy, holder, inv, ops>>
        /\ ctx # "open" /\ ctx' \in {"connecting", "null"}
    BY <1>4 DEF OnReconnect, ConnectFailed, redisVars, seqVars
  <2>2. Kept
    BY <1>0, <2>1, StillSame, OneAtATimeSame
  <2> QED
    BY <1>0, <2>1, <2>2 DEF ConnectionInv
<1>5. CASE OnConnect
  <2>1. UNCHANGED <<wire, sock, ops, holder, busy, inited>> /\ evq = << >> /\ ctx # "open" /\ ctx' = "open"
    BY <1>5 DEF OnConnect, redisVars
  <2>2. (\A j \in SeqIds : Outstanding(j) = 0) /\ (\A i \in OpIds : ~InFlight(i))
    BY <1>0, <2>1, NothingOutstanding
  <2>3. CASE inited
    <3>1. UNCHANGED <<evq, inv>>
      BY <1>5, <2>3 DEF OnConnect
    <3>2. Outstanding(InvId)' = Outstanding(InvId) /\ \A i \in OpIds : ~InFlight(i)'
      BY <2>1, <2>2, <3>1, StillSame DEF InFlight
    <3>3. Kept
      BY <1>0, <2>1, <2>2, <3>1, <3>2 DEF OneAtATime, Unpreempted
    <3> QED
      BY <1>0, <2>1, <3>3 DEF ConnectionInv
  <2>4. CASE ~inited
    <3>1. evq' = Append(evq, Req(InvId, "KEYS"))
      BY <1>5, <2>4 DEF OnConnect
    <3>2. inv'.state = "GET_KEYS"
      BY <1>5, <2>4 DEF OnConnect, InvPerformed, InvCleaned, TypeOK, ConnTypeOK
    <3>3. Outstanding(InvId)' = 1
      BY <2>1, <2>2, <3>1, KeysStep DEF One
    <3>4. inited' = FALSE
      BY <2>1, <2>4
    <3>5. Kept
      BY <1>0, <2>1, <2>2, <3>2, <3>3, <3>4, InvStarts
    <3> QED
      BY <1>0, <2>1, <3>5 DEF ConnectionInv
  <2> QED
    BY <2>3, <2>4
<1>6. CASE OnDisconnect
  <2>1. /\ ctx = "open" /\ ctx' = "null" /\ wire' = << >> /\ sock' = << >>
        /\ inited' = (inited /\ ~busy) /\ busy' = FALSE /\ UNCHANGED <<ops, inv, holder>>
    BY <1>0, <1>6 DEF OnDisconnect, IsConnected
  <2>2. Outstanding(InvId)' = Outstanding(InvId)
    BY <1>6, LostSame
  <2>3. \A i \in OpIds : InFlight(i)' <=> InFlight(i)
    BY <2>1 DEF InFlight
  <2>4. OneAtATime'
    BY <1>0, <2>1, <2>2, <2>3 DEF OneAtATime
  <2>5. Kept
    BY <1>0, <2>1, <2>3, <2>4 DEF Unpreempted
  <2> QED
    BY <1>0, <2>1, <2>5 DEF ConnectionInv
<1>7. CASE InvReply /\ evq' = Tail(evq) /\ UNCHANGED <<wire, sock, ctx, holder, ops, busy>>
           /\ (InvOnError \/ InvCleaning \/ InvFinished)
  <2>1. evq # << >> /\ Head(evq).seq = InvId
    BY <1>7 DEF InvReply
  <2>2. Outstanding(InvId) > 0 /\ Outstanding(InvId)' = Outstanding(InvId) - 1
    BY <1>0, <1>7, <2>1, HeadOutstanding, TailStep DEF One
  <2>3. ~inited /\ Outstanding(InvId) <= InvWaits(inv)
    BY <1>0, <2>2 DEF OneAtATime
  <2>4. inv.state \in {"INITIAL", "GET_KEYS", "CLEAN_RES", "FINISH"} /\ inv.count \in Int
    BY DEF TypeOK, ConnTypeOK
  <2>5. (Outstanding(InvId)' > 0 => ~inited') /\ Outstanding(InvId)' <= InvWaits(inv')
    <3>1. CASE InvOnError
      <4>1. inited' = inited
        BY <3>1 DEF InvOnError
      <4>2. CASE inv.state = "CLEAN_RES"
        <5>1. inv' = [inv EXCEPT !.count = @ - 1]
          BY <3>1, <4>2 DEF InvOnError
        <5>2. inv'.state = "CLEAN_RES" /\ inv'.count = inv.count - 1
          BY <4>2, <5>1 DEF TypeOK, ConnTypeOK
        <5> QED
          BY <1>0, <2>2, <2>3, <2>4, <4>1, <4>2, <5>2 DEF InvWaits
      <4>3. CASE inv.state # "CLEAN_RES"
        <5>1. inv' = inv
          BY <3>1, <4>3 DEF InvOnError
        <5> QED
          BY <1>0, <2>2, <2>3, <2>4, <4>1, <4>3, <5>1 DEF InvWaits
      <4> QED
        BY <4>2, <4>3
    <3>2. CASE InvCleaning
      <4>1. inited' = inited /\ inv.state = "CLEAN_RES" /\ inv' = [inv EXCEPT !.count = @ - 1]
        BY <3>2 DEF InvCleaning
      <4>2. inv'.state = "CLEAN_RES" /\ inv'.count = inv.count - 1
        BY <4>1 DEF TypeOK, ConnTypeOK
      <4> QED
        BY <1>0, <2>2, <2>3, <2>4, <4>1, <4>2 DEF InvWaits
    <3>3. CASE InvFinished
      <4>1. inv' = [state |-> "FINISH", initial |-> FALSE, count |-> 0]
            /\ (inv.state = "FINISH" \/ (inv.state = "CLEAN_RES" /\ inv.count = 1))
        BY <3>3 DEF InvFinished
      <4>2. InvWaits(inv') = 0 /\ InvWaits(inv) <= 1
        BY <4>1 DEF InvWaits
      <4>3. Outstanding(InvId)' = 0
        BY <1>0, <2>2, <2>3, <4>2, <4>1 DEF InvWaits
      <4> QED
        BY <4>2, <4>3
    <3> QED
      BY <1>7, <3>1, <3>2, <3>3
  <2>6. Kept
    BY <1>0, <1>7, <2>2, <2>5, InvAdvances
  <2> QED
    BY <1>0, <1>7, <2>6 DEF ConnectionInv
<1>8. CASE InvGotKeys
  <2>1. /\ evq # << >> /\ Head(evq).seq = InvId /\ inv.state = "GET_KEYS"
        /\ UNCHANGED <<wire, sock, ctx, holder, ops, busy, inited>>
    BY <1>8 DEF InvGotKeys, InvReply, redisVars
  <2>2. Outstanding(InvId) > 0
    BY <2>1, HeadOutstanding
  <2>3. Outstanding(InvId) = 1 /\ ~inited
    BY <1>0, <2>1, <2>2 DEF OneAtATime, InvWaits
  <2>4. inv'.count \in Nat /\ inv'.state = "CLEAN_RES" /\ Outstanding(InvId)' = inv'.count
    BY <1>8, <2>3, GotKeysStep
  <2>5. Kept
    BY <1>0, <2>1, <2>2, <2>3, <2>4, InvAdvances DEF InvWaits
  <2> QED
    BY <1>0, <2>1, <2>5 DEF ConnectionInv
<1>9. ASSUME NEW i \in OpIds, OpMultiAnswered(i) PROVE ConnectionInv'
  <2> DEFINE op == [state |-> "OP_RES", list |-> ops[i].list,
                    count |-> Len(ops[i].list) + 1, err |-> ops[i].err]
  <2>1. /\ ops[i].state = "MULTI_START" /\ ops' = [ops EXCEPT ![i] = op]
        /\ UNCHANGED <<wire, sock, ctx, inited, busy, holder, inv>>
    BY <1>9 DEF OpMultiAnswered, redisVars
  <2>2. Outstanding(InvId)' = Outstanding(InvId) /\ Len(ops[i].list) \in Nat
    <3>1. InvId \in SeqIds /\ InvId # i
      OBVIOUS
    <3>2. /\ Len(ops[i].list) \in Nat
          /\ Outstanding(InvId)' = Outstanding(InvId) + IF InvId = i THEN Len(ops[i].list) ELSE 0
      BY <1>9, <3>1, MultiAnsweredStep
    <3> QED
      BY <1>0, <3>1, <3>2
  <2>3. op.state # "NONE" /\ Waits(op) >= 1 /\ InFlight(i)
    BY <2>1, <2>2 DEF Waits, InFlight
  <2> HIDE DEF op
  <2>4. Kept
    BY <1>0, <2>1, <2>2, <2>3, AnswerOfOne
  <2> QED
    BY <1>0, <2>1, <2>4 DEF ConnectionInv
<1>10. ASSUME NEW i \in OpIds, OpQueued(i) PROVE ConnectionInv'
  <2> DEFINE op == [state |-> "OP_RES", list |-> ops[i].list,
                    count |-> ops[i].count - 1, err |-> OpFailed(i)]
  <2>0. ops[i].state = "OP_RES" /\ ops[i].count # 1 /\ ops' = [ops EXCEPT ![i] = op]
    BY <1>10 DEF OpQueued
  <2>1. /\ UNCHANGED <<wire, sock, ctx, inited, busy, holder, inv>>
        /\ evq # << >> /\ evq' = Tail(evq) /\ Head(evq).seq = i
    BY <1>10 DEF OpQueued, OpReply, redisVars
  <2>2. Outstanding(InvId)' = Outstanding(InvId)
    BY <1>0, <2>1, TailStep DEF One
  <2>3. InFlight(i) /\ Waits(ops[i]) = ops[i].count /\ Waits(ops[i]) >= 1 /\ ops[i].count \in Int
    BY <1>0, <2>0 DEF InFlight, OneAtATime, Waits, TypeOK, ConnTypeOK
  <2>4. op.state # "NONE" /\ Waits(op) = ops[i].count - 1
    BY DEF Waits
  <2> HIDE DEF op
  <2>5. Waits(op) >= 1
    BY <2>0, <2>3, <2>4
  <2>6. Kept
    BY <1>0, <2>0, <2>1, <2>2, <2>3, <2>4, <2>5, AnswerOfOne
  <2> QED
    BY <1>0, <2>1, <2>6 DEF ConnectionInv
<1>11. ASSUME NEW i \in OpIds, OpSucceeded(i) \/ OpErrored(i) PROVE ConnectionInv'
  <2>1. /\ ops[i].state = "OP_RES" /\ ops[i].count = 1 /\ ops' = [ops EXCEPT ![i] = NoSeq]
        /\ evq # << >> /\ Head(evq).seq = i /\ UNCHANGED <<wire, sock, holder>> /\ busy' = FALSE
    BY <1>11 DEF OpSucceeded, OpErrored, OpLast, OpReply, redisVars
  <2>2. InFlight(i) /\ Outstanding(InvId) = 0
    BY <1>0, <2>1 DEF InFlight, OneAtATime
  <2>3. CASE OpSucceeded(i) /\ inited
    <3>1. evq' = Tail(evq) /\ UNCHANGED <<ctx, inited, inv>>
      BY <2>3 DEF OpSucceeded
    <3>2. Outstanding(InvId)' = 0
      BY <2>1, <2>2, <3>1, TailStep DEF One
    <3>a. Outstanding(InvId)' <= InvWaits(inv')
      BY <1>0, <2>2, <3>1, <3>2 DEF OneAtATime
    <3>3. Kept
      <4>1. Outstanding(InvId)' \in Nat /\ ~(Outstanding(InvId)' > 0)
        BY <3>2
      <4> QED
        BY <1>0, <2>1, <2>2, <3>a, <4>1, LastOfOne
    <3> QED
      BY <1>0, <2>1, <3>1, <3>3 DEF ConnectionInv
  <2>4. CASE OpSucceeded(i) /\ ~inited
    <3>1. /\ evq' = Append(Tail(evq), Req(InvId, "KEYS")) /\ UNCHANGED <<ctx, inited>>
          /\ inv' = InvPerformed(InvCleaned)
      BY <2>4 DEF OpSucceeded
    <3>2. Outstanding(InvId)' = 1
      BY <2>1, <2>2, <3>1, TailPostStep DEF One
    <3>3. InvWaits(inv') = 1
      BY <3>1 DEF InvWaits, InvPerformed, InvCleaned
    <3>4. Kept
      <4>1. ~inited' /\ Outstanding(InvId)' <= InvWaits(inv')
        BY <2>4, <3>1, <3>2, <3>3
      <4> QED
        BY <1>0, <2>1, <2>2, <3>2, <4>1, LastOfOne
    <3> QED
      BY <1>0, <2>1, <3>1, <3>4 DEF ConnectionInv
  <2>5. CASE OpErrored(i)
    <3>1. evq' = Tail(evq)
      BY <2>5 DEF OpErrored
    <3>2. Outstanding(InvId)' = 0
      BY <2>1, <2>2, <3>1, TailStep DEF One
    <3>3. InvWaits(InvCleaned) = 0
      BY DEF InvWaits, InvCleaned
    <3>4. InvWaits(inv) >= 0
      BY <1>0, <2>2 DEF OneAtATime
    <3>5. inv' = inv \/ inv' = InvCleaned
      BY <2>5 DEF OpErrored
    <3>6. Kept
      <4>1. Outstanding(InvId)' <= InvWaits(inv')
        BY <3>2, <3>3, <3>4, <3>5
      <4>2. Outstanding(InvId)' \in Nat /\ ~(Outstanding(InvId)' > 0)
        BY <3>2
      <4> QED
        BY <1>0, <2>1, <2>2, <4>1, <4>2, LastOfOne
    <3>7. wire = << >> /\ sock = << >>
      <4>1. Outstanding(i) = 1 /\ \A j \in SeqIds : j # i => Outstanding(j) = 0
        <5>1. Waits(ops[i]) = 1
          BY <2>1 DEF Waits
        <5>2. \A j \in OpIds : j # i => Waits(ops[j]) = 0
          BY <1>0, <2>2 DEF OneAtATime, InFlight, Waits
        <5> QED
          BY <2>2, <5>1, <5>2 DEF AwaitedInv
      <4> QED
        BY <2>1, <4>1, OneLeft
    <3>8. ctx' # "closing" /\ (ctx' = ctx \/ ctx' = "null")
      <4>1. sock \o wire = << >>
        BY <3>7
      <4> QED
        BY <1>0, <2>5, <4>1 DEF OpErrored
    <3> QED
      BY <1>0, <2>1, <3>6, <3>7, <3>8 DEF ConnectionInv
  <2> QED
    BY <1>11, <2>3, <2>4, <2>5
<1>12. ASSUME InvOnError \/ InvCleaning \/ InvFinished PROVE ConnectionInv'
  <2>1. InvReply /\ evq' = Tail(evq) /\ UNCHANGED <<wire, sock, ctx, holder, ops, busy>>
    BY <1>12 DEF InvOnError, InvCleaning, InvFinished, redisVars
  <2> QED
    BY <1>7, <1>12, <2>1
<1> QED
  BY <1>1, <1>2, <1>b, <1>3, <1>4, <1>5, <1>6, <1>8, <1>9, <1>10, <1>11, <1>12 DEF RedisThread

LEMMA ConnectionInductive ==
  ASSUME TypeOK, TypeOK', AwaitedInv, ConnectionInv, [Next]_vars,
         Preemption = FALSE \/ MaxInvalidations = 0
  PROVE  ConnectionInv'
<1> USE IdFacts
<1> DEFINE Kept == OneAtATime' /\ (Preemption = FALSE => Unpreempted')
<1>0. /\ OneAtATime /\ (Preemption = FALSE => Unpreempted) /\ ctx # "closing"
      /\ ctx # "open" => wire = << >> /\ sock = << >>
      /\ MaxInvalidations = 0 => rpc = "idle"
      /\ Outstanding(InvId) \in Nat
  BY OutstandingType DEF ConnectionInv
<1>1. ASSUME UNCHANGED <<holder, ctx, wire, sock, evq, ops, busy, inited, inv>>,
             MaxInvalidations = 0 => rpc' = "idle"
      PROVE  ConnectionInv'
  <2>1. Kept
    BY <1>0, <1>1, StillSame, OneAtATimeSame
  <2> QED
    BY <1>0, <1>1, <2>1 DEF ConnectionInv
<1>2. CASE Client
  BY <1>2, RedisThreadConnection DEF Client, ctlVars
<1>3. CASE (OnDisconnect \/ ConnectFailed) /\ UNCHANGED ctlVars
  BY <1>3, RedisThreadConnection DEF ctlVars
<1>4. CASE Redis_ \/ (ServerFault /\ Fault)
  <2>1. (Server \/ ServerRefuse) /\ UNCHANGED <<holder, ctx, evq, ops, busy, inited, inv, rpc>>
    BY <1>4 DEF Redis_, ServerStep, ServerFault, Fault, connVars, seqVars, ctlVars
  <2>2. wire # << >>
    BY <2>1 DEF Server, ServerMulti, ServerQueue, ServerKeys, ServerDirect, ServerExec, ServerRefuse
  <2>3. Kept
    BY <1>0, <2>1, AnsweredSame, OneAtATimeSame
  <2> QED
    BY <1>0, <2>1, <2>2, <2>3 DEF ConnectionInv
<1>5. ASSUME NEW s \in Sessions, SessionThread(s) \/ RpcPut(s) PROVE ConnectionInv'
  <2>0. UNCHANGED rpc
    BY <1>5 DEF SessionThread, GetStart, CheckValue, CheckFailed, GetGranted, GetEmplace, GetBusy,
                SessionPut, RpcPut, PutHandler
  <2>1. CASE UNCHANGED <<redisVars, connVars>>
    BY <1>0, <1>1, <2>0, <2>1 DEF redisVars, connVars, seqVars
  <2>2. ASSUME NEW rol \in Seq(Op), ProcessOperationsList(rol, s),
               UNCHANGED <<redisVars, ctx, inited, inv>>
        PROVE  ConnectionInv'
    <3>1. UNCHANGED <<wire, sock, ctx, inited, inv>>
      BY <2>2 DEF redisVars
    <3>2. CASE UNCHANGED <<ops, evq, busy, holder>>
      BY <1>0, <1>1, <2>0, <3>1, <3>2
    <3>3. CASE IsReady /\ ~busy /\ PerformOperations(rol, s)
      <4>1. ctx = "open" /\ inited /\ holder = NoSession
        BY <1>0, <2>2, <3>3 DEF ProcessOperationsList, IsReady, IsConnected
      <4>2. Kept
        BY <1>0, <3>1, <3>3, <4>1, StartedAlone
      <4> QED
        BY <1>0, <2>0, <3>1, <4>2 DEF ConnectionInv
    <3> QED
      BY <2>2, <3>2, <3>3 DEF ProcessOperationsList
  <2> QED
    BY <1>5, <2>1, <2>2, SessionEffect
<1>6. CASE InvalidateUnready \/ InvalidateHandlers \/ InvalidateAnswer
  <2>1. MaxInvalidations = 0 => rpc' = "idle"
    BY <1>0, <1>6, ControlAssumption
       DEF InvalidateUnready, InvalidateHandlers, InvalidateAnswer, TypeOK
  <2> QED
    BY <1>1, <1>6, <2>1
       DEF InvalidateUnready, InvalidateHandlers, InvalidateAnswer, redisVars, connVars, seqVars
<1>7. CASE InvalidateReset \/ InvalidateSequence
  <2>a. MaxInvalidations # 0 /\ Preemption = FALSE
    BY <1>0, <1>7 DEF InvalidateReset, InvalidateSequence
  <2>0. UNCHANGED <<wire, sock, ctx, holder, ops, busy>> /\ inited' = FALSE /\ holder = NoSession
    BY <1>0, <1>7, <2>a DEF InvalidateReset, InvalidateSequence, redisVars, Unpreempted
  <2>1. CASE UNCHANGED <<evq, inv>>
    <3>1. Outstanding(InvId)' = Outstanding(InvId) /\ \A i \in OpIds : InFlight(i)' <=> InFlight(i)
      BY <2>0, <2>1, StillSame DEF InFlight
    <3>2. Kept
      BY <1>0, <2>0, <2>1, <3>1 DEF OneAtATime, Unpreempted
    <3> QED
      BY <1>0, <2>a, <2>0, <3>2 DEF ConnectionInv
  <2>2. CASE /\ IsConnected /\ inited /\ ~busy
             /\ inv' = InvPerformed(InvCleaned) /\ evq' = Append(evq, Req(InvId, "KEYS"))
    <3>1. Outstanding(InvId) = 0 /\ \A i \in OpIds : ~InFlight(i)
      BY <1>0, <2>0, <2>2, NothingInFlight DEF IsConnected
    <3>2. Outstanding(InvId)' = 1
      BY <2>0, <2>2, <3>1, KeysStep DEF One
    <3>3. inv'.state = "GET_KEYS"
      BY <2>2 DEF InvPerformed, InvCleaned
    <3>4. Kept
      BY <1>0, <2>0, <3>1, <3>2, <3>3, InvStarts
    <3> QED
      BY <1>0, <2>a, <2>0, <3>4 DEF ConnectionInv
  <2> QED
    BY <1>7, <2>1, <2>2 DEF InvalidateReset, InvalidateSequence, InvalidateStart
<1>8. CASE ThreadResumed
  <2>1. /\ UNCHANGED <<wire, sock, evq, ctx, inited, inv, ops, rpc>> /\ busy' = TRUE
        /\ holder # NoSession
    BY <1>8 DEF ThreadResumed, SetBusy, redisVars
  <2>2. Outstanding(InvId)' = Outstanding(InvId)
    BY <2>1, StillSame
  <2>3. Kept
    BY <1>0, <2>1, <2>2 DEF OneAtATime, Unpreempted, InFlight
  <2> QED
    BY <1>0, <2>1, <2>3 DEF ConnectionInv
<1>9. CASE Restart
  <2>1. /\ wire' = << >> /\ sock' = << >> /\ evq' = << >> /\ ctx' = "connecting"
        /\ ops' = [i \in OpIds |-> NoSeq] /\ busy' = FALSE /\ holder' = NoSession
        /\ inv' = [state |-> "INITIAL", initial |-> TRUE, count |-> 0] /\ rpc' = "idle"
    BY <1>9 DEF Restart
  <2>2. Outstanding(InvId)' = 0
    BY <2>1, CountEmpty DEF Outstanding
  <2>3. \A i \in OpIds : ~InFlight(i)'
    BY <2>1 DEF InFlight, NoSeq
  <2>4. InvWaits(inv') = 0
    BY <2>1 DEF InvWaits
  <2>5. Kept
    BY <2>1, <2>2, <2>3, <2>4 DEF OneAtATime, Unpreempted
  <2> QED
    BY <2>1, <2>5 DEF ConnectionInv
<1>10. CASE UNCHANGED vars
  BY <1>0, <1>1, <1>10 DEF vars, redisVars, connVars, seqVars, ctlVars
<1> QED
  BY <1>2, <1>3, <1>4, <1>5, <1>6, <1>7, <1>8, <1>9, <1>10 DEF Next, Fault, Invalidate

LEMMA ConnectionInit ==
  ASSUME Init
  PROVE  AwaitedInv /\ ConnectionInv
<1>1. AwaitedInv
  BY CountEmpty DEF Init, RedisInit, ConnInit, AwaitedInv, Outstanding, Waits, NoSeq
<1>2. /\ wire = << >> /\ sock = << >> /\ evq = << >> /\ ctx = "connecting"
      /\ ops = [i \in OpIds |-> NoSeq] /\ busy = FALSE /\ holder = NoSession
      /\ inv = [state |-> "INITIAL", initial |-> TRUE, count |-> 0] /\ rpc = "idle"
  BY DEF Init, RedisInit, ConnInit, ControlInit
<1>3. Outstanding(InvId) = 0
  BY <1>2, CountEmpty DEF Outstanding
<1>4. \A i \in OpIds : ~InFlight(i)
  BY <1>2 DEF InFlight, NoSeq
<1>5. InvWaits(inv) = 0
  BY <1>2 DEF InvWaits
<1>6. OneAtATime /\ Unpreempted
  BY <1>2, <1>3, <1>4, <1>5 DEF OneAtATime, Unpreempted
<1> QED
  BY <1>1, <1>2, <1>6 DEF ConnectionInv

(* Two events of different sequences are not on the connection together.   *)
LEMMA Exclusive ==
  ASSUME TypeOK, AwaitedInv, ConnectionInv
  PROVE  ExclusiveConnection
<1>1. ASSUME NEW r \in Range(wire) \cup Range(sock)
      PROVE  r.seq \in SeqIds /\ Outstanding(r.seq) > 0
  <2>1. wire \in Seq(Events) /\ sock \in Seq(Events)
    BY EventSeqs
  <2>2. r \in Events /\ r.seq \in SeqIds
    BY <1>1, <2>1, RequestSeq DEF Range, Events
  <2>3. PICK i \in SeqIds : i = r.seq
    BY <2>2
  <2>4. r \in EventsOf(i)
    BY <2>2, <2>3 DEF EventsOf
  <2>5. \A q \in Seq(Events) : r \in Range(q) => Count(q, EventsOf(i)) # 0
    BY <2>4, CountAll DEF Range
  <2>6. Count(wire, EventsOf(i)) # 0 \/ Count(sock, EventsOf(i)) # 0
    BY <1>1, <2>1, <2>5
  <2> QED
    BY <2>2, <2>3, <2>6, EventSeqs DEF Outstanding
<1>2. ASSUME NEW i \in SeqIds, NEW j \in SeqIds, Outstanding(i) > 0, Outstanding(j) > 0
      PROVE  i = j
  <2>1. \A n \in OpIds : Outstanding(n) > 0 => InFlight(n)
    BY DEF AwaitedInv, Waits, InFlight
  <2>2. CASE i \in OpIds /\ j \in OpIds
    BY <1>2, <2>1, <2>2 DEF ConnectionInv, OneAtATime
  <2>3. CASE i = InvId \/ j = InvId
    BY <1>2, <2>1, <2>3, IdFacts DEF ConnectionInv, OneAtATime
  <2> QED
    BY <2>2, <2>3, IdFacts
<1>3. \A q, r \in Range(wire) \cup Range(sock) : q.seq = r.seq
  BY <1>1, <1>2
<1> QED
  BY <1>3 DEF ExclusiveConnection, ConnectionInv

(* The commands of two sequences never share the write connection: for any *)
(* number of sessions, resources, lost connections, refused commands and   *)
(* restarts, with threads preempted between posting MULTI and setting      *)
(* write_async_is_busy.  Only an RPC invalidation that finds a thread in   *)
(* this window (the unlocked test of write_async_is_busy) is excluded:     *)
(* there the two sequences do mix.                                         *)
THEOREM SequencesExclusive ==
  ASSUME Preemption = FALSE \/ MaxInvalidations = 0
  PROVE  Spec => []ExclusiveConnection
<1>1. Init => AwaitedInv /\ ConnectionInv
  BY ConnectionInit
<1>2. TypeOK /\ TypeOK' /\ AwaitedInv /\ ConnectionInv /\ [Next]_vars => (AwaitedInv /\ ConnectionInv)'
  BY AwaitedInductive, ConnectionInductive
<1>3. TypeOK /\ AwaitedInv /\ ConnectionInv => ExclusiveConnection
  BY Exclusive
<1> QED
  BY <1>1, <1>2, <1>3, TypeCorrect, PTL DEF Spec

-----------------------------------------------------------------------------
(* The busy flag with every thread preemptible, RPCs and faults included:  *)
(* a sequence in flight on a live connection is announced, a closing       *)
(* connection starts nothing (resources_inited is false until a new        *)
(* connection was cleared), and without a connection nothing is on it, so  *)
(* what was in flight is finished before the next one opens.               *)
FlagInv ==
  /\ \A i \in OpIds : InFlight(i) => Waits(ops[i]) >= 1
  /\ \A i, j \in OpIds : InFlight(i) /\ InFlight(j) => i = j
  /\ \A i \in OpIds : InFlight(i) /\ IsConnected => ctx = "open" /\ (busy \/ holder # NoSession)
  /\ ~IsConnected => wire = << >> /\ sock = << >>
  /\ ctx = "closing" => ~inited /\ inv.state = "INITIAL"

(* Steps that start and end nothing.                                       *)
LEMMA FlagSame ==
  ASSUME FlagInv, UNCHANGED <<ops, busy, holder, ctx>>, ctx = "closing" => ~inited' /\ inv'.state = "INITIAL",
         ~IsConnected => wire' = << >> /\ sock' = << >>
  PROVE  FlagInv'
BY DEF FlagInv, InFlight, IsConnected

(* An operation sequence is started.                                       *)
LEMMA FlagStarted ==
  ASSUME TypeOK, FlagInv, NEW list \in Seq(Op), NEW thread, PerformOperations(list, thread),
         IsReady, ~busy, holder = NoSession, UNCHANGED <<wire, sock, ctx, inited, inv>>
  PROVE  FlagInv'
<1>1. PICK i \in OpIds : ops' = [ops EXCEPT ![i] = NewSeq(list)]
  BY PerformStep
<1>2. busy' \/ holder' # NoSession
  BY DEF PerformOperations
<1>3. ctx = "open" /\ IsConnected /\ \A j \in OpIds : ~InFlight(j)
  BY DEF FlagInv, IsReady, IsConnected
<1>4. \A j \in OpIds : ops'[j] = IF j = i THEN NewSeq(list) ELSE ops[j]
  BY <1>1 DEF TypeOK, ConnTypeOK
<1>5. NewSeq(list).state # "NONE" /\ Waits(NewSeq(list)) = 1
  BY DEF NewSeq, Waits
<1>6. \A j \in OpIds : (InFlight(j)' <=> j = i) /\ (InFlight(j)' => Waits(ops'[j]) = 1)
  BY <1>3, <1>4, <1>5 DEF InFlight
<1>7. ctx' = "open" /\ IsConnected'
  BY <1>3 DEF IsConnected
<1> QED
  BY <1>2, <1>6, <1>7 DEF FlagInv

(* An answer of the operation in flight, the last one or not.              *)
LEMMA FlagAnswered ==
  ASSUME TypeOK, FlagInv, NEW i \in OpIds, InFlight(i), NEW op, ops' = [ops EXCEPT ![i] = op],
         op.state # "NONE" => Waits(op) >= 1 /\ UNCHANGED <<busy, holder, ctx>>,
         ~IsConnected' => wire' = << >> /\ sock' = << >>,
         ctx' = "closing" => ~inited' /\ inv'.state = "INITIAL"
  PROVE  FlagInv'
<1>1. \A j \in OpIds : ops'[j] = IF j = i THEN op ELSE ops[j]
  BY DEF TypeOK, ConnTypeOK
<1>2. \A j \in OpIds : InFlight(j) <=> j = i
  BY DEF FlagInv
<1>3. \A j \in OpIds : InFlight(j)' => j = i /\ op.state # "NONE"
  BY <1>1, <1>2 DEF InFlight
<1>4. \A j \in OpIds : InFlight(j)' => Waits(ops'[j]) >= 1
  BY <1>1, <1>3
<1>5. \A j \in OpIds : InFlight(j)' /\ IsConnected' => ctx' = "open" /\ (busy' \/ holder' # NoSession)
  BY <1>2, <1>3 DEF FlagInv, IsConnected
<1> QED
  BY <1>3, <1>4, <1>5 DEF FlagInv

LEMMA RedisThreadFlag ==
  ASSUME TypeOK, AwaitedInv, FlagInv, RedisThread \/ OnDisconnect \/ ConnectFailed
  PROVE  FlagInv'
<1> USE IdFacts
<1>1. CASE ProcessRequestEvent
  <2>1. UNCHANGED <<sock, ctx, inited, busy, holder, inv, ops>> /\ (~IsConnected => wire' = wire)
    BY <1>1 DEF ProcessRequestEvent, IsConnected, seqVars
  <2> QED
    BY <2>1, FlagSame DEF FlagInv
<1>2. CASE HandleRead
  <2>1. UNCHANGED <<wire, ctx, inited, busy, holder, inv, ops>> /\ sock # << >>
    BY <1>2 DEF HandleRead, seqVars
  <2> QED
    BY <2>1, FlagSame DEF FlagInv
<1>3. CASE HandleLastRead
  <2>1. wire' = << >> /\ sock' = << >> /\ ctx' = "null" /\ UNCHANGED ops
    BY <1>3, NothingAfter DEF HandleLastRead
  <2> QED
    BY <2>1 DEF FlagInv, InFlight, IsConnected
<1>4. CASE ProcessOperationsQueue
  <2>1. UNCHANGED <<wire, sock, ctx, inited, inv>> /\ opQueue \in Seq(Op) /\ holder = NoSession
    BY <1>4 DEF ProcessOperationsQueue, redisVars, TypeOK, ConnTypeOK
  <2>2. CASE UNCHANGED <<opQueue, ops, evq, busy, holder>>
    BY <2>1, <2>2, FlagSame DEF FlagInv
  <2>3. CASE PerformOperations(opQueue, NoSession) /\ IsReady /\ ~busy
    BY <2>1, <2>3, FlagStarted
  <2> QED
    BY <1>4, <2>2, <2>3 DEF ProcessOperationsQueue
<1>5. CASE OnReconnect \/ ConnectFailed
  <2>1. /\ UNCHANGED <<wire, sock, inited, busy, holder, inv, ops>>
        /\ ctx \in {"null", "connecting"} /\ ctx' \in {"connecting", "null"}
    BY <1>5 DEF OnReconnect, ConnectFailed, redisVars, seqVars
  <2> QED
    BY <2>1 DEF FlagInv, InFlight, IsConnected
<1>6. CASE OnConnect
  <2>1. UNCHANGED <<wire, sock, ops>> /\ evq = << >> /\ ctx = "connecting" /\ ctx' = "open"
    BY <1>6 DEF OnConnect, redisVars
  <2>2. wire = << >> /\ sock = << >>
    BY <2>1 DEF FlagInv, IsConnected
  <2>3. \A j \in SeqIds : Outstanding(j) = 0
    BY <2>1, <2>2, CountEmpty DEF Outstanding
  <2>4. \A i \in OpIds : ~InFlight(i)
    BY <2>3 DEF AwaitedInv, FlagInv
  <2> QED
    BY <2>1, <2>4 DEF FlagInv, InFlight, IsConnected
<1>7. CASE OnDisconnect
  <2>1. ctx' = "null" /\ wire' = << >> /\ sock' = << >> /\ UNCHANGED ops
    BY <1>7 DEF OnDisconnect
  <2> QED
    BY <2>1 DEF FlagInv, InFlight, IsConnected
<1>8. CASE InvOnError \/ InvGotKeys \/ InvCleaning \/ InvFinished
  <2>1. UNCHANGED <<wire, sock, ctx, ops, busy, holder>>
    BY <1>8 DEF InvOnError, InvGotKeys, InvCleaning, InvFinished, redisVars
  <2>2. ctx = "closing" => ~inited' /\ inv'.state = "INITIAL"
    BY <1>8 DEF FlagInv, InvOnError, InvGotKeys, InvCleaning, InvFinished
  <2> QED
    BY <2>1, <2>2, FlagSame DEF FlagInv
<1>9. ASSUME NEW i \in OpIds, OpMultiAnswered(i) \/ OpQueued(i) PROVE FlagInv'
  <2> DEFINE n == IF ops[i].state = "MULTI_START" THEN Len(ops[i].list) + 1 ELSE ops[i].count - 1
  <2>1. /\ ops[i].state \in {"MULTI_START", "OP_RES"} /\ (ops[i].state = "OP_RES" => ops[i].count # 1)
        /\ UNCHANGED <<wire, sock, ctx, inited, busy, holder, inv>>
    BY <1>9 DEF OpMultiAnswered, OpQueued, redisVars
  <2>2. InFlight(i) /\ Waits(ops[i]) >= 1
    BY <2>1 DEF InFlight, FlagInv
  <2>3. n \in Int /\ n >= 1
    BY <2>1, <2>2 DEF Waits, TypeOK, ConnTypeOK
  <2>4. PICK e : ops' = [ops EXCEPT ![i] = [state |-> "OP_RES", list |-> ops[i].list,
                                            count |-> n, err |-> e]]
    BY <1>9 DEF OpMultiAnswered, OpQueued
  <2> HIDE DEF n
  <2> DEFINE op == [state |-> "OP_RES", list |-> ops[i].list, count |-> n, err |-> e]
  <2>5. op.state # "NONE" /\ Waits(op) = n
    BY DEF Waits
  <2>6. IsConnected' <=> IsConnected
    BY <2>1 DEF IsConnected
  <2> HIDE DEF op
  <2>7. ops' = [ops EXCEPT ![i] = op]
    BY <2>4 DEF op
  <2>8. /\ ~IsConnected' => wire' = << >> /\ sock' = << >>
        /\ ctx' = "closing" => ~inited' /\ inv'.state = "INITIAL"
    BY <2>1, <2>6 DEF FlagInv
  <2> QED
    BY <2>1, <2>2, <2>3, <2>5, <2>7, <2>8, FlagAnswered
<1>10. ASSUME NEW i \in OpIds, OpSucceeded(i) \/ OpErrored(i) PROVE FlagInv'
  <2>1. ops[i].state = "OP_RES" /\ ops' = [ops EXCEPT ![i] = NoSeq] /\ UNCHANGED <<wire, sock>>
    BY <1>10 DEF OpSucceeded, OpErrored, OpLast, redisVars
  <2>2. InFlight(i) /\ ctx # "closing"
    BY <2>1 DEF InFlight, FlagInv, IsConnected
  <2>3. NoSeq.state = "NONE"
    BY DEF NoSeq
  <2>4. ctx' # ctx => \/ ctx' = "null" /\ wire = << >> /\ sock = << >>
                      \/ ctx' = "closing" /\ inited' = FALSE /\ inv' = InvCleaned
    <3>1. CASE OpSucceeded(i)
      BY <3>1 DEF OpSucceeded
    <3>2. CASE OpErrored(i)
      <4>1. sock \in Seq(Reply) /\ wire \in Seq(Request)
        BY DEF TypeOK, RedisTypeOK
      <4>2. sock \o wire = << >> => wire = << >> /\ sock = << >>
        <5>1. Len(sock) \in Nat /\ Len(wire) \in Nat /\ Len(sock \o wire) = Len(sock) + Len(wire)
          BY <4>1
        <5>2. sock \o wire = << >> => Len(sock) = 0 /\ Len(wire) = 0
          BY <5>1, EmptySeq
        <5> QED
          BY <4>1, <5>2, EmptySeq
      <4> QED
        BY <3>2, <4>2 DEF OpErrored
    <3> QED
      BY <1>10, <3>1, <3>2
  <2>5. /\ ~IsConnected' => wire' = << >> /\ sock' = << >>
        /\ ctx' = "closing" => ~inited' /\ inv'.state = "INITIAL"
    BY <2>1, <2>2, <2>4 DEF FlagInv, IsConnected, InvCleaned
  <2> QED
    BY <2>1, <2>2, <2>3, <2>5, FlagAnswered
<1> QED
  BY <1>1, <1>2, <1>3, <1>4, <1>5, <1>6, <1>7, <1>8, <1>9, <1>10 DEF RedisThread

LEMMA FlagInductive ==
  ASSUME TypeOK, AwaitedInv, FlagInv, [Next]_vars
  PROVE  FlagInv'
<1>1. ASSUME UNCHANGED <<wire, sock, ctx, ops, busy, holder, inited, inv>> PROVE FlagInv'
  BY <1>1, FlagSame DEF FlagInv
<1>2. CASE Client \/ OnDisconnect \/ ConnectFailed
  BY <1>2, RedisThreadFlag DEF Client
<1>3. CASE Redis_ \/ (ServerFault /\ Fault)
  <2>1. (Server \/ ServerRefuse) /\ UNCHANGED <<holder, ctx, ops, busy, inited, inv>>
    BY <1>3 DEF Redis_, ServerStep, ServerFault, connVars, seqVars
  <2>2. wire # << >>
    BY <2>1 DEF Server, ServerMulti, ServerQueue, ServerKeys, ServerDirect, ServerExec, ServerRefuse
  <2> QED
    BY <2>1, <2>2, FlagSame DEF FlagInv
<1>4. ASSUME NEW s \in Sessions, SessionThread(s) \/ RpcPut(s) PROVE FlagInv'
  <2>1. CASE UNCHANGED <<redisVars, connVars>>
    BY <1>1, <2>1 DEF redisVars, connVars, seqVars
  <2>2. ASSUME NEW rol \in Seq(Op), ProcessOperationsList(rol, s),
               UNCHANGED <<redisVars, ctx, inited, inv>>
        PROVE  FlagInv'
    <3>1. UNCHANGED <<wire, sock, ctx, inited, inv>>
      BY <2>2 DEF redisVars
    <3>2. CASE UNCHANGED <<ops, evq, busy, holder>>
      BY <1>1, <3>1, <3>2
    <3>3. CASE IsReady /\ ~busy /\ holder = NoSession /\ PerformOperations(rol, s)
      BY <3>1, <3>3, FlagStarted
    <3> QED
      BY <2>2, <3>2, <3>3 DEF ProcessOperationsList
  <2> QED
    BY <1>4, <2>1, <2>2, SessionEffect
<1>5. CASE InvalidateUnready \/ InvalidateHandlers \/ InvalidateAnswer
  BY <1>1, <1>5 DEF InvalidateUnready, InvalidateHandlers, InvalidateAnswer, redisVars, connVars, seqVars
<1>6. CASE InvalidateReset \/ InvalidateSequence
  <2>1. UNCHANGED <<wire, sock, ctx, holder, ops, busy>>
    BY <1>6 DEF InvalidateReset, InvalidateSequence, redisVars
  <2>2. ctx = "closing" => ~inited' /\ inv'.state = "INITIAL"
    BY <1>6 DEF InvalidateReset, InvalidateSequence, InvalidateStart, FlagInv
  <2> QED
    BY <2>1, <2>2, FlagSame DEF FlagInv
<1>7. CASE ThreadResumed
  <2>1. UNCHANGED <<wire, sock, ctx, ops, inited, inv>> /\ busy' = TRUE
    BY <1>7 DEF ThreadResumed, SetBusy, redisVars
  <2> QED
    BY <2>1 DEF FlagInv, InFlight, IsConnected
<1>8. CASE Restart
  <2>1. /\ wire' = << >> /\ sock' = << >> /\ ctx' = "connecting" /\ ops' = [i \in OpIds |-> NoSeq]
    BY <1>8 DEF Restart
  <2>2. \A i \in OpIds : ~InFlight(i)'
    BY <2>1 DEF InFlight, NoSeq
  <2> QED
    BY <2>1, <2>2 DEF FlagInv
<1>9. CASE UNCHANGED vars
  BY <1>1, <1>9 DEF vars, redisVars, connVars, seqVars
<1> QED
  BY <1>2, <1>3, <1>4, <1>5, <1>6, <1>7, <1>8, <1>9 DEF Next, Fault, Invalidate

(* One operation sequence at a time: although the redis thread resets      *)
(* write_async_is_busy without the mutex and a thread may be preempted     *)
(* before it sets the flag, no two OperationResources are ever under way,  *)
(* and one under way on a live connection is announced; for any number of  *)
(* sessions, faults, RPC invalidations and restarts.                       *)
THEOREM OneOperation == Spec => []OneOperationAtATime
<1>1. Init => AwaitedInv /\ FlagInv
  <2> SUFFICES ASSUME Init PROVE FlagInv
    BY ConnectionInit
  <2>1. wire = << >> /\ sock = << >> /\ ctx = "connecting" /\ ops = [i \in OpIds |-> NoSeq]
    BY DEF Init, RedisInit, ConnInit
  <2>2. \A i \in OpIds : ~InFlight(i)
    BY <2>1 DEF InFlight, NoSeq
  <2> QED
    BY <2>1, <2>2 DEF FlagInv
<1>2. TypeOK /\ AwaitedInv /\ FlagInv /\ [Next]_vars => (AwaitedInv /\ FlagInv)'
  BY AwaitedInductive, FlagInductive
<1>3. FlagInv => OneOperationAtATime
  BY DEF FlagInv, InFlight, OneOperationAtATime
<1> QED
  BY <1>1, <1>2, <1>3, TypeCorrect, PTL DEF Spec
=============================================================================
