----------------------- MODULE ResourceRedisConnection -----------------------
(***************************************************************************)
(* The write side of the resource cache client: the redis thread of        *)
(* RedisConnectionPool with its event queue, the write connection, the     *)
(* queue of postponed operations, and the two sequences that use it,       *)
(* InvalidateResources (inv_seq) and OperationResources.                   *)
(*                                                                         *)
(* Session threads and the RPC thread enter through ProcessOperationsList  *)
(* and InvalidateDecide; ResourceControl composes them.                    *)
(***************************************************************************)
EXTENDS Redis, SequencesExt

CONSTANTS
  Preemption,             \* TRUE: a thread may be preempted between posting
                          \* the first command of a sequence and setting the
                          \* flag that goes with it
  MaxDrops,               \* bound: connections lost or refused
  MaxErrors               \* bound: commands refused by redis

ASSUME ConnectionAssumption ==
  /\ Preemption \in BOOLEAN
  /\ MaxDrops \in Nat /\ MaxErrors \in Nat

VARIABLES
  ctx,                    \* async_context of write_async: "null", connecting,
                          \* open, or closing (redisAsyncDisconnect was called
                          \* and replies are still to come)
  inited,                 \* resources_inited
  busy,                   \* write_async_is_busy
  opQueue,                \* resource_operations_queue
  holder,                 \* session whose thread is inside
                          \* queue_and_state_mutex with MULTI posted and
                          \* write_async_is_busy not yet set
  inv,                    \* inv_seq
  ops,                    \* the OperationResources objects in flight
  evq,                    \* event queue of the redis thread
  pc,                     \* redis thread: in its loop, or about to enter
                          \* process_operations_queue
  container_ready,        \* ResourceControl::container_ready
  proc,                   \* the process
  drops, errors,          \* faults so far
  clears                  \* history: how often inv_seq finished in this process

seqVars   == <<inited, busy, opQueue, holder, inv, ops>>
faultVars == <<drops, errors, clears>>
connVars  == <<ctx, seqVars, evq, pc, container_ready, proc, faultVars>>

Op == [op : {"get", "put"}, s : Sessions, k : Keys]

NoSeq == [state |-> "NONE", list |-> << >>, count |-> 0, err |-> FALSE]
NewSeq(rol) == [state |-> "MULTI_START", list |-> rol, count |-> 0, err |-> FALSE]

ConnInit ==
  /\ ctx = "connecting"               \* init() started both connections
  /\ inited = FALSE
  /\ busy = FALSE
  /\ opQueue = << >>
  /\ holder = NoSession
  /\ inv = [state |-> "INITIAL", initial |-> TRUE, count |-> 0]
  /\ ops = [i \in OpIds |-> NoSeq]
  /\ evq = << >>
  /\ pc = "loop"
  /\ container_ready = FALSE
  /\ proc = "running"
  /\ drops = 0 /\ errors = 0 /\ clears = 0

-----------------------------------------------------------------------------
IsConnected == ctx \in {"open", "closing"}     \* until the disconnect callback
IsReady     == IsConnected /\ inited

FreeIds == {i \in OpIds : ops[i].state = "NONE"}

(* OperationResources(list).perform() and the write_async_is_busy = true   *)
(* that follows it.  The redis thread cannot overtake itself; any other    *)
(* thread may be preempted in between while it holds the mutex.            *)
PerformOperations(list, thread) ==
  \E i \in FreeIds :
    /\ \A j \in FreeIds : i <= j
    /\ ops' = [ops EXCEPT ![i] = NewSeq(list)]
    /\ evq' = Append(evq, Req(i, "MULTI"))
    /\ IF Preemption /\ thread # NoSession
         THEN holder' = thread /\ UNCHANGED busy
         ELSE busy' = TRUE /\ UNCHANGED holder

(* The preempted thread goes on: write_async_is_busy = true, mutex left.   *)
SetBusy ==
  /\ holder # NoSession
  /\ busy' = TRUE
  /\ holder' = NoSession
  /\ UNCHANGED <<redisVars, ctx, inited, opQueue, inv, ops, evq, pc, container_ready, proc, faultVars>>

(* Mutant: the busy flag is not tested.                                    *)
ProcessListWhenBusy(rol, s) ==
  /\ holder = NoSession
  /\ IF IsReady
       THEN PerformOperations(rol, s) /\ UNCHANGED opQueue
       ELSE opQueue' = opQueue \o rol /\ UNCHANGED <<ops, evq, busy, holder>>

(* process_operations_list(rol), called by the thread of session s.        *)
ProcessOperationsList(rol, s) ==
  /\ holder = NoSession
  /\ IF IsReady /\ ~busy
       THEN PerformOperations(rol, s) /\ UNCHANGED opQueue
       ELSE opQueue' = opQueue \o rol /\ UNCHANGED <<ops, evq, busy, holder>>

(* Mutant: the queue is not cleared once it was sent.                      *)
ProcessQueueKept ==
  /\ pc = "drain"
  /\ holder = NoSession
  /\ pc' = "loop"
  /\ IF ~IsReady \/ busy \/ opQueue = << >>
       THEN UNCHANGED <<ops, evq, busy, holder>>
       ELSE PerformOperations(opQueue, NoSession)
  /\ UNCHANGED <<redisVars, opQueue, ctx, inited, inv, container_ready, proc, faultVars>>

(* process_operations_queue(), called by the redis thread.                 *)
ProcessOperationsQueue ==
  /\ pc = "drain"
  /\ holder = NoSession
  /\ pc' = "loop"
  /\ IF ~IsReady \/ busy \/ opQueue = << >>
       THEN UNCHANGED <<opQueue, ops, evq, busy, holder>>
       ELSE PerformOperations(opQueue, NoSession) /\ opQueue' = << >>
  /\ UNCHANGED <<redisVars, ctx, inited, inv, container_ready, proc, faultVars>>

(* inv_seq.cleanup(), and inv_seq.perform() after a cleanup.               *)
InvCleaned   == [state |-> "INITIAL", initial |-> FALSE, count |-> 0]
InvPerformed(v) == [v EXCEPT !.state = "GET_KEYS"]

-----------------------------------------------------------------------------
(* Connection management (RedisConnection, RedisConnectionPool).           *)

Loop == proc = "running" /\ pc = "loop"

(* reconnect_timer: every connection that is not connected and has no      *)
(* context starts a new one.                                               *)
OnReconnect ==
  /\ Loop
  /\ ctx = "null"
  /\ ctx' = "connecting"
  /\ UNCHANGED <<redisVars, seqVars, evq, pc, container_ready, proc, faultVars>>

(* Mutant: only the first connect invalidates.                             *)
OnConnectFirstOnly ==
  /\ Loop
  /\ ctx = "connecting"
  /\ evq = << >>
  /\ ctx' = "open"
  /\ IF inited
       THEN pc' = "drain" /\ UNCHANGED <<inv, evq>>
       ELSE /\ inv' = IF inv.initial THEN InvPerformed(inv) ELSE inv
            /\ evq' = IF inv.initial THEN Append(evq, Req(InvId, "KEYS")) ELSE evq
            /\ UNCHANGED pc
  /\ UNCHANGED <<redisVars, inited, busy, opQueue, holder, ops, container_ready, proc, faultVars>>

(* The connect callback, then on_connect.  The queue is empty: what was    *)
(* posted before the previous connection broke is processed in the next    *)
(* loop iteration (processEvents empties the queue), a connect needs at    *)
(* least one more, and nothing is posted while there is no connection.     *)
OnConnect ==
  /\ Loop
  /\ ctx = "connecting"
  /\ evq = << >>
  /\ ctx' = "open"
  /\ IF inited
       THEN pc' = "drain" /\ UNCHANGED <<inv, evq>>
       ELSE /\ inv' = InvPerformed(IF inv.state = "INITIAL" THEN inv ELSE InvCleaned)
            /\ evq' = Append(evq, Req(InvId, "KEYS"))
            /\ UNCHANGED pc
  /\ UNCHANGED <<redisVars, inited, busy, opQueue, holder, ops, container_ready, proc, faultVars>>

ConnectFailed ==
  /\ Loop
  /\ ctx = "connecting"
  /\ drops < MaxDrops
  /\ ctx' = "null"
  /\ drops' = drops + 1
  /\ UNCHANGED <<redisVars, seqVars, evq, pc, container_ready, proc, errors, clears>>

(* Mutant: an operation in flight does not make the counters doubtful.     *)
OnDisconnectStaysInited ==
  /\ Loop
  /\ IsConnected
  /\ drops < MaxDrops
  /\ drops' = drops + 1
  /\ ctx' = "null"
  /\ LET pending == sock \o wire
     IN  evq' = evq \o [i \in 1..Len(pending) |-> Rep(pending[i].seq, "IOError", "none", {})]
  /\ wire' = << >> /\ sock' = << >> /\ multi' = NoMulti
  /\ busy' = FALSE
  /\ UNCHANGED <<exists, field, inited, opQueue, holder, inv, ops, pc, container_ready, proc, errors, clears>>

(* The connection breaks: hiredis drops the context (cleanup hook), calls  *)
(* every pending callback without a reply, then the disconnect callback:   *)
(* on_disconnect.                                                          *)
OnDisconnect ==
  /\ Loop
  /\ IsConnected
  /\ drops < MaxDrops
  /\ drops' = drops + 1
  /\ ctx' = "null"
  /\ LET pending == sock \o wire
     IN  evq' = evq \o [i \in 1..Len(pending) |-> Rep(pending[i].seq, "IOError", "none", {})]
  /\ wire' = << >> /\ sock' = << >> /\ multi' = NoMulti
  /\ inited' = (inited /\ ~busy)
  /\ busy' = FALSE
  /\ UNCHANGED <<exists, field, opQueue, holder, inv, ops, pc, container_ready, proc, errors, clears>>

(* The reply about to be read is the last one a closing connection awaits. *)
LastAwaited == ctx = "closing" /\ Tail(sock) \o wire = << >>

(* redisAsyncHandleRead: the callback turns a reply into an event.         *)
HandleRead ==
  /\ Loop
  /\ sock # << >>
  /\ ~LastAwaited
  /\ evq' = Append(evq, Head(sock))
  /\ sock' = Tail(sock)
  /\ UNCHANGED <<wire, multi, exists, field, ctx, seqVars, pc, container_ready, proc, faultVars>>

(* The last reply of a closing connection: hiredis then drops the context  *)
(* and calls the disconnect callback: on_disconnect.                       *)
HandleLastRead ==
  /\ Loop
  /\ sock # << >>
  /\ LastAwaited
  /\ evq' = Append(evq, Head(sock))
  /\ sock' = << >> /\ multi' = NoMulti
  /\ ctx' = "null"
  /\ inited' = (inited /\ ~busy)
  /\ busy' = FALSE
  /\ UNCHANGED <<wire, exists, field, opQueue, holder, inv, ops, pc, container_ready, proc, faultVars>>

(* process_request_event: the command is sent, or answered NotConnected.   *)
(* A closing connection takes no command (FailedToSend): the reply context *)
(* that has taken over the user data is deleted, and the sequence object   *)
(* with it, which is inv_seq (no heap object) or still in use.             *)
ProcessRequestEvent ==
  /\ Loop
  /\ evq # << >> /\ Head(evq).t = "req"
  /\ CASE ctx = "open" ->
            evq' = Tail(evq) /\ wire' = Append(wire, Head(evq)) /\ UNCHANGED proc
       [] ctx = "closing" ->
            proc' = "crashed" /\ UNCHANGED <<wire, evq>>
       [] OTHER ->
            /\ evq' = Append(Tail(evq), Rep(Head(evq).seq, "NotConnected", "none", {}))
            /\ UNCHANGED <<wire, proc>>
  /\ UNCHANGED <<sock, multi, exists, field, ctx, seqVars, pc, container_ready, faultVars>>

-----------------------------------------------------------------------------
(* process_reply_event, REDIS_REPLY_INITIAL_SEQ.                           *)

InvReply == Loop /\ evq # << >> /\ Head(evq).t = "rep" /\ Head(evq).seq = InvId

(* The reply InvalidateResources::processRedisReply treats as an error.    *)
InvUnexpected(r) ==
  \/ inv.state = "INITIAL"
  \/ inv.state = "GET_KEYS" /\ (r.res # "Success" \/ r.kind # "keys")
  \/ inv.state = "CLEAN_RES" /\ r.res # IF inv.count = 1 THEN "Success" ELSE "Status"

(* on_error: a failed initial sequence stops the process (SIGTERM); a      *)
(* later one only logs and leaves the sequence where it is.                *)
InvOnError ==
  /\ InvReply
  /\ InvUnexpected(Head(evq))
  /\ evq' = Tail(evq)
  /\ inv' = IF inv.state = "CLEAN_RES" THEN [inv EXCEPT !.count = @ - 1] ELSE inv
  /\ proc' = IF inv.initial THEN "terminated" ELSE proc
  /\ UNCHANGED <<redisVars, ctx, inited, busy, opQueue, holder, ops, pc, container_ready, faultVars>>

(* Mutant: the loop over the keys stops one early.                         *)
InvGotKeysShort ==
  /\ InvReply
  /\ ~InvUnexpected(Head(evq))
  /\ inv.state = "GET_KEYS"
  /\ LET ks == SetToSeq(Head(evq).keys)
         sent == <<Req(InvId, "MULTI")>> \o [i \in 1..(Len(ks) - 1) |-> HSet(InvId, ks[i])]
                   \o <<Req(InvId, "EXEC")>>
     IN  /\ inv' = [state |-> "CLEAN_RES", initial |-> inv.initial, count |-> Len(sent)]
         /\ evq' = Tail(evq) \o sent
  /\ UNCHANGED <<redisVars, ctx, inited, busy, opQueue, holder, ops, pc, container_ready, proc, faultVars>>

InvGotKeys ==
  /\ InvReply
  /\ ~InvUnexpected(Head(evq))
  /\ inv.state = "GET_KEYS"
  /\ LET ks == SetToSeq(Head(evq).keys)
     IN  /\ inv' = [state |-> "CLEAN_RES", initial |-> inv.initial, count |-> Len(ks) + 2]
         /\ evq' = Tail(evq) \o <<Req(InvId, "MULTI")>>
                     \o [i \in 1..Len(ks) |-> HSet(InvId, ks[i])] \o <<Req(InvId, "EXEC")>>
  /\ UNCHANGED <<redisVars, ctx, inited, busy, opQueue, holder, ops, pc, container_ready, proc, faultVars>>

InvCleaning ==
  /\ InvReply
  /\ ~InvUnexpected(Head(evq))
  /\ inv.state = "CLEAN_RES" /\ inv.count # 1
  /\ evq' = Tail(evq)
  /\ inv' = [inv EXCEPT !.count = @ - 1]
  /\ UNCHANGED <<redisVars, ctx, inited, busy, opQueue, holder, ops, pc, container_ready, proc, faultVars>>

(* The sequence is finished: resources_initialized_cb only the first time. *)
InvFinished ==
  /\ InvReply
  /\ ~InvUnexpected(Head(evq))
  /\ inv.state = "FINISH" \/ (inv.state = "CLEAN_RES" /\ inv.count = 1)
  /\ evq' = Tail(evq)
  /\ inv' = [state |-> "FINISH", initial |-> FALSE, count |-> 0]
  /\ inited' = TRUE
  /\ container_ready' = (container_ready \/ inv.initial)
  /\ pc' = "drain"
  /\ clears' = clears + 1
  /\ UNCHANGED <<redisVars, ctx, busy, opQueue, holder, ops, proc, drops, errors>>

-----------------------------------------------------------------------------
(* process_reply_event, REDIS_REPLY_OP_SEQ.                                *)

OpReply(i) == Loop /\ evq # << >> /\ Head(evq).t = "rep" /\ Head(evq).seq = i

OpCommands(i, list) ==
  [j \in 1..Len(list) |->
     HIncrBy(i, list[j].k, list[j].s, IF list[j].op = "get" THEN 1 ELSE -1)]
  \o <<Req(i, "EXEC")>>

(* MULTI answered: whatever the result, the increments and EXEC follow.    *)
OpMultiAnswered(i) ==
  /\ OpReply(i)
  /\ ops[i].state = "MULTI_START"
  /\ ops' = [ops EXCEPT ![i] = [state |-> "OP_RES", list |-> @.list,
                                count |-> Len(@.list) + 1, err |-> @.err]]
  /\ evq' = Tail(evq) \o OpCommands(i, ops[i].list)
  /\ UNCHANGED <<redisVars, ctx, inited, busy, opQueue, holder, inv, pc, container_ready, proc, faultVars>>

OpFailed(i) ==
  ops[i].err \/ Head(evq).res # IF ops[i].count = 1 THEN "Success" ELSE "Status"

OpQueued(i) ==
  /\ OpReply(i)
  /\ ops[i].state = "OP_RES" /\ ops[i].count # 1
  /\ ops' = [ops EXCEPT ![i] = [state |-> "OP_RES", list |-> @.list,
                                count |-> @.count - 1, err |-> OpFailed(i)]]
  /\ evq' = Tail(evq)
  /\ UNCHANGED <<redisVars, ctx, inited, busy, opQueue, holder, inv, pc, container_ready, proc, faultVars>>

(* Mutants: the object is finished and not deleted; it is deleted one      *)
(* reply early; the busy flag stays set.                                   *)
OpLastLeaked(i) ==
  /\ OpReply(i)
  /\ ops[i].state = "OP_RES" /\ ops[i].count = 1
  /\ ops' = [ops EXCEPT ![i] = [NoSeq EXCEPT !.state = "FINISH"]]
  /\ busy' = FALSE

OpLastEarly(i) ==
  /\ OpReply(i)
  /\ ops[i].state = "OP_RES" /\ ops[i].count = 2
  /\ ops' = [ops EXCEPT ![i] = NoSeq]
  /\ busy' = FALSE

OpLastStaysBusy(i) ==
  /\ OpReply(i)
  /\ ops[i].state = "OP_RES" /\ ops[i].count = 1
  /\ ops' = [ops EXCEPT ![i] = NoSeq]
  /\ UNCHANGED busy

OpLast(i) ==
  /\ OpReply(i)
  /\ ops[i].state = "OP_RES" /\ ops[i].count = 1
  /\ ops' = [ops EXCEPT ![i] = NoSeq]
  /\ busy' = FALSE

(* Mutant: the next operations are not looked for.                         *)
OpSucceededNoDrain(i) ==
  /\ OpLast(i)
  /\ ~OpFailed(i)
  /\ evq' = Tail(evq)
  /\ UNCHANGED <<redisVars, ctx, inited, opQueue, holder, inv, pc, container_ready, proc, faultVars>>

(* Finished without errors: the next operations, or the invalidation an    *)
(* RPC asked for meanwhile.                                                *)
OpSucceeded(i) ==
  /\ OpLast(i)
  /\ ~OpFailed(i)
  /\ IF inited
       THEN pc' = "drain" /\ evq' = Tail(evq) /\ UNCHANGED inv
       ELSE /\ inv' = InvPerformed(InvCleaned)
            /\ evq' = Append(Tail(evq), Req(InvId, "KEYS"))
            /\ UNCHANGED pc
  /\ UNCHANGED <<redisVars, ctx, inited, opQueue, holder, container_ready, proc, faultVars>>

(* Finished with errors: redisAsyncDisconnect(write_async's context), which *)
(* dereferences the context, then resources_inited = false and cleanup.    *)
OpErrored(i) ==
  /\ OpLast(i)
  /\ OpFailed(i)
  /\ evq' = Tail(evq)
  /\ IF ctx = "null"
       THEN /\ proc' = "crashed"
            /\ UNCHANGED <<wire, sock, multi, ctx, inited, inv>>
       ELSE /\ ctx' = IF sock \o wire = << >> THEN "null" ELSE "closing"
            /\ multi' = IF sock \o wire = << >> THEN NoMulti ELSE multi
            /\ inited' = FALSE
            /\ inv' = InvCleaned
            /\ UNCHANGED <<wire, sock, proc>>
  /\ UNCHANGED <<exists, field, opQueue, holder, pc, container_ready, faultVars>>

-----------------------------------------------------------------------------
(* invalidate_resources() of the RPC thread, up to the wait: the sequence  *)
(* is started only if nothing else will start it.                          *)
InvalidateStart ==
  IF ~IsConnected \/ ~inited \/ busy
    THEN UNCHANGED <<inv, evq>>
    ELSE /\ inv' = InvPerformed(InvCleaned)
         /\ evq' = Append(evq, Req(InvId, "KEYS"))

ServerStep == Server /\ UNCHANGED connVars

ServerFault ==
  /\ errors < MaxErrors
  /\ ServerRefuse
  /\ errors' = errors + 1
  /\ UNCHANGED <<ctx, seqVars, evq, pc, container_ready, proc, drops, clears>>

(* Every step of the redis thread.                                         *)
RedisThread ==
  \/ ProcessRequestEvent \/ HandleRead \/ HandleLastRead \/ ProcessOperationsQueue
  \/ OnReconnect \/ OnConnect
  \/ InvOnError \/ InvGotKeys \/ InvCleaning \/ InvFinished
  \/ \E i \in OpIds : \/ OpMultiAnswered(i) \/ OpQueued(i)
                      \/ OpSucceeded(i) \/ OpErrored(i)

-----------------------------------------------------------------------------
ConnTypeOK ==
  /\ ctx \in {"null", "connecting", "open", "closing"}
  /\ inited \in BOOLEAN
  /\ busy \in BOOLEAN
  /\ opQueue \in Seq(Op)
  /\ holder \in Sessions \cup {NoSession}
  /\ inv \in [state : {"INITIAL", "GET_KEYS", "CLEAN_RES", "FINISH"},
              initial : BOOLEAN, count : Int]
  /\ ops \in [OpIds -> [state : {"NONE", "MULTI_START", "OP_RES"},
                        list : Seq(Op), count : Int, err : BOOLEAN]]
  /\ evq \in Seq(Request \cup Reply)
  /\ pc \in {"loop", "drain"}
  /\ container_ready \in BOOLEAN
  /\ proc \in {"running", "crashed", "terminated"}
  /\ drops \in Nat /\ errors \in Nat /\ clears \in Nat
=============================================================================
