--------------------------- MODULE ResourceControl ---------------------------
(***************************************************************************)
(* ResourceControl: call sessions take resources before a call attempt     *)
(* (get) and give them back once (put) through a table of handlers; the    *)
(* RPC thread may give a handler back by itself or invalidate everything.  *)
(* Composed with the redis thread of ResourceRedisConnection.              *)
(*                                                                         *)
(* One handler per session: it is named by the session, and handlers[s] is *)
(* its entry ("none" when not in the table).                               *)
(***************************************************************************)
EXTENDS ResourceRedisConnection, ResourceGroups

CONSTANTS
  Need,                   \* [Sessions -> [key, failover]]: the parsed lists
  Limit,                  \* [Keys -> Nat]: limit of each resource
  OverloadAction,         \* [Keys -> action of the resource's type]
  RejectOnError,          \* reject_on_error
  RpcRelease,             \* TRUE: the RPC that puts one handler is used
  MaxInvalidations,       \* bound: RPC requests to invalidate everything
  MaxRestarts             \* bound: restarts after a crash or a termination

ASSUME ControlAssumption ==
  /\ \A s \in Sessions :
       /\ Need[s].key \in Seq(Keys)
       /\ Need[s].failover \in Seq(BOOLEAN)
       /\ Len(Need[s].key) = Len(Need[s].failover)
       /\ Len(Need[s].key) # 0 => ~Need[s].failover[Len(Need[s].key)]
  /\ \A k \in Keys : Limit[k] \in Nat
  /\ \A k \in Keys : OverloadAction[k] \in {"accept", "nextroute", "reject", "unknown"}
  /\ RejectOnError \in BOOLEAN /\ RpcRelease \in BOOLEAN
  /\ MaxInvalidations \in Nat /\ MaxRestarts \in Nat

VARIABLES
  spc,                    \* where the thread of each session is
  idx,                    \* next HVALS reply its CheckResources waits for
  over,                   \* positions found at their limit
  taken,                  \* positions with res.taken
  handlers,               \* the handlers table
  hlock,                  \* handlers_lock
  rpc,                    \* where the invalidating RPC thread is
  rpc_reply,              \* its last answer
  invalidations, restarts \* how many so far

sessVars == <<spc, idx, over, taken>>
ctlVars  == <<sessVars, handlers, hlock, rpc, rpc_reply, invalidations, restarts>>
vars     == <<redisVars, connVars, ctlVars>>

Size(s) == Len(Need[s].key)

ControlInit ==
  /\ spc = [s \in Sessions |-> "idle"]
  /\ idx = [s \in Sessions |-> 1]
  /\ over = [s \in Sessions |-> {}]
  /\ taken = [s \in Sessions |-> {}]
  /\ handlers = [s \in Sessions |-> "none"]
  /\ hlock = "free"
  /\ rpc = "idle"
  /\ rpc_reply = "none"

Init == RedisInit /\ ConnInit /\ ControlInit /\ invalidations = 0 /\ restarts = 0

Running == proc = "running"

-----------------------------------------------------------------------------
(* ResourceControl::get and ResourceRedisConnection::get(rl, resource).    *)

(* RES_ERR: refused, or let through without resources.                     *)
OnError == IF RejectOnError THEN "refused" ELSE "hold"

(* An empty list needs nothing; an unready container is a cache error.     *)
GetStart(s) ==
  /\ Running
  /\ spc[s] = "idle"
  /\ spc' = [spc EXCEPT ![s] = IF Size(s) = 0 THEN "hold"
                               ELSE IF container_ready THEN "check" ELSE OnError]
  /\ UNCHANGED <<redisVars, connVars, idx, over, taken, handlers, hlock, rpc, rpc_reply,
                 invalidations, restarts>>

(* One HVALS of the CheckResources sequence, executed on the read          *)
(* connection; other sessions may act between two of them.                 *)
CheckValue(s) ==
  /\ Running
  /\ spc[s] = "check"
  /\ idx[s] <= Size(s)
  /\ LET k == Need[s].key[idx[s]]
     IN  over' = [over EXCEPT ![s] = IF Counter(k) >= Limit[k] THEN @ \cup {idx[s]} ELSE @]
  /\ idx' = [idx EXCEPT ![s] = @ + 1]
  /\ UNCHANGED <<redisVars, connVars, spc, taken, handlers, hlock, rpc, rpc_reply,
                 invalidations, restarts>>

(* wait_finish timed out or a reply was an error: RES_ERR.  An answer that *)
(* comes later reaches only the abandoned sequence.                        *)
CheckFailed(s) ==
  /\ Running
  /\ spc[s] = "check"
  /\ spc' = [spc EXCEPT ![s] = OnError]
  /\ UNCHANGED <<redisVars, connVars, idx, over, taken, handlers, hlock, rpc, rpc_reply,
                 invalidations, restarts>>

Checked(s) == Running /\ spc[s] = "check" /\ idx[s] > Size(s)

(* The operations for the resources at positions P of the list of s.       *)
OperationList(o, s, P) ==
  LET q == SetToSeq(P)
  IN  [j \in 1..Len(q) |-> [op |-> o, s |-> s, k |-> Need[s].key[q[j]]]]

(* Mutant: every free resource is taken, not one of each group.            *)
GetGrantedAll(s) ==
  /\ Checked(s)
  /\ Exhausted(Need[s].failover, over[s]) = {}
  /\ LET active == (1..Size(s)) \ over[s]
     IN  /\ taken' = [taken EXCEPT ![s] = active]
         /\ ProcessOperationsList(OperationList("get", s, active), s)
  /\ spc' = [spc EXCEPT ![s] = "emplace"]
  /\ UNCHANGED <<redisVars, ctx, inited, inv, pc, container_ready, proc, faultVars,
                 idx, over, handlers, hlock, rpc, rpc_reply, invalidations, restarts>>

(* RES_SUCC: get(rl) marks the active resources taken and submits them.    *)
GetGranted(s) ==
  /\ Checked(s)
  /\ Exhausted(Need[s].failover, over[s]) = {}
  /\ LET active == FirstFree(Need[s].failover, over[s])
     IN  /\ taken' = [taken EXCEPT ![s] = active]
         /\ ProcessOperationsList(OperationList("get", s, active), s)
  /\ spc' = [spc EXCEPT ![s] = "emplace"]
  /\ UNCHANGED <<redisVars, ctx, inited, inv, pc, container_ready, proc, faultVars,
                 idx, over, handlers, hlock, rpc, rpc_reply, invalidations, restarts>>

(* handlers.emplace(newId) under handlers_lock.                            *)
GetEmplace(s) ==
  /\ Running
  /\ spc[s] = "emplace"
  /\ holder # s
  /\ hlock = "free"
  /\ handlers' = [handlers EXCEPT ![s] = "valid"]
  /\ spc' = [spc EXCEPT ![s] = "hold"]
  /\ UNCHANGED <<redisVars, connVars, idx, over, taken, hlock, rpc, rpc_reply,
                 invalidations, restarts>>

(* RES_BUSY: the type of the overloaded resource decides.                  *)
GetBusy(s) ==
  /\ Checked(s)
  /\ Exhausted(Need[s].failover, over[s]) # {}
  /\ LET k == Need[s].key[Min(Exhausted(Need[s].failover, over[s]))]
     IN  spc' = [spc EXCEPT ![s] = IF OverloadAction[k] = "accept" THEN "hold" ELSE "refused"]
  /\ UNCHANGED <<redisVars, connVars, idx, over, taken, handlers, hlock, rpc, rpc_reply,
                 invalidations, restarts>>

-----------------------------------------------------------------------------
(* Mutant: the released handler stays in the table.                        *)
PutHandlerKept(s) ==
  /\ hlock = "free"
  /\ IF handlers[s] = "valid" /\ taken[s] # {}
       THEN /\ ProcessOperationsList(OperationList("put", s, taken[s]), s)
            /\ hlock' = IF holder' = s THEN "put" ELSE "free"
       ELSE UNCHANGED <<opQueue, ops, evq, busy, holder, hlock>>
  /\ UNCHANGED <<redisVars, ctx, inited, inv, pc, container_ready, proc, faultVars,
                 idx, over, taken, handlers, rpc, rpc_reply, invalidations, restarts>>

(* ResourceControl::put(handler), by whatever thread: an unknown handler   *)
(* is ignored, an invalid one erased, a valid one released and erased, all *)
(* of it under handlers_lock.                                              *)
PutHandler(s) ==
  /\ hlock = "free"
  /\ handlers' = [handlers EXCEPT ![s] = "none"]
  /\ IF handlers[s] = "valid" /\ taken[s] # {}
       THEN /\ ProcessOperationsList(OperationList("put", s, taken[s]), s)
            /\ hlock' = IF holder' = s THEN "put" ELSE "free"
       ELSE UNCHANGED <<opQueue, ops, evq, busy, holder, hlock>>
  /\ UNCHANGED <<redisVars, ctx, inited, inv, pc, container_ready, proc, faultVars,
                 idx, over, taken, rpc, rpc_reply, invalidations, restarts>>

(* The session ends and gives back what it has.                            *)
SessionPut(s) ==
  /\ Running
  /\ spc[s] = "hold"
  /\ PutHandler(s)
  /\ spc' = [spc EXCEPT ![s] = "done"]

(* requestResourcesHandlerInvalidate: the RPC gives back a handler a       *)
(* session still holds.                                                    *)
RpcPut(s) ==
  /\ Running
  /\ RpcRelease
  /\ handlers[s] # "none"
  /\ PutHandler(s)
  /\ UNCHANGED spc

(* A preempted thread leaves the critical section, and handlers_lock if it *)
(* was inside put().                                                       *)
ThreadResumed ==
  /\ Running
  /\ SetBusy
  /\ hlock' = IF hlock = "put" THEN "free" ELSE hlock
  /\ UNCHANGED <<sessVars, handlers, rpc, rpc_reply, invalidations, restarts>>

-----------------------------------------------------------------------------
(* ResourceControl::invalidate_resources, called by the RPC thread.        *)

InvalidateUnready ==
  /\ Running
  /\ rpc = "idle"
  /\ invalidations < MaxInvalidations
  /\ invalidations' = invalidations + 1
  /\ container_ready' = FALSE
  /\ rpc' = "mark"
  /\ rpc_reply' = "none"
  /\ UNCHANGED <<redisVars, ctx, seqVars, evq, pc, proc, faultVars,
                 sessVars, handlers, hlock, restarts>>

(* Mutant: handlers_lock is left before the sequence is waited for.        *)
InvalidateHandlersUnlocked ==
  /\ Running
  /\ rpc = "mark"
  /\ hlock = "free"
  /\ handlers' = [s \in Sessions |-> IF handlers[s] = "none" THEN "none" ELSE "invalid"]
  /\ rpc' = "start"
  /\ UNCHANGED <<redisVars, connVars, sessVars, hlock, rpc_reply, invalidations, restarts>>

InvalidateHandlers ==
  /\ Running
  /\ rpc = "mark"
  /\ hlock = "free"
  /\ hlock' = "rpc"
  /\ handlers' = [s \in Sessions |-> IF handlers[s] = "none" THEN "none" ELSE "invalid"]
  /\ rpc' = "start"
  /\ UNCHANGED <<redisVars, connVars, sessVars, rpc_reply, invalidations, restarts>>

(* The sequence is started, then resources_inited is reset; the flags are  *)
(* read and written outside queue_and_state_mutex.                         *)
InvalidateSequence ==
  /\ Running
  /\ rpc = "start"
  /\ InvalidateStart
  /\ rpc' = IF Preemption THEN "set" ELSE "wait"
  /\ inited' = (inited /\ Preemption)
  /\ UNCHANGED <<redisVars, ctx, busy, opQueue, holder, ops, pc, container_ready, proc,
                 faultVars, sessVars, handlers, hlock, rpc_reply, invalidations, restarts>>

InvalidateReset ==
  /\ Running
  /\ rpc = "set"
  /\ inited' = FALSE
  /\ rpc' = "wait"
  /\ UNCHANGED <<redisVars, ctx, busy, opQueue, holder, inv, ops, evq, pc, container_ready,
                 proc, faultVars, sessVars, handlers, hlock, rpc_reply, invalidations, restarts>>

(* resources_inited.wait_for_to(timeout), handlers_lock held until then.   *)
InvalidateAnswer ==
  /\ Running
  /\ rpc = "wait"
  /\ rpc_reply' = IF inited THEN "success" ELSE "timeout"
  /\ rpc' = "idle"
  /\ hlock' = "free"
  /\ UNCHANGED <<redisVars, connVars, sessVars, handlers, invalidations, restarts>>

-----------------------------------------------------------------------------
(* The process is started again: nothing of it survives, the database does.*)
Restart ==
  /\ ~Running
  /\ restarts < MaxRestarts
  /\ restarts' = restarts + 1
  /\ ctx' = "connecting" /\ inited' = FALSE /\ busy' = FALSE
  /\ opQueue' = << >> /\ holder' = NoSession
  /\ inv' = [state |-> "INITIAL", initial |-> TRUE, count |-> 0]
  /\ ops' = [i \in OpIds |-> NoSeq]
  /\ evq' = << >> /\ pc' = "loop"
  /\ container_ready' = FALSE /\ proc' = "running" /\ clears' = 0
  /\ wire' = << >> /\ sock' = << >> /\ multi' = NoMulti
  /\ spc' = [s \in Sessions |-> "idle"] /\ idx' = [s \in Sessions |-> 1]
  /\ over' = [s \in Sessions |-> {}] /\ taken' = [s \in Sessions |-> {}]
  /\ handlers' = [s \in Sessions |-> "none"]
  /\ hlock' = "free" /\ rpc' = "idle" /\ rpc_reply' = "none"
  /\ UNCHANGED <<exists, field, drops, errors, invalidations>>

SessionThread(s) ==
  \/ GetStart(s) \/ CheckValue(s) \/ CheckFailed(s)
  \/ GetGranted(s) \/ GetEmplace(s) \/ GetBusy(s) \/ SessionPut(s)

Invalidate ==
  \/ InvalidateUnready \/ InvalidateHandlers \/ InvalidateSequence
  \/ InvalidateReset \/ InvalidateAnswer

Client == RedisThread /\ UNCHANGED ctlVars
Redis_ == ServerStep /\ UNCHANGED ctlVars
Fault  == (ServerFault \/ OnDisconnect \/ ConnectFailed) /\ UNCHANGED ctlVars

Next ==
  \/ Client \/ Redis_ \/ Fault
  \/ \E s \in Sessions : SessionThread(s) \/ RpcPut(s)
  \/ ThreadResumed \/ Invalidate \/ Restart

Spec == Init /\ [][Next]_vars

(* The redis thread, the server and the session threads keep going; the    *)
(* process is restarted.  Nothing is assumed of faults and RPCs.           *)
Fairness ==
  /\ WF_vars(Client) /\ WF_vars(Redis_) /\ WF_vars(ThreadResumed) /\ WF_vars(Restart)
  /\ \A s \in Sessions : WF_vars(SessionThread(s))

FairSpec == Spec /\ Fairness

-----------------------------------------------------------------------------
TypeOK ==
  /\ RedisTypeOK
  /\ ConnTypeOK
  /\ spc \in [Sessions -> {"idle", "check", "emplace", "hold", "refused", "done"}]
  /\ idx \in [Sessions -> Nat]
  /\ over \in [Sessions -> SUBSET Nat]
  /\ taken \in [Sessions -> SUBSET Nat]
  /\ \A s \in Sessions : taken[s] \subseteq 1..Size(s)
  /\ handlers \in [Sessions -> {"none", "valid", "invalid"}]
  /\ hlock \in {"free", "put", "rpc"}
  /\ rpc \in {"idle", "mark", "start", "set", "wait"}
  /\ rpc_reply \in {"none", "success", "timeout"}
  /\ invalidations \in Nat /\ restarts \in Nat

(* Operations of session s on resource k that redis has not executed: those *)
(* postponed, and those of a sequence whose EXEC has no positive answer.   *)
Places(list, o, s, k) == {j \in DOMAIN list : list[j] = [op |-> o, s |-> s, k |-> k]}

Executed(i) ==
  \E r \in Range(sock) \cup Range(evq) : r.t = "rep" /\ r.seq = i /\ r.kind = "array"

Unexecuted(o, s, k) ==
  Cardinality(Places(opQueue, o, s, k))
    + Cardinality(UNION {{i} \X Places(ops[i].list, o, s, k) : i \in {n \in OpIds : ~Executed(n)}})

(* How often session s holds resource k, as far as this process knows.     *)
Held(s, k) ==
  IF spc[s] = "emplace" \/ handlers[s] = "valid"
    THEN Cardinality({i \in taken[s] : Need[s].key[i] = k}) ELSE 0

(* Accounting: once the counters were cleared at start, and until they are *)
(* cleared again, what redis counts for a session plus what is still under *)
(* way to redis is what the session holds; nothing is lost, doubled or     *)
(* forgotten between the threads, the postponed queue, the transactions    *)
(* and the reconnects.                                                     *)
Conservation ==
  clears = 1 /\ inited /\ proc = "running" =>
    \A s \in Sessions, k \in Keys :
      field[k][s] + Unexecuted("get", s, k) - Unexecuted("put", s, k) = Held(s, k)

(* A handler is released at most once, whether the session or an RPC puts  *)
(* it: a release under way means the handler left the table.               *)
ReleaseOnce ==
  \A s \in Sessions, k \in Keys :
    LET n == Unexecuted("put", s, k)
    IN  /\ n <= Cardinality({i \in taken[s] : Need[s].key[i] = k})
        /\ n > 0 => handlers[s] = "none"

(* user_data: a sequence object is alive as long as a request or a reply   *)
(* refers to it (process_reply_event deletes it on the last one).          *)
UserDataAlive ==
  \A r \in Range(wire) \cup Range(sock) \cup Range(evq) :
    r.seq \in OpIds => ops[r.seq].state # "NONE"

(* MULTI isolation: the commands of two sequences are never on the write   *)
(* connection at the same time, so no sequence enters another one's        *)
(* transaction, and a disconnect on error never waits for foreign replies. *)
(* (Not so when an RPC invalidation tests write_async_is_busy while a      *)
(* thread is between posting MULTI and setting it.)                        *)
ExclusiveConnection ==
  /\ \A q, r \in Range(wire) \cup Range(sock) : q.seq = r.seq
  /\ ctx # "closing"

(* write_async_is_busy keeps operation sequences apart although the redis  *)
(* thread resets it without the mutex: at most one is under way, on a live *)
(* connection it is announced by the flag or by the thread that is about   *)
(* to set it, and none is under way on a connection being closed.          *)
OneOperationAtATime ==
  LET underway == {i \in OpIds : ops[i].state # "NONE"}
  IN  /\ \A i, j \in underway : i = j
      /\ underway # {} /\ IsConnected => ctx = "open" /\ (busy \/ holder # NoSession)

(* "guarded by queue_and_state_mutex" (ResourceRedisConnection.h:28): set  *)
(* only while an operation sequence is under way.  The redis thread resets *)
(* the flag outside the mutex, so a preempted thread may set it after the  *)
(* last reply was processed: false where Preemption is TRUE, and no run    *)
(* claims it.                                                              *)
BusyMeansInFlight ==
  busy /\ proc = "running" => \E i \in OpIds : ops[i].state # "NONE"

(* While an RPC invalidation holds handlers_lock no handler is valid, so   *)
(* no release is sent for counters that are being cleared.                 *)
NoReleaseWhileInvalidating ==
  rpc \in {"start", "set", "wait"} => \A s \in Sessions : handlers[s] # "valid"

(* Invalidation is complete: at the moment resources_inited becomes true   *)
(* every counter of this node is zero, whatever was interrupted before.    *)
InitedAfterReset ==
  [][~inited /\ inited' => \A k \in Keys, s \in Sessions : field[k][s] = 0]_vars

(* However resets, errors, restarts and releases interleave, a session's   *)
(* share of a counter stays within one unit of its list.                   *)
ShareBounded ==
  \A k \in Keys, s \in Sessions : field[k][s] \in -1..1

(* Postponed operations are not forgotten: they are sent eventually, or    *)
(* the process goes down (and the next one starts from cleared counters).  *)
QueueDrained == (opQueue # << >>) ~> (opQueue = << >>)

(* "on error have to reset the connection and invalidate resources": after *)
(* any error or disconnect the counters are cleared again and operations   *)
(* resume, or the process stops ("failed to init resources. stop").        *)
ReinitCompletes == ~inited ~> (inited \/ proc # "running")

(* The RPC's promise: it answers success when the resources were           *)
(* initialised again, and then sessions can get resources.                 *)
SuccessMeansReady == rpc_reply = "success" => container_ready

(* Error handling never kills the process: "on error have to reset the     *)
(* connection and invalidate resources".                                   *)
NeverCrashes == proc # "crashed"

-----------------------------------------------------------------------------
(* Refinement mapping to the ledger: a session's account is what redis     *)
(* counts for it together with what is still under way.                    *)
Account ==
  [k \in Keys |-> [s \in Sessions |->
     IF clears = 0 THEN 0
     ELSE field[k][s] + Unexecuted("get", s, k) - Unexecuted("put", s, k)]]

Live ==
  [s \in Sessions |->
     IF spc[s] \in {"idle", "check"} THEN "new"
     ELSE IF spc[s] = "emplace" \/ handlers[s] = "valid" THEN "holding" ELSE "closed"]

Ledger == INSTANCE ResourceLedger WITH acct <- Account, live <- Live

(* ResourceControl implements the ledger: every step books one resource of *)
(* each group for one call, cancels one call's booking, or changes no      *)
(* account, although the operations pass through queue, events and MULTI.  *)
ImplementsLedger == Ledger!Spec
=============================================================================
