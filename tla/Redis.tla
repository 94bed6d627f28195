-------------------------------- MODULE Redis --------------------------------
(***************************************************************************)
(* The redis server at the other end of the write connection, as the       *)
(* resource sequences use it: KEYS, MULTI, HSET, HINCRBY, EXEC.  External  *)
(* to the repository; modelled from the replies the sequences rely on.     *)
(*                                                                         *)
(* Only the hash field of this node (AmConfig.node_id) is kept, and it is  *)
(* kept per session: field[k][s] is what session s contributed to the      *)
(* counter of resource k.  The stored number is the sum over s.  `takes`   *)
(* is one unit: every command is linear in it.                             *)
(***************************************************************************)
EXTENDS Integers, Sequences, FiniteSetsExt

CONSTANTS
  Sessions,               \* call sessions (one resource list each)
  Keys,                   \* resources "r:<type>:<id>"
  NoKey, NoSession,       \* the argument of a command that has none
  MaxOps                  \* bound: OperationResources objects alive at once

ASSUME RedisAssumption ==
  /\ IsFiniteSet(Keys) /\ IsFiniteSet(Sessions)
  /\ NoKey \notin Keys /\ NoSession \notin Sessions
  /\ MaxOps \in Nat \ {0}

VARIABLES
  wire,                   \* commands sent, not executed yet
  sock,                   \* replies produced, not read yet
  multi,                  \* transaction state of the connection
  exists,                 \* keys present in the database
  field                   \* this node's counters, per key and session

redisVars == <<wire, sock, multi, exists, field>>

OpIds  == 1..MaxOps
InvId  == 0                       \* user_data of inv_seq
SeqIds == {InvId} \cup OpIds

Commands == {"KEYS", "MULTI", "HSET", "HINCRBY", "EXEC"}
Results  == {"Status", "Success", "Error", "IOError", "NotConnected"}

(* A RedisRequestEvent; d is the increment of HINCRBY.                     *)
Request == [t : {"req"}, seq : SeqIds, cmd : Commands,
            k : Keys \cup {NoKey}, s : Sessions \cup {NoSession}, d : {-1, 0, 1}]

(* A RedisReplyEvent; `kind` is the type of its data.                      *)
Reply == [t : {"rep"}, seq : SeqIds, res : Results,
          kind : {"none", "int", "array", "keys"}, keys : SUBSET Keys]

Req(id, c) == [t |-> "req", seq |-> id, cmd |-> c, k |-> NoKey, s |-> NoSession, d |-> 0]
HSet(id, key) == [Req(id, "HSET") EXCEPT !.k = key]
HIncrBy(id, key, ss, n) == [Req(id, "HINCRBY") EXCEPT !.k = key, !.s = ss, !.d = n]

Rep(id, r, kd, ks) == [t |-> "rep", seq |-> id, res |-> r, kind |-> kd, keys |-> ks]

NoMulti == [open |-> FALSE, bad |-> FALSE, q |-> << >>]

RedisInit ==
  /\ wire = << >>
  /\ sock = << >>
  /\ multi = NoMulti
  /\ exists \in SUBSET Keys
  /\ field \in [Keys -> [Sessions -> {0, 1}]]      \* left by an earlier run
  /\ \A k \in Keys \ exists : field[k] = [s \in Sessions |-> 0]

-----------------------------------------------------------------------------
(* Execution of a sequence of commands: an HSET discards what was there, an *)
(* HINCRBY after it adds to the session's share.                            *)
Zeroed(q, k) == {i \in DOMAIN q : q[i].cmd = "HSET" /\ q[i].k = k}

Increments(q, k, s, n) ==
  {i \in DOMAIN q : /\ q[i].cmd = "HINCRBY" /\ q[i].k = k /\ q[i].s = s /\ q[i].d = n
                    /\ \A j \in Zeroed(q, k) : j < i}

Apply(q) ==
  /\ field' = [k \in Keys |-> [s \in Sessions |->
       (IF Zeroed(q, k) = {} THEN field[k][s] ELSE 0)
         + Cardinality(Increments(q, k, s, 1)) - Cardinality(Increments(q, k, s, -1))]]
  /\ exists' = exists \cup {k \in Keys : \E i \in DOMAIN q : q[i].k = k}

(* The number stored for this node, what HVALS returns.                    *)
Counter(k) == MapThenSumSet(LAMBDA s : field[k][s], Sessions)

Respond(r) == wire' = Tail(wire) /\ sock' = Append(sock, r)

ServerMulti ==
  /\ wire # << >> /\ Head(wire).cmd = "MULTI"
  /\ IF multi.open
       THEN /\ Respond(Rep(Head(wire).seq, "Error", "none", {}))     \* nested
            /\ UNCHANGED multi
       ELSE /\ Respond(Rep(Head(wire).seq, "Status", "none", {}))
            /\ multi' = [NoMulti EXCEPT !.open = TRUE]
  /\ UNCHANGED <<exists, field>>

ServerQueue ==
  /\ wire # << >> /\ Head(wire).cmd \in {"KEYS", "HSET", "HINCRBY"}
  /\ multi.open
  /\ multi' = [multi EXCEPT !.q = Append(@, Head(wire))]
  /\ Respond(Rep(Head(wire).seq, "Status", "none", {}))
  /\ UNCHANGED <<exists, field>>

ServerKeys ==
  /\ wire # << >> /\ Head(wire).cmd = "KEYS"
  /\ ~multi.open
  /\ Respond(Rep(Head(wire).seq, "Success", "keys", exists))
  /\ UNCHANGED <<multi, exists, field>>

ServerDirect ==
  /\ wire # << >> /\ Head(wire).cmd \in {"HSET", "HINCRBY"}
  /\ ~multi.open
  /\ Apply(<<Head(wire)>>)
  /\ Respond(Rep(Head(wire).seq, "Success", "int", {}))
  /\ UNCHANGED multi

ServerExec ==
  /\ wire # << >> /\ Head(wire).cmd = "EXEC"
  /\ multi' = NoMulti
  /\ IF multi.open /\ ~multi.bad
       THEN /\ Apply(multi.q)
            /\ Respond(Rep(Head(wire).seq, "Success", "array", {}))
       ELSE /\ Respond(Rep(Head(wire).seq, "Error", "none", {}))
            /\ UNCHANGED <<exists, field>>

(* Any command may be refused (-LOADING, -OOM, -READONLY, -MISCONF): a      *)
(* refused MULTI opens nothing, a refused command spoils its transaction,   *)
(* a refused EXEC discards it.                                              *)
ServerRefuse ==
  /\ wire # << >>
  /\ Respond(Rep(Head(wire).seq, "Error", "none", {}))
  /\ multi' = IF Head(wire).cmd = "EXEC" THEN NoMulti
              ELSE IF multi.open THEN [multi EXCEPT !.bad = TRUE] ELSE multi
  /\ UNCHANGED <<exists, field>>

Server == ServerMulti \/ ServerQueue \/ ServerKeys \/ ServerDirect \/ ServerExec

RedisTypeOK ==
  /\ wire \in Seq(Request)
  /\ sock \in Seq(Reply)
  /\ multi \in [open : BOOLEAN, bad : BOOLEAN, q : Seq(Request)]
  /\ exists \in SUBSET Keys
  /\ field \in [Keys -> [Sessions -> Int]]
=============================================================================
