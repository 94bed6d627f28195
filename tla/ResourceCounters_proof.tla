----------------------- MODULE ResourceCounters_proof -----------------------
(***************************************************************************)
(* Theorems about what redis counts: resources_inited is set only when     *)
(* every counter of this node is zero, whatever commands were refused and  *)
(* connections lost on the way; and from then on what redis counts for a   *)
(* session, with what is on its way there, is what the session holds, so   *)
(* that the program implements the ledger.                                 *)
(***************************************************************************)
EXTENDS ResourceControl_proof, WellFoundedInduction

(* Key k has a counter that is not zero; none has.                         *)
Counts(f, k) == \E s \in Sessions : f[k][s] # 0
AllZero(f)   == \A k \in Keys, s \in Sessions : f[k][s] = 0

(* What KEYS answers is enough to clear everything.                        *)
KeyExists == \A k \in Keys : Counts(field, k) => k \in exists

(* q holds an HSET of the counter of k.                                    *)
Zeroes(q, k) == \E j \in DOMAIN q : q[j].cmd = "HSET" /\ q[j].k = k

(* The sequence as a pipeline: `done' are its answers in order, `todo' the *)
(* requests redis has not executed, m the transaction, f the counters.     *)

(* KEYS is under way, or answered, outside of a transaction.               *)
Asking(done, todo, m, f) ==
  \/ done = << >> /\ todo = <<Req(InvId, "KEYS")>>
  \/ /\ todo = << >>
     /\ \E r \in Reply : /\ done = <<r>>
                         /\ r.kind = "keys" => /\ ~m.open
                                               /\ \A k \in Keys : Counts(f, k) => k \in r.keys

(* MULTI, one HSET per key, EXEC: as long as the transaction can succeed,  *)
(* every counter that is not zero is about to be cleared.                  *)
Planned(todo, m, f) ==
  /\ todo[Len(todo)].cmd = "EXEC"
  /\ \A j \in 1..(Len(todo) - 1) : todo[j].cmd = "HSET" \/ (j = 1 /\ todo[j].cmd = "MULTI")
  /\ todo[1].cmd = "MULTI" => ~m.open /\ \A k \in Keys : Counts(f, k) => Zeroes(todo, k)
  /\ todo[1].cmd # "MULTI" /\ m.open /\ ~m.bad =>
       /\ \A j \in DOMAIN m.q : m.q[j].cmd = "HSET"
       /\ \A k \in Keys : Counts(f, k) => Zeroes(m.q, k) \/ Zeroes(todo, k)

(* Once EXEC was executed or refused, the last answer is its answer.       *)
Clearing(done, todo, m, f) ==
  IF todo = << >>
    THEN ~m.open /\ (done # << >> /\ done[Len(done)].res = "Success" => AllZero(f))
    ELSE Planned(todo, m, f)

Stage(st, done, todo, m, f) ==
  /\ st = "GET_KEYS" => Asking(done, todo, m, f)
  /\ st = "CLEAN_RES" => Clearing(done, todo, m, f)

(* Requests wait in the event queue before replies, so that the answers    *)
(* are in the queue, then in the socket; the requests on the wire, then in *)
(* the queue.                                                              *)
Staged ==
  \E rq \in Seq(Request), rp \in Seq(Reply) :
    evq = rq \o rp /\ Stage(inv.state, rp \o sock, wire \o rq, multi, field)

(* The inductive invariant of the invalidation.                            *)
ResetInv ==
  /\ KeyExists
  /\ ctx # "open" => ~multi.open
  /\ Outstanding(InvId) > 0 => Staged

-----------------------------------------------------------------------------
(* What the server does.                                                   *)

(* Cardinalities of increments, where there are none.                      *)
LEMMA OnlyHSets ==
  ASSUME NEW q \in Seq(Request), \A j \in DOMAIN q : q[j].cmd = "HSET", Apply(q), TypeOK,
         NEW k \in Keys, NEW s \in Sessions
  PROVE  field'[k][s] = IF Zeroes(q, k) THEN 0 ELSE field[k][s]
<1>1. \A n : Increments(q, k, s, n) = {}
  BY DEF Increments
<1>2. Cardinality({}) = 0
  BY FS_EmptySet
<1>3. Zeroed(q, k) = {} <=> ~Zeroes(q, k)
  BY DEF Zeroed, Zeroes
<1>4. field'[k][s] = (IF Zeroed(q, k) = {} THEN field[k][s] ELSE 0)
         + Cardinality(Increments(q, k, s, 1)) - Cardinality(Increments(q, k, s, -1))
  BY DEF Apply
<1>5. field[k][s] \in Int
  BY DEF TypeOK, RedisTypeOK
<1>6. Cardinality(Increments(q, k, s, 1)) = 0 /\ Cardinality(Increments(q, k, s, -1)) = 0
  BY <1>1, <1>2
<1> QED
  BY ONLY <1>3, <1>4, <1>5, <1>6

(* A counter that is not zero belongs to a key that exists.                *)
LEMMA ApplyExists ==
  ASSUME TypeOK, KeyExists, NEW q \in Seq(Request), Apply(q)
  PROVE  KeyExists'
<1> SUFFICES ASSUME NEW k \in Keys, NEW s \in Sessions, field'[k][s] # 0
             PROVE  k \in exists'
  BY DEF KeyExists, Counts
<1>1. exists' = exists \cup {x \in Keys : \E i \in DOMAIN q : q[i].k = x}
  BY DEF Apply
<1>2. CASE \E i \in DOMAIN q : q[i].k = k
  BY <1>1, <1>2
<1>3. CASE ~\E i \in DOMAIN q : q[i].k = k
  <2>1. \A n : Increments(q, k, s, n) = {}
    BY <1>3 DEF Increments
  <2>2. Zeroed(q, k) = {}
    BY <1>3 DEF Zeroed
  <2>3. Cardinality({}) = 0
    BY FS_EmptySet
  <2>4. field'[k][s] = (IF Zeroed(q, k) = {} THEN field[k][s] ELSE 0)
         + Cardinality(Increments(q, k, s, 1)) - Cardinality(Increments(q, k, s, -1))
    BY DEF Apply
  <2>5. field[k][s] \in Int
    BY DEF TypeOK, RedisTypeOK
  <2>8. Cardinality(Increments(q, k, s, 1)) = 0 /\ Cardinality(Increments(q, k, s, -1)) = 0
    BY <2>1, <2>3
  <2>6. field'[k][s] = field[k][s]
    BY ONLY <2>2, <2>4, <2>5, <2>8
  <2>7. k \in exists
    BY <2>6 DEF KeyExists, Counts
  <2> QED
    BY <1>1, <2>7
<1> QED
  BY <1>2, <1>3

LEMMA ServerExists ==
  ASSUME TypeOK, KeyExists, Server \/ ServerRefuse
  PROVE  KeyExists'
<1>0. ASSUME UNCHANGED <<exists, field>> PROVE KeyExists'
  BY <1>0 DEF KeyExists, Counts
<1>1. CASE ServerDirect
  <2>1. wire # << >> /\ Apply(<<Head(wire)>>)
    BY <1>1 DEF ServerDirect
  <2>2. <<Head(wire)>> \in Seq(Request)
    BY <2>1 DEF TypeOK, RedisTypeOK
  <2> QED
    BY <2>1, <2>2, ApplyExists
<1>2. CASE ServerExec
  <2>1. multi.q \in Seq(Request)
    BY DEF TypeOK, RedisTypeOK
  <2>2. Apply(multi.q) \/ UNCHANGED <<exists, field>>
    BY <1>2 DEF ServerExec
  <2> QED
    BY <1>0, <2>1, <2>2, ApplyExists
<1>3. CASE ServerMulti \/ ServerQueue \/ ServerKeys \/ ServerRefuse
  BY <1>0, <1>3 DEF ServerMulti, ServerQueue, ServerKeys, ServerRefuse
<1> QED
  BY <1>1, <1>2, <1>3 DEF Server

(* An answer to KEYS.                                                      *)
LEMMA KeysAnswered ==
  ASSUME TypeOK, KeyExists, Server \/ ServerRefuse, Head(wire) = Req(InvId, "KEYS")
  PROVE  \E r \in Reply : /\ wire' = Tail(wire) /\ sock' = Append(sock, r)
                          /\ Asking(<<r>>, << >>, multi', field')
<1>1. Head(wire).cmd = "KEYS" /\ Head(wire).seq = InvId /\ InvId \in SeqIds
  BY IdFacts DEF Req
<1>2. exists \in SUBSET Keys
  BY DEF TypeOK, RedisTypeOK
<1>3. ASSUME NEW e \in Results, Respond(Rep(InvId, e, "none", {}))
      PROVE  \E r \in Reply : /\ wire' = Tail(wire) /\ sock' = Append(sock, r)
                              /\ Asking(<<r>>, << >>, multi', field')
  <2>1. PICK r : r = Rep(InvId, e, "none", {})
    OBVIOUS
  <2>2. r \in Reply /\ r.kind = "none"
    BY <1>1, <2>1, EventTypes DEF Rep
  <2> QED
    BY <1>3, <2>1, <2>2 DEF Respond, Asking
<1>4. CASE ServerKeys
  <2>1. PICK r : r = Rep(InvId, "Success", "keys", exists)
    OBVIOUS
  <2>2. r \in Reply /\ r.kind = "keys" /\ r.keys = exists
    BY <1>1, <1>2, <2>1, EventTypes DEF Rep, Results
  <2>3. ~multi.open /\ UNCHANGED <<multi, field>> /\ Respond(r)
    BY <1>1, <1>4, <2>1 DEF ServerKeys
  <2>4. Asking(<<r>>, << >>, multi', field')
    BY <2>2, <2>3 DEF Asking, KeyExists
  <2> QED
    BY <2>2, <2>3, <2>4 DEF Respond
<1>5. CASE ServerQueue \/ ServerRefuse
  <2>1. Respond(Rep(InvId, "Status", "none", {})) \/ Respond(Rep(InvId, "Error", "none", {}))
    BY <1>1, <1>5 DEF ServerQueue, ServerRefuse
  <2> QED
    BY <1>3, <2>1 DEF Results
<1> QED
  BY <1>1, <1>4, <1>5 DEF Server, ServerMulti, ServerDirect, ServerExec

(* What is left of a plan after its first command.                         *)
LEMMA PlanTail ==
  ASSUME NEW todo \in Seq(Request), todo # << >>, todo[Len(todo)].cmd = "EXEC",
         \A j \in 1..(Len(todo) - 1) : todo[j].cmd = "HSET" \/ (j = 1 /\ todo[j].cmd = "MULTI")
  PROVE  /\ Head(todo) = todo[1] /\ Tail(todo) \in Seq(Request)
         /\ todo[1].cmd = "EXEC" <=> Tail(todo) = << >>
         /\ Tail(todo) # << >> =>
              /\ todo[1].cmd \in {"HSET", "MULTI"}
              /\ Tail(todo)[Len(Tail(todo))].cmd = "EXEC" /\ Tail(todo)[1].cmd # "MULTI"
              /\ \A j \in 1..(Len(Tail(todo)) - 1) : Tail(todo)[j].cmd = "HSET"
         /\ \A k : Zeroes(todo, k) => \/ todo[1].cmd = "HSET" /\ todo[1].k = k
                                      \/ Zeroes(Tail(todo), k)
<1>1. PICK n \in Nat : n = Len(todo) /\ n > 0
  OBVIOUS
<1>2. Head(todo) = todo[1] /\ Tail(todo) \in Seq(Request) /\ Len(Tail(todo)) = n - 1
      /\ \A j \in 1..(n - 1) : Tail(todo)[j] = todo[j + 1]
  BY <1>1
<1>3. todo[1].cmd = "EXEC" <=> n = 1
  BY <1>1
<1>4. Tail(todo) = << >> <=> n = 1
  <2>1. PICK t \in Seq(Request) : t = Tail(todo) /\ Len(t) = n - 1
    BY <1>2
  <2>2. t = << >> <=> Len(t) = 0
    BY EmptySeq
  <2> QED
    BY ONLY <1>1, <2>1, <2>2
<1>5. ASSUME n # 1
      PROVE  /\ todo[1].cmd \in {"HSET", "MULTI"}
             /\ Tail(todo)[n - 1].cmd = "EXEC" /\ Tail(todo)[1].cmd # "MULTI"
             /\ \A j \in 1..(n - 2) : Tail(todo)[j].cmd = "HSET"
  <2>1. 1 \in 1..(n - 1) /\ n - 1 \in 1..(n - 1)
    BY <1>1, <1>5
  <2>2. Tail(todo)[n - 1] = todo[n] /\ Tail(todo)[1] = todo[2]
    BY <1>1, <1>2, <2>1
  <2>3. \A j \in 1..(n - 2) : Tail(todo)[j].cmd = "HSET"
    <3> SUFFICES ASSUME NEW j \in 1..(n - 2) PROVE Tail(todo)[j].cmd = "HSET"
      OBVIOUS
    <3>1. j + 1 \in 1..(n - 1) /\ j + 1 # 1 /\ j \in 1..(n - 1)
      BY <1>1
    <3> QED
      BY <1>1, <1>2, <3>1
  <2>4. todo[2].cmd # "MULTI"
    <3>1. CASE n = 2
      BY <1>1, <3>1
    <3>2. CASE n # 2
      <4>1. 2 \in 1..(n - 1) /\ 2 # 1
        BY <1>1, <1>5, <3>2
      <4> QED
        BY <1>1, <4>1
    <3> QED
      BY <3>1, <3>2
  <2> QED
    BY <1>1, <2>1, <2>2, <2>3, <2>4
<1>6. ASSUME NEW k, Zeroes(todo, k), ~(todo[1].cmd = "HSET" /\ todo[1].k = k)
      PROVE  Zeroes(Tail(todo), k)
  <2>1. PICK j \in DOMAIN todo : todo[j].cmd = "HSET" /\ todo[j].k = k
    BY <1>6 DEF Zeroes
  <2>2. j \in 2..n
    BY <1>1, <1>6, <2>1
  <2>3. j - 1 \in 1..(n - 1) /\ (j - 1) + 1 = j
    BY <1>1, <2>2
  <2>4. j - 1 \in DOMAIN Tail(todo) /\ Tail(todo)[j - 1] = todo[j]
    BY <1>1, <1>2, <2>3
  <2> QED
    BY <2>1, <2>4 DEF Zeroes
<1> QED
  BY <1>1, <1>2, <1>3, <1>4, <1>5, <1>6


(* The server executes or refuses the next command of a plan.              *)
LEMMA PlanAnswered ==
  ASSUME TypeOK, Server \/ ServerRefuse, NEW done \in Seq(Reply), NEW todo \in Seq(Request),
         todo # << >>, Head(wire) = Head(todo), Planned(todo, multi, field)
  PROVE  \E r \in Reply : /\ wire' = Tail(wire) /\ sock' = Append(sock, r)
                          /\ Clearing(Append(done, r), Tail(todo), multi', field')
<1>1. PICK h, t : h = Head(todo) /\ t = Tail(todo)
  OBVIOUS
<1>2. /\ h = todo[1] /\ h = Head(wire)
      /\ h.cmd = "EXEC" <=> t = << >>
      /\ t # << >> => /\ h.cmd \in {"HSET", "MULTI"} /\ t[Len(t)].cmd = "EXEC" /\ t[1].cmd # "MULTI"
                      /\ \A j \in 1..(Len(t) - 1) : t[j].cmd = "HSET"
      /\ \A k : Zeroes(todo, k) => (h.cmd = "HSET" /\ h.k = k) \/ Zeroes(t, k)
  BY <1>1, PlanTail DEF Planned
<1>3. h.cmd \in {"HSET", "MULTI", "EXEC"} /\ h.seq \in SeqIds
  <2>1. h \in Request
    BY <1>1
  <2> QED
    BY <1>2, <2>1, RequestSeq
<1>4. /\ h.cmd = "MULTI" => ~multi.open /\ \A k \in Keys : Counts(field, k) => Zeroes(todo, k)
      /\ h.cmd # "MULTI" /\ multi.open /\ ~multi.bad =>
           /\ \A j \in DOMAIN multi.q : multi.q[j].cmd = "HSET"
           /\ \A k \in Keys : Counts(field, k) => Zeroes(multi.q, k) \/ Zeroes(todo, k)
  BY <1>2 DEF Planned
<1>5. multi.q \in Seq(Request) /\ multi \in MultiType
  BY DEF TypeOK, RedisTypeOK, MultiType
<1>6. ASSUME t # << >>,
             multi'.open /\ ~multi'.bad =>
               /\ \A j \in DOMAIN multi'.q : multi'.q[j].cmd = "HSET"
               /\ \A k \in Keys : Counts(field', k) => Zeroes(multi'.q, k) \/ Zeroes(t, k),
             NEW r
      PROVE  Clearing(Append(done, r), t, multi', field')
  BY <1>2, <1>6 DEF Clearing, Planned
<1>7. ASSUME t = << >>, ~multi'.open, NEW r \in Reply, r.res # "Success" \/ AllZero(field')
      PROVE  Clearing(Append(done, r), t, multi', field')
  <2>1. Append(done, r)[Len(Append(done, r))] = r
    BY <1>7
  <2> QED
    BY <1>7, <2>1 DEF Clearing
<1>8. ASSUME NEW e \in Results, NEW kd \in {"none", "int", "array", "keys"},
             Respond(Rep(h.seq, e, kd, {}))
      PROVE  \E r \in Reply : r.res = e /\ wire' = Tail(wire) /\ sock' = Append(sock, r)
  <2>1. PICK r : r = Rep(h.seq, e, kd, {})
    OBVIOUS
  <2>2. r \in Reply /\ r.res = e
    BY <1>3, <2>1, EventTypes DEF Rep
  <2> QED
    BY <1>8, <2>1, <2>2 DEF Respond
<1>9. \E e \in {"Status", "Success", "Error"}, kd \in {"none", "int", "array"} :
        Respond(Rep(h.seq, e, kd, {}))
  BY <1>2, <1>3 DEF Server, ServerMulti, ServerQueue, ServerKeys, ServerDirect, ServerExec, ServerRefuse
<1>10. CASE h.cmd = "MULTI"
  <2>1. t # << >> /\ ~multi.open
    BY <1>2, <1>4, <1>10
  <2>2. \/ multi' = [NoMulti EXCEPT !.open = TRUE] /\ UNCHANGED field
        \/ multi' = multi /\ UNCHANGED field
    BY <1>2, <1>10, <2>1 DEF Server, ServerMulti, ServerQueue, ServerKeys, ServerDirect, ServerExec,
       ServerRefuse
  <2>3. \A k \in Keys : Counts(field, k) => Zeroes(t, k)
    BY <1>2, <1>4, <1>10
  <2>4. CASE multi' = multi
    BY <1>6, <1>8, <1>9, <1>1, <2>1, <2>4 DEF Results
  <2>5. CASE multi' = [NoMulti EXCEPT !.open = TRUE] /\ UNCHANGED field
    <3>1. multi'.q = << >>
      BY <2>5 DEF NoMulti
    <3>2. \A j \in DOMAIN multi'.q : multi'.q[j].cmd = "HSET"
      BY <3>1
    <3> QED
      BY <1>1, <1>6, <1>8, <1>9, <2>1, <2>3, <2>5, <3>2 DEF Results
  <2> QED
    BY <2>2, <2>4, <2>5
<1>11. CASE h.cmd = "HSET"
  <2>1. t # << >>
    BY <1>2, <1>11
  <2>2. \/ multi.open /\ multi' = [multi EXCEPT !.q = Append(@, h)] /\ UNCHANGED field
        \/ multi.open /\ multi' = [multi EXCEPT !.bad = TRUE]
        \/ ~multi.open /\ multi' = multi
    BY <1>2, <1>11 DEF Server, ServerMulti, ServerQueue, ServerKeys, ServerDirect, ServerExec,
       ServerRefuse
  <2>3. CASE ~(multi'.open /\ ~multi'.bad)
    BY <1>1, <1>6, <1>8, <1>9, <2>1, <2>3 DEF Results
  <2>4. CASE /\ multi.open /\ multi' = [multi EXCEPT !.q = Append(@, h)] /\ UNCHANGED field
             /\ multi'.open /\ ~multi'.bad
    <3>1. PICK q \in Seq(Request) : q = multi.q
      BY <1>5
    <3>2. multi'.q = Append(q, h) /\ ~multi.bad
      BY <1>5, <2>4, <3>1 DEF MultiType
    <3>3. \A j \in DOMAIN q : q[j].cmd = "HSET"
      BY <1>4, <1>11, <2>4, <3>1, <3>2
    <3>4. \A j \in DOMAIN Append(q, h) : Append(q, h)[j].cmd = "HSET"
      BY <1>11, <3>3
    <3>5. \A k : Zeroes(q, k) => Zeroes(Append(q, h), k)
      BY DEF Zeroes
    <3>6. Zeroes(Append(q, h), h.k)
      <4>1. /\ Len(q) + 1 \in DOMAIN Append(q, h) /\ Append(q, h)[Len(q) + 1] = h
        OBVIOUS
      <4> QED
        BY <1>11, <4>1 DEF Zeroes
    <3>7. \A k \in Keys : Counts(field', k) => Zeroes(multi'.q, k) \/ Zeroes(t, k)
      BY <1>2, <1>4, <1>11, <2>4, <3>1, <3>2, <3>5, <3>6
    <3>8. \A j \in DOMAIN multi'.q : multi'.q[j].cmd = "HSET"
      BY <3>2, <3>4
    <3> QED
      BY <1>1, <1>6, <1>8, <1>9, <2>1, <3>7, <3>8 DEF Results
  <2>5. CASE multi.open /\ multi' = [multi EXCEPT !.bad = TRUE]
    <3>1. multi'.bad
      BY <1>5, <2>5 DEF MultiType
    <3> QED
      BY <2>3, <3>1
  <2> QED
    BY <2>2, <2>3, <2>4, <2>5
<1>12. CASE h.cmd = "EXEC"
  <2>1. t = << >>
    BY <1>2, <1>12
  <2>0. ~multi'.open
    BY <1>2, <1>12 DEF Server, ServerMulti, ServerQueue, ServerKeys, ServerDirect, ServerExec,
       ServerRefuse, NoMulti
  <2>2. CASE Respond(Rep(h.seq, "Error", "none", {}))
    <3>1. PICK r \in Reply : r.res = "Error" /\ wire' = Tail(wire) /\ sock' = Append(sock, r)
      BY <1>8, <2>2 DEF Results
    <3>2. Clearing(Append(done, r), t, multi', field')
      BY <1>7, <2>0, <2>1, <3>1
    <3> QED
      BY <1>1, <3>1, <3>2
  <2>3. CASE multi.open /\ ~multi.bad /\ Apply(multi.q)
    <3>1. \A k : ~Zeroes(todo, k)
      <4>1. \A k : ~Zeroes(t, k)
        BY <2>1 DEF Zeroes
      <4> QED
        BY <1>2, <1>12, <4>1
    <3>2. /\ \A j \in DOMAIN multi.q : multi.q[j].cmd = "HSET"
          /\ \A k \in Keys : Counts(field, k) => Zeroes(multi.q, k)
      BY <1>4, <1>12, <2>3, <3>1
    <3>3. \A k \in Keys, s \in Sessions :
            field'[k][s] = IF Zeroes(multi.q, k) THEN 0 ELSE field[k][s]
      BY <1>5, <2>3, <3>2, OnlyHSets
    <3>4. AllZero(field')
      BY <3>2, <3>3 DEF AllZero, Counts
    <3>5. PICK r \in Reply : wire' = Tail(wire) /\ sock' = Append(sock, r)
      BY <1>8, <1>9 DEF Results
    <3>6. Clearing(Append(done, r), t, multi', field')
      BY <1>7, <2>0, <2>1, <3>4
    <3> QED
      BY <1>1, <3>5, <3>6
  <2> QED
    BY <1>2, <1>12, <2>2, <2>3 DEF Server, ServerMulti, ServerQueue, ServerKeys, ServerDirect,
       ServerExec, ServerRefuse
<1> QED
  BY <1>3, <1>10, <1>11, <1>12

-----------------------------------------------------------------------------
(* Moving an element between two parts of a sequence.                      *)
LEMMA Shuffle ==
  ASSUME NEW T, NEW p \in Seq(T), NEW q \in Seq(T)
  PROVE  /\ p # << >> => Head(p \o q) = Head(p) /\ Tail(p \o q) = Tail(p) \o q /\ p \o q # << >>
         /\ q # << >> => Append(p, Head(q)) \o Tail(q) = p \o q
         /\ p \o q \in Seq(T)
<1>1. ASSUME p # << >>
      PROVE  Head(p \o q) = Head(p) /\ Tail(p \o q) = Tail(p) \o q /\ p \o q # << >>
  BY <1>1
<1>3. ASSUME q # << >> PROVE Append(p, Head(q)) \o Tail(q) = p \o q
  BY <1>3
<1>4. p \o q \in Seq(T)
  OBVIOUS
<1> QED
  BY <1>1, <1>3, <1>4

LEMMA AppendRight ==
  ASSUME NEW T, NEW p \in Seq(T), NEW q \in Seq(T), NEW r \in T
  PROVE  p \o Append(q, r) = Append(p \o q, r)
OBVIOUS

(* The two parts of the event queue.                                       *)
LEMMA QueueParts ==
  ASSUME TypeOK, NEW rq \in Seq(Request), NEW rp \in Seq(Reply), evq = rq \o rp
  PROVE  /\ rq \in Seq(Events) /\ rp \in Seq(Events)
         /\ wire \in Seq(Request) /\ sock \in Seq(Reply)
         /\ evq # << >> /\ Head(evq).t = "rep" => rq = << >> /\ rp = evq
         /\ evq # << >> /\ Head(evq).t = "req" =>
              /\ rq # << >> /\ Head(evq) = Head(rq) /\ Tail(evq) = Tail(rq) \o rp
<1>1. rq \in Seq(Events) /\ rp \in Seq(Events)
  BY SeqMonotonic DEF Events
<1>2. wire \in Seq(Request) /\ sock \in Seq(Reply)
  BY DEF TypeOK, RedisTypeOK
<1>3. CASE rq = << >>
  <2>1. evq = rp
    BY <1>3, ConcatEmptySeq
  <2>2. evq # << >> => Head(evq) \in Reply
    BY <2>1
  <2>3. evq # << >> => Head(evq).t = "rep"
    BY <2>2 DEF Reply
  <2> QED
    BY <1>1, <1>2, <1>3, <2>1, <2>3
<1>4. CASE rq # << >>
  <2>1. Head(evq) = Head(rq) /\ Tail(evq) = Tail(rq) \o rp /\ Head(rq) \in Request
    BY <1>1, <1>4, Shuffle
  <2>2. Head(evq).t = "req"
    BY <2>1 DEF Request
  <2> QED
    BY <1>1, <1>2, <1>4, <2>1, <2>2
<1> QED
  BY <1>3, <1>4

(* The server takes a command from the wire and appends its answer.        *)
LEMMA ServerStaged ==
  ASSUME TypeOK, KeyExists, Staged, Server \/ ServerRefuse, UNCHANGED <<evq, inv>>
  PROVE  Staged'
<1>1. PICK rq \in Seq(Request), rp \in Seq(Reply) :
        evq = rq \o rp /\ Stage(inv.state, rp \o sock, wire \o rq, multi, field)
  BY DEF Staged
<1>2. wire \in Seq(Request) /\ sock \in Seq(Reply) /\ wire # << >>
  BY <1>1, QueueParts DEF Server, ServerMulti, ServerQueue, ServerKeys, ServerDirect, ServerExec,
     ServerRefuse
<1>3. PICK done \in Seq(Reply), todo \in Seq(Request) : done = rp \o sock /\ todo = wire \o rq
  BY <1>2, Shuffle
<1>4. todo # << >> /\ Head(todo) = Head(wire) /\ Tail(todo) = Tail(wire) \o rq
  BY <1>2, <1>3, Shuffle
<1>5. ASSUME NEW r \in Reply, wire' = Tail(wire), sock' = Append(sock, r),
             Stage(inv.state, Append(done, r), Tail(todo), multi', field')
      PROVE  Staged'
  <2>1. rp \o sock' = Append(done, r) /\ wire' \o rq = Tail(todo)
    <3>1. rp \o Append(sock, r) = Append(rp \o sock, r)
      BY <1>2, AppendRight
    <3> QED
      BY <1>3, <1>4, <1>5, <3>1
  <2> QED
    BY <1>1, <1>5, <2>1 DEF Staged
<1>6. CASE inv.state = "GET_KEYS"
  <2>1. done = << >> /\ todo = <<Req(InvId, "KEYS")>>
    BY <1>1, <1>3, <1>4, <1>6 DEF Stage, Asking
  <2>2. Head(todo) = Req(InvId, "KEYS") /\ Tail(todo) = << >>
    BY <2>1
  <2>3. PICK r \in Reply : /\ wire' = Tail(wire) /\ sock' = Append(sock, r)
                           /\ Asking(<<r>>, << >>, multi', field')
    BY <1>4, <2>2, KeysAnswered
  <2>4. Append(done, r) = <<r>>
    BY <2>1
  <2>5. Stage(inv.state, Append(done, r), Tail(todo), multi', field')
    BY <1>6, <2>2, <2>3, <2>4 DEF Stage
  <2> QED
    BY <1>5, <2>3, <2>5
<1>7. CASE inv.state = "CLEAN_RES"
  <2>1. Planned(todo, multi, field)
    BY <1>1, <1>3, <1>4, <1>7 DEF Stage, Clearing
  <2>2. PICK r \in Reply : /\ wire' = Tail(wire) /\ sock' = Append(sock, r)
                           /\ Clearing(Append(done, r), Tail(todo), multi', field')
    BY <1>4, <2>1, PlanAnswered
  <2>3. Stage(inv.state, Append(done, r), Tail(todo), multi', field')
    BY <1>7, <2>2 DEF Stage
  <2> QED
    BY <1>5, <2>2, <2>3
<1>8. CASE inv.state \notin {"GET_KEYS", "CLEAN_RES"}
  BY <1>1, <1>8 DEF Stage, Staged
<1> QED
  BY <1>6, <1>7, <1>8

(* An answer is read from the socket into the event queue.                 *)
LEMMA ReadStaged ==
  ASSUME TypeOK, Staged, HandleRead
  PROVE  Staged'
<1>1. PICK rq \in Seq(Request), rp \in Seq(Reply) :
        evq = rq \o rp /\ Stage(inv.state, rp \o sock, wire \o rq, multi, field)
  BY DEF Staged
<1>2. sock # << >> /\ evq' = Append(evq, Head(sock)) /\ sock' = Tail(sock)
      /\ UNCHANGED <<wire, multi, field, inv>>
  BY DEF HandleRead, seqVars
<1>3. rq \in Seq(Events) /\ rp \in Seq(Events) /\ sock \in Seq(Reply)
  BY <1>1, QueueParts
<1>4. PICK x \in Reply : x = Head(sock)
  BY <1>2, <1>3
<1>5. x \in Events
  BY DEF Events
<1>6. evq' = rq \o Append(rp, x)
  <2>1. rq \o Append(rp, x) = Append(rq \o rp, x)
    BY <1>3, <1>5, AppendRight
  <2> QED
    BY <1>1, <1>2, <1>4, <2>1
<1>7. Append(rp, x) \in Seq(Reply) /\ Append(rp, x) \o sock' = rp \o sock
  BY <1>2, <1>3, <1>4, Shuffle
<1> QED
  BY <1>1, <1>2, <1>6, <1>7 DEF Staged

(* A plan whose first command is given up, outside of a transaction.       *)
LEMMA PlanFailed ==
  ASSUME NEW st, NEW done \in Seq(Reply), NEW todo \in Seq(Request), todo # << >>, NEW m, ~m.open,
         NEW f, Stage(st, done, todo, m, f), NEW r \in Reply, r.kind = "none", r.res # "Success"
  PROVE  Stage(st, Append(done, r), Tail(todo), m, f)
<1>1. CASE st = "GET_KEYS"
  <2>1. done = << >> /\ todo = <<Req(InvId, "KEYS")>>
    BY <1>1 DEF Stage, Asking
  <2>2. Append(done, r) = <<r>> /\ Tail(todo) = << >>
    BY <2>1
  <2> QED
    BY <1>1, <2>2 DEF Stage, Asking
<1>2. CASE st = "CLEAN_RES"
  <2>1. Planned(todo, m, f)
    BY <1>2 DEF Stage, Clearing
  <2>2. PICK t : t = Tail(todo)
    OBVIOUS
  <2>3. t # << >> => /\ t[Len(t)].cmd = "EXEC" /\ t[1].cmd # "MULTI"
                     /\ \A j \in 1..(Len(t) - 1) : t[j].cmd = "HSET"
    BY <2>1, <2>2, PlanTail DEF Planned
  <2>4. Append(done, r)[Len(Append(done, r))] = r
    OBVIOUS
  <2>5. Clearing(Append(done, r), t, m, f)
    BY <2>3, <2>4 DEF Clearing, Planned
  <2> QED
    BY <1>2, <2>2, <2>5 DEF Stage
<1> QED
  BY <1>1, <1>2 DEF Stage

(* A request is sent, or answered NotConnected.                            *)
LEMMA SentStaged ==
  ASSUME TypeOK, Staged, ProcessRequestEvent, ctx # "closing",
         ctx # "open" => wire = << >> /\ sock = << >> /\ ~multi.open
  PROVE  Staged'
<1>1. PICK rq \in Seq(Request), rp \in Seq(Reply) :
        evq = rq \o rp /\ Stage(inv.state, rp \o sock, wire \o rq, multi, field)
  BY DEF Staged
<1>2. evq # << >> /\ Head(evq).t = "req" /\ UNCHANGED <<sock, multi, field, inv>>
  BY DEF ProcessRequestEvent, seqVars
<1>3. /\ rq # << >> /\ Head(evq) = Head(rq) /\ Tail(evq) = Tail(rq) \o rp
      /\ wire \in Seq(Request) /\ sock \in Seq(Reply) /\ Tail(rq) \in Seq(Request)
      /\ rp \in Seq(Events) /\ Tail(rq) \in Seq(Events)
  <2>1. /\ rq # << >> /\ Head(evq) = Head(rq) /\ Tail(evq) = Tail(rq) \o rp
        /\ wire \in Seq(Request) /\ sock \in Seq(Reply)
        /\ rp \in Seq(Events) /\ rq \in Seq(Events)
    BY <1>1, <1>2, QueueParts
  <2>2. Tail(rq) \in Seq(Request) /\ Tail(rq) \in Seq(Events)
    BY <2>1
  <2> QED
    BY <2>1, <2>2
<1>4. CASE ctx = "open"
  <2>1. evq' = Tail(rq) \o rp /\ wire' = Append(wire, Head(rq))
    BY <1>3, <1>4 DEF ProcessRequestEvent, IsConnected
  <2>2. wire' \o Tail(rq) = wire \o rq
    <3>1. Append(wire, Head(rq)) \o Tail(rq) = wire \o rq
      <4>1. wire \in Seq(Request) /\ rq \in Seq(Request) /\ rq # << >>
        BY ONLY <1>3, rq \in Seq(Request)
      <4> QED
        BY ONLY <4>1, Shuffle
    <3> QED
      BY <2>1, <3>1
  <2> QED
    BY <1>1, <1>2, <1>3, <2>1, <2>2 DEF Staged
<1>5. CASE ctx # "open"
  <2>1. PICK r : r = Rep(Head(evq).seq, "NotConnected", "none", {})
    OBVIOUS
  <2>2. r \in Reply /\ r.kind = "none" /\ r.res = "NotConnected" /\ r \in Events
    <3>1. Head(rq) \in Request
      BY <1>3
    <3>2. Head(evq).seq \in SeqIds
      BY <1>3, <3>1, RequestSeq
    <3> QED
      BY <2>1, <3>2, EventTypes DEF Rep, Events, Results
  <2>3. evq' = Append(Tail(evq), r) /\ UNCHANGED wire
    BY <1>5, <2>1 DEF ProcessRequestEvent, IsConnected
  <2>4. evq' = Tail(rq) \o Append(rp, r)
    <3>1. Tail(rq) \o Append(rp, r) = Append(Tail(rq) \o rp, r)
      BY <1>3, <2>2, AppendRight
    <3> QED
      BY <1>3, <2>3, <3>1
  <2>5. wire' = << >> /\ sock' = << >> /\ ~multi.open
    BY <1>2, <1>5, <2>3
  <2>6. rp \o sock = rp /\ wire \o rq = rq
    BY <1>5, ConcatEmptySeq
  <2>7. Append(rp, r) \in Seq(Reply)
    BY <2>2
  <2>8. Append(rp, r) \o sock' = Append(rp, r) /\ wire' \o Tail(rq) = Tail(rq)
    BY <1>3, <2>5, <2>7, ConcatEmptySeq
  <2>9. Stage(inv.state, Append(rp, r), Tail(rq), multi, field)
    <3>1. Stage(inv.state, rp, rq, multi, field)
      BY <1>1, <2>6
    <3> QED
      BY <1>3, <2>2, <2>5, <3>1, PlanFailed
  <2>10. Stage(inv'.state, Append(rp, r) \o sock', wire' \o Tail(rq), multi', field')
    BY <1>2, <2>8, <2>9
  <2> QED
    BY <1>3, <2>4, <2>7, <2>10 DEF Staged
<1> QED
  BY <1>4, <1>5

(* An answer of the transaction is taken from the queue.                   *)
LEMMA TakenStaged ==
  ASSUME TypeOK, Staged, evq # << >>, Head(evq).t = "rep", evq' = Tail(evq),
         UNCHANGED <<wire, sock, multi, field>>, inv.state = "CLEAN_RES", inv'.state = "CLEAN_RES"
  PROVE  Staged'
<1>1. PICK rq \in Seq(Request), rp \in Seq(Reply) :
        evq = rq \o rp /\ Stage(inv.state, rp \o sock, wire \o rq, multi, field)
  BY DEF Staged
<1>2. rq = << >> /\ rp = evq /\ wire \in Seq(Request) /\ sock \in Seq(Reply)
  BY <1>1, QueueParts
<1>3. Tail(rp) \in Seq(Reply) /\ evq' = rq \o Tail(rp)
  BY <1>2, ConcatEmptySeq
<1>4. PICK done \in Seq(Reply) : done = rp \o sock /\ done # << >> /\ Tail(done) = Tail(rp) \o sock
  <2>1. rp \in Seq(Reply) /\ rp # << >> /\ sock \in Seq(Reply)
    BY <1>2
  <2>2. rp \o sock \in Seq(Reply) /\ rp \o sock # << >> /\ Tail(rp \o sock) = Tail(rp) \o sock
    BY ONLY <2>1, Shuffle
  <2> QED
    BY ONLY <2>2
<1>5. Tail(done) # << >> => Tail(done)[Len(Tail(done))] = done[Len(done)]
  BY <1>4
<1>6. Clearing(done, wire \o rq, multi, field)
  BY <1>1, <1>4 DEF Stage
<1>7. Clearing(Tail(done), wire \o rq, multi, field)
  BY <1>4, <1>5, <1>6 DEF Clearing
<1>8. Stage(inv'.state, Tail(rp) \o sock', wire' \o rq, multi', field')
  BY <1>4, <1>7 DEF Stage
<1> QED
  BY <1>3, <1>8 DEF Staged


(* The end of a plan, after its connection was lost.                       *)
LEMMA PlanSuffix ==
  ASSUME NEW w \in Seq(Request), NEW rq \in Seq(Request), rq # << >>, NEW m, NEW f,
         Planned(w \o rq, m, f)
  PROVE  Planned(rq, NoMulti, f)
<1>1. PICK a \in Nat, b \in Nat : a = Len(w) /\ b = Len(rq) /\ b > 0
  OBVIOUS
<1>2. PICK todo : todo = w \o rq
  OBVIOUS
<1>3. Len(todo) = a + b /\ \A j \in 1..b : todo[a + j] = rq[j]
  BY <1>1, <1>2, ConcatProperties
<1>4. rq[Len(rq)].cmd = "EXEC"
  <2>1. b \in 1..b
    BY <1>1
  <2> QED
    BY <1>1, <1>2, <1>3, <2>1 DEF Planned
<1>5. ASSUME NEW j \in 1..(b - 1) PROVE rq[j].cmd = "HSET" \/ (j = 1 /\ rq[j].cmd = "MULTI")
  <2>1. a + j \in 1..((a + b) - 1) /\ j \in 1..b /\ (a + j = 1 => j = 1)
    BY <1>1
  <2>2. todo[a + j].cmd = "HSET" \/ (a + j = 1 /\ todo[a + j].cmd = "MULTI")
    BY <1>2, <1>3, <2>1 DEF Planned
  <2> QED
    BY <1>3, <2>1, <2>2
<1>6. rq[1].cmd = "MULTI" => \A k \in Keys : Counts(f, k) => Zeroes(rq, k)
  <2>1. CASE w = << >>
    <3>1. todo = rq
      BY <1>2, <2>1, ConcatEmptySeq
    <3> QED
      BY <1>2, <3>1 DEF Planned
  <2>2. CASE w # << >>
    <3>1. a > 0
      BY <1>1, <2>2
    <3>2. CASE b = 1
      BY <1>1, <1>4, <3>2
    <3>3. CASE b # 1
      <4>1. a + 1 \in 1..((a + b) - 1) /\ a + 1 # 1 /\ 1 \in 1..b
        BY <1>1, <3>1, <3>3
      <4>2. todo[a + 1].cmd = "HSET"
        BY <1>2, <1>3, <4>1 DEF Planned
      <4> QED
        BY <1>3, <4>1, <4>2
    <3> QED
      BY <3>2, <3>3
  <2> QED
    BY <2>1, <2>2
<1>7. NoMulti.open = FALSE
  BY DEF NoMulti
<1> QED
  BY <1>1, <1>4, <1>5, <1>6, <1>7 DEF Planned

(* The connection is lost: what redis was to answer fails.                 *)
LEMMA StageLost ==
  ASSUME NEW st, NEW rp \in Seq(Reply), NEW sk \in Seq(Reply), NEW w \in Seq(Request),
         NEW rq \in Seq(Request), NEW errs \in Seq(Reply), Len(errs) = Len(sk) + Len(w),
         \A j \in 1..Len(errs) : errs[j].res = "IOError" /\ errs[j].kind = "none",
         NEW m, NEW f, Stage(st, rp \o sk, w \o rq, m, f)
  PROVE  Stage(st, rp \o errs, rq, NoMulti, f)
<1>1. PICK a \in Nat, b \in Nat, c \in Nat, d \in Nat :
        a = Len(rp) /\ b = Len(sk) /\ c = Len(w) /\ d = Len(rq)
  OBVIOUS
<1>2. /\ Len(rp \o sk) = a + b /\ Len(w \o rq) = c + d /\ Len(rp \o errs) = a + (b + c)
      /\ Len(errs) = b + c
      /\ \A j \in 1..(b + c) : (rp \o errs)[a + j] = errs[j]
  <2>1. Len(rp \o sk) = a + b /\ Len(w \o rq) = c + d
    BY <1>1, ConcatProperties
  <2>2. Len(errs) = b + c
    BY <1>1
  <2>3. /\ Len(rp \o errs) = a + (b + c)
        /\ \A j \in 1..(b + c) : (rp \o errs)[a + j] = errs[j]
    <3>1. PICK e \in Nat : e = b + c
      BY <1>1
    <3>2. Len(rp \o errs) = a + e /\ \A j \in 1..e : (rp \o errs)[a + j] = errs[j]
      BY ONLY <1>1, <2>2, <3>1, rp \in Seq(Reply), errs \in Seq(Reply), ConcatProperties
    <3> QED
      BY <3>1, <3>2
  <2> QED
    BY <2>1, <2>2, <2>3
<1>3. /\ (b + c = 0 => errs = << >> /\ sk = << >> /\ w = << >>)
      /\ (a = 0 => rp = << >>) /\ (d = 0 <=> rq = << >>)
  <2>1. \A q \in Seq(Reply) \cup Seq(Request) : q = << >> <=> Len(q) = 0
    BY EmptySeq
  <2> QED
    BY <1>1, <1>2, <2>1
<1>4. NoMulti.open = FALSE
  BY DEF NoMulti
<1>5. ASSUME b + c = 0 PROVE rp \o errs = rp \o sk /\ rq = w \o rq
  BY <1>3, <1>5, ConcatEmptySeq
<1>6. CASE st = "GET_KEYS"
  <2>1. Asking(rp \o sk, w \o rq, m, f)
    BY <1>6 DEF Stage
  <2>2. CASE b + c = 0
    <3>1. Asking(rp \o sk, w \o rq, NoMulti, f)
      BY <1>4, <2>1 DEF Asking
    <3> QED
      BY <1>5, <1>6, <2>2, <3>1 DEF Stage
  <2>3. CASE b + c # 0
    <3>1. (a + b) + (c + d) = 1
      <4>1. CASE rp \o sk = << >> /\ w \o rq = <<Req(InvId, "KEYS")>>
        <5>1. Len(rp \o sk) = 0 /\ Len(w \o rq) = 1
          BY <4>1
        <5> QED
          BY ONLY <1>2, <5>1
      <4>2. CASE w \o rq = << >> /\ \E r \in Reply : rp \o sk = <<r>>
        <5>1. Len(rp \o sk) = 1 /\ Len(w \o rq) = 0
          BY <4>2
        <5> QED
          BY ONLY <1>2, <5>1
      <4> QED
        BY <2>1, <4>1, <4>2 DEF Asking
    <3>2. a = 0 /\ d = 0 /\ b + c = 1
      BY <1>1, <2>3, <3>1
    <3>3. PICK r \in Reply : r = errs[1] /\ r.kind = "none" /\ errs = <<r>>
      BY <1>2, <3>2
    <3>4. rp \o errs = <<r>> /\ rq = << >>
      BY <1>3, <3>2, <3>3, ConcatEmptySeq
    <3> QED
      BY <1>6, <3>3, <3>4 DEF Stage, Asking
  <2> QED
    BY <2>2, <2>3
<1>7. CASE st = "CLEAN_RES"
  <2>1. Clearing(rp \o sk, w \o rq, m, f)
    BY <1>7 DEF Stage
  <2>2. CASE rq # << >>
    <3>1. w \o rq # << >>
      BY <1>1, <1>2, <1>3, <2>2
    <3>2. Planned(rq, NoMulti, f)
      BY <2>1, <2>2, <3>1, PlanSuffix DEF Clearing
    <3> QED
      BY <1>7, <2>2, <3>2 DEF Stage, Clearing
  <2>3. CASE rq = << >> /\ b + c = 0
    <3>1. Clearing(rp \o errs, rq, m, f)
      BY <1>5, <2>1, <2>3
    <3> QED
      BY <1>4, <1>7, <2>3, <3>1 DEF Stage, Clearing
  <2>4. CASE rq = << >> /\ b + c # 0
    <3>1. b + c \in 1..(b + c)
      BY <1>1, <2>4
    <3>2. (rp \o errs)[Len(rp \o errs)].res = "IOError"
      BY <1>2, <3>1
    <3> QED
      BY <1>4, <1>7, <2>4, <3>2 DEF Stage, Clearing
  <2> QED
    BY <2>2, <2>3, <2>4
<1> QED
  BY <1>6, <1>7 DEF Stage

LEMMA LostStaged ==
  ASSUME TypeOK, Staged, OnDisconnect
  PROVE  Staged'
<1>1. PICK rq \in Seq(Request), rp \in Seq(Reply) :
        evq = rq \o rp /\ Stage(inv.state, rp \o sock, wire \o rq, multi, field)
  BY DEF Staged
<1>2. /\ rq \in Seq(Events) /\ rp \in Seq(Events) /\ wire \in Seq(Request) /\ sock \in Seq(Reply)
      /\ wire \in Seq(Events) /\ sock \in Seq(Events)
  BY <1>1, QueueParts, EventSeqs
<1> DEFINE pending == sock \o wire
           errs == [i \in 1..Len(pending) |-> Rep(pending[i].seq, "IOError", "none", {})]
<1>3. /\ evq' = evq \o errs /\ wire' = << >> /\ sock' = << >> /\ multi' = NoMulti
      /\ UNCHANGED <<field, inv>>
  BY DEF OnDisconnect
<1>4. pending \in Seq(Events) /\ Len(pending) = Len(sock) + Len(wire)
  BY <1>2, ConcatProperties
<1> HIDE DEF pending
<1>5. \A i \in 1..Len(pending) : pending[i].seq \in SeqIds
  <2>1. \A i \in 1..Len(pending) : pending[i] \in Events
    BY <1>4
  <2> QED
    BY <2>1, RequestSeq DEF Events
<1>6. \A i \in 1..Len(pending) : errs[i] \in Reply /\ errs[i].res = "IOError" /\ errs[i].kind = "none"
  BY <1>5, EventTypes DEF Rep, Results
<1>7. /\ errs \in Seq(Reply) /\ Len(errs) = Len(sock) + Len(wire)
      /\ \A i \in 1..Len(errs) : errs[i].res = "IOError" /\ errs[i].kind = "none"
  BY <1>4, <1>6
<1> HIDE DEF errs
<1>8. Stage(inv.state, rp \o errs, rq, NoMulti, field)
  BY <1>1, <1>2, <1>7, StageLost
<1>9. evq' = rq \o (rp \o errs) /\ rp \o errs \in Seq(Reply)
  <2>1. errs \in Seq(Events)
    BY <1>7, SeqMonotonic DEF Events
  <2>2. (rq \o rp) \o errs = rq \o (rp \o errs)
    <3>1. rq \in Seq(Events) /\ rp \in Seq(Events)
      BY ONLY <1>2
    <3> QED
      BY ONLY <2>1, <3>1, ConcatAssociative
  <2> QED
    BY <1>1, <1>3, <1>7, <2>2
<1>10. (rp \o errs) \o sock' = rp \o errs /\ wire' \o rq = rq
  BY <1>3, <1>9, ConcatEmptySeq
<1>11. Stage(inv'.state, (rp \o errs) \o sock', wire' \o rq, multi', field')
  BY <1>3, <1>8, <1>10
<1> QED
  BY <1>9, <1>11 DEF Staged


(* The plan is made.                                                       *)
LEMMA PlanMade ==
  ASSUME NEW ks \in Seq(Keys), NEW m, ~m.open, NEW f,
         \A k \in Keys : Counts(f, k) => \E i \in 1..Len(ks) : ks[i] = k,
         NEW hsets, hsets = [i \in 1..Len(ks) |-> HSet(InvId, ks[i])],
         NEW plan, plan = (<<Req(InvId, "MULTI")>> \o hsets) \o <<Req(InvId, "EXEC")>>
  PROVE  plan \in Seq(Request) /\ hsets \in Seq(Request) /\ plan # << >> /\ Planned(plan, m, f)
<1>1. PICK n \in Nat : n = Len(ks)
  OBVIOUS
<1>2. PICK first, last : first = Req(InvId, "MULTI") /\ last = Req(InvId, "EXEC")
  OBVIOUS
<1>3. first \in Request /\ first.cmd = "MULTI" /\ last \in Request /\ last.cmd = "EXEC"
  BY <1>2, IdFacts, EventTypes DEF Req, Commands
<1>4. \A i \in 1..n : hsets[i] \in Request /\ hsets[i].cmd = "HSET" /\ hsets[i].k = ks[i]
  <2> SUFFICES ASSUME NEW i \in 1..n
               PROVE  hsets[i] \in Request /\ hsets[i].cmd = "HSET" /\ hsets[i].k = ks[i]
    OBVIOUS
  <2>1. PICK k \in Keys : k = ks[i] /\ hsets[i] = HSet(InvId, k)
    BY <1>1
  <2>2. HSet(InvId, k) \in Request
    BY IdFacts, EventTypes
  <2>3. HSet(InvId, k).cmd = "HSET" /\ HSet(InvId, k).k = k
    BY DEF HSet, Req
  <2> QED
    BY <2>1, <2>2, <2>3
<1>5. hsets \in Seq(Request) /\ Len(hsets) = n
  BY <1>1, <1>4
<1>6. PICK mh : /\ mh \in Seq(Request) /\ mh = <<first>> \o hsets /\ Len(mh) = n + 1 /\ mh[1] = first
                /\ \A i \in 1..n : mh[i + 1] = hsets[i]
  <2>1. <<first>> \in Seq(Request) /\ Len(<<first>>) = 1 /\ <<first>>[1] = first
    BY <1>3
  <2>2. <<first>> \o hsets \in Seq(Request)
    BY <1>5, <2>1
  <2>3. Len(<<first>> \o hsets) = 1 + n
        /\ \A i \in 1..(1 + n) : (<<first>> \o hsets)[i] = IF i <= 1 THEN <<first>>[i] ELSE hsets[i - 1]
    BY ONLY <1>5, <2>1, ConcatProperties
  <2>4. PICK mh : mh = <<first>> \o hsets
    OBVIOUS
  <2>5. mh \in Seq(Request) /\ Len(mh) = n + 1
    BY ONLY n \in Nat, <2>2, <2>3, <2>4
  <2>6. mh[1] = first
    <3>1. 1 \in 1..(1 + n) /\ 1 <= 1
      BY ONLY n \in Nat
    <3> QED
      BY ONLY <2>1, <2>3, <2>4, <3>1
  <2>7. ASSUME NEW i \in 1..n PROVE mh[i + 1] = hsets[i]
    <3>1. i + 1 \in 1..(1 + n) /\ ~(i + 1 <= 1) /\ (i + 1) - 1 = i
      BY ONLY n \in Nat, i \in 1..n
    <3> QED
      BY ONLY <2>3, <2>4, <3>1
  <2> QED
    BY ONLY <2>4, <2>5, <2>6, <2>7
<1>7. /\ plan \in Seq(Request) /\ Len(plan) = n + 2 /\ plan[n + 2] = last
      /\ \A i \in 1..(n + 1) : plan[i] = mh[i]
  <2>1. plan = Append(mh, last)
    <3>1. Append(mh, last) = mh \o <<last>>
      BY ONLY <1>3, <1>6, AppendIsConcat
    <3> QED
      BY <1>2, <1>6, <3>1
  <2> QED
    BY ONLY n \in Nat, <1>3, <1>6, <2>1
<1>8. \A i \in 1..n : plan[i + 1] = hsets[i] /\ i + 1 \in DOMAIN plan
  <2> SUFFICES ASSUME NEW i \in 1..n PROVE plan[i + 1] = hsets[i] /\ i + 1 \in DOMAIN plan
    OBVIOUS
  <2>1. i + 1 \in 1..(n + 1) /\ i + 1 \in 1..(n + 2)
    BY ONLY n \in Nat, i \in 1..n
  <2>2. DOMAIN plan = 1..(n + 2)
    BY ONLY <1>7
  <2> QED
    BY ONLY i \in 1..n, <1>6, <1>7, <2>1, <2>2
<1>9. plan[1] = first
  <2>1. 1 \in 1..(n + 1)
    BY ONLY n \in Nat
  <2> QED
    BY ONLY <1>6, <1>7, <2>1
<1>10. \A j \in 1..(Len(plan) - 1) : plan[j].cmd = "HSET" \/ (j = 1 /\ plan[j].cmd = "MULTI")
  <2> SUFFICES ASSUME NEW j \in 1..(n + 1), j # 1 PROVE plan[j].cmd = "HSET"
    <3>1. Len(plan) - 1 = n + 1
      BY ONLY n \in Nat, <1>7
    <3>2. plan[1].cmd = "MULTI"
      BY ONLY <1>3, <1>9
    <3> QED
      BY <3>1, <3>2
  <2>1. j - 1 \in 1..n /\ (j - 1) + 1 = j
    BY ONLY n \in Nat, j \in 1..(n + 1), j # 1
  <2>2. plan[(j - 1) + 1] = hsets[j - 1] /\ hsets[j - 1].cmd = "HSET"
    BY ONLY <1>4, <1>8, <2>1
  <2> QED
    BY ONLY <2>1, <2>2
<1>11. \A k \in Keys : Counts(f, k) => Zeroes(plan, k)
  <2> SUFFICES ASSUME NEW k \in Keys, Counts(f, k) PROVE Zeroes(plan, k)
    OBVIOUS
  <2>1. PICK i \in 1..n : ks[i] = k
    BY <1>1
  <2>2. i + 1 \in DOMAIN plan /\ plan[i + 1].cmd = "HSET" /\ plan[i + 1].k = k
    BY ONLY <1>4, <1>8, <2>1
  <2> QED
    BY ONLY <2>2 DEF Zeroes
<1>12. plan # << >> /\ plan[Len(plan)].cmd = "EXEC"
  BY <1>3, <1>7
<1>13. Planned(plan, m, f)
  BY <1>3, <1>9, <1>10, <1>11, <1>12 DEF Planned
<1> QED
  BY <1>5, <1>7, <1>12, <1>13

(* The keys are known: the plan is queued.                                 *)
LEMMA GotKeysStaged ==
  ASSUME TypeOK, Staged, InvGotKeys
  PROVE  Staged'
<1>1. PICK rq \in Seq(Request), rp \in Seq(Reply) :
        evq = rq \o rp /\ Stage(inv.state, rp \o sock, wire \o rq, multi, field)
  BY DEF Staged
<1>2. /\ evq # << >> /\ Head(evq).t = "rep" /\ inv.state = "GET_KEYS" /\ Head(evq).kind = "keys"
      /\ UNCHANGED <<wire, sock, multi, field>> /\ inv'.state = "CLEAN_RES"
  BY DEF InvGotKeys, InvReply, InvUnexpected, redisVars
<1>3. rq = << >> /\ rp = evq /\ wire \in Seq(Request) /\ sock \in Seq(Reply)
  BY <1>1, <1>2, QueueParts
<1>4. PICK r \in Reply : /\ rp \o sock = <<r>> /\ wire \o rq = << >>
                         /\ r.kind = "keys" => ~multi.open /\ \A k \in Keys : Counts(field, k) => k \in r.keys
  <2>1. rp # << >>
    BY <1>2, <1>3
  <2>2. rp \o sock # << >>
    BY ONLY <1>3, <2>1, rp \in Seq(Reply), Shuffle
  <2> QED
    BY <1>1, <1>2, <2>2 DEF Stage, Asking
<1>5. evq = <<r>> /\ sock = << >> /\ wire = << >>
  <2>1. PICK a \in Nat, b \in Nat : a = Len(rp) /\ b = Len(sock) /\ a > 0
    BY <1>2, <1>3
  <2>2. Len(rp \o sock) = a + b
    BY <1>3, <2>1, ConcatProperties
  <2>3. Len(rp \o sock) = 1
    BY <1>4
  <2>4. b = 0
    BY <2>1, <2>2, <2>3
  <2>5. sock = << >>
    BY <1>3, <2>1, <2>4, EmptySeq
  <2> QED
    BY <1>3, <1>4, <2>5, ConcatEmptySeq
<1>6. Head(evq) = r /\ Tail(evq) = << >> /\ ~multi.open /\ r.keys \in SUBSET Keys
      /\ \A k \in Keys : Counts(field, k) => k \in r.keys
  <2>1. Head(evq) = r /\ Tail(evq) = << >>
    BY <1>5
  <2> QED
    BY <1>2, <1>4, <2>1, RequestSeq
<1>7. PICK ks : ks = SetToSeq(r.keys)
  OBVIOUS
<1>8. ks \in Seq(Keys) /\ \A k \in r.keys : \E i \in 1..Len(ks) : ks[i] = k
  <2>1. IsFiniteSet(r.keys)
    BY <1>6, RedisAssumption, FS_Subset
  <2>2. ks \in Seq(r.keys)
    BY <1>7, <2>1, SetToSeqType
  <2>3. ks \in Bijection(1..Cardinality(r.keys), r.keys) /\ Len(ks) = Cardinality(r.keys)
    BY <1>7, <2>1, SetToSeqBijection
  <2>4. \A k \in r.keys : \E i \in 1..Len(ks) : ks[i] = k
    BY <2>3 DEF Bijection, Surjection
  <2>5. ks \in Seq(Keys)
    BY <1>6, <2>2, SeqMonotonic
  <2> QED
    BY <2>4, <2>5
<1>9. PICK hsets : hsets = [i \in 1..Len(ks) |-> HSet(InvId, ks[i])]
  OBVIOUS
<1>10. PICK plan : plan = (<<Req(InvId, "MULTI")>> \o hsets) \o <<Req(InvId, "EXEC")>>
  OBVIOUS
<1>11. plan \in Seq(Request) /\ hsets \in Seq(Request) /\ plan # << >> /\ Planned(plan, multi, field)
  <2>1. \A k \in Keys : Counts(field, k) => \E i \in 1..Len(ks) : ks[i] = k
    BY <1>6, <1>8
  <2> QED
    BY ONLY <1>6, <1>8, <1>9, <1>10, <2>1, PlanMade
<1>12. evq' = plan
  <2>1. evq' = ((Tail(evq) \o <<Req(InvId, "MULTI")>>) \o hsets) \o <<Req(InvId, "EXEC")>>
    BY <1>6, <1>7, <1>9 DEF InvGotKeys
  <2>2. Tail(evq) \o <<Req(InvId, "MULTI")>> = <<Req(InvId, "MULTI")>>
    <3>1. PICK x : x = Req(InvId, "MULTI")
      OBVIOUS
    <3>2. << >> \o <<x>> = <<x>>
      OBVIOUS
    <3> QED
      BY <1>6, <3>1, <3>2
  <2> QED
    BY <1>10, <2>1, <2>2
<1>13. << >> \in Seq(Reply) /\ evq' = plan \o << >> /\ << >> \o sock' = << >> /\ wire' \o plan = plan
  BY <1>2, <1>5, <1>11, <1>12, ConcatEmptySeq
<1>14. Stage(inv'.state, << >> \o sock', wire' \o plan, multi', field')
  BY <1>2, <1>11, <1>13 DEF Stage, Clearing
<1> QED
  BY <1>11, <1>13, <1>14 DEF Staged

(* Nothing is left of any sequence.                                        *)
LEMMA NoEvents ==
  ASSUME NEW q \in Seq(Events), \A j \in SeqIds : Count(q, EventsOf(j)) = 0
  PROVE  q = << >>
<1> SUFFICES ASSUME q # << >> PROVE FALSE
  OBVIOUS
<1>1. Head(q) \in Events /\ Tail(q) \in Seq(Events)
  OBVIOUS
<1>2. PICK j \in SeqIds : j = Head(q).seq
  BY <1>1, RequestSeq DEF Events
<1>3. Head(q) \in EventsOf(j)
  BY <1>1, <1>2 DEF EventsOf
<1>4. Count(q, EventsOf(j)) = Count(Tail(q), EventsOf(j)) + 1
  BY <1>3, CountTail
<1>5. Count(Tail(q), EventsOf(j)) \in Nat
  BY <1>1, CountType
<1> QED
  BY <1>4, <1>5

LEMMA AllQuiet ==
  ASSUME TypeOK, \A j \in SeqIds : Outstanding(j) = 0
  PROVE  wire = << >> /\ sock = << >> /\ evq = << >>
<1>1. \A j \in SeqIds : /\ Count(wire, EventsOf(j)) = 0 /\ Count(sock, EventsOf(j)) = 0
                        /\ Count(evq, EventsOf(j)) = 0
  <2> SUFFICES ASSUME NEW j \in SeqIds
               PROVE  /\ Count(wire, EventsOf(j)) = 0 /\ Count(sock, EventsOf(j)) = 0
                      /\ Count(evq, EventsOf(j)) = 0
    OBVIOUS
  <2>1. /\ Count(wire, EventsOf(j)) \in Nat /\ Count(sock, EventsOf(j)) \in Nat
        /\ Count(evq, EventsOf(j)) \in Nat
    BY EventSeqs
  <2>2. Outstanding(j) = 0
    OBVIOUS
  <2> QED
    BY <2>1, <2>2 DEF Outstanding
<1> QED
  BY <1>1, EventSeqs, NoEvents

(* The only event left is in the queue.                                    *)
LEMMA LastLeft ==
  ASSUME TypeOK, evq # << >>, NEW i \in SeqIds, Head(evq).seq = i, Outstanding(i) = 1,
         \A j \in SeqIds : j # i => Outstanding(j) = 0
  PROVE  wire = << >> /\ sock = << >> /\ Tail(evq) = << >>
<1>1. evq \in Seq(Events) /\ Head(evq) \in Events /\ Tail(evq) \in Seq(Events)
  BY EventSeqs
<1>2. wire = << >> /\ sock = << >>
  BY OneLeft
<1>3. ASSUME NEW j \in SeqIds PROVE Count(Tail(evq), EventsOf(j)) = 0
  <2>1. Count(wire, EventsOf(j)) = 0 /\ Count(sock, EventsOf(j)) = 0
    BY <1>2, CountEmpty
  <2>2. Count(evq, EventsOf(j)) = IF j = i THEN 1 ELSE 0
    <3>1. Count(evq, EventsOf(j)) \in Nat
      BY EventSeqs
    <3> QED
      BY <2>1, <3>1 DEF Outstanding
  <2>3. Count(evq, EventsOf(j)) = Count(Tail(evq), EventsOf(j)) + IF Head(evq) \in EventsOf(j) THEN 1 ELSE 0
    BY <1>1, CountTail
  <2>4. Head(evq) \in EventsOf(j) <=> j = i
    BY <1>1 DEF EventsOf
  <2>5. Count(Tail(evq), EventsOf(j)) \in Nat
    BY <1>1, CountType
  <2> QED
    BY <2>2, <2>3, <2>4, <2>5
<1> QED
  BY <1>1, <1>2, <1>3, NoEvents


(* The last answer of an operation sequence leaves nothing behind.         *)
LEMMA LastOperation ==
  ASSUME TypeOK, AwaitedInv, OneAtATime, NEW i \in OpIds, OpLast(i)
  PROVE  wire = << >> /\ sock = << >> /\ Tail(evq) = << >>
<1>1. evq # << >> /\ Head(evq).seq = i /\ ops[i].state = "OP_RES" /\ ops[i].count = 1
  BY DEF OpLast, OpReply
<1>2. InFlight(i) /\ Outstanding(InvId) = 0 /\ Waits(ops[i]) = 1
  BY <1>1 DEF InFlight, OneAtATime, Waits
<1>3. \A j \in OpIds : j # i => Waits(ops[j]) = 0
  BY <1>2 DEF OneAtATime, InFlight, Waits
<1>4. Outstanding(i) = 1 /\ \A j \in SeqIds : j # i => Outstanding(j) = 0
  BY <1>2, <1>3, IdFacts DEF AwaitedInv
<1> QED
  BY <1>1, <1>4, LastLeft, IdFacts

(* The first command of the sequence is alone in the queue.                *)
LEMMA StartStaged ==
  ASSUME wire' = << >>, sock' = << >>, evq' = <<Req(InvId, "KEYS")>>, inv'.state = "GET_KEYS"
  PROVE  Staged'
<1>1. PICK x \in Request : x = Req(InvId, "KEYS")
  BY IdFacts, EventTypes DEF Commands
<1>2. <<x>> \in Seq(Request) /\ << >> \in Seq(Reply)
  OBVIOUS
<1>3. evq' = <<x>> \o << >> /\ << >> \o sock' = << >> /\ wire' \o <<x>> = <<x>>
  BY <1>1, <1>2, ConcatEmptySeq
<1>4. Asking(<< >>, <<x>>, multi', field')
  BY <1>1 DEF Asking
<1>5. Stage(inv'.state, << >> \o sock', wire' \o <<x>>, multi', field')
  BY <1>3, <1>4 DEF Stage
<1> QED
  BY <1>2, <1>3, <1>5 DEF Staged

(* Steps that leave the sequence where it is.                              *)
LEMMA StagedSame ==
  ASSUME Staged, UNCHANGED <<evq, inv, sock, wire, multi, field>>
  PROVE  Staged'
BY DEF Staged

-----------------------------------------------------------------------------
(* The three parts of ResetInv are kept.                                   *)

LEMMA KeysKept ==
  ASSUME TypeOK, KeyExists, [Next]_vars
  PROVE  KeyExists'
<1>0. ASSUME UNCHANGED <<exists, field>> PROVE KeyExists'
  BY <1>0 DEF KeyExists, Counts
<1>1. CASE Redis_ \/ (ServerFault /\ Fault)
  BY <1>1, ServerExists DEF Redis_, ServerStep, ServerFault
<1>2. CASE Client \/ ((OnDisconnect \/ ConnectFailed) /\ Fault)
  <2>1. RedisThread \/ OnDisconnect \/ ConnectFailed
    BY <1>2 DEF Client
  <2>2. UNCHANGED <<exists, field>>
    BY <2>1 DEF RedisThread, OnDisconnect, ConnectFailed, ProcessRequestEvent, HandleRead,
       HandleLastRead, ProcessOperationsQueue, OnReconnect, OnConnect, InvOnError, InvGotKeys,
       InvCleaning, InvFinished,
       OpMultiAnswered, OpQueued, OpSucceeded, OpErrored, redisVars
  <2> QED
    BY <1>0, <2>2
<1>3. ASSUME NEW s \in Sessions, SessionThread(s) \/ RpcPut(s) PROVE KeyExists'
  BY <1>0, <1>3, SessionEffect DEF redisVars
<1>4. CASE ThreadResumed \/ Invalidate \/ Restart \/ UNCHANGED vars
  BY <1>0, <1>4 DEF ThreadResumed, SetBusy, Invalidate, InvalidateUnready, InvalidateHandlers,
     InvalidateSequence, InvalidateReset, InvalidateAnswer, Restart, vars, redisVars
<1> QED
  BY <1>1, <1>2, <1>3, <1>4 DEF Next, Fault

(* A transaction is open on a live connection only.                        *)
LEMMA MultiClosed ==
  ASSUME TypeOK, AwaitedInv, ConnectionInv, ctx # "open" => ~multi.open, [Next]_vars,
         ctx' # "open"
  PROVE  ~multi'.open
<1>0. ~NoMulti.open
  BY DEF NoMulti
<1>1. ASSUME UNCHANGED multi, ctx # "open" PROVE ~multi'.open
  BY <1>1
<1>2. CASE Redis_ \/ (ServerFault /\ Fault)
  <2>1. UNCHANGED ctx /\ wire # << >>
    BY <1>2 DEF Redis_, ServerStep, ServerFault, connVars, Server, ServerMulti, ServerQueue, ServerKeys,
       ServerDirect, ServerExec, ServerRefuse
  <2> QED
    BY <2>1 DEF ConnectionInv
<1>3. CASE OnDisconnect \/ HandleLastRead
  BY <1>0, <1>3 DEF OnDisconnect, HandleLastRead
<1>4. ASSUME NEW i \in OpIds, OpErrored(i) PROVE ~multi'.open
  <2>1. CASE ctx = "null"
    BY <1>1, <1>4, <2>1 DEF OpErrored
  <2>2. CASE ctx # "null"
    <3>1. wire = << >> /\ sock = << >>
      BY <1>4, LastOperation DEF OpErrored, ConnectionInv
    <3>2. sock \o wire = << >>
      BY <3>1
    <3>3. multi' = NoMulti
      BY <1>4, <2>2, <3>2 DEF OpErrored
    <3> QED
      BY <1>0, <3>3
  <2> QED
    BY <2>1, <2>2
<1>5. ASSUME \/ ProcessRequestEvent \/ HandleRead \/ ProcessOperationsQueue \/ OnReconnect \/ OnConnect
             \/ InvOnError \/ InvGotKeys \/ InvCleaning \/ InvFinished
             \/ ConnectFailed
             \/ \E i \in OpIds : OpMultiAnswered(i) \/ OpQueued(i) \/ OpSucceeded(i)
      PROVE  ~multi'.open
  <2>1. UNCHANGED multi /\ ctx # "open"
    BY <1>5 DEF ConnectFailed, ProcessRequestEvent, HandleRead, ProcessOperationsQueue, OnReconnect,
       OnConnect, InvOnError, InvGotKeys, InvCleaning, InvFinished, OpMultiAnswered, OpQueued,
       OpSucceeded, redisVars
  <2> QED
    BY <1>1, <2>1
<1>6. ASSUME NEW s \in Sessions, SessionThread(s) \/ RpcPut(s) PROVE ~multi'.open
  BY <1>1, <1>6, SessionEffect DEF redisVars, connVars
<1>7. CASE ThreadResumed \/ Invalidate \/ UNCHANGED vars
  BY <1>1, <1>7 DEF ThreadResumed, SetBusy, Invalidate, InvalidateUnready, InvalidateHandlers,
     InvalidateSequence, InvalidateReset, InvalidateAnswer, vars, redisVars, connVars
<1>8. CASE Restart
  BY <1>0, <1>8 DEF Restart
<1> QED
  BY <1>2, <1>3, <1>4, <1>5, <1>6, <1>7, <1>8 DEF Next, Fault, Client, RedisThread


(* The invalidation under way is at a stage of its pipeline.               *)
LEMMA StagedKept ==
  ASSUME TypeOK, TypeOK', AwaitedInv, ConnectionInv, ResetInv, Preemption = FALSE, [Next]_vars,
         Outstanding(InvId)' > 0
  PROVE  Staged'
<1> USE IdFacts
<1>0. /\ OneAtATime /\ KeyExists /\ holder = NoSession /\ ctx # "closing"
      /\ ctx # "open" => wire = << >> /\ sock = << >> /\ ~multi.open
      /\ Outstanding(InvId) \in Nat /\ (Outstanding(InvId) > 0 => Staged)
  BY OutstandingType DEF ConnectionInv, Unpreempted, ResetInv
<1>1. ASSUME UNCHANGED <<evq, inv, sock, wire, multi, field>> PROVE Staged'
  <2>1. Outstanding(InvId)' = Outstanding(InvId)
    BY <1>1, StillSame
  <2> QED
    BY <1>0, <1>1, <2>1, StagedSame
<1>2. ASSUME NEW list \in Seq(Op), NEW thread, PerformOperations(list, thread), IsReady, ~busy,
             UNCHANGED <<wire, sock>>
      PROVE  FALSE
  <2>1. PICK i \in OpIds : \A j \in SeqIds : Outstanding(j)' = Outstanding(j) + One(j = i)
    BY <1>2, PerformStep
  <2>2. Outstanding(InvId) = 0
    BY <1>0, <1>2, NothingInFlight DEF IsReady, IsConnected
  <2>3. Outstanding(InvId)' = 0
    BY <2>1, <2>2 DEF One
  <2> QED
    BY <2>3
<1>3. CASE Redis_ \/ (ServerFault /\ Fault)
  <2>1. (Server \/ ServerRefuse) /\ UNCHANGED <<evq, inv>>
    BY <1>3 DEF Redis_, ServerStep, ServerFault, connVars, seqVars
  <2>2. Outstanding(InvId)' = Outstanding(InvId)
    BY <2>1, AnsweredSame
  <2> QED
    BY <1>0, <2>1, <2>2, ServerStaged
<1>4. CASE ProcessRequestEvent
  BY <1>0, <1>4, SentSame, SentStaged
<1>5. CASE HandleRead
  BY <1>0, <1>5, ReadSame, ReadStaged
<1>6. CASE OnDisconnect \/ HandleLastRead
  BY <1>0, <1>6, LostSame, LostStaged DEF HandleLastRead, LastAwaited
<1>7. CASE ProcessOperationsQueue
  <2>1. UNCHANGED <<wire, sock, multi, field, inv>> /\ opQueue \in Seq(Op)
    BY <1>7 DEF ProcessOperationsQueue, redisVars, TypeOK, ConnTypeOK
  <2>2. UNCHANGED evq \/ (PerformOperations(opQueue, NoSession) /\ IsReady /\ ~busy)
    BY <1>7 DEF ProcessOperationsQueue
  <2> QED
    BY <1>1, <1>2, <2>1, <2>2
<1>8. CASE OnReconnect \/ ConnectFailed
  BY <1>1, <1>8 DEF OnReconnect, ConnectFailed, redisVars, seqVars
<1>9. CASE OnConnect
  <2>1. UNCHANGED <<wire, sock, multi, field>> /\ evq = << >> /\ ctx # "open"
    BY <1>9 DEF OnConnect, redisVars
  <2>2. CASE inited
    BY <1>1, <1>9, <2>1, <2>2 DEF OnConnect
  <2>3. CASE ~inited
    <3>1. evq' = <<Req(InvId, "KEYS")>>
      BY <1>9, <2>1, <2>3 DEF OnConnect
    <3>2. inv'.state = "GET_KEYS"
      BY <1>9, <2>3 DEF OnConnect, InvPerformed, InvCleaned, TypeOK, ConnTypeOK
    <3> QED
      BY <1>0, <2>1, <3>1, <3>2, StartStaged
  <2> QED
    BY <2>2, <2>3
<1>10. CASE InvOnError \/ InvCleaning \/ InvFinished
  <2>1. /\ evq # << >> /\ Head(evq).t = "rep" /\ Head(evq).seq = InvId /\ evq' = Tail(evq)
        /\ UNCHANGED <<wire, sock, multi, field>>
    BY <1>10 DEF InvOnError, InvCleaning, InvFinished, InvReply, redisVars
  <2>2. Outstanding(InvId)' = Outstanding(InvId) - 1
    BY <1>0, <2>1, TailStep DEF One
  <2>3. Outstanding(InvId) >= 2 /\ InvWaits(inv) >= 2
    <3>1. inv.count \in Int
      BY DEF TypeOK, ConnTypeOK
    <3>2. InvWaits(inv) \in Int /\ Outstanding(InvId) <= InvWaits(inv)
      BY <1>0, <3>1 DEF InvWaits, OneAtATime
    <3> QED
      BY <1>0, <2>2, <3>2
  <2>4. inv.state = "CLEAN_RES" /\ inv.count # 1
    BY <2>3 DEF InvWaits
  <2>5. inv' = [inv EXCEPT !.count = @ - 1]
    BY <1>10, <2>4 DEF InvOnError, InvCleaning, InvFinished
  <2>6. inv'.state = "CLEAN_RES"
    BY <2>4, <2>5 DEF TypeOK, ConnTypeOK
  <2>7. Staged
    BY <1>0, <2>3
  <2> QED
    BY <2>1, <2>4, <2>6, <2>7, TakenStaged
<1>11. CASE InvGotKeys
  <2>1. evq # << >> /\ Head(evq).seq = InvId
    BY <1>11 DEF InvGotKeys, InvReply
  <2>2. Outstanding(InvId) > 0
    BY <2>1, HeadOutstanding
  <2> QED
    BY <1>0, <1>11, <2>2, GotKeysStaged
<1>12. ASSUME NEW i \in OpIds, OpMultiAnswered(i) PROVE Staged'
  <2>1. InFlight(i)
    BY <1>12 DEF OpMultiAnswered, InFlight
  <2>2. Outstanding(InvId) = 0
    BY <1>0, <2>1 DEF OneAtATime
  <2>3. Outstanding(InvId)' = Outstanding(InvId) + IF InvId = i THEN Len(ops[i].list) ELSE 0
    BY <1>12, MultiAnsweredStep
  <2> QED
    BY <2>2, <2>3
<1>13. ASSUME NEW i \in OpIds, InFlight(i), evq # << >>, Head(evq).seq = i, evq' = Tail(evq),
              UNCHANGED <<wire, sock>>
       PROVE  FALSE
  <2>1. Outstanding(InvId) = 0
    BY <1>0, <1>13 DEF OneAtATime
  <2>2. Outstanding(InvId)' = 0
    BY <1>13, <2>1, TailStep DEF One
  <2> QED
    BY <2>2
<1>14. ASSUME NEW i \in OpIds, OpQueued(i) \/ OpErrored(i) PROVE Staged'
  BY <1>13, <1>14 DEF OpQueued, OpErrored, OpLast, OpReply, InFlight, redisVars
<1>15. ASSUME NEW i \in OpIds, OpSucceeded(i) PROVE Staged'
  <2>1. CASE inited
    BY <1>13, <1>15, <2>1 DEF OpSucceeded, OpLast, OpReply, InFlight, redisVars
  <2>2. CASE ~inited
    <3>1. wire = << >> /\ sock = << >> /\ Tail(evq) = << >>
      BY <1>0, <1>15, LastOperation DEF OpSucceeded
    <3>2. /\ evq' = Append(Tail(evq), Req(InvId, "KEYS")) /\ inv' = InvPerformed(InvCleaned)
          /\ UNCHANGED <<wire, sock>>
      BY <1>15, <2>2 DEF OpSucceeded, redisVars
    <3>3. evq' = <<Req(InvId, "KEYS")>>
      <4>1. PICK x : x = Req(InvId, "KEYS")
        OBVIOUS
      <4>2. Append(<< >>, x) = <<x>>
        BY ONLY TRUE
      <4> QED
        BY ONLY <3>1, <3>2, <4>1, <4>2
    <3>4. inv'.state = "GET_KEYS"
      BY <3>2 DEF InvPerformed, InvCleaned
    <3> QED
      BY <3>1, <3>2, <3>3, <3>4, StartStaged
  <2> QED
    BY <2>1, <2>2
<1>16. ASSUME NEW s \in Sessions, SessionThread(s) \/ RpcPut(s) PROVE Staged'
  <2>1. CASE UNCHANGED <<redisVars, connVars>>
    BY <1>1, <2>1 DEF redisVars, connVars, seqVars
  <2>2. ASSUME NEW rol \in Seq(Op), ProcessOperationsList(rol, s), UNCHANGED <<redisVars, inv>>
        PROVE  Staged'
    <3>1. UNCHANGED <<wire, sock, multi, field, inv>>
      BY <2>2 DEF redisVars
    <3>2. UNCHANGED evq \/ (PerformOperations(rol, s) /\ IsReady /\ ~busy)
      BY <2>2 DEF ProcessOperationsList
    <3> QED
      BY <1>1, <1>2, <3>1, <3>2
  <2> QED
    BY <1>16, <2>1, <2>2, SessionEffect
<1>17. CASE InvalidateUnready \/ InvalidateHandlers \/ InvalidateAnswer \/ InvalidateReset \/ ThreadResumed
            \/ UNCHANGED vars
  BY <1>1, <1>17 DEF InvalidateUnready, InvalidateHandlers, InvalidateAnswer, InvalidateReset,
     ThreadResumed, SetBusy, vars, redisVars, connVars, seqVars
<1>18. CASE InvalidateSequence
  <2>0. UNCHANGED <<wire, sock, multi, field>>
    BY <1>18 DEF InvalidateSequence, redisVars
  <2>1. CASE UNCHANGED <<evq, inv>>
    BY <1>1, <2>0, <2>1
  <2>2. CASE /\ IsConnected /\ inited /\ ~busy
             /\ inv' = InvPerformed(InvCleaned) /\ evq' = Append(evq, Req(InvId, "KEYS"))
    <3>1. Outstanding(InvId) = 0 /\ \A i \in OpIds : ~InFlight(i)
      BY <1>0, <2>2, NothingInFlight DEF IsConnected
    <3>2. \A i \in OpIds : Outstanding(i) = 0
      BY <3>1 DEF AwaitedInv, InFlight, Waits
    <3>3. wire = << >> /\ sock = << >> /\ evq = << >>
      BY <3>1, <3>2, AllQuiet
    <3>4. evq' = <<Req(InvId, "KEYS")>> /\ inv'.state = "GET_KEYS"
      BY <2>2, <3>3 DEF InvPerformed, InvCleaned
    <3> QED
      BY <2>0, <3>3, <3>4, StartStaged
  <2> QED
    BY <1>18, <2>1, <2>2 DEF InvalidateSequence, InvalidateStart
<1>19. CASE Restart
  <2>1. wire' = << >> /\ sock' = << >> /\ evq' = << >>
    BY <1>19 DEF Restart
  <2>2. Outstanding(InvId)' = 0
    BY <2>1, CountEmpty DEF Outstanding
  <2> QED
    BY <2>2
<1> QED
  BY <1>3, <1>4, <1>5, <1>6, <1>7, <1>8, <1>9, <1>10, <1>11, <1>12, <1>14, <1>15, <1>16, <1>17, <1>18,
     <1>19 DEF Next, Fault, Client, RedisThread, Invalidate

(* The pipeline at its end: the only answer left is the answer to EXEC.    *)
LEMMA FinishedCleared ==
  ASSUME TypeOK, AwaitedInv, ConnectionInv, ResetInv, InvFinished
  PROVE  AllZero(field) /\ ~multi.open
<1> USE IdFacts
<1>1. /\ evq # << >> /\ Head(evq).t = "rep" /\ Head(evq).seq = InvId /\ ~InvUnexpected(Head(evq))
      /\ (inv.state = "FINISH" \/ (inv.state = "CLEAN_RES" /\ inv.count = 1))
  BY DEF InvFinished, InvReply
<1>2. Outstanding(InvId) > 0 /\ Outstanding(InvId) \in Nat
  BY <1>1, HeadOutstanding, OutstandingType
<1>3. Outstanding(InvId) <= InvWaits(inv) /\ \A i \in OpIds : ~InFlight(i)
  BY <1>2 DEF ConnectionInv, OneAtATime
<1>4. inv.state = "CLEAN_RES" /\ inv.count = 1 /\ Outstanding(InvId) = 1
  BY <1>1, <1>2, <1>3 DEF InvWaits
<1>5. \A j \in SeqIds : j # InvId => Outstanding(j) = 0
  BY <1>3 DEF AwaitedInv, InFlight, Waits
<1>6. wire = << >> /\ sock = << >> /\ Tail(evq) = << >>
  BY <1>1, <1>4, <1>5, LastLeft
<1>7. Head(evq).res = "Success"
  BY <1>1, <1>4 DEF InvUnexpected
<1>8. PICK rq \in Seq(Request), rp \in Seq(Reply) :
        evq = rq \o rp /\ Stage(inv.state, rp \o sock, wire \o rq, multi, field)
  BY <1>2 DEF ResetInv, Staged
<1>9. rq = << >> /\ rp = evq
  BY <1>1, <1>8, QueueParts
<1>10. rp \o sock = rp /\ wire \o rq = << >>
  BY <1>6, <1>9, ConcatEmptySeq
<1>11. rp # << >> /\ rp[Len(rp)] = Head(evq)
  <2>1. rp # << >> /\ Tail(rp) = << >>
    BY <1>1, <1>6, <1>9
  <2>2. Len(Tail(rp)) = Len(rp) - 1 /\ Len(rp) \in Nat
    BY ONLY <2>1, rp \in Seq(Reply), HeadTailProperties
  <2>4. Head(rp) = rp[1]
    BY ONLY <2>1, rp \in Seq(Reply)
  <2>3. Len(rp) = 1
    <3>1. PICK t : t = Tail(rp)
      OBVIOUS
    <3>2. Len(t) = Len(rp) - 1
      BY ONLY <2>2, <3>1
    <3>3. Len(t) = 0
      <4>1. t = << >>
        BY ONLY <2>1, <3>1
      <4> QED
        BY ONLY <4>1
    <3> QED
      BY ONLY <2>2, <3>2, <3>3
  <2> QED
    BY ONLY <1>9, <2>1, <2>3, <2>4
<1>12. Clearing(rp, << >>, multi, field)
  BY <1>4, <1>8, <1>10 DEF Stage
<1> QED
  BY <1>7, <1>11, <1>12 DEF Clearing

(* InvFinished is the only step that sets resources_inited.                *)
LEMMA InitedByFinish ==
  ASSUME TypeOK, [Next]_vars, ~inited, inited'
  PROVE  InvFinished
<1>1. ASSUME NEW s \in Sessions, SessionThread(s) \/ RpcPut(s) PROVE FALSE
  BY <1>1, SessionEffect DEF connVars, seqVars
<1>2. CASE Redis_ \/ ServerFault \/ OnDisconnect \/ ConnectFailed
  BY <1>2 DEF Redis_, ServerStep, ServerFault, OnDisconnect, ConnectFailed, connVars, seqVars
<1>3. CASE ThreadResumed \/ Invalidate \/ Restart \/ UNCHANGED vars
  BY <1>3 DEF ThreadResumed, SetBusy, Invalidate, InvalidateUnready, InvalidateHandlers,
     InvalidateSequence, InvalidateReset, InvalidateAnswer, Restart, vars, connVars, seqVars
<1>4. CASE Client
  BY <1>4 DEF Client, RedisThread, ProcessRequestEvent, HandleRead, HandleLastRead,
     ProcessOperationsQueue, OnReconnect, OnConnect, InvOnError, InvGotKeys, InvCleaning, OpMultiAnswered,
     OpQueued, OpSucceeded, OpErrored,
     seqVars
<1> QED
  BY <1>1, <1>2, <1>3, <1>4 DEF Next, Fault

LEMMA ResetInit ==
  ASSUME Init
  PROVE  ResetInv
<1>1. wire = << >> /\ sock = << >> /\ evq = << >> /\ ~multi.open
  BY DEF Init, RedisInit, ConnInit, NoMulti
<1>2. Outstanding(InvId) = 0
  BY <1>1, CountEmpty DEF Outstanding
<1>3. KeyExists
  BY DEF Init, RedisInit, KeyExists, Counts
<1> QED
  BY <1>1, <1>2, <1>3 DEF ResetInv

LEMMA ResetInductive ==
  ASSUME TypeOK, TypeOK', AwaitedInv, ConnectionInv, ResetInv, Preemption = FALSE, [Next]_vars
  PROVE  ResetInv'
<1>1. KeyExists'
  BY KeysKept DEF ResetInv
<1>2. ctx' # "open" => ~multi'.open
  BY MultiClosed DEF ResetInv
<1>3. Outstanding(InvId)' > 0 => Staged'
  BY StagedKept
<1> QED
  BY <1>1, <1>2, <1>3 DEF ResetInv

(* At the moment resources_inited becomes true every counter of this node  *)
(* is zero: whatever commands redis refused, whenever the connection broke *)
(* and whichever invalidation was interrupted, a half-cleared transaction  *)
(* is never taken for a finished one (InvalidateResources, on_connect,     *)
(* process_reply_event).  For every set of keys and sessions and any       *)
(* number of faults, while the threads post and set flags atomically.      *)
THEOREM CountersAreCleared ==
  ASSUME Preemption = FALSE
  PROVE  Spec => InitedAfterReset
<1>1. Init => AwaitedInv /\ ConnectionInv /\ ResetInv
  BY ConnectionInit, ResetInit
<1>2. TypeOK /\ TypeOK' /\ AwaitedInv /\ ConnectionInv /\ ResetInv /\ [Next]_vars
        => (AwaitedInv /\ ConnectionInv /\ ResetInv)'
  BY AwaitedInductive, ConnectionInductive, ResetInductive
<1>3. TypeOK /\ AwaitedInv /\ ConnectionInv /\ ResetInv /\ [Next]_vars
        => [~inited /\ inited' => \A k \in Keys, s \in Sessions : field[k][s] = 0]_vars
  BY InitedByFinish, FinishedCleared DEF AllZero
<1> QED
  BY <1>1, <1>2, <1>3, TypeCorrect, PTL DEF Spec, InitedAfterReset

-----------------------------------------------------------------------------
(* The account of a session: what redis counts for it, what is on its way  *)
(* to redis and what the session holds.                                    *)

(* The accounts are kept from the first clearing of the counters to the    *)
(* next loss of an operation.                                              *)
Accounting == clears = 1 /\ inited /\ proc = "running"

(* The increments of an operation sequence.                                *)
Incs(i, list) ==
  [j \in 1..Len(list) |->
     HIncrBy(i, list[j].k, list[j].s, IF list[j].op = "get" THEN 1 ELSE -1)]

(* The answer to EXEC is among the answers.                                *)
Granted(r, i) == r.seq = i /\ r.kind = "array"
Answered(done, i) == \E j \in DOMAIN done : Granted(done[j], i)

(* An operation sequence as a pipeline, as for the invalidation: MULTI,    *)
(* the increments and EXEC; nothing of it is executed before EXEC, all of  *)
(* it after, and the last answer is that of EXEC.                          *)
Opening(i, done, todo, m) ==
  IF todo # << >> THEN todo = <<Req(i, "MULTI")>> /\ ~m.open
  ELSE m.open /\ ~m.bad /\ m.q = << >> /\ ~Answered(done, i)

Booking(i, list, done, todo, m) ==
  IF todo # << >>
    THEN m.open /\ ~m.bad /\ m.q \o todo = OpCommands(i, list) /\ ~Answered(done, i)
    ELSE ~m.open /\ Granted(done[Len(done)], i)

(* The answers are those processRedisReply expects, EXEC's the n-th.       *)
Expected(n, done) ==
  \A j \in DOMAIN done : done[j].res = IF j = n THEN "Success" ELSE "Status"

OpStage(i, op, done, todo, m) ==
  /\ Len(done) + Len(todo) = Waits(op)
  /\ op.state = "MULTI_START" => Opening(i, done, todo, m)
  /\ op.state = "OP_RES" => Booking(i, op.list, done, todo, m) /\ Expected(Waits(op), done)
  /\ op.err = FALSE

OpStaged(i) ==
  \E rq \in Seq(Request), rp \in Seq(Reply) :
    evq = rq \o rp /\ OpStage(i, ops[i], rp \o sock, wire \o rq, multi)

(* The inductive invariant of the operations.                              *)
PipeInv ==
  Accounting =>
    /\ \A i \in OpIds : InFlight(i) => ctx = "open" /\ OpStaged(i)
    /\ (\A i \in OpIds : ~InFlight(i)) => ~multi.open

(* Before the counters were cleared nothing is taken.                      *)
EarlyInv ==
  clears = 0 =>
    /\ ~inited /\ ~container_ready /\ opQueue = << >>
    /\ \A i \in OpIds : ~InFlight(i)
    /\ \A s \in Sessions : spc[s] \notin {"check", "emplace"} /\ handlers[s] = "none"

-----------------------------------------------------------------------------
(* The commands of a list.                                                 *)
LEMMA CommandsOf ==
  ASSUME NEW i \in OpIds, NEW list \in Seq(Op)
  PROVE  /\ Incs(i, list) \in Seq(Request) /\ Len(Incs(i, list)) = Len(list)
         /\ OpCommands(i, list) = Incs(i, list) \o <<Req(i, "EXEC")>>
         /\ OpCommands(i, list) \in Seq(Request) /\ Len(OpCommands(i, list)) = Len(list) + 1
         /\ OpCommands(i, list)[Len(list) + 1] = Req(i, "EXEC")
         /\ \A j \in 1..Len(list) : /\ OpCommands(i, list)[j] = Incs(i, list)[j]
                                    /\ Incs(i, list)[j].cmd = "HINCRBY"
         /\ \A j \in 1..(Len(list) + 1) : OpCommands(i, list)[j].seq = i
<1>1. PICK n \in Nat : n = Len(list)
  OBVIOUS
<1>2. \A j \in 1..n : list[j] \in Op
  BY <1>1
<1>3. \A j \in 1..n : list[j].k \in Keys /\ list[j].s \in Sessions
  BY <1>2 DEF Op
<1>4. PICK h : h = Incs(i, list)
  OBVIOUS
<1>5. ASSUME NEW j \in 1..n PROVE h[j] \in Request /\ h[j].cmd = "HINCRBY" /\ h[j].seq = i
  <2>1. PICK d \in {-1, 0, 1} : h[j] = HIncrBy(i, list[j].k, list[j].s, d)
    BY <1>1, <1>4 DEF Incs
  <2>2. HIncrBy(i, list[j].k, list[j].s, d) \in Request
    BY <1>3, EventTypes, IdFacts
  <2>3. /\ HIncrBy(i, list[j].k, list[j].s, d).cmd = "HINCRBY"
        /\ HIncrBy(i, list[j].k, list[j].s, d).seq = i
    BY ONLY TRUE DEF HIncrBy, Req
  <2> QED
    BY ONLY <2>1, <2>2, <2>3
<1>6. h \in Seq(Request) /\ Len(h) = n
  BY <1>1, <1>4, <1>5 DEF Incs
<1>7. PICK x \in Request : x = Req(i, "EXEC") /\ x.seq = i
  BY EventTypes, IdFacts DEF Commands, Req
<1>8. OpCommands(i, list) = h \o <<x>>
  BY <1>4, <1>7 DEF OpCommands, Incs
<1>9. /\ h \o <<x>> \in Seq(Request) /\ Len(h \o <<x>>) = n + 1 /\ (h \o <<x>>)[n + 1] = x
      /\ \A j \in 1..n : (h \o <<x>>)[j] = h[j]
  BY <1>6
<1>10. \A j \in 1..(n + 1) : (h \o <<x>>)[j].seq = i
  BY <1>5, <1>7, <1>9
<1> QED
  BY <1>1, <1>4, <1>5, <1>6, <1>7, <1>8, <1>9, <1>10

(* The next command of a transaction, and what is left.                    *)
NextIs(i, list, q, h, t) ==
  /\ h.seq = i
  /\ t # << >> => h.cmd = "HINCRBY" /\ Append(q, h) \o t = OpCommands(i, list)
  /\ t = << >> => h.cmd = "EXEC" /\ q = Incs(i, list)

LEMMA NextCommand ==
  ASSUME NEW i \in OpIds, NEW list \in Seq(Op), NEW q \in Seq(Request), NEW todo \in Seq(Request),
         todo # << >>, q \o todo = OpCommands(i, list)
  PROVE  NextIs(i, list, q, Head(todo), Tail(todo))
<1>1. PICK a \in Nat, b \in Nat, n \in Nat : a = Len(q) /\ b = Len(todo) /\ n = Len(list) /\ b > 0
  OBVIOUS
<1>2. PICK c \in Seq(Request) : c = OpCommands(i, list)
  BY CommandsOf
<1>3. /\ Len(c) = n + 1 /\ c[n + 1] = Req(i, "EXEC")
      /\ \A j \in 1..n : c[j] = Incs(i, list)[j] /\ Incs(i, list)[j].cmd = "HINCRBY"
      /\ \A j \in 1..(n + 1) : c[j].seq = i
      /\ Incs(i, list) \in Seq(Request) /\ Len(Incs(i, list)) = n
  BY <1>1, <1>2, CommandsOf
<1>4. Len(c) = a + b /\ (\A j \in 1..a : c[j] = q[j]) /\ c[a + 1] = todo[1]
  <2>1. c = q \o todo
    BY <1>2
  <2>2. Len(q \o todo) = a + b /\ (\A j \in 1..a : (q \o todo)[j] = q[j]) /\ (q \o todo)[a + 1] = todo[1]
    BY ONLY <1>1, q \in Seq(Request), todo \in Seq(Request)
  <2> QED
    BY ONLY <2>1, <2>2
<1>5. a + b = n + 1
  BY <1>3, <1>4
<1>6. Head(todo) = todo[1] /\ Tail(todo) \in Seq(Request) /\ Len(Tail(todo)) = b - 1
  BY <1>1
<1>7. Tail(todo) = << >> <=> b = 1
  <2>1. PICK t \in Seq(Request) : t = Tail(todo) /\ Len(t) = b - 1
    BY <1>6
  <2>2. t = << >> <=> Len(t) = 0
    BY EmptySeq
  <2> QED
    BY ONLY <1>1, <2>1, <2>2
<1>8. a + 1 \in 1..(n + 1) /\ (b # 1 => a + 1 \in 1..n) /\ (b = 1 => a = n)
  <2>1. b > 0
    BY <1>1
  <2> QED
    BY ONLY <1>5, <2>1, a \in Nat, b \in Nat, n \in Nat
<1>9. Head(todo).seq = i
  BY <1>3, <1>4, <1>6, <1>8
<1>10. ASSUME b # 1 PROVE Head(todo).cmd = "HINCRBY"
  BY <1>3, <1>4, <1>6, <1>8, <1>10
<1>11. ASSUME b = 1 PROVE Head(todo).cmd = "EXEC" /\ q = Incs(i, list)
  <2>1. Head(todo) = Req(i, "EXEC")
    BY <1>3, <1>4, <1>6, <1>8, <1>11
  <2>2. PICK h \in Seq(Request) : h = Incs(i, list) /\ Len(h) = n /\ \A j \in 1..n : c[j] = h[j]
    BY <1>3
  <2>3. Len(q) = n /\ \A j \in 1..n : q[j] = h[j]
    BY <1>1, <1>4, <1>8, <1>11, <2>2
  <2>4. q = h
    BY ONLY <2>2, <2>3, q \in Seq(Request), SeqEqual
  <2> QED
    BY <2>1, <2>2, <2>4 DEF Req
<1>12. Append(q, Head(todo)) \o Tail(todo) = OpCommands(i, list)
  <2>1. Append(q, Head(todo)) \o Tail(todo) = q \o todo
    BY ONLY q \in Seq(Request), todo \in Seq(Request), todo # << >>, Shuffle
  <2> QED
    BY <2>1
<1> QED
  BY <1>7, <1>9, <1>10, <1>11, <1>12 DEF NextIs


(* An answer that is not an EXEC's changes nothing in what was answered.   *)
LEMMA StillUnanswered ==
  ASSUME NEW done \in Seq(Reply), NEW r \in Reply, NEW i, ~Answered(done, i), r.kind # "array"
  PROVE  ~Answered(Append(done, r), i)
<1>1. \A j \in DOMAIN Append(done, r) : (j \in DOMAIN done /\ Append(done, r)[j] = done[j])
                                        \/ Append(done, r)[j] = r
  OBVIOUS
<1> QED
  BY <1>1 DEF Answered, Granted

LEMMA AnswerExpected ==
  ASSUME NEW done \in Seq(Reply), NEW r \in Reply, NEW n \in Int, Expected(n, done),
         r.res = IF Len(done) + 1 = n THEN "Success" ELSE "Status"
  PROVE  Expected(n, Append(done, r))
<1>1. \A j \in DOMAIN Append(done, r) : (j \in DOMAIN done /\ Append(done, r)[j] = done[j])
                                        \/ (j = Len(done) + 1 /\ Append(done, r)[j] = r)
  OBVIOUS
<1> QED
  BY <1>1 DEF Expected

(* The server executes the next command of an operation sequence: the      *)
(* increments are queued, and applied together by EXEC.                    *)
LEMMA OpServed ==
  ASSUME TypeOK, Server, NEW i \in OpIds, InFlight(i), NEW done \in Seq(Reply),
         NEW todo \in Seq(Request), todo # << >>, Head(wire) = Head(todo),
         OpStage(i, ops[i], done, todo, multi)
  PROVE  /\ \E r \in Reply : /\ wire' = Tail(wire) /\ sock' = Append(sock, r)
                             /\ OpStage(i, ops[i], Append(done, r), Tail(todo), multi')
         /\ \/ /\ field' = field
               /\ ops[i].state = "OP_RES" => multi'.open /\ multi.open
            \/ /\ ops[i].state = "OP_RES" /\ multi.open /\ ~multi'.open
               /\ Apply(Incs(i, ops[i].list))
<1>0. /\ ops[i] \in SeqType /\ multi \in MultiType /\ multi.q \in Seq(Request)
  BY DEF TypeOK, RedisTypeOK, ConnTypeOK, SeqType, MultiType
<1>1. PICK op \in SeqType : op = ops[i] /\ op.state \in {"MULTI_START", "OP_RES"} /\ op.list \in Seq(Op)
  BY <1>0 DEF SeqType, InFlight
<1>2. PICK h \in Request, t \in Seq(Request) : h = Head(todo) /\ t = Tail(todo) /\ h = Head(wire)
  <2>1. Head(todo) \in Request /\ Tail(todo) \in Seq(Request)
    BY ONLY todo \in Seq(Request), todo # << >>
  <2> QED
    BY <2>1
<1>3. PICK a \in Nat, b \in Nat : a = Len(done) /\ b = Len(todo) /\ b > 0 /\ Len(t) = b - 1
  BY <1>2
<1>4. a + b = Waits(op) /\ i \in SeqIds
  BY <1>1, <1>3, IdFacts DEF OpStage
<1>5. ASSUME NEW e \in Results, NEW kd \in {"none", "int", "array", "keys"}, h.seq = i,
             Respond(Rep(h.seq, e, kd, {}))
      PROVE  \E r \in Reply : /\ r.kind = kd /\ r.seq = i /\ r.res = e
                              /\ wire' = Tail(wire) /\ sock' = Append(sock, r)
  <2>1. PICK r : r = Rep(i, e, kd, {})
    OBVIOUS
  <2>2. r \in Reply /\ r.kind = kd /\ r.seq = i /\ r.res = e
    BY <1>4, <2>1, EventTypes DEF Rep
  <2> QED
    BY <1>5, <2>1, <2>2 DEF Respond
<1>6. (\A r \in Reply : Len(Append(done, r)) + Len(t) = Waits(op)) /\ op.err = FALSE
  BY <1>1, <1>3, <1>4 DEF OpStage
<1>7. CASE op.state = "MULTI_START"
  <2>1. todo = <<Req(i, "MULTI")>> /\ ~multi.open
    BY <1>1, <1>7 DEF OpStage, Opening
  <2>2. h = Req(i, "MULTI") /\ t = << >> /\ b = 1
    BY <1>2, <1>3, <2>1
  <2>3. h.cmd = "MULTI" /\ h.seq = i
    BY <2>2, IdFacts DEF Req
  <2>4. a = 0
    BY <1>4, <1>7, <2>2 DEF Waits
  <2>5. /\ Respond(Rep(h.seq, "Status", "none", {})) /\ multi' = [NoMulti EXCEPT !.open = TRUE]
        /\ field' = field
    BY <1>2, <2>1, <2>3 DEF Server, ServerMulti, ServerQueue, ServerKeys, ServerDirect, ServerExec
  <2>6. PICK r \in Reply : r.kind = "none" /\ wire' = Tail(wire) /\ sock' = Append(sock, r)
    BY <1>5, <2>3, <2>5 DEF Results
  <2>7. ~Answered(done, i)
    <3>1. done = << >>
      BY <1>3, <2>4, EmptySeq
    <3> QED
      BY <3>1 DEF Answered
  <2>8. ~Answered(Append(done, r), i)
    BY <2>6, <2>7, StillUnanswered
  <2>9. multi'.open /\ ~multi'.bad /\ multi'.q = << >>
    BY <2>5 DEF NoMulti
  <2>10. OpStage(i, op, Append(done, r), t, multi')
    BY <1>6, <1>7, <2>2, <2>8, <2>9 DEF OpStage, Opening
  <2> QED
    BY <1>1, <1>2, <1>7, <2>5, <2>6, <2>10
<1>8. CASE op.state = "OP_RES"
  <2>1. /\ multi.open /\ ~multi.bad /\ multi.q \o todo = OpCommands(i, op.list) /\ ~Answered(done, i)
        /\ Expected(a + b, done)
    BY <1>1, <1>4, <1>8 DEF OpStage, Booking
  <2>2. PICK q \in Seq(Request) : q = multi.q /\ q \o todo = OpCommands(i, op.list)
    BY <1>0, <2>1
  <2>3. /\ h.seq = i
        /\ t # << >> => h.cmd = "HINCRBY" /\ Append(q, h) \o t = OpCommands(i, op.list)
        /\ t = << >> => h.cmd = "EXEC" /\ q = Incs(i, op.list)
    <3>1. PICK list \in Seq(Op) : list = op.list
      BY <1>1
    <3>2. q \o todo = OpCommands(i, list)
      BY <2>2, <3>1
    <3>3. /\ h.seq = i
          /\ t # << >> => h.cmd = "HINCRBY" /\ Append(q, h) \o t = OpCommands(i, list)
          /\ t = << >> => h.cmd = "EXEC" /\ q = Incs(i, list)
      <4>1. NextIs(i, list, q, Head(todo), Tail(todo))
        BY ONLY <3>2, NextCommand, i \in OpIds, list \in Seq(Op), q \in Seq(Request),
           todo \in Seq(Request), todo # << >>
      <4> QED
        BY ONLY <1>2, <4>1 DEF NextIs
    <3> QED
      BY <3>1, <3>3
  <2>4. CASE t # << >>
    <3>1. h.cmd = "HINCRBY"
      BY <2>3, <2>4
    <3>2. /\ Respond(Rep(h.seq, "Status", "none", {})) /\ multi' = [multi EXCEPT !.q = Append(@, h)]
          /\ field' = field
      BY <1>2, <2>1, <3>1 DEF Server, ServerMulti, ServerQueue, ServerKeys, ServerDirect, ServerExec
    <3>3. PICK r \in Reply : /\ r.kind = "none" /\ r.res = "Status"
                             /\ wire' = Tail(wire) /\ sock' = Append(sock, r)
      BY <1>5, <2>3, <3>2 DEF Results
    <3>4. Expected(a + b, Append(done, r))
      <4>1. a + 1 # a + b
        BY <1>2, <1>3, <2>4, EmptySeq
      <4> QED
        BY <1>3, <2>1, <3>3, <4>1, AnswerExpected
    <3>5. ~Answered(Append(done, r), i)
      BY <2>1, <3>3, StillUnanswered
    <3>6. multi'.open /\ ~multi'.bad /\ multi'.q = Append(q, h)
      BY <1>0, <2>1, <2>2, <3>2 DEF MultiType
    <3>7. multi'.q \o t = OpCommands(i, op.list)
      BY <2>3, <2>4, <3>6
    <3>8. OpStage(i, op, Append(done, r), t, multi')
      BY <1>4, <1>6, <1>8, <2>4, <3>5, <3>6, <3>7, <3>4 DEF OpStage, Booking
    <3> QED
      BY <1>1, <1>2, <2>1, <3>2, <3>3, <3>6, <3>8
  <2>5. CASE t = << >>
    <3>1. h.cmd = "EXEC" /\ multi.q = Incs(i, op.list)
      BY <2>2, <2>3, <2>5
    <3>2. /\ Respond(Rep(h.seq, "Success", "array", {})) /\ multi' = NoMulti /\ Apply(multi.q)
      BY <1>2, <2>1, <3>1 DEF Server, ServerMulti, ServerQueue, ServerKeys, ServerDirect, ServerExec
    <3>3. PICK r \in Reply : /\ r.kind = "array" /\ r.seq = i /\ r.res = "Success"
                             /\ wire' = Tail(wire) /\ sock' = Append(sock, r)
      BY <1>5, <2>3, <3>2 DEF Results
    <3>4. Expected(a + b, Append(done, r))
      <4>1. b - 1 = 0
        <5>1. Len(t) = b - 1 /\ Len(t) = 0
          BY <1>3, <2>5
        <5> QED
          BY ONLY <5>1
      <4>2. a + 1 = a + b
        BY ONLY <4>1, a \in Nat, b \in Nat
      <4>3. Expected(a + 1, done) /\ r.res = IF Len(done) + 1 = a + 1 THEN "Success" ELSE "Status"
        BY <1>3, <2>1, <3>3, <4>2
      <4>4. Expected(a + 1, Append(done, r))
        BY ONLY <4>3, AnswerExpected, done \in Seq(Reply), r \in Reply, a \in Nat
      <4> QED
        BY ONLY <4>2, <4>4
    <3>5. Append(done, r)[Len(Append(done, r))] = r
      OBVIOUS
    <3>6. ~multi'.open
      BY <3>2 DEF NoMulti
    <3>7. OpStage(i, op, Append(done, r), t, multi')
      BY <1>4, <1>6, <1>8, <2>5, <3>3, <3>5, <3>6, <3>4 DEF OpStage, Booking, Granted
    <3>8. Apply(Incs(i, ops[i].list))
      BY <1>1, <3>1, <3>2
    <3> QED
      BY <1>1, <1>2, <1>8, <2>1, <3>3, <3>6, <3>7, <3>8
  <2> QED
    BY <2>4, <2>5
<1> QED
  BY <1>1, <1>7, <1>8

LEMMA OpServerStaged ==
  ASSUME TypeOK, Server, NEW i \in OpIds, InFlight(i), OpStaged(i), UNCHANGED <<evq, ops>>
  PROVE  /\ OpStaged(i)'
         /\ \/ /\ field' = field
               /\ ops[i].state = "OP_RES" => multi'.open /\ multi.open
            \/ /\ ops[i].state = "OP_RES" /\ multi.open /\ ~multi'.open
               /\ Apply(Incs(i, ops[i].list))
<1>1. PICK rq \in Seq(Request), rp \in Seq(Reply) :
        evq = rq \o rp /\ OpStage(i, ops[i], rp \o sock, wire \o rq, multi)
  BY DEF OpStaged
<1>2. wire \in Seq(Request) /\ sock \in Seq(Reply) /\ wire # << >>
  BY <1>1, QueueParts DEF Server, ServerMulti, ServerQueue, ServerKeys, ServerDirect, ServerExec
<1>3. PICK done \in Seq(Reply), todo \in Seq(Request) : done = rp \o sock /\ todo = wire \o rq
  BY <1>2, Shuffle
<1>4. todo # << >> /\ Head(todo) = Head(wire) /\ Tail(todo) = Tail(wire) \o rq
  BY <1>2, <1>3, Shuffle
<1>5. OpStage(i, ops[i], done, todo, multi)
  BY <1>1, <1>3
<1>6. /\ \E r \in Reply : /\ wire' = Tail(wire) /\ sock' = Append(sock, r)
                          /\ OpStage(i, ops[i], Append(done, r), Tail(todo), multi')
      /\ \/ /\ field' = field
            /\ ops[i].state = "OP_RES" => multi'.open /\ multi.open
         \/ /\ ops[i].state = "OP_RES" /\ multi.open /\ ~multi'.open
            /\ Apply(Incs(i, ops[i].list))
  BY <1>4, <1>5, OpServed
<1>7. PICK r \in Reply : /\ wire' = Tail(wire) /\ sock' = Append(sock, r)
                         /\ OpStage(i, ops[i], Append(done, r), Tail(todo), multi')
  BY <1>6
<1>8. rp \o sock' = Append(done, r) /\ wire' \o rq = Tail(todo)
  <2>1. rp \o Append(sock, r) = Append(rp \o sock, r)
    BY <1>2, AppendRight
  <2> QED
    BY <1>3, <1>4, <1>7, <2>1
<1>9. OpStaged(i)'
  BY <1>1, <1>7, <1>8 DEF OpStaged
<1> QED
  BY <1>6, <1>9

LEMMA OpReadStaged ==
  ASSUME TypeOK, NEW i \in OpIds, OpStaged(i), HandleRead
  PROVE  OpStaged(i)'
<1>1. PICK rq \in Seq(Request), rp \in Seq(Reply) :
        evq = rq \o rp /\ OpStage(i, ops[i], rp \o sock, wire \o rq, multi)
  BY DEF OpStaged
<1>2. sock # << >> /\ evq' = Append(evq, Head(sock)) /\ sock' = Tail(sock)
      /\ UNCHANGED <<wire, multi, ops>>
  BY DEF HandleRead, seqVars
<1>3. rq \in Seq(Events) /\ rp \in Seq(Events) /\ sock \in Seq(Reply)
  BY <1>1, QueueParts
<1>4. PICK x \in Reply : x = Head(sock)
  BY <1>2, <1>3
<1>5. x \in Events
  BY DEF Events
<1>6. evq' = rq \o Append(rp, x)
  <2>1. rq \o Append(rp, x) = Append(rq \o rp, x)
    BY <1>3, <1>5, AppendRight
  <2> QED
    BY <1>1, <1>2, <1>4, <2>1
<1>7. Append(rp, x) \in Seq(Reply) /\ Append(rp, x) \o sock' = rp \o sock
  BY <1>2, <1>3, <1>4, Shuffle
<1> QED
  BY <1>1, <1>2, <1>6, <1>7 DEF OpStaged

LEMMA OpSentStaged ==
  ASSUME TypeOK, NEW i \in OpIds, OpStaged(i), ProcessRequestEvent, ctx = "open"
  PROVE  OpStaged(i)'
<1>1. PICK rq \in Seq(Request), rp \in Seq(Reply) :
        evq = rq \o rp /\ OpStage(i, ops[i], rp \o sock, wire \o rq, multi)
  BY DEF OpStaged
<1>2. evq # << >> /\ Head(evq).t = "req" /\ UNCHANGED <<sock, multi, ops>>
  BY DEF ProcessRequestEvent, seqVars
<1>3. rq # << >> /\ Head(evq) = Head(rq) /\ Tail(evq) = Tail(rq) \o rp /\ wire \in Seq(Request)
  BY <1>1, <1>2, QueueParts
<1>4. evq' = Tail(rq) \o rp /\ wire' = Append(wire, Head(rq)) /\ Tail(rq) \in Seq(Request)
  <2>1. Tail(rq) \in Seq(Request)
    BY ONLY <1>3, rq \in Seq(Request)
  <2> QED
    BY <1>3, <2>1 DEF ProcessRequestEvent, IsConnected
<1>5. Append(wire, Head(rq)) \o Tail(rq) = wire \o rq
  <2>1. wire \in Seq(Request) /\ rq \in Seq(Request) /\ rq # << >>
    BY ONLY <1>3, rq \in Seq(Request)
  <2> QED
    BY ONLY <2>1, Shuffle
<1> QED
  BY <1>1, <1>2, <1>4, <1>5 DEF OpStaged


-----------------------------------------------------------------------------
(* The pipeline seen from the redis thread.                                *)

(* A reply at the head of the queue: there are only replies in the queue.  *)
LEMMA OpAnswers ==
  ASSUME TypeOK, NEW i \in OpIds, OpStaged(i), evq # << >>, Head(evq).t = "rep"
  PROVE  /\ evq \in Seq(Reply) /\ sock \in Seq(Reply) /\ wire \in Seq(Request)
         /\ OpStage(i, ops[i], evq \o sock, wire, multi)
<1>1. PICK rq \in Seq(Request), rp \in Seq(Reply) :
        evq = rq \o rp /\ OpStage(i, ops[i], rp \o sock, wire \o rq, multi)
  BY DEF OpStaged
<1>2. rq = << >> /\ rp = evq /\ wire \in Seq(Request) /\ sock \in Seq(Reply)
  BY <1>1, QueueParts
<1>3. wire \o << >> = wire
  BY ONLY <1>2, ConcatEmptySeq
<1> QED
  BY <1>1, <1>2, <1>3

LEMMA OpStagedBy ==
  ASSUME NEW i \in OpIds, NEW rq \in Seq(Request), NEW rp \in Seq(Reply), evq' = rq \o rp,
         OpStage(i, ops'[i], rp \o sock', wire' \o rq, multi')
  PROVE  OpStaged(i)'
BY DEF OpStaged

LEMMA OpStagedSame ==
  ASSUME NEW i \in OpIds, OpStaged(i), UNCHANGED <<evq, sock, wire, multi, ops>>
  PROVE  OpStaged(i)'
BY DEF OpStaged

(* perform() on a connection where nothing is under way.                   *)
LEMMA OpStarted ==
  ASSUME NEW i \in OpIds, NEW list \in Seq(Op), ops'[i] = NewSeq(list), wire' = << >>, sock' = << >>,
         evq' = <<Req(i, "MULTI")>>, ~multi'.open
  PROVE  OpStaged(i)'
<1>1. PICK x \in Request : x = Req(i, "MULTI")
  BY IdFacts, EventTypes DEF Commands
<1>2. <<x>> \in Seq(Request) /\ << >> \in Seq(Reply)
  OBVIOUS
<1>3. <<x>> \o << >> = <<x>> /\ << >> \o << >> = << >> /\ << >> \o <<x>> = <<x>>
      /\ Len(<<x>>) = 1 /\ Len(<< >>) = 0 /\ <<x>> # << >>
  BY ONLY x \in Request, ConcatEmptySeq
<1>4. PICK op : op = NewSeq(list) /\ op.state = "MULTI_START" /\ op.err = FALSE
  BY DEF NewSeq
<1>5. OpStage(i, op, << >>, <<x>>, multi')
  BY <1>1, <1>3, <1>4 DEF OpStage, Opening, Waits
<1> QED
  BY <1>1, <1>2, <1>3, <1>4, <1>5, OpStagedBy

(* The answer to MULTI: the transaction is open.                           *)
LEMMA OpMultiStaged ==
  ASSUME TypeOK, NEW i \in OpIds, OpStaged(i), OpMultiAnswered(i)
  PROVE  OpStaged(i)' /\ multi.open
<1>1. /\ evq # << >> /\ Head(evq).t = "rep" /\ ops[i].state = "MULTI_START"
      /\ evq' = Tail(evq) \o OpCommands(i, ops[i].list)
      /\ UNCHANGED <<wire, sock, multi>>
  BY DEF OpMultiAnswered, OpReply, redisVars
<1>2. /\ evq \in Seq(Reply) /\ sock \in Seq(Reply) /\ wire \in Seq(Request)
      /\ OpStage(i, ops[i], evq \o sock, wire, multi)
  BY <1>1, OpAnswers
<1>3. PICK a \in Nat, b \in Nat, c \in Nat : a = Len(evq) /\ b = Len(sock) /\ c = Len(wire) /\ a > 0
  BY <1>1, <1>2, EmptySeq
<1>4. Len(evq \o sock) = a + b
  BY ONLY <1>2, <1>3
<1>5. a + b + c = 1
  BY <1>1, <1>2, <1>3, <1>4 DEF OpStage, Waits
<1>6. a = 1 /\ b = 0 /\ c = 0
  BY ONLY <1>3, <1>5
<1>7. wire = << >> /\ sock = << >>
  BY ONLY <1>2, <1>3, <1>6, EmptySeq
<1>8. Tail(evq) = << >>
  <2>1. Tail(evq) \in Seq(Reply) /\ Len(Tail(evq)) = 0
    <3>1. evq # << >> /\ evq \in Seq(Reply)
      BY <1>1, <1>2
    <3>2. Tail(evq) \in Seq(Reply) /\ Len(Tail(evq)) = Len(evq) - 1
      BY ONLY <3>1, HeadTailProperties
    <3> QED
      BY ONLY <1>3, <1>6, <3>2
  <2> QED
    BY ONLY <2>1, EmptySeq
<1>9. multi.open /\ ~multi.bad /\ multi.q = << >>
  BY <1>1, <1>2, <1>7 DEF OpStage, Opening
<1>10. PICK list \in Seq(Op) : list = ops[i].list
  BY DEF TypeOK, ConnTypeOK
<1>11. PICK cs \in Seq(Request) : cs = OpCommands(i, list) /\ Len(cs) = Len(list) + 1
  BY CommandsOf
<1>12. evq' = cs
  <2>1. << >> \o cs = cs
    BY ONLY cs \in Seq(Request), ConcatEmptySeq
  <2> QED
    BY ONLY <1>1, <1>8, <1>10, <1>11, <2>1
<1>13. /\ ops'[i].state = "OP_RES" /\ ops'[i].list = list /\ ops'[i].count = Len(list) + 1
       /\ ops'[i].err = FALSE
  <2>1. ops[i].err = FALSE
    BY <1>2 DEF OpStage
  <2> QED
    BY <1>10, <2>1 DEF OpMultiAnswered, TypeOK, ConnTypeOK
<1>14. PICK op : /\ op = ops'[i] /\ op.state = "OP_RES" /\ op.list = list /\ op.count = Len(list) + 1
                 /\ op.err = FALSE
  BY <1>13
<1>15. cs \o << >> = cs /\ << >> \o cs = cs /\ << >> \o << >> = << >> /\ Len(<< >>) = 0
       /\ << >> \in Seq(Reply)
  BY ONLY cs \in Seq(Request), ConcatEmptySeq
<1>16. cs # << >>
  BY ONLY <1>11, list \in Seq(Op)
<1>17. ~Answered(<< >>, i)
  BY DEF Answered
<1>18. OpStage(i, op, << >>, cs, multi')
  <2>1. Len(<< >>) + Len(cs) = Waits(op)
    BY <1>11, <1>14, <1>15 DEF Waits
  <2>2. multi' = multi
    BY <1>1
  <2>3. Booking(i, op.list, << >>, cs, multi')
    BY <1>9, <1>11, <1>14, <1>15, <1>16, <1>17, <2>2 DEF Booking
  <2> QED
    BY <1>14, <2>1, <2>3 DEF OpStage, Expected
<1>19. OpStaged(i)'
  BY <1>1, <1>7, <1>12, <1>14, <1>15, <1>18, OpStagedBy
<1> QED
  BY <1>9, <1>19


(* An answer before the last one.                                          *)
LEMMA OpQueuedStaged ==
  ASSUME TypeOK, NEW i \in OpIds, OpStaged(i), OpQueued(i)
  PROVE  OpStaged(i)'
<1>1. /\ evq # << >> /\ Head(evq).t = "rep" /\ ops[i].state = "OP_RES" /\ ops[i].count # 1
      /\ evq' = Tail(evq) /\ UNCHANGED <<wire, sock, multi>>
  BY DEF OpQueued, OpReply, redisVars
<1>2. /\ evq \in Seq(Reply) /\ sock \in Seq(Reply) /\ wire \in Seq(Request)
      /\ OpStage(i, ops[i], evq \o sock, wire, multi)
  BY <1>1, OpAnswers
<1>3. PICK done \in Seq(Reply) : done = evq \o sock /\ done # << >> /\ Tail(done) = Tail(evq) \o sock
  <2>1. /\ Tail(evq \o sock) = Tail(evq) \o sock /\ evq \o sock # << >>
        /\ evq \o sock \in Seq(Reply)
    <3>1. evq # << >> /\ evq \in Seq(Reply) /\ sock \in Seq(Reply)
      BY <1>1, <1>2
    <3> QED
      BY ONLY <3>1, Shuffle
  <2> QED
    BY ONLY <2>1
<1>4. PICK t \in Seq(Reply), n \in Nat :
        /\ t = Tail(done) /\ n = Len(t) /\ Len(done) = n + 1
        /\ \A j \in 1..n : t[j] = done[j + 1]
  <2>1. done # << >>
    BY <1>3
  <2>2. /\ Tail(done) \in Seq(Reply) /\ Len(Tail(done)) = Len(done) - 1
        /\ \A j \in 1..Len(Tail(done)) : Tail(done)[j] = done[j + 1]
    BY ONLY <2>1, done \in Seq(Reply)
  <2>3. PICK t \in Seq(Reply) : t = Tail(done)
    BY ONLY <2>2
  <2>4. PICK n \in Nat, m \in Nat : n = Len(t) /\ m = Len(done)
    BY ONLY t \in Seq(Reply), done \in Seq(Reply)
  <2>5. m = n + 1
    BY ONLY <2>2, <2>3, <2>4
  <2> QED
    BY ONLY <2>2, <2>3, <2>4, <2>5
<1>5. PICK op : /\ op = ops[i] /\ op.state = "OP_RES" /\ op.count # 1 /\ op.count \in Int
                /\ OpStage(i, op, done, wire, multi)
  BY <1>1, <1>2, <1>3 DEF TypeOK, ConnTypeOK
<1>6. /\ Expected(op.count, done) /\ op.err = FALSE /\ 1 \in DOMAIN done /\ DOMAIN done = 1..(n + 1)
       /\ done[1] = Head(evq)
  <2>1. 1 \in DOMAIN done /\ DOMAIN done = 1..(n + 1)
    BY ONLY <1>4, done \in Seq(Reply)
  <2>2. (evq \o sock)[1] = Head(evq)
    <3>1. evq # << >> /\ evq \in Seq(Reply) /\ sock \in Seq(Reply)
      BY <1>1, <1>2
    <3> QED
      BY ONLY <3>1
  <2> QED
    BY <1>3, <1>5, <2>1, <2>2 DEF OpStage, Waits
<1>7. OpFailed(i) = FALSE
  <2>1. done[1].res = "Status"
    BY <1>5, <1>6 DEF Expected
  <2> QED
    BY <1>5, <1>6, <2>1 DEF OpFailed
<1>8. Expected(op.count - 1, t)
  <2>1. DOMAIN t = 1..n
    BY ONLY <1>4, t \in Seq(Reply)
  <2>2. ASSUME NEW j \in 1..n PROVE t[j].res = IF j = op.count - 1 THEN "Success" ELSE "Status"
    <3>1. t[j] = done[j + 1] /\ j + 1 \in DOMAIN done
      BY <1>4, <1>6
    <3>2. j + 1 = op.count <=> j = op.count - 1
      BY <1>5
    <3> QED
      BY <1>6, <3>1, <3>2 DEF Expected
  <2> QED
    BY <2>1, <2>2 DEF Expected
<1>9. PICK op2 : /\ op2 = ops'[i] /\ op2.state = "OP_RES" /\ op2.list = op.list
                 /\ op2.count = op.count - 1 /\ op2.err = FALSE
  <2>1. ops'[i] = [state |-> "OP_RES", list |-> ops[i].list, count |-> ops[i].count - 1,
                   err |-> OpFailed(i)]
    BY DEF OpQueued, TypeOK, ConnTypeOK
  <2> QED
    BY <1>5, <1>7, <2>1
<1>10. n + 1 + Len(wire) = op.count /\ Booking(i, op.list, done, wire, multi)
  BY <1>4, <1>5 DEF OpStage, Waits
<1>11. n + Len(wire) = Waits(op2)
  <2>1. PICK c \in Nat : c = Len(wire)
    BY <1>2
  <2>2. n + c = op.count - 1
    BY ONLY <1>5, <1>10, <2>1, n \in Nat
  <2> QED
    BY <1>9, <2>1, <2>2 DEF Waits
<1>12. ASSUME ~Answered(done, i) PROVE ~Answered(t, i)
  <2>1. DOMAIN t = 1..n /\ DOMAIN done = 1..(n + 1)
    BY ONLY <1>4, t \in Seq(Reply), done \in Seq(Reply)
  <2>2. \A j \in 1..n : j + 1 \in 1..(n + 1)
    BY ONLY n \in Nat
  <2> QED
    BY <1>4, <1>12, <2>1, <2>2 DEF Answered
<1>13. ASSUME wire = << >> PROVE Granted(t[Len(t)], i)
  <2>1. n # 0 /\ n \in 1..n
    <3>1. Len(wire) = 0
      BY <1>13
    <3> QED
      BY ONLY <1>5, <1>10, <3>1, n \in Nat
  <2>2. t[n] = done[Len(done)]
    BY <1>4, <2>1
  <2> QED
    BY <1>4, <1>10, <1>13, <2>2 DEF Booking
<1>14. Booking(i, op2.list, t, wire, multi)
  BY <1>9, <1>10, <1>12, <1>13 DEF Booking
<1>15. OpStage(i, op2, t, wire, multi)
  <2>1. Expected(Waits(op2), t)
    BY <1>9, <1>8 DEF Waits
  <2> QED
    BY <1>4, <1>9, <1>11, <1>14, <2>1 DEF OpStage
<1>16. /\ << >> \in Seq(Request) /\ Tail(evq) \in Seq(Reply)
       /\ << >> \o Tail(evq) = Tail(evq) /\ wire \o << >> = wire
  <2>1. evq # << >> /\ evq \in Seq(Reply) /\ wire \in Seq(Request)
    BY <1>1, <1>2
  <2>2. Tail(evq) \in Seq(Reply)
    BY ONLY <2>1
  <2> QED
    BY ONLY <2>1, <2>2, ConcatEmptySeq, EmptySeq
<1>17. PICK rp \in Seq(Reply) : rp = Tail(evq)
  BY <1>16
<1>18. /\ evq' = << >> \o rp
       /\ OpStage(i, ops'[i], rp \o sock', wire' \o << >>, multi')
  BY <1>1, <1>3, <1>4, <1>9, <1>15, <1>16, <1>17
<1> QED
  BY <1>16, <1>18, OpStagedBy

(* The last answer: the transaction is over, and no answer was an error.   *)
LEMMA OpLastStaged ==
  ASSUME TypeOK, NEW i \in OpIds, OpStaged(i), OpLast(i)
  PROVE  ~multi.open /\ ~OpFailed(i)
<1>1. evq # << >> /\ Head(evq).t = "rep" /\ ops[i].state = "OP_RES" /\ ops[i].count = 1
  BY DEF OpLast, OpReply
<1>2. /\ evq \in Seq(Reply) /\ sock \in Seq(Reply) /\ wire \in Seq(Request)
      /\ OpStage(i, ops[i], evq \o sock, wire, multi)
  BY <1>1, OpAnswers
<1>3. PICK a \in Nat, b \in Nat, c \in Nat : a = Len(evq) /\ b = Len(sock) /\ c = Len(wire) /\ a > 0
  BY <1>1, <1>2, EmptySeq
<1>4. Len(evq \o sock) = a + b
  BY ONLY <1>2, <1>3
<1>5. a + b + c = 1
  BY <1>1, <1>2, <1>3, <1>4 DEF OpStage, Waits
<1>6. c = 0
  BY ONLY <1>3, <1>5
<1>7. wire = << >>
  BY ONLY <1>2, <1>3, <1>6, EmptySeq
<1>8. ~OpFailed(i)
  <2>1. evq # << >> /\ evq \in Seq(Reply) /\ sock \in Seq(Reply)
    BY <1>1, <1>2
  <2>2. 1 \in DOMAIN (evq \o sock) /\ (evq \o sock)[1] = Head(evq)
    BY ONLY <2>1
  <2>3. Expected(1, evq \o sock) /\ ops[i].err = FALSE
    BY <1>1, <1>2 DEF OpStage, Waits
  <2> QED
    BY <1>1, <2>2, <2>3 DEF Expected, OpFailed
<1> QED
  BY <1>1, <1>2, <1>7, <1>8 DEF OpStage, Booking

(* Nothing is under way on a connection that is ready and not busy.        *)
LEMMA QuietNow ==
  ASSUME TypeOK, AwaitedInv, ConnectionInv, inited, \A i \in OpIds : ~InFlight(i)
  PROVE  wire = << >> /\ sock = << >> /\ evq = << >>
<1>1. Outstanding(InvId) = 0
  BY OutstandingType, IdFacts DEF ConnectionInv, OneAtATime
<1>2. \A i \in OpIds : Outstanding(i) = 0
  BY DEF AwaitedInv, InFlight, Waits
<1>3. \A j \in SeqIds : Outstanding(j) = 0
  BY <1>1, <1>2, IdFacts
<1> QED
  BY <1>3, AllQuiet

(* An answer for inv_seq means that resources_inited is false.             *)
LEMMA InvReplyUninited ==
  ASSUME TypeOK, ConnectionInv, InvReply
  PROVE  ~inited
<1>1. Outstanding(InvId) > 0
  BY HeadOutstanding, IdFacts DEF InvReply
<1> QED
  BY <1>1 DEF ConnectionInv, OneAtATime

(* perform() finds nothing under way.                                      *)
LEMMA PipeStart ==
  ASSUME TypeOK, AwaitedInv, ConnectionInv, PipeInv, Accounting, Preemption = FALSE,
         NEW list \in Seq(Op), NEW thread, PerformOperations(list, thread), IsReady, ~busy,
         UNCHANGED <<wire, sock, multi>>
  PROVE  /\ \A j \in OpIds : ~InFlight(j)
         /\ \E i \in OpIds : ops' = [ops EXCEPT ![i] = NewSeq(list)] /\ OpStaged(i)'
<1>1. OneAtATime /\ ctx = "open" /\ inited /\ holder = NoSession
  BY DEF ConnectionInv, Unpreempted, IsReady, IsConnected
<1>2. \A j \in OpIds : ~InFlight(j)
  BY <1>1, OutstandingType, NothingInFlight, IdFacts
<1>3. wire = << >> /\ sock = << >> /\ evq = << >>
  BY <1>1, <1>2, QuietNow
<1>4. ~multi.open
  BY <1>2 DEF PipeInv
<1>5. PICK i \in OpIds : ops' = [ops EXCEPT ![i] = NewSeq(list)] /\ evq' = Append(evq, Req(i, "MULTI"))
  BY DEF PerformOperations, FreeIds
<1>6. evq' = <<Req(i, "MULTI")>>
  <2>1. PICK x : x = Req(i, "MULTI")
    OBVIOUS
  <2>2. Append(<< >>, x) = <<x>>
    BY ONLY TRUE
  <2> QED
    BY ONLY <1>3, <1>5, <2>1, <2>2
<1>7. ops'[i] = NewSeq(list)
  BY <1>5 DEF TypeOK, ConnTypeOK
<1>8. OpStaged(i)'
  BY <1>3, <1>4, <1>6, <1>7, OpStarted
<1> QED
  BY <1>2, <1>5, <1>8


-----------------------------------------------------------------------------
(* The invariants are kept.                                                *)

(* The history variable counts finished invalidations.                     *)
LEMMA ClearsStep ==
  ASSUME TypeOK, [Next]_vars
  PROVE  \/ UNCHANGED clears /\ (proc' = "running" => proc = "running")
         \/ InvFinished /\ clears' = clears + 1 /\ UNCHANGED proc
         \/ Restart
<1>1. ASSUME NEW s \in Sessions, SessionThread(s) \/ RpcPut(s) PROVE UNCHANGED <<clears, proc>>
  BY <1>1, SessionEffect DEF connVars, faultVars
<1>2. CASE Redis_ \/ ServerFault \/ OnDisconnect \/ ConnectFailed
  BY <1>2 DEF Redis_, ServerStep, ServerFault, OnDisconnect, ConnectFailed, connVars, faultVars
<1>3. CASE ThreadResumed \/ Invalidate \/ UNCHANGED vars
  BY <1>3 DEF ThreadResumed, SetBusy, Invalidate, InvalidateUnready, InvalidateHandlers,
     InvalidateSequence, InvalidateReset, InvalidateAnswer, vars, connVars, faultVars
<1>4. CASE Client
  BY <1>4 DEF Client, RedisThread, ProcessRequestEvent, HandleRead, HandleLastRead,
     ProcessOperationsQueue, OnReconnect, OnConnect, InvOnError, InvGotKeys, InvCleaning, InvFinished,
     OpMultiAnswered, OpQueued, OpSucceeded,
     OpErrored, faultVars, Loop, InvReply, OpLast, OpReply
<1> QED
  BY <1>1, <1>2, <1>3, <1>4 DEF Next, Fault

LEMMA AccountingStep ==
  ASSUME TypeOK, [Next]_vars, Accounting'
  PROVE  (Accounting /\ ~InvFinished /\ ~Restart) \/ (InvFinished /\ clears = 0)
<1>1. clears \in Nat
  BY DEF TypeOK, ConnTypeOK
<1>2. ~Restart
  BY DEF Restart, Accounting
<1>3. CASE InvFinished
  BY <1>1, <1>3 DEF InvFinished, Accounting
<1>4. CASE ~InvFinished
  <2>1. inited
    BY <1>4, InitedByFinish DEF Accounting, TypeOK, ConnTypeOK
  <2> QED
    BY <1>2, <1>4, <2>1, ClearsStep DEF Accounting
<1> QED
  BY <1>3, <1>4

(* No RPC invalidates.                                                     *)
RpcIdle == rpc = "idle"

LEMMA RpcStaysIdle ==
  ASSUME TypeOK, RpcIdle, MaxInvalidations = 0, [Next]_vars
  PROVE  RpcIdle' /\ ~Invalidate
<1>1. ~(invalidations < 0)
  BY DEF TypeOK
<1>2. ~Invalidate
  BY <1>1 DEF RpcIdle, Invalidate, InvalidateUnready, InvalidateHandlers, InvalidateSequence,
     InvalidateReset, InvalidateAnswer
<1>3. ASSUME NEW s \in Sessions, SessionThread(s) \/ RpcPut(s) PROVE UNCHANGED rpc
  BY <1>3 DEF SessionThread, RpcPut, GetStart, CheckValue, CheckFailed, GetGranted, GetEmplace, GetBusy,
     SessionPut, PutHandler
<1> QED
  BY <1>2, <1>3 DEF Next, RpcIdle, Client, Redis_, Fault, ThreadResumed, Restart, vars, ctlVars

(* Before the first invalidation is finished nobody gets a resource.       *)
LEMMA EarlyKept ==
  ASSUME TypeOK, EarlyInv, [Next]_vars
  PROVE  EarlyInv'
<1> SUFFICES ASSUME clears' = 0
             PROVE  EarlyInv'
  BY DEF EarlyInv
<1> USE DEF EarlyInv
<1>1. CASE Restart
  BY <1>1 DEF Restart, InFlight, NoSeq
<1>2. CASE ~Restart
  <2>1. clears = 0 /\ ~InvFinished
    <3>1. clears \in Nat
      BY DEF TypeOK, ConnTypeOK
    <3>2. ~InvFinished
      BY <3>1 DEF InvFinished
    <3> QED
      BY <1>2, <3>2, ClearsStep
  <2>2. /\ ~inited /\ ~container_ready /\ opQueue = << >>
        /\ \A i \in OpIds : ~InFlight(i)
        /\ \A s \in Sessions : spc[s] \notin {"check", "emplace"} /\ handlers[s] = "none"
    BY <2>1
  <2>3. ~inited'
    BY <2>1, <2>2, InitedByFinish DEF TypeOK, ConnTypeOK
  <2>4. ASSUME UNCHANGED <<container_ready, opQueue, ops, spc, handlers>> PROVE EarlyInv'
    BY <2>2, <2>3, <2>4 DEF InFlight
  <2>5. CASE Redis_ \/ Fault \/ ThreadResumed \/ UNCHANGED vars
    BY <2>4, <2>5 DEF Redis_, ServerStep, Fault, ServerFault, OnDisconnect, ConnectFailed, ThreadResumed,
       SetBusy, vars, connVars, seqVars, ctlVars, sessVars
  <2>6. CASE Invalidate
    <3>1. CASE InvalidateUnready
      BY <2>2, <2>3, <3>1 DEF InvalidateUnready, seqVars, sessVars, InFlight
    <3>2. CASE InvalidateHandlers
      BY <2>2, <2>3, <3>2 DEF InvalidateHandlers, connVars, seqVars, sessVars, InFlight
    <3>3. CASE InvalidateSequence \/ InvalidateReset \/ InvalidateAnswer
      BY <2>4, <3>3 DEF InvalidateSequence, InvalidateReset, InvalidateAnswer, connVars, seqVars, sessVars
    <3> QED
      BY <2>6, <3>1, <3>2, <3>3 DEF Invalidate
  <2>7. CASE Client
    <3>1. UNCHANGED <<spc, handlers>>
      BY <2>7 DEF Client, ctlVars, sessVars
    <3>2. ASSUME NEW i \in OpIds
          PROVE  ~OpMultiAnswered(i) /\ ~OpQueued(i) /\ ~OpSucceeded(i) /\ ~OpErrored(i)
      BY <2>2 DEF OpMultiAnswered, OpQueued, OpSucceeded, OpErrored, OpLast, InFlight
    <3>3. CASE ProcessRequestEvent \/ HandleRead \/ HandleLastRead \/ OnReconnect \/ OnConnect
               \/ InvOnError \/ InvGotKeys \/ InvCleaning
      BY <2>4, <3>1, <3>3 DEF ProcessRequestEvent, HandleRead, HandleLastRead, OnReconnect, OnConnect,
         InvOnError,
         InvGotKeys, InvCleaning, seqVars
    <3>4. CASE ProcessOperationsQueue
      <4>1. UNCHANGED <<container_ready, opQueue, ops>>
        BY <2>2, <3>4 DEF ProcessOperationsQueue, IsReady
      <4> QED
        BY <2>4, <3>1, <4>1
    <3> QED
      BY <2>1, <2>7, <3>2, <3>3, <3>4 DEF Client, RedisThread
  <2>8. ASSUME NEW s \in Sessions, SessionThread(s) \/ RpcPut(s) PROVE EarlyInv'
    <3>1. CASE GetStart(s)
      <4>1. spc' = [spc EXCEPT ![s] = IF Size(s) = 0 THEN "hold" ELSE OnError]
        BY <2>2, <3>1 DEF GetStart
      <4>2. UNCHANGED <<container_ready, opQueue, ops, handlers>>
        BY <3>1 DEF GetStart, connVars, seqVars
      <4>3. \A t \in Sessions : spc'[t] \notin {"check", "emplace"}
        BY <2>2, <4>1 DEF OnError, TypeOK
      <4> QED
        BY <2>2, <2>3, <4>2, <4>3 DEF InFlight
    <3>2. CASE SessionPut(s)
      <4>1. /\ spc' = [spc EXCEPT ![s] = "done"] /\ UNCHANGED <<container_ready, opQueue, ops>>
            /\ handlers' = [handlers EXCEPT ![s] = "none"]
        BY <2>2, <3>2 DEF SessionPut, PutHandler
      <4>2. \A t \in Sessions : spc'[t] \notin {"check", "emplace"} /\ handlers'[t] = "none"
        BY <2>2, <4>1 DEF TypeOK
      <4> QED
        BY <2>2, <2>3, <4>1, <4>2 DEF InFlight
    <3>3. ~RpcPut(s)
      BY <2>2 DEF RpcPut
    <3> QED
      BY <2>2, <2>8, <3>1, <3>2, <3>3 DEF SessionThread, CheckValue, CheckFailed, GetGranted, Checked,
         GetEmplace, GetBusy
  <2> QED
    BY <1>2, <2>5, <2>6, <2>7, <2>8 DEF Next
<1> QED
  BY <1>1, <1>2


(* While accounting, an answer for inv_seq is out of the question, nothing *)
(* is refused and no thread is preempted.                                  *)
LEMMA AccountingSteps ==
  ASSUME TypeOK, ConnectionInv, Accounting, Accounting', RpcIdle, Preemption = FALSE, MaxErrors = 0,
         MaxInvalidations = 0, [Next]_vars
  PROVE  \/ \E s \in Sessions : SessionThread(s) \/ RpcPut(s)
         \/ UNCHANGED vars
         \/ /\ UNCHANGED ctlVars
            /\ \/ ServerStep \/ OnDisconnect \/ ConnectFailed \/ OnReconnect \/ OnConnect
               \/ ProcessRequestEvent \/ HandleRead \/ ProcessOperationsQueue
               \/ \E i \in OpIds : OpMultiAnswered(i) \/ OpQueued(i) \/ OpSucceeded(i)
<1>1. ~ServerFault
  BY DEF ServerFault, TypeOK, ConnTypeOK
<1>2. ~ThreadResumed /\ ~HandleLastRead
  BY DEF ThreadResumed, SetBusy, HandleLastRead, LastAwaited, ConnectionInv, Unpreempted
<1>3. ~Invalidate
  BY RpcStaysIdle
<1>4. ~InvOnError /\ ~InvGotKeys /\ ~InvCleaning /\ ~InvFinished
  BY InvReplyUninited DEF Accounting, InvOnError, InvGotKeys, InvCleaning, InvFinished
<1>5. ~Restart
  BY DEF Restart, Accounting
<1>6. ASSUME NEW i \in OpIds PROVE ~OpErrored(i)
  BY DEF OpErrored, Accounting
<1> QED
  BY <1>1, <1>2, <1>3, <1>4, <1>5, <1>6 DEF Next, Client, Redis_, Fault, RedisThread

(* The operation in flight is at a stage of its pipeline.                  *)
LEMMA PipeKept ==
  ASSUME TypeOK, TypeOK', AwaitedInv, ConnectionInv, ConnectionInv', ResetInv, RpcIdle, EarlyInv, PipeInv,
         Preemption = FALSE, MaxErrors = 0, MaxInvalidations = 0, [Next]_vars
  PROVE  PipeInv'
<1> SUFFICES ASSUME Accounting'
             PROVE  /\ \A i \in OpIds : InFlight(i)' => ctx' = "open" /\ OpStaged(i)'
                    /\ (\A i \in OpIds : ~InFlight(i)') => ~multi'.open
  BY DEF PipeInv
<1> DEFINE Goal == /\ \A i \in OpIds : InFlight(i)' => ctx' = "open" /\ OpStaged(i)'
                   /\ (\A i \in OpIds : ~InFlight(i)') => ~multi'.open
<1>1. CASE InvFinished /\ clears = 0
  <2>1. \A i \in OpIds : ~InFlight(i)
    BY <1>1 DEF EarlyInv
  <2>2. UNCHANGED <<ops, multi>>
    BY <1>1 DEF InvFinished, redisVars
  <2> QED
    BY <1>1, <2>1, <2>2, FinishedCleared DEF InFlight
<1>2. CASE Accounting
  <2>0. /\ inited /\ inited' /\ OneAtATime
        /\ \A i \in OpIds : InFlight(i) => ctx = "open" /\ OpStaged(i) /\ busy
        /\ (\A i \in OpIds : ~InFlight(i)) => ~multi.open /\ wire = << >> /\ sock = << >> /\ evq = << >>
    BY <1>2, QuietNow DEF PipeInv, Accounting, ConnectionInv, Unpreempted, OneAtATime
  <2> SUFFICES Goal
    BY DEF Goal
  <2> HIDE DEF Goal
  <2>1. ASSUME UNCHANGED <<evq, sock, wire, multi, ops, ctx>> PROVE Goal
    BY <2>0, <2>1, OpStagedSame DEF Goal, InFlight
  <2>2. ASSUME \A i \in OpIds : ~InFlight(i), UNCHANGED ops, ~multi'.open PROVE Goal
    BY <2>2 DEF Goal, InFlight
  <2>3. ASSUME NEW i \in OpIds, InFlight(i), UNCHANGED <<ops, ctx>>, OpStaged(i)' PROVE Goal
    <3>1. \A j \in OpIds : InFlight(j)' => j = i
      BY <2>0, <2>3 DEF OneAtATime, InFlight
    <3>2. InFlight(i)'
      BY <2>3 DEF InFlight
    <3> QED
      BY <2>0, <2>3, <3>1, <3>2 DEF Goal
  <2>4. ASSUME NEW i \in OpIds, NEW op, ops' = [ops EXCEPT ![i] = op], op.state # "NONE",
               \A j \in OpIds : j # i => ~InFlight(j), ctx' = "open", OpStaged(i)'
        PROVE  Goal
    <3>1. \A j \in OpIds : InFlight(j)' <=> j = i
      BY <2>4 DEF InFlight, TypeOK, ConnTypeOK
    <3> QED
      BY <2>4, <3>1 DEF Goal
  <2>5. ASSUME NEW list \in Seq(Op), NEW thread, PerformOperations(list, thread), IsReady, ~busy,
               UNCHANGED <<wire, sock, multi, ctx>>
        PROVE  Goal
    <3>1. \A j \in OpIds : ~InFlight(j)
      BY <1>2, <2>5, PipeStart
    <3>2. PICK i \in OpIds : ops' = [ops EXCEPT ![i] = NewSeq(list)] /\ OpStaged(i)'
      BY <1>2, <2>5, PipeStart
    <3>3. PICK op : op = NewSeq(list) /\ op.state # "NONE"
      <4>1. NewSeq(list).state # "NONE"
        BY DEF NewSeq
      <4> QED
        BY <4>1
    <3>4. ctx' = "open"
      BY <2>5 DEF IsReady, IsConnected, ConnectionInv
    <3> QED
      BY <2>4, <3>1, <3>2, <3>3, <3>4
  <2>6. ASSUME NEW s \in Sessions, SessionThread(s) \/ RpcPut(s) PROVE Goal
    <3>1. CASE UNCHANGED <<redisVars, connVars>>
      BY <2>1, <3>1 DEF redisVars, connVars, seqVars
    <3>2. ASSUME NEW rol \in Seq(Op), ProcessOperationsList(rol, s), UNCHANGED <<redisVars, ctx>>
          PROVE  Goal
      <4>1. UNCHANGED <<wire, sock, multi, ctx>>
        BY <3>2 DEF redisVars
      <4>2. UNCHANGED <<evq, ops>> \/ (PerformOperations(rol, s) /\ IsReady /\ ~busy)
        BY <3>2 DEF ProcessOperationsList
      <4> QED
        BY <2>1, <2>5, <4>1, <4>2
    <3> QED
      BY <2>6, <3>1, <3>2, SessionEffect
  <2>7. CASE UNCHANGED vars
    BY <2>1, <2>7 DEF vars, redisVars, connVars, seqVars
  <2>8. CASE ServerStep
    <3>1. Server /\ UNCHANGED <<evq, ops, ctx>>
      BY <2>8 DEF ServerStep, connVars, seqVars
    <3>2. wire # << >>
      BY <3>1 DEF Server, ServerMulti, ServerQueue, ServerKeys, ServerDirect, ServerExec
    <3>3. PICK i \in OpIds : InFlight(i)
      BY <2>0, <3>2
    <3>4. OpStaged(i)'
      BY <2>0, <3>1, <3>3, OpServerStaged
    <3> QED
      BY <2>3, <3>1, <3>3, <3>4
  <2>9. CASE OnDisconnect
    <3>1. inited' = (inited /\ ~busy) /\ multi' = NoMulti /\ UNCHANGED ops
      BY <2>9 DEF OnDisconnect
    <3>2. \A i \in OpIds : ~InFlight(i)
      BY <2>0, <3>1
    <3> QED
      BY <2>2, <3>1, <3>2 DEF NoMulti
  <2>10. CASE ConnectFailed \/ OnReconnect \/ OnConnect
    <3>1. ctx # "open" /\ UNCHANGED <<multi, ops>>
      BY <2>10 DEF ConnectFailed, OnReconnect, OnConnect, redisVars, seqVars
    <3> QED
      BY <2>0, <2>2, <3>1
  <2>11. CASE ProcessRequestEvent \/ HandleRead
    <3>1. UNCHANGED <<ops, ctx>> /\ (evq # << >> \/ sock # << >>)
      BY <2>11 DEF ProcessRequestEvent, HandleRead, seqVars
    <3>2. PICK i \in OpIds : InFlight(i)
      BY <2>0, <3>1
    <3>3. OpStaged(i)'
      BY <2>0, <2>11, <3>2, OpSentStaged, OpReadStaged
    <3> QED
      BY <2>3, <3>1, <3>2, <3>3
  <2>12. CASE ProcessOperationsQueue
    <3>1. UNCHANGED <<wire, sock, multi, ctx>> /\ opQueue \in Seq(Op)
      BY <2>12 DEF ProcessOperationsQueue, redisVars, TypeOK, ConnTypeOK
    <3>2. UNCHANGED <<evq, ops>> \/ (PerformOperations(opQueue, NoSession) /\ IsReady /\ ~busy)
      BY <2>12 DEF ProcessOperationsQueue
    <3> QED
      BY <2>1, <2>5, <3>1, <3>2
  <2>13. ASSUME NEW i \in OpIds, OpMultiAnswered(i) \/ OpQueued(i) PROVE Goal
    <3>1. InFlight(i) /\ UNCHANGED ctx
      BY <2>13 DEF OpMultiAnswered, OpQueued, InFlight
    <3>2. OpStaged(i)'
      BY <2>0, <2>13, <3>1, OpMultiStaged, OpQueuedStaged
    <3>3. \E op : ops' = [ops EXCEPT ![i] = op] /\ op.state # "NONE"
      <4>1. CASE OpMultiAnswered(i)
        <5>1. PICK op : op = [state |-> "OP_RES", list |-> ops[i].list, count |-> Len(ops[i].list) + 1,
                              err |-> ops[i].err]
          OBVIOUS
        <5>2. ops' = [ops EXCEPT ![i] = op] /\ op.state # "NONE"
          BY <4>1, <5>1 DEF OpMultiAnswered
        <5> QED
          BY <5>2
      <4>2. CASE OpQueued(i)
        <5>1. PICK op : op = [state |-> "OP_RES", list |-> ops[i].list, count |-> ops[i].count - 1,
                              err |-> OpFailed(i)]
          OBVIOUS
        <5>2. ops' = [ops EXCEPT ![i] = op] /\ op.state # "NONE"
          BY <4>2, <5>1 DEF OpQueued
        <5> QED
          BY <5>2
      <4> QED
        BY <2>13, <4>1, <4>2
    <3>4. \A j \in OpIds : j # i => ~InFlight(j)
      BY <2>0, <3>1 DEF OneAtATime
    <3> QED
      BY <2>0, <2>4, <3>1, <3>2, <3>3, <3>4
  <2>14. ASSUME NEW i \in OpIds, OpSucceeded(i) PROVE Goal
    <3>1. OpLast(i) /\ UNCHANGED multi /\ ops' = [ops EXCEPT ![i] = NoSeq]
      BY <2>14 DEF OpSucceeded, OpLast, redisVars
    <3>2. InFlight(i)
      BY <3>1 DEF OpLast, InFlight
    <3>3. ~multi.open
      BY <2>0, <3>1, <3>2, OpLastStaged
    <3>4. \A j \in OpIds : ~InFlight(j)'
      BY <2>0, <3>1, <3>2 DEF OneAtATime, InFlight, NoSeq, TypeOK, ConnTypeOK
    <3> QED
      BY <3>1, <3>3, <3>4 DEF Goal
  <2> QED
    BY <1>2, <2>6, <2>7, <2>8, <2>9, <2>10, <2>11, <2>12, <2>13, <2>14, AccountingSteps
<1> QED
  BY <1>1, <1>2, AccountingStep


-----------------------------------------------------------------------------
(* What is under way, in terms of the pipeline.                            *)

(* A reply seen by the process is among the answers of the pipeline.       *)
LEMMA SeenAnswered ==
  ASSUME TypeOK, NEW i \in OpIds, NEW rq \in Seq(Request), NEW rp \in Seq(Reply), evq = rq \o rp
  PROVE  Executed(i) <=> Answered(rp \o sock, i)
<1>1. sock \in Seq(Reply)
  BY QueueParts
<1>2. PICK a \in Nat, b \in Nat, c \in Nat : a = Len(rq) /\ b = Len(rp) /\ c = Len(sock)
  BY ONLY <1>1, rq \in Seq(Request), rp \in Seq(Reply)
<1>3. /\ DOMAIN (rp \o sock) = 1..(b + c) /\ DOMAIN sock = 1..c /\ DOMAIN evq = 1..(a + b)
      /\ \A j \in 1..b : (rp \o sock)[j] = rp[j]
      /\ \A j \in 1..c : (rp \o sock)[b + j] = sock[j]
      /\ \A j \in 1..a : evq[j] = rq[j] /\ rq[j] \in Request
      /\ \A j \in 1..b : evq[a + j] = rp[j] /\ rp[j] \in Reply
      /\ \A j \in 1..c : sock[j] \in Reply
  BY ONLY <1>2, <1>1, rq \in Seq(Request), rp \in Seq(Reply), evq = rq \o rp
<1>4. /\ \A x : x \in Range(sock) <=> \E j \in 1..c : sock[j] = x
      /\ \A x : x \in Range(evq) <=> \E j \in 1..(a + b) : evq[j] = x
  BY <1>3 DEF Range
<1>5. (\A r \in Request : r.t # "rep") /\ (\A r \in Reply : r.t = "rep")
  BY DEF Request, Reply
<1>6. PICK d : d = rp \o sock
  OBVIOUS
<1>7. ASSUME Executed(i) PROVE Answered(d, i)
  <2>1. PICK r \in Range(sock) \cup Range(evq) : r.t = "rep" /\ r.seq = i /\ r.kind = "array"
    BY <1>7 DEF Executed
  <2>2. CASE r \in Range(sock)
    <3>1. PICK j \in 1..c : sock[j] = r
      BY <1>4, <2>2
    <3>2. b + j \in 1..(b + c)
      BY ONLY b \in Nat, c \in Nat, j \in 1..c
    <3>3. b + j \in DOMAIN d /\ d[b + j] = r
      BY <1>3, <1>6, <3>1, <3>2
    <3> QED
      BY <2>1, <3>3 DEF Answered, Granted
  <2>3. CASE r \in Range(evq)
    <3>1. PICK j \in 1..(a + b) : evq[j] = r
      BY <1>4, <2>3
    <3>2. ~(j \in 1..a)
      BY <1>3, <1>5, <2>1, <3>1
    <3>3. PICK n \in 1..b : j = a + n
      <4>1. j - a \in 1..b /\ j = a + (j - a)
        BY ONLY <3>2, a \in Nat, b \in Nat, j \in 1..(a + b)
      <4> QED
        BY ONLY <4>1
    <3>4. n \in 1..(b + c)
      BY ONLY b \in Nat, c \in Nat, n \in 1..b
    <3>5. n \in DOMAIN d /\ d[n] = r
      BY <1>3, <1>6, <3>1, <3>3, <3>4
    <3> QED
      BY <2>1, <3>5 DEF Answered, Granted
  <2> QED
    BY <2>2, <2>3
<1>8. ASSUME Answered(d, i) PROVE Executed(i)
  <2>1. PICK j \in 1..(b + c) : d[j].seq = i /\ d[j].kind = "array"
    BY <1>3, <1>6, <1>8 DEF Answered, Granted
  <2>2. CASE j \in 1..b
    <3>1. a + j \in 1..(a + b)
      BY ONLY <2>2, a \in Nat, b \in Nat
    <3>2. PICK r : r = d[j] /\ r.seq = i /\ r.kind = "array"
      BY <2>1
    <3>3. r = evq[a + j] /\ r.t = "rep"
      BY <1>3, <1>5, <1>6, <2>2, <3>2
    <3>4. r \in Range(evq)
      BY <1>4, <3>1, <3>3
    <3> QED
      BY <3>2, <3>3, <3>4 DEF Executed
  <2>3. CASE ~(j \in 1..b)
    <3>1. PICK n \in 1..c : j = b + n
      <4>1. j - b \in 1..c /\ j = b + (j - b)
        BY ONLY <2>3, c \in Nat, b \in Nat, j \in 1..(b + c)
      <4> QED
        BY ONLY <4>1
    <3>2. PICK r : r = d[j] /\ r.seq = i /\ r.kind = "array"
      BY <2>1
    <3>3. r = sock[n] /\ r.t = "rep"
      BY <1>3, <1>5, <1>6, <3>1, <3>2
    <3>4. r \in Range(sock)
      BY <1>4, <3>3
    <3> QED
      BY <3>2, <3>3, <3>4 DEF Executed
  <2> QED
    BY <2>2, <2>3
<1> QED
  BY <1>6, <1>7, <1>8

(* The EXEC of an operation in flight was executed when its transaction is *)
(* over.                                                                   *)
LEMMA ExecutedIff ==
  ASSUME TypeOK, NEW i \in OpIds, InFlight(i), Waits(ops[i]) >= 1, OpStaged(i)
  PROVE  Executed(i) <=> ops[i].state = "OP_RES" /\ ~multi.open
<1>1. PICK rq \in Seq(Request), rp \in Seq(Reply) :
        evq = rq \o rp /\ OpStage(i, ops[i], rp \o sock, wire \o rq, multi)
  BY DEF OpStaged
<1>2. sock \in Seq(Reply) /\ wire \in Seq(Request)
  BY <1>1, QueueParts
<1>3. PICK done \in Seq(Reply), todo \in Seq(Request) : done = rp \o sock /\ todo = wire \o rq
  <2>1. rp \o sock \in Seq(Reply) /\ wire \o rq \in Seq(Request)
    BY ONLY <1>2, rp \in Seq(Reply), rq \in Seq(Request)
  <2> QED
    BY ONLY <2>1
<1>4. Executed(i) <=> Answered(done, i)
  BY <1>1, <1>3, SeenAnswered
<1>5. PICK op \in SeqType : op = ops[i] /\ op.state \in {"MULTI_START", "OP_RES"}
  BY DEF TypeOK, ConnTypeOK, SeqType, InFlight
<1>6. OpStage(i, op, done, todo, multi) /\ Waits(op) >= 1
  BY <1>1, <1>3, <1>5
<1>7. CASE op.state = "MULTI_START"
  <2>1. Opening(i, done, todo, multi) /\ Len(done) + Len(todo) = 1
    BY <1>6, <1>7 DEF OpStage, Waits
  <2>2. CASE todo # << >>
    <3>1. Len(done) = 0
      <4>1. Len(todo) \in Nat \ {0} /\ Len(done) \in Nat
        BY ONLY <2>2, EmptySeq, todo \in Seq(Request), done \in Seq(Reply)
      <4> QED
        BY ONLY <2>1, <4>1
    <3>2. done = << >>
      BY ONLY <3>1, EmptySeq, done \in Seq(Reply)
    <3> QED
      BY <1>4, <1>5, <1>7, <3>2 DEF Answered
  <2>3. CASE todo = << >>
    BY <1>4, <1>5, <1>7, <2>1, <2>3 DEF Opening
  <2> QED
    BY <2>2, <2>3
<1>8. CASE op.state = "OP_RES"
  <2>1. Booking(i, op.list, done, todo, multi) /\ Len(done) + Len(todo) = Waits(op)
    BY <1>6, <1>8 DEF OpStage
  <2>2. CASE todo # << >>
    BY <1>4, <1>5, <1>8, <2>1, <2>2 DEF Booking
  <2>3. CASE todo = << >>
    <3>1. Len(todo) = 0 /\ op.count \in Int /\ Waits(op) = op.count
      BY <1>8, <2>3 DEF Waits, SeqType
    <3>2. Len(done) >= 1
      BY <1>6, <2>1, <3>1
    <3>3. Len(done) \in DOMAIN done
      BY ONLY <3>2, done \in Seq(Reply)
    <3> QED
      BY <1>4, <1>5, <1>8, <2>1, <2>3, <3>3 DEF Booking, Answered
  <2> QED
    BY <2>2, <2>3
<1> QED
  BY <1>5, <1>7, <1>8

(* The operations of a session on a resource that are not executed, when   *)
(* no object other than `op' has any.                                      *)
Due(q, op, m, o, s, k) ==
  Cardinality(Places(q, o, s, k))
    + IF op.state = "OP_RES" /\ ~m.open THEN 0 ELSE Cardinality(Places(op.list, o, s, k))

Alone(i) == \A j \in OpIds : j # i => ~InFlight(j)

Settled == TypeOK /\ FreeIsEmpty /\ ConnectionInv /\ PipeInv /\ Accounting

LEMMA DueIs ==
  Settled => \A i \in OpIds : Alone(i) =>
    \A o, s, k : Unexecuted(o, s, k) = Due(opQueue, ops[i], multi, o, s, k)
<1> SUFFICES ASSUME Settled, NEW i \in OpIds, Alone(i), NEW o, NEW s, NEW k
             PROVE  Unexecuted(o, s, k) = Due(opQueue, ops[i], multi, o, s, k)
  OBVIOUS
<1> DEFINE P == Places(ops[i].list, o, s, k)
           U == UNION {{n} \X Places(ops[n].list, o, s, k) : n \in {n \in OpIds : ~Executed(n)}}
<1>1. \A n \in OpIds : n # i => Places(ops[n].list, o, s, k) = {}
  BY PlacesEmpty DEF Settled, FreeIsEmpty, Alone, InFlight
<1>2. U = IF Executed(i) THEN {} ELSE {i} \X P
  <2>1. ASSUME NEW x \in U PROVE ~Executed(i) /\ x \in {i} \X P
    <3>1. PICK n \in OpIds : ~Executed(n) /\ x \in {n} \X Places(ops[n].list, o, s, k)
      BY <2>1
    <3>2. n = i
      BY <1>1, <3>1
    <3> QED
      BY <3>1, <3>2
  <2>2. ASSUME ~Executed(i), NEW x \in {i} \X P PROVE x \in U
    BY <2>2
  <2> HIDE DEF U, P
  <2> QED
    BY <2>1, <2>2
<1>3. ops[i].list \in Seq(Op)
  BY DEF Settled, TypeOK, ConnTypeOK
<1>4. IsFiniteSet(P) /\ Cardinality(P) \in Nat /\ IsFiniteSet({i}) /\ Cardinality({i}) = 1
  BY <1>3, PlacesType, FS_Singleton
<1>5. Cardinality({i} \X P) = Cardinality(P)
  BY <1>4, FS_Product
<1>6. Cardinality(U) = IF Executed(i) THEN 0 ELSE Cardinality(P)
  BY <1>2, <1>5, FS_EmptySet
<1>7. Unexecuted(o, s, k) = Cardinality(Places(opQueue, o, s, k)) + Cardinality(U)
  BY DEF Unexecuted
<1>8. CASE InFlight(i)
  <2>1. Executed(i) <=> ops[i].state = "OP_RES" /\ ~multi.open
    BY <1>8, ExecutedIff DEF Settled, PipeInv, ConnectionInv, OneAtATime
  <2> HIDE DEF U, P
  <2>2. Cardinality(U) = IF ops[i].state = "OP_RES" /\ ~multi.open THEN 0 ELSE Cardinality(P)
    BY <1>6, <2>1
  <2> QED
    BY <1>7, <2>2 DEF Due, P
<1>9. CASE ~InFlight(i)
  <2>1. ops[i].state = "NONE" /\ P = {}
    BY <1>9, PlacesEmpty DEF Settled, FreeIsEmpty, InFlight
  <2>2. Cardinality(P) = 0
    BY <2>1, FS_EmptySet
  <2> HIDE DEF U, P
  <2>3. Cardinality(U) = Cardinality(P)
    BY <1>6, <2>2
  <2> QED
    BY <1>7, <2>1, <2>3 DEF Due, P
<1> QED
  BY <1>8, <1>9

LEMMA DueIsNext ==
  (Settled => \A i \in OpIds : Alone(i) =>
     \A o, s, k : Unexecuted(o, s, k) = Due(opQueue, ops[i], multi, o, s, k))'
BY DueIs, PTL


(* EXEC applies the increments of a list: its gets and its puts.           *)
LEMMA IncsApplied ==
  ASSUME TypeOK, NEW i \in OpIds, NEW list \in Seq(Op), Apply(Incs(i, list)), NEW s \in Sessions,
         NEW k \in Keys
  PROVE  field'[k][s] = field[k][s] + Cardinality(Places(list, "get", s, k))
                                    - Cardinality(Places(list, "put", s, k))
<1>1. PICK n \in Nat : n = Len(list) /\ DOMAIN list = 1..n
  OBVIOUS
<1>2. PICK q \in Seq(Request) : q = Incs(i, list) /\ DOMAIN q = 1..n
  <2>1. Incs(i, list) \in Seq(Request) /\ Len(Incs(i, list)) = Len(list)
    BY CommandsOf
  <2>2. PICK q \in Seq(Request) : q = Incs(i, list) /\ Len(q) = n
    BY <1>1, <2>1
  <2>3. DOMAIN q = 1..Len(q)
    OBVIOUS
  <2> QED
    BY <2>2, <2>3
<1>3. ASSUME NEW j \in 1..n
      PROVE  /\ list[j] \in Op /\ q[j].cmd = "HINCRBY" /\ q[j].k = list[j].k /\ q[j].s = list[j].s
             /\ q[j].d = IF list[j].op = "get" THEN 1 ELSE -1
  <2>1. list[j] \in Op
    BY <1>1
  <2>2. q[j] = HIncrBy(i, list[j].k, list[j].s, IF list[j].op = "get" THEN 1 ELSE -1)
    BY <1>1, <1>2 DEF Incs
  <2> QED
    BY <2>1, <2>2 DEF HIncrBy, Req
<1>4. Zeroed(q, k) = {}
  BY <1>2, <1>3 DEF Zeroed
<1>5. ASSUME NEW j \in 1..n
      PROVE  /\ list[j] = [op |-> "get", s |-> s, k |-> k] <=> q[j].k = k /\ q[j].s = s /\ q[j].d = 1
             /\ list[j] = [op |-> "put", s |-> s, k |-> k] <=> q[j].k = k /\ q[j].s = s /\ q[j].d = -1
  <2>1. PICK x \in Op : x = list[j]
    BY <1>3
  <2>2. /\ x = [op |-> "get", s |-> s, k |-> k] <=> x.op = "get" /\ x.s = s /\ x.k = k
        /\ x = [op |-> "put", s |-> s, k |-> k] <=> x.op = "put" /\ x.s = s /\ x.k = k
        /\ x.op \in {"get", "put"}
    <3>1. x = [op |-> x.op, s |-> x.s, k |-> x.k] /\ x.op \in {"get", "put"}
      BY DEF Op
    <3> QED
      BY <3>1
  <2>3. q[j].k = x.k /\ q[j].s = x.s /\ q[j].d = IF x.op = "get" THEN 1 ELSE -1
    BY <1>3, <2>1
  <2> QED
    BY <2>1, <2>2, <2>3
<1>6. /\ Increments(q, k, s, 1) = Places(list, "get", s, k)
      /\ Increments(q, k, s, -1) = Places(list, "put", s, k)
  <2>1. \A j \in 1..n : /\ j \in Increments(q, k, s, 1) <=> j \in Places(list, "get", s, k)
                        /\ j \in Increments(q, k, s, -1) <=> j \in Places(list, "put", s, k)
    BY <1>1, <1>2, <1>3, <1>4, <1>5 DEF Increments, Places
  <2>2. /\ Increments(q, k, s, 1) \subseteq 1..n /\ Increments(q, k, s, -1) \subseteq 1..n
        /\ Places(list, "get", s, k) \subseteq 1..n /\ Places(list, "put", s, k) \subseteq 1..n
    BY <1>1, <1>2 DEF Increments, Places
  <2> QED
    BY <2>1, <2>2
<1>7. field'[k][s] = (IF Zeroed(q, k) = {} THEN field[k][s] ELSE 0)
         + Cardinality(Increments(q, k, s, 1)) - Cardinality(Increments(q, k, s, -1))
  BY <1>2 DEF Apply
<1> QED
  BY <1>4, <1>6, <1>7

-----------------------------------------------------------------------------
(* The balance of a session and a resource.                                *)

Balanced ==
  \A s \in Sessions, k \in Keys :
    field[k][s] + Unexecuted("get", s, k) - Unexecuted("put", s, k) = Held(s, k)

LEMMA BalanceTypes ==
  ASSUME TypeOK, NEW s \in Sessions, NEW k \in Keys
  PROVE  field[k][s] \in Int /\ Unexecuted("get", s, k) \in Nat /\ Unexecuted("put", s, k) \in Nat
BY UnexecutedUnderway DEF TypeOK, RedisTypeOK

(* Somebody is alone.                                                      *)
LEMMA SomeAlone ==
  ASSUME ConnectionInv
  PROVE  /\ \E i \in OpIds : Alone(i)
         /\ \A i \in OpIds : InFlight(i) => Alone(i)
<1>1. 1 \in OpIds
  BY RedisAssumption DEF OpIds
<1>2. \A i \in OpIds : InFlight(i) => Alone(i)
  BY DEF ConnectionInv, OneAtATime, Alone
<1>3. (\A i \in OpIds : ~InFlight(i)) => Alone(1)
  BY DEF Alone
<1> QED
  BY <1>1, <1>2, <1>3

(* Steps that change nothing in what is held, counted or under way.        *)
LEMMA BalanceSame ==
  ASSUME Settled, Settled', Balanced, NEW i \in OpIds, Alone(i), Alone(i)', UNCHANGED field,
         \A o, s, k : Due(opQueue', ops'[i], multi', o, s, k) = Due(opQueue, ops[i], multi, o, s, k),
         \A s \in Sessions, k \in Keys : Held(s, k)' = Held(s, k)
  PROVE  Balanced'
<1> SUFFICES ASSUME NEW s \in Sessions, NEW k \in Keys
             PROVE  field'[k][s] + Unexecuted("get", s, k)' - Unexecuted("put", s, k)' = Held(s, k)'
  BY DEF Balanced
<1>1. \A o : Unexecuted(o, s, k)' = Due(opQueue', ops'[i], multi', o, s, k)
  BY DueIsNext
<1>2. \A o : Unexecuted(o, s, k) = Due(opQueue, ops[i], multi, o, s, k)
  BY DueIs
<1>3. \A o : Unexecuted(o, s, k)' = Unexecuted(o, s, k)
  BY <1>1, <1>2
<1>4. field[k][s] + Unexecuted("get", s, k) - Unexecuted("put", s, k) = Held(s, k)
  BY DEF Balanced
<1> QED
  BY <1>3, <1>4

(* EXEC: what was under way is counted.                                    *)
LEMMA BalanceExec ==
  ASSUME Settled, Settled', Balanced, NEW i \in OpIds, Alone(i), ops[i].state = "OP_RES",
         multi.open, ~multi'.open, Apply(Incs(i, ops[i].list)), UNCHANGED <<opQueue, ops>>,
         \A s \in Sessions, k \in Keys : Held(s, k)' = Held(s, k)
  PROVE  Balanced'
<1> SUFFICES ASSUME NEW s \in Sessions, NEW k \in Keys
             PROVE  field'[k][s] + Unexecuted("get", s, k)' - Unexecuted("put", s, k)' = Held(s, k)'
  BY DEF Balanced
<1>1. Alone(i)'
  BY DEF Alone, InFlight
<1>2. \A o : Unexecuted(o, s, k)' = Due(opQueue, ops[i], multi', o, s, k)
  BY <1>1, DueIsNext
<1>3. \A o : Unexecuted(o, s, k) = Due(opQueue, ops[i], multi, o, s, k)
  BY DueIs
<1>4. PICK list \in Seq(Op) : list = ops[i].list
  BY DEF Settled, TypeOK, ConnTypeOK
<1>5. opQueue \in Seq(Op)
  BY DEF Settled, TypeOK, ConnTypeOK
<1>6. PICK a \in Nat, b \in Nat, c \in Nat, d \in Nat :
        /\ a = Cardinality(Places(opQueue, "get", s, k)) /\ b = Cardinality(Places(opQueue, "put", s, k))
        /\ c = Cardinality(Places(list, "get", s, k)) /\ d = Cardinality(Places(list, "put", s, k))
  BY <1>5, PlacesType
<1>7. /\ Unexecuted("get", s, k) = a + c /\ Unexecuted("put", s, k) = b + d
  BY <1>3, <1>4, <1>6 DEF Due
<1>8. /\ Unexecuted("get", s, k)' = a /\ Unexecuted("put", s, k)' = b
  BY <1>2, <1>6 DEF Due
<1>9. PICK f \in Int : f = field[k][s]
  BY DEF Settled, TypeOK, RedisTypeOK
<1>10. field'[k][s] = f + c - d
  BY <1>4, <1>6, <1>9, IncsApplied DEF Settled
<1>11. f + (a + c) - (b + d) = Held(s, k)
  BY <1>7, <1>9 DEF Balanced
<1>12. f + c - d + a - b = Held(s, k)
  BY ONLY <1>11, a \in Nat, b \in Nat, c \in Nat, d \in Nat, f \in Int
<1> QED
  BY <1>8, <1>10, <1>12

(* Submitted operations are under way, postponed or in the new object.     *)
LEMMA SubmitUnexecuted ==
  ASSUME Settled, Settled', AwaitedInv, Preemption = FALSE, NEW rol \in Seq(Op), NEW t,
         ProcessOperationsList(rol, t), UNCHANGED <<redisVars, ctx>>
  PROVE  \A o, s, k : Unexecuted(o, s, k)' = Unexecuted(o, s, k) + Cardinality(Places(rol, o, s, k))
<1> SUFFICES ASSUME NEW o, NEW s, NEW k
             PROVE  Unexecuted(o, s, k)' = Unexecuted(o, s, k) + Cardinality(Places(rol, o, s, k))
  OBVIOUS
<1>1. opQueue \in Seq(Op) /\ ops \in [OpIds -> SeqType]
  BY DEF Settled, TypeOK, ConnTypeOK, SeqType
<1>2. PICK a \in Nat, c \in Nat :
        a = Cardinality(Places(opQueue, o, s, k)) /\ c = Cardinality(Places(rol, o, s, k))
  BY <1>1, PlacesType
<1>3. CASE opQueue' = opQueue \o rol /\ UNCHANGED ops
  <2>1. PICK i \in OpIds : Alone(i)
    BY SomeAlone DEF Settled
  <2>2. Alone(i)'
    BY <1>3, <2>1 DEF Alone, InFlight
  <2>3. PICK e \in Nat : e = IF ops[i].state = "OP_RES" /\ ~multi.open THEN 0
                             ELSE Cardinality(Places(ops[i].list, o, s, k))
    BY <1>1, PlacesType DEF SeqType
  <2>4. Unexecuted(o, s, k) = a + e
    BY <1>2, <2>1, <2>3, DueIs DEF Due
  <2>5. UNCHANGED multi
    BY DEF redisVars
  <2>6. Unexecuted(o, s, k)' = Due(opQueue', ops'[i], multi', o, s, k)
    BY <2>2, DueIsNext
  <2>7. Cardinality(Places(opQueue', o, s, k)) = a + c
    BY <1>1, <1>2, <1>3, PlacesConcat
  <2>8. Unexecuted(o, s, k)' = a + c + e
    BY <1>3, <2>3, <2>5, <2>6, <2>7 DEF Due
  <2> QED
    BY <1>2, <2>4, <2>8
<1>4. CASE PerformOperations(rol, t) /\ IsReady /\ ~busy /\ UNCHANGED opQueue
  <2>1. UNCHANGED <<wire, sock, multi>>
    BY DEF redisVars
  <2>2. (\A j \in OpIds : ~InFlight(j)) /\ \E i \in OpIds : ops' = [ops EXCEPT ![i] = NewSeq(rol)]
    BY <1>4, <2>1, PipeStart DEF Settled
  <2>3. PICK i \in OpIds : ops' = [ops EXCEPT ![i] = NewSeq(rol)]
    BY <2>2
  <2>4. Alone(i)
    BY <2>2 DEF Alone
  <2>5. ops'[i] = NewSeq(rol) /\ \A j \in OpIds : j # i => ops'[j] = ops[j]
    BY <1>1, <2>3
  <2>6. Alone(i)'
    BY <2>4, <2>5 DEF Alone, InFlight
  <2>7. ops[i].state = "NONE" /\ ops[i].list = << >>
    BY <2>2 DEF Settled, FreeIsEmpty, InFlight
  <2>8. Cardinality(Places(ops[i].list, o, s, k)) = 0
    BY <2>7, PlacesEmpty, FS_EmptySet
  <2>9. Unexecuted(o, s, k) = a
    BY <1>2, <2>4, <2>7, <2>8, DueIs DEF Due
  <2>10. Unexecuted(o, s, k)' = Due(opQueue, NewSeq(rol), multi', o, s, k)
    BY <1>4, <2>5, <2>6, DueIsNext
  <2>11. NewSeq(rol).state = "MULTI_START" /\ NewSeq(rol).list = rol
    BY DEF NewSeq
  <2>12. Unexecuted(o, s, k)' = a + c
    BY <1>2, <2>10, <2>11 DEF Due
  <2> QED
    BY <1>2, <2>9, <2>12
<1> QED
  BY <1>3, <1>4 DEF ProcessOperationsList


(* RES_SUCC: the session holds what its gets will add.                     *)
LEMMA BalanceGranted ==
  ASSUME Settled, Settled', AwaitedInv, ReleaseInv, Balanced, Preemption = FALSE, NEW s \in Sessions,
         GetGranted(s)
  PROVE  Balanced'
<1> DEFINE act == FirstFree(Need[s].failover, over[s])
           rol == OperationList("get", s, act)
<1>0. act \in SUBSET (1..Size(s))
  BY ControlAssumption DEF FirstFree, Size
<1>1. /\ spc[s] = "check" /\ spc' = [spc EXCEPT ![s] = "emplace"]
      /\ taken' = [taken EXCEPT ![s] = act] /\ UNCHANGED <<redisVars, ctx, handlers, field>>
      /\ ProcessOperationsList(rol, s)
  BY DEF GetGranted, Checked, redisVars
<1>2. rol \in Seq(Op)
  BY <1>0, OperationListType
<1>3. \A t \in Sessions, k \in Keys :
        /\ Cardinality(Places(rol, "put", t, k)) = 0
        /\ Cardinality(Places(rol, "get", t, k)) = IF s = t THEN Cardinality(Position(s, act, k)) ELSE 0
  BY <1>0, OperationCount
<1> HIDE DEF act, rol
<1>4. \A o, t, k : Unexecuted(o, t, k)' = Unexecuted(o, t, k) + Cardinality(Places(rol, o, t, k))
  BY <1>1, <1>2, SubmitUnexecuted
<1>5. handlers[s] = "none"
  BY <1>1 DEF ReleaseInv, Early
<1>6. /\ spc'[s] = "emplace" /\ taken'[s] = act
      /\ \A t \in Sessions : t # s => spc'[t] = spc[t] /\ taken'[t] = taken[t]
  BY <1>1 DEF Settled, TypeOK
<1> SUFFICES ASSUME NEW t \in Sessions, NEW k \in Keys
             PROVE  field'[k][t] + Unexecuted("get", t, k)' - Unexecuted("put", t, k)' = Held(t, k)'
  BY DEF Balanced
<1>7. PICK f \in Int, a \in Nat, b \in Nat :
        f = field[k][t] /\ a = Unexecuted("get", t, k) /\ b = Unexecuted("put", t, k)
  BY BalanceTypes DEF Settled
<1>8. f + a - b = Held(t, k)
  BY <1>7 DEF Balanced
<1>9. field'[k][t] = f
  BY <1>1, <1>7
<1>10. Cardinality(Places(rol, "get", t, k)) \in Nat
  BY <1>2, PlacesType
<1>11. PICK p \in Nat : p = Cardinality(Places(rol, "get", t, k))
  BY <1>10
<1>12. Unexecuted("get", t, k)' = a + p /\ Unexecuted("put", t, k)' = b
  <2>1. Unexecuted("put", t, k)' = b + 0
    BY <1>3, <1>4, <1>7
  <2> QED
    BY <1>4, <1>7, <1>11, <2>1
<1>13. CASE t = s
  <2>1. Held(t, k) = 0
    BY <1>1, <1>5, <1>13 DEF Held
  <2>2. Held(t, k)' = p
    BY <1>3, <1>6, <1>11, <1>13 DEF Held, Position
  <2>3. f + (a + p) - b = p
    BY ONLY <1>8, <2>1, f \in Int, a \in Nat, b \in Nat, p \in Nat
  <2> QED
    BY <1>9, <1>12, <2>2, <2>3
<1>14. CASE t # s
  <2>1. Held(t, k)' = Held(t, k)
    BY <1>1, <1>6, <1>14 DEF Held
  <2>2. p = 0
    BY <1>3, <1>11, <1>14
  <2> QED
    BY <1>8, <1>9, <1>12, <2>1, <2>2
<1> QED
  BY <1>13, <1>14

(* ResourceControl::put: what the session held is on its way back.         *)
LEMMA BalancePut ==
  ASSUME Settled, Settled', AwaitedInv, ReleaseInv, Balanced, Preemption = FALSE,
         NEW s \in Sessions, PutHandler(s),
         spc[s] # "emplace", spc'[s] # "emplace", \A t \in Sessions : t # s => spc'[t] = spc[t]
  PROVE  Balanced'
<1>1. /\ taken' = taken /\ UNCHANGED <<redisVars, ctx, field>> /\ taken[s] \in SUBSET (1..Size(s))
      /\ handlers' = [handlers EXCEPT ![s] = "none"]
  BY DEF PutHandler, redisVars, Settled, TypeOK
<1>2. handlers'[s] = "none" /\ \A t \in Sessions : t # s => handlers'[t] = handlers[t]
  BY <1>1 DEF Settled, TypeOK
<1>3. \A k \in Keys : Held(s, k)' = 0
  BY <1>2 DEF Held
<1>4. \A t \in Sessions, k \in Keys : t # s => Held(t, k)' = Held(t, k)
  BY <1>1, <1>2 DEF Held
<1>5. CASE handlers[s] = "valid" /\ taken[s] # {}
  <2> DEFINE rol == OperationList("put", s, taken[s])
  <2>1. rol \in Seq(Op) /\ ProcessOperationsList(rol, s)
    BY <1>1, <1>5, OperationListType DEF PutHandler
  <2>2. \A t \in Sessions, k \in Keys :
          /\ Cardinality(Places(rol, "get", t, k)) = 0
          /\ Cardinality(Places(rol, "put", t, k))
               = IF s = t THEN Cardinality(Position(s, taken[s], k)) ELSE 0
    BY <1>1, OperationCount
  <2> HIDE DEF rol
  <2>3. \A o, t, k : Unexecuted(o, t, k)' = Unexecuted(o, t, k) + Cardinality(Places(rol, o, t, k))
    BY <1>1, <2>1, SubmitUnexecuted
  <2> SUFFICES ASSUME NEW t \in Sessions, NEW k \in Keys
               PROVE  field'[k][t] + Unexecuted("get", t, k)' - Unexecuted("put", t, k)' = Held(t, k)'
    BY DEF Balanced
  <2>4. PICK f \in Int, a \in Nat, b \in Nat :
          f = field[k][t] /\ a = Unexecuted("get", t, k) /\ b = Unexecuted("put", t, k)
    BY BalanceTypes DEF Settled
  <2>5. f + a - b = Held(t, k) /\ field'[k][t] = f
    BY <1>1, <2>4 DEF Balanced
  <2>6. Cardinality(Places(rol, "put", t, k)) \in Nat
    BY <2>1, PlacesType
  <2>7. PICK p \in Nat : p = Cardinality(Places(rol, "put", t, k))
    BY <2>6
  <2>8. Unexecuted("put", t, k)' = b + p /\ Unexecuted("get", t, k)' = a
    <3>1. Unexecuted("get", t, k)' = a + 0
      BY <2>2, <2>3, <2>4
    <3> QED
      BY <2>3, <2>4, <2>7, <3>1
  <2>9. CASE t = s
    <3>1. Held(t, k) = p
      BY <1>5, <2>2, <2>7, <2>9 DEF Held, Position
    <3>2. f + a - (b + p) = 0
      BY ONLY <2>5, <3>1, f \in Int, a \in Nat, b \in Nat, p \in Nat
    <3> QED
      BY <1>3, <2>5, <2>8, <2>9, <3>2
  <2>10. CASE t # s
    <3>1. p = 0
      BY <2>2, <2>7, <2>10
    <3> QED
      BY <1>4, <2>5, <2>8, <2>10, <3>1
  <2> QED
    BY <2>9, <2>10
<1>6. CASE ~(handlers[s] = "valid" /\ taken[s] # {})
  <2>1. UNCHANGED <<opQueue, ops, multi>>
    BY <1>1, <1>6 DEF PutHandler, redisVars
  <2>2. PICK i \in OpIds : Alone(i)
    BY SomeAlone DEF Settled
  <2>3. Alone(i)'
    BY <2>1, <2>2 DEF Alone, InFlight
  <2>4. \A k \in Keys : Held(s, k) = 0
    <3>1. CASE handlers[s] # "valid"
      BY <3>1 DEF Held
    <3>2. CASE taken[s] = {}
      <4>1. \A k \in Keys : {n \in taken[s] : Need[s].key[n] = k} = {}
        BY <3>2
      <4> QED
        BY <4>1, FS_EmptySet DEF Held
    <3> QED
      BY <1>6, <3>1, <3>2
  <2>5. \A t \in Sessions, k \in Keys : Held(t, k)' = Held(t, k)
    BY <1>3, <1>4, <2>4
  <2> QED
    BY <1>1, <2>1, <2>2, <2>3, <2>5, BalanceSame
<1> QED
  BY <1>5, <1>6


(* Every step of the program keeps the balance.                            *)
LEMMA BalanceKept ==
  ASSUME Settled, Settled', AwaitedInv, ReleaseInv, RpcIdle, Balanced, Preemption = FALSE, MaxErrors = 0,
         MaxInvalidations = 0, [Next]_vars
  PROVE  Balanced'
<1>0. /\ TypeOK /\ ConnectionInv /\ PipeInv /\ Accounting /\ Accounting' /\ ops \in [OpIds -> SeqType]
      /\ OneAtATime /\ FreeIsEmpty
      /\ \A i \in OpIds : InFlight(i) => ctx = "open" /\ OpStaged(i) /\ busy /\ Alone(i)
      /\ (\A i \in OpIds : ~InFlight(i)) => wire = << >> /\ sock = << >> /\ evq = << >>
  BY QuietNow, SomeAlone DEF Settled, PipeInv, Accounting, ConnectionInv, Unpreempted, OneAtATime, TypeOK,
     ConnTypeOK, SeqType
<1>1. ASSUME UNCHANGED <<spc, handlers, taken>>
      PROVE  \A s \in Sessions, k \in Keys : Held(s, k)' = Held(s, k)
  BY <1>1 DEF Held
<1>2. ASSUME UNCHANGED <<field, opQueue, ops, multi>>,
             \A s \in Sessions, k \in Keys : Held(s, k)' = Held(s, k)
      PROVE  Balanced'
  <2>1. PICK i \in OpIds : Alone(i)
    BY SomeAlone DEF Settled
  <2>2. Alone(i)'
    BY <1>2, <2>1 DEF Alone, InFlight
  <2> QED
    BY <1>2, <2>1, <2>2, BalanceSame
<1>3. ASSUME NEW s \in Sessions, SessionThread(s) \/ RpcPut(s) PROVE Balanced'
  <2>0. spc \in [Sessions -> {"idle", "check", "emplace", "hold", "refused", "done"}]
        /\ handlers \in [Sessions -> {"none", "valid", "invalid"}]
    BY <1>0 DEF TypeOK
  <2>1. CASE GetGranted(s)
    BY <2>1, BalanceGranted
  <2>2. CASE SessionPut(s)
    <3>1. PutHandler(s) /\ spc[s] = "hold" /\ spc' = [spc EXCEPT ![s] = "done"]
      BY <2>2 DEF SessionPut
    <3>2. spc'[s] = "done" /\ \A t \in Sessions : t # s => spc'[t] = spc[t]
      BY <2>0, <3>1
    <3> QED
      BY <3>1, <3>2, BalancePut
  <2>3. CASE RpcPut(s)
    <3>1. PutHandler(s) /\ handlers[s] # "none" /\ UNCHANGED spc
      BY <2>3 DEF RpcPut
    <3>2. spc[s] # "emplace"
      BY <3>1 DEF ReleaseInv, Early
    <3> QED
      BY <3>1, <3>2, BalancePut
  <2>4. CASE GetEmplace(s)
    <3>1. /\ UNCHANGED <<field, opQueue, ops, multi, taken>> /\ spc[s] = "emplace"
          /\ handlers' = [handlers EXCEPT ![s] = "valid"] /\ spc' = [spc EXCEPT ![s] = "hold"]
      BY <2>4 DEF GetEmplace, redisVars, connVars, seqVars
    <3>2. /\ handlers'[s] = "valid" /\ \A t \in Sessions : t # s => handlers'[t] = handlers[t]
          /\ \A t \in Sessions : t # s => spc'[t] = spc[t]
      BY <2>0, <3>1
    <3>3. \A t \in Sessions, k \in Keys : Held(t, k)' = Held(t, k)
      BY <3>1, <3>2 DEF Held
    <3> QED
      BY <1>2, <3>1, <3>3
  <2>5. CASE GetStart(s) \/ CheckValue(s) \/ CheckFailed(s) \/ GetBusy(s)
    <3>1. UNCHANGED <<field, opQueue, ops, multi, taken, handlers>> /\ spc[s] # "emplace"
      BY <2>5 DEF GetStart, CheckValue, CheckFailed, GetBusy, Checked, redisVars, connVars, seqVars
    <3>2. spc'[s] # "emplace" /\ \A t \in Sessions : t # s => spc'[t] = spc[t]
      BY <2>0, <2>5 DEF GetStart, CheckValue, CheckFailed, GetBusy, Checked, OnError
    <3>3. \A t \in Sessions, k \in Keys : Held(t, k)' = Held(t, k)
      BY <3>1, <3>2 DEF Held
    <3> QED
      BY <1>2, <3>1, <3>3
  <2> QED
    BY <1>3, <2>1, <2>2, <2>3, <2>4, <2>5 DEF SessionThread
<1>4. CASE UNCHANGED vars
  BY <1>1, <1>2, <1>4 DEF vars, redisVars, connVars, seqVars, ctlVars, sessVars
<1>5. ASSUME UNCHANGED ctlVars PROVE \A s \in Sessions, k \in Keys : Held(s, k)' = Held(s, k)
  BY <1>1, <1>5 DEF ctlVars, sessVars
<1>6. CASE UNCHANGED ctlVars /\ ServerStep
  <2>1. Server /\ UNCHANGED <<evq, ops, opQueue>>
    BY <1>6 DEF ServerStep, connVars, seqVars
  <2>2. wire # << >>
    BY <2>1 DEF Server, ServerMulti, ServerQueue, ServerKeys, ServerDirect, ServerExec
  <2>3. PICK i \in OpIds : InFlight(i)
    BY <1>0, <2>2
  <2>4. \/ field' = field /\ (ops[i].state = "OP_RES" => multi'.open /\ multi.open)
        \/ /\ ops[i].state = "OP_RES" /\ multi.open /\ ~multi'.open
           /\ Apply(Incs(i, ops[i].list))
    BY <1>0, <2>1, <2>3, OpServerStaged
  <2>5. Alone(i) /\ Alone(i)'
    BY <1>0, <2>1, <2>3 DEF Alone, InFlight
  <2>6. CASE field' = field /\ (ops[i].state = "OP_RES" => multi'.open /\ multi.open)
    <3>1. \A o, s, k : Due(opQueue', ops'[i], multi', o, s, k) = Due(opQueue, ops[i], multi, o, s, k)
      BY <2>1, <2>6 DEF Due
    <3> QED
      BY <1>5, <1>6, <2>5, <2>6, <3>1, BalanceSame
  <2>7. CASE /\ ops[i].state = "OP_RES" /\ multi.open /\ ~multi'.open
             /\ Apply(Incs(i, ops[i].list))
    BY <1>5, <1>6, <2>1, <2>5, <2>7, BalanceExec
  <2> QED
    BY <2>4, <2>6, <2>7
<1>7. CASE UNCHANGED ctlVars /\ OnDisconnect
  <2>1. inited' = (inited /\ ~busy) /\ UNCHANGED <<ops, opQueue, field>>
    BY <1>7 DEF OnDisconnect
  <2>2. \A i \in OpIds : ~InFlight(i)
    BY <1>0, <2>1 DEF Accounting
  <2>3. PICK i \in OpIds : Alone(i)
    BY <1>0, SomeAlone
  <2>4. Alone(i)'
    BY <2>1, <2>3 DEF Alone, InFlight
  <2>5. \A o, s, k : Due(opQueue', ops'[i], multi', o, s, k) = Due(opQueue, ops[i], multi, o, s, k)
    BY <2>1, <2>2 DEF Due, InFlight
  <2> QED
    BY <1>5, <1>7, <2>1, <2>3, <2>4, <2>5, BalanceSame
<1>8. CASE UNCHANGED ctlVars /\ (ConnectFailed \/ OnReconnect \/ OnConnect \/ ProcessRequestEvent \/ HandleRead)
  BY <1>2, <1>5, <1>8 DEF ConnectFailed, OnReconnect, OnConnect, ProcessRequestEvent, HandleRead, redisVars,
     seqVars
<1>9. CASE UNCHANGED ctlVars /\ ProcessOperationsQueue
  <2>0. UNCHANGED <<wire, sock, multi, field>> /\ opQueue \in Seq(Op)
    BY <1>0, <1>9 DEF ProcessOperationsQueue, redisVars, TypeOK, ConnTypeOK
  <2>1. CASE UNCHANGED <<opQueue, ops>>
    BY <1>2, <1>5, <1>9, <2>0, <2>1
  <2>2. CASE PerformOperations(opQueue, NoSession) /\ IsReady /\ ~busy /\ opQueue' = << >>
    <3>1. \A j \in OpIds : ~InFlight(j)
      BY <1>0, <2>0, <2>2, PipeStart
    <3>2. PICK i \in OpIds : ops' = [ops EXCEPT ![i] = NewSeq(opQueue)]
      BY <1>0, <2>0, <2>2, PipeStart
    <3>3. ops'[i] = NewSeq(opQueue) /\ \A j \in OpIds : j # i => ops'[j] = ops[j]
      BY <1>0, <3>2
    <3>4. Alone(i) /\ Alone(i)'
      BY <3>1, <3>3 DEF Alone, InFlight
    <3>5. ops[i].state = "NONE" /\ ops[i].list = << >>
      BY <1>0, <3>1 DEF FreeIsEmpty, InFlight
    <3>6. NewSeq(opQueue).state = "MULTI_START" /\ NewSeq(opQueue).list = opQueue
      BY DEF NewSeq
    <3>7. ASSUME NEW o, NEW s, NEW k
          PROVE  Due(opQueue', ops'[i], multi', o, s, k) = Due(opQueue, ops[i], multi, o, s, k)
      <4>1. PICK a \in Nat : a = Cardinality(Places(opQueue, o, s, k))
        BY <2>0, PlacesType
      <4>2. Cardinality(Places(<< >>, o, s, k)) = 0
        BY PlacesEmpty, FS_EmptySet
      <4>3. Due(opQueue', ops'[i], multi', o, s, k) = 0 + a
        BY <2>2, <3>3, <3>6, <4>1, <4>2 DEF Due
      <4>4. Due(opQueue, ops[i], multi, o, s, k) = a + 0
        BY <3>5, <4>1, <4>2 DEF Due
      <4> QED
        BY ONLY <4>3, <4>4, a \in Nat
    <3> QED
      BY <1>5, <1>9, <2>0, <3>4, <3>7, BalanceSame
  <2> QED
    BY <1>9, <2>1, <2>2 DEF ProcessOperationsQueue
<1>10. ASSUME UNCHANGED ctlVars, NEW i \in OpIds, OpMultiAnswered(i) \/ OpQueued(i) PROVE Balanced'
  <2>1. InFlight(i) /\ UNCHANGED <<field, opQueue, multi>>
    BY <1>10 DEF OpMultiAnswered, OpQueued, InFlight, redisVars
  <2>2. /\ \A j \in OpIds : j # i => ops'[j] = ops[j]
        /\ ops'[i].list = ops[i].list /\ ops'[i].state = "OP_RES"
    <3>1. \E c, e : ops' = [ops EXCEPT ![i] = [state |-> "OP_RES", list |-> ops[i].list,
                                              count |-> c, err |-> e]]
      BY <1>10 DEF OpMultiAnswered, OpQueued
    <3>2. PICK c, e : ops' = [ops EXCEPT ![i] = [state |-> "OP_RES", list |-> ops[i].list,
                                                 count |-> c, err |-> e]]
      BY <3>1
    <3>3. PICK op : op = [state |-> "OP_RES", list |-> ops[i].list, count |-> c, err |-> e]
      OBVIOUS
    <3>4. ops' = [ops EXCEPT ![i] = op] /\ op.list = ops[i].list /\ op.state = "OP_RES"
      BY <3>2, <3>3
    <3> QED
      BY <1>0, <3>4
  <2>3. Alone(i) /\ Alone(i)'
    BY <1>0, <2>1, <2>2 DEF Alone, InFlight
  <2>4. ops[i].state # "OP_RES" => multi.open
    BY <1>0, <1>10, <2>1, OpMultiStaged DEF OpQueued
  <2>5. \A o, s, k : Due(opQueue', ops'[i], multi', o, s, k) = Due(opQueue, ops[i], multi, o, s, k)
    BY <2>1, <2>2, <2>4 DEF Due
  <2> QED
    BY <1>5, <1>10, <2>1, <2>3, <2>5, BalanceSame
<1>11. ASSUME UNCHANGED ctlVars, NEW i \in OpIds, OpSucceeded(i) PROVE Balanced'
  <2>1. /\ UNCHANGED <<field, opQueue, multi>> /\ OpLast(i) /\ ops[i].state = "OP_RES"
        /\ ops' = [ops EXCEPT ![i] = NoSeq]
    BY <1>11 DEF OpSucceeded, OpLast, redisVars
  <2>2. ops'[i] = NoSeq /\ \A j \in OpIds : j # i => ops'[j] = ops[j]
    BY <1>0, <2>1
  <2>3. InFlight(i)
    BY <2>1 DEF InFlight
  <2>4. Alone(i) /\ Alone(i)'
    BY <1>0, <2>2, <2>3 DEF Alone, InFlight
  <2>5. ~multi.open
    BY <1>0, <2>1, <2>3, OpLastStaged
  <2>6. NoSeq.state = "NONE" /\ NoSeq.list = << >>
    BY DEF NoSeq
  <2>7. ASSUME NEW o, NEW s, NEW k
        PROVE  Due(opQueue', ops'[i], multi', o, s, k) = Due(opQueue, ops[i], multi, o, s, k)
    <3>1. Cardinality(Places(<< >>, o, s, k)) = 0
      BY PlacesEmpty, FS_EmptySet
    <3> QED
      BY <2>1, <2>2, <2>5, <2>6, <3>1 DEF Due
  <2> QED
    BY <1>5, <1>11, <2>1, <2>4, <2>7, BalanceSame
<1> QED
  BY <1>0, <1>3, <1>4, <1>6, <1>7, <1>8, <1>9, <1>10, <1>11, AccountingSteps

(* The balance when the counters were cleared for the first time.          *)
LEMMA BalanceStarts ==
  ASSUME TypeOK, AwaitedInv, ConnectionInv, ResetInv, EarlyInv, InvFinished, clears = 0, Settled',
         UNCHANGED ctlVars
  PROVE  Balanced'
<1> SUFFICES ASSUME NEW s \in Sessions, NEW k \in Keys
             PROVE  field'[k][s] + Unexecuted("get", s, k)' - Unexecuted("put", s, k)' = Held(s, k)'
  BY DEF Balanced
<1>1. /\ opQueue = << >> /\ (\A i \in OpIds : ~InFlight(i))
      /\ spc[s] # "emplace" /\ handlers[s] = "none"
  BY DEF EarlyInv
<1>2. UNCHANGED <<field, opQueue, ops, multi, spc, handlers>>
  BY DEF InvFinished, redisVars, ctlVars, sessVars
<1>3. field[k][s] = 0
  BY FinishedCleared DEF AllZero
<1>4. \A i \in OpIds : Alone(i)' /\ ops'[i].state = "NONE" /\ ops'[i].list = << >>
  BY <1>1, <1>2 DEF Alone, InFlight, Settled, FreeIsEmpty
<1>5. PICK i \in OpIds : TRUE
  BY SomeAlone
<1>6. ASSUME NEW o PROVE Unexecuted(o, s, k)' = 0
  <2>1. Unexecuted(o, s, k)' = Due(opQueue', ops'[i], multi', o, s, k)
    BY <1>4, DueIsNext
  <2>2. Cardinality(Places(<< >>, o, s, k)) = 0
    BY PlacesEmpty, FS_EmptySet
  <2>3. Due(opQueue', ops'[i], multi', o, s, k) = 0 + 0
    BY <1>1, <1>2, <1>4, <2>2 DEF Due
  <2> QED
    BY <2>1, <2>3
<1>7. Held(s, k)' = 0
  BY <1>1, <1>2 DEF Held
<1> QED
  BY <1>2, <1>3, <1>6, <1>7


(* InvFinished is a step of the redis thread alone.                        *)
LEMMA FinishedAlone ==
  ASSUME TypeOK, [Next]_vars, InvFinished
  PROVE  UNCHANGED ctlVars
<1>1. clears' # clears
  BY DEF InvFinished, TypeOK, ConnTypeOK
<1>2. ASSUME NEW s \in Sessions PROVE ~(SessionThread(s) \/ RpcPut(s))
  BY <1>1, <1>2, SessionEffect DEF connVars, faultVars
<1>3. ~ThreadResumed /\ ~Invalidate /\ ~UNCHANGED vars
  BY <1>1 DEF ThreadResumed, SetBusy, Invalidate, InvalidateUnready, InvalidateHandlers,
     InvalidateSequence, InvalidateReset, InvalidateAnswer, vars, connVars, faultVars
<1>4. ~Restart
  BY DEF Restart, InvFinished, TypeOK, ConnTypeOK
<1> QED
  BY <1>2, <1>3, <1>4 DEF Next, Client, Redis_, Fault

(* The inductive invariant, in two parts: what the connection guarantees,  *)
(* and the books kept on it.                                               *)
CoreInv == AwaitedInv /\ ConnectionInv /\ ResetInv /\ ReleaseInv
BookInv == RpcIdle /\ EarlyInv /\ PipeInv /\ Conservation

LEMMA BooksStart ==
  ASSUME Init
  PROVE  CoreInv /\ BookInv
<1>1. /\ clears = 0 /\ rpc = "idle"
      /\ ~inited /\ ~container_ready /\ opQueue = << >> /\ ops = [i \in OpIds |-> NoSeq]
      /\ spc = [s \in Sessions |-> "idle"] /\ handlers = [s \in Sessions |-> "none"]
  BY DEF Init, RedisInit, ConnInit, ControlInit
<1>2. EarlyInv
  BY <1>1 DEF EarlyInv, InFlight, NoSeq
<1>3. RpcIdle /\ PipeInv /\ Conservation
  BY <1>1 DEF RpcIdle, PipeInv, Accounting, Conservation
<1> QED
  BY <1>2, <1>3, ConnectionInit, ResetInit, ReleaseInit DEF CoreInv, BookInv

LEMMA CoreKept ==
  ASSUME Preemption = FALSE
  PROVE  TypeOK /\ TypeOK' /\ CoreInv /\ [Next]_vars => CoreInv'
BY AwaitedInductive, ConnectionInductive, ResetInductive, ReleaseInductive DEF CoreInv

LEMMA BooksKept ==
  ASSUME Preemption = FALSE, MaxErrors = 0, MaxInvalidations = 0, TypeOK, TypeOK', CoreInv, CoreInv',
         BookInv, [Next]_vars
  PROVE  BookInv'
<1> USE DEF CoreInv, BookInv
<1>1. RpcIdle'
  BY RpcStaysIdle
<1>2. EarlyInv'
  BY EarlyKept
<1>3. PipeInv'
  BY PipeKept
<1>4. ASSUME Accounting' PROVE Balanced'
  <2>1. Settled'
    BY <1>3, <1>4 DEF Settled, ReleaseInv
  <2>2. CASE Accounting
    <3>1. Settled /\ Balanced
      BY <2>2 DEF Settled, ReleaseInv, Conservation, Balanced, Accounting
    <3> QED
      BY <2>1, <3>1, BalanceKept
  <2>3. CASE InvFinished /\ clears = 0
    <3>1. UNCHANGED ctlVars
      BY <2>3, FinishedAlone
    <3> QED
      BY <2>1, <2>3, <3>1, BalanceStarts
  <2> QED
    BY <1>4, <2>2, <2>3, AccountingStep
<1>5. Conservation'
  BY <1>4 DEF Conservation, Balanced, Accounting
<1> QED
  BY <1>1, <1>2, <1>3, <1>5

(* Once the counters of this node were cleared at start, and until an      *)
(* operation is lost, what redis counts for a session and a resource plus  *)
(* the gets and minus the puts on their way is what the session holds:     *)
(* whatever the order in which sessions and RPCs get and put, operations   *)
(* are postponed and sent, and connections break and come back, nothing is *)
(* lost, doubled or forgotten (process_operations_list,                    *)
(* process_operations_queue, OperationResources, on_disconnect).  For any  *)
(* number of sessions, resources and disconnects, where redis refuses no   *)
(* command and no RPC invalidates: both make the counters doubtful before  *)
(* resources_inited is reset.                                              *)
THEOREM ResourcesConserved ==
  ASSUME Preemption = FALSE, MaxErrors = 0, MaxInvalidations = 0
  PROVE  Spec => []Conservation
<1>1. Init => CoreInv /\ BookInv
  BY BooksStart
<1>2. TypeOK /\ TypeOK' /\ CoreInv /\ [Next]_vars => CoreInv'
  BY CoreKept
<1>3. TypeOK /\ TypeOK' /\ CoreInv /\ CoreInv' /\ BookInv /\ [Next]_vars => BookInv'
  BY BooksKept
<1>4. BookInv => Conservation
  BY DEF BookInv
<1> QED
  BY <1>1, <1>2, <1>3, <1>4, TypeCorrect, PTL DEF Spec

-----------------------------------------------------------------------------
(* The refinement of the ledger.                                           *)

(* Every nonempty set of numbers has a smallest one.                       *)
LEMMA SmallestOf ==
  ASSUME NEW T \in SUBSET Nat, T # {}
  PROVE  \E x \in T : \A y \in T : x <= y
<1> DEFINE R == {ss \in Nat \X Nat : ss[1] < ss[2]}
<1>1. IsWellFoundedOn(R, Nat)
  BY NatLessThanWellFounded DEF OpToRel
<1>2. PICK x \in T : \A y \in T : ~(<<y, x>> \in R)
  <2> HIDE DEF R
  <2> QED
    BY <1>1, WFMin
<1>3. \A y \in T : ~(y < x)
  BY <1>2
<1> QED
  BY <1>3

(* i and j are alternatives of one group.                                  *)
Alternatives(f, i, j) == IF i <= j THEN SameGroup(f, i, j) ELSE SameGroup(f, j, i)

(* A list whose last resource does not fail over, no group exhausted: each *)
(* group has one first free alternative.                                   *)
LEMMA OneFirstFree ==
  ASSUME NEW f \in Seq(BOOLEAN), NEW ov, Exhausted(f, ov) = {}, Len(f) # 0 => ~f[Len(f)],
         NEW i \in DOMAIN f
  PROVE  \E x \in FirstFree(f, ov) :
           \A m \in FirstFree(f, ov) : Alternatives(f, i, m) <=> m = x
<1>1. PICK n \in Nat : n = Len(f) /\ DOMAIN f = 1..n /\ i \in 1..n /\ ~f[n]
  OBVIOUS
<1> DEFINE Ends == {m \in i..n : ~f[m]}
<1>2. PICK e \in Ends : \A m \in Ends : e <= m
  <2>1. n \in Ends /\ Ends \subseteq Nat
    BY <1>1
  <2> HIDE DEF Ends
  <2> QED
    BY <2>1, SmallestOf
<1>3. e \in 1..n /\ i <= e /\ ~f[e] /\ \A m \in i..(e - 1) : f[m]
  <2>1. e \in i..n /\ e \in Nat /\ ~f[e]
    BY <1>1, <1>2
  <2>2. ASSUME NEW m \in i..(e - 1) PROVE f[m]
    <3>1. m \in i..n /\ ~(e <= m)
      BY <1>1, <2>1
    <3>2. m \notin Ends
      BY <1>2, <3>1
    <3> QED
      BY <3>1, <3>2
  <2> QED
    BY <1>1, <2>1, <2>2
<1> DEFINE Free == {j \in 1..e : SameGroup(f, j, e) /\ j \notin ov}
<1>4. PICK x \in Free : \A j \in Free : x <= j
  <2>1. Free # {} /\ Free \subseteq Nat
    BY <1>1, <1>3 DEF Exhausted
  <2> HIDE DEF Free
  <2> QED
    BY <2>1, SmallestOf
<1>5. x \in 1..e /\ x \in 1..n /\ x \notin ov /\ \A m \in x..(e - 1) : f[m]
  BY <1>1, <1>3, <1>4 DEF SameGroup
<1>6. x \in FirstFree(f, ov)
  <2>1. ASSUME NEW j \in 1..(x - 1), SameGroup(f, j, x) PROVE j \in ov
    <3>1. \A m \in j..(e - 1) : f[m]
      BY <1>3, <1>5, <2>1 DEF SameGroup
    <3>2. j \in 1..e /\ ~(x <= j)
      BY <1>3, <1>5
    <3>3. j \notin Free
      BY <1>4, <3>2
    <3> QED
      BY <3>1, <3>2, <3>3 DEF SameGroup
  <2> QED
    BY <1>1, <1>5, <2>1 DEF FirstFree
<1>7. Alternatives(f, i, x)
  BY <1>1, <1>3, <1>5 DEF Alternatives, SameGroup
<1>8. ASSUME NEW m \in FirstFree(f, ov), Alternatives(f, i, m) PROVE m = x
  <2>1. m \in 1..n /\ m \notin ov /\ \A j \in 1..(m - 1) : SameGroup(f, j, m) => j \in ov
    BY <1>1, <1>8 DEF FirstFree
  <2>2. m <= e
    <3>1. SUFFICES ASSUME e < m PROVE FALSE
      BY <1>3, <2>1
    <3>2. SameGroup(f, i, m) /\ e \in i..(m - 1)
      BY <1>1, <1>3, <1>8, <2>1, <3>1 DEF Alternatives
    <3> QED
      BY <1>3, <3>2 DEF SameGroup
  <2>3. SameGroup(f, m, e)
    BY <1>1, <1>3, <1>8, <2>1, <2>2 DEF Alternatives, SameGroup
  <2>4. m \in Free
    BY <1>3, <2>1, <2>2, <2>3
  <2>5. x <= m
    BY <1>4, <2>4
  <2>6. CASE x < m
    <3>1. SameGroup(f, x, m) /\ x \in 1..(m - 1)
      BY <1>3, <1>5, <2>1, <2>2, <2>6 DEF SameGroup
    <3> QED
      BY <1>5, <2>1, <3>1
  <2> QED
    BY <1>3, <1>5, <2>1, <2>5, <2>6
<1> QED
  BY <1>6, <1>7, <1>8

(* Cardinality and the groups of the ledger are those of this module.      *)
LEMMA SameCardinality == \A S : Ledger!Cardinality(S) = Cardinality(S)
BY DEF Ledger!Cardinality, Cardinality

LEMMA SameGroups == \A f, i, j : Ledger!SameGroup(f, i, j) <=> SameGroup(f, i, j)
BY DEF Ledger!SameGroup, SameGroup

(* What get() takes is one alternative of each group.                      *)
LEMMA TakesASelection ==
  ASSUME NEW s \in Sessions, NEW ov, Exhausted(Need[s].failover, ov) = {}
  PROVE  FirstFree(Need[s].failover, ov) \in Ledger!Selections(s)
<1>1. PICK f \in Seq(BOOLEAN) : f = Need[s].failover /\ (Len(f) # 0 => ~f[Len(f)])
  BY ControlAssumption
<1>2. PICK P : P = FirstFree(f, ov) /\ P \subseteq DOMAIN f
  BY DEF FirstFree
<1>3. ASSUME NEW i \in DOMAIN f PROVE Cardinality({j \in P : Alternatives(f, i, j)}) = 1
  <2>1. PICK x \in P : \A m \in P : Alternatives(f, i, m) <=> m = x
    <3>1. Exhausted(f, ov) = {}
      BY <1>1
    <3>2. Len(f) # 0 => ~f[Len(f)]
      BY <1>1
    <3>3. \E x \in FirstFree(f, ov) : \A m \in FirstFree(f, ov) : Alternatives(f, i, m) <=> m = x
      BY ONLY <3>1, <3>2, f \in Seq(BOOLEAN), i \in DOMAIN f, OneFirstFree
    <3> QED
      BY ONLY <1>2, <3>3
  <2>2. {j \in P : Alternatives(f, i, j)} = {x}
    BY <2>1
  <2> QED
    BY <2>2, FS_Singleton
<1>4. ASSUME NEW i \in DOMAIN f
      PROVE  Ledger!Cardinality({j \in P : IF i <= j THEN Ledger!SameGroup(f, i, j)
                                            ELSE Ledger!SameGroup(f, j, i)}) = 1
  <2>1. {j \in P : IF i <= j THEN Ledger!SameGroup(f, i, j) ELSE Ledger!SameGroup(f, j, i)}
          = {j \in P : Alternatives(f, i, j)}
    BY SameGroups DEF Alternatives
  <2> QED
    BY <1>3, <2>1, SameCardinality
<1>5. /\ P \in SUBSET DOMAIN f
      /\ \A i \in DOMAIN f :
           Ledger!Cardinality({j \in P : IF i <= j THEN Ledger!SameGroup(f, i, j)
                                          ELSE Ledger!SameGroup(f, j, i)}) = 1
  BY <1>2, <1>4
<1> QED
  BY ONLY <1>1, <1>2, <1>5 DEF Ledger!Selections

-----------------------------------------------------------------------------
(* Without faults the accounts are kept for good once they were opened.    *)
Opened == clears = 0 \/ Accounting

LEMMA OpenedKept ==
  ASSUME TypeOK, ConnectionInv, PipeInv, RpcIdle, Opened, MaxDrops = 0, MaxErrors = 0,
         MaxInvalidations = 0, MaxRestarts = 0, [Next]_vars
  PROVE  Opened'
<1>1. ~Restart /\ ~OnDisconnect
  BY DEF Restart, OnDisconnect, TypeOK, ConnTypeOK
<1>2. CASE clears = 0
  <2>1. CASE InvFinished
    BY <1>2, <2>1 DEF InvFinished, InvReply, Loop, Opened, Accounting
  <2> QED
    BY <1>1, <1>2, <2>1, ClearsStep DEF Opened
<1>3. CASE Accounting
  <2>1. ASSUME UNCHANGED <<clears, inited, proc>> PROVE Opened'
    BY <1>3, <2>1 DEF Opened, Accounting
  <2>2. ASSUME NEW s \in Sessions, SessionThread(s) \/ RpcPut(s) PROVE Opened'
    <3>1. UNCHANGED <<clears, inited, proc>>
      BY <2>2, SessionEffect DEF connVars, seqVars, faultVars
    <3> QED
      BY <2>1, <3>1
  <2>3. ~Invalidate
    BY RpcStaysIdle
  <2>4. ~InvOnError /\ ~InvGotKeys /\ ~InvCleaning /\ ~InvFinished
    BY <1>3, InvReplyUninited DEF Accounting, InvOnError, InvGotKeys, InvCleaning, InvFinished
  <2>5. ASSUME NEW i \in OpIds PROVE ~OpErrored(i)
    <3>1. SUFFICES ASSUME OpErrored(i) PROVE FALSE
      OBVIOUS
    <3>2. OpLast(i) /\ OpFailed(i) /\ InFlight(i)
      BY <3>1 DEF OpErrored, OpLast, InFlight
    <3> QED
      BY <1>3, <3>2, OpLastStaged DEF PipeInv
  <2>6. CASE Client
    <3>1. UNCHANGED <<clears, inited, proc>>
      BY <2>4, <2>5, <2>6 DEF Client, RedisThread, ProcessRequestEvent, HandleRead, HandleLastRead,
         LastAwaited, ConnectionInv, ProcessOperationsQueue, OnReconnect, OnConnect, OpMultiAnswered,
         OpQueued, OpSucceeded,
         seqVars, faultVars
    <3> QED
      BY <2>1, <3>1
  <2>7. CASE Redis_ \/ Fault \/ ThreadResumed \/ UNCHANGED vars
    <3>1. UNCHANGED <<clears, inited, proc>>
      BY <1>1, <2>7 DEF Redis_, ServerStep, Fault, ServerFault, ConnectFailed, ThreadResumed, SetBusy,
         vars, connVars, seqVars, faultVars
    <3> QED
      BY <2>1, <3>1
  <2> QED
    BY <1>1, <2>2, <2>3, <2>6, <2>7 DEF Next
<1> QED
  BY <1>2, <1>3 DEF Opened

(* The account the mapping computes is what the sessions hold.             *)
Holding == [k \in Keys |-> [s \in Sessions |-> Held(s, k)]]

Accounted == Opened /\ EarlyInv /\ Conservation

LEMMA AccountIs == Accounted => Account = Holding
<1> SUFFICES ASSUME Accounted, NEW k \in Keys, NEW s \in Sessions
             PROVE  (IF clears = 0 THEN 0
                     ELSE field[k][s] + Unexecuted("get", s, k) - Unexecuted("put", s, k)) = Held(s, k)
  BY DEF Account, Holding
<1>1. CASE clears = 0
  BY <1>1 DEF Accounted, EarlyInv, Held
<1>2. CASE clears # 0
  BY <1>2 DEF Accounted, Opened, Accounting, Conservation
<1> QED
  BY <1>1, <1>2

LEMMA AccountIsNext == Accounted' => Account' = Holding'
<1>1. (Accounted => Account = Holding)'
  BY AccountIs, PTL
<1> QED
  BY <1>1

(* Steps that do not change what a session holds.                          *)
LEMMA NothingMoves ==
  ASSUME Account = Holding, Account' = Holding', UNCHANGED <<spc, handlers, taken>>
  PROVE  UNCHANGED <<Account, Live>>
BY DEF Holding, Held, Live

(* A step of the thread of s leaves the other sessions alone.              *)
OfOne(s) ==
  \A t \in Sessions : t # s => /\ spc'[t] = spc[t] /\ handlers'[t] = handlers[t]
                               /\ taken'[t] = taken[t]

LEMMA OthersKeep ==
  ASSUME NEW s \in Sessions, OfOne(s)
  PROVE  \A t \in Sessions : t # s => Live'[t] = Live[t] /\ \A k \in Keys : Held(t, k)' = Held(t, k)
BY DEF OfOne, Live, Held

LEMMA LiveIs ==
  ASSUME NEW s \in Sessions, OfOne(s), NEW v, Live'[s] = v
  PROVE  Live' = [Live EXCEPT ![s] = v]
<1>1. \A t \in Sessions : Live'[t] = [Live EXCEPT ![s] = v][t]
  BY OthersKeep DEF Live
<1> QED
  BY <1>1 DEF Live

LEMMA HoldingIs ==
  ASSUME NEW s \in Sessions, OfOne(s), NEW h, \A k \in Keys : Held(s, k)' = h[k]
  PROVE  Holding' = [k \in Keys |-> [Holding[k] EXCEPT ![s] = h[k]]]
<1>1. ASSUME NEW k \in Keys PROVE Holding'[k] = [Holding[k] EXCEPT ![s] = h[k]]
  <2>1. \A t \in Sessions : Holding'[k][t] = [Holding[k] EXCEPT ![s] = h[k]][t]
    BY OthersKeep DEF Holding
  <2> QED
    BY <2>1 DEF Holding
<1> QED
  BY <1>1 DEF Holding

(* get() succeeds: the session books.                                      *)
LEMMA GrantBooks ==
  ASSUME TypeOK, ReleaseInv, NEW s \in Sessions, GetGranted(s), Account = Holding, Account' = Holding'
  PROVE  Ledger!Book(s)
<1>1. PICK P : P = FirstFree(Need[s].failover, over[s]) /\ P \in Ledger!Selections(s)
  BY TakesASelection DEF GetGranted
<1>2. /\ spc[s] = "check" /\ handlers[s] = "none" /\ UNCHANGED handlers
      /\ spc' = [spc EXCEPT ![s] = "emplace"] /\ taken' = [taken EXCEPT ![s] = P]
  BY <1>1 DEF GetGranted, Checked, ReleaseInv, Early
<1>3. OfOne(s) /\ spc'[s] = "emplace" /\ taken'[s] = P
  BY <1>2 DEF OfOne, TypeOK
<1>4. Live[s] = "new" /\ Live' = [Live EXCEPT ![s] = "holding"]
  <2>1. Live[s] = "new" /\ Live'[s] = "holding"
    BY <1>2, <1>3 DEF Live
  <2> QED
    BY <1>3, <2>1, LiveIs
<1> DEFINE h == [k \in Keys |-> Cardinality({i \in P : Need[s].key[i] = k})]
<1>5. \A k \in Keys : h[k] = Cardinality({i \in P : Need[s].key[i] = k}) /\ h[k] \in Nat
  <2>1. IsFiniteSet(P)
    <3>1. P \subseteq 1..Size(s) /\ Size(s) \in Nat
      BY <1>1, ControlAssumption DEF FirstFree, Size
    <3>2. IsFiniteSet(1..Size(s))
      BY <3>1, FS_Interval
    <3> QED
      BY <3>1, <3>2, FS_Subset
  <2>2. ASSUME NEW k \in Keys PROVE Cardinality({i \in P : Need[s].key[i] = k}) \in Nat
    <3>1. IsFiniteSet({i \in P : Need[s].key[i] = k})
      BY <2>1, FS_Subset
    <3> QED
      BY <3>1, FS_CardinalityType
  <2> QED
    BY <2>2
<1>6. \A k \in Keys : Held(s, k)' = h[k]
  BY <1>3, <1>5 DEF Held
<1>7. \A k \in Keys : Holding[k][s] = 0
  BY <1>2 DEF Holding, Held
<1> HIDE DEF h
<1>8. Holding' = [k \in Keys |-> [Holding[k] EXCEPT ![s] = h[k]]]
  BY <1>3, <1>6, HoldingIs
<1>9. ASSUME NEW k \in Keys
      PROVE  [Holding[k] EXCEPT ![s] = h[k]]
               = [Holding[k] EXCEPT ![s] = @ + Ledger!Cardinality({i \in P : Need[s].key[i] = k})]
  <2>1. h[k] = Holding[k][s] + Ledger!Cardinality({i \in P : Need[s].key[i] = k})
    BY <1>5, <1>7, SameCardinality
  <2> QED
    BY ONLY <2>1
<1>10. Account' = [k \in Keys |-> [Account[k] EXCEPT ![s] =
                     @ + Ledger!Cardinality({i \in P : Need[s].key[i] = k})]]
  BY ONLY <1>8, <1>9, Account = Holding, Account' = Holding'
<1> QED
  BY ONLY <1>1, <1>4, <1>10 DEF Ledger!Book

(* put() of a valid handler, by the session or by the RPC: it cancels.     *)
LEMMA PutCancels ==
  ASSUME TypeOK, ReleaseInv, NEW s \in Sessions, PutHandler(s), spc[s] = "hold" \/ handlers[s] # "none",
         spc' = [spc EXCEPT ![s] = "done"] \/ UNCHANGED spc,
         Account = Holding, Account' = Holding'
  PROVE  Ledger!Cancel(s) \/ UNCHANGED <<Account, Live>>
<1>1. ~Early(s)
  BY DEF ReleaseInv, Early
<1>2. handlers' = [handlers EXCEPT ![s] = "none"] /\ UNCHANGED taken
  BY DEF PutHandler
<1>3. OfOne(s) /\ handlers'[s] = "none" /\ spc'[s] \notin {"idle", "check", "emplace"}
  BY <1>1, <1>2 DEF OfOne, TypeOK, Early
<1>4. Live' = [Live EXCEPT ![s] = "closed"]
  <2>1. Live'[s] = "closed"
    BY <1>3 DEF Live
  <2> QED
    BY <1>3, <2>1, LiveIs
<1> DEFINE h == [k \in Keys |-> 0]
<1>5. Account' = [k \in Keys |-> [Account[k] EXCEPT ![s] = 0]]
  <2>1. \A k \in Keys : Held(s, k)' = h[k] /\ h[k] = 0
    BY <1>3 DEF Held
  <2> HIDE DEF h
  <2>2. Holding' = [k \in Keys |-> [Holding[k] EXCEPT ![s] = h[k]]]
    BY <1>3, <2>1, HoldingIs
  <2> QED
    BY <2>1, <2>2
<1>6. CASE handlers[s] = "valid"
  <2>1. Live[s] = "holding"
    BY <1>1, <1>6 DEF Live, Early
  <2> QED
    BY ONLY <1>4, <1>5, <2>1 DEF Ledger!Cancel
<1>7. CASE handlers[s] # "valid"
  <2>1. Live[s] = "closed"
    BY <1>1, <1>7 DEF Live, Early
  <2>2. Live' = Live
    BY <1>4, <2>1 DEF Live
  <2>3. \A k \in Keys : Holding[k][s] = 0
    BY <1>1, <1>7 DEF Holding, Held, Early
  <2>4. \A k \in Keys : [Holding[k] EXCEPT ![s] = 0] = Holding[k]
    BY <2>3 DEF Holding
  <2>5. Account' = Account
    BY <1>5, <2>4 DEF Holding
  <2> QED
    BY <2>2, <2>5
<1> QED
  BY <1>6, <1>7

(* get() is refused, or let through without resources.                     *)
LEMMA RefusalDeclines ==
  ASSUME TypeOK, ReleaseInv, NEW s \in Sessions, NEW v \in {"check", "hold", "refused"},
         spc[s] \in {"idle", "check"}, spc' = [spc EXCEPT ![s] = v],
         UNCHANGED <<handlers, taken>>, Account = Holding, Account' = Holding'
  PROVE  Ledger!Decline(s) \/ UNCHANGED <<Account, Live>>
<1>1. handlers[s] = "none"
  BY DEF ReleaseInv, Early
<1>2. OfOne(s) /\ spc'[s] = v
  BY DEF OfOne, TypeOK
<1>3. \A t \in Sessions, k \in Keys : Held(t, k)' = Held(t, k)
  BY <1>1, <1>2, OthersKeep DEF Held
<1>4. Account' = Account
  BY <1>3 DEF Holding
<1>5. Live[s] = "new"
  BY DEF Live
<1>6. CASE v = "check"
  <2>1. Live'[s] = Live[s]
    BY <1>2, <1>6 DEF Live
  <2>2. Live' = Live
    BY <1>2, <2>1, OthersKeep DEF Live
  <2> QED
    BY <1>4, <2>2
<1>7. CASE v # "check"
  <2>1. Live'[s] = "closed"
    BY <1>1, <1>2, <1>7 DEF Live
  <2>2. Live' = [Live EXCEPT ![s] = "closed"]
    BY <1>2, <2>1, LiveIs
  <2> QED
    BY ONLY <1>4, <1>5, <2>2 DEF Ledger!Decline
<1> QED
  BY <1>6, <1>7

(* The handler enters the table: no account moves.                         *)
LEMMA EmplaceStutters ==
  ASSUME TypeOK, NEW s \in Sessions, GetEmplace(s), Account = Holding, Account' = Holding'
  PROVE  UNCHANGED <<Account, Live>>
<1>1. /\ spc[s] = "emplace" /\ UNCHANGED taken
      /\ spc' = [spc EXCEPT ![s] = "hold"] /\ handlers' = [handlers EXCEPT ![s] = "valid"]
  BY DEF GetEmplace
<1>2. OfOne(s) /\ spc'[s] = "hold" /\ handlers'[s] = "valid" /\ taken'[s] = taken[s]
  BY <1>1 DEF OfOne, TypeOK
<1>3. Live[s] = "holding" /\ Live'[s] = "holding" /\ \A k \in Keys : Held(s, k)' = Held(s, k)
  BY <1>1, <1>2 DEF Live, Held
<1>4. Live' = Live
  BY <1>2, <1>3, OthersKeep DEF Live
<1>5. \A t \in Sessions, k \in Keys : Held(t, k)' = Held(t, k)
  BY <1>2, <1>3, OthersKeep
<1>6. Account' = Account
  BY <1>5 DEF Holding
<1> QED
  BY <1>4, <1>6

(* Every step is a step of the ledger or moves no account.                 *)
LEMMA LedgerStep ==
  ASSUME TypeOK, ReleaseInv, RpcIdle, MaxInvalidations = 0, MaxRestarts = 0, [Next]_vars,
         Account = Holding, Account' = Holding'
  PROVE  Ledger!Next \/ UNCHANGED <<Account, Live>>
<1>1. ~Restart /\ ~Invalidate
  BY RpcStaysIdle DEF Restart, TypeOK
<1>2. ASSUME UNCHANGED <<spc, handlers, taken>> PROVE UNCHANGED <<Account, Live>>
  BY <1>2, NothingMoves
<1>3. CASE Client \/ Redis_ \/ Fault \/ ThreadResumed \/ UNCHANGED vars
  <2>1. UNCHANGED <<spc, handlers, taken>>
    BY <1>3 DEF Client, Redis_, Fault, ThreadResumed, vars, ctlVars, sessVars
  <2> QED
    BY <1>2, <2>1
<1>4. ASSUME NEW s \in Sessions, SessionThread(s) \/ RpcPut(s)
      PROVE  Ledger!Book(s) \/ Ledger!Cancel(s) \/ Ledger!Decline(s) \/ UNCHANGED <<Account, Live>>
  <2>1. CASE GetStart(s)
    <3>1. PICK v : v = IF Size(s) = 0 THEN "hold" ELSE IF container_ready THEN "check" ELSE OnError
      OBVIOUS
    <3>2. v \in {"check", "hold", "refused"}
      BY <3>1 DEF OnError
    <3>3. /\ spc[s] = "idle" /\ spc' = [spc EXCEPT ![s] = v] /\ UNCHANGED <<handlers, taken>>
      BY <2>1, <3>1 DEF GetStart
    <3> QED
      BY ONLY <3>2, <3>3, RefusalDeclines, TypeOK, ReleaseInv, s \in Sessions, Account = Holding,
         Account' = Holding'
  <2>2. CASE CheckValue(s)
    BY <1>2, <2>2 DEF CheckValue
  <2>3. CASE CheckFailed(s)
    <3>1. PICK v : v = OnError /\ v \in {"check", "hold", "refused"}
      BY DEF OnError
    <3>2. /\ spc[s] = "check" /\ spc' = [spc EXCEPT ![s] = v] /\ UNCHANGED <<handlers, taken>>
      BY <2>3, <3>1 DEF CheckFailed
    <3> QED
      BY ONLY <3>1, <3>2, RefusalDeclines, TypeOK, ReleaseInv, s \in Sessions, Account = Holding,
         Account' = Holding'
  <2>4. CASE GetBusy(s)
    <3>1. PICK v : v \in {"hold", "refused"} /\ spc' = [spc EXCEPT ![s] = v]
      <4>1. PICK k : spc' = [spc EXCEPT ![s] = IF OverloadAction[k] = "accept" THEN "hold" ELSE "refused"]
        BY <2>4 DEF GetBusy
      <4> QED
        BY <4>1
    <3>2. spc[s] = "check" /\ UNCHANGED <<handlers, taken>>
      BY <2>4 DEF GetBusy, Checked
    <3> QED
      BY ONLY <3>1, <3>2, RefusalDeclines, TypeOK, ReleaseInv, s \in Sessions, Account = Holding,
         Account' = Holding'
  <2>5. CASE GetGranted(s)
    BY <2>5, GrantBooks
  <2>6. CASE GetEmplace(s)
    BY <2>6, EmplaceStutters
  <2>7. CASE SessionPut(s)
    BY <2>7, PutCancels DEF SessionPut
  <2>8. CASE RpcPut(s)
    BY <2>8, PutCancels DEF RpcPut
  <2> QED
    BY <1>4, <2>1, <2>2, <2>3, <2>4, <2>5, <2>6, <2>7, <2>8 DEF SessionThread
<1>5. ASSUME NEW s \in Sessions, SessionThread(s) \/ RpcPut(s)
      PROVE  Ledger!Next \/ UNCHANGED <<Account, Live>>
  BY <1>4, <1>5 DEF Ledger!Next
<1> QED
  BY <1>1, <1>3, <1>5 DEF Next

(* ResourceControl implements the ledger: whatever the threads, the event  *)
(* queue, the postponed operations and the transactions do in between,     *)
(* every step books one resource of each failover group for one session,   *)
(* cancels a session's booking, turns a session away, or moves no account  *)
(* (ResourceControl::get, put; process_operations_list, OperationResources,*)
(* InvalidateResources at start).  For any number of sessions, resources   *)
(* and operations in flight, where nothing fails; a fault or an RPC that   *)
(* invalidates makes the program forget accounts on purpose.               *)
THEOREM LedgerImplemented ==
  ASSUME Preemption = FALSE, MaxDrops = 0, MaxErrors = 0, MaxInvalidations = 0, MaxRestarts = 0
  PROVE  Spec => ImplementsLedger
<1>1. Init => CoreInv /\ BookInv /\ Opened
  BY BooksStart DEF Init, ConnInit, Opened
<1>2. TypeOK /\ TypeOK' /\ CoreInv /\ [Next]_vars => CoreInv'
  BY CoreKept
<1>3. TypeOK /\ TypeOK' /\ CoreInv /\ CoreInv' /\ BookInv /\ [Next]_vars => BookInv'
  BY BooksKept
<1>4. TypeOK /\ CoreInv /\ BookInv /\ Opened /\ [Next]_vars => Opened'
  BY OpenedKept DEF CoreInv, BookInv
<1>5. Init => Ledger!Init
  <2> SUFFICES ASSUME Init PROVE Ledger!Init
    OBVIOUS
  <2>1. clears = 0 /\ spc = [s \in Sessions |-> "idle"]
    BY DEF Init, ConnInit, ControlInit
  <2>2. Account = [k \in Keys |-> [s \in Sessions |-> 0]]
    BY <2>1 DEF Account
  <2>3. Live = [s \in Sessions |-> "new"]
    BY <2>1 DEF Live
  <2> QED
    BY ONLY <2>2, <2>3 DEF Ledger!Init
<1>6. /\ TypeOK /\ CoreInv /\ BookInv /\ Opened /\ (BookInv /\ Opened)' /\ [Next]_vars
      => [Ledger!Next]_(Ledger!vars)
  <2> SUFFICES ASSUME TypeOK, CoreInv, BookInv, Opened, (BookInv /\ Opened)', [Next]_vars
               PROVE  [Ledger!Next]_(Ledger!vars)
    OBVIOUS
  <2>1. Accounted /\ Accounted'
    BY DEF Accounted, BookInv
  <2>2. Account = Holding /\ Account' = Holding'
    BY <2>1, AccountIs, AccountIsNext
  <2>3. Ledger!Next \/ UNCHANGED <<Account, Live>>
    BY <2>2, LedgerStep DEF CoreInv, BookInv
  <2> QED
    BY ONLY <2>3 DEF Ledger!vars
<1> QED
  BY <1>1, <1>2, <1>3, <1>4, <1>5, <1>6, TypeCorrect, PTL DEF Spec, ImplementsLedger, Ledger!Spec
=============================================================================
