--------------------------- MODULE Registrar_proof ---------------------------
(***************************************************************************)
(* Theorems about Registrar, for any number of accounts, contacts,         *)
(* messages, requests and lookups, any limit of bindings and any number of *)
(* lost connections and of scripts run by other nodes: the index lists     *)
(* every fresh binding, a request gets one final answer at most, and a     *)
(* lookup never returns a contact that was dead when the script ran.       *)
(***************************************************************************)
EXTENDS Registrar, SequenceTheorems, TLAPS

KeyType == [life : {None, "fresh", "ending"}, node : {"self", "other"}]

(* The index and the contact keys; members of the sets are not typed.      *)
RedisType == /\ set = [i \in Ids |-> set[i]]
             /\ key \in [Keys -> KeyType]

(* The inductive invariant of the index.                                   *)
ListedInv == RedisType /\ FreshIsListed

-----------------------------------------------------------------------------
(* What is on its way belongs to somebody, once.                           *)

IsSeq(q) == q \in Seq(Range(q))

Froms(q) == {q[i].from : i \in DOMAIN q}

Once(q) == /\ IsSeq(q)
           /\ \A i, j \in DOMAIN q : q[i].from = q[j].from => i = j

(* A request or a lookup has one command, one reply or one event under     *)
(* way at most.                                                            *)
OneTicket ==
  /\ Once(pipe) /\ Once(back) /\ Once(inbox)
  /\ Froms(pipe) \cap Froms(back) = {}
  /\ Froms(pipe) \cap Froms(inbox) = {}
  /\ Froms(back) \cap Froms(inbox) = {}
  /\ Froms(pipe) \cup Froms(back) \cup Froms(inbox) \subseteq Requests \cup Lookups \cup {"script"}

(* The scripts were sent before everything else.                           *)
ScriptFirst ==
  /\ conn \in {"up", "down"}
  /\ conn = "down" => pipe = <<>> /\ back = <<>>
  /\ \A i \in DOMAIN pipe : pipe[i].from = "script" => i = 1 /\ back = <<>>
  /\ \A i \in DOMAIN back : back[i].from = "script" => i = 1
  /\ "script" \notin Froms(inbox)

UnderWay == Froms(pipe) \cup Froms(back) \cup Froms(inbox)

NoFinal(q) == \A i \in DOMAIN q : ~Final(q[i])

OneFinal(q) == \A i, j \in DOMAIN q : Final(q[i]) /\ Final(q[j]) => i = j

(* A request under way was received and has no final answer.               *)
UnansweredIsSeen ==
  /\ answers = [r \in Requests |-> answers[r]]
  /\ budget = [fault |-> budget.fault, other |-> budget.other,
               ping |-> budget.ping, seen |-> budget.seen]
  /\ \A r \in Requests :
       /\ IsSeq(answers[r]) /\ OneFinal(answers[r])
       /\ r \in UnderWay => r \in budget.seen /\ NoFinal(answers[r])
       /\ r \notin budget.seen => answers[r] = <<>>

(* A lookup under way waits.                                               *)
WaitingLookups ==
  /\ calls = [l \in Lookups |-> calls[l]]
  /\ \A l \in Lookups :
       /\ calls[l] = [kind |-> calls[l].kind, st |-> calls[l].st,
                      got |-> calls[l].got, dead |-> calls[l].dead]
       /\ l \in UnderWay => calls[l].st # "idle"

(* The inductive invariant of the answers.                                 *)
TicketInv == OneTicket /\ ScriptFirst /\ UnansweredIsSeen /\ WaitingLookups

(* A reply to a lookup names no contact that was dead.                     *)
SoundReplies(q) ==
  \A i \in DOMAIN q : q[i].from \in Lookups /\ q[i].res # "failed" =>
    Parsed(q[i].data.of) \cap q[i].data.dead = {}

LookupsAsk ==
  \A i \in DOMAIN pipe : pipe[i].from \in Lookups =>
    pipe[i].cmd.op \in {"aor_lookup", "rpc_aor_lookup"}

(* The inductive invariant of the lookups.                                 *)
AliveInv ==
  /\ LookupsAsk /\ SoundReplies(back) /\ SoundReplies(inbox)
  /\ \A l \in Lookups : calls[l].st = "idle" \/ calls[l].kind # "leg" => calls[l].dead = {}
  /\ ResolvedWasAlive

-----------------------------------------------------------------------------
(* The scripts, given the index and the keys they find.                    *)

Lists(s, ks) == \A k \in Keys : ks[k].life = "fresh" => k[2] \in s[k[1]]

Typed(s, ks) == s = [i \in Ids |-> s[i]] /\ ks \in [Keys -> KeyType]

LEMMA KeysAre ==
  /\ \A k \in Keys : k = <<k[1], k[2]>> /\ k[1] \in Ids /\ k[2] \in Contacts
  /\ Dead \in KeyType /\ Dead.life # "fresh"
BY DEF Keys, Dead, KeyType, None

(* get_bindings takes only members out that have no fresh key.             *)
LEMMA WithBindingsLists ==
  ASSUME NEW s, NEW ks, NEW id, Typed(s, ks), Lists(s, ks)
  PROVE  LET r == WithBindings(s, ks, id) IN Typed(r.set, r.key) /\ Lists(r.set, r.key)
<1> DEFINE b == GetBindings(s, ks, id)
           t == [s EXCEPT ![id] = b]
<1>1. WithBindings(s, ks, id).set = t /\ WithBindings(s, ks, id).key = ks
  BY DEF WithBindings, Ran
<1>2. t = [i \in Ids |-> t[i]]
  BY DEF Typed
<1>3. ASSUME NEW k \in Keys, ks[k].life = "fresh" PROVE k[2] \in t[k[1]]
  <2>1. k = <<k[1], k[2]>> /\ k[1] \in Ids /\ k[2] \in s[k[1]]
    BY <1>3, KeysAre DEF Lists
  <2>2. CASE k[1] = id
    <3>1. k[2] \in b
      BY <1>3, <2>1, <2>2 DEF GetBindings
    <3>2. t[k[1]] = b
      BY <2>1, <2>2 DEF Typed
    <3> QED
      BY <3>1, <3>2
  <2>3. CASE k[1] # id
    BY <2>1, <2>3 DEF Typed
  <2> QED
    BY <2>2, <2>3
<1> HIDE DEF t
<1> QED
  BY <1>1, <1>2, <1>3 DEF Typed, Lists

LEMMA DeletedType ==
  ASSUME NEW ks \in [Keys -> KeyType], NEW K
  PROVE  /\ Deleted(ks, K) \in [Keys -> KeyType]
         /\ \A k \in Keys : Deleted(ks, K)[k].life = "fresh" => ks[k].life = "fresh" /\ k \notin K
BY KeysAre DEF Deleted

LEMMA BindLists ==
  ASSUME ListedInv, NEW id, NEW c, NEW expires, NEW node \in {"self", "other"}
  PROVE  LET r == Bind(id, c, expires, node) IN Typed(r.set, r.key) /\ Lists(r.set, r.key)
<1> DEFINE cleaned == [set EXCEPT ![id] = {d \in @ : Alive(<<id, d>>)}]
           value   == IF expires > 0 THEN [life |-> "fresh", node |-> node] ELSE Dead
           written == [key EXCEPT ![<<id, c>>] = value]
           added   == [cleaned EXCEPT ![id] = @ \cup {c}]
<1>1. value \in KeyType
  BY KeysAre DEF KeyType
<1>2. Typed(set, key) /\ Lists(set, key)
  BY DEF ListedInv, RedisType, FreshIsListed, Fresh, Typed, Lists
<1>3. Typed(cleaned, key) /\ Lists(cleaned, key)
  <2>1. cleaned = [i \in Ids |-> cleaned[i]]
    BY <1>2 DEF Typed
  <2>2. ASSUME NEW k \in Keys, key[k].life = "fresh" PROVE k[2] \in cleaned[k[1]]
    <3>1. k = <<k[1], k[2]>> /\ k[1] \in Ids /\ k[2] \in set[k[1]] /\ Alive(k)
      BY <1>2, <2>2, KeysAre DEF Lists, Alive, None
    <3>2. CASE k[1] = id
      BY <1>2, <3>1, <3>2 DEF Typed
    <3>3. CASE k[1] # id
      BY <1>2, <3>1, <3>3 DEF Typed
    <3> QED
      BY <3>2, <3>3
  <2> HIDE DEF cleaned
  <2> QED
    BY <1>2, <2>1, <2>2 DEF Typed, Lists
<1>4. Typed(added, written) /\ Lists(added, written)
  <2> HIDE DEF cleaned, value
  <2>1. added = [i \in Ids |-> added[i]] /\ written \in [Keys -> KeyType]
    BY <1>1, <1>3 DEF Typed
  <2>2. ASSUME NEW k \in Keys, written[k].life = "fresh" PROVE k[2] \in added[k[1]]
    <3>1. k = <<k[1], k[2]>> /\ k[1] \in Ids
      BY KeysAre
    <3>2. CASE k = <<id, c>>
      BY <1>3, <3>1, <3>2 DEF Typed
    <3>3. CASE k # <<id, c>>
      <4>1. k[2] \in cleaned[k[1]]
        BY <1>3, <2>2, <3>3 DEF Typed, Lists
      <4> QED
        BY <1>3, <3>1, <4>1 DEF Typed
    <3> QED
      BY <3>2, <3>3
  <2> HIDE DEF added, written
  <2> QED
    BY <2>1, <2>2 DEF Typed, Lists
<1>5. CASE Full(cleaned, id)
  BY <1>3, <1>5 DEF Bind, Ran
<1>6. CASE ~Full(cleaned, id)
  <2>1. Bind(id, c, expires, node) = WithBindings(added, written, id)
    BY <1>6 DEF Bind
  <2> HIDE DEF added, written
  <2> QED
    BY <1>4, <2>1, WithBindingsLists
<1> QED
  BY <1>5, <1>6

LEMMA RegisterScriptLists ==
  ASSUME ListedInv, NEW id, NEW cmd, NEW node \in {"self", "other"}
  PROVE  LET r == RegisterScript(id, cmd, node) IN Typed(r.set, r.key) /\ Lists(r.set, r.key)
<1>1. Typed(set, key) /\ Lists(set, key)
  BY DEF ListedInv, RedisType, FreshIsListed, Fresh, Typed, Lists
<1>2. LET r == WithBindings(set, key, id) IN Typed(r.set, r.key) /\ Lists(r.set, r.key)
  BY <1>1, WithBindingsLists
<1>3. LET r == UnbindAll(id) IN Typed(r.set, r.key) /\ Lists(r.set, r.key)
  <2> DEFINE K == {<<id, c>> : c \in set[id]}
             t == [set EXCEPT ![id] = {}]
             d == Deleted(key, K)
  <2>1. UnbindAll(id).set = t /\ UnbindAll(id).key = d
    BY DEF UnbindAll, Ran
  <2>2. t = [i \in Ids |-> t[i]] /\ d \in [Keys -> KeyType]
    BY <1>1, DeletedType DEF Typed
  <2>3. ASSUME NEW k \in Keys, d[k].life = "fresh" PROVE k[2] \in t[k[1]]
    <3>1. key[k].life = "fresh" /\ k \notin K
      <4> HIDE DEF K
      <4> QED
        BY <1>1, <2>3, DeletedType DEF Typed
    <3>2. k = <<k[1], k[2]>> /\ k[1] \in Ids /\ k[2] \in set[k[1]]
      BY <1>1, <3>1, KeysAre DEF Lists
    <3>3. k[1] # id
      BY <3>1, <3>2
    <3> QED
      BY <1>1, <3>2, <3>3 DEF Typed
  <2> HIDE DEF t, d
  <2> QED
    BY <2>1, <2>2, <2>3 DEF Typed, Lists
<1>4. ASSUME NEW c
      PROVE  LET r == Unbind(id, c) IN Typed(r.set, r.key) /\ Lists(r.set, r.key)
  <2> DEFINE K == {<<id, c>>}
             t == [set EXCEPT ![id] = @ \ {c}]
             d == Deleted(key, K)
  <2>1. Unbind(id, c) = WithBindings(t, d, id)
    BY DEF Unbind
  <2>2. t = [i \in Ids |-> t[i]] /\ d \in [Keys -> KeyType]
    BY <1>1, DeletedType DEF Typed
  <2>3. ASSUME NEW k \in Keys, d[k].life = "fresh" PROVE k[2] \in t[k[1]]
    <3>1. key[k].life = "fresh" /\ k \notin K
      <4> HIDE DEF K
      <4> QED
        BY <1>1, <2>3, DeletedType DEF Typed
    <3>2. k = <<k[1], k[2]>> /\ k[1] \in Ids /\ k[2] \in set[k[1]]
      BY <1>1, <3>1, KeysAre DEF Lists
    <3>3. k[1] # id \/ k[2] # c
      BY <3>1, <3>2
    <3> QED
      BY <1>1, <3>2, <3>3 DEF Typed
  <2>4. Typed(t, d) /\ Lists(t, d)
    <3> HIDE DEF t, d
    <3> QED
      BY <2>2, <2>3 DEF Typed, Lists
  <2> HIDE DEF t, d
  <2> QED
    BY <2>1, <2>4, WithBindingsLists
<1>5. LET r == Bind(id, cmd.contact, cmd.expires, node) IN Typed(r.set, r.key) /\ Lists(r.set, r.key)
  BY BindLists
<1> QED
  BY <1>2, <1>3, <1>4, <1>5 DEF RegisterScript

(* A binding that has time left is in the index of its account: register.  *)
(* lua keeps the set and the contact keys together whatever other nodes    *)
(* and expiry do in between.                                               *)
THEOREM BindingsAreListed == Spec => []FreshIsListed
<1>1. Init => ListedInv
  <2> SUFFICES ASSUME Init PROVE ListedInv
    OBVIOUS
  <2>1. \A k \in Keys : ~Fresh(k)
    BY KeysAre DEF Init, Fresh
  <2>2. RedisType
    BY KeysAre DEF Init, RedisType
  <2> QED
    BY <2>1, <2>2 DEF ListedInv, FreshIsListed
<1>2. ListedInv /\ [Next]_vars => ListedInv'
  <2> SUFFICES ASSUME ListedInv, [Next]_vars PROVE ListedInv'
    OBVIOUS
  <2>0. ASSUME Typed(set', key'), Lists(set', key') PROVE ListedInv'
    BY <2>0 DEF Typed, Lists, ListedInv, RedisType, FreshIsListed, Fresh
  <2>1. ASSUME NEW k \in Keys, Age(k) PROVE ListedInv'
    <3>1. key' \in [Keys -> KeyType]
      BY <2>1, KeysAre DEF Age, ListedInv, RedisType, KeyType
    <3>2. \A j \in Keys : key'[j].life = "fresh" => key[j].life = "fresh"
      BY <2>1, KeysAre DEF Age, ListedInv, RedisType, KeyType
    <3> QED
      BY <2>1, <3>1, <3>2 DEF Age, ListedInv, RedisType, FreshIsListed, Fresh
  <2>2. ASSUME NEW id \in Ids, NEW m \in Messages, OtherNode(id, m) PROVE ListedInv'
    <3>1. PICK r : r = RegisterScript(id, ProcessAuthorizedRegister(m), "other")
      OBVIOUS
    <3>2. set' = r.set /\ key' = r.key
      BY <2>2, <3>1 DEF OtherNode
    <3>3. Typed(r.set, r.key) /\ Lists(r.set, r.key)
      BY <3>1, RegisterScriptLists
    <3> QED
      BY <2>0, <3>2, <3>3
  <2>3. ASSUME Execute PROVE ListedInv'
    <3>1. CASE UNCHANGED redisVars
      BY <3>1 DEF redisVars, ListedInv, RedisType, FreshIsListed, Fresh
    <3>2. CASE ~UNCHANGED redisVars
      <4>1. PICK r : /\ r = RegisterScript(pipe[1].cmd.id, pipe[1].cmd.what, "self")
                     /\ set' = r.set /\ key' = r.key
        BY <2>3, <3>2 DEF Execute
      <4>2. Typed(r.set, r.key) /\ Lists(r.set, r.key)
        BY <4>1, RegisterScriptLists
      <4> QED
        BY <2>0, <4>1, <4>2
    <3> QED
      BY <3>1, <3>2
  <2>4. ASSUME UNCHANGED redisVars PROVE ListedInv'
    BY <2>4 DEF redisVars, ListedInv, RedisType, FreshIsListed, Fresh
  <2>5. \/ \E k \in Keys : Age(k)
        \/ \E i \in Ids, m \in Messages : OtherNode(i, m)
        \/ Execute \/ UNCHANGED redisVars
    BY DEF Next, vars, OnConnect, OnDisconnect, ReadReply, Receive, ProcessReply, Resolve,
           SubConnect, ProcessLoadedContacts, Subscribed, ProcessExpiredKey, SubDisconnect,
           OnKeepaliveTimer, SendRequest, EmplaceDlg, OnSipReply
  <2> QED
    BY <2>1, <2>2, <2>3, <2>4, <2>5
<1> QED
  BY <1>1, <1>2, PTL DEF Spec, ListedInv

-----------------------------------------------------------------------------
(* Sequences of which only the senders matter.                             *)

LEMMA FunSeq ==
  ASSUME NEW n \in Nat, NEW f, f = [i \in 1..n |-> f[i]]
  PROVE  IsSeq(f) /\ Len(f) = n /\ DOMAIN f = 1..n
<1>1. DOMAIN f = 1..n
  BY Zenon
<1>2. f \in [1..n -> Range(f)]
  BY <1>1 DEF Range
<1>3. f \in Seq(Range(f))
  BY <1>2, SeqDef
<1> QED
  BY <1>1, <1>3, LenProperties DEF IsSeq

LEMMA SeqDomain ==
  ASSUME NEW q, IsSeq(q)
  PROVE  /\ Len(q) \in Nat /\ DOMAIN q = 1..Len(q)
         /\ q # << >> => 1 \in DOMAIN q
         /\ q = [i \in 1..Len(q) |-> q[i]]
BY LenProperties, EmptySeq DEF IsSeq

LEMMA NoneIsSeq == IsSeq(<< >>) /\ DOMAIN << >> = {} /\ Once(<< >>) /\ Froms(<< >>) = {}
<1>1. << >> \in Seq({}) /\ DOMAIN << >> = {}
  BY EmptySeq
<1>2. IsSeq(<< >>)
  BY <1>1, SeqOfRange DEF IsSeq
<1> QED
  BY <1>1, <1>2 DEF Once, Froms

LEMMA AppendSeq ==
  ASSUME NEW q, IsSeq(q), NEW x
  PROVE  LET a == Append(q, x)
         IN  /\ IsSeq(a) /\ DOMAIN a = 1..(Len(q) + 1)
             /\ \A i \in DOMAIN q : a[i] = q[i]
             /\ a[Len(q) + 1] = x
<1> DEFINE S == Range(q) \cup {x}
<1>1. q \in Seq(S) /\ x \in S
  BY SeqMonotonic DEF IsSeq
<1> HIDE DEF S
<1>2. /\ Append(q, x) \in Seq(S) /\ Len(Append(q, x)) = Len(q) + 1
      /\ \A i \in 1..Len(q) : Append(q, x)[i] = q[i]
      /\ Append(q, x)[Len(q) + 1] = x
  BY <1>1, AppendProperties
<1>3. IsSeq(Append(q, x))
  BY <1>2, SeqOfRange DEF IsSeq
<1> QED
  BY <1>2, <1>3, SeqDomain

LEMMA TailSeq ==
  ASSUME NEW q, IsSeq(q), q # << >>
  PROVE  LET t == Tail(q)
         IN  /\ IsSeq(t) /\ DOMAIN t = 1..(Len(q) - 1) /\ Head(q) = q[1]
             /\ \A i \in DOMAIN t : i + 1 \in DOMAIN q /\ t[i] = q[i + 1]
<1>1. q \in Seq(Range(q)) /\ Len(q) \in Nat /\ DOMAIN q = 1..Len(q)
  BY SeqDomain DEF IsSeq
<1>2. /\ Tail(q) \in Seq(Range(q)) /\ Len(Tail(q)) = Len(q) - 1
      /\ \A i \in 1..Len(Tail(q)) : Tail(q)[i] = q[i + 1]
  BY <1>1, HeadTailProperties
<1>3. IsSeq(Tail(q))
  BY <1>2, SeqOfRange DEF IsSeq
<1>4. Head(q) = q[1]
  BY <1>1
<1>5. DOMAIN Tail(q) = 1..Len(Tail(q))
  BY <1>3, SeqDomain
<1>6. \A i \in 1..(Len(q) - 1) : i + 1 \in 1..Len(q)
  BY <1>1
<1> QED
  BY <1>1, <1>2, <1>3, <1>4, <1>5, <1>6

LEMMA ConcatSeq ==
  ASSUME NEW p, NEW q, IsSeq(p), IsSeq(q)
  PROVE  LET a == p \o q
         IN  /\ IsSeq(a) /\ DOMAIN a = 1..(Len(p) + Len(q))
             /\ \A i \in DOMAIN p : i \in DOMAIN a /\ a[i] = p[i]
             /\ \A i \in DOMAIN q : Len(p) + i \in DOMAIN a /\ a[Len(p) + i] = q[i]
             /\ \A i \in DOMAIN a : i \in DOMAIN p \/ (i - Len(p) \in DOMAIN q /\ a[i] = q[i - Len(p)])
<1> DEFINE S == Range(p) \cup Range(q)
<1>1. p \in Seq(S) /\ q \in Seq(S)
  BY SeqMonotonic DEF IsSeq
<1>2. /\ Len(p) \in Nat /\ DOMAIN p = 1..Len(p)
      /\ Len(q) \in Nat /\ DOMAIN q = 1..Len(q)
  BY SeqDomain
<1> HIDE DEF S
<1>3. /\ p \o q \in Seq(S) /\ Len(p \o q) = Len(p) + Len(q)
      /\ \A i \in 1..(Len(p) + Len(q)) :
           (p \o q)[i] = IF i <= Len(p) THEN p[i] ELSE q[i - Len(p)]
  BY <1>1, ConcatProperties
<1>4. IsSeq(p \o q)
  BY <1>3, SeqOfRange DEF IsSeq
<1>5. DOMAIN (p \o q) = 1..(Len(p) + Len(q))
  BY <1>3, <1>4, SeqDomain
<1>6. \A i \in 1..Len(q) : /\ Len(p) + i \in 1..(Len(p) + Len(q))
                           /\ ~(Len(p) + i <= Len(p)) /\ (Len(p) + i) - Len(p) = i
  BY <1>2
<1>7. \A i \in 1..Len(p) : i \in 1..(Len(p) + Len(q)) /\ i <= Len(p)
  BY <1>2
<1>8. \A i \in 1..(Len(p) + Len(q)) :
        i \in 1..Len(p) \/ (~(i <= Len(p)) /\ i - Len(p) \in 1..Len(q))
  BY <1>2
<1> QED
  BY <1>2, <1>3, <1>4, <1>5, <1>6, <1>7, <1>8

(* What the erase of one element of a queue leaves.                        *)
LEMMA RemoveSeq ==
  ASSUME NEW q, IsSeq(q), NEW n \in DOMAIN q
  PROVE  LET a == SubSeq(q, 1, n - 1) \o SubSeq(q, n + 1, Len(q))
         IN  /\ IsSeq(a) /\ DOMAIN a = 1..(Len(q) - 1)
             /\ \A i \in DOMAIN a : IF i < n THEN i \in DOMAIN q /\ a[i] = q[i]
                                    ELSE i + 1 \in DOMAIN q /\ a[i] = q[i + 1]
<1> DEFINE S == Range(q)
<1>1. /\ q \in Seq(S) /\ Len(q) \in Nat /\ DOMAIN q = 1..Len(q)
      /\ n \in 1..Len(q) /\ \A i \in 1..Len(q) : q[i] \in S
  BY SeqDomain DEF IsSeq, Range
<1> HIDE DEF S
<1>2. PICK s : s = SubSeq(q, 1, n - 1)
  OBVIOUS
<1>3. PICK t : t = SubSeq(q, n + 1, Len(q))
  OBVIOUS
<1>4. /\ s \in Seq(S) /\ Len(s) = n - 1
      /\ \A i \in 1..(n - 1) : s[i] = q[i]
  BY <1>1, <1>2
<1>5. /\ t \in Seq(S) /\ Len(t) = Len(q) - n
      /\ \A i \in 1..(Len(q) - n) : t[i] = q[n + i]
  BY <1>1, <1>3
<1>6. /\ s \o t \in Seq(S) /\ Len(s \o t) = Len(s) + Len(t)
      /\ \A i \in 1..(Len(s) + Len(t)) :
           (s \o t)[i] = IF i <= Len(s) THEN s[i] ELSE t[i - Len(s)]
  BY <1>4, <1>5, ConcatProperties
<1>7. Len(s) + Len(t) = Len(q) - 1
  BY <1>1, <1>4, <1>5
<1>8. IsSeq(s \o t) /\ DOMAIN (s \o t) = 1..(Len(q) - 1)
  <2>1. IsSeq(s \o t)
    BY <1>6, SeqOfRange DEF IsSeq
  <2> QED
    BY <1>6, <1>7, <2>1, SeqDomain
<1>9. ASSUME NEW i \in 1..(Len(q) - 1)
      PROVE  IF i < n THEN i \in DOMAIN q /\ (s \o t)[i] = q[i]
             ELSE i + 1 \in DOMAIN q /\ (s \o t)[i] = q[i + 1]
  <2>1. CASE i < n
    <3>1. i <= Len(s) /\ i \in 1..(n - 1) /\ i \in 1..Len(q)
      BY <1>1, <1>4, <2>1
    <3> QED
      BY <1>1, <1>4, <1>6, <1>7, <2>1, <3>1
  <2>2. CASE ~(i < n)
    <3>1. /\ ~(i <= Len(s)) /\ i - Len(s) \in 1..(Len(q) - n)
          /\ n + (i - Len(s)) = i + 1 /\ i + 1 \in 1..Len(q)
      BY <1>1, <1>4, <2>2
    <3> QED
      BY <1>1, <1>5, <1>6, <1>7, <2>2, <3>1
  <2> QED
    BY <2>1, <2>2
<1> QED
  BY <1>2, <1>3, <1>8, <1>9

LEMMA OnceAppend ==
  ASSUME NEW q, Once(q), NEW x, x.from \notin Froms(q)
  PROVE  /\ Once(Append(q, x)) /\ Froms(Append(q, x)) = Froms(q) \cup {x.from}
         /\ \A i \in DOMAIN Append(q, x) :
              \/ i \in DOMAIN q /\ Append(q, x)[i] = q[i]
              \/ i = Len(q) + 1 /\ Append(q, x)[i] = x
<1>1. IsSeq(q) /\ Len(q) \in Nat /\ DOMAIN q = 1..Len(q)
  BY SeqDomain DEF Once
<1>2. PICK a : a = Append(q, x)
  OBVIOUS
<1>3. /\ IsSeq(a) /\ DOMAIN a = 1..(Len(q) + 1)
      /\ \A i \in DOMAIN q : a[i] = q[i]
      /\ a[Len(q) + 1] = x
  BY <1>1, <1>2, AppendSeq
<1>4. \A i \in DOMAIN a : i \in DOMAIN q \/ i = Len(q) + 1
  BY <1>1, <1>3
<1>5. DOMAIN q \subseteq DOMAIN a /\ Len(q) + 1 \in DOMAIN a
  BY <1>1, <1>3
<1>6. Froms(a) = Froms(q) \cup {x.from}
  BY <1>3, <1>4, <1>5 DEF Froms
<1>7. ASSUME NEW i \in DOMAIN a, NEW j \in DOMAIN a, a[i].from = a[j].from PROVE i = j
  <2>1. CASE i \in DOMAIN q /\ j \in DOMAIN q
    BY <1>3, <1>7, <2>1 DEF Once
  <2>2. CASE i \in DOMAIN q /\ j = Len(q) + 1
    BY <1>3, <1>7, <2>2 DEF Froms
  <2>3. CASE i = Len(q) + 1 /\ j \in DOMAIN q
    BY <1>3, <1>7, <2>3 DEF Froms
  <2> QED
    BY <1>4, <2>1, <2>2, <2>3
<1> QED
  BY <1>2, <1>3, <1>4, <1>6, <1>7 DEF Once

LEMMA OnceTail ==
  ASSUME NEW q, Once(q), q # << >>
  PROVE  /\ 1 \in DOMAIN q
         /\ Once(Tail(q)) /\ Froms(Tail(q)) = Froms(q) \ {q[1].from}
         /\ \A i \in DOMAIN Tail(q) : i \in Nat /\ i + 1 \in DOMAIN q /\ i + 1 # 1 /\ Tail(q)[i] = q[i + 1]
<1>1. IsSeq(q) /\ Len(q) \in Nat /\ DOMAIN q = 1..Len(q) /\ 1 \in DOMAIN q
  BY SeqDomain DEF Once
<1>2. PICK t : t = Tail(q)
  OBVIOUS
<1>3. /\ IsSeq(t) /\ DOMAIN t = 1..(Len(q) - 1)
      /\ \A i \in DOMAIN t : i + 1 \in DOMAIN q /\ t[i] = q[i + 1]
  BY <1>1, <1>2, TailSeq
<1>4. \A i \in DOMAIN t : i \in Nat /\ i + 1 # 1
  BY <1>1, <1>3
<1>5. \A i \in DOMAIN q : i # 1 => i - 1 \in DOMAIN t /\ (i - 1) + 1 = i
  BY <1>1, <1>3
<1>6. \A i, j \in DOMAIN t : i + 1 = j + 1 => i = j
  BY <1>1, <1>3
<1>7. Once(t)
  BY <1>3, <1>6 DEF Once
<1>8. \A i \in DOMAIN t : t[i].from # q[1].from
  BY <1>1, <1>3, <1>4 DEF Once
<1>9. Froms(t) \subseteq Froms(q) \ {q[1].from}
  BY <1>3, <1>8 DEF Froms
<1>10. Froms(q) \ {q[1].from} \subseteq Froms(t)
  BY <1>3, <1>5 DEF Froms
<1> QED
  BY <1>1, <1>2, <1>3, <1>4, <1>7, <1>9, <1>10

Without(q, n) == SubSeq(q, 1, n - 1) \o SubSeq(q, n + 1, Len(q))

LEMMA OnceRemove ==
  ASSUME NEW q, Once(q), NEW n \in DOMAIN q
  PROVE  /\ Once(Without(q, n)) /\ Froms(Without(q, n)) \subseteq Froms(q) \ {q[n].from}
         /\ \A i \in DOMAIN Without(q, n) : \E j \in DOMAIN q : Without(q, n)[i] = q[j]
<1>1. IsSeq(q) /\ Len(q) \in Nat /\ DOMAIN q = 1..Len(q)
  BY SeqDomain DEF Once
<1>2. PICK a : a = Without(q, n)
  OBVIOUS
<1>3. /\ IsSeq(a) /\ DOMAIN a = 1..(Len(q) - 1)
      /\ \A i \in DOMAIN a : IF i < n THEN i \in DOMAIN q /\ a[i] = q[i]
                             ELSE i + 1 \in DOMAIN q /\ a[i] = q[i + 1]
  BY <1>1, <1>2, RemoveSeq DEF Without
<1> DEFINE at(i) == IF i < n THEN i ELSE i + 1
<1>4. \A i \in DOMAIN a : at(i) \in DOMAIN q /\ at(i) # n /\ a[i] = q[at(i)]
  BY <1>1, <1>3
<1>5. \A i, j \in DOMAIN a : at(i) = at(j) => i = j
  BY <1>1, <1>3
<1> HIDE DEF at
<1>6. Once(a)
  BY <1>3, <1>4, <1>5 DEF Once
<1>7. \A i \in DOMAIN a : a[i].from # q[n].from
  BY <1>4 DEF Once
<1>8. Froms(a) \subseteq Froms(q) \ {q[n].from}
  BY <1>4, <1>7 DEF Froms
<1> QED
  BY <1>2, <1>4, <1>6, <1>8

-----------------------------------------------------------------------------
(* The queues.                                                             *)

(* The senders that a lost connection fails: everybody under way in the    *)
(* connection but the script, once.                                        *)
LEMMA WaitingOnce ==
  ASSUME OneTicket, ScriptFirst
  PROVE  LET f == [i \in DOMAIN Waiting |-> Event(Waiting[i], "failed", NoData)]
         IN  /\ Once(f)
             /\ Froms(f) \subseteq (Froms(pipe) \cup Froms(back)) \ {"script"}
             /\ \A i \in DOMAIN f : f[i].res = "failed"
<1>1. PICK b : b = [i \in DOMAIN back |-> back[i].from]
  OBVIOUS
<1>2. PICK p : p = [i \in DOMAIN pipe |-> pipe[i].from]
  OBVIOUS
<1>3. /\ Len(back) \in Nat /\ DOMAIN back = 1..Len(back)
      /\ Len(pipe) \in Nat /\ DOMAIN pipe = 1..Len(pipe)
  BY SeqDomain DEF OneTicket, Once
<1>4. IsSeq(b) /\ Len(b) = Len(back) /\ DOMAIN b = DOMAIN back
  BY <1>1, <1>3, FunSeq
<1>5. IsSeq(p) /\ Len(p) = Len(pipe) /\ DOMAIN p = DOMAIN pipe
  BY <1>2, <1>3, FunSeq
<1>6. PICK s : s = b \o p
  OBVIOUS
<1>7. /\ IsSeq(s) /\ DOMAIN s = 1..(Len(b) + Len(p))
      /\ \A i \in DOMAIN b : i \in DOMAIN s /\ s[i] = b[i]
      /\ \A i \in DOMAIN p : Len(b) + i \in DOMAIN s /\ s[Len(b) + i] = p[i]
      /\ \A i \in DOMAIN s : i \in DOMAIN b \/ (i - Len(b) \in DOMAIN p /\ s[i] = p[i - Len(b)])
  <2>1. IsSeq(b) /\ IsSeq(p)
    BY <1>4, <1>5
  <2> QED
    BY ONLY <1>6, <2>1, ConcatSeq
<1>8. \A i \in DOMAIN b : b[i] = back[i].from /\ b[i] \in Froms(back)
  BY <1>1, <1>4 DEF Froms
<1>9. \A i \in DOMAIN p : p[i] = pipe[i].from /\ p[i] \in Froms(pipe)
  BY <1>2, <1>5 DEF Froms
<1>10. \A i \in DOMAIN s : s[i] \in Froms(pipe) \cup Froms(back)
  BY <1>7, <1>8, <1>9
<1>11. ASSUME NEW i \in DOMAIN s, NEW j \in DOMAIN s, s[i] = s[j] PROVE i = j
  <2>0. /\ \A m, n \in DOMAIN b : b[m] = b[n] => m = n
        /\ \A m, n \in DOMAIN p : p[m] = p[n] => m = n
        /\ \A m \in DOMAIN b, n \in DOMAIN p : b[m] # p[n]
    BY <1>4, <1>5, <1>8, <1>9 DEF OneTicket, Once
  <2>1. CASE i \in DOMAIN b /\ j \in DOMAIN b
    BY <1>7, <1>11, <2>0, <2>1
  <2>2. CASE i \notin DOMAIN b /\ j \notin DOMAIN b
    <3>1. i - Len(b) = j - Len(b)
      BY <1>7, <1>11, <2>0, <2>2
    <3>2. i \in Int /\ j \in Int /\ Len(b) \in Int
      BY <1>3, <1>4, <1>5, <1>7
    <3> QED
      BY <3>1, <3>2
  <2>3. CASE (i \in DOMAIN b) # (j \in DOMAIN b)
    BY <1>7, <1>11, <2>0, <2>3
  <2> QED
    BY <2>1, <2>2, <2>3
<1>12. \A i \in DOMAIN s : s[i] = "script" => i = 1
  <2> SUFFICES ASSUME NEW i \in DOMAIN s, s[i] = "script" PROVE i = 1
    OBVIOUS
  <2>1. CASE i \in DOMAIN b
    BY <1>4, <1>7, <1>8, <2>1 DEF ScriptFirst
  <2>2. CASE i \notin DOMAIN b
    <3>1. i - Len(b) \in DOMAIN p /\ p[i - Len(b)] = "script"
      BY <1>7, <2>2
    <3>2. i - Len(b) = 1 /\ back = << >>
      BY <1>5, <1>9, <3>1 DEF ScriptFirst
    <3>3. Len(b) = 0
      BY <1>4, <3>2, EmptySeq
    <3> QED
      BY <1>3, <1>4, <1>5, <1>7, <3>2, <3>3
  <2> QED
    BY <2>1, <2>2
<1>13. PICK w : w = Waiting
  OBVIOUS
<1>14. /\ IsSeq(w)
       /\ \A i, j \in DOMAIN w : w[i] = w[j] => i = j
       /\ \A i \in DOMAIN w : w[i] \in (Froms(pipe) \cup Froms(back)) \ {"script"}
  <2>0. Waiting = IF s # << >> /\ Head(s) = "script" THEN Tail(s) ELSE s
    BY <1>1, <1>2, <1>6 DEF Waiting
  <2>1. CASE s # << >> /\ Head(s) = "script"
    <3>1. /\ IsSeq(w) /\ DOMAIN w = 1..(Len(s) - 1) /\ Len(s) \in Nat
          /\ \A i \in DOMAIN w : i + 1 \in DOMAIN s /\ w[i] = s[i + 1]
      BY <1>7, <1>13, <2>0, <2>1, TailSeq, SeqDomain
    <3>2. \A i, j \in DOMAIN w : i + 1 # 1 /\ (i + 1 = j + 1 => i = j)
      BY <3>1
    <3> QED
      BY <1>10, <1>11, <1>12, <3>1, <3>2
  <2>2. CASE ~(s # << >> /\ Head(s) = "script")
    <3>1. w = s
      BY <1>13, <2>0, <2>2
    <3>2. \A i \in DOMAIN s : s[i] # "script"
      <4> SUFFICES ASSUME NEW i \in DOMAIN s, s[i] = "script" PROVE FALSE
        OBVIOUS
      <4>1. i = 1
        BY <1>12
      <4>2. s # << >>
        BY NoneIsSeq
      <4>3. Head(s) = s[1]
        BY <1>7, <4>2, TailSeq
      <4> QED
        BY <2>2, <4>1, <4>2, <4>3
    <3> QED
      BY <1>7, <1>10, <1>11, <3>1, <3>2
  <2> QED
    BY <2>1, <2>2
<1>15. PICK f : f = [i \in DOMAIN w |-> Event(w[i], "failed", NoData)]
  OBVIOUS
<1>16. IsSeq(f) /\ DOMAIN f = DOMAIN w
  <2>1. Len(w) \in Nat /\ DOMAIN w = 1..Len(w)
    BY <1>14, SeqDomain
  <2> QED
    BY <1>15, <2>1, FunSeq
<1>17. \A i \in DOMAIN f : f[i].from = w[i] /\ f[i].res = "failed"
  BY <1>15 DEF Event
<1> QED
  BY <1>13, <1>14, <1>15, <1>16, <1>17 DEF Once, Froms

LEMMA OnceConcat ==
  ASSUME NEW p, NEW q, Once(p), Once(q), Froms(p) \cap Froms(q) = {}
  PROVE  /\ Once(p \o q) /\ Froms(p \o q) = Froms(p) \cup Froms(q)
         /\ \A i \in DOMAIN (p \o q) : \/ \E j \in DOMAIN p : (p \o q)[i] = p[j]
                                       \/ \E j \in DOMAIN q : (p \o q)[i] = q[j]
<1>1. PICK a : a = p \o q
  OBVIOUS
<1>2. /\ IsSeq(a) /\ DOMAIN a = 1..(Len(p) + Len(q))
      /\ \A i \in DOMAIN p : i \in DOMAIN a /\ a[i] = p[i]
      /\ \A i \in DOMAIN q : Len(p) + i \in DOMAIN a /\ a[Len(p) + i] = q[i]
      /\ \A i \in DOMAIN a : i \in DOMAIN p \/ (i - Len(p) \in DOMAIN q /\ a[i] = q[i - Len(p)])
  BY <1>1, ConcatSeq DEF Once
<1>3. Froms(a) = Froms(p) \cup Froms(q)
  <2>1. Froms(a) \subseteq Froms(p) \cup Froms(q)
    BY <1>2 DEF Froms
  <2>2. Froms(p) \cup Froms(q) \subseteq Froms(a)
    BY <1>2 DEF Froms
  <2> QED
    BY <2>1, <2>2
<1>4. ASSUME NEW i \in DOMAIN a, NEW j \in DOMAIN a, a[i].from = a[j].from PROVE i = j
  <2>0. \A m \in DOMAIN p, n \in DOMAIN q : p[m].from # q[n].from
    BY DEF Froms
  <2>1. CASE i \in DOMAIN p /\ j \in DOMAIN p
    BY <1>2, <1>4, <2>1 DEF Once
  <2>2. CASE i \notin DOMAIN p /\ j \notin DOMAIN p
    <3>1. i - Len(p) = j - Len(p)
      BY <1>2, <1>4, <2>2 DEF Once
    <3>2. i \in Int /\ j \in Int /\ Len(p) \in Int
      BY <1>2, SeqDomain DEF Once
    <3> QED
      BY <3>1, <3>2
  <2>3. CASE (i \in DOMAIN p) # (j \in DOMAIN p)
    BY <1>2, <1>4, <2>0, <2>3
  <2> QED
    BY <2>1, <2>2, <2>3
<1> QED
  BY <1>1, <1>2, <1>3, <1>4 DEF Once

(* What the steps of the connection do to the queues: nobody new is under  *)
(* way, the script apart.                                                  *)
LEMMA ConnectQueues ==
  ASSUME OneTicket, ScriptFirst, OnConnect
  PROVE  OneTicket' /\ ScriptFirst' /\ UnderWay' \subseteq UnderWay \cup {"script"}
<1>1. PICK x : x = [from |-> "script", cmd |-> [op |-> "load"], known |-> TRUE]
  OBVIOUS
<1>2. /\ pipe = << >> /\ back = << >> /\ pipe' = <<x>> /\ back' = << >> /\ inbox' = inbox
      /\ conn' = "up" /\ x.from = "script"
  BY <1>1 DEF OnConnect, ScriptFirst
<1>3. <<x>> = Append(<< >>, x)
  OBVIOUS
<1>4. Once(<<x>>) /\ Froms(<<x>>) = {"script"} /\ DOMAIN <<x>> = {1}
  <2>1. Once(<<x>>) /\ Froms(<<x>>) = {"script"}
    <3>1. x.from \notin Froms(<< >>) /\ Once(<< >>) /\ Froms(<< >>) = {}
      BY NoneIsSeq
    <3>2. Once(Append(<< >>, x)) /\ Froms(Append(<< >>, x)) = Froms(<< >>) \cup {x.from}
      BY <3>1, OnceAppend
    <3> QED
      BY <1>2, <1>3, <3>1, <3>2
  <2> QED
    BY <2>1
<1>5. Froms(back') = {} /\ Once(back') /\ DOMAIN back' = {}
  BY <1>2, NoneIsSeq
<1>6. OneTicket'
  BY <1>2, <1>4, <1>5 DEF OneTicket, ScriptFirst
<1>7. ScriptFirst'
  BY <1>2, <1>4, <1>5 DEF ScriptFirst
<1> QED
  BY <1>2, <1>4, <1>5, <1>6, <1>7 DEF UnderWay

LEMMA DisconnectQueues ==
  ASSUME OneTicket, ScriptFirst, OnDisconnect
  PROVE  OneTicket' /\ ScriptFirst' /\ UnderWay' \subseteq UnderWay
<1>1. PICK f : f = [i \in DOMAIN Waiting |-> Event(Waiting[i], "failed", NoData)]
  OBVIOUS
<1>2. Once(f) /\ Froms(f) \subseteq (Froms(pipe) \cup Froms(back)) \ {"script"}
  BY <1>1, WaitingOnce
<1>3. pipe' = << >> /\ back' = << >> /\ conn' = "down" /\ inbox' = inbox \o f
  BY <1>1 DEF OnDisconnect
<1>4. Froms(inbox) \cap Froms(f) = {}
  BY <1>2 DEF OneTicket
<1>5. Once(inbox \o f) /\ Froms(inbox \o f) = Froms(inbox) \cup Froms(f)
  BY <1>2, <1>4, OnceConcat DEF OneTicket
<1>6. Once(pipe') /\ Froms(pipe') = {} /\ DOMAIN pipe' = {} /\ Once(back') /\ Froms(back') = {} /\ DOMAIN back' = {}
  BY <1>3, NoneIsSeq
<1>7. Froms(inbox') \subseteq UnderWay /\ "script" \notin Froms(inbox')
  BY <1>2, <1>3, <1>5 DEF UnderWay, ScriptFirst
<1>8. OneTicket'
  BY <1>3, <1>5, <1>6, <1>7 DEF OneTicket, UnderWay
<1>9. ScriptFirst'
  BY <1>3, <1>6, <1>7 DEF ScriptFirst
<1> QED
  BY <1>6, <1>7, <1>8, <1>9 DEF UnderWay

LEMMA ExecuteQueues ==
  ASSUME OneTicket, ScriptFirst, Execute
  PROVE  OneTicket' /\ ScriptFirst' /\ UnderWay' \subseteq UnderWay
<1>1. PICK e : back' = Append(back, e) /\ e.from = pipe[1].from
  BY DEF Execute, Event
<1>2. pipe # << >> /\ pipe' = Tail(pipe) /\ inbox' = inbox /\ conn' = conn
  BY DEF Execute
<1>3. /\ 1 \in DOMAIN pipe /\ Once(pipe') /\ Froms(pipe') = Froms(pipe) \ {pipe[1].from}
      /\ \A i \in DOMAIN pipe' : i + 1 \in DOMAIN pipe /\ i + 1 # 1 /\ pipe'[i] = pipe[i + 1]
  BY <1>2, OnceTail DEF OneTicket
<1>4. pipe[1].from \in Froms(pipe) /\ pipe[1].from \notin Froms(back)
  BY <1>3 DEF Froms, OneTicket
<1>5. /\ Once(back') /\ Froms(back') = Froms(back) \cup {pipe[1].from}
      /\ \A i \in DOMAIN back' : \/ i \in DOMAIN back /\ back'[i] = back[i]
                                 \/ i = Len(back) + 1 /\ back'[i] = e
  BY <1>1, <1>4, OnceAppend DEF OneTicket
<1>6. OneTicket'
  BY <1>2, <1>3, <1>4, <1>5 DEF OneTicket
<1>7. ScriptFirst'
  <2>1. conn = "up"
    BY <1>2 DEF ScriptFirst
  <2>2. \A i \in DOMAIN pipe' : pipe'[i].from # "script"
    BY <1>3 DEF ScriptFirst
  <2>3. ASSUME NEW i \in DOMAIN back', back'[i].from = "script" PROVE i = 1
    <3>1. CASE i \in DOMAIN back /\ back'[i] = back[i]
      BY <2>3, <3>1 DEF ScriptFirst
    <3>2. CASE i = Len(back) + 1 /\ back'[i] = e
      <4>1. back = << >>
        BY <1>1, <1>3, <2>3, <3>2 DEF ScriptFirst
      <4> QED
        BY <3>2, <4>1, EmptySeq
    <3> QED
      BY <1>5, <3>1, <3>2
  <2> QED
    BY <1>2, <2>1, <2>2, <2>3 DEF ScriptFirst
<1> QED
  BY <1>2, <1>3, <1>4, <1>5, <1>6, <1>7 DEF UnderWay

LEMMA ReadQueues ==
  ASSUME OneTicket, ScriptFirst, ReadReply
  PROVE  OneTicket' /\ ScriptFirst' /\ UnderWay' \subseteq UnderWay
<1>1. back # << >> /\ back' = Tail(back) /\ pipe' = pipe /\ conn' = conn
  BY DEF ReadReply
<1>2. /\ 1 \in DOMAIN back /\ Once(back') /\ Froms(back') = Froms(back) \ {back[1].from}
      /\ \A i \in DOMAIN back' : i + 1 \in DOMAIN back /\ i + 1 # 1 /\ back'[i] = back[i + 1]
  BY <1>1, OnceTail DEF OneTicket
<1>3. back[1].from \in Froms(back)
  BY <1>2 DEF Froms
<1>4. \A i \in DOMAIN back' : back'[i].from # "script"
  BY <1>2 DEF ScriptFirst
<1>5. \A i \in DOMAIN pipe' : pipe'[i].from # "script"
  BY <1>1 DEF ScriptFirst
<1>6. CASE back[1].from = "script"
  <2>1. inbox' = inbox
    BY <1>6 DEF ReadReply
  <2>2. OneTicket'
    BY <1>1, <1>2, <2>1 DEF OneTicket
  <2>3. ScriptFirst'
    BY <1>1, <1>4, <1>5, <2>1 DEF ScriptFirst
  <2> QED
    BY <1>1, <1>2, <2>1, <2>2, <2>3 DEF UnderWay
<1>7. CASE back[1].from # "script"
  <2>1. inbox' = Append(inbox, back[1])
    BY <1>7 DEF ReadReply
  <2>2. Once(inbox') /\ Froms(inbox') = Froms(inbox) \cup {back[1].from}
    BY <1>3, <2>1, OnceAppend DEF OneTicket
  <2>3. OneTicket'
    BY <1>1, <1>2, <1>3, <2>2 DEF OneTicket
  <2>4. ScriptFirst'
    BY <1>1, <1>4, <1>5, <1>7, <2>2 DEF ScriptFirst
  <2> QED
    BY <1>1, <1>2, <1>3, <2>2, <2>3, <2>4 DEF UnderWay
<1> QED
  BY <1>6, <1>7

(* A sender that is not under way posts a command.                         *)
LEMMA PostQueues ==
  ASSUME OneTicket, ScriptFirst, NEW from \in Requests \cup Lookups, NEW cmd,
         from \notin UnderWay, Post(from, cmd), UNCHANGED <<conn, back>>
  PROVE  OneTicket' /\ ScriptFirst' /\ UnderWay' \subseteq UnderWay \cup {from}
<1>0. from # "script"
  BY RegistrarAssumption
<1>1. from \notin Froms(pipe) /\ from \notin Froms(back) /\ from \notin Froms(inbox)
  BY DEF UnderWay
<1>2. CASE conn = "up"
  <2>1. PICK x : x.from = from /\ pipe' = Append(pipe, x) /\ inbox' = inbox
    BY <1>2 DEF Post
  <2>2. /\ Once(pipe') /\ Froms(pipe') = Froms(pipe) \cup {from}
        /\ \A i \in DOMAIN pipe' : \/ i \in DOMAIN pipe /\ pipe'[i] = pipe[i]
                                   \/ pipe'[i] = x
    BY <1>1, <2>1, OnceAppend DEF OneTicket
  <2>3. OneTicket'
    BY <1>1, <2>1, <2>2 DEF OneTicket
  <2>4. ScriptFirst'
    BY <1>0, <1>2, <2>1, <2>2 DEF ScriptFirst
  <2> QED
    BY <2>1, <2>2, <2>3, <2>4 DEF UnderWay
<1>3. CASE conn # "up"
  <2>1. PICK x : x.from = from /\ inbox' = Append(inbox, x) /\ pipe' = pipe
    BY <1>3 DEF Post, Event
  <2>2. Once(inbox') /\ Froms(inbox') = Froms(inbox) \cup {from}
    BY <1>1, <2>1, OnceAppend DEF OneTicket
  <2>3. OneTicket'
    BY <1>1, <2>1, <2>2 DEF OneTicket
  <2>4. ScriptFirst'
    BY <1>0, <1>3, <2>1, <2>2 DEF ScriptFirst
  <2> QED
    BY <2>1, <2>2, <2>3, <2>4 DEF UnderWay
<1> QED
  BY <1>2, <1>3

(* A reply that is processed is not under way any more.                    *)
LEMMA ProcessQueues ==
  ASSUME OneTicket, ScriptFirst, NEW n \in DOMAIN inbox, ProcessReply(n)
  PROVE  /\ OneTicket' /\ ScriptFirst' /\ UnderWay' \subseteq UnderWay \ {inbox[n].from}
         /\ inbox[n].from \in UnderWay
<1>1. /\ inbox' = Without(inbox, n)
      /\ pipe' = pipe /\ back' = back /\ conn' = conn
  BY DEF ProcessReply, connVars, Without
<1>2. Once(inbox') /\ Froms(inbox') \subseteq Froms(inbox) \ {inbox[n].from}
  BY <1>1, OnceRemove DEF OneTicket
<1>3. inbox[n].from \in Froms(inbox)
  BY DEF Froms
<1>4. OneTicket'
  BY <1>1, <1>2 DEF OneTicket
<1>5. ScriptFirst'
  BY <1>1, <1>2 DEF ScriptFirst
<1> QED
  BY <1>1, <1>2, <1>3, <1>4, <1>5 DEF UnderWay, OneTicket

-----------------------------------------------------------------------------
(* The answers.                                                            *)

BudgetShape(b) == b = [fault |-> b.fault, other |-> b.other, ping |-> b.ping, seen |-> b.seen]

LEMMA SpendShape ==
  ASSUME BudgetShape(budget), NEW what \in {"fault", "other", "ping"}, NEW max, Spend(what, max)
  PROVE  BudgetShape(budget') /\ budget'.seen = budget.seen
<1>1. budget' = [budget EXCEPT ![what] = @ + 1]
  BY DEF Spend
<1>2. DOMAIN budget = {"fault", "other", "ping", "seen"}
  BY DEF BudgetShape
<1>3. DOMAIN budget' = {"fault", "other", "ping", "seen"} /\ budget' = [x \in DOMAIN budget' |-> budget'[x]]
  BY <1>1, <1>2
<1>4. budget'.seen = budget.seen
  BY <1>1, <1>2
<1>5. BudgetShape(budget')
  BY <1>3 DEF BudgetShape
<1> QED
  BY <1>4, <1>5

LEMMA CodesOnce ==
  ASSUME NEW a, IsSeq(a), NoFinal(a), NEW x
  PROVE  IsSeq(a \o <<x>>) /\ OneFinal(a \o <<x>>)
<1>1. IsSeq(<<x>>) /\ DOMAIN <<x>> = {1}
  <2>1. <<x>> \in Seq({x})
    OBVIOUS
  <2>2. IsSeq(<<x>>)
    BY <2>1, SeqOfRange DEF IsSeq
  <2>3. DOMAIN <<x>> = {1}
    OBVIOUS
  <2> QED
    BY <2>2, <2>3
<1>2. PICK c : c = a \o <<x>>
  OBVIOUS
<1>3. PICK o : o = <<x>>
  OBVIOUS
<1>4. /\ IsSeq(c) /\ DOMAIN c = 1..(Len(a) + Len(o))
      /\ \A i \in DOMAIN a : i \in DOMAIN c /\ c[i] = a[i]
      /\ \A i \in DOMAIN c : i \in DOMAIN a \/ (i - Len(a) \in DOMAIN o /\ c[i] = o[i - Len(a)])
  <2>1. IsSeq(a) /\ IsSeq(o) /\ c = a \o o
    BY <1>1, <1>2, <1>3
  <2> QED
    BY ONLY <2>1, ConcatSeq
<1>5. \A i \in DOMAIN c : Final(c[i]) => i - Len(a) = 1
  BY <1>1, <1>3, <1>4 DEF NoFinal
<1>6. Len(a) \in Int /\ Len(o) \in Int /\ \A i \in DOMAIN c : i \in Int
  BY <1>1, <1>3, <1>4, SeqDomain
<1>7. \A i, j \in DOMAIN c : i - Len(a) = 1 /\ j - Len(a) = 1 => i = j
  BY <1>6
<1>8. OneFinal(c)
  BY <1>5, <1>7 DEF OneFinal
<1> QED
  BY <1>2, <1>4, <1>8

(* What the factory sends at once: one final code at most, and none when   *)
(* a command is posted.                                                    *)
LEMMA FactoryCodes ==
  ASSUME NEW m, NEW auth_id, NEW o,
         o \in IF m.method = "INVITE" THEN {OnInvite(auth_id, pre) : pre \in PreAuth(m)}
               ELSE {OnOoDRequest(m, auth_id)}
  PROVE  LET sent == << >> \o o.codes \o IF o.then.op = "leg" THEN <<HandedToLeg>> ELSE << >>
         IN  /\ IsSeq(sent) /\ OneFinal(sent)
             /\ o.then.op \notin {"none", "leg"} => NoFinal(sent)
<1>0. /\ IsSeq(<< >>) /\ NoFinal(<< >>) /\ OneFinal(<< >>)
      /\ << >> \o << >> = << >>
  <2>1. << >> \in Seq({})
    BY EmptySeq
  <2> QED
    BY <2>1, NoneIsSeq, ConcatEmptySeq DEF NoFinal, OneFinal
<1>1. ASSUME NEW x PROVE /\ IsSeq(<<x>>) /\ OneFinal(<<x>>)
                         /\ << >> \o <<x>> = <<x>> /\ <<x>> \o << >> = <<x>>
  <2>1. <<x>> \in Seq({x})
    OBVIOUS
  <2>2. << >> \o <<x>> = <<x>> /\ <<x>> \o << >> = <<x>>
    BY <2>1, ConcatEmptySeq
  <2> QED
    BY <1>0, <2>2, CodesOnce
<1>2. ASSUME NEW x PROVE IsSeq(<<100>> \o <<x>>) /\ OneFinal(<<100>> \o <<x>>)
                         /\ << >> \o (<<100>> \o <<x>>) = <<100>> \o <<x>>
                         /\ (<<100>> \o <<x>>) \o << >> = <<100>> \o <<x>>
                         /\ << >> \o (<<100>> \o << >>) \o <<x>> = <<100>> \o <<x>>
  <2>1. IsSeq(<<100>>) /\ NoFinal(<<100>>)
    <3>1. \A i \in DOMAIN <<100>> : i = 1
      OBVIOUS
    <3> QED
      BY <1>1, <3>1 DEF NoFinal, Final
  <2>2. PICK t : t = <<100>>
    OBVIOUS
  <2>3. IsSeq(t \o <<x>>) /\ OneFinal(t \o <<x>>)
    BY <2>1, <2>2, CodesOnce
  <2>4. << >> \o (t \o <<x>>) = t \o <<x>> /\ (t \o <<x>>) \o << >> = t \o <<x>>
    BY <2>3, ConcatEmptySeq DEF IsSeq
  <2>5. << >> \o t = t /\ t \o << >> = t
    BY <2>1, <2>2, ConcatEmptySeq DEF IsSeq
  <2> QED
    BY <2>2, <2>3, <2>4, <2>5
<1> DEFINE Plain(d) == d = [codes |-> d.codes, log |-> d.log, then |-> d.then]
<1>5. ASSUME NEW c
      PROVE  /\ Plain(SendAuthErrorReply(c)) /\ SendAuthErrorReply(c).codes = <<c>>
             /\ SendAuthErrorReply(c).then.op = "none"
             /\ Plain(SendAuthChallenge(c)) /\ SendAuthChallenge(c).codes = <<401>>
             /\ SendAuthChallenge(c).then.op = "none"
  BY DEF SendAuthErrorReply, SendAuthChallenge, Outcome
<1>7. /\ Plain(SendAuthChallenge(TRUE)) /\ SendAuthChallenge(TRUE).codes = <<401>>
      /\ SendAuthChallenge(TRUE).then.op = "none"
  BY DEF SendAuthChallenge, Outcome
<1> HIDE DEF Plain
<1>6. /\ Plain(Refused(auth_id)) /\ Refused(auth_id).then.op = "none"
      /\ Refused(auth_id).codes = <<401>>
  <2>1. Refused(auth_id) = SendAuthErrorReply(401) \/ Refused(auth_id) = SendAuthChallenge(TRUE)
    BY DEF Refused
  <2>2. CASE Refused(auth_id) = SendAuthErrorReply(401)
    BY <1>5, <2>2
  <2>3. CASE Refused(auth_id) = SendAuthChallenge(TRUE)
    BY <1>7, <2>3
  <2> QED
    BY <2>1, <2>2, <2>3
<1>3. CASE m.method = "INVITE"
  <2>1. PICK pre : o = OnInvite(auth_id, pre)
    BY <1>3
  <2>2. PICK d : /\ o = Trying(d) /\ Plain(d)
                 /\ \/ \E x : d.codes = <<x>> /\ d.then.op = "none"
                    \/ d.codes = << >> /\ d.then.op = "leg"
    <3>1. PICK lg : lg = IF auth_id > 0 /\ ~Config.skip_logging_invite_success THEN <<TRUE>> ELSE << >>
      OBVIOUS
    <3>2. PICK l : l = Outcome(<< >>, lg, [op |-> "leg"])
      OBVIOUS
    <3>3. Plain(l) /\ l.codes = << >> /\ l.then.op = "leg"
      BY <3>2 DEF Outcome, Plain
    <3>4. PICK d : /\ o = Trying(d)
                   /\ \/ d = SendAuthErrorReply(403) \/ d = Refused(auth_id)
                      \/ d = SendAuthChallenge(~Config.skip_logging_invite_challenge)
                      \/ d = l
      BY <2>1, <3>1, <3>2 DEF OnInvite
    <3> QED
      BY <1>5, <1>6, <3>3, <3>4
  <2>3. /\ o.then = d.then
        /\ \/ o.codes = d.codes
           \/ o.codes = <<100>> \o d.codes
    <3>1. CASE Config.early_100_trying
      <4>1. PICK cs : cs = <<100>> \o d.codes
        OBVIOUS
      <4>2. o = [d EXCEPT !.codes = cs]
        BY <2>2, <3>1, <4>1 DEF Trying
      <4> QED
        BY <2>2, <4>1, <4>2 DEF Plain
    <3>2. CASE ~Config.early_100_trying
      BY <2>2, <3>2 DEF Trying
    <3> QED
      BY <3>1, <3>2
  <2>4. CASE \E x : d.codes = <<x>> /\ d.then.op = "none"
    <3>1. PICK x : d.codes = <<x>> /\ o.then.op = "none"
      BY <2>3, <2>4
    <3>2. CASE o.codes = <<x>>
      BY <1>1, <3>1, <3>2
    <3>3. CASE o.codes = <<100>> \o <<x>>
      BY <1>2, <3>1, <3>3
    <3> QED
      BY <2>3, <3>1, <3>2, <3>3
  <2>5. CASE d.codes = << >> /\ d.then.op = "leg"
    <3>1. d.codes = << >> /\ o.then.op = "leg"
      BY <2>3, <2>5
    <3>2. CASE o.codes = << >>
      BY <1>0, <1>1, <3>1, <3>2
    <3>3. CASE o.codes = <<100>> \o << >>
      BY <1>2, <3>1, <3>3
    <3> QED
      BY <2>3, <3>1, <3>2, <3>3
  <2> QED
    BY <2>2, <2>4, <2>5
<1>4. CASE m.method # "INVITE"
  <2>1. o = OnOoDRequest(m, auth_id)
    BY <1>4
  <2>2. PICK c : c = ProcessAuthorizedRegister(m)
    OBVIOUS
  <2>3. \/ o = Outcome(<<200>>, << >>, [op |-> "none"])
        \/ o = Outcome(<<405>>, << >>, [op |-> "none"])
        \/ o = SendAuthChallenge(TRUE) \/ o = Refused(auth_id)
        \/ o = Outcome(<<c.code>>, <<TRUE>>, [op |-> "none"])
        \/ o = Outcome(<< >>, <<TRUE>>, c)
    BY <2>1, <2>2 DEF OnOoDRequest
  <2>4. CASE o = Outcome(<< >>, <<TRUE>>, c)
    <3>1. o.codes = << >>
      BY <2>4 DEF Outcome
    <3> QED
      BY <1>0, <1>1, <3>1
  <2>5. CASE o # Outcome(<< >>, <<TRUE>>, c)
    <3>1. PICK x : o.codes = <<x>> /\ o.then.op = "none"
      <4>1. ASSUME NEW y, NEW lg, o = Outcome(<<y>>, lg, [op |-> "none"])
            PROVE  o.codes = <<y>> /\ o.then.op = "none"
        BY <4>1 DEF Outcome
      <4>2. \/ o.codes = <<200>> /\ o.then.op = "none"
            \/ o.codes = <<405>> /\ o.then.op = "none"
            \/ o.codes = <<401>> /\ o.then.op = "none"
            \/ o.codes = <<c.code>> /\ o.then.op = "none"
        <5>1. CASE o = SendAuthChallenge(TRUE)
          BY <1>7, <5>1
        <5>2. CASE o = Refused(auth_id)
          BY <1>6, <5>2
        <5>3. CASE o = Outcome(<<200>>, << >>, [op |-> "none"])
          BY <4>1, <5>3
        <5>4. CASE o = Outcome(<<405>>, << >>, [op |-> "none"])
          BY <4>1, <5>4
        <5>5. CASE o = Outcome(<<c.code>>, <<TRUE>>, [op |-> "none"])
          BY <4>1, <5>5
        <5> QED
          BY <2>3, <2>5, <5>1, <5>2, <5>3, <5>4, <5>5
      <4> QED
        BY <4>2
    <3> QED
      BY <1>1, <3>1
  <2> QED
    BY <2>4, <2>5
<1> QED
  BY <1>3, <1>4

(* A step that answers nobody and starts no lookup.                        *)
LEMMA QuietStep ==
  ASSUME TicketInv, OneTicket', ScriptFirst', UnderWay' \subseteq UnderWay \cup {"script"},
         UNCHANGED <<answers, calls>>, BudgetShape(budget'), budget'.seen = budget.seen
  PROVE  TicketInv'
<1>1. \A x \in Requests \cup Lookups : x \in UnderWay' => x \in UnderWay
  BY RegistrarAssumption
<1>2. UnansweredIsSeen'
  BY <1>1 DEF TicketInv, UnansweredIsSeen, BudgetShape
<1>3. WaitingLookups'
  BY <1>1 DEF TicketInv, WaitingLookups
<1> QED
  BY <1>2, <1>3 DEF TicketInv

LEMMA ReceiveTicket ==
  ASSUME TicketInv, NEW r \in Requests, NEW m, Receive(r, m)
  PROVE  TicketInv'
<1>1. PICK auth_id, o :
        /\ o \in IF m.method = "INVITE" THEN {OnInvite(auth_id, pre) : pre \in PreAuth(m)}
                 ELSE {OnOoDRequest(m, auth_id)}
        /\ answers' = [answers EXCEPT ![r] = @ \o o.codes \o IF o.then.op = "leg" THEN <<HandedToLeg>> ELSE << >>]
        /\ IF o.then.op \in {"none", "leg"} THEN UNCHANGED <<pipe, inbox>>
           ELSE Post(r, [op |-> "register", id |-> auth_id, what |-> o.then])
  BY DEF Receive
<1>2. /\ r \notin budget.seen /\ budget' = [budget EXCEPT !.seen = @ \cup {r}]
      /\ UNCHANGED <<conn, hash, back, calls>>
  BY DEF Receive
<1>3. /\ answers = [q \in Requests |-> answers[q]] /\ answers[r] = << >> /\ r \notin UnderWay
      /\ BudgetShape(budget)
  BY <1>2 DEF TicketInv, UnansweredIsSeen, BudgetShape
<1>4. budget'.seen = budget.seen \cup {r} /\ BudgetShape(budget')
  BY <1>2, <1>3 DEF BudgetShape
<1>5. PICK sent : sent = << >> \o o.codes \o IF o.then.op = "leg" THEN <<HandedToLeg>> ELSE << >>
  OBVIOUS
<1>6. /\ IsSeq(sent) /\ OneFinal(sent)
      /\ o.then.op \notin {"none", "leg"} => NoFinal(sent)
  BY <1>1, <1>5, FactoryCodes
<1>7. answers' = [answers EXCEPT ![r] = sent]
  BY <1>1, <1>3, <1>5
<1>8. /\ OneTicket' /\ ScriptFirst' /\ UnderWay' \subseteq UnderWay \cup {r}
      /\ r \in UnderWay' => NoFinal(sent)
  <2>1. CASE o.then.op \in {"none", "leg"}
    <3>1. UNCHANGED <<pipe, inbox, back, conn>>
      BY <1>1, <1>2, <2>1
    <3> QED
      BY <1>3, <3>1 DEF TicketInv, OneTicket, ScriptFirst, UnderWay
  <2>2. CASE o.then.op \notin {"none", "leg"}
    <3>1. PICK cmd : Post(r, cmd)
      BY <1>1, <2>2
    <3> QED
      BY <1>2, <1>3, <1>6, <2>2, <3>1, PostQueues DEF TicketInv
  <2> QED
    BY <2>1, <2>2
<1>9. UnansweredIsSeen'
  <2>1. answers' = [q \in Requests |-> answers'[q]]
    BY <1>3, <1>7
  <2>2. ASSUME NEW q \in Requests
        PROVE  /\ IsSeq(answers'[q]) /\ OneFinal(answers'[q])
               /\ q \in UnderWay' => q \in budget'.seen /\ NoFinal(answers'[q])
               /\ q \notin budget'.seen => answers'[q] = << >>
    <3>1. CASE q = r
      <4>1. answers'[q] = sent
        BY <1>3, <1>7, <3>1
      <4> QED
        BY <1>4, <1>6, <1>8, <3>1, <4>1
    <3>2. CASE q # r
      <4>1. answers'[q] = answers[q]
        BY <1>3, <1>7, <3>2
      <4> QED
        BY <1>4, <1>8, <3>2, <4>1 DEF TicketInv, UnansweredIsSeen
    <3> QED
      BY <3>1, <3>2
  <2> QED
    BY <1>4, <2>1, <2>2 DEF UnansweredIsSeen, BudgetShape
<1>10. WaitingLookups'
  <2>1. \A l \in Lookups : l \in UnderWay' => l \in UnderWay
    BY <1>8, RegistrarAssumption
  <2> QED
    BY <1>2, <2>1 DEF TicketInv, WaitingLookups
<1> QED
  BY <1>8, <1>9, <1>10 DEF TicketInv

LEMMA ProcessTicket ==
  ASSUME TicketInv, NEW n \in DOMAIN inbox, ProcessReply(n)
  PROVE  TicketInv'
<1>1. PICK e : e = inbox[n]
  OBVIOUS
<1>2. /\ OneTicket' /\ ScriptFirst' /\ UnderWay' \subseteq UnderWay \ {e.from} /\ e.from \in UnderWay
  BY <1>1, ProcessQueues DEF TicketInv
<1>3. \/ ForLeg(e) /\ OnRedisReply(e)
      \/ e.from \in Requests /\ ProcessRedisRegisterReply(e)
      \/ e.from \in Lookups /\ ~ForLeg(e) /\ ProcessRedisRpcAorLookupReply(e)
  BY <1>1 DEF ProcessReply
<1>4. budget' = budget
  BY DEF ProcessReply
<1>5. CASE e.from \in Requests /\ ProcessRedisRegisterReply(e)
  <2>1. PICK x : answers' = [answers EXCEPT ![e.from] = @ \o <<x>>] /\ calls' = calls
    <3>1. Codes(e) = <<500>> \/ Codes(e) = <<200>>
      BY DEF Codes
    <3>2. answers' = [answers EXCEPT ![e.from] = @ \o Codes(e)] /\ calls' = calls
      BY <1>5 DEF ProcessRedisRegisterReply
    <3> QED
      BY ONLY <3>1, <3>2
  <2>2. UnansweredIsSeen'
    <3>0. answers = [r \in Requests |-> answers[r]]
      BY DEF TicketInv, UnansweredIsSeen
    <3>1. answers' = [r \in Requests |-> answers'[r]]
      BY <2>1, <3>0
    <3>2. ASSUME NEW r \in Requests
          PROVE  /\ IsSeq(answers'[r]) /\ OneFinal(answers'[r])
                 /\ r \in UnderWay' => r \in budget'.seen /\ NoFinal(answers'[r])
                 /\ r \notin budget'.seen => answers'[r] = << >>
      <4>1. CASE r = e.from
        <5>1. IsSeq(answers[r]) /\ NoFinal(answers[r]) /\ r \in budget.seen
          BY <1>2, <4>1 DEF TicketInv, UnansweredIsSeen
        <5>2. answers'[r] = answers[r] \o <<x>>
          BY <2>1, <3>0, <4>1
        <5>3. IsSeq(answers'[r]) /\ OneFinal(answers'[r])
          BY <5>1, <5>2, CodesOnce
        <5> QED
          BY <1>2, <1>4, <4>1, <5>1, <5>3
      <4>2. CASE r # e.from
        <5>1. answers'[r] = answers[r]
          BY <2>1, <3>0, <4>2
        <5> QED
          BY <1>2, <1>4, <5>1 DEF TicketInv, UnansweredIsSeen
      <4> QED
        BY <4>1, <4>2
    <3> QED
      BY <1>4, <3>1, <3>2 DEF TicketInv, UnansweredIsSeen
  <2>3. WaitingLookups'
    BY <1>2, <2>1 DEF TicketInv, WaitingLookups
  <2> QED
    BY <1>2, <2>2, <2>3 DEF TicketInv
<1>6. CASE e.from \in Lookups /\ (OnRedisReply(e) \/ ProcessRedisRpcAorLookupReply(e))
  <2>1. answers' = answers
    BY <1>6 DEF OnRedisReply, ProcessRedisRpcAorLookupReply
  <2>2. PICK c : /\ calls' = [calls EXCEPT ![e.from] = c]
                 /\ c = [kind |-> c.kind, st |-> c.st, got |-> c.got, dead |-> c.dead]
    <3>1. calls[e.from] = [kind |-> calls[e.from].kind, st |-> calls[e.from].st,
                           got |-> calls[e.from].got, dead |-> calls[e.from].dead]
      BY <1>6 DEF TicketInv, WaitingLookups
    <3>2. PICK d : d = calls[e.from]
      OBVIOUS
    <3>3. d = [kind |-> d.kind, st |-> d.st, got |-> d.got, dead |-> d.dead]
      BY <3>1, <3>2
    <3>4. CASE OnRedisReply(e)
      <4>1. calls' = [calls EXCEPT ![e.from] =
               IF e.res = "failed" THEN [d EXCEPT !.st = "refused"]
               ELSE [d EXCEPT !.st   = IF Parsed(e.data.of) = {} THEN "not_registered" ELSE "done",
                              !.got  = Parsed(e.data.of), !.dead = e.data.dead]]
        BY <3>2, <3>4 DEF OnRedisReply
      <4>2. CASE e.res = "failed"
        <5>1. PICK c : c = [d EXCEPT !.st = "refused"]
          OBVIOUS
        <5>2. c = [kind |-> c.kind, st |-> c.st, got |-> c.got, dead |-> c.dead]
          BY <3>3, <5>1
        <5> QED
          BY <4>1, <4>2, <5>1, <5>2
      <4>3. CASE e.res # "failed"
        <5>1. PICK s, g, x : /\ s = IF Parsed(e.data.of) = {} THEN "not_registered" ELSE "done"
                             /\ g = Parsed(e.data.of) /\ x = e.data.dead
          OBVIOUS
        <5>2. PICK c : c = [d EXCEPT !.st = s, !.got = g, !.dead = x]
          OBVIOUS
        <5>3. c = [kind |-> c.kind, st |-> c.st, got |-> c.got, dead |-> c.dead]
          BY <3>3, <5>2
        <5> QED
          BY <4>1, <4>3, <5>1, <5>2, <5>3
      <4> QED
        BY <4>2, <4>3
    <3>5. CASE ProcessRedisRpcAorLookupReply(e)
      <4>1. calls' = [calls EXCEPT ![e.from] =
               [d EXCEPT !.st = "done", !.got = {a.contact : a \in e.data.of}]]
        BY <3>2, <3>5 DEF ProcessRedisRpcAorLookupReply
      <4>2. PICK g : g = {a.contact : a \in e.data.of}
        OBVIOUS
      <4>3. PICK c : c = [d EXCEPT !.st = "done", !.got = g]
        OBVIOUS
      <4>4. c = [kind |-> c.kind, st |-> c.st, got |-> c.got, dead |-> c.dead]
        BY <3>3, <4>3
      <4> QED
        BY <4>1, <4>2, <4>3, <4>4
    <3> QED
      BY <1>6, <3>4, <3>5
  <2>3. WaitingLookups'
    <3>0. calls = [l \in Lookups |-> calls[l]]
      BY DEF TicketInv, WaitingLookups
    <3>1. calls' = [l \in Lookups |-> calls'[l]]
      BY <2>2, <3>0
    <3>2. ASSUME NEW l \in Lookups
          PROVE  /\ calls'[l] = [kind |-> calls'[l].kind, st |-> calls'[l].st,
                                 got |-> calls'[l].got, dead |-> calls'[l].dead]
                 /\ l \in UnderWay' => calls'[l].st # "idle"
      <4>1. CASE l = e.from
        <5>1. calls'[l] = c /\ l \notin UnderWay'
          BY <1>2, <2>2, <3>0, <4>1
        <5> QED
          BY <2>2, <5>1
      <4>2. CASE l # e.from
        <5>1. calls'[l] = calls[l]
          BY <2>2, <3>0, <4>2
        <5> QED
          BY <1>2, <5>1 DEF TicketInv, WaitingLookups
      <4> QED
        BY <4>1, <4>2
    <3> QED
      BY <3>1, <3>2 DEF WaitingLookups
  <2>4. UnansweredIsSeen'
    BY <1>2, <1>4, <2>1 DEF TicketInv, UnansweredIsSeen
  <2> QED
    BY <1>2, <2>3, <2>4 DEF TicketInv
<1> QED
  BY <1>3, <1>5, <1>6 DEF ForLeg

LEMMA ResolveTicket ==
  ASSUME TicketInv, NEW l \in Lookups, NEW kind, NEW id, Resolve(l, kind, id)
  PROVE  TicketInv'
<1>1. /\ calls[l].st = "idle" /\ UNCHANGED <<conn, back, answers, budget>>
      /\ calls' = [calls EXCEPT ![l].kind = kind, ![l].st = IF hash THEN "waiting" ELSE "refused"]
  BY DEF Resolve
<1>2. l \notin UnderWay /\ l \notin Requests
  BY <1>1, RegistrarAssumption DEF TicketInv, WaitingLookups
<1>3. OneTicket' /\ ScriptFirst' /\ UnderWay' \subseteq UnderWay \cup {l}
  <2>1. CASE hash
    <3>1. PICK cmd : Post(l, cmd)
      BY <2>1 DEF Resolve
    <3> QED
      BY <1>1, <1>2, <3>1, PostQueues DEF TicketInv
  <2>2. CASE ~hash
    <3>1. UNCHANGED <<pipe, inbox, back, conn>>
      BY <2>2 DEF Resolve
    <3> QED
      BY <3>1 DEF TicketInv, OneTicket, ScriptFirst, UnderWay
  <2> QED
    BY <2>1, <2>2
<1>4. UnansweredIsSeen'
  <2>1. \A r \in Requests : r \in UnderWay' => r \in UnderWay
    BY <1>2, <1>3
  <2> QED
    BY <1>1, <2>1 DEF TicketInv, UnansweredIsSeen
<1>5. WaitingLookups'
  <2>0. calls = [k \in Lookups |-> calls[k]]
    BY DEF TicketInv, WaitingLookups
  <2>1. PICK s \in {"waiting", "refused"} : s = IF hash THEN "waiting" ELSE "refused"
    OBVIOUS
  <2>2. PICK d : d = calls[l] /\ d = [kind |-> d.kind, st |-> d.st, got |-> d.got, dead |-> d.dead]
    BY DEF TicketInv, WaitingLookups
  <2>3. PICK c : c = [d EXCEPT !.kind = kind, !.st = s]
    OBVIOUS
  <2>4. c = [kind |-> c.kind, st |-> c.st, got |-> c.got, dead |-> c.dead] /\ c.st = s
    BY <2>2, <2>3
  <2>5. calls' = [calls EXCEPT ![l] = c]
    BY <1>1, <2>0, <2>1, <2>2, <2>3
  <2>6. calls' = [k \in Lookups |-> calls'[k]]
    BY <2>0, <2>5
  <2>7. ASSUME NEW k \in Lookups
        PROVE  /\ calls'[k] = [kind |-> calls'[k].kind, st |-> calls'[k].st,
                               got |-> calls'[k].got, dead |-> calls'[k].dead]
               /\ k \in UnderWay' => calls'[k].st # "idle"
    <3>1. CASE k = l
      BY <2>0, <2>1, <2>4, <2>5, <3>1
    <3>2. CASE k # l
      <4>1. calls'[k] = calls[k]
        BY <2>0, <2>5, <3>2
      <4> QED
        BY <1>3, <3>2, <4>1 DEF TicketInv, WaitingLookups
    <3> QED
      BY <3>1, <3>2
  <2> QED
    BY <2>6, <2>7 DEF WaitingLookups
<1> QED
  BY <1>3, <1>4, <1>5 DEF TicketInv

(* What a step that does not touch the queues, the answers and the calls   *)
(* may do to the budget.                                                   *)
LEMMA OtherSteps ==
  ASSUME BudgetShape(budget), [Next]_vars
  PROVE  \/ OnConnect \/ OnDisconnect \/ Execute \/ ReadReply
         \/ \E r \in Requests, m \in Messages \cup Others : Receive(r, m)
         \/ \E i \in DOMAIN inbox : ProcessReply(i)
         \/ \E l \in Lookups, kind \in {"leg", "rpc"}, i \in Ids : Resolve(l, kind, i)
         \/ /\ UNCHANGED <<connVars, inbox, answers, calls>>
            /\ BudgetShape(budget') /\ budget'.seen = budget.seen
<1>1. ASSUME NEW k \in Keys, Age(k) PROVE UNCHANGED <<connVars, inbox, answers, calls, budget>>
  BY <1>1 DEF Age
<1>2. ASSUME NEW i \in Ids, NEW m \in Messages, OtherNode(i, m)
      PROVE  /\ UNCHANGED <<connVars, inbox, answers, calls>>
             /\ BudgetShape(budget') /\ budget'.seen = budget.seen
  BY <1>2, SpendShape DEF OtherNode
<1>3. ASSUME SubDisconnect \/ OnKeepaliveTimer
      PROVE  /\ UNCHANGED <<connVars, inbox, answers, calls>>
             /\ BudgetShape(budget') /\ budget'.seen = budget.seen
  BY <1>3, SpendShape DEF SubDisconnect, OnKeepaliveTimer
<1>4. ASSUME \/ SubConnect \/ ProcessLoadedContacts \/ Subscribed \/ ProcessExpiredKey
             \/ \E k \in Keys : SendRequest(k) \/ EmplaceDlg(k) \/ OnSipReply(k)
             \/ UNCHANGED vars
      PROVE  UNCHANGED <<connVars, inbox, answers, calls, budget>>
  BY <1>4 DEF SubConnect, ProcessLoadedContacts, Subscribed, ProcessExpiredKey,
              SendRequest, EmplaceDlg, OnSipReply, vars
<1> QED
  BY <1>1, <1>2, <1>3, <1>4 DEF Next

LEMMA TicketStep == TicketInv /\ [Next]_vars => TicketInv'
<1> SUFFICES ASSUME TicketInv, [Next]_vars PROVE TicketInv'
  OBVIOUS
<1>0. BudgetShape(budget)
  BY DEF TicketInv, UnansweredIsSeen, BudgetShape
<1>1. CASE OnConnect
  BY <1>0, <1>1, ConnectQueues, QuietStep DEF OnConnect, TicketInv
<1>2. CASE OnDisconnect
  <2>1. BudgetShape(budget') /\ budget'.seen = budget.seen /\ UNCHANGED <<answers, calls>>
    BY <1>0, <1>2, SpendShape DEF OnDisconnect
  <2> QED
    BY <1>2, <2>1, DisconnectQueues, QuietStep DEF TicketInv
<1>3. CASE Execute
  BY <1>0, <1>3, ExecuteQueues, QuietStep DEF Execute, TicketInv
<1>4. CASE ReadReply
  BY <1>0, <1>4, ReadQueues, QuietStep DEF ReadReply, TicketInv
<1>5. ASSUME NEW r \in Requests, NEW m, Receive(r, m) PROVE TicketInv'
  BY <1>5, ReceiveTicket
<1>6. ASSUME NEW n \in DOMAIN inbox, ProcessReply(n) PROVE TicketInv'
  BY <1>6, ProcessTicket
<1>7. ASSUME NEW l \in Lookups, NEW kind, NEW id, Resolve(l, kind, id) PROVE TicketInv'
  BY <1>7, ResolveTicket
<1>8. CASE /\ UNCHANGED <<connVars, inbox, answers, calls>>
           /\ BudgetShape(budget') /\ budget'.seen = budget.seen
  <2>1. OneTicket' /\ ScriptFirst' /\ UnderWay' = UnderWay
    BY <1>8 DEF connVars, TicketInv, OneTicket, ScriptFirst, UnderWay
  <2> QED
    BY <1>8, <2>1, QuietStep
<1> QED
  BY <1>0, <1>1, <1>2, <1>3, <1>4, <1>5, <1>6, <1>7, <1>8, OtherSteps

LEMMA TicketInit == Init => TicketInv
<1> SUFFICES ASSUME Init PROVE TicketInv
  OBVIOUS
<1>1. pipe = << >> /\ back = << >> /\ inbox = << >> /\ conn = "down"
  BY DEF Init
<1>2. /\ Once(pipe) /\ Once(back) /\ Once(inbox)
      /\ Froms(pipe) = {} /\ Froms(back) = {} /\ Froms(inbox) = {}
      /\ DOMAIN pipe = {} /\ DOMAIN back = {}
  BY <1>1, NoneIsSeq
<1>3. OneTicket /\ ScriptFirst
  BY <1>1, <1>2 DEF OneTicket, ScriptFirst
<1>4. UnderWay = {}
  BY <1>2 DEF UnderWay
<1>5. UnansweredIsSeen
  <2>1. \A r \in Requests : answers[r] = << >>
    BY DEF Init
  <2>2. IsSeq(<< >>) /\ OneFinal(<< >>)
    BY NoneIsSeq DEF OneFinal
  <2>3. answers = [r \in Requests |-> answers[r]]
    BY DEF Init
  <2>4. BudgetShape(budget)
    BY DEF Init, BudgetShape
  <2> QED
    BY <1>4, <2>1, <2>2, <2>3, <2>4 DEF UnansweredIsSeen, BudgetShape
<1>6. WaitingLookups
  <2>1. PICK x : x = {}
    OBVIOUS
  <2>2. calls = [l \in Lookups |-> [kind |-> None, st |-> "idle", got |-> x, dead |-> x]]
    BY <2>1 DEF Init
  <2> QED
    BY <1>4, <2>2 DEF WaitingLookups
<1> QED
  BY <1>3, <1>5, <1>6 DEF TicketInv

(* A request gets one final answer at most, with the connection lost at    *)
(* any point between the post of its command and the reply, any number of  *)
(* times: it has one command, one reply or one event under way, and none   *)
(* once it was answered (postRedisRequest, processRedisRegisterReply).     *)
THEOREM AnsweredOnce == Spec => []OneFinalAnswer
<1>1. TicketInv => OneFinalAnswer
  BY DEF TicketInv, UnansweredIsSeen, OneFinal, OneFinalAnswer
<1> QED
  BY <1>1, TicketInit, TicketStep, PTL DEF Spec

-----------------------------------------------------------------------------
(* The lookups.                                                            *)

(* Every element of the new queues is one of the old ones or harmless.     *)
Harmless(e) ==
  e.from \in Lookups /\ e.res # "failed" => Parsed(e.data.of) \cap e.data.dead = {}

LEMMA ExecutedLookup ==
  ASSUME TicketInv, AliveInv, Execute
  PROVE  \E e : back' = Append(back, e) /\ e.from = pipe[1].from /\ Harmless(e)
<1>0. pipe # << >> /\ 1 \in DOMAIN pipe
  BY SeqDomain DEF Execute, TicketInv, OneTicket, Once
<1>1. PICK p : p = pipe[1]
  OBVIOUS
<1>2. p.from \in Lookups => p.cmd.op \in {"aor_lookup", "rpc_aor_lookup"}
  BY <1>0, <1>1 DEF AliveInv, LookupsAsk
<1>3. CASE p.from \notin Lookups
  <2>1. PICK e : back' = Append(back, e) /\ e.from = p.from
    BY <1>1 DEF Execute, Event
  <2> QED
    BY <1>1, <1>3, <2>1 DEF Harmless
<1>4. CASE p.from \in Lookups
  <2>1. CASE ~p.known
    <3>1. PICK e : back' = Append(back, e) /\ e.from = p.from /\ e.res = "failed"
      BY <1>1, <1>2, <1>4, <2>1 DEF Execute, Event
    <3> QED
      BY <1>1, <3>1 DEF Harmless
  <2>2. CASE p.known /\ p.cmd.op = "aor_lookup"
    <3>1. PICK of : of = AorLookupScript(p.cmd.id)
      OBVIOUS
    <3>2. PICK dead : dead = {c \in Contacts : ~Alive(<<p.cmd.id, c>>)}
      OBVIOUS
    <3>3. PICK e : e = Event(p.from, "ok", [is |-> "aors", of |-> of, dead |-> dead])
      OBVIOUS
    <3>4. back' = Append(back, e)
      BY <1>1, <2>2, <3>1, <3>2, <3>3 DEF Execute
    <3>5. e.from = p.from /\ e.data.of = of /\ e.data.dead = dead
      BY <3>3 DEF Event
    <3>6. \A a \in of : a.path # "nil" => Alive(<<p.cmd.id, a.contact>>)
      <4> SUFFICES ASSUME NEW a \in of, a.path # "nil" PROVE Alive(<<p.cmd.id, a.contact>>)
        OBVIOUS
      <4>1. PICK c \in set[p.cmd.id] :
              a = [contact |-> c, path |-> IF Alive(<<p.cmd.id, c>>) THEN "path" ELSE "nil"]
        BY <3>1 DEF AorLookupScript
      <4>2. a.contact = c /\ a.path = IF Alive(<<p.cmd.id, c>>) THEN "path" ELSE "nil"
        BY <4>1
      <4> QED
        BY <4>2
    <3>7. Parsed(of) \cap dead = {}
      BY <3>2, <3>6 DEF Parsed
    <3> QED
      BY <1>1, <3>4, <3>5, <3>7 DEF Harmless
  <2>3. CASE p.known /\ p.cmd.op = "rpc_aor_lookup"
    <3>1. PICK of : of = RpcAorLookupScript(p.cmd.id)
      OBVIOUS
    <3>2. PICK dead : dead = {}
      OBVIOUS
    <3>3. PICK e : e = Event(p.from, "ok", [is |-> "aors", of |-> of, dead |-> dead])
      OBVIOUS
    <3>4. back' = Append(back, e)
      BY <1>1, <2>3, <3>1, <3>2, <3>3 DEF Execute
    <3>5. e.from = p.from /\ e.data.dead = dead
      BY <3>3 DEF Event
    <3> QED
      BY <1>1, <3>2, <3>4, <3>5 DEF Harmless
  <2> QED
    BY <1>2, <1>4, <2>1, <2>2, <2>3
<1> QED
  BY <1>3, <1>4

(* A step that leaves the calls alone and puts only harmless elements into *)
(* the queues.                                                             *)
LEMMA HarmlessStep ==
  ASSUME AliveInv, UNCHANGED calls,
         \A i \in DOMAIN pipe' : \/ \E j \in DOMAIN pipe : pipe'[i] = pipe[j]
                                 \/ pipe'[i].from \notin Lookups,
         \A i \in DOMAIN back' : Harmless(back'[i]),
         \A i \in DOMAIN inbox' : Harmless(inbox'[i])
  PROVE  AliveInv'
<1>1. LookupsAsk'
  BY DEF AliveInv, LookupsAsk
<1>2. SoundReplies(back)' /\ SoundReplies(inbox)'
  BY DEF SoundReplies, Harmless
<1> QED
  BY <1>1, <1>2 DEF AliveInv, ResolvedWasAlive

LEMMA AliveQueues ==
  ASSUME TicketInv, AliveInv
  PROVE  /\ \A i \in DOMAIN back : Harmless(back[i])
         /\ \A i \in DOMAIN inbox : Harmless(inbox[i])
BY DEF AliveInv, SoundReplies, Harmless

(* A post of a sender that is no lookup, or that asks for bindings.        *)
LEMMA AlivePost ==
  ASSUME TicketInv, AliveInv, NEW from \in Requests \cup Lookups, from \notin UnderWay, NEW cmd,
         Post(from, cmd), UNCHANGED back,
         from \in Lookups => cmd.op \in {"aor_lookup", "rpc_aor_lookup"}
  PROVE  LookupsAsk' /\ SoundReplies(back)' /\ SoundReplies(inbox)'
<1>0. from \notin Froms(pipe) /\ from \notin Froms(inbox)
  BY DEF UnderWay
<1>1. CASE conn = "up"
  <2>1. PICK x : x.from = from /\ x.cmd = cmd /\ pipe' = Append(pipe, x) /\ inbox' = inbox
    BY <1>1 DEF Post
  <2>2. \A i \in DOMAIN pipe' : \/ i \in DOMAIN pipe /\ pipe'[i] = pipe[i]
                                \/ pipe'[i] = x
    BY <1>0, <2>1, OnceAppend DEF TicketInv, OneTicket
  <2> QED
    BY <2>1, <2>2 DEF AliveInv, LookupsAsk, SoundReplies
<1>2. CASE conn # "up"
  <2>1. PICK x : x.from = from /\ x.res = "failed" /\ inbox' = Append(inbox, x) /\ pipe' = pipe
    BY <1>2 DEF Post, Event
  <2>2. \A i \in DOMAIN inbox' : \/ i \in DOMAIN inbox /\ inbox'[i] = inbox[i]
                                 \/ inbox'[i] = x
    BY <1>0, <2>1, OnceAppend DEF TicketInv, OneTicket
  <2>3. SoundReplies(inbox)'
    BY <2>1, <2>2 DEF AliveInv, SoundReplies
  <2> QED
    BY <2>1, <2>3 DEF AliveInv, LookupsAsk, SoundReplies
<1> QED
  BY <1>1, <1>2

LEMMA AliveProcess ==
  ASSUME TicketInv, AliveInv, NEW n \in DOMAIN inbox, ProcessReply(n)
  PROVE  AliveInv'
<1>1. PICK e : e = inbox[n]
  OBVIOUS
<1>2. Harmless(e)
  BY <1>1, AliveQueues
<1>3. LookupsAsk' /\ SoundReplies(back)'
  <2>1. UNCHANGED <<pipe, back>>
    BY DEF ProcessReply, connVars
  <2> QED
    BY <2>1 DEF AliveInv, LookupsAsk, SoundReplies
<1>4. SoundReplies(inbox)'
  <2>0. inbox' = Without(inbox, n)
    BY DEF ProcessReply, Without
  <2>1. \A i \in DOMAIN inbox' : \E j \in DOMAIN inbox : inbox'[i] = inbox[j]
    BY <2>0, OnceRemove DEF TicketInv, OneTicket
  <2> QED
    BY <2>1 DEF AliveInv, SoundReplies
<1>5. /\ calls = [l \in Lookups |-> calls[l]]
      /\ \A l \in Lookups : calls[l] = [kind |-> calls[l].kind, st |-> calls[l].st,
                                        got |-> calls[l].got, dead |-> calls[l].dead]
  BY DEF TicketInv, WaitingLookups
<1>6. \/ ForLeg(e) /\ OnRedisReply(e)
      \/ e.from \in Requests /\ ProcessRedisRegisterReply(e)
      \/ e.from \in Lookups /\ ~ForLeg(e) /\ ProcessRedisRpcAorLookupReply(e)
  BY <1>1 DEF ProcessReply
<1> DEFINE Good(c) == /\ c.st = "idle" \/ c.kind # "leg" => c.dead = {}
                      /\ c.got \cap c.dead = {}
<1>7. \A l \in Lookups : Good(calls[l])
  BY DEF AliveInv, ResolvedWasAlive
<1>8. ASSUME NEW l \in Lookups PROVE Good(calls'[l])
  <2>1. CASE e.from \in Requests /\ ProcessRedisRegisterReply(e)
    BY <1>7, <2>1 DEF ProcessRedisRegisterReply
  <2>2. CASE ForLeg(e) /\ OnRedisReply(e)
    <3>1. CASE l # e.from
      <4>1. calls'[l] = calls[l]
        BY <1>5, <2>2, <3>1 DEF OnRedisReply
      <4> QED
        BY <1>7, <4>1
    <3>2. CASE l = e.from /\ e.res = "failed"
      <4>1. PICK d : d = calls[l] /\ d = [kind |-> d.kind, st |-> d.st, got |-> d.got, dead |-> d.dead]
        BY <1>5
      <4>2. calls'[l] = [d EXCEPT !.st = "refused"]
        BY <1>5, <2>2, <3>2, <4>1 DEF OnRedisReply
      <4>3. /\ calls'[l].kind = d.kind /\ calls'[l].st = "refused"
            /\ calls'[l].got = d.got /\ calls'[l].dead = d.dead
        BY <4>1, <4>2
      <4>4. Good(d)
        BY <1>7, <4>1
      <4> QED
        BY <4>3, <4>4
    <3>3. CASE l = e.from /\ e.res # "failed"
      <4>1. PICK d : d = calls[l] /\ d = [kind |-> d.kind, st |-> d.st, got |-> d.got, dead |-> d.dead]
        BY <1>5
      <4>2. PICK s, g, x : /\ s = IF Parsed(e.data.of) = {} THEN "not_registered" ELSE "done"
                           /\ g = Parsed(e.data.of) /\ x = e.data.dead
        OBVIOUS
      <4>3. calls'[l] = [d EXCEPT !.st = s, !.got = g, !.dead = x]
        BY <1>5, <2>2, <3>3, <4>1, <4>2 DEF OnRedisReply
      <4>4. calls'[l].kind = d.kind /\ calls'[l].st = s /\ calls'[l].got = g /\ calls'[l].dead = x
        BY <4>1, <4>3
      <4>5. d.kind = "leg" /\ s # "idle" /\ g \cap x = {}
        BY <1>2, <2>2, <3>3, <4>1, <4>2 DEF ForLeg, Harmless
      <4> QED
        BY <4>4, <4>5
    <3> QED
      BY <3>1, <3>2, <3>3
  <2>3. CASE e.from \in Lookups /\ ~ForLeg(e) /\ ProcessRedisRpcAorLookupReply(e)
    <3>1. CASE l # e.from
      <4>1. calls'[l] = calls[l]
        BY <1>5, <2>3, <3>1 DEF ProcessRedisRpcAorLookupReply
      <4> QED
        BY <1>7, <4>1
    <3>2. CASE l = e.from
      <4>1. PICK d : d = calls[l] /\ d = [kind |-> d.kind, st |-> d.st, got |-> d.got, dead |-> d.dead]
        BY <1>5
      <4>2. PICK g : g = {a.contact : a \in e.data.of}
        OBVIOUS
      <4>3. calls'[l] = [d EXCEPT !.st = "done", !.got = g]
        BY <1>5, <2>3, <3>2, <4>1, <4>2 DEF ProcessRedisRpcAorLookupReply
      <4>4. calls'[l].dead = d.dead
        BY <4>1, <4>3
      <4>5. d.dead = {}
        BY <1>7, <2>3, <3>2, <4>1 DEF ForLeg
      <4> QED
        BY <4>4, <4>5
    <3> QED
      BY <3>1, <3>2
  <2> QED
    BY <1>6, <2>1, <2>2, <2>3
<1> QED
  BY <1>3, <1>4, <1>8 DEF AliveInv, ResolvedWasAlive

LEMMA AliveResolve ==
  ASSUME TicketInv, AliveInv, NEW l \in Lookups, NEW kind \in {"leg", "rpc"}, NEW id, Resolve(l, kind, id)
  PROVE  AliveInv'
<1>1. calls[l].st = "idle" /\ UNCHANGED back
  BY DEF Resolve
<1>2. l \notin UnderWay
  BY <1>1 DEF TicketInv, WaitingLookups
<1>3. LookupsAsk' /\ SoundReplies(back)' /\ SoundReplies(inbox)'
  <2>1. CASE hash
    <3>1. PICK cmd : Post(l, cmd) /\ cmd.op \in {"aor_lookup", "rpc_aor_lookup"}
      BY <2>1 DEF Resolve
    <3> QED
      BY <1>1, <1>2, <3>1, AlivePost
  <2>2. CASE ~hash
    <3>1. UNCHANGED <<pipe, inbox>>
      BY <2>2 DEF Resolve
    <3> QED
      BY <1>1, <3>1 DEF AliveInv, LookupsAsk, SoundReplies
  <2> QED
    BY <2>1, <2>2
<1>4. /\ calls = [k \in Lookups |-> calls[k]]
      /\ calls[l] = [kind |-> calls[l].kind, st |-> calls[l].st,
                     got |-> calls[l].got, dead |-> calls[l].dead]
  BY DEF TicketInv, WaitingLookups
<1>5. calls[l].dead = {}
  BY <1>1 DEF AliveInv
<1>6. \A k \in Lookups : IF k = l THEN calls'[k].dead = {} ELSE calls'[k] = calls[k]
  <2>1. PICK s : s = IF hash THEN "waiting" ELSE "refused"
    OBVIOUS
  <2>2. calls' = [calls EXCEPT ![l].kind = kind, ![l].st = s]
    BY <2>1 DEF Resolve
  <2>3. calls'[l].dead = calls[l].dead
    BY <1>4, <2>2
  <2> QED
    BY <1>4, <1>5, <2>2, <2>3
<1> QED
  BY <1>3, <1>6 DEF AliveInv, ResolvedWasAlive

LEMMA AliveStep == TicketInv /\ AliveInv /\ [Next]_vars => AliveInv'
<1> SUFFICES ASSUME TicketInv, AliveInv, [Next]_vars PROVE AliveInv'
  OBVIOUS
<1>0. BudgetShape(budget) /\ OneTicket /\ ScriptFirst
  BY DEF TicketInv, UnansweredIsSeen, BudgetShape
<1>1. CASE OnConnect
  <2>1. /\ \A i \in DOMAIN pipe' : pipe'[i].from = "script"
        /\ UNCHANGED <<back, inbox, calls>>
    BY <1>1 DEF OnConnect
  <2>2. "script" \notin Lookups
    BY RegistrarAssumption
  <2> QED
    BY <2>1, <2>2, AliveQueues, HarmlessStep
<1>2. CASE OnDisconnect
  <2>1. PICK f : f = [i \in DOMAIN Waiting |-> Event(Waiting[i], "failed", NoData)]
    OBVIOUS
  <2>2. /\ Once(f) /\ Froms(f) \subseteq (Froms(pipe) \cup Froms(back)) \ {"script"}
        /\ \A i \in DOMAIN f : f[i].res = "failed"
    BY <1>0, <2>1, WaitingOnce
  <2>3. Froms(inbox) \cap Froms(f) = {}
    BY <1>0, <2>2 DEF OneTicket
  <2>4. inbox' = inbox \o f /\ pipe' = << >> /\ back' = << >> /\ calls' = calls
    BY <1>2, <2>1 DEF OnDisconnect
  <2>5. \A i \in DOMAIN inbox' : \/ \E j \in DOMAIN inbox : inbox'[i] = inbox[j]
                                 \/ \E j \in DOMAIN f : inbox'[i] = f[j]
    BY <1>0, <2>2, <2>3, <2>4, OnceConcat DEF OneTicket
  <2>6. \A i \in DOMAIN inbox' : Harmless(inbox'[i])
    BY <2>2, <2>5, AliveQueues DEF Harmless
  <2>7. DOMAIN pipe' = {} /\ DOMAIN back' = {}
    BY <2>4, NoneIsSeq
  <2> QED
    BY <2>4, <2>6, <2>7, HarmlessStep
<1>3. CASE Execute
  <2>1. PICK e : back' = Append(back, e) /\ e.from = pipe[1].from /\ Harmless(e)
    BY <1>3, ExecutedLookup
  <2>2. pipe # << >> /\ pipe' = Tail(pipe) /\ inbox' = inbox /\ calls' = calls
    BY <1>3 DEF Execute
  <2>3. 1 \in DOMAIN pipe /\ \A i \in DOMAIN pipe' : i + 1 \in DOMAIN pipe /\ pipe'[i] = pipe[i + 1]
    BY <1>0, <2>2, OnceTail DEF OneTicket
  <2>4. e.from \notin Froms(back)
    BY <1>0, <2>1, <2>3 DEF OneTicket, Froms
  <2>5. \A i \in DOMAIN back' : \/ i \in DOMAIN back /\ back'[i] = back[i]
                                \/ back'[i] = e
    BY <1>0, <2>1, <2>4, OnceAppend DEF OneTicket
  <2>6. \A i \in DOMAIN back' : Harmless(back'[i])
    BY <2>1, <2>5, AliveQueues
  <2>7. \A i \in DOMAIN inbox' : Harmless(inbox'[i])
    BY <2>2, AliveQueues
  <2> QED
    BY <2>2, <2>3, <2>6, <2>7, HarmlessStep
<1>4. CASE ReadReply
  <2>1. back # << >> /\ back' = Tail(back) /\ pipe' = pipe /\ calls' = calls
    BY <1>4 DEF ReadReply
  <2>2. 1 \in DOMAIN back /\ \A i \in DOMAIN back' : i + 1 \in DOMAIN back /\ back'[i] = back[i + 1]
    BY <1>0, <2>1, OnceTail DEF OneTicket
  <2>3. \A i \in DOMAIN inbox' : \/ i \in DOMAIN inbox /\ inbox'[i] = inbox[i]
                                 \/ inbox'[i] = back[1]
    <3>1. CASE inbox' = inbox
      BY <3>1
    <3>2. CASE inbox' = Append(inbox, back[1])
      <4>1. back[1].from \notin Froms(inbox)
        BY <1>0, <2>2 DEF OneTicket, Froms
      <4> QED
        BY <1>0, <3>2, <4>1, OnceAppend DEF OneTicket
    <3> QED
      BY <1>4, <3>1, <3>2 DEF ReadReply
  <2>4. \A i \in DOMAIN inbox' : Harmless(inbox'[i])
    BY <2>2, <2>3, AliveQueues
  <2>5. \A i \in DOMAIN back' : Harmless(back'[i])
    BY <2>2, AliveQueues
  <2> QED
    BY <2>1, <2>4, <2>5, HarmlessStep
<1>5. ASSUME NEW r \in Requests, NEW m, Receive(r, m) PROVE AliveInv'
  <2>1. r \notin UnderWay /\ r \notin Lookups /\ UNCHANGED <<back, calls>>
    BY <1>5, RegistrarAssumption DEF Receive, TicketInv, UnansweredIsSeen
  <2>2. (\E cmd : Post(r, cmd)) \/ UNCHANGED <<pipe, inbox>>
    BY <1>5 DEF Receive
  <2>3. CASE UNCHANGED <<pipe, inbox>>
    BY <2>1, <2>3 DEF AliveInv, LookupsAsk, SoundReplies, ResolvedWasAlive
  <2>4. ASSUME NEW cmd, Post(r, cmd) PROVE AliveInv'
    <3>1. LookupsAsk' /\ SoundReplies(back)' /\ SoundReplies(inbox)'
      BY <2>1, <2>4, AlivePost
    <3> QED
      BY <2>1, <3>1 DEF AliveInv, ResolvedWasAlive
  <2> QED
    BY <2>2, <2>3, <2>4
<1>6. ASSUME NEW n \in DOMAIN inbox, ProcessReply(n) PROVE AliveInv'
  BY <1>6, AliveProcess
<1>7. ASSUME NEW l \in Lookups, NEW kind \in {"leg", "rpc"}, NEW id, Resolve(l, kind, id) PROVE AliveInv'
  BY <1>7, AliveResolve
<1>8. CASE UNCHANGED <<connVars, inbox, answers, calls>>
  BY <1>8 DEF connVars, AliveInv, LookupsAsk, SoundReplies, ResolvedWasAlive
<1> QED
  BY <1>0, <1>1, <1>2, <1>3, <1>4, <1>5, <1>6, <1>7, <1>8, OtherSteps

(* No lookup, of a call leg or of the RPC, ends with a contact whose key   *)
(* was gone when the script ran, although aor_lookup.lua returns it: the   *)
(* reply parser drops what has no path, and every reply belongs to the     *)
(* lookup that takes it (aor_lookup_reply::parse).                         *)
THEOREM LookupsAreAlive == Spec => []ResolvedWasAlive
<1>1. Init => AliveInv
  <2> SUFFICES ASSUME Init PROVE AliveInv
    OBVIOUS
  <2>1. DOMAIN pipe = {} /\ DOMAIN back = {} /\ DOMAIN inbox = {}
    BY NoneIsSeq DEF Init
  <2>2. \A l \in Lookups : calls[l].dead = {}
    BY DEF Init
  <2> QED
    BY <2>1, <2>2 DEF AliveInv, LookupsAsk, SoundReplies, ResolvedWasAlive
<1>2. AliveInv => ResolvedWasAlive
  BY DEF AliveInv
<1> QED
  BY <1>1, <1>2, TicketInit, TicketStep, AliveStep, PTL DEF Spec
=============================================================================
