---------------------------- MODULE DbConfig_proof ---------------------------
(***************************************************************************)
(* Theorems about DbConfig, for any tables and contents, any number of     *)
(* connections, changes and failed queries: a synchronous query is woken   *)
(* by its own answer, a remembered state number stands for data as new     *)
(* that was loaded, is under way or was lost with its own load, and the    *)
(* registrar client mirrors the last load.                                 *)
(***************************************************************************)
EXTENDS DbConfig, SequenceTheorems, WellFoundedInduction, TLAPS

(* The tokens queries and answers carry.                                   *)
Tokens == Keys \cup {"check_states", "none"} \cup {SyncTokens[b] : b \in 1..3}

Answer == [token : Tokens, res : {"result", "error"},
           vers : [Tables -> Nat], data : Data \cup {<<>>}]

Numbers == Nat \cup {-1}

TypeOK ==
  /\ db \in [Tables -> [ver : Nat, data : Data]]
  /\ pool \in Nat \ {0}
  /\ pgq \in Seq(Tokens) /\ conns \in Seq(Answer) /\ queue \in Seq(Answer)
  /\ main \in {"query", "waiting", "linked", "configured", "failed"} /\ boot \in 1..3
  /\ cond \in [state : {"waiting", "result", "error"}, token : Tokens]
  /\ db_cfg_states \in [Tables -> Numbers]
  /\ mem = [k \in Keys |-> mem[k]]
  /\ loaded \in [Keys -> Numbers] /\ newest \in [Keys -> Numbers] /\ lost \in [Keys -> Numbers]
  /\ changes \in Nat /\ faults \in Nat

(* While onLoad runs there is its query or nothing.                        *)
Nowhere == pgq = <<>> /\ conns = <<>> /\ queue = <<>>
Single(s) == Len(s) = 1 /\ s[1].token = SyncTokens[boot]
OneQuery ==
  /\ main = "query" => Nowhere
  /\ main = "waiting" =>
       \/ /\ cond.state = "waiting"
          /\ \/ pgq = <<SyncTokens[boot]>> /\ conns = <<>> /\ queue = <<>>
             \/ pgq = <<>> /\ Single(conns) /\ queue = <<>>
             \/ pgq = <<>> /\ conns = <<>> /\ Single(queue)
       \/ Nowhere /\ cond.state # "waiting" /\ cond.token = SyncTokens[boot]

(* The inductive invariant of the start-up.                                *)
SyncInv == TypeOK /\ OneQuery

(* Numbers that are remembered or on their way are those of the database   *)
(* now or before.                                                          *)
Past(s) == \A i \in DOMAIN s : \A t \in Tables : s[i].vers[t] <= db[t].ver
Bounded == (\A t \in Tables : db_cfg_states[t] <= db[t].ver) /\ Past(conns) /\ Past(queue)

(* A load under way that makes up for the number that is remembered: one   *)
(* not yet executed, one that found that number or a later one, or one     *)
(* that failed.                                                            *)
Number(k) == db_cfg_states[TableOf(k)]
Brings(s, k) ==
  \E i \in DOMAIN s : /\ s[i].token = k
                      /\ s[i].res = "result" => s[i].vers[TableOf(k)] >= Number(k)
Coming(k) == (\E i \in DOMAIN pgq : pgq[i] = k) \/ Brings(conns, k) \/ Brings(queue, k)

Covered(k) == newest[k] >= Number(k) \/ lost[k] >= Number(k) \/ Coming(k)

NothingYet == ~Configured => \A t \in Tables : db_cfg_states[t] = -1

(* The inductive invariant of the loads.                                   *)
LoadInv == TypeOK /\ Bounded /\ NothingYet /\ \A k \in Keys : Covered(k)

UniqueIds(rows) == \A r, q \in rows : r.id = q.id => r = q

(* The data of an answer is that of a table.                               *)
OfTables(s) ==
  \A i \in DOMAIN s : s[i].res = "result" /\ s[i].token \in Keys => s[i].data \in Data
AnswersAreData == OfTables(conns) /\ OfTables(queue)

(* The inductive invariant of the registrar client.                        *)
MirrorInv ==
  /\ TypeOK /\ AnswersAreData /\ ClientMirrors
  /\ "registrations" \in Keys => UniqueIds(mem["registrations"])

-----------------------------------------------------------------------------
(* Induction over the first numbers, for a set.                            *)
LEMMA Reaches ==
  ASSUME NEW n \in Nat, NEW T \in SUBSET (0..n), 0 \in T,
         \A m \in T : m < n => m + 1 \in T
  PROVE  T = 0..n
<1> DEFINE R == {ss \in Nat \X Nat : ss[1] < ss[2]}
           U == (0..n) \ T
<1>1. SUFFICES ASSUME U # {} PROVE FALSE
  OBVIOUS
<1>2. IsWellFoundedOn(R, Nat) /\ U \subseteq Nat
  BY NatLessThanWellFounded DEF OpToRel
<1>3. PICK x \in U : \A y \in U : ~(<<y, x>> \in R)
  <2> HIDE DEF R, U
  <2> QED
    BY <1>1, <1>2, WFMin
<1>4. x \in 0..n /\ x \notin T /\ x # 0
  BY <1>3
<1>5. x - 1 \in 0..n /\ x - 1 < x /\ x - 1 < n /\ (x - 1) + 1 = x
  BY <1>4
<1>6. x - 1 \in T
  <2>1. SUFFICES ASSUME x - 1 \notin T PROVE FALSE
    OBVIOUS
  <2>2. PICK z \in Nat : z = x - 1
    BY <1>5
  <2>3. z \in U /\ x \in Nat /\ z < x
    BY <1>4, <1>5, <2>1, <2>2
  <2>4. <<z, x>> \in R
    BY <2>3
  <2> QED
    BY <1>3, <2>3, <2>4
<1> QED
  BY <1>4, <1>5, <1>6

LEMMA OneElement ==
  ASSUME NEW S, NEW a \in S
  PROVE  <<a>> \in Seq(S) /\ Len(<<a>>) = 1 /\ <<a>>[1] = a
OBVIOUS

LEMMA TwoAndOne ==
  ASSUME NEW S, NEW a \in S, NEW b \in S, NEW c \in S
  PROVE  <<a, b>> \o <<c>> \in Seq(S) /\ Len(<<a, b>> \o <<c>>) = 3
<1>1. <<a, b>> \in Seq(S) /\ <<c>> \in Seq(S) /\ Len(<<a, b>>) = 2 /\ Len(<<c>>) = 1
  OBVIOUS
<1> QED
  BY <1>1, ConcatProperties

LEMMA Narrowed ==
  ASSUME NEW S, NEW s \in Seq(S), NEW T, \A i \in DOMAIN s : s[i] \in T
  PROVE  s \in Seq(T)
<1>1. Len(s) \in Nat /\ s \in [1..Len(s) -> S] /\ DOMAIN s = 1..Len(s)
  BY LenProperties
<1>2. s \in [1..Len(s) -> T]
  BY <1>1
<1> QED
  BY <1>1, <1>2, SeqDef

LEMMA KeysAre ==
  /\ \A t \in Tables : SubKeys(t) \in Seq(Keys) /\ KeysOf(t) \subseteq Keys
  /\ \A k \in Keys : TableOf(k) \in Tables /\ k \in KeysOf(TableOf(k))
  /\ \A t \in Tables : \A k \in KeysOf(t) : TableOf(k) = t
<1>1. \A t \in Tables : KeysOf(t) \subseteq Keys
  BY DEF Keys
<1>2. ASSUME NEW t \in Tables PROVE SubKeys(t) \in Seq(Keys)
  <2>1. \A i \in DOMAIN SubKeys(t) : SubKeys(t)[i] \in Keys
    BY <1>1 DEF KeysOf
  <2>2. CASE t = "translations"
    <3>1. TranslationKeys \in Seq(STRING) /\ SubKeys(t) = TranslationKeys
      BY <2>2, DbAssumption DEF SubKeys
    <3>2. PICK s : s = TranslationKeys
      OBVIOUS
    <3>3. \A i \in DOMAIN s : s[i] \in Keys
      BY <2>1, <3>1, <3>2
    <3>4. s \in Seq(STRING)
      BY <3>1, <3>2
    <3>5. s \in Seq(Keys)
      BY ONLY <3>3, <3>4, Narrowed
    <3> QED
      BY <3>1, <3>2, <3>5
  <2>3. CASE t # "translations"
    <3>1. SubKeys(t) = <<t>>
      BY <2>3 DEF SubKeys
    <3>2. 1 \in DOMAIN <<t>> /\ <<t>>[1] = t
      OBVIOUS
    <3>3. t \in Keys
      BY <2>1, <3>1, <3>2
    <3> QED
      BY <3>1, <3>3, OneElement
  <2> QED
    BY <2>2, <2>3
<1>6. \A k \in Keys : TableOf(k) \in Tables /\ k \in KeysOf(TableOf(k))
  <2> SUFFICES ASSUME NEW k \in Keys PROVE TableOf(k) \in Tables /\ k \in KeysOf(TableOf(k))
    OBVIOUS
  <2>1. \E t \in Tables : k \in KeysOf(t)
    BY DEF Keys
  <2> QED
    BY <2>1 DEF TableOf
<1>7. \A t \in Tables : \A k \in KeysOf(t) : TableOf(k) = t
  BY <1>1, <1>6, KeysAssumption
<1> QED
  BY <1>1, <1>2, <1>6, <1>7

LEMMA SyncAre ==
  /\ Len(SyncTokens) = 3
  /\ \A b \in 1..3 : SyncTokens[b] \in Tokens /\ SyncTokens[b] \notin Keys
<1>1. Len(SyncTokens) = 3 /\ DOMAIN SyncTokens = 1..3
  <2>1. PICK a, b, c : /\ a = "load_interface_out" /\ b = "load_interface_in"
                       /\ c = "load_resource_types"
    BY Zenon
  <2>2. SyncTokens = <<a, b>> \o <<c>>
    BY <2>1 DEF SyncTokens, RouterTokens, ControlTokens
  <2>3. PICK S : S = {a, b, c}
    OBVIOUS
  <2>4. a \in S /\ b \in S /\ c \in S
    BY <2>3
  <2>5. <<a, b>> \o <<c>> \in Seq(S) /\ Len(<<a, b>> \o <<c>>) = 3
    BY ONLY <2>4, TwoAndOne
  <2>6. SyncTokens \in Seq(S) /\ Len(SyncTokens) = 3
    BY <2>2, <2>5
  <2> QED
    BY <2>6, LenProperties
<1>2. \A b \in 1..3 : SyncTokens[b] \in Tokens
  BY DEF Tokens
<1>3. \A b \in 1..3 : SyncTokens[b] \notin Keys
  BY <1>1, KeysAssumption
<1> QED
  BY <1>1, <1>2, <1>3

(* The queries of a reload: every table with a greater number gets its own *)
LEMMA ReloadsAll ==
  ASSUME NEW ver \in [Tables -> Nat], TypeOK
  PROVE  /\ Reloads(ver) \in Seq(Keys)
         /\ \A t \in Tables : ver[t] > db_cfg_states[t] =>
              \A k \in KeysOf(t) : \E y \in DOMAIN Reloads(ver) : Reloads(ver)[y] = k
<1> DEFINE n == Len(TableOrder)
           step(i) == IF ver[TableOrder[i]] > db_cfg_states[TableOrder[i]]
                      THEN SubKeys(TableOrder[i]) ELSE <<>>
           Def(f) == [i \in 0..n |-> IF i = 0 THEN <<>> ELSE f[i - 1] \o step(i)]
<1>0. n \in Nat /\ \A i \in 1..n : TableOrder[i] \in Tables
  BY DbAssumption DEF Tables
<1>1. \A i \in 1..n : step(i) \in Seq(Keys)
  BY <1>0, KeysAre, EmptySeq
<1>2. <<>> \in Seq(Keys)
  BY EmptySeq
<1> DEFINE Upto(m) == \E g \in [0..m -> Seq(Keys)] :
                        \A i \in 0..m : g[i] = IF i = 0 THEN <<>> ELSE g[i - 1] \o step(i)
<1> HIDE DEF n, step
<1>3. Upto(n)
  <2> DEFINE T == {m \in 0..n : Upto(m)}
  <2>1. Upto(0)
    <3>1. PICK e \in Seq(Keys) : e = <<>>
      BY <1>2
    <3>2. PICK g : g = [i \in 0..0 |-> e]
      OBVIOUS
    <3>3. g \in [0..0 -> Seq(Keys)] /\ \A i \in 0..0 : i = 0 /\ g[i] = e
      BY <3>2
    <3> QED
      BY <3>1, <3>3
  <2>2. ASSUME NEW m \in 0..n, Upto(m), m < n PROVE Upto(m + 1)
    <3>1. PICK g \in [0..m -> Seq(Keys)] :
            \A i \in 0..m : g[i] = IF i = 0 THEN <<>> ELSE g[i - 1] \o step(i)
      BY <2>2
    <3>2. m \in Nat /\ m + 1 \in 1..n /\ m \in 0..m
      BY <1>0, <2>2
    <3>3. PICK s \in Seq(Keys) : s = g[m] \o step(m + 1)
      <4>1. g[m] \in Seq(Keys) /\ step(m + 1) \in Seq(Keys)
        BY <1>1, <3>2
      <4> QED
        BY <4>1, ConcatProperties
    <3>4. PICK h : h = [i \in 0..(m + 1) |-> IF i = m + 1 THEN s ELSE g[i]]
      OBVIOUS
    <3>5. \A i \in 0..(m + 1) : i # m + 1 => i \in 0..m
      BY <3>2
    <3>6. h \in [0..(m + 1) -> Seq(Keys)]
      BY <3>3, <3>4, <3>5
    <3>7. ASSUME NEW i \in 0..(m + 1)
          PROVE  h[i] = IF i = 0 THEN <<>> ELSE h[i - 1] \o step(i)
      <4>1. CASE i = m + 1
        <5>1. i # 0 /\ i - 1 = m /\ m \in 0..(m + 1) /\ m # m + 1
          BY <3>2, <4>1
        <5> QED
          BY <3>3, <3>4, <4>1, <5>1
      <4>2. CASE i # m + 1
        <5>1. i \in 0..m /\ h[i] = g[i]
          BY <3>4, <3>5, <4>2
        <5>2. i # 0 => i - 1 \in 0..(m + 1) /\ i - 1 # m + 1
          BY <3>2, <5>1
        <5>3. i # 0 => h[i - 1] = g[i - 1]
          BY <3>4, <5>2
        <5> QED
          BY <3>1, <5>1, <5>3
      <4> QED
        BY <4>1, <4>2
    <3> QED
      BY <3>6, <3>7
  <2>3. T = 0..n
    <3>1. T \in SUBSET (0..n) /\ 0 \in T
      BY <1>0, <2>1
    <3>2. \A m \in T : m < n => m + 1 \in T
      <4> SUFFICES ASSUME NEW m \in 0..n, Upto(m), m < n PROVE m + 1 \in T
        OBVIOUS
      <4>1. m + 1 \in 0..n
        BY <1>0
      <4> HIDE DEF Upto
      <4>2. Upto(m + 1)
        BY <2>2
      <4> QED
        BY <4>1, <4>2
    <3> HIDE DEF T
    <3> QED
      BY <1>0, <3>1, <3>2, Reaches
  <2>4. n \in 0..n
    BY <1>0
  <2> HIDE DEF Upto
  <2> QED
    BY <2>3, <2>4
<1> DEFINE q == CHOOSE f : f = Def(f)
<1>4. q = Def(q)
  <2>1. PICK g \in [0..n -> Seq(Keys)] :
          \A i \in 0..n : g[i] = IF i = 0 THEN <<>> ELSE g[i - 1] \o step(i)
    BY <1>3
  <2>2. g = Def(g)
    BY <2>1
  <2> HIDE DEF Def
  <2> QED
    BY <2>2
<1>5. Reloads(ver) = q[n]
  BY DEF Reloads, n, step
<1>6. \A i \in 0..n : q[i] = IF i = 0 THEN <<>> ELSE q[i - 1] \o step(i)
  <2> HIDE DEF q
  <2> QED
    BY <1>4
<1> HIDE DEF q, Def, Upto
<1> DEFINE Has(m) == /\ q[m] \in Seq(Keys)
                     /\ \A i \in 1..m : \A x \in DOMAIN step(i) :
                          \E y \in DOMAIN q[m] : q[m][y] = step(i)[x]
           T == {m \in 0..n : Has(m)}
<1>7. Has(0)
  <2>1. q[0] = <<>> /\ 1..0 = {}
    BY <1>0, <1>6
  <2> QED
    BY <1>2, <2>1
<1>8. ASSUME NEW m \in 0..n, Has(m), m < n PROVE Has(m + 1)
  <2>1. m \in Nat /\ m + 1 \in 1..n /\ m + 1 \in 0..n /\ (m + 1) - 1 = m /\ m + 1 # 0
    BY <1>0, <1>8
  <2>2. PICK a \in Seq(Keys) : a = q[m]
    BY <1>8
  <2>3. PICK b \in Seq(Keys) : b = step(m + 1)
    BY <1>1, <2>1
  <2>4. q[m + 1] = a \o b
    BY <1>6, <2>1, <2>2, <2>3
  <2>5. /\ a \o b \in Seq(Keys) /\ Len(a \o b) = Len(a) + Len(b)
        /\ \A i \in 1..(Len(a) + Len(b)) : (a \o b)[i] = IF i <= Len(a) THEN a[i] ELSE b[i - Len(a)]
    BY ConcatProperties
  <2>6. PICK c : c = a \o b
    OBVIOUS
  <2>7. Len(a) \in Nat /\ Len(b) \in Nat /\ DOMAIN a = 1..Len(a) /\ DOMAIN b = 1..Len(b)
        /\ DOMAIN c = 1..(Len(a) + Len(b))
    BY <2>5, <2>6, LenProperties
  <2>8. \A y \in DOMAIN a : y \in DOMAIN c /\ c[y] = a[y]
    <3>1. \A y \in 1..Len(a) : y \in 1..(Len(a) + Len(b)) /\ y <= Len(a)
      BY <2>7
    <3> QED
      BY <2>5, <2>6, <2>7, <3>1
  <2>9. \A y \in DOMAIN b : Len(a) + y \in DOMAIN c /\ c[Len(a) + y] = b[y]
    <3>1. \A y \in 1..Len(b) : /\ Len(a) + y \in 1..(Len(a) + Len(b)) /\ ~(Len(a) + y <= Len(a))
                               /\ (Len(a) + y) - Len(a) = y
      BY <2>7
    <3> QED
      BY <2>5, <2>6, <2>7, <3>1
  <2>10. ASSUME NEW i \in 1..(m + 1), NEW x \in DOMAIN step(i)
         PROVE  \E y \in DOMAIN c : c[y] = step(i)[x]
    <3>1. CASE i = m + 1
      BY <2>3, <2>9, <2>10, <3>1
    <3>2. CASE i # m + 1
      <4>1. i \in 1..m
        BY <2>1, <3>2
      <4>2. PICK y \in DOMAIN a : a[y] = step(i)[x]
        BY <1>8, <2>2, <2>10, <4>1
      <4> QED
        BY <2>8, <4>2
    <3> QED
      BY <3>1, <3>2
  <2> QED
    BY <2>4, <2>5, <2>6, <2>10
<1>9. T = 0..n
  <2>1. T \in SUBSET (0..n) /\ 0 \in T
    BY <1>0, <1>7
  <2>2. \A m \in T : m < n => m + 1 \in T
    <3> SUFFICES ASSUME NEW m \in 0..n, Has(m), m < n PROVE m + 1 \in T
      OBVIOUS
    <3>1. m + 1 \in 0..n
      BY <1>0
    <3> HIDE DEF Has
    <3>2. Has(m + 1)
      BY <1>8
    <3> QED
      BY <3>1, <3>2
  <2> HIDE DEF T
  <2> QED
    BY <1>0, <2>1, <2>2, Reaches
<1>10. Has(n)
  BY <1>0, <1>9
<1>11. ASSUME NEW t \in Tables, ver[t] > db_cfg_states[t], NEW k \in KeysOf(t)
       PROVE  \E y \in DOMAIN q[n] : q[n][y] = k
  <2>1. PICK i \in 1..n : t = TableOrder[i]
    BY DbAssumption DEF Tables, n
  <2>2. step(i) = SubKeys(t)
    BY <1>11, <2>1 DEF step
  <2>3. PICK x \in DOMAIN SubKeys(t) : k = SubKeys(t)[x]
    BY DEF KeysOf
  <2> QED
    BY <1>10, <2>2, <2>3
<1> QED
  BY <1>5, <1>10, <1>11


-----------------------------------------------------------------------------
(* The queues: an element added behind, the first or any other taken out.  *)
LEMMA AppendIs ==
  ASSUME NEW S, NEW s \in Seq(S), NEW x \in S
  PROVE  /\ Append(s, x) \in Seq(S) /\ Len(Append(s, x)) = Len(s) + 1
         /\ DOMAIN Append(s, x) = 1..(Len(s) + 1)
         /\ \A j \in DOMAIN s : j \in DOMAIN Append(s, x) /\ Append(s, x)[j] = s[j]
         /\ Append(s, x)[Len(s) + 1] = x /\ Len(s) + 1 \in DOMAIN Append(s, x)
         /\ \A j \in DOMAIN Append(s, x) : j \in DOMAIN s \/ j = Len(s) + 1
         /\ DOMAIN s = 1..Len(s) /\ Len(s) \in Nat
OBVIOUS

LEMMA TailIs ==
  ASSUME NEW S, NEW s \in Seq(S), s # <<>>
  PROVE  /\ Tail(s) \in Seq(S) /\ Len(Tail(s)) = Len(s) - 1 /\ Len(s) \in Nat \ {0}
         /\ Head(s) = s[1] /\ Head(s) \in S /\ 1 \in DOMAIN s
         /\ \A j \in DOMAIN Tail(s) : j + 1 \in DOMAIN s /\ Tail(s)[j] = s[j + 1]
         /\ \A j \in DOMAIN s : j # 1 => j - 1 \in DOMAIN Tail(s) /\ Tail(s)[j - 1] = s[j]
OBVIOUS

LEMMA WithoutIs ==
  ASSUME NEW S, NEW s \in Seq(S), NEW i \in Nat \ {0}, i <= Len(s)
  PROVE  /\ Without(s, i) \in Seq(S) /\ Len(Without(s, i)) = Len(s) - 1
         /\ s[i] \in S /\ i \in DOMAIN s
         /\ \A j \in DOMAIN s : j # i => \E y \in DOMAIN Without(s, i) : Without(s, i)[y] = s[j]
         /\ \A y \in DOMAIN Without(s, i) : \E j \in DOMAIN s : Without(s, i)[y] = s[j]
<1>1. Len(s) \in Nat \ {0} /\ DOMAIN s = 1..Len(s) /\ \A j \in 1..Len(s) : s[j] \in S
  OBVIOUS
<1>2. PICK w : w = Without(s, i)
  OBVIOUS
<1>3. DOMAIN w = 1..(Len(s) - 1) /\ Len(s) - 1 \in Nat
  BY <1>1, <1>2 DEF Without
<1>4. \A j \in 1..(Len(s) - 1) : w[j] = IF j < i THEN s[j] ELSE s[j + 1]
  BY <1>2 DEF Without
<1>5. \A j \in 1..(Len(s) - 1) : j \in 1..Len(s) /\ j + 1 \in 1..Len(s)
  BY <1>1
<1>6. \A j \in 1..(Len(s) - 1) : w[j] \in S
  BY <1>1, <1>4, <1>5
<1>7. w \in [1..(Len(s) - 1) -> S]
  BY <1>2, <1>3, <1>6 DEF Without
<1>8. w \in Seq(S) /\ Len(w) = Len(s) - 1
  <2>1. w \in Seq(S)
    BY <1>3, <1>7, SeqDef
  <2> QED
    BY <1>3, <2>1, LenProperties
<1>9. ASSUME NEW j \in 1..Len(s), j # i
      PROVE  \E y \in DOMAIN w : w[y] = s[j]
  <2>1. CASE j < i
    <3>1. j \in 1..(Len(s) - 1)
      BY <1>1, <2>1
    <3> QED
      BY <1>3, <1>4, <2>1, <3>1
  <2>2. CASE j > i
    <3>1. j - 1 \in 1..(Len(s) - 1) /\ ~(j - 1 < i) /\ (j - 1) + 1 = j
      BY <1>1, <2>2
    <3> QED
      BY <1>3, <1>4, <3>1
  <2> QED
    BY <1>9, <2>1, <2>2
<1>10. s[i] \in S /\ i \in DOMAIN s
  BY <1>1
<1>11. \A y \in DOMAIN w : \E j \in DOMAIN s : w[y] = s[j]
  BY <1>1, <1>3, <1>4, <1>5
<1> QED
  BY <1>1, <1>2, <1>8, <1>9, <1>10, <1>11

LEMMA ResultIs ==
  ASSUME TypeOK, NEW tok \in Tokens
  PROVE  /\ Result(tok) \in Answer
         /\ Result(tok).token = tok /\ Result(tok).res = "result"
         /\ \A t \in Tables : Result(tok).vers[t] <= db[t].ver
         /\ tok \in Keys => /\ Result(tok).data \in Data
                            /\ Result(tok).vers[TableOf(tok)] = db[TableOf(tok)].ver
<1>1. PICK v : v = [t \in Tables |-> IF tok = "check_states" \/ tok \in KeysOf(t)
                                     THEN db[t].ver ELSE 0]
  OBVIOUS
<1>2. PICK d : d = IF tok \in Keys THEN db[TableOf(tok)].data ELSE <<>>
  OBVIOUS
<1>3. PICK r : r = "result"
  OBVIOUS
<1>4. Result(tok) = [token |-> tok, res |-> r, vers |-> v, data |-> d]
  BY <1>1, <1>2, <1>3 DEF Result
<1>5. /\ v \in [Tables -> Nat] /\ \A t \in Tables : v[t] <= db[t].ver
      /\ tok \in Keys => v[TableOf(tok)] = db[TableOf(tok)].ver
  <2>1. \A t \in Tables : db[t].ver \in Nat
    BY DEF TypeOK
  <2>2. v \in [Tables -> Nat] /\ \A t \in Tables : v[t] = db[t].ver \/ v[t] = 0
    BY <1>1, <2>1
  <2>3. tok \in Keys => v[TableOf(tok)] = db[TableOf(tok)].ver
    BY <1>1, KeysAre
  <2> QED
    BY <2>1, <2>2, <2>3
<1>6. tok \in Keys => d \in Data
  BY <1>2, KeysAre DEF TypeOK
<1>7. d \in Data \cup {<<>>}
  BY <1>2, <1>6
<1>8. r \in {"result", "error"}
  BY <1>3
<1>9. [token |-> tok, res |-> r, vers |-> v, data |-> d] \in Answer
  BY <1>5, <1>7, <1>8 DEF Answer
<1> QED
  BY <1>3, <1>4, <1>5, <1>6, <1>9

LEMMA FailureIs ==
  ASSUME NEW tok \in Tokens
  PROVE  /\ Failure(tok) \in Answer
         /\ Failure(tok).token = tok /\ Failure(tok).res # "result"
         /\ \A t \in Tables : Failure(tok).vers[t] = 0
<1>1. PICK v : v = [t \in Tables |-> 0]
  OBVIOUS
<1>2. PICK d : d = <<>>
  OBVIOUS
<1>3. PICK r : r = "error"
  OBVIOUS
<1>4. Failure(tok) = [token |-> tok, res |-> r, vers |-> v, data |-> d]
  BY <1>1, <1>2, <1>3 DEF Failure
<1>5. v \in [Tables -> Nat] /\ d \in Data \cup {<<>>} /\ \A t \in Tables : v[t] = 0
  BY <1>1, <1>2
<1>6. r \in {"result", "error"} /\ r # "result"
  BY <1>3
<1>7. [token |-> tok, res |-> r, vers |-> v, data |-> d] \in Answer
  BY <1>5, <1>6 DEF Answer
<1> QED
  BY <1>4, <1>5, <1>6, <1>7

(* A query is executed: what it found waits on its connection.             *)
LEMMA ExecuteStep ==
  ASSUME TypeOK, NEW i \in 1..pool, PgExecute(i)
  PROVE  /\ i \in Nat \ {0} /\ i <= Len(pgq) /\ pgq[i] \in Tokens
         /\ pgq' = Without(pgq, i) /\ faults' \in Nat
         /\ UNCHANGED <<dbVars, queue, bootVars, memVars>>
         /\ \E e \in Answer :
              /\ conns' = Append(conns, e) /\ e.token = pgq[i]
              /\ \A t \in Tables : e.vers[t] <= db[t].ver
              /\ e.res = "result" /\ e.token \in Keys =>
                   e.data \in Data /\ e.vers[TableOf(e.token)] = db[TableOf(e.token)].ver
<1>1. i \in Nat \ {0} /\ i <= Len(pgq)
  BY DEF PgExecute
<1>2. pgq[i] \in Tokens
  BY <1>1, WithoutIs DEF TypeOK
<1>3. pgq' = Without(pgq, i) /\ UNCHANGED <<dbVars, queue, bootVars, memVars>>
  BY DEF PgExecute
<1>4. faults' \in Nat
  BY DEF PgExecute, TypeOK
<1> DEFINE Fits(e) == /\ conns' = Append(conns, e) /\ e.token = pgq[i]
                      /\ \A t \in Tables : e.vers[t] <= db[t].ver
                      /\ e.res = "result" /\ e.token \in Keys =>
                           e.data \in Data /\ e.vers[TableOf(e.token)] = db[TableOf(e.token)].ver
<1>5. ASSUME conns' = Append(conns, Result(pgq[i])) PROVE \E e \in Answer : Fits(e)
  <2>1. PICK e \in Answer : e = Result(pgq[i])
    BY <1>2, ResultIs
  <2>2. Fits(e)
    BY <1>2, <1>5, <2>1, ResultIs
  <2> QED
    BY <2>2
<1>6. ASSUME conns' = Append(conns, Failure(pgq[i]))
      PROVE  \E e \in Answer : Fits(e)
  <2>1. PICK e \in Answer : e = Failure(pgq[i])
    BY <1>2, FailureIs
  <2>2. \A t \in Tables : db[t].ver \in Nat
    BY DEF TypeOK
  <2>3. \A t \in Tables : e.vers[t] <= db[t].ver
    BY <1>2, <2>1, <2>2, FailureIs
  <2>4. Fits(e)
    BY <1>2, <1>6, <2>1, <2>3, FailureIs
  <2> QED
    BY <2>4
<1>7. \E e \in Answer : Fits(e)
  <2> HIDE DEF Fits
  <2> QED
    BY <1>5, <1>6 DEF PgExecute
<1> QED
  BY <1>1, <1>2, <1>3, <1>4, <1>7

(* A connection delivers its answer.                                       *)
LEMMA DeliverStep ==
  ASSUME TypeOK, NEW i, PgAnswer(i)
  PROVE  /\ i \in Nat \ {0} /\ i <= Len(conns) /\ conns[i] \in Answer /\ i \in DOMAIN conns
         /\ conns' = Without(conns, i) /\ queue' = Append(queue, conns[i])
         /\ UNCHANGED <<dbVars, pgq, bootVars, memVars, faults>>
<1>1. i \in DOMAIN conns /\ conns \in Seq(Answer)
  BY DEF PgAnswer, TypeOK
<1>2. i \in Nat \ {0} /\ i <= Len(conns) /\ conns[i] \in Answer
  BY <1>1
<1> QED
  BY <1>1, <1>2 DEF PgAnswer

LEMMA TypeInit ==
  ASSUME Init PROVE TypeOK
<1>1. PICK d \in Data : db = [t \in Tables |-> [ver |-> 1, data |-> d]]
  BY DEF Init
<1>2. db \in [Tables -> [ver : Nat, data : Data]]
  BY <1>1
<1>3. pgq \in Seq(Tokens) /\ conns \in Seq(Answer) /\ queue \in Seq(Answer) /\ pool \in Nat \ {0}
  BY EmptySeq, DbAssumption DEF Init
<1>4. cond \in [state : {"waiting", "result", "error"}, token : Tokens]
  <2>1. PICK a, b : a = "waiting" /\ b = "none"
    BY Zenon
  <2>2. a \in {"waiting", "result", "error"} /\ b \in Tokens
    BY <2>1 DEF Tokens
  <2>3. cond = [state |-> a, token |-> b]
    BY <2>1 DEF Init
  <2> QED
    BY <2>2, <2>3
<1>5. PICK x \in Numbers : x = -1
  BY DEF Numbers
<1>6. /\ db_cfg_states = [t \in Tables |-> x] /\ loaded = [k \in Keys |-> x]
      /\ newest = [k \in Keys |-> x] /\ lost = [k \in Keys |-> x]
  BY <1>5 DEF Init
<1>7. db_cfg_states \in [Tables -> Numbers]
  BY <1>6
<1>8. loaded \in [Keys -> Numbers] /\ newest \in [Keys -> Numbers] /\ lost \in [Keys -> Numbers]
  BY <1>6
<1>9. mem = [k \in Keys |-> mem[k]]
  BY DEF Init
<1>10. main \in {"query", "waiting", "linked", "configured", "failed"} /\ boot \in 1..3
       /\ changes \in Nat /\ faults \in Nat
  BY DEF Init
<1> QED
  BY <1>2, <1>3, <1>4, <1>7, <1>8, <1>9, <1>10 DEF TypeOK

LEMMA GreaterIs ==
  ASSUME NEW a \in Numbers, NEW b \in Numbers
  PROVE  Greater(a, b) \in Numbers /\ Greater(a, b) >= a /\ Greater(a, b) >= b
BY DEF Numbers, Greater

(* What a load leaves behind: the numbers of its key have their types, and *)
(* one of the two histories has the number of the data.                    *)
LEMMA LoadStep ==
  ASSUME TypeOK, NEW e \in Answer, e.token \in Keys, OnDbResponse(e)
  PROVE  /\ mem' = [k \in Keys |-> mem'[k]]
         /\ loaded' \in [Keys -> Numbers] /\ newest' \in [Keys -> Numbers] /\ lost' \in [Keys -> Numbers]
         /\ UNCHANGED <<pgq, db_cfg_states, cond>>
         /\ \A k \in Keys : newest'[k] >= newest[k] /\ lost'[k] >= lost[k]
         /\ \/ newest'[e.token] >= e.vers[TableOf(e.token)]
            \/ lost'[e.token] >= e.vers[TableOf(e.token)]
<1>1. PICK new : new = Loaded(e.token, mem[e.token], e.data)
  OBVIOUS
<1>2. mem' = [mem EXCEPT ![e.token] = new] /\ UNCHANGED <<pgq, db_cfg_states, cond>>
  BY <1>1 DEF OnDbResponse
<1>3. mem' = [k \in Keys |-> mem'[k]]
  BY <1>2 DEF TypeOK
<1>4. PICK v \in Numbers : v = e.vers[TableOf(e.token)]
  BY KeysAre DEF Answer, Numbers
<1>5. /\ \A k \in Keys : loaded[k] \in Numbers /\ newest[k] \in Numbers /\ lost[k] \in Numbers
      /\ \A x \in Numbers : x >= x
  BY DEF TypeOK, Numbers
<1>6. PICK a \in Numbers, b \in Numbers :
        /\ a = Greater(newest[e.token], v) /\ a >= newest[e.token] /\ a >= v
        /\ b = Greater(lost[e.token], v) /\ b >= lost[e.token] /\ b >= v
  BY <1>4, <1>5, GreaterIs
<1>7. CASE lost' = [lost EXCEPT ![e.token] = b] /\ UNCHANGED <<loaded, newest>>
  <2>1. lost' \in [Keys -> Numbers] /\ \A k \in Keys : lost'[k] = IF k = e.token THEN b ELSE lost[k]
    BY <1>6, <1>7 DEF TypeOK
  <2>2. \A k \in Keys : newest'[k] >= newest[k] /\ lost'[k] >= lost[k]
    BY <1>5, <1>6, <1>7, <2>1
  <2>3. lost'[e.token] >= v
    BY <1>6, <2>1
  <2> QED
    BY <1>2, <1>3, <1>4, <1>7, <2>1, <2>2, <2>3 DEF TypeOK
<1>8. CASE /\ loaded' = [loaded EXCEPT ![e.token] = v]
           /\ newest' = [newest EXCEPT ![e.token] = a] /\ UNCHANGED lost
  <2>1. /\ newest' \in [Keys -> Numbers] /\ loaded' \in [Keys -> Numbers]
        /\ \A k \in Keys : newest'[k] = IF k = e.token THEN a ELSE newest[k]
    BY <1>6, <1>8 DEF TypeOK
  <2>2. \A k \in Keys : newest'[k] >= newest[k] /\ lost'[k] >= lost[k]
    BY <1>5, <1>6, <1>8, <2>1
  <2>3. newest'[e.token] >= v
    BY <1>6, <2>1
  <2> QED
    BY <1>2, <1>3, <1>4, <1>8, <2>1, <2>2, <2>3 DEF TypeOK
<1>9. \/ lost' = [lost EXCEPT ![e.token] = b] /\ UNCHANGED <<loaded, newest>>
      \/ /\ loaded' = [loaded EXCEPT ![e.token] = v]
         /\ newest' = [newest EXCEPT ![e.token] = a] /\ UNCHANGED lost
  BY <1>4, <1>6 DEF OnDbResponse
<1> QED
  BY <1>7, <1>8, <1>9

(* What a failed answer leaves behind.                                     *)
LEMMA FailStep ==
  ASSUME TypeOK, NEW tok,
         lost' = [k \in Keys |-> IF k = tok THEN Greater(lost[k], db_cfg_states[TableOf(k)]) ELSE lost[k]]
  PROVE  /\ lost' \in [Keys -> Numbers] /\ \A k \in Keys : lost'[k] >= lost[k]
         /\ tok \in Keys => lost'[tok] >= db_cfg_states[TableOf(tok)]
<1>1. \A k \in Keys : /\ lost[k] \in Numbers /\ db_cfg_states[TableOf(k)] \in Numbers
                      /\ lost[k] >= lost[k]
  BY KeysAre DEF TypeOK, Numbers
<1>2. ASSUME NEW k \in Keys
      PROVE  /\ lost'[k] \in Numbers /\ lost'[k] >= lost[k]
             /\ k = tok => lost'[k] >= db_cfg_states[TableOf(k)]
  BY <1>1, GreaterIs
<1> QED
  BY <1>2

LEMMA TypeProcess ==
  ASSUME TypeOK, Process
  PROVE  TypeOK'
<1> DEFINE e == Head(queue)
<1>1. e \in Answer /\ queue' \in Seq(Answer)
  BY TailIs DEF Process, TypeOK
<1>2. /\ e.token \in Tokens /\ e.res \in {"waiting", "result", "error"}
      /\ e.vers \in [Tables -> Nat]
  BY <1>1 DEF Answer
<1>3. UNCHANGED <<db, pool, changes, conns, main, boot, faults>>
  BY DEF Process, dbVars
<1> HIDE DEF e
<1>4. CASE ~Configured
  <2>1. cond' = [state |-> e.res, token |-> e.token] /\ UNCHANGED <<pgq, memVars>>
    BY <1>4 DEF Process, e
  <2>2. cond' \in [state : {"waiting", "result", "error"}, token : Tokens]
    BY <1>2, <2>1
  <2> QED
    BY <1>1, <1>3, <2>1, <2>2 DEF TypeOK, memVars
<1>5. CASE Configured /\ e.res = "result" /\ e.token = "check_states" /\ OnDbCfgReloadTimerResponse(e.vers)
  <2>1. Reloads(e.vers) \in Seq(Keys)
    BY <1>2, ReloadsAll
  <2>2. PICK q \in Seq(Keys) : q = Reloads(e.vers)
    BY <2>1
  <2>3. q \in Seq(Tokens)
    BY DEF Tokens
  <2>4. pgq' = pgq \o q /\ db_cfg_states' = e.vers /\ UNCHANGED <<mem, loaded, newest, lost, client, cond>>
    BY <1>5, <2>2 DEF OnDbCfgReloadTimerResponse
  <2>5. pgq' \in Seq(Tokens)
    BY <2>3, <2>4, ConcatProperties DEF TypeOK
  <2>6. db_cfg_states' \in [Tables -> Numbers]
    BY <1>2, <2>4 DEF Numbers
  <2> QED
    BY <1>1, <1>3, <2>4, <2>5, <2>6 DEF TypeOK
<1>6. CASE Configured /\ e.res = "result" /\ e.token \in Keys /\ OnDbResponse(e)
  <2>1. /\ mem' = [k \in Keys |-> mem'[k]] /\ UNCHANGED <<pgq, db_cfg_states, cond>>
        /\ loaded' \in [Keys -> Numbers] /\ newest' \in [Keys -> Numbers] /\ lost' \in [Keys -> Numbers]
    BY <1>1, <1>6, LoadStep
  <2> QED
    BY <1>1, <1>3, <2>1 DEF TypeOK
<1>7. CASE Configured /\ e.res # "result"
           /\ lost' = [k \in Keys |-> IF k = e.token THEN Greater(lost[k], db_cfg_states[TableOf(k)])
                                                     ELSE lost[k]]
           /\ UNCHANGED <<pgq, cond, db_cfg_states, mem, loaded, newest, client>>
  <2>1. lost' \in [Keys -> Numbers]
    BY <1>7, FailStep
  <2> QED
    BY <1>1, <1>3, <1>7, <2>1 DEF TypeOK
<1> QED
  BY <1>4, <1>5, <1>6, <1>7 DEF Process, e

LEMMA TypeStep ==
  ASSUME TypeOK, [Next]_vars
  PROVE  TypeOK'
<1>1. ASSUME NEW t \in Tables, ChangeTable(t) PROVE TypeOK'
  <2>1. PICK d \in Data : db' = [db EXCEPT ![t] = [ver |-> db[t].ver + 1, data |-> d]]
    BY <1>1 DEF ChangeTable
  <2>2. PICK r : r = [ver |-> db[t].ver + 1, data |-> d]
    OBVIOUS
  <2>3. r \in [ver : Nat, data : Data]
    BY <2>2 DEF TypeOK
  <2>4. db' \in [Tables -> [ver : Nat, data : Data]]
    BY <2>1, <2>2, <2>3 DEF TypeOK
  <2>5. changes' \in Nat /\ UNCHANGED <<pool, pgq, conns, queue, bootVars, memVars, faults>>
    BY <1>1 DEF ChangeTable, TypeOK
  <2> QED
    BY <2>4, <2>5 DEF TypeOK, bootVars, memVars
<1>2. ASSUME NEW i \in 1..pool, PgExecute(i) PROVE TypeOK'
  <2>1. PICK e \in Answer : conns' = Append(conns, e)
    BY <1>2, ExecuteStep
  <2>2. /\ pgq' = Without(pgq, i) /\ i \in Nat \ {0} /\ i <= Len(pgq) /\ faults' \in Nat
        /\ UNCHANGED <<dbVars, queue, bootVars, memVars>>
    BY <1>2, ExecuteStep
  <2>3. conns' \in Seq(Answer)
    BY <2>1, AppendIs DEF TypeOK
  <2>4. pgq' \in Seq(Tokens)
    BY <2>2, WithoutIs DEF TypeOK
  <2> QED
    BY <2>2, <2>3, <2>4 DEF TypeOK, dbVars, bootVars, memVars
<1>2a. ASSUME NEW i \in 1..pool, PgAnswer(i) PROVE TypeOK'
  <2>1. /\ i \in Nat \ {0} /\ i <= Len(conns) /\ conns[i] \in Answer
        /\ conns' = Without(conns, i) /\ queue' = Append(queue, conns[i])
        /\ UNCHANGED <<dbVars, pgq, bootVars, memVars, faults>>
    BY <1>2a, DeliverStep
  <2>2. queue' \in Seq(Answer)
    BY <2>1, AppendIs DEF TypeOK
  <2>3. conns' \in Seq(Answer)
    BY <2>1, WithoutIs DEF TypeOK
  <2> QED
    BY <2>1, <2>2, <2>3 DEF TypeOK, dbVars, bootVars, memVars
<1>3. CASE ExecQuery
  <2>1. cond' \in [state : {"waiting", "result", "error"}, token : Tokens]
    <3>1. PICK a, b : a = "waiting" /\ b = "none"
      BY Zenon
    <3>2. a \in {"waiting", "result", "error"} /\ b \in Tokens
      BY <3>1 DEF Tokens
    <3>3. cond' = [state |-> a, token |-> b]
      BY <1>3, <3>1 DEF ExecQuery
    <3> QED
      BY <3>2, <3>3
  <2>2. SyncTokens[boot] \in Tokens
    BY SyncAre DEF TypeOK
  <2>3. pgq' \in Seq(Tokens)
    BY <1>3, <2>2, AppendIs DEF ExecQuery, TypeOK
  <2>4. main' = "waiting" /\ UNCHANGED <<dbVars, conns, queue, boot, memVars, faults>>
    BY <1>3 DEF ExecQuery
  <2> QED
    BY <2>1, <2>3, <2>4 DEF TypeOK, dbVars, memVars
<1>4. CASE QueryDone
  <2>1. UNCHANGED <<dbVars, pgq, conns, queue, cond, memVars>>
    BY <1>4 DEF QueryDone
  <2>2. main' \in {"query", "waiting", "linked", "configured", "failed"}
    BY <1>4 DEF QueryDone
  <2>3. boot' \in 1..3 /\ faults' \in Nat
    BY <1>4, SyncAre DEF QueryDone, TypeOK
  <2> QED
    BY <2>1, <2>2, <2>3 DEF TypeOK, dbVars, memVars
<1>5. CASE ConfigurationFinished
  <2>1. pgq' \in Seq(Tokens)
    <3>1. PICK c \in Tokens : c = "check_states"
      BY DEF Tokens
    <3> QED
      BY <1>5, <3>1, AppendIs DEF ConfigurationFinished, TypeOK
  <2>2. main' = "configured" /\ UNCHANGED <<dbVars, conns, queue, boot, cond, memVars, faults>>
    BY <1>5 DEF ConfigurationFinished
  <2> QED
    BY <2>1, <2>2 DEF TypeOK, dbVars, memVars
<1>6. CASE OnDbCfgReloadTimer
  <2>1. pgq' \in Seq(Tokens)
    <3>1. PICK c \in Tokens : c = "check_states"
      BY DEF Tokens
    <3> QED
      BY <1>6, <3>1, AppendIs DEF OnDbCfgReloadTimer, TypeOK
  <2>2. UNCHANGED <<dbVars, conns, queue, bootVars, memVars, faults>>
    BY <1>6 DEF OnDbCfgReloadTimer
  <2> QED
    BY <2>1, <2>2 DEF TypeOK, dbVars, bootVars, memVars
<1>7. CASE Process
  BY <1>7, TypeProcess
<1>8. CASE UNCHANGED vars
  BY <1>8 DEF TypeOK, vars, dbVars, bootVars, memVars
<1> QED
  BY <1>1, <1>2, <1>2a, <1>3, <1>4, <1>5, <1>6, <1>7, <1>8 DEF Next, Terminated

(* Types of the configuration: queries and answers carry the tokens of     *)
(* their tables, numbers are remembered and loaded per table.              *)
THEOREM ConfigTypes == Spec => []TypeOK
<1>1. TypeOK /\ [Next]_vars => TypeOK'
  BY TypeStep
<1> QED
  BY <1>1, TypeInit, PTL DEF Spec


-----------------------------------------------------------------------------
(* The synchronous queries of the start-up.                                *)
LEMMA EmptyIs ==
  ASSUME NEW S, NEW s \in Seq(S), Len(s) = 0
  PROVE  s = <<>>
BY EmptySeq

LEMMA SyncStep ==
  ASSUME SyncInv, TypeOK', [Next]_vars
  PROVE  OneQuery'
<1> USE DEF SyncInv
<1>0. /\ pgq \in Seq(Tokens) /\ conns \in Seq(Answer) /\ queue \in Seq(Answer)
      /\ pgq' \in Seq(Tokens) /\ conns' \in Seq(Answer) /\ queue' \in Seq(Answer)
  BY DEF TypeOK
<1>1. ASSUME NEW t \in Tables, ChangeTable(t) PROVE OneQuery'
  <2>1. UNCHANGED <<pgq, conns, queue, main, boot, cond>>
    BY <1>1 DEF ChangeTable, bootVars
  <2> QED
    BY <2>1 DEF OneQuery, Nowhere, Single
<1>2. ASSUME NEW i \in 1..pool, PgExecute(i) PROVE OneQuery'
  <2>1. PICK e \in Answer : conns' = Append(conns, e) /\ e.token = pgq[i]
    BY <1>2, ExecuteStep
  <2>2. /\ pgq' = Without(pgq, i) /\ i \in Nat \ {0} /\ i <= Len(pgq)
        /\ main' = main /\ boot' = boot /\ cond' = cond /\ queue' = queue
    BY <1>2, ExecuteStep DEF bootVars
  <2>3. pgq # <<>>
    BY <2>2
  <2>4. main # "query"
    BY <2>3 DEF OneQuery, Nowhere
  <2>5. CASE main = "waiting"
    <3>1. pgq = <<SyncTokens[boot]>> /\ conns = <<>> /\ queue = <<>> /\ cond.state = "waiting"
      BY <2>3, <2>5 DEF OneQuery, Nowhere
    <3>2. Len(pgq) = 1 /\ i = 1 /\ pgq[i] = SyncTokens[boot]
      BY <2>2, <3>1
    <3>3. Len(pgq') = 0
      <4>1. Len(Without(pgq, i)) = Len(pgq) - 1
        BY ONLY <1>0, <2>2, WithoutIs
      <4> QED
        BY <2>2, <3>2, <4>1
    <3>4. pgq' = <<>>
      BY <1>0, <3>3, EmptyIs
    <3>5. Len(conns') = 1 /\ conns'[1] = e
      <4>1. Len(conns) = 0
        BY <3>1
      <4> QED
        BY <1>0, <2>1, <4>1, AppendIs
    <3>6. Single(conns)'
      BY <2>1, <2>2, <3>2, <3>5 DEF Single
    <3> QED
      BY <2>2, <2>5, <3>1, <3>4, <3>6 DEF OneQuery
  <2> QED
    BY <2>2, <2>4, <2>5 DEF OneQuery
<1>2a. ASSUME NEW i \in 1..pool, PgAnswer(i) PROVE OneQuery'
  <2>1. /\ conns' = Without(conns, i) /\ i \in Nat \ {0} /\ i <= Len(conns)
        /\ queue' = Append(queue, conns[i]) /\ conns[i] \in Answer
        /\ main' = main /\ boot' = boot /\ cond' = cond /\ pgq' = pgq
    BY <1>2a, DeliverStep DEF bootVars
  <2>2. conns # <<>>
    BY <2>1
  <2>3. main # "query"
    BY <2>2 DEF OneQuery, Nowhere
  <2>4. CASE main = "waiting"
    <3>1. pgq = <<>> /\ Single(conns) /\ queue = <<>> /\ cond.state = "waiting"
      BY <2>2, <2>4 DEF OneQuery, Nowhere
    <3>2. Len(conns) = 1 /\ i = 1 /\ conns[i].token = SyncTokens[boot]
      BY <2>1, <3>1 DEF Single
    <3>3. Len(conns') = 0
      <4>1. Len(Without(conns, i)) = Len(conns) - 1
        BY ONLY <1>0, <2>1, WithoutIs
      <4> QED
        BY <2>1, <3>2, <4>1
    <3>4. conns' = <<>>
      BY <1>0, <3>3, EmptyIs
    <3>5. Len(queue') = 1 /\ queue'[1] = conns[i]
      <4>1. Len(queue) = 0
        BY <3>1
      <4> QED
        BY <1>0, <2>1, <4>1, AppendIs
    <3>6. Single(queue)'
      BY <2>1, <3>2, <3>5 DEF Single
    <3> QED
      BY <2>1, <2>4, <3>1, <3>4, <3>6 DEF OneQuery
  <2> QED
    BY <2>1, <2>3, <2>4 DEF OneQuery
<1>3. CASE ExecQuery
  <2>1. pgq = <<>> /\ conns = <<>> /\ queue = <<>>
    BY <1>3 DEF ExecQuery, OneQuery, Nowhere
  <2>2. pgq' = <<SyncTokens[boot]>>
    BY <1>3, <2>1 DEF ExecQuery
  <2>3. /\ main' = "waiting" /\ boot' = boot /\ UNCHANGED <<conns, queue>>
        /\ cond'.state = "waiting"
    BY <1>3 DEF ExecQuery
  <2> QED
    BY <2>1, <2>2, <2>3 DEF OneQuery
<1>4. CASE QueryDone
  <2>1. main' # "waiting" /\ UNCHANGED <<pgq, conns, queue>>
    BY <1>4 DEF QueryDone
  <2>2. main' = "query" => main = "waiting" /\ cond.state # "waiting"
    BY <1>4 DEF QueryDone
  <2>3. main' = "query" => Nowhere
    BY <2>2 DEF OneQuery
  <2> QED
    BY <2>1, <2>3 DEF OneQuery, Nowhere
<1>5. CASE ConfigurationFinished
  BY <1>5 DEF ConfigurationFinished, OneQuery
<1>6. CASE OnDbCfgReloadTimer
  BY <1>6 DEF OnDbCfgReloadTimer, OneQuery, bootVars
<1>7. CASE Process
  <2>1. queue # <<>> /\ queue' = Tail(queue) /\ main' = main /\ boot' = boot /\ conns' = conns
    BY <1>7 DEF Process
  <2>2. main # "query"
    BY <2>1 DEF OneQuery, Nowhere
  <2>3. CASE main = "waiting"
    <3>1. pgq = <<>> /\ conns = <<>> /\ Len(queue) = 1 /\ queue[1].token = SyncTokens[boot]
      BY <2>1, <2>3 DEF OneQuery, Nowhere, Single
    <3>2. Len(queue') = 0 /\ Head(queue) = queue[1] /\ Head(queue) \in Answer
      BY <1>0, <2>1, <3>1, TailIs
    <3>3. queue' = <<>>
      BY <1>0, <3>2, EmptyIs
    <3>4. cond' = [state |-> Head(queue).res, token |-> Head(queue).token] /\ pgq' = pgq
      BY <1>7, <2>3 DEF Process, Configured
    <3>5. cond'.state # "waiting" /\ cond'.token = SyncTokens[boot]
      BY <3>1, <3>2, <3>4 DEF Answer
    <3> QED
      BY <2>1, <2>3, <3>1, <3>3, <3>4, <3>5 DEF OneQuery, Nowhere
  <2> QED
    BY <2>1, <2>2, <2>3 DEF OneQuery
<1>8. CASE UNCHANGED vars
  BY <1>8 DEF OneQuery, Nowhere, Single, vars, dbVars, bootVars, memVars
<1> QED
  BY <1>1, <1>2, <1>2a, <1>3, <1>4, <1>5, <1>6, <1>7, <1>8 DEF Next, Terminated

(* exec_query takes the next answer for its own without comparing tokens:  *)
(* it always is, however slow or unreliable the database is.               *)
THEOREM SyncIsOwn == Spec => []SyncAnswerIsOwn
<1>1. Init => SyncInv
  <2> SUFFICES ASSUME Init PROVE SyncInv
    OBVIOUS
  <2>1. OneQuery
    BY DEF Init, OneQuery, Nowhere
  <2> QED
    BY <2>1, TypeInit DEF SyncInv
<1>2. SyncInv /\ [Next]_vars => SyncInv'
  BY SyncStep, TypeStep DEF SyncInv
<1>3. SyncInv => SyncAnswerIsOwn
  BY DEF SyncInv, OneQuery, SyncAnswerIsOwn
<1> QED
  BY <1>1, <1>2, <1>3, PTL DEF Spec


-----------------------------------------------------------------------------
(* The numbers: none is greater than that of the database.                 *)
LEMMA VersAre ==
  ASSUME NEW e \in Answer, NEW t \in Tables
  PROVE  e.vers[t] \in Nat
BY DEF Answer

LEMMA PastGrows ==
  ASSUME NEW s \in Seq(Answer), Past(s), TypeOK, TypeOK',
         \A t \in Tables : db[t].ver <= db'[t].ver
  PROVE  \A i \in DOMAIN s : \A t \in Tables : s[i].vers[t] <= db'[t].ver
<1> SUFFICES ASSUME NEW i \in DOMAIN s, NEW t \in Tables
             PROVE  s[i].vers[t] <= db'[t].ver
  OBVIOUS
<1>1. PICK e \in Answer : e = s[i]
  OBVIOUS
<1>2. e.vers[t] \in Nat /\ e.vers[t] <= db[t].ver
  BY <1>1, VersAre DEF Past
<1>3. db[t].ver \in Nat /\ db'[t].ver \in Nat
  BY DEF TypeOK
<1> QED
  BY <1>1, <1>2, <1>3

LEMMA BoundedStep ==
  ASSUME TypeOK, TypeOK', Bounded, [Next]_vars
  PROVE  Bounded'
<1>0. /\ \A t \in Tables : db_cfg_states[t] \in Int /\ db[t].ver \in Nat /\ db'[t].ver \in Nat
      /\ conns \in Seq(Answer) /\ queue \in Seq(Answer)
  BY DEF TypeOK, Numbers
<1>00. /\ \A t \in Tables : db_cfg_states[t] <= db[t].ver
       /\ \A i \in DOMAIN conns : \A t \in Tables : conns[i].vers[t] <= db[t].ver
       /\ \A i \in DOMAIN queue : \A t \in Tables : queue[i].vers[t] <= db[t].ver
  BY DEF Bounded, Past
<1>1. ASSUME NEW u \in Tables, ChangeTable(u) PROVE Bounded'
  <2>1. PICK d \in Data : db' = [db EXCEPT ![u] = [ver |-> db[u].ver + 1, data |-> d]]
    BY <1>1 DEF ChangeTable
  <2>2. \A t \in Tables : db[t].ver <= db'[t].ver
    <3> SUFFICES ASSUME NEW t \in Tables PROVE db[t].ver <= db'[t].ver
      OBVIOUS
    <3>1. CASE t = u
      <4>1. db'[t].ver = db[t].ver + 1
        BY <2>1, <3>1 DEF TypeOK
      <4> QED
        BY <1>0, <4>1
    <3>2. CASE t # u
      <4>1. db'[t] = db[t]
        BY <2>1, <3>2 DEF TypeOK
      <4> QED
        BY <1>0, <4>1
    <3> QED
      BY <3>1, <3>2
  <2>3. UNCHANGED <<conns, queue, db_cfg_states>>
    BY <1>1 DEF ChangeTable, memVars
  <2>4. \A t \in Tables : db_cfg_states[t] <= db'[t].ver
    BY <1>0, <1>00, <2>2
  <2>5. /\ \A i \in DOMAIN conns : \A t \in Tables : conns[i].vers[t] <= db'[t].ver
        /\ \A i \in DOMAIN queue : \A t \in Tables : queue[i].vers[t] <= db'[t].ver
    BY <1>0, <2>2, PastGrows DEF Bounded
  <2> QED
    BY <2>3, <2>4, <2>5 DEF Bounded, Past
<1>2. ASSUME NEW i \in 1..pool, PgExecute(i) PROVE Bounded'
  <2>1. PICK e \in Answer : /\ conns' = Append(conns, e)
                            /\ \A t \in Tables : e.vers[t] <= db[t].ver
    BY <1>2, ExecuteStep
  <2>2. UNCHANGED <<db, queue, db_cfg_states>>
    BY <1>2, ExecuteStep DEF dbVars, memVars
  <2>3. \A j \in DOMAIN conns' : conns'[j] = e \/ (j \in DOMAIN conns /\ conns'[j] = conns[j])
    BY <1>0, <2>1, AppendIs
  <2>4. \A j \in DOMAIN conns' : \A t \in Tables : conns'[j].vers[t] <= db[t].ver
    BY <1>00, <2>1, <2>3
  <2> QED
    BY <1>00, <2>2, <2>4 DEF Bounded, Past
<1>3. ASSUME NEW i \in 1..pool, PgAnswer(i) PROVE Bounded'
  <2>1. /\ conns' = Without(conns, i) /\ i \in Nat \ {0} /\ i <= Len(conns) /\ i \in DOMAIN conns
        /\ queue' = Append(queue, conns[i]) /\ conns[i] \in Answer
        /\ UNCHANGED <<db, db_cfg_states>>
    BY <1>3, DeliverStep DEF dbVars, memVars
  <2>2. \A j \in DOMAIN queue' : queue'[j] = conns[i] \/ (j \in DOMAIN queue /\ queue'[j] = queue[j])
    BY <1>0, <2>1, AppendIs
  <2>3. \A y \in DOMAIN conns' : \E j \in DOMAIN conns : conns'[y] = conns[j]
    BY <1>0, <2>1, WithoutIs
  <2>4. \A j \in DOMAIN queue' : \A t \in Tables : queue'[j].vers[t] <= db[t].ver
    BY <1>00, <2>1, <2>2
  <2>5. \A y \in DOMAIN conns' : \A t \in Tables : conns'[y].vers[t] <= db[t].ver
    BY <1>00, <2>3
  <2> QED
    BY <1>00, <2>1, <2>4, <2>5 DEF Bounded, Past
<1>4. CASE Process
  <2>1. queue # <<>> /\ queue' = Tail(queue) /\ UNCHANGED <<db, conns>>
    BY <1>4 DEF Process, dbVars
  <2>2. UNCHANGED db_cfg_states \/ db_cfg_states' = Head(queue).vers
    BY <1>4 DEF Process, memVars, OnDbCfgReloadTimerResponse, OnDbResponse
  <2>3. /\ \A j \in DOMAIN queue' : j + 1 \in DOMAIN queue /\ queue'[j] = queue[j + 1]
        /\ Head(queue) = queue[1] /\ 1 \in DOMAIN queue
    BY <1>0, <2>1, TailIs
  <2>4. \A j \in DOMAIN queue' : \A t \in Tables : queue'[j].vers[t] <= db[t].ver
    BY <1>00, <2>3
  <2>5. \A t \in Tables : db_cfg_states'[t] <= db[t].ver
    BY <1>00, <2>2, <2>3
  <2> QED
    BY <1>00, <2>1, <2>4, <2>5 DEF Bounded, Past
<1>5. CASE UNCHANGED <<db, conns, queue, db_cfg_states>>
  BY <1>00, <1>5 DEF Bounded, Past
<1>6. \/ \E u \in Tables : ChangeTable(u)
      \/ \E i \in 1..pool : PgExecute(i) \/ PgAnswer(i)
      \/ Process
      \/ UNCHANGED <<db, conns, queue, db_cfg_states>>
  BY DEF Next, ExecQuery, QueryDone, ConfigurationFinished, OnDbCfgReloadTimer, Terminated,
         vars, dbVars, memVars
<1> QED
  BY <1>1, <1>2, <1>3, <1>4, <1>5, <1>6

LEMMA NothingYetStep ==
  ASSUME NothingYet, [Next]_vars
  PROVE  NothingYet'
<1>1. Configured => Configured'
  BY DEF Next, Configured, ChangeTable, PgExecute, PgAnswer, ExecQuery, QueryDone,
         ConfigurationFinished, OnDbCfgReloadTimer, Process, Terminated, vars, bootVars
<1>2. ~Configured => UNCHANGED db_cfg_states
  BY DEF Next, ChangeTable, PgExecute, PgAnswer, ExecQuery, QueryDone, ConfigurationFinished,
         OnDbCfgReloadTimer, Process, Terminated, vars, memVars
<1> QED
  BY <1>1, <1>2 DEF NothingYet

(* What makes up for a number also makes up for a smaller one.             *)
LEMMA StillCovered ==
  ASSUME TypeOK, TypeOK', NEW k \in Keys, Covered(k), Number(k)' <= Number(k),
         newest'[k] >= newest[k], lost'[k] >= lost[k], Coming(k) => Coming(k)'
  PROVE  Covered(k)'
<1>1. /\ newest[k] \in Int /\ newest'[k] \in Int /\ lost[k] \in Int /\ lost'[k] \in Int
      /\ Number(k) \in Int /\ Number(k)' \in Int
  <2>1. newest[k] \in Numbers /\ newest'[k] \in Numbers /\ lost[k] \in Numbers /\ lost'[k] \in Numbers
    BY DEF TypeOK
  <2>2. Number(k) \in Numbers /\ Number(k)' \in Numbers
    BY KeysAre DEF TypeOK, Number
  <2> QED
    BY <2>1, <2>2 DEF Numbers
<1>2. CASE newest[k] >= Number(k)
  BY <1>1, <1>2 DEF Covered
<1>3. CASE lost[k] >= Number(k)
  BY <1>1, <1>3 DEF Covered
<1>4. CASE Coming(k)
  BY <1>4 DEF Covered
<1> QED
  BY <1>2, <1>3, <1>4 DEF Covered

(* A load stays under way until its own answer is processed.               *)
LEMMA ComingKept ==
  ASSUME TypeOK, TypeOK', NEW k \in Keys, Coming(k), Number(k)' <= Number(k),
         \A i \in DOMAIN pgq : \E j \in DOMAIN pgq' : pgq'[j] = pgq[i],
         UNCHANGED conns,
         \/ UNCHANGED queue
         \/ queue # <<>> /\ queue' = Tail(queue) /\ Head(queue).token # k
  PROVE  Coming(k)'
<1>0. /\ Number(k) \in Int /\ Number(k)' \in Int /\ TableOf(k) \in Tables
      /\ conns \in Seq(Answer) /\ queue \in Seq(Answer)
  BY KeysAre DEF TypeOK, Numbers, Number
<1> DEFINE Good(e) == e.token = k /\ (e.res = "result" => e.vers[TableOf(k)] >= Number(k)')
<1>1. ASSUME NEW e \in Answer, e.token = k, e.res = "result" => e.vers[TableOf(k)] >= Number(k)
      PROVE  Good(e)
  BY <1>0, <1>1, VersAre
<1>2. CASE \E i \in DOMAIN pgq : pgq[i] = k
  BY <1>2 DEF Coming
<1>3. CASE Brings(conns, k)
  <2>1. PICK i \in DOMAIN conns : /\ conns[i].token = k
                                  /\ conns[i].res = "result" => conns[i].vers[TableOf(k)] >= Number(k)
    BY <1>3 DEF Brings
  <2>2. Good(conns[i])
    BY <1>0, <1>1, <2>1
  <2> QED
    BY <2>1, <2>2 DEF Coming, Brings
<1>4. CASE Brings(queue, k)
  <2>1. PICK i \in DOMAIN queue : /\ queue[i].token = k
                                  /\ queue[i].res = "result" => queue[i].vers[TableOf(k)] >= Number(k)
    BY <1>4 DEF Brings
  <2>2. Good(queue[i])
    BY <1>0, <1>1, <2>1
  <2>3. CASE UNCHANGED queue
    BY <2>1, <2>2, <2>3 DEF Coming, Brings
  <2>4. CASE queue # <<>> /\ queue' = Tail(queue) /\ Head(queue).token # k
    <3>1. /\ Head(queue) = queue[1]
          /\ \A j \in DOMAIN queue : j # 1 => j - 1 \in DOMAIN queue' /\ queue'[j - 1] = queue[j]
      BY <1>0, <2>4, TailIs
    <3>2. i - 1 \in DOMAIN queue' /\ queue'[i - 1] = queue[i]
      BY <2>1, <2>4, <3>1
    <3>3. PICK m \in DOMAIN queue' : Good(queue'[m])
      BY <2>2, <3>2
    <3> QED
      BY <3>3 DEF Coming, Brings
  <2> QED
    BY <2>3, <2>4
<1> QED
  BY <1>2, <1>3, <1>4 DEF Coming

(* The connections: a query that is executed brings the number of the      *)
(* database, and what was found is delivered, in whatever order.           *)
LEMMA ComingExecuted ==
  ASSUME TypeOK, Bounded, NEW i \in 1..pool, PgExecute(i), NEW k \in Keys, Coming(k)
  PROVE  Coming(k)'
<1>0. pgq \in Seq(Tokens) /\ conns \in Seq(Answer) /\ TableOf(k) \in Tables
  BY KeysAre DEF TypeOK
<1>1. PICK e \in Answer :
        /\ conns' = Append(conns, e) /\ e.token = pgq[i]
        /\ e.res = "result" /\ e.token \in Keys => e.vers[TableOf(e.token)] = db[TableOf(e.token)].ver
  BY ExecuteStep
<1>2. /\ pgq' = Without(pgq, i) /\ i \in Nat \ {0} /\ i <= Len(pgq)
      /\ queue' = queue /\ db_cfg_states' = db_cfg_states
  BY ExecuteStep DEF memVars
<1>3. PICK n : n \in DOMAIN conns' /\ conns'[n] = e
  BY <1>0, <1>1, AppendIs
<1>4. \A j \in DOMAIN conns : j \in DOMAIN conns' /\ conns'[j] = conns[j]
  BY <1>0, <1>1, AppendIs
<1>5. \A j \in DOMAIN pgq : j # i => \E y \in DOMAIN pgq' : pgq'[y] = pgq[j]
  BY <1>0, <1>2, WithoutIs
<1>6. CASE \E j \in DOMAIN pgq : pgq[j] = k
  <2>1. PICK j \in DOMAIN pgq : pgq[j] = k
    BY <1>6
  <2>2. CASE j = i
    <3>1. e.token = k /\ (e.res = "result" => e.vers[TableOf(k)] = db[TableOf(k)].ver)
      BY <1>1, <2>1, <2>2
    <3>2. db_cfg_states[TableOf(k)] <= db[TableOf(k)].ver
      BY <1>0 DEF Bounded
    <3>3. db_cfg_states[TableOf(k)] \in Int /\ db[TableOf(k)].ver \in Int
      BY <1>0 DEF TypeOK, Numbers
    <3>4. e.res = "result" => e.vers[TableOf(k)] >= Number(k)'
      BY <1>2, <3>1, <3>2, <3>3 DEF Number
    <3>5. Brings(conns, k)'
      BY <1>3, <3>1, <3>4 DEF Brings
    <3> QED
      BY <3>5 DEF Coming
  <2>3. CASE j # i
    BY <1>5, <2>1, <2>3 DEF Coming
  <2> QED
    BY <2>2, <2>3
<1>7. CASE Brings(conns, k)
  <2>1. Brings(conns, k)'
    BY <1>2, <1>4, <1>7 DEF Brings, Number
  <2> QED
    BY <2>1 DEF Coming
<1>8. CASE Brings(queue, k)
  BY <1>2, <1>8 DEF Coming, Brings, Number
<1> QED
  BY <1>6, <1>7, <1>8 DEF Coming

LEMMA ComingDelivered ==
  ASSUME TypeOK, NEW i \in 1..pool, PgAnswer(i), NEW k \in Keys, Coming(k)
  PROVE  Coming(k)'
<1>0. conns \in Seq(Answer) /\ queue \in Seq(Answer)
  BY DEF TypeOK
<1>1. /\ conns' = Without(conns, i) /\ i \in Nat \ {0} /\ i <= Len(conns)
      /\ queue' = Append(queue, conns[i]) /\ conns[i] \in Answer
      /\ pgq' = pgq /\ db_cfg_states' = db_cfg_states
  BY DeliverStep DEF memVars
<1>2. PICK n : n \in DOMAIN queue' /\ queue'[n] = conns[i]
  BY <1>0, <1>1, AppendIs
<1>3. \A j \in DOMAIN queue : j \in DOMAIN queue' /\ queue'[j] = queue[j]
  BY <1>0, <1>1, AppendIs
<1>4. \A j \in DOMAIN conns : j # i => \E y \in DOMAIN conns' : conns'[y] = conns[j]
  BY <1>0, <1>1, WithoutIs
<1>5. Number(k)' = Number(k)
  BY <1>1 DEF Number
<1>6. CASE \E j \in DOMAIN pgq : pgq[j] = k
  BY <1>1, <1>6 DEF Coming
<1>7. CASE Brings(conns, k)
  <2>1. PICK j \in DOMAIN conns : /\ conns[j].token = k
                                  /\ conns[j].res = "result" => conns[j].vers[TableOf(k)] >= Number(k)
    BY <1>7 DEF Brings
  <2>2. CASE j = i
    <3>1. Brings(queue, k)'
      BY <1>2, <1>5, <2>1, <2>2 DEF Brings
    <3> QED
      BY <3>1 DEF Coming
  <2>3. CASE j # i
    <3>1. PICK y \in DOMAIN conns' : conns'[y] = conns[j]
      BY <1>4, <2>3
    <3>2. Brings(conns, k)'
      BY <1>5, <2>1, <3>1 DEF Brings
    <3> QED
      BY <3>2 DEF Coming
  <2> QED
    BY <2>2, <2>3
<1>8. CASE Brings(queue, k)
  <2>1. Brings(queue, k)'
    BY <1>3, <1>5, <1>8 DEF Brings
  <2> QED
    BY <2>1 DEF Coming
<1> QED
  BY <1>6, <1>7, <1>8 DEF Coming

(* The answer of a check: loads of the tables with a greater number are    *)
(* posted, and what was under way stays so.                                *)
LEMMA CheckAnswered ==
  ASSUME TypeOK, TypeOK', NEW k \in Keys, Covered(k), NEW ver \in [Tables -> Nat],
         OnDbCfgReloadTimerResponse(ver), UNCHANGED conns,
         queue # <<>>, queue' = Tail(queue), Head(queue).token # k
  PROVE  Covered(k)'
<1>1. pgq' = pgq \o Reloads(ver) /\ db_cfg_states' = ver /\ UNCHANGED <<newest, lost>>
  BY DEF OnDbCfgReloadTimerResponse
<1>2. PICK q : q = Reloads(ver)
  OBVIOUS
<1>3. q \in Seq(Keys) /\ pgq \in Seq(Tokens) /\ q \in Seq(Tokens)
  <2>1. q \in Seq(Keys)
    BY <1>2, ReloadsAll
  <2> QED
    BY <2>1 DEF TypeOK, Tokens
<1>4. /\ \A i \in DOMAIN pgq : i \in DOMAIN (pgq \o q) /\ (pgq \o q)[i] = pgq[i]
      /\ \A i \in DOMAIN q : Len(pgq) + i \in DOMAIN (pgq \o q) /\ (pgq \o q)[Len(pgq) + i] = q[i]
  <2>1. /\ Len(pgq) \in Nat /\ Len(q) \in Nat /\ DOMAIN pgq = 1..Len(pgq) /\ DOMAIN q = 1..Len(q)
        /\ pgq \o q \in Seq(Tokens) /\ Len(pgq \o q) = Len(pgq) + Len(q)
        /\ DOMAIN (pgq \o q) = 1..(Len(pgq) + Len(q))
        /\ \A i \in 1..(Len(pgq) + Len(q)) :
             (pgq \o q)[i] = IF i <= Len(pgq) THEN pgq[i] ELSE q[i - Len(pgq)]
    BY ONLY <1>3, ConcatProperties, LenProperties
  <2>2. \A i \in 1..Len(pgq) : i \in 1..(Len(pgq) + Len(q)) /\ i <= Len(pgq)
    BY ONLY <2>1
  <2>3. \A i \in 1..Len(q) :
          /\ Len(pgq) + i \in 1..(Len(pgq) + Len(q)) /\ ~(Len(pgq) + i <= Len(pgq))
          /\ (Len(pgq) + i) - Len(pgq) = i
    BY ONLY <2>1
  <2> QED
    BY ONLY <2>1, <2>2, <2>3
<1>5. PICK t \in Tables : t = TableOf(k) /\ k \in KeysOf(t)
  BY KeysAre
<1>6. CASE ver[t] > db_cfg_states[t]
  <2>1. PICK y \in DOMAIN q : q[y] = k
    BY <1>2, <1>5, <1>6, ReloadsAll
  <2>2. \E j \in DOMAIN pgq' : pgq'[j] = k
    BY <1>1, <1>2, <1>4, <2>1
  <2> QED
    BY <2>2 DEF Covered, Coming
<1>7. CASE ~(ver[t] > db_cfg_states[t])
  <2>0. db_cfg_states[t] \in Numbers /\ newest[k] \in Numbers /\ lost[k] \in Numbers
    BY DEF TypeOK
  <2>1. ver[t] \in Int /\ db_cfg_states[t] \in Int /\ newest[k] \in Int /\ lost[k] \in Int
    BY <2>0 DEF Numbers
  <2>2. ver[t] <= db_cfg_states[t] /\ newest[k] >= newest[k] /\ lost[k] >= lost[k]
    BY <1>7, <2>1
  <2>3. Number(k)' <= Number(k) /\ newest'[k] >= newest[k] /\ lost'[k] >= lost[k]
    BY <1>1, <1>5, <2>2 DEF Number
  <2>4. \A i \in DOMAIN pgq : \E j \in DOMAIN pgq' : pgq'[j] = pgq[i]
    BY <1>1, <1>2, <1>4
  <2>5. Coming(k) => Coming(k)'
    BY <2>3, <2>4, ComingKept
  <2> QED
    BY <2>3, <2>5, StillCovered
<1> QED
  BY <1>6, <1>7

LEMMA CoveredStep ==
  ASSUME TypeOK, TypeOK', Bounded, NothingYet, [Next]_vars, NEW k \in Keys, Covered(k)
  PROVE  Covered(k)'
<1>0. /\ Number(k) \in Numbers /\ newest[k] \in Numbers /\ lost[k] \in Numbers
      /\ TableOf(k) \in Tables
      /\ \A x \in Numbers : x \in Int /\ x >= -1 /\ x >= x /\ x <= x
  <2>1. /\ Number(k) \in Numbers /\ newest[k] \in Numbers /\ lost[k] \in Numbers
        /\ TableOf(k) \in Tables
    BY KeysAre DEF TypeOK, Number
  <2>2. \A x \in Numbers : x \in Int /\ x >= -1 /\ x >= x /\ x <= x
    BY DEF Numbers
  <2> QED
    BY <2>1, <2>2
<1>1. ASSUME UNCHANGED <<db_cfg_states, newest, lost>>, Coming(k) => Coming(k)' PROVE Covered(k)'
  BY <1>0, <1>1, StillCovered DEF Number
<1>2. ASSUME UNCHANGED <<pgq, conns, queue, db_cfg_states, newest, lost>> PROVE Covered(k)'
  <2>1. Coming(k)' = Coming(k)
    BY <1>2 DEF Coming, Brings, Number
  <2> QED
    BY <1>1, <1>2, <2>1
<1>3. ASSUME NEW tok \in Tokens, pgq' = Append(pgq, tok),
             UNCHANGED <<conns, queue, db_cfg_states, newest, lost>>
      PROVE  Covered(k)'
  <2>1. \A i \in DOMAIN pgq : \E j \in DOMAIN pgq' : pgq'[j] = pgq[i]
    BY <1>3, AppendIs DEF TypeOK
  <2>2. Number(k)' <= Number(k)
    BY <1>0, <1>3 DEF Number
  <2>3. Coming(k) => Coming(k)'
    BY <1>3, <2>1, <2>2, ComingKept
  <2> QED
    BY <1>1, <1>3, <2>3
<1>4. ASSUME NEW i \in 1..pool, PgExecute(i) PROVE Covered(k)'
  <2>1. UNCHANGED <<db_cfg_states, newest, lost>>
    BY <1>4, ExecuteStep DEF memVars
  <2> QED
    BY <1>1, <1>4, <2>1, ComingExecuted
<1>5. ASSUME NEW i \in 1..pool, PgAnswer(i) PROVE Covered(k)'
  <2>1. UNCHANGED <<db_cfg_states, newest, lost>>
    BY <1>5, DeliverStep DEF memVars
  <2> QED
    BY <1>1, <1>5, <2>1, ComingDelivered
<1>6. CASE ExecQuery
  <2>1. SyncTokens[boot] \in Tokens
    BY SyncAre DEF TypeOK
  <2> QED
    BY <1>3, <1>6, <2>1 DEF ExecQuery, memVars
<1>7. CASE ConfigurationFinished \/ OnDbCfgReloadTimer
  <2>1. PICK c \in Tokens : c = "check_states"
    BY DEF Tokens
  <2> QED
    BY <1>3, <1>7, <2>1 DEF ConfigurationFinished, OnDbCfgReloadTimer, memVars
<1>8. CASE Process
  <2> DEFINE e == Head(queue)
  <2>1. /\ queue # <<>> /\ queue' = Tail(queue) /\ 1 \in DOMAIN queue /\ e = queue[1]
        /\ e \in Answer /\ e.vers \in [Tables -> Nat] /\ UNCHANGED conns
    <3>1. queue # <<>> /\ queue' = Tail(queue) /\ queue \in Seq(Answer) /\ UNCHANGED conns
      BY <1>8 DEF Process, TypeOK
    <3>2. e \in Answer /\ 1 \in DOMAIN queue /\ e = queue[1]
      BY <3>1, TailIs
    <3> QED
      BY <3>1, <3>2 DEF Answer
  <2> HIDE DEF e
  <2>2. CASE ~Configured
    <3>1. UNCHANGED <<newest, db_cfg_states>>
      BY <1>8, <2>2 DEF Process, memVars
    <3>2. db_cfg_states[TableOf(k)] = -1
      BY <1>0, <2>2 DEF NothingYet
    <3>3. newest'[k] >= Number(k)'
      BY <1>0, <3>1, <3>2 DEF Number
    <3> QED
      BY <3>3 DEF Covered
  <2>3. CASE e.res = "result" /\ e.token = "check_states" /\ OnDbCfgReloadTimerResponse(e.vers)
    <3>1. e.token # k
      BY <2>3, KeysAssumption
    <3> QED
      BY <2>1, <2>3, <3>1, CheckAnswered DEF e
  <2>4. ASSUME UNCHANGED <<pgq, db_cfg_states>>, k # e.token,
               newest'[k] >= newest[k], lost'[k] >= lost[k]
        PROVE  Covered(k)'
    <3>1. Number(k)' <= Number(k)
      BY <1>0, <2>4 DEF Number
    <3>2. \A i \in DOMAIN pgq : \E j \in DOMAIN pgq' : pgq'[j] = pgq[i]
      BY <2>4
    <3>3. Coming(k) => Coming(k)'
      BY <2>1, <2>4, <3>1, <3>2, ComingKept DEF e
    <3> QED
      BY <2>4, <3>1, <3>3, StillCovered
  <2>4a. ASSUME UNCHANGED <<pgq, db_cfg_states>>, k = e.token,
               newest'[k] >= newest[k], lost'[k] >= lost[k],
               \/ newest'[k] >= Number(k) \/ lost'[k] >= Number(k)
               \/ e.res = "result" /\ e.vers[TableOf(k)] < Number(k)
        PROVE  Covered(k)'
    <3>1. Number(k)' = Number(k) /\ Number(k)' <= Number(k)
      BY <1>0, <2>4a DEF Number
    <3>2. CASE newest'[k] >= Number(k) \/ lost'[k] >= Number(k)
      BY <3>1, <3>2 DEF Covered
    <3>3. CASE e.res = "result" /\ e.vers[TableOf(k)] < Number(k)
      <4>1. Coming(k) => Coming(k)'
        <5>1. CASE \E i \in DOMAIN pgq : pgq[i] = k
          BY <2>4a, <5>1 DEF Coming
        <5>2. CASE Brings(conns, k)
          BY <2>1, <3>1, <5>2 DEF Coming, Brings
        <5>3. CASE Brings(queue, k)
          <6>1. PICK i \in DOMAIN queue :
                  /\ queue[i].token = k
                  /\ queue[i].res = "result" => queue[i].vers[TableOf(k)] >= Number(k)
            BY <5>3 DEF Brings
          <6>2. i # 1
            <7>1. e.vers[TableOf(k)] \in Int /\ Number(k) \in Int
              BY <1>0, <2>1, VersAre
            <7>2. ~(e.vers[TableOf(k)] >= Number(k))
              BY <3>3, <7>1
            <7> QED
              BY <2>1, <3>3, <6>1, <7>2
          <6>3. i - 1 \in DOMAIN queue' /\ queue'[i - 1] = queue[i]
            <7>1. queue \in Seq(Answer)
              BY DEF TypeOK
            <7> QED
              BY <2>1, <6>1, <6>2, <7>1, TailIs
          <6>4. PICK m \in DOMAIN queue' : queue'[m] = queue[i]
            BY <6>3
          <6>5. Brings(queue, k)'
            BY <3>1, <6>1, <6>4 DEF Brings
          <6> QED
            BY <6>5 DEF Coming
        <5> QED
          BY <5>1, <5>2, <5>3 DEF Coming
      <4> QED
        BY <2>4a, <3>1, <4>1, StillCovered
    <3> QED
      BY <2>4a, <3>2, <3>3
  <2>5. CASE e.res = "result" /\ e.token \in Keys /\ OnDbResponse(e)
    <3>1. /\ UNCHANGED <<pgq, db_cfg_states>>
          /\ newest'[k] >= newest[k] /\ lost'[k] >= lost[k]
          /\ \/ newest'[e.token] >= e.vers[TableOf(e.token)]
             \/ lost'[e.token] >= e.vers[TableOf(e.token)]
      BY <2>1, <2>5, LoadStep
    <3>2. CASE k = e.token
      <4>1. e.vers[TableOf(k)] \in Int /\ Number(k) \in Int /\ newest'[k] \in Int /\ lost'[k] \in Int
        <5>1. newest'[k] \in Numbers /\ lost'[k] \in Numbers
          BY DEF TypeOK
        <5> QED
          BY <1>0, <2>1, <5>1, VersAre
      <4>2. newest'[k] >= e.vers[TableOf(k)] \/ lost'[k] >= e.vers[TableOf(k)]
        BY <3>1, <3>2
      <4>3. \/ newest'[k] >= Number(k) \/ lost'[k] >= Number(k)
            \/ e.vers[TableOf(k)] < Number(k)
        BY <4>1, <4>2
      <4> QED
        BY <2>4a, <2>5, <3>1, <3>2, <4>3
    <3>3. CASE k # e.token
      BY <2>4, <3>1, <3>3
    <3> QED
      BY <3>2, <3>3
  <2>6. CASE /\ e.res # "result"
             /\ lost' = [j \in Keys |-> IF j = e.token THEN Greater(lost[j], db_cfg_states[TableOf(j)])
                                                       ELSE lost[j]]
             /\ UNCHANGED <<pgq, cond, db_cfg_states, mem, loaded, newest, client>>
    <3>1. lost'[k] >= lost[k] /\ (k = e.token => lost'[k] >= Number(k))
      BY <2>6, FailStep DEF Number
    <3>2. newest'[k] >= newest[k]
      BY <1>0, <2>6
    <3> QED
      BY <2>4, <2>4a, <2>6, <3>1, <3>2
  <2> QED
    BY <1>8, <2>2, <2>3, <2>5, <2>6 DEF Process, e
<1>9. CASE QueryDone \/ (\E u \in Tables : ChangeTable(u)) \/ UNCHANGED vars
  <2>1. UNCHANGED <<pgq, conns, queue, db_cfg_states, newest, lost>>
    BY <1>9 DEF QueryDone, ChangeTable, vars, memVars
  <2> QED
    BY <1>2, <2>1
<1> QED
  BY <1>4, <1>5, <1>6, <1>7, <1>8, <1>9 DEF Next, Terminated

(* A remembered number stands for data as new that was loaded, for a load  *)
(* under way or for one of that number that failed, for any number of      *)
(* connections, whatever the order in which they execute and deliver, and  *)
(* however the tables change meanwhile.                                    *)
THEOREM RememberedStandsForLoads == Spec => []RememberedIsLoaded
<1>1. Init => LoadInv
  <2> SUFFICES ASSUME Init PROVE LoadInv
    OBVIOUS
  <2>1. Bounded /\ NothingYet
    <3>1. \A t \in Tables : db_cfg_states[t] = -1 /\ db[t].ver = 1
      BY DEF Init
    <3>2. DOMAIN queue = {} /\ DOMAIN conns = {}
      BY DEF Init
    <3> QED
      BY <3>1, <3>2 DEF Bounded, Past, NothingYet
  <2>2. ASSUME NEW k \in Keys PROVE Covered(k)
    <3>1. newest[k] = -1 /\ db_cfg_states[TableOf(k)] = -1
      BY KeysAre DEF Init
    <3> QED
      BY <3>1 DEF Covered, Number
  <2> QED
    BY <2>1, <2>2, TypeInit DEF LoadInv
<1>2. LoadInv /\ [Next]_vars => LoadInv'
  <2> SUFFICES ASSUME LoadInv, [Next]_vars PROVE LoadInv'
    OBVIOUS
  <2>1. TypeOK /\ TypeOK' /\ Bounded /\ NothingYet /\ Bounded' /\ NothingYet'
    BY TypeStep, BoundedStep, NothingYetStep DEF LoadInv
  <2>2. \A k \in Keys : Covered(k)'
    BY <2>1, CoveredStep DEF LoadInv
  <2> QED
    BY <2>1, <2>2 DEF LoadInv
<1>3. LoadInv => RememberedIsLoaded
  <2> SUFFICES ASSUME LoadInv, NEW t \in Tables, NEW k \in KeysOf(t)
               PROVE  newest[k] >= db_cfg_states[t] \/ Pending(k) \/ lost[k] >= db_cfg_states[t]
    BY DEF RememberedIsLoaded
  <2>1. k \in Keys /\ TableOf(k) = t
    BY KeysAre
  <2>2. newest[k] >= Number(k) \/ lost[k] >= Number(k) \/ Coming(k)
    BY <2>1 DEF LoadInv, Covered
  <2>3. Coming(k) => Pending(k)
    BY DEF Coming, Brings, Pending
  <2> QED
    BY <2>1, <2>2, <2>3 DEF Number
<1> QED
  BY <1>1, <1>2, <1>3, PTL DEF Spec


-----------------------------------------------------------------------------
(* With one connection the answers come in the order of the executions:    *)
(* none brings less than what is loaded or than one before it.             *)
NewestStays == pool = 1 => \A k \in Keys : loaded[k] = newest[k]

Loads(e) == e.res = "result" /\ e.token \in Keys
Fresh(e) == Loads(e) => e.vers[TableOf(e.token)] >= newest[e.token]
Before(a, b) ==
  Loads(a) /\ Loads(b) /\ a.token = b.token =>
    a.vers[TableOf(a.token)] <= b.vers[TableOf(b.token)]

InOrder ==
  /\ Len(conns) <= 1
  /\ \A i \in DOMAIN conns : Fresh(conns[i])
  /\ \A i \in DOMAIN queue : Fresh(queue[i])
  /\ \A i, j \in DOMAIN queue : i < j => Before(queue[i], queue[j])
  /\ \A i \in DOMAIN queue : \A j \in DOMAIN conns : Before(queue[i], conns[j])

NewestPast == \A k \in Keys : newest[k] <= db[TableOf(k)].ver

(* The inductive invariant of one connection.                              *)
OrderInv == TypeOK /\ Bounded /\ NewestPast /\ NewestStays /\ (pool = 1 => InOrder)

LEMMA NumbersAre ==
  ASSUME TypeOK
  PROVE  /\ \A k \in Keys : /\ newest[k] \in Int /\ loaded[k] \in Int
                            /\ TableOf(k) \in Tables /\ db[TableOf(k)].ver \in Int
         /\ \A e \in Answer : Loads(e) => e.vers[TableOf(e.token)] \in Int
<1>1. \A k \in Keys : newest[k] \in Numbers /\ loaded[k] \in Numbers
  BY DEF TypeOK
<1>2. \A k \in Keys : TableOf(k) \in Tables /\ db[TableOf(k)].ver \in Nat
  BY KeysAre DEF TypeOK
<1>3. \A e \in Answer : Loads(e) => e.vers[TableOf(e.token)] \in Nat
  BY <1>2, VersAre DEF Loads
<1> QED
  BY <1>1, <1>2, <1>3 DEF Numbers

(* What a load makes of the numbers: both are the answer's.                *)
LEMMA LoadInOrder ==
  ASSUME TypeOK, NEW e \in Answer, Loads(e), OnDbResponse(e), Fresh(e),
         NEW k \in Keys, loaded[k] = newest[k]
  PROVE  /\ loaded'[k] = newest'[k]
         /\ newest'[k] = newest[k] \/ (k = e.token /\ newest'[k] = e.vers[TableOf(k)])
<1>1. PICK v \in Int : v = e.vers[TableOf(e.token)]
  BY NumbersAre
<1>2. e.token \in Keys /\ newest[e.token] \in Int /\ v >= newest[e.token]
  BY <1>1, NumbersAre DEF Fresh, Loads
<1>3. Greater(newest[e.token], v) = v
  BY <1>2 DEF Greater
<1>4. CASE UNCHANGED <<loaded, newest>>
  BY <1>4
<1>5. CASE /\ loaded' = [loaded EXCEPT ![e.token] = v]
           /\ newest' = [newest EXCEPT ![e.token] = v]
  <2>1. CASE k = e.token
    <3>1. loaded'[k] = v /\ newest'[k] = v
      BY <1>2, <1>5, <2>1 DEF TypeOK
    <3> QED
      BY <1>1, <2>1, <3>1
  <2>2. CASE k # e.token
    BY <1>5, <2>2 DEF TypeOK
  <2> QED
    BY <2>1, <2>2
<1> QED
  BY <1>1, <1>3, <1>4, <1>5 DEF OnDbResponse

LEMMA OrderProcess ==
  ASSUME OrderInv, TypeOK', pool = 1, Process
  PROVE  (\A k \in Keys : loaded'[k] = newest'[k]) /\ InOrder'
<1>0. /\ TypeOK /\ InOrder /\ \A k \in Keys : loaded[k] = newest[k]
      /\ conns \in Seq(Answer) /\ queue \in Seq(Answer)
  BY DEF OrderInv, NewestStays, TypeOK
<1>1. queue # <<>> /\ queue' = Tail(queue) /\ UNCHANGED conns
  BY DEF Process
<1>2. /\ \A j \in DOMAIN queue' : j + 1 \in DOMAIN queue /\ queue'[j] = queue[j + 1] /\ j \in Int
      /\ Head(queue) = queue[1] /\ 1 \in DOMAIN queue /\ Head(queue) \in Answer
      /\ \A j \in DOMAIN queue' : 1 < j + 1
  BY <1>0, <1>1, TailIs
<1>3. PICK e \in Answer : e = Head(queue) /\ e = queue[1]
  BY <1>2
<1>4. Fresh(e) /\ \A j \in DOMAIN queue' : Before(e, queue'[j])
  BY <1>0, <1>2, <1>3 DEF InOrder
<1>5. \A j \in DOMAIN conns : Before(e, conns[j])
  BY <1>0, <1>2, <1>3 DEF InOrder
<1>6. ASSUME NEW i \in DOMAIN queue', NEW j \in DOMAIN queue', i < j
      PROVE  Before(queue'[i], queue'[j])
  <2>1. i + 1 < j + 1
    BY <1>2, <1>6
  <2> QED
    BY <1>0, <1>2, <2>1 DEF InOrder
<1>7. \A i \in DOMAIN queue' : \A j \in DOMAIN conns : Before(queue'[i], conns[j])
  BY <1>0, <1>2 DEF InOrder
<1>8. (\A j \in DOMAIN conns : Fresh(conns[j])) /\ (\A j \in DOMAIN queue' : Fresh(queue'[j]))
  BY <1>0, <1>2 DEF InOrder
<1>9. CASE UNCHANGED <<loaded, newest>>
  <2>1. /\ \A j \in DOMAIN conns' : Fresh(conns[j])'
        /\ \A j \in DOMAIN queue' : Fresh(queue[j])'
    BY <1>1, <1>8, <1>9 DEF Fresh, Loads
  <2> QED
    BY <1>0, <1>1, <1>6, <1>7, <1>9, <2>1 DEF InOrder, Before, Loads
<1>10. CASE Loads(e) /\ OnDbResponse(e)
  <2>1. \A k \in Keys :
          /\ loaded'[k] = newest'[k]
          /\ newest'[k] = newest[k] \/ (k = e.token /\ newest'[k] = e.vers[TableOf(k)])
    BY <1>0, <1>4, <1>10, LoadInOrder
  <2>2. ASSUME NEW a \in Answer, Fresh(a), Before(e, a), Loads(a)
        PROVE  a.vers[TableOf(a.token)] >= newest'[a.token]
    <3>1. a.token \in Keys /\ a.vers[TableOf(a.token)] \in Int
      BY <1>0, <2>2, NumbersAre DEF Loads
    <3>2. CASE newest'[a.token] = newest[a.token]
      BY <2>2, <3>2 DEF Fresh
    <3>3. CASE a.token = e.token /\ newest'[a.token] = e.vers[TableOf(a.token)]
      <4>1. e.vers[TableOf(e.token)] \in Int
        BY <1>0, <1>10, NumbersAre
      <4>2. e.vers[TableOf(e.token)] <= a.vers[TableOf(a.token)]
        BY <1>10, <2>2, <3>3 DEF Before
      <4> QED
        BY <3>1, <3>3, <4>1, <4>2
    <3> QED
      BY <2>1, <3>1, <3>2, <3>3
  <2>3. \A j \in DOMAIN conns : Loads(conns[j]) =>
          conns[j].vers[TableOf(conns[j].token)] >= newest'[conns[j].token]
    BY <1>0, <1>5, <1>8, <2>2
  <2>4. \A j \in DOMAIN queue' : queue'[j] \in Answer
    BY <1>0, <1>2
  <2>5. \A j \in DOMAIN queue' : Loads(queue'[j]) =>
          queue'[j].vers[TableOf(queue'[j].token)] >= newest'[queue'[j].token]
    BY <1>4, <1>8, <2>2, <2>4
  <2>6. /\ \A j \in DOMAIN conns' : Fresh(conns[j])'
        /\ \A j \in DOMAIN queue' : Fresh(queue[j])'
    BY <1>1, <2>3, <2>5 DEF Fresh, Loads
  <2> QED
    BY <1>0, <1>1, <1>6, <1>7, <2>1, <2>6 DEF InOrder, Before, Loads
<1> QED
  BY <1>3, <1>9, <1>10 DEF Process, memVars, OnDbCfgReloadTimerResponse, Loads

LEMMA OrderConnection ==
  ASSUME OrderInv, TypeOK', pool = 1, NEW i \in 1..pool, PgExecute(i) \/ PgAnswer(i)
  PROVE  InOrder'
<1>0. /\ TypeOK /\ InOrder /\ Bounded /\ NewestPast
      /\ conns \in Seq(Answer) /\ queue \in Seq(Answer) /\ conns' \in Seq(Answer)
      /\ Len(conns) \in Nat /\ Len(conns) <= 1
  BY DEF OrderInv, TypeOK, InOrder
<1>1. CASE PgExecute(i)
  <2>1. PICK e \in Answer :
          /\ conns' = Append(conns, e)
          /\ e.res = "result" /\ e.token \in Keys => e.vers[TableOf(e.token)] = db[TableOf(e.token)].ver
    BY <1>0, <1>1, ExecuteStep
  <2>2. UNCHANGED <<db, queue, newest>>
    BY <1>0, <1>1, ExecuteStep DEF dbVars, memVars
  <2>3. Len(conns) = 0
    BY <1>0, <1>1 DEF PgExecute
  <2>4. Len(conns') = 1 /\ conns'[1] = e /\ DOMAIN conns' = {1}
    BY <1>0, <2>1, <2>3, AppendIs
  <2>5. Fresh(e)
    BY <1>0, <2>1, NumbersAre DEF Fresh, Loads, NewestPast
  <2>6. ASSUME NEW j \in DOMAIN queue PROVE Before(queue[j], e)
    <3>1. PICK a \in Answer : a = queue[j]
      BY <1>0
    <3>2. SUFFICES ASSUME Loads(a), Loads(e), a.token = e.token
                   PROVE  a.vers[TableOf(a.token)] <= e.vers[TableOf(e.token)]
      BY <3>1 DEF Before
    <3>3. TableOf(a.token) \in Tables
      BY <3>2, KeysAre DEF Loads
    <3>4. a.vers[TableOf(a.token)] <= db[TableOf(a.token)].ver
      BY <1>0, <3>1, <3>3 DEF Bounded, Past
    <3> QED
      BY <2>1, <3>2, <3>4 DEF Loads
  <2>7. \A j \in DOMAIN queue' : Fresh(queue[j])'
    BY <1>0, <2>2 DEF InOrder, Fresh, Loads
  <2>8. \A j \in DOMAIN conns' : Fresh(conns[j])'
    BY <2>2, <2>4, <2>5 DEF Fresh, Loads
  <2> QED
    BY <1>0, <2>2, <2>4, <2>6, <2>7, <2>8 DEF InOrder, Before, Loads
<1>2. CASE PgAnswer(i)
  <2>1. /\ conns' = Without(conns, i) /\ i \in Nat \ {0} /\ i <= Len(conns) /\ i \in DOMAIN conns
        /\ queue' = Append(queue, conns[i]) /\ conns[i] \in Answer /\ UNCHANGED newest
    BY <1>0, <1>2, DeliverStep DEF memVars
  <2>2. Len(conns') = 0 /\ DOMAIN conns' = {}
    <3>1. Len(conns') = Len(conns) - 1
      BY <1>0, <2>1, WithoutIs
    <3>2. Len(conns') = 0
      BY <1>0, <2>1, <3>1
    <3> QED
      BY <1>0, <3>2
  <2>3. PICK n \in Nat : n = Len(queue) + 1
    BY <1>0
  <2>4. /\ \A j \in DOMAIN queue : queue'[j] = queue[j] /\ j < n
        /\ queue'[n] = conns[i] /\ n \in DOMAIN queue'
        /\ \A j \in DOMAIN queue' : j \in DOMAIN queue \/ j = n
        /\ DOMAIN queue' \subseteq Nat
    BY <1>0, <2>1, <2>3, AppendIs
  <2>5. \A j \in DOMAIN queue' : Fresh(queue'[j])
    BY <1>0, <2>1, <2>4 DEF InOrder
  <2>6. ASSUME NEW j \in DOMAIN queue', NEW l \in DOMAIN queue', j < l
        PROVE  Before(queue'[j], queue'[l])
    <3>1. j \in DOMAIN queue
      <4>1. SUFFICES ASSUME j = n PROVE FALSE
        BY <2>4
      <4>2. l \in DOMAIN queue => l < n
        BY <2>4
      <4> QED
        BY <2>4, <2>6, <4>1, <4>2
    <3>2. CASE l \in DOMAIN queue
      BY <1>0, <2>4, <2>6, <3>1, <3>2 DEF InOrder
    <3>3. CASE l = n
      BY <1>0, <2>1, <2>4, <3>1, <3>3 DEF InOrder
    <3> QED
      BY <2>4, <3>2, <3>3
  <2>7. \A j \in DOMAIN queue' : Fresh(queue[j])'
    BY <2>1, <2>5 DEF Fresh, Loads
  <2> QED
    BY <2>2, <2>6, <2>7 DEF InOrder, Before, Loads
<1> QED
  BY <1>1, <1>2

LEMMA NewestPastStep ==
  ASSUME TypeOK, TypeOK', Bounded, NewestPast, [Next]_vars
  PROVE  NewestPast'
<1> SUFFICES ASSUME NEW k \in Keys PROVE newest'[k] <= db'[TableOf(k)].ver
  BY DEF NewestPast
<1>0. PICK t \in Tables : t = TableOf(k)
  BY KeysAre
<1>1. newest[k] \in Int /\ db[t].ver \in Int /\ newest[k] <= db[t].ver
  BY <1>0, NumbersAre DEF NewestPast
<1>2. ASSUME NEW u \in Tables, ChangeTable(u) PROVE newest'[k] <= db'[t].ver
  <2>1. PICK d \in Data : db' = [db EXCEPT ![u] = [ver |-> db[u].ver + 1, data |-> d]]
    BY <1>2 DEF ChangeTable
  <2>2. db'[t].ver = db[t].ver \/ db'[t].ver = db[t].ver + 1
    BY <2>1 DEF TypeOK
  <2>3. UNCHANGED newest
    BY <1>2 DEF ChangeTable, memVars
  <2> QED
    BY <1>1, <2>2, <2>3
<1>3. CASE Process
  <2>1. queue # <<>> /\ UNCHANGED db /\ queue \in Seq(Answer)
    BY <1>3 DEF Process, dbVars, TypeOK
  <2>2. PICK e \in Answer : e = Head(queue) /\ e = queue[1] /\ 1 \in DOMAIN queue
    BY <2>1, TailIs
  <2>3. CASE UNCHANGED newest
    BY <1>0, <1>1, <2>1, <2>3
  <2>4. CASE e.token \in Keys /\ OnDbResponse(e)
    <3>1. PICK v : v = Greater(newest[e.token], e.vers[TableOf(e.token)])
      OBVIOUS
    <3>2. UNCHANGED newest \/ newest' = [newest EXCEPT ![e.token] = v]
      BY <2>4, <3>1 DEF OnDbResponse
    <3>3. CASE newest' = [newest EXCEPT ![e.token] = v] /\ k = e.token
      <4>1. newest'[k] = v
        BY <3>3 DEF TypeOK
      <4>2. e.vers[t] <= db[t].ver
        BY <2>2 DEF Bounded, Past
      <4>3. v = newest[k] \/ v = e.vers[t]
        BY <1>0, <3>1, <3>3 DEF Greater
      <4> QED
        BY <1>0, <1>1, <2>1, <4>1, <4>2, <4>3
    <3>4. CASE newest' = [newest EXCEPT ![e.token] = v] /\ k # e.token
      <4>1. newest'[k] = newest[k]
        BY <3>4 DEF TypeOK
      <4> QED
        BY <1>0, <1>1, <2>1, <4>1
    <3> QED
      BY <2>3, <3>2, <3>3, <3>4
  <2>5. UNCHANGED newest \/ (e.token \in Keys /\ OnDbResponse(e))
    BY <1>3, <2>2 DEF Process, memVars, OnDbCfgReloadTimerResponse
  <2> QED
    BY <2>3, <2>4, <2>5
<1>4. CASE UNCHANGED <<db, newest>>
  BY <1>0, <1>1, <1>4
<1>5. (\E u \in Tables : ChangeTable(u)) \/ Process \/ UNCHANGED <<db, newest>>
  BY DEF Next, PgExecute, PgAnswer, ExecQuery, QueryDone, ConfigurationFinished,
         OnDbCfgReloadTimer, Terminated, vars, dbVars, memVars
<1> QED
  BY <1>0, <1>2, <1>3, <1>4, <1>5

(* With one connection to the routing database the data in memory is the   *)
(* newest that was ever loaded: no older load takes its place, although    *)
(* process compares no numbers.                                            *)
THEOREM OneConnectionInOrder == Spec => []NewestStays
<1>1. Init => OrderInv
  <2> SUFFICES ASSUME Init PROVE OrderInv
    OBVIOUS
  <2>1. \A t \in Tables : db_cfg_states[t] = -1 /\ db[t].ver = 1
    BY DEF Init
  <2>2. DOMAIN queue = {} /\ DOMAIN conns = {} /\ Len(conns) = 0
    BY DEF Init
  <2>3. Bounded /\ InOrder
    BY <2>1, <2>2 DEF Bounded, Past, InOrder
  <2>4. \A k \in Keys : loaded[k] = -1 /\ newest[k] = -1 /\ TableOf(k) \in Tables
    BY KeysAre DEF Init
  <2>5. NewestPast /\ NewestStays
    BY <2>1, <2>4 DEF NewestPast, NewestStays
  <2> QED
    BY <2>3, <2>5, TypeInit DEF OrderInv
<1>2. OrderInv /\ [Next]_vars => OrderInv'
  <2> SUFFICES ASSUME OrderInv, [Next]_vars PROVE OrderInv'
    OBVIOUS
  <2>1. TypeOK' /\ Bounded' /\ NewestPast'
    BY TypeStep, BoundedStep, NewestPastStep DEF OrderInv
  <2>2. pool' = pool
    BY DEF Next, ChangeTable, PgExecute, PgAnswer, ExecQuery, QueryDone, ConfigurationFinished,
           OnDbCfgReloadTimer, Process, Terminated, vars, dbVars
  <2>3. ASSUME pool = 1 PROVE (\A k \in Keys : loaded'[k] = newest'[k]) /\ InOrder'
    <3>1. CASE Process
      BY <2>1, <2>3, <3>1, OrderProcess
    <3>2. ASSUME NEW i \in 1..pool, PgExecute(i) \/ PgAnswer(i)
          PROVE  (\A k \in Keys : loaded'[k] = newest'[k]) /\ InOrder'
      <4>1. UNCHANGED <<loaded, newest>>
        BY <3>2 DEF PgExecute, PgAnswer, memVars
      <4> QED
        BY <2>1, <2>3, <3>2, <4>1, OrderConnection DEF OrderInv, NewestStays
    <3>3. CASE UNCHANGED <<conns, queue, loaded, newest>>
      BY <2>3, <3>3 DEF OrderInv, NewestStays, InOrder, Fresh, Before, Loads
    <3>4. \/ Process \/ \E i \in 1..pool : PgExecute(i) \/ PgAnswer(i)
          \/ UNCHANGED <<conns, queue, loaded, newest>>
      BY DEF Next, ChangeTable, ExecQuery, QueryDone, ConfigurationFinished,
             OnDbCfgReloadTimer, Terminated, vars, memVars
    <3> QED
      BY <3>1, <3>2, <3>3, <3>4
  <2> QED
    BY <2>1, <2>2, <2>3 DEF OrderInv, NewestStays
<1>3. OrderInv => NewestStays
  BY DEF OrderInv
<1> QED
  BY <1>1, <1>2, <1>3, PTL DEF Spec


-----------------------------------------------------------------------------
(* The registrations: the difference between the rows in memory and those  *)
(* of the database, applied to the first, gives the second.                *)
LEMMA RowIs ==
  ASSUME NEW rows, UniqueIds(rows), NEW r \in rows
  PROVE  Row(rows, r.id) = r
BY DEF Row, UniqueIds

LEMMA DifferenceApplied ==
  ASSUME NEW L, NEW D, UniqueIds(L), UniqueIds(D)
  PROVE  LoadRegistrations(L, L, D) = D
<1> DEFINE updated == {i \in Ids(L) \cap Ids(D) : IsRegUpdated(Row(L, i), Row(D, i))}
           removed == (Ids(L) \ Ids(D)) \cup updated
           added   == (Ids(D) \ Ids(L)) \cup updated
           res     == {r \in L : r.id \notin removed} \cup {r \in D : r.id \in added}
<1>1. LoadRegistrations(L, L, D) = res
  BY DEF LoadRegistrations, AddRegistrations, RemoveRegistrations
<1>2. ASSUME NEW i \in Ids(L), i \notin removed PROVE i \in Ids(D) /\ Row(L, i) = Row(D, i)
  BY <1>2 DEF IsRegUpdated
<1>3. ASSUME NEW i \in Ids(D), i \notin added
      PROVE  i \in Ids(L) /\ Row(L, i) = Row(D, i) /\ i \notin removed
  BY <1>3 DEF IsRegUpdated
<1>4. (\A r \in L : r.id \in Ids(L)) /\ (\A r \in D : r.id \in Ids(D))
  BY DEF Ids
<1>5. (\A i \in Ids(L) : \E r \in L : r.id = i) /\ (\A i \in Ids(D) : \E r \in D : r.id = i)
  BY DEF Ids
<1> HIDE DEF removed, added
<1>6. ASSUME NEW x \in res PROVE x \in D
  <2>1. CASE x \in D
    BY <2>1
  <2>2. CASE x \in L /\ x.id \notin removed
    <3>1. x.id \in Ids(D) /\ Row(L, x.id) = Row(D, x.id)
      BY <1>2, <1>4, <2>2
    <3>2. PICK y \in D : y.id = x.id
      BY <1>5, <3>1
    <3>3. Row(L, x.id) = x /\ Row(D, y.id) = y
      BY <2>2, RowIs
    <3> QED
      BY <3>1, <3>2, <3>3
  <2> QED
    BY <1>6, <2>1, <2>2
<1>7. ASSUME NEW x \in D PROVE x \in res
  <2>1. CASE x.id \in added
    BY <2>1
  <2>2. CASE x.id \notin added
    <3>1. x.id \in Ids(L) /\ Row(L, x.id) = Row(D, x.id) /\ x.id \notin removed
      BY <1>3, <1>4, <2>2
    <3>2. PICK y \in L : y.id = x.id
      BY <1>5, <3>1
    <3>3. Row(D, x.id) = x /\ Row(L, y.id) = y
      BY RowIs
    <3>4. x \in L
      BY <3>1, <3>2, <3>3
    <3> QED
      BY <3>1, <3>4
  <2> QED
    BY <2>1, <2>2
<1>8. res = D
  BY <1>6, <1>7
<1> QED
  BY <1>1, <1>8

LEMMA DefaultedUnique ==
  ASSUME NEW d \in Data
  PROVE  UniqueIds(Defaulted(d))
<1>1. /\ \A i \in DOMAIN d : d[i] = [id |-> d[i].id, val |-> d[i].val]
      /\ \A i, j \in DOMAIN d : d[i].id = d[j].id => i = j
  BY DbAssumption
<1> DEFINE def(r) == [r EXCEPT !.val = IF @ = "bad" THEN "default" ELSE @]
<1>2. \A x \in Defaulted(d) : \E i \in DOMAIN d : x = def(d[i])
  BY DEF Defaulted, Rows
<1>3. ASSUME NEW i \in DOMAIN d PROVE def(d[i]).id = d[i].id
  <2>1. PICK a, b : d[i] = [id |-> a, val |-> b]
    BY <1>1
  <2>2. PICK v : v = IF d[i].val = "bad" THEN "default" ELSE d[i].val
    OBVIOUS
  <2>3. def(d[i]) = [d[i] EXCEPT !.val = v]
    BY <2>2
  <2> QED
    BY <2>1, <2>3
<1> HIDE DEF def
<1> SUFFICES ASSUME NEW x \in Defaulted(d), NEW y \in Defaulted(d), x.id = y.id PROVE x = y
  BY DEF UniqueIds
<1>4. PICK i \in DOMAIN d : x = def(d[i])
  BY <1>2
<1>5. PICK j \in DOMAIN d : y = def(d[j])
  BY <1>2
<1>6. i = j
  BY <1>1, <1>3, <1>4, <1>5
<1> QED
  BY <1>4, <1>5, <1>6

LEMMA AnswersStep ==
  ASSUME TypeOK, AnswersAreData, [Next]_vars
  PROVE  AnswersAreData'
<1>0. conns \in Seq(Answer) /\ queue \in Seq(Answer)
  BY DEF TypeOK
<1> DEFINE IsData(e) == e.res = "result" /\ e.token \in Keys => e.data \in Data
<1>00. (\A j \in DOMAIN conns : IsData(conns[j])) /\ (\A j \in DOMAIN queue : IsData(queue[j]))
  BY DEF AnswersAreData, OfTables
<1>000. ASSUME \A j \in DOMAIN conns' : IsData(conns'[j]), \A j \in DOMAIN queue' : IsData(queue'[j])
        PROVE  AnswersAreData'
  BY <1>000 DEF AnswersAreData, OfTables
<1> HIDE DEF IsData
<1>1. ASSUME NEW i \in 1..pool, PgExecute(i) PROVE AnswersAreData'
  <2>1. PICK e \in Answer : conns' = Append(conns, e) /\ IsData(e)
    BY <1>1, ExecuteStep DEF IsData
  <2>2. UNCHANGED queue
    BY <1>1, ExecuteStep
  <2>3. \A j \in DOMAIN conns' : conns'[j] = e \/ (j \in DOMAIN conns /\ conns'[j] = conns[j])
    BY <1>0, <2>1, AppendIs
  <2> QED
    BY <1>00, <1>000, <2>1, <2>2, <2>3
<1>2. ASSUME NEW i \in 1..pool, PgAnswer(i) PROVE AnswersAreData'
  <2>1. /\ conns' = Without(conns, i) /\ i \in Nat \ {0} /\ i <= Len(conns) /\ i \in DOMAIN conns
        /\ queue' = Append(queue, conns[i]) /\ conns[i] \in Answer
    BY <1>2, DeliverStep
  <2>2. \A j \in DOMAIN queue' : queue'[j] = conns[i] \/ (j \in DOMAIN queue /\ queue'[j] = queue[j])
    BY <1>0, <2>1, AppendIs
  <2>3. \A y \in DOMAIN conns' : \E j \in DOMAIN conns : conns'[y] = conns[j]
    BY <1>0, <2>1, WithoutIs
  <2> QED
    BY <1>00, <1>000, <2>1, <2>2, <2>3
<1>3. CASE Process
  <2>1. queue # <<>> /\ queue' = Tail(queue) /\ UNCHANGED conns
    BY <1>3 DEF Process
  <2>2. \A j \in DOMAIN queue' : j + 1 \in DOMAIN queue /\ queue'[j] = queue[j + 1]
    BY <1>0, <2>1, TailIs
  <2> QED
    BY <1>00, <1>000, <2>1, <2>2
<1>4. CASE UNCHANGED <<conns, queue>>
  BY <1>00, <1>000, <1>4
<1>5. \/ \E i \in 1..pool : PgExecute(i) \/ PgAnswer(i)
      \/ Process
      \/ UNCHANGED <<conns, queue>>
  BY DEF Next, ChangeTable, ExecQuery, QueryDone, ConfigurationFinished, OnDbCfgReloadTimer,
         Terminated, vars
<1> QED
  BY <1>1, <1>2, <1>3, <1>4, <1>5

LEMMA MirrorStep ==
  ASSUME MirrorInv, TypeOK', [Next]_vars, "registrations" \in Keys
  PROVE  client' = mem'["registrations"] /\ UniqueIds(mem'["registrations"])
<1>0. PICK reg \in Keys : reg = "registrations"
  OBVIOUS
<1>00. client = mem[reg] /\ UniqueIds(mem[reg]) /\ TypeOK
  BY <1>0 DEF MirrorInv, ClientMirrors
<1>1. CASE UNCHANGED <<mem, client>>
  BY <1>0, <1>00, <1>1
<1>2. ASSUME queue # <<>>, Head(queue).res = "result", Head(queue).token \in Keys,
             OnDbResponse(Head(queue))
      PROVE  client' = mem'["registrations"] /\ UniqueIds(mem'["registrations"])
  <2>1. PICK e \in Answer : e = Head(queue) /\ e = queue[1] /\ 1 \in DOMAIN queue
    BY <1>00, <1>2, TailIs DEF TypeOK
  <2>2. e.data \in Data
    BY <1>2, <2>1 DEF MirrorInv, AnswersAreData, OfTables
  <2>3. PICK new : new = Loaded(e.token, mem[e.token], e.data)
    OBVIOUS
  <2>4. mem' = [mem EXCEPT ![e.token] = new]
    BY <1>2, <2>1, <2>3 DEF OnDbResponse
  <2>5. client' = IF e.token = "registrations"
                  THEN LoadRegistrations(client, mem[e.token], mem'[e.token]) ELSE client
    BY <1>2, <2>1 DEF OnDbResponse
  <2>6. CASE e.token = reg
    <3>1. new = Defaulted(e.data)
      BY <1>0, <2>3, <2>6 DEF Loaded
    <3>2. UniqueIds(new)
      BY <2>2, <3>1, DefaultedUnique
    <3>3. mem'[reg] = new
      BY <1>00, <2>4, <2>6 DEF TypeOK
    <3>4. client' = LoadRegistrations(mem[reg], mem[reg], new)
      BY <1>0, <1>00, <2>5, <2>6, <3>3
    <3>5. LoadRegistrations(mem[reg], mem[reg], new) = new
      BY <1>00, <3>2, DifferenceApplied
    <3> QED
      BY <1>0, <3>2, <3>3, <3>4, <3>5
  <2>7. CASE e.token # reg
    <3>1. mem'[reg] = mem[reg]
      BY <1>00, <2>4, <2>7 DEF TypeOK
    <3>2. client' = client
      BY <1>0, <2>5, <2>7
    <3> QED
      BY <1>0, <1>00, <3>1, <3>2
  <2> QED
    BY <2>6, <2>7
<1>3. CASE Process
  BY <1>1, <1>2, <1>3 DEF Process, memVars, OnDbCfgReloadTimerResponse
<1>4. Process \/ UNCHANGED <<mem, client>>
  BY DEF Next, ChangeTable, PgExecute, PgAnswer, ExecQuery, QueryDone, ConfigurationFinished,
         OnDbCfgReloadTimer, Terminated, vars, memVars
<1> QED
  BY <1>1, <1>3, <1>4

(* The registrar client holds exactly the registrations of the last load,  *)
(* for any contents of the table and any order of loads.                   *)
THEOREM RegistrationsMirrored == Spec => []ClientMirrors
<1>1. Init => MirrorInv
  <2> SUFFICES ASSUME Init PROVE MirrorInv
    OBVIOUS
  <2>1. AnswersAreData
    BY DEF Init, AnswersAreData, OfTables
  <2>2. \A k \in Keys : mem[k] = {}
    BY DEF Init
  <2>3. ClientMirrors /\ ("registrations" \in Keys => UniqueIds(mem["registrations"]))
    BY <2>2 DEF Init, ClientMirrors, UniqueIds
  <2> QED
    BY <2>1, <2>3, TypeInit DEF MirrorInv
<1>2. MirrorInv /\ [Next]_vars => MirrorInv'
  <2> SUFFICES ASSUME MirrorInv, [Next]_vars PROVE MirrorInv'
    OBVIOUS
  <2>1. TypeOK' /\ AnswersAreData'
    BY TypeStep, AnswersStep DEF MirrorInv
  <2>2. "registrations" \in Keys =>
          client' = mem'["registrations"] /\ UniqueIds(mem'["registrations"])
    BY <2>1, MirrorStep
  <2> QED
    BY <2>1, <2>2 DEF MirrorInv, ClientMirrors
<1>3. MirrorInv => ClientMirrors
  BY DEF MirrorInv
<1> QED
  BY <1>1, <1>2, <1>3, PTL DEF Spec
=============================================================================
