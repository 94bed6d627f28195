--------------------------- MODULE CertCache_proof ---------------------------
(***************************************************************************)
(* Theorems about CertCache, for any number of certificates, legs, headers *)
(* and roots and any number of renewals, clears and reloads: a deferred    *)
(* session is always about to be answered, and a call starts once.         *)
(***************************************************************************)
EXTENDS CertCache, SequenceTheorems, TLAPS

EntryType == [state : {"absent", "loading", "loaded", "unavailable"},
              chain : Seq(Roots), valid : BOOLEAN, defer : SUBSET Legs]

PCs == {"parse", "wait", "key", "repo", "routing", "gone"}

LegTypes ==
  pc \in [Legs -> PCs] /\ pos \in [Legs -> Nat \ {0}] /\ started \in [Legs -> Nat]

TypeOK ==
  /\ entries \in [Urls -> EntryType]
  /\ trusted_repositories \subseteq Urls
  /\ trusted_certs \subseteq Roots /\ trusted_certs_store \subseteq Roots
  /\ gets \in [Urls -> Nat]
  /\ responses \subseteq Legs \X Urls
  /\ awaited \in [Legs -> SUBSET Urls]
  /\ LegTypes
  /\ budget \in [{"renew", "clear", "reload"} -> Nat]

(* An answer on its way to a leg that still takes answers, posted or yet   *)
(* to be fetched.                                                          *)
Pending(s, u) == s \in entries[u].defer \/ <<s, u>> \in responses

(* What is pending is awaited, and it is pending once.                     *)
PendingIsAwaited ==
  \A s \in Legs, u \in Urls :
    /\ Pending(s, u) /\ pc[s] # "gone" => u \in awaited[s]
    /\ ~(s \in entries[u].defer /\ <<s, u>> \in responses)

(* While the headers are processed, only those behind pos are awaited.     *)
AwaitedIsBehind ==
  \A s \in Legs : pc[s] = "parse" =>
    \A u \in awaited[s] : \E i \in 1 .. Len(Headers[s]) : i < pos[s] /\ u = Headers[s][i]

(* A leg that has started awaits nothing.                                  *)
StartedAwaitsNothing ==
  \A s \in Legs :
    /\ pc[s] \in {"parse", "wait"} => started[s] = 0
    /\ pc[s] \in {"key", "repo", "routing"} => started[s] = 1 /\ awaited[s] = {}
    /\ started[s] <= 1

StartInv == TypeOK /\ PendingIsAwaited /\ AwaitedIsBehind /\ StartedAwaitsNothing


-----------------------------------------------------------------------------
(* What reset(), a new entry and an answer make of an entry.               *)
LEMMA EntryOps ==
  ASSUME TypeOK
  PROVE  /\ Absent \in EntryType /\ Absent.state = "absent" /\ Absent.defer = {}
         /\ \A s \in Legs : LET n == [NewEntry EXCEPT !.defer = {s}]
                            IN  n \in EntryType /\ n.state = "loading" /\ n.defer = {s}
         /\ \A e \in EntryType : /\ Reset(e) \in EntryType
                                 /\ Reset(e).state = "loading" /\ Reset(e).defer = e.defer
         /\ \A e \in EntryType, data \in Bodies :
              Answered(e, data) \in EntryType /\ Answered(e, data).defer = {}
<1>. <<>> \in Seq(Roots)
  BY EmptySeq
<1>0. PICK empty \in Seq(Roots) : empty = <<>>
  BY Zenon
<1>1. Absent \in EntryType /\ Absent.state = "absent" /\ Absent.defer = {}
  BY DEF Absent, EntryType
<1>2. ASSUME NEW s \in Legs
      PROVE  LET n == [NewEntry EXCEPT !.defer = {s}]
             IN  n \in EntryType /\ n.state = "loading" /\ n.defer = {s}
  <2>1. NewEntry \in EntryType /\ NewEntry.state = "loading"
    BY <1>1 DEF NewEntry, EntryType
  <2> QED
    BY <2>1 DEF EntryType
<1>3. ASSUME NEW e \in EntryType
      PROVE  Reset(e) \in EntryType /\ Reset(e).state = "loading" /\ Reset(e).defer = e.defer
  <2>1. Reset(e) = [e EXCEPT !.state = "loading", !.chain = empty]
    BY <1>0 DEF Reset
  <2> QED
    BY <2>1 DEF EntryType
<1>4. ASSUME NEW e \in EntryType, NEW data \in Bodies
      PROVE  Answered(e, data) \in EntryType /\ Answered(e, data).defer = {}
  <2>1. Parsed(e, data) \in Seq(Roots)
    BY AppendProperties DEF Parsed, EntryType
  <2>2. PathValidate(Parsed(e, data)) \in BOOLEAN
    BY DEF PathValidate
  <2> QED
    BY <2>1, <2>2 DEF Answered, EntryType
<1> QED
  BY <1>1, <1>2, <1>3, <1>4

(* The step of a renewal, of the timer or of the RPC.                      *)
LEMMA RenewStep ==
  ASSUME TypeOK, DeferredIsFetched, NEW U, NEW erased, RenewCertEntries(U, erased)
  PROVE  /\ entries' \in [Urls -> EntryType] /\ gets' \in [Urls -> Nat]
         /\ DeferredIsFetched'
         /\ \A u \in Urls : entries'[u].defer \subseteq entries[u].defer
<1>1. ASSUME NEW u \in Urls
      PROVE  /\ entries'[u] \in EntryType /\ gets'[u] \in Nat /\ gets'[u] >= gets[u]
             /\ entries'[u].defer \subseteq entries[u].defer
             /\ entries'[u].defer # {} => entries'[u].state = "loading" /\ gets'[u] > 0
  <2>1. entries[u] \in EntryType /\ gets[u] \in Nat
    BY DEF TypeOK
  <2>2. CASE u \in U
    <3>1. entries'[u] = Reset(entries[u]) /\ gets'[u] = gets[u] + 1
      BY <2>2 DEF RenewCertEntries
    <3> QED
      BY <2>1, <3>1, EntryOps
  <2>3. CASE u \notin U /\ u \in erased
    <3>1. entries'[u] = Absent /\ gets'[u] = gets[u]
      BY <2>3 DEF RenewCertEntries
    <3> QED
      BY <2>1, <3>1, EntryOps
  <2>4. CASE u \notin U /\ u \notin erased
    <3>1. entries'[u] = entries[u] /\ gets'[u] = gets[u]
      BY <2>4 DEF RenewCertEntries
    <3> QED
      BY <2>1, <3>1 DEF DeferredIsFetched
  <2> QED
    BY <2>2, <2>3, <2>4
<1>2. /\ entries' = [u \in Urls |-> entries'[u]]
      /\ gets' = [u \in Urls |-> gets'[u]]
  BY DEF RenewCertEntries
<1> QED
  BY <1>1, <1>2 DEF DeferredIsFetched

(* The leg's own variables stay in their types.                            *)
LEMMA LegStep ==
  ASSUME LegTypes, NEW s \in Legs,
         \/ OnIdentityReady(s)
         \/ NextHeader(s) /\ UNCHANGED started
         \/ \E p \in PCs : pc' = [pc EXCEPT ![s] = p] /\ UNCHANGED <<pos, started>>
         \/ UNCHANGED <<pc, pos, started>>
  PROVE  LegTypes'
<1>1. CASE OnIdentityReady(s)
  BY <1>1 DEF OnIdentityReady, LegTypes, PCs
<1>2. CASE NextHeader(s) /\ UNCHANGED started
  BY <1>2 DEF NextHeader, LegTypes, PCs
<1>3. ASSUME NEW p \in PCs, pc' = [pc EXCEPT ![s] = p] /\ UNCHANGED <<pos, started>>
      PROVE  LegTypes'
  BY <1>3 DEF LegTypes
<1>4. CASE UNCHANGED <<pc, pos, started>>
  BY <1>4 DEF LegTypes
<1> QED
  BY <1>1, <1>2, <1>3, <1>4

(* Types, and deferred sessions of entries under way, are kept by every    *)
(* step.                                                                   *)
LEMMA FetchInductive ==
  ASSUME TypeOK, DeferredIsFetched, [Next]_vars
  PROVE  TypeOK' /\ DeferredIsFetched'
<1> USE CertAssumption
<1>1. ASSUME NEW s \in Legs, AddIdentityHdr(s)
      PROVE  TypeOK' /\ DeferredIsFetched'
  <2> DEFINE u == Headers[s][pos[s]]
  <2>1. u \in Urls
    BY <1>1, ElementOfSeq DEF AddIdentityHdr, TypeOK, LegTypes
  <2>2. /\ LegTypes'
        /\ UNCHANGED <<trusted_repositories, trusted_certs, trusted_certs_store, responses, pc,
                       started, budget>>
    BY <1>1 DEF AddIdentityHdr, TypeOK, LegTypes
  <2>3. CheckAndFetch(s, u)
    BY <1>1 DEF AddIdentityHdr
  <2>4. CASE /\ entries[u].state = "absent" /\ IsTrustedRepository(u)
             /\ entries' = [entries EXCEPT ![u] = [NewEntry EXCEPT !.defer = {s}]]
             /\ gets' = [gets EXCEPT ![u] = @ + 1]
             /\ awaited' = [awaited EXCEPT ![s] = @ \cup {u}]
    <3> DEFINE n == [NewEntry EXCEPT !.defer = {s}]
    <3>1. n \in EntryType /\ n.state = "loading" /\ n.defer = {s}
      BY EntryOps
    <3>2. entries' = [entries EXCEPT ![u] = n]
      BY <2>4
    <3> HIDE DEF n
    <3>3. entries' \in [Urls -> EntryType] /\ gets' \in [Urls -> Nat]
      <4>1. entries \in [Urls -> EntryType] /\ gets \in [Urls -> Nat]
        BY DEF TypeOK
      <4>2. gets' = [gets EXCEPT ![u] = @ + 1]
        BY <2>4
      <4> HIDE DEF u
      <4>3. entries' \in [Urls -> EntryType]
        BY ONLY <2>1, <3>1, <3>2, <4>1
      <4>4. gets' \in [Urls -> Nat]
        BY ONLY <2>1, <4>1, <4>2
      <4> QED
        BY <4>3, <4>4
    <3>4. awaited' \in [Legs -> SUBSET Urls]
      BY <2>1, <2>4 DEF TypeOK
    <3> QED
      <4>1. ASSUME NEW v \in Urls, entries'[v].defer # {}
            PROVE  entries'[v].state = "loading" /\ gets'[v] > 0
        <5>1. CASE v = u
          <6>1. entries'[u] = n /\ gets'[u] = gets[u] + 1 /\ gets[u] \in Nat
            BY <2>1, <2>4, <3>2 DEF TypeOK
          <6> HIDE DEF u
          <6> QED
            BY <3>1, <5>1, <6>1
        <5>2. CASE v # u
          <6>1. entries'[v] = entries[v] /\ gets'[v] = gets[v]
            BY <2>1, <2>4, <3>2, <5>2 DEF TypeOK
          <6> QED
            BY <4>1, <6>1 DEF DeferredIsFetched
        <5> QED
          BY <5>1, <5>2
      <4>2. DeferredIsFetched'
        BY <4>1 DEF DeferredIsFetched
      <4>3. TypeOK'
        BY <2>2, <3>3, <3>4 DEF TypeOK
      <4> QED
        BY <4>2, <4>3
  <2>5. CASE /\ awaited' = [awaited EXCEPT ![s] = IF entries[u].state = "loading" THEN @ \cup {u} ELSE @]
             /\ UNCHANGED <<entries, gets>>
    BY <2>1, <2>2, <2>5 DEF TypeOK, DeferredIsFetched
  <2>6. CASE /\ entries' = [entries EXCEPT ![u] = IF entries[u].state = "loading" THEN entries[u] ELSE Absent]
             /\ UNCHANGED <<gets, awaited>>
    <3>1. entries' \in [Urls -> EntryType]
      BY <2>1, <2>6, EntryOps DEF TypeOK
    <3> QED
      BY <2>1, <2>2, <2>6, <3>1, EntryOps DEF TypeOK, DeferredIsFetched
  <2> HIDE DEF u
  <2> QED
    BY <2>3, <2>4, <2>5, <2>6 DEF CheckAndFetch
<1>2. ASSUME NEW s \in Legs, HeadersDone(s)
      PROVE  TypeOK' /\ DeferredIsFetched'
  <2>1. LegTypes'
    BY <1>2, LegStep DEF HeadersDone, TypeOK, PCs
  <2>2. UNCHANGED <<cacheVars, responses, awaited, budget>>
    BY <1>2 DEF HeadersDone
  <2>3. DeferredIsFetched'
    BY <2>2 DEF DeferredIsFetched, cacheVars
  <2>4. TypeOK'
    BY <2>1, <2>2 DEF TypeOK, cacheVars
  <2> QED
    BY <2>3, <2>4
<1>3. ASSUME NEW s \in Legs, GetPubKey(s)
      PROVE  TypeOK' /\ DeferredIsFetched'
  <2>1. LegTypes'
    BY <1>3, LegStep DEF GetPubKey, TypeOK, PCs
  <2>2. UNCHANGED <<cacheVars, responses, awaited, budget>>
    BY <1>3 DEF GetPubKey
  <2>3. DeferredIsFetched'
    BY <2>2 DEF DeferredIsFetched, cacheVars
  <2>4. TypeOK'
    BY <2>1, <2>2 DEF TypeOK, cacheVars
  <2> QED
    BY <2>3, <2>4
<1>4. ASSUME NEW s \in Legs, WhyNoKey(s)
      PROVE  TypeOK' /\ DeferredIsFetched'
  <2>1. LegTypes'
    BY <1>4, LegStep DEF WhyNoKey, TypeOK, PCs
  <2> QED
    BY <1>4, <2>1 DEF WhyNoKey, TypeOK, DeferredIsFetched, cacheVars
<1>5. ASSUME NEW s \in Legs, AskProfiles(s)
      PROVE  TypeOK' /\ DeferredIsFetched'
  <2>1. LegTypes'
    BY <1>5, LegStep DEF AskProfiles, TypeOK, PCs
  <2> QED
    BY <1>5, <2>1 DEF AskProfiles, TypeOK, DeferredIsFetched, cacheVars
<1>6. ASSUME NEW s \in Legs, OnCancel(s)
      PROVE  TypeOK' /\ DeferredIsFetched'
  <2>1. LegTypes'
    BY <1>6, LegStep DEF OnCancel, TypeOK, PCs
  <2> QED
    BY <1>6, <2>1 DEF OnCancel, TypeOK, DeferredIsFetched, cacheVars
<1>7. ASSUME NEW s \in Legs, NEW u \in Urls, OnCertCacheReply(s, u)
      PROVE  TypeOK' /\ DeferredIsFetched'
  <2>1. awaited' \in [Legs -> SUBSET Urls] /\ responses' \subseteq Legs \X Urls
    BY <1>7 DEF OnCertCacheReply, TypeOK
  <2>2. LegTypes'
    BY <1>7, LegStep DEF OnCertCacheReply, TypeOK, PCs
  <2>3. UNCHANGED <<cacheVars, budget>>
    BY <1>7 DEF OnCertCacheReply
  <2>4. DeferredIsFetched'
    BY <2>3 DEF DeferredIsFetched, cacheVars
  <2>5. TypeOK'
    BY <2>1, <2>2, <2>3 DEF TypeOK, cacheVars
  <2> QED
    BY <2>4, <2>5
<1>8. ASSUME NEW u \in Urls, NEW data \in Bodies, ProcessHttpReply(u, data)
      PROVE  TypeOK' /\ DeferredIsFetched'
  <2>1. gets' \in [Urls -> Nat] /\ gets[u] > 0 /\ gets' = [gets EXCEPT ![u] = @ - 1]
    BY <1>8 DEF ProcessHttpReply, TypeOK
  <2>2. UNCHANGED <<trusted_repositories, trusted_certs, trusted_certs_store, legVars, budget>>
    BY <1>8 DEF ProcessHttpReply
  <2>3. CASE entries[u].state = "absent"
    <3>1. UNCHANGED <<entries, responses>>
      BY <1>8, <2>3 DEF ProcessHttpReply
    <3> QED
      BY <2>1, <2>2, <2>3, <3>1 DEF TypeOK, LegTypes, DeferredIsFetched, legVars
  <2>4. CASE entries[u].state # "absent"
    <3>1. /\ entries' = [entries EXCEPT ![u] = Answered(entries[u], data)]
          /\ responses' = responses \cup {<<s, u>> : s \in {t \in entries[u].defer : Alive(t)}}
      BY <1>8, <2>4 DEF ProcessHttpReply
    <3>2. entries[u] \in EntryType
      BY DEF TypeOK
    <3>3. Answered(entries[u], data) \in EntryType /\ Answered(entries[u], data).defer = {}
      BY <3>2, EntryOps
    <3>4. responses' \subseteq Legs \X Urls
      BY <3>1, <3>2 DEF TypeOK, EntryType
    <3> QED
      BY <2>1, <2>2, <3>1, <3>3, <3>4 DEF TypeOK, LegTypes, DeferredIsFetched, legVars
  <2> QED
    BY <2>3, <2>4
<1>9. CASE OnTimer
  <2>1. PICK expired, erased : RenewCertEntries(expired, erased)
    BY <1>9 DEF OnTimer
  <2>2. /\ UNCHANGED <<trusted_repositories, trusted_certs, trusted_certs_store, responses, legVars>>
        /\ budget' = [budget EXCEPT !["renew"] = @ + 1]
    BY <1>9 DEF OnTimer, Spend
  <2> QED
    BY <2>1, <2>2, RenewStep DEF TypeOK, LegTypes, legVars
<1>10. ASSUME NEW rows \in SUBSET Roots, ReloadTrustedCertificates(rows)
       PROVE  TypeOK' /\ DeferredIsFetched'
  BY <1>10 DEF ReloadTrustedCertificates, Spend, TypeOK, LegTypes, DeferredIsFetched, legVars
<1>11. ASSUME NEW rows \in SUBSET Urls, ReloadTrustedRepositories(rows)
       PROVE  TypeOK' /\ DeferredIsFetched'
  BY <1>11 DEF ReloadTrustedRepositories, Spend, TypeOK, LegTypes, DeferredIsFetched, legVars
<1>12. ASSUME NEW U \in SUBSET Urls, ClearCerts(U)
       PROVE  TypeOK' /\ DeferredIsFetched'
  <2>1. entries' = [u \in Urls |-> IF u \in U THEN Absent ELSE entries[u]]
    BY <1>12 DEF ClearCerts
  <2>2. entries' \in [Urls -> EntryType]
    BY <2>1, EntryOps DEF TypeOK
  <2> QED
    BY <1>12, <2>1, <2>2, EntryOps DEF ClearCerts, Spend, TypeOK, LegTypes, DeferredIsFetched, legVars
<1>13. ASSUME NEW U \in SUBSET Urls, RenewCerts(U)
       PROVE  TypeOK' /\ DeferredIsFetched'
  <2>1. PICK wanted, erased : RenewCertEntries(wanted, erased)
    BY <1>13 DEF RenewCerts
  <2>2. /\ UNCHANGED <<trusted_repositories, trusted_certs, trusted_certs_store, responses, legVars>>
        /\ budget' = [budget EXCEPT !["renew"] = @ + 1]
    BY <1>13 DEF RenewCerts, Spend
  <2> QED
    BY <2>1, <2>2, RenewStep DEF TypeOK, LegTypes, legVars
<1>14. CASE UNCHANGED vars
  BY <1>14 DEF vars, cacheVars, legVars, TypeOK, LegTypes, DeferredIsFetched
<1> QED
  BY <1>1, <1>2, <1>3, <1>4, <1>5, <1>6, <1>7, <1>8, <1>9, <1>10, <1>11, <1>12, <1>13, <1>14
     DEF Next

(* The cache starts empty.                                                 *)
LEMMA FetchInitial == Init => TypeOK /\ DeferredIsFetched
<1> SUFFICES ASSUME Init PROVE TypeOK /\ DeferredIsFetched
  OBVIOUS
<1>1. Absent \in EntryType /\ Absent.defer = {}
  BY EmptySeq DEF Absent, EntryType
<1> QED
  BY <1>1 DEF Init, TypeOK, LegTypes, PCs, DeferredIsFetched

(* Types: entries are cached, missing or under way, and every awaited      *)
(* certificate, posted answer and counter is of its type.                  *)
THEOREM CertTypes == Spec => []TypeOK
<1>1. Init => TypeOK /\ DeferredIsFetched
  BY FetchInitial
<1>2. (TypeOK /\ DeferredIsFetched) /\ [Next]_vars => (TypeOK /\ DeferredIsFetched)'
  BY FetchInductive
<1> QED
  BY <1>1, <1>2, PTL DEF Spec

(* processHttpReply, expiry, RPC clears and renewals and reloads never     *)
(* leave a deferred session without a request that will answer it.         *)
THEOREM DeferredSessionsAreFetched == Spec => []DeferredIsFetched
<1>1. Init => TypeOK /\ DeferredIsFetched
  BY FetchInitial
<1>2. (TypeOK /\ DeferredIsFetched) /\ [Next]_vars => (TypeOK /\ DeferredIsFetched)'
  BY FetchInductive
<1> QED
  BY <1>1, <1>2, PTL DEF Spec

-----------------------------------------------------------------------------
(* Steps that add no pending answer and leave what is awaited alone.       *)
LEMMA NothingAdded ==
  ASSUME PendingIsAwaited, UNCHANGED awaited, responses' \subseteq responses,
         \A u \in Urls : entries'[u].defer \subseteq entries[u].defer,
         \A s \in Legs : pc'[s] # "gone" => pc[s] # "gone"
  PROVE  PendingIsAwaited'
  BY DEF PendingIsAwaited, Pending

(* Steps of the cache: the legs stand still.                               *)
LEMMA CacheStep ==
  ASSUME PendingIsAwaited, AwaitedIsBehind, StartedAwaitsNothing,
         UNCHANGED legVars, responses' \subseteq responses,
         \A u \in Urls : entries'[u].defer \subseteq entries[u].defer
  PROVE  PendingIsAwaited' /\ AwaitedIsBehind' /\ StartedAwaitsNothing'
<1>1. UNCHANGED awaited /\ UNCHANGED pc /\ UNCHANGED pos /\ UNCHANGED started
  BY DEF legVars
<1>2. PendingIsAwaited'
  BY <1>1, NothingAdded
<1>3. AwaitedIsBehind' /\ StartedAwaitsNothing'
  BY <1>1 DEF AwaitedIsBehind, StartedAwaitsNothing
<1> QED
  BY <1>2, <1>3

(* A step of one leg that neither asks nor is answered: the others stand   *)
(* still, and it leaves the headers behind or goes on as started.          *)
LEMMA LegAlone ==
  ASSUME StartInv, NEW s \in Legs,
         UNCHANGED <<entries, awaited>>, responses' \subseteq responses,
         pc' = [pc EXCEPT ![s] = pc'[s]], pos' = [pos EXCEPT ![s] = pos'[s]],
         started' = [started EXCEPT ![s] = started'[s]],
         pc[s] # "gone", pc'[s] # "parse",
         \/ pc'[s] = "wait" /\ started'[s] = 0
         \/ pc'[s] \in {"key", "repo", "routing"} /\ started'[s] = 1 /\ awaited[s] = {}
         \/ pc'[s] = "gone" /\ started'[s] \in 0 .. 1
  PROVE  PendingIsAwaited' /\ AwaitedIsBehind' /\ StartedAwaitsNothing'
<1>1. \A t \in Legs : t # s => pc'[t] = pc[t] /\ pos'[t] = pos[t] /\ started'[t] = started[t]
  BY DEF StartInv, TypeOK, LegTypes
<1>2. PendingIsAwaited'
  BY <1>1, NothingAdded DEF StartInv
<1>3. AwaitedIsBehind'
  BY <1>1 DEF StartInv, AwaitedIsBehind
<1>4. StartedAwaitsNothing'
  BY <1>1 DEF StartInv, StartedAwaitsNothing
<1> QED
  BY <1>2, <1>3, <1>4

(* Asking for the certificate of a header: it was not asked for before.    *)
LEMMA AskStep ==
  ASSUME DistinctHeaders, StartInv, NEW s \in Legs, AddIdentityHdr(s)
  PROVE  PendingIsAwaited' /\ AwaitedIsBehind' /\ StartedAwaitsNothing'
<1> DEFINE u == Headers[s][pos[s]]
           i == pos[s]
<1>1. /\ u \in Urls /\ i \in 1 .. Len(Headers[s]) /\ i \in Nat
      /\ pc[s] = "parse" /\ pos' = [pos EXCEPT ![s] = i + 1] /\ CheckAndFetch(s, u)
      /\ UNCHANGED <<responses, pc, started>>
  BY CertAssumption, ElementOfSeq DEF AddIdentityHdr, StartInv, TypeOK, LegTypes
<1>2. u \notin awaited[s]
  <2>1. ASSUME u \in awaited[s]
        PROVE  FALSE
    <3>1. PICK j \in 1 .. Len(Headers[s]) : j < i /\ u = Headers[s][j]
      BY <1>1, <2>1 DEF StartInv, AwaitedIsBehind
    <3> QED
      BY <1>1, <3>1 DEF DistinctHeaders
  <2> QED
    BY <2>1
<1>3. ~Pending(s, u)
  BY <1>1, <1>2 DEF StartInv, PendingIsAwaited
<1>4. /\ awaited' \in [Legs -> SUBSET Urls]
      /\ \A t \in Legs : t # s => awaited'[t] = awaited[t]
      /\ awaited[s] \subseteq awaited'[s] /\ awaited'[s] \subseteq awaited[s] \cup {u}
  <2>1. \/ UNCHANGED awaited
        \/ awaited' = [awaited EXCEPT ![s] = @ \cup {u}]
        \/ awaited' = [awaited EXCEPT ![s] = @]
    BY <1>1 DEF CheckAndFetch
  <2>2. awaited \in [Legs -> SUBSET Urls]
    BY DEF StartInv, TypeOK
  <2> HIDE DEF u
  <2> QED
    BY <1>1, <2>1, <2>2
<1>5. \A t \in Legs, v \in Urls :
        t \in entries'[v].defer => \/ t \in entries[v].defer
                                   \/ t = s /\ v = u /\ u \in awaited'[s]
  <2> SUFFICES ASSUME NEW t \in Legs, NEW v \in Urls, t \in entries'[v].defer
               PROVE  \/ t \in entries[v].defer
                      \/ t = s /\ v = u /\ u \in awaited'[s]
    OBVIOUS
  <2>1. CASE v # u
    BY <1>1, <2>1 DEF CheckAndFetch, StartInv, TypeOK
  <2>2. CASE v = u
    <3> DEFINE n == [NewEntry EXCEPT !.defer = {s}]
    <3>1. n.defer = {s} /\ Absent.defer = {}
      BY EntryOps DEF StartInv
    <3>2. \/ entries'[u] = n /\ u \in awaited'[s]
          \/ entries'[u] \in {entries[u], Absent}
      BY <1>1 DEF CheckAndFetch, StartInv, TypeOK
    <3> HIDE DEF n, u
    <3> QED
      BY <2>2, <3>1, <3>2
  <2> QED
    BY <2>1, <2>2
<1> HIDE DEF u
<1>6. PendingIsAwaited'
  BY <1>1, <1>3, <1>4, <1>5 DEF StartInv, PendingIsAwaited, Pending
<1>7. AwaitedIsBehind'
  <2> SUFFICES ASSUME NEW t \in Legs, pc'[t] = "parse", NEW v \in awaited'[t]
               PROVE  \E k \in 1 .. Len(Headers[t]) : k < pos'[t] /\ v = Headers[t][k]
    BY DEF AwaitedIsBehind
  <2>1. CASE t # s
    BY <1>1, <1>4, <2>1 DEF StartInv, AwaitedIsBehind, TypeOK, LegTypes
  <2>2. CASE t = s /\ v \in awaited[s]
    <3>1. PICK k \in 1 .. Len(Headers[s]) : k < i /\ v = Headers[s][k]
      BY <1>1, <2>2 DEF StartInv, AwaitedIsBehind
    <3>2. pos'[s] = i + 1
      BY <1>1 DEF StartInv, TypeOK, LegTypes
    <3> QED
      BY <1>1, <2>2, <3>1, <3>2
  <2>3. CASE t = s /\ v = u
    <3>2. pos'[s] = i + 1
      BY <1>1 DEF StartInv, TypeOK, LegTypes
    <3> QED
      BY <1>1, <2>3, <3>2 DEF u
  <2> QED
    BY <1>4, <2>1, <2>2, <2>3
<1>8. StartedAwaitsNothing'
  BY <1>1, <1>4 DEF StartInv, StartedAwaitsNothing
<1> QED
  BY <1>6, <1>7, <1>8

(* An answer taken by a leg: it was awaited, so the leg has not started.   *)
LEMMA ReplyStep ==
  ASSUME StartInv, NEW s \in Legs, NEW u \in Urls, OnCertCacheReply(s, u)
  PROVE  PendingIsAwaited' /\ AwaitedIsBehind' /\ StartedAwaitsNothing'
<1>1. /\ <<s, u>> \in responses /\ pc[s] \in {"wait", "routing"}
      /\ responses' = responses \ {<<s, u>>}
      /\ awaited' = [awaited EXCEPT ![s] = @ \ {u}]
      /\ UNCHANGED entries
  BY DEF OnCertCacheReply, cacheVars
<1>2. u \in awaited[s] /\ s \notin entries[u].defer
  BY <1>1 DEF StartInv, PendingIsAwaited, Pending
<1>3. pc[s] = "wait" /\ started[s] = 0
  BY <1>1, <1>2 DEF StartInv, StartedAwaitsNothing
<1>4. /\ \A t \in Legs : t # s => awaited'[t] = awaited[t]
      /\ awaited'[s] = awaited[s] \ {u}
  BY <1>1 DEF StartInv, TypeOK
<1>5. /\ \A t \in Legs : t # s => pc'[t] = pc[t] /\ pos'[t] = pos[t] /\ started'[t] = started[t]
      /\ \/ pc'[s] = "wait" /\ started'[s] = 0
         \/ pc'[s] = "key" /\ started'[s] = 1 /\ awaited'[s] = {}
  <2>1. CASE awaited'[s] = {}
    <3>1. OnIdentityReady(s)
      BY <2>1 DEF OnCertCacheReply
    <3> QED
      BY <1>3, <2>1, <3>1 DEF OnIdentityReady, StartInv, TypeOK, LegTypes
  <2>2. CASE awaited'[s] # {}
    <3>1. UNCHANGED <<pc, pos, started>>
      BY <2>2 DEF OnCertCacheReply
    <3> QED
      BY <1>3, <3>1
  <2> QED
    BY <2>1, <2>2
<1>6. PendingIsAwaited'
  BY <1>1, <1>2, <1>3, <1>4, <1>5 DEF StartInv, PendingIsAwaited, Pending
<1>7. AwaitedIsBehind'
  BY <1>4, <1>5 DEF StartInv, AwaitedIsBehind
<1>8. StartedAwaitsNothing'
  BY <1>4, <1>5 DEF StartInv, StartedAwaitsNothing
<1> QED
  BY <1>6, <1>7, <1>8

(* An HTTP answer: the deferred sessions of the entry become responses.    *)
LEMMA HttpStep ==
  ASSUME StartInv, NEW u \in Urls, NEW data \in Bodies, ProcessHttpReply(u, data)
  PROVE  PendingIsAwaited' /\ AwaitedIsBehind' /\ StartedAwaitsNothing'
<1>1. UNCHANGED legVars
  BY DEF ProcessHttpReply
<1>2. CASE entries[u].state = "absent"
  <2>1. UNCHANGED <<entries, responses>>
    BY <1>2 DEF ProcessHttpReply
  <2> QED
    BY <1>1, <2>1, CacheStep DEF StartInv
<1>3. CASE entries[u].state # "absent"
  <2>1. /\ entries' = [entries EXCEPT ![u] = Answered(entries[u], data)]
        /\ responses' = responses \cup {<<s, u>> : s \in {t \in entries[u].defer : Alive(t)}}
    BY <1>3 DEF ProcessHttpReply
  <2>2. entries[u] \in EntryType /\ entries[u].defer \subseteq Legs
    BY DEF StartInv, TypeOK, EntryType
  <2>3. Answered(entries[u], data).defer = {}
    BY <2>2, EntryOps DEF StartInv
  <2>4. /\ \A v \in Urls : v # u => entries'[v] = entries[v]
        /\ entries'[u].defer = {}
    BY <2>1, <2>3 DEF StartInv, TypeOK
  <2>5. \A t \in Legs, v \in Urls :
          <<t, v>> \in responses' => \/ <<t, v>> \in responses
                                     \/ v = u /\ t \in entries[u].defer /\ pc[t] # "gone"
    BY <2>1 DEF Alive
  <2>6. PendingIsAwaited'
    BY <1>1, <2>4, <2>5 DEF StartInv, PendingIsAwaited, Pending, legVars
  <2>7. AwaitedIsBehind' /\ StartedAwaitsNothing'
    BY <1>1 DEF StartInv, AwaitedIsBehind, StartedAwaitsNothing, legVars
  <2> QED
    BY <2>6, <2>7
<1> QED
  BY <1>2, <1>3

LEMMA StartInductive ==
  ASSUME DistinctHeaders, StartInv, DeferredIsFetched, [Next]_vars
  PROVE  StartInv' /\ DeferredIsFetched'
<1> SUFFICES PendingIsAwaited' /\ AwaitedIsBehind' /\ StartedAwaitsNothing'
  BY FetchInductive DEF StartInv
<1>1. ASSUME NEW s \in Legs, AddIdentityHdr(s)
      PROVE  PendingIsAwaited' /\ AwaitedIsBehind' /\ StartedAwaitsNothing'
  BY <1>1, AskStep
<1>2. ASSUME NEW s \in Legs, HeadersDone(s)
      PROVE  PendingIsAwaited' /\ AwaitedIsBehind' /\ StartedAwaitsNothing'
  <2>1. pc[s] = "parse" /\ started[s] = 0 /\ UNCHANGED <<entries, awaited, responses>>
    BY <1>2 DEF HeadersDone, StartInv, StartedAwaitsNothing, cacheVars
  <2>2. CASE awaited[s] = {}
    <3>1. OnIdentityReady(s)
      BY <1>2, <2>2 DEF HeadersDone
    <3>2. /\ pc' = [pc EXCEPT ![s] = pc'[s]] /\ pc'[s] = "key"
          /\ pos' = [pos EXCEPT ![s] = pos'[s]]
          /\ started' = [started EXCEPT ![s] = started'[s]] /\ started'[s] = 1
      BY <2>1, <3>1 DEF OnIdentityReady, StartInv, TypeOK, LegTypes
    <3> QED
      BY <2>1, <2>2, <3>2, LegAlone
  <2>3. CASE awaited[s] # {}
    <3>1. pc' = [pc EXCEPT ![s] = "wait"] /\ UNCHANGED <<pos, started>>
      BY <1>2, <2>3 DEF HeadersDone
    <3> QED
      BY <2>1, <3>1, LegAlone DEF StartInv, TypeOK, LegTypes
  <2> QED
    BY <2>2, <2>3
<1>3. ASSUME NEW s \in Legs, GetPubKey(s) \/ WhyNoKey(s) \/ AskProfiles(s)
      PROVE  PendingIsAwaited' /\ AwaitedIsBehind' /\ StartedAwaitsNothing'
  <2>1. /\ UNCHANGED <<entries, awaited, responses, started>>
        /\ pc[s] \in {"key", "repo"}
        /\ \E p \in {"key", "repo", "routing"} : pc' = [pc EXCEPT ![s] = p]
        /\ pos' = [pos EXCEPT ![s] = pos'[s]]
    BY <1>3 DEF GetPubKey, WhyNoKey, AskProfiles, NextHeader, StartInv, TypeOK, LegTypes, cacheVars
  <2>2. started[s] = 1 /\ awaited[s] = {}
    BY <2>1 DEF StartInv, StartedAwaitsNothing
  <2> QED
    BY <2>1, <2>2, LegAlone DEF StartInv, TypeOK, LegTypes
<1>4. ASSUME NEW s \in Legs, OnCancel(s)
      PROVE  PendingIsAwaited' /\ AwaitedIsBehind' /\ StartedAwaitsNothing'
  <2>1. /\ UNCHANGED <<entries, awaited, started, pos>> /\ responses' \subseteq responses
        /\ pc[s] # "gone" /\ pc' = [pc EXCEPT ![s] = "gone"]
    BY <1>4 DEF OnCancel, cacheVars
  <2>2. started[s] \in 0 .. 1
    BY DEF StartInv, StartedAwaitsNothing, TypeOK, LegTypes
  <2> QED
    BY <2>1, <2>2, LegAlone DEF StartInv, TypeOK, LegTypes
<1>5. ASSUME NEW s \in Legs, NEW u \in Urls, OnCertCacheReply(s, u)
      PROVE  PendingIsAwaited' /\ AwaitedIsBehind' /\ StartedAwaitsNothing'
  BY <1>5, ReplyStep
<1>6. ASSUME NEW u \in Urls, NEW data \in Bodies, ProcessHttpReply(u, data)
      PROVE  PendingIsAwaited' /\ AwaitedIsBehind' /\ StartedAwaitsNothing'
  BY <1>6, HttpStep
<1>7. ASSUME NEW U, NEW erased, RenewCertEntries(U, erased), UNCHANGED <<responses, legVars>>
      PROVE  PendingIsAwaited' /\ AwaitedIsBehind' /\ StartedAwaitsNothing'
  <2>1. \A u \in Urls : entries'[u].defer \subseteq entries[u].defer
    BY <1>7, RenewStep DEF StartInv
  <2> QED
    BY <1>7, <2>1, CacheStep DEF StartInv
<1>8. CASE OnTimer
  BY <1>7, <1>8 DEF OnTimer
<1>9. ASSUME NEW rows, ReloadTrustedCertificates(rows) \/ ReloadTrustedRepositories(rows)
      PROVE  PendingIsAwaited' /\ AwaitedIsBehind' /\ StartedAwaitsNothing'
  BY <1>9, CacheStep DEF ReloadTrustedCertificates, ReloadTrustedRepositories, StartInv
<1>10. ASSUME NEW U, ClearCerts(U)
       PROVE  PendingIsAwaited' /\ AwaitedIsBehind' /\ StartedAwaitsNothing'
  <2>1. \A u \in Urls : entries'[u].defer \subseteq entries[u].defer
    BY <1>10, EntryOps DEF ClearCerts, StartInv
  <2> QED
    BY <1>10, <2>1, CacheStep DEF ClearCerts, StartInv
<1>11. ASSUME NEW U, RenewCerts(U)
       PROVE  PendingIsAwaited' /\ AwaitedIsBehind' /\ StartedAwaitsNothing'
  BY <1>7, <1>11 DEF RenewCerts
<1>12. CASE UNCHANGED vars
  BY <1>12, CacheStep DEF vars, cacheVars, StartInv
<1> QED
  BY <1>1, <1>2, <1>3, <1>4, <1>5, <1>6, <1>8, <1>9, <1>10, <1>11, <1>12 DEF Next

(* When the Identity headers of each INVITE name distinct certificates,    *)
(* onIdentityReady runs at most once for a leg, however HTTP answers,      *)
(* renewals, clears, reloads and the legs' own steps interleave.           *)
THEOREM CallStartsOnce ==
  ASSUME DistinctHeaders
  PROVE  Spec => []StartsOnce
<1>1. Init => StartInv /\ DeferredIsFetched
  <2> SUFFICES ASSUME Init PROVE PendingIsAwaited /\ AwaitedIsBehind /\ StartedAwaitsNothing
    BY FetchInitial DEF StartInv
  <2>1. \A u \in Urls : entries[u].defer = {}
    BY DEF Init, Absent
  <2> QED
    BY <2>1 DEF Init, PendingIsAwaited, Pending, AwaitedIsBehind, StartedAwaitsNothing
<1>2. (StartInv /\ DeferredIsFetched) /\ [Next]_vars => (StartInv /\ DeferredIsFetched)'
  BY StartInductive
<1>3. StartInv => StartsOnce
  BY DEF StartInv, StartedAwaitsNothing, StartsOnce
<1> QED
  BY <1>1, <1>2, <1>3, PTL DEF Spec
=============================================================================
