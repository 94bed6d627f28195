------------------------------ MODULE CertCache ------------------------------
(***************************************************************************)
(* CertCache: certificates named by the x5u of Identity headers, fetched   *)
(* over HTTP.  Call legs ask for them and wait; the yeti worker thread     *)
(* applies HTTP answers, expiry and database reloads; the RPC thread       *)
(* clears and renews entries.  Every critical section of the mutex is one  *)
(* action.                                                                 *)
(***************************************************************************)
EXTENDS Integers, Sequences

CONSTANTS
  Urls,                   \* x5u of Identity headers
  Legs,                   \* A legs, one initial INVITE each
  Headers,                \* [Legs -> Seq(Urls)]: their Identity headers
  Roots,                  \* issuers a chain may lead to
  MaxRenewals,            \* bound: renewals by the timer or the RPC
  MaxClears,              \* bound: RPC requests to clear
  MaxReloads              \* bound: database reloads

ASSUME CertAssumption ==
  /\ \A s \in Legs : Headers[s] \in Seq(Urls)
  /\ MaxRenewals \in Nat /\ MaxClears \in Nat /\ MaxReloads \in Nat

VARIABLES
  entries,                \* the cache; "absent" is no entry
  trusted_repositories,   \* the URLs that match a trusted repository
  trusted_certs,          \* roots of the last reload
  trusted_certs_store,    \* roots used to validate chains
  gets,                   \* [Urls -> Nat]: HTTP requests under way
  responses,              \* CertCacheResponseEvents posted and not processed
  awaited,                \* [Legs -> SUBSET Urls]: awaited_identity_certs
  pc, pos,                \* where the thread of each leg is; its header
  started,                \* [Legs -> Nat]: runs of onIdentityReady
  budget                  \* renewals, clears and reloads so far

cacheVars == <<entries, trusted_repositories, trusted_certs, trusted_certs_store, gets>>
legVars   == <<awaited, pc, pos, started>>
vars      == <<cacheVars, responses, legVars, budget>>

Absent == [state |-> "absent", chain |-> <<>>, valid |-> FALSE, defer |-> {}]

NewEntry == [Absent EXCEPT !.state = "loading"]

Cached == {u \in Urls : entries[u].state # "absent"}

IsTrustedRepository(u) == u \in trusted_repositories

(* After the first load of the tables, when all the URLs are trusted.      *)
Init ==
  /\ entries = [u \in Urls |-> Absent]
  /\ trusted_repositories = Urls
  /\ trusted_certs = Roots
  /\ trusted_certs_store = trusted_certs
  /\ gets = [u \in Urls |-> 0]
  /\ responses = {}
  /\ awaited = [s \in Legs |-> {}]
  /\ pc = [s \in Legs |-> "parse"]
  /\ pos = [s \in Legs |-> 1]
  /\ started = [s \in Legs |-> 0]
  /\ budget = [renew |-> 0, clear |-> 0, reload |-> 0]

Spend(what, max) ==
  /\ budget[what] < max
  /\ budget' = [budget EXCEPT ![what] = @ + 1]

-----------------------------------------------------------------------------
(* The cache.                                                              *)

(* reset() keeps the sessions that wait and the last validation result.    *)
Reset(e) == [e EXCEPT !.state = "loading", !.chain = <<>>]

(* renewCertEntry for every URL of U; a GET is posted for each.            *)
RenewCertEntries(U, erased) ==
  /\ entries' = [u \in Urls |-> IF u \in U THEN Reset(entries[u])
                                ELSE IF u \in erased THEN Absent ELSE entries[u]]
  /\ gets' = [u \in Urls |-> IF u \in U THEN gets[u] + 1 ELSE gets[u]]

(* The first to ask for a URL waits for the answer; a leg that comes while *)
(* it is under way is told to wait and is not noted in defer_sessions.     *)
CheckAndFetch(s, u) ==
  LET e == entries[u] IN
  \/ /\ e.state = "absent" /\ IsTrustedRepository(u)
     /\ entries' = [entries EXCEPT ![u] = [NewEntry EXCEPT !.defer = {s}]]
     /\ gets' = [gets EXCEPT ![u] = @ + 1]
     /\ awaited' = [awaited EXCEPT ![s] = @ \cup {u}]
  \/ /\ e.state # "absent" /\ IsTrustedRepository(u)
     /\ awaited' = [awaited EXCEPT ![s] = IF e.state = "loading" THEN @ \cup {u} ELSE @]
     /\ UNCHANGED <<entries, gets>>
  \/ /\ ~IsTrustedRepository(u)
     /\ entries' = [entries EXCEPT ![u] = IF e.state = "loading" THEN e ELSE Absent]
     /\ UNCHANGED <<gets, awaited>>

(* What an HTTP answer carries: nothing, no certificate, or a chain that   *)
(* leads to a root.                                                        *)
Bodies == {"empty", "malformed"} \cup Roots

(* Parsing appends to what the entry holds; a failure counts only while it *)
(* holds nothing.                                                          *)
Parsed(e, data) == IF data \in Roots THEN Append(e.chain, data) ELSE e.chain

(* x509_path_validate: the first certificate must lead to a stored root.   *)
PathValidate(chain) == chain # <<>> /\ chain[1] \in trusted_certs_store

(* Mutant: the sessions answered stay in defer_sessions.                   *)
AnsweredKeepsDeferred(e, data) ==
  [e EXCEPT !.chain = Parsed(e, data),
            !.valid = PathValidate(Parsed(e, data)),
            !.state = IF Parsed(e, data) # <<>> THEN "loaded" ELSE "unavailable"]

Answered(e, data) ==
  LET chain == Parsed(e, data)
  IN  [e EXCEPT !.chain = chain,
                !.valid = PathValidate(chain),
                !.state = IF chain # <<>> THEN "loaded" ELSE "unavailable",
                !.defer = {}]

Alive(s) == pc[s] # "gone"

ProcessHttpReply(u, data) ==
  /\ gets[u] > 0
  /\ gets' = [gets EXCEPT ![u] = @ - 1]
  /\ IF entries[u].state = "absent"
     THEN UNCHANGED <<entries, responses>>
     ELSE /\ entries' = [entries EXCEPT ![u] = Answered(@, data)]
          /\ responses' = responses \cup {<<s, u>> : s \in {t \in entries[u].defer : Alive(t)}}
  /\ UNCHANGED <<trusted_repositories, trusted_certs, trusted_certs_store, legVars, budget>>

(* Each second: what has expired is fetched again (any entry may have),    *)
(* what is trusted no more is erased; entries under way are left alone.    *)
OnTimer ==
  LET settled == {u \in Cached : entries[u].state # "loading"}
      trusted == settled \cap trusted_repositories
  IN  /\ settled # {}
      /\ Spend("renew", MaxRenewals)
      /\ \E expired \in SUBSET trusted : RenewCertEntries(expired, settled \ trusted)
      /\ UNCHANGED <<trusted_repositories, trusted_certs, trusted_certs_store, responses, legVars>>

(* The store is only added to: a root that was removed stays in it.        *)
ReloadTrustedCertificates(rows) ==
  /\ Spend("reload", MaxReloads)
  /\ trusted_certs' = rows
  /\ trusted_certs_store' = trusted_certs_store \cup rows
  /\ UNCHANGED <<entries, trusted_repositories, gets, responses, legVars>>

ReloadTrustedRepositories(rows) ==
  /\ Spend("reload", MaxReloads)
  /\ trusted_repositories' = rows
  /\ UNCHANGED <<entries, trusted_certs, trusted_certs_store, gets, responses, legVars>>

ClearCerts(U) ==
  /\ Spend("clear", MaxClears)
  /\ entries' = [u \in Urls |-> IF u \in U THEN Absent ELSE entries[u]]
  /\ UNCHANGED <<trusted_repositories, trusted_certs, trusted_certs_store, gets, responses, legVars>>

(* Without arguments: every entry.  With arguments: entries are created    *)
(* for the trusted URLs that have none.                                    *)
RenewCerts(U) ==
  LET wanted == IF U = {} THEN Cached ELSE U
  IN  /\ Spend("renew", MaxRenewals)
      /\ RenewCertEntries(wanted \cap trusted_repositories, wanted \ trusted_repositories)
      /\ UNCHANGED <<trusted_repositories, trusted_certs, trusted_certs_store, responses, legVars>>

-----------------------------------------------------------------------------
(* The leg.                                                                *)

(* processing of the Identity headers of the initial INVITE, one by one.   *)
AddIdentityHdr(s) ==
  /\ pc[s] = "parse" /\ pos[s] <= Len(Headers[s])
  /\ CheckAndFetch(s, Headers[s][pos[s]])
  /\ pos' = [pos EXCEPT ![s] = @ + 1]
  /\ UNCHANGED <<trusted_repositories, trusted_certs, trusted_certs_store, responses, pc, started, budget>>

(* onIdentityReady goes through the headers from the first.                *)
OnIdentityReady(s) ==
  /\ pc' = [pc EXCEPT ![s] = "key"]
  /\ pos' = [pos EXCEPT ![s] = 1]
  /\ started' = [started EXCEPT ![s] = @ + 1]

(* Mutant: the leg goes on without the certificates it asked for.          *)
HeadersDoneNoWait(s) ==
  /\ pc[s] = "parse" /\ pos[s] > Len(Headers[s])
  /\ OnIdentityReady(s)
  /\ UNCHANGED <<cacheVars, responses, awaited, budget>>

HeadersDone(s) ==
  /\ pc[s] = "parse" /\ pos[s] > Len(Headers[s])
  /\ IF awaited[s] = {}
     THEN OnIdentityReady(s)
     ELSE pc' = [pc EXCEPT ![s] = "wait"] /\ UNCHANGED <<pos, started>>
  /\ UNCHANGED <<cacheVars, responses, awaited, budget>>

(* Mutant: the answered certificate is still awaited.                      *)
OnCertCacheReplyStillAwaited(s, u) ==
  /\ <<s, u>> \in responses
  /\ pc[s] \in {"wait", "routing"}
  /\ responses' = responses \ {<<s, u>>}
  /\ IF awaited[s] = {} THEN OnIdentityReady(s) ELSE UNCHANGED <<pc, pos, started>>
  /\ UNCHANGED <<cacheVars, awaited, budget>>

(* An answer is taken whenever the leg reads its queue: while it waits, or *)
(* after it went on.                                                       *)
OnCertCacheReply(s, u) ==
  /\ <<s, u>> \in responses
  /\ pc[s] \in {"wait", "routing"}
  /\ responses' = responses \ {<<s, u>>}
  /\ awaited' = [awaited EXCEPT ![s] = @ \ {u}]
  /\ IF awaited'[s] = {}
     THEN OnIdentityReady(s)
     ELSE UNCHANGED <<pc, pos, started>>
  /\ UNCHANGED <<cacheVars, budget>>

(* The verdict on a header is data of the request for profiles.            *)
NextHeader(s) ==
  /\ pos' = [pos EXCEPT ![s] = @ + 1]
  /\ pc' = [pc EXCEPT ![s] = "key"]

(* getPubKey reads the first certificate of the chain.                     *)
GetPubKey(s) ==
  LET e == entries[Headers[s][pos[s]]] IN
  /\ pc[s] = "key" /\ pos[s] <= Len(Headers[s])
  /\ \/ e.state = "loaded" /\ NextHeader(s)
     \/ e.state # "loaded" /\ pc' = [pc EXCEPT ![s] = "repo"] /\ UNCHANGED pos
  /\ UNCHANGED <<cacheVars, responses, awaited, started, budget>>

(* Without a key the reason is looked up in a critical section of its own. *)
WhyNoKey(s) ==
  /\ pc[s] = "repo"
  /\ NextHeader(s)
  /\ UNCHANGED <<cacheVars, responses, awaited, started, budget>>

(* A call context is created and the profiles are asked for.               *)
AskProfiles(s) ==
  /\ pc[s] = "key" /\ pos[s] > Len(Headers[s])
  /\ pc' = [pc EXCEPT ![s] = "routing"]
  /\ UNCHANGED <<cacheVars, responses, awaited, pos, started, budget>>

(* The caller gives up: CANCEL ends a leg that waits; nothing in the code  *)
(* bounds the wait.                                                        *)
OnCancel(s) ==
  /\ pc[s] \in {"wait", "routing"}
  /\ pc' = [pc EXCEPT ![s] = "gone"]
  /\ responses' = {r \in responses : r[1] # s}
  /\ UNCHANGED <<cacheVars, awaited, pos, started, budget>>

Next ==
  \/ \E s \in Legs : \/ AddIdentityHdr(s) \/ HeadersDone(s)
                     \/ GetPubKey(s) \/ WhyNoKey(s) \/ AskProfiles(s)
                     \/ OnCancel(s)
                     \/ \E u \in Urls : OnCertCacheReply(s, u)
  \/ \E u \in Urls, data \in Bodies : ProcessHttpReply(u, data)
  \/ OnTimer
  \/ \E rows \in SUBSET Roots : ReloadTrustedCertificates(rows)
  \/ \E rows \in SUBSET Urls : ReloadTrustedRepositories(rows)
  \/ \E U \in {{u} : u \in Urls} \cup {Urls} : ClearCerts(U)
  \/ \E U \in SUBSET Urls : RenewCerts(U)

(* Legs run, the HTTP client answers every request and the worker thread   *)
(* reads its queue; nothing else is promised to happen.                    *)
Fairness ==
  /\ \A s \in Legs : WF_vars(\/ AddIdentityHdr(s) \/ HeadersDone(s) \/ GetPubKey(s)
                             \/ WhyNoKey(s) \/ AskProfiles(s)
                             \/ \E u \in Urls : OnCertCacheReply(s, u))
  /\ \A u \in Urls : WF_vars(\E data \in Bodies : ProcessHttpReply(u, data))

Spec == Init /\ [][Next]_vars /\ Fairness

-----------------------------------------------------------------------------
(* A session noted in defer_sessions belongs to an entry that is being     *)
(* fetched, with an HTTP request still under way that will answer it:      *)
(* expiry, RPC renewals and clears, reloads and late answers of earlier    *)
(* requests never leave it behind.                                         *)
DeferredIsFetched ==
  \A u \in Urls : entries[u].defer # {} => entries[u].state = "loading" /\ gets[u] > 0

(* No certificate is named twice among the Identity headers of an INVITE.  *)
DistinctHeaders ==
  \A s \in Legs : \A i, j \in 1 .. Len(Headers[s]) :
    Headers[s][i] = Headers[s][j] => i = j

(* onIdentityReady allocates the call context and asks for the profiles:   *)
(* however answers of several certificates and repeated fetches interleave,*)
(* it runs at most once for a leg whose headers name distinct certificates.*)
(* (A certificate that is named twice, and is answered and cleared between *)
(* the two checkAndFetch, is answered twice; the second answer finds       *)
(* nothing awaited and starts the call again.)                             *)
StartsOnce == \A s \in Legs : started[s] <= 1

(* Every certificate the leg waits for was asked for by this leg first, or *)
(* has been answered.                                                      *)
WaitsAsFirst(s) ==
  /\ pc[s] = "wait"
  /\ \A u \in awaited[s] : s \in entries[u].defer \/ <<s, u>> \in responses

(* As long as no operator clears the cache and no reload changes what is   *)
(* trusted, a leg that was first to ask for each certificate it awaits     *)
(* goes on: renewals in between do not lose its answers.                   *)
FirstToAskGoesOn ==
  [](budget.clear = 0 /\ budget.reload = 0)
    => \A s \in Legs : WaitsAsFirst(s) ~> pc[s] # "wait"
=============================================================================
