------------------------------ MODULE DbConfig -------------------------------
(***************************************************************************)
(* Configuration of Yeti from the routing database: the synchronous        *)
(* queries of onLoad, the state numbers the yeti worker compares on a      *)
(* timer, and the loaders of the tables whose number grew.                 *)
(*                                                                         *)
(* A table is a sequence of rows [id, val]; the value "bad" is a row the   *)
(* loader cannot use.  Ids are unique in a table.                          *)
(***************************************************************************)
EXTENDS Integers, Sequences

CONSTANTS
  TableOrder,             \* the names of check_states() in use, in order
  TranslationKeys,        \* the subkeys of "translations", in their order
  Data,                   \* contents a table may have: sequences of rows
  PoolSizes,              \* connections the routing worker may have
  MaxChanges,             \* bound: changes of tables
  MaxFaults,              \* bound: failed or timed out queries
  MaxBacklog              \* bound: queries and answers when a timer fires

ASSUME DbAssumption ==
  /\ TableOrder \in Seq(STRING)
  /\ TranslationKeys \in Seq(STRING)
  /\ \A d \in Data : /\ d \in Seq({d[i] : i \in DOMAIN d})
                     /\ \A i \in DOMAIN d : d[i] = [id |-> d[i].id, val |-> d[i].val]
                     /\ \A i, j \in DOMAIN d : d[i].id = d[j].id => i = j
  /\ PoolSizes \subseteq Nat \ {0} /\ MaxChanges \in Nat /\ MaxFaults \in Nat /\ MaxBacklog \in Nat

VARIABLES
  db,                     \* [Tables -> [ver, data]]: the database
  pool,                   \* connections of the routing worker
  pgq,                    \* queries posted to it
  conns,                  \* what executed queries found, not yet delivered
  queue,                  \* answers in the queue of the yeti worker
  main,                   \* where onLoad is
  boot,                   \* number of its synchronous query
  cond,                   \* sync_db: db_reply_condition and db_reply_token
  db_cfg_states,          \* [Tables -> Int]: numbers seen last; -1 is none
  mem,                    \* [Keys -> set of rows]: what the loaders built
  loaded,                 \* [Keys -> Int]: number of the data in mem
  newest,                 \* [Keys -> Int]: the greatest loaded so far
  lost,                   \* [Keys -> Int]: the greatest given up for lost
  client,                 \* registrations of the registrar_client module
  changes, faults         \* how many so far

dbVars   == <<db, pool, changes>>
bootVars == <<main, boot, cond>>
memVars  == <<db_cfg_states, mem, loaded, newest, lost, client>>
vars     == <<dbVars, pgq, conns, queue, bootVars, memVars, faults>>

Tables == {TableOrder[i] : i \in DOMAIN TableOrder}

(* "translations" is an alias: six queries load its tables.                *)
SubKeys(t) == IF t = "translations" THEN TranslationKeys ELSE <<t>>

KeysOf(t) == {SubKeys(t)[i] : i \in DOMAIN SubKeys(t)}

Keys == UNION {KeysOf(t) : t \in Tables}

TableOf(k) == CHOOSE t \in Tables : k \in KeysOf(t)

(* exec_query is called twice by SqlRouter, then by ResourceControl.       *)
RouterTokens == <<"load_interface_out", "load_interface_in">>

ControlTokens == <<"load_resource_types">>

SyncTokens == RouterTokens \o ControlTokens

(* No two of the maps' keys are the same, and a query's token tells what   *)
(* it was for.                                                             *)
ASSUME KeysAssumption ==
  /\ \A t, u \in Tables : t # u => KeysOf(t) \cap KeysOf(u) = {}
  /\ "check_states" \notin Keys
  /\ \A i \in DOMAIN SyncTokens : SyncTokens[i] \notin Keys

Configured == main = "configured"

Init ==
  /\ \E d \in Data : db = [t \in Tables |-> [ver |-> 1, data |-> d]]
  /\ pool \in PoolSizes
  /\ pgq = <<>> /\ conns = <<>> /\ queue = <<>>
  /\ main = "query" /\ boot = 1
  /\ cond = [state |-> "waiting", token |-> "none"]
  /\ db_cfg_states = [t \in Tables |-> -1]
  /\ mem = [k \in Keys |-> {}]
  /\ loaded = [k \in Keys |-> -1]
  /\ newest = [k \in Keys |-> -1]
  /\ lost = [k \in Keys |-> -1]
  /\ client = {}
  /\ changes = 0 /\ faults = 0

-----------------------------------------------------------------------------
(* The database and its worker.                                            *)

ChangeTable(t) ==
  /\ changes < MaxChanges
  /\ changes' = changes + 1
  /\ \E d \in Data : db' = [db EXCEPT ![t] = [ver |-> @.ver + 1, data |-> d]]
  /\ UNCHANGED <<pool, pgq, conns, queue, bootVars, memVars, faults>>

(* What a query finds when it is executed: the numbers of all tables, or   *)
(* the rows of one (with their number, as history).                        *)
Result(token) ==
  [token |-> token, res |-> "result",
   vers |-> [t \in Tables |-> IF token = "check_states" \/ token \in KeysOf(t)
                              THEN db[t].ver ELSE 0],
   data |-> IF token \in Keys THEN db[TableOf(token)].data ELSE <<>>]

(* PGResponseError, or PGTimeout, which every receiver treats alike.       *)
Failure(token) ==
  [token |-> token, res |-> "error", vers |-> [t \in Tables |-> 0], data |-> <<>>]

Without(s, i) == [j \in 1..(Len(s) - 1) |-> IF j < i THEN s[j] ELSE s[j + 1]]

(* Any of the queries that have a connection may be executed next.         *)
PgExecute(i) ==
  /\ i \in 1..(pool - Len(conns)) /\ i <= Len(pgq)
  /\ pgq' = Without(pgq, i)
  /\ \/ conns' = Append(conns, Result(pgq[i])) /\ faults' = faults
     \/ /\ faults < MaxFaults
        /\ faults' = faults + 1
        /\ conns' = Append(conns, Failure(pgq[i]))
  /\ UNCHANGED <<dbVars, queue, bootVars, memVars>>

(* The connections deliver what they found in any order.                   *)
PgAnswer(i) ==
  /\ i \in DOMAIN conns
  /\ conns' = Without(conns, i)
  /\ queue' = Append(queue, conns[i])
  /\ UNCHANGED <<dbVars, pgq, bootVars, memVars, faults>>

-----------------------------------------------------------------------------
(* onLoad: the main thread.                                                *)

ExecQuery ==
  /\ main = "query"
  /\ cond' = [state |-> "waiting", token |-> "none"]
  /\ pgq' = Append(pgq, SyncTokens[boot])
  /\ main' = "waiting"
  /\ UNCHANGED <<dbVars, conns, queue, boot, memVars, faults>>

(* Mutant: the failure of a query is not reported to the caller.           *)
QueryDoneAlways ==
  /\ main = "waiting"
  /\ cond.state # "waiting" \/ faults < MaxFaults
  /\ faults' = IF cond.state = "waiting" THEN faults + 1 ELSE faults
  /\ IF boot < Len(SyncTokens) THEN main' = "query" /\ boot' = boot + 1
     ELSE main' = "linked" /\ UNCHANGED boot
  /\ UNCHANGED <<dbVars, pgq, conns, queue, cond, memVars>>

(* An error, a timeout of the worker or five seconds without an answer end *)
(* the start-up: every caller passes the failure on and onLoad returns -1. *)
QueryDone ==
  /\ main = "waiting"
  /\ \/ /\ cond.state = "waiting"
        /\ faults < MaxFaults /\ faults' = faults + 1
        /\ main' = "failed" /\ UNCHANGED boot
     \/ /\ cond.state = "error"
        /\ main' = "failed" /\ UNCHANGED <<boot, faults>>
     \/ /\ cond.state = "result"
        /\ IF boot < Len(SyncTokens) THEN main' = "query" /\ boot' = boot + 1
           ELSE main' = "linked" /\ UNCHANGED boot
        /\ UNCHANGED faults
  /\ UNCHANGED <<dbVars, pgq, conns, queue, cond, memVars>>

(* The end of onLoad: timers run since "linked"; the first check does not  *)
(* wait for the timer.                                                     *)
ConfigurationFinished ==
  /\ main = "linked"
  /\ main' = "configured"
  /\ pgq' = Append(pgq, "check_states")
  /\ UNCHANGED <<dbVars, conns, queue, boot, cond, memVars, faults>>

-----------------------------------------------------------------------------
(* The loaders.  Each says what is in memory after it, given what was.     *)

Rows(data) == {data[i] : i \in DOMAIN data}

Usable(data) == {r \in Rows(data) : r.val # "bad"}

BeforeBad(data) == {data[i] : i \in {j \in DOMAIN data : \A l \in 1..j : data[l].val # "bad"}}

Defaulted(data) == {[r EXCEPT !.val = IF @ = "bad" THEN "default" ELSE @] : r \in Rows(data)}

(* Fields that cannot be read take their default; the table is swapped in. *)
LoadDisconnectCodes(old, data) == Defaulted(data)

LoadDisconnectCodeOverrides(old, data) == Defaulted(data)

(* Trusted entries are cleared and added one by one: a certificate that    *)
(* cannot be parsed leaves its entry without it, a pattern that is no      *)
(* regular expression is left out.                                         *)
ReloadTrustedCertificates(old, data) == Defaulted(data)

ReloadTrustedRepositories(old, data) == Usable(data)

(* A sensor that cannot be initialized is left out.                        *)
LoadSensorsConfig(old, data) == Usable(data)

(* A codec that cannot be inserted keeps all the old groups.               *)
LoadCodecs(old, data) == IF Usable(data) = Rows(data) THEN Rows(data) ELSE old

(* A row that throws leaves the old table.                                 *)
ReloadCredentials(old, data) == IF Usable(data) = Rows(data) THEN Rows(data) ELSE old

ReloadLoadIPAuth(old, data) == IF Usable(data) = Rows(data) THEN Rows(data) ELSE old

ReloadLoadBalancers(old, data) == IF Usable(data) = Rows(data) THEN Rows(data) ELSE old

(* Connections are cleared and added one by one: a row that throws leaves  *)
(* those before it.                                                        *)
LoadRadiusConnections(old, data) == BeforeBad(data)

(* Keys are cleared; one that cannot be read is left out.                  *)
ReloadSigningKeys(old, data) == Usable(data)

(* The prober module flushes its probers and adds what it is sent.         *)
LoadProbers(old, data) == Rows(data)

Loaded(k, old, data) ==
  CASE k = "registrations" -> Defaulted(data)
    [] k = "sensors" -> LoadSensorsConfig(old, data)
    [] k = "codec_groups" -> LoadCodecs(old, data)
    [] k = "auth_credentials" -> ReloadCredentials(old, data)
    [] k = "ip_auth" -> ReloadLoadIPAuth(old, data)
    [] k = "trusted_lb" -> ReloadLoadBalancers(old, data)
    [] k \in {"radius_authorization_profiles", "radius_accounting_profiles"}
         -> LoadRadiusConnections(old, data)
    [] k = "stir_shaken_signing_certificates" -> ReloadSigningKeys(old, data)
    [] k = "stir_shaken_trusted_certificates" -> ReloadTrustedCertificates(old, data)
    [] k = "stir_shaken_trusted_repositories" -> ReloadTrustedRepositories(old, data)
    [] k \in {"translations.dc_refuse_override", "translations.dc_rerouting_override",
              "translations.dc_rewrite_override"}
         -> LoadDisconnectCodeOverrides(old, data)
    [] k = "options_probers" -> LoadProbers(old, data)
    [] OTHER -> LoadDisconnectCodes(old, data)

(* Loaders that give up at a row they cannot use.                          *)
GivesUp(k, data) ==
  /\ k \in {"codec_groups", "auth_credentials", "ip_auth", "trusted_lb",
            "radius_authorization_profiles", "radius_accounting_profiles"}
  /\ Usable(data) # Rows(data)

Ids(rows) == {r.id : r \in rows}

Row(rows, id) == CHOOSE r \in rows : r.id = id

(* Mutant: a changed registration is created again without removing it.    *)
LoadRegistrationsNoRemove(regs, local, dbrows) ==
  {r \in regs : r.id \in Ids(dbrows) \/ r.id \notin Ids(local)}
    \cup {r \in dbrows : r.id \notin Ids(local) \/ r # Row(local, r.id)}

(* The client's interface: it finds a registration by its id.              *)
RemoveRegistrations(regs, ids) == {r \in regs : r.id \notin ids}

AddRegistrations(regs, rows) == regs \cup rows

IsRegUpdated(local, dbrow) == local # dbrow

(* Registrations removed from the database or changed are removed from the *)
(* client, changed and new ones are created.                               *)
LoadRegistrations(regs, local, dbrows) ==
  LET updated == {i \in Ids(local) \cap Ids(dbrows) : IsRegUpdated(Row(local, i), Row(dbrows, i))}
      removed == (Ids(local) \ Ids(dbrows)) \cup updated
      added   == (Ids(dbrows) \ Ids(local)) \cup updated
  IN  AddRegistrations(RemoveRegistrations(regs, removed), {r \in dbrows : r.id \in added})

-----------------------------------------------------------------------------
(* The yeti worker.                                                        *)

Backlog == Len(pgq) + Len(conns) + Len(queue)

(* Mutant: the check is asked for only until it was answered once.         *)
OnDbCfgReloadTimerOnce ==
  /\ main \in {"linked", "configured"}
  /\ Backlog < MaxBacklog
  /\ pgq' = IF \A t \in Tables : db_cfg_states[t] = -1 THEN Append(pgq, "check_states") ELSE pgq
  /\ UNCHANGED <<dbVars, conns, queue, bootVars, memVars, faults>>

OnDbCfgReloadTimer ==
  /\ main \in {"linked", "configured"}
  /\ Backlog < MaxBacklog
  /\ pgq' = Append(pgq, "check_states")
  /\ UNCHANGED <<dbVars, conns, queue, bootVars, memVars, faults>>

(* Queries for the tables with a new or a greater number, in the order of  *)
(* their names.                                                            *)
Reloads(ver) ==
  LET q[i \in 0..Len(TableOrder)] ==
        IF i = 0 THEN <<>>
        ELSE q[i - 1] \o (IF ver[TableOrder[i]] > db_cfg_states[TableOrder[i]]
                          THEN SubKeys(TableOrder[i]) ELSE <<>>)
  IN  q[Len(TableOrder)]

(* Mutant: only tables not seen before are loaded.                         *)
OnReloadResponseNewOnly(ver) ==
  /\ pgq' = IF \A t \in Tables : db_cfg_states[t] = -1 THEN pgq \o Reloads(ver) ELSE pgq
  /\ db_cfg_states' = ver
  /\ UNCHANGED <<mem, loaded, newest, lost, client, cond>>

(* The numbers are remembered before anything was loaded; an older answer  *)
(* that comes late takes the place of a newer one.                         *)
OnDbCfgReloadTimerResponse(ver) ==
  /\ pgq' = pgq \o Reloads(ver)
  /\ db_cfg_states' = ver
  /\ UNCHANGED <<mem, loaded, newest, lost, client, cond>>

Greater(a, b) == IF a > b THEN a ELSE b

(* The data is loaded whatever number it has (loaded, newest and lost are  *)
(* history).                                                               *)
OnDbResponse(e) ==
  LET ver == e.vers[TableOf(e.token)]
  IN  /\ mem' = [mem EXCEPT ![e.token] = Loaded(e.token, @, e.data)]
      /\ client' = IF e.token = "registrations"
                   THEN LoadRegistrations(client, mem[e.token], mem'[e.token]) ELSE client
      /\ IF GivesUp(e.token, e.data)
           THEN /\ lost' = [lost EXCEPT ![e.token] = Greater(@, ver)]
                /\ UNCHANGED <<loaded, newest>>
           ELSE /\ loaded' = [loaded EXCEPT ![e.token] = ver]
                /\ newest' = [newest EXCEPT ![e.token] = Greater(@, ver)]
                /\ UNCHANGED lost
      /\ UNCHANGED <<pgq, db_cfg_states, cond>>

(* Before the end of the configuration every answer goes to sync_db, with  *)
(* whatever token; after it failures are logged and forgotten.             *)
Process ==
  /\ queue # <<>>
  /\ queue' = Tail(queue)
  /\ LET e == Head(queue) IN
     \/ /\ ~Configured
        /\ cond' = [state |-> e.res, token |-> e.token]
        /\ UNCHANGED <<pgq, memVars>>
     \/ /\ Configured /\ e.res = "result" /\ e.token = "check_states"
        /\ OnDbCfgReloadTimerResponse(e.vers)
     \/ /\ Configured /\ e.res = "result" /\ e.token \in Keys
        /\ OnDbResponse(e)
     \/ /\ Configured /\ e.res # "result"
        /\ lost' = [k \in Keys |-> IF k = e.token THEN Greater(lost[k], db_cfg_states[TableOf(k)])
                                                  ELSE lost[k]]
        /\ UNCHANGED <<pgq, cond, db_cfg_states, mem, loaded, newest, client>>
  /\ UNCHANGED <<dbVars, conns, main, boot, faults>>

(* onLoad failed: the process ends.                                        *)
Terminated == main = "failed" /\ UNCHANGED vars

Next ==
  \/ \E t \in Tables : ChangeTable(t)
  \/ \E i \in 1..pool : PgExecute(i) \/ PgAnswer(i)
  \/ ExecQuery \/ QueryDone \/ ConfigurationFinished
  \/ OnDbCfgReloadTimer \/ Process
  \/ Terminated

(* The threads run, no query of the worker waits for ever for a connection *)
(* and none on a connection for its answer, and the timer fires.           *)
Fairness ==
  /\ WF_vars(PgExecute(1)) /\ WF_vars(PgAnswer(1))
  /\ WF_vars(ExecQuery \/ QueryDone \/ ConfigurationFinished)
  /\ WF_vars(OnDbCfgReloadTimer) /\ WF_vars(Process)

Spec == Init /\ [][Next]_vars /\ Fairness

-----------------------------------------------------------------------------
Pending(k) ==
  \/ \E i \in DOMAIN pgq : pgq[i] = k
  \/ \E i \in DOMAIN conns : conns[i].token = k
  \/ \E i \in DOMAIN queue : queue[i].token = k

(* A number that is remembered stands for data as new that was loaded, for *)
(* a load under way, or for a load of that number that failed, however the *)
(* answers of checks and loads overtake each other on the connections and  *)
(* the tables change between a check and its loads.  A failed load excuses *)
(* no number that is read later (onDbCfgReloadTimerResponse, process).     *)
RememberedIsLoaded ==
  \A t \in Tables : \A k \in KeysOf(t) :
    newest[k] >= db_cfg_states[t] \/ Pending(k) \/ lost[k] >= db_cfg_states[t]

(* exec_query does not compare tokens; the answer it wakes up for is that  *)
(* of its own query.                                                       *)
SyncAnswerIsOwn ==
  main = "waiting" /\ cond.state # "waiting" => cond.token = SyncTokens[boot]

(* The registrar client holds exactly the registrations of the last load:  *)
(* the difference applied to it never leaves or repeats one.               *)
ClientMirrors == "registrations" \in Keys => client = mem["registrations"]

(* Unless the start-up fails, every change of a table is loaded in the     *)
(* end, whatever failed before, except one whose own load failed or whose  *)
(* data cannot be used; and with one connection it is the newest data that *)
(* stays in memory.  With more an older load delivered late replaces it    *)
(* (process compares no numbers).                                          *)
CatchesUp ==
  \A t \in Tables : \A k \in KeysOf(t) :
    <>[](\/ main = "failed"
         \/ /\ newest[k] = db[t].ver \/ lost[k] = db[t].ver
            /\ pool = 1 => loaded[k] = newest[k])
=============================================================================
