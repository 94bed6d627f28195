------------------------------ MODULE Registrar ------------------------------
(***************************************************************************)
(* Registrations kept in redis.  The SIP workers hand authorised REGISTERs *)
(* to the registrar's redis connection and the yeti worker answers them;   *)
(* call legs and the RPC thread look bindings up; a second connection      *)
(* loads this node's bindings and follows expired and deleted keys, so     *)
(* that OPTIONS are sent to every binding that is alive.                   *)
(***************************************************************************)
EXTENDS SBCFactory, FiniteSets

CONSTANTS
  Ids,                    \* auth ids of accounts
  Contacts,               \* addresses
  Credentials,            \* [id, user, pwd]: the table of accounts
  Requests,               \* SIP requests that come in
  Messages,               \* REGISTERs
  Others,                 \* INVITEs and other requests outside of dialogs
  Lookups,                \* call legs and RPC calls that ask for bindings
  MaxBindings,            \* 10 in register.lua
  MaxFaults,              \* bound: lost connections
  MaxOther,               \* bound: scripts run by other nodes
  MaxPings                \* bound: ticks of the keepalive timer

ASSUME RegistrarAssumption ==
  /\ MaxBindings \in Nat \ {0} /\ MaxFaults \in Nat /\ MaxOther \in Nat /\ MaxPings \in Nat
  /\ \A c \in Credentials : c.id \in Ids
  /\ Requests \cap Lookups = {} /\ "script" \notin Requests \cup Lookups

Keys == Ids \X Contacts   \* c:<id>:<contact>
None == "none"

VARIABLES
  set, key,               \* redis: a:<id> sets; [life, node] of contact keys
  conn, hash,             \* the connection for commands; are hashes known
  pipe, back,             \* commands on their way to redis, their replies
  inbox,                  \* RedisReplyEvents of the yeti worker
  answers, log,           \* SIP codes sent per request; auth log entries
  calls,                  \* lookups of legs and of the RPC
  sub, snapshot, events,  \* the subscription; loaded keys; key events
  contexts,               \* keepalive_contexts
  pinging, dlgs,          \* on_keepalive_timer's loop; uac_dlgs
  budget

redisVars == <<set, key>>
connVars  == <<conn, hash, pipe, back>>
subVars   == <<sub, snapshot, events>>
pingVars  == <<pinging, dlgs>>
vars == <<redisVars, connVars, inbox, answers, log, calls, subVars, contexts, pingVars, budget>>

Dead == [life |-> None, node |-> "self"]

Init ==
  /\ set = [i \in Ids |-> {}] /\ key = [k \in Keys |-> Dead]
  /\ conn = "down" /\ hash = FALSE /\ pipe = <<>> /\ back = <<>>
  /\ inbox = <<>>
  /\ answers = [r \in Requests |-> <<>>] /\ log = [r \in Requests |-> <<>>]
  /\ calls = [l \in Lookups |-> [kind |-> None, st |-> "idle", got |-> {}, dead |-> {}]]
  /\ sub = "down" /\ snapshot = {} /\ events = <<>>
  /\ contexts = {}
  /\ pinging = {} /\ dlgs = [k \in Keys |-> None]
  /\ budget = [fault |-> 0, other |-> 0, ping |-> 0, seen |-> {}]

Spend(what, max) ==
  /\ budget[what] < max
  /\ budget' = [budget EXCEPT ![what] = @ + 1]

-----------------------------------------------------------------------------
(* The scripts.  A key is fresh while its TTL is positive; redis rounds    *)
(* the last half second of a life ("ending") to a TTL of zero.             *)

Alive(k) == key[k].life # None
Fresh(k) == key[k].life = "fresh"

(* get_bindings also takes obsolete members out of the set.                *)
GetBindings(s, ks, id) == {c \in s[id] : ks[<<id, c>>].life = "fresh"}

Ran(s, ks, reply) == [set |-> s, key |-> ks, reply |-> reply]

WithBindings(s, ks, id) ==
  LET b == GetBindings(s, ks, id)
  IN  Ran([s EXCEPT ![id] = b], ks, [is |-> "bindings", of |-> b])

Deleted(ks, K) == [k \in Keys |-> IF k \in K THEN Dead ELSE ks[k]]

(* Mutant: the index is dropped and the contact keys are left behind.      *)
UnbindAllKeepsKeys(id) == Ran([set EXCEPT ![id] = {}], key, [is |-> "nil", of |-> {}])

UnbindAll(id) ==
  Ran([set EXCEPT ![id] = {}], Deleted(key, {<<id, c>> : c \in set[id]}), [is |-> "nil", of |-> {}])

Unbind(id, c) == WithBindings([set EXCEPT ![id] = @ \ {c}], Deleted(key, {<<id, c>>}), id)

Full(s, id) == Cardinality(s[id]) >= MaxBindings

(* The limit is looked at before the contact is, so a full account cannot  *)
(* refresh a contact that it has; EXPIRE with a negative TTL deletes.      *)
Bind(id, c, expires, node) ==
  LET cleaned == [set EXCEPT ![id] = {d \in @ : Alive(<<id, d>>)}]
      written == [key EXCEPT ![<<id, c>>] =
                    IF expires > 0 THEN [life |-> "fresh", node |-> node] ELSE Dead]
  IN  IF Full(cleaned, id) THEN Ran(cleaned, key, [is |-> "text", of |-> {}])
      ELSE WithBindings([cleaned EXCEPT ![id] = @ \cup {c}], written, id)

RegisterScript(id, cmd, node) ==
  IF cmd.op = "fetch_all" THEN WithBindings(set, key, id)
  ELSE IF cmd.op = "unbind_all" THEN UnbindAll(id)
  ELSE IF cmd.expires = 0 THEN Unbind(id, cmd.contact)
  ELSE Bind(id, cmd.contact, cmd.expires, node)

(* EXISTS is a number and every number is true in Lua: a member whose key  *)
(* is gone is returned with a nil path.                                    *)
AorLookupScript(id) == {[contact |-> c, path |-> IF Alive(<<id, c>>) THEN "path" ELSE "nil"] : c \in set[id]}

RpcAorLookupScript(id) == {[contact |-> c, path |-> "path"] : c \in GetBindings(set, key, id)}

(* Keys that a step removes are published while somebody is subscribed.    *)
Publish ==
  LET gone == {k \in Keys : Alive(k) /\ key'[k].life = None}
  IN  events' \in IF sub = "on" THEN {events \o o : o \in {q \in UNION {[1..n -> gone] : n \in {Cardinality(gone)}} :
                                                          {q[i] : i \in DOMAIN q} = gone}}
                  ELSE {events}

(* Time passes for a key, and it is over.                                  *)
Age(k) ==
  /\ Alive(k)
  /\ key' = IF Fresh(k) THEN [key EXCEPT ![k].life = "ending"] ELSE [key EXCEPT ![k] = Dead]
  /\ Publish
  /\ UNCHANGED <<set, connVars, inbox, answers, log, calls, sub, snapshot, contexts, pingVars, budget>>

(* Another node runs register.lua for a message of its own.                *)
OtherNode(id, m) ==
  LET cmd == ProcessAuthorizedRegister(m)
      r   == RegisterScript(id, cmd, "other")
  IN  /\ cmd.op # "reply"
      /\ Spend("other", MaxOther)
      /\ set' = r.set /\ key' = r.key
      /\ Publish
      /\ UNCHANGED <<connVars, inbox, answers, log, calls, sub, snapshot, contexts, pingVars>>

-----------------------------------------------------------------------------
(* The connection for commands.                                            *)

Event(from, res, data) == [from |-> from, res |-> res, data |-> data]
NoData == [is |-> "nil", of |-> {}]

(* Mutant: a request without a connection is dropped.                      *)
PostDropped(from, cmd) ==
  /\ pipe' = IF conn = "up" THEN Append(pipe, [from |-> from, cmd |-> cmd, known |-> hash]) ELSE pipe
  /\ UNCHANGED inbox

(* postRedisRequest and process_request_event: without a connection the    *)
(* sender gets a NotConnected reply at once.                               *)
Post(from, cmd) ==
  IF conn = "up"
  THEN /\ pipe' = Append(pipe, [from |-> from, cmd |-> cmd, known |-> hash])
       /\ UNCHANGED inbox
  ELSE /\ inbox' = Append(inbox, Event(from, "failed", NoData))
       /\ UNCHANGED pipe

(* on_connect sends the scripts ahead of everything else.                  *)
OnConnect ==
  /\ conn = "down"
  /\ conn' = "up"
  /\ pipe' = <<[from |-> "script", cmd |-> [op |-> "load"], known |-> TRUE]>>
  /\ UNCHANGED <<redisVars, hash, back, inbox, answers, log, calls, subVars, contexts, pingVars, budget>>

(* Who waits for replies, in the order of the commands.  The scripts were  *)
(* sent first, and nobody waits for theirs.                                *)
Waiting ==
  LET senders == [i \in DOMAIN back |-> back[i].from] \o [i \in DOMAIN pipe |-> pipe[i].from]
  IN  IF senders # <<>> /\ Head(senders) = "script" THEN Tail(senders) ELSE senders

(* hiredis fails every command that is still waiting, run or not.          *)
OnDisconnect ==
  /\ conn = "up"
  /\ Spend("fault", MaxFaults)
  /\ conn' = "down" /\ pipe' = <<>> /\ back' = <<>>
  /\ inbox' = inbox \o [i \in DOMAIN Waiting |-> Event(Waiting[i], "failed", NoData)]
  /\ UNCHANGED <<redisVars, hash, answers, log, calls, subVars, contexts, pingVars>>

(* Redis runs the next command; without a hash EVALSHA is an error.        *)
Execute ==
  /\ pipe # <<>>
  /\ LET p   == pipe[1]
         ok(d) == Append(back, Event(p.from, "ok", d))
     IN  /\ pipe' = Tail(pipe)
         /\ \/ /\ p.cmd.op = "load" \/ ~p.known
               /\ back' = Append(back, Event(p.from, IF p.known THEN "ok" ELSE "failed", NoData))
               /\ UNCHANGED <<redisVars, events>>
            \/ /\ p.known /\ p.cmd.op = "aor_lookup"
               /\ back' = ok([is |-> "aors", of |-> AorLookupScript(p.cmd.id),
                              dead |-> {c \in Contacts : ~Alive(<<p.cmd.id, c>>)}])
               /\ UNCHANGED <<redisVars, events>>
            \/ /\ p.known /\ p.cmd.op = "rpc_aor_lookup"
               /\ back' = ok([is |-> "aors", of |-> RpcAorLookupScript(p.cmd.id), dead |-> {}])
               /\ UNCHANGED <<redisVars, events>>
            \/ /\ p.known /\ p.cmd.op = "register"
               /\ LET r == RegisterScript(p.cmd.id, p.cmd.what, "self")
                  IN  /\ set' = r.set /\ key' = r.key
                      /\ back' = ok([is |-> r.reply.is, of |-> {<<p.cmd.id, c>> : c \in r.reply.of}])
               /\ Publish
  /\ UNCHANGED <<conn, hash, inbox, answers, log, calls, sub, snapshot, contexts, pingVars, budget>>

ReadReply ==
  /\ back # <<>>
  /\ back' = Tail(back)
  /\ IF back[1].from = "script"
     THEN hash' = TRUE /\ UNCHANGED inbox
     ELSE inbox' = Append(inbox, back[1]) /\ UNCHANGED hash
  /\ UNCHANGED <<redisVars, conn, pipe, answers, log, calls, subVars, contexts, pingVars, budget>>

-----------------------------------------------------------------------------
(* Requests and their answers.                                             *)

HandedToLeg == 1          \* stands among the codes for a leg that answers

(* A SIP worker handles an INVITE or a request outside of a dialog.        *)
Receive(r, m) ==
  /\ r \notin budget.seen
  /\ budget' = [budget EXCEPT !.seen = @ \cup {r}]
  /\ \E auth_id \in CheckRequestAuth(Credentials, m.auth) :
     \E o \in IF m.method = "INVITE" THEN {OnInvite(auth_id, pre) : pre \in PreAuth(m)}
              ELSE {OnOoDRequest(m, auth_id)} :
       /\ answers' = [answers EXCEPT ![r] = @ \o o.codes \o IF o.then.op = "leg" THEN <<HandedToLeg>> ELSE <<>>]
       /\ log' = [log EXCEPT ![r] = @ \o o.log]
       /\ IF o.then.op \in {"none", "leg"} THEN UNCHANGED <<pipe, inbox>>
          ELSE Post(r, [op |-> "register", id |-> auth_id, what |-> o.then])
  /\ UNCHANGED <<redisVars, conn, hash, back, calls, subVars, contexts, pingVars>>

MutexFree == pinging = {} /\ \A k \in Keys : dlgs[k] \notin {"sent", "early"}

(* Mutant: the error branch falls through to the answer.                   *)
CodesFallThrough(e) ==
  IF e.res = "failed" THEN <<500, 200>>
  ELSE IF e.data.is = "text" THEN <<500>> ELSE <<200>>

Codes(e) ==
  IF e.res = "failed" \/ e.data.is = "text" THEN <<500>> ELSE <<200>>

(* Every binding of the reply gets a keepalive context, other nodes' too.  *)
ProcessRedisRegisterReply(e) ==
  /\ answers' = [answers EXCEPT ![e.from] = @ \o Codes(e)]
  /\ e.data.of # {} => MutexFree
  /\ contexts' = contexts \cup e.data.of
  /\ UNCHANGED calls

(* The RPC thread is woken with whatever came.                             *)
ProcessRedisRpcAorLookupReply(e) ==
  /\ calls' = [calls EXCEPT ![e.from] = [@ EXCEPT !.st = "done", !.got = {a.contact : a \in e.data.of}]]
  /\ UNCHANGED <<answers, contexts>>

(* Mutant: an entry without a path is taken too.                           *)
ParsedAnyPath(of) == {a.contact : a \in of}

(* aor_lookup_reply::parse skips what is not a pair of strings.            *)
Parsed(of) == {a.contact : a \in {b \in of : b.path # "nil"}}

(* onRedisReply: an error is a 500, an account without contacts is skipped *)
(* as not registered.                                                      *)
OnRedisReply(e) ==
  /\ calls' = [calls EXCEPT ![e.from] =
       IF e.res = "failed" THEN [@ EXCEPT !.st = "refused"]
       ELSE [@ EXCEPT !.st   = IF Parsed(e.data.of) = {} THEN "not_registered" ELSE "done",
                      !.got  = Parsed(e.data.of), !.dead = e.data.dead]]
  /\ UNCHANGED <<answers, contexts>>

ForLeg(e) == e.from \in Lookups /\ calls[e.from].kind = "leg"

(* The yeti worker takes its events in order, a leg takes its own.         *)
ProcessReply(i) ==
  LET e == inbox[i] IN
  /\ i \in DOMAIN inbox
  /\ \/ ForLeg(e) /\ OnRedisReply(e)
     \/ /\ \A j \in 1..(i - 1) : ForLeg(inbox[j])
        /\ \/ e.from \in Requests /\ ProcessRedisRegisterReply(e)
           \/ e.from \in Lookups /\ ~ForLeg(e) /\ ProcessRedisRpcAorLookupReply(e)
  /\ inbox' = SubSeq(inbox, 1, i - 1) \o SubSeq(inbox, i + 1, Len(inbox))
  /\ UNCHANGED <<redisVars, connVars, log, subVars, pingVars, budget>>

(* resolve_aors and rpc_resolve_aors_blocking throw a 500 while the hash   *)
(* is unknown.                                                             *)
Resolve(l, kind, id) ==
  /\ calls[l].st = "idle"
  /\ calls' = [calls EXCEPT ![l].kind = kind, ![l].st = IF hash THEN "waiting" ELSE "refused"]
  /\ IF hash THEN Post(l, [op |-> IF kind = "rpc" THEN "rpc_aor_lookup" ELSE "aor_lookup", id |-> id])
     ELSE UNCHANGED <<pipe, inbox>>
  /\ UNCHANGED <<redisVars, conn, hash, back, answers, log, subVars, contexts, pingVars, budget>>

-----------------------------------------------------------------------------
(* The subscription and the keepalive.                                     *)

(* Connect, load the script, run it, and only then subscribe: what redis   *)
(* removes in between is not told.                                         *)
SubConnect ==
  /\ sub = "down"
  /\ sub' = "loaded"
  /\ snapshot' = {[key |-> k, node |-> key[k].node] : k \in {j \in Keys : Alive(j)}}
  /\ UNCHANGED <<redisVars, connVars, inbox, answers, log, calls, events, contexts, pingVars, budget>>

(* What was known is forgotten, what the script returned of this node is   *)
(* kept.                                                                   *)
ProcessLoadedContacts ==
  /\ sub = "loaded" /\ MutexFree
  /\ contexts' = {e.key : e \in {d \in snapshot : d.node = "self"}}
  /\ snapshot' = {}
  /\ sub' = "subscribing"
  /\ UNCHANGED <<redisVars, connVars, inbox, answers, log, calls, events, pingVars, budget>>

Subscribed ==
  /\ sub = "subscribing"
  /\ sub' = "on"
  /\ UNCHANGED <<redisVars, connVars, inbox, answers, log, calls, snapshot, events, contexts, pingVars, budget>>

ProcessExpiredKey ==
  /\ events # <<>> /\ MutexFree
  /\ contexts' = contexts \ {events[1]}
  /\ events' = Tail(events)
  /\ UNCHANGED <<redisVars, connVars, inbox, answers, log, calls, sub, snapshot, pingVars, budget>>

SubDisconnect ==
  /\ sub # "down"
  /\ Spend("fault", MaxFaults)
  /\ sub' = "down" /\ snapshot' = {}
  /\ UNCHANGED <<redisVars, connVars, inbox, answers, log, calls, events, contexts, pingVars>>

(* OPTIONS for every context under the mutex: a dialog is sent first and   *)
(* put into uac_dlgs then, so an answer may look for it too early.         *)
OnKeepaliveTimer ==
  /\ MutexFree /\ contexts # {}
  /\ Spend("ping", MaxPings)
  /\ pinging' = contexts
  /\ UNCHANGED <<redisVars, connVars, inbox, answers, log, calls, subVars, contexts, dlgs>>

SendRequest(k) ==
  /\ k \in pinging /\ \A j \in Keys : dlgs[j] \notin {"sent", "early"}
  /\ pinging' = pinging \ {k}
  /\ dlgs' = [dlgs EXCEPT ![k] = "sent"]
  /\ UNCHANGED <<redisVars, connVars, inbox, answers, log, calls, subVars, contexts, budget>>

EmplaceDlg(k) ==
  /\ dlgs[k] \in {"sent", "early"}
  /\ dlgs' = [dlgs EXCEPT ![k] = IF @ = "sent" THEN "held" ELSE "leaked"]
  /\ UNCHANGED <<redisVars, connVars, inbox, answers, log, calls, subVars, contexts, pinging, budget>>

OnSipReply(k) ==
  /\ dlgs[k] \in {"sent", "held"}
  /\ dlgs' = [dlgs EXCEPT ![k] = IF @ = "held" THEN None ELSE "early"]
  /\ UNCHANGED <<redisVars, connVars, inbox, answers, log, calls, subVars, contexts, pinging, budget>>

Next ==
  \/ \E k \in Keys : Age(k)
  \/ \E i \in Ids, m \in Messages : OtherNode(i, m)
  \/ OnConnect \/ OnDisconnect \/ Execute \/ ReadReply
  \/ \E r \in Requests, m \in Messages \cup Others : Receive(r, m)
  \/ \E i \in DOMAIN inbox : ProcessReply(i)
  \/ \E l \in Lookups, kind \in {"leg", "rpc"}, i \in Ids : Resolve(l, kind, i)
  \/ SubConnect \/ ProcessLoadedContacts \/ Subscribed
  \/ ProcessExpiredKey \/ SubDisconnect
  \/ OnKeepaliveTimer
  \/ \E k \in Keys : SendRequest(k) \/ EmplaceDlg(k) \/ OnSipReply(k)

(* Redis runs what it gets, the connection comes back with the reconnect   *)
(* timer, and every thread takes the events of its queue.                  *)
Fairness ==
  /\ WF_vars(OnConnect) /\ WF_vars(Execute) /\ WF_vars(ReadReply)
  /\ WF_vars(\E i \in DOMAIN inbox : ProcessReply(i))
  /\ \A k \in Keys : WF_vars(SendRequest(k)) /\ WF_vars(EmplaceDlg(k))

Spec == Init /\ [][Next]_vars /\ Fairness

-----------------------------------------------------------------------------
(* Properties.                                                             *)

(* A binding that has time left is in the index of its account, so that a  *)
(* lookup finds it and "remove all" removes it, whatever REGISTERs, expiry *)
(* and other nodes' scripts did in between (etc/register.lua).             *)
FreshIsListed == \A k \in Keys : Fresh(k) => k[2] \in set[k[1]]

Final(code) == code # 100

(* A request gets one final answer at most, with the connection lost at    *)
(* any point between the post and the reply (processRedisRegisterReply);   *)
(* an INVITE gets that or a leg, never both.                               *)
OneFinalAnswer ==
  \A r \in Requests : \A i, j \in DOMAIN answers[r] :
    Final(answers[r][i]) /\ Final(answers[r][j]) => i = j

(* No lookup sends a call to a contact that was dead when the script ran,  *)
(* although the script returns members whose key is gone.                  *)
ResolvedWasAlive == \A l \in Lookups : calls[l].got \cap calls[l].dead = {}

(* Every REGISTER is answered and every lookup comes back, lost            *)
(* connections included.                                                   *)
EverybodyAnswered ==
  /\ \A r \in Requests : r \in budget.seen ~> \E i \in DOMAIN answers[r] : Final(answers[r][i])
  /\ \A l \in Lookups : calls[l].st = "waiting" ~> calls[l].st \in {"done", "refused", "not_registered"}
=============================================================================
