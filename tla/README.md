# Verification of sems-yeti

sems-yeti is the routing, accounting and resource-limiting application of a SIP
session border controller.  This directory holds TLA+ models of it, the TLC
configurations that check them and proofs checked by TLAPS.  Source references are
to `src/src/` of the repository; `PROJECT.json` maps every definition to its lines.

## 1. Inventory

| Part | State it keeps | Operations | Interacts with | What makes it correct |
|---|---|---|---|---|
| Resource control (`resources/ResourceControl`) | table of handlers (valid or not), `container_ready` | `get`, `put`, `invalidate_resources`, readiness callback | session threads, RPC thread, redis connection | what was taken is given back once; readiness follows initialisation |
| Resource redis connection (`resources/ResourceRedisConnection`, `ResourceSequences`) | `resources_inited`, `write_async_is_busy`, postponed operations, `inv_seq`, operation objects in flight | operation and invalidation sequences, check of limits, connect, disconnect, error | redis thread, session threads, server | counters equal what calls hold; transactions do not mix; queue is drained |
| Redis pool (`RedisConnectionPool`, `RedisConnection`) | connections, event queue, reconnect timer | request and reply events, reconnect | all redis users | every request is answered by exactly one reply event |
| Call context (`CallCtx`) | profiles, current profile, CDR, reference count | first and next profile | both legs, router, resource control | one CDR per attempt; released with the last leg |
| SBC call leg (`SBCCallLeg`, `SBC`) | leg state, call profile, timers | routing answer, resources, serial fork, teardown | call context, CallLeg, router, radius, registrar | every call ends with its resources released and a last CDR |
| B2B call leg (`CallLeg`) | call status, other legs, pending updates | relayed requests and replies, forking, transfer | events between legs | exactly one callee is connected; no leg is orphaned |
| CDR (`cdr/`), active calls (`hash/CdrList`) | CDR fields, list of active calls, postponed copies | update, insert, finalize, snapshot | both legs, snapshot thread, writer | one row per attempt, with consistent times and initiator; each copy reported once |
| HTTP sequencer (`HttpSequencer`) | stage of each call, kept events | hooks, answers, cleanup | A leg, http client | events in order, state forgotten with the call |
| SQL router (`SqlRouter`), codes (`CodesTranslator`) | prepared queries, translations | get profiles, refuse, write CDR | database pools | a call gets one answer |
| Front door (`SBC`, `Auth`, `OriginationPreAuth`) | credentials, address table | INVITE and requests outside of dialogs | registrar, call legs | one decision, one final answer |
| Registrar (`RegistrarRedisConnection`, `etc/*.lua`) | bindings in redis, subscription, keepalive contexts | register, resolve, load, expiry, keepalive | SIP workers, yeti worker, call legs, RPC, other nodes | index and bindings agree; everybody is answered |
| Certificate cache (`CertCache`) | entries, deferred sessions, trusted roots and repositories | lookup, HTTP answer, expiry, clear, renew, reload | A legs, yeti worker, RPC, http client | a waiting leg belongs to a fetch under way and goes on once |
| Configuration from the database (`yeti`, `yeti_base`, `DbConfigStates`, `Registration`, `OptionsProberManager`, `Sensors`, `yeti_radius`) | state numbers, loaded tables | synchronous start-up, reload timer, loaders | database pool, registrar client | what is remembered as loaded is; memory catches up |
| SDP (`sdp_filter`, `SDPFilter`, `CodecsGroup`, `RTPParameters`; their use in the legs) | negotiated media, payload maps, hold | filtering of offers and answers, local answers, hold | both legs, endpoints | answers fit offers; every request is answered |
| Header filters, profiles, parameter replacement | none | transformations of message data | call legs | |
| RPC (`yeti_rpc`) | none of its own | commands on the parts above | all | |

Hard behaviours: session threads, the RPC thread and the redis thread share flags
and a queue, partly without the mutex; a connection may break with a transaction in
flight; redis may refuse any command; the process may be restarted with the
counters of the last run still in redis; the legs of a call run on one thread, but
their events (answers of services, replies of callees, hang-ups, timers) come in any
order, and a leg that was given up may still speak.  `PROJECT.json` lists these under "hazards".

## 2. Plan

1. Resource subsystem: `ResourceGroups`, `ResourceCheck` (limit check), `Redis`,
   `ResourceRedisConnection`, `ResourceControl` (composition), `ResourceLedger`
   (abstract), proofs of types, the check and the invalidation. **Done.**
2. Call core: `CallCtx` (profiles, skipped profiles, attempts and their CDRs),
   `SBCCallLeg` (the legs of a call from INVITE to their destruction). **Done**, but for
   replies postponed until PRACK.
3. What a call leaves behind: `Cdr`, `HttpSequencer`, composed with the legs' end game
   and the snapshots in `CallReport`. **Done.**
4. What a call waits for: `CertCache`; `SBCFactory` and `Registrar`. **Done.**
5. Configuration and reload: `DbConfig`. **Done.**
6. Offer and answer: `SdpFilter` (the transformations), `SdpRelay` (the exchange). **Done.**
7. Proofs. **Done**: the check loop; types, user data, single release, exclusive use of
   the connection, invalidation and clearing of the accounting; references, resources,
   CDRs and attempts of a call, what it leaves behind; certificates, configuration and
   registrar; conservation of the accounts and the refinement of the ledger.

Composition: `ResourceControl` composes the session threads with the connection and the
server; `Registrar` the front door with redis and the legs' lookups; `CallReport` the
CDR with the sequencer and the snapshots; `SdpRelay` the filters with the legs.

## 3. Modules

### Resource check: `ResourceGroups`, `ResourceCheck`, `ResourceCheck_proof`

A resource list is a sequence of failover groups: every resource but the last of a
group has `failover_to_next`.  `ResourceGroups` says, without a loop, which
resources should be taken (`FirstFree`) and which groups cannot be served
(`Exhausted`).  `ResourceCheck` is the loop of `ResourceRedisConnection::get`, one
action per branch (`Skip`, `Overloaded`, `Free`, `Available`) over the iterator,
`check_state` and the `active` flags.  A usage number is abstracted to whether it
reached the limit.

Run `check_loop` covers every list of up to 6 resources whose last one does not
fail over (what the parser builds) with every set of overloaded resources: groups of
every size in every order.  The proofs remove the bound: `LoopInv` is inductive (it
states what has been taken before the iterator and what `check_state` remembers of
the current group), and gives `SuccessSound` and `BusySound` for all lists.

### Resource accounting: `Redis`, `ResourceRedisConnection`, `ResourceControl`, `ResourceLedger`, `ResourceControl_proof`, `ResourceCounters_proof`

`Redis` is the server (external): commands on the wire, replies, one transaction,
and this node's hash fields.  A field is kept per session, so that the sum is what
redis stores and the parts say who contributed.  Any command may be refused.

`ResourceRedisConnection` is the redis thread: `ProcessRequestEvent`, `HandleRead`,
the replies of the invalidation (`Inv...`) and of the operations (`Op...`), connect,
disconnect, the reconnect timer and the drain of the postponed queue.  `busy`,
`inited`, `opQueue`, `inv`, `ops` are the fields of the class; `ctx` is
`async_context` together with `connected`; "closing" is a context after `redisAsyncDisconnect`, for which
`connected` stays true until its last reply was read (`HandleLastRead`) and which takes
no command (`FailedToSend`); `pc` tells that the thread is about to
enter `process_operations_queue`, because other threads may act before it takes the
mutex.  With `Preemption`, a session thread stops between posting MULTI and setting
the flag (`holder`), and the RPC thread between KEYS and the reset of
`resources_inited`.

`ResourceControl` adds session threads (`GetStart` ... `SessionPut`), the RPCs that
release one handler or invalidate all, and the restart of the process.  The result
of the check loop enters as `FirstFree`/`Exhausted`, which `ResourceCheck` justifies.
`takes` is one unit: every command is linear in it.

`ResourceLedger` is what all this promises: a call books one resource of each group
and cancels that booking once.  The refinement mapping counts what redis holds plus
what is under way.

| Run | Question | Bounds |
|---|---|---|
| `accounting` | are increments and decrements lost, doubled, or applied to a wrong group? does the pipeline implement the ledger? | 2 calls, lists with a group and a single resource sharing a key, preemption everywhere, RPC releases |
| `reconnect` | the same when connections are lost or refused: are postponed operations sent, are counters cleared again? | 2 losses, 2 restarts |
| `invalidate` | an RPC invalidation at any moment, preempted between starting the sequence and resetting `resources_inited`; any one command refused | 1 invalidation, 1 error |

Two calls are enough for the interleavings of interest: one in the transaction, one
submitting; a third only queues like the second.  All runs allow the calls to end, so
deadlock is not checked.

Fairness (`FairSpec`): the redis thread's loop, the server, the session threads and
the restart of a dead process are weakly fair.  Nothing is assumed of faults or RPCs.

Behaviours the model reaches and the passing runs are bounded to avoid:

- After an RPC invalidation `container_ready` stays false: only an *initial* sequence
  calls `resources_initialized_cb`, and `cleanup()` has cleared `initial`
  (`ResourceSequences.cpp:89`), so every later `get` fails although the RPC answers
  success.  `SuccessMeansReady` states the opposite; TLC refutes it with the bounds of
  `invalidate`.
- A connection lost while an operation is in flight: its error reply is handled after
  `async_context` was set to 0, and the null context is passed to
  `redisAsyncDisconnect` (`ResourceRedisConnection.cpp:163`).  `NeverCrashes` is
  refuted with one lost connection; `reconnect` goes on from the crash with a restart.
- `ResourceRedisConnection.h:28` says of `write_async_is_busy` "guarded by queue_and_state_mutex"; the
  redis thread resets it without the mutex (`ResourceRedisConnection.cpp:160`).  What the
  flag is for survives this, with threads preempted between posting MULTI and setting
  the flag and with an RPC invalidation: no two operation sequences are under way, and
  none is unannounced (`OneOperationAtATime`).  What does not survive is that the flag is
  reset: the last answer may be handled before the submitting thread sets the flag,
  which then stays set with nothing in flight until the connection is lost, and all
  operations are postponed.  `accounting` and `invalidate` contain these states
  (`BusyMeansInFlight`, which no run claims, is refuted with the bounds of either);
  `QueueDrained` is claimed in `reconnect` only, where no thread is preempted.
- With preemption *and* an RPC invalidation, `invalidate_resources` may find the flag
  not yet set while MULTI is on its way (232-236) and send its own sequence into that
  transaction: `ExclusiveConnection` is refuted with the bounds of `invalidate`.
- A refused command of a re-initialisation leaves it unfinished until the connection
  breaks; the RPC thread can reset `resources_inited` after the sequence it started has
  already set it; calls that check at the same time can exceed a limit.

### Calls: `CallCtx`, `SBCCallLeg`, `SBCCallLeg_proof`

One call.  Leg 0 is the A leg, legs 1.. are the B legs it creates while callees refuse.

`CallCtx` holds the operators on the shared context: `GetFirstProfile`,
`GetNextProfile`, `WriteCdr`, and what the registrar's answer does to the profiles
(`Resolve`, `PassSkipped`).  A profile is what control depends on: refusing, asking for
authorization, a registered AoR, resources, to be skipped.  `written` is a history of
the CDRs handed to the writer; a CDR is the pair of its attempt number and profile.

`SBCCallLeg` has one action per event handler.

| State | Code |
|---|---|
| `c`, `ctx`, `refs` | `CallCtx`, whether it was created or deleted, `references` |
| `leg[l]` | session (running, stopped, destroyed), `call_status`, `call_ctx`, `other_id`, `call_profile` |
| `q[l]` | the leg's event queue: events of the other legs and of the RPC |
| `others` | `other_legs` of the A leg |
| `stage` | the service whose answer the A leg waits for |
| `pc`, `ri` | inside the loop over `rctl.get`; whether its iterator was set |
| `hs`, `held` | profiles with a `resource_handler`; handlers still in the table of `ResourceControl` |
| `dropped`, `final`, `proc` | history: RPC used, call was routed, a null pointer was read |

| Actions | Code |
|---|---|
| `OnInvite`, `OnIdentityReady`, `OnPostgresResponse`, `OnPostgresFailed`, `OnRadiusReply`, `OnRedisReply` | from INVITE to routing, each with its failures |
| `ProcessResourcesAndSdp`, `ChooseNextProfile` | one `rctl.get` per step, then dial, fail over or refuse |
| `B2bInitial1xx`, `B2bInitial2xx`, `B2bInitialErr` (with `OnBLegRefused`) | replies of B legs at the A leg, hunting |
| `OnOtherBye`, `OnTerminateLeg`, `OnTearDown` | the other events between legs |
| `OnCancel`, `OnBye`, `OnTimerEvent`, `RemoveCall`, `OnServerShutdown` | the caller, timers, operators |
| `OnB2BConnect`, `OnSipReply`, `TerminateLegOnReplyException`, `OnException`, `OnCalleeBye`, `OnCalleeTimeout`, `OnRefer` | a B leg and its callee |
| `OnBeforeDestroy` | a leg is destroyed; the last one ends the call |

What is assumed of the sems core, which is not in this repository: the legs of a call
run on one thread, one event at a time; a stopped leg still handles what is in its
queue and replies to its INVITE; it is destroyed when its queue is empty and its INVITE
has its final reply; events for destroyed legs are dropped.  `rctl.get` answers any of
its results (the accounting modules say which); the registrar answers any number of
contacts; routing answers any of `ProfileLists`.

| Run | Question | Bounds |
|---|---|---|
| `calls` | is the context deleted by the last leg, with one last CDR and no resources held, whatever the order of events? do CDRs count attempts without gaps? does an error end its own attempt only? | two B legs; all kinds of profiles |
| `double_error` | the same when a provisional reply may carry SDP that is refused: no | |

Two attempts suffice for what one attempt can do to the next (late replies, kept
resources, CDRs); a third repeats this.  `HuntLists` has hunting and failover between
profiles with resources, a refusing profile first and second, authorization, an AoR
that is not registered in front of, between and behind others (which makes its profile
one to be skipped), and one with two contacts.  `rctl.get` gives every answer it can,
that of a container that is not ready included.  `RemoveCall` is bounded to one request
per call.

Fairness: legs handle their queues and are destroyed; database, registrar and RADIUS
answer or time out (each has a timer in the code); an INVITE gets a final reply,
from the transaction timer at the latest; parties hang up.  Nothing is assumed of
operators, shutdown, exceptions and REFER.  `CallEnds` excepts two cases: a REFER gives
up the last reference, which the code reports as a possible leak, and the process that
read the unset iterator below.

Seen while modelling: a profile marked to be skipped is called when it is not the first
one, as `getNextProfile` looks at the mark of the profile it leaves (`CallCtx.cpp:85`;
`SkippedNotDialed` is refuted with the bounds of `calls`); leaving it, `getNextProfile`
writes a CDR for it with the number of its own attempt, so that the number occurs twice
(`AttemptsNumbered` says that nothing else repeats or leaves out a number); a refusal
because the container is not ready is worded through an iterator that was never set
(`SBCCallLeg.cpp:441`; the model ends the process there, `proc = "no_resource"`); the
event "notify Aleg about Refer" is relayed after the context was dropped and so never
sent (`SBCCallLeg.cpp:2279`; the model does the same); contacts of cloned profiles are
written to a copy (`SBCCallLeg.cpp:1258`; addresses are not modelled);
`CallCtx::ringing_timeout` is not reset between attempts.

### What a call leaves behind: `Cdr`, `HttpSequencer`, `CallReport`

`Cdr` holds the operators on the record of an attempt: `Action`
(`update_with_action`), the reasons (`InternalReason`, the A and B leg's reasons, each
with its `_writed` flag), `WithSipReply`, and the row the writer gets.  A time is the
position of its clock reading.  `HttpSequencer` holds the operators on one call's entry:
the three hooks, the answer (`HttpReply`) and `Cleanup`.

`CallReport` follows one dialled attempt to the destruction of both legs.  `w` groups
what the shared call context leads to (CDR, rows written, sequencer); `leg`, `q`,
`timers` are the legs; `postponed`, `local`, `snap` belong to `CdrList`, whose timer
swaps the postponed copies in one step and posts them in another.  A leg's handlers for
replies, BYE, CANCEL, timers, tear-down, errors and exceptions are one action each and
carry everything the code does there to CDR, hooks and timers.  `answered`, `first`,
`copied`, `shown` are history.

Run `cdr`: one call, every way and order to end it, the http client refusing requests
from some moment on, snapshots in between.  Bounds: one attempt (attempts have records of
their own), one 183 in the A leg's queue, always with SDP, no snapshots of nothing, and
the B leg passes on a tear-down command only while at most one event, and no other
command, waits for each leg.  `Billable` says a row with an answer has
start < answer < end and an initiator; `BlamesFirst` that of all parties and timers
which ended the call while events crossed, the first is recorded; `ReportedOnce` that a
finished call's copy is in exactly one place; `EventsInOrder` and `StateReleased` that
HTTP events go out in order, each after the answer to the one before, and the state goes
also when the disconnected hook is missed.  Fairness: http requests are answered (or
time out).

The model's clock always advances: an end in the microsecond of the start, which the
code takes for "not ended" (`Cdr.cpp:335`), is left out.

### Certificates: `CertCache`, `CertCache_proof`

`entries[u]` is a cached certificate (loading, loaded, unavailable), its chain,
validity and deferred sessions; `gets` counts HTTP requests under way per URL, so that
answers of earlier requests meet entries that were erased, created again or renewed.
Legs take their Identity headers one by one (`AddIdentityHdr`), wait
(`OnCertCacheReply`) and go on (`GetPubKey`, `AskProfiles`).  Every section of the mutex
is one action; so is the clear of all entries, which takes no mutex
(`CertCache.cpp:360-363`).  The http client's queue takes every event: `renewCertEntry`
ignores the result of `postEvent` (242), and a renewal whose event is refused, which
would leave the entry loading without a request, is not modelled.

Run `certs`: two legs, two URLs, one root, one renewal (timer or RPC), one clear and one
reload, at any moment.  Two legs are one that is first to ask and one that is not.
`DeferredIsFetched`: a deferred session belongs to an entry with a request under way;
`StartsOnce`: the call context is created once; `FirstToAskGoesOn`: under fairness of
legs, http client and worker the first to ask is answered.  The statement is limited to
it because the code is: a leg that asks while a certificate is being fetched is not put
into `defer_sessions` (`CertCache.cpp:99`) and waits for an answer that is not for it.
Also modelled and not judged: `reloadTrustedCertificates` never empties the store used
for validation (266); a clear drops waiting sessions (362).

### Configuration: `DbConfig`, `DbConfig_proof`

The main thread's synchronous queries (`ExecQuery`, `QueryDone`, with the condition and
token of `sync_db`), the database pool (`pgq` are the queries, `PgExecute` runs one on a
connection with a result or an error (which a timeout is treated like), `PgAnswer` delivers what a connection
found: both in any order that the number of connections allows),
the reload timer and its answer (`OnDbCfgReloadTimer`, `OnDbCfgReloadTimerResponse`),
and the loaders of the tables: those that build a new table and swap it, those that
stop at a bad row, the registrations with their difference applied to the registrar
client, and the option probes that are flushed and added again.  A table has a number
and rows; `loaded`, `newest` and `lost` are history: the number of the data in memory, the
greatest number that was loaded, and the greatest that is given up, because the data was
of no use or the load failed when that number was remembered.

Run `config`: a table of each kind of loader (the translations with two of their six
queries), two contents, one change, one failed query, the timer while less than two
queries and answers are under way, and pools of one and two connections; two are enough
for one answer to overtake another, the default is 10 (`db/PgConnectionPool.cpp:7`).
`RememberedIsLoaded`: a number in `db_cfg_states` stands for data as new that was loaded,
for a load under way or for a load of that number that failed (it is not repeated before
the number grows again, but excuses no later number); `SyncAnswerIsOwn`: an answer that
comes after a timeout is not taken for the next query's, although tokens are not compared
(`yeti_base.cpp:31`); `ClientMirrors`; `CatchesUp`: every change is loaded in the end
unless its own load fails, and with one connection the newest data stays in memory.  With
two it need not: an older load delivered after a newer one replaces it, as nothing
compares the two (`yeti.cpp:442`).  TLC refutes `CatchesUp` without the condition
`pool = 1`.  Fairness: the threads run, the oldest query gets a connection and the oldest
result is delivered, the timer fires.

An exception in the middle of a difference of registrations, which would leave client
and table apart (`Registration.cpp:65-92`), is not modelled.

### Registrar: `SBCFactory`, `Registrar`, `Registrar_proof`

`SBCFactory` has the decisions as operators: credentials (`CheckRequestAuth`), the
origination pre-auth, `OnInvite`, and the checks of a REGISTER.  `Registrar` adds redis
(the index `set` and the contact keys `key`, which age and expire), the scripts of
`etc/`, the connection (`pipe`, `back`, with loss at any point and scripts loaded
again after a reconnect), the yeti worker (`ProcessReply`), lookups by legs and the RPC,
and the keepalive: load, subscribe, key events, `OnKeepaliveTimer` with its dialogs.
Other nodes run the same scripts.

Run `registrar`: one account with two contacts and a limit of one binding, one SIP
request of any kind, one script of another node, one lookup, one lost connection, one
tick of the keepalive timer.  `FreshIsListed`: a binding that has time left is in the
index; `OneFinalAnswer`, `EverybodyAnswered` with the connection lost between post and
reply (fair: reconnect, redis, the threads); `ResolvedWasAlive`: no call is sent to a
contact that was dead when the script ran, although `EXISTS` returns a number, 0 is true
in Lua and the script returns such members.  Keepalive contexts are best effort in the code: keys removed between
the scan and SUBSCRIBE are not noticed (`RegistrarRedisConnection.cpp:154`), and the
answer to an OPTIONS may come before its dialog is stored (430), which then stays.  The
model has both; nothing is claimed of them.

A command is sent or answered `NotConnected` (`Post`).  `FailedToSend` needs a context
that is being closed, and only the resource connection and the shutdown of the pool
close one; a `postRedisRequest` that fails (`SBC.cpp:400, 485, 515`) gives the phone the
same 500 as a lost connection.

### Offer and answer: `SdpFilter`, `SdpRelay`

`SdpFilter` has the functions of `sdp_filter.cpp` on descriptions reduced to streams
(type, port, transport, direction, connection line) and payloads (codec and number):
normalising, codec groups, filtering an offer and an answer, putting back streams that
were cut, connection lines, hold, dynamic numbers.  `SdpRelay` is their use in a call:
the initial INVITE through to the 2xx, with rerouting and early media; re-INVITE and
UPDATE from both sides, relayed or answered by the SBC as the profile says; offers in
replies and answers in ACKs; answers that cannot be used, after which a leg gives up;
hold.  `ctx.neg` is the negotiated media of the call context.

| Run | Question | Bounds |
|---|---|---|
| `sdp` | does every answer fit the offer it answers? does a later answer of a transaction bring payloads the first one left out? is every request answered? | 3 profiles, 3 offers (a static payload without encoding line; video first; hold), 2 routes, one 18x, two requests in the dialog |
| `hold` | is `on_hold` set only on a leg whose endpoint agreed to a hold? no | |

Two requests are one for each side, which is where they cross; two routes are where
negotiated media is inherited.  Fairness: legs handle their events, a request to an
endpoint ends by the transaction timeout at the latest.

Assumptions: all routes of a call have the same `rtprelay` setting; endpoints conform
to offer/answer when the SBC does not relay RTP.  Left out: formats, attributes, ICE,
ZRTP, DTLS, the description's version, zero addresses; offerless re-INVITEs answered
by the dialog layer; `putOnHold`, `resumeHeld` and the queue of local re-INVITEs, which
nothing in the code reaches (nobody posts the resume event; the hold on disconnect is
inside `#if 0`); a BYE of the callee before the call is connected
(`SBCCallLeg.cpp:2488`), which is in `SBCCallLeg`.

Modelled and not judged, as no document says what should be: a refused relayed offer
has already replaced the negotiated media, against which the next local answer is made
(`SBCCallLeg.cpp:2121`); an offer answered locally twice re-enables streams beyond the
negotiated ones (`sdp_filter.cpp:548`); the B leg's offer is made from the unfiltered
body (`SBCCallLeg.cpp:472`); `suppress_early_media` drops an answer in an 18x that the
2xx need not repeat (1905).

### Proofs

All of them hold for every value of the constants: any number of sessions, keys, legs,
profiles, tables, requests, faults.  Besides the named ASSUMEs of the modules a theorem
assumes only what is said below.

`ResourceCheck_proof`: the loop invariant of the check, and from it what success takes
and what a busy answer names.

`ResourceControl_proof`, the accounting.  `TypeCorrect` goes along one lemma per part of
the composition.  `NoRelease` (no handler is valid while an invalidation is under way)
needs that `handlers_lock` is owned by the RPC thread in the states concerned.

- `ReferredIsAlive` (`UserDataAlive`).  That an object is alive is not inductive; that
  exactly as many events refer to it as it waits for is (`AwaitedInv`: `Outstanding`, a
  count over the wire, the socket and the event queue, equals `Waits`).  It holds under
  preemption too.
- `ReleasedOnce` (`ReleaseOnce`).  `ReleaseInv` counts all releases under way, executed
  or not: none before the handler is in the table or while it is there, and never more
  than were taken.
- `OneOperation` (`OneOperationAtATime`) from `FlagInv`, without assumptions: threads
  preempted before they set the flag, RPC invalidations, faults and restarts included.
  A sequence under way is announced by the flag or by the thread that holds the mutex
  until it has set it, and both keep other threads from starting one.
- `SequencesExclusive` (`ExclusiveConnection`) from `ConnectionInv`: the invalidation has
  something under way only when no operation has and `resources_inited` is false.
  Assumption: threads may be preempted, or the RPC may invalidate, not both
  (`Preemption = FALSE \/ MaxInvalidations = 0`).  With both the statement is false, as
  said above; the code takes the mutex for neither the test nor the reset.

`ResourceCounters_proof`: `CountersAreCleared` (`InitedAfterReset`).  Assumption:
`Preemption = FALSE`, that is, no thread is interrupted between posting a command and
setting the flag that goes with it.  `ResetInv` sees the invalidation as a pipeline (`Staged`): its answers in
order (queue, then socket), the requests redis has not executed (wire, then queue), the
open transaction and the counters.  As long as the transaction can still succeed, every
counter that is not zero is about to be cleared by it; once EXEC is answered, the last
answer is its answer.  A refused command, a lost connection or a new start each leave
the pipeline at a stage that cannot be mistaken for a success.  `KeyExists` (a counter
that is not zero belongs to a key that KEYS returns) makes the list of keys sufficient.

`ResourcesConserved` (`Conservation`), same module.  `PipeInv`: the operation sequence is
a pipeline too, from its list of operations over the commands redis has not executed to
the answers it has not read; nothing of it is executed before EXEC, all of it after, and
the last answer is EXEC's, so that `Executed` is what the answers say and never a guess.
`EarlyInv`: before the first clearing nothing is taken.  `Due` is what is under way for a
session and a key, and each step moves one amount between `Due`, the counter and `Held`
(`BalanceKept`).  The lists of the operation under way, of the events and of the
postponed queue are all there is to `Due` (`DueIs`).  Assumptions, each needed:

- `MaxErrors = 0`: after a refused MULTI the increments that follow are executed at once,
  outside of a transaction, before the error answer makes the connection start over;
- `MaxInvalidations = 0`: the RPC invalidates the handlers before `resources_inited`
  is false, so that for a while redis still counts what no handler holds;
- `Preemption = FALSE`: otherwise a connection can be lost between the MULTI and the
  commands that follow it.

Lost connections and restarts are not assumed away.

`LedgerImplemented` (`ImplementsLedger`), same module: the refinement of `ResourceLedger`.
By `ResourcesConserved` and `EarlyInv` the account that the mapping computes from redis,
the queues and the transactions is what the session holds (`AccountIs`), and `Opened`
says that without faults accounting never stops: the answers of the pipeline are those
that `processRedisReply` expects (`Expected`), so no operation ends with an error.  What
is left is one lemma per kind of step: `GrantBooks`, `PutCancels`, `RefusalDeclines`,
`EmplaceStutters`.  `TakesASelection` shows that the first free alternatives are one of
each group (`OneFirstFree`); it needs that the last resource of a list does not fail over,
which `ResList::parse` sees to and `ControlAssumption` states.  Assumptions: no fault, no
invalidation, no restart (each makes the program forget accounts on purpose) and
`Preemption = FALSE`; the run `accounting` checks the refinement with preemption.

`SBCCallLeg_proof`, calls.  `ReferencesCountLegs` and `OneAttemptHolds` from `CallInv`:
before the A leg dials nothing is held and no B leg has the context (`RoutingAlone`);
inside the loop over `rctl.get` nothing is held, and the A leg has the context there and
whenever it has a callee (`LoopAlone`); only existing sessions have it (`NoGhost`).

- `OneLastCdr` (`LastCdrOnce`) from `CdrInv`: a call is unrouted, tried or finished, by
  what its CDR list holds, and each step of the context is one of five kinds
  (`CtxStep`).
- `NullCdrNotRead` (`NoNullCdrRead`), from the same invariants, for every answer of
  `rctl.get`.  That the unset iterator is not read is claimed nowhere: it is.
- `AttemptStaysIntact` (`AttemptIntact`) from `HuntInv`, `HandlersInv` and
  `CdrOfCurrent`.  The A leg goes on hunting when a B leg refuses, so the danger is a
  second refusal that arrives after the next attempt has begun.  `HuntInv`: a B leg
  refuses once at most (it runs, or its connect is queued, or its one error waits for the
  A leg), at most one B leg may still refuse (`Open`), and none while the A leg is in its
  loop over the profiles.  `HandlersInv`:
  handlers are of the current profile or earlier ones, of the current one only once the
  loop is left.  `CdrOfCurrent`: a CDR under way is that of the current profile.
  Assumption: `EarlySdp = FALSE` (no
  B leg fails on the answer in an 18x); with it the property is false, which is what
  the run `double_error` shows.
- `AttemptsCounted` (`AttemptsNumbered`) from `NumberInv`, for all lists of profiles,
  those to be skipped included (`CallCtx.cpp:63-95`).

`CallReport_proof`, what a call leaves behind, with event queues of any length (the bounds
in the guards are not used).  `CallInv` has two halves that need each other.  `World` is
about the record: as long as it is open nobody has ended the call and its end is its
start; once somebody has, the end lies after the answer and the first one's name stays;
the row keeps all that.  `Ends` is about the legs, and says why the record is not written
before: an A leg that no longer runs was stopped by an event that ended the call.  The
case that makes it subtle is the callee's BYE before its answer, which the B leg does not
record: while nobody has ended the call, such a BYE is in front of any answer in the A
leg's queue, so that the A leg takes it before it is connected and ends the CDR itself
(`Unended`).  From them:

- `CallsAreBillable` (`Billable`) and `FirstIsBlamed` (`BlamesFirst`).
- `HttpEventsInOrder` (`EventsInOrder`) from `Sequenced`, which tells for every stage of
  the sequencer which requests and answers there were.
- `CallsAreReportedOnce` (`ReportedOnce`) from `SnapInv`: copies are where they were
  counted, there is none before the A leg is finalized, and the local list is empty
  between two snapshots.

`CertCache_proof`: types; `DeferredSessionsAreFetched` (`DeferredIsFetched`);
`CallStartsOnce` (`StartsOnce`) from `StartInv`: an answer pending for a leg is awaited
by it and pending once, while the headers are parsed only those behind are awaited, a
started leg awaits nothing.  Assumption of the last: the Identity headers of a call name
different certificates (a URL that is repeated would be deferred and answered twice).

`DbConfig_proof`: types; `SyncIsOwn` (`SyncAnswerIsOwn`) from `OneQuery`: during the
start-up there is the awaited query, its answer, or nothing; `RegistrationsMirrored`
(`ClientMirrors`).  `RememberedStandsForLoads` (`RememberedIsLoaded`), for any number of
connections that execute and deliver in any order, from `LoadInv`: the load that
`Pending` sees must be one that helps.  So no number, remembered or found by a query, is
greater than the database's (`Bounded`), and the number remembered for a key is covered
(`Covered`): as much was loaded or given up, or a load is not executed yet (and will find
at least that number, by `Bounded`), or one that found as much, or that failed, is on its
way.  A late answer of an older check only lowers what is remembered; the next check asks
again.  `OneConnectionInOrder` (`NewestStays`,
the half of `CatchesUp` about one connection that is no liveness): the data in memory is
the newest ever loaded, from `OrderInv`, which says that with one connection nothing on
its way is older than what is loaded or than what is in front of it.

`Registrar_proof`: `BindingsAreListed` (`FreshIsListed`) along the scripts;
`AnsweredOnce` (`OneFinalAnswer`) from `TicketInv`: a request has one command, reply or
event under way at most, the scripts went out first, and what is under way was received
and has no final answer; `LookupsAreAlive` (`ResolvedWasAlive`) from `AliveInv`: the
same of the contacts that replies carry.

Where a fact is about all positions of a list, it is proved for the set of positions
for which it holds (a smallest exception, or closure under successor).

## 4. Only model-checked

Liveness (fairness is out of the prover's reach) and termination of loops.  Of the
accounting, `ShareBounded`, whose bound is that of the run's lists, and what holds with
preempted threads (`ImplementsLedger`).  Of calls, the end of the call.
What the filters of `SdpRelay` compute are folds over lists, so induction over data.

`double_error` and `hold` are the runs that disagree with a comment of the code; the
lines are quoted in `PROJECT.json` under "findings".

## 5. Not modelled

- Of calls: replies postponed until PRACK (100rel), relayed INFO, MESSAGE and other
  requests without SDP, media relay, timers that only send a reply, the transfer after a
  REFER (its handler is never reached).
- Header filters, call profiles and parameter replacement: they rewrite text, and no
  later decision reads what they wrote.  Profiles enter the models as constants.
- The codes translator: lookups in tables (their loading is in `DbConfig`).
- The rate limit of relayed RTP: called from the media path of the sems core.
- RPC commands that only show state or set an option, the statistics, logging, and
  reading of configuration files.
- Layout of CDR rows and snapshots, DTMF and media statistics in them; the parameters of
  the routing query.
- Statistics of all resources (`GetAllResources`), shutdown of the redis pool.
- Mutexes of the sems core (a possible lock order problem is mentioned by the code at
  `SBCCallLeg.cpp:3676`); data races inside containers (`Sensors.cpp:126`,
  `CertCache.cpp:362`).
