----------------------------- MODULE CallReport -----------------------------
(***************************************************************************)
(* What one call leaves behind: its CDR row, its HTTP events and its       *)
(* entries in the snapshots of active calls.  One attempt is followed from *)
(* the dialled B leg on; hunting and transfers are in SBCCallLeg.  Both    *)
(* legs run on one thread, an action handles one event of a leg.  On       *)
(* threads of their own: the http client's answers and the snapshots.      *)
(*                                                                         *)
(* External (the sems core): a BYE is handled by the leg and relayed to    *)
(* its peer; a stopped leg handles events until it is destroyed, a B leg   *)
(* not before the final reply to its INVITE; finalize runs before          *)
(* onBeforeDestroy.                                                        *)
(***************************************************************************)
EXTENDS Cdr, SequencesExt, FiniteSets

H == INSTANCE HttpSequencer

CONSTANTS
  Buffering               \* snapshots_buffering

ASSUME BufferingAssumption == Buffering \in BOOLEAN

VARIABLES
  w,                      \* the CDR, the rows written, the HTTP sequencer
  leg,                    \* the legs: alive and call_status
  q,                      \* their event queues
  timers,                 \* timers running: "duration" (A), "ringing" (B)
  ringingTimeout,         \* the context's flag
  answered,               \* history: the caller was sent the 2xx
  first,                  \* history: who ended the call first
  postponed,              \* copies in postponed_active_calls
  local,                  \* copies in onTimer's local_postponed_calls
  snap,                   \* the snapshot thread's place
  copied, shown           \* history: copies made, buffered entries posted

snapVars == <<postponed, local, snap, copied, shown>>
vars == <<w, leg, q, timers, ringingTimeout, answered, first, snapVars>>

Legs  == {"A", "B"}
Peer(l) == IF l = "A" THEN "B" ELSE "A"

(* The http hooks, all run by the A leg.                                   *)
HttpCallStartedHook(up) == H!CallStarted(H!Fresh(up))
HttpCallConnectedHook(x) == [x EXCEPT !.http = H!CallConnected(@)]
HttpCallDisconnectedHook(x) == [x EXCEPT !.http = H!CallDisconnected(@)]

Init ==
  /\ \E up \in BOOLEAN :
       w = [cdr |-> NewCdr, rows |-> << >>, http |-> HttpCallStartedHook(up)]
  /\ leg = [l \in Legs |-> [alive |-> "run",
                            status |-> IF l = "A" THEN "NoReply" ELSE "Disconnected"]]
  /\ q = [A |-> << >>, B |-> <<[t |-> "connect"]>>]
  /\ timers = {}
  /\ ringingTimeout = FALSE
  /\ answered = FALSE
  /\ first = "Undefined"
  /\ postponed = 0 /\ local = 0 /\ snap = "idle" /\ copied = 0 /\ shown = 0

-----------------------------------------------------------------------------
(* with_cdr_for_read: nothing is recorded once the CDR was written.        *)
WithCdr(x, Op(_)) == IF x.cdr = NoCdr THEN x ELSE [x EXCEPT !.cdr = Op(@)]

Internal(x, initiator, code) ==
  IF x.cdr = NoCdr THEN x ELSE [x EXCEPT !.cdr = InternalReason(@, initiator, code)]
Aleg(x, code) == IF x.cdr = NoCdr THEN x ELSE [x EXCEPT !.cdr = AlegReason(@, code)]
Bleg(x, code) == IF x.cdr = NoCdr THEN x ELSE [x EXCEPT !.cdr = BlegReason(@, code)]

(* SqlRouter::write_cdr.                                                   *)
WriteCdr(x) ==
  IF x.cdr = NoCdr THEN x
  ELSE [x EXCEPT !.rows = Append(@, ApplyParams(x.cdr, TRUE)), !.cdr = NoCdr]

(* Causes of a change to Disconnected that have a code of their own.       *)
Coded == {"TransactionTimeout", "RingingTimeout", "NoAck", "NoPrack", "SessionTimeout", "InternalError"}

(* onCallStatusChange at Disconnected: a cause with a code is recorded,    *)
(* the A leg runs the disconnected hook; both only with a CDR.             *)
Disconnected(x, l, cause) ==
  LET r == IF cause \in Coded THEN Internal(x, "TS", 500) ELSE x
  IN  IF x.cdr = NoCdr \/ l = "B" THEN r
      ELSE HttpCallDisconnectedHook(r)

(* onCallConnected: the time, and on the A leg the connected hook.         *)
OnCallConnected(x, l) ==
  IF x.cdr = NoCdr THEN x
  ELSE IF l = "A" THEN HttpCallConnectedHook([x EXCEPT !.cdr = Action(@, "Connect")])
  ELSE [x EXCEPT !.cdr = Action(@, "BlegConnect")]

(* A leg between finalize and onBeforeDestroy keeps its thread.            *)
Alive(l)  == leg[l].alive \in {"run", "stopped"} /\ leg[Peer(l)].alive # "final"
Status(l) == leg[l].status
Received(l, t) == Alive(l) /\ q[l] # << >> /\ Head(q[l]).t = t
Popped(l) == [q EXCEPT ![l] = Tail(@)]
Relayed(qq, l, e) ==
  IF leg[Peer(l)].alive # "gone" THEN [qq EXCEPT ![Peer(l)] = Append(@, e)] ELSE qq

Stopped(l, status) == [leg EXCEPT ![l].alive = "stopped", ![l].status = status]

(* History: the first event that ended the call.                           *)
EndedBy(party) == first' = IF first = "Undefined" /\ w.cdr # NoCdr THEN party ELSE first

(* The call timers of the A leg: a time limit may have been saved; they run *)
(* from the answer until the leg stops.                                    *)
StartCallTimers == {timers, timers \cup {"duration"}}
StopCallTimers == timers \ {"duration"}
OnStop(l) == IF l = "A" THEN StopCallTimers ELSE timers

(* stopCall of leg l, whose world became x: the status changes with the    *)
(* cause unless it did before; both legs end.                              *)
StopCall(x, qq, l, cause) ==
  /\ w' = IF Status(l) = "Disconnected" THEN x ELSE Disconnected(x, l, cause)
  /\ leg' = Stopped(l, "Disconnected")
  /\ q' = Relayed(qq, l, [t |-> "terminate"])
  /\ timers' = OnStop(l)

-----------------------------------------------------------------------------
(* The B leg.                                                              *)

(* onB2BConnect, onSendRequest: the INVITE goes out.                       *)
OnB2BConnect ==
  /\ Received("B", "connect")
  /\ q' = Popped("B")
  /\ w' = WithCdr(w, LAMBDA cdr : Action(cdr, "BLegInvite"))
  /\ leg' = [leg EXCEPT !["B"].status = "NoReply"]
  /\ UNCHANGED <<timers, ringingTimeout, answered, first, snapVars>>

Pending == Status("B") \in {"NoReply", "Ringing"}

(* What the callee may send; whether an 18x has SDP decides nothing here.  *)
Provisional == {[code |-> 100, local |-> FALSE, sdp |-> FALSE],
                [code |-> 183, local |-> FALSE, sdp |-> TRUE]}
Failures    == {[code |-> 408, local |-> TRUE, sdp |-> FALSE],
                [code |-> 487, local |-> FALSE, sdp |-> FALSE],
                [code |-> 486, local |-> FALSE, sdp |-> FALSE]}
Success     == [code |-> 200, local |-> FALSE, sdp |-> TRUE]

(* The code a final reply's status change stands for.                      *)
CauseOf(reply) ==
  CASE reply.code = 408 /\ reply.local     -> "TransactionTimeout"
    [] reply.code = 487 /\ ringingTimeout  -> "RingingTimeout"
    [] OTHER                                 -> "SipReply"

(* onSipReply to the INVITE: recorded, relayed, then the status changes.   *)
OnSipReply ==
  /\ Alive("B") /\ Pending
  /\ \/ \E reply \in Provisional :
          /\ reply.code = 183 => q["A"] = << >>        \* bound: one in the queue
          /\ w' = WithCdr(w, LAMBDA cdr : WithSipReply(cdr, reply))
          /\ q' = IF reply.code = 100 THEN q ELSE Relayed(q, "B", [t |-> "1xx"])
          /\ leg' = IF reply.code = 100 THEN leg ELSE [leg EXCEPT !["B"].status = "Ringing"]
          /\ timers' \in IF reply.code = 183 /\ Status("B") = "NoReply"
                           THEN {timers, timers \cup {"ringing"}} ELSE {timers}
          /\ UNCHANGED first
     \/ /\ w' = OnCallConnected(WithCdr(w, LAMBDA cdr : WithSipReply(cdr, Success)), "B")
        /\ q' = Relayed(q, "B", [t |-> "2xx"])
        /\ leg' = [leg EXCEPT !["B"].status = "Connected"]
        /\ timers' = timers \ {"ringing"}
        /\ UNCHANGED first
     \/ \E reply \in Failures :
          /\ w' = Disconnected(WithCdr(w, LAMBDA cdr : WithSipReply(cdr, reply)), "B", CauseOf(reply))
          /\ q' = Relayed(q, "B", [t |-> "err", reply |-> reply])
          /\ leg' = Stopped("B", "Disconnected")
          /\ IF CauseOf(reply) \in Coded THEN EndedBy("TS") ELSE UNCHANGED first
          /\ UNCHANGED timers
  /\ UNCHANGED <<ringingTimeout, answered, snapVars>>

(* YETI_RINGING_TIMEOUT_TIMER: the INVITE is cancelled.                    *)
OnRingingTimeout ==
  /\ Alive("B") /\ "ringing" \in timers /\ Status("B") = "Ringing"
  /\ timers' = timers \ {"ringing"}
  /\ ringingTimeout' = IF w.cdr # NoCdr THEN TRUE ELSE ringingTimeout
  /\ UNCHANGED <<w, leg, q, answered, first, snapVars>>

-----------------------------------------------------------------------------
(* The A leg and replies of the B leg.                                     *)

Early == Status("A") \in {"NoReply", "Ringing"}

B2bInitial1xx ==
  /\ Received("A", "1xx")
  /\ \/ Early /\ leg' = [leg EXCEPT !["A"].status = "Ringing"]
        /\ q' = Popped("A") /\ UNCHANGED <<w, timers, first>>
     \/ Early /\ StopCall(w, Popped("A"), "A", "InternalError") /\ EndedBy("TS")  \* not relayed
     \/ ~Early /\ q' = Popped("A") /\ UNCHANGED <<w, leg, timers, first>>
  /\ UNCHANGED <<ringingTimeout, answered, snapVars>>

(* The answer is recorded before it is relayed.                            *)
B2bInitial2xx ==
  /\ Received("A", "2xx")
  /\ \/ /\ Early
        /\ w' = OnCallConnected(w, "A")
        /\ leg' = [leg EXCEPT !["A"].status = "Connected"]
        /\ q' = Popped("A")
        /\ timers' \in StartCallTimers
        /\ answered' = TRUE
        /\ UNCHANGED first
     \/ /\ Early                                                            \* not relayed
        /\ StopCall(OnCallConnected(w, "A"), Popped("A"), "A", "InternalError")
        /\ EndedBy("TS")
        /\ UNCHANGED answered
     \/ ~Early /\ q' = Popped("A") /\ UNCHANGED <<w, leg, timers, answered, first>>
  /\ UNCHANGED <<ringingTimeout, snapVars>>

(* b2bInitialErr with onBLegRefused, hunting left out: the refusal is      *)
(* recorded for both legs, the call is over.                               *)
B2bInitialErr ==
  LET ev == Head(q["A"])
      r  == Internal(Bleg(WithCdr(w, LAMBDA cdr : WithSipReply(cdr, ev.reply)), ev.reply.code),
                     IF ev.reply.local THEN "TS" ELSE "DST", ev.reply.code)
  IN  /\ Received("A", "err")
      /\ \/ /\ Early
            /\ w' = Disconnected(Aleg(r, ev.reply.code), "A", CauseOf(ev.reply))
            /\ leg' = Stopped("A", "Disconnected")
            /\ timers' = OnStop("A")
            /\ EndedBy(IF ev.reply.local THEN "TS" ELSE "DST")
         \/ ~Early /\ UNCHANGED <<w, leg, timers, first>>
      /\ q' = Popped("A")
      /\ UNCHANGED <<ringingTimeout, answered, snapVars>>

-----------------------------------------------------------------------------
(* The end of a call.                                                      *)

Running(l) == Alive(l) /\ leg[l].alive = "run"

(* CANCEL.                                                                 *)
OnCancel ==
  /\ Running("A") /\ Early
  /\ StopCall(Internal(w, "ORG", 487), q, "A", "Canceled")
  /\ EndedBy("ORG")
  /\ UNCHANGED <<ringingTimeout, answered, snapVars>>

(* A BYE before the answer: the caller's ends the call, the callee's       *)
(* leaves that to the A leg.                                               *)
OnEarlyBye(l) ==
  /\ Running(l) /\ Status(l) = "Ringing"
  /\ IF l = "A"
       THEN /\ w' = Disconnected(Bleg(Aleg(Internal(w, "ORG", 500), 200), 487),
                                 "A", "SipRequest")
            /\ leg' = Stopped("A", "Disconnected")
            /\ EndedBy("ORG")
       ELSE /\ w' = Bleg(w, 200)
            /\ leg' = Stopped("B", Status("B"))
            /\ UNCHANGED first
  /\ q' = Relayed(q, l, [t |-> "bye"])
  /\ UNCHANGED <<timers, ringingTimeout, answered, snapVars>>

OnBye(l) ==
  /\ Running(l) /\ Status(l) = "Connected"
  /\ w' = Disconnected(Bleg(Internal(w, IF l = "A" THEN "ORG" ELSE "DST", 200), 200), l, "SipRequest")
  /\ leg' = Stopped(l, "Disconnected")
  /\ q' = Relayed(q, l, [t |-> "bye"])
  /\ EndedBy(IF l = "A" THEN "ORG" ELSE "DST")
  /\ timers' = OnStop(l)
  /\ UNCHANGED <<ringingTimeout, answered, snapVars>>

(* onOtherBye: a BYE that comes before the A leg is connected ends its CDR *)
(* at once, so that it does not count as an answered call.                 *)
OnOtherBye(l) ==
  LET early == l = "A" /\ Status("A") # "Connected"
      x == IF early THEN WriteCdr(Aleg(Internal(w, "DST", 500), 487)) ELSE w
  IN  /\ Received(l, "bye")
      /\ w' = Disconnected(x, l, "SipRequest")
      /\ leg' = Stopped(l, "Disconnected")
      /\ q' = Popped(l)
      /\ IF early THEN EndedBy("DST") ELSE UNCHANGED first
      /\ timers' = OnStop(l)
      /\ UNCHANGED <<ringingTimeout, answered, snapVars>>

(* B2BTerminateLeg: the leg ends, its call status stays.                   *)
OnTerminateLeg(l) ==
  /\ Received(l, "terminate")
  /\ leg' = Stopped(l, Status(l))
  /\ q' = Popped(l)
  /\ UNCHANGED <<w, timers, ringingTimeout, answered, first, snapVars>>

(* YETI_CALL_DURATION_TIMER; onRtpTimeoutOverride of either leg.           *)
OnDurationTimer ==
  /\ Running("A") /\ "duration" \in timers
  /\ w.cdr # NoCdr
  /\ StopCall(Bleg(Aleg(Internal(w, "TS", 200), 200), 200), q, "A", "Other")
  /\ EndedBy("TS")
  /\ UNCHANGED <<ringingTimeout, answered, snapVars>>

OnRtpTimeout(l) ==
  /\ Running(l) /\ Status(l) = "Connected"
  /\ StopCall(Bleg(Aleg(Internal(w, "TS", 200), 200), 200), q, l, "RtpTimeout")
  /\ EndedBy("TS")
  /\ UNCHANGED <<ringingTimeout, answered, snapVars>>

(* An operator's command, onTearDown and onControlCmd: the A leg stops the *)
(* call, a B leg records it and passes the command on.  Bound: that is     *)
(* while at most one event waits for each leg, none of them a command.     *)
OnTearDown ==
  LET x == Bleg(Aleg(Internal(w, "TS", 200), 200), 200)
  IN  /\ \/ Running("A") /\ StopCall(x, q, "A", "Other")
         \/ Received("A", "teardown") /\ StopCall(x, Popped("A"), "A", "Other")
      /\ EndedBy("TS")
      /\ UNCHANGED <<ringingTimeout, answered, snapVars>>

OnBLegTearDown ==
  /\ Running("B")
  /\ \A l \in Legs : Len(q[l]) <= 1 /\ \A k \in DOMAIN q[l] : q[l][k].t # "teardown"
  /\ w' = Bleg(Aleg(Internal(w, "TS", 200), 200), 200)
  /\ q' = Relayed(q, "B", [t |-> "teardown"])
  /\ EndedBy("TS")
  /\ UNCHANGED <<leg, timers, ringingTimeout, answered, snapVars>>

(* onNoAck, onNoPrack, onSessionTimeout: the status change records them.   *)
OnDialogTimeout(l, cause) ==
  /\ Running(l)
  /\ \/ cause = "NoAck" /\ l = "A" /\ Status(l) = "Connected"
     \/ cause = "NoPrack" /\ l = "A" /\ Status(l) = "Ringing"
     \/ cause = "SessionTimeout" /\ Status(l) = "Connected"
  /\ StopCall(w, q, l, cause)
  /\ EndedBy("TS")
  /\ UNCHANGED <<ringingTimeout, answered, snapVars>>

(* onRemoteDisappeared: a request in the dialog found nobody.              *)
OnRemoteDisappeared(l) ==
  LET x == IF l = "A" THEN Internal(w, "TS", 408) ELSE w
  IN  /\ Running(l) /\ Status(l) = "Connected"
      /\ StopCall(Bleg(Internal(x, "TS", 200), 200), q, l, "SipReply")
      /\ EndedBy("TS")
      /\ UNCHANGED <<ringingTimeout, answered, snapVars>>

(* What a leg's dialog tells its side of an exception.                     *)
Told(x, l) ==
  LET code == CASE Status(l) = "Connected" -> 200 [] Status(l) = "Ringing" -> 487 [] OTHER -> 0
  IN  IF code = 0 THEN x ELSE IF l = "A" THEN Aleg(x, code) ELSE Bleg(x, code)

(* onException, onFailure (which only the A leg records, 500 standing for  *)
(* its code too); the peer's onOtherException.                             *)
OnException(l) ==
  /\ Running(l) /\ Status(l) # "Disconnected"
  /\ \/ w' = Told(Internal(w, "TS", 500), l) /\ EndedBy("TS")
     \/ l = "A" /\ w' = Internal(w, "TS", 500) /\ EndedBy("TS")
  /\ leg' = Stopped(l, Status(l))
  /\ q' = Relayed(q, l, [t |-> "exception"])
  /\ UNCHANGED <<timers, ringingTimeout, answered, snapVars>>

OnOtherException(l) ==
  /\ Received(l, "exception")
  /\ w' = Told(w, l)
  /\ leg' = Stopped(l, Status(l))
  /\ q' = Popped(l)
  /\ UNCHANGED <<timers, ringingTimeout, answered, first, snapVars>>

(* onServerShutdown: recorded, and the leg is stopped.                     *)
OnServerShutdown(l) ==
  /\ Running(l)
  /\ w' = Internal(w, "TS", 200)
  /\ leg' = Stopped(l, Status(l))
  /\ EndedBy("TS")
  /\ UNCHANGED <<q, timers, ringingTimeout, answered, snapVars>>

(* CdrList::onSessionFinalize.                                             *)
OnSessionFinalize ==
  IF Buffering THEN postponed' = postponed + 1 /\ copied' = copied + 1
               ELSE UNCHANGED <<postponed, copied>>

(* finalize: the A leg's CDR is copied for the next snapshot.              *)
Finalize(l) ==
  /\ Alive(l) /\ leg[l].alive = "stopped"
  /\ q[l] = << >>
  /\ l = "B" => ~Pending
  /\ leg' = [leg EXCEPT ![l].alive = "final"]
  /\ IF l = "A" /\ w.cdr # NoCdr THEN OnSessionFinalize ELSE UNCHANGED <<postponed, copied>>
  /\ UNCHANGED <<w, q, timers, ringingTimeout, answered, first, local, snap, shown>>

(* onBeforeDestroy: the A leg forgets its HTTP events, the last leg writes *)
(* the CDR.                                                                *)
OnBeforeDestroy(l) ==
  LET x == IF l = "A" THEN [w EXCEPT !.http = H!Cleanup(@)] ELSE w
  IN  /\ leg[l].alive = "final"
      /\ leg' = [leg EXCEPT ![l].alive = "gone"]
      /\ w' = IF leg[Peer(l)].alive = "gone" THEN WriteCdr(x) ELSE x
      /\ UNCHANGED <<q, timers, ringingTimeout, answered, first, snapVars>>

-----------------------------------------------------------------------------
(* The http client answers; it may stop taking requests.                   *)
HttpReply ==
  /\ w.http.await
  /\ w' = [w EXCEPT !.http = H!ProcessHttpReply(@)]
  /\ UNCHANGED <<leg, q, timers, ringingTimeout, answered, first, snapVars>>

HttpClientGone ==
  /\ w.http.up
  /\ w' = [w EXCEPT !.http.up = FALSE]
  /\ UNCHANGED <<leg, q, timers, ringingTimeout, answered, first, snapVars>>

(* onTimer of the snapshots: after the calls were visited, the copies are  *)
(* taken under the list's lock, then posted.                               *)

(* Mutant: the copies are read and left where they are.                    *)
SnapSwapKeeps ==
  /\ snap = "idle" /\ snap' = "swapped"
  /\ postponed > 0                        \* bound: no empty snapshots
  /\ local' = IF Buffering THEN postponed ELSE local
  /\ UNCHANGED <<w, leg, q, timers, ringingTimeout, answered, first, postponed, copied, shown>>

SnapSwap ==
  /\ snap = "idle" /\ snap' = "swapped"
  /\ postponed > 0                        \* bound: no empty snapshots
  /\ IF Buffering THEN local' = postponed /\ postponed' = local ELSE UNCHANGED <<local, postponed>>
  /\ UNCHANGED <<w, leg, q, timers, ringingTimeout, answered, first, copied, shown>>

SnapPost ==
  /\ snap = "swapped" /\ snap' = "idle"
  /\ shown' = shown + local /\ local' = 0
  /\ UNCHANGED <<w, leg, q, timers, ringingTimeout, answered, first, postponed, copied>>

Over == \A l \in Legs : leg[l].alive = "gone"

(* The call is over (keeps its last state from being a deadlock).          *)
Terminated == Over /\ UNCHANGED vars

-----------------------------------------------------------------------------
LegEvent(l) == OnOtherBye(l) \/ OnTerminateLeg(l) \/ OnOtherException(l)
Reply == B2bInitial1xx \/ B2bInitial2xx \/ B2bInitialErr

Ended(l) ==
  \/ OnEarlyBye(l) \/ OnBye(l) \/ OnRtpTimeout(l) \/ OnRemoteDisappeared(l)
  \/ \E cause \in Coded : OnDialogTimeout(l, cause)
  \/ OnException(l) \/ OnServerShutdown(l)

Next ==
  \/ OnB2BConnect \/ OnSipReply \/ OnRingingTimeout \/ Reply
  \/ OnCancel \/ OnDurationTimer \/ OnTearDown \/ OnBLegTearDown
  \/ \E l \in Legs : LegEvent(l) \/ Ended(l) \/ Finalize(l) \/ OnBeforeDestroy(l)
  \/ HttpReply \/ HttpClientGone
  \/ SnapSwap \/ SnapPost
  \/ Terminated

(* An http request is answered or times out.                               *)
Spec == Init /\ [][Next]_vars /\ WF_vars(HttpReply)

-----------------------------------------------------------------------------
(* A call leaves one row.  With an answer in it, the end is known, comes   *)
(* after the answer and has an initiator; a call the caller was told is    *)
(* answered lacks it only if the callee or the switch had ended it before  *)
(* the caller could be told (update_with_action, onCallConnected).         *)
Billable ==
  /\ Len(w.rows) <= 1 /\ (Over => Len(w.rows) = 1)
  /\ \A i \in DOMAIN w.rows :
       LET t  == w.rows[i].timers
           by == w.rows[i].initiator
       IN  /\ t.connect # 0 => t.start < t.connect /\ t.connect < t.end /\ by # "Undefined"
           /\ answered /\ t.connect = 0 => by \in {"DST", "TS"} /\ t.end > t.start

(* The row blames whoever ended the call first, of all parties and timers  *)
(* that did while its events crossed between the legs.                     *)
BlamesFirst ==
  \A i \in DOMAIN w.rows : w.rows[i].initiator = first

(* A finished call's copy is in one place, and once posted in no later     *)
(* snapshot (onSessionFinalize, onTimer's swap).                           *)
ReportedOnce == postponed + local + shown = copied /\ copied <= 1

Rank(e) == CASE e = "started" -> 1 [] e = "connected" -> 2 [] e = "disconnected" -> 3

(* HTTP events go out in the order started, connected, disconnected, each  *)
(* once and after the answer to the one before, whatever order the call's  *)
(* thread and the answers come in.                                         *)
EventsInOrder ==
  LET p == w.http.posted
      sent == {i \in DOMAIN p : p[i] # "answer"}
  IN  \A i \in sent :
        /\ i > 1 => p[i - 1] = "answer"
        /\ \A j \in sent : j < i => Rank(p[j]) < Rank(p[i])

(* The sequencer forgets every call, hooks that were missed included       *)
(* (cleanup and the answer that comes after it).                           *)
StateReleased == Over ~> w.http.stage = "none"
=============================================================================
