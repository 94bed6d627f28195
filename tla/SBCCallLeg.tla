----------------------------- MODULE SBCCallLeg -----------------------------
(***************************************************************************)
(* One call: the A leg (leg 0), the B legs it dials one after the other    *)
(* while callees refuse (hunting), the context they share, the resource    *)
(* handlers and CDRs of the attempts.                                      *)
(*                                                                         *)
(* Legs of a call run on one thread (start_on_same_thread): an action      *)
(* handles one event.  Only the loop that gets resources is split, one     *)
(* step per rctl.get, with pc # "idle" while it lasts.                     *)
(*                                                                         *)
(* External (the sems core): a stopped leg may still handle events until   *)
(* it is destroyed; a leg with a pending INVITE is destroyed only after    *)
(* its final reply; events for a destroyed leg are dropped.                *)
(***************************************************************************)
EXTENDS CallCtx, FiniteSets

CONSTANTS
  MaxLegs,                \* bound: B legs; a further one fails to be set up
  ProfileLists,           \* what routing may answer
  AorReplies,             \* what the registrar may answer
  Outcomes,               \* what rctl.get may answer
  EarlySdp                \* TRUE: provisional replies may carry bad SDP

None  == -1
Bs    == 1..MaxLegs
AllLegs == 0..MaxLegs

ASSUME CallAssumption ==
  /\ MaxLegs \in Nat
  /\ \A ps \in ProfileLists : ps \in Seq(Profile) /\ ps # << >>
  /\ \A ps \in ProfileLists, reply \in AorReplies : \A i \in DOMAIN ps :
       ps[i].aor # 0 => ps[i].aor \in DOMAIN reply /\ reply[ps[i].aor] \in Nat
  /\ Outcomes \subseteq {"granted", "pass", "reject", "next", "error", "unready"}

VARIABLES
  c,                      \* the context's contents
  ctx,                    \* whether it exists: "none", "live", "deleted"
  refs,                   \* references
  leg,                    \* the legs
  q,                      \* their event queues
  others,                 \* other_legs of the A leg
  stage,                  \* answer the A leg waits for
  pc,                     \* inside the loop over rctl.get, or "idle"
  ri,                     \* whether the loop's resource iterator was set
  hs,                     \* profiles with a resource_handler
  held,                   \* those whose handler is in rctl's table
  dropped,                \* RemoveCall was requested
  final,                  \* whether a final CDR is due: "no" without routing
  proc                    \* "run", or what a null pointer stood for

loopVars == <<pc, ri>>
vars == <<c, ctx, refs, leg, q, others, stage, loopVars, hs, held, dropped, final, proc>>

(* alive: the session; status: call_status; ctx: has the context; other:   *)
(* other_id; prof: the profile in call_profile.                            *)
NoLeg == [alive |-> "none", status |-> "Disconnected", ctx |-> FALSE,
          other |-> None, prof |-> 0]

Init ==
  /\ c = NewCtx
  /\ ctx = "none" /\ refs = 0
  /\ leg = [l \in AllLegs |-> IF l = 0 THEN [NoLeg EXCEPT !.alive = "run"] ELSE NoLeg]
  /\ q = [l \in AllLegs |-> << >>]
  /\ others = {}
  /\ stage = "invite"
  /\ pc = "idle" /\ ri = FALSE
  /\ hs = {} /\ held = {}
  /\ dropped = FALSE
  /\ final = "no"
  /\ proc = "run"

-----------------------------------------------------------------------------
Event(t, l) == [t |-> t, from |-> l]

Idle(l) == proc = "run" /\ pc = "idle" /\ leg[l].alive \in {"run", "stopped"}

Received(l, t) == Idle(l) /\ q[l] # << >> /\ Head(q[l]).t = t
Popped(l) == [q EXCEPT ![l] = Tail(@)]

(* postEvent to each leg of D.                                             *)
Posted(qq, D, ev) ==
  [l \in AllLegs |-> IF l \in D /\ leg[l].alive \in {"run", "stopped"}
                       THEN Append(qq[l], ev) ELSE qq[l]]

(* relayEvent of leg l: ignored without a context or a peer.               *)
Relayed(qq, l, t) ==
  IF leg[l].ctx /\ leg[l].other # None THEN Posted(qq, {leg[l].other}, Event(t, l)) ELSE qq

(* terminateLeg.                                                           *)
Stopped(l) == [leg EXCEPT ![l].alive = "stopped"]

(* stopCall of the A leg, with records lg and B legs bs: all end.          *)
StopCall(lg, bs, qq) ==
  /\ leg' = [lg EXCEPT ![0].alive = "stopped", ![0].status = "Disconnected", ![0].other = None]
  /\ q' = Posted(qq, bs \cup ({lg[0].other} \ {None}), Event("terminate", 0))
  /\ others' = {}

(* A new B leg: it has the context and the profile of the A leg.           *)
NewBLeg(lg) ==
  [alive |-> "run", status |-> "Disconnected", ctx |-> TRUE, other |-> 0, prof |-> lg[0].prof]

(* Mutant: a B leg does not count as a reference.                          *)
ConnectCalleeUncounted(qq, lg) ==
  \E i \in Bs :
    /\ leg[i].alive = "none" /\ \A j \in Bs : leg[j].alive = "none" => i <= j
    /\ leg' = [lg EXCEPT ![i] = NewBLeg(lg),
                         ![0].status = IF @ = "Disconnected" THEN "NoReply" ELSE @]
    /\ others' = others \cup {i}
    /\ q' = [qq EXCEPT ![i] = <<Event("connect", 0)>>]
    /\ UNCHANGED refs

(* connectCallee: a B leg with the A leg's profile joins the context.      *)
ConnectCallee(qq, lg) ==
  \E i \in Bs :
    /\ leg[i].alive = "none" /\ \A j \in Bs : leg[j].alive = "none" => i <= j
    /\ leg' = [lg EXCEPT ![i] = NewBLeg(lg),
                         ![0].status = IF @ = "Disconnected" THEN "NoReply" ELSE @]
    /\ others' = others \cup {i}
    /\ q' = [qq EXCEPT ![i] = <<Event("connect", 0)>>]
    /\ refs' = refs + 1

-----------------------------------------------------------------------------
(* From INVITE to routing.                                                 *)

(* onInvite: certificates of Identity headers may have to be awaited, a    *)
(* malformed request is answered at once.                                  *)
OnInvite ==
  /\ Idle(0) /\ leg[0].alive = "run"
  /\ stage = "invite"
  /\ \/ stage' = "cert" /\ UNCHANGED leg
     \/ stage' = "none" /\ leg' = Stopped(0)
  /\ UNCHANGED <<c, ctx, refs, q, others, loopVars, hs, held, dropped, final, proc>>

(* The context is gone without a CDR: routing failed, or asks for          *)
(* authorization.                                                          *)
CtxDropped ==
  /\ ctx' = "deleted" /\ refs' = 0
  /\ leg' = [leg EXCEPT ![0].alive = "stopped", ![0].ctx = FALSE]
  /\ stage' = "none"
  /\ UNCHANGED pc

(* processAorResolving: wait for the registrar, or get the resources.      *)
ProcessAorResolving ==
  LET aors == {i \in DOMAIN c'.profiles : ~c'.profiles[i].refuse /\ c'.profiles[i].aor # 0}
  IN  IF aors # {} THEN stage' = "aor" /\ UNCHANGED pc
                   ELSE stage' = "none" /\ pc' = "first"

(* onProfilesReady: refuse, or go on with the first profile; a bad R-URI   *)
(* ends it with an exception, RADIUS may have to be awaited.               *)
OnProfilesReady(ps, failed) ==
  /\ IF failed \/ ps[1].auth \/ ps[1].refuse
       THEN /\ CtxDropped
            /\ c' = IF failed \/ ps[1].auth THEN [GetFirstProfile(c, ps) EXCEPT !.cdr = NoCdr]
                    ELSE WriteCdr(GetFirstProfile(c, ps), TRUE)
            /\ final' = IF failed \/ ps[1].auth THEN "no" ELSE "due"
       ELSE /\ c' = GetFirstProfile(c, ps)
            /\ final' = "due"
            /\ ctx' = "live" /\ refs' = 1
            /\ \/ stage' = "radius" /\ leg' = [leg EXCEPT ![0].prof = 1, ![0].ctx = TRUE] /\ UNCHANGED pc
               \/ ProcessAorResolving /\ leg' = [leg EXCEPT ![0].prof = 1, ![0].ctx = TRUE]
               \/ stage' = "none" /\ UNCHANGED pc
                  /\ leg' = [leg EXCEPT ![0].prof = 1, ![0].ctx = TRUE, ![0].alive = "stopped"]

(* A routing answer that could not be read becomes a refusing profile.     *)
FailedProfiles ==
  <<[refuse |-> TRUE, auth |-> FALSE, aor |-> 0, rl |-> FALSE, skip |-> FALSE]>>

(* onIdentityReady: the context is created, routing is asked; that fails   *)
(* at once when the request cannot be posted.                              *)
OnIdentityReady ==
  /\ Idle(0)
  /\ stage = "cert"
  /\ \/ /\ ctx' = "live" /\ refs' = 1
        /\ leg' = [leg EXCEPT ![0].ctx = TRUE]
        /\ stage' = "db"
        /\ UNCHANGED <<c, pc, final>>
     \/ OnProfilesReady(FailedProfiles, TRUE)
  /\ UNCHANGED <<q, others, ri, hs, held, dropped, proc>>

OnPostgresResponse ==
  /\ Idle(0)
  /\ stage = "db" /\ leg[0].ctx
  /\ \/ \E ps \in ProfileLists : OnProfilesReady(ps, FALSE)
     \/ OnProfilesReady(FailedProfiles, TRUE)
  /\ UNCHANGED <<q, others, ri, hs, held, dropped, proc>>

(* onPostgresResponseError, onPostgresTimeout.                             *)
OnPostgresFailed ==
  /\ Idle(0)
  /\ stage = "db" /\ leg[0].ctx
  /\ CtxDropped
  /\ UNCHANGED <<c, q, others, ri, hs, held, dropped, final, proc>>

(* onRadiusReply: routing goes on or the leg is stopped.  The reply is     *)
(* ignored while the dialog is Cancelling; a leg stopped for another       *)
(* reason, or whose 487 was sent, goes on.                                 *)
OnRadiusReply ==
  /\ Idle(0)
  /\ stage = "radius" /\ leg[0].ctx
  /\ UNCHANGED c
  /\ \/ ProcessAorResolving /\ UNCHANGED leg
     \/ stage' = "none" /\ leg' = Stopped(0) /\ UNCHANGED pc
  /\ UNCHANGED <<ctx, refs, q, others, ri, hs, held, dropped, final, proc>>

(* onRedisReply: profiles are resolved, skipped ones in front passed.      *)
OnRedisReply ==
  /\ Idle(0)
  /\ stage = "aor" /\ leg[0].ctx
  /\ stage' = "none"
  /\ \/ UNCHANGED <<c, pc>> /\ leg' = Stopped(0)            \* unreadable reply
     \/ \E reply \in AorReplies :
          LET r == PassSkipped(Resolve(c, reply))
          IN  /\ c' = r.c
              /\ IF r.found THEN pc' = "first" /\ UNCHANGED leg
                            ELSE leg' = Stopped(0) /\ UNCHANGED pc
  /\ UNCHANGED <<ctx, refs, q, others, ri, hs, held, dropped, final, proc>>

-----------------------------------------------------------------------------
(* Getting resources: one rctl.get per step, for the current profile.      *)

(* Without resources to take, the answer is to go on.                      *)
Answers == IF c.profiles[c.cur].rl THEN Outcomes ELSE {"pass"}

Granted(answer) ==
  /\ answer \in Answers \cap {"granted", "pass"}
  /\ hs' = IF answer = "granted" THEN hs \cup {c.cur} ELSE hs

Taken(answer) == IF answer = "granted" THEN held \cup {c.cur} ELSE held

(* The iterator is unset when the first rctl.get found no ready container. *)
NullIterator(answer) == answer = "unready" /\ ~ri

(* onRoutingReady: dial, or fail on the profile's SDP or routing; then its *)
(* resources are given back.                                               *)
OnRoutingReady(lg, took) ==
  \/ ConnectCallee(q, lg) /\ held' = took
  \/ /\ leg' = [lg EXCEPT ![0].alive = "stopped"]
     /\ held' = took \ {c.cur}
     /\ UNCHANGED <<refs, q, others>>

(* processResourcesAndSdp: dial, fail over to the next profile and repeat, *)
(* or give up; a null resource is read to word the refusal.                *)
ProcessResourcesAndSdp ==
  /\ proc = "run" /\ pc = "first"
  /\ \E answer \in Answers :
       \/ /\ Granted(answer)
          /\ OnRoutingReady([leg EXCEPT ![0].prof = c.cur], Taken(answer))
          /\ pc' = "idle" /\ ri' = FALSE
          /\ UNCHANGED <<c, proc>>
       \/ LET r == GetNextProfile(c, TRUE, FALSE)
          IN  /\ answer = "next"
              /\ c' = r.c
              /\ IF r.found /\ ~r.c.profiles[r.c.cur].refuse
                   THEN ri' = TRUE /\ UNCHANGED <<pc, leg>>
                   ELSE pc' = "idle" /\ ri' = FALSE /\ leg' = Stopped(0)
              /\ UNCHANGED <<refs, q, others, hs, held, proc>>
       \/ /\ answer \in {"reject", "error", "unready"}
          /\ pc' = "idle" /\ ri' = FALSE
          /\ leg' = Stopped(0)
          /\ proc' = IF NullIterator(answer) THEN "no_resource" ELSE proc
          /\ UNCHANGED <<c, refs, q, others, hs, held>>
  /\ UNCHANGED <<ctx, stage, dropped, final>>

-----------------------------------------------------------------------------
(* Hunting: a callee refused, the next profile is tried.                   *)

(* The end of b2bInitialErr: without a B leg left the call is over.        *)
NoMoreLegs(lg, qq, left) ==
  /\ others' = left
  /\ q' = qq
  /\ leg' = IF left # {} THEN lg
            ELSE [lg EXCEPT ![0].alive = "stopped", ![0].status = "Disconnected"]

(* connectCalleeRequest: dial, or fail on the profile's routing.           *)
ConnectCalleeRequest(lg) ==
  \/ ConnectCallee(q, lg)
  \/ leg' = [lg EXCEPT ![0].alive = "stopped"] /\ UNCHANGED <<refs, q, others>>

(* chooseNextProfile from the second profile on, and what follows it.      *)
ChooseNextProfile ==
  /\ proc = "run" /\ pc = "next"
  /\ \E answer \in Answers :
       \/ /\ Granted(answer)
          /\ ConnectCalleeRequest([leg EXCEPT ![0].prof = c.cur])
          /\ held' = Taken(answer)
          /\ pc' = "idle" /\ ri' = FALSE
          /\ UNCHANGED <<c, proc>>
       \/ LET r == GetNextProfile(c, FALSE, TRUE)
          IN  /\ answer = "next"
              /\ c' = r.c
              /\ IF r.found THEN ri' = TRUE /\ UNCHANGED <<pc, leg, q, others>>
                            ELSE pc' = "idle" /\ ri' = FALSE /\ NoMoreLegs(leg, q, others)
              /\ UNCHANGED <<refs, hs, held, proc>>
       \/ /\ answer \in {"reject", "error", "unready"}
          /\ pc' = "idle" /\ ri' = FALSE
          /\ NoMoreLegs(leg, q, others)
          /\ proc' = IF NullIterator(answer) THEN "no_resource" ELSE proc
          /\ UNCHANGED <<c, refs, hs, held>>
  /\ UNCHANGED <<ctx, stage, dropped, final>>

(* Mutant: the refused attempt's resources are kept.                       *)
OnBLegRefusedKeep(lg, qq, left) ==
  LET r == GetNextProfile(c, FALSE, FALSE)
  IN  /\ IF r.found THEN pc' = "next" /\ leg' = lg /\ q' = qq /\ others' = left
                    ELSE NoMoreLegs(lg, qq, left) /\ UNCHANGED pc
      /\ c' = r.c
      /\ UNCHANGED <<held, proc>>

(* onBLegRefused: the reply may stop hunting; otherwise the resources are  *)
(* given back and the next profile chosen.                                 *)
OnBLegRefused(lg, qq, left) ==
  LET r == GetNextProfile(c, FALSE, FALSE)
  IN  \/ c.cdr # NoCdr /\ NoMoreLegs(lg, qq, left) /\ UNCHANGED <<c, pc, held, proc>>
      \/ /\ c.cdr # NoCdr
         /\ IF r.found THEN pc' = "next" /\ leg' = lg /\ q' = qq /\ others' = left
                       ELSE NoMoreLegs(lg, qq, left) /\ UNCHANGED pc
         /\ c' = r.c
         /\ held' = held \ {c.cur}
         /\ UNCHANGED proc
      \/ /\ c.cdr = NoCdr
         /\ proc' = "no_cdr"
         /\ leg' = lg /\ q' = qq /\ others' = left
         /\ UNCHANGED <<c, pc, held>>

(* b2bInitialErr: a B leg sent a final negative reply.                     *)
B2bInitialErr ==
  LET l    == Head(q[0]).from
      left == others \ {l}
      a    == leg[0]
      lg   == [leg EXCEPT ![0].status = "NoReply", ![0].other = IF @ = l THEN None ELSE @]
  IN  /\ Received(0, "err")
      /\ \/ /\ a.status \notin {"NoReply", "Ringing"}
            /\ q' = Popped(0)
            /\ UNCHANGED <<c, leg, others, pc, held, proc>>
         \/ /\ a.status = "Ringing" /\ a.other # l
            /\ q' = Popped(0)
            /\ others' = left
            /\ UNCHANGED <<c, leg, pc, held, proc>>
         \/ /\ a.status = "NoReply" \/ (a.status = "Ringing" /\ a.other = l)
            /\ OnBLegRefused(lg, Popped(0), left)
      /\ UNCHANGED <<ctx, refs, stage, ri, hs, dropped, final>>

-----------------------------------------------------------------------------
(* The A leg's other events.                                               *)

(* b2bInitial1xx: the first B leg that rings becomes the peer; the reply   *)
(* may fail to be relayed.                                                 *)
B2bInitial1xx ==
  LET l  == Head(q[0]).from
      lg == [leg EXCEPT ![0].status = "Ringing", ![0].other = l]
  IN  /\ Received(0, "1xx")
      /\ \/ /\ \/ leg[0].status = "NoReply" /\ l \in others
               \/ leg[0].status = "Ringing" /\ leg[0].other = l
            /\ \/ leg' = lg /\ q' = Popped(0) /\ UNCHANGED others
               \/ StopCall(lg, others, Popped(0))
         \/ /\ ~(leg[0].status = "NoReply" /\ l \in others)
            /\ ~(leg[0].status = "Ringing" /\ leg[0].other = l)
            /\ q' = Popped(0)
            /\ UNCHANGED <<leg, others>>
      /\ UNCHANGED <<c, ctx, refs, stage, loopVars, hs, held, dropped, final, proc>>

(* b2bInitial2xx: the answering leg becomes the peer, the others end.      *)
B2bInitial2xx ==
  LET l  == Head(q[0]).from
      lg == [leg EXCEPT ![0].status = "Connected", ![0].other = l]
      ours == leg[0].status \in {"NoReply", "Ringing"} /\ (leg[0].other = l \/ l \in others)
  IN  /\ Received(0, "2xx")
      /\ \/ /\ ours
            /\ leg' = lg
            /\ q' = Posted(Popped(0), others \ {l}, Event("terminate", 0))
            /\ others' = {}
         \/ ours /\ StopCall(lg, others, Popped(0))           \* not relayed
         \/ ~ours /\ q' = Popped(0) /\ UNCHANGED <<leg, others>>
      /\ UNCHANGED <<c, ctx, refs, stage, loopVars, hs, held, dropped, final, proc>>

(* Mutant: the early BYE leaves the call status as it is.                  *)
OnOtherByeKeepsStatus(l) ==
  /\ Received(l, "bye")
  /\ q' = Popped(l)
  /\ c' = IF l = 0 /\ leg[0].ctx /\ leg[0].status # "Connected" THEN WriteCdr(c, TRUE) ELSE c
  /\ leg' = [leg EXCEPT ![l].alive = "stopped"]
  /\ UNCHANGED <<ctx, refs, others, stage, loopVars, hs, held, dropped, final, proc>>

(* onOtherBye: a BYE before the call is connected ends its CDR at once.    *)
OnOtherBye(l) ==
  /\ Received(l, "bye")
  /\ q' = Popped(l)
  /\ c' = IF l = 0 /\ leg[0].ctx /\ leg[0].status # "Connected" THEN WriteCdr(c, TRUE) ELSE c
  /\ leg' = [leg EXCEPT ![l].alive = "stopped", ![l].status = "Disconnected"]
  /\ UNCHANGED <<ctx, refs, others, stage, loopVars, hs, held, dropped, final, proc>>

(* B2BTerminateLeg of the peer; its exception (onOtherException).          *)
OnTerminateLeg(l) ==
  /\ Received(l, "terminate") \/ Received(l, "exception")
  /\ q' = Popped(l)
  /\ leg' = Stopped(l)
  /\ UNCHANGED <<c, ctx, refs, others, stage, loopVars, hs, held, dropped, final, proc>>

(* onTearDown, onControlCmd: the A leg stops the call, a B leg asks it to. *)
OnTearDown(l) ==
  /\ Received(l, "teardown")
  /\ \/ l = 0 /\ StopCall(leg, others, Popped(0))
     \/ /\ l # 0
        /\ q' = Relayed(Popped(l), l, "teardown")
        /\ UNCHANGED <<leg, others>>
  /\ UNCHANGED <<c, ctx, refs, stage, loopVars, hs, held, dropped, final, proc>>

-----------------------------------------------------------------------------
(* The caller, timers and operators.                                       *)

(* CANCEL before the call is connected.                                    *)
OnCancel ==
  /\ Idle(0) /\ leg[0].alive = "run"
  /\ stage # "invite" /\ leg[0].status # "Connected"
  /\ StopCall(leg, others, q)
  /\ UNCHANGED <<c, ctx, refs, stage, loopVars, hs, held, dropped, final, proc>>

(* BYE of the caller.                                                      *)
OnBye ==
  /\ Idle(0) /\ leg[0].alive = "run"
  /\ leg[0].status # "Disconnected"
  /\ leg' = [leg EXCEPT ![0].alive = "stopped", ![0].status = "Disconnected"]
  /\ q' = Relayed(Posted(q, others \ {leg[0].other}, Event("terminate", 0)), 0, "bye")
  /\ others' = others \cap {leg[0].other}
  /\ UNCHANGED <<c, ctx, refs, stage, loopVars, hs, held, dropped, final, proc>>

(* A connected A leg runs into the call's duration limit, an RTP or        *)
(* session timeout, a missing ACK.                                         *)
OnTimerEvent ==
  /\ Idle(0) /\ leg[0].alive = "run"
  /\ leg[0].status = "Connected"
  /\ StopCall(leg, others, q)
  /\ UNCHANGED <<c, ctx, refs, stage, loopVars, hs, held, dropped, final, proc>>

(* RemoveCall, on the RPC thread: the current profile's resources are      *)
(* given back, the leg is told to stop.  Bound: one request per call.      *)
RemoveCall(l) ==
  /\ proc = "run"
  /\ leg[l].alive \in {"run", "stopped"}
  /\ ~dropped /\ dropped' = TRUE
  /\ held' = IF leg[l].ctx THEN held \ {c.cur} ELSE held
  /\ q' = Posted(q, {l}, Event("teardown", l))
  /\ UNCHANGED <<c, ctx, refs, leg, others, stage, loopVars, hs, final, proc>>

(* onServerShutdown: resources are given back while the CDR waits.         *)
OnServerShutdown(l) ==
  /\ Idle(l) /\ leg[l].alive = "run"
  /\ held' = IF leg[l].ctx THEN held \ {leg[l].prof} ELSE held
  /\ leg' = Stopped(l)
  /\ UNCHANGED <<c, ctx, refs, q, others, stage, loopVars, hs, dropped, final, proc>>

-----------------------------------------------------------------------------
(* A B leg.                                                                *)

Pending(l) == leg[l].status \in {"NoReply", "Ringing"}

(* onB2BConnect: send the INVITE; when that fails, the A leg gets an error *)
(* and, from stopCall, a termination.                                      *)
OnB2BConnect(l) ==
  /\ Received(l, "connect")
  /\ \/ leg' = [leg EXCEPT ![l].status = "NoReply"] /\ q' = Popped(l)
     \/ /\ q' = Relayed(Relayed(Popped(l), l, "err"), l, "terminate")
        /\ leg' = [leg EXCEPT ![l].alive = "stopped", ![l].other = None]
  /\ UNCHANGED <<c, ctx, refs, others, stage, loopVars, hs, held, dropped, final, proc>>

(* Mutant: a stopped leg ignores the final reply to its INVITE.            *)
OnSipReplyRunning(l) ==
  /\ Idle(l) /\ leg[l].alive = "run"
  /\ Pending(l)
  /\ \/ /\ leg[l].status = "NoReply"
        /\ q' = Relayed(q, l, "1xx")
        /\ leg' = [leg EXCEPT ![l].status = "Ringing"]
     \/ /\ q' = Relayed(q, l, "2xx")
        /\ leg' = [leg EXCEPT ![l].status = "Connected"]
     \/ /\ q' = Relayed(q, l, "err")
        /\ leg' = [leg EXCEPT ![l].status = "Disconnected", ![l].alive = "stopped"]
  /\ UNCHANGED <<c, ctx, refs, others, stage, loopVars, hs, held, dropped, final, proc>>

(* onSipReply to the INVITE; a cancelled callee may still answer.          *)
OnSipReply(l) ==
  /\ Idle(l)
  /\ Pending(l)
  /\ \/ /\ leg[l].status = "NoReply"
        /\ q' = Relayed(q, l, "1xx")
        /\ leg' = [leg EXCEPT ![l].status = "Ringing"]
     \/ /\ q' = Relayed(q, l, "2xx")
        /\ leg' = [leg EXCEPT ![l].status = "Connected"]
     \/ /\ q' = Relayed(q, l, "err")
        /\ leg' = [leg EXCEPT ![l].status = "Disconnected", ![l].alive = "stopped"]
  /\ UNCHANGED <<c, ctx, refs, others, stage, loopVars, hs, held, dropped, final, proc>>

(* terminateLegOnReplyException: the reply's SDP is refused, which ends    *)
(* the leg; the final reply to its cancelled INVITE is still to come when  *)
(* the reply was provisional.                                              *)
TerminateLegOnReplyException(l) ==
  /\ Idle(l)
  /\ Pending(l) /\ leg[l].ctx
  /\ \E provisional \in {FALSE, EarlySdp} :
       leg' = [leg EXCEPT ![l].alive = "stopped",
                          ![l].status = IF provisional THEN @ ELSE "Connected"]
  /\ q' = Relayed(q, l, "err")
  /\ UNCHANGED <<c, ctx, refs, others, stage, loopVars, hs, held, dropped, final, proc>>

(* onException: a reply could not be handled.                              *)
OnException(l) ==
  /\ Idle(l) /\ leg[l].alive = "run"
  /\ Pending(l)
  /\ q' = Relayed(q, l, "exception")
  /\ leg' = Stopped(l)
  /\ UNCHANGED <<c, ctx, refs, others, stage, loopVars, hs, held, dropped, final, proc>>

(* BYE of the callee, early ones included.                                 *)
OnCalleeBye(l) ==
  /\ Idle(l) /\ leg[l].alive = "run"
  /\ leg[l].status \in {"Ringing", "Connected"} /\ leg[l].ctx
  /\ q' = Relayed(q, l, "bye")
  /\ leg' = [leg EXCEPT ![l].alive = "stopped",
                        ![l].status = IF @ = "Connected" THEN "Disconnected" ELSE @]
  /\ UNCHANGED <<c, ctx, refs, others, stage, loopVars, hs, held, dropped, final, proc>>

(* A connected B leg runs into an RTP or session timeout.                  *)
OnCalleeTimeout(l) ==
  /\ Idle(l) /\ leg[l].alive = "run"
  /\ leg[l].status = "Connected"
  /\ q' = Relayed(q, l, "terminate")
  /\ leg' = [leg EXCEPT ![l].alive = "stopped", ![l].status = "Disconnected", ![l].other = None]
  /\ UNCHANGED <<c, ctx, refs, others, stage, loopVars, hs, held, dropped, final, proc>>

(* REFER of the callee: the leg leaves the call; the event for the A leg   *)
(* is relayed without a context, that is, not at all.                      *)
OnRefer(l) ==
  /\ Idle(l)
  /\ leg[l].status \in {"Ringing", "Connected"}
  /\ leg[l].ctx /\ leg[l].other # None
  /\ refs' = refs - 1
  /\ leg' = [leg EXCEPT ![l].ctx = FALSE, ![l].other = None]
  /\ UNCHANGED <<c, ctx, q, others, stage, loopVars, hs, held, dropped, final, proc>>

(* Mutant: the last leg leaves the CDR to whoever wrote it before.         *)
OnBeforeDestroyNoCdr(l) ==
  /\ Idle(l) /\ leg[l].alive = "stopped"
  /\ q[l] = << >>
  /\ l = 0 \/ ~Pending(l)
  /\ leg' = [leg EXCEPT ![l] = [NoLeg EXCEPT !.alive = "gone"]]
  /\ refs' = IF leg[l].ctx THEN refs - 1 ELSE refs
  /\ IF leg[l].ctx /\ refs = 1
       THEN ctx' = "deleted" /\ held' = held \ {c.cur} /\ UNCHANGED c
       ELSE UNCHANGED <<c, ctx, held>>
  /\ UNCHANGED <<q, others, stage, loopVars, hs, dropped, final, proc>>

(* onBeforeDestroy: the last leg gives the resources back, writes the CDR  *)
(* and deletes the context.                                                *)
OnBeforeDestroy(l) ==
  /\ Idle(l) /\ leg[l].alive = "stopped"
  /\ q[l] = << >>
  /\ l = 0 \/ ~Pending(l)
  /\ leg' = [leg EXCEPT ![l] = [NoLeg EXCEPT !.alive = "gone"]]
  /\ refs' = IF leg[l].ctx /\ refs > 0 THEN refs - 1 ELSE refs
  /\ IF leg[l].ctx /\ refs' = 0
       THEN /\ ctx' = "deleted"
            /\ held' = held \ {c.cur}
            /\ c' = WriteCdr(c, TRUE)
       ELSE UNCHANGED <<c, ctx, held>>
  /\ UNCHANGED <<q, others, stage, loopVars, hs, dropped, final, proc>>

(* The call is over (keeps its last state from being a deadlock).          *)
Terminated ==
  /\ proc # "run" \/ \A l \in AllLegs : leg[l].alive \in {"none", "gone"}
  /\ UNCHANGED vars

-----------------------------------------------------------------------------
Answered == OnPostgresResponse \/ OnPostgresFailed \/ OnRadiusReply \/ OnRedisReply

ALegEvent == B2bInitial1xx \/ B2bInitial2xx \/ B2bInitialErr

LegEvent(l) == OnOtherBye(l) \/ OnTerminateLeg(l) \/ OnTearDown(l)

Callee(l) ==
  \/ OnB2BConnect(l) \/ OnSipReply(l) \/ TerminateLegOnReplyException(l) \/ OnException(l)
  \/ OnCalleeBye(l) \/ OnCalleeTimeout(l) \/ OnRefer(l)

Next ==
  \/ OnInvite \/ OnIdentityReady \/ Answered
  \/ ProcessResourcesAndSdp \/ ChooseNextProfile
  \/ ALegEvent
  \/ OnCancel \/ OnBye \/ OnTimerEvent
  \/ \E l \in AllLegs : LegEvent(l) \/ RemoveCall(l) \/ OnServerShutdown(l) \/ OnBeforeDestroy(l)
  \/ \E l \in Bs : Callee(l)
  \/ Terminated

Spec == Init /\ [][Next]_vars

(* Legs handle their events and are destroyed; the services answer or time *)
(* out; a callee's INVITE gets a final reply (of the transaction timer at  *)
(* the latest); the parties hang up.                                       *)
Fairness ==
  /\ WF_vars(OnInvite \/ OnIdentityReady \/ Answered)
  /\ WF_vars(ProcessResourcesAndSdp \/ ChooseNextProfile)
  /\ WF_vars(ALegEvent)
  /\ WF_vars(OnCancel \/ OnBye)
  /\ \A l \in AllLegs : WF_vars(LegEvent(l)) /\ WF_vars(OnBeforeDestroy(l))
  /\ \A l \in Bs : WF_vars(OnB2BConnect(l)) /\ WF_vars(OnSipReply(l)) /\ WF_vars(OnCalleeBye(l))

FairSpec == Spec /\ Fairness

-----------------------------------------------------------------------------
(* Every leg's state and every counter stays in its range.                 *)
TypeOK ==
  /\ c.cur \in 0..Len(c.profiles)
  /\ c.cdr.attempt \in Nat
  /\ \A i \in DOMAIN c.written : c.written[i].attempt \in Nat \ {0}
  /\ ctx \in {"none", "live", "deleted"}
  /\ refs \in 0..(MaxLegs + 1)
  /\ leg \in [AllLegs -> [alive : {"none", "run", "stopped", "gone"},
                          status : {"Disconnected", "NoReply", "Ringing", "Connected"},
                          ctx : BOOLEAN, other : {None} \cup AllLegs,
                          prof : 0..Len(c.profiles)]]
  /\ others \subseteq Bs
  /\ stage \in {"invite", "cert", "db", "radius", "aor", "none"}
  /\ pc \in {"idle", "first", "next"} /\ ri \in BOOLEAN
  /\ hs \subseteq Bs /\ held \subseteq hs
  /\ dropped \in BOOLEAN /\ final \in {"no", "due"}
  /\ proc \in {"run", "no_cdr", "no_resource"}

(* A leg that points to the context points to a live one, and references   *)
(* counts the legs that do: the context is deleted neither under a leg     *)
(* nor never (onBeforeDestroy, the B leg's constructor, REFER).            *)
CtxCounted ==
  /\ refs = Cardinality({l \in AllLegs : leg[l].ctx})
  /\ (\E l \in AllLegs : leg[l].ctx) => ctx = "live"

(* A call holds resources of one attempt at most, that of the current      *)
(* profile, and none once its context is deleted.                          *)
ResourcesOfOneAttempt ==
  /\ held \subseteq {c.cur}
  /\ ctx = "deleted" => held = {}

(* A call that was routed ends with one CDR marked as its last; no CDR     *)
(* follows it, and none is marked so before the end (write_cdr).           *)
LastCdrOnce ==
  /\ \A i \in DOMAIN c.written : c.written[i].last => i = Len(c.written)
  /\ ctx = "deleted" =>
       (final = "due") = (c.written # << >> /\ c.written[Len(c.written)].last)

(* The i-th CDR of a call is that of its attempt i, whatever mixture of    *)
(* failover, profiles passed over and hunting led there (attempts_counter  *)
(* in getNextProfile).  Only a profile to be skipped that was dialed all   *)
(* the same, being behind another, has two CDRs, and they share a number:  *)
(* getNextProfile writes one when it leaves the profile and the attempt's  *)
(* own CDR follows.                                                        *)
AttemptsNumbered ==
  LET repeats(cdr, before) ==
        /\ c.profiles[cdr.profile].skip
        /\ \E i \in before : /\ c.written[i].attempt = cdr.attempt
                             /\ c.written[i].profile = cdr.profile
  IN  /\ \A i \in DOMAIN c.written :
           c.written[i].attempt = i \/ repeats(c.written[i], 1..(i - 1))
      /\ c.cdr # NoCdr =>
           c.cdr.attempt = Len(c.written) + 1 \/ repeats(c.cdr, DOMAIN c.written)

(* While the A leg hunts, the callee being called is that of the current   *)
(* profile, the CDR under way is its CDR, and the resources taken for it   *)
(* are still held, unless an operator removed the call: an error reply     *)
(* ends the attempt it belongs to and no other.                            *)
AttemptIntact ==
  (leg[0].alive = "run" /\ pc = "idle" /\ ~dropped) =>
     \A l \in Bs : leg[l].alive = "run" /\ leg[l].ctx =>
       /\ leg[l].prof = c.cur
       /\ c.cdr # NoCdr => c.cdr.profile = leg[l].prof
       /\ leg[l].prof \in hs => leg[l].prof \in held

(* onBLegRefused never looks for a CDR that was already written: an error  *)
(* reply is handled only while the CDR of its attempt is under way, also   *)
(* when an early BYE, a CANCEL or an RPC wrote or is about to write it.    *)
NoNullCdrRead == proc # "no_cdr"

(* Every context is deleted in the end, so its CDR is written and its      *)
(* resources are released, also when a leg was left without its peer. The  *)
(* exceptions: the last reference was given up by a REFER, which the code  *)
(* reports, and the process that read a resource rctl.get did not set.     *)
CallEnds == ctx = "live" ~> (ctx = "deleted" \/ refs = 0 \/ proc = "no_resource")

(* "skip profiles with skip_code_id writing CDRs": no such profile's       *)
(* callee is called.                                                       *)
SkippedNotDialed == \A l \in Bs : leg[l].alive = "run" => ~c.profiles[leg[l].prof].skip
=============================================================================
