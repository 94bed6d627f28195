------------------------------ MODULE SdpRelay -------------------------------
(***************************************************************************)
(* Offer and answer through the two legs of a call.  A leg filters what    *)
(* its endpoint sends (SBCCallLeg::relayEvent) and posts it to its peer,   *)
(* which adjusts it for hold (CallLeg::updateLocalSdp) and sends it on;    *)
(* in-dialog offers may instead be answered by the SBC itself.  What the   *)
(* legs negotiated is kept in the call context they share.                 *)
(*                                                                         *)
(* An action handles one event of a leg.  External (the sems core): the    *)
(* dialogs' offer/answer state, 491 for a request to a leg that has one    *)
(* under way, a final reply to the pending request of a leg that stops.    *)
(***************************************************************************)
EXTENDS SdpFilter

CONSTANTS
  Profiles,       \* the profiles the routes of a call may have
  Offers,         \* the descriptions an endpoint may offer
  MaxAttempts,    \* bound: routes tried
  MaxEarly,       \* bound: 18x replies of a call
  MaxRequests     \* bound: in-dialog requests

ASSUME BoundsAssumption == {MaxAttempts, MaxEarly, MaxRequests} \subseteq Nat

Legs == {"A", "B"}
Peer(l) == IF l = "A" THEN "B" ELSE "A"

VARIABLES
  ctx,            \* prof, the initial INVITE's body, neg, on_hold
  leg,            \* the two legs
  q,              \* the events posted to them
  used            \* bounds: attempts, early, requests

vars == <<ctx, leg, q, used>>

(* A leg: call_status; hold and on_hold; its payload mapping; its dialog's *)
(* offer/answer state; requests under way (uas: from the endpoint, uac: to *)
(* it, ack: its 2xx awaits the ACK).  The rest is history: the endpoint's  *)
(* last offer, the answers to it, the last offer it got, and whether the   *)
(* last one it agreed to was a hold.                                       *)
NewLeg ==
  [status |-> "Disconnected", hold |-> "Preserve", onHold |-> FALSE, map |-> << >>,
   oa |-> "None", uas |-> FALSE, uac |-> FALSE, ack |-> FALSE,
   offered |-> << >>, answers |-> << >>, got |-> NoSdp, held |-> FALSE]

Init ==
  /\ \E p \in Profiles :
       ctx = [prof |-> p, initial |-> NoSdp, neg |-> [l \in Legs |-> << >>], onHold |-> FALSE]
  /\ leg = [l \in Legs |-> NewLeg]
  /\ q = [l \in Legs |-> << >>]
  /\ used = [attempts |-> 0, early |-> 0, requests |-> 0]

(* call_profile, which the B leg copies from the A leg.                    *)
P == ctx.prof

-----------------------------------------------------------------------------
(* CallLeg::onSdpCompleted; without RTP relay SBCCallLeg keeps it away.    *)
HoldAccepted(x) == [x EXCEPT !.onHold = TRUE]
ResumeAccepted(x) == [x EXCEPT !.onHold = FALSE]

OnSdpCompleted(x) ==
  LET y == CASE x.hold = "HoldRequested" -> HoldAccepted(x)
             [] x.hold = "ResumeRequested" -> ResumeAccepted(x)
             [] OTHER -> x
  IN [IF P.rtprelay THEN [y EXCEPT !.hold = "Preserve"] ELSE x EXCEPT !.oa = "Completed"]

(* The endpoint agreed to the offer it got.                                *)
Agreed(x) == [OnSdpCompleted(x) EXCEPT !.held = IsHoldRequest(x.got)]

(* alterHoldRequest: the hold the profile asks for instead.                *)
AlterHoldRequest(l, sdp) ==
  IF P.alter[l] = "no" THEN sdp
  ELSE [sdp EXCEPT !.media = Each(@, LAMBDA m : [m EXCEPT !.dir = P.alter[l]])]

(* CallLeg::adjustOffer and updateLocalSdp.                                *)
Adjusts(x) == x.oa \in {"None", "Completed"} /\ x.answers = << >>

AdjustOffer(x, sdp) ==
  CASE ~Adjusts(x) \/ sdp = NoSdp \/ x.hold # "Preserve" -> x
    [] OTHER -> [x EXCEPT !.hold = IF IsHoldRequest(sdp) THEN "HoldRequested"
                                   ELSE IF x.onHold THEN "ResumeRequested" ELSE @]

UpdateLocalSdp(l, x, sdp) ==
  IF Adjusts(x) /\ sdp # NoSdp /\ x.hold = "Preserve" /\ IsHoldRequest(sdp)
  THEN AlterHoldRequest(l, sdp) ELSE sdp

(* A request to the endpoint of l; an offer in it is a new one.            *)
Sent(l, y, sdp) ==
  LET x == [y EXCEPT !.answers = << >>]
  IN [AdjustOffer(x, sdp) EXCEPT
        !.uac = TRUE, !.got = UpdateLocalSdp(l, x, sdp),
        !.oa = IF sdp = NoSdp THEN @ ELSE "OfferSent"]

(* A reply to the endpoint of l: its body answers the endpoint's offer,    *)
(* repeats an answer, or is an offer.                                      *)
Restored(x) == IF x.status = "Connected" THEN "Completed" ELSE "None"

Replied(l, x, code, sdp) ==
  LET y == CASE sdp = NoSdp -> IF code = "err" THEN [x EXCEPT !.oa = Restored(x)] ELSE x
             [] x.oa = "OfferRecved" -> [OnSdpCompleted(x) EXCEPT !.answers = Append(@, sdp)]
             [] x.answers # << >> -> [x EXCEPT !.answers = Append(@, sdp)]
             [] OTHER -> [AdjustOffer(x, sdp) EXCEPT !.oa = "OfferSent", !.ack = TRUE,
                                                     !.got = UpdateLocalSdp(l, x, sdp)]
  IN [y EXCEPT !.uas = (code = "18x") /\ @]

(* terminateLeg: nothing of a stopped leg matters any more.                *)
Gone == [NewLeg EXCEPT !.status = "Gone"]

Post(events, l, e) == [events EXCEPT ![l] = Append(@, e)]
ErrorReply == [t |-> "reply", code |-> "err", sdp |-> NoSdp]
Request(sdp) == [t |-> "request", code |-> "", sdp |-> sdp]
Terminate == [t |-> "terminate", code |-> "", sdp |-> NoSdp]

-----------------------------------------------------------------------------
(* processResourcesAndSdp and onRoutingReady: the initial INVITE.  The B   *)
(* leg's offer is made of the INVITE as it came.                           *)
RefuseCall(c, rest) ==
  /\ ctx' = c
  /\ leg' = [leg EXCEPT !.A = Gone]
  /\ q' = [q EXCEPT !.A = rest]

Dial(c, a, sdp, rest) ==
  /\ ctx' = c
  /\ leg' = [A |-> [a EXCEPT !.status = "NoReply"], B |-> NewLeg]
  /\ q' = [A |-> rest, B |-> <<[t |-> "connect", code |-> "", sdp |-> sdp]>>]

OnInitialOffer(a, sdp) ==
  \E po \in {ProcessSdpOffer(P, "A", sdp, ctx.neg.A, FALSE, FALSE)},
     fo \in {FilterSdpOffer(P, "B", sdp, leg.A.map)} :
    IF po.err # Ok \/ fo.err # Ok THEN RefuseCall(ctx, q.A)
    ELSE Dial([ctx EXCEPT !.initial = sdp, !.neg = [A |-> po.sdp.media, B |-> fo.sdp.media]],
              [a EXCEPT !.oa = "OfferRecved", !.offered = sdp.media, !.map = fo.map],
              fo.sdp, q.A)

OnInitialInvite(sdp) ==
  /\ leg.A.status = "Disconnected"
  /\ used' = [used EXCEPT !.attempts = 1]
  /\ LET a == [leg.A EXCEPT !.uas = TRUE]
     IN IF sdp = NoSdp THEN Dial(ctx, a, sdp, q.A) ELSE OnInitialOffer(a, sdp)

(* onBLegRefused and connectCalleeRequest: the next route, profile p.  What *)
(* the legs negotiated stays.                                              *)
ConnectCalleeRequest(p) ==
  \E fo \in {FilterSdpOffer(p, "B", ctx.initial, leg.A.map)}, c \in {[ctx EXCEPT !.prof = p]} :
    CASE ctx.initial = NoSdp -> Dial(c, leg.A, NoSdp, Tail(q.A))
      [] fo.err # Ok -> RefuseCall(c, Tail(q.A))
      [] OTHER -> Dial(c, [leg.A EXCEPT !.map = fo.map], fo.sdp, Tail(q.A))

-----------------------------------------------------------------------------
(* relayEvent: a request of l's endpoint.                                  *)
RelayRequest(l, sdp, c) ==
  \E x \in {[leg[l] EXCEPT !.uas = TRUE, !.answers = << >>]} :
    IF sdp = NoSdp
    THEN /\ ctx' = c
         /\ leg' = [leg EXCEPT ![l] = x]
         /\ q' = Post(q, Peer(l), Request(sdp))
    ELSE \E po \in {ProcessSdpOffer(P, l, sdp, ctx.neg[l], FALSE, FALSE)} :
         \E fo \in {FilterSdpOffer(P, Peer(l), po.sdp, leg[l].map)} :
           /\ ctx' = IF po.err = Ok THEN [c EXCEPT !.neg[l] = po.sdp.media] ELSE c
           /\ IF po.err = Ok /\ fo.err = Ok
              THEN /\ leg' = [leg EXCEPT ![l] = [x EXCEPT !.oa = "OfferRecved",
                                                         !.offered = sdp.media, !.map = fo.map]]
                   /\ q' = Post(q, Peer(l), Request(fo.sdp))
              ELSE UNCHANGED <<leg, q>>

(* processLocalRequest: the SBC answers itself.                            *)
AnswerLocally(l, sdp) ==
  /\ \E po \in {ProcessSdpOffer(P, l, sdp, ctx.neg[l], TRUE, P.single[l])} :
       IF po.err = Ok
       THEN /\ ctx' = [ctx EXCEPT !.neg[l] = po.sdp.media]
            /\ leg' = [leg EXCEPT ![l] = [OnSdpCompleted(@) EXCEPT !.offered = sdp.media,
                                                                   !.answers = <<po.sdp>>]]
       ELSE UNCHANGED <<ctx, leg>>
  /\ UNCHANGED q

(* The dialog refuses a request while another or an offer is under way.    *)
Busy(x) == x.uas \/ x.uac \/ x.ack \/ x.oa \in {"OfferSent", "OfferRecved"}

InDialog(l) ==
  /\ leg[l].status = "Connected"
  /\ ~Busy(leg[l])
  /\ used.requests < MaxRequests
  /\ used' = [used EXCEPT !.requests = @ + 1]

(* SBCCallLeg::onSipRequest: re-INVITE.  An offerless one that the SBC     *)
(* answers itself is the dialog's business and left out.                   *)
OnReInvite(l, sdp) ==
  /\ InDialog(l)
  /\ CASE P.relay_reinvite[l] -> RelayRequest(l, sdp, ctx)
       [] sdp = NoSdp -> FALSE
       [] IsHoldRequest(sdp) /\ P.relay_hold[l] ->
            RelayRequest(l, sdp, [ctx EXCEPT !.onHold = TRUE])
       [] ~IsHoldRequest(sdp) /\ ctx.onHold ->
            RelayRequest(l, sdp, [ctx EXCEPT !.onHold = FALSE])
       [] OTHER -> AnswerLocally(l, sdp)

(* SBCCallLeg::onSipRequest: UPDATE with an offer.                         *)
OnUpdate(l, sdp) ==
  /\ InDialog(l)
  /\ sdp # NoSdp
  /\ IF P.relay_update[l] THEN RelayRequest(l, sdp, ctx) ELSE AnswerLocally(l, sdp)

(* relayEvent: the ACK of l's endpoint, with the answer to a 2xx's offer;  *)
(* one that cannot be used goes no further.                                *)
OnAck(l, sdp) ==
  /\ leg[l].ack
  /\ \E x \in {[IF sdp = NoSdp THEN leg[l] ELSE Agreed(leg[l]) EXCEPT !.ack = FALSE]} :
     \E o \in {Peer(l)} :
     \E pa \in {ProcessSdpAnswer(P, o, sdp, ctx.neg[o], x.map, P.single[o], x.oa = "OfferSent")} :
       /\ ctx' = [ctx EXCEPT !.neg[o] = pa.neg]
       /\ leg' = [leg EXCEPT ![l] = [x EXCEPT !.map = pa.map]]
       /\ q' = IF pa.err = Ok THEN Post(q, o, [t |-> "ack", code |-> "", sdp |-> pa.sdp]) ELSE q
  /\ UNCHANGED used

-----------------------------------------------------------------------------
(* The dialog of l takes a reply in: an answer completes, the body of a    *)
(* reply to an offerless request is an offer.                              *)
DialogReply(x, code, sdp) ==
  CASE sdp # NoSdp /\ x.oa = "OfferSent" -> Agreed(x)
    [] sdp # NoSdp /\ x.got = NoSdp -> [x EXCEPT !.oa = "OfferRecved", !.offered = sdp.media,
                                                 !.answers = << >>]
    [] code \in {"err", "fatal"} /\ x.oa = "OfferSent" -> [x EXCEPT !.oa = Restored(x)]
    [] OTHER -> x

(* CallLeg::onSipReply, after the reply was relayed.                       *)
AfterReply(x, code) ==
  LET y == [x EXCEPT !.uac = (code = "18x")]
  IN CASE x.status = "Connected" -> y
       [] code = "18x" -> [y EXCEPT !.status = "Ringing"]
       [] code = "2xx" -> [y EXCEPT !.status = "Connected"]
       [] OTHER -> Gone

(* Mutant: the other leg is not told when the call is not connected yet.   *)
TerminateLegSilent(l, c) ==
  /\ leg' = [leg EXCEPT ![l] = Gone]
  /\ q' = IF leg[l].status = "Connected" THEN Post(q, Peer(l), Terminate) ELSE q
  /\ ctx' = c

(* terminateLegOnReplyException.                                           *)
TerminateLeg(l, c) ==
  /\ leg' = [leg EXCEPT ![l] = Gone]
  /\ q' = LET e == Post(q, Peer(l), ErrorReply)
          IN IF leg[l].status = "Connected" THEN Post(e, Peer(l), Terminate) ELSE e
  /\ ctx' = c

Relay(l, x, code, sdp, c) ==
  /\ ctx' = c
  /\ leg' = [leg EXCEPT ![l] = AfterReply(x, code)]
  /\ q' = Post(q, Peer(l), [t |-> "reply", code |-> IF code = "fatal" THEN "err" ELSE code, sdp |-> sdp])

(* relayEvent: a reply of l's endpoint.                                    *)
Suppressed(l, code) == l = "B" /\ P.suppress /\ code = "18x"

RelayOffer(l, x, code, sdp) ==
  \E po \in {ProcessSdpOffer(P, l, sdp, ctx.neg[l], FALSE, P.single[l])} :
  \E fo \in {FilterSdpOffer(P, Peer(l), po.sdp, x.map)},
     c \in {[ctx EXCEPT !.neg[l] = po.sdp.media]} :
    CASE po.err # Ok -> TerminateLeg(l, ctx)
      [] fo.err # Ok -> TerminateLeg(l, c)
      [] OTHER -> Relay(l, [x EXCEPT !.map = fo.map], code, fo.sdp, c)

RelayAnswer(l, x, code, sdp) ==
  \E o \in {Peer(l)} :
  \E pa \in {ProcessSdpAnswer(P, o, sdp, ctx.neg[o], x.map, P.single[o],
                              x.oa = "OfferSent" /\ code = "2xx")} :
    IF pa.err # Ok THEN TerminateLeg(l, ctx)
    ELSE Relay(l, [x EXCEPT !.map = pa.map], code, pa.sdp, [ctx EXCEPT !.neg[o] = pa.neg])

RelayReply(l, code, sdp) ==
  \E x \in {DialogReply(leg[l], code, sdp)} :
    CASE leg[l].status = "Connected" /\ code = "fatal" -> TerminateLeg(l, ctx)
      [] Suppressed(l, code) -> Relay(l, x, code, NoSdp, ctx)
      [] x.oa = "OfferRecved" /\ sdp = NoSdp -> Relay(l, x, code, sdp, ctx)
      [] x.oa = "OfferRecved" /\ sdp # NoSdp -> RelayOffer(l, x, code, sdp)
      [] OTHER -> RelayAnswer(l, x, code, sdp)

(* What an endpoint answers to the offer it got: it takes the first        *)
(* payload of the audio streams or all but the first, and may decline      *)
(* other streams.  One that cannot count may drop a stream or change its   *)
(* type.                                                                   *)
Chosen(m, how) ==
  CASE m.port = 0 -> m
    [] ~IsAudio(m) -> IF how = "first" THEN [m EXCEPT !.port = 0] ELSE m
    [] how = "first" -> [m EXCEPT !.pl = SubSeq(@, 1, 1)]
    [] how = "rest" -> [m EXCEPT !.pl = IF Len(@) = 1 THEN @ ELSE SubSeq(@, 2, Len(@))]

AnswerDir(m) == IF m.dir = "sendonly" THEN "recvonly" ELSE m.dir

Conforming(o) ==
  {[o EXCEPT !.media = Each(@, LAMBDA m : [Chosen(m, how) EXCEPT !.dir = AnswerDir(m)])] :
     how \in {"first", "rest"}}

Careless(o) ==
  LET n == Len(o.media)
  IN {[o EXCEPT !.media[n].type = IF @ = "audio" THEN "video" ELSE "audio"]}
     \cup IF n > 1 THEN {[o EXCEPT !.media = SubSeq(@, 1, n - 1)]} ELSE {}

Answers(o) == Conforming(o) \cup IF P.rtprelay THEN Careless(o) ELSE {}

Bodies(l) == {NoSdp} \cup IF leg[l].got # NoSdp THEN Answers(leg[l].got) ELSE Offers

OnProvisional(l, sdp) ==
  /\ leg[l].uac /\ leg[l].status # "Connected"
  /\ used.early < MaxEarly
  /\ used' = [used EXCEPT !.early = @ + 1]
  /\ sdp = NoSdp \/ leg[l].got # NoSdp
  /\ RelayReply(l, "18x", sdp)

OnFinal(l) ==
  /\ leg[l].uac
  /\ \/ \E code \in {"err", "fatal"} : RelayReply(l, code, NoSdp)
     \/ \E sdp \in Bodies(l) : RelayReply(l, "2xx", sdp)
  /\ UNCHANGED used

-----------------------------------------------------------------------------
(* Events from the peer leg.                                               *)
Next1(l) == Head(q[l])
Pop(l) == [q EXCEPT ![l] = Tail(@)]

Event(l, t) == q[l] # << >> /\ Next1(l).t = t

(* CallLeg::onB2BConnect.                                                  *)
OnB2BConnect ==
  /\ Event("B", "connect")
  /\ leg' = [leg EXCEPT !.B = [Sent("B", @, Next1("B").sdp) EXCEPT !.status = "NoReply"]]
  /\ q' = Pop("B")
  /\ UNCHANGED <<ctx, used>>

(* A request relayed by the peer; a leg with one under way refuses it.     *)
OnB2BRequest(l) ==
  /\ Event(l, "request")
  /\ IF leg[l].status = "Gone"
     THEN leg' = leg /\ q' = Pop(l)
     ELSE IF Busy(leg[l])
     THEN leg' = leg /\ q' = Post(Pop(l), Peer(l), ErrorReply)
     ELSE leg' = [leg EXCEPT ![l] = Sent(l, @, Next1(l).sdp)] /\ q' = Pop(l)
  /\ UNCHANGED <<ctx, used>>

(* CallLeg::setOther: a new B leg's answer is accepted although another    *)
(* one's was sent.                                                         *)
SetOther(x) == IF x.status = "NoReply" /\ x.oa = "Completed"
               THEN [x EXCEPT !.oa = "OfferRecved"] ELSE x

Early(x) == x.status \in {"NoReply", "Ringing"}

(* CallLeg::onB2BReply, onInitialReply.                                    *)
OnB2BReply(l) ==
  LET e == Next1(l)
      x == leg[l]
  IN /\ Event(l, "reply")
     /\ ~(Early(x) /\ e.code = "err")
     /\ leg' = CASE ~x.uas -> leg
                 [] Early(x) -> [leg EXCEPT ![l] =
                      [Replied(l, SetOther(x), e.code, e.sdp) EXCEPT
                         !.status = IF e.code = "18x" THEN "Ringing" ELSE "Connected"]]
                 [] OTHER -> [leg EXCEPT ![l] = Replied(l, x, e.code, e.sdp)]
     /\ q' = Pop(l)
     /\ UNCHANGED <<ctx, used>>

(* CallLeg::b2bInitialErr: another route, or the end of the call.          *)
OnB2BInitialErr ==
  /\ Event("A", "reply")
  /\ Early(leg.A) /\ Next1("A").code = "err"
  /\ \/ RefuseCall(ctx, Tail(q.A)) /\ UNCHANGED used
     \/ /\ used.attempts < MaxAttempts
        /\ used' = [used EXCEPT !.attempts = @ + 1]
        /\ \E p \in Profiles : p.rtprelay = P.rtprelay /\ ConnectCalleeRequest(p)

OnB2BAck(l) ==
  /\ Event(l, "ack")
  /\ leg' = IF leg[l].status = "Gone" \/ leg[l].oa # "OfferRecved" \/ Next1(l).sdp = NoSdp THEN leg
            ELSE [leg EXCEPT ![l] = [OnSdpCompleted(@) EXCEPT !.answers = Append(@, Next1(l).sdp)]]
  /\ q' = Pop(l)
  /\ UNCHANGED <<ctx, used>>

OnTerminate(l) ==
  /\ Event(l, "terminate")
  /\ leg' = [leg EXCEPT ![l] = Gone]
  /\ q' = Pop(l)
  /\ UNCHANGED <<ctx, used>>

(* onBye and onCancel.                                                     *)
OnHangup(l) ==
  /\ leg[l].status = "Connected" \/ (l = "A" /\ Early(leg.A))
  /\ leg' = [leg EXCEPT ![l] = Gone]
  /\ q' = Post(q, Peer(l), Terminate)
  /\ UNCHANGED <<ctx, used>>

Handle(l) ==
  \/ OnB2BRequest(l)
  \/ OnB2BReply(l)
  \/ OnB2BAck(l)
  \/ OnTerminate(l)

Next ==
  \/ \E sdp \in Offers \cup {NoSdp} : OnInitialInvite(sdp)
  \/ OnB2BConnect
  \/ OnB2BInitialErr
  \/ \E l \in Legs :
       \/ Handle(l)
       \/ OnFinal(l)
       \/ \E sdp \in Bodies(l) : OnProvisional(l, sdp)
       \/ \E sdp \in Offers \cup {NoSdp} : OnReInvite(l, sdp)
       \/ \E sdp \in Offers : OnUpdate(l, sdp)
       \/ \E sdp \in Bodies(l) : OnAck(l, sdp)
       \/ OnHangup(l)

(* Every leg handles its events, every request to an endpoint ends (at the *)
(* latest by the transaction timeout of the SIP stack).                    *)
Fairness ==
  /\ WF_vars(OnB2BConnect) /\ WF_vars(OnB2BInitialErr)
  /\ \A l \in Legs : WF_vars(Handle(l)) /\ WF_vars(OnFinal(l))

Spec == Init /\ [][Next]_vars /\ Fairness

-----------------------------------------------------------------------------
(* An answer sent to an endpoint fits the offer it answers: the same       *)
(* streams in the same order and over the same transport, none that was    *)
(* offered disabled in use, and in every audio stream in use only payloads *)
(* of the offer, no number twice, and an address to send to.  The SBC cuts *)
(* streams and rewrites payloads on the way to the other leg and must undo *)
(* it (filterSdpAnswerMedia, fix_dynamic_payloads, normalize_conn_location).*)
Fits(answer, offer) ==
  LET a == answer.media
  IN /\ Len(a) = Len(offer)
     /\ \A i \in DOMAIN offer :
          /\ a[i].type = offer[i].type
          /\ offer[i].port = 0 => a[i].port = 0
          /\ IsAudio(a[i]) /\ a[i].port # 0 =>
               /\ a[i].tp = offer[i].tp
               /\ a[i].pl # << >>
               /\ Range(a[i].pl) \subseteq Range(offer[i].pl)
               /\ \A j, k \in DOMAIN a[i].pl : a[i].pl[j].id = a[i].pl[k].id => j = k
               /\ a[i].conn # NoConn \/ answer.conn # NoConn

AnswerFitsOffer ==
  \A l \in Legs : \A i \in DOMAIN leg[l].answers : Fits(leg[l].answers[i], leg[l].offered)

(* Where the SBC relays RTP: within one transaction a later answer, of the *)
(* same B leg or of the next route's, brings no payload the first one left *)
(* out: negotiated media is replaced by every answer (processSdpAnswer)    *)
(* and survives rerouting.                                                 *)
AnswerStable ==
  \A l \in Legs : LET as == leg[l].answers
                  IN ctx.prof.rtprelay => \A i \in DOMAIN as : \A s \in DOMAIN as[1].media :
                       IsAudio(as[1].media[s]) =>
                         Range(as[i].media[s].pl) \subseteq Range(as[1].media[s].pl)

(* Every INVITE or UPDATE of an endpoint gets a final reply, whatever the  *)
(* other endpoint answers and also when both send one at the same time.    *)
RequestAnswered == \A l \in Legs : leg[l].uas ~> ~leg[l].uas

(* "remote is on hold" (CallLeg.h): a leg whose on_hold is set has an      *)
(* endpoint that agreed to a hold.                                         *)
OnHoldTrue == \A l \in Legs : leg[l].onHold => leg[l].held
=============================================================================
