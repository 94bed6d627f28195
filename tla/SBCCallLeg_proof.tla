-------------------------- MODULE SBCCallLeg_proof --------------------------
(***************************************************************************)
(* Theorems about SBCCallLeg: for any number of profiles and legs and any  *)
(* answers of the services, the context's references count the legs that   *)
(* use it, a call holds resources of its current profile only, writes one  *)
(* last CDR, counts its attempts, reads no CDR it has written, and an error*)
(* reply ends the attempt it belongs to and no other.                      *)
(***************************************************************************)
EXTENDS SBCCallLeg, FiniteSetTheorems, SequenceTheorems, WellFoundedInduction, TLAPS

(* What the proofs need of the types: the legs and the context are records *)
(* with the declared fields.                                               *)
Shape ==
  /\ leg = [l \in AllLegs |-> leg[l]]
  /\ \A l \in AllLegs :
       /\ DOMAIN leg[l] = {"alive", "status", "ctx", "other", "prof"}
       /\ leg[l].ctx \in BOOLEAN
  /\ DOMAIN c = {"profiles", "cur", "cdr", "written"}

(* Before the first callee is called nothing is held and only the A leg    *)
(* has the context.                                                        *)
RoutingAlone ==
  stage # "none" =>
    /\ pc = "idle" /\ held = {}
    /\ leg[0].status = "Disconnected"
    /\ \A l \in Bs : ~leg[l].ctx

(* Inside the loop over rctl.get nothing is held; the A leg has the        *)
(* context there, and whenever it has a callee.                            *)
LoopAlone ==
  /\ pc # "idle" => held = {} /\ leg[0].ctx
  /\ leg[0].status # "Disconnected" => leg[0].ctx

(* Only existing sessions have the context.                                *)
NoGhost == \A l \in AllLegs : leg[l].alive \in {"none", "gone"} => ~leg[l].ctx

(* The inductive invariant.                                                *)
CallInv ==
  Shape /\ RoutingAlone /\ LoopAlone /\ NoGhost /\ CtxCounted /\ ResourcesOfOneAttempt

CtxLegs == {l \in AllLegs : leg[l].ctx}

(* The sets of legs are finite; the A leg is not a B leg.                  *)
LEMMA LegSets ==
  /\ 0 \in AllLegs /\ 0 \notin Bs /\ Bs \subseteq AllLegs
  /\ \A l \in AllLegs : l # 0 => l \in Bs
  /\ IsFiniteSet(AllLegs)
  /\ IsFiniteSet(CtxLegs) /\ Cardinality(CtxLegs) \in Nat
<1>1. MaxLegs \in Nat
  BY CallAssumption
<1>2. IsFiniteSet(AllLegs)
  BY <1>1, FS_Interval DEF AllLegs
<1>3. CtxLegs \in SUBSET AllLegs
  BY DEF CtxLegs
<1>4. IsFiniteSet(CtxLegs) /\ Cardinality(CtxLegs) \in Nat
  BY <1>2, <1>3, FS_Subset, FS_CardinalityType
<1> QED
  BY <1>1, <1>2, <1>4 DEF AllLegs, Bs

(* What most events leave alone.                                           *)
Quiet ==
  /\ Shape'
  /\ \A l \in AllLegs :
       /\ leg'[l].ctx = leg[l].ctx
       /\ leg'[l].alive \in {"none", "gone"} => leg[l].alive \in {"none", "gone"}
  /\ leg'[0].status # "Disconnected" => leg[0].status # "Disconnected"
  /\ UNCHANGED <<refs, ctx, pc>>
  /\ c'.cur = c.cur
  /\ held' \subseteq held
  /\ stage' = stage \/ stage # "none"

(* Such a step keeps the invariant.                                        *)
LEMMA QuietStep ==
  ASSUME CallInv, Quiet
  PROVE  CallInv'
<1>1. CtxLegs' = CtxLegs
  BY DEF Quiet, CtxLegs
<1>2. CtxCounted'
  BY <1>1 DEF CallInv, CtxCounted, Quiet, CtxLegs
<1>3. ResourcesOfOneAttempt'
  BY DEF CallInv, ResourcesOfOneAttempt, Quiet
<1>4. RoutingAlone'
  <2>1. \A l \in Bs : l \in AllLegs
    BY LegSets
  <2> QED
    BY <2>1 DEF CallInv, RoutingAlone, Quiet
<1>5. LoopAlone'
  BY LegSets DEF CallInv, LoopAlone, Quiet
<1>6. NoGhost'
  BY DEF CallInv, NoGhost, Quiet
<1> QED
  BY <1>2, <1>3, <1>4, <1>5, <1>6 DEF CallInv, Quiet

(* The context's record keeps its fields.                                  *)
LEMMA CtxFields ==
  ASSUME DOMAIN c = {"profiles", "cur", "cdr", "written"}
  PROVE  /\ \A last : /\ DOMAIN WriteCdr(c, last) = DOMAIN c
                      /\ WriteCdr(c, last).cur = c.cur
         /\ \A early, failover : DOMAIN GetNextProfile(c, early, failover).c = DOMAIN c
         /\ \A ps : DOMAIN GetFirstProfile(c, ps) = DOMAIN c
         /\ \A reply : DOMAIN PassSkipped(Resolve(c, reply)).c = DOMAIN c
<1>1. \A last : DOMAIN WriteCdr(c, last) = DOMAIN c /\ WriteCdr(c, last).cur = c.cur
  BY DEF WriteCdr
<1>2. \A early, failover : DOMAIN GetNextProfile(c, early, failover).c = DOMAIN c
  BY DEF GetNextProfile
<1>3. \A ps : DOMAIN GetFirstProfile(c, ps) = DOMAIN c
  BY DEF GetFirstProfile
<1>4. \A reply : DOMAIN PassSkipped(Resolve(c, reply)).c = DOMAIN c
  BY DEF PassSkipped, Resolve
<1> QED
  BY <1>1, <1>2, <1>3, <1>4

(* Events that neither route, nor get resources, nor end a leg are quiet.  *)
LEMMA QuietEvents ==
  ASSUME CallInv,
         \/ OnInvite \/ B2bInitial1xx \/ B2bInitial2xx
         \/ OnCancel \/ OnBye \/ OnTimerEvent
         \/ \E l \in AllLegs : LegEvent(l) \/ RemoveCall(l) \/ OnServerShutdown(l)
  PROVE  Quiet
<1> USE LegSets
<1>1. Shape
  BY DEF CallInv
<1>2. CASE OnInvite
  BY <1>1, <1>2 DEF OnInvite, Stopped, Quiet, Shape, loopVars
<1>3. CASE B2bInitial1xx
  BY <1>1, <1>3 DEF B2bInitial1xx, StopCall, Quiet, Shape, loopVars
<1>4. CASE B2bInitial2xx
  BY <1>1, <1>4 DEF B2bInitial2xx, StopCall, Quiet, Shape, loopVars
<1>5. CASE OnCancel
  BY <1>1, <1>5 DEF OnCancel, StopCall, Quiet, Shape, loopVars
<1>6. CASE OnBye
  BY <1>1, <1>6 DEF OnBye, Quiet, Shape, loopVars
<1>7. CASE OnTimerEvent
  BY <1>1, <1>7 DEF OnTimerEvent, StopCall, Quiet, Shape, loopVars
<1>8. ASSUME NEW l \in AllLegs, LegEvent(l) PROVE Quiet
  <2>1. CASE OnOtherBye(l)
    <3>1. DOMAIN c' = DOMAIN c /\ c'.cur = c.cur
      BY <1>1, <2>1, CtxFields DEF OnOtherBye, Shape
    <3> QED
      BY <1>1, <2>1, <3>1 DEF OnOtherBye, Quiet, Shape, loopVars
  <2>2. CASE OnTerminateLeg(l)
    BY <1>1, <2>2 DEF OnTerminateLeg, Stopped, Quiet, Shape, loopVars
  <2>3. CASE OnTearDown(l)
    BY <1>1, <2>3 DEF OnTearDown, StopCall, Quiet, Shape, loopVars
  <2> QED
    BY <1>8, <2>1, <2>2, <2>3 DEF LegEvent
<1>9. ASSUME NEW l \in AllLegs, RemoveCall(l) PROVE Quiet
  BY <1>1, <1>9 DEF RemoveCall, Quiet, Shape, loopVars
<1>10. ASSUME NEW l \in AllLegs, OnServerShutdown(l) PROVE Quiet
  BY <1>1, <1>10 DEF OnServerShutdown, Stopped, Quiet, Shape, loopVars
<1> QED
  BY <1>2, <1>3, <1>4, <1>5, <1>6, <1>7, <1>8, <1>9, <1>10

(* So are the events of a B leg, but for REFER.                            *)
LEMMA QuietCallee ==
  ASSUME CallInv, NEW l \in Bs, Callee(l), ~OnRefer(l)
  PROVE  Quiet
<1> USE LegSets
<1>1. Shape /\ l \in AllLegs /\ l # 0
  BY DEF CallInv
<1>2. CASE OnB2BConnect(l)
  BY <1>1, <1>2 DEF OnB2BConnect, Quiet, Shape, loopVars
<1>3. CASE OnSipReply(l)
  BY <1>1, <1>3 DEF OnSipReply, Quiet, Shape, loopVars
<1>4. CASE TerminateLegOnReplyException(l)
  BY <1>1, <1>4 DEF TerminateLegOnReplyException, Quiet, Shape, loopVars
<1>5. CASE OnException(l)
  BY <1>1, <1>5 DEF OnException, Stopped, Quiet, Shape, loopVars
<1>6. CASE OnCalleeBye(l)
  BY <1>1, <1>6 DEF OnCalleeBye, Quiet, Shape, loopVars
<1>7. CASE OnCalleeTimeout(l)
  BY <1>1, <1>7 DEF OnCalleeTimeout, Quiet, Shape, loopVars
<1> QED
  BY <1>2, <1>3, <1>4, <1>5, <1>6, <1>7 DEF Callee

(* Routing fails or refuses: only the A leg had the context, and drops it. *)
LEMMA DroppedStep ==
  ASSUME CallInv, stage = "cert" \/ stage = "db", CtxDropped,
         DOMAIN c' = DOMAIN c, UNCHANGED held
  PROVE  CallInv'
<1> USE LegSets
<1>1. /\ Shape /\ held = {} /\ pc = "idle" /\ leg[0].status = "Disconnected"
      /\ \A l \in Bs : ~leg[l].ctx
  BY DEF CallInv, RoutingAlone
<1>2. Shape' /\ leg'[0].status = "Disconnected" /\ \A l \in AllLegs : ~leg'[l].ctx
  BY <1>1 DEF CtxDropped, Shape
<1>3. CtxLegs' = {}
  BY <1>2 DEF CtxLegs
<1>4. CtxCounted'
  BY <1>2, <1>3, FS_EmptySet DEF CtxCounted, CtxDropped, CtxLegs
<1> QED
  BY <1>1, <1>2, <1>4
     DEF CallInv, CtxDropped, RoutingAlone, LoopAlone, NoGhost, ResourcesOfOneAttempt

(* The A leg is the one leg with the context after routing.                *)
LEMMA AloneStep ==
  ASSUME CallInv, stage # "none", Shape',
         leg'[0].ctx, leg'[0].alive \in {"run", "stopped"}, leg'[0].status = leg[0].status,
         \A l \in Bs : leg'[l] = leg[l],
         ctx' = "live", refs' = 1, UNCHANGED held,
         stage' # "none" => pc' = "idle"
  PROVE  CallInv'
<1> USE LegSets
<1>1. /\ held = {} /\ leg[0].status = "Disconnected"
      /\ \A l \in Bs : ~leg[l].ctx
  BY DEF CallInv, RoutingAlone
<1>2. CtxLegs' = {0}
  BY <1>1 DEF CtxLegs
<1>3. CtxCounted'
  BY <1>2, FS_Singleton DEF CtxCounted, CtxLegs
<1>4. RoutingAlone'
  BY <1>1 DEF RoutingAlone
<1> QED
  BY <1>1, <1>3, <1>4 DEF CallInv, LoopAlone, NoGhost, ResourcesOfOneAttempt

(* An answer with profiles, or a failed one, before the A leg dials.       *)
LEMMA ProfilesStep ==
  ASSUME CallInv, stage = "cert" \/ stage = "db", leg[0].alive \in {"run", "stopped"},
         NEW ps, NEW failed, OnProfilesReady(ps, failed), UNCHANGED held
  PROVE  CallInv'
<1> USE LegSets
<1>1. Shape /\ pc = "idle"
  BY DEF CallInv, RoutingAlone
<1>2. DOMAIN c' = DOMAIN c
  <2>1. DOMAIN GetFirstProfile(c, ps) = {"profiles", "cur", "cdr", "written"}
    BY <1>1, CtxFields DEF Shape
  <2>2. DOMAIN WriteCdr(GetFirstProfile(c, ps), TRUE) = DOMAIN GetFirstProfile(c, ps)
    BY <2>1 DEF WriteCdr
  <2>3. DOMAIN [GetFirstProfile(c, ps) EXCEPT !.cdr = NoCdr] = DOMAIN GetFirstProfile(c, ps)
    OBVIOUS
  <2> QED
    BY <1>1, <2>1, <2>2, <2>3 DEF OnProfilesReady, Shape
<1>3. CASE failed \/ ps[1].auth \/ ps[1].refuse
  BY <1>2, <1>3, DroppedStep DEF OnProfilesReady
<1>4. CASE ~(failed \/ ps[1].auth \/ ps[1].refuse)
  <2>1. /\ ctx' = "live" /\ refs' = 1
        /\ stage' # "none" => pc' = "idle"
    BY <1>1, <1>4 DEF OnProfilesReady, ProcessAorResolving
  <2>2. \/ leg' = [leg EXCEPT ![0].prof = 1, ![0].ctx = TRUE]
        \/ leg' = [leg EXCEPT ![0].prof = 1, ![0].ctx = TRUE, ![0].alive = "stopped"]
    BY <1>4 DEF OnProfilesReady
  <2>3. /\ Shape' /\ leg'[0].ctx /\ leg'[0].alive \in {"run", "stopped"}
        /\ leg'[0].status = leg[0].status /\ \A l \in Bs : leg'[l] = leg[l]
    <3>1. CASE leg' = [leg EXCEPT ![0].prof = 1, ![0].ctx = TRUE]
      BY <1>1, <1>2, <3>1 DEF Shape
    <3>2. CASE leg' = [leg EXCEPT ![0].prof = 1, ![0].ctx = TRUE, ![0].alive = "stopped"]
      BY <1>1, <1>2, <3>2 DEF Shape
    <3> QED
      BY <2>2, <3>1, <3>2
  <2> QED
    BY <2>1, <2>3, AloneStep
<1> QED
  BY <1>3, <1>4

(* The answers the A leg waits for.                                        *)
LEMMA AnswerStep ==
  ASSUME CallInv, OnIdentityReady \/ Answered
  PROVE  CallInv'
<1> USE LegSets
<1>1. Shape
  BY DEF CallInv
<1>2. CASE OnIdentityReady
  <2>1. CASE OnProfilesReady(FailedProfiles, TRUE)
    BY <1>2, <2>1, ProfilesStep DEF OnIdentityReady, Idle
  <2>2. CASE /\ ctx' = "live" /\ refs' = 1
             /\ leg' = [leg EXCEPT ![0].ctx = TRUE]
             /\ stage' = "db"
             /\ UNCHANGED <<c, pc, final>>
    <3>1. /\ Shape' /\ leg'[0].ctx /\ leg'[0].alive = leg[0].alive
          /\ leg'[0].status = leg[0].status /\ \A l \in Bs : leg'[l] = leg[l]
      BY <1>1, <2>2 DEF Shape
    <3>2. stage # "none" /\ pc = "idle" /\ leg[0].alive \in {"run", "stopped"} /\ held' = held
      BY <1>2 DEF OnIdentityReady, Idle
    <3> QED
      BY <2>2, <3>1, <3>2, AloneStep
  <2> QED
    BY <1>2, <2>1, <2>2 DEF OnIdentityReady
<1>3. CASE OnPostgresResponse
  BY <1>3, ProfilesStep DEF OnPostgresResponse, Idle
<1>4. CASE OnPostgresFailed
  BY <1>4, DroppedStep DEF OnPostgresFailed
<1>5. CASE OnRadiusReply
  <2>1. /\ stage # "none" /\ leg[0].ctx /\ leg[0].alive \in {"run", "stopped"}
        /\ pc = "idle" /\ UNCHANGED <<c, ctx, refs, held>>
    BY <1>5 DEF OnRadiusReply, Idle
  <2>2. ctx = "live" /\ refs = 1
    <3>1. CtxLegs = {0}
      BY <2>1 DEF CtxLegs, CallInv, RoutingAlone
    <3> QED
      BY <3>1, <2>1, FS_Singleton DEF CtxLegs, CallInv, CtxCounted
  <2>3. leg' = leg \/ leg' = Stopped(0)
    BY <1>5 DEF OnRadiusReply
  <2>4. /\ Shape' /\ leg'[0].ctx /\ leg'[0].alive \in {"run", "stopped"}
        /\ leg'[0].status = leg[0].status /\ \A l \in Bs : leg'[l] = leg[l]
    BY <1>1, <2>1, <2>3 DEF Shape, Stopped
  <2>5. stage' # "none" => pc' = "idle"
    BY <1>5, <2>1 DEF OnRadiusReply, ProcessAorResolving
  <2> QED
    BY <2>1, <2>2, <2>4, <2>5, AloneStep
<1>6. CASE OnRedisReply
  <2>1. /\ stage # "none" /\ leg[0].ctx /\ leg[0].alive \in {"run", "stopped"}
        /\ stage' = "none" /\ UNCHANGED <<ctx, refs, held>>
    BY <1>6 DEF OnRedisReply, Idle
  <2>2. ctx = "live" /\ refs = 1
    <3>1. CtxLegs = {0}
      BY <2>1 DEF CtxLegs, CallInv, RoutingAlone
    <3> QED
      BY <3>1, <2>1, FS_Singleton DEF CtxLegs, CallInv, CtxCounted
  <2>3. leg' = leg \/ leg' = Stopped(0)
    BY <1>6 DEF OnRedisReply
  <2>4. DOMAIN c' = DOMAIN c
    BY <1>1, <1>6, CtxFields DEF OnRedisReply, Shape
  <2>5. /\ Shape' /\ leg'[0].ctx /\ leg'[0].alive \in {"run", "stopped"}
        /\ leg'[0].status = leg[0].status /\ \A l \in Bs : leg'[l] = leg[l]
    BY <1>1, <2>1, <2>3, <2>4 DEF Shape, Stopped
  <2> QED
    BY <2>1, <2>2, <2>5, AloneStep
<1> QED
  BY <1>2, <1>3, <1>4, <1>5, <1>6 DEF Answered

(* A new B leg is counted.                                                 *)
LEMMA ConnectStep ==
  ASSUME CallInv, pc # "idle", pc' = "idle",
         ConnectCallee(q, [leg EXCEPT ![0].prof = c.cur]),
         held' \subseteq {c.cur}, UNCHANGED <<c, ctx, stage>>
  PROVE  CallInv'
<1> USE LegSets
<1>1. /\ Shape /\ leg[0].ctx /\ stage = "none" /\ ctx = "live"
      /\ refs = Cardinality(CtxLegs)
  BY DEF CallInv, LoopAlone, RoutingAlone, CtxCounted, CtxLegs
<1>2. PICK i \in Bs :
        /\ leg[i].alive = "none"
        /\ leg' = [[leg EXCEPT ![0].prof = c.cur] EXCEPT
                     ![i] = [alive |-> "run", status |-> "Disconnected", ctx |-> TRUE, other |-> 0,
                             prof |-> [leg EXCEPT ![0].prof = c.cur][0].prof],
                     ![0].status = IF @ = "Disconnected" THEN "NoReply" ELSE @]
        /\ refs' = refs + 1
  BY DEF ConnectCallee, NewBLeg
<1>3. i \in AllLegs /\ i # 0 /\ i \notin CtxLegs
  BY <1>2 DEF CallInv, NoGhost, CtxLegs
<1>4. /\ Shape'
      /\ leg'[i].ctx /\ leg'[i].alive = "run"
      /\ \A l \in AllLegs \ {i} : leg'[l].ctx = leg[l].ctx /\ leg'[l].alive = leg[l].alive
  BY <1>1, <1>2, <1>3 DEF Shape
<1>5. CtxLegs' = CtxLegs \cup {i}
  BY <1>3, <1>4 DEF CtxLegs
<1>6. Cardinality(CtxLegs') = Cardinality(CtxLegs) + 1
  BY <1>3, <1>5, FS_AddElement
<1>7. CtxCounted'
  BY <1>1, <1>2, <1>6 DEF CtxCounted, CtxLegs
<1>8. NoGhost'
  BY <1>3, <1>4 DEF CallInv, NoGhost
<1> QED
  BY <1>1, <1>3, <1>4, <1>7, <1>8
     DEF CallInv, RoutingAlone, LoopAlone, ResourcesOfOneAttempt

(* The loop goes on, or ends without a new B leg: nothing is held.         *)
LEMMA LoopStep ==
  ASSUME CallInv, pc # "idle" \/ leg[0].status # "Disconnected", Shape',
         \A l \in AllLegs : leg'[l].ctx = leg[l].ctx /\ leg'[l].alive \in {leg[l].alive, "stopped"},
         held' = {}, UNCHANGED <<refs, ctx, stage>>
  PROVE  CallInv'
<1> USE LegSets
<1>1. leg[0].ctx /\ stage = "none" /\ ctx = "live"
  BY DEF CallInv, LoopAlone, RoutingAlone, CtxCounted
<1>2. CtxLegs' = CtxLegs
  BY DEF CtxLegs
<1>3. CtxCounted'
  BY <1>2 DEF CallInv, CtxCounted, CtxLegs
<1>4. NoGhost'
  BY DEF CallInv, NoGhost
<1> QED
  BY <1>1, <1>3, <1>4 DEF CallInv, RoutingAlone, LoopAlone, ResourcesOfOneAttempt

(* The loop ends without a new B leg, with the resources it took.          *)
LEMMA KeptStep ==
  ASSUME CallInv, pc # "idle", pc' = "idle", Shape',
         \A l \in AllLegs : leg'[l].ctx = leg[l].ctx /\ leg'[l].alive \in {leg[l].alive, "stopped"},
         held' \subseteq {c.cur}, UNCHANGED <<c, refs, ctx, stage>>
  PROVE  CallInv'
<1> USE LegSets
<1>1. leg[0].ctx /\ stage = "none" /\ ctx = "live"
  BY DEF CallInv, LoopAlone, RoutingAlone, CtxCounted
<1>2. CtxLegs' = CtxLegs
  BY DEF CtxLegs
<1>3. CtxCounted'
  BY <1>2 DEF CallInv, CtxCounted, CtxLegs
<1>4. NoGhost'
  BY DEF CallInv, NoGhost
<1> QED
  BY <1>1, <1>3, <1>4 DEF CallInv, RoutingAlone, LoopAlone, ResourcesOfOneAttempt

(* One rctl.get for an early profile, and what follows it.                 *)
LEMMA FirstLoopStep ==
  ASSUME CallInv, ProcessResourcesAndSdp
  PROVE  CallInv'
<1> USE LegSets
<1>1. Shape /\ held = {} /\ pc # "idle" /\ UNCHANGED <<ctx, stage>>
  BY DEF CallInv, LoopAlone, ProcessResourcesAndSdp
<1> DEFINE lg == [leg EXCEPT ![0].prof = c.cur]
           r  == GetNextProfile(c, TRUE, FALSE)
<1>2. ASSUME NEW answer, OnRoutingReady(lg, Taken(answer)), pc' = "idle", UNCHANGED c
      PROVE  CallInv'
  <2>1. Taken(answer) \subseteq {c.cur}
    BY <1>1 DEF Taken
  <2>2. CASE ConnectCallee(q, lg) /\ held' = Taken(answer)
    BY <1>1, <1>2, <2>1, <2>2, ConnectStep
  <2>3. CASE /\ leg' = [lg EXCEPT ![0].alive = "stopped"]
             /\ held' = Taken(answer) \ {c.cur}
             /\ UNCHANGED <<refs, q, others>>
    <3>1. held' = {}
      BY <2>1, <2>3
    <3>2. Shape' /\ \A l \in AllLegs : /\ leg'[l].ctx = leg[l].ctx
                                        /\ leg'[l].alive \in {leg[l].alive, "stopped"}
      <4>1. leg' = [leg EXCEPT ![0].prof = c.cur, ![0].alive = "stopped"]
        BY <1>1, <2>3 DEF Shape
      <4> QED
        BY <1>1, <1>2, <4>1 DEF Shape
    <3> QED
      BY <1>1, <2>3, <3>1, <3>2, LoopStep
  <2> QED
    BY <1>2, <2>2, <2>3 DEF OnRoutingReady
<1>3. ASSUME leg' = leg \/ leg' = Stopped(0), c' = c \/ c' = r.c, UNCHANGED <<refs, held>>
      PROVE  CallInv'
  <2>1. DOMAIN c' = DOMAIN c
    <3>1. DOMAIN r.c = DOMAIN c
      BY <1>1, CtxFields DEF Shape
    <3> QED
      BY <1>3, <3>1
  <2>2. Shape' /\ \A l \in AllLegs : /\ leg'[l].ctx = leg[l].ctx
                                      /\ leg'[l].alive \in {leg[l].alive, "stopped"}
    BY <1>1, <1>3, <2>1 DEF Shape, Stopped
  <2> QED
    BY <1>1, <1>3, <2>2, LoopStep
<1> QED
  BY <1>2, <1>3 DEF ProcessResourcesAndSdp

(* The same while hunting.                                                 *)
LEMMA NextLoopStep ==
  ASSUME CallInv, ChooseNextProfile
  PROVE  CallInv'
<1> USE LegSets
<1>1. Shape /\ held = {} /\ pc # "idle" /\ UNCHANGED <<ctx, stage>>
  BY DEF CallInv, LoopAlone, ChooseNextProfile
<1> DEFINE lg == [leg EXCEPT ![0].prof = c.cur]
           r  == GetNextProfile(c, FALSE, TRUE)
<1>2. ASSUME NEW answer, ConnectCalleeRequest(lg), held' = Taken(answer), pc' = "idle", UNCHANGED c
      PROVE  CallInv'
  <2>1. Taken(answer) \subseteq {c.cur}
    BY <1>1 DEF Taken
  <2>2. CASE ConnectCallee(q, lg)
    BY <1>1, <1>2, <2>1, <2>2, ConnectStep
  <2>3. CASE leg' = [lg EXCEPT ![0].alive = "stopped"] /\ UNCHANGED <<refs, q, others>>
    <3>1. /\ Shape' /\ leg'[0].status = leg[0].status
          /\ \A l \in AllLegs : /\ leg'[l].ctx = leg[l].ctx
                                 /\ leg'[l].alive \in {leg[l].alive, "stopped"}
      BY <1>1, <1>2, <2>3 DEF Shape
    <3> QED
      BY <1>1, <1>2, <2>1, <2>3, <3>1, KeptStep
  <2> QED
    BY <1>2, <2>2, <2>3 DEF ConnectCalleeRequest
<1>3. ASSUME leg' = leg \/ leg' = [leg EXCEPT ![0].alive = "stopped", ![0].status = "Disconnected"],
             c' = c \/ c' = r.c, UNCHANGED <<refs, held>>
      PROVE  CallInv'
  <2>1. DOMAIN c' = DOMAIN c
    <3>1. DOMAIN r.c = DOMAIN c
      BY <1>1, CtxFields DEF Shape
    <3> QED
      BY <1>3, <3>1
  <2>2. Shape' /\ \A l \in AllLegs : /\ leg'[l].ctx = leg[l].ctx
                                      /\ leg'[l].alive \in {leg[l].alive, "stopped"}
    BY <1>1, <1>3, <2>1 DEF Shape
  <2> QED
    BY <1>1, <1>3, <2>2, LoopStep
<1> QED
  BY <1>2, <1>3 DEF ChooseNextProfile, NoMoreLegs

(* A B leg's error: the attempt's resources go back before the next one.   *)
LEMMA ErrorStep ==
  ASSUME CallInv, B2bInitialErr
  PROVE  CallInv'
<1> USE LegSets
<1> DEFINE l    == Head(q[0]).from
           left == others \ {l}
           lg   == [leg EXCEPT ![0].status = "NoReply", ![0].other = IF @ = l THEN None ELSE @]
           r    == GetNextProfile(c, FALSE, FALSE)
<1>1. Shape /\ held \subseteq {c.cur} /\ pc = "idle" /\ UNCHANGED <<ctx, refs, stage>>
  BY DEF CallInv, ResourcesOfOneAttempt, B2bInitialErr, Received, Idle
<1>2. CASE UNCHANGED <<c, leg, pc, held>>
  BY <1>1, <1>2, QuietStep DEF Quiet, Shape
<1>3. CASE leg[0].status \in {"NoReply", "Ringing"} /\ OnBLegRefused(lg, Popped(0), left)
  <2>1. leg' = lg \/ leg' = [lg EXCEPT ![0].alive = "stopped", ![0].status = "Disconnected"]
    BY <1>3 DEF OnBLegRefused, NoMoreLegs
  <2>2. DOMAIN c' = DOMAIN c
    <3>1. DOMAIN r.c = DOMAIN c
      BY <1>1, CtxFields DEF Shape
    <3>2. c' = c \/ c' = r.c
      BY <1>3 DEF OnBLegRefused
    <3> QED
      BY <3>1, <3>2
  <2>3. Shape' /\ \A k \in AllLegs : /\ leg'[k].ctx = leg[k].ctx
                                      /\ leg'[k].alive \in {leg[k].alive, "stopped"}
    BY <1>1, <2>1, <2>2 DEF Shape
  <2>4. CASE held' = held \ {c.cur}
    BY <1>1, <1>3, <2>3, <2>4, LoopStep
  <2>5. CASE UNCHANGED <<c, pc, held>>
    BY <1>1, <1>3, <2>3, <2>5, QuietStep DEF Quiet
  <2> QED
    BY <1>3, <2>4, <2>5 DEF OnBLegRefused
<1> QED
  BY <1>2, <1>3 DEF B2bInitialErr

(* A leg gives up the context: one reference less.                         *)
LEMMA OneLess ==
  ASSUME CallInv, NEW l \in AllLegs, leg[l].ctx, ~leg'[l].ctx, refs' = refs - 1,
         \A k \in AllLegs \ {l} : leg'[k].ctx = leg[k].ctx
  PROVE  /\ refs' = Cardinality({k \in AllLegs : leg'[k].ctx})
         /\ refs' \in Nat /\ refs > 0
         /\ refs' = 0 => \A k \in AllLegs : ~leg'[k].ctx
<1> USE LegSets
<1>1. refs = Cardinality(CtxLegs) /\ l \in CtxLegs
  BY DEF CallInv, CtxCounted, CtxLegs
<1>2. {k \in AllLegs : leg'[k].ctx} = CtxLegs \ {l}
  BY DEF CtxLegs
<1>3. IsFiniteSet(CtxLegs \ {l}) /\ Cardinality(CtxLegs \ {l}) = Cardinality(CtxLegs) - 1
  BY <1>1, FS_RemoveElement
<1>4. Cardinality(CtxLegs \ {l}) \in Nat
  BY <1>3, FS_CardinalityType
<1>5. Cardinality(CtxLegs \ {l}) = 0 => CtxLegs \ {l} = {}
  BY <1>3, FS_EmptySet
<1>6. refs' = Cardinality(CtxLegs \ {l}) /\ refs' \in Nat /\ refs > 0
  BY <1>1, <1>3, <1>4
<1>7. refs' = 0 => \A k \in AllLegs : ~leg'[k].ctx
  BY <1>2, <1>5, <1>6
<1> QED
  BY <1>2, <1>6, <1>7

(* REFER: the B leg leaves the call.                                       *)
LEMMA ReferStep ==
  ASSUME CallInv, NEW l \in Bs, OnRefer(l)
  PROVE  CallInv'
<1> USE LegSets
<1>1. /\ Shape /\ l \in AllLegs /\ l # 0 /\ leg[l].ctx /\ pc = "idle"
      /\ refs' = refs - 1
      /\ leg' = [leg EXCEPT ![l].ctx = FALSE, ![l].other = None]
      /\ UNCHANGED <<c, ctx, stage, pc, held>>
  BY DEF CallInv, OnRefer, Idle, loopVars
<1>2. /\ Shape' /\ ~leg'[l].ctx /\ leg'[0] = leg[0]
      /\ \A k \in AllLegs \ {l} : leg'[k] = leg[k]
  BY <1>1 DEF Shape
<1>3. refs' = Cardinality({k \in AllLegs : leg'[k].ctx})
  BY <1>1, <1>2, OneLess
<1>4. CtxCounted'
  BY <1>1, <1>2, <1>3 DEF CallInv, CtxCounted
<1> QED
  BY <1>1, <1>2, <1>4
     DEF CallInv, RoutingAlone, LoopAlone, NoGhost, ResourcesOfOneAttempt

(* A leg is destroyed; with the last one the context and all it holds.     *)
LEMMA DestroyStep ==
  ASSUME CallInv, NEW l \in AllLegs, OnBeforeDestroy(l)
  PROVE  CallInv'
<1> USE LegSets
<1>1. /\ Shape /\ pc = "idle" /\ held \subseteq {c.cur}
      /\ leg' = [leg EXCEPT ![l] = [NoLeg EXCEPT !.alive = "gone"]]
      /\ UNCHANGED <<stage, pc>>
  BY DEF CallInv, ResourcesOfOneAttempt, OnBeforeDestroy, Idle, loopVars
<1>2. DOMAIN c' = DOMAIN c /\ c'.cur = c.cur
  BY <1>1, CtxFields DEF OnBeforeDestroy, Shape
<1>3. /\ Shape' /\ ~leg'[l].ctx /\ leg'[l].status = "Disconnected"
      /\ \A k \in AllLegs \ {l} : leg'[k] = leg[k]
  BY <1>1, <1>2 DEF Shape, NoLeg
<1>4. RoutingAlone' /\ LoopAlone' /\ NoGhost'
  <2>1. held' \subseteq held
    BY DEF OnBeforeDestroy
  <2> QED
    BY <1>1, <1>3, <2>1 DEF CallInv, RoutingAlone, LoopAlone, NoGhost
<1>5. CASE ~leg[l].ctx
  <2>1. CtxLegs' = CtxLegs
    BY <1>3, <1>5 DEF CtxLegs
  <2>2. UNCHANGED <<refs, ctx, held>>
    BY <1>5 DEF OnBeforeDestroy
  <2>3. CtxCounted'
    BY <1>3, <1>5, <2>1, <2>2 DEF CallInv, CtxCounted, CtxLegs
  <2> QED
    BY <1>2, <1>3, <1>4, <2>2, <2>3 DEF CallInv, ResourcesOfOneAttempt
<1>6. CASE leg[l].ctx
  <2>1. refs \in Nat /\ refs > 0
    <3>1. CtxLegs # {} /\ refs = Cardinality(CtxLegs)
      BY <1>6 DEF CallInv, CtxCounted, CtxLegs
    <3> QED
      BY <3>1, FS_EmptySet
  <2>2. refs' = refs - 1
    BY <1>6, <2>1 DEF OnBeforeDestroy
  <2>3. /\ refs' = Cardinality({k \in AllLegs : leg'[k].ctx})
        /\ refs' = 0 => \A k \in AllLegs : ~leg'[k].ctx
    BY <1>3, <1>6, <2>2, OneLess
  <2>4. IF refs' = 0 THEN ctx' = "deleted" /\ held' = held \ {c.cur}
                     ELSE UNCHANGED <<ctx, held>>
    BY <1>6 DEF OnBeforeDestroy
  <2>5. CtxCounted'
    BY <1>3, <2>3, <2>4 DEF CallInv, CtxCounted
  <2>6. ResourcesOfOneAttempt'
    BY <1>1, <1>2, <2>4 DEF CallInv, ResourcesOfOneAttempt
  <2> QED
    BY <1>3, <1>4, <2>5, <2>6 DEF CallInv
<1> QED
  BY <1>5, <1>6

(* The invariant holds initially and is kept by every step.                *)
LEMMA CallInductive ==
  /\ Init => CallInv
  /\ CallInv /\ [Next]_vars => CallInv'
<1> USE LegSets
<1>1. Init => CallInv
  <2> SUFFICES ASSUME Init PROVE CallInv
    OBVIOUS
  <2>1. Shape /\ \A l \in AllLegs : ~leg[l].ctx /\ leg[l].status = "Disconnected"
    BY DEF Init, Shape, NoLeg, NewCtx
  <2>2. CtxLegs = {}
    BY <2>1 DEF CtxLegs
  <2>3. CtxCounted
    BY <2>1, <2>2, FS_EmptySet DEF CtxCounted, CtxLegs, Init
  <2> QED
    BY <2>1, <2>3
       DEF Init, CallInv, RoutingAlone, LoopAlone, NoGhost, ResourcesOfOneAttempt
<1>2. ASSUME CallInv, [Next]_vars PROVE CallInv'
  <2>1. CASE UNCHANGED vars
    BY <1>2, <2>1, QuietStep DEF Quiet, Shape, CallInv, vars, loopVars
  <2>2. CASE \/ OnInvite \/ B2bInitial1xx \/ B2bInitial2xx
             \/ OnCancel \/ OnBye \/ OnTimerEvent
             \/ \E l \in AllLegs : LegEvent(l) \/ RemoveCall(l) \/ OnServerShutdown(l)
    BY <1>2, <2>2, QuietEvents, QuietStep
  <2>3. CASE OnIdentityReady \/ Answered
    BY <1>2, <2>3, AnswerStep
  <2>4. CASE ProcessResourcesAndSdp \/ ChooseNextProfile
    BY <1>2, <2>4, FirstLoopStep, NextLoopStep
  <2>5. CASE B2bInitialErr
    BY <1>2, <2>5, ErrorStep
  <2>6. ASSUME NEW l \in AllLegs, OnBeforeDestroy(l) PROVE CallInv'
    BY <1>2, <2>6, DestroyStep
  <2>7. ASSUME NEW l \in Bs, Callee(l) PROVE CallInv'
    BY <1>2, <2>7, ReferStep, QuietCallee, QuietStep
  <2>8. CASE Terminated
    BY <2>1, <2>8 DEF Terminated
  <2> QED
    BY <1>2, <2>1, <2>2, <2>3, <2>4, <2>5, <2>6, <2>7, <2>8 DEF Next, ALegEvent
<1> QED
  BY <1>1, <1>2

(* The context is deleted neither while a leg uses it nor left without one *)
(* that would: references equals the number of legs that have it, for any  *)
(* number of attempts and any order of hang-ups, REFERs and destructions   *)
(* (onBeforeDestroy, connectCallee, onSipRequest).                         *)
THEOREM ReferencesCountLegs == Spec => []CtxCounted
<1>1. CallInv => CtxCounted
  BY DEF CallInv
<1> QED
  BY <1>1, CallInductive, PTL DEF Spec

(* Whatever profiles are tried and however each attempt ends, resources    *)
(* are held for the current profile only, and for none once the context is *)
(* deleted (onBLegRefused, processResourcesAndSdp, onBeforeDestroy).       *)
THEOREM OneAttemptHolds == Spec => []ResourcesOfOneAttempt
<1>1. CallInv => ResourcesOfOneAttempt
  BY DEF CallInv
<1> QED
  BY <1>1, CallInductive, PTL DEF Spec

-----------------------------------------------------------------------------
(* Every nonempty set of numbers has a smallest one: induction over data,  *)
(* stated for sets.                                                        *)
LEMMA Smallest ==
  ASSUME NEW T \in SUBSET Nat, T # {}
  PROVE  \E x \in T : \A y \in T : x <= y
<1> DEFINE R == {ss \in Nat \X Nat : ss[1] < ss[2]}
<1>1. IsWellFoundedOn(R, Nat)
  BY NatLessThanWellFounded DEF OpToRel
<1>2. \E x \in T : \A y \in T : ~(<<y, x>> \in R)
  <2> HIDE DEF R
  <2> QED
    BY <1>1, WFMin
<1>3. PICK x \in T : \A y \in T : ~(<<y, x>> \in R)
  BY <1>2
<1>4. \A y \in T : ~(y < x)
  BY <1>3
<1> QED
  BY <1>4

(* The skipped profiles from i on end somewhere.                           *)
LEMMA FirstUnskippedIs ==
  ASSUME NEW ps \in Seq(Profile), NEW i \in 1..(Len(ps) + 1)
  PROVE  LET n == FirstUnskipped(ps, i)
         IN  /\ n \in i..(Len(ps) + 1)
             /\ n > Len(ps) \/ ~ps[n].skip
             /\ \A j \in i..(n - 1) : ps[j].skip
<1> DEFINE T == {n \in i..(Len(ps) + 1) : n > Len(ps) \/ ~ps[n].skip}
           P(n) == /\ n > Len(ps) \/ ~ps[n].skip
                   /\ \A j \in i..(n - 1) : ps[j].skip
<1>1. Len(ps) \in Nat /\ i \in Nat /\ Len(ps) + 1 \in T /\ T \subseteq Nat
  OBVIOUS
<1>2. PICK n \in T : \A m \in T : n <= m
  BY <1>1, Smallest
<1>3. n \in i..(Len(ps) + 1) /\ (n > Len(ps) \/ ~ps[n].skip)
  BY <1>2
<1>4. ASSUME NEW j \in i..(n - 1) PROVE ps[j].skip
  <2>1. j \notin T
    BY <1>1, <1>2, <1>3, <1>4
  <2> QED
    BY <1>1, <1>3, <1>4, <2>1
<1>5. \E m \in i..(Len(ps) + 1) : P(m)
  BY <1>3, <1>4
<1>6. FirstUnskipped(ps, i) = CHOOSE m \in i..(Len(ps) + 1) : P(m)
  BY DEF FirstUnskipped
<1>7. FirstUnskipped(ps, i) \in i..(Len(ps) + 1) /\ P(FirstUnskipped(ps, i))
  <2> HIDE DEF P
  <2> QED
    BY <1>5, <1>6
<1> QED
  BY <1>7

(* The function that FlattenSeq builds up exists, so FlattenSeq of         *)
(* sequences is a sequence, and not empty when they are not.               *)
LEMMA FlattenType ==
  ASSUME NEW S, NEW seqs \in Seq(Seq(S))
  PROVE  /\ FlattenSeq(seqs) \in Seq(S)
         /\ (seqs # << >> /\ \A i \in DOMAIN seqs : seqs[i] # << >>) => FlattenSeq(seqs) # << >>
<1> DEFINE L == Len(seqs)
           Def(f) == [i \in 1..L |-> IF i = 1 THEN seqs[i] ELSE f[i - 1] \o seqs[i]]
           Upto(n) == \E g \in [1..n -> Seq(S)] :
                        \A i \in 1..n : g[i] = IF i = 1 THEN seqs[i] ELSE g[i - 1] \o seqs[i]
<1>0. L \in Nat /\ \A i \in 1..L : seqs[i] \in Seq(S)
  OBVIOUS
<1>1. CASE L = 0
  <2>1. seqs = << >>
    BY <1>1
  <2> QED
    BY <1>1, <2>1 DEF FlattenSeq
<1>2. CASE L # 0
  <2>1. ASSUME NEW n \in 1..L PROVE Upto(n)
    <3> DEFINE T == {m \in 1..L : ~Upto(m)}
    <3>1. SUFFICES ASSUME T # {} PROVE FALSE
      BY <2>1
    <3>2. T \subseteq Nat
      BY <1>0
    <3>3. PICK m \in T : \A k \in T : m <= k
      <4> HIDE DEF T
      <4> QED
        BY <3>1, <3>2, Smallest
    <3>4. m \in 1..L /\ ~Upto(m)
      BY <3>3
    <3>5. CASE m = 1
      <4>1. [i \in 1..m |-> seqs[i]] \in [1..m -> Seq(S)]
        BY <1>0, <3>4
      <4>2. \A i \in 1..m : i = 1
        BY <3>5
      <4> QED
        BY <3>4, <4>1, <4>2
    <3>6. CASE m # 1
      <4>1. m - 1 \in 1..L
        BY <1>0, <3>4, <3>6
      <4>2. m - 1 \notin T
        <5>1. ~(m <= m - 1)
          BY <1>0, <3>4
        <5> HIDE DEF T
        <5> QED
          BY <3>3, <5>1
      <4>3. Upto(m - 1)
        BY <4>1, <4>2
      <4>4. PICK g \in [1..(m - 1) -> Seq(S)] :
              \A i \in 1..(m - 1) : g[i] = IF i = 1 THEN seqs[i] ELSE g[i - 1] \o seqs[i]
        BY <4>3
      <4> DEFINE h == [i \in 1..m |-> IF i = m THEN g[m - 1] \o seqs[m] ELSE g[i]]
      <4>5. g[m - 1] \in Seq(S) /\ seqs[m] \in Seq(S)
        BY <1>0, <3>4, <3>6
      <4>6. g[m - 1] \o seqs[m] \in Seq(S)
        BY <4>5
      <4>7. \A i \in 1..m : i # m => i \in 1..(m - 1)
        BY <1>0, <3>4
      <4>8. h \in [1..m -> Seq(S)]
        BY <4>6, <4>7
      <4>9. \A i \in 1..m : h[i] = IF i = 1 THEN seqs[i] ELSE h[i - 1] \o seqs[i]
        <5> SUFFICES ASSUME NEW i \in 1..m
                     PROVE  h[i] = IF i = 1 THEN seqs[i] ELSE h[i - 1] \o seqs[i]
          OBVIOUS
        <5>1. CASE i = m
          <6>1. m - 1 \in 1..m /\ m - 1 # m
            BY <1>0, <3>4, <3>6
          <6> QED
            BY <3>6, <5>1, <6>1
        <5>2. CASE i # m
          <6>1. i \in 1..(m - 1) /\ h[i] = g[i]
            BY <4>7, <5>2
          <6>2. i # 1 => i - 1 \in 1..m /\ i - 1 # m /\ h[i - 1] = g[i - 1]
            BY <1>0, <3>4, <6>1
          <6> QED
            BY <4>4, <6>1, <6>2
        <5> QED
          BY <5>1, <5>2
      <4> HIDE DEF h
      <4> QED
        BY <3>4, <4>8, <4>9
    <3> QED
      BY <3>5, <3>6
  <2>2. L \in 1..L
    BY <1>0, <1>2
  <2>3. PICK g \in [1..L -> Seq(S)] :
          \A i \in 1..L : g[i] = IF i = 1 THEN seqs[i] ELSE g[i - 1] \o seqs[i]
    BY <2>1, <2>2
  <2>4. g = Def(g)
    BY <2>3
  <2> DEFINE f == CHOOSE ff : ff = Def(ff)
  <2>5. f = Def(f)
    <3> HIDE DEF Def
    <3> QED
      BY <2>4
  <2>6. FlattenSeq(seqs) = f[L]
    BY <1>2 DEF FlattenSeq
  <2>7. \A i \in 1..L : f[i] = IF i = 1 THEN seqs[i] ELSE f[i - 1] \o seqs[i]
    <3> HIDE DEF f
    <3> QED
      BY <2>5
  <2> HIDE DEF f
  <2>8. ASSUME NEW n \in 1..L PROVE f[n] \in Seq(S)
    <3> DEFINE T == {m \in 1..L : f[m] \notin Seq(S)}
    <3>1. SUFFICES ASSUME T # {} PROVE FALSE
      BY <2>8
    <3>2. T \subseteq Nat
      BY <1>0
    <3>3. PICK m \in T : \A k \in T : m <= k
      <4> HIDE DEF T
      <4> QED
        BY <3>1, <3>2, Smallest
    <3>4. m \in 1..L /\ f[m] \notin Seq(S)
      BY <3>3
    <3>a. m # 1
      <4>1. ASSUME m = 1 PROVE FALSE
        <5>1. f[m] = seqs[m]
          BY <2>7, <3>4, <4>1
        <5> QED
          BY <1>0, <3>4, <5>1
      <4> QED
        BY <4>1
    <3>5. m - 1 \in 1..L
      BY <1>0, <3>4, <3>a
    <3>6. m - 1 \notin T
      <4>1. ~(m <= m - 1)
        BY <1>0, <3>4
      <4> HIDE DEF T
      <4> QED
        BY <3>3, <4>1
    <3>7. f[m - 1] \in Seq(S)
      BY <3>5, <3>6
    <3>8. f[m] = f[m - 1] \o seqs[m]
      BY <2>7, <3>4, <3>a
    <3>9. f[m - 1] \o seqs[m] \in Seq(S)
      BY <1>0, <3>4, <3>7
    <3> QED
      BY <3>4, <3>8, <3>9
  <2>9. ASSUME \A i \in DOMAIN seqs : seqs[i] # << >> PROVE f[L] # << >>
    <3>0. DOMAIN seqs = 1..L
      OBVIOUS
    <3> HIDE DEF L
    <3>1. seqs[L] # << >> /\ seqs[L] \in Seq(S) /\ f[L] = IF L = 1 THEN seqs[L] ELSE f[L - 1] \o seqs[L]
      BY <1>0, <2>2, <2>7, <2>9, <3>0
    <3>2. CASE L = 1
      BY <3>1, <3>2
    <3>3. CASE L # 1
      <4>0. L - 1 \in 1..L
        BY <1>0, <1>2, <3>3
      <4>1. f[L - 1] \in Seq(S) /\ f[L] = f[L - 1] \o seqs[L]
        BY <2>8, <3>1, <3>3, <4>0
      <4>2. PICK u \in Seq(S) : u = f[L - 1]
        BY <4>1
      <4>3. PICK v \in Seq(S) : v = seqs[L] /\ v # << >>
        BY <3>1
      <4>4. Len(u \o v) = Len(u) + Len(v) /\ Len(u) \in Nat /\ Len(v) \in Nat /\ Len(v) # 0
        BY <4>3, EmptySeq
      <4>5. Len(u \o v) # 0
        BY <4>4
      <4> QED
        BY <4>1, <4>2, <4>3, <4>5
    <3> QED
      BY <3>2, <3>3
  <2> QED
    BY <2>2, <2>6, <2>8, <2>9
<1> QED
  BY <1>1, <1>2

-----------------------------------------------------------------------------
(* The context of a call: nothing written yet, a CDR under way, or the     *)
(* last CDR written.                                                       *)
CdrType == [attempt : Int, profile : Int]
Row     == [attempt : Int, profile : Int, last : BOOLEAN]
CtxType == [profiles : Seq(Profile), cur : Nat, cdr : CdrType, written : Seq(Row)]

NoneYet(d)  == d \in CtxType /\ d.cdr = NoCdr /\ d.written = << >>
UnderWay(d) == /\ d \in CtxType /\ d.cdr # NoCdr
               /\ d.cur \in 1..Len(d.profiles)
               /\ \A i \in DOMAIN d.written : ~d.written[i].last
Closed(d)   == /\ d \in CtxType /\ d.cdr = NoCdr /\ d.written # << >>
               /\ \A i \in DOMAIN d.written : d.written[i].last <=> i = Len(d.written)

LEMMA CdrTypes ==
  /\ NoCdr \in CdrType
  /\ \A a, p \in Int : CdrOf(a, p) \in CdrType /\ (p # 0 => CdrOf(a, p) # NoCdr)
                       /\ CdrOf(a, p).attempt = a /\ CdrOf(a, p).profile = p
  /\ \A d \in CdrType, last \in BOOLEAN :
       /\ Entry(d, last) \in Row /\ Entry(d, last).last = last
       /\ Entry(d, last).attempt = d.attempt /\ Entry(d, last).profile = d.profile
BY DEF NoCdr, CdrType, CdrOf, Entry, Row

LEMMA CtxParts ==
  ASSUME NEW d \in CtxType
  PROVE  /\ d.profiles \in Seq(Profile) /\ d.cur \in Nat /\ d.cdr \in CdrType
         /\ d.written \in Seq(Row) /\ Len(d.profiles) \in Nat /\ Len(d.written) \in Nat
         /\ d.cdr.attempt \in Int /\ d.cdr.profile \in Int
         /\ DOMAIN d.written = 1..Len(d.written)
         /\ \A i \in DOMAIN d.written : d.written[i] \in Row
BY DEF CtxType, CdrType

(* Rows without the last mark stay so when more of them follow.            *)
LEMMA RowsConcat ==
  ASSUME NEW v \in Seq(Row), NEW w \in Seq(Row), \A i \in DOMAIN v : ~v[i].last,
         \A i \in DOMAIN w : ~w[i].last
  PROVE  v \o w \in Seq(Row) /\ \A i \in DOMAIN (v \o w) : ~(v \o w)[i].last
<1>1. /\ v \o w \in Seq(Row) /\ Len(v \o w) = Len(v) + Len(w) /\ Len(v) \in Nat /\ Len(w) \in Nat
      /\ DOMAIN (v \o w) = 1..(Len(v) + Len(w)) /\ DOMAIN v = 1..Len(v) /\ DOMAIN w = 1..Len(w)
  OBVIOUS
<1>2. ASSUME NEW i \in DOMAIN (v \o w) PROVE ~(v \o w)[i].last
  <2>1. CASE i <= Len(v)
    <3>1. (v \o w)[i] = v[i] /\ i \in DOMAIN v
      BY <1>1, <2>1
    <3> QED
      BY <3>1
  <2>2. CASE i > Len(v)
    <3>1. (v \o w)[i] = w[i - Len(v)] /\ i - Len(v) \in DOMAIN w
      BY <1>1, <2>2
    <3> QED
      BY <3>1
  <2> QED
    BY <1>1, <2>1, <2>2
<1> QED
  BY <1>1, <1>2

LEMMA RowsAppend ==
  ASSUME NEW v \in Seq(Row), \A i \in DOMAIN v : ~v[i].last, NEW e \in Row, ~e.last
  PROVE  Append(v, e) \in Seq(Row) /\ \A i \in DOMAIN Append(v, e) : ~Append(v, e)[i].last
<1>1. /\ Append(v, e) \in Seq(Row) /\ Len(Append(v, e)) = Len(v) + 1 /\ Len(v) \in Nat
      /\ DOMAIN Append(v, e) = 1..(Len(v) + 1) /\ DOMAIN v = 1..Len(v)
      /\ Append(v, e)[Len(v) + 1] = e /\ \A i \in 1..Len(v) : Append(v, e)[i] = v[i]
  OBVIOUS
<1>2. ASSUME NEW i \in 1..(Len(v) + 1) PROVE ~Append(v, e)[i].last
  <2>1. CASE i = Len(v) + 1
    BY <1>1, <2>1
  <2>2. CASE i # Len(v) + 1
    <3>1. i \in 1..Len(v)
      BY <1>1, <2>2
    <3> QED
      BY <1>1, <3>1
  <2> QED
    BY <2>1, <2>2
<1> QED
  BY <1>1, <1>2

LEMMA RowsClosed ==
  ASSUME NEW v \in Seq(Row), \A i \in DOMAIN v : ~v[i].last, NEW e \in Row, e.last
  PROVE  /\ Append(v, e) \in Seq(Row) /\ Append(v, e) # << >>
         /\ \A i \in DOMAIN Append(v, e) : Append(v, e)[i].last <=> i = Len(Append(v, e))
<1>1. /\ Append(v, e) \in Seq(Row) /\ Len(Append(v, e)) = Len(v) + 1 /\ Len(v) \in Nat
      /\ DOMAIN Append(v, e) = 1..(Len(v) + 1) /\ DOMAIN v = 1..Len(v)
      /\ Append(v, e)[Len(v) + 1] = e /\ \A i \in 1..Len(v) : Append(v, e)[i] = v[i]
  OBVIOUS
<1> QED
  BY <1>1

(* write_cdr(cdr, last = true) closes the context.                         *)
LEMMA WriteCloses ==
  ASSUME NEW d, UnderWay(d)
  PROVE  Closed(WriteCdr(d, TRUE)) /\ WriteCdr(d, TRUE).cur = d.cur
         /\ WriteCdr(d, TRUE).profiles = d.profiles
<1> DEFINE w == Append(d.written, Entry(d.cdr, TRUE))
<1>1. d \in CtxType /\ d.cdr # NoCdr /\ d.written \in Seq(Row) /\ d.cdr \in CdrType
      /\ \A i \in DOMAIN d.written : ~d.written[i].last
  BY CtxParts DEF UnderWay
<1>2. WriteCdr(d, TRUE) = [d EXCEPT !.written = w, !.cdr = NoCdr]
  BY <1>1 DEF WriteCdr
<1>3. Entry(d.cdr, TRUE) \in Row /\ Entry(d.cdr, TRUE).last
  BY <1>1, CdrTypes
<1>4. /\ w \in Seq(Row) /\ w # << >>
      /\ \A i \in DOMAIN w : w[i].last <=> i = Len(w)
  BY <1>1, <1>3, RowsClosed
<1> HIDE DEF w
<1>5. NoCdr \in CdrType
  BY CdrTypes
<1>6. /\ WriteCdr(d, TRUE) \in CtxType /\ WriteCdr(d, TRUE).written = w
      /\ WriteCdr(d, TRUE).cdr = NoCdr /\ WriteCdr(d, TRUE).cur = d.cur
      /\ WriteCdr(d, TRUE).profiles = d.profiles
  BY <1>1, <1>2, <1>4, <1>5 DEF CtxType
<1> QED
  BY <1>4, <1>6 DEF Closed

(* Without a CDR nothing is written.                                       *)
LEMMA WriteNothing ==
  ASSUME NEW d, d.cdr = NoCdr, NEW last
  PROVE  WriteCdr(d, last) = d
BY DEF WriteCdr

LEMMA FirstUnderWay ==
  ASSUME NEW d, NoneYet(d), NEW ps \in Seq(Profile), ps # << >>
  PROVE  /\ UnderWay(GetFirstProfile(d, ps))
         /\ NoneYet([GetFirstProfile(d, ps) EXCEPT !.cdr = NoCdr])
         /\ GetFirstProfile(d, ps).profiles = ps /\ GetFirstProfile(d, ps).cur = 1
<1> DEFINE e == GetFirstProfile(d, ps)
<1>2. CdrOf(1, 1) \in CdrType /\ CdrOf(1, 1) # NoCdr /\ NoCdr \in CdrType
  BY CdrTypes
<1>k. PICK k \in Nat : k = 1
  OBVIOUS
<1>x. PICK x \in CdrType : x = CdrOf(1, 1)
  BY <1>2
<1>1. e = [d EXCEPT !.profiles = ps, !.cur = k, !.cdr = x]
  BY <1>k, <1>x DEF GetFirstProfile
<1>a. d \in CtxType /\ d.written = << >>
  BY DEF NoneYet
<1> HIDE DEF e
<1>b. e \in CtxType /\ e.cdr = x /\ e.cur = k /\ e.profiles = ps /\ e.written = d.written
  BY <1>a, <1>1 DEF CtxType
<1>c. /\ [e EXCEPT !.cdr = NoCdr] \in CtxType /\ [e EXCEPT !.cdr = NoCdr].cdr = NoCdr
      /\ [e EXCEPT !.cdr = NoCdr].written = e.written
  BY <1>b, <1>2 DEF CtxType
<1>3. /\ e \in CtxType /\ e.cdr # NoCdr /\ e.cur = 1 /\ e.profiles = ps /\ e.written = << >>
      /\ [e EXCEPT !.cdr = NoCdr] \in CtxType /\ [e EXCEPT !.cdr = NoCdr].cdr = NoCdr
      /\ [e EXCEPT !.cdr = NoCdr].written = << >>
  BY <1>a, <1>b, <1>c, <1>2, <1>k, <1>x
<1>4. 1 \in 1..Len(ps) /\ DOMAIN << >> = {}
  OBVIOUS
<1>5. UnderWay(e) /\ NoneYet([e EXCEPT !.cdr = NoCdr])
  BY <1>3, <1>4 DEF UnderWay, NoneYet
<1> QED
  BY <1>3, <1>5 DEF e

(* The CDRs of skipped profiles are not marked as the last.                *)
LEMMA SkipRows ==
  ASSUME NEW d \in CtxType, NEW n \in Int, d.cur <= n
  PROVE  /\ SkipCdrs(d, n) \in Seq(Row) /\ Len(SkipCdrs(d, n)) = n - d.cur
         /\ \A i \in DOMAIN SkipCdrs(d, n) :
              /\ ~SkipCdrs(d, n)[i].last /\ SkipCdrs(d, n)[i].attempt = d.cdr.attempt + i - 1
              /\ SkipCdrs(d, n)[i].profile = d.cur + i - 1
<1> DEFINE w == SkipCdrs(d, n)
<1>1. n - d.cur \in Nat /\ d.cur \in Int /\ d.cdr.attempt \in Int
  BY CtxParts
<1>2. w = [j \in 1..(n - d.cur) |-> Entry(CdrOf(d.cdr.attempt + j - 1, d.cur + j - 1), FALSE)]
  BY DEF SkipCdrs
<1>3. ASSUME NEW j \in 1..(n - d.cur)
      PROVE  /\ w[j] \in Row /\ ~w[j].last /\ w[j].attempt = d.cdr.attempt + j - 1
             /\ w[j].profile = d.cur + j - 1
  <2>1. d.cdr.attempt + j - 1 \in Int /\ d.cur + j - 1 \in Int
    BY <1>1
  <2>2. /\ CdrOf(d.cdr.attempt + j - 1, d.cur + j - 1) \in CdrType
        /\ CdrOf(d.cdr.attempt + j - 1, d.cur + j - 1).attempt = d.cdr.attempt + j - 1
        /\ CdrOf(d.cdr.attempt + j - 1, d.cur + j - 1).profile = d.cur + j - 1
    BY <2>1, CdrTypes
  <2>3. w[j] = Entry(CdrOf(d.cdr.attempt + j - 1, d.cur + j - 1), FALSE)
    BY <1>2
  <2> HIDE DEF w
  <2> QED
    BY <2>2, <2>3, CdrTypes
<1> HIDE DEF w
<1>4. w \in [1..(n - d.cur) -> Row]
  BY <1>2, <1>3
<1>5. w \in Seq(Row) /\ Len(w) = n - d.cur /\ DOMAIN w = 1..(n - d.cur)
  BY <1>1, <1>4
<1> QED
  BY <1>3, <1>5 DEF w

(* getNextProfile keeps the CDR under way, whatever it skips.              *)
LEMMA NextUnderWay ==
  ASSUME NEW d, UnderWay(d), NEW early \in BOOLEAN, NEW failover \in BOOLEAN
  PROVE  /\ UnderWay(GetNextProfile(d, early, failover).c)
         /\ GetNextProfile(d, early, failover).c.profiles = d.profiles
         /\ GetNextProfile(d, early, failover).c.cur >= d.cur
<1> DEFINE ps == d.profiles
           n == IF ps[d.cur].skip THEN FirstUnskipped(ps, d.cur) ELSE d.cur + 1
           skipped == IF ps[d.cur].skip /\ SkipCdrStored THEN SkipCdrs(d, n) ELSE << >>
           counter == d.cdr.attempt + Len(skipped)
           w == d.written \o skipped
           r == GetNextProfile(d, early, failover)
<1>1. /\ d \in CtxType /\ d.cdr # NoCdr /\ d.cur \in 1..Len(ps) /\ ps \in Seq(Profile)
      /\ Len(ps) \in Nat /\ d.written \in Seq(Row) /\ d.cdr \in CdrType /\ d.cdr.attempt \in Int
      /\ \A i \in DOMAIN d.written : ~d.written[i].last
  BY CtxParts DEF UnderWay
<1>2. n \in Int /\ d.cur <= n /\ n >= 1
  <2>1. FirstUnskipped(ps, d.cur) \in d.cur..(Len(ps) + 1)
    BY <1>1, FirstUnskippedIs
  <2> QED
    BY <1>1, <2>1
<1>3. /\ skipped \in Seq(Row) /\ Len(skipped) \in Nat
      /\ \A i \in DOMAIN skipped : ~skipped[i].last
  <2>1. CASE ps[d.cur].skip /\ SkipCdrStored
    <3> HIDE DEF n
    <3> QED
      BY <1>1, <1>2, <2>1, SkipRows
  <2>2. CASE ~(ps[d.cur].skip /\ SkipCdrStored)
    <3>1. skipped = << >>
      BY <2>2
    <3> HIDE DEF skipped
    <3> QED
      BY <3>1
  <2> QED
    BY <2>1, <2>2
<1>4. /\ r = IF n > Len(ps) \/ (~early /\ ps[n].refuse)
               THEN [found |-> FALSE, c |-> [d EXCEPT !.written = w]]
             ELSE IF early \/ failover
               THEN [found |-> TRUE,
                     c |-> [d EXCEPT !.written = w, !.cur = n, !.cdr = CdrOf(counter, n)]]
             ELSE [found |-> TRUE,
                   c |-> [d EXCEPT !.written = Append(w, Entry(d.cdr, FALSE)), !.cur = n,
                                   !.cdr = CdrOf(counter + 1, n)]]
  BY DEF GetNextProfile
<1> HIDE DEF n, skipped, r
<1>5. w \in Seq(Row) /\ \A i \in DOMAIN w : ~w[i].last
  BY <1>1, <1>3, RowsConcat
<1>6. /\ Append(w, Entry(d.cdr, FALSE)) \in Seq(Row)
      /\ \A i \in DOMAIN Append(w, Entry(d.cdr, FALSE)) : ~Append(w, Entry(d.cdr, FALSE))[i].last
  <2> HIDE DEF w
  <2>1. Entry(d.cdr, FALSE) \in Row /\ ~Entry(d.cdr, FALSE).last
    BY <1>1, CdrTypes
  <2> HIDE DEF Entry
  <2>2. PICK e \in Row : e = Entry(d.cdr, FALSE) /\ ~e.last
    BY <2>1
  <2> QED
    BY <1>5, <2>2, RowsAppend
<1>7. counter \in Int
  BY <1>1, <1>3
<1> HIDE DEF w, counter
<1>8. /\ CdrOf(counter, n) \in CdrType /\ CdrOf(counter, n) # NoCdr
      /\ CdrOf(counter + 1, n) \in CdrType /\ CdrOf(counter + 1, n) # NoCdr
  BY <1>2, <1>7, CdrTypes
<1>9. CASE n > Len(ps) \/ (~early /\ ps[n].refuse)
  <2>1. r.c = [d EXCEPT !.written = w]
    BY <1>4, <1>9
  <2>2. /\ r.c \in CtxType /\ r.c.profiles = ps /\ r.c.cur = d.cur /\ r.c.cdr = d.cdr
        /\ r.c.written = w
    BY <1>1, <1>5, <2>1 DEF CtxType
  <2> QED
    BY <1>1, <1>2, <1>5, <2>2 DEF UnderWay, r
<1>10. CASE ~(n > Len(ps) \/ (~early /\ ps[n].refuse)) /\ (early \/ failover)
  <2>1. r.c = [d EXCEPT !.written = w, !.cur = n, !.cdr = CdrOf(counter, n)]
    BY <1>4, <1>10
  <2>2. /\ r.c \in CtxType /\ r.c.profiles = ps /\ r.c.cur = n /\ r.c.cdr = CdrOf(counter, n)
        /\ r.c.written = w
    <3>1. PICK k \in Nat : k = n
      BY <1>2
    <3>2. PICK x \in CdrType : x = CdrOf(counter, n)
      BY <1>8
    <3>3. r.c = [d EXCEPT !.written = w, !.cur = k, !.cdr = x]
      BY <2>1, <3>1, <3>2
    <3>4. /\ r.c \in CtxType /\ r.c.profiles = ps /\ r.c.cur = k /\ r.c.cdr = x
          /\ r.c.written = w
      BY <1>1, <1>5, <3>3 DEF CtxType
    <3> QED
      BY <3>1, <3>2, <3>4
  <2>3. n \in 1..Len(ps)
    BY <1>1, <1>2, <1>10
  <2> QED
    BY <1>2, <1>5, <1>8, <2>2, <2>3 DEF UnderWay, r
<1>11. CASE ~(n > Len(ps) \/ (~early /\ ps[n].refuse)) /\ ~(early \/ failover)
  <2> DEFINE v == Append(w, Entry(d.cdr, FALSE))
  <2>1. r.c = [d EXCEPT !.written = v, !.cur = n, !.cdr = CdrOf(counter + 1, n)]
    BY <1>4, <1>11
  <2>2. v \in Seq(Row) /\ \A i \in DOMAIN v : ~v[i].last
    BY <1>6
  <2> HIDE DEF v
  <2>3. /\ r.c \in CtxType /\ r.c.profiles = ps /\ r.c.cur = n /\ r.c.cdr = CdrOf(counter + 1, n)
        /\ r.c.written = v
    <3>1. PICK k \in Nat : k = n
      BY <1>2
    <3>2. PICK x \in CdrType : x = CdrOf(counter + 1, n)
      BY <1>8
    <3>3. r.c = [d EXCEPT !.written = v, !.cur = k, !.cdr = x]
      BY <2>1, <3>1, <3>2
    <3>4. /\ r.c \in CtxType /\ r.c.profiles = ps /\ r.c.cur = k /\ r.c.cdr = x
          /\ r.c.written = v
      BY <1>1, <2>2, <3>3 DEF CtxType
    <3> QED
      BY <3>1, <3>2, <3>4
  <2>4. n \in 1..Len(ps)
    BY <1>1, <1>2, <1>11
  <2> QED
    BY <1>2, <1>8, <2>2, <2>3, <2>4 DEF UnderWay, r
<1> QED
  BY <1>9, <1>10, <1>11

(* The registrar's answer leaves a list of profiles.                       *)
LEMMA ResolvedType ==
  ASSUME NEW ps \in ProfileLists, NEW reply \in AorReplies
  PROVE  ResolvedProfiles(ps, reply) \in Seq(Profile) /\ ResolvedProfiles(ps, reply) # << >>
<1> DEFINE seqs == [i \in DOMAIN ps |-> ResolvedProfile(ps[i], reply)]
<1>1. /\ ps \in Seq(Profile) /\ ps # << >>
      /\ \A i \in DOMAIN ps : ps[i].aor # 0 => reply[ps[i].aor] \in Nat
  BY CallAssumption
<1>2. ASSUME NEW i \in DOMAIN ps
      PROVE  ResolvedProfile(ps[i], reply) \in Seq(Profile) /\ ResolvedProfile(ps[i], reply) # << >>
  <2>1. PICK p \in Profile : p = ps[i]
    BY <1>1
  <2>2. p.aor # 0 => reply[p.aor] \in Nat
    BY <1>1, <2>1
  <2>3. CASE p.refuse \/ p.aor = 0
    <3>1. ResolvedProfile(p, reply) = <<p>>
      BY <2>3 DEF ResolvedProfile
    <3> QED
      BY <2>1, <3>1
  <2>4. CASE ~(p.refuse \/ p.aor = 0) /\ reply[p.aor] = 0
    <3>1. PICK b \in BOOLEAN : b = TRUE
      OBVIOUS
    <3>2. PICK r \in Profile : r = [p EXCEPT !.skip = b]
      BY DEF Profile
    <3>3. ResolvedProfile(p, reply) = <<r>>
      BY <2>4, <3>1, <3>2 DEF ResolvedProfile
    <3> QED
      BY <2>1, <3>3
  <2>5. CASE ~(p.refuse \/ p.aor = 0) /\ reply[p.aor] # 0
    <3>1. PICK k \in Nat : k = reply[p.aor] /\ k # 0
      BY <2>2, <2>5
    <3>2. ResolvedProfile(p, reply) = [j \in 1..k |-> p]
      BY <2>5, <3>1 DEF ResolvedProfile
    <3>3. [j \in 1..k |-> p] \in Seq(Profile) /\ Len([j \in 1..k |-> p]) = k
      OBVIOUS
    <3> QED
      BY <2>1, <3>1, <3>2, <3>3, EmptySeq
  <2> QED
    BY <2>3, <2>4, <2>5
<1>3. seqs \in Seq(Seq(Profile)) /\ seqs # << >> /\ DOMAIN seqs = DOMAIN ps
  <2>1. PICK k \in Nat : k = Len(ps) /\ k # 0 /\ DOMAIN ps = 1..k
    BY <1>1, EmptySeq
  <2>2. seqs \in [1..k -> Seq(Profile)]
    BY <1>2, <2>1
  <2> HIDE DEF seqs
  <2>3. seqs \in Seq(Seq(Profile)) /\ Len(seqs) = k
    BY <2>2
  <2> QED
    BY <2>1, <2>2, <2>3, EmptySeq
<1>4. \A i \in DOMAIN seqs : seqs[i] # << >>
  BY <1>2, <1>3
<1>5. ResolvedProfiles(ps, reply) = FlattenSeq(seqs)
  BY DEF ResolvedProfiles
<1> HIDE DEF seqs
<1> QED
  BY <1>3, <1>4, <1>5, FlattenType

LEMMA ResolvedUnderWay ==
  ASSUME NEW d, UnderWay(d), d.cur = 1, d.profiles \in ProfileLists, NEW reply \in AorReplies
  PROVE  LET e == Resolve(d, reply)
         IN  /\ UnderWay(e) /\ e.profiles = ResolvedProfiles(d.profiles, reply) /\ e.cur = 1
             /\ e.cdr = d.cdr /\ e.written = d.written
<1>1. PICK ps \in Seq(Profile) : ps = ResolvedProfiles(d.profiles, reply) /\ ps # << >>
  BY ResolvedType
<1>2. PICK e : e = [d EXCEPT !.profiles = ps]
  OBVIOUS
<1>3. Resolve(d, reply) = e
  BY <1>1, <1>2 DEF Resolve, UnderWay, CtxType
<1>4. d \in CtxType /\ d.cdr # NoCdr /\ \A i \in DOMAIN d.written : ~d.written[i].last
  BY DEF UnderWay
<1>5. /\ e \in CtxType /\ e.profiles = ps /\ e.cur = d.cur /\ e.cdr = d.cdr
      /\ e.written = d.written
  BY <1>2, <1>4 DEF CtxType
<1>6. 1 \in 1..Len(ps)
  BY <1>1, EmptySeq
<1>7. UnderWay(e)
  BY <1>4, <1>5, <1>6 DEF UnderWay
<1> QED
  BY <1>1, <1>3, <1>5, <1>7

(* Passing the skipped profiles in front keeps the CDR of the profile      *)
(* reached under way, or ends the call with the CDR of the last one.       *)
LEMMA PassedOrClosed ==
  ASSUME NEW d, UnderWay(d)
  PROVE  LET r == PassSkipped(d)
         IN  IF r.found THEN UnderWay(r.c) /\ r.c.profiles = d.profiles
                             /\ r.c.cur = FirstUnskipped(d.profiles, d.cur)
                        ELSE Closed(r.c)
<1> DEFINE ps == d.profiles
           n == FirstUnskipped(ps, d.cur)
           a == d.cdr.attempt
           r == PassSkipped(d)
<1>1. /\ d \in CtxType /\ d.cdr # NoCdr /\ d.cur \in 1..Len(ps) /\ ps \in Seq(Profile)
      /\ Len(ps) \in Nat /\ d.written \in Seq(Row) /\ d.cdr \in CdrType /\ a \in Int
      /\ \A i \in DOMAIN d.written : ~d.written[i].last
  BY CtxParts DEF UnderWay
<1>2. n \in d.cur..(Len(ps) + 1)
  BY <1>1, FirstUnskippedIs
<1>3. r = IF n = d.cur THEN [found |-> TRUE, c |-> d]
          ELSE IF n > Len(ps) \/ ps[n].refuse
            THEN [found |-> FALSE,
                  c |-> [d EXCEPT !.cur = n - 1, !.cdr = NoCdr,
                                  !.written = @ \o SkipCdrs(d, n - 1)
                                                \o <<Entry(CdrOf(a + n - 1 - d.cur, n - 1), TRUE)>>]]
            ELSE [found |-> TRUE,
                  c |-> [d EXCEPT !.cur = n, !.cdr = CdrOf(@.attempt + n - d.cur, n),
                                  !.written = @ \o SkipCdrs(d, n)]]
  BY DEF PassSkipped
<1> HIDE DEF n, r
<1>4. CASE n = d.cur
  <2>1. r.found = TRUE /\ r.c = d
    BY <1>3, <1>4
  <2> QED
    BY <1>4, <2>1 DEF r, n
<1>5. CASE n # d.cur /\ (n > Len(ps) \/ ps[n].refuse)
  <2> DEFINE u == d.written \o SkipCdrs(d, n - 1)
  <2>1. n - 1 \in Nat /\ d.cur <= n - 1 /\ n - 1 \in Int
    BY <1>1, <1>2, <1>5
  <2>2. SkipCdrs(d, n - 1) \in Seq(Row) /\ \A i \in DOMAIN SkipCdrs(d, n - 1) : ~SkipCdrs(d, n - 1)[i].last
    BY <1>1, <2>1, SkipRows
  <2>3. u \in Seq(Row) /\ \A i \in DOMAIN u : ~u[i].last
    BY <1>1, <2>2, RowsConcat
  <2>4. a + n - 1 - d.cur \in Int
    BY <1>1, <1>2
  <2>5. PICK x \in CdrType : x = CdrOf(a + n - 1 - d.cur, n - 1)
    BY <2>1, <2>4, CdrTypes
  <2>6. PICK e \in Row : e = Entry(x, TRUE) /\ e.last
    BY CdrTypes
  <2>7. PICK k \in Nat : k = n - 1
    BY <2>1
  <2>8. PICK no \in CdrType : no = NoCdr
    BY CdrTypes
  <2> HIDE DEF u
  <2>9. u \o <<e>> = Append(u, e)
    BY <2>3
  <2>10. PICK v \in Seq(Row) :
           v = Append(u, e) /\ v # << >> /\ \A i \in DOMAIN v : v[i].last <=> i = Len(v)
    BY <2>3, <2>6, RowsClosed
  <2>11. r.found = FALSE /\ r.c = [d EXCEPT !.cur = k, !.cdr = no, !.written = v]
    <3>1. r.found = FALSE
      BY <1>3, <1>5
    <3>2. r.c = [d EXCEPT !.cur = n - 1, !.cdr = NoCdr,
                          !.written = @ \o SkipCdrs(d, n - 1)
                                        \o <<Entry(CdrOf(a + n - 1 - d.cur, n - 1), TRUE)>>]
      BY <1>3, <1>5
    <3>3. r.c = [d EXCEPT !.cur = k, !.cdr = no, !.written = @ \o SkipCdrs(d, n - 1) \o <<e>>]
      BY <3>2, <2>5, <2>6, <2>7, <2>8
    <3>4. d.written \o SkipCdrs(d, n - 1) \o <<e>> = v
      BY <2>9, <2>10 DEF u
    <3>5. [d EXCEPT !.cur = k, !.cdr = no, !.written = @ \o SkipCdrs(d, n - 1) \o <<e>>]
            = [d EXCEPT !.cur = k, !.cdr = no, !.written = d.written \o SkipCdrs(d, n - 1) \o <<e>>]
      BY <1>1 DEF CtxType
    <3> QED
      BY <3>1, <3>3, <3>4, <3>5
  <2>12. r.c \in CtxType /\ r.c.cdr = no /\ r.c.written = v
    BY <1>1, <2>11 DEF CtxType
  <2>13. Closed(r.c)
    BY <2>8, <2>10, <2>12 DEF Closed
  <2> QED
    BY <2>11, <2>13 DEF r
<1>6. CASE n # d.cur /\ ~(n > Len(ps) \/ ps[n].refuse)
  <2> DEFINE u == d.written \o SkipCdrs(d, n)
  <2>1. n \in Nat /\ d.cur <= n /\ n \in Int /\ n \in 1..Len(ps) /\ a + n - d.cur \in Int
    BY <1>1, <1>2, <1>6
  <2>2. SkipCdrs(d, n) \in Seq(Row) /\ \A i \in DOMAIN SkipCdrs(d, n) : ~SkipCdrs(d, n)[i].last
    BY <1>1, <2>1, SkipRows
  <2>3. PICK w \in Seq(Row) : w = u /\ \A i \in DOMAIN w : ~w[i].last
    BY <1>1, <2>2, RowsConcat
  <2>4. PICK x \in CdrType : x = CdrOf(a + n - d.cur, n) /\ x # NoCdr
    BY <2>1, CdrTypes
  <2>5. PICK k \in Nat : k = n
    BY <2>1
  <2>6. r.found = TRUE /\ r.c = [d EXCEPT !.cur = k, !.cdr = x, !.written = w]
    <3>1. r.found = TRUE
      BY <1>3, <1>6
    <3>2. r.c = [d EXCEPT !.cur = n, !.cdr = CdrOf(@.attempt + n - d.cur, n),
                          !.written = @ \o SkipCdrs(d, n)]
      BY <1>3, <1>6
    <3>3. [d EXCEPT !.cur = n, !.cdr = CdrOf(@.attempt + n - d.cur, n),
                    !.written = @ \o SkipCdrs(d, n)]
            = [d EXCEPT !.cur = n, !.cdr = CdrOf(a + n - d.cur, n), !.written = u]
      BY <1>1 DEF CtxType
    <3> QED
      BY <2>3, <2>4, <2>5, <3>1, <3>2, <3>3
  <2> HIDE DEF u
  <2>7. /\ r.c \in CtxType /\ r.c.cdr = x /\ r.c.written = w /\ r.c.profiles = ps /\ r.c.cur = k
    BY <1>1, <2>6 DEF CtxType
  <2>8. UnderWay(r.c)
    BY <2>1, <2>3, <2>4, <2>5, <2>7 DEF UnderWay
  <2> QED
    BY <2>5, <2>6, <2>7, <2>8 DEF r, n
<1> QED
  BY <1>4, <1>5, <1>6

-----------------------------------------------------------------------------
(* The rows count the attempts from 1, and the CDR under way is the next.  *)
InOrder(w) == \A i \in DOMAIN w : w[i].attempt = i
IsNext(d)  == d.cdr # NoCdr => d.cdr.attempt = Len(d.written) + 1
Strict(d)  == InOrder(d.written) /\ IsNext(d)

LEMMA InOrderAppend ==
  ASSUME NEW v \in Seq(Row), InOrder(v), NEW e \in Row, e.attempt = Len(v) + 1
  PROVE  InOrder(Append(v, e)) /\ Len(Append(v, e)) = Len(v) + 1
<1>1. /\ Len(v) \in Nat /\ Len(Append(v, e)) = Len(v) + 1
      /\ DOMAIN Append(v, e) = 1..(Len(v) + 1) /\ DOMAIN v = 1..Len(v)
      /\ Append(v, e)[Len(v) + 1] = e /\ \A i \in 1..Len(v) : Append(v, e)[i] = v[i]
  OBVIOUS
<1>2. ASSUME NEW i \in 1..(Len(v) + 1) PROVE Append(v, e)[i].attempt = i
  <2>1. CASE i = Len(v) + 1
    BY <1>1, <2>1
  <2>2. CASE i # Len(v) + 1
    <3>1. i \in 1..Len(v)
      BY <1>1, <2>2
    <3> QED
      BY <1>1, <3>1 DEF InOrder
  <2> QED
    BY <2>1, <2>2
<1> QED
  BY <1>1, <1>2 DEF InOrder

LEMMA InOrderConcat ==
  ASSUME NEW v \in Seq(Row), InOrder(v), NEW w \in Seq(Row),
         \A i \in DOMAIN w : w[i].attempt = Len(v) + i
  PROVE  InOrder(v \o w) /\ Len(v \o w) = Len(v) + Len(w)
<1>1. /\ Len(v \o w) = Len(v) + Len(w) /\ Len(v) \in Nat /\ Len(w) \in Nat
      /\ DOMAIN (v \o w) = 1..(Len(v) + Len(w)) /\ DOMAIN v = 1..Len(v) /\ DOMAIN w = 1..Len(w)
  OBVIOUS
<1>2. ASSUME NEW i \in DOMAIN (v \o w) PROVE (v \o w)[i].attempt = i
  <2>1. CASE i <= Len(v)
    <3>1. (v \o w)[i] = v[i] /\ i \in DOMAIN v
      BY <1>1, <2>1
    <3> QED
      BY <3>1 DEF InOrder
  <2>2. CASE i > Len(v)
    <3>1. (v \o w)[i] = w[i - Len(v)] /\ i - Len(v) \in DOMAIN w
      BY <1>1, <2>2
    <3>2. w[i - Len(v)].attempt = Len(v) + (i - Len(v))
      BY <3>1
    <3> QED
      BY <1>1, <3>1, <3>2
  <2> QED
    BY <1>1, <2>1, <2>2
<1> QED
  BY <1>1, <1>2 DEF InOrder

LEMMA WriteStrict ==
  ASSUME NEW d \in CtxType, Strict(d), NEW last \in BOOLEAN
  PROVE  Strict(WriteCdr(d, last))
<1>1. CASE d.cdr = NoCdr
  BY <1>1, WriteNothing
<1>2. CASE d.cdr # NoCdr
  <2>1. d.written \in Seq(Row) /\ d.cdr \in CdrType /\ InOrder(d.written)
        /\ d.cdr.attempt = Len(d.written) + 1
    BY <1>2, CtxParts DEF Strict, IsNext
  <2>2. PICK e \in Row : e = Entry(d.cdr, last) /\ e.attempt = d.cdr.attempt
    BY <2>1, CdrTypes
  <2>3. PICK w : w = Append(d.written, e) /\ InOrder(w)
    BY <2>1, <2>2, InOrderAppend
  <2>4. PICK no : no = NoCdr
    OBVIOUS
  <2>5. WriteCdr(d, last) = [d EXCEPT !.written = w, !.cdr = no]
    BY <1>2, <2>2, <2>3, <2>4 DEF WriteCdr, CtxType
  <2>6. WriteCdr(d, last).written = w /\ WriteCdr(d, last).cdr = no
    BY <2>5 DEF CtxType
  <2> QED
    BY <2>3, <2>4, <2>6 DEF Strict, IsNext
<1> QED
  BY <1>1, <1>2

(* Passing the skipped profiles in front keeps the order.                  *)
LEMMA PassStrict ==
  ASSUME NEW d, UnderWay(d), Strict(d)
  PROVE  Strict(PassSkipped(d).c)
<1> DEFINE ps == d.profiles
           n == FirstUnskipped(ps, d.cur)
           a == d.cdr.attempt
           r == PassSkipped(d)
<1>1. /\ d \in CtxType /\ d.cdr # NoCdr /\ d.cur \in 1..Len(ps) /\ ps \in Seq(Profile)
      /\ Len(ps) \in Nat /\ d.written \in Seq(Row) /\ d.cdr \in CdrType /\ a \in Int
      /\ InOrder(d.written) /\ a = Len(d.written) + 1 /\ Len(d.written) \in Nat
  BY CtxParts DEF UnderWay, Strict, IsNext
<1>2. n \in d.cur..(Len(ps) + 1)
  BY <1>1, FirstUnskippedIs
<1>3. r = IF n = d.cur THEN [found |-> TRUE, c |-> d]
          ELSE IF n > Len(ps) \/ ps[n].refuse
            THEN [found |-> FALSE,
                  c |-> [d EXCEPT !.cur = n - 1, !.cdr = NoCdr,
                                  !.written = @ \o SkipCdrs(d, n - 1)
                                                \o <<Entry(CdrOf(a + n - 1 - d.cur, n - 1), TRUE)>>]]
            ELSE [found |-> TRUE,
                  c |-> [d EXCEPT !.cur = n, !.cdr = CdrOf(@.attempt + n - d.cur, n),
                                  !.written = @ \o SkipCdrs(d, n)]]
  BY DEF PassSkipped
<1> HIDE DEF n, r
<1>4. ASSUME NEW m \in Int, d.cur <= m
      PROVE  /\ d.written \o SkipCdrs(d, m) \in Seq(Row) /\ InOrder(d.written \o SkipCdrs(d, m))
             /\ Len(d.written \o SkipCdrs(d, m)) = Len(d.written) + m - d.cur
  <2>1. PICK w \in Seq(Row) : /\ w = SkipCdrs(d, m) /\ Len(w) = m - d.cur
                              /\ \A i \in DOMAIN w : w[i].attempt = a + i - 1
    BY <1>1, <1>4, SkipRows
  <2>2. \A i \in DOMAIN w : w[i].attempt = Len(d.written) + i
    BY <1>1, <2>1
  <2>3. InOrder(d.written \o w) /\ Len(d.written \o w) = Len(d.written) + Len(w)
    BY <1>1, <2>2, InOrderConcat
  <2> QED
    BY <1>1, <1>4, <2>1, <2>3
<1>5. CASE n = d.cur
  <2>1. r.c = d
    BY <1>3, <1>5
  <2> QED
    BY <2>1 DEF r
<1>6. CASE n # d.cur /\ (n > Len(ps) \/ ps[n].refuse)
  <2>1. n - 1 \in Int /\ d.cur <= n - 1 /\ a + n - 1 - d.cur \in Int
    BY <1>1, <1>2, <1>6
  <2>2. PICK u \in Seq(Row) : /\ u = d.written \o SkipCdrs(d, n - 1) /\ InOrder(u)
                              /\ Len(u) = Len(d.written) + (n - 1) - d.cur
    BY <1>4, <2>1
  <2>3. PICK x \in CdrType : x = CdrOf(a + n - 1 - d.cur, n - 1) /\ x.attempt = a + n - 1 - d.cur
    BY <2>1, CdrTypes
  <2>4. PICK e \in Row : e = Entry(x, TRUE) /\ e.attempt = x.attempt
    BY CdrTypes
  <2>5. e.attempt = Len(u) + 1
    <3>1. d.cur \in Int /\ n \in Int /\ Len(d.written) \in Int /\ a = Len(d.written) + 1
      BY <1>1, <1>2
    <3>2. e.attempt = a + n - 1 - d.cur /\ Len(u) = Len(d.written) + (n - 1) - d.cur
      BY <2>2, <2>3, <2>4
    <3> HIDE DEF a
    <3> QED
      BY <3>1, <3>2
  <2>6. PICK v : v = u \o <<e>> /\ InOrder(v)
    <3>1. u \o <<e>> = Append(u, e)
      OBVIOUS
    <3> QED
      BY <2>2, <2>5, <3>1, InOrderAppend
  <2>7. PICK no : no = NoCdr
    OBVIOUS
  <2>8. r.c = [d EXCEPT !.cur = n - 1, !.cdr = no, !.written = v]
    <3>1. r.c = [d EXCEPT !.cur = n - 1, !.cdr = NoCdr,
                          !.written = @ \o SkipCdrs(d, n - 1)
                                        \o <<Entry(CdrOf(a + n - 1 - d.cur, n - 1), TRUE)>>]
      BY <1>3, <1>6
    <3>2. r.c = [d EXCEPT !.cur = n - 1, !.cdr = no, !.written = @ \o SkipCdrs(d, n - 1) \o <<e>>]
      BY <2>3, <2>4, <2>7, <3>1
    <3>3. [d EXCEPT !.cur = n - 1, !.cdr = no, !.written = @ \o SkipCdrs(d, n - 1) \o <<e>>]
            = [d EXCEPT !.cur = n - 1, !.cdr = no, !.written = d.written \o SkipCdrs(d, n - 1) \o <<e>>]
      BY <1>1 DEF CtxType
    <3> QED
      BY <2>2, <2>6, <3>2, <3>3
  <2>9. r.c.cdr = no /\ r.c.written = v
    BY <1>1, <2>8 DEF CtxType
  <2> QED
    BY <2>6, <2>7, <2>9 DEF Strict, IsNext, r
<1>7. CASE n # d.cur /\ ~(n > Len(ps) \/ ps[n].refuse)
  <2>1. n \in Int /\ d.cur <= n /\ a + n - d.cur \in Int
    BY <1>1, <1>2
  <2>2. PICK u \in Seq(Row) : /\ u = d.written \o SkipCdrs(d, n) /\ InOrder(u)
                              /\ Len(u) = Len(d.written) + n - d.cur
    BY <1>4, <2>1
  <2>3. PICK x \in CdrType : x = CdrOf(a + n - d.cur, n) /\ x.attempt = a + n - d.cur
    BY <2>1, CdrTypes
  <2>4. r.c = [d EXCEPT !.cur = n, !.cdr = x, !.written = u]
    <3>1. r.c = [d EXCEPT !.cur = n, !.cdr = CdrOf(@.attempt + n - d.cur, n),
                          !.written = @ \o SkipCdrs(d, n)]
      BY <1>3, <1>7
    <3>2. [d EXCEPT !.cur = n, !.cdr = CdrOf(@.attempt + n - d.cur, n),
                    !.written = @ \o SkipCdrs(d, n)]
            = [d EXCEPT !.cur = n, !.cdr = CdrOf(a + n - d.cur, n),
                        !.written = d.written \o SkipCdrs(d, n)]
      BY <1>1 DEF CtxType
    <3> QED
      BY <2>2, <2>3, <3>1, <3>2
  <2>5. r.c.cdr = x /\ r.c.written = u
    BY <1>1, <2>4 DEF CtxType
  <2>6. x.attempt = Len(u) + 1
    <3>1. d.cur \in Int /\ n \in Int /\ Len(d.written) \in Int /\ a = Len(d.written) + 1
      BY <1>1, <1>2
    <3>2. x.attempt = a + n - d.cur /\ Len(u) = Len(d.written) + n - d.cur
      BY <2>2, <2>3
    <3>3. \A j, k, m \in Int : (k + 1) + m - j = (k + m - j) + 1
      OBVIOUS
    <3>4. (Len(d.written) + 1) + n - d.cur = (Len(d.written) + n - d.cur) + 1
      BY <3>1, <3>3
    <3> HIDE DEF a
    <3> QED
      BY <3>1, <3>2, <3>4
  <2> QED
    BY <2>2, <2>5, <2>6 DEF Strict, IsNext, r
<1> QED
  BY <1>5, <1>6, <1>7

-----------------------------------------------------------------------------
(* While the A leg waits for routing it has no callee, and what it is told *)
(* can only be to stop.                                                    *)
Teardowns == {Event("teardown", 0)}
RoutingOnly ==
  stage # "none" =>
    /\ others = {} /\ leg[0].other = None
    /\ \A l \in Bs : leg[l].alive = "none"
    /\ DOMAIN q = AllLegs /\ q[0] \in Seq(Teardowns)

(* Where the call stands: before routing answered, with an attempt under   *)
(* way, after its last CDR.                                                *)
Unrouted == /\ NoneYet(c) /\ final = "no" /\ pc = "idle" /\ leg[0].status = "Disconnected"
            /\ stage \notin {"radius", "aor"}
Tried    == /\ UnderWay(c) /\ final = "due" /\ ctx = "live"
            /\ stage \notin {"invite", "cert", "db"}
            /\ stage # "none" => c.cur = 1 /\ c.profiles \in ProfileLists
Finished == /\ Closed(c) /\ final = "due" /\ pc = "idle" /\ leg[0].status = "Disconnected"
            /\ stage \notin {"invite", "cert", "db"}
            /\ stage # "none" => ~leg[0].ctx

CdrInv == RoutingOnly /\ (Unrouted \/ Tried \/ Finished)

(* How a step changes the context.                                         *)
Kept    == c' = c
Written == c' = WriteCdr(c, TRUE)
Chosen  == /\ UnderWay(c) /\ stage = "none" /\ stage' = "none"
           /\ \E early, failover \in BOOLEAN :
                /\ c' = GetNextProfile(c, early, failover).c
                /\ early => pc = "first"
                /\ pc' = "first" => GetNextProfile(c, early, failover).found
Routed  == /\ NoneYet(c)
           /\ \E ps \in ProfileLists \cup {FailedProfiles} :
                \/ c' = [GetFirstProfile(c, ps) EXCEPT !.cdr = NoCdr]
                \/ c' = WriteCdr(GetFirstProfile(c, ps), TRUE)
                \/ c' = GetFirstProfile(c, ps) /\ ps \in ProfileLists
Passed  == /\ UnderWay(c) /\ stage # "none" /\ c.cur = 1 /\ c.profiles \in ProfileLists
           /\ \E reply \in AorReplies : c' = PassSkipped(Resolve(c, reply)).c
CtxStep == Kept \/ Written \/ Chosen \/ Routed \/ Passed

(* An event that leaves the context alone.                                 *)
LEMMA KeptPhase ==
  ASSUME CallInv, CdrInv, UNCHANGED <<c, final, ctx, pc, stage>>,
         leg'[0].status # "Disconnected" => leg[0].status # "Disconnected",
         leg'[0].ctx => leg[0].ctx
  PROVE  (Unrouted \/ Tried \/ Finished)' /\ CtxStep
BY DEF CdrInv, Unrouted, Tried, Finished, CtxStep, Kept

(* The lists of profiles are not empty.                                    *)
LEMMA ListTypes ==
  ASSUME NEW ps \in ProfileLists \cup {FailedProfiles}
  PROVE  ps \in Seq(Profile) /\ ps # << >>
<1>1. CASE ps \in ProfileLists
  BY <1>1, CallAssumption
<1>2. CASE ps = FailedProfiles
  <2> DEFINE f == [refuse |-> TRUE, auth |-> FALSE, aor |-> 0, rl |-> FALSE, skip |-> FALSE]
  <2>1. f \in Profile
    BY DEF Profile
  <2>2. ps = <<f>>
    BY <1>2 DEF FailedProfiles
  <2> HIDE DEF f
  <2> QED
    BY <2>1, <2>2
<1> QED
  BY <1>1, <1>2

LEMMA RoutedPhase ==
  ASSUME CallInv, Unrouted, Idle(0), stage \in {"cert", "db"},
         NEW ps \in ProfileLists \cup {FailedProfiles}, NEW failed \in BOOLEAN,
         ps \in ProfileLists \/ failed, OnProfilesReady(ps, failed)
  PROVE  (Unrouted \/ Tried \/ Finished)' /\ CtxStep
<1> USE LegSets
<1>1. Shape /\ NoneYet(c) /\ pc = "idle" /\ leg[0].status = "Disconnected"
  BY DEF CallInv, Unrouted
<1>2. ps \in Seq(Profile) /\ ps # << >>
  BY ListTypes
<1>3. /\ UnderWay(GetFirstProfile(c, ps)) /\ NoneYet([GetFirstProfile(c, ps) EXCEPT !.cdr = NoCdr])
      /\ GetFirstProfile(c, ps).profiles = ps /\ GetFirstProfile(c, ps).cur = 1
  BY <1>1, <1>2, FirstUnderWay
<1>4. Closed(WriteCdr(GetFirstProfile(c, ps), TRUE))
  BY <1>3, WriteCloses
<1>5. CASE failed \/ ps[1].auth
  <2>1. /\ CtxDropped /\ c' = [GetFirstProfile(c, ps) EXCEPT !.cdr = NoCdr] /\ final' = "no"
    BY <1>5 DEF OnProfilesReady
  <2>2. /\ leg'[0].status = "Disconnected" /\ stage' = "none" /\ pc' = "idle"
    BY <1>1, <2>1 DEF CtxDropped, Shape
  <2>3. NoneYet(c)'
    BY <1>3, <2>1
  <2> QED
    BY <1>1, <2>1, <2>2, <2>3 DEF Unrouted, CtxStep, Routed
<1>6. CASE ~(failed \/ ps[1].auth) /\ ps[1].refuse
  <2>1. /\ CtxDropped /\ c' = WriteCdr(GetFirstProfile(c, ps), TRUE) /\ final' = "due"
    BY <1>6 DEF OnProfilesReady
  <2>2. /\ leg'[0].status = "Disconnected" /\ stage' = "none" /\ pc' = "idle"
    BY <1>1, <2>1 DEF CtxDropped, Shape
  <2>3. Closed(c)'
    BY <1>4, <2>1
  <2> QED
    BY <1>1, <2>1, <2>2, <2>3 DEF Finished, CtxStep, Routed
<1>7. CASE ~(failed \/ ps[1].auth \/ ps[1].refuse)
  <2>1. /\ c' = GetFirstProfile(c, ps) /\ final' = "due" /\ ctx' = "live"
        /\ stage' \in {"radius", "aor", "none"}
    BY <1>7 DEF OnProfilesReady, ProcessAorResolving
  <2>2. UnderWay(c)' /\ c'.cur = 1 /\ c'.profiles = ps
    BY <1>3, <2>1
  <2>3. ps \in ProfileLists
    BY <1>7
  <2>4. Tried'
    BY <2>1, <2>2, <2>3 DEF Tried
  <2> QED
    BY <1>1, <2>1, <2>3, <2>4 DEF CtxStep, Routed
<1> QED
  BY <1>5, <1>6, <1>7

(* From the INVITE to the last answer of routing.                          *)
LEMMA RoutingPhase ==
  ASSUME CallInv, CdrInv, OnInvite \/ OnIdentityReady \/ Answered
  PROVE  (Unrouted \/ Tried \/ Finished)' /\ CtxStep
<1> USE LegSets
<1>1. Shape
  BY DEF CallInv
<1>2. CASE OnInvite
  <2>1. Unrouted
    BY <1>2 DEF OnInvite, CdrInv, Tried, Finished
  <2>2. leg'[0].status = leg[0].status /\ stage' \in {"cert", "none"} /\ UNCHANGED <<c, final, pc>>
    BY <1>1, <1>2 DEF OnInvite, Stopped, Shape, loopVars
  <2>3. Unrouted'
    BY <2>1, <2>2 DEF Unrouted
  <2> QED
    BY <2>2, <2>3 DEF CtxStep, Kept
<1>3. CASE OnIdentityReady
  <2>1. Unrouted /\ Idle(0) /\ stage = "cert"
    BY <1>3 DEF OnIdentityReady, CdrInv, Tried, Finished
  <2>2. CASE /\ leg' = [leg EXCEPT ![0].ctx = TRUE] /\ stage' = "db" /\ UNCHANGED <<c, pc, final>>
    <3>1. leg'[0].status = leg[0].status
      BY <1>1, <2>2 DEF Shape
    <3>2. Unrouted'
      BY <2>1, <2>2, <3>1 DEF Unrouted
    <3> QED
      BY <2>2, <3>2 DEF CtxStep, Kept
  <2>3. CASE OnProfilesReady(FailedProfiles, TRUE)
    BY <2>1, <2>3, RoutedPhase
  <2> QED
    BY <1>3, <2>2, <2>3 DEF OnIdentityReady
<1>4. CASE OnPostgresResponse
  <2>1. Unrouted /\ Idle(0) /\ stage = "db"
    BY <1>4 DEF OnPostgresResponse, CdrInv, Tried, Finished
  <2>2. ASSUME NEW ps \in ProfileLists, OnProfilesReady(ps, FALSE)
        PROVE  (Unrouted \/ Tried \/ Finished)' /\ CtxStep
    BY <2>1, <2>2, RoutedPhase
  <2>3. CASE OnProfilesReady(FailedProfiles, TRUE)
    BY <2>1, <2>3, RoutedPhase
  <2> QED
    BY <1>4, <2>2, <2>3 DEF OnPostgresResponse
<1>5. CASE OnPostgresFailed
  <2>1. Unrouted
    BY <1>5 DEF OnPostgresFailed, CdrInv, Tried, Finished
  <2>2. leg'[0].status = leg[0].status /\ stage' = "none" /\ UNCHANGED <<c, final, pc>>
    BY <1>1, <1>5 DEF OnPostgresFailed, CtxDropped, Shape
  <2>3. Unrouted'
    BY <2>1, <2>2 DEF Unrouted
  <2> QED
    BY <2>2, <2>3 DEF CtxStep, Kept
<1>6. CASE OnRadiusReply
  <2>1. Tried
    BY <1>6 DEF OnRadiusReply, CdrInv, Unrouted, Finished
  <2>2. UNCHANGED <<c, final, ctx>> /\ stage' \in {"aor", "none"} /\ stage = "radius"
    BY <1>6 DEF OnRadiusReply, ProcessAorResolving
  <2>3. Tried'
    BY <2>1, <2>2 DEF Tried
  <2> QED
    BY <2>2, <2>3 DEF CtxStep, Kept
<1>7. CASE OnRedisReply
  <2>1. /\ Tried /\ stage = "aor" /\ pc = "idle" /\ leg[0].status = "Disconnected"
        /\ UnderWay(c) /\ c.cur = 1 /\ c.profiles \in ProfileLists
        /\ UNCHANGED <<final, ctx>> /\ stage' = "none"
    BY <1>7 DEF OnRedisReply, CdrInv, Unrouted, Finished, Tried, CallInv, RoutingAlone
  <2>2. CASE UNCHANGED c
    BY <2>1, <2>2 DEF Tried, CtxStep, Kept
  <2>3. ASSUME NEW reply \in AorReplies, c' = PassSkipped(Resolve(c, reply)).c,
               IF PassSkipped(Resolve(c, reply)).found THEN pc' = "first" /\ UNCHANGED leg
                                                       ELSE leg' = Stopped(0) /\ UNCHANGED pc
        PROVE  (Unrouted \/ Tried \/ Finished)' /\ CtxStep
    <3> DEFINE r == PassSkipped(Resolve(c, reply))
    <3>1. IF r.found THEN UnderWay(r.c) ELSE Closed(r.c)
      BY <2>1, ResolvedUnderWay, PassedOrClosed
    <3>2. CtxStep
      BY <2>1, <2>3 DEF CtxStep, Passed
    <3>3. CASE r.found
      <4>1. UnderWay(c)'
        BY <2>3, <3>1, <3>3
      <4> QED
        BY <2>1, <3>2, <4>1 DEF Tried
    <3>4. CASE ~r.found
      <4>1. Closed(c)'
        BY <2>3, <3>1, <3>4
      <4>2. leg'[0].status = leg[0].status /\ pc' = pc
        BY <1>1, <2>3, <3>4 DEF Stopped, Shape
      <4> QED
        BY <2>1, <3>2, <4>1, <4>2 DEF Tried, Finished
    <3> QED
      BY <3>3, <3>4
  <2>4. \/ UNCHANGED c
        \/ \E reply \in AorReplies :
             /\ c' = PassSkipped(Resolve(c, reply)).c
             /\ IF PassSkipped(Resolve(c, reply)).found THEN pc' = "first" /\ UNCHANGED leg
                                                        ELSE leg' = Stopped(0) /\ UNCHANGED pc
    BY <1>7 DEF OnRedisReply
  <2> QED
    BY <2>2, <2>3, <2>4
<1> QED
  BY <1>2, <1>3, <1>4, <1>5, <1>6, <1>7 DEF Answered

(* The loops over rctl.get and hunting.                                    *)
LEMMA ChosenPhase ==
  ASSUME UnderWay(c), Tried, stage = "none", UNCHANGED <<stage, final, ctx>>,
         c' = c \/ \E early, failover \in BOOLEAN :
                      /\ c' = GetNextProfile(c, early, failover).c
                      /\ early => pc = "first"
                      /\ pc' = "first" => GetNextProfile(c, early, failover).found
  PROVE  (Unrouted \/ Tried \/ Finished)' /\ CtxStep
<1>1. UnderWay(c)'
  BY NextUnderWay
<1>2. Tried'
  BY <1>1 DEF Tried
<1> QED
  BY <1>2 DEF CtxStep, Kept, Chosen

LEMMA LoopPhase ==
  ASSUME CallInv, CdrInv, ProcessResourcesAndSdp \/ ChooseNextProfile
  PROVE  (Unrouted \/ Tried \/ Finished)' /\ CtxStep
<1>1. pc # "idle" /\ UNCHANGED <<stage, final, ctx>>
  BY DEF ProcessResourcesAndSdp, ChooseNextProfile
<1>2. Tried /\ UnderWay(c) /\ stage = "none"
  BY <1>1 DEF CdrInv, Unrouted, Tried, Finished, CallInv, RoutingAlone
<1>3. \/ c' = c
      \/ /\ c' = GetNextProfile(c, TRUE, FALSE).c /\ pc = "first"
         /\ pc' = "first" => GetNextProfile(c, TRUE, FALSE).found
      \/ c' = GetNextProfile(c, FALSE, TRUE).c /\ pc' # "first"
  BY DEF ProcessResourcesAndSdp, ChooseNextProfile
<1> QED
  BY <1>1, <1>2, <1>3, ChosenPhase

LEMMA ErrorPhase ==
  ASSUME CallInv, CdrInv, B2bInitialErr
  PROVE  (Unrouted \/ Tried \/ Finished)' /\ CtxStep /\ proc' = proc
<1> DEFINE l    == Head(q[0]).from
           left == others \ {l}
           lg   == [leg EXCEPT ![0].status = "NoReply", ![0].other = IF @ = l THEN None ELSE @]
<1>1. UNCHANGED <<stage, final, ctx>>
  BY DEF B2bInitialErr
<1>2. CASE UNCHANGED <<c, leg, pc, proc>>
  BY <1>1, <1>2, KeptPhase
<1>3. CASE leg[0].status \in {"NoReply", "Ringing"} /\ OnBLegRefused(lg, Popped(0), left)
  <2>1. Tried /\ UnderWay(c) /\ stage = "none" /\ c.cdr # NoCdr
    BY <1>3 DEF CdrInv, Unrouted, Tried, Finished, CallInv, RoutingAlone, UnderWay
  <2>2. (c' = c \/ (c' = GetNextProfile(c, FALSE, FALSE).c /\ pc' # "first")) /\ proc' = proc
    BY <1>3, <2>1 DEF OnBLegRefused, B2bInitialErr, Received, Idle
  <2> QED
    BY <1>1, <2>1, <2>2, ChosenPhase
<1> QED
  BY <1>2, <1>3 DEF B2bInitialErr

(* The last CDR is written.                                                *)
LEMMA WrittenPhase ==
  ASSUME CallInv, CallInv', CdrInv, c' = WriteCdr(c, TRUE), UNCHANGED <<stage, final, pc>>,
         ctx' = ctx \/ Tried, pc = "idle", leg'[0].status = "Disconnected",
         leg'[0].ctx => leg[0].ctx,
         stage = "none" \/ ~leg'[0].ctx
  PROVE  (Unrouted \/ Tried \/ Finished)' /\ CtxStep
<1>0. CtxStep
  BY DEF CtxStep, Written
<1>1. CASE Tried
  <2>1. Closed(c)'
    BY <1>1, WriteCloses DEF Tried
  <2>2. Finished'
    BY <1>1, <2>1 DEF Tried, Finished
  <2> QED
    BY <1>0, <2>2
<1>2. CASE Unrouted
  <2>1. c' = c
    BY <1>2, WriteNothing DEF Unrouted, NoneYet
  <2>2. Unrouted'
    BY <1>2, <2>1 DEF Unrouted
  <2> QED
    BY <1>0, <2>2
<1>3. CASE Finished
  <2>1. c' = c
    BY <1>3, WriteNothing DEF Finished, Closed
  <2>2. Finished'
    BY <1>3, <2>1 DEF Finished
  <2> QED
    BY <1>0, <2>2
<1> QED
  BY <1>1, <1>2, <1>3 DEF CdrInv

LEMMA ByePhase ==
  ASSUME CallInv, CallInv', CdrInv, NEW l \in AllLegs, OnOtherBye(l)
  PROVE  (Unrouted \/ Tried \/ Finished)' /\ CtxStep
<1> USE LegSets
<1>1. /\ Shape /\ UNCHANGED <<ctx, stage, final, pc>> /\ pc = "idle" /\ Received(l, "bye")
      /\ leg' = [leg EXCEPT ![l].alive = "stopped", ![l].status = "Disconnected"]
  BY DEF CallInv, OnOtherBye, Received, Idle, loopVars
<1>2. /\ leg'[0].ctx = leg[0].ctx
      /\ leg'[0].status # "Disconnected" => leg[0].status # "Disconnected"
      /\ l = 0 => leg'[0].status = "Disconnected"
  BY <1>1 DEF Shape
<1>3. CASE c' = c
  BY <1>1, <1>2, <1>3, KeptPhase
<1>4. CASE l = 0 /\ c' = WriteCdr(c, TRUE)
  <2>1. stage = "none"
    <3>1. SUFFICES ASSUME stage # "none" PROVE FALSE
      OBVIOUS
    <3>2. q[0] \in Seq(Teardowns) /\ q[0] # << >> /\ Head(q[0]).t = "bye"
      BY <1>1, <1>4, <3>1 DEF CdrInv, RoutingOnly, Received
    <3>3. Head(q[0]) \in Teardowns
      BY <3>2
    <3> QED
      BY <3>2, <3>3 DEF Teardowns, Event
  <2> QED
    BY <1>1, <1>2, <1>4, <2>1, WrittenPhase
<1> QED
  BY <1>3, <1>4 DEF OnOtherBye

LEMMA DestroyPhase ==
  ASSUME CallInv, CallInv', CdrInv, NEW l \in AllLegs, OnBeforeDestroy(l)
  PROVE  (Unrouted \/ Tried \/ Finished)' /\ CtxStep
<1> USE LegSets
<1>1. /\ Shape /\ UNCHANGED <<stage, final, pc>> /\ pc = "idle"
      /\ leg' = [leg EXCEPT ![l] = [NoLeg EXCEPT !.alive = "gone"]]
  BY DEF CallInv, OnBeforeDestroy, Idle, loopVars
<1>2. /\ leg'[0].ctx => leg[0].ctx
      /\ leg'[0].status # "Disconnected" => leg[0].status # "Disconnected"
  BY <1>1 DEF Shape, NoLeg
<1>3. CASE UNCHANGED <<c, ctx>>
  BY <1>1, <1>2, <1>3, KeptPhase
<1>4. CASE /\ leg[l].ctx /\ refs' = 0 /\ ctx' = "deleted" /\ c' = WriteCdr(c, TRUE)
  <2>1. \A k \in AllLegs : ~leg'[k].ctx
    <3>1. CtxLegs' \subseteq AllLegs /\ refs' = Cardinality(CtxLegs')
      BY DEF CallInv, CtxCounted, CtxLegs
    <3>2. IsFiniteSet(CtxLegs')
      BY <3>1, FS_Subset
    <3>3. CtxLegs' = {}
      BY <1>4, <3>1, <3>2, FS_EmptySet
    <3> QED
      BY <3>3 DEF CtxLegs
  <2>2. leg'[0].status = "Disconnected"
    BY <2>1 DEF CallInv, LoopAlone
  <2>3. CASE Tried
    BY <1>1, <1>4, <2>1, <2>2, <2>3, WrittenPhase
  <2>4. CASE Unrouted
    <3>1. c' = c
      BY <1>4, <2>4, WriteNothing DEF Unrouted, NoneYet
    <3>2. Unrouted'
      BY <1>1, <2>2, <2>4, <3>1 DEF Unrouted
    <3> QED
      BY <3>1, <3>2 DEF CtxStep, Kept
  <2>5. CASE Finished
    <3>1. c' = c
      BY <1>4, <2>5, WriteNothing DEF Finished, Closed
    <3>2. Finished'
      BY <1>1, <2>1, <2>2, <2>5, <3>1 DEF Finished
    <3> QED
      BY <3>1, <3>2 DEF CtxStep, Kept
  <2> QED
    BY <2>3, <2>4, <2>5 DEF CdrInv
<1> QED
  BY <1>3, <1>4 DEF OnBeforeDestroy

(* The remaining events leave the context alone.                           *)
LEMMA QuietPhase ==
  ASSUME CallInv, CdrInv,
         \/ B2bInitial1xx \/ B2bInitial2xx \/ OnCancel \/ OnBye \/ OnTimerEvent
         \/ \E l \in AllLegs : OnTerminateLeg(l) \/ OnTearDown(l) \/ RemoveCall(l) \/ OnServerShutdown(l)
         \/ \E l \in Bs : Callee(l)
  PROVE  (Unrouted \/ Tried \/ Finished)' /\ CtxStep
<1> USE LegSets
<1>1. UNCHANGED <<c, final, ctx, pc, stage>>
  <2>1. CASE B2bInitial1xx \/ B2bInitial2xx \/ OnCancel \/ OnBye \/ OnTimerEvent
    BY <2>1 DEF B2bInitial1xx, B2bInitial2xx, OnCancel, OnBye, OnTimerEvent, loopVars
  <2>2. ASSUME NEW l \in AllLegs, OnTerminateLeg(l) \/ OnTearDown(l) \/ RemoveCall(l) \/ OnServerShutdown(l)
        PROVE  UNCHANGED <<c, final, ctx, pc, stage>>
    BY <2>2 DEF OnTerminateLeg, OnTearDown, RemoveCall, OnServerShutdown, loopVars
  <2>3. ASSUME NEW l \in Bs, Callee(l)
        PROVE  UNCHANGED <<c, final, ctx, pc, stage>>
    BY <2>3 DEF Callee, OnB2BConnect, OnSipReply, TerminateLegOnReplyException, OnException,
                OnCalleeBye, OnCalleeTimeout, OnRefer, loopVars
  <2> QED
    BY <2>1, <2>2, <2>3
<1>2. /\ leg'[0].status # "Disconnected" => leg[0].status # "Disconnected"
      /\ leg'[0].ctx => leg[0].ctx
  <2>1. ASSUME Quiet
        PROVE  /\ leg'[0].status # "Disconnected" => leg[0].status # "Disconnected"
               /\ leg'[0].ctx => leg[0].ctx
    BY <2>1 DEF Quiet
  <2>2. ASSUME NEW l \in Bs, OnRefer(l) PROVE leg'[0] = leg[0]
    BY <2>2 DEF OnRefer, CallInv, Shape
  <2>3. ASSUME NEW l \in Bs, Callee(l), ~OnRefer(l) PROVE Quiet
    BY <2>3, QuietCallee
  <2>4. ASSUME \/ B2bInitial1xx \/ B2bInitial2xx \/ OnCancel \/ OnBye \/ OnTimerEvent
               \/ \E l \in AllLegs : OnTerminateLeg(l) \/ OnTearDown(l) \/ RemoveCall(l) \/ OnServerShutdown(l)
        PROVE  Quiet
    BY <2>4, QuietEvents DEF LegEvent
  <2> QED
    BY <2>1, <2>2, <2>3, <2>4
<1> QED
  BY <1>1, <1>2, KeptPhase

(* Only the A leg's own events happen while routing is awaited.            *)
LEMMA RoutingOnlyStep ==
  ASSUME CallInv, RoutingOnly, Next
  PROVE  RoutingOnly'
<1> USE LegSets
<1>1. SUFFICES ASSUME stage' # "none" PROVE RoutingOnly'
  BY DEF RoutingOnly
<1>2. stage # "none"
  <2>1. CASE OnInvite \/ OnIdentityReady \/ Answered
    BY <2>1 DEF OnInvite, OnIdentityReady, Answered, OnPostgresResponse, OnPostgresFailed,
                OnRadiusReply, OnRedisReply
  <2>2. CASE ProcessResourcesAndSdp \/ ChooseNextProfile \/ ALegEvent \/ OnCancel \/ OnBye \/ OnTimerEvent
    BY <1>1, <2>2 DEF ProcessResourcesAndSdp, ChooseNextProfile, ALegEvent, B2bInitial1xx,
                      B2bInitial2xx, B2bInitialErr, OnCancel, OnBye, OnTimerEvent
  <2>3. ASSUME NEW l \in AllLegs, LegEvent(l) \/ RemoveCall(l) \/ OnServerShutdown(l) \/ OnBeforeDestroy(l)
        PROVE  stage' = stage
    BY <2>3 DEF LegEvent, OnOtherBye, OnTerminateLeg, OnTearDown, RemoveCall, OnServerShutdown, OnBeforeDestroy
  <2>4. ASSUME NEW l \in Bs, Callee(l) PROVE stage' = stage
    BY <2>4 DEF Callee, OnB2BConnect, OnSipReply, TerminateLegOnReplyException, OnException,
                OnCalleeBye, OnCalleeTimeout, OnRefer
  <2>5. CASE Terminated
    BY <1>1, <2>5 DEF Terminated, vars
  <2> QED
    BY <1>1, <2>1, <2>2, <2>3, <2>4, <2>5 DEF Next
<1>3. /\ others = {} /\ leg[0].other = None /\ (\A l \in Bs : leg[l].alive = "none")
      /\ DOMAIN q = AllLegs /\ q[0] \in Seq(Teardowns)
      /\ pc = "idle" /\ leg[0].status = "Disconnected" /\ Shape
  BY <1>2 DEF RoutingOnly, CallInv, RoutingAlone
<1>4. ASSUME NEW l \in AllLegs, NEW t, Received(l, t) PROVE l = 0 /\ t = "teardown"
  <2>1. l = 0 /\ q[0] # << >> /\ Head(q[0]).t = t
    BY <1>3, <1>4 DEF Received, Idle
  <2>2. Head(q[0]) \in Teardowns
    BY <1>3, <2>1
  <2> QED
    BY <2>1, <2>2 DEF Teardowns, Event
<1>5. ASSUME NEW l \in AllLegs, Idle(l) PROVE l = 0
  BY <1>3, <1>5 DEF Idle
<1>6. ASSUME others' = {}, leg'[0].other = None, \A l \in Bs : leg'[l].alive = leg[l].alive,
             DOMAIN q' = AllLegs, q'[0] \in Seq(Teardowns)
      PROVE  RoutingOnly'
  BY <1>3, <1>6 DEF RoutingOnly
<1>7. CASE OnInvite \/ OnIdentityReady \/ Answered
  <2>1. UNCHANGED <<q, others>>
    BY <1>7 DEF OnInvite, OnIdentityReady, Answered, OnPostgresResponse, OnPostgresFailed,
                OnRadiusReply, OnRedisReply
  <2>2. leg'[0].other = leg[0].other /\ \A l \in Bs : leg'[l].alive = leg[l].alive
    <3>1. CASE OnInvite
      BY <1>3, <3>1 DEF OnInvite, Stopped, Shape
    <3>2. ASSUME NEW ps, NEW failed, OnProfilesReady(ps, failed)
          PROVE  leg'[0].other = leg[0].other /\ \A l \in Bs : leg'[l].alive = leg[l].alive
      <4>1. \/ leg' = [leg EXCEPT ![0].alive = "stopped", ![0].ctx = FALSE]
            \/ leg' = [leg EXCEPT ![0].prof = 1, ![0].ctx = TRUE]
            \/ leg' = [leg EXCEPT ![0].prof = 1, ![0].ctx = TRUE, ![0].alive = "stopped"]
        BY <3>2 DEF OnProfilesReady, CtxDropped
      <4> QED
        BY <1>3, <4>1 DEF Shape
    <3>3. CASE OnIdentityReady
      <4>1. leg' = [leg EXCEPT ![0].ctx = TRUE] \/ OnProfilesReady(FailedProfiles, TRUE)
        BY <3>3 DEF OnIdentityReady
      <4> QED
        BY <1>3, <3>2, <4>1 DEF Shape
    <3>4. CASE OnPostgresResponse
      BY <3>2, <3>4 DEF OnPostgresResponse
    <3>5. CASE OnPostgresFailed
      BY <1>3, <3>5 DEF OnPostgresFailed, CtxDropped, Shape
    <3>6. CASE OnRadiusReply
      BY <1>3, <3>6 DEF OnRadiusReply, Stopped, Shape
    <3>7. CASE OnRedisReply
      <4>1. leg' = Stopped(0) \/ leg' = leg
        BY <3>7 DEF OnRedisReply
      <4> QED
        BY <1>3, <4>1 DEF Stopped, Shape
    <3> QED
      BY <1>7, <3>1, <3>3, <3>4, <3>5, <3>6, <3>7 DEF Answered
  <2> QED
    BY <1>3, <1>6, <2>1, <2>2
<1>8. CASE ProcessResourcesAndSdp \/ ChooseNextProfile \/ OnBye \/ OnTimerEvent
  BY <1>3, <1>8 DEF ProcessResourcesAndSdp, ChooseNextProfile, OnBye, OnTimerEvent
<1>9. CASE ALegEvent
  <2>1. Received(0, "1xx") \/ Received(0, "2xx") \/ Received(0, "err")
    BY <1>9 DEF ALegEvent, B2bInitial1xx, B2bInitial2xx, B2bInitialErr
  <2> QED
    BY <1>4, <2>1
<1>10. ASSUME NEW qq, StopCall(leg, others, qq), qq[0] \in Seq(Teardowns) PROVE RoutingOnly'
  <2>1. others' = {} /\ leg'[0].other = None /\ \A l \in Bs : leg'[l].alive = leg[l].alive
    BY <1>3, <1>10 DEF StopCall, Shape
  <2>2. q' = Posted(qq, {}, Event("terminate", 0))
    <3>1. others \cup ({leg[0].other} \ {None}) = {}
      BY <1>3
    <3> QED
      BY <1>10, <3>1 DEF StopCall
  <2>3. DOMAIN q' = AllLegs /\ q'[0] = qq[0]
    BY <2>2 DEF Posted
  <2> QED
    BY <1>6, <1>10, <2>1, <2>3
<1>11. CASE OnCancel
  BY <1>3, <1>10, <1>11 DEF OnCancel
<1>12. ASSUME NEW l \in AllLegs, LegEvent(l) PROVE RoutingOnly'
  <2>1. l = 0 /\ Received(0, "teardown") /\ OnTearDown(0)
    <3>1. CASE OnTearDown(l)
      <4>1. Received(l, "teardown")
        BY <3>1 DEF OnTearDown
      <4> QED
        BY <1>4, <3>1, <4>1
    <3>2. CASE OnOtherBye(l) \/ OnTerminateLeg(l)
      <4>1. Received(l, "bye") \/ Received(l, "terminate") \/ Received(l, "exception")
        BY <3>2 DEF OnOtherBye, OnTerminateLeg
      <4> QED
        BY <1>4, <4>1
    <3> QED
      BY <1>12, <3>1, <3>2 DEF LegEvent
  <2>2. StopCall(leg, others, Popped(0))
    BY <2>1 DEF OnTearDown
  <2>3. Popped(0)[0] = Tail(q[0]) /\ q[0] # << >>
    BY <1>3, <2>1 DEF Popped, Received
  <2>4. Popped(0)[0] \in Seq(Teardowns)
    <3>1. PICK t \in Seq(Teardowns) : t = q[0]
      BY <1>3
    <3>2. t # << >> => Tail(t) \in Seq(Teardowns)
      OBVIOUS
    <3> QED
      BY ONLY <2>3, <3>1, <3>2
  <2> QED
    BY <1>10, <2>2, <2>4
<1>13. ASSUME NEW l \in AllLegs, RemoveCall(l) PROVE RoutingOnly'
  <2>1. /\ l = 0 /\ q' = Posted(q, {0}, Event("teardown", 0)) /\ UNCHANGED <<leg, others>>
    BY <1>3, <1>13 DEF RemoveCall
  <2>2. DOMAIN q' = AllLegs /\ (q'[0] = q[0] \/ q'[0] = Append(q[0], Event("teardown", 0)))
    BY <2>1 DEF Posted
  <2>3. PICK e \in Teardowns : e = Event("teardown", 0)
    BY DEF Teardowns
  <2>4. Append(q[0], e) \in Seq(Teardowns)
    BY <1>3
  <2>5. q'[0] \in Seq(Teardowns)
    BY <1>3, <2>2, <2>3, <2>4
  <2> QED
    BY <1>3, <1>6, <2>1, <2>2, <2>5
<1>14. ASSUME NEW l \in AllLegs, OnServerShutdown(l) \/ OnBeforeDestroy(l) PROVE RoutingOnly'
  <2>1. l = 0 /\ UNCHANGED <<q, others>>
    BY <1>5, <1>14 DEF OnServerShutdown, OnBeforeDestroy
  <2>2. leg'[0].other = None /\ \A k \in Bs : leg'[k].alive = leg[k].alive
    <3>1. CASE leg' = Stopped(0)
      BY <1>3, <3>1 DEF Stopped, Shape
    <3>2. CASE leg' = [leg EXCEPT ![0] = [NoLeg EXCEPT !.alive = "gone"]]
      <4>1. leg'[0] = [NoLeg EXCEPT !.alive = "gone"] /\ \A k \in Bs : leg'[k] = leg[k]
        BY <1>3, <3>2 DEF Shape
      <4>2. [NoLeg EXCEPT !.alive = "gone"].other = None
        BY DEF NoLeg
      <4> QED
        BY <4>1, <4>2
    <3> QED
      BY <1>14, <2>1, <3>1, <3>2 DEF OnServerShutdown, OnBeforeDestroy
  <2> QED
    BY <1>3, <1>6, <2>1, <2>2
<1>15. ASSUME NEW l \in Bs, Callee(l) PROVE FALSE
  <2>1. Idle(l)
    BY <1>15 DEF Callee, OnB2BConnect, OnSipReply, TerminateLegOnReplyException, OnException,
                 OnCalleeBye, OnCalleeTimeout, OnRefer, Received
  <2> QED
    BY <1>5, <2>1
<1>16. CASE Terminated
  BY <1>16 DEF Terminated, vars, RoutingOnly
<1> QED
  BY <1>7, <1>8, <1>9, <1>11, <1>12, <1>13, <1>14, <1>15, <1>16 DEF Next

(* Every step keeps the invariant and changes the context in one of the    *)
(* ways of CtxStep.                                                        *)
LEMMA CdrInductive ==
  /\ Init => CdrInv
  /\ CallInv /\ CallInv' /\ CdrInv /\ [Next]_vars => CdrInv' /\ CtxStep
<1>1. Init => CdrInv
  <2> SUFFICES ASSUME Init PROVE CdrInv
    OBVIOUS
  <2> USE LegSets
  <2>1. /\ leg[0].status = "Disconnected" /\ leg[0].other = None
        /\ \A l \in Bs : leg[l].alive = "none"
    BY DEF Init, NoLeg
  <2>2. DOMAIN q = AllLegs /\ q[0] = << >>
    BY DEF Init
  <2>3. NoneYet(NewCtx)
    BY DEF NewCtx, NoneYet, CtxType, CdrType, NoCdr
  <2>4. Unrouted
    BY <2>1, <2>3 DEF Init, Unrouted
  <2>5. RoutingOnly
    BY <2>1, <2>2, EmptySeq DEF Init, RoutingOnly
  <2> QED
    BY <2>4, <2>5 DEF CdrInv
<1>2. ASSUME CallInv, CallInv', CdrInv, [Next]_vars PROVE CdrInv' /\ CtxStep
  <2>1. CASE UNCHANGED vars
    BY <1>2, <2>1
       DEF CdrInv, RoutingOnly, Unrouted, Tried, Finished, CtxStep, Kept, vars, loopVars
  <2>2. CASE Next
    <3>1. RoutingOnly'
      BY <1>2, <2>2, RoutingOnlyStep DEF CdrInv
    <3>2. CASE OnInvite \/ OnIdentityReady \/ Answered
      BY <1>2, <3>1, <3>2, RoutingPhase DEF CdrInv
    <3>3. CASE ProcessResourcesAndSdp \/ ChooseNextProfile
      BY <1>2, <3>1, <3>3, LoopPhase DEF CdrInv
    <3>4. CASE B2bInitialErr
      BY <1>2, <3>1, <3>4, ErrorPhase DEF CdrInv
    <3>5. ASSUME NEW l \in AllLegs, OnOtherBye(l) \/ OnBeforeDestroy(l) PROVE CdrInv' /\ CtxStep
      BY <1>2, <3>1, <3>5, ByePhase, DestroyPhase DEF CdrInv
    <3>6. CASE \/ B2bInitial1xx \/ B2bInitial2xx \/ OnCancel \/ OnBye \/ OnTimerEvent
               \/ \E l \in AllLegs : OnTerminateLeg(l) \/ OnTearDown(l) \/ RemoveCall(l) \/ OnServerShutdown(l)
               \/ \E l \in Bs : Callee(l)
      BY <1>2, <3>1, <3>6, QuietPhase DEF CdrInv
    <3>7. CASE Terminated
      BY <2>1, <3>7 DEF Terminated
    <3> QED
      BY <2>2, <3>2, <3>3, <3>4, <3>5, <3>6, <3>7 DEF Next, ALegEvent, LegEvent
  <2> QED
    BY <1>2, <2>1, <2>2
<1> QED
  BY <1>1, <1>2

(* A call that was routed ends with one CDR marked as its last and no CDR  *)
(* follows it, whichever of an early BYE, the registrar's answer, a        *)
(* refusing profile or the last leg's destruction writes it (write_cdr in  *)
(* onOtherBye, onRedisReply, onProfilesReady, onBeforeDestroy).            *)
THEOREM OneLastCdr == Spec => []LastCdrOnce
<1>1. CallInv /\ CdrInv => LastCdrOnce
  <2> SUFFICES ASSUME CdrInv PROVE LastCdrOnce
    OBVIOUS
  <2>1. CASE Unrouted
    BY <2>1 DEF Unrouted, NoneYet, LastCdrOnce
  <2>2. CASE Tried
    BY <2>2 DEF Tried, UnderWay, LastCdrOnce
  <2>3. CASE Finished
    <3>1. /\ Closed(c) /\ final = "due" /\ c.written \in Seq(Row) /\ c.written # << >>
          /\ \A i \in DOMAIN c.written : c.written[i].last <=> i = Len(c.written)
      BY <2>3, CtxParts DEF Finished, Closed
    <3>2. Len(c.written) \in DOMAIN c.written
      BY <3>1, EmptySeq
    <3> QED
      BY <3>1, <3>2 DEF LastCdrOnce
  <2> QED
    BY <2>1, <2>2, <2>3 DEF CdrInv
<1> QED
  BY <1>1, CallInductive, CdrInductive, PTL DEF Spec

(* onBLegRefused never reads a CDR that was already written: an error      *)
(* reply is handled only while the CDR of its attempt is under way, also   *)
(* after an early BYE wrote it (b2bInitialErr, onOtherBye), whatever the   *)
(* services and rctl.get answer.                                           *)
THEOREM NullCdrNotRead == Spec => []NoNullCdrRead
<1>1. Init => NoNullCdrRead
  BY DEF Init, NoNullCdrRead
<1>2. CallInv /\ CdrInv /\ NoNullCdrRead /\ [Next]_vars => NoNullCdrRead'
  <2> SUFFICES ASSUME CallInv, CdrInv, proc # "no_cdr", [Next]_vars PROVE proc' # "no_cdr"
    BY DEF NoNullCdrRead
  <2>1. CASE ProcessResourcesAndSdp \/ ChooseNextProfile
    BY <2>1 DEF ProcessResourcesAndSdp, ChooseNextProfile
  <2>2. CASE B2bInitialErr
    BY <2>2, ErrorPhase
  <2>3. CASE OnInvite \/ OnIdentityReady \/ Answered
    BY <2>3 DEF OnInvite, OnIdentityReady, Answered, OnPostgresResponse, OnPostgresFailed,
                OnRadiusReply, OnRedisReply
  <2>4. CASE \/ B2bInitial1xx \/ B2bInitial2xx \/ OnCancel \/ OnBye \/ OnTimerEvent
    BY <2>4 DEF B2bInitial1xx, B2bInitial2xx, OnCancel, OnBye, OnTimerEvent
  <2>5. ASSUME NEW l \in AllLegs, LegEvent(l) \/ RemoveCall(l) \/ OnServerShutdown(l) \/ OnBeforeDestroy(l)
        PROVE  proc' = proc
    BY <2>5 DEF LegEvent, OnOtherBye, OnTerminateLeg, OnTearDown, RemoveCall, OnServerShutdown, OnBeforeDestroy
  <2>6. ASSUME NEW l \in Bs, Callee(l) PROVE proc' = proc
    BY <2>6 DEF Callee, OnB2BConnect, OnSipReply, TerminateLegOnReplyException, OnException,
                OnCalleeBye, OnCalleeTimeout, OnRefer
  <2>7. CASE Terminated \/ UNCHANGED vars
    BY <2>7 DEF Terminated, vars
  <2> QED
    BY <2>1, <2>2, <2>3, <2>4, <2>5, <2>6, <2>7 DEF Next, ALegEvent
<1> QED
  BY <1>1, <1>2, CallInductive, CdrInductive, PTL DEF Spec

-----------------------------------------------------------------------------
(* Refusals.  A B leg refuses at most once: before, it has its INVITE      *)
(* pending or the request for it in its queue; afterwards it runs no more. *)
Tags == {"connect", "1xx", "2xx", "err", "bye", "terminate", "exception", "teardown"}
Mild == Tags \ {"connect", "err"}
Ev   == {e \in [t : Tags, from : AllLegs] : e.t = "err" => e.from \in Bs}

Errs(w, l)      == {i \in DOMAIN w : w[i].t = "err" /\ w[i].from = l}
Single(w, l)    == \A i, j \in Errs(w, l) : i = j
HasConnect(w)   == \E i \in DOMAIN w : w[i].t = "connect"
ConnectFirst(w) == \A i \in DOMAIN w : w[i].t = "connect" => i = 1

(* A queue v that has no refusal and no connect that w does not have.      *)
Milder(w, v) ==
  /\ v \in Seq(Ev)
  /\ ConnectFirst(w) => ConnectFirst(v)
  /\ HasConnect(v) => HasConnect(w)
  /\ \A l \in Bs : /\ Single(w, l) => Single(v, l)
                   /\ Errs(v, l) # {} => Errs(w, l) # {}

LEMMA MilderSame ==
  ASSUME NEW w \in Seq(Ev) PROVE Milder(w, w)
BY DEF Milder

LEMMA MilderTrans ==
  ASSUME NEW w, NEW v, NEW u, Milder(w, v), Milder(v, u) PROVE Milder(w, u)
BY DEF Milder

(* The first event is taken.                                               *)
LEMMA MilderTail ==
  ASSUME NEW w \in Seq(Ev), w # << >>
  PROVE  /\ Milder(w, Tail(w))
         /\ ConnectFirst(w) => ~HasConnect(Tail(w))
         /\ Head(w) \in Ev
         /\ \A l : Single(w, l) /\ Head(w).t = "err" /\ Head(w).from = l => Errs(Tail(w), l) = {}
<1>1. /\ Tail(w) \in Seq(Ev) /\ Len(w) \in Nat /\ Len(w) >= 1
      /\ DOMAIN w = 1..Len(w) /\ DOMAIN Tail(w) = 1..(Len(w) - 1)
      /\ \A i \in 1..(Len(w) - 1) : Tail(w)[i] = w[i + 1] /\ i + 1 \in DOMAIN w /\ i + 1 # 1
      /\ Head(w) = w[1] /\ 1 \in DOMAIN w /\ Head(w) \in Ev
  OBVIOUS
<1>2. \A l : \A i \in Errs(Tail(w), l) : i + 1 \in Errs(w, l) /\ i + 1 # 1 /\ i \in Int
  BY <1>1 DEF Errs
<1>3. \A l : Single(w, l) => Single(Tail(w), l)
  <2> SUFFICES ASSUME NEW l, Single(w, l), NEW i \in Errs(Tail(w), l), NEW j \in Errs(Tail(w), l)
               PROVE i = j
    BY DEF Single
  <2>1. i + 1 = j + 1 /\ i \in Int /\ j \in Int
    BY <1>2 DEF Single
  <2> QED
    BY <2>1
<1>4. \A l : Errs(Tail(w), l) # {} => Errs(w, l) # {}
  BY <1>2
<1>5. HasConnect(Tail(w)) => HasConnect(w)
  BY <1>1 DEF HasConnect
<1>6. ConnectFirst(w) => ~HasConnect(Tail(w))
  BY <1>1 DEF ConnectFirst, HasConnect
<1>7. ~HasConnect(Tail(w)) => ConnectFirst(Tail(w))
  BY DEF ConnectFirst, HasConnect
<1>8. \A l : Single(w, l) /\ Head(w).t = "err" /\ Head(w).from = l => Errs(Tail(w), l) = {}
  <2>1. \A l : Head(w).t = "err" /\ Head(w).from = l => 1 \in Errs(w, l)
    BY <1>1 DEF Errs
  <2> QED
    BY <1>2, <2>1 DEF Single
<1> QED
  BY <1>1, <1>3, <1>4, <1>5, <1>6, <1>7, <1>8 DEF Milder

LEMMA EventIs ==
  ASSUME NEW t \in Tags, NEW l \in AllLegs, t = "err" => l \in Bs
  PROVE  Event(t, l) \in Ev /\ Event(t, l).t = t /\ Event(t, l).from = l
BY DEF Event, Ev

(* An event is posted.                                                     *)
LEMMA AppendedEvent ==
  ASSUME NEW w \in Seq(Ev), NEW e \in Ev
  PROVE  /\ Append(w, e) \in Seq(Ev)
         /\ e.t \in Mild => Milder(w, Append(w, e))
         /\ e.t = "err" =>
              /\ HasConnect(Append(w, e)) => HasConnect(w)
              /\ ConnectFirst(w) => ConnectFirst(Append(w, e))
              /\ \A l : l # e.from => Errs(Append(w, e), l) = Errs(w, l)
              /\ Errs(w, e.from) = {} => Single(Append(w, e), e.from)
<1>1. /\ Append(w, e) \in Seq(Ev) /\ Len(w) \in Nat
      /\ DOMAIN w = 1..Len(w) /\ DOMAIN Append(w, e) = 1..(Len(w) + 1)
      /\ \A i \in 1..Len(w) : Append(w, e)[i] = w[i]
      /\ Append(w, e)[Len(w) + 1] = e
  OBVIOUS
<1>2. PICK v : v = Append(w, e)
  OBVIOUS
<1>3. \A i \in DOMAIN v : (i \in DOMAIN w /\ v[i] = w[i]) \/ (i = Len(w) + 1 /\ v[i] = e)
  BY <1>1, <1>2
<1>4. \A i \in DOMAIN w : i \in DOMAIN v /\ v[i] = w[i]
  BY <1>1, <1>2
<1>5. e.t # "connect" => /\ HasConnect(v) => HasConnect(w)
                         /\ ConnectFirst(w) => ConnectFirst(v)
  BY <1>3 DEF HasConnect, ConnectFirst
<1>6. \A l : e.t # "err" \/ l # e.from => Errs(v, l) = Errs(w, l)
  BY <1>3, <1>4 DEF Errs
<1>7. Errs(w, e.from) = {} => Single(v, e.from)
  BY <1>3 DEF Errs, Single
<1>8. e.t \in Mild => e.t # "connect" /\ e.t # "err"
  BY DEF Mild
<1>9. e.t \in Mild => Milder(w, v)
  BY <1>1, <1>2, <1>5, <1>6, <1>8 DEF Milder, Single
<1> QED
  BY <1>1, <1>2, <1>5, <1>6, <1>7, <1>9

-----------------------------------------------------------------------------
(* A leg that may still refuse, or whose refusal was not handled yet.      *)
Open(l) ==
  leg[l].alive = "run" \/ Pending(l) \/ HasConnect(q[l]) \/ Errs(q[0], l) # {}

RefusesOnce(l) ==
  /\ ConnectFirst(q[l])
  /\ HasConnect(q[l]) => leg[l].status = "Disconnected"
  /\ Single(q[0], l)
  /\ Errs(q[0], l) # {} => leg[l].alive # "run" /\ ~Pending(l) /\ ~HasConnect(q[l])
  /\ leg[l].alive = "none" => ~Open(l)

Queues == DOMAIN q = AllLegs /\ \A l \in AllLegs : q[l] \in Seq(Ev)

(* One callee at a time: the inductive invariant of hunting.               *)
HuntInv ==
  /\ Queues
  /\ \A l \in Bs : RefusesOnce(l)
  /\ \A l, m \in Bs : Open(l) /\ Open(m) => l = m
  /\ pc # "idle" => \A l \in Bs : ~Open(l)

AllMilder(qq) == DOMAIN qq = AllLegs /\ \A l \in AllLegs : Milder(q[l], qq[l])

LEMMA MilderQueues ==
  ASSUME Queues
  PROVE  /\ AllMilder(q)
         /\ \A l \in AllLegs : q[l] # << >> => AllMilder(Popped(l))
<1>1. AllMilder(q)
  BY MilderSame DEF Queues, AllMilder
<1>2. ASSUME NEW l \in AllLegs, q[l] # << >> PROVE AllMilder(Popped(l))
  <2>1. Milder(q[l], Tail(q[l]))
    BY <1>2, MilderTail DEF Queues
  <2>2. /\ DOMAIN Popped(l) = AllLegs
        /\ Popped(l)[l] = Tail(q[l]) /\ \A m \in AllLegs : m # l => Popped(l)[m] = q[m]
    BY DEF Queues, Popped
  <2> QED
    BY <1>1, <2>1, <2>2 DEF AllMilder
<1> QED
  BY <1>1, <1>2

LEMMA MilderPosts ==
  ASSUME NEW qq, AllMilder(qq), NEW D, NEW t \in Mild, NEW l \in AllLegs
  PROVE  AllMilder(Posted(qq, D, Event(t, l))) /\ AllMilder(Relayed(qq, l, t))
<1>1. PICK e \in Ev : e = Event(t, l) /\ e.t \in Mild
  BY EventIs DEF Mild
<1>2. ASSUME NEW E PROVE AllMilder(Posted(qq, E, e))
  <2>1. /\ DOMAIN Posted(qq, E, e) = AllLegs
        /\ \A m \in AllLegs : Posted(qq, E, e)[m] \in {qq[m], Append(qq[m], e)}
    BY DEF Posted
  <2>2. \A m \in AllLegs : qq[m] \in Seq(Ev) /\ Milder(q[m], qq[m])
    BY DEF AllMilder, Milder
  <2>3. \A m \in AllLegs : Milder(qq[m], Append(qq[m], e))
    BY <1>1, <2>2, AppendedEvent
  <2>4. \A m \in AllLegs : Milder(q[m], Append(qq[m], e))
    BY <2>2, <2>3, MilderTrans
  <2> QED
    BY <2>1, <2>2, <2>4 DEF AllMilder
<1>3. Relayed(qq, l, t) = qq \/ \E E : Relayed(qq, l, t) = Posted(qq, E, e)
  BY <1>1 DEF Relayed
<1> QED
  BY <1>1, <1>2, <1>3

(* An event that opens no leg keeps the invariant.                         *)
LEMMA MildStep ==
  ASSUME HuntInv, AllMilder(q'), pc' = pc \/ pc' = "idle",
         \A l \in Bs : /\ leg'[l].alive = "run" => leg[l].alive = "run"
                       /\ leg'[l].alive = "none" => leg[l].alive = "none"
                       /\ leg[l].status = "Disconnected" => leg'[l].status = "Disconnected"
                       /\ Pending(l)' => Pending(l)
  PROVE  HuntInv' /\ \A l \in Bs : Open(l)' => Open(l)
<1> USE LegSets
<1>1. Queues'
  BY DEF AllMilder, Milder, Queues
<1>2. \A l \in Bs : /\ Milder(q[l], q'[l])
                    /\ Single(q[0], l) => Single(q'[0], l)
                    /\ Errs(q'[0], l) # {} => Errs(q[0], l) # {}
  BY DEF AllMilder, Milder
<1>3. ASSUME NEW l \in Bs PROVE Open(l)' => Open(l)
  BY <1>2 DEF Open, Milder
<1>4. ASSUME NEW l \in Bs PROVE RefusesOnce(l)'
  <2>1. RefusesOnce(l) /\ Milder(q[l], q'[l])
    BY <1>2 DEF HuntInv
  <2>2. ConnectFirst(q'[l]) /\ (HasConnect(q'[l]) => HasConnect(q[l]))
    BY <2>1 DEF RefusesOnce, Milder
  <2>3. leg'[l].alive = "none" => ~Open(l)'
    BY <1>3, <2>1 DEF RefusesOnce
  <2> QED
    BY <1>2, <2>1, <2>2, <2>3 DEF RefusesOnce
<1> QED
  BY <1>1, <1>3, <1>4 DEF HuntInv

(* What an event changes of the legs.                                      *)
LegKept(x, y) ==
  /\ y.alive = "run" => x.alive = "run"
  /\ y.alive = "none" => x.alive = "none"
  /\ x.status = "Disconnected" => y.status = "Disconnected"
  /\ y.status \in {"NoReply", "Ringing"} => x.status \in {"NoReply", "Ringing"}

LEMMA KeptMild ==
  ASSUME HuntInv, AllMilder(q'), pc' = pc \/ pc' = "idle", \A l \in Bs : LegKept(leg[l], leg'[l])
  PROVE  HuntInv' /\ \A l \in Bs : Open(l)' => Open(l)
BY MildStep DEF LegKept, Pending

(* Steps of the A leg.                                                     *)
LEMMA ALegMild ==
  ASSUME CallInv, HuntInv,
         OnInvite \/ B2bInitial1xx \/ B2bInitial2xx \/ OnCancel \/ OnBye \/ OnTimerEvent
  PROVE  HuntInv' /\ \A l \in Bs : Open(l)' => Open(l)
<1> USE LegSets
<1>1. Shape /\ Queues
  BY DEF CallInv, HuntInv
<1>2. AllMilder(q) /\ (q[0] # << >> => AllMilder(Popped(0)))
  BY <1>1, MilderQueues
<1>3. "terminate" \in Mild /\ "bye" \in Mild
  BY DEF Mild, Tags
<1>4. ASSUME NEW lg, NEW bs, NEW qq, StopCall(lg, bs, qq), AllMilder(qq),
             lg = leg \/ \E x, y : lg = [leg EXCEPT ![0].status = x, ![0].other = y]
      PROVE  AllMilder(q') /\ \A l \in Bs : LegKept(leg[l], leg'[l])
  <2>1. AllMilder(q')
    BY <1>3, <1>4, MilderPosts DEF StopCall
  <2>2. \A l \in Bs : leg'[l] = leg[l]
    BY <1>1, <1>4 DEF StopCall, Shape
  <2> QED
    BY <2>1, <2>2 DEF LegKept
<1>5. CASE OnInvite
  <2>1. UNCHANGED <<q, pc>> /\ \A l \in Bs : leg'[l] = leg[l]
    BY <1>1, <1>5 DEF OnInvite, Stopped, Shape, loopVars
  <2> QED
    BY <1>2, <2>1, KeptMild DEF LegKept
<1>6. CASE B2bInitial1xx
  <2>1. pc' = pc /\ q[0] # << >>
    BY <1>6 DEF B2bInitial1xx, Received, loopVars
  <2>2. AllMilder(q') /\ \A l \in Bs : LegKept(leg[l], leg'[l])
    <3>1. PICK l, lg : /\ lg = [leg EXCEPT ![0].status = "Ringing", ![0].other = l]
                       /\ \/ leg' = lg /\ q' = Popped(0)
                          \/ StopCall(lg, others, Popped(0))
                          \/ leg' = leg /\ q' = Popped(0)
      BY <1>6 DEF B2bInitial1xx
    <3>2. CASE StopCall(lg, others, Popped(0))
      BY <1>2, <1>4, <2>1, <3>1, <3>2
    <3>3. CASE (leg' = lg \/ leg' = leg) /\ q' = Popped(0)
      <4>1. \A k \in Bs : leg'[k] = leg[k]
        BY <1>1, <3>1, <3>3 DEF Shape
      <4> QED
        BY <1>2, <2>1, <3>3, <4>1 DEF LegKept
    <3> QED
      BY <3>1, <3>2, <3>3
  <2> QED
    BY <2>1, <2>2, KeptMild
<1>7. CASE B2bInitial2xx
  <2>1. pc' = pc /\ q[0] # << >>
    BY <1>7 DEF B2bInitial2xx, Received, loopVars
  <2>2. AllMilder(q') /\ \A l \in Bs : LegKept(leg[l], leg'[l])
    <3>1. PICK l, lg : /\ lg = [leg EXCEPT ![0].status = "Connected", ![0].other = l]
                       /\ \/ leg' = lg /\ q' = Posted(Popped(0), others \ {l}, Event("terminate", 0))
                          \/ StopCall(lg, others, Popped(0))
                          \/ leg' = leg /\ q' = Popped(0)
      BY <1>7 DEF B2bInitial2xx
    <3>2. CASE StopCall(lg, others, Popped(0))
      BY <1>2, <1>4, <2>1, <3>1, <3>2
    <3>3. CASE \/ leg' = lg /\ q' = Posted(Popped(0), others \ {l}, Event("terminate", 0))
               \/ leg' = leg /\ q' = Popped(0)
      <4>1. \A k \in Bs : leg'[k] = leg[k]
        BY <1>1, <3>1, <3>3 DEF Shape
      <4>2. AllMilder(q')
        BY <1>2, <1>3, <2>1, <3>3, MilderPosts
      <4> QED
        BY <4>1, <4>2 DEF LegKept
    <3> QED
      BY <3>1, <3>2, <3>3
  <2> QED
    BY <2>1, <2>2, KeptMild
<1>8. CASE OnCancel \/ OnTimerEvent
  <2>1. pc' = pc /\ StopCall(leg, others, q)
    BY <1>8 DEF OnCancel, OnTimerEvent, loopVars
  <2> QED
    BY <1>2, <1>4, <2>1, KeptMild
<1>9. CASE OnBye
  <2>1. /\ pc' = pc
        /\ q' = Relayed(Posted(q, others \ {leg[0].other}, Event("terminate", 0)), 0, "bye")
        /\ leg' = [leg EXCEPT ![0].alive = "stopped", ![0].status = "Disconnected"]
    BY <1>9 DEF OnBye, loopVars
  <2>2. AllMilder(q')
    BY <1>2, <1>3, <2>1, MilderPosts
  <2>3. \A l \in Bs : leg'[l] = leg[l]
    BY <1>1, <2>1 DEF Shape
  <2> QED
    BY <2>1, <2>2, <2>3, KeptMild DEF LegKept
<1> QED
  BY <1>5, <1>6, <1>7, <1>8, <1>9

(* Steps of any leg.                                                       *)
LEMMA LegMild ==
  ASSUME CallInv, HuntInv, NEW l \in AllLegs,
         LegEvent(l) \/ RemoveCall(l) \/ OnServerShutdown(l) \/ OnBeforeDestroy(l)
  PROVE  HuntInv' /\ \A m \in Bs : Open(m)' => Open(m)
<1> USE LegSets
<1>1. Shape /\ Queues
  BY DEF CallInv, HuntInv
<1>2. AllMilder(q) /\ (q[l] # << >> => AllMilder(Popped(l)))
  BY <1>1, MilderQueues
<1>3. "terminate" \in Mild /\ "teardown" \in Mild
  BY DEF Mild, Tags
<1>4. pc' = pc
  BY DEF LegEvent, OnOtherBye, OnTerminateLeg, OnTearDown, RemoveCall, OnServerShutdown,
         OnBeforeDestroy, loopVars
<1>5. CASE OnOtherBye(l)
  <2>1. q' = Popped(l) /\ q[l] # << >>
    BY <1>5 DEF OnOtherBye, Received
  <2>2. \A m \in Bs : LegKept(leg[m], leg'[m])
    BY <1>1, <1>5 DEF OnOtherBye, Shape, LegKept
  <2> QED
    BY <1>2, <1>4, <2>1, <2>2, KeptMild
<1>6. CASE OnTerminateLeg(l)
  <2>1. q' = Popped(l) /\ q[l] # << >>
    BY <1>6 DEF OnTerminateLeg, Received
  <2>2. \A m \in Bs : LegKept(leg[m], leg'[m])
    BY <1>1, <1>6 DEF OnTerminateLeg, Stopped, Shape, LegKept
  <2> QED
    BY <1>2, <1>4, <2>1, <2>2, KeptMild
<1>7. CASE OnTearDown(l)
  <2>0. AllMilder(Popped(l))
    BY <1>2, <1>7 DEF OnTearDown, Received
  <2>1. CASE l = 0 /\ StopCall(leg, others, Popped(0))
    <3>1. AllMilder(q')
      BY <1>3, <2>0, <2>1, MilderPosts DEF StopCall
    <3>2. \A m \in Bs : leg'[m] = leg[m]
      BY <1>1, <2>1 DEF StopCall, Shape
    <3> QED
      BY <1>4, <3>1, <3>2, KeptMild DEF LegKept
  <2>2. CASE q' = Relayed(Popped(l), l, "teardown") /\ leg' = leg
    <3>1. AllMilder(q')
      BY <1>3, <2>0, <2>2, MilderPosts
    <3> QED
      BY <1>4, <2>2, <3>1, KeptMild DEF LegKept
  <2> QED
    BY <1>7, <2>1, <2>2 DEF OnTearDown
<1>8. CASE RemoveCall(l)
  <2>1. q' = Posted(q, {l}, Event("teardown", l)) /\ leg' = leg
    BY <1>8 DEF RemoveCall
  <2>2. AllMilder(q')
    BY <1>2, <1>3, <2>1, MilderPosts
  <2> QED
    BY <1>4, <2>1, <2>2, KeptMild DEF LegKept
<1>9. CASE OnServerShutdown(l)
  <2>1. q' = q /\ \A m \in Bs : LegKept(leg[m], leg'[m])
    BY <1>1, <1>9 DEF OnServerShutdown, Stopped, Shape, LegKept
  <2> QED
    BY <1>2, <1>4, <2>1, KeptMild
<1>10. CASE OnBeforeDestroy(l)
  <2>1. q' = q /\ \A m \in Bs : LegKept(leg[m], leg'[m])
    <3>1. q' = q /\ leg' = [leg EXCEPT ![l] = [NoLeg EXCEPT !.alive = "gone"]]
      BY <1>10 DEF OnBeforeDestroy
    <3>2. leg'[l].alive = "gone" /\ leg'[l].status = "Disconnected"
      BY <1>1, <3>1 DEF Shape, NoLeg
    <3>3. \A m \in Bs : m # l => leg'[m] = leg[m]
      BY <1>1, <3>1 DEF Shape
    <3> QED
      BY <3>1, <3>2, <3>3 DEF LegKept
  <2> QED
    BY <1>2, <1>4, <2>1, KeptMild
<1> QED
  BY <1>5, <1>6, <1>7, <1>8, <1>9, <1>10 DEF LegEvent

(* A leg refuses: it had not refused before, and will not again.           *)
LEMMA RefuseStep ==
  ASSUME CallInv, HuntInv, NEW l \in Bs, Pending(l) \/ HasConnect(q[l]),
         NEW qq, AllMilder(qq), HasConnect(qq[l]) => FALSE,
         NEW v, v = Relayed(qq, l, "err"), DOMAIN q' = AllLegs, \A m \in AllLegs : Milder(v[m], q'[m]),
         leg'[l].alive = "stopped", ~Pending(l)', \A m \in Bs : m # l => leg'[m] = leg[m], pc' = pc
  PROVE  HuntInv' /\ \A m \in Bs : Open(m)' => Open(m)
<1> USE LegSets
<1>1. \A m \in AllLegs : qq[m] \in Seq(Ev) /\ Milder(q[m], qq[m])
  BY DEF AllMilder, Milder
<1>2. PICK e \in Ev : e = Event("err", l) /\ e.t = "err" /\ e.from = l
  BY EventIs DEF Tags
<1>3. \A m \in AllLegs : v[m] = qq[m] \/ v[m] = Append(qq[m], e)
  BY <1>2 DEF Relayed, Posted
<1>4. Errs(q[0], l) = {} /\ RefusesOnce(l) /\ Open(l)
  BY DEF HuntInv, RefusesOnce, Open
<1>5. Errs(qq[0], l) = {}
  BY <1>1, <1>4 DEF Milder
<1>6. ASSUME NEW m \in AllLegs
      PROVE  /\ v[m] \in Seq(Ev) /\ (HasConnect(v[m]) => HasConnect(qq[m]))
             /\ ConnectFirst(qq[m]) => ConnectFirst(v[m])
             /\ \A k \in Bs : k # l => Errs(v[m], k) = Errs(qq[m], k)
             /\ Errs(qq[m], l) = {} => Single(v[m], l)
  <2>1. qq[m] \in Seq(Ev)
    BY <1>1
  <2>2. CASE v[m] = qq[m]
    BY <2>1, <2>2 DEF Single
  <2>3. CASE v[m] = Append(qq[m], e)
    <3>1. PICK w \in Seq(Ev) : w = qq[m]
      BY <2>1
    <3>2. /\ Append(w, e) \in Seq(Ev)
          /\ HasConnect(Append(w, e)) => HasConnect(w)
          /\ ConnectFirst(w) => ConnectFirst(Append(w, e))
          /\ \A k : k # l => Errs(Append(w, e), k) = Errs(w, k)
          /\ Errs(w, l) = {} => Single(Append(w, e), l)
      BY ONLY <1>2, <3>1, AppendedEvent
    <3> QED
      BY <2>3, <3>1, <3>2
  <2> QED
    BY <1>3, <2>2, <2>3
<1>7. Queues' /\ \A m \in AllLegs : /\ HasConnect(q'[m]) => HasConnect(qq[m])
                                    /\ ConnectFirst(qq[m]) => ConnectFirst(q'[m])
  BY <1>6 DEF Queues, Milder
<1>8. Single(q'[0], l)
  BY <1>5, <1>6 DEF Milder
<1>9. ASSUME NEW k \in Bs, k # l
      PROVE  /\ Single(q[0], k) => Single(q'[0], k)
             /\ Errs(q'[0], k) # {} => Errs(q[0], k) # {}
  <2>1. Errs(v[0], k) = Errs(qq[0], k)
    BY <1>6, <1>9
  <2>2. Single(v[0], k) <=> Single(qq[0], k)
    BY <2>1 DEF Single
  <2> QED
    BY <1>1, <2>1, <2>2 DEF Milder
<1>10. RefusesOnce(l)'
  <2>1. ConnectFirst(q'[l]) /\ ~HasConnect(q'[l])
    BY <1>1, <1>4, <1>7 DEF RefusesOnce, Milder
  <2> QED
    BY <1>8, <2>1 DEF RefusesOnce
<1>11. ASSUME NEW k \in Bs, k # l PROVE RefusesOnce(k)' /\ (Open(k)' => Open(k))
  <2>1. /\ ConnectFirst(q[k]) => ConnectFirst(q'[k])
        /\ HasConnect(q'[k]) => HasConnect(q[k])
        /\ leg'[k] = leg[k] /\ Pending(k)' = Pending(k)
    BY <1>1, <1>7, <1>11 DEF Milder, Pending
  <2>2. Open(k)' => Open(k)
    BY <1>9, <1>11, <2>1 DEF Open
  <2>3. RefusesOnce(k)
    BY DEF HuntInv
  <2>4. RefusesOnce(k)'
    BY <1>9, <1>11, <2>1, <2>2, <2>3 DEF RefusesOnce
  <2> QED
    BY <2>2, <2>4
<1>12. \A k \in Bs : RefusesOnce(k)' /\ (Open(k)' => Open(k))
  BY <1>4, <1>10, <1>11
<1>13. \A k, m \in Bs : (Open(k) /\ Open(m) => k = m)'
  BY <1>12 DEF HuntInv
<1>14. pc' # "idle" => \A k \in Bs : ~Open(k)'
  BY <1>12 DEF HuntInv
<1> QED
  BY <1>7, <1>12, <1>13, <1>14 DEF HuntInv

(* Steps of a B leg.                                                       *)
LEMMA CalleeMild ==
  ASSUME CallInv, HuntInv, EarlySdp = FALSE, NEW l \in Bs, Callee(l)
  PROVE  HuntInv' /\ \A m \in Bs : Open(m)' => Open(m)
<1> USE LegSets
<1>1. Shape /\ Queues /\ l \in AllLegs /\ l # 0 /\ RefusesOnce(l)
  BY DEF CallInv, HuntInv
<1>2. AllMilder(q) /\ (q[l] # << >> => AllMilder(Popped(l)))
  BY <1>1, MilderQueues
<1>3. {"1xx", "2xx", "bye", "terminate", "exception"} \subseteq Mild
  BY DEF Mild, Tags
<1>4. pc' = pc
  BY DEF Callee, OnB2BConnect, OnSipReply, TerminateLegOnReplyException, OnException,
         OnCalleeBye, OnCalleeTimeout, OnRefer, loopVars
<1>5. ASSUME NEW t \in Mild, q' = Relayed(q, l, t), \A m \in Bs : LegKept(leg[m], leg'[m])
      PROVE  HuntInv' /\ \A m \in Bs : Open(m)' => Open(m)
  BY <1>1, <1>2, <1>4, <1>5, MilderPosts, KeptMild
<1>6. ASSUME q' = Relayed(q, l, "err"), Pending(l), leg'[l].alive = "stopped", ~Pending(l)',
             \A m \in Bs : m # l => leg'[m] = leg[m]
      PROVE  HuntInv' /\ \A m \in Bs : Open(m)' => Open(m)
  <2>1. ~HasConnect(q[l])
    BY <1>1, <1>6 DEF RefusesOnce, Pending
  <2>2. DOMAIN q' = AllLegs /\ \A m \in AllLegs : q'[m] \in Seq(Ev)
    <3>1. PICK e \in Ev : e = Event("err", l)
      BY <1>1, EventIs DEF Tags
    <3>2. q' = q \/ (DOMAIN q' = AllLegs /\ \A m \in AllLegs : q'[m] \in {q[m], Append(q[m], e)})
      BY <1>6, <3>1 DEF Relayed, Posted
    <3>3. \A m \in AllLegs : Append(q[m], e) \in Seq(Ev)
      BY <1>1 DEF Queues
    <3> QED
      BY <1>1, <3>2, <3>3 DEF Queues
  <2>3. \A m \in AllLegs : Milder(q'[m], q'[m])
    BY <2>2, MilderSame
  <2> QED
    BY <1>1, <1>2, <1>4, <1>6, <2>1, <2>2, <2>3, RefuseStep
<1>7. CASE OnB2BConnect(l)
  <2>1. q[l] # << >> /\ Head(q[l]).t = "connect"
    BY <1>7 DEF OnB2BConnect, Received
  <2>2. q[l] \in Seq(Ev) /\ 1 \in DOMAIN q[l] /\ Head(q[l]) = q[l][1]
    BY <1>1, <2>1 DEF Queues
  <2>3. HasConnect(q[l]) /\ ~HasConnect(Tail(q[l])) /\ Popped(l)[l] = Tail(q[l])
    <3>1. HasConnect(q[l])
      BY <2>1, <2>2 DEF HasConnect
    <3>2. ~HasConnect(Tail(q[l]))
      BY <1>1, <2>1, <2>2, MilderTail DEF RefusesOnce
    <3> QED
      BY <1>1, <3>1, <3>2 DEF Queues, Popped
  <2>4. AllMilder(Popped(l))
    BY <1>2, <2>1
  <2>5. CASE leg' = [leg EXCEPT ![l].status = "NoReply"] /\ q' = Popped(l)
    <3>1. /\ leg'[l].alive = leg[l].alive
          /\ \A m \in Bs : m # l => leg'[m] = leg[m]
      BY <1>1, <2>5 DEF Shape
    <3>2. Queues' /\ \A m \in Bs : /\ Milder(q[m], q'[m])
                                   /\ Single(q[0], m) => Single(q'[0], m)
                                   /\ Errs(q'[0], m) # {} => Errs(q[0], m) # {}
      BY <2>4, <2>5 DEF Queues, AllMilder, Milder
    <3>3. RefusesOnce(l)' /\ (Open(l)' => Open(l))
      <4>1. Open(l) /\ Errs(q[0], l) = {} /\ Errs(q'[0], l) = {} /\ leg[l].alive # "none"
        BY <1>1, <2>3, <3>2 DEF Open, RefusesOnce
      <4>2. ConnectFirst(q'[l]) /\ ~HasConnect(q'[l]) /\ Single(q'[0], l)
        BY <1>1, <2>3, <2>5, <3>2 DEF RefusesOnce, Milder
      <4> QED
        BY <3>1, <4>1, <4>2 DEF RefusesOnce
    <3>4. ASSUME NEW m \in Bs, m # l PROVE RefusesOnce(m)' /\ (Open(m)' => Open(m))
      <4>1. /\ leg'[m] = leg[m] /\ Pending(m)' = Pending(m)
            /\ ConnectFirst(q[m]) => ConnectFirst(q'[m])
            /\ HasConnect(q'[m]) => HasConnect(q[m])
        BY <3>1, <3>2, <3>4 DEF Milder, Pending
      <4>2. Open(m)' => Open(m)
        BY <3>2, <3>4, <4>1 DEF Open
      <4>3. RefusesOnce(m)
        BY DEF HuntInv
      <4> QED
        BY <3>2, <3>4, <4>1, <4>2, <4>3 DEF RefusesOnce
    <3> QED
      BY <1>4, <3>2, <3>3, <3>4 DEF HuntInv
  <2>6. CASE /\ q' = Relayed(Relayed(Popped(l), l, "err"), l, "terminate")
             /\ leg' = [leg EXCEPT ![l].alive = "stopped", ![l].other = None]
    <3>1. /\ leg'[l].alive = "stopped" /\ leg'[l].status = leg[l].status
          /\ \A m \in Bs : m # l => leg'[m] = leg[m]
      BY <1>1, <2>6 DEF Shape
    <3>2. ~Pending(l)'
      BY <1>1, <2>3, <3>1 DEF RefusesOnce, Pending
    <3>3. PICK qq, v : qq = Popped(l) /\ v = Relayed(qq, l, "err") /\ q' = Relayed(v, l, "terminate")
      BY <2>6
    <3>4. DOMAIN v = AllLegs /\ \A m \in AllLegs : v[m] \in Seq(Ev)
      <4>1. PICK e \in Ev : e = Event("err", l)
        BY <1>1, EventIs DEF Tags
      <4>2. v = qq \/ (DOMAIN v = AllLegs /\ \A m \in AllLegs : v[m] \in {qq[m], Append(qq[m], e)})
        BY <3>3, <4>1 DEF Relayed, Posted
      <4>3. DOMAIN qq = AllLegs /\ \A m \in AllLegs : qq[m] \in Seq(Ev)
        BY <2>4, <3>3 DEF AllMilder, Milder
      <4>4. \A m \in AllLegs : Append(qq[m], e) \in Seq(Ev)
        BY <4>3
      <4> QED
        BY <4>2, <4>3, <4>4
    <3>5. DOMAIN q' = AllLegs /\ \A m \in AllLegs : Milder(v[m], q'[m])
      <4>1. PICK e \in Ev : e = Event("terminate", l) /\ e.t \in Mild
        BY <1>1, <1>3, EventIs DEF Tags
      <4>2. q' = v \/ (DOMAIN q' = AllLegs /\ \A m \in AllLegs : q'[m] \in {v[m], Append(v[m], e)})
        BY <3>3, <4>1 DEF Relayed, Posted
      <4>3. \A m \in AllLegs : Milder(v[m], v[m]) /\ Milder(v[m], Append(v[m], e))
        BY <3>4, <4>1, MilderSame, AppendedEvent
      <4> QED
        BY <3>4, <4>2, <4>3
    <3>6. AllMilder(qq) /\ ~HasConnect(qq[l])
      BY <2>3, <2>4, <3>3
    <3> QED
      BY <1>4, <2>3, <3>1, <3>2, <3>3, <3>5, <3>6, RefuseStep
  <2> QED
    BY <1>7, <2>5, <2>6 DEF OnB2BConnect
<1>8. CASE OnSipReply(l)
  <2>1. CASE /\ leg[l].status = "NoReply" /\ q' = Relayed(q, l, "1xx")
             /\ leg' = [leg EXCEPT ![l].status = "Ringing"]
    <3>1. \A m \in Bs : LegKept(leg[m], leg'[m])
      BY <1>1, <2>1 DEF Shape, LegKept
    <3> QED
      BY <1>3, <1>5, <2>1, <3>1
  <2>2. CASE q' = Relayed(q, l, "2xx") /\ leg' = [leg EXCEPT ![l].status = "Connected"]
    <3>1. Pending(l)
      BY <1>8 DEF OnSipReply
    <3>2. \A m \in Bs : LegKept(leg[m], leg'[m])
      BY <1>1, <2>2, <3>1 DEF Shape, LegKept, Pending
    <3> QED
      BY <1>3, <1>5, <2>2, <3>2
  <2>3. CASE /\ q' = Relayed(q, l, "err")
             /\ leg' = [leg EXCEPT ![l].status = "Disconnected", ![l].alive = "stopped"]
    <3>1. Pending(l)
      BY <1>8 DEF OnSipReply
    <3>2. /\ leg'[l].alive = "stopped" /\ ~Pending(l)'
          /\ \A m \in Bs : m # l => leg'[m] = leg[m]
      BY <1>1, <2>3 DEF Shape, Pending
    <3> QED
      BY <1>6, <2>3, <3>1, <3>2
  <2> QED
    BY <1>8, <2>1, <2>2, <2>3 DEF OnSipReply
<1>9. CASE TerminateLegOnReplyException(l)
  <2>1. /\ Pending(l) /\ q' = Relayed(q, l, "err")
        /\ leg' = [leg EXCEPT ![l].alive = "stopped", ![l].status = "Connected"]
    BY <1>9 DEF TerminateLegOnReplyException
  <2>2. /\ leg'[l].alive = "stopped" /\ ~Pending(l)'
        /\ \A m \in Bs : m # l => leg'[m] = leg[m]
    BY <1>1, <2>1 DEF Shape, Pending
  <2> QED
    BY <1>6, <2>1, <2>2
<1>10. CASE OnException(l)
  <2>1. q' = Relayed(q, l, "exception") /\ \A m \in Bs : LegKept(leg[m], leg'[m])
    BY <1>1, <1>10 DEF OnException, Stopped, Shape, LegKept
  <2> QED
    BY <1>3, <1>5, <2>1
<1>11. CASE OnCalleeBye(l)
  <2>1. q' = Relayed(q, l, "bye") /\ \A m \in Bs : LegKept(leg[m], leg'[m])
    BY <1>1, <1>11 DEF OnCalleeBye, Shape, LegKept
  <2> QED
    BY <1>3, <1>5, <2>1
<1>12. CASE OnCalleeTimeout(l)
  <2>1. q' = Relayed(q, l, "terminate") /\ \A m \in Bs : LegKept(leg[m], leg'[m])
    BY <1>1, <1>12 DEF OnCalleeTimeout, Shape, LegKept
  <2> QED
    BY <1>3, <1>5, <2>1
<1>13. CASE OnRefer(l)
  <2>1. q' = q /\ \A m \in Bs : LegKept(leg[m], leg'[m])
    BY <1>1, <1>13 DEF OnRefer, Shape, LegKept
  <2> QED
    BY <1>2, <1>4, <2>1, KeptMild
<1> QED
  BY <1>7, <1>8, <1>9, <1>10, <1>11, <1>12, <1>13 DEF Callee

(* A refusal is handled: no callee is left that could refuse.              *)
LEMMA ErrorHunt ==
  ASSUME CallInv, HuntInv, B2bInitialErr
  PROVE  HuntInv' /\ \A m \in Bs : ~Open(m)'
<1> USE LegSets
<1>1. /\ Shape /\ Queues /\ q[0] \in Seq(Ev) /\ q[0] # << >> /\ Head(q[0]).t = "err" /\ pc = "idle"
      /\ \A m \in Bs : RefusesOnce(m)
  BY DEF CallInv, HuntInv, Queues, B2bInitialErr, Received, Idle
<1>2. PICK l \in Bs : l = Head(q[0]).from /\ Head(q[0]) \in Ev
  BY <1>1, MilderTail DEF Ev
<1>3. 1 \in Errs(q[0], l)
  BY <1>1, <1>2 DEF Errs
<1>4. Open(l)
  BY <1>3 DEF Open
<1>5. q' = Popped(0) /\ \A m \in Bs : leg'[m] = leg[m]
  <2>1. q' = Popped(0)
    BY DEF B2bInitialErr, OnBLegRefused, NoMoreLegs
  <2>2. PICK lg : /\ lg = [leg EXCEPT ![0].status = "NoReply",
                                      ![0].other = IF @ = Head(q[0]).from THEN None ELSE @]
                  /\ \/ leg' = leg \/ leg' = lg
                     \/ leg' = [lg EXCEPT ![0].alive = "stopped", ![0].status = "Disconnected"]
    BY DEF B2bInitialErr, OnBLegRefused, NoMoreLegs
  <2>3. \A m \in Bs : lg[m] = leg[m]
    BY <1>1, <2>2 DEF Shape
  <2>4. \A m \in Bs : leg'[m] = leg[m]
    BY <1>1, <2>2, <2>3 DEF Shape
  <2> QED
    BY <2>1, <2>4
<1>6. AllMilder(q')
  BY <1>1, <1>5, MilderQueues
<1>7. q'[0] = Tail(q[0]) /\ \A m \in Bs : q'[m] = q[m]
  BY <1>1, <1>5 DEF Queues, Popped
<1>8. Errs(q'[0], l) = {}
  BY <1>1, <1>2, <1>7, MilderTail DEF RefusesOnce
<1>9. ~Open(l)'
  <2>1. leg[l].alive # "run" /\ ~Pending(l) /\ ~HasConnect(q[l])
    BY <1>1, <1>3 DEF RefusesOnce
  <2> QED
    BY <1>5, <1>7, <1>8, <2>1 DEF Open, Pending
<1>10. ASSUME NEW m \in Bs, m # l PROVE ~Open(m)'
  <2>1. ~Open(m)
    BY <1>4, <1>10 DEF HuntInv
  <2>2. Errs(q'[0], m) # {} => Errs(q[0], m) # {}
    BY <1>6 DEF AllMilder, Milder
  <2> QED
    BY <1>5, <1>7, <2>1, <2>2 DEF Open, Pending
<1>11. \A m \in Bs : ~Open(m)'
  BY <1>9, <1>10
<1>12. \A m \in Bs : RefusesOnce(m)'
  <2> TAKE m \in Bs
  <2>1. ConnectFirst(q'[m]) /\ Single(q'[0], m)
    BY <1>1, <1>6, <1>7 DEF RefusesOnce, AllMilder, Milder
  <2> QED
    BY <1>11, <2>1 DEF RefusesOnce, Open
<1>13. Queues'
  BY <1>6 DEF AllMilder, Milder, Queues
<1> QED
  BY <1>11, <1>12, <1>13 DEF HuntInv

(* A callee is called: it is the one leg that may refuse.                  *)
LEMMA ConnectHunt ==
  ASSUME CallInv, HuntInv, pc # "idle", pc' = "idle",
         ConnectCallee(q, [leg EXCEPT ![0].prof = c.cur])
  PROVE  /\ HuntInv'
         /\ \E i \in Bs : /\ leg'[i].alive = "run" /\ leg'[i].prof = c.cur
                          /\ \A m \in Bs : m # i => ~Open(m)'
<1> USE LegSets
<1>1. Shape /\ Queues /\ \A m \in Bs : RefusesOnce(m) /\ ~Open(m)
  BY DEF CallInv, HuntInv
<1>2. PICK lg : \E i \in Bs : /\ lg = [leg EXCEPT ![0].prof = c.cur]
                              /\ leg[i].alive = "none"
                              /\ leg' = [lg EXCEPT ![i] = NewBLeg(lg),
                                           ![0].status = IF @ = "Disconnected" THEN "NoReply" ELSE @]
                              /\ q' = [q EXCEPT ![i] = <<Event("connect", 0)>>]
  BY DEF ConnectCallee
<1>3. PICK i \in Bs : /\ lg = [leg EXCEPT ![0].prof = c.cur]
                      /\ leg[i].alive = "none"
                      /\ leg' = [lg EXCEPT ![i] = NewBLeg(lg),
                                   ![0].status = IF @ = "Disconnected" THEN "NoReply" ELSE @]
                      /\ q' = [q EXCEPT ![i] = <<Event("connect", 0)>>]
  BY <1>2
<1>4. PICK w \in Seq(Ev) : /\ w = <<Event("connect", 0)>> /\ DOMAIN w = {1}
  <2>1. PICK e \in Ev : e = Event("connect", 0)
    BY EventIs DEF Tags
  <2>2. <<e>> \in Seq(Ev)
    OBVIOUS
  <2>3. PICK w \in Seq(Ev) : w = <<e>>
    BY <2>2
  <2>4. DOMAIN w = {1}
    BY <2>3
  <2> QED
    BY <2>1, <2>3, <2>4
<1>5. q'[i] = w /\ \A m \in AllLegs : m # i => q'[m] = q[m]
  BY <1>1, <1>3, <1>4 DEF Queues
<1>6. Queues'
  BY <1>1, <1>3, <1>4, <1>5 DEF Queues
<1>7. /\ leg'[i].alive = "run" /\ leg'[i].status = "Disconnected" /\ leg'[i].prof = c.cur
      /\ \A m \in Bs : m # i => leg'[m] = leg[m]
  BY <1>1, <1>3 DEF Shape, NewBLeg
<1>8. q'[0] = q[0]
  BY <1>5
<1>9. RefusesOnce(i)'
  <2>1. ConnectFirst(q'[i])
    BY <1>4, <1>5 DEF ConnectFirst
  <2>2. Errs(q'[0], i) = {} /\ Single(q'[0], i)
    BY <1>1, <1>8 DEF Open, RefusesOnce
  <2> QED
    BY <1>7, <2>1, <2>2 DEF RefusesOnce
<1>10. ASSUME NEW m \in Bs, m # i PROVE RefusesOnce(m)' /\ ~Open(m)'
  <2>1. q'[m] = q[m] /\ leg'[m] = leg[m]
    BY <1>5, <1>7, <1>10
  <2>2. ~Open(m)'
    BY <1>1, <1>8, <2>1 DEF Open, Pending
  <2> QED
    BY <1>1, <1>8, <2>1, <2>2 DEF RefusesOnce, Open
<1>11. HuntInv'
  BY <1>6, <1>9, <1>10 DEF HuntInv
<1> QED
  BY <1>7, <1>10, <1>11

-----------------------------------------------------------------------------
(* getNextProfile goes to a later profile, with a CDR of that profile, or  *)
(* leaves both.                                                            *)
LEMMA NextChosen ==
  ASSUME NEW d, UnderWay(d), NEW early \in BOOLEAN, NEW failover \in BOOLEAN
  PROVE  IF GetNextProfile(d, early, failover).found
           THEN /\ GetNextProfile(d, early, failover).c.cur > d.cur
                /\ GetNextProfile(d, early, failover).c.cdr.profile
                     = GetNextProfile(d, early, failover).c.cur
           ELSE /\ GetNextProfile(d, early, failover).c.cur = d.cur
                /\ GetNextProfile(d, early, failover).c.cdr = d.cdr
<1> DEFINE ps == d.profiles
           n == IF ps[d.cur].skip THEN FirstUnskipped(ps, d.cur) ELSE d.cur + 1
           skipped == IF ps[d.cur].skip /\ SkipCdrStored THEN SkipCdrs(d, n) ELSE << >>
           counter == d.cdr.attempt + Len(skipped)
           w == d.written \o skipped
           r == GetNextProfile(d, early, failover)
<1>1. /\ d \in CtxType /\ d.cdr # NoCdr /\ d.cur \in 1..Len(ps) /\ ps \in Seq(Profile)
      /\ Len(ps) \in Nat
  BY CtxParts DEF UnderWay
<1>2. (n \in Int /\ n > d.cur) \/ n > Len(ps)
  <2>1. LET k == FirstUnskipped(ps, d.cur)
        IN  k \in d.cur..(Len(ps) + 1) /\ (k > Len(ps) \/ ~ps[k].skip)
    BY <1>1, FirstUnskippedIs
  <2> QED
    BY <1>1, <2>1
<1>3. r = IF n > Len(ps) \/ (~early /\ ps[n].refuse)
            THEN [found |-> FALSE, c |-> [d EXCEPT !.written = w]]
          ELSE IF early \/ failover
            THEN [found |-> TRUE,
                  c |-> [d EXCEPT !.written = w, !.cur = n, !.cdr = CdrOf(counter, n)]]
          ELSE [found |-> TRUE,
                c |-> [d EXCEPT !.written = Append(w, Entry(d.cdr, FALSE)), !.cur = n,
                                !.cdr = CdrOf(counter + 1, n)]]
  BY DEF GetNextProfile
<1>4. PICK x, y, v, k : /\ x = CdrOf(counter, n) /\ y = CdrOf(counter + 1, n) /\ k = n
                        /\ v = Append(w, Entry(d.cdr, FALSE))
  OBVIOUS
<1>5. x.profile = k /\ y.profile = k
  BY <1>4 DEF CdrOf
<1>6. k > d.cur \/ k > Len(ps)
  BY <1>2, <1>4
<1>7. r = IF k > Len(ps) \/ (~early /\ ps[k].refuse)
            THEN [found |-> FALSE, c |-> [d EXCEPT !.written = w]]
          ELSE IF early \/ failover
            THEN [found |-> TRUE, c |-> [d EXCEPT !.written = w, !.cur = k, !.cdr = x]]
          ELSE [found |-> TRUE, c |-> [d EXCEPT !.written = v, !.cur = k, !.cdr = y]]
  BY <1>3, <1>4
<1> HIDE DEF n, skipped, r, w, counter
<1>8. CASE k > Len(ps) \/ (~early /\ ps[k].refuse)
  <2>1. ~r.found /\ r.c = [d EXCEPT !.written = w]
    BY <1>7, <1>8
  <2> QED
    BY <1>1, <2>1 DEF CtxType, r
<1>9. CASE ~(k > Len(ps) \/ (~early /\ ps[k].refuse)) /\ (early \/ failover)
  <2>1. r.found /\ r.c = [d EXCEPT !.written = w, !.cur = k, !.cdr = x]
    BY <1>7, <1>9
  <2>2. r.c.cur = k /\ r.c.cdr = x
    BY <1>1, <2>1 DEF CtxType
  <2> QED
    BY <1>5, <1>6, <1>9, <2>1, <2>2 DEF r
<1>10. CASE ~(k > Len(ps) \/ (~early /\ ps[k].refuse)) /\ ~(early \/ failover)
  <2>1. r.found /\ r.c = [d EXCEPT !.written = v, !.cur = k, !.cdr = y]
    BY <1>7, <1>10
  <2>2. r.c.cur = k /\ r.c.cdr = y
    BY <1>1, <2>1 DEF CtxType
  <2> QED
    BY <1>5, <1>6, <1>10, <2>1, <2>2 DEF r
<1> QED
  BY <1>8, <1>9, <1>10

(* The CDR under way is that of the current profile.                       *)
CdrOfCurrent(d) == d.cdr # NoCdr => d.cdr.profile = d.cur

LEMMA PassChosen ==
  ASSUME NEW d \in CtxType, CdrOfCurrent(d)
  PROVE  CdrOfCurrent(PassSkipped(d).c)
<1> DEFINE n == FirstUnskipped(d.profiles, d.cur)
           r == PassSkipped(d)
<1>1. \/ r.c = d
      \/ \E k, w : r.c = [d EXCEPT !.cur = k, !.cdr = NoCdr, !.written = w]
      \/ \E a, w : r.c = [d EXCEPT !.cur = n, !.cdr = CdrOf(a, n), !.written = w]
  <2>1. PICK a, w, w1, k : /\ a = d.cdr.attempt + n - d.cur
                           /\ w = d.written \o SkipCdrs(d, n)
                           /\ w1 = d.written \o SkipCdrs(d, n - 1)
                                   \o <<Entry(CdrOf(d.cdr.attempt + n - 1 - d.cur, n - 1), TRUE)>>
                           /\ k = n - 1
    OBVIOUS
  <2>2. r = IF n = d.cur THEN [found |-> TRUE, c |-> d]
            ELSE IF n > Len(d.profiles) \/ d.profiles[n].refuse
              THEN [found |-> FALSE, c |-> [d EXCEPT !.cur = k, !.cdr = NoCdr, !.written = w1]]
              ELSE [found |-> TRUE, c |-> [d EXCEPT !.cur = n, !.cdr = CdrOf(a, n), !.written = w]]
    BY <2>1 DEF PassSkipped, CtxType
  <2> HIDE DEF n, r
  <2> QED
    BY <2>2
<1> HIDE DEF n, r
<1>2. CASE r.c = d
  BY <1>2 DEF r
<1>3. ASSUME NEW k, NEW w, r.c = [d EXCEPT !.cur = k, !.cdr = NoCdr, !.written = w]
      PROVE  CdrOfCurrent(r.c)
  BY <1>3 DEF CdrOfCurrent, CtxType
<1>4. ASSUME NEW a, NEW w, r.c = [d EXCEPT !.cur = n, !.cdr = CdrOf(a, n), !.written = w]
      PROVE  CdrOfCurrent(r.c)
  <2>1. r.c.cur = n /\ r.c.cdr = CdrOf(a, n)
    BY <1>4 DEF CtxType
  <2>2. CdrOf(a, n).profile = n
    BY DEF CdrOf
  <2> QED
    BY <2>1, <2>2 DEF CdrOfCurrent
<1> QED
  BY <1>1, <1>2, <1>3, <1>4 DEF r

LEMMA CdrStep ==
  ASSUME CdrInv, CtxStep, CdrOfCurrent(c)
  PROVE  CdrOfCurrent(c)'
<1>0. c \in CtxType
  BY DEF CdrInv, Unrouted, Tried, Finished, NoneYet, UnderWay, Closed
<1>1. CASE Kept
  BY <1>1 DEF Kept
<1>2. CASE Written
  <2>1. c' = c \/ c' = [c EXCEPT !.written = Append(@, Entry(c.cdr, TRUE)), !.cdr = NoCdr]
    BY <1>2 DEF Written, WriteCdr
  <2>2. c' = c \/ c'.cdr = NoCdr
    BY <1>0, <2>1 DEF CtxType
  <2> QED
    BY <2>2 DEF CdrOfCurrent
<1>3. CASE Chosen
  <2>1. UnderWay(c)
    BY <1>3 DEF Chosen
  <2>2. PICK early \in BOOLEAN, failover \in BOOLEAN : c' = GetNextProfile(c, early, failover).c
    BY <1>3 DEF Chosen
  <2>3. c'.cdr.profile = c'.cur \/ (c'.cur = c.cur /\ c'.cdr = c.cdr)
    BY <2>1, <2>2, NextChosen
  <2> QED
    BY <2>3 DEF CdrOfCurrent
<1>4. CASE Routed
  <2>1. PICK ps \in ProfileLists \cup {FailedProfiles} :
                \/ c' = [GetFirstProfile(c, ps) EXCEPT !.cdr = NoCdr]
                \/ c' = WriteCdr(GetFirstProfile(c, ps), TRUE)
                \/ c' = GetFirstProfile(c, ps)
    BY <1>4 DEF Routed
  <2>2. PICK d : d = GetFirstProfile(c, ps)
    OBVIOUS
  <2>3. UnderWay(d) /\ d.cur = 1
    BY <1>4, <2>2, ListTypes, FirstUnderWay DEF Routed
  <2>4. d.cdr.profile = 1
    <3>0. CdrOf(1, 1).profile = 1
      BY DEF CdrOf
    <3>1. PICK x : x = CdrOf(1, 1) /\ x.profile = 1
      BY <3>0
    <3>2. d = [c EXCEPT !.profiles = ps, !.cur = 1, !.cdr = x]
      BY <2>2, <3>1 DEF GetFirstProfile
    <3>3. d.cdr = x
      BY <1>0, <3>2 DEF CtxType
    <3> QED
      BY <3>1, <3>3
  <2>5. CASE c' = [d EXCEPT !.cdr = NoCdr]
    BY <2>3, <2>5 DEF UnderWay, CtxType, CdrOfCurrent
  <2>6. CASE c' = WriteCdr(d, TRUE)
    BY <2>3, <2>6, WriteCloses DEF Closed, CdrOfCurrent
  <2>7. CASE c' = d
    BY <2>3, <2>4, <2>7 DEF CdrOfCurrent
  <2> QED
    BY <2>1, <2>2, <2>5, <2>6, <2>7
<1>5. CASE Passed
  <2>1. PICK reply \in AorReplies : c' = PassSkipped(Resolve(c, reply)).c
    BY <1>5 DEF Passed
  <2>2. PICK d : d = Resolve(c, reply)
    OBVIOUS
  <2>3. d \in CtxType
    BY <1>5, <2>2, ResolvedUnderWay DEF Passed, UnderWay
  <2>4. d.cur = c.cur /\ d.cdr = c.cdr
    BY <1>0, <2>2 DEF Resolve, CtxType
  <2>5. CdrOfCurrent(d)
    BY <2>4 DEF CdrOfCurrent
  <2> QED
    BY <2>1, <2>2, <2>3, <2>5, PassChosen
<1> QED
  BY <1>1, <1>2, <1>3, <1>4, <1>5 DEF CtxStep

(* One round of the loop over rctl.get: a callee is called, or the loop    *)
(* goes on or ends without one.                                            *)
LEMMA LoopCases ==
  ASSUME CallInv, ProcessResourcesAndSdp \/ ChooseNextProfile
  PROVE  \/ /\ ConnectCallee(q, [leg EXCEPT ![0].prof = c.cur])
            /\ pc' = "idle" /\ UNCHANGED c
            /\ \/ hs' = hs /\ held' = held
               \/ hs' = hs \cup {c.cur} /\ held' = held \cup {c.cur}
         \/ /\ q' = q /\ (\A m \in Bs : leg'[m] = leg[m])
            /\ pc' = "idle" /\ UNCHANGED c /\ hs' \in {hs, hs \cup {c.cur}}
         \/ /\ q' = q /\ (\A m \in Bs : leg'[m] = leg[m]) /\ hs' = hs
            /\ \E early, failover \in BOOLEAN :
                 /\ c' = GetNextProfile(c, early, failover).c
                 /\ pc' = IF GetNextProfile(c, early, failover).found /\ pc' # "idle" THEN pc ELSE "idle"
<1> USE LegSets
<1> DEFINE lg == [leg EXCEPT ![0].prof = c.cur]
<1>1. Shape
  BY DEF CallInv
<1>2. \A m \in Bs : lg[m] = leg[m] /\ [lg EXCEPT ![0].alive = "stopped"][m] = leg[m]
                    /\ Stopped(0)[m] = leg[m]
                    /\ [leg EXCEPT ![0].alive = "stopped", ![0].status = "Disconnected"][m] = leg[m]
  BY <1>1 DEF Shape, Stopped
<1>3. CASE ProcessResourcesAndSdp
  <2>1. PICK answer \in Answers :
       \/ /\ Granted(answer) /\ OnRoutingReady(lg, Taken(answer))
          /\ pc' = "idle" /\ UNCHANGED c
       \/ /\ c' = GetNextProfile(c, TRUE, FALSE).c
          /\ pc' = IF GetNextProfile(c, TRUE, FALSE).found /\ pc' # "idle" THEN pc ELSE "idle"
          /\ leg' = leg \/ leg' = Stopped(0)
          /\ UNCHANGED <<q, hs>>
       \/ /\ pc' = "idle" /\ leg' = Stopped(0) /\ UNCHANGED <<c, q, hs>>
    BY <1>3 DEF ProcessResourcesAndSdp
  <2>2. CASE /\ Granted(answer) /\ OnRoutingReady(lg, Taken(answer))
             /\ pc' = "idle" /\ UNCHANGED c
    <3>1. CASE ConnectCallee(q, lg) /\ held' = Taken(answer)
      BY <2>2, <3>1 DEF Granted, Taken
    <3>2. CASE leg' = [lg EXCEPT ![0].alive = "stopped"] /\ UNCHANGED q
      BY <1>2, <2>2, <3>2 DEF Granted
    <3> QED
      BY <2>2, <3>1, <3>2 DEF OnRoutingReady
  <2> HIDE DEF lg
  <2> QED
    BY <1>2, <2>1, <2>2
<1>4. CASE ChooseNextProfile
  <2>1. PICK answer \in Answers :
       \/ /\ Granted(answer) /\ ConnectCalleeRequest(lg) /\ held' = Taken(answer)
          /\ pc' = "idle" /\ UNCHANGED c
       \/ /\ c' = GetNextProfile(c, FALSE, TRUE).c
          /\ pc' = IF GetNextProfile(c, FALSE, TRUE).found /\ pc' # "idle" THEN pc ELSE "idle"
          /\ leg' = leg \/ leg' = [leg EXCEPT ![0].alive = "stopped", ![0].status = "Disconnected"]
          /\ UNCHANGED <<q, hs>>
       \/ /\ pc' = "idle" /\ UNCHANGED <<c, q, hs>>
          /\ leg' = leg \/ leg' = [leg EXCEPT ![0].alive = "stopped", ![0].status = "Disconnected"]
    BY <1>4 DEF ChooseNextProfile, NoMoreLegs
  <2>2. CASE /\ Granted(answer) /\ ConnectCalleeRequest(lg) /\ held' = Taken(answer)
             /\ pc' = "idle" /\ UNCHANGED c
    <3>1. CASE ConnectCallee(q, lg)
      BY <2>2, <3>1 DEF Granted, Taken
    <3>2. CASE leg' = [lg EXCEPT ![0].alive = "stopped"] /\ UNCHANGED q
      BY <1>2, <2>2, <3>2 DEF Granted
    <3> QED
      BY <2>2, <3>1, <3>2 DEF ConnectCalleeRequest
  <2> HIDE DEF lg
  <2> QED
    BY <1>2, <2>1, <2>2
<1> QED
  BY <1>3, <1>4

LEMMA LoopHunt ==
  ASSUME CallInv, HuntInv, ProcessResourcesAndSdp \/ ChooseNextProfile
  PROVE  /\ HuntInv'
         /\ \/ \A m \in Bs : ~Open(m)'
            \/ /\ pc' = "idle" /\ UNCHANGED c
               /\ \/ hs' = hs /\ held' = held
                  \/ hs' = hs \cup {c.cur} /\ held' = held \cup {c.cur}
               /\ \E i \in Bs : leg'[i].prof = c.cur /\ \A m \in Bs : m # i => ~Open(m)'
<1>1. pc # "idle" /\ \A m \in Bs : ~Open(m)
  BY DEF ProcessResourcesAndSdp, ChooseNextProfile, HuntInv
<1>2. CASE q' = q /\ (\A m \in Bs : leg'[m] = leg[m]) /\ (pc' = pc \/ pc' = "idle")
  <2>1. AllMilder(q')
    BY <1>2, MilderQueues DEF HuntInv
  <2>2. \A m \in Bs : LegKept(leg[m], leg'[m])
    BY <1>2 DEF LegKept
  <2> QED
    BY <1>1, <1>2, <2>1, <2>2, KeptMild
<1>3. CASE /\ ConnectCallee(q, [leg EXCEPT ![0].prof = c.cur])
            /\ pc' = "idle" /\ UNCHANGED c
            /\ \/ hs' = hs /\ held' = held
               \/ hs' = hs \cup {c.cur} /\ held' = held \cup {c.cur}
  BY <1>1, <1>3, ConnectHunt
<1> QED
  BY <1>2, <1>3, LoopCases

(* Routing has no callee yet.                                              *)
LEMMA RoutingHunt ==
  ASSUME CallInv, CdrInv, HuntInv, OnIdentityReady \/ Answered
  PROVE  HuntInv' /\ \A m \in Bs : ~Open(m)'
<1> USE LegSets
<1>1. Shape /\ stage # "none" /\ q' = q
  BY DEF CallInv, OnIdentityReady, Answered, OnPostgresResponse, OnPostgresFailed, OnRadiusReply,
         OnRedisReply
<1>2. \A m \in Bs : leg'[m] = leg[m]
  <2>1. \/ leg' = leg \/ leg' = Stopped(0)
        \/ leg' = [leg EXCEPT ![0].ctx = TRUE]
        \/ leg' = [leg EXCEPT ![0].alive = "stopped", ![0].ctx = FALSE]
        \/ leg' = [leg EXCEPT ![0].prof = 1, ![0].ctx = TRUE]
        \/ leg' = [leg EXCEPT ![0].prof = 1, ![0].ctx = TRUE, ![0].alive = "stopped"]
    BY DEF OnIdentityReady, Answered, OnPostgresResponse, OnPostgresFailed, OnRadiusReply,
           OnRedisReply, OnProfilesReady, CtxDropped
  <2> QED
    BY <1>1, <2>1 DEF Shape, Stopped
<1>3. \A m \in Bs : leg[m].alive = "none" /\ RefusesOnce(m) /\ ~Open(m)
  BY <1>1 DEF CdrInv, RoutingOnly, HuntInv, RefusesOnce
<1>4. \A m \in Bs : RefusesOnce(m)' /\ ~Open(m)'
  BY <1>1, <1>2, <1>3 DEF RefusesOnce, Open, Pending
<1> QED
  BY <1>1, <1>4 DEF HuntInv, Queues

LEMMA HuntInductive ==
  ASSUME EarlySdp = FALSE
  PROVE  /\ Init => HuntInv
         /\ CallInv /\ CdrInv /\ HuntInv /\ [Next]_vars => HuntInv'
<1> USE LegSets
<1>1. ASSUME Init PROVE HuntInv
  <2>1. DOMAIN q = AllLegs /\ \A l \in AllLegs : q[l] = << >>
    BY <1>1 DEF Init
  <2>2. \A l \in Bs : leg[l].alive = "none" /\ leg[l].status = "Disconnected"
    BY <1>1 DEF Init, NoLeg
  <2>3. DOMAIN << >> = {} /\ << >> \in Seq(Ev)
    OBVIOUS
  <2>4. Queues
    BY <2>1, <2>3 DEF Queues
  <2>5. \A l \in Bs : ~Open(l)
    BY <2>1, <2>2, <2>3 DEF Open, Pending, HasConnect, Errs
  <2>6. \A l \in Bs : RefusesOnce(l)
    <3> TAKE l \in Bs
    <3>1. q[l] = << >> /\ q[0] = << >>
      BY <2>1
    <3>2. ConnectFirst(q[l]) /\ Single(q[0], l)
      BY <2>3, <3>1 DEF ConnectFirst, Single, Errs
    <3> QED
      BY <2>2, <2>5, <3>2 DEF RefusesOnce, Open
  <2> QED
    BY <2>4, <2>5, <2>6 DEF HuntInv
<1>2. ASSUME CallInv, CdrInv, HuntInv, [Next]_vars PROVE HuntInv'
  <2>1. CASE UNCHANGED vars
    BY <1>2, <2>1 DEF HuntInv, Queues, RefusesOnce, Open, Pending, vars, loopVars
  <2>2. CASE \/ OnInvite \/ B2bInitial1xx \/ B2bInitial2xx
             \/ OnCancel \/ OnBye \/ OnTimerEvent
    BY <1>2, <2>2, ALegMild
  <2>3. ASSUME NEW l \in AllLegs, LegEvent(l) \/ RemoveCall(l) \/ OnServerShutdown(l) \/ OnBeforeDestroy(l)
        PROVE  HuntInv'
    BY <1>2, <2>3, LegMild
  <2>4. CASE OnIdentityReady \/ Answered
    BY <1>2, <2>4, RoutingHunt
  <2>5. CASE ProcessResourcesAndSdp \/ ChooseNextProfile
    BY <1>2, <2>5, LoopHunt
  <2>6. CASE B2bInitialErr
    BY <1>2, <2>6, ErrorHunt
  <2>7. ASSUME NEW l \in Bs, Callee(l) PROVE HuntInv'
    BY <1>2, <2>7, CalleeMild
  <2>8. CASE Terminated
    BY <2>1, <2>8 DEF Terminated
  <2> QED
    BY <1>2, <2>1, <2>2, <2>3, <2>4, <2>5, <2>6, <2>7, <2>8 DEF Next, ALegEvent
<1> QED
  BY <1>1, <1>2

-----------------------------------------------------------------------------
(* Handlers belong to profiles up to the current one; while its resources  *)
(* are being got, the current one has none.                                *)
HandlersInv ==
  /\ \A i \in hs : i \in Nat /\ i <= c.cur
  /\ pc # "idle" => c.cur \notin hs
  /\ stage # "none" => hs = {}

(* What an event of the legs leaves of the attempt.                        *)
SameAttempt ==
  /\ pc' = pc /\ hs' = hs /\ c'.cur = c.cur
  /\ stage' = stage \/ stage # "none"
  /\ leg'[0].alive = "run" => leg[0].alive = "run"
  /\ \A m \in Bs : leg'[m].alive = "run" /\ leg'[m].ctx =>
                     leg[m].alive = "run" /\ leg[m].ctx /\ leg'[m].prof = leg[m].prof

LEMMA LegsSame ==
  ASSUME CallInv,
         \/ OnInvite \/ B2bInitial1xx \/ B2bInitial2xx \/ OnCancel \/ OnBye \/ OnTimerEvent
         \/ \E l \in AllLegs : LegEvent(l) \/ RemoveCall(l) \/ OnServerShutdown(l) \/ OnBeforeDestroy(l)
         \/ \E l \in Bs : Callee(l)
  PROVE  SameAttempt
<1> USE LegSets
<1>1. Shape
  BY DEF CallInv
<1> DEFINE Same(lg) == /\ lg[0].alive = "run" => leg[0].alive = "run"
                       /\ \A m \in Bs : lg[m].alive = "run" /\ lg[m].ctx =>
                            leg[m].alive = "run" /\ leg[m].ctx /\ lg[m].prof = leg[m].prof
<1>2. \A last : WriteCdr(c, last).cur = c.cur
  BY <1>1, CtxFields DEF Shape
<1>3. ASSUME NEW l \in AllLegs
      PROVE  /\ Same(leg) /\ Same(Stopped(l)) /\ Same([leg EXCEPT ![l] = [NoLeg EXCEPT !.alive = "gone"]])
             /\ \A x : Same([leg EXCEPT ![l].alive = "stopped", ![l].status = x])
             /\ \A x : Same([leg EXCEPT ![l].status = x])
             /\ \A x : Same([leg EXCEPT ![l].alive = "stopped", ![l].other = x])
             /\ \A x, y : Same([leg EXCEPT ![l].alive = "stopped", ![l].status = x, ![l].other = y])
             /\ \A x, y : Same([leg EXCEPT ![l].status = x, ![l].other = y])
             /\ Same([leg EXCEPT ![l].ctx = FALSE, ![l].other = None])
  <2>1. ASSUME NEW lg, \A m \in AllLegs : m # l => lg[m] = leg[m],
               \/ lg[l].alive # "run"
               \/ /\ lg[l].alive = leg[l].alive /\ lg[l].prof = leg[l].prof
                  /\ lg[l].ctx \in {FALSE, leg[l].ctx}
        PROVE  Same(lg)
    BY <2>1
  <2> HIDE DEF Same
  <2>2. Same(leg)
    BY <1>1, <2>1 DEF Shape
  <2>3. Same(Stopped(l))
    BY <1>1, <2>1 DEF Shape, Stopped
  <2>4. Same([leg EXCEPT ![l] = [NoLeg EXCEPT !.alive = "gone"]])
    <3>1. [NoLeg EXCEPT !.alive = "gone"].alive = "gone" /\ ~[NoLeg EXCEPT !.alive = "gone"].ctx
      BY DEF NoLeg
    <3>2. PICK g : g = [NoLeg EXCEPT !.alive = "gone"] /\ g.alive = "gone"
      BY <3>1
    <3> QED
      BY <1>1, <2>1, <3>2 DEF Shape
  <2>5. \A x : Same([leg EXCEPT ![l].alive = "stopped", ![l].status = x])
    BY <1>1, <2>1 DEF Shape
  <2>6. \A x : Same([leg EXCEPT ![l].status = x])
    BY <1>1, <2>1 DEF Shape
  <2>7. \A x : Same([leg EXCEPT ![l].alive = "stopped", ![l].other = x])
    BY <1>1, <2>1 DEF Shape
  <2>8. \A x, y : Same([leg EXCEPT ![l].alive = "stopped", ![l].status = x, ![l].other = y])
    BY <1>1, <2>1 DEF Shape
  <2>9. \A x, y : Same([leg EXCEPT ![l].status = x, ![l].other = y])
    BY <1>1, <2>1 DEF Shape
  <2>10. Same([leg EXCEPT ![l].ctx = FALSE, ![l].other = None])
    BY <1>1, <2>1 DEF Shape
  <2> QED
    BY <2>2, <2>3, <2>4, <2>5, <2>6, <2>7, <2>8, <2>9, <2>10
<1>4. ASSUME NEW lg, NEW bs, NEW qq, StopCall(lg, bs, qq),
             lg = leg \/ \E x, y : lg = [leg EXCEPT ![0].status = x, ![0].other = y]
      PROVE  Same(leg')
  <2>1. /\ \A m \in AllLegs : DOMAIN lg[m] = DOMAIN leg[m] /\ (m # 0 => lg[m] = leg[m])
        /\ DOMAIN lg = AllLegs
    BY <1>1, <1>4 DEF Shape
  <2>2. leg' = [lg EXCEPT ![0].alive = "stopped", ![0].status = "Disconnected", ![0].other = None]
    BY <1>4 DEF StopCall
  <2>3. leg'[0].alive = "stopped" /\ \A m \in Bs : leg'[m] = leg[m]
    BY <1>1, <2>1, <2>2 DEF Shape
  <2> QED
    BY <2>3
<1> HIDE DEF Same
<1>5. CASE OnInvite \/ B2bInitial1xx \/ B2bInitial2xx \/ OnCancel \/ OnBye \/ OnTimerEvent
  <2>1. pc' = pc /\ hs' = hs /\ c' = c /\ (stage' = stage \/ stage # "none")
    BY <1>5 DEF OnInvite, B2bInitial1xx, B2bInitial2xx, OnCancel, OnBye, OnTimerEvent, loopVars
  <2>2. Same(leg')
    <3>1. CASE OnInvite
      BY <1>3, <3>1 DEF OnInvite
    <3>2. CASE B2bInitial1xx
      <4>1. PICK l, lg : /\ lg = [leg EXCEPT ![0].status = "Ringing", ![0].other = l]
                         /\ leg' = lg \/ StopCall(lg, others, Popped(0)) \/ leg' = leg
        BY <3>2 DEF B2bInitial1xx
      <4>2. Same(leg) /\ Same(lg)
        BY <1>3, <4>1
      <4>3. ASSUME StopCall(lg, others, Popped(0)) PROVE Same(leg')
        BY <1>4, <4>1, <4>3
      <4> QED
        BY <4>1, <4>2, <4>3
    <3>3. CASE B2bInitial2xx
      <4>1. PICK l, lg : /\ lg = [leg EXCEPT ![0].status = "Connected", ![0].other = l]
                         /\ leg' = lg \/ StopCall(lg, others, Popped(0)) \/ leg' = leg
        BY <3>3 DEF B2bInitial2xx
      <4>2. Same(leg) /\ Same(lg)
        BY <1>3, <4>1
      <4>3. ASSUME StopCall(lg, others, Popped(0)) PROVE Same(leg')
        BY <1>4, <4>1, <4>3
      <4> QED
        BY <4>1, <4>2, <4>3
    <3>4. CASE OnCancel \/ OnTimerEvent
      BY <1>4, <3>4 DEF OnCancel, OnTimerEvent
    <3>5. CASE OnBye
      BY <1>3, <3>5 DEF OnBye
    <3> QED
      BY <1>5, <3>1, <3>2, <3>3, <3>4, <3>5
  <2> QED
    BY <2>1, <2>2 DEF SameAttempt, Same
<1>6. ASSUME NEW l \in AllLegs, LegEvent(l) \/ RemoveCall(l) \/ OnServerShutdown(l) \/ OnBeforeDestroy(l)
      PROVE  SameAttempt
  <2>1. pc' = pc /\ hs' = hs /\ stage' = stage /\ (c' = c \/ c' = WriteCdr(c, TRUE))
    BY <1>6 DEF LegEvent, OnOtherBye, OnTerminateLeg, OnTearDown, RemoveCall, OnServerShutdown,
                OnBeforeDestroy, loopVars
  <2>2. Same(leg')
    <3>1. CASE OnOtherBye(l)
      BY <1>3, <3>1 DEF OnOtherBye
    <3>2. CASE OnTerminateLeg(l)
      BY <1>3, <3>2 DEF OnTerminateLeg
    <3>3. CASE OnTearDown(l)
      BY <1>3, <1>4, <3>3 DEF OnTearDown
    <3>4. CASE RemoveCall(l)
      BY <1>3, <3>4 DEF RemoveCall
    <3>5. CASE OnServerShutdown(l)
      BY <1>3, <3>5 DEF OnServerShutdown
    <3>6. CASE OnBeforeDestroy(l)
      BY <1>3, <3>6 DEF OnBeforeDestroy
    <3> QED
      BY <1>6, <3>1, <3>2, <3>3, <3>4, <3>5, <3>6 DEF LegEvent
  <2> QED
    BY <1>2, <2>1, <2>2 DEF SameAttempt, Same
<1>7. ASSUME NEW l \in Bs, Callee(l) PROVE SameAttempt
  <2>1. pc' = pc /\ hs' = hs /\ stage' = stage /\ c' = c
    BY <1>7 DEF Callee, OnB2BConnect, OnSipReply, TerminateLegOnReplyException, OnException,
                OnCalleeBye, OnCalleeTimeout, OnRefer, loopVars
  <2>2. Same(leg')
    <3>1. CASE OnB2BConnect(l)
      <4>1. \/ leg' = [leg EXCEPT ![l].status = "NoReply"]
            \/ leg' = [leg EXCEPT ![l].alive = "stopped", ![l].other = None]
        BY <3>1 DEF OnB2BConnect
      <4> QED
        BY <1>1, <4>1 DEF Shape, Same
    <3>2. CASE OnSipReply(l)
      <4>1. \/ leg' = [leg EXCEPT ![l].status = "Ringing"]
            \/ leg' = [leg EXCEPT ![l].status = "Connected"]
            \/ leg' = [leg EXCEPT ![l].status = "Disconnected", ![l].alive = "stopped"]
        BY <3>2 DEF OnSipReply
      <4> QED
        BY <1>1, <4>1 DEF Shape, Same
    <3>3. CASE TerminateLegOnReplyException(l)
      BY <1>1, <3>3 DEF TerminateLegOnReplyException, Shape, Same
    <3>4. CASE OnException(l)
      BY <1>3, <3>4 DEF OnException
    <3>5. CASE OnCalleeBye(l)
      BY <1>1, <3>5 DEF OnCalleeBye, Shape, Same
    <3>6. CASE OnCalleeTimeout(l)
      BY <1>3, <3>6 DEF OnCalleeTimeout
    <3>7. CASE OnRefer(l)
      BY <1>3, <3>7 DEF OnRefer
    <3> QED
      BY <1>7, <3>1, <3>2, <3>3, <3>4, <3>5, <3>6, <3>7 DEF Callee
  <2> QED
    BY <2>1, <2>2 DEF SameAttempt, Same
<1> QED
  BY <1>5, <1>6, <1>7

LEMMA HandlersInductive ==
  /\ Init => HandlersInv
  /\ CallInv /\ CdrInv /\ HandlersInv /\ [Next]_vars => HandlersInv'
<1>1. Init => HandlersInv
  BY DEF Init, HandlersInv
<1>2. ASSUME CallInv, CdrInv, HandlersInv, [Next]_vars PROVE HandlersInv'
  <2>0. c \in CtxType /\ c.cur \in Nat
    <3>1. c \in CtxType
      BY <1>2 DEF CdrInv, Unrouted, Tried, Finished, NoneYet, UnderWay, Closed
    <3> QED
      BY <3>1, CtxParts
  <2>1. CASE SameAttempt
    BY <1>2, <2>1 DEF SameAttempt, HandlersInv
  <2>2. CASE OnIdentityReady \/ Answered
    <3>1. stage # "none" /\ hs' = hs
      BY <2>2 DEF OnIdentityReady, Answered, OnPostgresResponse, OnPostgresFailed, OnRadiusReply,
                  OnRedisReply
    <3> QED
      BY <1>2, <3>1 DEF HandlersInv
  <2>3. ASSUME UnderWay(c), NEW early \in BOOLEAN, NEW failover \in BOOLEAN, stage' = "none", hs' = hs,
               c' = GetNextProfile(c, early, failover).c,
               pc' # "idle" => GetNextProfile(c, early, failover).found
        PROVE  HandlersInv'
    <3>1. UnderWay(GetNextProfile(c, early, failover).c)
      BY <2>3, NextUnderWay
    <3>2. PICK d : d = c' /\ d.cur \in Nat /\ c.cur <= d.cur
      BY <2>0, <2>3, <3>1, NextUnderWay DEF UnderWay, CtxType
    <3>3. pc' # "idle" => c.cur < d.cur
      BY <2>3, <3>2, NextChosen
    <3>4. \A i \in hs : i \in Nat /\ i <= d.cur
      BY <1>2, <2>0, <3>2 DEF HandlersInv
    <3>5. pc' # "idle" => d.cur \notin hs
      BY <1>2, <2>0, <3>2, <3>3 DEF HandlersInv
    <3> QED
      BY <2>3, <3>2, <3>4, <3>5 DEF HandlersInv
  <2>4. CASE ProcessResourcesAndSdp \/ ChooseNextProfile
    <3>1. UnderWay(c) /\ stage = "none" /\ stage' = "none"
      BY <1>2, <2>4 DEF CdrInv, Unrouted, Tried, Finished, CallInv, RoutingAlone,
                        ProcessResourcesAndSdp, ChooseNextProfile
    <3>2. CASE pc' = "idle" /\ c' = c /\ hs' \in {hs, hs \cup {c.cur}}
      BY <1>2, <2>0, <3>1, <3>2 DEF HandlersInv
    <3> QED
      BY <1>2, <2>3, <2>4, <3>1, <3>2, LoopCases
  <2>5. CASE B2bInitialErr
    <3>1. pc = "idle" /\ hs' = hs /\ stage' = stage
      BY <2>5 DEF B2bInitialErr, Received, Idle
    <3>2. CASE UNCHANGED <<c, pc>>
      BY <1>2, <3>1, <3>2 DEF HandlersInv
    <3>3. CASE /\ leg[0].status \in {"NoReply", "Ringing"} /\ c.cdr # NoCdr
               /\ c' = GetNextProfile(c, FALSE, FALSE).c
               /\ ~GetNextProfile(c, FALSE, FALSE).found => pc' = pc
      <4>1. UnderWay(c) /\ stage = "none"
        BY <1>2, <3>3 DEF CdrInv, Unrouted, Tried, Finished, CallInv, RoutingAlone
      <4> QED
        BY <2>3, <3>1, <3>3, <4>1
    <3> QED
      BY <2>5, <3>2, <3>3 DEF B2bInitialErr, OnBLegRefused
  <2>6. CASE Terminated \/ UNCHANGED vars
    BY <1>2, <2>6 DEF HandlersInv, Terminated, vars, loopVars
  <2> QED
    BY <1>2, <2>1, <2>2, <2>4, <2>5, <2>6, LegsSame DEF Next, ALegEvent
<1> QED
  BY <1>1, <1>2

(* No callee, nothing to lose.                                             *)
LEMMA NoneOpenIntact ==
  ASSUME \A m \in Bs : ~Open(m)'
  PROVE  AttemptIntact'
BY DEF Open, AttemptIntact

LEMMA AttemptStep ==
  ASSUME CallInv, CallInv', CdrInv, HuntInv, HandlersInv, CdrOfCurrent(c)', AttemptIntact,
         EarlySdp = FALSE, [Next]_vars
  PROVE  AttemptIntact'
<1> USE LegSets
<1>1. CASE SameAttempt /\ UNCHANGED <<held, dropped>>
  BY <1>1 DEF SameAttempt, AttemptIntact, CdrOfCurrent
<1>2. CASE OnIdentityReady \/ Answered
  BY <1>2, RoutingHunt, NoneOpenIntact
<1>3. CASE B2bInitialErr
  BY <1>3, ErrorHunt, NoneOpenIntact
<1>4. CASE ProcessResourcesAndSdp \/ ChooseNextProfile
  <2>1. CASE \A m \in Bs : ~Open(m)'
    BY <2>1, NoneOpenIntact
  <2>2. CASE /\ pc' = "idle" /\ UNCHANGED c
             /\ \/ hs' = hs /\ held' = held
                \/ hs' = hs \cup {c.cur} /\ held' = held \cup {c.cur}
             /\ \E i \in Bs : leg'[i].prof = c.cur /\ \A m \in Bs : m # i => ~Open(m)'
    <3>1. PICK i \in Bs : leg'[i].prof = c.cur /\ \A m \in Bs : m # i => leg'[m].alive # "run"
      BY <2>2 DEF Open
    <3>2. c.cur \in hs' => c.cur \in held'
      BY <1>4, <2>2 DEF HandlersInv, ProcessResourcesAndSdp, ChooseNextProfile
    <3> QED
      BY <2>2, <3>1, <3>2 DEF AttemptIntact, CdrOfCurrent
  <2> QED
    BY <1>4, <2>1, <2>2, LoopHunt
<1>5. CASE OnInvite \/ B2bInitial1xx \/ B2bInitial2xx \/ OnCancel \/ OnBye \/ OnTimerEvent
  <2>1. UNCHANGED <<held, dropped>>
    BY <1>5 DEF OnInvite, B2bInitial1xx, B2bInitial2xx, OnCancel, OnBye, OnTimerEvent
  <2> QED
    BY <1>1, <1>5, <2>1, LegsSame
<1>6. ASSUME NEW l \in AllLegs, LegEvent(l) PROVE AttemptIntact'
  <2>1. UNCHANGED <<held, dropped>>
    BY <1>6 DEF LegEvent, OnOtherBye, OnTerminateLeg, OnTearDown
  <2> QED
    BY <1>1, <1>6, <2>1, LegsSame
<1>7. ASSUME NEW l \in Bs, Callee(l) PROVE AttemptIntact'
  <2>1. UNCHANGED <<held, dropped>>
    BY <1>7 DEF Callee, OnB2BConnect, OnSipReply, TerminateLegOnReplyException, OnException,
                OnCalleeBye, OnCalleeTimeout, OnRefer
  <2> QED
    BY <1>1, <1>7, <2>1, LegsSame
<1>8. ASSUME NEW l \in AllLegs, RemoveCall(l) PROVE AttemptIntact'
  BY <1>8 DEF RemoveCall, AttemptIntact
<1>9. ASSUME NEW l \in AllLegs, OnServerShutdown(l) PROVE AttemptIntact'
  <2>1. leg[l].alive = "run" /\ leg' = Stopped(l) /\ Shape
    BY <1>9 DEF OnServerShutdown, CallInv
  <2>2. leg'[l].alive = "stopped" /\ \A m \in Bs : leg'[m].alive = "run" => leg[m].alive = "run" /\ m # l
    BY <2>1 DEF Shape, Stopped
  <2>3. CASE l = 0
    BY <2>2, <2>3 DEF AttemptIntact
  <2>4. CASE l # 0
    <3>1. \A m \in Bs : leg[m].alive = "run" => m = l
      BY <2>1, <2>4 DEF HuntInv, Open
    <3> QED
      BY <2>2, <3>1 DEF AttemptIntact
  <2> QED
    BY <2>3, <2>4
<1>10. ASSUME NEW l \in AllLegs, OnBeforeDestroy(l) PROVE AttemptIntact'
  <2>1. CASE UNCHANGED held
    <3>1. UNCHANGED dropped
      BY <1>10 DEF OnBeforeDestroy
    <3> QED
      BY <1>1, <1>10, <2>1, <3>1, LegsSame
  <2>2. CASE leg[l].ctx /\ refs' = 0
    <3>1. CtxLegs' \subseteq AllLegs /\ refs' = Cardinality(CtxLegs')
      BY DEF CallInv, CtxCounted, CtxLegs
    <3>2. IsFiniteSet(CtxLegs')
      BY <3>1, FS_Subset
    <3>3. CtxLegs' = {}
      BY <2>2, <3>1, <3>2, FS_EmptySet
    <3> QED
      BY <3>3 DEF CtxLegs, AttemptIntact
  <2> QED
    BY <1>10, <2>1, <2>2 DEF OnBeforeDestroy
<1>11. CASE Terminated \/ UNCHANGED vars
  BY <1>11 DEF AttemptIntact, Terminated, vars, loopVars
<1> QED
  BY <1>2, <1>3, <1>4, <1>5, <1>6, <1>7, <1>8, <1>9, <1>10, <1>11 DEF Next, ALegEvent

(* An error reply ends the attempt it belongs to and no other: while the A *)
(* leg hunts, the callee being called is that of the current profile, the  *)
(* CDR under way is its CDR and its resources are held, for any list of    *)
(* profiles and any order of replies, BYEs and terminations (onBLegRefused *)
(* after b2bInitialErr, connectCallee).  Without the assumption a leg that *)
(* refuses the SDP of a provisional reply reports an error twice.          *)
THEOREM AttemptStaysIntact ==
  ASSUME EarlySdp = FALSE
  PROVE  Spec => []AttemptIntact
<1>1. Init => AttemptIntact /\ CdrOfCurrent(c)
  <2> SUFFICES ASSUME Init PROVE AttemptIntact /\ CdrOfCurrent(c)
    OBVIOUS
  <2>1. \A l \in Bs : leg[l].alive = "none"
    BY LegSets DEF Init, NoLeg
  <2> QED
    BY <2>1 DEF Init, NewCtx, AttemptIntact, CdrOfCurrent
<1>2. CallInv /\ CallInv' /\ CdrInv /\ CdrOfCurrent(c) /\ [Next]_vars => CdrOfCurrent(c)'
  BY CdrInductive, CdrStep
<1>3. CallInv /\ CallInv' /\ CdrInv /\ HuntInv /\ HandlersInv /\ CdrOfCurrent(c)' /\ AttemptIntact
        /\ [Next]_vars => AttemptIntact'
  BY AttemptStep
<1>4. /\ Init => HuntInv
      /\ CallInv /\ CdrInv /\ HuntInv /\ [Next]_vars => HuntInv'
  BY HuntInductive
<1> QED
  BY <1>1, <1>2, <1>3, <1>4, CallInductive, CdrInductive, HandlersInductive, PTL DEF Spec

-----------------------------------------------------------------------------
(* Numbers when profiles to be skipped were dialed.                        *)

Same(x, y) == x.attempt = y.attempt /\ x.profile = y.profile

(* A row has its place as its number, or repeats the row of a profile to   *)
(* be skipped.                                                             *)
Counted(ps, w) ==
  \A i \in DOMAIN w :
    w[i].attempt = i \/ (ps[w[i].profile].skip /\ \E j \in 1..(i - 1) : Same(w[j], w[i]))

(* Rows that may follow the rows v.                                        *)
Follow(ps, v, w) ==
  \A i \in DOMAIN w :
    w[i].attempt = Len(v) + i \/ (ps[w[i].profile].skip /\ \E j \in 1..Len(v) : Same(v[j], w[i]))

LEMMA CountedConcat ==
  ASSUME NEW ps, NEW v \in Seq(Row), Counted(ps, v), NEW w \in Seq(Row), Follow(ps, v, w)
  PROVE  Counted(ps, v \o w)
<1>1. /\ Len(v \o w) = Len(v) + Len(w) /\ Len(v) \in Nat /\ Len(w) \in Nat /\ v \o w \in Seq(Row)
      /\ DOMAIN (v \o w) = 1..(Len(v) + Len(w)) /\ DOMAIN v = 1..Len(v) /\ DOMAIN w = 1..Len(w)
  OBVIOUS
<1>2. \A j \in 1..Len(v) : (v \o w)[j] = v[j]
  BY <1>1
<1>3. \A i \in 1..Len(w) : (v \o w)[Len(v) + i] = w[i]
  BY <1>1
<1>4. PICK u : u = v \o w /\ DOMAIN u = 1..(Len(v) + Len(w)) /\ \A j \in 1..Len(v) : u[j] = v[j]
  BY <1>1, <1>2
<1>5. ASSUME NEW i \in DOMAIN u
      PROVE  u[i].attempt = i \/ (ps[u[i].profile].skip /\ \E j \in 1..(i - 1) : Same(u[j], u[i]))
  <2>1. CASE i <= Len(v)
    <3>1. i \in 1..Len(v) /\ u[i] = v[i] /\ \A j \in 1..(i - 1) : j \in 1..Len(v) /\ u[j] = v[j]
      BY <1>1, <1>4, <1>5, <2>1
    <3> QED
      BY <1>1, <3>1 DEF Counted
  <2>2. CASE i > Len(v)
    <3>1. PICK k \in 1..Len(w) : i = Len(v) + k /\ u[i] = w[k]
      <4>1. i - Len(v) \in 1..Len(w) /\ i = Len(v) + (i - Len(v))
        BY <1>1, <1>4, <1>5, <2>2
      <4> QED
        BY <1>3, <1>4, <4>1
    <3>2. \A j \in 1..Len(v) : j \in 1..(i - 1) /\ u[j] = v[j]
      BY <1>1, <1>4, <3>1
    <3> QED
      BY <1>1, <3>1, <3>2 DEF Follow
  <2>3. i <= Len(v) \/ i > Len(v)
    BY <1>1, <1>4
  <2> QED
    BY <2>1, <2>2, <2>3
<1> QED
  BY <1>4, <1>5 DEF Counted

LEMMA CountedAppend ==
  ASSUME NEW ps, NEW v \in Seq(Row), Counted(ps, v), NEW e \in Row,
         \/ e.attempt = Len(v) + 1
         \/ ps[e.profile].skip /\ \E j \in 1..Len(v) : Same(v[j], e)
  PROVE  Counted(ps, Append(v, e)) /\ Len(Append(v, e)) = Len(v) + 1
<1>0. <<e>> \in Seq(Row) /\ Len(<<e>>) = 1 /\ <<e>>[1] = e
  OBVIOUS
<1>1. PICK w \in Seq(Row) : w = <<e>> /\ Len(w) = 1 /\ w[1] = e
  BY <1>0
<1>2. v \o w = Append(v, e)
  BY <1>1
<1>3. Follow(ps, v, w)
  <2>1. DOMAIN w = {1}
    BY <1>1
  <2> QED
    BY <1>1, <2>1 DEF Follow
<1>4. Counted(ps, v \o w)
  BY <1>3, CountedConcat
<1> QED
  BY <1>2, <1>4

(* The CDRs getNextProfile writes for the current and further profiles,    *)
(* and that those of m profiles are among the rows w.                      *)
SkipsFrom(d, s) ==
  \A i \in DOMAIN s : s[i].attempt = d.cdr.attempt + i - 1 /\ s[i].profile = d.cur + i - 1
HasSkips(d, m, w) ==
  \A i \in 1..m : \E j \in 1..Len(w) :
    w[j].attempt = d.cdr.attempt + i - 1 /\ w[j].profile = d.cur + i - 1

(* Behind the current profile, which is to be skipped, nothing callable    *)
(* follows, and the CDRs of skipping were written: getNextProfile keeps    *)
(* the current profile and writes them again.                              *)
Stuck(d) ==
  LET n == FirstUnskipped(d.profiles, d.cur)
  IN  /\ SkipCdrStored /\ d.profiles[d.cur].skip
      /\ n > Len(d.profiles) \/ d.profiles[n].refuse
      /\ HasSkips(d, n - d.cur, d.written)

Numbered(d) == Counted(d.profiles, d.written) /\ (IsNext(d) \/ Stuck(d))

LEMMA StrictNumbered ==
  ASSUME NEW d, Strict(d)
  PROVE  Numbered(d)
BY DEF Strict, InOrder, Numbered, Counted

(* What lies behind a profile to be skipped.                               *)
LEMMA SkipsBehind ==
  ASSUME NEW d, UnderWay(d), d.profiles[d.cur].skip
  PROVE  LET n == FirstUnskipped(d.profiles, d.cur)
         IN  /\ n \in Nat /\ n - d.cur \in Nat /\ n - d.cur >= 1
             /\ \A i \in 1..(n - d.cur) : d.profiles[d.cur + i - 1].skip
<1> DEFINE n == FirstUnskipped(d.profiles, d.cur)
<1>1. d.profiles \in Seq(Profile) /\ Len(d.profiles) \in Nat /\ d.cur \in 1..Len(d.profiles)
  BY CtxParts DEF UnderWay
<1>2. /\ n \in d.cur..(Len(d.profiles) + 1) /\ (n > Len(d.profiles) \/ ~d.profiles[n].skip)
      /\ \A j \in d.cur..(n - 1) : d.profiles[j].skip
  BY <1>1, FirstUnskippedIs
<1> HIDE DEF n
<1>3. n # d.cur
  BY <1>1, <1>2
<1>4. \A i \in 1..(n - d.cur) : d.cur + i - 1 \in d.cur..(n - 1)
  BY <1>1, <1>2
<1> QED
  BY <1>1, <1>2, <1>3, <1>4 DEF n

(* The last CDR is written.                                                *)
LEMMA WriteNumbered ==
  ASSUME NEW d, d \in CtxType, d.cdr # NoCdr => UnderWay(d), CdrOfCurrent(d), Numbered(d)
  PROVE  Numbered(WriteCdr(d, TRUE)) /\ WriteCdr(d, TRUE).cdr = NoCdr
<1>1. CASE d.cdr = NoCdr
  BY <1>1, WriteNothing
<1>2. CASE d.cdr # NoCdr
  <2>1. d.written \in Seq(Row) /\ d.cdr \in CdrType /\ d.cdr.profile = d.cur /\ Len(d.written) \in Nat
        /\ UnderWay(d)
    BY <1>2, CtxParts DEF CdrOfCurrent
  <2>2. PICK e \in Row : e = Entry(d.cdr, TRUE) /\ e.attempt = d.cdr.attempt /\ e.profile = d.cur
    <3>1. /\ Entry(d.cdr, TRUE) \in Row /\ Entry(d.cdr, TRUE).attempt = d.cdr.attempt
          /\ Entry(d.cdr, TRUE).profile = d.cdr.profile
      BY <2>1, CdrTypes
    <3> QED
      BY <2>1, <3>1
  <2>3. \/ e.attempt = Len(d.written) + 1
        \/ d.profiles[e.profile].skip /\ \E j \in 1..Len(d.written) : Same(d.written[j], e)
    <3>1. CASE IsNext(d)
      BY <1>2, <2>2, <3>1 DEF IsNext
    <3>2. CASE Stuck(d)
      <4>1. d.profiles[d.cur].skip
        BY <3>2 DEF Stuck
      <4>2. PICK m \in Nat : m = FirstUnskipped(d.profiles, d.cur) - d.cur /\ m >= 1
        BY <2>1, <4>1, SkipsBehind
      <4>3. \A i \in 1..m : \E j \in 1..Len(d.written) :
              d.written[j].attempt = d.cdr.attempt + i - 1 /\ d.written[j].profile = d.cur + i - 1
        BY <3>2, <4>2 DEF Stuck, HasSkips
      <4>4. 1 \in 1..m /\ d.cdr.attempt + 1 - 1 = d.cdr.attempt /\ d.cur + 1 - 1 = d.cur
        BY <1>2, <4>2, CtxParts
      <4>5. PICK j \in 1..Len(d.written) :
              d.written[j].attempt = d.cdr.attempt /\ d.written[j].profile = d.cur
        BY <4>3, <4>4
      <4> QED
        BY <2>2, <4>1, <4>5 DEF Same
    <3> QED
      BY <3>1, <3>2 DEF Numbered
  <2>4. PICK w : w = Append(d.written, e) /\ Counted(d.profiles, w)
    BY <2>1, <2>2, <2>3, CountedAppend DEF Numbered
  <2>5. PICK no : no = NoCdr
    OBVIOUS
  <2>6. WriteCdr(d, TRUE) = [d EXCEPT !.written = w, !.cdr = no]
    BY <1>2, <2>2, <2>4, <2>5 DEF WriteCdr, CtxType
  <2>7. /\ WriteCdr(d, TRUE).written = w /\ WriteCdr(d, TRUE).cdr = no
        /\ WriteCdr(d, TRUE).profiles = d.profiles
    BY <2>6 DEF CtxType
  <2> QED
    BY <2>4, <2>5, <2>7 DEF Numbered, IsNext
<1> QED
  BY <1>1, <1>2

(* What getNextProfile writes for profiles to be skipped: the next numbers *)
(* or, when it did so before, the same rows again.                         *)
LEMMA SkipNumbered ==
  ASSUME NEW d, UnderWay(d), Numbered(d), SkipCdrStored, d.profiles[d.cur].skip,
         NEW m \in Nat, m = FirstUnskipped(d.profiles, d.cur) - d.cur,
         NEW s \in Seq(Row), Len(s) = m, SkipsFrom(d, s)
  PROVE  /\ Counted(d.profiles, d.written \o s) /\ d.written \o s \in Seq(Row)
         /\ Len(d.written \o s) = Len(d.written) + m
         /\ HasSkips(d, m, d.written \o s)
<1>1. /\ d \in CtxType /\ d.cdr # NoCdr /\ d.written \in Seq(Row) /\ Len(d.written) \in Nat
      /\ d.cdr.attempt \in Int /\ d.cur \in Nat /\ Counted(d.profiles, d.written)
  BY CtxParts DEF UnderWay, Numbered
<1>2. DOMAIN s = 1..m /\ \A i \in 1..m : d.profiles[d.cur + i - 1].skip
  BY SkipsBehind
<1>3. Follow(d.profiles, d.written, s)
  <2>1. CASE IsNext(d)
    <3>1. d.cdr.attempt = Len(d.written) + 1
      BY <1>1, <2>1 DEF IsNext
    <3>2. ASSUME NEW i \in 1..m PROVE s[i].attempt = Len(d.written) + i
      <4>1. s[i].attempt = d.cdr.attempt + i - 1
        BY <1>2 DEF SkipsFrom
      <4>2. PICK z \in Nat : z = Len(d.written)
        BY <1>1
      <4>3. s[i].attempt = (z + 1) + i - 1
        BY <3>1, <4>1, <4>2
      <4> QED
        BY <4>2, <4>3
    <3> QED
      BY <1>2, <3>2 DEF Follow
  <2>2. CASE Stuck(d)
    <3>1. HasSkips(d, m, d.written)
      BY <2>2 DEF Stuck
    <3> QED
      BY <1>2, <3>1 DEF Same, Follow, SkipsFrom, HasSkips
  <2> QED
    BY <2>1, <2>2 DEF Numbered
<1>4. PICK p \in Seq(Row) : p = d.written
  BY <1>1
<1>5. /\ Counted(d.profiles, p \o s) /\ p \o s \in Seq(Row) /\ Len(p \o s) = Len(p) + Len(s)
      /\ \A i \in 1..Len(s) : (p \o s)[Len(p) + i] = s[i]
  <2>1. Counted(d.profiles, p) /\ Follow(d.profiles, p, s)
    BY <1>1, <1>3, <1>4
  <2>2. Counted(d.profiles, p \o s)
    BY <2>1, CountedConcat
  <2>3. p \o s \in Seq(Row) /\ Len(p \o s) = Len(p) + Len(s)
    OBVIOUS
  <2>4. \A i \in 1..Len(s) : (p \o s)[Len(p) + i] = s[i]
    BY <2>3
  <2> QED
    BY <2>2, <2>3, <2>4
<1>6. PICK w \in Seq(Row) : w = p \o s
  BY <1>5
<1>7. Len(w) = Len(p) + m /\ Len(p) \in Nat /\ \A i \in 1..m : w[Len(p) + i] = s[i]
  BY <1>5, <1>6
<1>8. ASSUME NEW i \in 1..m
      PROVE  \E j \in 1..Len(w) :
               w[j].attempt = d.cdr.attempt + i - 1 /\ w[j].profile = d.cur + i - 1
  <2>1. Len(p) + i \in 1..Len(w)
    BY <1>7
  <2>2. /\ w[Len(p) + i].attempt = d.cdr.attempt + i - 1
        /\ w[Len(p) + i].profile = d.cur + i - 1
    BY <1>2, <1>7 DEF SkipsFrom
  <2> QED
    BY <2>1, <2>2
<1> QED
  BY <1>4, <1>5, <1>6, <1>7, <1>8 DEF HasSkips

(* getNextProfile keeps the numbers; the CDR of a profile it finds has the *)
(* next one.                                                               *)
LEMMA NextNumbered ==
  ASSUME NEW d, UnderWay(d), CdrOfCurrent(d), Numbered(d),
         NEW early \in BOOLEAN, NEW failover \in BOOLEAN, early => IsNext(d)
  PROVE  /\ Numbered(GetNextProfile(d, early, failover).c)
         /\ GetNextProfile(d, early, failover).found => IsNext(GetNextProfile(d, early, failover).c)
<1> DEFINE ps == d.profiles
           n == IF ps[d.cur].skip THEN FirstUnskipped(ps, d.cur) ELSE d.cur + 1
           skipped == IF ps[d.cur].skip /\ SkipCdrStored THEN SkipCdrs(d, n) ELSE << >>
           counter == d.cdr.attempt + Len(skipped)
           r == GetNextProfile(d, early, failover)
<1>1. /\ d \in CtxType /\ d.cdr # NoCdr /\ d.cur \in 1..Len(ps) /\ ps \in Seq(Profile)
      /\ Len(ps) \in Nat /\ d.written \in Seq(Row) /\ d.cdr \in CdrType /\ d.cdr.attempt \in Int
      /\ Len(d.written) \in Nat /\ Counted(ps, d.written) /\ d.cdr.profile = d.cur
  BY CtxParts DEF UnderWay, Numbered, CdrOfCurrent
<1>2. n \in Int /\ d.cur <= n /\ n >= 1
  <2>1. FirstUnskipped(ps, d.cur) \in d.cur..(Len(ps) + 1)
    BY <1>1, FirstUnskippedIs
  <2> QED
    BY <1>1, <2>1
<1>a. r = IF n > Len(ps) \/ (~early /\ ps[n].refuse)
            THEN [found |-> FALSE, c |-> [d EXCEPT !.written = d.written \o skipped]]
          ELSE IF early \/ failover
            THEN [found |-> TRUE, c |-> [d EXCEPT !.written = d.written \o skipped, !.cur = n,
                                                  !.cdr = CdrOf(counter, n)]]
          ELSE [found |-> TRUE,
                c |-> [d EXCEPT !.written = Append(d.written \o skipped, Entry(d.cdr, FALSE)), !.cur = n,
                                !.cdr = CdrOf(counter + 1, n)]]
  BY DEF GetNextProfile
<1>b. /\ Entry(d.cdr, FALSE) \in Row /\ Entry(d.cdr, FALSE).attempt = d.cdr.attempt
      /\ Entry(d.cdr, FALSE).profile = d.cdr.profile
  BY <1>1, CdrTypes
<1>c. CdrOf(counter, n).attempt = counter /\ CdrOf(counter + 1, n).attempt = counter + 1
  BY DEF CdrOf
<1>3. PICK k, w, e, x, y, v :
        /\ k = n /\ w = d.written \o skipped /\ e = Entry(d.cdr, FALSE) /\ x = CdrOf(counter, n)
        /\ y = CdrOf(counter + 1, n) /\ v = Append(w, e)
  OBVIOUS
<1> HIDE DEF n, skipped, counter, r
<1>4. r = IF k > Len(ps) \/ (~early /\ ps[k].refuse)
            THEN [found |-> FALSE, c |-> [d EXCEPT !.written = w]]
          ELSE IF early \/ failover
            THEN [found |-> TRUE, c |-> [d EXCEPT !.written = w, !.cur = k, !.cdr = x]]
          ELSE [found |-> TRUE, c |-> [d EXCEPT !.written = v, !.cur = k, !.cdr = y]]
  BY <1>a, <1>3
<1>5. e \in Row /\ e.attempt = d.cdr.attempt /\ e.profile = d.cur
  BY <1>1, <1>3, <1>b
<1>6. x.attempt = counter /\ y.attempt = counter + 1
  BY <1>3, <1>c
<1>7. /\ ~r.found => k > Len(ps) \/ (~early /\ ps[k].refuse)
      /\ r.found => ~(k > Len(ps) \/ (~early /\ ps[k].refuse))
      /\ ~r.found => r.c.written = w /\ r.c.cdr = d.cdr /\ r.c.cur = d.cur /\ r.c.profiles = ps
      /\ r.found => \/ r.c.written = w /\ r.c.cdr = x /\ r.c.profiles = ps
                    \/ r.c.written = v /\ r.c.cdr = y /\ r.c.profiles = ps
  BY <1>1, <1>4 DEF CtxType
<1>8. CASE ~(ps[d.cur].skip /\ SkipCdrStored)
  <2>1. skipped = << >>
    BY <1>8 DEF skipped
  <2>2. w = d.written /\ Len(skipped) = 0
    <3>1. d.written \o << >> = d.written
      BY <1>1
    <3> QED
      BY <1>3, <2>1, <3>1
  <2>3. counter = Len(w) + 1 /\ d.cdr.attempt = Len(w) + 1 /\ Len(w) \in Nat
    <3>1. d.cdr.attempt = Len(d.written) + 1
      BY <1>1, <1>8 DEF Numbered, IsNext, Stuck
    <3> QED
      BY <1>1, <2>2, <3>1 DEF counter
  <2>4. Counted(ps, v) /\ Len(v) = Len(w) + 1
    BY <1>1, <1>3, <1>5, <2>2, <2>3, CountedAppend
  <2>5. CASE ~r.found
    BY <1>1, <1>7, <2>2, <2>3, <2>5 DEF Numbered, IsNext, r
  <2>6. CASE r.found
    BY <1>1, <1>6, <1>7, <2>2, <2>3, <2>4, <2>6 DEF Numbered, IsNext, r
  <2> QED
    BY <2>5, <2>6, <1>4 DEF r
<1>9. CASE ps[d.cur].skip /\ SkipCdrStored
  <2>0. n = FirstUnskipped(ps, d.cur) /\ skipped = SkipCdrs(d, n)
    BY <1>9 DEF n, skipped
  <2>1. PICK m \in Nat : m = n - d.cur /\ m >= 1 /\ ps[d.cur].skip
    BY <1>9, <2>0, SkipsBehind
  <2>2. PICK s \in Seq(Row) :
          s = skipped /\ Len(s) = m /\ SkipsFrom(d, s)
    BY <1>1, <1>2, <2>0, <2>1, SkipRows DEF SkipsFrom
  <2>3. /\ w \in Seq(Row) /\ Counted(ps, w) /\ Len(w) = Len(d.written) + m
        /\ HasSkips(d, m, w)
    <3>1. m = FirstUnskipped(d.profiles, d.cur) - d.cur /\ SkipCdrStored /\ w = d.written \o s
      BY <1>3, <1>9, <2>0, <2>1, <2>2
    <3> QED
      BY <2>1, <2>2, <3>1, SkipNumbered
  <2>4. counter = d.cdr.attempt + m
    BY <2>2 DEF counter
  <2>5. Counted(ps, v) /\ Len(v) = Len(w) + 1
    <3>1. 1 \in 1..m /\ d.cdr.attempt + 1 - 1 = d.cdr.attempt /\ d.cur + 1 - 1 = d.cur
      BY <1>1, <2>1
    <3>2. \E j \in 1..Len(w) : w[j].attempt = d.cdr.attempt /\ w[j].profile = d.cur
      BY <2>3, <3>1 DEF HasSkips
    <3>3. \E j \in 1..Len(w) : Same(w[j], e)
      BY <1>5, <3>2 DEF Same
    <3> QED
      BY <1>3, <1>5, <2>1, <2>3, <3>3, CountedAppend
  <2>6. CASE ~r.found
    <3>1. k > Len(ps) \/ ps[k].refuse
      BY <1>7, <2>6
    <3>2. PICK z : z = r.c /\ z.written = w /\ z.cdr = d.cdr /\ z.cur = d.cur /\ z.profiles = ps
      BY <1>7, <2>6
    <3>3. /\ FirstUnskipped(z.profiles, z.cur) = k /\ k - z.cur = m /\ z.profiles[z.cur].skip
          /\ k > Len(z.profiles) \/ z.profiles[k].refuse
      BY <1>3, <2>0, <2>1, <3>1, <3>2
    <3>4. HasSkips(z, m, z.written)
      BY <2>3, <3>2 DEF HasSkips
    <3>5. Stuck(z)
      BY <1>9, <3>3, <3>4 DEF Stuck
    <3> QED
      BY <2>3, <2>6, <3>2, <3>5 DEF Numbered, r
  <2>7. CASE r.found
    <3>1. IsNext(d)
      BY <1>3, <1>7, <2>0, <2>7 DEF Numbered, Stuck
    <3>2. d.cdr.attempt = Len(d.written) + 1
      BY <1>1, <3>1 DEF IsNext
    <3>3. counter = Len(w) + 1 /\ counter + 1 = Len(v) + 1
      <4>1. PICK z \in Nat : z = Len(d.written)
        BY <1>1
      <4>2. counter = (z + 1) + m /\ Len(w) = z + m
        BY <2>3, <2>4, <3>2, <4>1
      <4> QED
        BY <2>5, <4>2
    <3> QED
      BY <1>6, <1>7, <2>3, <2>5, <2>7, <3>3 DEF Numbered, IsNext, r
  <2> QED
    BY <2>6, <2>7, <1>4 DEF r
<1> QED
  BY <1>8, <1>9

(* Routing is not begun again, and rctl.get's first loop starts from it.   *)
LEMMA StageStep ==
  ASSUME [Next]_vars
  PROVE  /\ stage' # "none" => stage # "none"
         /\ pc' = "first" => pc = "first" \/ stage # "none"
<1>1. CASE OnInvite \/ OnIdentityReady \/ Answered
  BY <1>1 DEF OnInvite, OnIdentityReady, Answered, OnPostgresResponse, OnPostgresFailed, OnRadiusReply,
              OnRedisReply
<1>2. CASE ProcessResourcesAndSdp \/ ChooseNextProfile
  <2>1. stage' = stage
    BY <1>2 DEF ProcessResourcesAndSdp, ChooseNextProfile
  <2>2. pc' = "first" => pc = "first"
    BY <1>2 DEF ProcessResourcesAndSdp, ChooseNextProfile
  <2> QED
    BY <2>1, <2>2
<1>3. CASE B2bInitialErr
  <2>1. stage' = stage
    BY <1>3 DEF B2bInitialErr
  <2>2. pc' # "first" \/ pc' = pc
    BY <1>3 DEF B2bInitialErr, OnBLegRefused
  <2> QED
    BY <2>1, <2>2
<1>4. CASE B2bInitial1xx \/ B2bInitial2xx \/ OnCancel \/ OnBye \/ OnTimerEvent
  BY <1>4 DEF B2bInitial1xx, B2bInitial2xx, OnCancel, OnBye, OnTimerEvent, loopVars
<1>5. ASSUME NEW l \in AllLegs, LegEvent(l) \/ RemoveCall(l) \/ OnServerShutdown(l) \/ OnBeforeDestroy(l)
      PROVE  UNCHANGED <<stage, pc>>
  BY <1>5 DEF LegEvent, OnOtherBye, OnTerminateLeg, OnTearDown, RemoveCall, OnServerShutdown,
              OnBeforeDestroy, loopVars
<1>6. ASSUME NEW l \in Bs, Callee(l) PROVE UNCHANGED <<stage, pc>>
  BY <1>6 DEF Callee, OnB2BConnect, OnSipReply, TerminateLegOnReplyException, OnException,
              OnCalleeBye, OnCalleeTimeout, OnRefer, loopVars
<1>7. CASE Terminated \/ UNCHANGED vars
  BY <1>7 DEF Terminated, vars, loopVars
<1> QED
  BY <1>1, <1>2, <1>3, <1>4, <1>5, <1>6, <1>7 DEF Next, ALegEvent

(* The numbers, and when they have no repetition yet.                      *)
NumberInv ==
  /\ Numbered(c)
  /\ stage # "none" => Strict(c)
  /\ pc = "first" => IsNext(c)

LEMMA FirstStrict ==
  ASSUME NoneYet(c), NEW ps \in ProfileLists \cup {FailedProfiles}, NEW d, d = GetFirstProfile(c, ps)
  PROVE  Strict(d) /\ Strict([d EXCEPT !.cdr = NoCdr]) /\ Strict(WriteCdr(d, TRUE))
<1>1. UnderWay(d) /\ NoneYet([d EXCEPT !.cdr = NoCdr])
  BY ListTypes, FirstUnderWay
<1>2. c \in CtxType /\ c.written = << >>
  BY DEF NoneYet
<1>3. CdrOf(1, 1).attempt = 1
  BY DEF CdrOf
<1>4. PICK x : x = CdrOf(1, 1) /\ x.attempt = 1
  BY <1>3
<1>5. d = [c EXCEPT !.profiles = ps, !.cur = 1, !.cdr = x]
  BY <1>4 DEF GetFirstProfile
<1>6. d.cdr = x /\ d.written = << >>
  BY <1>2, <1>5 DEF CtxType
<1>7. DOMAIN << >> = {} /\ Len(<< >>) = 0
  OBVIOUS
<1>8. Strict(d)
  BY <1>4, <1>6, <1>7 DEF Strict, InOrder, IsNext
<1>9. Strict([d EXCEPT !.cdr = NoCdr])
  BY <1>1, <1>7 DEF NoneYet, Strict, InOrder, IsNext
<1>10. Strict(WriteCdr(d, TRUE))
  BY <1>1, <1>8, WriteStrict DEF UnderWay
<1> QED
  BY <1>8, <1>9, <1>10

LEMMA NumberStep ==
  ASSUME CdrInv, CtxStep, CdrOfCurrent(c), NumberInv, [Next]_vars
  PROVE  NumberInv'
<1>0. /\ c \in CtxType /\ (c.cdr # NoCdr => UnderWay(c))
      /\ Numbered(c) /\ (stage # "none" => Strict(c)) /\ (pc = "first" => IsNext(c))
  BY DEF CdrInv, Unrouted, Tried, Finished, NoneYet, UnderWay, Closed, NumberInv
<1>s. /\ stage' # "none" => stage # "none"
      /\ pc' = "first" => pc = "first" \/ stage # "none"
  BY StageStep
<1>t. Strict(c') => NumberInv'
  BY StrictNumbered DEF NumberInv, Strict
<1>1. CASE Kept
  BY <1>0, <1>1, <1>s DEF Kept, NumberInv, Strict
<1>2. CASE Written
  <2>1. Numbered(c') /\ c'.cdr = NoCdr
    BY <1>0, <1>2, WriteNumbered DEF Written
  <2>2. stage' # "none" => Strict(c')
    BY <1>0, <1>2, <1>s, WriteStrict DEF Written
  <2> QED
    BY <2>1, <2>2 DEF NumberInv, IsNext
<1>3. CASE Chosen
  <2>1. UnderWay(c) /\ stage' = "none"
    BY <1>3 DEF Chosen
  <2>2. PICK early \in BOOLEAN, failover \in BOOLEAN :
          /\ c' = GetNextProfile(c, early, failover).c
          /\ early => pc = "first"
          /\ pc' = "first" => GetNextProfile(c, early, failover).found
    BY <1>3 DEF Chosen
  <2>3. /\ Numbered(GetNextProfile(c, early, failover).c)
        /\ GetNextProfile(c, early, failover).found => IsNext(GetNextProfile(c, early, failover).c)
    BY <1>0, <2>1, <2>2, NextNumbered
  <2> QED
    BY <2>1, <2>2, <2>3 DEF NumberInv
<1>4. CASE Routed
  <2>1. PICK ps \in ProfileLists \cup {FailedProfiles} :
                \/ c' = [GetFirstProfile(c, ps) EXCEPT !.cdr = NoCdr]
                \/ c' = WriteCdr(GetFirstProfile(c, ps), TRUE)
                \/ c' = GetFirstProfile(c, ps)
    BY <1>4 DEF Routed
  <2>2. PICK d : d = GetFirstProfile(c, ps)
    OBVIOUS
  <2>3. Strict(d) /\ Strict([d EXCEPT !.cdr = NoCdr]) /\ Strict(WriteCdr(d, TRUE))
    BY <1>4, <2>2, FirstStrict DEF Routed
  <2> QED
    BY <1>t, <2>1, <2>2, <2>3
<1>5. CASE Passed
  <2>1. PICK reply \in AorReplies : c' = PassSkipped(Resolve(c, reply)).c
    BY <1>5 DEF Passed
  <2>2. PICK d : d = Resolve(c, reply)
    OBVIOUS
  <2>3. UnderWay(d)
    BY <1>5, <2>2, ResolvedUnderWay DEF Passed
  <2>4. d.written = c.written /\ d.cdr = c.cdr
    BY <1>0, <2>2 DEF Resolve, CtxType
  <2>5. Strict(d)
    BY <1>0, <1>5, <2>4 DEF Passed, Strict, IsNext
  <2> QED
    BY <1>t, <2>1, <2>2, <2>3, <2>5, PassStrict
<1> QED
  BY <1>1, <1>2, <1>3, <1>4, <1>5 DEF CtxStep

(* The i-th CDR of a call is that of its attempt i, for every list of      *)
(* profiles and registrar's answer; only the CDRs of a profile to be       *)
(* skipped that was dialed all the same share a number (attempts_counter   *)
(* in getNextProfile).                                                     *)
THEOREM AttemptsCounted == Spec => []AttemptsNumbered
<1>1. Init => CdrOfCurrent(c) /\ NumberInv
  <2> SUFFICES ASSUME Init PROVE CdrOfCurrent(c) /\ NumberInv
    OBVIOUS
  <2>1. c.cdr = NoCdr /\ c.written = << >>
    BY DEF Init, NewCtx
  <2>2. DOMAIN << >> = {}
    OBVIOUS
  <2>3. Strict(c)
    BY <2>1, <2>2 DEF Strict, InOrder, IsNext
  <2> QED
    BY <2>1, <2>3, StrictNumbered DEF CdrOfCurrent, NumberInv, Strict
<1>2. CallInv /\ CallInv' /\ CdrInv /\ CdrOfCurrent(c) /\ [Next]_vars => CdrOfCurrent(c)'
  BY CdrInductive, CdrStep
<1>3. CallInv /\ CallInv' /\ CdrInv /\ CdrOfCurrent(c) /\ NumberInv /\ [Next]_vars => NumberInv'
  BY CdrInductive, NumberStep
<1>4. CdrInv /\ CdrOfCurrent(c) /\ NumberInv => AttemptsNumbered
  <2> SUFFICES ASSUME CdrInv, CdrOfCurrent(c), NumberInv PROVE AttemptsNumbered
    OBVIOUS
  <2>1. Counted(c.profiles, c.written) /\ Numbered(c)
    BY DEF NumberInv, Numbered
  <2>2. \A i \in DOMAIN c.written :
          \/ c.written[i].attempt = i
          \/ /\ c.profiles[c.written[i].profile].skip
             /\ \E j \in 1..(i - 1) : /\ c.written[j].attempt = c.written[i].attempt
                                      /\ c.written[j].profile = c.written[i].profile
    BY <2>1 DEF Counted, Same
  <2>3. ASSUME c.cdr # NoCdr, c.cdr.attempt # Len(c.written) + 1
        PROVE  /\ c.profiles[c.cdr.profile].skip
               /\ \E j \in DOMAIN c.written : /\ c.written[j].attempt = c.cdr.attempt
                                              /\ c.written[j].profile = c.cdr.profile
    <3>1. Stuck(c) /\ UnderWay(c) /\ c.cdr.profile = c.cur
      BY <2>1, <2>3 DEF Numbered, IsNext, CdrOfCurrent, CdrInv, Unrouted, NoneYet, Tried, Finished, Closed
    <3>2. /\ c \in CtxType /\ c.cdr.attempt \in Int /\ c.cur \in Nat
          /\ DOMAIN c.written = 1..Len(c.written)
      BY <3>1, CtxParts DEF UnderWay
    <3>3. c.profiles[c.cur].skip
      BY <3>1 DEF Stuck
    <3>4. PICK m \in Nat : m = FirstUnskipped(c.profiles, c.cur) - c.cur /\ m >= 1
      BY <3>1, <3>3, SkipsBehind
    <3>5. HasSkips(c, m, c.written)
      BY <3>1, <3>4 DEF Stuck
    <3>6. 1 \in 1..m /\ c.cdr.attempt + 1 - 1 = c.cdr.attempt /\ c.cur + 1 - 1 = c.cur
      BY <3>2, <3>4
    <3>7. \E j \in 1..Len(c.written) : c.written[j].attempt = c.cdr.attempt /\ c.written[j].profile = c.cur
      BY <3>5, <3>6 DEF HasSkips
    <3> QED
      BY <3>1, <3>2, <3>3, <3>7
  <2> QED
    BY <2>2, <2>3 DEF AttemptsNumbered
<1> QED
  BY <1>1, <1>2, <1>3, <1>4, CallInductive, CdrInductive, PTL DEF Spec
=============================================================================
