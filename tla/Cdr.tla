--------------------------------- MODULE Cdr ---------------------------------
(***************************************************************************)
(* The call detail record of one attempt: operators that take and return   *)
(* it.  A time is the position of its reading among the clock readings     *)
(* taken for this record, 0 when it was not taken (timerisset); the clock  *)
(* advances between readings, those for provisional replies excepted.      *)
(* Reasons are the codes they come with.                                   *)
(*                                                                         *)
(*   initiator             disconnect_initiator; disconnect_internal_* are *)
(*                         set with it                                     *)
(*   aleg                  disconnect_rewrited_*                           *)
(*   bleg                  disconnect_code, disconnect_reason              *)
(*   known, alegW, blegW   disconnect_initiator_writed, *_reason_writed    *)
(***************************************************************************)
EXTENDS Naturals, Sequences

NoCdr == [clock |-> 0]

(* The constructor, and update_with_action(Start): the end is the start    *)
(* until it is known.                                                      *)
NewCdr ==
  [clock |-> 1, start |-> 1, end |-> 1, invite |-> 0, connect |-> 0, bconnect |-> 0,
   t10x |-> 0, t18x |-> 0, early |-> FALSE, initiator |-> "Undefined",
   aleg |-> 0, bleg |-> 0,
   known |-> FALSE, alegW |-> FALSE, blegW |-> FALSE]

(* gettimeofday into field f.                                              *)
Stamp(cdr, f) == [cdr EXCEPT ![f] = cdr.clock + 1, !.clock = @ + 1]
StampOnce(cdr, f) == IF cdr[f] = 0 THEN Stamp(cdr, f) ELSE cdr

Open(cdr) == cdr.start = cdr.end

(* Mutant: an answer is recorded whether or not the call has ended.        *)
ActionConnectAlways(cdr, act) ==
  CASE act = "BLegInvite"  -> StampOnce(cdr, "invite")
    [] act = "Connect"     -> Stamp(cdr, "connect")
    [] act = "BlegConnect" -> Stamp(cdr, "bconnect")
    [] act = "End"         -> IF Open(cdr) THEN Stamp(cdr, "end") ELSE cdr

(* update_with_action: the end is taken once, and no connect after it.     *)
Action(cdr, act) ==
  CASE act = "BLegInvite"  -> StampOnce(cdr, "invite")
    [] act = "Connect"     -> IF Open(cdr) THEN Stamp(cdr, "connect") ELSE cdr
    [] act = "BlegConnect" -> Stamp(cdr, "bconnect")
    [] act = "End"         -> IF Open(cdr) THEN Stamp(cdr, "end") ELSE cdr

(* update_with_sip_reply: the first 10x, the first 18x, and whether one    *)
(* had SDP.  A reply made locally says nothing of the callee.              *)
WithSipReply(cdr, reply) ==
  CASE reply.local                    -> cdr
    [] reply.code \in 100..109        -> [cdr EXCEPT !.t10x = IF @ = 0 THEN cdr.clock ELSE @]
    [] reply.code \in 180..189        -> [cdr EXCEPT !.t18x = IF @ = 0 THEN cdr.clock ELSE @,
                                                     !.early = @ \/ reply.sdp]
    [] OTHER                          -> cdr

(* update_bleg_reason: the first one stays.                                *)
BlegReason(cdr, code) ==
  IF cdr.blegW THEN cdr ELSE [cdr EXCEPT !.bleg = code, !.blegW = TRUE]

(* update_aleg_reason: the last one stays.                                 *)
AlegReason(cdr, code) == [cdr EXCEPT !.aleg = code, !.alegW = TRUE]

(* Mutant: whoever comes last ended the call.                              *)
InternalReasonLast(cdr, initiator, code) ==
  [Action(cdr, "End") EXCEPT !.initiator = initiator, !.known = TRUE,
                             !.aleg = IF cdr.alegW THEN @ ELSE code]

(* update_internal_reason: ends the call; the first initiator stays, the   *)
(* A leg's reason follows until update_aleg_reason sets it.                *)
InternalReason(cdr, initiator, code) ==
  LET e == Action(cdr, "End")
      i == IF e.known THEN e
           ELSE [e EXCEPT !.initiator = initiator, !.known = TRUE]
  IN  IF i.alegW THEN i ELSE [i EXCEPT !.aleg = code]

(* serialize_timers_data.                                                  *)
TimersData(cdr) ==
  [start |-> cdr.start, invite |-> cdr.invite, connect |-> cdr.connect, end |-> cdr.end,
   t10x |-> cdr.t10x, t18x |-> cdr.t18x]

(* apply_params: the row that is written.  Only the last one of a call     *)
(* tells what the A leg was told.                                          *)
ApplyParams(cdr, last) ==
  [timers |-> TimersData(cdr), early |-> cdr.early, bleg |-> cdr.bleg,
   initiator |-> cdr.initiator, aleg |-> IF last THEN cdr.aleg ELSE 0, last |-> last]
=============================================================================
