---------------------------- MODULE MCSBCCallLeg ----------------------------
(***************************************************************************)
(* Small instances of SBCCallLeg.                                          *)
(***************************************************************************)
EXTENDS SBCCallLeg

(* Profiles: with resources, without, a registered AoR, refusing, asking   *)
(* for authorization.                                                      *)
Plain  == [refuse |-> FALSE, auth |-> FALSE, aor |-> 0, rl |-> FALSE, skip |-> FALSE]
Rl     == [Plain EXCEPT !.rl = TRUE]
Aor    == [Rl EXCEPT !.aor = 1]
Refuse == [Plain EXCEPT !.refuse = TRUE]
Auth   == [Plain EXCEPT !.auth = TRUE]

(* At most two callees: hunting, failover, refusing profiles, an AoR that  *)
(* may not be registered, in front and between others, one that may have   *)
(* two contacts, and one that is not registered behind another profile.    *)
HuntLists == {<<Rl, [Rl EXCEPT !.aor = 3]>>, <<Plain, Refuse>>, <<Refuse>>, <<Auth>>, <<Aor, Plain>>,
              <<[Plain EXCEPT !.aor = 2]>>, <<Plain, [Plain EXCEPT !.aor = 1], Plain>>}
HuntReplies == {<<0, 1, 0>>, <<1, 2, 0>>, <<1, 0, 0>>}

AllOutcomes == {"granted", "pass", "reject", "next", "error"}
WithUnready == AllOutcomes \cup {"unready"}
=============================================================================
