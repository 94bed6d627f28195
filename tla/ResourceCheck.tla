---------------------------- MODULE ResourceCheck ----------------------------
(***************************************************************************)
(* The decision loop of ResourceRedisConnection::get(rl, resource): walk a *)
(* resource list together with the usage numbers read from redis, skip to  *)
(* the next alternative of a failover group when a resource is overloaded, *)
(* mark at most one resource of every group active, and stop at the first  *)
(* group with no free alternative.                                         *)
(*                                                                         *)
(* A list is abstracted to its failover_to_next flags; a usage number to   *)
(* whether it reached the resource's limit (result[i] >= res.limit).       *)
(***************************************************************************)
EXTENDS ResourceGroups

CONSTANT Lists            \* the failover_to_next sequences considered

ASSUME ListsAssumption == Lists \subseteq Seq(BOOLEAN)

VARIABLES
  failover,               \* rl: failover_to_next of every resource
  over,                   \* positions whose usage reached the limit
  resource,               \* the iterator `resource` (position in rl)
  check_state,            \* CHECK_STATE_NORMAL / FAILOVER / SKIP
  active,                 \* positions with res.active set
  ret                     \* "none" while looping, then RES_SUCC / RES_BUSY

vars == <<failover, over, resource, check_state, active, ret>>

CheckStates == {"NORMAL", "FAILOVER", "SKIP"}

-----------------------------------------------------------------------------
Init ==
  /\ failover \in Lists
  /\ over \in SUBSET DOMAIN failover
  /\ resource = 1
  /\ check_state = "NORMAL"
  /\ active = {}
  /\ ret = "none"

Looping == ret = "none" /\ resource <= Len(failover)

(* Mutant: the skip never ends.                                            *)
SkipForever ==
  /\ Looping
  /\ check_state = "SKIP"
  /\ resource' = resource + 1
  /\ UNCHANGED <<failover, over, check_state, active, ret>>

(* An alternative of a group already served: look for the group's end.     *)
Skip ==
  /\ Looping
  /\ check_state = "SKIP"
  /\ check_state' = IF failover[resource] THEN "SKIP" ELSE "NORMAL"
  /\ resource' = resource + 1
  /\ UNCHANGED <<failover, over, active, ret>>

(* Mutant: the iterator has already moved on when the loop is left.        *)
OverloadedMovedOn ==
  /\ Looping
  /\ check_state # "SKIP"
  /\ resource \in over
  /\ check_state' = "FAILOVER"
  /\ resource' = resource + 1
  /\ ret' = IF failover[resource] THEN ret ELSE "RES_BUSY"
  /\ UNCHANGED <<failover, over, active>>

(* Overloaded: fail over to the next alternative, or leave the loop with   *)
(* the iterator on the resource that decided.                              *)
Overloaded ==
  /\ Looping
  /\ check_state # "SKIP"
  /\ resource \in over
  /\ IF failover[resource]
       THEN /\ check_state' = "FAILOVER"
            /\ resource' = resource + 1
            /\ UNCHANGED ret
       ELSE /\ ret' = "RES_BUSY"
            /\ UNCHANGED <<check_state, resource>>
  /\ UNCHANGED <<failover, over, active>>

(* Free: take this one and skip the rest of its group.                     *)
Free ==
  /\ Looping
  /\ check_state # "SKIP"
  /\ resource \notin over
  /\ active' = active \cup {resource}
  /\ check_state' = IF failover[resource] THEN "SKIP" ELSE "NORMAL"
  /\ resource' = resource + 1
  /\ UNCHANGED <<failover, over, ret>>

(* The loop ran to the end of the list: every group was served.            *)
Available ==
  /\ ret = "none"
  /\ resource > Len(failover)
  /\ ret' = "RES_SUCC"
  /\ UNCHANGED <<failover, over, resource, check_state, active>>

Next == Skip \/ Overloaded \/ Free \/ Available

Spec == Init /\ [][Next]_vars

-----------------------------------------------------------------------------
TypeOK ==
  /\ failover \in Lists
  /\ over \subseteq DOMAIN failover
  /\ resource \in 1..(Len(failover) + 1)
  /\ check_state \in CheckStates
  /\ active \subseteq DOMAIN failover
  /\ ret \in {"none", "RES_SUCC", "RES_BUSY"}

(* RES_SUCC is returned exactly when no group is exhausted, and then the   *)
(* active resources are the first free alternative of every group: what    *)
(* get(rl) then takes is never overloaded and never two of one group.      *)
SuccessTakesFirstFree ==
  ret = "RES_SUCC" => /\ active = FirstFree(failover, over)
                      /\ Exhausted(failover, over) = {}

(* RES_BUSY is returned with the iterator on the last alternative of the   *)
(* first exhausted group: ResourceControl::get takes the reject code and   *)
(* the action from the type of this resource.                              *)
BusyPointsAtExhausted ==
  ret = "RES_BUSY" =>
    /\ resource \in Exhausted(failover, over)
    /\ \A i \in Exhausted(failover, over) : resource <= i

(* The loop invariant: before position `resource` the active set is the    *)
(* reference's, no group ended exhausted, and check_state tells what       *)
(* happened in the group the iterator is in.                               *)
LoopInv ==
  /\ active = {i \in FirstFree(failover, over) : i < resource}
  /\ \A i \in Exhausted(failover, over) : i >= resource
  /\ check_state = "SKIP" =>
       /\ resource > 1
       /\ failover[resource - 1]
       /\ \E j \in 1..(resource - 1) : /\ SameGroup(failover, j, resource)
                                       /\ j \notin over
  /\ check_state # "SKIP" =>
       \A j \in 1..(resource - 1) : SameGroup(failover, j, resource) => j \in over
  /\ ret = "RES_BUSY" => resource \in Exhausted(failover, over)
  /\ ret = "RES_SUCC" => resource = Len(failover) + 1
=============================================================================
