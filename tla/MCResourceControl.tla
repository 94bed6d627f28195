-------------------------- MODULE MCResourceControl --------------------------
(* TLC instances of ResourceControl.                                       *)
EXTENDS ResourceControl

CONSTANTS s1, s2, k1, k2

(* A list of one resource, and one of a failover group followed by a       *)
(* resource that is also an alternative of the group.                      *)
OneKey       == [key |-> <<k1>>, failover |-> <<FALSE>>]
FailoverKeys == [key |-> <<k1, k2, k1>>, failover |-> <<TRUE, FALSE, FALSE>>]

NeedSame     == [s \in Sessions |-> OneKey]
NeedFailover == [s \in Sessions |-> FailoverKeys]

LimitOne == [k \in Keys |-> 1]
LimitTwo == [k \in Keys |-> 2]
Rejecting == [k \in Keys |-> "reject"]
Accepting == [k \in Keys |-> "accept"]

Symmetry == Permutations(Sessions)
=============================================================================
