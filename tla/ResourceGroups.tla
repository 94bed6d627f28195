--------------------------- MODULE ResourceGroups ---------------------------
(***************************************************************************)
(* Failover groups of a resource list: maximal runs of resources in which  *)
(* all but the last have failover_to_next set.  What a check is for, stated *)
(* without the loop that computes it.                                      *)
(***************************************************************************)
EXTENDS Integers, Sequences

(* i and j > i are alternatives of one group: every resource from i up to  *)
(* the one before j fails over to its successor.                           *)
SameGroup(f, i, j) == \A m \in i..(j - 1) : f[m]

(* The resources to take: the first free alternative of each group.        *)
FirstFree(f, ov) ==
  {i \in DOMAIN f : /\ i \notin ov
                    /\ \A j \in 1..(i - 1) : SameGroup(f, j, i) => j \in ov}

(* Last positions of groups in which every alternative is overloaded.      *)
Exhausted(f, ov) ==
  {i \in DOMAIN f : /\ ~f[i]
                    /\ \A j \in 1..i : SameGroup(f, j, i) => j \in ov}
=============================================================================
