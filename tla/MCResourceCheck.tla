--------------------------- MODULE MCResourceCheck ---------------------------
(* TLC instance of ResourceCheck: every flag sequence up to MaxLen whose   *)
(* last element does not fail over, which is what ResList::parse builds.   *)
EXTENDS ResourceCheck

CONSTANT MaxLen           \* bound: the longest resource list

MCLists ==
  {f \in UNION {[1..n -> BOOLEAN] : n \in 1..MaxLen} : ~f[Len(f)]}
=============================================================================
