----------------------------- MODULE MCCertCache -----------------------------
(* Two legs and two certificates: one leg names both, in an order of its   *)
(* own, so that it waits for one, for the other or for both.               *)
EXTENDS CertCache, TLC

CONSTANTS l1, l2, u1, u2, r1

MCHeaders == l1 :> <<u1, u2>> @@ l2 :> <<u1>>
=============================================================================
