---------------------------- MODULE MCCallReport ----------------------------
(* One call with snapshots_buffering on.                                   *)
EXTENDS CallReport
=============================================================================
