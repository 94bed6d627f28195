--------------------------- MODULE ResourceLedger ---------------------------
(***************************************************************************)
(* What the resource subsystem promises its users, without threads, queues *)
(* or redis: a call books one resource of every failover group of its list *)
(* at once, at most once, and cancels exactly that booking, once.  acct is *)
(* the account of each resource per call.                                  *)
(***************************************************************************)
EXTENDS ResourceGroups, FiniteSets

CONSTANTS Sessions, Keys, Need

VARIABLES acct, live

vars == <<acct, live>>

Init ==
  /\ acct = [k \in Keys |-> [s \in Sessions |-> 0]]
  /\ live = [s \in Sessions |-> "new"]

(* One alternative of each group of the list of s.                         *)
Selections(s) ==
  LET f == Need[s].failover
      group(i, j) == IF i <= j THEN SameGroup(f, i, j) ELSE SameGroup(f, j, i)
  IN  {P \in SUBSET DOMAIN f : \A i \in DOMAIN f :
         Cardinality({j \in P : group(i, j)}) = 1}

Book(s) ==
  /\ live[s] = "new"
  /\ live' = [live EXCEPT ![s] = "holding"]
  /\ \E P \in Selections(s) :
       acct' = [k \in Keys |->
                 [acct[k] EXCEPT ![s] = @ + Cardinality({i \in P : Need[s].key[i] = k})]]

Cancel(s) ==
  /\ live[s] = "holding"
  /\ live' = [live EXCEPT ![s] = "closed"]
  /\ acct' = [k \in Keys |-> [acct[k] EXCEPT ![s] = 0]]

(* Refused, or let through without resources.                              *)
Decline(s) ==
  /\ live[s] = "new"
  /\ live' = [live EXCEPT ![s] = "closed"]
  /\ UNCHANGED acct

Next == \E s \in Sessions : Book(s) \/ Cancel(s) \/ Decline(s)

Spec == Init /\ [][Next]_vars
=============================================================================
