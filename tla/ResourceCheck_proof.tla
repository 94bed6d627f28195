------------------------- MODULE ResourceCheck_proof -------------------------
(***************************************************************************)
(* The verdict of the resource check loop, for lists of any length and any *)
(* set of overloaded resources.                                            *)
(***************************************************************************)
EXTENDS ResourceCheck, TLAPS

(* Every resource list is a sequence of flags.                             *)
LEMMA ListIsSeq ==
  ASSUME TypeOK
  PROVE  /\ failover \in Seq(BOOLEAN)
         /\ Len(failover) \in Nat
         /\ DOMAIN failover = 1..Len(failover)
         /\ \A i \in 1..Len(failover) : failover[i] \in BOOLEAN
  BY ListsAssumption DEF TypeOK

(* Extending a group by one: j and i + 1 are in one group exactly when j   *)
(* and i are and i fails over to its successor.                            *)
LEMMA GroupStep ==
  ASSUME NEW f, NEW i \in Nat, NEW j \in 1..i
  PROVE  SameGroup(f, j, i + 1) <=> (SameGroup(f, j, i) /\ f[i])
  BY DEF SameGroup

(* A group is closed under later starts.                                   *)
LEMMA GroupSuffix ==
  ASSUME NEW f, NEW i \in Nat, NEW j \in 1..i, NEW k \in j..i, SameGroup(f, j, i)
  PROVE  SameGroup(f, k, i)
  BY DEF SameGroup

(* The check loop keeps its variables in their types.                      *)
THEOREM TypeCorrect == Spec => []TypeOK
<1>1. Init => TypeOK
  BY ListsAssumption DEF Init, TypeOK, CheckStates
<1>2. TypeOK /\ [Next]_vars => TypeOK'
  <2> SUFFICES ASSUME TypeOK, [Next]_vars PROVE TypeOK'
    OBVIOUS
  <2> USE ListIsSeq DEF TypeOK, CheckStates, Looping
  <2>1. CASE Skip
    BY <2>1 DEF Skip
  <2>2. CASE Overloaded
    BY <2>2 DEF Overloaded
  <2>3. CASE Free
    BY <2>3 DEF Free
  <2>4. CASE Available
    BY <2>4 DEF Available
  <2>5. CASE UNCHANGED vars
    BY <2>5 DEF vars
  <2> QED
    BY <2>1, <2>2, <2>3, <2>4, <2>5 DEF Next
<1> QED
  BY <1>1, <1>2, PTL DEF Spec

(* The loop invariant holds before every iteration.                        *)
THEOREM LoopInvariant == Spec => []LoopInv
<1>1. Init => LoopInv
  <2> SUFFICES ASSUME Init PROVE LoopInv
    OBVIOUS
  <2>1. failover \in Seq(BOOLEAN) /\ DOMAIN failover = 1..Len(failover)
    BY ListsAssumption DEF Init
  <2> QED
    BY <2>1 DEF Init, LoopInv, FirstFree, Exhausted
<1>2. TypeOK /\ LoopInv /\ [Next]_vars => LoopInv'
  <2> SUFFICES ASSUME TypeOK, LoopInv, [Next]_vars PROVE LoopInv'
    OBVIOUS
  <2> USE ListIsSeq
  <2> DEFINE r == resource
  <2>0. r \in Nat /\ r >= 1
    BY DEF TypeOK
  <2>g. \A j \in 1..r : SameGroup(failover, j, r + 1)
                           <=> (SameGroup(failover, j, r) /\ failover[r])
    BY <2>0, GroupStep
  <2>s. SameGroup(failover, r, r)
    BY <2>0 DEF SameGroup
  <2>1. CASE Skip
    <3>1. PICK j \in 1..(r - 1) : SameGroup(failover, j, r) /\ j \notin over
      BY <2>1 DEF Skip, LoopInv
    <3>2. r \notin FirstFree(failover, over)
      BY <3>1, <2>0 DEF FirstFree
    <3>3. r \notin Exhausted(failover, over)
      BY <3>1, <2>0 DEF Exhausted
    <3>4. active' = {i \in FirstFree(failover, over) : i < r + 1}
      BY <2>0, <2>1, <3>2 DEF Skip, LoopInv, FirstFree, TypeOK
    <3>5. \A i \in Exhausted(failover, over) : i >= r + 1
      BY <2>0, <3>3 DEF LoopInv, Exhausted, TypeOK
    <3>6. failover[r] => SameGroup(failover, j, r + 1)
      BY <2>0, <3>1, <2>g
    <3>7. ~failover[r] => \A k \in 1..r : ~SameGroup(failover, k, r + 1)
      BY <2>g
    <3>8. failover' = failover /\ over' = over /\ resource' = r + 1 /\ ret' = "none"
          /\ check_state' = (IF failover[r] THEN "SKIP" ELSE "NORMAL")
      BY <2>1 DEF Skip, Looping
    <3> QED
      BY <2>0, <3>1, <3>4, <3>5, <3>6, <3>7, <3>8 DEF LoopInv, FirstFree, Exhausted
  <2>2. CASE Overloaded
    <3>0. /\ failover' = failover /\ over' = over /\ active' = active
          /\ r \in over /\ r \in 1..Len(failover)
          /\ \A j \in 1..(r - 1) : SameGroup(failover, j, r) => j \in over
      BY <2>0, <2>2 DEF Overloaded, Looping, LoopInv
    <3>1. r \notin FirstFree(failover, over)
      BY <3>0 DEF FirstFree
    <3>2. CASE failover[r]
      <4>1. r \notin Exhausted(failover, over)
        BY <3>2 DEF Exhausted
      <4>2. active' = {i \in FirstFree(failover, over) : i < r + 1}
        BY <2>0, <3>0, <3>1 DEF LoopInv, FirstFree
      <4>3. \A i \in Exhausted(failover, over) : i >= r + 1
        BY <2>0, <4>1 DEF LoopInv, Exhausted
      <4>4. \A j \in 1..r : SameGroup(failover, j, r + 1) => j \in over
        BY <2>0, <2>g, <3>0
      <4>5. resource' = r + 1 /\ ret' = "none" /\ check_state' = "FAILOVER"
        BY <2>2, <3>2 DEF Overloaded, Looping
      <4> QED
        BY <2>0, <3>0, <4>2, <4>3, <4>4, <4>5 DEF LoopInv, FirstFree, Exhausted
    <3>3. CASE ~failover[r]
      <4>1. r \in Exhausted(failover, over)
        BY <2>0, <3>0, <3>3 DEF Exhausted
      <4>2. resource' = r /\ ret' = "RES_BUSY" /\ check_state' = check_state
        BY <2>2, <3>3 DEF Overloaded
      <4> QED
        BY <2>0, <2>2, <3>0, <4>1, <4>2 DEF LoopInv, Overloaded, FirstFree, Exhausted
    <3> QED
      BY <3>2, <3>3
  <2>3. CASE Free
    <3>0. /\ failover' = failover /\ over' = over /\ active' = active \cup {r}
          /\ resource' = r + 1 /\ ret' = "none"
          /\ check_state' = (IF failover[r] THEN "SKIP" ELSE "NORMAL")
          /\ r \notin over /\ r \in 1..Len(failover)
          /\ \A j \in 1..(r - 1) : SameGroup(failover, j, r) => j \in over
      BY <2>0, <2>3 DEF Free, Looping, LoopInv
    <3>1. r \in FirstFree(failover, over)
      BY <3>0 DEF FirstFree
    <3>2. r \notin Exhausted(failover, over)
      BY <2>0, <2>s, <3>0 DEF Exhausted
    <3>3. active' = {i \in FirstFree(failover, over) : i < r + 1}
      BY <2>0, <3>0, <3>1 DEF LoopInv, FirstFree
    <3>4. \A i \in Exhausted(failover, over) : i >= r + 1
      BY <2>0, <3>2 DEF LoopInv, Exhausted
    <3>5. failover[r] => SameGroup(failover, r, r + 1)
      BY <2>0, <2>g, <2>s
    <3>6. ~failover[r] => \A k \in 1..r : ~SameGroup(failover, k, r + 1)
      BY <2>g
    <3> QED
      BY <2>0, <3>0, <3>3, <3>4, <3>5, <3>6 DEF LoopInv, FirstFree, Exhausted
  <2>4. CASE Available
    BY <2>4 DEF Available, LoopInv, TypeOK, FirstFree, Exhausted
  <2>5. CASE UNCHANGED vars
    BY <2>5 DEF vars, LoopInv, FirstFree, Exhausted
  <2> QED
    BY <2>1, <2>2, <2>3, <2>4, <2>5 DEF Next
<1> QED
  BY <1>1, <1>2, TypeCorrect, PTL DEF Spec

(* RES_SUCC means: no group is exhausted and exactly the first free        *)
(* alternative of each group is active (ResourceRedisConnection::get).     *)
THEOREM SuccessSound == Spec => []SuccessTakesFirstFree
<1>1. TypeOK /\ LoopInv => SuccessTakesFirstFree
  BY ListIsSeq DEF LoopInv, SuccessTakesFirstFree, TypeOK, FirstFree, Exhausted
<1> QED
  BY <1>1, TypeCorrect, LoopInvariant, PTL

(* RES_BUSY means: the iterator is on the end of the first exhausted group,*)
(* the resource whose type ResourceControl::get looks up.                  *)
THEOREM BusySound == Spec => []BusyPointsAtExhausted
<1>1. LoopInv => BusyPointsAtExhausted
  BY DEF LoopInv, BusyPointsAtExhausted
<1> QED
  BY <1>1, LoopInvariant, PTL
=============================================================================
