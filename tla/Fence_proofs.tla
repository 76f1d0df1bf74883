---------------------------- MODULE Fence_proofs ----------------------------
(* Proofs about the abstract fence, for any set of processes. *)
EXTENDS Fence, TLAPS

(* Epochs are handed out once: no process remembers a number above the      *)
(* durable one, and no two processes remember the same one.                 *)
EpochsUnique ==
    /\ \A p \in Procs : ep[p] <= authority
    /\ \A p, q \in Procs : ep[p] # NoEpoch /\ ep[p] = ep[q] => p = q

FenceInv == FenceTypeOK /\ EpochsUnique

(* Every step of the fence keeps the unique-epoch invariant.                *)
LEMMA StepFenceInv == FenceInv /\ [FenceNext]_fenceVars => FenceInv'
<1> SUFFICES ASSUME FenceInv, [FenceNext]_fenceVars
             PROVE  FenceInv'
  OBVIOUS
<1> USE DEF FenceInv, FenceTypeOK, EpochsUnique, RecoveryStates, NoEpoch
<1>1. ASSUME NEW p \in Procs, BeginRecovery(p)
      PROVE  FenceInv'
  BY <1>1 DEF BeginRecovery
<1>2. ASSUME NEW p \in Procs, ClaimEpoch(p)
      PROVE  FenceInv'
  BY <1>2 DEF ClaimEpoch
<1>3. ASSUME NEW p \in Procs, CompleteRecovery(p)
      PROVE  FenceInv'
  BY <1>3 DEF CompleteRecovery
<1>4. ASSUME NEW p \in Procs, BlockRecovery(p)
      PROVE  FenceInv'
  BY <1>4 DEF BlockRecovery
<1>5. ASSUME NEW p \in Procs, ExitProcess(p)
      PROVE  FenceInv'
  BY <1>5 DEF ExitProcess
<1>6. CASE RepairEpoch
  BY <1>6 DEF RepairEpoch
<1>7. CASE UNCHANGED fenceVars
  BY <1>7 DEF fenceVars
<1> QED
  BY <1>1, <1>2, <1>3, <1>4, <1>5, <1>6, <1>7 DEF FenceNext

(* The unique-epoch invariant holds of every behaviour of the fence         *)
(* (recovery_authority and _fencing_epoch).                                 *)
THEOREM FenceInvariant == FenceSpec => []FenceInv
<1>1. FenceInit => FenceInv
  BY DEF FenceInit, FenceInv, FenceTypeOK, EpochsUnique, RecoveryStates, NoEpoch
<1> QED
  BY <1>1, StepFenceInv, PTL DEF FenceSpec

(* At most one process may publish or manage, for any number of processes   *)
(* (recovery_fence_allows_publication, live_management_permitted).          *)
THEOREM FenceAtMostOne == FenceSpec => []AtMostOneAuthority
<1>1. FenceInv => AtMostOneAuthority
  BY DEF FenceInv, EpochsUnique, AtMostOneAuthority, RecoveryFenceAllowsPublication,
         AuthorityMatches
<1> QED
  BY <1>1, FenceInvariant, PTL

(* A process that lost authority never gets it back with the epoch it holds *)
(* (_authority_matches).                                                    *)
THEOREM FenceStaysFenced == FenceSpec => FencedStaysFenced
<1>1. FenceInv /\ [FenceNext]_fenceVars
        => [\A p \in Procs : Fenced(p) /\ ep'[p] = ep[p] => Fenced(p)']_fenceVars
  <2> SUFFICES ASSUME FenceInv, [FenceNext]_fenceVars, NEW p \in Procs,
                      Fenced(p), ep'[p] = ep[p]
               PROVE  Fenced(p)'
    OBVIOUS
  <2>1. authority \in Nat /\ ep[p] \in Nat /\ ep[p] < authority
    BY DEF FenceInv, FenceTypeOK, EpochsUnique, Fenced, AuthorityMatches
  <2>2. authority' = authority \/ authority' = authority + 1
    BY DEF FenceNext, fenceVars, BeginRecovery, ClaimEpoch, CompleteRecovery,
           BlockRecovery, ExitProcess, RepairEpoch
  <2> QED
    BY <2>1, <2>2 DEF Fenced, AuthorityMatches, NoEpoch
<1> QED
  BY <1>1, FenceInvariant, PTL DEF FenceSpec, FencedStaysFenced
=============================================================================
