------------------------ MODULE RecoveryFence_proofs ------------------------
(* Proofs about the start-up claim, for any set of processes.              *)
EXTENDS RecoveryFence, TLAPS

HoldsLock(p) == phase[p] \in {"locked", "abandoned", "recovering", "finishing", "unlocking"}

\* What the state of a process tells about its place in the sequence.
PhaseInv ==
    \A p \in Procs :
        /\ phase[p] = "idle" => rec[p] = "NOT_STARTED" /\ ep[p] = 0
        /\ phase[p] \in {"opened", "locked", "abandoned"} => rec[p] = "IN_PROGRESS" /\ ep[p] = 0
        /\ phase[p] = "recovering" => rec[p] = "IN_PROGRESS"
        /\ phase[p] \in {"finishing", "unlocking"} => rec[p] \in {"COMPLETED", "BLOCKED"}
        /\ phase[p] = "done" => rec[p] # "NOT_STARTED" /\ (rec[p] = "IN_PROGRESS" => ep[p] = 0)

\* The lock file covers the sequence from the claim to its end.
LockInv ==
    /\ \A p \in Procs : HoldsLock(p) => lock = p
    /\ repair # NoTarget => lock = RepairTool

\* Epochs are never handed out twice.
EpochInv ==
    /\ \A p \in Procs : ep[p] <= authority
    /\ \A p, q \in Procs : ep[p] # 0 /\ ep[p] = ep[q] => p = q

\* From its claim to the end of the sequence a process is current.
CurrentInv ==
    \A p \in Procs : phase[p] \in {"recovering", "finishing", "unlocking"}
                        => ep[p] = authority /\ ep[p] # 0

\* An open run carries the current epoch, which only its owner can remember;
\* while the owner lives it holds the lock file.
RunInv ==
    /\ \A r \in runs : r.epoch = authority /\ r.epoch # 0
    /\ \A r, s \in runs : r = s
    /\ \A r \in runs, p \in Procs :
          ep[p] = r.epoch => p = r.owner /\ lock = p /\ phase[p] # "unlocking"

IInv == TypeOK /\ PhaseInv /\ LockInv /\ EpochInv /\ CurrentInv /\ RunInv

(* The initial state satisfies the invariant. *)
LEMMA InitIInv == Init => IInv
BY HoldersDistinct
   DEF Init, IInv, TypeOK, PhaseInv, LockInv, EpochInv, CurrentInv, RunInv, HoldsLock, NoTarget,
       F!FenceInit, F!FenceTypeOK, F!RecoveryStates, F!NoEpoch, Phases

(* Every step of a start-up, of an exit and of the repair tool keeps it. *)
LEMMA StepIInv == IInv /\ [Next]_vars => IInv'
<1> SUFFICES ASSUME IInv, [Next]_vars
             PROVE  IInv'
  OBVIOUS
<1>a. TypeOK /\ PhaseInv /\ LockInv /\ EpochInv /\ CurrentInv /\ RunInv
  BY DEF IInv
<1>b. /\ authority \in Nat /\ repair \in Nat
      /\ ep \in [Procs -> Nat]
      /\ rec \in [Procs -> F!RecoveryStates]
      /\ phase \in [Procs -> Phases]
      /\ runs \subseteq [owner : Procs, epoch : Nat]
      /\ lock \in Procs \cup {Nobody, RepairTool}
  BY <1>a DEF TypeOK, F!FenceTypeOK
<1> USE <1>a, <1>b, HoldersDistinct DEF NoTarget, F!NoEpoch, Set, Goto
<1>1. ASSUME NEW p \in Procs, StartRecovery(p)
      PROVE  IInv'
  <2> USE <1>1 DEF StartRecovery
  <2>1. TypeOK'
    BY DEF TypeOK, F!FenceTypeOK, F!RecoveryStates, Phases
  <2>2. PhaseInv'
    BY DEF PhaseInv
  <2>3. LockInv'
    BY DEF LockInv, HoldsLock
  <2>4. EpochInv'
    BY DEF EpochInv
  <2>5. CurrentInv'
    BY DEF CurrentInv, LockInv, HoldsLock, PhaseInv
  <2>6. RunInv'
    BY DEF RunInv, LockInv, HoldsLock, EpochInv, CurrentInv, PhaseInv
  <2> QED
    BY <2>1, <2>2, <2>3, <2>4, <2>5, <2>6 DEF IInv
<1>2. ASSUME NEW p \in Procs, TakeLock(p)
      PROVE  IInv'
  <2> USE <1>2 DEF TakeLock, TryAcquire
  <2>1. TypeOK'
    BY DEF TypeOK, F!FenceTypeOK, F!RecoveryStates, Phases
  <2>2. PhaseInv'
    BY DEF PhaseInv
  <2>3. LockInv'
    BY DEF LockInv, HoldsLock
  <2>4. EpochInv'
    BY DEF EpochInv
  <2>5. CurrentInv'
    BY DEF CurrentInv, LockInv, HoldsLock, PhaseInv
  <2>6. RunInv'
    BY DEF RunInv, LockInv, HoldsLock, EpochInv, CurrentInv, PhaseInv
  <2> QED
    BY <2>1, <2>2, <2>3, <2>4, <2>5, <2>6 DEF IInv
<1>3. ASSUME NEW p \in Procs, LockRefused(p)
      PROVE  IInv'
  <2> USE <1>3 DEF LockRefused
  <2>1. TypeOK'
    BY DEF TypeOK, F!FenceTypeOK, F!RecoveryStates, Phases
  <2>2. PhaseInv'
    BY DEF PhaseInv
  <2>3. LockInv'
    BY DEF LockInv, HoldsLock
  <2>4. EpochInv'
    BY DEF EpochInv
  <2>5. CurrentInv'
    BY DEF CurrentInv, LockInv, HoldsLock, PhaseInv
  <2>6. RunInv'
    BY DEF RunInv, LockInv, HoldsLock, EpochInv, CurrentInv, PhaseInv
  <2> QED
    BY <2>1, <2>2, <2>3, <2>4, <2>5, <2>6 DEF IInv
<1>4. ASSUME NEW p \in Procs, ClaimRun(p)
      PROVE  IInv'
  <2> USE <1>4 DEF ClaimRun, NoOpenRun, NextEpoch
  <2>1. TypeOK'
    <3>1. [owner |-> p, epoch |-> authority + 1] \in [owner : Procs, epoch : Nat]
      OBVIOUS
    <3> QED
      BY <3>1 DEF TypeOK, F!FenceTypeOK, F!RecoveryStates, Phases
  <2>2. PhaseInv'
    BY DEF PhaseInv
  <2>3. LockInv'
    BY DEF LockInv, HoldsLock
  <2>4. EpochInv'
    <3>1. \A q \in Procs : ep'[q] = IF q = p THEN authority + 1 ELSE ep[q]
      OBVIOUS
    <3>2. authority \in Nat /\ \A q \in Procs : ep[q] \in Nat /\ ep[q] <= authority
      BY DEF EpochInv
    <3> QED
      BY <3>1, <3>2 DEF EpochInv
  <2>5. CurrentInv'
    <3>1. \A q \in Procs : q # p => phase'[q] \notin {"recovering", "finishing", "unlocking"}
      BY DEF LockInv, HoldsLock
    <3> QED
      BY <3>1 DEF CurrentInv
  <2>6. RunInv'
    <3>1. runs' = {[owner |-> p, epoch |-> authority + 1]}
      OBVIOUS
    <3>2. \A q \in Procs : ep'[q] = authority + 1 => q = p
      BY DEF EpochInv
    <3>3. lock' = p /\ phase'[p] = "recovering" /\ authority + 1 # 0
      BY DEF LockInv, HoldsLock
    <3> QED
      BY <3>1, <3>2, <3>3 DEF RunInv
  <2> QED
    BY <2>1, <2>2, <2>3, <2>4, <2>5, <2>6 DEF IInv
<1>5. ASSUME NEW p \in Procs, ClaimRefused(p)
      PROVE  IInv'
  <2> USE <1>5 DEF ClaimRefused, ReleaseAfterRefusal
  <2>1. TypeOK'
    BY DEF TypeOK, F!FenceTypeOK, F!RecoveryStates, Phases
  <2>2. PhaseInv'
    BY DEF PhaseInv
  <2>3. LockInv'
    BY DEF LockInv, HoldsLock
  <2>4. EpochInv'
    BY DEF EpochInv
  <2>5. CurrentInv'
    BY DEF CurrentInv, LockInv, HoldsLock, PhaseInv
  <2>6. RunInv'
    <3>1. \A r \in runs, q \in Procs : ep[q] # r.epoch
      <4> SUFFICES ASSUME NEW r \in runs, NEW q \in Procs, ep[q] = r.epoch
                   PROVE  FALSE
        OBVIOUS
      <4>1. lock = p
        BY DEF LockInv, HoldsLock
      <4>2. q = p /\ phase[q] # "unlocking" /\ r.epoch # 0
        BY <4>1 DEF RunInv
      <4> QED
        BY <4>2 DEF PhaseInv
    <3> QED
      BY <3>1 DEF RunInv
  <2> QED
    BY <2>1, <2>2, <2>3, <2>4, <2>5, <2>6 DEF IInv
<1>6. ASSUME NEW p \in Procs, PublishRecovered(p)
      PROVE  IInv'
  <2> USE <1>6 DEF PublishRecovered
  <2>1. TypeOK'
    BY DEF TypeOK, F!FenceTypeOK, F!RecoveryStates, Phases
  <2>2. PhaseInv'
    BY DEF PhaseInv
  <2>3. LockInv'
    BY DEF LockInv, HoldsLock
  <2>4. EpochInv'
    BY DEF EpochInv
  <2>5. CurrentInv'
    BY DEF CurrentInv, LockInv, HoldsLock, PhaseInv
  <2>6. RunInv'
    <3>1. UNCHANGED <<runs, lock, ep, authority>>
      OBVIOUS
    <3>2. \A q \in Procs : phase[q] # "unlocking" => phase'[q] # "unlocking"
      OBVIOUS
    <3> QED
      BY <3>1, <3>2 DEF RunInv
  <2> QED
    BY <2>1, <2>2, <2>3, <2>4, <2>5, <2>6 DEF IInv
<1>7. ASSUME NEW p \in Procs, FinishRun(p)
      PROVE  IInv'
  <2> USE <1>7 DEF FinishRun
  <2>1. TypeOK'
    BY DEF TypeOK, F!FenceTypeOK, F!RecoveryStates, Phases
  <2>2. PhaseInv'
    BY DEF PhaseInv
  <2>3. LockInv'
    BY DEF LockInv, HoldsLock
  <2>4. EpochInv'
    BY DEF EpochInv
  <2>5. CurrentInv'
    BY DEF CurrentInv, LockInv, HoldsLock, PhaseInv
  <2>6. RunInv'
    BY DEF RunInv, LockInv, HoldsLock, EpochInv, CurrentInv, PhaseInv
  <2> QED
    BY <2>1, <2>2, <2>3, <2>4, <2>5, <2>6 DEF IInv
<1>8. ASSUME NEW p \in Procs, ReleaseOwnerLock(p)
      PROVE  IInv'
  <2> USE <1>8 DEF ReleaseOwnerLock
  <2>1. TypeOK'
    BY DEF TypeOK, F!FenceTypeOK, F!RecoveryStates, Phases
  <2>2. PhaseInv'
    BY DEF PhaseInv
  <2>3. LockInv'
    BY DEF LockInv, HoldsLock
  <2>4. EpochInv'
    BY DEF EpochInv
  <2>5. CurrentInv'
    BY DEF CurrentInv, LockInv, HoldsLock, PhaseInv
  <2>6. RunInv'
    <3>1. \A r \in runs, q \in Procs : ep[q] # r.epoch
      <4> SUFFICES ASSUME NEW r \in runs, NEW q \in Procs, ep[q] = r.epoch
                   PROVE  FALSE
        OBVIOUS
      <4>1. lock = p
        BY DEF LockInv, HoldsLock
      <4>2. q = p /\ phase[q] # "unlocking" /\ r.epoch # 0
        BY <4>1 DEF RunInv
      <4> QED
        BY <4>2 DEF PhaseInv
    <3> QED
      BY <3>1 DEF RunInv
  <2> QED
    BY <2>1, <2>2, <2>3, <2>4, <2>5, <2>6 DEF IInv
<1>9. ASSUME NEW p \in Procs, JournalUnavailable(p)
      PROVE  IInv'
  <2> USE <1>9 DEF JournalUnavailable
  <2>1. TypeOK'
    BY DEF TypeOK, F!FenceTypeOK, F!RecoveryStates, Phases
  <2>2. PhaseInv'
    BY DEF PhaseInv
  <2>3. LockInv'
    BY DEF LockInv, HoldsLock
  <2>4. EpochInv'
    BY DEF EpochInv
  <2>5. CurrentInv'
    BY DEF CurrentInv, LockInv, HoldsLock, PhaseInv
  <2>6. RunInv'
    BY DEF RunInv, LockInv, HoldsLock, EpochInv, CurrentInv, PhaseInv
  <2> QED
    BY <2>1, <2>2, <2>3, <2>4, <2>5, <2>6 DEF IInv
<1>10. ASSUME NEW p \in Procs, ClaimFails(p)
      PROVE  IInv'
  <2> USE <1>10 DEF ClaimFails, ReleaseAfterRefusal
  <2>1. TypeOK'
    BY DEF TypeOK, F!FenceTypeOK, F!RecoveryStates, Phases
  <2>2. PhaseInv'
    BY DEF PhaseInv
  <2>3. LockInv'
    BY DEF LockInv, HoldsLock
  <2>4. EpochInv'
    BY DEF EpochInv
  <2>5. CurrentInv'
    BY DEF CurrentInv, LockInv, HoldsLock, PhaseInv
  <2>6. RunInv'
    BY DEF RunInv, LockInv, HoldsLock, EpochInv, CurrentInv, PhaseInv
  <2> QED
    BY <2>1, <2>2, <2>3, <2>4, <2>5, <2>6 DEF IInv
<1>11. ASSUME NEW p \in Procs, RecoveryBlocked(p)
      PROVE  IInv'
  <2> USE <1>11 DEF RecoveryBlocked
  <2>1. TypeOK'
    BY DEF TypeOK, F!FenceTypeOK, F!RecoveryStates, Phases
  <2>2. PhaseInv'
    BY DEF PhaseInv
  <2>3. LockInv'
    BY DEF LockInv, HoldsLock
  <2>4. EpochInv'
    BY DEF EpochInv
  <2>5. CurrentInv'
    BY DEF CurrentInv, LockInv, HoldsLock, PhaseInv
  <2>6. RunInv'
    BY DEF RunInv, LockInv, HoldsLock, EpochInv, CurrentInv, PhaseInv
  <2> QED
    BY <2>1, <2>2, <2>3, <2>4, <2>5, <2>6 DEF IInv
<1>12. ASSUME NEW p \in Procs, FinishFails(p)
      PROVE  IInv'
  <2> USE <1>12 DEF FinishFails
  <2>1. TypeOK'
    BY DEF TypeOK, F!FenceTypeOK, F!RecoveryStates, Phases
  <2>2. PhaseInv'
    BY DEF PhaseInv
  <2>3. LockInv'
    BY DEF LockInv, HoldsLock
  <2>4. EpochInv'
    BY DEF EpochInv
  <2>5. CurrentInv'
    BY DEF CurrentInv, LockInv, HoldsLock, PhaseInv
  <2>6. RunInv'
    BY DEF RunInv, LockInv, HoldsLock, EpochInv, CurrentInv, PhaseInv
  <2> QED
    BY <2>1, <2>2, <2>3, <2>4, <2>5, <2>6 DEF IInv
<1>13. ASSUME NEW p \in Procs, Exit(p)
      PROVE  IInv'
  <2> USE <1>13 DEF Exit, ReleaseOnExit
  <2>1. TypeOK'
    BY DEF TypeOK, F!FenceTypeOK, F!RecoveryStates, Phases
  <2>2. PhaseInv'
    BY DEF PhaseInv
  <2>3. LockInv'
    BY DEF LockInv, HoldsLock
  <2>4. EpochInv'
    <3>1. \A q \in Procs : ep'[q] = IF q = p THEN 0 ELSE ep[q]
      OBVIOUS
    <3>2. authority' = authority /\ authority >= 0
      OBVIOUS
    <3> QED
      BY <3>1, <3>2 DEF EpochInv
  <2>5. CurrentInv'
    BY DEF CurrentInv, LockInv, HoldsLock, PhaseInv
  <2>6. RunInv'
    BY DEF RunInv, LockInv, HoldsLock, EpochInv, CurrentInv, PhaseInv
  <2> QED
    BY <2>1, <2>2, <2>3, <2>4, <2>5, <2>6 DEF IInv
<1>14. ASSUME NEW p \in Procs, BeginFails(p)
      PROVE  IInv'
  <2> USE <1>14 DEF BeginFails
  <2>1. TypeOK'
    BY DEF TypeOK, F!FenceTypeOK, F!RecoveryStates, Phases
  <2>2. PhaseInv'
    BY DEF PhaseInv
  <2>3. LockInv'
    BY DEF LockInv, HoldsLock
  <2>4. EpochInv' /\ CurrentInv'
    BY DEF EpochInv, CurrentInv
  <2>5. RunInv'
    BY DEF RunInv
  <2> QED
    BY <2>1, <2>2, <2>3, <2>4, <2>5 DEF IInv
<1>15. ASSUME NEW p \in Procs, HandleFinalised(p)
      PROVE  IInv'
  <2> USE <1>15 DEF HandleFinalised
  <2>1. TypeOK'
    BY DEF TypeOK, F!FenceTypeOK, F!RecoveryStates, Phases
  <2>2. PhaseInv'
    BY DEF PhaseInv
  <2>3. LockInv'
    BY DEF LockInv, HoldsLock
  <2>4. EpochInv' /\ CurrentInv'
    BY DEF EpochInv, CurrentInv
  <2>5. RunInv'
    BY DEF RunInv, LockInv, HoldsLock, EpochInv, CurrentInv, PhaseInv
  <2> QED
    BY <2>1, <2>2, <2>3, <2>4, <2>5 DEF IInv
<1>16. ASSUME NEW target \in 1 .. authority, RepairLock(target)
      PROVE  IInv'
  <2> USE <1>16 DEF RepairLock, TryAcquire
  <2>1. TypeOK'
    <3>1. target \in Nat
      OBVIOUS
    <3> QED
      BY <3>1 DEF TypeOK, F!FenceTypeOK, F!RecoveryStates, Phases
  <2>2. PhaseInv'
    BY DEF PhaseInv
  <2>3. LockInv'
    BY DEF LockInv, HoldsLock
  <2>4. EpochInv'
    BY DEF EpochInv
  <2>5. CurrentInv'
    BY DEF CurrentInv, LockInv, HoldsLock, PhaseInv
  <2>6. RunInv'
    BY DEF RunInv, LockInv, HoldsLock, EpochInv, CurrentInv, PhaseInv
  <2> QED
    BY <2>1, <2>2, <2>3, <2>4, <2>5, <2>6 DEF IInv
<1>17. ASSUME NEW r \in runs, RepairRelease(r)
      PROVE  IInv'
  <2> USE <1>17 DEF RepairRelease, RepairMayRelease, RepairedAuthority, OwnerAlive
  <2>1. TypeOK'
    <3>1. runs' \subseteq runs /\ authority' \in Nat /\ repair' \in Nat
      OBVIOUS
    <3> QED
      BY <3>1 DEF TypeOK, F!FenceTypeOK, F!RecoveryStates, Phases
  <2>2. PhaseInv'
    BY DEF PhaseInv
  <2>3. LockInv'
    BY DEF LockInv, HoldsLock
  <2>4. EpochInv'
    <3>1. ep' = ep /\ authority' = authority + 1
      OBVIOUS
    <3>2. authority \in Nat /\ \A q \in Procs : ep[q] \in Nat
      OBVIOUS
    <3> QED
      BY <3>1, <3>2 DEF EpochInv
  <2>5. CurrentInv'
    BY DEF CurrentInv, LockInv, HoldsLock, PhaseInv
  <2>6. RunInv'
    BY DEF RunInv, LockInv, HoldsLock, EpochInv, CurrentInv, PhaseInv
  <2> QED
    BY <2>1, <2>2, <2>3, <2>4, <2>5, <2>6 DEF IInv
<1>18. CASE RepairUnlock
  <2>1. TypeOK' /\ PhaseInv' /\ LockInv' /\ EpochInv' /\ CurrentInv'
    BY <1>18 DEF RepairUnlock, TypeOK, F!FenceTypeOK, PhaseInv, LockInv, HoldsLock, EpochInv, CurrentInv
  <2>2. RunInv'
    BY <1>18 DEF RepairUnlock, RunInv
  <2> QED
    BY <2>1, <2>2 DEF IInv
<1>19. CASE UNCHANGED vars
  BY <1>19 DEF vars, IInv, TypeOK, F!FenceTypeOK, PhaseInv, LockInv, HoldsLock, EpochInv, CurrentInv, RunInv
<1> QED
  BY <1>1, <1>2, <1>3, <1>4, <1>5, <1>6, <1>7, <1>8, <1>9, <1>10, <1>11, <1>12, <1>13,
     <1>14, <1>15, <1>16, <1>17, <1>18, <1>19
     DEF Next, Progress, Failure, RepairStep

(* The inductive invariant holds of every behaviour of the start-up protocol. *)
THEOREM StartupInvariant == Spec => []IInv
BY InitIInv, StepIInv, PTL DEF Spec

(* Type correctness of the start-up protocol. *)
THEOREM StartupTypeOK == Spec => []TypeOK
<1>1. IInv => TypeOK
  BY DEF IInv
<1> QED
  BY <1>1, StartupInvariant, PTL

(* At most one process may publish or manage, however starts, crashes,      *)
(* refusals and repairs interleave (live_management_permitted).             *)
THEOREM StartupMutualExclusion == Spec => []AtMostOneAuthority
<1>1. IInv => AtMostOneAuthority
  BY DEF IInv, TypeOK, F!FenceTypeOK, EpochInv, AtMostOneAuthority, F!AtMostOneAuthority,
         F!RecoveryFenceAllowsPublication, F!AuthorityMatches, F!NoEpoch
<1> QED
  BY <1>1, StartupInvariant, PTL

(* While a run is open only its owner may publish or manage (_claim_run).   *)
THEOREM StartupOnlyOwner == Spec => []OnlyOwnerWhileRunOpen
<1>1. IInv => OnlyOwnerWhileRunOpen
  BY DEF IInv, RunInv, OnlyOwnerWhileRunOpen, F!RecoveryFenceAllowsPublication,
         F!AuthorityMatches
<1> QED
  BY <1>1, StartupInvariant, PTL

(* No claim or repair overtakes a recovery in progress.                     *)
THEOREM StartupNeverOvertaken == Spec => []RecoveryNeverOvertaken
<1>1. IInv => RecoveryNeverOvertaken
  BY DEF IInv, CurrentInv, RecoveryNeverOvertaken
<1> QED
  BY <1>1, StartupInvariant, PTL

(* Whoever was overtaken by a claim or a repair stays so, whatever any       *)
(* process does next (_authority_matches).                                  *)
THEOREM StartupStaysFenced == Spec => FencedStaysFenced
<1>1. IInv /\ [Next]_vars
        => [\A p \in Procs : F!Fenced(p) /\ ep'[p] = ep[p] => F!Fenced(p)']_F!fenceVars
  <2> SUFFICES ASSUME IInv, [Next]_vars, NEW p \in Procs,
                      F!Fenced(p), ep'[p] = ep[p]
               PROVE  F!Fenced(p)'
    OBVIOUS
  <2>1. authority \in Nat /\ ep[p] \in Nat /\ ep[p] < authority
    BY DEF IInv, TypeOK, F!FenceTypeOK, EpochInv, F!Fenced, F!AuthorityMatches
  <2>2. authority' = authority \/ authority' = authority + 1
    BY DEF Next, vars, Progress, Failure, RepairStep, StartRecovery, TakeLock, LockRefused,
           ClaimRun, NextEpoch, ClaimRefused, PublishRecovered, FinishRun, ReleaseOwnerLock,
           JournalUnavailable, ClaimFails, BeginFails, HandleFinalised, RecoveryBlocked,
           FinishFails, Exit, RepairLock,
           RepairUnlock, RepairRelease, RepairedAuthority
  <2> QED
    BY <2>1, <2>2 DEF F!Fenced, F!AuthorityMatches, F!NoEpoch
<1> QED
  BY <1>1, StartupInvariant, PTL DEF Spec, FencedStaysFenced, F!FencedStaysFenced

-----------------------------------------------------------------------------
(* Every step of the start-up protocol is a step of the abstract fence, or  *)
(* leaves authority, epochs and recovery states alone.                      *)
LEMMA StepImplementsFence == IInv /\ [Next]_vars => [F!FenceNext]_(F!fenceVars)
<1> SUFFICES ASSUME IInv, [Next]_vars
             PROVE  [F!FenceNext]_(F!fenceVars)
  OBVIOUS
<1> USE DEF F!FenceNext, F!fenceVars, Set, Goto, F!NoEpoch, NoTarget
<1>a. TypeOK /\ PhaseInv /\ LockInv /\ EpochInv /\ CurrentInv /\ RunInv
  BY DEF IInv
<1>b. /\ authority \in Nat
      /\ ep \in [Procs -> Nat]
      /\ rec \in [Procs -> F!RecoveryStates]
      /\ phase \in [Procs -> Phases]
      /\ runs \subseteq [owner : Procs, epoch : Nat]
  BY <1>a DEF TypeOK, F!FenceTypeOK
<1>1. ASSUME NEW p \in Procs, StartRecovery(p)
      PROVE  F!BeginRecovery(p)
  BY <1>1, <1>a DEF StartRecovery, F!BeginRecovery, PhaseInv
<1>2. ASSUME NEW p \in Procs, ClaimRun(p)
      PROVE  F!ClaimEpoch(p)
  <2>1. rec[p] = "IN_PROGRESS" /\ ep[p] = 0 /\ lock = p
    BY <1>2, <1>a DEF ClaimRun, PhaseInv, LockInv, HoldsLock
  <2>2. ASSUME NEW q \in Procs, F!Recovering(q)
        PROVE  FALSE
    <3>1. phase[q] = "recovering"
      BY <2>2, <1>a, <1>b DEF F!Recovering, PhaseInv, Phases
    <3>2. q = p
      BY <3>1, <2>1, <1>a DEF LockInv, HoldsLock
    <3> QED
      BY <3>1, <3>2, <1>2 DEF ClaimRun
  <2> QED
    BY <1>2, <2>1, <2>2 DEF ClaimRun, NextEpoch, F!ClaimEpoch
<1>3. ASSUME NEW p \in Procs, PublishRecovered(p)
      PROVE  F!CompleteRecovery(p) \/ F!BlockRecovery(p)
  <2>1. rec[p] = "IN_PROGRESS" /\ UNCHANGED <<authority, ep>>
    BY <1>3, <1>a DEF PublishRecovered, PhaseInv
  <2> QED
    BY <1>3, <2>1 DEF PublishRecovered, F!CompleteRecovery, F!BlockRecovery
<1>4. ASSUME NEW p \in Procs,
             JournalUnavailable(p) \/ LockRefused(p) \/ ClaimRefused(p) \/ RecoveryBlocked(p)
      PROVE  F!BlockRecovery(p)
  BY <1>4, <1>a DEF JournalUnavailable, LockRefused, ClaimRefused, RecoveryBlocked,
                    PhaseInv, F!BlockRecovery
<1>5. ASSUME NEW p \in Procs, Exit(p)
      PROVE  F!ExitProcess(p)
  BY <1>5, <1>a, <1>b DEF Exit, PhaseInv, Phases, F!ExitProcess
<1>6. ASSUME NEW r \in runs, RepairRelease(r)
      PROVE  F!RepairEpoch
  <2>1. ASSUME NEW p \in Procs, F!RecoveryFenceAllowsPublication(p)
        PROVE  FALSE
    <3>1. ep[p] = r.epoch
      BY <2>1, <1>a DEF RunInv, F!RecoveryFenceAllowsPublication, F!AuthorityMatches
    <3>2. p = r.owner
      BY <3>1, <1>a DEF RunInv
    <3> QED
      BY <3>1, <3>2, <1>6 DEF RepairRelease, RepairMayRelease, OwnerAlive
  <2> QED
    BY <1>6, <2>1 DEF RepairRelease, RepairedAuthority, F!RepairEpoch
<1>7. ASSUME NEW p \in Procs,
             \/ TakeLock(p) \/ ClaimFails(p) \/ BeginFails(p) \/ HandleFinalised(p)
             \/ FinishRun(p) \/ FinishFails(p) \/ ReleaseOwnerLock(p)
      PROVE  UNCHANGED F!fenceVars
  BY <1>7 DEF TakeLock, ClaimFails, BeginFails, HandleFinalised, FinishRun, FinishFails,
              ReleaseOwnerLock
<1>8. ASSUME NEW target \in 1 .. authority, RepairLock(target)
      PROVE  UNCHANGED F!fenceVars
  BY <1>8 DEF RepairLock
<1>9. CASE RepairUnlock \/ UNCHANGED vars
  BY <1>9 DEF RepairUnlock, vars
<1> QED
  BY <1>1, <1>2, <1>3, <1>4, <1>5, <1>6, <1>7, <1>8, <1>9
     DEF Next, Progress, Failure, RepairStep

(* The lock file, the run row, the commits and the repair of the code       *)
(* together implement the abstract fence, for any set of processes.         *)
THEOREM StartupImplementsFence == Spec => ImplementsFence
<1>1. Init => F!FenceInit
  BY DEF Init
<1> QED
  BY <1>1, StepImplementsFence, StartupInvariant, PTL DEF Spec, ImplementsFence, F!FenceSpec
=============================================================================
