--------------------------- MODULE RecoveryFence ---------------------------
(***************************************************************************)
(* The start-up claim of forex_bot/startup_recovery.py, the OS lock of     *)
(* forex_bot/recovery_owner_lock.py and the offline repair of              *)
(* forex_bot/recovery_repair.py.                                           *)
(*                                                                         *)
(* Each process runs execute_startup_sequence once.  Every change of       *)
(* shared state is a step of its own: the lock file, the claim             *)
(* transaction, the final commit of the run row and the release of the     *)
(* lock are four different moments, and a process may die between any two. *)
(***************************************************************************)
EXTENDS Naturals

CONSTANTS Procs,       \* bot processes
          Nobody,      \* the lock file is free
          RepairTool,  \* the operator's repair process
          MaxEpoch     \* bound: no start or repair begins beyond it

ASSUME MaxEpochAssumption == MaxEpoch \in Nat
ASSUME HoldersDistinct == Nobody \notin Procs /\ RepairTool \notin Procs /\ Nobody # RepairTool

VARIABLES authority,   \* recovery_authority.fencing_epoch
          ep,          \* _fencing_epoch of each process
          rec,         \* _state of each process
          runs,        \* recovery_runs rows still RECOVERY_IN_PROGRESS
          lock,        \* holder of the recovery lock file
          phase,       \* where each process stands in the start-up sequence
          repair       \* the repair tool: idle, or the run it was told to release

vars == <<authority, ep, rec, runs, lock, phase, repair>>

F == INSTANCE Fence

NoTarget == 0
Phases == {"idle",        \* not running
           "opened",      \* journal open, claim not attempted
           "locked",      \* lock file taken, claim transaction pending
           "recovering",  \* run claimed, rows being rebuilt
           "finishing",   \* decision taken, run row not yet closed
           "unlocking",   \* run row closed, lock file still held
           "abandoned",   \* claim never begun, lock file in nobody's hands
           "done"}        \* start-up sequence left

(* The lock file is free or has one holder, and every open run row names    *)
(* the process and the epoch of its claim.                                 *)
TypeOK ==
    /\ F!FenceTypeOK
    /\ runs \subseteq [owner : Procs, epoch : Nat]
    /\ lock \in Procs \cup {Nobody, RepairTool}
    /\ phase \in [Procs -> Phases]
    /\ repair \in Nat

-----------------------------------------------------------------------------
\* Altered forms, for the mutation runs only: each is a plausible mistake in
\* the definition that follows it.
TryAcquireUnchecked(holder) == lock' = holder

TryAcquire(holder) == lock = Nobody /\ lock' = holder

EpochNotAdvanced == 1

\* The epoch the claim transaction writes.
NextEpoch == authority + 1

OpenRunsIgnored == TRUE

\* one_recovery_in_progress: the unique index over open recovery_runs rows.
NoOpenRun == runs = {}

\* owner_process_status: the recorded PID and start time still name a process.
OwnerAlive(r) == ep[r.owner] = r.epoch

Set(p, st) == rec' = [rec EXCEPT ![p] = st]
Goto(p, ph) == phase' = [phase EXCEPT ![p] = ph]

-----------------------------------------------------------------------------
Init ==
    /\ F!FenceInit
    /\ runs = {}
    /\ lock = Nobody
    /\ phase = [p \in Procs |-> "idle"]
    /\ repair = NoTarget

\* execute_startup_sequence: the state is set first, then the journal opened.
StartRecovery(p) ==
    /\ phase[p] = "idle"
    /\ authority < MaxEpoch
    /\ Set(p, "IN_PROGRESS")
    /\ Goto(p, "opened")
    /\ UNCHANGED <<authority, ep, runs, lock, repair>>

JournalUnavailable(p) ==
    /\ phase[p] = "opened"
    /\ Set(p, "BLOCKED")
    /\ Goto(p, "done")
    /\ UNCHANGED <<authority, ep, runs, lock, repair>>

TakeLock(p) ==
    /\ phase[p] = "opened"
    /\ TryAcquire(p)
    /\ Goto(p, "locked")
    /\ UNCHANGED <<authority, ep, rec, runs, repair>>

LockAwaited(p) ==
    /\ phase[p] = "opened"
    /\ lock # Nobody
    /\ UNCHANGED vars

LockRefused(p) ==
    /\ phase[p] = "opened"
    /\ lock # Nobody
    /\ Set(p, "BLOCKED")
    /\ Goto(p, "done")
    /\ UNCHANGED <<authority, ep, runs, lock, repair>>

\* _claim_run: the epoch and the run row are one immediate transaction.
ClaimRun(p) ==
    /\ phase[p] = "locked"
    /\ NoOpenRun
    /\ authority' = NextEpoch
    /\ ep' = [ep EXCEPT ![p] = NextEpoch]
    /\ runs' = runs \cup {[owner |-> p, epoch |-> NextEpoch]}
    /\ Goto(p, "recovering")
    /\ UNCHANGED <<rec, lock, repair>>

ReleaseForgotten == lock' = lock

ReleasedToNumber == lock' = NoTarget

\* The unique index refuses the row: the transaction and the lock are undone.
ReleaseAfterRefusal == lock' = Nobody

ClaimRefused(p) ==
    /\ phase[p] = "locked"
    /\ ~NoOpenRun
    /\ ReleaseAfterRefusal
    /\ Set(p, "BLOCKED")
    /\ Goto(p, "done")
    /\ UNCHANGED <<authority, ep, runs, repair>>

\* JournalUnavailable escapes _claim_run and execute_startup_sequence, which
\* leaves _state at RECOVERY_IN_PROGRESS for the life of the process.  Inside
\* the transaction the lock is released first.
ClaimFails(p) ==
    /\ phase[p] = "locked"
    /\ ReleaseAfterRefusal
    /\ Goto(p, "done")
    /\ UNCHANGED <<authority, ep, rec, runs, repair>>

\* BEGIN IMMEDIATE is refused before the try that releases the lock: the open
\* file is left to the interpreter, and the process lives on.
BeginFails(p) ==
    /\ phase[p] = "locked"
    /\ Goto(p, "abandoned")
    /\ UNCHANGED <<authority, ep, rec, runs, lock, repair>>

\* The finaliser of the file object closes it, when and if it runs.
HandleFinalised(p) ==
    /\ phase[p] = "abandoned"
    /\ lock' = Nobody
    /\ Goto(p, "done")
    /\ UNCHANGED <<authority, ep, rec, runs, repair>>

\* A snapshot that is not authoritative, or an exception under the try.
RecoveryBlocked(p) ==
    /\ phase[p] = "recovering"
    /\ Set(p, "BLOCKED")
    /\ Goto(p, "finishing")
    /\ UNCHANGED <<authority, ep, runs, lock, repair>>

\* The fence is read again before anything is published.
PublishRecovered(p) ==
    /\ phase[p] = "recovering"
    /\ Set(p, IF F!RecoveryFenceAllowsPublication(p) THEN "COMPLETED" ELSE "BLOCKED")
    /\ Goto(p, "finishing")
    /\ UNCHANGED <<authority, ep, runs, lock, repair>>

FinishRun(p) ==
    /\ phase[p] = "finishing"
    /\ runs' = {r \in runs : ~(r.owner = p /\ r.epoch = ep[p])}
    /\ Goto(p, "unlocking")
    /\ UNCHANGED <<authority, ep, rec, lock, repair>>

ReleaseOwnerLock(p) ==
    /\ phase[p] = "unlocking"
    /\ lock' = Nobody
    /\ Goto(p, "done")
    /\ UNCHANGED <<authority, ep, rec, runs, repair>>

\* The commit in the finally block raises: _state is already decided, the run
\* row stays open and the lock file stays held.
FinishFails(p) ==
    /\ phase[p] = "finishing"
    /\ Goto(p, "done")
    /\ UNCHANGED <<authority, ep, rec, runs, lock, repair>>

\* The operating system drops the file lock with the process; the row stays.
ReleaseOnExit(p) == IF lock = p THEN Nobody ELSE lock

Exit(p) ==
    /\ phase[p] # "idle"
    /\ Set(p, "NOT_STARTED")
    /\ ep' = [ep EXCEPT ![p] = F!NoEpoch]
    /\ Goto(p, "idle")
    /\ lock' = ReleaseOnExit(p)
    /\ UNCHANGED <<authority, runs, repair>>

-----------------------------------------------------------------------------
\* repair_abandoned_recovery: the operator names one run by its owner token,
\* observed at some earlier time; the tool then needs the lock file.
RepairLock(target) ==
    /\ repair = NoTarget
    /\ target \in 1 .. authority
    /\ authority < MaxEpoch
    /\ TryAcquire(RepairTool)
    /\ repair' = target
    /\ UNCHANGED <<authority, ep, rec, runs, phase>>

RepairMayRelease(r) == r.epoch = repair /\ ~OwnerAlive(r)

AuthorityRolledBack(r) == r.epoch - 1

RepairedAuthority(r) == authority + 1

\* _record with release: run row and epoch change in one transaction.
RepairRelease(r) ==
    /\ repair # NoTarget
    /\ RepairMayRelease(r)
    /\ runs' = runs \ {r}
    /\ authority' = RepairedAuthority(r)
    /\ repair' = NoTarget
    /\ UNCHANGED <<ep, rec, lock, phase>>

\* Wrong token, a live owner, or no such open run: only an audit row.  And
\* release() in the finally block, or the end of the tool's process.
RepairUnlock ==
    /\ lock = RepairTool
    /\ lock' = Nobody
    /\ repair' = NoTarget
    /\ UNCHANGED <<authority, ep, rec, runs, phase>>

-----------------------------------------------------------------------------
Progress(p) ==
    \/ TakeLock(p)
    \/ LockRefused(p)
    \/ ClaimRun(p)
    \/ ClaimRefused(p)
    \/ PublishRecovered(p)
    \/ FinishRun(p)
    \/ ReleaseOwnerLock(p)

Failure(p) ==
    \/ JournalUnavailable(p)
    \/ ClaimFails(p)
    \/ BeginFails(p)
    \/ RecoveryBlocked(p)
    \/ FinishFails(p)
    \/ Exit(p)

RepairStep == RepairUnlock \/ \E r \in runs : RepairRelease(r)

Next ==
    \/ \E p \in Procs : StartRecovery(p) \/ Progress(p) \/ Failure(p) \/ HandleFinalised(p)
    \/ \E target \in 1 .. authority : RepairLock(target)
    \/ RepairStep

Spec == Init /\ [][Next]_vars

\* execute_startup_sequence and the repair tool are straight-line code: once
\* begun they run on.  Nothing makes an operator start either of them, no
\* failure or exit has to happen, and no line of the code makes a finaliser run.
FairSpec ==
    /\ Spec
    /\ \A p \in Procs : WF_vars(Progress(p))
    /\ WF_vars(RepairStep)

-----------------------------------------------------------------------------
(* At most one process may publish or manage, with the lock file, the claim *)
(* transaction, the closing of the run and the repair tool as the separate  *)
(* steps they are (live_management_permitted).                              *)
AtMostOneAuthority == F!AtMostOneAuthority

(* No claim, crash, restart or repair makes the epoch of a fenced process    *)
(* current again (_authority_matches, repair_abandoned_recovery).           *)
FencedStaysFenced == F!FencedStaysFenced

(* While a recovery run is open, nobody but the process that claimed it may *)
(* publish or manage: a predecessor that still runs is already fenced, and  *)
(* an owner that died leaves nobody in charge until a repair (_claim_run).  *)
OnlyOwnerWhileRunOpen ==
    \A r \in runs, p \in Procs :
        F!RecoveryFenceAllowsPublication(p) => p = r.owner /\ ep[p] = r.epoch

(* A recovery in progress is never overtaken: between its claim and its last *)
(* commit no other claim or repair advances the epoch, so the fence checks   *)
(* made on the way can only fail for a journal error.                        *)
RecoveryNeverOvertaken ==
    \A p \in Procs : phase[p] \in {"recovering", "finishing", "unlocking"} => ep[p] = authority

(* Whoever takes the lock file gives it up, but for the two places where the *)
(* code itself never does while its process lives on: a claim whose BEGIN    *)
(* is refused, and a final commit that fails and leaves the owner with its   *)
(* run row open (_claim_run, _finish_run, repair_abandoned_recovery).        *)
LockGivenUp ==
    \A p \in Procs :
        lock = p ~> \/ lock # p
                    \/ phase[p] = "abandoned"
                    \/ phase[p] = "done" /\ \E r \in runs : OwnerAlive(r) /\ r.owner = p

(* Every start-up attempt ends: it leaves the sequence, with a decision or by *)
(* an exception, or its process dies (execute_startup_sequence).             *)
StartupDecides ==
    \A p \in Procs : phase[p] = "opened" ~> phase[p] \in {"done", "abandoned", "idle"}

(* The start-up protocol implements the abstract fence: every step of the   *)
(* lock, the run row and the repair is a step of Fence.tla or changes       *)
(* nothing it speaks of (execute_startup_sequence).                         *)
ImplementsFence == F!FenceSpec
=============================================================================
