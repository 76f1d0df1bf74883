------------------------------- MODULE Fence -------------------------------
(***************************************************************************)
(* What forex_bot/startup_recovery.py promises about recovery authority.   *)
(*                                                                         *)
(* One durable number, recovery_authority.fencing_epoch, is shared by      *)
(* every bot process that opens the same trade journal.  A process becomes *)
(* the owner of live management by advancing that number at start-up and   *)
(* remembering the value it wrote; it acts only while the number is still  *)
(* the one it remembers.  RecoveryFence.tla shows that the start-up        *)
(* protocol of the code (OS lock, recovery_runs row, finish, repair)       *)
(* implements this module, and LiveClose.tla composes it with the close    *)
(* path of the bot.                                                        *)
(***************************************************************************)
EXTENDS Naturals

CONSTANTS Procs,       \* bot processes that may open the journal
          MaxEpoch     \* bound: no new claim or repair starts beyond it

ASSUME MaxEpochAssumption == MaxEpoch \in Nat

VARIABLES authority,   \* recovery_authority.fencing_epoch, durable
          ep,          \* startup_recovery._fencing_epoch of each process
          rec          \* startup_recovery._state of each process

fenceVars == <<authority, ep, rec>>

NoEpoch == 0           \* _fencing_epoch is None: the process never claimed

\* RECOVERY_COMPLETED_WITH_QUARANTINE is merged with RECOVERY_COMPLETED:
\* both are _ACCEPTABLE and no caller distinguishes them.
RecoveryStates == {"NOT_STARTED", "IN_PROGRESS", "COMPLETED", "BLOCKED"}

(* The fencing epoch only ever holds a number the claim or a repair wrote,  *)
(* and a process is in one of the states of startup_recovery.              *)
FenceTypeOK ==
    /\ authority \in Nat
    /\ ep \in [Procs -> Nat]
    /\ rec \in [Procs -> RecoveryStates]

-----------------------------------------------------------------------------
AuthorityMatches(p) == ep[p] = authority

LiveManagementPermitted(p) ==
    /\ rec[p] = "COMPLETED"
    /\ ep[p] # NoEpoch
    /\ AuthorityMatches(p)

RecoveryFenceAllowsPublication(p) ==
    /\ rec[p] \in {"IN_PROGRESS", "COMPLETED"}
    /\ ep[p] # NoEpoch
    /\ AuthorityMatches(p)

\* Being in the middle of a claimed recovery run.
Recovering(p) == rec[p] = "IN_PROGRESS" /\ ep[p] # NoEpoch

-----------------------------------------------------------------------------
FenceInit ==
    /\ authority = 0
    /\ ep = [p \in Procs |-> NoEpoch]
    /\ rec = [p \in Procs |-> "NOT_STARTED"]

BeginRecovery(p) ==
    /\ rec[p] = "NOT_STARTED"
    /\ rec' = [rec EXCEPT ![p] = "IN_PROGRESS"]
    /\ UNCHANGED <<authority, ep>>

\* One transaction advances the epoch; the process remembers its own value.
ClaimEpoch(p) ==
    /\ rec[p] = "IN_PROGRESS"
    /\ ep[p] = NoEpoch
    /\ \A q \in Procs : ~Recovering(q)
    /\ authority' = authority + 1
    /\ ep' = [ep EXCEPT ![p] = authority + 1]
    /\ UNCHANGED rec

CompleteRecovery(p) ==
    /\ RecoveryFenceAllowsPublication(p)
    /\ rec[p] = "IN_PROGRESS"
    /\ rec' = [rec EXCEPT ![p] = "COMPLETED"]
    /\ UNCHANGED <<authority, ep>>

BlockRecovery(p) ==
    /\ rec[p] = "IN_PROGRESS"
    /\ rec' = [rec EXCEPT ![p] = "BLOCKED"]
    /\ UNCHANGED <<authority, ep>>

\* A crash or an exit: the module state of the process is gone.
ExitProcess(p) ==
    /\ rec[p] # "NOT_STARTED"
    /\ rec' = [rec EXCEPT ![p] = "NOT_STARTED"]
    /\ ep' = [ep EXCEPT ![p] = NoEpoch]
    /\ UNCHANGED authority

\* An operator releases an abandoned claim.  Nobody holds authority then, and
\* nobody who was fenced before gets it back.
RepairEpoch ==
    /\ \A p \in Procs : ~RecoveryFenceAllowsPublication(p)
    /\ authority' = authority + 1
    /\ UNCHANGED <<ep, rec>>

FenceNext ==
    \/ \E p \in Procs : \/ BeginRecovery(p)
                        \/ ClaimEpoch(p)
                        \/ CompleteRecovery(p)
                        \/ BlockRecovery(p)
                        \/ ExitProcess(p)
    \/ RepairEpoch

FenceSpec == FenceInit /\ [][FenceNext]_fenceVars

-----------------------------------------------------------------------------
(* At any instant at most one process may publish recovered positions or   *)
(* manage live ones, however starts, crashes and repairs interleave:       *)
(* live_management_permitted and recovery_fence_allows_publication.        *)
AtMostOneAuthority ==
    \A p, q \in Procs :
        /\ RecoveryFenceAllowsPublication(p)
        /\ RecoveryFenceAllowsPublication(q)
        => p = q

Fenced(p) == ep[p] # NoEpoch /\ ~AuthorityMatches(p)

(* A process that has been fenced out stays fenced out: no later claim,    *)
(* repair or restart of another process makes its old epoch current again  *)
(* (_authority_matches).                                                   *)
FencedStaysFenced ==
    [][\A p \in Procs : Fenced(p) /\ ep'[p] = ep[p] => Fenced(p)']_fenceVars
=============================================================================
