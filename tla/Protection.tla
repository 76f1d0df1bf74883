----------------------------- MODULE Protection -----------------------------
(***************************************************************************)
(* Profit protection of one live position: profit_protection.py, the       *)
(* management branch of _evaluate_impl in forex_bot/bot_loop.py, and the   *)
(* durable progress and its recovery in forex_bot/position_recovery.py.    *)
(*                                                                         *)
(* A management cycle raises the most favourable excursion, ratchets the   *)
(* protected exit, makes both durable, and only then may decide to close.  *)
(* A cycle runs to its end in one thread, but its process may die between  *)
(* any two steps, a write may fail before or after it was applied, and a   *)
(* second process may have taken over.  Start-up recovery is one step here *)
(* (RecoveryFence.tla takes it apart) and so are the reservation, the      *)
(* permit and the claim of a close (LiveClose.tla).                        *)
(*                                                                         *)
(* Profit is counted in whole pips from the entry.  PROFIT_PROTECTION_     *)
(* ENABLED is at its default, and the position has a valid take profit.    *)
(***************************************************************************)
EXTENDS Integers

CONSTANTS Procs,      \* processes
          MaxPips,    \* bound: the profit of the position
          Trigger,    \* activation_trigger_pips
          Givebacks,  \* giveback of a valid ATR: clamped to a least and a greatest
          Fallback,   \* PROFIT_GIVEBACK_PIPS: no valid ATR
          RetrySec,   \* PROFIT_PROTECTION_CLOSE_RETRY_SEC
          MaxTime,    \* bound: the clock stops here
          MaxEpoch,   \* bound: starts of a process
          NoExit      \* a NULL exit

ASSUME PipsAssumption ==
    /\ MaxPips \in Nat
    /\ Trigger \in 1 .. MaxPips
    /\ Givebacks \subseteq Nat
    /\ Fallback \in Nat
ASSUME TimeAssumption == RetrySec \in Nat \ {0} /\ MaxTime \in Nat \ {0} /\ MaxEpoch \in Nat
ASSUME NoExitAssumption == NoExit \notin Int

VARIABLES row,       \* managed_positions: the protection columns
          pos,       \* pos[p]: the Position object of p
          cycle,     \* cycle[p]: what the cycle of p does next
          ep,        \* ep[p]: _fencing_epoch of p
          epoch,     \* recovery_authority
          close,     \* the close of the position, as journal and broker have it
          stamp,     \* the attempt stamp of the last protective close sent
          clock      \* time.time()

vars == <<row, pos, cycle, ep, epoch, close, stamp, clock>>
fence == <<ep, epoch>>
outside == <<close, stamp, clock>>

Pips == 0 .. MaxPips
Exits == {e \in Int : e <= MaxPips}
Protected == [mfe : Pips, active : BOOLEAN, exit : Exits \cup {NoExit},
              snapshot : {"none", "atr", "fallback"}, attempt : 0 .. MaxTime]
Position == [cols : Protected, quarantine : BOOLEAN]

Steps == {"down", "idle", "check", "write", "decide", "persist", "submit", "await"}
Cycles == [at : Steps, hit : BOOLEAN]
Idle == [at |-> "idle", hit |-> FALSE]
Down == [at |-> "down", hit |-> FALSE]

(* The columns, the position and the cycle hold values the code gives them: *)
(* no exit lies above the best profit there can be.                         *)
TypeOK ==
    /\ row \in Protected
    /\ pos \in [Procs -> Position]
    /\ cycle \in [Procs -> Cycles]
    /\ ep \in [Procs -> 0 .. MaxEpoch]
    /\ epoch \in 0 .. MaxEpoch
    /\ close \in {"none", "outstanding", "closed"}
    /\ stamp \in 0 .. MaxTime
    /\ clock \in 0 .. MaxTime

-----------------------------------------------------------------------------
\* Altered forms, for the mutation runs only: each is a plausible mistake in
\* the definition that follows it.
GivebackAdded(mfe, giveback) == mfe + giveback
AttemptForgotten(r) ==
    [cols |-> [r EXCEPT !.attempt = 0], quarantine |-> close # "none" \/ r.snapshot = "fallback"]
ExitForgotten(r) == [cols |-> [r EXCEPT !.exit = NoExit], quarantine |-> FALSE]

Candidate(mfe, giveback) == mfe - giveback

Greater(a, b) == IF a < b THEN b ELSE a

\* update_protected_exit_pips
Ratchet(exit, candidate) ==
    IF exit # NoExit /\ exit > candidate THEN exit ELSE candidate

\* seed_position_mfe, raise_mfe_from_post_entry_ohlcv and
\* apply_profit_protection at a profit, the best profit of the candles since
\* the entry, and a giveback.
Applied(cols, profit, best, giveback, source) ==
    LET mfe == Greater(cols.mfe, Greater(profit, best))
        active == cols.active \/ mfe >= Trigger
    IN [cols EXCEPT
            !.mfe = mfe,
            !.active = active,
            !.exit = IF active THEN Ratchet(@, Candidate(mfe, giveback)) ELSE @,
            !.snapshot = IF active /\ ~cols.active /\ @ = "none" THEN source ELSE @]

\* should_close
Hit(cols, profit) == cols.active /\ cols.exit # NoExit /\ profit <= cols.exit

\* protection_close_allowed
CloseAllowed(cols) == cols.attempt = 0 \/ clock - cols.attempt >= RetrySec

\* _activated_without_ratchet: the fallback leaves the ATR of the activation NULL.
ActivatedWithoutRatchet(r) == r.active /\ (r.exit = NoExit \/ r.snapshot # "atr")

\* evaluate_durable_row and _position_from_row
Restored(r) == [cols |-> r, quarantine |-> close # "none" \/ ActivatedWithoutRatchet(r)]

\* What entry_capture writes for a new position.
Fresh == [mfe |-> 0, active |-> FALSE, exit |-> NoExit, snapshot |-> "none", attempt |-> 0]

Init ==
    /\ row = Fresh
    /\ pos = [p \in Procs |-> [cols |-> Fresh, quarantine |-> TRUE]]
    /\ cycle = [p \in Procs |-> Down]
    /\ ep = [p \in Procs |-> 0]
    /\ epoch = 0
    /\ close = "none"
    /\ stamp = 0
    /\ clock = 1

Goto(p, step) == cycle' = [cycle EXCEPT ![p].at = step]
Leave(p) == cycle' = [cycle EXCEPT ![p] = Idle]

-----------------------------------------------------------------------------
\* execute_startup_sequence: the new epoch, then the row as it is.
Start(p) ==
    /\ cycle[p].at = "down"
    /\ epoch < MaxEpoch
    /\ epoch' = epoch + 1
    /\ ep' = [ep EXCEPT ![p] = epoch + 1]
    /\ pos' = [pos EXCEPT ![p] = Restored(row)]
    /\ Leave(p)
    /\ UNCHANGED <<row, outside>>

Crash(p) ==
    /\ cycle[p].at # "down"
    /\ cycle' = [cycle EXCEPT ![p] = Down]
    /\ pos' = [pos EXCEPT ![p] = [cols |-> Fresh, quarantine |-> TRUE]]
    /\ UNCHANGED <<row, fence, outside>>

\* live_management_permitted and position_management_permitted
Managed(p) ==
    /\ cycle[p].at = "idle"
    /\ ep[p] = epoch
    /\ ~pos[p].quarantine
    /\ close # "closed"

\* A quote: without candles there is no ATR and no better profit to find.
Evaluate(p) ==
    /\ Managed(p)
    /\ \E profit, best \in Pips, giveback \in Givebacks \cup {Fallback}, source \in {"atr", "fallback"} :
          LET cols == Applied(pos[p].cols, profit, best, giveback, source) IN
          /\ IF source = "atr" THEN giveback \in Givebacks ELSE giveback = Fallback
          /\ pos' = [pos EXCEPT ![p].cols = cols]
          /\ cycle' = [cycle EXCEPT ![p] = [at |-> "check", hit |-> Hit(cols, profit)]]
    /\ UNCHANGED <<row, fence, outside>>

\* No quote: the protection stays as it is and does not close.
EvaluateUnpriced(p) ==
    /\ Managed(p)
    /\ Goto(p, "decide")
    /\ UNCHANGED <<row, pos, fence, outside>>

\* Altered form, for the mutation runs only.
FailureIgnored(p) == Goto(p, "decide") /\ UNCHANGED pos

\* protection_state_not_durable
NotDurable(p) ==
    /\ pos' = [pos EXCEPT ![p].quarantine = TRUE]
    /\ Leave(p)

Lower(cols) ==
    \/ row.exit # NoExit /\ cols.exit # NoExit /\ cols.exit < row.exit
    \/ row.active /\ ~cols.active

\* persist_protection_progress reads the row and compares ...
CheckRow(p) ==
    /\ cycle[p].at = "check"
    /\ \/ ~Lower(pos[p].cols) /\ Goto(p, "write") /\ UNCHANGED pos
       \/ NotDurable(p)   \* lower, or the row cannot be read
    /\ UNCHANGED <<row, fence, outside>>

\* ... and writes, in a transaction of its own.
WriteRow(p) ==
    /\ cycle[p].at = "write"
    /\ row' = pos[p].cols
    /\ Goto(p, "decide")
    /\ UNCHANGED <<pos, fence, outside>>

\* The write is reported as failed, applied or not.
WriteRowFails(p) ==
    /\ cycle[p].at = "write"
    /\ row' \in {row, pos[p].cols}
    /\ NotDurable(p)
    /\ UNCHANGED <<fence, outside>>

\* The rest of the cycle up to run_guarded_live_close.  The weekend flattens
\* without a hit; an attempt counts although orders are disabled.
Decide(p) ==
    LET protect == cycle[p].hit /\ CloseAllowed(pos[p].cols) IN
    /\ cycle[p].at = "decide"
    /\ \E weekend, disabled \in BOOLEAN :
          cycle' = [cycle EXCEPT ![p] =
              IF ~disabled /\ (protect \/ weekend) THEN [at |-> "persist", hit |-> protect]
              ELSE Idle]
    /\ pos' = IF protect THEN [pos EXCEPT ![p].cols.attempt = clock] ELSE pos
    /\ UNCHANGED <<row, fence, outside>>

\* run_guarded_live_close writes the position before it reserves.
PersistPosition(p) ==
    /\ cycle[p].at = "persist"
    /\ row' = pos[p].cols
    /\ Goto(p, "submit")
    /\ UNCHANGED <<pos, fence, outside>>

PersistPositionFails(p) ==
    /\ cycle[p].at = "persist"
    /\ row' \in {row, pos[p].cols}
    /\ Leave(p)
    /\ UNCHANGED <<pos, fence, outside>>

\* The request goes out under the fence.
Submit(p) ==
    /\ cycle[p].at = "submit"
    /\ close = "none"
    /\ ep[p] = epoch
    /\ close' = "outstanding"
    /\ stamp' = IF cycle[p].hit THEN pos[p].cols.attempt ELSE stamp
    /\ Goto(p, "await")
    /\ UNCHANGED <<row, pos, fence, clock>>

\* A close that blocks, a lost fence, or a journal that refuses, with or
\* without a row left behind.
SubmitRefused(p) ==
    /\ cycle[p].at = "submit"
    /\ \/ UNCHANGED close
       \/ close = "none" /\ close' = "outstanding"
    /\ Leave(p)
    /\ UNCHANGED <<row, pos, fence, stamp, clock>>

\* The broker's answer: a reject makes room, a fill closes, the rest is open.
Answer(p) ==
    /\ cycle[p].at = "await"
    /\ close' \in IF close = "outstanding" THEN {"none", "outstanding", "closed"} ELSE {close}
    /\ Leave(p)
    /\ UNCHANGED <<row, pos, fence, stamp, clock>>

-----------------------------------------------------------------------------
\* Evidence settles a close nobody waits for.
Settle ==
    /\ close = "outstanding"
    /\ \A p \in Procs : cycle[p].at # "await"
    /\ close' \in {"none", "closed"}
    /\ UNCHANGED <<row, pos, cycle, fence, stamp, clock>>

Tick ==
    /\ clock < MaxTime
    /\ clock' = clock + 1
    /\ UNCHANGED <<row, pos, cycle, fence, close, stamp>>

Cycle(p) ==
    \/ Evaluate(p)
    \/ EvaluateUnpriced(p)
    \/ CheckRow(p)
    \/ WriteRow(p)
    \/ WriteRowFails(p)
    \/ Decide(p)
    \/ PersistPosition(p)
    \/ PersistPositionFails(p)
    \/ Submit(p)
    \/ SubmitRefused(p)
    \/ Answer(p)

Next ==
    \/ \E p \in Procs : Start(p) \/ Crash(p) \/ Cycle(p)
    \/ Settle
    \/ Tick

Spec == Init /\ [][Next]_vars

-----------------------------------------------------------------------------
SameRatchet(a, b) == a.mfe = b.mfe /\ a.active = b.active /\ a.exit = b.exit

(* Between two writes the row says what the memory of a managed position    *)
(* says: whatever write failed, whoever restarted, and whichever path left  *)
(* the cycle, no decision rests on a ratchet a crash would lose             *)
(* (protection_state_not_durable, persist_protection_progress).             *)
ManagedIsDurable ==
    \A p \in Procs :
        ~pos[p].quarantine /\ cycle[p].at \notin {"check", "write"} => SameRatchet(pos[p].cols, row)

(* The durable ratchet never loosens: once active it stays active and its   *)
(* exit never falls (persist_protection_progress: "A lower durable ratchet  *)
(* is refused").  It is so with one process, across its restarts; with two  *)
(* the run doc_ratchet refutes it.                                          *)
DurableRatchetHolds ==
    [][row.active => row'.active /\ row'.exit # NoExit /\ row'.exit >= row.exit]_vars

(* Two protective closes are RetrySec apart, by their attempt stamps, also  *)
(* when the process died after the first and another start sent the second  *)
(* (mark_protection_close_attempt, protection_close_allowed).               *)
ProtectiveClosesSpaced ==
    [][stamp' # stamp /\ stamp # 0 => stamp' - stamp >= RetrySec]_vars
=============================================================================
