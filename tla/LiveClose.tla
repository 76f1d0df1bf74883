----------------------------- MODULE LiveClose -----------------------------
(***************************************************************************)
(* The bot-opened live positions of one instrument, one after the other,   *)
(* from an open book entry to its close:                                   *)
(* forex_bot/broker_close_evidence.py (run_guarded_live_close) over the    *)
(* close journal (CloseJournal.tla), under the recovery fence (Fence.tla), *)
(* with the order submission of oanda_exec.py, the local book of           *)
(* positions.py, start-up recovery, the reconciler of reconciliation.py,   *)
(* and the broker.                                                         *)
(*                                                                         *)
(* Every process has two threads of its own: the management cycle, which   *)
(* starts up and closes, and the reconciler, which runs in a worker        *)
(* thread.  One action ends where another thread or process can interleave *)
(* with an effect: at every journal transaction, every read that a later   *)
(* step relies on, and the network call.                                   *)
(*                                                                         *)
(* Units are multiples of a lot larger than the reconciler's tolerance.    *)
(***************************************************************************)
EXTENDS CloseJournal, Fence

CONSTANTS Elsewhere,   \* the last fill of a trade that no operation asked for
          Operators,   \* operator sessions that use the evidence API
          Fixes,       \* what the settings let the reconciler do to the book
          Units,       \* bound: units of a position when it was opened
          MaxGen,      \* bound: the reconciler adjusts no further
          NoView       \* the broker snapshot could not be read

ASSUME TradeAssumption == NoOp \notin Trades
ASSUME TransactionAssumption ==
    Elsewhere \notin Ops \cup {NoOp} /\ Transactions = Ops \cup {Elsewhere}
ASSUME SessionAssumption == Sessions = Procs \cup Operators

\* RECONCILE_ACTION is log_only by default; auto_fix lets a pass delete, and
\* RECONCILE_ADJUST_UNITS on top of it lets a pass write the broker's units.
ASSUME FixAssumption == Fixes \in {{}, {"delete"}, {"delete", "adjust"}}
ASSUME BoundAssumption == Units \in Nat \ {0} /\ MaxGen \in Nat \ {0}

VARIABLES trade,     \* the last trade that was opened
          held,      \* units of it open at the broker
          wire,      \* wire[o]: the close request of operation o
          fill,      \* fill[x][t]: units of t transaction x closed; o names its own
          closer,    \* closer[t]: the transaction that closed t, if it is closed
          dur,       \* managed_positions: dur[t] is the row of trade t
          pos,       \* the Position object of each process
          resident,  \* the processes whose book holds that object
          quar,      \* the trades in quarantined_positions of each process
          withheld,  \* the processes whose Position has recovery_quarantine set
          memop,     \* _operations[instrument] of each process
          thread,    \* where each thread stands, its operation, the units it read
          scan,      \* rows a session's recover() has read and not yet marked
          verdict    \* what an operator session has decided and not yet written

broker == <<trade, held, wire, fill, closer>>
vars == <<authority, ep, rec, rows, trade, held, wire, fill, closer,
          dur, pos, resident, quar, withheld, memop, thread, scan, verdict>>

-----------------------------------------------------------------------------
Threads == {"cycle", "reconciler"}

\* A step is named for what the thread does next.
StartSteps == {"down", "start", "recover", "publish"}
CloseSteps == {"persist_position", "find_blocker", "reserve", "commit_intent",
               "issue_permit", "begin_submit", "check_authority", "claim",
               "recheck", "send", "await", "interpret", "verify", "mark"}
DeleteSteps == {"delete", "finalise", "pop"}
ReconcilerSteps == {"adjust"}
Steps == {"idle"} \cup StartSteps \cup CloseSteps \cup DeleteSteps \cup ReconcilerSteps

Position == [trade : Trades, gen : 1 .. MaxGen, units : 0 .. Units]
NoPos == [trade |-> NoOp, gen |-> 0, units |-> 0]
Entered(t) == [trade |-> t, gen |-> 1, units |-> Units]

\* What is read of a position in one place and used in another.
View == [trade : Trades, units : 0 .. Units]

NoMem == [op |-> NoOp, st |-> "ABSENT", tx |-> NoOp]
CloseOperation == [op : Ops \cup {NoOp}, st : ConfirmationStates,
                   tx : Transactions \cup {NoOp}]

Idle == [at |-> "idle", op |-> NoOp, view |-> NoView]

\* The threads of a process that is not running.
Stopped == [th \in Threads |-> IF th = "cycle" THEN [Idle EXCEPT !.at = "down"] ELSE Idle]

(* The journal, the broker, each process's book and each thread's place in  *)
(* the close hold values of the code's enumerations.                       *)
TypeOK ==
    /\ FenceTypeOK
    /\ JournalTypeOK
    /\ trade \in Trades
    /\ held \in 0 .. Units
    /\ wire \in [Ops -> {"unsent", "sent", "rejected", "filled"}]
    /\ fill \in [Transactions -> [Trades -> 0 .. Units]]
    /\ closer \in [Trades -> Transactions \cup {NoOp}]
    /\ dur \in [Trades -> Position \cup {NoPos}]
    /\ pos \in [Procs -> Position \cup {NoPos}]
    /\ resident \subseteq Procs
    /\ quar \in [Procs -> SUBSET Trades]
    /\ withheld \subseteq Procs
    /\ memop \in [Procs -> CloseOperation \cup {NoMem}]
    /\ thread \in [Procs -> [Threads ->
                    [at : Steps, op : Ops \cup {NoOp}, view : View \cup {NoView}]]]
    /\ scan \in [Sessions -> [Ops -> Row \cup {NoRow}]]
    /\ verdict \in [Operators -> CloseOperation \cup {NoMem}]

-----------------------------------------------------------------------------
\* Helpers

At(p, th, step) == thread[p][th].at = step
Op(p, th) == thread[p][th].op

Goto(p, th, step) == thread' = [thread EXCEPT ![p][th].at = step]
Leave(p, th) == thread' = [thread EXCEPT ![p][th] = Idle]

\* blocks_resubmission: _BLOCKING is the set of unsettled states.
MemBlocks(p) == memop[p].st \in Unsettled

\* position_management_permitted, of the live Position in the book.
ManagementPermitted(p) == p \in resident /\ p \notin withheld

\* _position_still
PositionStill(p, o) ==
    /\ p \in resident
    /\ pos[p].trade = rows[o].trade
    /\ pos[p].gen = rows[o].gen
    /\ pos[p].units = rows[o].units

\* The rows a recover() that starts now would rewrite.
RecoverScan ==
    [o \in Ops |-> IF rows[o] # NoRow /\ RecoverWrites(rows[o]) THEN rows[o] ELSE NoRow]
NothingRead == [o \in Ops |-> NoRow]

Closed(t) == closer[t] # NoOp
Durable == {t \in Trades : dur[t] # NoPos}

\* Altered forms, for the mutation runs only: each is a plausible mistake in
\* the definition that follows it.
AnyFillConfirms(o, x) == "FULLY_CONFIRMED"

\* apply_transaction_body: transaction x read as evidence for o.  CloseEvidence
\* has the body it reads.
Evidence(o, x) ==
    LET t == rows[o].trade
        k == fill[x][t]
    IN IF 0 < k /\ k < rows[o].units THEN "PARTIALLY_CONFIRMED"
       ELSE IF k = rows[o].units /\ closer[t] = x THEN "FULLY_CONFIRMED"
       ELSE "RECONCILIATION_REQUIRED"   \* another trade, too many, not a full close

\* _other_operation_has_transaction
Replayed(o) == \E q \in Ops \ {o} : rows[q] # NoRow /\ rows[q].tx = o

\* What the steps of one process leave alone, by the state they work on.
otherProcess == <<authority, ep, rec, scan, verdict>>
journal == <<rows, dur>>
book == <<pos, resident, quar, withheld>>

-----------------------------------------------------------------------------
Init ==
    /\ FenceInit
    /\ rows = [o \in Ops |-> NoRow]
    /\ trade \in Trades
    /\ held = Units
    /\ wire = [o \in Ops |-> "unsent"]
    /\ fill = [x \in Transactions |-> [t \in Trades |-> 0]]
    /\ closer = [t \in Trades |-> NoOp]
    /\ dur = [t \in Trades |-> IF t = trade THEN Entered(t) ELSE NoPos]
    /\ pos = [p \in Procs |-> NoPos]
    /\ resident = {}
    /\ quar = [p \in Procs |-> {}]
    /\ withheld = {}
    /\ memop = [p \in Procs |-> NoMem]
    /\ thread = [p \in Procs |-> Stopped]
    /\ scan = [s \in Sessions |-> NothingRead]
    /\ verdict = [s \in Operators |-> NoMem]

-----------------------------------------------------------------------------
\* Start-up: load_startup_broker_view, then execute_startup_sequence

\* The view is read before the journal is opened and before the claim.
LoadBrokerView(p) ==
    /\ At(p, "cycle", "down")
    /\ authority < MaxEpoch
    /\ \E v \in {[trade |-> trade, units |-> held], NoView} :
          thread' = [thread EXCEPT ![p]["cycle"] = [at |-> "start", op |-> NoOp, view |-> v]]
    /\ UNCHANGED <<broker, journal, book, memop, otherProcess>>

\* active_journal in a process that has none open: recover() selects its rows.
OpenJournal(p) ==
    /\ At(p, "cycle", "start")
    /\ BeginRecovery(p)
    /\ scan' = [scan EXCEPT ![p] = RecoverScan]
    /\ Goto(p, "cycle", "recover")
    /\ UNCHANGED <<broker, journal, book, memop, verdict>>

\* One mark of recover().  It writes what the row was when it was read.
RecoverRow(s, o) ==
    /\ scan[s][o] # NoRow
    /\ Mark(o, RecoveredState(scan[s][o]), RecoveredTx(scan[s][o]))
    /\ scan' = [scan EXCEPT ![s][o] = NoRow]
    /\ UNCHANGED <<broker, dur, book, memop, authority, ep, rec, verdict, thread>>

\* The unique index refuses the mark: IntegrityError leaves active_journal and
\* execute_startup_sequence, and _state stays RECOVERY_IN_PROGRESS.
RecoverCollides(p, o) ==
    /\ scan[p][o] # NoRow
    /\ ~MarkAdmitted(o, RecoveredState(scan[p][o]))
    /\ scan' = [scan EXCEPT ![p] = NothingRead]
    /\ Leave(p, "cycle")
    /\ UNCHANGED <<broker, journal, book, memop, authority, ep, rec, verdict>>

ClaimRun(p) ==
    /\ At(p, "cycle", "recover")
    /\ scan[p] = NothingRead
    /\ ClaimEpoch(p)
    /\ Goto(p, "cycle", "publish")
    /\ UNCHANGED <<broker, journal, book, memop, scan, verdict>>

\* The claim is refused.
ClaimBlocked(p) ==
    /\ At(p, "cycle", "recover")
    /\ scan[p] = NothingRead
    /\ BlockRecovery(p)
    /\ Leave(p, "cycle")
    /\ UNCHANGED <<broker, journal, book, memop, scan, verdict>>

\* evaluate_durable_row: the one trade of the view has the units of the row,
\* and no close operation of the trade is unsettled.  Nothing deletes the row of
\* a closed trade.
RestoredManaged(v) ==
    {t \in Durable : v = [trade |-> t, units |-> dur[t].units] /\ v.units # 0 /\ ~BlockingTrade(t)}

\* The rebuilt book.  The start-up sequence clears the old one first.
PublishRecovered(p) ==
    /\ At(p, "cycle", "publish")
    /\ LET v == thread[p]["cycle"].view
           kept == RestoredManaged(v)
       IN IF v # NoView /\ RecoveryFenceAllowsPublication(p)
          THEN /\ CompleteRecovery(p)
               /\ pos' = [pos EXCEPT ![p] = IF kept = {} THEN NoPos ELSE dur[v.trade]]
               /\ resident' = IF kept = {} THEN resident \ {p} ELSE resident \cup {p}
               /\ quar' = [quar EXCEPT ![p] = Durable \ kept]
               /\ withheld' = withheld \ {p}
          ELSE /\ BlockRecovery(p)
               /\ UNCHANGED book
    /\ Leave(p, "cycle")
    /\ UNCHANGED <<broker, journal, memop, scan, verdict>>

-----------------------------------------------------------------------------
\* The management cycle closes the position: run_guarded_live_close

Cycle(p, step) == At(p, "cycle", step)
Current(p) == Op(p, "cycle")
Then(p, step) == Goto(p, "cycle", step)

\* A later entry on the instrument, as one step: LiveEntry takes it apart.  The
\* loop withholds it while the book holds a position, or anything of the
\* instrument is quarantined or unresolved (symbol_has_quarantined_exposure).
NextTrade(p, t) ==
    /\ Cycle(p, "idle")
    /\ LiveManagementPermitted(p)
    /\ p \notin resident /\ quar[p] = {}
    /\ \A o \in Ops : ~Blocking(o)
    /\ held = 0 /\ ~Closed(t)
    /\ trade' = t
    /\ held' = Units
    /\ dur' = [dur EXCEPT ![t] = Entered(t)]
    /\ pos' = [pos EXCEPT ![p] = Entered(t)]
    /\ resident' = resident \cup {p}
    /\ withheld' = withheld \ {p}
    /\ UNCHANGED <<wire, fill, closer, rows, quar, memop, thread, otherProcess>>

\* persist_protection_progress fails in the cycle: the Position is managed no
\* more, and nothing clears the flag but a restart.
WithholdManagement(p) ==
    /\ Cycle(p, "idle")
    /\ ManagementPermitted(p)
    /\ LiveManagementPermitted(p)
    /\ withheld' = withheld \cup {p}
    /\ UNCHANGED <<broker, journal, pos, resident, quar, memop, thread, otherProcess>>

\* bot_loop: live management is permitted; the size is read.
StartClose(p) ==
    /\ Cycle(p, "idle")
    /\ ManagementPermitted(p)
    /\ LiveManagementPermitted(p)
    /\ thread' = [thread EXCEPT ![p]["cycle"] =
                     [at |-> "persist_position", op |-> NoOp,
                      view |-> [trade |-> pos[p].trade, units |-> pos[p].units]]]
    /\ UNCHANGED <<broker, journal, book, memop, otherProcess>>

\* persist_bot_position: an older generation is refused (conflicting_generation).
PersistAdmitted(p) == dur[pos[p].trade].gen <= pos[p].gen

PersistPosition(p) ==
    /\ Cycle(p, "persist_position")
    /\ IF PersistAdmitted(p) THEN /\ dur' = [dur EXCEPT ![pos[p].trade] = pos[p]]
                                  /\ Then(p, "find_blocker")
                             ELSE UNCHANGED dur /\ Leave(p, "cycle")
    /\ UNCHANGED <<broker, rows, book, memop, otherProcess>>

\* The operation found decides: a confirmed one goes on to the local delete.
Found(p, o, st) ==
    IF st = "FULLY_CONFIRMED"
    THEN thread' = [thread EXCEPT ![p]["cycle"] = [Idle EXCEPT !.at = "delete", !.op = o]]
    ELSE Leave(p, "cycle")

\* blocking_trade, then _reserve in memory.
FindBlocker(p) ==
    /\ Cycle(p, "find_blocker")
    /\ IF BlockingTrade(pos[p].trade)
       THEN /\ \E o \in UnresolvedOn(pos[p].trade) : Found(p, o, rows[o].st)
            /\ UNCHANGED memop
       ELSE IF MemBlocks(p)
       THEN Found(p, memop[p].op, memop[p].st) /\ UNCHANGED memop
       ELSE /\ memop' = [memop EXCEPT ![p] = [NoMem EXCEPT !.st = "PREPARED"]]
            /\ Then(p, "reserve")
    /\ UNCHANGED <<broker, journal, book, otherProcess>>

\* assert_broker_order_allowed raises: _release_unsent.
OrdersDisabled(p) ==
    /\ Cycle(p, "reserve")
    /\ memop' = [memop EXCEPT ![p] = NoMem]
    /\ Leave(p, "cycle")
    /\ UNCHANGED <<broker, journal, book, otherProcess>>

ReserveRow(p, o) ==
    /\ Cycle(p, "reserve")
    /\ Reserve(o, pos[p].trade, pos[p].gen, thread[p]["cycle"].view.units)
    /\ thread' = [thread EXCEPT ![p]["cycle"] = [Idle EXCEPT !.at = "commit_intent", !.op = o]]
    /\ UNCHANGED <<broker, dur, book, memop, otherProcess>>

CommitIntent(p) ==
    /\ Cycle(p, "commit_intent")
    /\ CommitSubmissionIntent(p, Current(p))
    /\ Then(p, "issue_permit")
    /\ UNCHANGED <<broker, dur, book, memop, otherProcess>>

IssuePermit(p) ==
    /\ Cycle(p, "issue_permit")
    /\ SubmissionAuthorized(p, Current(p))
    /\ memop' = [memop EXCEPT ![p].op = Current(p)]
    /\ Then(p, "begin_submit")
    /\ UNCHANGED <<broker, journal, book, otherProcess>>

\* JournalUnavailable: the index, a lost fence on the row, or the database.
\* The row keeps whatever state it has; only the operation in memory changes.
JournalRefuses(p) ==
    /\ thread[p]["cycle"].at \in {"reserve", "commit_intent", "issue_permit"}
    /\ memop' = [memop EXCEPT ![p].st = "RECONCILIATION_REQUIRED"]
    /\ Leave(p, "cycle")
    /\ UNCHANGED <<broker, journal, book, otherProcess>>

\* _mark in memory; _persist writes it in the next step.
Decide(p, st) ==
    /\ memop' = [memop EXCEPT ![p].st = st]
    /\ Then(p, "mark")

\* submission_authorized, _position_still and _begin_submit.
BeginSubmit(p) ==
    /\ Cycle(p, "begin_submit")
    /\ IF SubmissionAuthorized(p, Current(p)) /\ PositionStill(p, Current(p))
       THEN /\ memop' = [memop EXCEPT ![p].st = "SUBMITTING"]
            /\ Then(p, "check_authority")
       ELSE Decide(p, "RECONCILIATION_REQUIRED")
    /\ UNCHANGED <<broker, journal, book, otherProcess>>

\* _submit_position_close_body, in a worker thread.
CheckAuthority(p) ==
    /\ Cycle(p, "check_authority")
    /\ IF LiveManagementPermitted(p) THEN Then(p, "claim") /\ UNCHANGED memop
                                     ELSE Decide(p, "RECONCILIATION_REQUIRED")
    /\ UNCHANGED <<broker, journal, book, otherProcess>>

ClaimPermit(p) ==
    /\ Cycle(p, "claim")
    /\ ClaimNetworkPermit(p, Current(p))
    /\ Then(p, "recheck")
    /\ UNCHANGED <<broker, dur, book, memop, otherProcess>>

\* The row no longer admits the claim, or the database refuses.
ClaimRefused(p) ==
    /\ Cycle(p, "claim")
    /\ Decide(p, "RECONCILIATION_REQUIRED")
    /\ UNCHANGED <<broker, journal, book, otherProcess>>

\* The checks before and after the rate-limit slot.
Recheck(p) ==
    /\ Cycle(p, "recheck")
    /\ IF LiveManagementPermitted(p) THEN Then(p, "send") /\ UNCHANGED memop
                                     ELSE Decide(p, "RECONCILIATION_REQUIRED")
    /\ UNCHANGED <<broker, journal, book, otherProcess>>

Send(p) ==
    /\ Cycle(p, "send")
    /\ wire' = [wire EXCEPT ![Current(p)] = "sent"]
    /\ Then(p, "await")
    /\ UNCHANGED <<trade, held, fill, closer, journal, book, memop, otherProcess>>

ExceptionIsRejection == "REJECTED_CONFIRMED"

ExceptionIsUnknown == "UNKNOWN"

\* Any exception after the claim, a timeout included, says nothing of the broker.
OutcomeOfException == "OUTCOME_AMBIGUOUS"

NoTimeout == {"recheck", "send"}

\* The HTTP client has a timeout, so a request is never awaited for ever.
MayRaise == {"recheck", "send", "await"}

RequestFails(p) ==
    /\ thread[p]["cycle"].at \in MayRaise
    /\ Decide(p, OutcomeOfException)
    /\ UNCHANGED <<broker, journal, book, otherProcess>>

Response(p) ==
    /\ Cycle(p, "await")
    /\ wire[Current(p)] \in {"rejected", "filled"}
    /\ Decide(p, "RESPONSE_RECEIVED")
    /\ UNCHANGED <<broker, journal, book, otherProcess>>

\* interpret_close_response raises, or finds a reject, or a fill.
Interpret(p) ==
    /\ Cycle(p, "interpret")
    /\ \/ \E st \in {"OUTCOME_AMBIGUOUS", "RECONCILIATION_REQUIRED"} : Decide(p, st)
       \/ wire[Current(p)] = "rejected" /\ Decide(p, "REJECTED_CONFIRMED")
       \/ /\ wire[Current(p)] = "filled"
          /\ PositionStill(p, Current(p))
          /\ memop' = [memop EXCEPT ![p].tx = Current(p)]
          /\ Then(p, "verify")
       \/ /\ wire[Current(p)] = "filled"
          /\ ~PositionStill(p, Current(p))
          /\ memop' = [memop EXCEPT ![p].tx = Current(p), ![p].st = "RECONCILIATION_REQUIRED"]
          /\ Then(p, "mark")
    /\ UNCHANGED <<broker, journal, book, otherProcess>>

\* _fetch_transaction fails, its body does not match, or it is evidence.
Verify(p) ==
    /\ Cycle(p, "verify")
    /\ \/ Decide(p, "CONFIRMATION_PENDING")
       \/ Decide(p, "RECONCILIATION_REQUIRED")
       \/ /\ PositionStill(p, Current(p))
          /\ ~Replayed(Current(p))
          /\ Decide(p, Evidence(Current(p), Current(p)))
    /\ UNCHANGED <<broker, journal, book, otherProcess>>

\* What follows a _persist, by the state it wrote.
AfterMark(p) ==
    CASE memop[p].st = "RESPONSE_RECEIVED"  -> Then(p, "interpret") /\ UNCHANGED memop
      [] memop[p].st = "FULLY_CONFIRMED"    -> Then(p, "delete") /\ UNCHANGED memop
      [] memop[p].st = "REJECTED_CONFIRMED" -> /\ memop' = [memop EXCEPT ![p] = NoMem]
                                               /\ Leave(p, "cycle")
      [] OTHER                              -> Leave(p, "cycle") /\ UNCHANGED memop

Persist(p) ==
    /\ Cycle(p, "mark")
    /\ Mark(Current(p), memop[p].st, memop[p].tx)
    /\ AfterMark(p)
    /\ UNCHANGED <<broker, dur, book, otherProcess>>

\* JournalUnavailable in _persist is swallowed and the run goes on.
PersistFails(p) ==
    /\ Cycle(p, "mark")
    /\ AfterMark(p)
    /\ UNCHANGED <<broker, journal, book, otherProcess>>

-----------------------------------------------------------------------------
\* close_confirmed_live_position, from the cycle or from the reconciler

MayDelete(p, o) ==
    /\ LiveManagementPermitted(p)
    /\ o # NoOp
    /\ rows[o].st = "FULLY_CONFIRMED"
    /\ rows[o].tx # NoOp
    /\ PositionStill(p, o)
    /\ ManagementPermitted(p)

CheckDelete(p, th) ==
    /\ At(p, th, "delete")
    /\ IF MayDelete(p, Op(p, th)) THEN Goto(p, th, "finalise") ELSE Leave(p, th)
    /\ UNCHANGED <<broker, journal, book, memop, otherProcess>>

EpochIgnored(p) == TRUE

\* finalise(expected_epoch): the comparison and the update are one transaction.
EpochExpected(p) == AuthorityMatches(p)

FinaliseRow(p, th) ==
    /\ At(p, th, "finalise")
    /\ IF EpochExpected(p) /\ MayFinalise(Op(p, th))
       THEN Finalise(Op(p, th)) /\ Goto(p, th, "pop")
       ELSE UNCHANGED rows /\ Leave(p, th)
    /\ UNCHANGED <<broker, dur, book, memop, otherProcess>>

BookUntouched(p) == resident

BookWithout(p) == resident \ {p}

WhateverIsThere(p, o) == TRUE

\* Only the instance is compared again, and the permission: another thread may
\* have popped it or withheld it, and a later trade may be in its place.
SameInstance(p, o) == p \in resident /\ pos[p].trade = rows[o].trade

Pop(p, th) ==
    /\ At(p, th, "pop")
    /\ resident' = IF SameInstance(p, Op(p, th)) /\ ManagementPermitted(p)
                   THEN BookWithout(p)
                   ELSE resident
    /\ Leave(p, th)
    /\ UNCHANGED <<broker, journal, pos, quar, withheld, memop, otherProcess>>

-----------------------------------------------------------------------------
\* run_reconciliation_once in its worker thread

FullyConfirmed == {o \in Ops : rows[o].st = "FULLY_CONFIRMED"}

\* _may_auto_fix_local lets the pass reach account_disappeared_broker_position: a
\* flat broker alone deletes nothing, and the one confirmed operation of the
\* instrument has to be this position's.  The trade stays flat, so the broker and
\* the journal are read in one step.
BrokerFlat(p) ==
    /\ "delete" \in Fixes
    /\ At(p, "reconciler", "idle")
    /\ held = 0
    /\ ManagementPermitted(p)
    /\ \E o \in Ops :
          /\ FullyConfirmed = {o}
          /\ thread' = [thread EXCEPT ![p]["reconciler"] = [Idle EXCEPT !.at = "delete", !.op = o]]
    /\ UNCHANGED <<broker, journal, book, memop, otherProcess>>

\* The broker's units differ from the book's.  A pass that read the broker
\* before start-up filled the book is left out.
UnitsDiffer(p) ==
    /\ "adjust" \in Fixes
    /\ At(p, "reconciler", "idle")
    /\ held # 0
    /\ ManagementPermitted(p)
    /\ held # pos[p].units
    /\ pos[p].gen < MaxGen
    /\ thread' = [thread EXCEPT ![p]["reconciler"] = 
                     [Idle EXCEPT !.at = "adjust", !.view = [trade |-> trade, units |-> held]]]
    /\ UNCHANGED <<broker, journal, book, memop, otherProcess>>

\* adjust_position_units_to_broker: the row may have left the book since.
NextGeneration(g) == g + 1

AdjustUnits(p) ==
    /\ At(p, "reconciler", "adjust")
    /\ pos' = IF ManagementPermitted(p)
              THEN [pos EXCEPT ![p].gen = NextGeneration(@),
                               ![p].units = thread[p]["reconciler"].view.units]
              ELSE pos
    /\ Leave(p, "reconciler")
    /\ UNCHANGED <<broker, journal, resident, quar, withheld, memop, otherProcess>>

-----------------------------------------------------------------------------
\* The broker: a close request is executed at most once, at any later time.  It
\* names an instrument, so it reduces the trade that is open by then.

BrokerFills(o) ==
    /\ wire[o] = "sent"
    /\ rows[o].units <= held
    /\ \E k \in 1 .. rows[o].units :
          /\ held' = held - k
          /\ fill' = [fill EXCEPT ![o][trade] = k]
          /\ closer' = IF held = k THEN [closer EXCEPT ![trade] = o] ELSE closer
    /\ wire' = [wire EXCEPT ![o] = "filled"]
    /\ UNCHANGED <<trade, journal, book, memop, thread, otherProcess>>

BrokerRejects(o) ==
    /\ wire[o] = "sent"
    /\ wire' = [wire EXCEPT ![o] = "rejected"]
    /\ UNCHANGED <<trade, held, fill, closer, journal, book, memop, thread, otherProcess>>

\* A stop or a target is hit, or someone reduces the trade by hand: a fill too.
BrokerReduces ==
    /\ \E k \in 1 .. held :
          /\ held' = held - k
          /\ fill' = [fill EXCEPT ![Elsewhere][trade] = k]
          /\ closer' = IF held = k THEN [closer EXCEPT ![trade] = Elsewhere] ELSE closer
    /\ UNCHANGED <<trade, wire, journal, book, memop, thread, otherProcess>>

-----------------------------------------------------------------------------
\* Crash or exit: the memory of the process is gone, the journal stays.
Exit(p) ==
    /\ ExitProcess(p)
    /\ thread' = [thread EXCEPT ![p] = Stopped]
    /\ pos' = [pos EXCEPT ![p] = NoPos]
    /\ resident' = resident \ {p}
    /\ quar' = [quar EXCEPT ![p] = {}]
    /\ withheld' = withheld \ {p}
    /\ memop' = [memop EXCEPT ![p] = NoMem]
    /\ scan' = [scan EXCEPT ![p] = NothingRead]
    /\ UNCHANGED <<broker, journal, verdict>>

-----------------------------------------------------------------------------
\* An operator session: it recovers on opening like any other session, then
\* reads a row and applies evidence or an observation to it.

OperatorOpens(s) ==
    /\ scan[s] = NothingRead
    /\ verdict[s] = NoMem
    /\ scan' = [scan EXCEPT ![s] = RecoverScan]
    /\ UNCHANGED <<broker, journal, book, memop, thread, authority, ep, rec, verdict>>

\* resolve_from_retrieved_transaction up to its mark; without usable evidence
\* it is note_recovery_observation, which writes the state it has read.
OperatorReads(s, o) ==
    /\ scan[s] = NothingRead
    /\ verdict[s] = NoMem
    /\ Blocking(o)
    /\ \/ verdict' = [verdict EXCEPT ![s] = [op |-> o, st |-> rows[o].st, tx |-> rows[o].tx]]
       \/ \E x \in Transactions :
            /\ fill[x][rows[o].trade] > 0
            /\ rows[o].tx \in {NoOp, x}
            /\ verdict' = [verdict EXCEPT ![s] = [op |-> o, st |-> Evidence(o, x), tx |-> x]]
    /\ UNCHANGED <<broker, journal, book, memop, thread, authority, ep, rec, scan>>

OperatorWrites(s) ==
    /\ verdict[s] # NoMem
    /\ Mark(verdict[s].op, verdict[s].st, verdict[s].tx)
    /\ verdict' = [verdict EXCEPT ![s] = NoMem]
    /\ UNCHANGED <<broker, dur, book, memop, thread, authority, ep, rec, scan>>

\* The tool ends early, or a mark of it meets the unique index.
OperatorQuits(s) ==
    /\ scan[s] # NothingRead \/ verdict[s] # NoMem
    /\ scan' = [scan EXCEPT ![s] = NothingRead]
    /\ verdict' = [verdict EXCEPT ![s] = NoMem]
    /\ UNCHANGED <<broker, journal, book, memop, thread, authority, ep, rec>>

-----------------------------------------------------------------------------
StartUp(p) ==
    \/ OpenJournal(p)
    \/ \E o \in Ops : RecoverRow(p, o) \/ RecoverCollides(p, o)
    \/ ClaimRun(p)
    \/ ClaimBlocked(p)
    \/ PublishRecovered(p)

Closing(p) ==
    \/ PersistPosition(p)
    \/ FindBlocker(p)
    \/ OrdersDisabled(p)
    \/ \E o \in Ops : ReserveRow(p, o)
    \/ CommitIntent(p)
    \/ IssuePermit(p)
    \/ JournalRefuses(p)
    \/ BeginSubmit(p)
    \/ CheckAuthority(p)
    \/ ClaimPermit(p)
    \/ ClaimRefused(p)
    \/ Recheck(p)
    \/ Send(p)
    \/ RequestFails(p)
    \/ Response(p)
    \/ Interpret(p)
    \/ Verify(p)
    \/ Persist(p)
    \/ PersistFails(p)

Deleting(p, th) == CheckDelete(p, th) \/ FinaliseRow(p, th) \/ Pop(p, th)

Reconciling(p) == BrokerFlat(p) \/ UnitsDiffer(p) \/ AdjustUnits(p)

Broker == BrokerReduces \/ \E o \in Ops : BrokerFills(o) \/ BrokerRejects(o)

OperatorStep(s) ==
    \/ OperatorOpens(s)
    \/ \E o \in Ops : RecoverRow(s, o) \/ OperatorReads(s, o)
    \/ OperatorWrites(s)
    \/ OperatorQuits(s)

Next ==
    \/ \E p \in Procs :
          \/ LoadBrokerView(p)
          \/ StartUp(p)
          \/ \E t \in Trades : NextTrade(p, t)
          \/ WithholdManagement(p)
          \/ StartClose(p)
          \/ Closing(p)
          \/ \E th \in Threads : Deleting(p, th)
          \/ Reconciling(p)
          \/ Exit(p)
    \/ Broker
    \/ \E s \in Operators : OperatorStep(s)

Spec == Init /\ [][Next]_vars

\* A close attempt is one coroutine with a bounded request, and a deletion or an
\* adjustment runs to its end: straight-line code.  That a pass comes to delete is
\* the loop's doing (every interval) where Fixes allows it at all, and the
\* environment's: it presumes a broker whose positions can be read again, for a
\* pass that cannot read them changes nothing.  Nothing makes the market trigger a
\* close, the broker answer a request, or anything crash or restart.
FairSpec ==
    /\ Spec
    /\ \A p \in Procs :
          /\ WF_vars(Closing(p))
          /\ \A th \in Threads : WF_vars(Deleting(p, th))
          /\ WF_vars(AdjustUnits(p))
          /\ WF_vars(BrokerFlat(p))

-----------------------------------------------------------------------------
Settled(o) == rows[o].st = "FINALISED" /\ Closed(rows[o].trade)

(* A request that may still be executed, or has been, is never forgotten:   *)
(* its row blocks the trade until the deletion of a closed trade is         *)
(* recorded, whatever was lost, late or marked twice (run_guarded_live_     *)
(* close, recover, resolve_from_retrieved_transaction).                     *)
OutstandingBlocks ==
    \A o \in Ops : wire[o] \in {"sent", "filled"} => Blocking(o) \/ Settled(o)

(* Two close requests for a trade are never open at the broker together,    *)
(* and none follows an executed one unless that one closed the trade, with  *)
(* a successor starting up while its predecessor still waits for an answer. *)
OneRequestOpen ==
    \A o, q \in Ops :
        /\ wire[o] = "sent"
        /\ wire[q] \in {"sent", "filled"}
        /\ rows[o].trade = rows[q].trade
        => o = q \/ (wire[q] = "filled" /\ Closed(rows[q].trade))

(* A close the journal calls confirmed or finalised is a trade the broker   *)
(* holds nothing of: partial fills, stops, hand-made reductions, adjusted    *)
(* units, and operator evidence taken from any of them never make it so      *)
(* while exposure is open (apply_transaction_body, mark, finalise).          *)
ConfirmedIsClosed ==
    \A o \in Ops : rows[o].st \in {"FULLY_CONFIRMED", "FINALISED"} => Closed(rows[o].trade)

(* No journal update of a close attempt meets the unique index, so the      *)
(* IntegrityError that mark does not handle, which would leave its          *)
(* transaction open, cannot leave _persist.                                 *)
MarkNeverCollides ==
    \A p \in Procs : Cycle(p, "mark") => MarkAdmitted(Current(p), memop[p].st)

Popped(p) == p \in resident /\ p \notin resident' /\ rec'[p] # "NOT_STARTED"

(* A live position leaves the book of a running process only when the       *)
(* broker holds nothing of it (close_confirmed_live_position).              *)
PopAfterClose == [][\A p \in Procs : Popped(p) => Closed(pos[p].trade)]_vars

(* While the broker holds the trade, a process in charge has it in its book *)
(* or in quarantine: no close attempt, race or restart loses it             *)
(* (execute_startup_sequence, close_confirmed_live_position).               *)
ExposureAccounted ==
    \A p \in Procs :
        held > 0 /\ LiveManagementPermitted(p)
            => (p \in resident /\ pos[p].trade = trade) \/ trade \in quar[p]

(* A deletion is recorded by the process in charge and by no other, though  *)
(* it was checked before another process took over (finalise).              *)
FinalisedInCharge ==
    [][\A o \in Ops : rows[o].st # "FINALISED" /\ rows'[o].st = "FINALISED"
           => \E p \in Procs, th \in Threads :
                 LiveManagementPermitted(p) /\ At(p, th, "finalise") /\ Op(p, th) = o]_vars

(* A close attempt comes to an end, whatever the broker does or does not    *)
(* answer (run_guarded_live_close).                                         *)
CloseAttemptEnds ==
    \A p \in Procs :
        thread[p]["cycle"].at \in CloseSteps \cup DeleteSteps
            ~> thread[p]["cycle"].at \in {"idle", "down"}

(* Where the settings let the reconciler delete, a confirmed close does not *)
(* keep its position in the book, though an operator session confirmed it   *)
(* and no cycle comes back to it: the position goes, unless the process is  *)
(* no longer in charge, its management of it is withheld, or a session      *)
(* marks the row from an older reading (account_disappeared_broker_position, *)
(* close_confirmed_live_position).                                          *)
ConfirmedCloseIsDeleted ==
    "delete" \in Fixes =>
        \A p \in Procs, o \in Ops :
            MayDelete(p, o) ~> \/ p \notin resident
                              \/ p \in withheld
                              \/ ~LiveManagementPermitted(p)
                              \/ rows[o].st \notin {"FULLY_CONFIRMED", "FINALISED"}

-----------------------------------------------------------------------------
(* What a document says of this code and a run refutes.                     *)

(* R73_OPERATIONAL_INTEGRATION: the operation is cleared after a permitted   *)
(* pop, so that the next trade of the instrument can be closed: what the     *)
(* process remembers belongs to the position in its book.                   *)
ClearedAfterPop ==
    \A p \in resident :
        MemBlocks(p) /\ memop[p].op # NoOp => rows[memop[p].op].trade = pos[p].trade
=============================================================================
