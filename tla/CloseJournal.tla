---------------------------- MODULE CloseJournal ----------------------------
(***************************************************************************)
(* The close_operations table of forex_bot/close_journal.py and the        *)
(* transactions that change it.  Every action is one SQLite transaction,   *)
(* issued by some session (a bot process, an operator tool) that has the   *)
(* journal file open; nothing is assumed about the order of the calls.     *)
(*                                                                         *)
(* A row is reduced to what the transactions compare: the trade, the       *)
(* generation and units of the position it was reserved for,               *)
(* confirmation_state without its CLOSE_ prefix, submission_intent,        *)
(* network_permit, the session that holds owner_token, and the broker      *)
(* transaction in transaction_ids.  submission_state is SENDING exactly    *)
(* while the row is SUBMITTING without a permit, and confirmed units are   *)
(* those of the confirmation state.                                        *)
(***************************************************************************)
EXTENDS Naturals

CONSTANTS Ops,        \* operation ids that can be reserved
          Trades,     \* broker trades
          Sessions,   \* holders of an open journal connection
          Transactions, \* broker transactions an operation can be tied to
          NoOp,       \* no operation, no transaction
          NoSession

VARIABLE rows         \* rows[o]: the row of operation o, or NoRow

NoRow == [st |-> "ABSENT"]

ASSUME NoOpAssumption == NoOp \notin Ops \cup Transactions
ASSUME NoSessionAssumption == NoSession \notin Sessions

Resolved == {"REJECTED_CONFIRMED", "FINALISED"}

Unsettled == {"PREPARED", "SUBMITTING", "RESPONSE_RECEIVED", "CONFIRMATION_PENDING",
              "PARTIALLY_CONFIRMED", "FULLY_CONFIRMED", "OUTCOME_AMBIGUOUS",
              "RECONCILIATION_REQUIRED"}

ConfirmationStates == Resolved \cup Unsettled

Row == [trade : Trades, gen : Nat, units : Nat, st : ConfirmationStates,
        intent : BOOLEAN, permit : BOOLEAN,
        owner : Sessions \cup {NoSession}, tx : Transactions \cup {NoOp}]

(* A row of close_operations has the columns of its table: a confirmation   *)
(* state of the enumeration, and an owner only among the sessions.         *)
JournalTypeOK == rows \in [Ops -> Row \cup {NoRow}]

-----------------------------------------------------------------------------
\* WHERE confirmation_state NOT IN ('CLOSE_REJECTED_CONFIRMED', 'CLOSE_FINALISED')
Blocking(o) == rows[o].st \in Unsettled

UnresolvedOn(t) == {o \in Ops : Blocking(o) /\ rows[o].trade = t}

\* blocking_trade
BlockingTrade(t) == UnresolvedOn(t) # {}

\* Altered forms, for the mutation runs only: each is a plausible mistake in
\* the definition that follows it.
IndexMissing(o, t) == TRUE

\* The partial unique index one_unresolved_close admits a row of trade t for o.
IndexAdmits(o, t) == UnresolvedOn(t) \subseteq {o}

PreparedRow(t, g, u) ==
    [trade |-> t, gen |-> g, units |-> u, st |-> "PREPARED",
     intent |-> FALSE, permit |-> FALSE, owner |-> NoSession, tx |-> NoOp]

\* _authorized_locked: the token still stands for an unclaimed intent.
SubmissionAuthorized(s, o) ==
    /\ rows[o].st = "SUBMITTING"
    /\ rows[o].intent
    /\ ~rows[o].permit
    /\ rows[o].owner = s

-----------------------------------------------------------------------------
\* bootstrap_journal: an empty table, or one blocking row for each trade the
\* operator declared as already open.
BootstrapBlocker(t) == [PreparedRow(t, 1, 0) EXCEPT !.st = "RECONCILIATION_REQUIRED"]

JournalInit ==
    /\ rows \in [Ops -> {NoRow} \cup {BootstrapBlocker(t) : t \in Trades}]
    /\ \A o, q \in Ops : Blocking(o) /\ Blocking(q) /\ rows[o].trade = rows[q].trade => o = q

Reserve(o, t, g, u) ==
    /\ rows[o] = NoRow
    /\ IndexAdmits(o, t)
    /\ rows' = [rows EXCEPT ![o] = PreparedRow(t, g, u)]

CommitSubmissionIntent(s, o) ==
    /\ rows[o].st = "PREPARED"
    /\ ~rows[o].intent
    /\ rows' = [rows EXCEPT ![o].intent = TRUE,
                            ![o].owner = s,
                            ![o].st = "SUBMITTING"]

ClaimWithoutIntent(s, o) == rows[o].st \in {"PREPARED", "SUBMITTING"} /\ ~rows[o].permit

MayClaim(s, o) == SubmissionAuthorized(s, o)

ClaimNetworkPermit(s, o) ==
    /\ MayClaim(s, o)
    /\ rows' = [rows EXCEPT ![o].permit = TRUE]

\* mark: an UPDATE by operation_id alone.  Only the unique index can refuse it.
\* tx is what the caller passes: transaction ids it read, learnt, or none.
MarkAdmitted(o, st) == st \in Unsettled => IndexAdmits(o, rows[o].trade)

Mark(o, st, tx) ==
    /\ rows[o] # NoRow
    /\ MarkAdmitted(o, st)
    /\ rows' = [rows EXCEPT ![o].st = st, ![o].tx = tx]

MayFinalise(o) == rows[o].st = "FULLY_CONFIRMED"

FinaliseAsDeleted(o) ==
    /\ MayFinalise(o)
    /\ rows' = [rows EXCEPT ![o].st = "DELETED"]

Finalise(o) ==
    /\ MayFinalise(o)
    /\ rows' = [rows EXCEPT ![o].st = "FINALISED"]

-----------------------------------------------------------------------------
\* recover: what the row a session has read makes it write, if anything.
CrashStates == {"SUBMITTING", "RESPONSE_RECEIVED", "CONFIRMATION_PENDING", "PREPARED"}

UnansweredIsRejected(row) ==
    IF row.st = "SUBMITTING" THEN "REJECTED_CONFIRMED" ELSE row.st

RecoveredState(row) ==
    IF ~row.intent /\ row.st = "PREPARED"      THEN "RECONCILIATION_REQUIRED"
    ELSE IF row.intent /\ row.st \in CrashStates THEN "OUTCOME_AMBIGUOUS"
    ELSE row.st

RecoverWrites(row) ==
    row.st \in CrashStates \cup {"PARTIALLY_CONFIRMED", "FULLY_CONFIRMED"}

RecoveredTx(row) == IF ~row.intent /\ row.st = "PREPARED" THEN NoOp ELSE row.tx

-----------------------------------------------------------------------------
JournalNext ==
    \E o \in Ops :
        \/ \E t \in Trades, g, u \in {1} : Reserve(o, t, g, u)
        \/ \E s \in Sessions : CommitSubmissionIntent(s, o) \/ ClaimNetworkPermit(s, o)
        \/ \E st \in ConfirmationStates, tx \in Transactions \cup {NoOp} : Mark(o, st, tx)
        \/ Finalise(o)

JournalSpec == JournalInit /\ [][JournalNext]_rows

-----------------------------------------------------------------------------
(* The unique index holds through marks that ignore the current state.      *)
OneUnresolvedPerTrade ==
    \A o, q \in Ops : Blocking(o) /\ Blocking(q) /\ rows[o].trade = rows[q].trade => o = q

Claimed == {o \in Ops : rows[o] # NoRow /\ rows[o].permit}

OpenClaims == [t \in Trades |-> UnresolvedOn(t) \cap Claimed]

G == INSTANCE CloseGuard WITH open <- OpenClaims, used <- Claimed

(* The right to contact the broker is granted once per operation and to one *)
(* operation of a trade at a time, in whatever order sessions reserve,      *)
(* commit, claim, mark and finalise (claim_network_permit, mark).           *)
ImplementsGuard == G!GuardSpec

(* A claimed row carries a committed intent and the session that committed  *)
(* it, whatever stale marks have been written in between                    *)
(* (submission_intent, owner_token).                                        *)
ClaimHasIntent ==
    \A o \in Claimed : rows[o].intent /\ rows[o].owner \in Sessions
=============================================================================
