# Verification of the live-order paths of forex_bot

The repository is an automated FX trading bot (`src/forex_bot`, about 27,000
lines of Python): signals and an ensemble decide entries, orders go to OANDA
over REST, and a SQLite trade journal, a start-up recovery with a fencing
epoch, and a reconciler keep what the bot believes in step with what the broker
holds. The part that is hard to get right, and that the repository documents
phase by phase (`data/research/adaptive_ensemble/r72` to `r84`), is what happens
to a *live* position when requests time out, processes die and overlap, and
somebody else touches the trade. This project models that part first: how a
live position is closed, how it comes into being, what protects it while it is
open, and how an order of the loop is kept from being placed twice.

Line references are to files of `src/forex_bot` unless they say otherwise.

## 1. Inventory

| Component | State | Operations | Talks to |
|---|---|---|---|
| Start-up recovery and fence (`startup_recovery`, `recovery_owner_lock`, `recovery_repair`) | lock file; `recovery_authority.fencing_epoch`; `recovery_runs`; `_state` and `_fencing_epoch` of the process | `execute_startup_sequence`, `_claim_run`, `_finish_run`, `live_management_permitted`, `repair_abandoned_recovery` | journal database, broker view, book |
| Close journal (`close_journal`) | table `close_operations`, partial unique index `one_unresolved_close` | `reserve`, `commit_submission_intent`, `issue_submission_permit`, `claim_network_permit`, `mark`, `finalise`, `recover`, bootstrap | every session that opens the file: bots, operator tools |
| Guarded close (`broker_close_evidence`, half of `oanda_exec`) | `_operations` (one operation per instrument, in memory) | `run_guarded_live_close`, `_submit_position_close_body`, `apply_transaction_body`, `resolve_from_retrieved_transaction` | journal, broker, book |
| Book of live positions (`positions`, `position_recovery`) | `positions`, `quarantined_positions`; table `managed_positions` | `close_confirmed_live_position`, `adjust_position_units_to_broker`, `persist_bot_position`, `evaluate_durable_row` | journal, reconciler, trading loop |
| Reconciler (`reconciliation`, `broker_exit`) | last snapshot, entry gate | `run_reconciliation_once` in a worker thread, every `RECONCILE_INTERVAL_SEC` | broker, book, journal |
| Entry journal (`entry_journal`, `entry_capture`, evidence, investigation) | table `entry_operations` | begin, claim, mark, verified finalisation, recover | journal database, broker, book |
| Order registry and database (`orders`, `database`, `state`) | table `exec_orders`; per process `orders_by_client_id`, three holds per instrument, a fail-closed latch | `try_begin_order_submission`, `insert_exec_order_pending_if_absent`, `finalize_order_fill`, `mark_order_failed_or_cancelled`, `ingest_recovery_snapshot` | trading loop, reconciler |
| Live safety (`live_safety`, preflight, `operational_state`) | authorisation document, kill switch | authorise, revoke, check | entries only |
| Profit protection (`profit_protection`, `position_recovery`, management branch of `bot_loop`) | protection columns of `managed_positions` and of the `Position` object | `apply_profit_protection`, `persist_protection_progress`, `protection_close_allowed`, `evaluate_durable_row` | book, journal, broker |
| OANDA client, rate limiter | slots of a minute, HTTP session | request with timeout, acquire | broker |
| Trading loop, application, Telegram | tasks, settings | one cycle per interval, commands | everything above |
| Reports, strategies, research | none that trading reads back | pure computation | - |

Interactions that make this hard:

* **Two threads of one process share a position.** The trading loop runs
  `run_guarded_live_close` as a coroutine whose network calls run in threads;
  the reconciler runs in another (`app.py:158`). Both may delete or adjust it.
* **Two processes may run at once.** A restart may overlap with its
  predecessor. Only the fencing epoch in the database separates them; a check
  of it and the action after it are not one step.
* **The broker answers late, never, or after the exception.** A timeout says
  nothing of the order. Stops, targets and manual orders change the trade at
  any time.
* **A crash can fall between any two commits,** and `recover()` runs in *every*
  session that opens the journal, also while another one is closing.
* **An operator applies evidence** to an operation through the same journal.

What must hold, per component: authority is exclusive and never returns to a
fenced process (fence); the right to send is granted once per operation and for
one operation of a trade at a time (journal); an unanswered request blocks its
trade until its outcome is known, and "confirmed" means closed (close path); an
open position is in the book or in quarantine of whoever is in charge, and
leaves the book only when it is closed (book, reconciler); a client order id
buys one order, an order that was sent is not forgotten, and only a trade opened
in full becomes a position (entries); an instrument never has two orders that may
hold exposure, whatever failed or restarted (order registry); what a managed
position decides on is durable, its ratchet never loosens, and protective closes
keep their distance (profit protection). For the components not modelled: no
order without a current authorisation (safety).

`PROJECT.json` lists every component with its status and every hazard at its
line.

## 2. Modules

```
Fence  <---- implements ---- RecoveryFence          CloseGuard <-- implements -- CloseJournal
  ^                                                                                  ^
  |                                                                                  |
  +------------------------------- extends -- LiveClose -- extends ------------------+
                                                  |
                       its operator Evidence <----+---- CloseEvidence (the body behind it)

EntryJournal, EntryEvidence, Fence  <---- extends ---- LiveEntry -- implements --> EntryGuard
                                                       (and EntryJournal's EntrySpec)

ExposureGuard  <---- implements ---- OrderRegistry                 Protection
```

**Fence.tla** - the abstract fence: one durable epoch, the epoch each process
remembers, the recovery state of each process. A claim advances the epoch and
is allowed only when nobody is in the middle of a claimed recovery.
`RECOVERY_COMPLETED_WITH_QUARANTINE` is merged with `RECOVERY_COMPLETED`: both
are acceptable and no caller of the fence distinguishes them.

**RecoveryFence.tla** - what the code does: `execute_startup_sequence` as
separate steps for the state, the journal, the lock file, the claim transaction
(epoch and run row together), the publication after a second reading of the
fence, the commit that closes the run row, and the release of the lock. Every
step can fail as the code fails: the lock is held, the run row is refused by the
unique index (`one_recovery_in_progress`), `JournalUnavailable` escapes the
claim (the state stays `RECOVERY_IN_PROGRESS` for the life of the process), the
final commit raises and leaves row and lock behind. The claim fails in two ways:
inside its transaction, and then the lock is released first (`ClaimFails`,
`startup_recovery.py:198-207`); or at the `BEGIN`, which stands before the `try`
(`BeginFails`, :165), and then nothing releases it: the process lives on, and the
lock falls only when the interpreter finalises the file object
(`HandleFinalised`, on which nothing relies). A process may exit at every
step. The repair tool takes the lock, is told a run observed earlier, and
releases it only if that run is open and its owner is dead. `phase` names the
place in the function; `OwnerAlive` is `owner_process_status` (PID and start
time), which the model reads as "the process that claimed still lives".

**CloseGuard.tla / CloseJournal.tla** - the promise and the table. Each action
of CloseJournal is one SQLite transaction; `JournalNext` lets sessions issue
them in any order, stale marks included, because `mark` is an UPDATE by
`operation_id` alone. A row keeps what the transactions compare; units, fill
prices and texts are left to LiveClose or left out. The journal may start with
bootstrap blockers.

**LiveClose.tla** - the composition: the live positions of one instrument, one
after the other, at the broker, the
processes with a management cycle and a reconciler thread each, operator
sessions, the broker. A step of a thread is named for what it does next, so
`thread[p]["cycle"].at = "claim"` is a coroutine about to call
`claim_network_permit`. The correspondence:

| LiveClose | Code |
|---|---|
| `LoadBrokerView`, `OpenJournal`, `RecoverRow`, `RecoverCollides`, `ClaimRun`, `ClaimBlocked`, `PublishRecovered` | the broker view read before the journal; `active_journal` with `recover()` as one read and one later transaction per row; claim; `evaluate_durable_row` and the rebuilt book |
| `StartClose` to `IssuePermit`, `OrdersDisabled`, `JournalRefuses` | `run_guarded_live_close` up to its permit |
| `BeginSubmit` to `Send` | the three checks of authority, the permit and the request (`oanda_exec.py:401-469`) |
| `Response`, `RequestFails`, `Interpret`, `Verify` | the classification of the answer |
| `Persist`, `PersistFails` | `_persist`: the mark, or a journal error that is swallowed |
| `CheckDelete`, `FinaliseRow`, `Pop` | `close_confirmed_live_position`, from the cycle or from the reconciler |
| `NextTrade` | a later entry on the instrument, as one step; its gate is `symbol_has_quarantined_exposure` and the empty slot |
| `WithholdManagement` | the protection progress of the position could not be made durable (`bot_loop.py:881-893`): `recovery_quarantine` is set, and `position_management_permitted` refuses every close, deletion and adjustment until a restart |
| `BrokerFlat`, `UnitsDiffer`, `AdjustUnits` | the two reactions of a reconciliation pass to a managed position, where the settings allow them: `Fixes` has `"delete"` for `RECONCILE_ACTION=auto_fix` and `"adjust"` for `RECONCILE_ADJUST_UNITS` with it |
| `BrokerFills`, `BrokerRejects`, `BrokerReduces` | the broker: a request is executed at most once, at any later time, perhaps in part; a stop or a manual order |
| `OperatorOpens`, `OperatorReads`, `OperatorWrites`, `OperatorQuits` | a tool: recovery on open, then a verdict from a row it has read and a fill it has retrieved, written later |
| `Exit` | the memory of a process is gone, the journal stays |

**CloseEvidence.tla** - the body of an order fill as `apply_transaction_body`
reads it, against the broker's own book: which trades an order closed, which
one it reduced, what it opened. With a single trade `BookVerdict` is the
operator `Evidence` that LiveClose uses.

**EntryGuard.tla** - the promise of the entry path as a whole, in terms of orders
only: which were sent under a client id, what the broker made of each, which have
a durable position. LiveEntry maps its `order`, the client ids of its calls and
`managed` to it.

**EntryJournal.tla** - `entry_operations`, the client-id registry and the rows
of `managed_positions` an entry creates; one action per SQLite transaction, as
in CloseJournal. `EntrySpec` lets them come in any order, with any row that
recovery may have read. `Owners` stands for the token of a permit.

**EntryEvidence.tla** - `classify_entry_response`, on a body reduced to what it
compares, and the bodies an order can be answered with: the true one, and each
with one part wrong or missing.

**LiveEntry.tla** - the composition: processes with several calls of the adapter
under way, start-up recovery with its reads and writes apart, the broker.

| LiveEntry | Code |
|---|---|
| `BeginEntry`, `CommitIntent` | the two transactions of `begin_entry_submission` |
| `Authorise`, `ClaimPermit`, `Recheck`, `Refused`, `Send` | `_submit_order_create`, with its checks before and after the permit |
| `Timeout`, `TransportError`, `Answer` | how the request may end: only a timeout is marked |
| `Interpret`, `Unprotected`, `Commit`, `CaptureFails` | `record_entry_response` up to the commit, and the `except` around it |
| `Publish`, `Assign` | the fence, then the book under its lock; an occupied slot flags the position that holds it |
| `Mark`, `MarkFails` | `mark_entry`, or an exception |
| `ReadEntries`, `RewriteEntry` | `recover_entry_operations`: one read, one transaction per row |
| `ReadPositions`, `PlacePosition`, `FinishStartup`, `StartupBlocked` | the rebuilding of the book |
| `BrokerExecutes`, `BrokerCloses`, `DeleteClosed`, `Archive`, `Exit` | the environment, and the close path as LiveEntry sees it |

A call that ended in an exception after its commit stops at `lost`: nothing
assigns that position before the next start-up.

**ExposureGuard.tla / OrderRegistry.tla** - the promise and the registry. Each
process has its memory (`order`, the holds `blocking`, `unresolved` and
`exposure`, the latch) and shares the table `row` with the others; `request` is
what the broker knows.

| OrderRegistry | Code |
|---|---|
| `Start`, `StartUnreadable`, `Crash` | `load_open_orders_from_db_into_memory`, or the latch of a snapshot that cannot be read |
| `Reserve`, `ReserveBlocked`, `ReserveFails`, `NoConnection` | `try_begin_order_submission` over `insert_exec_order_pending_if_absent`, one transaction under the advisory lock of the instrument; a failed commit may have been applied |
| `Withdraw`, `Withheld`, `Submit` | an order that is given up before the request, one that no simulation adapter may take, and the request |
| `Rejected`, `Accepted`, `Held`, `Filled` | how the loop files the answer: cancelled, pending at the broker, unresolved, filled with a synthetic position; each write may fail |
| `ReadPending`, `CancelAbsent`, `ImportPending` | `_reconcile_pending_orders` in the reconciler's thread, its reading apart from its writing |
| `ClosePosition`, `BrokerDecides` | the local position goes; the broker executes or refuses, answered or not |

At this commit only the simulation adapter submits from this path.

**Protection.tla** - the protection of one position: the columns of the row, the
object of each process, and the cycle between them.

| Protection | Code |
|---|---|
| `Evaluate`, `EvaluateUnpriced` | excursion, activation and ratchet from a quote (`apply_profit_protection`); a quote that is missing |
| `CheckRow`, `WriteRow`, `WriteRowFails`, `NotDurable` | `persist_protection_progress`: the comparison with a row read first, the write in a transaction of its own, and the quarantine of a position whose progress is not durable |
| `Decide`, `PersistPosition`, `Submit`, `SubmitRefused`, `Answer` | the hit, the retry interval, and the guarded close as far as the protection sees it |
| `Start`, `Crash`, `Settle`, `Tick` | recovery of the row (`evaluate_durable_row`), process exit, a later resolution of the close, the clock |

**MCCloseJournal.tla, MCLiveClose.tla, MCLiveEntry.tla, MCOrderRegistry.tla** -
symmetry for TLC. RecoveryFence, CloseEvidence and Protection are checked as they
are.

**Fence_proofs, RecoveryFence_proofs, CloseJournal_proofs, LiveClose_proofs,
CloseEvidence_proofs, LiveEntry_proofs, OrderRegistry_proofs, Protection_proofs** -
see section 5.

Definitions that say they are an altered form of the one after them (for example
`AnyFillConfirms` before `Evidence`) are plausible mistakes. No module uses
them; put in the place of the definition they precede, they make the run that
checks the property fail, which shows that the property depends on that code.

## 3. Runs

| Run | Instance | What it shows |
|---|---|---|
| `startup` | three processes, four epochs, liveness | authority is exclusive; only the owner of an open run can have it; a recovery is never overtaken; fenced stays fenced; the protocol implements `Fence`; every start-up ends; the lock file is given up, except by a process that lives on after its final commit failed or after the `BEGIN` of its claim was refused |
| `journal` | three operations on one trade, two sessions, one transaction id | the table implements `CloseGuard`, stale marks and all; a claimed row rests on a committed intent |
| `close` | one process with restarts, one operator session, one trade, three operations, two units, two generations | an outstanding request blocks its trade until a closed trade is recorded; confirmed means closed; open exposure stays in book or quarantine |
| `close_race` | two processes, two trades one after the other, two operations, two units, two epochs | a successor recovers and takes over in the middle of a close: no two requests for a trade are open together, no mark of a close meets the unique index, only the process in charge records a deletion; the book loses only what is closed, also when a deletion comes so late that the next trade is in the slot |
| `close_progress` | one process with a restart, one operator session, one trade, two operations, two units, one generation, a reconciler that may delete; fairness | a close attempt ends whatever the broker does; where `RECONCILE_ACTION=auto_fix`, a confirmed close, the operator's included, leaves the book of a process that stays in charge and is permitted to manage it |
| `evidence` | two trades, two units, every report and every single fault | a true report is read as what happened; no single fault makes a full close of anything else |
| `entries` | two processes, two operations, two client ids, two epochs | a client id gets one order; an order that was sent is not forgotten and not called rejected wrongly; only a trade opened in full becomes a position; the process in charge accounts for what its calls captured; the slot of the book is never taken over; only a stale recovery relabels a committed entry; the path implements `EntryGuard` |
| `orders` | two processes, one instrument, three client ids | an order that may hold exposure keeps a blocking row, and a hold in every process that knows of it; an id is submitted once and the instrument never has two such orders |
| `protection` | one process, three pips, three epochs, four ticks | what a managed position decides on is durable; the durable ratchet never loosens; protective closes are the retry interval apart, across a crash |
| `doc_finalised`, `doc_ratchet`, `doc_cleared` | small | sentences of the documentation that the code does not satisfy (section 6) |

### Bounds and why they suffice

* `MaxEpoch` bounds the number of claims and repairs. `close` uses two, a process
  and one restart of it (a crash before a claim costs no epoch), and so do
  `close_race`, a predecessor and its successor, and `close_progress`; the four in
  `startup` are a predecessor, its successor, a restart of either and a repair
  between them. `close_race` with three epochs, so that either may come back,
  passes as well (2,159,919 states) and takes longer than a run should; its
  theorems hold for any number.
* `Ops`: an operation is one attempt. Two are needed for one to block another;
  the third in `close` allows an attempt after a rejection and one after that.
* `Units = 2` distinguishes nothing, a part, and all of the position, before and
  after an adjustment. A unit stands for a lot larger than the tolerance of the
  reconciler, so any difference is one the reconciler sees.
* `MaxGen`: the reconciler's adjustment advances the generation; two are enough
  for an attempt to hold an old one. `close_race` keeps one, since it is about the
  other process, and so does `close_progress`, in which a thread that holds an old
  generation ends like one whose position is gone.
* `Fixes = {"delete", "adjust"}` in every run: the reconciler may do all that a
  setting can allow it. Less only takes steps away, which no safety property
  minds; for the one liveness property that does, see the fairness below. The
  theorems hold for every value.
* One trade in `close` and `close_progress`, two in `close_race`: the index is per
  trade, the slot of the book and the in-memory operation are per instrument, so
  two in succession are what can meet. A third would meet the second as the
  second meets the first.
* `orders`: one instrument, since a reservation, a hold and a latch of one
  instrument never read another's; the theorems hold for any number. Three client
  ids are an order, its competitor, and the one that gets the instrument after
  either has let go; an id may come again at any time.
* `protection`: pips and ticks are enough for a ratchet to rise twice above the
  trigger and for two closes; the theorems hold for any bounds.
* `entries`: two operations meet in one slot, or compete for one client id; two
  epochs are a predecessor and its successor, or a process and its restart. The
  same instance with three epochs (2,007,047 states) passes as well. `Requested`
  is two units, so that a part can be filled; the theorems hold for any size.
* `evidence` was also run once with three trades and three units
  (355,746 states) without a difference.

Symmetry is used in safety runs only: operations, processes (or sessions) and
trades are interchangeable. Deadlock checking is off where the system really may
stop: all processes have exited or all epochs are used.

### Fairness

`startup` assumes weak fairness of `Progress(p)` and of the repair tool's own
steps: both are straight-line code without a wait. Nothing is assumed about a
failure, an exit, anybody starting either of them, or the finaliser that would
close the lock file after a refused `BEGIN`.

`close_progress` assumes weak fairness of

* a close attempt (`Closing`): the HTTP client's timeouts (`oanda_client.py:88`,
  15 s to connect and to read) make an unanswered request raise;
* a deletion and an adjustment that have begun (`Deleting`, `AdjustUnits`):
  straight-line code;
* a pass that comes to delete (`BrokerFlat`). This one is not the code's alone. The
  loop of `app.py:158-170` comes back after an interval whatever a pass raised, but
  a pass deletes only under `_may_auto_fix_local` (`reconciliation.py:512-530`, 679),
  which is false at the default `RECONCILE_ACTION=log_only` (203-205,
  `.env.example:61`), and only if the broker's positions could be read (841). The
  first condition is the premise of the property (`"delete" \in Fixes`), the second
  an assumption about the environment.

Without the first condition `ConfirmedCloseIsDeleted` is false, and TLC shows it
with `Fixes = {}` and the premise removed, in 15 steps: an operation is reserved and
goes no further, a stop closes the trade, an operator applies that fill as evidence,
so the row is fully confirmed; no pass deletes, and the position stays in the book
until a cycle comes to close it again, which nothing makes happen. With the default
settings the code promises no more than that. A position whose management has been
withheld (`WithholdManagement`) is kept until the next start, whatever the
settings; the property says so.

Not assumed: that the market triggers a close, that the broker answers, that
anything crashes, restarts, or that an operator acts. A position that start-up has
quarantined stays there; the code leaves it to the operator and no property says
otherwise.

## 4. What the models leave out

* `PublishRecovered` is one step: the start-up sequence clears the book and
  fills it in one synchronous function. The reconciliation task is created before
  it (`app.py:630-633`; the sequence runs inside `run_bot`), so a pass in its
  worker thread may see the book half filled, or may have read the broker before
  the book was filled and act afterwards. It cannot delete: that takes a completed
  recovery. It may adjust units on an old reading.
* `_max_fixes_per_cycle` (50 by default) defers fixes to the next pass; with one
  instrument there is never more than one.
* A close request names an instrument and units. One that the broker executes
  after another trade has been opened reduces that trade; the model lets it
  (`BrokerFills`) and no property promises otherwise.
* In OrderRegistry, the offline store, `PERSIST_EXEC_ORDERS=0`, and functions no
  caller reaches (`read_durable_recovery`, `remember_ambiguous_outcome`, the code
  after `bot_loop.py:1205`).
* In Protection, how the giveback comes from the ATR (one of a set), exits other
  than protection and weekend, and the reservation and permit of a close, which
  LiveClose has. The comparison tolerance of 1e-12 has no counterpart in whole pips. An
  activation snapshot that fails (`profit_protection.py:580`, 682) is logged and
  ignored and leaves the ATR of the activation NULL, as the fallback giveback does;
  only the latter is shown.
* Bootstrap blockers and unresolved entries in LiveClose (they are in
  CloseJournal): its position comes from an entry that has been finalised.
* Several trades in one position: the code refuses to close those before it
  reserves anything (`broker_close_evidence.py:755`).
* Broker transactions other than the fills of close operations are kept as the
  last one only (`Elsewhere`); an operator can apply it like any other.
* A repair of the epoch in LiveClose: it is in RecoveryFence, and `Fence` shows
  what it does to authority.
* In CloseEvidence, account, instrument and transaction id match; the code
  compares them for equality first. A body that lists a reduced trade as closed,
  or names another trade, is a lie the three numbers cannot reveal and is not
  among the faults.
* Two of the three readings of the fence before an order, and of the two before
  the book, are merged: the last one decides, and nothing between them changes
  state.
* `ENTRY_SENT` and `ENTRY_CONFIRMED_SINGLE_TRADE` are names no statement writes
  as an outcome; they appear only in the sets the code compares with.
* LiveEntry starts at the adapter. At this commit no producer seals a decision as
  eligible for production, so the loop itself never reaches it.
* What a reconciler makes of a trade that the process in charge does not know: a
  predecessor that commits an entry after its successor has read the position
  rows leaves one, until the next start-up (`startup_recovery.py:285`).
* Database errors other than the ones shown as refusals. After a mark meets the
  unique index, `_mark_locked` does not handle the `IntegrityError` and leaves its
  transaction open; the model stops that session there (`RecoverCollides`,
  `OperatorQuits`) and checks that no close attempt gets there
  (`MarkNeverCollides`).

**A limit of `MarkNeverCollides`.** It is proved for any number of processes without
an operator session. With two processes *and* an
operator it fails, in 32 steps: the operator resolves the first operation to a
full close; the predecessor's reconciler finalises it while the predecessor's
cycle still holds an unwritten mark; the successor, whose broker view was read
before its claim, publishes the closed trade as managed and reserves a second
operation; then the late mark brings the first one back and meets the index.
That instance takes longer than a run should and is recorded as a hazard instead
(`startup_recovery.py:47`, `close_journal.py:597`).

**And of `OneRequestOpen`.** It is proved for any number of processes and operators
as long as every operator applies the operation's own fill. Applying another is what
breaks it, with two processes and an operator, in a trace of
37 states with one trade: the predecessor sends a close; before the broker gets to
it a stop closes the trade; the operator applies that fill as evidence, so the operation is
fully confirmed; the predecessor's reconciler finalises it; the successor, whose
broker view was read before its claim, publishes the closed trade as managed, finds
no blocking row, and sends a second close while the first is still unanswered. Both
name a trade that is gone. Each step is one the code takes: the view is not read
again after the claim, and `apply_transaction_body` asks that the transaction
closed the trade in full, not that the operation's request caused it.

## 5. Proofs

TLAPS checks the following for *every* value of the constants; TLC has checked
the same formulas, and the inductive invariants, on the instances above. Every
safety property of a passing run is stated by a theorem here. Assumptions are
the named ones of the modules: the bounds are natural numbers, the lock's other
holders are not processes, the "none" values are not members, `Fixes` is one of its three values, an account has
finitely many trades. What a theorem needs beyond them (`Operators = {}`,
`OneProcess`) is written in its statement.

**Fence_proofs.** `FenceInv`: remembered epochs are at most the current one and
two processes never remember the same. `FenceAtMostOne` and `FenceStaysFenced`
follow.

**RecoveryFence_proofs.** Mutual exclusion is not inductive: it depends on what
each phase knows. `IInv` adds `PhaseInv` (what phase, state and epoch say of each
other), `LockInv` (from the lock to its release the process is the holder),
`EpochInv` (epochs are unique and not from the future), `CurrentInv` (from its
claim to the end of the sequence a process is current: nobody else can claim
without the lock, and a repair needs it too) and `RunInv` (at most one open run,
with the current epoch; a process that remembers that epoch is its owner and
still holds the lock). From it: `StartupTypeOK`, `StartupMutualExclusion`,
`StartupOnlyOwner`, `StartupNeverOvertaken`, `StartupStaysFenced`, and
`StartupImplementsFence`: every step is a step of `Fence` or a stutter.

**CloseJournal_proofs.** `JournalInv` is type correctness, one unresolved row
per trade, and an intent under every permit. The second is what the partial
unique index gives each transaction; it is needed because a mark may bring a
resolved operation back. From it `JournalTypeCorrect`, `JournalClaimHasIntent`,
and `JournalImplementsGuard`: each transaction grants, resolves or reopens the
claim of its own trade, and a claim is granted only when the trade has none.

**LiveEntry_proofs.** The first part is about the journal alone: `EntryInv` is type
correctness and `FinalisedIsManaged`, and every transaction keeps it, since only the
one that writes the position writes `ENTRY_FINALISED`, and a recovery writes neither
that outcome nor a position (`EntryTypeCorrect`, `EntryFinalisedIsManaged`). The
composition comes next. `LiveInv` ties the call, the order and the row together.
`Linked`: a call that began registered its client id, and the registry never
passes one on; hence `LiveOneOrderPerClientId`. `Tracked`: what each step of a
call says of the order - before `send` there is none, at `commit` it opened one
trade in full - which needs `ReadingFacts`: among the bodies with at most one
wrong part, only those of a full single opening read as a single trade, and only
those of a rejection as a rejection.
`ScanHolds`: recovery holds only rows it has to rewrite. Each step keeps `LiveInv`
and is a transaction of the journal or none (`LiveStep`), which gives
`LiveImplementsJournal`, and from it `LiveFinalisedIsManaged`;
`LiveOrderNeverForgotten`, `LiveManagedIsOpened` and
`LiveRelabelledByRecoveryOnly` follow from `LiveInv`. So does
`LiveImplementsEntryGuard`: `Send` is the only step that adds to the orders of a
client id, and `Linked` says that no other operation ever had that id; `Commit` is
the only one that makes a position durable, and `Tracked` says what the broker had
done by then; every other step is a stutter of the guard. `LiveSlotNeverTaken` needs
only the type of the book. `AccountInv` is about the memory of the processes:
`MemoryInv` (a flagged slot is occupied; a process that is still rebuilding its book
is not in charge yet) and `CaptureInv` (a call that has captured a position runs in a
process that is up and has not filled the slot with it; the position it captured is
among the rows being placed, in the book, in quarantine, or kept out by a flagged one). From it `LiveEntryTypeCorrect` and
`LiveCapturedIsAccounted`. `LiveEntryImplementsFence` shows that the entries, too,
keep the promises of `Fence`. Assumed: the "none" values
are not members, `Owners = Procs`, the order has at least two units.

**OrderRegistry_proofs.** `RegInv` says, for every client id, what the request at
the broker, the row, and the call that is under way know of each other: an id is
sent only by the call that reserved it, a row that lets go belongs to an order
that was never sent or was refused, and an order in memory has its row and, if it
may hold exposure, its hold. `OneBlocker` adds that an instrument has at most one
row that blocks it: a reservation sees every committed one, under the lock. From it `RegistryTypes`, `RegistryDurable`,
`RegistryHeld` and `RegistryImplementsGuard`. No bound is assumed.

**Protection_proofs.** `ProtInv` relates the memory of the position, the row and
the place in the cycle: outside `check` and `write` they agree or the position is
quarantined, within them the memory is not lower than the row, and the row carries
the attempt of the last close that was sent. `ProtectionTypes` holds for any
processes; `ProtectionDurable`, `ProtectionRatchetHolds` and
`ProtectionClosesSpaced` assume one process (`OneProcess`), and `doc_ratchet`
shows that this is needed.

**LiveClose_proofs.** None of the close path's properties is inductive: what is
written to the journal, the book or the memory was decided several steps earlier,
from what a thread had read. `LiveInv` says for each of them that what was true when
it was read has not stopped being so.
`PlaceInv` says what the place of a thread tells of the book, `CallInv` what that of
a close attempt tells of its operation (until `send`, nothing was sent; a confirmed
verdict belongs to a closed trade), `DeleteInv` that a deletion past its checks
concerns a closed trade, `OneCaller` that two processes never drive one operation.
`ScanInv` and `VerdictInv` say the same of the rows a recovery has read and of the
verdict an operator holds; `RowInv` that a row which lets go of its trade belongs to
a request that was refused or to a trade that is closed; `TradeInv` that the last
trade is open exactly while the broker holds units. All of them rest on facts that
only move one way: a row keeps its trade, a closed trade stays closed, a refused
request stays refused (`RowsGrow`, `ClosedStays`, `RejectedStays`). The journal's
lemmas give `JournalInv` and the fence's `EpochsUnique` in every step.
From `LiveInv`: `LiveTypeCorrect`, `LiveOutstandingBlocks`, `LiveConfirmedIsClosed`,
`LiveExposureAccounted`, and `LivePopAfterClose`. `LiveImplementsGuard` and
`LiveImplementsFence` show that the composition keeps the promises of `CloseGuard`
and of `Fence`, whose steps it interleaves with the broker's and the operators'.
`LiveFinalisedInCharge` needs one more invariant, `ChargeInv`: a thread stands at
`finalise` only in a process that has completed its own recovery and has an epoch;
whether that epoch is still the current one, the transaction itself compares.
`LiveOneRequestOpenOwnFills` is about the behaviours in which every verdict of an
operator rests on the operation's own fill or on an observation (`OwnFills`); the
hypothesis is needed (section 4), and `LiveOneRequestOpen` is its case without an
operator. It needs `FilledInv`: a row is confirmed, read as confirmed by a recovery,
about to be confirmed by an attempt, or confirmed in an operator's verdict, only when
its own request was executed, and only an executed request has a fill. So an
unanswered request is never finalised, its row blocks the trade
(`OutstandingBlocks`), and the index leaves no room for a second one.
`LiveMarkNeverCollides` assumes that there is no operator session
(`Operators = {}`); an operator that applies own fills only can already break it
(section 4). It is about the time between the
reservation of an operation and the last mark of its attempt. `DriveInv` says that in
all of it the row is undecided and that no recovery has read it as confirmed: only
the attempt's own marks decide the row (`RowDriven`), one process drives it
(`OneCaller`), and a recovery leaves undecided what it found undecided. An undecided
row keeps its place in the unique index, so no mark of the attempt can find that
place taken.

**CloseEvidence_proofs.** `EvidenceInv` is the type of the broker's book, what an
intact body says of it (`TrueReport`), and `FaultNeverConfirms` itself.
`EvidenceMatchesBook` computes the verdict of a true report: its rows are those of
the closed trades in some order and of at most one reduced trade, so the units that
match are what the fill took of the requested trade and the others are what it took
elsewhere. `EvidenceFaultNeverConfirms` goes through the faults one by one. The
argument is the same for each: a body is confirmed only when the fill, the rows and
the opened part agree; one fault leaves two of the three as they were, and these show
what else the fill did (`OthersWhole`, `OtherShows`). Sums over a finite set of trades
have no induction principle that the installed provers can instantiate; the lemmas
`SumExists` and `SumSplits` take a smallest set for which the statement fails
(`LeastSubset`) and show that it does not exist.

**Only model-checked.** Liveness under fairness (`StartupDecides` and
`LockGivenUp` in `startup`, `CloseAttemptEnds` and `ConfirmedCloseIsDeleted` in
`close_progress`), which this prover cannot reach; the same holds for ENABLED, of
which nothing is stated. `OneRequestOpen` with an operator that applies another
fill, and `MarkNeverCollides` with any operator session, are neither proved nor true
(section 4).

## 6. Where code and documentation disagree

* **`doc_finalised`** - "`recover_entry_operations` does not rewrite
  `ENTRY_FINALISED`": it does when the entry is finalised between its read and its
  write, by a predecessor whose commit is not fenced. The position stays durable;
  its operation becomes ambiguous, and a later start-up quarantines it.

* **`doc_ratchet`** - "A lower durable ratchet is refused": the row is compared
  before the transaction that writes, and the write is not fenced. A predecessor
  that compared first overwrites the higher ratchet of its successor. With one
  process it holds, which is proved.
* **`doc_cleared`** - "After a permitted live pop, the operation is cleared":
  `clear_confirmed_operation` has no caller. The confirmed operation of the old
  trade answers every attempt to close the next one in the same process.

Three more were met while modelling; they are of the same kind as the ones above
or a matter of wording, and no run repeats them:

* `close_journal.finalise` says it records the deletion "only after the
  identity-bound pop has succeeded" (`close_journal.py:602`);
  `close_confirmed_live_position` finalises the row (`positions.py:204`) and pops
  after. In LiveClose this is the order of `FinaliseRow` and `Pop`.
* r74/R74_RESTART_RECOVERY.md promises that recovery keeps a full confirmation.
  `recover()` reads its rows once and writes each in a later transaction, so a tool
  that opens the journal during a close can write `CLOSE_OUTCOME_AMBIGUOUS` over a
  confirmation recorded in between (the twin of `doc_finalised`). The trade stays
  blocked (`OutstandingBlocks`), so nothing is sent twice.
* r74/R74_CRASH_WINDOW_ANALYSIS.md says a marked response keeps its state; the
  code rewrites it to `CLOSE_OUTCOME_AMBIGUOUS`. "And does not submit again", in
  the same sentence, holds.

## 7. Plan

1. **Done:** Fence, RecoveryFence, CloseGuard, CloseJournal, LiveClose with a
   second trade, CloseEvidence; EntryGuard, EntryJournal, EntryEvidence, LiveEntry;
   ExposureGuard, OrderRegistry; Protection; with the proofs of section 5.
2. **Live safety:** the fail-closed authorisation document and its writes.
3. **Reconciler:** snapshot freshness and the entry gate, broker exits.
4. **Rate limiter:** the slots of a minute under several threads.
5. **Proofs:** the safety properties of these modules.
