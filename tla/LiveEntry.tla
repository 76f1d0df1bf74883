----------------------------- MODULE LiveEntry -----------------------------
(***************************************************************************)
(* Live entries on one instrument, from the reservation of a client order  *)
(* id to the position in the book: production_execution_adapter, the       *)
(* submission of oanda_exec.py and record_entry_response over the entry    *)
(* journal (EntryJournal.tla), under the recovery fence (Fence.tla), with  *)
(* start-up recovery and the broker.                                       *)
(*                                                                         *)
(* A call of the adapter runs in a worker thread that outlives the cycle   *)
(* that awaits it, and the journal tells calls apart by client id only, so *)
(* several may be under way.  One action ends where another thread or      *)
(* process can interleave with an effect.                                  *)
(***************************************************************************)
EXTENDS EntryJournal, EntryEvidence, Fence, FiniteSets

CONSTANTS NoProc,      \* nobody runs the call
          NoId,        \* no client order id
          NoView       \* the broker snapshot could not be read

ASSUME OwnersAssumption == Owners = Procs /\ NoProc \notin Procs
ASSUME NoIdAssumption == NoId \notin Clients

VARIABLES order,       \* order[e]: the OrderCreate request of operation e
          call,        \* call[e]: the call that works for operation e
          start,       \* start[p]: where the start-up of process p stands
          view,        \* open trades the process saw before it claimed
          scan,        \* rows its recover_entry_operations has read, not yet written
          todo,        \* position rows its start-up has read, not yet placed
          book,        \* positions[instrument]: whose position it is
          flagged,     \* recovery_quarantine of that position
          quar         \* quarantined_positions

memory == <<view, todo, book, flagged, quar>>
vars == <<authority, ep, rec, entry, registry, managed, order, call,
          start, view, scan, todo, book, flagged, quar>>

-----------------------------------------------------------------------------
\* A step is named for what the call does next.
CallSteps == {"none", "commit_intent", "authorise", "claim", "recheck", "send", "await",
              "interpret", "commit", "publish", "assign", "mark", "lost", "done"}
StartSteps == {"down", "claim", "scan", "recover", "rebuild", "running"}

Call == [at : CallSteps, by : Procs \cup {NoProc}, id : Clients \cup {NoId},
         st : BodyStates]
NoCall == [at |-> "none", by |-> NoProc, id |-> NoId, st |-> "OUTCOME_AMBIGUOUS"]

NothingRead == [e \in Entries |-> NoRow]

(* The journal, the broker, and each process's book and calls hold values   *)
(* of the code's enumerations.                                              *)
TypeOK ==
    /\ FenceTypeOK
    /\ EntryTypeOK
    /\ order \in [Entries -> {"unsent", "sent", "closed"} \cup Executions]
    /\ call \in [Entries -> Call]
    /\ start \in [Procs -> StartSteps]
    /\ view \in [Procs -> (SUBSET Entries) \cup {NoView}]
    /\ scan \in [Procs -> [Entries -> EntryRow \cup {NoRow}]]
    /\ todo \in [Procs -> SUBSET Entries]
    /\ book \in [Procs -> Entries \cup {NoEntry}]
    /\ flagged \in [Procs -> BOOLEAN]
    /\ quar \in [Procs -> SUBSET Entries]

Init ==
    /\ FenceInit
    /\ EntryInit
    /\ order = [e \in Entries |-> "unsent"]
    /\ call = [e \in Entries |-> NoCall]
    /\ start = [p \in Procs |-> "down"]
    /\ view = [p \in Procs |-> NoView]
    /\ scan = [p \in Procs |-> NothingRead]
    /\ todo = [p \in Procs |-> {}]
    /\ book = [p \in Procs |-> NoEntry]
    /\ flagged = [p \in Procs |-> FALSE]
    /\ quar = [p \in Procs |-> {}]

-----------------------------------------------------------------------------
\* Helpers

At(e, step) == call[e].at = step
By(e) == call[e].by
Goto(e, step) == call' = [call EXCEPT ![e].at = step]
\* "lost": the call ended in an exception after it had committed the entry.
End(e) == call' = [call EXCEPT ![e].at = IF At(e, "mark") /\ e \in managed THEN "lost"
                                                                          ELSE "done",
                               ![e].st = NoCall.st]
MarkNext(e, st) == call' = [call EXCEPT ![e].at = "mark", ![e].st = st]

OpenTrades == {e \in Entries : order[e] \in {"opened", "partial", "several"}}

otherProcess == <<fenceVars, start, scan, memory>>

-----------------------------------------------------------------------------
\* The call: begin_entry_submission, then _place_market_order_open_sync

BeginEntry(p, e, c) ==
    /\ start[p] = "running"
    /\ At(e, "none")
    /\ ReserveEntry(p, e, c)
    /\ call' = [call EXCEPT ![e] = [NoCall EXCEPT !.at = "commit_intent",
                                                !.by = p, !.id = c]]
    /\ UNCHANGED <<order, otherProcess>>

CommitIntent(e) ==
    /\ At(e, "commit_intent")
    /\ CommitEntryIntent(By(e), e)
    /\ Goto(e, "authorise")
    /\ UNCHANGED <<order, otherProcess>>

\* live_management_permitted, before the claim and once more after the slot of
\* the rate limiter.  Live safety, the quote and the account may refuse too.
Authorise(e) ==
    /\ At(e, "authorise")
    /\ LiveManagementPermitted(By(e))
    /\ Goto(e, "claim")
    /\ UNCHANGED <<entryVars, order, otherProcess>>

ClaimPermit(e) ==
    /\ At(e, "claim")
    /\ ClaimEntryPermit(By(e), e)
    /\ Goto(e, "recheck")
    /\ UNCHANGED <<order, otherProcess>>

Recheck(e) ==
    /\ At(e, "recheck")
    /\ LiveManagementPermitted(By(e))
    /\ Goto(e, "send")
    /\ UNCHANGED <<entryVars, order, otherProcess>>

\* The call raises before the request: the row stays as it is.
Refused(e) ==
    /\ call[e].at \in {"commit_intent", "authorise", "claim", "recheck"}
    /\ End(e)
    /\ UNCHANGED <<entryVars, order, otherProcess>>

Send(e) ==
    /\ At(e, "send")
    /\ order' = [order EXCEPT ![e] = "sent"]
    /\ Goto(e, "await")
    /\ UNCHANGED <<entryVars, otherProcess>>

\* A timeout leaves the outcome open and says so.
Timeout(e) ==
    /\ At(e, "await")
    /\ MarkNext(e, "OUTCOME_AMBIGUOUS")
    /\ UNCHANGED <<entryVars, order, otherProcess>>

\* Any other transport error, or an answer that is no object: nothing is marked.
TransportError(e) ==
    /\ At(e, "await")
    /\ End(e)
    /\ UNCHANGED <<entryVars, order, otherProcess>>

Answer(e) ==
    /\ At(e, "await")
    /\ order[e] # "sent"
    /\ Goto(e, "interpret")
    /\ UNCHANGED <<entryVars, order, otherProcess>>

\* record_entry_response.  A trade closed since was opened by this order.
Executed(e) == IF order[e] = "closed" THEN "opened" ELSE order[e]

Interpret(e) ==
    /\ At(e, "interpret")
    /\ \E st \in Readings(Executed(e)) :
          IF st = "CONFIRMED_SINGLE_TRADE" THEN Goto(e, "commit") ELSE MarkNext(e, st)
    /\ UNCHANGED <<entryVars, order, otherProcess>>

\* The row has no stop or no target.
Unprotected(e) ==
    /\ At(e, "commit")
    /\ MarkNext(e, "RECONCILIATION_REQUIRED")
    /\ UNCHANGED <<entryVars, order, otherProcess>>

Commit(e) ==
    /\ At(e, "commit")
    /\ CommitVerifiedEntry(By(e), e)
    /\ Goto(e, "publish")
    /\ UNCHANGED <<order, otherProcess>>

\* The row is not finalisable any more, or the database refuses; and anything
\* that is raised between the commit and the book: capture_failed.
CaptureFails(e) ==
    /\ call[e].at \in {"interpret", "commit", "publish", "assign"}
    /\ MarkNext(e, "OUTCOME_AMBIGUOUS")
    /\ UNCHANGED <<entryVars, order, otherProcess>>

\* recovery_fence_allows_publication, which is read twice.
Publish(e) ==
    /\ At(e, "publish")
    /\ IF RecoveryFenceAllowsPublication(By(e)) THEN Goto(e, "assign") ELSE End(e)
    /\ UNCHANGED <<entryVars, order, otherProcess>>

SlotIgnored(p, e) == TRUE

SlotFree(p, e) == book[p] \in {NoEntry, e}

\* Under _book_lock: another position in the slot is flagged and stays.
Assign(e) ==
    LET p == By(e) IN
    /\ At(e, "assign")
    /\ IF SlotFree(p, e)
       THEN /\ book' = [book EXCEPT ![p] = e]
            /\ flagged' = [flagged EXCEPT ![p] = FALSE]
       ELSE /\ flagged' = [flagged EXCEPT ![p] = TRUE]
            /\ UNCHANGED book
    /\ End(e)
    /\ UNCHANGED <<entryVars, order, fenceVars, start, view, scan, todo, quar>>

Mark(e) ==
    /\ At(e, "mark")
    /\ MarkEntry(e, call[e].st)
    /\ End(e)
    /\ UNCHANGED <<order, otherProcess>>

\* The journal is unavailable: the exception leaves with the row as it is.
MarkFails(e) ==
    /\ At(e, "mark")
    /\ End(e)
    /\ UNCHANGED <<entryVars, order, otherProcess>>

-----------------------------------------------------------------------------
\* Start-up: load_startup_broker_view, then execute_startup_sequence

StartSequence(p) ==
    /\ start[p] = "down"
    /\ authority < MaxEpoch
    /\ BeginRecovery(p)
    /\ \E v \in {OpenTrades, NoView} : view' = [view EXCEPT ![p] = v]
    /\ start' = [start EXCEPT ![p] = "claim"]
    /\ UNCHANGED <<entryVars, order, call, scan, todo, book, flagged, quar>>

ClaimRun(p) ==
    /\ start[p] = "claim"
    /\ ClaimEpoch(p)
    /\ start' = [start EXCEPT ![p] = "scan"]
    /\ UNCHANGED <<entryVars, order, call, scan, memory>>

\* recover_entry_operations: one SELECT ...
ReadEntries(p) ==
    /\ start[p] = "scan"
    /\ scan' = [scan EXCEPT ![p] =
                   [e \in Entries |-> IF RecoverRewrites(entry[e]) THEN entry[e] ELSE NoRow]]
    /\ start' = [start EXCEPT ![p] = "recover"]
    /\ UNCHANGED <<entryVars, fenceVars, order, call, memory>>

\* ... and a transaction for each row it found.
RewriteEntry(p, e) ==
    /\ scan[p][e] # NoRow
    /\ RecoverEntry(e, scan[p][e])
    /\ scan' = [scan EXCEPT ![p][e] = NoRow]
    /\ UNCHANGED <<fenceVars, order, call, start, memory>>

\* The book is cleared and the position rows are read.
ReadPositions(p) ==
    /\ start[p] = "recover"
    /\ scan[p] = NothingRead
    /\ view[p] # NoView
    /\ RecoveryFenceAllowsPublication(p)
    /\ todo' = [todo EXCEPT ![p] = managed]
    /\ book' = [book EXCEPT ![p] = NoEntry]
    /\ quar' = [quar EXCEPT ![p] = {}]
    /\ start' = [start EXCEPT ![p] = "rebuild"]
    /\ UNCHANGED <<entryVars, fenceVars, order, call, scan, view, flagged>>

\* What the entries say of the row.  unresolved_entry_for returns any one
\* unresolved row of the instrument, and a rejected one hides the others.
EntryAgrees(e) ==
    /\ entry[e] # NoRow
    /\ \/ entry[e].st = "FINALISED"
       \/ \E f \in Entries : entry[f].st = "REJECTED_CONFIRMED"

\* evaluate_durable_row: the one trade of the view is the position's.
ViewAgrees(p, e) == view[p] = {e}

QuarantineForgotten(p, e) ==
    /\ e \in todo[p]
    /\ UNCHANGED <<book, quar>>

\* publish_recovered; the fence is read for each row.  A row is also quarantined
\* when its protection columns are incomplete or a close of it is open
\* (LiveClose), so it may always be.
Place(p, e) ==
    /\ e \in todo[p]
    /\ RecoveryFenceAllowsPublication(p)
    /\ \/ /\ quar' = [quar EXCEPT ![p] = @ \cup {e}]
          /\ UNCHANGED book
       \/ /\ EntryAgrees(e)
          /\ ViewAgrees(p, e)
          /\ SlotFree(p, e)
          /\ book' = [book EXCEPT ![p] = e]
          /\ UNCHANGED quar

PlacePosition(p, e) ==
    /\ Place(p, e)
    /\ todo' = [todo EXCEPT ![p] = @ \ {e}]
    /\ UNCHANGED <<entryVars, fenceVars, order, call, start, scan, view, flagged>>

Forget(p) ==
    /\ scan' = [scan EXCEPT ![p] = NothingRead]
    /\ todo' = [todo EXCEPT ![p] = {}]
    /\ view' = [view EXCEPT ![p] = NoView]

FinishStartup(p) ==
    /\ start[p] = "rebuild"
    /\ todo[p] = {}
    /\ CompleteRecovery(p)
    /\ start' = [start EXCEPT ![p] = "running"]
    /\ Forget(p)
    /\ UNCHANGED <<entryVars, order, call, book, flagged, quar>>

\* The claim is refused, the snapshot is unusable, or the journal fails.
StartupBlocked(p) ==
    /\ start[p] \in {"claim", "scan", "recover", "rebuild"}
    /\ BlockRecovery(p)
    /\ start' = [start EXCEPT ![p] = "running"]
    /\ Forget(p)
    /\ UNCHANGED <<entryVars, order, call, book, flagged, quar>>

\* A process exits or crashes, and every call it runs with it.
Exit(p) ==
    /\ ExitProcess(p)
    /\ start' = [start EXCEPT ![p] = "down"]
    /\ Forget(p)
    /\ call' = [e \in Entries |->
                   IF By(e) = p THEN [call[e] EXCEPT !.at = "done", !.st = NoCall.st]
                                ELSE call[e]]
    /\ book' = [book EXCEPT ![p] = NoEntry]
    /\ flagged' = [flagged EXCEPT ![p] = FALSE]
    /\ quar' = [quar EXCEPT ![p] = {}]
    /\ UNCHANGED <<entryVars, order>>

-----------------------------------------------------------------------------
\* The broker, the operator, and the close path

BrokerExecutes(e) ==
    /\ order[e] = "sent"
    /\ \E x \in Executions : order' = [order EXCEPT ![e] = x]
    /\ UNCHANGED <<entryVars, fenceVars, call, start, scan, memory>>

\* A stop, a target, a manual order, or the guarded close.
BrokerCloses(e) ==
    /\ order[e] = "opened"
    /\ order' = [order EXCEPT ![e] = "closed"]
    /\ UNCHANGED <<entryVars, fenceVars, call, start, scan, memory>>

\* close_confirmed_live_position (LiveClose): a flagged position is not managed.
DeleteClosed(p) ==
    /\ book[p] # NoEntry
    /\ order[book[p]] = "closed"
    /\ ~flagged[p]
    /\ LiveManagementPermitted(p)
    /\ book' = [book EXCEPT ![p] = NoEntry]
    /\ UNCHANGED <<entryVars, fenceVars, order, call, start, scan, view, todo, flagged, quar>>

Archive(e) ==
    /\ ArchiveEntry(e)
    /\ UNCHANGED <<order, call, otherProcess>>

-----------------------------------------------------------------------------
Submitting(e) ==
    \/ CommitIntent(e)
    \/ Authorise(e)
    \/ ClaimPermit(e)
    \/ Recheck(e)
    \/ Refused(e)
    \/ Send(e)

Capturing(e) ==
    \/ Timeout(e)
    \/ TransportError(e)
    \/ Answer(e)
    \/ Interpret(e)
    \/ Unprotected(e)
    \/ Commit(e)
    \/ CaptureFails(e)
    \/ Publish(e)
    \/ Assign(e)
    \/ Mark(e)
    \/ MarkFails(e)

StartUp(p) ==
    \/ StartSequence(p)
    \/ ClaimRun(p)
    \/ ReadEntries(p)
    \/ \E e \in Entries : RewriteEntry(p, e) \/ PlacePosition(p, e)
    \/ ReadPositions(p)
    \/ FinishStartup(p)
    \/ StartupBlocked(p)

Next ==
    \/ \E e \in Entries :
          \/ \E p \in Procs, c \in Clients : BeginEntry(p, e, c)
          \/ Submitting(e)
          \/ Capturing(e)
          \/ BrokerExecutes(e)
          \/ BrokerCloses(e)
          \/ Archive(e)
    \/ \E p \in Procs : StartUp(p) \/ Exit(p) \/ DeleteClosed(p)

Spec == Init /\ [][Next]_vars

-----------------------------------------------------------------------------
(* The broker gets at most one order for a client order id, whatever was    *)
(* retried under the same id by another call, another process or a restart, *)
(* before or after the row was archived (begin_entry_submission).           *)
OneOrderPerClientId ==
    \A e, f \in Entries :
        order[e] # "unsent" /\ order[f] # "unsent" /\ call[e].id = call[f].id => e = f

(* An order that was sent is never forgotten: until it turns into a durable *)
(* position its row stays unresolved, and it is called rejected only when   *)
(* the broker rejected it - timeouts, lost or faulty answers, crashes and a *)
(* second process included (mark_entry, recover_entry_operations).          *)
OrderNeverForgotten ==
    \A e \in Entries :
        /\ order[e] # "unsent"
        /\ e \notin managed
        => /\ entry[e] # NoRow
           /\ entry[e].st = "REJECTED_CONFIRMED" => order[e] = "rejected"

(* A durable position is a trade the broker opened in full, as one trade,   *)
(* for this order: no partial fill, several trades, or body with one wrong  *)
(* part becomes one (classify_entry_response, commit_verified_entry).       *)
ManagedIsOpened == \A e \in managed : order[e] \in {"opened", "closed"}

(* A process in charge has every position its calls captured, in this life  *)
(* or an earlier one: in the book, in quarantine, or kept out by a position *)
(* that is flagged.  Only an exception between the commit and the book      *)
(* loses one, until the next start-up (record_entry_response,               *)
(* execute_startup_sequence).                                               *)
CapturedIsAccounted ==
    \A e \in managed :
        /\ At(e, "done")
        /\ order[e] = "opened"
        /\ LiveManagementPermitted(By(e))
        => book[By(e)] = e \/ e \in quar[By(e)] \/ flagged[By(e)]

(* A position never takes the place of another one in the book of a running *)
(* process, though several entries of the instrument may be captured at     *)
(* once (record_entry_response, publish_recovered).                         *)
SlotNeverTaken ==
    [][\A p \in Procs : book[p] # NoEntry => book'[p] \in {book[p], NoEntry}]_vars

(* Once an entry is committed, only a recovery that read its row before     *)
(* relabels it; no late mark of its own call does (mark_entry).             *)
RelabelledByRecoveryOnly ==
    [][\A e \in Entries :
          entry[e].st = "FINALISED" /\ entry'[e] \notin {entry[e], NoRow}
              => \E p \in Procs : scan[p][e] # NoRow]_vars

\* The orders that went to the broker under client order id c.
SentUnder(c) == {e \in Entries : order[e] # "unsent" /\ call[e].id = c}

Guard == INSTANCE EntryGuard WITH
            Orders  <- Entries,
            sent    <- [c \in Clients |-> SentUnder(c)],
            fate    <- order,
            durable <- managed

(* The entry path implements EntryGuard.tla: under one client order id one  *)
(* order is sent in all, and a position becomes durable only after the      *)
(* broker opened all of it as one trade, for good (begin_entry_submission,  *)
(* record_entry_response).                                                  *)
ImplementsEntryGuard == Guard!GuardSpec

-----------------------------------------------------------------------------
(* What the documents say of this code and a run refutes.                   *)

(* recover_entry_operations does not rewrite ENTRY_FINALISED: a durable    *)
(* position keeps a finalised operation until that row is archived.         *)
RecoverKeepsFinalised ==
    \A e \in managed : entry[e] = NoRow \/ entry[e].st = "FINALISED"
=============================================================================
