---------------------------- MODULE EntryJournal ----------------------------
(***************************************************************************)
(* The entry_operations and client_order_id_registry tables of             *)
(* forex_bot/entry_journal.py, with the rows of managed_positions that an  *)
(* entry creates.  Every action is one SQLite transaction; the session     *)
(* that issues it holds the permit of the operation where the transaction  *)
(* compares owner_token, and nothing is assumed about the order of calls.  *)
(*                                                                         *)
(* An operation has one position instance, so the operation names it.      *)
(* ENTRY_SENT is listed by the code and written by nothing.                *)
(***************************************************************************)
EXTENDS Naturals

CONSTANTS Entries,    \* operation ids; uuid4, so none is used twice
          Clients,    \* client order ids, in canonical form
          Owners,     \* processes that can hold a permit
          NoEntry     \* no operation

VARIABLES entry,      \* entry[e]: the row of operation e, or NoRow
          registry,   \* registry[c]: the operation that registered client id c
          managed     \* operations with a row in managed_positions

ASSUME NoEntryAssumption == NoEntry \notin Entries

entryVars == <<entry, registry, managed>>

NoRow == [st |-> "ABSENT"]

\* classify_entry_response: what a broker body can be read as.
BodyStates == {"CONFIRMED_SINGLE_TRADE", "CONFIRMED_MULTIPLE_TRADES", "REJECTED_CONFIRMED",
               "PARTIAL_OR_MIXED_EFFECT", "OUTCOME_AMBIGUOUS", "EVIDENCE_CONFLICT",
               "RECONCILIATION_REQUIRED"}

Outcomes == BodyStates \cup {"RESERVED", "SUBMITTING", "FINALISED"}

EntryRow == [client : Clients, owner : Owners, intent : BOOLEAN, permit : BOOLEAN,
             st : Outcomes]

(* The tables have the columns and values of their schema.                  *)
EntryTypeOK ==
    /\ entry \in [Entries -> EntryRow \cup {NoRow}]
    /\ registry \in [Clients -> Entries \cup {NoEntry}]
    /\ managed \in SUBSET Entries

-----------------------------------------------------------------------------
\* Altered forms, for the mutation runs only: each is a plausible mistake in
\* the definition that follows it.
IdOfNoEntry(c) == \A e \in Entries : entry[e] # NoRow => entry[e].client # c

\* The client id has no row, and no tombstone an archived row left behind.
IdUnused(c) ==
    /\ \A e \in Entries : entry[e] # NoRow => entry[e].client # c
    /\ registry[c] = NoEntry

\* A uuid4 that no earlier operation had.
Fresh(e) == entry[e] = NoRow /\ \A c \in Clients : registry[c] # e

EntryInit ==
    /\ entry = [e \in Entries |-> NoRow]
    /\ registry = [c \in Clients |-> NoEntry]
    /\ managed = {}

\* begin_entry_submission, first transaction.
ReserveEntry(p, e, c) ==
    /\ Fresh(e)
    /\ IdUnused(c)
    /\ entry' = [entry EXCEPT ![e] = [client |-> c, owner |-> p, intent |-> FALSE,
                                      permit |-> FALSE, st |-> "RESERVED"]]
    /\ registry' = [registry EXCEPT ![c] = e]
    /\ UNCHANGED managed

\* begin_entry_submission, second transaction.
CommitEntryIntent(p, e) ==
    /\ entry[e].st = "RESERVED"
    /\ entry[e].owner = p
    /\ ~entry[e].intent
    /\ entry' = [entry EXCEPT ![e].intent = TRUE, ![e].st = "SUBMITTING"]
    /\ UNCHANGED <<registry, managed>>

ClaimableBy(p, e) ==
    /\ entry[e].st = "SUBMITTING"
    /\ entry[e].owner = p
    /\ entry[e].intent
    /\ ~entry[e].permit

ClaimEntryPermit(p, e) ==
    /\ ClaimableBy(p, e)
    /\ entry' = [entry EXCEPT ![e].permit = TRUE]
    /\ UNCHANGED <<registry, managed>>

AlwaysMarkable(e) == TRUE

\* mark_entry leaves a finalised row alone.
Markable(e) == entry[e].st # "FINALISED"

MarkEntry(e, st) ==
    /\ entry[e] # NoRow
    /\ entry' = IF Markable(e) THEN [entry EXCEPT ![e].st = st] ELSE entry
    /\ UNCHANGED <<registry, managed>>

Finalisable(e) == entry[e].st \in {"SUBMITTING", "CONFIRMED_SINGLE_TRADE"}

FinaliseBeforePosition(p, e) ==
    /\ Finalisable(e)
    /\ entry[e].owner = p
    /\ entry' = [entry EXCEPT ![e].st = "FINALISED"]
    /\ UNCHANGED <<managed, registry>>

\* commit_verified_entry: the position row and the outcome in one transaction.
\* Of a finalised operation it only checks that the position is there.
CommitVerifiedEntry(p, e) ==
    /\ Finalisable(e)
    /\ entry[e].owner = p
    /\ entry' = [entry EXCEPT ![e].st = "FINALISED"]
    /\ managed' = managed \cup {e}
    /\ UNCHANGED registry

ArchiveFreesId(e) ==
    /\ entry[e].st = "FINALISED"
    /\ entry' = [entry EXCEPT ![e] = NoRow]
    /\ registry' = [registry EXCEPT ![entry[e].client] = NoEntry]
    /\ UNCHANGED managed

\* archive_finalised_client_id: the row goes, the registry stays.
ArchiveEntry(e) ==
    /\ entry[e].st = "FINALISED"
    /\ registry[entry[e].client] # NoEntry
    /\ entry' = [entry EXCEPT ![e] = NoRow]
    /\ UNCHANGED <<registry, managed>>

-----------------------------------------------------------------------------
\* recover_entry_operations: what a row that was read makes it write, if anything.
RecoverRewrites(row) ==
    \/ row.st = "RESERVED"
    \/ row.st = "SUBMITTING" /\ row.intent

RecoveredAsSent(row) == IF row.intent THEN "SENT" ELSE "RECONCILIATION_REQUIRED"

RecoveredOutcome(row) ==
    IF row.intent THEN "OUTCOME_AMBIGUOUS" ELSE "RECONCILIATION_REQUIRED"

\* The UPDATE names the operation id and nothing else.
RecoverEntry(e, row) ==
    /\ entry' = IF entry[e] = NoRow THEN entry
                ELSE [entry EXCEPT ![e].st = RecoveredOutcome(row)]
    /\ UNCHANGED <<registry, managed>>

-----------------------------------------------------------------------------
EntryNext ==
    \E e \in Entries :
        \/ \E p \in Owners :
              \/ \E c \in Clients : ReserveEntry(p, e, c)
              \/ CommitEntryIntent(p, e)
              \/ ClaimEntryPermit(p, e)
              \/ CommitVerifiedEntry(p, e)
        \/ \E st \in BodyStates : MarkEntry(e, st)
        \/ ArchiveEntry(e)
        \/ \E row \in EntryRow : RecoverRewrites(row) /\ RecoverEntry(e, row)

EntrySpec == EntryInit /\ [][EntryNext]_entryVars

-----------------------------------------------------------------------------
(* A finalised entry has its position row, in whatever order marks, stale   *)
(* recoveries and finalisations are written: capture_gaps never has a       *)
(* finalised_without_position to report (commit_verified_entry).            *)
FinalisedIsManaged == \A e \in Entries : entry[e].st = "FINALISED" => e \in managed
=============================================================================
