-------------------------- MODULE LiveEntry_proofs --------------------------
(* Proofs about the entry journal and about live entries, for any           *)
(* processes, operations and client ids: first what the transactions of the *)
(* journal keep in any order, then the call and the threads that run them.  *)
EXTENDS LiveEntry, Fence_proofs

-----------------------------------------------------------------------------
\* The entry journal alone.

EntryInv == EntryTypeOK /\ FinalisedIsManaged

(* A row in any state but ABSENT is a row of the schema.                    *)
LEMMA EntryRowFacts ==
    ASSUME EntryTypeOK, NEW e \in Entries
    PROVE  /\ entry[e] \in EntryRow \/ entry[e] = NoRow
           /\ entry[e].st \in Outcomes => entry[e] \in EntryRow
BY DEF EntryTypeOK, NoRow, Outcomes, BodyStates

(* The fresh tables satisfy the invariant.                                  *)
LEMMA InitEntryInv == EntryInit => EntryInv
BY DEF EntryInit, EntryInv, EntryTypeOK, FinalisedIsManaged, NoRow

(* A row written over another keeps the invariant when the table knows its  *)
(* position once it is finalised.                                           *)
LEMMA WriteEntryInv ==
    ASSUME EntryInv, NEW e \in Entries, NEW r \in EntryRow,
           entry' = [entry EXCEPT ![e] = r],
           registry' \in [Clients -> Entries \cup {NoEntry}],
           managed \subseteq managed', managed' \in SUBSET Entries,
           r.st = "FINALISED" => e \in managed'
    PROVE  EntryInv'
<1>1. \A f \in Entries : entry'[f] = IF f = e THEN r ELSE entry[f]
  BY DEF EntryInv, EntryTypeOK
<1>2. EntryTypeOK'
  BY DEF EntryInv, EntryTypeOK
<1>3. FinalisedIsManaged'
  BY <1>1 DEF EntryInv, FinalisedIsManaged
<1> QED
  BY <1>2, <1>3 DEF EntryInv

(* Reserving a client order id (begin_entry_submission).                    *)
LEMMA ReserveEntryInv ==
    ASSUME EntryInv, NEW e \in Entries, NEW p \in Owners, NEW c \in Clients,
           ReserveEntry(p, e, c)
    PROVE  EntryInv'
<1> DEFINE r == [client |-> c, owner |-> p, intent |-> FALSE, permit |-> FALSE,
                 st |-> "RESERVED"]
<1>1. r \in EntryRow /\ r.st # "FINALISED"
  BY DEF EntryRow, Outcomes
<1>2. registry' \in [Clients -> Entries \cup {NoEntry}] /\ managed' = managed
  BY DEF ReserveEntry, EntryInv, EntryTypeOK
<1>3. entry' = [entry EXCEPT ![e] = r]
  BY DEF ReserveEntry
<1> HIDE DEF r
<1> QED
  BY <1>1, <1>2, <1>3, WriteEntryInv DEF EntryInv, EntryTypeOK

(* Changing the state of a row of the schema.                               *)
LEMMA SetStateInv ==
    ASSUME EntryInv, NEW e \in Entries, entry[e] \in EntryRow, NEW st \in Outcomes,
           entry' = [entry EXCEPT ![e].st = st],
           registry' = registry, managed \subseteq managed', managed' \in SUBSET Entries,
           st = "FINALISED" => e \in managed'
    PROVE  EntryInv'
<1> DEFINE r == [entry[e] EXCEPT !.st = st]
<1>1. r \in EntryRow /\ r.st = st
  BY DEF EntryRow
<1>2. entry' = [entry EXCEPT ![e] = r]
  BY DEF EntryInv, EntryTypeOK
<1>3. registry' \in [Clients -> Entries \cup {NoEntry}]
  BY DEF EntryInv, EntryTypeOK
<1> HIDE DEF r
<1> QED
  BY <1>1, <1>2, <1>3, WriteEntryInv

(* Committing the intent and claiming the permit of a row.                  *)
LEMMA PermitInv ==
    ASSUME EntryInv, NEW e \in Entries, NEW p \in Owners,
           CommitEntryIntent(p, e) \/ ClaimEntryPermit(p, e)
    PROVE  EntryInv'
<1>1. entry[e] \in EntryRow /\ registry' = registry /\ managed' = managed
  BY EntryRowFacts
     DEF CommitEntryIntent, ClaimEntryPermit, ClaimableBy, EntryInv, Outcomes
<1>2. registry' \in [Clients -> Entries \cup {NoEntry}] /\ managed' \in SUBSET Entries
  BY <1>1 DEF EntryInv, EntryTypeOK
<1>3. CASE CommitEntryIntent(p, e)
  <2> DEFINE r == [entry[e] EXCEPT !.intent = TRUE, !.st = "SUBMITTING"]
  <2>1. r \in EntryRow /\ r.st # "FINALISED"
    BY <1>1 DEF EntryRow, Outcomes
  <2>2. entry' = [entry EXCEPT ![e] = r]
    BY <1>1, <1>3 DEF CommitEntryIntent, EntryInv, EntryTypeOK
  <2> HIDE DEF r
  <2> QED
    BY <1>1, <1>2, <2>1, <2>2, WriteEntryInv
<1>4. CASE ClaimEntryPermit(p, e)
  <2> DEFINE r == [entry[e] EXCEPT !.permit = TRUE]
  <2>1. r \in EntryRow /\ r.st # "FINALISED"
    BY <1>1, <1>4 DEF EntryRow, ClaimEntryPermit, ClaimableBy
  <2>2. entry' = [entry EXCEPT ![e] = r]
    BY <1>1, <1>4 DEF ClaimEntryPermit, EntryInv, EntryTypeOK
  <2> HIDE DEF r
  <2> QED
    BY <1>1, <1>2, <2>1, <2>2, WriteEntryInv
<1> QED
  BY <1>3, <1>4

(* Marking an outcome (mark_entry).                                         *)
LEMMA MarkEntryInv ==
    ASSUME EntryInv, NEW e \in Entries, NEW st \in BodyStates, MarkEntry(e, st)
    PROVE  EntryInv'
<1>1. entry[e] \in EntryRow /\ st \in Outcomes /\ st # "FINALISED"
  BY EntryRowFacts DEF MarkEntry, EntryInv, Outcomes, BodyStates
<1>2. CASE Markable(e)
  BY <1>1, <1>2, SetStateInv DEF MarkEntry, EntryInv, EntryTypeOK
<1>3. CASE ~Markable(e)
  BY <1>3 DEF MarkEntry, EntryInv, EntryTypeOK, FinalisedIsManaged
<1> QED
  BY <1>2, <1>3

(* Committing the position together with its outcome                        *)
(* (commit_verified_entry).                                                 *)
LEMMA CommitVerifiedEntryInv ==
    ASSUME EntryInv, NEW e \in Entries, NEW p \in Owners, CommitVerifiedEntry(p, e)
    PROVE  EntryInv'
<1>1. entry[e] \in EntryRow
  BY EntryRowFacts DEF CommitVerifiedEntry, Finalisable, EntryInv, Outcomes, BodyStates
<1>2. "FINALISED" \in Outcomes
  BY DEF Outcomes
<1> QED
  BY <1>1, <1>2, SetStateInv DEF CommitVerifiedEntry, EntryInv, EntryTypeOK

(* Archiving a finalised row (archive_finalised_client_id).                 *)
LEMMA ArchiveEntryInv ==
    ASSUME EntryInv, NEW e \in Entries, ArchiveEntry(e)
    PROVE  EntryInv'
<1>1. \A f \in Entries : entry'[f] = IF f = e THEN NoRow ELSE entry[f]
  BY DEF ArchiveEntry, EntryInv, EntryTypeOK
<1>2. EntryTypeOK'
  BY DEF ArchiveEntry, EntryInv, EntryTypeOK
<1>3. FinalisedIsManaged'
  BY <1>1 DEF ArchiveEntry, EntryInv, FinalisedIsManaged, NoRow
<1> QED
  BY <1>2, <1>3 DEF EntryInv

(* Writing what a row read earlier makes recovery write                     *)
(* (recover_entry_operations).                                              *)
LEMMA RecoverEntryInv ==
    ASSUME EntryInv, NEW e \in Entries, NEW row \in EntryRow, RecoverEntry(e, row)
    PROVE  EntryInv'
<1>1. RecoveredOutcome(row) \in Outcomes /\ RecoveredOutcome(row) # "FINALISED"
  BY DEF RecoveredOutcome, Outcomes, BodyStates
<1>2. CASE entry[e] = NoRow
  BY <1>2 DEF RecoverEntry, EntryInv, EntryTypeOK, FinalisedIsManaged
<1>3. CASE entry[e] # NoRow
  BY <1>1, <1>3, EntryRowFacts, SetStateInv DEF RecoverEntry, EntryInv, EntryTypeOK
<1> QED
  BY <1>2, <1>3

-----------------------------------------------------------------------------
(* Every transaction keeps the invariant.                                   *)
LEMMA EntryStepInv == EntryInv /\ [EntryNext]_entryVars => EntryInv'
<1> SUFFICES ASSUME EntryInv, [EntryNext]_entryVars
             PROVE  EntryInv'
  OBVIOUS
<1>1. CASE UNCHANGED entryVars
  BY <1>1 DEF entryVars, EntryInv, EntryTypeOK, FinalisedIsManaged
<1>2. ASSUME NEW e \in Entries, NEW p \in Owners, NEW c \in Clients, ReserveEntry(p, e, c)
      PROVE  EntryInv'
  BY <1>2, ReserveEntryInv
<1>3. ASSUME NEW e \in Entries, NEW p \in Owners,
             \/ CommitEntryIntent(p, e) \/ ClaimEntryPermit(p, e)
             \/ CommitVerifiedEntry(p, e)
      PROVE  EntryInv'
  BY <1>3, PermitInv, CommitVerifiedEntryInv
<1>4. ASSUME NEW e \in Entries, NEW st \in BodyStates, MarkEntry(e, st)
      PROVE  EntryInv'
  BY <1>4, MarkEntryInv
<1>5. ASSUME NEW e \in Entries, ArchiveEntry(e)
      PROVE  EntryInv'
  BY <1>5, ArchiveEntryInv
<1>6. ASSUME NEW e \in Entries, NEW row \in EntryRow, RecoverEntry(e, row)
      PROVE  EntryInv'
  BY <1>6, RecoverEntryInv
<1> QED
  BY <1>1, <1>2, <1>3, <1>4, <1>5, <1>6 DEF EntryNext

(* The tables keep the values of their schema, for any operations, client   *)
(* ids and processes.                                                       *)
THEOREM EntryTypeCorrect == EntrySpec => []EntryTypeOK
<1>1. EntryInv => EntryTypeOK
  BY DEF EntryInv
<1> QED
  BY <1>1, InitEntryInv, EntryStepInv, PTL DEF EntrySpec

(* A finalised entry has its position row, in whatever order marks, stale   *)
(* recoveries and finalisations are written (commit_verified_entry).        *)
THEOREM EntryFinalisedIsManaged == EntrySpec => []FinalisedIsManaged
<1>1. EntryInv => FinalisedIsManaged
  BY DEF EntryInv
<1> QED
  BY <1>1, InitEntryInv, EntryStepInv, PTL DEF EntrySpec

-----------------------------------------------------------------------------
\* Live entries.

(* What a body must say to be called one trade, and a rejection.            *)
LEMMA ClassifyFacts ==
    ASSUME NEW b
    PROVE  /\ Classify(b) = "CONFIRMED_SINGLE_TRADE" =>
                b.fill /\ b.opened = 1 /\ b.units = Requested /\ b.size = Requested
           /\ Classify(b) = "REJECTED_CONFIRMED" => ~b.fill /\ b.reject
           /\ Classify(b) \in BodyStates
BY DEF Classify, Rejected, Explained, NamesOneTrade, BodyStates

(* A body with at most one wrong part still differs from a full, single     *)
(* opening in the units, the trades or the fill.                            *)
LEMMA BodyFacts ==
    /\ \A b \in Bodies("partial") : b.units # Requested \/ b.size # Requested
    /\ \A b \in Bodies("several") : b.opened # 1 \/ b.size # Requested
    /\ \A b \in Bodies("rejected") : ~b.fill \/ b.size # Requested
    /\ \A x \in Executions \ {"rejected"} : \A b \in Bodies(x) : b.fill \/ ~b.reject
<1>1. Requested \in Nat /\ Requested - 1 # Requested /\ Missing # Requested
  BY RequestedAssumption
<1>2. \A b \in Bodies("partial") : b.units # Requested \/ b.size # Requested
  BY <1>1 DEF Bodies, TrueBody, Fill
<1>3. \A b \in Bodies("several") : b.opened # 1 \/ b.size # Requested
  BY <1>1 DEF Bodies, TrueBody, Fill
<1>4. \A b \in Bodies("rejected") : ~b.fill \/ b.size # Requested
  BY <1>1 DEF Bodies, TrueBody, Fill
<1>5. \A x \in Executions \ {"rejected"} : \A b \in Bodies(x) : b.fill \/ ~b.reject
  BY SMTT(20) DEF Executions, Bodies, TrueBody, Fill
<1> QED
  BY <1>2, <1>3, <1>4, <1>5

(* Only an order that opened one trade in full is read as such, and only a  *)
(* rejected one as rejected (classify_entry_response).                      *)
LEMMA ReadingFacts ==
    ASSUME NEW x \in Executions, NEW st \in Readings(x)
    PROVE  /\ st \in BodyStates
           /\ st = "CONFIRMED_SINGLE_TRADE" => x = "opened"
           /\ st = "REJECTED_CONFIRMED" => x = "rejected"
<1>1. PICK b \in Bodies(x) : st = Classify(b)
  BY DEF Readings
<1> QED
  BY <1>1, ClassifyFacts, BodyFacts DEF Executions
-----------------------------------------------------------------------------
\* The strengthening: what ties the call, the order and the row together.

CallTypes ==
    /\ call \in [Entries -> Call]
    /\ order \in [Entries -> {"unsent", "sent", "closed"} \cup Executions]

\* Recovery holds rows it has to rewrite and no others.
ScanHolds ==
    /\ scan \in [Procs -> [Entries -> EntryRow \cup {NoRow}]]
    /\ \A p \in Procs, e \in Entries : scan[p][e] # NoRow => RecoverRewrites(scan[p][e])

BeforeSend == {"none", "commit_intent", "authorise", "claim", "recheck", "send"}

\* A call that began registered its client id, for ever.
Linked(e) ==
    /\ call[e].at # "none" => call[e].id # NoId
    /\ call[e].id # NoId => registry[call[e].id] = e

\* What the steps of the call, the row and the position say of the order.
Tracked(e) ==
    /\ call[e].at = "none" => call[e].by = NoProc
    /\ call[e].at \in BeforeSend => order[e] = "unsent"
    /\ call[e].at = "await" => order[e] # "unsent"
    /\ call[e].at = "interpret" => order[e] \in Executions \cup {"closed"}
    /\ call[e].at = "commit" => order[e] \in {"opened", "closed"}
    /\ call[e].at = "mark" /\ call[e].st = "REJECTED_CONFIRMED" => order[e] = "rejected"
    /\ call[e].at # "none" /\ e \notin managed => entry[e] # NoRow
    /\ entry[e].st = "REJECTED_CONFIRMED" => order[e] = "rejected"
    /\ e \in managed => order[e] \in {"opened", "closed"}

LiveInv ==
    /\ EntryInv
    /\ CallTypes
    /\ ScanHolds
    /\ \A e \in Entries : Linked(e) /\ Tracked(e)

\* A step that leaves operation f alone.
Kept(f) ==
    /\ call'[f] = call[f] /\ order'[f] = order[f] /\ entry'[f] = entry[f]
    /\ f \in managed' <=> f \in managed

-----------------------------------------------------------------------------
(* The initial states satisfy the invariant.                                *)
LEMMA InitLiveInv == Init => LiveInv
<1> SUFFICES ASSUME Init
             PROVE  LiveInv
  OBVIOUS
<1>1. EntryInv
  BY InitEntryInv DEF Init
<1>2. CallTypes
  BY DEF Init, CallTypes, NoCall, Call, CallSteps, BodyStates
<1>3. ScanHolds
  BY DEF Init, ScanHolds, NothingRead
<1>4. \A e \in Entries : Linked(e) /\ Tracked(e)
  BY DEF Init, Linked, Tracked, NoCall, EntryInit, NoRow, BeforeSend
<1> QED
  BY <1>1, <1>2, <1>3, <1>4 DEF LiveInv

(* A step on one operation keeps what holds of the others.                  *)
LEMMA OneOperation ==
    ASSUME LiveInv, NEW e \in Entries, registry' = registry,
           \A f \in Entries \ {e} : Kept(f),
           call'[e].id = call[e].id,
           call'[e].at # "none" => call[e].at # "none",
           Tracked(e)'
    PROVE  \A f \in Entries : Linked(f)' /\ Tracked(f)'
<1>1. \A f \in Entries \ {e} : Linked(f)' /\ Tracked(f)'
  BY DEF LiveInv, Kept, Linked, Tracked
<1>2. Linked(e)'
  BY DEF LiveInv, Linked
<1> QED
  BY <1>1, <1>2

(* What moving a call does.                                                 *)
LEMMA MovedCall ==
    ASSUME LiveInv, NEW e \in Entries, NEW s \in CallSteps, NEW t \in BodyStates,
           \/ call' = [call EXCEPT ![e].at = s]
           \/ call' = [call EXCEPT ![e].at = s, ![e].st = t]
    PROVE  /\ call' \in [Entries -> Call]
           /\ \A f \in Entries \ {e} : call'[f] = call[f]
           /\ call'[e].id = call[e].id /\ call'[e].at = s
           /\ call'[e].st = t \/ call'[e].st = call[e].st
<1>1. call \in [Entries -> Call]
  BY DEF LiveInv, CallTypes
<1>2. call[e] \in Call
  BY <1>1
<1>3. /\ [call[e] EXCEPT !.at = s] \in Call
      /\ [call[e] EXCEPT !.at = s, !.st = t] \in Call
  BY <1>2 DEF Call
<1>4. \/ call' = [call EXCEPT ![e] = [call[e] EXCEPT !.at = s]]
      \/ call' = [call EXCEPT ![e] = [call[e] EXCEPT !.at = s, !.st = t]]
  BY <1>1
<1>5. call' \in [Entries -> Call]
  BY <1>1, <1>3, <1>4
<1>6. \A f \in Entries \ {e} : call'[f] = call[f]
  BY <1>1, <1>4
<1>7. \/ call'[e] = [call[e] EXCEPT !.at = s]
      \/ call'[e] = [call[e] EXCEPT !.at = s, !.st = t]
  BY <1>1, <1>4
<1>8. /\ call'[e].id = call[e].id /\ call'[e].at = s
      /\ call'[e].st = t \/ call'[e].st = call[e].st
  BY <1>2, <1>7 DEF Call
<1> QED
  BY <1>5, <1>6, <1>8

(* A step that moves one call and touches no table and no order.            *)
LEMMA MoveOnly ==
    ASSUME LiveInv, NEW e \in Entries, NEW s \in CallSteps, NEW t \in BodyStates,
           \/ call' = [call EXCEPT ![e].at = s]
           \/ call' = [call EXCEPT ![e].at = s, ![e].st = t],
           UNCHANGED <<entryVars, order, scan>>,
           call[e].at # "none", s # "none",
           s \in BeforeSend => call[e].at \in BeforeSend,
           s = "await" => order[e] # "unsent",
           s = "interpret" => order[e] \in Executions \cup {"closed"},
           s = "commit" => order[e] \in {"opened", "closed"},
           s = "mark" => call' = [call EXCEPT ![e].at = s, ![e].st = t],
           s = "mark" /\ t = "REJECTED_CONFIRMED" => order[e] = "rejected"
    PROVE  LiveInv'
<1>1. /\ call' \in [Entries -> Call]
      /\ \A f \in Entries \ {e} : call'[f] = call[f]
      /\ call'[e].id = call[e].id /\ call'[e].at = s
  BY MovedCall
<1>2. s = "mark" => call'[e].st = t
  BY DEF LiveInv, CallTypes, Call
<1>3. EntryInv' /\ ScanHolds' /\ CallTypes'
  BY <1>1 DEF LiveInv, EntryInv, EntryTypeOK, FinalisedIsManaged, entryVars, ScanHolds, CallTypes
<1>4. Tracked(e)'
  BY <1>1, <1>2 DEF LiveInv, Tracked, entryVars
<1>5. \A f \in Entries : Linked(f)' /\ Tracked(f)'
  BY <1>1, <1>4, OneOperation DEF Kept, entryVars
<1> QED
  BY <1>3, <1>5 DEF LiveInv
-----------------------------------------------------------------------------
\* The steps of a call

\* The steps that only move the call.
Moves(e) ==
    \/ Authorise(e) \/ Recheck(e) \/ Refused(e) \/ Timeout(e) \/ TransportError(e)
    \/ Answer(e) \/ Interpret(e) \/ Unprotected(e) \/ CaptureFails(e) \/ Publish(e)
    \/ MarkFails(e)

(* A call that ends is at one of the two last steps.                        *)
LEMMA EndMoves ==
    ASSUME NEW e \in Entries, End(e)
    PROVE  \E s \in {"lost", "done"} :
              call' = [call EXCEPT ![e].at = s, ![e].st = "OUTCOME_AMBIGUOUS"]
BY DEF End, NoCall

(* A call may end at any step.                                              *)
LEMMA EndInv ==
    ASSUME LiveInv, NEW e \in Entries, End(e),
           UNCHANGED <<entryVars, order, scan>>, call[e].at # "none"
    PROVE  LiveInv'
<1>1. PICK s \in {"lost", "done"} :
         call' = [call EXCEPT ![e].at = s, ![e].st = "OUTCOME_AMBIGUOUS"]
  BY EndMoves
<1>2. /\ s \in CallSteps /\ "OUTCOME_AMBIGUOUS" \in BodyStates
      /\ s \notin BeforeSend /\ s \notin {"await", "interpret", "commit", "mark"}
  BY DEF CallSteps, BodyStates, BeforeSend
<1> QED
  BY <1>1, <1>2, MoveOnly

(* The steps that only move the call keep the invariant.                    *)
LEMMA MovesInv ==
    ASSUME LiveInv, NEW e \in Entries, Moves(e)
    PROVE  LiveInv' /\ UNCHANGED entryVars
<1> USE DEF At, Goto, MarkNext, otherProcess
<1>2. CASE Authorise(e)
  BY <1>2, MoveOnly DEF Authorise, CallSteps, BeforeSend, BodyStates
<1>3. CASE Recheck(e)
  BY <1>3, MoveOnly DEF Recheck, CallSteps, BeforeSend, BodyStates
<1>4. CASE Refused(e) \/ TransportError(e) \/ MarkFails(e)
  <2>1. End(e) /\ UNCHANGED <<entryVars, order, scan>> /\ call[e].at # "none"
    BY <1>4 DEF Refused, TransportError, MarkFails
  <2> QED
    BY <2>1, EndInv
<1>5. CASE Timeout(e)
  BY <1>5, MoveOnly DEF Timeout, CallSteps, BeforeSend, BodyStates
<1>6. CASE Answer(e)
  <2>1. order[e] \in Executions \cup {"closed"}
    BY <1>6 DEF Answer, LiveInv, CallTypes, Tracked
  <2> QED
    BY <1>6, <2>1, MoveOnly DEF Answer, CallSteps, BeforeSend, BodyStates
<1>7. CASE Interpret(e)
  <2>1. PICK st \in Readings(Executed(e)) :
           IF st = "CONFIRMED_SINGLE_TRADE" THEN Goto(e, "commit") ELSE MarkNext(e, st)
    BY <1>7 DEF Interpret
  <2>2. Executed(e) \in Executions /\ order[e] \in {Executed(e), "closed"}
    BY <1>7 DEF Interpret, LiveInv, Tracked, Executed, Executions
  <2>3. /\ st \in BodyStates
        /\ st = "CONFIRMED_SINGLE_TRADE" => order[e] \in {"opened", "closed"}
        /\ st = "REJECTED_CONFIRMED" => order[e] = "rejected"
    BY <2>2, ReadingFacts DEF Executed
  <2>4. UNCHANGED <<entryVars, order, scan>> /\ call[e].at # "none"
    BY <1>7 DEF Interpret
  <2>5. CASE st = "CONFIRMED_SINGLE_TRADE"
    BY <2>1, <2>3, <2>4, <2>5, MoveOnly DEF CallSteps, BeforeSend, BodyStates
  <2>6. CASE st # "CONFIRMED_SINGLE_TRADE"
    BY <2>1, <2>3, <2>4, <2>6, MoveOnly DEF CallSteps, BeforeSend
  <2> QED
    BY <2>5, <2>6
<1>8. CASE Unprotected(e)
  BY <1>8, MoveOnly DEF Unprotected, CallSteps, BeforeSend, BodyStates
<1>9. CASE CaptureFails(e)
  BY <1>9, MoveOnly DEF CaptureFails, CallSteps, BeforeSend, BodyStates
<1>10. CASE Publish(e)
  <2>1. UNCHANGED <<entryVars, order, scan>> /\ call[e].at # "none"
    BY <1>10 DEF Publish
  <2>2. CASE End(e)
    BY <2>1, <2>2, EndInv
  <2>3. CASE Goto(e, "assign")
    BY <2>1, <2>3, MoveOnly DEF CallSteps, BeforeSend, BodyStates
  <2> QED
    BY <1>10, <2>2, <2>3 DEF Publish
<1>11. UNCHANGED entryVars
  BY DEF Moves, Authorise, Recheck, Refused, Timeout, TransportError, Answer, Interpret,
         Unprotected, CaptureFails, Publish, MarkFails
<1> QED
  BY <1>2, <1>3, <1>4, <1>5, <1>6, <1>7, <1>8, <1>9, <1>10, <1>11 DEF Moves
(* The call assigns the book and ends.                                      *)
LEMMA AssignInv ==
    ASSUME LiveInv, NEW e \in Entries, Assign(e)
    PROVE  LiveInv' /\ UNCHANGED entryVars
<1>1. End(e) /\ UNCHANGED <<entryVars, order, scan>> /\ call[e].at # "none"
  BY DEF Assign, At
<1> QED
  BY <1>1, EndInv

(* What a step of a typed call does to the typed tables.                    *)
LEMMA OwnerIsProcess ==
    ASSUME LiveInv, NEW e \in Entries, entry[e].st \in Outcomes
    PROVE  entry[e] \in EntryRow /\ entry[e].owner \in Owners
BY EntryRowFacts DEF LiveInv, EntryInv, EntryRow

(* The request leaves (_place_market_order_open_sync).                      *)
LEMMA SendInv ==
    ASSUME LiveInv, NEW e \in Entries, Send(e)
    PROVE  LiveInv' /\ UNCHANGED entryVars
<1>1. /\ call' = [call EXCEPT ![e].at = "await"]
      /\ order' = [order EXCEPT ![e] = "sent"]
      /\ UNCHANGED <<entryVars, scan>>
      /\ call[e].at = "send"
  BY DEF Send, At, Goto, otherProcess
<1>2. "await" \in CallSteps /\ "OUTCOME_AMBIGUOUS" \in BodyStates
  BY DEF CallSteps, BodyStates
<1>3. /\ call' \in [Entries -> Call]
      /\ \A f \in Entries \ {e} : call'[f] = call[f]
      /\ call'[e].id = call[e].id /\ call'[e].at = "await"
  BY <1>1, <1>2, MovedCall
<1>4. /\ \A f \in Entries \ {e} : order'[f] = order[f]
      /\ order'[e] = "sent" /\ CallTypes'
  BY <1>1, <1>3 DEF LiveInv, CallTypes
<1>5. EntryInv' /\ ScanHolds'
  BY <1>1 DEF LiveInv, EntryInv, EntryTypeOK, FinalisedIsManaged, entryVars, ScanHolds
<1>6. Tracked(e)'
  BY <1>1, <1>3, <1>4 DEF LiveInv, Tracked, entryVars, BeforeSend
<1>7. \A f \in Entries : Linked(f)' /\ Tracked(f)'
  BY <1>1, <1>3, <1>4, <1>6, OneOperation DEF Kept, entryVars
<1> QED
  BY <1>1, <1>4, <1>5, <1>7 DEF LiveInv

(* A transaction of one operation, with a step of its call.                 *)
LEMMA TableStep ==
    ASSUME LiveInv, NEW e \in Entries, [EntryNext]_entryVars,
           call' \in [Entries -> Call],
           UNCHANGED <<registry, order, scan>>,
           \A f \in Entries \ {e} : call'[f] = call[f] /\ entry'[f] = entry[f]
                                    /\ (f \in managed' <=> f \in managed),
           call'[e].id = call[e].id,
           call'[e].at # "none" => call[e].at # "none",
           Tracked(e)'
    PROVE  LiveInv'
<1>1. EntryInv'
  BY EntryStepInv DEF LiveInv
<1>2. CallTypes' /\ ScanHolds'
  BY DEF LiveInv, CallTypes, ScanHolds
<1>3. \A f \in Entries : Linked(f)' /\ Tracked(f)'
  BY OneOperation DEF Kept
<1> QED
  BY <1>1, <1>2, <1>3 DEF LiveInv

(* The intent is committed and the permit claimed                           *)
(* (begin_entry_submission, claim_entry_permit).                            *)
LEMMA PermitStepsInv ==
    ASSUME LiveInv, NEW e \in Entries, CommitIntent(e) \/ ClaimPermit(e)
    PROVE  LiveInv' /\ [EntryNext]_entryVars
<1>1. PICK s \in {"authorise", "recheck"} :
         /\ call' = [call EXCEPT ![e].at = s]
         /\ CommitEntryIntent(By(e), e) \/ ClaimEntryPermit(By(e), e)
         /\ call[e].at \in {"commit_intent", "claim"}
         /\ UNCHANGED <<order, scan>>
  BY DEF CommitIntent, ClaimPermit, At, Goto, otherProcess
<1>2. entry[e] \in EntryRow /\ By(e) \in Owners
  BY <1>1, OwnerIsProcess DEF CommitEntryIntent, ClaimEntryPermit, ClaimableBy, Outcomes
<1>3. [EntryNext]_entryVars
  BY <1>1, <1>2 DEF EntryNext
<1>4. UNCHANGED <<registry, managed>> /\ entry[e] # NoRow /\ entry' \in [Entries -> EntryRow \cup {NoRow}]
  <2>1. UNCHANGED <<registry, managed>>
    BY <1>1 DEF CommitEntryIntent, ClaimEntryPermit
  <2>2. entry[e] # NoRow
    BY <1>2 DEF EntryRow, NoRow, Outcomes, BodyStates
  <2> QED
    BY <2>1, <2>2, <1>3, EntryStepInv DEF LiveInv, EntryInv, EntryTypeOK
<1>5. /\ \A f \in Entries \ {e} : entry'[f] = entry[f]
      /\ entry'[e] # NoRow /\ entry'[e].st = "SUBMITTING"
  BY <1>1, <1>2, <1>4
     DEF CommitEntryIntent, ClaimEntryPermit, ClaimableBy, EntryRow, NoRow,
         LiveInv, EntryInv, EntryTypeOK
<1>6. s \in CallSteps /\ "OUTCOME_AMBIGUOUS" \in BodyStates /\ s \in BeforeSend
  BY <1>1 DEF CallSteps, BodyStates, BeforeSend
<1>7. /\ call' \in [Entries -> Call]
      /\ \A f \in Entries \ {e} : call'[f] = call[f]
      /\ call'[e].id = call[e].id /\ call'[e].at = s
  BY <1>1, <1>6, MovedCall
<1>8. Tracked(e)'
  BY <1>1, <1>4, <1>5, <1>6, <1>7 DEF LiveInv, Tracked, BeforeSend
<1> QED
  BY <1>1, <1>3, <1>4, <1>5, <1>7, <1>8, TableStep
(* The position and the outcome are committed (commit_verified_entry).      *)
LEMMA CommitInv ==
    ASSUME LiveInv, NEW e \in Entries, Commit(e)
    PROVE  LiveInv' /\ [EntryNext]_entryVars
<1>1. /\ call' = [call EXCEPT ![e].at = "publish"] /\ call[e].at = "commit"
      /\ CommitVerifiedEntry(By(e), e) /\ UNCHANGED <<order, scan, registry>>
  BY DEF Commit, CommitVerifiedEntry, At, Goto, otherProcess
<1>2. entry[e] \in EntryRow /\ By(e) \in Owners
  BY <1>1, OwnerIsProcess DEF CommitVerifiedEntry, Finalisable, Outcomes, BodyStates
<1>3. [EntryNext]_entryVars
  BY <1>1, <1>2 DEF EntryNext
<1>4. /\ \A f \in Entries \ {e} : entry'[f] = entry[f] /\ (f \in managed' <=> f \in managed)
      /\ e \in managed' /\ entry'[e].st = "FINALISED"
  BY <1>1, <1>2 DEF CommitVerifiedEntry, EntryRow, LiveInv, EntryInv, EntryTypeOK
<1>5. "publish" \in CallSteps /\ "OUTCOME_AMBIGUOUS" \in BodyStates /\ "publish" \notin BeforeSend
  BY DEF CallSteps, BodyStates, BeforeSend
<1>6. /\ call' \in [Entries -> Call]
      /\ \A f \in Entries \ {e} : call'[f] = call[f]
      /\ call'[e].id = call[e].id /\ call'[e].at = "publish"
  BY <1>1, <1>5, MovedCall
<1>7. Tracked(e)'
  BY <1>1, <1>4, <1>5, <1>6 DEF LiveInv, Tracked
<1> QED
  BY <1>1, <1>3, <1>4, <1>6, <1>7, TableStep

(* The outcome is marked (mark_entry).                                      *)
LEMMA MarkStepInv ==
    ASSUME LiveInv, NEW e \in Entries, Mark(e)
    PROVE  LiveInv' /\ [EntryNext]_entryVars
<1>1. /\ End(e) /\ call[e].at = "mark" /\ MarkEntry(e, call[e].st)
      /\ UNCHANGED <<order, scan, registry, managed>>
  BY DEF Mark, MarkEntry, At, otherProcess
<1>2. call[e].st \in BodyStates
  BY DEF LiveInv, CallTypes, Call
<1>3. [EntryNext]_entryVars
  BY <1>1, <1>2 DEF EntryNext
<1>4. PICK s \in {"lost", "done"} :
         call' = [call EXCEPT ![e].at = s, ![e].st = "OUTCOME_AMBIGUOUS"]
  BY <1>1, EndMoves
<1>5. /\ s \in CallSteps /\ "OUTCOME_AMBIGUOUS" \in BodyStates /\ s \notin BeforeSend
      /\ s \notin {"none", "await", "interpret", "commit", "mark"}
  BY DEF CallSteps, BodyStates, BeforeSend
<1>6. /\ call' \in [Entries -> Call]
      /\ \A f \in Entries \ {e} : call'[f] = call[f]
      /\ call'[e].id = call[e].id /\ call'[e].at = s
  BY <1>4, <1>5, MovedCall
<1>7. entry[e] \in EntryRow /\ entry[e] # NoRow
  BY <1>1, EntryRowFacts DEF MarkEntry, LiveInv, EntryInv
<1>8. /\ \A f \in Entries \ {e} : entry'[f] = entry[f]
      /\ entry'[e] = entry[e] \/ entry'[e] = [entry[e] EXCEPT !.st = call[e].st]
  BY <1>1, <1>7 DEF MarkEntry, LiveInv, EntryInv, EntryTypeOK
<1>9. /\ entry'[e].st = "REJECTED_CONFIRMED" =>
            entry[e].st = "REJECTED_CONFIRMED" \/ call[e].st = "REJECTED_CONFIRMED"
      /\ entry'[e] # NoRow
  <2>1. CASE entry'[e] = entry[e]
    BY <1>7, <2>1
  <2>2. CASE entry'[e] = [entry[e] EXCEPT !.st = call[e].st]
    BY <1>2, <1>7, <2>2 DEF EntryRow, NoRow, BodyStates
  <2> QED
    BY <1>8, <2>1, <2>2
<1>10. Tracked(e)'
  BY <1>1, <1>5, <1>6, <1>9 DEF LiveInv, Tracked
<1> QED
  BY <1>1, <1>3, <1>6, <1>8, <1>10, TableStep

(* A finalised row is archived: its operation has a position.               *)
LEMMA ArchiveInv ==
    ASSUME LiveInv, NEW e \in Entries, Archive(e)
    PROVE  LiveInv' /\ [EntryNext]_entryVars
<1>1. ArchiveEntry(e) /\ UNCHANGED <<call, order, scan, registry, managed>>
  BY DEF Archive, ArchiveEntry, otherProcess
<1>2. [EntryNext]_entryVars
  BY <1>1 DEF EntryNext
<1>3. /\ \A f \in Entries \ {e} : entry'[f] = entry[f]
      /\ entry'[e] = NoRow /\ e \in managed
  BY <1>1 DEF ArchiveEntry, LiveInv, EntryInv, EntryTypeOK, FinalisedIsManaged
<1>4. Tracked(e)'
  BY <1>1, <1>3 DEF LiveInv, Tracked, NoRow
<1>5. call' \in [Entries -> Call]
  BY <1>1 DEF LiveInv, CallTypes
<1> QED
  BY <1>1, <1>2, <1>3, <1>4, <1>5, TableStep

(* A call begins with a client id that nothing was registered for           *)
(* (begin_entry_submission).                                                *)
LEMMA BeginEntryInv ==
    ASSUME LiveInv, NEW e \in Entries, NEW p \in Procs, NEW c \in Clients,
           BeginEntry(p, e, c)
    PROVE  LiveInv' /\ [EntryNext]_entryVars
<1> DEFINE fresh == [NoCall EXCEPT !.at = "commit_intent", !.by = p, !.id = c]
<1>1. /\ call' = [call EXCEPT ![e] = fresh] /\ call[e].at = "none"
      /\ ReserveEntry(p, e, c) /\ UNCHANGED <<order, scan, managed>>
  BY DEF BeginEntry, ReserveEntry, At, otherProcess
<1>2. [EntryNext]_entryVars
  BY <1>1, OwnersAssumption DEF EntryNext
<1>3. fresh \in Call /\ fresh.at = "commit_intent" /\ fresh.id = c /\ c # NoId
      /\ fresh.st = "OUTCOME_AMBIGUOUS"
  BY NoIdAssumption DEF NoCall, Call, CallSteps, BodyStates
<1> HIDE DEF fresh
<1>4. /\ call' \in [Entries -> Call] /\ call'[e] = fresh
      /\ \A f \in Entries \ {e} : call'[f] = call[f]
  BY <1>1, <1>3 DEF LiveInv, CallTypes
<1>5. /\ \A f \in Entries \ {e} : entry'[f] = entry[f]
      /\ entry'[e].st = "RESERVED" /\ entry'[e] # NoRow
      /\ registry[c] = NoEntry
      /\ \A d \in Clients : registry'[d] = IF d = c THEN e ELSE registry[d]
  BY <1>1 DEF ReserveEntry, IdUnused, NoRow, LiveInv, EntryInv, EntryTypeOK
<1>6. EntryInv' /\ CallTypes' /\ ScanHolds'
  BY <1>1, <1>2, <1>4, EntryStepInv DEF LiveInv, CallTypes, ScanHolds
<1>7. \A f \in Entries \ {e} : Linked(f)' /\ Tracked(f)'
  <2> TAKE f \in Entries \ {e}
  <2>1. Tracked(f)'
    BY <1>1, <1>4, <1>5 DEF LiveInv, Tracked
  <2>2. call[f].id # NoId => call[f].id \in Clients /\ call[f].id # c
    BY <1>5, NoEntryAssumption DEF LiveInv, CallTypes, Call, Linked
  <2>3. Linked(f)'
    BY <1>4, <1>5, <2>2 DEF LiveInv, Linked
  <2> QED
    BY <2>1, <2>3
<1>8. Linked(e)' /\ Tracked(e)'
  BY <1>1, <1>3, <1>4, <1>5 DEF LiveInv, Linked, Tracked, BeforeSend
<1> QED
  BY <1>2, <1>6, <1>7, <1>8 DEF LiveInv
-----------------------------------------------------------------------------
\* Start-up, the broker, and the end of a process

\* What recovery has read, it still holds or has dropped.
ScanShrinks ==
    /\ scan' \in [Procs -> [Entries -> EntryRow \cup {NoRow}]]
    /\ \A p \in Procs, e \in Entries : scan'[p][e] # NoRow => scan'[p][e] = scan[p][e]

(* Dropping what one process has read is such a step.                       *)
LEMMA DroppedScan ==
    ASSUME LiveInv, NEW p \in Procs,
           \/ scan' = [scan EXCEPT ![p] = NothingRead]
           \/ \E e \in Entries : scan' = [scan EXCEPT ![p][e] = NoRow]
           \/ scan' = scan
    PROVE  ScanShrinks
<1>1. scan \in [Procs -> [Entries -> EntryRow \cup {NoRow}]]
  BY DEF LiveInv, ScanHolds
<1>2. CASE scan' = [scan EXCEPT ![p] = NothingRead]
  BY <1>1, <1>2 DEF ScanShrinks, NothingRead
<1>3. CASE \E e \in Entries : scan' = [scan EXCEPT ![p][e] = NoRow]
  BY <1>1, <1>3 DEF ScanShrinks
<1>4. CASE scan' = scan
  BY <1>1, <1>4 DEF ScanShrinks
<1> QED
  BY <1>2, <1>3, <1>4

(* A step that leaves tables, orders and calls alone.                       *)
LEMMA QuietStep ==
    ASSUME LiveInv, UNCHANGED <<entryVars, order, call>>, ScanShrinks
    PROVE  LiveInv'
<1>1. EntryInv' /\ CallTypes'
  BY DEF LiveInv, EntryInv, EntryTypeOK, FinalisedIsManaged, entryVars, CallTypes
<1>2. ScanHolds'
  BY DEF LiveInv, ScanHolds, ScanShrinks
<1>3. \A e \in Entries : Linked(e)' /\ Tracked(e)'
  BY DEF LiveInv, Linked, Tracked, entryVars
<1> QED
  BY <1>1, <1>2, <1>3 DEF LiveInv

(* The rows recovery reads are rows it has to rewrite.                      *)
LEMMA ReadEntriesInv ==
    ASSUME LiveInv, NEW p \in Procs, ReadEntries(p)
    PROVE  LiveInv' /\ UNCHANGED entryVars
<1> DEFINE read == [e \in Entries |-> IF RecoverRewrites(entry[e]) THEN entry[e] ELSE NoRow]
<1>1. /\ scan' = [scan EXCEPT ![p] = read]
      /\ UNCHANGED <<entryVars, order, call>>
  BY DEF ReadEntries
<1>2. read \in [Entries -> EntryRow \cup {NoRow}]
  BY DEF LiveInv, EntryInv, EntryTypeOK
<1>3. \A e \in Entries : read[e] # NoRow => RecoverRewrites(read[e])
  OBVIOUS
<1> HIDE DEF read
<1>4. ScanHolds'
  <2>1. scan' \in [Procs -> [Entries -> EntryRow \cup {NoRow}]]
    BY <1>1, <1>2 DEF LiveInv, ScanHolds
  <2>2. \A q \in Procs : scan'[q] = IF q = p THEN read ELSE scan[q]
    BY <1>1 DEF LiveInv, ScanHolds
  <2>3. \A q \in Procs, e \in Entries : scan'[q][e] # NoRow => RecoverRewrites(scan'[q][e])
    BY <1>3, <2>2 DEF LiveInv, ScanHolds
  <2> QED
    BY <2>1, <2>3 DEF ScanHolds
<1>5. EntryInv' /\ CallTypes'
  BY <1>1 DEF LiveInv, EntryInv, EntryTypeOK, FinalisedIsManaged, entryVars, CallTypes
<1>6. \A e \in Entries : Linked(e)' /\ Tracked(e)'
  BY <1>1 DEF LiveInv, Linked, Tracked, entryVars
<1> QED
  BY <1>1, <1>4, <1>5, <1>6 DEF LiveInv

(* Recovery writes what a row it read calls for (recover_entry_operations). *)
LEMMA RewriteEntryInv ==
    ASSUME LiveInv, NEW p \in Procs, NEW e \in Entries, RewriteEntry(p, e)
    PROVE  LiveInv' /\ [EntryNext]_entryVars
<1> DEFINE row == scan[p][e]
<1>1. /\ row # NoRow /\ RecoverEntry(e, row)
      /\ UNCHANGED <<order, call, registry, managed>>
      /\ scan' = [scan EXCEPT ![p][e] = NoRow]
  BY DEF RewriteEntry, RecoverEntry
<1>2. row \in EntryRow /\ RecoverRewrites(row)
  BY <1>1 DEF LiveInv, ScanHolds
<1>3. [EntryNext]_entryVars
  BY <1>1, <1>2 DEF EntryNext
<1>4. RecoveredOutcome(row) \in {"OUTCOME_AMBIGUOUS", "RECONCILIATION_REQUIRED"}
  BY DEF RecoveredOutcome
<1> HIDE DEF row
<1>5. /\ \A f \in Entries \ {e} : entry'[f] = entry[f]
      /\ entry[e] = NoRow => entry'[e] = NoRow
      /\ entry[e] # NoRow => entry'[e] # NoRow /\ entry'[e].st # "REJECTED_CONFIRMED"
  <2>1. CASE entry[e] = NoRow
    BY <1>1, <2>1 DEF RecoverEntry
  <2>2. CASE entry[e] # NoRow
    <3>1. entry[e] \in EntryRow
      BY <2>2, EntryRowFacts DEF LiveInv, EntryInv
    <3>2. entry' = [entry EXCEPT ![e] = [entry[e] EXCEPT !.st = RecoveredOutcome(row)]]
      BY <1>1, <2>2 DEF RecoverEntry, LiveInv, EntryInv, EntryTypeOK
    <3>3. /\ \A f \in Entries \ {e} : entry'[f] = entry[f]
          /\ entry'[e] = [entry[e] EXCEPT !.st = RecoveredOutcome(row)]
      BY <3>2 DEF LiveInv, EntryInv, EntryTypeOK
    <3> QED
      BY <1>4, <2>2, <3>1, <3>3 DEF EntryRow, NoRow
  <2> QED
    BY <2>1, <2>2
<1>6. \A f \in Entries : Linked(f)' /\ Tracked(f)'
  <2>1. Tracked(e)'
    BY <1>1, <1>5 DEF LiveInv, Tracked
  <2>2. \A f \in Entries \ {e} : Kept(f)
    BY <1>1, <1>5 DEF Kept
  <2> QED
    BY <1>1, <2>1, <2>2, OneOperation
<1>7. EntryInv' /\ CallTypes'
  BY <1>1, <1>3, EntryStepInv DEF LiveInv, CallTypes
<1>8. ScanHolds'
  BY <1>1, DroppedScan DEF LiveInv, ScanHolds, ScanShrinks
<1> QED
  BY <1>3, <1>6, <1>7, <1>8 DEF LiveInv

\* The steps that touch no table, no order and no call.
Quiet(p) ==
    \/ StartSequence(p) \/ ClaimRun(p) \/ ReadPositions(p) \/ FinishStartup(p)
    \/ StartupBlocked(p) \/ DeleteClosed(p) \/ \E e \in Entries : PlacePosition(p, e)

(* They keep the invariant.                                                 *)
LEMMA QuietInv ==
    ASSUME LiveInv, NEW p \in Procs, Quiet(p)
    PROVE  LiveInv' /\ UNCHANGED entryVars
<1>1. UNCHANGED <<entryVars, order, call>>
  BY DEF Quiet, StartSequence, ClaimRun, ReadPositions, FinishStartup, StartupBlocked,
         DeleteClosed, PlacePosition
<1>2. scan' = scan \/ scan' = [scan EXCEPT ![p] = NothingRead]
  BY DEF Quiet, StartSequence, ClaimRun, ReadPositions, FinishStartup, StartupBlocked,
         DeleteClosed, PlacePosition, Forget
<1> QED
  BY <1>1, <1>2, DroppedScan, QuietStep

(* A process ends: its calls stop where they are.                           *)
LEMMA ExitInv ==
    ASSUME LiveInv, NEW p \in Procs, Exit(p)
    PROVE  LiveInv' /\ UNCHANGED entryVars
<1>1. /\ UNCHANGED <<entryVars, order>>
      /\ scan' = [scan EXCEPT ![p] = NothingRead]
      /\ call' = [e \in Entries |->
                    IF By(e) = p THEN [call[e] EXCEPT !.at = "done", !.st = NoCall.st]
                                 ELSE call[e]]
  BY DEF Exit, Forget
<1>2. /\ "done" \in CallSteps /\ NoCall.st \in BodyStates
      /\ "done" \notin BeforeSend
      /\ "done" \notin {"none", "await", "interpret", "commit", "mark"}
  BY DEF CallSteps, NoCall, BodyStates, BeforeSend
<1>3. \A e \in Entries :
        /\ call'[e] \in Call /\ call'[e].id = call[e].id
        /\ call'[e] = call[e] \/ (call'[e].at = "done" /\ By(e) = p)
  <2> TAKE e \in Entries
  <2>1. call[e] \in Call
    BY DEF LiveInv, CallTypes
  <2>2. CASE By(e) = p
    BY <1>1, <1>2, <2>1, <2>2 DEF Call
  <2>3. CASE By(e) # p
    BY <1>1, <2>1, <2>3
  <2> QED
    BY <2>2, <2>3
<1>4. \A e \in Entries : By(e) = p => call[e].at # "none"
  BY OwnersAssumption DEF LiveInv, Tracked, By
<1>5. EntryInv' /\ CallTypes' /\ ScanHolds'
  <2>1. ScanShrinks
    BY <1>1, DroppedScan
  <2>2. EntryInv'
    BY <1>1 DEF LiveInv, EntryInv, EntryTypeOK, FinalisedIsManaged, entryVars
  <2>3. CallTypes'
    BY <1>1, <1>3 DEF LiveInv, CallTypes
  <2>4. ScanHolds'
    BY <2>1 DEF LiveInv, ScanHolds, ScanShrinks
  <2> QED
    BY <2>2, <2>3, <2>4
<1>6. \A e \in Entries : Linked(e)' /\ Tracked(e)'
  <2> TAKE e \in Entries
  <2>1. Linked(e) /\ Tracked(e)
    BY DEF LiveInv
  <2>2. Linked(e)'
    BY <1>1, <1>3, <1>4, <2>1 DEF Linked, entryVars
  <2>3. Tracked(e)'
    BY <1>1, <1>2, <1>3, <1>4, <2>1 DEF Tracked, entryVars
  <2> QED
    BY <2>2, <2>3
<1> QED
  BY <1>1, <1>5, <1>6 DEF LiveInv

(* What the broker does with an order that was sent.                        *)
LEMMA BrokerInv ==
    ASSUME LiveInv, NEW e \in Entries, BrokerExecutes(e) \/ BrokerCloses(e)
    PROVE  LiveInv' /\ UNCHANGED entryVars
<1>1. UNCHANGED <<entryVars, call, scan>>
  BY DEF BrokerExecutes, BrokerCloses
<1>2. PICK x \in Executions \cup {"closed"} :
         /\ order' = [order EXCEPT ![e] = x]
         /\ \/ order[e] = "sent" /\ x \in Executions
            \/ order[e] = "opened" /\ x = "closed"
  BY DEF BrokerExecutes, BrokerCloses
<1>3. /\ order'[e] = x /\ CallTypes'
      /\ \A f \in Entries \ {e} : order'[f] = order[f]
  BY <1>1, <1>2 DEF LiveInv, CallTypes
<1>4. EntryInv' /\ ScanHolds'
  BY <1>1 DEF LiveInv, EntryInv, EntryTypeOK, FinalisedIsManaged, entryVars, ScanHolds
<1>5. Tracked(e)'
  BY <1>1, <1>2, <1>3 DEF LiveInv, Tracked, entryVars, Executions
<1>6. \A f \in Entries : Linked(f)' /\ Tracked(f)'
  BY <1>1, <1>3, <1>5, OneOperation DEF Kept, entryVars
<1> QED
  BY <1>1, <1>3, <1>4, <1>6 DEF LiveInv

-----------------------------------------------------------------------------
(* Every step of the live entry keeps the invariant and is a transaction of *)
(* the journal or none.                                                     *)
LEMMA LiveStep == LiveInv /\ [Next]_vars => LiveInv' /\ [EntryNext]_entryVars
<1> SUFFICES ASSUME LiveInv, [Next]_vars
             PROVE  LiveInv' /\ [EntryNext]_entryVars
  OBVIOUS
<1>1. CASE UNCHANGED vars
  <2>1. UNCHANGED <<entryVars, order, call, scan>>
    BY <1>1 DEF vars, entryVars
  <2>2. ScanShrinks
    BY <2>1 DEF ScanShrinks, LiveInv, ScanHolds
  <2> QED
    BY <2>1, <2>2, QuietStep
<1>2. ASSUME NEW e \in Entries, NEW p \in Procs, NEW c \in Clients, BeginEntry(p, e, c)
      PROVE  LiveInv' /\ [EntryNext]_entryVars
  BY <1>2, BeginEntryInv
<1>3. ASSUME NEW e \in Entries, Submitting(e)
      PROVE  LiveInv' /\ [EntryNext]_entryVars
  BY <1>3, PermitStepsInv, SendInv, MovesInv DEF Submitting, Moves
<1>4. ASSUME NEW e \in Entries, Capturing(e)
      PROVE  LiveInv' /\ [EntryNext]_entryVars
  BY <1>4, MovesInv, CommitInv, AssignInv, MarkStepInv DEF Capturing, Moves
<1>5. ASSUME NEW e \in Entries, BrokerExecutes(e) \/ BrokerCloses(e) \/ Archive(e)
      PROVE  LiveInv' /\ [EntryNext]_entryVars
  BY <1>5, BrokerInv, ArchiveInv
<1>6. ASSUME NEW p \in Procs, StartUp(p) \/ DeleteClosed(p)
      PROVE  LiveInv' /\ [EntryNext]_entryVars
  BY <1>6, QuietInv, ReadEntriesInv, RewriteEntryInv DEF StartUp, Quiet
<1>7. ASSUME NEW p \in Procs, Exit(p)
      PROVE  LiveInv' /\ [EntryNext]_entryVars
  BY <1>7, ExitInv
<1> QED
  BY <1>1, <1>2, <1>3, <1>4, <1>5, <1>6, <1>7 DEF Next

(* The call, the two processes and start-up use the journal as it is meant: *)
(* each step is one of its transactions, issued with a permit's owner, a    *)
(* state of the code and a row that was read, or touches no table.          *)
THEOREM LiveImplementsJournal == Spec => EntrySpec
<1>1. Init => EntryInit
  BY DEF Init
<1> QED
  BY <1>1, InitLiveInv, LiveStep, PTL DEF Spec, EntrySpec

(* A finalised entry has its position row, under every interleaving of      *)
(* calls, processes and recoveries (commit_verified_entry).                 *)
THEOREM LiveFinalisedIsManaged == Spec => []FinalisedIsManaged
BY LiveImplementsJournal, EntryFinalisedIsManaged, PTL

(* The broker gets at most one order for a client order id, for any number  *)
(* of processes, restarts and retries (begin_entry_submission).             *)
THEOREM LiveOneOrderPerClientId == Spec => []OneOrderPerClientId
<1>1. LiveInv => OneOrderPerClientId
  BY DEF LiveInv, Linked, Tracked, OneOrderPerClientId, BeforeSend
<1> QED
  BY <1>1, InitLiveInv, LiveStep, PTL DEF Spec

(* An order that was sent becomes a durable position, or keeps a row, which *)
(* is called rejected only when the broker rejected it (mark_entry,         *)
(* recover_entry_operations, archive_finalised_client_id).                  *)
THEOREM LiveOrderNeverForgotten == Spec => []OrderNeverForgotten
<1>1. LiveInv => OrderNeverForgotten
  BY DEF LiveInv, Tracked, OrderNeverForgotten, BeforeSend
<1> QED
  BY <1>1, InitLiveInv, LiveStep, PTL DEF Spec

(* A durable position is a trade the broker opened in full for this order,  *)
(* for any size of the order (classify_entry_response).                     *)
THEOREM LiveManagedIsOpened == Spec => []ManagedIsOpened
<1>1. LiveInv => ManagedIsOpened
  BY DEF LiveInv, EntryInv, EntryTypeOK, Tracked, ManagedIsOpened
<1> QED
  BY <1>1, InitLiveInv, LiveStep, PTL DEF Spec

(* Only a recovery that read its row before relabels a committed entry; no  *)
(* late mark of its own call does (mark_entry).                             *)
THEOREM LiveRelabelledByRecoveryOnly == Spec => RelabelledByRecoveryOnly
<1>1. ASSUME LiveInv, [Next]_vars, NEW e \in Entries,
             entry[e].st = "FINALISED", entry'[e] \notin {entry[e], NoRow}
      PROVE  \E p \in Procs : scan[p][e] # NoRow
  <2>1. PICK f \in Entries :
           \/ \E p \in Owners, c \in Clients : ReserveEntry(p, f, c)
           \/ CommitEntryIntent(By(f), f)
           \/ ClaimEntryPermit(By(f), f)
           \/ CommitVerifiedEntry(By(f), f)
           \/ MarkEntry(f, call[f].st)
           \/ ArchiveEntry(f)
           \/ \E p \in Procs : RewriteEntry(p, f)
    <3>1. entry' # entry
      BY <1>1
    <3>2. Next
      BY <1>1, <3>1 DEF vars
    <3> QED
      BY <3>1, <3>2, OwnersAssumption
         DEF Next, Submitting, Capturing, StartUp, otherProcess, entryVars, BeginEntry,
             CommitIntent, Authorise, ClaimPermit, Recheck, Refused, Send, Timeout,
             TransportError, Answer, Interpret, Unprotected, Commit, CaptureFails, Publish,
             Assign, Mark, MarkFails, StartSequence, ClaimRun, ReadEntries, PlacePosition,
             ReadPositions, FinishStartup, StartupBlocked, Exit, BrokerExecutes,
             BrokerCloses, DeleteClosed, Archive
  <2>2. f = e
    BY <1>1, <2>1
       DEF ReserveEntry, CommitEntryIntent, ClaimEntryPermit, CommitVerifiedEntry, MarkEntry,
           ArchiveEntry, RewriteEntry, RecoverEntry, LiveInv, EntryInv, EntryTypeOK
  <2>3. CASE \E p \in Procs : RewriteEntry(p, e)
    BY <2>3 DEF RewriteEntry
  <2>4. CASE ArchiveEntry(e)
    BY <1>1, <2>4 DEF ArchiveEntry, LiveInv, EntryInv, EntryTypeOK
  <2> QED
    BY <1>1, <2>1, <2>2, <2>3, <2>4
       DEF ReserveEntry, Fresh, NoRow, CommitEntryIntent, ClaimEntryPermit, ClaimableBy,
           CommitVerifiedEntry, Finalisable, MarkEntry, Markable
<1>2. LiveInv /\ [Next]_vars =>
         [\A e \in Entries :
             entry[e].st = "FINALISED" /\ entry'[e] \notin {entry[e], NoRow}
                 => \E p \in Procs : scan[p][e] # NoRow]_vars
  BY <1>1
<1> QED
  BY <1>2, InitLiveInv, LiveStep, PTL DEF Spec, RelabelledByRecoveryOnly
-----------------------------------------------------------------------------
BookType == book \in [Procs -> Entries \cup {NoEntry}]

\* What a step may do to the slots of the books.
SlotsKept ==
    \A p \in Procs : book'[p] = book[p] \/ book'[p] = NoEntry \/ book[p] = NoEntry

(* A capture writes the book only into a free slot (record_entry_response). *)
LEMMA AssignSlots ==
    ASSUME BookType, NEW e \in Entries, Assign(e)
    PROVE  BookType' /\ SlotsKept
<1>1. CASE SlotFree(By(e), e)
  <2>1. book' = [book EXCEPT ![By(e)] = e]
    BY <1>1 DEF Assign
  <2>2. \A p \in Procs : book'[p] = IF p = By(e) THEN e ELSE book[p]
    BY <2>1 DEF BookType
  <2>3. BookType'
    BY <2>1 DEF BookType
  <2> QED
    BY <1>1, <2>2, <2>3 DEF SlotFree, SlotsKept
<1>2. CASE ~SlotFree(By(e), e)
  BY <1>2 DEF Assign, BookType, SlotsKept
<1> QED
  BY <1>1, <1>2

(* So does start-up (publish_recovered).                                    *)
LEMMA PlaceSlots ==
    ASSUME BookType, NEW p \in Procs, NEW e \in Entries, PlacePosition(p, e)
    PROVE  BookType' /\ SlotsKept
<1>1. book' = book \/ (SlotFree(p, e) /\ book' = [book EXCEPT ![p] = e])
  BY DEF PlacePosition, Place
<1>2. CASE book' = book
  BY <1>2 DEF BookType, SlotsKept
<1>3. CASE SlotFree(p, e) /\ book' = [book EXCEPT ![p] = e]
  <2>1. \A q \in Procs : book'[q] = IF q = p THEN e ELSE book[q]
    BY <1>3 DEF BookType
  <2>2. BookType'
    BY <1>3 DEF BookType
  <2> QED
    BY <1>3, <2>1, <2>2 DEF SlotFree, SlotsKept
<1> QED
  BY <1>1, <1>2, <1>3

(* Every step keeps the slots.                                              *)
LEMMA SlotStep == BookType /\ [Next]_vars => BookType' /\ SlotsKept
<1> SUFFICES ASSUME BookType, [Next]_vars
             PROVE  BookType' /\ SlotsKept
  OBVIOUS
<1>1. CASE book' = book
  BY <1>1 DEF BookType, SlotsKept
<1>2. CASE \E p \in Procs : book' = [book EXCEPT ![p] = NoEntry]
  BY <1>2 DEF BookType, SlotsKept
<1>3. CASE \E e \in Entries : Assign(e)
  BY <1>3, AssignSlots
<1>4. CASE \E p \in Procs, e \in Entries : PlacePosition(p, e)
  BY <1>4, PlaceSlots
<1>5. CASE Next
  <2>1. ASSUME NEW e \in Entries,
               \/ \E p \in Procs, c \in Clients : BeginEntry(p, e, c)
               \/ Submitting(e) \/ Capturing(e)
               \/ BrokerExecutes(e) \/ BrokerCloses(e) \/ Archive(e)
        PROVE  book' = book \/ Assign(e)
    BY <2>1
       DEF otherProcess, memory, BeginEntry, Submitting, Capturing, CommitIntent, Authorise,
           ClaimPermit, Recheck, Refused, Send, Timeout, TransportError, Answer, Interpret,
           Unprotected, Commit, CaptureFails, Publish, Mark, MarkFails, BrokerExecutes,
           BrokerCloses, Archive
  <2>2. ASSUME NEW p \in Procs, StartUp(p) \/ Exit(p) \/ DeleteClosed(p)
        PROVE  \/ book' = book
               \/ book' = [book EXCEPT ![p] = NoEntry]
               \/ \E e \in Entries : PlacePosition(p, e)
    BY <2>2
       DEF memory, StartUp, StartSequence, ClaimRun, ReadEntries, RewriteEntry, ReadPositions,
           FinishStartup, StartupBlocked, Exit, DeleteClosed
  <2> QED
    BY <1>1, <1>2, <1>3, <1>4, <1>5, <2>1, <2>2 DEF Next
<1>6. CASE UNCHANGED vars
  BY <1>1, <1>6 DEF vars
<1> QED
  BY <1>5, <1>6

(* A position never takes the place of another one, for any number of       *)
(* entries captured at once (record_entry_response, publish_recovered).     *)
THEOREM LiveSlotNeverTaken == Spec => SlotNeverTaken
<1>1. Init => BookType
  BY DEF Init, BookType
<1>2. BookType /\ [Next]_vars =>
         [\A p \in Procs : book[p] # NoEntry => book'[p] \in {book[p], NoEntry}]_vars
  BY SlotStep DEF SlotsKept
<1> QED
  BY <1>1, <1>2, SlotStep, PTL DEF Spec, SlotNeverTaken
-----------------------------------------------------------------------------
\* What the entry path promises about orders: EntryGuard.tla.

\* A step that sends nothing, starts no call and commits no position.
NothingPromised ==
    /\ order' = order
    /\ managed' = managed
    /\ \A e \in Entries : call'[e].id = call[e].id

(* Such a step is none of the guard's.                                      *)
LEMMA PromisesKept ==
    ASSUME NothingPromised
    PROVE  UNCHANGED Guard!guardVars
<1>1. \A c \in Clients : SentUnder(c)' = SentUnder(c)
  BY DEF NothingPromised, SentUnder
<1> QED
  BY <1>1 DEF NothingPromised, Guard!guardVars

(* Beginning a call gives it a client id under which it has sent nothing.   *)
LEMMA BeginPromisesNothing ==
    ASSUME LiveInv, NEW p \in Procs, NEW e \in Entries, NEW c \in Clients, BeginEntry(p, e, c)
    PROVE  UNCHANGED Guard!guardVars
<1>1. order[e] = "unsent"
  BY DEF BeginEntry, At, LiveInv, Tracked, BeforeSend
<1>2. order' = order /\ managed' = managed
  BY DEF BeginEntry, ReserveEntry
<1>3. \A f \in Entries \ {e} : call'[f] = call[f]
  BY DEF BeginEntry, LiveInv, CallTypes
<1>4. \A d \in Clients : SentUnder(d)' = SentUnder(d)
  BY <1>1, <1>2, <1>3 DEF SentUnder
<1> QED
  BY <1>2, <1>4 DEF Guard!guardVars

(* An order goes out under a client id that no order went out under: the id *)
(* is registered for its operation (begin_entry_submission).                *)
LEMMA SendPromise ==
    ASSUME LiveInv, NEW e \in Entries, Send(e)
    PROVE  \E c \in Clients : Guard!SendOrder(c, e)
<1>1. PICK d \in Clients : d = call[e].id /\ d # NoId /\ order[e] = "unsent"
  BY DEF Send, At, LiveInv, Tracked, Linked, BeforeSend, CallTypes, Call
<1>2. order' = [order EXCEPT ![e] = "sent"] /\ managed' = managed
  BY DEF Send, entryVars
<1>3. \A f \in Entries : call'[f].id = call[f].id
  BY DEF Send, Goto, LiveInv, CallTypes, Call
<1>4. order'[e] = "sent" /\ \A f \in Entries \ {e} : order'[f] = order[f]
  BY <1>2 DEF LiveInv, CallTypes
<1>5. \A f \in Entries \ {e} : call[f].id # d
  BY <1>1 DEF LiveInv, Linked
<1>6. SentUnder(d) = {}
  BY <1>1, <1>5 DEF SentUnder
<1>7. SentUnder(d)' = {e}
  BY <1>1, <1>3, <1>4, <1>5 DEF SentUnder
<1>8. \A c \in Clients \ {d} : SentUnder(c)' = SentUnder(c)
  BY <1>1, <1>3, <1>4 DEF SentUnder
<1>9. [c \in Clients |-> SentUnder(c)]' = [[c \in Clients |-> SentUnder(c)] EXCEPT ![d] = {e}]
  <2>1. \A c \in Clients : SentUnder(c)' = IF c = d THEN {e} ELSE SentUnder(c)
    BY <1>7, <1>8
  <2> QED
    BY <2>1
<1>10. Guard!SendOrder(d, e)
  BY <1>1, <1>2, <1>6, <1>9 DEF Guard!SendOrder
<1> QED
  BY <1>1, <1>10

(* The broker decides on an order that was sent, or closes what it opened.  *)
LEMMA BrokerPromise ==
    ASSUME LiveInv, NEW e \in Entries, BrokerExecutes(e) \/ BrokerCloses(e)
    PROVE  Guard!Execute(e) \/ Guard!CloseTrade(e)
<1>1. call' = call /\ managed' = managed
  BY DEF BrokerExecutes, BrokerCloses, entryVars
<1>2. PICK x \in Executions \cup {"closed"} : order' = [order EXCEPT ![e] = x]
  BY DEF BrokerExecutes, BrokerCloses
<1>3. order[e] # "unsent" /\ order'[e] # "unsent" /\ \A f \in Entries \ {e} : order'[f] = order[f]
  BY <1>2 DEF BrokerExecutes, BrokerCloses, LiveInv, CallTypes, Executions
<1>4. \A c \in Clients : SentUnder(c)' = SentUnder(c)
  BY <1>1, <1>3 DEF SentUnder
<1>5. [c \in Clients |-> SentUnder(c)]' = [c \in Clients |-> SentUnder(c)]
  BY <1>4
<1>6. CASE BrokerExecutes(e)
  BY <1>1, <1>5, <1>6 DEF BrokerExecutes, Executions, Guard!Execute
<1>7. CASE BrokerCloses(e)
  BY <1>1, <1>5, <1>7 DEF BrokerCloses, Guard!CloseTrade
<1> QED
  BY <1>6, <1>7

(* What is committed was opened in full (record_entry_response).            *)
LEMMA CommitPromise ==
    ASSUME LiveInv, NEW e \in Entries, Commit(e)
    PROVE  Guard!Capture(e)
<1>1. order[e] \in {"opened", "closed"}
  BY DEF Commit, At, LiveInv, Tracked
<1>2. order' = order /\ managed' = managed \cup {e}
  BY DEF Commit, CommitVerifiedEntry
<1>3. \A f \in Entries : call'[f].id = call[f].id
  BY DEF Commit, Goto, LiveInv, CallTypes, Call
<1>4. \A c \in Clients : SentUnder(c)' = SentUnder(c)
  BY <1>2, <1>3 DEF SentUnder
<1> QED
  BY <1>1, <1>2, <1>4 DEF Guard!Capture

(* Every other step of a call promises nothing.                             *)
LEMMA CallPromisesNothing ==
    ASSUME LiveInv, NEW e \in Entries,
           CommitIntent(e) \/ ClaimPermit(e) \/ Moves(e) \/ Assign(e) \/ Mark(e)
    PROVE  NothingPromised
<1>1. order' = order /\ managed' = managed
  BY DEF CommitIntent, CommitEntryIntent, ClaimPermit, ClaimEntryPermit, Moves, Authorise,
         Recheck, Refused, Timeout, TransportError, Answer, Interpret, Unprotected,
         CaptureFails, Publish, MarkFails, Assign, Mark, MarkEntry, entryVars
<1>2. \/ \E s : Goto(e, s)
      \/ \E st : MarkNext(e, st)
      \/ End(e)
  BY DEF CommitIntent, ClaimPermit, Moves, Authorise, Recheck, Refused, Timeout,
         TransportError, Answer, Interpret, Unprotected, CaptureFails, Publish, MarkFails,
         Assign, Mark
<1>3. \A f \in Entries : call'[f].id = call[f].id
  BY <1>2 DEF Goto, MarkNext, End, LiveInv, CallTypes, Call
<1> QED
  BY <1>1, <1>3 DEF NothingPromised

(* Nor does start-up, an exit, or a deletion from the book.                 *)
LEMMA ProcessPromisesNothing ==
    ASSUME LiveInv, NEW p \in Procs,
           StartUp(p) \/ DeleteClosed(p) \/ Exit(p)
    PROVE  NothingPromised
<1>1. order' = order /\ managed' = managed
  BY DEF StartUp, StartSequence, ClaimRun, ReadEntries, RewriteEntry, RecoverEntry,
         PlacePosition, ReadPositions, FinishStartup, StartupBlocked, DeleteClosed, Exit,
         entryVars
<1>2. call' = call \/ Exit(p)
  BY DEF StartUp, StartSequence, ClaimRun, ReadEntries, RewriteEntry, PlacePosition,
         ReadPositions, FinishStartup, StartupBlocked, DeleteClosed
<1>3. ASSUME Exit(p), NEW f \in Entries
      PROVE  call'[f].id = call[f].id
  <2>1. call'[f] = call[f] \/ call'[f] = [call[f] EXCEPT !.at = "done", !.st = NoCall.st]
    BY <1>3 DEF Exit
  <2>2. call[f] \in Call
    BY DEF LiveInv, CallTypes
  <2> QED
    BY <2>1, <2>2 DEF Call
<1> QED
  BY <1>1, <1>2, <1>3 DEF NothingPromised

(* Every step is one of the guard's or none.                                *)
LEMMA PromiseStep == LiveInv /\ [Next]_vars => [Guard!GuardNext]_(Guard!guardVars)
<1> SUFFICES ASSUME LiveInv, [Next]_vars
             PROVE  Guard!GuardNext \/ UNCHANGED Guard!guardVars
  OBVIOUS
<1>1. CASE UNCHANGED vars
  BY <1>1, PromisesKept DEF vars, NothingPromised
<1>2. ASSUME NEW e \in Entries, NEW p \in Procs, NEW c \in Clients, BeginEntry(p, e, c)
      PROVE  UNCHANGED Guard!guardVars
  BY <1>2, BeginPromisesNothing
<1>3. ASSUME NEW e \in Entries, Submitting(e) \/ Capturing(e)
      PROVE  Guard!GuardNext \/ UNCHANGED Guard!guardVars
  <2>1. CASE Send(e)
    BY <2>1, SendPromise DEF Guard!GuardNext
  <2>2. CASE Commit(e)
    BY <2>2, CommitPromise DEF Guard!GuardNext
  <2>3. CASE CommitIntent(e) \/ ClaimPermit(e) \/ Moves(e) \/ Assign(e) \/ Mark(e)
    BY <2>3, CallPromisesNothing, PromisesKept
  <2> QED
    BY <1>3, <2>1, <2>2, <2>3 DEF Submitting, Capturing, Moves
<1>4. ASSUME NEW e \in Entries, BrokerExecutes(e) \/ BrokerCloses(e)
      PROVE  Guard!GuardNext
  BY <1>4, BrokerPromise DEF Guard!GuardNext
<1>5. ASSUME NEW e \in Entries, Archive(e)
      PROVE  UNCHANGED Guard!guardVars
  <2>1. order' = order /\ managed' = managed /\ call' = call
    BY <1>5 DEF Archive, ArchiveEntry
  <2> QED
    BY <2>1, PromisesKept DEF NothingPromised
<1>6. ASSUME NEW p \in Procs, StartUp(p) \/ DeleteClosed(p) \/ Exit(p)
      PROVE  UNCHANGED Guard!guardVars
  BY <1>6, ProcessPromisesNothing, PromisesKept
<1> QED
  BY <1>1, <1>2, <1>3, <1>4, <1>5, <1>6 DEF Next

(* The entry path implements EntryGuard: one order per client id, and a     *)
(* durable position only for a trade that was opened in full, for any       *)
(* number of processes, calls and restarts (begin_entry_submission,         *)
(* record_entry_response).                                                  *)
THEOREM LiveImplementsEntryGuard == Spec => ImplementsEntryGuard
<1>1. Init => Guard!GuardInit
  BY DEF Init, EntryInit, Guard!GuardInit, SentUnder
<1> QED
  BY <1>1, InitLiveInv, LiveStep, PromiseStep, PTL DEF Spec, ImplementsEntryGuard, Guard!GuardSpec
-----------------------------------------------------------------------------
(* Every step of the live entry is a step of the fence or none.             *)
LEMMA LiveFenceStep == [Next]_vars => [FenceNext]_fenceVars
<1> SUFFICES ASSUME [Next]_vars
             PROVE  [FenceNext]_fenceVars
  OBVIOUS
<1>1. CASE UNCHANGED vars
  BY <1>1 DEF vars, fenceVars
<1>2. ASSUME NEW e \in Entries,
             \/ \E p \in Procs, c \in Clients : BeginEntry(p, e, c)
             \/ Submitting(e) \/ Capturing(e)
             \/ BrokerExecutes(e) \/ BrokerCloses(e) \/ Archive(e)
      PROVE  UNCHANGED fenceVars
  BY <1>2
     DEF otherProcess, fenceVars, BeginEntry, Submitting, Capturing, CommitIntent, Authorise,
         ClaimPermit, Recheck, Refused, Send, Timeout, TransportError, Answer, Interpret,
         Unprotected, Commit, CaptureFails, Publish, Assign, Mark, MarkFails, BrokerExecutes,
         BrokerCloses, Archive
<1>3. ASSUME NEW p \in Procs, StartUp(p) \/ Exit(p) \/ DeleteClosed(p)
      PROVE  [FenceNext]_fenceVars
  BY <1>3
     DEF FenceNext, fenceVars, StartUp, StartSequence, ClaimRun, ReadEntries, RewriteEntry,
         PlacePosition, ReadPositions, FinishStartup, StartupBlocked, Exit, DeleteClosed
<1> QED
  BY <1>1, <1>2, <1>3 DEF Next

(* Live entries leave the fence what it promises: authority is exclusive    *)
(* and never returns to a fenced process (execute_startup_sequence).        *)
THEOREM LiveEntryImplementsFence == Spec => FenceSpec
<1>1. Init => FenceInit
  BY DEF Init
<1> QED
  BY <1>1, LiveFenceStep, PTL DEF Spec, FenceSpec
-----------------------------------------------------------------------------
\* What accounts for the positions that were captured.

MemoryTypes ==
    /\ start \in [Procs -> StartSteps]
    /\ view \in [Procs -> (SUBSET Entries) \cup {NoView}]
    /\ todo \in [Procs -> SUBSET Entries]
    /\ BookType
    /\ flagged \in [Procs -> BOOLEAN]
    /\ quar \in [Procs -> SUBSET Entries]

Active(e) == call[e].at \notin {"none", "lost", "done"}

\* A process that is flagged has an occupied slot, and one that rebuilds its
\* book is not in charge yet.
MemoryInv(p) ==
    /\ start[p] \in {"claim", "scan", "recover", "rebuild"} => rec[p] = "IN_PROGRESS"
    /\ todo[p] # {} => start[p] = "rebuild"
    /\ todo[p] \subseteq managed
    /\ book[p] # NoEntry => book[p] \in managed
    /\ flagged[p] => start[p] = "running" /\ book[p] # NoEntry

InMemory(p, e) == book[p] = e \/ e \in quar[p]

Captured(e) == e \in managed /\ call[e].at = "done" /\ order[e] = "opened"

\* A call runs in a process that runs, and has not filled the slot yet; what it
\* captured is in memory as soon as the book is rebuilt, or the process in charge.
CaptureInv(e) ==
    /\ call[e].at # "none" => By(e) \in Procs
    /\ Active(e) => start[By(e)] = "running" /\ book[By(e)] # e
    /\ call[e].at \in {"publish", "assign"} => e \in managed
    /\ e \in managed => call[e].at \in {"publish", "assign", "mark", "lost", "done"}
    /\ Captured(e) /\ start[By(e)] = "rebuild" => e \in todo[By(e)] \/ InMemory(By(e), e)
    /\ Captured(e) /\ LiveManagementPermitted(By(e)) => InMemory(By(e), e) \/ flagged[By(e)]

AccountInv ==
    /\ LiveInv
    /\ FenceInv
    /\ MemoryTypes
    /\ \A p \in Procs : MemoryInv(p)
    /\ \A e \in Entries : CaptureInv(e)

(* The initial states satisfy it: nothing is captured and nothing flagged.  *)
LEMMA InitAccountInv == Init => AccountInv
<1> SUFFICES ASSUME Init
             PROVE  AccountInv
  OBVIOUS
<1>1. LiveInv
  BY InitLiveInv
<1>2. FenceInv
  BY DEF Init, FenceInit, FenceInv, FenceTypeOK, EpochsUnique, RecoveryStates, NoEpoch
<1>3. MemoryTypes
  <2>1. /\ start \in [Procs -> StartSteps]
        /\ BookType
        /\ flagged \in [Procs -> BOOLEAN]
    BY DEF Init, BookType, StartSteps
  <2>2. view \in [Procs -> (SUBSET Entries) \cup {NoView}]
    BY DEF Init
  <2>3. todo \in [Procs -> SUBSET Entries] /\ quar \in [Procs -> SUBSET Entries]
    <3>1. {} \in SUBSET Entries
      OBVIOUS
    <3> QED
      BY <3>1 DEF Init
  <2> QED
    BY <2>1, <2>2, <2>3 DEF MemoryTypes
<1>4. \A p \in Procs : MemoryInv(p)
  BY DEF Init, MemoryInv, EntryInit
<1>5. \A e \in Entries : CaptureInv(e)
  BY DEF Init, CaptureInv, Captured, EntryInit, Active, NoCall
<1> QED
  BY <1>1, <1>2, <1>3, <1>4, <1>5 DEF AccountInv

(* A step of one call that leaves the memory of every process alone.        *)
LEMMA CallKeepsAccount ==
    ASSUME AccountInv, LiveInv', NEW e \in Entries,
           UNCHANGED <<fenceVars, start, memory>>,
           \A f \in Entries \ {e} : Kept(f),
           managed \subseteq managed',
           call[e].at # "none", call'[e].at # "none", call'[e].by = call[e].by,
           Active(e)' => Active(e),
           call'[e].at \in {"publish", "assign"} => e \in managed',
           e \in managed' => call'[e].at \in {"publish", "assign", "mark", "lost", "done"},
           Captured(e)' => \/ Captured(e)
                           \/ Active(e) /\ ~LiveManagementPermitted(By(e))
    PROVE  AccountInv'
<1>1. /\ start' = start /\ view' = view /\ todo' = todo /\ book' = book
      /\ flagged' = flagged /\ quar' = quar
      /\ authority' = authority /\ ep' = ep /\ rec' = rec
  BY DEF memory, fenceVars
<1>2. FenceInv' /\ MemoryTypes'
  BY <1>1 DEF AccountInv, FenceInv, FenceTypeOK, EpochsUnique, MemoryTypes, BookType
<1>3. \A p \in Procs : MemoryInv(p)'
  BY <1>1 DEF AccountInv, MemoryInv
<1>4. ASSUME NEW f \in Entries \ {e}
      PROVE  CaptureInv(f)'
  <2>1. By(f)' = By(f) /\ (Active(f)' <=> Active(f)) /\ (Captured(f)' <=> Captured(f))
    BY <1>4 DEF By, Kept, Active, Captured
  <2>2. /\ LiveManagementPermitted(By(f))' <=> LiveManagementPermitted(By(f))
        /\ InMemory(By(f), f)' <=> InMemory(By(f), f)
    BY <1>1, <2>1 DEF LiveManagementPermitted, AuthorityMatches, InMemory
  <2> QED
    BY <1>1, <1>4, <2>1, <2>2 DEF AccountInv, CaptureInv, Kept
<1>5. CaptureInv(e)'
  <2>1. By(e)' = By(e) /\ CaptureInv(e)
    BY DEF By, AccountInv
  <2>2. /\ LiveManagementPermitted(By(e))' <=> LiveManagementPermitted(By(e))
        /\ InMemory(By(e), e)' <=> InMemory(By(e), e)
    BY <1>1, <2>1 DEF LiveManagementPermitted, AuthorityMatches, InMemory
  <2> QED
    BY <1>1, <2>1, <2>2 DEF CaptureInv
<1> QED
  BY <1>2, <1>3, <1>4, <1>5 DEF AccountInv

(* A call that ends without having assigned the book.                       *)
LEMMA EndKeepsAccount ==
    ASSUME AccountInv, LiveInv', NEW e \in Entries, End(e), Active(e),
           UNCHANGED <<fenceVars, start, memory, order, managed>>,
           \A f \in Entries \ {e} : entry'[f] = entry[f],
           \/ call[e].at = "mark"
           \/ e \notin managed
           \/ ~LiveManagementPermitted(By(e))
    PROVE  AccountInv'
<1>1. call \in [Entries -> Call] /\ call[e] \in Call
  BY DEF AccountInv, LiveInv, CallTypes
<1>2. /\ \A f \in Entries \ {e} : Kept(f)
      /\ call'[e].by = call[e].by
      /\ call'[e].at = IF call[e].at = "mark" /\ e \in managed THEN "lost" ELSE "done"
  BY <1>1 DEF End, At, Kept, NoCall, Call
<1>3. Captured(e)' => Active(e) /\ ~LiveManagementPermitted(By(e))
  BY <1>2 DEF Captured
<1>4. ~Active(e)'
  BY <1>2 DEF Active
<1> QED
  BY <1>2, <1>3, <1>4, CallKeepsAccount DEF Active

(* A call that goes on to another step.                                     *)
LEMMA GoKeepsAccount ==
    ASSUME AccountInv, LiveInv', NEW e \in Entries, Active(e),
           NEW s \in CallSteps \ {"none", "lost", "done"}, NEW t \in BodyStates,
           \/ call' = [call EXCEPT ![e].at = s]
           \/ call' = [call EXCEPT ![e].at = s, ![e].st = t],
           UNCHANGED <<fenceVars, start, memory>>,
           \A f \in Entries \ {e} : /\ order'[f] = order[f] /\ entry'[f] = entry[f]
                                    /\ f \in managed' <=> f \in managed,
           managed \subseteq managed',
           s \in {"publish", "assign"} <=> e \in managed' /\ s # "mark"
    PROVE  AccountInv'
<1>1. call \in [Entries -> Call] /\ call[e] \in Call
  BY DEF AccountInv, LiveInv, CallTypes
<1>2. /\ \A f \in Entries \ {e} : Kept(f)
      /\ call'[e].by = call[e].by
      /\ call'[e].at = s
  BY <1>1 DEF Kept, Call
<1>3. ~Captured(e)'
  BY <1>2 DEF Captured
<1> QED
  BY <1>2, <1>3, CallKeepsAccount DEF Active

(* The steps that only move the call.                                       *)
LEMMA MovesAccount ==
    ASSUME AccountInv, NEW e \in Entries, Moves(e)
    PROVE  AccountInv'
<1>1. LiveInv'
  BY MovesInv DEF AccountInv
<1>2. UNCHANGED <<entryVars, order, fenceVars, start, memory>>
  BY DEF otherProcess, Moves, Authorise, Recheck, Refused, Timeout, TransportError,
         Answer, Interpret, Unprotected, CaptureFails, Publish, MarkFails
<1>3. UNCHANGED <<entry, registry, managed, order, fenceVars, start, memory>> /\ Active(e)
  BY <1>2
     DEF entryVars, Active, At, Moves, Authorise, Recheck, Refused, Timeout, TransportError,
         Answer, Interpret, Unprotected, CaptureFails, Publish, MarkFails
<1>4. e \in managed <=> call[e].at \in {"publish", "assign"} \/ (e \in managed /\ call[e].at = "mark")
  BY <1>3 DEF AccountInv, CaptureInv, Active
<1>5. "OUTCOME_AMBIGUOUS" \in BodyStates /\ "RECONCILIATION_REQUIRED" \in BodyStates
  BY DEF BodyStates
<1>6. ASSUME NEW st \in BodyStates, MarkNext(e, st)
      PROVE  AccountInv'
  <2>1. "mark" \in CallSteps \ {"none", "lost", "done"}
    BY DEF CallSteps
  <2> QED
    BY <1>1, <1>3, <1>6, <2>1, GoKeepsAccount DEF MarkNext
<1>7. ASSUME NEW s \in {"claim", "send", "interpret", "commit"}, Goto(e, s), e \notin managed
      PROVE  AccountInv'
  <2>1. s \in CallSteps \ {"none", "lost", "done"} /\ s \notin {"publish", "assign"}
    BY DEF CallSteps
  <2> QED
    BY <1>1, <1>3, <1>5, <1>7, <2>1, GoKeepsAccount DEF Goto
<1>8. CASE Authorise(e) \/ Recheck(e) \/ Answer(e)
  <2>1. e \notin managed
    BY <1>4, <1>8 DEF Authorise, Recheck, Answer, At
  <2> QED
    BY <1>7, <1>8, <2>1 DEF Authorise, Recheck, Answer
<1>9. CASE Interpret(e)
  <2>1. PICK st \in Readings(Executed(e)) :
           IF st = "CONFIRMED_SINGLE_TRADE" THEN Goto(e, "commit") ELSE MarkNext(e, st)
    BY <1>9 DEF Interpret
  <2>2. Executed(e) \in Executions
    BY <1>9 DEF Interpret, At, AccountInv, LiveInv, Tracked, Executed, Executions
  <2>3. st \in BodyStates
    BY <2>2, ReadingFacts
  <2>4. e \notin managed
    BY <1>4, <1>9 DEF Interpret, At
  <2> QED
    BY <1>6, <1>7, <2>1, <2>3, <2>4
<1>10. CASE Timeout(e) \/ Unprotected(e) \/ CaptureFails(e)
  BY <1>5, <1>6, <1>10 DEF Timeout, Unprotected, CaptureFails
<1>11. CASE Refused(e) \/ TransportError(e) \/ MarkFails(e)
  <2>1. End(e) /\ (call[e].at = "mark" \/ e \notin managed)
    BY <1>4, <1>11 DEF Refused, TransportError, MarkFails, At
  <2> QED
    BY <1>1, <1>3, <2>1, EndKeepsAccount
<1>12. CASE Publish(e)
  <2>1. CASE RecoveryFenceAllowsPublication(By(e))
    <3>1. Goto(e, "assign") /\ "assign" \in CallSteps \ {"none", "lost", "done"} /\ e \in managed
      BY <1>4, <1>12, <2>1 DEF Publish, At, CallSteps
    <3> QED
      BY <1>1, <1>3, <1>5, <3>1, GoKeepsAccount DEF Goto
  <2>2. CASE ~RecoveryFenceAllowsPublication(By(e))
    <3>1. End(e) /\ ~LiveManagementPermitted(By(e))
      BY <1>12, <2>2 DEF Publish, RecoveryFenceAllowsPublication, LiveManagementPermitted
    <3> QED
      BY <1>1, <1>3, <3>1, EndKeepsAccount
  <2> QED
    BY <2>1, <2>2
<1> QED
  BY <1>8, <1>9, <1>10, <1>11, <1>12 DEF Moves

(* The steps of a call that write a table or send the order.                *)
LEMMA WritesAccount ==
    ASSUME AccountInv, NEW e \in Entries,
           CommitIntent(e) \/ ClaimPermit(e) \/ Send(e) \/ Commit(e) \/ Mark(e)
    PROVE  AccountInv'
<1>1. LiveInv'
  BY PermitStepsInv, SendInv, CommitInv, MarkStepInv DEF AccountInv
<1>2. UNCHANGED <<fenceVars, start, memory>> /\ Active(e)
  BY DEF otherProcess, CommitIntent, ClaimPermit, Send, Commit, Mark, Active, At
<1>3. e \in managed => call[e].at \in {"publish", "assign", "mark"}
  BY <1>2 DEF AccountInv, CaptureInv, Active
<1>4. entry \in [Entries -> EntryRow \cup {NoRow}] /\ order \in [Entries -> {"unsent", "sent", "closed"} \cup Executions]
  BY DEF AccountInv, LiveInv, EntryInv, EntryTypeOK, CallTypes
<1>5. \A f \in Entries \ {e} : order'[f] = order[f] /\ entry'[f] = entry[f]
  BY <1>4 DEF CommitIntent, ClaimPermit, Send, Commit, Mark, CommitEntryIntent, entryVars,
              ClaimEntryPermit, CommitVerifiedEntry, MarkEntry
<1>6. CASE Mark(e)
  BY <1>1, <1>2, <1>5, <1>6, EndKeepsAccount DEF Mark, MarkEntry, At
<1>7. "OUTCOME_AMBIGUOUS" \in BodyStates
  BY DEF BodyStates
<1>8. CASE Commit(e)
  <2>1. /\ Goto(e, "publish") /\ "publish" \in CallSteps \ {"none", "lost", "done"}
        /\ managed' = managed \cup {e}
    BY <1>8 DEF Commit, CommitVerifiedEntry, CallSteps
  <2> QED
    BY <1>1, <1>2, <1>5, <1>7, <2>1, GoKeepsAccount DEF Goto
<1>9. CASE CommitIntent(e) \/ ClaimPermit(e) \/ Send(e)
  <2>1. PICK s \in {"authorise", "recheck", "await"} : Goto(e, s)
    BY <1>9 DEF CommitIntent, ClaimPermit, Send
  <2>2. managed' = managed /\ e \notin managed /\ s \in CallSteps \ {"none", "lost", "done"}
    BY <1>3, <1>9 DEF CommitIntent, ClaimPermit, Send, CommitEntryIntent, ClaimEntryPermit,
                      entryVars, At, CallSteps
  <2> QED
    BY <1>1, <1>2, <1>5, <1>7, <2>1, <2>2, GoKeepsAccount DEF Goto
<1> QED
  BY <1>6, <1>8, <1>9

(* The broker and the archive leave calls and memories alone.               *)
LEMMA OutsideAccount ==
    ASSUME AccountInv, NEW e \in Entries, BrokerExecutes(e) \/ BrokerCloses(e) \/ Archive(e)
    PROVE  AccountInv'
<1>1. LiveInv'
  BY BrokerInv, ArchiveInv DEF AccountInv
<1>2. UNCHANGED <<call, managed, fenceVars, start, memory>>
  BY DEF otherProcess, BrokerExecutes, BrokerCloses, Archive, ArchiveEntry, entryVars
<1>3. entry \in [Entries -> EntryRow \cup {NoRow}] /\ order \in [Entries -> {"unsent", "sent", "closed"} \cup Executions]
  BY DEF AccountInv, LiveInv, EntryInv, EntryTypeOK, CallTypes
<1>4. \A f \in Entries \ {e} : order'[f] = order[f] /\ entry'[f] = entry[f]
  BY <1>3 DEF BrokerExecutes, BrokerCloses, Archive, ArchiveEntry, entryVars
<1>5. call[e].at # "none"
  <2>1. CASE BrokerExecutes(e) \/ BrokerCloses(e)
    BY <2>1 DEF BrokerExecutes, BrokerCloses, AccountInv, LiveInv, Tracked, BeforeSend
  <2>2. CASE Archive(e)
    BY <2>2 DEF Archive, ArchiveEntry, AccountInv, LiveInv, EntryInv, FinalisedIsManaged, CaptureInv
  <2> QED
    BY <2>1, <2>2
<1>6. Captured(e)' => Captured(e)
  BY <1>2, <1>3
     DEF Captured, BrokerExecutes, BrokerCloses, Archive, AccountInv, LiveInv, Tracked
<1> QED
  BY <1>1, <1>2, <1>4, <1>5, <1>6, CallKeepsAccount DEF Kept, Active, AccountInv, CaptureInv

(* A call that begins has captured nothing yet.                             *)
LEMMA BeginAccount ==
    ASSUME AccountInv, NEW e \in Entries, NEW p \in Procs, NEW c \in Clients,
           BeginEntry(p, e, c)
    PROVE  AccountInv'
<1>1. LiveInv'
  BY BeginEntryInv DEF AccountInv
<1>2. /\ UNCHANGED <<order, managed>> /\ start[p] = "running" /\ call[e].at = "none"
      /\ start' = start /\ view' = view /\ todo' = todo /\ book' = book
      /\ flagged' = flagged /\ quar' = quar
      /\ authority' = authority /\ ep' = ep /\ rec' = rec
      /\ call' = [call EXCEPT ![e] = [NoCall EXCEPT !.at = "commit_intent", !.by = p, !.id = c]]
  BY DEF BeginEntry, ReserveEntry, otherProcess, memory, fenceVars, At
<1>3. FenceInv' /\ MemoryTypes'
  BY <1>2 DEF AccountInv, FenceInv, FenceTypeOK, EpochsUnique, MemoryTypes, BookType
<1>4. \A q \in Procs : MemoryInv(q)'
  BY <1>2 DEF AccountInv, MemoryInv
<1>5. /\ \A f \in Entries \ {e} : call'[f] = call[f]
      /\ call'[e].at = "commit_intent" /\ call'[e].by = p
  BY <1>2 DEF AccountInv, LiveInv, CallTypes, NoCall
<1>6. ASSUME NEW f \in Entries \ {e}
      PROVE  CaptureInv(f)'
  <2>1. By(f)' = By(f) /\ (Active(f)' <=> Active(f)) /\ (Captured(f)' <=> Captured(f))
    BY <1>2, <1>5 DEF By, Active, Captured
  <2>2. /\ LiveManagementPermitted(By(f))' <=> LiveManagementPermitted(By(f))
        /\ InMemory(By(f), f)' <=> InMemory(By(f), f)
    BY <1>2, <2>1 DEF LiveManagementPermitted, AuthorityMatches, InMemory
  <2> QED
    BY <1>2, <1>5, <1>6, <2>1, <2>2 DEF AccountInv, CaptureInv
<1>7. CaptureInv(e)'
  <2>1. e \notin managed
    BY <1>2 DEF AccountInv, CaptureInv
  <2>2. book[p] # e
    BY <2>1, NoEntryAssumption DEF AccountInv, MemoryInv
  <2> QED
    BY <1>2, <1>5, <2>1, <2>2 DEF CaptureInv, By, Captured
<1> QED
  BY <1>1, <1>3, <1>4, <1>6, <1>7 DEF AccountInv

(* A capture fills a free slot or flags the position that holds it          *)
(* (record_entry_response).                                                 *)
LEMMA AssignAccount ==
    ASSUME AccountInv, NEW e \in Entries, Assign(e)
    PROVE  AccountInv'
<1> DEFINE p == By(e)
<1>1. LiveInv'
  BY AssignInv DEF AccountInv
<1>2. /\ call[e].at = "assign" /\ e \in managed /\ p \in Procs
      /\ start[p] = "running" /\ book[p] # e
  BY DEF Assign, At, AccountInv, CaptureInv, Active
<1>3. /\ UNCHANGED <<order, managed>>
      /\ start' = start /\ view' = view /\ todo' = todo /\ quar' = quar
      /\ authority' = authority /\ ep' = ep /\ rec' = rec
  BY DEF Assign, entryVars, fenceVars
<1>4. call \in [Entries -> Call] /\ call[e] \in Call
  BY DEF AccountInv, LiveInv, CallTypes
<1>5. /\ \A f \in Entries \ {e} : call'[f] = call[f]
      /\ call'[e].by = p /\ call'[e].at = "done"
  BY <1>2, <1>4 DEF Assign, End, At, By, NoCall, Call
<1>6. book \in [Procs -> Entries \cup {NoEntry}] /\ flagged \in [Procs -> BOOLEAN]
  BY DEF AccountInv, MemoryTypes, BookType
<1>7. /\ \A q \in Procs \ {p} : book'[q] = book[q] /\ flagged'[q] = flagged[q]
      /\ \/ book[p] = NoEntry /\ book'[p] = e /\ flagged'[p] = FALSE
         \/ book[p] # NoEntry /\ book'[p] = book[p] /\ flagged'[p] = TRUE
      /\ book' \in [Procs -> Entries \cup {NoEntry}] /\ flagged' \in [Procs -> BOOLEAN]
  BY <1>2, <1>6 DEF Assign, SlotFree
<1> HIDE DEF p
<1>8. FenceInv' /\ MemoryTypes'
  BY <1>3, <1>7 DEF AccountInv, FenceInv, FenceTypeOK, EpochsUnique, MemoryTypes, BookType
<1>9. \A q \in Procs : MemoryInv(q)'
  BY <1>2, <1>3, <1>7, NoEntryAssumption DEF AccountInv, MemoryInv
<1>10. \A q \in Procs : LiveManagementPermitted(q)' <=> LiveManagementPermitted(q)
  BY <1>3 DEF LiveManagementPermitted, AuthorityMatches
<1>11. ASSUME NEW f \in Entries \ {e}
       PROVE  CaptureInv(f)'
  <2>1. By(f)' = By(f) /\ (Active(f)' <=> Active(f)) /\ (Captured(f)' <=> Captured(f))
    BY <1>3, <1>5 DEF By, Active, Captured
  <2>2. CaptureInv(f) /\ (flagged[p] => book[p] # NoEntry) /\ f # e /\ f # NoEntry
    BY <1>2, NoEntryAssumption DEF AccountInv, MemoryInv
  <2>3. By(f) \in Procs => (InMemory(By(f), f) => InMemory(By(f), f)')
    BY <1>3, <1>7, <2>1, <2>2 DEF InMemory
  <2>4. By(f) \in Procs => (flagged[By(f)] => flagged'[By(f)])
    BY <1>7, <2>2
  <2>5. By(f) \in Procs /\ book[By(f)] # f => book'[By(f)] # f
    BY <1>7, <2>2
  <2>6. Captured(f) => By(f) \in Procs
    BY <2>2 DEF CaptureInv, Captured
  <2>7. Active(f) => By(f) \in Procs
    BY <2>2 DEF CaptureInv, Active
  <2> QED
    BY <1>3, <1>5, <1>10, <1>11, <2>1, <2>2, <2>3, <2>4, <2>5, <2>6, <2>7 DEF CaptureInv
<1>12. CaptureInv(e)'
  BY <1>2, <1>3, <1>5, <1>7 DEF CaptureInv, By, Active, Captured, InMemory
<1> QED
  BY <1>1, <1>8, <1>9, <1>11, <1>12 DEF AccountInv

(* A step of start-up concerns one process.                                 *)
LEMMA ProcessKeepsAccount ==
    ASSUME AccountInv, LiveInv', FenceInv', MemoryTypes', NEW p \in Procs, MemoryInv(p)',
           UNCHANGED <<call, order, managed>>,
           \A q \in Procs \ {p} :
              /\ start'[q] = start[q] /\ todo'[q] = todo[q] /\ book'[q] = book[q]
              /\ flagged'[q] = flagged[q] /\ quar'[q] = quar[q] /\ rec'[q] = rec[q]
              /\ LiveManagementPermitted(q)' => LiveManagementPermitted(q),
           \A e \in Entries : By(e) = p /\ Active(e) => start'[p] = "running" /\ book'[p] # e,
           \A e \in Entries : By(e) = p /\ Captured(e) =>
              /\ start'[p] = "rebuild" => e \in todo'[p] \/ InMemory(p, e)'
              /\ LiveManagementPermitted(p)' => InMemory(p, e)' \/ flagged'[p]
    PROVE  AccountInv'
<1>1. \A q \in Procs \ {p} : MemoryInv(q)'
  BY DEF AccountInv, MemoryInv
<1>2. ASSUME NEW e \in Entries
      PROVE  CaptureInv(e)'
  <2>1. By(e)' = By(e) /\ (Active(e)' <=> Active(e)) /\ (Captured(e)' <=> Captured(e)) /\ CaptureInv(e)
    BY DEF By, Active, Captured, AccountInv
  <2>2. CASE By(e) = p
    BY <2>1, <2>2 DEF CaptureInv
  <2>3. CASE By(e) # p
    <3>1. Active(e) \/ Captured(e) => By(e) \in Procs \ {p}
      BY <2>1, <2>3 DEF CaptureInv, Active, Captured
    <3>2. By(e) \in Procs \ {p} => (InMemory(By(e), e) => InMemory(By(e), e)')
      BY <2>1 DEF InMemory
    <3> QED
      BY <2>1, <3>1, <3>2 DEF CaptureInv
  <2> QED
    BY <2>2, <2>3
<1> QED
  BY <1>1, <1>2 DEF AccountInv

(* Nobody else gains authority by what process p does to the fence.         *)
LEMMA OthersGainNothing ==
    ASSUME FenceInv, NEW p \in Procs,
           \/ BeginRecovery(p) \/ ClaimEpoch(p) \/ CompleteRecovery(p) \/ BlockRecovery(p)
           \/ ExitProcess(p) \/ UNCHANGED fenceVars
    PROVE  \A q \in Procs \ {p} :
              /\ rec'[q] = rec[q]
              /\ LiveManagementPermitted(q)' => LiveManagementPermitted(q)
<1>1. TAKE q \in Procs \ {p}
<1>2. /\ authority \in Nat /\ ep \in [Procs -> Nat] /\ rec \in [Procs -> RecoveryStates]
      /\ ep[q] <= authority
  BY DEF FenceInv, FenceTypeOK, EpochsUnique
<1>3. rec'[q] = rec[q] /\ ep'[q] = ep[q]
  BY <1>2 DEF BeginRecovery, ClaimEpoch, CompleteRecovery, BlockRecovery, ExitProcess, fenceVars
<1>4. authority' = authority \/ authority' = authority + 1
  BY DEF BeginRecovery, ClaimEpoch, CompleteRecovery, BlockRecovery, ExitProcess, fenceVars
<1>5. AuthorityMatches(q)' => AuthorityMatches(q)
  BY <1>2, <1>3, <1>4 DEF AuthorityMatches
<1> QED
  BY <1>3, <1>5 DEF LiveManagementPermitted, NoEpoch

(* A step of start-up, up to the rebuilding, keeps what is accounted for.   *)
LEMMA StartAccount ==
    ASSUME AccountInv, LiveInv', FenceInv', NEW p \in Procs,
           StartSequence(p) \/ ClaimRun(p) \/ ReadEntries(p) \/ (\E e \in Entries : RewriteEntry(p, e))
    PROVE  AccountInv'
<1>1. /\ UNCHANGED <<call, order, managed, todo, book, flagged, quar>>
      /\ start' = start \/ (\E s \in {"claim", "scan", "recover"} : start' = [start EXCEPT ![p] = s])
      /\ view' = view \/ (\E v \in {OpenTrades, NoView} : view' = [view EXCEPT ![p] = v])
      /\ BeginRecovery(p) \/ ClaimEpoch(p) \/ UNCHANGED fenceVars
  BY DEF StartSequence, ClaimRun, ReadEntries, RewriteEntry, RecoverEntry, memory, entryVars
<1>2. MemoryTypes'
  <2>1. OpenTrades \in SUBSET Entries
    BY DEF OpenTrades
  <2>2. view' \in [Procs -> (SUBSET Entries) \cup {NoView}]
    BY <1>1, <2>1 DEF AccountInv, MemoryTypes
  <2>3. start' \in [Procs -> StartSteps]
    BY <1>1 DEF AccountInv, MemoryTypes, StartSteps
  <2> QED
    BY <1>1, <2>2, <2>3 DEF AccountInv, MemoryTypes, BookType
<1>3. \A q \in Procs \ {p} : rec'[q] = rec[q] /\ (LiveManagementPermitted(q)' => LiveManagementPermitted(q))
  BY <1>1, OthersGainNothing DEF AccountInv
<1>4. \A q \in Procs \ {p} : start'[q] = start[q]
  BY <1>1 DEF AccountInv, MemoryTypes
<1>5. CASE \E e \in Entries : RewriteEntry(p, e)
  <2>1. UNCHANGED fenceVars /\ start' = start
    BY <1>5 DEF RewriteEntry
  <2>2. MemoryInv(p)'
    BY <1>1, <2>1 DEF AccountInv, MemoryInv, fenceVars
  <2>3. /\ LiveManagementPermitted(p)' <=> LiveManagementPermitted(p)
        /\ \A e \in Entries : InMemory(p, e)' <=> InMemory(p, e)
    BY <1>1, <2>1 DEF LiveManagementPermitted, AuthorityMatches, fenceVars, InMemory
  <2> QED
    BY <1>1, <1>2, <1>3, <2>1, <2>2, <2>3, ProcessKeepsAccount DEF AccountInv, CaptureInv
<1>6. CASE ~\E e \in Entries : RewriteEntry(p, e)
  <2>1. /\ start[p] \in {"down", "claim", "scan"}
        /\ start'[p] \in {"claim", "scan", "recover"}
        /\ rec'[p] = "IN_PROGRESS"
    BY <1>6 DEF StartSequence, ClaimRun, ReadEntries, BeginRecovery, ClaimEpoch, fenceVars,
                AccountInv, MemoryTypes, FenceInv, FenceTypeOK, MemoryInv
  <2>2. MemoryInv(p)'
    BY <1>1, <2>1 DEF AccountInv, MemoryInv
  <2>3. ~LiveManagementPermitted(p)'
    BY <2>1 DEF LiveManagementPermitted
  <2>4. \A e \in Entries : By(e) = p => ~Active(e)
    BY <2>1 DEF AccountInv, CaptureInv
  <2> QED
    BY <1>1, <1>2, <1>3, <1>4, <2>1, <2>2, <2>3, <2>4, ProcessKeepsAccount
<1> QED
  BY <1>5, <1>6

(* The book is cleared and the rows are read: every captured one is among   *)
(* them (load_managed_rows).                                                *)
LEMMA ReadPositionsAccount ==
    ASSUME AccountInv, LiveInv', FenceInv', NEW p \in Procs, ReadPositions(p)
    PROVE  AccountInv'
<1>1. /\ UNCHANGED <<call, order, managed, view, flagged, fenceVars>>
      /\ start[p] = "recover"
      /\ start' = [start EXCEPT ![p] = "rebuild"]
      /\ todo' = [todo EXCEPT ![p] = managed]
      /\ book' = [book EXCEPT ![p] = NoEntry]
      /\ quar' = [quar EXCEPT ![p] = {}]
  BY DEF ReadPositions, entryVars
<1>2. managed \in SUBSET Entries /\ MemoryTypes /\ MemoryInv(p)
  BY DEF AccountInv, LiveInv, EntryInv, EntryTypeOK
<1>3. MemoryTypes'
  BY <1>1, <1>2 DEF MemoryTypes, BookType, StartSteps
<1>4. \A q \in Procs \ {p} :
        /\ start'[q] = start[q] /\ todo'[q] = todo[q] /\ book'[q] = book[q]
        /\ flagged'[q] = flagged[q] /\ quar'[q] = quar[q] /\ rec'[q] = rec[q]
        /\ LiveManagementPermitted(q)' => LiveManagementPermitted(q)
  BY <1>1, <1>2 DEF MemoryTypes, BookType, fenceVars, LiveManagementPermitted, AuthorityMatches
<1>5. start'[p] = "rebuild" /\ todo'[p] = managed /\ book'[p] = NoEntry /\ rec'[p] = "IN_PROGRESS"
  BY <1>1, <1>2 DEF MemoryTypes, BookType, MemoryInv, fenceVars
<1>6. MemoryInv(p)'
  BY <1>1, <1>2, <1>5 DEF MemoryInv
<1>7. ~LiveManagementPermitted(p)'
  BY <1>5 DEF LiveManagementPermitted
<1>8. \A e \in Entries : By(e) = p => ~Active(e)
  BY <1>1 DEF AccountInv, CaptureInv
<1> QED
  BY <1>1, <1>3, <1>4, <1>5, <1>6, <1>7, <1>8, ProcessKeepsAccount DEF Captured

(* A row goes to the book or to quarantine (publish_recovered).             *)
LEMMA PlaceAccount ==
    ASSUME AccountInv, LiveInv', FenceInv', NEW p \in Procs, NEW f \in Entries,
           PlacePosition(p, f)
    PROVE  AccountInv'
<1>1. /\ UNCHANGED <<call, order, managed, view, start, flagged, fenceVars>>
      /\ f \in todo[p]
      /\ todo' = [todo EXCEPT ![p] = todo[p] \ {f}]
      /\ \/ quar' = [quar EXCEPT ![p] = quar[p] \cup {f}] /\ book' = book
         \/ SlotFree(p, f) /\ book' = [book EXCEPT ![p] = f] /\ quar' = quar
  BY DEF PlacePosition, Place, entryVars
<1>2. MemoryTypes /\ MemoryInv(p)
  BY DEF AccountInv
<1>3. start[p] = "rebuild" /\ f \in managed
  BY <1>1, <1>2 DEF MemoryInv
<1>4. MemoryTypes'
  <2>1. quar' \in [Procs -> SUBSET Entries] /\ todo' \in [Procs -> SUBSET Entries]
    BY <1>1, <1>2 DEF MemoryTypes
  <2>2. book' \in [Procs -> Entries \cup {NoEntry}]
    BY <1>1, <1>2 DEF MemoryTypes, BookType
  <2> QED
    BY <1>1, <1>2, <2>1, <2>2 DEF MemoryTypes, BookType
<1>5. \A q \in Procs \ {p} :
        /\ start'[q] = start[q] /\ todo'[q] = todo[q] /\ book'[q] = book[q]
        /\ flagged'[q] = flagged[q] /\ quar'[q] = quar[q] /\ rec'[q] = rec[q]
        /\ LiveManagementPermitted(q)' => LiveManagementPermitted(q)
  BY <1>1, <1>2 DEF MemoryTypes, BookType, fenceVars, LiveManagementPermitted, AuthorityMatches
<1>6. /\ todo'[p] = todo[p] \ {f}
      /\ \/ quar'[p] = quar[p] \cup {f} /\ book'[p] = book[p]
         \/ book[p] \in {NoEntry, f} /\ book'[p] = f /\ quar'[p] = quar[p]
  BY <1>1, <1>2 DEF MemoryTypes, BookType, SlotFree
<1>7. MemoryInv(p)' /\ ~LiveManagementPermitted(p)'
  BY <1>1, <1>2, <1>3, <1>6 DEF MemoryInv, LiveManagementPermitted, fenceVars
<1>8. \A e \in Entries : By(e) = p => ~Active(e)
  BY <1>3 DEF AccountInv, CaptureInv
<1>9. ASSUME NEW e \in Entries, By(e) = p, Captured(e)
      PROVE  e \in todo'[p] \/ InMemory(p, e)'
  BY <1>3, <1>6, <1>9, NoEntryAssumption DEF AccountInv, CaptureInv, InMemory
<1> QED
  BY <1>1, <1>4, <1>5, <1>7, <1>8, <1>9, ProcessKeepsAccount

(* Start-up ends: a completed one has placed every row it read              *)
(* (execute_startup_sequence).                                              *)
LEMMA EndStartAccount ==
    ASSUME AccountInv, LiveInv', FenceInv', NEW p \in Procs,
           FinishStartup(p) \/ StartupBlocked(p)
    PROVE  AccountInv'
<1>1. /\ UNCHANGED <<call, order, managed, book, flagged, quar>>
      /\ start[p] \in {"claim", "scan", "recover", "rebuild"}
      /\ start' = [start EXCEPT ![p] = "running"]
      /\ todo' = [todo EXCEPT ![p] = {}]
      /\ view' = [view EXCEPT ![p] = NoView]
      /\ \/ CompleteRecovery(p) /\ start[p] = "rebuild" /\ todo[p] = {}
         \/ BlockRecovery(p)
  BY DEF FinishStartup, StartupBlocked, Forget, entryVars
<1>2. MemoryTypes /\ MemoryInv(p)
  BY DEF AccountInv
<1>3. MemoryTypes'
  <2>1. todo' \in [Procs -> SUBSET Entries] /\ view' \in [Procs -> (SUBSET Entries) \cup {NoView}]
    BY <1>1, <1>2 DEF MemoryTypes
  <2> QED
    BY <1>1, <1>2, <2>1 DEF MemoryTypes, BookType, StartSteps
<1>4. \A q \in Procs \ {p} :
        /\ start'[q] = start[q] /\ todo'[q] = todo[q] /\ book'[q] = book[q]
        /\ flagged'[q] = flagged[q] /\ quar'[q] = quar[q]
  BY <1>1, <1>2 DEF MemoryTypes
<1>5. \A q \in Procs \ {p} :
        rec'[q] = rec[q] /\ (LiveManagementPermitted(q)' => LiveManagementPermitted(q))
  BY <1>1, OthersGainNothing DEF AccountInv
<1>6. start'[p] = "running" /\ todo'[p] = {}
  BY <1>1, <1>2 DEF MemoryTypes
<1>7. MemoryInv(p)'
  BY <1>1, <1>2, <1>6 DEF MemoryInv
<1>8. \A e \in Entries : By(e) = p => ~Active(e)
  BY <1>1 DEF AccountInv, CaptureInv
<1>9. ASSUME NEW e \in Entries, By(e) = p, Captured(e), LiveManagementPermitted(p)'
      PROVE  InMemory(p, e)'
  <2>1. rec'[p] = "COMPLETED"
    BY <1>9 DEF LiveManagementPermitted
  <2>2. start[p] = "rebuild" /\ todo[p] = {}
    BY <1>1, <2>1 DEF BlockRecovery, AccountInv, FenceInv, FenceTypeOK
  <2> QED
    BY <1>1, <1>9, <2>2 DEF AccountInv, CaptureInv, InMemory
<1> QED
  BY <1>1, <1>3, <1>4, <1>5, <1>6, <1>7, <1>8, <1>9, ProcessKeepsAccount

(* Only a closed position that is not flagged leaves the book.              *)
LEMMA DeleteAccount ==
    ASSUME AccountInv, LiveInv', FenceInv', NEW p \in Procs, DeleteClosed(p)
    PROVE  AccountInv'
<1>1. /\ UNCHANGED <<call, order, managed, start, view, todo, flagged, quar, fenceVars>>
      /\ order[book[p]] = "closed" /\ ~flagged[p] /\ rec[p] = "COMPLETED"
      /\ book' = [book EXCEPT ![p] = NoEntry]
  BY DEF DeleteClosed, entryVars, LiveManagementPermitted
<1>2. MemoryTypes /\ MemoryInv(p)
  BY DEF AccountInv
<1>3. MemoryTypes'
  BY <1>1, <1>2 DEF MemoryTypes, BookType
<1>4. \A q \in Procs :
        /\ start'[q] = start[q] /\ todo'[q] = todo[q] /\ flagged'[q] = flagged[q]
        /\ quar'[q] = quar[q] /\ rec'[q] = rec[q]
        /\ LiveManagementPermitted(q)' <=> LiveManagementPermitted(q)
        /\ book'[q] = IF q = p THEN NoEntry ELSE book[q]
  BY <1>1, <1>2 DEF MemoryTypes, BookType, fenceVars, LiveManagementPermitted, AuthorityMatches
<1>5. MemoryInv(p)'
  BY <1>1, <1>2, <1>4 DEF MemoryInv, fenceVars
<1>6. start[p] \notin {"rebuild"}
  BY <1>1, <1>2 DEF MemoryInv
<1>7. ASSUME NEW e \in Entries, By(e) = p, Captured(e), LiveManagementPermitted(p)
      PROVE  InMemory(p, e)'
  BY <1>1, <1>4, <1>7 DEF AccountInv, CaptureInv, InMemory, Captured
<1>8. \A e \in Entries : By(e) = p /\ Active(e) => start'[p] = "running" /\ book'[p] # e
  BY <1>4, NoEntryAssumption DEF AccountInv, CaptureInv
<1> QED
  BY <1>1, <1>3, <1>4, <1>5, <1>6, <1>7, <1>8, ProcessKeepsAccount

(* A process ends, and its memory with it.                                  *)
LEMMA ExitAccount ==
    ASSUME AccountInv, LiveInv', FenceInv', NEW p \in Procs, Exit(p)
    PROVE  AccountInv'
<1>1. /\ UNCHANGED <<order, managed>> /\ ExitProcess(p)
      /\ start' = [start EXCEPT ![p] = "down"]
      /\ todo' = [todo EXCEPT ![p] = {}]
      /\ view' = [view EXCEPT ![p] = NoView]
      /\ book' = [book EXCEPT ![p] = NoEntry]
      /\ flagged' = [flagged EXCEPT ![p] = FALSE]
      /\ quar' = [quar EXCEPT ![p] = {}]
      /\ call' = [e \in Entries |->
                    IF By(e) = p THEN [call[e] EXCEPT !.at = "done", !.st = NoCall.st]
                                 ELSE call[e]]
  BY DEF Exit, Forget, entryVars
<1>2. MemoryTypes /\ call \in [Entries -> Call]
  BY DEF AccountInv, LiveInv, CallTypes
<1>3. MemoryTypes'
  <2>1. todo' \in [Procs -> SUBSET Entries] /\ quar' \in [Procs -> SUBSET Entries]
    BY <1>1, <1>2 DEF MemoryTypes
  <2>2. view' \in [Procs -> (SUBSET Entries) \cup {NoView}]
    BY <1>1, <1>2 DEF MemoryTypes
  <2> QED
    BY <1>1, <1>2, <2>1, <2>2 DEF MemoryTypes, BookType, StartSteps
<1>4. \A q \in Procs \ {p} :
        /\ start'[q] = start[q] /\ todo'[q] = todo[q] /\ book'[q] = book[q]
        /\ flagged'[q] = flagged[q] /\ quar'[q] = quar[q]
  BY <1>1, <1>2 DEF MemoryTypes, BookType
<1>5. \A q \in Procs \ {p} :
        rec'[q] = rec[q] /\ (LiveManagementPermitted(q)' => LiveManagementPermitted(q))
  BY <1>1, OthersGainNothing DEF AccountInv
<1>6. /\ start'[p] = "down" /\ todo'[p] = {} /\ book'[p] = NoEntry /\ ~flagged'[p]
      /\ rec'[p] = "NOT_STARTED"
  BY <1>1, <1>2 DEF MemoryTypes, BookType, ExitProcess, AccountInv, FenceInv, FenceTypeOK
<1>7. \A q \in Procs : MemoryInv(q)'
  <2>1. MemoryInv(p)'
    BY <1>6 DEF MemoryInv
  <2>2. ASSUME NEW q \in Procs \ {p}
        PROVE  MemoryInv(q)'
    <3>1. /\ start'[q] = start[q] /\ todo'[q] = todo[q] /\ book'[q] = book[q]
          /\ flagged'[q] = flagged[q] /\ rec'[q] = rec[q] /\ managed' = managed
      BY <1>1, <1>4, <1>5
    <3>2. MemoryInv(q)
      BY DEF AccountInv
    <3> QED
      BY <3>1, <3>2 DEF MemoryInv
  <2> QED
    BY <2>1, <2>2
<1>8. ASSUME NEW e \in Entries
      PROVE  CaptureInv(e)'
  <2>1. CaptureInv(e) /\ call[e] \in Call
    BY <1>2 DEF AccountInv
  <2>2. CASE By(e) = p
    <3>1. call'[e].at = "done" /\ By(e)' = p
      BY <1>1, <2>1, <2>2 DEF By, Call
    <3>2. ~LiveManagementPermitted(p)'
      BY <1>6 DEF LiveManagementPermitted
    <3> QED
      BY <1>1, <1>6, <3>1, <3>2 DEF CaptureInv, Active
  <2>3. CASE By(e) # p
    <3>1. call'[e] = call[e]
      BY <1>1, <2>3
    <3>2. By(e)' = By(e) /\ (Active(e)' <=> Active(e)) /\ (Captured(e)' <=> Captured(e))
      BY <1>1, <3>1 DEF By, Active, Captured
    <3>3. Active(e) \/ Captured(e) => By(e) \in Procs \ {p}
      BY <2>1, <2>3 DEF CaptureInv, Active, Captured
    <3>4. By(e) \in Procs \ {p} => (InMemory(By(e), e) => InMemory(By(e), e)')
      BY <1>4, <3>2 DEF InMemory
    <3> QED
      BY <1>1, <1>4, <1>5, <2>1, <3>1, <3>2, <3>3, <3>4 DEF CaptureInv
  <2> QED
    BY <2>2, <2>3
<1> QED
  BY <1>3, <1>7, <1>8 DEF AccountInv

-----------------------------------------------------------------------------
(* Every step keeps the account of what was captured.                       *)
LEMMA AccountStep == AccountInv /\ [Next]_vars => AccountInv'
<1> SUFFICES ASSUME AccountInv, [Next]_vars
             PROVE  AccountInv'
  OBVIOUS
<1>1. LiveInv'
  BY LiveStep DEF AccountInv
<1>2. FenceInv'
  BY LiveFenceStep, StepFenceInv DEF AccountInv
<1>3. CASE UNCHANGED vars
  <2>1. /\ MemoryTypes' /\ \A p \in Procs : MemoryInv(p)'
    BY <1>3 DEF vars, AccountInv, MemoryTypes, BookType, MemoryInv
  <2>2. \A e \in Entries : CaptureInv(e)'
    BY <1>3 DEF vars, AccountInv, CaptureInv, Active, Captured, By, InMemory,
                LiveManagementPermitted, AuthorityMatches
  <2> QED
    BY <1>1, <1>2, <2>1, <2>2 DEF AccountInv
<1>4. ASSUME NEW e \in Entries, NEW p \in Procs, NEW c \in Clients, BeginEntry(p, e, c)
      PROVE  AccountInv'
  BY <1>4, BeginAccount
<1>5. ASSUME NEW e \in Entries, Submitting(e) \/ Capturing(e)
      PROVE  AccountInv'
  BY <1>5, MovesAccount, WritesAccount, AssignAccount DEF Submitting, Capturing, Moves
<1>6. ASSUME NEW e \in Entries, BrokerExecutes(e) \/ BrokerCloses(e) \/ Archive(e)
      PROVE  AccountInv'
  BY <1>6, OutsideAccount
<1>7. ASSUME NEW p \in Procs, StartUp(p) \/ DeleteClosed(p) \/ Exit(p)
      PROVE  AccountInv'
  BY <1>1, <1>2, <1>7, StartAccount, ReadPositionsAccount, PlaceAccount, EndStartAccount,
     DeleteAccount, ExitAccount
     DEF StartUp
<1> QED
  BY <1>3, <1>4, <1>5, <1>6, <1>7 DEF Next

(* Type correctness of live entries.                                        *)
THEOREM LiveEntryTypeCorrect == Spec => []TypeOK
<1>1. AccountInv => TypeOK
  BY DEF AccountInv, LiveInv, EntryInv, CallTypes, ScanHolds, FenceInv, MemoryTypes, BookType,
         TypeOK
<1> QED
  BY <1>1, InitAccountInv, AccountStep, PTL DEF Spec

(* A process in charge has every position its calls captured, in this life  *)
(* or an earlier one, for any number of processes, entries and restarts     *)
(* (record_entry_response, execute_startup_sequence).                       *)
THEOREM LiveCapturedIsAccounted == Spec => []CapturedIsAccounted
<1>1. AccountInv => CapturedIsAccounted
  BY DEF AccountInv, LiveInv, EntryInv, EntryTypeOK, CaptureInv, Captured, InMemory,
         CapturedIsAccounted, At
<1> QED
  BY <1>1, InitAccountInv, AccountStep, PTL DEF Spec
=============================================================================
