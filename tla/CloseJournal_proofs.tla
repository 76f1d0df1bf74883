------------------------- MODULE CloseJournal_proofs -------------------------
(* Proofs about the close journal, for any operations, trades and sessions. *)
EXTENDS CloseJournal, TLAPS

JournalInv == JournalTypeOK /\ OneUnresolvedPerTrade /\ ClaimHasIntent

-----------------------------------------------------------------------------
(* A row of a typed table is a Row or absent, and blocking rows are Rows.   *)
LEMMA RowFacts ==
    ASSUME JournalTypeOK, NEW o \in Ops
    PROVE  /\ rows[o] \in Row \/ rows[o] = NoRow
           /\ rows[o] # NoRow => rows[o] \in Row
           /\ Blocking(o) => rows[o] \in Row
BY DEF JournalTypeOK, Blocking, NoRow, Unsettled

(* A bootstrapped journal satisfies the invariant (bootstrap_journal).      *)
LEMMA InitJournalInv == JournalInit => JournalInv
<1> SUFFICES ASSUME JournalInit
             PROVE  JournalInv
  OBVIOUS
<1>1. ASSUME NEW t \in Trades
      PROVE  /\ BootstrapBlocker(t) \in Row
             /\ ~BootstrapBlocker(t).permit
  BY DEF BootstrapBlocker, PreparedRow, Row, ConfirmationStates, Resolved, Unsettled
<1>2. JournalTypeOK
  BY <1>1 DEF JournalInit, JournalTypeOK
<1>3. OneUnresolvedPerTrade
  BY DEF JournalInit, OneUnresolvedPerTrade
<1>4. Claimed = {}
  BY <1>1 DEF JournalInit, Claimed
<1> QED
  BY <1>2, <1>3, <1>4 DEF JournalInv, ClaimHasIntent

(* Reserving a row for a trade with none unresolved keeps the invariant.    *)
LEMMA ReserveInv ==
    ASSUME JournalInv, NEW o \in Ops, NEW t \in Trades, NEW g \in Nat, NEW u \in Nat,
           Reserve(o, t, g, u)
    PROVE  JournalInv'
<1>1. PreparedRow(t, g, u) \in Row
  BY DEF PreparedRow, Row, ConfirmationStates, Resolved, Unsettled
<1>2. \A q \in Ops : rows'[q] = IF q = o THEN PreparedRow(t, g, u) ELSE rows[q]
  BY DEF JournalInv, JournalTypeOK, Reserve
<1>3. JournalTypeOK'
  BY <1>1 DEF JournalInv, JournalTypeOK, Reserve
<1>4. OneUnresolvedPerTrade'
  BY <1>2 DEF JournalInv, Reserve, IndexAdmits, UnresolvedOn, OneUnresolvedPerTrade,
              Blocking, PreparedRow
<1>5. ClaimHasIntent'
  BY <1>2 DEF JournalInv, ClaimHasIntent, Claimed, PreparedRow
<1> QED
  BY <1>3, <1>4, <1>5 DEF JournalInv

(* Any write that keeps identity and permit of one row, and is admitted by  *)
(* the unique index, keeps the invariant.                                   *)
LEMMA WriteInv ==
    ASSUME JournalInv, NEW o \in Ops, rows[o] # NoRow,
           NEW r \in Row,
           rows' = [rows EXCEPT ![o] = r],
           r.trade = rows[o].trade,
           r.permit => r.intent /\ r.owner \in Sessions,
           r.st \in Unsettled => IndexAdmits(o, r.trade)
    PROVE  JournalInv'
<1>1. \A q \in Ops : rows'[q] = IF q = o THEN r ELSE rows[q]
  BY DEF JournalInv, JournalTypeOK
<1>2. JournalTypeOK'
  BY DEF JournalInv, JournalTypeOK
<1>3. OneUnresolvedPerTrade'
  BY <1>1 DEF JournalInv, IndexAdmits, UnresolvedOn, OneUnresolvedPerTrade, Blocking
<1>4. ClaimHasIntent'
  BY <1>1 DEF JournalInv, ClaimHasIntent, Claimed
<1> QED
  BY <1>2, <1>3, <1>4 DEF JournalInv

(* A blocking row is the only one of its trade the index can see.           *)
LEMMA BlockingIsAdmitted ==
    ASSUME JournalInv, NEW o \in Ops, Blocking(o)
    PROVE  IndexAdmits(o, rows[o].trade)
BY DEF JournalInv, OneUnresolvedPerTrade, IndexAdmits, UnresolvedOn

(* Committing an intent keeps the invariant (commit_submission_intent).     *)
LEMMA CommitIntentInv ==
    ASSUME JournalInv, NEW o \in Ops, NEW s \in Sessions, CommitSubmissionIntent(s, o)
    PROVE  JournalInv'
<1> DEFINE r == [rows[o] EXCEPT !.intent = TRUE, !.owner = s, !.st = "SUBMITTING"]
<1>1. Blocking(o) /\ rows[o] \in Row /\ rows[o] # NoRow
  BY RowFacts DEF CommitSubmissionIntent, Blocking, Unsettled, NoRow, JournalInv
<1>2. rows' = [rows EXCEPT ![o] = r]
  BY <1>1 DEF CommitSubmissionIntent, JournalInv, JournalTypeOK, Row
<1>3. r \in Row /\ r.trade = rows[o].trade /\ r.intent /\ r.owner \in Sessions
  BY <1>1 DEF Row, ConfirmationStates, Unsettled
<1>4. IndexAdmits(o, r.trade)
  BY <1>1, <1>3, BlockingIsAdmitted
<1> HIDE DEF r
<1> QED
  BY <1>1, <1>2, <1>3, <1>4, WriteInv

(* Claiming the network permit keeps the invariant (claim_network_permit).  *)
LEMMA ClaimPermitInv ==
    ASSUME JournalInv, NEW o \in Ops, NEW s \in Sessions, ClaimNetworkPermit(s, o)
    PROVE  JournalInv'
<1> DEFINE r == [rows[o] EXCEPT !.permit = TRUE]
<1>1. Blocking(o) /\ rows[o] \in Row /\ rows[o] # NoRow
  BY RowFacts
     DEF ClaimNetworkPermit, MayClaim, SubmissionAuthorized, Blocking, Unsettled, NoRow, JournalInv
<1>2. rows' = [rows EXCEPT ![o] = r]
  BY <1>1 DEF ClaimNetworkPermit, JournalInv, JournalTypeOK
<1>3. r \in Row /\ r.trade = rows[o].trade /\ r.intent /\ r.owner \in Sessions
  BY <1>1 DEF Row, ClaimNetworkPermit, MayClaim, SubmissionAuthorized
<1>4. IndexAdmits(o, r.trade)
  BY <1>1, <1>3, BlockingIsAdmitted
<1> HIDE DEF r
<1> QED
  BY <1>1, <1>2, <1>3, <1>4, WriteInv

(* A mark by operation id alone keeps the invariant, whatever the row held  *)
(* (mark).                                                                  *)
LEMMA MarkInv ==
    ASSUME JournalInv, NEW o \in Ops, NEW st \in ConfirmationStates,
           NEW tx \in Transactions \cup {NoOp}, Mark(o, st, tx)
    PROVE  JournalInv'
<1> DEFINE r == [rows[o] EXCEPT !.st = st, !.tx = tx]
<1>1. rows[o] \in Row /\ rows[o] # NoRow
  BY RowFacts DEF Mark, JournalInv
<1>2. rows' = [rows EXCEPT ![o] = r]
  BY <1>1 DEF Mark, JournalInv, JournalTypeOK
<1>3. /\ r \in Row /\ r.trade = rows[o].trade /\ r.st = st
      /\ r.permit = rows[o].permit /\ r.intent = rows[o].intent /\ r.owner = rows[o].owner
  BY <1>1 DEF Row
<1>4. r.permit => r.intent /\ r.owner \in Sessions
  BY <1>1, <1>3 DEF JournalInv, ClaimHasIntent, Claimed
<1>5. r.st \in Unsettled => IndexAdmits(o, r.trade)
  BY <1>3 DEF Mark, MarkAdmitted
<1> HIDE DEF r
<1> QED
  BY <1>1, <1>2, <1>3, <1>4, <1>5, WriteInv

(* Recording a local deletion keeps the invariant (finalise).               *)
LEMMA FinaliseInv ==
    ASSUME JournalInv, NEW o \in Ops, Finalise(o)
    PROVE  JournalInv'
<1> DEFINE r == [rows[o] EXCEPT !.st = "FINALISED"]
<1>1. rows[o] \in Row /\ rows[o] # NoRow
  BY RowFacts DEF Finalise, MayFinalise, NoRow, JournalInv
<1>2. rows' = [rows EXCEPT ![o] = r]
  BY <1>1 DEF Finalise, JournalInv, JournalTypeOK
<1>3. /\ r \in Row /\ r.trade = rows[o].trade /\ r.st \notin Unsettled
      /\ r.permit = rows[o].permit /\ r.intent = rows[o].intent /\ r.owner = rows[o].owner
  BY <1>1 DEF Row, ConfirmationStates, Resolved, Unsettled
<1>4. r.permit => r.intent /\ r.owner \in Sessions
  BY <1>1, <1>3 DEF JournalInv, ClaimHasIntent, Claimed
<1> HIDE DEF r
<1> QED
  BY <1>1, <1>2, <1>3, <1>4, WriteInv

(* Every transaction of the journal keeps the invariant.                    *)
LEMMA StepJournalInv == JournalInv /\ [JournalNext]_rows => JournalInv'
<1> SUFFICES ASSUME JournalInv, [JournalNext]_rows
             PROVE  JournalInv'
  OBVIOUS
<1>1. CASE UNCHANGED rows
  BY <1>1 DEF JournalInv, JournalTypeOK, OneUnresolvedPerTrade, ClaimHasIntent, Claimed, Blocking
<1>2. ASSUME NEW o \in Ops, NEW t \in Trades, NEW g \in {1}, NEW u \in {1}, Reserve(o, t, g, u)
      PROVE  JournalInv'
  BY <1>2, ReserveInv
<1>3. ASSUME NEW o \in Ops, NEW s \in Sessions,
             CommitSubmissionIntent(s, o) \/ ClaimNetworkPermit(s, o)
      PROVE  JournalInv'
  BY <1>3, CommitIntentInv, ClaimPermitInv
<1>4. ASSUME NEW o \in Ops, NEW st \in ConfirmationStates, NEW tx \in Transactions \cup {NoOp},
             Mark(o, st, tx)
      PROVE  JournalInv'
  BY <1>4, MarkInv
<1>5. ASSUME NEW o \in Ops, Finalise(o)
      PROVE  JournalInv'
  BY <1>5, FinaliseInv
<1> QED
  BY <1>1, <1>2, <1>3, <1>4, <1>5 DEF JournalNext

(* The inductive invariant holds of every behaviour of the journal: types,  *)
(* one unresolved operation per trade (one_unresolved_close), and a committed*)
(* intent under every claim.                                                *)
THEOREM JournalInvariant == JournalSpec => []JournalInv
BY InitJournalInv, StepJournalInv, PTL DEF JournalSpec

(* Type correctness of the close_operations table.                          *)
THEOREM JournalTypeCorrect == JournalSpec => []JournalTypeOK
<1>1. JournalInv => JournalTypeOK
  BY DEF JournalInv
<1> QED
  BY <1>1, JournalInvariant, PTL

(* A granted claim rests on a committed intent of the same session, through *)
(* every interleaving of reservations, marks and recoveries                 *)
(* (claim_network_permit).                                                  *)
THEOREM JournalClaimHasIntent == JournalSpec => []ClaimHasIntent
<1>1. JournalInv => ClaimHasIntent
  BY DEF JournalInv
<1> QED
  BY <1>1, JournalInvariant, PTL

-----------------------------------------------------------------------------
(* How one write changes the set of open claims.                            *)
LEMMA OpenClaimsAfterWrite ==
    ASSUME JournalInv, NEW o \in Ops, rows[o] \in Row, NEW r \in Row,
           rows' = [rows EXCEPT ![o] = r],
           r.trade = rows[o].trade
    PROVE  /\ Claimed' = IF r.permit THEN Claimed \cup {o} ELSE Claimed \ {o}
           /\ \A t \in Trades :
                 OpenClaims'[t] = IF t = r.trade
                                  THEN IF r.permit /\ r.st \in Unsettled
                                       THEN OpenClaims[t] \cup {o}
                                       ELSE OpenClaims[t] \ {o}
                                  ELSE OpenClaims[t]
<1>1. \A q \in Ops : rows'[q] = IF q = o THEN r ELSE rows[q]
  BY DEF JournalInv, JournalTypeOK
<1>2. r # NoRow
  BY DEF Row, NoRow, ConfirmationStates, Resolved, Unsettled
<1>3. Claimed' = IF r.permit THEN Claimed \cup {o} ELSE Claimed \ {o}
  BY <1>1, <1>2 DEF Claimed
<1>4. \A t \in Trades :
         UnresolvedOn(t)' = IF t = r.trade /\ r.st \in Unsettled
                            THEN UnresolvedOn(t) \cup {o}
                            ELSE IF t = r.trade THEN UnresolvedOn(t) \ {o} ELSE UnresolvedOn(t)
  BY <1>1 DEF UnresolvedOn, Blocking
<1>5. \A t \in Trades : t # r.trade => o \notin UnresolvedOn(t)
  BY DEF UnresolvedOn
<1> QED
  BY <1>3, <1>4, <1>5 DEF OpenClaims

(* With one unresolved operation per trade, a trade has at most that claim. *)
LEMMA OpenClaimsBound ==
    ASSUME JournalInv, NEW o \in Ops, NEW t \in Trades, IndexAdmits(o, t)
    PROVE  OpenClaims[t] \subseteq {o}
BY DEF OpenClaims, IndexAdmits

(* A write that leaves the permit alone opens, reopens or resolves a claim  *)
(* of its own trade only.                                                   *)
LEMMA WriteImplementsGuard ==
    ASSUME JournalInv, NEW o \in Ops, rows[o] \in Row, NEW r \in Row,
           rows' = [rows EXCEPT ![o] = r],
           r.trade = rows[o].trade, r.permit = rows[o].permit,
           r.st \in Unsettled => IndexAdmits(o, r.trade)
    PROVE  [G!GuardNext]_(G!guardVars)
<1> DEFINE t == r.trade
<1>1. t \in Trades /\ rows[o] # NoRow
  BY DEF Row, NoRow, ConfirmationStates, Resolved, Unsettled
<1>2. Claimed' = Claimed /\ (r.permit <=> o \in Claimed)
  BY <1>1, OpenClaimsAfterWrite DEF Claimed
<1>3. \A q \in Trades : q # t => OpenClaims'[q] = OpenClaims[q]
  BY OpenClaimsAfterWrite
<1>4. OpenClaims' = [OpenClaims EXCEPT ![t] = OpenClaims'[t]]
  BY <1>1, <1>3 DEF OpenClaims
<1>5. CASE ~r.permit
  <2>1. OpenClaims'[t] = OpenClaims[t] \ {o} /\ o \notin OpenClaims[t]
    BY <1>1, <1>2, <1>5, OpenClaimsAfterWrite DEF OpenClaims
  <2>2. OpenClaims' = OpenClaims
    BY <1>4, <2>1 DEF OpenClaims
  <2> QED
    BY <1>2, <2>2 DEF G!guardVars
<1>6. CASE r.permit /\ r.st \in Unsettled
  <2>1. OpenClaims[t] \subseteq {o} /\ OpenClaims'[t] = {o}
    BY <1>1, <1>6, OpenClaimsBound, OpenClaimsAfterWrite
  <2>2. CASE OpenClaims[t] = {}
    <3>1. G!Reopen(t, o)
      BY <1>2, <1>4, <1>6, <2>1, <2>2 DEF G!Reopen
    <3> QED
      BY <1>1, <3>1 DEF G!GuardNext
  <2>3. CASE OpenClaims[t] = {o}
    <3>1. OpenClaims' = OpenClaims
      BY <1>4, <2>1, <2>3 DEF OpenClaims
    <3> QED
      BY <1>2, <3>1 DEF G!guardVars
  <2> QED
    BY <2>1, <2>2, <2>3
<1>7. CASE r.permit /\ r.st \notin Unsettled
  <2>1. OpenClaims'[t] = OpenClaims[t] \ {o}
    BY <1>1, <1>7, OpenClaimsAfterWrite
  <2>2. CASE Blocking(o)
    <3>1. OpenClaims'[t] = {}
      BY <1>1, <2>1, <2>2, BlockingIsAdmitted, OpenClaimsBound
    <3>2. G!Resolve(t)
      BY <1>2, <1>4, <3>1 DEF G!Resolve
    <3> QED
      BY <1>1, <3>2 DEF G!GuardNext
  <2>3. CASE ~Blocking(o)
    <3>a. o \notin OpenClaims[t]
      BY <1>1, <2>3 DEF OpenClaims, UnresolvedOn
    <3>b. OpenClaims'[t] = OpenClaims[t]
      BY <2>1, <3>a
    <3>1. OpenClaims' = OpenClaims
      BY <1>4, <3>b DEF OpenClaims
    <3> QED
      BY <1>2, <3>1 DEF G!guardVars
  <2> QED
    BY <2>2, <2>3
<1> QED
  BY <1>5, <1>6, <1>7

(* A reservation opens no claim (reserve).                                  *)
LEMMA ReserveImplementsGuard ==
    ASSUME JournalInv, NEW o \in Ops, NEW t \in Trades, NEW g \in Nat, NEW u \in Nat,
           Reserve(o, t, g, u)
    PROVE  UNCHANGED G!guardVars
<1>1. \A q \in Ops : rows'[q] = IF q = o THEN PreparedRow(t, g, u) ELSE rows[q]
  BY DEF JournalInv, JournalTypeOK, Reserve
<1>2. rows[o] = NoRow /\ ~PreparedRow(t, g, u).permit
  BY DEF Reserve, PreparedRow
<1>3. Claimed' = Claimed
  BY <1>1, <1>2 DEF Claimed
<1>4. \A q \in Trades : (UnresolvedOn(q) \cap Claimed)' = UnresolvedOn(q) \cap Claimed
  BY <1>1, <1>2 DEF UnresolvedOn, Claimed, Blocking
<1> QED
  BY <1>3, <1>4 DEF G!guardVars, OpenClaims

(* A committed intent opens no claim (commit_submission_intent).            *)
LEMMA CommitIntentImplementsGuard ==
    ASSUME JournalInv, NEW o \in Ops, NEW s \in Sessions, CommitSubmissionIntent(s, o)
    PROVE  [G!GuardNext]_(G!guardVars)
<1> DEFINE r == [rows[o] EXCEPT !.intent = TRUE, !.owner = s, !.st = "SUBMITTING"]
<1>1. Blocking(o) /\ rows[o] \in Row
  BY RowFacts DEF CommitSubmissionIntent, Blocking, Unsettled, JournalInv
<1>2. rows' = [rows EXCEPT ![o] = r]
  BY <1>1 DEF CommitSubmissionIntent, JournalInv, JournalTypeOK, Row
<1>3. r \in Row /\ r.trade = rows[o].trade /\ r.permit = rows[o].permit
  BY <1>1 DEF Row, ConfirmationStates, Unsettled
<1>4. IndexAdmits(o, r.trade)
  BY <1>1, <1>3, BlockingIsAdmitted
<1> HIDE DEF r
<1> QED
  BY <1>1, <1>2, <1>3, <1>4, WriteImplementsGuard

\* The one step that grants the right to send: a claim of the abstract guard.
LEMMA ClaimImplementsGuard ==
    ASSUME JournalInv, NEW o \in Ops, NEW s \in Sessions, ClaimNetworkPermit(s, o)
    PROVE  \E t \in Trades : G!Claim(t, o)
<1> DEFINE r == [rows[o] EXCEPT !.permit = TRUE]
<1> DEFINE t == rows[o].trade
<1>1. Blocking(o) /\ rows[o] \in Row /\ ~rows[o].permit /\ t \in Trades
  BY RowFacts
     DEF ClaimNetworkPermit, MayClaim, SubmissionAuthorized, Blocking, Unsettled, JournalInv, Row
<1>2. rows' = [rows EXCEPT ![o] = r]
  BY <1>1 DEF ClaimNetworkPermit, JournalInv, JournalTypeOK
<1>3. r \in Row /\ r.trade = t /\ r.permit /\ r.st \in Unsettled
  BY <1>1 DEF Row, Blocking
<1> HIDE DEF r
<1>4. o \notin Claimed /\ OpenClaims[t] = {}
  <2>1. o \notin Claimed
    BY <1>1 DEF Claimed
  <2>2. OpenClaims[t] \subseteq {o}
    BY <1>1, BlockingIsAdmitted, OpenClaimsBound
  <2>3. o \notin OpenClaims[t]
    BY <1>1, <2>1 DEF OpenClaims
  <2> QED
    BY <2>1, <2>2, <2>3
<1>5. Claimed' = Claimed \cup {o}
  BY <1>1, <1>2, <1>3, OpenClaimsAfterWrite
<1>6. \A q \in Trades : OpenClaims'[q] = IF q = t THEN OpenClaims[q] \cup {o} ELSE OpenClaims[q]
  <2>1. \A q \in Trades :
           OpenClaims'[q] = IF q = r.trade
                            THEN IF r.permit /\ r.st \in Unsettled
                                 THEN OpenClaims[q] \cup {o}
                                 ELSE OpenClaims[q] \ {o}
                            ELSE OpenClaims[q]
    BY <1>1, <1>2, <1>3, OpenClaimsAfterWrite
  <2> QED
    BY <2>1, <1>3
<1>7. OpenClaims' = [OpenClaims EXCEPT ![t] = {o}]
  <2>1. OpenClaims = [q \in Trades |-> OpenClaims[q]]
    BY DEF OpenClaims
  <2>2. OpenClaims' = [q \in Trades |-> OpenClaims'[q]]
    BY DEF OpenClaims
  <2>3. \A q \in Trades : OpenClaims'[q] = IF q = t THEN {o} ELSE OpenClaims[q]
    BY <1>4, <1>6
  <2> QED
    BY <2>1, <2>2, <2>3
<1> QED
  BY <1>1, <1>4, <1>5, <1>7 DEF G!Claim

(* A mark opens, reopens or resolves the claim of its own row only (mark).  *)
LEMMA MarkImplementsGuard ==
    ASSUME JournalInv, NEW o \in Ops, NEW st \in ConfirmationStates,
           NEW tx \in Transactions \cup {NoOp}, Mark(o, st, tx)
    PROVE  [G!GuardNext]_(G!guardVars)
<1> DEFINE r == [rows[o] EXCEPT !.st = st, !.tx = tx]
<1>1. rows[o] \in Row
  BY RowFacts DEF Mark, JournalInv
<1>2. rows' = [rows EXCEPT ![o] = r]
  BY <1>1 DEF Mark, JournalInv, JournalTypeOK
<1>3. r \in Row /\ r.trade = rows[o].trade /\ r.permit = rows[o].permit /\ r.st = st
  BY <1>1 DEF Row
<1>4. r.st \in Unsettled => IndexAdmits(o, r.trade)
  BY <1>3 DEF Mark, MarkAdmitted
<1> HIDE DEF r
<1> QED
  BY <1>1, <1>2, <1>3, <1>4, WriteImplementsGuard

(* Recording a deletion resolves the claim of its row (finalise).           *)
LEMMA FinaliseImplementsGuard ==
    ASSUME JournalInv, NEW o \in Ops, Finalise(o)
    PROVE  [G!GuardNext]_(G!guardVars)
<1> DEFINE r == [rows[o] EXCEPT !.st = "FINALISED"]
<1>1. rows[o] \in Row
  BY RowFacts DEF Finalise, MayFinalise, NoRow, JournalInv
<1>2. rows' = [rows EXCEPT ![o] = r]
  BY <1>1 DEF Finalise, JournalInv, JournalTypeOK
<1>3. r \in Row /\ r.trade = rows[o].trade /\ r.permit = rows[o].permit /\ r.st \notin Unsettled
  BY <1>1 DEF Row, ConfirmationStates, Resolved, Unsettled
<1> HIDE DEF r
<1> QED
  BY <1>1, <1>2, <1>3, WriteImplementsGuard

(* The journal implements the abstract guard: for any number of operations, *)
(* trades and sessions, the right to contact the broker is granted once per *)
(* operation and never twice for a trade with an open outcome.              *)
THEOREM JournalImplementsGuard == JournalSpec => ImplementsGuard
<1>1. JournalInit => G!GuardInit
  <2> SUFFICES ASSUME JournalInit
               PROVE  G!GuardInit
    OBVIOUS
  <2>a. \A t \in Trades : ~BootstrapBlocker(t).permit
    BY DEF BootstrapBlocker, PreparedRow
  <2>1. Claimed = {}
    BY <2>a DEF JournalInit, Claimed
  <2>2. OpenClaims = [t \in Trades |-> {}]
    BY <2>1 DEF OpenClaims
  <2> QED
    BY <2>1, <2>2 DEF G!GuardInit
<1>2. JournalInv /\ [JournalNext]_rows => [G!GuardNext]_(G!guardVars)
  <2> SUFFICES ASSUME JournalInv, [JournalNext]_rows
               PROVE  [G!GuardNext]_(G!guardVars)
    OBVIOUS
  <2>1. CASE UNCHANGED rows
    BY <2>1 DEF G!guardVars, OpenClaims, Claimed, UnresolvedOn, Blocking
  <2>2. ASSUME NEW o \in Ops, NEW t \in Trades, NEW g \in {1}, NEW u \in {1}, Reserve(o, t, g, u)
        PROVE  UNCHANGED G!guardVars
    BY <2>2, ReserveImplementsGuard
  <2>3. ASSUME NEW o \in Ops, NEW s \in Sessions, CommitSubmissionIntent(s, o)
        PROVE  [G!GuardNext]_(G!guardVars)
    BY <2>3, CommitIntentImplementsGuard
  <2>4. ASSUME NEW o \in Ops, NEW s \in Sessions, ClaimNetworkPermit(s, o)
        PROVE  G!GuardNext
    BY <2>4, ClaimImplementsGuard DEF G!GuardNext
  <2>5. ASSUME NEW o \in Ops, NEW st \in ConfirmationStates, NEW tx \in Transactions \cup {NoOp},
               Mark(o, st, tx)
        PROVE  [G!GuardNext]_(G!guardVars)
    BY <2>5, MarkImplementsGuard
  <2>6. ASSUME NEW o \in Ops, Finalise(o)
        PROVE  [G!GuardNext]_(G!guardVars)
    BY <2>6, FinaliseImplementsGuard
  <2> QED
    BY <2>1, <2>2, <2>3, <2>4, <2>5, <2>6 DEF JournalNext
<1> QED
  BY <1>1, <1>2, JournalInvariant, PTL DEF JournalSpec, ImplementsGuard, G!GuardSpec
=============================================================================
