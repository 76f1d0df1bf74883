--------------------------- MODULE EntryEvidence ---------------------------
(***************************************************************************)
(* How classify_entry_response (forex_bot/broker_entry_evidence.py) reads  *)
(* the broker's answer to a market order.  A body is reduced to what the   *)
(* function compares: which transactions it has, whether every identity in *)
(* it (account, instrument, client id, direction) is the operation's, the  *)
(* units of the fill, how many trades it opened, the id and units of the   *)
(* first, and whether it reduced or closed other trades.                   *)
(***************************************************************************)
EXTENDS Naturals

CONSTANTS Requested,   \* units of the order
          Missing      \* a number the body does not give

ASSUME RequestedAssumption == Requested \in Nat \ {0, 1} /\ Missing \notin Nat

Numbers == 1 .. Requested \cup {Missing}

-----------------------------------------------------------------------------
\* Altered forms, for the mutation runs only: each is a plausible mistake in
\* the definition that follows it.
AnyReject(b) == ~b.fill
SizeNotCompared(b) == b.size # Missing

\* A reject or cancel transaction counts only when there is no fill.
Rejected(b) == ~b.fill /\ b.reject

\* The one trade it opened has the units of the fill.
Explained(b) == b.size = b.units

NamesOneTrade(b) == b.opened = 1 /\ b.id = "trade" /\ b.size # Missing

Classify(b) ==
    IF ~b.readable                             THEN "OUTCOME_AMBIGUOUS"
    ELSE IF Rejected(b)                        THEN "REJECTED_CONFIRMED"
    ELSE IF ~b.fill                            THEN "OUTCOME_AMBIGUOUS"
    ELSE IF ~b.identity                        THEN "EVIDENCE_CONFLICT"
    ELSE IF b.units = Missing                  THEN "RECONCILIATION_REQUIRED"
    ELSE IF b.touched                          THEN "PARTIAL_OR_MIXED_EFFECT"
    ELSE IF b.opened > 1                       THEN "CONFIRMED_MULTIPLE_TRADES"
    ELSE IF ~NamesOneTrade(b)                  THEN "RECONCILIATION_REQUIRED"
    ELSE IF ~Explained(b)                      THEN "EVIDENCE_CONFLICT"
    ELSE IF b.units # Requested                THEN "PARTIAL_OR_MIXED_EFFECT"
    ELSE "CONFIRMED_SINGLE_TRADE"

-----------------------------------------------------------------------------
\* The broker: what became of the order, and the body it should send.

Executions == {"opened", "partial", "several", "rejected"}

Fill(units, trades, size) ==
    [readable |-> TRUE, fill |-> TRUE, reject |-> FALSE, identity |-> TRUE,
     units |-> units, opened |-> trades, id |-> "trade", size |-> size, touched |-> FALSE]

TrueBody(x) ==
    CASE x = "opened"   -> Fill(Requested, 1, Requested)
      [] x = "partial"  -> Fill(Requested - 1, 1, Requested - 1)
      [] x = "several"  -> Fill(Requested, 2, Requested - 1)
      [] x = "rejected" -> [Fill(Missing, 0, Missing) EXCEPT !.fill = FALSE,
                                                             !.reject = TRUE, !.id = "none"]

\* The bodies that differ from it in at most one part.
Bodies(x) ==
    LET b == TrueBody(x) IN
        {[b EXCEPT !.readable = v] : v \in BOOLEAN} \cup {[b EXCEPT !.fill = v] : v \in BOOLEAN}
   \cup {[b EXCEPT !.reject = v] : v \in BOOLEAN} \cup {[b EXCEPT !.identity = v] : v \in BOOLEAN}
   \cup {[b EXCEPT !.units = v] : v \in Numbers} \cup {[b EXCEPT !.size = v] : v \in Numbers}
   \cup {[b EXCEPT !.opened = v] : v \in 0 .. 2} \cup {[b EXCEPT !.touched = v] : v \in BOOLEAN}
   \cup {[b EXCEPT !.id = v] : v \in {"trade", "order", "none"}}

\* What the answer to an order can be read as.
Readings(x) == {Classify(b) : b \in Bodies(x)}
=============================================================================
