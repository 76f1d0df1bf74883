---------------------------- MODULE CloseEvidence ----------------------------
(***************************************************************************)
(* How forex_bot/broker_close_evidence.py reads the body of an order fill  *)
(* as evidence for a close (apply_transaction_body), checked against what  *)
(* the broker really did.                                                  *)
(*                                                                         *)
(* The broker executes one order on the trades of the instrument, all on   *)
(* the side of the position, and reports it in tradesClosed, tradeReduced  *)
(* and tradeOpened.  The body the bot retrieves is the true report, or the *)
(* report with one fault.  Account, instrument and transaction id are      *)
(* compared for equality before anything else and match here.              *)
(***************************************************************************)
EXTENDS Integers, Sequences, Functions, SequencesExt

CONSTANTS Trades,     \* broker trades of the instrument
          Trade,      \* the trade the close was requested for
          MaxUnits,   \* bound: units of a trade
          NoBody      \* nothing was retrieved yet

ASSUME TradeAssumption == Trade \in Trades /\ IsFiniteSet(Trades)
ASSUME UnitsAssumption == MaxUnits \in Nat \ {0}

VARIABLES direction,  \* of the position: "BUY" or "SELL"
          requested,  \* requested_units of the close operation
          held,       \* held[t]: units of trade t before the fill
          taken,      \* taken[t]: units of it the fill closed
          opened,     \* units the fill opened on the other side
          body,       \* the retrieved transaction
          intact      \* the body is the broker's report, without a fault

vars == <<direction, requested, held, taken, opened, body, intact>>

-----------------------------------------------------------------------------
\* apply_transaction_body

Report(b) == ToSet(b.tradesClosed) \cup ToSet(b.tradeReduced)

WrongDirection(b) == IF direction = "BUY" THEN b.units >= 0 ELSE b.units <= 0

\* duplicate_transaction_id
ListedTwice(b) ==
    \E i, j \in DOMAIN b.tradesClosed :
        i # j /\ b.tradesClosed[i].trade = b.tradesClosed[j].trade

Contradictory(b) == \E r, q \in Report(b) : r.trade = q.trade /\ r.units # q.units

\* A fill with a sign of its own may carry either sign on its rows.
NegativeUnits(b) == b.units > 0 /\ \E r \in Report(b) : r.units < 0

Absolute(n) == IF n < 0 THEN -n ELSE n

\* Altered forms, for the mutation runs only: each is a plausible mistake in
\* the definition that follows it.
SignedAsWritten(b, r) == r.units

\* _signed_reduction_magnitude
Magnitude(b, r) == Absolute(r.units)

Magnitudes(b) == [r \in Report(b) |-> Magnitude(b, r)]

Matched(b) == SumFunctionOnSet(Magnitudes(b), {r \in Report(b) : r.trade = Trade})
Other(b)   == SumFunctionOnSet(Magnitudes(b), {r \in Report(b) : r.trade # Trade})

FillNotCompared(b) == ~b.tradeOpened

\* The rows add up to the fill, and the fill opened nothing.
FillExplained(b) == Matched(b) + Other(b) = Absolute(b.units) /\ ~b.tradeOpened

Unreadable(b) ==
    \/ WrongDirection(b)
    \/ Report(b) = {}
    \/ ListedTwice(b)
    \/ ~Contradictory(b) /\ (NegativeUnits(b) \/ \A r \in Report(b) : r.trade # Trade)

Verdict(b) ==
    CASE Unreadable(b)                                -> "CLOSE_READ_ERROR"
      [] ~Unreadable(b) /\
            \/ Contradictory(b)
            \/ Matched(b) = 0
            \/ ~FillExplained(b)
            \/ Other(b) > 0
            \/ Matched(b) > requested                 -> "RECONCILIATION_REQUIRED"
      [] OTHER ->
            IF Matched(b) < requested THEN "PARTIALLY_CONFIRMED"
            ELSE IF \A r \in ToSet(b.tradesClosed) : r.trade # Trade
            THEN "RECONCILIATION_REQUIRED"   \* trade_reduced_is_not_full_close
            ELSE "FULLY_CONFIRMED"

-----------------------------------------------------------------------------
\* The broker

Amounts == 0 .. MaxUnits
None == [t \in Trades |-> 0]

Sum(f) == SumFunctionOnSet(f, Trades)

Init ==
    /\ direction \in {"BUY", "SELL"}
    /\ requested \in 1 .. MaxUnits
    /\ held \in [Trades -> Amounts]
    /\ taken = None
    /\ opened = 0
    /\ body = NoBody
    /\ intact = TRUE

ClosedBy(f)  == {t \in Trades : f[t] > 0 /\ f[t] = held[t]}
ReducedBy(f) == {t \in Trades : f[t] > 0 /\ f[t] < held[t]}

\* An order closes trades in turn and may stop within one; what is left of it
\* when nothing is held opens a trade.
Execute ==
    /\ taken = None /\ opened = 0
    /\ \E f \in [Trades -> Amounts], n \in {0, 1} :
          /\ Sum(f) + n > 0
          /\ \A t \in Trades : f[t] <= held[t]
          /\ Cardinality(ReducedBy(f)) <= 1
          /\ n > 0 => f = held
          /\ taken' = f
          /\ opened' = n
    /\ UNCHANGED <<direction, requested, held, body, intact>>

Side == IF direction = "BUY" THEN -1 ELSE 1

\* The rows carry the sign of the fill, or none: both are in use.
Retrieve ==
    /\ body = NoBody
    /\ taken # None \/ opened > 0
    /\ \E sign \in {Side, 1} :
       LET Entry(t) == [trade |-> t, units |-> sign * taken[t]] IN
       \E ts \in SetToSeqs(ClosedBy(taken)) :
          body' = [units        |-> Side * (Sum(taken) + opened),
                   tradesClosed |-> [i \in DOMAIN ts |-> Entry(ts[i])],
                   tradeReduced |-> SetToSeq({Entry(t) : t \in ReducedBy(taken)}),
                   tradeOpened  |-> opened > 0]
    /\ UNCHANGED <<direction, requested, held, taken, opened, intact>>

\* One wrong number, one lost part, or one row listed again.
Fault ==
    /\ body # NoBody
    /\ intact
    /\ \/ \E u \in -2 * MaxUnits .. 2 * MaxUnits : body' = [body EXCEPT !.units = u]
       \/ \E i \in DOMAIN body.tradesClosed, u \in -MaxUnits .. MaxUnits :
             body' = [body EXCEPT !.tradesClosed[i].units = u]
       \/ \E i \in DOMAIN body.tradeReduced, u \in -MaxUnits .. MaxUnits :
             body' = [body EXCEPT !.tradeReduced[i].units = u]
       \/ \E i \in DOMAIN body.tradesClosed :
             \/ body' = [body EXCEPT !.tradesClosed = RemoveAt(@, i)]
             \/ body' = [body EXCEPT !.tradesClosed = Append(@, @[i])]
             \/ body.tradeReduced = <<>> /\ body' = [body EXCEPT !.tradeReduced = <<body.tradesClosed[i]>>]
       \/ body' = [body EXCEPT !.tradeReduced = <<>>]
       \/ body' = [body EXCEPT !.tradeOpened = FALSE]
    /\ intact' = FALSE
    /\ UNCHANGED <<direction, requested, held, taken, opened>>

Next == Execute \/ Retrieve \/ Fault

Spec == Init /\ [][Next]_vars

-----------------------------------------------------------------------------
OnlyTheTrade == opened = 0 /\ \A t \in Trades \ {Trade} : taken[t] = 0

\* What the broker's book says of the close.
BookVerdict ==
    CASE taken[Trade] = 0 -> "CLOSE_READ_ERROR"
      [] taken[Trade] > 0 /\ (~OnlyTheTrade \/ taken[Trade] > requested) -> "RECONCILIATION_REQUIRED"
      [] OTHER ->
            IF taken[Trade] < requested THEN "PARTIALLY_CONFIRMED"
            ELSE IF taken[Trade] = held[Trade] THEN "FULLY_CONFIRMED"
            ELSE "RECONCILIATION_REQUIRED"

(* A true report is read as what happened, whichever sign its rows carry    *)
(* and in whichever order they are: a full close when the fill took exactly *)
(* the units asked for, took all the trade had left, and nothing else       *)
(* (apply_transaction_body).  Its restriction to one trade is the operator  *)
(* Evidence of LiveClose.                                                   *)
VerdictMatchesBook == body # NoBody /\ intact => Verdict(body) = BookVerdict

(* One wrong number, lost part or repeated row never turns anything but a   *)
(* full close of the trade into one: the parts of a body check each other   *)
(* (fill_reduction_mismatch, contradictory_reduction).                      *)
FaultNeverConfirms ==
    body # NoBody /\ Verdict(body) = "FULLY_CONFIRMED" => BookVerdict = "FULLY_CONFIRMED"
=============================================================================
