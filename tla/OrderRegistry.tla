--------------------------- MODULE OrderRegistry ---------------------------
(***************************************************************************)
(* The order registry: forex_bot/orders.py, the exec_orders part of        *)
(* forex_bot/database.py, the tail of evaluate_one_instrument_iteration in *)
(* forex_bot/bot_loop.py that reserves, submits and files an order, and    *)
(* the pending-order half of forex_bot/reconciliation.py.                  *)
(*                                                                         *)
(* Processes share the exec_orders table and nothing else.  A process      *)
(* decides one instrument at a time; its reconciler runs in a thread of    *)
(* its own.  A statement may fail, and a failed commit may have been       *)
(* applied; a process may die between any two steps and start again.       *)
(* PERSIST_EXEC_ORDERS is at its default, so the table is used.            *)
(***************************************************************************)
EXTENDS Naturals

CONSTANTS Procs,     \* processes, each with its memory
          Symbols,   \* instruments
          Clients,   \* client order ids: fresh, or supplied again by a caller
          NoClient,  \* no client order id
          NoSymbol   \* no instrument

ASSUME NoClientAssumption == NoClient \notin Clients

VARIABLES row,       \* row[c]: the exec_orders row of client id c, or NoRow
          order,     \* order[p][c]: orders_by_client_id of p, or NoOrder
          blocking,  \* blocking[p][s]: _process_blocking
          unresolved,\* unresolved[p][s]: _process_unresolved
          exposure,  \* exposure[p][s]: _process_exposure
          latch,     \* latch[p]: _process_fail_closed
          position,  \* position[p]: instruments with a synthetic position
          imported,  \* imported[p]: instruments with an imported pending order
          call,      \* call[p]: where p is, with which order
          absent,    \* absent[p]: the order the reconciler of p read as pending
          request    \* request[c]: what the broker knows of client id c

holds == <<blocking, unresolved, exposure>>
thread == <<imported, absent>>
vars == <<row, order, holds, latch, position, call, thread, request>>

NoRow == [st |-> "ABSENT"]
NoOrder == [st |-> "ABSENT"]
NoRequest == [st |-> "NONE"]

\* OrderStatus.  A write of PARTIAL, FILLED or UNRESOLVED carries the marker
\* UNCONFIRMED, and nothing writes CONFIRMED_FLAT or REJECTED.
Statuses == {"PENDING", "PARTIAL", "FILLED", "CANCELLED", "UNRESOLVED"}

Rows == [sym : Symbols, st : Statuses]
Orders == [sym : Symbols, st : Statuses, brokerId : BOOLEAN]
Requests == [sym : Symbols, st : {"SENT", "OPEN", "REFUSED"}]
HoldMap == [Symbols -> Clients \cup {NoClient}]

Down == [at |-> "down", sym |-> NoSymbol, cid |-> NoClient]
Idle == [at |-> "idle", sym |-> NoSymbol, cid |-> NoClient]
Calls == [at : {"reserved", "submitted"}, sym : Symbols, cid : Clients] \cup {Down, Idle}

(* Tables, registries and holds have the columns and values of the code.   *)
TypeOK ==
    /\ row \in [Clients -> Rows \cup {NoRow}]
    /\ order \in [Procs -> [Clients -> Orders \cup {NoOrder}]]
    /\ blocking \in [Procs -> HoldMap]
    /\ unresolved \in [Procs -> HoldMap]
    /\ exposure \in [Procs -> HoldMap]
    /\ latch \in [Procs -> BOOLEAN]
    /\ position \in [Procs -> SUBSET Symbols]
    /\ imported \in [Procs -> SUBSET Symbols]
    /\ call \in [Procs -> Calls]
    /\ absent \in [Procs -> Clients \cup {NoClient}]
    /\ request \in [Clients -> Requests \cup {NoRequest}]

-----------------------------------------------------------------------------
\* Altered forms, for the mutation runs only: each is a plausible mistake in
\* the definition that follows it.
FilledLetsGo(r) == r.st \in {"PENDING", "PARTIAL", "UNRESOLVED"}

\* RESERVATION_BLOCK_SQL and RECOVERY_SELECTION_SQL: only a cancelled row
\* lets go of its instrument.
Blocks(r) == r.st \in Statuses \ {"CANCELLED"}

\* reservation_status_block_reason
Active(o) == o.st \in {"PENDING", "PARTIAL", "UNRESOLVED"}

\* A fill, or an outcome nobody knows.
Exposing(r) == r.st \in {"PARTIAL", "FILLED", "UNRESOLVED"}

NoHolds == [s \in Symbols |-> NoClient]

InstrumentStored(hold, p, s, c) ==
    IF hold[p][s] = NoClient THEN [hold EXCEPT ![p][s] = s] ELSE hold

\* dict.setdefault and dict.pop on the hold of an instrument
SetDefault(hold, p, s, c) ==
    IF hold[p][s] = NoClient THEN [hold EXCEPT ![p][s] = c] ELSE hold
Pop(hold, p, s) == [hold EXCEPT ![p][s] = NoClient]

Init ==
    /\ row = [c \in Clients |-> NoRow]
    /\ order = [p \in Procs |-> [c \in Clients |-> NoOrder]]
    /\ blocking = [p \in Procs |-> NoHolds]
    /\ unresolved = [p \in Procs |-> NoHolds]
    /\ exposure = [p \in Procs |-> NoHolds]
    /\ latch = [p \in Procs |-> FALSE]
    /\ position = [p \in Procs |-> {}]
    /\ imported = [p \in Procs |-> {}]
    /\ call = [p \in Procs |-> Down]
    /\ absent = [p \in Procs |-> NoClient]
    /\ request = [c \in Clients |-> NoRequest]

Up(p) == call[p].at # "down"

-----------------------------------------------------------------------------
(* Start-up and the end of a process                                       *)

Selected == {c \in Clients : row[c] # NoRow /\ Blocks(row[c])}

\* ingest_recovery_snapshot: one of the orders of cs on each instrument.
HoldsOf(cs) ==
    {h \in HoldMap : \A s \in Symbols :
        LET own == {c \in cs : row[c].sym = s}
        IN IF own = {} THEN h[s] = NoClient ELSE h[s] \in own}

\* load_open_orders_from_db_into_memory
Start(p) ==
    /\ call[p] = Down
    /\ call' = [call EXCEPT ![p] = Idle]
    /\ order' = [order EXCEPT ![p] = [c \in Clients |->
            IF c \in Selected
            THEN [sym |-> row[c].sym, st |-> row[c].st, brokerId |-> row[c].st \in {"PARTIAL", "FILLED"}]
            ELSE NoOrder]]
    /\ \E b \in HoldsOf(Selected) : blocking' = [blocking EXCEPT ![p] = b]
    /\ \E u \in HoldsOf({c \in Selected : row[c].st = "UNRESOLVED"}) :
            unresolved' = [unresolved EXCEPT ![p] = u]
    /\ \E e \in HoldsOf({c \in Selected : Exposing(row[c])}) :
            exposure' = [exposure EXCEPT ![p] = e]
    /\ UNCHANGED <<row, latch, position, thread, request>>

\* The snapshot cannot be read: the process runs with the latch set.
StartUnreadable(p) ==
    /\ call[p] = Down
    /\ call' = [call EXCEPT ![p] = Idle]
    /\ latch' = [latch EXCEPT ![p] = TRUE]
    /\ UNCHANGED <<row, order, holds, position, thread, request>>

Crash(p) ==
    /\ Up(p)
    /\ call' = [call EXCEPT ![p] = Down]
    /\ order' = [order EXCEPT ![p] = [c \in Clients |-> NoOrder]]
    /\ blocking' = [blocking EXCEPT ![p] = NoHolds]
    /\ unresolved' = [unresolved EXCEPT ![p] = NoHolds]
    /\ exposure' = [exposure EXCEPT ![p] = NoHolds]
    /\ latch' = [latch EXCEPT ![p] = FALSE]
    /\ position' = [position EXCEPT ![p] = {}]
    /\ imported' = [imported EXCEPT ![p] = {}]
    /\ absent' = [absent EXCEPT ![p] = NoClient]
    /\ UNCHANGED <<row, request>>

-----------------------------------------------------------------------------
(* try_begin_order_submission                                              *)

\* The gates of the iteration and of the reservation that only read memory.
MayReserve(p, s, c) ==
    /\ call[p] = Idle
    /\ ~latch[p]
    /\ exposure[p][s] = NoClient
    /\ unresolved[p][s] = NoClient
    /\ blocking[p][s] = NoClient
    /\ s \notin position[p] \cup imported[p]
    /\ order[p][c] = NoOrder
    /\ \A d \in Clients : order[p][d] # NoOrder /\ order[p][d].sym = s => ~Active(order[p][d])

RowBlocked(s) == \E c \in Clients : row[c] # NoRow /\ row[c].sym = s /\ Blocks(row[c])

Pending(s) == [sym |-> s, st |-> "PENDING"]

\* insert_exec_order_pending_if_absent: select and insert under the advisory
\* lock of the instrument, then the registry of the process.
Reserve(p, s, c) ==
    /\ MayReserve(p, s, c)
    /\ ~RowBlocked(s)
    /\ row[c] = NoRow
    /\ row' = [row EXCEPT ![c] = Pending(s)]
    /\ blocking' = [blocking EXCEPT ![p][s] = c]
    /\ order' = [order EXCEPT ![p][c] = [sym |-> s, st |-> "PENDING", brokerId |-> FALSE]]
    /\ call' = [call EXCEPT ![p] = [at |-> "reserved", sym |-> s, cid |-> c]]
    /\ UNCHANGED <<unresolved, exposure, latch, position, thread, request>>

\* A row of the instrument blocks: the process holds it from now on.
ReserveBlocked(p, s, c) ==
    /\ MayReserve(p, s, c)
    /\ RowBlocked(s)
    /\ blocking' = [blocking EXCEPT ![p][s] = c]
    /\ UNCHANGED <<row, order, unresolved, exposure, latch, position, call, thread, request>>

\* A statement or the commit fails; the commit may have been applied.
ReserveFails(p, s, c) ==
    /\ MayReserve(p, s, c)
    /\ \/ UNCHANGED row
       \/ ~RowBlocked(s) /\ row[c] = NoRow /\ row' = [row EXCEPT ![c] = Pending(s)]
    /\ blocking' = [blocking EXCEPT ![p][s] = c]
    /\ latch' = [latch EXCEPT ![p] = TRUE]
    /\ UNCHANGED <<order, unresolved, exposure, position, call, thread, request>>

NoConnection(p, s, c) ==
    /\ MayReserve(p, s, c)
    /\ latch' = [latch EXCEPT ![p] = TRUE]
    /\ UNCHANGED <<row, order, holds, position, call, thread, request>>

-----------------------------------------------------------------------------
(* The submission and its answer                                           *)

Submit(p) ==
    LET c == call[p].cid IN
    /\ call[p].at = "reserved"
    /\ request' = [request EXCEPT ![c] = [sym |-> call[p].sym, st |-> "SENT"]]
    /\ call' = [call EXCEPT ![p].at = "submitted"]
    /\ UNCHANGED <<row, order, holds, latch, position, thread>>

\* update_exec_order_row for order c: it may not be applied.
RowWritten(c, st) ==
    IF row[c] # NoRow /\ (st = "CANCELLED" => row[c].st # "UNRESOLVED")
    THEN row' = [row EXCEPT ![c].st = st]
    ELSE UNCHANGED row

\* mark_order_failed_or_cancelled: the result of the write is not looked at.
CancelOrder(p) ==
    LET c == call[p].cid
        s == call[p].sym
    IN IF order[p][c].st = "UNRESOLVED" \/ unresolved[p][s] = c
       THEN UNCHANGED <<row, order, holds>>
       ELSE /\ RowWritten(c, "CANCELLED") \/ UNCHANGED row
            /\ order' = [order EXCEPT ![p][c].st = "CANCELLED"]
            /\ unresolved' = Pop(unresolved, p, s)
            /\ blocking' = Pop(blocking, p, s)
            /\ UNCHANGED exposure

\* There is no broker to submit to.
Withdraw(p) ==
    /\ call[p].at = "reserved"
    /\ CancelOrder(p)
    /\ call' = [call EXCEPT ![p] = Idle]
    /\ UNCHANGED <<latch, position, thread, request>>

\* Only a simulation submits from here: otherwise the loop returns and the
\* reservation stays.
Withheld(p) ==
    /\ call[p].at = "reserved"
    /\ call' = [call EXCEPT ![p] = Idle]
    /\ UNCHANGED <<row, order, holds, latch, position, thread, request>>

AnyRefusal(c) == request[c].st # "OPEN"

\* The answer says that the broker refused the order.
Refusal(c) == request[c].st = "REFUSED"

Rejected(p) ==
    /\ call[p].at = "submitted"
    /\ Refusal(call[p].cid)
    /\ CancelOrder(p)
    /\ call' = [call EXCEPT ![p] = Idle]
    /\ UNCHANGED <<latch, position, thread, request>>

\* The order is pending at the broker; the row stays as it is.
Accepted(p) ==
    /\ call[p].at = "submitted"
    /\ request[call[p].cid].st # "REFUSED"
    /\ call' = [call EXCEPT ![p] = Idle]
    /\ UNCHANGED <<row, order, holds, latch, position, thread, request>>

\* _held: no answer, or one that cannot be used.  The result of the write is
\* not looked at.
Held(p) ==
    LET c == call[p].cid
        s == call[p].sym
    IN /\ call[p].at = "submitted"
       /\ exposure' = SetDefault(exposure, p, s, c)
       /\ blocking' = SetDefault(blocking, p, s, c)
       /\ unresolved' = SetDefault(unresolved, p, s, c)
       /\ IF order[p][c].st = "PENDING"
          THEN /\ RowWritten(c, "UNRESOLVED") \/ UNCHANGED row
               /\ order' = [order EXCEPT ![p][c].st = "UNRESOLVED"]
          ELSE UNCHANGED <<row, order>>
       /\ call' = [call EXCEPT ![p] = Idle]
       /\ UNCHANGED <<latch, position, thread, request>>

FillReleases(p, s, c) == Pop(blocking, p, s)

\* note_unconfirmed_exposure for a fill
FillHolds(p, s, c) == SetDefault(blocking, p, s, c)

\* finalize_order_fill and record_synthetic_fill_position.  A write that is
\* reported as failed, applied or not, sets the latch.
Filled(p) ==
    LET c == call[p].cid
        s == call[p].sym
    IN /\ call[p].at = "submitted"
       /\ request[c].st = "OPEN"
       /\ \E st \in {"PARTIAL", "FILLED"} :
            /\ \/ RowWritten(c, st) /\ UNCHANGED latch
               \/ (RowWritten(c, st) \/ UNCHANGED row) /\ latch' = [latch EXCEPT ![p] = TRUE]
            /\ order' = [order EXCEPT ![p][c].st = st, ![p][c].brokerId = TRUE]
       /\ exposure' = SetDefault(exposure, p, s, c)
       /\ blocking' = FillHolds(p, s, c)
       /\ \/ position' = [position EXCEPT ![p] = @ \cup {s}]
          \/ UNCHANGED position
       /\ call' = [call EXCEPT ![p] = Idle]
       /\ UNCHANGED <<unresolved, thread, request>>

-----------------------------------------------------------------------------
(* The reconciler's thread, the management of the position, the broker     *)

\* _reconcile_pending_orders reads the status of an order ...
ReadPending(p, c) ==
    /\ Up(p)
    /\ absent[p] = NoClient
    /\ order[p][c].st = "PENDING"
    /\ absent' = [absent EXCEPT ![p] = c]
    /\ UNCHANGED <<row, order, holds, latch, position, imported, call, request>>

\* ... then its broker id, which no pending order of the broker has.
CancelAbsent(p) ==
    LET c == absent[p] IN
    /\ c # NoClient
    /\ absent' = [absent EXCEPT ![p] = NoClient]
    /\ order' = IF order[p][c].brokerId THEN [order EXCEPT ![p][c].st = "CANCELLED"] ELSE order
    /\ UNCHANGED <<row, holds, latch, position, imported, call, request>>

\* A pending order of the broker enters the registry, or is no longer there.
ImportPending(p, s) ==
    /\ Up(p)
    /\ \/ imported' = [imported EXCEPT ![p] = @ \cup {s}]
       \/ imported' = [imported EXCEPT ![p] = @ \ {s}]
    /\ UNCHANGED <<row, order, holds, latch, position, call, absent, request>>

\* close_position, at the end of a managed trade: the holds stay.
ClosePosition(p, s) ==
    /\ call[p] = Idle
    /\ s \in position[p]
    /\ position' = [position EXCEPT ![p] = @ \ {s}]
    /\ UNCHANGED <<row, order, holds, latch, call, thread, request>>

\* The broker opens a trade or refuses, with or without an answer.
BrokerDecides(c) ==
    /\ request[c].st = "SENT"
    /\ \E st \in {"OPEN", "REFUSED"} : request' = [request EXCEPT ![c].st = st]
    /\ UNCHANGED <<row, order, holds, latch, position, call, thread>>

-----------------------------------------------------------------------------
ProcNext(p) ==
    \/ Start(p)
    \/ StartUnreadable(p)
    \/ Crash(p)
    \/ \E s \in Symbols, c \in Clients :
          \/ Reserve(p, s, c)
          \/ ReserveBlocked(p, s, c)
          \/ ReserveFails(p, s, c)
          \/ NoConnection(p, s, c)
    \/ Submit(p)
    \/ Withdraw(p)
    \/ Withheld(p)
    \/ Rejected(p)
    \/ Accepted(p)
    \/ Held(p)
    \/ Filled(p)
    \/ \E c \in Clients : ReadPending(p, c)
    \/ CancelAbsent(p)
    \/ \E s \in Symbols : ImportPending(p, s) \/ ClosePosition(p, s)

Next == (\E p \in Procs : ProcNext(p)) \/ \E c \in Clients : BrokerDecides(c)

Spec == Init /\ [][Next]_vars

-----------------------------------------------------------------------------
\* Submitted, and not refused by the broker.
MayExpose(c) == request[c].st \in {"SENT", "OPEN"}

(* An order that may hold exposure has a row that blocks its instrument for *)
(* every process and that recovery selects, whatever answer came, whichever *)
(* write failed and whoever died (update_exec_order_row,                    *)
(* RESERVATION_BLOCK_SQL).                                                  *)
ExposureIsDurable ==
    \A c \in Clients :
        MayExpose(c) => /\ row[c] # NoRow
                        /\ row[c].sym = request[c].sym
                        /\ Blocks(row[c])

(* A process that knows of such an order, because it sent it or because it  *)
(* recovered it, holds the instrument in its own memory: the gates refuse   *)
(* before the table is asked, and neither the reconciler's thread nor the   *)
(* end of the local position lets go (release_reservation_hold,             *)
(* exposure_entry_block_reason).                                            *)
KnownExposureIsHeld ==
    \A p \in Procs, c \in Clients :
        MayExpose(c) /\ order[p][c] # NoOrder => blocking[p][request[c].sym] # NoClient

Guard == INSTANCE ExposureGuard WITH
            exposed <- [s \in Symbols |-> {c \in Clients : MayExpose(c) /\ request[c].sym = s}],
            used <- {c \in Clients : request[c] # NoRequest}

(* The registry implements ExposureGuard.tla: an id is submitted once, and  *)
(* an instrument never has two orders that may hold exposure, across        *)
(* crashes, restarts, failed writes and a second process.                   *)
ImplementsGuard == Guard!GuardSpec
=============================================================================
