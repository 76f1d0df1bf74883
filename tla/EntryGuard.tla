----------------------------- MODULE EntryGuard -----------------------------
(***************************************************************************)
(* What the entry path (forex_bot/entry_journal.py with the adapter, the   *)
(* submission and the capture around it) promises about orders: the broker *)
(* gets at most one order for a client order id, and an order becomes a    *)
(* durable position only when the broker has opened it in full, as one     *)
(* trade.  A retry, a restart, a timeout or a wrong body changes neither.  *)
(* LiveEntry.tla implements it.                                            *)
(***************************************************************************)
CONSTANTS Orders,   \* orders that may be sent
          Clients   \* client order ids

VARIABLES sent,     \* sent[c]: the orders that were sent under client id c
          fate,     \* fate[o]: what became of order o
          durable   \* orders with a durable position

guardVars == <<sent, fate, durable>>

GuardInit ==
    /\ sent = [c \in Clients |-> {}]
    /\ fate = [o \in Orders |-> "unsent"]
    /\ durable = {}

SendOrder(c, o) ==
    /\ sent[c] = {}
    /\ fate[o] = "unsent"
    /\ sent' = [sent EXCEPT ![c] = {o}]
    /\ fate' = [fate EXCEPT ![o] = "sent"]
    /\ UNCHANGED durable

\* The broker executes or refuses the order, once.
Execute(o) ==
    /\ fate[o] = "sent"
    /\ \E x \in {"opened", "partial", "several", "rejected"} :
          fate' = [fate EXCEPT ![o] = x]
    /\ UNCHANGED <<sent, durable>>

\* The one trade it opened is closed.
CloseTrade(o) ==
    /\ fate[o] = "opened"
    /\ fate' = [fate EXCEPT ![o] = "closed"]
    /\ UNCHANGED <<sent, durable>>

\* The position row is committed; the trade may have been closed since.
Capture(o) ==
    /\ fate[o] \in {"opened", "closed"}
    /\ durable' = durable \cup {o}
    /\ UNCHANGED <<sent, fate>>

GuardNext ==
    \E o \in Orders :
        \/ \E c \in Clients : SendOrder(c, o)
        \/ Execute(o)
        \/ CloseTrade(o)
        \/ Capture(o)

GuardSpec == GuardInit /\ [][GuardNext]_guardVars
=============================================================================
