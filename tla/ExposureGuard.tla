--------------------------- MODULE ExposureGuard ---------------------------
(***************************************************************************)
(* What the order registry (forex_bot/orders.py with the exec_orders part  *)
(* of forex_bot/database.py) promises about submissions: a client order id *)
(* is submitted once, and an instrument never has two submitted orders     *)
(* that may hold exposure.  Only the broker's refusal makes room: an order *)
(* word, a restart or a failed write never does.  OrderRegistry.tla        *)
(* implements it.                                                          *)
(***************************************************************************)
CONSTANTS Clients,  \* client order ids
          Symbols   \* instruments

VARIABLES exposed,  \* exposed[s]: submitted orders of s that may hold exposure
          used      \* client order ids submitted so far

guardVars == <<exposed, used>>

GuardInit ==
    /\ exposed = [s \in Symbols |-> {}]
    /\ used = {}

\* The order goes to the broker.
Expose(s, c) ==
    /\ c \notin used
    /\ exposed[s] = {}
    /\ exposed' = [exposed EXCEPT ![s] = {c}]
    /\ used' = used \cup {c}

\* The broker refused the order.
Clear(s) ==
    /\ exposed' = [exposed EXCEPT ![s] = {}]
    /\ UNCHANGED used

GuardNext == \E s \in Symbols : Clear(s) \/ \E c \in Clients : Expose(s, c)

GuardSpec == GuardInit /\ [][GuardNext]_guardVars
=============================================================================
