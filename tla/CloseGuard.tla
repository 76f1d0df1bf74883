----------------------------- MODULE CloseGuard -----------------------------
(***************************************************************************)
(* What the close journal (forex_bot/close_journal.py) promises about      *)
(* sending: the right to contact the broker for a trade is a claim, an     *)
(* operation is claimed at most once in its life, and a trade never has    *)
(* two claims whose outcome is open.  CloseJournal.tla implements it.      *)
(***************************************************************************)
CONSTANTS Ops,      \* close operations
          Trades    \* broker trades

VARIABLES open,     \* open[t]: claimed operations of t not yet resolved
          used      \* operations claimed so far

guardVars == <<open, used>>

GuardInit ==
    /\ open = [t \in Trades |-> {}]
    /\ used = {}

\* claim_network_permit
Claim(t, o) ==
    /\ o \notin used
    /\ open[t] = {}
    /\ open' = [open EXCEPT ![t] = {o}]
    /\ used' = used \cup {o}

\* The broker rejected the close, or the local deletion was recorded.
Resolve(t) ==
    /\ open' = [open EXCEPT ![t] = {}]
    /\ UNCHANGED used

\* An unconditional mark may bring a resolved operation back.
Reopen(t, o) ==
    /\ o \in used
    /\ open[t] = {}
    /\ open' = [open EXCEPT ![t] = {o}]
    /\ UNCHANGED used

GuardNext ==
    \E t \in Trades : \/ Resolve(t)
                      \/ \E o \in Ops : Claim(t, o) \/ Reopen(t, o)

GuardSpec == GuardInit /\ [][GuardNext]_guardVars
=============================================================================
