--------------------------- MODULE QSAtomicState ---------------------------
(* What the quota scheduler promises about the state of one pool, however    *)
(* many processes operate on it (nodestore.go): the state exists from one    *)
(* Create on, operators change it one after the other, each at most once,    *)
(* and an operator whose Run returned no error has changed it.  The state is *)
(* the set of operators whose changes it contains.                           *)
CONSTANTS Ops, None

VARIABLES
    state,   \* None, or the operators applied
    acked    \* operators whose Run has returned without an error

vars == <<state, acked>>

Init == state = None /\ acked = {}

Create ==
    /\ state = None
    /\ state' = {}
    /\ UNCHANGED acked

Apply(op) ==
    /\ state # None
    /\ op \notin state
    /\ state' = state \cup {op}
    /\ UNCHANGED acked

Acknowledge(op) ==
    /\ state # None
    /\ op \in state
    /\ acked' = acked \cup {op}
    /\ UNCHANGED state

Next == Create \/ \E op \in Ops : Apply(op) \/ Acknowledge(op)

Spec == Init /\ [][Next]_vars
=============================================================================
