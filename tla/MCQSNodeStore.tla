--------------------------- MODULE MCQSNodeStore ---------------------------
(* The node store for TLC: a process with a batch runner, and one with an    *)
(* administrator, or one with both.                                          *)
EXTENDS QSNodeStore, TLC

CONSTANTS b1, b2, a1, a2, k1, s1, s2

Process == (b1 :> s1 @@ a1 :> s1 @@ b2 :> s2 @@ a2 :> s2 @@ k1 :> s1)

CallersProcess == [c \in Callers |-> Process[c]]
=============================================================================
