------------------------------ MODULE MCSignal ------------------------------
(* Small instances of Signal for TLC.                                       *)
EXTENDS Signal

CONSTANTS c1, c2, c3, t1, t2

\* Every connection has a closure of its own.
Distinct == [x \in Conns |-> x]

\* Connections c2 and c3 add the same closure.
Shared == [x \in Conns |-> IF x = c3 THEN c2 ELSE x]

=============================================================================
