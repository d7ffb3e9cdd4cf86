--------------------------- MODULE MCReactiveState --------------------------
(* Small instances of ReactiveState for TLC.                                *)
EXTENDS ReactiveState, TLC

CONSTANTS x, y, t1, t2

OneState == {<<x>>}
TwoStates == {<<x>>, <<y>>, <<x, y>>}

=============================================================================
