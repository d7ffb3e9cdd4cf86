------------------------------ MODULE Evaluation ------------------------------
(* What a program promises: it makes the calls that one of its outcomes lists, *)
(* one after the other, and ends the way that outcome ends.  This is the       *)
(* specification that emitted code implements (see Lowering).                  *)
EXTENDS Luau

VARIABLES source,  \* any program
          names,   \* the values of its variables
          trace,   \* the calls made so far
          answer   \* <<>>, or <<its value>> when it is done
-------------------------------------------------------------------------------
(* What a program that ends has for a value, and that it ends. *)
Ending(o) == IF o.exit = "" THEN o.value ELSE o.exit
Ends(o) == o.exit # "cut"

(* The program runs: it makes some of the calls that one of its outcomes has   *)
(* next, and in the end has that outcome's value.                              *)
Start ==
  /\ names \in [{Variable} -> Values \cup {Table}]
  /\ trace = <<>> /\ answer = <<>>

Run ==
  /\ answer = <<>>
  /\ \E o \in Eval(source, names) :
       /\ IsPrefix(trace, trace') /\ IsPrefix(trace', o.trace)
       /\ \/ answer' = <<>>
          \/ answer' = <<Ending(o)>> /\ trace' = o.trace /\ Ends(o)
  /\ UNCHANGED <<source, names>>

Spec == Start /\ [][Run]_<<source, names, trace, answer>>
===============================================================================
