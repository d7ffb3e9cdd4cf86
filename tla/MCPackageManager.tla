------------------------- MODULE MCPackageManager -------------------------
(* Small instances of PackageManager for TLC: two packages of two versions. *)
EXTENDS PackageManager

\* 1@1 depends on 2@1, and 1@2 and 2@2 on each other.
Circular ==
  [p \in Packages |-> [v \in Versions |->
    CASE p = 1 -> << <<2, v>> >>
      [] p = 2 /\ v = 2 -> << <<1, 2>> >>
      [] OTHER -> <<>>]]

=============================================================================
