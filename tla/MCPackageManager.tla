-------------------------- MODULE MCPackageManager --------------------------
(* Instances of PackageManager for TLC *)
EXTENDS PackageManager, TLC

MCOwner == [a \in Apps |-> CHOOSE p \in Packages : p \notin BuiltIn \/ BuiltIn = Packages]

TaskSymmetry == Permutations(Tasks)
============================================================================
