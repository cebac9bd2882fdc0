---------------------------- MODULE MCIntentServer ----------------------------
(* Instances of IntentServer for TLC *)
EXTENDS IntentServer, TLC

CONSTANTS a, b, ia, ib

(* The application a handles ia, for the System UI only and itself.  The intent ib of b,
   which is in the package of the System UI, is private, and handled while b is running. *)
MCPackageOf == [x \in Apps |-> IF x = a THEN a ELSE SystemUi]
MCHandler == [i \in Intents |-> IF i = ia THEN a ELSE b]
MCCapable == {<<SystemUi, i>> : i \in Intents}

RequestSymmetry == Permutations(Requests) \cup Permutations(Addresses)
===============================================================================
