---------------------------- MODULE MCIntentClient ----------------------------
(* An instance of IntentClient for TLC: the System UI and one application, each of which
   handles an intent everybody may use. *)
EXTENDS IntentClient

CONSTANTS a, ia, is

MCPackageOf == [x \in Apps |-> x]
MCHandler == [i \in Intents |-> IF i = ia THEN a ELSE SystemUi]
MCCapable == {<<SystemUi, i>> : i \in Intents}
===============================================================================
