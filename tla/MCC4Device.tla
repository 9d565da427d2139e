----------------------------- MODULE MCC4Device -----------------------------
(* The device facade on small sets of client threads.  Clients only differ   *)
(* by name, so the safety runs identify states that exchange them.           *)
EXTENDS C4Device, TLC

ClientSymmetry == Permutations(Clients)
=============================================================================
