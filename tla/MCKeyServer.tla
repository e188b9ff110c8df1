---------------------------- MODULE MCKeyServer ------------------------------
(* The instances of KeyServer that TLC checks.                              *)
EXTENDS KeyServer, TLC

CONSTANTS r1, r2, r3, r4

MCSymmetry == Permutations(Requests)
=============================================================================
