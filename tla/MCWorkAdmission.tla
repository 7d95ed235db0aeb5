---------------------------- MODULE MCWorkAdmission ----------------------------
(* Invocations that TLC may exchange.                                         *)
EXTENDS WorkAdmission, TLC

WorkSymmetry == Permutations(Work)
================================================================================
