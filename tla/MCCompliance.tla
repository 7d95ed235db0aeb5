----------------------------- MODULE MCCompliance -----------------------------
(* Requests and references that TLC may exchange.                             *)
EXTENDS Compliance, TLC

RequestSymmetry == Permutations(Request) \cup Permutations(Control)
================================================================================
