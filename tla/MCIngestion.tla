------------------------------ MODULE MCIngestion ------------------------------
(* Invocations and documents that TLC may exchange.                           *)
EXTENDS Ingestion, TLC

IngestionSymmetry == Permutations(Work) \cup Permutations(Doc)
================================================================================
