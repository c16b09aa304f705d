------------------------------ MODULE MCServer ------------------------------
(* Server on small instances: connections and session objects are       *)
(* interchangeable in the safety run.                                      *)
EXTENDS Server, TLC

Symmetry == Permutations(Conns) \cup Permutations(Sess)
=============================================================================
