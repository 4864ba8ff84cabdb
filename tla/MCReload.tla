------------------------------ MODULE MCReload ------------------------------
(* Interchangeable connections and configuration handles.                   *)
EXTENDS Reload, TLC

CONSTANTS c1, c2, f1, f2, f3, f4

Sym == Permutations(Conns) \cup Permutations(Confs)
=============================================================================
