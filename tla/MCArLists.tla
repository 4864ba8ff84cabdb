------------------------------ MODULE MCArLists ------------------------------
(* Four interchangeable handles: enough for a head, a tail and a middle on   *)
(* one list while another is not empty.                                      *)
EXTENDS ArLists, TLC

CONSTANTS h1, h2, h3, h4

Sym == Permutations(Handles)
=============================================================================
