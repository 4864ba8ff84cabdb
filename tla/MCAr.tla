-------------------------------- MODULE MCAr --------------------------------
(* Small instances of Ar for TLC.                                           *)
EXTENDS Ar, TLC

CONSTANTS c1, c2, h1, h2, plain, alias, r1, r2

Sym == Permutations(Clients) \cup Permutations(Handles) \cup Permutations(Contents)

\* "plain" is answered at once; "alias" is a CNAME of a CNAME-free name.
ChainOf == [a \in Questions |-> IF a = alias THEN 1 ELSE 0]
=============================================================================
