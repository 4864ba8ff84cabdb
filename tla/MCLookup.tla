------------------------------ MODULE MCLookup ------------------------------
(* Small instances of DkimLookup for TLC.                                   *)
EXTENDS DkimLookup, TLC

CONSTANTS h1, h2

Sym == Permutations(Handles)

\* "alias" is a CNAME of "sel"; the second text lives for a second longer.
Alias == [n \in KeyNames |-> "sel"]
Zones == {[n \in Names |-> CASE n = Domain -> "none" [] n = PolicyName -> p [] OTHER -> "a"] :
            p \in {"a", "multi"}}
Owners == {<<"sel", "b">>, <<"sel", "nx">>, <<"sel", "multi">>, <<"alias", "none">>,
           <<"dom", "nx">>, <<"adsp", "b">>, <<"adsp", "none">>}
TtlOf == [d \in Data |-> IF d = "b" THEN 1 ELSE 0]
=============================================================================
