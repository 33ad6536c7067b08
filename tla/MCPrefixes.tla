----------------------------- MODULE MCPrefixes -----------------------------
(* Prefixes that start other prefixes, and one that differs in case only.  *)
EXTENDS Prefixes, TLC

CONSTANTS s1, s2

MCLower(c) == IF c = "D" THEN "d" ELSE c
MCPrefix == {<< >>, <<"d">>, <<"D">>, <<"d", "a">>, <<"d", "a", "d">>}
MCString == {<< >>, <<"d">>, <<"D", "a">>, <<"d", "a", "a">>, <<"d", "a", "d", "a">>}
SystemSymmetry == Permutations(System)
=============================================================================
