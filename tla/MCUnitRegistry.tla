--------------------------- MODULE MCUnitRegistry ---------------------------
(* Two addresses, two units each, and identifiers that differ in case or   *)
(* in encoding: "m", "M", the micro sign in Latin-1, and two bytes that    *)
(* are Latin-1 but not UTF-8.                                              *)
EXTENDS UnitRegistry, TLC

CONSTANTS s1, s2, m, n

MCIdent == {<<109>>, <<77>>, <<181>>, <<195, 109>>}
RegistrySymmetry == Permutations(System) \cup Permutations(Number)
=============================================================================
