-------------------------- MODULE StructuresOfUnits --------------------------
(***************************************************************************)
(* The UDUNITS-1 interface with what it stands on: the units of unitcore.c *)
(* and the search trees of tsearch.c.  The assumptions of Udunits1 are     *)
(* what these two have to keep.                                            *)
(***************************************************************************)
EXTENDS Udunits1, Units

CONSTANT TheSystem  \* the unit-system

TheSeconds == [s \in {TheSystem} |-> TheSecond]

Tree == INSTANCE SearchTree

-----------------------------------------------------------------------------
(* The functions of unitcore.c.                                            *)

UnitOne == One(TheSystem)
UtClone(u) == Clone(TheSeconds, u)
Power(u, n) == RaiseOutcome(TheSeconds, u, n)
Offset(u, o) == OffsetOutcome(TheSeconds, u, o)
Multiple(k, u) == ScaleOutcome(TheSeconds, k, u)
Product(u, v) == MultiplyOutcome(TheSeconds, u, v)
Divided(u, v) == DivideOutcome(TheSeconds, u, v)
Compared(u, v) == UtCompare(u, v)
UtAreConvertible(u, v) == AreConvertible(u, v)
UtGetConverter(u, v) == GetConverter(TheSeconds, u, v)

-----------------------------------------------------------------------------
(* The functions of tsearch.c: TLC checks TreeAssumption of them, for      *)
(* every tree over the addresses, those that tdelete() leaves included.    *)

NullTree == Tree!Leaf
AddressTrees == Tree!SearchTrees(Addresses)
KeysOf(t) == Tree!Keys(t)
TreeFind(key, t) == Tree!Tfind(key, t)
TreeSearch(key, t) == Tree!Tsearch(key, t)
TreeDelete(key, t) == Tree!Tdelete(key, t)
=============================================================================
