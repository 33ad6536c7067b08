----------------------------- MODULE MCUdunits1 -----------------------------
(* Two structures and three addresses, with the unit one, the second as a  *)
(* product-unit, its reciprocal, a timestamp-unit of it, and what dividing *)
(* it by itself makes.                                                     *)
EXTENDS StructuresOfUnits, RecursiveUnits, TLC

CONSTANTS x1, x2, n1, n2

MCSecond == BasicUnit(TheSystem, 0)
PowerOfSecond(n) == ProductUnit(TheSystem, [ b \in {0} |-> n ])
SecondPerSecond == ProductUnit(TheSystem, [ b \in {} |-> 0 ])
MCValues ==
  { UnitOne, SecondPerSecond, PowerOfSecond(1), PowerOfSecond(-1), [type |-> "timestamp", unit |-> MCSecond, origin |-> 0] }
MCUnit == MCValues \cup {MCSecond}

MCExponents == {-1, 256}
MCPowers == {-1}
MCFactors == {0, Zero}

\* "1" and "s" fit into the first buffer, "s-1" and dates do not.
MCTextLength(u) == IF u \in {UnitOne, SecondPerSecond, PowerOfSecond(1)} THEN 1 ELSE 2

\* The plural of one name is the other.
MCPlural(n) == IF n = n1 THEN n2 ELSE n1

\* One client has two structures and room for the units of both, one has reciprocals and
\* timestamps, too, and less room, and one adds names.
MCClients ==
  { [structures |-> {x1, x2}, addresses |-> {1, 2, 3},
     values |-> {UnitOne, SecondPerSecond, PowerOfSecond(1)}, names |-> {}],
    [structures |-> {x1, x2}, addresses |-> {1, 2}, values |-> MCValues, names |-> {}],
    [structures |-> {x1}, addresses |-> {1, 2},
     values |-> {UnitOne, PowerOfSecond(1)}, names |-> {n1, n2}] }

\* Three addresses never make tdelete() look for the next key below the right tree of a
\* node: the functions keep what TreeAssumption says of trees of five keys, too.
Larger == Tree!SearchTrees(1 .. 5)
ASSUME LargerTrees ==
  \A t \in Larger, k \in 0 .. 6 :
    /\ TreeFind(k, t) <=> k \in KeysOf(t)
    /\ k \in 1 .. 5 => TreeSearch(k, t) \in Larger /\ KeysOf(TreeSearch(k, t)) = KeysOf(t) \cup {k}
    /\ TreeDelete(k, t) \in Larger /\ KeysOf(TreeDelete(k, t)) = KeysOf(t) \ {k}
=============================================================================
