----------------------------- MODULE MCUnitCore -----------------------------
(* Two registers over a system with a dimensional basic-unit, which may    *)
(* become its second, and a dimensionless one, and an empty system.        *)
EXTENDS UnitCore, RecursiveUnits, TLC

CONSTANTS r1, r2

MCFactors == {1, -1, Zero}
MCOffsets == {0, Grain}
MCPowers == {-1, 2}
RegisterSymmetry == Permutations(Registers)

\* Some units, with those inside them.
MCUnit ==
  LET meter == [type |-> "basic", system |-> 1, index |-> 0]
      radian == [type |-> "basic", system |-> 1, index |-> 1]
      plain == { meter, radian, One(1), ProductUnit(1, [ b \in {} |-> 0 ]),
                 ProductUnit(1, [ b \in {0, 1} |-> 2 - 3 * b ]) }
      scaled == { [type |-> "galilean", scale |-> 2, unit |-> u, offset |-> o] :
                    u \in {meter, radian}, o \in {0, 4} }
      logs == { [type |-> "log", base |-> 2, unit |-> u] : u \in {meter} \cup scaled }
      times == { [type |-> "timestamp", unit |-> meter, origin |-> t] : t \in {0, 1} }
      nested == { [type |-> "galilean", scale |-> 2, unit |-> u, offset |-> 0] : u \in logs \cup times }
  IN plain \cup scaled \cup logs \cup times \cup nested
       \cup { One(2) }
=============================================================================
