---------------------------- MODULE MCConverters ----------------------------
(* Three registers, slopes and offsets that cancel, an array of three.     *)
EXTENDS Converters, TLC

CONSTANTS r1, r2, r3

MCSlopes == {1, -1, 2}
MCOffsets == {0, 3, -3}
RegisterSymmetry == Permutations(Register)

RECURSIVE MCSize(_), MCClone(_), MCConvert(_, _), MCConverted(_, _, _, _, _),
          MCTurned(_)
MCSize(c) == SizeFrom(c, MCSize(c.first), MCSize(c.second))
MCClone(c) == CloneFrom(c, MCClone(c.first), MCClone(c.second))
MCConvert(c, v) == ConvertFrom(c, v, MCConvert(c.second, MCConvert(c.first, v)))
MCConverted(c, m, in, count, out) ==
  ConvertedFrom(c, m, in, count, out,
    MCConverted(c.second, MCConverted(c.first, m, in, count, out), out, count, out))
MCTurned(c) == TurnedFrom(c, MCTurned(c.first), MCTurned(c.second))

\* Some converters with their parts, and some values.
MCConverter ==
  LET simple == {Trivial, Reciprocal, Scale(2), Offset(3), Galilean(2, 3), Log(2, FALSE), Log(3, TRUE), Exp(2)}
      composites == { Composite(c, d) : c, d \in simple }
  IN simple \cup composites \cup { Composite(c, Reciprocal) : c \in composites }

MCNumber ==
  LET x == Opaque(<<"cell", 1>>)
  IN {x, Linear(x, 2, 3), OneOver(x), OneOver(Linear(x, 2, 3)), Linear(OneOver(x), 2, 3)}
=============================================================================
