--------------------------- MODULE RecursiveUnits ---------------------------
(***************************************************************************)
(* The functions of src/lib/unitcore.c that call themselves for the unit   *)
(* inside another, as recursive operators: what the constants of Units are *)
(* for TLC.                                                                *)
(***************************************************************************)
EXTENDS Units

RECURSIVE RecDepth(_), RecSystemOf(_), RecGetProduct(_), RecEnsureConverter(_),
  RecToProduct(_), RecFromProduct(_), RecExactRoot(_, _), RecCompare(_, _),
  RecClone(_, _), RecMultiply(_, _, _), RecRaise(_, _, _), RecRoot(_, _, _),
  RecGetConverter(_, _, _)

\* f(x), for which TLC evaluates x once.
With(x, f(_)) == CHOOSE y \in { f(z) : z \in {x} } : TRUE

RecDepth(u) == DepthFrom(u, RecDepth(u.unit))
RecSystemOf(u) == SystemFrom(u, RecSystemOf(u.unit))
RecGetProduct(u) == ProductFrom(u, RecGetProduct(u.unit))
RecEnsureConverter(u) == EnsureFrom(u, RecEnsureConverter(u.unit))
RecToProduct(u) == ToProductFrom(u, RecToProduct(u.unit))
RecFromProduct(u) == FromProductFrom(u, RecFromProduct(u.unit))
RecExactRoot(u, n) == ExactRootFrom(u, n, RecExactRoot(u.unit, n))
RecCompare(u, v) == CompareFrom(u, v, RecCompare(u.unit, v.unit))
RecClone(seconds, u) ==
  With(u, LAMBDA w : CloneFrom(seconds, w, RecClone(seconds, ClonedInside(w))))
RecRaise(seconds, u, n) ==
  With(u, LAMBDA w : RaiseFrom(seconds, w, n, RecRaise(seconds, w.unit, n)))
RecRoot(seconds, u, n) == RootFrom(seconds, u, n, RecRoot(seconds, u.unit, n))

RecMultiply(seconds, u, v) ==
  With(<<u, v>>, LAMBDA p :
    MultiplyFrom(seconds, p[1], p[2],
      RecMultiply(seconds, HandedOn(p[1], p[2])[1], HandedOn(p[1], p[2])[2])))

RecGetConverter(seconds, from, to) ==
  GetConverterFrom(from, to,
    RecGetConverter(seconds, from.unit, seconds[SystemOf(from)]),
    RecGetConverter(seconds, seconds[SystemOf(to)], to.unit))
=============================================================================
