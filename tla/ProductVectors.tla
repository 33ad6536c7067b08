--------------------------- MODULE ProductVectors ---------------------------
(***************************************************************************)
(* What a product-unit promises (src/lib/unitcore.c, "Product Unit").      *)
(*                                                                         *)
(* A product-unit is a vector: a function from the basic-units that occur  *)
(* in it to their powers.  This module says, without any array, index or   *)
(* loop, what multiplying, raising, taking a root and relating two         *)
(* product-units return.  ProductAlgebra is the machine a client drives    *)
(* with these operations; ProductUnit has the loops of the code and is     *)
(* shown to implement that machine.                                        *)
(*                                                                         *)
(* Powers are C shorts, so every computed power is narrowed to 16 bits.    *)
(* A power that narrows to 0 stays in the vector: "meter^0" is not the     *)
(* dimensionless unit one for this code.                                   *)
(***************************************************************************)
EXTENDS NullUnit, Integers, Sequences

CONSTANTS
  Basic,          \* indexes into system->basicUnits
  Dimensionless,  \* those whose isDimensionless flag is set (e.g. radian)
  ShortMax,       \* SHRT_MAX
  Powers,         \* the powers clients raise to
  Roots           \* the roots clients take

ASSUME BasicAssumption == Basic \subseteq Nat /\ Dimensionless \subseteq Basic
ASSUME ShortAssumption == ShortMax \in Nat /\ 256 <= ShortMax
ASSUME ArgumentAssumption ==
  /\ Powers \subseteq (-255 .. 255) \ {0, 1}
  /\ Roots \subseteq 2 .. 255

Short == -(ShortMax + 1) .. ShortMax

\* The value of (short)k.
Narrow(k) == ((k + ShortMax + 1) % (2 * (ShortMax + 1))) - (ShortMax + 1)

Vector == UNION { [S -> Short] : S \in SUBSET Basic }

ASSUME NoUnitAssumption == \A S \in SUBSET Basic : NoUnit \notin [S -> Short]

-----------------------------------------------------------------------------
(* The operations on vectors.                                              *)

Cancelled(v, w) == { b \in DOMAIN v \cap DOMAIN w : v[b] = -w[b] }

Times(v, w) ==
  [ b \in (DOMAIN v \cup DOMAIN w) \ Cancelled(v, w) |->
      IF b \notin DOMAIN w THEN v[b]
      ELSE IF b \notin DOMAIN v THEN w[b]
      ELSE Narrow(v[b] + w[b]) ]

Raised(v, n) == [ b \in DOMAIN v |-> Narrow(v[b] * n) ]

HasRoot(v, n) == \A b \in DOMAIN v : v[b] % n = 0

RootOf(v, n) == [ b \in DOMAIN v |-> v[b] \div n ]

\* The dimensionful part of a vector.
Dimensions(v) == [ b \in DOMAIN v \ Dimensionless |-> v[b] ]

Equal(v, w) == Dimensions(v) = Dimensions(w)

IsInverse(v, w) ==
  LET S == DOMAIN Dimensions(v) IN
  /\ S # {}
  /\ S = DOMAIN Dimensions(w)
  /\ \A b \in S : v[b] # 0 /\ v[b] = -w[b]

Relationship(v, w) ==
  IF Equal(v, w) THEN "EQUAL"
  ELSE IF IsInverse(v, w) THEN "INVERSE"
  ELSE "UNCONVERTIBLE"

Convertible(v, w) == Relationship(v, w) # "UNCONVERTIBLE"

-----------------------------------------------------------------------------
(* productCompare() on arrays of entries in ascending index order: the     *)
(* number of entries, then the first entry that differs decides.           *)

ProductCompare(p, q) ==
  LET differ == { i \in DOMAIN p : p[i] # q[i] }
      first == CHOOSE i \in differ : \A j \in differ : i <= j
  IN IF Len(p) # Len(q) THEN Len(p) - Len(q)
     ELSE IF differ = {} THEN 0
     ELSE IF p[first].index # q[first].index
          THEN p[first].index - q[first].index
          ELSE p[first].power - q[first].power
=============================================================================
