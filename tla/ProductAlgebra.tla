--------------------------- MODULE ProductAlgebra ---------------------------
(***************************************************************************)
(* The abstract specification of the product-units of src/lib/unitcore.c:  *)
(* a client holds two exponent vectors and the result of its last call,    *)
(* and every call returns at once what ProductVectors says it returns.     *)
(***************************************************************************)
EXTENDS ProductVectors

VARIABLES left, right, result, relationship

vars == <<left, right, result, relationship>>

Single(b) == [ c \in {b} |-> 1 ]

Init ==
  /\ left = [ b \in {} |-> 0 ]
  /\ right = [ b \in {} |-> 0 ]
  /\ result = NoUnit
  /\ relationship = "UNKNOWN"

Load(b) ==
  /\ \/ left' = Single(b) /\ UNCHANGED right
     \/ right' = Single(b) /\ UNCHANGED left
  /\ UNCHANGED <<result, relationship>>

Adopt ==
  /\ result # NoUnit
  /\ \/ left' = result /\ UNCHANGED right
     \/ right' = result /\ UNCHANGED left
  /\ UNCHANGED <<result, relationship>>

Multiply ==
  /\ result' = Times(left, right)
  /\ UNCHANGED <<left, right, relationship>>

Raise(n) ==
  /\ result' = Raised(left, n)
  /\ UNCHANGED <<left, right, relationship>>

Root(n) ==
  /\ result' = IF HasRoot(left, n) THEN RootOf(left, n) ELSE NoUnit
  /\ UNCHANGED <<left, right, relationship>>

Relate ==
  /\ relationship' = Relationship(left, right)
  /\ UNCHANGED <<left, right, result>>

Next ==
  \/ \E b \in Basic : Load(b)
  \/ Adopt
  \/ Multiply
  \/ \E n \in Powers : Raise(n)
  \/ \E n \in Roots : Root(n)
  \/ Relate

Spec == Init /\ [][Next]_vars
=============================================================================
