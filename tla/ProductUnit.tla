---------------------------- MODULE ProductUnit ----------------------------
(***************************************************************************)
(* The product-units of src/lib/unitcore.c, loop by loop.                  *)
(*                                                                         *)
(* A product-unit is an array of (basic-unit index, power) entries in      *)
(* ascending index order; the dimensionless unit one is the empty array.   *)
(* productMultiply() merges two such arrays, productRaise() and            *)
(* productRoot() map one, and productRelationship() merges two arrays to   *)
(* find whether they are equal, reciprocal or unconvertible.  One action   *)
(* is one iteration of a loop, so an early break or a misplaced cursor     *)
(* shows.                                                                  *)
(*                                                                         *)
(* The caller is a client that holds two operands, loads basic-units into  *)
(* them and feeds results back, which is how product-units come about.     *)
(***************************************************************************)
EXTENDS ProductVectors

CONSTANT MaxCalls  \* bound on the client's calls

VARIABLES
  left, right,  \* unit1 and unit2 of the call
  result,       \* what the last productMultiply/Raise/Root returned
  answer,       \* what the last productRelationship returned
  call,         \* the function being executed, or "none"
  arg,          \* its power or root
  i1, i2,       \* the loop's cursors (1-based)
  out,          \* the entries of the result written so far
  relationship, \* productRelationship's local variable
  calls         \* number of calls made

vars == <<left, right, result, answer, call, arg, i1, i2, out, relationship,
          calls>>

Entry == [index : Basic, power : Short]
Product == Seq(Entry)
One == << >>

Ascending(p) == \A i, j \in DOMAIN p : i < j => p[i].index < p[j].index

ASSUME CallAssumption == MaxCalls \in Nat /\ NoUnit \notin Product

\* The exponent vector an array of entries stands for.
Indexes(p) == { p[i].index : i \in DOMAIN p }

PowerOf(p, b) == p[CHOOSE i \in DOMAIN p : p[i].index = b].power

Vec(p) == [ b \in Indexes(p) |-> PowerOf(p, b) ]

Algebra == INSTANCE ProductAlgebra WITH
  left <- Vec(left),
  right <- Vec(right),
  result <- IF result = NoUnit THEN NoUnit ELSE Vec(result),
  relationship <- answer

-----------------------------------------------------------------------------
Init ==
  /\ left = One
  /\ right = One
  /\ result = NoUnit
  /\ answer = "UNKNOWN"
  /\ call = "none"
  /\ arg = 0
  /\ i1 = 1
  /\ i2 = 1
  /\ out = << >>
  /\ relationship = "UNKNOWN"
  /\ calls = 0

(* The client prepares its operands.                                       *)

Idle == call = "none" /\ calls < MaxCalls

\* basicNew(): the product-unit of a basic-unit is the one entry (index, 1).
Load(b) ==
  /\ Idle
  /\ LET basic == << [index |-> b, power |-> 1] >>
     IN \/ left' = basic /\ UNCHANGED right
        \/ right' = basic /\ UNCHANGED left
  /\ UNCHANGED <<result, answer, call, arg, i1, i2, out, relationship, calls>>

Adopt ==
  /\ Idle
  /\ result # NoUnit
  /\ \/ left' = result /\ UNCHANGED right
     \/ right' = result /\ UNCHANGED left
  /\ UNCHANGED <<result, answer, call, arg, i1, i2, out, relationship, calls>>

\* The client calls function f: the locals get their initial values.
Enter(f, n) ==
  /\ call' = f
  /\ arg' = n
  /\ i1' = 1
  /\ i2' = 1
  /\ out' = << >>
  /\ relationship' = "UNKNOWN"
  /\ UNCHANGED <<left, right, answer>>

\* The function returns the unit u; its locals go out of scope.
Return(u) ==
  /\ result' = u
  /\ call' = "none"
  /\ arg' = 0
  /\ i1' = 1
  /\ i2' = 1
  /\ out' = << >>
  /\ UNCHANGED <<left, right, answer, relationship, calls>>

-----------------------------------------------------------------------------
(* productMultiply()                                                       *)

CallMultiply ==
  /\ Idle
  /\ calls' = calls + 1
  /\ IF Len(left) + Len(right) = 0
     THEN result' = One /\ UNCHANGED <<left, right, answer, call, arg, i1, i2,
                                       out, relationship>>
     ELSE Enter("multiply", 0) /\ UNCHANGED result

\* Is the entry at the first (second) cursor the next one to be written?
TakesFirst ==
  /\ i1 <= Len(left)
  /\ i2 <= Len(right) => left[i1].index < right[i2].index

\* Mutant: the comparison of the indexes is turned round.
TakesSecondTurned ==
  /\ i2 <= Len(right)
  /\ i1 <= Len(left) => left[i1].index < right[i2].index

TakesSecond ==
  /\ i2 <= Len(right)
  /\ i1 <= Len(left) => left[i1].index > right[i2].index

Meet ==
  /\ i1 <= Len(left)
  /\ i2 <= Len(right)
  /\ left[i1].index = right[i2].index

Exhausted == i1 > Len(left) /\ i2 > Len(right)

MultiplyFirst ==
  /\ call = "multiply"
  /\ TakesFirst
  /\ out' = Append(out, left[i1])
  /\ i1' = i1 + 1
  /\ UNCHANGED <<left, right, result, answer, call, arg, i2, relationship, calls>>

MultiplySecond ==
  /\ call = "multiply"
  /\ TakesSecond
  /\ out' = Append(out, right[i2])
  /\ i2' = i2 + 1
  /\ UNCHANGED <<left, right, result, answer, call, arg, i1, relationship, calls>>

\* Mutant: powers that cancel are not recognised.
MultiplyBothKeepsZero ==
  /\ call = "multiply"
  /\ Meet
  /\ out' = Append(out, [index |-> left[i1].index,
                         power |-> Narrow(left[i1].power + right[i2].power)])
  /\ i1' = i1 + 1
  /\ i2' = i2 + 1
  /\ UNCHANGED <<left, right, result, answer, call, arg, relationship, calls>>

\* Both operands have the basic-unit.  The powers are compared as ints; their
\* sum is stored in a short.
MultiplyBoth ==
  /\ call = "multiply"
  /\ Meet
  /\ out' = IF left[i1].power # -right[i2].power
            THEN Append(out,
                   [index |-> left[i1].index,
                    power |-> Narrow(left[i1].power + right[i2].power)])
            ELSE out
  /\ i1' = i1 + 1
  /\ i2' = i2 + 1
  /\ UNCHANGED <<left, right, result, answer, call, arg, relationship, calls>>

MultiplyReturn ==
  /\ call = "multiply"
  /\ Exhausted
  /\ Return(out)

-----------------------------------------------------------------------------
(* productRaise() and productRoot() work on the left operand.              *)

CallRaise(n) ==
  /\ Idle
  /\ calls' = calls + 1
  /\ IF left = One
     THEN result' = One /\ UNCHANGED <<left, right, answer, call, arg, i1, i2,
                                       out, relationship>>
     ELSE Enter("raise", n) /\ UNCHANGED result

RaiseEntry ==
  /\ call = "raise"
  /\ i1 <= Len(left)
  /\ out' = Append(out, [index |-> left[i1].index,
                         power |-> Narrow(left[i1].power * arg)])
  /\ i1' = i1 + 1
  /\ UNCHANGED <<left, right, result, answer, call, arg, i2, relationship, calls>>

RaiseReturn ==
  /\ call = "raise"
  /\ i1 > Len(left)
  /\ Return(out)

CallRoot(n) ==
  /\ Idle
  /\ calls' = calls + 1
  /\ IF left = One
     THEN result' = One /\ UNCHANGED <<left, right, answer, call, arg, i1, i2,
                                       out, relationship>>
     ELSE Enter("root", n) /\ UNCHANGED result

RootEntry ==
  /\ call = "root"
  /\ i1 <= Len(left)
  /\ left[i1].power % arg = 0
  /\ out' = Append(out, [index |-> left[i1].index,
                         power |-> left[i1].power \div arg])
  /\ i1' = i1 + 1
  /\ UNCHANGED <<left, right, result, answer, call, arg, i2, relationship, calls>>

\* "break", then i < count: UT_MEANINGLESS and no unit.
RootMeaningless ==
  /\ call = "root"
  /\ i1 <= Len(left)
  /\ left[i1].power % arg # 0
  /\ Return(NoUnit)

RootReturn ==
  /\ call = "root"
  /\ i1 > Len(left)
  /\ Return(out)

-----------------------------------------------------------------------------
(* productRelationship()                                                   *)

CallRelate ==
  /\ Idle
  /\ calls' = calls + 1
  /\ Enter("relate", 0)
  /\ UNCHANGED result

Answer(r) ==
  /\ answer' = r
  /\ call' = "none"
  /\ arg' = 0
  /\ i1' = 1
  /\ i2' = 1
  /\ relationship' = "UNKNOWN"
  /\ UNCHANGED <<left, right, result, out, calls>>

\* Mutant: the cursors do not move past a dimensionless basic-unit.
RelateOneStuck ==
  /\ call = "relate"
  /\ TakesFirst \/ TakesSecond
  /\ LET iBasic == IF TakesFirst THEN left[i1].index ELSE right[i2].index
     IN IF iBasic \notin Dimensionless
        THEN Answer("UNCONVERTIBLE")
        ELSE UNCHANGED vars

\* A basic-unit that only one of the operands has.
RelateOne ==
  /\ call = "relate"
  /\ TakesFirst \/ TakesSecond
  /\ LET iBasic == IF TakesFirst THEN left[i1].index ELSE right[i2].index
     IN IF iBasic \notin Dimensionless
        THEN Answer("UNCONVERTIBLE")
        ELSE /\ i1' = IF TakesFirst THEN i1 + 1 ELSE i1
             /\ i2' = IF TakesFirst THEN i2 ELSE i2 + 1
             /\ UNCHANGED <<left, right, result, answer, call, arg, out,
                            relationship, calls>>

\* What a common basic-unit says of the two operands.
Local(p1, p2) ==
  IF p1 = p2 THEN "EQUAL" ELSE IF p1 = -p2 THEN "INVERSE" ELSE "UNCONVERTIBLE"

\* Mutant: the relationship found so far is overwritten, not compared.
RelateBothForgets ==
  /\ call = "relate"
  /\ Meet
  /\ LET here == Local(left[i1].power, right[i2].power)
         counts == left[i1].index \notin Dimensionless
     IN IF counts /\ here = "UNCONVERTIBLE"
        THEN Answer("UNCONVERTIBLE")
        ELSE /\ relationship' = IF counts THEN here ELSE relationship
             /\ i1' = i1 + 1
             /\ i2' = i2 + 1
             /\ UNCHANGED <<left, right, result, answer, call, arg, out, calls>>

RelateBoth ==
  /\ call = "relate"
  /\ Meet
  /\ LET here == Local(left[i1].power, right[i2].power)
         counts == left[i1].index \notin Dimensionless
     IN IF counts /\ (here = "UNCONVERTIBLE" \/ relationship \notin {"UNKNOWN", here})
        THEN Answer("UNCONVERTIBLE")
        ELSE /\ relationship' = IF counts THEN here ELSE relationship
             /\ i1' = i1 + 1
             /\ i2' = i2 + 1
             /\ UNCHANGED <<left, right, result, answer, call, arg, out, calls>>

\* PRODUCT_UNKNOWN here means that both units are dimensionless.
RelateReturn ==
  /\ call = "relate"
  /\ Exhausted
  /\ Answer(IF relationship = "UNKNOWN" THEN "EQUAL" ELSE relationship)

-----------------------------------------------------------------------------
Client ==
  \/ \E b \in Basic : Load(b)
  \/ Adopt
  \/ CallMultiply
  \/ \E n \in Powers : CallRaise(n)
  \/ \E n \in Roots : CallRoot(n)
  \/ CallRelate

Loop ==
  \/ MultiplyFirst
  \/ MultiplySecond
  \/ MultiplyBoth
  \/ MultiplyReturn
  \/ RaiseEntry
  \/ RaiseReturn
  \/ RootEntry
  \/ RootMeaningless
  \/ RootReturn
  \/ RelateOne
  \/ RelateBoth
  \/ RelateReturn

Next == Client \/ Loop

Spec == Init /\ [][Next]_vars

\* A function that has been called keeps executing.
FairSpec == Spec /\ WF_vars(Loop)
-----------------------------------------------------------------------------
(* Properties.                                                             *)

Held == {left, right} \cup (IF result = NoUnit THEN {} ELSE {result})

\* Every unit is an array of entries with 16-bit powers, and the cursors stay
\* within one past the end of the arrays they index.
TypeOK ==
  /\ left \in Product
  /\ right \in Product
  /\ result \in Product \cup {NoUnit}
  /\ answer \in {"UNKNOWN", "EQUAL", "INVERSE", "UNCONVERTIBLE"}
  /\ call \in {"none", "multiply", "raise", "root", "relate"}
  /\ arg \in {0} \cup Powers \cup Roots
  /\ i1 \in 1 .. Len(left) + 1
  /\ i2 \in 1 .. Len(right) + 1
  /\ out \in Product
  /\ relationship \in {"UNKNOWN", "EQUAL", "INVERSE"}
  /\ calls \in 0 .. MaxCalls

\* Whatever sequence of calls built it, a product-unit's indexes ascend
\* strictly, the array under construction included: the merges of
\* productMultiply() and productRelationship() and productCompare() rely on it.
AllAscending ==
  /\ \A p \in Held : Ascending(p)
  /\ Ascending(out)

\* productMultiply() writes an entry with power 0 only when the true sum does
\* not fit a short, or one of the operands came with such an entry: without
\* overflow, a basic-unit whose powers cancel leaves the product.
OnlyOverflowLeavesZero ==
  call = "multiply" =>
    \A k \in DOMAIN out :
      out[k].power = 0 =>
        \/ out[k] \in { left[i] : i \in DOMAIN left }
        \/ out[k] \in { right[j] : j \in DOMAIN right }
        \/ \E i \in DOMAIN left, j \in DOMAIN right :
             /\ left[i].index = out[k].index
             /\ right[j].index = out[k].index
             /\ left[i].power + right[j].power \notin Short

\* Convertibility, reciprocals included, is an equivalence: values can be
\* converted step by step or directly.
ConvertibleIsEquivalence ==
  \A p, q, r \in Held :
    /\ Convertible(Vec(p), Vec(p))
    /\ Convertible(Vec(p), Vec(q)) => Convertible(Vec(q), Vec(p))
    /\ Convertible(Vec(p), Vec(q)) /\ Convertible(Vec(q), Vec(r))
         => Convertible(Vec(p), Vec(r))

\* The loops compute what ProductAlgebra promises, early breaks included, and
\* leave the operands alone while they run.
ImplementsAlgebra == Algebra!Spec

\* Every call returns.
CallReturns == call # "none" ~> call = "none"
=============================================================================
