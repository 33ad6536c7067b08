--------------------------- MODULE Udunits1_proofs ---------------------------
(***************************************************************************)
(* Proofs about Udunits1, for all clients, units, addresses and search     *)
(* trees.                                                                  *)
(***************************************************************************)
EXTENDS Udunits1, TLAPS

-----------------------------------------------------------------------------
(* Who owns which unit.                                                    *)

UTypeOK ==
  /\ client \in Clients
  /\ memory \in [Addresses -> Values \cup {NoUnit, Lost}]
  /\ unit2s \in Trees
  /\ unit2 \in [Structures -> Pointers]
  /\ content \in [Structures -> {"set", Nothing, Stale}]
  /\ DOMAIN unitOf = Names /\ DOMAIN nameOf = Values
  /\ failed \in BOOLEAN

\* The unit one is allocated as long as there is a system.
SystemHasOne == IF unitSystem THEN one \in Addresses /\ memory[one] = TheOne ELSE one = Null

\* What the pointer of a structure is.
Points(x) ==
  /\ content[x] = "set" => unitSystem /\ unit2[x] \in Addresses /\ memory[unit2[x]] \in Values
  /\ content[x] = Nothing => unit2[x] = Null
  /\ content[x] = Stale => unit2[x] \in {Garbage, Dangling}

\* Structures share the unit one and no other.
Shared(x, y) == content[x] = "set" /\ content[y] = "set" /\ unit2[x] = unit2[y] /\ unit2[x] # one
NoneShared == \A x, y \in Structures : Shared(x, y) => x = y

PointersAre == \A x \in Structures : Points(x)

UInv ==
  /\ UTypeOK /\ SystemHasOne /\ PointersAre /\ NoneShared
  /\ TreeKnowsUnits /\ NothingElseLost /\ NoDoubleFree

\* A step of UnitStructures, or none.
Promised == [Abstract!Next]_<<Contents, failed>>

-----------------------------------------------------------------------------
(* setUnit() and freeIfAllocated().                                        *)

LEMMA AddressesArePointers == Null \notin Addresses /\ Garbage \notin Addresses /\ Dangling \notin Addresses
  BY AddressAssumption DEF Null, Garbage, Dangling

\* The tree, after the new address has entered it and the old one has left.
LEMMA TreeAfter ==
  ASSUME NEW t \in Trees, NEW a \in Addresses, NEW p \in Pointers
  PROVE  LET tree == tsearch(a, t)
         IN /\ tree \in Trees /\ tdelete(p, tree) \in Trees
            /\ KeysIn(tdelete(p, tree)) = (KeysIn(t) \cup {a}) \ {p}
            /\ FreedOf(p, tree) = {p} \cap (KeysIn(t) \cup {a})
<1>1. tsearch(a, t) \in Trees /\ KeysIn(tsearch(a, t)) = KeysIn(t) \cup {a}
  BY TreeAssumption
<1>2. /\ tdelete(p, tsearch(a, t)) \in Trees
      /\ KeysIn(tdelete(p, tsearch(a, t))) = KeysIn(tsearch(a, t)) \ {p}
      /\ tfind(p, tsearch(a, t)) <=> p \in KeysIn(tsearch(a, t))
  BY <1>1, TreeAssumption
<1> QED
  BY <1>1, <1>2 DEF FreedOf

\* The unit v of the structure x, at an address that was free or that of the unit one.
LEMMA StoreKeeps ==
  ASSUME UInv, unitSystem, NEW x \in Structures, NEW v \in Values, NEW a \in Addresses, NEW m,
         \/ a = one /\ v = TheOne /\ m = memory
         \/ memory[a] = NoUnit /\ m = [memory EXCEPT ![a] = v],
         Store(x, a, m), content' = [content EXCEPT ![x] = "set"],
         client' = client, unitSystem' = unitSystem, one' = one, unitOf' = unitOf, nameOf' = nameOf,
         failed' = FALSE
  PROVE  /\ UInv'
         /\ Contents' = [Contents EXCEPT ![x] = v]
<1> DEFINE old == unit2[x]
           gone == {old} \cap (KeysIn(unit2s) \cup {a})
<1>1. one \in Addresses /\ memory[one] = TheOne /\ TheOne \in Values
  BY NullAssumption DEF UInv, SystemHasOne
<1>2. a = one \/ (a # one /\ memory[a] = NoUnit)
  BY <1>1, StoreAssumption
<1>3. /\ unit2s \in Trees /\ KeysIn(unit2s) \subseteq Addresses /\ old \in Pointers
      /\ memory \in [Addresses -> Values \cup {NoUnit, Lost}]
      /\ unit2 \in [Structures -> Pointers] /\ content \in [Structures -> {"set", Nothing, Stale}]
  BY TreeAssumption DEF UInv, UTypeOK
<1>4. /\ unit2' = [unit2 EXCEPT ![x] = a]
      /\ unit2s' \in Trees /\ KeysIn(unit2s') = (KeysIn(unit2s) \cup {a}) \ {old}
      /\ memory' = Without(m, gone) /\ fault' = Misused(m, gone)
  <2> DEFINE tree == tsearch(a, unit2s)
  <2>1. /\ tree \in Trees /\ tdelete(old, tree) \in Trees
        /\ KeysIn(tdelete(old, tree)) = (KeysIn(unit2s) \cup {a}) \ {old}
        /\ FreedOf(old, tree) = gone
    BY <1>3, TreeAfter
  <2>2. /\ unit2' = [unit2 EXCEPT ![x] = a] /\ unit2s' = tdelete(old, tree)
        /\ memory' = Without(m, FreedOf(old, tree)) /\ fault' = Misused(m, FreedOf(old, tree))
    BY DEF Store
  <2> QED
    BY <2>1, <2>2
<1>5. m \in [Addresses -> Values \cup {NoUnit, Lost}] /\ m[a] = v
      /\ \A b \in Addresses : b # a => m[b] = memory[b]
  BY <1>1, <1>3
<1>6. m[one] = TheOne /\ (a = one => m = memory)
  <2>1. CASE a = one
    BY <1>1, <2>1, StoreAssumption
  <2>2. CASE a # one
    BY <1>1, <1>5, <2>2
  <2> QED
    BY <2>1, <2>2
<1>7. old \in Addresses => content[x] = "set" /\ memory[old] \in Values
  BY <1>3, AddressesArePointers DEF UInv, PointersAre, Points
<1>8. \A b \in Addresses : memory'[b] = IF b \in gone \ {one} THEN NoUnit ELSE m[b]
  BY <1>4 DEF Without
<1>9. old = a => a = one
  BY <1>2, <1>7, StoreAssumption
<1>10. memory'[a] = v
  BY <1>5, <1>8, <1>9
<1>11. /\ unit2'[x] = a /\ content'[x] = "set"
       /\ \A y \in Structures : y # x => unit2'[y] = unit2[y] /\ content'[y] = content[y]
  BY <1>3, <1>4
<1>12. \A y \in Structures : y # x /\ content[y] = "set" => 
          /\ unit2[y] \in Addresses /\ memory[unit2[y]] \in Values
          /\ unit2[y] = old => old = one
          /\ unit2[y] = a => a = one
          /\ memory'[unit2[y]] = memory[unit2[y]]
  <2> SUFFICES ASSUME NEW y \in Structures, y # x, content[y] = "set"
               PROVE  /\ unit2[y] \in Addresses /\ memory[unit2[y]] \in Values
                      /\ unit2[y] = old => old = one
                      /\ unit2[y] = a => a = one
                      /\ memory'[unit2[y]] = memory[unit2[y]]
    OBVIOUS
  <2>1. unit2[y] \in Addresses /\ memory[unit2[y]] \in Values
    BY DEF UInv, PointersAre, Points
  <2>2. unit2[y] = old => old = one
    BY <2>1, <1>7 DEF UInv, NoneShared, Shared
  <2>3. unit2[y] = a => a = one
    BY <2>1, <1>2, StoreAssumption
  <2>4. memory'[unit2[y]] = m[unit2[y]]
    <3>1. unit2[y] \notin gone \ {one}
      BY <2>2
    <3> HIDE DEF gone
    <3> QED
      BY <1>8, <2>1, <3>1
  <2>5. m[unit2[y]] = memory[unit2[y]]
    BY <1>5, <1>6, <2>1, <2>3
  <2> QED
    BY <2>1, <2>2, <2>3, <2>4, <2>5
<1>13. UTypeOK'
  <2>1. memory' \in [Addresses -> Values \cup {NoUnit, Lost}]
    <3> HIDE DEF gone
    <3> QED
      BY <1>4, <1>5 DEF Without
  <2>2. unit2' \in [Structures -> Pointers] /\ content' \in [Structures -> {"set", Nothing, Stale}]
    BY <1>3, <1>4 DEF Pointers
  <2> QED
    BY <1>4, <2>1, <2>2 DEF UInv, UTypeOK
<1>14. SystemHasOne'
  BY <1>1, <1>8, <1>6 DEF SystemHasOne
<1>15. PointersAre'
  BY <1>3, <1>10, <1>11, <1>12, StoreAssumption DEF UInv, PointersAre, Points
<1>16. NoneShared'
  BY <1>11, <1>12 DEF UInv, NoneShared, Shared
<1>17. TreeKnowsUnits'
  <2> SUFFICES ASSUME NEW y \in Structures, content'[y] = "set"
               PROVE  unit2'[y] \in KeysIn(unit2s') \cup {one}
    BY <1>4 DEF TreeKnowsUnits
  <2>1. CASE y = x
    BY <1>4, <1>9, <1>11, <2>1
  <2>2. CASE y # x
    BY <1>4, <1>11, <1>12, <2>2 DEF UInv, TreeKnowsUnits
  <2> QED
    BY <2>1, <2>2
<1>18. NothingElseLost'
  <2> SUFFICES ASSUME NEW b \in Addresses, memory'[b] # NoUnit, b # one, memory'[b] # Lost
               PROVE  \E y \in Structures : content'[y] = "set" /\ unit2'[y] = b
    BY DEF NothingElseLost, Allocated
  <2>1. CASE b = a
    BY <1>11, <2>1
  <2>2. CASE b # a
    <3>1. memory'[b] = memory[b] /\ b \notin gone
      BY <1>5, <1>8, <2>2
    <3>2. PICK y \in Structures : content[y] = "set" /\ unit2[y] = b
      BY <3>1 DEF UInv, NothingElseLost, Allocated
    <3>3. y # x
      BY <3>1, <3>2, <2>2 DEF UInv, TreeKnowsUnits
    <3> QED
      BY <1>11, <3>2, <3>3
  <2> QED
    BY <2>1, <2>2
<1>19. NoDoubleFree'
  <2>1. \A b \in gone : b \in Addresses /\ m[b] # NoUnit
    BY <1>3, <1>5, <1>7, StoreAssumption
  <2> QED
    BY <1>4, <2>1 DEF Misused, NoDoubleFree
<1>20. Contents' = [Contents EXCEPT ![x] = v]
  <2>1. \A y \in Structures : (IF content'[y] = "set" THEN UnitAt(unit2[y])' ELSE content'[y])
                             = IF y = x THEN v ELSE IF content[y] = "set" THEN UnitAt(unit2[y]) ELSE content[y]
    BY <1>10, <1>11, <1>12, AddressesArePointers DEF UnitAt
  <2> QED
    BY <2>1 DEF Contents
<1> QED
  BY <1>13, <1>14, <1>15, <1>16, <1>17, <1>18, <1>19, <1>20 DEF UInv
\* Without room for a node of the tree the new unit is lost, and the old one stays.
LEMMA LossKeeps ==
  ASSUME UInv, unitSystem, NEW v \in Values, NEW a \in Addresses, NEW m,
         \/ a = one /\ v = TheOne /\ m = memory
         \/ memory[a] = NoUnit /\ m = [memory EXCEPT ![a] = v],
         memory' = Losing(m, {a}),
         UNCHANGED <<client, unitSystem, one, unitOf, nameOf, unit2s, unit2, content, fault>>,
         failed' \in BOOLEAN
  PROVE  /\ UInv'
         /\ Contents' = Contents
<1>1. one \in Addresses /\ memory[one] = TheOne /\ TheOne \in Values
  BY NullAssumption DEF UInv, SystemHasOne
<1>2. memory \in [Addresses -> Values \cup {NoUnit, Lost}]
  BY DEF UInv, UTypeOK
<1>3. \A b \in Addresses : memory[b] \notin {NoUnit, Lost} => memory'[b] = memory[b]
  <2>1. CASE a = one
    BY <1>1, <1>2, <2>1, StoreAssumption DEF Losing
  <2>2. CASE a # one
    BY <1>1, <1>2, <2>2 DEF Losing
  <2> QED
    BY <2>1, <2>2
<1>4. \A b \in Addresses : memory'[b] \in {memory[b], Lost}
  <2>1. CASE a = one
    BY <1>1, <1>2, <2>1, StoreAssumption DEF Losing
  <2>2. CASE a # one
    BY <1>1, <1>2, <2>2 DEF Losing
  <2> QED
    BY <2>1, <2>2
<1>5. \A y \in Structures : content[y] = "set" =>
        /\ unit2[y] \in Addresses /\ memory[unit2[y]] \in Values
        /\ memory'[unit2[y]] = memory[unit2[y]]
  BY <1>3, StoreAssumption DEF UInv, PointersAre, Points
<1>6. UTypeOK'
  <2>1. memory' \in [Addresses -> Values \cup {NoUnit, Lost}]
    BY <1>2, <1>4 DEF Losing
  <2> QED
    BY <2>1 DEF UInv, UTypeOK
<1>7. SystemHasOne'
  BY <1>1, <1>3, StoreAssumption DEF SystemHasOne
<1>8. PointersAre' /\ NoneShared' /\ TreeKnowsUnits' /\ NoDoubleFree'
  BY <1>5 DEF UInv, PointersAre, Points, NoneShared, Shared, TreeKnowsUnits, NoDoubleFree
<1>9. NothingElseLost'
  BY <1>4 DEF UInv, NothingElseLost, Allocated
<1>10. Contents' = Contents
  BY <1>5, AddressesArePointers DEF Contents, UnitAt
<1> QED
  BY <1>6, <1>7, <1>8, <1>9, <1>10 DEF UInv

-----------------------------------------------------------------------------
(* Results.                                                                *)

LEMMA Sets ==
  ASSUME NEW x \in Structures, NEW v \in Values, failed' = FALSE, Contents' = [Contents EXCEPT ![x] = v]
  PROVE  Promised
  BY DEF Promised, Abstract!Next, Abstract!SetUnit

LEMMA Leaves ==
  ASSUME failed' \in BOOLEAN, Contents' = Contents
  PROVE  Promised
  BY DEF Promised, Abstract!Next, Abstract!Leave

\* What stays when a function on structures is called.
LEMMA KeptStays ==
  ASSUME Kept
  PROVE  /\ UNCHANGED <<client, unitSystem, one, unitOf, nameOf>>
  BY DEF Kept, system, database

LEMMA AnswerIsBoolean ==
  ASSUME NEW value, Answer(value)
  PROVE  failed' \in BOOLEAN
  BY DEF Answer

LEMMA SetUnitKeeps ==
  ASSUME UInv, unitSystem, Kept, NEW x \in Structures, NEW v \in Values, NEW a \in Addresses, NEW m,
         \/ a = one /\ v = TheOne /\ m = memory
         \/ memory[a] = NoUnit /\ m = [memory EXCEPT ![a] = v],
         NEW success \in {"result", "0"}, NEW failure, SetUnit(x, a, m, success, failure)
  PROVE  UInv' /\ Promised
<1>1. UNCHANGED <<client, unitSystem, one, unitOf, nameOf>>
  BY KeptStays
<1>2. CASE Store(x, a, m) /\ content' = [content EXCEPT ![x] = "set"] /\ Answer(success)
  <2>1. failed' = FALSE
    BY <1>2 DEF Answer
  <2>2. UInv' /\ Contents' = [Contents EXCEPT ![x] = v]
    BY <1>1, <1>2, <2>1, StoreKeeps
  <2> QED
    BY <2>1, <2>2, Sets
<1>3. CASE /\ memory' = Losing(m, {a}) /\ Answer(failure)
           /\ UNCHANGED <<unit2s, unit2, content, fault>>
  <2>1. failed' \in BOOLEAN
    BY <1>3, AnswerIsBoolean
  <2>2. UInv' /\ Contents' = Contents
    BY <1>1, <1>3, <2>1, LossKeeps
  <2> QED
    BY <2>1, <2>2, Leaves
<1> QED
  BY <1>2, <1>3 DEF SetUnit

LEMMA GivenKeeps ==
  ASSUME UInv, unitSystem, Kept, NEW x \in Structures, NEW v \in Values,
         NEW success \in {"result", "0"}, NEW failure, Given(x, v, success, failure)
  PROVE  UInv' /\ Promised
<1>1. CASE v = TheOne
  <2>1. one \in Addresses
    BY DEF UInv, SystemHasOne
  <2>2. SetUnit(x, one, memory, success, failure)
    BY <1>1 DEF Given
  <2> QED
    BY <1>1, <2>1, <2>2, SetUnitKeeps
<1>2. CASE v # TheOne
  <2>1. PICK a \in client.addresses \ Allocated : SetUnit(x, a, [memory EXCEPT ![a] = v], success, failure)
    BY <1>2 DEF Given
  <2>2. a \in Addresses /\ memory[a] = NoUnit
    BY ClientAssumption DEF UInv, UTypeOK, Allocated
  <2> QED
    BY <2>1, <2>2, SetUnitKeeps
<1> QED
  BY <1>1, <1>2

\* A call that leaves the structures and their units alone.
LEMMA QueryKeeps ==
  ASSUME UInv, UNCHANGED <<client, unitSystem, one, memory, unit2s, unit2, content, fault>>,
         DOMAIN unitOf' = Names, DOMAIN nameOf' = Values, failed' \in BOOLEAN
  PROVE  UInv' /\ Promised
<1>1. UInv'
  BY DEF UInv, UTypeOK, SystemHasOne, PointersAre, Points, NoneShared, Shared, TreeKnowsUnits,
         NothingElseLost, Allocated, NoDoubleFree
<1>2. Contents' = Contents
  BY DEF Contents, UnitAt
<1> QED
  BY <1>1, <1>2, Leaves

LEMMA ReturnedKeeps ==
  ASSUME UInv, Kept, NEW value, Returned(value)
  PROVE  UInv' /\ Promised
<1>1. UNCHANGED <<client, unitSystem, one, unitOf, nameOf, memory, unit2s, unit2, content, fault>>
  BY KeptStays DEF Returned, units
<1>2. DOMAIN unitOf' = Names /\ DOMAIN nameOf' = Values
  BY <1>1 DEF UInv, UTypeOK
<1> QED
  BY <1>1, <1>2, AnswerIsBoolean, QueryKeeps DEF Returned

LEMMA ResultingKeeps ==
  ASSUME UInv, Kept, NEW d \in Structures, NEW unit, unit \in Values => unitSystem, Resulting(d, unit)
  PROVE  UInv' /\ Promised
<1>1. CASE Returned("NULL")
  BY <1>1, ReturnedKeeps
<1>2. CASE unit \in client.values /\ Given(d, unit, "result", "NULL")
  <2>1. unit \in Values
    BY <1>2, ClientAssumption DEF UInv, UTypeOK
  <2> QED
    BY <1>2, <2>1, GivenKeeps
<1> QED
  BY <1>1, <1>2 DEF Resulting

\* What a structure that may be read holds.
LEMMA OperandHolds ==
  ASSUME UInv, NEW x \in Structures, Operand(x)
  PROVE  \/ unitSystem /\ UnitAt(unit2[x]) \in Values
         \/ UnitAt(unit2[x]) = NoUnit
<1>1. content[x] \in {"set", Nothing}
  BY DEF UInv, UTypeOK, Operand
<1> QED
  BY <1>1, AddressesArePointers DEF UInv, PointersAre, Points, UnitAt
-----------------------------------------------------------------------------
(* The actions.                                                            *)

LEMMA ResultsKeep ==
  ASSUME UInv, NEW x \in client.structures, NEW d \in client.structures,
         \/ UtScan(d) \/ UtFind(d) \/ UtClear(d) \/ UtCopy(x, d) \/ UtInvert(x, d)
         \/ \E n \in Exponents : UtRaise(x, n, d)
         \/ \E o \in Amounts : UtShift(x, o, d)
         \/ \E k \in Factors : UtScale(x, k, d)
         \/ \E y \in client.structures : UtMultiply(x, y, d) \/ UtDivide(x, y, d)
  PROVE  UInv' /\ Promised
<1>1. client.structures \subseteq Structures /\ client.values \subseteq Values
  BY ClientAssumption DEF UInv, UTypeOK
<1>2. CASE UtScan(d)
  <2>1. ASSUME unitSystem, NEW v \in client.values, Given(d, v, "0", "UT_EALLOC") PROVE UInv' /\ Promised
    BY <1>1, <1>2, <2>1, GivenKeeps DEF UtScan
  <2> QED
    BY <1>2, <2>1, ReturnedKeeps DEF UtScan
<1>3. CASE UtFind(d)
  <2>1. ASSUME unitSystem, NEW v \in client.values, Given(d, v, "0", "UT_EALLOC") PROVE UInv' /\ Promised
    BY <1>1, <1>3, <2>1, GivenKeeps DEF UtFind
  <2> QED
    BY <1>3, <2>1, ReturnedKeeps DEF UtFind
<1>4. CASE UtClear(d)
  <2> DEFINE unit == IF unitSystem THEN TheOne ELSE NoUnit
  <2>1. unit \in Values => unitSystem
    BY StoreAssumption
  <2>2. Kept /\ Resulting(d, unit)
    BY <1>4 DEF UtClear
  <2> HIDE DEF unit
  <2> QED
    BY <1>1, <2>1, <2>2, ResultingKeeps
<1>5. CASE UtCopy(x, d)
  <2> DEFINE unit == IF unit2[x] = Null THEN NoUnit ELSE ut_clone(UnitAt(unit2[x]))
  <2>1. Operand(x) /\ Kept /\ Resulting(d, unit)
    BY <1>5 DEF UtCopy, Copy
  <2>2. unit2[x] # Null => unitSystem
    <3>1. content[x] \in {"set", Nothing}
      BY <1>1, <2>1 DEF UInv, UTypeOK, Operand
    <3> QED
      BY <1>1, <3>1 DEF UInv, PointersAre, Points
  <2>3. unit \in Values => unitSystem
    BY <2>2, StoreAssumption
  <2> HIDE DEF unit
  <2> QED
    BY <1>1, <2>1, <2>3, ResultingKeeps
<1>6. ASSUME NEW out, UtUnary(x, d, out), UnitAt(unit2[x]) = NoUnit => out.unit = NoUnit
      PROVE  UInv' /\ Promised
  <2>1. Operand(x) /\ Kept /\ Resulting(d, out.unit)
    BY <1>6 DEF UtUnary
  <2>2. out.unit \in Values => unitSystem
    BY <1>1, <1>6, <2>1, OperandHolds, StoreAssumption
  <2> QED
    BY <1>1, <2>1, <2>2, ResultingKeeps
<1>7. CASE UtInvert(x, d)
  BY <1>6, <1>7, NullAssumption DEF UtInvert
<1>8. ASSUME NEW n \in Exponents, UtRaise(x, n, d) PROVE UInv' /\ Promised
  BY <1>6, <1>8, NullAssumption DEF UtRaise
<1>9. ASSUME NEW o \in Amounts, UtShift(x, o, d) PROVE UInv' /\ Promised
  BY <1>6, <1>9, NullAssumption DEF UtShift
<1>10. ASSUME NEW k \in Factors, UtScale(x, k, d) PROVE UInv' /\ Promised
  BY <1>6, <1>10, NullAssumption DEF UtScale
<1>11. ASSUME NEW y \in client.structures, UtMultiply(x, y, d) \/ UtDivide(x, y, d)
       PROVE  UInv' /\ Promised
  <2>1. Operand(y) /\ UnitAt(unit2[y]) \in Values \cup {NoUnit}
    BY <1>1, <1>11, OperandHolds DEF UtMultiply, UtDivide
  <2>2. CASE UtMultiply(x, y, d)
    BY <1>6, <2>1, <2>2, NullAssumption DEF UtMultiply
  <2>3. CASE UtDivide(x, y, d)
    BY <1>6, <2>1, <2>3, NullAssumption DEF UtDivide
  <2> QED
    BY <1>11, <2>2, <2>3
<1> QED
  BY <1>2, <1>3, <1>4, <1>5, <1>7, <1>8, <1>9, <1>10, <1>11

LEMMA QueriesKeep ==
  ASSUME UInv, NEW x, NEW y,
         \/ UtIsInit \/ UtCalendar(x) \/ UtInvCalendar(x) \/ UtIsTime(x) \/ UtHasOrigin(x)
         \/ UtConvert(x, y)
  PROVE  UInv' /\ Promised
<1>1. Kept /\ \E value : Returned(value)
  BY DEF UtIsInit, UtCalendar, UtInvCalendar, UtIsTime, UtHasOrigin, UtConvert
<1> QED
  BY <1>1, ReturnedKeeps

LEMMA PrintKeeps ==
  ASSUME UInv, NEW x, UtPrint(x) \/ Printing \/ FormatFails \/ GrowthFails
  PROVE  UInv' /\ Promised
<1>1. PrinterKept
  BY DEF UtPrint, Printing, PrintFails, Prints, Grows, FormatFails, GrowthFails, TooLong
<1>2. failed' \in BOOLEAN
  BY DEF UtPrint, Printing, PrintFails, Prints, Grows, FormatFails, GrowthFails, Answer, UInv, UTypeOK
<1>3. /\ UNCHANGED <<client, unitSystem, one, memory, unit2s, unit2, content, fault>>
      /\ DOMAIN unitOf' = Names /\ DOMAIN nameOf' = Values
  BY <1>1 DEF PrinterKept, system, database, units, UInv, UTypeOK
<1> QED
  BY <1>2, <1>3, QueryKeeps

LEMMA AddKeeps ==
  ASSUME UInv, NEW n, NEW hasPlural, NEW x, UtAdd(n, hasPlural, x)
  PROVE  UInv' /\ Promised
<1>1. UNCHANGED <<client, unitSystem, one, memory, unit2s, unit2, content, fault>>
  BY DEF UtAdd, system, units
<1>2. DOMAIN unitOf = Names /\ DOMAIN nameOf = Values
  BY DEF UInv, UTypeOK
<1> DEFINE u == UnitAt(unit2[x])
<1>3. CASE AddRefused(u, n)
  <2>1. UNCHANGED <<unitOf, nameOf>> /\ failed' \in BOOLEAN
    BY <1>3 DEF AddRefused, Answer, database
  <2> QED
    BY <1>1, <1>2, <2>1, QueryKeeps
<1>4. CASE AddUnnamed(u, n)
  <2>1. unitOf' = [unitOf EXCEPT ![n] = NoUnit] /\ nameOf' = nameOf /\ failed' \in BOOLEAN
    BY <1>4 DEF AddUnnamed, Answer
  <2> QED
    BY <1>1, <1>2, <2>1, QueryKeeps
<1>5. CASE AddWithoutPlural(u, n)
  <2>1. unitOf' = [unitOf EXCEPT ![n] = NoUnit] /\ nameOf' = Unnamed(u) /\ failed' \in BOOLEAN
    BY <1>5 DEF AddWithoutPlural, Undone, Answer
  <2> QED
    BY <1>1, <1>2, <2>1, QueryKeeps DEF Unnamed
<1>6. CASE Added(u, n, hasPlural)
  <2>1. \A names, name : DOMAIN WithName(names, name, u) = DOMAIN names
    BY DEF WithName
  <2>2. DOMAIN unitOf' = Names /\ failed' \in BOOLEAN
    BY <1>2, <1>6, <2>1 DEF Added, Answer
  <2>3. DOMAIN nameOf' = Values
    BY <1>2, <1>6 DEF Added, Named
  <2> QED
    BY <1>1, <2>2, <2>3, QueryKeeps
<1> QED
  BY <1>3, <1>4, <1>5, <1>6 DEF UtAdd

-----------------------------------------------------------------------------
(* utIni() and utFree().                                                   *)

\* A structure forgets its unit, whose memory m is no longer any structure's.
LEMMA ResetKeeps ==
  ASSUME UInv, Kept, NEW x \in Structures,
         unit2' = [unit2 EXCEPT ![x] = Null], content' = [content EXCEPT ![x] = Nothing],
         failed' = FALSE, fault' # "structure",
         unit2s' \in Trees, KeysIn(unit2s) \ {unit2[x]} \subseteq KeysIn(unit2s'),
         memory' \in [Addresses -> Values \cup {NoUnit, Lost}],
         \A a \in Addresses : a # unit2[x] \/ a = one => memory'[a] = memory[a],
         content[x] = "set" /\ unit2[x] # one => memory'[unit2[x]] \in {NoUnit, Lost},
         content[x] # "set" => memory' = memory
  PROVE  UInv' /\ Promised
<1>1. UNCHANGED <<client, unitSystem, one, unitOf, nameOf>>
  BY KeptStays
<1>2. /\ unit2'[x] = Null /\ content'[x] = Nothing
      /\ \A y \in Structures : y # x => unit2'[y] = unit2[y] /\ content'[y] = content[y]
  BY DEF UInv, UTypeOK
<1>3. \A y \in Structures : y # x /\ content[y] = "set" =>
         /\ unit2[y] \in Addresses /\ memory[unit2[y]] \in Values
         /\ memory'[unit2[y]] = memory[unit2[y]]
         /\ unit2[y] = unit2[x] => unit2[y] = one
  <2> SUFFICES ASSUME NEW y \in Structures, y # x, content[y] = "set"
               PROVE  /\ unit2[y] \in Addresses /\ memory[unit2[y]] \in Values
                      /\ memory'[unit2[y]] = memory[unit2[y]]
                      /\ unit2[y] = unit2[x] => unit2[y] = one
    OBVIOUS
  <2>1. unit2[y] \in Addresses /\ memory[unit2[y]] \in Values
    BY DEF UInv, PointersAre, Points
  <2>2. unit2[y] = unit2[x] => content[x] = "set"
    <3>1. content[x] \in {"set", Nothing, Stale}
      BY DEF UInv, UTypeOK
    <3> QED
      BY <2>1, <3>1, AddressesArePointers DEF UInv, PointersAre, Points
  <2>3. unit2[y] = unit2[x] => unit2[y] = one
    BY <2>2 DEF UInv, NoneShared, Shared
  <2> QED
    BY <2>1, <2>3
<1>4. UTypeOK'
  BY <1>1 DEF UInv, UTypeOK, Pointers
<1>5. SystemHasOne'
  BY <1>1 DEF UInv, SystemHasOne
<1>6. PointersAre'
  BY <1>1, <1>2, <1>3, StoreAssumption DEF UInv, PointersAre, Points
<1>7. NoneShared'
  BY <1>1, <1>2, StoreAssumption DEF UInv, NoneShared, Shared
<1>8. TreeKnowsUnits'
  <2> SUFFICES ASSUME NEW y \in Structures, content'[y] = "set"
               PROVE  unit2'[y] \in KeysIn(unit2s') \cup {one}
    BY <1>1 DEF TreeKnowsUnits
  <2>1. y # x /\ content[y] = "set" /\ unit2'[y] = unit2[y]
    BY <1>2, StoreAssumption
  <2> QED
    BY <1>3, <2>1 DEF UInv, TreeKnowsUnits
<1>9. NothingElseLost'
  <2> SUFFICES ASSUME NEW b \in Addresses, memory'[b] # NoUnit, b # one, memory'[b] # Lost
               PROVE  \E y \in Structures : content'[y] = "set" /\ unit2'[y] = b
    BY <1>1 DEF NothingElseLost, Allocated
  <2>1. ~(content[x] = "set" /\ unit2[x] = b)
    OBVIOUS
  <2>2. memory'[b] = memory[b]
    BY <2>1
  <2>3. PICK y \in Structures : content[y] = "set" /\ unit2[y] = b
    BY <2>2 DEF UInv, NothingElseLost, Allocated
  <2> QED
    BY <1>2, <2>1, <2>3
<1>10. NoDoubleFree'
  BY DEF NoDoubleFree
<1>11. Contents' = [Contents EXCEPT ![x] = Nothing]
  <2>1. \A y \in Structures : (IF content'[y] = "set" THEN UnitAt(unit2[y])' ELSE content'[y])
                             = IF y = x THEN Nothing ELSE IF content[y] = "set" THEN UnitAt(unit2[y]) ELSE content[y]
    BY <1>2, <1>3, StoreAssumption DEF UnitAt
  <2> QED
    BY <2>1 DEF Contents
<1>12. Promised
  BY <1>11 DEF Promised, Abstract!Next, Abstract!Reset
<1> QED
  BY <1>4, <1>5, <1>6, <1>7, <1>8, <1>9, <1>10, <1>12 DEF UInv
\* The pointer of a structure that holds no unit is no address.
LEMMA OnlySetPoints ==
  ASSUME UInv, NEW x \in Structures, unit2[x] \in Addresses
  PROVE  content[x] = "set"
<1>1. content[x] \in {"set", Nothing, Stale}
  BY DEF UInv, UTypeOK
<1> QED
  BY <1>1, AddressesArePointers DEF UInv, PointersAre, Points

LEMMA UtIniKeeps ==
  ASSUME UInv, NEW x \in Structures, UtIni(x)
  PROVE  UInv' /\ Promised
<1>1. /\ Kept /\ unit2' = [unit2 EXCEPT ![x] = Null] /\ content' = [content EXCEPT ![x] = Nothing]
      /\ failed' = FALSE /\ unit2s' = unit2s /\ fault' = fault
      /\ memory' = IF content[x] = "set" THEN Losing(memory, {unit2[x]}) ELSE memory
  BY DEF UtIni, Answer
<1>2. /\ unit2s \in Trees /\ fault # "structure"
      /\ memory \in [Addresses -> Values \cup {NoUnit, Lost}]
  BY DEF UInv, UTypeOK, NoDoubleFree
<1>3. content[x] = "set" => unit2[x] \in Addresses
  BY DEF UInv, PointersAre, Points
<1>4. memory' \in [Addresses -> Values \cup {NoUnit, Lost}]
  BY <1>1, <1>2 DEF Losing
<1>5. \A a \in Addresses : a # unit2[x] \/ a = one => memory'[a] = memory[a]
  BY <1>1, <1>2 DEF Losing
<1>6. content[x] = "set" /\ unit2[x] # one => memory'[unit2[x]] = Lost
  BY <1>1, <1>3 DEF Losing
<1> QED
  BY <1>1, <1>2, <1>4, <1>5, <1>6, ResetKeeps

LEMMA UtFreeKeeps ==
  ASSUME UInv, NEW x \in Structures, UtFree(x)
  PROVE  UInv' /\ Promised
<1> DEFINE old == unit2[x]
           gone == {old} \cap KeysIn(unit2s)
<1>1. /\ Kept /\ unit2' = [unit2 EXCEPT ![x] = Null] /\ content' = [content EXCEPT ![x] = Nothing]
      /\ failed' = FALSE
      /\ unit2s' = tdelete(old, unit2s)
      /\ memory' = Without(memory, FreedOf(old, unit2s))
      /\ fault' = Misused(memory, FreedOf(old, unit2s))
  BY DEF UtFree, Answer
<1>2. /\ unit2s \in Trees /\ old \in Pointers
      /\ memory \in [Addresses -> Values \cup {NoUnit, Lost}]
  BY DEF UInv, UTypeOK
<1>3. /\ KeysIn(unit2s) \subseteq Addresses
      /\ tfind(old, unit2s) <=> old \in KeysIn(unit2s)
      /\ unit2s' \in Trees /\ KeysIn(unit2s') = KeysIn(unit2s) \ {old}
  BY <1>1, <1>2, TreeAssumption
<1>4. FreedOf(old, unit2s) = gone
  BY <1>3 DEF FreedOf
<1>5. content[x] = "set" => old \in Addresses /\ memory[old] \in Values /\ old \in KeysIn(unit2s) \cup {one}
  BY DEF UInv, PointersAre, Points, TreeKnowsUnits
<1>6. content[x] # "set" => gone = {}
  BY <1>3, OnlySetPoints
<1>7. \A a \in Addresses : memory'[a] = IF a \in gone \ {one} THEN NoUnit ELSE memory[a]
  BY <1>1, <1>4 DEF Without
<1>8. memory' \in [Addresses -> Values \cup {NoUnit, Lost}]
  <2> HIDE DEF gone, old
  <2> QED
    BY <1>1, <1>2, <1>4 DEF Without
<1>9. \A a \in Addresses : a # old \/ a = one => memory'[a] = memory[a]
  BY <1>7
<1>10. content[x] = "set" /\ old # one => memory'[old] = NoUnit
  BY <1>5, <1>7
<1>11. content[x] # "set" => memory' = memory
  BY <1>1, <1>2, <1>4, <1>6 DEF Without
<1>12. fault' # "structure"
  <2>1. \A a \in gone : a \in Addresses /\ memory[a] # NoUnit
    BY <1>3, <1>5, <1>6, StoreAssumption
  <2> QED
    BY <1>1, <1>4, <2>1 DEF Misused
<1> QED
  BY <1>1, <1>3, <1>8, <1>9, <1>10, <1>11, <1>12, ResetKeeps

-----------------------------------------------------------------------------
(* utInit() and utTerm().                                                  *)

\* The units of the structures go with their system.
LEMMA SystemGoneKeeps ==
  ASSUME UInv, SystemGone, client' = client, unit2s' = unit2s, fault' # "structure",
         failed' \in BOOLEAN,
         \/ ~unitSystem' /\ one' = Null /\ memory' = FreeSystem
         \/ /\ unitSystem' /\ one' \in Addresses
            /\ memory' = [FreeSystem EXCEPT ![one'] = TheOne]
  PROVE  UInv' /\ Promised
<1>1. /\ memory \in [Addresses -> Values \cup {NoUnit, Lost}] /\ unit2 \in [Structures -> Pointers]
      /\ content \in [Structures -> {"set", Nothing, Stale}]
  BY DEF UInv, UTypeOK
<1>2. FreeSystem \in [Addresses -> {NoUnit, Lost}]
  BY DEF FreeSystem
<1>3. /\ memory' \in [Addresses -> Values \cup {NoUnit, Lost}]
      /\ \A a \in Addresses : a # one' => memory'[a] \in {NoUnit, Lost}
      /\ unitSystem' => memory'[one'] = TheOne
  BY <1>2, NullAssumption
<1>4. \A x \in Structures :
        /\ content'[x] # "set" /\ content'[x] = (IF content[x] = Nothing THEN Nothing ELSE Stale)
        /\ unit2'[x] = IF content[x] = "set" THEN Dangling ELSE unit2[x]
  BY StoreAssumption DEF SystemGone
<1>5. UTypeOK'
  <2>1. unit2' \in [Structures -> Pointers]
    BY <1>1 DEF SystemGone, Pointers
  <2>2. content' \in [Structures -> {"set", Nothing, Stale}]
    BY DEF SystemGone
  <2>3. DOMAIN unitOf' = Names /\ DOMAIN nameOf' = Values
    BY DEF SystemGone, NoNames, NoUnits
  <2> QED
    BY <1>3, <2>1, <2>2, <2>3 DEF UInv, UTypeOK
<1>6. SystemHasOne'
  BY <1>3 DEF SystemHasOne
<1>7. PointersAre'
  <2> SUFFICES ASSUME NEW x \in Structures PROVE Points(x)'
    BY DEF PointersAre
  <2>1. CASE content[x] = Nothing
    BY <1>4, <2>1, StoreAssumption DEF UInv, PointersAre, Points
  <2>2. CASE content[x] = "set"
    BY <1>4, <2>2, StoreAssumption DEF Points
  <2>3. CASE content[x] = Stale
    BY <1>4, <2>3, StoreAssumption DEF UInv, PointersAre, Points
  <2> QED
    BY <1>1, <2>1, <2>2, <2>3
<1>8. NoneShared' /\ TreeKnowsUnits' /\ NoDoubleFree'
  BY <1>4 DEF UInv, NoneShared, Shared, TreeKnowsUnits, NoDoubleFree
<1>9. NothingElseLost'
  BY <1>3 DEF NothingElseLost, Allocated
<1>10. Contents' = [ x \in Structures |-> IF Contents[x] = Nothing THEN Nothing ELSE Stale ]
  <2>1. \A x \in Structures : (content[x] = Nothing) = (Contents[x] = Nothing)
    <3> SUFFICES ASSUME NEW x \in Structures, content[x] = "set" PROVE Contents[x] # Nothing
      BY StoreAssumption DEF Contents
    <3>1. unit2[x] \in Addresses /\ memory[unit2[x]] \in Values
      BY DEF UInv, PointersAre, Points
    <3>2. Contents[x] = memory[unit2[x]]
      BY <3>1, AddressesArePointers DEF Contents, UnitAt
    <3> QED
      BY <3>1, <3>2, StoreAssumption
  <2>2. \A x \in Structures : Contents'[x] = content'[x]
    BY <1>4 DEF Contents
  <2>3. Contents' = [ x \in Structures |-> Contents'[x] ]
    BY DEF Contents
  <2> QED
    BY <1>4, <2>1, <2>2, <2>3
<1>11. Promised
  BY <1>10 DEF Promised, Abstract!Next, Abstract!Restart
<1> QED
  BY <1>3, <1>5, <1>6, <1>7, <1>8, <1>9, <1>11 DEF UInv

LEMMA SystemsKeep ==
  ASSUME UInv, UtInit \/ UtTerm \/ \E code : UtInitFails(code)
  PROVE  UInv' /\ Promised
<1>1. CASE UtInit
  <2>1. /\ unitSystem' /\ SystemGone /\ client' = client /\ unit2s' = unit2s /\ fault' = fault
        /\ failed' \in BOOLEAN
    BY <1>1 DEF UtInit, Answer
  <2>2. one' \in Addresses /\ memory' = [FreeSystem EXCEPT ![one'] = TheOne]
    BY <1>1, ClientAssumption DEF UtInit, UInv, UTypeOK
  <2> QED
    BY <2>1, <2>2, SystemGoneKeeps DEF UInv, NoDoubleFree
<1>2. CASE UtTerm
  BY <1>2, SystemGoneKeeps DEF UtTerm, Answer
<1>3. CASE \E code : UtInitFails(code)
  BY <1>3, SystemGoneKeeps DEF UtInitFails, Answer, UInv, NoDoubleFree
<1> QED
  BY <1>1, <1>2, <1>3

-----------------------------------------------------------------------------
(* Theorems.                                                               *)

LEMMA InitOwns == Init => UInv /\ Abstract!Init
<1> SUFFICES ASSUME Init PROVE UInv /\ Abstract!Init
  OBVIOUS
<1>1. UTypeOK /\ SystemHasOne
  BY TreeAssumption DEF Init, UTypeOK, SystemHasOne, Pointers, NoNames, NoUnits
<1>2. \A x \in Structures : content[x] # "set" /\ content[x] # Nothing /\ unit2[x] = Garbage
  BY StoreAssumption DEF Init
<1>3. PointersAre /\ NoneShared /\ TreeKnowsUnits
  BY <1>1, <1>2 DEF UTypeOK, PointersAre, Points, NoneShared, Shared, TreeKnowsUnits
<1>4. NothingElseLost /\ NoDoubleFree
  BY DEF Init, NothingElseLost, Allocated, NoDoubleFree
<1>5. Abstract!Init
  BY <1>2 DEF Init, Abstract!Init, Contents
<1> QED
  BY <1>1, <1>3, <1>4, <1>5 DEF UInv

LEMMA StepOwns == UInv /\ [Next]_vars => UInv' /\ Promised
<1> SUFFICES ASSUME UInv, [Next]_vars PROVE UInv' /\ Promised
  OBVIOUS
<1>1. CASE UNCHANGED vars
  <2>1. /\ UNCHANGED <<client, unitSystem, one, memory, unit2s, unit2, content, fault>>
        /\ UNCHANGED <<unitOf, nameOf, failed>>
    BY <1>1 DEF vars, system, database, units
  <2> QED
    BY <2>1, QueryKeeps DEF UInv, UTypeOK
<1>2. ASSUME NEW x \in client.structures, OfStructure(x)
      PROVE  UInv' /\ Promised
  <2>1. x \in Structures
    BY <1>2, ClientAssumption DEF UInv, UTypeOK
  <2> QED
    BY <1>2, <2>1, UtIniKeeps, UtFreeKeeps, ResultsKeep, QueriesKeep, PrintKeeps, AddKeeps DEF OfStructure
<1>3. ASSUME NEW x \in client.structures, NEW d \in client.structures, OfStructures(x, d)
      PROVE  UInv' /\ Promised
  BY <1>3, ResultsKeep, QueriesKeep DEF OfStructures
<1>4. CASE Next
  BY <1>2, <1>3, <1>4, SystemsKeep, QueriesKeep, PrintKeeps DEF Next
<1> QED
  BY <1>1, <1>4

\* Every structure of every client has a unit of its own or the unit one, which its
\* pointer leads to and the tree knows, through any sequence of calls.
THEOREM UnitsAreOwned == Spec => []UInv
<1> QED
  BY InitOwns, StepOwns, PTL DEF Spec

\* freeIfAllocated() asks the tree of addresses before it frees: no unit is freed twice or
\* through a pointer that was never assigned, although the tree outlives the unit-systems and
\* malloc() hands out its addresses again.
THEOREM FreedOnce == Spec => []NoDoubleFree
<1>1. UInv => NoDoubleFree
  BY DEF UInv
<1> QED
  BY <1>1, UnitsAreOwned, PTL

\* No unit is lost but what utIni() overwrites, what the tree had no room for, and what
\* utInit() and utTerm() leave behind.
THEOREM NoneLost == Spec => []NothingElseLost
<1>1. UInv => NothingElseLost
  BY DEF UInv
<1> QED
  BY <1>1, UnitsAreOwned, PTL

\* setUnit() keeps in the tree what it puts into structures.
THEOREM TreeKnows == Spec => []TreeKnowsUnits
<1>1. UInv => TreeKnowsUnits
  BY DEF UInv
<1> QED
  BY <1>1, UnitsAreOwned, PTL

\* The interface implements UnitStructures: a call changes the structure of its
\* result and no other, and none if it fails.
THEOREM InterfaceImplements == Spec => Implements
<1>1. UInv /\ [Next]_vars => [Abstract!Next]_<<Contents, failed>>
  BY StepOwns DEF Promised
<1> QED
  BY <1>1, InitOwns, UnitsAreOwned, PTL DEF Spec, Implements, Abstract!Spec
\* What a step that reports a failure leaves in the database.
Remains == /\ \A n \in Names : unitOf'[n] \in {unitOf[n], NoUnit}
           /\ \A v \in Values : nameOf'[v] \in {nameOf[v], Null}

LEMMA FailureRemains == UTypeOK /\ [Next]_vars => (failed' => Remains)
<1> SUFFICES ASSUME UTypeOK, [Next]_vars, failed' PROVE Remains
  OBVIOUS
<1>1. CASE UNCHANGED database
  BY <1>1 DEF database, Remains
<1>2. CASE SystemGone
  BY <1>2 DEF SystemGone, NoNames, NoUnits, Remains
<1>3. ASSUME NEW n, NEW hasPlural, NEW x, UtAdd(n, hasPlural, x) PROVE Remains
  <2> DEFINE u == UnitAt(unit2[x])
  <2>1. CASE AddRefused(u, n)
    BY <1>1, <2>1 DEF AddRefused
  <2>2. CASE AddUnnamed(u, n)
    BY <2>2 DEF AddUnnamed, UTypeOK, Remains
  <2>3. CASE AddWithoutPlural(u, n)
    BY <2>3 DEF AddWithoutPlural, Undone, Unnamed, UTypeOK, Remains
  <2>4. ~Added(u, n, hasPlural)
    BY DEF Added, Answer
  <2> QED
    BY <1>3, <2>1, <2>2, <2>3, <2>4 DEF UtAdd
<1>4. ASSUME NEW x, OfStructure(x) PROVE Remains
  <2>1. CASE \E n \in client.names, hasPlural \in BOOLEAN : UtAdd(n, hasPlural, x)
    BY <1>3, <2>1
  <2>2. CASE UtPrint(x)
    BY <1>1, <2>2 DEF UtPrint, PrinterKept
  <2> QED
    BY <1>1, <1>4, <2>1, <2>2 DEF OfStructure, Kept, UtIni, UtFree, UtScan, UtFind, UtClear, UtCalendar,
       UtInvCalendar, UtIsTime, UtHasOrigin
<1>5. ASSUME NEW x, NEW d, OfStructures(x, d) PROVE Remains
  BY <1>1, <1>5 DEF OfStructures, Kept, UtCopy, UtInvert, UtConvert, UtRaise, UtShift, UtScale,
     UtMultiply, UtDivide, UtUnary
<1>6. CASE UtInit \/ UtTerm \/ \E code : UtInitFails(code)
  BY <1>2, <1>6 DEF UtInit, UtTerm, UtInitFails
<1>7. CASE UtIsInit \/ Printing \/ FormatFails \/ GrowthFails
  BY <1>1, <1>7 DEF UtIsInit, Kept, Printing, PrintFails, Prints, Grows, FormatFails, GrowthFails, TooLong, PrinterKept
<1>8. CASE UNCHANGED vars
  BY <1>1, <1>8 DEF vars
<1> QED
  BY <1>4, <1>5, <1>6, <1>7, <1>8 DEF Next

\* utAdd() that fails takes back what it mapped: a name, a unit or a plural maps to what it
\* did before or to nothing.
THEOREM AddLeavesNothing == Spec => AddUndone
<1>1. UInv => UTypeOK
  BY DEF UInv
<1>2. UTypeOK /\ [Next]_vars =>
        [failed' => /\ \A n \in Names : unitOf'[n] \in {unitOf[n], NoUnit}
                    /\ \A v \in Values : nameOf'[v] \in {nameOf[v], Null}]_vars
  BY FailureRemains DEF Remains
<1> QED
  BY <1>1, <1>2, UnitsAreOwned, PTL DEF Spec, AddUndone
=============================================================================
