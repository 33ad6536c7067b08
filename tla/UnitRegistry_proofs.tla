------------------------ MODULE UnitRegistry_proofs ------------------------
(***************************************************************************)
(* Proofs about UnitRegistry, for any systems, units and identifiers.      *)
(*                                                                         *)
(* The inductive invariant IInv says how the maps are shaped, that freed   *)
(* systems have empty trees, and which call of the client accounts for     *)
(* each entry.  An action changes one tree of one kind, except that        *)
(* ut_free_system() empties all those of a system.                         *)
(***************************************************************************)
EXTENDS UnitRegistry, SequenceTheorems, TLAPS

-----------------------------------------------------------------------------
(* The inductive invariant.                                                *)

\* The domains of the maps.
Shape ==
  /\ DOMAIN toUnit = Kind
  /\ DOMAIN toId = Kind
  /\ \A kind \in Kind :
       /\ DOMAIN toUnit[kind] = System
       /\ DOMAIN toId[kind] = System
       /\ \A s \in System : DOMAIN toId[kind][s] = Encoding

\* Who mapped an identifier to a unit.
UnitGiven(kind, key, u, history) ==
  \E g \in history : g.kind = kind /\ g.unit = u /\ Key(kind, g.id) = key

\* Who mapped a unit to an identifier, or to the one it was made of.
IdGiven(kind, u, e, id, history) ==
  \E g \in history :
    /\ g.kind = kind
    /\ g.unit = u
    /\ \/ id = g.id
       \/ e = "UT_UTF8" /\ id = Latin1ToUtf8(g.id)

\* An entry of a tree of identifiers.
GoodUnit(kind, s, key, u, history) ==
  u \in UnitsOf(s) /\ Key(kind, key) = key /\ UnitGiven(kind, key, u, history)

\* An entry of a tree of units.
GoodId(kind, s, e, u, id, history) ==
  /\ u \in UnitsOf(s)
  /\ e = "UT_ASCII" => IsAscii(id)
  /\ e = "UT_LATIN1" => ~IsAscii(id)
  /\ IdGiven(kind, u, e, id, history)

GoodTrees ==
  \A kind \in Kind, s \in System :
    /\ \A key \in DOMAIN toUnit[kind][s] :
         GoodUnit(kind, s, key, toUnit[kind][s][key], given)
    /\ \A e \in Encoding : \A u \in DOMAIN toId[kind][s][e] :
         GoodId(kind, s, e, u, toId[kind][s][e][u], given)

Small ==
  /\ live \subseteq System
  /\ allocated \subseteq {"toUnit", "toId"} \X Kind
  /\ status \in {"UT_SUCCESS", "UT_BAD_ARG", "UT_EXISTS"}
  /\ calls \in 0 .. MaxCalls

IInv == Shape /\ Small /\ GoodTrees /\ FreedSystemsForgotten

-----------------------------------------------------------------------------
(* Operators of the module.                                                *)

LEMMA FoldTwice ==
  ASSUME NEW id \in Ident, NEW kind
  PROVE  Key(kind, Key(kind, id)) = Key(kind, id)
<1>1. id \in Seq(1 .. 255)
  BY IdentAssumption
<1>2. \A i \in DOMAIN id : Lower(Lower(id[i])) = Lower(id[i])
  <2>1. \A i \in DOMAIN id : id[i] \in 1 .. 255
    BY <1>1, ElementOfSeq, LenProperties
  <2> QED
    BY <2>1 DEF Lower
<1>3. DOMAIN Folded(id) = DOMAIN id /\ \A i \in DOMAIN id : Folded(id)[i] = Lower(id[i])
  BY DEF Folded
<1>4. Folded(Folded(id)) = [ i \in DOMAIN id |-> Lower(Folded(id)[i]) ]
  BY <1>3 DEF Folded
<1>5. Folded(Folded(id)) = Folded(id)
  <2>1. Folded(Folded(id)) = [ i \in DOMAIN id |-> Lower(id[i]) ]
    BY <1>2, <1>3, <1>4
  <2> QED
    BY <2>1 DEF Folded
<1> QED
  BY <1>5 DEF Key

LEMMA AdjustedFacts ==
  ASSUME NEW e \in Encoding, NEW id
  PROVE  /\ Adjusted(e, id) \in Encoding
         /\ Adjusted(e, id) = "UT_ASCII" => IsAscii(id)
         /\ Adjusted(e, id) = "UT_LATIN1" => ~IsAscii(id)
BY DEF Adjusted, Encoding

LEMMA PutDomain ==
  ASSUME NEW tree, NEW key, NEW value, NEW k \in DOMAIN Put(tree, key, value), k # key
  PROVE  k \in DOMAIN tree
BY DEF Put

LEMMA PutThere ==
  ASSUME NEW tree, NEW key, NEW value
  PROVE  Put(tree, key, value)[key] = value
BY DEF Put

LEMMA PutElsewhere ==
  ASSUME NEW tree, NEW key, NEW value, NEW k \in DOMAIN tree, k # key
  PROVE  Put(tree, key, value)[k] = tree[k]
BY DEF Put

LEMMA WithoutFacts ==
  ASSUME NEW tree, NEW key, NEW k \in DOMAIN Without(tree, key)
  PROVE  k \in DOMAIN tree /\ k # key /\ Without(tree, key)[k] = tree[k]
BY DEF Without

LEMMA UnitFacts ==
  ASSUME NEW u \in Unit
  PROVE  SystemOf(u) \in System /\ u \in UnitsOf(SystemOf(u))
BY DEF Unit, SystemOf, UnitsOf

LEMMA PassedUnit ==
  ASSUME NEW u \in Units, u # NullUnit
  PROVE  u \in Unit /\ SystemOf(u) \in live
BY DEF Units

\* More history accounts for as much.
LEMMA GoodUnitMore ==
  ASSUME NEW h, NEW i, h \subseteq i,
         NEW kind, NEW s, NEW key, NEW u, GoodUnit(kind, s, key, u, h)
  PROVE  GoodUnit(kind, s, key, u, i)
<1>1. UnitGiven(kind, key, u, h) => UnitGiven(kind, key, u, i)
  BY DEF UnitGiven
<1> QED
  BY <1>1 DEF GoodUnit

LEMMA GoodIdMore ==
  ASSUME NEW h, NEW i, h \subseteq i,
         NEW kind, NEW s, NEW e, NEW u, NEW id, GoodId(kind, s, e, u, id, h)
  PROVE  GoodId(kind, s, e, u, id, i)
<1>1. IdGiven(kind, u, e, id, h) => IdGiven(kind, u, e, id, i)
  BY DEF IdGiven
<1> QED
  BY <1>1 DEF GoodId

LEMMA GiveMore ==
  ASSUME NEW kind, NEW u, NEW id, Give(kind, u, id)
  PROVE  /\ given \subseteq given'
         /\ status' = "UT_SUCCESS" =>
              [kind |-> kind, unit |-> u, id |-> id] \in given'
BY DEF Give

-----------------------------------------------------------------------------
(* One tree at a time.                                                     *)

ToUnitBecomes(k, s, tree) == toUnit' = [toUnit EXCEPT ![k][s] = tree]

ToIdBecomes(k, s, e, tree) == toId' = [toId EXCEPT ![k][s][e] = tree]

LEMMA ToUnitChanged ==
  ASSUME Shape, NEW k \in Kind, NEW s \in System, NEW tree,
         ToUnitBecomes(k, s, tree), toId' = toId
  PROVE  /\ Shape'
         /\ toUnit'[k][s] = tree
         /\ \A kind \in Kind, t \in System :
              kind # k \/ t # s => toUnit'[kind][t] = toUnit[kind][t]
BY DEF Shape, ToUnitBecomes

LEMMA ToIdChanged ==
  ASSUME Shape, NEW k \in Kind, NEW s \in System, NEW e \in Encoding, NEW tree,
         ToIdBecomes(k, s, e, tree), toUnit' = toUnit
  PROVE  /\ Shape'
         /\ toId'[k][s][e] = tree
         /\ \A kind \in Kind, t \in System, f \in Encoding :
              kind # k \/ t # s \/ f # e => toId'[kind][t][f] = toId[kind][t][f]
<1>1. toId'[k] = [toId[k] EXCEPT ![s][e] = tree]
      /\ \A kind \in Kind : kind # k => toId'[kind] = toId[kind]
  BY DEF Shape, ToIdBecomes
<1>2. DOMAIN toId' = Kind /\ DOMAIN toId'[k] = System
  BY <1>1 DEF Shape, ToIdBecomes
<1>3. toId'[k][s] = [toId[k][s] EXCEPT ![e] = tree]
      /\ \A t \in System : t # s => toId'[k][t] = toId[k][t]
  BY <1>1 DEF Shape
<1>4. DOMAIN toId'[k][s] = Encoding
      /\ toId'[k][s][e] = tree
      /\ \A f \in Encoding : f # e => toId'[k][s][f] = toId[k][s][f]
  BY <1>3 DEF Shape
<1>5. Shape'
  <2>1. \A kind \in Kind : DOMAIN toId'[kind] = System
    BY <1>1, <1>2 DEF Shape
  <2>2. ASSUME NEW kind \in Kind, NEW t \in System PROVE DOMAIN toId'[kind][t] = Encoding
    <3>1. CASE kind = k /\ t = s
      BY <1>4, <3>1
    <3>2. CASE kind = k /\ t # s
      BY <1>3, <3>2 DEF Shape
    <3>3. CASE kind # k
      BY <1>1, <3>3 DEF Shape
    <3> QED
      BY <3>1, <3>2, <3>3
  <2> QED
    BY <1>2, <2>1, <2>2 DEF Shape
<1>6. ASSUME NEW kind \in Kind, NEW t \in System, NEW f \in Encoding,
             kind # k \/ t # s \/ f # e
      PROVE  toId'[kind][t][f] = toId[kind][t][f]
  BY <1>1, <1>3, <1>4, <1>6
<1> QED
  BY <1>4, <1>5, <1>6

\* Entering an identifier.
LEMMA ToUnitPut ==
  ASSUME IInv, NEW k \in Kind, NEW s \in live, NEW key, NEW u,
         GoodUnit(k, s, key, u, given'), given \subseteq given',
         ToUnitBecomes(k, s, Put(toUnit[k][s], key, u)),
         toId' = toId, live' = live
  PROVE  Shape' /\ GoodTrees' /\ FreedSystemsForgotten'
<1>0. s \in System
  BY DEF IInv, Small
<1>1. /\ Shape'
      /\ toUnit'[k][s] = Put(toUnit[k][s], key, u)
      /\ \A kind \in Kind, t \in System :
           kind # k \/ t # s => toUnit'[kind][t] = toUnit[kind][t]
  BY <1>0, ToUnitChanged DEF IInv
<1>2. \A kind \in Kind, t \in System : \A x \in DOMAIN toUnit'[kind][t] :
        GoodUnit(kind, t, x, toUnit'[kind][t][x], given')
  <2> SUFFICES ASSUME NEW kind \in Kind, NEW t \in System, NEW x \in DOMAIN toUnit'[kind][t]
               PROVE  GoodUnit(kind, t, x, toUnit'[kind][t][x], given')
    OBVIOUS
  <2>1. CASE kind = k /\ t = s /\ x = key
    <3>1. toUnit'[kind][t] = Put(toUnit[k][s], key, u)
      BY <1>1, <2>1
    <3>2. toUnit'[kind][t][x] = u
      BY <2>1, <3>1, PutThere
    <3> QED
      BY <2>1, <3>2
  <2>2. CASE ~(kind = k /\ t = s /\ x = key)
    <3>1. x \in DOMAIN toUnit[kind][t] /\ toUnit'[kind][t][x] = toUnit[kind][t][x]
      <4>1. CASE kind = k /\ t = s
        <5>1. toUnit'[kind][t] = Put(toUnit[kind][t], key, u)
          BY <1>1, <4>1
        <5>2. x # key
          BY <2>2, <4>1
        <5>3. x \in DOMAIN toUnit[kind][t]
          BY <5>1, <5>2, PutDomain
        <5> QED
          BY <5>1, <5>2, <5>3, PutElsewhere
      <4>2. CASE kind # k \/ t # s
        BY <1>1, <4>2
      <4> QED
        BY <4>1, <4>2
    <3>2. GoodUnit(kind, t, x, toUnit[kind][t][x], given)
      BY <3>1 DEF IInv, GoodTrees
    <3> QED
      BY <3>1, <3>2, GoodUnitMore, GoodIdMore
  <2> QED
    BY <2>1, <2>2
<1>3. \A kind \in Kind, t \in System, e \in Encoding : \A x \in DOMAIN toId'[kind][t][e] :
        GoodId(kind, t, e, x, toId'[kind][t][e][x], given')
  BY GoodUnitMore, GoodIdMore DEF IInv, GoodTrees
<1>4. FreedSystemsForgotten'
  BY <1>1 DEF IInv, FreedSystemsForgotten
<1> QED
  BY <1>1, <1>2, <1>3, <1>4 DEF GoodTrees

LEMMA ToIdPut ==
  ASSUME IInv, NEW k \in Kind, NEW s \in live, NEW e \in Encoding, NEW u, NEW id,
         GoodId(k, s, e, u, id, given'), given \subseteq given',
         ToIdBecomes(k, s, e, Put(toId[k][s][e], u, id)),
         toUnit' = toUnit, live' = live
  PROVE  Shape' /\ GoodTrees' /\ FreedSystemsForgotten'
<1>0. s \in System
  BY DEF IInv, Small
<1>1. /\ Shape'
      /\ toId'[k][s][e] = Put(toId[k][s][e], u, id)
      /\ \A kind \in Kind, t \in System, f \in Encoding :
           kind # k \/ t # s \/ f # e => toId'[kind][t][f] = toId[kind][t][f]
  BY <1>0, ToIdChanged DEF IInv
<1>2. \A kind \in Kind, t \in System, f \in Encoding : \A x \in DOMAIN toId'[kind][t][f] :
        GoodId(kind, t, f, x, toId'[kind][t][f][x], given')
  <2> SUFFICES ASSUME NEW kind \in Kind, NEW t \in System, NEW f \in Encoding,
                      NEW x \in DOMAIN toId'[kind][t][f]
               PROVE  GoodId(kind, t, f, x, toId'[kind][t][f][x], given')
    OBVIOUS
  <2>1. CASE kind = k /\ t = s /\ f = e /\ x = u
    <3>1. toId'[kind][t][f] = Put(toId[k][s][e], u, id)
      BY <1>1, <2>1
    <3>2. toId'[kind][t][f][x] = id
      BY <2>1, <3>1, PutThere
    <3> QED
      BY <2>1, <3>2
  <2>2. CASE ~(kind = k /\ t = s /\ f = e /\ x = u)
    <3>1. x \in DOMAIN toId[kind][t][f] /\ toId'[kind][t][f][x] = toId[kind][t][f][x]
      <4>1. CASE kind = k /\ t = s /\ f = e
        <5>1. toId'[kind][t][f] = Put(toId[kind][t][f], u, id)
          BY <1>1, <4>1
        <5>2. x # u
          BY <2>2, <4>1
        <5>3. x \in DOMAIN toId[kind][t][f]
          BY <5>1, <5>2, PutDomain
        <5> QED
          BY <5>1, <5>2, <5>3, PutElsewhere
      <4>2. CASE kind # k \/ t # s \/ f # e
        BY <1>1, <4>2
      <4> QED
        BY <4>1, <4>2
    <3>2. GoodId(kind, t, f, x, toId[kind][t][f][x], given)
      BY <3>1 DEF IInv, GoodTrees
    <3> QED
      BY <3>1, <3>2, GoodUnitMore, GoodIdMore
  <2> QED
    BY <2>1, <2>2
<1>3. \A kind \in Kind, t \in System : \A x \in DOMAIN toUnit'[kind][t] :
        GoodUnit(kind, t, x, toUnit'[kind][t][x], given')
  BY GoodUnitMore, GoodIdMore DEF IInv, GoodTrees
<1>4. FreedSystemsForgotten'
  BY <1>1 DEF IInv, FreedSystemsForgotten
<1> QED
  BY <1>1, <1>2, <1>3, <1>4 DEF GoodTrees

\* A step that changes no tree.
LEMMA TreesSame ==
  ASSUME IInv, given \subseteq given', UNCHANGED <<toUnit, toId, live>>
  PROVE  Shape' /\ GoodTrees' /\ FreedSystemsForgotten'
<1>1. Shape' /\ FreedSystemsForgotten'
  BY DEF IInv, Shape, FreedSystemsForgotten
<1>2. GoodTrees'
  BY GoodUnitMore, GoodIdMore DEF IInv, GoodTrees
<1> QED
  BY <1>1, <1>2

\* Removing an entry.
LEMMA ToUnitRemove ==
  ASSUME IInv, NEW k \in Kind, NEW s \in System, NEW key,
         ToUnitBecomes(k, s, Without(toUnit[k][s], key)),
         toId' = toId, live' = live, given' = given
  PROVE  Shape' /\ GoodTrees' /\ FreedSystemsForgotten'
<1>1. /\ Shape'
      /\ toUnit'[k][s] = Without(toUnit[k][s], key)
      /\ \A kind \in Kind, t \in System :
           kind # k \/ t # s => toUnit'[kind][t] = toUnit[kind][t]
  BY ToUnitChanged DEF IInv
<1>2. ASSUME NEW kind \in Kind, NEW t \in System, NEW x \in DOMAIN toUnit'[kind][t]
      PROVE  x \in DOMAIN toUnit[kind][t] /\ toUnit'[kind][t][x] = toUnit[kind][t][x]
  <2>1. CASE kind = k /\ t = s
    <3>1. toUnit'[kind][t] = Without(toUnit[kind][t], key)
      BY <1>1, <2>1
    <3> QED
      BY <1>2, <3>1, WithoutFacts
  <2>2. CASE kind # k \/ t # s
    BY <1>1, <1>2, <2>2
  <2> QED
    BY <2>1, <2>2
<1>3. GoodTrees'
  BY <1>2 DEF IInv, GoodTrees
<1>4. FreedSystemsForgotten'
  <2> SUFFICES ASSUME NEW kind \in Kind, NEW t \in System \ live
               PROVE  toUnit'[kind][t] = Empty
    BY DEF IInv, FreedSystemsForgotten
  <2>1. DOMAIN toUnit[kind][t] = {} /\ toUnit[kind][t] = Empty
    BY DEF IInv, FreedSystemsForgotten, Empty
  <2>2. CASE kind = k /\ t = s
    <3>1. toUnit'[kind][t] = Without(toUnit[kind][t], key)
      BY <1>1, <2>2
    <3> QED
      BY <2>1, <3>1 DEF Without, Empty
  <2>3. CASE kind # k \/ t # s
    BY <1>1, <2>1, <2>3
  <2> QED
    BY <2>2, <2>3
<1> QED
  BY <1>1, <1>3, <1>4

LEMMA ToIdRemove ==
  ASSUME IInv, NEW k \in Kind, NEW s \in live, NEW e \in Encoding, NEW u,
         ToIdBecomes(k, s, e, Without(toId[k][s][e], u)),
         toUnit' = toUnit, live' = live, given' = given
  PROVE  Shape' /\ GoodTrees' /\ FreedSystemsForgotten'
<1>0. s \in System
  BY DEF IInv, Small
<1>1. /\ Shape'
      /\ toId'[k][s][e] = Without(toId[k][s][e], u)
      /\ \A kind \in Kind, t \in System, f \in Encoding :
           kind # k \/ t # s \/ f # e => toId'[kind][t][f] = toId[kind][t][f]
  BY <1>0, ToIdChanged DEF IInv
<1>2. ASSUME NEW kind \in Kind, NEW t \in System, NEW f \in Encoding,
             NEW x \in DOMAIN toId'[kind][t][f]
      PROVE  x \in DOMAIN toId[kind][t][f] /\ toId'[kind][t][f][x] = toId[kind][t][f][x]
  <2>1. CASE kind = k /\ t = s /\ f = e
    <3>1. toId'[kind][t][f] = Without(toId[kind][t][f], u)
      BY <1>1, <2>1
    <3> QED
      BY <1>2, <3>1, WithoutFacts
  <2>2. CASE kind # k \/ t # s \/ f # e
    BY <1>1, <1>2, <2>2
  <2> QED
    BY <2>1, <2>2
<1>3. GoodTrees'
  BY <1>2 DEF IInv, GoodTrees
<1>4. FreedSystemsForgotten'
  BY <1>1 DEF IInv, FreedSystemsForgotten
<1> QED
  BY <1>1, <1>3, <1>4

-----------------------------------------------------------------------------
(* The actions.                                                            *)

LEMMA FreeStep ==
  ASSUME IInv, NEW s \in System, FreeSystem(s)
  PROVE  IInv'
<1>1. \A kind \in Kind, t \in System :
        toUnit'[kind][t] = IF t = s THEN Empty ELSE toUnit[kind][t]
  BY DEF FreeSystem, ItumFreeSystem, IInv, Shape
<1>2. \A kind \in Kind, t \in System, e \in Encoding :
        toId'[kind][t][e] = IF t = s THEN Empty ELSE toId[kind][t][e]
  BY DEF FreeSystem, UtimFreeSystem, IInv, Shape
<1>3. Shape'
  <2>1. DOMAIN toUnit' = Kind /\ \A kind \in Kind : DOMAIN toUnit'[kind] = System
    BY DEF FreeSystem, ItumFreeSystem, IInv, Shape
  <2>2. DOMAIN toId' = Kind /\ \A kind \in Kind : DOMAIN toId'[kind] = System
    BY DEF FreeSystem, UtimFreeSystem, IInv, Shape
  <2>3. \A kind \in Kind, t \in System : DOMAIN toId'[kind][t] = Encoding
    BY DEF FreeSystem, UtimFreeSystem, IInv, Shape
  <2> QED
    BY <2>1, <2>2, <2>3 DEF Shape
<1>4. DOMAIN Empty = {}
  BY DEF Empty
<1>5. \A g \in given : SystemOf(g.unit) # s => g \in given'
  BY DEF FreeSystem
<1>6. GoodTrees'
  <2>1. ASSUME NEW kind \in Kind, NEW t \in System, NEW key \in DOMAIN toUnit'[kind][t]
        PROVE  GoodUnit(kind, t, key, toUnit'[kind][t][key], given')
    <3>1. t # s /\ toUnit'[kind][t] = toUnit[kind][t]
      BY <1>1, <1>4, <2>1
    <3>2. GoodUnit(kind, t, key, toUnit[kind][t][key], given)
      BY <2>1, <3>1 DEF IInv, GoodTrees
    <3> QED
      BY <1>5, <3>1, <3>2 DEF GoodUnit, UnitGiven, UnitsOf
  <2>2. ASSUME NEW kind \in Kind, NEW t \in System, NEW e \in Encoding,
               NEW u \in DOMAIN toId'[kind][t][e]
        PROVE  GoodId(kind, t, e, u, toId'[kind][t][e][u], given')
    <3>1. t # s /\ toId'[kind][t][e] = toId[kind][t][e]
      BY <1>2, <1>4, <2>2
    <3>2. GoodId(kind, t, e, u, toId[kind][t][e][u], given)
      BY <2>2, <3>1 DEF IInv, GoodTrees
    <3> QED
      BY <1>5, <3>1, <3>2 DEF GoodId, IdGiven, UnitsOf
  <2> QED
    BY <2>1, <2>2 DEF GoodTrees
<1>7. FreedSystemsForgotten'
  BY <1>1, <1>2 DEF FreeSystem, IInv, FreedSystemsForgotten
<1>8. Small'
  BY CallAssumption DEF FreeSystem, Call, IInv, Small
<1> QED
  BY <1>3, <1>6, <1>7, <1>8 DEF IInv

\* What every other action does to the small variables.
LEMMA SmallStep ==
  ASSUME IInv, Call, status' \in {"UT_SUCCESS", "UT_BAD_ARG", "UT_EXISTS"},
         live' \subseteq System,
         allocated' \subseteq {"toUnit", "toId"} \X Kind
  PROVE  Small'
BY CallAssumption DEF IInv, Small, Call

LEMMA NewStep ==
  ASSUME IInv, NEW s \in System, NewSystem(s)
  PROVE  IInv'
<1>1. Small'
  BY SmallStep DEF NewSystem, IInv, Small
<1>2. Shape' /\ FreedSystemsForgotten'
  BY DEF NewSystem, IInv, Shape, FreedSystemsForgotten
<1>3. GoodTrees'
  BY DEF NewSystem, IInv, GoodTrees
<1> QED
  BY <1>1, <1>2, <1>3 DEF IInv

LEMMA MapIdStep ==
  ASSUME IInv, NEW kind \in Kind, NEW u \in Units, NEW id \in Idents,
         MapIdToUnit(kind, id, u)
  PROVE  IInv'
<1>1. Small'
  <2>1. status' \in {"UT_SUCCESS", "UT_BAD_ARG", "UT_EXISTS"}
    BY DEF MapIdToUnit, ItumStatus
  <2>2. allocated' \subseteq {"toUnit", "toId"} \X Kind
    BY DEF MapIdToUnit, IInv, Small
  <2> QED
    BY <2>1, <2>2, SmallStep DEF MapIdToUnit, IInv, Small
<1>2. CASE id = NullId \/ u = NullUnit \/ UNCHANGED toUnit
  <2>1. given \subseteq given'
    BY <1>2, GiveMore DEF MapIdToUnit
  <2>2. UNCHANGED <<toUnit, toId, live>>
    BY <1>2 DEF MapIdToUnit
  <2> QED
    BY <1>1, <2>1, <2>2, TreesSame DEF IInv
<1>3. CASE ~(id = NullId \/ u = NullUnit \/ UNCHANGED toUnit)
  <2> DEFINE s == SystemOf(u)
             key == Key(kind, id)
  <2>1. id \in Ident /\ u \in Unit /\ s \in live /\ s \in System /\ u \in UnitsOf(s)
    BY <1>3, PassedUnit, UnitFacts DEF Idents
  <2>2. /\ ToUnitBecomes(kind, s, Put(toUnit[kind][s], key, u))
        /\ key \notin DOMAIN toUnit[kind][s]
    BY <1>3 DEF MapIdToUnit, ItumAdd, ToUnitBecomes
  <2>3. status' = "UT_SUCCESS" /\ Give(kind, u, id)
    BY <1>3, <2>2 DEF MapIdToUnit, ItumStatus
  <2>4. given \subseteq given' /\ [kind |-> kind, unit |-> u, id |-> id] \in given'
    BY <2>3, GiveMore
  <2>5. GoodUnit(kind, s, key, u, given')
    <3>1. Key(kind, key) = key
      BY <2>1, FoldTwice
    <3>2. UnitGiven(kind, key, u, given')
      BY <2>4 DEF UnitGiven
    <3> QED
      BY <2>1, <3>1, <3>2 DEF GoodUnit
  <2>6. toId' = toId /\ live' = live
    BY DEF MapIdToUnit
  <2> HIDE DEF s, key
  <2> QED
    BY <1>1, <2>1, <2>2, <2>4, <2>5, <2>6, ToUnitPut DEF IInv
<1> QED
  BY <1>2, <1>3

LEMMA UnmapIdStep ==
  ASSUME IInv, NEW kind \in Kind, NEW s \in Systems, NEW id, UnmapId(kind, s, id)
  PROVE  IInv'
<1>1. Small'
  BY SmallStep DEF UnmapId, IInv, Small
<1>2. given' = given /\ live' = live /\ toId' = toId
  BY DEF UnmapId
<1>3. CASE UNCHANGED toUnit
  BY <1>1, <1>2, <1>3, TreesSame DEF IInv
<1>4. CASE ~ UNCHANGED toUnit
  <2>1. s \in System
    BY <1>4 DEF UnmapId, Systems, IInv, Small
  <2>2. ToUnitBecomes(kind, s, Without(toUnit[kind][s], Key(kind, id)))
    BY <1>4 DEF UnmapId, ToUnitBecomes
  <2> QED
    BY <1>1, <1>2, <2>1, <2>2, ToUnitRemove DEF IInv
<1> QED
  BY <1>3, <1>4

LEMMA LookUpIdStep ==
  ASSUME IInv, NEW kind \in Kind, NEW s \in Systems, NEW id, GetUnitById(kind, s, id)
  PROVE  IInv'
<1>1. Small'
  BY SmallStep DEF GetUnitById, IInv, Small
<1>2. given' = given /\ live' = live /\ toId' = toId /\ toUnit' = toUnit
  BY DEF GetUnitById
<1> QED
  BY <1>1, <1>2, TreesSame DEF IInv

LEMMA MapUnitStep ==
  ASSUME IInv, NEW kind \in Kind, NEW u \in Units, NEW id \in Idents,
         NEW encoding \in Encoding, MapUnitToId(kind, u, id, encoding)
  PROVE  IInv'
<1>1. Small'
  <2>1. status' \in {"UT_SUCCESS", "UT_BAD_ARG", "UT_EXISTS"}
    BY DEF MapUnitToId, UtimStatus
  <2>2. allocated' \subseteq {"toUnit", "toId"} \X Kind
    BY DEF MapUnitToId, IInv, Small
  <2> QED
    BY <2>1, <2>2, SmallStep DEF MapUnitToId, IInv, Small
<1>2. CASE UNCHANGED toId
  <2>1. given \subseteq given'
    BY GiveMore DEF MapUnitToId
  <2>2. UNCHANGED <<toUnit, toId, live>>
    BY <1>2 DEF MapUnitToId
  <2> QED
    BY <1>1, <2>1, <2>2, TreesSame DEF IInv
<1>3. CASE ~ UNCHANGED toId
  <2> DEFINE s == SystemOf(u)
             e == Adjusted(encoding, id)
  <2>1. u \in Unit /\ s \in live /\ s \in System /\ u \in UnitsOf(s)
    BY <1>3, PassedUnit, UnitFacts DEF MapUnitToId
  <2>2. /\ ToIdBecomes(kind, s, e, Put(toId[kind][s][e], u, id))
        /\ u \notin DOMAIN toId[kind][s][e]
    BY <1>3 DEF MapUnitToId, UtimAdd, ToIdBecomes
  <2>3. status' = "UT_SUCCESS" /\ Give(kind, u, id)
    BY <1>3, <2>2 DEF MapUnitToId, UtimStatus
  <2>4. given \subseteq given' /\ [kind |-> kind, unit |-> u, id |-> id] \in given'
    BY <2>3, GiveMore
  <2>5. e \in Encoding /\ GoodId(kind, s, e, u, id, given')
    <3>1. IdGiven(kind, u, e, id, given')
      <4> DEFINE g == [kind |-> kind, unit |-> u, id |-> id]
      <4>1. g \in given' /\ g.kind = kind /\ g.unit = u /\ g.id = id
        BY <2>4
      <4> HIDE DEF g, e, s
      <4> QED
        BY <4>1, Zenon DEF IdGiven
    <3> QED
      BY <2>1, <3>1, AdjustedFacts DEF GoodId
  <2>6. toUnit' = toUnit /\ live' = live
    BY DEF MapUnitToId
  <2> HIDE DEF s, e
  <2> QED
    BY <1>1, <2>1, <2>2, <2>4, <2>5, <2>6, ToIdPut DEF IInv
<1> QED
  BY <1>2, <1>3

LEMMA UnmapUnitStep ==
  ASSUME IInv, NEW kind \in Kind, NEW u \in Units, NEW encoding \in Encoding,
         UnmapUnitToId(kind, u, encoding)
  PROVE  IInv'
<1>1. Small'
  BY SmallStep DEF UnmapUnitToId, IInv, Small
<1>2. given' = given /\ live' = live /\ toUnit' = toUnit
  BY DEF UnmapUnitToId
<1>3. CASE UNCHANGED toId
  BY <1>1, <1>2, <1>3, TreesSame DEF IInv
<1>4. CASE ~ UNCHANGED toId
  <2> DEFINE s == SystemOf(u)
  <2>1. s \in live
    BY <1>4, PassedUnit DEF UnmapUnitToId
  <2>2. ToIdBecomes(kind, s, encoding, Without(toId[kind][s][encoding], u))
    BY <1>4 DEF UnmapUnitToId, ToIdBecomes
  <2> HIDE DEF s
  <2> QED
    BY <1>1, <1>2, <2>1, <2>2, ToIdRemove DEF IInv
<1> QED
  BY <1>3, <1>4

\* What a lookup keeps was made of an identifier that the client mapped.
LEMMA CacheFacts ==
  ASSUME IInv, NEW kind \in Kind, NEW u \in Units, u # NullUnit,
         Converts(toId[kind][SystemOf(u)], u)
  PROVE  /\ SystemOf(u) \in live
         /\ GoodId(kind, SystemOf(u), "UT_UTF8", u,
                   Latin1ToUtf8(toId[kind][SystemOf(u)]["UT_LATIN1"][u]), given)
<1> DEFINE s == SystemOf(u)
           id == toId[kind][s]["UT_LATIN1"][u]
<1>1. s \in live /\ s \in System /\ u \in UnitsOf(s)
  BY PassedUnit, UnitFacts
<1>2. u \in DOMAIN toId[kind][s]["UT_LATIN1"] /\ "UT_LATIN1" \in Encoding
  BY DEF Converts, Encoding
<1>3. GoodId(kind, s, "UT_LATIN1", u, id, given)
  BY <1>1, <1>2 DEF IInv, GoodTrees
<1>4. PICK g \in given : g.kind = kind /\ g.unit = u /\ id = g.id
  BY <1>3 DEF GoodId, IdGiven
<1>5. IdGiven(kind, u, "UT_UTF8", Latin1ToUtf8(id), given)
  BY <1>4 DEF IdGiven
<1> QED
  BY <1>1, <1>5 DEF GoodId

LEMMA GetIdStep ==
  ASSUME IInv, NEW kind \in Kind, NEW u \in Units, NEW encoding \in Encoding,
         GetId(kind, u, encoding)
  PROVE  IInv'
<1>1. Small'
  BY SmallStep DEF GetId, IInv, Small
<1>2. given' = given /\ live' = live /\ toUnit' = toUnit
  BY DEF GetId
<1>3. CASE UNCHANGED toId
  BY <1>1, <1>2, <1>3, TreesSame DEF IInv
<1>4. CASE ~ UNCHANGED toId
  <2> DEFINE s == SystemOf(u)
             id == Latin1ToUtf8(toId[kind][s]["UT_LATIN1"][u])
  <2>1. u # NullUnit /\ Converts(toId[kind][s], u)
    BY <1>4 DEF GetId
  <2>2. ToIdBecomes(kind, s, "UT_UTF8", Put(toId[kind][s]["UT_UTF8"], u, id))
    BY <1>4 DEF GetId, Cache, ToIdBecomes
  <2>3. s \in live /\ GoodId(kind, s, "UT_UTF8", u, id, given) /\ "UT_UTF8" \in Encoding
    BY <2>1, CacheFacts DEF Encoding
  <2> HIDE DEF s, id
  <2> QED
    BY <1>1, <1>2, <2>2, <2>3, ToIdPut DEF IInv
<1> QED
  BY <1>3, <1>4

LEMMA Inductive == Spec => []IInv
<1>1. Init => IInv
  BY CallAssumption DEF Init, IInv, Shape, Small, GoodTrees, FreedSystemsForgotten, Empty
<1>2. IInv /\ [Next]_vars => IInv'
  <2> SUFFICES ASSUME IInv, [Next]_vars PROVE IInv'
    OBVIOUS
  <2>1. CASE \E s \in System : NewSystem(s) \/ FreeSystem(s)
    BY <2>1, NewStep, FreeStep
  <2>2. ASSUME NEW kind \in Kind, NEW u \in Units, NEW id \in Idents, MapIdToUnit(kind, id, u)
        PROVE  IInv'
    BY <2>2, MapIdStep
  <2>3. ASSUME NEW kind \in Kind, NEW u \in Units, NEW id \in Idents, NEW encoding \in Encoding,
               MapUnitToId(kind, u, id, encoding)
        PROVE  IInv'
    BY <2>3, MapUnitStep
  <2>4. ASSUME NEW kind \in Kind, NEW s \in Systems, NEW id \in Idents,
               UnmapId(kind, s, id) \/ GetUnitById(kind, s, id)
        PROVE  IInv'
    BY <2>4, UnmapIdStep, LookUpIdStep
  <2>5. ASSUME NEW kind \in Kind, NEW u \in Units, NEW encoding \in Encoding,
               UnmapUnitToId(kind, u, encoding) \/ GetId(kind, u, encoding)
        PROVE  IInv'
    BY <2>5, UnmapUnitStep, GetIdStep
  <2>6. CASE UNCHANGED vars
    <3>1. Small'
      BY <2>6 DEF vars, IInv, Small
    <3> QED
      BY <2>6, <3>1, TreesSame DEF vars, IInv
  <2> QED
    BY <2>1, <2>2, <2>3, <2>4, <2>5, <2>6 DEF Next
<1> QED
  BY <1>1, <1>2, PTL DEF Spec

-----------------------------------------------------------------------------
(* The theorems.                                                           *)

\* The trees of a system hold units of that system, names are filed without regard
\* to case and identifiers under their narrowest encoding.
THEOREM TypeCorrect == Spec => []TypeOK
<1>1. IInv => TypeOK
  BY DEF IInv, Small, GoodTrees, GoodUnit, GoodId, TypeOK, Encoding
<1> QED
  BY <1>1, Inductive, PTL

\* Whatever was mapped and looked up, ut_free_system() leaves nothing in the maps
\* for the next system at the same address.
THEOREM Forgotten == Spec => []FreedSystemsForgotten
<1>1. IInv => FreedSystemsForgotten
  BY DEF IInv
<1> QED
  BY <1>1, Inductive, PTL

LEMMA ReturnedId ==
  ASSUME IInv, NEW kind \in Kind, NEW s \in live, NEW u \in UnitsOf(s), NEW e \in Encoding,
         IdByUnit(toId[kind][s], u, e) # NullId
  PROVE  IdGiven(kind, u, e, IdByUnit(toId[kind][s], u, e), given)
<1> DEFINE trees == toId[kind][s]
<1>0. s \in System /\ "UT_ASCII" \in Encoding /\ "UT_LATIN1" \in Encoding
  BY DEF IInv, Small, Encoding
<1>1. \A f \in Encoding : u \in DOMAIN trees[f] => IdGiven(kind, u, f, trees[f][u], given)
  BY <1>0 DEF IInv, GoodTrees, GoodId
<1>2. CASE u \in DOMAIN trees[e]
  BY <1>1, <1>2 DEF IdByUnit
<1>3. CASE u \notin DOMAIN trees[e] /\ e = "UT_UTF8" /\ Converts(trees, u)
  <2>1. u \in DOMAIN trees["UT_LATIN1"]
    BY <1>3 DEF Converts
  <2>2. IdGiven(kind, u, "UT_LATIN1", trees["UT_LATIN1"][u], given)
    BY <1>0, <1>1, <2>1
  <2>3. PICK g \in given : g.kind = kind /\ g.unit = u /\ trees["UT_LATIN1"][u] = g.id
    BY <2>2 DEF IdGiven
  <2>4. IdByUnit(trees, u, e) = Latin1ToUtf8(g.id)
    BY <1>3, <2>3 DEF IdByUnit
  <2> QED
    BY <1>3, <2>3, <2>4 DEF IdGiven
<1>4. CASE u \notin DOMAIN trees[e] /\ ~(e = "UT_UTF8" /\ Converts(trees, u))
  <2>1. u \in DOMAIN trees["UT_ASCII"] /\ IdByUnit(trees, u, e) = trees["UT_ASCII"][u]
    BY <1>4 DEF IdByUnit
  <2>2. IdGiven(kind, u, "UT_ASCII", trees["UT_ASCII"][u], given)
    BY <1>0, <1>1, <2>1
  <2> QED
    BY <2>1, <2>2 DEF IdGiven
<1> QED
  BY <1>2, <1>3, <1>4

\* A lookup never returns what the client has not mapped in the lifetime of the
\* system, or the UTF-8 version of that.
THEOREM NothingElse == Spec => []OnlyMapped
<1>1. IInv => OnlyMapped
  <2> SUFFICES ASSUME IInv, NEW kind \in Kind, NEW s \in live
               PROVE  /\ \A id \in Ident :
                           UnitById(kind, s, id) # NullUnit =>
                             UnitGiven(kind, Key(kind, id), UnitById(kind, s, id), given)
                      /\ \A u \in UnitsOf(s), e \in Encoding :
                           IdByUnit(toId[kind][s], u, e) # NullId =>
                             IdGiven(kind, u, e, IdByUnit(toId[kind][s], u, e), given)
    BY DEF OnlyMapped, UnitGiven, IdGiven
  <2>1. s \in System
    BY DEF IInv, Small
  <2>2. ASSUME NEW id \in Ident, UnitById(kind, s, id) # NullUnit
        PROVE  UnitGiven(kind, Key(kind, id), UnitById(kind, s, id), given)
    <3> DEFINE key == Key(kind, id)
    <3>1. key \in DOMAIN toUnit[kind][s] /\ UnitById(kind, s, id) = toUnit[kind][s][key]
      BY <2>2 DEF UnitById
    <3> HIDE DEF key
    <3>2. GoodUnit(kind, s, key, toUnit[kind][s][key], given)
      BY <2>1, <3>1 DEF IInv, GoodTrees
    <3>3. UnitGiven(kind, key, UnitById(kind, s, id), given)
      BY <3>1, <3>2 DEF GoodUnit
    <3> QED
      BY <3>3 DEF key
  <2> QED
    BY <2>2, ReturnedId
<1> QED
  BY <1>1, Inductive, PTL

\* The identifier that ut_get_name() and ut_get_symbol() keep is the one that they
\* would have made again: no later lookup can tell.
THEOREM CachingUnseen == Spec => LookupsChangeNoAnswer
<1> DEFINE Before(kind, u, e) == IdByUnit(toId[kind][SystemOf(u)], u, e)
<1>1. ASSUME IInv, NEW k \in Kind, NEW v \in Units, NEW encoding \in Encoding,
             GetId(k, v, encoding),
             NEW kind \in Kind, NEW u \in Units \ {NullUnit}, NEW e \in Encoding
      PROVE  Before(kind, u, e)' = Before(kind, u, e)
  <2> DEFINE t == SystemOf(u)
             s == SystemOf(v)
             id == Latin1ToUtf8(toId[k][s]["UT_LATIN1"][v])
  <2>0. t \in System
    BY <1>1, PassedUnit DEF IInv, Small
  <2>1. CASE UNCHANGED toId
    BY <2>1
  <2>2. CASE ~ UNCHANGED toId
    <3>1. v # NullUnit /\ Converts(toId[k][s], v)
      BY <1>1, <2>2 DEF GetId
    <3>2. ToIdBecomes(k, s, "UT_UTF8", Put(toId[k][s]["UT_UTF8"], v, id))
      BY <1>1, <2>2 DEF GetId, Cache, ToIdBecomes
    <3>3. s \in System /\ "UT_UTF8" \in Encoding /\ toUnit' = toUnit
          /\ "UT_ASCII" \in Encoding /\ "UT_LATIN1" \in Encoding
      BY <1>1, <3>1, PassedUnit DEF IInv, Small, Encoding, GetId
    <3> HIDE DEF id, s, t
    <3>4. /\ toId'[k][s]["UT_UTF8"] = Put(toId[k][s]["UT_UTF8"], v, id)
          /\ \A l \in Kind, r \in System, f \in Encoding :
               l # k \/ r # s \/ f # "UT_UTF8" => toId'[l][r][f] = toId[l][r][f]
      BY <1>1, <3>2, <3>3, ToIdChanged DEF IInv
    <3>5. /\ toId'[kind][t]["UT_ASCII"] = toId[kind][t]["UT_ASCII"]
          /\ toId'[kind][t]["UT_LATIN1"] = toId[kind][t]["UT_LATIN1"]
      BY <1>1, <2>0, <3>3, <3>4
    <3>6. CASE kind = k /\ t = s /\ e = "UT_UTF8" /\ u = v
      <4>1. IdByUnit(toId[kind][t], u, e) = id
        BY <3>1, <3>6 DEF IdByUnit, Converts, id
      <4>2. u \in DOMAIN toId'[kind][t][e] /\ toId'[kind][t][e][u] = id
        BY <3>4, <3>6, PutThere DEF Put
      <4>3. IdByUnit(toId'[kind][t], u, e) = id
        BY <4>2 DEF IdByUnit
      <4> QED
        BY <4>1, <4>3 DEF t
    <3>7. CASE kind = k /\ t = s /\ e = "UT_UTF8" /\ u # v
      <4>1. toId'[kind][t][e] = Put(toId[kind][t][e], v, id)
        BY <3>4, <3>7
      <4>2. /\ u \in DOMAIN toId'[kind][t][e] <=> u \in DOMAIN toId[kind][t][e]
            /\ u \in DOMAIN toId[kind][t][e] => toId'[kind][t][e][u] = toId[kind][t][e][u]
        BY <3>7, <4>1 DEF Put
      <4>3. IdByUnit(toId'[kind][t], u, e) = IdByUnit(toId[kind][t], u, e)
        BY <3>5, <3>7, <4>2 DEF IdByUnit, Converts
      <4> QED
        BY <4>3 DEF t
    <3>8. CASE kind # k \/ t # s \/ e # "UT_UTF8"
      <4>1. toId'[kind][t][e] = toId[kind][t][e]
        BY <1>1, <2>0, <3>4, <3>8
      <4>2. IdByUnit(toId'[kind][t], u, e) = IdByUnit(toId[kind][t], u, e)
        BY <3>5, <4>1 DEF IdByUnit, Converts
      <4> QED
        BY <4>2 DEF t
    <3> QED
      BY <3>6, <3>7, <3>8
  <2> QED
    BY <2>1, <2>2
<1>2. IInv /\ [Next]_vars =>
        [(\E kind \in Kind, u \in Units, encoding \in Encoding : GetId(kind, u, encoding))
         => \A kind \in Kind, u \in Units \ {NullUnit}, e \in Encoding :
              IdByUnit(toId'[kind][SystemOf(u)], u, e) = IdByUnit(toId[kind][SystemOf(u)], u, e)]_vars
  BY <1>1
<1> QED
  BY <1>2, Inductive, PTL DEF Spec, LookupsChangeNoAnswer

-----------------------------------------------------------------------------
(* That mappings stay.                                                     *)

\* A tree after a step, compared with the tree before.
Keeps(old, new) == \A key \in DOMAIN old : key \in DOMAIN new => new[key] = old[key]

AllKept ==
  \A kind \in Kind, s \in System :
    /\ Keeps(toUnit[kind][s], toUnit'[kind][s])
    /\ \A e \in Encoding : Keeps(toId[kind][s][e], toId'[kind][s][e])

FailuresChangeNothing == status' # "UT_SUCCESS" => toUnit' = toUnit /\ toId' = toId

LEMMA KeepsSame == \A t : Keeps(t, t)
BY DEF Keeps

LEMMA KeepsPut ==
  ASSUME NEW tree, NEW key, NEW value, key \notin DOMAIN tree
  PROVE  Keeps(tree, Put(tree, key, value))
BY PutElsewhere DEF Keeps

LEMMA KeepsWithout ==
  ASSUME NEW tree, NEW key
  PROVE  Keeps(tree, Without(tree, key))
BY WithoutFacts DEF Keeps

LEMMA KeptSame ==
  ASSUME UNCHANGED <<toUnit, toId>>
  PROVE  AllKept /\ FailuresChangeNothing
BY KeepsSame DEF AllKept, FailuresChangeNothing

LEMMA KeptToUnit ==
  ASSUME IInv, NEW k \in Kind, NEW s \in System, NEW tree, Keeps(toUnit[k][s], tree),
         ToUnitBecomes(k, s, tree), toId' = toId
  PROVE  AllKept
<1>1. /\ toUnit'[k][s] = tree
      /\ \A kind \in Kind, t \in System :
           kind # k \/ t # s => toUnit'[kind][t] = toUnit[kind][t]
  BY ToUnitChanged DEF IInv
<1>2. ASSUME NEW kind \in Kind, NEW t \in System
      PROVE  Keeps(toUnit[kind][t], toUnit'[kind][t])
  BY <1>1, KeepsSame
<1> QED
  BY <1>2, KeepsSame DEF AllKept

LEMMA KeptToId ==
  ASSUME IInv, NEW k \in Kind, NEW s \in System, NEW e \in Encoding, NEW tree,
         Keeps(toId[k][s][e], tree), ToIdBecomes(k, s, e, tree), toUnit' = toUnit
  PROVE  AllKept
<1>1. /\ toId'[k][s][e] = tree
      /\ \A kind \in Kind, t \in System, f \in Encoding :
           kind # k \/ t # s \/ f # e => toId'[kind][t][f] = toId[kind][t][f]
  BY ToIdChanged DEF IInv
<1>2. ASSUME NEW kind \in Kind, NEW t \in System, NEW f \in Encoding
      PROVE  Keeps(toId[kind][t][f], toId'[kind][t][f])
  BY <1>1, KeepsSame
<1> QED
  BY <1>2, KeepsSame DEF AllKept

-----------------------------------------------------------------------------
(* The maps are functions, which they must be known to be before two of    *)
(* them can be found equal.                                                *)

IsFun(f, S) == f = [ x \in S |-> f[x] ]

Functional ==
  /\ IsFun(toUnit, Kind)
  /\ IsFun(toId, Kind)
  /\ \A kind \in Kind :
       /\ IsFun(toUnit[kind], System)
       /\ IsFun(toId[kind], System)
       /\ \A s \in System : IsFun(toId[kind][s], Encoding)

LEMMA FunDomain == ASSUME NEW f, NEW S, IsFun(f, S) PROVE DOMAIN f = S
BY DEF IsFun

LEMMA FunEqual ==
  ASSUME NEW f, NEW g, NEW S, IsFun(f, S), IsFun(g, S), \A x \in S : f[x] = g[x]
  PROVE  f = g
BY DEF IsFun

LEMMA FunctionalToUnit ==
  ASSUME Functional, NEW k \in Kind, NEW s \in System, NEW tree,
         ToUnitBecomes(k, s, tree), toId' = toId
  PROVE  Functional'
<1>1. DOMAIN toUnit = Kind /\ DOMAIN toUnit[k] = System
  BY FunDomain DEF Functional
<1>2. IsFun(toUnit', Kind)
  BY DEF Functional, IsFun, ToUnitBecomes
<1>3. /\ toUnit'[k] = [toUnit[k] EXCEPT ![s] = tree]
      /\ \A kind \in Kind : kind # k => toUnit'[kind] = toUnit[kind]
  BY <1>1 DEF ToUnitBecomes
<1>4. IsFun(toUnit'[k], System)
  BY <1>3 DEF Functional, IsFun
<1> QED
  BY <1>2, <1>3, <1>4 DEF Functional

LEMMA FunctionalToId ==
  ASSUME Functional, NEW k \in Kind, NEW s \in System, NEW e \in Encoding, NEW tree,
         ToIdBecomes(k, s, e, tree), toUnit' = toUnit
  PROVE  Functional'
<1>1. DOMAIN toId = Kind /\ DOMAIN toId[k] = System /\ DOMAIN toId[k][s] = Encoding
  BY FunDomain DEF Functional
<1>2. IsFun(toId', Kind)
  BY DEF Functional, IsFun, ToIdBecomes
<1>3. /\ toId'[k] = [toId[k] EXCEPT ![s][e] = tree]
      /\ \A kind \in Kind : kind # k => toId'[kind] = toId[kind]
  BY <1>1 DEF ToIdBecomes
<1>4. IsFun(toId'[k], System)
  BY <1>3 DEF Functional, IsFun
<1>5. /\ toId'[k][s] = [toId[k][s] EXCEPT ![e] = tree]
      /\ \A t \in System : t # s => toId'[k][t] = toId[k][t]
  BY <1>1, <1>3
<1>6. IsFun(toId'[k][s], Encoding)
  BY <1>5 DEF Functional, IsFun
<1> QED
  BY <1>2, <1>3, <1>4, <1>5, <1>6 DEF Functional

\* Freeing a system that has no mappings changes nothing, so the status that stays
\* is that of the call before.
LEMMA KeptFree ==
  ASSUME IInv, Functional, NEW s \in System, FreeSystem(s)
  PROVE  Functional' /\ AllKept /\ FailuresChangeNothing
<1>1. \A kind \in Kind, t \in System :
        toUnit'[kind][t] = IF t = s THEN Empty ELSE toUnit[kind][t]
  BY DEF FreeSystem, ItumFreeSystem, IInv, Shape
<1>2. \A kind \in Kind, t \in System, e \in Encoding :
        toId'[kind][t][e] = IF t = s THEN Empty ELSE toId[kind][t][e]
  BY DEF FreeSystem, UtimFreeSystem, IInv, Shape
<1>3. \A tree : Keeps(tree, Empty)
  BY DEF Keeps, Empty
<1>4. AllKept
  BY <1>1, <1>2, <1>3, KeepsSame DEF AllKept
<1>5. Functional'
  <2>1. IsFun(toUnit', Kind) /\ IsFun(toId', Kind)
    BY DEF FreeSystem, ItumFreeSystem, UtimFreeSystem, IsFun
  <2>2. ASSUME NEW kind \in Kind
        PROVE  /\ IsFun(toUnit'[kind], System)
               /\ IsFun(toId'[kind], System)
               /\ \A t \in System : IsFun(toId'[kind][t], Encoding)
    <3>1. /\ toUnit'[kind] = [toUnit[kind] EXCEPT ![s] = Empty]
          /\ toId'[kind] = [toId[kind] EXCEPT ![s] = [ e \in Encoding |-> Empty ]]
      BY DEF FreeSystem, ItumFreeSystem, UtimFreeSystem
    <3>2. IsFun(toUnit'[kind], System) /\ IsFun(toId'[kind], System)
      BY <3>1 DEF Functional, IsFun
    <3>3. ASSUME NEW t \in System
          PROVE  IsFun(toId'[kind][t], Encoding)
      <4>1. toId'[kind][t] = IF t = s THEN [ e \in Encoding |-> Empty ] ELSE toId[kind][t]
        BY <3>1 DEF IInv, Shape
      <4> QED
        BY <4>1 DEF Functional, IsFun
    <3> QED
      BY <3>2, <3>3
  <2> QED
    BY <2>1, <2>2 DEF Functional
<1>6. ASSUME status' # "UT_SUCCESS"
      PROVE  toUnit' = toUnit /\ toId' = toId
  <2>1. \A kind \in Kind : /\ toUnit[kind][s] = Empty
                           /\ \A e \in Encoding : toId[kind][s][e] = Empty
    BY <1>6 DEF FreeSystem
  <2>2. ASSUME NEW kind \in Kind PROVE toUnit'[kind] = toUnit[kind]
    <3>1. \A t \in System : toUnit'[kind][t] = toUnit[kind][t]
      BY <1>1, <2>1
    <3> QED
      BY <1>5, <3>1, FunEqual DEF Functional
  <2>3. ASSUME NEW kind \in Kind PROVE toId'[kind] = toId[kind]
    <3>1. ASSUME NEW t \in System PROVE toId'[kind][t] = toId[kind][t]
      <4>1. \A e \in Encoding : toId'[kind][t][e] = toId[kind][t][e]
        BY <1>2, <2>1
      <4> QED
        BY <1>5, <4>1, FunEqual DEF Functional
    <3> QED
      BY <1>5, <3>1, FunEqual DEF Functional
  <2> QED
    BY <1>5, <2>2, <2>3, FunEqual DEF Functional
<1> QED
  BY <1>4, <1>5, <1>6 DEF FailuresChangeNothing

-----------------------------------------------------------------------------
\* What every step keeps.
Kept == Functional' /\ AllKept /\ FailuresChangeNothing

LEMMA KeptUnchanged ==
  ASSUME Functional, toUnit' = toUnit, toId' = toId
  PROVE  Kept
<1>1. Functional'
  BY DEF Functional
<1> QED
  BY <1>1, KeptSame DEF Kept

LEMMA KeptMapId ==
  ASSUME IInv, Functional, NEW kind \in Kind, NEW u \in Units, NEW id,
         MapIdToUnit(kind, id, u)
  PROVE  Kept
<1>1. toId' = toId
  BY DEF MapIdToUnit
<1>2. CASE toUnit' = toUnit
  BY <1>1, <1>2, KeptUnchanged
<1>3. CASE toUnit' # toUnit
  <2> DEFINE s == SystemOf(u)
             key == Key(kind, id)
  <2>1. s \in System
    BY <1>3, PassedUnit, UnitFacts DEF MapIdToUnit
  <2>2. /\ ToUnitBecomes(kind, s, Put(toUnit[kind][s], key, u))
        /\ key \notin DOMAIN toUnit[kind][s]
        /\ status' = "UT_SUCCESS"
    BY <1>3 DEF MapIdToUnit, ItumAdd, ItumStatus, ToUnitBecomes
  <2> HIDE DEF s, key
  <2>3. Keeps(toUnit[kind][s], Put(toUnit[kind][s], key, u))
    BY <2>2, KeepsPut
  <2> QED
    BY <1>1, <2>1, <2>2, <2>3, KeptToUnit, FunctionalToUnit DEF Kept, FailuresChangeNothing
<1> QED
  BY <1>2, <1>3

LEMMA KeptUnmapId ==
  ASSUME IInv, Functional, NEW kind \in Kind, NEW s \in Systems, NEW id, UnmapId(kind, s, id)
  PROVE  Kept
<1>1. toId' = toId
  BY DEF UnmapId
<1>2. CASE toUnit' = toUnit
  BY <1>1, <1>2, KeptUnchanged
<1>3. CASE toUnit' # toUnit
  <2>1. s \in System
    BY <1>3 DEF UnmapId, Systems, IInv, Small
  <2>2. /\ ToUnitBecomes(kind, s, Without(toUnit[kind][s], Key(kind, id)))
        /\ status' = "UT_SUCCESS"
    BY <1>3 DEF UnmapId, ToUnitBecomes
  <2>3. Keeps(toUnit[kind][s], Without(toUnit[kind][s], Key(kind, id)))
    BY KeepsWithout
  <2> QED
    BY <1>1, <2>1, <2>2, <2>3, KeptToUnit, FunctionalToUnit DEF Kept, FailuresChangeNothing
<1> QED
  BY <1>2, <1>3

LEMMA KeptMapUnit ==
  ASSUME IInv, Functional, NEW kind \in Kind, NEW u \in Units, NEW id,
         NEW encoding \in Encoding, MapUnitToId(kind, u, id, encoding)
  PROVE  Kept
<1>1. toUnit' = toUnit
  BY DEF MapUnitToId
<1>2. CASE toId' = toId
  BY <1>1, <1>2, KeptUnchanged
<1>3. CASE toId' # toId
  <2> DEFINE s == SystemOf(u)
             e == Adjusted(encoding, id)
  <2>1. s \in System
    BY <1>3, PassedUnit, UnitFacts DEF MapUnitToId
  <2>2. /\ ToIdBecomes(kind, s, e, Put(toId[kind][s][e], u, id))
        /\ u \notin DOMAIN toId[kind][s][e]
        /\ status' = "UT_SUCCESS"
    BY <1>3 DEF MapUnitToId, UtimAdd, UtimStatus, ToIdBecomes
  <2>3. e \in Encoding
    BY AdjustedFacts
  <2> HIDE DEF s, e
  <2>4. Keeps(toId[kind][s][e], Put(toId[kind][s][e], u, id))
    BY <2>2, KeepsPut
  <2> QED
    BY <1>1, <2>1, <2>2, <2>3, <2>4, KeptToId, FunctionalToId DEF Kept, FailuresChangeNothing
<1> QED
  BY <1>2, <1>3

LEMMA KeptUnmapUnit ==
  ASSUME IInv, Functional, NEW kind \in Kind, NEW u \in Units, NEW encoding \in Encoding,
         UnmapUnitToId(kind, u, encoding)
  PROVE  Kept
<1>1. toUnit' = toUnit
  BY DEF UnmapUnitToId
<1>2. CASE toId' = toId
  BY <1>1, <1>2, KeptUnchanged
<1>3. CASE toId' # toId
  <2> DEFINE s == SystemOf(u)
  <2>1. s \in System
    BY <1>3, PassedUnit, UnitFacts DEF UnmapUnitToId
  <2>2. /\ ToIdBecomes(kind, s, encoding, Without(toId[kind][s][encoding], u))
        /\ status' = "UT_SUCCESS"
    BY <1>3 DEF UnmapUnitToId, ToIdBecomes
  <2> HIDE DEF s
  <2>3. Keeps(toId[kind][s][encoding], Without(toId[kind][s][encoding], u))
    BY KeepsWithout
  <2> QED
    BY <1>1, <2>1, <2>2, <2>3, KeptToId, FunctionalToId DEF Kept, FailuresChangeNothing
<1> QED
  BY <1>2, <1>3

LEMMA KeptGetId ==
  ASSUME IInv, Functional, NEW kind \in Kind, NEW u \in Units, NEW encoding \in Encoding,
         GetId(kind, u, encoding)
  PROVE  Kept
<1>1. toUnit' = toUnit
  BY DEF GetId
<1>2. CASE toId' = toId
  BY <1>1, <1>2, KeptUnchanged
<1>3. CASE toId' # toId
  <2> DEFINE s == SystemOf(u)
             id == Latin1ToUtf8(toId[kind][s]["UT_LATIN1"][u])
  <2>1. s \in System
    BY <1>3, PassedUnit, UnitFacts DEF GetId
  <2>2. /\ ToIdBecomes(kind, s, "UT_UTF8", Put(toId[kind][s]["UT_UTF8"], u, id))
        /\ u \notin DOMAIN toId[kind][s]["UT_UTF8"]
        /\ status' = "UT_SUCCESS"
    BY <1>3 DEF GetId, Cache, Converts, ToIdBecomes
  <2>3. "UT_UTF8" \in Encoding
    BY DEF Encoding
  <2> HIDE DEF s, id
  <2>4. Keeps(toId[kind][s]["UT_UTF8"], Put(toId[kind][s]["UT_UTF8"], u, id))
    BY <2>2, KeepsPut
  <2> QED
    BY <1>1, <2>1, <2>2, <2>3, <2>4, KeptToId, FunctionalToId DEF Kept, FailuresChangeNothing
<1> QED
  BY <1>2, <1>3

LEMMA KeptStep == IInv /\ Functional /\ [Next]_vars => Kept
<1> SUFFICES ASSUME IInv, Functional, [Next]_vars PROVE Kept
  OBVIOUS
<1>1. ASSUME NEW s \in System, NewSystem(s) PROVE Kept
  BY <1>1, KeptUnchanged DEF NewSystem
<1>2. ASSUME NEW s \in System, FreeSystem(s) PROVE Kept
  BY <1>2, KeptFree DEF Kept
<1>3. ASSUME NEW kind \in Kind, NEW u \in Units, NEW id \in Idents, MapIdToUnit(kind, id, u)
      PROVE  Kept
  BY <1>3, KeptMapId
<1>4. ASSUME NEW kind \in Kind, NEW u \in Units, NEW id \in Idents, NEW encoding \in Encoding,
             MapUnitToId(kind, u, id, encoding)
      PROVE  Kept
  BY <1>4, KeptMapUnit
<1>5. ASSUME NEW kind \in Kind, NEW s \in Systems, NEW id \in Idents, UnmapId(kind, s, id)
      PROVE  Kept
  BY <1>5, KeptUnmapId
<1>6. ASSUME NEW kind \in Kind, NEW s \in Systems, NEW id \in Idents, GetUnitById(kind, s, id)
      PROVE  Kept
  BY <1>6, KeptUnchanged DEF GetUnitById
<1>7. ASSUME NEW kind \in Kind, NEW u \in Units, NEW encoding \in Encoding,
             UnmapUnitToId(kind, u, encoding)
      PROVE  Kept
  BY <1>7, KeptUnmapUnit
<1>8. ASSUME NEW kind \in Kind, NEW u \in Units, NEW encoding \in Encoding, GetId(kind, u, encoding)
      PROVE  Kept
  BY <1>8, KeptGetId
<1>9. CASE UNCHANGED vars
  BY <1>9, KeptUnchanged DEF vars
<1> QED
  BY <1>1, <1>2, <1>3, <1>4, <1>5, <1>6, <1>7, <1>8, <1>9 DEF Next

\* A mapping is never replaced while its system lives, and a call that fails
\* changes no map.
THEOREM Stay == Spec => MappingsStay
<1>1. Init => Functional
  BY DEF Init, Functional, IsFun
<1>2. IInv /\ Functional /\ [Next]_vars => Functional'
  BY KeptStep DEF Kept
<1>3. Spec => [](IInv /\ Functional)
  BY <1>1, <1>2, Inductive, PTL DEF Spec
<1>4. IInv /\ Functional /\ [Next]_vars =>
        [/\ status' # "UT_SUCCESS" => UNCHANGED <<toUnit, toId>>
         /\ \A kind \in Kind, s \in live :
              /\ \A key \in DOMAIN toUnit[kind][s] :
                   key \in DOMAIN toUnit'[kind][s] => toUnit'[kind][s][key] = toUnit[kind][s][key]
              /\ \A e \in Encoding : \A u \in DOMAIN toId[kind][s][e] :
                   u \in DOMAIN toId'[kind][s][e] => toId'[kind][s][e][u] = toId[kind][s][e][u]]_vars
  <2> SUFFICES ASSUME IInv, Functional, [Next]_vars
               PROVE  /\ status' # "UT_SUCCESS" => UNCHANGED <<toUnit, toId>>
                      /\ \A kind \in Kind, s \in live :
                           /\ \A key \in DOMAIN toUnit[kind][s] :
                                key \in DOMAIN toUnit'[kind][s] =>
                                  toUnit'[kind][s][key] = toUnit[kind][s][key]
                           /\ \A e \in Encoding : \A u \in DOMAIN toId[kind][s][e] :
                                u \in DOMAIN toId'[kind][s][e] =>
                                  toId'[kind][s][e][u] = toId[kind][s][e][u]
    OBVIOUS
  <2>1. AllKept /\ FailuresChangeNothing
    BY KeptStep DEF Kept
  <2>2. live \subseteq System
    BY DEF IInv, Small
  <2>3. \A kind \in Kind, s \in live :
          /\ Keeps(toUnit[kind][s], toUnit'[kind][s])
          /\ \A e \in Encoding : Keeps(toId[kind][s][e], toId'[kind][s][e])
    BY <2>1, <2>2 DEF AllKept
  <2> QED
    BY <2>1, <2>3 DEF Keeps, FailuresChangeNothing
<1> QED
  BY <1>3, <1>4, PTL DEF Spec, MappingsStay
=============================================================================
