--------------------------- MODULE UnitCore_proofs ---------------------------
(***************************************************************************)
(* Theorems about module UnitCore, for every set of basic-units, registers *)
(* and arguments, and every number of calls.                               *)
(***************************************************************************)
EXTENDS UnitCore, FiniteSetTheorems, WellFoundedInduction, TLAPS

\* Everything that is built of units is one.  TLC is given some of the units only.
AllUnits == \A u : Built(u, Unit) => u \in Unit

-----------------------------------------------------------------------------
(* Induction over the units inside a unit.                                 *)

LEMMA UnitFacts ==
  ASSUME NEW u \in Unit
  PROVE  /\ u # NoUnit
         /\ u.type \in {"basic", "product", "galilean", "log", "timestamp"}
         /\ Is(u, "basic") => u.system \in System /\ u.index \in Basic /\ u = BasicUnit(u.system, u.index)
         /\ Is(u, "product") =>
              /\ u.system \in System /\ DOMAIN u.vec \subseteq Basic
              /\ u.vec \in [DOMAIN u.vec -> Short]
              /\ u = ProductUnit(u.system, u.vec) \/ u = One(u.system)
         /\ Wraps(u) => u.unit \in Unit
         /\ Is(u, "galilean") =>
              /\ u.scale \in Int /\ u.offset \in Int
              /\ ~Is(u.unit, "galilean") /\ ~(u.scale = 0 /\ u.offset = 0)
              /\ u = [type |-> "galilean", scale |-> u.scale, unit |-> u.unit, offset |-> u.offset]
         /\ Is(u, "log") => u.base \in Int /\ u = LogFrom(u.base, u.unit)
         /\ Is(u, "timestamp") =>
              /\ u.origin \in Int
              /\ u = [type |-> "timestamp", unit |-> u.unit, origin |-> u.origin]
<1>1. Built(u, Unit) /\ u # NoUnit
  BY UnitAssumption
<1>2. CASE u \in [type : {"basic"}, system : System, index : Basic]
  BY <1>1, <1>2 DEF Is, Wraps, BasicUnit
<1>3. CASE /\ Is(u, "product") /\ DOMAIN u.vec \subseteq Basic
           /\ u \in [type : {"product"}, system : System, vec : [DOMAIN u.vec -> Short]]
  BY <1>1, <1>3 DEF Is, Wraps, ProductUnit
<1>4. CASE /\ u \in [type : {"galilean"}, scale : Int, unit : Unit, offset : Int]
           /\ ~Is(u.unit, "galilean") /\ ~(u.scale = 0 /\ u.offset = 0)
  BY <1>1, <1>4 DEF Is, Wraps
<1>5. CASE u \in [type : {"log"}, base : Int, unit : Unit]
  BY <1>1, <1>5 DEF Is, Wraps, LogFrom
<1>6. CASE u \in [type : {"timestamp"}, unit : Unit, origin : Int]
  BY <1>1, <1>6 DEF Is, Wraps
<1>7. ASSUME NEW s \in System, u = One(s)
      PROVE  /\ Is(u, "product") /\ ~Is(u, "basic") /\ ~Is(u, "galilean")
             /\ ~Is(u, "log") /\ ~Is(u, "timestamp") /\ ~Wraps(u)
             /\ u.system = s /\ DOMAIN u.vec = {} /\ u.vec \in [DOMAIN u.vec -> Short]
  BY <1>7 DEF Is, Wraps, One
<1>8. CASE u \in { One(s) : s \in System }
  <2>1. PICK s \in System : u = One(s)
    BY <1>8
  <2> QED
    BY <1>1, <1>7, <2>1 DEF Is
<1> QED
  BY <1>1, <1>2, <1>3, <1>4, <1>5, <1>6, <1>8 DEF Built

LEMMA Made ==
  ASSUME AllUnits
  PROVE  /\ \A s \in System, b \in Basic : BasicUnit(s, b) \in Unit
         /\ \A s \in System : \A v : DOMAIN v \subseteq Basic /\ v \in [DOMAIN v -> Short] =>
              ProductUnit(s, v) \in Unit
         /\ \A s \in System : One(s) \in Unit
         /\ \A k, o \in Int, u \in Unit : ~Is(u, "galilean") /\ ~(k = 0 /\ o = 0) =>
              [type |-> "galilean", scale |-> k, unit |-> u, offset |-> o] \in Unit
         /\ \A base \in Int, u \in Unit : LogFrom(base, u) \in Unit
         /\ \A u \in Unit, origin \in Int :
              [type |-> "timestamp", unit |-> u, origin |-> origin] \in Unit
<1>1. ASSUME NEW s \in System, NEW b \in Basic
      PROVE  BasicUnit(s, b) \in Unit
  <2>1. Built(BasicUnit(s, b), Unit)
    BY DEF BasicUnit, Built, Is
  <2> QED
    BY <2>1 DEF AllUnits
<1>2. ASSUME NEW s \in System, NEW v, DOMAIN v \subseteq Basic, v \in [DOMAIN v -> Short]
      PROVE  ProductUnit(s, v) \in Unit
  <2>1. Built(ProductUnit(s, v), Unit)
    BY <1>2 DEF ProductUnit, Built, Is
  <2> QED
    BY <2>1 DEF AllUnits
<1>3. ASSUME NEW k \in Int, NEW o \in Int, NEW u \in Unit, ~Is(u, "galilean"), ~(k = 0 /\ o = 0)
      PROVE  [type |-> "galilean", scale |-> k, unit |-> u, offset |-> o] \in Unit
  <2>1. Built([type |-> "galilean", scale |-> k, unit |-> u, offset |-> o], Unit)
    BY <1>3 DEF Built, Is
  <2> QED
    BY <2>1 DEF AllUnits
<1>4. ASSUME NEW base \in Int, NEW u \in Unit
      PROVE  LogFrom(base, u) \in Unit
  <2>1. Built(LogFrom(base, u), Unit)
    BY DEF Built, Is, LogFrom
  <2> QED
    BY <2>1 DEF AllUnits
<1>5. ASSUME NEW u \in Unit, NEW origin \in Int
      PROVE  [type |-> "timestamp", unit |-> u, origin |-> origin] \in Unit
  <2>1. Built([type |-> "timestamp", unit |-> u, origin |-> origin], Unit)
    BY DEF Built, Is
  <2> QED
    BY <2>1 DEF AllUnits
<1>6. ASSUME NEW s \in System
      PROVE  One(s) \in Unit
  <2>1. Built(One(s), Unit)
    BY DEF Built
  <2> QED
    BY <2>1 DEF AllUnits
<1> QED
  BY <1>1, <1>2, <1>3, <1>4, <1>5, <1>6

LEMMA DepthFacts ==
  ASSUME NEW u \in Unit
  PROVE  Depth(u) \in Nat /\ (Wraps(u) => Depth(u.unit) \in Nat /\ Depth(u) = 1 + Depth(u.unit))
<1>1. Depth(u) \in Nat /\ Depth(u) = DepthFrom(u, Depth(u.unit))
  BY UnitAssumption
<1>2. Wraps(u) => Depth(u.unit) \in Nat
  BY UnitFacts, UnitAssumption
<1> QED
  BY <1>1, <1>2 DEF DepthFrom

LEMMA LeastNumber ==
  ASSUME NEW S \in SUBSET Nat, S # {}
  PROVE  \E n \in S : \A k \in S : n <= k
<1>1. \E n \in S : \A k \in S : ~ (<<k, n>> \in OpToRel(<, Nat))
  BY NatLessThanWellFounded, WFMin
<1>2. PICK n \in S : \A k \in S : ~ (<<k, n>> \in OpToRel(<, Nat))
  BY <1>1
<1>3. \A k \in S : ~ (k < n)
  BY <1>2 DEF OpToRel
<1> QED
  BY <1>3

\* What holds of a unit when it holds of the unit inside holds of them all.
LEMMA DepthInduction ==
  ASSUME NEW S \in SUBSET Unit,
         \A u \in Unit : (Wraps(u) => u.unit \in S) => u \in S
  PROVE  S = Unit
<1>1. SUFFICES ASSUME Unit \ S # {}
               PROVE  FALSE
  OBVIOUS
<1> DEFINE D == { Depth(u) : u \in Unit \ S }
<1>2. D \in SUBSET Nat /\ D # {}
  BY <1>1, DepthFacts
<1>3. PICK n \in D : \A k \in D : n <= k
  BY <1>2, LeastNumber
<1>4. PICK u \in Unit \ S : n = Depth(u)
  BY <1>3
<1>5. Wraps(u) /\ u.unit \notin S
  BY <1>4
<1>6. u.unit \in Unit \ S /\ Depth(u) = 1 + Depth(u.unit) /\ Depth(u.unit) \in Nat
  BY <1>4, <1>5, UnitFacts, DepthFacts
<1>7. n <= Depth(u.unit)
  BY <1>3, <1>6
<1> QED
  BY <1>4, <1>6, <1>7

\* The same for two units.
LEMMA PairInduction ==
  ASSUME NEW S \in SUBSET (Unit \X Unit),
         \A u, v \in Unit :
           (\A p \in Unit \X Unit : Depth(p[1]) + Depth(p[2]) < Depth(u) + Depth(v) => p \in S)
           => <<u, v>> \in S
  PROVE  S = Unit \X Unit
<1>1. SUFFICES ASSUME (Unit \X Unit) \ S # {}
               PROVE  FALSE
  OBVIOUS
<1> DEFINE D == { Depth(p[1]) + Depth(p[2]) : p \in (Unit \X Unit) \ S }
<1>2. D \in SUBSET Nat /\ D # {}
  BY <1>1, DepthFacts
<1>3. PICK n \in D : \A k \in D : n <= k
  BY <1>2, LeastNumber
<1>4. PICK q \in (Unit \X Unit) \ S : n = Depth(q[1]) + Depth(q[2])
  BY <1>3
<1>5. ASSUME NEW p \in Unit \X Unit, Depth(p[1]) + Depth(p[2]) < Depth(q[1]) + Depth(q[2])
      PROVE  p \in S
  <2>1. SUFFICES ASSUME p \notin S
                 PROVE  FALSE
    OBVIOUS
  <2>2. Depth(p[1]) + Depth(p[2]) \in D
    BY <2>1
  <2>3. /\ Depth(p[1]) \in Nat /\ Depth(p[2]) \in Nat
        /\ Depth(q[1]) \in Nat /\ Depth(q[2]) \in Nat
    BY <1>4, DepthFacts
  <2> HIDE DEF D
  <2>4. n <= Depth(p[1]) + Depth(p[2])
    BY <1>3, <2>2
  <2> QED
    BY <1>4, <1>5, <2>3, <2>4
<1>6. q[1] \in Unit /\ q[2] \in Unit /\ q = <<q[1], q[2]>>
  BY <1>4
<1>7. <<q[1], q[2]>> \in S
  <2>1. \A p \in Unit \X Unit :
          Depth(p[1]) + Depth(p[2]) < Depth(q[1]) + Depth(q[2]) => p \in S
    BY <1>5
  <2> QED
    BY <1>6, <2>1, Zenon
<1> QED
  BY <1>4, <1>6, <1>7

-----------------------------------------------------------------------------
(* Numbers.                                                                *)

\* The function in PowerOf2(n).
PowerRun(f, n) == f = [ i \in 0 .. n |-> IF i = 0 THEN 1 ELSE 2 * f[i - 1] ]

LEMMA PowerRuns ==
  ASSUME NEW n \in Nat
  PROVE  \E f : PowerRun(f, n)
<1>1. SUFFICES ASSUME { k \in Nat : ~ \E f : PowerRun(f, k) } # {}
               PROVE  FALSE
  OBVIOUS
<1>2. PICK k \in { j \in Nat : ~ \E f : PowerRun(f, j) } :
             \A i \in { j \in Nat : ~ \E f : PowerRun(f, j) } : k <= i
  BY <1>1, LeastNumber
<1>3. CASE k = 0
  <2>1. PowerRun([ i \in 0 .. k |-> 1 ], k)
    BY <1>3 DEF PowerRun
  <2> QED
    BY <1>2, <2>1
<1>4. CASE k # 0
  <2>1. k - 1 \in Nat /\ ~ (k <= k - 1)
    BY <1>2, <1>4
  <2>2. PICK f : PowerRun(f, k - 1)
    BY <1>2, <2>1
  <2> DEFINE g == [ i \in 0 .. k |-> IF i = 0 THEN 1 ELSE 2 * f[i - 1] ]
  <2>3. \A i \in 1 .. k : g[i - 1] = f[i - 1]
    BY <1>2, <2>1, <2>2 DEF PowerRun
  <2>4. g = [ i \in 0 .. k |-> IF i = 0 THEN 1 ELSE 2 * g[i - 1] ]
    <3>1. ASSUME NEW i \in 0 .. k
          PROVE  (IF i = 0 THEN 1 ELSE 2 * f[i - 1]) = (IF i = 0 THEN 1 ELSE 2 * g[i - 1])
      <4> HIDE DEF g
      <4>1. i # 0 => g[i - 1] = f[i - 1]
        BY <1>2, <2>3
      <4> QED
        BY <4>1
    <3> QED
      BY <3>1
  <2> QED
    BY <1>2, <2>4 DEF PowerRun
<1> QED
  BY <1>3, <1>4

LEMMA PowerFacts ==
  ASSUME NEW n \in Nat
  PROVE  PowerOf2(n) \in Nat \ {0}
<1> DEFINE power == CHOOSE f : PowerRun(f, n)
<1>1. power = [ i \in 0 .. n |-> IF i = 0 THEN 1 ELSE 2 * power[i - 1] ]
  BY PowerRuns DEF PowerRun
<1>2. PowerOf2(n) = power[n]
  BY DEF PowerOf2, PowerRun
<1> HIDE DEF power
<1> DEFINE Bad == { i \in 0 .. n : power[i] \notin Nat \ {0} }
<1>3. Bad = {}
  <2>1. SUFFICES ASSUME Bad # {}
                 PROVE  FALSE
    OBVIOUS
  <2>2. PICK i \in Bad : \A j \in Bad : i <= j
    <3>1. Bad \in SUBSET Nat
      OBVIOUS
    <3> HIDE DEF Bad
    <3> QED
      BY <2>1, <3>1, LeastNumber
  <2>3. i # 0
    <3>1. power[0] = 1 /\ i \in Bad
      BY <1>1, <2>2
    <3> QED
      BY <3>1
  <2>4. i - 1 \in 0 .. n /\ i - 1 \notin Bad
    BY <2>2, <2>3
  <2> QED
    BY <1>1, <2>2, <2>3, <2>4
<1> QED
  BY <1>2, <1>3

LEMMA ScaledIsInt ==
  ASSUME NEW k \in Int, NEW x \in Int
  PROVE  Scaled(k, x) \in Int
<1>1. CASE k >= 0
  <2>1. PowerOf2(k) \in Nat
    BY <1>1, PowerFacts
  <2> QED
    BY <1>1, <2>1 DEF Scaled
<1>2. CASE ~ (k >= 0)
  <2>1. PowerOf2(-k) \in Nat \ {0}
    BY <1>2, PowerFacts
  <2> QED
    BY <1>2, <2>1 DEF Scaled
<1> QED
  BY <1>1, <1>2

LEMMA NarrowIsShort ==
  ASSUME NEW k \in Int
  PROVE  Narrow(k) \in Short
<1>1. ShortMax \in Nat /\ 2 * (ShortMax + 1) \in Nat \ {0}
  BY ShortAssumption
<1>2. (k + ShortMax + 1) % (2 * (ShortMax + 1)) \in 0 .. 2 * (ShortMax + 1) - 1
  BY <1>1
<1> QED
  BY <1>1, <1>2 DEF Narrow, Short

-----------------------------------------------------------------------------
(* Vectors.                                                                *)

IsVector(v) == DOMAIN v \subseteq Basic /\ v \in [DOMAIN v -> Short]

LEMMA VectorsClosed ==
  /\ \A b \in Basic : IsVector([ c \in {b} |-> 1 ])
  /\ IsVector([ b \in {} |-> 0 ])
  /\ \A v, w : IsVector(v) /\ IsVector(w) => IsVector(Times(v, w))
  /\ \A v : IsVector(v) => \A n \in Int : IsVector(Raised(v, n))
  /\ \A v : IsVector(v) => \A n \in Roots : IsVector(RootOf(v, n))
<1>1. Short \subseteq Int /\ 1 \in Short
  BY ShortAssumption DEF Short
<1>2. \A b \in Basic : IsVector([ c \in {b} |-> 1 ])
  BY <1>1 DEF IsVector
<1>3. IsVector([ b \in {} |-> 0 ])
  BY DEF IsVector
<1>4. ASSUME NEW v, NEW w, IsVector(v), IsVector(w)
      PROVE  IsVector(Times(v, w))
  <2>1. DOMAIN Times(v, w) \subseteq DOMAIN v \cup DOMAIN w
    BY DEF Times
  <2>2. ASSUME NEW b \in DOMAIN Times(v, w)
        PROVE  Times(v, w)[b] \in Short
    <3>1. b \in DOMAIN v \cup DOMAIN w
      BY <2>1
    <3>2. Times(v, w)[b] =
            IF b \notin DOMAIN w THEN v[b]
            ELSE IF b \notin DOMAIN v THEN w[b]
            ELSE Narrow(v[b] + w[b])
      BY DEF Times
    <3>3. b \in DOMAIN v => v[b] \in Short
      BY <1>4 DEF IsVector
    <3>4. b \in DOMAIN w => w[b] \in Short
      BY <1>4 DEF IsVector
    <3>5. ASSUME b \in DOMAIN v, b \in DOMAIN w
          PROVE  Narrow(v[b] + w[b]) \in Short
      <4>1. v[b] \in Int /\ w[b] \in Int
        BY <1>1, <3>3, <3>4, <3>5
      <4>2. v[b] + w[b] \in Int
        BY <4>1
      <4> QED
        BY <4>2, NarrowIsShort
    <3> QED
      BY <3>1, <3>2, <3>3, <3>4, <3>5
  <2>3. Times(v, w) = [ b \in DOMAIN Times(v, w) |-> Times(v, w)[b] ]
    BY DEF Times
  <2> QED
    BY <1>4, <2>1, <2>2, <2>3 DEF IsVector
<1>5. ASSUME NEW v, IsVector(v), NEW n \in Int
      PROVE  IsVector(Raised(v, n))
  <2>1. \A b \in DOMAIN v : v[b] \in Int
    BY <1>1, <1>5 DEF IsVector
  <2>2. \A b \in DOMAIN v : Narrow(v[b] * n) \in Short
    BY <2>1, NarrowIsShort
  <2> QED
    BY <1>5, <2>2 DEF IsVector, Raised
<1>6. ASSUME NEW v, IsVector(v), NEW n \in Roots
      PROVE  IsVector(RootOf(v, n))
  <2>1. n \in Int /\ n >= 2
    BY ArgumentAssumption
  <2>2. ASSUME NEW p \in Short
        PROVE  p \div n \in Short
    <3>1. p \in Int /\ -(ShortMax + 1) <= p /\ p <= ShortMax /\ ShortMax \in Nat
      BY ShortAssumption DEF Short
    <3>2. p \div n \in Int /\ n * (p \div n) <= p /\ p < n * (p \div n) + n
      BY <2>1, <3>1, SMTT(30)
    <3>3. p >= 0 => p \div n >= 0 /\ p \div n <= p
      BY <2>1, <3>1, <3>2, SMTT(30)
    <3>4. p < 0 => p \div n < 0 /\ p \div n >= p
      BY <2>1, <3>1, <3>2, SMTT(30)
    <3> QED
      BY <3>1, <3>2, <3>3, <3>4 DEF Short
  <2> QED
    BY <1>6, <2>2 DEF IsVector, RootOf
<1> QED
  BY <1>2, <1>3, <1>4, <1>5, <1>6

-----------------------------------------------------------------------------
(* What the functions say of a unit, by the unit inside.                   *)

LEMMA Equations ==
  ASSUME NEW u \in Unit
  PROVE  /\ SystemOf(u) = SystemFrom(u, SystemOf(u.unit))
         /\ GetProduct(u) = ProductFrom(u, GetProduct(u.unit))
         /\ EnsureConverter(u) = EnsureFrom(u, EnsureConverter(u.unit))
BY RecursionAssumption

LEMMA EnsureFacts ==
  ASSUME NEW u \in Unit
  PROVE  /\ u.type \in {"basic", "product"} => EnsureConverter(u) = TRUE
         /\ u.type \in {"galilean", "log"} => EnsureConverter(u) = EnsureConverter(u.unit)
         /\ u.type = "timestamp" => EnsureConverter(u) = FALSE
<1>1. EnsureConverter(u) = EnsureFrom(u, EnsureConverter(u.unit))
  BY Equations
<1> QED
  BY <1>1 DEF EnsureFrom, Is

LEMMA SystemFacts ==
  /\ \A u \in Unit : SystemOf(u) \in System /\ IsVector(GetProduct(u))
  /\ \A u \in Unit : Wraps(u) => SystemOf(u) = SystemOf(u.unit) /\ GetProduct(u) = GetProduct(u.unit)
  /\ \A u \in Unit : ~Wraps(u) => SystemOf(u) = u.system
<1>1. ASSUME NEW u \in Unit
      PROVE  /\ Wraps(u) => SystemOf(u) = SystemOf(u.unit) /\ GetProduct(u) = GetProduct(u.unit)
             /\ ~Wraps(u) => SystemOf(u) = u.system
  BY Equations DEF SystemFrom, ProductFrom, Wraps, Is
<1> DEFINE S == { u \in Unit : SystemOf(u) \in System /\ IsVector(GetProduct(u)) }
<1>2. ASSUME NEW u \in Unit, Wraps(u) => u.unit \in S
      PROVE  u \in S
  <2>1. CASE Is(u, "basic")
    <3>1. SystemOf(u) = u.system /\ GetProduct(u) = [ c \in {u.index} |-> 1 ]
      BY <2>1, Equations DEF SystemFrom, ProductFrom, Wraps, Is
    <3> QED
      BY <2>1, <3>1, UnitFacts, VectorsClosed
  <2>2. CASE Is(u, "product")
    <3>1. SystemOf(u) = u.system /\ GetProduct(u) = u.vec
      BY <2>2, Equations DEF SystemFrom, ProductFrom, Wraps, Is
    <3> QED
      BY <2>2, <3>1, UnitFacts DEF IsVector
  <2>3. CASE Wraps(u)
    BY <1>1, <1>2, <2>3
  <2> QED
    BY <2>1, <2>2, <2>3, UnitFacts DEF Is, Wraps
<1>3. S = Unit
  <2>1. S \in SUBSET Unit
    OBVIOUS
  <2> HIDE DEF S
  <2> QED
    BY <1>2, <2>1, DepthInduction
<1> QED
  BY <1>1, <1>3

\* The clone of a unit that a client can have is that unit.
Kept(seconds, u) == u \in Unit /\ Clone(seconds, u) = u

\* The second of its system is one that a timestamp can be made of u with.
Dated(seconds, u) ==
  seconds[SystemOf(u)] # NoUnit /\ AreConvertible(seconds[SystemOf(u)], u)

LEMMA KeptIf ==
  ASSUME NEW seconds \in Seconds, NEW u \in Unit
  PROVE  Kept(seconds, u) <=>
           /\ Wraps(u) => Kept(seconds, u.unit)
           /\ Is(u, "timestamp") => Dated(seconds, u.unit)
<1>1. Clone(seconds, u) = CloneFrom(seconds, u, Clone(seconds, ClonedInside(u)))
  BY RecursionAssumption
<1>2. CASE Is(u, "basic") \/ Is(u, "product")
  <2>1. Clone(seconds, u) = u
    BY <1>1, <1>2 DEF CloneFrom, Is
  <2> QED
    BY <1>2, <2>1 DEF Kept, Is, Wraps
<1>3. CASE Is(u, "galilean")
  <2>1. ClonedInside(u) = u.unit
    BY <1>3, UnitFacts DEF ClonedInside, Inside
  <2>2. Clone(seconds, u) = GalileanFrom(u.scale, u.unit, u.offset, Clone(seconds, u.unit))
    BY <1>1, <1>3, <2>1 DEF CloneFrom, Is
  <2>3. Clone(seconds, u) = [type |-> "galilean", scale |-> u.scale,
                             unit |-> Clone(seconds, u.unit), offset |-> u.offset]
    BY <1>3, <2>2, UnitFacts DEF GalileanFrom
  <2>4. Clone(seconds, u) = u <=> Clone(seconds, u.unit) = u.unit
    BY <1>3, <2>3, UnitFacts
  <2> QED
    BY <1>3, <2>4, UnitFacts DEF Kept, Is, Wraps
<1>4. CASE Is(u, "log")
  <2>1. Clone(seconds, u) = LogFrom(u.base, Clone(seconds, u.unit))
    BY <1>1, <1>4 DEF CloneFrom, ClonedInside, Is
  <2>2. Clone(seconds, u) = u <=> Clone(seconds, u.unit) = u.unit
    BY <1>4, <2>1, UnitFacts DEF LogFrom
  <2> QED
    BY <1>4, <2>2, UnitFacts DEF Kept, Is, Wraps
<1>5. CASE Is(u, "timestamp")
  <2>1. Clone(seconds, u) = TimestampFrom(seconds, u.unit, u.origin, Clone(seconds, u.unit)).unit
    BY <1>1, <1>5 DEF CloneFrom, ClonedInside, Is
  <2>2. Clone(seconds, u) =
          IF Dated(seconds, u.unit)
          THEN [type |-> "timestamp", unit |-> Clone(seconds, u.unit), origin |-> u.origin]
          ELSE NoUnit
    BY <2>1 DEF TimestampFrom, Dated, Outcome, Done
  <2>3. Clone(seconds, u) = u <=> Dated(seconds, u.unit) /\ Clone(seconds, u.unit) = u.unit
    BY <1>5, <2>2, UnitFacts
  <2> QED
    BY <1>5, <2>3, UnitFacts DEF Kept, Is, Wraps
<1> QED
  BY <1>2, <1>3, <1>4, <1>5, UnitFacts DEF Is

LEMMA SecondsFacts ==
  ASSUME NEW seconds \in Seconds, NEW s \in System
  PROVE  /\ seconds[s] \in Unit \cup {NoUnit}
         /\ seconds[s] # NoUnit =>
              SystemOf(seconds[s]) = s /\ EnsureConverter(seconds[s])
BY DEF Seconds

\* A unit of a system that has no second has no timestamp inside.
LEMMA PlainWithoutSecond ==
  ASSUME NEW seconds \in Seconds
  PROVE  \A u \in Unit :
           Kept(seconds, u) /\ seconds[SystemOf(u)] = NoUnit => EnsureConverter(u)
<1> DEFINE S == { u \in Unit : Kept(seconds, u) /\ seconds[SystemOf(u)] = NoUnit => EnsureConverter(u) }
<1>1. ASSUME NEW u \in Unit, Wraps(u) => u.unit \in S
      PROVE  u \in S
  <2>1. SUFFICES ASSUME Kept(seconds, u), seconds[SystemOf(u)] = NoUnit
                 PROVE  EnsureConverter(u)
    OBVIOUS
  <2>2. CASE ~Wraps(u)
    BY <2>2, EnsureFacts, UnitFacts DEF Wraps
  <2>3. CASE Wraps(u)
    <3>1. u.unit \in Unit /\ Kept(seconds, u.unit) /\ SystemOf(u) = SystemOf(u.unit)
      BY <2>1, <2>3, KeptIf, UnitFacts, SystemFacts
    <3>2. EnsureConverter(u.unit)
      BY <1>1, <2>1, <2>3, <3>1
    <3>3. ~Is(u, "timestamp")
      BY <2>1, <3>1, KeptIf DEF Dated
    <3> QED
      BY <2>3, <3>2, <3>3, EnsureFacts DEF Wraps, Is
  <2> QED
    BY <2>2, <2>3
<1>2. S \in SUBSET Unit
  OBVIOUS
<1>3. S = Unit
  <2> HIDE DEF S
  <2> QED
    BY <1>1, <1>2, DepthInduction
<1> QED
  BY <1>3

\* The first second of a system changes no clone.
LEMMA FirstSecond ==
  ASSUME NEW seconds \in Seconds, NEW w, Kept(seconds, w), seconds[SystemOf(w)] = NoUnit
  PROVE  LET new == [seconds EXCEPT ![SystemOf(w)] = w]
         IN new \in Seconds /\ \A u \in Unit : Kept(seconds, u) => Kept(new, u)
<1> DEFINE s == SystemOf(w)
           new == [seconds EXCEPT ![s] = w]
<1>1. w \in Unit /\ s \in System /\ EnsureConverter(w)
  BY PlainWithoutSecond, SystemFacts DEF Kept
<1>2. new \in [System -> Unit \cup {NoUnit}] /\ new[s] = w
      /\ \A t \in System : t # s => new[t] = seconds[t]
  BY <1>1 DEF Seconds
<1>3. new \in Seconds
  <2> HIDE DEF new
  <2>1. ASSUME NEW t \in System, new[t] # NoUnit
        PROVE  SystemOf(new[t]) = t /\ EnsureConverter(new[t])
    BY <1>1, <1>2, <2>1, SecondsFacts
  <2> QED
    BY <1>2, <2>1 DEF Seconds
<1> DEFINE S == { u \in Unit : Kept(seconds, u) => Kept(new, u) }
<1>4. ASSUME NEW u \in Unit, Wraps(u) => u.unit \in S
      PROVE  u \in S
  <2> HIDE DEF new
  <2>1. SUFFICES ASSUME Kept(seconds, u)
                 PROVE  Kept(new, u)
    OBVIOUS
  <2>2. Wraps(u) => u.unit \in Unit /\ Kept(new, u.unit)
    BY <1>4, <2>1, KeptIf
  <2>3. ASSUME Is(u, "timestamp")
        PROVE  Dated(new, u.unit)
    <3>1. Wraps(u) /\ Dated(seconds, u.unit)
      BY <2>1, <2>3, KeptIf DEF Is, Wraps
    <3>2. SystemOf(u.unit) \in System
      BY <2>2, <3>1, SystemFacts
    <3>3. new[SystemOf(u.unit)] = seconds[SystemOf(u.unit)]
      BY <1>2, <3>1, <3>2 DEF Dated
    <3> QED
      BY <3>1, <3>3 DEF Dated
  <2> QED
    BY <1>3, <2>2, <2>3, KeptIf
<1>5. S \in SUBSET Unit
  OBVIOUS
<1>6. S = Unit
  <2> HIDE DEF S
  <2> QED
    BY <1>4, <1>5, DepthInduction
<1> QED
  BY <1>3, <1>6

-----------------------------------------------------------------------------
(* What the functions return: a unit that is kept, or NULL and the status  *)
(* of a failure.                                                           *)

Good(seconds, r) ==
  IF r.unit = NoUnit THEN r.status # "UT_SUCCESS"
  ELSE Kept(seconds, r.unit) /\ r.status = "UT_SUCCESS"

LEMMA GoodIf ==
  ASSUME NEW seconds, NEW u
  PROVE  /\ Kept(seconds, u) => Good(seconds, Done(u))
         /\ Good(seconds, Meaningless) /\ Good(seconds, BadArg) /\ Good(seconds, NotSameSystem)
         /\ Done(u).unit = u /\ Done(u).status = "UT_SUCCESS"
<1>1. Kept(seconds, u) => u # NoUnit
  BY UnitAssumption DEF Kept
<1> QED
  BY <1>1 DEF Good, Done, Outcome, Meaningless, BadArg, NotSameSystem

LEMMA ProductKept ==
  ASSUME AllUnits, NEW seconds \in Seconds, NEW s \in System, NEW v, IsVector(v)
  PROVE  /\ ProductUnit(s, v) \in Unit /\ Kept(seconds, ProductUnit(s, v))
         /\ Is(ProductUnit(s, v), "product") /\ ~Wraps(ProductUnit(s, v))
         /\ SystemOf(ProductUnit(s, v)) = s
<1>1. ProductUnit(s, v) \in Unit
  BY Made DEF IsVector
<1>2. Is(ProductUnit(s, v), "product") /\ ~Wraps(ProductUnit(s, v)) /\ ~Is(ProductUnit(s, v), "timestamp")
      /\ ProductUnit(s, v).system = s
  BY DEF ProductUnit, Is, Wraps
<1> QED
  BY <1>1, <1>2, KeptIf, SystemFacts

LEMMA OneKept ==
  ASSUME AllUnits, NEW seconds \in Seconds, NEW s \in System
  PROVE  One(s) \in Unit /\ Kept(seconds, One(s)) /\ Is(One(s), "product")
<1>1. One(s) \in Unit
  BY Made
<1>2. Is(One(s), "product") /\ ~Wraps(One(s)) /\ ~Is(One(s), "timestamp") /\ One(s).system = s
  BY DEF One, Is, Wraps
<1> QED
  BY <1>1, <1>2, KeptIf, SystemFacts

LEMMA BasicKept ==
  ASSUME AllUnits, NEW seconds \in Seconds, NEW s \in System, NEW b \in Basic
  PROVE  BasicUnit(s, b) \in Unit /\ Kept(seconds, BasicUnit(s, b)) /\ SystemOf(BasicUnit(s, b)) = s
<1>1. BasicUnit(s, b) \in Unit
  BY Made
<1>2. ~Wraps(BasicUnit(s, b)) /\ ~Is(BasicUnit(s, b), "timestamp") /\ BasicUnit(s, b).system = s
  BY DEF BasicUnit, Is, Wraps
<1> QED
  BY <1>1, <1>2, KeptIf, SystemFacts

LEMMA AsProductKept ==
  ASSUME AllUnits, NEW seconds \in Seconds, NEW u \in Unit
  PROVE  AsProduct(u) \in Unit /\ Kept(seconds, AsProduct(u)) /\ Is(AsProduct(u), "product")
BY SystemFacts, ProductKept DEF AsProduct

LEMMA GalileanKept ==
  ASSUME AllUnits, NEW seconds \in Seconds, NEW u, Kept(seconds, u), NEW k \in Int, NEW o \in Int
  PROVE  Kept(seconds, GalileanNew(seconds, k, u, o))
<1> DEFINE scale == IF Is(u, "galilean") THEN k + u.scale ELSE k
           offset == IF Is(u, "galilean") THEN o + Scaled(-k, u.offset) ELSE o
           v == Inside(u)
<1>1. u \in Unit
  BY DEF Kept
<1>2. v \in Unit /\ Kept(seconds, v) /\ ~Is(v, "galilean")
  BY <1>1, UnitFacts, KeptIf DEF Inside, Wraps, Is
<1>3. scale \in Int /\ offset \in Int
  <2>1. CASE Is(u, "galilean")
    <3>1. u.scale \in Int /\ u.offset \in Int /\ -k \in Int
      BY <1>1, <2>1, UnitFacts
    <3>2. Scaled(-k, u.offset) \in Int
      BY <3>1, ScaledIsInt
    <3> QED
      BY <2>1, <3>1, <3>2
  <2>2. CASE ~Is(u, "galilean")
    BY <2>2
  <2> QED
    BY <2>1, <2>2
<1>4. GalileanNew(seconds, k, u, o) =
        IF scale = 0 /\ offset = 0 THEN v
        ELSE [type |-> "galilean", scale |-> scale, unit |-> v, offset |-> offset]
  <2>1. Clone(seconds, Inside(u)) = v
    BY <1>2 DEF Kept
  <2> QED
    BY <2>1 DEF GalileanNew, GalileanFrom
<1> HIDE DEF scale, offset, v
<1>5. CASE scale = 0 /\ offset = 0
  BY <1>2, <1>4, <1>5
<1>6. CASE ~(scale = 0 /\ offset = 0)
  <2> DEFINE g == [type |-> "galilean", scale |-> scale, unit |-> v, offset |-> offset]
  <2>1. g \in Unit
    BY <1>2, <1>3, <1>6, Made
  <2>2. g.unit = v /\ ~Is(g, "timestamp")
    BY DEF Is
  <2>3. GalileanNew(seconds, k, u, o) = g
    BY <1>4, <1>6
  <2> HIDE DEF g
  <2> QED
    BY <1>2, <2>1, <2>2, <2>3, KeptIf
<1> QED
  BY <1>5, <1>6

LEMMA LogKept ==
  ASSUME AllUnits, NEW seconds \in Seconds, NEW u, Kept(seconds, u), NEW base \in Int
  PROVE  Kept(seconds, LogNew(seconds, base, u))
<1>1. u \in Unit /\ LogNew(seconds, base, u) = LogFrom(base, u)
  BY DEF Kept, LogNew
<1>2. LogFrom(base, u) \in Unit
  BY <1>1, Made
<1>3. LogFrom(base, u).unit = u /\ ~Is(LogFrom(base, u), "timestamp")
  BY DEF LogFrom, Is
<1> QED
  BY <1>1, <1>2, <1>3, KeptIf

LEMMA TimestampKept ==
  ASSUME AllUnits, NEW seconds \in Seconds, NEW u, Kept(seconds, u), NEW origin \in Int,
         NEW r, r = TimestampNewOrigin(seconds, u, origin)
  PROVE  r.unit # NoUnit => Kept(seconds, r.unit) /\ r.status = "UT_SUCCESS"
<1> DEFINE t == [type |-> "timestamp", unit |-> u, origin |-> origin]
<1>1. u \in Unit /\ Clone(seconds, u) = u
  BY DEF Kept
<1>2. t \in Unit
  BY <1>1, Made
<1>3. t.unit = u
  OBVIOUS
<1>4. Dated(seconds, u) => r = Done(t)
  BY <1>1 DEF TimestampNewOrigin, TimestampFrom, Dated
<1>5. ~Dated(seconds, u) => r.unit = NoUnit
  BY DEF TimestampNewOrigin, TimestampFrom, Dated, Done, Outcome
<1> HIDE DEF t
<1>6. Dated(seconds, u) => Kept(seconds, t)
  BY <1>2, <1>3, KeptIf
<1> QED
  BY <1>4, <1>5, <1>6, GoodIf

LEMMA RescaledGood ==
  ASSUME AllUnits, NEW seconds \in Seconds, NEW k \in Int, NEW made, Good(seconds, made)
  PROVE  Good(seconds, Rescaled(seconds, k, made))
<1>1. CASE made.unit = NoUnit
  BY <1>1 DEF Rescaled
<1>2. CASE made.unit # NoUnit
  <2>1. Kept(seconds, made.unit)
    BY <1>2 DEF Good
  <2>2. Kept(seconds, GalileanNew(seconds, k, made.unit, 0))
    BY <2>1, GalileanKept
  <2> QED
    BY <1>2, <2>2, GoodIf DEF Rescaled
<1> QED
  BY <1>1, <1>2

-----------------------------------------------------------------------------
(* MULTIPLY.                                                               *)

LEMMA MultiplyEquation ==
  ASSUME NEW seconds \in Seconds, NEW u \in Unit, NEW v \in Unit
  PROVE  Multiply(seconds, u, v) =
           MultiplyFrom(seconds, u, v, Multiply(seconds, HandedOn(u, v)[1], HandedOn(u, v)[2]))
BY RecursionAssumption

\* Which units each combination of types hands on.
LEMMA MultiplyCases ==
  ASSUME NEW seconds \in Seconds, NEW u \in Unit, NEW v \in Unit
  PROVE  /\ Is(u, "basic") => Multiply(seconds, u, v) = Multiply(seconds, AsProduct(u), v)
         /\ Is(u, "product") /\ Is(v, "product") =>
              Multiply(seconds, u, v) = Done(ProductMultiply(u, v))
         /\ Is(u, "product") /\ ~Is(v, "product") =>
              Multiply(seconds, u, v) = Multiply(seconds, v, u)
         /\ Is(u, "galilean") /\ Is(v, "product") =>
              Multiply(seconds, u, v) = Rescaled(seconds, u.scale, Multiply(seconds, u.unit, v))
         /\ Is(u, "galilean") /\ Is(v, "galilean") =>
              Multiply(seconds, u, v) =
                Rescaled(seconds, u.scale + v.scale, Multiply(seconds, u.unit, v.unit))
         /\ Is(u, "galilean") /\ ~Is(v, "product") /\ ~Is(v, "galilean") =>
              Multiply(seconds, u, v) = Multiply(seconds, v, u)
         /\ Is(u, "log") => Multiply(seconds, u, v) = LogMultiply(seconds, u, v)
         /\ Is(u, "timestamp") => Multiply(seconds, u, v) = Multiply(seconds, u.unit, v)
<1> DEFINE made == Multiply(seconds, HandedOn(u, v)[1], HandedOn(u, v)[2])
<1>1. Multiply(seconds, u, v) = MultiplyFrom(seconds, u, v, made)
  BY MultiplyEquation
<1>2. CASE Is(u, "basic")
  <2>1. HandedOn(u, v)[1] = AsProduct(u) /\ HandedOn(u, v)[2] = v
    BY <1>2 DEF HandedOn
  <2>2. MultiplyFrom(seconds, u, v, made) = made
    BY <1>2 DEF MultiplyFrom, Is
  <2> QED
    BY <1>1, <1>2, <2>1, <2>2 DEF Is
<1>3. CASE Is(u, "product") /\ Is(v, "product")
  BY <1>1, <1>3 DEF MultiplyFrom, Is
<1>4. CASE Is(u, "product") /\ ~Is(v, "product")
  <2>1. HandedOn(u, v)[1] = v /\ HandedOn(u, v)[2] = u
    BY <1>4 DEF HandedOn, Is
  <2>2. MultiplyFrom(seconds, u, v, made) = made
    BY <1>4 DEF MultiplyFrom, Is
  <2> QED
    BY <1>1, <1>4, <2>1, <2>2 DEF Is
<1>5. CASE Is(u, "galilean")
  <2>1. MultiplyFrom(seconds, u, v, made) = GalileanMultiply(seconds, u, v, made)
    BY <1>5 DEF MultiplyFrom, Is
  <2>2. CASE Is(v, "product")
    <3>1. HandedOn(u, v)[1] = u.unit /\ HandedOn(u, v)[2] = v
      BY <1>5, <2>2 DEF HandedOn, Is
    <3> QED
      BY <1>1, <1>5, <2>1, <2>2, <3>1 DEF GalileanMultiply, Is
  <2>3. CASE Is(v, "galilean")
    <3>1. HandedOn(u, v)[1] = u.unit /\ HandedOn(u, v)[2] = v.unit
      BY <1>5, <2>3 DEF HandedOn, Is
    <3> QED
      BY <1>1, <1>5, <2>1, <2>3, <3>1 DEF GalileanMultiply, Is
  <2>4. CASE ~Is(v, "product") /\ ~Is(v, "galilean")
    <3>1. HandedOn(u, v)[1] = v /\ HandedOn(u, v)[2] = u
      BY <1>5, <2>4 DEF HandedOn, Is
    <3> QED
      BY <1>1, <1>5, <2>1, <2>4, <3>1 DEF GalileanMultiply, Is
  <2> QED
    BY <2>2, <2>3, <2>4
<1>6. CASE Is(u, "log")
  BY <1>1, <1>6 DEF MultiplyFrom, Is
<1>7. CASE Is(u, "timestamp")
  <2>1. HandedOn(u, v)[1] = u.unit /\ HandedOn(u, v)[2] = v
    BY <1>7 DEF HandedOn, Is
  <2>2. MultiplyFrom(seconds, u, v, made) = made
    BY <1>7 DEF MultiplyFrom, Is
  <2> QED
    BY <1>1, <1>7, <2>1, <2>2 DEF Is
<1> QED
  BY <1>2, <1>3, <1>4, <1>5, <1>6, <1>7, UnitFacts DEF Is

LEMMA LogMultiplyGood ==
  ASSUME AllUnits, NEW seconds \in Seconds, NEW u, NEW v, Kept(seconds, u), Kept(seconds, v)
  PROVE  Good(seconds, LogMultiply(seconds, u, v))
<1>1. Clone(seconds, u) = u
  BY DEF Kept
<1>2. ASSUME Is(v, "galilean")
      PROVE  Kept(seconds, GalileanNew(seconds, v.scale, u, 0))
  <2>1. v.scale \in Int
    BY <1>2, UnitFacts DEF Kept
  <2> QED
    BY <2>1, GalileanKept
<1> QED
  BY <1>1, <1>2, GoodIf DEF LogMultiply

\* With a product-unit: by induction over the units inside the other.
LEMMA MultiplyProductGood ==
  ASSUME AllUnits, NEW seconds \in Seconds, NEW w, Kept(seconds, w), Is(w, "product")
  PROVE  \A u \in Unit : Kept(seconds, u) =>
           Good(seconds, Multiply(seconds, u, w)) /\ Good(seconds, Multiply(seconds, w, u))
<1>1. w \in Unit /\ w.system \in System /\ IsVector(w.vec)
  BY UnitFacts DEF Kept, IsVector
<1>2. ASSUME NEW u \in Unit, Is(u, "product")
      PROVE  Good(seconds, Multiply(seconds, u, w)) /\ Good(seconds, Multiply(seconds, w, u))
  <2>1. u.system \in System /\ IsVector(u.vec)
    BY <1>2, UnitFacts DEF IsVector
  <2>2. IsVector(Times(u.vec, w.vec)) /\ IsVector(Times(w.vec, u.vec))
    BY <1>1, <2>1, VectorsClosed
  <2>3. /\ Multiply(seconds, u, w) = Done(ProductMultiply(u, w))
        /\ Multiply(seconds, w, u) = Done(ProductMultiply(w, u))
    BY <1>1, <1>2, MultiplyCases
  <2>4. Kept(seconds, ProductMultiply(u, w)) /\ Kept(seconds, ProductMultiply(w, u))
    BY <1>1, <2>1, <2>2, ProductKept, OneKept DEF ProductMultiply
  <2> QED
    BY <2>3, <2>4, GoodIf
<1> DEFINE S == { u \in Unit : Kept(seconds, u) => Good(seconds, Multiply(seconds, u, w)) }
<1>3. ASSUME NEW u \in Unit, Wraps(u) => u.unit \in S
      PROVE  u \in S
  <2>1. SUFFICES ASSUME Kept(seconds, u)
                 PROVE  Good(seconds, Multiply(seconds, u, w))
    OBVIOUS
  <2>2. CASE Is(u, "basic")
    BY <1>1, <1>2, <2>2, AsProductKept, MultiplyCases
  <2>3. CASE Is(u, "product")
    BY <1>2, <2>3
  <2>4. CASE Is(u, "galilean")
    <3>1. Good(seconds, Multiply(seconds, u.unit, w)) /\ u.scale \in Int
      BY <1>3, <2>1, <2>4, KeptIf, UnitFacts DEF Is, Wraps
    <3> QED
      BY <1>1, <2>4, <3>1, RescaledGood, MultiplyCases
  <2>5. CASE Is(u, "log")
    BY <1>1, <2>1, <2>5, LogMultiplyGood, MultiplyCases
  <2>6. CASE Is(u, "timestamp")
    <3>1. Good(seconds, Multiply(seconds, u.unit, w))
      BY <1>3, <2>1, <2>6, KeptIf DEF Is, Wraps
    <3> QED
      BY <1>1, <2>6, <3>1, MultiplyCases
  <2> QED
    BY <2>2, <2>3, <2>4, <2>5, <2>6, UnitFacts DEF Is
<1>4. S \in SUBSET Unit
  OBVIOUS
<1>5. S = Unit
  <2> HIDE DEF S
  <2> QED
    BY <1>3, <1>4, DepthInduction
<1>6. ASSUME NEW u \in Unit, Kept(seconds, u)
      PROVE  Good(seconds, Multiply(seconds, u, w)) /\ Good(seconds, Multiply(seconds, w, u))
  <2>1. Good(seconds, Multiply(seconds, u, w))
    BY <1>5, <1>6
  <2>2. ~Is(u, "product") => Multiply(seconds, w, u) = Multiply(seconds, u, w)
    BY <1>1, MultiplyCases
  <2> QED
    BY <1>2, <2>1, <2>2
<1> QED
  BY <1>6

\* With any unit that is not a galilean-unit or a timestamp first.
LEMMA MultiplyPlainGood ==
  ASSUME AllUnits, NEW seconds \in Seconds, NEW u, NEW v, Kept(seconds, u), Kept(seconds, v),
         u.type \in {"basic", "product", "log"}
  PROVE  Good(seconds, Multiply(seconds, u, v))
<1>1. u \in Unit /\ v \in Unit
  BY DEF Kept
<1>2. CASE Is(u, "basic")
  BY <1>1, <1>2, AsProductKept, MultiplyCases, MultiplyProductGood
<1>3. CASE Is(u, "product")
  BY <1>1, <1>3, MultiplyProductGood
<1>4. CASE Is(u, "log")
  BY <1>1, <1>4, LogMultiplyGood, MultiplyCases
<1> QED
  BY <1>2, <1>3, <1>4 DEF Is

LEMMA MultiplyGood ==
  ASSUME AllUnits, NEW seconds \in Seconds
  PROVE  \A u, v \in Unit :
           Kept(seconds, u) /\ Kept(seconds, v) => Good(seconds, Multiply(seconds, u, v))
<1> DEFINE S == { p \in Unit \X Unit :
                   Kept(seconds, p[1]) /\ Kept(seconds, p[2]) =>
                   Good(seconds, Multiply(seconds, p[1], p[2])) }
<1>1. ASSUME NEW u \in Unit, NEW v \in Unit,
             \A p \in Unit \X Unit : Depth(p[1]) + Depth(p[2]) < Depth(u) + Depth(v) => p \in S
      PROVE  <<u, v>> \in S
  <2>1. SUFFICES ASSUME Kept(seconds, u), Kept(seconds, v)
                 PROVE  Good(seconds, Multiply(seconds, u, v))
    BY Zenon
  <2>2. ASSUME NEW a \in Unit, NEW b \in Unit, Kept(seconds, a), Kept(seconds, b),
               Depth(a) + Depth(b) < Depth(u) + Depth(v)
        PROVE  Good(seconds, Multiply(seconds, a, b))
    <3>1. <<a, b>> \in Unit \X Unit /\ <<a, b>>[1] = a /\ <<a, b>>[2] = b
      OBVIOUS
    <3>2. <<a, b>> \in S
      <4> HIDE DEF S
      <4> QED
        BY <1>1, <2>2, <3>1
    <3> QED
      BY <2>2, <3>1, <3>2
  <2> HIDE DEF S
  <2>3. CASE u.type \in {"basic", "product", "log"}
    BY <2>1, <2>3, MultiplyPlainGood
  <2>4. CASE Is(u, "timestamp")
    <3>1. /\ u.unit \in Unit /\ Kept(seconds, u.unit)
          /\ Depth(u.unit) + Depth(v) < Depth(u) + Depth(v)
      BY <2>1, <2>4, UnitFacts, KeptIf, DepthFacts DEF Is, Wraps
    <3> QED
      BY <2>1, <2>2, <2>4, <3>1, MultiplyCases
  <2>5. CASE Is(u, "galilean")
    <3>1. u.unit \in Unit /\ Kept(seconds, u.unit) /\ u.scale \in Int
      BY <2>1, <2>5, UnitFacts, KeptIf DEF Is, Wraps
    <3>2. CASE Is(v, "product")
      BY <2>1, <3>2, MultiplyProductGood
    <3>3. CASE v.type \in {"basic", "log"}
      <4>1. Multiply(seconds, u, v) = Multiply(seconds, v, u)
        BY <2>5, <3>3, MultiplyCases DEF Is
      <4> QED
        BY <2>1, <3>3, <4>1, MultiplyPlainGood
    <3>4. CASE Is(v, "galilean")
      <4>1. /\ v.unit \in Unit /\ Kept(seconds, v.unit) /\ v.scale \in Int
            /\ Depth(u.unit) + Depth(v.unit) < Depth(u) + Depth(v)
        BY <2>1, <2>5, <3>4, UnitFacts, KeptIf, DepthFacts DEF Is, Wraps
      <4>2. Good(seconds, Multiply(seconds, u.unit, v.unit)) /\ u.scale + v.scale \in Int
        BY <2>2, <3>1, <4>1
      <4> QED
        BY <2>5, <3>4, <4>2, RescaledGood, MultiplyCases
    <3>5. CASE Is(v, "timestamp")
      <4>1. /\ v.unit \in Unit /\ Kept(seconds, v.unit)
            /\ Depth(v.unit) + Depth(u) < Depth(u) + Depth(v)
        BY <2>1, <3>5, UnitFacts, KeptIf, DepthFacts DEF Is, Wraps
      <4>2. Multiply(seconds, u, v) = Multiply(seconds, v.unit, u)
        BY <2>5, <3>5, MultiplyCases DEF Is
      <4> QED
        BY <2>1, <2>2, <4>1, <4>2
    <3> QED
      BY <3>2, <3>3, <3>4, <3>5, UnitFacts DEF Is
  <2> QED
    BY <2>3, <2>4, <2>5, UnitFacts DEF Is
<1>2. S \in SUBSET (Unit \X Unit)
  OBVIOUS
<1>3. S = Unit \X Unit
  <2> HIDE DEF S
  <2> QED
    BY <1>1, <1>2, PairInduction
<1>4. ASSUME NEW u \in Unit, NEW v \in Unit, Kept(seconds, u), Kept(seconds, v)
      PROVE  Good(seconds, Multiply(seconds, u, v))
  <2>1. <<u, v>> \in S
    BY <1>3
  <2> QED
    BY <1>4, <2>1
<1> QED
  BY <1>4

-----------------------------------------------------------------------------
(* RAISE and ROOT.                                                         *)

LEMMA RaiseGood ==
  ASSUME AllUnits, NEW seconds \in Seconds, NEW n \in -255 .. 255
  PROVE  \A u \in Unit : Kept(seconds, u) => Good(seconds, Raise(seconds, u, n))
<1>1. ASSUME NEW w \in Unit, Is(w, "product")
      PROVE  Good(seconds, ProductRaise(w, n))
  <2>1. w.system \in System /\ IsVector(w.vec)
    BY <1>1, UnitFacts DEF IsVector
  <2>2. n \in Int
    OBVIOUS
  <2>3. IsVector(Raised(w.vec, n))
    BY <2>1, <2>2, VectorsClosed
  <2> QED
    BY <2>1, <2>3, ProductKept, OneKept, GoodIf DEF ProductRaise, OneOr
<1> DEFINE S == { u \in Unit : Kept(seconds, u) => Good(seconds, Raise(seconds, u, n)) }
<1>2. ASSUME NEW u \in Unit, Wraps(u) => u.unit \in S
      PROVE  u \in S
  <2>1. SUFFICES ASSUME Kept(seconds, u)
                 PROVE  Good(seconds, Raise(seconds, u, n))
    OBVIOUS
  <2> DEFINE made == Raise(seconds, u.unit, n)
  <2>2. Raise(seconds, u, n) = RaiseFrom(seconds, u, n, made)
    BY RecursionAssumption
  <2>3. Wraps(u) => Good(seconds, made)
    BY <1>2, <2>1, KeptIf
  <2> HIDE DEF made, S
  <2>4. CASE Is(u, "basic")
    <3>1. RaiseFrom(seconds, u, n, made) = ProductRaise(AsProduct(u), n)
      BY <2>4 DEF RaiseFrom, Is
    <3> QED
      BY <1>1, <2>2, <3>1, AsProductKept
  <2>5. CASE Is(u, "product")
    BY <1>1, <2>2, <2>5 DEF RaiseFrom, Is
  <2>6. CASE Is(u, "galilean")
    <3>1. RaiseFrom(seconds, u, n, made) = Rescaled(seconds, u.scale * n, made)
      BY <2>6 DEF RaiseFrom, Is
    <3>2. u.scale \in Int
      BY <2>6, UnitFacts
    <3>3. u.scale * n \in Int
      BY <3>2
    <3> QED
      BY <2>2, <2>3, <2>6, <3>1, <3>3, RescaledGood DEF Is, Wraps
  <2>7. CASE Is(u, "log")
    BY <2>2, <2>7, GoodIf DEF RaiseFrom, Is
  <2>8. CASE Is(u, "timestamp")
    BY <2>2, <2>3, <2>8 DEF RaiseFrom, Is, Wraps
  <2> QED
    BY <2>4, <2>5, <2>6, <2>7, <2>8, UnitFacts DEF Is
<1>3. S \in SUBSET Unit
  OBVIOUS
<1>4. S = Unit
  <2> HIDE DEF S
  <2> QED
    BY <1>2, <1>3, DepthInduction
<1> QED
  BY <1>4

LEMMA RootGood ==
  ASSUME AllUnits, NEW seconds \in Seconds, NEW n \in Roots
  PROVE  \A u \in Unit :
           Kept(seconds, u) /\ ExactRoot(u, n) => Good(seconds, Root(seconds, u, n))
<1>1. ASSUME NEW w \in Unit, Is(w, "product")
      PROVE  Good(seconds, ProductRoot(w, n))
  <2>1. w.system \in System /\ IsVector(w.vec)
    BY <1>1, UnitFacts DEF IsVector
  <2>2. IsVector(RootOf(w.vec, n))
    BY <2>1, VectorsClosed
  <2> QED
    BY <2>1, <2>2, ProductKept, OneKept, GoodIf DEF ProductRoot, OneOr
<1> DEFINE S == { u \in Unit : Kept(seconds, u) /\ ExactRoot(u, n) => Good(seconds, Root(seconds, u, n)) }
<1>2. ASSUME NEW u \in Unit, Wraps(u) => u.unit \in S
      PROVE  u \in S
  <2>1. SUFFICES ASSUME Kept(seconds, u), ExactRoot(u, n)
                 PROVE  Good(seconds, Root(seconds, u, n))
    OBVIOUS
  <2> DEFINE made == Root(seconds, u.unit, n)
  <2>2. Root(seconds, u, n) = RootFrom(seconds, u, n, made)
    BY <2>1, RecursionAssumption
  <2>3. ExactRoot(u, n) = ExactRootFrom(u, n, ExactRoot(u.unit, n))
    BY RecursionAssumption
  <2>4. Is(u, "galilean") \/ Is(u, "timestamp") => ExactRoot(u.unit, n)
    BY <2>1, <2>3 DEF ExactRootFrom, Is
  <2>5. Is(u, "galilean") \/ Is(u, "timestamp") => Good(seconds, made)
    BY <1>2, <2>1, <2>4, KeptIf DEF Is, Wraps
  <2> HIDE DEF made, S
  <2>6. CASE Is(u, "basic")
    <3>1. RootFrom(seconds, u, n, made) = ProductRoot(AsProduct(u), n)
      BY <2>6 DEF RootFrom, Is
    <3> QED
      BY <1>1, <2>2, <3>1, AsProductKept
  <2>7. CASE Is(u, "product")
    BY <1>1, <2>2, <2>7 DEF RootFrom, Is
  <2>8. CASE Is(u, "galilean")
    <3>1. RootFrom(seconds, u, n, made) = Rescaled(seconds, u.scale \div n, made)
      BY <2>8 DEF RootFrom, Is
    <3>2. u.scale \in Int /\ n \in Nat \ {0}
      BY <2>8, UnitFacts, ArgumentAssumption
    <3>3. u.scale \div n \in Int
      BY <3>2
    <3> QED
      BY <2>2, <2>5, <2>8, <3>1, <3>3, RescaledGood
  <2>9. CASE Is(u, "log")
    BY <2>2, <2>9, GoodIf DEF RootFrom, Is
  <2>10. CASE Is(u, "timestamp")
    BY <2>2, <2>5, <2>10 DEF RootFrom, Is
  <2> QED
    BY <2>6, <2>7, <2>8, <2>9, <2>10, UnitFacts DEF Is
<1>3. S \in SUBSET Unit
  OBVIOUS
<1>4. S = Unit
  <2> HIDE DEF S
  <2> QED
    BY <1>2, <1>3, DepthInduction
<1> QED
  BY <1>4

-----------------------------------------------------------------------------
(* The client's functions.                                                 *)

\* What the client's variable can hold.
Possible(seconds, u) == u = NoUnit \/ Kept(seconds, u)

\* If there is a unit, it is kept and the function has succeeded.
Sound(seconds, r) ==
  r.unit # NoUnit => Kept(seconds, r.unit) /\ r.status = "UT_SUCCESS"

LEMMA ScaleGood ==
  ASSUME AllUnits, NEW seconds \in Seconds, NEW u, Possible(seconds, u), NEW k \in Factors
  PROVE  Good(seconds, ScaleOutcome(seconds, k, u))
<1>1. u # NoUnit /\ k # Zero => k \in Int /\ Kept(seconds, u) /\ Clone(seconds, u) = u
  BY CallAssumption DEF Possible, Kept
<1>2. u # NoUnit /\ k # Zero => Kept(seconds, GalileanNew(seconds, k, u, 0))
  BY <1>1, GalileanKept
<1> QED
  BY <1>1, <1>2, GoodIf DEF ScaleOutcome

LEMMA OffsetGood ==
  ASSUME AllUnits, NEW seconds \in Seconds, NEW u, Possible(seconds, u), NEW o \in Offsets
  PROVE  Good(seconds, OffsetOutcome(seconds, u, o))
<1>1. u # NoUnit => o \in Int /\ Kept(seconds, u) /\ Clone(seconds, u) = u
  BY CallAssumption DEF Possible, Kept
<1>2. u # NoUnit => Kept(seconds, GalileanNew(seconds, 0, u, o))
  BY <1>1, GalileanKept
<1> QED
  BY <1>1, <1>2, GoodIf DEF OffsetOutcome

\* What UnitParser_proofs takes for granted of ut_offset_by_time().
LEMMA OffsetsByTimeAreTimes ==
  ASSUME NEW seconds, NEW u, NEW origin
  PROVE  LET shifted == OffsetByTimeOutcome(seconds, u, origin).unit
         IN shifted # NoUnit => shifted.type = "timestamp"
BY DEF OffsetByTimeOutcome, BadArg, TimestampNewOrigin, TimestampFrom, Done, Outcome

LEMMA OffsetByTimeSound ==
  ASSUME AllUnits, NEW seconds \in Seconds, NEW u, Possible(seconds, u), NEW origin \in Origins
  PROVE  Sound(seconds, OffsetByTimeOutcome(seconds, u, origin))
<1>1. origin \in Int
  BY CallAssumption
<1>2. CASE u = NoUnit
  BY <1>2 DEF OffsetByTimeOutcome, Sound, BadArg, Outcome
<1>3. CASE u # NoUnit
  BY <1>1, <1>3, TimestampKept DEF OffsetByTimeOutcome, Sound, Possible
<1> QED
  BY <1>2, <1>3

LEMMA MultiplyOutcomeGood ==
  ASSUME AllUnits, NEW seconds \in Seconds, NEW u, NEW v, Possible(seconds, u), Possible(seconds, v)
  PROVE  Good(seconds, MultiplyOutcome(seconds, u, v))
<1>1. u # NoUnit /\ v # NoUnit => Good(seconds, Multiply(seconds, u, v))
  BY MultiplyGood DEF Possible, Kept
<1> QED
  BY <1>1, GoodIf DEF MultiplyOutcome

LEMMA DivideSound ==
  ASSUME AllUnits, NEW seconds \in Seconds, NEW u, NEW v, Possible(seconds, u), Possible(seconds, v)
  PROVE  Sound(seconds, DivideOutcome(seconds, u, v))
<1>1. CASE u = NoUnit \/ v = NoUnit
  BY <1>1 DEF DivideOutcome, Sound, BadArg, Outcome
<1>2. CASE u # NoUnit /\ v # NoUnit
  <2> DEFINE inverse == Raise(seconds, v, -1)
             product == Multiply(seconds, u, inverse.unit)
  <2>1. Kept(seconds, u) /\ Kept(seconds, v) /\ u \in Unit /\ v \in Unit
    BY <1>2 DEF Possible, Kept
  <2>2. Good(seconds, inverse)
    BY <2>1, RaiseGood
  <2> HIDE DEF inverse
  <2>3. inverse.unit # NoUnit => Kept(seconds, inverse.unit) /\ inverse.unit \in Unit
    BY <2>2 DEF Good, Kept
  <2>4. inverse.unit # NoUnit => Good(seconds, product)
    BY <2>1, <2>3, MultiplyGood
  <2>5. Quotient(seconds, u, v) = IF inverse.unit = NoUnit THEN inverse ELSE Done(product.unit)
    BY DEF Quotient, inverse
  <2> HIDE DEF product
  <2>6. Sound(seconds, Quotient(seconds, u, v))
    BY <2>4, <2>5, GoodIf DEF Good, Sound
  <2> QED
    BY <1>2, <2>6 DEF DivideOutcome, Sound, NotSameSystem, Outcome
<1> QED
  BY <1>1, <1>2

LEMMA RaiseOutcomeGood ==
  ASSUME AllUnits, NEW seconds \in Seconds, NEW u, Possible(seconds, u),
         NEW n \in Powers \cup {0, 1, 256}
  PROVE  Good(seconds, RaiseOutcome(seconds, u, n))
<1>1. CASE u = NoUnit \/ n \notin -255 .. 255
  BY <1>1, GoodIf DEF RaiseOutcome
<1>2. CASE u # NoUnit /\ n \in -255 .. 255
  <2>1. u \in Unit /\ Kept(seconds, u) /\ Clone(seconds, u) = u
    BY <1>2 DEF Possible, Kept
  <2>2. Kept(seconds, One(SystemOf(u)))
    BY <2>1, SystemFacts, OneKept
  <2>3. Good(seconds, Raise(seconds, u, n))
    BY <1>2, <2>1, RaiseGood
  <2> QED
    BY <1>2, <2>1, <2>2, <2>3, GoodIf DEF RaiseOutcome
<1> QED
  BY <1>1, <1>2

LEMMA LogGood ==
  ASSUME AllUnits, NEW seconds \in Seconds, NEW u, Possible(seconds, u), NEW base \in Bases
  PROVE  Good(seconds, LogOutcome(seconds, base, u))
<1>1. base \in Int
  BY CallAssumption
<1>2. u # NoUnit => Kept(seconds, LogNew(seconds, base, u))
  BY <1>1, LogKept DEF Possible
<1> QED
  BY <1>2, GoodIf DEF LogOutcome

-----------------------------------------------------------------------------
(* The invariant.                                                          *)

\* The registers and the seconds hold units, and each is its own clone.
Clones ==
  /\ register \in [Registers -> Unit \cup {NoUnit}]
  /\ \A r \in Registers : Possible(second, register[r])
  /\ second \in Seconds
  /\ \A s \in System : Possible(second, second[s])

IInv == Clones /\ StatusTellsFailure

\* The functions that leave UT_SUCCESS with a NULL.
Silent == {"none", "ut_free", "ut_offset_by_time", "ut_divide", "ut_get_converter"}

LEMMA ReturnKeeps ==
  ASSUME IInv, NEW f, NEW d \in Registers, NEW r, Return(f, d, r),
         Good(second, r) \/ (Sound(second, r) /\ f \in Silent)
  PROVE  IInv'
<1>1. Sound(second, r) /\ (r.unit = NoUnit => r.status # "UT_SUCCESS" \/ f \in Silent)
  BY DEF Good, Sound
<1>2. Possible(second, r.unit) /\ r.unit \in Unit \cup {NoUnit}
  BY <1>1 DEF Sound, Possible, Kept
<1>3. Clones'
  <2>1. register' = [register EXCEPT ![d] = r.unit] /\ second' = second
    BY DEF Return
  <2>2. register \in [Registers -> Unit \cup {NoUnit}]
    BY DEF IInv, Clones
  <2>3. register' \in [Registers -> Unit \cup {NoUnit}]
    BY <1>2, <2>1, <2>2
  <2>4. \A q \in Registers : register'[q] = IF q = d THEN r.unit ELSE register[q]
    BY <2>1, <2>2
  <2>5. \A q \in Registers : Possible(second, register'[q])
    BY <1>2, <2>4 DEF IInv, Clones
  <2> QED
    BY <2>1, <2>3, <2>5 DEF IInv, Clones
<1>4. StatusTellsFailure'
  <2>1. /\ status' = r.status
        /\ last'.function = f
        /\ last'.result = IF r.unit = NoUnit THEN "NULL" ELSE "unit"
    BY DEF Return
  <2> QED
    BY <1>1, <2>1 DEF StatusTellsFailure, Silent, Sound
<1> QED
  BY <1>3, <1>4 DEF IInv

LEMMA AnswerKeeps ==
  ASSUME NEW f, NEW v, NEW s, Answer(f, v, s),
         v # "unit", v = "CONVERTER" => s = "UT_SUCCESS",
         v = "NULL" => s # "UT_SUCCESS" \/ f \in Silent
  PROVE  StatusTellsFailure'
BY DEF Answer, StatusTellsFailure, Silent

LEMMA SetSecondKeeps ==
  ASSUME IInv, NEW x \in Registers, UtSetSecond(x)
  PROVE  IInv'
<1>1. StatusTellsFailure' /\ UNCHANGED register
  <2>1. PICK s : Answer("ut_set_second", "void", s)
    BY DEF UtSetSecond
  <2> QED
    BY <2>1, AnswerKeeps DEF Answer
<1>2. CASE UNCHANGED second
  BY <1>1, <1>2 DEF IInv, Clones
<1>3. CASE ~UNCHANGED second
  <2> DEFINE u == register[x]
             s == SystemOf(u)
  <2>1. u # NoUnit /\ second[s] = NoUnit /\ second' = [second EXCEPT ![s] = Clone(second, u)]
    BY <1>3 DEF UtSetSecond
  <2>2. Kept(second, u) /\ second \in Seconds
    BY <2>1 DEF IInv, Clones, Possible
  <2>3. second' = [second EXCEPT ![s] = u]
    BY <2>1, <2>2 DEF Kept
  <2>4. second' \in Seconds /\ \A w \in Unit : Kept(second, w) => Kept(second', w)
    <3> HIDE DEF u
    <3> QED
      BY <2>1, <2>2, <2>3, FirstSecond
  <2>5. s \in System
    BY <2>2, SystemFacts DEF Kept
  <2> HIDE DEF u
  <2>6. \A w : Possible(second, w) => Possible(second', w)
    BY <2>4 DEF Possible, Kept
  <2>7. \A t \in System : second'[t] = IF t = s THEN u ELSE second[t]
    BY <2>2, <2>3, <2>5 DEF Seconds
  <2>8. \A t \in System : Possible(second', second'[t])
    BY <2>2, <2>6, <2>7 DEF IInv, Clones, Possible
  <2> QED
    BY <1>1, <2>4, <2>6, <2>8 DEF IInv, Clones
<1> QED
  BY <1>2, <1>3

\* A converter comes with the status of success.
LEMMA ConverterStatus ==
  ASSUME NEW seconds \in Seconds, NEW u, NEW v, Kept(seconds, u), Kept(seconds, v),
         GetConverter(seconds, u, v).kind = "CONVERTER"
  PROVE  GetConverter(seconds, u, v).status = "UT_SUCCESS"
<1>1. u \in Unit /\ v \in Unit
  BY DEF Kept
<1>2. \A w \in {u, v} : Is(w, "timestamp") => seconds[SystemOf(w)] # NoUnit
  <2>1. ASSUME NEW w, Kept(seconds, w), Is(w, "timestamp")
        PROVE  seconds[SystemOf(w)] # NoUnit
    <3>1. w \in Unit /\ Wraps(w)
      BY <2>1 DEF Kept, Is, Wraps
    <3>2. Dated(seconds, w.unit)
      BY <2>1, <3>1, KeptIf
    <3> QED
      BY <3>1, <3>2, SystemFacts DEF Dated
  <2> QED
    BY <2>1
<1> DEFINE to == GetConverter(seconds, u.unit, seconds[SystemOf(u)])
           back == GetConverter(seconds, seconds[SystemOf(v)], v.unit)
<1>3. GetConverter(seconds, u, v) = GetConverterFrom(u, v, to, back)
  BY <1>1, <1>2, RecursionAssumption
<1> HIDE DEF to, back
<1> QED
  BY <1>3 DEF GetConverterFrom, GetPlainConverter, Converter, Conversion

LEMMA GetConverterKeeps ==
  ASSUME IInv, NEW x \in Registers, NEW y \in Registers, UtGetConverter(x, y)
  PROVE  IInv'
<1> DEFINE c == GetConverter(second, register[x], register[y])
<1>1. UNCHANGED <<register, second>>
  BY DEF UtGetConverter, Answer, Convert
<1>2. ASSUME NEW v, NEW s, Answer("ut_get_converter", v, s), v # "unit",
             v = "CONVERTER" => s = "UT_SUCCESS"
      PROVE  StatusTellsFailure'
  BY <1>2, AnswerKeeps DEF Silent
<1>3. ASSUME register[x] # NoUnit, register[y] # NoUnit, Convert(c)
      PROVE  StatusTellsFailure'
  <2>1. Kept(second, register[x]) /\ Kept(second, register[y]) /\ second \in Seconds
    BY <1>3 DEF IInv, Clones, Possible
  <2>2. c.kind = "CONVERTER" => c.status = "UT_SUCCESS"
    BY <2>1, ConverterStatus
  <2> HIDE DEF c
  <2>3. CASE c.kind \in {"CONVERTER", "NULL"} /\ Answer("ut_get_converter", c.kind, c.status)
    BY <1>2, <2>2, <2>3
  <2>4. CASE UNCHANGED <<register, status, last>>
    BY <2>4 DEF IInv, StatusTellsFailure
  <2>5. CASE \/ Answer("ut_get_converter", "CONVERTER", "UT_SUCCESS")
             \/ Answer("ut_get_converter", "NULL", "UT_OS")
    BY <1>2, <2>5
  <2> QED
    BY <1>3, <2>3, <2>4, <2>5 DEF Convert
<1>4. StatusTellsFailure'
  BY <1>2, <1>3 DEF UtGetConverter
<1> QED
  BY <1>1, <1>4 DEF IInv, Clones

LEMMA InitHolds ==
  ASSUME AllUnits, Init
  PROVE  IInv
<1>1. second \in Seconds
  BY DEF Init, Seconds
<1> QED
  BY <1>1 DEF Init, IInv, Clones, Possible, StatusTellsFailure, None

LEMMA StepKeeps ==
  ASSUME AllUnits, IInv, Next
  PROVE  IInv'
<1>1. second \in Seconds /\ \A r \in Registers : Possible(second, register[r])
  BY DEF IInv, Clones
<1>2. ASSUME NEW s \in System, NEW d \in Registers, GetOne(s, d)
      PROVE  IInv'
  <2>1. Good(second, Done(One(s)))
    BY <1>1, OneKept, GoodIf
  <2> QED
    BY <1>2, <2>1, ReturnKeeps DEF GetOne
<1>3. ASSUME NEW s \in Furnished, NEW b \in Basic, NEW d \in Registers, GetBasic(s, b, d)
      PROVE  IInv'
  <2>1. s \in System
    BY CallAssumption
  <2>2. Good(second, Done(BasicUnit(s, b)))
    BY <1>1, <2>1, BasicKept, GoodIf
  <2> QED
    BY <1>3, <2>2, ReturnKeeps DEF GetBasic
<1>4. ASSUME NEW x \in Registers, NEW d \in Registers, NEW k \in Factors, UtScale(k, x, d)
      PROVE  IInv'
  BY <1>1, <1>4, ScaleGood, ReturnKeeps DEF UtScale
<1>5. ASSUME NEW x \in Registers, NEW d \in Registers, NEW o \in Offsets, UtOffset(x, o, d)
      PROVE  IInv'
  BY <1>1, <1>5, OffsetGood, ReturnKeeps DEF UtOffset
<1>6. ASSUME NEW x \in Registers, NEW d \in Registers, NEW t \in Origins, UtOffsetByTime(x, t, d)
      PROVE  IInv'
  BY <1>1, <1>6, OffsetByTimeSound, ReturnKeeps DEF UtOffsetByTime, Silent
<1>7. ASSUME NEW x \in Registers, NEW d \in Registers, NEW n \in Powers \cup {0, 1, 256}, UtRaise(x, n, d)
      PROVE  IInv'
  <2>1. Good(second, RaiseOutcome(second, register[x], n))
    BY <1>1, RaiseOutcomeGood
  <2> QED
    BY <1>7, <2>1, ReturnKeeps DEF UtRaise
<1>8. ASSUME NEW x \in Registers, NEW d \in Registers, NEW n \in Roots \cup {0, 1}, UtRoot(x, n, d)
      PROVE  IInv'
  <2> DEFINE r == IF register[x] = NoUnit \/ n \notin 1 .. 255 THEN BadArg
                  ELSE IF n = 1 THEN Done(Clone(second, register[x]))
                  ELSE Root(second, register[x], n)
  <2>1. Good(second, r)
    <3>1. CASE register[x] = NoUnit \/ n \notin 1 .. 255
      BY <3>1, GoodIf
    <3>2. CASE register[x] # NoUnit /\ n \in 1 .. 255
      <4>1. /\ Kept(second, register[x]) /\ register[x] \in Unit
            /\ Clone(second, register[x]) = register[x]
        BY <1>1, <3>2 DEF Possible, Kept
      <4>2. CASE n = 1
        BY <3>2, <4>1, <4>2, GoodIf
      <4>3. CASE n # 1
        <5>1. n \in Roots /\ n > 1
          BY <3>2, <4>3
        <5>2. ExactRoot(register[x], n)
          BY <1>8, <3>2, <5>1 DEF UtRoot
        <5> QED
          BY <1>1, <3>2, <4>1, <4>3, <5>1, <5>2, RootGood
      <4> QED
        BY <4>2, <4>3
    <3> QED
      BY <3>1, <3>2
  <2>2. Return("ut_root", d, r)
    BY <1>8 DEF UtRoot
  <2> HIDE DEF r
  <2> QED
    BY <2>1, <2>2, ReturnKeeps
<1>9. ASSUME NEW x \in Registers, NEW d \in Registers, NEW base \in Bases, UtLog(base, x, d)
      PROVE  IInv'
  BY <1>1, <1>9, LogGood, ReturnKeeps DEF UtLog
<1>10. ASSUME NEW x \in Registers, NEW d \in Registers, UtClone(x, d)
       PROVE  IInv'
  <2> DEFINE r == IF register[x] = NoUnit THEN BadArg ELSE Done(Clone(second, register[x]))
  <2>1. register[x] # NoUnit => Kept(second, register[x]) /\ Clone(second, register[x]) = register[x]
    BY <1>1 DEF Possible, Kept
  <2>2. Good(second, r)
    BY <2>1, GoodIf
  <2>3. Return("ut_clone", d, r)
    BY <1>10 DEF UtClone
  <2> HIDE DEF r
  <2> QED
    BY <2>2, <2>3, ReturnKeeps
<1>11. ASSUME NEW x \in Registers, NEW y \in Registers, NEW d \in Registers, UtMultiply(x, y, d)
       PROVE  IInv'
  BY <1>1, <1>11, MultiplyOutcomeGood, ReturnKeeps DEF UtMultiply
<1>12. ASSUME NEW x \in Registers, NEW y \in Registers, NEW d \in Registers, UtDivide(x, y, d)
       PROVE  IInv'
  BY <1>1, <1>12, DivideSound, ReturnKeeps DEF UtDivide, Silent
<1>13. ASSUME NEW x \in Registers, NEW y \in Registers, UtAreConvertible(x, y)
       PROVE  IInv'
  <2>1. PICK v, s : Answer("ut_are_convertible", v, s) /\ v \in {"TRUE", "FALSE"}
    BY <1>13 DEF UtAreConvertible
  <2>2. StatusTellsFailure'
    BY <2>1, AnswerKeeps
  <2>3. UNCHANGED <<register, second>>
    BY <1>13, <2>1 DEF UtAreConvertible, Answer
  <2> QED
    BY <2>2, <2>3 DEF IInv, Clones
<1>14. ASSUME NEW x \in Registers, UtFree(x)
       PROVE  IInv'
  <2>1. Sound(second, Done(NoUnit))
    BY GoodIf DEF Sound
  <2> QED
    BY <1>14, <2>1, ReturnKeeps DEF UtFree, Silent
<1> QED
  BY <1>2, <1>3, <1>4, <1>5, <1>6, <1>7, <1>8, <1>9, <1>10, <1>11, <1>12, <1>13, <1>14,
     GetConverterKeeps, SetSecondKeeps DEF Next

\* Every unit the client holds, and every second, is a unit and its own clone, and the
\* status tells failure: the functions of unitcore.c that call each other through
\* the units inside return a unit with UT_SUCCESS or NULL with another status.
THEOREM Inductive ==
  ASSUME AllUnits
  PROVE  Spec => []IInv
<1>1. Init => IInv
  BY InitHolds
<1>2. IInv /\ [Next]_vars => IInv'
  <2>1. ASSUME IInv, UNCHANGED vars
        PROVE  IInv'
    BY <2>1 DEF IInv, Clones, StatusTellsFailure, vars
  <2> QED
    BY <2>1, StepKeeps
<1> QED
  BY <1>1, <1>2, PTL DEF Spec

\* A function of unitcore.c that returns a unit has succeeded, and NULL comes with
\* the status of a failure, for all units, arguments and sequences of calls.
THEOREM StatusIsTold ==
  ASSUME AllUnits
  PROVE  Spec => []StatusTellsFailure
<1>1. IInv => StatusTellsFailure
  BY DEF IInv
<1> QED
  BY <1>1, Inductive, PTL

-----------------------------------------------------------------------------
(* Converters.                                                             *)

LEMMA ConvertibleBothWays ==
  ASSUME NEW v, NEW w, IsVector(v), IsVector(w), Convertible(v, w)
  PROVE  Convertible(w, v)
<1>1. \A b \in DOMAIN v : v[b] \in Int
  BY ShortAssumption DEF IsVector, Short
<1>2. \A b \in DOMAIN w : w[b] \in Int
  BY ShortAssumption DEF IsVector, Short
<1>3. Equal(v, w) => Equal(w, v)
  BY DEF Equal
<1>4. IsInverse(v, w) => IsInverse(w, v)
  BY <1>1, <1>2 DEF IsInverse, Dimensions
<1> QED
  BY <1>3, <1>4 DEF Convertible, Relationship

LEMMA PlainConverter ==
  ASSUME NEW seconds \in Seconds, NEW u \in Unit, NEW v \in Unit,
         EnsureConverter(u), EnsureConverter(v)
  PROVE  GetConverter(seconds, u, v).kind = "CONVERTER"
           <=> Convertible(GetProduct(u), GetProduct(v))
<1>1. ~Is(u, "timestamp") /\ ~Is(v, "timestamp")
  BY EnsureFacts DEF Is
<1> DEFINE to == GetConverter(seconds, u.unit, seconds[SystemOf(u)])
           back == GetConverter(seconds, seconds[SystemOf(v)], v.unit)
<1>2. GetConverter(seconds, u, v) = GetConverterFrom(u, v, to, back)
  BY <1>1, RecursionAssumption
<1>3. GetConverter(seconds, u, v) = GetPlainConverter(u, v)
  BY <1>1, <1>2 DEF GetConverterFrom
<1> QED
  BY <1>3 DEF GetPlainConverter, Converter, Conversion

\* What ut_get_converter() does of one timestamp is undefined, and of no other units:
\* what a timestamp wraps, and the seconds, are none.
LEMMA UndefinedOnlyApart ==
  ASSUME NEW seconds \in Seconds, NEW u, NEW v, Kept(seconds, u), Kept(seconds, v)
  PROVE  GetConverter(seconds, u, v).kind = "UNDEFINED" <=>
           ~(Is(u, "timestamp") <=> Is(v, "timestamp"))
<1> DEFINE to == GetConverter(seconds, u.unit, seconds[SystemOf(u)])
           back == GetConverter(seconds, seconds[SystemOf(v)], v.unit)
<1>1. u \in Unit /\ v \in Unit
  BY DEF Kept
<1>2. ASSUME NEW x \in Unit, NEW y \in Unit, ~Is(x, "timestamp"), ~Is(y, "timestamp")
      PROVE  GetConverter(seconds, x, y).kind # "UNDEFINED"
  <2>1. GetConverter(seconds, x, y) = GetPlainConverter(x, y)
    BY <1>2, RecursionAssumption DEF GetConverterFrom
  <2> QED
    BY <2>1 DEF GetPlainConverter, Converter, Conversion
<1>3. ASSUME NEW w, Kept(seconds, w), Is(w, "timestamp")
      PROVE  /\ seconds[SystemOf(w)] # NoUnit
             /\ seconds[SystemOf(w)] \in Unit /\ ~Is(seconds[SystemOf(w)], "timestamp")
             /\ w.unit \in Unit /\ ~Is(w.unit, "timestamp")
  <2>1. w \in Unit /\ Wraps(w)
    BY <1>3 DEF Kept, Is, Wraps
  <2>2. w.unit \in Unit /\ Dated(seconds, w.unit) /\ SystemOf(w) = SystemOf(w.unit)
    BY <1>3, <2>1, KeptIf, UnitFacts, SystemFacts
  <2>3. seconds[SystemOf(w)] # NoUnit /\ AreConvertible(seconds[SystemOf(w)], w.unit)
    BY <2>2 DEF Dated
  <2>4. seconds[SystemOf(w)] \in Unit /\ EnsureConverter(seconds[SystemOf(w)])
    BY <2>1, <2>3, SecondsFacts, SystemFacts
  <2>5. ~Is(seconds[SystemOf(w)], "timestamp")
    BY <2>4, EnsureFacts DEF Is
  <2> QED
    BY <2>2, <2>3, <2>4, <2>5 DEF AreConvertible
<1>4. GetConverter(seconds, u, v) = GetConverterFrom(u, v, to, back)
  BY <1>1, <1>3, RecursionAssumption
<1>5. CASE ~Is(u, "timestamp") /\ ~Is(v, "timestamp")
  BY <1>1, <1>2, <1>5
<1>6. CASE ~(Is(u, "timestamp") <=> Is(v, "timestamp"))
  BY <1>4, <1>6 DEF GetConverterFrom, Converter
<1>7. CASE Is(u, "timestamp") /\ Is(v, "timestamp")
  <2>1. to.kind # "UNDEFINED" /\ back.kind # "UNDEFINED"
    BY <1>2, <1>3, <1>7
  <2> HIDE DEF to, back
  <2> QED
    BY <1>4, <1>7, <2>1 DEF GetConverterFrom, Converter, Conversion
<1> QED
  BY <1>5, <1>6, <1>7

LEMMA ConvertersExist ==
  ASSUME NEW seconds \in Seconds, NEW u, NEW v, Kept(seconds, u), Kept(seconds, v),
         SystemOf(u) = SystemOf(v),
         \A w \in {u, v} : EnsureConverter(IF Is(w, "timestamp") THEN w.unit ELSE w)
  PROVE  GetConverter(seconds, u, v).kind = "CONVERTER" <=> AreConvertible(u, v)
<1>1. u \in Unit /\ v \in Unit
  BY DEF Kept
<1>2. CASE ~Is(u, "timestamp") /\ ~Is(v, "timestamp")
  BY <1>1, <1>2, PlainConverter DEF AreConvertible
<1>4. CASE ~(Is(u, "timestamp") <=> Is(v, "timestamp"))
  BY <1>4, UndefinedOnlyApart DEF AreConvertible
<1>3. CASE Is(u, "timestamp") /\ Is(v, "timestamp")
  <2> DEFINE to == GetConverter(seconds, u.unit, seconds[SystemOf(u)])
             back == GetConverter(seconds, seconds[SystemOf(v)], v.unit)
  <2>1. ASSUME NEW w, Kept(seconds, w), Is(w, "timestamp"), EnsureConverter(w.unit)
        PROVE  LET second0 == seconds[SystemOf(w)]
               IN /\ second0 # NoUnit /\ w.unit \in Unit
                  /\ GetConverter(seconds, w.unit, second0).kind = "CONVERTER"
                  /\ GetConverter(seconds, second0, w.unit).kind = "CONVERTER"
    <3> DEFINE s == seconds[SystemOf(w)]
    <3>1. w \in Unit /\ Wraps(w)
      BY <2>1 DEF Kept, Is, Wraps
    <3>2. w.unit \in Unit /\ Dated(seconds, w.unit) /\ SystemOf(w) = SystemOf(w.unit)
      BY <2>1, <3>1, KeptIf, UnitFacts, SystemFacts
    <3>3. s # NoUnit /\ AreConvertible(s, w.unit)
      BY <3>2 DEF Dated
    <3>4. s \in Unit /\ EnsureConverter(s)
      BY <3>1, <3>3, SecondsFacts, SystemFacts
    <3> HIDE DEF s
    <3>5. ~Is(s, "timestamp") /\ ~Is(w.unit, "timestamp")
      BY <2>1, <3>2, <3>4, EnsureFacts DEF Is
    <3>6. Convertible(GetProduct(s), GetProduct(w.unit))
      BY <3>3, <3>5 DEF AreConvertible
    <3>7. Convertible(GetProduct(w.unit), GetProduct(s))
      BY <3>2, <3>4, <3>6, ConvertibleBothWays, SystemFacts
    <3>8. /\ GetConverter(seconds, w.unit, s).kind = "CONVERTER"
          /\ GetConverter(seconds, s, w.unit).kind = "CONVERTER"
      BY <2>1, <3>2, <3>4, <3>6, <3>7, PlainConverter
    <3> QED
      BY <3>2, <3>3, <3>8 DEF s
  <2>2. /\ seconds[SystemOf(u)] # NoUnit /\ seconds[SystemOf(v)] # NoUnit
        /\ to.kind = "CONVERTER" /\ back.kind = "CONVERTER"
    BY <1>3, <2>1
  <2>3. GetConverter(seconds, u, v) = GetConverterFrom(u, v, to, back)
    BY <1>1, <2>2, RecursionAssumption
  <2> HIDE DEF to, back
  <2>4. GetConverter(seconds, u, v).kind = "CONVERTER"
    BY <1>3, <2>2, <2>3 DEF GetConverterFrom, Conversion
  <2> QED
    BY <1>3, <2>4 DEF AreConvertible
<1> QED
  BY <1>2, <1>3, <1>4

LEMMA KnownIsKept ==
  ASSUME AllUnits, IInv, NEW u \in Known
  PROVE  Kept(second, u)
<1>1. second \in Seconds
  BY DEF IInv, Clones
<1>2. CASE u \in Held
  BY <1>2 DEF Held, IInv, Clones, Possible
<1>3. CASE u \in { second[s] : s \in System } \ {NoUnit}
  BY <1>3 DEF IInv, Clones, Possible
<1>4. CASE u \in { One(s) : s \in System }
  BY <1>1, <1>4, OneKept
<1> QED
  BY <1>2, <1>3, <1>4 DEF Known

\* ut_get_converter() finds a converter exactly between units that
\* ut_are_convertible() calls convertible, if no timestamp is wrapped: the second that a
\* timestamp was made with is still the system's.  And ut_are_convertible() says no of any two
\* units of which one is a timestamp, the only ones of which the other function is undefined.
THEOREM ConvertersAreFound ==
  ASSUME AllUnits
  PROVE  Spec => []ConverterIffConvertible
<1>1. ASSUME IInv
      PROVE  ConverterIffConvertible
  <2> SUFFICES ASSUME NEW u \in Known, NEW v \in Known, SystemOf(u) = SystemOf(v)
               PROVE  /\ GetConverter(second, u, v).kind = "UNDEFINED" => ~AreConvertible(u, v)
                      /\ (\A w \in {u, v} :
                             EnsureConverter(IF Is(w, "timestamp") THEN w.unit ELSE w))
                         => (GetConverter(second, u, v).kind = "CONVERTER"
                               <=> AreConvertible(u, v))
    BY DEF ConverterIffConvertible
  <2>1. Kept(second, u) /\ Kept(second, v) /\ second \in Seconds
    BY <1>1, KnownIsKept DEF IInv, Clones
  <2>2. GetConverter(second, u, v).kind = "UNDEFINED" => ~AreConvertible(u, v)
    BY <2>1, UndefinedOnlyApart DEF AreConvertible
  <2> QED
    BY <2>1, <2>2, ConvertersExist
<1> QED
  BY <1>1, Inductive, PTL

-----------------------------------------------------------------------------
(* The entries of a vector.                                                *)

\* How many indexes of D come before b.
Before(D, b) == Cardinality({ c \in D : c < b })

LEMMA Numbered ==
  ASSUME NEW D \in SUBSET Nat, IsFiniteSet(D)
  PROVE  \A i \in 1 .. Cardinality(D) : \E b \in D : Before(D, b) = i - 1
<1>1. Cardinality(D) \in Nat /\ \A c \in D : c \in Nat
  BY FS_CardinalityType
<1> DEFINE Missing == { i \in 1 .. Cardinality(D) : ~ \E b \in D : Before(D, b) = i - 1 }
<1>2. SUFFICES ASSUME Missing # {}
               PROVE  FALSE
  OBVIOUS
<1>3. PICK i \in Missing : \A j \in Missing : i <= j
  <2>1. Missing \in SUBSET Nat
    OBVIOUS
  <2> HIDE DEF Missing
  <2> QED
    BY <1>2, <2>1, LeastNumber
<1>4. i \in 1 .. Cardinality(D) /\ ~ \E b \in D : Before(D, b) = i - 1
  OBVIOUS
<1>5. CASE i = 1
  <2>1. D # {}
    BY <1>1, <1>4, <1>5, FS_EmptySet
  <2>2. PICK b \in D : \A c \in D : b <= c
    BY <2>1, LeastNumber
  <2>3. { c \in D : c < b } = {}
    <3>1. \A c \in D : ~ (c < b)
      BY <1>1, <2>2
    <3> QED
      BY <3>1, Zenon
  <2> QED
    BY <1>4, <1>5, <2>3, FS_EmptySet DEF Before
<1>6. CASE i # 1
  <2>1. i - 1 \in 1 .. Cardinality(D) /\ i - 1 \notin Missing
    BY <1>1, <1>3, <1>4, <1>6
  <2>2. PICK b \in D : Before(D, b) = i - 2
    BY <2>1
  <2> DEFINE Less == { c \in D : c < b }
             More == { c \in D : c > b }
  <2>3. IsFiniteSet(Less) /\ Cardinality(Less) = i - 2 /\ b \notin Less
    BY <2>2, FS_Subset DEF Before
  <2>4. IsFiniteSet(Less \cup {b}) /\ Cardinality(Less \cup {b}) = i - 1
    <3> HIDE DEF Less
    <3>1. IsFiniteSet(Less \cup {b}) /\ Cardinality(Less \cup {b}) = Cardinality(Less) + 1
      BY <2>3, FS_AddElement
    <3>2. i \in Int
      BY <1>4
    <3> QED
      BY <2>3, <3>1, <3>2
  <2>5. More # {}
    <3>1. SUFFICES ASSUME More = {}
                   PROVE  FALSE
      OBVIOUS
    <3>2. \A c \in D : c < b \/ c = b
      <4>1. \A c \in D : ~ (c > b)
        BY <3>1, Zenon
      <4> QED
        BY <1>1, <4>1
    <3>3. D = Less \cup {b}
      BY <3>2, Zenon
    <3>4. Cardinality(D) = i - 1
      BY <2>4, <3>3, Zenon
    <3> QED
      BY <1>1, <1>4, <3>4
  <2>6. PICK d \in More : \A c \in More : d <= c
    <3>1. More \in SUBSET Nat
      OBVIOUS
    <3> HIDE DEF More
    <3> QED
      BY <2>5, <3>1, LeastNumber
  <2>7. { c \in D : c < d } = Less \cup {b}
    <3>1. d \in D /\ d > b /\ \A c \in D : c > b => d <= c
      BY <2>6, Zenon
    <3>2. \A c \in D : c < d <=> c < b \/ c = b
      BY <1>1, <3>1
    <3> QED
      BY <3>2, Zenon
  <2> QED
    BY <1>4, <2>4, <2>6, <2>7 DEF Before
<1> QED
  BY <1>5, <1>6

Entry == [index : Int, power : Int]

LEMMA EntriesAreEntries ==
  ASSUME NEW v, IsVector(v)
  PROVE  Entries(v) \in Seq(Entry)
<1> DEFINE D == DOMAIN v
           index(i) == CHOOSE b \in D : Before(D, b) = i - 1
<1>1. D \in SUBSET Nat /\ IsFiniteSet(D) /\ Cardinality(D) \in Nat
  BY BasicAssumption, UnitAssumption, FS_Subset, FS_CardinalityType DEF IsVector
<1>2. ASSUME NEW i \in 1 .. Cardinality(D)
      PROVE  [index |-> index(i), power |-> v[index(i)]] \in Entry
  <2>1. \E b \in D : Before(D, b) = i - 1
    BY <1>1, Numbered
  <2>2. index(i) \in D
    BY <2>1
  <2>3. index(i) \in Int
    BY <1>1, <2>2
  <2>4. v[index(i)] \in Int
    BY <2>2, ShortAssumption DEF IsVector, Short
  <2> HIDE DEF index
  <2> QED
    BY <2>3, <2>4 DEF Entry
<1>3. Entries(v) = [ i \in 1 .. Cardinality(D) |-> [index |-> index(i), power |-> v[index(i)]] ]
  BY DEF Entries, Before
<1> HIDE DEF index
<1> QED
  BY <1>1, <1>2, <1>3

-----------------------------------------------------------------------------
(* Orders.  Of three things u, v and w, x is how u compares with v, y is   *)
(* how v compares with w, and z is how u compares with w.                  *)

Chain(x, y, z) == x <= 0 /\ y <= 0 => z <= 0 /\ (z = 0 <=> x = 0 /\ y = 0)

Opposite(x, y) == (x < 0 <=> y > 0) /\ (x = 0 <=> y = 0)

LEMMA SignFacts ==
  /\ \A x \in Int : Sign(x) \in Int /\ Opposite(Sign(x), Sign(-x)) /\ Opposite(x, -x)
  /\ \A x \in Int : (Sign(x) < 0 <=> x < 0) /\ (Sign(x) = 0 <=> x = 0)
  /\ \A x, y \in Int : Opposite(x, y) => Sign(y) = -Sign(x)
  /\ \A a, b, c \in Int : Chain(a - b, b - c, a - c) /\ Chain(Sign(a - b), Sign(b - c), Sign(a - c))
BY DEF Sign, Opposite, Chain

LEMMA OrElseFacts ==
  ASSUME NEW x \in Int, NEW y \in Int, NEW z \in Int, NEW a \in Int, NEW b \in Int, NEW c \in Int
  PROVE  /\ OrElse(x, a) \in Int
         /\ Opposite(x, y) /\ Opposite(a, b) => Opposite(OrElse(x, a), OrElse(y, b))
         /\ Chain(x, y, z) /\ Chain(a, b, c) =>
              Chain(OrElse(x, a), OrElse(y, b), OrElse(z, c))
BY DEF OrElse, Opposite, Chain

\* How the entry a compares with b where two vectors differ first.
EntryDifference(a, b) == IF a.index # b.index THEN a.index - b.index ELSE a.power - b.power

LEMMA EntryFacts ==
  ASSUME NEW a \in Entry, NEW b \in Entry, NEW c \in Entry
  PROVE  /\ EntryDifference(a, b) \in Int
         /\ Opposite(EntryDifference(a, b), EntryDifference(b, a))
         /\ EntryDifference(a, b) = 0 <=> a = b
         /\ Chain(EntryDifference(a, b), EntryDifference(b, c), EntryDifference(a, c))
<1>1. /\ a.index \in Int /\ a.power \in Int /\ b.index \in Int /\ b.power \in Int
      /\ c.index \in Int /\ c.power \in Int
  BY DEF Entry
<1>2. a = b <=> a.index = b.index /\ a.power = b.power
  BY DEF Entry
<1> QED
  BY <1>1, <1>2 DEF EntryDifference, Opposite, Chain

LEMMA DifferentLengths ==
  ASSUME NEW p, NEW q, Len(p) # Len(q)
  PROVE  ProductCompare(p, q) = Len(p) - Len(q)
BY DEF ProductCompare

LEMMA SameEntries ==
  ASSUME NEW p
  PROVE  ProductCompare(p, p) = 0
BY DEF ProductCompare

LEMMA DifferAt ==
  ASSUME NEW p \in Seq(Entry), NEW q \in Seq(Entry), Len(p) = Len(q),
         NEW i \in 1 .. Len(p), p[i] # q[i], \A j \in 1 .. i - 1 : p[j] = q[j]
  PROVE  ProductCompare(p, q) = EntryDifference(p[i], q[i])
<1> DEFINE differ == { j \in DOMAIN p : p[j] # q[j] }
           first == CHOOSE j \in differ : \A k \in differ : j <= k
<1>1. DOMAIN p = 1 .. Len(p) /\ Len(p) \in Nat
  OBVIOUS
<1>2. i \in differ /\ \A k \in differ : i <= k
  BY <1>1
<1>3. \A j \in differ : j \in Nat
  BY <1>1
<1>4. \A j \in differ : (\A k \in differ : j <= k) => j = i
  BY <1>2, <1>3
<1>5. first = i
  <2> HIDE DEF differ
  <2> QED
    BY <1>2, <1>4
<1>6. ProductCompare(p, q) =
        IF p[first].index # q[first].index THEN p[first].index - q[first].index
        ELSE p[first].power - q[first].power
  BY <1>2 DEF ProductCompare
<1> HIDE DEF first
<1> QED
  BY <1>5, <1>6 DEF EntryDifference

LEMMA FirstDifference ==
  ASSUME NEW p \in Seq(Entry), NEW q \in Seq(Entry), Len(p) = Len(q), p # q
  PROVE  \E i \in 1 .. Len(p) : p[i] # q[i] /\ \A j \in 1 .. i - 1 : p[j] = q[j]
<1> DEFINE differ == { j \in 1 .. Len(p) : p[j] # q[j] }
<1>1. Len(p) \in Nat /\ differ \in SUBSET Nat
  OBVIOUS
<1>2. differ # {}
  OBVIOUS
<1>3. PICK i \in differ : \A j \in differ : i <= j
  <2> HIDE DEF differ
  <2> QED
    BY <1>1, <1>2, LeastNumber
<1> QED
  BY <1>1, <1>3

LEMMA ProductsCompared ==
  ASSUME NEW p \in Seq(Entry), NEW q \in Seq(Entry)
  PROVE  /\ ProductCompare(p, q) \in Int
         /\ Opposite(ProductCompare(p, q), ProductCompare(q, p))
         /\ Len(p) = Len(q) /\ p # q => ProductCompare(p, q) # 0
<1>0. Len(p) \in Nat /\ Len(q) \in Nat
  OBVIOUS
<1>1. CASE Len(p) # Len(q)
  BY <1>0, <1>1, DifferentLengths DEF Opposite
<1>2. CASE p = q
  BY <1>2, SameEntries DEF Opposite
<1>3. CASE Len(p) = Len(q) /\ p # q
  <2>1. PICK i \in 1 .. Len(p) : p[i] # q[i] /\ \A j \in 1 .. i - 1 : p[j] = q[j]
    BY <1>3, FirstDifference
  <2>2. p[i] \in Entry /\ q[i] \in Entry
    BY <1>3
  <2>3. ProductCompare(p, q) = EntryDifference(p[i], q[i])
    BY <1>3, <2>1, DifferAt
  <2>4. ProductCompare(q, p) = EntryDifference(q[i], p[i])
    BY <1>3, <2>1, DifferAt
  <2>5. /\ EntryDifference(p[i], q[i]) \in Int /\ EntryDifference(p[i], q[i]) # 0
        /\ Opposite(EntryDifference(p[i], q[i]), EntryDifference(q[i], p[i]))
    BY <2>1, <2>2, EntryFacts
  <2> QED
    BY <2>3, <2>4, <2>5
<1> QED
  BY <1>1, <1>2, <1>3

LEMMA ProductsChain ==
  ASSUME NEW p \in Seq(Entry), NEW q \in Seq(Entry), NEW r \in Seq(Entry)
  PROVE  Chain(ProductCompare(p, q), ProductCompare(q, r), ProductCompare(p, r))
<1>0. /\ Len(p) \in Nat /\ Len(q) \in Nat /\ Len(r) \in Nat
      /\ ProductCompare(p, q) \in Int /\ ProductCompare(q, r) \in Int /\ ProductCompare(p, r) \in Int
  BY ProductsCompared
<1>1. CASE p = q
  BY <1>0, <1>1, SameEntries DEF Chain
<1>2. CASE q = r
  BY <1>0, <1>2, SameEntries DEF Chain
<1>3. CASE Len(p) = Len(q) /\ Len(q) = Len(r) /\ p # q /\ q # r
  <2>1. PICK i \in 1 .. Len(p) : p[i] # q[i] /\ \A k \in 1 .. i - 1 : p[k] = q[k]
    BY <1>3, FirstDifference
  <2>2. PICK j \in 1 .. Len(p) : q[j] # r[j] /\ \A k \in 1 .. j - 1 : q[k] = r[k]
    BY <1>3, FirstDifference
  <2>3. /\ p[i] \in Entry /\ q[i] \in Entry /\ r[i] \in Entry
        /\ p[j] \in Entry /\ q[j] \in Entry /\ r[j] \in Entry
    BY <1>3
  <2>4. /\ ProductCompare(p, q) = EntryDifference(p[i], q[i])
        /\ ProductCompare(q, r) = EntryDifference(q[j], r[j])
    BY <1>3, <2>1, <2>2, DifferAt
  <2>5. CASE i < j
    <3>1. q[i] = r[i] /\ \A k \in 1 .. i - 1 : p[k] = r[k]
      BY <1>0, <2>1, <2>2, <2>5
    <3>2. ProductCompare(p, r) = EntryDifference(p[i], r[i])
      BY <1>3, <2>1, <3>1, DifferAt
    <3>3. ProductCompare(q, r) # 0 /\ ProductCompare(p, r) = ProductCompare(p, q)
          /\ ProductCompare(p, q) # 0
      BY <1>3, <2>4, <3>1, <3>2, ProductsCompared
    <3> QED
      BY <1>0, <3>3 DEF Chain
  <2>6. CASE j < i
    <3>1. p[j] = q[j] /\ \A k \in 1 .. j - 1 : p[k] = r[k]
      BY <1>0, <2>1, <2>2, <2>6
    <3>2. ProductCompare(p, r) = EntryDifference(p[j], r[j])
      BY <1>3, <2>2, <3>1, DifferAt
    <3>3. ProductCompare(p, q) # 0 /\ ProductCompare(p, r) = ProductCompare(q, r)
          /\ ProductCompare(q, r) # 0
      BY <1>3, <2>4, <3>1, <3>2, ProductsCompared
    <3> QED
      BY <1>0, <3>3 DEF Chain
  <2>7. CASE i = j
    <3>1. \A k \in 1 .. i - 1 : p[k] = r[k]
      BY <1>0, <2>1, <2>2, <2>7
    <3>2. p[i] # r[i] => ProductCompare(p, r) = EntryDifference(p[i], r[i])
      BY <1>3, <3>1, DifferAt
    <3>3. Chain(EntryDifference(p[i], q[i]), EntryDifference(q[i], r[i]), EntryDifference(p[i], r[i]))
      BY <2>3, EntryFacts
    <3>4. /\ EntryDifference(p[i], q[i]) # 0 /\ EntryDifference(q[i], r[i]) # 0
          /\ p[i] = r[i] => EntryDifference(p[i], r[i]) = 0
          /\ EntryDifference(p[i], q[i]) \in Int /\ EntryDifference(q[i], r[i]) \in Int
          /\ EntryDifference(p[i], r[i]) \in Int
      BY <2>1, <2>2, <2>3, <2>7, EntryFacts
    <3>5. ProductCompare(p, q) = EntryDifference(p[i], q[i])
          /\ ProductCompare(q, r) = EntryDifference(q[i], r[i])
      BY <2>4, <2>7
    <3> QED
      BY <1>0, <3>2, <3>3, <3>4, <3>5 DEF Chain
  <2> QED
    BY <1>0, <2>5, <2>6, <2>7
<1>4. CASE Len(p) # Len(q) \/ Len(q) # Len(r)
  <2>1. /\ Len(p) # Len(q) => ProductCompare(p, q) = Len(p) - Len(q)
        /\ Len(q) # Len(r) => ProductCompare(q, r) = Len(q) - Len(r)
        /\ Len(p) # Len(r) => ProductCompare(p, r) = Len(p) - Len(r)
    BY DifferentLengths
  <2>2. CASE Len(p) # Len(q) /\ Len(q) # Len(r)
    BY <1>0, <2>1, <2>2 DEF Chain
  <2>3. CASE Len(p) = Len(q) /\ Len(q) # Len(r)
    BY <1>0, <2>1, <2>3 DEF Chain
  <2>4. CASE Len(p) # Len(q) /\ Len(q) = Len(r)
    BY <1>0, <2>1, <2>4 DEF Chain
  <2> QED
    BY <1>4, <2>2, <2>3, <2>4
<1> QED
  BY <1>1, <1>2, <1>3, <1>4

-----------------------------------------------------------------------------
(* COMPARE.                                                                *)

LEMMA CompareEquation ==
  ASSUME NEW u \in Unit, NEW v \in Unit
  PROVE  Compare(u, v) = CompareFrom(u, v, Compare(u.unit, v.unit))
BY RecursionAssumption

Plain(u) == u.type \in {"basic", "product"}

\* A basic- or product-unit as the entries it is compared by.
Listed(u) == Entries(GetProduct(u))

LEMMA ListedFacts ==
  ASSUME NEW u \in Unit
  PROVE  /\ Listed(u) \in Seq(Entry)
         /\ Is(u, "product") => Listed(u) = Entries(u.vec)
         /\ Listed(u) = Entries(AsProduct(u).vec)
<1>1. IsVector(GetProduct(u))
  BY SystemFacts
<1>2. Is(u, "product") => GetProduct(u) = u.vec
  BY Equations DEF ProductFrom, Is
<1> QED
  BY <1>1, <1>2, EntriesAreEntries DEF Listed, AsProduct, ProductUnit

\* One basic-unit to the power 1.
LEMMA BasicListed ==
  ASSUME NEW u \in Unit, Is(u, "basic")
  PROVE  Listed(u) = <<[index |-> u.index, power |-> 1]>>
<1> DEFINE v == [ c \in {u.index} |-> 1 ]
           index(i) == CHOOSE b \in DOMAIN v : Cardinality({ c \in DOMAIN v : c < b }) = i - 1
<1>1. GetProduct(u) = v
  BY Equations DEF ProductFrom, Is
<1>2. u.index \in Nat
  BY UnitFacts, BasicAssumption
<1>3. DOMAIN v = {u.index} /\ v[u.index] = 1
  OBVIOUS
<1>4. Cardinality({u.index}) = 1
  BY FS_Singleton
<1>5. { c \in {u.index} : c < u.index } = {}
  BY <1>2
<1>6. Cardinality({ c \in DOMAIN v : c < u.index }) = 0
  BY <1>3, <1>5, FS_EmptySet
<1>7. index(1) = u.index
  <2> HIDE DEF v
  <2> QED
    BY <1>3, <1>6
<1>8. Entries(v) = [ i \in 1 .. 1 |-> [index |-> index(i), power |-> v[index(i)]] ]
  BY <1>3, <1>4 DEF Entries
<1>9. Entries(v) = [ i \in 1 .. 1 |-> [index |-> u.index, power |-> 1] ]
  <2> HIDE DEF v, index
  <2>1. \A i \in 1 .. 1 : i = 1
    OBVIOUS
  <2> QED
    BY <1>3, <1>7, <1>8, <2>1
<1>10. \A e : [ i \in 1 .. 1 |-> e ] = <<e>>
  OBVIOUS
<1> QED
  BY <1>1, <1>9, <1>10 DEF Listed

\* Basic- and product-units compare like their entries.
LEMMA PlainCompared ==
  ASSUME NEW u \in Unit, NEW v \in Unit, Plain(u), Plain(v)
  PROVE  Compare(u, v) \in Int /\ Sign(Compare(u, v)) = Sign(ProductCompare(Listed(u), Listed(v)))
<1>0. /\ ProductCompare(Listed(u), Listed(v)) \in Int /\ ProductCompare(Listed(v), Listed(u)) \in Int
      /\ Opposite(ProductCompare(Listed(u), Listed(v)), ProductCompare(Listed(v), Listed(u)))
  BY ListedFacts, ProductsCompared
<1>1. CASE Is(u, "product")
  <2>1. Compare(u, v) = ProductUnitCompare(u, v)
    BY <1>1, CompareEquation DEF CompareFrom, Is
  <2>2. ProductUnitCompare(u, v) = ProductCompare(Listed(u), Listed(v))
    BY <1>1, ListedFacts DEF ProductUnitCompare, Plain, Is
  <2> QED
    BY <1>0, <2>1, <2>2
<1>2. CASE Is(u, "basic") /\ Is(v, "product")
  <2>1. Compare(u, v) = -ProductUnitCompare(v, u)
    BY <1>2, CompareEquation DEF CompareFrom, BasicCompare, Is
  <2>2. ProductUnitCompare(v, u) = ProductCompare(Listed(v), Listed(u))
    BY <1>2, ListedFacts DEF ProductUnitCompare, Is
  <2> QED
    BY <1>0, <2>1, <2>2, SignFacts DEF Opposite, Sign
<1>3. CASE Is(u, "basic") /\ Is(v, "basic")
  <2> DEFINE a == [index |-> u.index, power |-> 1]
             b == [index |-> v.index, power |-> 1]
  <2>1. Compare(u, v) = Sign(u.index - v.index)
    BY <1>3, CompareEquation DEF CompareFrom, BasicCompare, Is
  <2>2. u.index \in Int /\ v.index \in Int
    BY <1>3, UnitFacts, BasicAssumption
  <2>3. Listed(u) = <<a>> /\ Listed(v) = <<b>>
    BY <1>3, BasicListed
  <2>4. a \in Entry /\ b \in Entry
    BY <2>2 DEF Entry
  <2>5. ProductCompare(<<a>>, <<b>>) = u.index - v.index
    <3>1. CASE u.index = v.index
      <4>1. ProductCompare(<<a>>, <<a>>) = 0
        BY SameEntries
      <4> QED
        BY <2>2, <3>1, <4>1
    <3>2. CASE u.index # v.index
      <4> HIDE DEF a, b
      <4>1. <<a>> \in Seq(Entry) /\ <<b>> \in Seq(Entry) /\ Len(<<a>>) = 1 /\ Len(<<b>>) = 1
            /\ <<a>>[1] = a /\ <<b>>[1] = b
        BY <2>4
      <4>2. a.index = u.index /\ b.index = v.index
        BY DEF a, b
      <4>3. \A j \in 1 .. 1 - 1 : <<a>>[j] = <<b>>[j]
        OBVIOUS
      <4>4. 1 \in 1 .. Len(<<a>>)
        BY <4>1
      <4>5. ProductCompare(<<a>>, <<b>>) = EntryDifference(<<a>>[1], <<b>>[1])
        BY <3>2, <4>1, <4>2, <4>3, <4>4, DifferAt
      <4> QED
        BY <3>2, <4>1, <4>2, <4>5 DEF EntryDifference
    <3> QED
      BY <3>1, <3>2
  <2> QED
    BY <2>1, <2>2, <2>3, <2>5 DEF Sign
<1> QED
  BY <1>1, <1>2, <1>3 DEF Plain, Is

\* Galilean- and logarithmic units compare part by part.
LEMMA WrappersCompared ==
  ASSUME NEW u \in Unit, NEW v \in Unit
  PROVE  /\ Is(u, "galilean") /\ Is(v, "galilean") =>
              Compare(u, v) = OrElse(Sign(u.offset - v.offset),
                                     OrElse(Sign(u.scale - v.scale), Compare(u.unit, v.unit)))
         /\ Is(u, "log") /\ Is(v, "log") =>
              Compare(u, v) = OrElse(Compare(u.unit, v.unit), Sign(u.base - v.base))
BY CompareEquation DEF CompareFrom, GalileanCompare, LogCompare, Is

\* The place of the type in the order of the types.
Rank(u) == IF Plain(u) THEN 0 ELSE IF Is(u, "galilean") THEN 1 ELSE 2

LEMMA RanksDecide ==
  ASSUME NEW u \in Unit, NEW v \in Unit, EnsureConverter(u), EnsureConverter(v), Rank(u) # Rank(v)
  PROVE  Compare(u, v) \in Int /\ Compare(u, v) # 0 /\ (Compare(u, v) < 0 <=> Rank(u) < Rank(v))
<1>1. u.type \in {"basic", "product", "galilean", "log"} /\ v.type \in {"basic", "product", "galilean", "log"}
  BY UnitFacts, EnsureFacts
<1>2. /\ Plain(u) => TypeCode(u) \in {0, 1}
      /\ Plain(v) => TypeCode(v) \in {0, 1}
      /\ Is(u, "galilean") => TypeCode(u) = 2
      /\ Is(v, "galilean") => TypeCode(v) = 2
      /\ Is(u, "log") => TypeCode(u) = 3
      /\ Is(v, "log") => TypeCode(v) = 3
  BY DEF Plain, Is, TypeCode
<1>3. Compare(u, v) = ByType(u, v)
  <2>1. Compare(u, v) = CompareFrom(u, v, Compare(u.unit, v.unit))
    BY CompareEquation
  <2>2. CASE Is(u, "basic")
    <3>1. Compare(u, v) = BasicCompare(u, v)
      BY <2>1, <2>2 DEF CompareFrom, Is
    <3> QED
      BY <2>2, <3>1 DEF BasicCompare, Rank, Plain, Is
  <2>3. CASE Is(u, "product")
    <3>1. Compare(u, v) = ProductUnitCompare(u, v)
      BY <2>1, <2>3 DEF CompareFrom, Is
    <3> QED
      BY <2>3, <3>1 DEF ProductUnitCompare, Rank, Plain, Is
  <2>4. CASE Is(u, "galilean")
    BY <2>1, <2>4 DEF CompareFrom, GalileanCompare, Rank, Plain, Is
  <2>5. CASE Is(u, "log")
    <3>1. Compare(u, v) = LogCompare(u, v, Compare(u.unit, v.unit))
      BY <2>1, <2>5 DEF CompareFrom, Is
    <3> QED
      BY <2>5, <3>1 DEF LogCompare, Rank, Plain, Is
  <2> QED
    BY <1>1, <2>2, <2>3, <2>4, <2>5 DEF Is
<1> QED
  BY <1>1, <1>2, <1>3 DEF ByType, Sign, Rank, Plain, Is

LEMMA WrappedFacts ==
  ASSUME NEW u \in Unit, EnsureConverter(u)
  PROVE  /\ u.type \in {"basic", "product", "galilean", "log"}
         /\ Rank(u) \in {0, 1, 2}
         /\ Rank(u) = 0 <=> Plain(u)
         /\ Rank(u) = 1 <=> Is(u, "galilean")
         /\ Rank(u) = 2 <=> Is(u, "log")
         /\ ~Plain(u) => Wraps(u) /\ u.unit \in Unit /\ EnsureConverter(u.unit)
         /\ Is(u, "galilean") => u.offset \in Int /\ u.scale \in Int
         /\ Is(u, "log") => u.base \in Int
<1>1. u.type \in {"basic", "product", "galilean", "log"}
  BY UnitFacts, EnsureFacts
<1>2. ~Plain(u) => Wraps(u) /\ u.unit \in Unit /\ EnsureConverter(u.unit)
  BY <1>1, UnitFacts, EnsureFacts DEF Plain, Wraps
<1> QED
  BY <1>1, <1>2, UnitFacts DEF Rank, Plain, Is

\* COMPARE of swapped units has the opposite sign.
LEMMA CompareTurns ==
  \A u, v \in Unit : EnsureConverter(u) /\ EnsureConverter(v) =>
    /\ Compare(u, v) \in Int /\ Compare(v, u) \in Int
    /\ Opposite(Compare(u, v), Compare(v, u))
<1> DEFINE Law(u, v) == /\ Compare(u, v) \in Int /\ Compare(v, u) \in Int
                        /\ Opposite(Compare(u, v), Compare(v, u))
           S == { u \in Unit : EnsureConverter(u) => \A v \in Unit : EnsureConverter(v) => Law(u, v) }
<1>1. ASSUME NEW u \in Unit, Wraps(u) => u.unit \in S, EnsureConverter(u),
             NEW v \in Unit, EnsureConverter(v)
      PROVE  Law(u, v)
  <2>1. CASE Rank(u) # Rank(v)
    <3>1. Rank(u) \in {0, 1, 2} /\ Rank(v) \in {0, 1, 2}
      BY <1>1, WrappedFacts
    <3>2. /\ Compare(u, v) \in Int /\ Compare(u, v) # 0 /\ (Compare(u, v) < 0 <=> Rank(u) < Rank(v))
          /\ Compare(v, u) \in Int /\ Compare(v, u) # 0 /\ (Compare(v, u) < 0 <=> Rank(v) < Rank(u))
      BY <1>1, <2>1, RanksDecide
    <3> QED
      BY <2>1, <3>1, <3>2 DEF Opposite
  <2>2. CASE Plain(u) /\ Plain(v)
    <3>1. /\ Compare(u, v) \in Int /\ Sign(Compare(u, v)) = Sign(ProductCompare(Listed(u), Listed(v)))
          /\ Compare(v, u) \in Int /\ Sign(Compare(v, u)) = Sign(ProductCompare(Listed(v), Listed(u)))
      BY <2>2, PlainCompared
    <3>2. /\ ProductCompare(Listed(u), Listed(v)) \in Int /\ ProductCompare(Listed(v), Listed(u)) \in Int
          /\ Opposite(ProductCompare(Listed(u), Listed(v)), ProductCompare(Listed(v), Listed(u)))
      BY ListedFacts, ProductsCompared
    <3> QED
      BY <3>1, <3>2 DEF Opposite, Sign
  <2>3. CASE ~Plain(u) /\ ~Plain(v)
    <3>1. Law(u.unit, v.unit)
      BY <1>1, <2>3, WrappedFacts
    <3>2. CASE Is(u, "galilean") /\ Is(v, "galilean")
      <4>1. /\ u.offset \in Int /\ v.offset \in Int /\ u.scale \in Int /\ v.scale \in Int
        BY <3>2, UnitFacts
      <4> DEFINE a == Sign(u.offset - v.offset)
                 b == Sign(v.offset - u.offset)
                 c == Sign(u.scale - v.scale)
                 d == Sign(v.scale - u.scale)
      <4>2. a \in Int /\ b \in Int /\ Opposite(a, b) /\ c \in Int /\ d \in Int /\ Opposite(c, d)
        BY <4>1 DEF Sign, Opposite
      <4>3. /\ Compare(u, v) = OrElse(a, OrElse(c, Compare(u.unit, v.unit)))
            /\ Compare(v, u) = OrElse(b, OrElse(d, Compare(v.unit, u.unit)))
        BY <3>2, WrappersCompared
      <4> HIDE DEF a, b, c, d
      <4> QED
        BY <3>1, <4>2, <4>3 DEF OrElse, Opposite
    <3>3. CASE Is(u, "log") /\ Is(v, "log")
      <4>1. u.base \in Int /\ v.base \in Int
        BY <3>3, UnitFacts
      <4> DEFINE a == Sign(u.base - v.base)
                 b == Sign(v.base - u.base)
      <4>2. a \in Int /\ b \in Int /\ Opposite(a, b)
        BY <4>1 DEF Sign, Opposite
      <4>3. /\ Compare(u, v) = OrElse(Compare(u.unit, v.unit), a)
            /\ Compare(v, u) = OrElse(Compare(v.unit, u.unit), b)
        BY <3>3, WrappersCompared
      <4> HIDE DEF a, b
      <4> QED
        BY <3>1, <4>2, <4>3 DEF OrElse, Opposite
    <3>4. CASE Rank(u) = Rank(v)
      BY <1>1, <2>3, <3>2, <3>3, <3>4, WrappedFacts
    <3> QED
      BY <2>1, <3>4
  <2>4. Rank(u) = Rank(v) => (Plain(u) <=> Plain(v))
    BY <1>1, WrappedFacts
  <2> QED
    BY <2>1, <2>2, <2>3, <2>4
<1>2. S \in SUBSET Unit
  OBVIOUS
<1> HIDE DEF Law
<1>3. \A u \in Unit : (Wraps(u) => u.unit \in S) => u \in S
  BY <1>1
<1>4. S = Unit
  <2> HIDE DEF S
  <2> QED
    BY <1>2, <1>3, DepthInduction
<1> QED
  BY <1>4 DEF Law

\* COMPARE is transitive.
LEMMA CompareChains ==
  \A u, v, w \in Unit : EnsureConverter(u) /\ EnsureConverter(v) /\ EnsureConverter(w) =>
    Chain(Compare(u, v), Compare(v, w), Compare(u, w))
<1> DEFINE Law(u, v, w) == Chain(Compare(u, v), Compare(v, w), Compare(u, w))
           S == { u \in Unit : EnsureConverter(u) =>
                    \A v, w \in Unit : EnsureConverter(v) /\ EnsureConverter(w) => Law(u, v, w) }
<1>1. ASSUME NEW u \in Unit, Wraps(u) => u.unit \in S, EnsureConverter(u),
             NEW v \in Unit, EnsureConverter(v), NEW w \in Unit, EnsureConverter(w)
      PROVE  Law(u, v, w)
  <2>0. Compare(u, v) \in Int /\ Compare(v, w) \in Int /\ Compare(u, w) \in Int
    BY <1>1, CompareTurns
  <2>1. CASE Rank(u) # Rank(v) \/ Rank(v) # Rank(w)
    <3>1. Rank(u) \in {0, 1, 2} /\ Rank(v) \in {0, 1, 2} /\ Rank(w) \in {0, 1, 2}
      BY <1>1, WrappedFacts
    <3>2. /\ Rank(u) # Rank(v) => Compare(u, v) # 0 /\ (Compare(u, v) < 0 <=> Rank(u) < Rank(v))
          /\ Rank(v) # Rank(w) => Compare(v, w) # 0 /\ (Compare(v, w) < 0 <=> Rank(v) < Rank(w))
          /\ Rank(u) # Rank(w) => Compare(u, w) # 0 /\ (Compare(u, w) < 0 <=> Rank(u) < Rank(w))
      BY <1>1, RanksDecide
    <3> QED
      BY <2>0, <2>1, <3>1, <3>2 DEF Chain
  <2>2. CASE Plain(u) /\ Plain(v) /\ Plain(w)
    <3>1. /\ Sign(Compare(u, v)) = Sign(ProductCompare(Listed(u), Listed(v)))
          /\ Sign(Compare(v, w)) = Sign(ProductCompare(Listed(v), Listed(w)))
          /\ Sign(Compare(u, w)) = Sign(ProductCompare(Listed(u), Listed(w)))
      BY <2>2, PlainCompared
    <3>2. /\ ProductCompare(Listed(u), Listed(v)) \in Int
          /\ ProductCompare(Listed(v), Listed(w)) \in Int
          /\ ProductCompare(Listed(u), Listed(w)) \in Int
      BY ListedFacts, ProductsCompared
    <3>3. Chain(ProductCompare(Listed(u), Listed(v)), ProductCompare(Listed(v), Listed(w)),
                ProductCompare(Listed(u), Listed(w)))
      BY ListedFacts, ProductsChain
    <3> QED
      BY <2>0, <3>1, <3>2, <3>3 DEF Chain, Sign
  <2>3. CASE ~Plain(u) /\ ~Plain(v) /\ ~Plain(w)
    <3>1. /\ u.unit \in Unit /\ v.unit \in Unit /\ w.unit \in Unit
          /\ EnsureConverter(u.unit) /\ EnsureConverter(v.unit) /\ EnsureConverter(w.unit)
      BY <1>1, <2>3, WrappedFacts
    <3>2. Law(u.unit, v.unit, w.unit)
      BY <1>1, <2>3, <3>1, WrappedFacts
    <3>3. Compare(u.unit, v.unit) \in Int /\ Compare(v.unit, w.unit) \in Int /\ Compare(u.unit, w.unit) \in Int
      BY <3>1, CompareTurns
    <3>4. CASE Is(u, "galilean") /\ Is(v, "galilean") /\ Is(w, "galilean")
      <4>1. /\ u.offset \in Int /\ v.offset \in Int /\ w.offset \in Int
            /\ u.scale \in Int /\ v.scale \in Int /\ w.scale \in Int
        BY <3>4, UnitFacts
      <4> DEFINE a == Sign(u.offset - v.offset)
                 b == Sign(v.offset - w.offset)
                 c == Sign(u.offset - w.offset)
                 d == Sign(u.scale - v.scale)
                 e == Sign(v.scale - w.scale)
                 f == Sign(u.scale - w.scale)
      <4>2. /\ a \in Int /\ b \in Int /\ c \in Int /\ Chain(a, b, c)
            /\ d \in Int /\ e \in Int /\ f \in Int /\ Chain(d, e, f)
        BY <4>1 DEF Sign, Chain
      <4>3. /\ Compare(u, v) = OrElse(a, OrElse(d, Compare(u.unit, v.unit)))
            /\ Compare(v, w) = OrElse(b, OrElse(e, Compare(v.unit, w.unit)))
            /\ Compare(u, w) = OrElse(c, OrElse(f, Compare(u.unit, w.unit)))
        BY <3>4, WrappersCompared
      <4> HIDE DEF a, b, c, d, e, f
      <4> QED
        BY <3>2, <3>3, <4>2, <4>3 DEF OrElse, Chain
    <3>5. CASE Is(u, "log") /\ Is(v, "log") /\ Is(w, "log")
      <4>1. u.base \in Int /\ v.base \in Int /\ w.base \in Int
        BY <3>5, UnitFacts
      <4> DEFINE a == Sign(u.base - v.base)
                 b == Sign(v.base - w.base)
                 c == Sign(u.base - w.base)
      <4>2. a \in Int /\ b \in Int /\ c \in Int /\ Chain(a, b, c)
        BY <4>1 DEF Sign, Chain
      <4>3. /\ Compare(u, v) = OrElse(Compare(u.unit, v.unit), a)
            /\ Compare(v, w) = OrElse(Compare(v.unit, w.unit), b)
            /\ Compare(u, w) = OrElse(Compare(u.unit, w.unit), c)
        BY <3>5, WrappersCompared
      <4> HIDE DEF a, b, c
      <4> QED
        BY <3>2, <3>3, <4>2, <4>3 DEF OrElse, Chain
    <3>6. CASE Rank(u) = Rank(v) /\ Rank(v) = Rank(w)
      BY <1>1, <2>3, <3>4, <3>5, <3>6, WrappedFacts
    <3> QED
      BY <2>1, <3>6
  <2>4. Rank(u) = Rank(v) /\ Rank(v) = Rank(w) => (Plain(u) <=> Plain(v)) /\ (Plain(v) <=> Plain(w))
    BY <1>1, WrappedFacts
  <2> QED
    BY <2>1, <2>2, <2>3, <2>4
<1>2. S \in SUBSET Unit
  OBVIOUS
<1> HIDE DEF Law
<1>3. \A u \in Unit : (Wraps(u) => u.unit \in S) => u \in S
  BY <1>1
<1>4. S = Unit
  <2> HIDE DEF S
  <2> QED
    BY <1>2, <1>3, DepthInduction
<1> QED
  BY <1>4 DEF Law

\* ut_compare() compares the systems first.
LEMMA UtCompareOrders ==
  ASSUME NEW u \in Unit, NEW v \in Unit, NEW w \in Unit,
         EnsureConverter(u), EnsureConverter(v), EnsureConverter(w)
  PROVE  /\ Sign(UtCompare(v, u)) = -Sign(UtCompare(u, v))
         /\ Sign(UtCompare(u, v)) <= 0 /\ Sign(UtCompare(v, w)) <= 0 => Sign(UtCompare(u, w)) <= 0
<1>1. /\ Compare(u, v) \in Int /\ Compare(v, u) \in Int /\ Compare(v, w) \in Int /\ Compare(u, w) \in Int
      /\ Opposite(Compare(u, v), Compare(v, u))
  BY CompareTurns
<1>2. Chain(Compare(u, v), Compare(v, w), Compare(u, w))
  BY CompareChains
<1>3. SystemOf(u) \in Int /\ SystemOf(v) \in Int /\ SystemOf(w) \in Int
  BY SystemFacts, UnitAssumption
<1>4. /\ UtCompare(u, v) = OrElse(Sign(SystemOf(u) - SystemOf(v)), Compare(u, v))
      /\ UtCompare(v, u) = OrElse(Sign(SystemOf(v) - SystemOf(u)), Compare(v, u))
      /\ UtCompare(v, w) = OrElse(Sign(SystemOf(v) - SystemOf(w)), Compare(v, w))
      /\ UtCompare(u, w) = OrElse(Sign(SystemOf(u) - SystemOf(w)), Compare(u, w))
  BY <1>3 DEF UtCompare, OrElse, Sign
<1>5. /\ UtCompare(u, v) \in Int /\ UtCompare(v, u) \in Int /\ UtCompare(v, w) \in Int
      /\ UtCompare(u, w) \in Int
  BY <1>1, <1>3, <1>4, SignFacts DEF OrElse
<1>6. Opposite(UtCompare(u, v), UtCompare(v, u))
  BY <1>1, <1>3, <1>4 DEF OrElse, Opposite, Sign
<1>7. Chain(UtCompare(u, v), UtCompare(v, w), UtCompare(u, w))
  BY <1>1, <1>2, <1>3, <1>4 DEF OrElse, Chain, Sign
<1> QED
  BY <1>5, <1>6, <1>7 DEF Opposite, Chain, Sign

\* Timestamps apart, ut_compare() orders the units: opposite signs for swapped
\* arguments, and transitive, through galilean-units, logarithms and the sorted
\* entries of products.
THEOREM UnitsAreOrdered ==
  ASSUME AllUnits
  PROVE  Spec => []CompareIsOrder
<1>1. ASSUME IInv
      PROVE  CompareIsOrder
  <2> DEFINE ordered == { u \in Known : EnsureConverter(u) }
             compared == { <<u, v, Sign(UtCompare(u, v))>> : u, v \in ordered }
             atMost == { <<c[1], c[2]>> : c \in { d \in compared : d[3] <= 0 } }
  <2>1. \A u \in ordered : u \in Unit /\ EnsureConverter(u)
    BY <1>1, KnownIsKept DEF Kept
  <2>2. \A c \in compared : <<c[2], c[1], -c[3]>> \in compared
    <3>1. ASSUME NEW u \in ordered, NEW v \in ordered
          PROVE  <<v, u, -Sign(UtCompare(u, v))>> \in compared
      <4>1. Sign(UtCompare(v, u)) = -Sign(UtCompare(u, v))
        BY <2>1, UtCompareOrders
      <4> QED
        BY <4>1
    <3> HIDE DEF ordered
    <3> QED
      BY <3>1
  <2>3. ASSUME NEW u, NEW v
        PROVE  <<u, v>> \in atMost <=> u \in ordered /\ v \in ordered /\ Sign(UtCompare(u, v)) <= 0
    <3> HIDE DEF ordered
    <3>1. ASSUME <<u, v>> \in atMost
          PROVE  u \in ordered /\ v \in ordered /\ Sign(UtCompare(u, v)) <= 0
      <4>1. PICK d \in compared : d[3] <= 0 /\ <<u, v>> = <<d[1], d[2]>>
        BY <3>1
      <4>2. PICK x \in ordered, y \in ordered : d = <<x, y, Sign(UtCompare(x, y))>>
        BY <4>1
      <4>3. u = x /\ v = y
        BY <4>1, <4>2
      <4> QED
        BY <4>1, <4>2, <4>3
    <3>2. ASSUME u \in ordered, v \in ordered, Sign(UtCompare(u, v)) <= 0
          PROVE  <<u, v>> \in atMost
      <4> DEFINE d == <<u, v, Sign(UtCompare(u, v))>>
      <4>1. d \in compared
        BY <3>2
      <4>2. d[3] <= 0 /\ <<u, v>> = <<d[1], d[2]>>
        BY <3>2
      <4> HIDE DEF d, compared
      <4> QED
        BY <4>1, <4>2
    <3> QED
      BY <3>1, <3>2
  <2>4. ASSUME NEW u, NEW v, NEW w \in ordered, <<u, v>> \in atMost, <<v, w>> \in atMost
        PROVE  <<u, w>> \in atMost
    BY <2>1, <2>3, <2>4, UtCompareOrders
  <2>5. \A p \in atMost : p = <<p[1], p[2]>>
    OBVIOUS
  <2> HIDE DEF ordered, compared, atMost
  <2>6. \A p \in atMost : \A w \in ordered : <<p[2], w>> \in atMost => <<p[1], w>> \in atMost
    BY <2>4, <2>5
  <2> QED
    BY <2>2, <2>6 DEF CompareIsOrder, ordered, compared, atMost
<1> QED
  BY <1>1, Inductive, PTL

=============================================================================
