------------------------------- MODULE Units -------------------------------
(***************************************************************************)
(* The units of src/lib/unitcore.c as values, and what the ut_*() functions*)
(* make of them: the unit they return and the status they leave.           *)
(*                                                                         *)
(* A unit is a record with the fields of its C structure; a unit that      *)
(* wraps another holds it in "unit".  A product-unit holds its exponent    *)
(* vector (module ProductVectors; ProductUnit has the loops).  Numbers are *)
(* reals in the code.  Here a scale-factor is a power of two and is held   *)
(* as its exponent, and offsets and values are counted in units of         *)
(* a fixed power of two, so that all the arithmetic that can occur is      *)
(* exact.                                                                  *)
(*                                                                         *)
(* The functions of a unit that wraps another call those of the other.     *)
(* Each such function is a constant here.  What it returns is said by an   *)
(* operator that is given what it returns for the wrapped unit, and        *)
(* RecursionAssumption ties the two (RecursiveUnits has the functions).    *)
(* Those that may look up the "second" of a system are given them all.     *)
(***************************************************************************)
EXTENDS ProductVectors, FiniteSets

CONSTANTS
  Zero,    \* the scale-factor 0
  System,  \* the unit-systems, numbered like their addresses
  Unit     \* the units

CONSTANTS
  Depth(_),            \* how many units a unit has inside
  SystemOf(_),         \* ut_get_system()
  GetProduct(_),       \* GET_PRODUCT
  EnsureConverter(_),  \* ENSURE_CONVERTER_TO_PRODUCT and ENSURE_CONVERTER_FROM_PRODUCT
  ToProduct(_),        \* the converter to the product-unit
  FromProduct(_),      \* the converter from the product-unit
  ExactRoot(_, _),     \* is the root of every scale-factor a power of two?
  Compare(_, _),       \* COMPARE
  Clone(_, _),         \* CLONE
  Multiply(_, _, _),   \* MULTIPLY
  Raise(_, _, _),      \* RAISE
  Root(_, _, _),       \* ROOT
  GetConverter(_, _, _)  \* ut_get_converter()

-----------------------------------------------------------------------------
(* The structures.                                                         *)

BasicUnit(s, b) == [type |-> "basic", system |-> s, index |-> b]

ProductUnit(s, v) == [type |-> "product", system |-> s, vec |-> v]

\* The unit one of a system, which all share: it is neither copied nor freed.  A
\* product-unit that has lost all its powers has the same value, and is another structure.
One(s) == [type |-> "product", system |-> s, vec |-> [ b \in {} |-> 0 ], shared |-> TRUE]

\* The enumeration constants BASIC, PRODUCT, GALILEAN, LOG, TIMESTAMP.
TypeCode(u) ==
  CASE u.type = "basic" -> 0
    [] u.type = "product" -> 1
    [] u.type = "galilean" -> 2
    [] u.type = "log" -> 3
    [] u.type = "timestamp" -> 4

Is(u, type) == u.type = type

Wraps(u) == u.type \in {"galilean", "log", "timestamp"}

DepthFrom(u, ofInner) == IF Wraps(u) THEN 1 + ofInner ELSE 0

SystemFrom(u, ofInner) == IF Wraps(u) THEN ofInner ELSE u.system

ProductFrom(u, ofInner) ==
  IF Is(u, "basic") THEN [ c \in {u.index} |-> 1 ]
  ELSE IF Is(u, "product") THEN u.vec
  ELSE ofInner

\* Is u a unit that is made of those in S?  Galilean-units do not nest, and none of
\* them is the unit inside.
Built(u, S) ==
  \/ u \in [type : {"basic"}, system : System, index : Basic]
  \/ /\ Is(u, "product") /\ DOMAIN u.vec \subseteq Basic
     /\ u \in [type : {"product"}, system : System, vec : [DOMAIN u.vec -> Short]]
  \/ u \in { One(s) : s \in System }
  \/ /\ u \in [type : {"galilean"}, scale : Int, unit : S, offset : Int]
     /\ ~Is(u.unit, "galilean") /\ ~(u.scale = 0 /\ u.offset = 0)
  \/ u \in [type : {"log"}, base : Int, unit : S]
  \/ u \in [type : {"timestamp"}, unit : S, origin : Int]

ASSUME UnitAssumption ==
  /\ System \subseteq Int /\ IsFiniteSet(Basic)
  /\ NoUnit \notin Unit /\ \A u \in Unit : Built(u, Unit)
  /\ \A u \in Unit : Depth(u) \in Nat /\ Depth(u) = DepthFrom(u, Depth(u.unit))

AsProduct(u) == ProductUnit(SystemOf(u), GetProduct(u))

PowerOf2(n) ==
  LET power[i \in 0 .. n] == IF i = 0 THEN 1 ELSE 2 * power[i - 1] IN power[n]

\* Multiplication by 2^k.
Scaled(k, x) == IF k >= 0 THEN x * PowerOf2(k) ELSE x \div PowerOf2(-k)

-----------------------------------------------------------------------------
(* Queries.                                                                *)

\* ut_is_dimensionless()
IsDimensionless(u) ==
  Is(u, "log") \/ DOMAIN GetProduct(u) \subseteq Dimensionless

\* Mutant: timestamps are taken for their product-units.
AreConvertibleAsProducts(u, v) == Convertible(GetProduct(u), GetProduct(v))

\* ut_are_convertible() on units of the same system.
AreConvertible(u, v) ==
  IF Is(u, "timestamp") \/ Is(v, "timestamp")
  THEN Is(u, "timestamp") /\ Is(v, "timestamp")
  ELSE Convertible(GetProduct(u), GetProduct(v))

Sign(n) == IF n < 0 THEN -1 ELSE IF n = 0 THEN 0 ELSE 1

\* The entries of a vector in ascending index order.
Entries(v) ==
  LET index(i) == CHOOSE b \in DOMAIN v : Cardinality({ c \in DOMAIN v : c < b }) = i - 1
  IN [ i \in 1 .. Cardinality(DOMAIN v) |-> [index |-> index(i), power |-> v[index(i)]] ]

-----------------------------------------------------------------------------
(* The compare functions of the five types.                                *)

ByType(u, v) == Sign(TypeCode(u) - TypeCode(v))

\* The first difference decides.
OrElse(cmp, next) == IF cmp # 0 THEN cmp ELSE next

ProductUnitCompare(u, v) ==
  IF Is(v, "basic") THEN ProductCompare(Entries(u.vec), Entries(AsProduct(v).vec))
  ELSE IF Is(v, "product") THEN ProductCompare(Entries(u.vec), Entries(v.vec))
  ELSE ByType(u, v)

\* Mutant: the order of a basic- and a product-unit is not turned round.
BasicCompareUnturned(u, v) ==
  IF Is(v, "product") THEN ProductUnitCompare(v, u)
  ELSE IF Is(v, "basic") THEN Sign(u.index - v.index)
  ELSE ByType(u, v)

BasicCompare(u, v) ==
  IF Is(v, "product") THEN -ProductUnitCompare(v, u)
  ELSE IF Is(v, "basic") THEN Sign(u.index - v.index)
  ELSE ByType(u, v)

GalileanCompare(u, v, ofInner) ==
  IF ~Is(v, "galilean") THEN ByType(u, v)
  ELSE OrElse(Sign(u.offset - v.offset), OrElse(Sign(u.scale - v.scale), ofInner))

\* Two timestamps of different origins compare as -1 both ways.
TimestampCompare(u, v, ofInner) ==
  IF ~Is(v, "timestamp") THEN ByType(u, v)
  ELSE OrElse(IF u.origin = v.origin THEN 0 ELSE -1, ofInner)

LogCompare(u, v, ofInner) ==
  IF ~Is(v, "log") THEN ByType(u, v) ELSE OrElse(ofInner, Sign(u.base - v.base))

CompareFrom(u, v, ofInner) ==
  CASE Is(u, "basic") -> BasicCompare(u, v)
    [] Is(u, "product") -> ProductUnitCompare(u, v)
    [] Is(u, "galilean") -> GalileanCompare(u, v, ofInner)
    [] Is(u, "log") -> LogCompare(u, v, ofInner)
    [] Is(u, "timestamp") -> TimestampCompare(u, v, ofInner)

\* ut_compare() on units that are not NULL.
UtCompare(u, v) ==
  IF SystemOf(u) # SystemOf(v) THEN Sign(SystemOf(u) - SystemOf(v))
  ELSE Compare(u, v)

-----------------------------------------------------------------------------
(* Constructors.  CLONE of a timestamp makes the timestamp anew, so it     *)
(* looks up the system's second again.                                     *)

\* The unit that a galilean-unit of u gets inside.
Inside(u) == IF Is(u, "galilean") THEN u.unit ELSE u

\* Mutant: the offset of the underlying galilean-unit is not rescaled.
GalileanFromUnscaled(k, u, o, clone) ==
  LET scale == IF Is(u, "galilean") THEN k + u.scale ELSE k
      offset == IF Is(u, "galilean") THEN o + u.offset ELSE o
  IN IF scale = 0 /\ offset = 0 THEN clone
     ELSE [type |-> "galilean", scale |-> scale, unit |-> clone, offset |-> offset]

\* galileanNew(), with the clone it makes.  Galilean-units do not nest, and 1 u + 0
\* is u.
GalileanFrom(k, u, o, clone) ==
  LET scale == IF Is(u, "galilean") THEN k + u.scale ELSE k
      offset == IF Is(u, "galilean") THEN o + Scaled(-k, u.offset) ELSE o
  IN IF scale = 0 /\ offset = 0 THEN clone
     ELSE [type |-> "galilean", scale |-> scale, unit |-> clone, offset |-> offset]

GalileanNew(seconds, k, u, o) == GalileanFrom(k, u, o, Clone(seconds, Inside(u)))

LogFrom(base, clone) == [type |-> "log", base |-> base, unit |-> clone]

LogNew(seconds, base, u) == LogFrom(base, Clone(seconds, u))

Outcome(u, s) == [unit |-> u, status |-> s]
Done(u) == Outcome(u, "UT_SUCCESS")
Meaningless == Outcome(NoUnit, "UT_MEANINGLESS")

\* timestampNewOrigin(), with the clone it makes.  A unit that is not a unit of time
\* makes the function return NULL with the status of ut_are_convertible().
TimestampFrom(seconds, u, origin, clone) ==
  LET second == seconds[SystemOf(u)]
  IN IF second = NoUnit THEN Outcome(NoUnit, "UT_NO_SECOND")
     ELSE IF AreConvertible(second, u)
     THEN Done([type |-> "timestamp", unit |-> clone, origin |-> origin])
     ELSE Done(NoUnit)

TimestampNewOrigin(seconds, u, origin) ==
  TimestampFrom(seconds, u, origin, Clone(seconds, u))

\* The clone functions of the types, with the clone of what the new unit gets inside.
CloneFrom(seconds, u, clone) ==
  CASE Is(u, "basic") \/ Is(u, "product") -> u
    [] Is(u, "galilean") -> GalileanFrom(u.scale, u.unit, u.offset, clone)
    [] Is(u, "log") -> LogFrom(u.base, clone)
    [] Is(u, "timestamp") -> TimestampFrom(seconds, u.unit, u.origin, clone).unit

\* What is cloned when u is.
ClonedInside(u) == IF Is(u, "galilean") THEN Inside(u.unit) ELSE u.unit

-----------------------------------------------------------------------------
(* MULTIPLY, RAISE and ROOT of the five types, with what the function that *)
(* each calls has made.                                                    *)

\* galileanNew(k, made, 0) around what the underlying units made.
Rescaled(seconds, k, made) ==
  IF made.unit = NoUnit THEN made ELSE Done(GalileanNew(seconds, k, made.unit, 0))

GalileanMultiply(seconds, u, v, made) ==
  IF Is(v, "product") THEN Rescaled(seconds, u.scale, made)
  ELSE IF Is(v, "galilean") THEN Rescaled(seconds, u.scale + v.scale, made)
  ELSE made

\* Mutant: a failure does not set the status.
LogMultiplySilent(seconds, u, v) ==
  IF IsDimensionless(v) /\ (Is(v, "basic") \/ Is(v, "product")) THEN Done(Clone(seconds, u))
  ELSE IF IsDimensionless(v) /\ Is(v, "galilean")
  THEN Done(GalileanNew(seconds, v.scale, u, 0))
  ELSE Done(NoUnit)

LogMultiply(seconds, u, v) ==
  IF ~IsDimensionless(v) THEN Meaningless
  ELSE IF Is(v, "basic") \/ Is(v, "product") THEN Done(Clone(seconds, u))
  ELSE IF Is(v, "galilean") THEN Done(GalileanNew(seconds, v.scale, u, 0))
  ELSE Meaningless

\* The units that multiplying u and v hands on.
HandedOn(u, v) ==
  IF Is(u, "basic") THEN <<AsProduct(u), v>>
  ELSE IF Is(u, "product") \/ (Is(u, "galilean") /\ v.type \notin {"product", "galilean"})
  THEN <<v, u>>
  ELSE IF Is(u, "galilean") /\ Is(v, "galilean") THEN <<u.unit, v.unit>>
  ELSE <<u.unit, v>>

\* productMultiply() of two product-units, which looks at their powers before it
\* multiplies.
ProductMultiply(u, v) ==
  IF DOMAIN u.vec \cup DOMAIN v.vec = {} THEN One(u.system)
  ELSE ProductUnit(u.system, Times(u.vec, v.vec))

MultiplyFrom(seconds, u, v, made) ==
  CASE Is(u, "basic") \/ Is(u, "timestamp") -> made
    [] Is(u, "product") ->
         IF Is(v, "product") THEN Done(ProductMultiply(u, v)) ELSE made
    [] Is(u, "galilean") -> GalileanMultiply(seconds, u, v, made)
    [] Is(u, "log") -> LogMultiply(seconds, u, v)

\* What raising or rooting a product-unit without powers returns, whoever owns it.
OneOr(u, made) == IF DOMAIN u.vec = {} THEN One(u.system) ELSE made

ProductRaise(u, n) == Done(OneOr(u, ProductUnit(u.system, Raised(u.vec, n))))

RaiseFrom(seconds, u, n, made) ==
  CASE Is(u, "basic") -> ProductRaise(AsProduct(u), n)
    [] Is(u, "product") -> ProductRaise(u, n)
    [] Is(u, "galilean") -> Rescaled(seconds, u.scale * n, made)
    [] Is(u, "log") -> Meaningless
    [] Is(u, "timestamp") -> made

ProductRoot(u, n) ==
  IF HasRoot(u.vec, n) THEN Done(OneOr(u, ProductUnit(u.system, RootOf(u.vec, n))))
  ELSE Meaningless

RootFrom(seconds, u, n, made) ==
  CASE Is(u, "basic") -> ProductRoot(AsProduct(u), n)
    [] Is(u, "product") -> ProductRoot(u, n)
    [] Is(u, "galilean") -> Rescaled(seconds, u.scale \div n, made)
    [] Is(u, "log") -> Meaningless
    [] Is(u, "timestamp") -> made

ExactRootFrom(u, n, ofInner) ==
  CASE u.type \in {"basic", "product", "log"} -> TRUE
    [] Is(u, "galilean") -> u.scale % n = 0 /\ ofInner
    [] Is(u, "timestamp") -> ofInner

-----------------------------------------------------------------------------
(* ut_get_converter(): "CONVERTER" or "NULL" with a status, and the steps  *)
(* of the converter, as module Converters combines them.  "UNDEFINED" is   *)
(* the case of one timestamp among the two units: the code then reads the  *)
(* other one as a timestamp, too.                                          *)

\* The value x becomes 2^k x + c.
Linear(k, c) == [op |-> "linear", scale |-> k, offset |-> c]

\* A time becomes one that is by seconds later.
Later(by) == [op |-> "shift", by |-> by]

Step(op, base) == [op |-> op, base |-> base]

\* Mutant: the offset is not rescaled.
GalileanToProductUnscaled(u) == Linear(u.scale, u.offset)

GalileanToProduct(u) == Linear(u.scale, Scaled(u.scale, u.offset))

GalileanFromProduct(u) == Linear(-u.scale, -u.offset)

\* The converters a unit keeps to and from its product-unit.  Units do not change,
\* so that a kept converter is the one that would be made.
ToProductFrom(u, ofInner) ==
  CASE u.type \in {"basic", "product"} -> <<>>
    [] Is(u, "galilean") -> <<GalileanToProduct(u)>> \o ofInner
    [] Is(u, "log") -> <<Step("pow", u.base)>> \o ofInner

FromProductFrom(u, ofInner) ==
  CASE u.type \in {"basic", "product"} -> <<>>
    [] Is(u, "galilean") -> ofInner \o <<GalileanFromProduct(u)>>
    [] Is(u, "log") -> ofInner \o <<Step("log", u.base)>>

\* The functions of a timestamp return -1 and leave the status alone.
EnsureFrom(u, ofInner) ==
  CASE u.type \in {"basic", "product"} -> TRUE
    [] u.type \in {"galilean", "log"} -> ofInner
    [] Is(u, "timestamp") -> FALSE

Converter(kind, s) == [kind |-> kind, status |-> s, steps |-> <<>>]

Conversion(steps) == [kind |-> "CONVERTER", status |-> "UT_SUCCESS", steps |-> steps]

\* Reciprocal product-units are converted by the inverse of the value.
Between(from, to) ==
  IF Equal(GetProduct(from), GetProduct(to)) THEN <<>> ELSE <<Step("inverse", 0)>>

GetPlainConverter(from, to) ==
  IF ~Convertible(GetProduct(from), GetProduct(to))
  THEN Converter("NULL", "UT_MEANINGLESS")
  ELSE IF ~(EnsureConverter(from) /\ EnsureConverter(to))
  THEN Converter("NULL", "UT_SUCCESS")
  ELSE Conversion(ToProduct(from) \o Between(from, to) \o FromProduct(to))

\* ut_get_converter(), with the converters to and from the seconds of the systems.
GetConverterFrom(from, to, toSeconds, fromSeconds) ==
  LET failed(c) == IF c.kind = "NULL" THEN Converter("NULL", "UT_OS") ELSE c
  IN IF ~Is(from, "timestamp") /\ ~Is(to, "timestamp")
     THEN GetPlainConverter(from, to)
     ELSE IF ~(Is(from, "timestamp") /\ Is(to, "timestamp"))
     THEN Converter("UNDEFINED", "UT_SUCCESS")
     ELSE IF toSeconds.kind # "CONVERTER" THEN failed(toSeconds)
     ELSE IF fromSeconds.kind # "CONVERTER" THEN failed(fromSeconds)
     ELSE Conversion(toSeconds.steps \o <<Later(from.origin - to.origin)>>
                     \o fromSeconds.steps)

-----------------------------------------------------------------------------
(* What the functions do with units that wrap others.                      *)

\* The seconds of the systems.  None has a timestamp inside, which a system gets only
\* once it has a second.
Seconds ==
  { seconds \in [System -> Unit \cup {NoUnit}] :
      \A s \in System : seconds[s] # NoUnit =>
        SystemOf(seconds[s]) = s /\ EnsureConverter(seconds[s]) }

ASSUME RecursionAssumption ==
  /\ \A u \in Unit :
       /\ SystemOf(u) = SystemFrom(u, SystemOf(u.unit))
       /\ GetProduct(u) = ProductFrom(u, GetProduct(u.unit))
       /\ EnsureConverter(u) = EnsureFrom(u, EnsureConverter(u.unit))
       /\ EnsureConverter(u) =>
            /\ ToProduct(u) = ToProductFrom(u, ToProduct(u.unit))
            /\ FromProduct(u) = FromProductFrom(u, FromProduct(u.unit))
       /\ \A n \in Roots : ExactRoot(u, n) = ExactRootFrom(u, n, ExactRoot(u.unit, n))
  /\ \A u, v \in Unit : Compare(u, v) = CompareFrom(u, v, Compare(u.unit, v.unit))
  /\ \A seconds \in Seconds, u \in Unit :
       /\ Clone(seconds, u) = CloneFrom(seconds, u, Clone(seconds, ClonedInside(u)))
       /\ \A n \in -255 .. 255 :
            Raise(seconds, u, n) = RaiseFrom(seconds, u, n, Raise(seconds, u.unit, n))
       /\ \A n \in Roots : ExactRoot(u, n) =>
            Root(seconds, u, n) = RootFrom(seconds, u, n, Root(seconds, u.unit, n))
  /\ \A seconds \in Seconds, u, v \in Unit :
       /\ Multiply(seconds, u, v) =
            MultiplyFrom(seconds, u, v, Multiply(seconds, HandedOn(u, v)[1], HandedOn(u, v)[2]))
       /\ (\A w \in {u, v} : Is(w, "timestamp") => seconds[SystemOf(w)] # NoUnit) =>
            GetConverter(seconds, u, v) =
              GetConverterFrom(u, v, GetConverter(seconds, u.unit, seconds[SystemOf(u)]),
                                     GetConverter(seconds, seconds[SystemOf(v)], v.unit))

-----------------------------------------------------------------------------
(* The client's functions.                                                 *)

BadArg == Outcome(NoUnit, "UT_BAD_ARG")
NotSameSystem == Outcome(NoUnit, "UT_NOT_SAME_SYSTEM")

\* ut_scale()
ScaleOutcome(seconds, k, u) ==
  IF u = NoUnit \/ k = Zero THEN BadArg
  ELSE IF k = 0 THEN Done(Clone(seconds, u))
  ELSE Done(GalileanNew(seconds, k, u, 0))

\* ut_offset()
OffsetOutcome(seconds, u, o) ==
  IF u = NoUnit THEN BadArg
  ELSE IF o = 0 THEN Done(Clone(seconds, u))
  ELSE Done(GalileanNew(seconds, 0, u, o))

\* ut_offset_by_time()
OffsetByTimeOutcome(seconds, u, origin) ==
  IF u = NoUnit THEN BadArg ELSE TimestampNewOrigin(seconds, u, origin)

\* ut_multiply()
MultiplyOutcome(seconds, u, v) ==
  IF u = NoUnit \/ v = NoUnit THEN BadArg
  ELSE IF SystemOf(u) # SystemOf(v) THEN NotSameSystem
  ELSE Multiply(seconds, u, v)

\* Freeing the inverse sets the status to UT_SUCCESS, whatever the
\* multiplication said.
Quotient(seconds, u, v) ==
  LET inverse == Raise(seconds, v, -1)
  IN IF inverse.unit = NoUnit THEN inverse ELSE Done(Multiply(seconds, u, inverse.unit).unit)

\* ut_divide()
DivideOutcome(seconds, u, v) ==
  IF u = NoUnit \/ v = NoUnit THEN BadArg
  ELSE IF SystemOf(u) # SystemOf(v) THEN NotSameSystem
  ELSE Quotient(seconds, u, v)

\* ut_raise(), and ut_invert() for the power -1.
RaiseOutcome(seconds, u, n) ==
  IF u = NoUnit \/ n \notin -255 .. 255 THEN BadArg
  ELSE IF n = 0 THEN Done(One(SystemOf(u)))
  ELSE IF n = 1 THEN Done(Clone(seconds, u))
  ELSE Raise(seconds, u, n)

\* ut_log()
LogOutcome(seconds, base, u) ==
  IF base <= 1 \/ u = NoUnit THEN BadArg ELSE Done(LogNew(seconds, base, u))
=============================================================================
