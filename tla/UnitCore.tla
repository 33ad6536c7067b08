------------------------------ MODULE UnitCore ------------------------------
(***************************************************************************)
(* A client of src/lib/unitcore.c.  Module Units says what each function   *)
(* returns; this machine calls them in any order, with the static status   *)
(* and the second of each system between the calls.                        *)
(*                                                                         *)
(* The client keeps units in registers, like variables of a C program: a   *)
(* failed call leaves NULL there and the next call may be handed it.       *)
(***************************************************************************)
EXTENDS Units

CONSTANTS
  Furnished,  \* the unit-systems that have basic-units
  Registers,  \* the client's variables
  Factors,    \* scale-factors passed to ut_scale(): exponents of 2, or Zero
  Offsets,    \* offsets passed to ut_offset(), multiples of Grain
  Origins,    \* time origins passed to ut_offset_by_time()
  Bases,      \* logarithmic bases passed to ut_log()
  MaxCalls    \* bound on the client's calls

ASSUME CallAssumption ==
  /\ Furnished \subseteq System /\ Offsets \subseteq Int
  /\ Zero \notin Int /\ Factors \subseteq Int \cup {Zero} /\ Bases \subseteq Nat /\ Origins \subseteq Int
  /\ MaxCalls \in Nat

\* The client's calls can halve an offset, and the converters of the result again.
Grain == 4 ^ (MaxCalls + 1)

ASSUME OffsetAssumption == \A o \in Offsets : o % Grain = 0

VARIABLES
  register,  \* the client's units
  second,    \* second[s]: the "second" unit of system s, or NoUnit
  status,    \* what ut_get_status() returns
  last,      \* the last call: its function, and what it returned
  stopped,   \* "crash" if undefined behaviour ended the program, or "no"
  calls

vars == <<register, second, status, last, stopped, calls>>

-----------------------------------------------------------------------------
(* The client and the functions it calls.                                  *)

None == [function |-> "none", result |-> "NULL"]

Init ==
  /\ register = [ r \in Registers |-> NoUnit ]
  /\ second = [ s \in System |-> NoUnit ]
  /\ status = "UT_SUCCESS"
  /\ last = None
  /\ stopped = "no"
  /\ calls = 0

Call == stopped = "no" /\ calls < MaxCalls /\ calls' = calls + 1

\* Function f returns the unit r.unit into register d.
Return(f, d, r) ==
  /\ register' = [register EXCEPT ![d] = r.unit]
  /\ status' = r.status
  /\ last' = [function |-> f, result |-> IF r.unit = NoUnit THEN "NULL" ELSE "unit"]
  /\ UNCHANGED <<second, stopped>>

\* Function f returns the value v and no unit.
Answer(f, v, s) ==
  /\ status' = s
  /\ last' = [function |-> f, result |-> v]
  /\ UNCHANGED <<register, stopped>>

\* ut_get_unit_by_name() hands out a clone of a basic-unit.
GetBasic(s, b, d) ==
  /\ Call
  /\ Return("ut_get_unit_by_name", d, Done(BasicUnit(s, b)))

GetOne(s, d) ==
  /\ Call
  /\ Return("ut_get_dimensionless_unit_one", d, Done(One(s)))

UtScale(k, x, d) ==
  /\ Call
  /\ Return("ut_scale", d, ScaleOutcome(second, k, register[x]))

UtOffset(x, o, d) ==
  /\ Call
  /\ Return("ut_offset", d, OffsetOutcome(second, register[x], o))

UtOffsetByTime(x, origin, d) ==
  /\ Call
  /\ Return("ut_offset_by_time", d, OffsetByTimeOutcome(second, register[x], origin))

UtMultiply(x, y, d) ==
  /\ Call
  /\ Return("ut_multiply", d, MultiplyOutcome(second, register[x], register[y]))

UtDivide(x, y, d) ==
  /\ Call
  /\ Return("ut_divide", d, DivideOutcome(second, register[x], register[y]))

UtRaise(x, n, d) ==
  /\ Call
  /\ Return("ut_raise", d, RaiseOutcome(second, register[x], n))

UtRoot(x, n, d) ==
  /\ Call
  /\ register[x] # NoUnit /\ n > 1 => ExactRoot(register[x], n)
  /\ Return("ut_root", d,
       IF register[x] = NoUnit \/ n \notin 1 .. 255 THEN BadArg
       ELSE IF n = 1 THEN Done(Clone(second, register[x]))
       ELSE Root(second, register[x], n))

UtLog(base, x, d) ==
  /\ Call
  /\ Return("ut_log", d, LogOutcome(second, base, register[x]))

UtClone(x, d) ==
  /\ Call
  /\ Return("ut_clone", d,
       IF register[x] = NoUnit THEN BadArg ELSE Done(Clone(second, register[x])))

UtFree(x) ==
  /\ Call
  /\ Return("ut_free", x, Done(NoUnit))

\* Only the first second of a system counts.
UtSetSecond(x) ==
  /\ Call
  /\ IF register[x] = NoUnit
     THEN Answer("ut_set_second", "void", "UT_BAD_ARG") /\ UNCHANGED second
     ELSE LET s == SystemOf(register[x])
          IN IF second[s] = NoUnit
             THEN /\ second' = [second EXCEPT ![s] = Clone(second, register[x])]
                  /\ Answer("ut_set_second", "void", "UT_SUCCESS")
             ELSE /\ Answer("ut_set_second", "void",
                       IF UtCompare(second[s], register[x]) # 0
                       THEN "UT_EXISTS" ELSE "UT_SUCCESS")
                  /\ UNCHANGED second

UtAreConvertible(x, y) ==
  /\ Call
  /\ UNCHANGED second
  /\ IF register[x] = NoUnit \/ register[y] = NoUnit
     THEN Answer("ut_are_convertible", "FALSE", "UT_BAD_ARG")
     ELSE IF SystemOf(register[x]) # SystemOf(register[y])
     THEN Answer("ut_are_convertible", "FALSE", "UT_NOT_SAME_SYSTEM")
     ELSE Answer("ut_are_convertible",
            IF AreConvertible(register[x], register[y]) THEN "TRUE" ELSE "FALSE",
            "UT_SUCCESS")

\* What a converter that ends in kind c.kind leaves behind.
Convert(c) ==
  \/ /\ c.kind \in {"CONVERTER", "NULL"}
     /\ Answer("ut_get_converter", c.kind, c.status)
  \/ /\ c.kind = "UNDEFINED" /\ stopped' = "crash"
     /\ UNCHANGED <<register, status, last>>
  \/ /\ c.kind = "UNDEFINED"
     /\ \/ Answer("ut_get_converter", "CONVERTER", "UT_SUCCESS")
        \/ Answer("ut_get_converter", "NULL", "UT_OS")

UtGetConverter(x, y) ==
  /\ Call
  /\ UNCHANGED second
  /\ IF register[x] = NoUnit \/ register[y] = NoUnit
     THEN Answer("ut_get_converter", "NULL", "UT_BAD_ARG")
     ELSE IF SystemOf(register[x]) # SystemOf(register[y])
     THEN Answer("ut_get_converter", "NULL", "UT_NOT_SAME_SYSTEM")
     ELSE Convert(GetConverter(second, register[x], register[y]))

Next ==
  \/ \E s \in System, d \in Registers : GetOne(s, d)
  \/ \E s \in Furnished, b \in Basic, d \in Registers : GetBasic(s, b, d)
  \/ \E x, d \in Registers :
       \/ \E k \in Factors : UtScale(k, x, d)
       \/ \E o \in Offsets : UtOffset(x, o, d)
       \/ \E t \in Origins : UtOffsetByTime(x, t, d)
       \/ \E n \in Powers \cup {0, 1, 256} : UtRaise(x, n, d)
       \/ \E n \in Roots \cup {0, 1} : UtRoot(x, n, d)
       \/ \E base \in Bases : UtLog(base, x, d)
       \/ UtClone(x, d)
  \/ \E x, y, d \in Registers : UtMultiply(x, y, d) \/ UtDivide(x, y, d)
  \/ \E x, y \in Registers : UtAreConvertible(x, y) \/ UtGetConverter(x, y)
  \/ \E x \in Registers : UtFree(x) \/ UtSetSecond(x)

Spec == Init /\ [][Next]_vars

-----------------------------------------------------------------------------
(* Properties.                                                             *)

Held == { register[r] : r \in Registers } \ {NoUnit}

\* The units of the library's own, too.
Known == Held \cup ({ second[s] : s \in System } \ {NoUnit})
              \cup { One(s) : s \in System }

\* A function that returns a unit has succeeded, and NULL comes with the status
\* of a failure, through all the nested calls that set the status themselves.
\* Three functions break the second half: ut_divide() when it multiplies in
\* vain, ut_offset_by_time() of what is no unit of time, and ut_get_converter() of a
\* timestamp that is wrapped.
StatusTellsFailure ==
  /\ last.result \in {"unit", "CONVERTER"} => status = "UT_SUCCESS"
  /\ last.result = "NULL" =>
       \/ status # "UT_SUCCESS"
       \/ last.function \in {"none", "ut_free", "ut_offset_by_time", "ut_divide",
                            "ut_get_converter"}

\* Two steps of which the second takes back what the first does.
Undoes(p, q) ==
  \/ p.op = "inverse" /\ q.op = "inverse"
  \/ {p.op, q.op} = {"log", "pow"} /\ p.base = q.base

\* The step p changes nothing.
Idle(p) == p \in {Linear(0, 0), Later(0)}

Merged(p, q) ==
  IF p.op = "linear" THEN Linear(p.scale + q.scale, Scaled(q.scale, p.offset) + q.offset)
  ELSE Later(p.by + q.by)

\* The conversion of reduced steps s and then p.
Then(s, p) ==
  LET n == Len(s) IN
  IF Idle(p) THEN s
  ELSE IF n = 0 THEN <<p>>
  ELSE IF Undoes(s[n], p) THEN SubSeq(s, 1, n - 1)
  ELSE IF s[n].op = p.op /\ p.op \in {"linear", "shift"}
  THEN LET m == Merged(s[n], p)
       IN SubSeq(s, 1, n - 1) \o (IF Idle(m) THEN <<>> ELSE <<m>>)
  ELSE Append(s, p)

\* What the steps of a converter compute: equal if the reduced steps are.
Reduced(steps) ==
  LET upTo[n \in 0 .. Len(steps)] == IF n = 0 THEN <<>> ELSE Then(upTo[n - 1], steps[n])
  IN upTo[Len(steps)]

\* Scaling and offsetting a unit means what it says to the converters, although
\* galilean-units are merged: the value x of the new unit is the value 2^k (x + o)
\* of the old one.
GalileanMeansComposition ==
  \A u \in { v \in Held : EnsureConverter(v) }, k \in Factors \ {Zero}, o \in Offsets :
    Reduced(ToProduct(GalileanNew(second, k, u, o))) =
    Reduced(<<Linear(k, Scaled(k, o))>> \o ToProduct(u))

\* The converters among the units, and what they compute.
Conversions ==
  LET made == { c \in { [from |-> p[1], to |-> p[2], by |-> GetConverter(second, p[1], p[2])] :
                         p \in { q \in Known \X Known : SystemOf(q[1]) = SystemOf(q[2]) } } :
                c.by.kind = "CONVERTER" }
  IN { [from |-> c.from, to |-> c.to, does |-> Reduced(c.by.steps)] : c \in made }

\* From a timestamp's values to seconds since the origin 0.
SinceZero(u) ==
  GetConverter(second, u.unit, second[SystemOf(u)]).steps \o <<Later(u.origin)>>

\* Converting from u to v and on to w is converting from u to w, and from u to u,
\* so also there and back, changes nothing.  The units may be merged
\* galilean-units, logarithms, reciprocals, and times of different origins, which
\* stay the same moments.  From a unit to its ut_invert() is the inverse.
ConversionsCompose ==
  LET conversions == Conversions
      away == { c \in conversions : c.from # c.to }
  IN /\ \A c \in conversions \ away : c.does = <<>>
     /\ \A c, d \in away :
          c.to = d.from =>
          [from |-> c.from, to |-> d.to, does |-> Reduced(c.does \o d.does)] \in conversions
     /\ \A c \in away :
          Is(c.from, "timestamp") =>
          Reduced(c.does \o SinceZero(c.to)) = Reduced(SinceZero(c.from))
     /\ \A u \in Held :
          u.type \in {"basic", "product"} /\ ~IsDimensionless(u) =>
          GetConverter(second, u, RaiseOutcome(second, u, -1).unit).steps = <<Step("inverse", 0)>>

\* There is a converter exactly between units that ut_are_convertible() calls
\* convertible, if no timestamp is wrapped.  With one timestamp among any two units, where
\* ut_get_converter() reads the other one through the wrong member of the union,
\* ut_are_convertible() says no: a client that asks it first never gets there, nor
\* does the conversion by way of the seconds.
ConverterIffConvertible ==
  \A u, v \in Known :
    SystemOf(u) = SystemOf(v) =>
    LET got == GetConverter(second, u, v)
    IN /\ got.kind = "UNDEFINED" => ~AreConvertible(u, v)
       /\ (\A w \in {u, v} : EnsureConverter(IF Is(w, "timestamp") THEN w.unit ELSE w))
          => (got.kind = "CONVERTER" <=> AreConvertible(u, v))

\* Timestamps apart, ut_compare() orders units: opposite signs for swapped
\* arguments, and transitive.  The maps of units are search trees kept by it.
CompareIsOrder ==
  LET ordered == { u \in Known : EnsureConverter(u) }
      compared == { <<u, v, Sign(UtCompare(u, v))>> : u, v \in ordered }
      atMost == { <<c[1], c[2]>> : c \in { d \in compared : d[3] <= 0 } }
  IN /\ \A c \in compared : <<c[2], c[1], -c[3]>> \in compared
     /\ \A p \in atMost : \A w \in ordered : <<p[2], w>> \in atMost => <<p[1], w>> \in atMost
=============================================================================
