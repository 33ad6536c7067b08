----------------------------- MODULE Converters -----------------------------
(***************************************************************************)
(* The converters of src/lib/converter.c: how they are made, combined,     *)
(* cloned and freed, and the loops that convert arrays.                    *)
(*                                                                         *)
(* A converter is a record with the fields of its C structure; a composite *)
(* holds its parts.  Every converter but the two static ones is a block of *)
(* its own, since cv_combine() clones what it keeps; "used" counts the     *)
(* blocks.  malloc() may fail in every call, so the operators that         *)
(* allocate give the set of possible outcomes: the converter and how many  *)
(* blocks more are allocated than before.                                  *)
(*                                                                         *)
(* Four C functions call themselves for the parts of a composite.  Each is *)
(* a constant here.  What it returns for a converter is said, and assumed, *)
(* by an operator that is given what it returns for the parts.             *)
(*                                                                         *)
(* Values are numbers a * x + b, kept as a, b and the opaque number x,     *)
(* which is a cell of the client's array, or a reciprocal, logarithm or    *)
(* power of a value.                                                       *)
(***************************************************************************)
EXTENDS Integers, Sequences, FiniteSets

CONSTANTS
  Register,  \* the client's variables
  Slopes,    \* slopes passed to cv_get_scale() and cv_get_galilean()
  Offsets,   \* offsets passed to cv_get_offset() and cv_get_galilean()
  Bases,     \* logarithmic bases passed to cv_get_log() and cv_get_pow()
  Named,     \* the bases the code knows by name: 2, e and 10
  Cells,     \* length of the client's array
  NoConverter,
  MaxCalls   \* bound on the client's calls

CONSTANTS
  Size(_),      \* the number of blocks that cv_free() gives back
  Clone(_),     \* CV_CLONE
  Convert(_, _),               \* cv_convert_double()
  Converted(_, _, _, _, _),    \* cv_convert_doubles() and cv_convert_floats()
  Turned(_),    \* what a converter has become when it has been cloned
  Converter,    \* converters, with their parts
  Number        \* values

ASSUME ArgumentAssumption ==
  /\ Slopes \subseteq Int \ {0}
  /\ Offsets \subseteq Int
  /\ Bases \subseteq Int /\ Named \subseteq {2, 10}
  /\ Cells \in Nat /\ MaxCalls \in Nat

VARIABLES
  register,  \* the client's converters
  used,      \* number of blocks allocated and not freed
  array,     \* the client's array of numbers
  calls

cvVars == <<register, used, array, calls>>

-----------------------------------------------------------------------------
(* The structures.                                                         *)

Trivial == [type |-> "trivial"]
Reciprocal == [type |-> "reciprocal"]
Scale(k) == [type |-> "scale", value |-> k]
Offset(o) == [type |-> "offset", value |-> o]
Galilean(k, o) == [type |-> "galilean", slope |-> k, intercept |-> o]
Exp(base) == [type |-> "exp", base |-> base]
Composite(c, d) == [type |-> "composite", first |-> c, second |-> d]

\* The member logE is 1 / ln(base), or ln(base) if inverted.
Log(base, inverted) == [type |-> "log", base |-> base, inverted |-> inverted]

Is(c, type) == c.type = type

\* The converters that are made of those in S.
Built(S) ==
  {Trivial, Reciprocal}
    \cup [type : {"scale"}, value : Int]
    \cup [type : {"offset"}, value : Int]
    \cup [type : {"galilean"}, slope : Int, intercept : Int]
    \cup [type : {"exp"}, base : Int]
    \cup [type : {"log"}, base : Int, inverted : BOOLEAN]
    \cup [type : {"composite"}, first : S, second : S]

ASSUME ConverterAssumption == Converter \subseteq Built(Converter) /\ NoConverter \notin Converter

\* cv_free(), which gives back as many blocks for the parts.
SizeFrom(c, first, second) ==
  IF c = NoConverter \/ c \in {Trivial, Reciprocal} THEN 0
  ELSE IF Is(c, "composite") THEN 1 + first + second
  ELSE 1

ASSUME SizeAssumption ==
  \A c \in Converter \cup {NoConverter} :
    Size(c) \in Nat /\ Size(c) = SizeFrom(c, Size(c.first), Size(c.second))

-----------------------------------------------------------------------------
(* Making converters.                                                      *)

Got(c, n) == [conv |-> c, blocks |-> n]

\* Nothing is made, and nothing left behind.
Failed == Got(NoConverter, 0)

\* malloc()
New(c) == {Got(c, 1), Failed}

\* cv_get_scale()
GetScale(k) == IF k = 1 THEN {Got(Trivial, 0)} ELSE New(Scale(k))

\* cv_get_offset()
GetOffset(o) == IF o = 0 THEN {Got(Trivial, 0)} ELSE New(Offset(o))

\* cv_get_galilean()
GetGalilean(k, o) ==
  IF k = 1 THEN GetOffset(o)
  ELSE IF o = 0 THEN GetScale(k)
  ELSE New(Galilean(k, o))

\* cv_get_log()
GetLog(base) == IF base <= 1 THEN {Failed} ELSE New(Log(base, FALSE))

\* cv_get_pow()
GetPow(base) == IF base <= 0 THEN {Failed} ELSE New(Exp(base))

\* cvLogClone() takes exp(logE) for the base.  With a base that has no name that
\* turns 1 / ln(base) into ln(base), and back.
CloneLog(c) == New(IF c.base \in Named THEN c ELSE Log(c.base, ~c.inverted))

\* Mutant: the second slope is not applied to the first offset.
MergedSloppily(f, s) ==
  IF Is(f, "offset") /\ Is(s, "scale") THEN GetGalilean(s.value, f.value)
  ELSE {Failed}

\* What cv_combine() makes of two converters that it can merge into one.  It makes
\* nothing of others, and nothing when it runs out of memory.
Merged(f, s) ==
  CASE Is(f, "reciprocal") /\ Is(s, "reciprocal") -> {Got(Trivial, 0)}
    [] Is(f, "scale") /\ Is(s, "scale") -> GetScale(f.value * s.value)
    [] Is(f, "scale") /\ Is(s, "offset") -> GetGalilean(f.value, s.value)
    [] Is(f, "scale") /\ Is(s, "galilean") -> GetGalilean(f.value * s.slope, s.intercept)
    [] Is(f, "offset") /\ Is(s, "scale") -> GetGalilean(s.value, f.value * s.value)
    [] Is(f, "offset") /\ Is(s, "offset") -> GetOffset(f.value + s.value)
    [] Is(f, "offset") /\ Is(s, "galilean") ->
         GetGalilean(s.slope, f.value * s.slope + s.intercept)
    [] Is(f, "galilean") /\ Is(s, "scale") ->
         GetGalilean(s.value * f.slope, s.value * f.intercept)
    [] Is(f, "galilean") /\ Is(s, "offset") -> GetGalilean(f.slope, f.intercept + s.value)
    [] Is(f, "galilean") /\ Is(s, "galilean") ->
         GetGalilean(s.slope * f.slope, s.slope * f.intercept + s.intercept)
    [] OTHER -> {Failed}

\* Mutant: the clone of the first part is forgotten when the second fails.
ComposedLeaking(a, b) ==
  IF b.conv = NoConverter THEN {Got(NoConverter, a.blocks + b.blocks)}
  ELSE { Got(Composite(a.conv, b.conv), a.blocks + b.blocks + 1),
         Got(NoConverter, a.blocks + b.blocks - Size(b.conv) - Size(a.conv)) }

\* A composite of the clones a and b, of which the first was made.  What has been cloned
\* is freed when the rest fails.
Composed(a, b) ==
  IF b.conv = NoConverter THEN {Got(NoConverter, a.blocks + b.blocks - Size(a.conv))}
  ELSE { Got(Composite(a.conv, b.conv), a.blocks + b.blocks + 1),
         Got(NoConverter, a.blocks + b.blocks - Size(b.conv) - Size(a.conv)) }

\* The general case of cv_combine(), with the outcomes of cloning its arguments.
Compose(firsts, seconds) ==
  UNION { IF a.conv = NoConverter THEN {a} ELSE UNION { Composed(a, b) : b \in seconds }
        : a \in firsts }

\* cv_combine(), with the outcomes of cloning its arguments.
Combined(f, s, firsts, seconds) ==
  IF f = NoConverter \/ s = NoConverter THEN {Failed}
  ELSE IF Is(f, "trivial") THEN seconds
  ELSE IF Is(s, "trivial") THEN firsts
  ELSE UNION { IF m.conv = NoConverter THEN Compose(firsts, seconds) ELSE {m}
             : m \in Merged(f, s) }

Combine(f, s) == Combined(f, s, Clone(f), Clone(s))

\* The clone functions of the types, with the outcomes of cloning the parts.
CloneFrom(c, firsts, seconds) ==
  CASE Is(c, "trivial") -> {Got(Trivial, 0)}
    [] Is(c, "reciprocal") -> {Got(Reciprocal, 0)}
    [] Is(c, "scale") -> GetScale(c.value)
    [] Is(c, "offset") -> GetOffset(c.value)
    [] Is(c, "galilean") -> GetGalilean(c.slope, c.intercept)
    [] Is(c, "log") -> CloneLog(c)
    [] Is(c, "exp") -> GetPow(c.base)
    [] Is(c, "composite") -> Combined(c.first, c.second, firsts, seconds)

ASSUME CloneAssumption ==
  \A c \in Converter : Clone(c) = CloneFrom(c, Clone(c.first), Clone(c.second))

-----------------------------------------------------------------------------
(* Converting.                                                             *)

Opaque(x) == [a |-> 1, b |-> 0, of |-> x]

Linear(v, k, o) == [a |-> k * v.a, b |-> k * v.b + o, of |-> v.of]

OneOver(v) ==
  IF v = Opaque(v.of) /\ v.of[1] = "inverse" THEN v.of[2] ELSE Opaque(<<"inverse", v>>)

ASSUME NumberAssumption ==
  \A v \in Number :
    /\ v.a \in Int /\ v.b \in Int /\ v = [a |-> v.a, b |-> v.b, of |-> v.of]
    /\ OneOver(OneOver(v)) = v

\* The convertDouble functions, with the result of converting by the parts.
ConvertFrom(c, v, byParts) ==
  CASE Is(c, "trivial") -> v
    [] Is(c, "reciprocal") -> OneOver(v)
    [] Is(c, "scale") -> Linear(v, c.value, 0)
    [] Is(c, "offset") -> Linear(v, 1, c.value)
    [] Is(c, "galilean") -> Linear(v, c.slope, c.intercept)
    [] Is(c, "log") -> Opaque(<<"log", v, c.base, c.inverted>>)
    [] Is(c, "exp") -> Opaque(<<"pow", v, c.base>>)
    [] Is(c, "composite") -> byParts

ASSUME ConvertAssumption ==
  \A c \in Converter, v \in Number :
    Convert(c, v) = ConvertFrom(c, v, Convert(c.second, Convert(c.first, v)))

\* Mutant: always from the first value to the last.
LoopUpwards(c, m, in, count, out) ==
  LET after[i \in 0 .. count] ==
        IF i = 0 THEN m
        ELSE [after[i - 1] EXCEPT ![out + i - 1] = Convert(c, after[i - 1][in + i - 1])]
  IN after[count]

\* The loops of the convertFloats and convertDoubles functions.  They run downwards
\* if the input begins before the output.
Loop(c, m, in, count, out) ==
  LET at(i) == IF in < out THEN count - i ELSE i - 1
      after[i \in 0 .. count] ==
        IF i = 0 THEN m
        ELSE [after[i - 1] EXCEPT ![out + at(i)] = Convert(c, after[i - 1][in + at(i)])]
  IN after[count]

\* memmove()
Moved(m, in, count, out) ==
  [ i \in DOMAIN m |-> IF i \in out .. out + count - 1 THEN m[in + i - out] ELSE m[i] ]

\* The convertFloats and convertDoubles functions, with the result of converting by
\* the parts, the second of which has the output of the first for its input.
ConvertedFrom(c, m, in, count, out, byParts) ==
  CASE Is(c, "trivial") -> Moved(m, in, count, out)
    [] Is(c, "composite") -> byParts
    [] OTHER -> Loop(c, m, in, count, out)

\* The arguments that describe two parts of the array.
Parts == { p \in (1 .. Cells) \X (1 .. Cells) \X (1 .. Cells) :
             p[1] + p[2] - 1 <= Cells /\ p[3] + p[2] - 1 <= Cells }

ASSUME ConvertedAssumption ==
  \A c \in Converter, m \in [1 .. Cells -> Number], p \in Parts :
    Converted(c, m, p[1], p[2], p[3]) =
      ConvertedFrom(c, m, p[1], p[2], p[3],
        Converted(c.second, Converted(c.first, m, p[1], p[2], p[3]), p[3], p[2], p[3]))

-----------------------------------------------------------------------------
(* The client.                                                             *)

Fresh == [ i \in 1 .. Cells |-> Opaque(<<"cell", i>>) ]

CvInit ==
  /\ register = [ r \in Register |-> NoConverter ]
  /\ used = 0
  /\ array = Fresh
  /\ calls = 0

Call == calls < MaxCalls /\ calls' = calls + 1

\* The client keeps what a function returns where it has nothing.
Keep(r, outcomes) ==
  /\ Call
  /\ register[r] = NoConverter
  /\ \E got \in outcomes :
       /\ register' = [register EXCEPT ![r] = got.conv]
       /\ used' = used + got.blocks
  /\ UNCHANGED array

CvGet(r) ==
  \/ Keep(r, {Got(Trivial, 0)})
  \/ Keep(r, {Got(Reciprocal, 0)})
  \/ \E k \in Slopes : Keep(r, GetScale(k))
  \/ \E o \in Offsets : Keep(r, GetOffset(o))
  \/ \E k \in Slopes, o \in Offsets : Keep(r, GetGalilean(k, o))
  \/ \E base \in Bases : Keep(r, GetLog(base)) \/ Keep(r, GetPow(base))

CvCombine(r, x, y) == Keep(r, Combine(register[x], register[y]))

CvFree(r) ==
  /\ Call
  /\ register' = [register EXCEPT ![r] = NoConverter]
  /\ used' = used - Size(register[r])
  /\ UNCHANGED array

CvConvert(r, in, count, out) ==
  /\ Call
  /\ array' = IF register[r] = NoConverter THEN array
              ELSE Converted(register[r], array, in, count, out)
  /\ UNCHANGED <<register, used>>

CvNext ==
  \/ \E r \in Register : CvGet(r) \/ CvFree(r)
  \/ \E r, x, y \in Register : CvCombine(r, x, y)
  \/ \E r \in Register, p \in Parts : CvConvert(r, p[1], p[2], p[3])

CvSpec == CvInit /\ [][CvNext]_cvVars

-----------------------------------------------------------------------------
(* Properties.                                                             *)

Held == { register[r] : r \in Register } \ {NoConverter}

\* The blocks allocated are those of the converters the client holds, whichever
\* malloc() failed in cv_combine() and in the clones it made: nothing leaks, nothing
\* is freed twice, and freeing the arguments leaves the combination whole.
NothingLeaks ==
  used = Cardinality(UNION { {r} \X (1 .. Size(register[r])) : r \in Register })

\* A clone should be like its original, but a logarithm to a base without a name is
\* turned over in it, with the result of turning the parts.
TurnedFrom(c, first, second) ==
  CASE Is(c, "log") /\ c.base \notin Named -> Log(c.base, ~c.inverted)
    [] Is(c, "composite") -> Composite(first, second)
    [] OTHER -> c

ASSUME TurnedAssumption ==
  \A c \in Converter : Turned(c) = TurnedFrom(c, Turned(c.first), Turned(c.second))

\* A combination converts like its first and then its second part, also when it
\* had to be a composite for want of memory, and however often the parts of its parts
\* were combined before.  Every logarithm to a base without a name, and nothing else, is
\* turned over by it, once: cv_combine() clones each part exactly once.
CombinationIsSequence ==
  \A c, d \in Held : \A got \in Combine(c, d) :
    got.conv # NoConverter =>
      Convert(got.conv, Opaque(<<"cell", 0>>)) =
      Convert(Turned(d), Convert(Turned(c), Opaque(<<"cell", 0>>)))

\* Arrays may overlap: every output value is that of the input value as it was
\* before the call, and the rest of the array stays.
OverlapIsSafe ==
  [][\A r \in Register, p \in Parts :
       CvConvert(r, p[1], p[2], p[3]) /\ register[r] # NoConverter =>
         \A i \in 1 .. Cells :
           array'[i] = IF i \in p[3] .. p[3] + p[2] - 1
                       THEN Convert(register[r], array[p[1] + i - p[3]])
                       ELSE array[i]]_cvVars
=============================================================================
