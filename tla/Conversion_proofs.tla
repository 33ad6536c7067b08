-------------------------- MODULE Conversion_proofs --------------------------
(***************************************************************************)
(* Proofs about Converters, for all registers, arguments, arrays and       *)
(* bounds, and about Program, which converts with them, for all words,     *)
(* texts, environments and bounds.                                         *)
(***************************************************************************)
EXTENDS Converters, Program, FiniteSetTheorems, WellFoundedInduction, TLAPS

-----------------------------------------------------------------------------
(* Converters: the loops.                                                  *)

\* A set of natural numbers has a least one.
LEMMA LeastNumber ==
  ASSUME NEW S, S \subseteq Nat, S # {}
  PROVE  \E n \in S : \A k \in S : n <= k
<1>1. \E x \in S : \A y \in S : ~ (<<y, x>> \in OpToRel(<, Nat))
  BY NatLessThanWellFounded, WFMin
<1>2. PICK x \in S : \A y \in S : ~ (<<y, x>> \in OpToRel(<, Nat))
  BY <1>1
<1>3. \A y \in S : ~ (y < x)
  BY <1>2 DEF OpToRel
<1> QED
  BY <1>3

\* The cell that step i of a loop writes, counted from the first of the output.
At(in, count, out, i) == IF in < out THEN count - i ELSE i - 1

Step(c, m, in, count, out, i) ==
  [m EXCEPT ![out + At(in, count, out, i)] = Convert(c, m[in + At(in, count, out, i)])]

\* f holds the arrays that the loop makes, one after the other.
LoopRun(f, c, m, in, count, out) ==
  f = [ i \in 0 .. count |-> IF i = 0 THEN m ELSE Step(c, f[i - 1], in, count, out, i) ]

LEMMA LoopRuns ==
  ASSUME NEW c, NEW m, NEW in \in Nat, NEW count \in Nat, NEW out \in Nat
  PROVE  \E f : LoopRun(f, c, m, in, count, out) /\ Loop(c, m, in, count, out) = f[count]
<1> DEFINE Run(f, n) ==
      f = [ i \in 0 .. n |-> IF i = 0 THEN m ELSE Step(c, f[i - 1], in, count, out, i) ]
<1> HIDE DEF Run
<1>1. \A n \in Nat : \E f : Run(f, n)
  <2>1. SUFFICES ASSUME { n \in Nat : ~ \E f : Run(f, n) } # {}
                 PROVE  FALSE
    OBVIOUS
  <2>2. PICK n \in { k \in Nat : ~ \E f : Run(f, k) } :
               \A k \in { j \in Nat : ~ \E f : Run(f, j) } : n <= k
    BY <2>1, LeastNumber
  <2>3. CASE n = 0
    <3>1. Run([ i \in 0 .. n |-> m ], n)
      BY <2>3 DEF Run
    <3> QED
      BY <2>2, <3>1
  <2>4. CASE n # 0
    <3>1. n - 1 \in Nat /\ ~ (n <= n - 1)
      BY <2>2, <2>4
    <3>2. PICK f : Run(f, n - 1)
      BY <2>2, <3>1
    <3> DEFINE g == [ i \in 0 .. n |-> IF i = 0 THEN m ELSE Step(c, f[i - 1], in, count, out, i) ]
    <3>3. \A i \in 1 .. n : g[i - 1] = f[i - 1]
      BY <2>2, <3>1, <3>2 DEF Run
    <3>4. ASSUME NEW i \in 0 .. n
          PROVE  g[i] = IF i = 0 THEN m ELSE Step(c, g[i - 1], in, count, out, i)
      <4>1. g[i] = IF i = 0 THEN m ELSE Step(c, f[i - 1], in, count, out, i)
        OBVIOUS
      <4> HIDE DEF g
      <4>2. i # 0 => g[i - 1] = f[i - 1]
        BY <2>2, <3>3
      <4>3. CASE i = 0
        BY <4>1, <4>3
      <4>4. CASE i # 0
        <5>1. g[i - 1] = f[i - 1]
          BY <4>2, <4>4
        <5>2. g[i] = Step(c, f[i - 1], in, count, out, i)
          BY <4>1, <4>4
        <5>3. g[i] = Step(c, g[i - 1], in, count, out, i)
          BY <5>1, <5>2
        <5> QED
          BY <4>4, <5>3
      <4> QED
        BY <4>3, <4>4
    <3>5. Run(g, n)
      <4>1. g = [ i \in 0 .. n |-> g[i] ]
        OBVIOUS
      <4> HIDE DEF g
      <4> QED
        BY <3>4, <4>1 DEF Run
    <3> HIDE DEF g
    <3> QED
      BY <2>2, <3>5
  <2> QED
    BY <2>3, <2>4
<1> DEFINE after == CHOOSE f : Run(f, count)
<1>2. Run(after, count)
  BY <1>1
<1>3. Loop(c, m, in, count, out) = after[count]
  BY DEF Loop, Run, Step, At
<1>4. LoopRun(after, c, m, in, count, out)
  BY <1>2 DEF Run, LoopRun
<1> HIDE DEF after
<1> QED
  BY <1>3, <1>4

-----------------------------------------------------------------------------
(* Converters: their sizes, which the proofs that go by their parts rest on. *)

\* The converters that the library makes of the client's arguments and of others.
\* Logarithms are limited to those that it really makes, of any base above 1, and to what
\* cloning makes of them.  The smallest such set is that of the terms over these types.
AllConverters ==
  /\ { c \in Built(Converter) : ~Is(c, "log") } \subseteq Converter
  /\ \A base \in Bases : base > 1 => Log(base, FALSE) \in Converter
  /\ \A c \in Converter : Is(c, "log") => Log(c.base, ~c.inverted) \in Converter

\* Parts are smaller.
LEMMA SizeFacts ==
  /\ Size(NoConverter) = 0
  /\ \A c \in Converter :
       /\ c # NoConverter
       /\ Size(c) \in Nat
       /\ c \in {Trivial, Reciprocal} => Size(c) = 0
       /\ c \notin {Trivial, Reciprocal} /\ ~Is(c, "composite") => Size(c) = 1
       /\ Is(c, "composite") =>
            /\ c.first \in Converter /\ c.second \in Converter
            /\ c = Composite(c.first, c.second)
            /\ Size(c) = 1 + Size(c.first) + Size(c.second)
            /\ Size(c.first) < Size(c) /\ Size(c.second) < Size(c)
<1>1. Size(NoConverter) = 0
  BY SizeAssumption DEF SizeFrom
<1>2. ASSUME NEW c \in Converter
      PROVE  /\ c # NoConverter
             /\ Size(c) \in Nat
             /\ c \in {Trivial, Reciprocal} => Size(c) = 0
             /\ c \notin {Trivial, Reciprocal} /\ ~Is(c, "composite") => Size(c) = 1
  BY SizeAssumption, ConverterAssumption DEF SizeFrom
<1>3. ASSUME NEW c \in Converter, Is(c, "composite")
      PROVE  /\ c.first \in Converter /\ c.second \in Converter
             /\ c = Composite(c.first, c.second)
             /\ Size(c) = 1 + Size(c.first) + Size(c.second)
             /\ Size(c.first) < Size(c) /\ Size(c.second) < Size(c)
  <2>1. c \in [type : {"composite"}, first : Converter, second : Converter]
    BY <1>3, ConverterAssumption DEF Built, Is, Trivial, Reciprocal
  <2>2. c.first \in Converter /\ c.second \in Converter /\ c = Composite(c.first, c.second)
    BY <2>1 DEF Composite
  <2>3. c \notin {Trivial, Reciprocal}
    BY <1>3 DEF Is, Trivial, Reciprocal
  <2>4. Size(c) = 1 + Size(c.first) + Size(c.second)
    BY <1>2, <1>3, <2>3, SizeAssumption DEF SizeFrom
  <2> QED
    BY <1>2, <2>2, <2>4
<1> QED
  BY <1>1, <1>2, <1>3

\* A property of all converters can be proved of one from those that are smaller.
LEMMA SmallestConverter ==
  ASSUME NEW S, S \subseteq Converter, S # {}
  PROVE  \E c \in S : \A d \in Converter : Size(d) < Size(c) => d \notin S
<1> DEFINE sizes == { Size(c) : c \in S }
<1>1. sizes \subseteq Nat /\ sizes # {}
  BY SizeFacts
<1>2. PICK n \in sizes : \A k \in sizes : n <= k
  BY <1>1, LeastNumber
<1>3. PICK c \in S : n = Size(c)
  BY <1>2
<1>4. ASSUME NEW d \in Converter, Size(d) < Size(c), d \in S
      PROVE  FALSE
  <2>1. Size(c) <= Size(d)
    BY <1>2, <1>3, <1>4
  <2>2. Size(c) \in Nat /\ Size(d) \in Nat
    BY SizeFacts
  <2> QED
    BY <1>4, <2>1, <2>2
<1> QED
  BY <1>4

-----------------------------------------------------------------------------
(* Converters: the blocks that each function allocates.                    *)

\* An outcome that counts the blocks of what it gives.
Counted(got) ==
  /\ got.conv \in Converter \cup {NoConverter}
  /\ got.blocks = Size(got.conv)

\* The constructors.
LEMMA NewCounts ==
  ASSUME NEW c \in Converter, c \notin {Trivial, Reciprocal}, ~Is(c, "composite")
  PROVE  \A got \in New(c) : Counted(got)
BY SizeFacts DEF New, Got, Failed, Counted

LEMMA GetCounts ==
  ASSUME AllConverters
  PROVE  /\ Counted(Got(Trivial, 0)) /\ Counted(Got(Reciprocal, 0)) /\ Counted(Failed)
         /\ \A k \in Int : \A got \in GetScale(k) : Counted(got)
         /\ \A o \in Int : \A got \in GetOffset(o) : Counted(got)
         /\ \A k, o \in Int : \A got \in GetGalilean(k, o) : Counted(got)
         /\ \A base \in Int : \A got \in GetPow(base) : Counted(got)
         /\ \A base \in Bases : \A got \in GetLog(base) : Counted(got)
<1>1. Trivial \in Converter /\ Reciprocal \in Converter
  BY DEF AllConverters, Built, Is, Trivial, Reciprocal
<1>2. Counted(Got(Trivial, 0)) /\ Counted(Got(Reciprocal, 0)) /\ Counted(Failed)
  BY <1>1, SizeFacts DEF Counted, Got, Failed
<1>3. ASSUME NEW k \in Int
      PROVE  \A got \in GetScale(k) : Counted(got)
  <2>1. Scale(k) \in Converter /\ Scale(k) \notin {Trivial, Reciprocal} /\ ~Is(Scale(k), "composite")
    BY DEF AllConverters, Built, Is, Scale, Trivial, Reciprocal
  <2> QED
    BY <1>2, <2>1, NewCounts DEF GetScale
<1>4. ASSUME NEW o \in Int
      PROVE  \A got \in GetOffset(o) : Counted(got)
  <2>1. Offset(o) \in Converter /\ Offset(o) \notin {Trivial, Reciprocal} /\ ~Is(Offset(o), "composite")
    BY DEF AllConverters, Built, Is, Offset, Trivial, Reciprocal
  <2> QED
    BY <1>2, <2>1, NewCounts DEF GetOffset
<1>5. ASSUME NEW k \in Int, NEW o \in Int
      PROVE  \A got \in GetGalilean(k, o) : Counted(got)
  <2>1. /\ Galilean(k, o) \in Converter /\ Galilean(k, o) \notin {Trivial, Reciprocal}
        /\ ~Is(Galilean(k, o), "composite")
    BY DEF AllConverters, Built, Is, Galilean, Trivial, Reciprocal
  <2> QED
    BY <1>3, <1>4, <2>1, NewCounts DEF GetGalilean
<1>6. ASSUME NEW base \in Int
      PROVE  \A got \in GetPow(base) : Counted(got)
  <2>1. Exp(base) \in Converter /\ Exp(base) \notin {Trivial, Reciprocal} /\ ~Is(Exp(base), "composite")
    BY DEF AllConverters, Built, Is, Exp, Trivial, Reciprocal
  <2> QED
    BY <1>2, <2>1, NewCounts DEF GetPow
<1>7. ASSUME NEW base \in Bases
      PROVE  \A got \in GetLog(base) : Counted(got)
  <2>1. base > 1 => Log(base, FALSE) \in Converter
    BY DEF AllConverters
  <2>2. Log(base, FALSE) \notin {Trivial, Reciprocal} /\ ~Is(Log(base, FALSE), "composite")
    BY DEF Is, Log, Trivial, Reciprocal
  <2>3. base \in Int
    BY ArgumentAssumption
  <2>4. CASE base <= 1
    BY <1>2, <2>4 DEF GetLog
  <2>5. CASE base > 1
    <3>1. \A got \in New(Log(base, FALSE)) : Counted(got)
      BY <2>1, <2>2, <2>5, NewCounts
    <3>2. ~ (base <= 1)
      BY <2>3, <2>5
    <3>3. GetLog(base) = New(Log(base, FALSE))
      BY <3>2, Zenon DEF GetLog
    <3> QED
      BY <3>1, <3>3, Zenon
  <2> QED
    BY <2>3, <2>4, <2>5
<1> QED
  BY <1>2, <1>3, <1>4, <1>5, <1>6, <1>7

\* The fields of a converter.
LEMMA Fields ==
  ASSUME NEW c \in Converter
  PROVE  /\ Is(c, "trivial") => c = Trivial
         /\ Is(c, "reciprocal") => c = Reciprocal
         /\ Is(c, "scale") => c.value \in Int /\ c = Scale(c.value)
         /\ Is(c, "offset") => c.value \in Int /\ c = Offset(c.value)
         /\ Is(c, "galilean") =>
              c.slope \in Int /\ c.intercept \in Int /\ c = Galilean(c.slope, c.intercept)
         /\ Is(c, "exp") => c.base \in Int /\ c = Exp(c.base)
         /\ Is(c, "log") =>
              c.base \in Int /\ c.inverted \in BOOLEAN /\ c = Log(c.base, c.inverted)
         /\ c.type \in {"trivial", "reciprocal", "scale", "offset", "galilean", "exp", "log", "composite"}
<1>1. c \in Built(Converter)
  BY ConverterAssumption
<1>2. CASE c \in {Trivial, Reciprocal}
  BY <1>2 DEF Is, Trivial, Reciprocal
<1>3. CASE c \in [type : {"scale"}, value : Int]
  BY <1>3 DEF Is, Scale
<1>4. CASE c \in [type : {"offset"}, value : Int]
  BY <1>4 DEF Is, Offset
<1>5. CASE c \in [type : {"galilean"}, slope : Int, intercept : Int]
  BY <1>5 DEF Is, Galilean
<1>6. CASE c \in [type : {"exp"}, base : Int]
  BY <1>6 DEF Is, Exp
<1>7. CASE c \in [type : {"log"}, base : Int, inverted : BOOLEAN]
  BY <1>7 DEF Is, Log
<1>8. CASE c \in [type : {"composite"}, first : Converter, second : Converter]
  BY <1>8 DEF Is
<1> QED
  BY <1>1, <1>2, <1>3, <1>4, <1>5, <1>6, <1>7, <1>8 DEF Built

\* A clone of a logarithm.
LEMMA CloneLogCounts ==
  ASSUME AllConverters, NEW c \in Converter, Is(c, "log")
  PROVE  \A got \in CloneLog(c) : Counted(got)
<1>1. c.base \in Int /\ c.inverted \in BOOLEAN /\ c = Log(c.base, c.inverted)
  BY Fields
<1>2. Log(c.base, ~c.inverted) \in Converter
  BY DEF AllConverters
<1>3. Log(c.base, ~c.inverted) \notin {Trivial, Reciprocal} /\ ~Is(Log(c.base, ~c.inverted), "composite")
  BY DEF Is, Log, Trivial, Reciprocal
<1>4. c \notin {Trivial, Reciprocal} /\ ~Is(c, "composite")
  BY DEF Is, Trivial, Reciprocal
<1>5. (\A got \in New(c) : Counted(got)) /\ (\A got \in New(Log(c.base, ~c.inverted)) : Counted(got))
  BY <1>2, <1>3, <1>4, NewCounts
<1>6. CloneLog(c) \in {New(c), New(Log(c.base, ~c.inverted))}
  BY Zenon DEF CloneLog
<1> QED
  BY <1>5, <1>6

\* What two converters are merged into.
LEMMA MergedCases ==
  ASSUME NEW f, NEW s
  PROVE  \/ Is(f, "reciprocal") /\ Is(s, "reciprocal") /\ Merged(f, s) = {Got(Trivial, 0)}
         \/ Is(f, "scale") /\ Is(s, "scale") /\ Merged(f, s) = GetScale(f.value * s.value)
         \/ Is(f, "scale") /\ Is(s, "offset") /\ Merged(f, s) = GetGalilean(f.value, s.value)
         \/ /\ Is(f, "scale") /\ Is(s, "galilean")
            /\ Merged(f, s) = GetGalilean(f.value * s.slope, s.intercept)
         \/ /\ Is(f, "offset") /\ Is(s, "scale")
            /\ Merged(f, s) = GetGalilean(s.value, f.value * s.value)
         \/ Is(f, "offset") /\ Is(s, "offset") /\ Merged(f, s) = GetOffset(f.value + s.value)
         \/ /\ Is(f, "offset") /\ Is(s, "galilean")
            /\ Merged(f, s) = GetGalilean(s.slope, f.value * s.slope + s.intercept)
         \/ /\ Is(f, "galilean") /\ Is(s, "scale")
            /\ Merged(f, s) = GetGalilean(s.value * f.slope, s.value * f.intercept)
         \/ /\ Is(f, "galilean") /\ Is(s, "offset")
            /\ Merged(f, s) = GetGalilean(f.slope, f.intercept + s.value)
         \/ /\ Is(f, "galilean") /\ Is(s, "galilean")
            /\ Merged(f, s) = GetGalilean(s.slope * f.slope, s.slope * f.intercept + s.intercept)
         \/ Merged(f, s) = {Failed}
<1>1. CASE Is(f, "reciprocal")
  BY <1>1, Zenon DEF Merged, Is
<1>2. CASE Is(f, "scale")
  BY <1>2, Zenon DEF Merged, Is
<1>3. CASE Is(f, "offset")
  BY <1>3, Zenon DEF Merged, Is
<1>4. CASE Is(f, "galilean")
  BY <1>4, Zenon DEF Merged, Is
<1>5. CASE ~Is(f, "reciprocal") /\ ~Is(f, "scale") /\ ~Is(f, "offset") /\ ~Is(f, "galilean")
  BY <1>5, Zenon DEF Merged
<1> QED
  BY <1>1, <1>2, <1>3, <1>4, <1>5

LEMMA MergedCounts ==
  ASSUME AllConverters, NEW f \in Converter, NEW s \in Converter
  PROVE  \A got \in Merged(f, s) : Counted(got)
<1>1. /\ Is(f, "scale") \/ Is(f, "offset") => f.value \in Int
      /\ Is(f, "galilean") => f.slope \in Int /\ f.intercept \in Int
      /\ Is(s, "scale") \/ Is(s, "offset") => s.value \in Int
      /\ Is(s, "galilean") => s.slope \in Int /\ s.intercept \in Int
  BY Fields
<1>2. \A k, l \in Int : k * l \in Int /\ \A o \in Int : k * l + o \in Int
  OBVIOUS
<1>3. \/ Merged(f, s) \in {{Got(Trivial, 0)}, {Failed}}
      \/ \E k \in Int : Merged(f, s) = GetScale(k)
      \/ \E o \in Int : Merged(f, s) = GetOffset(o)
      \/ \E k, o \in Int : Merged(f, s) = GetGalilean(k, o)
  BY <1>1, <1>2, MergedCases
<1> QED
  BY <1>3, GetCounts

\* A composite has all the blocks of the clones that it holds, or they are gone.
LEMMA ComposeCounts ==
  ASSUME AllConverters, NEW f \in Converter, NEW s \in Converter,
         \A got \in Clone(f) \cup Clone(s) : Counted(got)
  PROVE  \A got \in Compose(Clone(f), Clone(s)) : Counted(got)
<1>1. ASSUME NEW got \in Compose(Clone(f), Clone(s))
      PROVE  Counted(got)
  <2>1. PICK a \in Clone(f) :
          \/ a.conv = NoConverter /\ got = a
          \/ /\ a.conv # NoConverter
             /\ \E b \in Clone(s) :
                  \/ b.conv = NoConverter /\ got = Got(NoConverter, a.blocks + b.blocks - Size(a.conv))
                  \/ /\ b.conv # NoConverter
                     /\ \/ got = Got(Composite(a.conv, b.conv), a.blocks + b.blocks + 1)
                        \/ got = Got(NoConverter, a.blocks + b.blocks - Size(b.conv) - Size(a.conv))
    BY DEF Compose, Composed
  <2>2. Counted(a)
    OBVIOUS
  <2>3. CASE a.conv = NoConverter
    BY <2>1, <2>2, <2>3
  <2>4. CASE a.conv # NoConverter
    <3>1. PICK b \in Clone(s) :
                  \/ b.conv = NoConverter /\ got = Got(NoConverter, a.blocks + b.blocks - Size(a.conv))
                  \/ /\ b.conv # NoConverter
                     /\ \/ got = Got(Composite(a.conv, b.conv), a.blocks + b.blocks + 1)
                        \/ got = Got(NoConverter, a.blocks + b.blocks - Size(b.conv) - Size(a.conv))
      BY <2>1, <2>4
    <3>2. Counted(b)
      OBVIOUS
    <3>3. /\ a.conv \in Converter /\ a.blocks = Size(a.conv) /\ Size(a.conv) \in Nat
          /\ b.conv # NoConverter => b.conv \in Converter
          /\ b.blocks = Size(b.conv) /\ Size(b.conv) \in Nat /\ Size(NoConverter) = 0
      BY <2>2, <2>4, <3>2, SizeFacts DEF Counted
    <3>4. CASE b.conv = NoConverter
      BY <3>1, <3>3, <3>4 DEF Counted, Got
    <3>5. CASE got = Got(NoConverter, a.blocks + b.blocks - Size(b.conv) - Size(a.conv))
      BY <3>3, <3>5 DEF Counted, Got
    <3>6. CASE b.conv # NoConverter /\ got = Got(Composite(a.conv, b.conv), a.blocks + b.blocks + 1)
      <4>1. Composite(a.conv, b.conv) \in Converter
        BY <3>3, <3>6 DEF AllConverters, Built, Is, Composite
      <4>2. Is(Composite(a.conv, b.conv), "composite")
        BY DEF Is, Composite
      <4>3. Size(Composite(a.conv, b.conv)) = 1 + Size(a.conv) + Size(b.conv)
        BY <4>1, <4>2, SizeFacts DEF Composite
      <4> QED
        BY <3>3, <3>6, <4>1, <4>3 DEF Counted, Got
    <3> QED
      BY <3>1, <3>4, <3>5, <3>6
  <2> QED
    BY <2>3, <2>4
<1> QED
  BY <1>1

LEMMA CombineCounts ==
  ASSUME AllConverters, NEW f \in Converter \cup {NoConverter}, NEW s \in Converter \cup {NoConverter},
         f # NoConverter /\ s # NoConverter => \A got \in Clone(f) \cup Clone(s) : Counted(got)
  PROVE  \A got \in Combine(f, s) : Counted(got)
<1>1. CASE f = NoConverter \/ s = NoConverter
  BY <1>1, GetCounts DEF Combine, Combined
<1>2. CASE f # NoConverter /\ s # NoConverter
  <2>1. \A got \in Clone(f) \cup Clone(s) \cup Compose(Clone(f), Clone(s)) \cup Merged(f, s) : Counted(got)
    BY <1>2, ComposeCounts, MergedCounts
  <2>2. Combine(f, s) \subseteq Clone(f) \cup Clone(s) \cup Compose(Clone(f), Clone(s)) \cup Merged(f, s)
    BY <1>2 DEF Combine, Combined
  <2> QED
    BY <2>1, <2>2
<1> QED
  BY <1>1, <1>2

\* A clone has blocks of its own, as many as cv_free() gives back.
LEMMA CloneCounts ==
  ASSUME AllConverters
  PROVE  \A c \in Converter : \A got \in Clone(c) : Counted(got)
<1> DEFINE Bad == { c \in Converter : ~ \A got \in Clone(c) : Counted(got) }
<1>1. SUFFICES ASSUME Bad # {}
               PROVE  FALSE
  OBVIOUS
<1>2. PICK c \in Bad : \A d \in Converter : Size(d) < Size(c) => d \notin Bad
  BY <1>1, SmallestConverter
<1>3. Clone(c) = CloneFrom(c, Clone(c.first), Clone(c.second))
  BY CloneAssumption
<1>4. c \in Converter /\ ~ \A got \in Clone(c) : Counted(got)
  OBVIOUS
<1>5. CASE Is(c, "composite")
  <2>1. /\ c.first \in Converter /\ c.second \in Converter
        /\ c.first # NoConverter /\ c.second # NoConverter
        /\ Size(c.first) < Size(c) /\ Size(c.second) < Size(c)
    BY <1>5, SizeFacts
  <2>2. \A got \in Clone(c.first) \cup Clone(c.second) : Counted(got)
    BY <1>2, <2>1
  <2>3. \A got \in Combine(c.first, c.second) : Counted(got)
    BY <2>1, <2>2, CombineCounts
  <2>4. Clone(c) = Combine(c.first, c.second)
    BY <1>3, <1>5 DEF CloneFrom, Combine, Is
  <2> QED
    BY <1>4, <2>3, <2>4
<1>6. CASE Is(c, "log")
  <2>1. Clone(c) = CloneLog(c)
    BY <1>3, <1>6 DEF CloneFrom, Is
  <2> QED
    BY <1>4, <1>6, <2>1, CloneLogCounts
<1>7. CASE ~Is(c, "composite") /\ ~Is(c, "log")
  <2>1. \/ Clone(c) \in {{Got(Trivial, 0)}, {Got(Reciprocal, 0)}}
        \/ \E k \in Int : Clone(c) = GetScale(k)
        \/ \E o \in Int : Clone(c) = GetOffset(o)
        \/ \E k, o \in Int : Clone(c) = GetGalilean(k, o)
        \/ \E base \in Int : Clone(c) = GetPow(base)
    BY <1>3, <1>4, <1>7, Fields DEF CloneFrom, Is
  <2> QED
    BY <1>4, <2>1, GetCounts
<1> QED
  BY <1>5, <1>6, <1>7

-----------------------------------------------------------------------------
(* Converters: the blocks of the client.                                   *)

BlocksOf(reg, r) == {r} \X (1 .. Size(reg[r]))
Blocks(reg) == UNION { BlocksOf(reg, r) : r \in Register }

BInv ==
  /\ register \in [Register -> Converter \cup {NoConverter}]
  /\ IsFiniteSet(Blocks(register))
  /\ used = Cardinality(Blocks(register))

LEMMA BlocksOfOne ==
  ASSUME NEW reg \in [Register -> Converter \cup {NoConverter}], NEW r \in Register
  PROVE  /\ IsFiniteSet(BlocksOf(reg, r))
         /\ Cardinality(BlocksOf(reg, r)) = Size(reg[r])
         /\ Size(reg[r]) \in Nat
<1> DEFINE n == Size(reg[r])
<1>1. n \in Nat
  BY SizeFacts
<1>2. IsFiniteSet(1 .. n) /\ Cardinality(1 .. n) = n
  BY <1>1, FS_Interval
<1> DEFINE f == [ i \in 1 .. n |-> <<r, i>> ]
<1>3. f \in Bijection(1 .. n, {r} \X (1 .. n))
  BY DEF Bijection, Injection, Surjection, IsInjective
<1>4. ExistsBijection(1 .. n, {r} \X (1 .. n))
  BY <1>3 DEF ExistsBijection
<1>5. IsFiniteSet({r} \X (1 .. n)) /\ Cardinality({r} \X (1 .. n)) = Cardinality(1 .. n)
  BY <1>2, <1>4, FS_Bijection
<1> QED
  BY <1>1, <1>2, <1>5 DEF BlocksOf

\* The client's variables are told apart, so that blocks of one are not those of another.
LEMMA BlocksChange ==
  ASSUME NEW reg \in [Register -> Converter \cup {NoConverter}], NEW r \in Register,
         NEW c \in Converter \cup {NoConverter}, IsFiniteSet(Blocks(reg))
  PROVE  LET new == [reg EXCEPT ![r] = c]
         IN /\ IsFiniteSet(Blocks(new))
            /\ Cardinality(Blocks(new)) = Cardinality(Blocks(reg)) - Size(reg[r]) + Size(c)
<1> DEFINE new == [reg EXCEPT ![r] = c]
           rest == Blocks(reg) \ BlocksOf(reg, r)
<1>1. new \in [Register -> Converter \cup {NoConverter}] /\ new[r] = c
  OBVIOUS
<1>2. \A q \in Register : q # r => BlocksOf(new, q) = BlocksOf(reg, q)
  BY DEF BlocksOf
<1>3. \A q \in Register : q # r =>
        BlocksOf(reg, q) \cap BlocksOf(reg, r) = {} /\ BlocksOf(reg, q) \cap BlocksOf(new, r) = {}
  BY DEF BlocksOf
<1> HIDE DEF new
<1>4. /\ IsFiniteSet(BlocksOf(reg, r)) /\ Cardinality(BlocksOf(reg, r)) = Size(reg[r])
      /\ IsFiniteSet(BlocksOf(new, r)) /\ Cardinality(BlocksOf(new, r)) = Size(c)
      /\ Size(reg[r]) \in Nat /\ Size(c) \in Nat
  BY <1>1, BlocksOfOne
<1>5. Blocks(reg) = rest \cup BlocksOf(reg, r) /\ rest \cap BlocksOf(reg, r) = {}
  BY DEF Blocks
<1>6. Blocks(new) = rest \cup BlocksOf(new, r) /\ rest \cap BlocksOf(new, r) = {}
  <2>1. \A z : z \in rest <=> \E q \in Register : q # r /\ z \in BlocksOf(reg, q)
    BY <1>3 DEF Blocks
  <2>2. \A z : z \in Blocks(new) <=> \E q \in Register : z \in BlocksOf(new, q)
    BY DEF Blocks
  <2> HIDE DEF rest
  <2>3. \A z : z \in Blocks(new) <=> z \in rest \/ z \in BlocksOf(new, r)
    BY <1>2, <2>1, <2>2
  <2>4. \A z : ~ (z \in rest /\ z \in BlocksOf(new, r))
    BY <1>3, <2>1
  <2> QED
    BY <2>3, <2>4
<1>7. IsFiniteSet(rest)
  BY FS_Subset
<1> HIDE DEF rest
<1>8. Cardinality(rest) \in Nat /\ Cardinality({}) = 0
  BY <1>7, FS_CardinalityType, FS_EmptySet
<1>9. Cardinality(Blocks(reg)) = Cardinality(rest) + Size(reg[r])
  <2>1. Cardinality(rest \cup BlocksOf(reg, r)) =
          Cardinality(rest) + Cardinality(BlocksOf(reg, r)) - Cardinality(rest \cap BlocksOf(reg, r))
    BY <1>4, <1>7, FS_Union
  <2>2. Cardinality(rest \cap BlocksOf(reg, r)) = 0
    BY <1>5, <1>8
  <2>3. Cardinality(rest \cup BlocksOf(reg, r)) = Cardinality(rest) + Size(reg[r])
    BY <1>4, <1>8, <2>1, <2>2
  <2> QED
    BY <1>5, <2>3
<1>10. IsFiniteSet(Blocks(new)) /\ Cardinality(Blocks(new)) = Cardinality(rest) + Size(c)
  <2>1. /\ IsFiniteSet(rest \cup BlocksOf(new, r))
        /\ Cardinality(rest \cup BlocksOf(new, r)) =
             Cardinality(rest) + Cardinality(BlocksOf(new, r)) - Cardinality(rest \cap BlocksOf(new, r))
    BY <1>4, <1>7, FS_Union
  <2>2. Cardinality(rest \cap BlocksOf(new, r)) = 0
    BY <1>6, <1>8
  <2>3. Cardinality(rest \cup BlocksOf(new, r)) = Cardinality(rest) + Size(c)
    BY <1>4, <1>8, <2>1, <2>2
  <2> QED
    BY <1>6, <2>1, <2>3
<1> QED
  BY <1>4, <1>8, <1>9, <1>10 DEF new

LEMMA KeepCounts ==
  ASSUME BInv, NEW r \in Register, NEW outcomes, \A got \in outcomes : Counted(got), Keep(r, outcomes)
  PROVE  BInv'
<1>1. PICK got \in outcomes : register' = [register EXCEPT ![r] = got.conv] /\ used' = used + got.blocks
  BY DEF Keep
<1>2. register[r] = NoConverter /\ Size(NoConverter) = 0
  BY SizeFacts DEF Keep
<1>3. got.conv \in Converter \cup {NoConverter} /\ got.blocks = Size(got.conv)
  BY DEF Counted
<1>4. /\ IsFiniteSet(Blocks(register'))
      /\ Cardinality(Blocks(register')) = Cardinality(Blocks(register)) - 0 + Size(got.conv)
  BY <1>1, <1>2, <1>3, BlocksChange DEF BInv
<1>5. Cardinality(Blocks(register)) \in Nat /\ Size(got.conv) \in Nat
  BY <1>3, FS_CardinalityType, SizeFacts DEF BInv
<1> QED
  BY <1>1, <1>3, <1>4, <1>5 DEF BInv

LEMMA StepCounts ==
  ASSUME AllConverters, BInv, [CvNext]_cvVars
  PROVE  BInv'
<1>1. ASSUME NEW r \in Register, CvGet(r)
      PROVE  BInv'
  <2>1. PICK outcomes : Keep(r, outcomes) /\ \A got \in outcomes : Counted(got)
    <3>1. CASE Keep(r, {Got(Trivial, 0)}) \/ Keep(r, {Got(Reciprocal, 0)})
      BY <3>1, GetCounts
    <3>2. CASE \E k \in Slopes : Keep(r, GetScale(k))
      BY <3>2, GetCounts, ArgumentAssumption
    <3>3. CASE \E o \in Offsets : Keep(r, GetOffset(o))
      BY <3>3, GetCounts, ArgumentAssumption
    <3>4. CASE \E k \in Slopes, o \in Offsets : Keep(r, GetGalilean(k, o))
      BY <3>4, GetCounts, ArgumentAssumption
    <3>5. CASE \E base \in Bases : Keep(r, GetLog(base)) \/ Keep(r, GetPow(base))
      BY <3>5, GetCounts, ArgumentAssumption
    <3> QED
      BY <1>1, <3>1, <3>2, <3>3, <3>4, <3>5 DEF CvGet
  <2> QED
    BY <2>1, KeepCounts
<1>2. ASSUME NEW r \in Register, CvFree(r)
      PROVE  BInv'
  <2>1. Size(NoConverter) = 0 /\ Size(register[r]) \in Nat
    BY SizeFacts DEF BInv
  <2>2. /\ IsFiniteSet(Blocks(register'))
        /\ Cardinality(Blocks(register')) = Cardinality(Blocks(register)) - Size(register[r]) + 0
    BY <1>2, <2>1, BlocksChange DEF CvFree, BInv
  <2>3. Cardinality(Blocks(register)) \in Nat
    BY FS_CardinalityType DEF BInv
  <2> QED
    BY <1>2, <2>1, <2>2, <2>3 DEF CvFree, BInv
<1>3. ASSUME NEW r \in Register, NEW x \in Register, NEW y \in Register, CvCombine(r, x, y)
      PROVE  BInv'
  <2>1. \A c \in Converter : \A got \in Clone(c) : Counted(got)
    BY CloneCounts
  <2>2. register[x] \in Converter \cup {NoConverter} /\ register[y] \in Converter \cup {NoConverter}
    BY DEF BInv
  <2>3. \A got \in Combine(register[x], register[y]) : Counted(got)
    BY <2>1, <2>2, CombineCounts
  <2> QED
    BY <1>3, <2>3, KeepCounts DEF CvCombine
<1>4. CASE \E r \in Register, p \in Parts : CvConvert(r, p[1], p[2], p[3])
  BY <1>4 DEF CvConvert, BInv
<1>5. CASE UNCHANGED cvVars
  BY <1>5 DEF cvVars, BInv
<1> QED
  BY <1>1, <1>2, <1>3, <1>4, <1>5 DEF CvNext

LEMMA InitCounts == CvInit => BInv
<1> SUFFICES ASSUME CvInit
             PROVE  BInv
  OBVIOUS
<1>1. \A r \in Register : BlocksOf(register, r) = {}
  BY SizeFacts DEF CvInit, BlocksOf
<1>2. Blocks(register) = {}
  BY <1>1 DEF Blocks
<1> QED
  BY <1>2, FS_EmptySet DEF CvInit, BInv

\* Whatever malloc() refuses in the functions that make, clone and combine converters,
\* the blocks allocated are exactly those of the converters that the client holds.
THEOREM BlocksAreHeld == AllConverters => (CvSpec => []NothingLeaks)
<1> SUFFICES ASSUME AllConverters
             PROVE  CvSpec => []NothingLeaks
  OBVIOUS
<1>1. CvInit => BInv
  BY InitCounts
<1>2. BInv /\ [CvNext]_cvVars => BInv'
  BY StepCounts
<1>3. BInv => NothingLeaks
  BY DEF BInv, NothingLeaks, Blocks, BlocksOf
<1> QED
  BY <1>1, <1>2, <1>3, PTL DEF CvSpec

-----------------------------------------------------------------------------
(* Converters: what they compute.                                          *)

\* The numbers that the library makes of the client's and of others.  The smallest such
\* set is that of the terms, and OneOver() takes itself back on them.
AllNumbers ==
  /\ \A i \in 0 .. Cells : Opaque(<<"cell", i>>) \in Number
  /\ \A v \in Number :
       /\ OneOver(v) \in Number
       /\ \A k, o \in Int : Linear(v, k, o) \in Number
       /\ \A base \in Int :
            /\ Opaque(<<"pow", v, base>>) \in Number
            /\ \A inverted \in BOOLEAN : Opaque(<<"log", v, base, inverted>>) \in Number

LEMMA LinearOnce ==
  ASSUME NEW v \in Number
  PROVE  Linear(v, 1, 0) = v
<1>1. v.a \in Int /\ v.b \in Int /\ v = [a |-> v.a, b |-> v.b, of |-> v.of]
  BY NumberAssumption
<1>2. 1 * v.a = v.a /\ 1 * v.b + 0 = v.b
  BY <1>1
<1>3. Linear(v, 1, 0) = [a |-> 1 * v.a, b |-> 1 * v.b + 0, of |-> v.of]
  BY <1>1 DEF Linear
<1> QED
  BY <1>1, <1>2, <1>3

LEMMA LinearTwice ==
  ASSUME NEW v \in Number, NEW k \in Int, NEW o \in Int, NEW l \in Int, NEW m \in Int
  PROVE  Linear(Linear(v, k, o), l, m) = Linear(v, l * k, l * o + m)
<1>1. v.a \in Int /\ v.b \in Int /\ v = [a |-> v.a, b |-> v.b, of |-> v.of]
  BY NumberAssumption
<1>2. Linear(v, k, o) = [a |-> k * v.a, b |-> k * v.b + o, of |-> v.of]
  BY <1>1 DEF Linear
<1>3. Linear(Linear(v, k, o), l, m) = [a |-> l * (k * v.a), b |-> l * (k * v.b + o) + m, of |-> v.of]
  BY <1>2 DEF Linear
<1>4. Linear(v, l * k, l * o + m) = [a |-> (l * k) * v.a, b |-> (l * k) * v.b + (l * o + m), of |-> v.of]
  BY <1>1 DEF Linear
<1>5. \A a, b, x, y \in Int : a * (b * x) = (a * b) * x /\ a * (x + y) = a * x + a * y
  OBVIOUS
<1>6. l * (k * v.a) = (l * k) * v.a
  BY <1>1, <1>5
<1>7. l * (k * v.b + o) + m = (l * k) * v.b + (l * o + m)
  <2>1. k * v.b \in Int /\ l * (k * v.b) \in Int /\ l * o \in Int
    BY <1>1
  <2>2. l * (k * v.b + o) = l * (k * v.b) + l * o
    BY <1>5, <2>1
  <2>3. l * (k * v.b) = (l * k) * v.b
    BY <1>1, <1>5
  <2> QED
    BY <2>1, <2>2, <2>3
<1> QED
  BY <1>3, <1>4, <1>6, <1>7

LEMMA ConvertCases ==
  ASSUME NEW c \in Converter, NEW v \in Number
  PROVE  /\ Is(c, "trivial") => Convert(c, v) = v
         /\ Is(c, "reciprocal") => Convert(c, v) = OneOver(v)
         /\ Is(c, "scale") => Convert(c, v) = Linear(v, c.value, 0)
         /\ Is(c, "offset") => Convert(c, v) = Linear(v, 1, c.value)
         /\ Is(c, "galilean") => Convert(c, v) = Linear(v, c.slope, c.intercept)
         /\ Is(c, "log") => Convert(c, v) = Opaque(<<"log", v, c.base, c.inverted>>)
         /\ Is(c, "exp") => Convert(c, v) = Opaque(<<"pow", v, c.base>>)
         /\ Is(c, "composite") => Convert(c, v) = Convert(c.second, Convert(c.first, v))
<1>1. Convert(c, v) = ConvertFrom(c, v, Convert(c.second, Convert(c.first, v)))
  BY ConvertAssumption
<1>2. CASE Is(c, "trivial")
  BY <1>1, <1>2, Zenon DEF ConvertFrom, Is
<1>3. CASE Is(c, "reciprocal")
  BY <1>1, <1>3, Zenon DEF ConvertFrom, Is
<1>4. CASE Is(c, "scale")
  BY <1>1, <1>4, Zenon DEF ConvertFrom, Is
<1>5. CASE Is(c, "offset")
  BY <1>1, <1>5, Zenon DEF ConvertFrom, Is
<1>6. CASE Is(c, "galilean")
  BY <1>1, <1>6, Zenon DEF ConvertFrom, Is
<1>7. CASE Is(c, "log")
  BY <1>1, <1>7, Zenon DEF ConvertFrom, Is
<1>8. CASE Is(c, "exp")
  BY <1>1, <1>8, Zenon DEF ConvertFrom, Is
<1>9. CASE Is(c, "composite")
  BY <1>1, <1>9, Zenon DEF ConvertFrom, Is
<1> QED
  BY <1>2, <1>3, <1>4, <1>5, <1>6, <1>7, <1>8, <1>9, Zenon DEF Is

\* The slope and the intercept of a linear converter.
IsLinear(c) == Is(c, "scale") \/ Is(c, "offset") \/ Is(c, "galilean")
SlopeOf(c) == IF Is(c, "offset") THEN 1 ELSE IF Is(c, "scale") THEN c.value ELSE c.slope
ShiftOf(c) == IF Is(c, "scale") THEN 0 ELSE IF Is(c, "offset") THEN c.value ELSE c.intercept

LEMMA LinearPart ==
  ASSUME NEW c \in Converter, IsLinear(c)
  PROVE  /\ SlopeOf(c) \in Int /\ ShiftOf(c) \in Int
         /\ \A v \in Number : Convert(c, v) = Linear(v, SlopeOf(c), ShiftOf(c))
<1>1. CASE Is(c, "scale")
  <2>1. SlopeOf(c) = c.value /\ ShiftOf(c) = 0 /\ 0 \in Int /\ c.value \in Int
    BY <1>1, Fields DEF SlopeOf, ShiftOf, Is
  <2>2. \A v \in Number : Convert(c, v) = Linear(v, c.value, 0)
    BY <1>1, ConvertCases
  <2> QED
    BY <2>1, <2>2, Zenon
<1>2. CASE Is(c, "offset")
  <2>1. SlopeOf(c) = 1 /\ 1 \in Int /\ ShiftOf(c) = c.value /\ c.value \in Int
    BY <1>2, Fields DEF SlopeOf, ShiftOf, Is
  <2>2. \A v \in Number : Convert(c, v) = Linear(v, 1, c.value)
    BY <1>2, ConvertCases
  <2> QED
    BY <2>1, <2>2, Zenon
<1>3. CASE Is(c, "galilean")
  <2>1. SlopeOf(c) = c.slope /\ ShiftOf(c) = c.intercept /\ c.slope \in Int /\ c.intercept \in Int
    BY <1>3, Fields DEF SlopeOf, ShiftOf, Is
  <2> QED
    BY <1>3, <2>1, ConvertCases
<1> QED
  BY <1>1, <1>2, <1>3 DEF IsLinear

\* Converters convert numbers to numbers.
LEMMA ConvertIsNumber ==
  ASSUME AllNumbers
  PROVE  \A c \in Converter : \A v \in Number : Convert(c, v) \in Number
<1> DEFINE Bad == { c \in Converter : ~ \A v \in Number : Convert(c, v) \in Number }
<1>1. SUFFICES ASSUME Bad # {}
               PROVE  FALSE
  OBVIOUS
<1>2. PICK c \in Bad : \A d \in Converter : Size(d) < Size(c) => d \notin Bad
  BY <1>1, SmallestConverter
<1>3. ASSUME NEW v \in Number
      PROVE  Convert(c, v) \in Number
  <2>1. CASE Is(c, "composite")
    <3>1. /\ c.first \in Converter /\ c.second \in Converter
          /\ Size(c.first) < Size(c) /\ Size(c.second) < Size(c)
      BY <2>1, SizeFacts
    <3>2. \A w \in Number : Convert(c.first, w) \in Number /\ Convert(c.second, w) \in Number
      BY <1>2, <3>1
    <3> QED
      BY <2>1, <3>2, ConvertCases
  <2>2. CASE Is(c, "trivial") \/ Is(c, "reciprocal")
    BY <2>2, ConvertCases DEF AllNumbers
  <2>3. CASE Is(c, "scale") \/ Is(c, "offset") \/ Is(c, "galilean")
    <3>1. \E k, o \in Int : Convert(c, v) = Linear(v, k, o)
      BY <2>3, LinearPart DEF IsLinear
    <3> QED
      BY <3>1 DEF AllNumbers
  <2>4. CASE Is(c, "exp")
    <3>1. c.base \in Int /\ Convert(c, v) = Opaque(<<"pow", v, c.base>>)
      BY <2>4, Fields, ConvertCases
    <3> QED
      BY <3>1 DEF AllNumbers
  <2>5. CASE Is(c, "log")
    <3>1. c.base \in Int /\ c.inverted \in BOOLEAN
      BY <2>5, Fields
    <3>2. Convert(c, v) = Opaque(<<"log", v, c.base, c.inverted>>)
      BY <2>5, ConvertCases
    <3> QED
      BY <3>1, <3>2, Zenon DEF AllNumbers
  <2> QED
    BY <2>1, <2>2, <2>3, <2>4, <2>5, Fields DEF Is
<1> QED
  BY <1>2, <1>3

\* What is made to convert linearly does so.
LEMMA GetConverts ==
  ASSUME AllConverters, NEW v \in Number
  PROVE  /\ \A k, o \in Int : \A got \in GetGalilean(k, o) :
              got.conv # NoConverter => Convert(got.conv, v) = Linear(v, k, o)
         /\ \A k \in Int : \A got \in GetScale(k) :
              got.conv # NoConverter => Convert(got.conv, v) = Linear(v, k, 0)
         /\ \A o \in Int : \A got \in GetOffset(o) :
              got.conv # NoConverter => Convert(got.conv, v) = Linear(v, 1, o)
<1>1. Trivial \in Converter /\ Convert(Trivial, v) = Linear(v, 1, 0)
  <2>1. Trivial \in Converter
    BY DEF AllConverters, Built, Is, Trivial
  <2> QED
    BY <2>1, ConvertCases, LinearOnce DEF Is, Trivial
<1>2. ASSUME NEW k \in Int
      PROVE  Convert(Scale(k), v) = Linear(v, k, 0)
  <2>1. Scale(k) \in Converter
    BY DEF AllConverters, Built, Is, Scale
  <2> QED
    BY <2>1, ConvertCases DEF Is, Scale
<1>3. ASSUME NEW o \in Int
      PROVE  Convert(Offset(o), v) = Linear(v, 1, o)
  <2>1. Offset(o) \in Converter
    BY DEF AllConverters, Built, Is, Offset
  <2> QED
    BY <2>1, ConvertCases DEF Is, Offset
<1>4. ASSUME NEW k \in Int, NEW o \in Int
      PROVE  Convert(Galilean(k, o), v) = Linear(v, k, o)
  <2>1. Galilean(k, o) \in Converter
    BY DEF AllConverters, Built, Is, Galilean
  <2> QED
    BY <2>1, ConvertCases DEF Is, Galilean
<1>5. ASSUME NEW k \in Int
      PROVE  \A got \in GetScale(k) : got.conv # NoConverter => Convert(got.conv, v) = Linear(v, k, 0)
  BY <1>1, <1>2 DEF GetScale, New, Got, Failed
<1>6. ASSUME NEW o \in Int
      PROVE  \A got \in GetOffset(o) : got.conv # NoConverter => Convert(got.conv, v) = Linear(v, 1, o)
  BY <1>1, <1>3 DEF GetOffset, New, Got, Failed
<1>7. ASSUME NEW k \in Int, NEW o \in Int
      PROVE  \A got \in GetGalilean(k, o) : got.conv # NoConverter => Convert(got.conv, v) = Linear(v, k, o)
  BY <1>4, <1>5, <1>6 DEF GetGalilean, New, Got, Failed
<1> QED
  BY <1>5, <1>6, <1>7

LEMMA LinearPair ==
  ASSUME AllNumbers, NEW f \in Converter, IsLinear(f), NEW s \in Converter, IsLinear(s), NEW v \in Number
  PROVE  Convert(s, Convert(f, v)) =
           Linear(v, SlopeOf(s) * SlopeOf(f), SlopeOf(s) * ShiftOf(f) + ShiftOf(s))
<1>1. /\ SlopeOf(f) \in Int /\ ShiftOf(f) \in Int /\ SlopeOf(s) \in Int /\ ShiftOf(s) \in Int
      /\ Convert(f, v) = Linear(v, SlopeOf(f), ShiftOf(f))
  BY LinearPart
<1>2. Linear(v, SlopeOf(f), ShiftOf(f)) \in Number
  BY <1>1 DEF AllNumbers
<1>3. Convert(s, Convert(f, v)) = Linear(Linear(v, SlopeOf(f), ShiftOf(f)), SlopeOf(s), ShiftOf(s))
  BY <1>1, <1>2, LinearPart
<1> QED
  BY <1>1, <1>3, LinearTwice

\* Two parts that are merged into one.
LEMMA MergedConverts ==
  ASSUME AllConverters, AllNumbers, NEW f \in Converter, NEW s \in Converter, NEW v \in Number
  PROVE  \A got \in Merged(f, s) :
           got.conv # NoConverter => Convert(got.conv, v) = Convert(s, Convert(f, v))
<1>1. /\ Is(f, "scale") \/ Is(f, "offset") => f.value \in Int
      /\ Is(f, "galilean") => f.slope \in Int /\ f.intercept \in Int
      /\ Is(s, "scale") \/ Is(s, "offset") => s.value \in Int
      /\ Is(s, "galilean") => s.slope \in Int /\ s.intercept \in Int
  BY Fields
<1>2. Trivial \in Converter /\ Convert(Trivial, v) = v
  <2>1. Trivial \in Converter
    BY DEF AllConverters, Built, Is, Trivial
  <2> QED
    BY <2>1, ConvertCases DEF Is, Trivial
<1>3. CASE Merged(f, s) = {Failed}
  BY <1>3 DEF Failed, Got
<1>4. CASE Is(f, "reciprocal") /\ Is(s, "reciprocal") /\ Merged(f, s) = {Got(Trivial, 0)}
  <2>1. Convert(f, v) = OneOver(v)
    BY <1>4, ConvertCases
  <2>2. OneOver(v) \in Number
    BY DEF AllNumbers
  <2>3. \A w \in Number : Convert(s, w) = OneOver(w)
    BY <1>4, ConvertCases
  <2>4. OneOver(OneOver(v)) = v
    BY NumberAssumption
  <2>5. \A got \in Merged(f, s) : got.conv = Trivial
    BY <1>4 DEF Got
  <2> QED
    BY <1>2, <2>1, <2>2, <2>3, <2>4, <2>5
<1>5. CASE Is(f, "scale") /\ Is(s, "scale") /\ Merged(f, s) = GetScale(f.value * s.value)
  <2>1. Convert(s, Convert(f, v)) = Linear(v, s.value * f.value, s.value * 0 + 0)
    BY <1>5, LinearPair DEF IsLinear, SlopeOf, ShiftOf, Is
  <2>2. s.value * f.value = f.value * s.value /\ s.value * 0 + 0 = 0 /\ f.value * s.value \in Int
    BY <1>1, <1>5
  <2> QED
    BY <1>5, <2>1, <2>2, GetConverts
<1>6. CASE Is(f, "scale") /\ Is(s, "offset") /\ Merged(f, s) = GetGalilean(f.value, s.value)
  <2>1. Convert(s, Convert(f, v)) = Linear(v, 1 * f.value, 1 * 0 + s.value)
    BY <1>6, LinearPair DEF IsLinear, SlopeOf, ShiftOf, Is
  <2>2. 1 * f.value = f.value /\ 1 * 0 + s.value = s.value
    BY <1>1, <1>6
  <2> QED
    BY <1>1, <1>6, <2>1, <2>2, GetConverts
<1>7. CASE /\ Is(f, "scale") /\ Is(s, "galilean")
           /\ Merged(f, s) = GetGalilean(f.value * s.slope, s.intercept)
  <2>1. Convert(s, Convert(f, v)) = Linear(v, s.slope * f.value, s.slope * 0 + s.intercept)
    BY <1>7, LinearPair DEF IsLinear, SlopeOf, ShiftOf, Is
  <2>2. /\ s.slope * f.value = f.value * s.slope /\ s.slope * 0 + s.intercept = s.intercept
        /\ f.value * s.slope \in Int
    BY <1>1, <1>7
  <2> QED
    BY <1>1, <1>7, <2>1, <2>2, GetConverts
<1>8. CASE /\ Is(f, "offset") /\ Is(s, "scale")
           /\ Merged(f, s) = GetGalilean(s.value, f.value * s.value)
  <2>1. Convert(s, Convert(f, v)) = Linear(v, s.value * 1, s.value * f.value + 0)
    BY <1>8, LinearPair DEF IsLinear, SlopeOf, ShiftOf, Is
  <2>2. /\ s.value * 1 = s.value /\ s.value * f.value + 0 = f.value * s.value
        /\ f.value * s.value \in Int
    BY <1>1, <1>8
  <2> QED
    BY <1>1, <1>8, <2>1, <2>2, GetConverts
<1>9. CASE Is(f, "offset") /\ Is(s, "offset") /\ Merged(f, s) = GetOffset(f.value + s.value)
  <2>1. Convert(s, Convert(f, v)) = Linear(v, 1 * 1, 1 * f.value + s.value)
    BY <1>9, LinearPair DEF IsLinear, SlopeOf, ShiftOf, Is
  <2>2. 1 * 1 = 1 /\ 1 * f.value + s.value = f.value + s.value /\ f.value + s.value \in Int
    BY <1>1, <1>9
  <2> QED
    BY <1>9, <2>1, <2>2, GetConverts
<1>10. CASE /\ Is(f, "offset") /\ Is(s, "galilean")
            /\ Merged(f, s) = GetGalilean(s.slope, f.value * s.slope + s.intercept)
  <2>1. Convert(s, Convert(f, v)) = Linear(v, s.slope * 1, s.slope * f.value + s.intercept)
    BY <1>10, LinearPair DEF IsLinear, SlopeOf, ShiftOf, Is
  <2>2. /\ s.slope * 1 = s.slope /\ s.slope * f.value + s.intercept = f.value * s.slope + s.intercept
        /\ f.value * s.slope + s.intercept \in Int
    BY <1>1, <1>10
  <2> QED
    BY <1>1, <1>10, <2>1, <2>2, GetConverts
<1>11. CASE /\ Is(f, "galilean") /\ Is(s, "scale")
            /\ Merged(f, s) = GetGalilean(s.value * f.slope, s.value * f.intercept)
  <2>1. Convert(s, Convert(f, v)) = Linear(v, s.value * f.slope, s.value * f.intercept + 0)
    BY <1>11, LinearPair DEF IsLinear, SlopeOf, ShiftOf, Is
  <2>2. /\ s.value * f.intercept + 0 = s.value * f.intercept
        /\ s.value * f.slope \in Int /\ s.value * f.intercept \in Int
    BY <1>1, <1>11
  <2> QED
    BY <1>11, <2>1, <2>2, GetConverts
<1>12. CASE /\ Is(f, "galilean") /\ Is(s, "offset")
            /\ Merged(f, s) = GetGalilean(f.slope, f.intercept + s.value)
  <2>1. Convert(s, Convert(f, v)) = Linear(v, 1 * f.slope, 1 * f.intercept + s.value)
    BY <1>12, LinearPair DEF IsLinear, SlopeOf, ShiftOf, Is
  <2>2. /\ 1 * f.slope = f.slope /\ 1 * f.intercept + s.value = f.intercept + s.value
        /\ f.intercept + s.value \in Int
    BY <1>1, <1>12
  <2> QED
    BY <1>1, <1>12, <2>1, <2>2, GetConverts
<1>13. CASE /\ Is(f, "galilean") /\ Is(s, "galilean")
            /\ Merged(f, s) = GetGalilean(s.slope * f.slope, s.slope * f.intercept + s.intercept)
  <2>1. Convert(s, Convert(f, v)) = Linear(v, s.slope * f.slope, s.slope * f.intercept + s.intercept)
    BY <1>13, LinearPair DEF IsLinear, SlopeOf, ShiftOf, Is
  <2>2. s.slope * f.slope \in Int /\ s.slope * f.intercept + s.intercept \in Int
    BY <1>1, <1>13
  <2> QED
    BY <1>13, <2>1, <2>2, GetConverts
<1> QED
  BY <1>3, <1>4, <1>5, <1>6, <1>7, <1>8, <1>9, <1>10, <1>11, <1>12, <1>13, MergedCases

\* An outcome, if it is a converter, computes what c does.
Like(got, c, v) == got.conv # NoConverter => Convert(got.conv, v) = Convert(c, v)

\* What is turned over is a converter, and only what holds a logarithm is.
LEMMA TurnedIsConverter ==
  ASSUME AllConverters
  PROVE  \A c \in Converter :
           /\ Turned(c) \in Converter
           /\ ~Is(c, "log") /\ ~Is(c, "composite") => Turned(c) = c
<1>1. \A c \in Converter : ~Is(c, "log") /\ ~Is(c, "composite") => Turned(c) = c
  BY TurnedAssumption DEF TurnedFrom
<1> DEFINE Bad == { c \in Converter : Turned(c) \notin Converter }
<1>2. SUFFICES ASSUME Bad # {}
               PROVE  FALSE
  BY <1>1
<1>3. PICK c \in Bad : \A d \in Converter : Size(d) < Size(c) => d \notin Bad
  BY <1>2, SmallestConverter
<1>4. c \in Converter /\ Turned(c) = TurnedFrom(c, Turned(c.first), Turned(c.second))
  BY TurnedAssumption
<1>5. CASE Is(c, "composite")
  <2>1. /\ c.first \in Converter /\ c.second \in Converter
        /\ Size(c.first) < Size(c) /\ Size(c.second) < Size(c)
    BY <1>4, <1>5, SizeFacts
  <2>2. Turned(c.first) \in Converter /\ Turned(c.second) \in Converter
    BY <1>3, <2>1
  <2>3. Turned(c) = Composite(Turned(c.first), Turned(c.second))
    BY <1>4, <1>5 DEF TurnedFrom, Is
  <2> QED
    BY <1>3, <2>2, <2>3 DEF AllConverters, Built, Is, Composite
<1>6. CASE Is(c, "log")
  <2>1. Turned(c) = Log(c.base, ~c.inverted) \/ Turned(c) = c
    BY <1>4, <1>6 DEF TurnedFrom, Is
  <2> QED
    BY <1>3, <1>4, <1>6, <2>1 DEF AllConverters
<1> QED
  BY <1>1, <1>3, <1>4, <1>5, <1>6

LEMMA ComposeConverts ==
  ASSUME AllConverters, AllNumbers, NEW f \in Converter, NEW s \in Converter,
         \A v \in Number : \A got \in Clone(f) : Like(got, Turned(f), v),
         \A v \in Number : \A got \in Clone(s) : Like(got, Turned(s), v),
         NEW v \in Number
  PROVE  \A got \in Compose(Clone(f), Clone(s)) :
           got.conv # NoConverter =>
             Convert(got.conv, v) = Convert(Turned(s), Convert(Turned(f), v))
<1>1. SUFFICES ASSUME NEW got \in Compose(Clone(f), Clone(s)), got.conv # NoConverter
               PROVE  Convert(got.conv, v) = Convert(Turned(s), Convert(Turned(f), v))
  OBVIOUS
<1>2. PICK a \in Clone(f), b \in Clone(s) :
        /\ a.conv # NoConverter /\ b.conv # NoConverter
        /\ got = Got(Composite(a.conv, b.conv), a.blocks + b.blocks + 1)
  BY <1>1 DEF Compose, Composed, Got
<1>3. Counted(a) /\ Counted(b)
  BY CloneCounts
<1>4. a.conv \in Converter /\ b.conv \in Converter
  BY <1>2, <1>3 DEF Counted
<1>5. Composite(a.conv, b.conv) \in Converter
  BY <1>4 DEF AllConverters, Built, Is, Composite
<1>6. Convert(Composite(a.conv, b.conv), v) = Convert(b.conv, Convert(a.conv, v))
  BY <1>5, ConvertCases DEF Is, Composite
<1>7. Convert(a.conv, v) = Convert(Turned(f), v)
  BY <1>2 DEF Like
<1>8. Convert(Turned(f), v) \in Number
  BY ConvertIsNumber, TurnedIsConverter
<1>9. Convert(b.conv, Convert(Turned(f), v)) = Convert(Turned(s), Convert(Turned(f), v))
  BY <1>2, <1>8 DEF Like
<1> QED
  BY <1>2, <1>6, <1>7, <1>9 DEF Got

LEMMA CombineConverts ==
  ASSUME AllConverters, AllNumbers, NEW f \in Converter, NEW s \in Converter,
         \A v \in Number : \A got \in Clone(f) : Like(got, Turned(f), v),
         \A v \in Number : \A got \in Clone(s) : Like(got, Turned(s), v),
         NEW v \in Number
  PROVE  \A got \in Combine(f, s) :
           got.conv # NoConverter =>
             Convert(got.conv, v) = Convert(Turned(s), Convert(Turned(f), v))
<1>1. /\ f # NoConverter /\ s # NoConverter
      /\ Turned(f) \in Converter /\ Turned(s) \in Converter
      /\ Convert(Turned(f), v) \in Number
  BY SizeFacts, ConvertIsNumber, TurnedIsConverter
<1>2. CASE Is(f, "trivial")
  <2>1. Combine(f, s) = Clone(s) /\ Turned(f) = f /\ Convert(f, v) = v
    BY <1>1, <1>2, ConvertCases, TurnedIsConverter DEF Combine, Combined, Is
  <2> QED
    BY <2>1 DEF Like
<1>3. CASE ~Is(f, "trivial") /\ Is(s, "trivial")
  <2>1. Combine(f, s) = Clone(f) /\ Turned(s) = s
    BY <1>1, <1>3, TurnedIsConverter DEF Combine, Combined, Is
  <2>2. Convert(s, Convert(Turned(f), v)) = Convert(Turned(f), v)
    BY <1>1, <1>3, ConvertCases
  <2> QED
    BY <2>1, <2>2 DEF Like
<1>4. CASE ~Is(f, "trivial") /\ ~Is(s, "trivial")
  <2>1. Combine(f, s) \subseteq Compose(Clone(f), Clone(s)) \cup Merged(f, s)
    BY <1>1, <1>4 DEF Combine, Combined
  <2>2. \A got \in Compose(Clone(f), Clone(s)) :
          got.conv # NoConverter =>
            Convert(got.conv, v) = Convert(Turned(s), Convert(Turned(f), v))
    BY ComposeConverts
  <2>3. ASSUME NEW got \in Merged(f, s), got.conv # NoConverter
        PROVE  Convert(got.conv, v) = Convert(Turned(s), Convert(Turned(f), v))
    <3>1. \A c \in {f, s} : ~Is(c, "log") /\ ~Is(c, "composite")
      BY <2>3 DEF Merged, Is, Failed, Got
    <3>2. Turned(f) = f /\ Turned(s) = s
      BY <3>1, TurnedIsConverter
    <3> QED
      BY <2>3, <3>2, MergedConverts
  <2> QED
    BY <2>1, <2>2, <2>3
<1> QED
  BY <1>2, <1>3, <1>4

\* A clone converts like its original with the logarithms turned over.
LEMMA CloneConverts ==
  ASSUME AllConverters, AllNumbers
  PROVE  \A c \in Converter : \A v \in Number : \A got \in Clone(c) : Like(got, Turned(c), v)
<1> DEFINE Bad ==
      { c \in Converter : ~ \A v \in Number : \A got \in Clone(c) : Like(got, Turned(c), v) }
<1>1. SUFFICES ASSUME Bad # {}
               PROVE  FALSE
  OBVIOUS
<1>2. PICK c \in Bad : \A d \in Converter : Size(d) < Size(c) => d \notin Bad
  BY <1>1, SmallestConverter
<1>3. c \in Converter /\ Clone(c) = CloneFrom(c, Clone(c.first), Clone(c.second))
  BY CloneAssumption
<1>4. ASSUME NEW v \in Number
      PROVE  \A got \in Clone(c) : Like(got, Turned(c), v)
  <2>0. ~Is(c, "log") /\ ~Is(c, "composite") => Turned(c) = c
    BY <1>3, TurnedIsConverter
  <2>1. CASE Is(c, "composite")
    <3>1. /\ c.first \in Converter /\ c.second \in Converter
          /\ Size(c.first) < Size(c) /\ Size(c.second) < Size(c)
      BY <2>1, SizeFacts
    <3>2. /\ \A w \in Number : \A got \in Clone(c.first) : Like(got, Turned(c.first), w)
          /\ \A w \in Number : \A got \in Clone(c.second) : Like(got, Turned(c.second), w)
      BY <1>2, <3>1
    <3>3. Clone(c) = Combine(c.first, c.second)
      BY <1>3, <2>1 DEF CloneFrom, Combine, Is
    <3>4. Convert(Turned(c), v) = Convert(Turned(c.second), Convert(Turned(c.first), v))
      <4>1. Turned(c) = Composite(Turned(c.first), Turned(c.second)) /\ Turned(c) \in Converter
        BY <1>3, <2>1, TurnedAssumption, TurnedIsConverter DEF TurnedFrom, Is
      <4>2. /\ Is(Turned(c), "composite")
            /\ Turned(c).first = Turned(c.first) /\ Turned(c).second = Turned(c.second)
        BY <4>1 DEF Composite, Is
      <4> QED
        BY <4>1, <4>2, ConvertCases
    <3>5. \A got \in Combine(c.first, c.second) :
            got.conv # NoConverter =>
              Convert(got.conv, v) = Convert(Turned(c.second), Convert(Turned(c.first), v))
      BY <3>1, <3>2, CombineConverts
    <3> QED
      BY <3>3, <3>4, <3>5 DEF Like
  <2>2. CASE Is(c, "trivial") \/ Is(c, "reciprocal")
    <3>1. Clone(c) = {Got(c, 0)}
      BY <1>3, <2>2, Fields DEF CloneFrom, Is
    <3>2. Turned(c) = c
      BY <2>0, <2>2 DEF Is
    <3> QED
      BY <3>1, <3>2 DEF Like, Got
  <2>3. CASE Is(c, "scale")
    <3>1. Clone(c) = GetScale(c.value) /\ c.value \in Int /\ Convert(c, v) = Linear(v, c.value, 0)
      BY <1>3, <2>3, Fields, ConvertCases DEF CloneFrom, Is
    <3>2. Turned(c) = c
      BY <2>0, <2>3 DEF Is
    <3> QED
      BY <3>1, <3>2, GetConverts DEF Like
  <2>4. CASE Is(c, "offset")
    <3>1. Clone(c) = GetOffset(c.value) /\ c.value \in Int /\ Convert(c, v) = Linear(v, 1, c.value)
      BY <1>3, <2>4, Fields, ConvertCases DEF CloneFrom, Is
    <3>2. Turned(c) = c
      BY <2>0, <2>4 DEF Is
    <3> QED
      BY <3>1, <3>2, GetConverts DEF Like
  <2>5. CASE Is(c, "galilean")
    <3>1. /\ Clone(c) = GetGalilean(c.slope, c.intercept) /\ c.slope \in Int /\ c.intercept \in Int
          /\ Convert(c, v) = Linear(v, c.slope, c.intercept)
      BY <1>3, <2>5, Fields, ConvertCases DEF CloneFrom, Is
    <3>2. Turned(c) = c
      BY <2>0, <2>5 DEF Is
    <3> QED
      BY <3>1, <3>2, GetConverts DEF Like
  <2>6. CASE Is(c, "log")
    <3>1. Clone(c) = New(Turned(c))
      BY <1>3, <2>6, TurnedAssumption DEF CloneFrom, CloneLog, TurnedFrom, Is
    <3> QED
      BY <3>1 DEF New, Got, Failed, Like
  <2>7. CASE Is(c, "exp")
    <3>1. Clone(c) = GetPow(c.base) /\ c = Exp(c.base)
      BY <1>3, <2>7, Fields DEF CloneFrom, Is
    <3>2. Turned(c) = c
      BY <2>0, <2>7 DEF Is
    <3> QED
      BY <3>1, <3>2 DEF GetPow, New, Got, Failed, Like
  <2> QED
    BY <2>1, <2>2, <2>3, <2>4, <2>5, <2>6, <2>7, Fields DEF Is
<1> QED
  BY <1>2, <1>4

\* cv_combine() gives a converter that does what its first argument does and then what
\* its second does, merged, cloned or composite, for every base: a logarithm to a base
\* that cvLogClone() does not know is turned over once, and nothing else is.
THEOREM CombinationsConvert ==
  AllConverters /\ AllNumbers => (CvSpec => []CombinationIsSequence)
<1> SUFFICES ASSUME AllConverters, AllNumbers
             PROVE  CvSpec => []CombinationIsSequence
  OBVIOUS
<1>1. CvInit => BInv
  BY InitCounts
<1>2. BInv /\ [CvNext]_cvVars => BInv'
  BY StepCounts
<1>3. BInv => CombinationIsSequence
  <2> SUFFICES ASSUME BInv, NEW c \in Held, NEW d \in Held
               PROVE  \A got \in Combine(c, d) :
                        got.conv # NoConverter =>
                          Convert(got.conv, Opaque(<<"cell", 0>>)) =
                          Convert(Turned(d), Convert(Turned(c), Opaque(<<"cell", 0>>)))
    BY DEF CombinationIsSequence
  <2>1. c \in Converter /\ d \in Converter
    BY DEF Held, BInv
  <2>2. Opaque(<<"cell", 0>>) \in Number
    BY ArgumentAssumption DEF AllNumbers
  <2>3. /\ \A v \in Number : \A got \in Clone(c) : Like(got, Turned(c), v)
        /\ \A v \in Number : \A got \in Clone(d) : Like(got, Turned(d), v)
    BY <2>1, CloneConverts
  <2> QED
    BY <2>1, <2>2, <2>3, CombineConverts
<1> QED
  BY <1>1, <1>2, <1>3, PTL DEF CvSpec

-----------------------------------------------------------------------------
(* Converters: arrays.                                                     *)

Arrays == [1 .. Cells -> Number]

\* What an array is to become: the output is converted from the input, and the rest
\* stays.
After(c, m, in, count, out) ==
  [ i \in 1 .. Cells |->
      IF i \in out .. out + count - 1 THEN Convert(c, m[in + i - out]) ELSE m[i] ]

LEMMA PartFacts ==
  ASSUME NEW p \in Parts
  PROVE  /\ p[1] \in Nat /\ p[2] \in Nat /\ p[3] \in Nat /\ p = <<p[1], p[2], p[3]>>
         /\ p[1] >= 1 /\ p[2] >= 1 /\ p[3] >= 1
         /\ p[1] + p[2] - 1 <= Cells /\ p[3] + p[2] - 1 <= Cells
         /\ <<p[3], p[2], p[3]>> \in Parts
BY ArgumentAssumption DEF Parts

LEMMA InputCell ==
  ASSUME NEW in \in Nat, NEW count \in Nat, NEW out \in Nat,
         in >= 1, in + count - 1 <= Cells, NEW i \in out .. out + count - 1
  PROVE  in + i - out \in 1 .. Cells /\ out + i - out = i
BY ArgumentAssumption

LEMMA PartCell ==
  ASSUME NEW p \in Parts, NEW i \in p[3] .. p[3] + p[2] - 1
  PROVE  p[1] + i - p[3] \in 1 .. Cells /\ p[3] + i - p[3] = i
<1> DEFINE in == p[1]
           count == p[2]
           out == p[3]
<1>1. /\ in \in Nat /\ count \in Nat /\ out \in Nat
      /\ in >= 1 /\ in + count - 1 <= Cells /\ i \in out .. out + count - 1
  BY PartFacts
<1> HIDE DEF in, count, out
<1>2. in + i - out \in 1 .. Cells /\ out + i - out = i
  BY <1>1, InputCell
<1> QED
  BY <1>2 DEF in, out

\* A loop from the first cell of the output to the last: k cells have been written.
Upwards(c, m, k, in, out) ==
  [ j \in 1 .. Cells |-> IF j \in out .. out + k - 1 THEN Convert(c, m[in + j - out]) ELSE m[j] ]

\* A loop from the last to the first.
Downwards(c, m, k, in, count, out) ==
  [ j \in 1 .. Cells |->
      IF j \in out + count - k .. out + count - 1 THEN Convert(c, m[in + j - out]) ELSE m[j] ]

LEMMA LoopConverts ==
  ASSUME NEW c, NEW m \in Arrays, NEW p \in Parts
  PROVE  Loop(c, m, p[1], p[2], p[3]) = After(c, m, p[1], p[2], p[3])
<1> DEFINE in == p[1]
           count == p[2]
           out == p[3]
<1>1. /\ in \in Nat /\ count \in Nat /\ out \in Nat /\ Cells \in Nat
      /\ in >= 1 /\ out >= 1 /\ in + count - 1 <= Cells /\ out + count - 1 <= Cells
  BY PartFacts, ArgumentAssumption
<1> HIDE DEF in, count, out
<1>2. PICK f : LoopRun(f, c, m, in, count, out) /\ Loop(c, m, in, count, out) = f[count]
  BY <1>1, LoopRuns
<1>3. f[0] = m /\ \A i \in 1 .. count : f[i] = Step(c, f[i - 1], in, count, out, i)
  BY <1>1, <1>2 DEF LoopRun
<1>4. m = [ j \in 1 .. Cells |-> m[j] ]
  BY DEF Arrays
<1>5. CASE ~ (in < out)
  <2> DEFINE Done(i) == f[i] = Upwards(c, m, i, in, out)
  <2>1. Done(0)
    BY <1>1, <1>3, <1>4 DEF Upwards
  <2>2. ASSUME NEW i \in 1 .. count, Done(i - 1)
        PROVE  Done(i)
    <3>1. f[i] = [Upwards(c, m, i - 1, in, out)
                    EXCEPT ![out + (i - 1)] = Convert(c, Upwards(c, m, i - 1, in, out)[in + (i - 1)])]
      BY <1>3, <1>5, <2>2 DEF Step, At
    <3>2. Upwards(c, m, i - 1, in, out)[in + (i - 1)] = m[in + (i - 1)]
      BY <1>1, <1>5 DEF Upwards
    <3>3. Upwards(c, m, i, in, out) =
            [Upwards(c, m, i - 1, in, out) EXCEPT ![out + (i - 1)] = Convert(c, m[in + (i - 1)])]
      <4>1. in + (out + (i - 1)) - out = in + (i - 1)
        BY <1>1
      <4>2. \A j \in 1 .. Cells :
              /\ j \in out .. out + i - 1 <=> j \in out .. out + (i - 1) - 1 \/ j = out + (i - 1)
              /\ ~ (out + (i - 1) \in out .. out + (i - 1) - 1)
        BY <1>1
      <4> DEFINE x == out + (i - 1)
                 y == Convert(c, m[in + (i - 1)])
                 f0 == Upwards(c, m, i - 1, in, out)
                 f1 == Upwards(c, m, i, in, out)
      <4>3. DOMAIN f0 = 1 .. Cells
        BY DEF Upwards
      <4>4. ASSUME NEW j \in 1 .. Cells
            PROVE  f1[j] = IF j = x THEN y ELSE f0[j]
        BY <4>1, <4>2 DEF Upwards
      <4>5. f1 = [ j \in 1 .. Cells |-> f1[j] ]
        BY DEF Upwards
      <4> HIDE DEF x, y, f0, f1
      <4>6. f1 = [f0 EXCEPT ![x] = y]
        BY <4>3, <4>4, <4>5
      <4> QED
        BY <4>6 DEF x, y, f0, f1
    <3> QED
      BY <3>1, <3>2, <3>3
  <2>3. Done(count)
    <3> DEFINE Bad == { i \in 0 .. count : ~Done(i) }
    <3> HIDE DEF Done
    <3>1. SUFFICES ASSUME Bad # {}
                   PROVE  FALSE
      BY <1>1
    <3> Bad \subseteq Nat
      BY <1>1
    <3> HIDE DEF Bad
    <3>2. PICK i \in Bad : \A k \in Bad : i <= k
      BY <3>1, LeastNumber
    <3> USE DEF Bad
    <3>3. i # 0 /\ i - 1 \in 0 .. count /\ i \in 1 .. count /\ ~ (i <= i - 1)
      BY <1>1, <2>1, <3>2
    <3>4. Done(i - 1)
      BY <3>2, <3>3
    <3> QED
      BY <2>2, <3>2, <3>3, <3>4
  <2>4. Upwards(c, m, count, in, out) = After(c, m, in, count, out)
    BY DEF Upwards, After
  <2> QED
    BY <1>2, <2>3, <2>4 DEF in, count, out
<1>6. CASE in < out
  <2> DEFINE Done(i) == f[i] = Downwards(c, m, i, in, count, out)
  <2>1. Done(0)
    BY <1>1, <1>3, <1>4 DEF Downwards
  <2>2. ASSUME NEW i \in 1 .. count, Done(i - 1)
        PROVE  Done(i)
    <3>1. f[i] = [Downwards(c, m, i - 1, in, count, out)
                    EXCEPT ![out + (count - i)] =
                      Convert(c, Downwards(c, m, i - 1, in, count, out)[in + (count - i)])]
      BY <1>3, <1>6, <2>2 DEF Step, At
    <3>2. Downwards(c, m, i - 1, in, count, out)[in + (count - i)] = m[in + (count - i)]
      BY <1>1, <1>6 DEF Downwards
    <3>3. Downwards(c, m, i, in, count, out) =
            [Downwards(c, m, i - 1, in, count, out)
               EXCEPT ![out + (count - i)] = Convert(c, m[in + (count - i)])]
      <4>1. in + (out + (count - i)) - out = in + (count - i)
        BY <1>1
      <4>2. \A j \in 1 .. Cells :
              j \in out + count - i .. out + count - 1 <=>
                j \in out + count - (i - 1) .. out + count - 1 \/ j = out + (count - i)
        BY <1>1
      <4> DEFINE x == out + (count - i)
                 y == Convert(c, m[in + (count - i)])
                 f0 == Downwards(c, m, i - 1, in, count, out)
                 f1 == Downwards(c, m, i, in, count, out)
      <4>3. DOMAIN f0 = 1 .. Cells
        BY DEF Downwards
      <4>4. ASSUME NEW j \in 1 .. Cells
            PROVE  f1[j] = IF j = x THEN y ELSE f0[j]
        BY <4>1, <4>2 DEF Downwards
      <4>5. f1 = [ j \in 1 .. Cells |-> f1[j] ]
        BY DEF Downwards
      <4> HIDE DEF x, y, f0, f1
      <4>6. f1 = [f0 EXCEPT ![x] = y]
        BY <4>3, <4>4, <4>5
      <4> QED
        BY <4>6 DEF x, y, f0, f1
    <3> QED
      BY <3>1, <3>2, <3>3
  <2>3. Done(count)
    <3> DEFINE Bad == { i \in 0 .. count : ~Done(i) }
    <3> HIDE DEF Done
    <3>1. SUFFICES ASSUME Bad # {}
                   PROVE  FALSE
      BY <1>1
    <3> Bad \subseteq Nat
      BY <1>1
    <3> HIDE DEF Bad
    <3>2. PICK i \in Bad : \A k \in Bad : i <= k
      BY <3>1, LeastNumber
    <3> USE DEF Bad
    <3>3. i # 0 /\ i - 1 \in 0 .. count /\ i \in 1 .. count /\ ~ (i <= i - 1)
      BY <1>1, <2>1, <3>2
    <3>4. Done(i - 1)
      BY <3>2, <3>3
    <3> QED
      BY <2>2, <3>2, <3>3, <3>4
  <2>4. Downwards(c, m, count, in, count, out) = After(c, m, in, count, out)
    BY <1>1 DEF Downwards, After
  <2> QED
    BY <1>2, <2>3, <2>4 DEF in, count, out
<1> QED
  BY <1>5, <1>6

LEMMA AfterIsArray ==
  ASSUME AllNumbers, NEW c \in Converter, NEW m \in Arrays, NEW p \in Parts
  PROVE  After(c, m, p[1], p[2], p[3]) \in Arrays
<1>1. ASSUME NEW i \in 1 .. Cells, i \in p[3] .. p[3] + p[2] - 1
      PROVE  Convert(c, m[p[1] + i - p[3]]) \in Number
  <2>1. p[1] + i - p[3] \in 1 .. Cells
    BY <1>1, PartCell
  <2>2. m[p[1] + i - p[3]] \in Number
    BY <2>1 DEF Arrays
  <2> QED
    BY <2>2, ConvertIsNumber
<1> QED
  BY <1>1 DEF After, Arrays

LEMMA ArrayConverts ==
  ASSUME AllNumbers
  PROVE  \A c \in Converter : \A m \in Arrays : \A p \in Parts :
           Converted(c, m, p[1], p[2], p[3]) = After(c, m, p[1], p[2], p[3])
<1> DEFINE Right(c) == \A m \in Arrays : \A p \in Parts :
             Converted(c, m, p[1], p[2], p[3]) = After(c, m, p[1], p[2], p[3])
           Bad == { c \in Converter : ~Right(c) }
<1>1. SUFFICES ASSUME Bad # {}
               PROVE  FALSE
  OBVIOUS
<1>2. PICK c \in Bad : \A d \in Converter : Size(d) < Size(c) => d \notin Bad
  BY <1>1, SmallestConverter
<1>3. ASSUME NEW m \in Arrays, NEW p \in Parts
      PROVE  Converted(c, m, p[1], p[2], p[3]) = After(c, m, p[1], p[2], p[3])
  <2>1. Converted(c, m, p[1], p[2], p[3]) =
          ConvertedFrom(c, m, p[1], p[2], p[3],
            Converted(c.second, Converted(c.first, m, p[1], p[2], p[3]), p[3], p[2], p[3]))
    BY ConvertedAssumption DEF Arrays
  <2>2. CASE Is(c, "trivial")
    <3>1. Converted(c, m, p[1], p[2], p[3]) = Moved(m, p[1], p[2], p[3])
      BY <2>1, <2>2 DEF ConvertedFrom, Is
    <3>2. \A i \in 1 .. Cells : i \in p[3] .. p[3] + p[2] - 1 =>
            /\ m[p[1] + i - p[3]] \in Number
            /\ Convert(c, m[p[1] + i - p[3]]) = m[p[1] + i - p[3]]
      <4>1. ASSUME NEW i \in 1 .. Cells, i \in p[3] .. p[3] + p[2] - 1
            PROVE  m[p[1] + i - p[3]] \in Number
        <5>1. p[1] + i - p[3] \in 1 .. Cells
          BY <4>1, PartCell
        <5> QED
          BY <5>1 DEF Arrays
      <4> QED
        BY <2>2, <4>1, ConvertCases
    <3>3. DOMAIN m = 1 .. Cells
      BY DEF Arrays
    <3> QED
      BY <3>1, <3>2, <3>3 DEF Moved, After
  <2>3. CASE Is(c, "composite")
    <3>1. /\ c.first \in Converter /\ c.second \in Converter
          /\ Size(c.first) < Size(c) /\ Size(c.second) < Size(c)
      BY <2>3, SizeFacts
    <3>2. Right(c.first) /\ Right(c.second)
      BY <1>2, <3>1
    <3> DEFINE first == After(c.first, m, p[1], p[2], p[3])
               q == <<p[3], p[2], p[3]>>
    <3>3. Converted(c, m, p[1], p[2], p[3]) = Converted(c.second, first, p[3], p[2], p[3])
      BY <2>1, <2>3, <3>2 DEF ConvertedFrom, Is
    <3>4. ASSUME NEW i \in 1 .. Cells, i \in p[3] .. p[3] + p[2] - 1
          PROVE  m[p[1] + i - p[3]] \in Number
      <4>1. p[1] + i - p[3] \in 1 .. Cells
        BY <3>4, PartCell
      <4> QED
        BY <4>1 DEF Arrays
    <3>5. first \in Arrays
      BY <3>1, AfterIsArray
    <3>6. q \in Parts
      BY PartFacts
    <3>7. Converted(c.second, first, q[1], q[2], q[3]) = After(c.second, first, q[1], q[2], q[3])
      BY <3>2, <3>5, <3>6
    <3>8. ASSUME NEW i \in 1 .. Cells
          PROVE  After(c.second, first, p[3], p[2], p[3])[i] = After(c, m, p[1], p[2], p[3])[i]
      <4>1. CASE i \in p[3] .. p[3] + p[2] - 1
        <5>1. p[3] + i - p[3] = i
          BY <4>1, PartCell
        <5>2. first[i] = Convert(c.first, m[p[1] + i - p[3]])
          BY <4>1 DEF After
        <5>3. Convert(c, m[p[1] + i - p[3]]) = Convert(c.second, first[i])
          BY <2>3, <3>4, <4>1, <5>2, ConvertCases
        <5> QED
          BY <4>1, <5>1, <5>3 DEF After
      <4>2. CASE i \notin p[3] .. p[3] + p[2] - 1
        BY <4>2 DEF After
      <4> QED
        BY <4>1, <4>2
    <3>9. After(c.second, first, p[3], p[2], p[3]) = After(c, m, p[1], p[2], p[3])
      BY <3>8 DEF After
    <3> QED
      BY <3>3, <3>7, <3>9
  <2>4. CASE ~Is(c, "trivial") /\ ~Is(c, "composite")
    <3>1. Converted(c, m, p[1], p[2], p[3]) = Loop(c, m, p[1], p[2], p[3])
      BY <2>1, <2>4 DEF ConvertedFrom
    <3> QED
      BY <3>1, LoopConverts
  <2> QED
    BY <2>2, <2>3, <2>4
<1> QED
  BY <1>2, <1>3

\* cv_convert_doubles() and cv_convert_floats() take every input value as it was before
\* the call, however the two parts of the array overlap.
THEOREM OverlapsConvert ==
  AllConverters /\ AllNumbers => (CvSpec => OverlapIsSafe)
<1> SUFFICES ASSUME AllConverters, AllNumbers
             PROVE  CvSpec => OverlapIsSafe
  OBVIOUS
<1> DEFINE AInv == BInv /\ array \in Arrays
<1>1. CvInit => AInv
  <2>1. Fresh \in Arrays
    BY ArgumentAssumption DEF Fresh, Arrays, AllNumbers
  <2> QED
    BY <2>1, InitCounts DEF CvInit
<1>2. AInv /\ [CvNext]_cvVars => AInv'
  <2> SUFFICES ASSUME BInv, array \in Arrays, [CvNext]_cvVars
               PROVE  AInv'
    OBVIOUS
  <2>1. BInv'
    BY StepCounts
  <2>2. array' \in Arrays
    <3>1. CASE array' = array
      BY <3>1
    <3>2. CASE \E r \in Register, p \in Parts : CvConvert(r, p[1], p[2], p[3])
      <4>1. PICK r \in Register, p \in Parts : CvConvert(r, p[1], p[2], p[3])
        BY <3>2
      <4>2. CASE register[r] = NoConverter
        BY <4>1, <4>2 DEF CvConvert
      <4>3. CASE register[r] # NoConverter
        <5>1. register[r] \in Converter
          BY <4>3 DEF BInv
        <5>2. array' = After(register[r], array, p[1], p[2], p[3])
          BY <4>1, <4>3, <5>1, ArrayConverts DEF CvConvert
        <5> QED
          BY <5>1, <5>2, AfterIsArray
      <4> QED
        BY <4>2, <4>3
    <3> QED
      BY <3>1, <3>2 DEF CvNext, CvGet, CvFree, CvCombine, Keep, cvVars
  <2> QED
    BY <2>1, <2>2
<1>3. AInv /\ [CvNext]_cvVars =>
        [\A r \in Register, p \in Parts :
           CvConvert(r, p[1], p[2], p[3]) /\ register[r] # NoConverter =>
             \A i \in 1 .. Cells :
               array'[i] = IF i \in p[3] .. p[3] + p[2] - 1
                           THEN Convert(register[r], array[p[1] + i - p[3]])
                           ELSE array[i]]_cvVars
  <2> SUFFICES ASSUME BInv, array \in Arrays, NEW r \in Register, NEW p \in Parts,
                      CvConvert(r, p[1], p[2], p[3]), register[r] # NoConverter,
                      NEW i \in 1 .. Cells
               PROVE  array'[i] = IF i \in p[3] .. p[3] + p[2] - 1
                                  THEN Convert(register[r], array[p[1] + i - p[3]])
                                  ELSE array[i]
    OBVIOUS
  <2>1. register[r] \in Converter
    BY DEF BInv
  <2>2. array' = After(register[r], array, p[1], p[2], p[3])
    BY <2>1, ArrayConverts DEF CvConvert
  <2> QED
    BY <2>2 DEF After
<1> QED
  BY <1>1, <1>2, <1>3, PTL DEF CvSpec, OverlapIsSafe

-----------------------------------------------------------------------------
(* Program: its units.                                                     *)

\* A request frees the unit that it replaces and no other, and nothing but a request
\* makes or frees units.
LEMMA OwnershipStays ==
  ASSUME OwnsItsUnits, [Next]_vars
  PROVE  OwnsItsUnits'
<1>1. Cost(haveUnit) \in Int /\ Cost(wantUnit) \in Int
  BY DEF Cost
<1>2. CASE UNCHANGED <<haveUnit, wantUnit, alive>>
  BY <1>2 DEF OwnsItsUnits, Cost
<1>3. ASSUME NEW text, Have(text)
      PROVE  OwnsItsUnits'
  <2>1. DEFINE unit == DecodeInput(text).unit
  <2>2. haveUnit' = unit /\ alive' = alive - Cost(haveUnit) + Cost(unit) /\ wantUnit' = wantUnit
    BY <1>3 DEF Have, TakeHave, want
  <2>3. Cost(unit) \in Int
    BY DEF Cost
  <2> QED
    BY <1>1, <2>2, <2>3 DEF OwnsItsUnits, Cost
<1>4. ASSUME NEW text, Want(text)
      PROVE  OwnsItsUnits'
  <2>1. haveUnit' = haveUnit
    BY <1>4 DEF Want, have
  <2>2. CASE wantUnit' = wantUnit /\ alive' = alive
    BY <2>1, <2>2 DEF OwnsItsUnits, Cost
  <2>3. CASE WantUnit(text)
    <3>1. Cost(Parse(text)) \in Int
      BY DEF Cost
    <3> QED
      BY <1>1, <2>1, <2>3, <3>1 DEF WantUnit, OwnsItsUnits, Cost
  <2> QED
    BY <1>4, <2>2, <2>3 DEF Want
<1>5. CASE \E e \in {"UT_ASCII", "UT_LATIN1", "UT_UTF8"} : OptionEncoding(e)
  BY <1>2, <1>5 DEF OptionEncoding, Option, have, want
<1>6. CASE \E text \in Texts : OptionHave(text) \/ OptionWant(text)
  BY <1>2, <1>6 DEF OptionHave, OptionWant, Option, have, want
<1>7. CASE OptionReveal \/ OptionHelp \/ OptionUnknown \/ OptionsDone
  BY <1>2, <1>7 DEF OptionReveal, OptionHelp, OptionUnknown, OptionsDone, Option, have, want, history
<1>8. CASE EnsureEncodingSet \/ ReadXmlDatabase
  BY <1>2, <1>8 DEF EnsureEncodingSet, ReadXmlDatabase, have, want, history
<1>9. CASE HaveFromOption
  BY <1>3, <1>9 DEF HaveFromOption
<1>10. CASE \E text \in Texts : HaveFromPrompt(text)
  BY <1>2, <1>3, <1>10 DEF HaveFromPrompt, have, want, history
<1>11. CASE WantFromOption
  BY <1>4, <1>11 DEF WantFromOption
<1>12. CASE \E text \in Texts : WantFromPrompt(text)
  BY <1>4, <1>12 DEF WantFromPrompt
<1>13. CASE HaveAgain \/ HaveEnds \/ WantAgain \/ WantEnds
  BY <1>2, <1>13 DEF HaveAgain, HaveEnds, WantAgain, WantEnds, EndOfInput, InputError, have, want, history
<1>14. CASE Answer \/ UNCHANGED vars
  BY <1>2, <1>14 DEF Answer, vars, have, want, history
<1> QED
  BY <1>5, <1>6, <1>7, <1>8, <1>9, <1>10, <1>11, <1>12, <1>13, <1>14 DEF Next

\* The program owns a unit for each of _haveUnit and _wantUnit and no other: what
\* decodeInput() and decodeOutput() replace is freed, once.
THEOREM Owns == Spec => []OwnsItsUnits
<1>1. Init => OwnsItsUnits
  BY DEF Init, OwnsItsUnits, Cost
<1>2. OwnsItsUnits /\ [Next]_vars => OwnsItsUnits'
  BY OwnershipStays
<1> QED
  BY <1>1, <1>2, PTL DEF Spec

-----------------------------------------------------------------------------
(* Program: requests and answers.                                          *)

\* What has been taken as wanted can be answered.
Answerable ==
  /\ wantDefinition \/ wantUnit # NoUnit
  /\ IsEmpty(asked) <=> wantDefinition

\* The static variables of getInputValue() and getOutputRequest() stand for what was
\* taken from the options, which the prompts of an earlier request cannot have changed.
Initialized ==
  /\ haveInitialized => cmdHave # NoText /\ (pc # "exit" => haveUnit # NoUnit)
  /\ wantInitialized => cmdWant # NoText /\ (pc # "exit" => Answerable)

Phases ==
  /\ pc \in {"options", "encoding", "database"} => printed = "nothing"
  /\ pc \in {"want", "answer"} => haveUnit # NoUnit
  /\ pc = "answer" => Answerable

AInv == Initialized /\ Phases /\ AnswersLastRequest

\* What Want() takes can be answered.
LEMMA WantedIsAnswerable ==
  ASSUME NEW text, Want(text), Wanted(text)
  PROVE  Answerable'
<1>1. CASE IsEmpty(text)
  BY <1>1 DEF Want, Answerable, IsEmpty
<1>2. CASE ~IsEmpty(text)
  BY <1>2 DEF Want, WantUnit, Wanted, Answerable, IsEmpty
<1> QED
  BY <1>1, <1>2

LEMMA AnswersStay ==
  ASSUME AInv, [Next]_vars
  PROVE  AInv'
<1> USE DEF AInv, Initialized, Phases, AnswersLastRequest
<1> USE DEF Answerable, IsEmpty, have, want
<1>1. CASE \E e \in {"UT_ASCII", "UT_LATIN1", "UT_UTF8"} : OptionEncoding(e)
  BY <1>1 DEF OptionEncoding, Option
<1>2. ASSUME NEW text \in Texts, OptionHave(text)
      PROVE  AInv'
  BY <1>2, TextAssumption DEF OptionHave, Option
<1>3. ASSUME NEW text \in Texts, OptionWant(text)
      PROVE  AInv'
  BY <1>3, TextAssumption DEF OptionWant, Option
<1>4. CASE OptionReveal
  BY <1>4 DEF OptionReveal, Option
<1>5. CASE OptionHelp
  BY <1>5 DEF OptionHelp, Option, Exit
<1>6. CASE OptionUnknown
  BY <1>6 DEF OptionUnknown, Option, Exit
<1>7. CASE OptionsDone
  BY <1>7 DEF OptionsDone, commandLine, history
<1>8. CASE EnsureEncodingSet
  BY <1>8 DEF EnsureEncodingSet, history
<1>9. CASE ReadXmlDatabase
  BY <1>9 DEF ReadXmlDatabase, Exit, commandLine
<1>10. CASE HaveFromOption
  BY <1>10 DEF HaveFromOption, Have, Exit, commandLine
<1>11. CASE HaveAgain
  BY <1>11 DEF HaveAgain, Exit, commandLine
<1>12. CASE HaveEnds
  <2>1. pc' = "exit" /\ UNCHANGED <<cmdHave, cmdWant, have, want, asked, printed>>
    BY <1>12 DEF HaveEnds, EndOfInput, InputError, Exit, commandLine
  <2> QED
    BY <2>1
<1>13. CASE \E text \in Texts : HaveFromPrompt(text)
  BY <1>13 DEF HaveFromPrompt, Have, commandLine, history
<1>14. CASE WantFromOption
  <2>1. Want(cmdWant) /\ UNCHANGED <<commandLine, have, printed>>
    BY <1>14 DEF WantFromOption, Want
  <2>2. CASE Wanted(cmdWant)
    <3>1. Answerable'
      BY <2>1, <2>2, WantedIsAnswerable
    <3> QED
      BY <1>14, <2>1, <2>2, <3>1 DEF WantFromOption, commandLine
  <2>3. CASE ~Wanted(cmdWant)
    BY <1>14, <2>1, <2>3 DEF WantFromOption, Exit, commandLine
  <2> QED
    BY <2>2, <2>3
<1>15. ASSUME NEW text \in Texts, WantFromPrompt(text)
       PROVE  AInv'
  <2>1. Want(text) /\ UNCHANGED <<commandLine, have, printed>>
    BY <1>15 DEF WantFromPrompt, Want
  <2>2. CASE Wanted(text)
    <3>1. Answerable'
      BY <2>1, <2>2, WantedIsAnswerable
    <3> QED
      BY <1>15, <2>1, <2>2, <3>1 DEF WantFromPrompt, commandLine
  <2>3. CASE ~Wanted(text)
    BY <1>15, <2>1, <2>3 DEF WantFromPrompt, commandLine
  <2> QED
    BY <2>2, <2>3
<1>16. CASE WantAgain
  BY <1>16 DEF WantAgain, commandLine, history
<1>17. CASE WantEnds
  <2>1. pc' = "exit" /\ UNCHANGED <<cmdHave, cmdWant, have, want, asked, printed>>
    BY <1>17 DEF WantEnds, EndOfInput, InputError, Exit, commandLine
  <2> QED
    BY <2>1
<1>18. CASE Answer
  BY <1>18 DEF Answer, commandLine
<1>19. CASE UNCHANGED vars
  BY <1>19 DEF vars, commandLine, history
<1> QED
  BY <1>1, <1>2, <1>3, <1>4, <1>5, <1>6, <1>7, <1>8, <1>9, <1>10, <1>11, <1>12, <1>13, <1>14, <1>15,
     <1>16, <1>17, <1>18, <1>19 DEF Next

\* What is answered is what was asked last, and there are units to answer it with.
THEOREM Answers == Spec => []AnswersLastRequest
<1>1. Init => AInv
  BY DEF Init, AInv, Initialized, Phases, AnswersLastRequest
<1>2. AInv /\ [Next]_vars => AInv'
  BY AnswersStay
<1>3. AInv => AnswersLastRequest
  BY DEF AInv
<1> QED
  BY <1>1, <1>2, <1>3, PTL DEF Spec
=============================================================================
