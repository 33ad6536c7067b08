------------------------- MODULE UnitParser_proofs -------------------------
(***************************************************************************)
(* Proofs about UnitParser, for any texts, units and prefixes, and         *)
(* whatever the functions of unitcore.c return.                            *)
(*                                                                         *)
(* The inductive invariant says which symbols may lie on which others on   *)
(* the stack.  The error recovery pops symbols without freeing anything,   *)
(* and it follows from the shape of the stack that none of those is a unit *)
(* or an identifier.                                                       *)
(*                                                                         *)
(* A second one says that what has been read of the text opens as many     *)
(* parentheses as the stack and the token ahead of it do.                  *)
(***************************************************************************)
EXTENDS UnitParser, SequenceTheorems, FiniteSetTheorems, WellFoundedInduction, TLAPS

-----------------------------------------------------------------------------
(* The shape of the stack.                                                 *)

IsStack(st) == st \in Seq({ st[i] : i \in DOMAIN st })

NameAt(st, i) == IF i \in 1 .. Len(st) THEN st[i].name ELSE "bottom"

\* Where an operand of a product may begin.
OperandPlaces == {"bottom", "(", "LOGREF", "MULTIPLY", "DIVIDE", "product_exp"}

\* The symbol c may lie on b, which lies on a.
Fits(a, b, c) ==
  \/ c \in {"INT", "REAL", "ID", "LOGREF", "(", "basic_exp", "power_exp"} /\ b \in OperandPlaces
  \/ c \in {"INT", "EXPONENT"} /\ b = "basic_exp"
  \/ c \in {"INT", "REAL", "DATE", "timestamp"} /\ b = "SHIFT"
  \/ c = "CLOCK" /\ b = "DATE"
  \/ c \in {"CLOCK", "ID"} /\ b = "CLOCK" /\ a = "DATE"
  \/ c = "product_exp" /\ b \in {"bottom", "(", "LOGREF"}
  \/ c \in {"MULTIPLY", "DIVIDE"} /\ b = "product_exp"
  \/ c = "SHIFT" /\ b = "product_exp" /\ a # "LOGREF"
  \/ c = "shift_exp" /\ b \in {"bottom", "("}
  \/ c = ")" /\ <<a, b>> \in {<<"(", "shift_exp">>, <<"LOGREF", "product_exp">>}
  \/ c = "error" /\ \/ b \in {"bottom", "product_exp", "basic_exp", "MULTIPLY", "DIVIDE", "SHIFT"}
                    \/ b = "shift_exp" /\ a = "("

WellFormed(st) ==
  \A i \in 1 .. Len(st) : Fits(NameAt(st, i - 2), NameAt(st, i - 1), NameAt(st, i))

\* The places of the symbols of some names whose values are not among some.
Held(st, names, values) ==
  { i \in DOMAIN st : st[i].name \in names /\ st[i].value \notin values }

Weight(x, names, values) == IF x.name \in names /\ x.value \notin values THEN 1 ELSE 0

Free == {NoUnit, TheOne}
Loans(st) == Cardinality(Held(st, UnitSymbols, Free))
Identifiers(st) == Cardinality(Held(st, {"ID"}, {}))

\* What the error recovery may pop.
Waste == {"(", "LOGREF", "DATE", "CLOCK"}

-----------------------------------------------------------------------------
(* Sequences as stacks.                                                    *)

LEMMA SeqIsStack ==
  ASSUME NEW S, NEW st \in Seq(S)
  PROVE  IsStack(st) /\ Len(st) \in Nat /\ DOMAIN st = 1 .. Len(st)
<1>1. Len(st) \in Nat /\ DOMAIN st = 1 .. Len(st) /\ st \in [1 .. Len(st) -> S]
  BY LenProperties
<1>2. st \in [1 .. Len(st) -> { st[i] : i \in DOMAIN st }]
  BY <1>1
<1> QED
  BY <1>1, <1>2, SeqDef DEF IsStack

LEMMA StackFacts ==
  ASSUME NEW st, IsStack(st)
  PROVE  /\ Len(st) \in Nat
         /\ DOMAIN st = 1 .. Len(st)
         /\ Len(st) = 0 => st = << >>
BY LenProperties, EmptySeq DEF IsStack

LEMMA EmptyStack ==
  /\ IsStack(<< >>) /\ Len(<< >>) = 0
  /\ WellFormed(<< >>)
  /\ Loans(<< >>) = 0 /\ Identifiers(<< >>) = 0
<1>1. IsStack(<< >>) /\ Len(<< >>) = 0
  BY EmptySeq, SeqIsStack
<1>2. DOMAIN << >> = {}
  BY <1>1, StackFacts
<1>3. Held(<< >>, UnitSymbols, Free) = {} /\ Held(<< >>, {"ID"}, {}) = {}
  BY <1>2 DEF Held
<1>4. Loans(<< >>) = 0 /\ Identifiers(<< >>) = 0
  BY <1>3, FS_EmptySet, Zenon DEF Loans, Identifiers
<1>5. WellFormed(<< >>)
  BY <1>1 DEF WellFormed
<1> QED
  BY <1>1, <1>4, <1>5

LEMMA AppendFacts ==
  ASSUME NEW st, IsStack(st), NEW x
  PROVE  /\ IsStack(Append(st, x))
         /\ Len(Append(st, x)) = Len(st) + 1
         /\ \A i \in 1 .. Len(st) : Append(st, x)[i] = st[i]
         /\ Append(st, x)[Len(st) + 1] = x
<1> DEFINE S == { st[i] : i \in DOMAIN st } \cup {x}
<1>1. st \in Seq(S)
  BY SeqMonotonic DEF IsStack
<1>2. x \in S
  OBVIOUS
<1>3. Append(st, x) \in Seq(S)
  BY <1>1, <1>2, AppendProperties
<1>4. IsStack(Append(st, x))
  BY <1>3, SeqIsStack
<1> HIDE DEF S
<1> QED
  BY <1>1, <1>2, <1>4, AppendProperties

LEMMA PoppedFacts ==
  ASSUME NEW st, IsStack(st), NEW n \in 0 .. Len(st)
  PROVE  /\ IsStack(Popped(st, n))
         /\ Len(Popped(st, n)) = Len(st) - n
         /\ \A i \in 1 .. Len(st) - n : Popped(st, n)[i] = st[i]
<1> DEFINE S == { st[i] : i \in DOMAIN st }
           m == Len(st) - n
<1>1. Len(st) \in Nat /\ DOMAIN st = 1 .. Len(st)
  BY StackFacts
<1>2. m \in Int /\ 1 \in Int /\ \A i \in 1 .. m : st[i] \in S
  BY <1>1
<1>3. /\ SubSeq(st, 1, m) \in Seq(S)
      /\ Len(SubSeq(st, 1, m)) = IF 1 <= m THEN m - 1 + 1 ELSE 0
      /\ \A i \in 1 .. m - 1 + 1 : SubSeq(st, 1, m)[i] = st[1 + i - 1]
  <2> HIDE DEF S, m
  <2> QED
    BY <1>2, SubSeqProperties
<1>4. IsStack(SubSeq(st, 1, m))
  BY <1>3, SeqIsStack
<1>5. m \in Nat /\ Len(SubSeq(st, 1, m)) = m
  <2>1. m \in Nat
    BY <1>1
  <2> HIDE DEF m, S
  <2>2. CASE 1 <= m
    BY <1>3, <2>1, <2>2
  <2>3. CASE ~(1 <= m)
    BY <1>3, <2>1, <2>3
  <2> QED
    BY <2>1, <2>2, <2>3
<1>6. ASSUME NEW i \in 1 .. m PROVE SubSeq(st, 1, m)[i] = st[i]
  <2>1. i \in 1 .. m - 1 + 1 /\ 1 + i - 1 = i
    BY <1>5
  <2> QED
    BY <1>3, <2>1
<1> QED
  BY <1>4, <1>5, <1>6 DEF Popped

-----------------------------------------------------------------------------
(* Names after pushing and popping.                                        *)

LEMMA BelowIsNameAt ==
  ASSUME NEW st, IsStack(st), NEW n \in Nat
  PROVE  Below(st, n) = NameAt(st, Len(st) - n)
BY StackFacts DEF Below, NameAt

LEMMA NamesAfterAppend ==
  ASSUME NEW st, IsStack(st), NEW x
  PROVE  /\ \A i \in Int : i # Len(st) + 1 => NameAt(Append(st, x), i) = NameAt(st, i)
         /\ NameAt(Append(st, x), Len(st) + 1) = x.name
         /\ Top(Append(st, x)) = x.name
         /\ \A n \in Nat : Below(Append(st, x), n + 1) = Below(st, n)
<1> DEFINE t == Append(st, x)
<1>1. /\ Len(st) \in Nat /\ IsStack(t) /\ Len(t) = Len(st) + 1
      /\ \A i \in 1 .. Len(st) : t[i] = st[i]
      /\ t[Len(st) + 1] = x
  BY StackFacts, AppendFacts
<1> HIDE DEF t
<1>2. \A i \in Int : i # Len(st) + 1 => NameAt(t, i) = NameAt(st, i)
  BY <1>1 DEF NameAt
<1>3. NameAt(t, Len(st) + 1) = x.name
  BY <1>1 DEF NameAt
<1>4. Top(t) = x.name
  BY <1>1, <1>3, BelowIsNameAt DEF Top
<1>5. ASSUME NEW n \in Nat PROVE Below(t, n + 1) = Below(st, n)
  <2>1. Below(t, n + 1) = NameAt(t, Len(st) + 1 - (n + 1))
    BY <1>1, BelowIsNameAt
  <2>2. Below(st, n) = NameAt(st, Len(st) - n)
    BY BelowIsNameAt
  <2> QED
    BY <1>1, <1>2, <2>1, <2>2
<1> QED
  BY <1>2, <1>3, <1>4, <1>5 DEF t

LEMMA NamesAfterPopped ==
  ASSUME NEW st, IsStack(st), NEW n \in 0 .. Len(st)
  PROVE  /\ \A i \in Int : i <= Len(st) - n => NameAt(Popped(st, n), i) = NameAt(st, i)
         /\ \A k \in Nat : Below(Popped(st, n), k) = Below(st, n + k)
<1>1. /\ Len(st) \in Nat /\ n \in Nat
      /\ IsStack(Popped(st, n)) /\ Len(Popped(st, n)) = Len(st) - n
  BY StackFacts, PoppedFacts
<1>2. ASSUME NEW i \in Int, i <= Len(st) - n
      PROVE  NameAt(Popped(st, n), i) = NameAt(st, i)
  <2>1. CASE i >= 1
    <3>1. i \in 1 .. Len(st) - n /\ i \in 1 .. Len(st) /\ i \in 1 .. Len(Popped(st, n))
      BY <1>1, <1>2, <2>1
    <3> QED
      BY <3>1, PoppedFacts DEF NameAt
  <2>2. CASE ~(i >= 1)
    BY <1>1, <2>2 DEF NameAt
  <2> QED
    BY <2>1, <2>2
<1>3. ASSUME NEW k \in Nat PROVE Below(Popped(st, n), k) = Below(st, n + k)
  <2>1. Below(Popped(st, n), k) = NameAt(Popped(st, n), Len(st) - n - k)
    BY <1>1, BelowIsNameAt
  <2>2. Below(st, n + k) = NameAt(st, Len(st) - (n + k))
    BY <1>1, BelowIsNameAt
  <2>3. Len(st) - (n + k) \in Int /\ Len(st) - n - k = Len(st) - (n + k) /\ Len(st) - (n + k) <= Len(st) - n
    BY <1>1
  <2> QED
    BY <1>2, <2>1, <2>2, <2>3
<1> QED
  BY <1>2, <1>3

-----------------------------------------------------------------------------
(* The shape.                                                              *)

LEMMA AppendIsWellFormed ==
  ASSUME NEW st, IsStack(st), WellFormed(st), NEW x, Fits(Below(st, 1), Top(st), x.name)
  PROVE  WellFormed(Append(st, x))
<1>1. Len(st) \in Nat /\ Len(Append(st, x)) = Len(st) + 1
  BY StackFacts, AppendFacts
<1>2. \A i \in Int : i # Len(st) + 1 => NameAt(Append(st, x), i) = NameAt(st, i)
  BY NamesAfterAppend
<1>3. NameAt(Append(st, x), Len(st) + 1) = x.name
  BY NamesAfterAppend
<1>4. Below(st, 1) = NameAt(st, Len(st) - 1) /\ Top(st) = NameAt(st, Len(st))
  BY <1>1, BelowIsNameAt DEF Top
<1> SUFFICES ASSUME NEW i \in 1 .. Len(st) + 1
             PROVE  Fits(NameAt(Append(st, x), i - 2), NameAt(Append(st, x), i - 1),
                         NameAt(Append(st, x), i))
  BY <1>1 DEF WellFormed
<1>5. CASE i = Len(st) + 1
  BY <1>1, <1>2, <1>3, <1>4, <1>5
<1>6. CASE i # Len(st) + 1
  BY <1>1, <1>2, <1>6 DEF WellFormed
<1> QED
  BY <1>5, <1>6

LEMMA PoppedIsWellFormed ==
  ASSUME NEW st, IsStack(st), WellFormed(st), NEW n \in 0 .. Len(st)
  PROVE  WellFormed(Popped(st, n))
<1>1. Len(st) \in Nat /\ n \in Nat /\ Len(Popped(st, n)) = Len(st) - n
  BY StackFacts, PoppedFacts
<1>2. \A i \in Int : i <= Len(st) - n => NameAt(Popped(st, n), i) = NameAt(st, i)
  BY NamesAfterPopped
<1> QED
  BY <1>1, <1>2 DEF WellFormed

\* What lies on a symbol tells what it is.
LEMMA InteriorSymbol ==
  ASSUME NEW st, IsStack(st), WellFormed(st), NEW i \in 1 .. Len(st) - 1
  PROVE  \/ NameAt(st, i) \in Waste
         \/ NameAt(st, i) \in {"product_exp", "basic_exp", "MULTIPLY", "DIVIDE", "SHIFT"}
         \/ NameAt(st, i) = "shift_exp" /\ NameAt(st, i - 1) = "("
<1>1. Len(st) \in Nat
  BY StackFacts
<1>2. i + 1 \in 1 .. Len(st) /\ (i + 1) - 1 = i /\ (i + 1) - 2 = i - 1
  BY <1>1
<1>3. Fits(NameAt(st, i - 1), NameAt(st, i), NameAt(st, i + 1))
  BY <1>2 DEF WellFormed
<1>4. Fits(NameAt(st, i - 2), NameAt(st, i - 1), NameAt(st, i))
  BY <1>1 DEF WellFormed
<1>5. NameAt(st, i) # "bottom"
  BY <1>4 DEF Fits
<1> QED
  BY <1>3, <1>5 DEF Fits, Waste, OperandPlaces

-----------------------------------------------------------------------------
(* Units and identifiers on the stack.                                     *)

LEMMA HeldIsFinite ==
  ASSUME NEW st, IsStack(st), NEW names, NEW values
  PROVE  /\ IsFiniteSet(Held(st, names, values))
         /\ Cardinality(Held(st, names, values)) \in Nat
<1>1. Held(st, names, values) \in SUBSET (1 .. Len(st)) /\ Len(st) \in Int
  BY StackFacts DEF Held
<1>2. IsFiniteSet(1 .. Len(st))
  BY <1>1, FS_Interval
<1> QED
  BY <1>1, <1>2, FS_Subset, FS_CardinalityType

LEMMA HeldAfterAppend ==
  ASSUME NEW st, IsStack(st), NEW x, NEW names, NEW values
  PROVE  Cardinality(Held(Append(st, x), names, values))
           = Cardinality(Held(st, names, values)) + Weight(x, names, values)
<1> DEFINE t == Append(st, x)
           H == Held(st, names, values)
<1>1. /\ Len(st) \in Nat /\ DOMAIN st = 1 .. Len(st)
      /\ DOMAIN t = 1 .. Len(st) + 1
      /\ \A i \in 1 .. Len(st) : t[i] = st[i]
      /\ t[Len(st) + 1] = x
  BY StackFacts, AppendFacts
<1> HIDE DEF t
<1>2. CASE x.name \in names /\ x.value \notin values
  <2>1. Held(t, names, values) = H \cup {Len(st) + 1}
    BY <1>1, <1>2 DEF Held
  <2>2. Len(st) + 1 \notin H
    BY <1>1 DEF Held
  <2>3. IsFiniteSet(H) /\ Weight(x, names, values) = 1
    BY <1>2, HeldIsFinite DEF Weight
  <2> QED
    BY <2>1, <2>2, <2>3, FS_AddElement DEF t
<1>3. CASE ~(x.name \in names /\ x.value \notin values)
  <2>1. Held(t, names, values) = H
    BY <1>1, <1>3 DEF Held
  <2>2. Cardinality(H) \in Nat /\ Weight(x, names, values) = 0
    BY <1>3, HeldIsFinite DEF Weight
  <2> QED
    BY <2>1, <2>2 DEF t
<1> QED
  BY <1>2, <1>3

\* Popping symbols that are not counted changes nothing.
LEMMA HeldAfterWaste ==
  ASSUME NEW st, IsStack(st), NEW n \in 0 .. Len(st), NEW names, NEW values,
         \A i \in Len(st) - n + 1 .. Len(st) : NameAt(st, i) \notin names
  PROVE  Held(Popped(st, n), names, values) = Held(st, names, values)
<1> DEFINE t == Popped(st, n)
<1>1. /\ Len(st) \in Nat /\ n \in Nat /\ DOMAIN st = 1 .. Len(st)
      /\ DOMAIN t = 1 .. Len(st) - n
      /\ \A i \in 1 .. Len(st) - n : t[i] = st[i]
  BY StackFacts, PoppedFacts
<1> HIDE DEF t
<1>2. \A i \in 1 .. Len(st) : i > Len(st) - n => st[i].name \notin names
  BY <1>1 DEF NameAt
<1>3. Held(t, names, values) \subseteq Held(st, names, values)
  BY <1>1 DEF Held
<1>4. Held(st, names, values) \subseteq Held(t, names, values)
  BY <1>1, <1>2 DEF Held
<1> QED
  BY <1>3, <1>4 DEF t

LEMMA HeldAfterPop ==
  ASSUME NEW st, IsStack(st), Len(st) >= 1, NEW names, NEW values
  PROVE  Cardinality(Held(st, names, values))
           = Cardinality(Held(Popped(st, 1), names, values))
             + Weight(st[Len(st)], names, values)
<1> DEFINE t == Popped(st, 1)
           H == Held(t, names, values)
<1>1. /\ Len(st) \in Nat /\ DOMAIN st = 1 .. Len(st)
      /\ IsStack(t) /\ DOMAIN t = 1 .. Len(st) - 1
      /\ \A i \in 1 .. Len(st) - 1 : t[i] = st[i]
  BY StackFacts, PoppedFacts
<1> HIDE DEF t
<1>2. CASE st[Len(st)].name \in names /\ st[Len(st)].value \notin values
  <2>1. Held(st, names, values) = H \cup {Len(st)}
    BY <1>1, <1>2 DEF Held
  <2>2. Len(st) \notin H
    BY <1>1 DEF Held
  <2>3. IsFiniteSet(H) /\ Weight(st[Len(st)], names, values) = 1
    BY <1>1, <1>2, HeldIsFinite DEF Weight
  <2> QED
    BY <2>1, <2>2, <2>3, FS_AddElement DEF t
<1>3. CASE ~(st[Len(st)].name \in names /\ st[Len(st)].value \notin values)
  <2>1. Held(st, names, values) = H
    BY <1>1, <1>3 DEF Held
  <2>2. Cardinality(H) \in Nat /\ Weight(st[Len(st)], names, values) = 0
    BY <1>1, <1>3, HeldIsFinite DEF Weight
  <2> QED
    BY <2>1, <2>2 DEF t
<1> QED
  BY <1>2, <1>3

LEMMA PoppedAgain ==
  ASSUME NEW st, IsStack(st), NEW n \in 0 .. Len(st), NEW m \in 0 .. Len(st) - n
  PROVE  Popped(Popped(st, n), m) = Popped(st, n + m)
<1> DEFINE v == Popped(st, n)
           t == Popped(v, m)
           u == Popped(st, n + m)
<1>1. Len(st) \in Nat
  BY StackFacts
<1>2. n \in Nat /\ m \in Nat /\ n + m \in 0 .. Len(st)
  BY <1>1
<1>3. /\ IsStack(v) /\ Len(v) = Len(st) - n
      /\ \A i \in 1 .. Len(st) - n : v[i] = st[i]
  BY PoppedFacts
<1>4. /\ IsStack(u) /\ Len(u) = Len(st) - (n + m)
      /\ \A i \in 1 .. Len(st) - (n + m) : u[i] = st[i]
  BY <1>2, PoppedFacts
<1> HIDE DEF v, u
<1>5. /\ IsStack(t) /\ Len(t) = Len(v) - m
      /\ \A i \in 1 .. Len(v) - m : t[i] = v[i]
  BY <1>3, PoppedFacts
<1> HIDE DEF t
<1>6. Len(t) = Len(st) - (n + m)
  BY <1>1, <1>2, <1>3, <1>5
<1>7. ASSUME NEW i \in 1 .. Len(st) - (n + m) PROVE t[i] = u[i]
  <2>1. i \in 1 .. Len(st) - n /\ i \in 1 .. Len(v) - m
    BY <1>1, <1>2, <1>3
  <2> QED
    BY <1>3, <1>4, <1>5, <2>1
<1> DEFINE S == { t[i] : i \in DOMAIN t } \cup { u[i] : i \in DOMAIN u }
<1>8. t \in Seq(S) /\ u \in Seq(S)
  BY <1>4, <1>5, SeqMonotonic DEF IsStack
<1> HIDE DEF S
<1>9. t = u
  BY <1>4, <1>6, <1>7, <1>8, SeqEqual
<1> QED
  BY <1>9 DEF t, u, v

-----------------------------------------------------------------------------
(* The error recovery.                                                     *)

LEMMA RecoveryStops ==
  ASSUME NEW st, IsStack(st)
  PROVE  \E n \in 0 .. Len(st) :
           Catches(Popped(st, n)) /\ \A k \in 0 .. n - 1 : ~Catches(Popped(st, k))
<1> DEFINE T == { n \in 0 .. Len(st) : Catches(Popped(st, n)) }
<1>1. Len(st) \in Nat
  BY StackFacts
<1>2. Len(st) \in T
  <2>1. Len(Popped(st, Len(st))) = 0
    BY <1>1, PoppedFacts
  <2>2. Top(Popped(st, Len(st))) = "bottom"
    BY <2>1 DEF Top, Below
  <2> QED
    BY <1>1, <2>2 DEF Catches
<1>3. T \subseteq Nat
  BY <1>1
<1> HIDE DEF T
<1>4. \E n \in T : \A m \in T : ~(<<m, n>> \in OpToRel(<, Nat))
  BY <1>2, <1>3, NatLessThanWellFounded, WFMin
<1>5. PICK n \in T : \A m \in T : ~(<<m, n>> \in OpToRel(<, Nat))
  BY <1>4
<1>6. \A k \in T : ~(k < n)
  BY <1>3, <1>5 DEF OpToRel
<1>7. n \in 0 .. Len(st) /\ Catches(Popped(st, n))
  BY DEF T
<1>8. ASSUME NEW k \in 0 .. n - 1, Catches(Popped(st, k)) PROVE FALSE
  <2>1. k \in 0 .. Len(st) /\ k < n
    BY <1>1, <1>7
  <2>2. k \in T
    BY <1>8, <2>1 DEF T
  <2> QED
    BY <1>6, <2>1, <2>2
<1> QED
  BY <1>7, <1>8

\* Nothing that is popped is a unit or an identifier.
LEMMA RecoveredFacts ==
  ASSUME NEW st, IsStack(st), WellFormed(st), Catches(st) \/ Top(st) \in Waste
  PROVE  /\ IsStack(Recovered(st)) /\ WellFormed(Recovered(st))
         /\ Top(Recovered(st)) = "error"
         /\ Loans(Recovered(st)) = Loans(st)
         /\ Identifiers(Recovered(st)) = Identifiers(st)
<1> DEFINE Stops(n) == Catches(Popped(st, n)) /\ \A k \in 0 .. n - 1 : ~Catches(Popped(st, k))
           n == CHOOSE n \in 0 .. Len(st) : Stops(n)
           left == Popped(st, n)
           x == Symbol("error", 0)
<1>1. Recovered(st) = Append(left, x)
  BY DEF Recovered
<1>2. n \in 0 .. Len(st) /\ Stops(n)
  <2>1. \E k \in 0 .. Len(st) : Stops(k)
    BY RecoveryStops
  <2> HIDE DEF Stops
  <2> QED
    BY <2>1
<1>3. Catches(left) /\ \A k \in 0 .. n - 1 : ~Catches(Popped(st, k))
  BY <1>2
<1> HIDE DEF n, Stops
<1>4. Len(st) \in Nat /\ n \in Nat /\ IsStack(left) /\ WellFormed(left)
  BY <1>2, StackFacts, PoppedFacts, PoppedIsWellFormed
<1>5. x.name = "error"
  BY DEF Symbol
<1>6. Fits(Below(left, 1), Top(left), x.name)
  BY <1>3, <1>5 DEF Catches, Fits
<1>7. ASSUME NEW i \in Len(st) - n + 1 .. Len(st)
      PROVE  NameAt(st, i) \in Waste
  <2>1. Len(st) - i \in 0 .. n - 1 /\ Len(st) - i \in 0 .. Len(st) /\ i \in Int
    BY <1>2, <1>4
  <2>2. ~Catches(Popped(st, Len(st) - i))
    BY <1>3, <2>1
  <2>3. /\ Top(Popped(st, Len(st) - i)) = Below(st, Len(st) - i)
        /\ Below(Popped(st, Len(st) - i), 1) = Below(st, Len(st) - i + 1)
    <3> DEFINE j == Len(st) - i
    <3>1. j \in 0 .. Len(st) /\ j + 0 = j
      BY <1>4, <2>1
    <3> HIDE DEF j
    <3>2. \A k \in Nat : Below(Popped(st, j), k) = Below(st, j + k)
      BY <3>1, NamesAfterPopped
    <3>3. Below(Popped(st, j), 0) = Below(st, j) /\ Below(Popped(st, j), 1) = Below(st, j + 1)
      BY <3>1, <3>2
    <3> QED
      BY <3>3 DEF Top, j
  <2>4. Below(st, Len(st) - i) = NameAt(st, i) /\ Below(st, Len(st) - i + 1) = NameAt(st, i - 1)
    <3>1. Len(st) - (Len(st) - i) = i /\ Len(st) - (Len(st) - i + 1) = i - 1
      BY <1>4, <2>1
    <3> QED
      BY <2>1, <3>1, BelowIsNameAt
  <2>5. CASE i = Len(st)
    <3>1. Len(st) - i = 0
      BY <1>4, <2>5
    <3>2. Popped(st, 0) = st
      BY SubSeqFull, <1>4 DEF Popped, IsStack
    <3>3. Top(st) \in Waste
      BY <2>2, <3>1, <3>2
    <3> QED
      BY <2>4, <3>1, <3>3 DEF Top
  <2>6. CASE i # Len(st)
    <3>1. i \in 1 .. Len(st) - 1
      BY <1>2, <1>4, <2>1, <2>6
    <3> QED
      BY <2>2, <2>3, <2>4, <3>1, InteriorSymbol DEF Catches
  <2> QED
    BY <2>5, <2>6
<1>8. /\ Held(left, UnitSymbols, Free) = Held(st, UnitSymbols, Free)
      /\ Held(left, {"ID"}, {}) = Held(st, {"ID"}, {})
  <2>1. \A i \in Len(st) - n + 1 .. Len(st) :
          NameAt(st, i) \notin UnitSymbols /\ NameAt(st, i) \notin {"ID"}
    BY <1>7 DEF Waste, UnitSymbols
  <2> QED
    BY <1>2, <2>1, HeldAfterWaste
<1>9. Weight(x, UnitSymbols, Free) = 0 /\ Weight(x, {"ID"}, {}) = 0
  BY <1>5 DEF Weight, UnitSymbols
<1> HIDE DEF left, x
<1>10. Loans(Append(left, x)) = Loans(st) /\ Identifiers(Append(left, x)) = Identifiers(st)
  <2>1. /\ Loans(Append(left, x)) = Loans(left) + 0
        /\ Identifiers(Append(left, x)) = Identifiers(left) + 0
    BY <1>4, <1>9, HeldAfterAppend DEF Loans, Identifiers
  <2>2. Loans(left) \in Nat /\ Identifiers(left) \in Nat
    BY <1>4, HeldIsFinite DEF Loans, Identifiers
  <2>3. Loans(left) = Loans(st) /\ Identifiers(left) = Identifiers(st)
    BY <1>8 DEF Loans, Identifiers
  <2> QED
    BY <2>1, <2>2, <2>3
<1>11. /\ IsStack(Append(left, x)) /\ WellFormed(Append(left, x))
       /\ Top(Append(left, x)) = "error"
  BY <1>4, <1>5, <1>6, AppendFacts, AppendIsWellFormed, NamesAfterAppend
<1> QED
  BY <1>1, <1>10, <1>11

-----------------------------------------------------------------------------
(* The symbols at the top.                                                 *)

LoanOf(x) == Weight(x, UnitSymbols, Free)
IdentifierOf(x) == Weight(x, {"ID"}, {})

LEMMA CountsAreNatural ==
  ASSUME NEW st, IsStack(st)
  PROVE  Loans(st) \in Nat /\ Identifiers(st) \in Nat
BY HeldIsFinite DEF Loans, Identifiers

LEMMA FitsBelow ==
  ASSUME NEW st, IsStack(st), WellFormed(st), NEW k \in Nat, Below(st, k) # "bottom"
  PROVE  /\ k + 1 \in 1 .. Len(st)
         /\ st[Len(st) - k].name = Below(st, k)
         /\ Fits(Below(st, k + 2), Below(st, k + 1), Below(st, k))
<1>1. Len(st) \in Nat
  BY StackFacts
<1>2. k < Len(st) /\ st[Len(st) - k].name = Below(st, k)
  BY DEF Below
<1>3. /\ Below(st, k) = NameAt(st, Len(st) - k)
      /\ Below(st, k + 1) = NameAt(st, Len(st) - (k + 1))
      /\ Below(st, k + 2) = NameAt(st, Len(st) - (k + 2))
  BY BelowIsNameAt
<1>4. /\ Len(st) - k \in 1 .. Len(st)
      /\ Len(st) - (k + 1) = Len(st) - k - 1
      /\ Len(st) - (k + 2) = Len(st) - k - 2
  BY <1>1, <1>2
<1>5. Fits(NameAt(st, Len(st) - k - 2), NameAt(st, Len(st) - k - 1), NameAt(st, Len(st) - k))
  BY <1>4 DEF WellFormed
<1> QED
  BY <1>1, <1>2, <1>3, <1>4, <1>5

LEMMA PopOne ==
  ASSUME NEW st, IsStack(st), Len(st) >= 1
  PROVE  /\ Loans(st) = Loans(Popped(st, 1)) + LoanOf(st[Len(st)])
         /\ Identifiers(st) = Identifiers(Popped(st, 1)) + IdentifierOf(st[Len(st)])
BY HeldAfterPop DEF Loans, Identifiers, LoanOf, IdentifierOf

LEMMA PopAnother ==
  ASSUME NEW st, IsStack(st), NEW n \in Nat, n + 1 <= Len(st)
  PROVE  /\ Loans(Popped(st, n)) = Loans(Popped(st, n + 1)) + LoanOf(st[Len(st) - n])
         /\ Identifiers(Popped(st, n))
              = Identifiers(Popped(st, n + 1)) + IdentifierOf(st[Len(st) - n])
<1> DEFINE t == Popped(st, n)
<1>1. Len(st) \in Nat
  BY StackFacts
<1>2. n \in 0 .. Len(st) /\ 1 \in 0 .. Len(st) - n /\ Len(st) - n \in 1 .. Len(st) - n
  BY <1>1
<1>3. IsStack(t) /\ Len(t) = Len(st) - n /\ t[Len(st) - n] = st[Len(st) - n]
  BY <1>2, PoppedFacts
<1>4. Popped(t, 1) = Popped(st, n + 1)
  BY <1>2, PoppedAgain
<1>5. Len(t) >= 1
  BY <1>1, <1>2, <1>3
<1> HIDE DEF t
<1>6. /\ Loans(t) = Loans(Popped(t, 1)) + LoanOf(t[Len(t)])
      /\ Identifiers(t) = Identifiers(Popped(t, 1)) + IdentifierOf(t[Len(t)])
  BY <1>3, <1>5, PopOne
<1>7. t[Len(t)] = st[Len(st) - n]
  BY <1>3
<1> QED
  BY <1>4, <1>6, <1>7 DEF t

LEMMA PopTwo ==
  ASSUME NEW st, IsStack(st), Len(st) >= 2
  PROVE  /\ Loans(st) = Loans(Popped(st, 2)) + LoanOf(st[Len(st) - 1]) + LoanOf(st[Len(st)])
         /\ Identifiers(st) = Identifiers(Popped(st, 2))
                               + IdentifierOf(st[Len(st) - 1]) + IdentifierOf(st[Len(st)])
<1>1. Len(st) >= 1 /\ 1 + 1 <= Len(st) /\ 1 + 1 = 2
  BY StackFacts
<1> QED
  BY <1>1, PopOne, PopAnother

LEMMA PopThree ==
  ASSUME NEW st, IsStack(st), Len(st) >= 3
  PROVE  /\ Loans(st) = Loans(Popped(st, 3)) + LoanOf(st[Len(st) - 2])
                         + LoanOf(st[Len(st) - 1]) + LoanOf(st[Len(st)])
         /\ Identifiers(st) = Identifiers(Popped(st, 3)) + IdentifierOf(st[Len(st) - 2])
                               + IdentifierOf(st[Len(st) - 1]) + IdentifierOf(st[Len(st)])
<1>1. Len(st) >= 2 /\ 2 + 1 <= Len(st) /\ 2 + 1 = 3
  BY StackFacts
<1> QED
  BY <1>1, PopTwo, PopAnother

\* The last n symbols make room for another one.
LEMMA ReplaceTop ==
  ASSUME NEW st, IsStack(st), WellFormed(st), NEW n \in 0 .. Len(st), NEW x,
         Fits(Below(st, n + 1), Below(st, n), x.name)
  PROVE  /\ IsStack(Append(Popped(st, n), x)) /\ WellFormed(Append(Popped(st, n), x))
         /\ Top(Append(Popped(st, n), x)) = x.name
         /\ Below(Append(Popped(st, n), x), 1) = Below(st, n)
         /\ Len(Append(Popped(st, n), x)) = Len(st) - n + 1
         /\ Append(Popped(st, n), x)[Len(st) - n + 1] = x
         /\ Loans(Append(Popped(st, n), x)) = Loans(Popped(st, n)) + LoanOf(x)
         /\ Identifiers(Append(Popped(st, n), x)) = Identifiers(Popped(st, n)) + IdentifierOf(x)
<1> DEFINE t == Popped(st, n)
<1>1. n \in Nat /\ IsStack(t) /\ WellFormed(t) /\ Len(t) = Len(st) - n
  BY StackFacts, PoppedFacts, PoppedIsWellFormed
<1>2. \A k \in Nat : Below(t, k) = Below(st, n + k)
  BY NamesAfterPopped
<1>3. Below(t, 0) = Below(st, n) /\ Below(t, 1) = Below(st, n + 1)
  <2>1. n + 0 = n
    BY <1>1
  <2> QED
    BY <1>2, <2>1
<1> HIDE DEF t
<1>4. IsStack(Append(t, x)) /\ WellFormed(Append(t, x)) /\ Top(Append(t, x)) = x.name
  BY <1>1, <1>3, AppendFacts, AppendIsWellFormed, NamesAfterAppend DEF Top
<1>5. Below(Append(t, x), 0 + 1) = Below(t, 0)
  BY <1>1, NamesAfterAppend
<1>6. Len(Append(t, x)) = Len(t) + 1 /\ Append(t, x)[Len(t) + 1] = x
  BY <1>1, AppendFacts
<1>7. /\ Loans(Append(t, x)) = Loans(t) + LoanOf(x)
      /\ Identifiers(Append(t, x)) = Identifiers(t) + IdentifierOf(x)
  BY <1>1, HeldAfterAppend DEF Loans, Identifiers, LoanOf, IdentifierOf
<1> QED
  BY <1>1, <1>3, <1>4, <1>5, <1>6, <1>7 DEF t

LEMMA CostIsLoan ==
  ASSUME NEW name \in UnitSymbols, NEW u
  PROVE  LoanOf(Symbol(name, u)) = Cost(u) /\ Cost(u) \in {0, 1}
BY DEF LoanOf, Weight, Symbol, Cost, Free

\* A rule that makes a unit, or fails to and starts the recovery.
LEMMA ReplacedFacts ==
  ASSUME IsStack(stack), WellFormed(stack), NEW n \in 0 .. Len(stack),
         NEW name \in UnitSymbols, Fits(Below(stack, n + 1), Below(stack, n), name), NEW u
  PROVE  /\ IsStack(Replaced(n, name, u)) /\ WellFormed(Replaced(n, name, u))
         /\ Loans(Replaced(n, name, u)) = Loans(Popped(stack, n)) + Cost(u)
         /\ Identifiers(Replaced(n, name, u)) = Identifiers(Popped(stack, n))
         /\ u = NoUnit => Top(Replaced(n, name, u)) = "error"
         /\ u # NoUnit => /\ Top(Replaced(n, name, u)) = name
                          /\ Replaced(n, name, u)[Len(Replaced(n, name, u))] = Symbol(name, u)
<1> DEFINE t == Popped(stack, n)
           x == Symbol(name, u)
<1>1. x.name = name /\ IdentifierOf(x) = 0
  BY DEF Symbol, IdentifierOf, Weight, UnitSymbols
<1>2. IsStack(t) /\ WellFormed(t) /\ Loans(t) \in Nat /\ Identifiers(t) \in Nat
  BY PoppedFacts, PoppedIsWellFormed, CountsAreNatural
<1>3. CASE u = NoUnit
  <2>1. Top(t) = Below(stack, n)
    <3>1. n \in Nat /\ n + 0 = n
      BY StackFacts
    <3>2. Below(t, 0) = Below(stack, n + 0)
      BY NamesAfterPopped
    <3> QED
      BY <3>1, <3>2 DEF Top
  <2>2. Below(stack, n) \in OperandPlaces
    BY DEF Fits, UnitSymbols, OperandPlaces
  <2>3. Catches(t) \/ Top(t) \in Waste
    BY <2>1, <2>2 DEF Catches, Waste, OperandPlaces
  <2>4. /\ IsStack(Recovered(t)) /\ WellFormed(Recovered(t)) /\ Top(Recovered(t)) = "error"
        /\ Loans(Recovered(t)) = Loans(t) /\ Identifiers(Recovered(t)) = Identifiers(t)
    BY <1>2, <2>3, RecoveredFacts
  <2>5. Replaced(n, name, u) = Recovered(t) /\ Cost(u) = 0
    BY <1>3 DEF Replaced, Cost
  <2> QED
    BY <1>2, <1>3, <2>4, <2>5
<1>4. CASE u # NoUnit
  <2>1. Replaced(n, name, u) = Append(t, x)
    BY <1>4 DEF Replaced
  <2>2. Fits(Below(stack, n + 1), Below(stack, n), x.name)
    BY <1>1
  <2> HIDE DEF x
  <2>3. /\ IsStack(Append(t, x)) /\ WellFormed(Append(t, x)) /\ Top(Append(t, x)) = x.name
        /\ Len(Append(t, x)) = Len(stack) - n + 1 /\ Append(t, x)[Len(stack) - n + 1] = x
        /\ Loans(Append(t, x)) = Loans(t) + LoanOf(x)
        /\ Identifiers(Append(t, x)) = Identifiers(t) + IdentifierOf(x)
    BY <2>2, ReplaceTop
  <2>4. LoanOf(x) = Cost(u)
    BY CostIsLoan DEF x
  <2> QED
    BY <1>1, <1>2, <1>4, <2>1, <2>3, <2>4 DEF x
<1> QED
  BY <1>3, <1>4
-----------------------------------------------------------------------------
(* The inductive invariant.                                                *)

\* What is allocated is what the stack and the scanner's token hold; when the
\* parse is over, it is the result.
Shape ==
  /\ phase \in {"idle", "parsing", "done"}
  /\ IsStack(stack) /\ WellFormed(stack)
  /\ phase = "idle" => stack = << >>

Counts ==
  /\ units \in Int /\ strings \in Int
  /\ strings = Identifiers(stack) + (IF look.token = "ID" THEN 1 ELSE 0)
  /\ units = IF phase = "done" THEN Cost(result) ELSE Loans(stack)

\* Once something is unknown, only the error rules run.
Known ==
  unknown => /\ status = "UT_UNKNOWN"
             /\ \/ phase = "parsing" /\ Top(stack) = "error"
                \/ phase = "done" /\ result = NoUnit

\* The flag is about a product at the top, or below the "@" that follows it.
Flag ==
  phase = "parsing" =>
    /\ Top(stack) = "product_exp" => isTime = IsTime(Value(0))
    /\ Top(stack) = "SHIFT" => isTime = IsTime(Value(1))

IInv == Shape /\ Counts /\ Known /\ Flag

-----------------------------------------------------------------------------
(* What a rule does to the stack.                                          *)

LEMMA Weights ==
  ASSUME NEW x
  PROVE  /\ x.name \in UnitSymbols => LoanOf(x) = Cost(x.value) /\ IdentifierOf(x) = 0
         /\ x.name = "ID" => LoanOf(x) = 0 /\ IdentifierOf(x) = 1
         /\ x.name \notin UnitSymbols \cup {"ID"} => LoanOf(x) = 0 /\ IdentifierOf(x) = 0
         /\ Cost(x.value) \in {0, 1} /\ LoanOf(x) \in {0, 1} /\ IdentifierOf(x) \in {0, 1}
BY DEF LoanOf, IdentifierOf, Weight, UnitSymbols, Cost, Free

LEMMA TopSymbols ==
  ASSUME NEW st, IsStack(st), WellFormed(st)
  PROVE  /\ Len(st) \in Nat
         /\ Top(st) # "bottom" =>
              /\ Len(st) >= 1 /\ st[Len(st)].name = Top(st)
              /\ Fits(Below(st, 2), Below(st, 1), Top(st))
         /\ Below(st, 1) # "bottom" =>
              /\ Len(st) >= 2 /\ st[Len(st) - 1].name = Below(st, 1)
              /\ Fits(Below(st, 3), Below(st, 2), Below(st, 1))
         /\ Below(st, 2) # "bottom" =>
              /\ Len(st) >= 3 /\ st[Len(st) - 2].name = Below(st, 2)
              /\ Fits(Below(st, 4), Below(st, 3), Below(st, 2))
<1>1. Len(st) \in Nat /\ Len(st) - 0 = Len(st)
  BY StackFacts
<1>2. ASSUME NEW k \in {0, 1, 2}, Below(st, k) # "bottom"
      PROVE  /\ Len(st) >= k + 1
             /\ st[Len(st) - k].name = Below(st, k)
             /\ Fits(Below(st, k + 2), Below(st, k + 1), Below(st, k))
  BY <1>1, <1>2, FitsBelow
<1> QED
  BY <1>1, <1>2 DEF Top

\* The last n symbols, on which there is so much on loan, are replaced by another.
LEMMA PushedKeeps ==
  ASSUME Shape, Counts, phase = "parsing", NEW n \in 0 .. Len(stack), NEW x,
         Fits(Below(stack, n + 1), Below(stack, n), x.name),
         stack' = Append(Popped(stack, n), x),
         units' = units + Loans(Popped(stack, n)) + LoanOf(x) - Loans(stack),
         strings' = strings + Identifiers(Popped(stack, n)) + IdentifierOf(x)
                            - Identifiers(stack),
         phase' = phase, look' = look
  PROVE  Shape' /\ Counts' /\ Top(stack') = x.name /\ Value(0)' = x.value
<1> DEFINE t == Popped(stack, n)
           s == Append(t, x)
<1>1. IsStack(s) /\ WellFormed(s) /\ Loans(s) = Loans(t) + LoanOf(x)
                 /\ Identifiers(s) = Identifiers(t) + IdentifierOf(x)
                 /\ Top(s) = x.name /\ s[Len(s)] = x
  BY ReplaceTop DEF Shape
<1>2. IsStack(t)
  BY PoppedFacts DEF Shape
<1>3. /\ Loans(t) \in Nat /\ Identifiers(t) \in Nat
      /\ Loans(stack) \in Nat /\ Identifiers(stack) \in Nat
  BY <1>2, CountsAreNatural DEF Shape
<1>4. LoanOf(x) \in Int /\ IdentifierOf(x) \in Int
  BY Weights
<1>5. stack' = s
  OBVIOUS
<1> HIDE DEF s, t
<1>6. Shape'
  BY <1>1, <1>5 DEF Shape
<1>7. units = Loans(stack) /\ strings = Identifiers(stack) + (IF look.token = "ID" THEN 1 ELSE 0)
  BY DEF Counts
<1>8. units' = Loans(t) + LoanOf(x) - Loans(stack) + units
      /\ strings' = strings + Identifiers(t) + IdentifierOf(x) - Identifiers(stack)
  BY <1>3, <1>4, <1>7 DEF t
<1>9. units' = Loans(s) /\ units' \in Int
  BY <1>1, <1>3, <1>4, <1>7, <1>8
<1>10. strings' = Identifiers(s) + (IF look.token = "ID" THEN 1 ELSE 0) /\ strings' \in Int
  <2> DEFINE ahead == IF look.token = "ID" THEN 1 ELSE 0
  <2>1. ahead \in Int /\ strings = Identifiers(stack) + ahead
    BY <1>7
  <2> HIDE DEF ahead
  <2>2. strings' = (Identifiers(stack) + ahead) + Identifiers(t) + IdentifierOf(x) - Identifiers(stack)
    BY <1>8, <2>1
  <2>3. strings' = (Identifiers(t) + IdentifierOf(x)) + ahead
    BY ONLY <1>3, <1>4, <2>1, <2>2, SMTT(30)
  <2>4. strings' = Identifiers(s) + ahead /\ strings' \in Int
    BY <1>1, <1>3, <1>4, <2>1, <2>3
  <2> QED
    BY <2>4 DEF ahead
<1>11. Counts'
  BY <1>5, <1>9, <1>10 DEF Counts
<1>12. Len(s) - 0 = Len(s)
  BY <1>1, StackFacts
<1>13. Top(stack') = x.name /\ Value(0)' = x.value
  BY <1>1, <1>5, <1>12 DEF Value
<1> QED
  BY <1>6, <1>11, <1>13

\* They are replaced by a unit that may not have been made.
LEMMA ReplacedKeeps ==
  ASSUME Shape, Counts, phase = "parsing", NEW n \in 0 .. Len(stack),
         NEW name \in UnitSymbols, Fits(Below(stack, n + 1), Below(stack, n), name), NEW u,
         stack' = Replaced(n, name, u),
         units' = units + Loans(Popped(stack, n)) + Cost(u) - Loans(stack),
         strings' = strings + Identifiers(Popped(stack, n)) - Identifiers(stack),
         phase' = phase, look' = look
  PROVE  Shape' /\ Counts' /\ Top(stack') \in {name, "error"}
                /\ (Top(stack') = name => Value(0)' = u)
<1> DEFINE t == Popped(stack, n)
           s == Replaced(n, name, u)
<1>1. IsStack(s) /\ WellFormed(s) /\ Loans(s) = Loans(t) + Cost(u)
                 /\ Identifiers(s) = Identifiers(t)
                 /\ Top(s) = (IF u = NoUnit THEN "error" ELSE name)
                 /\ (u # NoUnit => s[Len(s)] = Symbol(name, u))
  BY ReplacedFacts DEF Shape
<1>2. IsStack(t)
  BY PoppedFacts DEF Shape
<1>3. /\ Loans(t) \in Nat /\ Identifiers(t) \in Nat
      /\ Loans(stack) \in Nat /\ Identifiers(stack) \in Nat
  BY <1>2, CountsAreNatural DEF Shape
<1>4. Cost(u) \in Int
  BY DEF Cost
<1>5. stack' = s
  OBVIOUS
<1> HIDE DEF s, t
<1>6. Shape'
  BY <1>1, <1>5 DEF Shape
<1>7. units = Loans(stack) /\ strings = Identifiers(stack) + (IF look.token = "ID" THEN 1 ELSE 0)
  BY DEF Counts
<1>8. units' = units + Loans(t) + Cost(u) - Loans(stack)
      /\ strings' = strings + Identifiers(t) - Identifiers(stack)
  BY DEF t
<1>9. units' = Loans(s) /\ units' \in Int
  BY <1>1, <1>3, <1>4, <1>7, <1>8
<1>10. strings' = Identifiers(s) + (IF look.token = "ID" THEN 1 ELSE 0) /\ strings' \in Int
  BY <1>1, <1>3, <1>7, <1>8
<1>11. Counts'
  BY <1>5, <1>9, <1>10 DEF Counts
<1>12. Len(s) - 0 = Len(s) /\ name # "error" /\ Symbol(name, u).value = u
  BY <1>1, StackFacts DEF UnitSymbols, Symbol
<1>13. Top(stack') \in {name, "error"} /\ (Top(stack') = name => Value(0)' = u)
  BY <1>1, <1>5, <1>12 DEF Value
<1> QED
  BY <1>6, <1>11, <1>13

\* They are given up, and the recovery starts below them.
LEMMA RecoveredKeeps ==
  ASSUME Shape, Counts, phase = "parsing", NEW n \in 0 .. Len(stack),
         \/ Catches(Popped(stack, n))
         \/ Below(stack, n) \in Waste \cup OperandPlaces \cup {"SHIFT"},
         stack' = Recovered(Popped(stack, n)),
         units' = units + Loans(Popped(stack, n)) - Loans(stack),
         strings' = strings + Identifiers(Popped(stack, n)) - Identifiers(stack),
         phase' = phase, look' = look
  PROVE  Shape' /\ Counts' /\ Top(stack') = "error"
<1> DEFINE t == Popped(stack, n)
           s == Recovered(t)
<1>1. IsStack(t) /\ WellFormed(t)
  BY PoppedFacts, PoppedIsWellFormed DEF Shape
<1>2. Catches(t) \/ Top(t) \in Waste
  <2>1. n \in Nat /\ n + 0 = n
    BY StackFacts DEF Shape
  <2>2. Below(t, 0) = Below(stack, n + 0)
    BY NamesAfterPopped DEF Shape
  <2>3. Top(t) = Below(stack, n)
    BY <2>1, <2>2 DEF Top
  <2> HIDE DEF t
  <2>4. Top(t) \in Waste \cup OperandPlaces \cup {"SHIFT"} => Catches(t) \/ Top(t) \in Waste
    BY DEF Catches, Waste, OperandPlaces
  <2>5. Catches(t) \/ Top(t) \in Waste \cup OperandPlaces \cup {"SHIFT"}
    BY <2>3 DEF t
  <2> QED
    BY <2>4, <2>5
<1>3. /\ Loans(t) \in Nat /\ Identifiers(t) \in Nat
      /\ Loans(stack) \in Nat /\ Identifiers(stack) \in Nat
  BY <1>1, CountsAreNatural DEF Shape
<1>4. stack' = s
  OBVIOUS
<1> HIDE DEF t
<1>5. /\ IsStack(s) /\ WellFormed(s) /\ Top(s) = "error"
      /\ Loans(s) = Loans(t) /\ Identifiers(s) = Identifiers(t)
  BY <1>1, <1>2, RecoveredFacts
<1> HIDE DEF s
<1>6. Shape' /\ Top(stack') = "error"
  BY <1>4, <1>5 DEF Shape
<1>7. units = Loans(stack) /\ strings = Identifiers(stack) + (IF look.token = "ID" THEN 1 ELSE 0)
  BY DEF Counts
<1>8. units' = units + Loans(t) - Loans(stack)
      /\ strings' = strings + Identifiers(t) - Identifiers(stack)
  BY DEF t
<1>9. units' = Loans(s) /\ units' \in Int
  BY <1>3, <1>5, <1>7, <1>8
<1>10. strings' = Identifiers(s) + (IF look.token = "ID" THEN 1 ELSE 0) /\ strings' \in Int
  BY <1>3, <1>5, <1>7, <1>8
<1>11. Counts'
  BY <1>4, <1>9, <1>10 DEF Counts
<1> QED
  BY <1>6, <1>11

-----------------------------------------------------------------------------
(* The actions.                                                            *)

\* What the first symbols amount to.
LEMMA LoansPopped ==
  ASSUME NEW st, IsStack(st)
  PROVE  /\ Len(st) \in Nat /\ Loans(st) \in Nat /\ Identifiers(st) \in Nat
         /\ Len(st) >= 1 =>
              /\ Loans(Popped(st, 1)) = Loans(st) - LoanOf(st[Len(st)])
              /\ Identifiers(Popped(st, 1)) = Identifiers(st) - IdentifierOf(st[Len(st)])
         /\ Len(st) >= 2 =>
              /\ Loans(Popped(st, 2)) = Loans(st) - LoanOf(st[Len(st)]) - LoanOf(st[Len(st) - 1])
              /\ Identifiers(Popped(st, 2))
                   = Identifiers(st) - IdentifierOf(st[Len(st)]) - IdentifierOf(st[Len(st) - 1])
         /\ Len(st) >= 3 =>
              /\ Loans(Popped(st, 3)) = Loans(st) - LoanOf(st[Len(st)]) - LoanOf(st[Len(st) - 1])
                                                  - LoanOf(st[Len(st) - 2])
              /\ Identifiers(Popped(st, 3))
                   = Identifiers(st) - IdentifierOf(st[Len(st)]) - IdentifierOf(st[Len(st) - 1])
                                     - IdentifierOf(st[Len(st) - 2])
<1>1. Len(st) \in Nat /\ Loans(st) \in Nat /\ Identifiers(st) \in Nat
  BY StackFacts, CountsAreNatural
<1>2. ASSUME NEW n \in {1, 2, 3}, Len(st) >= n
      PROVE  Loans(Popped(st, n)) \in Int /\ Identifiers(Popped(st, n)) \in Int
  <2>1. n \in 0 .. Len(st)
    BY <1>1, <1>2
  <2>2. IsStack(Popped(st, n))
    BY <2>1, PoppedFacts
  <2> QED
    BY <2>2, CountsAreNatural
<1>3. ASSUME NEW x PROVE LoanOf(x) \in Int /\ IdentifierOf(x) \in Int
  BY Weights
<1>4. \A a, b, c, d \in Int : /\ a + b - b = a
                              /\ a + c + b - b - c = a
                              /\ a + d + c + b - b - c - d = a
  OBVIOUS
<1>5. ASSUME Len(st) >= 1
      PROVE  /\ Loans(Popped(st, 1)) = Loans(st) - LoanOf(st[Len(st)])
             /\ Identifiers(Popped(st, 1)) = Identifiers(st) - IdentifierOf(st[Len(st)])
  <2>1. Loans(Popped(st, 1)) \in Int /\ Identifiers(Popped(st, 1)) \in Int
    BY <1>2, <1>5
  <2> QED
    BY <2>1, <1>3, <1>4, <1>5, PopOne
<1>6. ASSUME Len(st) >= 2
      PROVE  /\ Loans(Popped(st, 2)) = Loans(st) - LoanOf(st[Len(st)]) - LoanOf(st[Len(st) - 1])
             /\ Identifiers(Popped(st, 2))
                  = Identifiers(st) - IdentifierOf(st[Len(st)]) - IdentifierOf(st[Len(st) - 1])
  <2>1. Loans(Popped(st, 2)) \in Int /\ Identifiers(Popped(st, 2)) \in Int
    BY <1>2, <1>6
  <2> QED
    BY <2>1, <1>3, <1>4, <1>6, PopTwo
<1>7. ASSUME Len(st) >= 3
      PROVE  /\ Loans(Popped(st, 3)) = Loans(st) - LoanOf(st[Len(st)]) - LoanOf(st[Len(st) - 1])
                                                 - LoanOf(st[Len(st) - 2])
             /\ Identifiers(Popped(st, 3))
                  = Identifiers(st) - IdentifierOf(st[Len(st)]) - IdentifierOf(st[Len(st) - 1])
                                    - IdentifierOf(st[Len(st) - 2])
  <2>1. Loans(Popped(st, 3)) \in Int /\ Identifiers(Popped(st, 3)) \in Int
    BY <1>2, <1>7
  <2> QED
    BY <2>1, <1>3, <1>4, <1>7, PopThree
<1> QED
  BY <1>1, <1>5, <1>6, <1>7

\* The values of the rules are those of the symbols at the top.
LEMMA ValuesAtTop ==
  ASSUME Shape
  PROVE  /\ Value(0) = stack[Len(stack)].value
         /\ Value(1) = stack[Len(stack) - 1].value
         /\ Value(2) = stack[Len(stack) - 2].value
<1>1. Len(stack) - 0 = Len(stack)
  BY StackFacts DEF Shape
<1> QED
  BY <1>1 DEF Value

LEMMA RenameKeeps ==
  ASSUME Shape, Counts, NEW from \in UnitSymbols, NEW to \in UnitSymbols, Rename(from, to),
         Fits(Below(stack, 2), Below(stack, 1), to)
  PROVE  Shape' /\ Counts' /\ Top(stack') = to /\ Value(0)' = Value(0)
<1> DEFINE x == Symbol(to, Value(0))
<1>1. /\ Len(stack) \in Nat /\ Len(stack) >= 1 /\ 1 + 1 = 2
      /\ stack[Len(stack)].name = from
  BY TopSymbols DEF Shape, Rename, UnitSymbols
<1>2. LoanOf(x) = Cost(Value(0)) /\ IdentifierOf(x) = 0 /\ x.name = to /\ x.value = Value(0)
      /\ Cost(Value(0)) \in Int
  BY Weights DEF Symbol
<1>3. /\ Loans(Popped(stack, 1)) = Loans(stack) - Cost(Value(0))
      /\ Identifiers(Popped(stack, 1)) = Identifiers(stack) - 0
      /\ Loans(stack) \in Nat /\ Identifiers(stack) \in Nat
  BY <1>1, LoansPopped, Weights, ValuesAtTop DEF Shape
<1>4. /\ stack' = Append(Popped(stack, 1), x)
      /\ phase = "parsing" /\ phase' = phase /\ look' = look
      /\ units' = units /\ strings' = strings
  BY DEF Rename, scanner
<1> HIDE DEF x
<1>5. /\ units' = units + Loans(Popped(stack, 1)) + LoanOf(x) - Loans(stack)
      /\ strings' = strings + Identifiers(Popped(stack, 1)) + IdentifierOf(x) - Identifiers(stack)
  BY <1>2, <1>3, <1>4 DEF Counts
<1>6. 1 \in 0 .. Len(stack) /\ Fits(Below(stack, 1 + 1), Below(stack, 1), x.name)
  BY <1>1, <1>2
<1>7. Shape' /\ Counts' /\ Top(stack') = x.name /\ Value(0)' = x.value
  BY <1>4, <1>5, <1>6, PushedKeeps
<1> QED
  BY <1>2, <1>7

LEMMA ReduceKeeps ==
  ASSUME Shape, Counts, phase = "parsing", NEW n \in 0 .. Len(stack),
         NEW name \in UnitSymbols, Fits(Below(stack, n + 1), Below(stack, n), name),
         NEW out, NEW freed \in Int, Reduce(n, name, out, freed),
         Loans(Popped(stack, n)) = Loans(stack) - freed,
         Identifiers(Popped(stack, n)) = Identifiers(stack)
  PROVE  Shape' /\ Counts' /\ Top(stack') \in {name, "error"}
                /\ (Top(stack') = name => Value(0)' = out.unit)
<1>1. Loans(stack) \in Nat /\ Identifiers(stack) \in Nat
  BY CountsAreNatural DEF Shape
<1>2. /\ stack' = Replaced(n, name, out.unit)
      /\ units' = units + Cost(out.unit) - freed /\ strings' = strings
      /\ phase' = phase /\ look' = look
  BY DEF Reduce, scanner
<1>3. Cost(out.unit) \in Int /\ units \in Int /\ strings \in Int
  BY DEF Cost, Counts
<1>4. /\ units' = units + Loans(Popped(stack, n)) + Cost(out.unit) - Loans(stack)
      /\ strings' = strings + Identifiers(Popped(stack, n)) - Identifiers(stack)
  BY <1>1, <1>2, <1>3
<1> QED
  BY <1>2, <1>4, ReplacedKeeps

\* The rules of products, powers, shifts and logarithms.
LEMMA UnitRulesKeep ==
  ASSUME Shape, Counts,
         \/ ShiftByNumber \/ ShiftByTime
         \/ Juxtapose \/ MultiplyBy \/ DivideBy \/ RaiseBy \/ Logarithm
  PROVE  Shape' /\ Counts' /\ Flag'
<1> DEFINE a == stack[Len(stack)]
           b == stack[Len(stack) - 1]
           c == stack[Len(stack) - 2]
<1>1. /\ Len(stack) \in Nat /\ Loans(stack) \in Nat /\ Identifiers(stack) \in Nat
      /\ IsStack(stack) /\ WellFormed(stack)
  BY TopSymbols, CountsAreNatural DEF Shape
<1>2. /\ LoanOf(a) \in Int /\ LoanOf(b) \in Int /\ LoanOf(c) \in Int
      /\ Cost(a.value) \in Int /\ Cost(b.value) \in Int /\ Cost(c.value) \in Int
  BY Weights
<1>3. Value(0) = a.value /\ Value(1) = b.value /\ Value(2) = c.value
  BY ValuesAtTop
<1>4. 1 + 1 = 2 /\ 2 + 1 = 3 /\ 3 + 1 = 4
  OBVIOUS
<1>5. ASSUME phase = "parsing", Top(stack) \in {"REAL", "INT", "timestamp"},
             Below(stack, 1) = "SHIFT",
             NEW out, Reduce(3, "shift_exp", out, Cost(Value(2)))
      PROVE  Shape' /\ Counts' /\ Flag'
  <2>1. /\ Len(stack) >= 2 /\ a.name = Top(stack) /\ b.name = "SHIFT"
        /\ Below(stack, 2) = "product_exp" /\ Below(stack, 3) # "LOGREF"
    BY <1>1, <1>5, TopSymbols DEF Fits
  <2>2. Len(stack) >= 3 /\ c.name = "product_exp" /\ Below(stack, 3) \in {"bottom", "("}
    BY <1>1, <2>1, TopSymbols DEF Fits
  <2>3. /\ LoanOf(a) = 0 /\ LoanOf(b) = 0 /\ LoanOf(c) = Cost(Value(2))
        /\ IdentifierOf(a) = 0 /\ IdentifierOf(b) = 0 /\ IdentifierOf(c) = 0
    BY <1>3, <1>5, <2>1, <2>2, Weights DEF UnitSymbols
  <2>4. /\ Loans(Popped(stack, 3)) = Loans(stack) - Cost(Value(2))
        /\ Identifiers(Popped(stack, 3)) = Identifiers(stack)
    BY <1>1, <2>2, <2>3, LoansPopped
  <2>5. /\ 3 \in 0 .. Len(stack) /\ "shift_exp" \in UnitSymbols /\ Cost(Value(2)) \in Int
        /\ Fits(Below(stack, 3 + 1), Below(stack, 3), "shift_exp")
    BY <1>1, <1>2, <1>3, <2>2 DEF Fits, UnitSymbols
  <2> QED
    BY <1>5, <2>4, <2>5, ReduceKeeps DEF Flag
<1>6. CASE ShiftByNumber
  BY <1>5, <1>6 DEF ShiftByNumber
<1>7. CASE ShiftByTime
  <2>1. Below(stack, 1) = "SHIFT"
    BY <1>1, <1>7, TopSymbols DEF ShiftByTime, Fits
  <2> QED
    BY <1>5, <1>7, <2>1 DEF ShiftByTime
<1>8. CASE Juxtapose
  <2>1. /\ Len(stack) >= 2 /\ a.name = "power_exp" /\ b.name = "product_exp"
        /\ Below(stack, 2) \in {"bottom", "(", "LOGREF"}
    BY <1>1, <1>8, TopSymbols DEF Juxtapose, Fits
  <2>2. /\ LoanOf(a) = Cost(Value(0)) /\ LoanOf(b) = Cost(Value(1))
        /\ IdentifierOf(a) = 0 /\ IdentifierOf(b) = 0
    BY <1>3, <2>1, Weights DEF UnitSymbols
  <2>3. /\ Loans(Popped(stack, 2)) = Loans(stack) - CostOfBoth(Value(1), Value(0))
        /\ Identifiers(Popped(stack, 2)) = Identifiers(stack)
        /\ CostOfBoth(Value(1), Value(0)) \in Int
    BY <1>1, <1>2, <1>3, <2>1, <2>2, LoansPopped DEF CostOfBoth
  <2>4. /\ 2 \in 0 .. Len(stack) /\ "product_exp" \in UnitSymbols
        /\ Fits(Below(stack, 2 + 1), Below(stack, 2), "product_exp")
    BY <1>1, <2>1 DEF Fits, UnitSymbols
  <2>5. Reduce(2, "product_exp", ut_multiply(Value(1), Value(0)), CostOfBoth(Value(1), Value(0)))
        /\ isTime' = IsTime(ut_multiply(Value(1), Value(0)).unit) /\ phase = "parsing"
    BY <1>8 DEF Juxtapose, Product
  <2> DEFINE out == ut_multiply(Value(1), Value(0))
  <2> HIDE DEF out
  <2>6. /\ Shape' /\ Counts' /\ Top(stack') \in {"product_exp", "error"}
        /\ (Top(stack') = "product_exp" => Value(0)' = out.unit)
    BY <2>3, <2>4, <2>5, ReduceKeeps DEF out
  <2> QED
    BY <2>5, <2>6 DEF Flag, IsTime, out
<1>9. ASSUME phase = "parsing", Top(stack) = "power_exp", Below(stack, 1) \in {"MULTIPLY", "DIVIDE"},
             NEW out, Product(3, out, Value(2), Value(0))
      PROVE  Shape' /\ Counts' /\ Flag'
  <2>1. /\ Len(stack) >= 2 /\ a.name = "power_exp" /\ b.name = Below(stack, 1)
        /\ Below(stack, 2) = "product_exp"
    BY <1>1, <1>9, TopSymbols DEF Fits
  <2>2. Len(stack) >= 3 /\ c.name = "product_exp" /\ Below(stack, 3) \in {"bottom", "(", "LOGREF"}
    BY <1>1, <2>1, TopSymbols DEF Fits
  <2>3. /\ LoanOf(a) = Cost(Value(0)) /\ LoanOf(b) = 0 /\ LoanOf(c) = Cost(Value(2))
        /\ IdentifierOf(a) = 0 /\ IdentifierOf(b) = 0 /\ IdentifierOf(c) = 0
    BY <1>3, <1>9, <2>1, <2>2, Weights DEF UnitSymbols
  <2>4. /\ Loans(Popped(stack, 3)) = Loans(stack) - CostOfBoth(Value(2), Value(0))
        /\ Identifiers(Popped(stack, 3)) = Identifiers(stack)
        /\ CostOfBoth(Value(2), Value(0)) \in Int
    BY <1>1, <1>2, <1>3, <2>2, <2>3, LoansPopped DEF CostOfBoth
  <2>5. /\ 3 \in 0 .. Len(stack) /\ "product_exp" \in UnitSymbols
        /\ Fits(Below(stack, 3 + 1), Below(stack, 3), "product_exp")
    BY <1>1, <2>2 DEF Fits, UnitSymbols
  <2>6. /\ Reduce(3, "product_exp", out, CostOfBoth(Value(2), Value(0)))
        /\ isTime' = IsTime(out.unit)
    BY <1>9 DEF Product
  <2>7. /\ Shape' /\ Counts' /\ Top(stack') \in {"product_exp", "error"}
        /\ (Top(stack') = "product_exp" => Value(0)' = out.unit)
    BY <1>9, <2>4, <2>5, <2>6, ReduceKeeps
  <2> QED
    BY <2>6, <2>7 DEF Flag, IsTime
<1>10. CASE MultiplyBy
  BY <1>9, <1>10 DEF MultiplyBy
<1>11. CASE DivideBy
  BY <1>9, <1>11 DEF DivideBy
<1>12. CASE RaiseBy
  <2>1. /\ Len(stack) >= 2 /\ a.name \in {"INT", "EXPONENT"} /\ b.name = "basic_exp"
        /\ Below(stack, 2) \in OperandPlaces
    BY <1>1, <1>12, TopSymbols DEF RaiseBy, Fits
  <2>2. /\ LoanOf(a) = 0 /\ LoanOf(b) = Cost(Value(1))
        /\ IdentifierOf(a) = 0 /\ IdentifierOf(b) = 0
    BY <1>3, <2>1, Weights DEF UnitSymbols
  <2>3. /\ Loans(Popped(stack, 2)) = Loans(stack) - Cost(Value(1))
        /\ Identifiers(Popped(stack, 2)) = Identifiers(stack)
    BY <1>1, <1>2, <1>3, <2>1, <2>2, LoansPopped
  <2>4. /\ 2 \in 0 .. Len(stack) /\ "power_exp" \in UnitSymbols /\ Cost(Value(1)) \in Int
        /\ Fits(Below(stack, 2 + 1), Below(stack, 2), "power_exp")
    BY <1>1, <1>2, <1>3, <2>1 DEF Fits, UnitSymbols
  <2>5. Reduce(2, "power_exp", ut_raise(Value(1), Value(0)), Cost(Value(1))) /\ phase = "parsing"
    BY <1>12 DEF RaiseBy
  <2> QED
    BY <2>3, <2>4, <2>5, ReduceKeeps DEF Flag
<1>13. CASE Logarithm
  <2>1. /\ Len(stack) >= 2 /\ a.name = ")" /\ b.name = "product_exp" /\ Below(stack, 2) = "LOGREF"
    BY <1>1, <1>13, TopSymbols DEF Logarithm, Fits
  <2>2. Len(stack) >= 3 /\ c.name = "LOGREF" /\ Below(stack, 3) \in OperandPlaces
    BY <1>1, <2>1, TopSymbols DEF Fits
  <2>3. /\ LoanOf(a) = 0 /\ LoanOf(b) = Cost(Value(1)) /\ LoanOf(c) = 0
        /\ IdentifierOf(a) = 0 /\ IdentifierOf(b) = 0 /\ IdentifierOf(c) = 0
    BY <1>3, <2>1, <2>2, Weights DEF UnitSymbols
  <2>4. /\ Loans(Popped(stack, 3)) = Loans(stack) - Cost(Value(1))
        /\ Identifiers(Popped(stack, 3)) = Identifiers(stack)
    BY <1>1, <1>2, <1>3, <2>2, <2>3, LoansPopped
  <2>5. /\ 3 \in 0 .. Len(stack) /\ "basic_exp" \in UnitSymbols /\ Cost(Value(1)) \in Int
        /\ Fits(Below(stack, 3 + 1), Below(stack, 3), "basic_exp")
    BY <1>1, <1>2, <1>3, <2>2 DEF Fits, UnitSymbols
  <2>6. Reduce(3, "basic_exp", ut_log(Value(2), Value(1)), Cost(Value(1))) /\ phase = "parsing"
    BY <1>13 DEF Logarithm
  <2> QED
    BY <2>4, <2>5, <2>6, ReduceKeeps DEF Flag
<1> QED
  BY <1>6, <1>7, <1>8, <1>10, <1>11, <1>12, <1>13

LEMMA RenamesKeep ==
  ASSUME Shape, Counts, ShiftExp \/ Factor \/ Power
  PROVE  Shape' /\ Counts' /\ Flag'
<1>1. IsStack(stack) /\ WellFormed(stack)
  BY DEF Shape
<1>2. CASE ShiftExp
  <2>1. Fits(Below(stack, 2), Below(stack, 1), "shift_exp")
    BY <1>1, <1>2, TopSymbols DEF ShiftExp, Rename, Fits
  <2> QED
    BY <1>2, <2>1, RenameKeeps DEF Flag, ShiftExp, UnitSymbols
<1>3. CASE Factor
  <2>1. Fits(Below(stack, 2), Below(stack, 1), "product_exp")
    BY <1>1, <1>3, TopSymbols DEF Factor, Rename, Fits, OperandPlaces
  <2> QED
    BY <1>3, <2>1, RenameKeeps DEF Flag, IsTime, Factor, UnitSymbols
<1>4. CASE Power
  <2>1. Fits(Below(stack, 2), Below(stack, 1), "power_exp")
    BY <1>1, <1>4, TopSymbols DEF Power, Rename, Fits
  <2> QED
    BY <1>4, <2>1, RenameKeeps DEF Flag, Power, UnitSymbols
<1> QED
  BY <1>2, <1>3, <1>4

\* Parentheses and numbers.
LEMMA BasicRulesKeep ==
  ASSUME Shape, Counts, Parenthesized \/ Number
  PROVE  Shape' /\ Counts' /\ Flag'
<1> DEFINE a == stack[Len(stack)]
           b == stack[Len(stack) - 1]
           c == stack[Len(stack) - 2]
<1>1. /\ Len(stack) \in Nat /\ Loans(stack) \in Nat /\ Identifiers(stack) \in Nat
      /\ IsStack(stack) /\ WellFormed(stack) /\ units \in Int /\ strings \in Int
  BY TopSymbols, CountsAreNatural DEF Shape, Counts
<1>2. 1 + 1 = 2 /\ 2 + 1 = 3 /\ 3 + 1 = 4
  OBVIOUS
<1>3. CASE Parenthesized
  <2> DEFINE x == Symbol("basic_exp", Value(1))
  <2>1. Len(stack) >= 2 /\ a.name = ")" /\ b.name = "shift_exp" /\ Below(stack, 2) = "("
    BY <1>1, <1>3, TopSymbols DEF Parenthesized, Fits
  <2>2. Len(stack) >= 3 /\ c.name = "(" /\ Below(stack, 3) \in OperandPlaces
    BY <1>1, <2>1, TopSymbols DEF Fits
  <2>3. /\ LoanOf(a) = 0 /\ LoanOf(b) = Cost(Value(1)) /\ LoanOf(c) = 0
        /\ IdentifierOf(a) = 0 /\ IdentifierOf(b) = 0 /\ IdentifierOf(c) = 0
    BY <2>1, <2>2, Weights, ValuesAtTop DEF UnitSymbols
  <2>4. LoanOf(x) = Cost(Value(1)) /\ IdentifierOf(x) = 0 /\ x.name = "basic_exp"
    BY Weights DEF Symbol, UnitSymbols
  <2>5. Cost(Value(1)) \in Int
    BY DEF Cost
  <2> DEFINE k == Cost(Value(1))
  <2>6. /\ Loans(Popped(stack, 3)) = Loans(stack) - k
        /\ Identifiers(Popped(stack, 3)) = Identifiers(stack)
    BY <1>1, <2>2, <2>3, <2>5, LoansPopped
  <2>7. /\ stack' = Append(Popped(stack, 3), x) /\ phase = "parsing" /\ phase' = phase
        /\ look' = look /\ units' = units /\ strings' = strings
    BY <1>3 DEF Parenthesized, scanner
  <2>8. 3 \in 0 .. Len(stack) /\ Fits(Below(stack, 3 + 1), Below(stack, 3), x.name)
    BY <1>1, <2>2, <2>4 DEF Fits
  <2> HIDE DEF x, k
  <2>9. /\ units' = units + Loans(Popped(stack, 3)) + LoanOf(x) - Loans(stack)
        /\ strings' = strings + Identifiers(Popped(stack, 3)) + IdentifierOf(x) - Identifiers(stack)
    <3>1. k \in Int /\ LoanOf(x) = k
      BY <2>4, <2>5 DEF k
    <3> QED
      BY <1>1, <2>4, <2>6, <2>7, <3>1
  <2> QED
    BY <2>4, <2>7, <2>8, <2>9, PushedKeeps DEF Flag
<1>4. CASE Number
  <2>1. PICK u : /\ stack' = Append(Popped(stack, 1), Symbol("basic_exp", u))
                 /\ units' = units + Cost(u)
    BY <1>4 DEF Number
  <2> DEFINE x == Symbol("basic_exp", u)
  <2>2. Len(stack) >= 1 /\ a.name \in {"INT", "REAL"} /\ Below(stack, 1) \in OperandPlaces
    BY <1>1, <1>4, TopSymbols DEF Number, Fits
  <2>3. LoanOf(a) = 0 /\ IdentifierOf(a) = 0
    BY <2>2, Weights DEF UnitSymbols
  <2>4. LoanOf(x) = Cost(u) /\ IdentifierOf(x) = 0 /\ x.name = "basic_exp"
    BY Weights DEF Symbol, UnitSymbols
  <2>5. LoanOf(x) \in Int
    BY Weights
  <2>6. /\ Loans(Popped(stack, 1)) = Loans(stack)
        /\ Identifiers(Popped(stack, 1)) = Identifiers(stack)
    BY <1>1, <2>2, <2>3, LoansPopped
  <2>7. /\ stack' = Append(Popped(stack, 1), x) /\ phase = "parsing" /\ phase' = phase
        /\ look' = look /\ units' = units + LoanOf(x) /\ strings' = strings
    BY <1>4, <2>1, <2>4 DEF Number, scanner
  <2>8. 1 \in 0 .. Len(stack) /\ Fits(Below(stack, 1 + 1), Below(stack, 1), x.name)
    BY <1>1, <2>2, <2>4 DEF Fits
  <2> HIDE DEF x
  <2>9. /\ units' = units + Loans(Popped(stack, 1)) + LoanOf(x) - Loans(stack)
        /\ strings' = strings + Identifiers(Popped(stack, 1)) + IdentifierOf(x) - Identifiers(stack)
    BY <1>1, <2>4, <2>5, <2>6, <2>7
  <2> QED
    BY <2>4, <2>7, <2>8, <2>9, PushedKeeps DEF Flag
<1> QED
  BY <1>3, <1>4

\* A date, a clock, a zone.
LEMMA TimestampKeeps ==
  ASSUME Shape, Counts, phase = "parsing", NEW n \in {1, 2, 3}, NEW ids \in Int,
         n <= Len(stack), Below(stack, n) = "SHIFT",
         Loans(Popped(stack, n)) = Loans(stack),
         Identifiers(Popped(stack, n)) = Identifiers(stack) - ids,
         NEW origin, stack' = Append(Popped(stack, n), Symbol("timestamp", origin)),
         units' = units, strings' = strings - ids, phase' = phase, look' = look
  PROVE  Shape' /\ Counts' /\ Flag'
<1> DEFINE x == Symbol("timestamp", origin)
<1>1. /\ Len(stack) \in Nat /\ Loans(stack) \in Nat /\ Identifiers(stack) \in Nat
      /\ units \in Int /\ strings \in Int
  BY StackFacts, CountsAreNatural DEF Shape, Counts
<1>2. x.name = "timestamp" /\ LoanOf(x) = 0 /\ IdentifierOf(x) = 0
  BY Weights DEF Symbol, UnitSymbols
<1>3. n \in 0 .. Len(stack) /\ Fits(Below(stack, n + 1), Below(stack, n), x.name)
  BY <1>1, <1>2 DEF Fits
<1> HIDE DEF x
<1>4. units' = units + Loans(Popped(stack, n)) + LoanOf(x) - Loans(stack)
  BY <1>1, <1>2
<1>5. strings' = strings + Identifiers(Popped(stack, n)) + IdentifierOf(x) - Identifiers(stack)
  BY <1>1, <1>2
<1>6. stack' = Append(Popped(stack, n), x)
  BY DEF x
<1> QED
  BY <1>2, <1>3, <1>4, <1>5, <1>6, PushedKeeps DEF Flag

LEMMA TimestampRulesKeep ==
  ASSUME Shape, Counts, DateOnly \/ DateAndClock \/ DateClockAndZone
  PROVE  Shape' /\ Counts' /\ Flag'
<1> DEFINE a == stack[Len(stack)]
           b == stack[Len(stack) - 1]
           c == stack[Len(stack) - 2]
<1>1. /\ Len(stack) \in Nat /\ Loans(stack) \in Nat /\ Identifiers(stack) \in Nat
      /\ IsStack(stack) /\ WellFormed(stack) /\ units \in Int /\ strings \in Int
  BY TopSymbols, CountsAreNatural DEF Shape, Counts
<1>2. ASSUME NEW n \in {1, 2, 3}, n <= Len(stack), Below(stack, n) = "SHIFT",
             Loans(Popped(stack, n)) = Loans(stack),
             Identifiers(Popped(stack, n)) = Identifiers(stack),
             phase = "parsing", NEW origin, TimestampRule(n, origin)
      PROVE  Shape' /\ Counts' /\ Flag'
  <2>1. /\ Identifiers(Popped(stack, n)) = Identifiers(stack) - 0
        /\ strings' = strings - 0 /\ 0 \in Int
        /\ units' = units /\ phase' = phase /\ look' = look
        /\ stack' = Append(Popped(stack, n), Symbol("timestamp", origin))
    BY <1>1, <1>2 DEF TimestampRule, scanner
  <2> QED
    BY <1>2, <2>1, TimestampKeeps
<1>3. CASE DateOnly
  <2>1. Len(stack) >= 1 /\ a.name = "DATE" /\ Below(stack, 1) = "SHIFT"
    BY <1>1, <1>3, TopSymbols DEF DateOnly, Fits
  <2>2. LoanOf(a) = 0 /\ IdentifierOf(a) = 0
    BY <2>1, Weights DEF UnitSymbols
  <2>3. Loans(Popped(stack, 1)) = Loans(stack) /\ Identifiers(Popped(stack, 1)) = Identifiers(stack)
    BY <1>1, <2>1, <2>2, LoansPopped
  <2> QED
    BY <1>2, <1>3, <2>1, <2>3 DEF DateOnly
<1>4. CASE DateAndClock
  <2>1. Len(stack) >= 2 /\ a.name = "CLOCK" /\ b.name = "DATE" /\ Below(stack, 2) = "SHIFT"
    BY <1>1, <1>4, TopSymbols DEF DateAndClock, Fits
  <2>2. LoanOf(a) = 0 /\ IdentifierOf(a) = 0 /\ LoanOf(b) = 0 /\ IdentifierOf(b) = 0
    BY <2>1, Weights DEF UnitSymbols
  <2>3. Loans(Popped(stack, 2)) = Loans(stack) /\ Identifiers(Popped(stack, 2)) = Identifiers(stack)
    BY <1>1, <2>1, <2>2, LoansPopped
  <2> QED
    BY <1>2, <1>4, <2>1, <2>3 DEF DateAndClock
<1>5. CASE DateClockAndZone
  <2>1. Len(stack) >= 2 /\ a.name = "CLOCK" /\ b.name = "CLOCK" /\ Below(stack, 2) = "DATE"
    BY <1>1, <1>5, TopSymbols DEF DateClockAndZone, Fits
  <2>2. Len(stack) >= 3 /\ c.name = "DATE" /\ Below(stack, 3) = "SHIFT"
    BY <1>1, <2>1, TopSymbols DEF Fits
  <2>3. /\ LoanOf(a) = 0 /\ IdentifierOf(a) = 0 /\ LoanOf(b) = 0 /\ IdentifierOf(b) = 0
        /\ LoanOf(c) = 0 /\ IdentifierOf(c) = 0
    BY <2>1, <2>2, Weights DEF UnitSymbols
  <2>4. Loans(Popped(stack, 3)) = Loans(stack) /\ Identifiers(Popped(stack, 3)) = Identifiers(stack)
    BY <1>1, <2>2, <2>3, LoansPopped
  <2> QED
    BY <1>2, <1>5, <2>2, <2>4 DEF DateClockAndZone
<1> QED
  BY <1>3, <1>4, <1>5

LEMMA NamedZoneKeeps ==
  ASSUME Shape, Counts, NamedZone
  PROVE  Shape' /\ Counts' /\ Flag' /\ (unknown' = unknown \/ Top(stack') = "error")
<1> DEFINE a == stack[Len(stack)]
           b == stack[Len(stack) - 1]
           c == stack[Len(stack) - 2]
<1>1. /\ Len(stack) \in Nat /\ Loans(stack) \in Nat /\ Identifiers(stack) \in Nat
      /\ IsStack(stack) /\ WellFormed(stack) /\ units \in Int /\ strings \in Int
  BY TopSymbols, CountsAreNatural DEF Shape, Counts
<1>2. /\ Len(stack) >= 2 /\ a.name = "ID" /\ b.name = "CLOCK" /\ Below(stack, 2) = "DATE"
  BY <1>1, TopSymbols DEF NamedZone, Fits, OperandPlaces
<1>3. Len(stack) >= 3 /\ c.name = "DATE" /\ Below(stack, 3) = "SHIFT"
  BY <1>1, <1>2, TopSymbols DEF Fits
<1>4. /\ LoanOf(a) = 0 /\ IdentifierOf(a) = 1 /\ LoanOf(b) = 0 /\ IdentifierOf(b) = 0
      /\ LoanOf(c) = 0 /\ IdentifierOf(c) = 0
  BY <1>2, <1>3, Weights DEF UnitSymbols
<1>5. Loans(Popped(stack, 3)) = Loans(stack) /\ Identifiers(Popped(stack, 3)) = Identifiers(stack) - 1
  BY <1>1, <1>3, <1>4, LoansPopped
<1>6. /\ phase = "parsing" /\ phase' = phase /\ look' = look /\ units' = units
      /\ strings' = strings - 1
  BY DEF NamedZone
<1>7. CASE Value(0) \in {<<"UTC">>, <<"GMT">>, <<"Z">>}
  <2>1. /\ stack' = Append(Popped(stack, 3),
                           Symbol("timestamp", MinutesOfDay * Value(2) + Value(1)))
        /\ unknown' = unknown
    BY <1>7 DEF NamedZone
  <2> QED
    BY <1>1, <1>3, <1>5, <1>6, <2>1, TimestampKeeps
<1>8. CASE Value(0) \notin {<<"UTC">>, <<"GMT">>, <<"Z">>}
  <2>1. stack' = Recovered(Popped(stack, 3))
    BY <1>8 DEF NamedZone
  <2>2. /\ units' = units + Loans(Popped(stack, 3)) - Loans(stack)
        /\ strings' = strings + Identifiers(Popped(stack, 3)) - Identifiers(stack)
    BY <1>1, <1>5, <1>6
  <2>3. 3 \in 0 .. Len(stack)
    BY <1>1, <1>3
  <2> QED
    BY <1>3, <1>6, <2>1, <2>2, <2>3, RecoveredKeeps DEF Flag
<1> QED
  BY <1>7, <1>8

LEMMA IdentifierRuleKeeps ==
  ASSUME Shape, Counts, IdentifierRule
  PROVE  Shape' /\ Counts' /\ Flag' /\ (unknown' = unknown \/ Top(stack') = "error")
<1> DEFINE a == stack[Len(stack)]
           found == Identify(Value(0))
           scaled == ut_scale(found.scale, found.unit)
<1>1. /\ Len(stack) \in Nat /\ Loans(stack) \in Nat /\ Identifiers(stack) \in Nat
      /\ IsStack(stack) /\ WellFormed(stack) /\ units \in Int /\ strings \in Int
  BY TopSymbols, CountsAreNatural DEF Shape, Counts
<1>2. Len(stack) >= 1 /\ a.name = "ID" /\ Below(stack, 1) \in OperandPlaces
  BY <1>1, TopSymbols DEF IdentifierRule, Fits
<1>3. LoanOf(a) = 0 /\ IdentifierOf(a) = 1
  BY <1>2, Weights DEF UnitSymbols
<1>4. Loans(Popped(stack, 1)) = Loans(stack) /\ Identifiers(Popped(stack, 1)) = Identifiers(stack) - 1
  BY <1>1, <1>2, <1>3, LoansPopped
<1>5. /\ phase = "parsing" /\ phase' = phase /\ look' = look /\ strings' = strings - 1
      /\ 1 \in 0 .. Len(stack)
  BY <1>1, <1>2 DEF IdentifierRule
<1>6. strings' = strings + Identifiers(Popped(stack, 1)) - Identifiers(stack)
  BY <1>1, <1>4, <1>5
<1>7. CASE found.unit = NoUnit
  <2>1. stack' = Recovered(Popped(stack, 1)) /\ units' = units
    BY <1>7 DEF IdentifierRule
  <2>2. units' = units + Loans(Popped(stack, 1)) - Loans(stack)
    BY <1>1, <1>4, <2>1
  <2> QED
    BY <1>2, <1>5, <1>6, <2>1, <2>2, RecoveredKeeps DEF Flag
<1>8. CASE found.unit # NoUnit
  <2>1. /\ stack' = Replaced(1, "basic_exp", scaled.unit)
        /\ units' = units + Cost(scaled.unit)
        /\ unknown' = unknown
    BY <1>8 DEF IdentifierRule
  <2>2. Cost(scaled.unit) \in Int
    BY DEF Cost
  <2> HIDE DEF scaled
  <2>3. units' = units + Loans(Popped(stack, 1)) + Cost(scaled.unit) - Loans(stack)
    BY <1>1, <1>4, <2>1, <2>2
  <2>4. Fits(Below(stack, 1 + 1), Below(stack, 1), "basic_exp") /\ "basic_exp" \in UnitSymbols
    BY <1>2 DEF Fits, UnitSymbols
  <2> QED
    BY <1>5, <1>6, <2>1, <2>3, <2>4, ReplacedKeeps DEF Flag
<1> QED
  BY <1>7, <1>8

\* What lies above the first symbol lies on a symbol.
LEMMA NoBottomWithin ==
  ASSUME NEW st, IsStack(st), WellFormed(st), Len(st) >= 2
  PROVE  Below(st, 1) # "bottom"
<1>1. Len(st) \in Nat
  BY StackFacts
<1>2. Len(st) - 1 \in 1 .. Len(st)
  BY <1>1
<1>3. Fits(NameAt(st, Len(st) - 1 - 2), NameAt(st, Len(st) - 1 - 1), NameAt(st, Len(st) - 1))
  BY <1>2 DEF WellFormed
<1>4. NameAt(st, Len(st) - 1) # "bottom"
  BY <1>3 DEF Fits
<1> QED
  BY <1>4, BelowIsNameAt

LEMMA ErrorReduceKeeps ==
  ASSUME Shape, Counts, ErrorReduce
  PROVE  Shape' /\ Counts' /\ Flag' /\ Top(stack') = "error"
<1> DEFINE a == stack[Len(stack)]
           b == stack[Len(stack) - 1]
           c == stack[Len(stack) - 2]
<1>1. /\ Len(stack) \in Nat /\ Loans(stack) \in Nat /\ Identifiers(stack) \in Nat
      /\ IsStack(stack) /\ WellFormed(stack) /\ units \in Int /\ strings \in Int
  BY TopSymbols, CountsAreNatural DEF Shape, Counts
<1>2. /\ phase = "parsing" /\ phase' = phase /\ look' = look /\ strings' = strings
      /\ Top(stack) = "error" /\ Caught(ErrorRule)
  BY DEF ErrorReduce, scanner
<1>3. Len(stack) >= 2 /\ Below(stack, 1) # "bottom"
  BY <1>1, NoBottomWithin DEF ErrorReduce
<1>4. /\ a.name = "error" /\ b.name = Below(stack, 1)
      /\ Fits(Below(stack, 2), Below(stack, 1), "error")
      /\ Fits(Below(stack, 3), Below(stack, 2), Below(stack, 1))
  BY <1>1, <1>2, <1>3, TopSymbols
<1>5. LoanOf(a) = 0 /\ IdentifierOf(a) = 0
  BY <1>4, Weights DEF UnitSymbols
<1>6. CASE Below(stack, 1) \in {"MULTIPLY", "DIVIDE", "SHIFT"}
  <2>1. Below(stack, 2) = "product_exp"
    BY <1>4, <1>6 DEF Fits
  <2>2. Len(stack) >= 3 /\ c.name = "product_exp" /\ Below(stack, 3) \in OperandPlaces
    BY <1>1, <2>1, TopSymbols DEF Fits, OperandPlaces
  <2>3. /\ LoanOf(b) = 0 /\ LoanOf(c) = Cost(c.value) /\ Cost(c.value) \in Int
        /\ IdentifierOf(b) = 0 /\ IdentifierOf(c) = 0
    BY <1>4, <1>6, <2>2, Weights DEF UnitSymbols
  <2>4. /\ Loans(Popped(stack, 3)) = Loans(stack) - Cost(c.value)
        /\ Identifiers(Popped(stack, 3)) = Identifiers(stack)
    BY <1>1, <1>5, <2>2, <2>3, LoansPopped
  <2>5. ErrorRule = 3 /\ Value(3 - 1) = c.value
    BY <1>6, ValuesAtTop DEF ErrorRule
  <2>6. stack' = Recovered(Popped(stack, 3)) /\ units' = units - Cost(c.value)
    BY <1>2, <2>5 DEF Caught
  <2>7. /\ units' = units + Loans(Popped(stack, 3)) - Loans(stack)
        /\ strings' = strings + Identifiers(Popped(stack, 3)) - Identifiers(stack)
    BY <1>1, <1>2, <2>3, <2>4, <2>6
  <2>8. 3 \in 0 .. Len(stack)
    BY <1>1, <2>2
  <2> QED
    BY <1>2, <2>2, <2>6, <2>7, <2>8, RecoveredKeeps DEF Flag
<1>7. CASE Below(stack, 1) \notin {"MULTIPLY", "DIVIDE", "SHIFT"}
  <2>1. Below(stack, 1) \in UnitSymbols /\ Below(stack, 2) \in OperandPlaces
    BY <1>3, <1>4, <1>7 DEF Fits, UnitSymbols, OperandPlaces
  <2>2. LoanOf(b) = Cost(b.value) /\ Cost(b.value) \in Int /\ IdentifierOf(b) = 0
    BY <1>4, <2>1, Weights
  <2>3. /\ Loans(Popped(stack, 2)) = Loans(stack) - Cost(b.value)
        /\ Identifiers(Popped(stack, 2)) = Identifiers(stack)
    BY <1>1, <1>3, <1>5, <2>2, LoansPopped
  <2>4. ErrorRule = 2 /\ Value(2 - 1) = b.value
    BY <1>7, ValuesAtTop DEF ErrorRule
  <2>5. stack' = Recovered(Popped(stack, 2)) /\ units' = units - Cost(b.value)
    BY <1>2, <2>4 DEF Caught
  <2>6. /\ units' = units + Loans(Popped(stack, 2)) - Loans(stack)
        /\ strings' = strings + Identifiers(Popped(stack, 2)) - Identifiers(stack)
    BY <1>1, <1>2, <2>2, <2>3, <2>5
  <2>7. 2 \in 0 .. Len(stack)
    BY <1>1, <1>3
  <2> QED
    BY <1>2, <2>1, <2>5, <2>6, <2>7, RecoveredKeeps DEF Flag
<1> QED
  BY <1>6, <1>7

LEMMA SyntaxErrorKeeps ==
  ASSUME Shape, Counts, SyntaxError
  PROVE  Shape' /\ Counts' /\ Flag' /\ Top(stack') = "error"
<1>1. /\ Len(stack) \in Nat /\ Loans(stack) \in Nat /\ Identifiers(stack) \in Nat
      /\ IsStack(stack) /\ units \in Int /\ strings \in Int
  BY StackFacts, CountsAreNatural DEF Shape, Counts
<1>2. Popped(stack, 0) = stack /\ 0 \in 0 .. Len(stack)
  BY <1>1, SubSeqFull DEF Popped, IsStack
<1>3. /\ phase = "parsing" /\ phase' = phase /\ look' = look /\ strings' = strings
      /\ units' = units /\ stack' = Recovered(Popped(stack, 0))
  BY <1>2 DEF SyntaxError, scanner
<1>4. /\ units' = units + Loans(Popped(stack, 0)) - Loans(stack)
      /\ strings' = strings + Identifiers(Popped(stack, 0)) - Identifiers(stack)
  BY <1>1, <1>2, <1>3
<1>5. Catches(Popped(stack, 0)) \/ Below(stack, 0) \in Waste
  BY <1>2 DEF SyntaxError, Top, Waste
<1> QED
  BY <1>2, <1>3, <1>4, <1>5, RecoveredKeeps DEF Flag

\* A token that the tables shift fits.
LEMMA ShiftableFits ==
  ASSUME NEW st, NEW token \in Shiftable(st)
  PROVE  Fits(Below(st, 1), Top(st), token) /\ token \notin UnitSymbols /\ Top(st) # "error"
<1> DEFINE top == Top(st)
<1>1. CASE top \in {"bottom", "(", "LOGREF", "MULTIPLY", "DIVIDE"}
  <2>1. token \in Starters
    BY <1>1 DEF Shiftable
  <2> QED
    BY <1>1, <2>1 DEF Starters, Fits, OperandPlaces, UnitSymbols
<1>2. CASE top = "product_exp"
  <2>1. token \in Starters \cup {"MULTIPLY", "DIVIDE"}
                     \cup (IF Below(st, 1) = "LOGREF" THEN {")"} ELSE {"SHIFT"})
    BY <1>2 DEF Shiftable
  <2> QED
    BY <1>2, <2>1 DEF Starters, Fits, OperandPlaces, UnitSymbols
<1>3. CASE top = "basic_exp"
  BY <1>3 DEF Shiftable, Fits, UnitSymbols
<1>4. CASE top = "shift_exp"
  BY <1>4 DEF Shiftable, Fits, UnitSymbols
<1>5. CASE top = "SHIFT"
  BY <1>5 DEF Shiftable, Fits, UnitSymbols
<1>6. CASE top \in {"DATE", "CLOCK"}
  BY <1>6 DEF Shiftable, Fits, UnitSymbols
<1>7. CASE top \notin {"bottom", "(", "LOGREF", "MULTIPLY", "DIVIDE", "product_exp", "basic_exp",
                       "shift_exp", "SHIFT", "DATE", "CLOCK"}
  BY <1>7 DEF Shiftable
<1> QED
  BY <1>1, <1>2, <1>3, <1>4, <1>5, <1>6, <1>7

LEMMA ShiftKeeps ==
  ASSUME Shape, Counts, Flag, Shift
  PROVE  Shape' /\ Counts' /\ Flag'
<1> DEFINE x == Symbol(look.token, look.value)
           s == Append(stack, x)
<1>1. /\ Loans(stack) \in Nat /\ Identifiers(stack) \in Nat /\ IsStack(stack) /\ WellFormed(stack)
      /\ phase = "parsing" /\ units = Loans(stack)
      /\ strings = Identifiers(stack) + (IF look.token = "ID" THEN 1 ELSE 0)
  BY CountsAreNatural DEF Shape, Counts, Shift
<1>2. x.name = look.token
  BY DEF Symbol
<1>3. Fits(Below(stack, 1), Top(stack), x.name) /\ x.name \notin UnitSymbols
  BY <1>2, ShiftableFits DEF Shift
<1>4. LoanOf(x) = 0 /\ IdentifierOf(x) = IF look.token = "ID" THEN 1 ELSE 0
  BY <1>2, <1>3, Weights
<1>5. /\ stack' = s /\ look'.token = "none" /\ phase' = phase /\ units' = units
      /\ strings' = strings /\ isTime' = isTime
  BY DEF Shift, NoToken
<1> HIDE DEF x
<1>6. IsStack(s) /\ WellFormed(s)
  BY <1>1, <1>3, AppendFacts, AppendIsWellFormed
<1>7. Loans(s) = Loans(stack) + LoanOf(x) /\ Identifiers(s) = Identifiers(stack) + IdentifierOf(x)
  BY <1>1, HeldAfterAppend DEF Loans, Identifiers, LoanOf, IdentifierOf
<1>8. Loans(s) = units' /\ Identifiers(s) = strings' /\ units' \in Int /\ strings' \in Int
  BY <1>1, <1>4, <1>5, <1>7
<1>9. Top(s) = look.token /\ Len(s) = Len(stack) + 1 /\ Len(stack) \in Nat
       /\ \A i \in 1 .. Len(stack) : s[i] = stack[i]
  BY <1>1, <1>2, AppendFacts, NamesAfterAppend, StackFacts
<1> HIDE DEF s
<1>10. Flag'
  <2>1. CASE Top(s) = "SHIFT"
    <3>1. Top(stack) = "product_exp" /\ Len(stack) >= 1
      BY <1>1, <1>2, <1>3, <1>9, <2>1, TopSymbols DEF Fits
    <3>2. isTime = IsTime(Value(0)) /\ Value(0) = stack[Len(stack)].value
      BY <1>1, <3>1, ValuesAtTop DEF Flag
    <3>3. Len(stack) \in 1 .. Len(stack) /\ Len(s) - 1 = Len(stack)
      BY <1>9, <3>1
    <3>4. Value(1)' = stack[Len(stack)].value
      BY <1>5, <1>9, <3>3 DEF Value
    <3> QED
      BY <1>5, <2>1, <3>2, <3>4 DEF Flag, IsTime
  <2>2. CASE Top(s) # "SHIFT"
    <3>1. Top(s) # "product_exp"
      BY <1>2, <1>3, <1>9 DEF UnitSymbols
    <3> QED
      BY <1>5, <2>2, <3>1 DEF Flag
  <2> QED
    BY <2>1, <2>2
<1>11. Shape'
  BY <1>1, <1>5, <1>6 DEF Shape
<1>12. Counts'
  BY <1>1, <1>5, <1>8 DEF Counts
<1> QED
  BY <1>11, <1>12, <1>10

LEMMA ReadKeeps ==
  ASSUME Shape, Counts, Flag, Read
  PROVE  Shape' /\ Counts' /\ Flag'
<1>1. PICK token : /\ look' = [token |-> token.token, value |-> token.value]
                   /\ strings' = IF token.token = "ID" THEN strings + 1 ELSE strings
  BY DEF Read
<1>2. /\ look.token = "none" /\ look'.token = token.token
      /\ UNCHANGED <<phase, stack, isTime, units, result>>
  BY <1>1 DEF Read, NoToken
<1>3. strings = Identifiers(stack) /\ Identifiers(stack) \in Nat
  BY <1>2, CountsAreNatural DEF Counts, Shape
<1>4. strings' = Identifiers(stack) + (IF token.token = "ID" THEN 1 ELSE 0) /\ strings' \in Int
  BY <1>1, <1>3
<1> QED
  BY <1>2, <1>4 DEF Shape, Counts, Flag, Value

\* What is accepted is all that is left.
LEMMA ReturnsKeep ==
  ASSUME Shape, Counts, EmptySpec \/ UnitSpec \/ Abort
  PROVE  Shape' /\ Counts' /\ Flag'
<1>1. /\ Len(stack) \in Nat /\ Loans(stack) \in Nat /\ Identifiers(stack) \in Nat
      /\ IsStack(stack) /\ WellFormed(stack) /\ units \in Int /\ strings \in Int
      /\ phase = "parsing" /\ units = Loans(stack)
  BY TopSymbols, CountsAreNatural DEF Shape, Counts, EmptySpec, UnitSpec, Abort
<1>2. ASSUME UNCHANGED <<input, scanner, stack, isTime, unknown>>, phase' = "done",
             units' = Cost(result')
      PROVE  Shape' /\ Counts' /\ Flag'
  <2>1. Cost(result') \in Int
    BY DEF Cost
  <2>2. /\ stack' = stack /\ strings' = strings /\ look' = look
    BY <1>2 DEF scanner
  <2> QED
    BY <1>2, <2>1, <2>2 DEF Shape, Counts, Flag
<1>3. ASSUME NEW u, Accept(u), Loans(stack) = Cost(u)
      PROVE  Shape' /\ Counts' /\ Flag'
  <2>1. CASE p > Len(text)
    BY <1>1, <1>2, <1>3, <2>1 DEF Accept, Return
  <2>2. CASE ~(p > Len(text))
    <3>1. units' = units - Cost(u) /\ result' = NoUnit /\ Cost(NoUnit) = 0
      BY <1>3, <2>2 DEF Accept, Return, Cost
    <3>2. units' = Cost(result')
      BY <1>1, <1>3, <3>1
    <3> QED
      BY <1>2, <1>3, <2>2, <3>2 DEF Accept, Return
  <2> QED
    BY <2>1, <2>2
<1>4. CASE EmptySpec
  <2>1. Loans(stack) = Cost(TheOne)
    BY <1>4, EmptyStack DEF EmptySpec, Cost
  <2> QED
    BY <1>3, <1>4, <2>1 DEF EmptySpec
<1>5. ASSUME Len(stack) = 1 PROVE Loans(stack) = LoanOf(stack[1])
  <2>1. Loans(Popped(stack, 1)) = Loans(stack) - LoanOf(stack[1])
    BY <1>1, <1>5, LoansPopped
  <2>2. IsStack(Popped(stack, 1)) /\ Len(Popped(stack, 1)) = 0
    <3>1. 1 \in 0 .. Len(stack)
      BY <1>5
    <3>2. IsStack(Popped(stack, 1)) /\ Len(Popped(stack, 1)) = Len(stack) - 1
      BY <1>1, <3>1, PoppedFacts
    <3> QED
      BY <1>5, <3>2
  <2>3. Loans(Popped(stack, 1)) = 0
    BY <2>2, StackFacts, EmptyStack
  <2>4. LoanOf(stack[1]) \in Int
    BY Weights
  <2> QED
    BY <1>1, <2>1, <2>3, <2>4
<1>6. CASE UnitSpec
  <2>1. Len(stack) = 1 /\ stack[1].name = "shift_exp" /\ Value(0) = stack[1].value
    BY <1>1, <1>6, TopSymbols, ValuesAtTop DEF UnitSpec
  <2>2. Loans(stack) = Cost(Value(0))
    BY <1>5, <2>1, Weights DEF UnitSymbols
  <2> QED
    BY <1>3, <1>6, <2>2 DEF UnitSpec
<1>7. CASE Abort
  <2>1. Len(stack) = 1 /\ stack[1].name = "error"
    BY <1>7 DEF Abort, Symbol
  <2>2. Loans(stack) = 0
    BY <1>5, <2>1, Weights DEF UnitSymbols
  <2>3. units' = Cost(result')
    BY <1>1, <1>7, <2>2 DEF Abort, Return, Cost
  <2> QED
    BY <1>2, <1>7, <2>3 DEF Abort, Return
<1> QED
  BY <1>4, <1>6, <1>7

-----------------------------------------------------------------------------
(* The invariant.                                                          *)

LEMMA InitIInv == Init => IInv
<1> SUFFICES ASSUME Init PROVE IInv
  OBVIOUS
<1>1. Shape
  BY EmptyStack DEF Init, Shape
<1>2. Counts
  BY EmptyStack DEF Init, Counts, NoToken
<1>3. Known /\ Flag
  BY DEF Init, Known, Flag
<1> QED
  BY <1>1, <1>2, <1>3 DEF IInv

LEMMA NextKeepsCounts ==
  ASSUME IInv, [Next]_vars
  PROVE  Shape' /\ Counts' /\ Flag'
<1>1. Shape /\ Counts /\ Flag
  BY DEF IInv
<1>2. CASE Type \/ FormatUnit
  <2>1. /\ phase = "idle" /\ phase' = "parsing"
        /\ UNCHANGED <<look, stack, isTime, units, strings, result>>
    BY <1>2 DEF Type, FormatUnit, Start
  <2>2. Top(stack') = "bottom"
    BY <1>1, <2>1, EmptyStack DEF Shape, Top, Below
  <2> QED
    BY <1>1, <2>1, <2>2 DEF Shape, Counts, Flag
<1>3. CASE UNCHANGED vars
  BY <1>1, <1>3 DEF vars, Shape, Counts, Flag, Value
<1>4. CASE Parse
  BY <1>1, <1>4, ReadKeeps, ShiftKeeps, SyntaxErrorKeeps, ReturnsKeep, RenamesKeep,
     UnitRulesKeep, TimestampRulesKeep, NamedZoneKeeps, IdentifierRuleKeeps, BasicRulesKeep,
     ErrorReduceKeeps DEF Parse
<1> QED
  BY <1>2, <1>3, <1>4 DEF Next

LEMMA NextKeepsKnown ==
  ASSUME IInv, [Next]_vars
  PROVE  Known'
<1>1. Shape /\ Counts /\ Known
  BY DEF IInv
<1>2. CASE Type \/ FormatUnit
  BY <1>1, <1>2 DEF Type, FormatUnit, Start, Known
<1>3. CASE UNCHANGED vars
  BY <1>1, <1>3 DEF vars, Known
<1>4. ASSUME phase = "parsing", Top(stack) # "error", unknown' = unknown
      PROVE  Known'
  BY <1>1, <1>4 DEF Known
<1>5. CASE Read
  <2>1. Looks(stack) => Top(stack) # "error"
    BY ShiftableFits DEF Looks, Reducing
  <2> QED
    BY <1>4, <1>5, <2>1 DEF Read
<1>6. CASE Shift
  BY <1>4, <1>6, ShiftableFits DEF Shift
<1>7. CASE SyntaxError
  <2>1. Top(stack) # "error"
    BY <1>7 DEF SyntaxError, Catches
  <2> QED
    BY <1>4, <1>7, <2>1 DEF SyntaxError
<1>8. CASE EmptySpec
  <2>1. Top(stack) # "error"
    BY <1>8, EmptyStack DEF EmptySpec, Top, Below
  <2> QED
    BY <1>4, <1>8, <2>1 DEF EmptySpec, Accept, Return
<1>9. CASE UnitSpec
  BY <1>4, <1>9 DEF UnitSpec, Accept, Return
<1>10. CASE Abort
  BY <1>1, <1>10 DEF Abort, Return, Known
<1>11. CASE ShiftExp \/ Factor \/ Power
  BY <1>4, <1>11 DEF ShiftExp, Factor, Power, Rename
<1>12. CASE ShiftByNumber \/ ShiftByTime \/ RaiseBy \/ Logarithm
  BY <1>4, <1>12 DEF ShiftByNumber, ShiftByTime, RaiseBy, Logarithm, Reduce
<1>13. CASE Juxtapose \/ MultiplyBy \/ DivideBy
  BY <1>4, <1>13 DEF Juxtapose, MultiplyBy, DivideBy, Product, Reduce
<1>14. CASE DateOnly \/ DateAndClock \/ DateClockAndZone
  BY <1>4, <1>14 DEF DateOnly, DateAndClock, DateClockAndZone, TimestampRule
<1>15. CASE Parenthesized \/ Number
  BY <1>4, <1>15 DEF Parenthesized, Number
<1>16. CASE NamedZone
  <2>1. unknown' = unknown \/ Top(stack') = "error"
    BY <1>1, <1>16, NamedZoneKeeps
  <2>2. CASE unknown' = unknown
    BY <1>4, <1>16, <2>2 DEF NamedZone
  <2>3. CASE unknown' # unknown
    BY <1>16, <2>1, <2>3 DEF NamedZone, Known
  <2> QED
    BY <2>2, <2>3
<1>17. CASE IdentifierRule
  <2>1. unknown' = unknown \/ Top(stack') = "error"
    BY <1>1, <1>17, IdentifierRuleKeeps
  <2>2. CASE unknown' = unknown
    BY <1>4, <1>17, <2>2 DEF IdentifierRule
  <2>3. CASE unknown' # unknown
    BY <1>17, <2>1, <2>3 DEF IdentifierRule, Known
  <2> QED
    BY <2>2, <2>3
<1>18. CASE ErrorReduce
  <2>1. Top(stack') = "error"
    BY <1>1, <1>18, ErrorReduceKeeps
  <2> QED
    BY <1>1, <1>18, <2>1 DEF ErrorReduce, Caught, Known
<1> QED
  BY <1>2, <1>3, <1>5, <1>6, <1>7, <1>8, <1>9, <1>10, <1>11, <1>12, <1>13, <1>14, <1>15, <1>16,
     <1>17, <1>18 DEF Next, Parse

\* The units and the identifiers are counted as UnitsFreed counts them.
LEMMA CountsMean ==
  ASSUME IsStack(stack)
  PROVE  /\ Cardinality(OnStack({"ID"})) = Identifiers(stack)
         /\ Cardinality({ i \in OnStack(UnitSymbols) : Cost(stack[i].value) = 1 }) = Loans(stack)
<1>1. OnStack({"ID"}) = Held(stack, {"ID"}, {})
  BY DEF OnStack, Held
<1>2. { i \in OnStack(UnitSymbols) : Cost(stack[i].value) = 1 } = Held(stack, UnitSymbols, Free)
  BY DEF OnStack, Held, Cost, Free
<1> QED
  BY <1>1, <1>2 DEF Identifiers, Loans

\* Whatever is parsed, the invariant holds.
THEOREM InvariantHolds == Spec => []IInv
<1>1. IInv /\ [Next]_vars => IInv'
  BY NextKeepsCounts, NextKeepsKnown DEF IInv
<1> QED
  BY <1>1, InitIInv, PTL DEF Spec

\* UnitsFreed: of every text, whatever rules are reduced and wherever it has an
\* error, no unit leaks and none is freed twice, and no identifier leaks but one
\* that is read and not shifted.
THEOREM UnitsAreFreed == Spec => []UnitsFreed
<1>1. IInv => UnitsFreed
  BY CountsMean DEF IInv, Shape, Counts, UnitsFreed
<1> QED
  BY <1>1, InvariantHolds, PTL

\* UnknownSurvives: when an identifier or a zone was not known, ut_parse() leaves
\* UT_UNKNOWN, through however many error rules.
THEOREM UnknownIsReported == Spec => []UnknownSurvives
<1>1. IInv => UnknownSurvives
  BY DEF IInv, Known, UnknownSurvives
<1> QED
  BY <1>1, InvariantHolds, PTL

\* FlagOfOperand: the flag that the scanner reads after an "@" is about the
\* operand of this "@".
THEOREM FlagIsOfOperand == Spec => []FlagOfOperand
<1>1. IInv => FlagOfOperand
  BY DEF IInv, Flag, FlagOfOperand
<1> QED
  BY <1>1, InvariantHolds, PTL

-----------------------------------------------------------------------------
(* Nothing is ignored.  At every moment the parentheses that have been read *)
(* are those on the stack and the token that was read ahead.               *)

\* What a symbol opens, or a token.
NestingOf(name) == IF name \in {"(", "LOGREF"} THEN 1 ELSE IF name = ")" THEN -1 ELSE 0

Nesting(st) ==
  Cardinality(Held(st, {"(", "LOGREF"}, {})) - Cardinality(Held(st, {")"}, {}))

\* The lexemes of some types before the place q of a text.
Before(t, types, q) == { i \in DOMAIN t : t[i].t \in types /\ i < q }

\* What the text before q opens.
SoFar(t, q) == Cardinality(Before(t, {"(", "logref"}, q)) - Cardinality(Before(t, {")"}, q))

Balance ==
  /\ IsText(text) /\ p \in Nat \ {0}
  /\ phase = "idle" => p = 1 /\ look = NoToken
  /\ phase = "parsing" /\ Top(stack) # "error" =>
       /\ SoFar(text, p) = Nesting(stack) + NestingOf(look.token)
       /\ look.token = "EOF" => p > Len(text)
       /\ Top(stack) \in {"INT", "REAL"} => look.token = "none"
       /\ Top(stack) = "shift_exp" /\ Below(stack, 1) = "bottom" =>
            look.token \in {"none", "EOF", ")"} \/ Value(0).type = "timestamp"
  /\ NothingIgnored

\* A unit that is shifted by a time is a timestamp: OffsetsByTimeAreTimes of
\* UnitCore_proofs, for the function that UnitText gives the parser.
TimesOnly ==
  \A u, t : LET shifted == ut_offset_by_time(u, t).unit
            IN shifted # NoUnit => shifted.type = "timestamp"

-----------------------------------------------------------------------------
(* What the scanner reads.                                                 *)

Brackets == {"(", ")", "logref"}

\* No bracket among the n lexemes from p on, which the text has.
Plain(t, q, n) == \A i \in q .. q + n - 1 : At(t, i) \notin Brackets \cup {"end"}

RuleTokens ==
  {"SHIFT", "DIVIDE", "MULTIPLY", "EXPONENT", "SUPERSCRIPT", "broken_date", "packed_date", "clock",
   "zone", "REAL", "INT", "ID"}

\* A rule that takes so many lexemes, of which none is a bracket.
Spans(t, q, n) == n \in 0 .. 3 /\ Plain(t, q, n)

PlainRules(t, q) ==
  { [token |-> token, n |-> n] : token \in RuleTokens, n \in { k \in 0 .. 3 : Plain(t, q, k) } }

LogRule(t, q) == Rule("LOGREF", IsOne(t, q, {"logref"}))

LEMMA NothingSpans ==
  ASSUME NEW t, NEW q \in Nat
  PROVE  Spans(t, q, 0)
BY DEF Spans, Plain

LEMMA SpansMore ==
  ASSUME NEW t, NEW q \in Nat, NEW n \in {0, 1, 2}, Spans(t, q, n),
         At(t, q + n) \notin Brackets \cup {"end"}
  PROVE  Spans(t, q, n + 1)
<1> SUFFICES ASSUME NEW i \in q .. q + (n + 1) - 1
             PROVE  At(t, i) \notin Brackets \cup {"end"}
  BY DEF Spans, Plain
<1>1. i = q + n \/ i \in q .. q + n - 1
  OBVIOUS
<1> QED
  BY <1>1 DEF Spans, Plain

\* A lexeme of some types, none of which is a bracket.
LEMMA IsOneSpans ==
  ASSUME NEW t, NEW q \in Nat, NEW types, Brackets \cap types = {}, "end" \notin types
  PROVE  Spans(t, q, IsOne(t, q, types)) /\ IsOne(t, q, types) \in {0, 1}
<1>1. q + 0 = q /\ 0 + 1 = 1
  OBVIOUS
<1>2. CASE At(t, q) \in types
  <2>1. Spans(t, q, 0 + 1)
    BY <1>1, <1>2, NothingSpans, SpansMore DEF Brackets
  <2> QED
    BY <1>1, <1>2, <2>1 DEF IsOne
<1>3. CASE At(t, q) \notin types
  BY <1>3, NothingSpans DEF IsOne
<1> QED
  BY <1>2, <1>3

LEMMA SignedSpans ==
  ASSUME NEW t, NEW q \in Nat, NEW types, Brackets \cap types = {}, "end" \notin types
  PROVE  Spans(t, q, Signed(t, q, types)) /\ Signed(t, q, types) \in {0, 1, 2}
<1>1. q + 0 = q /\ 0 + 1 = 1 /\ 1 + 1 = 2
  OBVIOUS
<1>2. CASE At(t, q + Signs(t, q)) \notin types
  BY <1>2, NothingSpans DEF Signed
<1>3. CASE At(t, q + Signs(t, q)) \in types /\ At(t, q) \in {"+", "-"}
  <2>1. Signs(t, q) = 1
    BY <1>3 DEF Signs
  <2>2. Spans(t, q, 0 + 1)
    BY <1>1, <1>3, NothingSpans, SpansMore DEF Brackets
  <2>3. At(t, q + 1) \notin Brackets \cup {"end"}
    BY <1>3, <2>1
  <2>4. Spans(t, q, 1 + 1)
    BY <1>1, <2>2, <2>3, SpansMore
  <2> QED
    BY <1>1, <1>3, <2>1, <2>4 DEF Signed
<1>4. CASE At(t, q + Signs(t, q)) \in types /\ At(t, q) \notin {"+", "-"}
  <2>1. Signs(t, q) = 0
    BY <1>4 DEF Signs
  <2>2. At(t, q + 0) \notin Brackets \cup {"end"}
    BY <1>4, <2>1
  <2>3. Spans(t, q, 0 + 1)
    BY <2>2, NothingSpans, SpansMore
  <2> QED
    BY <1>1, <1>4, <2>1, <2>3 DEF Signed
<1> QED
  BY <1>2, <1>3, <1>4

LEMMA AroundSpans ==
  ASSUME NEW t, NEW q \in Nat, NEW c, c \notin Brackets \cup {"end"}
  PROVE  Spans(t, q, Around(t, q, c))
<1> DEFINE b == Spaces(t, q)
           after == Spaces(t, q + b + 1)
<1>1. q + 0 = q /\ 0 + 1 = 1 /\ 1 + 1 = 2 /\ 2 + 1 = 3
  OBVIOUS
<1>2. CASE At(t, q + b) # c
  BY <1>2, NothingSpans DEF Around
<1>3. CASE At(t, q + b) = c
  <2>1. Around(t, q, c) = b + 1 + after
    BY <1>3 DEF Around
  <2>2. b \in {0, 1} /\ (b = 1 => At(t, q) = "sp")
    BY DEF Spaces
  <2>3. Spans(t, q, b)
    BY <1>1, <2>2, NothingSpans, SpansMore DEF Brackets
  <2>4. Spans(t, q, b + 1)
    BY <1>3, <2>2, <2>3, SpansMore
  <2>5. after \in {0, 1} /\ (after = 1 => At(t, q + b + 1) = "sp")
    BY DEF Spaces
  <2> HIDE DEF b, after
  <2>6. b + 1 \in {0, 1, 2} /\ q + (b + 1) = q + b + 1 /\ b + 1 + 0 = b + 1
    BY <2>2
  <2>7. CASE after = 0
    BY <2>1, <2>4, <2>6, <2>7
  <2>8. CASE after = 1
    BY <2>1, <2>4, <2>5, <2>6, <2>8, SpansMore DEF Brackets
  <2> QED
    BY <2>5, <2>7, <2>8
<1> QED
  BY <1>2, <1>3

LEMMA ExponentSpans ==
  ASSUME NEW t, NEW q \in Nat
  PROVE  Spans(t, q, AsciiExponent(t, q))
<1> DEFINE n == Signed(t, q + 1, Digits)
<1>1. Brackets \cap Digits = {} /\ "end" \notin Digits
  BY DEF Brackets, Digits
<1>2. Spans(t, q + 1, n) /\ n \in {0, 1, 2}
  BY <1>1, SignedSpans
<1>3. CASE ~(At(t, q) = "^" /\ n > 0)
  BY <1>3, NothingSpans DEF AsciiExponent
<1>4. CASE At(t, q) = "^" /\ n > 0
  <2>1. AsciiExponent(t, q) = 1 + n
    BY <1>4 DEF AsciiExponent
  <2>2. ASSUME NEW i \in q .. q + (1 + n) - 1
        PROVE  At(t, i) \notin Brackets \cup {"end"}
    <3> HIDE DEF n
    <3>1. i = q \/ i \in (q + 1) .. (q + 1) + n - 1
      BY <1>2
    <3> QED
      BY <1>2, <1>4, <3>1 DEF Spans, Plain, Brackets
  <2>3. 1 + n \in 0 .. 3
    BY <1>2
  <2> QED
    BY <2>1, <2>2, <2>3 DEF Spans, Plain
<1> QED
  BY <1>3, <1>4

LEMMA DatedSpans ==
  ASSUME NEW t, NEW q \in Nat, NEW n \in {0, 1, 2}, Spans(t, q, n), Len(t) \in Nat
  PROVE  Spans(t, q, Dated(t, q, n))
<1>1. CASE n = 0
  BY <1>1, NothingSpans DEF Dated
<1>2. CASE n # 0 /\ q + n <= Len(t) /\ (t[q + n] = TheT \/ t[q + n] = Blank)
  <2>1. At(t, q + n) \in {"id", "sp"}
    BY <1>2 DEF At, TheT, Blank, Id, Sym
  <2>2. Spans(t, q, n + 1)
    BY <2>1, SpansMore DEF Brackets
  <2> QED
    BY <1>2, <2>2 DEF Dated
<1>3. CASE n # 0 /\ ~(q + n <= Len(t) /\ (t[q + n] = TheT \/ t[q + n] = Blank))
  BY <1>3 DEF Dated
<1> QED
  BY <1>1, <1>2, <1>3

LEMMA ClockedSpans ==
  ASSUME NEW t, NEW q \in Nat, NEW n \in {0, 1, 2}, Spans(t, q, n)
  PROVE  Spans(t, q, Clocked(t, q, n))
<1>1. CASE n = 0
  BY <1>1, NothingSpans DEF Clocked
<1>2. CASE n # 0 /\ At(t, q + n) = "sp"
  BY <1>2, SpansMore DEF Clocked, Spaces, Brackets
<1>3. CASE n # 0 /\ At(t, q + n) # "sp"
  BY <1>3 DEF Clocked, Spaces
<1> QED
  BY <1>1, <1>2, <1>3

LEMMA IdentifierSpans ==
  ASSUME NEW t, NEW q \in Nat
  PROVE  Spans(t, q, Identifier(t, q))
<1>1. q + 0 = q /\ 0 + 1 = 1 /\ 1 + 1 = 2
  OBVIOUS
<1>2. CASE At(t, q) # "id"
  BY <1>2, NothingSpans DEF Identifier
<1>3. CASE At(t, q) = "id"
  <2>1. Spans(t, q, 1)
    BY <1>1, <1>3, NothingSpans, SpansMore DEF Brackets
  <2>2. CASE At(t, q + 1) = "sup" /\ StartsWithLetter(t[q + 1].v)
    <3>1. Spans(t, q, 1 + 1)
      BY <2>1, <2>2, SpansMore DEF Brackets
    <3> QED
      BY <1>1, <1>3, <2>2, <3>1 DEF Identifier
  <2>3. CASE ~(At(t, q + 1) = "sup" /\ StartsWithLetter(t[q + 1].v))
    BY <1>3, <2>1, <2>3 DEF Identifier
  <2> QED
    BY <2>2, <2>3
<1> QED
  BY <1>2, <1>3

\* The sequence of a rule that is active, or none.
When(active, rule) == IF active THEN <<rule>> ELSE << >>

LEMMA PlainRule ==
  ASSUME NEW t, NEW q, NEW token \in RuleTokens, NEW n, Spans(t, q, n)
  PROVE  Rule(token, n) \in PlainRules(t, q)
BY DEF Rule, PlainRules, Spans

LEMMA RulesArePlain ==
  ASSUME NEW t, NEW q \in Nat, Len(t) \in Nat
  PROVE  /\ Rule("SHIFT", Around(t, q, "@")) \in PlainRules(t, q)
         /\ Rule("DIVIDE", Around(t, q, "/")) \in PlainRules(t, q)
         /\ Rule("MULTIPLY", IsOne(t, q, {"-", ".", "middot", "*", "sp"})) \in PlainRules(t, q)
         /\ Rule("EXPONENT", AsciiExponent(t, q)) \in PlainRules(t, q)
         /\ Rule("SUPERSCRIPT", IsOne(t, q, {"sup"})) \in PlainRules(t, q)
         /\ Rule("broken_date", Dated(t, q, IsOne(t, q, {"bdate"}))) \in PlainRules(t, q)
         /\ Rule("packed_date", Dated(t, q, Signed(t, q, {"num", "pdate"}))) \in PlainRules(t, q)
         /\ Rule("clock", Clocked(t, q, Signed(t, q, {"bclock"}))) \in PlainRules(t, q)
         /\ Rule("clock", Clocked(t, q, Signed(t, q, {"num", "pclock"}))) \in PlainRules(t, q)
         /\ Rule("zone", Signed(t, q, {"bclock"})) \in PlainRules(t, q)
         /\ Rule("zone", Signed(t, q, Digits)) \in PlainRules(t, q)
         /\ Rule("REAL", Signed(t, q, {"dec"})) \in PlainRules(t, q)
         /\ Rule("INT", Signed(t, q, Digits)) \in PlainRules(t, q)
         /\ Rule("ID", Identifier(t, q)) \in PlainRules(t, q)
<1>1. ASSUME NEW types \in { {"-", ".", "middot", "*", "sp"}, {"sup"}, {"bdate"}, {"num", "pdate"},
                             {"bclock"}, {"num", "pclock"}, Digits, {"dec"} }
      PROVE  /\ Spans(t, q, IsOne(t, q, types)) /\ IsOne(t, q, types) \in {0, 1, 2}
             /\ Spans(t, q, Signed(t, q, types)) /\ Signed(t, q, types) \in {0, 1, 2}
  <2>1. Brackets \cap types = {} /\ "end" \notin types
    BY DEF Brackets, Digits
  <2> QED
    BY <2>1, IsOneSpans, SignedSpans
<1>2. Spans(t, q, Around(t, q, "@")) /\ Spans(t, q, Around(t, q, "/"))
  BY AroundSpans DEF Brackets
<1>3. Spans(t, q, AsciiExponent(t, q)) /\ Spans(t, q, Identifier(t, q))
  BY ExponentSpans, IdentifierSpans
<1>4. /\ Spans(t, q, Dated(t, q, IsOne(t, q, {"bdate"})))
      /\ Spans(t, q, Dated(t, q, Signed(t, q, {"num", "pdate"})))
  BY <1>1, DatedSpans
<1>5. /\ Spans(t, q, Clocked(t, q, Signed(t, q, {"bclock"})))
      /\ Spans(t, q, Clocked(t, q, Signed(t, q, {"num", "pclock"})))
  BY <1>1, ClockedSpans
<1>6. ASSUME NEW token \in RuleTokens, NEW n, Spans(t, q, n)
      PROVE  Rule(token, n) \in PlainRules(t, q)
  BY <1>6, PlainRule
<1>7. {"SHIFT", "DIVIDE", "MULTIPLY", "EXPONENT", "SUPERSCRIPT", "broken_date", "packed_date", "clock",
       "zone", "REAL", "INT", "ID"} \subseteq RuleTokens
  BY DEF RuleTokens
<1> QED
  BY <1>1, <1>2, <1>3, <1>4, <1>5, <1>6, <1>7

LEMMA WhenIsSequence ==
  ASSUME NEW S, NEW active, NEW rule \in S
  PROVE  When(active, rule) \in Seq(S)
BY DEF When

LEMMA ConcatKeeps ==
  ASSUME NEW S, NEW a \in Seq(S), NEW b \in Seq(S)
  PROVE  /\ a \o b \in Seq(S) /\ Len(a) \in Nat /\ Len(a \o b) >= Len(a)
         /\ \A i \in 1 .. Len(a) : (a \o b)[i] = a[i]
<1>1. Len(a) \in Nat /\ Len(b) \in Nat
  BY LenProperties
<1>2. /\ a \o b \in Seq(S) /\ Len(a \o b) = Len(a) + Len(b)
      /\ \A i \in 1 .. Len(a) + Len(b) : (a \o b)[i] = IF i <= Len(a) THEN a[i] ELSE b[i - Len(a)]
  BY ConcatProperties, Zenon
<1> QED
  BY <1>1, <1>2

\* All the rules but that of a logarithm take no bracket.
LEMMA RulesFacts ==
  ASSUME NEW t, NEW q \in Nat, Len(t) \in Nat, NEW start
  PROVE  /\ Rules(t, q, start) \in Seq(PlainRules(t, q) \cup {LogRule(t, q)})
         /\ \E i \in DOMAIN Rules(t, q, start) : Rules(t, q, start)[i] = LogRule(t, q)
<1> DEFINE S == PlainRules(t, q) \cup {LogRule(t, q)}
           initial == start \in {"INITIAL", "ID_SEEN"}
           w1 == When(initial, Rule("SHIFT", Around(t, q, "@")))
           w2 == When(initial, Rule("DIVIDE", Around(t, q, "/")))
           w3 == When(initial, Rule("MULTIPLY", IsOne(t, q, {"-", ".", "middot", "*", "sp"})))
           w4 == When(initial, Rule("EXPONENT", AsciiExponent(t, q)))
           w5 == When(initial, Rule("SUPERSCRIPT", IsOne(t, q, {"sup"})))
           w6 == When(start = "SHIFT_SEEN",
                      Rule("broken_date", Dated(t, q, IsOne(t, q, {"bdate"}))))
           w7 == When(start = "SHIFT_SEEN",
                      Rule("packed_date", Dated(t, q, Signed(t, q, {"num", "pdate"}))))
           w8 == When(start = "DATE_SEEN", Rule("clock", Clocked(t, q, Signed(t, q, {"bclock"}))))
           w9 == When(start = "DATE_SEEN",
                      Rule("clock", Clocked(t, q, Signed(t, q, {"num", "pclock"}))))
           w10 == When(start = "CLOCK_SEEN", Rule("zone", Signed(t, q, {"bclock"})))
           w11 == When(start = "CLOCK_SEEN", Rule("zone", Signed(t, q, Digits)))
           w12 == When(start \in {"INITIAL", "SHIFT_SEEN"}, Rule("REAL", Signed(t, q, {"dec"})))
           w13 == When(initial \/ start = "SHIFT_SEEN", Rule("INT", Signed(t, q, Digits)))
           w14 == When(start \in {"INITIAL", "CLOCK_SEEN"}, Rule("ID", Identifier(t, q)))
           first == w1 \o w2 \o w3 \o w4 \o w5 \o w6 \o w7 \o w8 \o w9 \o w10 \o w11 \o w12 \o w13
<1>1. Rules(t, q, start) = (first \o <<LogRule(t, q)>>) \o w14
  BY DEF Rules, When, LogRule
<1>2. ASSUME NEW active, NEW rule \in PlainRules(t, q)
      PROVE  When(active, rule) \in Seq(S)
  BY WhenIsSequence
<1>3. /\ w1 \in Seq(S) /\ w2 \in Seq(S) /\ w3 \in Seq(S) /\ w4 \in Seq(S) /\ w5 \in Seq(S)
      /\ w6 \in Seq(S) /\ w7 \in Seq(S) /\ w8 \in Seq(S) /\ w9 \in Seq(S) /\ w10 \in Seq(S)
      /\ w11 \in Seq(S) /\ w12 \in Seq(S) /\ w13 \in Seq(S) /\ w14 \in Seq(S)
  <2> HIDE DEF S
  <2> QED
    BY <1>2, RulesArePlain
<1>4. <<LogRule(t, q)>> \in Seq(S) /\ Len(<<LogRule(t, q)>>) = 1
      /\ <<LogRule(t, q)>>[1] = LogRule(t, q)
  OBVIOUS
<1> DEFINE log == <<LogRule(t, q)>>
<1> HIDE DEF w1, w2, w3, w4, w5, w6, w7, w8, w9, w10, w11, w12, w13, w14, S, log
<1>5. ASSUME NEW a \in Seq(S), NEW b \in Seq(S)
      PROVE  a \o b \in Seq(S)
  BY ConcatProperties
<1>6. first \in Seq(S)
  <2>1. w1 \o w2 \o w3 \o w4 \o w5 \in Seq(S)
    BY <1>3, <1>5
  <2>2. w1 \o w2 \o w3 \o w4 \o w5 \o w6 \o w7 \o w8 \o w9 \in Seq(S)
    BY <1>3, <1>5, <2>1
  <2> QED
    BY <1>3, <1>5, <2>2
<1> HIDE DEF first
<1>7. log \in Seq(S) /\ Len(log) = 1 /\ log[1] = LogRule(t, q)
  BY <1>4 DEF log
<1>8. /\ first \o log \in Seq(S) /\ Len(first \o log) = Len(first) + 1 /\ Len(first) \in Nat
      /\ (first \o log)[Len(first) + 1] = LogRule(t, q)
  BY <1>6, <1>7, ConcatProperties
<1>9. /\ (first \o log) \o w14 \in Seq(S)
      /\ Len((first \o log) \o w14) >= Len(first) + 1
      /\ ((first \o log) \o w14)[Len(first) + 1] = LogRule(t, q)
  <2>1. Len(first) + 1 \in 1 .. Len(first \o log)
    BY <1>8
  <2> QED
    BY <1>3, <1>8, <2>1, ConcatKeeps
<1>10. Rules(t, q, start) = (first \o log) \o w14
  BY <1>1 DEF log
<1>11. Rules(t, q, start) \in Seq(S)
  BY <1>9, <1>10
<1>12. /\ Len(first) + 1 \in DOMAIN Rules(t, q, start)
       /\ Rules(t, q, start)[Len(first) + 1] = LogRule(t, q)
  BY <1>8, <1>9, <1>10, <1>11, LenProperties
<1> QED
  BY <1>11, <1>12 DEF S

LEMMA LeastOf ==
  ASSUME NEW T \in SUBSET Nat, T # {}
  PROVE  \E n \in T : \A m \in T : n <= m
<1>1. \E n \in T : \A m \in T : ~(<<m, n>> \in OpToRel(<, Nat))
  BY NatLessThanWellFounded, WFMin
<1>2. PICK n \in T : \A m \in T : ~(<<m, n>> \in OpToRel(<, Nat))
  BY <1>1
<1>3. \A m \in T : ~(m < n)
  BY <1>2 DEF OpToRel
<1> QED
  BY <1>3

\* The longest match is one of the matches.
LEMMA BestFacts ==
  ASSUME NEW S, \A r \in S : r.n \in 0 .. 3, NEW rules \in Seq(S), DOMAIN rules # {}
  PROVE  Best(rules) \in S /\ \A j \in DOMAIN rules : rules[j].n <= Best(rules).n
<1> DEFINE Beats(i) == \A j \in DOMAIN rules :
                         rules[j].n < rules[i].n \/ (rules[j].n = rules[i].n /\ i <= j)
           i == CHOOSE i \in DOMAIN rules : Beats(i)
<1>1. /\ DOMAIN rules \subseteq Nat
      /\ \A j \in DOMAIN rules : rules[j] \in S /\ rules[j].n \in 0 .. 3
  <2>1. Len(rules) \in Nat /\ DOMAIN rules = 1 .. Len(rules)
        /\ \A j \in 1 .. Len(rules) : rules[j] \in S
    BY LenProperties
  <2> QED
    BY <2>1
<1>2. \E k \in DOMAIN rules : Beats(k)
  <2> DEFINE T == { 3 - rules[j].n : j \in DOMAIN rules }
  <2>1. T \in SUBSET Nat /\ T # {}
    BY <1>1
  <2>2. \E n \in T : \A m \in T : n <= m
    <3> HIDE DEF T
    <3> QED
      BY <2>1, LeastOf
  <2>3. PICK l \in DOMAIN rules : \A j \in DOMAIN rules : 3 - rules[l].n <= 3 - rules[j].n
    BY <2>2
  <2>4. ASSUME NEW j \in DOMAIN rules PROVE rules[j].n <= rules[l].n
    <3>1. 3 - rules[l].n <= 3 - rules[j].n /\ rules[l].n \in 0 .. 3 /\ rules[j].n \in 0 .. 3
      BY <1>1, <2>3
    <3> QED
      BY <3>1
  <2> DEFINE F == { j \in DOMAIN rules : rules[j].n = rules[l].n }
  <2>5. F \in SUBSET Nat /\ F # {}
    BY <1>1
  <2>6. \E k \in F : \A m \in F : k <= m
    <3> HIDE DEF F
    <3> QED
      BY <2>5, LeastOf
  <2>7. PICK k \in F : \A m \in F : k <= m
    BY <2>6
  <2>8. k \in DOMAIN rules /\ rules[k].n = rules[l].n
    BY <2>7
  <2>9. ASSUME NEW j \in DOMAIN rules
        PROVE  rules[j].n < rules[k].n \/ (rules[j].n = rules[k].n /\ k <= j)
    <3>1. rules[j].n <= rules[k].n /\ rules[j].n \in Int /\ rules[k].n \in Int
      BY <1>1, <2>4, <2>8
    <3>2. rules[j].n = rules[k].n => k <= j
      BY <2>7, <2>8
    <3> QED
      BY <3>1, <3>2
  <2> QED
    BY <2>8, <2>9
<1>3. i \in DOMAIN rules /\ Beats(i)
  <2> HIDE DEF Beats
  <2> QED
    BY <1>2
<1>4. Best(rules) = rules[i]
  BY DEF Best
<1> HIDE DEF i
<1> QED
  BY <1>1, <1>3, <1>4

-----------------------------------------------------------------------------
(* A token that the scanner reads accounts for the brackets it takes.      *)

LEMMA TextFacts ==
  ASSUME NEW t, IsText(t)
  PROVE  Len(t) \in Nat /\ DOMAIN t = 1 .. Len(t)
BY LenProperties DEF IsText

\* What else than brackets is read.
OtherTokens ==
  {"undefined", "SHIFT", "DIVIDE", "MULTIPLY", "EXPONENT", "DATE", "REAL", "CLOCK", "INT", "ID"}

LEMMA BestRule ==
  ASSUME NEW t, IsText(t), NEW q \in Nat, NEW start
  PROVE  LET best == Best(Rules(t, q, start))
         IN /\ best \in PlainRules(t, q) \cup {LogRule(t, q)}
            /\ At(t, q) = "logref" => best = Rule("LOGREF", 1)
            /\ best.n \in 0 .. 3
<1> DEFINE rules == Rules(t, q, start)
           S == PlainRules(t, q) \cup {LogRule(t, q)}
           best == Best(rules)
<1>1. \A r \in S : r.n \in 0 .. 3
  BY DEF PlainRules, LogRule, Rule, IsOne
<1>2. rules \in Seq(S) /\ \E i \in DOMAIN rules : rules[i] = LogRule(t, q)
  BY RulesFacts, TextFacts
<1>3. best \in S /\ \A j \in DOMAIN rules : rules[j].n <= best.n
  <2> HIDE DEF rules, S
  <2> QED
    BY <1>1, <1>2, BestFacts
<1>4. LogRule(t, q).n <= best.n
  BY <1>2, <1>3
<1>5. ASSUME At(t, q) = "logref" PROVE best = Rule("LOGREF", 1)
  <2>1. LogRule(t, q) = Rule("LOGREF", 1) /\ LogRule(t, q).n = 1
    BY <1>5 DEF LogRule, IsOne, Rule
  <2>2. best.n \in 0 .. 3 /\ best.n >= 1
    BY <1>1, <1>3, <1>4, <2>1
  <2>3. ASSUME best \in PlainRules(t, q) PROVE FALSE
    <3>1. Plain(t, q, best.n)
      BY <2>3 DEF PlainRules
    <3>2. q \in q .. q + best.n - 1
      BY <2>2
    <3> QED
      BY <1>5, <3>1, <3>2 DEF Plain, Brackets
  <2> QED
    BY <1>3, <2>1, <2>3
<1> QED
  BY <1>1, <1>3, <1>5

LEMMA TokenFacts ==
  ASSUME NEW t, IsText(t), NEW q \in Nat \ {0}, q <= Len(t), NEW start, NEW flag,
         NEW token \in Scan(t, q, start, flag)
  PROVE  /\ token.p \in Nat \ {0} /\ token.p >= q
         /\ \/ /\ <<t[q].t, token.token>> \in {<<"(", "(">>, <<")", ")">>, <<"logref", "LOGREF">>}
               /\ token.p = q + 1
            \/ /\ token.token \in OtherTokens
               /\ \A i \in q .. token.p - 1 : t[i].t \notin Brackets
<1> DEFINE r == Best(Rules(t, q, start))
<1>1. token = TokenOf(t, q, r, start, flag)
  <2>1. Len(t) \in Nat
    BY TextFacts
  <2> QED
    BY <2>1 DEF Scan
<1>2. /\ r \in PlainRules(t, q) \cup {LogRule(t, q)} /\ r.n \in 0 .. 3
      /\ At(t, q) = "logref" => r = Rule("LOGREF", 1)
  BY BestRule
<1> HIDE DEF r
<1>3. At(t, q) = t[q].t
  BY DEF At
<1>4. CASE r.n = 0
  <2>1. token = OtherChar(t, q)
    BY <1>1, <1>4 DEF TokenOf
  <2>2. t[q].t # "logref"
    BY <1>2, <1>3, <1>4 DEF Rule
  <2>3. CASE t[q].t \in {"(", ")"}
    <3>1. token.token = t[q].t /\ token.p = q + 1
      BY <2>1, <2>3 DEF OtherChar, Token
    <3> QED
      BY <2>3, <3>1
  <2>4. CASE t[q].t \notin {"(", ")"}
    <3>1. token.token = "undefined" /\ token.p \in {q, q + 1}
      BY <2>1, <2>4 DEF OtherChar, Token
    <3>2. \A i \in q .. token.p - 1 : i = q
      BY <3>1
    <3> QED
      BY <2>2, <2>4, <3>1, <3>2 DEF OtherTokens, Brackets
  <2> QED
    BY <2>3, <2>4
<1>5. CASE r.n # 0 /\ r = LogRule(t, q)
  <2>1. t[q].t = "logref" /\ r = Rule("LOGREF", 1)
    BY <1>3, <1>5 DEF LogRule, IsOne, Rule
  <2>2. r.n = 1 /\ r.token = "LOGREF"
    BY <2>1 DEF Rule
  <2>3. token.token = "LOGREF" /\ token.p = q + 1
    BY <1>1, <2>2 DEF TokenOf, Token
  <2> QED
    BY <2>1, <2>3
<1>6. CASE r.n # 0 /\ r \in PlainRules(t, q)
  <2>1. r.token \in RuleTokens /\ Plain(t, q, r.n) /\ r.n > 0
    BY <1>2, <1>6 DEF PlainRules
  <2>2. token.token \in OtherTokens /\ token.p = q + r.n
    BY <1>1, <2>1 DEF TokenOf, Token, PackedDateToken, RuleTokens, OtherTokens
  <2>3. ASSUME NEW i \in q .. token.p - 1 PROVE t[i].t \notin Brackets
    <3>1. i \in q .. q + r.n - 1
      BY <1>2, <2>2
    <3>2. At(t, i) \notin Brackets \cup {"end"}
      BY <2>1, <3>1 DEF Plain
    <3>3. At(t, i) = t[i].t
      BY <3>2 DEF At
    <3> QED
      BY <3>2, <3>3
  <2> QED
    BY <1>2, <2>2, <2>3
<1> QED
  BY <1>2, <1>4, <1>5, <1>6

\* Between two places without a bracket.
LEMMA BeforeAfterPlain ==
  ASSUME NEW t, IsText(t), NEW q \in Nat, NEW next \in Nat, next >= q, NEW types,
         \A i \in q .. next - 1 : t[i].t \notin types
  PROVE  Before(t, types, next) = Before(t, types, q)
<1>1. DOMAIN t = 1 .. Len(t) /\ Len(t) \in Nat
  BY TextFacts
<1>2. ASSUME NEW i \in DOMAIN t, t[i].t \in types
      PROVE  i < next <=> i < q
  <2>1. i \in Nat
    BY <1>1
  <2>2. i \notin q .. next - 1
    BY <1>2
  <2> QED
    BY <2>1, <2>2
<1> QED
  BY <1>2 DEF Before

LEMMA BeforeIsFinite ==
  ASSUME NEW t, IsText(t), NEW types, NEW q \in Nat
  PROVE  IsFiniteSet(Before(t, types, q)) /\ Cardinality(Before(t, types, q)) \in Nat
<1>1. Before(t, types, q) \in SUBSET (1 .. Len(t)) /\ Len(t) \in Int
  BY TextFacts DEF Before
<1>2. IsFiniteSet(1 .. Len(t))
  BY <1>1, FS_Interval
<1> QED
  BY <1>1, <1>2, FS_Subset, FS_CardinalityType

LEMMA BeforeAfterOne ==
  ASSUME NEW t, IsText(t), NEW q \in Nat \ {0}, q <= Len(t), NEW types
  PROVE  Cardinality(Before(t, types, q + 1))
           = Cardinality(Before(t, types, q)) + (IF t[q].t \in types THEN 1 ELSE 0)
<1>1. DOMAIN t = 1 .. Len(t) /\ Len(t) \in Nat
  BY TextFacts
<1>2. IsFiniteSet(Before(t, types, q)) /\ Cardinality(Before(t, types, q)) \in Nat
  BY BeforeIsFinite
<1>3. CASE t[q].t \in types
  <2>1. Before(t, types, q + 1) = Before(t, types, q) \cup {q} /\ q \notin Before(t, types, q)
    BY <1>1, <1>3 DEF Before
  <2> QED
    BY <1>2, <1>3, <2>1, FS_AddElement
<1>4. CASE t[q].t \notin types
  <2>1. Before(t, types, q + 1) = Before(t, types, q)
    BY <1>1, <1>4 DEF Before
  <2> QED
    BY <1>2, <1>4, <2>1
<1> QED
  BY <1>3, <1>4

\* The end of the text, or a token that opens what the text opens there.
LEMMA ReadBalances ==
  ASSUME NEW t, IsText(t), NEW q \in Nat \ {0}, NEW start, NEW flag,
         NEW token \in Scan(t, q, start, flag)
  PROVE  /\ token.p \in Nat \ {0}
         /\ SoFar(t, token.p) = SoFar(t, q) + NestingOf(token.token)
         /\ token.token = "EOF" => token.p > Len(t)
         /\ SoFar(t, q) \in Int
<1>1. Len(t) \in Nat
  BY TextFacts
<1>2. /\ Cardinality(Before(t, {"(", "logref"}, q)) \in Nat
      /\ Cardinality(Before(t, {")"}, q)) \in Nat
  BY BeforeIsFinite
<1>3. CASE q > Len(t)
  <2>1. token.p = q /\ token.token = "EOF"
    BY <1>3 DEF Scan, Token
  <2> QED
    BY <1>2, <1>3, <2>1 DEF SoFar, NestingOf
<1>4. CASE q <= Len(t)
  <2>1. /\ token.p \in Nat \ {0} /\ token.p >= q
        /\ \/ /\ <<t[q].t, token.token>> \in {<<"(", "(">>, <<")", ")">>, <<"logref", "LOGREF">>}
              /\ token.p = q + 1
           \/ /\ token.token \in OtherTokens
              /\ \A i \in q .. token.p - 1 : t[i].t \notin Brackets
    BY <1>4, TokenFacts
  <2>2. CASE /\ <<t[q].t, token.token>> \in {<<"(", "(">>, <<")", ")">>, <<"logref", "LOGREF">>}
             /\ token.p = q + 1
    <3>1. /\ Cardinality(Before(t, {"(", "logref"}, q + 1))
               = Cardinality(Before(t, {"(", "logref"}, q))
                 + (IF t[q].t \in {"(", "logref"} THEN 1 ELSE 0)
          /\ Cardinality(Before(t, {")"}, q + 1))
               = Cardinality(Before(t, {")"}, q)) + (IF t[q].t \in {")"} THEN 1 ELSE 0)
      BY <1>4, BeforeAfterOne
    <3>2. CASE t[q].t \in {"(", "logref"} /\ token.token \in {"(", "LOGREF"}
      BY <1>2, <2>1, <2>2, <3>1, <3>2 DEF SoFar, NestingOf
    <3>3. CASE t[q].t = ")" /\ token.token = ")"
      BY <1>2, <2>1, <2>2, <3>1, <3>3 DEF SoFar, NestingOf
    <3>4. \/ t[q].t \in {"(", "logref"} /\ token.token \in {"(", "LOGREF"}
          \/ t[q].t = ")" /\ token.token = ")"
      BY <2>2
    <3> QED
      BY <3>2, <3>3, <3>4
  <2>3. CASE /\ token.token \in OtherTokens
             /\ \A i \in q .. token.p - 1 : t[i].t \notin Brackets
    <3>1. /\ Before(t, {"(", "logref"}, token.p) = Before(t, {"(", "logref"}, q)
          /\ Before(t, {")"}, token.p) = Before(t, {")"}, q)
      BY <2>1, <2>3, BeforeAfterPlain DEF Brackets
    <3>2. NestingOf(token.token) = 0 /\ token.token # "EOF"
      BY <2>3 DEF NestingOf, OtherTokens
    <3> QED
      BY <1>2, <2>1, <3>1, <3>2 DEF SoFar
  <2> QED
    BY <2>1, <2>2, <2>3
<1> QED
  BY <1>1, <1>3, <1>4

-----------------------------------------------------------------------------
(* What the stack opens.                                                   *)

LEMMA NestingAfterAppend ==
  ASSUME NEW st, IsStack(st), NEW x
  PROVE  /\ Nesting(st) \in Int /\ NestingOf(x.name) \in Int
         /\ Nesting(Append(st, x)) = Nesting(st) + NestingOf(x.name)
<1> DEFINE opened == Cardinality(Held(st, {"(", "LOGREF"}, {}))
           closed == Cardinality(Held(st, {")"}, {}))
<1>1. opened \in Nat /\ closed \in Nat
  BY HeldIsFinite
<1>2. /\ Cardinality(Held(Append(st, x), {"(", "LOGREF"}, {}))
           = opened + Weight(x, {"(", "LOGREF"}, {})
      /\ Cardinality(Held(Append(st, x), {")"}, {})) = closed + Weight(x, {")"}, {})
  BY HeldAfterAppend
<1>3. /\ NestingOf(x.name) = Weight(x, {"(", "LOGREF"}, {}) - Weight(x, {")"}, {})
      /\ Weight(x, {"(", "LOGREF"}, {}) \in Int /\ Weight(x, {")"}, {}) \in Int
  BY DEF NestingOf, Weight
<1>4. Nesting(st) = opened - closed
  BY DEF Nesting
<1> HIDE DEF opened, closed
<1>5. Nesting(Append(st, x))
        = (opened + Weight(x, {"(", "LOGREF"}, {})) - (closed + Weight(x, {")"}, {}))
  BY <1>2 DEF Nesting
<1> QED
  BY <1>1, <1>3, <1>4, <1>5

LEMMA NestingAfterPop ==
  ASSUME NEW st, IsStack(st), Len(st) >= 1
  PROVE  Nesting(Popped(st, 1)) = Nesting(st) - NestingOf(st[Len(st)].name)
<1> DEFINE x == st[Len(st)]
           opened == Cardinality(Held(Popped(st, 1), {"(", "LOGREF"}, {}))
           closed == Cardinality(Held(Popped(st, 1), {")"}, {}))
<1>1. opened \in Nat /\ closed \in Nat
  <2>1. 1 \in 0 .. Len(st)
    BY StackFacts
  <2>2. IsStack(Popped(st, 1))
    BY <2>1, PoppedFacts
  <2> QED
    BY <2>2, HeldIsFinite
<1>2. /\ Cardinality(Held(st, {"(", "LOGREF"}, {})) = opened + Weight(x, {"(", "LOGREF"}, {})
      /\ Cardinality(Held(st, {")"}, {})) = closed + Weight(x, {")"}, {})
  BY HeldAfterPop
<1>3. /\ NestingOf(x.name) = Weight(x, {"(", "LOGREF"}, {}) - Weight(x, {")"}, {})
      /\ Weight(x, {"(", "LOGREF"}, {}) \in Int /\ Weight(x, {")"}, {}) \in Int
  BY DEF NestingOf, Weight
<1>4. Nesting(Popped(st, 1)) = opened - closed
  BY DEF Nesting
<1> HIDE DEF opened, closed
<1>5. Nesting(st) = (opened + Weight(x, {"(", "LOGREF"}, {})) - (closed + Weight(x, {")"}, {}))
  BY <1>2 DEF Nesting
<1> QED
  BY <1>1, <1>3, <1>4, <1>5

LEMMA NestingAfterPops ==
  ASSUME NEW st, IsStack(st), NEW n \in Nat, n + 1 <= Len(st)
  PROVE  Nesting(Popped(st, n + 1)) = Nesting(Popped(st, n)) - NestingOf(st[Len(st) - n].name)
<1> DEFINE t == Popped(st, n)
<1>1. Len(st) \in Nat
  BY StackFacts
<1>2. n \in 0 .. Len(st) /\ 1 \in 0 .. Len(st) - n /\ Len(st) - n \in 1 .. Len(st) - n
  BY <1>1
<1>3. IsStack(t) /\ Len(t) = Len(st) - n /\ t[Len(st) - n] = st[Len(st) - n]
  BY <1>2, PoppedFacts
<1>4. Popped(t, 1) = Popped(st, n + 1)
  BY <1>2, PoppedAgain
<1>5. Len(t) >= 1
  BY <1>1, <1>2, <1>3
<1> HIDE DEF t
<1>6. Nesting(Popped(t, 1)) = Nesting(t) - NestingOf(t[Len(t)].name)
  BY <1>3, <1>5, NestingAfterPop
<1> QED
  BY <1>3, <1>4, <1>6 DEF t

\* Popping what opens as much as it closes.
LEMMA NeutralPops ==
  ASSUME NEW st, IsStack(st)
  PROVE  /\ Len(st) >= 1 /\ NestingOf(st[Len(st)].name) = 0
              => Nesting(Popped(st, 1)) = Nesting(st)
         /\ Len(st) >= 2 /\ NestingOf(st[Len(st)].name) + NestingOf(st[Len(st) - 1].name) = 0
              => Nesting(Popped(st, 2)) = Nesting(st)
         /\ Len(st) >= 3 /\ NestingOf(st[Len(st)].name) + NestingOf(st[Len(st) - 1].name)
                             + NestingOf(st[Len(st) - 2].name) = 0
              => Nesting(Popped(st, 3)) = Nesting(st)
<1>1. Len(st) \in Nat /\ Nesting(st) \in Int
  BY StackFacts, NestingAfterAppend
<1>2. \A name : NestingOf(name) \in Int
  BY DEF NestingOf
<1>3. 1 + 1 = 2 /\ 2 + 1 = 3
  OBVIOUS
<1>4. Len(st) >= 1 => Nesting(Popped(st, 1)) = Nesting(st) - NestingOf(st[Len(st)].name)
  BY NestingAfterPop
<1>5. Len(st) >= 2 => Nesting(Popped(st, 2)) = Nesting(Popped(st, 1)) - NestingOf(st[Len(st) - 1].name)
  BY <1>1, <1>3, NestingAfterPops
<1>6. Len(st) >= 3 => Nesting(Popped(st, 3)) = Nesting(Popped(st, 2)) - NestingOf(st[Len(st) - 2].name)
  BY <1>1, <1>3, NestingAfterPops
<1> DEFINE a == NestingOf(st[Len(st)].name)
           b == NestingOf(st[Len(st) - 1].name)
           c == NestingOf(st[Len(st) - 2].name)
           n0 == Nesting(st)
           n1 == Nesting(Popped(st, 1))
           n2 == Nesting(Popped(st, 2))
           n3 == Nesting(Popped(st, 3))
<1>7. a \in Int /\ b \in Int /\ c \in Int /\ n0 \in Int
  BY <1>1, <1>2
<1>8. Len(st) >= 1 => n1 = n0 - a
  BY <1>4
<1>9. Len(st) >= 2 => n2 = n1 - b
  BY <1>5
<1>10. Len(st) >= 3 => n3 = n2 - c
  BY <1>6
<1>11. /\ Len(st) >= 1 /\ a = 0 => n1 = n0
       /\ Len(st) >= 2 /\ a + b = 0 => n2 = n0
       /\ Len(st) >= 3 /\ a + b + c = 0 => n3 = n0
  <2> DEFINE l == Len(st)
  <2>1. l \in Nat
    BY <1>1
  <2> HIDE DEF a, b, c, n0, n1, n2, n3, l
  <2>2. /\ l >= 1 => n1 = n0 - a
        /\ l >= 2 => n2 = n1 - b
        /\ l >= 3 => n3 = n2 - c
    BY <1>8, <1>9, <1>10 DEF l
  <2>3. /\ l >= 1 /\ a = 0 => n1 = n0
        /\ l >= 2 /\ a + b = 0 => n2 = n0
        /\ l >= 3 /\ a + b + c = 0 => n3 = n0
    BY <1>7, <2>1, <2>2
  <2> QED
    BY <2>3 DEF l
<1> HIDE DEF a, b, c, n0, n1, n2, n3
<1>12. Len(st) >= 1 /\ NestingOf(st[Len(st)].name) = 0 => Nesting(Popped(st, 1)) = Nesting(st)
  BY <1>11 DEF a, n0, n1
<1>13. Len(st) >= 2 /\ NestingOf(st[Len(st)].name) + NestingOf(st[Len(st) - 1].name) = 0
         => Nesting(Popped(st, 2)) = Nesting(st)
  BY <1>11 DEF a, b, n0, n2
<1>14. Len(st) >= 3 /\ NestingOf(st[Len(st)].name) + NestingOf(st[Len(st) - 1].name)
                       + NestingOf(st[Len(st) - 2].name) = 0
         => Nesting(Popped(st, 3)) = Nesting(st)
  BY <1>11 DEF a, b, c, n0, n3
<1> QED
  BY <1>12, <1>13, <1>14

LEMMA RecoveredTop ==
  ASSUME NEW st, IsStack(st)
  PROVE  Top(Recovered(st)) = "error"
<1> DEFINE Stops(n) == Catches(Popped(st, n)) /\ \A k \in 0 .. n - 1 : ~Catches(Popped(st, k))
           n == CHOOSE n \in 0 .. Len(st) : Stops(n)
           x == Symbol("error", 0)
<1>1. Recovered(st) = Append(Popped(st, n), x)
  BY DEF Recovered
<1>2. n \in 0 .. Len(st)
  <2>1. \E k \in 0 .. Len(st) : Stops(k)
    BY RecoveryStops
  <2> HIDE DEF Stops
  <2> QED
    BY <2>1
<1> HIDE DEF n
<1>3. IsStack(Popped(st, n))
  BY <1>2, PoppedFacts
<1>4. x.name = "error"
  BY DEF Symbol
<1> HIDE DEF x
<1> QED
  BY <1>1, <1>3, <1>4, NamesAfterAppend

-----------------------------------------------------------------------------
(* What a rule keeps in balance.                                           *)

\* Popping these changes nothing.
Neutral(n) == n \in 1 .. Len(stack) /\ Nesting(Popped(stack, n)) = Nesting(stack)

\* The stack that a rule leaves: it ends in a symbol with a value, or in an error.
Ends(name, value) ==
  \/ Top(stack') = "error"
  \/ /\ Top(stack') = name /\ Value(0)' = value
     /\ Nesting(stack') = Nesting(stack)

LEMMA NeutralAppend ==
  ASSUME Shape, NEW n, Neutral(n), NEW x, NestingOf(x.name) = 0,
         stack' = Append(Popped(stack, n), x)
  PROVE  Ends(x.name, x.value)
<1> DEFINE t == Popped(stack, n)
<1>1. n \in 0 .. Len(stack) /\ IsStack(stack) /\ Nesting(t) = Nesting(stack)
  BY DEF Neutral, Shape
<1>2. IsStack(t)
  BY <1>1, PoppedFacts
<1> HIDE DEF t
<1>3. /\ Nesting(t) \in Int /\ Nesting(Append(t, x)) = Nesting(t) + NestingOf(x.name)
      /\ Top(Append(t, x)) = x.name
      /\ Len(Append(t, x)) = Len(t) + 1 /\ Append(t, x)[Len(t) + 1] = x /\ Len(t) \in Nat
  BY <1>2, NestingAfterAppend, NamesAfterAppend, AppendFacts, StackFacts
<1>4. Nesting(Append(t, x)) = Nesting(stack) /\ Len(Append(t, x)) - 0 = Len(t) + 1
  BY <1>1, <1>3
<1>5. stack' = Append(t, x)
  BY DEF t
<1> QED
  BY <1>3, <1>4, <1>5 DEF Ends, Value

LEMMA NeutralReplaced ==
  ASSUME Shape, NEW n, Neutral(n), NEW name \in UnitSymbols, NEW u,
         stack' = Replaced(n, name, u)
  PROVE  Ends(name, u) /\ (u = NoUnit => Top(stack') = "error")
<1>1. CASE u = NoUnit
  <2>1. n \in 0 .. Len(stack) /\ IsStack(stack)
    BY DEF Neutral, Shape
  <2>2. IsStack(Popped(stack, n)) /\ stack' = Recovered(Popped(stack, n))
    BY <1>1, <2>1, PoppedFacts DEF Replaced
  <2> QED
    BY <2>2, RecoveredTop DEF Ends
<1>2. CASE u # NoUnit
  <2> DEFINE x == Symbol(name, u)
  <2>1. stack' = Append(Popped(stack, n), x) /\ x.name = name /\ x.value = u
    BY <1>2 DEF Replaced, Symbol
  <2>2. NestingOf(x.name) = 0
    BY <2>1 DEF UnitSymbols, NestingOf
  <2> HIDE DEF x
  <2> QED
    BY <1>2, <2>1, <2>2, NeutralAppend
<1> QED
  BY <1>1, <1>2

LEMMA ErrorBalances ==
  ASSUME Balance, phase = "parsing", phase' = phase, p' = p, text' = text, Top(stack') = "error"
  PROVE  Balance'
BY DEF Balance, NothingIgnored

\* Nothing is read, and what follows a time that is shifted is not asked.
LEMMA RuleBalances ==
  ASSUME Balance, phase = "parsing", Top(stack) # "error",
         UNCHANGED <<text, p, look, phase>>,
         NEW name, NEW value, Ends(name, value), name \notin {"INT", "REAL"},
         name = "shift_exp" =>
           look.token \in {"none", "EOF", ")"} \/ value.type = "timestamp" \/ Top(stack') = "error"
  PROVE  Balance'
<1>1. CASE Top(stack') = "error"
  BY <1>1, ErrorBalances
<1>2. CASE Top(stack') # "error"
  <2>1. /\ SoFar(text, p) = Nesting(stack) + NestingOf(look.token)
        /\ look.token = "EOF" => p > Len(text)
    BY DEF Balance
  <2>2. /\ Top(stack') = name /\ Value(0)' = value /\ Nesting(stack') = Nesting(stack)
    BY <1>2 DEF Ends
  <2>3. SoFar(text', p') = Nesting(stack') + NestingOf(look'.token)
    BY <2>1, <2>2
  <2>4. IsText(text') /\ p' \in Nat \ {0} /\ phase' = "parsing"
    BY DEF Balance
  <2>5. look'.token = "EOF" => p' > Len(text')
    BY <2>1
  <2>6. Top(stack') \notin {"INT", "REAL"}
    BY <2>2
  <2>7. Top(stack') = "shift_exp" =>
          look'.token \in {"none", "EOF", ")"} \/ Value(0)'.type = "timestamp"
    BY <1>2, <2>2
  <2> QED
    BY <2>3, <2>4, <2>5, <2>6, <2>7 DEF Balance, NothingIgnored
<1> QED
  BY <1>1, <1>2

\* Popping the last symbols changes nothing when they close what they open.
LEMMA NeutralTop ==
  ASSUME Shape
  PROVE  /\ Top(stack) # "bottom" /\ NestingOf(Top(stack)) = 0 => Neutral(1)
         /\ Below(stack, 1) # "bottom" /\ NestingOf(Top(stack)) + NestingOf(Below(stack, 1)) = 0
              => Neutral(2)
         /\ Below(stack, 2) # "bottom" /\ NestingOf(Top(stack)) + NestingOf(Below(stack, 1))
                                             + NestingOf(Below(stack, 2)) = 0
              => Neutral(3)
<1>1. IsStack(stack) /\ WellFormed(stack)
  BY DEF Shape
<1>2. /\ Len(stack) \in Nat
      /\ Top(stack) # "bottom" => Len(stack) >= 1
      /\ Below(stack, 1) # "bottom" => Len(stack) >= 2
      /\ Below(stack, 2) # "bottom" => Len(stack) >= 3
  BY <1>1, TopSymbols
<1>3. /\ Len(stack) >= 1 => Top(stack) = stack[Len(stack)].name
      /\ Len(stack) >= 2 => Below(stack, 1) = stack[Len(stack) - 1].name
      /\ Len(stack) >= 3 => Below(stack, 2) = stack[Len(stack) - 2].name
  <2>1. Len(stack) - 0 = Len(stack)
    BY <1>2
  <2> QED
    BY <1>2, <2>1 DEF Top, Below
<1>4. Top(stack) # "bottom" /\ NestingOf(Top(stack)) = 0 => Neutral(1)
  BY <1>1, <1>2, <1>3, NeutralPops DEF Neutral
<1>5. Below(stack, 1) # "bottom" /\ NestingOf(Top(stack)) + NestingOf(Below(stack, 1)) = 0
        => Neutral(2)
  <2>1. SUFFICES ASSUME Below(stack, 1) # "bottom",
                        NestingOf(Top(stack)) + NestingOf(Below(stack, 1)) = 0
                 PROVE  Neutral(2)
    OBVIOUS
  <2>2. Len(stack) >= 2 /\ 2 \in 1 .. Len(stack)
    BY <1>2, <2>1
  <2>3. Top(stack) = stack[Len(stack)].name /\ Below(stack, 1) = stack[Len(stack) - 1].name
    BY <1>2, <1>3, <2>2
  <2>4. NestingOf(stack[Len(stack)].name) + NestingOf(stack[Len(stack) - 1].name) = 0
    BY <2>1, <2>3
  <2> QED
    BY <1>1, <2>2, <2>4, NeutralPops DEF Neutral
<1>6. Below(stack, 2) # "bottom" /\ NestingOf(Top(stack)) + NestingOf(Below(stack, 1))
                                       + NestingOf(Below(stack, 2)) = 0
        => Neutral(3)
  <2>1. SUFFICES ASSUME Below(stack, 2) # "bottom",
                        NestingOf(Top(stack)) + NestingOf(Below(stack, 1))
                          + NestingOf(Below(stack, 2)) = 0
                 PROVE  Neutral(3)
    OBVIOUS
  <2>2. Len(stack) >= 3 /\ 3 \in 1 .. Len(stack)
    BY <1>2, <2>1
  <2>3. /\ Top(stack) = stack[Len(stack)].name /\ Below(stack, 1) = stack[Len(stack) - 1].name
        /\ Below(stack, 2) = stack[Len(stack) - 2].name
    BY <1>2, <1>3, <2>2
  <2>4. NestingOf(stack[Len(stack)].name) + NestingOf(stack[Len(stack) - 1].name)
          + NestingOf(stack[Len(stack) - 2].name) = 0
    BY <2>1, <2>3
  <2> QED
    BY <1>1, <2>2, <2>4, NeutralPops DEF Neutral
<1> QED
  BY <1>4, <1>5, <1>6

LEMMA RenameBalances ==
  ASSUME Shape, Balance, NEW from \in UnitSymbols, NEW to \in UnitSymbols, Rename(from, to),
         to = "shift_exp" => look.token \in {"EOF", ")"}
  PROVE  Balance'
<1> DEFINE x == Symbol(to, Value(0))
<1>1. /\ Top(stack) = from /\ from \notin {"bottom", "error"} /\ to \notin {"INT", "REAL"}
      /\ NestingOf(from) = 0 /\ NestingOf(to) = 0
  BY DEF Rename, UnitSymbols, NestingOf
<1>2. Neutral(1)
  BY <1>1, NeutralTop
<1>3. x.name = to /\ stack' = Append(Popped(stack, 1), x)
  BY DEF Rename, Symbol
<1>4. phase = "parsing" /\ UNCHANGED <<text, p, look, phase>>
  BY DEF Rename, input, scanner
<1> HIDE DEF x
<1>5. Ends(to, x.value)
  BY <1>1, <1>2, <1>3, NeutralAppend
<1> QED
  BY <1>1, <1>4, <1>5, RuleBalances

LEMMA ReduceBalances ==
  ASSUME Shape, Balance, phase = "parsing", Top(stack) # "error", NEW n, Neutral(n),
         NEW name \in UnitSymbols, NEW out, NEW freed, Reduce(n, name, out, freed),
         name = "shift_exp" => \/ look.token \in {"none", "EOF", ")"}
                               \/ out.unit = NoUnit \/ out.unit.type = "timestamp"
  PROVE  Balance'
<1>1. stack' = Replaced(n, name, out.unit) /\ UNCHANGED <<text, p, look, phase>>
  BY DEF Reduce, input, scanner
<1>2. Ends(name, out.unit) /\ (out.unit = NoUnit => Top(stack') = "error")
  BY <1>1, NeutralReplaced
<1>3. name \notin {"INT", "REAL"}
  BY DEF UnitSymbols
<1> QED
  BY <1>1, <1>2, <1>3, RuleBalances

\* A symbol takes the place of what it stands for.
LEMMA AppendBalances ==
  ASSUME Shape, Balance, phase = "parsing", Top(stack) # "error", NEW n, Neutral(n),
         NEW name \in {"basic_exp", "timestamp"}, NEW value,
         stack' = Append(Popped(stack, n), Symbol(name, value)),
         UNCHANGED <<text, p, look, phase>>
  PROVE  Balance'
<1> DEFINE x == Symbol(name, value)
<1>1. x.name = name /\ x.value = value /\ NestingOf(x.name) = 0 /\ stack' = Append(Popped(stack, n), x)
  BY DEF Symbol, NestingOf
<1> HIDE DEF x
<1>2. Ends(name, value)
  BY <1>1, NeutralAppend
<1> QED
  BY <1>2, RuleBalances

LEMMA RenamesBalance ==
  ASSUME Shape, Balance, ShiftExp \/ Factor \/ Power
  PROVE  Balance'
<1>1. CASE ShiftExp
  BY <1>1, RenameBalances DEF ShiftExp, Seen, UnitSymbols
<1>2. CASE Factor
  BY <1>2, RenameBalances DEF Factor, UnitSymbols
<1>3. CASE Power
  BY <1>3, RenameBalances DEF Power, UnitSymbols
<1> QED
  BY <1>1, <1>2, <1>3

LEMMA UnitRulesBalance ==
  ASSUME Shape, Balance, TimesOnly,
         \/ ShiftByNumber \/ ShiftByTime
         \/ Juxtapose \/ MultiplyBy \/ DivideBy \/ RaiseBy \/ Logarithm
  PROVE  Balance'
<1>1. IsStack(stack) /\ WellFormed(stack)
  BY DEF Shape
<1>2. ASSUME phase = "parsing", Top(stack) \in {"REAL", "INT", "timestamp"},
             Below(stack, 1) = "SHIFT",
             NEW out, Reduce(3, "shift_exp", out, Cost(Value(2))),
             \/ look.token \in {"none", "EOF", ")"}
             \/ out.unit = NoUnit \/ out.unit.type = "timestamp"
      PROVE  Balance'
  <2>1. Below(stack, 2) = "product_exp"
    BY <1>1, <1>2, TopSymbols DEF Fits
  <2>2. NestingOf(Top(stack)) = 0 /\ NestingOf("SHIFT") = 0 /\ NestingOf("product_exp") = 0
    BY <1>2 DEF NestingOf
  <2>3. Neutral(3)
    BY <1>2, <2>1, <2>2, NeutralTop
  <2>4. "shift_exp" \in UnitSymbols /\ Top(stack) # "error"
    BY <1>2 DEF UnitSymbols
  <2> QED
    BY <1>2, <2>3, <2>4, ReduceBalances
<1>3. CASE ShiftByNumber
  <2>1. look.token = "none"
    BY <1>3 DEF ShiftByNumber, Balance
  <2> QED
    BY <1>2, <1>3, <2>1 DEF ShiftByNumber
<1>4. CASE ShiftByTime
  <2> DEFINE out == ut_offset_by_time(Value(2), Value(0))
  <2>1. Below(stack, 1) = "SHIFT"
    BY <1>1, <1>4, TopSymbols DEF ShiftByTime, Fits
  <2>2. out.unit = NoUnit \/ out.unit.type = "timestamp"
    BY DEF TimesOnly
  <2>3. phase = "parsing" /\ Top(stack) = "timestamp" /\ Reduce(3, "shift_exp", out, Cost(Value(2)))
    BY <1>4 DEF ShiftByTime
  <2> HIDE DEF out
  <2> QED
    BY <1>2, <2>1, <2>2, <2>3
<1>5. ASSUME phase = "parsing", Top(stack) = "power_exp", Below(stack, 1) \in {"MULTIPLY", "DIVIDE"},
             NEW out, Product(3, out, Value(2), Value(0))
      PROVE  Balance'
  <2>1. Below(stack, 2) = "product_exp"
    BY <1>1, <1>5, TopSymbols DEF Fits
  <2>2. /\ NestingOf("power_exp") = 0 /\ NestingOf(Below(stack, 1)) = 0
        /\ NestingOf("product_exp") = 0
    BY <1>5 DEF NestingOf
  <2>3. Neutral(3)
    BY <1>5, <2>1, <2>2, NeutralTop
  <2>4. "product_exp" \in UnitSymbols /\ Reduce(3, "product_exp", out, CostOfBoth(Value(2), Value(0)))
    BY <1>5 DEF UnitSymbols, Product
  <2> QED
    BY <1>5, <2>3, <2>4, ReduceBalances
<1>6. CASE MultiplyBy
  BY <1>5, <1>6 DEF MultiplyBy
<1>7. CASE DivideBy
  BY <1>5, <1>7 DEF DivideBy
<1>8. CASE Juxtapose
  <2> DEFINE out == ut_multiply(Value(1), Value(0))
  <2>1. NestingOf("power_exp") = 0 /\ NestingOf("product_exp") = 0
    BY DEF NestingOf
  <2>2. phase = "parsing" /\ Top(stack) = "power_exp" /\ Below(stack, 1) = "product_exp"
    BY <1>8 DEF Juxtapose
  <2>3. Neutral(2)
    BY <2>1, <2>2, NeutralTop
  <2>4. "product_exp" \in UnitSymbols /\ Reduce(2, "product_exp", out, CostOfBoth(Value(1), Value(0)))
    BY <1>8 DEF Juxtapose, Product, UnitSymbols
  <2> HIDE DEF out
  <2> QED
    BY <2>2, <2>3, <2>4, ReduceBalances
<1>9. CASE RaiseBy
  <2> DEFINE out == ut_raise(Value(1), Value(0))
  <2>1. /\ phase = "parsing" /\ Top(stack) \in {"INT", "EXPONENT"} /\ Below(stack, 1) = "basic_exp"
        /\ Reduce(2, "power_exp", out, Cost(Value(1)))
    BY <1>9 DEF RaiseBy
  <2>2. NestingOf(Top(stack)) = 0 /\ NestingOf("basic_exp") = 0
    BY <2>1 DEF NestingOf
  <2>3. Neutral(2)
    BY <2>1, <2>2, NeutralTop
  <2>4. "power_exp" \in UnitSymbols /\ Top(stack) # "error"
    BY <2>1 DEF UnitSymbols
  <2> HIDE DEF out
  <2> QED
    BY <2>1, <2>3, <2>4, ReduceBalances
<1>10. CASE Logarithm
  <2> DEFINE out == ut_log(Value(2), Value(1))
  <2>1. /\ phase = "parsing" /\ Top(stack) = ")" /\ Below(stack, 1) = "product_exp"
        /\ Reduce(3, "basic_exp", out, Cost(Value(1)))
    BY <1>10 DEF Logarithm
  <2>2. Below(stack, 2) = "LOGREF"
    BY <1>1, <2>1, TopSymbols DEF Fits
  <2>3. NestingOf(")") + NestingOf("product_exp") + NestingOf("LOGREF") = 0
    BY DEF NestingOf
  <2>4. Neutral(3)
    BY <2>1, <2>2, <2>3, NeutralTop
  <2>5. "basic_exp" \in UnitSymbols
    BY DEF UnitSymbols
  <2> HIDE DEF out
  <2> QED
    BY <2>1, <2>4, <2>5, ReduceBalances
<1> QED
  BY <1>3, <1>4, <1>6, <1>7, <1>8, <1>9, <1>10

LEMMA OtherRulesBalance ==
  ASSUME Shape, Balance,
         \/ DateOnly \/ DateAndClock \/ DateClockAndZone \/ NamedZone
         \/ IdentifierRule \/ Parenthesized \/ Number
  PROVE  Balance'
<1>1. IsStack(stack) /\ WellFormed(stack)
  BY DEF Shape
<1>2. ASSUME NEW n, Neutral(n), phase = "parsing", Top(stack) # "error",
             NEW origin, TimestampRule(n, origin)
      PROVE  Balance'
  BY <1>2, AppendBalances DEF TimestampRule, input, scanner
<1>3. /\ NestingOf("DATE") = 0 /\ NestingOf("CLOCK") = 0 /\ NestingOf("ID") = 0
      /\ NestingOf("INT") = 0 /\ NestingOf("REAL") = 0 /\ 0 + 0 = 0 /\ 0 + 0 + 0 = 0
      /\ NestingOf(")") + NestingOf("shift_exp") + NestingOf("(") = 0
  BY DEF NestingOf
<1>4. CASE DateOnly
  <2>1. Neutral(1)
    BY <1>3, <1>4, NeutralTop DEF DateOnly
  <2> QED
    BY <1>2, <1>4, <2>1 DEF DateOnly
<1>5. CASE DateAndClock
  <2>1. Neutral(2)
    BY <1>3, <1>5, NeutralTop DEF DateAndClock
  <2> QED
    BY <1>2, <1>5, <2>1 DEF DateAndClock
<1>6. CASE DateClockAndZone
  <2>1. Below(stack, 2) = "DATE"
    BY <1>1, <1>6, TopSymbols DEF DateClockAndZone, Fits
  <2>2. Neutral(3)
    BY <1>3, <1>6, <2>1, NeutralTop DEF DateClockAndZone
  <2> QED
    BY <1>2, <1>6, <2>2 DEF DateClockAndZone
<1>7. CASE NamedZone
  <2>1. Top(stack) = "ID" /\ Below(stack, 1) = "CLOCK" /\ phase = "parsing"
        /\ UNCHANGED <<text, p, look, phase>>
    BY <1>7 DEF NamedZone, input
  <2>2. Below(stack, 2) = "DATE"
    BY <1>1, <2>1, TopSymbols DEF Fits, OperandPlaces
  <2>3. Neutral(3)
    BY <1>3, <2>1, <2>2, NeutralTop
  <2>4. CASE Value(0) \in {<<"UTC">>, <<"GMT">>, <<"Z">>}
    <3>1. stack' = Append(Popped(stack, 3), Symbol("timestamp", MinutesOfDay * Value(2) + Value(1)))
      BY <1>7, <2>4 DEF NamedZone
    <3> QED
      BY <2>1, <2>3, <3>1, AppendBalances
  <2>5. CASE Value(0) \notin {<<"UTC">>, <<"GMT">>, <<"Z">>}
    <3>1. stack' = Recovered(Popped(stack, 3)) /\ 3 \in 0 .. Len(stack)
      BY <1>7, <2>3, <2>5 DEF NamedZone, Neutral
    <3>2. Top(stack') = "error"
      BY <1>1, <3>1, PoppedFacts, RecoveredTop
    <3> QED
      BY <2>1, <3>2, ErrorBalances
  <2> QED
    BY <2>4, <2>5
<1>8. CASE IdentifierRule
  <2> DEFINE found == Identify(Value(0))
             scaled == ut_scale(found.scale, found.unit)
  <2>1. Top(stack) = "ID" /\ phase = "parsing" /\ UNCHANGED <<text, p, look, phase>>
    BY <1>8 DEF IdentifierRule, input
  <2>2. Neutral(1)
    BY <1>3, <2>1, NeutralTop
  <2>3. CASE found.unit = NoUnit
    <3>1. stack' = Recovered(Popped(stack, 1)) /\ 1 \in 0 .. Len(stack)
      BY <1>8, <2>2, <2>3 DEF IdentifierRule, Neutral
    <3>2. Top(stack') = "error"
      BY <1>1, <3>1, PoppedFacts, RecoveredTop
    <3> QED
      BY <2>1, <3>2, ErrorBalances
  <2>4. CASE found.unit # NoUnit
    <3>1. stack' = Replaced(1, "basic_exp", scaled.unit)
      BY <1>8, <2>4 DEF IdentifierRule
    <3>2. "basic_exp" \in UnitSymbols
      BY DEF UnitSymbols
    <3> HIDE DEF scaled
    <3>3. Ends("basic_exp", scaled.unit)
      BY <2>2, <3>1, <3>2, NeutralReplaced
    <3> QED
      BY <2>1, <3>3, RuleBalances
  <2> QED
    BY <2>3, <2>4
<1>9. CASE Parenthesized
  <2>1. /\ Top(stack) = ")" /\ Below(stack, 1) = "shift_exp" /\ phase = "parsing"
        /\ stack' = Append(Popped(stack, 3), Symbol("basic_exp", Value(1)))
        /\ UNCHANGED <<text, p, look, phase>>
    BY <1>9 DEF Parenthesized, input, scanner
  <2>2. Below(stack, 2) = "("
    BY <1>1, <2>1, TopSymbols DEF Fits
  <2>3. Neutral(3)
    BY <1>3, <2>1, <2>2, NeutralTop
  <2> QED
    BY <2>1, <2>3, AppendBalances
<1>10. CASE Number
  <2>1. PICK u : stack' = Append(Popped(stack, 1), Symbol("basic_exp", u))
    BY <1>10 DEF Number
  <2>2. Top(stack) \in {"INT", "REAL"} /\ phase = "parsing" /\ UNCHANGED <<text, p, look, phase>>
    BY <1>10 DEF Number, input, scanner
  <2>3. Neutral(1)
    BY <1>3, <2>2, NeutralTop
  <2> QED
    BY <2>1, <2>2, <2>3, AppendBalances
<1> QED
  BY <1>4, <1>5, <1>6, <1>7, <1>8, <1>9, <1>10

-----------------------------------------------------------------------------
(* What the scanner and the end of a parse keep in balance.                *)

LEMMA ReadKeepsBalance ==
  ASSUME Shape, Balance, Read
  PROVE  Balance'
<1>1. PICK token \in Scan(text, p, condition, isTime) :
        /\ look' = [token |-> token.token, value |-> token.value]
        /\ p' = token.p
  BY DEF Read
<1>2. /\ look'.token = token.token /\ look = NoToken /\ phase = "parsing"
      /\ UNCHANGED <<text, stack, phase>>
  BY <1>1 DEF Read, input
<1>3. IsText(text) /\ p \in Nat \ {0}
  BY DEF Balance
<1>4. /\ token.p \in Nat \ {0} /\ SoFar(text, p) \in Int
      /\ SoFar(text, token.p) = SoFar(text, p) + NestingOf(token.token)
      /\ token.token = "EOF" => token.p > Len(text)
  BY <1>3, ReadBalances
<1>5. /\ Top(stack) \notin {"error", "INT", "REAL"}
      /\ Top(stack) = "shift_exp" => Below(stack, 1) # "bottom"
  <2>1. CASE Shiftable(stack) # {}
    <3>1. PICK next : next \in Shiftable(stack)
      BY <2>1
    <3>2. Fits(Below(stack, 1), Top(stack), next) /\ Top(stack) # "error"
      BY <3>1, ShiftableFits
    <3> QED
      BY <3>2 DEF Fits, OperandPlaces
  <2>2. CASE Reducing(stack) # {}
    BY <2>2 DEF Reducing
  <2> QED
    BY <2>1, <2>2 DEF Read, Looks
<1>6. SoFar(text, p) = Nesting(stack) + NestingOf("none")
  BY <1>2, <1>5 DEF Balance, NoToken
<1>7. Nesting(stack) \in Int /\ NestingOf("none") = 0
  BY NestingAfterAppend DEF Shape, NestingOf
<1>8. SoFar(text, token.p) = Nesting(stack) + NestingOf(token.token)
  BY <1>4, <1>6, <1>7
<1> QED
  BY <1>1, <1>2, <1>3, <1>4, <1>5, <1>8 DEF Balance, NothingIgnored

LEMMA ShiftKeepsBalance ==
  ASSUME Shape, Balance, Shift
  PROVE  Balance'
<1> DEFINE x == Symbol(look.token, look.value)
<1>1. /\ stack' = Append(stack, x) /\ look' = NoToken /\ phase = "parsing"
      /\ UNCHANGED <<text, p, phase>>
  BY DEF Shift, input
<1>2. Top(stack) # "error" /\ x.name = look.token
  BY ShiftableFits DEF Shift, Symbol
<1> HIDE DEF x
<1>3. /\ Nesting(stack) \in Int /\ NestingOf(x.name) \in Int
      /\ Nesting(Append(stack, x)) = Nesting(stack) + NestingOf(x.name)
  BY NestingAfterAppend DEF Shape
<1>4. SoFar(text, p) = Nesting(stack) + NestingOf(look.token)
  BY <1>1, <1>2 DEF Balance
<1>5. look'.token = "none" /\ NestingOf("none") = 0
  BY <1>1 DEF NoToken, NestingOf
<1>6. SoFar(text, p) = Nesting(stack') + NestingOf(look'.token)
  BY <1>1, <1>2, <1>3, <1>4, <1>5
<1>7. IsText(text) /\ p \in Nat \ {0}
  BY DEF Balance
<1> QED
  BY <1>1, <1>5, <1>6, <1>7 DEF Balance, NothingIgnored

LEMMA NestingOfNothing == Nesting(<< >>) = 0
<1>1. Held(<< >>, {"(", "LOGREF"}, {}) = {} /\ Held(<< >>, {")"}, {}) = {}
  BY DEF Held
<1>2. Cardinality({}) = 0
  BY FS_EmptySet
<1>3. Nesting(<< >>) = Cardinality({}) - Cardinality({})
  BY <1>1 DEF Nesting
<1> QED
  BY <1>2, <1>3

\* A text begins with nothing open.
LEMMA StartKeepsBalance ==
  ASSUME Shape, Balance, Type \/ FormatUnit
  PROVE  Balance'
<1>1. /\ phase = "idle" /\ phase' = "parsing" /\ UNCHANGED <<p, look, stack>>
  BY DEF Type, FormatUnit, Start
<1>2. IsText(text')
  <2>1. CASE Type
    <3>1. text' \in Texts
      BY <2>1 DEF Type
    <3> QED
      BY <3>1, TextAssumption
  <2>2. CASE FormatUnit
    <3>1. PICK u \in Formatted, o \in Options :
            ut_format(u, o) # Unformatted /\ text' = ut_format(u, o)
      BY <2>2 DEF FormatUnit
    <3>2. IsText(ut_format(u, o))
      BY <3>1, TextAssumption
    <3> QED
      BY <3>1, <3>2
  <2> QED
    BY <2>1, <2>2
<1>3. p = 1 /\ look = NoToken /\ stack = << >>
  BY <1>1 DEF Balance, Shape
<1>4. DOMAIN text' = 1 .. Len(text') /\ Len(text') \in Nat
  BY <1>2, TextFacts
<1>5. \A types : Before(text', types, 1) = {}
  BY <1>4 DEF Before
<1>6. SoFar(text', 1) = 0
  BY <1>5, FS_EmptySet DEF SoFar
<1>7. Top(stack) = "bottom"
  BY <1>3, EmptyStack DEF Top, Below
<1>8. Nesting(stack') = 0 /\ look'.token = "none" /\ NestingOf("none") = 0
  BY <1>1, <1>3, NestingOfNothing DEF NoToken, NestingOf
<1> QED
  BY <1>1, <1>2, <1>3, <1>6, <1>7, <1>8 DEF Balance, NothingIgnored

\* At the end of the text everything is before.
LEMMA WholeText ==
  ASSUME IsText(text), p \in Nat, p > Len(text)
  PROVE  SoFar(text, p) = Opened - Closed /\ Opened \in Nat /\ Closed \in Nat
<1>1. DOMAIN text = 1 .. Len(text) /\ Len(text) \in Nat
  BY TextFacts
<1>2. \A types : Before(text, types, p) = Parens(types)
  <2> SUFFICES ASSUME NEW types PROVE Before(text, types, p) = Parens(types)
    OBVIOUS
  <2>1. \A i \in DOMAIN text : i < p
    BY <1>1
  <2> QED
    BY <2>1 DEF Before, Parens
<1> QED
  BY <1>2, BeforeIsFinite DEF SoFar, Opened, Closed

LEMMA AcceptKeepsBalance ==
  ASSUME Balance, NEW u, Accept(u),
         p > Len(text) => \/ Closed = Opened
                          \/ Closed = Opened + 1 /\ look.token = ")"
                          \/ /\ Opened = Closed + 1 /\ look.token \in {"(", "LOGREF"}
                             /\ u.type = "timestamp"
  PROVE  Balance'
<1>1. /\ UNCHANGED <<text, p, look>> /\ phase' = "done"
      /\ result' = u \/ result' = NoUnit
      /\ result' # NoUnit => p > Len(text) /\ result' = u /\ status' = "UT_SUCCESS"
  BY DEF Accept, Return, input, scanner
<1>2. IsText(text) /\ p \in Nat \ {0}
  BY DEF Balance
<1>3. Opened' = Opened /\ Closed' = Closed
  BY <1>1 DEF Opened, Closed, Parens
<1>4. NothingIgnored'
  BY <1>1, <1>3 DEF NothingIgnored
<1> QED
  BY <1>1, <1>2, <1>4 DEF Balance

LEMMA ReturnsKeepBalance ==
  ASSUME Shape, Balance, EmptySpec \/ UnitSpec \/ Abort
  PROVE  Balance'
<1>1. IsText(text) /\ p \in Nat \ {0} /\ IsStack(stack) /\ WellFormed(stack)
  BY DEF Balance, Shape
<1>2. NestingOf("none") = 0 /\ NestingOf("EOF") = 0
  BY DEF NestingOf
<1>3. CASE EmptySpec
  <2>1. /\ stack = << >> /\ look.token = "EOF" /\ phase = "parsing" /\ Accept(TheOne)
    BY <1>3 DEF EmptySpec, Seen
  <2>2. Top(stack) = "bottom"
    BY <2>1, EmptyStack DEF Top, Below
  <2>3. SoFar(text, p) = 0
    BY <1>2, <2>1, <2>2, NestingOfNothing DEF Balance
  <2>4. p > Len(text) => Closed = Opened
    BY <1>1, <2>3, WholeText
  <2> QED
    BY <2>1, <2>4, AcceptKeepsBalance
<1>4. CASE UnitSpec
  <2>1. Len(stack) = 1 /\ Top(stack) = "shift_exp" /\ phase = "parsing" /\ Accept(Value(0))
    BY <1>4 DEF UnitSpec
  <2>2. Below(stack, 1) = "bottom" /\ stack[Len(stack)].name = "shift_exp"
    BY <1>1, <2>1, TopSymbols DEF Below
  <2>3. Nesting(stack) = 0
    <3>1. Nesting(Popped(stack, 1)) = Nesting(stack) - NestingOf("shift_exp")
      BY <1>1, <2>1, <2>2, NestingAfterPop
    <3>2. Popped(stack, 1) = << >>
      BY <1>1, <2>1, SubSeqEmpty DEF Popped
    <3>3. Nesting(stack) \in Int /\ NestingOf("shift_exp") = 0
      BY <1>1, NestingAfterAppend DEF NestingOf
    <3> QED
      BY <3>1, <3>2, <3>3, NestingOfNothing
  <2>4. /\ SoFar(text, p) = NestingOf(look.token)
        /\ look.token \in {"none", "EOF", ")"} \/ Value(0).type = "timestamp"
    <3>1. /\ SoFar(text, p) = 0 + NestingOf(look.token)
          /\ look.token \in {"none", "EOF", ")"} \/ Value(0).type = "timestamp"
      BY <2>1, <2>2, <2>3 DEF Balance
    <3>2. NestingOf(look.token) \in Int
      BY DEF NestingOf
    <3> QED
      BY <3>1, <3>2
  <2>5. ASSUME p > Len(text)
        PROVE  \/ Closed = Opened
               \/ Closed = Opened + 1 /\ look.token = ")"
               \/ /\ Opened = Closed + 1 /\ look.token \in {"(", "LOGREF"}
                  /\ Value(0).type = "timestamp"
    <3>1. Opened - Closed = NestingOf(look.token) /\ Opened \in Nat /\ Closed \in Nat
      BY <1>1, <2>4, <2>5, WholeText
    <3>2. CASE look.token \in {"(", "LOGREF"}
      <4>1. Opened - Closed = 1
        BY <3>1, <3>2 DEF NestingOf
      <4> QED
        BY <2>4, <3>1, <3>2, <4>1
    <3>3. CASE look.token = ")"
      <4>1. Opened - Closed = -1
        BY <3>1, <3>3 DEF NestingOf
      <4> QED
        BY <3>1, <3>3, <4>1
    <3>4. CASE look.token \notin {"(", "LOGREF", ")"}
      <4>1. Opened - Closed = 0
        BY <3>1, <3>4 DEF NestingOf
      <4> QED
        BY <3>1, <4>1
    <3> QED
      BY <3>2, <3>3, <3>4
  <2> QED
    BY <2>1, <2>5, AcceptKeepsBalance
<1>5. CASE Abort
  <2>1. UNCHANGED <<text, p, look>> /\ phase' = "done" /\ result' = NoUnit
    BY <1>5 DEF Abort, Return, input, scanner
  <2> QED
    BY <1>1, <2>1 DEF Balance, NothingIgnored
<1> QED
  BY <1>3, <1>4, <1>5

LEMMA InitBalance == Init => Balance
<1> SUFFICES ASSUME Init PROVE Balance
  OBVIOUS
<1>1. IsText(text)
  BY EmptySeq DEF Init, IsText
<1> QED
  BY <1>1 DEF Init, Balance, NothingIgnored

LEMMA NextKeepsBalance ==
  ASSUME IInv, Balance, TimesOnly, [Next]_vars
  PROVE  Balance'
<1>1. Shape /\ Counts
  BY DEF IInv
<1>2. CASE UNCHANGED vars
  BY <1>2 DEF vars, Balance, NothingIgnored, Opened, Closed, Parens, Value
<1>3. CASE SyntaxError \/ ErrorReduce
  <2>1. Top(stack') = "error"
    BY <1>1, <1>3, SyntaxErrorKeeps, ErrorReduceKeeps
  <2>2. phase = "parsing" /\ UNCHANGED <<phase, p, text>>
    BY <1>3 DEF SyntaxError, ErrorReduce, input, scanner
  <2> QED
    BY <2>1, <2>2, ErrorBalances
<1> QED
  BY <1>1, <1>2, <1>3, StartKeepsBalance, ReadKeepsBalance, ShiftKeepsBalance, ReturnsKeepBalance,
     RenamesBalance, UnitRulesBalance, OtherRulesBalance DEF Next, Parse

\* NothingIgnored: whatever the text, a unit is returned for the whole of it,
\* every parenthesis and logarithm of which is closed, but for the one token
\* that the grammar lets pass.  (That a unit shifted by a time is a timestamp
\* is what unitcore.c does.)
THEOREM NothingIsIgnored == ASSUME TimesOnly PROVE Spec => []NothingIgnored
<1>1. IInv /\ Balance /\ [Next]_vars => IInv' /\ Balance'
  BY NextKeepsCounts, NextKeepsKnown, NextKeepsBalance DEF IInv
<1>2. Balance => NothingIgnored
  BY DEF Balance
<1> QED
  BY <1>1, <1>2, InitIInv, InitBalance, PTL DEF Spec
=============================================================================
