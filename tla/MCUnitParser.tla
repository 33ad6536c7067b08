---------------------------- MODULE MCUnitParser ----------------------------
(* A system of two dimensional basic-units with a few identifiers, texts of *)
(* up to four lexemes, dates in every form, and units of all types.         *)
EXTENDS UnitText, RecursiveUnits, TLC

M == BasicUnit(TheSystem, 0)
S == BasicUnit(TheSystem, 1)
Of(a, b) == ProductUnit(TheSystem, [ i \in {0, 1} |-> IF i = 0 THEN a ELSE b ])
MeterPerMeter == ProductUnit(TheSystem, [ i \in {} |-> 0 ])
PerSecond == ProductUnit(TheSystem, [ i \in {1} |-> -1 ])
Galilean(k, u, o) == [type |-> "galilean", scale |-> k, unit |-> u, offset |-> o]
Timestamp(u, origin) == [type |-> "timestamp", unit |-> u, origin |-> origin]
Log(base, u) == [type |-> "log", base |-> base, unit |-> u]

Minute == Galilean(2, S, 0)
Shifted == Galilean(0, M, Grain)

\* Years of 100 days, so that a minute of a year beyond 9999 is within TLC's integers.
MCYearDate(y) == 100 * y
MCReciprocal(base) == Grain \div 2
Early == 50000 * 1440
Late == 700000 * 1440 + 750
FarOff == 1200000 * 1440

MCUnitOf ==
  [name |-> (<<"meter">> :> M) @@ (<<"second">> :> S) @@ (<<"hertz">> :> PerSecond),
   symbol |-> (<<"m">> :> M) @@ (<<"s">> :> S) @@ (<<"min">> :> Minute) @@ (<<"degM">> :> Shifted)]

MCPrefixes == [name |-> ("kilo" :> 3), symbol |-> ("k" :> 3) @@ ("m" :> -3)]

Entry(kind, id) == [unit |-> MCUnitOf[kind][id], id |-> id]
AsciiSpelling(kind) == { Entry(kind, id) : id \in DOMAIN MCUnitOf[kind] \ {<<"degM">>} }

\* A degree sign exists beyond ASCII only.
MCSpelling ==
  [kind \in {"name", "symbol"} |->
    [encoding \in {"UT_ASCII", "UT_LATIN1", "UT_UTF8"} |->
      IF kind = "symbol" /\ encoding # "UT_ASCII"
      THEN {Entry("symbol", <<"degM">>)} ELSE AsciiSpelling(kind)]]

Products == {UnitOne, MeterPerMeter, PerSecond, M, S, Of(1, -1), Of(2, 1), Of(-1, -2), Of(-2, 3), Of(4, -1)}
MCFormatted ==
  LET scaled == { Galilean(1, u, 0) : u \in Products }
      logs == { Log(base, u) : base \in {2, 3, 10}, u \in {M, Of(1, -1), Galilean(1, M, 0)} }
      times == { Timestamp(u, t) : u \in {S, Minute}, t \in {Early, Late, FarOff} }
  IN Products \cup scaled \cup logs \cup times \cup
     {Minute, Shifted, Galilean(1, Shifted.unit, Grain), Galilean(0, M, Grain \div 2),
      Galilean(0, S, Grain), Galilean(-1, S, -Grain \div 2)}
     \cup { Galilean(1, u, o) : u \in {Log(10, M), Timestamp(S, Late)}, o \in {0, Grain} }

\* Some units, with those inside them.
MCUnit ==
  {UnitOne, MeterPerMeter, M, S, Of(2, 1), PerSecond, Minute, Shifted, Log(2, M), Log(3, Shifted),
   Timestamp(S, Early), Timestamp(Minute, Late), Galilean(1, Log(2, M), Grain),
   Galilean(1, Timestamp(S, Early), 0)}

MCOptions ==
  [names : BOOLEAN, definition : BOOLEAN, encoding : {"UT_ASCII", "UT_LATIN1", "UT_UTF8"}]

-----------------------------------------------------------------------------
(* Texts, without those where two lexemes would make another one.          *)

Number1 == {"num", "dec"}

Touch(t, i) ==
  LET a == t[i].t
      b == t[i + 1].t
      before == IF i = 1 THEN "end" ELSE t[i - 1].t
  IN \/ a = "id" /\ b \in {"id", "dec", "logref"}
     \/ a = "num" /\ b \in {"id", "sup"} /\ before = "id"
     \/ a \in Number1 /\ b \in Number1 \cup {"."}
     \/ a = "." /\ b \in Number1 /\ ~(before = "id" /\ b = "num")
     \/ a = "-" /\ b = "num" /\ before \notin {"id", "^", "@"}
     \/ a \in {"-", "^"} /\ b = "dec"
     \/ a \in {"sp", "logref"} /\ b = "sp"
     \/ a = "sup" /\ b = "sup"
     \/ b = "dec" /\ before = "@" /\ a # "sp"
     \/ b = "dec" /\ a # "@" /\ \E j \in 1 .. i - 1 : t[j].t = "@" /\ ~(j = i - 1 /\ a = "sp")

Apart(t) == \A i \in 1 .. Len(t) - 1 : ~Touch(t, i)

Few == { Id(<<"m">>), Id(<<"s">>), Num(2), Sym("("), Sym(")"), Sym("/"), Sym("@"), Sym("sp") }
Many == Few \cup
  { Id(<<"k", "m">>), Id(<<"kilo", "k", "meter">>), Id(<<"k", "k", "m">>), Id(<<"x">>), Num(0), LogRef(10),
    Dec(Grain \div 2), Sym("^"), Sym("-"), Sym("."), Sup(2), Sup(-1), Sym("!") }

Dates == { <<BrokenDate(700000)>>, <<PackedDate(700000)>>, <<Num(2)>> }
Clocks == { << >>, <<Blank, BrokenClock(12, 30)>>, <<TheT, PackedClock(12, 30)>>, <<Blank, Num(2)>> }
Zones ==
  { << >>, <<Blank, Id(<<"UTC">>)>>, <<Blank, Id(<<"x">>)>>, <<Blank, Sym("-"), BrokenClock(1, 30)>>,
    <<Blank, Num(2)>>, <<Blank, Sym("+"), PackedClock(0, 30)>> }
Shift1 == <<Sym("@")>>

MCTexts ==
  { t \in UNION { [1 .. n -> Many] : n \in 0 .. 3 } \cup [1 .. 4 -> Few] : Apart(t) }
  \cup { u \o Shift1 \o d \o c \o z \o end :
           u \in { <<Id(<<"s">>)>>, <<Id(<<"m">>)>>, <<Sym("("), Id(<<"s">>)>> },
           d \in Dates, c \in Clocks, z \in Zones, end \in { << >>, <<Sym(")")>>, <<Blank, Id(<<"x">>)>> } }
=============================================================================
