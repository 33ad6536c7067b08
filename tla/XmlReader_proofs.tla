--------------------------- MODULE XmlReader_proofs ---------------------------
(***************************************************************************)
(* Proofs about XmlReader, for all documents, texts, imports and bounds.   *)
(***************************************************************************)
EXTENDS XmlReader, TLAPS

-----------------------------------------------------------------------------
(* Systems.                                                                *)

\* As much of the shape of a system as the properties need.
IsSystem(s) ==
  /\ {"bases", "dimensionless", "unitOf", "idOf", "prefixes", "second"} \subseteq DOMAIN s
  /\ s.bases \in Nat
  /\ DOMAIN s.unitOf = Kinds /\ DOMAIN s.idOf = Kinds

\* What IdentifiersAgree says of a system.
KindsApart(s) == DOMAIN s.unitOf["name"] \cap DOMAIN s.unitOf["symbol"] = {}
ReadBack(s) ==
  \A k \in Kinds : \A key \in DOMAIN s.idOf[k] :
    /\ s.idOf[k][key] \in DOMAIN s.unitOf[k]
    /\ s.unitOf[k][s.idOf[k][key]] = key[1]

Agreeing(s) == IsSystem(s) /\ KindsApart(s) /\ ReadBack(s)

\* The bytes are an identifier of the unit.
MapsTo(s, kind, bytes, unit) ==
  bytes \in DOMAIN s.unitOf[kind] /\ s.unitOf[kind][bytes] = unit

\* No identifier is lost and none gets another unit.
Extends(s, t) ==
  \A k \in Kinds : \A bytes \in DOMAIN s.unitOf[k] : MapsTo(t, k, bytes, s.unitOf[k][bytes])

\* Nor is there a unit that can be printed no more.
Grows(s, t) ==
  /\ Agreeing(t) /\ Extends(s, t)
  /\ t.bases = s.bases /\ t.second = s.second
  /\ \A k \in Kinds : DOMAIN s.idOf[k] \subseteq DOMAIN t.idOf[k]

\* The unit can be printed in some encoding.
HasId(s, kind, unit) == \E e \in Encodings : <<unit, e>> \in DOMAIN s.idOf[kind]

LEMMA GrowsOn ==
  ASSUME NEW s, NEW t, NEW u
  PROVE  /\ Agreeing(s) => Grows(s, s)
         /\ Grows(s, t) /\ Grows(t, u) => Grows(s, u)
         /\ Grows(s, t) => \A k \in Kinds : \A unit : HasId(s, k, unit) => HasId(t, k, unit)
<1>1. Agreeing(s) => Grows(s, s)
  BY DEF Grows, Extends, MapsTo
<1>2. Grows(s, t) /\ Grows(t, u) => Grows(s, u)
  <2> SUFFICES ASSUME Grows(s, t), Grows(t, u) PROVE Grows(s, u)
    OBVIOUS
  <2>1. Extends(s, u)
    BY DEF Grows, Extends, MapsTo
  <2>2. \A k \in Kinds : DOMAIN s.idOf[k] \subseteq DOMAIN u.idOf[k]
    BY DEF Grows
  <2> QED
    BY <2>1, <2>2 DEF Grows
<1>3. Grows(s, t) => \A k \in Kinds : \A unit : HasId(s, k, unit) => HasId(t, k, unit)
  BY DEF Grows, HasId
<1> QED
  BY <1>1, <1>2, <1>3

LEMMA MapIdToUnitGrows ==
  ASSUME NEW s, Agreeing(s), NEW kind \in Kinds, NEW id, NEW unit
  PROVE  LET after == MapIdToUnit(s, kind, id, unit)
         IN /\ Grows(s, after.system)
            /\ after.ok => MapsTo(after.system, kind, id.bytes, unit)
<1> DEFINE after == MapIdToUnit(s, kind, id, unit)
           new == With(s.unitOf[kind], id.bytes, unit)
           t == [s EXCEPT !.unitOf[kind] = new]
<1>1. CASE Found(s, id.bytes)
  BY <1>1, GrowsOn DEF MapIdToUnit, Outcome
<1>2. CASE ~Found(s, id.bytes)
  <2>1. after.system = t
    BY <1>2 DEF MapIdToUnit, Outcome
  <2>2. /\ DOMAIN new = DOMAIN s.unitOf[kind] \cup {id.bytes}
        /\ new[id.bytes] = unit
        /\ \A b \in DOMAIN s.unitOf[kind] : new[b] = s.unitOf[kind][b]
    <3>1. id.bytes \notin DOMAIN s.unitOf[kind]
      BY <1>2 DEF Found
    <3> QED
      BY <3>1 DEF With
  <2> HIDE DEF new
  <2>3. /\ DOMAIN t = DOMAIN s /\ t.bases = s.bases /\ t.idOf = s.idOf /\ t.second = s.second
        /\ t.unitOf = [s.unitOf EXCEPT ![kind] = new]
    BY DEF Agreeing, IsSystem
  <2>4. /\ DOMAIN t.unitOf = Kinds /\ t.unitOf[kind] = new
        /\ \A k \in Kinds \ {kind} : t.unitOf[k] = s.unitOf[k]
    BY <2>3 DEF Agreeing, IsSystem
  <2> HIDE DEF t
  <2>5. IsSystem(t)
    BY <2>3, <2>4 DEF Agreeing, IsSystem
  <2>6. KindsApart(t)
    BY <1>2, <2>2, <2>4 DEF Agreeing, KindsApart, Found, Kinds
  <2>7. Extends(s, t)
    BY <2>2, <2>4 DEF Extends, MapsTo
  <2>8. ReadBack(t)
    BY <2>3, <2>7 DEF Agreeing, ReadBack, Extends, MapsTo
  <2>9. Grows(s, t)
    BY <2>3, <2>5, <2>6, <2>7, <2>8 DEF Agreeing, Grows
  <2> QED
    BY <2>1, <2>2, <2>4, <2>9 DEF MapsTo
<1> QED
  BY <1>1, <1>2

\* The unit must have been found by the identifier before.
LEMMA MapUnitToIdGrows ==
  ASSUME NEW s, Agreeing(s), NEW kind \in Kinds, NEW id, NEW unit,
         MapsTo(s, kind, id.bytes, unit)
  PROVE  LET after == MapUnitToId(s, kind, id, unit)
         IN /\ Grows(s, after.system) /\ after.system.unitOf = s.unitOf
            /\ after.ok => HasId(after.system, kind, unit)
<1> DEFINE after == MapUnitToId(s, kind, id, unit)
           key == <<unit, Filed(id)>>
           new == With(s.idOf[kind], key, id.bytes)
           t == [s EXCEPT !.idOf[kind] = new]
<1>0. Filed(id) \in Encodings
  BY DEF Filed, Encodings
<1>1. CASE key \in DOMAIN s.idOf[kind]
  <2>1. HasId(s, kind, unit)
    BY <1>0, <1>1 DEF HasId
  <2>2. after.system = s
    BY <1>1 DEF MapUnitToId, Outcome
  <2> QED
    BY <2>1, <2>2, GrowsOn
<1>2. CASE key \notin DOMAIN s.idOf[kind]
  <2>1. after.system = t
    BY <1>2 DEF MapUnitToId, Outcome
  <2>2. /\ DOMAIN new = DOMAIN s.idOf[kind] \cup {key}
        /\ new[key] = id.bytes
        /\ \A k \in DOMAIN s.idOf[kind] : new[k] = s.idOf[kind][k]
    BY <1>2 DEF With
  <2>3. key[1] = unit /\ key = <<unit, Filed(id)>>
    OBVIOUS
  <2> HIDE DEF new, key
  <2>4. /\ DOMAIN t = DOMAIN s /\ t.bases = s.bases /\ t.unitOf = s.unitOf /\ t.second = s.second
        /\ t.idOf = [s.idOf EXCEPT ![kind] = new]
    BY DEF Agreeing, IsSystem
  <2>5. /\ DOMAIN t.idOf = Kinds /\ t.idOf[kind] = new
        /\ \A k \in Kinds \ {kind} : t.idOf[k] = s.idOf[k]
    BY <2>4 DEF Agreeing, IsSystem
  <2> HIDE DEF t
  <2>6. IsSystem(t) /\ KindsApart(t)
    BY <2>4, <2>5 DEF Agreeing, IsSystem, KindsApart
  <2>7. ASSUME NEW k \in Kinds, NEW e \in DOMAIN t.idOf[k]
        PROVE  t.idOf[k][e] \in DOMAIN t.unitOf[k] /\ t.unitOf[k][t.idOf[k][e]] = e[1]
    <3>1. CASE k = kind /\ e = key
      BY <2>2, <2>3, <2>4, <2>5, <3>1 DEF MapsTo
    <3>2. CASE ~(k = kind /\ e = key)
      <4>1. e \in DOMAIN s.idOf[k] /\ t.idOf[k][e] = s.idOf[k][e]
        BY <2>2, <2>5, <2>7, <3>2
      <4> QED
        BY <2>4, <4>1 DEF Agreeing, ReadBack
    <3> QED
      BY <3>1, <3>2
  <2>8. Agreeing(t)
    BY <2>6, <2>7 DEF Agreeing, ReadBack
  <2>9. Extends(s, t)
    BY <2>4 DEF Extends, MapsTo
  <2>10. \A k \in Kinds : DOMAIN s.idOf[k] \subseteq DOMAIN t.idOf[k]
    BY <2>2, <2>5
  <2>11. HasId(t, kind, unit)
    BY <1>0, <2>2, <2>3, <2>5 DEF HasId
  <2> QED
    BY <2>1, <2>4, <2>8, <2>9, <2>10, <2>11 DEF Grows
<1> QED
  BY <1>1, <1>2

\* The derivatives that there are.
Bytes(word, encoding) ==
  LET ids == Derivatives(word, encoding)
  IN {ids.ascii, ids.latin1, ids.latin1Nbsp, ids.utf8, ids.utf8Nbsp} \ {<< >>}

\* The first of the derivatives were mapped to the unit.
IdsMapped(s, kind, unit, done, some) ==
  /\ Grows(s, done.system)
  /\ done.ok => \A bytes \in some \ {<< >>} : MapsTo(done.system, kind, bytes, unit)

IdThen(kind, unit, done, bytes, encoding) ==
  IF done.ok /\ bytes # << >> THEN MapIdToUnit(done.system, kind, Id(bytes, encoding), unit) ELSE done

LEMMA IdThenMaps ==
  ASSUME NEW s, NEW kind \in Kinds, NEW unit, NEW done, NEW some, NEW bytes, NEW encoding,
         IdsMapped(s, kind, unit, done, some)
  PROVE  IdsMapped(s, kind, unit, IdThen(kind, unit, done, bytes, encoding), some \cup {bytes})
<1> DEFINE after == MapIdToUnit(done.system, kind, Id(bytes, encoding), unit)
<1>1. CASE done.ok /\ bytes # << >>
  <2>1. /\ Grows(done.system, after.system)
        /\ after.ok => MapsTo(after.system, kind, bytes, unit)
    BY MapIdToUnitGrows DEF IdsMapped, Grows, Id
  <2>2. Grows(s, after.system)
    BY <2>1, GrowsOn DEF IdsMapped
  <2>3. \A b \in some \ {<< >>} : MapsTo(after.system, kind, b, unit)
    BY <1>1, <2>1 DEF IdsMapped, Grows, Extends, MapsTo
  <2> HIDE DEF after
  <2>4. IdsMapped(s, kind, unit, after, some \cup {bytes})
    BY <2>1, <2>2, <2>3 DEF IdsMapped
  <2> QED
    BY <1>1, <2>4 DEF IdThen, after
<1>2. CASE ~(done.ok /\ bytes # << >>)
  BY <1>2 DEF IdThen, IdsMapped
<1> QED
  BY <1>1, <1>2

LEMMA MapIdsToUnitGrows ==
  ASSUME NEW s, Agreeing(s), NEW kind \in Kinds, NEW word, NEW encoding, NEW unit
  PROVE  LET after == MapIdsToUnit(s, kind, word, encoding, unit)
         IN /\ Grows(s, after.system)
            /\ after.ok => \A bytes \in Bytes(word, encoding) : MapsTo(after.system, kind, bytes, unit)
<1> DEFINE ids == Derivatives(word, encoding)
           none == Outcome(TRUE, s)
           ascii == IdThen(kind, unit, none, ids.ascii, "UT_ASCII")
           latin1 == IdThen(kind, unit, ascii, ids.latin1, "UT_LATIN1")
           latin1Nbsp == IdThen(kind, unit, latin1, ids.latin1Nbsp, "UT_LATIN1")
           utf8 == IdThen(kind, unit, latin1Nbsp, ids.utf8, "UT_UTF8")
           utf8Nbsp == IdThen(kind, unit, utf8, ids.utf8Nbsp, "UT_UTF8")
<1>1. MapIdsToUnit(s, kind, word, encoding, unit) = utf8Nbsp
  BY DEF MapIdsToUnit, MapAll, Then, IdThen
<1> HIDE DEF ids
<1>2. IdsMapped(s, kind, unit, none, {})
  BY GrowsOn DEF IdsMapped, Outcome
<1> HIDE DEF none
<1>3. IdsMapped(s, kind, unit, ascii, {ids.ascii})
  BY <1>2, IdThenMaps
<1> HIDE DEF ascii
<1>4. IdsMapped(s, kind, unit, latin1, {ids.ascii, ids.latin1})
  BY <1>3, IdThenMaps
<1> HIDE DEF latin1
<1>5. IdsMapped(s, kind, unit, latin1Nbsp, {ids.ascii, ids.latin1, ids.latin1Nbsp})
  BY <1>4, IdThenMaps
<1> HIDE DEF latin1Nbsp
<1>6. IdsMapped(s, kind, unit, utf8, {ids.ascii, ids.latin1, ids.latin1Nbsp, ids.utf8})
  BY <1>5, IdThenMaps
<1> HIDE DEF utf8
<1>7. IdsMapped(s, kind, unit, utf8Nbsp,
                {ids.ascii, ids.latin1, ids.latin1Nbsp, ids.utf8, ids.utf8Nbsp})
  BY <1>6, IdThenMaps
<1> HIDE DEF utf8Nbsp
<1> QED
  BY <1>1, <1>7 DEF IdsMapped, Bytes, ids

\* The identifiers of units are among those that are mapped to them, and there is one
\* if any of the derivatives was mapped.
UnitMapped(s, kind, unit, done, some) ==
  /\ Grows(s, done.system) /\ done.system.unitOf = s.unitOf
  /\ done.ok /\ some \ {<< >>} # {} => HasId(done.system, kind, unit)

UnitThen(kind, unit, done, bytes, encoding) ==
  IF done.ok /\ bytes # << >> THEN MapUnitToId(done.system, kind, Id(bytes, encoding), unit) ELSE done

LEMMA UnitThenMaps ==
  ASSUME NEW s, NEW kind \in Kinds, NEW unit, NEW done, NEW some, NEW bytes, NEW encoding,
         UnitMapped(s, kind, unit, done, some), bytes # << >> => MapsTo(s, kind, bytes, unit)
  PROVE  UnitMapped(s, kind, unit, UnitThen(kind, unit, done, bytes, encoding), some \cup {bytes})
<1> DEFINE after == MapUnitToId(done.system, kind, Id(bytes, encoding), unit)
<1>1. CASE done.ok /\ bytes # << >>
  <2>1. MapsTo(done.system, kind, Id(bytes, encoding).bytes, unit)
    BY <1>1 DEF UnitMapped, MapsTo, Id
  <2>2. /\ Grows(done.system, after.system) /\ after.system.unitOf = done.system.unitOf
        /\ after.ok => HasId(after.system, kind, unit)
    BY <2>1, MapUnitToIdGrows DEF UnitMapped, Grows
  <2> HIDE DEF after
  <2>3. Grows(s, after.system) /\ after.system.unitOf = s.unitOf
    BY <2>2, GrowsOn DEF UnitMapped
  <2>4. UnitMapped(s, kind, unit, after, some \cup {bytes})
    BY <2>2, <2>3 DEF UnitMapped
  <2> QED
    BY <1>1, <2>4 DEF UnitThen, after
<1>2. CASE ~(done.ok /\ bytes # << >>)
  BY <1>2 DEF UnitThen, UnitMapped
<1> QED
  BY <1>1, <1>2

LEMMA MapUnitToIdsGrows ==
  ASSUME NEW s, Agreeing(s), NEW kind \in Kinds, NEW word, NEW encoding, NEW unit,
         \A bytes \in Bytes(word, encoding) : MapsTo(s, kind, bytes, unit)
  PROVE  LET after == MapUnitToIds(s, kind, word, encoding, unit)
         IN /\ Grows(s, after.system) /\ after.system.unitOf = s.unitOf
            /\ after.ok /\ Bytes(word, encoding) # {} => HasId(after.system, kind, unit)
<1> DEFINE ids == Derivatives(word, encoding)
           none == Outcome(TRUE, s)
           ascii == UnitThen(kind, unit, none, ids.ascii, "UT_ASCII")
           latin1 == UnitThen(kind, unit, ascii, ids.latin1, "UT_LATIN1")
           latin1Nbsp == UnitThen(kind, unit, latin1, ids.latin1Nbsp, "UT_LATIN1")
           utf8 == UnitThen(kind, unit, latin1Nbsp, ids.utf8, "UT_UTF8")
           utf8Nbsp == UnitThen(kind, unit, utf8, ids.utf8Nbsp, "UT_UTF8")
<1>1. MapUnitToIds(s, kind, word, encoding, unit) = utf8Nbsp
  BY DEF MapUnitToIds, MapAll, Then, UnitThen
<1>2. \A bytes \in {ids.ascii, ids.latin1, ids.latin1Nbsp, ids.utf8, ids.utf8Nbsp} :
        bytes # << >> => MapsTo(s, kind, bytes, unit)
  BY DEF Bytes
<1> HIDE DEF ids
<1>3. UnitMapped(s, kind, unit, none, {})
  BY GrowsOn DEF UnitMapped, Outcome
<1> HIDE DEF none
<1>4. UnitMapped(s, kind, unit, ascii, {ids.ascii})
  BY <1>2, <1>3, UnitThenMaps
<1> HIDE DEF ascii
<1>5. UnitMapped(s, kind, unit, latin1, {ids.ascii, ids.latin1})
  BY <1>2, <1>4, UnitThenMaps
<1> HIDE DEF latin1
<1>6. UnitMapped(s, kind, unit, latin1Nbsp, {ids.ascii, ids.latin1, ids.latin1Nbsp})
  BY <1>2, <1>5, UnitThenMaps
<1> HIDE DEF latin1Nbsp
<1>7. UnitMapped(s, kind, unit, utf8, {ids.ascii, ids.latin1, ids.latin1Nbsp, ids.utf8})
  BY <1>2, <1>6, UnitThenMaps
<1> HIDE DEF utf8
<1>8. UnitMapped(s, kind, unit, utf8Nbsp,
                 {ids.ascii, ids.latin1, ids.latin1Nbsp, ids.utf8, ids.utf8Nbsp})
  BY <1>2, <1>7, UnitThenMaps
<1> HIDE DEF utf8Nbsp
<1> QED
  BY <1>1, <1>8 DEF UnitMapped, Bytes, ids

\* An identifier of some length has a derivative.
LEMMA SomeDerivative ==
  ASSUME NEW S, NEW word \in Seq(S), word # << >>, NEW encoding
  PROVE  Bytes(word, encoding) # {}
<1> DEFINE ids == Derivatives(word, encoding)
           utf8 == Substitute(word, "_")
<1>1. Len(word) \in Nat /\ Len(word) # 0 /\ DOMAIN word = 1 .. Len(word)
  OBVIOUS
<1>2. utf8 # << >>
  <2>1. 1 \in DOMAIN utf8
    BY <1>1 DEF Substitute
  <2>2. DOMAIN << >> = 1 .. 0
    OBVIOUS
  <2> HIDE DEF utf8
  <2> QED
    BY <2>1, <2>2
<1>3. ids.ascii # << >> \/ ids.utf8 # << >>
  BY <1>2 DEF Derivatives
<1> QED
  BY <1>3 DEF Bytes

\* A unit is mapped to an identifier only after the identifier was mapped to the unit.
LEMMA MapUnitAndIdGrows ==
  ASSUME NEW s, Agreeing(s), NEW kind \in Kinds, NEW word, NEW encoding, NEW unit
  PROVE  LET after == MapUnitAndId(s, kind, word, encoding, unit)
         IN /\ Grows(s, after.system)
            /\ after.ok => \A bytes \in Bytes(word, encoding) : MapsTo(after.system, kind, bytes, unit)
            /\ after.ok /\ Bytes(word, encoding) # {} => HasId(after.system, kind, unit)
<1> DEFINE mapped == MapIdsToUnit(s, kind, word, encoding, unit)
           after == MapUnitToIds(mapped.system, kind, word, encoding, unit)
<1>1. /\ Grows(s, mapped.system) /\ Agreeing(mapped.system)
      /\ mapped.ok => \A bytes \in Bytes(word, encoding) : MapsTo(mapped.system, kind, bytes, unit)
  BY MapIdsToUnitGrows DEF Grows
<1>2. CASE mapped.ok
  <2>1. MapUnitAndId(s, kind, word, encoding, unit) = after
    BY <1>2 DEF MapUnitAndId
  <2>2. /\ Grows(mapped.system, after.system) /\ after.system.unitOf = mapped.system.unitOf
        /\ after.ok /\ Bytes(word, encoding) # {} => HasId(after.system, kind, unit)
    BY <1>1, <1>2, MapUnitToIdsGrows
  <2> HIDE DEF mapped, after
  <2>3. Grows(s, after.system)
    BY <1>1, <2>2, GrowsOn
  <2>4. \A bytes \in Bytes(word, encoding) : MapsTo(after.system, kind, bytes, unit)
    BY <1>1, <1>2, <2>2 DEF MapsTo
  <2> QED
    BY <2>1, <2>2, <2>3, <2>4
<1>3. CASE ~mapped.ok
  BY <1>1, <1>3 DEF MapUnitAndId
<1> QED
  BY <1>2, <1>3

\* Changes of other members than the maps of identifiers.
LEMMA OthersAgree ==
  ASSUME NEW s, Agreeing(s), NEW t, DOMAIN t = DOMAIN s, t.bases \in Nat,
         t.unitOf = s.unitOf, t.idOf = s.idOf
  PROVE  Agreeing(t)
BY DEF Agreeing, IsSystem, KindsApart, ReadBack

LEMMA AddPrefixAgrees ==
  ASSUME NEW s, Agreeing(s), NEW kind, NEW word, NEW value
  PROVE  Agreeing(AddPrefix(s, kind, word, value).system)
<1> DEFINE t == [s EXCEPT !.prefixes = With(@, <<kind, word>>, value)]
<1>1. Agreeing(t)
  <2>1. DOMAIN t = DOMAIN s /\ t.bases = s.bases /\ t.unitOf = s.unitOf /\ t.idOf = s.idOf
    BY DEF Agreeing, IsSystem
  <2> QED
    BY <2>1, OthersAgree DEF Agreeing, IsSystem
<1> QED
  BY <1>1 DEF AddPrefix, Outcome

-----------------------------------------------------------------------------
(* Handlers.                                                               *)

\* A file before and after a handler, as far as its status tells.
Read(f) == "status" \in DOMAIN f /\ f.status = "reading"
Handled(f) == "status" \in DOMAIN f /\ f.status \in {"reading", "UT_PARSE"}

LEMMA HandledReadOrStopped ==
  ASSUME NEW f, Read(f)
  PROVE  /\ Handled(f) /\ Handled(Stopped(f)) /\ Handled(Accumulating(f))
         /\ \A context : Handled(In(f, context))
BY DEF Read, Handled, Stopped, Accumulating, In

\* A handler of a start-tag goes on or stops.
LEMMA StartedHandles ==
  ASSUME NEW e, NEW f, Read(f)
  PROVE  Handled(Started(e, f))
<1> USE HandledReadOrStopped
<1>1. Handled(StartUnitSystem(f)) /\ Handled(StartAliases(f)) /\ Handled(StartImport(f))
  BY DEF StartUnitSystem, StartAliases, StartImport
<1>2. Handled(StartPrefix(f))
  BY DEF StartPrefix, Read, Handled, In
<1>3. Handled(StartUnit(f))
  BY DEF StartUnit, Read, Handled, In
<1>4. Handled(StartBase(f)) /\ Handled(StartDimensionless(f)) /\ Handled(StartDef(f))
  BY DEF StartBase, StartDimensionless, StartDef
<1>5. Handled(StartValue(f)) /\ Handled(StartSingular(f)) /\ Handled(StartPlural(f)) /\ Handled(StartSymbol(f))
  BY DEF StartValue, StartSingular, StartPlural, StartSymbol
<1>6. Handled(StartName(f))
  <2>1. Read([f EXCEPT !.noPlural = FALSE, !.singular = << >>, !.plural = << >>])
    BY DEF Read
  <2> QED
    BY <2>1 DEF StartName
<1>7. Handled([f EXCEPT !.skipDepth = 1])
  BY DEF Read, Handled
<1> QED
  BY <1>1, <1>2, <1>3, <1>4, <1>5, <1>6, <1>7 DEF Started

\* The status of a file is one of these.
Among(f, S) == "status" \in DOMAIN f /\ f.status \in S

LEMMA StoppedAmong ==
  ASSUME NEW S, "UT_PARSE" \in S, NEW f, Among(f, S)
  PROVE  Among(Stopped(f), S)
BY DEF Among, Stopped

\* A handler of an end-tag goes on or stops too, which is all that it can do if it is
\* called once more after a stop, and it leaves the system in order.
Kept(after, S) == Among(after.file, S) /\ Agreeing(after.system)

LEMMA IfMappedKeeps ==
  ASSUME NEW S, "UT_PARSE" \in S, NEW f, Among(f, S), NEW outcome, Agreeing(outcome.system)
  PROVE  Kept(IfMapped(outcome, f), S)
BY StoppedAmong DEF IfMapped, After, Kept

LEMMA WithPluralAgrees ==
  ASSUME NEW f, NEW mapped, Agreeing(mapped.system)
  PROVE  Agreeing(WithPlural(f, mapped).system)
BY MapIdsToUnitGrows DEF WithPlural, Kinds, Grows

LEMMA EndUnitNameKeeps ==
  ASSUME NEW S, "UT_PARSE" \in S, NEW f, Among(f, S), NEW s, Agreeing(s)
  PROVE  Kept(EndUnitName(f, s), S)
<1> DEFINE mapped == WithPlural(f, MapUnitAndId(s, "name", f.singular, f.textEncoding, f.unit))
           named == In([f EXCEPT !.nameSeen = TRUE], "UNIT")
           timed == Outcome(TRUE, [mapped.system EXCEPT !.second = f.unit])
<1>1. Agreeing(mapped.system)
  BY MapUnitAndIdGrows, WithPluralAgrees DEF Kinds, Grows
<1>2. Among(named, S)
  BY DEF Among, In
<1>3. Agreeing(timed.system)
  <2> DEFINE t == [mapped.system EXCEPT !.second = f.unit]
  <2>1. /\ DOMAIN t = DOMAIN mapped.system /\ t.bases = mapped.system.bases
        /\ t.unitOf = mapped.system.unitOf /\ t.idOf = mapped.system.idOf
    BY <1>1 DEF Agreeing, IsSystem
  <2>2. Agreeing(t)
    BY <1>1, <2>1, OthersAgree DEF Agreeing, IsSystem
  <2> QED
    BY <2>2 DEF Outcome
<1>4. Kept(IfMapped(timed, named), S) /\ Kept(IfMapped(mapped, named), S)
  BY <1>1, <1>2, <1>3, IfMappedKeeps
<1>5. Kept(After(Stopped(f), s), S)
  BY StoppedAmong DEF Kept, After
<1> QED
  BY <1>4, <1>5 DEF EndUnitName

LEMMA EndAliasNameKeeps ==
  ASSUME NEW S, "UT_PARSE" \in S, NEW f, Among(f, S), NEW s, Agreeing(s)
  PROVE  Kept(EndAliasName(f, s), S)
<1>1. Agreeing(WithPlural(f, MapIdsToUnit(s, "name", f.singular, f.textEncoding, f.unit)).system)
  BY MapIdsToUnitGrows, WithPluralAgrees DEF Kinds, Grows
<1>2. Among(In(f, "ALIASES"), S)
  BY DEF Among, In
<1>3. Kept(After(Stopped(f), s), S)
  BY StoppedAmong DEF Kept, After
<1> QED
  BY <1>1, <1>2, <1>3, IfMappedKeeps DEF EndAliasName

LEMMA EndPrefixIdKeeps ==
  ASSUME NEW S, "UT_PARSE" \in S, NEW f, Among(f, S), NEW s, Agreeing(s), NEW kind
  PROVE  Kept(EndPrefixId(f, s, kind), S)
<1>1. Among([f EXCEPT !.prefixAdded = TRUE], S)
  BY DEF Among
<1> QED
  BY <1>1, AddPrefixAgrees, IfMappedKeeps DEF EndPrefixId

LEMMA EndSymbolKeeps ==
  ASSUME NEW S, "UT_PARSE" \in S, NEW f, Among(f, S), NEW s, Agreeing(s)
  PROVE  Kept(EndSymbol(f, s), S)
<1>1. Among([f EXCEPT !.symbolSeen = TRUE], S)
  BY DEF Among
<1>2. Kept(EndPrefixId(f, s, "symbol"), S)
  BY EndPrefixIdKeeps
<1>3. Kept(IfMapped(MapUnitAndId(s, "symbol", text, f.textEncoding, f.unit),
                    [f EXCEPT !.symbolSeen = TRUE]), S)
  BY <1>1, MapUnitAndIdGrows, IfMappedKeeps DEF Kinds, Grows
<1>4. Kept(IfMapped(MapIdsToUnit(s, "symbol", text, f.textEncoding, f.unit), f), S)
  BY MapIdsToUnitGrows, IfMappedKeeps DEF Kinds, Grows
<1>5. Kept(After(f, s), S)
  BY StoppedAmong DEF Kept, After
<1> QED
  BY <1>2, <1>3, <1>4, <1>5 DEF EndSymbol

\* The handlers that map no identifier.
LEMMA EndOthersKeep ==
  ASSUME NEW S, "UT_PARSE" \in S, NEW f, Among(f, S), NEW s, Agreeing(s)
  PROVE  /\ Kept(EndPrefix(f, s), S) /\ Kept(EndUnit(f, s), S) /\ Kept(EndBase(f, s), S)
         /\ Kept(EndDimensionless(f, s), S) /\ Kept(EndDef(f, s), S) /\ Kept(EndValue(f, s), S)
         /\ Kept(EndSingular(f, s), S) /\ Kept(EndPlural(f, s), S) /\ Kept(EndAliases(f, s), S)
<1>1. ASSUME NEW g, Among(g, S) PROVE Kept(After(g, s), S) /\ Kept(After(Stopped(g), s), S)
  BY <1>1, StoppedAmong DEF Kept, After
<1>2. Among([f EXCEPT !.haveValue = FALSE], S) /\ Among([f EXCEPT !.unit = NoUnit], S)
  BY DEF Among
<1>3. \A g, context : Among(g, S) => Among(In(g, context), S)
  BY DEF Among, In
<1>4. Kept(EndPrefix(f, s), S) /\ Kept(EndUnit(f, s), S) /\ Kept(EndAliases(f, s), S)
  BY <1>1, <1>2, <1>3 DEF EndPrefix, EndUnit, EndAliases
<1>5. Kept(EndBase(f, s), S)
  <2> DEFINE t == [s EXCEPT !.bases = @ + 1]
  <2>1. /\ DOMAIN t = DOMAIN s /\ t.bases = s.bases + 1
        /\ t.unitOf = s.unitOf /\ t.idOf = s.idOf
    BY DEF Agreeing, IsSystem
  <2>2. Agreeing(t)
    BY <2>1, OthersAgree DEF Agreeing, IsSystem
  <2> QED
    BY <2>2 DEF EndBase, Kept, After, Among
<1>6. Kept(EndDimensionless(f, s), S)
  <2> DEFINE t == [s EXCEPT !.dimensionless = @ + 1]
  <2>1. /\ DOMAIN t = DOMAIN s /\ t.bases = s.bases
        /\ t.unitOf = s.unitOf /\ t.idOf = s.idOf
    BY DEF Agreeing, IsSystem
  <2>2. Agreeing(t)
    BY <2>1, OthersAgree DEF Agreeing, IsSystem
  <2> QED
    BY <2>2 DEF EndDimensionless, Kept, After, Among
<1>7. Kept(EndDef(f, s), S)
  <2>1. \A unit : Among([f EXCEPT !.unit = unit], S)
    BY DEF Among
  <2> QED
    BY <1>1, <2>1 DEF EndDef
<1>8. Kept(EndValue(f, s), S)
  <2>1. Among([f EXCEPT !.haveValue = TRUE, !.value = text], S)
    BY DEF Among
  <2> QED
    BY <1>1, <2>1 DEF EndValue
<1>9. Kept(EndSingular(f, s), S) /\ Kept(EndPlural(f, s), S)
  <2>1. Among([f EXCEPT !.singular = text], S) /\ Among([f EXCEPT !.plural = text], S)
    BY DEF Among
  <2> QED
    BY <1>1, <2>1 DEF EndSingular, EndPlural
<1> QED
  BY <1>4, <1>5, <1>6, <1>7, <1>8, <1>9

LEMMA HandlersKeep ==
  ASSUME NEW e, NEW S, "UT_PARSE" \in S, NEW f, Among(f, S), NEW s, Agreeing(s)
  PROVE  Kept(Ended(e, f, s), S)
<1>1. Kept(After(f, s), S) /\ Kept(After(Stopped(f), s), S) /\ Kept(After([f EXCEPT !.skipDepth = @ - 1], s), S)
  BY StoppedAmong DEF Kept, After, Among
<1>2. Kept(EndName(f, s), S)
  BY <1>1, EndPrefixIdKeeps, EndUnitNameKeeps, EndAliasNameKeeps DEF EndName
<1>3. Kept(EndSymbol(f, s), S)
  BY EndSymbolKeeps
<1> QED
  BY <1>1, <1>2, <1>3, EndOthersKeep DEF Ended

LEMMA EndedKeeps ==
  ASSUME NEW e, NEW f, Read(f), NEW s, Agreeing(s)
  PROVE  Handled(Ended(e, f, s).file) /\ Agreeing(Ended(e, f, s).system)
<1> DEFINE S == {"reading", "UT_PARSE"}
<1>1. "UT_PARSE" \in S /\ Among(f, S)
  BY DEF Read, Among
<1>2. Kept(Ended(e, f, s), S)
  BY <1>1, HandlersKeep
<1> QED
  BY <1>2 DEF Kept, Among, Handled

LEMMA EndedStops ==
  ASSUME NEW e, NEW f, Handled(f), f.status # "reading", NEW s, Agreeing(s)
  PROVE  /\ "status" \in DOMAIN Ended(e, f, s).file /\ Ended(e, f, s).file.status = "UT_PARSE"
         /\ Agreeing(Ended(e, f, s).system)
<1> DEFINE S == {"UT_PARSE"}
<1>1. "UT_PARSE" \in S /\ Among(f, S)
  BY DEF Handled, Among
<1>2. Kept(Ended(e, f, s), S)
  BY <1>1, HandlersKeep
<1> QED
  BY <1>2 DEF Kept, Among

-----------------------------------------------------------------------------
(* Files.                                                                  *)

\* While there are files only the last one can have been left, and it tells whether
\* and why the reading failed.
FilesInOrder ==
  /\ \E S : files \in Seq(S)
  /\ phase = "reading" => files # << >>
  /\ \A i \in 1 .. Len(files) : "status" \in DOMAIN files[i]
  /\ \A i \in 1 .. Len(files) - 1 : files[i].status = "reading"

Failed == failure.depth \in Nat /\ failure.status \notin {"reading", "UT_SUCCESS"}

FailureTold ==
  phase = "reading" =>
    \/ failure = NoFailure /\ currFile.status \in {"reading", "UT_SUCCESS"}
    \/ /\ Failed /\ failure.depth >= Len(files)
       /\ currFile.status = IF failure.depth = Len(files) THEN failure.status ELSE "UT_PARSE"

SystemInOrder ==
  /\ phase = "reading" => Agreeing(system)
  /\ phase # "reading" => system = NoSystem \/ Agreeing(system)

XInv == FilesInOrder /\ FailureTold /\ SystemInOrder /\ StatusSaysWhy

LEMMA SystemIsSome ==
  ASSUME NEW s, Agreeing(s)
  PROVE  s # NoSystem
BY DEF Agreeing, IsSystem, NoSystem

\* The sequence with another last element.
ReplacedBy(fs, f, new) ==
  /\ Len(fs) \in Nat \ {0} /\ Len(new) = Len(fs) /\ \E S : new \in Seq(S)
  /\ new[Len(fs)] = f /\ \A i \in 1 .. Len(fs) - 1 : new[i] = fs[i]

LEMMA Replaced ==
  ASSUME NEW S, NEW fs \in Seq(S), fs # << >>, NEW f
  PROVE  ReplacedBy(fs, f, Append(Seqs!Front(fs), f))
<1> DEFINE front == Seqs!Front(fs)
           new == Append(front, f)
<1>1. Len(fs) \in Nat /\ Len(fs) # 0
  OBVIOUS
<1>2. front \in Seq(S \cup {f}) /\ Len(front) = Len(fs) - 1 /\ \A i \in 1 .. Len(fs) - 1 : front[i] = fs[i]
  <2>1. \A i \in 1 .. Len(fs) - 1 : fs[i] \in S \cup {f}
    BY <1>1
  <2>2. front = [ i \in 1 .. Len(fs) - 1 |-> fs[i] ]
    BY <1>1 DEF Seqs!Front
  <2> HIDE DEF front
  <2> QED
    BY <1>1, <2>1, <2>2
<1> HIDE DEF front
<1>3. new \in Seq(S \cup {f})
  BY <1>2
<1>4. Len(new) = Len(fs) /\ new[Len(fs)] = f /\ \A i \in 1 .. Len(fs) - 1 : new[i] = fs[i]
  BY <1>1, <1>2
<1> HIDE DEF new
<1>5. ReplacedBy(fs, f, new)
  BY <1>1, <1>3, <1>4 DEF ReplacedBy
<1> QED
  BY <1>5 DEF new, front

\* What a step of the last file leaves, if it goes on, ends or fails.
LEMMA BecomesInOrder ==
  ASSUME FilesInOrder, FailureTold, Reading, NEW f, "status" \in DOMAIN f,
         Becomes(f), phase' = phase
  PROVE  FilesInOrder' /\ FailureTold'
<1> DEFINE new == IF f.status = "reading" THEN f ELSE [FileInit(FALSE) EXCEPT !.status = f.status]
<1>1. new.status = f.status /\ "status" \in DOMAIN new
  BY DEF FileInit
<1>2. files' = Append(Seqs!Front(files), new)
  BY DEF Becomes, Parent
<1> HIDE DEF new
<1>3. phase = "reading" /\ files # << >>
  BY DEF Reading, FilesInOrder
<1>4. PICK S : files \in Seq(S)
  BY DEF FilesInOrder
<1>5. ReplacedBy(files, new, files')
  BY <1>2, <1>3, <1>4, Replaced
<1>6. FilesInOrder'
  <2>1. \E T : files' \in Seq(T)
    BY <1>5 DEF ReplacedBy
  <2>2. files' # << >>
    BY <1>5 DEF ReplacedBy
  <2> QED
    BY <1>1, <1>5, <2>1, <2>2 DEF FilesInOrder, ReplacedBy
<1>7. failure = NoFailure
  BY <1>3 DEF FailureTold, Reading, Failed
<1>8. currFile' = new
  BY <1>5 DEF currFile, Seqs!Last, ReplacedBy
<1>9. CASE f.status \in {"reading", "UT_SUCCESS"}
  <2>1. failure' = NoFailure
    BY <1>7, <1>9 DEF Becomes
  <2>2. currFile'.status \in {"reading", "UT_SUCCESS"}
    BY <1>1, <1>8, <1>9
  <2> QED
    BY <1>6, <2>1, <2>2 DEF FailureTold
<1>10. CASE f.status \notin {"reading", "UT_SUCCESS"}
  <2>1. failure' = [depth |-> Len(files), status |-> f.status]
    BY <1>7, <1>10 DEF Becomes
  <2>2. failure'.depth = Len(files') /\ failure'.status = f.status
    BY <1>5, <2>1 DEF ReplacedBy
  <2>3. Failed'
    BY <1>5, <1>10, <2>2 DEF Failed, ReplacedBy
  <2>4. currFile'.status = failure'.status
    BY <1>1, <1>8, <2>2
  <2> QED
    BY <1>5, <1>6, <2>2, <2>3, <2>4 DEF FailureTold, ReplacedBy
<1> QED
  BY <1>6, <1>9, <1>10

\* The last file is one that is read.
LEMMA CurrentIsRead ==
  ASSUME FilesInOrder, Reading
  PROVE  Read(currFile) /\ phase = "reading" /\ files # << >>
<1>1. phase = "reading" /\ files # << >> /\ currFile.status = "reading"
  BY DEF Reading, FilesInOrder
<1>2. PICK S : files \in Seq(S)
  BY DEF FilesInOrder
<1>3. Len(files) \in 1 .. Len(files)
  BY <1>1, <1>2
<1> QED
  BY <1>1, <1>3 DEF FilesInOrder, Read, currFile, Seqs!Last

\* A step of the last file that leaves the system in order.
LEMMA StepOfFile ==
  ASSUME XInv, Reading, NEW f, "status" \in DOMAIN f, Becomes(f), phase' = phase,
         Agreeing(system)'
  PROVE  XInv'
<1>1. FilesInOrder' /\ FailureTold'
  BY BecomesInOrder DEF XInv
<1>2. phase' = "reading"
  BY DEF Reading
<1> QED
  BY <1>1, <1>2 DEF XInv, SystemInOrder, StatusSaysWhy

LEMMA ReadingInOrder ==
  ASSUME XInv, Reading
  PROVE  Read(currFile) /\ phase = "reading" /\ files # << >> /\ Agreeing(system)
BY CurrentIsRead DEF XInv, SystemInOrder

LEMMA StartElementStep ==
  ASSUME XInv, NEW e, StartElement(e)
  PROVE  XInv'
<1> DEFINE f == Push(currFile, e)
           g == [f EXCEPT !.textEncoding = "UT_ASCII"]
<1>1. Reading /\ system' = system /\ phase' = phase
  BY DEF StartElement, StartTag, Begun
<1>2. Read(currFile) /\ Agreeing(system)'
  BY <1>1, ReadingInOrder
<1>3. Read(f)
  BY <1>2 DEF Read, Push
<1> HIDE DEF f
<1>4. Read([f EXCEPT !.skipDepth = @ + 1]) /\ Read(g)
  BY <1>3 DEF Read
<1>5. Handled(Started(e, g))
  BY <1>4, StartedHandles
<1> HIDE DEF g
<1>6. Becomes([f EXCEPT !.skipDepth = @ + 1]) \/ Becomes(Started(e, g))
  BY DEF StartElement, Begun, f, g
<1> QED
  BY <1>1, <1>2, <1>4, <1>5, <1>6, StepOfFile DEF Read, Handled

LEMMA CharactersStep ==
  ASSUME XInv, NEW word, Characters(word)
  PROVE  XInv'
<1> DEFINE f == [currFile EXCEPT !.open[Len(currFile.open)].chars = word]
<1>1. Reading /\ system' = system /\ phase' = phase
  BY DEF Characters
<1>2. Read(currFile) /\ Agreeing(system)'
  BY <1>1, ReadingInOrder
<1>3. Read(f)
  BY <1>2 DEF Read
<1> HIDE DEF f
<1>4. Read([f EXCEPT !.textEncoding = "UT_UTF8"])
  BY <1>3 DEF Read
<1>5. Becomes(f) \/ Becomes([f EXCEPT !.textEncoding = "UT_UTF8"])
  BY DEF Characters, f
<1> QED
  BY <1>1, <1>2, <1>3, <1>4, <1>5, StepOfFile DEF Read

LEMMA EndElementStep ==
  ASSUME XInv, EndElement
  PROVE  XInv'
<1> DEFINE after == Ended(Innermost, currFile, system)
           f == IgnoreText(Pop(after.file))
<1>1. Reading /\ phase' = phase /\ Becomes(f) /\ system' = after.system
  BY DEF EndElement, EndTag
<1>2. Handled(after.file) /\ Agreeing(after.system)
  BY <1>1, ReadingInOrder, EndedKeeps
<1> HIDE DEF after
<1>3. "status" \in DOMAIN f
  BY <1>2 DEF Handled, IgnoreText, Pop
<1>4. Agreeing(system)'
  BY <1>1, <1>2
<1> QED
  BY <1>1, <1>3, <1>4, StepOfFile

\* An element that holds nothing and stops the parser.
LEMMA EmptyElementStops ==
  ASSUME XInv, NEW e, EmptyElement(e)
  PROVE  /\ Reading /\ phase' = phase /\ Agreeing(system)'
         /\ \E f : "status" \in DOMAIN f /\ f.status = "UT_PARSE" /\ Becomes(f)
<1> DEFINE h == Begun(e)
           after == Ended(e, h, system)
           f == IgnoreText(Pop(after.file))
<1>1. /\ Reading /\ phase' = phase /\ h.status # "reading"
      /\ Becomes(f) /\ system' = after.system
  BY DEF EmptyElement, EmptyTag, StartTag
<1>2. Read(currFile) /\ Agreeing(system)
  BY <1>1, ReadingInOrder
<1>3. Read([Push(currFile, e) EXCEPT !.textEncoding = "UT_ASCII"])
  BY <1>2 DEF Read, Push
<1>4. Handled(h)
  BY <1>3, StartedHandles DEF Begun
<1> HIDE DEF h
<1>5. "status" \in DOMAIN after.file /\ after.file.status = "UT_PARSE" /\ Agreeing(after.system)
  BY <1>1, <1>2, <1>4, EndedStops
<1> HIDE DEF after
<1>6. "status" \in DOMAIN f /\ f.status = "UT_PARSE"
  BY <1>5 DEF IgnoreText, Pop
<1> QED
  BY <1>1, <1>5, <1>6

LEMMA EmptyElementStep ==
  ASSUME XInv, NEW e, EmptyElement(e)
  PROVE  XInv'
BY EmptyElementStops, StepOfFile

\* Of a program that has ended nothing is claimed.
LEMMA CrashStep ==
  ASSUME XInv, Crash
  PROVE  XInv'
<1>1. /\ phase' = "crashed" /\ files' = files /\ system' = system
      /\ phase = "reading" /\ Agreeing(system)
  BY ReadingInOrder DEF Crash
<1> QED
  BY <1>1 DEF XInv, FilesInOrder, FailureTold, SystemInOrder, StatusSaysWhy

LEMMA EndingStep ==
  ASSUME XInv, DeclareXml \/ EndOfFile \/ Break
  PROVE  XInv'
<1>1. Reading /\ system' = system /\ phase' = phase
  BY DEF DeclareXml, EndOfFile, Break
<1>2. Read(currFile) /\ Agreeing(system)'
  BY <1>1, ReadingInOrder
<1>3. \/ Becomes(currFile) \/ Becomes(Stopped(currFile))
      \/ \E why : Becomes([currFile EXCEPT !.status = why])
  BY DEF DeclareXml, EndOfFile, Break
<1>4. /\ "status" \in DOMAIN currFile /\ "status" \in DOMAIN Stopped(currFile)
      /\ \A why : "status" \in DOMAIN [currFile EXCEPT !.status = why]
  BY <1>2 DEF Read, Stopped
<1> QED
  BY <1>1, <1>2, <1>3, <1>4, StepOfFile

\* A file on top of the others.
LEMMA ImportedFileStep ==
  ASSUME XInv, Reading, NEW added, files' = Append(files, FileInit(added)),
         UNCHANGED <<system, phase, failure>>
  PROVE  XInv'
<1> DEFINE top == FileInit(added)
<1>1. "status" \in DOMAIN top /\ top.status = "reading"
  BY DEF FileInit
<1> HIDE DEF top
<1>2. Read(currFile) /\ phase = "reading" /\ files # << >> /\ Agreeing(system)
  BY ReadingInOrder
<1>3. PICK S : files \in Seq(S)
  BY DEF XInv, FilesInOrder
<1>4. files' = Append(files, top)
  BY DEF top
<1>5. /\ files' \in Seq(S \cup {top}) /\ Len(files') = Len(files) + 1 /\ Len(files) \in Nat \ {0}
      /\ files'[Len(files) + 1] = top /\ \A i \in 1 .. Len(files) : files'[i] = files[i]
  <2>1. files \in Seq(S \cup {top})
    <3>1. files = [ i \in 1 .. Len(files) |-> files[i] ] /\ \A i \in 1 .. Len(files) : files[i] \in S
      BY <1>3
    <3> QED
      BY <1>3, <3>1
  <2> QED
    BY <1>2, <1>4, <2>1
<1>6. currFile' = top
  BY <1>5 DEF currFile, Seqs!Last
<1>7. FailureTold'
  <2>1. failure = NoFailure
    BY <1>2 DEF XInv, FailureTold, Failed, Read
  <2> QED
    BY <1>1, <1>6, <2>1 DEF FailureTold
<1>8. FilesInOrder'
  <2>1. \A i \in 1 .. Len(files) : files[i].status = "reading" /\ "status" \in DOMAIN files[i]
    BY <1>2, <1>5 DEF XInv, FilesInOrder, Read, currFile, Seqs!Last
  <2>2. \E T : files' \in Seq(T)
    BY <1>5
  <2>3. files' # << >>
    BY <1>5
  <2>4. \A i \in 1 .. Len(files') : "status" \in DOMAIN files'[i]
    BY <1>1, <1>5, <2>1
  <2>5. \A i \in 1 .. Len(files') - 1 : files'[i].status = "reading"
    BY <1>5, <2>1
  <2> QED
    BY <2>2, <2>3, <2>4, <2>5 DEF FilesInOrder
<1> QED
  BY <1>2, <1>7, <1>8 DEF XInv, SystemInOrder, StatusSaysWhy

LEMMA EndImportStep ==
  ASSUME XInv, EndImport
  PROVE  XInv'
<1>1. CASE \E added \in Garbage : files' = Append(files, FileInit(added)) /\ UNCHANGED failure
  BY <1>1, ImportedFileStep DEF EndImport, EndTag
<1>2. CASE Becomes(Stopped(currFile))
  <2>1. Reading /\ system' = system /\ phase' = phase
    BY DEF EndImport, EndTag
  <2>2. "status" \in DOMAIN Stopped(currFile) /\ Agreeing(system)'
    BY <2>1, ReadingInOrder DEF Read, Stopped
  <2> QED
    BY <1>2, <2>1, <2>2, StepOfFile
<1> QED
  BY <1>1, <1>2 DEF EndImport, EndTag

LEMMA ParentsAreFiles ==
  ASSUME NEW S, files \in Seq(S), Len(files) > 1
  PROVE  /\ Parent \in Seq(S) /\ Len(Parent) = Len(files) - 1 /\ Parent # << >>
         /\ \A i \in 1 .. Len(files) - 1 : Parent[i] = files[i]
<1>1. Len(files) - 1 \in Nat /\ Len(files) - 1 >= 1
  OBVIOUS
<1>2. Parent = [ i \in 1 .. Len(files) - 1 |-> files[i] ]
  BY <1>1 DEF Parent, Seqs!Front
<1>3. \A i \in 1 .. Len(files) - 1 : files[i] \in S
  BY <1>1
<1>4. Parent \in Seq(S) /\ Len(Parent) = Len(files) - 1
  BY <1>1, <1>2, <1>3
<1>5. Len(<< >>) = 0 /\ \A n \in Nat : n >= 1 => n # 0
  OBVIOUS
<1> QED
  BY <1>1, <1>2, <1>4, <1>5

\* The file that imported goes on exactly if nothing failed.
LEMMA ReturnStep ==
  ASSUME XInv, Return
  PROVE  XInv'
<1> DEFINE g == Seqs!Last(Parent)
           f == Imported(currFile, g)
<1>1. /\ phase = "reading" /\ phase' = phase /\ Len(files) > 1 /\ currFile.status # "reading"
      /\ files' = Append(Seqs!Front(Parent), f)
      /\ system' = system /\ failure' = failure
  BY DEF Return
<1>2. PICK S : files \in Seq(S)
  BY DEF XInv, FilesInOrder
<1>3. /\ Parent \in Seq(S) /\ Len(Parent) = Len(files) - 1 /\ Parent # << >>
      /\ \A i \in 1 .. Len(files) - 1 : Parent[i] = files[i]
  BY <1>1, <1>2, ParentsAreFiles
<1>4. Len(files) \in Nat /\ Len(files) > 1
  BY <1>1, <1>2
<1>5. g = files[Len(files) - 1]
  BY <1>3, <1>4 DEF Seqs!Last
<1>6. Read(g)
  BY <1>4, <1>5 DEF XInv, FilesInOrder, Read
<1> HIDE DEF g
<1>7. "status" \in DOMAIN f
      /\ f.status = IF currFile.status = "UT_SUCCESS" THEN "reading" ELSE "UT_PARSE"
  BY <1>6 DEF Imported, IgnoreText, Pop, Stopped, Read
<1> HIDE DEF f
<1>8. ReplacedBy(Parent, f, files')
  BY <1>1, <1>3, Replaced
<1>9. /\ Len(files') = Len(files) - 1 /\ files'[Len(files')] = f
      /\ \A i \in 1 .. Len(files') - 1 : files'[i] = files[i]
  BY <1>3, <1>4, <1>8 DEF ReplacedBy
<1>10. FilesInOrder'
  <2>1. (\E T : files' \in Seq(T)) /\ files' # << >>
    BY <1>8 DEF ReplacedBy
  <2>2. \A i \in 1 .. Len(files') - 1 : "status" \in DOMAIN files'[i] /\ files'[i].status = "reading"
    BY <1>4, <1>9 DEF XInv, FilesInOrder
  <2>3. \A i \in 1 .. Len(files') : "status" \in DOMAIN files'[i]
    BY <1>4, <1>7, <1>9, <2>2
  <2> QED
    BY <2>1, <2>2, <2>3 DEF FilesInOrder
<1>11. currFile' = f
  BY <1>9 DEF currFile, Seqs!Last
<1>12. FailureTold'
  <2>1. CASE failure = NoFailure
    <3>1. currFile.status = "UT_SUCCESS"
      BY <1>1, <2>1 DEF XInv, FailureTold, Failed, NoFailure
    <3> QED
      BY <1>1, <1>7, <1>11, <2>1, <3>1 DEF FailureTold
  <2>2. CASE failure # NoFailure
    <3>1. /\ Failed /\ failure.depth >= Len(files)
          /\ currFile.status = IF failure.depth = Len(files) THEN failure.status ELSE "UT_PARSE"
      BY <1>1, <2>2 DEF XInv, FailureTold
    <3>2. currFile'.status = "UT_PARSE"
      BY <1>7, <1>11, <3>1 DEF Failed
    <3>3. failure'.depth > Len(files') /\ Failed'
      BY <1>1, <1>4, <1>9, <3>1 DEF Failed
    <3>4. failure'.depth >= Len(files') /\ failure'.depth # Len(files')
      BY <1>1, <1>4, <1>9, <3>1, <3>3 DEF Failed
    <3> QED
      BY <3>2, <3>3, <3>4 DEF FailureTold
  <2> QED
    BY <2>1, <2>2
<1> QED
  BY <1>1, <1>10, <1>12 DEF XInv, SystemInOrder, StatusSaysWhy

LEMMA ReadXmlStep ==
  ASSUME XInv, ReadXml
  PROVE  XInv'
<1>1. ASSUME NEW added, files' = <<FileInit(added)>>, system' = EmptySystem, phase' = "reading",
             failure' = NoFailure
      PROVE  XInv'
  <2>1. Agreeing(EmptySystem)
    BY DEF Agreeing, IsSystem, KindsApart, ReadBack, EmptySystem, Kinds
  <2> DEFINE top == FileInit(added)
  <2>2. "status" \in DOMAIN top /\ top.status = "reading"
    BY DEF FileInit
  <2>3. files' = <<top>>
    BY <1>1
  <2> HIDE DEF top
  <2>4. files' \in Seq({top}) /\ Len(files') = 1 /\ files'[1] = top /\ files' # << >>
    BY <2>3
  <2>5. FilesInOrder'
    BY <2>2, <2>4 DEF FilesInOrder
  <2>6. currFile'.status = "reading"
    BY <2>2, <2>4 DEF currFile, Seqs!Last
  <2> QED
    BY <1>1, <2>1, <2>5, <2>6 DEF XInv, FailureTold, SystemInOrder, StatusSaysWhy
<1>2. ASSUME files' = << >>, system' = NoSystem, phase' = "returned", status' \in OpenErrors,
             failure' = [depth |-> 0, status |-> status']
      PROVE  XInv'
  <2>1. FilesInOrder'
    <3>1. files' \in Seq({}) /\ Len(files') = 0
      BY <1>2
    <3> QED
      BY <1>2, <3>1 DEF FilesInOrder
  <2>2. failure'.depth = 0 /\ failure'.status = status' /\ failure' # NoFailure
    BY <1>2 DEF NoFailure
  <2> QED
    BY <1>2, <2>1, <2>2 DEF XInv, FailureTold, SystemInOrder, StatusSaysWhy, OpenErrors
<1> QED
  BY <1>1, <1>2 DEF ReadXml

\* The first file tells what ut_read_xml() returns.
LEMMA ReadXmlReturnsStep ==
  ASSUME XInv, ReadXmlReturns
  PROVE  XInv'
<1>1. /\ phase = "reading" /\ Len(files) = 1 /\ currFile.status # "reading"
      /\ files' = << >> /\ phase' = "returned" /\ status' = currFile.status /\ failure' = failure
      /\ system' = IF status' = "UT_SUCCESS" THEN system ELSE NoSystem
  BY DEF ReadXmlReturns
<1>2. FilesInOrder'
  <2>1. files' \in Seq({}) /\ Len(files') = 0
    BY <1>1
  <2> QED
    BY <1>1, <2>1 DEF FilesInOrder
<1>3. Agreeing(system) /\ system # NoSystem
  BY <1>1, SystemIsSome DEF XInv, SystemInOrder
<1>4. CASE failure = NoFailure
  <2>1. status' = "UT_SUCCESS"
    BY <1>1, <1>4 DEF XInv, FailureTold, Failed, NoFailure
  <2>2. failure.depth = -1 /\ failure.status = "UT_SUCCESS"
    BY <1>4 DEF NoFailure
  <2> QED
    BY <1>1, <1>2, <1>3, <1>4, <2>1, <2>2 DEF XInv, FailureTold, SystemInOrder, StatusSaysWhy
<1>5. CASE failure # NoFailure
  <2>1. /\ Failed /\ failure.depth >= 1
        /\ status' = IF failure.depth = 1 THEN failure.status ELSE "UT_PARSE"
    BY <1>1, <1>5 DEF XInv, FailureTold
  <2>2. status' # "UT_SUCCESS" /\ status' = IF failure.depth <= 1 THEN failure.status ELSE "UT_PARSE"
    BY <2>1 DEF Failed
  <2> QED
    BY <1>1, <1>2, <1>5, <2>2 DEF XInv, FailureTold, SystemInOrder, StatusSaysWhy
<1> QED
  BY <1>4, <1>5

-----------------------------------------------------------------------------
(* Status and identifiers.                                                 *)

LEMMA XInvHolds == Spec => []XInv
<1>1. Init => XInv
  <2> SUFFICES ASSUME Init PROVE XInv
    OBVIOUS
  <2>1. files \in Seq({}) /\ Len(files) = 0
    BY DEF Init
  <2> QED
    BY <2>1 DEF Init, XInv, FilesInOrder, FailureTold, SystemInOrder, StatusSaysWhy
<1>2. XInv /\ [Next]_vars => XInv'
  <2> SUFFICES ASSUME XInv, [Next]_vars PROVE XInv'
    OBVIOUS
  <2>1. CASE UNCHANGED vars
    BY <2>1 DEF vars, XInv, FilesInOrder, FailureTold, Failed, SystemInOrder, StatusSaysWhy, currFile
  <2>2. CASE Next
    BY <2>2, ReadXmlStep, ReadXmlReturnsStep, ReturnStep, EndElementStep, EndImportStep,
       EmptyElementStep, CrashStep, EndingStep, StartElementStep, CharactersStep DEF Next
  <2> QED
    BY <2>1, <2>2
<1> QED
  BY <1>1, <1>2, PTL DEF Spec

\* However files import each other and whichever of them fails where, ut_read_xml()
\* returns a system exactly if all were read to their ends, and its status is that of
\* the first file if that is what failed, and UT_PARSE if it is a file imported.
THEOREM ToldWhy == Spec => []StatusSaysWhy
<1>1. XInv => StatusSaysWhy
  BY DEF XInv
<1> QED
  BY <1>1, XInvHolds, PTL

\* Whatever the documents map in whichever order, with duplicates refused half-way
\* through the derivatives of an identifier: no identifier is a name and a symbol, and
\* what a unit is printed as is read back as this unit.
THEOREM Agree == Spec => []IdentifiersAgree
<1>1. XInv => IdentifiersAgree
  <2> SUFFICES ASSUME XInv, system # NoSystem PROVE KindsApart(system) /\ ReadBack(system)
    BY DEF IdentifiersAgree, KindsApart, ReadBack
  <2> QED
    BY DEF XInv, SystemInOrder, Agreeing
<1> QED
  BY <1>1, XInvHolds, PTL
-----------------------------------------------------------------------------
(* Where a file is in its document.                                        *)

IsWord(word) == \E S : word \in Seq(S)

\* The elements that are open and not skipped are the first ones.
Depth(f) == Len(f.open) - f.skipDepth
At(f, i) == f.open[i].name

\* What the handlers accept within an element.
Held(e) ==
  CASE e = "unit-system" -> {"prefix", "unit", "import"}
    [] e = "prefix" -> {"value", "name", "symbol"}
    [] e = "unit" -> {"base", "dimensionless", "def", "name", "symbol", "aliases"}
    [] e = "aliases" -> {"name", "symbol"}
    [] e = "name" -> {"singular", "plural"}
    [] OTHER -> {}

Placed(f, i) ==
  IF i = 1 THEN At(f, 1) = "unit-system"
  ELSE /\ At(f, i) \in Held(At(f, i - 1))
       /\ At(f, i - 1) = "name" => i > 2 /\ At(f, i - 2) \in {"unit", "aliases"}

\* The context of an element, or that of the element around it.
ContextAt(open, i) ==
  IF ContextOf(open, i) # "none" THEN ContextOf(open, i) ELSE ContextOf(open, i - 1)

\* The elements that hold no other elements, or only those of a name.
Plain == {"def", "value", "name", "singular", "plural", "symbol", "import", "base", "dimensionless"}

Fields == {"context", "skipDepth", "textEncoding", "unit", "isBase", "isDimensionless",
           "haveValue", "value", "prefixAdded", "noPlural", "singular", "plural",
           "nameSeen", "symbolSeen", "accumulating", "open", "rooted", "status"}

IsOpened(r) == DOMAIN r = {"name", "chars"} /\ r.name \in Elements /\ IsWord(r.chars)

Stack(open) ==
  /\ \E S : open \in Seq(S)
  /\ \A i \in 1 .. Len(open) : IsOpened(open[i])

InPlace(f) ==
  /\ DOMAIN f = Fields
  /\ Stack(f.open)
  /\ f.skipDepth \in Nat /\ f.skipDepth <= Len(f.open)
  /\ \A i \in 1 .. Depth(f) : Placed(f, i)
  /\ Depth(f) >= 1 => f.context = ContextAt(f.open, Depth(f))
  /\ ~f.rooted => f.open = << >> /\ f.context = "START"
  /\ f.skipDepth > 0 /\ Depth(f) >= 1 => At(f, Depth(f)) \notin Plain
  /\ f.accumulating = (f.skipDepth = 0 /\ HoldsText(f.open))
  /\ IsWord(f.singular)

Importing(f) == f.skipDepth = 0 /\ Len(f.open) = 2 /\ At(f, 2) = "import"

DocumentsInPlace ==
  /\ \A i \in 1 .. Len(files) : files[i].status = "reading" => InPlace(files[i])
  /\ \A i \in 1 .. Len(files) - 1 : Importing(files[i])
  /\ Reading /\ currFile.accumulating => text = Seqs!Last(currFile.open).chars

-----------------------------------------------------------------------------
(* Elements that begin.                                                    *)

LEMMA Pushed ==
  ASSUME NEW open, Stack(open), NEW r, IsOpened(r)
  PROVE  /\ Stack(Append(open, r)) /\ Len(open) \in Nat
         /\ Len(Append(open, r)) = Len(open) + 1
         /\ Append(open, r)[Len(open) + 1] = r
         /\ Append(open, r) # << >>
         /\ \A i \in 1 .. Len(open) : Append(open, r)[i] = open[i]
<1>1. PICK S : open \in Seq(S)
  BY DEF Stack
<1> DEFINE new == Append(open, r)
<1>2. open \in Seq(S \cup {r})
  <2>1. open = [ i \in 1 .. Len(open) |-> open[i] ] /\ \A i \in 1 .. Len(open) : open[i] \in S
    BY <1>1
  <2> QED
    BY <1>1, <2>1
<1>3. /\ new \in Seq(S \cup {r}) /\ Len(open) \in Nat /\ Len(new) = Len(open) + 1
      /\ new[Len(open) + 1] = r
      /\ \A i \in 1 .. Len(open) : new[i] = open[i]
  BY <1>2
<1> HIDE DEF new
<1>4. \A i \in 1 .. Len(new) : IsOpened(new[i])
  BY <1>3 DEF Stack
<1>5. new # << >>
  BY <1>3
<1> QED
  BY <1>3, <1>4, <1>5 DEF Stack, new

LEMMA Popped ==
  ASSUME NEW open, Stack(open), open # << >>
  PROVE  /\ Stack(Seqs!Front(open)) /\ Len(open) \in Nat \ {0}
         /\ Len(Seqs!Front(open)) = Len(open) - 1
         /\ Seqs!Last(open) = open[Len(open)]
         /\ \A i \in 1 .. Len(open) - 1 : Seqs!Front(open)[i] = open[i]
<1> DEFINE front == Seqs!Front(open)
<1>1. PICK S : open \in Seq(S)
  BY DEF Stack
<1>2. Len(open) \in Nat /\ Len(open) # 0
  BY <1>1
<1>3. front = [ i \in 1 .. Len(open) - 1 |-> open[i] ]
  BY <1>1, <1>2 DEF Seqs!Front
<1>4. \A i \in 1 .. Len(open) - 1 : open[i] \in S
  BY <1>1, <1>2
<1> HIDE DEF front
<1>5. front \in Seq(S) /\ Len(front) = Len(open) - 1 /\ \A i \in 1 .. Len(open) - 1 : front[i] = open[i]
  BY <1>2, <1>3, <1>4
<1>6. \A i \in 1 .. Len(front) : IsOpened(front[i])
  BY <1>2, <1>5 DEF Stack
<1> QED
  BY <1>2, <1>5, <1>6 DEF Stack, front, Seqs!Last

\* What tells where a file is: the names of the elements that are open.
SameNames(f, g, n) == \A i \in 1 .. n : g.open[i].name = f.open[i].name
AllPlaced(f, n) == \A i \in 1 .. n : Placed(f, i)
SameContexts(f, g, n) == \A i \in 1 .. n : ContextOf(g.open, i) = ContextOf(f.open, i)

LEMMA StaysPlaced ==
  ASSUME NEW f, NEW g, NEW n \in Nat, SameNames(f, g, n), AllPlaced(f, n)
  PROVE  AllPlaced(g, n) /\ SameContexts(f, g, n)
<1> SUFFICES ASSUME \A i \in 1 .. n : g.open[i].name = f.open[i].name,
                    \A i \in 1 .. n : Placed(f, i)
             PROVE  \A i \in 1 .. n : Placed(g, i) /\ ContextOf(g.open, i) = ContextOf(f.open, i)
  BY DEF SameNames, AllPlaced, SameContexts
<1> TAKE i \in 1 .. n
<1>1. g.open[i].name = f.open[i].name
  OBVIOUS
<1>2. i > 1 => i - 1 \in 1 .. n /\ g.open[i - 1].name = f.open[i - 1].name
  OBVIOUS
<1>3. i > 2 => g.open[i - 2].name = f.open[i - 2].name
  OBVIOUS
<1>4. ContextOf(g.open, i) = ContextOf(f.open, i)
  BY <1>1, <1>2 DEF ContextOf
<1>5. Placed(f, i)
  OBVIOUS
<1>6. CASE i = 1
  BY <1>1, <1>4, <1>5, <1>6 DEF Placed, At
<1>7. CASE i > 1
  BY <1>1, <1>2, <1>3, <1>4, <1>5, <1>7 DEF Placed, At
<1> QED
  BY <1>4, <1>6, <1>7

\* What is around an element that begins.
LEMMA Around ==
  ASSUME WellNested, NEW f, InPlace(f), f.skipDepth = 0, f.open # << >>,
         NEW e \in Nesting[Seqs!Last(f.open).name]
  PROVE  /\ Depth(f) = Len(f.open) /\ Len(f.open) \in Nat \ {0}
         /\ At(f, Len(f.open)) = Seqs!Last(f.open).name
         /\ e \notin {"singular", "plural"} =>
              LET p == At(f, Len(f.open))
              IN \/ p = "unit-system" /\ f.context = "UNIT_SYSTEM"
                 \/ p = "prefix" /\ f.context = "PREFIX"
                 \/ p = "unit" /\ f.context = "UNIT"
                 \/ p = "aliases" /\ f.context = "ALIASES"
         /\ e \in {"singular", "plural"} /\ Naming(f) =>
              /\ At(f, Len(f.open)) = "name" /\ Len(f.open) > 1
              /\ \/ At(f, Len(f.open) - 1) = "unit" /\ f.context = "UNIT_NAME"
                 \/ At(f, Len(f.open) - 1) = "aliases" /\ f.context = "ALIAS_NAME"
<1> DEFINE d == Len(f.open)
           p == At(f, d)
<1>1. d \in Nat /\ d # 0 /\ p = Seqs!Last(f.open).name /\ p \in Elements
  BY Popped DEF InPlace, Stack, At, IsOpened
<1>2. Depth(f) = d
  BY <1>1 DEF Depth
<1> HIDE DEF d
<1>3. /\ Placed(f, d) /\ f.context = ContextAt(f.open, d)
      /\ d > 1 => Placed(f, d - 1)
  <2>1. \A i \in 1 .. d : Placed(f, i)
    BY <1>2 DEF InPlace
  <2>2. d \in 1 .. d /\ (d > 1 => d - 1 \in 1 .. d)
    BY <1>1
  <2>3. Depth(f) >= 1
    BY <1>1, <1>2
  <2> QED
    BY <1>2, <2>1, <2>2, <2>3 DEF InPlace
<1>4. e \in Nesting[p]
  BY <1>1
<1>5. p \in Plain => p = "name" /\ e \in {"singular", "plural"}
  BY <1>1, <1>4 DEF WellNested, Plain
<1>6. CASE d = 1
  <2>1. p = "unit-system"
    BY <1>3, <1>6 DEF Placed
  <2>2. f.context = "UNIT_SYSTEM"
    BY <1>3, <1>6, <2>1 DEF ContextAt, ContextOf, At
  <2> QED
    BY <1>1, <1>2, <2>1, <2>2 DEF Naming, d
<1>7. CASE d > 1
  <2> DEFINE q == At(f, d - 1)
  <2>1. p \in Held(q) /\ d # 1
    BY <1>1, <1>3, <1>7 DEF Placed
  <2>2. p \in Plain \cup {"prefix", "unit", "aliases"}
    BY <2>1 DEF Held, Plain
  <2>3. CASE p \in {"prefix", "unit", "aliases"}
    <3>1. f.context = ContextOf(f.open, d) /\ ContextOf(f.open, d) = (CASE p = "prefix" -> "PREFIX" [] p = "unit" -> "UNIT" [] OTHER -> "ALIASES")
      BY <1>3, <2>3 DEF ContextAt, ContextOf, At
    <3> QED
      BY <1>1, <1>2, <2>3, <3>1 DEF Naming, d
  <2>4. CASE p \in Plain
    <3>1. p = "name" /\ e \in {"singular", "plural"}
      BY <1>5, <2>4
    <3>2. q \in {"prefix", "unit", "aliases"}
      BY <2>1, <3>1 DEF Held
    <3>3. CASE q = "prefix"
      <4>1. ContextOf(f.open, d) = "none" /\ ContextOf(f.open, d - 1) = "PREFIX"
        BY <3>1, <3>3 DEF ContextOf, At
      <4>2. f.context = "PREFIX"
        BY <1>3, <4>1 DEF ContextAt
      <4> QED
        BY <1>1, <1>2, <3>1, <4>2 DEF Naming, d
    <3>4. CASE q \in {"unit", "aliases"}
      <4>1. ContextOf(f.open, d) = (IF q = "unit" THEN "UNIT_NAME" ELSE "ALIAS_NAME")
        BY <1>7, <3>1, <3>4 DEF ContextOf, At
      <4>2. f.context = (IF q = "unit" THEN "UNIT_NAME" ELSE "ALIAS_NAME")
        BY <1>3, <4>1 DEF ContextAt
      <4> QED
        BY <1>1, <1>2, <1>7, <3>1, <3>4, <4>2 DEF Naming, d
    <3> QED
      BY <3>2, <3>3, <3>4
  <2> QED
    BY <2>2, <2>3, <2>4
<1> QED
  BY <1>1, <1>6, <1>7

LEMMA OpenedIsOpened ==
  ASSUME NEW e \in Elements
  PROVE  IsOpened(Opened(e))
<1>1. << >> \in Seq({})
  OBVIOUS
<1> QED
  BY <1>1 DEF IsOpened, Opened, IsWord

\* A file with one more element, as far as its place is concerned.
Deeper(f, h, e) ==
  /\ DOMAIN h = Fields /\ h.open = Append(f.open, Opened(e)) /\ h.rooted = TRUE
  /\ IsWord(h.singular)

LEMMA DeeperInPlace ==
  ASSUME NEW f, InPlace(f), NEW h, NEW e \in Elements, Deeper(f, h, e)
  PROVE  /\ Stack(h.open) /\ Len(f.open) \in Nat /\ Len(h.open) = Len(f.open) + 1
         /\ h.open[Len(f.open) + 1] = Opened(e) /\ h.open # << >>
         /\ \A i \in 1 .. Len(f.open) : h.open[i] = f.open[i]
         /\ \A i \in 1 .. Depth(f) : Placed(h, i) /\ ContextOf(h.open, i) = ContextOf(f.open, i)
<1>1. IsOpened(Opened(e))
  BY OpenedIsOpened
<1>2. /\ Stack(h.open) /\ Len(f.open) \in Nat /\ Len(h.open) = Len(f.open) + 1
      /\ h.open[Len(f.open) + 1] = Opened(e) /\ h.open # << >>
      /\ \A i \in 1 .. Len(f.open) : h.open[i] = f.open[i]
  <2>1. Stack(f.open) /\ h.open = Append(f.open, Opened(e))
    BY DEF InPlace, Deeper
  <2> DEFINE new == Append(f.open, Opened(e))
  <2>2. /\ Stack(new) /\ Len(f.open) \in Nat /\ Len(new) = Len(f.open) + 1
        /\ new[Len(f.open) + 1] = Opened(e) /\ new # << >>
        /\ \A i \in 1 .. Len(f.open) : new[i] = f.open[i]
    BY <1>1, <2>1, Pushed
  <2> HIDE DEF new
  <2>3. h.open = new
    BY <2>1 DEF new
  <2> QED
    BY <2>2, <2>3
<1>3. Depth(f) \in Nat /\ Depth(f) <= Len(f.open)
  <2>1. f.skipDepth \in Nat /\ f.skipDepth <= Len(f.open) /\ Len(f.open) \in Nat
    BY <1>2 DEF InPlace
  <2> QED
    BY <2>1 DEF Depth
<1>4. \A i \in 1 .. Depth(f) : h.open[i].name = f.open[i].name
  BY <1>2, <1>3
<1>5. \A i \in 1 .. Depth(f) : Placed(f, i)
  BY DEF InPlace
<1>6. \A i \in 1 .. Depth(f) : Placed(h, i) /\ ContextOf(h.open, i) = ContextOf(f.open, i)
  <2> DEFINE n == Depth(f)
  <2>1. n \in Nat /\ SameNames(f, h, n) /\ AllPlaced(f, n)
    BY <1>3, <1>4, <1>5 DEF SameNames, AllPlaced
  <2> HIDE DEF n
  <2>2. AllPlaced(h, n) /\ SameContexts(f, h, n)
    BY <2>1, StaysPlaced
  <2> QED
    BY <2>2 DEF n, AllPlaced, SameContexts
<1> QED
  BY <1>2, <1>6

\* An element that is skipped.
LEMMA SkippedInPlace ==
  ASSUME NEW f, InPlace(f), NEW h, NEW e \in Elements, Deeper(f, h, e),
         h.skipDepth = f.skipDepth + 1, h.context = f.context, h.accumulating = FALSE,
         Depth(f) >= 1 => At(f, Depth(f)) \notin Plain
  PROVE  InPlace(h)
<1>1. f.skipDepth \in Nat /\ f.skipDepth <= Len(f.open)
  BY DEF InPlace
<1>2. /\ Stack(h.open) /\ Len(f.open) \in Nat /\ Len(h.open) = Len(f.open) + 1
      /\ h.open # << >>
      /\ \A i \in 1 .. Len(f.open) : h.open[i] = f.open[i]
      /\ \A i \in 1 .. Depth(f) : Placed(h, i) /\ ContextOf(h.open, i) = ContextOf(f.open, i)
  BY DeeperInPlace
<1>3. Depth(h) = Depth(f) /\ Depth(f) \in Nat /\ Depth(f) <= Len(f.open)
  BY <1>1, <1>2 DEF Depth
<1>4. h.skipDepth \in Nat /\ h.skipDepth <= Len(h.open) /\ h.skipDepth # 0
  BY <1>1, <1>2
<1>5. \A i \in 1 .. Depth(h) : Placed(h, i)
  BY <1>2, <1>3
<1>6. ASSUME Depth(f) >= 1 PROVE h.context = ContextAt(h.open, Depth(h)) /\ At(h, Depth(h)) \notin Plain
  <2>1. f.context = ContextAt(f.open, Depth(f))
    BY <1>6 DEF InPlace
  <2>2. At(h, Depth(h)) = At(f, Depth(f))
    BY <1>2, <1>3, <1>6 DEF At
  <2>3. ContextOf(h.open, Depth(f)) = ContextOf(f.open, Depth(f))
    BY <1>2, <1>3, <1>6
  <2>4. Depth(f) > 1 => ContextOf(h.open, Depth(f) - 1) = ContextOf(f.open, Depth(f) - 1)
    BY <1>2, <1>3
  <2>5. Depth(f) = 1 => ContextOf(f.open, Depth(f)) # "none"
    <3>1. Depth(f) = 1 => Placed(f, 1)
      BY <1>3 DEF InPlace
    <3> QED
      BY <3>1 DEF Placed, ContextOf, At
  <2> QED
    BY <1>3, <1>6, <2>1, <2>2, <2>3, <2>4, <2>5 DEF ContextAt
<1> QED
  BY <1>2, <1>3, <1>4, <1>5, <1>6 DEF InPlace, Deeper

\* The context within an element within another one.
LEMMA ContextWithin ==
  ASSUME NEW open, NEW d \in Nat \ {0}
  PROVE  LET p == open[d].name
             e == open[d + 1].name
         IN /\ e \in {"prefix", "unit", "aliases"} => 
                 ContextAt(open, d + 1) = ContextOf(open, d + 1)
            /\ e = "prefix" => ContextAt(open, d + 1) = "PREFIX"
            /\ e = "unit" => ContextAt(open, d + 1) = "UNIT"
            /\ e = "aliases" => ContextAt(open, d + 1) = "ALIASES"
            /\ e = "name" /\ p = "unit" => ContextAt(open, d + 1) = "UNIT_NAME"
            /\ e = "name" /\ p = "aliases" => ContextAt(open, d + 1) = "ALIAS_NAME"
            /\ e = "name" /\ p = "prefix" => ContextAt(open, d + 1) = "PREFIX"
            /\ e \in Plain \ {"name"} => ContextAt(open, d + 1) = ContextOf(open, d)
<1> DEFINE p == open[d].name
           e == open[d + 1].name
           c == ContextOf(open, d + 1)
<1>1. d + 1 > 1 /\ (d + 1) - 1 = d
  OBVIOUS
<1>2. /\ e = "prefix" => c = "PREFIX"
      /\ e = "unit" => c = "UNIT"
      /\ e = "aliases" => c = "ALIASES"
      /\ e = "name" /\ p = "unit" => c = "UNIT_NAME"
      /\ e = "name" /\ p = "aliases" => c = "ALIAS_NAME"
      /\ e = "name" /\ p = "prefix" => c = "none"
      /\ e \in Plain \ {"name"} => c = "none"
  BY <1>1 DEF ContextOf, Plain
<1>3. p = "prefix" => ContextOf(open, d) = "PREFIX"
  BY DEF ContextOf
<1>4. ContextAt(open, d + 1) = (IF c # "none" THEN c ELSE ContextOf(open, d))
  BY <1>1 DEF ContextAt
<1> HIDE DEF c, p, e
<1>5. /\ e = "prefix" => ContextAt(open, d + 1) = "PREFIX"
      /\ e = "unit" => ContextAt(open, d + 1) = "UNIT"
      /\ e = "aliases" => ContextAt(open, d + 1) = "ALIASES"
      /\ e = "name" /\ p = "unit" => ContextAt(open, d + 1) = "UNIT_NAME"
      /\ e = "name" /\ p = "aliases" => ContextAt(open, d + 1) = "ALIAS_NAME"
      /\ e = "name" /\ p = "prefix" => ContextAt(open, d + 1) = "PREFIX"
      /\ e \in Plain \ {"name"} => ContextAt(open, d + 1) = ContextOf(open, d)
  BY <1>2, <1>3, <1>4
<1>6. e \in {"prefix", "unit", "aliases"} => ContextAt(open, d + 1) = c
  BY <1>2, <1>4
<1> QED
  BY <1>5, <1>6 DEF c, p, e

\* An element that a handler accepts.
LEMMA AcceptedInPlace ==
  ASSUME NEW f, InPlace(f), f.skipDepth = 0, NEW h, NEW e \in Elements, Deeper(f, h, e),
         h.skipDepth = 0, h.context = ContextAt(h.open, Len(f.open) + 1),
         h.accumulating = HoldsText(h.open),
         IF f.open = << >> THEN e = "unit-system"
         ELSE /\ e \in Held(At(f, Len(f.open)))
              /\ At(f, Len(f.open)) = "name" =>
                   Len(f.open) > 1 /\ At(f, Len(f.open) - 1) \in {"unit", "aliases"}
  PROVE  InPlace(h)
<1> DEFINE d == Len(f.open)
<1>1. /\ Stack(h.open) /\ d \in Nat /\ Len(h.open) = d + 1
      /\ h.open[d + 1] = Opened(e) /\ h.open # << >>
      /\ \A i \in 1 .. d : h.open[i] = f.open[i]
      /\ \A i \in 1 .. Depth(f) : Placed(h, i) /\ ContextOf(h.open, i) = ContextOf(f.open, i)
  BY DeeperInPlace
<1> HIDE DEF d
<1>2. Depth(f) = d /\ Depth(h) = d + 1
  BY <1>1 DEF Depth, d
<1>3. At(h, d + 1) = e
  BY <1>1 DEF At, Opened
<1>4. Placed(h, d + 1)
  <2>1. CASE d = 0
    <3>1. f.open = << >>
      <4>1. PICK S : f.open \in Seq(S)
        BY DEF InPlace, Stack
      <4> QED
        BY <2>1, <4>1 DEF d
    <3> QED
      BY <1>3, <2>1, <3>1 DEF Placed
  <2>2. CASE d # 0
    <3>1. f.open # << >>
      BY <2>2 DEF d
    <3>2. /\ e \in Held(At(f, d))
          /\ At(f, d) = "name" => d > 1 /\ At(f, d - 1) \in {"unit", "aliases"}
      BY <3>1 DEF d
    <3>3. At(h, d) = At(f, d) /\ (d > 1 => At(h, d - 1) = At(f, d - 1))
      BY <1>1, <2>2 DEF At
    <3>4. (d + 1) - 1 = d /\ (d + 1) - 2 = d - 1 /\ d + 1 # 1 /\ (d > 1 => d + 1 > 2)
      BY <1>1, <2>2
    <3> QED
      BY <1>3, <3>2, <3>3, <3>4 DEF Placed
  <2> QED
    BY <2>1, <2>2
<1>5. \A i \in 1 .. Depth(h) : Placed(h, i)
  BY <1>1, <1>2, <1>4
<1>6. h.context = ContextAt(h.open, Depth(h))
  BY <1>2 DEF d
<1>7. 0 <= Len(h.open) /\ 0 \in Nat
  BY <1>1
<1>8. DOMAIN h = Fields /\ IsWord(h.singular) /\ h.rooted
  BY DEF Deeper
<1>9. h.accumulating = (h.skipDepth = 0 /\ HoldsText(h.open))
  BY DEF HoldsText
<1> QED
  BY <1>1, <1>5, <1>6, <1>7, <1>8, <1>9 DEF InPlace

\* A file as a handler of a start-tag finds it.
Starting(f, g, e) ==
  /\ DOMAIN g = Fields /\ g.open = Append(f.open, Opened(e)) /\ g.rooted = TRUE
  /\ g.status = "reading" /\ g.skipDepth = f.skipDepth /\ g.context = f.context
  /\ g.accumulating = f.accumulating /\ g.singular = f.singular

LEMMA PushStarts ==
  ASSUME NEW f, InPlace(f), f.status = "reading", NEW e
  PROVE  Starting(f, [Push(f, e) EXCEPT !.textEncoding = "UT_ASCII"], e)
BY DEF InPlace, Starting, Push, Fields

\* A handler keeps what it does not change.
LEMMA StartingIsDeeper ==
  ASSUME NEW f, InPlace(f), NEW e, NEW g, Starting(f, g, e), NEW h, DOMAIN h = DOMAIN g,
         h.open = g.open, h.rooted = g.rooted, h.singular \in {g.singular, << >>}
  PROVE  Deeper(f, h, e)
<1>1. << >> \in Seq({})
  OBVIOUS
<1> QED
  BY <1>1 DEF InPlace, Starting, Deeper, IsWord

\* Does the new element hold text?
LEMMA HoldsTextWithin ==
  ASSUME WellNested, NEW f, InPlace(f), NEW e \in Elements, NEW h, Deeper(f, h, e),
         f.open = << >> => e # "name"
  PROVE  HoldsText(h.open) = (/\ e \in Plain \ {"base", "dimensionless"}
                              /\ e = "name" => At(f, Len(f.open)) = "prefix")
<1>1. /\ Len(f.open) \in Nat /\ Len(h.open) = Len(f.open) + 1
      /\ h.open[Len(f.open) + 1] = Opened(e) /\ h.open # << >>
      /\ \A i \in 1 .. Len(f.open) : h.open[i] = f.open[i]
  BY DeeperInPlace
<1>2. Seqs!Last(h.open).name = e
  BY <1>1 DEF Seqs!Last, Opened
<1>3. e = "name" => Len(h.open) > 1 /\ h.open[Len(h.open) - 1].name = At(f, Len(f.open))
  <2>1. f.open # << >> => Len(f.open) # 0
    BY DEF InPlace, Stack
  <2> QED
    BY <1>1, <2>1 DEF At
<1>4. Leaves = Plain \ {"base", "dimensionless"}
  BY DEF WellNested, Plain
<1> QED
  BY <1>1, <1>2, <1>3, <1>4 DEF HoldsText

\* No text is accumulated where an element may begin.
LEMMA NoTextAround ==
  ASSUME WellNested, NEW f, InPlace(f), f.skipDepth = 0,
         f.open # << >> => /\ Len(f.open) \in Nat \ {0}
                           /\ \/ At(f, Len(f.open)) \notin Plain
                              \/ /\ At(f, Len(f.open)) = "name"
                                 /\ At(f, Len(f.open) - 1) \in {"unit", "aliases"}
  PROVE  f.accumulating = FALSE
<1>1. f.accumulating = HoldsText(f.open)
  BY DEF InPlace, HoldsText
<1>2. Leaves \subseteq Plain
  BY DEF WellNested, Plain
<1>3. HoldsText(f.open) = FALSE
  BY <1>2 DEF HoldsText, Seqs!Last, At
<1> QED
  BY <1>1, <1>3

\* What a handler that goes on makes of the file.
Goes(g, h, context, accumulating) ==
  /\ DOMAIN h = DOMAIN g /\ h.open = g.open /\ h.rooted = g.rooted
  /\ h.singular \in {g.singular, << >>} /\ h.skipDepth = g.skipDepth
  /\ h.context = context /\ h.accumulating = accumulating

LEMMA StartedGoes ==
  ASSUME NEW g, DOMAIN g = Fields, NEW e, Started(e, g).status = "reading"
  PROVE  LET h == Started(e, g)
             c == g.context
             on == g.accumulating
         IN /\ e = "unit-system" => c = "START" /\ Goes(g, h, "UNIT_SYSTEM", on)
            /\ e = "prefix" => Goes(g, h, "PREFIX", on)
            /\ e = "unit" => c = "UNIT_SYSTEM" /\ Goes(g, h, "UNIT", on)
            /\ e \in {"base", "dimensionless"} => c = "UNIT" /\ Goes(g, h, c, on)
            /\ e = "def" => c = "UNIT" /\ Goes(g, h, c, TRUE)
            /\ e = "value" => c = "PREFIX" /\ Goes(g, h, c, TRUE)
            /\ e = "name" => \/ c = "PREFIX" /\ Goes(g, h, c, TRUE)
                             \/ c = "UNIT" /\ Goes(g, h, "UNIT_NAME", on)
                             \/ c = "ALIASES" /\ Goes(g, h, "ALIAS_NAME", on)
            /\ e \in {"singular", "plural"} => Naming(g) /\ Goes(g, h, c, TRUE)
            /\ e = "symbol" => c \in {"PREFIX", "UNIT", "ALIASES"} /\ Goes(g, h, c, TRUE)
            /\ e = "aliases" => c = "UNIT" /\ Goes(g, h, "ALIASES", on)
            /\ e = "import" => c = "UNIT_SYSTEM" /\ Goes(g, h, c, TRUE)
            /\ e \notin Known => h = [g EXCEPT !.skipDepth = 1]
<1> DEFINE h == Started(e, g)
           c == g.context
           on == g.accumulating
<1>2. Stopped(g).status # "reading"
  BY DEF Stopped, Fields
<1>3. Goes(g, Accumulating(g), c, TRUE) /\ Goes(g, g, c, on)
  BY DEF Goes, Accumulating, Fields
<1>4. \A context : Goes(g, In(g, context), context, on)
  BY DEF Goes, In, Fields
<1>5. ASSUME e = "unit-system" PROVE c = "START" /\ Goes(g, h, "UNIT_SYSTEM", on)
  <2>1. h = StartUnitSystem(g)
    BY <1>5 DEF Started
  <2> QED
    BY <1>2, <1>4, <2>1 DEF StartUnitSystem
<1>6. ASSUME e = "prefix" PROVE Goes(g, h, "PREFIX", on)
  <2>1. h = StartPrefix(g)
    BY <1>6 DEF Started
  <2>2. Goes(g, In([g EXCEPT !.prefixAdded = FALSE, !.haveValue = FALSE], "PREFIX"), "PREFIX", on)
    BY DEF Goes, In, Fields
  <2> QED
    BY <1>4, <2>1, <2>2 DEF StartPrefix
<1>7. ASSUME e = "unit" PROVE c = "UNIT_SYSTEM" /\ Goes(g, h, "UNIT", on)
  <2>1. h = StartUnit(g)
    BY <1>7 DEF Started
  <2> DEFINE new == In([g EXCEPT !.unit = NoUnit, !.isBase = FALSE, !.isDimensionless = FALSE,
                    !.singular = << >>, !.plural = << >>,
                    !.nameSeen = FALSE, !.symbolSeen = FALSE], "UNIT")
  <2>2. Goes(g, new, "UNIT", on)
    BY DEF Goes, In, Fields
  <2>3. h = IF c # "UNIT_SYSTEM" THEN Stopped(g) ELSE new
    BY <2>1 DEF StartUnit
  <2> HIDE DEF new
  <2> QED
    BY <1>2, <2>2, <2>3
<1>8. ASSUME e \in {"base", "dimensionless"} PROVE c = "UNIT" /\ Goes(g, h, c, on)
  <2>1. h = IF MayDefine(g) THEN g ELSE Stopped(g)
    BY <1>8 DEF Started, StartBase, StartDimensionless
  <2> QED
    BY <1>2, <1>3, <2>1 DEF MayDefine
<1>9. ASSUME e = "def" PROVE c = "UNIT" /\ Goes(g, h, c, TRUE)
  <2>1. h = IF MayDefine(g) THEN Accumulating(g) ELSE Stopped(g)
    BY <1>9 DEF Started, StartDef
  <2> QED
    BY <1>2, <1>3, <2>1 DEF MayDefine
<1>10. ASSUME e = "value" PROVE c = "PREFIX" /\ Goes(g, h, c, TRUE)
  <2>1. h = StartValue(g)
    BY <1>10 DEF Started
  <2> QED
    BY <1>2, <1>3, <2>1 DEF StartValue
<1>11. ASSUME e = "name"
       PROVE  \/ c = "PREFIX" /\ Goes(g, h, c, TRUE)
              \/ c = "UNIT" /\ Goes(g, h, "UNIT_NAME", on)
              \/ c = "ALIASES" /\ Goes(g, h, "ALIAS_NAME", on)
  <2>1. h = StartName(g)
    BY <1>11 DEF Started
  <2> DEFINE new == [g EXCEPT !.noPlural = FALSE, !.singular = << >>, !.plural = << >>]
             named(context) == In(new, context)
  <2>2. Goes(g, named("UNIT_NAME"), "UNIT_NAME", on) /\ Goes(g, named("ALIAS_NAME"), "ALIAS_NAME", on)
    BY DEF Goes, In, Fields
  <2>3. \/ c = "PREFIX" /\ h = Accumulating(g)
        \/ c = "UNIT" /\ h = named("UNIT_NAME")
        \/ c = "ALIASES" /\ h = named("ALIAS_NAME")
        \/ h = Stopped(g)
    BY <2>1 DEF StartName
  <2> HIDE DEF named
  <2> QED
    BY <1>2, <1>3, <2>2, <2>3
<1>12. ASSUME e \in {"singular", "plural"} PROVE Naming(g) /\ Goes(g, h, c, TRUE)
  <2>1. h = StartSingular(g) \/ h = StartPlural(g)
    BY <1>12 DEF Started
  <2> QED
    BY <1>2, <1>3, <2>1 DEF StartSingular, StartPlural
<1>13. ASSUME e = "symbol" PROVE c \in {"PREFIX", "UNIT", "ALIASES"} /\ Goes(g, h, c, TRUE)
  <2>1. h = StartSymbol(g)
    BY <1>13 DEF Started
  <2> QED
    BY <1>2, <1>3, <2>1 DEF StartSymbol
<1>14. ASSUME e = "aliases" PROVE c = "UNIT" /\ Goes(g, h, "ALIASES", on)
  <2>1. h = StartAliases(g)
    BY <1>14 DEF Started
  <2> QED
    BY <1>2, <1>4, <2>1 DEF StartAliases
<1>15. ASSUME e = "import" PROVE c = "UNIT_SYSTEM" /\ Goes(g, h, c, TRUE)
  <2>1. h = StartImport(g)
    BY <1>15 DEF Started
  <2> QED
    BY <1>2, <1>3, <2>1 DEF StartImport
<1>16. e \notin Known => h = [g EXCEPT !.skipDepth = 1]
  BY DEF Started, Known
<1> QED
  BY <1>5, <1>6, <1>7, <1>8, <1>9, <1>10, <1>11, <1>12, <1>13, <1>14, <1>15, <1>16

\* The context of what a handler accepts, and whether it holds text.
LEMMA GoesInPlace ==
  ASSUME WellNested, NEW f, InPlace(f), f.skipDepth = 0, f.open # << >>,
         NEW e \in Elements, NEW g, Starting(f, g, e), NEW h, NEW context, NEW on,
         Goes(g, h, context, on), Len(f.open) \in Nat \ {0},
         LET p == At(f, Len(f.open))
         IN /\ \/ p \in {"unit-system", "prefix", "unit", "aliases"}
               \/ p = "name" /\ Len(f.open) > 1 /\ At(f, Len(f.open) - 1) \in {"unit", "aliases"}
            /\ e \in Held(p)
            /\ \/ e \in {"prefix", "unit", "aliases"} /\ context = ContextAt(<<Opened(p), Opened(e)>>, 2)
               \/ e = "name" /\ context = ContextAt(<<Opened(p), Opened(e)>>, 2)
               \/ e \in Plain \ {"name"} /\ context = f.context
            /\ on = (/\ e \in Plain \ {"base", "dimensionless"}
                     /\ e = "name" => p = "prefix")
  PROVE  InPlace(h)
<1> DEFINE d == Len(f.open)
           p == At(f, d)
<1>1. Deeper(f, h, e)
  BY StartingIsDeeper DEF Goes
<1>2. /\ h.open[d + 1] = Opened(e) /\ h.open[d] = f.open[d]
      /\ \A i \in 1 .. Depth(f) : ContextOf(h.open, i) = ContextOf(f.open, i)
  BY <1>1, DeeperInPlace
<1>3. h.open[d + 1].name = e /\ h.open[d].name = p
  BY <1>2 DEF Opened, At
<1>4. Depth(f) = d
  BY DEF Depth
<1>5. ContextAt(h.open, d + 1) = context
  <2>1. CASE e \in {"prefix", "unit", "aliases"}
    <3>1. context = (CASE e = "prefix" -> "PREFIX" [] e = "unit" -> "UNIT" [] OTHER -> "ALIASES")
      BY <2>1 DEF ContextAt, ContextOf, Opened, Plain
    <3>2. d \in Nat \ {0}
      OBVIOUS
    <3> HIDE DEF d, p
    <3>3. /\ e = "prefix" => ContextAt(h.open, d + 1) = "PREFIX"
          /\ e = "unit" => ContextAt(h.open, d + 1) = "UNIT"
          /\ e = "aliases" => ContextAt(h.open, d + 1) = "ALIASES"
      BY <1>3, <3>2, ContextWithin
    <3> QED
      BY <2>1, <3>1, <3>3
  <2>2. CASE e = "name"
    <3>1. p \in {"prefix", "unit", "aliases"}
      BY <2>2 DEF Held
    <3> DEFINE two == <<Opened(p), Opened(e)>>
    <3>2. two[1].name = p /\ two[2].name = e
      BY DEF Opened
    <3>3. context = ContextAt(two, 1 + 1)
      BY <2>2 DEF Plain
    <3> HIDE DEF two, p
    <3>4. /\ p = "prefix" => context = "PREFIX"
          /\ p = "unit" => context = "UNIT_NAME"
          /\ p = "aliases" => context = "ALIAS_NAME"
      BY <2>2, <3>2, <3>3, ContextWithin
    <3> QED
      BY <1>3, <2>2, <3>1, <3>4, ContextWithin
  <2>3. CASE e \in Plain \ {"name"}
    <3>1. context = f.context
      BY <2>3 DEF Plain
    <3>2. ContextAt(h.open, d + 1) = ContextOf(h.open, d)
      BY <1>3, <2>3, ContextWithin
    <3>3. ContextOf(h.open, d) = ContextOf(f.open, d)
      BY <1>2, <1>4
    <3>4. ContextOf(f.open, d) # "none"
      BY DEF ContextOf, At
    <3>5. f.context = ContextAt(f.open, d)
      BY <1>4 DEF InPlace
    <3> QED
      BY <3>1, <3>2, <3>3, <3>4, <3>5 DEF ContextAt
  <2> QED
    BY <2>1, <2>2, <2>3
<1>6. HoldsText(h.open) = on
  BY <1>1, HoldsTextWithin
<1>7. h.skipDepth = 0 /\ h.context = context /\ h.accumulating = on
  BY DEF Goes, Starting
<1> QED
  BY <1>1, <1>5, <1>6, <1>7, AcceptedInPlace

\* What a start-tag finds around it, and what a handler that goes on makes of the file.
LEMMA StartedInPlace ==
  ASSUME WellNested, NEW f, InPlace(f), f.skipDepth = 0, NEW e \in Elements,
         IF f.open = << >> THEN ~f.rooted /\ e \in Nesting[Root]
         ELSE e \in Nesting[Seqs!Last(f.open).name],
         NEW g, Starting(f, g, e), Started(e, g).status = "reading"
  PROVE  /\ InPlace(Started(e, g)) /\ Started(e, g).open = g.open
         /\ e \in Known => Started(e, g).skipDepth = 0
<1> DEFINE d == Len(f.open)
           h == Started(e, g)
           c == f.context
<1>1. f.open = << >> => c = "START"
  BY DEF InPlace
<1>2. f.open # << >> => d \in Nat \ {0} /\ Depth(f) = d
  BY Around
<1>3. f.open # << >> /\ e \notin {"singular", "plural"} =>
        \/ At(f, d) = "unit-system" /\ c = "UNIT_SYSTEM"
        \/ At(f, d) = "prefix" /\ c = "PREFIX"
        \/ At(f, d) = "unit" /\ c = "UNIT"
        \/ At(f, d) = "aliases" /\ c = "ALIASES"
  BY Around
<1>4. f.open # << >> /\ e \in {"singular", "plural"} /\ c \in {"UNIT_NAME", "ALIAS_NAME"} =>
        /\ At(f, d) = "name" /\ d > 1
        /\ \/ At(f, d - 1) = "unit" /\ c = "UNIT_NAME"
           \/ At(f, d - 1) = "aliases" /\ c = "ALIAS_NAME"
  BY Around DEF Naming
<1>5. /\ DOMAIN g = Fields /\ g.status = "reading" /\ g.context = c /\ g.skipDepth = 0
      /\ g.accumulating = f.accumulating /\ g.rooted = TRUE
  BY DEF Starting
<1>6. \/ f.open = << >> \/ e \notin {"singular", "plural"} \/ c \in {"UNIT_NAME", "ALIAS_NAME"}
      => g.accumulating = FALSE
  BY <1>2, <1>3, <1>4, <1>5, NoTextAround DEF Plain
<1>7. Naming(g) => c \in {"UNIT_NAME", "ALIAS_NAME"}
  BY <1>5 DEF Naming
<1>8. f.open # << >> /\ e = "prefix" => At(f, d) = "unit-system"
  <2>1. ASSUME f.open # << >>, e = "prefix" PROVE Seqs!Last(f.open).name \in DOMAIN Nesting
    <3>1. Seqs!Last(f.open).name \in Elements
      BY <2>1, Popped DEF InPlace, Stack, IsOpened
    <3> QED
      BY <3>1 DEF Elements
  <2>2. ASSUME f.open # << >>, e = "prefix"
        PROVE  At(f, d) \in {"unit-system", "prefix", "unit", "aliases"} /\ At(f, d) = Seqs!Last(f.open).name
    BY <1>3, <2>2, Around
  <2> QED
    BY <2>1, <2>2 DEF WellNested, Known
<1>9. f.open = << >> => e # "prefix"
  BY DocumentAssumption DEF WellNested, Root
<1> DEFINE on == g.accumulating
<1>10. /\ e = "unit-system" => c = "START" /\ Goes(g, h, "UNIT_SYSTEM", on)
       /\ e = "prefix" => Goes(g, h, "PREFIX", on)
       /\ e = "unit" => c = "UNIT_SYSTEM" /\ Goes(g, h, "UNIT", on)
       /\ e \in {"base", "dimensionless"} => c = "UNIT" /\ Goes(g, h, c, on)
       /\ e = "def" => c = "UNIT" /\ Goes(g, h, c, TRUE)
       /\ e = "value" => c = "PREFIX" /\ Goes(g, h, c, TRUE)
       /\ e = "name" => \/ c = "PREFIX" /\ Goes(g, h, c, TRUE)
                        \/ c = "UNIT" /\ Goes(g, h, "UNIT_NAME", on)
                        \/ c = "ALIASES" /\ Goes(g, h, "ALIAS_NAME", on)
       /\ e \in {"singular", "plural"} => Naming(g) /\ Goes(g, h, c, TRUE)
       /\ e = "symbol" => c \in {"PREFIX", "UNIT", "ALIASES"} /\ Goes(g, h, c, TRUE)
       /\ e = "aliases" => c = "UNIT" /\ Goes(g, h, "ALIASES", on)
       /\ e = "import" => c = "UNIT_SYSTEM" /\ Goes(g, h, c, TRUE)
       /\ e \notin Known => h = [g EXCEPT !.skipDepth = 1]
  BY <1>5, StartedGoes
<1>11. ASSUME e \in Known PROVE h.open = g.open /\ h.skipDepth = 0
  BY <1>5, <1>10, <1>11 DEF Known, Goes
<1>12. ASSUME e \notin Known PROVE InPlace(h) /\ h.open = g.open
  <2>1. Deeper(f, h, e) /\ h.skipDepth = 1 /\ h.context = c /\ h.accumulating = on /\ h.open = g.open
    <3>1. /\ h = [g EXCEPT !.skipDepth = 1]
      BY <1>10, <1>12
    <3> HIDE DEF h
    <3>2. /\ DOMAIN h = Fields /\ h.open = g.open /\ h.rooted = g.rooted /\ h.singular = g.singular
          /\ h.skipDepth = 1 /\ h.context = c /\ h.accumulating = on
      BY <1>5, <3>1 DEF Fields
    <3> QED
      BY <1>5, <3>2, StartingIsDeeper
  <2> HIDE DEF h, on
  <2>2. on = FALSE
    BY <1>6, <1>12 DEF Known, on
  <2>3. Depth(f) >= 1 => At(f, Depth(f)) \notin Plain
    <3>1. f.open = << >> => ~(Depth(f) >= 1)
      BY DEF Depth
    <3> QED
      BY <1>2, <1>3, <1>12, <3>1 DEF Known, Plain
  <2>4. h.skipDepth = f.skipDepth + 1 /\ h.context = f.context /\ h.accumulating = FALSE
    BY <2>1, <2>2
  <2>5. InPlace(h)
    BY <2>1, <2>3, <2>4, SkippedInPlace
  <2> QED
    BY <2>1, <2>5 DEF h
<1>13. CASE f.open = << >>
  <2>1. e \in Known => e = "unit-system"
    BY <1>1, <1>9, <1>10, <1>7, <1>13 DEF Known
  <2>2. ASSUME e = "unit-system" PROVE InPlace(h)
    <3>1. Goes(g, h, "UNIT_SYSTEM", on)
      BY <1>10, <2>2
    <3> HIDE DEF h
    <3>2. on = FALSE
      BY <1>6, <1>13
    <3>3. Deeper(f, h, e)
      BY <3>1, StartingIsDeeper DEF Goes
    <3>4. HoldsText(h.open) = FALSE
      BY <2>2, <3>3, HoldsTextWithin DEF Plain
    <3>5. Len(f.open) = 0 /\ h.open[1] = Opened(e)
      BY <1>13, <3>3, DeeperInPlace
    <3>6. ContextAt(h.open, 1) = "UNIT_SYSTEM"
      BY <2>2, <3>5 DEF ContextAt, ContextOf, Opened
    <3>7. h.context = "UNIT_SYSTEM" /\ h.accumulating = FALSE /\ h.skipDepth = 0
      BY <1>5, <3>1, <3>2 DEF Goes
    <3>8. h.context = ContextAt(h.open, Len(f.open) + 1)
      BY <3>5, <3>6, <3>7
    <3>9. h.accumulating = HoldsText(h.open)
      BY <3>4, <3>7
    <3> QED
      BY <1>13, <2>2, <3>3, <3>7, <3>8, <3>9, AcceptedInPlace
  <2> QED
    BY <1>11, <1>12, <2>1, <2>2
<1>14. CASE f.open # << >> /\ e \in Known
  <2> DEFINE p == At(f, d)
             within == ContextAt(<<Opened(p), Opened(e)>>, 2)
             holds == (/\ e \in Plain \ {"base", "dimensionless"}
                       /\ e = "name" => p = "prefix")
  <2>1. /\ e = "prefix" => within = "PREFIX"
        /\ e = "unit" => within = "UNIT"
        /\ e = "aliases" => within = "ALIASES"
        /\ e = "name" /\ p = "unit" => within = "UNIT_NAME"
        /\ e = "name" /\ p = "aliases" => within = "ALIAS_NAME"
        /\ e = "name" /\ p = "prefix" => within = "PREFIX"
    BY DEF ContextAt, ContextOf, Opened
  <2>2. /\ c = "UNIT_SYSTEM" /\ e \notin {"singular", "plural"} => p = "unit-system"
        /\ c = "PREFIX" /\ e \notin {"singular", "plural"} => p = "prefix"
        /\ c = "UNIT" /\ e \notin {"singular", "plural"} => p = "unit"
        /\ c = "ALIASES" /\ e \notin {"singular", "plural"} => p = "aliases"
        /\ c # "START" \/ e \in {"singular", "plural"}
    BY <1>3, <1>14
  <2>3. g.accumulating = FALSE
    BY <1>6, <1>7, <1>10
  <2> HIDE DEF within, p, on, h
  <2>4. \E context : Goes(g, h, context, holds) /\ e \in Held(p)
         /\ \/ e \in {"prefix", "unit", "aliases", "name"} /\ context = within
            \/ e \in Plain \ {"name"} /\ context = c
    <3>1. holds \in BOOLEAN
      OBVIOUS
    <3>2. CASE e \in {"prefix", "unit", "aliases"}
      BY <1>8, <1>10, <1>14, <2>1, <2>2, <2>3, <3>2 DEF Held, Plain, on, p
    <3>3. CASE e = "name"
      BY <1>10, <2>1, <2>2, <2>3, <3>3 DEF Held, Plain, on
    <3>4. CASE e \in {"base", "dimensionless"}
      BY <1>10, <2>2, <2>3, <3>4 DEF Held, Plain, on
    <3>5. CASE e \in {"def", "value", "symbol", "import"}
      BY <1>10, <2>2, <2>3, <3>5 DEF Held, Plain, on
    <3>6. CASE e \in {"singular", "plural"}
      BY <1>4, <1>7, <1>10, <1>14, <3>6 DEF Held, Plain, on, p
    <3>7. e # "unit-system"
      BY <1>3, <1>10, <1>14
    <3> QED
      BY <1>14, <3>2, <3>3, <3>4, <3>5, <3>6, <3>7 DEF Known
  <2>5. \/ p \in {"unit-system", "prefix", "unit", "aliases"}
        \/ p = "name" /\ Len(f.open) > 1 /\ At(f, Len(f.open) - 1) \in {"unit", "aliases"}
    BY <1>3, <1>4, <1>7, <1>10, <1>14 DEF p
  <2>6. InPlace(h)
    BY <1>2, <1>14, <2>4, <2>5, GoesInPlace DEF p, within
  <2> QED
    BY <1>11, <1>14, <2>6 DEF h
<1> QED
  BY <1>12, <1>13, <1>14
-----------------------------------------------------------------------------
(* Elements that end.                                                      *)

\* What a handler of an end-tag leaves of a file, if it goes on.
Ends(f, h, context) ==
  /\ DOMAIN h = Fields /\ h.open = f.open /\ h.rooted = f.rooted
  /\ h.skipDepth = f.skipDepth /\ h.context = context

LEMMA EndedEnds ==
  ASSUME NEW f, DOMAIN f = Fields, f.skipDepth = 0, f.status = "reading", NEW e, NEW s,
         Ended(e, f, s).file.status = "reading"
  PROVE  LET h == Ended(e, f, s).file
             c == f.context
         IN /\ e \in {"prefix", "unit"} => Ends(f, h, "UNIT_SYSTEM")
            /\ e = "aliases" => Ends(f, h, "UNIT")
            /\ e = "name" => /\ c = "UNIT_NAME" => Ends(f, h, "UNIT")
                             /\ c = "ALIAS_NAME" => Ends(f, h, "ALIASES")
                             /\ c = "PREFIX" => Ends(f, h, c)
            /\ e \in (Plain \ {"name", "import"}) \cup {"unit-system"} => Ends(f, h, c)
            /\ e = "singular" => h.singular = text
            /\ e # "singular" /\ (e = "name" => c \in {"UNIT_NAME", "ALIAS_NAME", "PREFIX"}) =>
                 h.singular = f.singular
<1> DEFINE h == Ended(e, f, s).file
           c == f.context
           Right(context) == Ends(f, h, context) /\ h.singular = f.singular
<1>1. Stopped(f).status # "reading"
  BY DEF Stopped, Fields
<1>2. ~(f.skipDepth > 0)
  OBVIOUS
<1>3. Ends(f, f, c)
  BY DEF Ends
<1>4. \A outcome, x : IfMapped(outcome, x).file \in {x, Stopped(x)}
  BY DEF IfMapped, After
<1>5. \A x, y : After(x, y).file = x
  BY DEF After
<1>6. ASSUME NEW kind, EndPrefixId(f, s, kind).file.status = "reading"
      PROVE  Ends(f, EndPrefixId(f, s, kind).file, c) /\ EndPrefixId(f, s, kind).file.singular = f.singular
  <2> DEFINE x == [f EXCEPT !.prefixAdded = TRUE]
  <2>1. Stopped(x).status # "reading" /\ Ends(f, x, c) /\ x.singular = f.singular
    BY DEF Stopped, Fields, Ends
  <2>2. EndPrefixId(f, s, kind).file \in {x, Stopped(x)}
    BY <1>4 DEF EndPrefixId
  <2> QED
    BY <1>6, <2>1, <2>2
<1>7. ASSUME e = "prefix" PROVE Right("UNIT_SYSTEM")
  <2>1. h = EndPrefix(f, s).file
    BY <1>2, <1>7 DEF Ended
  <2> DEFINE x == In([f EXCEPT !.haveValue = FALSE], "UNIT_SYSTEM")
  <2>2. Ends(f, x, "UNIT_SYSTEM") /\ x.singular = f.singular
    BY DEF Ends, In, Fields
  <2>3. h \in {x, Stopped(f)}
    BY <1>5, <2>1 DEF EndPrefix
  <2> QED
    BY <1>1, <2>2, <2>3
<1>8. ASSUME e = "unit" PROVE Right("UNIT_SYSTEM")
  <2>1. h = EndUnit(f, s).file
    BY <1>2, <1>8 DEF Ended
  <2> DEFINE x == In([f EXCEPT !.unit = NoUnit], "UNIT_SYSTEM")
  <2>2. Ends(f, x, "UNIT_SYSTEM") /\ x.singular = f.singular
    BY DEF Ends, In, Fields
  <2>3. h \in {x, Stopped(f)}
    BY <1>5, <2>1 DEF EndUnit
  <2> QED
    BY <1>1, <2>2, <2>3
<1>9. ASSUME e = "aliases" PROVE Right("UNIT")
  <2>1. h = In(f, "UNIT")
    BY <1>2, <1>5, <1>9 DEF Ended, EndAliases
  <2> QED
    BY <2>1 DEF Ends, In, Fields
<1>10. ASSUME e = "name", c = "UNIT_NAME" PROVE Right("UNIT")
  <2>1. h = EndUnitName(f, s).file
    BY <1>2, <1>10 DEF Ended, EndName
  <2> DEFINE x == In([f EXCEPT !.nameSeen = TRUE], "UNIT")
  <2>2. Ends(f, x, "UNIT") /\ x.singular = f.singular /\ Stopped(x).status # "reading"
    BY DEF Ends, In, Fields, Stopped
  <2>3. h \in {x, Stopped(x), Stopped(f)}
    BY <1>4, <1>5, <2>1 DEF EndUnitName
  <2> QED
    BY <1>1, <2>2, <2>3
<1>11. ASSUME e = "name", c = "ALIAS_NAME" PROVE Right("ALIASES")
  <2>1. h = EndAliasName(f, s).file
    BY <1>2, <1>11 DEF Ended, EndName
  <2> DEFINE x == In(f, "ALIASES")
  <2>2. Ends(f, x, "ALIASES") /\ x.singular = f.singular /\ Stopped(x).status # "reading"
    BY DEF Ends, In, Fields, Stopped
  <2>3. h \in {x, Stopped(x), Stopped(f)}
    BY <1>4, <1>5, <2>1 DEF EndAliasName
  <2> QED
    BY <1>1, <2>2, <2>3
<1>12. ASSUME e = "name", c = "PREFIX" PROVE Right(c)
  <2>1. h = EndPrefixId(f, s, "name").file
    BY <1>2, <1>12 DEF Ended, EndName
  <2>2. EndPrefixId(f, s, "name").file.status = "reading"
    BY <2>1
  <2>3. Ends(f, EndPrefixId(f, s, "name").file, c) /\ EndPrefixId(f, s, "name").file.singular = f.singular
    BY <1>6, <2>2
  <2> HIDE DEF h
  <2> QED
    BY <2>1, <2>3
<1>13. ASSUME e \in {"base", "dimensionless"} PROVE Right(c)
  <2>1. h = EndBase(f, s).file \/ h = EndDimensionless(f, s).file
    BY <1>2, <1>13 DEF Ended
  <2>2. \/ h = [f EXCEPT !.unit = Basic("base", s.bases + 1), !.isBase = TRUE]
        \/ h = [f EXCEPT !.unit = Basic("dimensionless", s.dimensionless + 1), !.isDimensionless = TRUE]
    BY <1>5, <2>1 DEF EndBase, EndDimensionless
  <2> QED
    BY <2>2 DEF Ends, Fields
<1>14. ASSUME e = "def" PROVE Right(c)
  <2>1. h = EndDef(f, s).file
    BY <1>2, <1>14 DEF Ended
  <2>2. h \in {[f EXCEPT !.unit = Parsed(s, text)], Stopped(f)}
    BY <1>5, <2>1 DEF EndDef
  <2> QED
    BY <1>1, <2>2 DEF Ends, Fields
<1>15. ASSUME e = "value" PROVE Right(c)
  <2>1. h = EndValue(f, s).file
    BY <1>2, <1>15 DEF Ended
  <2>2. h \in {[f EXCEPT !.haveValue = TRUE, !.value = text], Stopped(f)}
    BY <1>5, <2>1 DEF EndValue
  <2> QED
    BY <1>1, <2>2 DEF Ends, Fields
<1>16. ASSUME e = "singular" PROVE Ends(f, h, c) /\ h.singular = text
  <2>1. h = [f EXCEPT !.singular = text]
    BY <1>2, <1>5, <1>16 DEF Ended, EndSingular
  <2> QED
    BY <2>1 DEF Ends, Fields
<1>17. ASSUME e = "plural" PROVE Right(c)
  <2>1. h = EndPlural(f, s).file
    BY <1>2, <1>17 DEF Ended
  <2>2. h \in {[f EXCEPT !.plural = text], Stopped(f)}
    BY <1>5, <2>1 DEF EndPlural
  <2> QED
    BY <1>1, <2>2 DEF Ends, Fields
<1>18. ASSUME e = "symbol" PROVE Right(c)
  <2>1. h = EndSymbol(f, s).file
    BY <1>2, <1>18 DEF Ended
  <2> DEFINE x == [f EXCEPT !.symbolSeen = TRUE]
  <2>2. Ends(f, x, c) /\ x.singular = f.singular /\ Stopped(x).status # "reading"
    BY DEF Ends, Fields, Stopped
  <2>3. h \in {x, Stopped(x), f, Stopped(f)} \/ h = EndPrefixId(f, s, "symbol").file
    BY <1>4, <1>5, <2>1 DEF EndSymbol
  <2> QED
    BY <1>1, <1>3, <1>6, <2>2, <2>3
<1>19. ASSUME e = "unit-system" PROVE Right(c)
  <2>1. h = f
    BY <1>2, <1>5, <1>19 DEF Ended
  <2> QED
    BY <1>3, <2>1
<1>20. ASSUME e \notin Known \ {"import"} PROVE FALSE
  <2>1. h = Stopped(f)
    BY <1>2, <1>5, <1>20 DEF Ended, Known
  <2> QED
    BY <1>1, <2>1
<1> QED
  <2>1. /\ e \in {"prefix", "unit"} => Right("UNIT_SYSTEM")
        /\ e = "aliases" => Right("UNIT")
        /\ e = "name" => /\ c = "UNIT_NAME" => Right("UNIT")
                         /\ c = "ALIAS_NAME" => Right("ALIASES")
                         /\ c = "PREFIX" => Right(c)
        /\ e \in (Plain \ {"name", "import", "singular"}) \cup {"unit-system"} => Right(c)
    BY <1>7, <1>8, <1>9, <1>10, <1>11, <1>12, <1>13, <1>14, <1>15, <1>17, <1>18, <1>19 DEF Plain
  <2> QED
    BY <1>16, <1>20, <2>1 DEF Plain, Known

\* The context around an element that ends is what it was before.
LEMMA EndedInPlace ==
  ASSUME WellNested, NEW f, InPlace(f), f.status = "reading", f.open # << >>, NEW s,
         f.accumulating => IsWord(text),
         LET e == Seqs!Last(f.open).name
         IN /\ e = "import" => f.skipDepth > 0
            /\ Ended(e, f, s).file.status = "reading"
  PROVE  InPlace(IgnoreText(Pop(Ended(Seqs!Last(f.open).name, f, s).file)))
<1> DEFINE e == Seqs!Last(f.open).name
           h == Ended(e, f, s).file
           g == IgnoreText(Pop(h))
           n == Len(f.open)
           d == Depth(f)
<1>1. /\ Stack(Seqs!Front(f.open)) /\ n \in Nat \ {0} /\ Len(Seqs!Front(f.open)) = n - 1
      /\ e = At(f, n) /\ \A i \in 1 .. n - 1 : Seqs!Front(f.open)[i] = f.open[i]
  BY Popped DEF InPlace, At
<1>2. DOMAIN f = Fields /\ f.skipDepth \in Nat /\ f.skipDepth <= n /\ d \in Nat /\ d = n - f.skipDepth
      /\ \A i \in 1 .. d : Placed(f, i)
  <2>1. DOMAIN f = Fields /\ f.skipDepth \in Nat /\ f.skipDepth <= n /\ d = n - f.skipDepth
    BY DEF InPlace, Depth
  <2>2. d \in Nat
    BY <1>1, <2>1
  <2> QED
    BY <2>1, <2>2 DEF InPlace
<1>3. f.rooted
  BY DEF InPlace
<1>4. d >= 1 => f.context = ContextAt(f.open, d)
  BY DEF InPlace
<1> HIDE DEF e, n, d
<1>5. CASE f.skipDepth > 0
  <2>1. h = [f EXCEPT !.skipDepth = @ - 1]
    BY <1>5 DEF Ended, After
  <2> HIDE DEF h
  <2>2. /\ DOMAIN g = Fields /\ g.open = Seqs!Front(f.open) /\ g.skipDepth = f.skipDepth - 1
        /\ g.context = f.context /\ g.rooted = f.rooted /\ g.accumulating = FALSE
        /\ g.singular = f.singular
    BY <1>2, <2>1 DEF IgnoreText, Pop, Fields
  <2> HIDE DEF g
  <2>3. Len(g.open) = n - 1 /\ g.skipDepth \in Nat /\ g.skipDepth <= Len(g.open) /\ Depth(g) = d /\ d <= n - 1
    <3>1. Len(g.open) = n - 1 /\ f.skipDepth \in Nat /\ f.skipDepth <= n /\ n \in Nat \ {0}
          /\ d = n - f.skipDepth
      BY <1>1, <1>2, <2>2
    <3>2. Depth(g) = (n - 1) - (f.skipDepth - 1)
      BY <2>2, <3>1 DEF Depth
    <3> QED
      BY <1>5, <2>2, <3>1, <3>2
  <2>4. \A i \in 1 .. d : g.open[i] = f.open[i]
    BY <1>1, <1>2, <2>2, <2>3
  <2>5. \A i \in 1 .. d : Placed(g, i) /\ ContextOf(g.open, i) = ContextOf(f.open, i)
    <3>1. d \in Nat /\ SameNames(f, g, d) /\ AllPlaced(f, d)
      BY <1>2, <2>4 DEF SameNames, AllPlaced
    <3>2. AllPlaced(g, d) /\ SameContexts(f, g, d)
      BY <3>1, StaysPlaced
    <3> QED
      BY <3>2 DEF AllPlaced, SameContexts
  <2>6. d >= 1 => g.context = ContextAt(g.open, d) /\ At(g, d) \notin Plain
    <3>1. ASSUME d >= 1 PROVE At(f, d) \notin Plain
      BY <1>5, <3>1 DEF InPlace, d
    <3>2. ASSUME d >= 1 PROVE ContextOf(f.open, d) = ContextOf(g.open, d) /\ At(g, d) = At(f, d)
      BY <1>2, <2>4, <2>5, <3>2 DEF At
    <3>3. ASSUME d > 1 PROVE ContextOf(f.open, d - 1) = ContextOf(g.open, d - 1)
      BY <1>2, <2>5, <3>3
    <3>4. ASSUME d = 1 PROVE ContextOf(f.open, d) # "none"
      <4>1. Placed(f, 1)
        BY <1>2, <3>4
      <4> QED
        BY <3>4, <4>1 DEF Placed, ContextOf, At
    <3> QED
      BY <1>2, <1>4, <2>2, <3>1, <3>2, <3>3, <3>4 DEF ContextAt
  <2>7. g.skipDepth = 0 => HoldsText(g.open) = FALSE
    <3>1. ASSUME g.skipDepth = 0, g.open # << >> PROVE At(g, d) \notin Leaves /\ d = Len(g.open)
      <4>1. d = Len(g.open)
        BY <2>3, <3>1 DEF Depth
      <4>2. d # 0
        <5>1. PICK S : g.open \in Seq(S)
          BY <1>1, <2>2 DEF Stack
        <5> QED
          BY <3>1, <4>1, <5>1
      <4>3. Leaves \subseteq Plain
        BY DEF WellNested, Plain
      <4> QED
        BY <1>2, <2>6, <4>1, <4>2, <4>3
    <3> QED
      BY <3>1 DEF HoldsText, Seqs!Last, At
  <2>8. g.accumulating = (g.skipDepth = 0 /\ HoldsText(g.open))
    BY <2>2, <2>7
  <2> QED
    <3>1. IsWord(g.singular) /\ Stack(g.open) /\ g.rooted
      BY <1>1, <1>3, <2>2 DEF InPlace
    <3>2. InPlace(g)
      BY <2>2, <2>3, <2>5, <2>6, <2>8, <3>1 DEF InPlace
    <3> QED
      BY <3>2 DEF g, h, e
<1>6. CASE f.skipDepth = 0
  <2> DEFINE c == f.context
             p == At(f, d - 1)
  <2>1. d = n /\ e = At(f, d) /\ d \in Nat \ {0} /\ Placed(f, d) /\ c = ContextAt(f.open, d)
    BY <1>1, <1>2, <1>4, <1>6
  <2>2. d = 1 => e = "unit-system"
    BY <2>1 DEF Placed
  <2>3. d # 1 => e \in Held(p) /\ (p = "name" => d > 2 /\ At(f, d - 2) \in {"unit", "aliases"})
    BY <2>1 DEF Placed
  <2>4. d # 1 => /\ p \in {"prefix", "unit", "aliases", "unit-system"} => ContextOf(f.open, d - 1) # "none"
                 /\ p = "unit-system" => ContextOf(f.open, d - 1) = "UNIT_SYSTEM"
                 /\ p = "prefix" => ContextOf(f.open, d - 1) = "PREFIX"
                 /\ p = "unit" => ContextOf(f.open, d - 1) = "UNIT"
                 /\ p = "aliases" => ContextOf(f.open, d - 1) = "ALIASES"
                 /\ p = "name" => ContextOf(f.open, d - 1) \in {"UNIT_NAME", "ALIAS_NAME"}
    <3>1. d # 1 /\ p = "name" => d - 1 > 1 /\ (d - 1) - 1 = d - 2
      BY <2>1, <2>3
    <3> QED
      BY <2>3, <3>1 DEF ContextOf, At
  <2>5. ASSUME d # 1
        PROVE  /\ e \in Plain \ {"name"} => c = ContextOf(f.open, d - 1)
               /\ e = "name" /\ p = "unit" => c = "UNIT_NAME"
               /\ e = "name" /\ p = "aliases" => c = "ALIAS_NAME"
               /\ e = "name" /\ p = "prefix" => c = "PREFIX"
    <3>1. d - 1 \in Nat \ {0} /\ (d - 1) + 1 = d
      BY <2>1, <2>5
    <3>2. f.open[d].name = e /\ f.open[d - 1].name = p
      BY <2>1 DEF At
    <3> QED
      BY <2>1, <3>1, <3>2, ContextWithin
  <2> HIDE DEF p, c
  <2>6. h.status = "reading" /\ e # "import"
    BY <1>6 DEF e
  <2>7. /\ e \in {"prefix", "unit"} => Ends(f, h, "UNIT_SYSTEM")
        /\ e = "aliases" => Ends(f, h, "UNIT")
        /\ e = "name" => /\ c = "UNIT_NAME" => Ends(f, h, "UNIT")
                         /\ c = "ALIAS_NAME" => Ends(f, h, "ALIASES")
                         /\ c = "PREFIX" => Ends(f, h, c)
        /\ e \in (Plain \ {"name", "import"}) \cup {"unit-system"} => Ends(f, h, c)
        /\ e = "singular" => h.singular = text
        /\ e # "singular" /\ (e = "name" => c \in {"UNIT_NAME", "ALIAS_NAME", "PREFIX"}) =>
             h.singular = f.singular
    BY <1>2, <1>6, <2>6, EndedEnds DEF c
  <2> HIDE DEF h
  <2>8. \E context : Ends(f, h, context) /\ (d # 1 => context = ContextOf(f.open, d - 1))
    <3>1. CASE d = 1
      BY <2>2, <2>7, <3>1
    <3>2. CASE d # 1
      <4>1. p \in {"prefix", "unit", "aliases", "unit-system", "name"}
        BY <2>3, <3>2 DEF Held
      <4>2. CASE p = "unit-system"
        BY <2>3, <2>4, <2>6, <2>7, <3>2, <4>2 DEF Held
      <4>3. CASE p = "prefix"
        BY <2>3, <2>4, <2>5, <2>7, <3>2, <4>3 DEF Held, Plain
      <4>4. CASE p = "unit"
        BY <2>3, <2>4, <2>5, <2>7, <3>2, <4>4 DEF Held, Plain
      <4>5. CASE p = "aliases"
        BY <2>3, <2>4, <2>5, <2>7, <3>2, <4>5 DEF Held, Plain
      <4>6. CASE p = "name"
        BY <2>3, <2>4, <2>5, <2>7, <3>2, <4>6 DEF Held, Plain
      <4> QED
        BY <4>1, <4>2, <4>3, <4>4, <4>5, <4>6
    <3> QED
      BY <3>1, <3>2
  <2>9. IsWord(h.singular)
    <3>1. e = "singular" => f.accumulating
      <4>1. "singular" \in Leaves
        BY DEF WellNested
      <4> QED
        BY <1>6, <4>1 DEF InPlace, HoldsText, e
    <3>2. e = "name" => c \in {"UNIT_NAME", "ALIAS_NAME", "PREFIX"}
      BY <2>2, <2>3, <2>5 DEF Held
    <3> QED
      BY <2>7, <3>1, <3>2 DEF InPlace
  <2>10. PICK context : Ends(f, h, context) /\ (d # 1 => context = ContextOf(f.open, d - 1))
    BY <2>8
  <2>11. /\ DOMAIN g = Fields /\ g.open = Seqs!Front(f.open) /\ g.skipDepth = 0
         /\ g.context = context /\ g.rooted = f.rooted /\ g.accumulating = FALSE
         /\ g.singular = h.singular
    BY <1>6, <2>10 DEF Ends, IgnoreText, Pop, Fields
  <2> HIDE DEF g
  <2>12. Len(g.open) = d - 1 /\ Depth(g) = d - 1 /\ d - 1 \in Nat
    <3>1. Len(g.open) = d - 1 /\ d - 1 \in Nat
      BY <1>1, <2>1, <2>11
    <3> QED
      BY <2>11, <3>1 DEF Depth
  <2> DEFINE m == d - 1
  <2>13. \A i \in 1 .. m : g.open[i] = f.open[i]
    BY <1>1, <2>1, <2>11
  <2>14. \A i \in 1 .. m : Placed(g, i) /\ ContextOf(g.open, i) = ContextOf(f.open, i)
    <3>1. m \in Nat /\ SameNames(f, g, m) /\ AllPlaced(f, m)
      BY <1>2, <2>1, <2>13 DEF SameNames, AllPlaced
    <3> HIDE DEF m
    <3>2. AllPlaced(g, m) /\ SameContexts(f, g, m)
      BY <3>1, StaysPlaced
    <3> QED
      BY <3>2 DEF AllPlaced, SameContexts
  <2>15. ASSUME m >= 1
         PROVE  /\ g.context = ContextAt(g.open, m)
                /\ At(g, m) \notin Leaves \/ (At(g, m) = "name" /\ m > 1 /\ At(g, m - 1) \in {"unit", "aliases"})
    <3>1. d # 1 /\ m \in 1 .. m /\ (m > 1 => m - 1 \in 1 .. m) /\ m - 1 = d - 2
      BY <2>1, <2>15
    <3>2. ContextOf(g.open, m) = ContextOf(f.open, m) /\ At(g, m) = p /\ (m > 1 => At(g, m - 1) = At(f, d - 2))
      BY <2>13, <2>14, <3>1 DEF At, p
    <3>3. ContextOf(f.open, m) # "none"
      BY <2>3, <2>4, <3>1 DEF Held
    <3>4. p \notin Leaves \/ (p = "name" /\ m > 1 /\ At(f, d - 2) \in {"unit", "aliases"})
      <4>1. p \in {"prefix", "unit", "aliases", "unit-system", "name"}
        BY <2>3, <3>1 DEF Held
      <4>2. Leaves \subseteq Plain
        BY DEF WellNested, Plain
      <4>3. p = "name" => m > 1 /\ At(f, d - 2) \in {"unit", "aliases"}
        BY <2>1, <2>3, <3>1
      <4> QED
        BY <4>1, <4>2, <4>3 DEF Plain
    <3> QED
      BY <2>10, <2>11, <3>1, <3>2, <3>3, <3>4 DEF ContextAt
  <2>16. HoldsText(g.open) = FALSE
    <3>1. CASE g.open = << >>
      BY <3>1 DEF HoldsText
    <3>2. CASE g.open # << >>
      <4>1. m = Len(g.open) /\ m >= 1
        <5>1. PICK S : g.open \in Seq(S)
          BY <1>1, <2>11 DEF Stack
        <5> QED
          BY <2>12, <3>2, <5>1
      <4> QED
        BY <2>15, <4>1 DEF HoldsText, Seqs!Last, At
    <3> QED
      BY <3>1, <3>2
  <2>17. g.accumulating = (g.skipDepth = 0 /\ HoldsText(g.open))
    BY <2>11, <2>16
  <2>18. Stack(g.open) /\ g.skipDepth \in Nat /\ g.skipDepth <= Len(g.open) /\ g.skipDepth = 0
    BY <1>1, <2>11, <2>12
  <2> QED
    <3>1. IsWord(g.singular) /\ g.rooted /\ ~(g.skipDepth > 0)
      BY <1>3, <2>9, <2>11
    <3>2. InPlace(g)
      BY <2>11, <2>12, <2>14, <2>15, <2>17, <2>18, <3>1 DEF InPlace
    <3> QED
      BY <3>2 DEF g, h, e
<1> QED
  BY <1>2, <1>5, <1>6
-----------------------------------------------------------------------------
(* Every file stays in its place.                                          *)

\* A step of the last file.
LEMMA BecomesInPlace ==
  ASSUME XInv, DocumentsInPlace, Reading, NEW f, "status" \in DOMAIN f, Becomes(f), phase' = phase,
         f.status = "reading" =>
           InPlace(f) /\ (f.accumulating => text' = Seqs!Last(f.open).chars)
  PROVE  DocumentsInPlace'
<1> DEFINE new == IF f.status = "reading" THEN f ELSE [FileInit(FALSE) EXCEPT !.status = f.status]
<1>1. new.status = f.status /\ (f.status = "reading" => new = f)
  BY DEF FileInit
<1>2. files' = Append(Seqs!Front(files), new)
  BY DEF Becomes, Parent
<1> HIDE DEF new
<1>3. files # << >> /\ \E S : files \in Seq(S)
  BY DEF Reading, XInv, FilesInOrder
<1>4. PICK S : files \in Seq(S)
  BY <1>3
<1>5. ReplacedBy(files, new, files')
  BY <1>2, <1>3, <1>4, Replaced
<1>6. currFile' = new
  BY <1>5 DEF currFile, Seqs!Last, ReplacedBy
<1>7. \A i \in 1 .. Len(files') : files'[i].status = "reading" => InPlace(files'[i])
  <2> TAKE i \in 1 .. Len(files')
  <2>1. CASE i = Len(files)
    BY <1>1, <1>5, <2>1 DEF ReplacedBy
  <2>2. CASE i # Len(files)
    <3>1. i \in 1 .. Len(files) - 1 /\ i \in 1 .. Len(files)
      BY <1>5, <2>2 DEF ReplacedBy
    <3>2. files'[i] = files[i]
      BY <1>5, <3>1 DEF ReplacedBy
    <3> QED
      BY <3>1, <3>2 DEF DocumentsInPlace
  <2> QED
    BY <2>1, <2>2
<1>8. \A i \in 1 .. Len(files') - 1 : Importing(files'[i])
  BY <1>5 DEF ReplacedBy, DocumentsInPlace
<1>9. Reading' /\ currFile'.accumulating => text' = Seqs!Last(currFile'.open).chars
  BY <1>1, <1>6 DEF Reading
<1> QED
  BY <1>7, <1>8, <1>9 DEF DocumentsInPlace

LEMMA CurrentInPlace ==
  ASSUME XInv, DocumentsInPlace, Reading
  PROVE  InPlace(currFile) /\ currFile.status = "reading" /\ Read(currFile)
<1>1. Read(currFile) /\ files # << >>
  BY ReadingInOrder
<1>2. Len(files) \in 1 .. Len(files)
  BY <1>1 DEF XInv, FilesInOrder
<1> QED
  BY <1>1, <1>2 DEF Read, DocumentsInPlace, currFile, Seqs!Last

LEMMA ContentIsWords ==
  ASSUME WellNested, NEW e \in Leaves, NEW word \in Content[e]
  PROVE  IsWord(word)
<1>1. Len(word) \in Nat /\ word = [ i \in 1 .. Len(word) |-> word[i] ]
  BY DEF WellNested
<1> DEFINE S == { word[i] : i \in 1 .. Len(word) }
<1>2. \A i \in 1 .. Len(word) : word[i] \in S
  OBVIOUS
<1> HIDE DEF S
<1>3. word \in Seq(S)
  BY <1>1, <1>2
<1> QED
  BY <1>3 DEF IsWord

LEMMA StartElementInPlace ==
  ASSUME WellNested, XInv, DocumentsInPlace, NEW e \in Elements, StartElement(e)
  PROVE  DocumentsInPlace'
<1> DEFINE c == currFile
           f == Push(c, e)
           g == [f EXCEPT !.textEncoding = "UT_ASCII"]
           skipped == [f EXCEPT !.skipDepth = @ + 1]
<1>1. Reading /\ phase' = phase
  BY DEF StartElement, StartTag, Begun
<1>2. InPlace(c) /\ c.status = "reading"
  BY <1>1, CurrentInPlace
<1>3. e \in Nesting[Innermost] /\ (c.open = << >> => ~c.rooted)
  BY DEF StartElement, StartTag, Begun
<1>4. \/ c.skipDepth > 0 /\ Becomes(skipped)
      \/ ~(c.skipDepth > 0) /\ Becomes(Started(e, g)) /\ text' = << >>
  <2>1. f.skipDepth = c.skipDepth
    BY <1>2 DEF Push, InPlace, Fields
  <2> QED
    BY <2>1 DEF StartElement, StartTag, Begun
<1>5. CASE c.skipDepth > 0 /\ Becomes(skipped)
  <2>1. DOMAIN skipped = Fields /\ skipped.status = "reading"
    BY <1>2 DEF InPlace, Push, Fields
  <2>2. /\ skipped.open = Append(c.open, Opened(e)) /\ skipped.rooted = TRUE
        /\ skipped.singular = c.singular /\ skipped.skipDepth = c.skipDepth + 1
        /\ skipped.context = c.context /\ skipped.accumulating = c.accumulating
    BY <1>2 DEF InPlace, Push, Fields
  <2> HIDE DEF skipped
  <2>3. c.accumulating = FALSE
    <3>1. c.skipDepth # 0
      BY <1>5
    <3>2. c.accumulating = (c.skipDepth = 0 /\ HoldsText(c.open))
      BY <1>2 DEF InPlace
    <3> QED
      BY <3>1, <3>2
  <2>4. Deeper(c, skipped, e)
    BY <1>2, <2>1, <2>2 DEF Deeper, InPlace
  <2>5. Depth(c) >= 1 => At(c, Depth(c)) \notin Plain
    BY <1>2, <1>5 DEF InPlace
  <2>6. InPlace(skipped) /\ ~skipped.accumulating
    BY <1>2, <2>2, <2>3, <2>4, <2>5, SkippedInPlace
  <2>7. "status" \in DOMAIN skipped
    BY <2>1 DEF Fields
  <2> HIDE DEF c
  <2> QED
    BY <1>1, <1>5, <2>6, <2>7, BecomesInPlace
<1>6. CASE ~(c.skipDepth > 0) /\ Becomes(Started(e, g)) /\ text' = << >>
  <2>1. c.skipDepth = 0
    BY <1>2, <1>6 DEF InPlace
  <2>2. Starting(c, g, e)
    BY <1>2, PushStarts
  <2>3. Read(g)
    BY <2>2 DEF Starting, Read, Fields
  <2> HIDE DEF g
  <2> DEFINE h == Started(e, g)
  <2>4. "status" \in DOMAIN h
    BY <2>3, StartedHandles DEF Handled
  <2>5. IF c.open = << >> THEN ~c.rooted /\ e \in Nesting[Root] ELSE e \in Nesting[Seqs!Last(c.open).name]
    BY <1>3 DEF Innermost
  <2>6. h.status = "reading" => InPlace(h) /\ h.open = g.open
    <3> HIDE DEF c
    <3> QED
      BY <1>2, <2>1, <2>2, <2>5, StartedInPlace
  <2>7. Seqs!Last(g.open).chars = << >>
    <3>1. Stack(c.open) /\ IsOpened(Opened(e))
      BY <1>2, OpenedIsOpened DEF InPlace
    <3> HIDE DEF c
    <3>2. Append(c.open, Opened(e))[Len(Append(c.open, Opened(e)))] = Opened(e)
      BY <3>1, Pushed
    <3> QED
      BY <2>2, <3>2 DEF Starting, Seqs!Last, Opened
  <2> HIDE DEF h
  <2> QED
    BY <1>1, <1>6, <2>4, <2>6, <2>7, BecomesInPlace DEF h
<1> QED
  BY <1>4, <1>5, <1>6

LEMMA CharactersInPlace ==
  ASSUME WellNested, XInv, DocumentsInPlace, NEW word, Characters(word)
  PROVE  DocumentsInPlace'
<1> DEFINE c == currFile
           n == Len(c.open)
           f == [c EXCEPT !.open[n].chars = word]
           coded == [f EXCEPT !.textEncoding = "UT_UTF8"]
<1>1. Reading /\ phase' = phase /\ c.open # << >> /\ Seqs!Last(c.open).chars = << >>
  BY DEF Characters
<1>2. InPlace(c) /\ c.status = "reading" /\ DOMAIN c = Fields
  BY <1>1, CurrentInPlace DEF InPlace
<1>3. n \in Nat \ {0} /\ Stack(c.open) /\ Seqs!Last(c.open) = c.open[n] /\ Innermost = c.open[n].name
  BY <1>1, <1>2, Popped DEF InPlace, Innermost
<1>4. /\ IF HoldsText(c.open) THEN word \in Content[Innermost] \ {<< >>}
         ELSE c.accumulating /\ word = <<" ">>
      /\ \/ c.accumulating /\ (Becomes(f) \/ Becomes(coded)) /\ text' = text \o word
         \/ ~c.accumulating /\ Becomes(f)
  <2>1. f.accumulating = c.accumulating
    BY <1>2 DEF Fields
  <2> QED
    BY <2>1 DEF Characters
<1>5. c.accumulating = (c.skipDepth = 0 /\ HoldsText(c.open))
  BY <1>2 DEF InPlace
<1>6. HoldsText(c.open) /\ word \in Content[Innermost] /\ Innermost \in Leaves
  BY <1>1, <1>3, <1>4, <1>5 DEF HoldsText
<1>7. IsWord(word)
  BY <1>6, ContentIsWords
<1>8. /\ DOMAIN f = Fields /\ f.status = "reading" /\ f.open = [c.open EXCEPT ![n].chars = word]
      /\ f.skipDepth = c.skipDepth /\ f.context = c.context /\ f.rooted = c.rooted
      /\ f.accumulating = c.accumulating /\ f.singular = c.singular
  BY <1>2 DEF Fields
<1> HIDE DEF f, n
<1>9. PICK S : c.open \in Seq(S)
  BY <1>3 DEF Stack
<1> DEFINE r == [c.open[n] EXCEPT !.chars = word]
<1>10. IsOpened(c.open[n])
  BY <1>3 DEF Stack, n
<1>11. IsOpened(r) /\ r.name = c.open[n].name /\ r.chars = word
  BY <1>7, <1>10 DEF IsOpened
<1>12. f.open = [c.open EXCEPT ![n] = r]
  BY <1>8
<1> HIDE DEF r
<1>13. /\ f.open \in Seq(S \cup {r}) /\ Len(f.open) = n /\ f.open[n] = r /\ f.open # << >>
       /\ \A i \in 1 .. n : i # n => f.open[i] = c.open[i]
  <2>1. c.open \in Seq(S \cup {r})
    <3>1. c.open = [ i \in 1 .. Len(c.open) |-> c.open[i] ] /\ \A i \in 1 .. Len(c.open) : c.open[i] \in S
      BY <1>9
    <3> HIDE DEF c
    <3> QED
      BY <1>9, <3>1
  <2>2. n = Len(c.open) /\ n \in 1 .. n
    BY <1>3 DEF n
  <2> HIDE DEF c
  <2> QED
    BY <1>12, <2>1, <2>2
<1>14. Stack(f.open)
  <2>1. \A i \in 1 .. n : IsOpened(c.open[i])
    BY <1>3 DEF Stack, n
  <2>2. \A i \in 1 .. n : IsOpened(f.open[i])
    BY <1>11, <1>13, <2>1
  <2> QED
    BY <1>13, <2>2 DEF Stack
<1>15. \A i \in 1 .. n : f.open[i].name = c.open[i].name
  BY <1>11, <1>13
<1>16. Depth(f) = Depth(c) /\ Depth(c) \in Nat /\ Depth(c) <= n
  <2>1. c.skipDepth \in Nat /\ c.skipDepth <= n /\ n \in Nat /\ Len(f.open) = n /\ f.skipDepth = c.skipDepth
    BY <1>2, <1>3, <1>8, <1>13 DEF InPlace, n
  <2>2. Depth(f) = n - c.skipDepth /\ Depth(c) = n - c.skipDepth
    BY <2>1 DEF Depth, n
  <2> QED
    BY <2>1, <2>2
<1> DEFINE d == Depth(c)
<1>17. AllPlaced(f, d) /\ SameContexts(c, f, d)
  <2>1. d \in Nat /\ SameNames(c, f, d) /\ AllPlaced(c, d)
    <3>1. AllPlaced(c, d)
      BY <1>2 DEF AllPlaced, InPlace
    <3>2. n \in Nat
      BY <1>3
    <3> HIDE DEF d, c
    <3>3. d \in Nat /\ d <= n
      BY <1>16 DEF d
    <3>4. SameNames(c, f, d)
      BY <1>15, <3>2, <3>3 DEF SameNames
    <3> QED
      BY <3>1, <3>3, <3>4
  <2> HIDE DEF d, c
  <2> QED
    BY <2>1, StaysPlaced
<1>18. d >= 1 => f.context = ContextAt(f.open, d) /\ At(f, d) = At(c, d)
  <2>1. ASSUME d >= 1 PROVE At(f, d) = At(c, d) /\ ContextOf(f.open, d) = ContextOf(c.open, d) /\ c.context = ContextAt(c.open, d)
    BY <1>2, <1>15, <1>16, <1>17, <2>1 DEF At, SameContexts, InPlace
  <2>2. ASSUME d > 1 PROVE ContextOf(f.open, d - 1) = ContextOf(c.open, d - 1)
    BY <1>16, <1>17, <2>2 DEF SameContexts
  <2>3. ASSUME d = 1 PROVE ContextOf(c.open, d) # "none"
    <3>1. Placed(c, 1)
      BY <1>2, <2>3 DEF InPlace
    <3> QED
      BY <2>3, <3>1 DEF Placed, ContextOf, At
  <2> HIDE DEF c
  <2> QED
    BY <1>8, <1>16, <2>1, <2>2, <2>3 DEF ContextAt
<1>19. HoldsText(f.open)
  <2>1. Seqs!Last(f.open).name = Seqs!Last(c.open).name
    BY <1>3, <1>11, <1>13 DEF Seqs!Last
  <2>2. Seqs!Last(c.open).name = "name" => n > 1 /\ c.open[n - 1].name = "prefix"
    BY <1>6 DEF HoldsText, n
  <2>3. n > 1 => f.open[n - 1].name = c.open[n - 1].name
    BY <1>3, <1>15
  <2>4. Seqs!Last(c.open).name \in Leaves
    BY <1>6 DEF HoldsText
  <2> HIDE DEF c
  <2> QED
    BY <1>13, <2>1, <2>2, <2>3, <2>4 DEF HoldsText
<1>20. f.accumulating = (f.skipDepth = 0 /\ HoldsText(f.open))
  <2>1. HoldsText(f.open) = TRUE /\ HoldsText(c.open) = TRUE
    BY <1>6, <1>19 DEF HoldsText
  <2> QED
    BY <1>5, <1>8, <2>1
<1>21. /\ f.skipDepth \in Nat /\ f.skipDepth <= Len(f.open) /\ f.rooted /\ IsWord(f.singular)
       /\ f.skipDepth > 0 /\ d >= 1 => At(f, d) \notin Plain
  BY <1>1, <1>2, <1>8, <1>13, <1>18 DEF InPlace, n
<1>22. InPlace(f)
  <2> HIDE DEF c
  <2>1. Depth(f) = d /\ \A i \in 1 .. Depth(f) : Placed(f, i)
    BY <1>16, <1>17 DEF AllPlaced
  <2>2. Depth(f) >= 1 => f.context = ContextAt(f.open, Depth(f))
    BY <1>18, <2>1
  <2>3. f.skipDepth > 0 /\ Depth(f) >= 1 => At(f, Depth(f)) \notin Plain
    BY <1>21, <2>1
  <2> QED
    BY <1>8, <1>14, <1>20, <1>21, <2>1, <2>2, <2>3 DEF InPlace
<1>23. InPlace(coded) /\ coded.status = "reading" /\ coded.open = f.open /\ coded.accumulating = f.accumulating
  <2>1. /\ DOMAIN coded = Fields /\ coded.open = f.open /\ coded.accumulating = f.accumulating
        /\ coded.skipDepth = f.skipDepth /\ coded.context = f.context /\ coded.rooted = f.rooted
        /\ coded.singular = f.singular /\ coded.status = "reading"
    BY <1>8 DEF Fields
  <2> HIDE DEF coded
  <2>2. Depth(coded) = Depth(f) /\ \A i : Placed(coded, i) = Placed(f, i) /\ At(coded, i) = At(f, i)
    BY <2>1 DEF Depth, Placed, At
  <2> QED
    BY <1>22, <2>1, <2>2 DEF InPlace
<1>24. f.accumulating => text' = Seqs!Last(f.open).chars
  <2>1. ASSUME f.accumulating PROVE text = << >> /\ text' = text \o word
    BY <1>1, <1>4, <1>8, <2>1 DEF DocumentsInPlace
  <2>2. << >> \o word = word
    BY <1>7 DEF IsWord
  <2>3. Seqs!Last(f.open).chars = word
    BY <1>11, <1>13 DEF Seqs!Last
  <2> QED
    BY <2>1, <2>2, <2>3
<1>25. "status" \in DOMAIN f /\ "status" \in DOMAIN coded
  BY <1>8 DEF Fields
<1> HIDE DEF coded, c
<1> QED
  BY <1>1, <1>4, <1>22, <1>23, <1>24, <1>25, BecomesInPlace

LEMMA EndElementInPlace ==
  ASSUME WellNested, XInv, DocumentsInPlace, EndElement
  PROVE  DocumentsInPlace'
<1> DEFINE c == currFile
           after == Ended(Innermost, c, system)
           f == IgnoreText(Pop(after.file))
<1>1. Reading /\ phase' = phase /\ c.open # << >> /\ Becomes(f)
  BY DEF EndElement, EndTag
<1>2. InPlace(c) /\ c.status = "reading" /\ Read(c) /\ Agreeing(system)
  BY <1>1, CurrentInPlace, ReadingInOrder
<1>3. Innermost = Seqs!Last(c.open).name /\ (Innermost = "import" => c.skipDepth > 0)
  BY <1>1 DEF EndElement, EndTag, Innermost
<1>4. Handled(after.file)
  BY <1>2, EndedKeeps
<1>5. c.accumulating => IsWord(text)
  <2>1. c.accumulating => text = Seqs!Last(c.open).chars
    BY <1>1 DEF DocumentsInPlace
  <2>2. Seqs!Last(c.open) = c.open[Len(c.open)] /\ Len(c.open) \in 1 .. Len(c.open) /\ Stack(c.open)
    <3>1. Stack(c.open)
      BY <1>2 DEF InPlace
    <3> HIDE DEF c
    <3> QED
      BY <1>1, <3>1, Popped
  <2> QED
    BY <2>1, <2>2 DEF Stack, IsOpened
<1> HIDE DEF c
<1>6. "status" \in DOMAIN f /\ f.status = after.file.status
  BY <1>4 DEF Handled, IgnoreText, Pop
<1>7. after.file.status = "reading" => InPlace(f)
  BY <1>1, <1>2, <1>3, <1>5, EndedInPlace
<1>8. f.status = "reading" => ~f.accumulating
  <2>1. "accumulating" \in DOMAIN f => f.accumulating = FALSE
    BY DEF IgnoreText
  <2> HIDE DEF f
  <2>2. f.status = "reading" => "accumulating" \in DOMAIN f
    BY <1>6, <1>7 DEF InPlace, Fields
  <2> QED
    BY <2>1, <2>2
<1> HIDE DEF f
<1> QED
  BY <1>1, <1>6, <1>7, <1>8, BecomesInPlace

LEMMA EmptyElementInPlace ==
  ASSUME XInv, DocumentsInPlace, NEW e, EmptyElement(e)
  PROVE  DocumentsInPlace'
<1>1. Reading /\ phase' = phase
  BY EmptyElementStops
<1>2. PICK f : "status" \in DOMAIN f /\ f.status = "UT_PARSE" /\ Becomes(f)
  BY EmptyElementStops
<1> QED
  BY <1>1, <1>2, BecomesInPlace

LEMMA CrashInPlace ==
  ASSUME DocumentsInPlace, Crash
  PROVE  DocumentsInPlace'
<1>1. phase' = "crashed" /\ files' = files
  BY DEF Crash
<1> QED
  BY <1>1 DEF DocumentsInPlace, Reading

\* A file that has not begun.
LEMMA FileInitInPlace ==
  ASSUME NEW added
  PROVE  InPlace(FileInit(added)) /\ ~FileInit(added).accumulating /\ FileInit(added).status = "reading"
<1> DEFINE f == FileInit(added)
<1>1. /\ DOMAIN f = Fields /\ f.open = << >> /\ f.skipDepth = 0 /\ f.context = "START"
      /\ f.accumulating = FALSE /\ f.singular = << >> /\ f.status = "reading"
  BY DEF FileInit, Fields
<1> HIDE DEF f
<1>2. << >> \in Seq({}) /\ Len(f.open) = 0
  BY <1>1
<1>3. Stack(f.open) /\ IsWord(f.singular) /\ Depth(f) = 0
  BY <1>1, <1>2 DEF Stack, IsWord, Depth
<1>4. HoldsText(f.open) = FALSE
  BY <1>1 DEF HoldsText
<1>5. f.accumulating = (f.skipDepth = 0 /\ HoldsText(f.open))
  BY <1>1, <1>4
<1>6. InPlace(f)
  <2>1. f.skipDepth \in Nat /\ f.skipDepth <= Len(f.open) /\ ~(f.skipDepth > 0) /\ ~(Depth(f) >= 1)
        /\ 1 .. Depth(f) = {}
    BY <1>1, <1>2, <1>3
  <2> QED
    BY <1>1, <1>3, <1>5, <2>1 DEF InPlace
<1> QED
  BY <1>1, <1>6 DEF f

\* The files below the last one read an <import>, within <unit-system>.
LEMMA ImportIsSecond ==
  ASSUME NEW f, InPlace(f), f.open # << >>, f.skipDepth = 0, Seqs!Last(f.open).name = "import"
  PROVE  Importing(f)
<1> DEFINE d == Len(f.open)
<1>1. d \in Nat \ {0} /\ At(f, d) = "import" /\ Depth(f) = d
  <2>1. d \in Nat \ {0} /\ At(f, d) = "import"
    BY Popped DEF InPlace, At
  <2> QED
    BY <2>1 DEF Depth
<1> HIDE DEF d
<1>2. Placed(f, d) /\ (d > 1 => Placed(f, d - 1))
  <2>1. \A i \in 1 .. d : Placed(f, i)
    BY <1>1 DEF InPlace
  <2> QED
    BY <1>1, <2>1
<1>3. d # 1 /\ At(f, d - 1) = "unit-system"
  BY <1>1, <1>2 DEF Placed, Held
<1>4. d - 1 = 1
  BY <1>1, <1>2, <1>3 DEF Placed, Held
<1>5. d = 2
  BY <1>1, <1>4
<1> QED
  BY <1>1, <1>5 DEF Importing, d

LEMMA ImportedFileInPlace ==
  ASSUME XInv, DocumentsInPlace, Reading, NEW added, files' = Append(files, FileInit(added)),
         Importing(currFile)
  PROVE  DocumentsInPlace'
<1> DEFINE top == FileInit(added)
<1>1. InPlace(top) /\ ~top.accumulating
  BY FileInitInPlace
<1>2. files # << >> /\ \E S : files \in Seq(S)
  BY ReadingInOrder DEF XInv, FilesInOrder
<1>3. PICK S : files \in Seq(S)
  BY <1>2
<1>4. files' = Append(files, top)
  OBVIOUS
<1> HIDE DEF top
<1>5. /\ Len(files') = Len(files) + 1 /\ Len(files) \in Nat \ {0}
      /\ files'[Len(files) + 1] = top /\ \A i \in 1 .. Len(files) : files'[i] = files[i]
  <2>1. files \in Seq(S \cup {top})
    <3>1. files = [ i \in 1 .. Len(files) |-> files[i] ] /\ \A i \in 1 .. Len(files) : files[i] \in S
      BY <1>3
    <3> QED
      BY <1>3, <3>1
  <2> QED
    BY <1>2, <1>4, <2>1
<1>6. currFile' = top
  BY <1>5 DEF currFile, Seqs!Last
<1>7. \A i \in 1 .. Len(files') : files'[i].status = "reading" => InPlace(files'[i])
  <2>1. \A i \in 1 .. Len(files) : files[i].status = "reading" => InPlace(files[i])
    BY DEF DocumentsInPlace
  <2> TAKE i \in 1 .. Len(files')
  <2>2. i \in 1 .. Len(files) \/ i = Len(files) + 1
    BY <1>5
  <2> QED
    BY <1>1, <1>5, <2>1, <2>2
<1>8. \A i \in 1 .. Len(files') - 1 : Importing(files'[i])
  <2>1. Importing(files[Len(files)])
    BY DEF currFile, Seqs!Last
  <2>2. \A i \in 1 .. Len(files) - 1 : Importing(files[i])
    BY DEF DocumentsInPlace
  <2> TAKE i \in 1 .. Len(files') - 1
  <2>3. i \in 1 .. Len(files) /\ (i = Len(files) \/ i \in 1 .. Len(files) - 1)
    BY <1>5
  <2> QED
    BY <1>5, <2>1, <2>2, <2>3
<1> QED
  BY <1>1, <1>6, <1>7, <1>8 DEF DocumentsInPlace

LEMMA StoppedIsStopped ==
  ASSUME NEW f, Read(f)
  PROVE  "status" \in DOMAIN Stopped(f) /\ Stopped(f).status = "UT_PARSE"
BY DEF Read, Stopped

LEMMA EndImportInPlace ==
  ASSUME XInv, DocumentsInPlace, EndImport
  PROVE  DocumentsInPlace'
<1>1. Reading /\ phase' = phase /\ Innermost = "import" /\ currFile.skipDepth = 0
  BY DEF EndImport, EndTag
<1>2. InPlace(currFile) /\ Read(currFile)
  BY <1>1, CurrentInPlace
<1>3. currFile.open # << >> /\ Seqs!Last(currFile.open).name = "import"
  BY <1>1 DEF Innermost, Root
<1>4. CASE \E added \in Garbage : files' = Append(files, FileInit(added)) /\ UNCHANGED failure
  <2>1. Importing(currFile)
    BY <1>1, <1>2, <1>3, ImportIsSecond
  <2> QED
    BY <1>1, <1>4, <2>1, ImportedFileInPlace
<1>5. CASE Becomes(Stopped(currFile))
  <2>1. "status" \in DOMAIN Stopped(currFile) /\ Stopped(currFile).status # "reading"
    BY <1>2, StoppedIsStopped
  <2> QED
    BY <1>1, <1>5, <2>1, BecomesInPlace
<1> QED
  BY <1>4, <1>5 DEF EndImport, EndTag

LEMMA EndingInPlace ==
  ASSUME XInv, DocumentsInPlace, DeclareXml \/ EndOfFile \/ Break
  PROVE  DocumentsInPlace'
<1>1. Reading /\ phase' = phase /\ text' = text
  BY DEF DeclareXml, EndOfFile, Break
<1>2. InPlace(currFile) /\ Read(currFile)
  BY <1>1, CurrentInPlace
<1>3. \/ Becomes(currFile) \/ Becomes(Stopped(currFile))
      \/ \E why \in {"UT_SUCCESS", "UT_OS", "UT_PARSE"} : Becomes([currFile EXCEPT !.status = why])
  BY DEF DeclareXml, EndOfFile, Break
<1>4. CASE Becomes(currFile)
  <2>1. currFile.accumulating => text = Seqs!Last(currFile.open).chars
    BY <1>1 DEF DocumentsInPlace
  <2> QED
    BY <1>1, <1>2, <1>4, <2>1, BecomesInPlace DEF Read
<1>5. CASE Becomes(Stopped(currFile))
  <2>1. "status" \in DOMAIN Stopped(currFile) /\ Stopped(currFile).status # "reading"
    BY <1>2, StoppedIsStopped
  <2> QED
    BY <1>1, <1>5, <2>1, BecomesInPlace
<1>6. ASSUME NEW why \in {"UT_SUCCESS", "UT_OS", "UT_PARSE"}, Becomes([currFile EXCEPT !.status = why])
      PROVE  DocumentsInPlace'
  <2> DEFINE f == [currFile EXCEPT !.status = why]
  <2>1. "status" \in DOMAIN f /\ f.status # "reading"
    BY <1>2 DEF Read
  <2> HIDE DEF f
  <2> QED
    BY <1>1, <1>6, <2>1, BecomesInPlace DEF f
<1> QED
  BY <1>3, <1>4, <1>5, <1>6

\* The <import> ends, and nothing else of the file has changed.
LEMMA ImportEndsInPlace ==
  ASSUME WellNested, NEW f, InPlace(f), Importing(f), f.status = "reading"
  PROVE  InPlace(IgnoreText(Pop(f))) /\ ~IgnoreText(Pop(f)).accumulating
<1> DEFINE g == IgnoreText(Pop(f))
<1>1. f.skipDepth = 0 /\ Len(f.open) = 2 /\ f.open[2].name = "import" /\ Depth(f) = 2
  BY DEF Importing, At, Depth
<1>2. f.open # << >>
  BY <1>1
<1>3. Stack(Seqs!Front(f.open)) /\ Len(Seqs!Front(f.open)) = 1 /\ Seqs!Front(f.open)[1] = f.open[1]
  <2>1. /\ Stack(Seqs!Front(f.open)) /\ Len(Seqs!Front(f.open)) = Len(f.open) - 1
        /\ \A i \in 1 .. Len(f.open) - 1 : Seqs!Front(f.open)[i] = f.open[i]
    BY <1>2, Popped DEF InPlace
  <2> QED
    BY <1>1, <2>1
<1>4. /\ DOMAIN g = Fields /\ g.open = Seqs!Front(f.open) /\ g.skipDepth = 0
      /\ g.context = f.context /\ g.rooted = f.rooted /\ g.accumulating = FALSE
      /\ g.singular = f.singular
  BY <1>1 DEF InPlace, IgnoreText, Pop, Fields
<1> HIDE DEF g
<1>5. f.open[1].name = "unit-system" /\ f.context = ContextAt(f.open, 2)
  <2>1. Placed(f, 1)
    BY <1>1 DEF InPlace
  <2> QED
    BY <1>1, <2>1 DEF InPlace, Placed, At
<1>6. f.context = "UNIT_SYSTEM"
  BY <1>1, <1>5 DEF ContextAt, ContextOf
<1>7. g.open[1].name = "unit-system" /\ Len(g.open) = 1 /\ Depth(g) = 1 /\ g.open # << >>
  BY <1>3, <1>4, <1>5 DEF Depth
<1>8. ContextAt(g.open, 1) = "UNIT_SYSTEM"
  BY <1>7 DEF ContextAt, ContextOf
<1>9. \A i \in 1 .. Depth(g) : Placed(g, i)
  BY <1>7 DEF Placed, At
<1>10. HoldsText(g.open) = FALSE
  <2>1. Seqs!Last(g.open).name \notin Leaves
    BY <1>7 DEF WellNested, Seqs!Last
  <2> QED
    BY <2>1 DEF HoldsText
<1>11. g.accumulating = (g.skipDepth = 0 /\ HoldsText(g.open))
  BY <1>4, <1>10
<1>12. g.rooted /\ IsWord(g.singular) /\ Stack(g.open) /\ g.context = ContextAt(g.open, Depth(g))
  BY <1>2, <1>3, <1>4, <1>6, <1>7, <1>8 DEF InPlace
<1>13. g.skipDepth \in Nat /\ g.skipDepth <= Len(g.open) /\ ~(g.skipDepth > 0)
  BY <1>4, <1>7
<1>14. InPlace(g)
  BY <1>4, <1>9, <1>11, <1>12, <1>13 DEF InPlace
<1> QED
  BY <1>4, <1>14 DEF g

LEMMA ReturnInPlace ==
  ASSUME WellNested, XInv, DocumentsInPlace, Return
  PROVE  DocumentsInPlace'
<1> DEFINE g == Seqs!Last(Parent)
           f == Imported(currFile, g)
<1>1. /\ phase = "reading" /\ Len(files) > 1
      /\ files' = Append(Seqs!Front(Parent), f)
  BY DEF Return
<1>2. PICK S : files \in Seq(S)
  BY DEF XInv, FilesInOrder
<1>3. /\ Parent \in Seq(S) /\ Len(Parent) = Len(files) - 1 /\ Parent # << >>
      /\ \A i \in 1 .. Len(files) - 1 : Parent[i] = files[i]
  BY <1>1, <1>2, ParentsAreFiles
<1>4. Len(files) \in Nat /\ Len(files) > 1
  BY <1>1, <1>2
<1>5. g = files[Len(files) - 1]
  BY <1>3, <1>4 DEF Seqs!Last
<1>6. Read(g) /\ InPlace(g) /\ Importing(g) /\ g.status = "reading"
  <2>1. Len(files) - 1 \in 1 .. Len(files) - 1 /\ Len(files) - 1 \in 1 .. Len(files)
    BY <1>4
  <2> QED
    BY <1>5, <2>1 DEF XInv, FilesInOrder, Read, DocumentsInPlace
<1> HIDE DEF g
<1>7. f.status = "reading" => InPlace(f) /\ ~f.accumulating
  <2>1. Stopped(g).status # "reading"
    BY <1>6, StoppedIsStopped
  <2> QED
    BY <1>6, <2>1, ImportEndsInPlace DEF Imported
<1> HIDE DEF f
<1>8. ReplacedBy(Parent, f, files')
  BY <1>1, <1>3, Replaced
<1>9. /\ Len(files') = Len(files) - 1 /\ files'[Len(files')] = f
      /\ \A i \in 1 .. Len(files') - 1 : files'[i] = files[i]
  BY <1>3, <1>4, <1>8 DEF ReplacedBy
<1>10. \A i \in 1 .. Len(files') : files'[i].status = "reading" => InPlace(files'[i])
  <2> TAKE i \in 1 .. Len(files')
  <2>1. i = Len(files') \/ i \in 1 .. Len(files') - 1
    BY <1>4, <1>9
  <2>2. i \in 1 .. Len(files)
    BY <1>4, <1>9
  <2> QED
    BY <1>7, <1>9, <2>1, <2>2 DEF DocumentsInPlace
<1>11. \A i \in 1 .. Len(files') - 1 : Importing(files'[i])
  BY <1>4, <1>9 DEF DocumentsInPlace
<1>12. currFile' = f
  BY <1>9 DEF currFile, Seqs!Last
<1> QED
  BY <1>7, <1>10, <1>11, <1>12 DEF DocumentsInPlace, Reading

LEMMA CallInPlace ==
  ASSUME XInv, DocumentsInPlace, ReadXml \/ ReadXmlReturns
  PROVE  DocumentsInPlace'
<1>1. CASE files' = << >> /\ phase' = "returned"
  BY <1>1 DEF DocumentsInPlace, Reading
<1>2. ASSUME NEW added, files' = <<FileInit(added)>>
      PROVE  DocumentsInPlace'
  <2> DEFINE top == FileInit(added)
  <2>1. InPlace(top) /\ ~top.accumulating
    BY FileInitInPlace
  <2>2. files' = <<top>>
    BY <1>2
  <2> HIDE DEF top
  <2>3. Len(files') = 1 /\ files'[1] = top /\ currFile' = top
    BY <2>2 DEF currFile, Seqs!Last
  <2> QED
    BY <2>1, <2>3 DEF DocumentsInPlace
<1> QED
  BY <1>1, <1>2 DEF ReadXml, ReadXmlReturns

LEMMA PlacesHold == WellNested => (Spec => [](XInv /\ DocumentsInPlace))
<1> SUFFICES ASSUME WellNested PROVE Spec => [](XInv /\ DocumentsInPlace)
  OBVIOUS
<1>1. Init => DocumentsInPlace
  BY DEF Init, DocumentsInPlace, Reading
<1>2. XInv /\ DocumentsInPlace /\ [Next]_vars => DocumentsInPlace'
  <2> SUFFICES ASSUME XInv, DocumentsInPlace, [Next]_vars PROVE DocumentsInPlace'
    OBVIOUS
  <2>1. CASE UNCHANGED vars
    BY <2>1 DEF vars, DocumentsInPlace, Reading, currFile
  <2>2. CASE Next
    BY <2>2, CallInPlace, ReturnInPlace, EndElementInPlace, EndImportInPlace,
       EmptyElementInPlace, CrashInPlace, EndingInPlace, StartElementInPlace, CharactersInPlace DEF Next
  <2> QED
    BY <2>1, <2>2
<1> QED
  BY <1>1, <1>2, XInvHolds, PTL DEF Spec

-----------------------------------------------------------------------------
(* Nesting and text.                                                       *)

\* In documents that keep to the content model, the one context of a file is that of
\* the innermost element that has one, through every nesting of elements that are
\* accepted, skipped or imported.
THEOREM ContextNests == WellNested => (Spec => []ContextIsNesting)
<1> SUFFICES ASSUME WellNested PROVE Spec => []ContextIsNesting
  OBVIOUS
<1>1. XInv /\ DocumentsInPlace => ContextIsNesting
  <2> SUFFICES ASSUME XInv, DocumentsInPlace, NEW n \in DOMAIN files, files[n].status = "reading",
                      { i \in 1 .. Depth(files[n]) : ContextOf(files[n].open, i) # "none" } # {}
               PROVE  \E i \in { i \in 1 .. Depth(files[n]) : ContextOf(files[n].open, i) # "none" } :
                        /\ \A j \in { j \in 1 .. Depth(files[n]) : ContextOf(files[n].open, j) # "none" } : j <= i
                        /\ files[n].context = ContextOf(files[n].open, i)
    BY DEF ContextIsNesting, Depth
  <2> DEFINE f == files[n]
             d == Depth(f)
  <2>1. InPlace(f)
    <3>1. n \in 1 .. Len(files)
      BY DEF XInv, FilesInOrder
    <3> QED
      BY <3>1 DEF DocumentsInPlace
  <2> HIDE DEF f
  <2>2. d \in Nat /\ d >= 1 /\ f.context = ContextAt(f.open, d)
    <3>1. d \in Int
      <4>1. PICK S : f.open \in Seq(S)
        BY <2>1 DEF InPlace, Stack
      <4>2. f.skipDepth \in Nat /\ Len(f.open) \in Nat
        BY <2>1, <4>1 DEF InPlace
      <4> QED
        BY <4>2 DEF Depth
    <3>2. d >= 1
      BY <3>1 DEF f
    <3> QED
      BY <2>1, <3>1, <3>2 DEF InPlace
  <2>3. \A i \in 1 .. d : Placed(f, i)
    BY <2>1 DEF InPlace
  <2> HIDE DEF d
  <2>4. CASE ContextOf(f.open, d) # "none"
    <3>1. f.context = ContextOf(f.open, d)
      BY <2>2, <2>4 DEF ContextAt
    <3>2. d \in { i \in 1 .. d : ContextOf(f.open, i) # "none" }
      BY <2>2, <2>4
    <3>3. \A j \in { i \in 1 .. d : ContextOf(f.open, i) # "none" } : j <= d
      BY <2>2
    <3> QED
      BY <3>1, <3>2, <3>3 DEF f, d
  <2>5. CASE ContextOf(f.open, d) = "none"
    <3>1. d # 1
      <4>1. d = 1 => Placed(f, 1)
        BY <2>3
      <4> QED
        BY <2>5, <4>1 DEF Placed, ContextOf, At
    <3>2. d - 1 \in 1 .. d /\ d - 1 \in Nat /\ d - 1 >= 1
      BY <2>2, <3>1
    <3>3. f.context = ContextOf(f.open, d - 1)
      BY <2>2, <2>5 DEF ContextAt
    <3>4. ContextOf(f.open, d - 1) # "none"
      <4> DEFINE p == At(f, d - 1)
      <4>1. At(f, d) \in Held(p) /\ (p = "name" => d > 2 /\ At(f, d - 2) \in {"unit", "aliases"})
        BY <2>2, <2>3, <3>1 DEF Placed
      <4>2. p \in {"prefix", "unit", "aliases", "unit-system", "name"}
        BY <4>1 DEF Held
      <4>3. p = "name" => d - 1 > 1 /\ (d - 1) - 1 = d - 2
        BY <2>2, <4>1
      <4> QED
        BY <4>1, <4>2, <4>3 DEF ContextOf, At
    <3>5. d - 1 \in { i \in 1 .. d : ContextOf(f.open, i) # "none" }
      BY <3>2, <3>4
    <3>6. \A j \in { i \in 1 .. d : ContextOf(f.open, i) # "none" } : j <= d - 1
      <4> TAKE j \in { i \in 1 .. d : ContextOf(f.open, i) # "none" }
      <4>1. j \in 1 .. d /\ j # d
        BY <2>5
      <4> QED
        BY <2>2, <4>1
    <3> QED
      BY <3>3, <3>5, <3>6 DEF f, d
  <2> QED
    BY <2>4, <2>5
<1> QED
  BY <1>1, PlacesHold, PTL

\* The text buffer, which all files share, holds the text of the element that is read
\* and none of those around it, before it or of other files.
THEOREM TextKeepsApart == WellNested => (Spec => []TextIsOwn)
<1> SUFFICES ASSUME WellNested PROVE Spec => []TextIsOwn
  OBVIOUS
<1>1. XInv /\ DocumentsInPlace => TextIsOwn
  <2> SUFFICES ASSUME XInv, DocumentsInPlace, Reading
               PROVE  /\ currFile.accumulating = (currFile.skipDepth = 0 /\ HoldsText(currFile.open))
                      /\ currFile.accumulating => text = Seqs!Last(currFile.open).chars
    BY DEF TextIsOwn
  <2>1. InPlace(currFile)
    BY CurrentInPlace
  <2> QED
    BY <2>1 DEF InPlace, DocumentsInPlace
<1> QED
  BY <1>1, PlacesHold, PTL
-----------------------------------------------------------------------------
(* What is known of the unit that is being read.                           *)

InUnit(f) == f.context \in {"UNIT", "UNIT_NAME", "ALIASES", "ALIAS_NAME"}

Printable(s, n) == \A kind \in Kinds : HasId(s, kind, Basic("base", n))

Pending(f, n) == InUnit(f) /\ f.isBase /\ f.unit = Basic("base", n)

Complete(s) == \A n \in 1 .. s.bases : Printable(s, n)
CompleteBut(s, f) == \A n \in 1 .. s.bases : Printable(s, n) \/ Pending(f, n)

SecondNamed(s) == s.second # NoUnit => MapsTo(s, "name", <<"second">>, s.second)

\* The innermost element that is not skipped.
Inner(f) == IF Depth(f) >= 1 THEN At(f, Depth(f)) ELSE Root

UnitKnown(s, f, inner) ==
  InUnit(f) =>
    /\ inner # Root
    /\ f.unit = NoUnit => ~f.isBase /\ ~f.nameSeen /\ ~f.symbolSeen
    /\ inner \in {"base", "dimensionless", "def"} => f.unit = NoUnit
    /\ Naming(f) \/ inner = "symbol" => f.unit # NoUnit
    /\ f.nameSeen => HasId(s, "name", f.unit)
    /\ f.symbolSeen => HasId(s, "symbol", f.unit)

Good(s, f, inner) == SecondNamed(s) /\ UnitKnown(s, f, inner) /\ CompleteBut(s, f)

UnitsInPlace ==
  /\ phase = "reading" /\ failure = NoFailure =>
       IF currFile.status = "reading" THEN Good(system, currFile, Inner(currFile))
       ELSE SecondNamed(system) /\ Complete(system)
  /\ phase = "returned" /\ system # NoSystem => SecondNamed(system) /\ Complete(system)

-----------------------------------------------------------------------------
(* What the handlers keep of it.                                           *)

LEMMA GrowsComplete ==
  ASSUME NEW s, NEW t, Grows(s, t)
  PROVE  /\ SecondNamed(s) => SecondNamed(t)
         /\ \A n : Printable(s, n) => Printable(t, n)
         /\ Complete(s) => Complete(t)
<1>1. SecondNamed(s) => SecondNamed(t)
  <2> SUFFICES ASSUME s.second # NoUnit => MapsTo(s, "name", <<"second">>, s.second), s.second # NoUnit
               PROVE  MapsTo(t, "name", <<"second">>, s.second)
    BY DEF SecondNamed, Grows
  <2> DEFINE word == <<"second">>
  <2>1. word \in DOMAIN s.unitOf["name"] /\ s.unitOf["name"][word] = s.second
    BY DEF MapsTo
  <2> HIDE DEF word
  <2>2. MapsTo(t, "name", word, s.unitOf["name"][word])
    BY <2>1 DEF Grows, Extends, Kinds
  <2> QED
    BY <2>1, <2>2 DEF word
<1>2. \A n : Printable(s, n) => Printable(t, n)
  BY GrowsOn DEF Printable
<1>3. Complete(s) => Complete(t)
  BY <1>2 DEF Complete, Grows
<1> QED
  BY <1>1, <1>2, <1>3

SameUnit(f, h) ==
  h.unit = f.unit /\ h.isBase = f.isBase /\ h.nameSeen = f.nameSeen /\ h.symbolSeen = f.symbolSeen

\* A step that keeps what is known of the unit.
LEMMA GoodStays ==
  ASSUME NEW s, NEW t, Grows(s, t), NEW f, NEW inner, Good(s, f, inner),
         NEW h, SameUnit(f, h), InUnit(f), InUnit(h), NEW to, to # Root,
         to \in {"base", "dimensionless", "def"} => f.unit = NoUnit,
         Naming(h) \/ to = "symbol" => f.unit # NoUnit
  PROVE  Good(t, h, to)
<1>1. SecondNamed(t)
  BY GrowsComplete DEF Good
<1>2. UnitKnown(t, h, to)
  <2>1. \A k \in Kinds : HasId(s, k, f.unit) => HasId(t, k, f.unit)
    BY GrowsOn
  <2> QED
    BY <2>1 DEF Good, UnitKnown, SameUnit, Kinds
<1>3. CompleteBut(t, h)
  <2>1. \A n : Pending(h, n) = Pending(f, n)
    BY DEF Pending, SameUnit
  <2>2. \A n : Printable(s, n) => Printable(t, n)
    BY GrowsComplete
  <2> QED
    BY <2>1, <2>2 DEF Good, CompleteBut, Grows
<1> QED
  BY <1>1, <1>2, <1>3 DEF Good

\* Outside of a <unit> all base units are complete.
LEMMA GoodOutside ==
  ASSUME NEW s, NEW t, Grows(s, t), NEW f, NEW inner, Good(s, f, inner), ~InUnit(f),
         NEW h, ~InUnit(h), NEW to
  PROVE  Good(t, h, to)
<1>1. SecondNamed(t)
  BY GrowsComplete DEF Good
<1>2. Complete(t)
  <2>1. Complete(s)
    BY DEF Good, Complete, CompleteBut, Pending
  <2> QED
    BY <2>1, GrowsComplete
<1> QED
  BY <1>1, <1>2 DEF Good, UnitKnown, Complete, CompleteBut

-----------------------------------------------------------------------------
(* Start-tags.                                                             *)

LEMMA StartedGood ==
  ASSUME NEW s, Agreeing(s), NEW g, DOMAIN g = Fields, NEW inner, Good(s, g, inner),
         NEW e \in Known, e = "prefix" => ~InUnit(g), Started(e, g).status = "reading"
  PROVE  Good(s, Started(e, g), e)
<1> DEFINE h == Started(e, g)
<1>1. Stopped(g).status # "reading"
  BY DEF Stopped, Fields
<1>2. Grows(s, s)
  BY GrowsOn
<1>3. e # Root
  BY DEF Known, Root
<1>4. /\ SameUnit(g, g) /\ SameUnit(g, Accumulating(g)) /\ Accumulating(g).context = g.context
      /\ \A context : SameUnit(g, In(g, context)) /\ In(g, context).context = context
  BY DEF SameUnit, Accumulating, In, Fields
<1>5. CASE e = "unit-system"
  <2>1. g.context = "START" /\ h = In(g, "UNIT_SYSTEM")
    BY <1>1, <1>5 DEF Started, StartUnitSystem
  <2> HIDE DEF h
  <2> QED
    BY <1>2, <1>4, <2>1, GoodOutside DEF InUnit, h
<1>6. CASE e = "prefix"
  <2>1. h.context = "PREFIX"
    BY <1>6 DEF Started, StartPrefix, In, Fields
  <2> HIDE DEF h
  <2> QED
    BY <1>2, <1>6, <2>1, GoodOutside DEF InUnit, h
<1>7. CASE e = "unit"
  <2>1. /\ g.context = "UNIT_SYSTEM" /\ h.context = "UNIT" /\ h.unit = NoUnit /\ ~h.isBase
        /\ ~h.nameSeen /\ ~h.symbolSeen
    BY <1>1, <1>7 DEF Started, StartUnit, In, Fields
  <2> HIDE DEF h
  <2>2. ~InUnit(g) /\ ~Naming(h)
    BY <2>1 DEF InUnit, Naming
  <2>3. SecondNamed(s) /\ CompleteBut(s, h)
    BY <2>2 DEF Good, CompleteBut, Pending
  <2>4. UnitKnown(s, h, e)
    BY <1>3, <1>7, <2>1, <2>2 DEF UnitKnown
  <2> QED
    BY <2>3, <2>4 DEF Good, h
<1>8. CASE e \in {"base", "dimensionless", "def"}
  <2>1. g.context = "UNIT" /\ g.unit = NoUnit /\ h \in {g, Accumulating(g)}
    BY <1>1, <1>8 DEF Started, StartBase, StartDimensionless, StartDef, MayDefine
  <2> HIDE DEF h
  <2>2. InUnit(g) /\ InUnit(h) /\ ~Naming(h) /\ SameUnit(g, h)
    BY <1>4, <2>1 DEF InUnit, Naming
  <2> QED
    BY <1>2, <1>3, <1>8, <2>1, <2>2, GoodStays DEF h
<1>9. CASE e \in {"value", "import"}
  <2>1. g.context \in {"PREFIX", "UNIT_SYSTEM"} /\ h = Accumulating(g)
    BY <1>1, <1>9 DEF Started, StartValue, StartImport
  <2> HIDE DEF h
  <2> QED
    BY <1>2, <1>4, <2>1, GoodOutside DEF InUnit, h
<1>10. CASE e = "name"
  <2>1. \/ g.context = "PREFIX" /\ h = Accumulating(g)
        \/ /\ g.context \in {"UNIT", "ALIASES"} /\ g.unit # NoUnit /\ SameUnit(g, h)
           /\ h.context \in {"UNIT_NAME", "ALIAS_NAME"}
    <3>1. h = StartName(g)
      BY <1>10 DEF Started
    <3> DEFINE x == [g EXCEPT !.noPlural = FALSE, !.singular = << >>, !.plural = << >>]
    <3>2. \A context : SameUnit(g, In(x, context)) /\ In(x, context).context = context
      BY DEF SameUnit, In, Fields
    <3> HIDE DEF h
    <3>3. CASE g.context = "PREFIX" /\ g.haveValue
      BY <1>1, <3>1, <3>3 DEF StartName
    <3>4. CASE g.context \in {"UNIT", "ALIASES"} /\ g.unit # NoUnit
      BY <1>1, <3>1, <3>2, <3>4 DEF StartName
    <3>5. CASE ~(g.context = "PREFIX" /\ g.haveValue) /\ ~(g.context \in {"UNIT", "ALIASES"} /\ g.unit # NoUnit)
      BY <1>1, <3>1, <3>5 DEF StartName, h
    <3> QED
      BY <3>3, <3>4, <3>5
  <2> HIDE DEF h
  <2>2. CASE g.context = "PREFIX" /\ h = Accumulating(g)
    BY <1>2, <1>4, <2>2, GoodOutside DEF InUnit, h
  <2>3. CASE /\ g.context \in {"UNIT", "ALIASES"} /\ g.unit # NoUnit /\ SameUnit(g, h)
             /\ h.context \in {"UNIT_NAME", "ALIAS_NAME"}
    <3>1. InUnit(g) /\ InUnit(h)
      BY <2>3 DEF InUnit
    <3> QED
      BY <1>2, <1>3, <1>10, <2>3, <3>1, GoodStays DEF h
  <2> QED
    BY <2>1, <2>2, <2>3
<1>11. CASE e \in {"singular", "plural"}
  <2>1. Naming(g) /\ h = Accumulating(g)
    BY <1>1, <1>11 DEF Started, StartSingular, StartPlural
  <2> HIDE DEF h
  <2>2. InUnit(g) /\ InUnit(h) /\ Naming(h) /\ SameUnit(g, h)
    BY <1>4, <2>1 DEF InUnit, Naming
  <2>3. g.unit # NoUnit
    BY <2>1, <2>2 DEF Good, UnitKnown
  <2> QED
    BY <1>2, <1>3, <1>11, <2>2, <2>3, GoodStays DEF h
<1>12. CASE e = "symbol"
  <2>1. /\ h = Accumulating(g)
        /\ g.context = "PREFIX" \/ (g.context \in {"UNIT", "ALIASES"} /\ g.unit # NoUnit)
    <3>1. h = StartSymbol(g)
      BY <1>12 DEF Started
    <3>2. h # Stopped(g)
      BY <1>1
    <3> HIDE DEF h
    <3> QED
      BY <3>1, <3>2 DEF StartSymbol
  <2> HIDE DEF h
  <2>2. CASE g.context = "PREFIX"
    BY <1>2, <1>4, <2>1, <2>2, GoodOutside DEF InUnit, h
  <2>3. CASE g.context \in {"UNIT", "ALIASES"} /\ g.unit # NoUnit
    <3>1. InUnit(g) /\ InUnit(h) /\ SameUnit(g, h)
      BY <1>4, <2>1, <2>3 DEF InUnit
    <3> QED
      BY <1>2, <1>3, <1>12, <2>3, <3>1, GoodStays DEF h
  <2> QED
    BY <2>1, <2>2, <2>3
<1>13. CASE e = "aliases"
  <2>1. g.context = "UNIT" /\ h = In(g, "ALIASES")
    BY <1>1, <1>13 DEF Started, StartAliases
  <2> HIDE DEF h
  <2>2. InUnit(g) /\ InUnit(h) /\ ~Naming(h) /\ SameUnit(g, h)
    BY <1>4, <2>1 DEF InUnit, Naming
  <2> QED
    BY <1>2, <1>3, <1>13, <2>2, GoodStays DEF h
<1> QED
  BY <1>5, <1>6, <1>7, <1>8, <1>9, <1>10, <1>11, <1>12, <1>13 DEF Known

-----------------------------------------------------------------------------
(* End-tags.                                                               *)

\* Where an element that ends is.
LEMMA EndingWithin ==
  ASSUME NEW f, InPlace(f), f.skipDepth = 0, f.open # << >>
  PROVE  LET d == Len(f.open)
             e == Seqs!Last(f.open).name
             c == f.context
         IN /\ d \in Nat \ {0} /\ Depth(f) = d /\ At(f, d) = e
            /\ IF d = 1 THEN e = "unit-system" ELSE e \in Held(At(f, d - 1))
            /\ e = "unit-system" => c = "UNIT_SYSTEM"
            /\ e \in {"prefix", "value"} => c = "PREFIX"
            /\ e = "unit" => c = "UNIT"
            /\ e \in {"base", "dimensionless", "def"} => c = "UNIT"
            /\ e = "name" => c \in {"PREFIX", "UNIT_NAME", "ALIAS_NAME"}
            /\ e \in {"singular", "plural"} => c \in {"UNIT_NAME", "ALIAS_NAME"}
            /\ e = "symbol" => c \in {"PREFIX", "UNIT", "ALIASES"}
            /\ e = "aliases" => c = "ALIASES"
<1> DEFINE d == Len(f.open)
           e == Seqs!Last(f.open).name
           c == f.context
           p == At(f, d - 1)
<1>1. d \in Nat \ {0} /\ At(f, d) = e
  BY Popped DEF InPlace, At
<1>2. Depth(f) = d
  BY <1>1 DEF Depth
<1>3. Placed(f, d) /\ c = ContextAt(f.open, d)
  <2>1. d \in 1 .. d /\ d >= 1
    BY <1>1
  <2> QED
    BY <1>2, <2>1 DEF InPlace
<1> HIDE DEF d, e, c
<1>4. /\ d = 1 => e = "unit-system"
      /\ d # 1 => e \in Held(p) /\ (p = "name" => d > 2 /\ At(f, d - 2) \in {"unit", "aliases"})
  BY <1>1, <1>3 DEF Placed
<1>5. d # 1 => /\ d > 1 /\ p = f.open[d - 1].name
               /\ p \in {"prefix", "unit", "aliases", "unit-system", "name"}
               /\ p = "name" => d - 1 > 1 /\ (d - 1) - 1 = d - 2
  BY <1>1, <1>4 DEF At, Held
<1>6. /\ e = "unit-system" => c = "UNIT_SYSTEM"
      /\ e = "prefix" => c = "PREFIX"
      /\ e = "unit" => c = "UNIT"
      /\ e = "aliases" => c = "ALIASES"
  BY <1>1, <1>3 DEF ContextAt, ContextOf, At
<1>7. ASSUME e = "name" PROVE c \in {"PREFIX", "UNIT_NAME", "ALIAS_NAME"}
  <2>1. d # 1 /\ p \in {"prefix", "unit", "aliases"}
    BY <1>4, <1>5, <1>7 DEF Held
  <2> HIDE DEF p
  <2> QED
    BY <1>1, <1>3, <1>5, <1>7, <2>1 DEF ContextAt, ContextOf, At
<1>8. ASSUME e \in {"value", "base", "dimensionless", "def", "singular", "plural", "symbol"}
      PROVE  d # 1 /\ c = ContextOf(f.open, d - 1)
  <2>1. ContextOf(f.open, d) = "none"
    BY <1>1, <1>8 DEF ContextOf, At
  <2> QED
    BY <1>3, <1>4, <1>8, <2>1 DEF ContextAt
<1>9. e = "value" => c = "PREFIX"
  BY <1>4, <1>5, <1>8 DEF Held, ContextOf
<1>10. e \in {"base", "dimensionless", "def"} => c = "UNIT"
  BY <1>4, <1>5, <1>8 DEF Held, ContextOf
<1>11. e = "symbol" => c \in {"PREFIX", "UNIT", "ALIASES"}
  BY <1>4, <1>5, <1>8 DEF Held, ContextOf
<1>12. ASSUME e \in {"singular", "plural"} PROVE c \in {"UNIT_NAME", "ALIAS_NAME"}
  <2>1. p = "name" /\ d # 1
    BY <1>4, <1>5, <1>8, <1>12 DEF Held
  <2>2. f.open[d - 1].name = "name" /\ d - 1 > 1 /\ f.open[(d - 1) - 1].name \in {"unit", "aliases"}
    BY <1>4, <1>5, <2>1 DEF At
  <2> QED
    BY <1>8, <1>12, <2>2 DEF ContextOf
<1> QED
  BY <1>1, <1>2, <1>4, <1>6, <1>7, <1>9, <1>10, <1>11, <1>12 DEF d, e, c

\* Changes that leave the maps of identifiers.
LEMMA SameMapsGrow ==
  ASSUME NEW s, Agreeing(s), NEW t, DOMAIN t = DOMAIN s, t.bases = s.bases,
         t.unitOf = s.unitOf, t.idOf = s.idOf, t.second = s.second
  PROVE  Grows(s, t)
BY OthersAgree DEF Grows, Extends, MapsTo, Agreeing, IsSystem

LEMMA AddPrefixGrows ==
  ASSUME NEW s, Agreeing(s), NEW kind, NEW word, NEW value
  PROVE  Grows(s, AddPrefix(s, kind, word, value).system)
<1> DEFINE t == [s EXCEPT !.prefixes = With(@, <<kind, word>>, value)]
<1>1. Grows(s, t)
  <2>1. DOMAIN t = DOMAIN s /\ t.bases = s.bases /\ t.unitOf = s.unitOf /\ t.idOf = s.idOf /\ t.second = s.second
    BY DEF Agreeing, IsSystem
  <2> HIDE DEF t
  <2> QED
    BY <2>1, SameMapsGrow
<1>2. Grows(s, s)
  BY GrowsOn
<1> QED
  BY <1>1, <1>2 DEF AddPrefix, Outcome

LEMMA WithPluralGrows ==
  ASSUME NEW f, NEW mapped, Agreeing(mapped.system)
  PROVE  /\ Grows(mapped.system, WithPlural(f, mapped).system)
         /\ WithPlural(f, mapped).ok => mapped.ok
<1>1. Grows(mapped.system, mapped.system)
  BY GrowsOn
<1>2. CASE ~mapped.ok \/ f.noPlural
  BY <1>1, <1>2 DEF WithPlural
<1>3. CASE mapped.ok /\ ~f.noPlural
  <2>1. WithPlural(f, mapped) = MapIdsToUnit(mapped.system, "name", PluralOf(f), f.textEncoding, f.unit)
    BY <1>3 DEF WithPlural
  <2> QED
    BY <1>3, <2>1, MapIdsToUnitGrows DEF Kinds
<1> QED
  BY <1>2, <1>3

LEMMA SecondIsBytes ==
  ASSUME NEW encoding
  PROVE  <<"second">> \in Bytes(<<"second">>, encoding)
<1> DEFINE word == <<"second">>
           utf8 == Substitute(word, "_")
<1>1. word = [ i \in 1 .. 1 |-> "second" ]
  OBVIOUS
<1>2. DOMAIN word = 1 .. 1 /\ \A i \in 1 .. 1 : word[i] = "second" /\ word[i] \notin Spaces
  BY DEF Spaces
<1>3. word # << >>
  OBVIOUS
<1> HIDE DEF word
<1>4. utf8 = word
  <2>1. utf8 = [ i \in 1 .. 1 |-> "second" ]
    BY <1>2 DEF Substitute
  <2> QED
    BY <1>1, <2>1
<1>5. \/ Derivatives(word, encoding).ascii = word \/ Derivatives(word, encoding).utf8 = word
  BY <1>4 DEF Derivatives
<1> QED
  BY <1>3, <1>5 DEF Bytes, word

\* The name of a unit.
LEMMA NamedGrows ==
  ASSUME NEW s, Agreeing(s), NEW f, IsWord(f.singular), f.singular # << >>
  PROVE  LET mapped == WithPlural(f, MapUnitAndId(s, "name", f.singular, f.textEncoding, f.unit))
         IN /\ Grows(s, mapped.system)
            /\ mapped.ok => HasId(mapped.system, "name", f.unit)
            /\ mapped.ok /\ f.singular = <<"second">> => MapsTo(mapped.system, "name", <<"second">>, f.unit)
<1> DEFINE first == MapUnitAndId(s, "name", f.singular, f.textEncoding, f.unit)
           mapped == WithPlural(f, first)
           word == f.singular
<1>1. PICK S : word \in Seq(S)
  BY DEF IsWord
<1>2. Bytes(word, f.textEncoding) # {}
  BY <1>1, SomeDerivative
<1>3. "name" \in Kinds
  BY DEF Kinds
<1>4. /\ Grows(s, first.system)
      /\ first.ok => \A bytes \in Bytes(word, f.textEncoding) : MapsTo(first.system, "name", bytes, f.unit)
      /\ first.ok => HasId(first.system, "name", f.unit)
  BY <1>2, <1>3, MapUnitAndIdGrows
<1> HIDE DEF first
<1>5. Grows(first.system, mapped.system) /\ (mapped.ok => first.ok)
  BY <1>4, WithPluralGrows DEF Grows
<1> HIDE DEF mapped
<1>6. Grows(s, mapped.system)
  BY <1>4, <1>5, GrowsOn
<1>7. mapped.ok => HasId(mapped.system, "name", f.unit)
  BY <1>3, <1>4, <1>5, GrowsOn
<1>8. ASSUME mapped.ok, word = <<"second">> PROVE MapsTo(mapped.system, "name", <<"second">>, f.unit)
  <2> DEFINE w == <<"second">>
  <2>1. MapsTo(first.system, "name", w, f.unit)
    BY <1>4, <1>5, <1>8, SecondIsBytes
  <2> HIDE DEF w
  <2>2. MapsTo(mapped.system, "name", w, f.unit)
    BY <1>3, <1>5, <2>1 DEF MapsTo, Grows, Extends
  <2> QED
    BY <2>2 DEF w
<1> QED
  BY <1>6, <1>7, <1>8 DEF mapped, first
-----------------------------------------------------------------------------
(* Handlers that go on.                                                    *)

LEMMA GoodSame ==
  ASSUME NEW s, NEW f, NEW inner, Good(s, f, inner), NEW h, SameUnit(f, h), h.context = f.context
  PROVE  Good(s, h, inner)
<1>1. InUnit(h) = InUnit(f) /\ Naming(h) = Naming(f) /\ \A n : Pending(h, n) = Pending(f, n)
  BY DEF InUnit, Naming, Pending, SameUnit
<1> QED
  BY <1>1 DEF Good, UnitKnown, CompleteBut, SameUnit

\* The element that is around one that ends.
Outer(p) == p \notin {"base", "dimensionless", "def", "symbol"}

\* The unit was defined: it is a base unit that has yet to be named, or another one.
LEMMA DefinedGood ==
  ASSUME NEW s, NEW f, NEW e \in {"base", "dimensionless", "def"}, Good(s, f, e), InUnit(f),
         NEW t, SecondNamed(t), t.bases \in {s.bases, s.bases + 1}, s.bases \in Nat,
         \A n : Printable(s, n) => Printable(t, n),
         NEW h, h.context = "UNIT", h.nameSeen = f.nameSeen, h.symbolSeen = f.symbolSeen,
         h.unit # NoUnit,
         t.bases = s.bases + 1 => h.isBase /\ h.unit = Basic("base", t.bases),
         NEW p, Outer(p), p # Root
  PROVE  Good(t, h, p)
<1>1. f.unit = NoUnit /\ ~f.isBase /\ ~f.nameSeen /\ ~f.symbolSeen
  BY DEF Good, UnitKnown
<1>2. Complete(s)
  BY <1>1 DEF Good, Complete, CompleteBut, Pending
<1>3. ~Naming(h) /\ InUnit(h)
  BY DEF Naming, InUnit
<1>4. UnitKnown(t, h, p)
  BY <1>1, <1>3 DEF UnitKnown, Outer
<1>5. CompleteBut(t, h)
  <2> SUFFICES ASSUME NEW n \in 1 .. t.bases PROVE Printable(t, n) \/ Pending(h, n)
    BY DEF CompleteBut
  <2>1. CASE n \in 1 .. s.bases
    BY <1>2, <2>1 DEF Complete
  <2>2. CASE n \notin 1 .. s.bases
    <3>1. t.bases = s.bases + 1 /\ n = t.bases
      BY <2>2
    <3> QED
      BY <1>3, <3>1 DEF Pending
  <2> QED
    BY <2>1, <2>2
<1> QED
  BY <1>4, <1>5 DEF Good

LEMMA EndBaseGood ==
  ASSUME NEW s, Agreeing(s), NEW f, DOMAIN f = Fields, f.context = "UNIT", Good(s, f, "base"),
         NEW p, Outer(p), p # Root
  PROVE  Good(EndBase(f, s).system, EndBase(f, s).file, p)
<1> DEFINE h == [f EXCEPT !.unit = Basic("base", s.bases + 1), !.isBase = TRUE]
           t == [s EXCEPT !.bases = @ + 1]
<1>1. EndBase(f, s).file = h /\ EndBase(f, s).system = t
  BY DEF EndBase, After
<1>2. /\ h.context = "UNIT" /\ h.nameSeen = f.nameSeen /\ h.symbolSeen = f.symbolSeen
      /\ h.unit = Basic("base", s.bases + 1) /\ h.isBase = TRUE
  BY DEF Fields
<1>3. s.bases \in Nat /\ t.bases = s.bases + 1 /\ t.unitOf = s.unitOf /\ t.idOf = s.idOf /\ t.second = s.second
  BY DEF Agreeing, IsSystem
<1> HIDE DEF h, t
<1>4. SecondNamed(t) /\ \A n : Printable(s, n) => Printable(t, n)
  BY <1>3 DEF Good, SecondNamed, MapsTo, Printable, HasId
<1>5. h.unit # NoUnit
  BY <1>2 DEF NoUnit, Basic
<1>6. InUnit(f)
  BY DEF InUnit
<1>7. t.bases = s.bases + 1 => h.isBase /\ h.unit = Basic("base", t.bases)
  BY <1>2, <1>3
<1>8. t.bases \in {s.bases, s.bases + 1}
  BY <1>3
<1>9. "base" \in {"base", "dimensionless", "def"}
  OBVIOUS
<1> QED
  BY <1>1, <1>2, <1>3, <1>4, <1>5, <1>6, <1>7, <1>8, <1>9, DefinedGood

LEMMA EndDimensionlessGood ==
  ASSUME NEW s, Agreeing(s), NEW f, DOMAIN f = Fields, f.context = "UNIT", Good(s, f, "dimensionless"),
         NEW p, Outer(p), p # Root
  PROVE  Good(EndDimensionless(f, s).system, EndDimensionless(f, s).file, p)
<1> DEFINE h == [f EXCEPT !.unit = Basic("dimensionless", s.dimensionless + 1), !.isDimensionless = TRUE]
           t == [s EXCEPT !.dimensionless = @ + 1]
<1>1. EndDimensionless(f, s).file = h /\ EndDimensionless(f, s).system = t
  BY DEF EndDimensionless, After
<1>2. /\ h.context = "UNIT" /\ h.nameSeen = f.nameSeen /\ h.symbolSeen = f.symbolSeen
      /\ h.unit = Basic("dimensionless", s.dimensionless + 1)
  BY DEF Fields
<1>3. s.bases \in Nat /\ t.bases = s.bases /\ t.unitOf = s.unitOf /\ t.idOf = s.idOf /\ t.second = s.second
  BY DEF Agreeing, IsSystem
<1> HIDE DEF h, t
<1>4. SecondNamed(t) /\ \A n : Printable(s, n) => Printable(t, n)
  BY <1>3 DEF Good, SecondNamed, MapsTo, Printable, HasId
<1>5. h.unit # NoUnit
  BY <1>2 DEF NoUnit, Basic
<1>6. InUnit(f)
  BY DEF InUnit
<1>7. t.bases # s.bases + 1
  BY <1>3
<1>8. t.bases \in {s.bases, s.bases + 1}
  BY <1>3
<1>9. "dimensionless" \in {"base", "dimensionless", "def"}
  OBVIOUS
<1> QED
  BY <1>1, <1>2, <1>3, <1>4, <1>5, <1>6, <1>7, <1>8, <1>9, DefinedGood

LEMMA EndDefGood ==
  ASSUME NEW s, Agreeing(s), NEW f, DOMAIN f = Fields, f.context = "UNIT", Good(s, f, "def"),
         EndDef(f, s).file.status = "reading", NEW p, Outer(p), p # Root
  PROVE  Good(EndDef(f, s).system, EndDef(f, s).file, p)
<1> DEFINE unit == Parsed(s, text)
           h == [f EXCEPT !.unit = unit]
<1>0. Stopped(f).status # "reading"
  BY DEF Stopped, Fields
<1>1. EndDef(f, s).file = h /\ EndDef(f, s).system = s /\ unit # NoUnit
  <2> HIDE DEF unit
  <2>1. EndDef(f, s) = After(IF text = << >> \/ unit = NoUnit THEN Stopped(f) ELSE h, s)
    BY DEF EndDef, unit
  <2> HIDE DEF h
  <2>2. EndDef(f, s).system = s /\ EndDef(f, s).file = IF text = << >> \/ unit = NoUnit THEN Stopped(f) ELSE h
    BY <2>1 DEF After
  <2> QED
    BY <1>0, <2>2
<1> HIDE DEF unit
<1>2. /\ h.context = "UNIT" /\ h.nameSeen = f.nameSeen /\ h.symbolSeen = f.symbolSeen
      /\ h.unit = unit
  BY DEF Fields
<1>3. s.bases \in Nat /\ s.bases # s.bases + 1 /\ s.bases \in {s.bases, s.bases + 1}
  BY DEF Agreeing, IsSystem
<1> HIDE DEF h
<1>4. SecondNamed(s) /\ InUnit(f)
  BY DEF Good, InUnit
<1>5. "def" \in {"base", "dimensionless", "def"}
  OBVIOUS
<1> QED
  BY <1>1, <1>2, <1>3, <1>4, <1>5, DefinedGood

\* A base unit without a name or a symbol does not end.
LEMMA EndUnitGood ==
  ASSUME NEW s, Agreeing(s), NEW f, DOMAIN f = Fields, f.context = "UNIT", Good(s, f, "unit"),
         EndUnit(f, s).file.status = "reading", NEW p
  PROVE  Good(EndUnit(f, s).system, EndUnit(f, s).file, p)
<1> DEFINE h == In([f EXCEPT !.unit = NoUnit], "UNIT_SYSTEM")
<1>0. Stopped(f).status # "reading"
  BY DEF Stopped, Fields
<1>1. h.context = "UNIT_SYSTEM"
  BY DEF In, Fields
<1> HIDE DEF h
<1>2. /\ EndUnit(f, s).file = h /\ EndUnit(f, s).system = s
      /\ f.isBase => f.nameSeen /\ f.symbolSeen
  BY <1>0 DEF EndUnit, After, h
<1>3. Complete(s)
  <2> SUFFICES ASSUME NEW n \in 1 .. s.bases, ~Printable(s, n) PROVE FALSE
    BY DEF Complete
  <2>1. Pending(f, n)
    BY DEF Good, CompleteBut
  <2>2. f.nameSeen /\ f.symbolSeen /\ f.unit = Basic("base", n)
    BY <1>2, <2>1 DEF Pending
  <2>3. HasId(s, "name", f.unit) /\ HasId(s, "symbol", f.unit)
    BY <2>2 DEF Good, UnitKnown, InUnit
  <2> QED
    BY <2>2, <2>3 DEF Printable, Kinds
<1>4. ~InUnit(h)
  BY <1>1 DEF InUnit
<1> QED
  BY <1>2, <1>3, <1>4 DEF Good, UnitKnown, Complete, CompleteBut

\* An identifier was given to the unit.
Identified(s, t, e, unit) ==
  /\ SecondNamed(t) /\ t.bases = s.bases /\ HasId(t, e, unit)
  /\ \A k \in Kinds : \A u : HasId(s, k, u) => HasId(t, k, u)

LEMMA IdentifiedGood ==
  ASSUME NEW s, NEW f, NEW e \in {"name", "symbol"}, Good(s, f, e), InUnit(f), f.unit # NoUnit,
         NEW t, Identified(s, t, e, f.unit),
         NEW h, h.context = "UNIT", h.unit = f.unit, h.isBase = f.isBase,
         e = "name" \/ h.nameSeen = f.nameSeen, e = "symbol" \/ h.symbolSeen = f.symbolSeen,
         NEW p, Outer(p), p # Root
  PROVE  Good(t, h, p)
<1>1. ~Naming(h) /\ InUnit(h)
  BY DEF Naming, InUnit
<1>2. h.nameSeen => HasId(t, "name", h.unit)
  BY DEF Good, UnitKnown, Kinds, Identified
<1>3. h.symbolSeen => HasId(t, "symbol", h.unit)
  BY DEF Good, UnitKnown, Kinds, Identified
<1>4. UnitKnown(t, h, p)
  BY <1>1, <1>2, <1>3 DEF UnitKnown, Outer
<1>5. CompleteBut(t, h)
  <2>1. \A n : Pending(h, n) = Pending(f, n)
    BY <1>1 DEF Pending
  <2>2. \A n : Printable(s, n) => Printable(t, n)
    BY DEF Printable, Identified
  <2> QED
    BY <2>1, <2>2 DEF Good, CompleteBut, Identified
<1> QED
  BY <1>4, <1>5 DEF Good, Identified

LEMMA EndUnitNameGood ==
  ASSUME NEW s, Agreeing(s), NEW f, DOMAIN f = Fields, f.context = "UNIT_NAME", IsWord(f.singular),
         Good(s, f, "name"), EndUnitName(f, s).file.status = "reading", NEW p, Outer(p), p # Root
  PROVE  Good(EndUnitName(f, s).system, EndUnitName(f, s).file, p)
<1> DEFINE mapped == WithPlural(f, MapUnitAndId(s, "name", f.singular, f.textEncoding, f.unit))
           h == In([f EXCEPT !.nameSeen = TRUE], "UNIT")
           timed == [mapped.system EXCEPT !.second = f.unit]
           done == IF mapped.ok /\ f.singular = <<"second">> THEN Outcome(TRUE, timed) ELSE mapped
<1>0. Stopped(f).status # "reading" /\ Stopped(h).status # "reading"
  BY DEF Stopped, Fields, In
<1>1. /\ h.context = "UNIT" /\ h.unit = f.unit /\ h.isBase = f.isBase /\ h.nameSeen = TRUE
      /\ h.symbolSeen = f.symbolSeen
  BY DEF In, Fields
<1> HIDE DEF h
<1>2. InUnit(f) /\ Naming(f) /\ f.unit # NoUnit
  BY DEF Good, UnitKnown, InUnit, Naming
<1>3. f.singular # << >> /\ EndUnitName(f, s) = IfMapped(done, h)
  <2>1. EndUnitName(f, s) = IF f.singular = << >> THEN After(Stopped(f), s) ELSE IfMapped(done, h)
    BY DEF EndUnitName, h
  <2>2. After(Stopped(f), s).file = Stopped(f)
    BY DEF After
  <2> HIDE DEF done
  <2> QED
    BY <1>0, <2>1, <2>2
<1> HIDE DEF done
<1>4. done.ok /\ EndUnitName(f, s).file = h /\ EndUnitName(f, s).system = done.system
  BY <1>0, <1>3 DEF IfMapped, After
<1>5. /\ Grows(s, mapped.system)
      /\ mapped.ok => HasId(mapped.system, "name", f.unit)
      /\ mapped.ok /\ f.singular = <<"second">> => MapsTo(mapped.system, "name", <<"second">>, f.unit)
  BY <1>3, NamedGrows
<1> HIDE DEF mapped
<1>6. \A k \in Kinds : \A unit : HasId(s, k, unit) => HasId(mapped.system, k, unit)
  BY <1>5, GrowsOn
<1>7. SecondNamed(mapped.system)
  BY <1>5, GrowsComplete DEF Good
<1>8. CASE mapped.ok /\ f.singular = <<"second">>
  <2>1. done.system = timed
    BY <1>8 DEF done, Outcome
  <2>2. /\ timed.second = f.unit /\ timed.unitOf = mapped.system.unitOf
        /\ timed.idOf = mapped.system.idOf /\ timed.bases = mapped.system.bases
    BY <1>5 DEF Grows, Agreeing, IsSystem
  <2> HIDE DEF timed
  <2>3. SecondNamed(timed)
    BY <1>5, <1>8, <2>2 DEF SecondNamed, MapsTo
  <2>4. \A k \in Kinds : \A unit : HasId(mapped.system, k, unit) => HasId(timed, k, unit)
    BY <2>2 DEF HasId
  <2>5. HasId(timed, "name", f.unit)
    BY <1>5, <1>8, <2>4 DEF Kinds
  <2>6. timed.bases = s.bases
    BY <1>5, <2>2 DEF Grows
  <2>7. Identified(s, timed, "name", f.unit)
    BY <1>6, <2>3, <2>4, <2>5, <2>6 DEF Identified
  <2> QED
    BY <1>1, <1>2, <1>4, <2>1, <2>7, IdentifiedGood
<1>9. CASE ~(mapped.ok /\ f.singular = <<"second">>)
  <2>1. done = mapped
    BY <1>9 DEF done
  <2>2. mapped.system.bases = s.bases
    BY <1>5 DEF Grows
  <2>3. Identified(s, mapped.system, "name", f.unit)
    BY <1>4, <1>5, <1>6, <1>7, <2>1, <2>2 DEF Identified
  <2> QED
    BY <1>1, <1>2, <1>4, <2>1, <2>3, IdentifiedGood
<1> QED
  BY <1>8, <1>9

\* Identifiers of prefixes and aliases change nothing of what is known of the unit.
LEMMA EndPrefixIdGood ==
  ASSUME NEW s, Agreeing(s), NEW f, DOMAIN f = Fields, f.context = "PREFIX", NEW e, Good(s, f, e),
         NEW kind, EndPrefixId(f, s, kind).file.status = "reading", NEW p
  PROVE  Good(EndPrefixId(f, s, kind).system, EndPrefixId(f, s, kind).file, p)
<1> DEFINE h == [f EXCEPT !.prefixAdded = TRUE]
           added == AddPrefix(s, kind, text, f.value)
<1>1. h.context = "PREFIX" /\ Stopped(h).context = "PREFIX"
  BY DEF Fields, Stopped
<1> HIDE DEF h
<1>2. Grows(s, added.system)
  BY AddPrefixGrows
<1> HIDE DEF added
<1>3. EndPrefixId(f, s, kind).file \in {h, Stopped(h)} /\ EndPrefixId(f, s, kind).system = added.system
  BY DEF EndPrefixId, IfMapped, After, h, added
<1> QED
  BY <1>1, <1>2, <1>3, GoodOutside DEF InUnit

LEMMA EndAliasNameGood ==
  ASSUME NEW s, Agreeing(s), NEW f, DOMAIN f = Fields, f.context = "ALIAS_NAME",
         Good(s, f, "name"), EndAliasName(f, s).file.status = "reading", NEW p, Outer(p), p # Root
  PROVE  Good(EndAliasName(f, s).system, EndAliasName(f, s).file, p)
<1> DEFINE first == MapIdsToUnit(s, "name", f.singular, f.textEncoding, f.unit)
           mapped == WithPlural(f, first)
           h == In(f, "ALIASES")
<1>1. SameUnit(f, h) /\ h.context = "ALIASES" /\ Stopped(f).status # "reading" /\ Stopped(h).status # "reading"
  BY DEF In, Fields, SameUnit, Stopped
<1> HIDE DEF h
<1>2. Grows(s, mapped.system)
  <2>1. Grows(s, first.system)
    BY MapIdsToUnitGrows DEF Kinds
  <2> HIDE DEF first
  <2>2. Grows(first.system, mapped.system)
    BY <2>1, WithPluralGrows DEF Grows
  <2> QED
    BY <2>1, <2>2, GrowsOn
<1>3. EndAliasName(f, s).file = h /\ EndAliasName(f, s).system = mapped.system
  <2>1. EndAliasName(f, s) = IF f.singular = << >> THEN After(Stopped(f), s) ELSE IfMapped(mapped, h)
    BY DEF EndAliasName, h
  <2> HIDE DEF mapped
  <2>2. After(Stopped(f), s).file = Stopped(f)
    BY DEF After
  <2>3. IfMapped(mapped, h).file \in {h, Stopped(h)} /\ IfMapped(mapped, h).system = mapped.system
    BY DEF IfMapped, After
  <2> QED
    BY <1>1, <2>1, <2>2, <2>3
<1> HIDE DEF mapped
<1>4. InUnit(f) /\ InUnit(h) /\ ~Naming(h)
  BY <1>1 DEF InUnit, Naming
<1> QED
  BY <1>1, <1>2, <1>3, <1>4, GoodStays DEF Outer

LEMMA EndSymbolGood ==
  ASSUME NEW s, Agreeing(s), NEW f, DOMAIN f = Fields, f.context \in {"PREFIX", "UNIT", "ALIASES"},
         Good(s, f, "symbol"), EndSymbol(f, s).file.status = "reading",
         f.context = "UNIT" => IsWord(text) /\ text # << >>,
         NEW p, Outer(p), p # Root
  PROVE  Good(EndSymbol(f, s).system, EndSymbol(f, s).file, p)
<1>1. CASE f.context = "PREFIX"
  <2>1. EndSymbol(f, s) = EndPrefixId(f, s, "symbol")
    BY <1>1 DEF EndSymbol
  <2> QED
    BY <1>1, <2>1, EndPrefixIdGood
<1>2. CASE f.context = "UNIT"
  <2> DEFINE mapped == MapUnitAndId(s, "symbol", text, f.textEncoding, f.unit)
             h == [f EXCEPT !.symbolSeen = TRUE]
  <2>1. /\ h.context = "UNIT" /\ h.unit = f.unit /\ h.isBase = f.isBase /\ h.nameSeen = f.nameSeen
        /\ h.symbolSeen = TRUE /\ Stopped(h).status # "reading"
    BY <1>2 DEF Fields, Stopped
  <2> HIDE DEF h
  <2>2. Bytes(text, f.textEncoding) # {}
    BY <1>2, SomeDerivative DEF IsWord
  <2>3. Grows(s, mapped.system) /\ (mapped.ok => HasId(mapped.system, "symbol", f.unit))
    BY <2>2, MapUnitAndIdGrows DEF Kinds
  <2> HIDE DEF mapped
  <2>4. EndSymbol(f, s) = IfMapped(mapped, h)
    BY <1>2 DEF EndSymbol, mapped, h
  <2>5. mapped.ok /\ EndSymbol(f, s).file = h /\ EndSymbol(f, s).system = mapped.system
    BY <2>1, <2>4 DEF IfMapped, After
  <2>6. Identified(s, mapped.system, "symbol", f.unit)
    <3>1. SecondNamed(mapped.system)
      BY <2>3, GrowsComplete DEF Good
    <3>2. \A k \in Kinds : \A unit : HasId(s, k, unit) => HasId(mapped.system, k, unit)
      BY <2>3, GrowsOn
    <3> QED
      BY <2>3, <2>5, <3>1, <3>2 DEF Identified, Grows
  <2>7. InUnit(f) /\ f.unit # NoUnit
    BY <1>2 DEF Good, UnitKnown, InUnit
  <2> QED
    BY <2>1, <2>5, <2>6, <2>7, IdentifiedGood
<1>3. CASE f.context = "ALIASES"
  <2> DEFINE mapped == MapIdsToUnit(s, "symbol", text, f.textEncoding, f.unit)
  <2>1. Grows(s, mapped.system)
    BY MapIdsToUnitGrows DEF Kinds
  <2> HIDE DEF mapped
  <2>2. EndSymbol(f, s) = IfMapped(mapped, f)
    BY <1>3 DEF EndSymbol, mapped
  <2>3. Stopped(f).status # "reading" /\ SameUnit(f, f)
    BY DEF Fields, Stopped, SameUnit
  <2>4. EndSymbol(f, s).file = f /\ EndSymbol(f, s).system = mapped.system
    BY <2>2, <2>3 DEF IfMapped, After
  <2>5. InUnit(f) /\ ~Naming(f)
    BY <1>3 DEF InUnit, Naming
  <2> QED
    BY <2>1, <2>3, <2>4, <2>5, GoodStays DEF Outer
<1> QED
  BY <1>1, <1>2, <1>3
-----------------------------------------------------------------------------
(* Elements that end, with what is known.                                  *)

\* The end of an element that was accepted.
LEMMA EndedGood ==
  ASSUME NEW s, Agreeing(s), NEW f, DOMAIN f = Fields, f.skipDepth = 0, IsWord(f.singular),
         NEW e \in Known \ {"import"}, Good(s, f, e), Ended(e, f, s).file.status = "reading",
         e = "unit-system" => f.context = "UNIT_SYSTEM",
         e \in {"prefix", "value"} => f.context = "PREFIX",
         e \in {"unit", "base", "dimensionless", "def"} => f.context = "UNIT",
         e = "name" => f.context \in {"PREFIX", "UNIT_NAME", "ALIAS_NAME"},
         e \in {"singular", "plural"} => f.context \in {"UNIT_NAME", "ALIAS_NAME"},
         e = "symbol" => f.context \in {"PREFIX", "UNIT", "ALIASES"},
         e = "aliases" => f.context = "ALIASES",
         e = "symbol" /\ f.context = "UNIT" => IsWord(text) /\ text # << >>,
         NEW p, Outer(p), e # "unit-system" => p # Root
  PROVE  Good(Ended(e, f, s).system, Ended(e, f, s).file, p)
<1> DEFINE after == Ended(e, f, s)
<1>1. ~(f.skipDepth > 0)
  OBVIOUS
<1>2. Stopped(f).status # "reading" /\ SameUnit(f, f)
  BY DEF Stopped, Fields, SameUnit
<1>3. Grows(s, s)
  BY GrowsOn
<1>4. \A x, y : After(x, y).file = x /\ After(x, y).system = y
  BY DEF After
<1>5. CASE e = "unit-system"
  <2>1. after.file = f /\ after.system = s
    BY <1>1, <1>4, <1>5 DEF Ended
  <2> HIDE DEF after
  <2> QED
    BY <1>3, <1>5, <2>1, GoodOutside DEF InUnit, after
<1>6. CASE e = "prefix"
  <2> DEFINE h == In([f EXCEPT !.haveValue = FALSE], "UNIT_SYSTEM")
  <2>1. h.context = "UNIT_SYSTEM"
    BY DEF In, Fields
  <2> HIDE DEF h
  <2>2. after = After(IF f.haveValue /\ f.prefixAdded THEN h ELSE Stopped(f), s)
    BY <1>1, <1>6 DEF Ended, EndPrefix, h
  <2> HIDE DEF after
  <2>3. after.file = h /\ after.system = s
    BY <1>2, <1>4, <2>2 DEF after
  <2> QED
    BY <1>3, <1>6, <2>1, <2>3, GoodOutside DEF InUnit, after
<1>7. CASE e = "unit"
  <2>1. after = EndUnit(f, s)
    BY <1>1, <1>7 DEF Ended
  <2> QED
    BY <1>7, <2>1, EndUnitGood
<1>8. CASE e = "base"
  <2>1. after = EndBase(f, s)
    BY <1>1, <1>8 DEF Ended
  <2> QED
    BY <1>8, <2>1, EndBaseGood
<1>9. CASE e = "dimensionless"
  <2>1. after = EndDimensionless(f, s)
    BY <1>1, <1>9 DEF Ended
  <2> QED
    BY <1>9, <2>1, EndDimensionlessGood
<1>10. CASE e = "def"
  <2>1. after = EndDef(f, s)
    BY <1>1, <1>10 DEF Ended
  <2> QED
    BY <1>10, <2>1, EndDefGood
<1>11. CASE e = "value"
  <2> DEFINE h == [f EXCEPT !.haveValue = TRUE, !.value = text]
  <2>1. h.context = "PREFIX"
    BY <1>11 DEF Fields
  <2> HIDE DEF h
  <2>2. after = After(IF text \in Numbers \cup {<< >>} THEN h ELSE Stopped(f), s)
    BY <1>1, <1>11 DEF Ended, EndValue, h
  <2> HIDE DEF after
  <2>3. after.file = h /\ after.system = s
    BY <1>2, <1>4, <2>2 DEF after
  <2> QED
    BY <1>3, <1>11, <2>1, <2>3, GoodOutside DEF InUnit, after
<1>12. CASE e = "name"
  <2>1. after = EndName(f, s)
    BY <1>1, <1>12 DEF Ended
  <2>2. CASE f.context = "PREFIX"
    <3>1. after = EndPrefixId(f, s, "name")
      BY <2>1, <2>2 DEF EndName
    <3> QED
      BY <2>2, <3>1, EndPrefixIdGood
  <2>3. CASE f.context = "UNIT_NAME"
    <3>1. after = EndUnitName(f, s)
      BY <2>1, <2>3 DEF EndName
    <3> QED
      BY <1>12, <2>3, <3>1, EndUnitNameGood
  <2>4. CASE f.context = "ALIAS_NAME"
    <3>1. after = EndAliasName(f, s)
      BY <2>1, <2>4 DEF EndName
    <3> QED
      BY <1>12, <2>4, <3>1, EndAliasNameGood
  <2> QED
    BY <1>12, <2>2, <2>3, <2>4
<1>13. CASE e \in {"singular", "plural"}
  <2>1. after.system = s /\ SameUnit(f, after.file) /\ after.file.context = f.context
    <3> DEFINE h1 == [f EXCEPT !.singular = text]
               h2 == [f EXCEPT !.plural = text]
    <3>1. /\ SameUnit(f, h1) /\ h1.context = f.context
          /\ SameUnit(f, h2) /\ h2.context = f.context
      BY DEF Fields, SameUnit
    <3> HIDE DEF h1, h2
    <3>2. after = After(h1, s) \/ after = After(IF text = << >> THEN Stopped(f) ELSE h2, s)
      BY <1>1, <1>13 DEF Ended, EndSingular, EndPlural, h1, h2
    <3> HIDE DEF after
    <3> QED
      BY <1>2, <1>4, <3>1, <3>2 DEF after
  <2> HIDE DEF after
  <2>2. InUnit(f) /\ InUnit(after.file) /\ Naming(f)
    BY <1>13, <2>1 DEF InUnit, Naming
  <2>3. f.unit # NoUnit
    BY <2>2 DEF Good, UnitKnown
  <2> QED
    BY <1>3, <1>13, <2>1, <2>2, <2>3, GoodStays DEF Outer, after
<1>14. CASE e = "symbol"
  <2>1. after = EndSymbol(f, s)
    BY <1>1, <1>14 DEF Ended
  <2> QED
    BY <1>14, <2>1, EndSymbolGood
<1>15. CASE e = "aliases"
  <2>1. after.system = s /\ SameUnit(f, after.file) /\ after.file.context = "UNIT"
    BY <1>1, <1>15 DEF Ended, EndAliases, After, In, Fields, SameUnit
  <2> HIDE DEF after
  <2>2. InUnit(f) /\ InUnit(after.file) /\ ~Naming(after.file)
    BY <1>15, <2>1 DEF InUnit, Naming
  <2> QED
    BY <1>3, <1>15, <2>1, <2>2, GoodStays DEF Outer, after
<1> QED
  BY <1>5, <1>6, <1>7, <1>8, <1>9, <1>10, <1>11, <1>12, <1>13, <1>14, <1>15 DEF Known

-----------------------------------------------------------------------------
(* Every unit stays known.                                                 *)

\* A step of the last file.
LEMMA BecomesGood ==
  ASSUME XInv, Reading, NEW f, "status" \in DOMAIN f, Becomes(f), phase' = phase,
         failure = NoFailure /\ f.status = "reading" => Good(system', f, Inner(f)),
         failure = NoFailure /\ f.status = "UT_SUCCESS" => SecondNamed(system') /\ Complete(system')
  PROVE  UnitsInPlace'
<1> DEFINE new == IF f.status = "reading" THEN f ELSE [FileInit(FALSE) EXCEPT !.status = f.status]
<1>1. new.status = f.status /\ (f.status = "reading" => new = f)
  BY DEF FileInit
<1>2. files' = Append(Seqs!Front(files), new)
  BY DEF Becomes, Parent
<1> HIDE DEF new
<1>3. files # << >> /\ \E S : files \in Seq(S)
  BY DEF Reading, XInv, FilesInOrder
<1>4. PICK S : files \in Seq(S)
  BY <1>3
<1>5. ReplacedBy(files, new, files')
  BY <1>2, <1>3, <1>4, Replaced
<1>6. currFile' = new
  BY <1>5 DEF currFile, Seqs!Last, ReplacedBy
<1>7. failure' = NoFailure => failure = NoFailure /\ f.status \in {"reading", "UT_SUCCESS"}
  <2>1. ASSUME failure = NoFailure, f.status \notin {"reading", "UT_SUCCESS"}
        PROVE  failure' # NoFailure
    <3>1. failure' = [depth |-> Len(files), status |-> f.status]
      BY <2>1 DEF Becomes
    <3>2. failure'.status = f.status /\ NoFailure.status = "UT_SUCCESS"
      BY <3>1 DEF NoFailure
    <3> QED
      BY <2>1, <3>2
  <2> QED
    BY <2>1 DEF Becomes
<1>8. phase' = "reading"
  BY DEF Reading
<1>9. CASE f.status = "reading"
  <2>1. failure' = NoFailure => Good(system', f, Inner(f))
    BY <1>7, <1>9
  <2>2. currFile' = f
    BY <1>1, <1>6, <1>9
  <2>3. Good(system', f, Inner(f)) => Good(system, currFile, Inner(currFile))'
    BY <2>2 DEF Good, Inner
  <2> QED
    BY <1>8, <1>9, <2>1, <2>2, <2>3 DEF UnitsInPlace
<1>10. CASE f.status # "reading"
  <2>1. currFile'.status # "reading"
    BY <1>1, <1>6, <1>10
  <2>2. failure' = NoFailure => SecondNamed(system') /\ Complete(system')
    BY <1>7, <1>10
  <2> QED
    BY <1>8, <2>1, <2>2 DEF UnitsInPlace, SecondNamed, Complete, Printable, HasId, MapsTo
<1> QED
  BY <1>9, <1>10

LEMMA CurrentGood ==
  ASSUME XInv, UnitsInPlace, Reading
  PROVE  failure = NoFailure /\ Good(system, currFile, Inner(currFile)) /\ Agreeing(system)
<1>1. phase = "reading" /\ currFile.status = "reading" /\ Agreeing(system)
  BY ReadingInOrder DEF Reading
<1>2. failure = NoFailure
  BY <1>1 DEF XInv, FailureTold, Failed
<1> QED
  BY <1>1, <1>2 DEF UnitsInPlace

\* The elements that are open and not skipped stay.
LEMMA InnerSame ==
  ASSUME NEW f, NEW h, Depth(h) = Depth(f), Depth(f) >= 1 => At(h, Depth(f)) = At(f, Depth(f))
  PROVE  Inner(h) = Inner(f)
BY DEF Inner

LEMMA StartElementGood ==
  ASSUME WellNested, XInv, DocumentsInPlace, UnitsInPlace, NEW e \in Elements, StartElement(e)
  PROVE  UnitsInPlace'
<1> DEFINE c == currFile
           f == Push(c, e)
           g == [f EXCEPT !.textEncoding = "UT_ASCII"]
           skipped == [f EXCEPT !.skipDepth = @ + 1]
           n == Len(c.open)
<1>1. Reading /\ phase' = phase /\ system' = system
  BY DEF StartElement, StartTag, Begun
<1>2. InPlace(c) /\ c.status = "reading" /\ Good(system, c, Inner(c)) /\ Agreeing(system)
  BY <1>1, CurrentInPlace, CurrentGood
<1>3. e \in Nesting[Innermost] /\ (c.open = << >> => ~c.rooted)
  BY DEF StartElement, StartTag, Begun
<1>4. \/ c.skipDepth > 0 /\ Becomes(skipped)
      \/ ~(c.skipDepth > 0) /\ Becomes(Started(e, g))
  <2>1. f.skipDepth = c.skipDepth
    BY <1>2 DEF Push, InPlace, Fields
  <2> QED
    BY <2>1 DEF StartElement, StartTag, Begun
<1>5. /\ n \in Nat /\ Len(Append(c.open, Opened(e))) = n + 1
      /\ Append(c.open, Opened(e))[n + 1] = Opened(e)
      /\ \A i \in 1 .. n : Append(c.open, Opened(e))[i] = c.open[i]
  <2>1. Stack(c.open) /\ IsOpened(Opened(e))
    BY <1>2, OpenedIsOpened DEF InPlace
  <2> HIDE DEF c
  <2> QED
    BY <2>1, Pushed
<1>6. c.skipDepth \in Nat /\ c.skipDepth <= n
  BY <1>2 DEF InPlace
<1> HIDE DEF n
\* An element that is skipped changes nothing.
<1>7. ASSUME NEW h, h.open = Append(c.open, Opened(e)), h.skipDepth = c.skipDepth + 1,
             SameUnit(c, h), h.context = c.context
      PROVE  Good(system, h, Inner(h))
  <2>1. Depth(h) = Depth(c) /\ Depth(c) \in Nat /\ Depth(c) <= n
    <3>1. Depth(h) = (n + 1) - (c.skipDepth + 1) /\ Depth(c) = n - c.skipDepth
      BY <1>5, <1>7 DEF Depth, n
    <3> QED
      BY <1>5, <1>6, <3>1
  <2>2. Depth(c) >= 1 => At(h, Depth(c)) = At(c, Depth(c))
    BY <1>5, <1>7, <2>1 DEF At
  <2> HIDE DEF c
  <2>3. Inner(h) = Inner(c)
    BY <2>1, <2>2, InnerSame
  <2> QED
    BY <1>2, <1>7, <2>3, GoodSame
<1>8. CASE c.skipDepth > 0 /\ Becomes(skipped)
  <2>1. /\ skipped.open = Append(c.open, Opened(e)) /\ skipped.skipDepth = c.skipDepth + 1
        /\ SameUnit(c, skipped) /\ skipped.context = c.context
        /\ "status" \in DOMAIN skipped /\ skipped.status = "reading"
    BY <1>2 DEF InPlace, Push, Fields, SameUnit
  <2> HIDE DEF skipped, c
  <2>2. Good(system', skipped, Inner(skipped))
    BY <1>1, <1>7, <2>1
  <2> QED
    BY <1>1, <1>8, <2>1, <2>2, BecomesGood
<1>9. CASE ~(c.skipDepth > 0) /\ Becomes(Started(e, g))
  <2>1. c.skipDepth = 0
    BY <1>6, <1>9
  <2>2. Starting(c, g, e)
    BY <1>2, PushStarts
  <2>3. SameUnit(c, g) /\ g.context = c.context /\ Read(g) /\ DOMAIN g = Fields
    <3>1. SameUnit(c, g)
      BY <1>2 DEF InPlace, Push, Fields, SameUnit
    <3> QED
      BY <2>2, <3>1 DEF Starting, Read, Fields
  <2> HIDE DEF g
  <2> DEFINE h == Started(e, g)
  <2>4. Handled(h)
    BY <2>3, StartedHandles
  <2>5. h.status # "UT_SUCCESS" /\ "status" \in DOMAIN h
    BY <2>4 DEF Handled
  <2>6. ASSUME h.status = "reading" PROVE Good(system, h, Inner(h))
    <3>1. h.open = Append(c.open, Opened(e)) /\ (e \in Known => h.skipDepth = 0)
      <4>1. IF c.open = << >> THEN ~c.rooted /\ e \in Nesting[Root] ELSE e \in Nesting[Seqs!Last(c.open).name]
        BY <1>3 DEF Innermost
      <4>2. h.open = g.open /\ (e \in Known => h.skipDepth = 0)
        <5> HIDE DEF c
        <5> QED
          BY <1>2, <2>1, <2>2, <2>6, <4>1, StartedInPlace
      <4> QED
        BY <2>2, <4>2 DEF Starting
    <3>2. CASE e \in Known
      <4>1. e = "prefix" => ~InUnit(g)
        <5> SUFFICES ASSUME e = "prefix" PROVE c.context \in {"START", "UNIT_SYSTEM", "PREFIX"}
          BY <2>3 DEF InUnit
        <5>1. c.open = << >> => c.context = "START"
          BY <1>2, <1>3 DEF InPlace
        <5>2. ASSUME c.open # << >> PROVE c.context \in {"UNIT_SYSTEM", "PREFIX"}
          <6> DEFINE p == Seqs!Last(c.open).name
          <6>1. e \in Nesting[p]
            BY <1>3, <5>2 DEF Innermost
          <6>2. p \in Elements
            <7>1. Stack(c.open)
              BY <1>2 DEF InPlace
            <7> HIDE DEF c
            <7> QED
              BY <5>2, <7>1, Popped DEF Stack, IsOpened
          <6>3. p \in DOMAIN Nesting
            BY <6>2 DEF Elements
          <6>4. p \notin {"unit", "aliases"}
            BY <6>1, <6>3 DEF WellNested, Known
          <6> HIDE DEF p, c
          <6>5. LET q == At(c, Len(c.open))
                IN /\ q = p
                   /\ \/ q = "unit-system" /\ c.context = "UNIT_SYSTEM"
                      \/ q = "prefix" /\ c.context = "PREFIX"
                      \/ q = "unit" /\ c.context = "UNIT"
                      \/ q = "aliases" /\ c.context = "ALIASES"
            BY <1>2, <2>1, <5>2, <6>1, Around DEF p
          <6> QED
            BY <6>4, <6>5
        <5> QED
          BY <5>1, <5>2
      <4>2. Good(system, g, Inner(c))
        BY <1>2, <2>3, GoodSame
      <4>3. Good(system, h, e)
        <5> HIDE DEF c
        <5> QED
          BY <1>2, <2>3, <2>6, <3>2, <4>1, <4>2, StartedGood
      <4>4. Inner(h) = e
        <5>1. h.skipDepth = 0
          BY <3>1, <3>2
        <5>2. Depth(h) = n + 1 /\ At(h, n + 1) = e
          BY <1>5, <3>1, <5>1 DEF Depth, At, Opened
        <5> QED
          BY <1>5, <5>2 DEF Inner
      <4> QED
        BY <4>3, <4>4
    <3>3. CASE e \notin Known
      <4>1. h = [g EXCEPT !.skipDepth = 1]
        BY <2>3, <2>6, <3>3, StartedGoes
      <4> HIDE DEF h
      <4>2. h.skipDepth = 1 /\ SameUnit(g, h) /\ h.context = g.context
        BY <2>3, <4>1 DEF Fields, SameUnit
      <4>3. h.skipDepth = c.skipDepth + 1 /\ SameUnit(c, h) /\ h.context = c.context
        BY <2>1, <2>3, <4>2 DEF SameUnit
      <4> HIDE DEF c
      <4> QED
        BY <1>7, <3>1, <4>3
    <3> QED
      BY <3>2, <3>3
  <2> HIDE DEF h, c
  <2> QED
    BY <1>1, <1>9, <2>5, <2>6, BecomesGood DEF h
<1> QED
  BY <1>4, <1>8, <1>9
-----------------------------------------------------------------------------
(* Steps, with what is known.                                              *)

LEMMA CharactersGood ==
  ASSUME WellNested, XInv, DocumentsInPlace, UnitsInPlace, NEW word, Characters(word)
  PROVE  UnitsInPlace'
<1> DEFINE c == currFile
           n == Len(c.open)
           f == [c EXCEPT !.open[n].chars = word]
           coded == [f EXCEPT !.textEncoding = "UT_UTF8"]
<1>1. Reading /\ phase' = phase /\ system' = system /\ c.open # << >>
  BY DEF Characters
<1>2. InPlace(c) /\ c.status = "reading" /\ DOMAIN c = Fields /\ Good(system, c, Inner(c))
  BY <1>1, CurrentInPlace, CurrentGood DEF InPlace
<1>3. Becomes(f) \/ Becomes(coded)
  BY DEF Characters
<1>4. /\ DOMAIN f = Fields /\ f.status = "reading" /\ f.open = [c.open EXCEPT ![n].chars = word]
      /\ f.skipDepth = c.skipDepth /\ f.context = c.context /\ SameUnit(c, f)
  BY <1>2 DEF Fields, SameUnit
<1>5. PICK S : c.open \in Seq(S)
  BY <1>2 DEF InPlace, Stack
<1>6. \A i \in 1 .. n : DOMAIN c.open[i] = {"name", "chars"}
  BY <1>2 DEF InPlace, Stack, IsOpened
<1> HIDE DEF f
<1>7. Len(f.open) = n /\ \A i \in 1 .. n : f.open[i].name = c.open[i].name
  <2> HIDE DEF c
  <2>1. DOMAIN c.open = 1 .. n /\ n \in Nat
    BY <1>5
  <2>2. DOMAIN f.open = 1 .. n
    BY <1>4, <2>1
  <2>3. f.open = [ i \in 1 .. n |-> f.open[i] ]
    BY <1>4, <2>1
  <2>4. Len(f.open) = n
    BY <2>1, <2>3
  <2>5. \A i \in 1 .. n : f.open[i].name = c.open[i].name
    <3> TAKE i \in 1 .. n
    <3>1. CASE i # n
      BY <1>4, <2>1, <3>1
    <3>2. CASE i = n
      <4>1. f.open[n] = [c.open[n] EXCEPT !.chars = word]
        BY <1>4, <2>1, <3>2
      <4>2. "name" \in DOMAIN c.open[n]
        BY <1>6, <3>2
      <4> QED
        BY <3>2, <4>1, <4>2
    <3> QED
      BY <3>1, <3>2
  <2> QED
    BY <2>4, <2>5
<1>8. Inner(f) = Inner(c)
  <2>1. Depth(f) = Depth(c)
    BY <1>4, <1>7 DEF Depth
  <2>2. c.skipDepth \in Nat /\ n \in Nat /\ Depth(c) = n - c.skipDepth
    BY <1>2, <1>5 DEF InPlace, Depth
  <2> HIDE DEF c, n
  <2>3. Depth(c) >= 1 => At(f, Depth(c)) = At(c, Depth(c))
    BY <1>7, <2>2 DEF At
  <2> QED
    BY <2>1, <2>3, InnerSame
<1> HIDE DEF c, n
<1>9. Good(system, f, Inner(f))
  BY <1>2, <1>4, <1>8, GoodSame
<1>10. /\ coded.open = f.open /\ coded.skipDepth = f.skipDepth /\ coded.context = f.context
       /\ SameUnit(f, coded) /\ coded.status = "reading" /\ "status" \in DOMAIN coded
       /\ "status" \in DOMAIN f
  BY <1>4 DEF Fields, SameUnit
<1> HIDE DEF coded
<1>11. Inner(coded) = Inner(f)
  BY <1>10 DEF Inner, Depth, At
<1>12. Good(system, coded, Inner(coded))
  BY <1>9, <1>10, <1>11, GoodSame
<1>13. Good(system', f, Inner(f)) /\ Good(system', coded, Inner(coded))
  BY <1>1, <1>9, <1>12
<1> QED
  BY <1>1, <1>3, <1>4, <1>10, <1>13, BecomesGood

LEMMA EndElementGood ==
  ASSUME WellNested, << >> \notin Content["symbol"], XInv, DocumentsInPlace, UnitsInPlace, EndElement
  PROVE  UnitsInPlace'
<1> DEFINE c == currFile
           e == Innermost
           after == Ended(e, c, system)
           h == after.file
           f == IgnoreText(Pop(h))
           n == Len(c.open)
<1>1. Reading /\ phase' = phase /\ c.open # << >> /\ Becomes(f) /\ system' = after.system
  BY DEF EndElement, EndTag
<1>2. InPlace(c) /\ c.status = "reading" /\ Read(c) /\ Agreeing(system) /\ Good(system, c, Inner(c))
  BY <1>1, CurrentInPlace, CurrentGood
<1>3. /\ e = Seqs!Last(c.open).name /\ (e = "import" => c.skipDepth > 0)
      /\ HoldsText(c.open) /\ Seqs!Last(c.open).chars = << >> => << >> \in Content[e]
  BY <1>1 DEF EndElement, EndTag, Innermost
<1>4. Handled(h)
  BY <1>2, EndedKeeps
<1>5. /\ DOMAIN c = Fields /\ IsWord(c.singular) /\ c.skipDepth \in Nat /\ c.skipDepth <= n
      /\ Stack(c.open)
  BY <1>2 DEF InPlace
<1>6. /\ Stack(Seqs!Front(c.open)) /\ n \in Nat \ {0} /\ Len(Seqs!Front(c.open)) = n - 1
      /\ Seqs!Last(c.open) = c.open[n]
      /\ \A i \in 1 .. n - 1 : Seqs!Front(c.open)[i] = c.open[i]
  <2> HIDE DEF c
  <2> QED
    BY <1>1, <1>5, Popped
<1> HIDE DEF n, e
<1>7. "status" \in DOMAIN f /\ f.status = h.status
  BY <1>4 DEF Handled, IgnoreText, Pop
<1>8. ASSUME h.status = "reading" PROVE Good(after.system, f, Inner(f))
  <2>1. CASE c.skipDepth > 0
    <3>1. h = [c EXCEPT !.skipDepth = @ - 1] /\ after.system = system
      BY <2>1 DEF Ended, After
    <3> HIDE DEF h, after
    <3>2. /\ f.open = Seqs!Front(c.open) /\ f.skipDepth = c.skipDepth - 1
          /\ f.context = c.context /\ SameUnit(c, f)
      BY <1>5, <3>1 DEF IgnoreText, Pop, Fields, SameUnit
    <3> HIDE DEF f, c
    <3>3. Depth(f) = Depth(c) /\ Depth(c) \in Nat /\ Depth(c) <= n - 1
      <4>1. Depth(f) = (n - 1) - (c.skipDepth - 1) /\ Depth(c) = n - c.skipDepth
        BY <1>6, <3>2 DEF Depth, n
      <4> QED
        BY <1>5, <1>6, <2>1, <4>1
    <3>4. Depth(c) >= 1 => At(f, Depth(c)) = At(c, Depth(c))
      BY <1>6, <3>2, <3>3 DEF At
    <3>5. Inner(f) = Inner(c)
      BY <3>3, <3>4, InnerSame
    <3> QED
      BY <1>2, <3>1, <3>2, <3>5, GoodSame
  <2>2. CASE c.skipDepth = 0
    <3>1. /\ Depth(c) = n /\ At(c, n) = e
          /\ IF n = 1 THEN e = "unit-system" ELSE e \in Held(At(c, n - 1))
          /\ e = "unit-system" => c.context = "UNIT_SYSTEM"
          /\ e \in {"prefix", "value"} => c.context = "PREFIX"
          /\ e \in {"unit", "base", "dimensionless", "def"} => c.context = "UNIT"
          /\ e = "name" => c.context \in {"PREFIX", "UNIT_NAME", "ALIAS_NAME"}
          /\ e \in {"singular", "plural"} => c.context \in {"UNIT_NAME", "ALIAS_NAME"}
          /\ e = "symbol" => c.context \in {"PREFIX", "UNIT", "ALIASES"}
          /\ e = "aliases" => c.context = "ALIASES"
      <4> HIDE DEF c
      <4> QED
        BY <1>1, <1>2, <1>3, <2>2, EndingWithin DEF n
    <3>2. e \in Known \ {"import"}
      BY <1>3, <2>2, <3>1 DEF Held, Known
    <3>3. Inner(c) = e
      BY <1>6, <3>1 DEF Inner
    <3>4. e = "symbol" => IsWord(text) /\ text # << >>
      <4> SUFFICES ASSUME e = "symbol" PROVE IsWord(text) /\ text # << >>
        OBVIOUS
      <4>1. HoldsText(c.open)
        <5>1. "symbol" \in Leaves
          BY DEF WellNested
        <5> QED
          BY <1>1, <1>3, <5>1 DEF HoldsText
      <4>2. c.accumulating
        BY <1>2, <2>2, <4>1 DEF InPlace, HoldsText
      <4>3. text = Seqs!Last(c.open).chars
        BY <1>1, <4>2 DEF DocumentsInPlace
      <4>4. IsWord(Seqs!Last(c.open).chars)
        BY <1>5, <1>6 DEF Stack, IsOpened, n
      <4> QED
        BY <1>3, <4>1, <4>3, <4>4
    <3> DEFINE p == Inner(f)
    <3>5. f.open = Seqs!Front(c.open) /\ f.skipDepth = 0 /\ SameUnit(h, f) /\ f.context = h.context
      <4>1. \E context : Ends(c, h, context)
        <5>1. /\ e \in {"prefix", "unit"} => Ends(c, h, "UNIT_SYSTEM")
              /\ e = "aliases" => Ends(c, h, "UNIT")
              /\ e = "name" => /\ c.context = "UNIT_NAME" => Ends(c, h, "UNIT")
                               /\ c.context = "ALIAS_NAME" => Ends(c, h, "ALIASES")
                               /\ c.context = "PREFIX" => Ends(c, h, c.context)
              /\ e \in (Plain \ {"name", "import"}) \cup {"unit-system"} => Ends(c, h, c.context)
          <6> HIDE DEF c
          <6> QED
            BY <1>2, <1>5, <1>8, <2>2, EndedEnds
        <5> HIDE DEF h, c
        <5> QED
          BY <3>1, <3>2, <5>1 DEF Known, Plain
      <4> HIDE DEF h, c
      <4> QED
        BY <2>2, <4>1 DEF Ends, IgnoreText, Pop, Fields, SameUnit
    <3>6. Outer(p) /\ (e # "unit-system" => p # Root)
      <4> HIDE DEF f, h, c
      <4>1. Depth(f) = n - 1
        BY <1>6, <3>5 DEF Depth
      <4>2. CASE n = 1
        BY <3>1, <4>1, <4>2 DEF Inner, Outer, Root
      <4>3. CASE n # 1
        <5>1. n - 1 >= 1 /\ n - 1 \in 1 .. n - 1
          BY <1>6, <4>3
        <5>2. p = At(c, n - 1)
          BY <1>6, <3>5, <4>1, <5>1 DEF Inner, At
        <5> QED
          BY <3>1, <4>3, <5>2 DEF Held, Outer, Root
      <4> QED
        BY <4>2, <4>3
    <3> HIDE DEF p
    <3>7. Good(after.system, h, p)
      <4> HIDE DEF c
      <4>1. Good(system, c, e)
        BY <1>2, <3>3
      <4> QED
        BY <1>2, <1>5, <1>8, <2>2, <3>1, <3>2, <3>4, <3>6, <4>1, EndedGood
    <3> HIDE DEF f, h, after
    <3>8. Good(after.system, f, p)
      BY <3>5, <3>7, GoodSame
    <3> QED
      BY <3>8 DEF p
  <2> QED
    BY <1>5, <2>1, <2>2
<1>9. h.status # "UT_SUCCESS"
  BY <1>4 DEF Handled
<1> HIDE DEF f, h, after, c
<1>10. h.status = "reading" => Good(system', f, Inner(f))
  BY <1>1, <1>8
<1> QED
  BY <1>1, <1>7, <1>9, <1>10, BecomesGood
-----------------------------------------------------------------------------
(* Imports, with what is known.                                            *)

\* A file that has not begun or that reads an <import> reads no <unit>.
LEMMA EmptyElementGood ==
  ASSUME XInv, UnitsInPlace, NEW e, EmptyElement(e)
  PROVE  UnitsInPlace'
<1>1. Reading /\ phase' = phase
  BY EmptyElementStops
<1>2. PICK f : "status" \in DOMAIN f /\ f.status = "UT_PARSE" /\ Becomes(f)
  BY EmptyElementStops
<1> QED
  BY <1>1, <1>2, BecomesGood

LEMMA CrashGood ==
  ASSUME Crash
  PROVE  UnitsInPlace'
BY DEF Crash, UnitsInPlace

LEMMA EndImportGood ==
  ASSUME XInv, DocumentsInPlace, UnitsInPlace, EndImport
  PROVE  UnitsInPlace'
<1>1. Reading /\ phase' = phase /\ system' = system /\ Innermost = "import" /\ currFile.skipDepth = 0
  BY DEF EndImport, EndTag
<1>2. InPlace(currFile) /\ Read(currFile) /\ Good(system, currFile, Inner(currFile)) /\ Agreeing(system)
  BY <1>1, CurrentInPlace, CurrentGood
<1>3. currFile.open # << >> /\ Seqs!Last(currFile.open).name = "import"
  BY <1>1 DEF Innermost, Root
<1>4. ASSUME NEW added, files' = Append(files, FileInit(added)), failure' = failure
      PROVE  UnitsInPlace'
  <2> DEFINE top == FileInit(added)
             c == currFile
  <2>1. top.context = "START" /\ top.status = "reading"
    BY DEF FileInit
  <2> HIDE DEF top
  <2>2. ~InUnit(c) /\ ~InUnit(top)
    <3>1. Importing(c)
      BY <1>1, <1>2, <1>3, ImportIsSecond
    <3>2. Len(c.open) = 2 /\ At(c, 2) = "import" /\ Depth(c) = 2 /\ Placed(c, 1)
      <4>1. Len(c.open) = 2 /\ At(c, 2) = "import" /\ Depth(c) = 2
        BY <3>1 DEF Importing, Depth
      <4> QED
        BY <1>2, <4>1 DEF InPlace
    <3>3. c.context = ContextAt(c.open, 2) /\ c.open[1].name = "unit-system" /\ c.open[2].name = "import"
      BY <1>2, <3>2 DEF InPlace, Placed, At
    <3> HIDE DEF c
    <3>4. c.context = "UNIT_SYSTEM"
      BY <3>3 DEF ContextAt, ContextOf
    <3> QED
      BY <2>1, <3>4 DEF InUnit
  <2>3. currFile' = top
    <3>1. PICK S : files \in Seq(S)
      BY DEF XInv, FilesInOrder
    <3>2. files \in Seq(S \cup {top})
      <4>1. files = [ i \in 1 .. Len(files) |-> files[i] ] /\ \A i \in 1 .. Len(files) : files[i] \in S
        BY <3>1
      <4> QED
        BY <3>1, <4>1
    <3>3. Len(files') = Len(files) + 1 /\ files'[Len(files) + 1] = top
      BY <1>4, <3>2 DEF top
    <3> QED
      BY <3>3 DEF currFile, Seqs!Last
  <2>4. Good(system, top, Inner(top))
    <3>1. Grows(system, system)
      BY <1>2, GrowsOn
    <3> HIDE DEF c
    <3> QED
      BY <1>2, <2>2, <3>1, GoodOutside DEF c
  <2>5. Good(system, currFile, Inner(currFile))'
    BY <1>1, <2>3, <2>4 DEF Good, Inner
  <2> QED
    BY <1>1, <2>1, <2>3, <2>5 DEF UnitsInPlace, Reading
<1>5. CASE Becomes(Stopped(currFile))
  <2>1. "status" \in DOMAIN Stopped(currFile) /\ Stopped(currFile).status = "UT_PARSE"
    BY <1>2, StoppedIsStopped
  <2> QED
    BY <1>1, <1>5, <2>1, BecomesGood
<1> QED
  BY <1>4, <1>5 DEF EndImport, EndTag

LEMMA DeclareXmlGood ==
  ASSUME XInv, UnitsInPlace, DeclareXml
  PROVE  UnitsInPlace'
<1>1. Reading /\ phase' = phase /\ system' = system /\ (Becomes(currFile) \/ Becomes(Stopped(currFile)))
  BY DEF DeclareXml
<1>2. Read(currFile) /\ Good(system, currFile, Inner(currFile))
  BY <1>1, CurrentGood, ReadingInOrder
<1>3. "status" \in DOMAIN Stopped(currFile) /\ Stopped(currFile).status = "UT_PARSE"
  BY <1>2, StoppedIsStopped
<1>4. "status" \in DOMAIN currFile /\ currFile.status = "reading"
  BY <1>2 DEF Read
<1> DEFINE c == currFile
<1>5. Good(system', c, Inner(c))
  BY <1>1, <1>2
<1> HIDE DEF c
<1> QED
  BY <1>1, <1>3, <1>4, <1>5, BecomesGood DEF c

\* The root element has ended.
LEMMA EndOfFileGood ==
  ASSUME XInv, DocumentsInPlace, UnitsInPlace, EndOfFile
  PROVE  UnitsInPlace'
<1> DEFINE c == currFile
           f == [c EXCEPT !.status = "UT_SUCCESS"]
<1>1. Reading /\ phase' = phase /\ system' = system /\ Becomes(f) /\ c.open = << >>
  BY DEF EndOfFile
<1>2. Read(c) /\ InPlace(c) /\ Good(system, c, Inner(c))
  BY <1>1, CurrentGood, CurrentInPlace
<1>3. "status" \in DOMAIN f /\ f.status = "UT_SUCCESS"
  BY <1>2 DEF Read
<1> HIDE DEF f
<1>4. Inner(c) = Root
  <2>1. Len(c.open) = 0 /\ c.skipDepth \in Nat
    BY <1>1, <1>2 DEF InPlace
  <2>2. ~(Depth(c) >= 1)
    BY <2>1 DEF Depth
  <2> QED
    BY <2>2 DEF Inner
<1>5. SecondNamed(system) /\ Complete(system)
  <2>1. ~InUnit(c)
    BY <1>2, <1>4 DEF Good, UnitKnown
  <2> HIDE DEF c
  <2> QED
    BY <1>2, <2>1 DEF Good, Complete, CompleteBut, Pending
<1>6. SecondNamed(system') /\ Complete(system')
  BY <1>1, <1>5
<1> QED
  BY <1>1, <1>3, <1>6, BecomesGood

LEMMA BreakGood ==
  ASSUME XInv, UnitsInPlace, Break
  PROVE  UnitsInPlace'
<1>1. Reading /\ phase' = phase
  BY DEF Break
<1>2. PICK why \in {"UT_OS", "UT_PARSE"} : Becomes([currFile EXCEPT !.status = why])
  BY DEF Break
<1> DEFINE f == [currFile EXCEPT !.status = why]
<1>3. "status" \in DOMAIN f /\ f.status = why
  BY <1>1, ReadingInOrder DEF Read
<1>4. Becomes(f)
  BY <1>2
<1> HIDE DEF f
<1> QED
  BY <1>1, <1>2, <1>3, <1>4, BecomesGood

LEMMA ReturnGood ==
  ASSUME WellNested, XInv, DocumentsInPlace, UnitsInPlace, Return
  PROVE  UnitsInPlace'
<1> DEFINE g == Seqs!Last(Parent)
           f == Imported(currFile, g)
<1>1. /\ phase = "reading" /\ Len(files) > 1 /\ phase' = phase /\ system' = system /\ failure' = failure
      /\ files' = Append(Seqs!Front(Parent), f) /\ currFile.status # "reading"
  BY DEF Return
<1>2. PICK S : files \in Seq(S)
  BY DEF XInv, FilesInOrder
<1>3. /\ Parent \in Seq(S) /\ Len(Parent) = Len(files) - 1 /\ Parent # << >>
      /\ \A i \in 1 .. Len(files) - 1 : Parent[i] = files[i]
  BY <1>1, <1>2, ParentsAreFiles
<1>4. Len(files) \in Nat /\ Len(files) > 1
  BY <1>1, <1>2
<1>5. g = files[Len(files) - 1]
  BY <1>3, <1>4 DEF Seqs!Last
<1>6. Read(g) /\ InPlace(g) /\ Importing(g) /\ g.status = "reading"
  <2>1. Len(files) - 1 \in 1 .. Len(files) - 1 /\ Len(files) - 1 \in 1 .. Len(files)
    BY <1>4
  <2> QED
    BY <1>5, <2>1 DEF XInv, FilesInOrder, Read, DocumentsInPlace
<1> HIDE DEF g
<1>7. ASSUME f.status = "reading" PROVE ~InUnit(f)
  <2>1. f = IgnoreText(Pop(g))
    <3>1. Stopped(g).status # "reading"
      BY <1>6, StoppedIsStopped
    <3> QED
      BY <1>7, <3>1 DEF Imported
  <2>2. f.context = g.context
    BY <1>6, <2>1 DEF IgnoreText, Pop, InPlace, Fields
  <2>3. Len(g.open) = 2 /\ At(g, 2) = "import" /\ Depth(g) = 2 /\ Placed(g, 1)
    <3>1. Len(g.open) = 2 /\ At(g, 2) = "import" /\ Depth(g) = 2
      BY <1>6 DEF Importing, Depth
    <3> QED
      BY <1>6, <3>1 DEF InPlace
  <2>4. g.context = ContextAt(g.open, 2) /\ g.open[1].name = "unit-system" /\ g.open[2].name = "import"
    BY <1>6, <2>3 DEF InPlace, Placed, At
  <2>5. g.context = "UNIT_SYSTEM"
    BY <2>4 DEF ContextAt, ContextOf
  <2> QED
    BY <2>2, <2>5 DEF InUnit
<1>8. ASSUME f.status # "reading" PROVE failure # NoFailure
  <2>1. currFile.status # "UT_SUCCESS"
    BY <1>6, <1>8 DEF Imported, IgnoreText, Pop, InPlace, Fields
  <2> QED
    BY <1>1, <2>1 DEF XInv, FailureTold, Failed, NoFailure
<1> HIDE DEF f
<1>9. ReplacedBy(Parent, f, files')
  BY <1>1, <1>3, Replaced
<1>10. currFile' = f
  <2>1. Len(files') = Len(files) - 1 /\ files'[Len(files')] = f
    BY <1>3, <1>4, <1>9 DEF ReplacedBy
  <2> QED
    BY <2>1 DEF currFile, Seqs!Last
<1>11. ASSUME failure = NoFailure PROVE Good(system, f, Inner(f)) /\ f.status = "reading"
  <2>1. SecondNamed(system) /\ Complete(system)
    BY <1>1, <1>11 DEF UnitsInPlace
  <2>2. f.status = "reading" /\ ~InUnit(f)
    BY <1>7, <1>8, <1>11
  <2> QED
    BY <2>1, <2>2 DEF Good, UnitKnown, Complete, CompleteBut
<1>12. failure = NoFailure => Good(system, currFile, Inner(currFile))' /\ (currFile').status = "reading"
  BY <1>1, <1>10, <1>11 DEF Good, Inner
<1> QED
  BY <1>1, <1>12 DEF UnitsInPlace

LEMMA ReadXmlGood ==
  ASSUME ReadXml
  PROVE  UnitsInPlace'
<1>1. ASSUME NEW added, files' = <<FileInit(added)>>, system' = EmptySystem, phase' = "reading"
      PROVE  UnitsInPlace'
  <2> DEFINE top == FileInit(added)
  <2>1. top.context = "START" /\ top.status = "reading"
    BY DEF FileInit
  <2>2. files' = <<top>>
    BY <1>1
  <2> HIDE DEF top
  <2>3. currFile' = top
    BY <2>2 DEF currFile, Seqs!Last
  <2>4. EmptySystem.second = NoUnit /\ EmptySystem.bases = 0
    BY DEF EmptySystem
  <2> DEFINE s == EmptySystem
  <2> HIDE DEF s
  <2>5. SecondNamed(s) /\ Complete(s)
    BY <2>4 DEF SecondNamed, Complete, s
  <2>6. Good(s, top, Inner(top))
    BY <2>1, <2>5 DEF Good, UnitKnown, Complete, CompleteBut, InUnit
  <2>7. Good(system, currFile, Inner(currFile))'
    BY <1>1, <2>3, <2>6 DEF Good, Inner, s
  <2> QED
    BY <1>1, <2>1, <2>3, <2>7 DEF UnitsInPlace
<1>2. CASE system' = NoSystem /\ phase' = "returned"
  BY <1>2 DEF UnitsInPlace
<1> QED
  BY <1>1, <1>2 DEF ReadXml

LEMMA ReadXmlReturnsGood ==
  ASSUME XInv, UnitsInPlace, ReadXmlReturns
  PROVE  UnitsInPlace'
<1>1. /\ phase = "reading" /\ currFile.status # "reading" /\ phase' = "returned"
      /\ system' = IF currFile.status = "UT_SUCCESS" THEN system ELSE NoSystem
      /\ Len(files) = 1
  BY DEF ReadXmlReturns
<1>2. CASE currFile.status = "UT_SUCCESS"
  <2>1. failure = NoFailure
    BY <1>1, <1>2 DEF XInv, FailureTold, Failed
  <2>2. SecondNamed(system) /\ Complete(system)
    BY <1>1, <2>1 DEF UnitsInPlace
  <2>3. SecondNamed(system)' /\ Complete(system)'
    BY <1>1, <1>2, <2>2
  <2> QED
    BY <1>1, <2>3 DEF UnitsInPlace
<1>3. CASE currFile.status # "UT_SUCCESS"
  BY <1>1, <1>3 DEF UnitsInPlace
<1> QED
  BY <1>2, <1>3

-----------------------------------------------------------------------------
(* Completeness.                                                           *)

\* In a system that is returned every base unit can be printed and read by name and by
\* symbol, and the second is the unit of that name, whatever was read, imported,
\* skipped or aliased, if the documents keep to the content model and no symbol is an
\* empty text.
THEOREM SystemIsComplete ==
  WellNested /\ << >> \notin Content["symbol"] => (Spec => []DatabaseComplete)
<1> SUFFICES ASSUME WellNested, << >> \notin Content["symbol"] PROVE Spec => []DatabaseComplete
  OBVIOUS
<1>1. Init => UnitsInPlace
  BY DEF Init, UnitsInPlace
<1>2. XInv /\ DocumentsInPlace /\ UnitsInPlace /\ [Next]_vars => UnitsInPlace'
  <2> SUFFICES ASSUME XInv, DocumentsInPlace, UnitsInPlace, [Next]_vars PROVE UnitsInPlace'
    OBVIOUS
  <2>1. CASE UNCHANGED vars
    <3>1. system' = system /\ phase' = phase /\ failure' = failure /\ currFile' = currFile
      BY <2>1 DEF vars, currFile
    <3>2. /\ Good(system, currFile, Inner(currFile)) => Good(system, currFile, Inner(currFile))'
          /\ SecondNamed(system) => SecondNamed(system)'
          /\ Complete(system) => Complete(system)'
      BY <3>1
    <3> QED
      BY <3>1, <3>2 DEF UnitsInPlace
  <2>2. CASE Next
    BY <2>2, ReadXmlGood, ReadXmlReturnsGood, ReturnGood, DeclareXmlGood, EndElementGood,
       EndImportGood, EndOfFileGood, BreakGood, StartElementGood, CharactersGood,
       EmptyElementGood, CrashGood DEF Next
  <2> QED
    BY <2>1, <2>2
<1>3. XInv /\ UnitsInPlace => DatabaseComplete
  BY DEF XInv, SystemInOrder, UnitsInPlace, DatabaseComplete, SecondNamed, Complete,
     Printable, HasId, MapsTo
<1> QED
  BY <1>1, <1>2, <1>3, PlacesHold, PTL DEF Spec
=============================================================================
