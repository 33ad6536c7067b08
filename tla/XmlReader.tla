------------------------------ MODULE XmlReader ------------------------------
(***************************************************************************)
(* ut_read_xml() of src/lib/xml.c: the handlers that expat calls while it  *)
(* reads a unit database, the files that import others, and what a failure *)
(* leaves.                                                                 *)
(*                                                                         *)
(* The documents are not given: expat's next event is chosen among those   *)
(* that well-formed XML allows, so a behaviour is a document and its       *)
(* reading.  The text of an element is a sequence of chunks, because       *)
(* character data is appended to a buffer that all files share; the plural *)
(* of a name is the name with a chunk more.                                *)
(***************************************************************************)
EXTENDS Integers, Sequences

Seqs == INSTANCE SequencesExt

CONSTANTS
  Nesting,    \* the elements that an element may hold in the documents read
  Content,    \* the texts of the elements that hold text; << >> is none
  Numbers,    \* texts that are numbers
  NonAscii,   \* chunks with characters beyond US-ASCII; "nbsp" is the non-breaking space
  NonLatin1,  \* those of them with characters beyond Latin-1
  Garbage,    \* what an uninitialised Boolean may hold
  MaxFiles,   \* bound on the depth of imports
  MaxUnits,   \* bound on the base and dimensionless units
  MaxTags     \* bound on the elements of all files

Root == "document"
Elements == DOMAIN Nesting \ {Root}
Leaves == DOMAIN Content
Known == {"unit-system", "prefix", "unit", "base", "dimensionless", "def", "value",
          "name", "singular", "plural", "symbol", "aliases", "import"}
Encodings == {"UT_ASCII", "UT_LATIN1", "UT_UTF8"}
Kinds == {"name", "symbol"}

ASSUME DocumentAssumption ==
  /\ Root \in DOMAIN Nesting /\ \A e \in DOMAIN Nesting : Nesting[e] \subseteq Elements
  /\ Leaves \subseteq Elements /\ Garbage \subseteq BOOLEAN
  /\ "nbsp" \in NonAscii \ NonLatin1 /\ "_" \notin NonAscii /\ NonLatin1 \subseteq NonAscii
  /\ MaxFiles \in Nat \ {0} /\ MaxUnits \in Nat /\ MaxTags \in Nat

\* Documents that keep to the content model of the unit database: <prefix> is where
\* it belongs, which no handler checks, and what holds text or nothing holds no element.
WellNested ==
  /\ Leaves = {"def", "value", "name", "singular", "plural", "symbol", "import"}
  /\ \A e \in DOMAIN Nesting :
       "prefix" \in Nesting[e] => e \notin (Known \cup {Root}) \ {"unit-system"}
  /\ \A e \in Elements \cap (Leaves \cup {"base", "dimensionless"}) :
       Nesting[e] \subseteq IF e = "name" THEN {"singular", "plural"} ELSE {}
  /\ \A e \in Leaves : \A word \in Content[e] :
       Len(word) \in Nat /\ word = [ i \in 1 .. Len(word) |-> word[i] ]

VARIABLES
  files,     \* the files being read; the last one is currFile
  text,      \* the text buffer
  allocated, \* is there one?
  system,    \* unitSystem
  phase,     \* "idle", "reading", "returned" or "crashed"
  tags,      \* the start-tags read
  status,    \* of ut_get_status(), as ut_read_xml() leaves it
  failure    \* history: where the reading failed first

vars == <<files, text, allocated, system, phase, tags, status, failure>>

-----------------------------------------------------------------------------
(* Units and the unit-system.                                              *)

NoUnit == [type |-> "none", number |-> 0]
Basic(type, n) == [type |-> type, number |-> n]

NoSystem == [bases |-> -1]

EmptySystem ==
  [ bases |-> 0, dimensionless |-> 0,
    unitOf |-> [ k \in Kinds |-> << >> ],   \* from identifiers to units
    idOf |-> [ k \in Kinds |-> << >> ],     \* from units and encodings to identifiers
    prefixes |-> << >>,
    second |-> NoUnit ]

IsAscii(word) == \A i \in DOMAIN word : word[i] \notin NonAscii

Id(bytes, encoding) == [bytes |-> bytes, encoding |-> encoding]

\* utf8_to_latin1(): other bytes than UTF-8, unless they are all ASCII; none where
\* Latin-1 lacks a character.
Latin1(word) ==
  IF IsAscii(word) THEN word
  ELSE IF \E i \in DOMAIN word : word[i] \in NonLatin1 THEN << >>
  ELSE <<"latin-1">> \o word

Spaces == {"_", "nbsp"}

\* substitute() of one kind of space for the other
Substitute(word, space) == [ i \in DOMAIN word |-> IF word[i] \in Spaces THEN space ELSE word[i] ]

\* make_utf8_forms(): the form with non-breaking spaces, if there are any spaces.
Nbsp(word) ==
  IF \E i \in DOMAIN word : word[i] \in Spaces THEN Substitute(word, "nbsp") ELSE << >>

\* makeDerivatives(): << >> for a combination that there is not.  Text that is declared
\* as UTF-8 is never mapped as ASCII.
Derivatives(word, encoding) ==
  LET ascii == encoding = "UT_ASCII"
      utf8 == Substitute(word, "_")
  IN [ ascii |-> IF ascii THEN word ELSE << >>,
       latin1 |-> IF ascii THEN << >> ELSE Latin1(utf8),
       latin1Nbsp |-> Latin1(Nbsp(word)),
       utf8 |-> IF ascii THEN << >> ELSE utf8,
       utf8Nbsp |-> Nbsp(word) ]

\* A map with one entry more.
With(map, key, value) == [ k \in DOMAIN map \cup {key} |-> IF k = key THEN value ELSE map[k] ]

Found(s, id) == \E k \in Kinds : id \in DOMAIN s.unitOf[k]

Outcome(ok, s) == [ok |-> ok, system |-> s]

\* Mutant: only identifiers of the same kind are looked up.
MapIdCarelessly(s, kind, id, unit) ==
  IF id.bytes \in DOMAIN s.unitOf[kind] THEN Outcome(FALSE, s)
  ELSE Outcome(TRUE, [s EXCEPT !.unitOf[kind] = With(@, id.bytes, unit)])

\* mapIdToUnit(): an identifier that is a name or a symbol already is a duplicate.
MapIdToUnit(s, kind, id, unit) ==
  IF Found(s, id.bytes) THEN Outcome(FALSE, s)
  ELSE Outcome(TRUE, [s EXCEPT !.unitOf[kind] = With(@, id.bytes, unit)])

\* The encoding under which the maps of units file an identifier.
Filed(id) ==
  IF id.encoding = "UT_UTF8" THEN "UT_UTF8"
  ELSE IF IsAscii(id.bytes) THEN "UT_ASCII" ELSE "UT_LATIN1"

\* mapUnitToId(): a unit that has another identifier in the encoding keeps it, which
\* is a failure.
MapUnitToId(s, kind, id, unit) ==
  LET key == <<unit, Filed(id)>> IN
  IF key \in DOMAIN s.idOf[kind]
  THEN Outcome(s.idOf[kind][key] = id.bytes, s)
  ELSE Outcome(TRUE, [s EXCEPT !.idOf[kind] = With(@, key, id.bytes)])

\* The next derivative, if there is one and none before it failed.
Then(done, bytes, encoding, Step(_, _)) ==
  IF done.ok /\ bytes # << >> THEN Step(done.system, Id(bytes, encoding)) ELSE done

\* mapIdsToUnit() and mapUnitToIds()
MapAll(s, word, encoding, Step(_, _)) ==
  LET ids == Derivatives(word, encoding)
      ascii == Then(Outcome(TRUE, s), ids.ascii, "UT_ASCII", Step)
      latin1 == Then(ascii, ids.latin1, "UT_LATIN1", Step)
      latin1Nbsp == Then(latin1, ids.latin1Nbsp, "UT_LATIN1", Step)
      utf8 == Then(latin1Nbsp, ids.utf8, "UT_UTF8", Step)
  IN Then(utf8, ids.utf8Nbsp, "UT_UTF8", Step)

MapIdsToUnit(s, kind, word, encoding, unit) ==
  MapAll(s, word, encoding, LAMBDA t, id : MapIdToUnit(t, kind, id, unit))

MapUnitToIds(s, kind, word, encoding, unit) ==
  MapAll(s, word, encoding, LAMBDA t, id : MapUnitToId(t, kind, id, unit))

\* mapUnitAndName() and mapUnitAndSymbol()
MapUnitAndId(s, kind, word, encoding, unit) ==
  LET mapped == MapIdsToUnit(s, kind, word, encoding, unit)
  IN IF mapped.ok THEN MapUnitToIds(mapped.system, kind, word, encoding, unit) ELSE mapped

\* ut_parse() of the text of a <def>, an identifier or a number.
Parsed(s, word) ==
  IF word \in Numbers THEN Basic("number", 0)
  ELSE IF word \in DOMAIN s.unitOf["name"] THEN s.unitOf["name"][word]
  ELSE IF word \in DOMAIN s.unitOf["symbol"] THEN s.unitOf["symbol"][word]
  ELSE NoUnit

\* ut_add_name_prefix() and ut_add_symbol_prefix()
AddPrefix(s, kind, word, value) ==
  LET key == <<kind, word>> IN
  IF word = << >> THEN Outcome(FALSE, s)
  ELSE IF key \in DOMAIN s.prefixes THEN Outcome(s.prefixes[key] = value, s)
  ELSE Outcome(TRUE, [s EXCEPT !.prefixes = With(@, key, value)])

-----------------------------------------------------------------------------
(* Files.                                                                  *)

\* What expat knows of an element that is open, and what of its content matters.
Opened(e) == [name |-> e, chars |-> << >>]

\* A <struct file> of fileInit(), which forgets the member prefixAdded.
FileInit(added) ==
  [ context |-> "START", skipDepth |-> 0, textEncoding |-> "UT_ASCII",
    unit |-> NoUnit, isBase |-> FALSE, isDimensionless |-> FALSE,
    haveValue |-> FALSE, value |-> << >>, prefixAdded |-> added,
    noPlural |-> FALSE, singular |-> << >>, plural |-> << >>,
    nameSeen |-> FALSE, symbolSeen |-> FALSE,
    accumulating |-> FALSE, open |-> << >>, rooted |-> FALSE, status |-> "reading" ]

currFile == Seqs!Last(files)
Parent == Seqs!Front(files)

\* XML_StopParser() makes XML_Parse() fail.
Stopped(f) == [f EXCEPT !.status = "UT_PARSE"]

In(f, context) == [f EXCEPT !.context = context]

Accumulating(f) == [f EXCEPT !.accumulating = TRUE]

-----------------------------------------------------------------------------
(* Handlers of start-tags.                                                 *)

StartUnitSystem(f) ==
  IF f.context # "START" THEN Stopped(f) ELSE In(f, "UNIT_SYSTEM")

\* The only handler that does not stop in the wrong place.
StartPrefix(f) ==
  IF f.context # "UNIT_SYSTEM" THEN In(f, "PREFIX")
  ELSE In([f EXCEPT !.prefixAdded = FALSE, !.haveValue = FALSE], "PREFIX")

StartUnit(f) ==
  IF f.context # "UNIT_SYSTEM" THEN Stopped(f)
  ELSE In([f EXCEPT !.unit = NoUnit, !.isBase = FALSE, !.isDimensionless = FALSE,
                    !.singular = << >>, !.plural = << >>,
                    !.nameSeen = FALSE, !.symbolSeen = FALSE], "UNIT")

\* <base>, <dimensionless> and <def> are mutually exclusive.
MayDefine(f) ==
  f.context = "UNIT" /\ ~f.isBase /\ ~f.isDimensionless /\ f.unit = NoUnit

StartBase(f) == IF MayDefine(f) THEN f ELSE Stopped(f)

StartDimensionless(f) == IF MayDefine(f) THEN f ELSE Stopped(f)

StartDef(f) == IF MayDefine(f) THEN Accumulating(f) ELSE Stopped(f)

StartValue(f) ==
  IF f.context # "PREFIX" \/ f.haveValue THEN Stopped(f) ELSE Accumulating(f)

StartName(f) ==
  CASE f.context = "PREFIX" /\ f.haveValue -> Accumulating(f)
    [] f.context \in {"UNIT", "ALIASES"} /\ f.unit # NoUnit ->
         In([f EXCEPT !.noPlural = FALSE, !.singular = << >>, !.plural = << >>],
            IF f.context = "UNIT" THEN "UNIT_NAME" ELSE "ALIAS_NAME")
    [] OTHER -> Stopped(f)

Naming(f) == f.context \in {"UNIT_NAME", "ALIAS_NAME"}

StartSingular(f) ==
  IF Naming(f) /\ f.singular = << >> THEN Accumulating(f) ELSE Stopped(f)

StartPlural(f) ==
  IF Naming(f) /\ ~f.noPlural /\ f.plural = << >> THEN Accumulating(f) ELSE Stopped(f)

StartSymbol(f) ==
  IF \/ f.context = "PREFIX" /\ f.haveValue
     \/ f.context \in {"UNIT", "ALIASES"} /\ f.unit # NoUnit
  THEN Accumulating(f) ELSE Stopped(f)

StartAliases(f) == IF f.context # "UNIT" THEN Stopped(f) ELSE In(f, "ALIASES")

StartImport(f) == IF f.context # "UNIT_SYSTEM" THEN Stopped(f) ELSE Accumulating(f)

\* The dispatch of startElement(), which knows no <noplural>.
Started(e, f) ==
  CASE e = "unit-system" -> StartUnitSystem(f)
    [] e = "prefix" -> StartPrefix(f)
    [] e = "unit" -> StartUnit(f)
    [] e = "base" -> StartBase(f)
    [] e = "dimensionless" -> StartDimensionless(f)
    [] e = "def" -> StartDef(f)
    [] e = "value" -> StartValue(f)
    [] e = "name" -> StartName(f)
    [] e = "singular" -> StartSingular(f)
    [] e = "plural" -> StartPlural(f)
    [] e = "symbol" -> StartSymbol(f)
    [] e = "aliases" -> StartAliases(f)
    [] e = "import" -> StartImport(f)
    [] OTHER -> [f EXCEPT !.skipDepth = 1]

-----------------------------------------------------------------------------
(* Handlers of end-tags, which give a file and a system.                   *)

After(f, s) == [file |-> f, system |-> s]

\* What a handler does that stops if a mapping fails.
IfMapped(outcome, f) ==
  After(IF outcome.ok THEN f ELSE Stopped(f), outcome.system)

EndPrefix(f, s) ==
  After(IF f.haveValue /\ f.prefixAdded
        THEN In([f EXCEPT !.haveValue = FALSE], "UNIT_SYSTEM")
        ELSE Stopped(f), s)

\* Mutant: a base unit may lack a symbol.
EndUnitLax(f, s) ==
  After(IF f.isBase /\ ~f.nameSeen
        THEN Stopped(f)
        ELSE In([f EXCEPT !.unit = NoUnit], "UNIT_SYSTEM"), s)

EndUnit(f, s) ==
  After(IF f.isBase /\ ~(f.nameSeen /\ f.symbolSeen)
        THEN Stopped(f)
        ELSE In([f EXCEPT !.unit = NoUnit], "UNIT_SYSTEM"), s)

EndBase(f, s) ==
  After([f EXCEPT !.unit = Basic("base", s.bases + 1), !.isBase = TRUE],
        [s EXCEPT !.bases = @ + 1])

EndDimensionless(f, s) ==
  After([f EXCEPT !.unit = Basic("dimensionless", s.dimensionless + 1),
                  !.isDimensionless = TRUE],
        [s EXCEPT !.dimensionless = @ + 1])

EndDef(f, s) ==
  LET unit == Parsed(s, text)
  IN After(IF text = << >> \/ unit = NoUnit THEN Stopped(f) ELSE [f EXCEPT !.unit = unit], s)

\* strtod() takes no text for 0.
EndValue(f, s) ==
  After(IF text \in Numbers \cup {<< >>} THEN [f EXCEPT !.haveValue = TRUE, !.value = text]
        ELSE Stopped(f), s)

\* ut_form_plural()
PluralOf(f) == IF f.plural # << >> THEN f.plural ELSE Append(f.singular, "s")

WithPlural(f, mapped) ==
  IF ~mapped.ok \/ f.noPlural THEN mapped
  ELSE MapIdsToUnit(mapped.system, "name", PluralOf(f), f.textEncoding, f.unit)

EndUnitName(f, s) ==
  LET mapped == WithPlural(f, MapUnitAndId(s, "name", f.singular, f.textEncoding, f.unit))
      named == In([f EXCEPT !.nameSeen = TRUE], "UNIT")
  IN IF f.singular = << >> THEN After(Stopped(f), s)
     ELSE IfMapped(IF mapped.ok /\ f.singular = <<"second">>
                   THEN Outcome(TRUE, [mapped.system EXCEPT !.second = f.unit])
                   ELSE mapped, named)

EndAliasName(f, s) ==
  LET mapped == WithPlural(f, MapIdsToUnit(s, "name", f.singular, f.textEncoding, f.unit))
  IN IF f.singular = << >> THEN After(Stopped(f), s) ELSE IfMapped(mapped, In(f, "ALIASES"))

EndPrefixId(f, s, kind) ==
  IfMapped(AddPrefix(s, kind, text, f.value), [f EXCEPT !.prefixAdded = TRUE])

EndName(f, s) ==
  CASE f.context = "PREFIX" -> EndPrefixId(f, s, "name")
    [] f.context = "UNIT_NAME" -> EndUnitName(f, s)
    [] f.context = "ALIAS_NAME" -> EndAliasName(f, s)
    [] OTHER -> After(f, s)

EndSingular(f, s) == After([f EXCEPT !.singular = text], s)

EndPlural(f, s) ==
  After(IF text = << >> THEN Stopped(f) ELSE [f EXCEPT !.plural = text], s)

EndSymbol(f, s) ==
  CASE f.context = "PREFIX" -> EndPrefixId(f, s, "symbol")
    [] f.context = "UNIT" ->
         IfMapped(MapUnitAndId(s, "symbol", text, f.textEncoding, f.unit),
                  [f EXCEPT !.symbolSeen = TRUE])
    [] f.context = "ALIASES" ->
         IfMapped(MapIdsToUnit(s, "symbol", text, f.textEncoding, f.unit), f)
    [] OTHER -> After(f, s)

\* Mutant: the context stays.
EndAliasesWithin(f, s) == After(f, s)

EndAliases(f, s) == After(In(f, "UNIT"), s)

\* The dispatch of endElement()
Ended(e, f, s) ==
  IF f.skipDepth > 0 THEN After([f EXCEPT !.skipDepth = @ - 1], s) ELSE
  CASE e = "unit-system" -> After(f, s)
    [] e = "prefix" -> EndPrefix(f, s)
    [] e = "unit" -> EndUnit(f, s)
    [] e = "base" -> EndBase(f, s)
    [] e = "dimensionless" -> EndDimensionless(f, s)
    [] e = "def" -> EndDef(f, s)
    [] e = "value" -> EndValue(f, s)
    [] e = "name" -> EndName(f, s)
    [] e = "singular" -> EndSingular(f, s)
    [] e = "plural" -> EndPlural(f, s)
    [] e = "symbol" -> EndSymbol(f, s)
    [] e = "aliases" -> EndAliases(f, s)
    [] OTHER -> After(Stopped(f), s)

-----------------------------------------------------------------------------
(* Reading.                                                                *)

NoFailure == [depth |-> -1, status |-> "UT_SUCCESS"]

OpenErrors == {"UT_OPEN_ARG", "UT_OPEN_ENV", "UT_OPEN_DEFAULT"}

Reading == phase = "reading" /\ currFile.status = "reading"

\* The file becomes what a handler made of it.  Of one that is read no more only the
\* status matters.
Becomes(f) ==
  /\ files' = Append(Parent, IF f.status = "reading" THEN f
                             ELSE [FileInit(FALSE) EXCEPT !.status = f.status])
  /\ failure' = IF failure = NoFailure /\ f.status \notin {"reading", "UT_SUCCESS"}
                THEN [depth |-> Len(files), status |-> f.status] ELSE failure

Innermost == IF currFile.open = << >> THEN Root ELSE Seqs!Last(currFile.open).name

\* The <name> of a prefix holds text, the one of a unit holds elements.
HoldsText(open) ==
  /\ open # << >> /\ Seqs!Last(open).name \in Leaves
  /\ Seqs!Last(open).name = "name" => Len(open) > 1 /\ open[Len(open) - 1].name = "prefix"

Push(f, e) == [f EXCEPT !.open = Append(@, Opened(e)), !.rooted = TRUE]

Pop(f) == [f EXCEPT !.open = Seqs!Front(@)]

\* The start-tag of an element may be next.
StartTag(e) ==
  /\ Reading
  /\ e \in Nesting[Innermost] /\ (currFile.open = << >> => ~currFile.rooted)
  /\ e \in {"base", "dimensionless"} => system.bases + system.dimensionless < MaxUnits
  /\ e = "import" => Len(files) < MaxFiles
  /\ tags < MaxTags

\* What the handler of a start-tag makes of the file that it is called for.
Begun(e) == Started(e, [Push(currFile, e) EXCEPT !.textEncoding = "UT_ASCII"])

\* startElement(): clearText() and the handler, or one level deeper in what is skipped.
StartElement(e) ==
  /\ StartTag(e) /\ tags' = tags + 1
  /\ IF currFile.skipDepth > 0
     THEN Becomes([Push(currFile, e) EXCEPT !.skipDepth = @ + 1]) /\ UNCHANGED text
     ELSE Becomes(Begun(e)) /\ text' = << >>
  /\ UNCHANGED <<allocated, system, phase, status>>

\* accumulateText(), if it is the handler of character data.  White space between
\* elements is left out where it would be ignored.
Characters(word) ==
  /\ Reading
  /\ currFile.open # << >> /\ Seqs!Last(currFile.open).chars = << >>
  /\ IF HoldsText(currFile.open) THEN word \in Content[Innermost] \ {<< >>}
     ELSE currFile.accumulating /\ word = <<" ">>
  /\ LET f == [currFile EXCEPT !.open[Len(currFile.open)].chars = word]
     IN IF f.accumulating
        THEN /\ Becomes(IF IsAscii(word) THEN f ELSE [f EXCEPT !.textEncoding = "UT_UTF8"])
             /\ text' = text \o word /\ allocated' = TRUE
        ELSE Becomes(f) /\ UNCHANGED <<text, allocated>>
  /\ UNCHANGED <<system, phase, tags, status>>

\* Mutant: text is accumulated after the element that held it.
KeepText(f) == f

IgnoreText(f) == [f EXCEPT !.accumulating = FALSE]

\* Handlers that read the text buffer without asking whether there is one: it is
\* allocated for the first text of the first file that has any.
NullText(e, f) ==
  /\ ~allocated /\ f.skipDepth = 0
  /\ \/ e \in {"value", "singular", "import"}
     \/ e = "symbol" /\ f.context \in {"UNIT", "ALIASES"}

\* The end-tag of the innermost element may be next.
EndTag ==
  /\ Reading /\ currFile.open # << >>
  /\ HoldsText(currFile.open) /\ Seqs!Last(currFile.open).chars = << >> =>
       << >> \in Content[Innermost]

\* endElement()
EndElement ==
  /\ EndTag /\ ~NullText(Innermost, currFile)
  /\ Innermost = "import" => currFile.skipDepth > 0
  /\ LET after == Ended(Innermost, currFile, system)
     IN Becomes(IgnoreText(Pop(after.file))) /\ system' = after.system
  /\ UNCHANGED <<text, allocated, phase, tags, status>>

\* endImport() and readXml(): a file on top of this one, or none if it cannot be opened.
EndImport ==
  /\ EndTag /\ ~NullText(Innermost, currFile)
  /\ Innermost = "import" /\ currFile.skipDepth = 0
  /\ \/ \E added \in Garbage : files' = Append(files, FileInit(added)) /\ UNCHANGED failure
     \/ Becomes(Stopped(currFile))
  /\ UNCHANGED <<text, allocated, system, phase, tags, status>>

\* An element may be next that holds nothing and whose beginning stops the parser:
\* libexpat calls the handler of its end all the same.
EmptyTag(e) ==
  /\ StartTag(e) /\ currFile.skipDepth = 0 /\ Begun(e).status # "reading"
  /\ HoldsText(Push(currFile, e).open) => << >> \in Content[e]

\* startElement() and endElement() of such an element.  An <import> of nothing is of
\* a directory, which cannot be read.
EmptyElement(e) ==
  /\ EmptyTag(e) /\ ~NullText(e, Begun(e))
  /\ tags' = tags + 1 /\ text' = << >>
  /\ LET after == Ended(e, Begun(e), system)
     IN Becomes(IgnoreText(Pop(after.file))) /\ system' = after.system
  /\ UNCHANGED <<allocated, phase, status>>

\* assert(0) of endName(), which is compiled only without NDEBUG.
Unplaced(e, f) ==
  /\ e = "name" /\ f.skipDepth = 0
  /\ f.context \notin {"PREFIX", "UNIT_NAME", "ALIAS_NAME"}

\* The ends of elements that may be next, with the files that the handlers are called for.
EndCalls ==
  (IF EndTag THEN { [element |-> Innermost, file |-> currFile] } ELSE {})
    \cup { [element |-> e, file |-> Begun(e)] : e \in { d \in Elements : EmptyTag(d) } }

\* The program ends in a handler, for want of a text buffer, in an assertion, or in
\* declareXml(), which compares an encoding that is not declared.
Crash ==
  /\ Reading /\ phase' = "crashed"
  /\ \/ ~currFile.rooted
     \/ \E call \in EndCalls :
          NullText(call.element, call.file) \/ Unplaced(call.element, call.file)
  /\ UNCHANGED <<files, text, allocated, system, tags, status, failure>>

\* declareXml() with an encoding: those that are not known stop the parser.
DeclareXml ==
  /\ Reading /\ ~currFile.rooted
  /\ \E known \in BOOLEAN : Becomes(IF known THEN currFile ELSE Stopped(currFile))
  /\ UNCHANGED <<text, allocated, system, phase, tags, status>>

EndOfFile ==
  /\ Reading
  /\ currFile.rooted /\ currFile.open = << >>
  /\ Becomes([currFile EXCEPT !.status = "UT_SUCCESS"])
  /\ UNCHANGED <<text, allocated, system, phase, tags, status>>

\* The file cannot be read on, or is no XML.
Break ==
  /\ Reading
  /\ \E why \in {"UT_OS", "UT_PARSE"} : Becomes([currFile EXCEPT !.status = why])
  /\ UNCHANGED <<text, allocated, system, phase, tags, status>>

\* Mutant: the file goes on whatever became of the one it imported.
ReturnAnyhow(child, f) == IgnoreText(Pop(f))

\* What becomes of a file whose import has been read.
Imported(child, f) ==
  IF child.status = "UT_SUCCESS" THEN IgnoreText(Pop(f)) ELSE Stopped(f)

Return ==
  /\ phase = "reading" /\ Len(files) > 1 /\ currFile.status # "reading"
  /\ files' = Append(Seqs!Front(Parent), Imported(currFile, Seqs!Last(Parent)))
  /\ UNCHANGED <<text, allocated, system, phase, tags, status, failure>>

\* ut_read_xml() up to the reading of the first file.  Which status says that it
\* cannot be opened depends on where ut_get_path_xml() took its path from.
ReadXml ==
  /\ phase \in {"idle", "returned"}
  /\ tags' = 0 /\ UNCHANGED <<text, allocated>>
  /\ \/ \E added \in Garbage : files' = <<FileInit(added)>>
        /\ system' = EmptySystem /\ phase' = "reading"
        /\ failure' = NoFailure /\ UNCHANGED status
     \/ /\ files' = << >> /\ system' = NoSystem /\ phase' = "returned"
        /\ status' \in OpenErrors /\ failure' = [depth |-> 0, status |-> status']

\* The rest of it: the system is freed unless all was read.
ReadXmlReturns ==
  /\ phase = "reading" /\ Len(files) = 1 /\ currFile.status # "reading"
  /\ files' = << >> /\ phase' = "returned"
  /\ status' = currFile.status
  /\ system' = IF status' = "UT_SUCCESS" THEN system ELSE NoSystem
  /\ UNCHANGED <<text, allocated, tags, failure>>

Init ==
  /\ files = << >> /\ text = << >> /\ allocated = FALSE
  /\ system = NoSystem /\ phase = "idle" /\ tags = 0
  /\ status = "UT_SUCCESS" /\ failure = NoFailure

Next ==
  \/ ReadXml \/ ReadXmlReturns \/ Return
  \/ DeclareXml \/ EndElement \/ EndImport \/ EndOfFile \/ Break \/ Crash
  \/ \E e \in Elements : StartElement(e) \/ EmptyElement(e)
  \/ \E word \in UNION { Content[e] : e \in Leaves } \cup {<<" ">>} : Characters(word)

Spec == Init /\ [][Next]_vars

-----------------------------------------------------------------------------
(* Properties.                                                             *)

\* The context that an element is for its content.
ContextOf(open, i) ==
  CASE open[i].name = "unit-system" -> "UNIT_SYSTEM"
    [] open[i].name = "prefix" -> "PREFIX"
    [] open[i].name = "unit" -> "UNIT"
    [] open[i].name = "aliases" -> "ALIASES"
    [] open[i].name = "name" /\ i > 1 /\ open[i - 1].name = "unit" -> "UNIT_NAME"
    [] open[i].name = "name" /\ i > 1 /\ open[i - 1].name = "aliases" -> "ALIAS_NAME"
    [] OTHER -> "none"

\* The context of a file is that of the innermost open element that has one, past
\* errors, imports and elements that are skipped: endings restore what beginnings
\* changed although only the innermost context is kept.  This needs a document without
\* a <prefix> out of place, which is reported and accepted.
ContextIsNesting ==
  \A n \in DOMAIN files :
    LET f == files[n]
        within == { i \in 1 .. Len(f.open) - f.skipDepth : ContextOf(f.open, i) # "none" }
    IN f.status = "reading" /\ within # {} =>
         \E i \in within : (\A j \in within : j <= i) /\ f.context = ContextOf(f.open, i)

\* The one text buffer holds the text of the element that is read and nothing of
\* elements before it, of those around it or of other files.
TextIsOwn ==
  Reading =>
    /\ currFile.accumulating = (currFile.skipDepth = 0 /\ HoldsText(currFile.open))
    /\ currFile.accumulating => text = Seqs!Last(currFile.open).chars

\* A name is no symbol of another unit, and what a unit is printed as is read back as
\* the same unit.
IdentifiersAgree ==
  system # NoSystem =>
    /\ DOMAIN system.unitOf["name"] \cap DOMAIN system.unitOf["symbol"] = {}
    /\ \A k \in Kinds : \A key \in DOMAIN system.idOf[k] :
         /\ system.idOf[k][key] \in DOMAIN system.unitOf[k]
         /\ system.unitOf[k][system.idOf[k][key]] = key[1]

\* If no symbol is an empty text, then in a system that is returned every base unit
\* can be printed and read by name and by symbol, and the second is the unit of that
\* name.
DatabaseComplete ==
  phase = "returned" /\ system # NoSystem =>
    /\ \A n \in 1 .. system.bases, k \in Kinds : \E e \in Encodings :
         <<Basic("base", n), e>> \in DOMAIN system.idOf[k]
    /\ system.second # NoUnit =>
         /\ <<"second">> \in DOMAIN system.unitOf["name"]
         /\ system.unitOf["name"][<<"second">>] = system.second

\* ut_read_xml() returns a system exactly if it read all files to their ends, and its
\* status tells a database that is not there from one that is wrong, also if what is
\* not there is a file imported.
StatusSaysWhy ==
  phase = "returned" =>
    /\ (status = "UT_SUCCESS") = (failure = NoFailure)
    /\ (system = NoSystem) = (status # "UT_SUCCESS")
    /\ status = IF failure.depth <= 1 THEN failure.status ELSE "UT_PARSE"
=============================================================================
