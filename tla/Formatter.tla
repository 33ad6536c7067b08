----------------------------- MODULE Formatter -----------------------------
(***************************************************************************)
(* src/lib/formatter.c: the text of a unit, with names or symbols, as a    *)
(* definition or not, in ASCII, Latin-1 or UTF-8.                          *)
(*                                                                         *)
(* The code prints into the buffer of its caller and returns a length; the *)
(* model has the text.  Latin-1 and UTF-8 bytes of the same character are  *)
(* one lexeme: ut_parse() turns the former into the latter.                *)
(***************************************************************************)
EXTENDS Units, Lexemes

Seqs == INSTANCE SequencesExt

CONSTANTS
  Spelling,      \* Spelling[kind][encoding]: the units with an identifier, and it
  NaturalBase,   \* the number that stands for e among the bases of logarithms
  Reciprocal(_)  \* 1 / log(base) of another base: some number

\* The text of what cannot be printed: the functions return -1.
Fail == <<[t |-> "fail"]>>

Then(text, more) == IF Fail \in {text, more} THEN Fail ELSE text \o more

-----------------------------------------------------------------------------
(* Identifiers.                                                            *)

Spellings(kind, encoding, u) ==
  { e \in Spelling[kind][encoding] : SystemOf(e.unit) = SystemOf(u) /\ Compare(e.unit, u) = 0 }

\* getName() and getSymbol(): ASCII takes the place of what is missing.
GetId(u, names, encoding) ==
  LET kind == IF names THEN "name" ELSE "symbol"
      found == IF Spellings(kind, encoding, u) # {}
               THEN Spellings(kind, encoding, u)
               ELSE Spellings(kind, "UT_ASCII", u)
  IN { e.id : e \in found }

\* printBasic()
PrintId(ids) == IF ids = {} THEN Fail ELSE <<Id(CHOOSE id \in ids : TRUE)>>

PrintBasic(u, names, encoding) == PrintId(GetId(u, names, encoding))

-----------------------------------------------------------------------------
(* Products.  Every printer is given the entries of the product: records   *)
(* of the index of a basic-unit and its power.                             *)

\* The items, one after the other, with the separator between them.
Separated(items, separator) ==
  LET printed[n \in 0 .. Len(items)] ==
        IF n = 0 THEN << >>
        ELSE Then(printed[n - 1], Then(IF n = 1 THEN << >> ELSE separator, items[n]))
  IN printed[Len(items)]

AsciiPowerText(power, names) ==
  IF power = 1 THEN << >> ELSE IF names THEN <<Sym("^")>> \o IntText(power) ELSE IntText(power)

\* asciiPrintProduct().  A power 0 is printed, too.
AsciiPrintProduct(s, entries, names) ==
  Separated([ i \in DOMAIN entries |->
               Then(PrintBasic(BasicUnit(s, entries[i].index), names, "UT_ASCII"),
                    AsciiPowerText(entries[i].power, names)) ],
            <<Sym(IF names THEN "-" ELSE ".")>>)

NotZero(entry) == entry.power # 0
SupText(power) == IF power = 1 THEN << >> ELSE <<Sup(power)>>

\* utf8PrintProduct()
Utf8PrintProduct(s, entries, names) ==
  LET shown == SelectSeq(entries, NotZero)
  IN Separated([ i \in DOMAIN shown |->
                  Then(PrintBasic(BasicUnit(s, shown[i].index), names, "UT_UTF8"),
                       SupText(shown[i].power)) ],
               <<Sym("middot")>>)

\* latin1PrintBasics(): magnitudes only, and only up to 3.
Latin1PrintBasics(s, entries, names) ==
  Separated([ i \in DOMAIN entries |->
               Then(PrintBasic(BasicUnit(s, entries[i].index), names, "UT_LATIN1"),
                    SupText(IF entries[i].power < 0 THEN -entries[i].power ELSE entries[i].power)) ],
            <<Sym("middot")>>)

\* getBasicOrder(): decreasing powers, without those that are 0.  (qsort() need
\* not keep the order of equals; the C library's does.)
InBasicOrder(entries) ==
  LET before(e, f) == e.power > f.power \/ (e.power = f.power /\ e.index < f.index)
  IN Seqs!SetToSortSeq({ entries[i] : i \in { j \in DOMAIN entries : NotZero(entries[j]) } }, before)

IsPositive(entry) == entry.power > 0
IsNegative(entry) == entry.power < 0

\* Mutant: several basic-units below the solidus get no parentheses.
Latin1BelowBare(s, negative, names) ==
  IF negative = << >> THEN << >> ELSE Then(<<Sym("/")>>, Latin1PrintBasics(s, negative, names))

Latin1Below(s, negative, names) ==
  IF negative = << >> THEN << >>
  ELSE IF Len(negative) = 1 THEN Then(<<Sym("/")>>, Latin1PrintBasics(s, negative, names))
  ELSE Then(<<Sym("/"), Sym("(")>>, Then(Latin1PrintBasics(s, negative, names), <<Sym(")")>>))

\* latin1PrintProduct(): powers beyond 3 have no Latin-1 character.
Latin1PrintProduct(s, entries, names) ==
  IF \E i \in DOMAIN entries : entries[i].power \notin -3 .. 3
  THEN AsciiPrintProduct(s, entries, names)
  ELSE LET order == InBasicOrder(entries)
           positive == SelectSeq(order, IsPositive)
           negative == SelectSeq(order, IsNegative)
       IN IF order = << >> THEN << >>
          ELSE Then(IF positive = << >> THEN <<Num(1)>> ELSE Latin1PrintBasics(s, positive, names),
                    Latin1Below(s, negative, names))

PrintProduct(s, entries, o) ==
  CASE o.encoding = "UT_ASCII" -> AsciiPrintProduct(s, entries, o.names)
    [] o.encoding = "UT_LATIN1" -> Latin1PrintProduct(s, entries, o.names)
    [] o.encoding = "UT_UTF8" -> Utf8PrintProduct(s, entries, o.names)

-----------------------------------------------------------------------------
(* The visitor.  Options o have the fields names, definition and encoding; *)
(* parens asks for parentheses around a text with blanks.                  *)

\* format()
RECURSIVE Format(_, _, _)

\* Unless its definition is wanted, a unit is printed as its identifier.
Named(u, o, text) ==
  LET ids == GetId(u, o.names, o.encoding)
  IN IF o.definition \/ ids = {} THEN text ELSE PrintId(ids)

Open(parens) == IF parens THEN <<Sym("(")>> ELSE << >>
Close(parens) == IF parens THEN <<Sym(")")>> ELSE << >>

\* printGalilean().  The parenthesis is opened before the scale and closed after
\* the offset: one without a scale is not opened.
PrintGalilean(u, o, parens) ==
  Then(IF u.scale = 0 THEN << >>
       ELSE Open(parens) \o Append(NumberText(Scaled(u.scale, Grain)), Blank),
       Then(Format(u.unit, o, TRUE),
            (IF u.offset = 0 THEN << >> ELSE <<Blank, Sym("@"), Blank>> \o NumberText(u.offset))
            \o Close(parens /\ (u.scale # 0 \/ u.offset # 0))))

\* Days and the minutes of the day: what ut_decode_time() gives.
DateOf(origin) == origin \div MinutesOfDay
HourOf(origin) == (origin % MinutesOfDay) \div 60
MinuteOf(origin) == origin % 60

\* A year of other than four digits needs separators.
UseSeparators(day, names) == names \/ day < YearDate(1000) \/ day >= YearDate(10000)

MomentText(origin, names) ==
  <<Blank, Sym("@"), Blank>>
  \o (IF UseSeparators(DateOf(origin), names)
      THEN DashedDate(DateOf(origin)) \o <<Blank, BrokenClock(HourOf(origin), MinuteOf(origin))>>
      ELSE <<PackedDate(DateOf(origin)), TheT, PackedClock(HourOf(origin), MinuteOf(origin))>>)

\* printTimestamp()
PrintTimestamp(u, o, parens) ==
  Then(Open(parens),
       Then(Format(u.unit, o, TRUE),
            MomentText(u.origin, o.names) \o <<Blank, Id(<<"UTC">>)>> \o Close(parens)))

\* printLogarithmic()
PrintLogarithmic(u, o, parens) ==
  LET refSpec == Format(u.unit, o, FALSE)
      amount == IF refSpec[1].t = "id" THEN <<Num(1), Blank>> ELSE << >>
      logRef(base) == Then(<<LogRef(base)>> \o amount, Append(refSpec, Sym(")")))
  IN IF refSpec = Fail THEN Fail
     ELSE IF u.base \in {2, NaturalBase, 10} THEN logRef(u.base)
     ELSE Open(parens) \o <<Dec(Reciprocal(u.base)), Blank>> \o logRef(NaturalBase) \o Close(parens)

\* formatBasic(), formatProduct(), formatGalilean(), formatTimestamp() and
\* formatLogarithmic()
Format(u, o, parens) ==
  CASE Is(u, "basic") -> PrintBasic(u, o.names, o.encoding)
    [] Is(u, "product") ->
         IF Compare(u, One(u.system)) = 0 THEN <<Num(1)>>
         ELSE Named(u, o, PrintProduct(u.system, Entries(u.vec), o))
    [] Is(u, "galilean") -> Named(u, o, PrintGalilean(u, o, parens))
    [] Is(u, "timestamp") -> Named(u, o, PrintTimestamp(u, o, parens))
    [] Is(u, "log") -> Named(u, o, PrintLogarithmic(u, o, parens))

\* ut_format()
UtFormat(u, o) == Format(u, o, FALSE)
=============================================================================
