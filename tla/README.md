# UDUNITS-2 in TLA+

TLA+ specifications of the UDUNITS-2 library (units of physical quantities,
conversion between them, and the database of their names), TLC configurations
that check them on small instances, and TLAPS proofs of the properties that hold
for all instances. The reference is the C source; every definition names what it
models in `PROJECT.json` under `map`.

## 1. The system

UDUNITS-2 is a sequential library: it starts no thread, has no callback into
itself that could interleave, and documents itself as thread-compatible, not
thread-safe. What is hard about it is not concurrency. It is

- **long sequences of legal calls** over a heap of small structures, where one
  call relies on what any earlier call left (sorted arrays, canonical wrappers,
  a tree keyed by a comparison function);
- **a status protocol** kept in a static variable that nearly every function
  resets, including the functions called on failure paths;
- **static maps keyed by the address of a unit-system**, which outlive the
  system and meet another one at the same address;
- **16-bit powers, bytes with the top bit set, calendars**: arithmetic at the
  edge of its type;
- **hand-written state machines** (the XML reader, the scanner) that accept
  input in any order.

### Components

| Component (source under `src/lib`) | State | Operations | Talks to |
|---|---|---|---|
| Product-units (`unitcore.c`) | arrays of (index, power) | multiply, raise, root, relationship, compare | every other unit type is built on them |
| Units of all types (`unitcore.c`, `udunits2.h`) | basic, product, galilean, log and timestamp structures; `system->one`, `system->second` | `ut_scale`, `ut_offset`, `ut_offset_by_time`, `ut_multiply`, `ut_divide`, `ut_raise`, `ut_root`, `ut_log`, `ut_clone`, `ut_free`, `ut_compare`, `ut_are_convertible`, `ut_get_converter`, `ut_set_second` | converters; the status variable |
| Calendar (`unitcore.c`) | none | `ut_encode_date`, `ut_encode_clock`, `ut_encode_time`, `ut_decode_time` | timestamps, parser |
| Identifier maps (`idToUnitMap.c`, `unitToIdMap.c`, `systemMap.c`, `unitAndId.c`) | four static maps from systems to search trees | map, unmap, look up | `ut_compare` orders the trees; `ut_free_system` |
| Prefixes (`prefix.c`) | two static maps from systems to tries | `ut_add_name_prefix`, `ut_add_symbol_prefix`, `utGetPrefixByName`, `utGetPrefixBySymbol` | parser, XML reader |
| Converters (`converter.c`) | trees of converter records | `cv_get_*`, `cv_combine`, `cv_convert_*` | units |
| XML reader (`xml.c`) | a stack of files being read, a static text buffer | `ut_read_xml` and the element handlers | maps, prefixes, parser |
| Parser, scanner (`parser.y`, `scanner.l` and what bison and flex made of them, `parser.c`, `scanner.c`) | the unit being built, start conditions | `ut_parse` | units, maps, prefixes, calendar |
| Formatter (`formatter.c`) | none | `ut_format` | maps, visitors of units |
| UDUNITS-1 interface (`udunits-1.c`) | static system, set of owned units | `utInit`, `utScan`, `utCopy`, ..., `utTerm` | everything above |
| Search trees for Windows (`tsearch.c`) | binary trees | `tsearch`, `tfind`, `tdelete` | the maps, in Visual C builds |
| Status, messages (`status.c`, `error.c`) | the status, the message handler | `ut_get_status`, `ut_set_status`, `ut_handle_error_message` | all |
| Interactive program (`src/prog`) | the units last given | the have/want loop | the library |
| Units database (`*.xml`), tests, build files | | | |

### What makes each part correct

- **Product-units**: the arrays stay strictly ascending; the results are those of
  the algebra of exponent vectors; a unit whose powers cancel has the value of the unit one; a
  root exists exactly if every power is divisible; convertibility is an
  equivalence; comparison is an order; every loop ends.
- **Units**: a galilean-unit of a galilean-unit is the composition of both; a
  converter exists exactly for convertible units; converting by way of a third unit,
  or there and back, agrees with converting directly; the order is an order across
  the types; a function that returns NULL says why.
- **Maps**: nothing of a freed system is ever found; a lookup returns what was
  mapped and nothing else; a mapping is not replaced; a lookup that caches changes
  no answer.
- **Prefixes**: what was added stays; the longest matching prefix is found.
- **Calendar**: encode and decode are inverse; carries reach the date; days have
  successive numbers across the calendar switch.
- **Converters**: combination is composition; the array loops are right when the
  arrays overlap.
- **XML reader**: nesting is respected; a failure anywhere makes the whole
  reading fail and leaves the static state as it was; a duplicate definition is
  refused by every path.
- **Parser, scanner, formatter**: every text is parsed to an end; nothing of it is
  ignored; what is allocated on the way is freed on every way out; an unknown
  identifier is reported through all error rules; what the formatter writes is
  read back as the same unit.
- **UDUNITS-1 interface**: each structure of the client has a unit of its own,
  which is freed once and never lost; a call changes its result only; adding a name
  is undone if it fails half-way.
- **Program**: it owns exactly its two units, answers what was asked last, ends.

The hazards, each at the line where it bites and with the properties that watch
it, are listed in `PROJECT.json` under `hazards`.

## 2. Modules

| Module | Models | Kind |
|---|---|---|
| `ProductVectors` | exponent vectors, their product, power, root and relationship in `unitcore.c`'s 16-bit arithmetic; `productCompare` | operators |
| `ProductAlgebra` | what product-units promise: each call is one step on vectors | abstract specification |
| `ProductUnit` | the loops of `unitcore.c` on arrays, one iteration per step | state machine, implements `ProductAlgebra` |
| `NullUnit` | the pointer that is no unit | operators |
| `Units` | the five types of units, the operations on them and what each returns | operators |
| `RecursiveUnits` | the functions of `Units` that call themselves, for TLC | operators |
| `UnitCore` | the functions of the client's interface, with registers and the status | state machine |
| `UnitCore_proofs` | proofs about `UnitCore` and `Units` | theorems |
| `Encodings` | bytes: `adjustEncoding`, `latin1ToUtf8`, case folding | operators |
| `UnitRegistry` | the four identifier maps over systems that come and go | state machine |
| `UnitRegistry_proofs` | proofs about `UnitRegistry` | theorems |
| `Prefixes` | the tries of prefixes over systems that come and go | state machine |
| `Prefixes_proofs` | proofs about `Prefixes` | theorems |
| `CivilCalendar` | the calendar, from one day to the next | abstract specification |
| `Calendar` | dates, clock-times and their encoding as one number | operators and a client, implement `CivilCalendar` |
| `ProductsAndDates_proofs` | proofs about `ProductUnit` and about `Calendar` | theorems |
| `XmlReader` | the handlers of `xml.c` over every document, imports included | state machine |
| `XmlReader_proofs` | proofs about `XmlReader` | theorems |
| `Converters` | the converters: making, combining, cloning, freeing, converting arrays | state machine |
| `Lexemes` | what texts are made of | operators |
| `Scanner` | the rules and start conditions of `scanner.l` | operators |
| `Formatter` | `ut_format` | operators |
| `UnitParser` | `ut_parse`: bison's machine for the grammar of `parser.y`, its actions and error rules | state machine |
| `UnitText` | the parser with the units and the formatter: texts that `ut_format` wrote are given to `ut_parse` | composition |
| `UnitParser_proofs` | proofs about `UnitParser` | theorems |
| `SearchTree` | `tsearch`, `tfind`, `tdelete` of `tsearch.c` | operators |
| `UnitStructures` | what the UDUNITS-1 interface promises about the client's structures | abstract specification |
| `Udunits1` | the UDUNITS-1 interface with its memory | state machine, implements `UnitStructures` |
| `StructuresOfUnits` | the interface with the units and the search trees | composition |
| `Udunits1_proofs` | proofs about `Udunits1` | theorems |
| `Program` | `udunits2`: options, prompts, answers | state machine |
| `Conversion_proofs` | proofs about `Converters` and about `Program` | theorems |
| `MC*` | the constants of the runs | model checking |

How they build on each other: `Units` extends `ProductVectors` and not
`ProductUnit`, because the latter is shown to compute the former; a product-unit
of `Units` is therefore a vector and one call is one step. `UnitCore` and `Formatter`
extend `Units`; `RecursiveUnits` gives its constants their values in the runs of both. `UnitParser` and `Udunits1` take the functions of `unitcore.c` as constant
operators, and `Udunits1` those of `tsearch.c`, too: what they do with units is right
whatever units are, and can be proved so. `UnitText` gives them the operators of `Units`
and `Formatter`, `StructuresOfUnits` those of `Units` and `SearchTree`, so that what a
function returns is the same operator for the client, in an action of the grammar and
behind a `utUnit`; these compositions are what the runs check. `Scanner` and `Formatter`
share `Lexemes`. `UnitRegistry`
knows a unit by what `ut_compare` distinguishes, which `CompareIsOrder` of
`UnitCore` licenses. `Prefixes` is separate from
`UnitRegistry`: the two share nothing but the address of the system.
`XmlReader` has its own, coarser maps: an identifier is what a
handler maps, and `UnitRegistry` and `Prefixes` say what the maps do with it.
`Calendar` stands alone. So does `Converters`: `UnitCore` knows a converter as the sequence
of its steps, which `CombinationIsSequence` licenses.

### ProductUnit

`left` and `right` are the operands, `result` what the last call returned.
`call` is the function that executes, `i1`, `i2` its cursors (1-based), `out` the
entries it has written, `relationship` the local variable of that name. One
action is one iteration: `MultiplyFirst`, `MultiplySecond` and `MultiplyBoth` are
the branches of the loop of `productMultiply`, `RelateOne` and `RelateBoth` those
of `productRelationship`, with their early breaks; `RootMeaningless` is the exit
of `productRoot`. The client is `Load` (it fetches a basic-unit), `Adopt` (it
uses a result as an operand) and the calls. A sum or product of powers wraps
around as the conversion to `short` does; the tests of cancellation are made on
the `int` before, as in the code, and therefore a power 0 can stay in a unit.

### Units, UnitCore

A unit is a record with the fields of its C structure; a wrapper holds the unit
it wraps. The unit one of a system is a structure of its own, which the code tells by
its address: it is never cloned or freed, and a product-unit that has lost all its powers
is equal to it and is both. The record of the former is marked `shared`, and
`ProductMultiply` and `OneOr` say which of the two is returned. Scale-factors are powers of two held as exponents, offsets and values
multiples of `1/Grain`, so that all arithmetic is exact (rounding of doubles is
not modelled). The client keeps units in registers, where a failed call leaves
NULL, and hands registers to the functions in any order. `last` is the function
and the result, `status` the static variable. `stopped` is set where undefined
behaviour ends the program: `ut_get_converter` of a timestamp and another unit.

A unit that wraps another one calls the functions of the other. These functions
(`Clone`, `Multiply`, `Raise`, `Root`, `Compare`, `GetConverter` and those that ask for the
system, the product-unit or a converter) are constants, as in `Converters`: the operator
`CloneFrom`, `MultiplyFrom`, ... says what a type of unit makes of what the function
returned for the unit inside, and `RecursionAssumption` that the function is one such.
`RecursiveUnits` has the recursive operators that these equations define, and TLC
evaluates the assumption for them. `Unit` is the set of units that the equations are
assumed for; `Built` says what a unit can be made of. `Seconds` are the seconds that
systems can have.

A converter is the sequence of its steps: `ToProduct` and `FromProduct` are those that
the `InitConverter` functions of the unit types put together, outermost unit first and
last; between them stands the inverse if the product-units are reciprocal, and between
timestamps the way over the second and `Later`, the difference of the origins in
seconds. A unit keeps its converters once they are made; it does not change, so the
model makes them anew. `Reduced` merges neighbouring linear steps and drops those that
take each other back; two converters do the same if their reduced steps are equal.
`ConversionsCompose` holds every converter among the known units against those by way
of a third unit, those between timestamps also against the moments they stand for, and
those to the inverse of a unit against the inverse of a number.

### Lexemes, Formatter, Scanner, UnitParser

A text is a sequence of lexemes, the pieces that no rule of the scanner tears
apart: an identifier (a sequence of syllables, because prefixes are stripped from
it), digits, digits with a point, superscripts, a date or a clock-time in broken or
packed form, the head of a logarithm, a blank, a character. Formatter and scanner
meet there: what `ut_format` prints is such a sequence, and so is what `ut_parse`
reads. `MCUnitParser` leaves out sequences in which two neighbours would be one
lexeme.

`Scanner` translates the rules: each matches a number of lexemes in the start
condition it names, the longest match is taken and of equal ones the first. What
an integer means depends on the condition (year, hour, time zone) and on `isTime`,
the static variable the parser sets. `Formatter` translates `printBasic`,
`printProduct` in its three forms, the galilean, logarithmic and timestamp visitors,
with names or symbols, definitions, and the fall-back to ASCII where Latin-1 lacks
an exponent or an identifier.

`UnitParser` is the pushdown machine that bison generates, with the stack of symbols
and their values, the token read ahead, and one action per kind of step: `Shift`,
reducing by a rule with its action, reading a token where the tables need one, and
the error steps (popping to a state that shifts `error`, discarding the token that
cannot be used). That a state with one possible reduction reads no token before it is
what lets `YYACCEPT` leave a token unread, or ignore one. `units` and `strings` count
what is allocated; `unknown` and `asked` are history variables. `isTime` starts with
either value, because it survives from one text to the next.

`Readable` says which units `ReadsBack` is about: the formatter prints logarithms of
logarithms, offsets of times, logarithms of scaled units and bases other than 2, e
and 10 in forms that the grammar does not have or takes for something else, and years
beyond 9999, of which the scanner knows none (`scanner.l:106`).

### SearchTree, UnitStructures, Udunits1

`memory` maps addresses to the units allocated there; `malloc` returns any free
address or NULL, so addresses are reused at once. `unit2[x]` is the pointer in the
client's structure `x`, which is garbage before `utIni`; `unit2s` is the tree of
addresses that the library gave to structures. `content` is a history variable: what
the client knows its structures to hold. `Stale` structures, of a system that was
freed or never initialised, are not read before `utIni`, but results may go into
uninitialised ones, which is what the tree is for.

`UtAdd` is one action per way it goes: `AddRefused`, `AddUnnamed`, `AddWithoutPlural`,
`Added`, with what is taken back. `utPrint` is a loop: `UtPrint` starts it, `Prints`,
`Grows`, `PrintFails`, `FormatFails` and `GrowthFails` are its iterations. `UtInit` and `UtInitFails`
free the old system; after a failure `second` and `encodedTimeUnit` dangle, and a
`utTerm` then reads freed memory, which the model notes in `fault`. Lost units, which
nothing points to any more (the converter of `utConvert` aside), are marked `Lost`
where the code loses them: a node for the tree could not be allocated.

The unit one has an address, which structures can share. What dividing a unit by itself
makes is another unit without powers, at an address of its own, and is freed like any.

Of the units the interface asks only that a function of no unit gives none
(`UnitAssumption`), of the search trees that they are sets of addresses with `tfind`,
`tsearch` and `tdelete` as membership, insertion and removal, deleting the root or a node
with two subtrees included (`TreeAssumption`). TLC evaluates both for the operators of
`Units` and `SearchTree`, the second for every tree over the addresses of the run, and
`LargerTrees` of `MCUdunits1` for every tree of up to five.

The refinement maps `store` of `UnitStructures` to what the pointers lead to: a
structure whose unit were freed, moved or overwritten through another structure would
change without being the result of a call.

### Program

One action per option, prompt and answer. A text is a number and words; the units
are the number and the words they were parsed from, so that `ut_parse` is external.
`haveInitialized` and `wantInitialized` are the static variables of `getInputValue` and
`getOutputRequest`. The conversion `"%lg %[^ \t\n]"` ends at a blank, and
`DecodeInput` does. `alive` counts the units allocated, `asked` and `printed` are
history variables.

### UnitRegistry, Encodings

`toUnit[kind][s]` is the tree of identifiers of the system at address `s`,
`toId[kind][s][encoding]` its trees of units, for names and for symbols.
`NewSystem` and `FreeSystem` are `ut_new_system` and `ut_free_system`; the same
address can be used again. `allocated` says which of the four static maps exist:
unmapping before the first mapping is `UT_BAD_ARG`. Identifiers are sequences of
bytes because the code tests bits of them. `GetId` is a lookup that also caches:
the UTF-8 form of a Latin-1 identifier is entered into the UTF-8 tree. `given`
is a history variable: what the client mapped in the lifetime of the system.

### Prefixes

A trie is a function from paths to values; a path that only leads on has the
value 0, as the entries of the code do. `AddPrefix` is `utAddPrefix` with the
search and extension of the trie, `FindPrefix` the search that `parser.y` and
`xml.c` make. `added` is a history variable.

### Converters

A converter is a record with the fields of its C structure, `Size` the blocks of
memory it consists of, `used` the blocks allocated. `malloc` may fail in every
call, so what allocates is an operator that gives the set of outcomes, and a call
is one of them: `Combine` is `cv_combine` with `Merged`, the formulas for pairs of
types that become one converter, and `Compose`, the general case with its error
paths in `Composed`; `Clone` is the `clone` member, which calls back into `Combine`
for a composite. Numbers are exact: `a * x + b` of an opaque `x`, where logarithms,
powers and reciprocals make new opaque numbers. `array` is one array of the
client, parts of which are input and output of `CvConvert`; `Loop` is the loop
that every `convertFloats` and `convertDoubles` function repeats, in the direction
the pointers decide.

Four C functions call themselves for the parts of a composite: `Size`, `Clone`,
`Convert` and `Converted` are constants, each assumed to satisfy its equation, whose
right-hand side is the operator `SizeFrom`, `CloneFrom`, `ConvertFrom` or `ConvertedFrom`,
which is given what the function returns for the parts. `MCConverters` gives them the recursive
operators that these equations define. `Converter` and `Number` are the converters and
the numbers that the equations are assumed for. `Turned` is not in the code: it says what
`cvLogClone` makes of a converter, logarithm by logarithm, for `CombinationIsSequence`.

### Calendar, CivilCalendar

A time is kept in whole days and ticks, `Grain` of them in a second, and the
decimal constants of `julianDayToGregorianDate` (365.25, 30.6001) as fractions, so
that the operators truncate where the code converts to `int` and nowhere else.
`Ask` is a client that asks `ut_decode_time` about one day after the other.
`CivilCalendar` knows months, leap years, the switch of 1582 and the missing year 0
and nothing of day numbers; `FollowsCalendar` says that the decoded dates are its
behaviour. The double of a time may be off by `Uncertainty` ticks, which stands for
`uncer` in `ut_decode_time`; the rounding inside `decompose` is not modelled. The
translation holds where the code is used and not before: for day numbers below
-1401 (before 4717 BCE) the code itself gives wrong dates, because truncation
rounds the other way there.

### XmlReader

`files` is the stack of `File` structures, the last one `currFile`; `text` is the
static buffer they share. Each handler of `xml.c` is an operator that gives the
file (and the system) it leaves: `StartUnit` is `startUnit`, `EndName` is
`endName`. The environment is libexpat: `StartElement`, `Characters`, `EndElement`
and `EndOfFile` are its events for any well-formed document whose elements nest as
`Nesting` allows and whose texts are in `Content`, so a behaviour is a document
with its reading, wrong places and duplicates included; `Break` is a file that
is not well-formed or cannot be read on, `EndImport` one handler and the start of
another file. `open` (the elements that are open, with their text), `rooted` and
`failure` record what no C variable holds: the first two are known to libexpat,
the last is history. When a handler has stopped the parser, no more handler is
called and only the status of the file is kept, but for one case: an element that
holds nothing (`<name/>`) is ended by libexpat although its beginning stopped the
parser. `EmptyElement` is the two handlers of such an element; `endName` is then
called in any context, where it does nothing, or ends the program if the assertion of
`xml.c:1491` is compiled (`configure.ac:66` defines `NDEBUG` unless told otherwise; the
model allows both).

`Crash` is every way in which a handler ends the program: this assertion; a text buffer
that does not exist, because no character data was accumulated since the program started
(`allocated`), read by the end of a `<value>`, `<singular>`, `<import>` or `<symbol>`;
and an XML declaration without an encoding, which `declareXml` compares all the same.
Nothing is claimed of what follows.

An identifier has up to five derivatives: in US-ASCII, Latin-1 and UTF-8, the latter two
also with non-breaking spaces for underscores. `Then` maps one after the other until a
mapping fails. A character data handler declares text as US-ASCII or UTF-8 only, so
`make_latin1_forms` is never called. `DeclareXml` is the XML declaration of a file with an encoding, which
is not used otherwise.

`prefixAdded` is not initialised by `fileInit`; `Garbage` says what it may hold.
It is read before it is written only after a `<prefix>` in the wrong place, which
the documents of the run do not have. `startPrefix` reports such an element and
carries on, and `ContextIsNesting` would not hold: its end leaves the context
`UNIT_SYSTEM`. Nor do they have empty texts where the handlers do not look for
them: an empty `<symbol/>` counts as the symbol of a base unit and an empty
`<value/>` as 0.

## 3. Runs

| Run | Instance | Shows |
|---|---|---|
| `product` | 3 basic-units, one dimensionless; raise to -2 and 128, square roots, 4 calls | the loops implement the algebra, also past overflow; arrays ascend; calls return |
| `units` | 2 registers, 2 systems (one without basic-units), 5 calls | what a status tells, what scaling and offsetting a unit means, the order of units, which converters exist and what they compute |
| `registry` | 2 addresses, 2 units each, 4 identifiers, signed `char`, 5 calls | the maps across systems that come and go |
| `prefixes` | 2 addresses, 4 prefixes that start each other, 5 strings, 6 calls | tries, longest match |
| `converters` | 3 registers, slopes 1, -1 and 2, offsets 0, 3 and -3, logarithms and powers of a base that has a name and one that has none, an array of 3, 4 calls | combination is composition, nothing leaks when `malloc` fails, arrays may overlap |
| `calendar` | days around the origin of the day numbers, year 1, 1582 and 1700 to 2132; 13 times of day | dates follow the calendar; decoding and encoding are inverse |
| `xml` | documents of 9 elements in 2 files, 1 base or dimensionless unit | contexts, texts, mappings and statuses after every reading |
| `text` | all texts of up to 3 lexemes out of 21 and of 4 out of 8; 648 dates with clocks, zones and ends; 45 units of all types with every option of `ut_format` | every text is parsed to an end, nothing is leaked or ignored, unknown words are reported, `isTime` is the operand's, what is formatted is read back |
| `udunits1` | 2 structures and 3 addresses with 3 units; 2 structures and 2 addresses with 5 units; 1 structure and 2 names | no double free, nothing lost, the tree knows the units, refinement of `UnitStructures`, `utAdd` undone, `utPrint` returns |
| `program` | 2 options, 4 lines, 9 texts, 3 environments | ownership of the two units, answers to the last request, the program ends |
| `stale_prefixes` | `Prefixes` | **violated**: a new system has the prefixes of the freed one |
| `whole_text` | `UnitParser` | **violated**: a text with another token after a time is accepted |

Why the bounds are enough. *product*: a merge has four cases for the heads of the
two arrays (first only, second only, less, equal) and the dimensionless entries
double those; three basic-units make all of them happen in one call, four calls
are enough to build two different operands and run a loop on them, and
128 * 128 * 2 is the first product that leaves a `short`. *units*: a call takes at
most two units and every case distinction looks at most two wrappers deep; five
calls build a log- or timestamp-unit of a galilean-unit and a second operand, and
with the second and the unit one there are up to four units to convert between. `Grain`
is 4 to the power of the calls and one more, so that what they halve, and what a
conversion halves again, stays whole.
*registry*: a hazard involves an old and a new use of an address or two units in
one tree, with one identifier that differs in case only, one that is converted
and one that looks like UTF-8 and is not. *prefixes*: four prefixes hold a
prefix, a longer one through it with a gap between, and one that differs in case.
*converters*: slopes and offsets cancel in products and sums, three registers hold
two parts and their combination, four calls combine a combination or convert with
it, and `CombinationIsSequence` combines every two held converters once more, with
every choice of failing allocations; an array of three has overlaps in both
directions with one and two cells in common.

*calendar*: the day numbers are taken in windows around every place where the
formulas change (the origin, the year before year 1, the switch of calendars and
four centuries after it, of which three are no leap years); leaps of 400, 1580
and 4712 years take the calendar from one window to the next, and a doubt of 2 of
8 ticks is half of what rounding to the second tolerates. *xml*: nine
elements are a base unit with name, symbol and an alias, or a unit in a file and
one in the file it imports that clash; contexts are at most four deep. The names are
plain, with a character beyond ASCII, with an underscore, and with both.

*text*: the grammar looks one token ahead and its error rules pop at most to the
nearest `(` or operator, so three arbitrary tokens after a beginning meet every rule
and every error rule in every context it has; four are needed for a parenthesis with
something before and after it. The dates are every form of date, clock and zone that
the scanner knows, after a unit of time and after another one. The units are one for
each case of the formatter: exponents that Latin-1 has and has not, one and several
basic-units below the solidus, integral, negative and fractional scales and offsets, products without powers, years of
four digits and of five (a year of the run has 100 days, so that its minutes stay within
TLC's integers).
*udunits1*: two structures are an operand and a result, and three addresses hold the
units of both and a result before its operand is freed, so that a node of the tree with
two subtrees is deleted, too. The records in `Clients` bound what comes up together, not
which calls are made. *program*: four lines are a request, one that fails, and the
next one; two options are `-H` and `-W`.

Deadlock is not checked where the client may stop calling at any time, as it does at
the bounds, and where a program or a parse has ended.

Fairness is stated where the code runs by itself. `FairSpec` of `ProductUnit`: weak
fairness of `Loop`, because a C function that was called executes until it returns.
`UnitParser`: weak fairness of the steps of a parse, for the same reason. `Udunits1`:
weak fairness of `Printing`, the iterations of the loop of `utPrint`, without those in
which `malloc` fails or `ut_format` cannot format the unit: they need not. `Program`: weak fairness of `Next`, because
only standard input makes the program wait, and that ends. No client has any: it need
not call.

## 4. Proofs

`ProductsAndDates_proofs` proves for `ProductUnit`, for every set of basic-units, every choice of the
dimensionless ones, every width of a `short` and every bound:

- `TypeCorrect`: `Spec => []TypeOK` (no run checks it any more: it is proved);
- `Ascends`: `Spec => []AllAscending`;
- `ZeroNeedsOverflow`: `Spec => []OnlyOverflowLeavesZero`;
- `ConvertibleEquivalence`: `Spec => []ConvertibleIsEquivalence` (proved only);
- `Implements`: `Spec => Algebra!Spec`, the refinement.

The argument is one inductive invariant. `TypeOK` and `AllAscending` are not
inductive: that an appended entry keeps `out` ascending needs that everything
written so far is below both cursors, that what a cursor has passed and not
written cancelled, and that `out` holds what the algebra gives for the indexes
passed. `IInv` says this for each function; it is shown action by action, and the
refinement follows when a loop returns: then the indexes passed are all of them.
The assumptions are those of the modules (`Basic` are naturals, `ShortMax` is a
positive natural, powers are integers, roots positive).

`UnitCore_proofs` proves, for every set of systems, basic-units, registers and arguments and
any number of calls: `StatusIsTold` (`StatusTellsFailure`), `ConvertersAreFound`
(`ConverterIffConvertible`) and `UnitsAreOrdered` (`CompareIsOrder`). Their hypothesis
`AllUnits` says that `Unit` lacks nothing that is built of units in it, as the least such
set does; TLC is given some of them. `Inductive` is the invariant `IInv`: every unit in a
register or kept as a second is in `Unit`, in canonical form, which is that it is its own
clone, and seconds are of their own system and can be converted; the status goes with it.
That a function fails and says so depends on what it gets from the function of the unit
inside, which may set the status again: for `Multiply`, `Raise` and `Root` it is shown that a
unit comes with `UT_SUCCESS` and NULL with another status, for units that are their own
clones, and that what they return is its own clone again. A galilean-unit that cancels is
the unit inside, which is why the canonical form has to be part of it. What holds of a unit if
it holds of the unit inside holds of all: `Depth` is smaller inside, and a counterexample
of least depth is refuted (the well-foundedness of `<`). That a converter exists needs the
converters of both units and, for timestamps, of the seconds. The order is shown type by
type; between product-units it is that of sequences of entries, where the first difference
decides, and between a basic-unit and a product-unit that of its one entry.

`UnitRegistry_proofs` proves, for every set of addresses, units, identifiers and
encodings: `TypeCorrect` (`TypeOK`), `Forgotten` (`FreedSystemsForgotten`),
`NothingElse` (`OnlyMapped`), `CachingUnseen` (`LookupsChangeNoAnswer`) and `Stay`
(`MappingsStay`). The inductive invariant says of every entry of a tree of units
which call of the client accounts for it, directly or as the cached conversion of
an identifier the client mapped; `OnlyMapped` alone is not inductive, because a
lookup copies an entry from one tree to another and an unmapping removes only one
of them. `MappingsStay` needs besides that an identifier means one unit.

`Prefixes_proofs` proves, for every set of addresses, characters and prefixes:
`TypeCorrect` (`TypeOK`: no gaps, no branch that leads to no prefix), `Kept`
(`AddedIsKept`) and `LongestFound` (`FindsLongest`). The invariant is the shape of
the tries with "what was added is there"; that a search finds the longest match
follows from it in every state, by a lemma that takes the greatest element of a
bounded set of lengths (the library's well-foundedness of `<`, turned round).

`Conversion_proofs` proves for `Converters`, for any number of registers, arguments, lengths
of the array and calls: `BlocksAreHeld` (`NothingLeaks`), `CombinationsConvert`
(`CombinationIsSequence`) and `OverlapsConvert` (`OverlapIsSafe`). Their hypotheses say what
`Converter` and `Number` hold: `AllConverters`, everything that `cv_get_*` and `cv_combine`
make of the client's arguments and of converters; `AllNumbers`, everything that converting
makes of numbers (the terms over the types are such sets, with one exception that the
code makes, too: what takes `OneOver` of `OneOver` is the number itself). A logarithm to
a base without a name is not what it was after `cvLogClone` (section 5,
`converter.c:629`); `CombinationsConvert` is about it, too, and says that it is turned
over once in a combination, wherever it was inside (`Turned`). The proofs go by the parts of a converter: parts are
smaller, and a least counterexample is refuted (the well-foundedness of `<`, not an
induction theorem). An outcome of a function is `Counted` if it has as many blocks more as
the converter it gives; the invariant `BInv` says that the client's converters are disjoint
blocks and all of them. For the second one each formula of `Merged` is compared with
the two steps it replaces. For the third the array after each iteration of a loop is
written down, upwards and downwards: the cells not yet read are those not yet
written, which is what the choice of the direction is for.

For `Program` it proves, for every set of words, texts and environments and any number
of lines and options: `Owns` (`OwnsItsUnits`) and `Answers` (`AnswersLastRequest`).
Ownership is inductive by itself. The other is not: what is answered depends on the
static variables, which say that a text of the command line was taken, on the phase
the program is in, and on what a failed request leaves of an earlier one; `AInv` says
what can be answered in each phase.

`XmlReader_proofs` proves, for all documents, texts, depths of imports and bounds:
`ToldWhy` (`StatusSaysWhy`) and `Agree` (`IdentifiersAgree`). Both are parts of one
inductive invariant. For the first it says that every file but the last is being read,
and that the status of the last one is what the failure made of it, at the depth it
happened or as `UT_PARSE` above it; each handler is shown to go on or to stop, and one
that is called after a stop to leave it at that. For the second it says that the system
is in order whatever handler ran, also where a mapping fails half-way, because a unit is
mapped to an identifier only after all derivatives of the identifier were mapped to the
unit.

Three more theorems are about documents that keep to the content model (`WellNested`: a
`<prefix>` is where it belongs, which no handler checks, and what holds text holds no
element): `ContextNests` (`ContextIsNesting`), `TextKeepsApart` (`TextIsOwn`) and
`SystemIsComplete` (`DatabaseComplete`), the last one if also no symbol is an empty
text. The run has such documents, as an assumption of `MCXmlReader` says, and without
the hypotheses the properties do not hold of the code (section 2, `XmlReader`).
`DocumentsInPlace` says for every file which elements can be open in each other, where
its context and its skip depth are those of the innermost ones, that all files but the
last stand at an `<import>`, and whose text the buffer holds. Completeness adds what the
flags of a base unit say about the maps between its start and its end, and that a finished
one has an entry of either kind that leads back to it.

`UnitParser_proofs` proves, for every text, every set of tokens, every store of units and
whatever the functions of `unitcore.c` return: `UnitsAreFreed` (`UnitsFreed`),
`UnknownIsReported` (`UnknownSurvives`) and `FlagIsOfOperand` (`FlagOfOperand`), from
the invariant of `InvariantHolds`, and with a second one `NothingIsIgnored` (`NothingIgnored`). That counts of units are right is not inductive: the
invariant says which sequences of symbols the stack can have, by the two below each, and
that the units and identifiers allocated are the values of the symbols on the stack, one
each. A rule frees what it pops; the recovery from an error pops symbols without a word,
and the shape of the stack says that none of them is a unit, because where an error
can occur a unit on top of the stack catches the error. Once something is unknown only
the error rules run, which is why `UT_UNKNOWN` is the last status set. The flag is that of the
product on top of the stack, or right below an `@`.

The second invariant, `Balance`, relates the stack to the text: as long as there is no
error, the lexemes before the scanner's place open as many parentheses and logarithms,
less those they close, as the symbols on the stack and the token read ahead. For
that each token has to account for the lexemes it takes, so the lemmas about the scanner
go through its rules: the longest match is one of them, only `LOGREF` takes a logarithm and
nothing longer can match there, and no rule takes a parenthesis, which the default rule
returns as itself. A rule of the grammar pops symbols that close what they open. At the
end one `shift_exp` is left, which opens nothing, and what may have been read ahead of it
is known: a token that lets `product_exp` become `shift_exp`, none after a number, and any
after a time. The theorem supposes (`TimesOnly`) that `ut_offset_by_time` returns
a timestamp or nothing, which `OffsetsByTimeAreTimes` of `UnitCore_proofs` proves of the function that
`UnitText` gives the parser, and `TextAssumption`, that texts are sequences, which TLC
evaluates with the run.

`Udunits1_proofs` proves, for all clients, addresses, names and any units and search trees
that keep the assumptions: `FreedOnce` (`NoDoubleFree`), `NoneLost` (`NothingElseLost`),
`TreeKnows` (`TreeKnowsUnits`), `AddLeavesNothing` (`AddUndone`) and `InterfaceImplements`
(`Implements`, the refinement of `UnitStructures`). `UnitsAreOwned` is the invariant: every
structure that was set points to a unit that is allocated and is the one its client knows,
no two structures share one other than the unit one, and the tree knows the address. One
lemma is about `setUnit`, which every call ends with: its old unit is freed if the tree
knows the address, and then it leaves the tree; the calls follow from it one by one, and
so does each step of the refinement.

`ProductsAndDates_proofs` proves for `Calendar`, for every grain of the clock, every uncertainty below half a
second and every time from the origin of the day numbers on: `TimesEncodeBack`
(`DecodedEncodesBack`) and `CalendarFollows` (`FollowsCalendar`, the refinement of
`CivilCalendar`). The first has two halves. The loop of `decompose` is followed through
its seven elements to a time that is off by the error or exact, then through the three
carries. The formulas for dates are taken apart into century, year of 365 or 366 days and
month, each by bounds on its division: a truncated quotient is the one integer between
two linear bounds, so that the decimal constants (365.25 and 30.6001 as fractions) never
have to be divided. For the second the day after is found in the same parts: within a
month, over the end of a month, of February, of the year, of a century that is no leap
year, and over the day on which the calendars switch; whole cycles of 4 and 400 years move
the year and nothing else. The invariant `AskedAndAnswered` ties the two: what the
client holds is what was decoded of the time it asked about, up to an error.

Only model-checked:

- `CallReturns`, `Returns`, `PrintReturns` and `Ends`: liveness under fairness, which the
  prover does not support;
- `GalileanMeansComposition` and `ConversionsCompose` of `UnitCore`: they hold as long as
  every offset stays a whole multiple of the unit it is counted in, which the bound on the
  calls ensures and no invariant without a bound can; and the second one folds
  sequences of steps of any length, which takes induction over data;
- `ReadsBack` of `UnitText`: the scanner, the parser and the formatter composed, where the
  formatter recurs on wrapped units;
- that the loops of `tsearch.c` keep `TreeAssumption` for trees of any size, which would
  take induction over trees; it is checked for trees of up to five nodes.

## 5. Findings

1. `ut_free_system.c:35`: prefixes survive the system and belong to the next
   system at that address (run `stale_prefixes`).
2. `parser.y:245`: the rule of a whole text accepts without a look at the token that was
   read ahead, and `ut_parse` compares only how far the scanner has come: `"m)"` and
   `"s since 2001-01-01!"` are units (run `whole_text`).

Noticed while modelling, and part of the models, without a run of their own. In the
library:

- `unitcore.c:2187`: two timestamps of different origins compare as -1 both ways, so a
  tree of units may not find them again. `CompareIsOrder` leaves timestamps out.
- `unitcore.c:2072`: `timestampNewOrigin` sets no status when the unit is no unit of
  time; `udunits2.h:896` promises `UT_MEANINGLESS`.
- `unitcore.c:2308`: "This function is never called" is, for a scaled, offset or
  logarithmic timestamp: `ut_get_converter` then returns NULL with `UT_SUCCESS`, or
  stops the program if assertions are compiled.
- `unitcore.c:3365`: the status of a failed `ut_divide` is erased by `ut_free`.
- `unitcore.c:3669`: with exactly one timestamp the other unit is read as one, too.
  `ConverterIffConvertible` says that `ut_are_convertible` says no of such a pair.
- `unitToIdMap.c:81`: where `char` is signed, as in the run, the first byte that
  `latin1ToUtf8` makes is 0xFE or 0xFF, which is no UTF-8.
- `converter.c:629`: `cvLogClone` takes `exp(logE)` for the base although `logE` is
  `1/ln(base)`: a combination with a logarithm whose base is not 2, e or 10 is not
  the sequence of its parts. `CombinationIsSequence` says what it is instead: the
  sequence of the parts with such logarithms turned over once (`Turned`).
- `xml.c:1956`: an XML declaration without an encoding passes NULL to `strcasecmp`.
- `xml.c:1491`: `endName` is reached after a `startName` that stopped on `<name/>` in the
  wrong place, where it asserts that it cannot be.
- `xml.c:1073`: a `<prefix>` in the wrong place is accepted.
- `xml.c:1403`: `textEncoding` is that of the last text, and used for the singular
  as well: a US-ASCII singular followed by a plural that is not cannot be mapped.
- `xml.c:506`: a name beyond ASCII with an underscore has two forms in Latin-1 and two in
  UTF-8, but a unit has one name in an encoding: it can be an alias, and as the name of a
  unit it ends the reading. A name whose only characters beyond ASCII are non-breaking
  spaces cannot be read at all, because its form with underscores is a duplicate, in
  Latin-1 and in UTF-8: `xml.c:463` says that what is "identical to a simpler
  combination" is left out, and the code compares with the US-ASCII form only.
- `xml.c:1833`: `<noplural/>` is not dispatched to its handlers (`xml.c:1588`), so "pis" is
  a name of the constant pi.
- `parser.y:250`: after a syntax error the status is that of the last `ut_free`: `"m!"`,
  `"m /"` and `"0"` give NULL with `UT_SUCCESS`, where `parser.y:609` promises `UT_SYNTAX`.
- `parser.y:59`: `ut_trim` promises to return `string`, to whose start it has moved the
  trimmed text, and returns a pointer as far behind it as there were leading blanks.
- `scanner.l`: no rule returns `TIMESTAMP`.
- `unitToIdMap.c:468`: the UTF-8 identifier that a lookup keeps survives the removal of
  the Latin-1 one it was made of, and a later mapping of the unit in UTF-8 is refused.
- `formatter.c:1063`: the year of a timestamp beyond 9999 is printed with all its digits,
  of which `ut_parse` reads a year of no more than four.

In the UDUNITS-1 interface:

- `udunits-1.c:40`: a second `utInit` that fails leaves `second` and `encodedTimeUnit`
  dangling, and `utTerm` frees them.
- `udunits-1.c:56`: after `malloc` fails in `utInit` the size of the buffer stays 0, and
  `utPrint` doubles it for ever (`PrintReturns` leaves this out).
- `udunits-1.c:602`: what a failed `utAdd` takes back may have been there before: adding
  an existing plural to `second` removes the name that the database gave it.
- `utIsTime` and `utHasOrigin` of an empty structure return `UT_BAD_ARG`, which is 1 and
  so true; `utIsTime` of a minute is false, for it is a galilean-unit.
- `utFind` may return 0 without a unit (after a syntax error), and what `utScan` returns
  then depends on the call before it; `utConvert` frees no converter.

In the program:

- `udunits2.c:429`: `sscanf` ends at the first blank of a unit and says 2 all the same:
  `"2 s m"` is taken as 2 s, although `udunits2prog.texi:94` has one enter a value as "a
  numerical value and a unit".
- `udunits2.c`: the length -1 of what cannot be formatted compares greater than the size
  of the buffer, which is unsigned, and is reported as "too long"; a single conversion
  between units that are not convertible ends with success; `"8859"` alone is not
  recognised as an encoding; a line longer than 255 characters is read as two.

## 6. Plan

Done: every component of the library and its program that has state, with proofs for
product-units, units of all types, identifier maps, prefixes, the calendar, the XML reader,
the parser, the UDUNITS-1 interface, the converters and the program. What would come next,
in this order:

1. who owns which memory inside one call of `unitcore.c` when `malloc` fails, which
   needs a heap under `Units`;
2. `ConversionsCompose` without a bound, with offsets that are dyadic fractions.

## 7. Not modelled

Rounding of doubles; memory exhaustion in the calls of `UnitCore`, `UnitParser` and
`XmlReader`; the sizes of the buffers that `ut_format` prints into; message texts and
the layout of what the program prints; the text of `cv_get_expression`; XML syntax
(expat); in what bison and flex generate (`parser.c`, `scanner.c`) the encoding of the
tables, the buffers of the scanner and the growing stack, of which the model has the
machine itself: shift, reduction with its action, default reduction, error recovery; `XGetopt.c`, a `getopt` for
platforms without one; the databases, which are data for `XmlReader`; tests and build
files. `ut_accept_visitor` is a dispatch without state. Passing a unit of a
freed system is left out: it is undefined behaviour of the client.
