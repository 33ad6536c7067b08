------------------------------ MODULE Udunits1 ------------------------------
(***************************************************************************)
(* src/lib/udunits-1.c: the UDUNITS-1 interface.  A structure of the       *)
(* client, utUnit, holds a pointer to a unit that the library owns: unit2s,*)
(* a search tree of addresses, remembers which units were given to         *)
(* structures, so that a pointer which is not one of them, such as that of *)
(* a structure that was never initialised, is not freed.                   *)
(*                                                                         *)
(* Memory is a function from addresses to the units allocated there;       *)
(* malloc() returns any free address, or NULL.  Structures are not NULL.   *)
(* What the functions of unitcore.c and the tree return is given by the    *)
(* module that composes them with the interface (StructuresOfUnits).       *)
(***************************************************************************)
EXTENDS NullUnit, Integers, FiniteSets

CONSTANTS
  TheOne,        \* the unit one of the unit-system
  TheSecond,     \* and its "second"
  Structures,    \* the client's structures
  Addresses,     \* where malloc() can put a unit
  Values,        \* units
  Factors,       \* arguments of utScale(): exponents of 2
  Amounts,       \* arguments of utShift()
  Exponents,     \* arguments of utRaise()
  Names,         \* names that clients add, which the database does not have
  Plural(_),     \* ut_form_plural()
  TextLength(_), \* the length of the text of a unit
  BufferSize,    \* the first size of the buffer for texts
  Clients,       \* bound: the structures, addresses, units and names that come up
  Nothing,
  Stale,
  Lost           \* a unit that the library has no pointer to and the client cannot use

CONSTANTS
  \* What the functions of unitcore.c return, and the status they leave.
  ut_clone(_), ut_raise(_, _), ut_offset(_, _), ut_scale(_, _),
  ut_multiply(_, _), ut_divide(_, _),
  ut_compare(_, _), ut_are_convertible(_, _), ut_get_converter(_, _)

CONSTANTS
  Trees, EmptyTree, KeysIn(_),  \* search trees, the empty one, and the keys of one
  tfind(_, _), tsearch(_, _), tdelete(_, _)

\* The origin of encodedTimeUnit.
TheOrigin == 0

ASSUME AddressAssumption == Addresses \subseteq Nat \ {0}
ASSUME ClientAssumption == 
  Clients \subseteq
    [structures : SUBSET Structures, addresses : SUBSET Addresses,
     values : SUBSET Values, names : SUBSET Names]
ASSUME StoreAssumption ==
  /\ BufferSize \in Nat \ {0}
  /\ Nothing \notin Values /\ Stale \notin Values /\ Nothing # Stale /\ "set" \notin {Nothing, Stale}
  /\ NoUnit \notin Values /\ Lost \notin Values \cup {NoUnit}

\* The functions of unitcore.c return NULL of the NULL pointer.
ASSUME NullAssumption ==
  /\ TheOne \in Values
  /\ \A n \in Exponents \cup {-1} : ut_raise(NoUnit, n).unit = NoUnit
  /\ \A o \in Amounts : ut_offset(NoUnit, o).unit = NoUnit
  /\ \A k \in Factors : ut_scale(k, NoUnit).unit = NoUnit
  /\ \A u \in Values \cup {NoUnit} :
       /\ ut_multiply(NoUnit, u).unit = NoUnit /\ ut_multiply(u, NoUnit).unit = NoUnit
       /\ ut_divide(NoUnit, u).unit = NoUnit /\ ut_divide(u, NoUnit).unit = NoUnit

Null == 0
\* What a pointer that was never assigned happens to be.
Garbage == -1
\* That of a structure whose system has gone: nothing reads it before utIni().
Dangling == -2

Pointers == Addresses \cup {Null, Garbage, Dangling}

\* What <search.h> promises of search trees; tsearch.c keeps it in builds without it.
ASSUME TreeAssumption ==
  /\ EmptyTree \in Trees /\ KeysIn(EmptyTree) = {}
  /\ \A t \in Trees :
       /\ KeysIn(t) \subseteq Addresses
       /\ \A a \in Addresses : tsearch(a, t) \in Trees /\ KeysIn(tsearch(a, t)) = KeysIn(t) \cup {a}
       /\ \A p \in Pointers :
            /\ tfind(p, t) <=> p \in KeysIn(t)
            /\ tdelete(p, t) \in Trees /\ KeysIn(tdelete(p, t)) = KeysIn(t) \ {p}

VARIABLES
  client,      \* what the client uses
  memory,      \* the unit at each address, NoUnit, or Lost
  unitSystem,  \* is there a unit-system?
  one,         \* the address of its unit one, or Null
  timeUnits,   \* "second" and "encodedTimeUnit": "NULL", "valid" or "dangling"
  unit2s,      \* the tree of addresses
  unit2,       \* the pointer in each structure
  content,     \* history: is the structure "set", Nothing or Stale?
  unitOf,      \* the database: names to units
  nameOf,      \* and units to names
  buffer,      \* is there a buffer for utPrint()?
  buflen,      \* its size
  printing,    \* the structure that utPrint() is at work on, or Null
  failed,      \* did the last call report a failure?
  fault        \* where freed memory was used: "none", "structure" or "utTerm"

system == <<unitSystem, one, timeUnits>>
database == <<unitOf, nameOf>>
printer == <<buffer, buflen, printing>>
units == <<memory, unit2s, unit2, content>>
vars == <<client, system, database, printer, units, failed, fault>>

Kept == UNCHANGED <<client, system, database, printer>>

-----------------------------------------------------------------------------
(* Memory.                                                                 *)

Allocated == { a \in Addresses : memory[a] # NoUnit }
UnitAt(a) == IF a = Null THEN NoUnit ELSE memory[a]

\* The client initialises a structure before a call reads it, and again after
\* the system of its unit has gone.
Operand(x) == content[x] # Stale

\* But a result goes into structures that were never initialised, too.
Target(x) == Operand(x) \/ unit2[x] = Garbage

\* The interface is not reentrant.
Calling == printing = Null /\ fault = "none"

\* What a call returns.
Answer(value) == failed' = (value \notin {"void", "result", "0", "1"})

-----------------------------------------------------------------------------
(* setUnit() and freeIfAllocated().                                        *)

\* Mutant: the tree is not asked.
FreedAnyhow(a, tree) == IF a = Null THEN {} ELSE {a}

\* ut_free() of the pointer, if the tree has it.
FreedOf(a, tree) == IF tfind(a, tree) THEN {a} ELSE {}

\* The memory after the units at S have been freed; the unit one stays.
Without(m, S) == [ a \in Addresses |-> IF a \in S \ {one} THEN NoUnit ELSE m[a] ]

\* The memory after the pointers to S have gone.
Losing(m, S) == [ a \in Addresses |-> IF a \in S \ {one} THEN Lost ELSE m[a] ]

Misused(m, S) == IF \E a \in S : a \notin Addresses \/ m[a] = NoUnit THEN "structure" ELSE "none"

\* Mutant: the new address does not enter the tree.
StoreUnrecorded(x, a, m) ==
  LET freed == FreedOf(unit2[x], unit2s)
  IN /\ unit2' = [unit2 EXCEPT ![x] = a]
     /\ unit2s' = tdelete(unit2[x], unit2s)
     /\ memory' = Without(m, freed)
     /\ fault' = Misused(m, freed)

\* Mutant: the old unit is not freed.
StoreOver(x, a, m) ==
  /\ unit2' = [unit2 EXCEPT ![x] = a]
  /\ unit2s' = tsearch(a, unit2s)
  /\ memory' = m
  /\ fault' = "none"

\* The new address enters the tree; then the old one leaves it and is freed.
Store(x, a, m) ==
  LET tree == tsearch(a, unit2s)
      freed == FreedOf(unit2[x], tree)
  IN /\ unit2' = [unit2 EXCEPT ![x] = a]
     /\ unit2s' = tdelete(unit2[x], tree)
     /\ memory' = Without(m, freed)
     /\ fault' = Misused(m, freed)

\* setUnit() with the unit at a, in the memory m.  Without room for a node of
\* the tree the unit is lost.
SetUnit(x, a, m, success, failure) ==
  \/ /\ Store(x, a, m)
     /\ content' = [content EXCEPT ![x] = "set"]
     /\ Answer(success)
  \/ /\ ~tfind(a, unit2s)
     /\ memory' = Losing(m, {a})
     /\ Answer(failure)
     /\ UNCHANGED <<unit2s, unit2, content, fault>>

\* A unit for the result x.  The unit one has an address, others are new, such as a
\* product that has lost all its powers.
Given(x, unit, success, failure) ==
  IF unit = TheOne
  THEN SetUnit(x, one, memory, success, failure)
  ELSE \E a \in client.addresses \ Allocated :
         SetUnit(x, a, [memory EXCEPT ![a] = unit], success, failure)

Returned(value) == Answer(value) /\ UNCHANGED <<units, fault>>

-----------------------------------------------------------------------------
(* utInit() and utTerm()                                                   *)

NoNames == [ n \in Names |-> NoUnit ]
NoUnits == [ v \in Values |-> Null ]

Init ==
  /\ client \in Clients
  /\ memory = [ a \in Addresses |-> NoUnit ]
  /\ unitSystem = FALSE /\ one = Null /\ timeUnits = "NULL"
  /\ unit2s = EmptyTree
  /\ unit2 = [ x \in Structures |-> Garbage ]
  /\ content = [ x \in Structures |-> Stale ]
  /\ unitOf = NoNames /\ nameOf = NoUnits
  /\ buffer = FALSE /\ buflen = BufferSize /\ printing = Null
  /\ failed = FALSE
  /\ fault = "none"

\* ut_free_system(): the unit one and the maps go with it.  The client's units
\* stay, but they point to the system.
FreeSystem ==
  [ a \in Addresses |-> IF a = one \/ memory[a] = NoUnit THEN NoUnit ELSE Lost ]

SystemGone ==
  /\ unit2' = [ x \in Structures |-> IF content[x] = "set" THEN Dangling ELSE unit2[x] ]
  /\ content' = [ x \in Structures |-> IF content[x] = Nothing THEN Nothing ELSE Stale ]
  /\ unitOf' = NoNames /\ nameOf' = NoUnits

\* ut_read_xml(NULL) fails, and the time units keep their values.
UtInitFails(code) ==
  /\ Calling
  /\ unitSystem' = FALSE /\ one' = Null
  /\ timeUnits' = IF timeUnits = "NULL" THEN "NULL" ELSE "dangling"
  /\ memory' = FreeSystem
  /\ SystemGone
  /\ Answer(code)
  /\ UNCHANGED <<client, printer, unit2s, fault>>

\* A system is read.  There may be no room for the buffer; after that buflen is 0,
\* for good.
UtInit ==
  /\ Calling
  /\ unitSystem' = TRUE /\ timeUnits' = "valid"
  /\ LET freed == FreeSystem
     IN \E a \in { b \in client.addresses : freed[b] = NoUnit } :
          /\ one' = a
          /\ memory' = [freed EXCEPT ![a] = TheOne]
  /\ SystemGone
  /\ \/ buffer' = TRUE /\ buflen' = buflen /\ Answer("0")
     \/ buffer' = FALSE /\ buflen' = 0 /\ Answer("UT_EALLOC")
  /\ UNCHANGED <<client, printing, unit2s, fault>>

\* ut_free() of the time units reads their system.
UtTerm ==
  /\ Calling
  /\ fault' = IF timeUnits = "dangling" THEN "utTerm" ELSE "none"
  /\ unitSystem' = FALSE /\ one' = Null /\ timeUnits' = "NULL"
  /\ memory' = FreeSystem
  /\ SystemGone
  /\ Answer("void")
  /\ UNCHANGED <<client, printer, unit2s>>

\* utIsInit()
UtIsInit == Calling /\ Kept /\ Returned(IF unitSystem THEN "1" ELSE "0")

-----------------------------------------------------------------------------
(* The structures.                                                         *)

\* What is in the structure is lost, unless it is the unit one.
UtIni(x) ==
  /\ Calling /\ Kept
  /\ unit2' = [unit2 EXCEPT ![x] = Null]
  /\ content' = [content EXCEPT ![x] = Nothing]
  /\ memory' = IF content[x] = "set" THEN Losing(memory, {unit2[x]}) ELSE memory
  /\ Answer("void")
  /\ UNCHANGED <<unit2s, fault>>

UtFree(x) ==
  /\ Calling /\ Kept
  /\ Target(x)
  /\ LET freed == FreedOf(unit2[x], unit2s)
     IN /\ memory' = Without(memory, freed)
        /\ unit2s' = tdelete(unit2[x], unit2s)
        /\ fault' = Misused(memory, freed)
  /\ unit2' = [unit2 EXCEPT ![x] = Null]
  /\ content' = [content EXCEPT ![x] = Nothing]
  /\ Answer("void")

\* The statuses that ut_parse() leaves when it returns NULL (module UnitParser).
ParseFailures ==
  IF unitSystem
  THEN {"UT_SUCCESS", "UT_SYNTAX", "UT_UNKNOWN", "UT_OS", "UT_MEANINGLESS", "UT_BAD_ARG"}
  ELSE {"UT_BAD_ARG"}

\* utScan() says UT_EALLOC of every status it does not expect.
ScanCode(s) ==
  CASE s = "UT_BAD_ARG" -> IF unitSystem THEN "UT_EINVALID" ELSE "UT_ENOINIT"
    [] s = "UT_SYNTAX" -> "UT_ESYNTAX"
    [] s = "UT_UNKNOWN" -> "UT_EUNKNOWN"
    [] OTHER -> "UT_EALLOC"

\* utFind() returns such a status as it is: UT_SUCCESS is 0.
FindCode(s) ==
  CASE s = "UT_BAD_ARG" -> "UT_EINVALID"
    [] s = "UT_SYNTAX" -> "UT_ESYNTAX"
    [] s = "UT_UNKNOWN" -> "UT_EUNKNOWN"
    [] s = "UT_OS" -> "UT_EALLOC"
    [] s = "UT_SUCCESS" -> "0"
    [] OTHER -> s

UtScan(x) ==
  /\ Calling /\ Kept
  /\ Target(x)
  /\ \/ unitSystem /\ \E v \in client.values : Given(x, v, "0", "UT_EALLOC")
     \/ \E s \in ParseFailures : Returned(ScanCode(s))

UtFind(x) ==
  /\ Calling /\ Kept
  /\ Target(x)
  /\ \/ unitSystem /\ \E v \in client.values : Given(x, v, "0", "UT_EALLOC")
     \/ \E s \in ParseFailures : Returned(FindCode(s))

\* resultingUnit() of what a function of the units returned.  The functions
\* return NULL, too, if malloc() does.
Resulting(x, unit) ==
  \/ unit # TheOne /\ Returned("NULL")
  \/ unit \in client.values /\ Given(x, unit, "result", "NULL")

UtClear(x) ==
  /\ Calling /\ Kept
  /\ Target(x)
  /\ Resulting(x, IF unitSystem THEN TheOne ELSE NoUnit)

\* Mutant: the copy shares the unit.
CopyShared(x, d) ==
  IF unit2[x] = Null THEN Returned("NULL")
  ELSE SetUnit(d, unit2[x], memory, "result", "NULL")

Copy(x, d) ==
  Resulting(d, IF unit2[x] = Null THEN NoUnit ELSE ut_clone(UnitAt(unit2[x])))

UtCopy(x, d) ==
  /\ Calling /\ Kept
  /\ Operand(x) /\ Target(d)
  /\ Copy(x, d)

\* utInvert(), utRaise(), utShift() and utScale().
UtUnary(x, d, out) ==
  /\ Calling /\ Kept
  /\ Operand(x) /\ Target(d)
  /\ Resulting(d, out.unit)

UtInvert(x, d) == UtUnary(x, d, ut_raise(UnitAt(unit2[x]), -1))
UtRaise(x, n, d) == UtUnary(x, d, ut_raise(UnitAt(unit2[x]), n))
UtShift(x, o, d) == UtUnary(x, d, ut_offset(UnitAt(unit2[x]), o))
UtScale(x, k, d) == UtUnary(x, d, ut_scale(k, UnitAt(unit2[x])))

\* utMultiply() and utDivide().
UtMultiply(x, y, d) ==
  Operand(y) /\ UtUnary(x, d, ut_multiply(UnitAt(unit2[x]), UnitAt(unit2[y])))
UtDivide(x, y, d) ==
  Operand(y) /\ UtUnary(x, d, ut_divide(UnitAt(unit2[x]), UnitAt(unit2[y])))

-----------------------------------------------------------------------------
(* Queries.                                                                *)

EncodedTimeUnit ==
  IF timeUnits = "NULL" THEN NoUnit
  ELSE [type |-> "timestamp", unit |-> TheSecond, origin |-> TheOrigin]

\* ut_get_converter().  With the NULL pointer it does not look at the other unit.
ConverterOf(from, to) ==
  IF from = NoUnit \/ to = NoUnit THEN [kind |-> "NULL", status |-> "UT_BAD_ARG"] ELSE ut_get_converter(from, to)

\* utCalendar() and utInvCalendar(), of structures for which ut_get_converter()
\* is defined.
UtCalendar(x) ==
  /\ Calling /\ Kept
  /\ Operand(x)
  /\ LET converter == ConverterOf(UnitAt(unit2[x]), EncodedTimeUnit)
     IN /\ converter.kind # "UNDEFINED"
        /\ Returned(IF converter.kind = "CONVERTER" THEN "0"
                    ELSE IF EncodedTimeUnit = NoUnit THEN "UT_ENOINIT" ELSE "UT_EINVALID")

UtInvCalendar(x) ==
  /\ Calling /\ Kept
  /\ Operand(x)
  /\ LET converter == ConverterOf(EncodedTimeUnit, UnitAt(unit2[x]))
     IN /\ converter.kind # "UNDEFINED"
        /\ Returned(IF converter.kind = "CONVERTER" THEN "0"
                    ELSE IF EncodedTimeUnit = NoUnit THEN "UT_ENOINIT" ELSE "UT_EINVALID")

\* The visitors of utIsTime().
IsTime(u) ==
  CASE u.type = "basic" -> ut_are_convertible(u, TheSecond)
    [] u.type = "product" ->
         /\ ut_are_convertible(u, TheSecond)
         /\ \E b \in DOMAIN u.vec : 
              /\ u.vec[b] = 1
              /\ ut_are_convertible([type |-> "basic", system |-> u.system, index |-> b], TheSecond)
    [] u.type = "timestamp" -> TRUE
    [] u.type \in {"galilean", "log"} -> FALSE

\* The visitors of utHasOrigin().
HasOrigin(u) == u.type \in {"galilean", "timestamp"}

\* ut_accept_visitor() answers UT_BAD_ARG, which is 1, of the NULL pointer.
UtIsTime(x) ==
  /\ Calling /\ Kept
  /\ Operand(x)
  /\ Returned(IF unit2[x] = Null \/ IsTime(UnitAt(unit2[x])) THEN "1" ELSE "0")

UtHasOrigin(x) ==
  /\ Calling /\ Kept
  /\ Operand(x)
  /\ Returned(IF unit2[x] = Null \/ HasOrigin(UnitAt(unit2[x])) THEN "1" ELSE "0")

ConvertCode(s) ==
  CASE s = "UT_BAD_ARG" -> "UT_EINVALID"
    [] s = "UT_NOT_SAME_SYSTEM" -> "UT_ENOINIT"
    [] s = "UT_MEANINGLESS" -> "UT_ECONVERT"
    [] OTHER -> "UT_EALLOC"

\* utConvert() does not free the converter.
UtConvert(x, y) ==
  /\ Calling /\ Kept
  /\ Operand(x) /\ Operand(y)
  /\ LET converter == ConverterOf(UnitAt(unit2[x]), UnitAt(unit2[y]))
     IN /\ converter.kind # "UNDEFINED"
        /\ Returned(IF converter.kind = "CONVERTER" THEN "0" ELSE ConvertCode(converter.status))

-----------------------------------------------------------------------------
(* utPrint()                                                               *)

PrinterKept == UNCHANGED <<client, system, database, units, fault>>

UtPrint(x) ==
  /\ Calling /\ PrinterKept
  /\ Operand(x)
  /\ printing' = x
  /\ UNCHANGED <<buffer, buflen, failed>>

\* ut_format() is -1 with UT_BAD_ARG of a unit or a buffer that is NULL.
PrintFails ==
  /\ printing # Null /\ PrinterKept
  /\ unit2[printing] = Null \/ ~buffer
  /\ printing' = Null
  /\ Answer("UT_EINVALID")
  /\ UNCHANGED <<buffer, buflen>>

\* And with another status of a unit that it cannot format.
FormatFails ==
  /\ printing # Null /\ PrinterKept
  /\ buffer /\ unit2[printing] # Null
  /\ printing' = Null
  /\ Answer("UT_EALLOC")
  /\ UNCHANGED <<buffer, buflen>>

LengthOf(x) == TextLength(UnitAt(unit2[x]))

Prints ==
  /\ printing # Null /\ PrinterKept
  /\ buffer /\ unit2[printing] # Null
  /\ LengthOf(printing) < buflen
  /\ printing' = Null
  /\ Answer("0")
  /\ UNCHANGED <<buffer, buflen>>

\* Mutant: the new size is not kept.
GrownBufferOnly(len) == UNCHANGED <<buffer, buflen>>

\* The old buffer, which the client may be reading, is lost.
GrownBuffer(len) == buffer' = TRUE /\ buflen' = len

\* The text has to fit with its end.
TooLong ==
  /\ printing # Null /\ PrinterKept
  /\ buffer /\ unit2[printing] # Null
  /\ LengthOf(printing) >= buflen

Grows ==
  /\ TooLong
  /\ GrownBuffer(2 * buflen)
  /\ UNCHANGED <<printing, failed>>

\* malloc() returns NULL.
GrowthFails ==
  /\ TooLong
  /\ printing' = Null
  /\ Answer("UT_EALLOC")
  /\ UNCHANGED <<buffer, buflen>>

-----------------------------------------------------------------------------
(* utAdd().  The comparison of names ignores case: a name is one of the    *)
(* module UnitRegistry that has been folded.                               *)

SameUnit(u, v) == ut_compare(u, v) = 0

\* itumAdd() of a name: does it map to a different unit?
NameTaken(names, n, u) == names[n] # NoUnit /\ ~SameUnit(names[n], u)

WithName(names, n, u) == IF names[n] = NoUnit THEN [names EXCEPT ![n] = u] ELSE names

\* utimAdd() of a unit: the names that it has.
NamesOf(u) == { nameOf[v] : v \in { w \in Values : nameOf[w] # Null /\ SameUnit(w, u) } }

Named(u, n) == IF NamesOf(u) = {} THEN [nameOf EXCEPT ![u] = n] ELSE nameOf
Unnamed(u) == [ v \in Values |-> IF SameUnit(v, u) THEN Null ELSE nameOf[v] ]

\* ut_map_name_to_unit() fails.
AddRefused(u, n) ==
  /\ \/ Answer("UT_EALLOC")
     \/ u # NoUnit /\ NameTaken(unitOf, n, u) /\ Answer("UT_DUP")
  /\ UNCHANGED database

\* ut_map_unit_to_name() fails: the name is removed, if it was there before or not.
AddUnnamed(u, n) ==
  /\ u # NoUnit /\ ~NameTaken(unitOf, n, u)
  /\ \/ Answer("UT_EALLOC")
     \/ \E m \in NamesOf(u) : m # n /\ Answer("UT_DUP")
  /\ unitOf' = [unitOf EXCEPT ![n] = NoUnit]
  /\ UNCHANGED nameOf

\* Mutant: the mapping from the unit stays.
UndoneNameOnly(u, n) ==
  /\ unitOf' = [unitOf EXCEPT ![n] = NoUnit]
  /\ nameOf' = Named(u, n)

Undone(u, n) ==
  /\ unitOf' = [unitOf EXCEPT ![n] = NoUnit]
  /\ nameOf' = Unnamed(u)

\* The plural cannot be mapped: both mappings are removed.
AddWithoutPlural(u, n) ==
  /\ u # NoUnit /\ ~NameTaken(unitOf, n, u) /\ NamesOf(u) \subseteq {n}
  /\ \/ Answer("UT_EALLOC")
     \/ NameTaken(WithName(unitOf, n, u), Plural(n), u) /\ Answer("UT_DUP")
  /\ Undone(u, n)

Added(u, n, hasPlural) ==
  /\ u # NoUnit /\ ~NameTaken(unitOf, n, u) /\ NamesOf(u) \subseteq {n}
  /\ LET names == WithName(unitOf, n, u)
     IN IF hasPlural
        THEN ~NameTaken(names, Plural(n), u) /\ unitOf' = WithName(names, Plural(n), u)
        ELSE unitOf' = names
  /\ nameOf' = Named(u, n)
  /\ Answer("0")

UtAdd(n, hasPlural, x) ==
  /\ Calling
  /\ Operand(x)
  /\ LET u == UnitAt(unit2[x])
     IN \/ AddRefused(u, n)
        \/ AddUnnamed(u, n)
        \/ hasPlural /\ AddWithoutPlural(u, n)
        \/ Added(u, n, hasPlural)
  /\ UNCHANGED <<client, system, printer, units, fault>>

-----------------------------------------------------------------------------
OfStructure(x) ==
  \/ UtIni(x) \/ UtFree(x) \/ UtScan(x) \/ UtFind(x) \/ UtClear(x)
  \/ UtCalendar(x) \/ UtInvCalendar(x) \/ UtIsTime(x) \/ UtHasOrigin(x)
  \/ UtPrint(x)
  \/ \E n \in client.names, hasPlural \in BOOLEAN : UtAdd(n, hasPlural, x)

OfStructures(x, d) ==
  \/ UtCopy(x, d) \/ UtInvert(x, d) \/ UtConvert(x, d)
  \/ \E n \in Exponents : UtRaise(x, n, d)
  \/ \E o \in Amounts : UtShift(x, o, d)
  \/ \E k \in Factors : UtScale(x, k, d)
  \/ \E y \in client.structures : UtMultiply(x, y, d) \/ UtDivide(x, y, d)

Printing == PrintFails \/ Prints \/ Grows

Next ==
  \/ UtInit \/ UtTerm \/ UtIsInit
  \/ \E code \in {"UT_ESYNTAX", "UT_EIO"} : UtInitFails(code)
  \/ \E x \in client.structures :
       OfStructure(x) \/ \E d \in client.structures : OfStructures(x, d)
  \/ Printing \/ FormatFails \/ GrowthFails

\* utPrint() is a loop that nothing interrupts.  ut_format() and malloc() need not fail
\* in the end.
Spec == Init /\ [][Next]_vars /\ WF_vars(Printing)

-----------------------------------------------------------------------------
(* Properties.                                                             *)

\* What the client sees of its structures.
Contents == [ x \in Structures |-> IF content[x] = "set" THEN UnitAt(unit2[x]) ELSE content[x] ]

Abstract == INSTANCE UnitStructures WITH store <- Contents

\* The interface keeps the promises of UnitStructures: a structure changes only if
\* it is given to a call as the result, not by what happens to another one or by the
\* reuse of memory, and a call that reports a failure changes none.
Implements == Abstract!Spec

\* No unit is freed twice or through a pointer that was never assigned: what the tree
\* of addresses is for (freeIfAllocated()).
NoDoubleFree == fault # "structure"

\* The library frees every unit that a result replaces and that utFree() is asked to
\* free: nothing is lost but what the client overwrites with utIni(), what there
\* was no tree node for, and what the end of the system leaves behind.
NothingElseLost ==
  \A a \in Allocated \ {one} : memory[a] # Lost => \E x \in Structures : content[x] = "set" /\ unit2[x] = a

\* setUnit() and freeIfAllocated(): the tree stays a search tree, which knows the unit
\* of every structure, so that the next result or utFree() will free it.
TreeKnowsUnits ==
  /\ unit2s \in Trees
  /\ \A x \in Structures : content[x] = "set" => unit2[x] \in KeysIn(unit2s) \cup {one}

\* utAdd() that fails leaves nothing of what it began: each name and each unit
\* maps to what it did before, or to nothing.
AddUndone ==
  [][ failed' => /\ \A n \in Names : unitOf'[n] \in {unitOf[n], NoUnit}
                 /\ \A v \in Values : nameOf'[v] \in {nameOf[v], Null} ]_vars

\* utPrint() returns, unless an earlier utInit() could not get a buffer: then its size
\* stays 0, and twice that is no more.
PrintReturns == printing # Null /\ buflen > 0 ~> printing = Null
=============================================================================
