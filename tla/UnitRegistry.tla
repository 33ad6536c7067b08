---------------------------- MODULE UnitRegistry ----------------------------
(***************************************************************************)
(* The maps between units and their names and symbols:                     *)
(* src/lib/idToUnitMap.c, unitToIdMap.c, unitAndId.c and systemMap.c, with *)
(* ut_new_system() and ut_free_system(), which begin and end the life of   *)
(* the unit-systems the maps are kept for.                                 *)
(*                                                                         *)
(* The maps outlive the systems: they are static variables of the library, *)
(* and a system is found in them by its address, which malloc() may hand   *)
(* out again.  A unit is known by what ut_compare() distinguishes: its     *)
(* system's address and a number.  The client passes units of live systems *)
(* only.                                                                   *)
(***************************************************************************)
EXTENDS Encodings

CONSTANTS
  System,    \* addresses of unit-systems
  Number,    \* the different units of a system
  Ident,     \* the identifiers clients pass
  NullUnit,  \* NULL, passed for a unit or returned instead of one
  NullId,    \* NULL, passed or returned for an identifier
  NullSystem,
  MaxCalls   \* bound on the client's calls

Kind == {"name", "symbol"}

Unit == System \X Number
SystemOf(u) == u[1]

ASSUME NullAssumption ==
  /\ NullUnit \notin Unit
  /\ NullId \notin Ident
  /\ NullSystem \notin System

ASSUME IdentAssumption == Ident \subseteq Seq(1 .. 255)

ASSUME CallAssumption == MaxCalls \in Nat

VARIABLES
  live,       \* systems that ut_new_system() made and nobody freed
  toUnit,     \* toUnit[kind][s]: the tree of identifiers of system s
  toId,       \* toId[kind][s][encoding]: the tree of its units
  allocated,  \* the system-maps that are not NULL any more
  status,     \* what ut_get_status() returns
  answer,     \* the unit or identifier that the last lookup returned
  given,      \* history: what the client has mapped in the system's lifetime
  calls

vars == <<live, toUnit, toId, allocated, status, answer, given, calls>>

Empty == << >>

Put(tree, key, value) ==
  [ k \in DOMAIN tree \cup {key} |-> IF k = key THEN value ELSE tree[k] ]

Without(tree, key) == [ k \in DOMAIN tree \ {key} |-> tree[k] ]

Init ==
  /\ live = {}
  /\ toUnit = [ kind \in Kind |-> [ s \in System |-> Empty ] ]
  /\ toId = [ kind \in Kind |-> [ s \in System |-> [ e \in Encoding |-> Empty ] ] ]
  /\ allocated = {}
  /\ status = "UT_SUCCESS"
  /\ answer = NullId
  /\ given = {}
  /\ calls = 0

Call == calls < MaxCalls /\ calls' = calls + 1

-----------------------------------------------------------------------------
(* ut_new_system() and ut_free_system()                                    *)

NewSystem(s) ==
  /\ Call
  /\ s \notin live
  /\ live' = live \cup {s}
  /\ status' = "UT_SUCCESS"
  /\ answer' = NullId
  /\ UNCHANGED <<toUnit, toId, allocated, given>>

\* Mutant: only the map from names is told.
ItumFreeSystemNamesOnly(s) ==
  toUnit' = [toUnit EXCEPT !["name"][s] = Empty]

\* itumFreeSystem()
ItumFreeSystem(s) ==
  toUnit' = [ kind \in Kind |-> [toUnit[kind] EXCEPT ![s] = Empty] ]

\* Mutant: the tree of UTF-8 identifiers, which lookups may have filled, is
\* forgotten.
UtimFreeSystemKeepsUtf8(s) ==
  toId' = [ kind \in Kind |->
              [toId[kind] EXCEPT ![s] = [ e \in Encoding |->
                 IF e = "UT_UTF8" THEN toId[kind][s][e] ELSE Empty ] ] ]

\* utimFreeSystem()
UtimFreeSystem(s) ==
  toId' = [ kind \in Kind |->
              [toId[kind] EXCEPT ![s] = [ e \in Encoding |-> Empty ] ] ]

\* Freeing the last unit of the maps leaves the status of ut_free().
FreeSystem(s) ==
  /\ Call
  /\ s \in live
  /\ live' = live \ {s}
  /\ ItumFreeSystem(s)
  /\ UtimFreeSystem(s)
  /\ status' =
       IF \E kind \in Kind : toUnit[kind][s] # Empty \/ \E e \in Encoding : toId[kind][s][e] # Empty
       THEN "UT_SUCCESS" ELSE status
  /\ answer' = NullId
  /\ given' = { g \in given : SystemOf(g.unit) # s }
  /\ UNCHANGED allocated

-----------------------------------------------------------------------------
(* idToUnitMap.c.  The comparison of names ignores case, that of symbols   *)
(* does not.                                                               *)

Key(kind, id) == IF kind = "name" THEN Folded(id) ELSE id

\* Mutant: the new unit replaces the old one.
ItumAddOverwrites(kind, id, u) ==
  LET s == SystemOf(u)
  IN toUnit' = [toUnit EXCEPT ![kind][s] = Put(toUnit[kind][s], Key(kind, id), u)]

\* itumAdd(): the tree keeps the entry it has.
ItumAdd(kind, id, u) ==
  LET s == SystemOf(u)
      key == Key(kind, id)
  IN IF key \in DOMAIN toUnit[kind][s]
     THEN UNCHANGED toUnit
     ELSE toUnit' = [toUnit EXCEPT ![kind][s] = Put(toUnit[kind][s], key, u)]

ItumStatus(kind, id, u) ==
  LET tree == toUnit[kind][SystemOf(u)]
      key == Key(kind, id)
  IN IF key \in DOMAIN tree /\ tree[key] # u THEN "UT_EXISTS" ELSE "UT_SUCCESS"

\* What the client has mapped with success belongs to the history.
Give(kind, u, id) ==
  given' = IF status' = "UT_SUCCESS"
           THEN given \cup {[kind |-> kind, unit |-> u, id |-> id]} ELSE given

\* ut_map_name_to_unit() and ut_map_symbol_to_unit()
MapIdToUnit(kind, id, u) ==
  /\ Call
  /\ answer' = NullId
  /\ IF id = NullId \/ u = NullUnit
     THEN status' = "UT_BAD_ARG" /\ UNCHANGED <<toUnit, allocated, given>>
     ELSE /\ allocated' = allocated \cup {<<"toUnit", kind>>}
          /\ ItumAdd(kind, id, u)
          /\ status' = ItumStatus(kind, id, u)
          /\ Give(kind, u, id)
  /\ UNCHANGED <<live, toId>>

\* ut_unmap_name_to_unit() and ut_unmap_symbol_to_unit() fail before the first
\* identifier of any system has been mapped.
UnmapId(kind, s, id) ==
  /\ Call
  /\ answer' = NullId
  /\ IF <<"toUnit", kind>> \notin allocated \/ id = NullId \/ s = NullSystem
     THEN status' = "UT_BAD_ARG" /\ UNCHANGED toUnit
     ELSE /\ status' = "UT_SUCCESS"
          /\ toUnit' = [toUnit EXCEPT ![kind][s] = Without(toUnit[kind][s], Key(kind, id))]
  /\ UNCHANGED <<live, toId, allocated, given>>

\* getUnitById(): a clone of the unit, which compares equal.
UnitById(kind, s, id) ==
  IF Key(kind, id) \in DOMAIN toUnit[kind][s]
  THEN toUnit[kind][s][Key(kind, id)]
  ELSE NullUnit

\* ut_get_unit_by_name() and ut_get_unit_by_symbol()
GetUnitById(kind, s, id) ==
  /\ Call
  /\ IF s = NullSystem \/ id = NullId
     THEN status' = "UT_BAD_ARG" /\ answer' = NullUnit
     ELSE status' = "UT_SUCCESS" /\ answer' = UnitById(kind, s, id)
  /\ UNCHANGED <<live, toUnit, toId, allocated, given>>

-----------------------------------------------------------------------------
(* unitToIdMap.c                                                           *)

\* utimAdd() on an identifier that conforms to the encoding: the tree keeps the
\* entry it has.
UtimAdd(kind, u, id, encoding) ==
  LET s == SystemOf(u)
      e == Adjusted(encoding, id)
  IN IF u \in DOMAIN toId[kind][s][e]
     THEN UNCHANGED toId
     ELSE toId' = [toId EXCEPT ![kind][s][e] = Put(toId[kind][s][e], u, id)]

UtimStatus(kind, u, id, encoding) ==
  LET tree == toId[kind][SystemOf(u)][Adjusted(encoding, id)]
  IN IF u \in DOMAIN tree /\ tree[u] # id THEN "UT_EXISTS" ELSE "UT_SUCCESS"

\* ut_map_unit_to_name() and ut_map_unit_to_symbol()
MapUnitToId(kind, u, id, encoding) ==
  /\ Call
  /\ answer' = NullId
  /\ IF u = NullUnit \/ id = NullId
     THEN status' = "UT_BAD_ARG" /\ UNCHANGED <<toId, allocated, given>>
     ELSE /\ allocated' = allocated \cup {<<"toId", kind>>}
          /\ IF Conforms(encoding, id)
             THEN /\ UtimAdd(kind, u, id, encoding)
                  /\ status' = UtimStatus(kind, u, id, encoding)
                  /\ Give(kind, u, id)
             ELSE status' = "UT_BAD_ARG" /\ UNCHANGED <<toId, given>>
  /\ UNCHANGED <<live, toUnit>>

\* ut_unmap_unit_to_name() and ut_unmap_unit_to_symbol() remove from the tree of
\* the encoding as the client names it.
UnmapUnitToId(kind, u, encoding) ==
  /\ Call
  /\ answer' = NullId
  /\ IF <<"toId", kind>> \notin allocated \/ u = NullUnit
     THEN status' = "UT_BAD_ARG" /\ UNCHANGED toId
     ELSE LET s == SystemOf(u)
          IN /\ status' = "UT_SUCCESS"
             /\ toId' = [toId EXCEPT ![kind][s][encoding] = Without(toId[kind][s][encoding], u)]
  /\ UNCHANGED <<live, toUnit, allocated, given>>

\* Does a UTF-8 lookup make a new UTF-8 entry?
Converts(trees, u) == u \notin DOMAIN trees["UT_UTF8"] /\ u \in DOMAIN trees["UT_LATIN1"]

\* utimFindAsciiByUnit(), utimFindLatin1ByUnit(), utimFindUtf8ByUnit()
IdByUnit(trees, u, encoding) ==
  IF u \in DOMAIN trees[encoding] THEN trees[encoding][u]
  ELSE IF encoding = "UT_UTF8" /\ Converts(trees, u)
  THEN Latin1ToUtf8(trees["UT_LATIN1"][u])
  ELSE IF u \in DOMAIN trees["UT_ASCII"] THEN trees["UT_ASCII"][u]
  ELSE NullId

\* Mutant: the converted identifier goes into the tree it came from.
CacheInLatin1(kind, u) ==
  LET s == SystemOf(u)
  IN toId' = [toId EXCEPT ![kind][s]["UT_LATIN1"] =
                Put(toId[kind][s]["UT_LATIN1"], u, Latin1ToUtf8(toId[kind][s]["UT_LATIN1"][u]))]

\* The converted identifier is kept "so that it will be found next time".
Cache(kind, u) ==
  LET s == SystemOf(u)
  IN toId' = [toId EXCEPT ![kind][s]["UT_UTF8"] =
                Put(toId[kind][s]["UT_UTF8"], u, Latin1ToUtf8(toId[kind][s]["UT_LATIN1"][u]))]

\* ut_get_name() and ut_get_symbol()
GetId(kind, u, encoding) ==
  /\ Call
  /\ IF u = NullUnit
     THEN status' = "UT_BAD_ARG" /\ answer' = NullId /\ UNCHANGED toId
     ELSE /\ status' = "UT_SUCCESS"
          /\ answer' = IdByUnit(toId[kind][SystemOf(u)], u, encoding)
          /\ IF encoding = "UT_UTF8" /\ Converts(toId[kind][SystemOf(u)], u)
             THEN Cache(kind, u)
             ELSE UNCHANGED toId
  /\ UNCHANGED <<live, toUnit, allocated, given>>

-----------------------------------------------------------------------------
\* What the client can pass.
Units == { u \in Unit : SystemOf(u) \in live } \cup {NullUnit}
Systems == live \cup {NullSystem}
Idents == Ident \cup {NullId}

Next ==
  \/ \E s \in System : NewSystem(s) \/ FreeSystem(s)
  \/ \E kind \in Kind :
       \/ \E u \in Units, id \in Idents :
            \/ MapIdToUnit(kind, id, u)
            \/ \E encoding \in Encoding : MapUnitToId(kind, u, id, encoding)
       \/ \E s \in Systems, id \in Idents : UnmapId(kind, s, id) \/ GetUnitById(kind, s, id)
       \/ \E u \in Units, encoding \in Encoding :
            UnmapUnitToId(kind, u, encoding) \/ GetId(kind, u, encoding)

Spec == Init /\ [][Next]_vars

-----------------------------------------------------------------------------
(* Properties.                                                             *)

UnitsOf(s) == { u \in Unit : SystemOf(u) = s }

\* Each tree of a system holds units of that system only, the trees of names are
\* keyed without regard to case, and an identifier is filed under the narrowest
\* encoding, where the lookups of all encodings will find it.
TypeOK ==
  /\ live \subseteq System
  /\ allocated \subseteq {"toUnit", "toId"} \X Kind
  /\ status \in {"UT_SUCCESS", "UT_BAD_ARG", "UT_EXISTS"}
  /\ calls \in 0 .. MaxCalls
  /\ \A kind \in Kind, s \in System :
       /\ \A key \in DOMAIN toUnit[kind][s] :
            toUnit[kind][s][key] \in UnitsOf(s) /\ Key(kind, key) = key
       /\ \A e \in Encoding : DOMAIN toId[kind][s][e] \subseteq UnitsOf(s)
       /\ \A u \in DOMAIN toId[kind][s]["UT_ASCII"] : IsAscii(toId[kind][s]["UT_ASCII"][u])
       /\ \A u \in DOMAIN toId[kind][s]["UT_LATIN1"] : ~IsAscii(toId[kind][s]["UT_LATIN1"][u])

\* ut_free_system() leaves no mapping behind: the next system at the same address
\* starts with none, and no lookup meets a unit whose system is gone.
FreedSystemsForgotten ==
  \A kind \in Kind, s \in System \ live :
    toUnit[kind][s] = Empty /\ \A e \in Encoding : toId[kind][s][e] = Empty

\* A lookup never returns what the client has not mapped in the lifetime of the
\* system, or the UTF-8 version of that.
OnlyMapped ==
  \A kind \in Kind, s \in live :
    /\ \A id \in Ident :
         UnitById(kind, s, id) # NullUnit =>
           \E g \in given : /\ g.kind = kind
                           /\ g.unit = UnitById(kind, s, id)
                           /\ Key(kind, g.id) = Key(kind, id)
    /\ \A u \in UnitsOf(s), e \in Encoding :
         LET id == IdByUnit(toId[kind][s], u, e)
         IN id # NullId =>
              \E g \in given : /\ g.kind = kind
                              /\ g.unit = u
                              /\ \/ id = g.id
                                 \/ e = "UT_UTF8" /\ id = Latin1ToUtf8(g.id)

\* A mapping is never replaced: while its system lives it stays or is removed, and
\* a call that fails changes no map.
MappingsStay ==
  [][/\ status' # "UT_SUCCESS" => UNCHANGED <<toUnit, toId>>
     /\ \A kind \in Kind, s \in live :
          /\ \A key \in DOMAIN toUnit[kind][s] :
               key \in DOMAIN toUnit'[kind][s] => toUnit'[kind][s][key] = toUnit[kind][s][key]
          /\ \A e \in Encoding : \A u \in DOMAIN toId[kind][s][e] :
               u \in DOMAIN toId'[kind][s][e] => toId'[kind][s][e][u] = toId[kind][s][e][u]]_vars

\* ut_get_name() and ut_get_symbol() fill a tree behind the client's back.  That
\* changes the answer of no lookup.
LookupsChangeNoAnswer ==
  [][(\E kind \in Kind, u \in Units, encoding \in Encoding : GetId(kind, u, encoding))
     => \A kind \in Kind, u \in Units \ {NullUnit}, e \in Encoding :
          IdByUnit(toId'[kind][SystemOf(u)], u, e) = IdByUnit(toId[kind][SystemOf(u)], u, e)]_vars
=============================================================================
