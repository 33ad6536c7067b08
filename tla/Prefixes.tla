------------------------------ MODULE Prefixes ------------------------------
(***************************************************************************)
(* The prefixes of unit-systems (src/lib/prefix.c) and what becomes of     *)
(* them when a system is freed.                                            *)
(*                                                                         *)
(* The prefixes of a system form a trie: a tree of first characters, where *)
(* every entry has a tree of next characters.  Here a trie is a function   *)
(* from paths (sequences of characters) to values, and the path of an      *)
(* entry that only leads to longer prefixes has the value 0.  The tries    *)
(* are found by the address of the system, like the maps of UnitRegistry;  *)
(* unlike those, ut_free_system() does not know of them.                   *)
(***************************************************************************)
EXTENDS Integers, Sequences

CONSTANTS
  System,      \* addresses of unit-systems
  Character,   \* characters of prefixes
  Lower(_),    \* tolower()
  Prefix,      \* the prefixes clients add
  String,      \* the strings they search for a prefix
  Value,       \* the values they give to prefixes
  NullSystem,
  MaxCalls     \* bound on the client's calls

Kind == {"name", "symbol"}

ASSUME CharacterAssumption ==
  \A c \in Character : Lower(c) \in Character /\ Lower(Lower(c)) = Lower(c)

ASSUME ArgumentAssumption ==
  /\ Prefix \subseteq Seq(Character)
  /\ String \subseteq Seq(Character)
  /\ Value \subseteq Int
  /\ NullSystem \notin System

ASSUME CallAssumption == MaxCalls \in Nat

VARIABLES
  live,       \* the systems that exist
  trie,       \* trie[kind][s]
  allocated,  \* the kinds whose system-map is not NULL any more
  status,     \* what the last function that returns a status returned
  found,      \* the value and length that the last successful search returned
  added,      \* history: the prefixes added with success in a system's lifetime
  calls

vars == <<live, trie, allocated, status, found, added, calls>>

Nothing == [value |-> 0, len |-> 0]

Init ==
  /\ live = {}
  /\ trie = [ kind \in Kind |-> [ s \in System |-> << >> ] ]
  /\ allocated = {}
  /\ status = "UT_SUCCESS"
  /\ found = Nothing
  /\ added = {}
  /\ calls = 0

Call == calls < MaxCalls /\ calls' = calls + 1

NewSystem(s) ==
  /\ Call
  /\ s \notin live
  /\ live' = live \cup {s}
  /\ status' = "UT_SUCCESS"
  /\ found' = Nothing
  /\ UNCHANGED <<trie, allocated, added>>

\* ut_free_system() leaves the tries alone.
FreeSystem(s) ==
  /\ Call
  /\ s \in live
  /\ live' = live \ {s}
  /\ status' = "UT_SUCCESS"
  /\ found' = Nothing
  /\ added' = { a \in added : a.system # s }
  /\ UNCHANGED <<trie, allocated>>

-----------------------------------------------------------------------------
(* Names are compared without regard to case, symbols with.                *)

Path(kind, string) ==
  [ i \in DOMAIN string |-> IF kind = "name" THEN Lower(string[i]) ELSE string[i] ]

\* The first n characters.
Start(string, n) == SubSeq(string, 1, n)

Starts(string) == { Start(string, n) : n \in 1 .. Len(string) }

\* Mutant: the entry gets the new value although it has one.
ExtendedOverwriting(t, path, value) ==
  [ p \in DOMAIN t \cup Starts(path) |->
      IF p = path THEN value ELSE IF p \in DOMAIN t THEN t[p] ELSE 0 ]

\* ptvmSearch(): the missing entries along the path are made, and the last one
\* gets the value if it has none.
Extended(t, path, value) ==
  [ p \in DOMAIN t \cup Starts(path) |->
      LET old == IF p \in DOMAIN t THEN t[p] ELSE 0
      IN IF p = path /\ old = 0 THEN value ELSE old ]

\* addPrefix()
AddPrefix(kind, s, prefix, value) ==
  /\ Call
  /\ found' = Nothing
  /\ IF s = NullSystem \/ prefix = << >> \/ value = 0
     THEN status' = "UT_BAD_ARG" /\ UNCHANGED <<trie, allocated, added>>
     ELSE LET path == Path(kind, prefix)
              new == Extended(trie[kind][s], path, value)
          IN /\ allocated' = allocated \cup {kind}
             /\ trie' = [trie EXCEPT ![kind][s] = new]
             /\ status' = IF new[path] = value THEN "UT_SUCCESS" ELSE "UT_EXISTS"
             /\ added' = IF new[path] = value
                         THEN added \cup {[kind |-> kind, system |-> s, path |-> path, value |-> value]}
                         ELSE added
  /\ UNCHANGED live

\* How far the entries follow a path.
Longest(t, path) ==
  LET lengths == { n \in 1 .. Len(path) : \A k \in 1 .. n : Start(path, k) \in DOMAIN t }
  IN IF lengths = {} THEN 0 ELSE CHOOSE n \in lengths : \A k \in lengths : k <= n

\* Mutant: the value of the last entry is not looked at.
PtvmFindAny(t, path) ==
  LET n == Longest(t, path)
  IN IF n = 0 THEN Nothing ELSE [value |-> t[Start(path, n)], len |-> n]

\* ptvmFind(): only the last entry on the path counts.  If it has no value there
\* is no prefix, whatever shorter prefixes the path has passed.
PtvmFind(t, path) ==
  LET n == Longest(t, path)
  IN IF n = 0 \/ t[Start(path, n)] = 0 THEN Nothing
     ELSE [value |-> t[Start(path, n)], len |-> n]

\* findPrefix(), which leaves ut_get_status() alone.
FindPrefix(kind, s, string) ==
  /\ Call
  /\ IF s = NullSystem \/ kind \notin allocated \/ string = << >>
     THEN status' = "UT_BAD_ARG" /\ found' = Nothing
     ELSE /\ found' = PtvmFind(trie[kind][s], Path(kind, string))
          /\ status' = IF found' = Nothing THEN "UT_UNKNOWN" ELSE "UT_SUCCESS"
  /\ UNCHANGED <<live, trie, allocated, added>>

-----------------------------------------------------------------------------
Systems == live \cup {NullSystem}

Next ==
  \/ \E s \in System : NewSystem(s) \/ FreeSystem(s)
  \/ \E kind \in Kind, s \in Systems :
       \/ \E prefix \in Prefix, value \in Value : AddPrefix(kind, s, prefix, value)
       \/ \E string \in String : FindPrefix(kind, s, string)

Spec == Init /\ [][Next]_vars

-----------------------------------------------------------------------------
(* Properties.                                                             *)

\* Tries have no gaps and no useless branches: the start of a path is a path, and
\* every path leads to a prefix.
TypeOK ==
  /\ live \subseteq System
  /\ allocated \subseteq Kind
  /\ status \in {"UT_SUCCESS", "UT_BAD_ARG", "UT_EXISTS", "UT_UNKNOWN"}
  /\ calls \in 0 .. MaxCalls
  /\ \A kind \in Kind, s \in System :
       LET t == trie[kind][s]
       IN \A p \in DOMAIN t :
            /\ p # << >> /\ Path(kind, p) = p /\ Starts(p) \subseteq DOMAIN t
            /\ \E q \in DOMAIN t : p \in Starts(q) /\ t[q] # 0

\* Prefixes that are added are kept, with the value they were first given, until
\* the system is freed.
AddedIsKept ==
  \A a \in added : /\ a.path \in DOMAIN trie[a.kind][a.system]
                   /\ trie[a.kind][a.system][a.path] = a.value

\* The prefixes of one system and kind that match a string.
Matching(kind, s, path) ==
  { p \in DOMAIN trie[kind][s] : trie[kind][s][p] # 0 /\ p \in Starts(path) }

\* A search that finds a prefix finds the longest one that matches.  One that
\* finds none was led astray, if a prefix matches at all, by a longer prefix that
\* continues the same way but does not match.
FindsLongest ==
  \A kind \in Kind, s \in System, string \in String :
    LET path == Path(kind, string)
        result == PtvmFind(trie[kind][s], path)
        matching == Matching(kind, s, path)
    IN IF result # Nothing
       THEN /\ Start(path, result.len) \in matching
            /\ result.value = trie[kind][s][Start(path, result.len)]
            /\ \A p \in matching : Len(p) <= result.len
       ELSE \A p \in matching :
              \E q \in DOMAIN trie[kind][s] :
                /\ trie[kind][s][q] # 0
                /\ q \notin Starts(path)
                /\ Len(p) + 1 < Len(q)
                /\ Len(p) < Len(path)
                /\ Start(q, Len(p) + 1) = Start(path, Len(p) + 1)

\* unitcore.c: a new system only contains the dimensionless unit one.
NewSystemHasNoPrefix ==
  [][\A s \in live' \ live, kind \in Kind : trie'[kind][s] = << >>]_vars
=============================================================================
