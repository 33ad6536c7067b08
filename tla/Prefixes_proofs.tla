-------------------------- MODULE Prefixes_proofs --------------------------
(***************************************************************************)
(* Proofs about Prefixes, for any systems, characters and prefixes.        *)
(*                                                                         *)
(* The inductive invariant is that tries have neither gaps nor useless     *)
(* branches, that their paths are folded, and that they have what was      *)
(* added.  That a search finds the longest prefix follows from it, without *)
(* another step of the system.                                             *)
(***************************************************************************)
EXTENDS Prefixes, SequenceTheorems, WellFoundedInduction, TLAPS

-----------------------------------------------------------------------------
(* The starts of a path.                                                   *)

LEMMA StartFacts ==
  ASSUME NEW p \in Seq(Character), NEW n \in 1 .. Len(p)
  PROVE  /\ Start(p, n) \in Seq(Character)
         /\ Len(Start(p, n)) = n
         /\ \A i \in 1 .. n : Start(p, n)[i] = p[i]
<1>1. \A i \in 1 .. n : p[i] \in Character
  BY ElementOfSeq, LenProperties
<1>2. n \in Int /\ n >= 1
  BY LenProperties
<1> QED
  BY <1>1, <1>2, SubSeqProperties DEF Start

LEMMA StartWhole ==
  ASSUME NEW p \in Seq(Character), Len(p) >= 1
  PROVE  Start(p, Len(p)) = p
<1>1. Len(p) \in 1 .. Len(p)
  BY LenProperties
<1> QED
  BY <1>1, StartFacts, SeqEqual

LEMMA StartOfStart ==
  ASSUME NEW p \in Seq(Character), NEW n \in 1 .. Len(p), NEW k \in 1 .. n
  PROVE  Start(Start(p, n), k) = Start(p, k)
<1>1. n \in Nat /\ k \in Nat /\ Len(p) \in Nat /\ k \in 1 .. Len(p)
  BY LenProperties
<1>2. Start(p, n) \in Seq(Character) /\ Len(Start(p, n)) = n
      /\ \A i \in 1 .. n : Start(p, n)[i] = p[i]
  BY StartFacts
<1>3. Start(p, k) \in Seq(Character) /\ Len(Start(p, k)) = k
      /\ \A i \in 1 .. k : Start(p, k)[i] = p[i]
  BY <1>1, StartFacts
<1> DEFINE q == Start(p, n)
<1>4. q \in Seq(Character) /\ k \in 1 .. Len(q)
  BY <1>2
<1> HIDE DEF q
<1>5. Start(q, k) \in Seq(Character) /\ Len(Start(q, k)) = k
      /\ \A i \in 1 .. k : Start(q, k)[i] = q[i]
  BY <1>4, StartFacts
<1>6. \A i \in 1 .. k : q[i] = p[i]
  BY <1>1, <1>2 DEF q
<1>7. Start(q, k) = Start(p, k)
  BY <1>3, <1>5, <1>6, SeqEqual
<1> QED
  BY <1>7 DEF q

LEMMA StartsOfStart ==
  ASSUME NEW p \in Seq(Character), NEW q \in Starts(p)
  PROVE  q \in Seq(Character) /\ q # << >> /\ Starts(q) \subseteq Starts(p)
<1>1. PICK n \in 1 .. Len(p) : q = Start(p, n)
  BY DEF Starts
<1>2. n \in Nat /\ Len(p) \in Nat /\ Len(q) = n /\ q \in Seq(Character)
  BY <1>1, StartFacts, LenProperties
<1>3. q # << >>
  BY <1>1, <1>2, EmptySeq
<1>4. ASSUME NEW k \in 1 .. n PROVE Start(q, k) \in Starts(p)
  <2>1. Start(q, k) = Start(p, k)
    BY <1>1, StartOfStart
  <2>2. k \in 1 .. Len(p)
    BY <1>1, <1>2
  <2> QED
    BY <2>1, <2>2 DEF Starts
<1> QED
  BY <1>2, <1>3, <1>4 DEF Starts

LEMMA StartsWhole ==
  ASSUME NEW p \in Seq(Character), p # << >>
  PROVE  p \in Starts(p) /\ Len(p) \in 1 .. Len(p)
<1>1. Len(p) \in Nat /\ Len(p) >= 1
  BY EmptySeq
<1> QED
  BY <1>1, StartWhole DEF Starts

-----------------------------------------------------------------------------
(* Folding.                                                                *)

LEMMA PathFacts ==
  ASSUME NEW kind, NEW p \in Seq(Character)
  PROVE  /\ Path(kind, p) \in Seq(Character)
         /\ Len(Path(kind, p)) = Len(p)
         /\ Path(kind, Path(kind, p)) = Path(kind, p)
<1>1. DOMAIN p = 1 .. Len(p) /\ Len(p) \in Nat
  BY LenProperties
<1>2. \A i \in 1 .. Len(p) : p[i] \in Character
  BY ElementOfSeq
<1>3. \A i \in 1 .. Len(p) : Lower(p[i]) \in Character /\ Lower(Lower(p[i])) = Lower(p[i])
  BY <1>2, CharacterAssumption
<1> DEFINE q == [ i \in 1 .. Len(p) |-> IF kind = "name" THEN Lower(p[i]) ELSE p[i] ]
<1>4. Path(kind, p) = q
  BY <1>1 DEF Path
<1>5. q \in [1 .. Len(p) -> Character]
  BY <1>2, <1>3
<1>6. q \in Seq(Character) /\ Len(q) = Len(p) /\ DOMAIN q = 1 .. Len(p)
  BY <1>1, <1>5, SeqDef, LenProperties
<1>7. Path(kind, q) = q
  <2>1. \A i \in 1 .. Len(p) : (IF kind = "name" THEN Lower(q[i]) ELSE q[i]) = q[i]
    BY <1>3
  <2>2. Path(kind, q) = [ i \in 1 .. Len(p) |-> IF kind = "name" THEN Lower(q[i]) ELSE q[i] ]
    BY <1>6 DEF Path
  <2> QED
    BY <2>1, <2>2
<1> QED
  BY <1>4, <1>6, <1>7

LEMMA PathStart ==
  ASSUME NEW kind, NEW p \in Seq(Character), Path(kind, p) = p, NEW q \in Starts(p)
  PROVE  Path(kind, q) = q
<1>1. PICK n \in 1 .. Len(p) : q = Start(p, n)
  BY DEF Starts
<1>2. /\ q \in Seq(Character) /\ Len(q) = n /\ n \in Nat /\ Len(p) \in Nat
      /\ \A i \in 1 .. n : q[i] = p[i]
  BY <1>1, StartFacts, LenProperties
<1>3. DOMAIN q = 1 .. n /\ DOMAIN p = 1 .. Len(p)
  BY <1>2, LenProperties
<1>4. \A i \in 1 .. Len(p) : (IF kind = "name" THEN Lower(p[i]) ELSE p[i]) = p[i]
  BY <1>3 DEF Path
<1>5. \A i \in 1 .. n : (IF kind = "name" THEN Lower(q[i]) ELSE q[i]) = q[i]
  BY <1>1, <1>2, <1>4
<1>6. Path(kind, q) \in Seq(Character) /\ Len(Path(kind, q)) = n
  BY <1>2, PathFacts
<1>7. \A i \in 1 .. n : Path(kind, q)[i] = q[i]
  BY <1>3, <1>5 DEF Path
<1> QED
  BY <1>2, <1>6, <1>7, SeqEqual

-----------------------------------------------------------------------------
(* Tries.                                                                  *)

GoodPath(kind, t, p) ==
  /\ p \in Seq(Character) /\ p # << >> /\ Path(kind, p) = p
  /\ Starts(p) \subseteq DOMAIN t
  /\ \E q \in DOMAIN t : p \in Starts(q) /\ t[q] # 0

GoodTrie(kind, t) == \A p \in DOMAIN t : GoodPath(kind, t, p)

LEMMA ExtendedDomain ==
  ASSUME NEW t, NEW path, NEW value, NEW p
  PROVE  p \in DOMAIN Extended(t, path, value) <=> p \in DOMAIN t \/ p \in Starts(path)
BY DEF Extended

LEMMA ExtendedThere ==
  ASSUME NEW t, NEW path, NEW value, path \in Starts(path)
  PROVE  Extended(t, path, value)[path] =
           IF path \in DOMAIN t /\ t[path] # 0 THEN t[path] ELSE value
BY DEF Extended

\* A value that is there stays.
LEMMA ExtendedKeeps ==
  ASSUME NEW t, NEW path, NEW value, NEW p \in DOMAIN t, t[p] # 0
  PROVE  Extended(t, path, value)[p] = t[p]
BY DEF Extended

LEMMA ExtendedGood ==
  ASSUME NEW kind, NEW t, GoodTrie(kind, t),
         NEW path \in Seq(Character), path # << >>, Path(kind, path) = path,
         NEW value, value # 0
  PROVE  GoodTrie(kind, Extended(t, path, value))
<1> DEFINE new == Extended(t, path, value)
<1>0. path \in Starts(path)
  BY StartsWhole
<1>1. path \in DOMAIN new /\ new[path] # 0
  BY <1>0, ExtendedDomain, ExtendedThere
<1>2. \A p : p \in DOMAIN new <=> p \in DOMAIN t \/ p \in Starts(path)
  BY ExtendedDomain
<1>3. \A p \in DOMAIN t : t[p] # 0 => new[p] = t[p]
  BY ExtendedKeeps
<1> HIDE DEF new
<1>4. ASSUME NEW p \in DOMAIN t PROVE GoodPath(kind, new, p)
  <2>1. GoodPath(kind, t, p)
    BY DEF GoodTrie
  <2>2. PICK q \in DOMAIN t : p \in Starts(q) /\ t[q] # 0
    BY <2>1 DEF GoodPath
  <2>3. q \in DOMAIN new /\ p \in Starts(q) /\ new[q] # 0
    BY <1>2, <1>3, <2>2
  <2> QED
    BY <1>2, <2>1, <2>3 DEF GoodPath
<1>5. ASSUME NEW p \in Starts(path) PROVE GoodPath(kind, new, p)
  <2>1. p \in Seq(Character) /\ p # << >> /\ Starts(p) \subseteq Starts(path)
    BY StartsOfStart
  <2>2. Path(kind, p) = p
    BY PathStart
  <2> QED
    BY <1>1, <1>2, <2>1, <2>2 DEF GoodPath
<1>6. GoodTrie(kind, new)
  BY <1>2, <1>4, <1>5 DEF GoodTrie
<1> QED
  BY <1>6 DEF new

-----------------------------------------------------------------------------
(* Searching.                                                              *)

\* The lengths at which a trie follows a path.
Lengths(t, path) == { n \in 1 .. Len(path) : \A k \in 1 .. n : Start(path, k) \in DOMAIN t }

LEMMA GreatestLength ==
  ASSUME NEW m \in Nat, NEW S, S \subseteq 1 .. m, S # {}
  PROVE  \E n \in S : \A k \in S : k <= n
<1> DEFINE T == { m - n : n \in S }
<1>1. T \subseteq Nat /\ T # {}
  OBVIOUS
<1>2. \E x \in T : \A y \in T : ~ (<<y, x>> \in OpToRel(<, Nat))
  BY <1>1, NatLessThanWellFounded, WFMin
<1>3. PICK x \in T : \A y \in T : ~ (<<y, x>> \in OpToRel(<, Nat))
  BY <1>2
<1>4. \A y \in T : ~ (y < x)
  BY <1>1, <1>3 DEF OpToRel
<1>5. PICK n \in S : x = m - n
  BY <1>3
<1>6. ASSUME NEW k \in S PROVE k <= n
  <2>1. m - k \in T
    OBVIOUS
  <2>2. ~(m - k < m - n)
    BY <1>4, <1>5, <2>1
  <2>3. k \in Int /\ n \in Int
    OBVIOUS
  <2> QED
    BY <2>2, <2>3
<1> QED
  BY <1>5, <1>6

LEMMA LongestFacts ==
  ASSUME NEW t, NEW path \in Seq(Character)
  PROVE  /\ Lengths(t, path) = {} => Longest(t, path) = 0
         /\ Lengths(t, path) # {} =>
              /\ Longest(t, path) \in Lengths(t, path)
              /\ \A k \in Lengths(t, path) : k <= Longest(t, path)
<1>1. Longest(t, path) =
        IF Lengths(t, path) = {} THEN 0
        ELSE CHOOSE n \in Lengths(t, path) : \A k \in Lengths(t, path) : k <= n
  BY DEF Longest, Lengths
<1>2. Lengths(t, path) \subseteq 1 .. Len(path) /\ Len(path) \in Nat
  BY LenProperties DEF Lengths
<1>3. CASE Lengths(t, path) # {}
  <2>1. \E n \in Lengths(t, path) : \A k \in Lengths(t, path) : k <= n
    BY <1>2, <1>3, GreatestLength
  <2> QED
    BY <1>1, <1>3, <2>1
<1> QED
  BY <1>1, <1>3

\* A good trie follows a path to all starts of the path that it has.
LEMMA LengthsAreStarts ==
  ASSUME NEW kind, NEW t, GoodTrie(kind, t), NEW path \in Seq(Character),
         NEW n \in 1 .. Len(path), Start(path, n) \in DOMAIN t
  PROVE  n \in Lengths(t, path)
<1>1. Starts(Start(path, n)) \subseteq DOMAIN t
  BY DEF GoodTrie, GoodPath
<1>2. Len(Start(path, n)) = n
  BY StartFacts
<1>3. ASSUME NEW k \in 1 .. n PROVE Start(path, k) \in DOMAIN t
  <2>1. Start(Start(path, n), k) \in Starts(Start(path, n))
    BY <1>2 DEF Starts
  <2>2. Start(Start(path, n), k) = Start(path, k)
    BY StartOfStart
  <2> QED
    BY <1>1, <2>1, <2>2
<1> QED
  BY <1>3 DEF Lengths

\* The prefixes of a trie that match a path.
Matches(t, path) == { p \in DOMAIN t : t[p] # 0 /\ p \in Starts(path) }

LEMMA MatchLength ==
  ASSUME NEW kind, NEW t, GoodTrie(kind, t), NEW path \in Seq(Character),
         NEW p \in Matches(t, path)
  PROVE  /\ p = Start(path, Len(p))
         /\ Len(p) \in 1 .. Len(path)
         /\ Len(p) \in Lengths(t, path)
<1>1. PICK n \in 1 .. Len(path) : p = Start(path, n)
  BY DEF Matches, Starts
<1>2. Len(p) = n
  BY <1>1, StartFacts
<1> QED
  BY <1>1, <1>2, LengthsAreStarts DEF Matches

\* A search that finds a prefix finds the longest one.
LEMMA FoundLongest ==
  ASSUME NEW kind, NEW t, GoodTrie(kind, t), NEW path \in Seq(Character),
         NEW r, r = PtvmFind(t, path), r # Nothing
  PROVE  /\ Start(path, r.len) \in Matches(t, path)
         /\ r.value = t[Start(path, r.len)]
         /\ \A p \in Matches(t, path) : Len(p) <= r.len
<1> DEFINE n == Longest(t, path)
<1>1. n # 0 /\ t[Start(path, n)] # 0 /\ r = [value |-> t[Start(path, n)], len |-> n]
  BY DEF PtvmFind
<1>2. n \in Lengths(t, path) /\ \A k \in Lengths(t, path) : k <= n
  BY <1>1, LongestFacts
<1>3. r.len = n /\ r.value = t[Start(path, n)]
  BY <1>1
<1>4. n \in 1 .. Len(path) /\ \A k \in 1 .. n : Start(path, k) \in DOMAIN t
  BY <1>2 DEF Lengths
<1> HIDE DEF n
<1>5. n \in 1 .. n
  BY <1>4, LenProperties
<1>6. Start(path, n) \in DOMAIN t /\ Start(path, n) \in Starts(path)
  BY <1>4, <1>5 DEF Starts
<1> QED
  BY <1>1, <1>2, <1>3, <1>6, MatchLength DEF Matches

\* One that finds none has followed a longer prefix beyond all that match.
LEMMA FoundNone ==
  ASSUME NEW kind, NEW t, GoodTrie(kind, t), NEW path \in Seq(Character),
         PtvmFind(t, path) = Nothing, NEW p \in Matches(t, path)
  PROVE  \E q \in DOMAIN t :
           /\ t[q] # 0
           /\ q \notin Starts(path)
           /\ Len(p) + 1 < Len(q)
           /\ Len(p) < Len(path)
           /\ Start(q, Len(p) + 1) = Start(path, Len(p) + 1)
<1> DEFINE n == Longest(t, path)
           l == Len(p)
           u == Start(path, n)
<1>1. p = Start(path, l) /\ l \in 1 .. Len(path) /\ l \in Lengths(t, path) /\ t[p] # 0
  BY MatchLength DEF Matches
<1>2. n \in Lengths(t, path) /\ \A k \in Lengths(t, path) : k <= n
  BY <1>1, LongestFacts
<1>3. n \in 1 .. Len(path) /\ \A k \in 1 .. n : Start(path, k) \in DOMAIN t
  BY <1>2 DEF Lengths
<1>4. Len(path) \in Nat /\ n \in Nat /\ l \in Nat /\ n >= 1 /\ l >= 1 /\ l <= n
  BY <1>1, <1>2, <1>3, LenProperties
<1>5. t[u] = 0
  <2>1. n # 0
    BY <1>4
  <2>2. n = 0 \/ t[u] = 0 \/ [value |-> t[u], len |-> n] = Nothing
    BY DEF PtvmFind
  <2>3. [value |-> t[u], len |-> n] = Nothing => n = 0
    BY DEF Nothing
  <2> QED
    BY <2>1, <2>2, <2>3
<1>6. u \in DOMAIN t /\ u \in Seq(Character) /\ Len(u) = n
  <2>1. n \in 1 .. n
    BY <1>4
  <2> QED
    BY <1>3, <2>1, StartFacts
<1>7. n # l
  BY <1>1, <1>5
<1>8. PICK q \in DOMAIN t : u \in Starts(q) /\ t[q] # 0
  BY <1>6 DEF GoodTrie, GoodPath
<1> HIDE DEF n, l, u
<1>9. q \in Seq(Character) /\ q # << >> /\ Len(q) \in Nat
  BY <1>8, LenProperties DEF GoodTrie, GoodPath
<1>10. u = Start(q, n) /\ n <= Len(q)
  <2>1. PICK k \in 1 .. Len(q) : u = Start(q, k)
    BY <1>8 DEF Starts
  <2>2. k = n
    BY <1>6, <1>9, <2>1, StartFacts
  <2> QED
    BY <1>9, <2>1, <2>2
<1>11. Len(q) # n
  <2>1. Len(q) = n => q = u
    BY <1>4, <1>9, <1>10, StartWhole
  <2> QED
    BY <1>5, <1>8, <2>1
<1>12. q \notin Starts(path)
  <2> SUFFICES ASSUME q \in Starts(path) PROVE FALSE
    OBVIOUS
  <2>1. q \in Matches(t, path)
    BY <1>8 DEF Matches
  <2>2. Len(q) \in Lengths(t, path)
    BY <2>1, MatchLength
  <2> QED
    BY <1>2, <1>4, <1>9, <1>10, <1>11, <2>2
<1>13. l + 1 < Len(q) /\ l < Len(path)
  BY <1>3, <1>4, <1>7, <1>9, <1>10, <1>11
<1>14. Start(q, l + 1) = Start(path, l + 1)
  <2>1. l + 1 \in 1 .. n /\ n \in 1 .. Len(q)
    BY <1>4, <1>7, <1>9, <1>10
  <2>2. Start(Start(q, n), l + 1) = Start(q, l + 1)
    BY <1>9, <2>1, StartOfStart
  <2>3. Start(Start(path, n), l + 1) = Start(path, l + 1)
    BY <1>3, <2>1, StartOfStart
  <2> QED
    BY <1>10, <2>2, <2>3 DEF u
<1> QED
  BY <1>8, <1>12, <1>13, <1>14 DEF l

-----------------------------------------------------------------------------
(* The inductive invariant.                                                *)

Shape ==
  /\ DOMAIN trie = Kind
  /\ \A kind \in Kind : DOMAIN trie[kind] = System

Small ==
  /\ live \subseteq System
  /\ allocated \subseteq Kind
  /\ status \in {"UT_SUCCESS", "UT_BAD_ARG", "UT_EXISTS", "UT_UNKNOWN"}
  /\ calls \in 0 .. MaxCalls

GoodTries == \A kind \in Kind, s \in System : GoodTrie(kind, trie[kind][s])

GoodAdded ==
  \A a \in added : /\ a.kind \in Kind
                   /\ a.system \in System
                   /\ a.value # 0
                   /\ a.path \in DOMAIN trie[a.kind][a.system]
                   /\ trie[a.kind][a.system][a.path] = a.value

IInv == Shape /\ Small /\ GoodTries /\ GoodAdded

LEMMA SmallStep ==
  ASSUME IInv, Call, status' \in {"UT_SUCCESS", "UT_BAD_ARG", "UT_EXISTS", "UT_UNKNOWN"},
         live' \subseteq System, allocated' \subseteq Kind
  PROVE  Small'
BY CallAssumption DEF IInv, Small, Call

LEMMA TriesSame ==
  ASSUME IInv, trie' = trie, added' \subseteq added
  PROVE  Shape' /\ GoodTries' /\ GoodAdded'
BY DEF IInv, Shape, GoodTries, GoodAdded

LEMMA AddStep ==
  ASSUME IInv, NEW kind \in Kind, NEW s \in Systems, NEW prefix \in Prefix, NEW value \in Value,
         AddPrefix(kind, s, prefix, value)
  PROVE  IInv'
<1>1. CASE s = NullSystem \/ prefix = << >> \/ value = 0
  <2>1. status' = "UT_BAD_ARG" /\ UNCHANGED <<live, trie, allocated, added>> /\ Call
    BY <1>1 DEF AddPrefix
  <2> QED
    BY <2>1, SmallStep, TriesSame DEF IInv, Small
<1>2. CASE ~(s = NullSystem \/ prefix = << >> \/ value = 0)
  <2> DEFINE path == Path(kind, prefix)
             t == trie[kind][s]
             new == Extended(t, path, value)
             a == [kind |-> kind, system |-> s, path |-> path, value |-> value]
  <2>1. /\ allocated' = allocated \cup {kind}
        /\ trie' = [trie EXCEPT ![kind][s] = new]
        /\ status' \in {"UT_SUCCESS", "UT_EXISTS"}
        /\ added' = IF new[path] = value THEN added \cup {a} ELSE added
        /\ live' = live
        /\ Call
    BY <1>2 DEF AddPrefix
  <2>2. s \in System /\ prefix \in Seq(Character) /\ prefix # << >> /\ value # 0
    BY <1>2, ArgumentAssumption DEF Systems, IInv, Small
  <2>3. /\ path \in Seq(Character) /\ path # << >> /\ Path(kind, path) = path
    <3>1. Len(prefix) \in Nat /\ Len(prefix) # 0
      BY <2>2, EmptySeq
    <3> QED
      BY <2>2, <3>1, PathFacts, EmptySeq
  <2>4. GoodTrie(kind, t)
    BY <2>2 DEF IInv, GoodTries
  <2>5. path \in Starts(path)
    BY <2>3, StartsWhole
  <2>6. GoodTrie(kind, new) /\ path \in DOMAIN new
    BY <2>2, <2>3, <2>4, <2>5, ExtendedGood, ExtendedDomain
  <2>7. \A p \in DOMAIN t : t[p] # 0 => p \in DOMAIN new /\ new[p] = t[p]
    BY ExtendedKeeps, ExtendedDomain
  <2> HIDE DEF new, path
  <2>8. /\ Shape'
        /\ trie'[kind][s] = new
        /\ \A k \in Kind, r \in System : k # kind \/ r # s => trie'[k][r] = trie[k][r]
    BY <2>1, <2>2 DEF IInv, Shape
  <2>9. GoodTries'
    BY <2>6, <2>8 DEF IInv, GoodTries
  <2>10. GoodAdded'
    <3>1. ASSUME NEW b \in added
          PROVE  /\ b.kind \in Kind /\ b.system \in System /\ b.value # 0
                 /\ b.path \in DOMAIN trie'[b.kind][b.system]
                 /\ trie'[b.kind][b.system][b.path] = b.value
      <4>1. /\ b.kind \in Kind /\ b.system \in System /\ b.value # 0
            /\ b.path \in DOMAIN trie[b.kind][b.system]
            /\ trie[b.kind][b.system][b.path] = b.value
        BY DEF IInv, GoodAdded
      <4>2. CASE b.kind = kind /\ b.system = s
        BY <2>7, <2>8, <4>1, <4>2
      <4>3. CASE b.kind # kind \/ b.system # s
        BY <2>8, <4>1, <4>3
      <4> QED
        BY <4>1, <4>2, <4>3
    <3>2. ASSUME new[path] = value
          PROVE  /\ a.kind \in Kind /\ a.system \in System /\ a.value # 0
                 /\ a.path \in DOMAIN trie'[a.kind][a.system]
                 /\ trie'[a.kind][a.system][a.path] = a.value
      BY <2>2, <2>6, <2>8, <3>2
    <3> HIDE DEF a
    <3> QED
      BY <2>1, <3>1, <3>2 DEF GoodAdded
  <2>11. Small'
    BY <2>1, SmallStep DEF IInv, Small
  <2> QED
    BY <2>8, <2>9, <2>10, <2>11 DEF IInv
<1> QED
  BY <1>1, <1>2

LEMMA Inductive == Spec => []IInv
<1>1. Init => IInv
  BY CallAssumption DEF Init, IInv, Shape, Small, GoodTries, GoodTrie, GoodAdded
<1>2. IInv /\ [Next]_vars => IInv'
  <2> SUFFICES ASSUME IInv, [Next]_vars PROVE IInv'
    OBVIOUS
  <2>1. ASSUME NEW s \in System, NewSystem(s) PROVE IInv'
    <3>1. status' = "UT_SUCCESS" /\ live' = live \cup {s} /\ UNCHANGED <<trie, allocated, added>> /\ Call
      BY <2>1 DEF NewSystem
    <3> QED
      BY <3>1, SmallStep, TriesSame DEF IInv, Small
  <2>2. ASSUME NEW s \in System, FreeSystem(s) PROVE IInv'
    <3>1. /\ status' = "UT_SUCCESS" /\ live' = live \ {s} /\ UNCHANGED <<trie, allocated>>
          /\ added' \subseteq added /\ Call
      BY <2>2 DEF FreeSystem
    <3> QED
      BY <3>1, SmallStep, TriesSame DEF IInv, Small
  <2>3. ASSUME NEW kind \in Kind, NEW s \in Systems, NEW prefix \in Prefix, NEW value \in Value,
               AddPrefix(kind, s, prefix, value)
        PROVE  IInv'
    BY <2>3, AddStep
  <2>4. ASSUME NEW kind \in Kind, NEW s \in Systems, NEW string \in String,
               FindPrefix(kind, s, string)
        PROVE  IInv'
    <3>1. /\ status' \in {"UT_SUCCESS", "UT_BAD_ARG", "UT_UNKNOWN"}
          /\ UNCHANGED <<live, trie, allocated, added>> /\ Call
      BY <2>4 DEF FindPrefix
    <3> QED
      BY <3>1, SmallStep, TriesSame DEF IInv, Small
  <2>5. CASE UNCHANGED vars
    <3>1. Small'
      BY <2>5 DEF vars, IInv, Small
    <3> QED
      BY <2>5, <3>1, TriesSame DEF vars, IInv
  <2> QED
    BY <2>1, <2>2, <2>3, <2>4, <2>5 DEF Next
<1> QED
  BY <1>1, <1>2, PTL DEF Spec

-----------------------------------------------------------------------------
(* The theorems.                                                           *)

\* Tries have no gaps and no useless branches, in whatever order prefixes that
\* start each other are added.
THEOREM TypeCorrect == Spec => []TypeOK
<1>1. IInv => TypeOK
  BY DEF IInv, Small, GoodTries, GoodTrie, GoodPath, TypeOK
<1> QED
  BY <1>1, Inductive, PTL

\* A prefix that was added is found in its trie with the value it was first given
\* until the system is freed.
THEOREM Kept == Spec => []AddedIsKept
<1>1. IInv => AddedIsKept
  BY DEF IInv, GoodAdded, AddedIsKept
<1> QED
  BY <1>1, Inductive, PTL

\* A search returns the longest matching prefix; where it returns none although
\* one matches, a longer prefix that does not match goes the same way further on.
THEOREM LongestFound == Spec => []FindsLongest
<1>1. IInv => FindsLongest
  <2> SUFFICES ASSUME IInv, NEW kind \in Kind, NEW s \in System, NEW string \in String
               PROVE  LET path == Path(kind, string)
                          result == PtvmFind(trie[kind][s], path)
                          matching == Matching(kind, s, path)
                      IN IF result # Nothing
                         THEN /\ Start(path, result.len) \in matching
                              /\ result.value = trie[kind][s][Start(path, result.len)]
                              /\ \A p \in matching : Len(p) <= result.len
                         ELSE \A p \in matching :
                                \E q \in DOMAIN trie[kind][s] :
                                  /\ trie[kind][s][q] # 0
                                  /\ q \notin Starts(path)
                                  /\ Len(p) + 1 < Len(q)
                                  /\ Len(p) < Len(path)
                                  /\ Start(q, Len(p) + 1) = Start(path, Len(p) + 1)
    BY DEF FindsLongest
  <2> DEFINE path == Path(kind, string)
             t == trie[kind][s]
             result == PtvmFind(t, path)
  <2>1. path \in Seq(Character)
    BY ArgumentAssumption, PathFacts
  <2>2. GoodTrie(kind, t)
    BY DEF IInv, GoodTries
  <2>3. Matching(kind, s, path) = Matches(t, path)
    BY DEF Matching, Matches
  <2> HIDE DEF path, t
  <2>4. CASE result # Nothing
    BY <2>1, <2>2, <2>3, <2>4, FoundLongest DEF path, t
  <2>5. CASE result = Nothing
    BY <2>1, <2>2, <2>3, <2>5, FoundNone DEF path, t
  <2> QED
    BY <2>4, <2>5 DEF path, t
<1> QED
  BY <1>1, Inductive, PTL
=============================================================================
