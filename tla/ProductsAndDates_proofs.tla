----------------------- MODULE ProductsAndDates_proofs -----------------------
(***************************************************************************)
(* Proofs about the two parts of src/lib/unitcore.c that need no other:    *)
(* ProductUnit, for all basic-units, arguments, widths of the powers and   *)
(* bounds, and Calendar, for all days, seconds, resolutions and errors of  *)
(* the doubles.                                                            *)
(***************************************************************************)
EXTENDS ProductUnit, Calendar, TLAPS

-----------------------------------------------------------------------------
(* Arithmetic of shorts.                                                   *)

\* A cast to short yields a short.
LEMMA NarrowType == \A k \in Int : Narrow(k) \in Short
<1> SUFFICES ASSUME NEW k \in Int PROVE Narrow(k) \in Short
  OBVIOUS
<1> DEFINE m == 2 * (ShortMax + 1)
<1>1. m \in Nat /\ m > 0
  BY ShortAssumption
<1>2. (k + ShortMax + 1) \in Int
  BY ShortAssumption
<1>3. (k + ShortMax + 1) % m \in 0 .. m - 1
  BY <1>1, <1>2
<1> QED
  BY <1>3, ShortAssumption DEF Narrow, Short

\* A cast to short leaves a value that fits alone.
LEMMA NarrowFits == \A k \in Short : Narrow(k) = k
<1> SUFFICES ASSUME NEW k \in Short PROVE Narrow(k) = k
  OBVIOUS
<1> DEFINE m == 2 * (ShortMax + 1)
           a == k + ShortMax + 1
<1>1. a \in 0 .. m - 1 /\ m \in Nat
  BY ShortAssumption DEF Short
<1>2. \A b \in Nat, n \in Nat : b < n => b % n = b
  OBVIOUS
<1>3. a % m = a
  BY <1>1, <1>2
<1> QED
  BY <1>3, ShortAssumption DEF Narrow, Short

\* An exact root of a short is a short.
LEMMA QuotientType == \A p \in Short, n \in Roots : p \div n \in Short
<1> SUFFICES ASSUME NEW p \in Short, NEW n \in Roots PROVE p \div n \in Short
  OBVIOUS
<1> DEFINE q == p \div n
<1>1. p \in Int /\ n \in Nat /\ n >= 2
  BY ArgumentAssumption, ShortAssumption DEF Short
<1>2. q \in Int /\ n * q <= p /\ p < n * q + n
  BY <1>1
<1>3. q <= ShortMax
  BY <1>1, <1>2, ShortAssumption DEF Short
<1>4. q >= -(ShortMax + 1)
  BY <1>1, <1>2, ShortAssumption DEF Short
<1> QED
  BY <1>2, <1>3, <1>4, ShortAssumption DEF Short

-----------------------------------------------------------------------------
(* Type correctness.                                                       *)

\* The argument of a call under way is one the client may pass; between calls
\* the locals have their initial values.
LocalsOK ==
  /\ call = "raise" => arg \in Powers
  /\ call = "root" => arg \in Roots
  /\ call = "none" => i1 = 1 /\ i2 = 1
  /\ call \in {"none", "relate"} => out = << >>

TypeInv == TypeOK /\ LocalsOK

LEMMA EntryType ==
  ASSUME NEW p \in Product, NEW i \in 1 .. Len(p)
  PROVE  /\ p[i] \in Entry
         /\ p[i].index \in Basic
         /\ p[i].index \in Int
         /\ p[i].power \in Short
         /\ p[i].power \in Int
<1>1. p[i] \in Entry
  BY DEF Product
<1>2. p[i].index \in Basic /\ p[i].power \in Short
  BY <1>1 DEF Entry
<1>3. Basic \subseteq Int /\ Short \subseteq Int
  BY BasicAssumption, ShortAssumption DEF Short
<1> QED
  BY <1>1, <1>2, <1>3

LEMMA TypeInit == Init => TypeInv
<1> SUFFICES ASSUME Init PROVE TypeInv
  OBVIOUS
<1>1. One \in Product /\ Len(One) = 0
  BY DEF One, Product
<1> QED
  BY <1>1, CallAssumption DEF Init, TypeInv, TypeOK, LocalsOK, One

LEMMA TypeStep == TypeInv /\ [Next]_vars => TypeInv'
<1> SUFFICES ASSUME TypeOK, LocalsOK, [Next]_vars PROVE TypeInv'
  BY DEF TypeInv
<1> USE DEF TypeInv, TypeOK, LocalsOK
<1>0. Powers \subseteq Int /\ Roots \subseteq Int /\ Short \subseteq Int
  BY ArgumentAssumption, ShortAssumption DEF Short
<1>1. One \in Product /\ Len(One) = 0 /\ << >> \in Product /\ One = << >>
  BY DEF One, Product
<1>2. ASSUME NEW b \in Basic, Load(b) PROVE TypeInv'
  <2>1. << [index |-> b, power |-> 1] >> \in Product
    BY ShortAssumption DEF Product, Entry, Short
  <2> QED
    BY <1>2, <2>1 DEF Load, Idle
<1>3. CASE Adopt
  BY <1>3 DEF Adopt, Idle
<1>4. CASE CallMultiply
  BY <1>4, <1>1, CallAssumption DEF CallMultiply, Idle, Enter
<1>5. ASSUME NEW n \in Powers, CallRaise(n) PROVE TypeInv'
  BY <1>5, <1>1, CallAssumption DEF CallRaise, Idle, Enter
<1>6. ASSUME NEW n \in Roots, CallRoot(n) PROVE TypeInv'
  BY <1>6, <1>1, CallAssumption DEF CallRoot, Idle, Enter
<1>7. CASE CallRelate
  BY <1>7, <1>1, CallAssumption DEF CallRelate, Idle, Enter
<1>8. CASE MultiplyFirst
  <2>1. left[i1] \in Entry
    BY <1>8, EntryType DEF MultiplyFirst, TakesFirst
  <2>2. out' \in Product
    BY <1>8, <2>1 DEF MultiplyFirst, Product
  <2> QED
    BY <1>8, <2>2 DEF MultiplyFirst, TakesFirst
<1>9. CASE MultiplySecond
  <2>1. right[i2] \in Entry
    BY <1>9, EntryType DEF MultiplySecond, TakesSecond
  <2>2. out' \in Product
    BY <1>9, <2>1 DEF MultiplySecond, Product
  <2> QED
    BY <1>9, <2>2 DEF MultiplySecond, TakesSecond
<1>10. CASE MultiplyBoth
  <2>1. left[i1] \in Entry /\ right[i2] \in Entry
    BY <1>10, EntryType DEF MultiplyBoth, Meet
  <2>2. [index |-> left[i1].index,
         power |-> Narrow(left[i1].power + right[i2].power)] \in Entry
    <3>1. left[i1].power + right[i2].power \in Int
      BY <1>10, EntryType DEF MultiplyBoth, Meet
    <3> QED
      BY <3>1, <2>1, NarrowType DEF Entry
  <2>3. out' \in Product
    BY <1>10, <2>2 DEF MultiplyBoth, Product
  <2> QED
    BY <1>10, <2>3 DEF MultiplyBoth, Meet
<1>11. CASE MultiplyReturn
  BY <1>11, <1>1 DEF MultiplyReturn, Return
<1>12. CASE RaiseEntry
  <2>1. left[i1] \in Entry
    BY <1>12, EntryType DEF RaiseEntry
  <2>2. left[i1].power * arg \in Int
    <3>1. left[i1].power \in Int
      BY <1>12, EntryType DEF RaiseEntry
    <3>2. arg \in Int
      BY <1>12, <1>0 DEF RaiseEntry
    <3> QED
      BY <3>1, <3>2
  <2>3. [index |-> left[i1].index,
         power |-> Narrow(left[i1].power * arg)] \in Entry
    BY <2>1, <2>2, NarrowType DEF Entry
  <2>4. out' \in Product
    BY <1>12, <2>3 DEF RaiseEntry, Product
  <2> QED
    BY <1>12, <2>4 DEF RaiseEntry
<1>13. CASE RaiseReturn
  BY <1>13, <1>1 DEF RaiseReturn, Return
<1>14. CASE RootEntry
  <2>1. left[i1] \in Entry
    BY <1>14, EntryType DEF RootEntry
  <2>2. left[i1].power \div arg \in Short
    BY <2>1, <1>14, QuotientType DEF Entry, RootEntry
  <2>3. [index |-> left[i1].index, power |-> left[i1].power \div arg] \in Entry
    BY <2>1, <2>2 DEF Entry
  <2>4. out' \in Product
    BY <1>14, <2>3 DEF RootEntry, Product
  <2> QED
    BY <1>14, <2>4 DEF RootEntry
<1>15. CASE RootMeaningless
  BY <1>15, <1>1 DEF RootMeaningless, Return
<1>16. CASE RootReturn
  BY <1>16, <1>1 DEF RootReturn, Return
<1>17. CASE RelateOne
  BY <1>17 DEF RelateOne, TakesFirst, TakesSecond, Answer
<1>18. CASE RelateBoth
  BY <1>18 DEF RelateBoth, Meet, Local, Answer
<1>19. CASE RelateReturn
  BY <1>19 DEF RelateReturn, Answer
<1>20. CASE UNCHANGED vars
  BY <1>20 DEF vars
<1> QED
  BY <1>2, <1>3, <1>4, <1>5, <1>6, <1>7, <1>8, <1>9, <1>10, <1>11, <1>12,
     <1>13, <1>14, <1>15, <1>16, <1>17, <1>18, <1>19, <1>20
  DEF Next, Client, Loop

\* Every unit a client gets, whatever calls it makes, is an array of entries
\* with 16-bit powers, and no loop's cursor leaves its array.
THEOREM TypeCorrect == Spec => []TypeOK
<1>1. TypeInv => TypeOK
  BY DEF TypeInv
<1> QED
  BY TypeInit, TypeStep, <1>1, PTL DEF Spec

-----------------------------------------------------------------------------
(* The merge of two arrays l and r whose cursors stand at n1 and n2.       *)

\* What is passed in l lies below what is yet to be visited in r.
Apart(l, r, n1, n2) ==
  \A i \in 1 .. n1 - 1, j \in n2 .. Len(r) : l[i].index < r[j].index

Order(l, r, n1, n2) == Apart(l, r, n1, n2) /\ Apart(r, l, n2, n1)

\* The ways an entry e gets into the product.
OnlyIn(l, r, n1, e) ==
  \E i \in 1 .. n1 - 1 :
    l[i] = e /\ \A j \in 1 .. Len(r) : r[j].index # e.index

InBoth(l, r, n1, n2, e) ==
  \E i \in 1 .. n1 - 1, j \in 1 .. n2 - 1 :
    /\ l[i].index = e.index
    /\ r[j].index = e.index
    /\ l[i].power # -r[j].power
    /\ e.power = Narrow(l[i].power + r[j].power)

Source(l, r, n1, n2, e) ==
  OnlyIn(l, r, n1, e) \/ OnlyIn(r, l, n2, e) \/ InBoth(l, r, n1, n2, e)

\* What is passed in l is in the product p, or r cancels it.
Kept(l, r, n1, n2, p) ==
  \A i \in 1 .. n1 - 1 :
    \/ \E k \in 1 .. Len(p) : p[k].index = l[i].index
    \/ \E j \in 1 .. n2 - 1 :
         l[i].index = r[j].index /\ l[i].power = -r[j].power

Merged(l, r, n1, n2, p) ==
  /\ Order(l, r, n1, n2)
  /\ Ascending(p)
  /\ \A k \in 1 .. Len(p) : Source(l, r, n1, n2, p[k])
  /\ Kept(l, r, n1, n2, p)
  /\ Kept(r, l, n2, n1, p)

Operands(l, r, n1, n2) ==
  /\ l \in Product /\ Ascending(l) /\ n1 \in 1 .. Len(l) + 1
  /\ r \in Product /\ Ascending(r) /\ n2 \in 1 .. Len(r) + 1

\* What the steps below need to know of an array.
LEMMA ArrayFacts ==
  ASSUME NEW p \in Product
  PROVE  /\ Len(p) \in Nat
         /\ DOMAIN p = 1 .. Len(p)
         /\ \A i \in 1 .. Len(p) : /\ p[i] \in Entry
                                   /\ p[i].index \in Int
                                   /\ p[i].power \in Int
BY EntryType DEF Product

LEMMA AppendFacts ==
  ASSUME NEW p \in Product, NEW e \in Entry
  PROVE  /\ Append(p, e) \in Product
         /\ Len(Append(p, e)) = Len(p) + 1
         /\ DOMAIN Append(p, e) = 1 .. Len(p) + 1
         /\ \A k \in 1 .. Len(p) : Append(p, e)[k] = p[k]
         /\ Append(p, e)[Len(p) + 1] = e
BY DEF Product

\* Appending an entry behind the others keeps the order.
LEMMA AppendAscending ==
  ASSUME NEW p \in Product, NEW e \in Entry, Ascending(p),
         \A k \in 1 .. Len(p) : p[k].index < e.index
  PROVE  Ascending(Append(p, e))
<1>1. /\ Len(Append(p, e)) = Len(p) + 1
      /\ DOMAIN Append(p, e) = 1 .. Len(p) + 1
      /\ \A k \in 1 .. Len(p) : Append(p, e)[k] = p[k]
      /\ Append(p, e)[Len(p) + 1] = e
  BY AppendFacts
<1>2. Len(p) \in Nat /\ DOMAIN p = 1 .. Len(p)
  BY ArrayFacts
<1> QED
  BY <1>1, <1>2 DEF Ascending

LEMMA OrderSymmetric ==
  ASSUME NEW l, NEW r, NEW n1, NEW n2, Order(l, r, n1, n2)
  PROVE  Order(r, l, n2, n1)
BY DEF Order

\* A merge does not care which operand is the first.
LEMMA MergedSymmetric ==
  ASSUME NEW l, NEW r, NEW n1, NEW n2, NEW p,
         Operands(l, r, n1, n2), Merged(l, r, n1, n2, p)
  PROVE  Operands(r, l, n2, n1) /\ Merged(r, l, n2, n1, p)
<1>0. Operands(r, l, n2, n1)
  BY DEF Operands
<1>1. ASSUME NEW e, InBoth(l, r, n1, n2, e) PROVE InBoth(r, l, n2, n1, e)
  <2>1. PICK i \in 1 .. n1 - 1, j \in 1 .. n2 - 1 :
          /\ l[i].index = e.index
          /\ r[j].index = e.index
          /\ l[i].power # -r[j].power
          /\ e.power = Narrow(l[i].power + r[j].power)
    BY <1>1 DEF InBoth
  <2>2. l[i].power \in Int /\ r[j].power \in Int
    <3>1. /\ l \in Product /\ Len(l) \in Nat /\ i \in 1 .. Len(l)
          /\ r \in Product /\ Len(r) \in Nat /\ j \in 1 .. Len(r)
      BY ArrayFacts DEF Operands
    <3> QED
      BY <3>1, EntryType
  <2>3. r[j].power # -l[i].power /\ l[i].power + r[j].power = r[j].power + l[i].power
    BY <2>1, <2>2
  <2> QED
    BY <2>1, <2>3 DEF InBoth
<1>2. \A k \in 1 .. Len(p) : Source(r, l, n2, n1, p[k])
  BY <1>1 DEF Merged, Source
<1> QED
  BY <1>0, <1>2, OrderSymmetric DEF Merged

\* The next entry of an operand belongs behind everything written so far.
LEMMA OutBelow ==
  ASSUME NEW l, NEW r, NEW n1, NEW n2, NEW p \in Product,
         Operands(l, r, n1, n2), Merged(l, r, n1, n2, p), n1 <= Len(l),
         NEW k \in 1 .. Len(p)
  PROVE  p[k].index < l[n1].index
<1>1. /\ l \in Product /\ Len(l) \in Nat /\ n1 \in 1 .. Len(l)
      /\ DOMAIN l = 1 .. Len(l)
      /\ r \in Product /\ Len(r) \in Nat /\ n2 \in 1 .. Len(r) + 1
  BY ArrayFacts DEF Operands
<1>2. \A i \in 1 .. n1 - 1 : l[i].index < l[n1].index
  BY <1>1 DEF Operands, Ascending
<1>3. \A j \in 1 .. n2 - 1 : r[j].index < l[n1].index
  BY <1>1 DEF Merged, Order, Apart
<1>4. Source(l, r, n1, n2, p[k])
  BY DEF Merged
<1> QED
  BY <1>2, <1>3, <1>4 DEF Source, OnlyIn, InBoth

\* Moving a cursor over one more entry loses no source.
LEMMA SourceGrows ==
  ASSUME NEW l, NEW r, NEW n1 \in Nat, NEW n2 \in Nat, NEW m1 \in Nat,
         NEW m2 \in Nat, n1 <= m1, n2 <= m2, NEW e, Source(l, r, n1, n2, e)
  PROVE  Source(l, r, m1, m2, e)
<1>0. /\ \A i \in 1 .. n1 - 1 : i \in 1 .. m1 - 1
      /\ \A j \in 1 .. n2 - 1 : j \in 1 .. m2 - 1
  OBVIOUS
<1>1. CASE OnlyIn(l, r, n1, e)
  BY <1>0, <1>1 DEF Source, OnlyIn
<1>2. CASE OnlyIn(r, l, n2, e)
  BY <1>0, <1>2 DEF Source, OnlyIn
<1>3. CASE InBoth(l, r, n1, n2, e)
  BY <1>0, <1>3 DEF Source, InBoth
<1> QED
  BY <1>1, <1>2, <1>3 DEF Source

\* Passing the entry of l that only l has, or that comes first.
LEMMA OrderOne ==
  ASSUME NEW l, NEW r, NEW n1, NEW n2, Operands(l, r, n1, n2),
         Order(l, r, n1, n2), n1 <= Len(l),
         n2 <= Len(r) => l[n1].index < r[n2].index
  PROVE  Order(l, r, n1 + 1, n2)
<1>1. /\ l \in Product /\ Len(l) \in Nat /\ n1 \in 1 .. Len(l)
      /\ r \in Product /\ Len(r) \in Nat /\ n2 \in 1 .. Len(r) + 1
      /\ DOMAIN r = 1 .. Len(r)
      /\ l[n1].index \in Int
      /\ \A j \in 1 .. Len(r) : r[j].index \in Int
  BY ArrayFacts, EntryType DEF Operands
<1>2. \A j \in n2 .. Len(r) : l[n1].index < r[j].index
  <2> SUFFICES ASSUME NEW j \in n2 .. Len(r) PROVE l[n1].index < r[j].index
    OBVIOUS
  <2>1. n2 \in 1 .. Len(r) /\ j \in 1 .. Len(r) /\ (n2 < j \/ n2 = j)
    BY <1>1
  <2>2. n2 < j => r[n2].index < r[j].index
    BY <1>1, <2>1 DEF Operands, Ascending
  <2> QED
    BY <1>1, <2>1, <2>2
<1>3. \A i \in 1 .. (n1 + 1) - 1 : i \in 1 .. n1 - 1 \/ i = n1
  BY <1>1
<1>4. Apart(l, r, n1 + 1, n2)
  BY <1>2, <1>3 DEF Order, Apart
<1>5. Apart(r, l, n2, n1 + 1)
  BY <1>1 DEF Order, Apart
<1> QED
  BY <1>4, <1>5 DEF Order

\* Passing an entry of both.
LEMMA OrderMeet ==
  ASSUME NEW l, NEW r, NEW n1, NEW n2, Operands(l, r, n1, n2),
         Order(l, r, n1, n2), n1 <= Len(l), n2 <= Len(r),
         l[n1].index = r[n2].index
  PROVE  Order(l, r, n1 + 1, n2 + 1)
<1>1. /\ l \in Product /\ Len(l) \in Nat /\ n1 \in 1 .. Len(l)
      /\ r \in Product /\ Len(r) \in Nat /\ n2 \in 1 .. Len(r)
      /\ DOMAIN r = 1 .. Len(r) /\ DOMAIN l = 1 .. Len(l)
  BY ArrayFacts DEF Operands
<1>2. \A j \in n2 + 1 .. Len(r) : r[n2].index < r[j].index
  BY <1>1 DEF Operands, Ascending
<1>3. \A i \in n1 + 1 .. Len(l) : l[n1].index < l[i].index
  BY <1>1 DEF Operands, Ascending
<1>4. /\ \A i \in 1 .. (n1 + 1) - 1 : i \in 1 .. n1 - 1 \/ i = n1
      /\ \A j \in 1 .. (n2 + 1) - 1 : j \in 1 .. n2 - 1 \/ j = n2
  BY <1>1
<1>5. /\ \A j \in n2 + 1 .. Len(r) : j \in n2 .. Len(r)
      /\ \A i \in n1 + 1 .. Len(l) : i \in n1 .. Len(l)
  BY <1>1
<1>6. Apart(l, r, n1 + 1, n2 + 1)
  BY <1>2, <1>4, <1>5 DEF Order, Apart
<1>7. Apart(r, l, n2 + 1, n1 + 1)
  BY <1>3, <1>4, <1>5 DEF Order, Apart
<1> QED
  BY <1>6, <1>7 DEF Order

\* A product that has grown behind its old entries keeps what it had.
LEMMA KeptGrows ==
  ASSUME NEW l, NEW r, NEW n1 \in Nat, NEW n2 \in Nat, NEW m2 \in Nat,
         NEW p \in Product, NEW q \in Product, n2 <= m2, Len(p) <= Len(q),
         \A k \in 1 .. Len(p) : q[k] = p[k],
         Kept(l, r, n1, n2, p)
  PROVE  Kept(l, r, n1, m2, q)
<1>0. /\ \A j \in 1 .. n2 - 1 : j \in 1 .. m2 - 1
      /\ \A k \in 1 .. Len(p) : k \in 1 .. Len(q)
  BY ArrayFacts
<1> QED
  BY <1>0 DEF Kept

\* One more entry of l is accounted for.
LEMMA KeptOneMore ==
  ASSUME NEW l, NEW r, NEW n1 \in Nat, NEW n2, NEW p, Kept(l, r, n1, n2, p),
         \/ \E k \in 1 .. Len(p) : p[k].index = l[n1].index
         \/ \E j \in 1 .. n2 - 1 :
              l[n1].index = r[j].index /\ l[n1].power = -r[j].power
  PROVE  Kept(l, r, n1 + 1, n2, p)
<1>1. \A i \in 1 .. (n1 + 1) - 1 : i \in 1 .. n1 - 1 \/ i = n1
  OBVIOUS
<1> QED
  BY <1>1 DEF Kept

\* Writing the entry of l that only l has, or that comes first.
LEMMA MergeOne ==
  ASSUME NEW l, NEW r, NEW n1, NEW n2, NEW p \in Product,
         Operands(l, r, n1, n2), Merged(l, r, n1, n2, p), n1 <= Len(l),
         n2 <= Len(r) => l[n1].index < r[n2].index
  PROVE  /\ Append(p, l[n1]) \in Product
         /\ Merged(l, r, n1 + 1, n2, Append(p, l[n1]))
<1> DEFINE e == l[n1]
           q == Append(p, e)
<1>1. /\ l \in Product /\ Len(l) \in Nat /\ n1 \in 1 .. Len(l)
      /\ DOMAIN l = 1 .. Len(l)
      /\ r \in Product /\ Len(r) \in Nat /\ n2 \in 1 .. Len(r) + 1
      /\ DOMAIN r = 1 .. Len(r)
      /\ Len(p) \in Nat
  BY ArrayFacts DEF Operands
<1>2. /\ \A i \in 1 .. Len(l) : l[i].index \in Int
      /\ \A j \in 1 .. Len(r) : r[j].index \in Int
      /\ e \in Entry
  BY <1>1, EntryType
<1>3. /\ q \in Product
      /\ Len(q) = Len(p) + 1
      /\ \A k \in 1 .. Len(p) : q[k] = p[k]
      /\ q[Len(p) + 1] = e
  BY <1>2, AppendFacts
<1>4. Ascending(q)
  BY <1>2, OutBelow, AppendAscending DEF Merged
<1>5. \A j \in n2 .. Len(r) : l[n1].index < r[j].index
  <2> SUFFICES ASSUME NEW j \in n2 .. Len(r) PROVE l[n1].index < r[j].index
    OBVIOUS
  <2>1. n2 \in 1 .. Len(r) /\ j \in 1 .. Len(r) /\ (n2 < j \/ n2 = j)
    BY <1>1
  <2>2. n2 < j => r[n2].index < r[j].index
    BY <1>1, <2>1 DEF Operands, Ascending
  <2> QED
    BY <1>1, <1>2, <2>1, <2>2
<1>6. \A j \in 1 .. n2 - 1 : r[j].index < l[n1].index
  BY <1>1 DEF Merged, Order, Apart
<1>7. Order(l, r, n1 + 1, n2)
  BY OrderOne DEF Merged
<1>9. \A k \in 1 .. Len(q) : Source(l, r, n1 + 1, n2, q[k])
  <2>1. OnlyIn(l, r, n1 + 1, e)
    BY <1>1, <1>2, <1>5, <1>6 DEF OnlyIn
  <2>2. \A k \in 1 .. Len(p) : Source(l, r, n1 + 1, n2, q[k])
    BY <1>1, <1>3, SourceGrows DEF Merged
  <2> QED
    BY <1>1, <1>3, <2>1, <2>2 DEF Source
<1>10. Kept(l, r, n1 + 1, n2, q)
  <2>1. Kept(l, r, n1, n2, q)
    <3>1. n1 \in Nat /\ n2 \in Nat /\ n2 <= n2 /\ Len(p) <= Len(q)
      BY <1>1, <1>3
    <3> QED
      BY <1>3, <3>1, KeptGrows DEF Merged
  <2>2. \E k \in 1 .. Len(q) : q[k].index = l[n1].index
    BY <1>1, <1>3
  <2> QED
    <3>1. n1 \in Nat
      BY <1>1
    <3> HIDE DEF q
    <3> QED
      BY <2>1, <2>2, <3>1, KeptOneMore
<1>11. Kept(r, l, n2, n1 + 1, q)
  <2>1. n1 \in Nat /\ n1 + 1 \in Nat /\ n2 \in Nat /\ n1 <= n1 + 1
        /\ Len(p) <= Len(q)
    BY <1>1, <1>3
  <2> QED
    BY <1>3, <2>1, KeptGrows DEF Merged
<1> QED
  BY <1>3, <1>4, <1>7, <1>9, <1>10, <1>11 DEF Merged

\* What productMultiply() does with two entries of the same basic-unit.
Joined(e, f, p) ==
  IF e.power # -f.power
  THEN Append(p, [index |-> e.index, power |-> Narrow(e.power + f.power)])
  ELSE p

LEMMA MergeMeet ==
  ASSUME NEW l, NEW r, NEW n1, NEW n2, NEW p \in Product,
         Operands(l, r, n1, n2), Merged(l, r, n1, n2, p),
         n1 <= Len(l), n2 <= Len(r), l[n1].index = r[n2].index
  PROVE  /\ Joined(l[n1], r[n2], p) \in Product
         /\ Merged(l, r, n1 + 1, n2 + 1, Joined(l[n1], r[n2], p))
<1> DEFINE q == Joined(l[n1], r[n2], p)
           e == [index |-> l[n1].index,
                 power |-> Narrow(l[n1].power + r[n2].power)]
           cancel == l[n1].power = -r[n2].power
<1>1. /\ l \in Product /\ Len(l) \in Nat /\ n1 \in 1 .. Len(l)
      /\ DOMAIN l = 1 .. Len(l)
      /\ r \in Product /\ Len(r) \in Nat /\ n2 \in 1 .. Len(r)
      /\ DOMAIN r = 1 .. Len(r)
      /\ Len(p) \in Nat
  BY ArrayFacts DEF Operands
<1>2. /\ \A i \in 1 .. Len(l) : l[i].index \in Int
      /\ \A j \in 1 .. Len(r) : r[j].index \in Int
      /\ l[n1] \in Entry /\ r[n2] \in Entry
      /\ l[n1].power \in Int /\ r[n2].power \in Int
  BY <1>1, EntryType
<1>3. e \in Entry
  <2>1. l[n1].power + r[n2].power \in Int
    BY <1>2
  <2> QED
    BY <2>1, <1>2, NarrowType DEF Entry
<1>4. /\ q \in Product
      /\ Len(p) <= Len(q)
      /\ \A k \in 1 .. Len(p) : q[k] = p[k]
      /\ cancel => q = p
      /\ ~cancel => /\ q = Append(p, e)
                    /\ Len(q) = Len(p) + 1
                    /\ q[Len(p) + 1] = e
  BY <1>1, <1>3, AppendFacts DEF Joined
<1>5. Order(l, r, n1 + 1, n2 + 1)
  BY OrderMeet DEF Merged
<1>6. Ascending(q)
  <2>1. \A k \in 1 .. Len(p) : p[k].index < l[n1].index
    BY OutBelow
  <2>2. \A k \in 1 .. Len(p) : p[k].index < e.index
    BY <2>1
  <2>3. Ascending(Append(p, e))
    BY <1>3, <2>2, AppendAscending DEF Merged
  <2> QED
    BY <1>4, <2>3 DEF Merged
<1>7. \A k \in 1 .. Len(q) : Source(l, r, n1 + 1, n2 + 1, q[k])
  <2>1. \A k \in 1 .. Len(p) : Source(l, r, n1 + 1, n2 + 1, q[k])
    BY <1>1, <1>4, SourceGrows DEF Merged
  <2>2. ~cancel => InBoth(l, r, n1 + 1, n2 + 1, e)
    BY <1>1 DEF InBoth
  <2> QED
    BY <1>1, <1>4, <2>1, <2>2 DEF Source
<1>8. \/ \E k \in 1 .. Len(q) : q[k].index = l[n1].index
      \/ cancel
  BY <1>1, <1>4
<1>9. Kept(l, r, n1 + 1, n2 + 1, q)
  <2>1. Kept(l, r, n1, n2 + 1, q)
    <3>1. n1 \in Nat /\ n2 \in Nat /\ n2 + 1 \in Nat /\ n2 <= n2 + 1
      BY <1>1
    <3> QED
      BY <1>4, <3>1, KeptGrows DEF Merged
  <2> QED
    <3>1. cancel => \E j \in 1 .. (n2 + 1) - 1 :
              l[n1].index = r[j].index /\ l[n1].power = -r[j].power
      BY <1>1
    <3>2. (\E k \in 1 .. Len(q) : q[k].index = l[n1].index) \/ cancel
      BY <1>8
    <3>3. n1 \in Nat
      BY <1>1
    <3> HIDE DEF q, cancel
    <3> QED
      BY <2>1, <3>1, <3>2, <3>3, KeptOneMore
<1>10. Kept(r, l, n2 + 1, n1 + 1, q)
  <2>1. Kept(r, l, n2, n1 + 1, q)
    <3>1. n1 \in Nat /\ n2 \in Nat /\ n1 + 1 \in Nat /\ n1 <= n1 + 1
      BY <1>1
    <3> QED
      BY <1>4, <3>1, KeptGrows DEF Merged
  <2>2. cancel => r[n2].power = -l[n1].power
    BY <1>2
  <2> QED
    <3>1. cancel => \E i \in 1 .. (n1 + 1) - 1 :
              r[n2].index = l[i].index /\ r[n2].power = -l[i].power
      BY <1>1, <2>2
    <3>2. (\E k \in 1 .. Len(q) : q[k].index = r[n2].index) \/ cancel
      BY <1>8
    <3>3. n2 \in Nat
      BY <1>1
    <3> HIDE DEF q, cancel
    <3> QED
      BY <2>1, <3>1, <3>2, <3>3, KeptOneMore
<1> QED
  BY <1>4, <1>5, <1>6, <1>7, <1>9, <1>10 DEF Merged

-----------------------------------------------------------------------------
(* The merge of productRelationship().                                     *)

\* Every dimensionful entry passed in l has met its counterpart in r, and all
\* pairs that met say rel.
Agree(l, r, n1, n2, rel) ==
  \A i \in 1 .. n1 - 1 :
    \/ l[i].index \in Dimensionless
    \/ \E j \in 1 .. n2 - 1 :
         /\ r[j].index = l[i].index
         /\ rel = Local(l[i].power, r[j].power)

Met(l, n1) == \E i \in 1 .. n1 - 1 : l[i].index \notin Dimensionless

Related(l, r, n1, n2, rel) ==
  /\ Order(l, r, n1, n2)
  /\ Agree(l, r, n1, n2, rel)
  /\ Agree(r, l, n2, n1, rel)
  /\ rel # "UNKNOWN" => Met(l, n1)
  /\ rel # "UNCONVERTIBLE"

LEMMA LocalSymmetric ==
  ASSUME NEW a \in Int, NEW b \in Int PROVE Local(a, b) = Local(b, a)
<1>1. /\ a = b <=> b = a
      /\ a = -b <=> b = -a
  OBVIOUS
<1> QED
  BY <1>1 DEF Local

LEMMA AgreeGrows ==
  ASSUME NEW l, NEW r, NEW n1 \in Nat, NEW n2 \in Nat, NEW m2 \in Nat,
         n2 <= m2, NEW rel, Agree(l, r, n1, n2, rel)
  PROVE  Agree(l, r, n1, m2, rel)
<1>1. \A j \in 1 .. n2 - 1 : j \in 1 .. m2 - 1
  OBVIOUS
<1> QED
  BY <1>1 DEF Agree

LEMMA AgreeOneMore ==
  ASSUME NEW l, NEW r, NEW n1 \in Nat, NEW n2, NEW rel,
         Agree(l, r, n1, n2, rel),
         \/ l[n1].index \in Dimensionless
         \/ \E j \in 1 .. n2 - 1 : /\ r[j].index = l[n1].index
                                   /\ rel = Local(l[n1].power, r[j].power)
  PROVE  Agree(l, r, n1 + 1, n2, rel)
<1>1. \A i \in 1 .. (n1 + 1) - 1 : i \in 1 .. n1 - 1 \/ i = n1
  OBVIOUS
<1> QED
  BY <1>1 DEF Agree

-----------------------------------------------------------------------------
(* Arrays and the vectors they stand for.                                  *)

LEMMA VecFacts ==
  ASSUME NEW p \in Product, Ascending(p)
  PROVE  /\ DOMAIN Vec(p) = Indexes(p)
         /\ \A i \in 1 .. Len(p) : /\ p[i].index \in Indexes(p)
                                   /\ Vec(p)[p[i].index] = p[i].power
         /\ \A b \in Indexes(p) :
              \E i \in 1 .. Len(p) : p[i].index = b /\ Vec(p)[b] = p[i].power
<1>1. /\ Len(p) \in Nat /\ DOMAIN p = 1 .. Len(p)
      /\ \A i \in 1 .. Len(p) : p[i].index \in Int
  BY ArrayFacts
<1>2. DOMAIN Vec(p) = Indexes(p)
  BY DEF Vec
<1>3. ASSUME NEW i \in 1 .. Len(p)
      PROVE  p[i].index \in Indexes(p) /\ Vec(p)[p[i].index] = p[i].power
  <2>1. p[i].index \in Indexes(p)
    BY <1>1 DEF Indexes
  <2>2. \A k \in DOMAIN p : p[k].index = p[i].index => k = i
    <3> SUFFICES ASSUME NEW k \in 1 .. Len(p), p[k].index = p[i].index
                 PROVE  k = i
      BY <1>1
    <3>1. ~(k < i) /\ ~(i < k)
      BY <1>1 DEF Ascending
    <3> QED
      BY <3>1
  <2>3. (CHOOSE k \in DOMAIN p : p[k].index = p[i].index) = i
    BY <1>1, <2>2
  <2> QED
    BY <2>1, <2>3 DEF Vec, PowerOf
<1>4. \A b \in Indexes(p) : \E i \in 1 .. Len(p) : p[i].index = b
  BY <1>1 DEF Indexes
<1> QED
  BY <1>2, <1>3, <1>4

\* Two arrays stand for the same vector when they have the same entries.
LEMMA VecEqual ==
  ASSUME NEW p \in Product, Ascending(p), NEW S, NEW v,
         v = [b \in S |-> v[b]],
         \A i \in 1 .. Len(p) : p[i].index \in S /\ v[p[i].index] = p[i].power,
         \A b \in S : \E i \in 1 .. Len(p) : p[i].index = b
  PROVE  Vec(p) = v
<1>1. Indexes(p) = S
  BY ArrayFacts DEF Indexes
<1>2. \A b \in S : Vec(p)[b] = v[b]
  BY VecFacts
<1>3. Vec(p) = [b \in S |-> Vec(p)[b]]
  BY <1>1 DEF Vec
<1> QED
  BY <1>2, <1>3

\* A merge that has visited both operands to the end has built their product.
LEMMA MergedTimes ==
  ASSUME NEW l, NEW r, NEW p \in Product,
         Operands(l, r, Len(l) + 1, Len(r) + 1),
         Merged(l, r, Len(l) + 1, Len(r) + 1, p)
  PROVE  Vec(p) = Times(Vec(l), Vec(r))
<1> DEFINE v == Vec(l)
           w == Vec(r)
           S == (DOMAIN v \cup DOMAIN w) \ Cancelled(v, w)
<1>1. /\ l \in Product /\ Len(l) \in Nat /\ Ascending(l)
      /\ r \in Product /\ Len(r) \in Nat /\ Ascending(r)
      /\ Ascending(p)
      /\ 1 .. (Len(l) + 1) - 1 = 1 .. Len(l)
      /\ 1 .. (Len(r) + 1) - 1 = 1 .. Len(r)
  BY ArrayFacts DEF Operands, Merged
<1>2. /\ DOMAIN v = Indexes(l)
      /\ \A i \in 1 .. Len(l) :
           l[i].index \in Indexes(l) /\ v[l[i].index] = l[i].power
      /\ \A b \in Indexes(l) :
           \E i \in 1 .. Len(l) : l[i].index = b /\ v[b] = l[i].power
  BY <1>1, VecFacts
<1>3. /\ DOMAIN w = Indexes(r)
      /\ \A j \in 1 .. Len(r) :
           r[j].index \in Indexes(r) /\ w[r[j].index] = r[j].power
      /\ \A b \in Indexes(r) :
           \E j \in 1 .. Len(r) : r[j].index = b /\ w[b] = r[j].power
  BY <1>1, VecFacts
<1> HIDE DEF v, w
<1>4. ASSUME NEW k \in 1 .. Len(p)
      PROVE  p[k].index \in S /\ Times(v, w)[p[k].index] = p[k].power
  <2>1. CASE OnlyIn(l, r, Len(l) + 1, p[k])
    <3>1. PICK i \in 1 .. Len(l) :
            l[i] = p[k] /\ \A j \in 1 .. Len(r) : r[j].index # p[k].index
      BY <2>1, <1>1 DEF OnlyIn
    <3>2. p[k].index \in DOMAIN v /\ v[p[k].index] = p[k].power
      BY <3>1, <1>2
    <3>3. p[k].index \notin DOMAIN w
      BY <3>1, <1>3
    <3> QED
      BY <3>2, <3>3 DEF Times, Cancelled
  <2>2. CASE OnlyIn(r, l, Len(r) + 1, p[k])
    <3>1. PICK j \in 1 .. Len(r) :
            r[j] = p[k] /\ \A i \in 1 .. Len(l) : l[i].index # p[k].index
      BY <2>2, <1>1 DEF OnlyIn
    <3>2. p[k].index \in DOMAIN w /\ p[k].index \notin DOMAIN v
          /\ w[p[k].index] = p[k].power
      BY <3>1, <1>2, <1>3
    <3> QED
      BY <3>2 DEF Times, Cancelled
  <2>3. CASE InBoth(l, r, Len(l) + 1, Len(r) + 1, p[k])
    <3>1. PICK i \in 1 .. Len(l), j \in 1 .. Len(r) :
            /\ l[i].index = p[k].index
            /\ r[j].index = p[k].index
            /\ l[i].power # -r[j].power
            /\ p[k].power = Narrow(l[i].power + r[j].power)
      BY <2>3, <1>1 DEF InBoth
    <3>2. /\ p[k].index \in DOMAIN w /\ p[k].index \in DOMAIN v
          /\ v[p[k].index] = l[i].power /\ w[p[k].index] = r[j].power
      BY <3>1, <1>2, <1>3
    <3> QED
      BY <3>1, <3>2 DEF Times, Cancelled
  <2> QED
    BY <2>1, <2>2, <2>3 DEF Merged, Source
<1>5. ASSUME NEW b \in S PROVE \E k \in 1 .. Len(p) : p[k].index = b
  <2>1. ASSUME NEW i \in 1 .. Len(l), l[i].index = b, v[b] = l[i].power
        PROVE  \E k \in 1 .. Len(p) : p[k].index = b
    <3>1. ~\E j \in 1 .. Len(r) :
             l[i].index = r[j].index /\ l[i].power = -r[j].power
      BY <2>1, <1>2, <1>3 DEF Cancelled
    <3> QED
      BY <1>1, <2>1, <3>1 DEF Merged, Kept
  <2>2. ASSUME NEW j \in 1 .. Len(r), r[j].index = b, w[b] = r[j].power
        PROVE  \E k \in 1 .. Len(p) : p[k].index = b
    <3>1. \A i \in 1 .. Len(l) : l[i].power \in Int /\ r[j].power \in Int
      BY <1>1, ArrayFacts
    <3>2. ~\E i \in 1 .. Len(l) :
             r[j].index = l[i].index /\ r[j].power = -l[i].power
      BY <2>2, <1>2, <1>3, <3>1 DEF Cancelled
    <3> QED
      BY <1>1, <2>2, <3>2 DEF Merged, Kept
  <2> QED
    BY <2>1, <2>2, <1>2, <1>3
<1>6. Times(v, w) = [b \in S |-> Times(v, w)[b]]
  BY DEF Times
<1>7. Vec(p) = Times(v, w)
  <2> HIDE DEF S
  <2> QED
    BY <1>1, <1>4, <1>5, <1>6, VecEqual
<1> QED
  BY <1>7 DEF v, w

\* A finished productRaise() has raised every power of the vector.
LEMMA MappedRaised ==
  ASSUME NEW l \in Product, NEW p \in Product, NEW n, Ascending(l),
         Len(p) = Len(l),
         \A i \in 1 .. Len(l) : /\ p[i].index = l[i].index
                                /\ p[i].power = Narrow(l[i].power * n)
  PROVE  Ascending(p) /\ Vec(p) = Raised(Vec(l), n)
<1>1. Ascending(p)
  BY ArrayFacts DEF Ascending
<1>2. /\ DOMAIN Vec(l) = Indexes(l)
      /\ \A i \in 1 .. Len(l) :
           l[i].index \in Indexes(l) /\ Vec(l)[l[i].index] = l[i].power
      /\ \A b \in Indexes(l) : \E i \in 1 .. Len(l) : l[i].index = b
  BY VecFacts
<1> DEFINE v == Raised(Vec(l), n)
<1>3. v = [b \in Indexes(l) |-> v[b]]
  BY <1>2 DEF Raised
<1>4. \A i \in 1 .. Len(p) : p[i].index \in Indexes(l) /\ v[p[i].index] = p[i].power
  BY <1>2 DEF Raised
<1>5. \A b \in Indexes(l) : \E i \in 1 .. Len(p) : p[i].index = b
  BY <1>2
<1> HIDE DEF v
<1>6. Vec(p) = v
  BY <1>1, <1>3, <1>4, <1>5, VecEqual
<1> QED
  BY <1>1, <1>6 DEF v

\* A finished productRoot() has taken the root of every power.
LEMMA MappedRoot ==
  ASSUME NEW l \in Product, NEW p \in Product, NEW n, Ascending(l),
         Len(p) = Len(l),
         \A i \in 1 .. Len(l) : /\ l[i].power % n = 0
                                /\ p[i].index = l[i].index
                                /\ p[i].power = l[i].power \div n
  PROVE  Ascending(p) /\ HasRoot(Vec(l), n) /\ Vec(p) = RootOf(Vec(l), n)
<1>1. Ascending(p)
  BY ArrayFacts DEF Ascending
<1>2. /\ DOMAIN Vec(l) = Indexes(l)
      /\ \A i \in 1 .. Len(l) :
           l[i].index \in Indexes(l) /\ Vec(l)[l[i].index] = l[i].power
      /\ \A b \in Indexes(l) :
           \E i \in 1 .. Len(l) : l[i].index = b /\ Vec(l)[b] = l[i].power
  BY VecFacts
<1>3. HasRoot(Vec(l), n)
  BY <1>2 DEF HasRoot
<1> DEFINE v == RootOf(Vec(l), n)
<1>4. v = [b \in Indexes(l) |-> v[b]]
  BY <1>2 DEF RootOf
<1>5. \A i \in 1 .. Len(p) : p[i].index \in Indexes(l) /\ v[p[i].index] = p[i].power
  BY <1>2 DEF RootOf
<1>6. \A b \in Indexes(l) : \E i \in 1 .. Len(p) : p[i].index = b
  BY <1>2
<1> HIDE DEF v
<1>7. Vec(p) = v
  BY <1>1, <1>4, <1>5, <1>6, VecEqual
<1> QED
  BY <1>1, <1>3, <1>7 DEF v

LEMMA NoRoot ==
  ASSUME NEW l \in Product, NEW n, Ascending(l), NEW i \in 1 .. Len(l),
         l[i].power % n # 0
  PROVE  ~HasRoot(Vec(l), n)
BY VecFacts DEF HasRoot

\* A dimensionful entry that only one operand has makes them unconvertible.
LEMMA OneSided ==
  ASSUME NEW l, NEW r, NEW n1, NEW n2, Operands(l, r, n1, n2),
         Order(l, r, n1, n2), n1 <= Len(l),
         n2 <= Len(r) => l[n1].index < r[n2].index,
         l[n1].index \notin Dimensionless
  PROVE  /\ Relationship(Vec(l), Vec(r)) = "UNCONVERTIBLE"
         /\ Relationship(Vec(r), Vec(l)) = "UNCONVERTIBLE"
<1>1. /\ l \in Product /\ Len(l) \in Nat /\ n1 \in 1 .. Len(l) /\ Ascending(l)
      /\ r \in Product /\ Len(r) \in Nat /\ n2 \in 1 .. Len(r) + 1 /\ Ascending(r)
      /\ DOMAIN r = 1 .. Len(r)
      /\ l[n1].index \in Int
      /\ \A j \in 1 .. Len(r) : r[j].index \in Int
  BY ArrayFacts, EntryType DEF Operands
<1>2. Order(l, r, n1 + 1, n2)
  BY OrderOne
<1>3. \A j \in 1 .. Len(r) : r[j].index # l[n1].index
  BY <1>1, <1>2 DEF Order, Apart
<1>4. l[n1].index \in DOMAIN Vec(l) /\ l[n1].index \notin DOMAIN Vec(r)
  BY <1>1, <1>3, VecFacts
<1>5. /\ l[n1].index \in DOMAIN Dimensions(Vec(l))
      /\ l[n1].index \notin DOMAIN Dimensions(Vec(r))
  BY <1>4 DEF Dimensions
<1> QED
  BY <1>5 DEF Relationship, Equal, IsInverse

\* An entry of both operands, seen as vectors.
LEMMA SharedEntry ==
  ASSUME NEW l, NEW r, NEW n1, NEW n2, Operands(l, r, n1, n2),
         NEW i \in 1 .. Len(l), NEW j \in 1 .. Len(r),
         l[i].index = r[j].index, l[i].index \notin Dimensionless
  PROVE  /\ l[i].index \in DOMAIN Dimensions(Vec(l))
         /\ l[i].index \in DOMAIN Dimensions(Vec(r))
         /\ Dimensions(Vec(l))[l[i].index] = l[i].power
         /\ Dimensions(Vec(r))[l[i].index] = r[j].power
         /\ Vec(l)[l[i].index] = l[i].power
         /\ Vec(r)[l[i].index] = r[j].power
         /\ l[i].power \in Int
         /\ r[j].power \in Int
<1>1. l \in Product /\ Ascending(l) /\ r \in Product /\ Ascending(r)
  BY DEF Operands
<1>2. /\ l[i].index \in DOMAIN Vec(l) /\ Vec(l)[l[i].index] = l[i].power
      /\ r[j].index \in DOMAIN Vec(r) /\ Vec(r)[r[j].index] = r[j].power
  BY <1>1, VecFacts
<1>3. l[i].power \in Int /\ r[j].power \in Int
  BY <1>1, EntryType
<1> QED
  BY <1>2, <1>3 DEF Dimensions

\* Two common basic-units that disagree make the operands unconvertible.
LEMMA Conflict ==
  ASSUME NEW l, NEW r, NEW n1, NEW n2, NEW rel, Operands(l, r, n1, n2),
         Related(l, r, n1, n2, rel), n1 <= Len(l), n2 <= Len(r),
         l[n1].index = r[n2].index, l[n1].index \notin Dimensionless,
         \/ Local(l[n1].power, r[n2].power) = "UNCONVERTIBLE"
         \/ rel \notin {"UNKNOWN", Local(l[n1].power, r[n2].power)}
  PROVE  Relationship(Vec(l), Vec(r)) = "UNCONVERTIBLE"
<1> DEFINE v == Vec(l)
           w == Vec(r)
           here == Local(l[n1].power, r[n2].power)
<1>0. n1 \in 1 .. Len(l) /\ n2 \in 1 .. Len(r)
  BY ArrayFacts DEF Operands
<1>1. /\ l[n1].index \in DOMAIN Dimensions(v)
      /\ Dimensions(v)[l[n1].index] = l[n1].power
      /\ Dimensions(w)[l[n1].index] = r[n2].power
      /\ v[l[n1].index] = l[n1].power
      /\ w[l[n1].index] = r[n2].power
      /\ l[n1].power \in Int /\ r[n2].power \in Int
  BY <1>0, SharedEntry
<1>2. ASSUME rel # "UNKNOWN"
      PROVE  \E i \in 1 .. Len(l), j \in 1 .. Len(r) :
               /\ l[i].index = r[j].index
               /\ l[i].index \notin Dimensionless
               /\ rel = Local(l[i].power, r[j].power)
  <2>1. PICK i \in 1 .. n1 - 1 : l[i].index \notin Dimensionless
    BY <1>2 DEF Related, Met
  <2>2. PICK j \in 1 .. n2 - 1 :
          r[j].index = l[i].index /\ rel = Local(l[i].power, r[j].power)
    BY <2>1 DEF Related, Agree
  <2>3. i \in 1 .. Len(l) /\ j \in 1 .. Len(r)
    BY <1>0
  <2> QED
    BY <2>1, <2>2, <2>3
<1>3. ~Equal(v, w)
  <2> SUFFICES ASSUME Equal(v, w) PROVE FALSE
    OBVIOUS
  <2>1. here = "EQUAL"
    BY <1>1 DEF Equal, Local
  <2>2. PICK i \in 1 .. Len(l), j \in 1 .. Len(r) :
          /\ l[i].index = r[j].index
          /\ l[i].index \notin Dimensionless
          /\ rel = Local(l[i].power, r[j].power)
    BY <1>2, <2>1
  <2>3. l[i].power = r[j].power
    BY <2>2, SharedEntry DEF Equal
  <2> QED
    BY <2>1, <2>2, <2>3 DEF Local
<1>4. ~IsInverse(v, w)
  <2> SUFFICES ASSUME IsInverse(v, w) PROVE FALSE
    OBVIOUS
  <2>1. v[l[n1].index] # 0 /\ v[l[n1].index] = -w[l[n1].index]
    BY <1>1 DEF IsInverse
  <2>2. here = "INVERSE"
    BY <1>1, <2>1 DEF Local
  <2>3. PICK i \in 1 .. Len(l), j \in 1 .. Len(r) :
          /\ l[i].index = r[j].index
          /\ l[i].index \notin Dimensionless
          /\ rel = Local(l[i].power, r[j].power)
    BY <1>2, <2>2
  <2>4. /\ l[i].index \in DOMAIN Dimensions(v)
        /\ v[l[i].index] = l[i].power /\ w[l[i].index] = r[j].power
        /\ l[i].power \in Int /\ r[j].power \in Int
    BY <2>3, SharedEntry
  <2>5. l[i].power # 0 /\ l[i].power = -r[j].power
    BY <2>4 DEF IsInverse
  <2>6. rel = "INVERSE"
    BY <2>3, <2>4, <2>5 DEF Local
  <2> QED
    BY <2>2, <2>6
<1> QED
  BY <1>3, <1>4 DEF Relationship

\* What the loop has found at its end is the relationship of the vectors.
LEMMA Finished ==
  ASSUME NEW l, NEW r, NEW rel, Operands(l, r, Len(l) + 1, Len(r) + 1),
         Related(l, r, Len(l) + 1, Len(r) + 1, rel)
  PROVE  Relationship(Vec(l), Vec(r)) = IF rel = "UNKNOWN" THEN "EQUAL" ELSE rel
<1> DEFINE v == Vec(l)
           w == Vec(r)
<1>1. /\ l \in Product /\ Len(l) \in Nat /\ Ascending(l)
      /\ r \in Product /\ Len(r) \in Nat /\ Ascending(r)
      /\ 1 .. (Len(l) + 1) - 1 = 1 .. Len(l)
      /\ 1 .. (Len(r) + 1) - 1 = 1 .. Len(r)
  BY ArrayFacts DEF Operands
<1>2. /\ DOMAIN v = Indexes(l)
      /\ \A b \in Indexes(l) :
           \E i \in 1 .. Len(l) : l[i].index = b /\ v[b] = l[i].power
  BY <1>1, VecFacts
<1>3. /\ DOMAIN w = Indexes(r)
      /\ \A b \in Indexes(r) :
           \E j \in 1 .. Len(r) : r[j].index = b /\ w[b] = r[j].power
  BY <1>1, VecFacts
<1>4. ASSUME NEW b \in DOMAIN Dimensions(v)
      PROVE  /\ b \in DOMAIN Dimensions(w)
             /\ v[b] \in Int /\ w[b] \in Int
             /\ rel = Local(v[b], w[b])
  <2>1. PICK i \in 1 .. Len(l) : l[i].index = b /\ b \notin Dimensionless
    BY <1>2 DEF Dimensions
  <2>2. PICK j \in 1 .. Len(r) :
          r[j].index = l[i].index /\ rel = Local(l[i].power, r[j].power)
    BY <1>1, <2>1 DEF Related, Agree
  <2> QED
    BY <2>1, <2>2, SharedEntry
<1>5. ASSUME NEW b \in DOMAIN Dimensions(w)
      PROVE  b \in DOMAIN Dimensions(v)
  <2>1. PICK j \in 1 .. Len(r) : r[j].index = b /\ b \notin Dimensionless
    BY <1>3 DEF Dimensions
  <2>2. PICK i \in 1 .. Len(l) : l[i].index = r[j].index
    BY <1>1, <2>1 DEF Related, Agree
  <2> QED
    BY <2>1, <2>2, SharedEntry
<1>6. DOMAIN Dimensions(v) = DOMAIN Dimensions(w)
  BY <1>4, <1>5
<1>7. CASE rel = "UNKNOWN"
  <2>1. DOMAIN Dimensions(v) = {}
    BY <1>4, <1>7 DEF Local
  <2>2. Dimensions(v) = Dimensions(w)
    BY <1>6, <2>1 DEF Dimensions
  <2>3. Equal(v, w)
    BY <2>2 DEF Equal
  <2> QED
    BY <1>7, <2>3 DEF Relationship
<1>8. CASE rel = "EQUAL"
  <2>1. \A b \in DOMAIN Dimensions(v) : v[b] = w[b]
    BY <1>4, <1>8 DEF Local
  <2>2. Dimensions(v) = Dimensions(w)
    BY <1>6, <2>1 DEF Dimensions
  <2>3. Equal(v, w)
    BY <2>2 DEF Equal
  <2> QED
    BY <1>8, <2>3 DEF Relationship
<1>9. CASE rel = "INVERSE"
  <2>1. \A b \in DOMAIN Dimensions(v) : v[b] # w[b] /\ v[b] = -w[b] /\ v[b] # 0
    BY <1>4, <1>9 DEF Local
  <2>2. PICK i \in 1 .. Len(l) : l[i].index \notin Dimensionless
    BY <1>1, <1>9 DEF Related, Met
  <2>3. l[i].index \in DOMAIN Dimensions(v)
    BY <1>1, <2>2, VecFacts DEF Dimensions
  <2>4. IsInverse(v, w)
    BY <1>6, <2>1, <2>3 DEF IsInverse
  <2>5. Dimensions(v)[l[i].index] = v[l[i].index]
        /\ Dimensions(w)[l[i].index] = w[l[i].index]
    BY <2>3, <1>6 DEF Dimensions
  <2>6. ~Equal(v, w)
    BY <2>1, <2>3, <2>5 DEF Equal
  <2> QED
    BY <1>9, <2>4, <2>6 DEF Relationship
<1>10. rel \in {"UNKNOWN", "EQUAL", "INVERSE"}
  <2>1. CASE rel # "UNKNOWN"
    <3>1. PICK i \in 1 .. Len(l) : l[i].index \notin Dimensionless
      BY <1>1, <2>1 DEF Related, Met
    <3>2. PICK j \in 1 .. Len(r) : rel = Local(l[i].power, r[j].power)
      BY <1>1, <3>1 DEF Related, Agree
    <3> QED
      BY <3>2 DEF Related, Local
  <2> QED
    BY <2>1
<1> QED
  BY <1>7, <1>8, <1>9, <1>10

-----------------------------------------------------------------------------
(* The inductive invariant.                                                *)

RaisedSoFar ==
  /\ Len(out) = i1 - 1
  /\ \A i \in 1 .. i1 - 1 : /\ out[i].index = left[i].index
                            /\ out[i].power = Narrow(left[i].power * arg)

RootSoFar ==
  /\ Len(out) = i1 - 1
  /\ \A i \in 1 .. i1 - 1 : /\ left[i].power % arg = 0
                            /\ out[i].index = left[i].index
                            /\ out[i].power = left[i].power \div arg

IInv ==
  /\ TypeInv
  /\ AllAscending
  /\ call = "multiply" => Merged(left, right, i1, i2, out)
  /\ call = "raise" => RaisedSoFar
  /\ call = "root" => RootSoFar
  /\ call = "relate" => Related(left, right, i1, i2, relationship)

LEMMA EmptyFacts ==
  /\ One \in Product /\ << >> \in Product /\ Len(<< >>) = 0 /\ One = << >>
  /\ Ascending(<< >>)
  /\ \A l, r : Merged(l, r, 1, 1, << >>) /\ Related(l, r, 1, 1, "UNKNOWN")
<1>1. One \in Product /\ << >> \in Product /\ Len(<< >>) = 0 /\ One = << >>
  BY DEF One, Product
<1>2. Ascending(<< >>)
  BY DEF Ascending
<1>3. ASSUME NEW l, NEW r PROVE Order(l, r, 1, 1)
  BY DEF Order, Apart
<1> QED
  BY <1>1, <1>2, <1>3 DEF Merged, Kept, Related, Agree, Met

LEMMA SingleAscending ==
  ASSUME NEW e \in Entry PROVE << e >> \in Product /\ Ascending(<< e >>)
BY DEF Product, Ascending

LEMMA IInvInit == Init => IInv
<1> SUFFICES ASSUME Init PROVE IInv
  OBVIOUS
<1>1. TypeInv
  BY TypeInit
<1>2. AllAscending
  BY EmptyFacts DEF Init, AllAscending, Held
<1> QED
  BY <1>1, <1>2 DEF IInv, Init

LEMMA HeldFacts ==
  ASSUME IInv
  PROVE  /\ Operands(left, right, i1, i2)
         /\ Operands(right, left, i2, i1)
         /\ out \in Product /\ Ascending(out)
         /\ result # NoUnit => result \in Product /\ Ascending(result)
BY DEF IInv, TypeInv, TypeOK, AllAscending, Held, Operands

\* What a step has to show to keep the units in ascending order.
LEMMA HeldAscending ==
  ASSUME Ascending(left)', Ascending(right)', Ascending(out)',
         result' = NoUnit \/ Ascending(result')
  PROVE  AllAscending'
BY DEF AllAscending, Held

LEMMA IInvClient == IInv /\ Client => IInv'
<1> SUFFICES ASSUME IInv, Client PROVE IInv'
  OBVIOUS
<1>0. TypeInv'
  BY TypeStep DEF IInv, Next
<1>1. /\ Ascending(left) /\ Ascending(right) /\ Ascending(out)
      /\ result = NoUnit \/ Ascending(result)
  BY HeldFacts DEF Operands
<1>2. ASSUME NEW b \in Basic, Load(b) PROVE IInv'
  <2>1. [index |-> b, power |-> 1] \in Entry
    BY ShortAssumption DEF Entry, Short
  <2>2. AllAscending'
    BY <1>1, <1>2, <2>1, SingleAscending, HeldAscending DEF Load
  <2> QED
    BY <1>0, <1>2, <2>2 DEF IInv, Load, Idle
<1>3. CASE Adopt
  <2>1. AllAscending'
    BY <1>1, <1>3, HeldAscending DEF Adopt
  <2> QED
    BY <1>0, <1>3, <2>1 DEF IInv, Adopt, Idle
<1>4. ASSUME NEW f, NEW n, Enter(f, n), result' = result,
             f \in {"multiply", "raise", "root", "relate"}
      PROVE  IInv'
  <2>1. AllAscending'
    BY <1>1, <1>4, EmptyFacts, HeldAscending DEF Enter
  <2>2. /\ Merged(left, right, 1, 1, << >>)
        /\ Related(left, right, 1, 1, "UNKNOWN")
    BY EmptyFacts
  <2>3. Len(<< >>) = 1 - 1 /\ 1 .. 1 - 1 = {}
    BY EmptyFacts
  <2> QED
    BY <1>0, <1>4, <2>1, <2>2, <2>3 DEF IInv, Enter, RaisedSoFar, RootSoFar
<1>5. ASSUME result' = One,
             UNCHANGED <<left, right, answer, call, arg, i1, i2, out, relationship>>
      PROVE  IInv'
  <2>1. AllAscending'
    BY <1>1, <1>5, EmptyFacts, HeldAscending
  <2> QED
    BY <1>0, <1>5, <2>1 DEF IInv, RaisedSoFar, RootSoFar
<1>6. CASE CallMultiply
  BY <1>6, <1>4, <1>5 DEF CallMultiply
<1>7. ASSUME NEW n \in Powers, CallRaise(n) PROVE IInv'
  BY <1>7, <1>4, <1>5 DEF CallRaise
<1>8. ASSUME NEW n \in Roots, CallRoot(n) PROVE IInv'
  BY <1>8, <1>4, <1>5 DEF CallRoot
<1>9. CASE CallRelate
  BY <1>9, <1>4 DEF CallRelate
<1> QED
  BY <1>2, <1>3, <1>6, <1>7, <1>8, <1>9 DEF Client

\* A function that returns leaves ascending units behind.
LEMMA IInvReturn ==
  ASSUME IInv, [Next]_vars, NEW u, Return(u), u = NoUnit \/ Ascending(u)
  PROVE  IInv'
<1>0. TypeInv'
  BY TypeStep DEF IInv
<1>1. AllAscending'
  BY HeldFacts, EmptyFacts, HeldAscending DEF Operands, Return
<1> QED
  BY <1>0, <1>1 DEF IInv, Return

LEMMA IInvMultiply ==
  IInv /\ (MultiplyFirst \/ MultiplySecond \/ MultiplyBoth \/ MultiplyReturn)
    => IInv'
<1> SUFFICES ASSUME IInv,
                    MultiplyFirst \/ MultiplySecond \/ MultiplyBoth \/ MultiplyReturn
             PROVE  IInv'
  OBVIOUS
<1>0. TypeInv'
  BY TypeStep DEF IInv, Next, Loop
<1>1. /\ Operands(left, right, i1, i2) /\ Operands(right, left, i2, i1)
      /\ out \in Product
      /\ result = NoUnit \/ Ascending(result)
  BY HeldFacts
<1>2. /\ call = "multiply"
      /\ Merged(left, right, i1, i2, out)
      /\ Merged(right, left, i2, i1, out)
  BY <1>1, MergedSymmetric
     DEF IInv, MultiplyFirst, MultiplySecond, MultiplyBoth, MultiplyReturn
<1>3. ASSUME UNCHANGED <<left, right, result, call>>,
             Merged(left, right, i1', i2', out')
      PROVE  IInv'
  <2>1. Ascending(out')
    BY <1>3 DEF Merged
  <2>2. AllAscending'
    BY <1>1, <1>3, <2>1, HeldAscending DEF Operands
  <2> QED
    BY <1>0, <1>2, <1>3, <2>2 DEF IInv
<1>4. CASE MultiplyFirst
  <2>1. Merged(left, right, i1 + 1, i2, Append(out, left[i1]))
    BY <1>1, <1>2, <1>4, MergeOne DEF MultiplyFirst, TakesFirst
  <2> QED
    BY <1>3, <1>4, <2>1 DEF MultiplyFirst
<1>5. CASE MultiplySecond
  <2>1. /\ i2 <= Len(right)
        /\ i1 <= Len(left) => right[i2].index < left[i1].index
    <3>1. i1 <= Len(left) => left[i1].index \in Int
      BY <1>1, ArrayFacts DEF Operands
    <3>2. i2 <= Len(right) => right[i2].index \in Int
      BY <1>1, ArrayFacts DEF Operands
    <3> QED
      BY <1>5, <3>1, <3>2 DEF MultiplySecond, TakesSecond
  <2>2. /\ Append(out, right[i2]) \in Product
        /\ Merged(right, left, i2 + 1, i1, Append(out, right[i2]))
    BY <1>1, <1>2, <2>1, MergeOne
  <2>3. Operands(right, left, i2 + 1, i1)
    BY <1>1, <2>1, ArrayFacts DEF Operands
  <2>4. Merged(left, right, i1, i2 + 1, Append(out, right[i2]))
    BY <2>2, <2>3, MergedSymmetric
  <2> QED
    BY <1>3, <1>5, <2>4 DEF MultiplySecond
<1>6. CASE MultiplyBoth
  <2>1. Merged(left, right, i1 + 1, i2 + 1, Joined(left[i1], right[i2], out))
    BY <1>1, <1>2, <1>6, MergeMeet DEF MultiplyBoth, Meet
  <2> QED
    BY <1>3, <1>6, <2>1 DEF MultiplyBoth, Joined
<1>7. CASE MultiplyReturn
  BY <1>2, <1>7, IInvReturn DEF MultiplyReturn, Merged, Next, Loop
<1> QED
  BY <1>4, <1>5, <1>6, <1>7

\* One more entry behind those written so far, with the index of the entry of
\* the left operand that is visited.
LEMMA MapAscending ==
  ASSUME NEW l \in Product, Ascending(l), NEW n \in 1 .. Len(l),
         NEW p \in Product, Ascending(p), Len(p) = n - 1,
         \A i \in 1 .. n - 1 : p[i].index = l[i].index,
         NEW e \in Entry, e.index = l[n].index
  PROVE  /\ Ascending(Append(p, e))
         /\ Len(Append(p, e)) = (n + 1) - 1
         /\ \A i \in 1 .. n - 1 : Append(p, e)[i] = p[i]
         /\ Append(p, e)[n] = e
         /\ \A i \in 1 .. (n + 1) - 1 : i \in 1 .. n - 1 \/ i = n
<1>1. Len(l) \in Nat /\ DOMAIN l = 1 .. Len(l)
  BY ArrayFacts
<1>2. \A i \in 1 .. n - 1 : l[i].index < l[n].index
  BY <1>1 DEF Ascending
<1>3. \A k \in 1 .. Len(p) : p[k].index < e.index
  BY <1>2
<1>4. Ascending(Append(p, e))
  BY <1>3, AppendAscending
<1>5. Len(p) + 1 = n /\ (n + 1) - 1 = n
  BY <1>1
<1> QED
  BY <1>1, <1>4, <1>5, AppendFacts

LEMMA IInvMap ==
  IInv /\ (RaiseEntry \/ RaiseReturn \/ RootEntry \/ RootMeaningless \/ RootReturn)
    => IInv'
<1> SUFFICES ASSUME IInv,
                    \/ RaiseEntry \/ RaiseReturn
                    \/ RootEntry \/ RootMeaningless \/ RootReturn
             PROVE  IInv'
  OBVIOUS
<1>0. [Next]_vars /\ TypeInv'
  BY TypeStep DEF IInv, Next, Loop
<1>1. /\ left \in Product /\ Ascending(left) /\ Ascending(right)
      /\ i1 \in 1 .. Len(left) + 1 /\ Len(left) \in Nat
      /\ out \in Product /\ Ascending(out)
      /\ result = NoUnit \/ Ascending(result)
  BY HeldFacts, ArrayFacts DEF Operands
<1>2. CASE RaiseEntry
  <2> DEFINE e == [index |-> left[i1].index,
                   power |-> Narrow(left[i1].power * arg)]
  <2>1. i1 \in 1 .. Len(left) /\ call = "raise" /\ RaisedSoFar
    BY <1>1, <1>2 DEF RaiseEntry, IInv
  <2>2. left[i1].power * arg \in Int
    <3>1. left[i1].power \in Int
      BY <1>1, <2>1, EntryType
    <3>2. arg \in Powers
      BY <2>1 DEF IInv, TypeInv, LocalsOK
    <3>3. arg \in Int
      BY <3>2, ArgumentAssumption
    <3> QED
      BY <3>1, <3>3
  <2>3. e \in Entry
    BY <1>1, <2>1, <2>2, EntryType, NarrowType DEF Entry
  <2>4. e.index = left[i1].index /\ e.power = Narrow(left[i1].power * arg)
    OBVIOUS
  <2>5. out' = Append(out, e)
    BY <1>2 DEF RaiseEntry
  <2> HIDE DEF e
  <2>6. /\ Ascending(Append(out, e))
        /\ Len(Append(out, e)) = (i1 + 1) - 1
        /\ \A i \in 1 .. i1 - 1 : Append(out, e)[i] = out[i]
        /\ Append(out, e)[i1] = e
        /\ \A i \in 1 .. (i1 + 1) - 1 : i \in 1 .. i1 - 1 \/ i = i1
    BY <1>1, <2>1, <2>3, <2>4, MapAscending DEF RaisedSoFar
  <2>7. AllAscending'
    BY <1>1, <1>2, <2>5, <2>6, HeldAscending DEF RaiseEntry
  <2>8. RaisedSoFar'
    BY <1>2, <2>1, <2>4, <2>5, <2>6 DEF RaiseEntry, RaisedSoFar
  <2> QED
    BY <1>0, <1>2, <2>7, <2>8 DEF IInv, RaiseEntry
<1>3. CASE RaiseReturn
  BY <1>0, <1>1, <1>3, IInvReturn DEF RaiseReturn
<1>4. CASE RootEntry
  <2> DEFINE e == [index |-> left[i1].index, power |-> left[i1].power \div arg]
  <2>1. i1 \in 1 .. Len(left) /\ call = "root" /\ RootSoFar /\ arg \in Roots
    BY <1>1, <1>4 DEF RootEntry, IInv, TypeInv, LocalsOK
  <2>3. e \in Entry
    BY <1>1, <2>1, EntryType, QuotientType DEF Entry
  <2>4. e.index = left[i1].index /\ e.power = left[i1].power \div arg
    OBVIOUS
  <2>5. out' = Append(out, e)
    BY <1>4 DEF RootEntry
  <2> HIDE DEF e
  <2>6. /\ Ascending(Append(out, e))
        /\ Len(Append(out, e)) = (i1 + 1) - 1
        /\ \A i \in 1 .. i1 - 1 : Append(out, e)[i] = out[i]
        /\ Append(out, e)[i1] = e
        /\ \A i \in 1 .. (i1 + 1) - 1 : i \in 1 .. i1 - 1 \/ i = i1
    BY <1>1, <2>1, <2>3, <2>4, MapAscending DEF RootSoFar
  <2>7. AllAscending'
    BY <1>1, <1>4, <2>5, <2>6, HeldAscending DEF RootEntry
  <2>8. RootSoFar'
    BY <1>4, <2>1, <2>4, <2>5, <2>6 DEF RootEntry, RootSoFar
  <2> QED
    BY <1>0, <1>4, <2>7, <2>8 DEF IInv, RootEntry
<1>5. CASE RootMeaningless
  BY <1>0, <1>5, IInvReturn DEF RootMeaningless
<1>6. CASE RootReturn
  BY <1>0, <1>1, <1>6, IInvReturn DEF RootReturn
<1> QED
  BY <1>2, <1>3, <1>4, <1>5, <1>6

\* Passing an entry of l without a dimension that only l has, or that comes
\* first.
LEMMA RelatedOne ==
  ASSUME NEW l, NEW r, NEW n1, NEW n2, NEW rel, Operands(l, r, n1, n2),
         Order(l, r, n1, n2), Agree(l, r, n1, n2, rel), Agree(r, l, n2, n1, rel),
         n1 <= Len(l), n2 <= Len(r) => l[n1].index < r[n2].index,
         l[n1].index \in Dimensionless
  PROVE  /\ Order(l, r, n1 + 1, n2)
         /\ Agree(l, r, n1 + 1, n2, rel)
         /\ Agree(r, l, n2, n1 + 1, rel)
<1>1. n1 \in Nat /\ n2 \in Nat /\ n1 + 1 \in Nat /\ n1 <= n1 + 1
  BY ArrayFacts DEF Operands
<1>2. Agree(l, r, n1 + 1, n2, rel)
  BY <1>1, AgreeOneMore
<1>3. Agree(r, l, n2, n1 + 1, rel)
  BY <1>1, AgreeGrows
<1> QED
  BY <1>2, <1>3, OrderOne

\* Passing an entry of both operands that fits what was found so far.
LEMMA RelatedMeet ==
  ASSUME NEW l, NEW r, NEW n1, NEW n2, NEW rel, NEW new,
         Operands(l, r, n1, n2), Related(l, r, n1, n2, rel),
         n1 <= Len(l), n2 <= Len(r), l[n1].index = r[n2].index,
         IF l[n1].index \notin Dimensionless
         THEN /\ new = Local(l[n1].power, r[n2].power)
              /\ new # "UNCONVERTIBLE"
              /\ rel \in {"UNKNOWN", new}
         ELSE new = rel
  PROVE  Related(l, r, n1 + 1, n2 + 1, new)
<1>1. /\ n1 \in Nat /\ n2 \in Nat /\ n1 + 1 \in Nat /\ n1 <= n1 + 1
      /\ n2 + 1 \in Nat /\ n2 <= n2 + 1
      /\ n1 \in 1 .. (n1 + 1) - 1 /\ n2 \in 1 .. (n2 + 1) - 1
      /\ \A i \in 1 .. n1 - 1 : i \in 1 .. (n1 + 1) - 1
      /\ l[n1].power \in Int /\ r[n2].power \in Int
  <2>1. /\ l \in Product /\ Len(l) \in Nat /\ n1 \in 1 .. Len(l)
        /\ r \in Product /\ Len(r) \in Nat /\ n2 \in 1 .. Len(r)
    BY ArrayFacts DEF Operands
  <2>2. l[n1].power \in Int /\ r[n2].power \in Int
    BY <2>1, EntryType
  <2> QED
    BY <2>1, <2>2
<1>2. Agree(l, r, n1, n2, new) /\ Agree(r, l, n2, n1, new)
  <2>1. CASE rel = new
    BY <2>1 DEF Related
  <2>2. CASE rel # new
    <3>1. rel = "UNKNOWN"
      BY <2>2
    <3>2. \A a, b : Local(a, b) # "UNKNOWN"
      BY DEF Local
    <3> QED
      BY <3>1, <3>2 DEF Related, Agree
  <2> QED
    BY <2>1, <2>2
<1>3. Agree(l, r, n1, n2 + 1, new) /\ Agree(r, l, n2, n1 + 1, new)
  BY <1>1, <1>2, AgreeGrows
<1>4. Agree(l, r, n1 + 1, n2 + 1, new)
  <2>1. \/ l[n1].index \in Dimensionless
        \/ \E j \in 1 .. (n2 + 1) - 1 :
             r[j].index = l[n1].index /\ new = Local(l[n1].power, r[j].power)
    BY <1>1
  <2> QED
    BY <1>1, <1>3, <2>1, AgreeOneMore
<1>5. Agree(r, l, n2 + 1, n1 + 1, new)
  <2>1. Local(l[n1].power, r[n2].power) = Local(r[n2].power, l[n1].power)
    BY <1>1, LocalSymmetric
  <2>2. \/ r[n2].index \in Dimensionless
        \/ \E i \in 1 .. (n1 + 1) - 1 :
             l[i].index = r[n2].index /\ new = Local(r[n2].power, l[i].power)
    BY <1>1, <2>1
  <2> QED
    BY <1>1, <1>3, <2>2, AgreeOneMore
<1>6. Order(l, r, n1 + 1, n2 + 1)
  BY OrderMeet DEF Related
<1>7. new # "UNKNOWN" => Met(l, n1 + 1)
  BY <1>1 DEF Related, Met
<1> QED
  BY <1>4, <1>5, <1>6, <1>7 DEF Related

LEMMA IInvRelate ==
  IInv /\ (RelateOne \/ RelateBoth \/ RelateReturn) => IInv'
<1> SUFFICES ASSUME IInv, RelateOne \/ RelateBoth \/ RelateReturn PROVE IInv'
  OBVIOUS
<1>0. TypeInv'
  BY TypeStep DEF IInv, Next, Loop
<1>1. /\ Operands(left, right, i1, i2) /\ Operands(right, left, i2, i1)
      /\ Ascending(out)
      /\ result = NoUnit \/ Ascending(result)
      /\ i1 \in Nat /\ i2 \in Nat
  BY HeldFacts DEF Operands
<1>2. /\ call = "relate"
      /\ Related(left, right, i1, i2, relationship)
  BY DEF IInv, RelateOne, RelateBoth, RelateReturn
<1>3. ASSUME UNCHANGED <<left, right, result, out>> PROVE AllAscending'
  BY <1>1, <1>3, HeldAscending DEF Operands
<1>4. ASSUME NEW a, Answer(a) PROVE IInv'
  BY <1>0, <1>3, <1>4 DEF IInv, Answer
<1>5. ASSUME UNCHANGED <<left, right, result, out, call>>,
             Related(left, right, i1', i2', relationship')
      PROVE  IInv'
  BY <1>0, <1>2, <1>3, <1>5 DEF IInv
<1>6. CASE RelateOne
  <2>1. CASE TakesFirst /\ left[i1].index \in Dimensionless
    <3>1. /\ Order(left, right, i1 + 1, i2)
          /\ Agree(left, right, i1 + 1, i2, relationship)
          /\ Agree(right, left, i2, i1 + 1, relationship)
      BY <1>1, <1>2, <2>1, RelatedOne DEF Related, TakesFirst
    <3>2. \A i \in 1 .. i1 - 1 : i \in 1 .. (i1 + 1) - 1
      BY <1>1
    <3>3. Related(left, right, i1 + 1, i2, relationship)
      BY <1>2, <3>1, <3>2 DEF Related, Met
    <3> QED
      BY <1>5, <1>6, <2>1, <3>3 DEF RelateOne
  <2>2. CASE ~TakesFirst /\ right[i2].index \in Dimensionless
    <3>1. /\ i2 <= Len(right)
          /\ i1 <= Len(left) => right[i2].index < left[i1].index
      <4>1. i1 <= Len(left) => left[i1].index \in Int
        BY <1>1, ArrayFacts DEF Operands
      <4>2. i2 <= Len(right) => right[i2].index \in Int
        BY <1>1, ArrayFacts DEF Operands
      <4> QED
        BY <1>6, <2>2, <4>1, <4>2 DEF RelateOne, TakesSecond
    <3>2. Order(right, left, i2, i1)
      BY <1>2 DEF Related, Order
    <3>3. /\ Order(right, left, i2 + 1, i1)
          /\ Agree(right, left, i2 + 1, i1, relationship)
          /\ Agree(left, right, i1, i2 + 1, relationship)
      BY <1>1, <1>2, <2>2, <3>1, <3>2, RelatedOne DEF Related
    <3>4. Related(left, right, i1, i2 + 1, relationship)
      BY <1>2, <3>3 DEF Related, Order
    <3> QED
      BY <1>5, <1>6, <2>2, <3>4 DEF RelateOne
  <2>3. CASE ~(TakesFirst /\ left[i1].index \in Dimensionless)
             /\ ~(~TakesFirst /\ right[i2].index \in Dimensionless)
    <3>1. Answer("UNCONVERTIBLE")
      BY <1>6, <2>3 DEF RelateOne
    <3> QED
      BY <1>4, <3>1
  <2> QED
    BY <2>1, <2>2, <2>3
<1>7. CASE RelateBoth
  <2> DEFINE here == Local(left[i1].power, right[i2].power)
             counts == left[i1].index \notin Dimensionless
             new == IF counts THEN here ELSE relationship
  <2>1. CASE counts /\ (here = "UNCONVERTIBLE" \/ relationship \notin {"UNKNOWN", here})
    <3>1. Answer("UNCONVERTIBLE")
      BY <1>7, <2>1 DEF RelateBoth
    <3> QED
      BY <1>4, <3>1
  <2>2. CASE ~(counts /\ (here = "UNCONVERTIBLE" \/ relationship \notin {"UNKNOWN", here}))
    <3>1. /\ relationship' = new
          /\ i1' = i1 + 1
          /\ i2' = i2 + 1
          /\ UNCHANGED <<left, right, result, call, out>>
      BY <1>7, <2>2 DEF RelateBoth
    <3>2. Related(left, right, i1 + 1, i2 + 1, new)
      BY <1>1, <1>2, <1>7, <2>2, RelatedMeet DEF RelateBoth, Meet
    <3> QED
      BY <1>5, <3>1, <3>2
  <2> QED
    BY <2>1, <2>2
<1>8. CASE RelateReturn
  BY <1>4, <1>8 DEF RelateReturn
<1> QED
  BY <1>6, <1>7, <1>8

LEMMA IInvStep == IInv /\ [Next]_vars => IInv'
<1> SUFFICES ASSUME IInv, [Next]_vars PROVE IInv'
  OBVIOUS
<1>1. CASE Client
  BY <1>1, IInvClient
<1>2. CASE Loop
  BY <1>2, IInvMultiply, IInvMap, IInvRelate DEF Loop
<1>3. CASE UNCHANGED vars
  <2>1. TypeInv'
    BY TypeStep DEF IInv
  <2>2. AllAscending'
    BY <1>3, HeldFacts, HeldAscending DEF Operands, vars
  <2> QED
    BY <1>3, <2>1, <2>2 DEF IInv, RaisedSoFar, RootSoFar, vars
<1> QED
  BY <1>1, <1>2, <1>3 DEF Next

LEMMA Inductive == Spec => []IInv
BY IInvInit, IInvStep, PTL DEF Spec

\* Whatever calls built it, the entries of a unit ascend by basic-unit.
THEOREM Ascends == Spec => []AllAscending
<1>1. IInv => AllAscending
  BY DEF IInv
<1> QED
  BY Inductive, <1>1, PTL

\* Without overflow, basic-units whose powers cancel leave the product.
THEOREM ZeroNeedsOverflow == Spec => []OnlyOverflowLeavesZero
<1>1. IInv => OnlyOverflowLeavesZero
  <2> SUFFICES ASSUME IInv, call = "multiply", NEW k \in DOMAIN out,
                      out[k].power = 0
               PROVE  \/ out[k] \in { left[i] : i \in DOMAIN left }
                      \/ out[k] \in { right[j] : j \in DOMAIN right }
                      \/ \E i \in DOMAIN left, j \in DOMAIN right :
                           /\ left[i].index = out[k].index
                           /\ right[j].index = out[k].index
                           /\ left[i].power + right[j].power \notin Short
    BY DEF OnlyOverflowLeavesZero
  <2>1. /\ left \in Product /\ right \in Product /\ out \in Product
        /\ i1 \in 1 .. Len(left) + 1 /\ i2 \in 1 .. Len(right) + 1
    BY HeldFacts DEF Operands
  <2>2. /\ DOMAIN left = 1 .. Len(left) /\ Len(left) \in Nat
        /\ DOMAIN right = 1 .. Len(right) /\ Len(right) \in Nat
        /\ DOMAIN out = 1 .. Len(out)
    BY <2>1, ArrayFacts
  <2>3. /\ \A i \in 1 .. i1 - 1 : i \in DOMAIN left
        /\ \A j \in 1 .. i2 - 1 : j \in DOMAIN right
    BY <2>1, <2>2
  <2>4. Source(left, right, i1, i2, out[k])
    BY <2>2 DEF IInv, Merged
  <2>5. CASE OnlyIn(left, right, i1, out[k])
    BY <2>3, <2>5 DEF OnlyIn
  <2>6. CASE OnlyIn(right, left, i2, out[k])
    BY <2>3, <2>6 DEF OnlyIn
  <2>7. CASE InBoth(left, right, i1, i2, out[k])
    <3>1. PICK i \in 1 .. i1 - 1, j \in 1 .. i2 - 1 :
            /\ left[i].index = out[k].index
            /\ right[j].index = out[k].index
            /\ left[i].power # -right[j].power
            /\ out[k].power = Narrow(left[i].power + right[j].power)
      BY <2>7 DEF InBoth
    <3>2. left[i].power \in Int /\ right[j].power \in Int
      BY <2>1, <2>2, <2>3, EntryType
    <3>3. left[i].power + right[j].power # 0
      BY <3>1, <3>2
    <3>4. left[i].power + right[j].power \notin Short
      BY <3>1, <3>3, NarrowFits
    <3> QED
      BY <2>3, <3>1, <3>4
  <2> QED
    BY <2>4, <2>5, <2>6, <2>7 DEF Source
<1> QED
  BY Inductive, <1>1, PTL

-----------------------------------------------------------------------------
(* The loops implement the algebra of exponent vectors.                    *)

VecResult == IF result = NoUnit THEN NoUnit ELSE Vec(result)

\* The abstract operations of the instance are those of ProductVectors.
LEMMA SameOperators ==
  /\ \A v, w : Algebra!Times(v, w) = Times(v, w)
  /\ \A v, n : Algebra!Raised(v, n) = Raised(v, n)
  /\ \A v, n : Algebra!HasRoot(v, n) = HasRoot(v, n)
  /\ \A v, n : Algebra!RootOf(v, n) = RootOf(v, n)
  /\ \A v, w : Algebra!Relationship(v, w) = Relationship(v, w)
<1>1. \A v, w : Algebra!Times(v, w) = Times(v, w)
  BY DEF Algebra!Times, Times, Algebra!Cancelled, Cancelled, Algebra!Narrow, Narrow
<1>2. \A v, n : Algebra!Raised(v, n) = Raised(v, n)
  BY DEF Algebra!Raised, Raised, Algebra!Narrow, Narrow
<1>3. \A v, n : /\ Algebra!HasRoot(v, n) = HasRoot(v, n)
               /\ Algebra!RootOf(v, n) = RootOf(v, n)
  BY DEF Algebra!HasRoot, HasRoot, Algebra!RootOf, RootOf
<1>4. \A v, w : Algebra!Relationship(v, w) = Relationship(v, w)
  BY DEF Algebra!Relationship, Relationship, Algebra!Equal, Equal,
         Algebra!IsInverse, IsInverse, Algebra!Dimensions, Dimensions
<1> QED
  BY <1>1, <1>2, <1>3, <1>4

\* The unit one is the empty vector.
LEMMA VecOne ==
  /\ Vec(One) = [b \in {} |-> 0]
  /\ \A n : Raised(Vec(One), n) = Vec(One)
  /\ \A n : HasRoot(Vec(One), n) /\ RootOf(Vec(One), n) = Vec(One)
  /\ Times(Vec(One), Vec(One)) = Vec(One)
<1>1. Indexes(One) = {}
  BY DEF Indexes, One
<1>2. Vec(One) = [b \in {} |-> 0] /\ DOMAIN Vec(One) = {}
  BY <1>1 DEF Vec
<1>3. \A f, g : [b \in {} |-> f[b]] = [b \in {} |-> g[b]]
  OBVIOUS
<1>4. \A n : Raised(Vec(One), n) = Vec(One)
  BY <1>2 DEF Raised
<1>5. \A n : HasRoot(Vec(One), n) /\ RootOf(Vec(One), n) = Vec(One)
  BY <1>2 DEF HasRoot, RootOf
<1>6. Times(Vec(One), Vec(One)) = Vec(One)
  <2>1. (DOMAIN Vec(One) \cup DOMAIN Vec(One)) \ Cancelled(Vec(One), Vec(One)) = {}
    BY <1>2
  <2> QED
    BY <1>2, <2>1 DEF Times
<1> QED
  BY <1>2, <1>4, <1>5, <1>6

\* basicNew() yields a vector with one power of 1.
LEMMA VecSingle ==
  ASSUME NEW b \in Basic
  PROVE  Vec(<< [index |-> b, power |-> 1] >>) = Algebra!Single(b)
<1> DEFINE p == << [index |-> b, power |-> 1] >>
<1>1. p \in Product /\ Ascending(p)
  <2>1. [index |-> b, power |-> 1] \in Entry
    BY ShortAssumption DEF Entry, Short
  <2> QED
    BY <2>1, SingleAscending
<1>2. Len(p) = 1 /\ p[1].index = b /\ p[1].power = 1
  OBVIOUS
<1> HIDE DEF p
<1>3. 1 .. Len(p) = {1}
  BY <1>2
<1>4. Indexes(p) = {b}
  BY <1>1, <1>2, <1>3, ArrayFacts DEF Indexes
<1>5. Vec(p)[b] = 1
  BY <1>1, <1>2, <1>3, VecFacts
<1>6. Vec(p) = [c \in {b} |-> 1]
  BY <1>4, <1>5 DEF Vec
<1> QED
  BY <1>6 DEF p, Algebra!Single

\* The vector of a unit is not the null pointer.
LEMMA VecIsUnit ==
  ASSUME NEW p \in Product, Ascending(p) PROVE Vec(p) # NoUnit
<1>1. Indexes(p) \subseteq Basic
  BY EntryType, ArrayFacts DEF Indexes
<1>2. \A b \in Indexes(p) : Vec(p)[b] \in Short
  BY VecFacts, EntryType
<1>3. Vec(p) \in [Indexes(p) -> Short]
  BY <1>2 DEF Vec
<1> QED
  BY <1>1, <1>3, NoUnitAssumption

LEMMA AlgebraInit == Init => Algebra!Init
BY VecOne DEF Init, Algebra!Init

\* What the abstract step of an action has to be shown for.
LEMMA Stutters ==
  UNCHANGED <<left, right, result, answer>> => UNCHANGED Algebra!vars
BY DEF Algebra!vars

LEMMA ResultUnit ==
  ASSUME IInv
  PROVE  /\ result # NoUnit => VecResult = Vec(result) /\ VecResult # NoUnit
         /\ result = NoUnit => VecResult = NoUnit
BY HeldFacts, VecIsUnit DEF VecResult

LEMMA AlgebraClient == IInv /\ IInv' /\ Client => [Algebra!Next]_Algebra!vars
<1> SUFFICES ASSUME IInv, IInv', Client PROVE [Algebra!Next]_Algebra!vars
  OBVIOUS
<1>1. ASSUME NEW b \in Basic, Load(b) PROVE Algebra!Load(b)
  BY <1>1, VecSingle DEF Load, Algebra!Load
<1>2. CASE Adopt
  <2>1. result # NoUnit /\ VecResult = Vec(result) /\ VecResult # NoUnit
    BY <1>2, ResultUnit DEF Adopt
  <2>2. Algebra!Adopt
    BY <1>2, <2>1 DEF Adopt, Algebra!Adopt, VecResult
  <2> QED
    BY <2>2 DEF Algebra!Next
<1>3. One # NoUnit
  BY CallAssumption, EmptyFacts
<1>4. CASE CallMultiply
  <2>1. CASE Len(left) + Len(right) = 0
    <3>1. left = One /\ right = One
      <4>1. Len(left) = 0 /\ Len(right) = 0
        BY <2>1, HeldFacts, ArrayFacts DEF Operands
      <4> QED
        BY <4>1, HeldFacts DEF Operands, Product, One
    <3>2. Algebra!Multiply
      BY <1>3, <1>4, <2>1, <3>1, VecOne, SameOperators
         DEF CallMultiply, Algebra!Multiply
    <3> QED
      BY <3>2 DEF Algebra!Next
  <2>2. CASE Len(left) + Len(right) # 0
    BY <1>4, <2>2, Stutters DEF CallMultiply, Enter
  <2> QED
    BY <2>1, <2>2
<1>5. ASSUME NEW n \in Powers, CallRaise(n) PROVE [Algebra!Next]_Algebra!vars
  <2>1. CASE left = One
    <3>1. Algebra!Raise(n)
      BY <1>3, <1>5, <2>1, VecOne, SameOperators DEF CallRaise, Algebra!Raise
    <3> QED
      BY <3>1 DEF Algebra!Next
  <2>2. CASE left # One
    BY <1>5, <2>2, Stutters DEF CallRaise, Enter
  <2> QED
    BY <2>1, <2>2
<1>6. ASSUME NEW n \in Roots, CallRoot(n) PROVE [Algebra!Next]_Algebra!vars
  <2>1. CASE left = One
    <3>1. Algebra!Root(n)
      BY <1>3, <1>6, <2>1, VecOne, SameOperators DEF CallRoot, Algebra!Root
    <3> QED
      BY <3>1 DEF Algebra!Next
  <2>2. CASE left # One
    BY <1>6, <2>2, Stutters DEF CallRoot, Enter
  <2> QED
    BY <2>1, <2>2
<1>7. CASE CallRelate
  BY <1>7, Stutters DEF CallRelate, Enter
<1> QED
  BY <1>1, <1>2, <1>4, <1>5, <1>6, <1>7 DEF Client, Algebra!Next

LEMMA AlgebraLoop == IInv /\ IInv' /\ Loop => [Algebra!Next]_Algebra!vars
<1> SUFFICES ASSUME IInv, IInv', Loop PROVE [Algebra!Next]_Algebra!vars
  OBVIOUS
<1>0. /\ Operands(left, right, i1, i2) /\ Operands(right, left, i2, i1)
      /\ left \in Product /\ Ascending(left) /\ Len(left) \in Nat
      /\ right \in Product /\ Ascending(right) /\ Len(right) \in Nat
      /\ i1 \in 1 .. Len(left) + 1 /\ i2 \in 1 .. Len(right) + 1
      /\ out \in Product /\ Ascending(out) /\ out # NoUnit
  BY HeldFacts, ArrayFacts, CallAssumption DEF Operands
<1>1. CASE MultiplyFirst \/ MultiplySecond \/ MultiplyBoth \/ RaiseEntry \/ RootEntry
  BY <1>1, Stutters
     DEF MultiplyFirst, MultiplySecond, MultiplyBoth, RaiseEntry, RootEntry
<1>2. CASE MultiplyReturn
  <2>1. i1 = Len(left) + 1 /\ i2 = Len(right) + 1
    BY <1>0, <1>2 DEF MultiplyReturn, Exhausted
  <2>2. Merged(left, right, Len(left) + 1, Len(right) + 1, out)
    BY <1>2, <2>1 DEF MultiplyReturn, IInv
  <2>3. Vec(out) = Times(Vec(left), Vec(right))
    BY <1>0, <2>1, <2>2, MergedTimes
  <2>4. Algebra!Multiply
    BY <1>0, <1>2, <2>3, SameOperators DEF MultiplyReturn, Return, Algebra!Multiply
  <2> QED
    BY <2>4 DEF Algebra!Next
<1>3. CASE RaiseReturn
  <2>1. i1 - 1 = Len(left) /\ RaisedSoFar /\ arg \in Powers
    BY <1>0, <1>3 DEF RaiseReturn, IInv, TypeInv, LocalsOK
  <2>2. Vec(out) = Raised(Vec(left), arg)
    BY <1>0, <2>1, MappedRaised DEF RaisedSoFar
  <2>3. Algebra!Raise(arg)
    BY <1>0, <1>3, <2>2, SameOperators DEF RaiseReturn, Return, Algebra!Raise
  <2> QED
    BY <2>1, <2>3 DEF Algebra!Next
<1>4. CASE RootMeaningless
  <2>1. arg \in Roots
    BY <1>4 DEF RootMeaningless, IInv, TypeInv, LocalsOK
  <2>2. ~HasRoot(Vec(left), arg)
    BY <1>0, <1>4, NoRoot DEF RootMeaningless
  <2>3. Algebra!Root(arg)
    BY <1>4, <2>2, SameOperators DEF RootMeaningless, Return, Algebra!Root
  <2> QED
    BY <2>1, <2>3 DEF Algebra!Next
<1>5. CASE RootReturn
  <2>1. i1 - 1 = Len(left) /\ RootSoFar /\ arg \in Roots
    BY <1>0, <1>5 DEF RootReturn, IInv, TypeInv, LocalsOK
  <2>2. HasRoot(Vec(left), arg) /\ Vec(out) = RootOf(Vec(left), arg)
    BY <1>0, <2>1, MappedRoot DEF RootSoFar
  <2>3. Algebra!Root(arg)
    BY <1>0, <1>5, <2>2, SameOperators DEF RootReturn, Return, Algebra!Root
  <2> QED
    BY <2>1, <2>3 DEF Algebra!Next
<1>6. ASSUME NEW a, Answer(a), Relationship(Vec(left), Vec(right)) = a
      PROVE  [Algebra!Next]_Algebra!vars
  <2>1. Algebra!Relate
    BY <1>6, SameOperators DEF Answer, Algebra!Relate
  <2> QED
    BY <2>1 DEF Algebra!Next
<1>7. CASE RelateOne
  <2> DEFINE iBasic == IF TakesFirst THEN left[i1].index ELSE right[i2].index
  <2>0. Order(left, right, i1, i2) /\ Order(right, left, i2, i1)
    BY <1>7 DEF RelateOne, IInv, Related, Order
  <2>1. CASE iBasic \in Dimensionless
    BY <1>7, <2>1, Stutters DEF RelateOne
  <2>2. CASE iBasic \notin Dimensionless
    <3>1. Answer("UNCONVERTIBLE")
      BY <1>7, <2>2 DEF RelateOne
    <3>2. CASE TakesFirst
      BY <1>0, <1>6, <2>0, <2>2, <3>1, <3>2, OneSided DEF TakesFirst
    <3>3. CASE ~TakesFirst
      <4>1. /\ i2 <= Len(right)
            /\ i1 <= Len(left) => right[i2].index < left[i1].index
        <5>1. i1 <= Len(left) => left[i1].index \in Int
          BY <1>0, ArrayFacts
        <5>2. i2 <= Len(right) => right[i2].index \in Int
          BY <1>0, ArrayFacts
        <5> QED
          BY <1>7, <3>3, <5>1, <5>2 DEF RelateOne, TakesSecond
      <4> QED
        BY <1>0, <1>6, <2>0, <2>2, <3>1, <3>3, <4>1, OneSided
    <3> QED
      BY <3>2, <3>3
  <2> QED
    BY <2>1, <2>2
<1>8. CASE RelateBoth
  <2> DEFINE here == Local(left[i1].power, right[i2].power)
             counts == left[i1].index \notin Dimensionless
             stops == \/ here = "UNCONVERTIBLE"
                      \/ relationship \notin {"UNKNOWN", here}
  <2>0. Related(left, right, i1, i2, relationship)
    BY <1>8 DEF RelateBoth, IInv
  <2>1. CASE counts /\ stops
    <3>1. Answer("UNCONVERTIBLE")
      BY <1>8, <2>1 DEF RelateBoth
    <3>2. Relationship(Vec(left), Vec(right)) = "UNCONVERTIBLE"
      BY <1>0, <1>8, <2>0, <2>1, Conflict DEF RelateBoth, Meet
    <3> QED
      BY <1>6, <3>1, <3>2
  <2>2. CASE ~(counts /\ stops)
    BY <1>8, <2>2, Stutters DEF RelateBoth
  <2> QED
    BY <2>1, <2>2
<1>9. CASE RelateReturn
  <2>1. i1 = Len(left) + 1 /\ i2 = Len(right) + 1
    BY <1>0, <1>9 DEF RelateReturn, Exhausted
  <2>2. Related(left, right, Len(left) + 1, Len(right) + 1, relationship)
    BY <1>9, <2>1 DEF RelateReturn, IInv
  <2>3. Relationship(Vec(left), Vec(right))
          = IF relationship = "UNKNOWN" THEN "EQUAL" ELSE relationship
    BY <1>0, <2>1, <2>2, Finished
  <2> QED
    BY <1>6, <1>9, <2>3 DEF RelateReturn
<1> QED
  BY <1>1, <1>2, <1>3, <1>4, <1>5, <1>7, <1>8, <1>9 DEF Loop

LEMMA AlgebraStep == IInv /\ IInv' /\ [Next]_vars => [Algebra!Next]_Algebra!vars
<1>1. UNCHANGED vars => UNCHANGED Algebra!vars
  BY Stutters DEF vars
<1> QED
  BY <1>1, AlgebraClient, AlgebraLoop DEF Next

\* The merge and map loops of the product-unit functions return exactly what
\* the algebra of exponent vectors says, for all units and arguments.
THEOREM Implements == Spec => ImplementsAlgebra
<1>1. Spec => []IInv
  BY Inductive
<1> QED
  BY <1>1, AlgebraInit, AlgebraStep, PTL DEF Spec, ImplementsAlgebra, Algebra!Spec

-----------------------------------------------------------------------------
(* Convertibility.                                                         *)

LEMMA EqualFacts ==
  ASSUME NEW v, NEW w, Equal(v, w)
  PROVE  /\ DOMAIN Dimensions(v) = DOMAIN Dimensions(w)
         /\ \A b \in DOMAIN Dimensions(v) : v[b] = w[b]
<1>1. /\ \A b \in DOMAIN Dimensions(v) : Dimensions(v)[b] = v[b]
      /\ \A b \in DOMAIN Dimensions(w) : Dimensions(w)[b] = w[b]
  BY DEF Dimensions
<1> QED
  BY <1>1 DEF Equal

LEMMA EqualWhen ==
  ASSUME NEW v, NEW w, DOMAIN Dimensions(v) = DOMAIN Dimensions(w),
         \A b \in DOMAIN Dimensions(v) : v[b] = w[b]
  PROVE  Equal(v, w)
<1>1. /\ DOMAIN Dimensions(v) = DOMAIN v \ Dimensionless
      /\ DOMAIN Dimensions(w) = DOMAIN w \ Dimensionless
  BY DEF Dimensions
<1>2. DOMAIN v \ Dimensionless = DOMAIN w \ Dimensionless
  BY <1>1
<1>3. \A b \in DOMAIN v \ Dimensionless : v[b] = w[b]
  BY <1>1
<1>4. Dimensions(v) = Dimensions(w)
  BY <1>2, <1>3 DEF Dimensions
<1> QED
  BY <1>4 DEF Equal

LEMMA ConvertibleWhen ==
  ASSUME NEW v, NEW w
  PROVE  Convertible(v, w) <=> Equal(v, w) \/ IsInverse(v, w)
BY DEF Convertible, Relationship

\* A vector of integers.
Powered(v) == \A b \in DOMAIN Dimensions(v) : v[b] \in Int

LEMMA ConvertibleChain ==
  ASSUME NEW u, NEW v, NEW w, Powered(u), Powered(v), Powered(w)
  PROVE  /\ Convertible(u, u)
         /\ Convertible(u, v) => Convertible(v, u)
         /\ Convertible(u, v) /\ Convertible(v, w) => Convertible(u, w)
<1>1. Convertible(u, u)
  BY ConvertibleWhen DEF Equal
<1>2. IsInverse(u, v) => IsInverse(v, u)
  <2> SUFFICES ASSUME IsInverse(u, v) PROVE IsInverse(v, u)
    OBVIOUS
  <2>1. \A b \in DOMAIN Dimensions(v) : v[b] # 0 /\ v[b] = -u[b]
    BY DEF IsInverse, Powered
  <2> QED
    BY <2>1 DEF IsInverse
<1>3. Convertible(u, v) => Convertible(v, u)
  BY <1>2, ConvertibleWhen DEF Equal
<1>4. ASSUME IsInverse(u, v), IsInverse(v, w) PROVE Equal(u, w)
  <2>1. DOMAIN Dimensions(u) = DOMAIN Dimensions(w)
    BY <1>4 DEF IsInverse
  <2>2. \A b \in DOMAIN Dimensions(u) : u[b] = w[b]
    BY <1>4 DEF IsInverse, Powered
  <2> QED
    BY <2>1, <2>2, EqualWhen
<1>5. ASSUME Equal(u, v), IsInverse(v, w) PROVE IsInverse(u, w)
  <2>1. /\ DOMAIN Dimensions(u) = DOMAIN Dimensions(v)
        /\ \A b \in DOMAIN Dimensions(u) : u[b] = v[b]
    BY <1>5, EqualFacts
  <2> QED
    BY <1>5, <2>1 DEF IsInverse
<1>6. ASSUME IsInverse(u, v), Equal(v, w) PROVE IsInverse(u, w)
  <2>1. /\ DOMAIN Dimensions(v) = DOMAIN Dimensions(w)
        /\ \A b \in DOMAIN Dimensions(v) : v[b] = w[b]
    BY <1>6, EqualFacts
  <2> QED
    BY <1>6, <2>1 DEF IsInverse
<1>7. Equal(u, v) /\ Equal(v, w) => Equal(u, w)
  BY DEF Equal
<1> QED
  BY <1>1, <1>3, <1>4, <1>5, <1>6, <1>7, ConvertibleWhen

\* Convertibility, reciprocals included, is an equivalence on all units.
THEOREM ConvertibleEquivalence == Spec => []ConvertibleIsEquivalence
<1>1. IInv => ConvertibleIsEquivalence
  <2> SUFFICES ASSUME IInv, NEW p \in Held, NEW q \in Held, NEW r \in Held
               PROVE  /\ Convertible(Vec(p), Vec(p))
                      /\ Convertible(Vec(p), Vec(q)) => Convertible(Vec(q), Vec(p))
                      /\ Convertible(Vec(p), Vec(q)) /\ Convertible(Vec(q), Vec(r))
                           => Convertible(Vec(p), Vec(r))
    BY DEF ConvertibleIsEquivalence
  <2>1. \A u \in Held : u \in Product /\ Ascending(u)
    BY HeldFacts DEF Operands, Held
  <2>2. ASSUME NEW u \in Product, Ascending(u) PROVE Powered(Vec(u))
    <3>1. \A b \in Indexes(u) : Vec(u)[b] \in Int
      BY <2>2, VecFacts, ArrayFacts
    <3>2. DOMAIN Dimensions(Vec(u)) \subseteq Indexes(u)
      BY <2>2, VecFacts DEF Dimensions
    <3> QED
      BY <3>1, <3>2 DEF Powered
  <2> QED
    BY <2>1, <2>2, ConvertibleChain
<1> QED
  BY Inductive, <1>1, PTL

-----------------------------------------------------------------------------
(* Integer division.                                                       *)

LEMMA DivisionIs ==
  ASSUME NEW d \in Nat \ {0}, NEW x \in Int
  PROVE  /\ x \div d \in Int /\ x % d \in 0 .. d - 1
         /\ x = d * (x \div d) + (x % d)
<1>1. x \div d \in Int
  OBVIOUS
<1>2. x % d \in 0 .. d - 1
  OBVIOUS
<1>3. x = d * (x \div d) + (x % d)
  OBVIOUS
<1> QED
  BY <1>1, <1>2, <1>3

LEMMA DivisionIsUnique ==
  ASSUME NEW d \in Nat \ {0}, NEW q \in Int, NEW r \in 0 .. d - 1
  PROVE  (d * q + r) \div d = q /\ (d * q + r) % d = r
  OBVIOUS

LEMMA TruncatedIs ==
  ASSUME NEW n \in Nat, NEW d \in Nat \ {0}
  PROVE  Truncated(n, d) = n \div d
  BY DEF Truncated

-----------------------------------------------------------------------------
(* Dates.                                                                  *)

\* The variables of julianDayToGregorianDate(), from the day number in the Julian
\* calendar on: the year that begins in March, its first day, the day of that year and the month.
Jc(jb) == Truncated(100 * jb - 12210, 36525)
Jd(jb) == 365 * Jc(jb) + Truncated(Jc(jb), 4)
DayOfYear(jb) == jb - Jd(jb)
Je(jb) == Truncated(10000 * DayOfYear(jb), 306001)
DayOfMonth(jb) == DayOfYear(jb) - Truncated(306001 * Je(jb), 10000)
Month(jb) == IF Je(jb) - 1 > 12 THEN Je(jb) - 13 ELSE Je(jb) - 1

\* Every year begins in March and its days are counted from 123.
LEMMA YearIs ==
  ASSUME NEW jb \in Nat, jb >= 1524
  PROVE  /\ Jc(jb) \in Nat /\ Jc(jb) >= 3
         /\ 36525 * Jc(jb) <= 100 * jb - 12210 /\ 100 * jb - 12210 < 36525 * Jc(jb) + 36525
         /\ Jd(jb) = 365 * Jc(jb) + (Jc(jb) \div 4)
         /\ DayOfYear(jb) \in 123 .. 488
<1> DEFINE jc == Jc(jb)
           q == jc \div 4
<1>1. jc = (100 * jb - 12210) \div 36525
  BY DEF Jc, Truncated
<1>2. jc \in Nat /\ jc >= 3 /\ 36525 * jc <= 100 * jb - 12210 /\ 100 * jb - 12210 < 36525 * jc + 36525
  BY <1>1
<1>3. Jd(jb) = 365 * jc + q
  BY <1>2, TruncatedIs DEF Jd
<1>4. q \in Nat /\ 4 * q <= jc /\ jc <= 4 * q + 3
  BY <1>2
<1> HIDE DEF jc, q
<1>5. jb - (365 * jc + q) \in 123 .. 488
  BY <1>2, <1>4
<1> QED
  BY <1>2, <1>3, <1>5 DEF DayOfYear, jc, q

\* The months have their days.
LEMMA MonthIs ==
  ASSUME NEW jb \in Nat, jb >= 1524
  PROVE  /\ Je(jb) \in 4 .. 15 /\ Month(jb) \in 1 .. 12
         /\ DayOfMonth(jb) \in 1 .. 31
         /\ Truncated(306001 * Je(jb), 10000) = DayOfYear(jb) - DayOfMonth(jb)
         /\ Je(jb) <= 13 => Month(jb) = Je(jb) - 1 /\ Month(jb) > 2
         /\ Je(jb) > 13 => Month(jb) = Je(jb) - 13 /\ Month(jb) <= 2
<1> DEFINE k == DayOfYear(jb)
           je == Je(jb)
           before == Truncated(306001 * je, 10000)
<1>1. k \in 123 .. 488
  BY YearIs
<1>2. je = (10000 * k) \div 306001
  BY <1>1 DEF Je, Truncated
<1>3. je \in 4 .. 15 /\ 306001 * je <= 10000 * k /\ 10000 * k < 306001 * je + 306001
  BY <1>1, <1>2
<1>4. before = (306001 * je) \div 10000
  BY <1>3 DEF Truncated
<1>5. before \in Int /\ 10000 * before <= 306001 * je /\ 306001 * je < 10000 * before + 10000
  BY <1>3, <1>4
<1>6. DayOfMonth(jb) = k - before
  BY DEF DayOfMonth
<1>7. k - before \in 1 .. 31
  <2> HIDE DEF k, je, before
  <2> QED
    BY <1>1, <1>3, <1>5
<1>8. /\ je <= 13 => Month(jb) = je - 1 /\ Month(jb) > 2
      /\ je > 13 => Month(jb) = je - 13 /\ Month(jb) <= 2
      /\ Month(jb) \in 1 .. 12
  BY <1>3 DEF Month
<1>9. before = k - (k - before)
  BY <1>1, <1>5
<1> QED
  BY <1>3, <1>6, <1>7, <1>8, <1>9
\* The year of the months January to December, without a gap at 0.
Iy(jb) == IF Month(jb) > 2 THEN Jc(jb) - 4716 ELSE Jc(jb) - 4715

DateOf(jb) == Date(SkippingYearZero(Iy(jb)), Month(jb), DayOfMonth(jb))

LEMMA DecodedIs ==
  ASSUME NEW julday
  PROVE  JulianDayToGregorianDate(julday) = DateOf(InJulianCalendar(julday) + 1524)
  BY DEF JulianDayToGregorianDate, DateOf, Iy, Month, DayOfMonth, Je, DayOfYear, Jd, Jc

\* The test for the first day of the Gregorian calendar.
IsGregorian(jb) == DayOfMonth(jb) + 31 * (Month(jb) + 12 * Iy(jb)) >= 15 + 31 * (10 + 12 * 1582)

Century(jb) == Truncated(Jc(jb) - 4716, 100)

\* gregorianDateToJulianDay() finds the same year, day and month.
LEMMA EncodedIs ==
  ASSUME NEW jb \in Nat, jb >= 1524
  PROVE  GregorianDateToJulianDay(DateOf(jb)) =
           IF IsGregorian(jb)
           THEN jb - 1524 - Century(jb) + 2 + Truncated(Century(jb), 4)
           ELSE jb - 1524
<1> DEFINE d == DateOf(jb)
           jc == Jc(jb)
           iy == Iy(jb)
           m == Month(jb)
           je == Je(jb)
           late == m > 2
<1>1. /\ jc \in Nat /\ je \in 4 .. 15 /\ m \in 1 .. 12 /\ DayOfMonth(jb) \in 1 .. 31
      /\ je <= 13 => m = je - 1 /\ m > 2
      /\ je > 13 => m = je - 13 /\ m <= 2
      /\ DayOfYear(jb) \in 123 .. 488
  BY YearIs, MonthIs
<1>2. iy \in Int /\ (late => iy = jc - 4716) /\ (~late => iy = jc - 4715)
  BY <1>1 DEF Iy
<1>3. d.year = SkippingYearZero(iy) /\ d.month = m /\ d.day = DayOfMonth(jb)
  BY DEF DateOf, Date
<1>4. d.year # 0 /\ d.year \in Int /\ (IF d.year < 0 THEN d.year + 1 ELSE d.year) = iy
  BY <1>2, <1>3 DEF SkippingYearZero
<1> DEFINE jy == IF late THEN iy ELSE iy - 1
           jm == IF late THEN m + 1 ELSE m + 13
           julian == d.day + Truncated(306001 * jm, 10000) + 365 * jy + (jy \div 4) + 1720995
<1>5. jy = jc - 4716 /\ jm = je
  BY <1>1, <1>2
<1>6. jy \div 4 = (jc \div 4) - 1179
  BY <1>1, <1>5
<1>7. julian = jb - 1524
  <2>1. Truncated(306001 * je, 10000) = DayOfYear(jb) - DayOfMonth(jb)
    BY MonthIs
  <2>2. julian = DayOfMonth(jb) + (DayOfYear(jb) - DayOfMonth(jb)) + 365 * (jc - 4716) + ((jc \div 4) - 1179) + 1720995
    BY <1>3, <1>5, <1>6, <2>1
  <2>3. DayOfYear(jb) = jb - (365 * jc + (jc \div 4)) /\ jc \div 4 \in Int
    BY <1>1, YearIs DEF DayOfYear
  <2> HIDE DEF julian, jc
  <2> QED
    BY <1>1, <2>2, <2>3
<1>8. GregorianDateToJulianDay(d) =
        IF d.day + 31 * (d.month + 12 * iy) >= 15 + 31 * (10 + 12 * 1582)
        THEN julian - Truncated(jy, 100) + 2 + Truncated(Truncated(jy, 100), 4)
        ELSE julian
  <2> DEFINE year == IF d.year = 0 THEN 1 ELSE d.year
             counted == IF year < 0 THEN year + 1 ELSE year
  <2>1. counted = iy
    BY <1>4
  <2>2. d.month = m
    BY <1>3
  <2> HIDE DEF d, iy, m
  <2>3. GregorianDateToJulianDay(d) =
        LET jy1 == IF d.month > 2 THEN counted ELSE counted - 1
            jm1 == IF d.month > 2 THEN d.month + 1 ELSE d.month + 13
            julian1 == d.day + Truncated(306001 * jm1, 10000) + 365 * jy1 + (jy1 \div 4) + 1720995
            ja == Truncated(jy1, 100)
        IN IF d.day + 31 * (d.month + 12 * counted) >= 15 + 31 * (10 + 12 * 1582)
           THEN julian1 - ja + 2 + Truncated(ja, 4)
           ELSE julian1
    BY DEF GregorianDateToJulianDay
  <2> HIDE DEF counted
  <2> QED
    BY <2>1, <2>2, <2>3
<1> HIDE DEF julian, jy
<1> QED
  BY <1>3, <1>5, <1>7, <1>8 DEF IsGregorian, Century
\* The centuries of the day numbers from the switch on.
LEMMA CenturyIs ==
  ASSUME NEW julday \in Nat, julday >= GregorianStart
  PROVE  \E c \in Nat :
           LET jb == InJulianCalendar(julday) + 1524
           IN /\ c >= 11
              /\ 146097 * c <= 4 * julday - 7468865 /\ 4 * julday - 7468865 < 146097 * c + 146097
              /\ jb = julday + 1525 + c - (c \div 4)
              /\ 100 * (c + 4) <= Jc(jb) - 4716 /\ Jc(jb) - 4716 < 100 * (c + 5)
<1> DEFINE n == 4 * (julday - 1867216) - 1
           c == Truncated(n, 146097)
           jb == InJulianCalendar(julday) + 1524
           u == c \div 4
<1>1. julday \in Nat /\ julday >= 2299161
  BY DEF GregorianStart
<1>2. n \in Nat /\ n >= 1727779
  BY <1>1
<1>3. c = n \div 146097
  BY <1>2 DEF Truncated
<1>4. c \in Nat /\ c >= 11 /\ 146097 * c <= n /\ n < 146097 * c + 146097
  BY <1>2, <1>3
<1>5. u \in Nat /\ 4 * u <= c /\ c <= 4 * u + 3
  BY <1>4
<1>6. jb = julday + 1525 + c - u
  <2>1. Truncated(c, 4) = u
    BY <1>4 DEF Truncated
  <2>2. InJulianCalendar(julday) = julday + 1 + c - u
    BY <1>1, <2>1 DEF InJulianCalendar, GregorianStart
  <2> HIDE DEF c, u
  <2> QED
    BY <1>4, <1>5, <2>2
<1> HIDE DEF jb, u, c
<1>7. jb \in Nat /\ jb >= 1524
  BY <1>1, <1>4, <1>5, <1>6
<1> DEFINE jc == Jc(jb)
<1>8. jc \in Nat /\ 36525 * jc <= 100 * jb - 12210 /\ 100 * jb - 12210 < 36525 * jc + 36525
  BY <1>7, YearIs
<1> HIDE DEF jc
<1>10. 146097 * c <= 4 * julday - 7468865 /\ 4 * julday - 7468865 < 146097 * c + 146097
  BY <1>1, <1>4
<1>9. 100 * (c + 4) <= jc - 4716 /\ jc - 4716 < 100 * (c + 5)
  <2>1. 4 * julday - 7468865 >= 146097 * c /\ 4 * julday - 7468865 < 146097 * c + 146097
    BY <1>1, <1>10
  <2>2. CASE c = 4 * u
    BY <1>1, <1>4, <1>5, <1>6, <1>7, <1>8, <2>1, <2>2
  <2>3. CASE c = 4 * u + 1
    BY <1>1, <1>4, <1>5, <1>6, <1>7, <1>8, <2>1, <2>3
  <2>4. CASE c = 4 * u + 2
    BY <1>1, <1>4, <1>5, <1>6, <1>7, <1>8, <2>1, <2>4
  <2>5. CASE c = 4 * u + 3
    BY <1>1, <1>4, <1>5, <1>6, <1>7, <1>8, <2>1, <2>5
  <2> QED
    BY <1>4, <1>5, <2>2, <2>3, <2>4, <2>5
<1> QED
  BY <1>4, <1>6, <1>9, <1>10 DEF jb, u, jc

\* The test tells the calendars apart.
LEMMA SwitchIs ==
  ASSUME NEW jb \in Nat, jb >= 1524
  PROVE  /\ jb <= 2300684 => ~IsGregorian(jb)
         /\ jb >= 2300695 => IsGregorian(jb)
<1> DEFINE jc == Jc(jb)
           q == jc \div 4
           k == DayOfYear(jb)
           je == Je(jb)
           m == Month(jb)
           day == DayOfMonth(jb)
           iy == Iy(jb)
           before == Truncated(306001 * je, 10000)
<1>1. /\ jc \in Nat /\ je \in 4 .. 15 /\ m \in 1 .. 12 /\ day \in 1 .. 31
      /\ je <= 13 => m = je - 1 /\ m > 2
      /\ je > 13 => m = je - 13 /\ m <= 2
      /\ k \in 123 .. 488 /\ before = k - day
      /\ 36525 * jc <= 100 * jb - 12210 /\ 100 * jb - 12210 < 36525 * jc + 36525
  BY YearIs, MonthIs
<1>2. iy = IF je <= 13 THEN jc - 4716 ELSE jc - 4715
  BY <1>1 DEF Iy
<1>3. k = jb - (365 * jc + q) /\ q \in Nat /\ 4 * q <= jc /\ jc <= 4 * q + 3
  <2>1. k = jb - (365 * jc + q)
    BY YearIs DEF DayOfYear
  <2> QED
    BY <1>1, <2>1
<1>4. before = (306001 * je) \div 10000
  BY <1>1 DEF Truncated
<1>5. before \in Int /\ 10000 * before <= 306001 * je /\ 306001 * je < 10000 * before + 10000
  BY <1>1, <1>4
<1> HIDE DEF jc, q, k, je, m, day, iy, before
<1>6. ASSUME jb <= 2300684 PROVE day + 31 * (m + 12 * iy) < 15 + 31 * (10 + 12 * 1582)
  <2>1. jc <= 6298
    BY <1>1, <1>6
  <2>2. CASE jc < 6298
    BY <1>1, <1>2, <2>2
  <2>3. CASE jc = 6298
    <3>1. k <= 340
      BY <1>3, <1>6, <2>3
    <3>2. je <= 11
      BY <1>1, <1>5, <3>1
    <3>3. je = 11 => before = 336
      BY <1>5
    <3> QED
      BY <1>1, <1>2, <2>3, <3>1, <3>2, <3>3
  <2> QED
    BY <1>1, <2>1, <2>2, <2>3
<1>7. ASSUME jb >= 2300695 PROVE day + 31 * (m + 12 * iy) >= 15 + 31 * (10 + 12 * 1582)
  <2>1. jc >= 6298
    BY <1>1, <1>7
  <2>2. CASE jc > 6298
    BY <1>1, <1>2, <2>2
  <2>3. CASE jc = 6298
    <3>1. k >= 351
      BY <1>3, <1>7, <2>3
    <3>2. je >= 11
      BY <1>1, <1>5, <3>1
    <3>3. je = 11 => before = 336
      BY <1>5
    <3> QED
      BY <1>1, <1>2, <2>3, <3>1, <3>2, <3>3
  <2> QED
    BY <1>1, <2>1, <2>2, <2>3
<1>8. day + 31 * (m + 12 * iy) \in Int
  BY <1>1, <1>2
<1>9. IsGregorian(jb) <=> day + 31 * (m + 12 * iy) >= 15 + 31 * (10 + 12 * 1582)
  BY DEF IsGregorian, m, day, iy
<1> QED
  BY <1>6, <1>7, <1>8, <1>9
\* ut_encode_date() takes the date of every day number for that day again.
LEMMA DateEncodesBack ==
  ASSUME NEW julday \in Nat
  PROVE  LET d == JulianDayToGregorianDate(julday)
         IN /\ GregorianDateToJulianDay(d) = julday
            /\ d.year # 0 /\ d.month \in 1 .. 12 /\ d.day \in 1 .. 31
<1> DEFINE jb == InJulianCalendar(julday) + 1524
<1>1. JulianDayToGregorianDate(julday) = DateOf(jb)
  BY DecodedIs
<1>2. jb \in Nat /\ jb >= 1524 /\ GregorianDateToJulianDay(DateOf(jb)) = julday
  <2>1. CASE julday < GregorianStart
    <3>1. jb = julday + 1524
      BY <2>1 DEF InJulianCalendar
    <3>2. jb \in Nat /\ jb >= 1524 /\ jb <= 2300684
      BY <2>1, <3>1 DEF GregorianStart
    <3> HIDE DEF jb
    <3> QED
      BY <3>1, <3>2, EncodedIs, SwitchIs
  <2>2. CASE julday >= GregorianStart
    <3>1. PICK c \in Nat : /\ c >= 11 /\ jb = julday + 1525 + c - (c \div 4)
                          /\ 100 * (c + 4) <= Jc(jb) - 4716 /\ Jc(jb) - 4716 < 100 * (c + 5)
      BY <2>2, CenturyIs
    <3> HIDE DEF jb
    <3>2. jb \in Nat /\ jb >= 2300695
      <4>1. c \div 4 \in Nat /\ 4 * (c \div 4) <= c
        OBVIOUS
      <4> QED
        BY <2>2, <3>1, <4>1 DEF GregorianStart
    <3>3. Jc(jb) \in Nat
      BY <3>2, YearIs
    <3>4. Century(jb) = c + 4 /\ Truncated(c + 4, 4) = (c \div 4) + 1
      BY <3>1, <3>3 DEF Century, Truncated
    <3>5. GregorianDateToJulianDay(DateOf(jb)) = jb - 1524 - (c + 4) + 2 + ((c \div 4) + 1)
      BY <3>2, <3>4, EncodedIs, SwitchIs
    <3>6. jb - 1524 - (c + 4) + 2 + ((c \div 4) + 1) = julday
      BY <3>1
    <3> QED
      BY <3>2, <3>5, <3>6
  <2> QED
    BY <2>1, <2>2 DEF GregorianStart
<1> HIDE DEF jb
<1>3. Iy(jb) \in Int
  BY <1>2, YearIs DEF Iy
<1>4. DateOf(jb).year # 0
  BY <1>3 DEF DateOf, Date, SkippingYearZero
<1>5. DateOf(jb).month = Month(jb) /\ DateOf(jb).day = DayOfMonth(jb)
  BY DEF DateOf, Date
<1> QED
  BY <1>1, <1>2, <1>4, <1>5, MonthIs

-----------------------------------------------------------------------------
(* Clock-times.                                                            *)

\* What a double is off.
Small(e) == -Uncertainty <= e /\ e <= Uncertainty

LEMMA GrainIs == Grain \in Nat \ {0} /\ Uncertainty \in Nat /\ 2 * Uncertainty < Grain
  BY GrainAssumption

LEMMA ProductIs ==
  ASSUME NEW x \in Nat, NEW y \in Nat
  PROVE  /\ x * y \in Nat
         /\ x >= 1 => x * y >= y
  <1>1. x * y \in Nat
    OBVIOUS
  <1>2. ASSUME x >= 1 PROVE x * y >= y
    <2>1. (x - 1) * y \in Nat
      BY <1>2
    <2>2. x * y = (x - 1) * y + y
      OBVIOUS
    <2> QED
      BY <2>1, <2>2, <1>1
  <1> QED
    BY <1>1, <1>2

\* Whole seconds that are a little off, divided by whole seconds: the error stays with the
\* rest of a division that does not come out even, and the loop of decompose() goes on; and
\* when it comes out even, the value is near the multiple.
LEMMA RemainderIs ==
  ASSUME NEW t \in Nat, NEW b \in Nat \ {0}, NEW e \in Int, Small(e)
  PROVE  LET v == t * Grain + e
             B == Grain * b
         IN /\ t % b # 0 => /\ Abs(Remainder(v, B)) > Uncertainty
                            /\ v \div B = t \div b
                            /\ v % B = (t % b) * Grain + e
            /\ t % b = 0 => /\ Abs(Remainder(v, B)) <= Uncertainty
                            /\ (v + B \div 2) \div B = t \div b
<1> DEFINE v == t * Grain + e
           B == Grain * b
           q == t \div b
           r == t % b
<1>1. Grain \in Nat \ {0} /\ Uncertainty \in Nat /\ 2 * Uncertainty < Grain
  BY GrainIs
<1>2. q \in Int /\ r \in 0 .. b - 1 /\ t = b * q + r
  BY DivisionIs
<1>3. B \in Nat /\ B >= Grain
  BY <1>1, ProductIs
<1>4. v = B * q + (r * Grain + e)
  <2> HIDE DEF q, r
  <2>1. t * Grain = Grain * b * q + r * Grain
    BY <1>1, <1>2
  <2> QED
    BY <1>1, <1>2, <2>1
<1>5. e \in Int /\ -Uncertainty <= e /\ e <= Uncertainty
  BY DEF Small
<1> HIDE DEF v, B, q, r
<1>6. ASSUME r # 0
      PROVE  Abs(Remainder(v, B)) > Uncertainty /\ v \div B = q /\ v % B = r * Grain + e
  <2>1. r * Grain \in Nat /\ r * Grain >= Grain
    BY <1>1, <1>2, <1>6, ProductIs
  <2>2. B - r * Grain >= Grain
    <3>1. b - r \in Nat /\ b - r >= 1
      BY <1>2
    <3>2. (b - r) * Grain >= Grain
      BY <1>1, <3>1, ProductIs
    <3>3. (b - r) * Grain = B - r * Grain
      BY <1>1, <1>2 DEF B
    <3> QED
      BY <3>2, <3>3
  <2> DEFINE p == r * Grain
  <2> HIDE DEF p
  <2>3. p + e \in 0 .. B - 1
    BY <1>1, <1>3, <1>5, <2>1, <2>2 DEF p
  <2>4. v \div B = q /\ v % B = p + e
    <3> DEFINE s == p + e
    <3>1. s \in 0 .. B - 1 /\ q \in Int /\ B \in Nat \ {0} /\ v = B * q + s
      BY <1>1, <1>2, <1>3, <1>4, <2>3 DEF p
    <3> HIDE DEF s
    <3>2. v \div B = q /\ v % B = s
      BY <3>1, DivisionIsUnique
    <3> QED
      BY <3>2 DEF s
  <2>5. Abs(Remainder(v, B)) > Uncertainty
    <3> DEFINE s == p + e
    <3>1. s \in Int /\ s > Uncertainty /\ B - s > Uncertainty
      BY <1>1, <1>3, <1>5, <2>1, <2>2 DEF p
    <3>2. v % B = s
      BY <2>4
    <3> HIDE DEF s
    <3>3. Remainder(v, B) = IF 2 * s > B THEN s - B ELSE s
      BY <3>2 DEF Remainder
    <3>4. CASE 2 * s > B
      BY <1>1, <1>3, <3>1, <3>3, <3>4 DEF Abs
    <3>5. CASE ~ (2 * s > B)
      BY <1>1, <1>3, <3>1, <3>3, <3>5 DEF Abs
    <3> QED
      BY <3>4, <3>5
  <2> QED
    BY <2>4, <2>5 DEF p
<1>7. ASSUME r = 0
      PROVE  Abs(Remainder(v, B)) <= Uncertainty /\ (v + B \div 2) \div B = q
  <2>0. v = B * q + e
    <3>1. r * Grain = 0
      BY <1>1, <1>7
    <3>2. r * Grain + e = e
      BY <1>5, <3>1
    <3> QED
      BY <1>4, <3>2
  <2>1. v % B = IF e >= 0 THEN e ELSE B + e
    <3>1. CASE e >= 0
      <4>1. e \in 0 .. B - 1
        BY <1>1, <1>3, <1>5, <3>1
      <4> QED
        BY <1>1, <1>2, <1>3, <2>0, <3>1, <4>1, DivisionIsUnique
    <3>2. CASE e < 0
      <4>1. B + e \in 0 .. B - 1
        BY <1>1, <1>3, <1>5, <3>2
      <4>2. v = B * (q - 1) + (B + e)
        <5>1. B * (q - 1) = B * q - B
          BY <1>2, <1>3
        <5>2. B * q \in Int
          BY <1>2, <1>3
        <5> QED
          BY <1>3, <1>5, <2>0, <5>1, <5>2
      <4>3. q - 1 \in Int /\ B \in Nat \ {0}
        BY <1>1, <1>2, <1>3
      <4>4. v % B = B + e
        <5> DEFINE s == B + e
                   p == q - 1
        <5>1. s \in 0 .. B - 1 /\ p \in Int /\ B \in Nat \ {0} /\ v = B * p + s
          BY <4>1, <4>2, <4>3
        <5> HIDE DEF s, p
        <5>2. v % B = s
          BY <5>1, DivisionIsUnique
        <5> QED
          BY <5>2 DEF s
      <4> QED
        BY <1>5, <3>2, <4>4
    <3> QED
      BY <1>5, <3>1, <3>2
  <2>2. Abs(Remainder(v, B)) <= Uncertainty
    BY <1>1, <1>3, <1>5, <2>1 DEF Abs, Remainder
  <2>3. (v + B \div 2) \div B = q
    <3>1. B \div 2 \in Nat /\ 2 * (B \div 2) <= B /\ B <= 2 * (B \div 2) + 1
      BY <1>3
    <3>2. e + (B \div 2) \in 0 .. B - 1
      BY <1>1, <1>3, <1>5, <3>1
    <3>3. v + (B \div 2) = B * q + (e + (B \div 2))
      <4>1. B * q \in Int
        BY <1>2, <1>3
      <4> QED
        BY <1>5, <2>0, <3>1, <4>1
    <3>4. B \in Nat \ {0}
      BY <1>1, <1>3
    <3> DEFINE s == e + (B \div 2)
               w == v + (B \div 2)
    <3>5. s \in 0 .. B - 1 /\ w = B * q + s
      BY <3>2, <3>3
    <3> HIDE DEF s, w
    <3>6. w \div B = q
      BY <1>2, <3>4, <3>5, DivisionIsUnique
    <3> QED
      BY <3>6 DEF w
  <2> QED
    BY <2>2, <2>3
<1> QED
  BY <1>6, <1>7 DEF v, B, q, r

\* The basis in seconds, and what whole seconds leave for each of its elements.
BasisSeconds == <<86400, 43200, 3600, 600, 60, 10, 1>>

Rest(t) ==
  LET a == t % 86400
      b == a % 43200
      c == b % 3600
      d == c % 600
      e == d % 60
  IN <<t, a, b, c, d, e, e % 10>>

LEMMA RestIs ==
  ASSUME NEW t \in Nat
  PROVE  /\ Rest(t)[1] = t
         /\ \A i \in 1 .. 7 : Rest(t)[i] \in Nat /\ BasisSeconds[i] \in Nat \ {0}
         /\ \A i \in 1 .. 6 : Rest(t)[i + 1] = Rest(t)[i] % BasisSeconds[i]
<1> DEFINE a == t % 86400
           b == a % 43200
           c == b % 3600
           d == c % 600
           e == d % 60
           f == e % 10
<1>1. Rest(t) = <<t, a, b, c, d, e, f>>
  BY DEF Rest
<1>2. a \in Nat
  BY SMT
<1>3. b \in Nat
  BY <1>2, SMT
<1>4. c \in Nat
  BY <1>3, SMT
<1>5. d \in Nat
  BY <1>4, SMT
<1>6. e \in Nat
  BY <1>5, SMT
<1>7. f \in Nat
  BY <1>6, SMT
<1>8. /\ Rest(t)[1] = t /\ Rest(t)[2] = a /\ Rest(t)[3] = b /\ Rest(t)[4] = c
      /\ Rest(t)[5] = d /\ Rest(t)[6] = e /\ Rest(t)[7] = f
  <2> HIDE DEF a, b, c, d, e, f
  <2> QED
    BY <1>1
<1>9. /\ BasisSeconds[1] = 86400 /\ BasisSeconds[2] = 43200 /\ BasisSeconds[3] = 3600
      /\ BasisSeconds[4] = 600 /\ BasisSeconds[5] = 60 /\ BasisSeconds[6] = 10 /\ BasisSeconds[7] = 1
  BY SMT DEF BasisSeconds
<1>10. \A i \in 1 .. 7 : i = 1 \/ i = 2 \/ i = 3 \/ i = 4 \/ i = 5 \/ i = 6 \/ i = 7
  BY SMT
<1>11. \A i \in 1 .. 7 : Rest(t)[i] \in Nat /\ BasisSeconds[i] \in Nat \ {0}
  <2> HIDE DEF a, b, c, d, e, f
  <2> QED
    BY <1>2, <1>3, <1>4, <1>5, <1>6, <1>7, <1>8, <1>9, <1>10, SMT
<1>12. \A i \in 1 .. 6 : Rest(t)[i + 1] = Rest(t)[i] % BasisSeconds[i]
  <2>1. Rest(t)[2] = Rest(t)[1] % 86400 /\ Rest(t)[3] = Rest(t)[2] % 43200
    BY <1>8
  <2>2. Rest(t)[4] = Rest(t)[3] % 3600 /\ Rest(t)[5] = Rest(t)[4] % 600
    BY <1>8
  <2>3. Rest(t)[6] = Rest(t)[5] % 60 /\ Rest(t)[7] = Rest(t)[6] % 10
    BY <1>8
  <2> QED
    BY <1>9, <2>1, <2>2, <2>3, SMT
<1> QED
  BY <1>8, <1>11, <1>12

LEMMA LeftIs ==
  ASSUME NEW v
  PROVE  Left(v) = [i \in 1 .. 7 |-> IF i = 1 THEN v ELSE Left(v)[i - 1] % Basis[i - 1]]
<1> DEFINE a == v
           b == a % Basis[1]
           c == b % Basis[2]
           d == c % Basis[3]
           e == d % Basis[4]
           f == e % Basis[5]
           g == f % Basis[6]
           w == <<a, b, c, d, e, f, g>>
<1>1. w = [i \in 1 .. 7 |-> IF i = 1 THEN v ELSE w[i - 1] % Basis[i - 1]]
  <2> HIDE DEF b, c, d, e, f, g
  <2>1. \A i \in 1 .. 7 : w[i] = IF i = 1 THEN v ELSE w[i - 1] % Basis[i - 1]
    BY DEF b, c, d, e, f, g
  <2>2. w = [i \in 1 .. 7 |-> w[i]]
    OBVIOUS
  <2> QED
    BY <2>1, <2>2
<1> HIDE DEF w
<1>2. \E h : h = [i \in 1 .. 7 |-> IF i = 1 THEN v ELSE h[i - 1] % Basis[i - 1]]
  BY <1>1
<1> QED
  BY <1>2, Zenon DEF Left

Near(v) == { i \in 1 .. 7 : Abs(Remainder(Left(v)[i], Basis[i])) <= Uncertainty }

\* The loop is ahead of the whole seconds by the error until it stops, and when it
\* stops nothing of them is left.
LEMMA LoopIs ==
  ASSUME NEW t \in Nat, NEW e \in Int, Small(e)
  PROVE  LET v == t * Grain + e
         IN \A i \in 1 .. 7 :
              /\ (\E k \in Near(v) : k < i) => Rest(t)[i] = 0
              /\ ~ (\E k \in Near(v) : k < i) => Left(v)[i] = Rest(t)[i] * Grain + e
<1> DEFINE v == t * Grain + e
           P(i) == /\ (\E k \in Near(v) : k < i) => Rest(t)[i] = 0
                   /\ ~ (\E k \in Near(v) : k < i) => Left(v)[i] = Rest(t)[i] * Grain + e
<1>1. P(1)
  <2>1. Left(v)[1] = v
    BY LeftIs, SMT
  <2>2. \A k \in Near(v) : ~ (k < 1)
    BY SMT DEF Near
  <2>3. Rest(t)[1] = t
    BY RestIs
  <2> QED
    BY <2>1, <2>2, <2>3
<1>2. ASSUME NEW i \in 1 .. 6, P(i) PROVE P(i + 1)
  <2> DEFINE r == Rest(t)[i]
             b == BasisSeconds[i]
             l == Left(v)[i]
  <2>1. r \in Nat /\ b \in Nat \ {0} /\ Rest(t)[i + 1] = r % b
    BY RestIs, SMT
  <2>2. Basis[i] = Grain * b
    BY SMT DEF Basis, BasisSeconds
  <2>3. Left(v)[i + 1] = l % Basis[i]
    <3> HIDE DEF v
    <3>1. i + 1 \in 1 .. 7 /\ i + 1 # 1 /\ (i + 1) - 1 = i
      BY SMT
    <3> QED
      BY <3>1, LeftIs
  <2>4. i \in 1 .. 7 /\ \A k \in 1 .. 7 : k < i + 1 <=> k < i \/ k = i
    BY SMT
  <2>5. i \in Near(v) <=> Abs(Remainder(l, Basis[i])) <= Uncertainty
    BY <2>4 DEF Near
  <2>6. \A k \in Near(v) : k \in 1 .. 7
    BY DEF Near
  <2> HIDE DEF r, b
  <2>7. r % b # 0 => /\ Abs(Remainder(r * Grain + e, Grain * b)) > Uncertainty
                     /\ (r * Grain + e) % (Grain * b) = (r % b) * Grain + e
    BY <2>1, RemainderIs
  <2>8. (Abs(Remainder(r * Grain + e, Grain * b)) > Uncertainty)
           => ~ (Abs(Remainder(r * Grain + e, Grain * b)) <= Uncertainty)
    <3>0. Grain * b \in Nat \ {0} /\ r * Grain + e \in Int /\ Uncertainty \in Int
      <4>1. Grain \in Nat \ {0} /\ Uncertainty \in Nat
        BY GrainIs
      <4>2. Grain * b \in Nat \ {0} /\ r * Grain \in Nat
        BY <2>1, <4>1, ProductIs
      <4> QED
        BY <4>1, <4>2
    <3>1. (r * Grain + e) % (Grain * b) \in Int
      BY <3>0, DivisionIs
    <3> QED
      BY <3>0, <3>1 DEF Abs, Remainder
  <2> HIDE DEF v, l
  <2>9. CASE \E k \in Near(v) : k < i
    <3>1. r = 0
      BY <1>2, <2>9 DEF r
    <3>2. r % b = 0
      BY <2>1, <3>1
    <3>3. \E k \in Near(v) : k < i + 1
      BY <2>4, <2>6, <2>9
    <3> QED
      BY <2>1, <3>2, <3>3
  <2>10. CASE ~ (\E k \in Near(v) : k < i)
    <3>1. l = r * Grain + e
      BY <1>2, <2>10 DEF r, l
    <3>2. CASE i \in Near(v)
      <4>1. r % b = 0
        BY <2>2, <2>5, <2>7, <2>8, <3>1, <3>2
      <4>2. \E k \in Near(v) : k < i + 1
        BY <2>4, <3>2
      <4> QED
        BY <2>1, <4>1, <4>2
    <3>3. CASE i \notin Near(v)
      <4>1. ~ (\E k \in Near(v) : k < i + 1)
        BY <2>4, <2>6, <2>10, <3>3
      <4>2. r % b # 0
        BY <2>1, <2>2, <2>5, <3>1, <3>3, RemainderIs
      <4>3. Left(v)[i + 1] = (r % b) * Grain + e
        BY <2>2, <2>3, <2>7, <3>1, <4>2
      <4> QED
        BY <2>1, <4>1, <4>3
    <3> QED
      BY <3>2, <3>3
  <2> QED
    BY <2>9, <2>10
<1> HIDE DEF P
<1>3. P(2)
  BY <1>1, <1>2
<1>4. P(3)
  BY <1>2, <1>3
<1>5. P(4)
  BY <1>2, <1>4
<1>6. P(5)
  BY <1>2, <1>5
<1>7. P(6)
  BY <1>2, <1>6
<1>8. P(7)
  BY <1>2, <1>7
<1>9. \A i \in 1 .. 7 : P(i)
  BY <1>1, <1>3, <1>4, <1>5, <1>6, <1>7, <1>8, SMT
<1> QED
  BY <1>9 DEF P

\* decompose() counts what whole seconds hold of each element of the basis, and the
\* error is gone.
LEMMA DecomposeIs ==
  ASSUME NEW t \in Nat, NEW e \in Int, Small(e)
  PROVE  LET counts == Decompose(t * Grain + e)
         IN /\ \A i \in 1 .. 6 : counts[i] = Rest(t)[i] \div BasisSeconds[i]
            /\ counts[7] = Rest(t)[7] * Grain
<1> DEFINE v == t * Grain + e
           nearest(i) == (Left(v)[i] + Basis[i] \div 2) \div Basis[i]
           counts == Decompose(v)
<1>1. counts = [ i \in 1 .. 7 |->
         IF \E k \in Near(v) : k < i THEN 0
         ELSE IF i = 7 THEN IF i \in Near(v) THEN nearest(i) * Basis[i] ELSE Left(v)[i]
         ELSE IF i \in Near(v) THEN nearest(i)
         ELSE Left(v)[i] \div Basis[i] ]
  BY DEF Decompose, Near
<1>2. \A i \in 1 .. 7 :
        /\ (\E k \in Near(v) : k < i) => Rest(t)[i] = 0
        /\ ~ (\E k \in Near(v) : k < i) => Left(v)[i] = Rest(t)[i] * Grain + e
  BY LoopIs
<1>3. \A i \in 1 .. 7 : /\ Rest(t)[i] \in Nat /\ BasisSeconds[i] \in Nat \ {0}
                        /\ Basis[i] = Grain * BasisSeconds[i]
  <2>1. \A i \in 1 .. 7 : Basis[i] = Grain * BasisSeconds[i]
    BY SMT DEF Basis, BasisSeconds
  <2> QED
    BY <2>1, RestIs
<1>4. \A i \in 1 .. 7 : i \in Near(v) <=> Abs(Remainder(Left(v)[i], Basis[i])) <= Uncertainty
  BY DEF Near
<1>5. Grain \in Nat
  BY GrainIs
<1> HIDE DEF v, counts
<1>6. ASSUME NEW i \in 1 .. 7, ~ (\E k \in Near(v) : k < i)
      PROVE  /\ i \in Near(v) => nearest(i) = Rest(t)[i] \div BasisSeconds[i]
             /\ i \notin Near(v) => Left(v)[i] \div Basis[i] = Rest(t)[i] \div BasisSeconds[i]
             /\ BasisSeconds[i] = 1 => i \in Near(v)
  <2> DEFINE r == Rest(t)[i]
             b == BasisSeconds[i]
  <2>1. r \in Nat /\ b \in Nat \ {0} /\ Basis[i] = Grain * b /\ Left(v)[i] = r * Grain + e
    BY <1>2, <1>3, <1>6
  <2>2. i \in Near(v) <=> Abs(Remainder(r * Grain + e, Grain * b)) <= Uncertainty
    BY <1>4, <2>1
  <2> HIDE DEF r, b
  <2>3. (Abs(Remainder(r * Grain + e, Grain * b)) > Uncertainty)
           => ~ (Abs(Remainder(r * Grain + e, Grain * b)) <= Uncertainty)
    <3>0. Grain * b \in Nat \ {0} /\ r * Grain + e \in Int /\ Uncertainty \in Int
      <4>1. Grain \in Nat \ {0} /\ Uncertainty \in Nat
        BY GrainIs
      <4>2. Grain * b \in Nat \ {0} /\ r * Grain \in Nat
        BY <2>1, <4>1, ProductIs
      <4> QED
        BY <4>1, <4>2
    <3>1. (r * Grain + e) % (Grain * b) \in Int
      BY <3>0, DivisionIs
    <3> QED
      BY <3>0, <3>1 DEF Abs, Remainder
  <2>4. i \in Near(v) <=> r % b = 0
    BY <2>1, <2>2, <2>3, RemainderIs
  <2>5. i \in Near(v) => nearest(i) = r \div b
    BY <2>1, <2>4, RemainderIs
  <2>6. i \notin Near(v) => Left(v)[i] \div Basis[i] = r \div b
    BY <2>1, <2>4, RemainderIs
  <2>7. b = 1 => r % b = 0
    BY <2>1
  <2> QED
    BY <2>4, <2>5, <2>6, <2>7 DEF r, b
<1> HIDE DEF nearest
<1>7. \A i \in 1 .. 6 : counts[i] = Rest(t)[i] \div BasisSeconds[i]
  <2> TAKE i \in 1 .. 6
  <2>1. i \in 1 .. 7 /\ i # 7
    OBVIOUS
  <2>2. CASE \E k \in Near(v) : k < i
    <3>1. counts[i] = 0 /\ Rest(t)[i] = 0
      BY <1>1, <1>2, <2>1, <2>2
    <3>2. 0 \div BasisSeconds[i] = 0
      BY <1>3, <2>1
    <3> QED
      BY <3>1, <3>2
  <2>3. CASE ~ (\E k \in Near(v) : k < i)
    BY <1>1, <1>6, <2>1, <2>3
  <2> QED
    BY <2>2, <2>3
<1>8. counts[7] = Rest(t)[7] * Grain
  <2>1. 7 \in 1 .. 7 /\ BasisSeconds[7] = 1
    BY SMT DEF BasisSeconds
  <2>2. CASE \E k \in Near(v) : k < 7
    <3>1. counts[7] = 0 /\ Rest(t)[7] = 0
      BY <1>1, <1>2, <2>1, <2>2
    <3> QED
      BY <1>5, <3>1
  <2>3. CASE ~ (\E k \in Near(v) : k < 7)
    <3>1. 7 \in Near(v) /\ nearest(7) = Rest(t)[7] \div 1
      BY <1>6, <2>1, <2>3
    <3>2. counts[7] = nearest(7) * Basis[7]
      BY <1>1, <2>1, <2>3, <3>1
    <3>3. Rest(t)[7] \in Nat /\ Basis[7] = Grain * 1
      BY <1>3, <2>1
    <3>4. Rest(t)[7] \div 1 = Rest(t)[7] /\ Grain * 1 = Grain
      BY <1>5, <3>3
    <3> QED
      BY <3>1, <3>2, <3>3, <3>4
  <2> QED
    BY <2>2, <2>3
<1> QED
  BY <1>7, <1>8 DEF counts, v

\* ut_decode_time()'s hours, minutes and seconds are those of a number of seconds.
ClockOf(s, m, h, seconds) ==
  \E second \in 0 .. 59 :
     /\ s = second * Grain
     /\ m \in 0 .. 59 /\ h \in 0 .. 23
     /\ (h * 60 + m) * 60 + second = seconds

LEMMA ClockIs ==
  ASSUME NEW t \in Nat, t <= 86400, NEW e \in Int, Small(e)
  PROVE  LET counts == Decompose(t * Grain + e)
         IN /\ counts[1] = t \div 86400
            /\ ClockOf(10 * Grain * counts[6] + counts[7], 10 * counts[4] + counts[5],
                       12 * counts[2] + counts[3], t % 86400)
<1> DEFINE counts == Decompose(t * Grain + e)
           a == t % 86400
           b == a % 43200
           c == b % 3600
           d == c % 600
           f == d % 60
           g == f % 10
           p2 == a \div 43200
           p3 == b \div 3600
           p4 == c \div 600
           p5 == d \div 60
           p6 == f \div 10
<1>1. t \in Nat
  OBVIOUS
<1>2. /\ \A i \in 1 .. 6 : counts[i] = Rest(t)[i] \div BasisSeconds[i]
      /\ counts[7] = Rest(t)[7] * Grain
  BY <1>1, DecomposeIs, SMT
<1>3. /\ counts[1] = t \div 86400 /\ counts[2] = p2 /\ counts[3] = p3
      /\ counts[4] = p4 /\ counts[5] = p5 /\ counts[6] = p6
      /\ counts[7] = g * Grain
  <2>1. Rest(t) = <<t, a, b, c, d, f, g>>
    BY DEF Rest
  <2> HIDE DEF counts, a, b, c, d, f, g
  <2>2. /\ Rest(t)[1] = t /\ Rest(t)[2] = a /\ Rest(t)[3] = b /\ Rest(t)[4] = c
        /\ Rest(t)[5] = d /\ Rest(t)[6] = f /\ Rest(t)[7] = g
    BY <2>1
  <2>3. /\ BasisSeconds[1] = 86400 /\ BasisSeconds[2] = 43200 /\ BasisSeconds[3] = 3600
        /\ BasisSeconds[4] = 600 /\ BasisSeconds[5] = 60 /\ BasisSeconds[6] = 10
    BY SMT DEF BasisSeconds
  <2>4. /\ 1 \in 1 .. 6 /\ 2 \in 1 .. 6 /\ 3 \in 1 .. 6 /\ 4 \in 1 .. 6 /\ 5 \in 1 .. 6 /\ 6 \in 1 .. 6
    BY SMT
  <2> QED
    BY <1>2, <2>2, <2>3, <2>4, SMT
<1> HIDE DEF counts
<1>4. a \in Nat /\ a < 86400
  BY <1>1, SMT
<1> HIDE DEF a, b, c, d, f, g, p2, p3, p4, p5, p6
<1>5. b \in Nat /\ b < 43200 /\ p2 \in 0 .. 1 /\ a = 43200 * p2 + b
  <2>1. a \in Nat /\ a < 86400
    BY <1>4, SMT
  <2>2. p2 \in Int /\ b \in Int /\ 0 <= b /\ b < 43200 /\ a = 43200 * p2 + b
    BY <2>1, SMT DEF b, p2
  <2> QED
    BY <2>1, <2>2, SMT
<1>6. c \in Nat /\ c < 3600 /\ p3 \in 0 .. 11 /\ b = 3600 * p3 + c
  <2>1. b \in Nat /\ b < 43200
    BY <1>5, SMT
  <2>2. p3 \in Int /\ c \in Int /\ 0 <= c /\ c < 3600 /\ b = 3600 * p3 + c
    BY <2>1, SMT DEF c, p3
  <2> QED
    BY <2>1, <2>2, SMT
<1>7. d \in Nat /\ d < 600 /\ p4 \in 0 .. 5 /\ c = 600 * p4 + d
  <2>1. c \in Nat /\ c < 3600
    BY <1>6, SMT
  <2>2. p4 \in Int /\ d \in Int /\ 0 <= d /\ d < 600 /\ c = 600 * p4 + d
    BY <2>1, SMT DEF d, p4
  <2> QED
    BY <2>1, <2>2, SMT
<1>8. f \in Nat /\ f < 60 /\ p5 \in 0 .. 9 /\ d = 60 * p5 + f
  <2>1. d \in Nat /\ d < 600
    BY <1>7, SMT
  <2>2. p5 \in Int /\ f \in Int /\ 0 <= f /\ f < 60 /\ d = 60 * p5 + f
    BY <2>1, SMT DEF f, p5
  <2> QED
    BY <2>1, <2>2, SMT
<1>9. g \in Nat /\ g < 10 /\ p6 \in 0 .. 5 /\ f = 10 * p6 + g
  <2>1. f \in Nat /\ f < 60
    BY <1>8, SMT
  <2>2. p6 \in Int /\ g \in Int /\ 0 <= g /\ g < 10 /\ f = 10 * p6 + g
    BY <2>1, SMT DEF g, p6
  <2> QED
    BY <2>1, <2>2, SMT
<1> DEFINE s == 10 * Grain * counts[6] + counts[7]
           m == 10 * counts[4] + counts[5]
           h == 12 * counts[2] + counts[3]
<1>10. s = f * Grain
  <2>1. s = 10 * Grain * p6 + g * Grain
    BY <1>3
  <2>2. p6 \in Int /\ g \in Int /\ f = 10 * p6 + g
    BY <1>9, SMT
  <2> HIDE DEF s
  <2>3. 10 * Grain * p6 + g * Grain = (10 * p6 + g) * Grain
    BY <2>2, GrainIs, SMT
  <2> QED
    BY <2>1, <2>2, <2>3
<1>11. m \in 0 .. 59 /\ h \in 0 .. 23 /\ (h * 60 + m) * 60 + f = a
  <2>1. m = 10 * p4 + p5 /\ h = 12 * p2 + p3
    BY <1>3
  <2>2. b \in Int /\ c \in Int /\ d \in Int /\ f \in Int
    BY <1>5, <1>6, <1>7, <1>8, SMT
  <2> HIDE DEF m, h
  <2> QED
    BY <1>5, <1>6, <1>7, <1>8, <2>1, <2>2, SMT
<1> HIDE DEF s, m, h
<1>12. f \in 0 .. 59
  BY <1>8, SMT
<1>13. ClockOf(s, m, h, a)
  BY <1>10, <1>11, <1>12 DEF ClockOf
<1> QED
  BY <1>3, <1>13 DEF counts, a, s, m, h

\* ut_decode_time() decodes a second of a day although its double is off.
DecodedIsRight(days, second, e) ==
  LET decoded == DecodeTime(days, second * Grain + e)
  IN /\ decoded.date = JulianDayToGregorianDate(JuldayOrigin + days)
     /\ decoded.clock.hour \in 0 .. 23 /\ decoded.clock.minute \in 0 .. 59
     /\ decoded.clock.second \in 0 .. 60 * Grain - 1
     /\ EncodeClock(decoded.clock) = second * Grain

LEMMA DecodedTimeIs ==
  ASSUME NEW days \in Int, NEW second \in Nat, second < 86400, NEW e \in Int, Small(e)
  PROVE  DecodedIsRight(days, second, e)
<1> DEFINE ticks == second * Grain + e
           t == IF second = 0 /\ e < 0 THEN 86400 ELSE second
           decoded == DecodeTime(days, ticks)
<1>1. /\ ticks % Day = t * Grain + e
      /\ ticks \div Day = IF t = 86400 THEN -1 ELSE 0
  <2>1. Day = 86400 * Grain /\ Day \in Nat \ {0}
    BY GrainIs, SMT DEF Day
  <2>2. second * Grain \in Nat /\ (86399 - second) * Grain \in Nat
        /\ (86399 - second) * Grain = 86399 * Grain - second * Grain
    BY GrainIs, SMT
  <2>3. second # 0 => second * Grain >= Grain
    BY GrainIs, ProductIs, SMT
  <2>4. Small(e) <=> -Uncertainty <= e /\ e <= Uncertainty
    BY DEF Small
  <2>5. CASE second = 0 /\ e < 0
    <3>1. second * Grain = 0
      BY <2>5, GrainIs, SMT
    <3>2. ticks = Day * (-1) + (Day + e) /\ Day + e \in 0 .. Day - 1
      BY <2>1, <2>4, <2>5, <3>1, GrainIs, SMT
    <3> DEFINE p == Day + e
    <3>3. p \in 0 .. Day - 1 /\ ticks = Day * (-1) + p /\ -1 \in Int
      BY <3>2, SMT
    <3> HIDE DEF p, ticks
    <3>4. ticks \div Day = -1 /\ ticks % Day = p
      BY <2>1, <3>3, DivisionIsUnique, SMT
    <3>5. t = 86400
      BY <2>5
    <3> QED
      BY <2>1, <3>4, <3>5, SMT DEF p
  <2>6. CASE ~ (second = 0 /\ e < 0)
    <3>1. t = second /\ second # 86400
      BY <2>6, SMT
    <3>2. ticks \in 0 .. Day - 1
      <4>1. CASE second = 0
        <5>1. second * Grain = 0
          BY <4>1, GrainIs, SMT
        <5> QED
          BY <2>1, <2>4, <2>6, <4>1, <5>1, GrainIs, SMT
      <4>2. CASE second # 0
        BY <2>1, <2>2, <2>3, <2>4, <4>2, GrainIs, SMT
      <4> QED
        BY <4>1, <4>2
    <3> HIDE DEF ticks
    <3>3. ticks = Day * 0 + ticks /\ 0 \in Int
      BY <2>1, <3>2, SMT
    <3>4. ticks \div Day = 0 /\ ticks % Day = ticks
      BY <2>1, <3>2, <3>3, DivisionIsUnique, SMT
    <3> QED
      BY <3>1, <3>4, SMT DEF ticks
  <2> QED
    BY <2>5, <2>6
<1>2. t \in Nat /\ t <= 86400
  BY SMT
<1>3. second = IF t = 86400 THEN 0 ELSE t
  BY SMT
<1> DEFINE next == t \div 86400
           rest == t % 86400
<1>0. /\ next = (IF t = 86400 THEN 1 ELSE 0)
      /\ rest = second
  BY <1>2, <1>3, SMT
<1> HIDE DEF t, next, rest, ticks, decoded
<1>c. PICK counts : counts = Decompose(ticks % Day)
  OBVIOUS
<1>s. PICK s : s = 10 * Grain * counts[6] + counts[7]
  OBVIOUS
<1>p. PICK m1 : m1 = 10 * counts[4] + counts[5]
  OBVIOUS
<1>q. PICK h1 : h1 = 12 * counts[2] + counts[3]
  OBVIOUS
<1>m. PICK m : m = m1 + Carry(s, 60 * Grain)
  OBVIOUS
<1>h. PICK h : h = h1 + Carry(m, 60)
  OBVIOUS
<1>d. PICK d : d = days + ticks \div Day + counts[1] + Carry(h, 24)
  OBVIOUS
<1>4. counts[1] = next /\ ClockOf(s, m1, h1, rest)
  <2>1. counts = Decompose(t * Grain + e)
    BY <1>1, <1>c
  <2> QED
    BY <1>2, <1>s, <1>p, <1>q, <2>1, ClockIs DEF next, rest
<1>5. decoded = [ date |-> JulianDayToGregorianDate(JuldayOrigin + d),
                  clock |-> Clock(WithoutCarry(h, 24), WithoutCarry(m, 60), WithoutCarry(s, 60 * Grain)) ]
  BY <1>c, <1>s, <1>p, <1>q, <1>m, <1>h, <1>d DEF DecodeTime, decoded
<1>14. PICK sec \in 0 .. 59 :
         /\ s = sec * Grain
         /\ m1 \in 0 .. 59 /\ h1 \in 0 .. 23
         /\ (h1 * 60 + m1) * 60 + sec = rest
  BY <1>4 DEF ClockOf
<1>6. s \in 0 .. 60 * Grain - 1
  <2>1. sec * Grain \in Nat /\ (59 - sec) * Grain \in Nat
        /\ (59 - sec) * Grain = 59 * Grain - sec * Grain
    BY GrainIs, SMT
  <2> QED
    BY <1>14, <2>1, GrainIs, SMT
<1>7. s \in Int /\ Carry(s, 60 * Grain) = 0 /\ WithoutCarry(s, 60 * Grain) = s
  BY <1>6, GrainIs, SMT DEF Carry, WithoutCarry
<1>8. m = m1 /\ Carry(m, 60) = 0 /\ WithoutCarry(m, 60) = m
  BY <1>14, <1>m, <1>7, SMT DEF Carry, WithoutCarry
<1>9. h = h1 /\ Carry(h, 24) = 0 /\ WithoutCarry(h, 24) = h
  BY <1>14, <1>h, <1>8, SMT DEF Carry, WithoutCarry
<1>10. d = days
  <2> DEFINE n == ticks \div Day
  <2>1. n = (IF t = 86400 THEN -1 ELSE 0) /\ counts[1] = (IF t = 86400 THEN 1 ELSE 0)
    BY <1>0, <1>1, <1>4
  <2> HIDE DEF n
  <2>2. d = days + n + counts[1] + 0
    BY <1>d, <1>9 DEF n
  <2>3. CASE t = 86400
    BY <2>1, <2>2, <2>3, SMT
  <2>4. CASE t # 86400
    BY <2>1, <2>2, <2>4, SMT
  <2> QED
    BY <2>3, <2>4
<1>11. decoded = [date |-> JulianDayToGregorianDate(JuldayOrigin + days), clock |-> Clock(h1, m1, s)]
  BY <1>5, <1>7, <1>8, <1>9, <1>10
<1>12. /\ decoded.date = JulianDayToGregorianDate(JuldayOrigin + days)
       /\ decoded.clock.hour = h1 /\ decoded.clock.minute = m1 /\ decoded.clock.second = s
  BY <1>11 DEF Clock
<1>13. EncodeClock(decoded.clock) = second * Grain
  <2>1. EncodeClock(decoded.clock) = (h1 * 60 + m1) * 60 * Grain + sec * Grain
    BY <1>14, <1>12 DEF EncodeClock
  <2> DEFINE n == (h1 * 60 + m1) * 60
  <2>2. n \in Int /\ n + sec = second
    <3>1. n \in Int
      BY <1>14
    <3>2. n + sec = rest
      BY <1>14
    <3> QED
      BY <1>0, <3>1, <3>2
  <2>3. EncodeClock(decoded.clock) = n * Grain + sec * Grain
    BY <2>1
  <2> HIDE DEF n
  <2>4. n * Grain + sec * Grain = (n + sec) * Grain
    BY <2>2, GrainIs, SMT
  <2> QED
    BY <2>2, <2>3, <2>4
<1> QED
  BY <1>14, <1>6, <1>12, <1>13 DEF decoded, ticks, DecodedIsRight

-----------------------------------------------------------------------------
(* The times the client asks about.                                        *)

\* Of every time, the date and clock are those of a time that is a little off.
AskedAndAnswered ==
  /\ asked.julday \in Nat /\ asked.second \in Nat /\ asked.second < 86400
  /\ \E e \in Int :
       /\ Small(e)
       /\ LET decoded == DecodeTime(asked.julday - JuldayOrigin, asked.second * Grain + e)
          IN date = decoded.date /\ clock = decoded.clock

LEMMA OriginIs == JuldayOrigin \in Int
<1>1. Truncated(306001 * 14, 10000) \in Int /\ Truncated(2000, 100) \in Int
  BY SMT DEF Truncated
<1>2. Truncated(Truncated(2000, 100), 4) \in Int
  BY SMT DEF Truncated
<1>3. 2000 \div 4 \in Int
  BY SMT
<1> DEFINE d == Date(2001, 1, 1)
<1>4. d.year = 2001 /\ d.month = 1 /\ d.day = 1
  BY SMT DEF Date
<1> HIDE DEF d
<1>5. GregorianDateToJulianDay(d) \in Int
  BY <1>1, <1>2, <1>3, <1>4, SMT DEF GregorianDateToJulianDay
<1> QED
  BY <1>5 DEF JuldayOrigin, d

LEMMA AnswerEncodesBack ==
  ASSUME AskedAndAnswered
  PROVE  DecodedEncodesBack
<1>1. asked.julday \in Nat /\ asked.second \in Nat /\ asked.second < 86400
  BY DEF AskedAndAnswered
<1>2. PICK e \in Int :
        /\ Small(e)
        /\ date = DecodeTime(asked.julday - JuldayOrigin, asked.second * Grain + e).date
        /\ clock = DecodeTime(asked.julday - JuldayOrigin, asked.second * Grain + e).clock
  BY DEF AskedAndAnswered
<1>3. asked.julday - JuldayOrigin \in Int /\ JuldayOrigin + (asked.julday - JuldayOrigin) = asked.julday
  BY <1>1, OriginIs, SMT
<1>4. /\ date = JulianDayToGregorianDate(asked.julday)
      /\ clock.hour \in 0 .. 23 /\ clock.minute \in 0 .. 59
      /\ clock.second \in 0 .. 60 * Grain - 1
      /\ EncodeClock(clock) = asked.second * Grain
  <2> DEFINE days == asked.julday - JuldayOrigin
             second == asked.second
  <2>1. days \in Int /\ second \in Nat /\ second < 86400
    BY <1>1, <1>3
  <2> HIDE DEF days, second
  <2>2. /\ date = DecodeTime(days, second * Grain + e).date
        /\ clock = DecodeTime(days, second * Grain + e).clock
    BY <1>2 DEF days, second
  <2>3. /\ date = JulianDayToGregorianDate(JuldayOrigin + days)
        /\ clock.hour \in 0 .. 23 /\ clock.minute \in 0 .. 59
        /\ clock.second \in 0 .. 60 * Grain - 1
        /\ EncodeClock(clock) = second * Grain
    <3>1. DecodedIsRight(days, second, e)
      BY <1>2, <2>1, DecodedTimeIs
    <3>2. /\ date = DecodeTime(days, second * Grain + e).date
          /\ clock = DecodeTime(days, second * Grain + e).clock
      BY <2>2
    <3> QED
      BY <3>1, <3>2 DEF DecodedIsRight
  <2> QED
    BY <1>3, <2>3 DEF days, second
<1>5. /\ GregorianDateToJulianDay(date) = asked.julday
      /\ date.year # 0 /\ date.month \in 1 .. 12 /\ date.day \in 1 .. 31
  BY <1>1, <1>4, DateEncodesBack
<1> QED
  BY <1>4, <1>5 DEF DecodedEncodesBack, ProperTime, EncodeDate

LEMMA ClientIs ==
  /\ \A second \in Seconds : second \in Nat /\ second < 86400
  /\ \A n \in Spans : n \in Nat
<1>1. \A n \in Spans : n \in Nat
  BY ClientAssumption
<1>2. \A second \in Seconds : second \in Nat /\ second < 86400
  BY SecondsAssumption
<1> QED
  BY <1>1, <1>2

LEMMA AskIsAnswered ==
  ASSUME NEW julday \in Nat, NEW second \in Nat, second < 86400, Ask(julday, second)
  PROVE  AskedAndAnswered'
<1>1. asked' = [julday |-> julday, second |-> second]
  BY DEF Ask
<1>2. PICK e \in -Uncertainty .. Uncertainty :
        /\ date' = DecodeTime(julday - JuldayOrigin, second * Grain + e).date
        /\ clock' = DecodeTime(julday - JuldayOrigin, second * Grain + e).clock
  BY DEF Ask
<1>3. e \in Int /\ Small(e)
  BY GrainIs, SMT DEF Small
<1>4. asked'.julday = julday /\ asked'.second = second
  BY <1>1
<1> QED
  BY <1>2, <1>3, <1>4 DEF AskedAndAnswered

LEMMA AlwaysAnswered == CalendarSpec => []AskedAndAnswered
<1>1. CalendarInit => AskedAndAnswered
  <2> SUFFICES ASSUME CalendarInit PROVE AskedAndAnswered
    OBVIOUS
  <2>1. asked.julday = 0 /\ asked.second = 0
    BY DEF CalendarInit
  <2>2. 0 \in Int /\ Small(0)
    BY GrainIs, SMT DEF Small
  <2>3. asked.julday - JuldayOrigin = -JuldayOrigin /\ asked.second * Grain + 0 = 0
    BY <2>1, OriginIs, GrainIs, SMT
  <2>4. /\ date = DecodeTime(asked.julday - JuldayOrigin, asked.second * Grain + 0).date
        /\ clock = DecodeTime(asked.julday - JuldayOrigin, asked.second * Grain + 0).clock
    BY <2>3 DEF CalendarInit
  <2>5. asked.julday \in Nat /\ asked.second \in Nat /\ asked.second < 86400
    BY <2>1, SMT
  <2> QED
    BY <2>2, <2>4, <2>5 DEF AskedAndAnswered
<1>2. AskedAndAnswered /\ [CalendarNext]_calendarVars => AskedAndAnswered'
  <2> SUFFICES ASSUME AskedAndAnswered, [CalendarNext]_calendarVars PROVE AskedAndAnswered'
    OBVIOUS
  <2>0. asked.julday \in Nat
    BY DEF AskedAndAnswered
  <2>1. 0 \in Nat /\ 0 < 86400
    BY SMT
  <2>2. CASE AskNextDay
    <3>1. asked.julday + 1 \in Nat
      BY <2>0, SMT
    <3> QED
      BY <2>1, <2>2, <3>1, AskIsAnswered DEF AskNextDay
  <2>3. CASE AskSecond
    <3>1. PICK second \in Seconds : Ask(asked.julday, second)
      BY <2>3 DEF AskSecond
    <3>2. second \in Nat /\ second < 86400
      BY ClientIs
    <3> QED
      BY <2>0, <3>1, <3>2, AskIsAnswered
  <2>4. ASSUME NEW n \in Spans, AskYearsLater(n) PROVE AskedAndAnswered'
    <3>0. n \in Nat
      BY ClientIs
    <3>1. \/ Ask(asked.julday + 1461 * (n \div 4), 0)
          \/ Ask(asked.julday + 146097 * (n \div 400), 0)
      BY <2>4 DEF AskYearsLater
    <3>2. asked.julday + 1461 * (n \div 4) \in Nat /\ asked.julday + 146097 * (n \div 400) \in Nat
      BY <2>0, <3>0, SMT
    <3> QED
      BY <2>1, <3>1, <3>2, AskIsAnswered
  <2>5. CASE UNCHANGED calendarVars
    <3>1. asked' = asked /\ date' = date /\ clock' = clock
      BY <2>5 DEF calendarVars
    <3> QED
      BY <3>1 DEF AskedAndAnswered
  <2> QED
    BY <2>2, <2>3, <2>4, <2>5 DEF CalendarNext
<1> QED
  BY <1>1, <1>2, PTL DEF CalendarSpec

\* For every day from the origin of the day numbers on, every second of it, every grain
\* of the doubles and every error below half a second, what ut_decode_time() gives is a
\* proper date and clock-time that ut_encode_time() takes for that second again.
THEOREM TimesEncodeBack == CalendarSpec => []DecodedEncodesBack
<1>1. AskedAndAnswered => DecodedEncodesBack
  BY AnswerEncodesBack
<1> QED
  BY <1>1, AlwaysAnswered, PTL

-----------------------------------------------------------------------------
(* The calendar from day to day.                                           *)

\* What julianDayToGregorianDate() makes of a year that begins in March and of a day of it.
JeOf(k) == Truncated(10000 * k, 306001)
Before(je) == Truncated(306001 * je, 10000)
MonthOf(je) == IF je - 1 > 12 THEN je - 13 ELSE je - 1
IyOf(jc, m) == IF m > 2 THEN jc - 4716 ELSE jc - 4715

DayIn(jc, k) ==
  Date(SkippingYearZero(IyOf(jc, MonthOf(JeOf(k)))), MonthOf(JeOf(k)), k - Before(JeOf(k)))

LEMMA DateOfIs ==
  ASSUME NEW jb
  PROVE  DateOf(jb) = DayIn(Jc(jb), DayOfYear(jb))
  BY DEF DateOf, DayIn, Iy, IyOf, Month, MonthOf, DayOfMonth, Je, JeOf, Before

\* A year has 365 days, or 366 if the next one is a leap year of the Julian calendar.
LastOf(jc, k) == k < 488 \/ (k = 488 /\ jc % 4 = 3)

LEMMA YearEnds ==
  ASSUME NEW jb \in Nat, jb >= 1524
  PROVE  LastOf(Jc(jb), DayOfYear(jb))
<1> DEFINE jc == Jc(jb)
           q == jc \div 4
           r == jc % 4
           k == DayOfYear(jb)
<1>1. jc \in Nat /\ 100 * jb - 12210 < 36525 * jc + 36525
  BY YearIs
<1> HIDE DEF jc
<1>2. q \in Nat /\ r \in 0 .. 3 /\ jc = 4 * q + r
  BY <1>1
<1>3. k = jb - (365 * jc + q) /\ k \in Int
  BY <1>1, <1>2, YearIs DEF DayOfYear, jc
<1> HIDE DEF q, r, k
<1>4. k < 488 \/ (k = 488 /\ r = 3)
  BY <1>1, <1>2, <1>3
<1> QED
  BY <1>4 DEF LastOf, jc, r, k

LEMMA YearIsUnique ==
  ASSUME NEW jb \in Nat, jb >= 1524, NEW jc \in Nat, NEW k \in Nat, k >= 123,
         LastOf(jc, k), jb = 365 * jc + (jc \div 4) + k
  PROVE  Jc(jb) = jc /\ DayOfYear(jb) = k
<1> DEFINE q == jc \div 4
           r == jc % 4
           n == 100 * jb - 12210
           rest == n - 36525 * jc
<1>1. q \in Nat /\ r \in 0 .. 3 /\ jc = 4 * q + r
  OBVIOUS
<1>2. k < 488 \/ (k = 488 /\ r = 3)
  BY DEF LastOf
<1>3. jb = 365 * jc + q + k
  OBVIOUS
<1> HIDE DEF q, r
<1>4. rest \in Int /\ 0 <= rest /\ rest < 36525
  BY <1>1, <1>2, <1>3
<1>5. n \in Nat /\ n = 36525 * jc + rest
  BY <1>1, <1>4
<1> HIDE DEF n, rest
<1>6. n \div 36525 = jc
  BY <1>4, <1>5
<1>7. Jc(jb) = jc
  BY <1>5, <1>6 DEF Jc, Truncated, n
<1>8. DayOfYear(jb) = jb - (365 * jc + q)
  <2>1. Jd(jb) = 365 * Jc(jb) + (Jc(jb) \div 4)
    BY YearIs
  <2> QED
    BY <1>7, <2>1 DEF DayOfYear, q
<1> QED
  BY <1>1, <1>3, <1>7, <1>8

LEMMA MonthsBegin ==
  /\ Before(4) = 122 /\ Before(5) = 153 /\ Before(6) = 183 /\ Before(7) = 214
  /\ Before(8) = 244 /\ Before(9) = 275 /\ Before(10) = 306 /\ Before(11) = 336
  /\ Before(12) = 367 /\ Before(13) = 397 /\ Before(14) = 428 /\ Before(15) = 459
  /\ Before(16) = 489
  BY SMT DEF Before, Truncated

LEMMA MonthOfDay ==
  ASSUME NEW k \in Nat, 123 <= k, k <= 488
  PROVE  JeOf(k) \in 4 .. 15 /\ Before(JeOf(k)) < k /\ k <= Before(JeOf(k) + 1)
<1> DEFINE je == JeOf(k)
<1>1. je = (10000 * k) \div 306001
  BY DEF JeOf, Truncated
<1>2. je \in 4 .. 15 /\ 306001 * je <= 10000 * k /\ 10000 * k < 306001 * je + 306001
  BY <1>1, SMT
<1> HIDE DEF je
<1>3. Before(je) < k /\ k <= Before(je + 1)
  BY <1>2, MonthsBegin, SMT
<1> QED
  BY <1>2, <1>3 DEF je

LEMMA MonthIsUnique ==
  ASSUME NEW k \in Nat, 123 <= k, k <= 488,
         NEW je \in 4 .. 15, Before(je) < k, k <= Before(je + 1)
  PROVE  JeOf(k) = je
<1> DEFINE p == JeOf(k)
<1>1. p \in 4 .. 15 /\ Before(p) < k /\ k <= Before(p + 1)
  BY MonthOfDay
<1> HIDE DEF p
<1>2. p = je
  BY <1>1, MonthsBegin, SMT
<1> QED
  BY <1>2 DEF p

LEMMA MonthLengths ==
  ASSUME NEW y, NEW je \in 4 .. 14
  PROVE  Civil!DaysIn(y, MonthOf(je)) = Before(je + 1) - Before(je)
<1>1. Civil!DaysIn(y, 3) = 31 /\ Civil!DaysIn(y, 4) = 30 /\ Civil!DaysIn(y, 5) = 31
  BY SMT DEF Civil!DaysIn
<1>2. Civil!DaysIn(y, 6) = 30 /\ Civil!DaysIn(y, 7) = 31 /\ Civil!DaysIn(y, 8) = 31
  BY SMT DEF Civil!DaysIn
<1>3. Civil!DaysIn(y, 9) = 30 /\ Civil!DaysIn(y, 10) = 31 /\ Civil!DaysIn(y, 11) = 30
  BY SMT DEF Civil!DaysIn
<1>4. Civil!DaysIn(y, 12) = 31 /\ Civil!DaysIn(y, 1) = 31
  BY SMT DEF Civil!DaysIn
<1>5. \/ je = 4 \/ je = 5 \/ je = 6 \/ je = 7 \/ je = 8 \/ je = 9 \/ je = 10 \/ je = 11
      \/ je = 12 \/ je = 13 \/ je = 14
  BY SMT
<1>6. MonthOf(je) = IF je = 14 THEN 1 ELSE je - 1
  BY SMT DEF MonthOf
<1> QED
  BY <1>1, <1>2, <1>3, <1>4, <1>5, <1>6, MonthsBegin, SMT

LEMMA OrdinalIs ==
  ASSUME NEW n \in Int
  PROVE  Civil!Ordinal(SkippingYearZero(n)) = n /\ Civil!YearOf(n) = SkippingYearZero(n)
  BY DEF Civil!Ordinal, Civil!YearOf, SkippingYearZero

\* The day after a day, in a year whose last day is known to be M.
LEMMA TomorrowIs ==
  ASSUME NEW jc \in Nat, NEW k \in Nat, NEW M \in {487, 488}, 123 <= k, k <= M,
         date = DayIn(jc, k), date # Civil!LastJulian,
         date.month = 2 => (Civil!Leap(date.year) <=> M = 488)
  PROVE  Civil!Tomorrow = IF k < M THEN DayIn(jc, k + 1) ELSE DayIn(jc + 1, 123)
<1> DEFINE je == JeOf(k)
           m == MonthOf(je)
           iy == IyOf(jc, m)
           y == SkippingYearZero(iy)
           d == k - Before(je)
<1>1. je \in 4 .. 15 /\ Before(je) < k /\ k <= Before(je + 1)
  BY MonthOfDay
<1>2. date = Date(y, m, d)
  BY DEF DayIn
<1>3. date.year = y /\ date.month = m /\ date.day = d
  BY <1>2 DEF Date
<1>4. m = (IF je >= 14 THEN je - 13 ELSE je - 1) /\ m \in 1 .. 12
  BY <1>1 DEF MonthOf
<1>5. iy \in Int /\ iy = (IF je >= 14 THEN jc - 4715 ELSE jc - 4716)
  BY <1>1, <1>4 DEF IyOf
<1>6. Civil!Tomorrow =
        IF d < Civil!DaysIn(y, m) THEN [date EXCEPT !.day = @ + 1]
        ELSE IF m < 12 THEN Date(y, m + 1, 1)
        ELSE Date(Civil!YearOf(Civil!Ordinal(y) + 1), 1, 1)
  BY <1>3 DEF Civil!Tomorrow, Civil!Date, Date
<1>7. [date EXCEPT !.day = @ + 1] = Date(y, m, d + 1)
  BY <1>2 DEF Date
<1>8. Before(je) \in Int /\ Before(je + 1) \in Int
  BY <1>1, MonthsBegin, SMT
<1>9. je \in 4 .. 14 => Civil!DaysIn(y, m) = Before(je + 1) - Before(je)
  BY MonthLengths
<1>10. je = 15 => Civil!DaysIn(y, m) = M - 459
  <2> SUFFICES ASSUME je = 15 PROVE Civil!DaysIn(y, m) = M - 459
    OBVIOUS
  <2>1. m = 2
    BY <1>4
  <2>2. Civil!DaysIn(y, 2) = IF Civil!Leap(y) THEN 29 ELSE 28
    BY SMT DEF Civil!DaysIn
  <2>3. Civil!Leap(y) <=> M = 488
    BY <1>3, <2>1
  <2> QED
    BY <2>1, <2>2, <2>3
<1> HIDE DEF je, m, y, d, iy
<1>11. ASSUME k < M, k < Before(je + 1) PROVE Civil!Tomorrow = DayIn(jc, k + 1)
  <2>1. JeOf(k + 1) = je
    BY <1>1, <1>8, <1>11, MonthIsUnique
  <2>2. d < Civil!DaysIn(y, m)
    <3>1. CASE je \in 4 .. 14
      BY <1>8, <1>9, <1>11, <3>1 DEF d
    <3>2. CASE je = 15
      BY <1>10, <1>11, <3>2, MonthsBegin DEF d
    <3> QED
      BY <1>1, <3>1, <3>2
  <2>3. DayIn(jc, k + 1) = Date(y, m, (k + 1) - Before(je))
    BY <2>1 DEF DayIn, y, m, iy
  <2>4. (k + 1) - Before(je) = d + 1
    BY <1>8 DEF d
  <2> QED
    BY <1>6, <1>7, <2>2, <2>3, <2>4
<1>12. ASSUME k < M, k = Before(je + 1) PROVE Civil!Tomorrow = DayIn(jc, k + 1)
  <2>1. je \in 4 .. 14
    BY <1>1, <1>12, MonthsBegin, SMT
  <2>2. JeOf(k + 1) = je + 1
    <3>1. je + 1 \in 4 .. 15 /\ Before(je + 1) < k + 1 /\ k + 1 <= Before((je + 1) + 1)
      BY <1>12, <2>1, MonthsBegin, SMT
    <3>2. k + 1 \in Nat /\ 123 <= k + 1 /\ k + 1 <= 488
      BY <1>12
    <3> QED
      BY <3>1, <3>2, MonthIsUnique
  <2>3. ~ (d < Civil!DaysIn(y, m))
    BY <1>8, <1>9, <1>12, <2>1 DEF d
  <2>4. (k + 1) - Before(je + 1) = 1
    BY <1>8, <1>12
  <2> DEFINE next == MonthOf(je + 1)
  <2>5. next = IF je = 13 THEN 1 ELSE m + 1
    BY <1>4, <2>1, SMT DEF MonthOf
  <2>6. DayIn(jc, k + 1) = Date(SkippingYearZero(IyOf(jc, next)), next, 1)
    BY <2>2, <2>4 DEF DayIn
  <2>7. IyOf(jc, next) = IF je = 13 THEN iy + 1 ELSE iy
    BY <1>4, <1>5, <2>1, <2>5 DEF IyOf
  <2> HIDE DEF next
  <2>8. CASE je = 13
    <3>1. m = 12
      BY <1>4, <2>8
    <3>2. Civil!YearOf(Civil!Ordinal(y) + 1) = SkippingYearZero(iy + 1)
      BY <1>5, OrdinalIs DEF y
    <3> QED
      BY <1>6, <2>3, <2>5, <2>6, <2>7, <2>8, <3>1, <3>2
  <2>9. CASE je # 13
    <3>1. m < 12
      BY <1>4, <2>1, <2>9
    <3> QED
      BY <1>6, <2>3, <2>5, <2>6, <2>7, <2>9, <3>1 DEF y
  <2> QED
    BY <2>8, <2>9
<1>13. ASSUME k = M PROVE Civil!Tomorrow = DayIn(jc + 1, 123)
  <2>1. je = 15
    BY <1>1, <1>13, MonthsBegin, SMT
  <2>2. m = 2 /\ iy = jc - 4715
    BY <1>4, <1>5, <2>1
  <2>3. ~ (d < Civil!DaysIn(y, m))
    BY <1>10, <1>13, <2>1, MonthsBegin DEF d
  <2>4. JeOf(123) = 4
    BY MonthIsUnique, MonthsBegin, SMT
  <2>5. MonthOf(4) = 3 /\ IyOf(jc + 1, 3) = iy /\ 123 - Before(4) = 1
    BY <2>2, MonthsBegin DEF MonthOf, IyOf
  <2>6. DayIn(jc + 1, 123) = Date(y, 3, 1)
    BY <2>4, <2>5 DEF DayIn, y
  <2> QED
    BY <1>6, <2>2, <2>3, <2>6
<1> QED
  BY <1>1, <1>8, <1>11, <1>12, <1>13


\* The variable jb of julianDayToGregorianDate().
JbOf(j) == InJulianCalendar(j) + 1524

LEMMA DateIs ==
  ASSUME NEW j \in Nat
  PROVE  JulianDayToGregorianDate(j) = DayIn(Jc(JbOf(j)), DayOfYear(JbOf(j)))
  BY DecodedIs, DateOfIs DEF JbOf

LEMMA JulianIs ==
  ASSUME NEW j \in Nat, j < GregorianStart
  PROVE  JbOf(j) = j + 1524
  BY DEF JbOf, InJulianCalendar

LEMMA DayIsDate ==
  ASSUME NEW j \in Nat, NEW jc \in Nat, NEW k \in Nat, JbOf(j) \in Nat, JbOf(j) >= 1524,
         k >= 123, LastOf(jc, k), JbOf(j) = 365 * jc + (jc \div 4) + k
  PROVE  JulianDayToGregorianDate(j) = DayIn(jc, k)
<1> DEFINE jb == JbOf(j)
<1> HIDE DEF jb
<1>1. jb \in Nat /\ jb >= 1524 /\ jb = 365 * jc + (jc \div 4) + k
  BY DEF jb
<1>2. Jc(jb) = jc /\ DayOfYear(jb) = k
  BY <1>1, YearIsUnique
<1> QED
  BY <1>2, DateIs DEF jb

\* The year and the day of the year.
LEMMA PartsOfDay ==
  ASSUME NEW jb \in Nat, jb >= 1524
  PROVE  \E jc \in Nat, k \in Nat :
           /\ jc = Jc(jb) /\ k = DayOfYear(jb)
           /\ jb = 365 * jc + (jc \div 4) + k
           /\ 123 <= k /\ k <= 488 /\ LastOf(jc, k)
           /\ jc >= 3 /\ 36525 * jc <= 100 * jb - 12210 /\ 100 * jb - 12210 < 36525 * jc + 36525
<1> DEFINE jc == Jc(jb)
           k == DayOfYear(jb)
<1>1. /\ jc \in Nat /\ jc >= 3 /\ Jd(jb) = 365 * jc + (jc \div 4) /\ k \in 123 .. 488
      /\ 36525 * jc <= 100 * jb - 12210 /\ 100 * jb - 12210 < 36525 * jc + 36525
  BY YearIs
<1>2. LastOf(jc, k)
  BY YearEnds
<1>3. k = jb - Jd(jb)
  BY DEF DayOfYear
<1> HIDE DEF jc, k
<1>4. jb = 365 * jc + (jc \div 4) + k
  <2>1. jc \div 4 \in Int
    BY <1>1
  <2> QED
    BY <1>1, <1>3, <2>1
<1> QED
  BY <1>1, <1>2, <1>4 DEF jc, k

LEMMA NextYear ==
  ASSUME NEW jc \in Nat
  PROVE  /\ jc % 4 = 3 => (jc + 1) \div 4 = (jc \div 4) + 1
         /\ jc % 4 # 3 => (jc + 1) \div 4 = jc \div 4
         /\ jc \div 4 \in Nat
  BY SMT

\* The only date that the calendars switch after.
LEMMA LastJulianIs ==
  /\ JulianDayToGregorianDate(GregorianStart - 1) = Civil!LastJulian
  /\ JulianDayToGregorianDate(GregorianStart) = Civil!FirstGregorian
<1>0. 6298 \div 4 = 1574 /\ 6298 % 4 = 2
  BY SMT
<1>1. GregorianStart - 1 = 2299160 /\ GregorianStart = 2299161
  BY SMT DEF GregorianStart
<1>2. JbOf(2299160) = 2300684
  BY <1>1, SMT DEF JbOf, InJulianCalendar
<1>3. JbOf(2299161) = 2300695
  <2>1. Truncated(4 * (2299161 - 1867216) - 1, 146097) = 11
    BY SMT DEF Truncated
  <2>2. Truncated(11, 4) = 2
    BY SMT DEF Truncated
  <2>3. ~ (2299161 < GregorianStart)
    BY <1>1, SMT
  <2>4. InJulianCalendar(2299161) = 2299161 + 1 + 11 - 2
    BY <2>1, <2>2, <2>3 DEF InJulianCalendar
  <2> QED
    BY <2>4, SMT DEF JbOf
<1>4. JulianDayToGregorianDate(2299160) = DayIn(6298, 340)
  <2>1. LastOf(6298, 340)
    BY SMT DEF LastOf
  <2> QED
    BY <1>0, <1>2, <2>1, DayIsDate, SMT
<1>5. JulianDayToGregorianDate(2299161) = DayIn(6298, 351)
  <2>1. LastOf(6298, 351)
    BY SMT DEF LastOf
  <2> QED
    BY <1>0, <1>3, <2>1, DayIsDate, SMT
<1>6. JeOf(340) = 11 /\ JeOf(351) = 11
  BY SMT DEF JeOf, Truncated
<1>7. MonthOf(11) = 10 /\ IyOf(6298, 10) = 1582 /\ SkippingYearZero(1582) = 1582
  BY SMT DEF MonthOf, IyOf, SkippingYearZero
<1>8. DayIn(6298, 340) = Date(1582, 10, 4) /\ DayIn(6298, 351) = Date(1582, 10, 15)
  BY <1>6, <1>7, MonthsBegin DEF DayIn
<1> QED
  BY <1>1, <1>4, <1>5, <1>8 DEF Civil!LastJulian, Civil!FirstGregorian, Civil!Date, Date

LEMMA SwitchesOnce ==
  ASSUME NEW j \in Nat, JulianDayToGregorianDate(j) = Civil!LastJulian
  PROVE  j = GregorianStart - 1
<1>1. GregorianStart - 1 \in Nat
  BY SMT DEF GregorianStart
<1>2. GregorianDateToJulianDay(Civil!LastJulian) = GregorianStart - 1
  BY <1>1, LastJulianIs, DateEncodesBack
<1>3. GregorianDateToJulianDay(JulianDayToGregorianDate(j)) = j
  BY DateEncodesBack
<1> QED
  BY <1>2, <1>3

\* The leap years, by the year that ends with their February.
LEMMA JulianLeap ==
  ASSUME NEW jc \in Nat, jc <= 6297
  PROVE  Civil!Leap(SkippingYearZero(jc - 4715)) <=> jc % 4 = 3
<1> DEFINE n == jc - 4715
           y == SkippingYearZero(n)
<1>1. n \in Int /\ n <= 1582
  OBVIOUS
<1>2. Civil!Ordinal(y) = n
  BY <1>1, OrdinalIs
<1>3. y \in Int /\ ~ (y > 1582)
  BY <1>1 DEF SkippingYearZero
<1>4. n % 4 = 0 <=> jc % 4 = 3
  OBVIOUS
<1> HIDE DEF n, y
<1>5. Civil!Leap(y) <=> n % 4 = 0
  BY <1>2, <1>3 DEF Civil!Leap
<1> QED
  BY <1>4, <1>5 DEF n, y

LEMMA GregorianLeap ==
  ASSUME NEW c \in Nat, c >= 11, NEW jc \in Nat,
         100 * (c + 4) <= jc - 4716, jc - 4716 < 100 * (c + 5)
  PROVE  Civil!Leap(SkippingYearZero(jc - 4715))
           <=> jc % 4 = 3 /\ (jc = 4715 + 100 * (c + 5) => c % 4 = 3)
<1> DEFINE y == jc - 4715
<1>1. y \in Nat /\ y > 0 /\ 100 * (c + 4) < y /\ y <= 100 * (c + 5)
  OBVIOUS
<1>2. SkippingYearZero(y) = y /\ Civil!Ordinal(y) = y
  BY <1>1 DEF SkippingYearZero, Civil!Ordinal
<1>3. y % 4 = 0 <=> jc % 4 = 3
  OBVIOUS
<1>4. y = 100 * (c + 5) <=> jc = 4715 + 100 * (c + 5)
  OBVIOUS
<1> HIDE DEF y
<1>5. y % 100 = 0 <=> y = 100 * (c + 5)
  BY <1>1
<1>6. y = 100 * (c + 5) => (y % 400 = 0 <=> c % 4 = 3) /\ y > 1582
  BY <1>1
<1>7. Civil!Leap(y) <=> y % 4 = 0 /\ (y > 1582 => (y % 100 # 0 \/ y % 400 = 0))
  BY <1>2 DEF Civil!Leap
<1>8. y <= 1582 => y % 100 # 0
  BY <1>1, <1>5, <1>6
<1> QED
  BY <1>1, <1>2, <1>3, <1>4, <1>5, <1>6, <1>7, <1>8 DEF y

LEMMA FebruaryIs ==
  ASSUME NEW jc \in Nat, NEW k \in Nat, 123 <= k, k <= 488, DayIn(jc, k).month = 2
  PROVE  DayIn(jc, k).year = SkippingYearZero(jc - 4715) /\ k > 459
<1> DEFINE je == JeOf(k)
<1>1. je \in 4 .. 15 /\ Before(je) < k
  BY MonthOfDay
<1>2. MonthOf(je) = 2
  BY DEF DayIn, Date
<1>3. je = 15
  BY <1>1, <1>2 DEF MonthOf
<1>4. IyOf(jc, 2) = jc - 4715
  BY DEF IyOf
<1>5. DayIn(jc, k).year = SkippingYearZero(IyOf(jc, MonthOf(je)))
  BY DEF DayIn, Date
<1>6. k > 459
  BY <1>1, <1>3, MonthsBegin
<1> HIDE DEF je
<1> QED
  BY <1>2, <1>4, <1>5, <1>6

LEMMA NextJulianDay ==
  ASSUME NEW j \in Nat, j + 1 < GregorianStart, date = JulianDayToGregorianDate(j)
  PROVE  JulianDayToGregorianDate(j + 1) = Civil!Tomorrow
<1> DEFINE jb == JbOf(j)
<1>1. GregorianStart = 2299161
  BY DEF GregorianStart
<1>2. jb \in Nat /\ jb >= 1524 /\ jb = j + 1524 /\ JbOf(j + 1) = jb + 1 /\ jb < 2300684
  BY <1>1, JulianIs
<1> HIDE DEF jb
<1>3. PICK jc \in Nat, k \in Nat :
        /\ jc = Jc(jb) /\ k = DayOfYear(jb)
        /\ jb = 365 * jc + (jc \div 4) + k
        /\ 123 <= k /\ k <= 488 /\ LastOf(jc, k)
        /\ jc >= 3 /\ 36525 * jc <= 100 * jb - 12210 /\ 100 * jb - 12210 < 36525 * jc + 36525
  BY <1>2, PartsOfDay
<1>4. date = DayIn(jc, k)
  <2>1. date = DayIn(Jc(jb), DayOfYear(jb))
    BY DateIs DEF jb
  <2> QED
    BY <1>3, <2>1
<1>5. date # Civil!LastJulian
  BY <1>1, SwitchesOnce
<1> DEFINE M == IF jc % 4 = 3 THEN 488 ELSE 487
<1>6. M \in {487, 488} /\ k <= M
  BY <1>3 DEF LastOf
<1>7. date.month = 2 => (Civil!Leap(date.year) <=> M = 488)
  <2> SUFFICES ASSUME date.month = 2 PROVE Civil!Leap(date.year) <=> M = 488
    OBVIOUS
  <2>1. date.year = SkippingYearZero(jc - 4715) /\ k > 459
    BY <1>3, <1>4, FebruaryIs
  <2>2. jc <= 6297
    <3>1. jc <= 6298
      BY <1>2, <1>3
    <3>2. 6298 \div 4 = 1574
      BY SMT
    <3>3. jc # 6298
      BY <1>2, <1>3, <2>1, <3>2
    <3> QED
      BY <3>1, <3>3
  <2> QED
    BY <2>1, <2>2, JulianLeap
<1>8. Civil!Tomorrow = IF k < M THEN DayIn(jc, k + 1) ELSE DayIn(jc + 1, 123)
  BY <1>3, <1>4, <1>5, <1>6, <1>7, TomorrowIs
<1>9. JbOf(j + 1) \in Nat /\ JbOf(j + 1) >= 1524
  BY <1>2
<1>10. ASSUME k < M PROVE JulianDayToGregorianDate(j + 1) = DayIn(jc, k + 1)
  <2>1. LastOf(jc, k + 1)
    BY <1>3, <1>10 DEF LastOf
  <2>2. JbOf(j + 1) = 365 * jc + (jc \div 4) + (k + 1)
    BY <1>2, <1>3, NextYear
  <2> QED
    BY <1>3, <1>9, <2>1, <2>2, DayIsDate
<1>11. ASSUME k = M PROVE JulianDayToGregorianDate(j + 1) = DayIn(jc + 1, 123)
  <2>1. LastOf(jc + 1, 123)
    BY SMT DEF LastOf
  <2>2. JbOf(j + 1) = 365 * (jc + 1) + ((jc + 1) \div 4) + 123
    BY <1>2, <1>3, <1>11, NextYear
  <2> QED
    BY <1>9, <2>1, <2>2, DayIsDate
<1> HIDE DEF M
<1> QED
  BY <1>6, <1>8, <1>10, <1>11

\* The last day of a century that ends without a leap day is the 487th of its year.
LEMMA CenturyEnds ==
  ASSUME NEW j \in Nat, NEW c \in Nat, NEW jc \in Nat, NEW k \in Nat,
         jc = 4715 + 100 * (c + 5),
         365 * jc + (jc \div 4) + k = j + 1525 + c - (c \div 4)
  PROVE  4 * k = 4 * j - 7613012 - 146097 * c + (c % 4)
<1> DEFINE u == c \div 4
           r == c % 4
<1>1. u \in Nat /\ r \in 0 .. 3 /\ c = 4 * u + r
  OBVIOUS
<1>2. jc \div 4 = 1178 + 25 * (c + 5)
  BY SMT
<1> HIDE DEF u, r
<1>3. 365 * jc + (1178 + 25 * (c + 5)) + k = j + 1525 + c - u
  BY <1>2 DEF u
<1> QED
  BY <1>1, <1>3 DEF u, r

LEMMA NextGregorianDay ==
  ASSUME NEW j \in Nat, j >= GregorianStart, date = JulianDayToGregorianDate(j)
  PROVE  JulianDayToGregorianDate(j + 1) = Civil!Tomorrow
<1> DEFINE jb == JbOf(j)
           jb2 == JbOf(j + 1)
<1>0. GregorianStart = 2299161
  BY DEF GregorianStart
<1>1. PICK c \in Nat :
        /\ c >= 11
        /\ 146097 * c <= 4 * j - 7468865 /\ 4 * j - 7468865 < 146097 * c + 146097
        /\ jb = j + 1525 + c - (c \div 4)
        /\ 100 * (c + 4) <= Jc(jb) - 4716 /\ Jc(jb) - 4716 < 100 * (c + 5)
  BY CenturyIs DEF JbOf
<1>2. PICK c2 \in Nat :
        /\ c2 >= 11
        /\ 146097 * c2 <= 4 * (j + 1) - 7468865 /\ 4 * (j + 1) - 7468865 < 146097 * c2 + 146097
        /\ jb2 = (j + 1) + 1525 + c2 - (c2 \div 4)
        /\ 100 * (c2 + 4) <= Jc(jb2) - 4716 /\ Jc(jb2) - 4716 < 100 * (c2 + 5)
  <2>1. j + 1 \in Nat /\ j + 1 >= GregorianStart
    BY <1>0
  <2> QED
    BY <2>1, CenturyIs DEF JbOf
<1> HIDE DEF jb, jb2
<1>3. jb \in Nat /\ jb >= 1524 /\ jb2 \in Nat /\ jb2 >= 1524
  <2>1. c \div 4 \in Nat /\ c \div 4 <= c /\ c2 \div 4 \in Nat /\ c2 \div 4 <= c2
    BY SMT
  <2> QED
    BY <1>0, <1>1, <1>2, <2>1
<1>4. PICK jc \in Nat, k \in Nat :
        /\ jc = Jc(jb) /\ k = DayOfYear(jb)
        /\ jb = 365 * jc + (jc \div 4) + k
        /\ 123 <= k /\ k <= 488 /\ LastOf(jc, k)
        /\ jc >= 3 /\ 36525 * jc <= 100 * jb - 12210 /\ 100 * jb - 12210 < 36525 * jc + 36525
  BY <1>3, PartsOfDay
<1>5. date = DayIn(jc, k)
  <2>1. date = DayIn(Jc(jb), DayOfYear(jb))
    BY DateIs DEF jb
  <2> QED
    BY <1>4, <2>1
<1>6. date # Civil!LastJulian
  BY <1>0, SwitchesOnce
<1> DEFINE turn == jc = 4715 + 100 * (c + 5)
           M == IF jc % 4 = 3 /\ (turn => c % 4 = 3) THEN 488 ELSE 487
<1>7. 100 * (c + 4) <= jc - 4716 /\ jc - 4716 < 100 * (c + 5)
  BY <1>1, <1>4
<1>8. M \in {487, 488} /\ (M = 488 <=> jc % 4 = 3 /\ (turn => c % 4 = 3))
  BY SMT
<1> HIDE DEF M
<1>9. date.month = 2 => (Civil!Leap(date.year) <=> M = 488)
  <2> SUFFICES ASSUME date.month = 2 PROVE Civil!Leap(date.year) <=> M = 488
    OBVIOUS
  <2>1. date.year = SkippingYearZero(jc - 4715)
    BY <1>4, <1>5, FebruaryIs
  <2> QED
    BY <1>1, <1>7, <1>8, <2>1, GregorianLeap
<1> HIDE DEF turn
<1>10. \/ c2 = c
       \/ c2 = c + 1 /\ 4 * (j + 1) - 7468865 >= 146097 * c + 146097
  BY <1>1, <1>2
<1>11. jb = 365 * jc + (jc \div 4) + k /\ jc \div 4 \in Nat /\ c % 4 \in 0 .. 3
  BY <1>4, NextYear
<1>12. turn => 4 * k = 4 * j - 7613012 - 146097 * c + (c % 4)
  BY <1>1, <1>11, CenturyEnds DEF turn
<1>13. k <= M
  <2>1. turn => 4 * k <= 1949 + (c % 4)
    BY <1>1, <1>11, <1>12
  <2> QED
    BY <1>4, <1>8, <1>11, <2>1 DEF LastOf
<1>14. Civil!Tomorrow = IF k < M THEN DayIn(jc, k + 1) ELSE DayIn(jc + 1, 123)
  BY <1>4, <1>5, <1>6, <1>8, <1>9, <1>13, TomorrowIs
<1>15. ASSUME c2 = c, k < M PROVE JulianDayToGregorianDate(j + 1) = DayIn(jc, k + 1)
  <2>1. LastOf(jc, k + 1)
    BY <1>4, <1>8, <1>15 DEF LastOf
  <2>2. jb2 = 365 * jc + (jc \div 4) + (k + 1)
    <3>1. c \div 4 \in Nat
      BY SMT
    <3> QED
      BY <1>1, <1>2, <1>11, <1>15, <3>1
  <2> QED
    BY <1>3, <1>4, <2>1, <2>2, DayIsDate DEF jb2
<1>16. ASSUME c2 = c, k = M PROVE JulianDayToGregorianDate(j + 1) = DayIn(jc + 1, 123)
  <2>1. LastOf(jc + 1, 123)
    BY SMT DEF LastOf
  <2>2. c \div 4 \in Nat /\ jb2 = jb + 1
    <3>1. c \div 4 \in Nat
      BY SMT
    <3> QED
      BY <1>1, <1>2, <1>16, <3>1
  <2>3. CASE M = 488 \/ jc % 4 # 3
    <3>1. jb2 = 365 * (jc + 1) + ((jc + 1) \div 4) + 123
      BY <1>8, <1>11, <1>16, <2>2, <2>3, NextYear
    <3> QED
      BY <1>3, <2>1, <3>1, DayIsDate DEF jb2
  <2>4. CASE M = 487 /\ jc % 4 = 3
    <3>1. turn /\ c % 4 # 3
      BY <1>8, <2>4
    <3>2. LastOf(jc, k + 1) /\ jb2 = 365 * jc + (jc \div 4) + (k + 1)
      <4>1. k + 1 = 488
        BY <1>16, <2>4
      <4>2. LastOf(jc, 488)
        BY <2>4, SMT DEF LastOf
      <4>3. jb2 = 365 * jc + (jc \div 4) + (k + 1)
        BY <1>11, <2>2
      <4> QED
        BY <4>1, <4>2, <4>3
    <3>3. Jc(jb2) = jc /\ k + 1 \in Nat
      <4>1. k + 1 \in Nat /\ k + 1 >= 123
        BY <1>4
      <4> QED
        BY <1>3, <3>2, <4>1, YearIsUnique
    <3>4. 4 * (k + 1) = 4 * (j + 1) - 7613012 - 146097 * c + (c % 4)
      BY <1>2, <1>16, <3>1, <3>2, <3>3, CenturyEnds DEF turn
    <3>5. k + 1 = 488
      BY <1>16, <2>4
    <3> QED
      BY <1>2, <1>11, <1>16, <3>1, <3>4, <3>5
  <2> QED
    BY <1>8, <2>3, <2>4
<1>17. ASSUME c2 = c + 1, 4 * (j + 1) - 7468865 >= 146097 * c + 146097
       PROVE  k = M /\ JulianDayToGregorianDate(j + 1) = DayIn(jc + 1, 123)
  <2> DEFINE last == IF c % 4 = 3 THEN 488 ELSE 487
             year == 4715 + 100 * (c + 5)
             u == c \div 4
             r == c % 4
  <2>1. u \in Nat /\ r \in 0 .. 3 /\ c = 4 * u + r
    BY SMT
  <2>2. year \in Nat /\ year % 4 = 3 /\ year \div 4 = 1178 + 25 * (c + 5)
    BY SMT
  <2>3. last \in Nat /\ last >= 123 /\ last = (IF r = 3 THEN 488 ELSE 487) /\ LastOf(year, last)
    BY <2>2 DEF LastOf
  <2>4. jb = j + 1525 + c - u
    BY <1>1
  <2>5. jb2 = (j + 1) + 1525 + (c + 1) - ((c + 1) \div 4)
    BY <1>2, <1>17
  <2>6. (c + 1) \div 4 = (IF r = 3 THEN u + 1 ELSE u)
    BY NextYear
  <2> HIDE DEF last, u, r
  <2>7. jb = 365 * year + (1178 + 25 * (c + 5)) + last
    BY <1>1, <1>17, <2>1, <2>3, <2>4
  <2>8. jc = year /\ k = last
    <3> HIDE DEF year
    <3>1. jb = 365 * year + (year \div 4) + last
      BY <2>2, <2>7
    <3>2. Jc(jb) = year /\ DayOfYear(jb) = last
      BY <1>3, <2>2, <2>3, <3>1, YearIsUnique
    <3> QED
      BY <1>4, <3>2
  <2>9. turn /\ jc % 4 = 3
    BY <2>2, <2>8 DEF turn
  <2>10. k = M
    BY <1>8, <2>3, <2>8, <2>9 DEF r
  <2>11. jb2 = jb + (IF r = 3 THEN 1 ELSE 2)
    BY <2>1, <2>4, <2>5, <2>6
  <2>12. jb2 = 365 * (jc + 1) + ((jc + 1) \div 4) + 123
    BY <1>11, <2>3, <2>8, <2>9, <2>11, NextYear
  <2>13. LastOf(jc + 1, 123)
    BY SMT DEF LastOf
  <2> QED
    BY <1>3, <2>10, <2>12, <2>13, DayIsDate DEF jb2
<1> QED
  BY <1>8, <1>10, <1>13, <1>14, <1>15, <1>16, <1>17

\* The same date some years later, where the leap years recur.
LEMMA LaterIs ==
  ASSUME NEW jc \in Nat, NEW k \in Nat, NEW n \in Nat, 123 <= k, k <= 488, date = DayIn(jc, k)
  PROVE  /\ Civil!Later(n) = DayIn(jc + n, k)
         /\ Civil!Ordinal(date.year) = IyOf(jc, MonthOf(JeOf(k)))
         /\ date.year = SkippingYearZero(IyOf(jc, MonthOf(JeOf(k))))
<1> DEFINE m == MonthOf(JeOf(k))
           iy == IyOf(jc, m)
           d == k - Before(JeOf(k))
<1>1. m \in 1 .. 12 /\ iy \in Int /\ IyOf(jc + n, m) = iy + n
  <2>1. JeOf(k) \in 4 .. 15
    BY MonthOfDay
  <2>2. m \in 1 .. 12
    BY <2>1 DEF MonthOf
  <2> HIDE DEF m
  <2> QED
    BY <2>2 DEF IyOf
<1>2. date = Date(SkippingYearZero(iy), m, d) /\ DayIn(jc + n, k) = Date(SkippingYearZero(IyOf(jc + n, m)), m, d)
  BY DEF DayIn
<1> HIDE DEF m, iy, d
<1>3. date.year = SkippingYearZero(iy) /\ Civil!Ordinal(SkippingYearZero(iy)) = iy
  BY <1>1, <1>2, OrdinalIs DEF Date
<1>4. Civil!Later(n) = [date EXCEPT !.year = Civil!YearOf(iy + n)]
  BY <1>3 DEF Civil!Later
<1>5. Civil!YearOf(iy + n) = SkippingYearZero(iy + n)
  BY <1>1, OrdinalIs
<1>6. [date EXCEPT !.year = SkippingYearZero(iy + n)] = Date(SkippingYearZero(iy + n), m, d)
  BY <1>2 DEF Date
<1> QED
  BY <1>1, <1>2, <1>3, <1>4, <1>5, <1>6 DEF iy, m

LEMMA JulianYearsLater ==
  ASSUME NEW j \in Nat, NEW m \in Nat, date = JulianDayToGregorianDate(j),
         j + 1461 * m < 2298795
  PROVE  /\ JulianDayToGregorianDate(j + 1461 * m) = Civil!Later(4 * m)
         /\ Civil!Ordinal(date.year) + 4 * m < 1582
<1> DEFINE n == 4 * m
           j2 == j + 1461 * m
           jb == JbOf(j)
<1>1. n \in Nat /\ n = 4 * m
  OBVIOUS
<1>2. j2 \in Nat /\ j <= j2 /\ j2 < 2298795
  OBVIOUS
<1>3. jb = j + 1524 /\ JbOf(j2) = j2 + 1524
  BY <1>2, JulianIs DEF GregorianStart
<1> HIDE DEF n, jb, j2
<1>4. jb \in Nat /\ jb >= 1524
  BY <1>3
<1>5. PICK jc \in Nat, k \in Nat :
        /\ jc = Jc(jb) /\ k = DayOfYear(jb)
        /\ jb = 365 * jc + (jc \div 4) + k
        /\ 123 <= k /\ k <= 488 /\ LastOf(jc, k)
        /\ jc >= 3 /\ 36525 * jc <= 100 * jb - 12210 /\ 100 * jb - 12210 < 36525 * jc + 36525
  BY <1>4, PartsOfDay
<1>6. date = DayIn(jc, k)
  <2>1. date = DayIn(Jc(jb), DayOfYear(jb))
    BY DateIs DEF jb
  <2> QED
    BY <1>5, <2>1
<1>7. jc + n \in Nat /\ (jc + n) \div 4 = (jc \div 4) + m /\ (jc + n) % 4 = jc % 4 /\ jc \div 4 \in Nat
  BY <1>1
<1>8. JbOf(j2) = 365 * (jc + n) + ((jc + n) \div 4) + k
  BY <1>1, <1>3, <1>5, <1>7 DEF j2
<1>9. LastOf(jc + n, k)
  BY <1>5, <1>7 DEF LastOf
<1>10. JulianDayToGregorianDate(j2) = DayIn(jc + n, k)
  <2>1. JbOf(j2) \in Nat /\ JbOf(j2) >= 1524
    BY <1>2, <1>3
  <2> DEFINE y == jc + n
  <2>2. y \in Nat /\ LastOf(y, k) /\ JbOf(j2) = 365 * y + (y \div 4) + k
    BY <1>7, <1>8, <1>9
  <2>3. k \in Nat /\ k >= 123
    BY <1>5
  <2> HIDE DEF y
  <2>4. JulianDayToGregorianDate(j2) = DayIn(y, k)
    BY <1>2, <2>1, <2>2, <2>3, DayIsDate
  <2> QED
    BY <2>4 DEF y
<1>11. Civil!Later(n) = DayIn(jc + n, k) /\ Civil!Ordinal(date.year) = IyOf(jc, MonthOf(JeOf(k)))
  <2>1. n \in Nat /\ 123 <= k /\ k <= 488
    BY <1>1, <1>5, SMT
  <2> QED
    BY <1>6, <2>1, LaterIs
<1>12. IyOf(jc, MonthOf(JeOf(k))) + n < 1582
  <2> DEFINE je == JeOf(k)
             y == jc + n
             q == y \div 4
  <2>1. je \in 4 .. 15 /\ Before(je) < k
    BY <1>5, MonthOfDay
  <2>2. 365 * y + q + k <= 2300318 /\ q \in Nat /\ 4 * q <= y /\ y <= 4 * q + 3
    BY <1>2, <1>3, <1>7, <1>8
  <2> HIDE DEF je, q
  <2>3. y \in Nat /\ y <= 6297
    BY <1>5, <1>7, <2>2
  <2>4. y = 6297 => k < 367
    BY <1>5, <2>2
  <2>5. y = 6297 => je < 12
    BY <2>1, <2>4, MonthsBegin, SMT
  <2>6. CASE je < 14
    <3>1. MonthOf(je) > 2 /\ MonthOf(je) = je - 1
      BY <2>1, <2>6 DEF MonthOf
    <3>2. IyOf(jc, MonthOf(je)) = jc - 4716
      BY <3>1 DEF IyOf
    <3> QED
      BY <1>1, <2>3, <3>2 DEF je
  <2>7. CASE je >= 14
    <3>1. IyOf(jc, MonthOf(je)) = jc - 4715
      BY <2>1, <2>7 DEF IyOf, MonthOf
    <3>2. y < 6297
      BY <2>1, <2>3, <2>5, <2>7
    <3> QED
      BY <1>1, <2>3, <3>1, <3>2 DEF je
  <2> QED
    BY <2>1, <2>6, <2>7
<1> QED
  BY <1>10, <1>11, <1>12 DEF j2, n

\* The day-of-year k of the year jc that Julian day number j has.
Falls(j, jc, k) ==
  /\ JbOf(j) \in Nat /\ JbOf(j) >= 1524 /\ JbOf(j) = 365 * jc + (jc \div 4) + k
  /\ k >= 123 /\ LastOf(jc, k)

LEMMA DayFalls ==
  ASSUME NEW j \in Nat, NEW jc \in Nat, NEW k \in Nat, Falls(j, jc, k)
  PROVE  JulianDayToGregorianDate(j) = DayIn(jc, k)
<1> DEFINE jb == JbOf(j)
<1>1. jb \in Nat /\ jb >= 1524 /\ jb = 365 * jc + (jc \div 4) + k /\ k >= 123 /\ LastOf(jc, k)
  BY DEF Falls
<1> HIDE DEF jb
<1>2. Jc(jb) = jc /\ DayOfYear(jb) = k
  BY <1>1, YearIsUnique
<1> QED
  BY <1>2, DateIs DEF jb

LEMMA GregorianYearsLater ==
  ASSUME NEW j \in Nat, NEW m \in Nat, date = JulianDayToGregorianDate(j), j > 2299527
  PROVE  /\ JulianDayToGregorianDate(j + 146097 * m) = Civil!Later(400 * m)
         /\ date.year > 1582
<1> DEFINE n == 400 * m
           j2 == j + 146097 * m
           jb == JbOf(j)
           jb2 == JbOf(j2)
<1>0. GregorianStart = 2299161 /\ j >= GregorianStart
  BY DEF GregorianStart
<1>1. n \in Nat /\ n = 400 * m
  OBVIOUS
<1>2. j2 \in Nat /\ j <= j2
  OBVIOUS
<1>3. PICK c \in Nat :
        /\ c >= 11
        /\ 146097 * c <= 4 * j - 7468865 /\ 4 * j - 7468865 < 146097 * c + 146097
        /\ jb = j + 1525 + c - (c \div 4)
        /\ 100 * (c + 4) <= Jc(jb) - 4716 /\ Jc(jb) - 4716 < 100 * (c + 5)
  <2>1. j >= GregorianStart
    BY <1>0
  <2> HIDE DEF n, j2, jb2
  <2> QED
    BY <2>1, CenturyIs, SMTT(30) DEF JbOf
<1> HIDE DEF j2
<1>4. PICK c2 \in Nat :
        /\ c2 >= 11
        /\ 146097 * c2 <= 4 * j2 - 7468865 /\ 4 * j2 - 7468865 < 146097 * c2 + 146097
        /\ jb2 = j2 + 1525 + c2 - (c2 \div 4)
        /\ 100 * (c2 + 4) <= Jc(jb2) - 4716 /\ Jc(jb2) - 4716 < 100 * (c2 + 5)
  <2>1. j2 >= GregorianStart
    BY <1>0, <1>2
  <2> QED
    BY <1>2, <2>1, CenturyIs DEF JbOf
<1> HIDE DEF n, jb, jb2
<1>5. c2 = c + 4 * m
  BY <1>1, <1>3, <1>4 DEF j2
<1>6. c2 \div 4 = (c \div 4) + m /\ c \div 4 \in Nat /\ c \div 4 <= c
  BY <1>1, <1>5
<1>7. jb2 = jb + 146100 * m /\ jb \in Nat /\ jb >= 2299528 + 1525
  BY <1>0, <1>1, <1>3, <1>4, <1>5, <1>6 DEF j2
<1>8. jb >= 1524 /\ jb2 \in Nat /\ jb2 >= 1524
  BY <1>1, <1>7
<1>9. PICK jc \in Nat, k \in Nat :
        /\ jc = Jc(jb) /\ k = DayOfYear(jb)
        /\ jb = 365 * jc + (jc \div 4) + k
        /\ 123 <= k /\ k <= 488 /\ LastOf(jc, k)
        /\ jc >= 3 /\ 36525 * jc <= 100 * jb - 12210 /\ 100 * jb - 12210 < 36525 * jc + 36525
  BY <1>7, <1>8, PartsOfDay
<1>10. date = DayIn(jc, k)
  <2>1. date = DayIn(Jc(jb), DayOfYear(jb))
    BY DateIs DEF jb
  <2> QED
    BY <1>9, <2>1
<1>11. jc + n \in Nat /\ (jc + n) \div 4 = (jc \div 4) + 100 * m /\ (jc + n) % 4 = jc % 4 /\ jc \div 4 \in Nat
  BY <1>1
<1>12. jb2 = 365 * (jc + n) + ((jc + n) \div 4) + k
  BY <1>1, <1>7, <1>9, <1>11
<1>13. LastOf(jc + n, k)
  BY <1>9, <1>11 DEF LastOf
<1>14. JulianDayToGregorianDate(j2) = DayIn(jc + n, k)
  <2> DEFINE y == jc + n
  <2>1. y \in Nat /\ LastOf(y, k) /\ JbOf(j2) = 365 * y + (y \div 4) + k
    BY <1>11, <1>12, <1>13 DEF jb2
  <2>2. k \in Nat /\ k >= 123 /\ JbOf(j2) \in Nat /\ JbOf(j2) >= 1524
    BY <1>8, <1>9 DEF jb2
  <2> HIDE DEF y
  <2>3. Falls(j2, y, k)
    BY <2>1, <2>2 DEF Falls
  <2>4. JulianDayToGregorianDate(j2) = DayIn(y, k)
    BY <1>2, <2>1, <2>2, <2>3, DayFalls
  <2> QED
    BY <2>4 DEF y
<1>15. /\ Civil!Later(n) = DayIn(jc + n, k)
       /\ date.year = SkippingYearZero(IyOf(jc, MonthOf(JeOf(k))))
  <2>1. n \in Nat /\ 123 <= k /\ k <= 488
    BY <1>1, <1>9, SMT
  <2> QED
    BY <1>10, <2>1, LaterIs
<1>16. jc >= 6299
  BY <1>7, <1>9
<1>17. IyOf(jc, MonthOf(JeOf(k))) \in Int /\ IyOf(jc, MonthOf(JeOf(k))) > 1582
  BY <1>16 DEF IyOf
<1>18. date.year > 1582
  BY <1>15, <1>17 DEF SkippingYearZero
<1> QED
  BY <1>14, <1>15, <1>18 DEF j2, n

LEMMA FirstDay == JulianDayToGregorianDate(0) = Date(-4713, 1, 1)
<1>0. 3 \div 4 = 0
  BY SMT
<1>1. JbOf(0) = 1524
  BY JulianIs, SMT DEF GregorianStart
<1>2. JulianDayToGregorianDate(0) = DayIn(3, 429)
  <2>1. LastOf(3, 429)
    BY SMT DEF LastOf
  <2> QED
    BY <1>0, <1>1, <2>1, DayIsDate, SMT
<1>3. JeOf(429) = 14
  BY MonthsBegin, MonthIsUnique, SMT
<1>4. MonthOf(14) = 1 /\ IyOf(3, 1) = -4712 /\ SkippingYearZero(-4712) = -4713
  BY SMT DEF MonthOf, IyOf, SkippingYearZero
<1> QED
  BY <1>2, <1>3, <1>4, MonthsBegin DEF DayIn

LEMMA AnswerIs ==
  ASSUME AskedAndAnswered
  PROVE  asked.julday \in Nat /\ date = JulianDayToGregorianDate(asked.julday)
<1>1. asked.julday \in Nat /\ asked.second \in Nat /\ asked.second < 86400
  BY DEF AskedAndAnswered
<1>2. PICK e \in Int :
        /\ Small(e)
        /\ date = DecodeTime(asked.julday - JuldayOrigin, asked.second * Grain + e).date
  BY DEF AskedAndAnswered
<1> DEFINE days == asked.julday - JuldayOrigin
           second == asked.second
<1>3. days \in Int /\ JuldayOrigin + days = asked.julday
  BY <1>1, OriginIs
<1> HIDE DEF days, second
<1>4. DecodedIsRight(days, second, e)
  BY <1>1, <1>2, <1>3, DecodedTimeIs DEF second
<1>5. date = DecodeTime(days, second * Grain + e).date
  BY <1>2 DEF days, second
<1> QED
  BY <1>1, <1>3, <1>4, <1>5 DEF DecodedIsRight

LEMMA AskLeads ==
  ASSUME NEW julday \in Nat, NEW second \in Nat, second < 86400, Ask(julday, second)
  PROVE  date' = JulianDayToGregorianDate(julday)
<1>1. asked' = [julday |-> julday, second |-> second]
  BY DEF Ask
<1>2. PICK e \in -Uncertainty .. Uncertainty :
        date' = DecodeTime(julday - JuldayOrigin, second * Grain + e).date
  BY DEF Ask
<1>3. e \in Int /\ Small(e)
  BY GrainIs, SMT DEF Small
<1> DEFINE days == julday - JuldayOrigin
<1>4. days \in Int /\ JuldayOrigin + days = julday
  BY OriginIs
<1> HIDE DEF days
<1>5. DecodedIsRight(days, second, e)
  BY <1>3, <1>4, DecodedTimeIs
<1>6. date' = DecodeTime(days, second * Grain + e).date
  BY <1>2 DEF days
<1> QED
  BY <1>4, <1>5, <1>6 DEF DecodedIsRight

\* From the origin of the day numbers on, for ever, the dates that ut_decode_time() gives
\* are those of the civil calendar: day after day, over the ends of months and years, every
\* leap day, the missing year 0 and the switch of calendars, and whole cycles of years
\* later; the time of day and the error of its double change no date.
THEOREM CalendarFollows == CalendarSpec => FollowsCalendar
<1>1. CalendarInit => Civil!Init
  <2> SUFFICES ASSUME CalendarInit PROVE Civil!Init
    OBVIOUS
  <2>1. 0 \in Int /\ Small(0) /\ 0 \in Nat /\ 0 < 86400 /\ 0 * Grain + 0 = 0
    BY GrainIs, SMT DEF Small
  <2>2. -JuldayOrigin \in Int /\ JuldayOrigin + (-JuldayOrigin) = 0
    BY OriginIs
  <2> DEFINE days == -JuldayOrigin
  <2>3. date = DecodeTime(days, 0).date
    BY DEF CalendarInit
  <2> HIDE DEF days
  <2>4. DecodedIsRight(days, 0, 0)
    BY <2>1, <2>2, DecodedTimeIs DEF days
  <2>5. date = JulianDayToGregorianDate(0)
    BY <2>1, <2>2, <2>3, <2>4 DEF DecodedIsRight, days
  <2> QED
    BY <2>5, FirstDay DEF Civil!Init, Civil!Date, Date
<1>2. AskedAndAnswered /\ [CalendarNext]_calendarVars => [Civil!Next]_date
  <2> SUFFICES ASSUME AskedAndAnswered, [CalendarNext]_calendarVars PROVE [Civil!Next]_date
    OBVIOUS
  <2>0. asked.julday \in Nat /\ date = JulianDayToGregorianDate(asked.julday)
    BY AnswerIs
  <2>1. 0 \in Nat /\ 0 < 86400
    BY SMT
  <2>2. CASE AskNextDay
    <3>1. date' = JulianDayToGregorianDate(asked.julday + 1)
      BY <2>0, <2>1, <2>2, AskLeads, SMT DEF AskNextDay
    <3>2. JulianDayToGregorianDate(asked.julday + 1) = Civil!Tomorrow
      <4> DEFINE j == asked.julday
      <4>1. j \in Nat /\ date = JulianDayToGregorianDate(j)
        BY <2>0
      <4> HIDE DEF j
      <4>2. CASE j + 1 < GregorianStart
        BY <4>1, <4>2, NextJulianDay DEF j
      <4>3. CASE j = GregorianStart - 1
        <5>1. j + 1 = GregorianStart
          BY <4>3, SMT DEF GregorianStart
        <5>2. date = Civil!LastJulian /\ JulianDayToGregorianDate(j + 1) = Civil!FirstGregorian
          BY <4>1, <4>3, <5>1, LastJulianIs
        <5> QED
          BY <5>2 DEF Civil!Tomorrow, j
      <4>4. CASE j >= GregorianStart
        BY <4>1, <4>4, NextGregorianDay DEF j
      <4> QED
        BY <4>1, <4>2, <4>3, <4>4, SMT DEF GregorianStart
    <3> QED
      BY <3>1, <3>2 DEF Civil!Next
  <2>3. CASE AskSecond
    <3>1. PICK second \in Seconds : Ask(asked.julday, second)
      BY <2>3 DEF AskSecond
    <3>2. second \in Nat /\ second < 86400
      BY ClientIs
    <3>3. date' = JulianDayToGregorianDate(asked.julday)
      BY <2>0, <3>1, <3>2, AskLeads
    <3> QED
      BY <2>0, <3>3
  <2>4. ASSUME NEW n \in Spans, AskYearsLater(n) PROVE [Civil!Next]_date
    <3>0. n \in Nat
      BY ClientAssumption
    <3>2. ASSUME n % 4 = 0, asked.julday + 1461 * (n \div 4) < GregorianStart - 366,
                 Ask(asked.julday + 1461 * (n \div 4), 0)
          PROVE  Civil!Next
      <4> DEFINE j == asked.julday
                 m == n \div 4
      <4>1. j \in Nat /\ m \in Nat /\ n = 4 * m
        BY <2>0, <3>0, <3>2, SMT
      <4>2. j + 1461 * m < GregorianStart - 366 /\ Ask(j + 1461 * m, 0) /\ date = JulianDayToGregorianDate(j)
        BY <2>0, <3>2
      <4>0. GregorianStart = 2299161
        BY DEF GregorianStart
      <4> HIDE DEF j, m
      <4>3. j + 1461 * m \in Nat
        BY <4>1, SMT
      <4>4. date' = JulianDayToGregorianDate(j + 1461 * m)
        BY <2>1, <4>2, <4>3, AskLeads
      <4>5. j + 1461 * m < 2298795
        BY <4>0, <4>1, <4>2, SMT
      <4>6. date' = Civil!Later(4 * m) /\ Civil!Ordinal(date.year) + 4 * m < 1582
        BY <4>1, <4>2, <4>4, <4>5, JulianYearsLater
      <4> QED
        BY <3>2, <4>1, <4>6 DEF Civil!Next
    <3>3. ASSUME n % 400 = 0, asked.julday > GregorianStart + 366,
                 Ask(asked.julday + 146097 * (n \div 400), 0)
          PROVE  Civil!Next
      <4> DEFINE j == asked.julday
                 m == n \div 400
      <4>1. j \in Nat /\ m \in Nat /\ n = 400 * m
        BY <2>0, <3>0, <3>3, SMT
      <4>2. j > GregorianStart + 366 /\ Ask(j + 146097 * m, 0) /\ date = JulianDayToGregorianDate(j)
        BY <2>0, <3>3
      <4>0. GregorianStart = 2299161
        BY DEF GregorianStart
      <4> HIDE DEF j, m
      <4>3. j + 146097 * m \in Nat
        BY <4>1, SMT
      <4>4. date' = JulianDayToGregorianDate(j + 146097 * m)
        BY <2>1, <4>2, <4>3, AskLeads
      <4>5. j > 2299527
        BY <4>0, <4>1, <4>2, SMT
      <4>6. date' = Civil!Later(400 * m) /\ date.year > 1582
        BY <4>1, <4>2, <4>4, <4>5, GregorianYearsLater
      <4> QED
        BY <3>3, <4>1, <4>6 DEF Civil!Next
    <3> QED
      BY <2>4, <3>2, <3>3 DEF AskYearsLater
  <2>5. CASE UNCHANGED calendarVars
    BY <2>5 DEF calendarVars
  <2> QED
    BY <2>2, <2>3, <2>4, <2>5 DEF CalendarNext
<1> QED
  BY <1>1, <1>2, AlwaysAnswered, PTL DEF CalendarSpec, FollowsCalendar, Civil!Spec
=============================================================================
