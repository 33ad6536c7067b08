----------------------------- MODULE SearchTree -----------------------------
(***************************************************************************)
(* src/lib/tsearch.c: the binary search trees that builds without a        *)
(* <search.h> use, as values.  A tree is Leaf (the null pointer) or a node *)
(* with a key, here a number, and two trees.  The functions change a tree  *)
(* in place; the operators return the changed one.                         *)
(***************************************************************************)
EXTENDS Integers

Leaf == [key |-> "none"]
Node(key, left, right) == [key |-> key, left |-> left, right |-> right]

IsLeaf(t) == t = Leaf

RECURSIVE Keys(_), Tfind(_, _), Tsearch(_, _), Leftmost(_), WithoutLeftmost(_), Tdelete(_, _), SearchTrees(_)

Keys(t) == IF IsLeaf(t) THEN {} ELSE {t.key} \cup Keys(t.left) \cup Keys(t.right)

\* tfind(): is the key on the path it takes?
Tfind(key, t) ==
  /\ ~IsLeaf(t)
  /\ key = t.key \/ Tfind(key, IF key < t.key THEN t.left ELSE t.right)

\* tsearch(): a key that is not there yet becomes a leaf of the path it takes.
Tsearch(key, t) ==
  IF IsLeaf(t) THEN Node(key, Leaf, Leaf)
  ELSE IF key = t.key THEN t
  ELSE IF key < t.key THEN [t EXCEPT !.left = Tsearch(key, @)]
  ELSE [t EXCEPT !.right = Tsearch(key, @)]

\* The next key after that of a node: the leftmost of its right tree.
Leftmost(t) == IF IsLeaf(t.left) THEN t.key ELSE Leftmost(t.left)
WithoutLeftmost(t) == IF IsLeaf(t.left) THEN t.right ELSE [t EXCEPT !.left = WithoutLeftmost(@)]

\* What takes the place of the root: the only tree below it, or its successor.
WithoutRoot(t) ==
  IF IsLeaf(t.left) THEN t.right
  ELSE IF IsLeaf(t.right) THEN t.left
  ELSE Node(Leftmost(t.right), t.left, WithoutLeftmost(t.right))

\* tdelete(), which returns NULL if tfind() would.
Tdelete(key, t) ==
  IF IsLeaf(t) THEN t
  ELSE IF key = t.key THEN WithoutRoot(t)
  ELSE IF key < t.key THEN [t EXCEPT !.left = Tdelete(key, @)]
  ELSE [t EXCEPT !.right = Tdelete(key, @)]

\* The trees with keys among S where every key is on the path that tfind() takes.
SearchTrees(S) ==
  {Leaf} \cup
  UNION { { Node(key, left, right) : left \in SearchTrees({ k \in S : k < key }),
                                     right \in SearchTrees({ k \in S : k > key }) } : key \in S }
=============================================================================
