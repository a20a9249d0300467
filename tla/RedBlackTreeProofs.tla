--------------------------- MODULE RedBlackTreeProofs ---------------------------
(***************************************************************************)
(* Proofs about RedBlackTree, for every finite set of positive keys:  the  *)
(* types, that every operation of rbt.c leaves a red-black tree with its   *)
(* keys in order unless a repair has slipped, and that rbt.c implements    *)
(* SearchTree.                                                             *)
(*                                                                         *)
(* The tree is a record of links, and "in the subtree of n" and "black     *)
(* nodes below n" are recursive.  The invariant asks for two functions     *)
(* that satisfy them locally, at each node and its two children:  D gives  *)
(* the keys below a node, H the black nodes on the paths down from it.  An *)
(* operation changes a few links, so the new D and H differ from the old   *)
(* ones at the nodes it touches or on one path.  Below, Inorder and        *)
(* BlackHeights, which the properties are stated with, are then computed   *)
(* from D and H by induction over the size of the subtree.                 *)
(***************************************************************************)
EXTENDS RedBlackTree, FiniteSetTheorems, WellFoundedInduction, TLAPS
-------------------------------------------------------------------------------
(* Trees.  D[n] are the keys in the subtree of the node n. *)

Subtrees == [Node -> SUBSET Keys]

\* a lies on side s of b.
Lies(s, a, b) == IF s = "left" THEN a < b ELSE b < a

\* The subtree of n: what is below each child lies on the child's side.
OrderedAt(t, D, n) ==
  /\ \A m \in Node : m \in D[n] <=> m = n \/ \E s \in Side : m \in D[t.child[s][n]]
  /\ \A s \in Side : \A m \in D[t.child[s][n]] : Lies(s, m, n)

\* The links of n to its children and to its parent have a counterpart.
LinkedAt(t, D, n) ==
  /\ \A s \in Side :
       t.child[s][n] # Guard =>
         t.child[s][n] \in D[t.root] /\ t.parent[t.child[s][n]] = n
  /\ n # t.root =>
       t.parent[n] \in D[t.root] /\ \E s \in Side : t.child[s][t.parent[n]] = n

\* A search tree, with the keys D[t.root].
Shape(t, D) ==
  /\ D[Guard] = {}
  /\ t.root # Guard => t.root \in D[t.root] /\ t.parent[t.root] = Guard
  /\ \A n \in D[t.root] :
       OrderedAt(t, D, n) /\ LinkedAt(t, D, n) /\ D[n] \subseteq D[t.root]

-------------------------------------------------------------------------------
(* Colours.  H[n] is the number of black nodes on the paths down from n. *)

Heights == [Node -> Nat]
Black(t, n) == IF t.color[n] = BLACK THEN 1 ELSE 0

\* An edge of Short leads to a subtree with one black node less than its sibling.
Level(t, D, H, Short) ==
  /\ H[Guard] = 0 /\ t.color[Guard] = BLACK
  /\ \A n \in D[t.root] : \A s \in Side :
       H[n] = H[t.child[s][n]] + Black(t, n)
              + (IF <<n, s>> \in Short THEN 1 ELSE 0)

\* A red node has no red child, except for those of the set Odd.
Calm(t, D, Odd) ==
  \A n \in D[t.root] : \A s \in Side :
    t.color[n] = RED /\ t.child[s][n] \notin Odd =>
      t.color[t.child[s][n]] = BLACK

RootBlack(t) == t.color[t.root] = BLACK

Colored(t, D, H) == Level(t, D, H, {}) /\ Calm(t, D, {}) /\ RootBlack(t)

\* The subtree of z, on side s of its parent, has one black node too few.
ShortEdge(t, D, H, z, s) ==
  /\ t.color[z] = BLACK /\ z # t.root /\ t.parent[z] \in D[t.root]
  /\ t.child[s][t.parent[z]] = z
  /\ Level(t, D, H, {<<t.parent[z], s>>}) /\ Calm(t, D, {}) /\ RootBlack(t)

-------------------------------------------------------------------------------
(* The inductive invariant: what holds at each place of the code, in between two *)
(* changes of the links.  Broken is the state after a slip, or after a deletion   *)
(* that freed nodes of the tree, about which only TypeOK is claimed.              *)

Direction == IF arg < y THEN "left" ELSE "right"

\* The search is where arg is, or where it would be.
DescendInv(D) ==
  /\ arg \in D[tree.root] => arg \in D[x]
  /\ IF y = Guard THEN x = tree.root
     ELSE /\ y \in D[tree.root] /\ y # arg /\ x = tree.child[Direction][y]
          /\ \A m \in D[tree.root], s \in Side :
               y \in D[tree.child[s][m]] => Lies(s, arg, m)

\* What has been passed on the way to the least key is greater.
LeastInv(D) ==
  LET right == tree.child["right"][arg]
  IN /\ op = "delete" /\ arg \in D[tree.root]
     /\ tree.child["left"][arg] # Guard
     /\ x \in D[right]
     /\ \A m \in D[right] \ D[x] : x < m

\* z is red, and may have a red parent.
RestoreInv(D, H) ==
  /\ x \in D[tree.root] /\ tree.color[x] = RED
  /\ Level(tree, D, H, {}) /\ Calm(tree, D, {x})
  /\ x = tree.root \/ RootBlack(tree)

OuterInv(D, H) ==
  /\ x \in D[tree.root] /\ tree.color[x] = RED
  /\ Level(tree, D, H, {}) /\ Calm(tree, D, {x}) /\ RootBlack(tree)
  /\ x # tree.root /\ tree.color[Parent] = RED
  /\ tree.child[side][Parent] = x /\ tree.child[side][Grandparent] = Parent
  /\ tree.color[tree.child[Other(side)][Grandparent]] = BLACK

\* The deleted node still has a child of the tree, which rbt_free_node() will
\* free, or it has no children.
Doomed(D) == \E s \in Side : tree.child[s][arg] \in D[tree.root]
Childless == \A s \in Side : tree.child[s][arg] = Guard
DeletedInv(D) ==
  /\ op = "delete" /\ answer.op = "delete" /\ answer.found
  /\ arg \in Keys \ D[tree.root]
  /\ Doomed(D) \/ Childless

ShortAt(D, H, s) == ShortEdge(tree, D, H, x, s)

MendInv(D, H) ==
  \/ tree.color[x] = RED /\ Doomed(D)
  \/ x = tree.root /\ Colored(tree, D, H)
  \/ \E s \in Side : ShortAt(D, H, s)

SiblingInv(D, H) ==
  /\ ShortAt(D, H, side)
  /\ w = tree.child[Other(side)][Parent] /\ w # Guard /\ tree.color[w] = BLACK

FreeInv(D, H) == Doomed(D) \/ Colored(tree, D, H)

PlaceInv(D, H) ==
  /\ pc \in {"idle", "descend", "least"} => Colored(tree, D, H)
  /\ pc = "descend" => op # "none" /\ arg \in Keys /\ DescendInv(D)
  /\ pc = "least" => LeastInv(D)
  /\ pc = "restore" => RestoreInv(D, H)
  /\ pc = "outer" => OuterInv(D, H)
  /\ pc \in {"mend", "nephews", "last", "free"} => DeletedInv(D)
  /\ pc = "mend" => MendInv(D, H)
  /\ pc \in {"nephews", "last"} => SiblingInv(D, H)
  /\ pc = "last" => tree.color[Far] = RED
  /\ pc = "free" => FreeInv(D, H)

IInv ==
  /\ TypeOK
  /\ ~Broken =>
       \E D \in Subtrees, H \in Heights : Shape(tree, D) /\ PlaceInv(D, H)

-------------------------------------------------------------------------------
(* Induction.  The theorems of the library that take a predicate cannot be     *)
(* instantiated; that a non-empty set has a minimal element can.               *)

\* Induction over the natural numbers, with a set for the predicate.
LEMMA NatsOf ==
  ASSUME NEW S, 0 \in S, \A n \in Nat : n \in S => n + 1 \in S
  PROVE  Nat \subseteq S
<1> DEFINE R == OpToRel(<, Nat)
           T == Nat \ S
<1>1. IsWellFoundedOn(R, Nat)
  BY NatLessThanWellFounded
<1> SUFFICES ASSUME T # {} PROVE FALSE
  OBVIOUS
<1>2. PICK m \in T : \A k \in T : ~(<<k, m>> \in R)
  <2> HIDE DEF R
  <2> QED BY <1>1, WFMin
<1>3. m \in Nat /\ m # 0 /\ m - 1 \in Nat
  OBVIOUS
<1>4. <<m - 1, m>> \in R
  BY <1>3 DEF OpToRel
<1>5. m - 1 \notin T
  <2> HIDE DEF R
  <2> QED BY <1>2, <1>4
<1> QED BY <1>3, <1>5

\* A set of subsets of a finite set has a minimal one.
LEMMA MinimalSet ==
  ASSUME NEW S, IsFiniteSet(S), NEW C \in SUBSET SUBSET S, C # {}
  PROVE  \E m \in C : \A k \in C : k \subseteq m => k = m
<1> DEFINE R == StrictSubsetOrdering(S)
<1>1. IsWellFoundedOn(R, FiniteSubsetsOf(S))
  BY FS_StrictSubsetOrderingWellFounded
<1>2. C \subseteq FiniteSubsetsOf(S)
  BY FS_Subset DEF FiniteSubsetsOf
<1>3. PICK m \in C : \A k \in C : ~(<<k, m>> \in R)
  <2> HIDE DEF R
  <2> QED BY <1>1, <1>2, WFMin
<1> QED BY <1>3, <1>2 DEF StrictSubsetOrdering, FiniteSubsetsOf

\* A function that is defined by its value at 0 and by a step exists.
Series(f, a, F) == f[0] = a /\ \A n \in Nat : f[n + 1] = F[f[n]]

\* A function on the numbers that starts with a and steps by F exists.
LEMMA Iterates ==
  ASSUME NEW X, NEW a \in X, NEW F \in [X -> X]
  PROVE  \E f \in [Nat -> X] : Series(f, a, F)
<1> DEFINE Upto(n, f) == /\ f \in [0 .. n -> X] /\ f[0] = a
                         /\ \A k \in 0 .. n - 1 : f[k + 1] = F[f[k]]
           S == {n \in Nat : \E f : Upto(n, f)}
<1>1. 0 \in S
  <2>1. Upto(0, [k \in 0 .. 0 |-> a])
    OBVIOUS
  <2> QED BY <2>1
<1>2. ASSUME NEW n \in Nat, n \in S
      PROVE  n + 1 \in S
  <2>1. PICK f : Upto(n, f)
    BY <1>2
  <2> DEFINE g == [k \in 0 .. n + 1 |-> IF k = n + 1 THEN F[f[n]] ELSE f[k]]
  <2>2. Upto(n + 1, g)
    BY <2>1
  <2> HIDE DEF g
  <2> QED BY <2>2
<1>3. Nat \subseteq S
  <2> HIDE DEF S
  <2> QED BY <1>1, <1>2, NatsOf
<1>4. ASSUME NEW m \in Nat, NEW n \in Nat, m <= n,
             NEW f, Upto(m, f), NEW g, Upto(n, g)
      PROVE  f[m] = g[m]
  <2> DEFINE E == {k \in Nat : k <= m => f[k] = g[k]}
  <2>1. 0 \in E
    BY <1>4
  <2>2. ASSUME NEW k \in Nat, k \in E
        PROVE  k + 1 \in E
    <3> SUFFICES ASSUME k + 1 <= m
                 PROVE  f[k + 1] = g[k + 1]
      OBVIOUS
    <3>1. k \in 0 .. m - 1 /\ k \in 0 .. n - 1
      BY <1>4
    <3>2. f[k] = g[k]
      BY <2>2
    <3> QED BY <1>4, <3>1, <3>2
  <2>3. Nat \subseteq E
    <3> HIDE DEF E
    <3> QED BY <2>1, <2>2, NatsOf
  <2> QED BY <2>3
<1> DEFINE It(n) == CHOOSE f : Upto(n, f)
           h == [n \in Nat |-> It(n)[n]]
<1>5. \A n \in Nat : Upto(n, It(n))
  <2> TAKE n \in Nat
  <2>1. \E f : Upto(n, f)
    BY <1>3
  <2> HIDE DEF Upto
  <2> QED BY <2>1
<1>6. h \in [Nat -> X] /\ h[0] = a
  <2>1. ASSUME NEW n \in Nat
        PROVE  It(n)[n] \in X
    <3>1. Upto(n, It(n))
      BY <1>5
    <3> HIDE DEF It
    <3> QED BY <3>1
  <2>2. It(0)[0] = a
    <3>1. Upto(0, It(0))
      BY <1>5
    <3> HIDE DEF It
    <3> QED BY <3>1
  <2> HIDE DEF It
  <2> QED BY <2>1, <2>2
<1>7. ASSUME NEW n \in Nat
      PROVE  h[n + 1] = F[h[n]]
  <2>1. n + 1 \in Nat
    OBVIOUS
  <2>2. Upto(n + 1, It(n + 1)) /\ Upto(n, It(n))
    <3> HIDE DEF Upto, It
    <3> QED BY <1>5, <2>1
  <2> HIDE DEF It
  <2>3. It(n)[n] = It(n + 1)[n]
    <3> HIDE DEF Upto
    <3> QED BY <2>1, <2>2, <1>4
  <2> QED BY <2>2, <2>3
<1> HIDE DEF h
<1> QED BY <1>6, <1>7 DEF Series

-------------------------------------------------------------------------------
(* What the recursive functions of the tree compute. *)

\* The types of the fields of a tree.
LEMMA TreeTypes ==
  ASSUME NEW t \in Tree
  PROVE  /\ t.root \in Node /\ t.child \in [Side -> [Node -> Node]]
         /\ t.parent \in [Node -> Node] /\ t.color \in [Node -> Color]
         /\ \A s \in Side, n \in Node : t.child[s][n] \in Node
BY DEF Tree

\* The keys are finitely many positive numbers; the guard is none of them.
LEMMA KeysFacts ==
  /\ Keys \subseteq Nat /\ 0 \notin Keys /\ IsFiniteSet(Keys)
  /\ Guard \notin Keys /\ Node = Keys \cup {Guard} /\ Node \subseteq Nat
  /\ Cardinality(Keys) \in Nat
BY KeysAssumption, FS_CardinalityType DEF Guard, Node

\* One link further down are keys still, and nothing is lost.
LEMMA FurtherFacts ==
  ASSUME NEW t \in Tree, NEW S \in SUBSET Keys
  PROVE  /\ Further(t, S) \in SUBSET Keys /\ S \subseteq Further(t, S)
         /\ \A m \in S, s \in Side :
              t.child[s][m] # Guard => t.child[s][m] \in Further(t, S)
<1>1. S \subseteq Node /\ Node = Keys \cup {Guard} /\ Guard \notin Keys
  BY KeysFacts
<1> QED BY <1>1, TreeTypes DEF Further

\* Below(t, n) is the last of a series of sets, and all is reached by then.
LEMMA BelowSeries ==
  ASSUME NEW t \in Tree, NEW n \in Node
  PROVE  \E f \in [Nat -> SUBSET Keys] :
           /\ f[0] = {n} \ {Guard}
           /\ \A d \in Nat : f[d + 1] = Further(t, f[d])
           /\ Below(t, n) = f[Cardinality(Keys)]
<1> DEFINE X == SUBSET Keys
           F == [S \in X |-> Further(t, S)]
           E(g) == [d \in Nat |-> IF d = 0 THEN {n} \ {Guard}
                                  ELSE Further(t, g[d - 1])]
           h == CHOOSE g : g = E(g)
<1>1. F \in [X -> X] /\ {n} \ {Guard} \in X
  BY FurtherFacts, KeysFacts
<1>2. PICK f \in [Nat -> X] :
        f[0] = {n} \ {Guard} /\ \A d \in Nat : f[d + 1] = F[f[d]]
  <2>1. \E f \in [Nat -> X] : Series(f, {n} \ {Guard}, F)
    <3> HIDE DEF X, F
    <3> QED BY <1>1, Iterates
  <2> QED BY <2>1 DEF Series
<1>3. \A d \in Nat : f[d + 1] = Further(t, f[d])
  BY <1>2
<1>4. f = E(f)
  <2>1. ASSUME NEW d \in Nat
        PROVE  f[d] = E(f)[d]
    <3>1. CASE d = 0
      BY <1>2, <3>1
    <3>2. CASE d # 0
      <4>1. d - 1 \in Nat /\ (d - 1) + 1 = d
        BY <3>2
      <4> QED BY <1>3, <3>2, <4>1
    <3> QED BY <3>1, <3>2
  <2>2. E(f) = [d \in Nat |-> E(f)[d]] /\ f = [d \in Nat |-> f[d]]
    BY <1>2
  <2> QED BY <2>1, <2>2
<1>5. ASSUME NEW g, g = E(g)
      PROVE  g = f
  <2> DEFINE S == {d \in Nat : g[d] = f[d]}
  <2>1. \A d \in Nat : g[d] = E(g)[d]
    BY <1>5
  <2>2. 0 \in S
    BY <1>2, <2>1
  <2>3. ASSUME NEW d \in Nat, d \in S
        PROVE  d + 1 \in S
    <3>1. g[d + 1] = Further(t, g[d])
      <4>1. d + 1 \in Nat /\ d + 1 # 0 /\ (d + 1) - 1 = d
        OBVIOUS
      <4>2. g[d + 1] = E(g)[d + 1]
        BY <2>1, <4>1
      <4> QED BY <4>1, <4>2
    <3> QED BY <1>3, <2>3, <3>1
  <2>4. Nat \subseteq S
    <3> HIDE DEF S
    <3> QED BY <2>2, <2>3, NatsOf
  <2>5. g = [d \in Nat |-> g[d]] /\ f = [d \in Nat |-> f[d]]
    BY <1>2, <1>5
  <2> QED BY <2>4, <2>5
<1>6. Below(t, n) = h[Cardinality(Keys)]
  BY DEF Below
<1>7. h = f
  <2> HIDE DEF E
  <2> QED BY <1>4, <1>5
<1> QED BY <1>2, <1>3, <1>6, <1>7

\* Below(t, n) is closed under links, and nothing more than needed.
LEMMA BelowClosed ==
  ASSUME NEW t \in Tree, NEW n \in Node
  PROVE  /\ Below(t, n) \in SUBSET Keys
         /\ n # Guard => n \in Below(t, n)
         /\ \A m \in Below(t, n), s \in Side :
              t.child[s][m] # Guard => t.child[s][m] \in Below(t, n)
<1> DEFINE N == Cardinality(Keys)
<1>1. PICK f \in [Nat -> SUBSET Keys] :
        /\ f[0] = {n} \ {Guard}
        /\ \A d \in Nat : f[d + 1] = Further(t, f[d])
        /\ Below(t, n) = f[N]
  BY BelowSeries
<1>2. \A d \in Nat : f[d] \in SUBSET Keys /\ f[d] \subseteq f[d + 1]
  BY <1>1, FurtherFacts
<1>3. \A d \in Nat : IsFiniteSet(f[d]) /\ Cardinality(f[d]) \in Nat
  BY <1>2, FS_Subset, FS_CardinalityType, KeysFacts
<1> DEFINE S == {d \in Nat : {n} \ {Guard} \subseteq f[d]}
           E == {d \in Nat : f[d + 1] = f[d] \/ Cardinality(f[d]) >= d}
<1>4. Nat \subseteq S
  <2>1. 0 \in S
    BY <1>1
  <2>2. \A d \in Nat : d \in S => d + 1 \in S
    BY <1>2
  <2> HIDE DEF S
  <2> QED BY <2>1, <2>2, NatsOf
<1>5. Nat \subseteq E
  <2>1. 0 \in E
    BY <1>3
  <2>2. ASSUME NEW d \in Nat, d \in E
        PROVE  d + 1 \in E
    <3>1. CASE f[d + 1] = f[d]
      <4>1. f[(d + 1) + 1] = Further(t, f[d + 1]) /\ f[d + 1] = Further(t, f[d])
        BY <1>1
      <4> QED BY <3>1, <4>1
    <3>2. CASE f[d + 1] # f[d]
      <4>1. Cardinality(f[d]) >= d
        BY <2>2, <3>2
      <4>2. f[d] \subseteq f[d + 1] /\ IsFiniteSet(f[d + 1])
        BY <1>2, <1>3
      <4>3. Cardinality(f[d]) <= Cardinality(f[d + 1])
            /\ Cardinality(f[d]) # Cardinality(f[d + 1])
        BY <4>2, <3>2, FS_Subset
      <4>4. Cardinality(f[d + 1]) >= d + 1
        BY <4>1, <4>3, <1>3
      <4> QED BY <4>4
    <3> QED BY <3>1, <3>2
  <2> HIDE DEF E
  <2> QED BY <2>1, <2>2, NatsOf
<1>6. N \in Nat
  BY KeysFacts
<1>7. f[N + 1] = f[N]
  <2>1. CASE Cardinality(f[N]) >= N
    <3>1. f[N] \subseteq Keys /\ Cardinality(f[N]) <= N
      BY <1>2, <1>6, KeysFacts, FS_Subset
    <3>2. Cardinality(Keys) = Cardinality(f[N])
      BY <2>1, <3>1, <1>3, <1>6
    <3>3. Keys = f[N]
      BY <3>1, <3>2, KeysFacts, FS_Subset
    <3>4. f[N] \subseteq f[N + 1] /\ f[N + 1] \subseteq Keys
      BY <1>2, <1>6
    <3> QED BY <3>3, <3>4
  <2> QED BY <2>1, <1>5, <1>6
<1>8. \A m \in f[N], s \in Side :
        t.child[s][m] # Guard => t.child[s][m] \in f[N]
  BY <1>1, <1>2, <1>6, <1>7, FurtherFacts
<1> QED BY <1>1, <1>2, <1>4, <1>6, <1>8

\* Whatever is closed under links and has n has all that is below n.
LEMMA BelowLeast ==
  ASSUME NEW t \in Tree, NEW n \in Node, NEW C \in SUBSET Keys,
         n # Guard => n \in C,
         \A m \in C, s \in Side : t.child[s][m] # Guard => t.child[s][m] \in C
  PROVE  Below(t, n) \subseteq C
<1> DEFINE N == Cardinality(Keys)
<1>1. PICK f \in [Nat -> SUBSET Keys] :
        /\ f[0] = {n} \ {Guard}
        /\ \A d \in Nat : f[d + 1] = Further(t, f[d])
        /\ Below(t, n) = f[N]
  BY BelowSeries
<1> DEFINE S == {d \in Nat : f[d] \subseteq C}
<1>2. 0 \in S
  BY <1>1
<1>3. ASSUME NEW d \in Nat, d \in S
      PROVE  d + 1 \in S
  <2>1. f[d + 1] = Further(t, f[d])
    BY <1>1
  <2> QED BY <1>3, <2>1 DEF Further
<1>4. Nat \subseteq S
  <2> HIDE DEF S
  <2> QED BY <1>2, <1>3, NatsOf
<1> QED BY <1>1, <1>4, KeysFacts

-------------------------------------------------------------------------------
(* Facts about search trees. *)

\* The two sides are opposite, and each orders the nodes strictly.
LEMMA LiesFacts ==
  ASSUME NEW s \in Side, NEW a \in Node, NEW b \in Node
  PROVE  /\ Other(s) \in Side /\ Other(s) # s /\ Other(Other(s)) = s
         /\ \A q \in Side : q = s \/ q = Other(s)
         /\ Lies(Other(s), a, b) <=> Lies(s, b, a)
         /\ ~Lies(s, a, a) /\ ~(Lies(s, a, b) /\ Lies(s, b, a))
         /\ a # b => Lies(s, a, b) \/ Lies(s, b, a)
         /\ \A c \in Node : Lies(s, a, b) /\ Lies(s, b, c) => Lies(s, a, c)
BY KeysFacts DEF Side, Other, Lies

\* The subtree of a child is smaller and of one piece.
LEMMA ChildSubtree ==
  ASSUME NEW t \in Tree, NEW D \in Subtrees, Shape(t, D),
         NEW n \in D[t.root], NEW s \in Side
  PROVE  LET c == t.child[s][n]
         IN /\ n \in Keys /\ n \in D[n] /\ D[n] \subseteq D[t.root]
            /\ c \in Node /\ D[c] \subseteq D[n] /\ n \notin D[c] /\ D[c] # D[n]
            /\ c # Guard => c \in D[t.root] /\ c \in D[c] /\ t.parent[c] = n
            /\ c # n /\ c # t.root
            /\ D[c] \cap D[t.child[Other(s)][n]] = {}
            /\ c # Guard => c # t.child[Other(s)][n]
            /\ c = Guard <=> D[c] = {}
<1> DEFINE c == t.child[s][n]
<1>1. n \in Keys /\ D[t.root] \subseteq Keys /\ t.root \in Node
  BY TreeTypes, KeysFacts DEF Subtrees
<1>2. OrderedAt(t, D, n) /\ LinkedAt(t, D, n) /\ D[n] \subseteq D[t.root]
  BY DEF Shape
<1>3. c \in Node /\ n \in Node /\ D[c] \subseteq Keys
  BY <1>1, TreeTypes, KeysFacts DEF Subtrees
<1>4. n \in D[n] /\ D[c] \subseteq D[n]
  BY <1>2, <1>3, KeysFacts DEF OrderedAt
<1>5. n \notin D[c]
  BY <1>2, <1>3, LiesFacts DEF OrderedAt
<1>6. c # Guard => c \in D[t.root] /\ t.parent[c] = n
  BY <1>2 DEF LinkedAt
<1>7. c # Guard => c \in D[c]
  BY <1>6, <1>3 DEF Shape, OrderedAt
<1>8. c # t.root
  BY <1>1, <1>6, KeysFacts DEF Shape
<1>9. D[c] \cap D[t.child[Other(s)][n]] = {}
  <2> SUFFICES ASSUME NEW m \in D[c], m \in D[t.child[Other(s)][n]]
               PROVE  FALSE
    OBVIOUS
  <2>1. m \in Node
    BY <1>3, KeysFacts
  <2>0. Other(s) \in Side
    BY <2>1, LiesFacts
  <2>2. Lies(s, m, n) /\ Lies(Other(s), m, n)
    BY <1>2, <2>0 DEF OrderedAt
  <2> QED BY <2>1, <2>2, <1>3, LiesFacts
<1>10. c = Guard <=> D[c] = {}
  BY <1>7 DEF Shape
<1> QED BY <1>1, <1>2, <1>3, <1>4, <1>5, <1>6, <1>7, <1>8, <1>9, <1>10

\* Induction over subtrees, smaller ones first.
LEMMA SmallestSubtree ==
  ASSUME NEW D \in Subtrees, NEW B \in SUBSET Node, B # {}
  PROVE  \E n \in B : \A m \in B : D[m] \subseteq D[n] => D[m] = D[n]
<1> DEFINE C == {D[n] : n \in B}
<1>1. C \in SUBSET SUBSET Keys /\ C # {}
  BY DEF Subtrees
<1>2. PICK S \in C : \A U \in C : U \subseteq S => U = S
  <2> HIDE DEF C
  <2> QED BY <1>1, KeysFacts, MinimalSet
<1> QED BY <1>2

\* A subtree with a node has the nodes below it, and those above it up to its own
\* root.
LEMMA Nested ==
  ASSUME NEW t \in Tree, NEW D \in Subtrees, Shape(t, D),
         NEW n \in D[t.root], NEW m \in D[n]
  PROVE  /\ m \in D[t.root]
         /\ \A s \in Side : t.child[s][m] # Guard => t.child[s][m] \in D[n]
         /\ m # n => t.parent[m] \in D[n]
<1> DEFINE Good(k) == /\ \A s \in Side :
                           t.child[s][m] # Guard => t.child[s][m] \in D[k]
                      /\ m # k => t.parent[m] \in D[k]
           B == {k \in D[t.root] : m \in D[k] /\ ~Good(k)}
<1>0. D[t.root] \subseteq Node
  BY TreeTypes, KeysFacts DEF Subtrees
<1>1. m \in D[t.root] /\ m \in Node
  BY ChildSubtree, <1>0 DEF Shape
<1> SUFFICES ASSUME B # {} PROVE FALSE
  BY <1>1
<1>2. PICK k \in B : \A j \in B : D[j] \subseteq D[k] => D[j] = D[k]
  <2>1. B \in SUBSET Node
    BY <1>0
  <2> HIDE DEF B
  <2> QED BY <2>1, SmallestSubtree
<1>3. k \in D[t.root] /\ m \in D[k] /\ OrderedAt(t, D, k)
  BY <1>2 DEF Shape
<1>4. CASE m = k
  <2>1. \A s \in Side : t.child[s][m] # Guard =>
          t.child[s][m] \in D[t.child[s][m]] /\ D[t.child[s][m]] \subseteq D[k]
    BY <1>3, <1>4, ChildSubtree
  <2> QED BY <1>2, <1>4, <2>1
<1>5. CASE m # k
  <2>1. PICK s \in Side : m \in D[t.child[s][k]]
    BY <1>1, <1>3, <1>5 DEF OrderedAt
  <2> DEFINE c == t.child[s][k]
  <2>2. /\ c \in D[t.root] /\ D[c] \subseteq D[k] /\ D[c] # D[k]
        /\ t.parent[c] = k /\ k \in D[k]
    BY <1>3, <2>1, ChildSubtree
  <2>3. c \notin B
    BY <1>2, <2>2
  <2>4. Good(c)
    BY <2>1, <2>2, <2>3
  <2>5. Good(k)
    BY <2>2, <2>4
  <2> QED BY <1>2, <2>5
<1> QED BY <1>4, <1>5

\* The nodes of a subtree are the nodes that can be reached.
LEMMA BelowIsSubtree ==
  ASSUME NEW t \in Tree, NEW D \in Subtrees, Shape(t, D),
         NEW n \in Node, n = Guard \/ n \in D[t.root]
  PROVE  Below(t, n) = D[n]
<1> DEFINE W == Below(t, n)
<1>1. D[n] \in SUBSET Keys
  BY DEF Subtrees
<1>2. /\ W \in SUBSET Keys
      /\ n # Guard => n \in W
      /\ \A m \in W, s \in Side : t.child[s][m] # Guard => t.child[s][m] \in W
  BY BelowClosed
<1>3. n # Guard => n \in D[n]
  BY ChildSubtree DEF Side
<1>4. W \subseteq D[n]
  <2>1. \A m \in D[n], s \in Side :
          t.child[s][m] # Guard => t.child[s][m] \in D[n]
    BY Nested DEF Shape
  <2> QED BY <1>1, <1>3, <2>1, BelowLeast
<1>5. D[n] \subseteq W
  <2> DEFINE B == {k \in D[t.root] : k \in W /\ ~(D[k] \subseteq W)}
  <2>1. CASE n = Guard
    BY <2>1 DEF Shape
  <2>2. CASE n # Guard
    <3>5. n \in D[t.root] /\ n \in W
      BY <1>2, <2>2
    <3> HIDE DEF W
    <3> SUFFICES ASSUME B # {} PROVE FALSE
      BY <3>5
    <3>0. B \in SUBSET Node
      BY KeysFacts, TreeTypes DEF Subtrees
    <3>1. PICK k \in B : \A j \in B : D[j] \subseteq D[k] => D[j] = D[k]
      <4> HIDE DEF B
      <4> QED BY <3>0, SmallestSubtree
    <3>2. k \in D[t.root] /\ k \in W /\ OrderedAt(t, D, k)
      BY <3>1 DEF Shape
    <3>3. ASSUME NEW s \in Side
          PROVE  D[t.child[s][k]] \subseteq W
      <4> DEFINE c == t.child[s][k]
      <4>1. CASE c = Guard
        BY <4>1 DEF Shape
      <4>2. CASE c # Guard
        <5>1. c \in D[t.root] /\ D[c] \subseteq D[k] /\ D[c] # D[k] /\ c \in W
          BY <1>2, <3>2, <4>2, ChildSubtree
        <5> QED BY <3>1, <5>1
      <4> QED BY <4>1, <4>2
    <3>4. D[k] \subseteq W
      <4>1. D[k] \subseteq Node
        BY <3>0, <3>1, KeysFacts DEF Subtrees
      <4> QED BY <3>2, <3>3, <4>1 DEF OrderedAt
    <3> QED BY <3>1, <3>4
  <2> QED BY <2>1, <2>2
<1> QED BY <1>4, <1>5

\* A node with no children of its own has nothing below it.
LEMMA BelowAlone ==
  ASSUME NEW t \in Tree, NEW n \in Keys
  PROVE  /\ (\A s \in Side : t.child[s][n] = Guard) => Below(t, n) = {n}
         /\ Below(t, n) = {n} =>
              \A s \in Side : t.child[s][n] \in {n, Guard}
<1>1. n \in Node /\ n # Guard
  BY KeysFacts
<1>2. n \in Below(t, n)
  BY <1>1, BelowClosed
<1>3. ASSUME \A s \in Side : t.child[s][n] = Guard
      PROVE  Below(t, n) \subseteq {n}
  <2> DEFINE C == {n}
  <2>1. C \in SUBSET Keys /\ n \in C
        /\ \A m \in C, s \in Side : t.child[s][m] = Guard
    BY <1>3
  <2> HIDE DEF C
  <2>2. Below(t, n) \subseteq C
    BY <1>1, <2>1, BelowLeast
  <2> QED BY <2>2 DEF C
<1>4. \A s \in Side : t.child[s][n] # Guard => t.child[s][n] \in Below(t, n)
  BY <1>1, <1>2, BelowClosed
<1> QED BY <1>2, <1>3, <1>4

\* A subtree has at most as many keys as there are, and a child's has fewer.
LEMMA SubtreeSizes ==
  ASSUME NEW t \in Tree, NEW D \in Subtrees, Shape(t, D),
         NEW n \in D[t.root]
  PROVE  /\ Cardinality(D[n]) \in Nat \ {0}
         /\ Cardinality(D[n]) <= Cardinality(Keys)
         /\ \A s \in Side : /\ Cardinality(D[t.child[s][n]]) \in Nat
                            /\ Cardinality(D[t.child[s][n]]) < Cardinality(D[n])
<1>1. \A m \in Node : /\ IsFiniteSet(D[m]) /\ Cardinality(D[m]) \in Nat
                      /\ Cardinality(D[m]) <= Cardinality(Keys)
  BY KeysFacts, FS_Subset, FS_CardinalityType DEF Subtrees
<1>2. n \in Node
  BY TreeTypes, KeysFacts DEF Subtrees
<1>3. ASSUME NEW s \in Side
      PROVE  /\ Cardinality(D[t.child[s][n]]) \in Nat
             /\ Cardinality(D[t.child[s][n]]) < Cardinality(D[n])
  <2>1. /\ t.child[s][n] \in Node /\ D[t.child[s][n]] \subseteq D[n]
        /\ D[t.child[s][n]] # D[n]
    BY ChildSubtree
  <2>2. /\ Cardinality(D[t.child[s][n]]) <= Cardinality(D[n])
        /\ Cardinality(D[t.child[s][n]]) # Cardinality(D[n])
    BY <1>1, <1>2, <2>1, FS_Subset
  <2> QED BY <1>1, <1>2, <2>1, <2>2
<1>4. "left" \in Side
  BY DEF Side
<1> QED BY <1>1, <1>2, <1>3, <1>4

\* bh of BlackHeights() as a series, and walk of Inorder().
LEMMA HeightSeries ==
  ASSUME NEW t \in Tree
  PROVE  \E f \in [Nat -> [Node -> SUBSET Nat]] :
           /\ f[0] = [n \in Node |-> {0}]
           /\ \A d \in Nat : f[d + 1] = Raised(t, f[d])
           /\ BlackHeights(t) = f[Cardinality(Keys)][t.root]
<1> DEFINE X == [Node -> SUBSET Nat]
           F == [g \in X |-> Raised(t, g)]
           first == [n \in Node |-> {0}]
           E(g) == [d \in Nat |-> IF d = 0 THEN first ELSE Raised(t, g[d - 1])]
           h == CHOOSE g : g = E(g)
<1>1. F \in [X -> X] /\ first \in X
  <2>1. ASSUME NEW g \in X
        PROVE  Raised(t, g) \in X
    <3>1. ASSUME NEW n \in Node
          PROVE  {k + (IF t.color[n] = BLACK THEN 1 ELSE 0) :
                    k \in UNION {g[t.child[s][n]] : s \in Side}} \in SUBSET Nat
      <4>1. UNION {g[t.child[s][n]] : s \in Side} \subseteq Nat
        BY TreeTypes
      <4> QED BY <4>1
    <3> QED BY <3>1 DEF Raised
  <2> QED BY <2>1
<1>2. PICK f \in [Nat -> X] : f[0] = first /\ \A d \in Nat : f[d + 1] = F[f[d]]
  <2>1. \E f \in [Nat -> X] : Series(f, first, F)
    <3> HIDE DEF X, F, first
    <3> QED BY <1>1, Iterates
  <2> HIDE DEF X, F, first
  <2> QED BY <2>1 DEF Series
<1>3. \A d \in Nat : f[d + 1] = Raised(t, f[d])
  <2> HIDE DEF X
  <2> QED BY <1>2
<1> HIDE DEF X, first
<1>4. f = E(f)
  <2>1. ASSUME NEW d \in Nat
        PROVE  f[d] = E(f)[d]
    <3>1. CASE d = 0
      BY <1>2, <3>1
    <3>2. CASE d # 0
      <4>1. d - 1 \in Nat /\ (d - 1) + 1 = d
        BY <3>2
      <4> QED BY <1>3, <3>2, <4>1
    <3> QED BY <3>1, <3>2
  <2>2. E(f) = [d \in Nat |-> E(f)[d]] /\ f = [d \in Nat |-> f[d]]
    BY <1>2
  <2> QED BY <2>1, <2>2
<1>5. ASSUME NEW g, g = E(g)
      PROVE  g = f
  <2> DEFINE S == {d \in Nat : g[d] = f[d]}
  <2>1. \A d \in Nat : g[d] = E(g)[d]
    BY <1>5
  <2>2. 0 \in S
    BY <1>2, <2>1
  <2>3. ASSUME NEW d \in Nat, d \in S
        PROVE  d + 1 \in S
    <3>1. g[d + 1] = Raised(t, g[d])
      <4>1. d + 1 \in Nat /\ d + 1 # 0 /\ (d + 1) - 1 = d
        OBVIOUS
      <4>2. g[d + 1] = E(g)[d + 1]
        BY <2>1, <4>1
      <4> QED BY <4>1, <4>2
    <3> QED BY <1>3, <2>3, <3>1
  <2>4. Nat \subseteq S
    <3> HIDE DEF S
    <3> QED BY <2>2, <2>3, NatsOf
  <2>5. g = [d \in Nat |-> g[d]] /\ f = [d \in Nat |-> f[d]]
    BY <1>2, <1>5
  <2> QED BY <2>4, <2>5
<1>6. BlackHeights(t) = h[Cardinality(Keys)][t.root]
  BY DEF BlackHeights, first
<1>7. h = f
  <2> HIDE DEF E
  <2> QED BY <1>4, <1>5
<1> QED BY <1>2, <1>3, <1>6, <1>7 DEF X, first

\* When no edge is short, all paths have as many black nodes.
LEMMA OneBlackHeight ==
  ASSUME NEW t \in Tree, NEW D \in Subtrees, NEW H \in Heights,
         Shape(t, D), Level(t, D, H, {})
  PROVE  BlackHeights(t) = {H[t.root]}
<1> DEFINE N == Cardinality(Keys)
           Inside(n) == n = Guard \/ n \in D[t.root]
<1>1. PICK f \in [Nat -> [Node -> SUBSET Nat]] :
        /\ f[0] = [n \in Node |-> {0}]
        /\ \A d \in Nat : f[d + 1] = Raised(t, f[d])
        /\ BlackHeights(t) = f[N][t.root]
  BY HeightSeries
<1>2. /\ t.root \in Node /\ D[t.root] \subseteq Node /\ D[Guard] = {}
      /\ H[Guard] = 0 /\ \A n \in Node : H[n] \in Nat /\ n \in Nat
      /\ Guard \in Node /\ N \in Nat
  BY TreeTypes, KeysFacts DEF Subtrees, Heights, Level, Shape
<1> DEFINE S == {d \in Nat : \A n \in Node :
                   Inside(n) /\ Cardinality(D[n]) <= d => f[d][n] = {H[n]}}
<1>3. 0 \in S
  <2> SUFFICES ASSUME NEW n \in Node, Inside(n), Cardinality(D[n]) <= 0
               PROVE  f[0][n] = {H[n]}
    OBVIOUS
  <2>1. n = Guard
    BY SubtreeSizes
  <2> QED BY <1>1, <1>2, <2>1
<1>4. ASSUME NEW d \in Nat, d \in S
      PROVE  d + 1 \in S
  <2> SUFFICES ASSUME NEW n \in Node, Inside(n), Cardinality(D[n]) <= d + 1
               PROVE  f[d + 1][n] = {H[n]}
    OBVIOUS
  <2>1. f[d + 1][n] = IF n = Guard THEN {0}
                      ELSE {k + Black(t, n) :
                              k \in UNION {f[d][t.child[s][n]] : s \in Side}}
    <3>1. f[d + 1] = Raised(t, f[d])
      BY <1>1
    <3>2. Raised(t, f[d])[n] =
            IF n = Guard THEN {0}
            ELSE {k + (IF t.color[n] = BLACK THEN 1 ELSE 0) :
                    k \in UNION {f[d][t.child[s][n]] : s \in Side}}
      BY DEF Raised
    <3>3. Black(t, n) = IF t.color[n] = BLACK THEN 1 ELSE 0
      BY DEF Black
    <3> QED BY <3>1, <3>2, <3>3
  <2>2. CASE n = Guard
    BY <1>2, <2>1, <2>2
  <2>3. CASE n # Guard
    <3>1. n \in D[t.root]
      BY <2>3
    <3>2. ASSUME NEW s \in Side
          PROVE  f[d][t.child[s][n]] = {H[t.child[s][n]]}
                 /\ H[n] = H[t.child[s][n]] + Black(t, n)
      <4> DEFINE c == t.child[s][n]
      <4>1. c \in Node /\ Inside(c)
        BY <3>1, ChildSubtree
      <4>2. Cardinality(D[c]) <= d
        <5>1. Cardinality(D[c]) \in Nat /\ Cardinality(D[c]) < Cardinality(D[n])
              /\ Cardinality(D[n]) \in Nat
          BY <3>1, SubtreeSizes
        <5> QED BY <5>1
      <4>3. f[d][c] = {H[c]}
        BY <1>4, <4>1, <4>2
      <4>4. H[n] = H[c] + Black(t, n) + 0
        BY <3>1 DEF Level
      <4>5. H[c] \in Nat /\ Black(t, n) \in Nat
        BY <1>2, <4>1 DEF Black
      <4> QED BY <4>3, <4>4, <4>5
    <3>3. UNION {f[d][t.child[s][n]] : s \in Side}
          = {H[t.child["left"][n]], H[t.child["right"][n]]}
      BY <3>2 DEF Side
    <3>4. /\ H[n] = H[t.child["left"][n]] + Black(t, n)
          /\ H[n] = H[t.child["right"][n]] + Black(t, n)
      BY <3>2 DEF Side
    <3>5. {k + Black(t, n) : k \in {H[t.child["left"][n]],
                                    H[t.child["right"][n]]}} = {H[n]}
      BY <3>4
    <3> QED BY <2>1, <2>3, <3>3, <3>5
  <2> QED BY <2>2, <2>3
<1>5. Nat \subseteq S
  <2> HIDE DEF S
  <2> QED BY <1>3, <1>4, NatsOf
<1>6. Inside(t.root)
  BY DEF Shape
<1>7. Cardinality(D[t.root]) <= N
  <2>1. D[t.root] \in SUBSET Keys
    BY <1>2 DEF Subtrees
  <2> QED BY <2>1, KeysFacts, FS_Subset
<1> QED BY <1>1, <1>2, <1>5, <1>6, <1>7

\* An ascending list of the keys S.
Ascending(l, S) ==
  /\ l \in Seq(Node)
  /\ \A i, j \in DOMAIN l : i < j => l[i] < l[j]
  /\ {l[i] : i \in DOMAIN l} = S

\* Two ascending lists with a key between them make one.
LEMMA AscendingJoin ==
  ASSUME NEW l, NEW r, NEW n \in Node, NEW S \in SUBSET Node, NEW U \in SUBSET Node,
         Ascending(l, S), Ascending(r, U),
         \A m \in S : m < n, \A m \in U : n < m
  PROVE  Ascending(l \o <<n>> \o r, S \cup {n} \cup U)
<1> DEFINE a == Len(l)
           b == Len(r)
           j == l \o <<n>> \o r
<1>0. Node \subseteq Nat
  BY KeysFacts
<1>1. /\ l \in Seq(Node) /\ r \in Seq(Node)
      /\ a \in Nat /\ b \in Nat /\ DOMAIN l = 1 .. a /\ DOMAIN r = 1 .. b
  BY DEF Ascending
<1>2. /\ j \in Seq(Node) /\ Len(j) = a + 1 + b /\ DOMAIN j = 1 .. a + 1 + b
      /\ \A k \in 1 .. a : j[k] = l[k]
      /\ j[a + 1] = n
      /\ \A k \in 1 .. b : j[a + 1 + k] = r[k]
  BY <1>1
<1> HIDE DEF j
<1>3. \A k \in 1 .. a + 1 + b :
        \/ k \in 1 .. a
        \/ k = a + 1
        \/ k - (a + 1) \in 1 .. b /\ k = a + 1 + (k - (a + 1))
  BY <1>1
<1>4. \A k \in 1 .. a : l[k] \in S /\ l[k] < n /\ l[k] \in Nat
  BY <1>0, <1>1 DEF Ascending
<1>5. \A k \in 1 .. b : r[k] \in U /\ n < r[k] /\ r[k] \in Nat
  BY <1>0, <1>1 DEF Ascending
<1>6. ASSUME NEW i \in DOMAIN j, NEW k \in DOMAIN j, i < k
      PROVE  j[i] < j[k]
  <2>0. n \in Nat
    BY <1>0
  <2>1. CASE k \in 1 .. a
    <3>1. i \in 1 .. a
      BY <1>1, <1>2, <1>6, <2>1
    <3> QED BY <1>1, <1>2, <1>6, <2>1, <3>1 DEF Ascending
  <2>2. CASE k = a + 1
    <3>1. i \in 1 .. a
      BY <1>1, <1>2, <1>6, <2>2
    <3> QED BY <1>2, <1>4, <2>2, <3>1
  <2>3. CASE k - (a + 1) \in 1 .. b /\ k = a + 1 + (k - (a + 1))
    <3> DEFINE q == k - (a + 1)
    <3>1. j[k] = r[q] /\ n < r[q] /\ r[q] \in Nat
      BY <1>2, <1>5, <2>3
    <3>2. CASE i \in 1 .. a
      <4>1. j[i] = l[i] /\ l[i] < n /\ l[i] \in Nat
        BY <1>2, <1>4, <3>2
      <4> QED BY <2>0, <3>1, <4>1
    <3>3. CASE i = a + 1
      BY <1>2, <3>1, <3>3
    <3>4. CASE i - (a + 1) \in 1 .. b /\ i = a + 1 + (i - (a + 1))
      <4> DEFINE p == i - (a + 1)
      <4>1. j[i] = r[p] /\ p < q
        BY <1>1, <1>2, <1>6, <2>3, <3>4
      <4>2. r[p] < r[q]
        BY <1>1, <2>3, <3>4, <4>1 DEF Ascending
      <4> QED BY <3>1, <4>1, <4>2
    <3> QED BY <1>2, <1>3, <3>2, <3>3, <3>4
  <2> QED BY <1>2, <1>3, <2>1, <2>2, <2>3
<1>7. {j[i] : i \in DOMAIN j} = S \cup {n} \cup U
  <2>1. ASSUME NEW i \in DOMAIN j
        PROVE  j[i] \in S \cup {n} \cup U
    <3>1. CASE i \in 1 .. a
      BY <1>2, <1>4, <3>1
    <3>2. CASE i = a + 1
      BY <1>2, <3>2
    <3>3. CASE i - (a + 1) \in 1 .. b /\ i = a + 1 + (i - (a + 1))
      <4>1. j[i] = r[i - (a + 1)]
        BY <1>2, <3>3
      <4> QED BY <1>5, <3>3, <4>1
    <3> QED BY <1>2, <1>3, <3>1, <3>2, <3>3
  <2>2. ASSUME NEW m \in S \cup {n} \cup U
        PROVE  \E i \in DOMAIN j : j[i] = m
    <3>1. CASE m \in S
      <4>1. PICK k \in 1 .. a : l[k] = m
        BY <1>1, <3>1 DEF Ascending
      <4>2. k \in DOMAIN j /\ j[k] = m
        BY <1>1, <1>2, <4>1
      <4> QED BY <4>2
    <3>2. CASE m = n
      <4>1. a + 1 \in DOMAIN j /\ j[a + 1] = m
        BY <1>1, <1>2, <3>2
      <4> QED BY <4>1
    <3>3. CASE m \in U
      <4>1. PICK k \in 1 .. b : r[k] = m
        BY <1>1, <3>3 DEF Ascending
      <4>2. a + 1 + k \in DOMAIN j /\ j[a + 1 + k] = m
        BY <1>1, <1>2, <4>1
      <4> QED BY <4>2
    <3> QED BY <3>1, <3>2, <3>3
  <2> QED BY <2>1, <2>2
<1> QED BY <1>2, <1>6, <1>7 DEF Ascending, j

\* Inorder() is made from the last of a series of functions.
LEMMA ListSeries ==
  ASSUME NEW t \in Tree
  PROVE  \E f \in [Nat -> [Node -> Seq(Node)]] :
           /\ f[0] = [n \in Node |-> <<>>]
           /\ \A d \in Nat : f[d + 1] = Joined(t, f[d])
           /\ Inorder(t)
              = f[Cardinality(Keys)][t.child["left"][t.root]] \o <<t.root>>
                \o f[Cardinality(Keys)][t.child["right"][t.root]]
<1> DEFINE X == [Node -> Seq(Node)]
           F == [g \in X |-> Joined(t, g)]
           first == [n \in Node |-> <<>>]
           E(g) == [d \in Nat |-> IF d = 0 THEN first ELSE Joined(t, g[d - 1])]
           h == CHOOSE g : g = E(g)
<1>1. F \in [X -> X] /\ first \in X
  <2>1. ASSUME NEW g \in X
        PROVE  Joined(t, g) \in X
    <3>1. ASSUME NEW n \in Node
          PROVE  g[t.child["left"][n]] \o <<n>> \o g[t.child["right"][n]]
                 \in Seq(Node)
      <4>1. /\ g[t.child["left"][n]] \in Seq(Node)
            /\ g[t.child["right"][n]] \in Seq(Node)
        BY TreeTypes DEF Side
      <4> HIDE DEF X
      <4> QED BY <4>1
    <3> QED BY <3>1 DEF Joined
  <2>2. <<>> \in Seq(Node)
    OBVIOUS
  <2> QED BY <2>1, <2>2
<1>2. PICK f \in [Nat -> X] : f[0] = first /\ \A d \in Nat : f[d + 1] = F[f[d]]
  <2>1. \E f \in [Nat -> X] : Series(f, first, F)
    <3> HIDE DEF X, F, first
    <3> QED BY <1>1, Iterates
  <2> HIDE DEF X, F, first
  <2> QED BY <2>1 DEF Series
<1>3. \A d \in Nat : f[d + 1] = Joined(t, f[d])
  <2> HIDE DEF X
  <2> QED BY <1>2
<1> HIDE DEF X, first
<1>4. f = E(f)
  <2>1. ASSUME NEW d \in Nat
        PROVE  f[d] = E(f)[d]
    <3>1. CASE d = 0
      BY <1>2, <3>1
    <3>2. CASE d # 0
      <4>1. d - 1 \in Nat /\ (d - 1) + 1 = d
        BY <3>2
      <4> QED BY <1>3, <3>2, <4>1
    <3> QED BY <3>1, <3>2
  <2>2. E(f) = [d \in Nat |-> E(f)[d]] /\ f = [d \in Nat |-> f[d]]
    BY <1>2
  <2> QED BY <2>1, <2>2
<1>5. ASSUME NEW g, g = E(g)
      PROVE  g = f
  <2> DEFINE S == {d \in Nat : g[d] = f[d]}
  <2>1. \A d \in Nat : g[d] = E(g)[d]
    BY <1>5
  <2>2. 0 \in S
    BY <1>2, <2>1
  <2>3. ASSUME NEW d \in Nat, d \in S
        PROVE  d + 1 \in S
    <3>1. g[d + 1] = Joined(t, g[d])
      <4>1. d + 1 \in Nat /\ d + 1 # 0 /\ (d + 1) - 1 = d
        OBVIOUS
      <4>2. g[d + 1] = E(g)[d + 1]
        BY <2>1, <4>1
      <4> QED BY <4>1, <4>2
    <3> QED BY <1>3, <2>3, <3>1
  <2>4. Nat \subseteq S
    <3> HIDE DEF S
    <3> QED BY <2>2, <2>3, NatsOf
  <2>5. g = [d \in Nat |-> g[d]] /\ f = [d \in Nat |-> f[d]]
    BY <1>2, <1>5
  <2> QED BY <2>4, <2>5
<1>6. Inorder(t) = h[Cardinality(Keys)][t.child["left"][t.root]] \o <<t.root>>
                   \o h[Cardinality(Keys)][t.child["right"][t.root]]
  BY DEF Inorder, first
<1>7. h = f
  <2> HIDE DEF E
  <2> QED BY <1>4, <1>5
<1> QED BY <1>2, <1>3, <1>6, <1>7 DEF X, first

\* The list of a node's subtree is joined from those of its children.
LEMMA NodeAscending ==
  ASSUME NEW t \in Tree, NEW D \in Subtrees, Shape(t, D),
         NEW n \in D[t.root], NEW l, NEW r,
         Ascending(l, D[t.child["left"][n]]), Ascending(r, D[t.child["right"][n]])
  PROVE  Ascending(l \o <<n>> \o r, D[n])
<1>1. /\ n \in Node /\ t.child["left"][n] \in Node /\ t.child["right"][n] \in Node
      /\ \A m \in Node : D[m] \in SUBSET Node
  BY TreeTypes, KeysFacts DEF Side, Subtrees
<1>2. OrderedAt(t, D, n)
  BY DEF Shape
<1>3. /\ \A m \in D[t.child["left"][n]] : m < n
      /\ \A m \in D[t.child["right"][n]] : n < m
      /\ D[n] = D[t.child["left"][n]] \cup {n} \cup D[t.child["right"][n]]
  BY <1>1, <1>2 DEF OrderedAt, Lies, Side
<1>4. D[t.child["left"][n]] \in SUBSET Node /\ D[t.child["right"][n]] \in SUBSET Node
  BY <1>1
<1> DEFINE S == D[t.child["left"][n]]
           U == D[t.child["right"][n]]
<1> HIDE DEF S, U
<1>5. ASSUME S \in SUBSET Node, U \in SUBSET Node, Ascending(l, S), Ascending(r, U),
             \A m \in S : m < n, \A m \in U : n < m
      PROVE  Ascending(l \o <<n>> \o r, S \cup {n} \cup U)
  BY <1>1, <1>5, AscendingJoin
<1> QED BY <1>3, <1>4, <1>5 DEF S, U

\* rbt_get_all_nodes() gives the keys in ascending order.
LEMMA ListIsOrdered ==
  ASSUME NEW t \in Tree, NEW D \in Subtrees, Shape(t, D), t.root # Guard
  PROVE  Ordered(t)
<1> DEFINE N == Cardinality(Keys)
           Inside(n) == n = Guard \/ n \in D[t.root]
<1>1. PICK f \in [Nat -> [Node -> Seq(Node)]] :
        /\ f[0] = [n \in Node |-> <<>>]
        /\ \A d \in Nat : f[d + 1] = Joined(t, f[d])
        /\ Inorder(t) = f[N][t.child["left"][t.root]] \o <<t.root>> \o f[N][t.child["right"][t.root]]
  BY ListSeries
<1>2. /\ t.root \in Node /\ D[t.root] \subseteq Node /\ D[Guard] = {}
      /\ \A n \in Node : D[n] \in SUBSET Node
      /\ Guard \in Node /\ N \in Nat
  BY TreeTypes, KeysFacts DEF Subtrees, Shape
<1> DEFINE S == {d \in Nat : \A n \in Node :
                   Inside(n) /\ Cardinality(D[n]) <= d => Ascending(f[d][n], D[n])}
<1>4. Ascending(<<>>, {})
  BY DEF Ascending
<1>5. 0 \in S
  <2> SUFFICES ASSUME NEW n \in Node, Inside(n), Cardinality(D[n]) <= 0
               PROVE  Ascending(f[0][n], D[n])
    OBVIOUS
  <2>1. n = Guard
    BY SubtreeSizes
  <2> QED BY <1>1, <1>2, <1>4, <2>1
<1>6. ASSUME NEW d \in Nat, d \in S
      PROVE  d + 1 \in S
  <2> SUFFICES ASSUME NEW n \in Node, Inside(n), Cardinality(D[n]) <= d + 1
               PROVE  Ascending(f[d + 1][n], D[n])
    OBVIOUS
  <2>1. f[d + 1][n] = IF n = Guard THEN <<>>
                      ELSE f[d][t.child["left"][n]] \o <<n>> \o f[d][t.child["right"][n]]
    <3>1. f[d + 1] = Joined(t, f[d])
      BY <1>1
    <3> QED BY <3>1 DEF Joined
  <2>2. CASE n = Guard
    BY <1>2, <1>4, <2>1, <2>2
  <2>3. CASE n # Guard
    <3>1. n \in D[t.root]
      BY <2>3
    <3>2. ASSUME NEW s \in Side
          PROVE  Ascending(f[d][t.child[s][n]], D[t.child[s][n]])
      <4> DEFINE c == t.child[s][n]
      <4>1. c \in Node /\ Inside(c)
        BY <3>1, ChildSubtree
      <4>2. Cardinality(D[c]) <= d
        <5>1. Cardinality(D[c]) \in Nat /\ Cardinality(D[c]) < Cardinality(D[n])
              /\ Cardinality(D[n]) \in Nat
          BY <3>1, SubtreeSizes
        <5> QED BY <5>1
      <4> QED BY <1>6, <4>1, <4>2
    <3>3. Ascending(f[d][t.child["left"][n]], D[t.child["left"][n]])
          /\ Ascending(f[d][t.child["right"][n]], D[t.child["right"][n]])
      BY <3>2 DEF Side
    <3> QED BY <2>1, <2>3, <3>1, <3>3, NodeAscending
  <2> QED BY <2>2, <2>3
<1>7. Nat \subseteq S
  <2> HIDE DEF S
  <2> QED BY <1>5, <1>6, NatsOf
<1>8. t.root \in D[t.root]
  BY DEF Shape
<1>9. ASSUME NEW s \in Side
      PROVE  Ascending(f[N][t.child[s][t.root]], D[t.child[s][t.root]])
  <2> DEFINE c == t.child[s][t.root]
  <2>1. c \in Node /\ Inside(c)
    BY <1>8, ChildSubtree
  <2>2. Cardinality(D[c]) <= N
    <3>1. Cardinality(D[c]) \in Nat /\ Cardinality(D[c]) < Cardinality(D[t.root])
          /\ Cardinality(D[t.root]) \in Nat /\ Cardinality(D[t.root]) <= N
      BY <1>8, SubtreeSizes
    <3> QED BY <1>2, <3>1
  <2> QED BY <1>2, <1>7, <2>1, <2>2
<1>10. Ascending(Inorder(t), D[t.root])
  <2>1. Ascending(f[N][t.child["left"][t.root]], D[t.child["left"][t.root]])
        /\ Ascending(f[N][t.child["right"][t.root]], D[t.child["right"][t.root]])
    BY <1>9 DEF Side
  <2> DEFINE l == f[N][t.child["left"][t.root]]
             r == f[N][t.child["right"][t.root]]
  <2>2. Inorder(t) = l \o <<t.root>> \o r
    BY <1>1
  <2> HIDE DEF l, r, N
  <2>3. Ascending(l \o <<t.root>> \o r, D[t.root])
    <3>1. Ascending(l, D[t.child["left"][t.root]])
          /\ Ascending(r, D[t.child["right"][t.root]])
      BY <2>1 DEF l, r
    <3> QED BY <1>8, <3>1, NodeAscending
  <2> QED BY <2>2, <2>3
<1>11. Below(t, t.root) = D[t.root]
  BY <1>2, <1>8, BelowIsSubtree
<1> QED BY <1>10, <1>11 DEF Ordered, Ascending

-------------------------------------------------------------------------------
(* The fields of the trees that the operations make. *)

\* The side of a node is a side.
LEMMA SideOfFacts ==
  ASSUME NEW t \in Tree, NEW n
  PROVE  SideOf(t, n) \in Side
BY DEF SideOf, Side

\* One node gets a colour.
LEMMA PaintFields ==
  ASSUME NEW t \in Tree, NEW n \in Node, NEW c \in Color
  PROVE  LET u == Paint(t, n, c)
         IN /\ u \in Tree /\ u.root = t.root /\ u.child = t.child /\ u.parent = t.parent
            /\ \A m \in Node : u.color[m] = IF m = n THEN c ELSE t.color[m]
BY DEF Paint, Tree

\* One field of one node is assigned.
LEMMA ChildFields ==
  ASSUME NEW t \in Tree, NEW s \in Side, NEW n \in Node, NEW v \in Node
  PROVE  LET u == [t EXCEPT !.child[s][n] = v]
         IN /\ u \in Tree /\ u.root = t.root /\ u.parent = t.parent /\ u.color = t.color
            /\ \A q \in Side, m \in Node :
                 u.child[q][m] = IF q = s /\ m = n THEN v ELSE t.child[q][m]
BY DEF Tree

\* One node gets a parent.
LEMMA ParentFields ==
  ASSUME NEW t \in Tree, NEW n \in Node, NEW v \in Node
  PROVE  LET u == [t EXCEPT !.parent[n] = v]
         IN /\ u \in Tree /\ u.root = t.root /\ u.child = t.child /\ u.color = t.color
            /\ \A m \in Node : u.parent[m] = IF m = n THEN v ELSE t.parent[m]
BY DEF Tree

\* The fields after v has taken the place of n, seen from above.
Replaced(t, n, v, u) ==
  /\ u \in Tree /\ u.parent = t.parent /\ u.color = t.color
  /\ u.root = IF t.parent[n] = Guard THEN v ELSE t.root
  /\ \A q \in Side, m \in Node :
       u.child[q][m] = IF m # Guard /\ m = t.parent[n] /\ q = SideOf(t, n) THEN v
                       ELSE t.child[q][m]

\* The fields after Replace().
LEMMA ReplaceFields ==
  ASSUME NEW t \in Tree, NEW n \in Node, NEW v \in Node
  PROVE  Replaced(t, n, v, Replace(t, n, v))
<1> DEFINE p == t.parent[n]
           s == SideOf(t, n)
<1>1. p \in Node /\ s \in Side /\ Guard \in Node
  BY TreeTypes, SideOfFacts, KeysFacts
<1>2. CASE p = Guard
  <2>1. Replace(t, n, v) = [t EXCEPT !.root = v]
    BY <1>2 DEF Replace
  <2> QED BY <1>1, <1>2, <2>1 DEF Tree, Replaced
<1>3. CASE p # Guard
  <2>1. Replace(t, n, v) = [t EXCEPT !.child[s][p] = v]
    BY <1>3 DEF Replace
  <2> HIDE DEF s, p
  <2>2. LET u == [t EXCEPT !.child[s][p] = v]
        IN /\ u \in Tree /\ u.root = t.root /\ u.parent = t.parent
           /\ u.color = t.color
           /\ \A q \in Side, m \in Node :
                u.child[q][m] = IF q = s /\ m = p THEN v ELSE t.child[q][m]
    BY <1>1, ChildFields
  <2> QED BY <1>1, <1>3, <2>1, <2>2 DEF Replaced, p, s
<1> QED BY <1>2, <1>3

\* The same, with the link from v upwards.
Transplanted(t, n, v, u) ==
  /\ u \in Tree /\ u.color = t.color
  /\ u.root = IF t.parent[n] = Guard THEN v ELSE t.root
  /\ \A m \in Node : u.parent[m] = IF m = v THEN t.parent[n] ELSE t.parent[m]
  /\ \A q \in Side, m \in Node :
       u.child[q][m] = IF m # Guard /\ m = t.parent[n] /\ q = SideOf(t, n) THEN v
                       ELSE t.child[q][m]

\* The fields after rbt_transplant().
LEMMA TransplantFields ==
  ASSUME NEW t \in Tree, NEW n \in Node, NEW v \in Node
  PROVE  Transplanted(t, n, v, Transplant(t, n, v))
<1> DEFINE r == Replace(t, n, v)
           p == t.parent[n]
<1>1. Replaced(t, n, v, r)
  BY ReplaceFields
<1>2. Transplant(t, n, v) = [r EXCEPT !.parent[v] = p]
  BY DEF Transplant
<1>3. p \in Node
  BY TreeTypes
<1> HIDE DEF r
<1>4. LET u == [r EXCEPT !.parent[v] = p]
      IN /\ u \in Tree /\ u.color = r.color /\ u.root = r.root /\ u.child = r.child
         /\ \A m \in Node : u.parent[m] = IF m = v THEN p ELSE r.parent[m]
  BY <1>1, <1>3, ParentFields DEF Replaced
<1> QED BY <1>1, <1>2, <1>4 DEF Replaced, Transplanted

\* Rotate(t, n, s) is a tree whatever the links are.
LEMMA RotateTree ==
  ASSUME NEW t \in Tree, NEW n \in Node, NEW s \in Side
  PROVE  Rotate(t, n, s) \in Tree
<1> DEFINE up == t.child[Other(s)][n]
           inner == t.child[s][up]
           t1 == [t EXCEPT !.child[Other(s)][n] = inner]
           t2 == IF inner # Guard THEN [t1 EXCEPT !.parent[inner] = n] ELSE t1
           t3 == [t2 EXCEPT !.parent[up] = t2.parent[n]]
           t4 == Replace(t3, n, up)
           t5 == [t4 EXCEPT !.child[s][up] = n]
<1>1. Rotate(t, n, s) = [t5 EXCEPT !.parent[n] = up]
  <2>1. Rotate(t, n, s) = [t4 EXCEPT !.child[s][up] = n, !.parent[n] = up]
    BY DEF Rotate
  <2> HIDE DEF t4, up
  <2> QED BY <2>1
<1>2. up \in Node /\ inner \in Node /\ Other(s) \in Side
  BY TreeTypes DEF Other, Side
<1>3. t1 \in Tree
  BY <1>2, ChildFields
<1>4. t2 \in Tree
  <2> HIDE DEF t1, inner
  <2> QED BY <1>2, <1>3, ParentFields
<1>5. t3 \in Tree
  <2> HIDE DEF t2, up
  <2> DEFINE over == t2.parent[n]
  <2>1. over \in Node
    BY <1>4, TreeTypes
  <2> HIDE DEF over
  <2>2. [t2 EXCEPT !.parent[up] = over] \in Tree
    BY <1>2, <1>4, <2>1, ParentFields
  <2> QED BY <2>2 DEF over
<1>6. t4 \in Tree
  <2> HIDE DEF t3, up
  <2> QED BY <1>2, <1>5, ReplaceFields DEF Replaced
<1>7. t5 \in Tree
  <2> HIDE DEF t4, up
  <2> QED BY <1>2, <1>6, ChildFields
<1> HIDE DEF t5, up
<1> QED BY <1>1, <1>2, <1>7, ParentFields

\* The fields after a rotation of n with the child up it has on the other side.
Rotated(t, n, s, u) ==
  LET up == t.child[Other(s)][n]
      inner == t.child[s][up]
      p == t.parent[n]
  IN /\ u \in Tree /\ u.color = t.color
     /\ u.root = IF p = Guard THEN up ELSE t.root
     /\ \A m \in Node :
          u.parent[m] = IF m = n THEN up ELSE IF m = up THEN p
                        ELSE IF m = inner /\ m # Guard THEN n ELSE t.parent[m]
     /\ \A q \in Side, m \in Node :
          u.child[q][m] = IF m = n /\ q = Other(s) THEN inner
                          ELSE IF m = up /\ q = s THEN n
                          ELSE IF m = p /\ m # Guard /\ q = SideOf(t, n) THEN up
                          ELSE t.child[q][m]

\* The fields after a rotation.
LEMMA RotateFields ==
  ASSUME NEW t \in Tree, NEW n \in Keys, NEW s \in Side,
         t.child[Other(s)][n] \notin {n, t.parent[n], Guard},
         t.parent[n] # n,
         t.child[s][t.child[Other(s)][n]] \notin {n, t.child[Other(s)][n]}
  PROVE  Rotated(t, n, s, Rotate(t, n, s))
<1> DEFINE up == t.child[Other(s)][n]
           inner == t.child[s][up]
           p == t.parent[n]
           t1 == [t EXCEPT !.child[Other(s)][n] = inner]
           t2 == IF inner # Guard THEN [t1 EXCEPT !.parent[inner] = n] ELSE t1
           t3 == [t2 EXCEPT !.parent[up] = t2.parent[n]]
           t4 == Replace(t3, n, up)
           t5 == [t4 EXCEPT !.child[s][up] = n]
           u == [t5 EXCEPT !.parent[n] = up]
<1>1. Rotate(t, n, s) = u
  <2>1. Rotate(t, n, s) = [t4 EXCEPT !.child[s][up] = n, !.parent[n] = up]
    BY DEF Rotate
  <2> HIDE DEF t4, up
  <2> QED BY <2>1
<1>2. up \in Node /\ inner \in Node /\ p \in Node /\ Other(s) \in Side /\ n \in Node
      /\ Other(s) # s /\ n # Guard
  BY TreeTypes, KeysFacts DEF Other, Side
<1>0. up # n /\ up # p /\ up # Guard /\ p # n /\ inner # n /\ inner # up
  OBVIOUS
<1> HIDE DEF up, inner, p
<1>3. /\ t1 \in Tree /\ t1.root = t.root /\ t1.parent = t.parent /\ t1.color = t.color
      /\ \A q \in Side, m \in Node :
           t1.child[q][m] = IF q = Other(s) /\ m = n THEN inner ELSE t.child[q][m]
  BY <1>2, ChildFields
<1> HIDE DEF t1
<1>4. /\ t2 \in Tree /\ t2.root = t.root /\ t2.child = t1.child /\ t2.color = t.color
      /\ \A m \in Node : t2.parent[m] = IF m = inner /\ m # Guard THEN n
                                         ELSE t.parent[m]
  <2>1. CASE inner # Guard
    BY <1>2, <1>3, <2>1, ParentFields
  <2>2. CASE inner = Guard
    BY <1>2, <1>3, <2>2
  <2> QED BY <2>1, <2>2
<1> HIDE DEF t2
<1>5. /\ t3 \in Tree /\ t3.root = t.root /\ t3.child = t1.child /\ t3.color = t.color
      /\ t2.parent[n] = p
      /\ \A m \in Node : t3.parent[m] = IF m = up THEN p
                                         ELSE IF m = inner /\ m # Guard THEN n
                                         ELSE t.parent[m]
  <2>1. t2.parent[n] = p
    BY <1>0, <1>2, <1>4 DEF p
  <2> QED BY <1>0, <1>2, <1>4, <2>1, ParentFields
<1> HIDE DEF t3
<1>6. t3.parent[n] = p
  BY <1>0, <1>2, <1>5 DEF p
<1>7. p # Guard => SideOf(t3, n) = SideOf(t, n)
  <2>1. t3.child["left"][p] = t.child["left"][p]
    BY <1>0, <1>2, <1>3, <1>5 DEF Side
  <2> QED BY <1>6, <2>1 DEF SideOf, p
<1>8. /\ t4 \in Tree /\ t4.parent = t3.parent /\ t4.color = t.color
      /\ t4.root = IF p = Guard THEN up ELSE t.root
      /\ \A q \in Side, m \in Node :
           t4.child[q][m] = IF p # Guard /\ m = p /\ q = SideOf(t, n) THEN up
                            ELSE t3.child[q][m]
  <2>1. Replaced(t3, n, up, t4)
    BY <1>2, <1>5, ReplaceFields
  <2> QED BY <1>5, <1>6, <1>7, <2>1 DEF Replaced
<1>9. /\ t5 \in Tree /\ t5.parent = t4.parent /\ t5.color = t4.color
      /\ t5.root = t4.root
      /\ \A q \in Side, m \in Node :
           t5.child[q][m] = IF q = s /\ m = up THEN n ELSE t4.child[q][m]
  <2>1. t4 \in Tree /\ up \in Node /\ n \in Node
    BY <1>2, <1>8
  <2> HIDE DEF t4
  <2> QED BY <2>1, ChildFields
<1> HIDE DEF t5
<1>10. /\ u \in Tree /\ u.root = t5.root /\ u.child = t5.child /\ u.color = t5.color
       /\ \A m \in Node : u.parent[m] = IF m = n THEN up ELSE t5.parent[m]
  BY <1>2, <1>9, ParentFields
<1> HIDE DEF u
<1>11. /\ u \in Tree /\ u.color = t.color
       /\ u.root = IF p = Guard THEN up ELSE t.root
  BY <1>8, <1>9, <1>10
<1>12. \A m \in Node :
          u.parent[m] = IF m = n THEN up ELSE IF m = up THEN p
                        ELSE IF m = inner /\ m # Guard THEN n ELSE t.parent[m]
  BY <1>5, <1>8, <1>9, <1>10
<1>13. \A q \in Side, m \in Node :
          u.child[q][m] = IF m = n /\ q = Other(s) THEN inner
                          ELSE IF m = up /\ q = s THEN n
                          ELSE IF m = p /\ m # Guard /\ q = SideOf(t, n) THEN up
                          ELSE t.child[q][m]
  <2> TAKE q \in Side, m \in Node
  <2>1. u.child[q][m] = IF q = s /\ m = up THEN n
                        ELSE IF p # Guard /\ m = p /\ q = SideOf(t, n) THEN up
                        ELSE IF q = Other(s) /\ m = n THEN inner
                        ELSE t.child[q][m]
    BY <1>3, <1>5, <1>8, <1>9, <1>10
  <2> QED BY <1>0, <1>2, <2>1
<1> QED BY <1>1, <1>11, <1>12, <1>13 DEF Rotated, up, inner, p

-------------------------------------------------------------------------------
(* The shape after each change. *)

\* The colours do not matter to the shape.
LEMMA PaintShape ==
  ASSUME NEW t \in Tree, NEW D \in Subtrees, Shape(t, D),
         NEW n \in Node, NEW c \in Color
  PROVE  Shape(Paint(t, n, c), D)
BY PaintFields DEF Shape, OrderedAt, LinkedAt

\* What the code takes for the side of a node is the side.
LEMMA SideOfIs ==
  ASSUME NEW t \in Tree, NEW D \in Subtrees, Shape(t, D),
         NEW n \in D[t.root], n # t.root
  PROVE  LET p == t.parent[n]
         IN /\ p \in D[t.root] /\ p \in Keys /\ p # n
            /\ SideOf(t, n) \in Side /\ t.child[SideOf(t, n)][p] = n
            /\ \A q \in Side : q # SideOf(t, n) => t.child[q][p] # n
<1> DEFINE p == t.parent[n]
<1>1. p \in D[t.root] /\ \E s \in Side : t.child[s][p] = n
  BY DEF Shape, LinkedAt
<1>2. p \in Keys /\ n \in Keys
  BY <1>1, ChildSubtree
<1>3. \A s \in Side : t.child[s][p] # Guard =>
        t.child[s][p] # t.child[Other(s)][p] /\ t.child[s][p] # p
  BY <1>1, ChildSubtree
<1>4. n # Guard
  BY <1>2, KeysFacts
<1> QED BY <1>1, <1>2, <1>3, <1>4 DEF SideOf, Side, Other

\* The parent of the root is the guard, and of no other node.
LEMMA ParentFacts ==
  ASSUME NEW t \in Tree, NEW D \in Subtrees, Shape(t, D), NEW n \in D[t.root]
  PROVE  /\ t.root \in D[t.root] /\ t.root # Guard /\ t.root \in Keys
         /\ n = t.root <=> t.parent[n] = Guard
         /\ n \in Keys /\ n \in Node /\ n # Guard
<1>1. t.root # Guard /\ t.root \in D[t.root] /\ t.parent[t.root] = Guard
  BY DEF Shape
<1>2. n # t.root => t.parent[n] \in Keys
  BY SideOfIs
<1>3. n \in Keys /\ t.root \in Keys
  BY <1>1, TreeTypes, KeysFacts DEF Subtrees
<1> QED BY <1>1, <1>2, <1>3, KeysFacts

\* The subtrees after a rotation of n.
Turned(t, D, n, s) ==
  LET up == t.child[Other(s)][n]
  IN [m \in Node |-> IF m = up THEN D[n]
                     ELSE IF m = n THEN {n} \cup D[t.child[s][n]]
                                            \cup D[t.child[s][up]]
                     ELSE D[m]]

\* A rotation leaves a search tree with the same keys.
LEMMA RotateShape ==
  ASSUME NEW t \in Tree, NEW D \in Subtrees, Shape(t, D),
         NEW n \in D[t.root], NEW s \in Side, t.child[Other(s)][n] # Guard
  PROVE  LET u == Rotate(t, n, s)
             E == Turned(t, D, n, s)
         IN /\ Rotated(t, n, s, u)
            /\ E \in Subtrees /\ Shape(u, E) /\ E[u.root] = D[t.root]
<1> DEFINE up == t.child[Other(s)][n]
           inner == t.child[s][up]
           p == t.parent[n]
           u == Rotate(t, n, s)
           E == Turned(t, D, n, s)
           a == t.child[s][n]
           b == t.child[Other(s)][up]
           So == SideOf(t, n)
<1>1. /\ Other(s) \in Side /\ Other(s) # s /\ Other(Other(s)) = s
      /\ \A q \in Side : q = s \/ q = Other(s)
  BY LiesFacts, KeysFacts
<1>2. /\ n \in Keys /\ n \in Node /\ n # Guard /\ n \in D[n] /\ D[n] \subseteq D[t.root]
      /\ up \in Node /\ up # n /\ up # t.root /\ up \in D[t.root] /\ up \in D[up]
      /\ t.parent[up] = n /\ D[up] \subseteq D[n] /\ n \notin D[up]
      /\ up # Guard
  BY <1>1, ChildSubtree, ParentFacts
<1>3. /\ inner \in Node /\ D[inner] \subseteq D[up] /\ inner # up /\ inner # t.root
      /\ up \notin D[inner]
      /\ inner # Guard => inner \in D[t.root] /\ t.parent[inner] = up
                          /\ inner \in D[inner] /\ inner # b
      /\ inner # n
  <2>1. /\ inner \in Node /\ D[inner] \subseteq D[up] /\ inner # up /\ inner # t.root
        /\ up \notin D[inner]
        /\ inner # Guard => inner \in D[t.root] /\ t.parent[inner] = up
                            /\ inner \in D[inner] /\ inner # b
    BY <1>2, ChildSubtree
  <2> QED BY <1>2, <2>1
<1>4. /\ a \in Node /\ D[a] \subseteq D[n] /\ n \notin D[a] /\ a # n /\ a # t.root
      /\ a # Guard => a \in D[t.root] /\ t.parent[a] = n /\ a # up /\ a \in D[a]
      /\ D[a] \cap D[up] = {}
  BY ChildSubtree
<1>5. /\ b \in Node /\ D[b] \subseteq D[up] /\ b # up /\ b # t.root /\ b # n
      /\ b # Guard => b \in D[t.root] /\ t.parent[b] = up /\ b \in D[b]
  <2>1. /\ b \in Node /\ D[b] \subseteq D[up] /\ b # up /\ b # t.root
        /\ b # Guard => b \in D[t.root] /\ t.parent[b] = up /\ b \in D[b]
    BY <1>1, <1>2, ChildSubtree
  <2> QED BY <1>2, <2>1
<1>6. /\ p \in Node /\ p # n /\ p # up /\ (p = Guard <=> n = t.root)
      /\ p # Guard => /\ p \in D[t.root] /\ So \in Side /\ t.child[So][p] = n
                      /\ \A q \in Side : q # So => t.child[q][p] # n
  <2>1. p \in Node /\ (p = Guard <=> n = t.root)
    BY <1>2, TreeTypes, ParentFacts
  <2>2. CASE p = Guard
    BY <1>2, <2>1, <2>2
  <2>3. CASE p # Guard
    <3>1. /\ p \in D[t.root] /\ So \in Side /\ t.child[So][p] = n
          /\ \A q \in Side : q # So => t.child[q][p] # n
      BY <2>1, <2>3, SideOfIs
    <3>2. D[n] \subseteq D[p] /\ n \in D[p] /\ p # n
      BY <1>2, <3>1, ChildSubtree
    <3> QED BY <1>2, <2>1, <3>1, <3>2
  <2> QED BY <2>2, <2>3
<1>7. Rotated(t, n, s, u)
  <2>1. /\ up \notin {n, p, Guard} /\ p # n /\ inner \notin {n, up}
    BY <1>2, <1>3, <1>6
  <2> QED BY <1>2, <2>1, RotateFields
<1>8. /\ u \in Tree
      /\ u.root = IF p = Guard THEN up ELSE t.root
      /\ \A m \in Node :
           u.parent[m] = IF m = n THEN up ELSE IF m = up THEN p
                         ELSE IF m = inner /\ m # Guard THEN n ELSE t.parent[m]
      /\ \A q \in Side, m \in Node :
           u.child[q][m] = IF m = n /\ q = Other(s) THEN inner
                           ELSE IF m = up /\ q = s THEN n
                           ELSE IF m = p /\ m # Guard /\ q = So THEN up
                           ELSE t.child[q][m]
  BY <1>7 DEF Rotated
<1>9. /\ E \in [Node -> SUBSET Node] /\ E[up] = D[n]
      /\ E[n] = {n} \cup D[a] \cup D[inner]
      /\ \A m \in Node : m \notin {n, up} => E[m] = D[m]
      /\ D \in [Node -> SUBSET Keys] /\ E \in Subtrees
      /\ D[t.root] \subseteq Node
  <2>1. D \in [Node -> SUBSET Keys] /\ Keys \subseteq Node
    BY KeysFacts DEF Subtrees
  <2>2. t.root \in Node
    BY TreeTypes
  <2> QED BY <1>2, <1>3, <1>4, <2>1, <2>2 DEF Turned, Subtrees
<1>10. E[u.root] = D[t.root]
  BY <1>2, <1>6, <1>8, <1>9, TreeTypes
<1>11. t.root # Guard /\ t.root \in D[t.root] /\ D[Guard] = {} /\ Guard \in Node
  BY ParentFacts, KeysFacts DEF Shape
<1>12. /\ E[Guard] = {}
       /\ u.root \in D[t.root] /\ u.parent[u.root] = Guard
  <2>1. CASE p = Guard
    BY <1>2, <1>8, <1>9, <1>11, <2>1
  <2>2. CASE p # Guard
    <3>1. t.parent[t.root] = Guard
      BY <1>11 DEF Shape
    <3>2. t.root \in Node /\ t.root \notin {n, up, inner} /\ u.root = t.root
      BY <1>2, <1>3, <1>6, <1>8, <1>9, <1>11, <2>2
    <3>3. u.parent[t.root] = Guard
      <4> HIDE DEF up, inner, p, u
      <4> QED BY <1>8, <3>1, <3>2
    <3>4. E[Guard] = {}
      BY <1>2, <1>9, <1>11
    <3> QED BY <1>11, <3>2, <3>3, <3>4
  <2> QED BY <2>1, <2>2
<1> HIDE DEF up, inner, p, u, E, a, b, So
<1>13. ASSUME NEW m \in D[t.root], m \notin {n, up}, NEW q \in Side
       PROVE  /\ E[u.child[q][m]] = D[t.child[q][m]]
              /\ u.child[q][m] # Guard => u.parent[u.child[q][m]] = m
              /\ u.child[q][m] # Guard => u.child[q][m] \in D[t.root]
  <2> DEFINE c == t.child[q][m]
  <2>1. /\ c \in Node /\ m \in Node /\ m # Guard
        /\ c # Guard => c \in D[t.root] /\ t.parent[c] = m
    BY ChildSubtree, ParentFacts
  <2>2. CASE m = p /\ q = So
    <3>1. u.child[q][m] = up
      BY <1>8, <1>13, <2>1, <2>2
    <3>2. c = n
      BY <1>6, <2>1, <2>2
    <3>3. u.parent[up] = m
      BY <1>2, <1>8, <2>2
    <3> QED BY <1>2, <1>9, <3>1, <3>2, <3>3
  <2>3. CASE ~(m = p /\ q = So)
    <3>1. u.child[q][m] = c
      BY <1>8, <1>13, <2>1, <2>3
    <3>2. c # n
      BY <1>2, <1>6, <2>1, <2>3 DEF p
    <3>3. c # up
      BY <1>2, <1>13, <2>1
    <3>4. c # Guard => c # inner
      BY <1>3, <1>13, <2>1
    <3> QED BY <1>8, <1>9, <2>1, <3>1, <3>2, <3>3, <3>4
  <2> QED BY <2>2, <2>3
<1>14. ASSUME NEW m \in D[t.root]
       PROVE  OrderedAt(u, E, m)
  <2>0. \A k \in D[t.root] : OrderedAt(t, D, k)
    BY DEF Shape
  <2>1. CASE m \notin {n, up}
    <3>1. \A q \in Side : E[u.child[q][m]] = D[t.child[q][m]]
      BY <1>13, <2>1
    <3>2. E[m] = D[m]
      BY <1>9, <2>1
    <3> QED BY <2>0, <3>1, <3>2 DEF OrderedAt
  <2>2. E[a] = D[a] /\ E[inner] = D[inner] /\ E[b] = D[b]
    BY <1>2, <1>3, <1>4, <1>5, <1>9, <1>11
  <2>3. /\ \A k \in D[a] : Lies(s, k, n)
        /\ \A k \in D[up] : Lies(Other(s), k, n)
        /\ \A k \in Node : k \in D[n] <=> k = n \/ k \in D[a] \/ k \in D[up]
    BY <1>1, <1>2, <2>0 DEF OrderedAt, a, up
  <2>4. /\ \A k \in D[inner] : Lies(s, k, up)
        /\ \A k \in D[b] : Lies(Other(s), k, up)
        /\ \A k \in Node : k \in D[up] <=> k = up \/ k \in D[inner] \/ k \in D[b]
    BY <1>1, <1>2, <2>0 DEF OrderedAt, b, inner
  <2>5. CASE m = n
    <3>1. u.child[s][n] = a /\ u.child[Other(s)][n] = inner
      BY <1>1, <1>2, <1>6, <1>8 DEF a
    <3>2. \A q \in Side : \A k \in E[u.child[q][n]] : Lies(q, k, n)
      BY <1>1, <1>3, <2>2, <2>3, <3>1
    <3>3. \A k \in Node : k \in E[n] <=> k = n \/ \E q \in Side : k \in E[u.child[q][n]]
      BY <1>1, <1>9, <2>2, <3>1
    <3> QED BY <2>5, <3>2, <3>3 DEF OrderedAt
  <2>6. CASE m = up
    <3>1. u.child[s][up] = n /\ u.child[Other(s)][up] = b
      BY <1>1, <1>2, <1>6, <1>8 DEF b
    <3>2. ASSUME NEW k \in E[n]
          PROVE  Lies(s, k, up)
      <4>0. k \in Node
        BY <1>2, <1>9
      <4>1. Lies(s, n, up)
        BY <1>1, <1>2, <2>3, LiesFacts
      <4>2. CASE k = n
        BY <4>1, <4>2
      <4>3. CASE k \in D[a]
        <5>1. Lies(s, k, n)
          BY <2>3, <4>3
        <5> QED BY <1>2, <4>0, <4>1, <5>1, LiesFacts
      <4>4. CASE k \in D[inner]
        BY <2>4, <4>4
      <4> QED BY <1>9, <4>2, <4>3, <4>4
    <3>3. \A q \in Side : \A k \in E[u.child[q][up]] : Lies(q, k, up)
      BY <1>1, <2>2, <2>4, <3>1, <3>2
    <3>4. \A k \in Node : k \in E[up] <=> k = up \/ \E q \in Side : k \in E[u.child[q][up]]
      BY <1>1, <1>9, <2>2, <2>3, <2>4, <3>1
    <3> QED BY <2>6, <3>3, <3>4 DEF OrderedAt
  <2> QED BY <2>1, <2>5, <2>6
<1>15. ASSUME NEW m \in D[t.root]
       PROVE  \A q \in Side : u.child[q][m] # Guard =>
                u.child[q][m] \in D[t.root] /\ u.parent[u.child[q][m]] = m
  <2>1. CASE m \notin {n, up}
    BY <1>13, <2>1
  <2>2. CASE m = n
    <3>1. u.child[s][n] = a /\ u.child[Other(s)][n] = inner
      BY <1>1, <1>2, <1>6, <1>8 DEF a
    <3>2. a # Guard => u.parent[a] = n /\ a \in D[t.root]
      <4>1. a # Guard => a # inner
        BY <1>3, <1>4
      <4> QED BY <1>4, <1>8, <4>1
    <3>3. inner # Guard => u.parent[inner] = n /\ inner \in D[t.root]
      BY <1>3, <1>8
    <3> QED BY <1>1, <2>2, <3>1, <3>2, <3>3
  <2>3. CASE m = up
    <3>1. u.child[s][up] = n /\ u.child[Other(s)][up] = b
      BY <1>1, <1>2, <1>6, <1>8 DEF b
    <3>2. b # Guard => u.parent[b] = up /\ b \in D[t.root]
      BY <1>3, <1>5, <1>8
    <3>3. u.parent[n] = up
      BY <1>2, <1>8
    <3> QED BY <1>1, <2>3, <3>1, <3>2, <3>3
  <2> QED BY <2>1, <2>2, <2>3
<1>16. ASSUME NEW m \in D[t.root], m # u.root
       PROVE  u.parent[m] \in D[t.root] /\ \E q \in Side : u.child[q][u.parent[m]] = m
  <2>1. CASE m = n
    BY <1>1, <1>2, <1>6, <1>8, <2>1
  <2>2. CASE m = up
    <3>1. p # Guard
      BY <1>8, <1>16, <2>2
    <3>2. u.child[So][p] = up /\ u.parent[up] = p
      BY <1>2, <1>6, <1>8, <3>1
    <3> QED BY <1>6, <2>2, <3>1, <3>2
  <2>3. CASE m = inner
    <3>1. m # Guard
      BY ParentFacts
    <3>2. u.parent[m] = n /\ u.child[Other(s)][n] = m
      BY <1>1, <1>2, <1>3, <1>8, <2>3, <3>1
    <3> QED BY <1>1, <3>2
  <2>4. CASE m \notin {n, up, inner}
    <3>1. m # t.root
      BY <1>6, <1>8, <1>16, <2>4
    <3> DEFINE r == t.parent[m]
    <3>2. r \in D[t.root] /\ \E q \in Side : t.child[q][r] = m
      BY <3>1 DEF Shape, LinkedAt
    <3>3. u.parent[m] = r
      BY <1>8, <1>9, <2>4
    <3>4. PICK q \in Side : t.child[q][r] = m
      BY <3>2
    <3>5. u.child[q][r] = m
      BY <1>1, <1>6, <1>8, <1>9, <2>4, <3>2, <3>4 DEF up, inner
    <3> QED BY <3>2, <3>3, <3>5
  <2> QED BY <2>1, <2>2, <2>3, <2>4
<1>17. \A m \in D[t.root] : E[m] \subseteq D[t.root]
  <2>1. \A m \in D[t.root] : D[m] \subseteq D[t.root]
    BY DEF Shape
  <2> QED BY <1>2, <1>3, <1>4, <1>9, <2>1
<1>18. Shape(u, E)
  BY <1>10, <1>12, <1>14, <1>15, <1>16, <1>17 DEF Shape, LinkedAt
<1> QED BY <1>7, <1>9, <1>10, <1>18 DEF u, E

\* The tree of Link: the key k below the node up.
Grown(t, k, up) ==
  LET new == [t EXCEPT !.parent[k] = up, !.color[k] = RED,
                       !.child["left"][k] = Guard, !.child["right"][k] = Guard]
  IN IF up = Guard THEN [new EXCEPT !.root = k]
     ELSE [new EXCEPT !.child[IF k < up THEN "left" ELSE "right"][up] = k]

\* The fields after bst_insert().
LEMMA GrownFields ==
  ASSUME NEW t \in Tree, NEW k \in Keys, NEW up \in Node, k # up
  PROVE  LET u == Grown(t, k, up)
             d == IF k < up THEN "left" ELSE "right"
         IN /\ u \in Tree /\ u.root = IF up = Guard THEN k ELSE t.root
            /\ \A m \in Node : /\ u.parent[m] = IF m = k THEN up ELSE t.parent[m]
                               /\ u.color[m] = IF m = k THEN RED ELSE t.color[m]
            /\ \A q \in Side, m \in Node :
                 u.child[q][m] = IF m = up /\ m # Guard /\ q = d THEN k
                                 ELSE IF m = k THEN Guard ELSE t.child[q][m]
<1> DEFINE d == IF k < up THEN "left" ELSE "right"
           t1 == [t EXCEPT !.parent[k] = up]
           t2 == [t1 EXCEPT !.color[k] = RED]
           t3 == [t2 EXCEPT !.child["left"][k] = Guard]
           t4 == [t3 EXCEPT !.child["right"][k] = Guard]
<1>1. /\ k \in Node /\ Guard \in Node /\ d \in Side /\ k # Guard
      /\ "left" \in Side /\ "right" \in Side /\ RED \in Color
      /\ \A q \in Side : q = "left" \/ q = "right"
  BY KeysFacts DEF Side, Color
<1>2. Grown(t, k, up) = IF up = Guard THEN [t4 EXCEPT !.root = k]
                        ELSE [t4 EXCEPT !.child[d][up] = k]
  BY DEF Grown
<1> HIDE DEF d
<1>3. /\ t1 \in Tree /\ t1.root = t.root /\ t1.child = t.child /\ t1.color = t.color
      /\ \A m \in Node : t1.parent[m] = IF m = k THEN up ELSE t.parent[m]
  BY <1>1, ParentFields
<1>4. /\ t2 \in Tree /\ t2.root = t.root /\ t2.child = t.child /\ t2.parent = t1.parent
      /\ \A m \in Node : t2.color[m] = IF m = k THEN RED ELSE t.color[m]
  <2>1. /\ t2 \in Tree /\ t2.root = t1.root /\ t2.child = t1.child
        /\ t2.parent = t1.parent
        /\ \A m \in Node : t2.color[m] = IF m = k THEN RED ELSE t1.color[m]
    <3> HIDE DEF t1
    <3> QED BY <1>1, <1>3, PaintFields DEF Paint
  <2> QED BY <1>3, <2>1
<1> HIDE DEF t1, t2
<1>5. /\ t3 \in Tree /\ t3.root = t.root /\ t3.parent = t1.parent /\ t3.color = t2.color
      /\ \A q \in Side, m \in Node :
           t3.child[q][m] = IF q = "left" /\ m = k THEN Guard ELSE t.child[q][m]
  <2>1. "left" \in Side /\ k \in Node /\ Guard \in Node /\ t2 \in Tree
    BY <1>1, <1>4
  <2>2. /\ t3 \in Tree /\ t3.root = t2.root /\ t3.parent = t2.parent
        /\ t3.color = t2.color
        /\ \A q \in Side, m \in Node :
             t3.child[q][m] = IF q = "left" /\ m = k THEN Guard ELSE t2.child[q][m]
    BY <2>1, ChildFields
  <2> HIDE DEF t3
  <2> QED BY <1>4, <2>2
<1> HIDE DEF t3
<1>6. /\ t4 \in Tree /\ t4.root = t.root /\ t4.parent = t1.parent /\ t4.color = t2.color
      /\ \A q \in Side, m \in Node :
           t4.child[q][m] = IF m = k THEN Guard ELSE t.child[q][m]
  <2>1. /\ t4 \in Tree /\ t4.root = t3.root /\ t4.parent = t3.parent
        /\ t4.color = t3.color
        /\ \A q \in Side, m \in Node :
             t4.child[q][m] = IF q = "right" /\ m = k THEN Guard ELSE t3.child[q][m]
    <3>1. "right" \in Side /\ k \in Node /\ Guard \in Node /\ t3 \in Tree
      BY <1>1, <1>5
    <3> QED BY <3>1, ChildFields
  <2> QED BY <1>1, <1>5, <2>1
<1> HIDE DEF t4
<1>7. CASE up = Guard
  <2>1. LET u == [t4 EXCEPT !.root = k]
        IN /\ u \in Tree /\ u.root = k /\ u.child = t4.child
           /\ u.parent = t4.parent /\ u.color = t4.color
    BY <1>1, <1>6 DEF Tree
  <2> QED BY <1>2, <1>3, <1>4, <1>6, <1>7, <2>1 DEF d
<1>8. CASE up # Guard
  <2>1. LET u == [t4 EXCEPT !.child[d][up] = k]
        IN /\ u \in Tree /\ u.root = t4.root /\ u.parent = t4.parent
           /\ u.color = t4.color
           /\ \A q \in Side, m \in Node :
                u.child[q][m] = IF q = d /\ m = up THEN k ELSE t4.child[q][m]
    BY <1>1, <1>6, ChildFields
  <2> QED BY <1>2, <1>3, <1>4, <1>6, <1>8, <2>1 DEF d
<1> QED BY <1>7, <1>8

\* The subtrees with k below up.
Added(t, D, k, up) ==
  [m \in Node |-> IF m = k THEN {k} ELSE IF up \in D[m] THEN D[m] \cup {k} ELSE D[m]]

\* Where k belongs: on the right side of every node above.
Place(t, D, k, up) ==
  IF up = Guard THEN t.root = Guard
  ELSE /\ up \in D[t.root] /\ up # k
       /\ t.child[IF k < up THEN "left" ELSE "right"][up] = Guard
       /\ \A m \in D[t.root], s \in Side : up \in D[t.child[s][m]] => Lies(s, k, m)

\* bst_insert() leaves a search tree with one more key.
LEMMA GrownShape ==
  ASSUME NEW t \in Tree, NEW D \in Subtrees, Shape(t, D),
         NEW k \in Keys, k \notin D[t.root], NEW up \in Node, Place(t, D, k, up)
  PROVE  LET u == Grown(t, k, up)
             E == Added(t, D, k, up)
         IN E \in Subtrees /\ Shape(u, E) /\ E[u.root] = D[t.root] \cup {k}
<1> DEFINE u == Grown(t, k, up)
           E == Added(t, D, k, up)
           d == IF k < up THEN "left" ELSE "right"
<1>0. /\ k \in Node /\ k # Guard /\ Guard \in Node /\ d \in Side /\ k # up
      /\ D \in [Node -> SUBSET Keys] /\ Keys \subseteq Node /\ D[Guard] = {}
      /\ t.root \in Node
      /\ up # Guard => Lies(d, k, up)
  BY KeysFacts, TreeTypes DEF Subtrees, Shape, Side, Place, Lies
<1>1. /\ u \in Tree /\ u.root = IF up = Guard THEN k ELSE t.root
      /\ \A m \in Node : u.parent[m] = IF m = k THEN up ELSE t.parent[m]
      /\ \A q \in Side, m \in Node :
           u.child[q][m] = IF m = up /\ m # Guard /\ q = d THEN k
                           ELSE IF m = k THEN Guard ELSE t.child[q][m]
  BY <1>0, GrownFields
<1>2. /\ E \in Subtrees /\ E[k] = {k}
      /\ \A m \in Node : m # k => E[m] = IF up \in D[m] THEN D[m] \cup {k} ELSE D[m]
  BY <1>0 DEF Added, Subtrees
<1>3. CASE up = Guard
  <2>1. t.root = Guard /\ D[t.root] = {}
    BY <1>0, <1>3 DEF Place
  <2>2. u.root = k /\ E[Guard] = {} /\ u.parent[k] = Guard
        /\ \A q \in Side : u.child[q][k] = Guard
    BY <1>0, <1>1, <1>2, <1>3
  <2> HIDE DEF u, E
  <2>3. E[u.root] = {k} /\ k \in Node
    BY <1>0, <1>2, <2>2
  <2>4. Shape(u, E)
    BY <2>2, <2>3 DEF Shape, OrderedAt, LinkedAt
  <2> QED BY <1>2, <2>1, <2>3, <2>4 DEF u, E
<1>4. CASE up # Guard
  <2>1. /\ up \in D[t.root] /\ t.child[d][up] = Guard /\ u.root = t.root
        /\ t.root # k /\ t.root \in D[t.root] /\ t.root # Guard
        /\ \A m \in D[t.root], s \in Side : up \in D[t.child[s][m]] => Lies(s, k, m)
        /\ \A m \in D[t.root] : m # k /\ m \in Node /\ m # Guard
    BY <1>0, <1>1, <1>4, ParentFacts DEF Place
  <2> HIDE DEF u, E, d
  <2>2. E[u.root] = D[t.root] \cup {k} /\ E[Guard] = {}
    BY <1>0, <1>2, <2>1
  <2>3. ASSUME NEW m \in D[t.root], NEW q \in Side
        PROVE  /\ t.child[q][m] \in Node /\ t.child[q][m] # k
               /\ t.child[q][m] # Guard =>
                    t.child[q][m] \in D[t.root] /\ t.parent[t.child[q][m]] = m
               /\ u.child[q][m] = IF m = up /\ q = d THEN k ELSE t.child[q][m]
               /\ E[t.child[q][m]] = IF up \in D[t.child[q][m]]
                                     THEN D[t.child[q][m]] \cup {k}
                                     ELSE D[t.child[q][m]]
               /\ E[m] = IF up \in D[m] THEN D[m] \cup {k} ELSE D[m]
               /\ \A j \in D[t.child[q][m]] : Lies(q, j, m)
               /\ m = up /\ q = d => D[t.child[q][m]] = {}
    <3> DEFINE c == t.child[q][m]
    <3>1. c \in Node /\ c # k /\ (c # Guard => c \in D[t.root] /\ t.parent[c] = m)
      BY <1>0, ChildSubtree
    <3>2. \A j \in D[c] : Lies(q, j, m)
      BY DEF Shape, OrderedAt
    <3>3. u.child[q][m] = IF m = up /\ q = d THEN k ELSE c
      BY <1>1, <2>1
    <3>4. m = up /\ q = d => D[c] = {}
      BY <1>0, <2>1
    <3> HIDE DEF c
    <3>5. /\ E[c] = IF up \in D[c] THEN D[c] \cup {k} ELSE D[c]
          /\ E[m] = IF up \in D[m] THEN D[m] \cup {k} ELSE D[m]
      BY <1>2, <2>1, <3>1
    <3> QED BY <2>1, <3>1, <3>2, <3>3, <3>4, <3>5 DEF c
  <2>4. ASSUME NEW m \in D[t.root]
        PROVE  OrderedAt(u, E, m)
    <3>0. \A j \in Node : j \in D[m] <=> j = m \/ \E s \in Side : j \in D[t.child[s][m]]
      BY DEF Shape, OrderedAt
    <3>a. \A q \in Side : u.child[q][m] = IF m = up /\ q = d THEN k ELSE t.child[q][m]
      BY <2>3
    <3>b. \A q \in Side : \A j \in Node : j \in E[t.child[q][m]] <=>
            \/ j \in D[t.child[q][m]]
            \/ j = k /\ up \in D[t.child[q][m]]
      <4> TAKE q \in Side
      <4>1. E[t.child[q][m]] = IF up \in D[t.child[q][m]] THEN D[t.child[q][m]] \cup {k}
                              ELSE D[t.child[q][m]]
        BY <2>3
      <4> QED BY <4>1
    <3>c. \A j \in Node : j \in E[m] <=> j \in D[m] \/ (j = k /\ up \in D[m])
      BY <1>2, <2>1
    <3>d. m = up => D[t.child[d][m]] = {}
      BY <1>0, <2>1
    <3>e. m \in Node /\ m # k /\ E[k] = {k}
      BY <1>2, <2>1
    <3>1. ASSUME NEW q \in Side, NEW j \in E[u.child[q][m]]
          PROVE  Lies(q, j, m)
      <4>0. u.child[q][m] = IF m = up /\ q = d THEN k ELSE t.child[q][m]
        BY <3>a
      <4>1. CASE m = up /\ q = d
        <5>1. j = k
          BY <3>e, <4>0, <4>1
        <5> QED BY <1>0, <1>4, <4>1, <5>1
      <4>2. CASE ~(m = up /\ q = d)
        <5>0. t.child[q][m] \in Node
          BY <2>3
        <5>1. j \in Node
          BY <1>0, <1>2, <4>0, <4>2, <5>0 DEF Subtrees
        <5>2. j \in D[t.child[q][m]] \/ (j = k /\ up \in D[t.child[q][m]])
          BY <3>b, <4>0, <4>2, <5>1
        <5>3. \A i \in D[t.child[q][m]] : Lies(q, i, m)
          BY <2>3
        <5>4. up \in D[t.child[q][m]] => Lies(q, k, m)
          BY <2>1
        <5> QED BY <5>2, <5>3, <5>4
      <4> QED BY <4>1, <4>2
    <3>2. ASSUME NEW j \in Node, j \in E[m]
          PROVE  j = m \/ \E s \in Side : j \in E[u.child[s][m]]
      <4>1. j \in D[m] \/ (j = k /\ up \in D[m])
        BY <3>2, <3>c
      <4>2. ASSUME NEW s \in Side, j \in D[t.child[s][m]]
            PROVE  j \in E[u.child[s][m]]
        <5>1. ~(m = up /\ s = d)
          BY <3>d, <4>2
        <5>2. u.child[s][m] = t.child[s][m]
          BY <3>a, <5>1
        <5> QED BY <3>b, <4>2, <5>2
      <4>3. ASSUME NEW s \in Side, j = k, up \in D[t.child[s][m]]
            PROVE  j \in E[u.child[s][m]]
        <5>1. ~(m = up /\ s = d)
          BY <3>d, <4>3
        <5>2. u.child[s][m] = t.child[s][m]
          BY <3>a, <5>1
        <5> QED BY <3>b, <4>3, <5>2
      <4>4. j = k /\ up = m => j \in E[u.child[d][m]]
        BY <1>0, <3>a, <3>e
      <4>5. up \in Node
        OBVIOUS
      <4> QED BY <1>0, <3>0, <4>1, <4>2, <4>3, <4>4, <4>5
    <3>3. ASSUME NEW j \in Node, j = m \/ \E s \in Side : j \in E[u.child[s][m]]
          PROVE  j \in E[m]
      <4>1. CASE j = m
        BY <3>0, <3>c, <4>1
      <4>2. ASSUME NEW s \in Side, j \in E[u.child[s][m]]
            PROVE  j \in E[m]
        <5>1. CASE m = up /\ s = d
          <6>1. j = k
            BY <3>a, <3>e, <4>2, <5>1
          <6>2. up \in D[m]
            BY <3>0, <3>e, <5>1
          <6> QED BY <3>c, <6>1, <6>2
        <5>2. CASE ~(m = up /\ s = d)
          <6>1. j \in D[t.child[s][m]] \/ (j = k /\ up \in D[t.child[s][m]])
            BY <3>a, <3>b, <4>2, <5>2
          <6>2. \A i \in Node : i \in D[t.child[s][m]] => i \in D[m]
            BY <3>0
          <6> QED BY <3>c, <6>1, <6>2
        <5> QED BY <5>1, <5>2
      <4> QED BY <3>3, <4>1, <4>2
    <3> QED BY <3>1, <3>2, <3>3 DEF OrderedAt
  <2>5. OrderedAt(u, E, k)
    <3>1. \A q \in Side : u.child[q][k] = Guard
      BY <1>0, <1>1
    <3> QED BY <1>2, <2>2, <3>1 DEF OrderedAt
  <2>6. ASSUME NEW m \in D[t.root]
        PROVE  LinkedAt(u, E, m)
    <3>1. ASSUME NEW q \in Side, u.child[q][m] # Guard
          PROVE  u.child[q][m] \in E[u.root] /\ u.parent[u.child[q][m]] = m
      <4>1. u.child[q][m] = IF m = up /\ q = d THEN k ELSE t.child[q][m]
        BY <2>3
      <4>2. CASE m = up /\ q = d
        BY <1>0, <1>1, <2>2, <4>1, <4>2
      <4>3. CASE ~(m = up /\ q = d)
        <5>1. t.child[q][m] \in D[t.root] /\ t.parent[t.child[q][m]] = m
              /\ t.child[q][m] \in Node /\ t.child[q][m] # k
          BY <2>3, <3>1, <4>1, <4>3
        <5>2. u.parent[t.child[q][m]] = m
          BY <1>1, <5>1
        <5> QED BY <2>2, <4>1, <4>3, <5>1, <5>2
      <4> QED BY <4>2, <4>3
    <3>2. ASSUME m # u.root
          PROVE  /\ u.parent[m] \in E[u.root]
                 /\ \E q \in Side : u.child[q][u.parent[m]] = m
      <4>1. t.parent[m] \in D[t.root] /\ \E q \in Side : t.child[q][t.parent[m]] = m
        BY <2>1, <3>2 DEF Shape, LinkedAt
      <4>2. u.parent[m] = t.parent[m]
        BY <1>1, <2>1
      <4>3. PICK q \in Side : t.child[q][t.parent[m]] = m
        BY <4>1
      <4>4. u.child[q][t.parent[m]] = m
        <5>1. u.child[q][t.parent[m]] = IF t.parent[m] = up /\ q = d THEN k
                                        ELSE t.child[q][t.parent[m]]
          <6>1. t.parent[m] \in Node /\ t.parent[m] # k /\ t.parent[m] # Guard
            BY <2>1, <4>1
          <6> QED BY <1>1, <6>1
        <5>2. m # Guard
          BY <2>1
        <5> QED BY <2>1, <4>3, <5>1, <5>2
      <4> QED BY <2>2, <4>1, <4>2, <4>4
    <3> QED BY <3>1, <3>2 DEF LinkedAt
  <2>7. LinkedAt(u, E, k)
    <3>1. u.parent[k] = up /\ u.child[d][up] = k /\ \A q \in Side : u.child[q][k] = Guard
      BY <1>0, <1>1, <1>4
    <3> QED BY <1>0, <2>1, <2>2, <3>1 DEF LinkedAt
  <2>8. \A m \in D[t.root] \cup {k} : E[m] \subseteq E[u.root]
    <3>1. ASSUME NEW m \in D[t.root] PROVE E[m] \subseteq E[u.root]
      <4>1. D[m] \subseteq D[t.root]
        BY DEF Shape
      <4>2. E[m] \subseteq D[m] \cup {k}
        BY <1>2, <2>1
      <4> QED BY <2>2, <4>1, <4>2
    <3>2. E[k] \subseteq E[u.root]
      BY <1>2, <2>2
    <3> QED BY <3>1, <3>2
  <2>9. u.parent[u.root] = Guard
    <3>1. t.parent[t.root] = Guard
      BY <2>1 DEF Shape
    <3> QED BY <1>0, <1>1, <2>1, <3>1
  <2>10. Shape(u, E)
    BY <2>1, <2>2, <2>4, <2>5, <2>6, <2>7, <2>8, <2>9 DEF Shape
  <2> QED BY <1>2, <2>2, <2>10 DEF u, E
<1> QED BY <1>3, <1>4

\* The subtree of a node in a subtree is part of it, and a proper part.
LEMMA SubtreeInside ==
  ASSUME NEW t \in Tree, NEW D \in Subtrees, Shape(t, D),
         NEW n \in D[t.root], NEW m \in D[n]
  PROVE  /\ D[m] \subseteq D[n]
         /\ m # n => n \notin D[m]
<1>1. /\ m \in D[t.root] /\ D[n] \in SUBSET Keys
      /\ \A s \in Side, k \in D[n] : t.child[s][k] # Guard => t.child[s][k] \in D[n]
  <2>1. n \in Node
    BY ParentFacts
  <2>2. m \in D[t.root]
    BY Nested
  <2>3. ASSUME NEW s \in Side, NEW k \in D[n]
        PROVE  t.child[s][k] # Guard => t.child[s][k] \in D[n]
    BY Nested
  <2> QED BY <2>1, <2>2, <2>3 DEF Subtrees
<1>2. m \in Node
  BY <1>1, ParentFacts
<1>3. Below(t, m) \subseteq D[n]
  BY <1>1, <1>2, BelowLeast
<1>4. D[m] \subseteq D[n]
  BY <1>1, <1>2, <1>3, BelowIsSubtree
<1>5. ASSUME m # n, n \in D[m]
      PROVE  FALSE
  <2>1. m # t.root \/ n # t.root
    BY <1>5
  <2>2. t.parent[m] \in D[n] /\ t.parent[m] \in D[t.root]
    BY <1>1, <1>5, Nested
  <2>3. D[n] \subseteq D[m]
    <3>1. Below(t, n) \subseteq D[m]
      <4>1. D[m] \in SUBSET Keys /\ n \in Node
            /\ \A s \in Side, k \in D[m] : t.child[s][k] # Guard => t.child[s][k] \in D[m]
        BY <1>1, Nested, ParentFacts DEF Subtrees
      <4> QED BY <1>5, <4>1, BelowLeast
    <3>2. n \in Node
      BY ParentFacts
    <3> QED BY <3>1, <3>2, BelowIsSubtree
  <2>4. t.parent[m] \in D[m]
    BY <2>2, <2>3
  <2>5. m # t.root
    <3>1. t.parent[m] # Guard
      BY <2>2, ParentFacts
    <3> QED BY <1>1, <3>1, ParentFacts
  <2>6. SideOf(t, m) \in Side /\ t.child[SideOf(t, m)][t.parent[m]] = m
    BY <1>1, <2>5, SideOfIs
  <2>7. t.parent[m] \notin D[m]
    <3> DEFINE q == SideOf(t, m)
               r == t.parent[m]
    <3>1. q \in Side /\ r \in D[t.root] /\ t.child[q][r] = m
      BY <2>2, <2>6
    <3> HIDE DEF q, r
    <3>2. r \notin D[t.child[q][r]]
      BY <3>1, ChildSubtree
    <3> QED BY <3>1, <3>2 DEF r
  <2> QED BY <2>4, <2>7
<1> QED BY <1>4, <1>5

\* The subtrees without n.
Without(D, n) == [m \in Node |-> D[m] \ {n}]

\* A node with at most one child is taken out of a search tree.
LEMMA TransplantShape ==
  ASSUME NEW t \in Tree, NEW D \in Subtrees, Shape(t, D),
         NEW n \in D[t.root], NEW o \in Side, t.child[Other(o)][n] = Guard
  PROVE  LET u == Transplant(t, n, t.child[o][n])
             E == Without(D, n)
         IN /\ Transplanted(t, n, t.child[o][n], u)
            /\ E \in Subtrees /\ Shape(u, E) /\ E[u.root] = D[t.root] \ {n}
            /\ \A q \in Side : u.child[q][n] = t.child[q][n]
<1> DEFINE v == t.child[o][n]
           u == Transplant(t, n, v)
           E == Without(D, n)
           p == t.parent[n]
           So == SideOf(t, n)
<1>1. /\ Other(o) \in Side /\ Other(o) # o
      /\ \A q \in Side : q = o \/ q = Other(o)
  BY LiesFacts, KeysFacts
<1>2. /\ n \in Keys /\ n \in Node /\ n # Guard /\ n \in D[n] /\ D[n] \subseteq D[t.root]
      /\ t.root \in D[t.root] /\ t.root # Guard /\ t.root \in Node
      /\ t.parent[t.root] = Guard
      /\ D[Guard] = {} /\ Guard \in Node
      /\ D \in [Node -> SUBSET Keys] /\ Keys \subseteq Node
  <2>1. /\ n \in Keys /\ n \in Node /\ n # Guard
        /\ t.root \in D[t.root] /\ t.root # Guard /\ t.root \in Node
    BY ParentFacts, TreeTypes
  <2>2. n \in D[n] /\ D[n] \subseteq D[t.root]
    BY ChildSubtree
  <2>3. t.parent[t.root] = Guard /\ D[Guard] = {}
    BY <2>1 DEF Shape
  <2> QED BY <2>1, <2>2, <2>3, KeysFacts DEF Subtrees
<1>3. /\ v \in Node /\ D[v] \subseteq D[n] /\ v # n /\ v # t.root /\ n \notin D[v]
      /\ v # Guard => v \in D[t.root] /\ t.parent[v] = n /\ v \in D[v]
      /\ v = Guard => D[v] = {}
  BY <1>2, ChildSubtree
<1>4. /\ p \in Node /\ p # n /\ (p = Guard <=> n = t.root)
      /\ p # Guard => /\ p \in D[t.root] /\ So \in Side /\ t.child[So][p] = n
                      /\ \A q \in Side : q # So => t.child[q][p] # n
  <2>1. p \in Node /\ (p = Guard <=> n = t.root)
    BY <1>2, TreeTypes, ParentFacts
  <2>2. CASE p = Guard
    BY <1>2, <2>1, <2>2
  <2>3. CASE p # Guard
    BY <2>1, <2>3, SideOfIs
  <2> QED BY <2>2, <2>3
<1>5. Transplanted(t, n, v, u)
  BY <1>2, <1>3, TransplantFields
<1>6. /\ u \in Tree /\ u.root = IF p = Guard THEN v ELSE t.root
      /\ \A m \in Node : u.parent[m] = IF m = v THEN p ELSE t.parent[m]
      /\ \A q \in Side, m \in Node :
           u.child[q][m] = IF m # Guard /\ m = p /\ q = So THEN v ELSE t.child[q][m]
  BY <1>5 DEF Transplanted
<1>7. /\ E \in Subtrees
      /\ \A m \in Node : E[m] = D[m] \ {n}
  BY <1>2 DEF Without, Subtrees
<1>8. D[n] = {n} \cup D[v]
  <2>1. \A m \in Node : m \in D[n] <=> m = n \/ \E s \in Side : m \in D[t.child[s][n]]
    BY DEF Shape, OrderedAt
  <2>2. \A m \in Node : m \in D[n] <=> m = n \/ m \in D[v]
    BY <1>1, <1>2, <2>1
  <2> QED BY <1>2, <1>3, <2>2
<1>9. E[v] = D[v] /\ E[n] = D[v] /\ E[Guard] = {}
  <2>1. n \in Node /\ v \in Node /\ Guard \in Node /\ D[Guard] = {} /\ n \notin D[v]
    BY <1>2, <1>3
  <2> HIDE DEF v, E
  <2> QED BY <1>7, <1>8, <2>1
<1>10. \A q \in Side : u.child[q][n] = t.child[q][n]
  BY <1>2, <1>4, <1>6
<1> HIDE DEF v, u, E, p, So
<1>11. E[u.root] = D[t.root] \ {n}
  BY <1>2, <1>4, <1>6, <1>7, <1>8, <1>9
<1>12. u.root # Guard => u.root \in E[u.root] /\ u.parent[u.root] = Guard
  <2>1. CASE p = Guard
    <3>1. u.root = v
      BY <1>6, <2>1
    <3>2. u.parent[v] = Guard
      BY <1>3, <1>6, <2>1
    <3> QED BY <1>3, <1>9, <3>1, <3>2
  <2>2. CASE p # Guard
    <3>1. u.root = t.root /\ t.root # n
      BY <1>4, <1>6, <2>2
    <3>2. u.parent[t.root] = Guard
      BY <1>2, <1>3, <1>6
    <3> QED BY <1>2, <1>11, <3>1, <3>2
  <2> QED BY <2>1, <2>2
<1>13. ASSUME NEW m \in D[t.root], m # n, NEW q \in Side
       PROVE  /\ E[u.child[q][m]] = D[t.child[q][m]] \ {n}
              /\ u.child[q][m] # Guard =>
                   u.parent[u.child[q][m]] = m /\ u.child[q][m] \in D[t.root] \ {n}
  <2> DEFINE c == t.child[q][m]
  <2>1. /\ c \in Node /\ m \in Node /\ m # Guard
        /\ c # Guard => c \in D[t.root] /\ t.parent[c] = m
    BY ChildSubtree, ParentFacts
  <2>2. CASE m = p /\ q = So
    <3>1. u.child[q][m] = v /\ c = n
      BY <1>4, <1>6, <2>1, <2>2
    <3>2. v # Guard => u.parent[v] = m
      BY <1>3, <1>6, <2>2
    <3>3. D[c] \ {n} = D[v]
      BY <1>3, <1>8, <3>1
    <3> QED BY <1>3, <1>9, <3>1, <3>2, <3>3
  <2>3. CASE ~(m = p /\ q = So)
    <3>1. u.child[q][m] = c
      BY <1>6, <2>1, <2>3
    <3>2. c # n
      BY <1>2, <1>4, <2>1, <2>3 DEF p
    <3>3. c # Guard => c # v
      BY <1>3, <1>13, <2>1
    <3>4. c # Guard => u.parent[c] = m
      BY <1>6, <2>1, <3>3
    <3> QED BY <1>7, <2>1, <3>1, <3>2, <3>4
  <2> QED BY <2>2, <2>3
<1>14. ASSUME NEW m \in D[t.root], m # n
       PROVE  OrderedAt(u, E, m)
  <2>1. OrderedAt(t, D, m)
    BY DEF Shape
  <2>2. \A q \in Side : E[u.child[q][m]] = D[t.child[q][m]] \ {n}
    BY <1>13, <1>14
  <2>3. E[m] = D[m] \ {n} /\ m \in Node
    BY <1>7, ParentFacts
  <2> QED BY <1>14, <2>1, <2>2, <2>3 DEF OrderedAt
<1>15. ASSUME NEW m \in D[t.root], m # n
       PROVE  LinkedAt(u, E, m)
  <2>1. \A q \in Side : u.child[q][m] # Guard =>
          u.parent[u.child[q][m]] = m /\ u.child[q][m] \in D[t.root] \ {n}
    BY <1>13, <1>15
  <2>2. ASSUME m # u.root
        PROVE  u.parent[m] \in D[t.root] \ {n} /\ \E q \in Side : u.child[q][u.parent[m]] = m
    <3>0. m \in Node /\ m # Guard
      BY ParentFacts
    <3>1. CASE m = v
      <4>1. p # Guard
        BY <1>6, <2>2, <3>1
      <4>2. u.parent[v] = p /\ u.child[So][p] = v
        BY <1>3, <1>4, <1>6, <4>1
      <4> QED BY <1>4, <3>1, <4>1, <4>2
    <3>2. CASE m # v
      <4>1. m # t.root
        BY <1>4, <1>6, <1>15, <2>2
      <4>2. t.parent[m] \in D[t.root] /\ \E q \in Side : t.child[q][t.parent[m]] = m
        BY <4>1 DEF Shape, LinkedAt
      <4>3. t.parent[m] # n
        BY <1>1, <3>0, <3>2, <4>2 DEF v
      <4>4. PICK q \in Side : t.child[q][t.parent[m]] = m
        BY <4>2
      <4>5. t.parent[m] \in Node
        BY <4>2, ParentFacts
      <4>6. u.child[q][t.parent[m]] = m
        BY <1>4, <1>6, <1>15, <4>4, <4>5
      <4>7. u.parent[m] = t.parent[m]
        BY <1>6, <3>0, <3>2
      <4> QED BY <4>2, <4>3, <4>6, <4>7
    <3> QED BY <3>1, <3>2
  <2> QED BY <1>11, <2>1, <2>2 DEF LinkedAt
<1>16. \A m \in D[t.root] : m # n => E[m] \subseteq E[u.root]
  <2>1. \A m \in D[t.root] : D[m] \subseteq D[t.root] /\ m \in Node
    BY ParentFacts DEF Shape
  <2> QED BY <1>7, <1>11, <2>1
<1>17. Shape(u, E)
  BY <1>9, <1>11, <1>12, <1>14, <1>15, <1>16 DEF Shape
<1> QED BY <1>5, <1>7, <1>10, <1>11, <1>17 DEF u, E, v

\* k, which is not in the tree, stands where n did.
Swapped(t, D, n, k, u) ==
  /\ u \in Tree
  /\ u.root = IF n = t.root THEN k ELSE t.root
  /\ u.parent[k] = t.parent[n]
  /\ \A q \in Side : u.child[q][k] = t.child[q][n]
  /\ \A j \in D[t.root] : j # n =>
       /\ u.parent[j] = IF t.parent[j] = n THEN k ELSE t.parent[j]
       /\ \A q \in Side :
            u.child[q][j] = IF t.child[q][j] = n THEN k ELSE t.child[q][j]

Renamed(S, n, k) == IF n \in S THEN (S \ {n}) \cup {k} ELSE S

Swap(D, n, k) == [m \in Node |-> Renamed(D[IF m = k THEN n ELSE m], n, k)]

\* A node of a search tree is replaced by a key that fits its place.
LEMMA SwapShape ==
  ASSUME NEW t \in Tree, NEW D \in Subtrees, Shape(t, D),
         NEW n \in D[t.root], NEW k \in Keys, k \notin D[t.root],
         NEW u, Swapped(t, D, n, k, u),
         \A q \in Side : \A j \in D[t.child[q][n]] : Lies(q, j, k),
         \A q \in Side, j \in D[t.root] : n \in D[t.child[q][j]] => Lies(q, k, j)
  PROVE  LET E == Swap(D, n, k)
         IN /\ E \in Subtrees /\ Shape(u, E)
            /\ E[u.root] = (D[t.root] \ {n}) \cup {k}
<1> DEFINE E == Swap(D, n, k)
           Root == (D[t.root] \ {n}) \cup {k}
<1>1. /\ n \in Keys /\ n \in Node /\ n # Guard /\ n \in D[n]
      /\ t.root \in D[t.root] /\ t.root # Guard /\ t.root \in Node
      /\ t.parent[t.root] = Guard /\ D[Guard] = {} /\ Guard \in Node
      /\ k \in Node /\ k # Guard /\ k # n
      /\ D \in [Node -> SUBSET Keys] /\ Keys \subseteq Node
      /\ \A j \in D[t.root] : j \in Node /\ j # Guard /\ j # k
                              /\ D[j] \subseteq D[t.root]
  <2>1. /\ n \in Keys /\ n \in Node /\ n # Guard
        /\ t.root \in D[t.root] /\ t.root # Guard /\ t.root \in Node
    BY ParentFacts, TreeTypes
  <2>2. n \in D[n]
    BY ChildSubtree DEF Side
  <2>3. t.parent[t.root] = Guard /\ D[Guard] = {}
    BY <2>1 DEF Shape
  <2>4. \A j \in D[t.root] : j \in Node /\ j # Guard /\ j # k
                             /\ D[j] \subseteq D[t.root]
    BY ParentFacts DEF Shape
  <2> QED BY <2>1, <2>2, <2>3, <2>4, KeysFacts DEF Subtrees
<1>2. /\ E \in Subtrees
      /\ E[k] = (D[n] \ {n}) \cup {k}
      /\ \A m \in Node : m # k =>
           E[m] = IF n \in D[m] THEN (D[m] \ {n}) \cup {k} ELSE D[m]
  BY <1>1 DEF Swap, Renamed, Subtrees
<1>3. /\ u \in Tree
      /\ u.root = IF n = t.root THEN k ELSE t.root
      /\ u.parent[k] = t.parent[n]
      /\ \A q \in Side : u.child[q][k] = t.child[q][n]
      /\ \A j \in D[t.root] : j # n =>
           /\ u.parent[j] = IF t.parent[j] = n THEN k ELSE t.parent[j]
           /\ \A q \in Side :
                u.child[q][j] = IF t.child[q][j] = n THEN k ELSE t.child[q][j]
  BY DEF Swapped
<1> HIDE DEF E
<1>4. /\ E[u.root] = Root /\ E[Guard] = {} /\ u.root \in Root
      /\ u.parent[u.root] = Guard
  <2>0. E[Guard] = {}
    BY <1>1, <1>2
  <2>1. CASE n = t.root
    <3>1. u.root = k /\ u.parent[k] = Guard
      BY <1>1, <1>3, <2>1
    <3> QED BY <1>2, <2>0, <2>1, <3>1
  <2>2. CASE n # t.root
    <3>1. u.root = t.root /\ t.parent[t.root] # n
      BY <1>1, <1>3, <2>2
    <3>2. u.parent[t.root] = Guard
      BY <1>1, <1>3, <2>2, <3>1
    <3>3. E[t.root] = Root
      BY <1>1, <1>2
    <3> QED BY <1>1, <2>0, <2>2, <3>1, <3>2, <3>3
  <2> QED BY <2>1, <2>2
<1>5. ASSUME NEW j \in D[t.root], NEW q \in Side
      PROVE  /\ t.child[q][j] \in Node /\ t.child[q][j] # k /\ t.child[q][j] # j
             /\ t.child[q][j] # Guard =>
                  t.child[q][j] \in D[t.root] /\ t.parent[t.child[q][j]] = j
             /\ E[t.child[q][j]] = IF n \in D[t.child[q][j]]
                                   THEN (D[t.child[q][j]] \ {n}) \cup {k}
                                   ELSE D[t.child[q][j]]
             /\ \A i \in D[t.child[q][j]] : Lies(q, i, j)
  <2> DEFINE c == t.child[q][j]
  <2>1. c \in Node /\ c # j /\ (c # Guard => c \in D[t.root] /\ t.parent[c] = j)
    BY ChildSubtree
  <2>2. \A i \in D[c] : Lies(q, i, j)
    BY DEF Shape, OrderedAt
  <2>3. c # k
    BY <1>1, <2>1
  <2> HIDE DEF c
  <2>4. E[c] = IF n \in D[c] THEN (D[c] \ {n}) \cup {k} ELSE D[c]
    BY <1>2, <2>1, <2>3
  <2> QED BY <2>1, <2>2, <2>3, <2>4 DEF c
<1>6. ASSUME NEW j \in D[t.root], j # n
      PROVE  OrderedAt(u, E, j)
  <2>0. \A i \in Node : i \in D[j] <=> i = j \/ \E s \in Side : i \in D[t.child[s][j]]
    BY DEF Shape, OrderedAt
  <2>1. ASSUME NEW q \in Side
        PROVE  E[u.child[q][j]] = IF n \in D[t.child[q][j]]
                                  THEN (D[t.child[q][j]] \ {n}) \cup {k}
                                  ELSE D[t.child[q][j]]
    <3>1. u.child[q][j] = IF t.child[q][j] = n THEN k ELSE t.child[q][j]
      BY <1>3, <1>6
    <3>2. CASE t.child[q][j] = n
      BY <1>1, <1>2, <3>1, <3>2
    <3>3. CASE t.child[q][j] # n
      <4>1. E[t.child[q][j]] = IF n \in D[t.child[q][j]]
                               THEN (D[t.child[q][j]] \ {n}) \cup {k}
                               ELSE D[t.child[q][j]]
        BY <1>5
      <4> QED BY <3>1, <3>3, <4>1
    <3> QED BY <3>2, <3>3
  <2>2. E[j] = IF n \in D[j] THEN (D[j] \ {n}) \cup {k} ELSE D[j]
    BY <1>1, <1>2
  <2>3. ASSUME NEW q \in Side, NEW i \in E[u.child[q][j]]
        PROVE  Lies(q, i, j)
    <3>1. i \in D[t.child[q][j]] \/ (i = k /\ n \in D[t.child[q][j]])
      BY <2>1
    <3>2. \A h \in D[t.child[q][j]] : Lies(q, h, j)
      BY <1>5
    <3> QED BY <3>1, <3>2
  <2>4. ASSUME NEW i \in Node
        PROVE  i \in E[j] <=> i = j \/ \E s \in Side : i \in E[u.child[s][j]]
    <3>1. ASSUME NEW s \in Side
          PROVE  i \in E[u.child[s][j]] <=>
                   \/ i \in D[t.child[s][j]] /\ i # n
                   \/ i = k /\ n \in D[t.child[s][j]]
      <4>1. k \notin D[t.child[s][j]]
        <5>1. D[t.child[s][j]] \subseteq D[t.root]
          BY ChildSubtree
        <5> QED BY <5>1
      <4> QED BY <2>1, <4>1
    <3>2. i \in E[j] <=> (i \in D[j] /\ i # n) \/ (i = k /\ n \in D[j])
      BY <1>1, <2>2
    <3>3. n \in D[j] <=> \E s \in Side : n \in D[t.child[s][j]]
      BY <1>1, <1>6, <2>0
    <3>4. i \in D[j] <=> i = j \/ \E s \in Side : i \in D[t.child[s][j]]
      BY <2>0
    <3> QED BY <1>6, <3>1, <3>2, <3>3, <3>4
  <2> QED BY <2>3, <2>4 DEF OrderedAt
<1>7. OrderedAt(u, E, k)
  <2>0. \A i \in Node : i \in D[n] <=> i = n \/ \E s \in Side : i \in D[t.child[s][n]]
    BY DEF Shape, OrderedAt
  <2>1. ASSUME NEW q \in Side
        PROVE  E[u.child[q][k]] = D[t.child[q][n]] /\ n \notin D[t.child[q][n]]
    <3>1. n \notin D[t.child[q][n]]
      BY ChildSubtree
    <3>2. u.child[q][k] = t.child[q][n]
      BY <1>3
    <3>3. E[t.child[q][n]] = IF n \in D[t.child[q][n]]
                            THEN (D[t.child[q][n]] \ {n}) \cup {k}
                            ELSE D[t.child[q][n]]
      BY <1>5
    <3> QED BY <3>1, <3>2, <3>3
  <2>2. \A q \in Side : \A i \in E[u.child[q][k]] : Lies(q, i, k)
    BY <2>1
  <2>3. \A i \in Node : i \in E[k] <=> i = k \/ \E s \in Side : i \in E[u.child[s][k]]
    BY <1>2, <2>0, <2>1
  <2> QED BY <2>2, <2>3 DEF OrderedAt
<1>8. ASSUME NEW j \in D[t.root], j # n
      PROVE  LinkedAt(u, E, j)
  <2>1. ASSUME NEW q \in Side, u.child[q][j] # Guard
        PROVE  u.child[q][j] \in Root /\ u.parent[u.child[q][j]] = j
    <3>1. u.child[q][j] = IF t.child[q][j] = n THEN k ELSE t.child[q][j]
      BY <1>3, <1>8
    <3>2. CASE t.child[q][j] = n
      <4>1. t.parent[n] = j
        BY <1>1, <1>5, <3>2
      <4> QED BY <1>3, <3>1, <3>2, <4>1
    <3>3. CASE t.child[q][j] # n
      <4>1. t.child[q][j] \in D[t.root] /\ t.parent[t.child[q][j]] = j
        BY <1>5, <2>1, <3>1, <3>3
      <4>2. u.parent[t.child[q][j]] = j
        BY <1>3, <1>8, <3>3, <4>1
      <4> QED BY <3>1, <3>3, <4>1, <4>2
    <3> QED BY <3>2, <3>3
  <2>2. ASSUME j # u.root
        PROVE  u.parent[j] \in Root /\ \E q \in Side : u.child[q][u.parent[j]] = j
    <3>1. j # t.root
      BY <1>3, <1>8, <2>2
    <3>2. t.parent[j] \in D[t.root] /\ \E q \in Side : t.child[q][t.parent[j]] = j
      BY <3>1 DEF Shape, LinkedAt
    <3>3. PICK q \in Side : t.child[q][t.parent[j]] = j
      BY <3>2
    <3>4. CASE t.parent[j] = n
      BY <1>3, <1>8, <3>3, <3>4
    <3>5. CASE t.parent[j] # n
      <4>1. u.parent[j] = t.parent[j]
        BY <1>3, <1>8, <3>5
      <4>2. u.child[q][t.parent[j]] = j
        BY <1>3, <1>8, <3>2, <3>3, <3>5
      <4> QED BY <3>2, <3>5, <4>1, <4>2
    <3> QED BY <3>4, <3>5
  <2> QED BY <1>4, <2>1, <2>2 DEF LinkedAt
<1>9. LinkedAt(u, E, k)
  <2>1. ASSUME NEW q \in Side, u.child[q][k] # Guard
        PROVE  u.child[q][k] \in Root /\ u.parent[u.child[q][k]] = k
    <3>1. u.child[q][k] = t.child[q][n]
      BY <1>3
    <3>2. /\ t.child[q][n] \in D[t.root] /\ t.child[q][n] # n
          /\ t.parent[t.child[q][n]] = n
      BY <1>5, <2>1, <3>1
    <3>3. u.parent[t.child[q][n]] = k
      BY <1>3, <3>2
    <3> QED BY <3>1, <3>2, <3>3
  <2>2. ASSUME k # u.root
        PROVE  u.parent[k] \in Root /\ \E q \in Side : u.child[q][u.parent[k]] = k
    <3>1. n # t.root
      BY <1>3, <2>2
    <3>2. t.parent[n] \in D[t.root] /\ \E q \in Side : t.child[q][t.parent[n]] = n
      BY <3>1 DEF Shape, LinkedAt
    <3>3. PICK q \in Side : t.child[q][t.parent[n]] = n
      BY <3>2
    <3>4. t.parent[n] # n
      BY <1>5, <3>2, <3>3
    <3>5. u.child[q][t.parent[n]] = k
      BY <1>3, <3>2, <3>3, <3>4
    <3> QED BY <1>3, <3>2, <3>4, <3>5
  <2> QED BY <1>4, <2>1, <2>2 DEF LinkedAt
<1>10. \A j \in Root : E[j] \subseteq E[u.root]
  <2>1. ASSUME NEW j \in D[t.root], j # n
        PROVE  E[j] \subseteq Root
    <3>1. E[j] = IF n \in D[j] THEN (D[j] \ {n}) \cup {k} ELSE D[j]
      BY <1>1, <1>2
    <3>2. D[j] \subseteq D[t.root]
      BY <1>1
    <3> QED BY <3>1, <3>2
  <2>2. E[k] \subseteq Root
    BY <1>1, <1>2
  <2> QED BY <1>4, <2>1, <2>2
<1>11. Shape(u, E)
  BY <1>4, <1>6, <1>7, <1>8, <1>9, <1>10 DEF Shape
<1> QED BY <1>2, <1>4, <1>11 DEF E

\* The end of UnlinkLeast: m takes the place of n, its left child l and the colour c.
Seat(t, n, m, l, c) ==
  [Transplant(t, n, m) EXCEPT !.child["left"][m] = l, !.parent[l] = m, !.color[m] = c]

Seated(t, n, m, l, c, u) ==
  /\ u \in Tree
  /\ u.root = IF t.parent[n] = Guard THEN m ELSE t.root
  /\ \A j \in Node :
       /\ u.parent[j] = IF j = l THEN m ELSE IF j = m THEN t.parent[n] ELSE t.parent[j]
       /\ u.color[j] = IF j = m THEN c ELSE t.color[j]
  /\ \A q \in Side, j \in Node :
       u.child[q][j] = IF j = m /\ q = "left" THEN l
                       ELSE IF j # Guard /\ j = t.parent[n] /\ q = SideOf(t, n) THEN m
                       ELSE t.child[q][j]

\* The fields after m has taken the place of n.
LEMMA SeatFields ==
  ASSUME NEW t \in Tree, NEW n \in Node, NEW m \in Node, NEW l \in Node,
         NEW c \in Color
  PROVE  Seated(t, n, m, l, c, Seat(t, n, m, l, c))
<1> DEFINE t1 == Transplant(t, n, m)
           t2 == [t1 EXCEPT !.child["left"][m] = l]
           t3 == [t2 EXCEPT !.parent[l] = m]
           t4 == [t3 EXCEPT !.color[m] = c]
<1>1. /\ t1 \in Tree /\ t1.color = t.color
      /\ t1.root = IF t.parent[n] = Guard THEN m ELSE t.root
      /\ \A j \in Node : t1.parent[j] = IF j = m THEN t.parent[n] ELSE t.parent[j]
      /\ \A q \in Side, j \in Node :
           t1.child[q][j] = IF j # Guard /\ j = t.parent[n] /\ q = SideOf(t, n) THEN m
                            ELSE t.child[q][j]
  <2>1. Transplanted(t, n, m, t1)
    BY TransplantFields
  <2> HIDE DEF t1
  <2> QED BY <2>1 DEF Transplanted
<1> HIDE DEF t1
<1>2. /\ t2 \in Tree /\ t2.root = t1.root /\ t2.parent = t1.parent
      /\ t2.color = t1.color
      /\ \A q \in Side, j \in Node :
           t2.child[q][j] = IF q = "left" /\ j = m THEN l ELSE t1.child[q][j]
  <2>1. "left" \in Side /\ t1 \in Tree
    BY <1>1 DEF Side
  <2> QED BY <2>1, ChildFields
<1> HIDE DEF t2
<1>3. /\ t3 \in Tree /\ t3.root = t2.root /\ t3.child = t2.child /\ t3.color = t2.color
      /\ \A j \in Node : t3.parent[j] = IF j = l THEN m ELSE t2.parent[j]
  BY <1>2, ParentFields
<1> HIDE DEF t3
<1>4. /\ t4 \in Tree /\ t4.root = t3.root /\ t4.child = t3.child
      /\ t4.parent = t3.parent
      /\ \A j \in Node : t4.color[j] = IF j = m THEN c ELSE t3.color[j]
  BY <1>3, PaintFields DEF Paint
<1>5. t4 = Seat(t, n, m, l, c)
  BY DEF t3, t2, t1, Seat
<1> HIDE DEF t4
<1>6. t4.root = IF t.parent[n] = Guard THEN m ELSE t.root
  BY <1>1, <1>2, <1>3, <1>4
<1>7. \A j \in Node :
        /\ t4.parent[j] = IF j = l THEN m ELSE IF j = m THEN t.parent[n] ELSE t.parent[j]
        /\ t4.color[j] = IF j = m THEN c ELSE t.color[j]
  BY <1>1, <1>2, <1>3, <1>4
<1>8. \A q \in Side, j \in Node :
        t4.child[q][j] = IF j = m /\ q = "left" THEN l
                         ELSE IF j # Guard /\ j = t.parent[n] /\ q = SideOf(t, n) THEN m
                         ELSE t.child[q][j]
  BY <1>1, <1>2, <1>3, <1>4
<1> QED BY <1>4, <1>5, <1>6, <1>7, <1>8 DEF Seated

\* Taking the least node m of the right subtree out and putting it in the place of
\* n, which keeps its links.
LEMMA LeastFields ==
  ASSUME NEW t \in Tree, NEW D \in Subtrees, Shape(t, D), NEW n \in D[t.root],
         \A q \in Side : t.child[q][n] # Guard,
         NEW m \in D[t.child["right"][n]], t.child["left"][m] = Guard
  PROVE  LET T == Transplant(t, m, t.child["right"][m])
             u == UnlinkLeast(t, n, m).tree
         IN /\ Swapped(T, Without(D, m), n, m, u)
            /\ u.child["right"][n] = t.child["right"][n]
            /\ u.parent[t.child["right"][m]]
                 = IF t.parent[m] = n THEN m ELSE t.parent[m]
            /\ \A j \in Node : u.color[j] = IF j = m THEN t.color[n] ELSE t.color[j]
<1> DEFINE l == t.child["left"][n]
           r == t.child["right"][n]
           below == t.child["right"][m]
           p == t.parent[n]
           pm == t.parent[m]
           T == Transplant(t, m, below)
           u == UnlinkLeast(t, n, m).tree
           E == Without(D, m)
<1>1. "left" \in Side /\ "right" \in Side /\ "left" # "right"
      /\ (\A q \in Side : q = "left" \/ q = "right")
      /\ Other("left") = "right" /\ Other("right") = "left"
  BY DEF Side, Other
<1>2. /\ n \in Keys /\ n \in Node /\ n # Guard /\ n \in D[n]
      /\ t.root \in D[t.root] /\ t.root # Guard /\ t.root \in Node
      /\ Guard \in Node /\ D[Guard] = {} /\ Keys \subseteq Node /\ Guard \notin Keys
  <2>1. /\ n \in Keys /\ n \in Node /\ n # Guard
        /\ t.root \in D[t.root] /\ t.root # Guard /\ t.root \in Node
    BY ParentFacts, TreeTypes
  <2>2. n \in D[n] /\ D[Guard] = {}
    BY <1>1, ChildSubtree DEF Shape
  <2> QED BY <2>1, <2>2, KeysFacts
<1>3. /\ l \in D[t.root] /\ l \in D[l] /\ t.parent[l] = n /\ l # n /\ l # t.root
      /\ r \in D[t.root] /\ r \in D[r] /\ t.parent[r] = n /\ r # n /\ r # t.root
      /\ l # r /\ l \in Node /\ r \in Node /\ l # Guard /\ r # Guard
      /\ D[l] \cap D[r] = {} /\ D[r] \subseteq D[n] /\ n \notin D[r]
  <2> DEFINE left == "left"
             right == "right"
  <2>1. /\ left \in Side /\ right \in Side /\ Other(left) = right
        /\ t.child[left][n] # Guard /\ t.child[right][n] # Guard
    BY <1>1
  <2>2. l = t.child[left][n] /\ r = t.child[right][n]
    OBVIOUS
  <2> HIDE DEF left, right, l, r
  <2>3. /\ l \in D[t.root] /\ l \in D[l] /\ t.parent[l] = n /\ l # n /\ l # t.root
        /\ l # r /\ l \in Node /\ l # Guard
    BY <2>1, <2>2, ChildSubtree
  <2>4. /\ r \in D[t.root] /\ r \in D[r] /\ t.parent[r] = n /\ r # n /\ r # t.root
        /\ r \in Node /\ r # Guard /\ D[r] \subseteq D[n] /\ n \notin D[r]
    BY <2>1, <2>2, ChildSubtree
  <2>5. D[l] \cap D[r] = {}
    BY <2>1, <2>2, ChildSubtree
  <2> QED BY <2>3, <2>4, <2>5
<1>4. /\ m \in D[t.root] /\ m \in Keys /\ m \in Node /\ m # Guard /\ m # n /\ m # l
      /\ m \in D[n] /\ m # t.root
      /\ m # r => pm \in D[r]
  <2>1. m \in D[t.root] /\ (m # r => pm \in D[r])
    BY <1>3, Nested
  <2>2. m \in Keys /\ m \in Node /\ m # Guard
    BY <2>1, ParentFacts
  <2>3. m # n /\ m # l /\ m \in D[n]
    BY <1>3
  <2>4. m # t.root
    <3>1. n # t.root \/ n = t.root
      OBVIOUS
    <3>2. ASSUME m = t.root
          PROVE  FALSE
      <4>1. t.root \in D[n] /\ n \in D[t.root]
        BY <2>3, <3>2
      <4>2. n = t.root
        BY <4>1, <1>2, SubtreeInside
      <4> QED BY <2>3, <3>2, <4>2
    <3> QED BY <3>2
  <2> QED BY <2>1, <2>2, <2>3, <2>4
<1>5. /\ pm \in D[t.root] /\ pm \in Node /\ pm # Guard /\ pm # m /\ pm \in D[n]
      /\ pm = n <=> m = r
      /\ SideOf(t, m) \in Side /\ t.child[SideOf(t, m)][pm] = m
      /\ \A q \in Side : q # SideOf(t, m) => t.child[q][pm] # m
  <2>1. /\ pm \in D[t.root] /\ pm # m /\ SideOf(t, m) \in Side
        /\ t.child[SideOf(t, m)][pm] = m
        /\ \A q \in Side : q # SideOf(t, m) => t.child[q][pm] # m
    BY <1>4, SideOfIs
  <2>2. pm \in Node /\ pm # Guard
    BY <2>1, ParentFacts
  <2>3. pm = n <=> m = r
    BY <1>3, <1>4
  <2>4. pm \in D[n]
    BY <1>2, <1>3, <1>4, <2>3
  <2> QED BY <2>1, <2>2, <2>3, <2>4
<1>6. /\ below \in Node /\ below # m /\ below # n /\ below # l
      /\ below # t.root /\ below # pm
      /\ below # Guard => below \in D[t.root] /\ t.parent[below] = m
      /\ m # r => below # r
  <2>1. /\ below \in Node /\ D[below] \subseteq D[m] /\ below # m /\ below # t.root
        /\ below # Guard => below \in D[t.root] /\ below \in D[below]
                            /\ t.parent[below] = m
    BY <1>1, <1>4, ChildSubtree
  <2>0. D[m] \subseteq D[r] /\ (m # r => r \notin D[m])
    BY <1>3, SubtreeInside
  <2>2. below # n /\ below # l /\ (m # r => below # r)
    BY <1>2, <1>3, <2>0, <2>1
  <2>3. below # pm
    <3>1. pm \notin D[m]
      <4> DEFINE q == SideOf(t, m)
      <4>1. q \in Side /\ pm \in D[t.root] /\ D[m] = D[t.child[q][pm]]
        BY <1>5
      <4> HIDE DEF q, pm
      <4>2. pm \notin D[t.child[q][pm]]
        BY <4>1, ChildSubtree
      <4> QED BY <4>1, <4>2
    <3>2. below # Guard => below \in D[m]
      BY <2>1
    <3> QED BY <1>5, <3>1, <3>2
  <2> QED BY <2>1, <2>2, <2>3
<1>7. /\ p \in Node /\ p # n /\ p # m /\ p # pm /\ p # l /\ p # r
      /\ p = Guard <=> n = t.root
      /\ p # Guard => /\ p \in D[t.root] /\ SideOf(t, n) \in Side
                      /\ t.child[SideOf(t, n)][p] = n
                      /\ \A q \in Side : q # SideOf(t, n) => t.child[q][p] # n
  <2>1. p \in Node /\ (p = Guard <=> n = t.root)
    BY <1>2, TreeTypes, ParentFacts
  <2>2. CASE p = Guard
    BY <1>2, <1>3, <1>4, <1>5, <2>1, <2>2
  <2>3. CASE p # Guard
    <3>1. /\ p \in D[t.root] /\ SideOf(t, n) \in Side /\ t.child[SideOf(t, n)][p] = n
          /\ \A q \in Side : q # SideOf(t, n) => t.child[q][p] # n
      BY <2>1, <2>3, SideOfIs
    <3>2. p \notin D[n]
      <4>1. D[n] = D[t.child[SideOf(t, n)][p]]
        BY <3>1
      <4> DEFINE q == SideOf(t, n)
      <4>2. q \in Side /\ p \in D[t.root]
        BY <3>1
      <4> HIDE DEF q, p
      <4>3. p \notin D[t.child[q][p]]
        BY <4>2, ChildSubtree
      <4> QED BY <4>1, <4>3 DEF q
    <3>3. l \in D[n] /\ r \in D[n]
      BY <1>1, <1>3, ChildSubtree
    <3> QED BY <1>2, <1>4, <1>5, <2>1, <2>3, <3>1, <3>2, <3>3
  <2> QED BY <2>2, <2>3
<1>8. /\ T \in Tree /\ T.color = t.color /\ T.root = t.root
      /\ \A j \in Node : T.parent[j] = IF j = below THEN pm ELSE t.parent[j]
      /\ \A q \in Side, j \in Node :
           T.child[q][j] = IF j # Guard /\ j = pm /\ q = SideOf(t, m) THEN below
                           ELSE t.child[q][j]
  <2>1. Transplanted(t, m, below, T)
    BY <1>4, <1>6, TransplantFields
  <2> HIDE DEF T
  <2> QED BY <1>5, <2>1 DEF Transplanted
<1>9. E[t.root] = D[t.root] \ {m}
  BY <1>2 DEF Without
<1>10. t.color[n] \in Color /\ t.color \in [Node -> Color]
  BY <1>2, TreeTypes
<1>11. \A j \in D[t.root] : j \in Node /\ j # Guard
  BY ParentFacts
<1>12. CASE pm = n
  <2> DEFINE a == [t EXCEPT !.parent[below] = m]
             b == Seat(a, n, m, l, t.color[n])
  <2>1. u = b
    BY <1>12 DEF UnlinkLeast, Seat
  <2>2. /\ a \in Tree /\ a.root = t.root /\ a.child = t.child /\ a.color = t.color
        /\ \A j \in Node : a.parent[j] = IF j = below THEN m ELSE t.parent[j]
    BY <1>4, <1>6, ParentFields
  <2> HIDE DEF a
  <2>3. a.parent[n] = p /\ SideOf(a, n) = SideOf(t, n)
    BY <1>2, <1>6, <2>2 DEF SideOf
  <2>4. /\ b \in Tree
        /\ b.root = IF p = Guard THEN m ELSE t.root
        /\ \A j \in Node :
             /\ b.parent[j] = IF j = l THEN m ELSE IF j = m THEN p ELSE a.parent[j]
             /\ b.color[j] = IF j = m THEN t.color[n] ELSE t.color[j]
        /\ \A q \in Side, j \in Node :
             b.child[q][j] = IF j = m /\ q = "left" THEN l
                             ELSE IF j # Guard /\ j = p /\ q = SideOf(t, n)
                             THEN m ELSE t.child[q][j]
    <3> HIDE DEF l, p
    <3>1. l \in Node /\ n \in Node /\ m \in Node /\ t.color[n] \in Color /\ a \in Tree
      BY <1>2, <1>3, <1>4, <1>10, <2>2
    <3>2. Seated(a, n, m, l, t.color[n], b)
      BY <3>1, SeatFields
    <3> HIDE DEF b
    <3> QED BY <2>2, <2>3, <3>2 DEF Seated
  <2> HIDE DEF l, r, below, p, pm, T, u, E, b
  <2>5. m = r
    BY <1>5, <1>12
  <2>6. SideOf(t, m) = "right"
    <3>1. t.child["left"][n] # m
      BY <1>4 DEF l
    <3> QED BY <1>1, <1>5, <1>12, <3>1
  <2>7. /\ b.child["left"][m] = l /\ b.child["right"][m] = below
        /\ T.child["left"][n] = l /\ T.child["right"][n] = below
    BY <1>1, <1>2, <1>4, <1>7, <1>8, <1>12, <2>4, <2>6 DEF l, below
  <2>8. b.parent[m] = p /\ T.parent[n] = p
    BY <1>2, <1>4, <1>6, <1>8, <2>4 DEF p
  <2>9. ASSUME NEW j \in D[t.root], j # n, j # m
        PROVE  b.parent[j] = IF T.parent[j] = n THEN m ELSE T.parent[j]
    <3>1. j \in Node /\ j # Guard
      BY <1>11
    <3>2. CASE j = l
      BY <1>3, <1>6, <1>8, <2>4, <3>1, <3>2
    <3>3. CASE j = below
      BY <1>6, <1>8, <1>12, <2>2, <2>4, <2>9, <3>1, <3>3
    <3>4. CASE j # l /\ j # below
      <4>1. b.parent[j] = t.parent[j] /\ T.parent[j] = t.parent[j]
        BY <1>8, <2>2, <2>4, <2>9, <3>1, <3>4
      <4>2. t.parent[j] # n
        <5>1. ASSUME t.parent[j] = n
              PROVE  FALSE
          <6>1. j # t.root
            BY <1>2, <5>1, ParentFacts
          <6>2. \E q \in Side : t.child[q][n] = j
            BY <5>1, <6>1 DEF Shape, LinkedAt
          <6> QED BY <1>1, <2>5, <2>9, <3>4, <6>2 DEF l, r
        <5> QED BY <5>1
      <4> QED BY <4>1, <4>2
    <3> QED BY <3>2, <3>3, <3>4
  <2>10. ASSUME NEW j \in D[t.root], j # n, j # m, NEW q \in Side
         PROVE  b.child[q][j] = IF T.child[q][j] = n THEN m ELSE T.child[q][j]
    <3>1. j \in Node /\ j # Guard
      BY <1>11
    <3>2. T.child[q][j] = t.child[q][j]
      BY <1>8, <1>12, <2>10, <3>1
    <3>3. CASE j = p /\ q = SideOf(t, n)
      BY <1>7, <2>4, <2>10, <3>1, <3>2, <3>3
    <3>4. CASE ~(j = p /\ q = SideOf(t, n))
      <4>1. b.child[q][j] = t.child[q][j]
        BY <2>4, <2>10, <3>1, <3>4
      <4>2. t.child[q][j] # n
        <5>1. t.child[q][j] # Guard => t.parent[t.child[q][j]] = j
          BY ChildSubtree
        <5> QED BY <1>2, <1>7, <3>1, <3>4, <5>1 DEF p
      <4> QED BY <3>2, <4>1, <4>2
    <3> QED BY <3>3, <3>4
  <2>11. b.root = IF n = T.root THEN m ELSE T.root
    BY <1>7, <1>8, <2>4
  <2>12. Swapped(T, E, n, m, b)
    BY <1>1, <1>8, <1>9, <2>4, <2>7, <2>8, <2>9, <2>10, <2>11 DEF Swapped
  <2>13. b.child["right"][n] = r
    BY <1>1, <1>2, <1>4, <1>7, <2>4 DEF r
  <2>14. b.parent[below] = m
    BY <1>3, <1>6, <2>2, <2>4
  <2> QED BY <1>12, <2>1, <2>4, <2>12, <2>13, <2>14 DEF T, E, u, below, r, pm
<1>13. CASE pm # n
  <2> DEFINE c == [T EXCEPT !.child["right"][m] = r]
             a == [c EXCEPT !.parent[r] = m]
             b == Seat(a, n, m, l, t.color[n])
  <2>1. u = b
    <3>1. u = [Transplant([T EXCEPT !.child["right"][m] = r, !.parent[r] = m], n, m)
                EXCEPT !.child["left"][m] = l, !.parent[l] = m, !.color[m] = t.color[n]]
      BY <1>13 DEF UnlinkLeast
    <3> HIDE DEF T, u, l, r
    <3> QED BY <3>1 DEF Seat
  <2>2. m # r /\ below # r
    BY <1>5, <1>6, <1>13
  <2> HIDE DEF T
  <2>3. /\ c \in Tree /\ c.root = t.root /\ c.parent = T.parent /\ c.color = t.color
        /\ \A q \in Side, j \in Node :
             c.child[q][j] = IF q = "right" /\ j = m THEN r ELSE T.child[q][j]
    <3> HIDE DEF r
    <3> QED BY <1>1, <1>3, <1>4, <1>8, ChildFields
  <2> HIDE DEF c
  <2>4. /\ a \in Tree /\ a.root = t.root /\ a.child = c.child /\ a.color = t.color
        /\ \A j \in Node : a.parent[j] = IF j = r THEN m ELSE T.parent[j]
    <3> HIDE DEF r
    <3> QED BY <1>3, <1>4, <2>3, ParentFields
  <2> HIDE DEF a
  <2>5. a.parent[n] = p /\ (p # Guard => SideOf(a, n) = SideOf(t, n))
    <3>1. a.parent[n] = p
      BY <1>2, <1>3, <1>6, <1>8, <2>4
    <3>2. a.child["left"][p] = t.child["left"][p]
      BY <1>1, <1>7, <1>8, <2>3, <2>4
    <3> QED BY <3>1, <3>2 DEF SideOf
  <2>6. /\ b \in Tree
        /\ b.root = IF p = Guard THEN m ELSE t.root
        /\ \A j \in Node :
             /\ b.parent[j] = IF j = l THEN m ELSE IF j = m THEN p ELSE a.parent[j]
             /\ b.color[j] = IF j = m THEN t.color[n] ELSE t.color[j]
        /\ \A q \in Side, j \in Node :
             b.child[q][j] = IF j = m /\ q = "left" THEN l
                             ELSE IF j # Guard /\ j = p /\ q = SideOf(t, n)
                             THEN m ELSE a.child[q][j]
    <3> HIDE DEF l, p
    <3>1. l \in Node /\ n \in Node /\ m \in Node /\ t.color[n] \in Color /\ a \in Tree
      BY <1>2, <1>3, <1>4, <1>10, <2>4
    <3>2. Seated(a, n, m, l, t.color[n], b)
      BY <3>1, SeatFields
    <3> HIDE DEF b
    <3> QED BY <2>4, <2>5, <3>2 DEF Seated
  <2> HIDE DEF l, r, below, p, pm, u, E, b
  <2>7. /\ b.child["left"][m] = l /\ b.child["right"][m] = r
        /\ T.child["left"][n] = l /\ T.child["right"][n] = r
    BY <1>1, <1>2, <1>4, <1>5, <1>7, <1>8, <1>13, <2>3, <2>4, <2>6 DEF l, r
  <2>8. b.parent[m] = p /\ T.parent[n] = p
    BY <1>2, <1>4, <1>6, <1>8, <2>6 DEF p
  <2>9. ASSUME NEW j \in D[t.root], j # n, j # m
        PROVE  b.parent[j] = IF T.parent[j] = n THEN m ELSE T.parent[j]
    <3>1. j \in Node /\ j # Guard
      BY <1>11
    <3>2. CASE j = l
      BY <1>3, <1>6, <1>8, <2>6, <3>1, <3>2
    <3>3. CASE j = r
      BY <1>3, <1>8, <2>2, <2>4, <2>6, <2>9, <3>1, <3>3
    <3>4. CASE j # l /\ j # r
      <4>1. b.parent[j] = T.parent[j]
        BY <2>4, <2>6, <2>9, <3>1, <3>4
      <4>2. T.parent[j] # n
        <5>1. CASE j = below
          BY <1>8, <1>13, <3>1, <5>1
        <5>2. CASE j # below
          <6>1. T.parent[j] = t.parent[j]
            BY <1>8, <3>1, <5>2
          <6>2. ASSUME t.parent[j] = n
                PROVE  FALSE
            <7>1. j # t.root
              BY <1>2, <6>2, ParentFacts
            <7>2. \E q \in Side : t.child[q][n] = j
              BY <6>2, <7>1 DEF Shape, LinkedAt
            <7> QED BY <1>1, <3>4, <7>2 DEF l, r
          <6> QED BY <6>1, <6>2
        <5> QED BY <5>1, <5>2
      <4> QED BY <4>1, <4>2
    <3> QED BY <3>2, <3>3, <3>4
  <2>10. ASSUME NEW j \in D[t.root], j # n, j # m, NEW q \in Side
         PROVE  b.child[q][j] = IF T.child[q][j] = n THEN m ELSE T.child[q][j]
    <3>1. j \in Node /\ j # Guard
      BY <1>11
    <3>2. a.child[q][j] = T.child[q][j]
      BY <2>3, <2>4, <2>10, <3>1
    <3>3. CASE j = p /\ q = SideOf(t, n)
      <4>1. T.child[q][j] = n
        BY <1>7, <1>8, <3>1, <3>3
      <4> QED BY <2>6, <2>10, <3>1, <3>3, <4>1
    <3>4. CASE ~(j = p /\ q = SideOf(t, n))
      <4>1. b.child[q][j] = T.child[q][j]
        BY <2>6, <2>10, <3>1, <3>2, <3>4
      <4>2. T.child[q][j] # n
        <5>1. CASE j = pm /\ q = SideOf(t, m)
          BY <1>6, <1>8, <3>1, <5>1
        <5>2. CASE ~(j = pm /\ q = SideOf(t, m))
          <6>1. T.child[q][j] = t.child[q][j]
            BY <1>8, <3>1, <5>2
          <6>2. t.child[q][j] # Guard => t.parent[t.child[q][j]] = j
            BY ChildSubtree
          <6> QED BY <1>2, <1>7, <3>1, <3>4, <6>1, <6>2 DEF p
        <5> QED BY <5>1, <5>2
      <4> QED BY <4>1, <4>2
    <3> QED BY <3>3, <3>4
  <2>11. b.root = IF n = T.root THEN m ELSE T.root
    BY <1>7, <1>8, <2>6
  <2>12. Swapped(T, E, n, m, b)
    BY <1>1, <1>8, <1>9, <2>6, <2>7, <2>8, <2>9, <2>10, <2>11 DEF Swapped
  <2>13. b.child["right"][n] = r
    BY <1>1, <1>2, <1>4, <1>5, <1>7, <1>8, <1>13, <2>3, <2>4, <2>6 DEF r
  <2>14. b.parent[below] = pm
    BY <1>6, <1>8, <2>2, <2>4, <2>6
  <2> QED BY <1>13, <2>1, <2>6, <2>12, <2>13, <2>14 DEF T, E, u, below, r, pm
<1> QED BY <1>12, <1>13

\* A node with two children is taken out, the least one on its right in its place.
LEMMA LeastShape ==
  ASSUME NEW t \in Tree, NEW D \in Subtrees, Shape(t, D), NEW n \in D[t.root],
         \A q \in Side : t.child[q][n] # Guard,
         NEW m \in D[t.child["right"][n]], t.child["left"][m] = Guard,
         \A j \in D[t.child["right"][n]] \ D[m] : m < j
  PROVE  LET u == UnlinkLeast(t, n, m).tree
             E == Swap(Without(D, m), n, m)
         IN /\ E \in Subtrees /\ Shape(u, E) /\ E[u.root] = D[t.root] \ {n}
            /\ u.child["right"][n] \in E[u.root]
<1> DEFINE u == UnlinkLeast(t, n, m).tree
           r == t.child["right"][n]
           l == t.child["left"][n]
           T == Transplant(t, m, t.child["right"][m])
           D1 == Without(D, m)
           E == Swap(D1, n, m)
<1>1. "left" \in Side /\ "right" \in Side /\ (\A q \in Side : q = "left" \/ q = "right")
      /\ Other("right") = "left" /\ Other("left") = "right"
  BY DEF Side, Other
<1>2. /\ r \in D[t.root] /\ r \in D[r] /\ r # n /\ D[r] \subseteq D[n] /\ n \notin D[r]
      /\ D[n] \subseteq D[t.root] /\ n \in Keys /\ n \in Node /\ n \in D[n]
  <2> DEFINE right == "right"
  <2>1. right \in Side /\ r = t.child[right][n] /\ t.child[right][n] # Guard
    BY <1>1
  <2> HIDE DEF right, r
  <2> QED BY <2>1, ChildSubtree, ParentFacts
<1>3. /\ m \in D[t.root] /\ m \in D[n] /\ m # n /\ m \in Keys /\ m \in Node
      /\ D[m] \subseteq D[r]
  <2>1. m \in D[t.root] /\ m \in D[n] /\ m # n
    BY <1>2
  <2>2. D[m] \subseteq D[r]
    BY <1>2, SubtreeInside
  <2> QED BY <2>1, <2>2, ParentFacts
<1>4. /\ D1 \in Subtrees /\ Shape(T, D1) /\ D1[T.root] = D[t.root] \ {m}
      /\ T \in Tree
  <2> DEFINE right == "right"
  <2>1. right \in Side /\ t.child[Other(right)][m] = Guard
    BY <1>1
  <2>2. T = Transplant(t, m, t.child[right][m])
    OBVIOUS
  <2> HIDE DEF right, T, D1
  <2>3. LET U == Transplant(t, m, t.child[right][m])
            F == Without(D, m)
        IN /\ Transplanted(t, m, t.child[right][m], U)
           /\ F \in Subtrees /\ Shape(U, F) /\ F[U.root] = D[t.root] \ {m}
    BY <1>3, <2>1, TransplantShape
  <2> QED BY <2>2, <2>3 DEF D1, Transplanted
<1>5. /\ Swapped(T, D1, n, m, u)
      /\ u.child["right"][n] = r
  BY LeastFields
<1>6. \A j \in Node : D1[j] = D[j] \ {m}
  BY DEF Without
<1>7. n \in D1[T.root] /\ m \notin D1[T.root]
  BY <1>3, <1>4
<1>8. \A j \in D[t.root] : /\ OrderedAt(t, D, j) /\ j \in Node /\ j \in Nat
                           /\ D[j] \subseteq D[t.root]
  BY ParentFacts, KeysFacts DEF Shape
<1>9. \A j \in D1[T.root] : OrderedAt(T, D1, j)
  BY <1>4 DEF Shape
<1>10. Lies("right", m, n)
  BY <1>1, <1>8 DEF OrderedAt
<1>11. ASSUME NEW q \in Side, NEW j \in D1[T.child[q][n]]
       PROVE  Lies(q, j, m)
  <2>1. Lies(q, j, n) /\ j \in D1[n]
    <3>1. OrderedAt(T, D1, n)
      BY <1>7, <1>9
    <3>2. j \in Node
      <4>1. T.child[q][n] \in Node
        BY <1>2, <1>4, TreeTypes
      <4>2. D1[T.child[q][n]] \subseteq Node
        BY <1>4, <4>1, KeysFacts DEF Subtrees
      <4> QED BY <4>2
    <3> QED BY <3>1, <3>2 DEF OrderedAt
  <2>2. j \in D[n] /\ j # m /\ j \in D[t.root] /\ j \in Nat /\ j \in Node
    BY <1>2, <1>6, <1>8, <2>1
  <2>3. CASE q = "left"
    <3>1. j < n /\ n < m /\ m \in Nat /\ n \in Nat
      BY <1>3, <1>8, <1>10, <2>1, <2>3 DEF Lies
    <3> QED BY <2>2, <2>3, <3>1 DEF Lies
  <2>4. CASE q = "right"
    <3>1. n < j
      BY <2>1, <2>4 DEF Lies
    <3>2. j = n \/ j \in D[l] \/ j \in D[r]
      BY <1>1, <1>8, <2>2 DEF OrderedAt
    <3>3. j \in D[r]
      <4>1. j \in D[l] => j < n
        BY <1>1, <1>8 DEF OrderedAt, Lies
      <4>2. n \in Nat
        BY <1>8
      <4> QED BY <2>2, <3>1, <3>2, <4>1, <4>2
    <3>4. j \in D[m] => m < j
      <4>1. D[Guard] = {}
        BY DEF Shape
      <4>2. j \in D[m] => j \in D[t.child["right"][m]]
        BY <1>1, <1>3, <1>8, <2>2, <4>1 DEF OrderedAt
      <4> QED BY <1>1, <1>3, <1>8, <4>2 DEF OrderedAt, Lies
    <3> QED BY <2>4, <3>3, <3>4 DEF Lies
  <2> QED BY <1>1, <2>3, <2>4
<1>12. ASSUME NEW q \in Side, NEW j \in D1[T.root], n \in D1[T.child[q][j]]
       PROVE  Lies(q, m, j)
  <2>1. j \in D[t.root] /\ j \in Node
    BY <1>4, <1>8
  <2>2. Lies(q, n, j) /\ n \in D1[j]
    BY <1>2, <1>9, <1>12 DEF OrderedAt
  <2>3. n \in D[j] /\ n # j
    BY <1>2, <1>6, <2>1, <2>2, LiesFacts
  <2>4. PICK h \in Side : n \in D[t.child[h][j]]
    BY <1>2, <1>8, <2>1, <2>3 DEF OrderedAt
  <2>5. Lies(h, n, j)
    BY <1>8, <2>1, <2>4 DEF OrderedAt
  <2>6. h = q
    <3>1. h = q \/ h = Other(q)
      BY <1>2, <2>1, LiesFacts
    <3> QED BY <1>2, <2>1, <2>2, <2>5, <3>1, LiesFacts
  <2>7. t.child[q][j] \in D[t.root]
    <3>1. D[Guard] = {}
      BY DEF Shape
    <3>2. t.child[q][j] # Guard
      BY <2>4, <2>6, <3>1
    <3> QED BY <2>1, <3>2, ChildSubtree
  <2>8. m \in D[t.child[q][j]]
    <3>1. D[n] \subseteq D[t.child[q][j]]
      BY <2>4, <2>6, <2>7, SubtreeInside
    <3> QED BY <1>3, <3>1
  <2> QED BY <1>8, <2>1, <2>8 DEF OrderedAt
<1>13. E \in Subtrees /\ Shape(u, E) /\ E[u.root] = (D1[T.root] \ {n}) \cup {m}
  <2> HIDE DEF T, D1, E, u
  <2>1. LET F == Swap(D1, n, m)
        IN /\ F \in Subtrees /\ Shape(u, F)
           /\ F[u.root] = (D1[T.root] \ {n}) \cup {m}
    BY <1>3, <1>4, <1>5, <1>7, <1>11, <1>12, SwapShape
  <2> QED BY <2>1 DEF E
<1> QED BY <1>2, <1>3, <1>4, <1>5, <1>13

\* The links after a rotation, inside the tree.
Moved(t, D, n, s, up, inner, u) ==
  /\ u.child[s][n] = t.child[s][n] /\ u.child[Other(s)][n] = inner
  /\ u.child[s][up] = n /\ u.child[Other(s)][up] = t.child[Other(s)][up]
  /\ \A m \in D[t.root], q \in Side :
       m \notin {n, up} =>
         /\ t.child[q][m] # up
         /\ u.child[q][m] = IF t.child[q][m] = n THEN up ELSE t.child[q][m]
  /\ u.root = IF n = t.root THEN up ELSE t.root
  /\ u.color = t.color /\ u \in Tree
  /\ u.parent[n] = up /\ u.parent[up] = t.parent[n]
  /\ \A m \in Node : m \notin {n, up, inner} => u.parent[m] = t.parent[m]
  /\ u.parent[Guard] = t.parent[Guard]
  /\ \A m \in Keys \ D[t.root], q \in Side : u.child[q][m] = t.child[q][m]

\* The links of the nodes of the tree after a rotation.
LEMMA RotateChildren ==
  ASSUME NEW t \in Tree, NEW D \in Subtrees, Shape(t, D),
         NEW n \in D[t.root], NEW s \in Side,
         NEW up, up = t.child[Other(s)][n], up # Guard
  PROVE  Moved(t, D, n, s, up, t.child[s][up], Rotate(t, n, s))
<1> DEFINE inner == t.child[s][up]
           p == t.parent[n]
           u == Rotate(t, n, s)
           So == SideOf(t, n)
<1>1. /\ Other(s) \in Side /\ Other(s) # s
      /\ \A q \in Side : q = s \/ q = Other(s)
  BY LiesFacts, KeysFacts
<1>2. /\ n \in Keys /\ n \in Node /\ n # Guard /\ up \in D[t.root] /\ up \in Node
      /\ up # Guard /\ up # n /\ t.parent[up] = n /\ n \in D[n] /\ up \in D[n]
      /\ Guard \in Node /\ Keys \subseteq Node /\ Guard \notin Keys
      /\ n \notin D[up] /\ up \in D[up]
  <2>1. /\ up \in D[t.root] /\ up \in D[up] /\ up # n /\ t.parent[up] = n /\ n \in D[n]
        /\ D[up] \subseteq D[n] /\ n \notin D[up]
    BY <1>1, ChildSubtree
  <2> QED BY <2>1, ParentFacts, KeysFacts
<1>3. Rotated(t, n, s, u)
  <2>1. t.child[Other(s)][n] # Guard
    OBVIOUS
  <2> QED BY <2>1, RotateShape
<1>4. /\ p \in Node /\ p # n /\ (p = Guard <=> n = t.root) /\ p # up
      /\ p # Guard => /\ p \in D[t.root] /\ So \in Side /\ t.child[So][p] = n
                      /\ \A q \in Side : q # So => t.child[q][p] # n
  <2>1. p \in Node /\ (p = Guard <=> n = t.root)
    BY <1>2, TreeTypes, ParentFacts
  <2>2. CASE p = Guard
    BY <1>2, <2>1, <2>2
  <2>3. CASE p # Guard
    <3>1. /\ p \in D[t.root] /\ So \in Side /\ t.child[So][p] = n /\ p # n
          /\ \A q \in Side : q # So => t.child[q][p] # n
      BY <2>1, <2>3, SideOfIs
    <3>2. p # up
      <4> HIDE DEF So, p
      <4>1. p \notin D[t.child[So][p]]
        BY <3>1, ChildSubtree
      <4> QED BY <1>2, <3>1, <4>1
    <3> QED BY <2>1, <2>3, <3>1, <3>2
  <2> QED BY <2>2, <2>3
<1>5. /\ u \in Tree /\ u.color = t.color
      /\ u.root = IF p = Guard THEN up ELSE t.root
      /\ \A m \in Node :
           u.parent[m] = IF m = n THEN up ELSE IF m = up THEN p
                         ELSE IF m = inner /\ m # Guard THEN n ELSE t.parent[m]
      /\ \A q \in Side, m \in Node :
           u.child[q][m] = IF m = n /\ q = Other(s) THEN inner
                           ELSE IF m = up /\ q = s THEN n
                           ELSE IF m = p /\ m # Guard /\ q = So THEN up
                           ELSE t.child[q][m]
  BY <1>3 DEF Rotated
<1> HIDE DEF inner, p, u, So
<1>6. ASSUME NEW m \in D[t.root], NEW q \in Side, m \notin {n, up}
      PROVE  /\ t.child[q][m] # up
             /\ u.child[q][m] = IF t.child[q][m] = n THEN up ELSE t.child[q][m]
  <2>1. /\ m \in Node /\ m # Guard
        /\ t.child[q][m] # Guard => t.parent[t.child[q][m]] = m
    BY ChildSubtree, ParentFacts
  <2>2. t.child[q][m] # up
    BY <1>2, <1>6, <2>1
  <2>3. t.child[q][m] = n <=> m = p /\ q = So
    BY <1>2, <1>4, <2>1 DEF p
  <2> QED BY <1>5, <1>6, <2>1, <2>2, <2>3
<1>7. ASSUME NEW m \in Keys \ D[t.root], NEW q \in Side
      PROVE  u.child[q][m] = t.child[q][m]
  BY <1>2, <1>4, <1>5
<1>8. /\ u.child[s][n] = t.child[s][n] /\ u.child[Other(s)][n] = inner
      /\ u.child[s][up] = n /\ u.child[Other(s)][up] = t.child[Other(s)][up]
  BY <1>1, <1>2, <1>4, <1>5
<1>9. /\ u.parent[n] = up /\ u.parent[up] = p /\ u.parent[Guard] = t.parent[Guard]
      /\ \A m \in Node : m \notin {n, up, inner} => u.parent[m] = t.parent[m]
  BY <1>2, <1>5
<1> QED BY <1>4, <1>5, <1>6, <1>7, <1>8, <1>9 DEF Moved, inner, p, u

-------------------------------------------------------------------------------
(* The colours after each change. *)

\* A node is a child once.
LEMMA OneParent ==
  ASSUME NEW t \in Tree, NEW D \in Subtrees, Shape(t, D),
         NEW n \in D[t.root], NEW m \in D[t.root], NEW q \in Side, NEW r \in Side,
         t.child[q][n] # Guard, t.child[r][m] = t.child[q][n]
  PROVE  m = n /\ r = q
<1>1. t.parent[t.child[q][n]] = n /\ t.parent[t.child[r][m]] = m
  <2>1. \A k \in D[t.root], s \in Side : t.child[s][k] # Guard =>
          t.parent[t.child[s][k]] = k
    BY ChildSubtree
  <2> QED BY <2>1
<1>2. m = n
  BY <1>1
<1>3. t.child[q][n] # t.child[Other(q)][n]
  BY ChildSubtree
<1>4. r = q \/ r = Other(q)
  BY LiesFacts, KeysFacts
<1> QED BY <1>2, <1>3, <1>4

\* There are two colours.
LEMMA ColorFacts ==
  /\ RED # BLACK /\ \A c \in Color : c = RED \/ c = BLACK
  /\ RED \in Color /\ BLACK \in Color
BY DEF RED, BLACK, Color

\* What the repair of an insertion relies on.
RedRed(t, D, H, z) ==
  /\ z \in D[t.root] /\ t.color[z] = RED
  /\ Level(t, D, H, {}) /\ Calm(t, D, {z})
  /\ z = t.root \/ RootBlack(t)
  /\ t.color[t.parent[z]] = RED

\* A red node with a red parent has a black grandparent in the tree.
LEMMA RedParent ==
  ASSUME NEW t \in Tree, NEW D \in Subtrees, NEW H \in Heights, Shape(t, D),
         NEW z, RedRed(t, D, H, z)
  PROVE  LET p == t.parent[z]
             g == t.parent[p]
         IN /\ z # t.root /\ RootBlack(t) /\ p # t.root
            /\ p \in D[t.root] /\ g \in D[t.root] /\ t.color[g] = BLACK
            /\ p # z /\ g # p /\ g # z
            /\ SideOf(t, p) \in Side /\ t.child[SideOf(t, p)][g] = p
            /\ t.child[Other(SideOf(t, p))][g] # p
            /\ SideOf(t, z) \in Side /\ t.child[SideOf(t, z)][p] = z
            /\ t.child[Other(SideOf(t, z))][p] # z
<1> DEFINE p == t.parent[z]
           g == t.parent[p]
<1>1. /\ z \in D[t.root] /\ t.color[z] = RED /\ t.color[p] = RED
      /\ Level(t, D, H, {}) /\ Calm(t, D, {z})
      /\ z = t.root \/ RootBlack(t)
  BY DEF RedRed
<1>2. z # t.root
  <2>1. t.parent[t.root] = Guard
    BY <1>1 DEF Shape
  <2> QED BY <1>1, <2>1, ColorFacts DEF Level
<1>3. /\ p \in D[t.root] /\ p # z /\ SideOf(t, z) \in Side
      /\ t.child[SideOf(t, z)][p] = z
      /\ \A q \in Side : q # SideOf(t, z) => t.child[q][p] # z
  BY <1>1, <1>2, SideOfIs
<1>4. p # t.root
  BY <1>1, <1>2, ColorFacts DEF RootBlack
<1> HIDE DEF p
<1>5. /\ g \in D[t.root] /\ g # p /\ SideOf(t, p) \in Side
      /\ t.child[SideOf(t, p)][g] = p
      /\ \A q \in Side : q # SideOf(t, p) => t.child[q][g] # p
  BY <1>3, <1>4, SideOfIs
<1> HIDE DEF g
<1>6. t.color[g] = BLACK
  <2>1. t.color[g] \in Color
    BY <1>5, ParentFacts, TreeTypes
  <2> QED BY <1>1, <1>3, <1>5, <2>1, ColorFacts DEF Calm
<1>7. g # z
  BY <1>1, <1>6, ColorFacts
<1>8. \A s \in Side : Other(s) \in Side /\ Other(s) # s
  BY LiesFacts, KeysFacts
<1> QED BY <1>1, <1>2, <1>3, <1>4, <1>5, <1>6, <1>7, <1>8 DEF p, g

\* The types of the heights, and what a node adds to them.
LEMMA HeightFacts ==
  ASSUME NEW t \in Tree, NEW D \in Subtrees, Shape(t, D), NEW H \in Heights
  PROVE  /\ \A n \in Node : H[n] \in Nat /\ Black(t, n) \in {0, 1}
         /\ \A n \in Node : t.color[n] = BLACK => Black(t, n) = 1
         /\ \A n \in Node : t.color[n] = RED => Black(t, n) = 0
         /\ \A n \in D[t.root] : n \in Node /\ n # Guard
         /\ \A n \in D[t.root], s \in Side : t.child[s][n] \in Node
         /\ Guard \in Node
<1>1. \A n \in D[t.root] : n \in Node /\ n # Guard
  BY ParentFacts
<1> QED BY <1>1, TreeTypes, KeysFacts, ColorFacts DEF Heights, Black

\* No edge is short.
LEMMA EvenLevel ==
  ASSUME NEW t \in Tree, NEW D \in Subtrees, Shape(t, D), NEW H \in Heights
  PROVE  Level(t, D, H, {}) <=>
           /\ H[Guard] = 0 /\ t.color[Guard] = BLACK
           /\ \A n \in D[t.root], s \in Side : H[n] = H[t.child[s][n]] + Black(t, n)
<1>1. \A n \in D[t.root], s \in Side : H[t.child[s][n]] \in Nat /\ Black(t, n) \in Nat
  BY HeightFacts DEF Black
<1> QED BY <1>1 DEF Level

\* Recolor: the red parent and its red sibling become black, the grandparent red.
LEMMA RecolorColors ==
  ASSUME NEW t \in Tree, NEW D \in Subtrees, NEW H \in Heights, Shape(t, D),
         NEW z, RedRed(t, D, H, z),
         t.color[t.child[Other(SideOf(t, t.parent[z]))][t.parent[t.parent[z]]]] = RED
  PROVE  LET p == t.parent[z]
             g == t.parent[p]
             unc == t.child[Other(SideOf(t, p))][g]
             u == Paint(Paint(Paint(t, p, BLACK), unc, BLACK), g, RED)
         IN /\ u \in Tree /\ Shape(u, D) /\ u.root = t.root
            /\ g \in D[u.root] /\ u.color[g] = RED
            /\ g = u.root \/ RootBlack(u)
            /\ \E K \in Heights : Level(u, D, K, {}) /\ Calm(u, D, {g})
<1> DEFINE p == t.parent[z]
           g == t.parent[p]
           So == SideOf(t, p)
           unc == t.child[Other(So)][g]
           u1 == Paint(t, p, BLACK)
           u2 == Paint(u1, unc, BLACK)
           u == Paint(u2, g, RED)
           K == [H EXCEPT ![p] = H[p] + 1, ![unc] = H[unc] + 1]
<1>1. /\ z # t.root /\ RootBlack(t) /\ p # t.root
      /\ p \in D[t.root] /\ g \in D[t.root] /\ t.color[g] = BLACK
      /\ p # z /\ g # p /\ g # z /\ unc # p
      /\ So \in Side /\ t.child[So][g] = p /\ t.child[Other(So)][g] = unc
  BY RedParent
<1>2. /\ z \in D[t.root] /\ t.color[z] = RED /\ t.color[p] = RED
      /\ Level(t, D, H, {}) /\ Calm(t, D, {z}) /\ t.color[unc] = RED
  BY DEF RedRed
<1>3. Other(So) \in Side /\ Other(So) # So /\ \A q \in Side : q = So \/ q = Other(So)
  BY <1>1, LiesFacts, KeysFacts
<1>4. unc # Guard
  BY <1>2, ColorFacts DEF Level
<1> HIDE DEF p, g, So, unc
<1>5. unc \in D[t.root] /\ unc # g /\ unc # t.root
  <2> DEFINE q == Other(So)
  <2>1. q \in Side /\ unc = t.child[q][g] /\ unc # Guard
    BY <1>1, <1>3, <1>4
  <2> HIDE DEF q
  <2> QED BY <1>1, <2>1, ChildSubtree
<1>6. p \in Node /\ g \in Node /\ unc \in Node /\ t.root \in Node /\ Guard \in Node
      /\ p # Guard /\ g # Guard
  BY <1>1, <1>5, HeightFacts, TreeTypes
<1>7. /\ u1 \in Tree /\ u1.root = t.root /\ u1.child = t.child /\ u1.parent = t.parent
      /\ \A m \in Node : u1.color[m] = IF m = p THEN BLACK ELSE t.color[m]
      /\ Shape(u1, D)
  BY <1>6, PaintFields, PaintShape, ColorFacts
<1> HIDE DEF u1
<1>8. /\ u2 \in Tree /\ u2.root = t.root /\ u2.child = t.child /\ u2.parent = t.parent
      /\ \A m \in Node : u2.color[m] = IF m = unc THEN BLACK ELSE u1.color[m]
      /\ Shape(u2, D)
  BY <1>6, <1>7, PaintFields, PaintShape, ColorFacts
<1> HIDE DEF u2
<1>9. /\ u \in Tree /\ u.root = t.root /\ u.child = t.child /\ u.parent = t.parent
      /\ \A m \in Node : u.color[m] = IF m = g THEN RED ELSE u2.color[m]
      /\ Shape(u, D)
  BY <1>6, <1>8, PaintFields, PaintShape, ColorFacts
<1> HIDE DEF u
<1>10. \A m \in Node : u.color[m] = IF m = g THEN RED
                                   ELSE IF m = p \/ m = unc THEN BLACK ELSE t.color[m]
  BY <1>7, <1>8, <1>9
<1>11. /\ K \in Heights
       /\ \A m \in Node : K[m] = IF m = p \/ m = unc THEN H[m] + 1 ELSE H[m]
  BY <1>1, <1>6 DEF Heights
<1> HIDE DEF K
<1>12. \A n \in D[t.root], s \in Side :
         /\ H[n] = H[t.child[s][n]] + Black(t, n)
         /\ t.color[n] = RED /\ t.child[s][n] # z => t.color[t.child[s][n]] = BLACK
         /\ t.child[s][n] \in Node /\ n \in Node
         /\ H[t.child[s][n]] \in Nat
  BY <1>2, HeightFacts DEF Level, Calm
<1>13. ASSUME NEW n \in D[t.root], NEW s \in Side, n # g
       PROVE  t.child[s][n] # p /\ t.child[s][n] # unc
  BY <1>1, <1>3, <1>4, <1>6, <1>13, OneParent
<1>14. ASSUME NEW n \in D[t.root], NEW s \in Side
       PROVE  K[n] = K[t.child[s][n]] + Black(u, n)
  <2>1. CASE n = g
    <3>1. t.child[s][n] = p \/ t.child[s][n] = unc
      BY <1>1, <1>3, <2>1
    <3>2. Black(u, n) = 0 /\ Black(t, n) = 1
      BY <1>1, <1>6, <1>10, <2>1, ColorFacts DEF Black
    <3>3. K[t.child[s][n]] = H[t.child[s][n]] + 1 /\ K[n] = H[n]
      BY <1>1, <1>5, <1>6, <1>11, <2>1, <3>1
    <3> QED BY <1>12, <3>2, <3>3
  <2>2. CASE n # g
    <3>1. K[t.child[s][n]] = H[t.child[s][n]]
      BY <1>11, <1>12, <1>13, <2>2
    <3>2. CASE n = p \/ n = unc
      <4>1. Black(u, n) = 1 /\ Black(t, n) = 0 /\ K[n] = H[n] + 1
        BY <1>2, <1>6, <1>10, <1>11, <2>2, <3>2, ColorFacts DEF Black
      <4> QED BY <1>12, <3>1, <4>1
    <3>3. CASE n # p /\ n # unc
      <4>1. Black(u, n) = Black(t, n) /\ K[n] = H[n]
        BY <1>10, <1>11, <1>12, <2>2, <3>3 DEF Black
      <4> QED BY <1>12, <3>1, <4>1
    <3> QED BY <3>2, <3>3
  <2> QED BY <2>1, <2>2
<1>15. K[Guard] = 0 /\ u.color[Guard] = BLACK
  BY <1>2, <1>4, <1>6, <1>10, <1>11 DEF Level
<1>16. Level(u, D, K, {})
  BY <1>9, <1>11, <1>14, <1>15, EvenLevel
<1>17. Calm(u, D, {g})
  <2> SUFFICES ASSUME NEW n \in D[t.root], NEW s \in Side, u.color[n] = RED,
                      t.child[s][n] # g
               PROVE  u.color[t.child[s][n]] = BLACK
    BY <1>9 DEF Calm
  <2>1. CASE n = g
    BY <1>1, <1>3, <1>5, <1>6, <1>10, <2>1
  <2>2. CASE n # g
    <3>1. t.color[n] = RED /\ n # p
      BY <1>10, <1>12, <2>2, ColorFacts
    <3>2. t.child[s][n] # z
      <4>1. t.child[s][n] # Guard => t.parent[t.child[s][n]] = n
        BY ChildSubtree
      <4>2. z # Guard
        BY <1>2, HeightFacts
      <4> QED BY <3>1, <4>1, <4>2 DEF p
    <3> QED BY <1>10, <1>12, <3>1, <3>2
  <2> QED BY <2>1, <2>2
<1>18. g = u.root \/ RootBlack(u)
  BY <1>1, <1>6, <1>9, <1>10 DEF RootBlack
<1>19. u.color[g] = RED
  BY <1>6, <1>10
<1> QED BY <1>1, <1>9, <1>11, <1>16, <1>17, <1>18, <1>19 DEF u, u2, u1, unc, So, g, p

\* TurnOutwards: a red node below a red parent, on the inner side, and its parent
\* change places.
LEMMA TurnColors ==
  ASSUME NEW t \in Tree, NEW D \in Subtrees, NEW H \in Heights, Shape(t, D),
         NEW z, RedRed(t, D, H, z), NEW s \in Side,
         t.child[Other(s)][t.parent[z]] = z
  PROVE  LET p == t.parent[z]
             u == Rotate(t, p, s)
             E == Turned(t, D, p, s)
         IN Level(u, E, H, {}) /\ Calm(u, E, {p}) /\ RootBlack(u)
<1> DEFINE p == t.parent[z]
           g == t.parent[p]
           inner == t.child[s][z]
           u == Rotate(t, p, s)
           E == Turned(t, D, p, s)
<1>1. /\ z # t.root /\ RootBlack(t) /\ p # t.root /\ p \in D[t.root]
      /\ p # z /\ t.color[g] = BLACK
  BY RedParent
<1>2. /\ z \in D[t.root] /\ t.color[z] = RED /\ t.color[p] = RED
      /\ Level(t, D, H, {}) /\ Calm(t, D, {z})
  BY DEF RedRed
<1>3. Other(s) \in Side /\ Other(s) # s /\ (\A q \in Side : q = s \/ q = Other(s))
      /\ z # Guard
  BY <1>2, LiesFacts, KeysFacts, HeightFacts
<1>4. t.child[Other(s)][p] = z
  OBVIOUS
<1> HIDE DEF p, g
<1>5. E \in Subtrees /\ Shape(u, E) /\ E[u.root] = D[t.root]
  BY <1>1, <1>3, <1>4, RotateShape
<1>6. /\ u.child[s][p] = t.child[s][p] /\ u.child[Other(s)][p] = inner
      /\ u.child[s][z] = p /\ u.child[Other(s)][z] = t.child[Other(s)][z]
      /\ \A m \in D[t.root], q \in Side :
           m \notin {p, z} =>
             /\ t.child[q][m] # z
             /\ u.child[q][m] = IF t.child[q][m] = p THEN z ELSE t.child[q][m]
      /\ u.root = t.root /\ u.color = t.color /\ u \in Tree
  <2>1. Moved(t, D, p, s, z, inner, u)
    BY <1>1, <1>3, <1>4, RotateChildren
  <2> QED BY <1>1, <2>1 DEF Moved
<1> HIDE DEF u, E, inner
<1>7. \A n \in D[t.root], q \in Side :
         /\ H[n] = H[t.child[q][n]] + Black(t, n)
         /\ t.color[n] = RED /\ t.child[q][n] # z => t.color[t.child[q][n]] = BLACK
         /\ t.child[q][n] \in Node /\ n \in Node
         /\ H[t.child[q][n]] \in Nat /\ H[n] \in Nat
  BY <1>2, EvenLevel, HeightFacts DEF Calm
<1>8. \A n \in Node : Black(u, n) = Black(t, n)
  BY <1>6 DEF Black
<1>9. Black(t, p) = 0 /\ Black(t, z) = 0 /\ inner = t.child[s][z] /\ inner # z
  <2>1. inner # z
    BY <1>2, ChildSubtree DEF inner
  <2> QED BY <1>1, <1>2, <2>1, HeightFacts DEF inner
<1>10. H[p] = H[z] /\ H[z] = H[inner]
  BY <1>1, <1>2, <1>3, <1>4, <1>7, <1>9
<1>11. ASSUME NEW n \in D[t.root], NEW q \in Side
       PROVE  H[n] = H[u.child[q][n]] + Black(u, n)
  <2>1. CASE n = p
    BY <1>1, <1>3, <1>6, <1>7, <1>8, <1>9, <1>10, <2>1
  <2>2. CASE n = z
    <3>1. H[n] = H[t.child[Other(s)][z]] + Black(u, n)
      BY <1>2, <1>3, <1>7, <1>8, <2>2
    <3>2. Black(u, n) = 0 /\ H[z] \in Nat
      BY <1>2, <1>7, <1>8, <1>9, <2>2
    <3> QED BY <1>3, <1>6, <1>10, <2>2, <3>1, <3>2
  <2>3. CASE n \notin {p, z}
    <3>1. H[u.child[q][n]] = H[t.child[q][n]]
      BY <1>6, <1>10, <2>3
    <3> QED BY <1>7, <1>8, <3>1
  <2> QED BY <2>1, <2>2, <2>3
<1>12. Level(u, E, H, {})
  <2>1. H[Guard] = 0 /\ u.color[Guard] = BLACK
    BY <1>2, <1>6 DEF Level
  <2> QED BY <1>5, <1>6, <1>11, <2>1, EvenLevel
<1>13. ASSUME NEW n \in D[t.root], NEW q \in Side, u.color[n] = RED,
              u.child[q][n] # p
       PROVE  u.color[u.child[q][n]] = BLACK
  <2>0. t.color[n] = RED
    BY <1>6, <1>13
  <2>1. CASE n = p
    <3>1. t.child[s][p] # z
      BY <1>1, <1>3, <1>4, OneParent
    <3>2. t.color[t.child[s][p]] = BLACK
      BY <1>1, <1>2, <1>3, <1>7, <3>1
    <3>3. t.color[inner] = BLACK
      BY <1>2, <1>7, <1>9
    <3> QED BY <1>3, <1>6, <2>1, <3>2, <3>3
  <2>2. CASE n = z
    <3>1. u.child[q][n] = t.child[Other(s)][z]
      BY <1>3, <1>6, <1>13, <2>2
    <3>2. t.child[Other(s)][z] # z
      BY <1>2, <1>3, ChildSubtree
    <3> QED BY <1>2, <1>3, <1>6, <1>7, <3>1, <3>2
  <2>3. CASE n \notin {p, z}
    <3>1. t.child[q][n] # z
      BY <1>6, <2>3
    <3>2. t.color[t.child[q][n]] = BLACK
      BY <1>7, <2>0, <3>1
    <3>3. t.child[q][n] # p
      BY <1>2, <3>2, ColorFacts
    <3> QED BY <1>6, <2>3, <3>2, <3>3
  <2> QED BY <2>1, <2>2, <2>3
<1>14. Calm(u, E, {p})
  BY <1>5, <1>13 DEF Calm
<1>15. RootBlack(u)
  BY <1>1, <1>6 DEF RootBlack
<1> QED BY <1>12, <1>14, <1>15 DEF u, E, p

\* The same for every node and side.
LEMMA ChildFacts ==
  ASSUME NEW t \in Tree, NEW D \in Subtrees, Shape(t, D)
  PROVE  \A m \in D[t.root], q \in Side :
           /\ m \in Keys /\ m \in Node /\ m # Guard /\ m \in D[m] /\ D[m] \subseteq D[t.root]
           /\ t.child[q][m] \in Node /\ D[t.child[q][m]] \subseteq D[m]
           /\ m \notin D[t.child[q][m]] /\ t.child[q][m] # m /\ t.child[q][m] # t.root
           /\ t.child[q][m] # Guard =>
                /\ t.child[q][m] \in D[t.root] /\ t.child[q][m] \in D[t.child[q][m]]
                /\ t.parent[t.child[q][m]] = m
                /\ t.child[q][m] # t.child[Other(q)][m]
<1> SUFFICES ASSUME NEW m \in D[t.root], NEW q \in Side
             PROVE  /\ m \in Keys /\ m \in Node /\ m # Guard /\ m \in D[m]
                    /\ D[m] \subseteq D[t.root]
                    /\ t.child[q][m] \in Node /\ D[t.child[q][m]] \subseteq D[m]
                    /\ m \notin D[t.child[q][m]] /\ t.child[q][m] # m
                    /\ t.child[q][m] # t.root
                    /\ t.child[q][m] # Guard =>
                         /\ t.child[q][m] \in D[t.root]
                         /\ t.child[q][m] \in D[t.child[q][m]]
                         /\ t.parent[t.child[q][m]] = m
                         /\ t.child[q][m] # t.child[Other(q)][m]
  OBVIOUS
<1> QED BY ChildSubtree, KeysFacts

\* The tree after two nodes have been painted.
Painted(t, D, a, c, b, d, v) ==
  /\ v \in Tree /\ v.root = t.root /\ v.child = t.child /\ v.parent = t.parent
  /\ \A m \in Node : v.color[m] = IF m = b THEN d ELSE IF m = a THEN c ELSE t.color[m]
  /\ Shape(v, D)

\* The fields and the shape after two nodes have been painted.
LEMMA PaintTwo ==
  ASSUME NEW t \in Tree, NEW D \in Subtrees, Shape(t, D),
         NEW a \in Node, NEW b \in Node, NEW c \in Color, NEW d \in Color
  PROVE  Painted(t, D, a, c, b, d, Paint(Paint(t, a, c), b, d))
<1> DEFINE u == Paint(t, a, c)
<1>1. /\ u \in Tree /\ u.root = t.root /\ u.child = t.child /\ u.parent = t.parent
      /\ \A m \in Node : u.color[m] = IF m = a THEN c ELSE t.color[m]
      /\ Shape(u, D)
  BY PaintFields, PaintShape
<1> HIDE DEF u
<1>2. LET v == Paint(u, b, d)
      IN /\ v \in Tree /\ v.root = u.root /\ v.child = u.child /\ v.parent = u.parent
         /\ \A m \in Node : v.color[m] = IF m = b THEN d ELSE u.color[m]
         /\ Shape(v, D)
  BY <1>1, PaintFields, PaintShape
<1> QED BY <1>1, <1>2 DEF u, Painted

\* A rotation of n with its child up.
Risen(t, D, n, s, up, u, E) ==
  /\ E \in Subtrees /\ Shape(u, E) /\ E[u.root] = D[t.root] /\ u \in Tree
  /\ Moved(t, D, n, s, up, t.child[s][up], u)

\* A rotation of a search tree, as the colour lemmas need it.
LEMMA RotateRises ==
  ASSUME NEW t \in Tree, NEW D \in Subtrees, Shape(t, D),
         NEW n \in D[t.root], NEW s \in Side,
         NEW up, up = t.child[Other(s)][n], up # Guard
  PROVE  Risen(t, D, n, s, up, Rotate(t, n, s), Turned(t, D, n, s))
<1>1. Moved(t, D, n, s, up, t.child[s][up], Rotate(t, n, s))
  BY RotateChildren
<1>2. LET u == Rotate(t, n, s)
          E == Turned(t, D, n, s)
      IN /\ Rotated(t, n, s, u)
         /\ E \in Subtrees /\ Shape(u, E) /\ E[u.root] = D[t.root]
  BY RotateShape
<1> QED BY <1>1, <1>2 DEF Risen, Rotated

\* A black node n and its red child up change places and colours, in the three
\* repairs that do so.  Nothing changes for the nodes above and below them.
Exchanged(H, a, b) == [H EXCEPT ![a] = H[b], ![b] = H[a]]

CanRise(t, D, H, Short, Odd, n, s, up) ==
  /\ Shape(t, D) /\ Level(t, D, H, Short) /\ Calm(t, D, Odd) /\ RootBlack(t)
  /\ n \in D[t.root] /\ up = t.child[Other(s)][n] /\ up # Guard
  /\ t.color[n] = BLACK /\ t.color[up] = RED
  /\ t.color[t.child[s][n]] = BLACK /\ t.color[t.child[s][up]] = BLACK
  /\ <<n, Other(s)>> \notin Short /\ \A q \in Side : <<up, q>> \notin Short

HasRisen(t, D, H, Short, Odd, n, s, up, v, u, E) ==
  /\ Risen(v, D, n, s, up, u, E) /\ Painted(t, D, up, BLACK, n, RED, v)
  /\ Exchanged(H, n, up) \in Heights
  /\ Level(u, E, Exchanged(H, n, up), Short) /\ Calm(u, E, Odd) /\ RootBlack(u)

Swapping(t, n, up) == Paint(Paint(t, up, BLACK), n, RED)

\* The heights and colours after a red child has risen above a black node.
LEMMA RiseColors ==
  ASSUME NEW t \in Tree, NEW D \in Subtrees, NEW H \in Heights,
         NEW Short, NEW Odd, NEW n, NEW s \in Side, NEW up,
         CanRise(t, D, H, Short, Odd, n, s, up)
  PROVE  LET v == Swapping(t, n, up)
         IN HasRisen(t, D, H, Short, Odd, n, s, up, v, Rotate(v, n, s), Turned(v, D, n, s))
<1> DEFINE v == Swapping(t, n, up)
           u == Rotate(v, n, s)
           E == Turned(v, D, n, s)
           r == Other(s)
           inner == t.child[s][up]
           K == Exchanged(H, n, up)
           one(m, q) == IF <<m, q>> \in Short THEN 1 ELSE 0
<1>0. /\ Shape(t, D) /\ Level(t, D, H, Short) /\ Calm(t, D, Odd) /\ RootBlack(t)
      /\ n \in D[t.root] /\ up = t.child[r][n] /\ up # Guard
      /\ t.color[n] = BLACK /\ t.color[up] = RED
      /\ t.color[t.child[s][n]] = BLACK /\ t.color[inner] = BLACK
      /\ <<n, r>> \notin Short /\ \A q \in Side : <<up, q>> \notin Short
  BY DEF CanRise
<1>1. /\ r \in Side /\ r # s /\ (\A q \in Side : q = s \/ q = r) /\ Other(s) = r
  BY LiesFacts, KeysFacts
<1> HIDE DEF r
<1>2. /\ n \in Node /\ n # Guard /\ up \in D[t.root] /\ up \in Node /\ up # n
      /\ up # t.root /\ t.root \in Node /\ Guard \in Node
  <2>1. \A m \in D[t.root], q \in Side :
          t.child[q][m] # Guard =>
            t.child[q][m] \in D[t.root] /\ t.child[q][m] # m /\ t.child[q][m] # t.root
    BY <1>0, ChildFacts
  <2>2. Guard \in Node /\ \A m \in D[t.root] : m \in Node /\ m # Guard
    BY <1>0, HeightFacts
  <2> QED BY <1>0, <1>1, <2>1, <2>2, TreeTypes
<1> HIDE DEF inner
<1>3. Painted(t, D, up, BLACK, n, RED, v)
  BY <1>0, <1>2, PaintTwo, ColorFacts DEF Swapping
<1> HIDE DEF v
<1>4. /\ v \in Tree /\ v.root = t.root /\ v.child = t.child /\ v.parent = t.parent
      /\ \A m \in Node : v.color[m] = IF m = n THEN RED ELSE IF m = up THEN BLACK
                                      ELSE t.color[m]
      /\ Shape(v, D)
  BY <1>3 DEF Painted
<1>5. Risen(v, D, n, s, up, u, E)
  <2>1. up = v.child[Other(s)][n] /\ n \in D[v.root]
    BY <1>0, <1>1, <1>4
  <2> QED BY <1>0, <1>4, <2>1, RotateRises
<1> HIDE DEF u, E
<1>6. E[u.root] = D[t.root]
  BY <1>4, <1>5 DEF Risen
<1>7. /\ u.child[s][n] = t.child[s][n] /\ u.child[r][n] = inner
      /\ u.child[s][up] = n /\ u.child[r][up] = t.child[r][up]
      /\ \A m \in D[t.root], q \in Side :
           m \notin {n, up} =>
             /\ t.child[q][m] # up
             /\ u.child[q][m] = IF t.child[q][m] = n THEN up ELSE t.child[q][m]
      /\ u.root = IF n = t.root THEN up ELSE t.root
      /\ u.color = v.color
  BY <1>1, <1>4, <1>5 DEF Risen, Moved, inner
<1>8. \A m \in D[t.root], q \in Side :
         /\ H[m] = H[t.child[q][m]] + Black(t, m) + one(m, q)
         /\ t.color[m] = RED /\ t.child[q][m] \notin Odd => t.color[t.child[q][m]] = BLACK
         /\ t.child[q][m] \in Node /\ m \in Node /\ t.child[q][m] # m
         /\ H[t.child[q][m]] \in Nat /\ H[m] \in Nat
         /\ Black(t, m) \in Nat /\ one(m, q) \in Nat
  <2>1. \A m \in D[t.root], q \in Side :
         /\ t.child[q][m] \in Node /\ m \in Node /\ t.child[q][m] # m
         /\ H[t.child[q][m]] \in Nat /\ H[m] \in Nat
    BY <1>0, HeightFacts, ChildSubtree
  <2>2. \A m \in D[t.root], q \in Side :
         /\ t.color[m] = RED /\ t.child[q][m] \notin Odd => t.color[t.child[q][m]] = BLACK
         /\ Black(t, m) \in Nat /\ one(m, q) \in Nat
    BY <1>0 DEF Calm, Black
  <2>3. \A m \in D[t.root], q \in Side :
          H[m] = H[t.child[q][m]] + Black(t, m) + one(m, q)
    BY <1>0 DEF Level
  <2> QED BY <1>0, <2>1, <2>2, <2>3
<1>9. /\ \A m \in Node : m \notin {n, up} => Black(u, m) = Black(t, m)
      /\ Black(u, n) = 0 /\ Black(u, up) = 1 /\ Black(t, n) = 1 /\ Black(t, up) = 0
  BY <1>0, <1>2, <1>4, <1>7, ColorFacts DEF Black
<1>10. /\ K \in Heights /\ K[up] = H[n] /\ K[n] = H[up]
       /\ \A m \in Node : m \notin {n, up} => K[m] = H[m]
  BY <1>0, <1>2 DEF Heights, Exchanged
<1>11. /\ \A q \in Side : one(up, q) = 0
       /\ one(n, r) = 0
  BY <1>0 DEF one
<1> HIDE DEF K, one
<1>12. /\ inner \in Node /\ inner \notin {n, up} /\ t.child[s][n] \in Node
       /\ t.child[s][n] \notin {n, up} /\ t.child[r][up] \in Node
       /\ t.child[r][up] \notin {n, up}
  <2>1. \A m \in D[t.root], q \in Side :
          /\ t.child[q][m] # Guard => t.child[q][m] # t.child[Other(q)][m]
          /\ D[t.child[q][m]] \subseteq D[m] /\ m \notin D[t.child[q][m]]
          /\ t.child[q][m] # Guard => t.child[q][m] \in D[t.child[q][m]]
    BY <1>0, ChildFacts
  <2>2. n \notin D[up]
    BY <1>0, <1>1, <2>1
  <2>3. \A q \in Side : t.child[q][up] # n
    BY <1>0, <1>2, <2>1, <2>2
  <2>4. t.child[s][n] # up
    BY <1>0, <1>1, <2>1
  <2> QED BY <1>0, <1>1, <1>2, <1>8, <2>3, <2>4 DEF inner
<1>13. /\ H[n] = H[up] + 1 /\ H[n] = H[t.child[s][n]] + 1 + one(n, s)
       /\ H[up] = H[inner] /\ H[up] = H[t.child[r][up]]
  <2>1. H[n] = H[up] + Black(t, n) + one(n, r)
    BY <1>0, <1>1, <1>8
  <2>2. H[up] = H[inner] + Black(t, up) + one(up, s)
    BY <1>0, <1>2, <1>8 DEF inner
  <2>3. H[up] = H[t.child[r][up]] + Black(t, up) + one(up, r)
    BY <1>0, <1>1, <1>2, <1>8
  <2>4. H[n] = H[t.child[s][n]] + Black(t, n) + one(n, s)
    BY <1>0, <1>8
  <2>5. H[inner] \in Nat /\ H[t.child[r][up]] \in Nat
    BY <1>0, <1>1, <1>2, <1>8 DEF inner
  <2> QED BY <1>0, <1>1, <1>8, <1>9, <1>11, <2>1, <2>2, <2>3, <2>4, <2>5
<1>14. ASSUME NEW m \in D[t.root], NEW q \in Side
       PROVE  K[m] = K[u.child[q][m]] + Black(u, m) + one(m, q)
  <2>1. CASE m = n /\ q = s
    <3>1. K[m] = H[up] /\ Black(u, m) = 0
      BY <1>9, <1>10, <2>1
    <3>2. K[u.child[q][m]] = H[t.child[s][n]]
      BY <1>7, <1>10, <1>12, <2>1
    <3>3. /\ H[t.child[s][n]] \in Nat /\ H[n] \in Nat /\ H[up] \in Nat
          /\ one(n, s) \in Nat
      BY <1>0, <1>2, <1>8
    <3> QED BY <1>13, <2>1, <3>1, <3>2, <3>3
  <2>2. CASE m = n /\ q = r
    <3>1. K[u.child[q][m]] = H[inner] /\ K[m] = H[up] /\ Black(u, m) = 0 /\ one(m, q) = 0
      BY <1>7, <1>9, <1>10, <1>11, <1>12, <2>2
    <3>2. H[inner] \in Nat /\ H[up] = H[inner]
      BY <1>1, <1>2, <1>8, <1>13 DEF inner
    <3>3. H[up] = H[inner] + 0 + 0
      BY <3>2
    <3> QED BY <3>1, <3>3
  <2>3. CASE m = up /\ q = s
    <3>1. K[m] = H[n] /\ Black(u, m) = 1 /\ one(m, q) = 0
      BY <1>0, <1>9, <1>10, <1>11, <2>3
    <3>2. K[u.child[q][m]] = H[up]
      BY <1>7, <1>10, <2>3
    <3>3. H[up] \in Nat
      BY <1>0, <1>2, <1>8
    <3> QED BY <1>13, <3>1, <3>2, <3>3
  <2>4. CASE m = up /\ q = r
    <3>1. K[m] = H[n] /\ Black(u, m) = 1 /\ one(m, q) = 0
      BY <1>1, <1>9, <1>10, <1>11, <2>4
    <3>2. K[u.child[q][m]] = H[t.child[r][up]]
      BY <1>7, <1>10, <1>12, <2>4
    <3>3. H[up] \in Nat
      BY <1>0, <1>2, <1>8
    <3> QED BY <1>13, <3>1, <3>2, <3>3
  <2>5. CASE m \notin {n, up}
    <3>1. K[u.child[q][m]] = H[t.child[q][m]]
      BY <1>0, <1>7, <1>8, <1>10, <2>5
    <3> QED BY <1>0, <1>8, <1>9, <1>10, <2>5, <3>1
  <2> QED BY <1>0, <1>1, <2>1, <2>2, <2>3, <2>4, <2>5
<1>15. Level(u, E, K, Short)
  <2>1. H[Guard] = 0 /\ t.color[Guard] = BLACK
    BY <1>0 DEF Level
  <2>2. K[Guard] = 0 /\ u.color[Guard] = BLACK
    BY <1>0, <1>2, <1>4, <1>7, <1>10, <2>1
  <2> QED BY <1>0, <1>6, <1>14, <2>2 DEF Level, one
<1>16. ASSUME NEW m \in D[t.root], NEW q \in Side, u.color[m] = RED,
              u.child[q][m] \notin Odd
       PROVE  u.color[u.child[q][m]] = BLACK
  <2>1. CASE m = n
    BY <1>0, <1>1, <1>4, <1>7, <1>12, <2>1 DEF inner
  <2>2. CASE m = up
    BY <1>0, <1>2, <1>4, <1>7, <1>16, <2>2, ColorFacts
  <2>3. CASE m \notin {n, up}
    <3>1. t.color[m] = RED
      BY <1>0, <1>4, <1>7, <1>8, <1>16, <2>3
    <3>2. CASE t.child[q][m] = n
      BY <1>0, <1>2, <1>4, <1>7, <2>3, <3>2
    <3>3. CASE t.child[q][m] # n
      <4>1. u.child[q][m] = t.child[q][m] /\ t.child[q][m] # up
        BY <1>0, <1>7, <2>3, <3>3
      <4>2. t.color[t.child[q][m]] = BLACK
        BY <1>0, <1>8, <1>16, <3>1, <4>1
      <4> QED BY <1>0, <1>4, <1>7, <1>8, <3>3, <4>1, <4>2
    <3> QED BY <1>0, <3>2, <3>3
  <2> QED BY <1>0, <2>1, <2>2, <2>3
<1>17. Calm(u, E, Odd)
  BY <1>0, <1>6, <1>16 DEF Calm
<1>18. RootBlack(u)
  BY <1>0, <1>2, <1>4, <1>7 DEF RootBlack
<1> QED BY <1>3, <1>5, <1>10, <1>15, <1>17, <1>18 DEF K, HasRisen, v, u, E

\* RaiseParent: a red node z on the outer side of its red parent p, with a black
\* uncle: p rises above its own parent g.
CanRaise(t, D, H, z, s, p, g) ==
  /\ Shape(t, D) /\ RedRed(t, D, H, z) /\ p = t.parent[z] /\ g = t.parent[p]
  /\ t.child[s][p] = z /\ t.child[s][g] = p /\ t.color[t.child[Other(s)][g]] = BLACK

HasRaised(t, D, z, u, E) ==
  /\ u \in Tree /\ E \in Subtrees /\ Shape(u, E) /\ E[u.root] = D[t.root]
  /\ u.color[z] = RED /\ RootBlack(u) /\ Calm(u, E, {z})
  /\ \E K \in Heights : Level(u, E, K, {})

\* RaiseParent: the red parent rises above the grandparent, all paths stay level.
LEMMA RaiseColors ==
  ASSUME NEW t \in Tree, NEW D \in Subtrees, NEW H \in Heights,
         NEW z, NEW s \in Side, NEW p, NEW g, CanRaise(t, D, H, z, s, p, g)
  PROVE  LET v == Swapping(t, g, p)
         IN HasRaised(t, D, z, Rotate(v, g, Other(s)), Turned(v, D, g, Other(s)))
<1> DEFINE r == Other(s)
           v == Swapping(t, g, p)
           u == Rotate(v, g, r)
           E == Turned(v, D, g, r)
<1>0. /\ Shape(t, D) /\ RedRed(t, D, H, z) /\ p = t.parent[z] /\ g = t.parent[p]
      /\ t.child[s][p] = z /\ t.child[s][g] = p /\ t.color[t.child[r][g]] = BLACK
  BY DEF CanRaise
<1>1. /\ z # t.root /\ RootBlack(t) /\ p # t.root /\ p \in D[t.root] /\ g \in D[t.root]
      /\ p # z /\ t.color[g] = BLACK /\ g # p /\ g # z
  BY <1>0, RedParent
<1>2. /\ z \in D[t.root] /\ t.color[z] = RED /\ t.color[p] = RED
      /\ Level(t, D, H, {}) /\ Calm(t, D, {z})
  BY <1>0 DEF RedRed
<1>3. r \in Side /\ r # s /\ Other(r) = s /\ Other(s) = r
  BY LiesFacts, KeysFacts
<1>4. z # Guard /\ p # Guard /\ z \in Node
  BY <1>0, <1>1, <1>2, HeightFacts
<1> HIDE DEF r
<1>5. t.color[t.child[r][p]] = BLACK
  <2>1. \A m \in D[t.root], q \in Side :
          t.child[q][m] # Guard => t.child[q][m] # t.child[Other(q)][m]
    BY <1>0, ChildFacts
  <2> QED BY <1>0, <1>1, <1>2, <1>3, <1>4, <2>1 DEF Calm
<1>6. CanRise(t, D, H, {}, {z}, g, r, p)
  BY <1>0, <1>1, <1>2, <1>3, <1>4, <1>5 DEF CanRise
<1>7. HasRisen(t, D, H, {}, {z}, g, r, p, v, u, E)
  BY <1>3, <1>6, RiseColors
<1> HIDE DEF v, u, E
<1>8. u.color[z] = RED /\ v.root = t.root
  BY <1>1, <1>2, <1>4, <1>7 DEF HasRisen, Risen, Moved, Painted
<1>9. HasRaised(t, D, z, u, E)
  BY <1>7, <1>8 DEF HasRisen, Risen, HasRaised
<1> QED BY <1>9 DEF v, u, E, r

\* RestoreEnds: the repair of an insertion ends with a black root.
LEMMA EndColors ==
  ASSUME NEW t \in Tree, NEW D \in Subtrees, NEW H \in Heights, Shape(t, D),
         NEW z \in D[t.root], Level(t, D, H, {}), Calm(t, D, {z}),
         z = t.root \/ RootBlack(t), t.color[t.parent[z]] = BLACK
  PROVE  LET u == Paint(t, t.root, BLACK)
         IN /\ u \in Tree /\ Shape(u, D) /\ u.root = t.root
            /\ \E K \in Heights : Colored(u, D, K)
<1> DEFINE o == t.root
           u == Paint(t, o, BLACK)
           K == [H EXCEPT ![o] = IF t.color[o] = BLACK THEN H[o] ELSE H[o] + 1]
<1>1. o \in Node /\ o # Guard /\ o \in D[o] /\ Guard \in Node
  BY TreeTypes, ParentFacts, HeightFacts
<1>2. /\ u \in Tree /\ u.root = o /\ u.child = t.child /\ Shape(u, D)
      /\ \A m \in Node : u.color[m] = IF m = o THEN BLACK ELSE t.color[m]
  <2>1. BLACK \in Color
    BY ColorFacts
  <2> HIDE DEF o
  <2>2. /\ u \in Tree /\ u.root = t.root /\ u.child = t.child
        /\ \A m \in Node : u.color[m] = IF m = o THEN BLACK ELSE t.color[m]
    BY <1>1, <2>1, PaintFields
  <2>3. Shape(u, D)
    BY <1>1, <2>1, PaintShape
  <2> HIDE DEF u
  <2> QED BY <2>2, <2>3 DEF o
<1>3. /\ K \in Heights
      /\ K[o] = IF t.color[o] = BLACK THEN H[o] ELSE H[o] + 1
      /\ \A m \in Node : m # o => K[m] = H[m]
  BY <1>1 DEF Heights
<1>4. \A n \in D[o], q \in Side :
         /\ H[n] = H[t.child[q][n]] + Black(t, n)
         /\ t.color[n] = RED /\ t.child[q][n] # z => t.color[t.child[q][n]] = BLACK
         /\ t.child[q][n] \in Node /\ n \in Node /\ t.child[q][n] # o
         /\ t.child[q][n] # Guard => t.parent[t.child[q][n]] = n
         /\ H[t.child[q][n]] \in Nat
  BY EvenLevel, HeightFacts, ChildSubtree DEF Calm
<1>5. t.color[o] \in Color /\ z # Guard /\ z \in Node
  BY <1>1, TreeTypes, HeightFacts
<1>6. H[Guard] = 0 /\ t.color[Guard] = BLACK
  BY DEF Level
<1> HIDE DEF u, K, o
<1>7. Level(u, D, K, {})
  <2>1. ASSUME NEW n \in D[o], NEW q \in Side
        PROVE  K[n] = K[t.child[q][n]] + Black(u, n)
    <3>1. K[t.child[q][n]] = H[t.child[q][n]]
      BY <1>3, <1>4
    <3>2. CASE n = o
      <4>1. Black(u, o) = 1 /\ Black(t, o) = IF t.color[o] = BLACK THEN 1 ELSE 0
        BY <1>1, <1>2 DEF Black
      <4> QED BY <1>3, <1>4, <3>1, <3>2, <4>1
    <3>3. CASE n # o
      <4>1. Black(u, n) = Black(t, n)
        BY <1>2, <1>4, <3>3 DEF Black
      <4> QED BY <1>3, <1>4, <3>1, <3>3, <4>1
    <3> QED BY <3>2, <3>3
  <2>2. K[Guard] = 0 /\ u.color[Guard] = BLACK
    BY <1>1, <1>2, <1>3, <1>6
  <2> QED BY <1>2, <1>3, <2>1, <2>2, EvenLevel
<1>8. Calm(u, D, {})
  <2> SUFFICES ASSUME NEW n \in D[o], NEW q \in Side, u.color[n] = RED
               PROVE  u.color[t.child[q][n]] = BLACK
    BY <1>2 DEF Calm
  <2>1. n # o /\ t.color[n] = RED
    BY <1>1, <1>2, <1>4, ColorFacts
  <2>2. t.child[q][n] # z
    BY <1>4, <1>5, <2>1, ColorFacts
  <2> QED BY <1>2, <1>4, <2>1, <2>2
<1>9. RootBlack(u)
  BY <1>1, <1>2 DEF RootBlack
<1> QED BY <1>2, <1>3, <1>7, <1>8, <1>9 DEF Colored, u, o

\* Link: a new node is red, and does not count.
HasGrown(t, D, H, k, up, u, E, K) ==
  /\ K \in Heights /\ Level(u, E, K, {}) /\ Calm(u, E, {k})
  /\ u.color[k] = RED /\ (k = u.root \/ RootBlack(u))

\* bst_insert(): the red leaf leaves all paths level.
LEMMA GrownColors ==
  ASSUME NEW t \in Tree, NEW D \in Subtrees, NEW H \in Heights, Shape(t, D),
         Colored(t, D, H),
         NEW k \in Keys, k \notin D[t.root], NEW up \in Node, Place(t, D, k, up)
  PROVE  HasGrown(t, D, H, k, up, Grown(t, k, up), Added(t, D, k, up),
                  [H EXCEPT ![k] = 0])
<1> DEFINE u == Grown(t, k, up)
           E == Added(t, D, k, up)
           K == [H EXCEPT ![k] = 0]
           d == IF k < up THEN "left" ELSE "right"
<1>1. /\ up = Guard => t.root = Guard
      /\ up # Guard => up \in D[t.root] /\ up # k /\ t.child[d][up] = Guard
      /\ k \in Node /\ k # Guard /\ up # k /\ d \in Side /\ Guard \in Node
  BY KeysFacts DEF Place, Side
<1>2. E[u.root] = D[t.root] \cup {k}
  BY GrownShape
<1> HIDE DEF d
<1>3. /\ u.root = IF up = Guard THEN k ELSE t.root
      /\ \A m \in Node : u.color[m] = IF m = k THEN RED ELSE t.color[m]
      /\ \A q \in Side, m \in Node :
           u.child[q][m] = IF m = up /\ m # Guard /\ q = d THEN k
                           ELSE IF m = k THEN Guard ELSE t.child[q][m]
  BY <1>1, GrownFields DEF d
<1>4. /\ Level(t, D, H, {}) /\ Calm(t, D, {}) /\ RootBlack(t)
      /\ H[Guard] = 0 /\ t.color[Guard] = BLACK
  BY DEF Colored, Level
<1>5. \A m \in D[t.root], q \in Side :
         /\ H[m] = H[t.child[q][m]] + Black(t, m)
         /\ t.color[m] = RED => t.color[t.child[q][m]] = BLACK
         /\ t.child[q][m] \in Node /\ m \in Node /\ m # Guard
         /\ t.child[q][m] # Guard => t.child[q][m] \in D[t.root]
         /\ H[t.child[q][m]] \in Nat
  BY <1>4, EvenLevel, HeightFacts, ChildFacts DEF Calm
<1>6. /\ K \in Heights /\ K[k] = 0 /\ \A m \in Node : m # k => K[m] = H[m]
  BY <1>1 DEF Heights
<1> HIDE DEF u, E, K
<1>7. \A m \in Node : m # k => Black(u, m) = Black(t, m)
  BY <1>3 DEF Black
<1>8. Black(u, k) = 0
  BY <1>1, <1>3, ColorFacts DEF Black
<1>9. ASSUME NEW m \in D[t.root] \cup {k}, NEW q \in Side
      PROVE  /\ K[m] = K[u.child[q][m]] + Black(u, m)
             /\ u.color[m] = RED /\ u.child[q][m] # k => u.color[u.child[q][m]] = BLACK
  <2>1. CASE m = k
    BY <1>1, <1>3, <1>4, <1>6, <1>8, <2>1
  <2>2. CASE m # k /\ m = up /\ q = d
    <3>1. u.child[q][m] = k /\ t.child[q][m] = Guard
      BY <1>1, <1>3, <1>5, <2>2
    <3> QED BY <1>4, <1>5, <1>6, <1>7, <2>2, <3>1
  <2>3. CASE m # k /\ ~(m = up /\ q = d)
    <3>1. u.child[q][m] = t.child[q][m] /\ t.child[q][m] # k
      BY <1>1, <1>3, <1>5, <2>3
    <3> QED BY <1>3, <1>5, <1>6, <1>7, <2>3, <3>1
  <2> QED BY <2>1, <2>2, <2>3
<1>10. K[Guard] = 0 /\ u.color[Guard] = BLACK
  BY <1>1, <1>3, <1>4, <1>6
<1>11. Level(u, E, K, {})
  <2>1. \A m \in E[u.root], q \in Side : Black(u, m) \in Nat /\ K[u.child[q][m]] \in Nat
    <3>1. \A m \in E[u.root], q \in Side : u.child[q][m] \in Node
      BY <1>1, <1>2, <1>3, <1>5
    <3> QED BY <1>6, <3>1 DEF Black, Heights
  <2> QED BY <1>2, <1>9, <1>10, <2>1 DEF Level
<1>12. Calm(u, E, {k})
  BY <1>2, <1>9 DEF Calm
<1>13. u.color[k] = RED /\ (k = u.root \/ RootBlack(u))
  <2>1. t.root \in Node /\ (up # Guard => t.root \in D[t.root])
    BY <1>1, TreeTypes, ParentFacts
  <2> QED BY <1>1, <1>3, <1>4, <2>1 DEF RootBlack
<1> QED BY <1>6, <1>11, <1>12, <1>13 DEF HasGrown, u, E, K

\* A node with one child is black, and the child red.
LEMMA OnlyChild ==
  ASSUME NEW t \in Tree, NEW D \in Subtrees, NEW H \in Heights, Shape(t, D),
         Colored(t, D, H), NEW n \in D[t.root], NEW o \in Side,
         t.child[Other(o)][n] = Guard, t.child[o][n] # Guard
  PROVE  t.color[n] = BLACK /\ t.color[t.child[o][n]] = RED
<1> DEFINE v == t.child[o][n]
<1>1. Level(t, D, H, {}) /\ Calm(t, D, {}) /\ H[Guard] = 0
  BY DEF Colored, Level
<1>2. \A m \in D[t.root], q \in Side :
         /\ H[m] = H[t.child[q][m]] + Black(t, m)
         /\ t.child[q][m] \in Node /\ m \in Node /\ H[t.child[q][m]] \in Nat
         /\ t.child[q][m] # Guard => t.child[q][m] \in D[t.root]
  BY <1>1, EvenLevel, HeightFacts, ChildFacts
<1>3. Other(o) \in Side /\ v \in D[t.root] /\ v \in Node /\ n \in Node
  BY <1>2, LiesFacts, KeysFacts
<1>4. H[n] = Black(t, n) /\ H[n] = H[v] + Black(t, n)
  <2>1. H[n] = H[Guard] + Black(t, n)
    BY <1>2, <1>3
  <2>2. Black(t, n) \in Nat
    BY DEF Black
  <2> QED BY <1>1, <1>2, <2>1, <2>2
<1>5. H[v] = 0
  <2>1. Black(t, n) \in Nat /\ H[v] \in Nat
    BY <1>2 DEF Black
  <2>2. \A a, b \in Nat : a = b + a => b = 0
    OBVIOUS
  <2> HIDE DEF v
  <2> QED BY <1>4, <2>1, <2>2
<1>6. t.color[v] = RED
  <2>1. t.color[v] \in Color
    BY <1>3, TreeTypes
  <2>2. CASE t.color[v] = BLACK
    <3>1. Black(t, v) = 1
      BY <2>2 DEF Black
    <3>2. H[v] = H[t.child[o][v]] + 1 /\ H[t.child[o][v]] \in Nat
      BY <1>2, <1>3, <3>1
    <3> QED BY <1>5, <3>2
  <2> QED BY <2>1, <2>2, ColorFacts
<1>7. t.color[n] = BLACK
  <2>1. t.color[n] \in Color
    BY <1>3, TreeTypes
  <2> QED BY <1>1, <1>6, <2>1, ColorFacts DEF Calm
<1> QED BY <1>6, <1>7

\* The edge above a childless node that is taken away, if it was black.
Edge(t, n) == IF t.color[n] = BLACK /\ n # t.root THEN {<<t.parent[n], SideOf(t, n)>>}
              ELSE {}

HasGone(t, D, H, n, u) ==
  /\ Level(u, Without(D, n), H, Edge(t, n)) /\ Calm(u, Without(D, n), {}) /\ RootBlack(u)
  /\ n # t.root =>
       /\ u.root = t.root /\ u.parent[Guard] = t.parent[n]
       /\ t.parent[n] \in D[t.root] \ {n}
       /\ u.child[SideOf(t, n)][t.parent[n]] = Guard
  /\ n = t.root => u.root = Guard
  /\ u.color = t.color

\* A node without children is taken out: all is level, or one edge is short.
LEMMA GoneColors ==
  ASSUME NEW t \in Tree, NEW D \in Subtrees, NEW H \in Heights, Shape(t, D),
         Colored(t, D, H), NEW n \in D[t.root], \A q \in Side : t.child[q][n] = Guard
  PROVE  HasGone(t, D, H, n, Transplant(t, n, Guard))
<1> DEFINE u == Transplant(t, n, Guard)
           E == Without(D, n)
           p == t.parent[n]
           So == SideOf(t, n)
<1>0. /\ Level(t, D, H, {}) /\ Calm(t, D, {}) /\ RootBlack(t)
      /\ H[Guard] = 0 /\ t.color[Guard] = BLACK
  BY DEF Colored, Level
<1>1. Transplanted(t, n, Guard, u) /\ E[u.root] = D[t.root] \ {n}
  <2>1. "left" \in Side /\ Other("left") \in Side
    BY DEF Side, Other
  <2> DEFINE o == "left"
  <2>2. o \in Side /\ t.child[Other(o)][n] = Guard /\ t.child[o][n] = Guard
    BY <2>1
  <2> HIDE DEF o, u, E
  <2>3. LET U == Transplant(t, n, t.child[o][n])
            F == Without(D, n)
        IN /\ Transplanted(t, n, t.child[o][n], U)
           /\ F \in Subtrees /\ Shape(U, F) /\ F[U.root] = D[t.root] \ {n}
    BY <2>2, TransplantShape
  <2> QED BY <2>2, <2>3 DEF u, E
<1>2. /\ u.color = t.color /\ u.root = IF p = Guard THEN Guard ELSE t.root
      /\ u.parent[Guard] = p
      /\ \A q \in Side, m \in Node :
           u.child[q][m] = IF m # Guard /\ m = p /\ q = So THEN Guard ELSE t.child[q][m]
  BY <1>1, KeysFacts DEF Transplanted
<1>3. /\ n \in Node /\ n # Guard /\ (p = Guard <=> n = t.root) /\ Guard \in Node
      /\ n # t.root => /\ p \in D[t.root] /\ p # n /\ So \in Side /\ t.child[So][p] = n
                       /\ \A q \in Side : q # So => t.child[q][p] # n
  <2>1. /\ n \in Node /\ n # Guard /\ (p = Guard <=> n = t.root) /\ Guard \in Node
    BY ParentFacts, KeysFacts
  <2>2. n # t.root => /\ p \in D[t.root] /\ p # n /\ So \in Side /\ t.child[So][p] = n
                      /\ \A q \in Side : q # So => t.child[q][p] # n
    BY SideOfIs
  <2> QED BY <2>1, <2>2
<1>4. Edge(t, n) = IF t.color[n] = BLACK /\ n # t.root THEN {<<p, So>>} ELSE {}
  BY DEF Edge
<1> HIDE DEF u, E, So
<1>5. \A m \in D[t.root], q \in Side :
         /\ H[m] = H[t.child[q][m]] + Black(t, m)
         /\ t.color[m] = RED => t.color[t.child[q][m]] = BLACK
         /\ t.child[q][m] \in Node /\ m \in Node /\ m # Guard
         /\ t.child[q][m] # Guard => t.parent[t.child[q][m]] = m
         /\ H[t.child[q][m]] \in Nat
  BY <1>0, EvenLevel, HeightFacts, ChildFacts DEF Calm
<1>6. \A m : Black(u, m) = Black(t, m)
  BY <1>2 DEF Black
<1>7. H[n] = Black(t, n)
  <2>1. "left" \in Side /\ Black(t, n) \in Nat
    BY DEF Side, Black
  <2>2. H[n] = H[Guard] + Black(t, n)
    BY <1>5, <2>1
  <2> QED BY <1>0, <2>1, <2>2
<1>8. ASSUME NEW m \in D[t.root] \ {n}, NEW q \in Side
      PROVE  H[m] = H[u.child[q][m]] + Black(u, m)
                    + (IF <<m, q>> \in Edge(t, n) THEN 1 ELSE 0)
  <2>1. Black(t, m) \in Nat
    BY DEF Black
  <2>2. CASE m = p /\ q = So
    <3>1. n # t.root
      BY <1>3, <1>5, <2>2
    <3>2. u.child[q][m] = Guard /\ t.child[q][m] = n
      BY <1>2, <1>3, <1>5, <2>2, <3>1
    <3>3. Black(t, n) = IF t.color[n] = BLACK THEN 1 ELSE 0
      BY DEF Black
    <3>4. <<m, q>> \in Edge(t, n) <=> t.color[n] = BLACK
      BY <1>4, <2>2, <3>1
    <3> QED BY <1>0, <1>5, <1>6, <1>7, <2>1, <3>2, <3>3, <3>4
  <2>3. CASE ~(m = p /\ q = So)
    <3>1. <<m, q>> \notin Edge(t, n)
      BY <1>4, <2>3
    <3>2. u.child[q][m] = t.child[q][m]
      BY <1>2, <1>5, <2>3
    <3> QED BY <1>5, <1>6, <2>1, <3>1, <3>2
  <2> QED BY <2>2, <2>3
<1>9. Level(u, E, H, Edge(t, n))
  BY <1>0, <1>1, <1>2, <1>8 DEF Level
<1>10. Calm(u, E, {})
  <2> SUFFICES ASSUME NEW m \in D[t.root] \ {n}, NEW q \in Side, t.color[m] = RED
               PROVE  t.color[u.child[q][m]] = BLACK
    BY <1>1, <1>2 DEF Calm
  <2> QED BY <1>0, <1>2, <1>5
<1>11. RootBlack(u)
  BY <1>0, <1>2 DEF RootBlack
<1>12. /\ n # t.root =>
            /\ u.root = t.root /\ u.parent[Guard] = p
            /\ p \in D[t.root] \ {n}
            /\ u.child[So][p] = Guard
       /\ n = t.root => u.root = Guard
  BY <1>2, <1>3, <1>5
<1> QED BY <1>2, <1>9, <1>10, <1>11, <1>12 DEF HasGone, u, E, So
\* The least node takes the place and the colour of the deleted one.
MaySwap(t, D, H, n, k, u, p, s) ==
  /\ Shape(t, D) /\ Level(t, D, H, {<<p, s>>}) /\ Calm(t, D, {}) /\ RootBlack(t)
  /\ n \in D[t.root] /\ k \in Keys /\ k \notin D[t.root] /\ p \in D[t.root]
  /\ Swapped(t, D, n, k, u)
  /\ \A j \in Node : u.color[j] = IF j = k THEN t.color[n] ELSE t.color[j]

HasSwapped(H, n, k, u, p, s, E) ==
  /\ [H EXCEPT ![k] = H[n]] \in Heights
  /\ Level(u, E, [H EXCEPT ![k] = H[n]], {<<IF p = n THEN k ELSE p, s>>})
  /\ Calm(u, E, {}) /\ RootBlack(u)

\* A node that takes the place and the colour of another leaves the short edge short.
LEMMA SwapColors ==
  ASSUME NEW t \in Tree, NEW D \in Subtrees, NEW H \in Heights,
         NEW n, NEW k, NEW u, NEW p, NEW s \in Side, MaySwap(t, D, H, n, k, u, p, s),
         NEW E, E[u.root] = (D[t.root] \ {n}) \cup {k}
  PROVE  HasSwapped(H, n, k, u, p, s, E)
<1> DEFINE K == [H EXCEPT ![k] = H[n]]
           name(m) == IF m = n THEN k ELSE m
           one(m, q) == IF <<m, q>> \in {<<p, s>>} THEN 1 ELSE 0
<1>1. /\ Shape(t, D) /\ Level(t, D, H, {<<p, s>>}) /\ Calm(t, D, {}) /\ RootBlack(t)
      /\ n \in D[t.root] /\ k \in Keys /\ k \notin D[t.root] /\ p \in D[t.root]
      /\ H[Guard] = 0 /\ t.color[Guard] = BLACK
      /\ \A j \in Node : u.color[j] = IF j = k THEN t.color[n] ELSE t.color[j]
  BY DEF MaySwap, Level
<1>2. /\ u.root = IF n = t.root THEN k ELSE t.root
      /\ \A q \in Side : u.child[q][k] = t.child[q][n]
      /\ \A j \in D[t.root], q \in Side : j # n =>
           u.child[q][j] = IF t.child[q][j] = n THEN k ELSE t.child[q][j]
  BY DEF MaySwap, Swapped
<1>3. k \in Node /\ k # Guard /\ Guard \in Node
  BY <1>1, KeysFacts
<1>4. \A m \in D[t.root], q \in Side :
         /\ H[m] = H[t.child[q][m]] + Black(t, m) + one(m, q)
         /\ t.color[m] = RED => t.color[t.child[q][m]] = BLACK
         /\ t.child[q][m] \in Node /\ m \in Node /\ m # Guard
         /\ t.child[q][m] # Guard => t.child[q][m] \in D[t.root]
         /\ H[t.child[q][m]] \in Nat /\ t.child[q][m] # m /\ t.child[q][m] # k
  <2>1. \A m \in D[t.root], q \in Side :
         /\ H[m] = H[t.child[q][m]] + Black(t, m) + one(m, q)
         /\ t.color[m] = RED => t.color[t.child[q][m]] = BLACK
    BY <1>1 DEF Level, Calm
  <2>2. \A m \in D[t.root], q \in Side :
         /\ t.child[q][m] \in Node /\ m \in Node /\ m # Guard
         /\ t.child[q][m] # Guard => t.child[q][m] \in D[t.root]
         /\ H[t.child[q][m]] \in Nat /\ t.child[q][m] # m
    BY <1>1, ChildFacts, HeightFacts
  <2> QED BY <1>1, <1>3, <2>1, <2>2
<1>5. K \in Heights /\ K[k] = H[n] /\ \A m \in Node : m # k => K[m] = H[m]
  BY <1>1, <1>3, <1>4 DEF Heights
<1> HIDE DEF K
<1>6. /\ Black(u, k) = Black(t, n)
      /\ \A m \in Node : m # k => Black(u, m) = Black(t, m)
  BY <1>1, <1>3 DEF Black
<1>7. ASSUME NEW m \in D[t.root], NEW q \in Side
      PROVE  /\ u.child[q][name(m)] = name(t.child[q][m])
             /\ K[name(m)] = H[m] /\ K[name(t.child[q][m])] = H[t.child[q][m]]
             /\ Black(u, name(m)) = Black(t, m)
             /\ u.color[name(m)] = t.color[m]
             /\ u.color[name(t.child[q][m])] = t.color[t.child[q][m]]
  <2>1. u.child[q][name(m)] = name(t.child[q][m])
    BY <1>1, <1>2, <1>4
  <2>2. K[name(m)] = H[m] /\ K[name(t.child[q][m])] = H[t.child[q][m]]
    BY <1>1, <1>4, <1>5
  <2>3. Black(u, name(m)) = Black(t, m)
    BY <1>1, <1>4, <1>6
  <2>4. /\ u.color[name(m)] = t.color[m]
        /\ u.color[name(t.child[q][m])] = t.color[t.child[q][m]]
    BY <1>1, <1>3, <1>4
  <2> QED BY <2>1, <2>2, <2>3, <2>4
<1>8. \A j \in E[u.root] : \E m \in D[t.root] : j = name(m)
  BY <1>1
<1>9. \A m \in D[t.root], q \in Side :
         one(m, q) = IF <<name(m), q>> \in {<<name(p), s>>} THEN 1 ELSE 0
  BY <1>1
<1>10. K[Guard] = 0 /\ u.color[Guard] = BLACK
  BY <1>1, <1>3, <1>5
<1> HIDE DEF name, one
<1>11. ASSUME NEW j \in E[u.root], NEW q \in Side
       PROVE  /\ K[j] = K[u.child[q][j]] + Black(u, j)
                        + (IF <<j, q>> \in {<<name(p), s>>} THEN 1 ELSE 0)
              /\ u.color[j] = RED => u.color[u.child[q][j]] = BLACK
  <2>1. PICK m \in D[t.root] : j = name(m)
    BY <1>8
  <2> QED BY <1>4, <1>7, <1>9, <2>1
<1>12. Level(u, E, K, {<<name(p), s>>})
  BY <1>10, <1>11 DEF Level
<1>13. Calm(u, E, {})
  BY <1>11 DEF Calm
<1>14. RootBlack(u)
  <2>1. t.root \in Node
    BY TreeTypes
  <2>2. n # t.root => t.root # k
    BY <1>1, ParentFacts
  <2> QED BY <1>1, <1>2, <1>3, <2>1, <2>2 DEF RootBlack
<1> QED BY <1>5, <1>12, <1>13, <1>14 DEF HasSwapped, K, name

-------------------------------------------------------------------------------
(* The repair of a deletion. *)

\* The sibling of a subtree that is one black node short is a node.
LEMMA SiblingFacts ==
  ASSUME NEW t \in Tree, NEW D \in Subtrees, NEW H \in Heights, Shape(t, D),
         NEW z \in Node, NEW s \in Side, ShortEdge(t, D, H, z, s)
  PROVE  /\ t.child[Other(s)][t.parent[z]] \in D[t.root]
         /\ t.child[Other(s)][t.parent[z]] # z
         /\ H[t.child[Other(s)][t.parent[z]]] = H[z] + 1
         /\ SideOf(t, z) = s
<1> DEFINE p == t.parent[z]
           r == Other(s)
           w0 == t.child[r][p]
<1>1. /\ t.color[z] = BLACK /\ z # t.root /\ p \in D[t.root] /\ t.child[s][p] = z
      /\ Level(t, D, H, {<<p, s>>}) /\ H[Guard] = 0
  BY DEF ShortEdge, Level
<1>2. /\ r \in Side /\ r # s /\ Other(s) = r
      /\ \A q \in Side : q = s \/ q = r
  BY LiesFacts, KeysFacts
<1> HIDE DEF p, r
<1>3. /\ w0 \in Node /\ H[w0] \in Nat /\ H[z] \in Nat /\ Black(t, p) \in Nat
      /\ z # Guard => z # w0
      /\ w0 # Guard => w0 \in D[t.root]
  <2>1. /\ w0 \in Node /\ (w0 # Guard => w0 \in D[t.root])
        /\ t.child[s][p] # Guard => t.child[s][p] # t.child[Other(s)][p]
    BY <1>1, <1>2, ChildFacts
  <2>2. Black(t, p) \in Nat
    BY DEF Black
  <2> QED BY <1>1, <1>2, <2>1, <2>2 DEF Heights
<1>4. H[p] = H[z] + Black(t, p) + 1 /\ H[p] = H[w0] + Black(t, p) + 0
  <2>1. <<p, r>> \notin {<<p, s>>} /\ <<p, s>> \in {<<p, s>>}
    BY <1>2
  <2> QED BY <1>1, <1>2, <2>1 DEF Level
<1>5. H[w0] = H[z] + 1
  BY <1>3, <1>4
<1>6. w0 # Guard
  BY <1>1, <1>3, <1>5
<1>7. SideOf(t, z) = s
  <2>1. t.child["left"][p] = z <=> s = "left"
    BY <1>1, <1>2, <1>3, <1>6 DEF Side
  <2> QED BY <2>1 DEF SideOf, Side, p
<1> QED BY <1>1, <1>3, <1>5, <1>6, <1>7 DEF p, r
\* What every repair of a deletion keeps of the short edge.
Repaired(t, D, H, z, s, n, d, up, v, u, E, K) ==
  /\ Risen(v, D, n, d, up, u, E) /\ v.root = t.root /\ v.child = t.child
  /\ K \in Heights /\ ShortEdge(u, E, K, z, s) /\ u.parent[z] = t.parent[z]

\* FindSibling: a red sibling r rises above the parent p.
SiblingIsRed(t, D, H, z, s, p, r) ==
  /\ Shape(t, D) /\ ShortEdge(t, D, H, z, s)
  /\ p = t.parent[z] /\ r = t.child[Other(s)][p] /\ t.color[r] = RED

\* The sibling of the short subtree is then black, the subtree still short.
LEMMA RedSibling ==
  ASSUME NEW t \in Tree, NEW D \in Subtrees, NEW H \in Heights,
         NEW z \in Node, NEW s \in Side, NEW p, NEW r,
         SiblingIsRed(t, D, H, z, s, p, r)
  PROVE  LET v == Swapping(t, p, r)
             u == Rotate(v, p, s)
             E == Turned(v, D, p, s)
         IN /\ Repaired(t, D, H, z, s, p, s, r, v, u, E, Exchanged(H, p, r))
            /\ u.color[u.child[Other(s)][p]] = BLACK
<1> DEFINE v == Swapping(t, p, r)
           u == Rotate(v, p, s)
           E == Turned(v, D, p, s)
           K == Exchanged(H, p, r)
           o == Other(s)
<1>0. /\ Shape(t, D) /\ ShortEdge(t, D, H, z, s)
      /\ p = t.parent[z] /\ r = t.child[Other(s)][p] /\ t.color[r] = RED
  BY DEF SiblingIsRed
<1>1. /\ t.color[z] = BLACK /\ z # t.root /\ p \in D[t.root] /\ t.child[s][p] = z
      /\ Level(t, D, H, {<<p, s>>}) /\ Calm(t, D, {}) /\ RootBlack(t)
  BY <1>0 DEF ShortEdge
<1>2. o \in Side /\ o # s /\ Other(s) = o /\ r = t.child[o][p]
  BY <1>0, LiesFacts, KeysFacts
<1>3. r \in D[t.root] /\ r # z
  BY <1>0, SiblingFacts
<1>4. \A m \in D[t.root], q \in Side :
         /\ m \in Node /\ m # Guard /\ t.child[q][m] \in Node /\ t.child[q][m] # m
         /\ t.child[q][m] # Guard => t.parent[t.child[q][m]] = m
         /\ t.color[m] = RED => t.color[t.child[q][m]] = BLACK
  BY <1>0, <1>1, ChildFacts DEF Calm
<1> HIDE DEF o
<1>5. t.color[p] = BLACK /\ t.color[t.child[s][r]] = BLACK /\ r # p /\ r # Guard
  <2>1. t.color[p] \in Color
    BY <1>1, <1>4, TreeTypes
  <2>2. r # Guard
    BY <1>3, <1>4
  <2>3. r # p
    BY <1>1, <1>2, <1>4
  <2>4. t.color[p] # RED
    BY <1>0, <1>1, <1>2, <1>4, ColorFacts
  <2>5. t.color[t.child[s][r]] = BLACK
    BY <1>0, <1>3, <1>4
  <2> QED BY <2>1, <2>2, <2>3, <2>4, <2>5, ColorFacts
<1>6. CanRise(t, D, H, {<<p, s>>}, {}, p, s, r)
  BY <1>0, <1>1, <1>2, <1>5 DEF CanRise
<1>7. HasRisen(t, D, H, {<<p, s>>}, {}, p, s, r, v, u, E)
  BY <1>0, <1>6, RiseColors
<1> HIDE DEF v, u, E
<1>8. /\ v.root = t.root /\ v.child = t.child /\ v.parent = t.parent
      /\ \A m \in Node : v.color[m] = IF m = p THEN RED ELSE IF m = r THEN BLACK
                                      ELSE t.color[m]
      /\ Risen(v, D, p, s, r, u, E) /\ K \in Heights
      /\ Level(u, E, K, {<<p, s>>}) /\ Calm(u, E, {}) /\ RootBlack(u)
  BY <1>0, <1>7 DEF HasRisen, Painted
<1> HIDE DEF K
<1>9. /\ u.child[s][p] = z
      /\ u.root = IF p = t.root THEN r ELSE t.root
      /\ u.color = v.color /\ E[u.root] = D[t.root]
      /\ \A m \in Node : m \notin {p, r, t.child[s][r]} => u.parent[m] = t.parent[m]
      /\ u.parent[Guard] = t.parent[Guard]
  BY <1>0, <1>1, <1>8 DEF Risen, Moved
<1>10. z # p
  BY <1>0, <1>1, <1>4
<1>11. u.parent[z] = p
  <2>1. CASE z = Guard
    BY <1>0, <1>9, <2>1
  <2>2. CASE z # Guard
    <3>1. z # t.child[s][r]
      BY <1>0, <1>3, <1>4, <1>5, <2>2
    <3> QED BY <1>0, <1>3, <1>9, <1>10, <3>1
  <2> QED BY <1>0, <2>1, <2>2
<1>12. u.color[z] = BLACK /\ z # u.root
  BY <1>0, <1>1, <1>3, <1>8, <1>9, <1>10
<1>13. ShortEdge(u, E, K, z, s)
  BY <1>0, <1>1, <1>8, <1>9, <1>11, <1>12 DEF ShortEdge
<1>14. u.color[u.child[o][p]] = BLACK
  <2>1. u.color[p] = RED
    BY <1>0, <1>1, <1>4, <1>8, <1>9
  <2> QED BY <1>0, <1>1, <1>2, <1>8, <1>9, <2>1 DEF Calm
<1>15. Repaired(t, D, H, z, s, p, s, r, v, u, E, K)
  BY <1>0, <1>8, <1>11, <1>13 DEF Repaired
<1> QED BY <1>0, <1>14, <1>15 DEF v, u, E, K, o

\* TurnNephew: the red child b of the sibling b0, on the side of z, rises above it.
NearIsRed(t, D, H, z, s, p, r, b) ==
  /\ Shape(t, D) /\ ShortEdge(t, D, H, z, s) /\ p = t.parent[z]
  /\ r = t.child[Other(s)][p] /\ t.color[r] = BLACK
  /\ b = t.child[s][r] /\ t.color[b] = RED /\ t.color[t.child[Other(s)][r]] = BLACK

\* The sibling's child on the far side is then red, the subtree still short.
LEMMA RedNephew ==
  ASSUME NEW t \in Tree, NEW D \in Subtrees, NEW H \in Heights,
         NEW z \in Node, NEW s \in Side, NEW p, NEW r, NEW b,
         NearIsRed(t, D, H, z, s, p, r, b)
  PROVE  LET v == Swapping(t, r, b)
             u == Rotate(v, r, Other(s))
             E == Turned(v, D, r, Other(s))
         IN /\ Repaired(t, D, H, z, s, r, Other(s), b, v, u, E, Exchanged(H, r, b))
            /\ u.child[Other(s)][p] = b /\ u.color[b] = BLACK
            /\ u.child[Other(s)][b] = r /\ u.color[r] = RED
<1> DEFINE o == Other(s)
           v == Swapping(t, r, b)
           u == Rotate(v, r, o)
           E == Turned(v, D, r, o)
           K == Exchanged(H, r, b)
<1>00. Shape(t, D) /\ ShortEdge(t, D, H, z, s)
  BY DEF NearIsRed
<1>0. /\ p = t.parent[z]
      /\ r = t.child[o][p] /\ t.color[r] = BLACK
      /\ b = t.child[s][r] /\ t.color[b] = RED /\ t.color[t.child[o][r]] = BLACK
  BY DEF NearIsRed
<1>1. /\ t.color[z] = BLACK /\ z # t.root /\ p \in D[t.root] /\ t.child[s][p] = z
      /\ Level(t, D, H, {<<p, s>>}) /\ Calm(t, D, {}) /\ RootBlack(t)
      /\ t.color[Guard] = BLACK
  BY <1>00, <1>0 DEF ShortEdge, Level
<1>2. o \in Side /\ o # s /\ Other(s) = o /\ Other(o) = s
  BY LiesFacts, KeysFacts
<1>3. r \in D[t.root] /\ r # z
  <2>1. /\ t.child[Other(s)][t.parent[z]] \in D[t.root]
        /\ t.child[Other(s)][t.parent[z]] # z
    BY <1>00, SiblingFacts
  <2> QED BY <1>0, <2>1
<1>4. \A m \in D[t.root], q \in Side :
         /\ m \in Node /\ m # Guard /\ t.child[q][m] \in Node /\ t.child[q][m] # m
         /\ t.child[q][m] # t.root
         /\ t.child[q][m] # Guard =>
              t.child[q][m] \in D[t.root] /\ t.parent[t.child[q][m]] = m
         /\ t.color[m] = RED => t.color[t.child[q][m]] = BLACK
  <2>1. \A m \in D[t.root], q \in Side :
          t.color[m] = RED => t.color[t.child[q][m]] = BLACK
    BY <1>1 DEF Calm
  <2> QED BY <1>00, <2>1, ChildFacts
<1> HIDE DEF o
<1>5. /\ b # Guard /\ b \in D[t.root] /\ b # r /\ b # z /\ r # p /\ r # t.root
      /\ t.color[t.child[o][b]] = BLACK /\ b # p
  <2>1. b # Guard /\ b \in D[t.root] /\ b # r /\ r # p /\ r # t.root
    BY <1>0, <1>1, <1>2, <1>3, <1>4, ColorFacts
  <2>2. b # z
    BY <1>0, <1>1, <2>1, ColorFacts
  <2>3. b # p
    <3>1. \A m \in D[t.root], q \in Side :
            /\ D[t.child[q][m]] \subseteq D[m] /\ m \notin D[t.child[q][m]]
            /\ m \in D[m]
      BY <1>00, ChildFacts
    <3>2. p \notin D[r] /\ D[b] \subseteq D[r] /\ b \in D[b]
      BY <1>0, <1>1, <1>2, <1>3, <2>1, <3>1
    <3> QED BY <3>2
  <2> QED BY <1>0, <1>2, <1>4, <2>1, <2>2, <2>3
<1>6. CanRise(t, D, H, {<<p, s>>}, {}, r, o, b)
  <2>1. \A q \in Side : <<r, q>> \notin {<<p, s>>} /\ <<b, q>> \notin {<<p, s>>}
    BY <1>0, <1>5
  <2> QED BY <1>00, <1>0, <1>1, <1>2, <1>3, <1>5, <2>1 DEF CanRise
<1>7. HasRisen(t, D, H, {<<p, s>>}, {}, r, o, b, v, u, E)
  BY <1>0, <1>2, <1>6, RiseColors
<1> HIDE DEF v, u, E
<1>8. /\ v.root = t.root /\ v.child = t.child /\ v.parent = t.parent
      /\ \A m \in Node : v.color[m] = IF m = r THEN RED ELSE IF m = b THEN BLACK
                                      ELSE t.color[m]
      /\ Risen(v, D, r, o, b, u, E) /\ K \in Heights
      /\ Level(u, E, K, {<<p, s>>}) /\ Calm(u, E, {}) /\ RootBlack(u)
  BY <1>0, <1>7 DEF HasRisen, Painted
<1> HIDE DEF K
<1>9. /\ u.child[o][b] = r
      /\ \A m \in D[t.root], q \in Side : m \notin {r, b} =>
           u.child[q][m] = IF t.child[q][m] = r THEN b ELSE t.child[q][m]
      /\ u.root = t.root
      /\ u.color = v.color /\ E[u.root] = D[t.root]
      /\ \A m \in Node : m \notin {r, b, t.child[o][b]} => u.parent[m] = t.parent[m]
      /\ u.parent[Guard] = t.parent[Guard]
  BY <1>2, <1>5, <1>8 DEF Risen, Moved
<1>10. u.child[s][p] = z /\ u.child[o][p] = b
  BY <1>0, <1>1, <1>2, <1>3, <1>5, <1>9
<1>11. u.parent[z] = p
  <2>1. CASE z = Guard
    BY <1>0, <1>9, <2>1
  <2>2. CASE z # Guard
    <3>1. t.child[o][b] # Guard => t.parent[t.child[o][b]] = b
      BY <1>2, <1>4, <1>5
    <3>2. z # t.child[o][b]
      BY <1>0, <1>5, <2>2, <3>1
    <3> QED BY <1>0, <1>3, <1>5, <1>9, <3>2
  <2> QED BY <2>1, <2>2
<1>12. u.color[z] = BLACK /\ u.color[b] = BLACK /\ u.color[r] = RED
  <2>1. b \in Node /\ r \in Node
    BY <1>0, <1>3, <1>4, <1>5
  <2>2. b # r /\ b # z /\ r # z
    BY <1>3, <1>5
  <2>3. v.color[z] = BLACK /\ v.color[b] = BLACK /\ v.color[r] = RED
    BY <1>1, <1>8, <2>1, <2>2
  <2> QED BY <1>9, <2>3
<1>13. ShortEdge(u, E, K, z, s)
  BY <1>0, <1>1, <1>8, <1>9, <1>10, <1>11, <1>12 DEF ShortEdge
<1>14. Repaired(t, D, H, z, s, r, o, b, v, u, E, K)
  BY <1>0, <1>8, <1>11, <1>13 DEF Repaired
<1> QED BY <1>9, <1>10, <1>12, <1>14 DEF v, u, E, K, o
\* RaiseSibling: the sibling r, whose child f on the far side is red, takes the
\* place and the colour of the parent p, and all paths are as long again.
FarIsRedAt(t, D, H, z, s, p, r, f) ==
  /\ Shape(t, D) /\ ShortEdge(t, D, H, z, s) /\ p = t.parent[z]
  /\ r = t.child[Other(s)][p] /\ t.color[r] = BLACK
  /\ f = t.child[Other(s)][r] /\ t.color[f] = RED

PaintThree(t, p, r, f) ==
  Paint(Paint(Paint(t, r, t.color[p]), p, BLACK), f, BLACK)

LastHeights(H, z, p, r, f) ==
  [m \in Node |-> IF m = f THEN H[f] + 1 ELSE IF m = p THEN H[z] + 1
                  ELSE IF m = r THEN H[p] ELSE H[m]]

\* After the last rotation no edge is short.
LEMMA LastColors ==
  ASSUME NEW t \in Tree, NEW D \in Subtrees, NEW H \in Heights,
         NEW z \in Node, NEW s \in Side, NEW p, NEW r, NEW f,
         FarIsRedAt(t, D, H, z, s, p, r, f)
  PROVE  LET v == PaintThree(t, p, r, f)
             u == Rotate(v, p, s)
             E == Turned(v, D, p, s)
         IN /\ Risen(v, D, p, s, r, u, E) /\ v.root = t.root /\ v.child = t.child
            /\ LastHeights(H, z, p, r, f) \in Heights
            /\ Colored(u, E, LastHeights(H, z, p, r, f))
<1> DEFINE o == Other(s)
           v1 == Paint(Paint(t, r, t.color[p]), p, BLACK)
           v == Paint(v1, f, BLACK)
           u == Rotate(v, p, s)
           E == Turned(v, D, p, s)
           near == t.child[s][r]
           K == LastHeights(H, z, p, r, f)
<1>1. Shape(t, D) /\ ShortEdge(t, D, H, z, s)
  BY DEF FarIsRedAt
<1>2. /\ p = t.parent[z] /\ r = t.child[o][p] /\ t.color[r] = BLACK
      /\ f = t.child[o][r] /\ t.color[f] = RED
  BY DEF FarIsRedAt
<1>3. /\ t.color[z] = BLACK /\ z # t.root /\ p \in D[t.root] /\ t.child[s][p] = z
      /\ Level(t, D, H, {<<p, s>>}) /\ Calm(t, D, {}) /\ RootBlack(t)
      /\ t.color[Guard] = BLACK /\ H[Guard] = 0
  BY <1>1, <1>2 DEF ShortEdge, Level
<1>4. /\ o \in Side /\ o # s /\ Other(s) = o /\ \A q \in Side : q = s \/ q = o
  BY LiesFacts, KeysFacts
<1> HIDE DEF o
<1>5. r \in D[t.root] /\ r # z /\ H[r] = H[z] + 1
  <2>1. /\ t.child[Other(s)][t.parent[z]] \in D[t.root]
        /\ t.child[Other(s)][t.parent[z]] # z
        /\ H[t.child[Other(s)][t.parent[z]]] = H[z] + 1
    BY <1>1, SiblingFacts
  <2>2. r = t.child[Other(s)][t.parent[z]]
    BY <1>2 DEF o
  <2> QED BY <2>1, <2>2
<1>6. \A m \in D[t.root], q \in Side :
         /\ m \in Node /\ m # Guard /\ t.child[q][m] \in Node /\ t.child[q][m] # m
         /\ t.child[q][m] # t.root
         /\ t.child[q][m] # Guard =>
              /\ t.child[q][m] \in D[t.root] /\ t.parent[t.child[q][m]] = m
              /\ t.child[q][m] # t.child[Other(q)][m]
         /\ t.color[m] = RED => t.color[t.child[q][m]] = BLACK
         /\ H[t.child[q][m]] \in Nat /\ H[m] \in Nat /\ Black(t, m) \in Nat
         /\ H[m] = H[t.child[q][m]] + Black(t, m) + (IF m = p /\ q = s THEN 1 ELSE 0)
  <2>1. \A m \in D[t.root], q \in Side :
          /\ t.color[m] = RED => t.color[t.child[q][m]] = BLACK
          /\ Black(t, m) \in Nat
    BY <1>3 DEF Calm, Black
  <2>2. \A m \in D[t.root], q \in Side :
          H[m] = H[t.child[q][m]] + Black(t, m)
                 + (IF <<m, q>> \in {<<p, s>>} THEN 1 ELSE 0)
    BY <1>3 DEF Level
  <2>3. \A m \in D[t.root], q \in Side : H[t.child[q][m]] \in Nat /\ H[m] \in Nat
    BY <1>1, HeightFacts
  <2>4. \A m \in D[t.root], q \in Side :
         /\ m \in Node /\ m # Guard /\ t.child[q][m] \in Node /\ t.child[q][m] # m
         /\ t.child[q][m] # t.root
         /\ t.child[q][m] # Guard =>
              /\ t.child[q][m] \in D[t.root] /\ t.parent[t.child[q][m]] = m
              /\ t.child[q][m] # t.child[Other(q)][m]
    BY <1>1, ChildFacts
  <2> QED BY <2>1, <2>2, <2>3, <2>4
<1>7. \A m \in D[t.root], q \in Side :
         D[t.child[q][m]] \subseteq D[m] /\ m \notin D[t.child[q][m]] /\ m \in D[m]
  BY <1>1, ChildFacts
<1>8. /\ f \in D[t.root] /\ f # Guard /\ f # r /\ t.parent[f] = r
      /\ r # p /\ r # t.root /\ t.parent[r] = p /\ r # Guard /\ f # t.root
  <2>1. /\ r # p /\ r # t.root /\ (r # Guard => t.parent[r] = p)
    <3>1. /\ t.child[o][p] # p /\ t.child[o][p] # t.root
          /\ t.child[o][p] # Guard => t.parent[t.child[o][p]] = p
      BY <1>3, <1>4, <1>6
    <3>2. r = t.child[o][p]
      BY <1>2
    <3> QED BY <3>1, <3>2
  <2>2. r # Guard
    BY <1>5, <1>6
  <2>3. f # Guard
    BY <1>2, <1>3, ColorFacts
  <2>4. f # r /\ f # t.root /\ (f # Guard => f \in D[t.root] /\ t.parent[f] = r)
    <3>1. /\ t.child[o][r] # r /\ t.child[o][r] # t.root
          /\ t.child[o][r] # Guard =>
               t.child[o][r] \in D[t.root] /\ t.parent[t.child[o][r]] = r
      BY <1>4, <1>5, <1>6
    <3>2. f = t.child[o][r]
      BY <1>2
    <3> QED BY <3>1, <3>2
  <2> QED BY <2>1, <2>2, <2>3, <2>4
<1>9. p \notin D[r] /\ p \notin D[f] /\ r \notin D[f] /\ D[f] \subseteq D[r] /\ f \in D[f]
      /\ f # p
  BY <1>2, <1>3, <1>4, <1>5, <1>7, <1>8
<1> HIDE DEF near
<1>10. near \in Node /\ near # p /\ near # r /\ near # f /\ p \in Node /\ r \in Node
       /\ f \in Node
  <2>1. near \in Node /\ near # r /\ near # f
    <3>1. t.child[s][r] # Guard => t.child[s][r] # t.child[o][r]
      BY <1>4, <1>5, <1>6
    <3> QED BY <1>2, <1>5, <1>6, <1>8, <3>1 DEF near
  <2>2. near # Guard => near \in D[r]
    BY <1>5, <1>6, <1>7 DEF near
  <2>3. p # Guard /\ p \in Node /\ r \in Node /\ f \in Node
    BY <1>3, <1>5, <1>6, <1>8
  <2> QED BY <1>9, <2>1, <2>2, <2>3
<1>11. z # p /\ z # f /\ z # r
  BY <1>3, <1>2, <1>5, <1>6, ColorFacts
<1>12. /\ H[p] = H[z] + Black(t, p) + 1 /\ H[r] = H[near] + 1 /\ H[r] = H[f] + 1
       /\ H[z] \in Nat /\ H[f] \in Nat /\ H[near] \in Nat
  <2>1. H[p] = H[z] + Black(t, p) + 1 /\ H[z] \in Nat
    BY <1>3, <1>6
  <2>2. Black(t, r) = 1
    BY <1>2 DEF Black
  <2>3. H[r] = H[near] + Black(t, r) + 0 /\ H[near] \in Nat
    BY <1>5, <1>6, <1>8 DEF near
  <2>4. H[r] = H[f] + Black(t, r) + 0 /\ H[f] \in Nat
    <3>1. /\ H[t.child[o][r]] \in Nat
          /\ H[r] = H[t.child[o][r]] + Black(t, r)
                     + (IF r = p /\ o = s THEN 1 ELSE 0)
      BY <1>4, <1>5, <1>6
    <3>2. f = t.child[o][r] /\ r # p
      BY <1>2, <1>8
    <3> QED BY <3>1, <3>2
  <2> QED BY <2>1, <2>2, <2>3, <2>4
<1>13. H[near] = H[z] /\ H[f] = H[z]
  BY <1>5, <1>12
<1>14. t.color[p] \in Color
  BY <1>10, TreeTypes
<1>15. /\ v1 \in Tree /\ v1.root = t.root /\ v1.child = t.child /\ v1.parent = t.parent
       /\ \A m \in Node : v1.color[m] = IF m = p THEN BLACK ELSE IF m = r THEN t.color[p]
                                        ELSE t.color[m]
       /\ Shape(v1, D)
  <2>1. Painted(t, D, r, t.color[p], p, BLACK, v1)
    BY <1>1, <1>10, <1>14, PaintTwo, ColorFacts
  <2> QED BY <2>1 DEF Painted
<1> HIDE DEF v1
<1>16. /\ v \in Tree /\ v.root = t.root /\ v.child = t.child /\ v.parent = t.parent
       /\ \A m \in Node : v.color[m] = IF m = p \/ m = f THEN BLACK
                                       ELSE IF m = r THEN t.color[p] ELSE t.color[m]
       /\ Shape(v, D)
  <2>1. LET V == Paint(v1, f, BLACK)
        IN /\ V \in Tree /\ V.root = v1.root /\ V.child = v1.child /\ V.parent = v1.parent
           /\ \A m \in Node : V.color[m] = IF m = f THEN BLACK ELSE v1.color[m]
           /\ Shape(V, D)
    BY <1>10, <1>15, PaintFields, PaintShape, ColorFacts
  <2> QED BY <1>15, <2>1
<1> HIDE DEF v
<1>17. Risen(v, D, p, s, r, u, E)
  <2>1. p \in D[v.root] /\ r = v.child[Other(s)][p]
    BY <1>2, <1>3, <1>4, <1>16
  <2> QED BY <1>8, <1>16, <2>1, RotateRises
<1> HIDE DEF u, E
<1>18. /\ u.child[s][p] = z /\ u.child[o][p] = near /\ u.child[s][r] = p
       /\ u.child[o][r] = f
       /\ \A m \in D[t.root], q \in Side :
           m \notin {p, r} =>
             /\ t.child[q][m] # r
             /\ u.child[q][m] = IF t.child[q][m] = p THEN r ELSE t.child[q][m]
       /\ u.root = IF p = t.root THEN r ELSE t.root
       /\ u.color = v.color /\ E[u.root] = D[t.root]
  <2>1. /\ u.child[s][p] = v.child[s][p] /\ u.child[o][p] = v.child[s][r]
        /\ u.child[s][r] = p /\ u.child[o][r] = v.child[o][r]
        /\ \A m \in D[v.root], q \in Side :
             m \notin {p, r} =>
               /\ v.child[q][m] # r
               /\ u.child[q][m] = IF v.child[q][m] = p THEN r ELSE v.child[q][m]
        /\ u.root = IF p = v.root THEN r ELSE v.root
        /\ u.color = v.color /\ E[u.root] = D[v.root]
    BY <1>4, <1>17 DEF Risen, Moved
  <2>2. /\ u.child[s][p] = z /\ u.child[o][p] = near /\ u.child[o][r] = f
    BY <1>2, <1>3, <1>16, <2>1 DEF near
  <2>3. /\ \A m \in D[t.root], q \in Side :
           m \notin {p, r} =>
             /\ t.child[q][m] # r
             /\ u.child[q][m] = IF t.child[q][m] = p THEN r ELSE t.child[q][m]
        /\ u.root = IF p = t.root THEN r ELSE t.root
        /\ E[u.root] = D[t.root]
    BY <1>16, <2>1
  <2> QED BY <2>1, <2>2, <2>3
<1>19. /\ \A m \in Node : m \notin {p, r, f} => Black(u, m) = Black(t, m)
       /\ Black(u, p) = 1 /\ Black(u, f) = 1 /\ Black(u, r) = Black(t, p)
       /\ Black(t, f) = 0
  <2>1. \A m \in Node : u.color[m] = IF m = p \/ m = f THEN BLACK
                                     ELSE IF m = r THEN t.color[p] ELSE t.color[m]
    BY <1>16, <1>18
  <2>2. t.color[f] # BLACK
    BY <1>2, ColorFacts
  <2>3. /\ u.color[p] = BLACK /\ u.color[f] = BLACK /\ u.color[r] = t.color[p]
        /\ \A m \in Node : m \notin {p, r, f} => u.color[m] = t.color[m]
    BY <1>8, <1>10, <2>1
  <2> QED BY <2>2, <2>3 DEF Black
<1>20. /\ K \in Heights /\ K[f] = H[f] + 1 /\ K[p] = H[z] + 1 /\ K[r] = H[p]
       /\ \A m \in Node : m \notin {p, r, f} => K[m] = H[m]
  BY <1>6, <1>3, <1>8, <1>9, <1>10, <1>12 DEF LastHeights, Heights
<1> HIDE DEF K
<1>21. ASSUME NEW m \in D[t.root], NEW q \in Side
       PROVE  K[m] = K[u.child[q][m]] + Black(u, m)
  <2>1. CASE m = p /\ q = s
    BY <1>11, <1>18, <1>19, <1>20, <2>1
  <2>2. CASE m = p /\ q = o
    BY <1>10, <1>13, <1>18, <1>19, <1>20, <2>2
  <2>3. CASE m = r /\ q = s
    <3>1. Black(t, p) \in Nat
      BY DEF Black
    <3> QED BY <1>12, <1>18, <1>19, <1>20, <2>3, <3>1
  <2>4. CASE m = r /\ q = o
    <3>1. Black(t, p) \in Nat
      BY DEF Black
    <3> QED BY <1>12, <1>13, <1>18, <1>19, <1>20, <2>4, <3>1
  <2>5. CASE m = f
    <3>1. u.child[q][m] = t.child[q][m] /\ t.child[q][m] \notin {p, r, f}
      <4>1. t.child[q][m] # Guard => t.child[q][m] \in D[f]
        BY <1>6, <1>7, <1>8, <2>5
      <4>2. t.child[q][m] \notin {p, r, f}
        BY <1>3, <1>5, <1>6, <1>8, <1>9, <2>5, <4>1
      <4> QED BY <1>8, <1>9, <1>18, <2>5, <4>2
    <3>2. K[u.child[q][m]] = H[t.child[q][m]]
      BY <1>6, <1>20, <3>1
    <3>3. H[f] = H[t.child[q][m]] + 0 + 0 /\ H[t.child[q][m]] \in Nat
      BY <1>6, <1>8, <1>9, <1>19, <2>5
    <3> QED BY <1>19, <1>20, <2>5, <3>2, <3>3
  <2>6. CASE m \notin {p, r, f}
    <3>1. t.child[q][m] # f
      BY <1>6, <1>8, <2>6
    <3>2. K[u.child[q][m]] = H[t.child[q][m]]
      BY <1>6, <1>18, <1>20, <2>6, <3>1
    <3>3. H[m] = H[t.child[q][m]] + Black(t, m) + 0
      BY <1>6, <2>6
    <3> QED BY <1>6, <1>19, <1>20, <2>6, <3>2, <3>3
  <2> QED BY <1>4, <2>1, <2>2, <2>3, <2>4, <2>5, <2>6
<1>22. Level(u, E, K, {})
  <2>1. Guard \in Node /\ p # Guard
    BY <1>3, <1>6, KeysFacts
  <2>2. K[Guard] = 0 /\ u.color[Guard] = BLACK
    BY <1>3, <1>8, <1>16, <1>18, <1>20, <2>1
  <2>3. E \in Subtrees /\ Shape(u, E) /\ u \in Tree
    BY <1>17 DEF Risen
  <2> QED BY <1>18, <1>20, <1>21, <2>2, <2>3, EvenLevel
<1>23. ASSUME NEW m \in D[t.root], NEW q \in Side, u.color[m] = RED
       PROVE  u.color[u.child[q][m]] = BLACK
  <2>1. m \notin {p, f}
    BY <1>10, <1>16, <1>18, <1>23, ColorFacts
  <2>2. CASE m = r
    BY <1>4, <1>10, <1>16, <1>18, <2>2
  <2>3. CASE m \notin {p, r, f}
    <3>1. t.color[m] = RED /\ m \in Node
      BY <1>6, <1>16, <1>18, <1>23, <2>3
    <3>2. t.color[t.child[q][m]] = BLACK /\ t.child[q][m] \in Node
      BY <1>6, <3>1
    <3>3. CASE t.child[q][m] = p
      BY <1>8, <1>9, <1>10, <1>16, <1>18, <2>3, <3>2, <3>3
    <3>4. CASE t.child[q][m] # p
      BY <1>16, <1>18, <2>3, <3>2, <3>4
    <3> QED BY <3>3, <3>4
  <2> QED BY <2>1, <2>2, <2>3
<1>24. Calm(u, E, {})
  BY <1>18, <1>23 DEF Calm
<1>25. RootBlack(u)
  <2>1. t.root \in Node /\ t.color[t.root] = BLACK
    BY <1>3, TreeTypes DEF RootBlack
  <2> QED BY <1>8, <1>10, <1>16, <1>18, <2>1 DEF RootBlack
<1>26. Colored(u, E, K)
  BY <1>22, <1>24, <1>25 DEF Colored
<1> QED BY <1>16, <1>17, <1>20, <1>26 DEF K, u, E, v, v1, o, PaintThree

\* Painting a black node black changes nothing.
LEMMA PaintAgain ==
  ASSUME NEW t \in Tree, NEW n \in Node, t.color[n] = BLACK
  PROVE  Paint(t, n, BLACK) = t
BY DEF Paint, Tree
-------------------------------------------------------------------------------
(* The invariant after each action.  S are the keys that the tree holds then. *)

Good(D, H) == D \in Subtrees /\ H \in Heights /\ Shape(tree, D) /\ PlaceInv(D, H)

Outcome(S) ==
  \E E \in Subtrees, K \in Heights :
    Shape(tree', E) /\ PlaceInv(E, K)' /\ E[tree'.root] = S

\* The types of the variables, one by one.
LEMMA TypeFacts ==
  ASSUME TypeOK
  PROVE  /\ tree \in Tree /\ arg \in Node /\ x \in Node /\ y \in Node /\ w \in Node
         /\ side \in Side /\ tree.root \in Node
BY TreeTypes DEF TypeOK

\* The empty tree satisfies the invariant.
LEMMA InitGood ==
  ASSUME Init
  PROVE  \E D \in Subtrees, H \in Heights : Shape(tree, D) /\ PlaceInv(D, H)
<1> DEFINE D == [n \in Node |-> {}]
           H == [n \in Node |-> 0]
<1>1. D \in Subtrees /\ H \in Heights
  BY DEF Subtrees, Heights
<1>2. Guard \in Node
  BY KeysFacts
<1>3. tree.root = Guard /\ tree.color[Guard] = BLACK /\ D[tree.root] = {} /\ pc = "idle"
      /\ D[Guard] = {} /\ H[Guard] = 0
  BY <1>2 DEF Init, EmptyTree
<1>4. Shape(tree, D)
  BY <1>3 DEF Shape
<1>5. Colored(tree, D, H)
  BY <1>3 DEF Colored, Level, Calm, RootBlack
<1> QED BY <1>1, <1>3, <1>4, <1>5 DEF PlaceInv

\* Call starts a search at the root.
LEMMA CallGood ==
  ASSUME TypeOK, NEW D, NEW H, Good(D, H), NEW o \in {"insert", "find", "delete"},
         NEW k \in Keys, Call(o, k)
  PROVE  Outcome(D[tree.root])
<1>1. /\ D \in Subtrees /\ H \in Heights /\ Shape(tree, D) /\ Colored(tree, D, H)
      /\ tree' = tree /\ pc' = "descend" /\ op' = o /\ arg' = k
      /\ x' = tree.root /\ y' = Guard
  BY DEF Good, PlaceInv, Call
<1>2. DescendInv(D)'
  BY <1>1 DEF DescendInv
<1>3. PlaceInv(D, H)'
  BY <1>1, <1>2 DEF PlaceInv
<1> QED BY <1>1, <1>3 DEF Outcome

\* While the search goes on, x is a node of the tree.
LEMMA SearchedInTree ==
  ASSUME TypeOK, NEW D, NEW H, Good(D, H), pc = "descend", x # Guard
  PROVE  x \in D[tree.root]
<1>1. tree \in Tree /\ D \in Subtrees /\ Shape(tree, D) /\ DescendInv(D)
  BY TypeFacts DEF Good, PlaceInv
<1>2. CASE y = Guard
  BY <1>1, <1>2 DEF DescendInv, Shape
<1>3. CASE y # Guard
  <2>1. y \in D[tree.root] /\ x = tree.child[Direction][y] /\ Direction \in Side
    BY <1>1, <1>3 DEF DescendInv, Direction, Side
  <2> HIDE DEF Direction
  <2> QED BY <1>1, <2>1, ChildFacts
<1> QED BY <1>2, <1>3

\* Descend stays on the path to arg.
LEMMA DescendGood ==
  ASSUME TypeOK, NEW D, NEW H, Good(D, H), Descend
  PROVE  Outcome(D[tree.root])
<1> DEFINE s == IF arg < x THEN "left" ELSE "right"
<1>1. /\ D \in Subtrees /\ H \in Heights /\ Shape(tree, D) /\ Colored(tree, D, H)
      /\ DescendInv(D) /\ op # "none" /\ arg \in Keys
      /\ pc = "descend" /\ x # Guard /\ x # arg
      /\ tree' = tree /\ pc' = "descend" /\ op' = op /\ arg' = arg
      /\ x' = tree.child[s][x] /\ y' = x
  BY DEF Good, PlaceInv, Descend
<1>2. tree \in Tree /\ x \in Node /\ arg \in Node /\ x \in Nat /\ arg \in Nat
      /\ y \in Node /\ y \in Nat
  BY TypeFacts, KeysFacts
<1>3. x \in D[tree.root] /\ s \in Side
  BY <1>1, SearchedInTree DEF Side
<1>4. Lies(s, arg, x) /\ Direction' = s
  BY <1>1, <1>2 DEF Lies, Direction
<1>5. arg \in D[tree.root] => arg \in D[tree.child[s][x]]
  <2> HAVE arg \in D[tree.root]
  <2>1. arg \in D[x]
    BY <1>1 DEF DescendInv
  <2>2. OrderedAt(tree, D, x)
    BY <1>1, <1>3 DEF Shape
  <2>3. PICK q \in Side : arg \in D[tree.child[q][x]]
    BY <1>1, <1>2, <2>1, <2>2 DEF OrderedAt
  <2>4. Lies(q, arg, x)
    BY <2>2, <2>3 DEF OrderedAt
  <2>5. q = s
    <3>1. q = s \/ q = Other(s)
      BY <1>2, <1>3, LiesFacts
    <3>2. ~Lies(Other(s), arg, x)
      BY <1>2, <1>3, <1>4, LiesFacts
    <3> QED BY <2>4, <3>1, <3>2
  <2> QED BY <2>3, <2>5
<1> HIDE DEF s
<1>6. ASSUME NEW m \in D[tree.root], NEW q \in Side, x \in D[tree.child[q][m]]
      PROVE  Lies(q, arg, m)
  <2> DEFINE c == tree.child[q][m]
  <2>1. /\ c \in Node /\ m \notin D[c] /\ D[c] \subseteq D[m] /\ D[m] \subseteq D[tree.root]
        /\ (c # Guard => c \in D[tree.root] /\ tree.parent[c] = m)
        /\ D[c] \cap D[tree.child[Other(q)][m]] = {}
    BY <1>1, <1>2, ChildSubtree
  <2>2. c # Guard
    BY <1>1, <1>6 DEF Shape
  <2>3. x \in D[c]
    BY <1>6
  <2> HIDE DEF c
  <2>4. CASE y = Guard
    <3>1. x = tree.root
      BY <1>1, <2>4 DEF DescendInv
    <3>2. D[tree.root] \subseteq D[c]
      BY <1>1, <1>2, <2>1, <2>2, <2>3, <3>1, SubtreeInside
    <3> QED BY <2>1, <3>2
  <2>5. CASE y # Guard
    <3>1. /\ y \in D[tree.root] /\ y # arg /\ x = tree.child[Direction][y]
          /\ \A j \in D[tree.root], h \in Side :
               y \in D[tree.child[h][j]] => Lies(h, arg, j)
      BY <1>1, <2>5 DEF DescendInv
    <3>2. Direction \in Side /\ Lies(Direction, arg, y)
      BY <1>2, <3>1 DEF Direction, Side, Lies
    <3>3. tree.parent[x] = y
      <4> HIDE DEF Direction
      <4> QED BY <1>1, <1>2, <3>1, <3>2, ChildFacts
    <3>4. CASE m = y
      <4>1. q = Direction
        <5>1. q = Direction \/ q = Other(Direction)
          BY <1>2, <3>2, LiesFacts
        <5>2. x \in D[x]
          BY <1>1, <1>2, <1>3, ChildFacts
        <5>3. D[tree.child[Direction][y]] \cap D[tree.child[Other(Direction)][y]] = {}
          <6> HIDE DEF Direction
          <6> QED BY <1>1, <1>2, <3>1, <3>2, ChildSubtree
        <5> QED BY <2>3, <3>1, <3>4, <5>1, <5>2, <5>3 DEF c
      <4> QED BY <3>2, <3>4, <4>1
    <3>5. CASE m # y
      <4>1. x # c
        BY <2>1, <2>2, <3>3, <3>5
      <4>2. y \in D[c]
        BY <1>1, <1>2, <2>1, <2>2, <2>3, <3>3, <4>1, Nested
      <4> QED BY <3>1, <4>2 DEF c
    <3> QED BY <3>4, <3>5
  <2> QED BY <2>4, <2>5
<1>7. DescendInv(D)'
  BY <1>1, <1>2, <1>3, <1>4, <1>5, <1>6 DEF DescendInv
<1>8. PlaceInv(D, H)'
  BY <1>1, <1>7 DEF PlaceInv
<1> QED BY <1>1, <1>8 DEF Outcome

\* Hit and Miss leave the tree alone.
LEMMA AnswerGood ==
  ASSUME TypeOK, NEW D, NEW H, Good(D, H), Hit \/ Miss
  PROVE  Outcome(D[tree.root])
<1>1. /\ D \in Subtrees /\ H \in Heights /\ Shape(tree, D) /\ Colored(tree, D, H)
      /\ tree' = tree /\ pc' = "idle"
  BY DEF Good, PlaceInv, Hit, Miss, Return
<1>2. PlaceInv(D, H)'
  BY <1>1 DEF PlaceInv
<1> QED BY <1>1, <1>2 DEF Outcome

\* Link adds arg, which may have a red parent.
LEMMA LinkGood ==
  ASSUME TypeOK, NEW D, NEW H, Good(D, H), Link
  PROVE  Outcome(D[tree.root] \cup {arg}) /\ arg \notin D[tree.root]
<1> DEFINE u == Grown(tree, arg, y)
<1>1. /\ D \in Subtrees /\ H \in Heights /\ Shape(tree, D) /\ Colored(tree, D, H)
      /\ DescendInv(D) /\ arg \in Keys /\ x = Guard /\ pc' = "restore" /\ x' = arg
  BY DEF Good, PlaceInv, Link
<1>2. tree' = u
  BY DEF Link, Grown
<1>3. tree \in Tree /\ y \in Node
  BY TypeFacts
<1>4. arg \notin D[tree.root]
  BY <1>1 DEF DescendInv, Shape
<1>5. Place(tree, D, arg, y)
  BY <1>1 DEF Place, DescendInv, Direction
<1>6. PICK E \in Subtrees, K \in Heights :
        /\ Shape(u, E) /\ E[u.root] = D[tree.root] \cup {arg}
        /\ HasGrown(tree, D, H, arg, y, u, E, K)
  <2>1. LET E == Added(tree, D, arg, y)
        IN E \in Subtrees /\ Shape(u, E) /\ E[u.root] = D[tree.root] \cup {arg}
    BY <1>1, <1>3, <1>4, <1>5, GrownShape
  <2>2. HasGrown(tree, D, H, arg, y, u, Added(tree, D, arg, y), [H EXCEPT ![arg] = 0])
    BY <1>1, <1>3, <1>4, <1>5, GrownColors
  <2>3. [H EXCEPT ![arg] = 0] \in Heights
    BY <2>2 DEF HasGrown
  <2> QED BY <2>1, <2>2, <2>3
<1> HIDE DEF u
<1>7. RestoreInv(E, K)'
  BY <1>1, <1>2, <1>6 DEF RestoreInv, HasGrown
<1>8. PlaceInv(E, K)'
  BY <1>1, <1>7 DEF PlaceInv
<1> QED BY <1>2, <1>4, <1>6, <1>8 DEF Outcome

\* Recolor moves the red node two levels up.
LEMMA RecolorGood ==
  ASSUME TypeOK, NEW D, NEW H, Good(D, H), Recolor
  PROVE  Outcome(D[tree.root])
<1> DEFINE u == Paint(Paint(Paint(tree, Parent, BLACK), Uncle, BLACK), Grandparent, RED)
<1>1. /\ D \in Subtrees /\ H \in Heights /\ Shape(tree, D) /\ RestoreInv(D, H)
      /\ tree.color[Parent] = RED /\ tree.color[Uncle] = RED
      /\ tree' = u /\ x' = Grandparent /\ pc' = "restore"
  BY DEF Good, PlaceInv, Recolor, ParentIsRed
<1>2. tree \in Tree
  BY TypeFacts
<1>3. RedRed(tree, D, H, x)
  BY <1>1 DEF RestoreInv, RedRed, Parent
<1>4. /\ u \in Tree /\ Shape(u, D) /\ u.root = tree.root
      /\ Grandparent \in D[u.root] /\ u.color[Grandparent] = RED
      /\ Grandparent = u.root \/ RootBlack(u)
      /\ \E K \in Heights : Level(u, D, K, {}) /\ Calm(u, D, {Grandparent})
  BY <1>1, <1>2, <1>3, RecolorColors DEF Parent, Grandparent, Uncle
<1>5. PICK K \in Heights : Level(u, D, K, {}) /\ Calm(u, D, {Grandparent})
  BY <1>4
<1> HIDE DEF u
<1>6. RestoreInv(D, K)'
  BY <1>1, <1>4, <1>5 DEF RestoreInv
<1>7. PlaceInv(D, K)'
  BY <1>1, <1>6 DEF PlaceInv
<1> QED BY <1>1, <1>4, <1>7 DEF Outcome

\* TurnOutwards makes x a child on the same side as its parent.
LEMMA TurnOutwardsGood ==
  ASSUME TypeOK, NEW D, NEW H, Good(D, H), TurnOutwards
  PROVE  Outcome(D[tree.root])
<1> DEFINE s == SideOf(tree, Parent)
           g == Grandparent
           u == Rotate(tree, Parent, s)
<1>1. /\ D \in Subtrees /\ H \in Heights /\ Shape(tree, D) /\ RestoreInv(D, H)
      /\ tree.color[Parent] = RED /\ tree.color[Uncle] = BLACK
      /\ side' = s /\ pc' = "outer"
      /\ IF x = tree.child[Other(s)][Parent] THEN tree' = u /\ x' = Parent
         ELSE tree' = tree /\ x' = x
  BY DEF Good, PlaceInv, TurnOutwards, ParentIsRed
<1>2. tree \in Tree
  BY TypeFacts
<1>3. /\ RedRed(tree, D, H, x) /\ x \in D[tree.root] /\ tree.color[x] = RED
      /\ Level(tree, D, H, {}) /\ Calm(tree, D, {x})
  BY <1>1 DEF RestoreInv, RedRed, Parent
<1>4. /\ x # tree.root /\ RootBlack(tree) /\ Parent # tree.root
      /\ Parent \in D[tree.root] /\ g \in D[tree.root] /\ tree.color[g] = BLACK
      /\ Parent # x /\ g # Parent /\ g # x
      /\ s \in Side /\ tree.child[s][g] = Parent /\ tree.child[Other(s)][g] # Parent
      /\ SideOf(tree, x) \in Side /\ tree.child[SideOf(tree, x)][Parent] = x
      /\ tree.color[tree.child[Other(s)][g]] = BLACK
  BY <1>1, <1>2, <1>3, RedParent DEF Parent, Grandparent, Uncle
<1>5. Other(s) \in Side /\ Other(s) # s /\ \A q \in Side : q = s \/ q = Other(s)
  BY <1>4, LiesFacts, KeysFacts
<1> HIDE DEF s, g
<1>6. CASE x # tree.child[Other(s)][Parent]
  <2>1. tree.child[s][Parent] = x
    BY <1>4, <1>5, <1>6
  <2>2. OuterInv(D, H)'
    <3>1. tree' = tree /\ x' = x /\ side' = s
      BY <1>1, <1>6
    <3>2. Parent' = Parent /\ Grandparent' = g
      BY <3>1 DEF Parent, Grandparent, g
    <3> QED BY <1>1, <1>3, <1>4, <2>1, <3>1, <3>2 DEF OuterInv
  <2>3. PlaceInv(D, H)' /\ tree' = tree
    BY <1>1, <1>6, <2>2 DEF PlaceInv
  <2> QED BY <1>1, <2>3 DEF Outcome
<1>7. CASE x = tree.child[Other(s)][Parent]
  <2>1. x # Guard /\ x \in Node /\ Parent \in Node
    BY <1>1, <1>2, <1>3, <1>4, HeightFacts
  <2>2. PICK E \in Subtrees : /\ Risen(tree, D, Parent, s, x, u, E)
                              /\ Level(u, E, H, {}) /\ Calm(u, E, {Parent})
                              /\ RootBlack(u)
    <3> DEFINE F == Turned(tree, D, Parent, s)
    <3>1. Risen(tree, D, Parent, s, x, u, F)
      BY <1>1, <1>2, <1>4, <1>7, <2>1, RotateRises
    <3>2. Level(u, F, H, {}) /\ Calm(u, F, {Parent}) /\ RootBlack(u)
      BY <1>1, <1>2, <1>3, <1>4, <1>7, TurnColors DEF Parent
    <3> QED BY <3>1, <3>2 DEF Risen
  <2> HIDE DEF u
  <2>3. /\ Shape(u, E) /\ E[u.root] = D[tree.root] /\ u \in Tree
        /\ u.child[s][x] = Parent /\ u.color = tree.color
        /\ \A m \in D[tree.root], q \in Side :
             m \notin {Parent, x} =>
               u.child[q][m] = IF tree.child[q][m] = Parent THEN x ELSE tree.child[q][m]
        /\ u.root = tree.root /\ u.parent[Parent] = x /\ u.parent[x] = tree.parent[Parent]
    BY <1>4, <2>2 DEF Risen, Moved
  <2>4. /\ tree' = u /\ x' = Parent /\ Parent' = x /\ Grandparent' = g /\ side' = s
    BY <1>1, <1>7, <2>3 DEF Parent, Grandparent, g
  <2>5. u.child[s][g] = x /\ u.child[Other(s)][g] = tree.child[Other(s)][g]
    BY <1>4, <1>5, <2>3
  <2>6. OuterInv(E, H)'
    BY <1>1, <1>3, <1>4, <2>2, <2>3, <2>4, <2>5 DEF OuterInv
  <2>7. PlaceInv(E, H)'
    BY <1>1, <2>6 DEF PlaceInv
  <2> QED BY <1>1, <2>3, <2>4, <2>7 DEF Outcome
<1> QED BY <1>6, <1>7

\* RaiseParent ends the repair of an insertion.
LEMMA RaiseParentGood ==
  ASSUME TypeOK, NEW D, NEW H, Good(D, H), RaiseParent
  PROVE  Outcome(D[tree.root])
<1> DEFINE v == Paint(Paint(tree, Parent, BLACK), Grandparent, RED)
           u == Rotate(v, Grandparent, Other(side))
<1>1. /\ D \in Subtrees /\ H \in Heights /\ Shape(tree, D) /\ OuterInv(D, H)
      /\ tree' = u /\ x' = x /\ pc' = "restore"
  BY DEF Good, PlaceInv, RaiseParent
<1>2. tree \in Tree /\ side \in Side
  BY TypeFacts
<1>3. CanRaise(tree, D, H, x, side, Parent, Grandparent)
  BY <1>1 DEF OuterInv, CanRaise, RedRed, Parent, Grandparent
<1>4. PICK E : HasRaised(tree, D, x, u, E)
  BY <1>1, <1>2, <1>3, RaiseColors DEF Swapping
<1> HIDE DEF u
<1>5. PICK K \in Heights : Level(u, E, K, {})
  BY <1>4 DEF HasRaised
<1>6. x \in D[tree.root]
  BY <1>1 DEF OuterInv
<1>7. RestoreInv(E, K)'
  BY <1>1, <1>4, <1>5, <1>6 DEF RestoreInv, HasRaised
<1>8. PlaceInv(E, K)'
  BY <1>1, <1>7 DEF PlaceInv
<1> QED BY <1>1, <1>4, <1>8 DEF Outcome, HasRaised

\* RestoreEnds leaves a red-black tree.
LEMMA RestoreEndsGood ==
  ASSUME TypeOK, NEW D, NEW H, Good(D, H), RestoreEnds
  PROVE  Outcome(D[tree.root])
<1> DEFINE u == Paint(tree, tree.root, BLACK)
<1>1. /\ D \in Subtrees /\ H \in Heights /\ Shape(tree, D) /\ RestoreInv(D, H)
      /\ tree.color[Parent] = BLACK /\ tree' = u /\ pc' = "idle"
  BY DEF Good, PlaceInv, RestoreEnds, Return
<1>2. tree \in Tree
  BY TypeFacts
<1>3. /\ u \in Tree /\ Shape(u, D) /\ u.root = tree.root
      /\ \E K \in Heights : Colored(u, D, K)
  BY <1>1, <1>2, EndColors DEF RestoreInv, Parent
<1>4. PICK K \in Heights : Colored(u, D, K)
  BY <1>3
<1> HIDE DEF u
<1>5. PlaceInv(D, K)'
  BY <1>1, <1>4 DEF PlaceInv
<1> QED BY <1>1, <1>3, <1>5 DEF Outcome
\* What a deletion leaves to the steps after it.
LEMMA DeletedGood ==
  ASSUME NEW E, NEW v, Unlinked(v), op = "delete", arg \in Keys \ E[v.tree.root],
         (\E s \in Side : v.tree.child[s][arg] \in E[v.tree.root])
           \/ (\A s \in Side : v.tree.child[s][arg] = Guard)
  PROVE  DeletedInv(E)'
<1>1. /\ tree' = v.tree /\ op' = op /\ arg' = arg
      /\ answer' = [op |-> op, key |-> arg, found |-> TRUE]
  BY DEF Unlinked, Decide, call
<1> QED BY <1>1 DEF DeletedInv, Doomed, Childless

\* Take removes arg, which has a child at most.
LEMMA TakeGood ==
  ASSUME TypeOK, NEW D, NEW H, Good(D, H), Take
  PROVE  Outcome(D[tree.root] \ {arg}) /\ arg \in D[tree.root]
<1> DEFINE o == IF tree.child["left"][arg] = Guard THEN "right" ELSE "left"
           c == tree.child[o][arg]
           u == Transplant(tree, arg, c)
           F == Without(D, arg)
<1>1. /\ D \in Subtrees /\ H \in Heights /\ Shape(tree, D) /\ Colored(tree, D, H)
      /\ arg \in Keys /\ op = "delete" /\ x = arg /\ pc = "descend"
      /\ Unlinked(UnlinkTop(tree, arg)) /\ ~TwoChildren(arg)
  BY DEF Good, PlaceInv, Take
<1>2. tree \in Tree /\ arg # Guard /\ arg \in Node
  BY <1>1, TypeFacts, KeysFacts
<1>3. arg \in D[tree.root]
  BY <1>1, <1>2, SearchedInTree
<1>4. o \in Side /\ Other(o) \in Side /\ tree.child[Other(o)][arg] = Guard
      /\ \A q \in Side : q = o \/ q = Other(o)
  BY <1>1 DEF TwoChildren, Side, Other
<1>5. /\ tree' = u /\ x' = c
      /\ pc' = IF tree.color[arg] = BLACK THEN "mend" ELSE "free"
      /\ UnlinkTop(tree, arg).tree = u
  BY <1>1 DEF Unlinked, UnlinkTop
<1>6. tree.color[arg] = BLACK \/ tree.color[arg] = RED
  BY <1>2, TreeTypes, ColorFacts
<1> HIDE DEF o
<1>7. PICK E \in Subtrees :
        /\ E = F /\ Shape(u, E) /\ E[u.root] = D[tree.root] \ {arg}
        /\ Transplanted(tree, arg, c, u)
        /\ \A q \in Side : u.child[q][arg] = tree.child[q][arg]
  BY <1>1, <1>2, <1>3, <1>4, TransplantShape
<1>8. CASE c # Guard
  <2>1. tree.color[arg] = BLACK /\ tree.color[c] = RED
    BY <1>1, <1>2, <1>3, <1>4, <1>8, OnlyChild
  <2>2. c \in D[tree.root] /\ c # arg
    BY <1>1, <1>2, <1>3, <1>4, <1>8, ChildFacts
  <2>3. u.color = tree.color /\ u.child[o][arg] = c
    BY <1>4, <1>7 DEF Transplanted
  <2> HIDE DEF u, F, c
  <2>4. DeletedInv(E)'
    BY <1>1, <1>3, <1>4, <1>5, <1>7, <2>2, <2>3, DeletedGood
  <2>5. tree'.color[x'] = RED /\ Doomed(E)' /\ pc' = "mend"
    <3>1. arg' = arg
      BY <1>1 DEF Unlinked, call
    <3> QED BY <1>4, <1>5, <1>7, <2>1, <2>2, <2>3, <3>1 DEF Doomed
  <2>6. PlaceInv(E, H)'
    BY <2>4, <2>5 DEF PlaceInv, MendInv
  <2> QED BY <1>1, <1>3, <1>5, <1>7, <2>6 DEF Outcome
<1>9. CASE c = Guard
  <2>1. \A q \in Side : tree.child[q][arg] = Guard
    BY <1>4, <1>9
  <2>2. HasGone(tree, D, H, arg, u)
    BY <1>1, <1>2, <1>3, <1>9, <2>1, GoneColors
  <2> HIDE DEF u, F, c
  <2>3. \A q \in Side : u.child[q][arg] = Guard
    BY <1>7, <2>1
  <2>4. DeletedInv(E)'
    BY <1>1, <1>5, <1>7, <2>3, DeletedGood
  <2>5. x' = Guard /\ tree.color[Guard] = BLACK
    BY <1>1, <1>5, <1>9 DEF Colored, Level
  <2>6. CASE tree.color[arg] = BLACK /\ arg # tree.root
    <3> DEFINE p == tree.parent[arg]
               s == SideOf(tree, arg)
    <3>1. /\ Level(u, E, H, {<<p, s>>}) /\ Calm(u, E, {}) /\ RootBlack(u)
          /\ u.root = tree.root /\ u.parent[Guard] = p /\ p \in E[u.root]
          /\ u.child[s][p] = Guard /\ u.color = tree.color
      BY <1>7, <2>2, <2>6 DEF HasGone, Edge, F
    <3>2. s \in Side /\ tree.root # Guard
      BY <1>1, <1>2, <1>3, SideOfFacts, ParentFacts
    <3> HIDE DEF p, s
    <3>3. ShortEdge(u, E, H, Guard, s)
      BY <2>5, <3>1, <3>2 DEF ShortEdge
    <3>4. MendInv(E, H)'
      BY <1>5, <2>5, <3>2, <3>3 DEF MendInv, ShortAt
    <3>5. PlaceInv(E, H)'
      BY <1>5, <2>4, <2>6, <3>4 DEF PlaceInv
    <3> QED BY <1>1, <1>3, <1>5, <1>7, <3>5 DEF Outcome
  <2>7. CASE tree.color[arg] = RED \/ arg = tree.root
    <3>1. Edge(tree, arg) = {}
      BY <2>7, ColorFacts DEF Edge
    <3>2. Colored(u, E, H) /\ (arg = tree.root => u.root = Guard)
      BY <1>7, <2>2, <3>1 DEF HasGone, Colored, F
    <3>3. CASE tree.color[arg] = BLACK
      <4>1. pc' = "mend" /\ tree' = u /\ x' = u.root
        BY <1>5, <2>5, <2>7, <3>2, <3>3, ColorFacts
      <4>2. PlaceInv(E, H)'
        BY <2>4, <3>2, <4>1 DEF PlaceInv, MendInv
      <4> QED BY <1>1, <1>3, <1>5, <1>7, <4>2 DEF Outcome
    <3>4. CASE tree.color[arg] = RED
      <4>1. pc' = "free" /\ tree' = u
        BY <1>5, <3>4, ColorFacts
      <4>2. PlaceInv(E, H)'
        BY <2>4, <3>2, <4>1 DEF PlaceInv, FreeInv
      <4> QED BY <1>1, <1>3, <1>5, <1>7, <4>2 DEF Outcome
    <3> QED BY <1>6, <3>3, <3>4
  <2> QED BY <1>6, <2>6, <2>7
<1> QED BY <1>3, <1>8, <1>9

\* SeekLeast starts from the child on the right.
LEMMA SeekLeastGood ==
  ASSUME TypeOK, NEW D, NEW H, Good(D, H), SeekLeast
  PROVE  Outcome(D[tree.root])
<1> DEFINE right == "right"
           r == tree.child[right][arg]
<1>1. /\ D \in Subtrees /\ H \in Heights /\ Shape(tree, D) /\ Colored(tree, D, H)
      /\ arg \in Keys /\ op = "delete" /\ x = arg /\ pc = "descend"
      /\ TwoChildren(arg) /\ tree' = tree /\ arg' = arg /\ op' = op
      /\ pc' = "least" /\ x' = r
  BY DEF Good, PlaceInv, SeekLeast, call
<1>2. tree \in Tree /\ arg # Guard /\ arg \in Node /\ right \in Side /\ "left" \in Side
  BY <1>1, TypeFacts, KeysFacts DEF Side
<1>3. arg \in D[tree.root]
  BY <1>1, <1>2, SearchedInTree
<1>4. tree.child["left"][arg] # Guard /\ r # Guard
  BY <1>1, <1>2 DEF TwoChildren
<1> HIDE DEF right
<1>5. r \in D[r]
  BY <1>1, <1>2, <1>3, <1>4, ChildFacts
<1>6. LeastInv(D)'
  BY <1>1, <1>3, <1>4, <1>5 DEF LeastInv, right
<1>7. PlaceInv(D, H)'
  BY <1>1, <1>6 DEF PlaceInv
<1> QED BY <1>1, <1>7 DEF Outcome

\* GoLeft comes closer to the least key on the right.
LEMMA GoLeftGood ==
  ASSUME TypeOK, NEW D, NEW H, Good(D, H), GoLeft
  PROVE  Outcome(D[tree.root])
<1> DEFINE r == tree.child["right"][arg]
           left == "left"
           c == tree.child[left][x]
<1>1. /\ D \in Subtrees /\ H \in Heights /\ Shape(tree, D) /\ Colored(tree, D, H)
      /\ op = "delete" /\ arg \in D[tree.root] /\ tree.child["left"][arg] # Guard
      /\ x \in D[r] /\ \A m \in D[r] \ D[x] : x < m
      /\ c # Guard /\ x' = c /\ tree' = tree /\ arg' = arg /\ op' = op /\ pc' = "least"
  BY DEF Good, PlaceInv, GoLeft, call, LeastInv
<1>2. /\ tree \in Tree /\ x \in Node /\ "right" \in Side /\ left \in Side
      /\ \A q \in Side : q = "left" \/ q = "right"
  BY TypeFacts DEF Side
<1>3. r \in D[tree.root] /\ D[r] \in SUBSET Keys
  <2> DEFINE right == "right"
  <2>1. right \in Side /\ r = tree.child[right][arg]
    BY <1>2
  <2> HIDE DEF right, r
  <2>2. r \in Node /\ (r # Guard => r \in D[tree.root])
    BY <1>1, <1>2, <2>1, ChildFacts
  <2> QED BY <1>1, <2>2 DEF Shape, Subtrees
<1> HIDE DEF r, left
<1>4. c \in D[r] /\ x \in D[tree.root]
  BY <1>1, <1>2, <1>3, Nested
<1>5. ASSUME NEW m \in D[r], m \notin D[c]
      PROVE  c < m
  <2>1. OrderedAt(tree, D, x)
    BY <1>1, <1>4 DEF Shape
  <2>2. c \in D[c]
    BY <1>1, <1>2, <1>4, ChildFacts
  <2>3. c < x
    BY <1>2, <2>1, <2>2 DEF OrderedAt, Lies, left
  <2>4. c \in Nat /\ x \in Nat /\ m \in Nat /\ m \in Node
    BY <1>1, <1>2, <1>3, <1>4, KeysFacts
  <2>5. CASE m \notin D[x]
    BY <1>1, <1>5, <2>3, <2>4, <2>5
  <2>6. CASE m \in D[x]
    <3>1. m = x \/ m \in D[tree.child["right"][x]]
      BY <1>2, <1>5, <2>1, <2>4, <2>6 DEF OrderedAt, left
    <3>2. m \in D[tree.child["right"][x]] => x < m
      BY <1>2, <2>1 DEF OrderedAt, Lies
    <3> QED BY <2>3, <2>4, <3>1, <3>2
  <2> QED BY <2>5, <2>6
<1>6. LeastInv(D)'
  BY <1>1, <1>4, <1>5 DEF LeastInv, r
<1>7. PlaceInv(D, H)'
  BY <1>1, <1>6 DEF PlaceInv
<1> QED BY <1>1, <1>7 DEF Outcome

\* TakeLeast puts the least key on the right in the place of arg.
LEMMA TakeLeastGood ==
  ASSUME TypeOK, NEW D, NEW H, Good(D, H), TakeLeast
  PROVE  Outcome(D[tree.root] \ {arg}) /\ arg \in D[tree.root]
<1> DEFINE right == "right"
           r == tree.child["right"][arg]
           below == tree.child["right"][x]
           T == Transplant(tree, x, below)
           u == UnlinkLeast(tree, arg, x).tree
           F == Swap(Without(D, x), arg, x)
           pm == tree.parent[x]
           q0 == IF pm = arg THEN x ELSE pm
           s == SideOf(tree, x)
<1>1. /\ D \in Subtrees /\ H \in Heights /\ Shape(tree, D) /\ Colored(tree, D, H)
      /\ op = "delete" /\ arg \in D[tree.root] /\ tree.child["left"][arg] # Guard
      /\ x \in D[r] /\ (\A m \in D[r] \ D[x] : x < m)
      /\ tree.child["left"][x] = Guard /\ Unlinked(UnlinkLeast(tree, arg, x))
  BY DEF Good, PlaceInv, TakeLeast, LeastInv
<1>2. /\ tree \in Tree /\ x \in Node /\ "right" \in Side /\ "left" \in Side /\ arg \in Node
      /\ (\A q \in Side : q = "left" \/ q = "right") /\ Other("right") = "left"
  BY TypeFacts DEF Side, Other
<1>3. r # Guard /\ \A q \in Side : tree.child[q][arg] # Guard
  BY <1>1, <1>2 DEF Shape
<1>4. /\ tree' = u /\ x' = below /\ arg' = arg
      /\ pc' = IF tree.color[x] = BLACK THEN "mend" ELSE "free"
  BY <1>1 DEF Unlinked, UnlinkLeast, call
<1>5. PICK E \in Subtrees :
        /\ E = F /\ Shape(u, E) /\ E[u.root] = D[tree.root] \ {arg}
        /\ u.child["right"][arg] \in E[u.root]
  BY <1>1, <1>2, <1>3, LeastShape
<1>6. /\ Swapped(T, Without(D, x), arg, x, u)
      /\ u.parent[below] = q0
      /\ \A j \in Node : u.color[j] = IF j = x THEN tree.color[arg] ELSE tree.color[j]
  BY <1>1, <1>2, <1>3, LeastFields
<1>7. r \in D[tree.root] /\ arg \notin D[r] /\ D[r] \subseteq D[tree.root] /\ r # tree.root
      /\ tree.root \notin D[r]
  <2>1. right \in Side /\ r = tree.child[right][arg]
    BY <1>2
  <2> HIDE DEF right, r
  <2>2. r \in D[tree.root] /\ arg \notin D[r] /\ D[r] \subseteq D[tree.root] /\ r # tree.root
    BY <1>1, <1>2, <1>3, <2>1, ChildFacts
  <2>3. tree.root \notin D[r]
    <3>1. tree.root \in D[r] => D[tree.root] \subseteq D[r]
      BY <1>1, <1>2, <2>2, SubtreeInside
    <3> QED BY <1>1, <2>2, <3>1
  <2> QED BY <2>2, <2>3
<1>8. /\ x \in D[tree.root] /\ x # arg /\ x # tree.root /\ x \in Keys /\ x # Guard
      /\ below \in Node /\ below # x /\ arg \in Keys /\ Guard \in Node
  <2> HIDE DEF r
  <2>1. x \in D[tree.root] /\ x # arg /\ x # tree.root
    BY <1>1, <1>7
  <2>2. x \in Keys /\ arg \in Keys /\ x # Guard /\ Guard \in Node
    BY <1>1, <1>2, <2>1, ParentFacts, KeysFacts
  <2>3. right \in Side /\ below = tree.child[right][x]
    BY <1>2
  <2> HIDE DEF right, below
  <2> QED BY <1>1, <1>2, <2>1, <2>2, <2>3, ChildFacts
<1> HIDE DEF u, F
<1>9. DeletedInv(E)' /\ Doomed(E)'
  <2>1. UnlinkLeast(tree, arg, x).tree = u
    BY DEF u
  <2>2. DeletedInv(E)'
    BY <1>1, <1>2, <1>5, <1>8, <2>1, DeletedGood
  <2> QED BY <1>2, <1>4, <1>5, <2>2 DEF Doomed
<1>10. CASE tree.color[x] # BLACK
  <2>1. PlaceInv(E, H)'
    BY <1>4, <1>9, <1>10 DEF PlaceInv, FreeInv
  <2> QED BY <1>1, <1>4, <1>5, <2>1 DEF Outcome
<1>11. CASE tree.color[x] = BLACK /\ below # Guard
  <2>1. tree.color[below] = RED
    <3>1. right \in Side /\ tree.child[Other(right)][x] = Guard
          /\ below = tree.child[right][x]
      BY <1>1, <1>2
    <3> HIDE DEF right, below, r
    <3> QED BY <1>1, <1>2, <1>8, <1>11, <3>1, OnlyChild
  <2>2. u.color[below] = RED
    BY <1>6, <1>8, <2>1
  <2>3. PlaceInv(E, H)'
    BY <1>4, <1>9, <1>11, <2>2 DEF PlaceInv, MendInv
  <2> QED BY <1>1, <1>4, <1>5, <2>3 DEF Outcome
<1>12. CASE tree.color[x] = BLACK /\ below = Guard
  <2> DEFINE D1 == Without(D, x)
             K == [H EXCEPT ![x] = H[arg]]
  <2>1. \A q \in Side : tree.child[q][x] = Guard
    BY <1>1, <1>2, <1>12
  <2>2. HasGone(tree, D, H, x, T)
    BY <1>1, <1>2, <1>8, <1>12, <2>1, GoneColors
  <2>3. /\ D1 \in Subtrees /\ Shape(T, D1) /\ D1[T.root] = D[tree.root] \ {x}
        /\ T \in Tree
    <3>1. right \in Side /\ tree.child[Other(right)][x] = Guard
          /\ T = Transplant(tree, x, tree.child[right][x])
      BY <1>1, <1>2
    <3> HIDE DEF right, T, D1, r, below
    <3>2. LET U == Transplant(tree, x, tree.child[right][x])
              G == Without(D, x)
          IN /\ Transplanted(tree, x, tree.child[right][x], U)
             /\ G \in Subtrees /\ Shape(U, G) /\ G[U.root] = D[tree.root] \ {x}
      BY <1>1, <1>2, <1>8, <3>1, TransplantShape
    <3> QED BY <3>1, <3>2 DEF D1, Transplanted
  <2>4. s \in Side
    BY <1>2, SideOfFacts
  <2> HIDE DEF T, s, r
  <2>5. /\ Level(T, D1, H, {<<pm, s>>}) /\ Calm(T, D1, {}) /\ RootBlack(T)
        /\ pm \in D[tree.root] \ {x} /\ T.child[s][pm] = Guard /\ T.color = tree.color
    BY <1>8, <1>12, <2>2 DEF HasGone, Edge, s
  <2>6. MaySwap(T, D1, H, arg, x, u, pm, s)
    BY <1>1, <1>6, <1>8, <2>3, <2>5 DEF MaySwap
  <2>7. E[u.root] = (D1[T.root] \ {arg}) \cup {x}
    BY <1>5, <1>8, <2>3
  <2>8. HasSwapped(H, arg, x, u, pm, s, E)
    <3> HIDE DEF D1
    <3> QED BY <1>1, <2>3, <2>4, <2>6, <2>7, SwapColors
  <2>9. K \in Heights /\ Level(u, E, K, {<<q0, s>>}) /\ Calm(u, E, {}) /\ RootBlack(u)
    BY <2>8 DEF HasSwapped
  <2>10. u.child[s][q0] = Guard /\ q0 \in E[u.root]
    <3>1. /\ \A q \in Side : u.child[q][x] = T.child[q][arg]
          /\ \A j \in D1[T.root], q \in Side : j # arg =>
               u.child[q][j] = IF T.child[q][j] = arg THEN x ELSE T.child[q][j]
      BY <1>6 DEF Swapped
    <3>2. CASE pm = arg
      BY <1>5, <1>8, <2>4, <2>5, <3>1, <3>2
    <3>3. CASE pm # arg
      <4>1. pm \in D1[T.root] /\ arg # Guard
        BY <1>8, <2>3, <2>5, KeysFacts
      <4> QED BY <1>5, <2>4, <2>5, <3>1, <3>3, <4>1
    <3> QED BY <3>2, <3>3
  <2>11. u.color[Guard] = BLACK /\ Guard # u.root
    <3>1. tree.color[Guard] = BLACK
      BY <1>1 DEF Colored, Level
    <3>2. E[Guard] = {}
      BY <1>5 DEF Shape
    <3> QED BY <1>5, <1>6, <1>8, <3>1, <3>2
  <2>12. ShortEdge(u, E, K, Guard, s)
    BY <1>6, <1>12, <2>9, <2>10, <2>11 DEF ShortEdge
  <2>13. PICK K2 \in Heights, s2 \in Side : ShortEdge(u, E, K2, Guard, s2)
    BY <2>4, <2>9, <2>12
  <2>14. MendInv(E, K2)'
    BY <1>4, <1>12, <2>13 DEF MendInv, ShortAt
  <2>15. PlaceInv(E, K2)'
    BY <1>4, <1>9, <1>12, <2>14 DEF PlaceInv
  <2> QED BY <1>1, <1>4, <1>5, <2>15 DEF Outcome
<1> QED BY <1>1, <1>10, <1>11, <1>12
\* A repair does not touch the deleted node.
LEMMA DeletedStays ==
  ASSUME NEW D, NEW E, DeletedInv(D), UNCHANGED <<call, answer>>,
         E[tree'.root] = D[tree.root],
         \A q \in Side : tree'.child[q][arg] = tree.child[q][arg]
  PROVE  DeletedInv(E)' /\ (Doomed(D) => Doomed(E)')
<1>1. op' = op /\ arg' = arg /\ answer' = answer
  BY DEF call
<1> QED BY <1>1 DEF DeletedInv, Doomed, Childless

\* A rotation keeps the keys, and the links of what is not in the tree.
LEMMA RisenStays ==
  ASSUME NEW t, NEW u, NEW D, NEW E, NEW n, NEW s, NEW up, NEW v, NEW k \in Keys,
         Risen(v, D, n, s, up, u, E), v.root = t.root, v.child = t.child,
         k \notin D[t.root]
  PROVE  /\ E[u.root] = D[t.root]
         /\ \A q \in Side : u.child[q][k] = t.child[q][k]
<1>1. E[u.root] = D[v.root] /\ \A m \in Keys \ D[v.root], q \in Side :
                                      u.child[q][m] = v.child[q][m]
  BY DEF Risen, Moved
<1> QED BY <1>1

\* FindSibling leaves a black sibling.
LEMMA FindSiblingGood ==
  ASSUME TypeOK, NEW D, NEW H, Good(D, H), FindSibling
  PROVE  Outcome(D[tree.root])
<1> DEFINE p == Parent
<1>1. /\ D \in Subtrees /\ H \in Heights /\ Shape(tree, D) /\ DeletedInv(D)
      /\ MendInv(D, H) /\ x # tree.root /\ tree.color[x] = BLACK
      /\ side' = SideOf(tree, x) /\ pc' = "nephews" /\ x' = x /\ UNCHANGED <<call, answer>>
      /\ arg \in Keys /\ arg \notin D[tree.root]
  BY DEF Good, PlaceInv, FindSibling, DeletedInv
<1>2. tree \in Tree /\ x \in Node
  BY TypeFacts
<1>3. PICK s \in Side : ShortEdge(tree, D, H, x, s)
  BY <1>1, ColorFacts DEF MendInv, ShortAt
<1> DEFINE r == tree.child[Other(s)][p]
           v == Swapping(tree, p, r)
           u == Rotate(v, p, s)
<1>4. side' = s /\ r \in D[tree.root] /\ r # Guard /\ p = tree.parent[x]
  <2>1. /\ tree.child[Other(s)][tree.parent[x]] \in D[tree.root] /\ SideOf(tree, x) = s
    BY <1>1, <1>2, <1>3, SiblingFacts
  <2> QED BY <1>1, <1>2, <2>1, HeightFacts DEF Parent
<1>5. /\ tree' = IF tree.color[r] = RED THEN u ELSE tree
      /\ w' = tree'.child[Other(s)][tree'.parent[x]]
  BY <1>4 DEF FindSibling, Swapping
<1> HIDE DEF p
<1>6. CASE tree.color[r] = RED
  <2> DEFINE E0 == Turned(v, D, p, s)
             K0 == Exchanged(H, p, r)
  <2>0. /\ Repaired(tree, D, H, x, s, p, s, r, v, u, E0, K0)
        /\ u.color[u.child[Other(s)][p]] = BLACK
    <3>1. SiblingIsRed(tree, D, H, x, s, p, r)
      BY <1>1, <1>3, <1>4, <1>6 DEF SiblingIsRed
    <3>2. tree \in Tree /\ D \in Subtrees /\ H \in Heights /\ x \in Node
      BY <1>1, <1>2
    <3> HIDE DEF r
    <3> QED BY <3>1, <3>2, RedSibling
  <2> HIDE DEF u, v, r, E0, K0
  <2>1. PICK E, K : /\ Repaired(tree, D, H, x, s, p, s, r, v, u, E, K)
                    /\ u.color[u.child[Other(s)][p]] = BLACK
    BY <2>0
  <2>2. /\ Risen(v, D, p, s, r, u, E) /\ v.root = tree.root /\ v.child = tree.child
        /\ K \in Heights /\ ShortEdge(u, E, K, x, s) /\ u.parent[x] = p
    BY <1>4, <2>1 DEF Repaired
  <2>3. E \in Subtrees /\ Shape(u, E) /\ u \in Tree
    BY <2>2 DEF Risen
  <2>4. tree' = u /\ w' = u.child[Other(s)][p]
    BY <1>5, <1>6, <2>2
  <2>5. E[u.root] = D[tree.root] /\ \A q \in Side : u.child[q][arg] = tree.child[q][arg]
    <3>1. /\ arg \in Keys /\ arg \notin D[tree.root]
          /\ Risen(v, D, p, s, r, u, E) /\ v.root = tree.root /\ v.child = tree.child
      BY <1>1, <2>2
    <3> QED BY <3>1, RisenStays
  <2>6. DeletedInv(E)'
    BY <1>1, <2>4, <2>5, DeletedStays
  <2>7. w' # Guard
    <3>1. u.child[Other(s)][u.parent[x]] \in E[u.root]
      BY <1>2, <2>2, <2>3, SiblingFacts
    <3> QED BY <2>2, <2>3, <2>4, <3>1, HeightFacts
  <2>8. SiblingInv(E, K)'
    BY <1>1, <1>4, <2>1, <2>2, <2>4, <2>7 DEF SiblingInv, ShortAt, Parent
  <2>9. PlaceInv(E, K)'
    BY <1>1, <2>6, <2>8 DEF PlaceInv
  <2> QED BY <2>2, <2>3, <2>4, <2>5, <2>9 DEF Outcome
<1>7. CASE tree.color[r] # RED
  <2>1. tree' = tree /\ w' = r
    BY <1>4, <1>5, <1>7
  <2>2. tree.color[r] = BLACK
    <3>1. r \in Node
      BY <1>1, <1>2, <1>4, HeightFacts
    <3> QED BY <1>2, <1>7, <3>1, TreeTypes, ColorFacts
  <2>3. DeletedInv(D)'
    BY <1>1, <2>1, DeletedStays
  <2>4. SiblingInv(D, H)'
    BY <1>1, <1>3, <1>4, <2>1, <2>2 DEF SiblingInv, ShortAt, Parent
  <2>5. PlaceInv(D, H)'
    BY <1>1, <2>3, <2>4 DEF PlaceInv
  <2> QED BY <1>1, <2>1, <2>5 DEF Outcome
<1> QED BY <1>6, <1>7

\* FarIsRed finds the sibling's far child red.
LEMMA FarIsRedGood ==
  ASSUME TypeOK, NEW D, NEW H, Good(D, H), FarIsRed
  PROVE  Outcome(D[tree.root])
<1>1. /\ D \in Subtrees /\ H \in Heights /\ Shape(tree, D) /\ DeletedInv(D)
      /\ SiblingInv(D, H) /\ tree.color[Far] # BLACK
      /\ pc' = "last" /\ UNCHANGED <<tree, call, answer, x, w, side>>
  BY DEF Good, PlaceInv, FarIsRed
<1>2. tree.color[Far] = RED
  <2>1. Far \in Node /\ tree \in Tree
    BY TypeFacts, TreeTypes, LiesFacts DEF Far
  <2> QED BY <1>1, <2>1, TreeTypes, ColorFacts
<1>3. DeletedInv(D)'
  BY <1>1, DeletedStays
<1>4. SiblingInv(D, H)' /\ tree'.color[Far'] = RED
  BY <1>1, <1>2 DEF SiblingInv, ShortAt, Parent, Far
<1>5. PlaceInv(D, H)'
  BY <1>1, <1>3, <1>4 DEF PlaceInv
<1> QED BY <1>1, <1>5 DEF Outcome

\* TurnNephew makes it red.
LEMMA TurnNephewGood ==
  ASSUME TypeOK, NEW D, NEW H, Good(D, H), TurnNephew
  PROVE  Outcome(D[tree.root])
<1> DEFINE s == side
           p == Parent
           v == Swapping(tree, w, Near)
           u == Rotate(v, w, Other(s))
<1>1. /\ D \in Subtrees /\ H \in Heights /\ Shape(tree, D) /\ DeletedInv(D)
      /\ SiblingInv(D, H) /\ tree.color[Far] = BLACK /\ ~BothBlack(tree, w)
      /\ tree' = u /\ w' = tree'.child[Other(s)][tree'.parent[x]]
      /\ pc' = "last" /\ UNCHANGED <<call, answer, x, side>>
      /\ arg \in Keys /\ arg \notin D[tree.root]
  BY DEF Good, PlaceInv, TurnNephew, Swapping, DeletedInv
<1>2. tree \in Tree /\ x \in Node /\ s \in Side /\ w \in Node
  BY TypeFacts
<1>3. /\ ShortEdge(tree, D, H, x, s) /\ w = tree.child[Other(s)][p]
      /\ tree.color[w] = BLACK /\ p = tree.parent[x]
  BY <1>1 DEF SiblingInv, ShortAt, Parent
<1>4. tree.color[Near] = RED
  <2>1. \A q \in Side : q = s \/ q = Other(s)
    BY <1>2, LiesFacts
  <2>2. tree.color[Near] # BLACK
    BY <1>1, <2>1 DEF BothBlack, Near, Far
  <2>3. Near \in Node
    BY <1>2, TreeTypes DEF Near
  <2> QED BY <1>2, <2>2, <2>3, TreeTypes, ColorFacts
<1>5. NearIsRed(tree, D, H, x, s, p, w, Near)
  BY <1>1, <1>3, <1>4 DEF NearIsRed, Near, Far
<1> HIDE DEF s, p
<1> DEFINE E0 == Turned(v, D, w, Other(s))
           K0 == Exchanged(H, w, Near)
<1>60. /\ Repaired(tree, D, H, x, s, w, Other(s), Near, v, u, E0, K0)
       /\ u.child[Other(s)][p] = Near /\ u.color[Near] = BLACK
       /\ u.child[Other(s)][Near] = w /\ u.color[w] = RED
  BY <1>1, <1>2, <1>5, RedNephew
<1> HIDE DEF u, v, E0, K0
<1>6. PICK E, K, b, o :
        /\ b = Near /\ o = Other(s)
        /\ Repaired(tree, D, H, x, s, w, o, b, v, u, E, K)
        /\ u.child[o][p] = b /\ u.color[b] = BLACK
        /\ u.child[o][b] = w /\ u.color[w] = RED
  BY <1>60
<1>7. /\ Risen(v, D, w, o, b, u, E) /\ v.root = tree.root /\ v.child = tree.child
      /\ K \in Heights /\ ShortEdge(u, E, K, x, s) /\ u.parent[x] = p
  BY <1>3, <1>6 DEF Repaired
<1>8. E \in Subtrees /\ Shape(u, E) /\ u \in Tree
  BY <1>7 DEF Risen
<1>9. w' = b /\ side' = s /\ x' = x
  BY <1>1, <1>6, <1>7 DEF s
<1>10. E[u.root] = D[tree.root] /\ \A q \in Side : u.child[q][arg] = tree.child[q][arg]
  BY <1>1, <1>7, RisenStays
<1>11. DeletedInv(E)'
  BY <1>1, <1>10, DeletedStays
<1>12. b # Guard
  <2>1. u.child[Other(s)][u.parent[x]] \in E[u.root]
    BY <1>2, <1>7, <1>8, SiblingFacts
  <2> QED BY <1>6, <1>7, <1>8, <2>1, HeightFacts
<1>13. SiblingInv(E, K)' /\ tree'.color[Far'] = RED
  <2>1. Parent' = p
    BY <1>1, <1>7 DEF Parent
  <2> QED BY <1>1, <1>6, <1>7, <1>9, <1>12, <2>1 DEF SiblingInv, ShortAt, Far
<1>14. PlaceInv(E, K)'
  BY <1>1, <1>11, <1>13 DEF PlaceInv
<1> QED BY <1>1, <1>7, <1>8, <1>10, <1>14 DEF Outcome

\* RaiseSibling makes up for the missing black node.
LEMMA RaiseSiblingGood ==
  ASSUME TypeOK, NEW D, NEW H, Good(D, H), RaiseSibling
  PROVE  Outcome(D[tree.root])
<1> DEFINE s == side
           p == Parent
           v == PaintThree(tree, p, w, Far)
           u == Rotate(v, p, s)
<1>1. /\ D \in Subtrees /\ H \in Heights /\ Shape(tree, D) /\ DeletedInv(D)
      /\ SiblingInv(D, H) /\ tree.color[Far] = RED
      /\ tree' = Paint(u, u.root, BLACK) /\ x' = u.root /\ pc' = "mend"
      /\ UNCHANGED <<call, answer>>
      /\ arg \in Keys /\ arg \notin D[tree.root]
  BY DEF Good, PlaceInv, RaiseSibling, PaintThree, DeletedInv
<1>2. tree \in Tree /\ x \in Node /\ s \in Side /\ w \in Node
  BY TypeFacts
<1>3. FarIsRedAt(tree, D, H, x, s, p, w, Far)
  BY <1>1 DEF SiblingInv, ShortAt, Parent, Far, FarIsRedAt
<1> HIDE DEF s, p
<1>4. PICK E, K : /\ Risen(v, D, p, s, w, u, E) /\ v.root = tree.root
                  /\ v.child = tree.child /\ K \in Heights /\ Colored(u, E, K)
  BY <1>1, <1>2, <1>3, LastColors
<1> HIDE DEF u, v
<1>5. E \in Subtrees /\ Shape(u, E) /\ u \in Tree
  BY <1>4 DEF Risen
<1>6. tree' = u
  BY <1>1, <1>4, <1>5, TreeTypes, PaintAgain DEF Colored, RootBlack
<1>7. E[u.root] = D[tree.root] /\ \A q \in Side : u.child[q][arg] = tree.child[q][arg]
  BY <1>1, <1>4, <1>6, RisenStays
<1>8. DeletedInv(E)'
  BY <1>1, <1>6, <1>7, DeletedStays
<1>9. MendInv(E, K)'
  BY <1>1, <1>4, <1>6 DEF MendInv
<1>10. PlaceInv(E, K)'
  BY <1>1, <1>8, <1>9 DEF PlaceInv
<1> QED BY <1>4, <1>5, <1>6, <1>7, <1>10 DEF Outcome

\* MendEnds leaves all paths level, or a node to be freed that has one below it.
LEMMA MendEndsGood ==
  ASSUME TypeOK, NEW D, NEW H, Good(D, H), MendEnds
  PROVE  Outcome(D[tree.root])
<1>1. /\ D \in Subtrees /\ H \in Heights /\ Shape(tree, D) /\ DeletedInv(D)
      /\ MendInv(D, H)
      /\ x = tree.root \/ tree.color[x] = RED
      /\ pc' = "free" /\ UNCHANGED <<tree, call, answer>>
  BY DEF Good, PlaceInv, MendEnds
<1>2. FreeInv(D, H)
  <2>1. Doomed(D) \/ Colored(tree, D, H) \/ \E s \in Side : ShortAt(D, H, s)
    BY <1>1 DEF MendInv
  <2>2. ~\E s \in Side : ShortAt(D, H, s)
    BY <1>1, ColorFacts DEF ShortAt, ShortEdge
  <2> QED BY <2>1, <2>2 DEF FreeInv
<1>3. DeletedInv(D)' /\ (Doomed(D) => Doomed(D)')
  BY <1>1, DeletedStays
<1>4. FreeInv(D, H)'
  BY <1>1, <1>2, <1>3 DEF FreeInv
<1>5. PlaceInv(D, H)'
  BY <1>1, <1>3, <1>4 DEF PlaceInv
<1> QED BY <1>1, <1>5 DEF Outcome

\* The deleted node is freed alone, or nodes of the tree with it.
LEMMA FreeGood ==
  ASSUME TypeOK, NEW D, NEW H, Good(D, H), Free
  PROVE  Outcome(D[tree.root]) \/ (pc' = "broken" /\ D[tree.root] # {} /\ tree' = tree)
<1> DEFINE t1 == [tree EXCEPT !.parent[arg] = Guard]
           u == Paint(t1, arg, BLACK)
<1>1. /\ D \in Subtrees /\ H \in Heights /\ Shape(tree, D) /\ DeletedInv(D)
      /\ FreeInv(D, H) /\ arg \in Keys /\ arg \notin D[tree.root]
  BY DEF Good, PlaceInv, Free, DeletedInv
<1>2. tree \in Tree /\ arg \in Node /\ arg # Guard /\ Guard \in Node
  BY <1>1, TypeFacts, KeysFacts
<1>3. CASE Below(tree, arg) = {arg}
  <2>1. pc' = "idle" /\ tree' = [tree EXCEPT !.parent[arg] = Guard, !.color[arg] = BLACK]
    BY <1>3 DEF Free, Return
  <2>2. \A s \in Side : tree.child[s][arg] \in {arg, Guard}
    BY <1>1, <1>2, <1>3, BelowAlone
  <2>3. ~Doomed(D)
    <3>1. Guard \notin D[tree.root]
      BY <1>1, <1>2, TreeTypes, KeysFacts DEF Subtrees
    <3> QED BY <1>1, <2>2, <3>1 DEF Doomed
  <2>4. Colored(tree, D, H)
    BY <1>1, <2>3 DEF FreeInv
  <2>5. tree' = u
    BY <2>1 DEF Paint
  <2>6. /\ t1 \in Tree /\ t1.root = tree.root /\ t1.child = tree.child
        /\ t1.color = tree.color
        /\ \A m \in Node : t1.parent[m] = IF m = arg THEN Guard ELSE tree.parent[m]
    BY <1>2, ParentFields
  <2> HIDE DEF t1
  <2>70. /\ Paint(t1, arg, BLACK) \in Tree /\ Paint(t1, arg, BLACK).root = t1.root
         /\ Paint(t1, arg, BLACK).child = t1.child /\ Paint(t1, arg, BLACK).parent = t1.parent
         /\ \A m \in Node : Paint(t1, arg, BLACK).color[m] = IF m = arg THEN BLACK ELSE t1.color[m]
    <3>1. t1 \in Tree /\ arg \in Node /\ BLACK \in Color
      BY <1>2, <2>6, ColorFacts
    <3> QED BY <3>1, PaintFields
  <2>7. /\ u \in Tree /\ u.root = tree.root /\ u.child = tree.child
        /\ \A m \in Node : /\ u.color[m] = IF m = arg THEN BLACK ELSE tree.color[m]
                           /\ u.parent[m] = IF m = arg THEN Guard ELSE tree.parent[m]
    BY <2>6, <2>70
  <2> HIDE DEF u
  <2>8. \A n \in D[tree.root], s \in Side :
          /\ n \in Node /\ n # arg /\ tree.child[s][n] \in Node
          /\ tree.child[s][n] # arg
    BY <1>1, <1>2, ChildFacts
  <2>9. Shape(u, D)
    <3>1. tree.root # Guard => tree.root \in D[tree.root] /\ tree.root # arg
                               /\ tree.root \in Node
      BY <1>1, <1>2, TreeTypes DEF Shape
    <3>2. ASSUME NEW n \in D[tree.root]
          PROVE  OrderedAt(u, D, n) /\ LinkedAt(u, D, n) /\ D[n] \subseteq D[u.root]
      <4>1. OrderedAt(tree, D, n) /\ LinkedAt(tree, D, n) /\ D[n] \subseteq D[tree.root]
        BY <1>1 DEF Shape
      <4>2. OrderedAt(u, D, n)
        BY <2>7, <4>1 DEF OrderedAt
      <4>3. LinkedAt(u, D, n)
        BY <2>7, <2>8, <4>1 DEF LinkedAt
      <4> QED BY <2>7, <4>1, <4>2, <4>3
    <3> QED BY <1>1, <2>7, <3>1, <3>2 DEF Shape
  <2>10. Colored(u, D, H)
    <3>0. \A n \in D[tree.root] : u.color[n] = tree.color[n]
      <4>1. \A n \in D[tree.root] : n \in Node /\ n # arg
        BY <2>8 DEF Side
      <4> QED BY <2>7, <4>1
    <3>1. \A n \in D[tree.root] : Black(u, n) = Black(tree, n)
      BY <3>0 DEF Black
    <3>2. u.color[Guard] = tree.color[Guard]
      BY <1>2, <2>7
    <3>3. Level(u, D, H, {})
      BY <2>4, <2>7, <3>1, <3>2 DEF Colored, Level
    <3>4. Calm(u, D, {})
      BY <2>4, <2>7, <2>8 DEF Colored, Calm
    <3>5. tree.root # arg /\ tree.root \in Node
      BY <1>1, <1>2, TreeTypes DEF Shape
    <3>6. RootBlack(u)
      BY <2>4, <2>7, <3>5 DEF Colored, RootBlack
    <3> QED BY <3>3, <3>4, <3>6 DEF Colored
  <2>11. PlaceInv(D, H)'
    BY <2>1, <2>5, <2>10 DEF PlaceInv
  <2> QED BY <1>1, <2>5, <2>7, <2>9, <2>11 DEF Outcome
<1>4. CASE Below(tree, arg) # {arg}
  <2>1. pc' = "broken" /\ tree' = tree
    BY <1>4 DEF Free
  <2>2. ~Childless
    BY <1>1, <1>2, <1>4, BelowAlone DEF Childless
  <2>3. D[tree.root] # {}
    BY <1>1, <2>2 DEF DeletedInv, Doomed
  <2> QED BY <2>1, <2>3
<1> QED BY <1>3, <1>4
-------------------------------------------------------------------------------
(* Every action leaves a tree, whatever the links are. *)

\* Paint() makes a tree.
LEMMA PaintTree ==
  ASSUME NEW t \in Tree, NEW n \in Node, NEW c \in Color
  PROVE  Paint(t, n, c) \in Tree
BY PaintFields

\* So does bst_insert().
LEMMA GrownTree ==
  ASSUME NEW t \in Tree, NEW k \in Node, NEW up \in Node
  PROVE  Grown(t, k, up) \in Tree
<1> DEFINE d == IF k < up THEN "left" ELSE "right"
           t1 == [t EXCEPT !.parent[k] = up]
           t2 == Paint(t1, k, RED)
           t3 == [t2 EXCEPT !.child["left"][k] = Guard]
           t4 == [t3 EXCEPT !.child["right"][k] = Guard]
<1>1. Guard \in Node /\ d \in Side /\ "left" \in Side /\ "right" \in Side /\ RED \in Color
  BY KeysFacts DEF Side, Color
<1>2. Grown(t, k, up) = IF up = Guard THEN [t4 EXCEPT !.root = k]
                        ELSE [t4 EXCEPT !.child[d][up] = k]
  BY DEF Grown, Paint
<1> HIDE DEF d
<1>3. t1 \in Tree
  BY ParentFields
<1> HIDE DEF t1
<1>4. t2 \in Tree
  BY <1>1, <1>3, PaintTree
<1> HIDE DEF t2
<1>5. t3 \in Tree
  BY <1>1, <1>4, ChildFields
<1> HIDE DEF t3
<1>6. t4 \in Tree
  BY <1>1, <1>5, ChildFields
<1> HIDE DEF t4
<1>7. [t4 EXCEPT !.root = k] \in Tree
  BY <1>6 DEF Tree
<1>8. [t4 EXCEPT !.child[d][up] = k] \in Tree
  BY <1>1, <1>6, ChildFields
<1> QED BY <1>2, <1>7, <1>8

\* So does rbt_transplant().
LEMMA TransplantTree ==
  ASSUME NEW t \in Tree, NEW n \in Node, NEW v \in Node
  PROVE  Transplant(t, n, v) \in Tree /\ Transplant(t, n, v).color = t.color
BY TransplantFields DEF Transplanted

\* So does rbt_delete() for a node with at most one child.
LEMMA UnlinkTopTree ==
  ASSUME NEW t \in Tree, NEW n \in Node
  PROVE  UnlinkTop(t, n).tree \in Tree /\ UnlinkTop(t, n).x \in Node
<1> DEFINE only == IF t.child["left"][n] = Guard THEN t.child["right"][n]
                   ELSE t.child["left"][n]
<1>1. only \in Node
  BY TreeTypes DEF Side
<1>2. UnlinkTop(t, n).tree = Transplant(t, n, only) /\ UnlinkTop(t, n).x = only
  BY DEF UnlinkTop
<1> HIDE DEF only
<1> QED BY <1>1, <1>2, TransplantTree

\* So does rbt_delete() for a node with two.
LEMMA UnlinkLeastTree ==
  ASSUME NEW t \in Tree, NEW n \in Node, NEW m \in Node
  PROVE  UnlinkLeast(t, n, m).tree \in Tree /\ UnlinkLeast(t, n, m).x \in Node
<1> DEFINE l == t.child["left"][n]
           r == t.child["right"][n]
           below == t.child["right"][m]
           a == [t EXCEPT !.parent[below] = m]
           b == Transplant(t, m, below)
           c == [b EXCEPT !.child["right"][m] = r]
           d == [c EXCEPT !.parent[r] = m]
           t1 == IF t.parent[m] = n THEN a ELSE d
<1>1. /\ "left" \in Side /\ "right" \in Side
      /\ l \in Node /\ r \in Node /\ below \in Node /\ t.color[n] \in Color
  <2>1. "left" \in Side /\ "right" \in Side
    BY DEF Side
  <2> QED BY <2>1, TreeTypes
<1>2. /\ UnlinkLeast(t, n, m).tree = Seat(t1, n, m, l, t.color[n])
      /\ UnlinkLeast(t, n, m).x = below
  BY DEF UnlinkLeast, Seat
<1> HIDE DEF l, r, below
<1>3. a \in Tree
  BY <1>1, ParentFields
<1>4. b \in Tree
  BY <1>1, TransplantTree
<1> HIDE DEF a, b
<1>5. c \in Tree
  BY <1>1, <1>4, ChildFields
<1> HIDE DEF c
<1>6. d \in Tree
  BY <1>1, <1>5, ParentFields
<1> HIDE DEF d
<1>7. t1 \in Tree
  BY <1>3, <1>6
<1> HIDE DEF t1
<1>8. Seat(t1, n, m, l, t.color[n]) \in Tree
  <2>1. Seated(t1, n, m, l, t.color[n], Seat(t1, n, m, l, t.color[n]))
    BY <1>1, <1>7, SeatFields
  <2> QED BY <2>1 DEF Seated
<1> QED BY <1>1, <1>2, <1>8

\* Where the parts of a step come from.
LEMMA NodeTypes ==
  ASSUME TypeOK
  PROVE  /\ Parent \in Node /\ Grandparent \in Node /\ Uncle \in Node
         /\ Near \in Node /\ Far \in Node
         /\ \A n \in Node : tree.color[n] \in Color
         /\ \A n \in Node, s \in Side : tree.child[s][n] \in Node /\ Other(s) \in Side
<1>1. tree \in Tree /\ x \in Node /\ w \in Node /\ side \in Side
  BY TypeFacts
<1>2. /\ \A n \in Node, s \in Side : tree.child[s][n] \in Node /\ Other(s) \in Side
      /\ \A n \in Node : tree.parent[n] \in Node /\ tree.color[n] \in Color
  BY <1>1, TreeTypes DEF Other, Side
<1>3. Parent \in Node /\ Grandparent \in Node
  BY <1>1, <1>2 DEF Parent, Grandparent
<1>4. Uncle \in Node
  BY <1>1, <1>2, <1>3, SideOfFacts DEF Uncle
<1> QED BY <1>1, <1>2, <1>3, <1>4 DEF Near, Far

\* The empty tree is a tree.
LEMMA InitTypes ==
  ASSUME Init
  PROVE  TypeOK
<1>1. Guard \in Node /\ BLACK \in Color /\ "left" \in Side
  BY KeysFacts, ColorFacts DEF Side
<1>2. EmptyTree \in Tree
  BY <1>1 DEF EmptyTree, Tree
<1> QED BY <1>1, <1>2 DEF Init, TypeOK

\* Every step keeps the types.
LEMMA TypeNext ==
  ASSUME TypeOK, [Next]_vars
  PROVE  TypeOK'
<1> DEFINE Rest == /\ pc' \in {"idle", "descend", "restore", "outer", "least", "mend",
                               "nephews", "last", "free", "broken"}
                   /\ op' \in {"none", "insert", "find", "delete"}
                   /\ arg' \in Node /\ x' \in Node /\ y' \in Node /\ w' \in Node
                   /\ side' \in Side /\ slipped' \in BOOLEAN
<1>0. /\ tree \in Tree /\ arg \in Node /\ x \in Node /\ y \in Node /\ w \in Node
      /\ side \in Side /\ tree.root \in Node /\ Guard \in Node
      /\ RED \in Color /\ BLACK \in Color /\ "left" \in Side /\ "right" \in Side
  BY TypeFacts, KeysFacts, ColorFacts DEF Side
<1>1. /\ Parent \in Node /\ Grandparent \in Node /\ Uncle \in Node
      /\ Near \in Node /\ Far \in Node
      /\ \A n \in Node : tree.color[n] \in Color
      /\ \A n \in Node, s \in Side : tree.child[s][n] \in Node /\ Other(s) \in Side
  BY NodeTypes
<1>2. SUFFICES tree' \in Tree /\ Rest
  BY DEF TypeOK
<1>3. CASE UNCHANGED vars
  BY <1>3 DEF vars, call, TypeOK
<1>4. ASSUME NEW k \in Keys, NEW o \in {"insert", "find", "delete"}, Call(o, k)
      PROVE  tree' \in Tree /\ Rest
  BY <1>0, <1>4, KeysFacts DEF Call, TypeOK
<1>5. CASE Descend
  BY <1>0, <1>1, <1>5 DEF Descend, TypeOK
<1>6. CASE Hit \/ Miss
  BY <1>0, <1>6 DEF Hit, Miss, Return, TypeOK
<1>7. CASE Link
  <2>1. tree' = Grown(tree, arg, y)
    BY <1>7 DEF Link, Grown
  <2>2. tree' \in Tree
    BY <1>0, <2>1, GrownTree
  <2> QED BY <1>0, <1>7, <2>2 DEF Link, TypeOK, call
<1>8. CASE Recolor
  <2> DEFINE a == Paint(tree, Parent, BLACK)
             b == Paint(a, Uncle, BLACK)
  <2>1. a \in Tree
    BY <1>0, <1>1, PaintTree
  <2>2. tree' = Paint(b, Grandparent, RED)
    BY <1>8 DEF Recolor
  <2> HIDE DEF a
  <2>3. b \in Tree
    BY <1>0, <1>1, <2>1, PaintTree
  <2> HIDE DEF b
  <2>4. tree' \in Tree
    BY <1>0, <1>1, <2>2, <2>3, PaintTree
  <2> QED BY <1>0, <1>1, <1>8, <2>4 DEF Recolor, TypeOK, call
<1>9. CASE TurnOutwards
  <2>1. /\ tree' = tree \/ tree' = Rotate(tree, Parent, side')
        /\ x' = x \/ x' = Parent
        /\ side' = SideOf(tree, Parent)
    BY <1>9 DEF TurnOutwards
  <2>2. side' \in Side
    BY <1>0, <2>1, SideOfFacts
  <2>3. tree' \in Tree
    BY <1>0, <1>1, <2>1, <2>2, RotateTree
  <2> QED BY <1>0, <1>1, <1>9, <2>1, <2>2, <2>3 DEF TurnOutwards, TypeOK, call
<1>10. CASE RaiseParent
  <2> DEFINE a == Paint(tree, Parent, BLACK)
             b == Paint(a, Grandparent, RED)
  <2>1. a \in Tree
    BY <1>0, <1>1, PaintTree
  <2>2. tree' = Rotate(b, Grandparent, Other(side))
    BY <1>10 DEF RaiseParent
  <2> HIDE DEF a
  <2>3. b \in Tree
    BY <1>0, <1>1, <2>1, PaintTree
  <2> HIDE DEF b
  <2>4. tree' \in Tree
    BY <1>0, <1>1, <2>2, <2>3, RotateTree
  <2> QED BY <1>0, <1>10, <2>4 DEF RaiseParent, TypeOK, call
<1>11. CASE RestoreEnds
  <2>1. tree' \in Tree
    BY <1>0, <1>11, PaintTree DEF RestoreEnds
  <2> QED BY <1>0, <1>11, <2>1 DEF RestoreEnds, Return, TypeOK
<1>12. CASE Take
  <2>1. tree' \in Tree /\ x' \in Node
    BY <1>0, <1>12, UnlinkTopTree DEF Take, Unlinked
  <2> QED BY <1>0, <1>12, <2>1 DEF Take, Unlinked, TypeOK, call
<1>13. CASE SeekLeast
  BY <1>0, <1>1, <1>13 DEF SeekLeast, TypeOK, call
<1>14. CASE GoLeft
  BY <1>0, <1>1, <1>14 DEF GoLeft, TypeOK, call
<1>15. CASE TakeLeast
  <2>1. tree' \in Tree /\ x' \in Node
    BY <1>0, <1>15, UnlinkLeastTree DEF TakeLeast, Unlinked
  <2> QED BY <1>0, <1>15, <2>1 DEF TakeLeast, Unlinked, TypeOK, call
<1>16. CASE FindSibling
  <2> DEFINE r == tree.child[Other(side')][Parent]
             a == Paint(tree, r, BLACK)
             b == Paint(a, Parent, RED)
  <2>1. /\ side' = SideOf(tree, x)
        /\ tree' = IF tree.color[r] = RED THEN Rotate(b, Parent, side') ELSE tree
        /\ w' = tree'.child[Other(side')][tree'.parent[x]]
    BY <1>16 DEF FindSibling
  <2>2. side' \in Side
    BY <1>0, <2>1, SideOfFacts
  <2>3. r \in Node /\ Other(side') \in Side
    BY <1>1, <2>2
  <2> HIDE DEF r
  <2>4. a \in Tree
    BY <1>0, <2>3, PaintTree
  <2> HIDE DEF a
  <2>5. b \in Tree
    BY <1>0, <1>1, <2>4, PaintTree
  <2> HIDE DEF b
  <2>6. tree' \in Tree
    BY <1>0, <1>1, <2>1, <2>2, <2>5, RotateTree
  <2>7. w' \in Node
    <3>1. tree'.parent[x] \in Node
      BY <1>0, <2>6, TreeTypes
    <3>2. tree'.child[Other(side')][tree'.parent[x]] \in Node
      BY <2>3, <2>6, <3>1, TreeTypes
    <3> QED BY <2>1, <3>2
  <2> QED BY <1>0, <1>16, <2>2, <2>6, <2>7 DEF FindSibling, TypeOK, call
<1>17. CASE Slip
  <2>1. tree' \in Tree
    BY <1>0, <1>17, PaintTree DEF Slip
  <2> QED BY <1>0, <1>1, <1>17, <2>1 DEF Slip, TypeOK, call
<1>18. CASE TurnNephew
  <2> DEFINE a == Paint(tree, Near, BLACK)
             b == Paint(a, w, RED)
  <2>1. a \in Tree
    BY <1>0, <1>1, PaintTree
  <2>2. /\ tree' = Rotate(b, w, Other(side))
        /\ w' = tree'.child[Other(side)][tree'.parent[x]]
    BY <1>18 DEF TurnNephew
  <2> HIDE DEF a
  <2>3. b \in Tree
    BY <1>0, <2>1, PaintTree
  <2> HIDE DEF b
  <2>4. tree' \in Tree
    BY <1>0, <1>1, <2>2, <2>3, RotateTree
  <2>5. w' \in Node
    BY <1>0, <1>1, <2>2, <2>4, TreeTypes
  <2> QED BY <1>0, <1>18, <2>4, <2>5 DEF TurnNephew, TypeOK, call
<1>19. CASE FarIsRed
  BY <1>0, <1>19 DEF FarIsRed, TypeOK, call
<1>20. CASE RaiseSibling
  <2> DEFINE a == Paint(tree, w, tree.color[Parent])
             b == Paint(a, Parent, BLACK)
             c == Paint(b, Far, BLACK)
             d == Rotate(c, Parent, side)
  <2>1. a \in Tree
    BY <1>0, <1>1, PaintTree
  <2>2. tree' = Paint(d, d.root, BLACK) /\ x' = d.root
    BY <1>20 DEF RaiseSibling
  <2> HIDE DEF a
  <2>3. b \in Tree
    BY <1>0, <1>1, <2>1, PaintTree
  <2> HIDE DEF b
  <2>4. c \in Tree
    BY <1>0, <1>1, <2>3, PaintTree
  <2> HIDE DEF c
  <2>5. d \in Tree
    BY <1>0, <1>1, <2>4, RotateTree
  <2> HIDE DEF d
  <2>6. tree' \in Tree /\ x' \in Node
    BY <1>0, <2>2, <2>5, TreeTypes, PaintTree
  <2> QED BY <1>0, <1>20, <2>6 DEF RaiseSibling, TypeOK, call
<1>21. CASE MendEnds
  BY <1>0, <1>21 DEF MendEnds, TypeOK, call
<1>22. CASE Free
  <2> DEFINE a == [tree EXCEPT !.parent[arg] = Guard]
  <2>1. a \in Tree
    BY <1>0, ParentFields
  <2>2. tree' = tree \/ tree' = Paint(a, arg, BLACK)
    BY <1>22 DEF Free, Paint
  <2> HIDE DEF a
  <2>3. tree' \in Tree
    BY <1>0, <2>1, <2>2, PaintTree
  <2> QED BY <1>0, <1>22, <2>3 DEF Free, Return, TypeOK, call
<1> QED
  BY <1>3, <1>4, <1>5, <1>6, <1>7, <1>8, <1>9, <1>10, <1>11, <1>12, <1>13, <1>14,
     <1>15, <1>16, <1>17, <1>18, <1>19, <1>20, <1>21, <1>22 DEF Next, Work

\* Every variable keeps its type, also after a repair has slipped and after nodes
\* of the tree have been freed.
THEOREM TypeCorrect == Spec => []TypeOK
<1>1. Init => TypeOK
  BY InitTypes
<1>2. TypeOK /\ [Next]_vars => TypeOK'
  BY TypeNext
<1> QED BY <1>1, <1>2, PTL DEF Spec

-------------------------------------------------------------------------------
(* The step as a whole. *)

\* The keys that the callers see are D[tree.root].
LEMMA HeldNow ==
  ASSUME TypeOK, NEW D, NEW H, Good(D, H)
  PROVE  Held = D[tree.root] /\ (tree.root # Guard => tree.root \in D[tree.root])
<1>1. tree \in Tree /\ tree.root \in Node /\ D \in Subtrees /\ Shape(tree, D)
  BY TypeFacts DEF Good
<1>2. tree.root = Guard \/ tree.root \in D[tree.root]
  BY <1>1 DEF Shape
<1> QED BY <1>1, <1>2, BelowIsSubtree DEF Held

\* The same after a step.
LEMMA HeldNext ==
  ASSUME TypeOK', NEW S, Outcome(S)
  PROVE  Held' = S
<1>1. PICK E \in Subtrees : Shape(tree', E) /\ E[tree'.root] = S
  BY DEF Outcome
<1>2. tree' \in Tree
  BY DEF TypeOK
<1>3. tree'.root \in Node
  BY <1>2, TreeTypes
<1>4. tree'.root = Guard \/ tree'.root \in E[tree'.root]
  BY <1>1 DEF Shape
<1> HIDE DEF TypeOK
<1>5. Below(tree', tree'.root) = E[tree'.root]
  BY <1>1, <1>2, <1>3, <1>4, BelowIsSubtree
<1> QED BY <1>1, <1>5 DEF Held

\* A step that the callers do not see.
LEMMA Unseen ==
  ASSUME TypeOK, TypeOK', ~Broken, NEW D, NEW H, Good(D, H), Outcome(D[tree.root]),
         answer' = answer, ~Broken'
  PROVE  UNCHANGED Contract!vars
<1>1. Held' = Held
  BY HeldNow, HeldNext
<1>2. Broken' = Broken
  BY DEF Broken
<1> QED BY <1>1, <1>2 DEF Contract!vars

\* While nothing has gone wrong, a step keeps the invariant or goes wrong, and is a
\* step of the set of keys.
LEMMA StepGood ==
  ASSUME TypeOK, TypeOK', ~Broken, NEW D, NEW H, Good(D, H), Next
  PROVE  /\ Broken' \/ \E S : Outcome(S)
         /\ [Contract!Next]_Contract!vars
<1>0. /\ Held = D[tree.root] /\ D \in Subtrees /\ Shape(tree, D) /\ PlaceInv(D, H)
      /\ Broken = FALSE /\ slipped = FALSE
  BY HeldNow DEF Good, Broken, TypeOK
<1>1. ASSUME Outcome(D[tree.root]), answer' = answer, ~Broken'
      PROVE  /\ Broken' \/ \E S : Outcome(S)
             /\ [Contract!Next]_Contract!vars
  <2>1. UNCHANGED Contract!vars
    BY <1>1, Unseen
  <2> QED BY <1>1, <2>1
<1>2. ASSUME NEW k \in Keys, NEW o \in {"insert", "find", "delete"}, Call(o, k)
      PROVE  /\ Broken' \/ \E S : Outcome(S)
             /\ [Contract!Next]_Contract!vars
  <2>1. Outcome(D[tree.root]) /\ answer' = [op |-> "none"]
    BY <1>2, CallGood DEF Call
  <2>2. Broken' = FALSE
    BY <1>0, <1>2 DEF Broken, Call
  <2>3. Held' = Held
    BY <1>0, <2>1, HeldNext
  <2>4. Contract!Next
    BY <1>0, <2>1, <2>2, <2>3 DEF Contract!Next, Contract!Ask
  <2> QED BY <2>1, <2>4
<1>3. CASE Descend
  BY <1>0, <1>1, <1>3, DescendGood DEF Descend, Broken
<1>4. CASE Hit
  <2>1. Outcome(D[tree.root])
    BY <1>4, AnswerGood
  <2>2. Held' = Held
    BY <1>0, <2>1, HeldNext
  <2>3. arg \in Keys /\ x = arg /\ x # Guard
    BY <1>0, <1>4, KeysFacts DEF Hit, PlaceInv
  <2>4. arg \in Held
    BY <1>0, <1>4, <2>3, SearchedInTree DEF Hit
  <2>5. Broken' = FALSE
    BY <1>0, <1>4 DEF Broken, Hit, Return
  <2>6. answer'.op = op /\ answer'.key = arg /\ answer'.found = (arg \in Held)
    BY <1>4, <2>4 DEF Hit, Decide
  <2>7. Held \cup {arg} = Held
    BY <2>4
  <2>8. Contract!Insert(arg) \/ Contract!Find(arg)
    BY <1>0, <1>4, <2>2, <2>5, <2>6, <2>7
       DEF Hit, Contract!Insert, Contract!Find, Contract!Decided
  <2>9. Contract!Next
    BY <1>0, <2>3, <2>8 DEF Contract!Next
  <2> QED BY <2>1, <2>9
<1>5. CASE Miss
  <2>1. Outcome(D[tree.root])
    BY <1>5, AnswerGood
  <2>2. Held' = Held
    BY <1>0, <2>1, HeldNext
  <2>3. arg \in Keys /\ x = Guard /\ DescendInv(D)
    BY <1>0, <1>5 DEF Miss, PlaceInv
  <2>4. arg \notin Held
    BY <1>0, <2>3 DEF DescendInv, Shape
  <2>5. Broken' = FALSE
    BY <1>0, <1>5 DEF Broken, Miss, Return
  <2>6. answer'.op = op /\ answer'.key = arg /\ answer'.found = (arg \in Held)
    <3>1. answer' = [op |-> op, key |-> arg, found |-> FALSE]
      BY <1>5 DEF Miss, Decide
    <3>2. (arg \in Held) = FALSE
      BY <2>4
    <3> QED BY <3>1, <3>2
  <2>7. Held \ {arg} = Held
    BY <2>4
  <2>8. Contract!Find(arg) \/ Contract!Delete(arg)
    BY <1>0, <1>5, <2>2, <2>5, <2>6, <2>7
       DEF Miss, Contract!Delete, Contract!Find, Contract!Decided
  <2>9. Contract!Next
    BY <1>0, <2>3, <2>8 DEF Contract!Next
  <2> QED BY <2>1, <2>9
<1>6. CASE Link
  <2>1. Outcome(D[tree.root] \cup {arg}) /\ arg \notin Held
    BY <1>0, <1>6, LinkGood
  <2>2. Held' = Held \cup {arg}
    BY <1>0, <2>1, HeldNext
  <2>3. arg \in Keys
    BY <1>0, <1>6 DEF Link, PlaceInv
  <2>4. Broken' = FALSE
    BY <1>0, <1>6 DEF Broken, Link
  <2>5. answer'.op = "insert" /\ answer'.key = arg /\ answer'.found = (arg \in Held)
    <3>1. answer' = [op |-> "insert", key |-> arg, found |-> FALSE]
      BY <1>6 DEF Link, Decide
    <3>2. (arg \in Held) = FALSE
      BY <2>1
    <3> QED BY <3>1, <3>2
  <2>6. Contract!Insert(arg)
    BY <1>0, <2>2, <2>4, <2>5 DEF Contract!Insert, Contract!Decided
  <2>7. Contract!Next
    BY <1>0, <2>3, <2>6 DEF Contract!Next
  <2> QED BY <2>1, <2>7
<1>7. CASE Take \/ TakeLeast
  <2>1. Outcome(D[tree.root] \ {arg}) /\ arg \in Held
    BY <1>0, <1>7, TakeGood, TakeLeastGood
  <2>2. Held' = Held \ {arg}
    BY <1>0, <2>1, HeldNext
  <2>3. arg \in Keys
    BY <1>0, <2>1, TypeFacts DEF Subtrees
  <2>4. PICK v : Unlinked(v)
    BY <1>7 DEF Take, TakeLeast
  <2>5. op = "delete"
    BY <1>0, <1>7 DEF Take, TakeLeast, PlaceInv, LeastInv
  <2>6. Broken' = FALSE
    BY <1>0, <2>4 DEF Broken, Unlinked
  <2>7. answer'.op = "delete" /\ answer'.key = arg /\ answer'.found = (arg \in Held)
    BY <2>1, <2>4, <2>5 DEF Unlinked, Decide
  <2>8. Contract!Delete(arg)
    BY <1>0, <2>2, <2>6, <2>7 DEF Contract!Delete, Contract!Decided
  <2>9. Contract!Next
    BY <1>0, <2>3, <2>8 DEF Contract!Next
  <2> QED BY <2>1, <2>9
<1>8. CASE Recolor
  BY <1>0, <1>1, <1>8, RecolorGood DEF Recolor, ParentIsRed, Broken
<1>9. CASE TurnOutwards
  BY <1>0, <1>1, <1>9, TurnOutwardsGood DEF TurnOutwards, Broken
<1>10. CASE RaiseParent
  BY <1>0, <1>1, <1>10, RaiseParentGood DEF RaiseParent, Broken
<1>11. CASE RestoreEnds
  BY <1>0, <1>1, <1>11, RestoreEndsGood DEF RestoreEnds, Return, Broken
<1>12. CASE SeekLeast
  BY <1>0, <1>1, <1>12, SeekLeastGood DEF SeekLeast, Broken
<1>13. CASE GoLeft
  BY <1>0, <1>1, <1>13, GoLeftGood DEF GoLeft, Broken
<1>14. CASE FindSibling
  BY <1>0, <1>1, <1>14, FindSiblingGood DEF FindSibling, Broken
<1>15. CASE TurnNephew
  BY <1>0, <1>1, <1>15, TurnNephewGood DEF TurnNephew, Broken
<1>16. CASE FarIsRed
  BY <1>0, <1>1, <1>16, FarIsRedGood DEF FarIsRed, Broken
<1>17. CASE RaiseSibling
  BY <1>0, <1>1, <1>17, RaiseSiblingGood DEF RaiseSibling, Broken
<1>18. CASE MendEnds
  BY <1>0, <1>1, <1>18, MendEndsGood DEF MendEnds, Broken
<1>19. CASE Slip
  <2>1. Broken' = TRUE
    BY <1>19 DEF Slip, Broken
  <2>2. DeletedInv(D) /\ SiblingInv(D, H)
    BY <1>0, <1>19 DEF Slip, PlaceInv
  <2>3. answer.op = "delete" /\ answer.found /\ Parent \in Held
    BY <1>0, <2>2 DEF DeletedInv, SiblingInv, ShortAt, ShortEdge, Parent
  <2>4. Contract!Next
    BY <1>0, <2>1, <2>3 DEF Contract!Next, Contract!Break
  <2> QED BY <2>1, <2>4
<1>20. CASE Free
  <2>1. CASE Outcome(D[tree.root]) /\ pc' # "broken"
    BY <1>0, <1>1, <1>20, <2>1 DEF Free, Broken
  <2>2. CASE pc' = "broken" /\ D[tree.root] # {}
    <3>1. Broken' = TRUE
      BY <2>2 DEF Broken
    <3>2. answer.op = "delete" /\ answer.found
      BY <1>0, <1>20 DEF Free, PlaceInv, DeletedInv
    <3>3. Contract!Next
      BY <1>0, <2>2, <3>1, <3>2 DEF Contract!Next, Contract!Break
    <3> QED BY <3>1, <3>3
  <2>3. Outcome(D[tree.root]) \/ (pc' = "broken" /\ D[tree.root] # {})
    BY <1>20, FreeGood
  <2>4. pc' = "idle" \/ (pc' = "broken" /\ D[tree.root] # {})
    <3>1. CASE Below(tree, arg) = {arg}
      BY <1>20, <3>1 DEF Free, Return
    <3>2. CASE Below(tree, arg) # {arg}
      <4>1. DeletedInv(D) /\ arg \in Keys /\ tree \in Tree
        BY <1>0, <1>20, TypeFacts DEF Free, PlaceInv, DeletedInv
      <4>2. ~Childless
        BY <3>2, <4>1, BelowAlone DEF Childless
      <4> QED BY <1>20, <3>2, <4>1, <4>2 DEF Free, DeletedInv, Doomed
    <3> QED BY <3>1, <3>2
  <2> QED BY <2>1, <2>2, <2>3, <2>4
<1> QED
  BY <1>2, <1>3, <1>4, <1>5, <1>6, <1>7, <1>8, <1>9, <1>10, <1>11, <1>12, <1>13,
     <1>14, <1>15, <1>16, <1>17, <1>18, <1>19, <1>20 DEF Next, Work

\* What has gone wrong stays so.
LEMMA StaysBroken ==
  ASSUME TypeOK, Broken, [Next]_vars
  PROVE  Broken' = TRUE
<1>1. CASE UNCHANGED vars
  BY <1>1 DEF vars, Broken, TypeOK
<1>2. CASE slipped /\ Next
  <2>1. slipped = TRUE
    BY <1>2 DEF TypeOK
  <2>2. slipped' = slipped \/ slipped' = TRUE
    BY <1>2 DEF Next, Work, Call, Descend, Hit, Miss, Link, Recolor, TurnOutwards,
         RaiseParent, RestoreEnds, Take, SeekLeast, GoLeft, TakeLeast, Unlinked,
         FindSibling, Slip, TurnNephew, FarIsRed, RaiseSibling, MendEnds, Free
  <2> QED BY <2>1, <2>2 DEF Broken
<1>3. CASE pc = "broken" /\ Next
  BY <1>3 DEF Next, Work, Call, Descend, Hit, Miss, Link, Recolor, TurnOutwards,
       ParentIsRed, RaiseParent, RestoreEnds, Take, SeekLeast, GoLeft, TakeLeast,
       FindSibling, Slip, TurnNephew, FarIsRed, RaiseSibling, MendEnds, Free
<1> QED BY <1>1, <1>2, <1>3 DEF Broken

\* IInv is inductive.
LEMMA InvariantNext ==
  ASSUME IInv, [Next]_vars
  PROVE  IInv'
<1>1. TypeOK /\ TypeOK'
  BY TypeNext DEF IInv
<1>2. CASE Broken'
  BY <1>1, <1>2 DEF IInv
<1>3. CASE ~Broken'
  <2>1. ~Broken
    BY <1>1, <1>3, StaysBroken
  <2>2. PICK D \in Subtrees, H \in Heights : Shape(tree, D) /\ PlaceInv(D, H)
    BY <2>1 DEF IInv
  <2>3. Good(D, H)
    BY <2>2 DEF Good
  <2>4. CASE Next
    <3>1. \E S : Outcome(S)
      BY <1>1, <1>3, <2>1, <2>3, <2>4, StepGood
    <3>2. PICK E \in Subtrees, K \in Heights : Shape(tree', E) /\ PlaceInv(E, K)'
      BY <3>1 DEF Outcome
    <3> QED BY <1>1, <3>2 DEF IInv
  <2>5. CASE UNCHANGED vars
    <3>1. Shape(tree', D)
      BY <2>2, <2>5 DEF vars
    <3>2. PlaceInv(D, H)'
      BY <2>2, <2>5 DEF vars, call, PlaceInv, DescendInv, Direction, LeastInv,
           RestoreInv, OuterInv, Parent, Grandparent, DeletedInv, Doomed, Childless,
           MendInv, ShortAt, SiblingInv, Far, FreeInv
    <3> QED BY <1>1, <3>1, <3>2 DEF IInv
  <2> QED BY <2>4, <2>5
<1> QED BY <1>2, <1>3

\* IInv is inductive: it holds in every state.
THEOREM InvariantHolds == Spec => []IInv
<1>1. Init => IInv
  <2> SUFFICES ASSUME Init PROVE IInv
    OBVIOUS
  <2> QED BY InitTypes, InitGood DEF IInv
<1>2. IInv /\ [Next]_vars => IInv'
  BY InvariantNext
<1> QED BY <1>1, <1>2, PTL DEF Spec

\* As long as no repair of a deletion has slipped from its second case into the
\* last one, every operation of rbt.c leaves a red-black tree whose inorder list
\* has every key once, in ascending order, for every finite set of keys.
THEOREM RedBlackUnlessSlipped == Spec => []BalancedUnlessSlipped
<1>1. ASSUME IInv PROVE BalancedUnlessSlipped
  <2> SUFFICES ASSUME pc = "idle", ~slipped
               PROVE  RedBlack(tree) /\ (tree.root # Guard => Ordered(tree))
    BY DEF BalancedUnlessSlipped
  <2>1. PICK D \in Subtrees, H \in Heights : Shape(tree, D) /\ PlaceInv(D, H)
    BY <1>1 DEF IInv, Broken
  <2>2. tree \in Tree /\ tree.root \in Node /\ TypeOK
    BY <1>1, TypeFacts DEF IInv
  <2>3. Colored(tree, D, H)
    BY <2>1 DEF PlaceInv
  <2>4. Below(tree, tree.root) = D[tree.root]
    <3>1. Good(D, H)
      BY <2>1 DEF Good
    <3> QED BY <2>2, <3>1, HeldNow DEF Held
  <2>5. \A n \in D[tree.root] : tree.color[n] = RED => BothBlack(tree, n)
    <3>1. Calm(tree, D, {})
      BY <2>3 DEF Colored
    <3> QED BY <3>1 DEF Calm, BothBlack
  <2>6. Cardinality(BlackHeights(tree)) = 1
    <3>1. BlackHeights(tree) = {H[tree.root]}
      BY <2>1, <2>2, <2>3, OneBlackHeight DEF Colored
    <3> QED BY <3>1, FS_Singleton
  <2>7. RedBlack(tree)
    BY <2>3, <2>4, <2>5, <2>6 DEF RedBlack, Colored, RootBlack
  <2> QED BY <2>1, <2>2, <2>7, ListIsOrdered
<1> QED BY <1>1, InvariantHolds, PTL

\* rbt.c implements the set of keys of SearchTree, up to the first slip and to the
\* first deletion that frees nodes which are still in the tree.
THEOREM ImplementsSearchTree == Spec => ContractSpec
<1>1. Init => Contract!Init
  <2> SUFFICES ASSUME Init PROVE Contract!Init
    OBVIOUS
  <2>1. PICK D \in Subtrees, H \in Heights : Shape(tree, D) /\ PlaceInv(D, H)
    BY InitGood
  <2>2. TypeOK /\ Good(D, H)
    BY <2>1, InitTypes DEF Good
  <2>3. Held = D[tree.root] /\ tree.root = Guard
    BY <2>2, HeldNow DEF Init, EmptyTree
  <2>4. Held = {}
    BY <2>1, <2>3 DEF Shape
  <2>5. Broken = FALSE
    BY DEF Init, Broken
  <2> QED BY <2>4, <2>5 DEF Init, Contract!Init
<1>2. ASSUME IInv, IInv', [Next]_vars PROVE [Contract!Next]_Contract!vars
  <2>1. TypeOK /\ TypeOK'
    BY <1>2 DEF IInv
  <2>2. CASE Broken
    <3>1. Broken = TRUE /\ Broken' = TRUE
      BY <1>2, <2>1, <2>2, StaysBroken DEF Broken
    <3> QED BY <3>1 DEF Contract!Next
  <2>3. CASE ~Broken /\ Next
    <3>1. PICK D \in Subtrees, H \in Heights : Shape(tree, D) /\ PlaceInv(D, H)
      BY <1>2, <2>3 DEF IInv
    <3>2. Good(D, H)
      BY <3>1 DEF Good
    <3> QED BY <2>1, <2>3, <3>2, StepGood
  <2>4. CASE UNCHANGED vars
    <3>1. tree' = tree /\ answer' = answer /\ pc' = pc /\ slipped' = slipped
      BY <2>4 DEF vars
    <3> QED BY <3>1 DEF Held, Broken, Contract!vars
  <2> QED BY <1>2, <2>2, <2>3, <2>4
<1> QED BY <1>1, <1>2, InvariantHolds, PTL DEF Spec, ContractSpec, Contract!Spec
====
