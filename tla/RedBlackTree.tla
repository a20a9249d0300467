----------------------------- MODULE RedBlackTree -----------------------------
(***************************************************************************)
(* The red-black tree of ElectionsSimulation (rbt.c), which keeps the      *)
(* voters and the postal codes.  One step is one round of a loop of        *)
(* rbt.c, or the code between two loops.  A node is named by its key; the  *)
(* guard is a node too, with fields that the code reads and writes.        *)
(***************************************************************************)
EXTENDS Naturals, Sequences, FiniteSets

CONSTANT Keys   \* what the nodes hold, in the order of the comparison function

ASSUME KeysAssumption == Keys \subseteq Nat \ {0} /\ IsFiniteSet(Keys)

Guard == 0
Node == Keys \cup {Guard}

RED == "red"
BLACK == "black"
Color == {RED, BLACK}

Side == {"left", "right"}
Other(s) == IF s = "left" THEN "right" ELSE "left"

VARIABLES
  tree,     \* RBT and the fields of its nodes
  pc,       \* where the operation at work is
  op,       \* that operation
  arg,      \* the key it was called with
  x,        \* x of the descents and of the repair of a deletion, z of the other
  y,        \* the node above x in bst_insert()
  w,        \* the sibling of x in rbt_restore_deletion()
  side,     \* the branch both repairs are in: the other one is its mirror image
  answer,   \* as in SearchTree
  slipped   \* history: a repair of a deletion ran two of its cases

call == <<op, arg, y>>
vars == <<tree, pc, call, x, w, side, answer, slipped>>

\* rbt_init() that leaves the colour of the guard unset.
EmptyTreeUncolored ==
  [root   |-> Guard,
   child  |-> [s \in Side |-> [n \in Node |-> Guard]],
   parent |-> [n \in Node |-> Guard],
   color  |-> [n \in Node |-> IF n = Guard THEN "unset" ELSE BLACK]]

\* rbt_init()
EmptyTree ==
  [root   |-> Guard,
   child  |-> [s \in Side |-> [n \in Node |-> Guard]],
   parent |-> [n \in Node |-> Guard],
   color  |-> [n \in Node |-> BLACK]]

Init ==
  /\ tree = EmptyTree
  /\ pc = "idle" /\ op = "none" /\ arg = Guard /\ x = Guard /\ y = Guard
  /\ w = Guard /\ side = "left"
  /\ answer = [op |-> "none"]
  /\ slipped = FALSE

-------------------------------------------------------------------------------
(* Changing a tree. *)

Paint(t, n, c) == [t EXCEPT !.color[n] = c]

\* The child of p that n is, as every "if (n == p->left) ... else" has it.
SideOf(t, n) == IF n = t.child["left"][t.parent[n]] THEN "left" ELSE "right"

\* Without the case of the root.
ReplaceInner(t, u, v) == [t EXCEPT !.child[SideOf(t, u)][t.parent[u]] = v]

\* v in the place of u, seen from above.
Replace(t, u, v) ==
  IF t.parent[u] = Guard THEN [t EXCEPT !.root = v]
  ELSE [t EXCEPT !.child[SideOf(t, u)][t.parent[u]] = v]

Transplant(t, u, v) == [Replace(t, u, v) EXCEPT !.parent[v] = t.parent[u]]

\* rbt_left_rotation() for s = "left" and rbt_right_rotation().
Rotate(t, n, s) ==
  LET up == t.child[Other(s)][n]
      inner == t.child[s][up]
      t1 == [t EXCEPT !.child[Other(s)][n] = inner]
      t2 == IF inner # Guard THEN [t1 EXCEPT !.parent[inner] = n] ELSE t1
      t3 == [t2 EXCEPT !.parent[up] = t2.parent[n]]
      t4 == Replace(t3, n, up)
  IN [t4 EXCEPT !.child[s][up] = n, !.parent[n] = up]

\* rbt_delete() of a node with at most one child: the tree, the node that takes
\* its place, and the colour that is lost.
UnlinkTop(t, n) ==
  LET l == t.child["left"][n]
      r == t.child["right"][n]
      only == IF l = Guard THEN r ELSE l
  IN [tree |-> Transplant(t, n, only), x |-> only, lost |-> t.color[n]]

\* rbt_delete() of a node with two children; m is the least node of its right
\* subtree.
UnlinkLeast(t, n, m) ==
  LET l == t.child["left"][n]
      r == t.child["right"][n]
      below == t.child["right"][m]
      t1 == IF t.parent[m] = n THEN [t EXCEPT !.parent[below] = m]
            ELSE [Transplant(t, m, below) EXCEPT !.child["right"][m] = r,
                                                 !.parent[r] = m]
  IN [tree |-> [Transplant(t1, n, m) EXCEPT !.child["left"][m] = l,
                                            !.parent[l] = m,
                                            !.color[m] = t.color[n]],
      x |-> below, lost |-> t.color[m]]

BothBlack(t, n) == \A s \in Side : t.color[t.child[s][n]] = BLACK

\* One link further down.
Further(t, S) == (S \cup {t.child[s][m] : s \in Side, m \in S}) \ {Guard}

\* The nodes rbt_free_node() reaches from n.
Below(t, n) ==
  LET reach[d \in Nat] ==
        IF d = 0 THEN {n} \ {Guard} ELSE Further(t, reach[d - 1])
  IN reach[Cardinality(Keys)]

-------------------------------------------------------------------------------
(* The operations. *)

Decide(found) == answer' = [op |-> op, key |-> arg, found |-> found]

\* A call.  A new node is not in the tree until it is linked.
Call(o, k) ==
  /\ pc = "idle"
  /\ pc' = "descend" /\ op' = o /\ arg' = k
  /\ x' = tree.root /\ y' = Guard
  /\ answer' = [op |-> "none"]
  /\ UNCHANGED <<tree, w, side, slipped>>

Return == pc' = "idle" /\ op' = "none" /\ arg' = Guard /\ x' = Guard /\ y' = Guard

\* One round of the loop of bst_insert(), rbt_find() and rbt_find_RET_NODE().
Descend ==
  /\ pc = "descend" /\ x \notin {Guard, arg}
  /\ x' = tree.child[IF arg < x THEN "left" ELSE "right"][x]
  /\ y' = x
  /\ UNCHANGED <<tree, pc, op, arg, w, side, answer, slipped>>

\* The key is there: the new node is freed, or the data returned.
Hit ==
  /\ pc = "descend" /\ x = arg /\ op \in {"insert", "find"}
  /\ Decide(TRUE) /\ Return
  /\ UNCHANGED <<tree, w, side, slipped>>

Miss ==
  /\ pc = "descend" /\ x = Guard /\ op \in {"find", "delete"}
  /\ Decide(FALSE) /\ Return
  /\ UNCHANGED <<tree, w, side, slipped>>

\* The end of bst_insert().
Link ==
  /\ pc = "descend" /\ x = Guard /\ op = "insert"
  /\ LET new == [tree EXCEPT !.parent[arg] = y, !.color[arg] = RED,
                             !.child["left"][arg] = Guard,
                             !.child["right"][arg] = Guard]
     IN tree' = IF y = Guard THEN [new EXCEPT !.root = arg]
                ELSE [new EXCEPT !.child[IF arg < y THEN "left" ELSE "right"][y] = arg]
  /\ Decide(FALSE)
  /\ pc' = "restore" /\ x' = arg
  /\ UNCHANGED <<call, w, side, slipped>>

\* rbt_restoration(): a round of its loop goes on while z has a red parent.
Parent == tree.parent[x]
Grandparent == tree.parent[Parent]
Uncle == tree.child[Other(SideOf(tree, Parent))][Grandparent]

ParentIsRed == pc = "restore" /\ tree.color[Parent] = RED

\* The uncle keeps its colour.
RecolorTwo ==
  /\ ParentIsRed /\ tree.color[Uncle] = RED
  /\ tree' = Paint(Paint(tree, Parent, BLACK), Grandparent, RED)
  /\ x' = Grandparent
  /\ UNCHANGED <<pc, call, w, side, answer, slipped>>

Recolor ==
  /\ ParentIsRed /\ tree.color[Uncle] = RED
  /\ tree' = Paint(Paint(Paint(tree, Parent, BLACK), Uncle, BLACK), Grandparent, RED)
  /\ x' = Grandparent
  /\ UNCHANGED <<pc, call, w, side, answer, slipped>>

\* z on the inner side is first turned outwards.
TurnOutwards ==
  /\ ParentIsRed /\ tree.color[Uncle] = BLACK
  /\ side' = SideOf(tree, Parent)
  /\ IF x = tree.child[Other(side')][Parent]
     THEN tree' = Rotate(tree, Parent, side') /\ x' = Parent
     ELSE UNCHANGED <<tree, x>>
  /\ pc' = "outer"
  /\ UNCHANGED <<call, w, answer, slipped>>

RaiseParent ==
  /\ pc = "outer" /\ pc' = "restore"
  /\ LET t == Paint(Paint(tree, Parent, BLACK), Grandparent, RED)
     IN tree' = Rotate(t, Grandparent, Other(side))
  /\ side' = "left"
  /\ UNCHANGED <<call, x, w, answer, slipped>>

RestoreEnds ==
  /\ pc = "restore" /\ tree.color[Parent] = BLACK
  /\ tree' = Paint(tree, tree.root, BLACK)
  /\ Return
  /\ UNCHANGED <<w, side, answer, slipped>>

Unlinked(u) ==
  /\ tree' = u.tree /\ x' = u.x
  /\ pc' = IF u.lost = BLACK THEN "mend" ELSE "free"
  /\ Decide(TRUE)
  /\ UNCHANGED <<call, w, side, slipped>>

TwoChildren(n) == \A s \in Side : tree.child[s][n] # Guard

Take ==
  /\ pc = "descend" /\ x = arg /\ op = "delete" /\ ~TwoChildren(arg)
  /\ Unlinked(UnlinkTop(tree, arg))

\* bst_min_of_tree() of the right subtree, and one round of its loop.
SeekLeast ==
  /\ pc = "descend" /\ x = arg /\ op = "delete" /\ TwoChildren(arg)
  /\ pc' = "least" /\ x' = tree.child["right"][arg]
  /\ UNCHANGED <<tree, call, w, side, answer, slipped>>

GoLeft ==
  /\ pc = "least" /\ tree.child["left"][x] # Guard
  /\ x' = tree.child["left"][x]
  /\ UNCHANGED <<tree, pc, call, w, side, answer, slipped>>

TakeLeast ==
  /\ pc = "least" /\ tree.child["left"][x] = Guard
  /\ Unlinked(UnlinkLeast(tree, arg, x))

\* rbt_restore_deletion(), a round of its loop: the sibling w is made black,
FindSibling ==
  /\ pc = "mend" /\ x # tree.root /\ tree.color[x] = BLACK
  /\ side' = SideOf(tree, x)
  /\ LET red == tree.child[Other(side')][Parent]
         t == Paint(Paint(tree, red, BLACK), Parent, RED)
     IN tree' = IF tree.color[red] = RED THEN Rotate(t, Parent, side') ELSE tree
  /\ w' = tree'.child[Other(side')][tree'.parent[x]]
  /\ pc' = "nephews"
  /\ UNCHANGED <<call, x, answer, slipped>>

\* and then its child on the outer side red.  The case in which both of its
\* children are black moves x up and runs into the last case there, with a w
\* that is no longer the sibling.
Near == tree.child[side][w]
Far == tree.child[Other(side)][w]

Slip ==
  /\ pc = "nephews" /\ BothBlack(tree, w)
  /\ tree' = Paint(tree, w, RED) /\ x' = Parent
  /\ pc' = "last" /\ slipped' = TRUE
  /\ UNCHANGED <<call, w, side, answer>>

TurnNephew ==
  /\ pc = "nephews" /\ ~BothBlack(tree, w) /\ tree.color[Far] = BLACK
  /\ tree' = Rotate(Paint(Paint(tree, Near, BLACK), w, RED), w, Other(side))
  /\ w' = tree'.child[Other(side)][tree'.parent[x]]
  /\ pc' = "last"
  /\ UNCHANGED <<call, x, side, answer, slipped>>

FarIsRed ==
  /\ pc = "nephews" /\ ~BothBlack(tree, w) /\ tree.color[Far] # BLACK
  /\ pc' = "last"
  /\ UNCHANGED <<tree, call, x, w, side, answer, slipped>>

\* The last case.
RaiseSibling ==
  /\ pc = "last" /\ pc' = "mend"
  /\ LET t == Paint(Paint(tree, w, tree.color[Parent]), Parent, BLACK)
     IN \E raised \in {Rotate(Paint(t, Far, BLACK), Parent, side)} :
          tree' = Paint(raised, raised.root, BLACK) /\ x' = raised.root
  /\ w' = Guard /\ side' = "left"
  /\ UNCHANGED <<call, answer, slipped>>

MendEnds ==
  /\ pc = "mend" /\ (x = tree.root \/ tree.color[x] = RED)
  /\ pc' = "free"
  /\ UNCHANGED <<tree, call, x, w, side, answer, slipped>>

\* rbt_free_node() frees the children the node still points to.  When it has any,
\* they are nodes of the tree, and what follows is undefined.
Free ==
  /\ pc = "free"
  /\ IF Below(tree, arg) = {arg}
     THEN /\ Return
          /\ tree' = [tree EXCEPT !.parent[arg] = Guard, !.color[arg] = BLACK]
     ELSE pc' = "broken" /\ UNCHANGED <<tree, call, x>>
  /\ UNCHANGED <<w, side, answer, slipped>>

Work ==
  \/ Descend \/ Hit \/ Miss \/ Link
  \/ Recolor \/ TurnOutwards \/ RaiseParent \/ RestoreEnds
  \/ Take \/ SeekLeast \/ GoLeft \/ TakeLeast
  \/ FindSibling \/ Slip \/ TurnNephew \/ FarIsRed \/ RaiseSibling \/ MendEnds
  \/ Free

Next == Work \/ \E k \in Keys, o \in {"insert", "find", "delete"} : Call(o, k)

Spec == Init /\ [][Next]_vars

\* The program is sequential: an operation that was called goes on.
FairSpec == Spec /\ WF_vars(Work)

-------------------------------------------------------------------------------
(* Properties. *)

\* Every variable has its type; the fields of the guard have theirs, although the
\* code writes to its parent and its colour.
Tree ==
  [root : Node, child : [Side -> [Node -> Node]], parent : [Node -> Node],
   color : [Node -> Color]]

TypeOK ==
  /\ tree \in Tree
  /\ pc \in {"idle", "descend", "restore", "outer", "least", "mend", "nephews", "last",
             "free", "broken"}
  /\ op \in {"none", "insert", "find", "delete"}
  /\ arg \in Node /\ x \in Node /\ y \in Node /\ w \in Node /\ side \in Side
  /\ slipped \in BOOLEAN

Held == Below(tree, tree.root)

\* rbt_inorder_traversal() of a node, from what it gives of the children.
Joined(t, lists) ==
  [n \in Node |->
     IF n = Guard THEN <<>>
     ELSE lists[t.child["left"][n]] \o <<n>> \o lists[t.child["right"][n]]]

\* rbt_get_all_nodes(): the data in the order of rbt_inorder_traversal().
Inorder(t) ==
  LET walk[d \in Nat] ==
        IF d = 0 THEN [n \in Node |-> <<>>] ELSE Joined(t, walk[d - 1])
      lists == walk[Cardinality(Keys)]
  IN lists[t.child["left"][t.root]] \o <<t.root>>
       \o lists[t.child["right"][t.root]]

Ordered(t) ==
  LET l == Inorder(t)
  IN /\ \A i, j \in DOMAIN l : i < j => l[i] < l[j]
     /\ {l[i] : i \in DOMAIN l} = Below(t, t.root)

\* The numbers of black nodes on the paths down from a node, from those of its
\* children.
Raised(t, heights) ==
  [n \in Node |->
     IF n = Guard THEN {0}
     ELSE {h + (IF t.color[n] = BLACK THEN 1 ELSE 0) :
             h \in UNION {heights[t.child[s][n]] : s \in Side}}]

BlackHeights(t) ==
  LET bh[d \in Nat] ==
        IF d = 0 THEN [n \in Node |-> {0}] ELSE Raised(t, bh[d - 1])
  IN bh[Cardinality(Keys)][t.root]

RedBlack(t) ==
  /\ t.color[t.root] = BLACK
  /\ \A n \in Below(t, t.root) : t.color[n] = RED => BothBlack(t, n)
  /\ Cardinality(BlackHeights(t)) = 1

\* As long as no repair of a deletion has slipped from its second case into the
\* last one, every operation leaves a red-black tree: the root is black, no red
\* node has a red child, all paths have as many black nodes, and the list of
\* rbt_get_all_nodes() has every key once, in ascending order.
BalancedUnlessSlipped ==
  pc = "idle" /\ ~slipped =>
    RedBlack(tree) /\ (tree.root # Guard => Ordered(tree))

Broken == slipped \/ pc = "broken"

Contract == INSTANCE SearchTree WITH held <- Held, broken <- Broken

\* To its callers the tree is a set of keys: no rotation, transplant or repair
\* adds, loses or hides one, and every answer is right, up to the first slip and
\* to the first deletion that frees nodes which are still in the tree.
ContractSpec == Contract!Spec

Mending == pc \in {"mend", "nephews", "last"}

\* README of ElectionsSimulation: at the end "the registry is printed in an
\* ascending order"; a deletion takes away the deleted voter only.  A repair
\* that slips cuts others off the tree.
NothingLost ==
  [][Mending /\ Below(tree, arg) = {arg} => Held' = Held]_vars
===============================================================================
