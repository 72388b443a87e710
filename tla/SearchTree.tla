----------------------------- MODULE SearchTree -----------------------------
(***************************************************************************)
(* AVLTreeLogic under IntrusiveBinaryTree: nodes that hold their parent,   *)
(* their two children and their balance factor.  A search and an iterator  *)
(* step are one action; an insertion links the node and then retraces      *)
(* towards the root one node per action, rotating where a subtree became   *)
(* too high.  A node is named by its key, which NodeComparator orders.     *)
(* An assertion that fails stops the program.                              *)
(***************************************************************************)
EXTENDS Integers, FiniteSets, Sequences, SequencesExt

CONSTANT Keys

ASSUME KeysAssumption == Keys \subseteq Nat \ {0} /\ IsFiniteSet(Keys)

VARIABLES root,     \* IntrusiveBinaryTree::root
          nodes,    \* key -> the node's hook
          current,  \* the node an insertion retraces from, Zero between calls
          answer,   \* what the last find or insert returned, and its cost
          cursor,   \* an Iterator the caller keeps
          failed    \* an XAssert failed

treeVars == <<root, nodes, current, answer, cursor, failed>>

Zero == 0
Broken == -1

Hook(parent) ==
    [parent |-> parent, child |-> [d \in 0..1 |-> Zero], balance |-> 0]

-----------------------------------------------------------------------------
\* Searching and walking.

\* The nodes a search for key visits from the root; the last is the node
\* with that key, or Zero where it would hang.
Descent(tree, start, key) ==
    LET Visit[fuel \in 0..Cardinality(Keys), node \in Keys \cup {Zero}] ==
            IF node \in {Zero, key} \/ fuel = 0 THEN <<node>>
            ELSE LET turn == IF node < key THEN 1 ELSE 0
                 IN <<node>> \o Visit[fuel - 1, tree[node].child[turn]]
    IN Visit[Cardinality(Keys), start]

Visited(path) == Len(SelectSeq(path, LAMBDA node : node # Zero))

FindExtreme(tree, start, direction) ==
    LET Go[fuel \in 0..Cardinality(Keys), node \in Keys \cup {Zero}] ==
            IF node = Zero \/ fuel = 0 THEN Zero
            ELSE LET next == tree[node].child[direction]
                 IN IF next = Zero THEN node ELSE Go[fuel - 1, next]
    IN Go[Cardinality(Keys), start]

\* Down towards the direction when there is a child there, else up to the
\* first ancestor reached from its other side.  Broken when a node is no
\* child of its parent, which the code asserts.
Iterate(tree, start, direction) ==
    LET Climb[fuel \in 0..Cardinality(Keys), node \in Keys] ==
            LET parent == tree[node].parent
            IN IF parent = Zero \/ fuel = 0 THEN Zero
               ELSE IF tree[parent].child[1 - direction] = node THEN parent
               ELSE IF tree[parent].child[direction] # node THEN Broken
               ELSE Climb[fuel - 1, parent]
        down == tree[start].child[direction]
    IN IF down # Zero THEN FindExtreme(tree, down, 1 - direction)
       ELSE Climb[Cardinality(Keys), start]

-----------------------------------------------------------------------------
\* Rotations: new hooks, the new root of the subtree being the caller's to link.

\* A mutant: the node that changes parents is not told.
SetParent_Forgotten(tree, node, parent) == tree

SetParent(tree, node, parent) ==
    IF node = Zero THEN tree ELSE [tree EXCEPT ![node].parent = parent]

\* Z, the child of X opposite to direction, takes X's place.
RotateSimple(tree, X, Z, direction) ==
    LET b == tree[Z].child[direction]
        q == IF tree[Z].balance # 0 THEN 0 ELSE IF direction = 1 THEN 1 ELSE -1
    IN SetParent([tree EXCEPT ![X].child[1 - direction] = b,
                              ![X].parent = Z, ![X].balance = -q,
                              ![Z].child[direction] = X, ![Z].balance = q],
                 b, X)

\* Y, the child of Z towards direction, takes X's place with both below it.
RotateDouble(tree, X, Z, direction) ==
    LET Y == tree[Z].child[direction]
        b == tree[Y].child[0]
        c == tree[Y].child[1]
        P == IF direction = 1 THEN Z ELSE X
        Q == IF direction = 1 THEN X ELSE Z
        y == tree[Y].balance
        turned == [tree EXCEPT
                      ![P].child[1] = b, ![P].parent = Y,
                      ![P].balance = IF y = 1 THEN -1 ELSE 0,
                      ![Q].child[0] = c, ![Q].parent = Y,
                      ![Q].balance = IF y = -1 THEN 1 ELSE 0,
                      ![Y].child = [d \in 0..1 |-> IF d = 0 THEN P ELSE Q],
                      ![Y].balance = 0]
    IN SetParent(SetParent(turned, b, P), c, Q)

\* What InsertAndRebalance and RotateSimple, RotateDouble assert of the nodes
\* they rotate.
Rotatable(tree, X, Z, direction, double) ==
    /\ tree[X].child[1 - direction] = Z
    /\ double => tree[Z].child[direction] # Zero
    /\ ~double => tree[Z].balance \in {0, IF direction = 1 THEN -1 ELSE 1}

-----------------------------------------------------------------------------
TreeInit ==
    /\ root = Zero
    /\ nodes = [key \in Keys |-> Hook(Zero)]
    /\ current = Zero
    /\ answer = [key |-> Zero, found |-> FALSE, visited |-> 0]
    /\ cursor = Zero
    /\ failed = FALSE

Idle == current = Zero /\ ~failed

Report(key, path) ==
    answer' = [key |-> key, found |-> Last(path) = key, visited |-> Visited(path)]

\* IntrusiveBinaryTree::find.
Find(key) ==
    /\ Idle
    /\ Report(key, Descent(nodes, root, key))
    /\ UNCHANGED <<root, nodes, current, cursor, failed>>

\* insert of a node whose key is there already: the existing node is
\* reported and the tree stays.
InsertExisting(key) ==
    LET path == Descent(nodes, root, key)
    IN /\ Idle
       /\ Last(path) = key
       /\ Report(key, path)
       /\ UNCHANGED <<root, nodes, current, cursor, failed>>

\* insert: the node is hooked below the last node visited; retracing starts
\* from it unless it is the root.
Link(key) ==
    LET path == Descent(nodes, root, key)
        parent == path[Len(path) - 1]
        turn == IF parent < key THEN 1 ELSE 0
    IN /\ Idle
       /\ Last(path) = Zero
       /\ Report(key, path)
       /\ IF root = Zero
          THEN /\ root' = key
               /\ nodes' = [nodes EXCEPT ![key] = Hook(Zero)]
               /\ current' = Zero
          ELSE /\ root' = root
               /\ nodes' = [nodes EXCEPT ![key] = Hook(parent),
                                        ![parent].child[turn] = key]
               /\ current' = key
       /\ UNCHANGED <<cursor, failed>>

\* One turn of the retracing loop: the parent of the current node learns that
\* the subtree on that side grew.  currentNodeBalanceFactor is the factor the
\* loop stored last in the current node.
Retracing == current # Zero /\ ~failed

IsChild(node, parent) == \E d \in 0..1 : nodes[parent].child[d] = node

\* The balance factor of a node higher on the side of its child.
Side(node, parent) == IF nodes[parent].child[0] = node THEN -1 ELSE 1

Stop == failed' = TRUE /\ UNCHANGED <<root, nodes, current>>

RootReached ==
    /\ Retracing
    /\ nodes[current].parent = Zero
    /\ IF current = root THEN current' = Zero /\ UNCHANGED <<root, nodes, failed>>
       ELSE Stop
    /\ UNCHANGED <<answer, cursor>>

\* The parent was balanced and is now higher, or was higher on the other side
\* and is now balanced.
ChangeBalance ==
    LET parent == nodes[current].parent
    IN /\ Retracing
       /\ parent # Zero
       /\ nodes[parent].balance # Side(current, parent)
       /\ IF IsChild(current, parent)
          THEN /\ nodes' = [nodes EXCEPT ![parent].balance =
                              IF @ = 0 THEN Side(current, parent) ELSE 0]
               /\ current' = IF nodes[parent].balance = 0 THEN parent ELSE Zero
               /\ UNCHANGED <<root, failed>>
          ELSE Stop
       /\ UNCHANGED <<answer, cursor>>

\* The parent was higher on this side already: it is rotated, twice when the
\* current node is higher on its other side.
Rotate ==
    LET parent == nodes[current].parent
        above == nodes[parent].parent
        side == Side(current, parent)
        direction == IF side = -1 THEN 1 ELSE 0
        double == nodes[current].balance = -side
        top == IF double THEN nodes[current].child[direction] ELSE current
        rotated == IF double THEN RotateDouble(nodes, parent, current, direction)
                   ELSE RotateSimple(nodes, parent, current, direction)
        place == IF nodes[above].child[0] = parent THEN 0 ELSE 1
        linked == SetParent(rotated, top, above)
    IN /\ Retracing
       /\ parent # Zero
       /\ nodes[parent].balance = side
       /\ IF /\ IsChild(current, parent)
             /\ Rotatable(nodes, parent, current, direction, double)
             /\ IF above = Zero THEN parent = root ELSE IsChild(parent, above)
          THEN /\ nodes' = IF above = Zero THEN linked
                           ELSE [linked EXCEPT ![above].child[place] = top]
               /\ root' = IF above = Zero THEN top ELSE root
               /\ current' = Zero
               /\ failed' = FALSE
          ELSE Stop
       /\ UNCHANGED <<answer, cursor>>

Begin ==
    /\ Idle
    /\ cursor' = FindExtreme(nodes, root, 0)
    /\ UNCHANGED <<root, nodes, current, answer, failed>>

\* operator++ and operator-- of an iterator that is not the end.
Advance(direction) ==
    LET next == Iterate(nodes, cursor, direction)
    IN /\ Idle
       /\ cursor # Zero
       /\ cursor' = IF next = Broken THEN Zero ELSE next
       /\ failed' = (next = Broken)
       /\ UNCHANGED <<root, nodes, current, answer>>

TreeNext ==
    \/ \E key \in Keys : Find(key) \/ InsertExisting(key) \/ Link(key)
    \/ RootReached \/ ChangeBalance \/ Rotate
    \/ Begin
    \/ \E direction \in 0..1 : Advance(direction)

-----------------------------------------------------------------------------
\* The keys in the tree: those a search finds.
Members == {key \in Keys : Last(Descent(nodes, root, key)) = key}

Set == INSTANCE OrderedSet WITH members <- Members

(***************************************************************************)
(* The tree implements an ordered set: whatever the order of insertions,   *)
(* every inserted key stays findable through every step of rebalancing, a  *)
(* search costs no more than in a balanced tree, an iterator kept across   *)
(* insertions continues in key order, and no assertion of AVLTreeLogic     *)
(* fails.                                                                  *)
(***************************************************************************)
ImplementsOrderedSet == Set!Spec
=============================================================================
