----------------------------- MODULE OrderedSet -----------------------------
(***************************************************************************)
(* What IntrusiveBinaryTree promises: a set of keys that grows, answers    *)
(* whether a key is in it after visiting no more nodes than the height of  *)
(* the tallest balanced tree of that size, and is walked in key order by   *)
(* an iterator that insertions do not disturb.                             *)
(***************************************************************************)
EXTENDS Integers, FiniteSets

CONSTANTS Keys,   \* the keys, natural numbers above zero
          Zero    \* no node: the end iterator

VARIABLES members,  \* the keys inserted
          answer,   \* what the last search or insertion reported
          cursor,   \* the key the iterator stands on, or Zero
          failed    \* an assertion of the tree failed

setVars == <<members, answer, cursor, failed>>

NoAnswer == [key |-> Zero, found |-> FALSE, visited |-> 0]

\* Nodes in the smallest balanced tree of height h, its subtrees' heights
\* differing by one.
FewestNodes[h \in Nat] ==
    IF h < 2 THEN h ELSE FewestNodes[h - 1] + FewestNodes[h - 2] + 1

\* The numbers of nodes a search of a balanced tree of n nodes may visit.
Visits(n) == {h \in 0..n : FewestNodes[h] <= n}

\* The neighbour of k in the set: above it for direction 1, below it for 0.
Neighbour(k, direction) ==
    LET Beyond(m) == IF direction = 1 THEN m > k ELSE m < k
        Nearer(m, o) == IF direction = 1 THEN m <= o ELSE m >= o
        candidates == {m \in members : Beyond(m)}
    IN IF candidates = {} THEN Zero
       ELSE CHOOSE m \in candidates : \A o \in candidates : Nearer(m, o)

Init ==
    /\ members = {}
    /\ answer = NoAnswer
    /\ cursor = Zero
    /\ failed = FALSE

Answer(key) ==
    \E v \in Visits(Cardinality(members)) :
        answer' = [key |-> key, found |-> key \in members, visited |-> v]

Find(key) ==
    /\ Answer(key)
    /\ UNCHANGED <<members, cursor, failed>>

Insert(key) ==
    /\ Answer(key)
    /\ members' = members \cup {key}
    /\ UNCHANGED <<cursor, failed>>

Begin ==
    /\ cursor' = Neighbour(Zero, 1)
    /\ UNCHANGED <<members, answer, failed>>

Advance(direction) ==
    /\ cursor # Zero
    /\ cursor' = Neighbour(cursor, direction)
    /\ UNCHANGED <<members, answer, failed>>

Next ==
    \/ \E key \in Keys : Find(key) \/ Insert(key)
    \/ Begin
    \/ \E direction \in 0..1 : Advance(direction)

Spec == Init /\ [][Next]_setVars
=============================================================================
