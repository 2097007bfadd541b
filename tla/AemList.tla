------------------------------- MODULE AemList -------------------------------
(***************************************************************************)
(* The doubly linked rings of linked_list.h: a record of the next and prev *)
(* pointers of all nodes, and the macros as operators that return the      *)
(* record after their assignments.                                         *)
(***************************************************************************)
EXTENDS Naturals

Rings(nodes) == [next : [nodes -> nodes], prev : [nodes -> nodes]]

\* AEM_LL2_INIT of every node: memory that was never linked points to itself.
Unlinked(nodes) == [next |-> [n \in nodes |-> n], prev |-> [n \in nodes |-> n]]

\* AEM_LL2_INIT
Alone(l, n) == [next |-> [l.next EXCEPT ![n] = n], prev |-> [l.prev EXCEPT ![n] = n]]

\* AEM_LL2_INSERT_BEFORE
InsertedBefore(l, chain, n) ==
    [next |-> [l.next EXCEPT ![n] = chain, ![l.prev[chain]] = n],
     prev |-> [l.prev EXCEPT ![n] = l.prev[chain], ![chain] = n]]

\* (mutant) AEM_LL2_INSERT_AFTER in its place.
InsertedAfter(l, chain, n) ==
    [next |-> [l.next EXCEPT ![n] = l.next[chain], ![chain] = n],
     prev |-> [l.prev EXCEPT ![l.next[chain]] = n, ![n] = chain]]

\* AEM_LL2_REMOVE, which may be repeated.
Removed(l, n) ==
    [next |-> [l.next EXCEPT ![l.prev[n]] = l.next[n], ![n] = n],
     prev |-> [l.prev EXCEPT ![l.next[n]] = l.prev[n], ![n] = n]]

\* AEM_LL2_EMPTY, of a node as of a chain.
Single(l, n) == l.next[n] = n

\* The node at which AEM_LL_FOR_ALL is after k steps from the chain.
Visited(l, chain, bound) ==
    LET walk[k \in 0 .. bound] == IF k = 0 THEN chain ELSE l.next[walk[k - 1]] IN walk

\* The first node of the ring in a set: what a search with AEM_LL_FOR_ALL returns.
FirstIn(l, chain, set, bound) ==
    LET walk == Visited(l, chain, bound) IN
    {walk[k] : k \in {k \in 1 .. bound : /\ walk[k] \in set
                                         /\ \A j \in 1 .. k - 1 : walk[j] \notin set \cup {chain}}}

\* AEM_LL2_VERIFY, and that the ring has the nodes of a sequence in this order.
Holds(l, chain, order, len) ==
    LET at(k) == IF k \in 1 .. len THEN order[k] ELSE chain IN
    \A k \in 0 .. len : l.next[at(k)] = at(k + 1) /\ l.prev[at(k + 1)] = at(k)
=============================================================================
