---------------------------- MODULE AemRegistryAbs ----------------------------
(***************************************************************************)
(* What a registry promises: the registered items have ids, one each; a    *)
(* new one gets the least id that nobody has, so there are no more ids     *)
(* than items; a registry that is destroyed has nothing left in it.        *)
(***************************************************************************)
EXTENDS Integers, FiniteSets

CONSTANT Items

VARIABLES ids,  \* the id of each item, or -1
          open  \* the registry exists

vars == <<ids, open>>

Init == ids = [x \in Items |-> -1] /\ open = TRUE

Holders(i) == {x \in Items : ids[x] = i}

Register(x, i) ==
    /\ open /\ ids[x] = -1
    /\ Holders(i) = {}
    /\ \A j \in 0 .. i - 1 : Holders(j) # {}
    /\ ids' = [ids EXCEPT ![x] = i]
    /\ UNCHANGED open

Deregister(x) ==
    /\ ids[x] # -1
    /\ ids' = [ids EXCEPT ![x] = -1]
    /\ UNCHANGED open

Destroy ==
    /\ open /\ \A x \in Items : ids[x] = -1
    /\ open' = FALSE
    /\ UNCHANGED ids

Create == ~open /\ open' = TRUE /\ UNCHANGED ids

Next ==
    \/ \E x \in Items : Deregister(x) \/ \E i \in 0 .. Cardinality(Items) - 1 : Register(x, i)
    \/ Destroy \/ Create

Spec == Init /\ [][Next]_vars
=============================================================================
