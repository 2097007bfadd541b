----------------------------- MODULE AemRegistry -----------------------------
(***************************************************************************)
(* registry.c: items with names and ids in the slots of a stack.  One      *)
(* registry, and callbacks (reg->dtor) that call back into it.             *)
(***************************************************************************)
EXTENDS AemSlots, FiniteSets

CONSTANTS
    Items,
    Names,       \* names and keys: records [hash, text], where hash says that there is a "#" in front
    Value,       \* the number that a text stands for, or -1
    LateRegister,\* items may be registered while the registry is being destroyed
    MaxCalls     \* bound: callbacks that run at a time

ASSUME RegistryAssumption ==
    /\ IsFiniteSet(Items) /\ Null \notin Items
    /\ \A n \in Names : n.hash \in BOOLEAN /\ Value[n.text] \in Int
    /\ LateRegister \in BOOLEAN /\ MaxCalls \in Nat

VARIABLES
    stk, maxn,  \* reg->stk
    noDups,     \* the flag AEM_REGISTRY_NO_DUPS
    hasDtor,    \* reg->dtor is set
    id, reg,    \* of each item; reg is whether item->reg is set
    name,       \* the name of each item
    calls,      \* the items whose dtor callbacks are running, innermost first
    at,         \* where the loop of aem_registry_dtor is, or -1
    open,       \* between aem_registry_init and aem_registry_dtor
    failed      \* an assertion has failed

regVars == <<stk, maxn, noDups, hasDtor, id, reg, name, calls, at, open, failed>>

Init ==
    /\ stk = <<>> /\ maxn = 0
    /\ noDups \in BOOLEAN /\ hasDtor \in BOOLEAN
    /\ id = [x \in Items |-> -1] /\ reg = [x \in Items |-> FALSE]
    /\ \E n \in Names : name = [x \in Items |-> n]
    /\ calls = <<>> /\ at = -1 /\ open = TRUE /\ failed = FALSE

Registered == {x \in Items : id[x] # -1}

\* The program runs, and not the loop of aem_registry_dtor.
Running == ~failed /\ (at = -1 \/ calls # <<>>)

-----------------------------------------------------------------------------
(* Looking up *)

\* aem_registry_by_id and aem_registry_by_name; a set is empty for NULL.
ById(i) == {Index(stk, i)} \ {Null}
Named(n) == {k \in 1 .. Len(stk) : stk[k] # Null /\ name[stk[k]] = n}
ByName(n) == {stk[k] : k \in {k \in Named(n) : \A j \in Named(n) : k <= j}}

\* (mutant) the "#" is only skipped.
LookupNameFirst(key) ==
    IF ByName(key) # {} THEN ByName(key) ELSE ById(Value[key.text])

\* aem_registry_lookup
Lookup(key) ==
    IF ~key.hash /\ ByName(key) # {} THEN ByName(key)
    ELSE IF ById(Value[key.text]) # {} THEN ById(Value[key.text])
    ELSE ByName(key)

-----------------------------------------------------------------------------
(* Registering *)

MayRegister == Running /\ open /\ (at = -1 \/ LateRegister)

\* The end of aem_registrable_register.
Enter(x) == \E i \in 0 .. Len(stk) :
    /\ IsFirstEmpty(stk, i)
    /\ stk' = Assigned(stk, i, x)
    /\ maxn' = IF i = Len(stk) THEN Grown(maxn, i + 1) ELSE maxn
    /\ id' = [id EXCEPT ![x] = i]
    /\ reg' = [reg EXCEPT ![x] = TRUE]

\* (mutant) the flag is not looked at.
TakenByNobody(n) == FALSE

Taken(n) == noDups /\ ByName(n) # {}

\* aem_registrable_register; with a name that is taken, it only returns -1.
Register(x) ==
    /\ MayRegister /\ id[x] = -1 /\ ~Taken(name[x])
    /\ Enter(x)
    /\ UNCHANGED <<noDups, hasDtor, name, calls, at, open, failed>>

\* aem_registry_get, when on_get_miss makes an item of that name and registers it.
Get(n, x) ==
    /\ MayRegister /\ id[x] = -1 /\ ByName(n) = {}
    /\ name' = [name EXCEPT ![x] = n]
    /\ Enter(x)
    /\ UNCHANGED <<noDups, hasDtor, calls, at, open, failed>>

\* The owner names an item before it registers it.
SetName(x, n) ==
    /\ Running /\ id[x] = -1 /\ name[x] # n
    /\ name' = [name EXCEPT ![x] = n]
    /\ UNCHANGED <<stk, maxn, noDups, hasDtor, id, reg, calls, at, open, failed>>

-----------------------------------------------------------------------------
(* Deregistering *)

\* (mutant) the id is kept for the next time.
IdKept(i) == i

Cleared(i) == -1

\* aem_registrable_deregister, with aem_stack_remove.
Leave(x) ==
    LET emptied == [stk EXCEPT ![id[x] + 1] = Null] IN
    /\ failed' = (Index(stk, id[x]) # x)
    /\ \E n \in 0 .. Len(stk) : IsTrimmed(emptied, n) /\ stk' = SubSeq(emptied, 1, n)
    /\ id' = [id EXCEPT ![x] = Cleared(@)]
    /\ reg' = [reg EXCEPT ![x] = FALSE]

Deregister(x) ==
    /\ Running /\ open /\ id[x] # -1
    /\ Leave(x)
    /\ UNCHANGED <<maxn, noDups, hasDtor, name, calls, at, open>>

\* aem_registry_remove: up to the item's dtor, or all of it when there is none.
RemoveItem(x) ==
    IF hasDtor THEN calls' = <<x>> \o calls /\ UNCHANGED <<stk, id, reg, failed>>
    ELSE Leave(x) /\ UNCHANGED calls

RemoveId(i) == \E x \in ById(i) :
    /\ Running /\ open /\ Len(calls) < MaxCalls
    /\ RemoveItem(x)
    /\ UNCHANGED <<maxn, noDups, hasDtor, name, at, open>>

\* The callback ends with aem_registrable_dtor, whatever it has done before.
Destructed ==
    /\ ~failed /\ calls # <<>>
    /\ IF id[Head(calls)] # -1 THEN Leave(Head(calls))
       ELSE failed' = reg[Head(calls)] /\ UNCHANGED <<stk, id, reg>>
    /\ calls' = Tail(calls)
    /\ UNCHANGED <<maxn, noDups, hasDtor, name, at, open>>

-----------------------------------------------------------------------------
(* aem_registry_dtor, and aem_registry_init after it *)

Close ==
    /\ ~failed /\ open /\ at = -1 /\ calls = <<>>
    /\ at' = 0
    /\ UNCHANGED <<stk, maxn, noDups, hasDtor, id, reg, name, calls, open, failed>>

\* (mutant) the loop counts what is left, as if the stack closed up.
EveryOther(i) == i + 2

NextAt(i) == i + 1

CloseNext ==
    /\ ~failed /\ at \in 0 .. Len(stk) - 1 /\ calls = <<>>
    /\ at' = NextAt(at)
    /\ IF stk[at + 1] # Null THEN RemoveItem(stk[at + 1])
       ELSE UNCHANGED <<stk, id, reg, calls, failed>>
    /\ UNCHANGED <<maxn, noDups, hasDtor, name, open>>

Closed ==
    /\ ~failed /\ at >= Len(stk) /\ calls = <<>>
    /\ stk' = <<>> /\ maxn' = 0 /\ at' = -1 /\ open' = FALSE
    /\ UNCHANGED <<noDups, hasDtor, id, reg, name, calls, failed>>

Reopen ==
    /\ ~failed /\ ~open
    /\ stk' = <<>> /\ maxn' = 0 /\ open' = TRUE
    /\ UNCHANGED <<noDups, hasDtor, id, reg, name, calls, at, failed>>

-----------------------------------------------------------------------------
Next ==
    \/ \E x \in Items : \/ Register(x) \/ Deregister(x)
                        \/ \E n \in Names : Get(n, x) \/ SetName(x, n)
    \/ \E i \in 0 .. Len(stk) - 1 : RemoveId(i)
    \/ Destructed
    \/ Close \/ CloseNext \/ Closed \/ Reopen

Spec == Init /\ [][Next]_regVars

-----------------------------------------------------------------------------
(* Properties *)

\* Types; ids stay below the number of items however many come and go, since they are reused.
TypeOK ==
    /\ stk \in Seq(Items \cup {Null}) /\ maxn \in Nat
    /\ noDups \in BOOLEAN /\ hasDtor \in BOOLEAN /\ open \in BOOLEAN /\ failed \in BOOLEAN
    /\ id \in [Items -> -1 .. Cardinality(Items) - 1]
    /\ reg \in [Items -> BOOLEAN] /\ name \in [Items -> Names]
    /\ calls \in Seq(Items) /\ at \in Int

\* A slot and the item in it name each other, so the assertions of registry.c hold: no
\* item is found under the id of one that came before it, and none is deregistered for another.
SlotsAgree ==
    /\ ~failed
    /\ \A k \in 1 .. Len(stk) : stk[k] # Null => id[stk[k]] = k - 1
    /\ \A x \in Items : /\ reg[x] = (id[x] # -1)
                        /\ id[x] # -1 => id[x] + 1 \in 1 .. Len(stk) /\ stk[id[x] + 1] = x

\* The stack ends with an item and fits its array: it shrinks with every removal
\* that leaves empty slots at its end, also from within the loop over it.
EndsWithItem ==
    /\ stk # <<>> => stk[Len(stk)] # Null
    /\ Len(stk) <= maxn

\* What the code of registry.c and stack.c take for granted of a registry, between any two
\* steps of any callbacks.
RegistryHolds == TypeOK /\ SlotsAgree /\ EndsWithItem

\* With AEM_REGISTRY_NO_DUPS no two registered items have one name.
NamesUnique ==
    noDups => \A x, y \in Registered : name[x] = name[y] => x = y

\* "Get by name or ID (prefix with # to prefer ID)" (registry.h:59): an item is found by
\* its name unless one before it has the same, and by "#" and its id whatever the others are called.
LookupFinds ==
    \A x \in Registered :
       /\ ~name[x].hash => \E y \in Lookup(name[x]) : name[y] = name[x] /\ id[y] <= id[x]
       /\ \A n \in Names : n.hash /\ Value[n.text] = id[x] => Lookup(n) = {x}

\* Who is registered is found by what it is called, alone where names are unique.
NamesFind == NamesUnique /\ LookupFinds

-----------------------------------------------------------------------------
\* The registry as a map from items to ids.
Abs == INSTANCE AemRegistryAbs WITH ids <- id

\* The slots implement the map: the least free id for everyone who comes, ids given back
\* one at a time, and a registry that is destroyed leaves nobody behind who believes to be in it.
AbsSpec == Abs!Spec
=============================================================================
