-------------------------------- MODULE AemGc --------------------------------
(***************************************************************************)
(* The mark and sweep collector of gc.c, with the generation counters of   *)
(* iter_gen.h as its mark bits.                                            *)
(*                                                                         *)
(* aem_gc_run marks from the externally referenced objects, then from the  *)
(* roots, runs the destructor of every object the marking did not hit, and *)
(* only then frees them.  Destructors are user code in the middle of a     *)
(* run: they may create objects, drop references and deregister roots.     *)
(* The context's list of objects is a set here: every loop over it visits  *)
(* its elements in any order.                                              *)
(***************************************************************************)
EXTENDS Integers, FiniteSets

CONSTANTS
    Objs,      \* the struct aem_gc_object addresses of the program
    Roots,     \* its struct aem_gc_root
    MaxRefs,   \* bound on obj->refs (a size_t in the code)
    MaxEdges,  \* bound on the pointers one object holds
    GenMod     \* generations before the counter wraps (2^32 in the code)

ASSUME GcAssumption ==
    /\ IsFiniteSet(Objs)
    /\ MaxRefs \in Nat \ {0}
    /\ MaxEdges \in Nat
    /\ GenMod \in Nat /\ GenMod >= 2

VARIABLES
    objects,    \* ctx->objects, the registered objects
    refs,       \* obj->refs
    edges,      \* the objects obj points to, which its mark callback marks
    roots,      \* ctx->roots, the registered roots
    targets,    \* the objects a root points to
    gen, id,    \* obj->iter
    masterGen, masterId,  \* ctx->objects.iter
    phase,      \* where aem_gc_run is, or "mutator" outside it
    todo,       \* the objects, or roots, the current loop has yet to visit
    calls,      \* the calls of aem_gc_mark that are to be made
    closing,    \* aem_gc_dtor has begun
    dtored      \* history: objects whose destructor has run

heap == <<objects, refs, edges>>
rootset == <<roots, targets>>
iter == <<gen, id, masterGen, masterId>>
run == <<phase, todo, calls>>
history == <<closing, dtored>>
vars == <<heap, rootset, iter, run, history>>

\* aem_iter_gen_hit
Hit(o) == gen[o] = masterGen

Init ==
    /\ objects = {} /\ roots = {}
    /\ refs = [o \in Objs |-> 0]
    /\ edges = [o \in Objs |-> {}]
    /\ targets = [r \in Roots |-> {}]
    /\ gen = [o \in Objs |-> 0] /\ id = [o \in Objs |-> 0]
    /\ masterGen = 0 /\ masterId = 0
    /\ phase = "mutator" /\ todo = {} /\ calls = {}
    /\ closing = FALSE /\ dtored = {}

-----------------------------------------------------------------------------
(* The program: outside a run, or in the destructor of a dead object, which *)
(* must not touch an object that is to be freed                             *)

Running == phase = "callback" \/ (phase = "mutator" /\ ~closing)
Usable(o) == o \in objects /\ (phase = "callback" => Hit(o))

\* (mutant) master->id is not incremented.
SameId == masterId

\* aem_iter_gen_init and aem_iter_gen_id: master->id++.
NextId == masterId + 1

\* (mutant) a new object looks as if the last run had not reached it.
LastGen == IF masterGen = 0 THEN GenMod - 1 ELSE masterGen - 1

\* aem_iter_gen_init: obj->gen = master->gen.
BirthGen == masterGen

\* aem_gc_register: a reference for the caller, and the current generation.
Register(o) ==
    /\ Running
    /\ o \notin objects
    /\ objects' = objects \cup {o}
    /\ refs' = [refs EXCEPT ![o] = 1]
    /\ edges' = [edges EXCEPT ![o] = {}]
    /\ gen' = [gen EXCEPT ![o] = BirthGen]
    /\ id' = [id EXCEPT ![o] = masterId]
    /\ masterId' = NextId
    /\ dtored' = dtored \ {o}
    /\ UNCHANGED <<rootset, masterGen, run, closing>>

Ref(o) ==
    /\ Running /\ Usable(o)
    /\ refs[o] < MaxRefs
    /\ refs' = [refs EXCEPT ![o] = @ + 1]
    /\ UNCHANGED <<objects, edges, rootset, iter, run, history>>

Unref(o) ==
    /\ Running /\ o \in objects
    /\ refs[o] > 0
    /\ refs' = [refs EXCEPT ![o] = @ - 1]
    /\ UNCHANGED <<objects, edges, rootset, iter, run, history>>

\* The program stores a pointer to o in p, or overwrites one.
Link(p, o) ==
    /\ Running /\ Usable(p) /\ Usable(o)
    /\ Cardinality(edges[p]) < MaxEdges
    /\ edges' = [edges EXCEPT ![p] = @ \cup {o}]
    /\ UNCHANGED <<objects, refs, rootset, iter, run, history>>

Unlink(p, o) ==
    /\ Running /\ Usable(p)
    /\ o \in edges[p]
    /\ edges' = [edges EXCEPT ![p] = @ \ {o}]
    /\ UNCHANGED <<objects, refs, rootset, iter, run, history>>

\* aem_gc_root_register, of a root that points to o.
RootRegister(r, o) ==
    /\ Running /\ Usable(o)
    /\ r \notin roots
    /\ roots' = roots \cup {r}
    /\ targets' = [targets EXCEPT ![r] = {o}]
    /\ UNCHANGED <<heap, iter, run, history>>

RootDeregister(r) ==
    /\ Running
    /\ r \in roots
    /\ roots' = roots \ {r}
    /\ targets' = [targets EXCEPT ![r] = {}]
    /\ UNCHANGED <<heap, iter, run, history>>

Mutate ==
    \/ \E o \in Objs :
          \/ Register(o) \/ Ref(o) \/ Unref(o)
          \/ \E p \in Objs : Link(p, o) \/ Unlink(p, o)
          \/ \E r \in Roots : RootRegister(r, o)
    \/ \E r \in Roots : RootDeregister(r)

-----------------------------------------------------------------------------
(* aem_gc_run *)

\* (mutant) the generation counter never wraps.
GenAfterUnbounded(g) == g + 1

\* aem_iter_gen_reset_master: master->gen++, which wraps.
GenAfter(g) == IF g + 1 = GenMod THEN 0 ELSE g + 1

\* aem_iter_gen_reset_master, then the loop over the referenced objects.
BeginRun ==
    /\ masterGen' = GenAfter(masterGen)
    /\ masterId' = 0
    /\ phase' = "refs"
    /\ todo' = objects
    /\ dtored' = {}
    /\ UNCHANGED <<heap, gen, id, calls>>

Run ==
    /\ phase = "mutator" /\ ~closing
    /\ BeginRun
    /\ UNCHANGED <<rootset, closing>>

\* aem_gc_dtor abandons the roots before it collects.
Dtor ==
    /\ phase = "mutator" /\ ~closing
    /\ closing' = TRUE
    /\ roots' = {} /\ targets' = [r \in Roots |-> {}]
    /\ BeginRun

\* (mutants) references are ignored, or taken for granted.
Unreferenced(o) == FALSE
AlwaysReferenced(o) == TRUE

\* if (curr->refs)
Referenced(o) == refs[o] > 0

MarkReferenced(o) ==
    /\ phase = "refs" /\ calls = {}
    /\ o \in todo
    /\ todo' = todo \ {o}
    /\ calls' = IF Referenced(o) THEN {o} ELSE {}
    /\ UNCHANGED <<heap, rootset, iter, phase, history>>

\* (mutant) the mark callback of obj is not called.
MarksNothing(o) == {}

\* The calls of aem_gc_mark that obj->vtbl->mark makes.
MarksOf(o) == edges[o]

\* (mutant) the early return for an object already seen is missing.
SeenMarkedAgain(o) == (calls \ {o}) \cup edges[o]

\* if (id < 0) return;
SeenReturns(o) == calls \ {o}

\* aem_gc_mark: aem_iter_gen_id takes a new id for an object it has not seen, and
\* its mark callback calls aem_gc_mark for everything it points to.
Mark(o) ==
    /\ o \in calls
    /\ IF Hit(o)
       THEN calls' = SeenReturns(o) /\ UNCHANGED iter
       ELSE /\ gen' = [gen EXCEPT ![o] = masterGen]
            /\ id' = [id EXCEPT ![o] = masterId]
            /\ masterId' = NextId
            /\ UNCHANGED masterGen
            /\ calls' = (calls \ {o}) \cup MarksOf(o)
    /\ UNCHANGED <<heap, rootset, phase, todo, history>>

MarkRoot(r) ==
    /\ phase = "roots" /\ calls = {}
    /\ r \in todo
    /\ todo' = todo \ {r}
    /\ calls' = targets[r]
    /\ UNCHANGED <<heap, rootset, iter, phase, history>>

\* One loop ends and the next begins.
NextLoop(from, to, over) ==
    /\ phase = from /\ calls = {} /\ todo = {}
    /\ phase' = to
    /\ todo' = over
    /\ UNCHANGED <<heap, rootset, iter, calls, history>>

MarkRoots == NextLoop("refs", "roots", roots)
DtorAll == NextLoop("roots", "dtor", objects)
FreeAll == NextLoop("dtor", "free", objects)
EndRun == NextLoop("free", "mutator", {})

\* A dead object's destructor runs; it is user code and returns later.
Destruct(o) ==
    /\ phase = "dtor"
    /\ o \in todo
    /\ todo' = todo \ {o}
    /\ IF Hit(o)
       THEN UNCHANGED <<phase, dtored>>
       ELSE phase' = "callback" /\ dtored' = dtored \cup {o}
    /\ UNCHANGED <<heap, rootset, iter, calls, closing>>

DestructReturns ==
    /\ phase = "callback"
    /\ phase' = "dtor"
    /\ UNCHANGED <<heap, rootset, iter, todo, calls, history>>

\* The filter loop: a dead object's free callback, then its removal.
Free(o) ==
    /\ phase = "free"
    /\ o \in todo
    /\ todo' = todo \ {o}
    /\ IF Hit(o)
       THEN UNCHANGED <<heap, gen, id>>
       ELSE /\ objects' = objects \ {o}
            /\ refs' = [refs EXCEPT ![o] = 0]
            /\ edges' = [edges EXCEPT ![o] = {}]
            /\ gen' = [gen EXCEPT ![o] = 0] /\ id' = [id EXCEPT ![o] = 0]
    /\ UNCHANGED <<rootset, masterGen, masterId, phase, calls, history>>

Collect ==
    \/ \E o \in Objs : MarkReferenced(o) \/ Mark(o) \/ Destruct(o) \/ Free(o)
    \/ \E r \in Roots : MarkRoot(r)
    \/ MarkRoots \/ DtorAll \/ FreeAll \/ EndRun

Next == Mutate \/ Run \/ Dtor \/ Collect \/ DestructReturns

Spec == Init /\ [][Next]_vars

\* aem_gc_run is a synchronous call, and destructors return.  Nothing makes the
\* program call anything.
FairSpec == Spec /\ WF_vars(Collect) /\ WF_vars(DestructReturns)
-----------------------------------------------------------------------------
(* Properties *)

\* Type correctness.
TypeOK ==
    /\ objects \subseteq Objs /\ roots \subseteq Roots
    /\ refs \in [Objs -> Nat]
    /\ edges \in [Objs -> SUBSET Objs]
    /\ targets \in [Roots -> SUBSET Objs]
    /\ gen \in [Objs -> 0 .. GenMod-1] /\ masterGen \in 0 .. GenMod-1
    /\ id \in [Objs -> Nat] /\ masterId \in Nat
    /\ phase \in {"mutator", "refs", "roots", "dtor", "callback", "free"}
    /\ phase = "roots" => todo \subseteq Roots
    /\ phase # "roots" => todo \subseteq Objs
    /\ calls \subseteq Objs
    /\ closing \in BOOLEAN
    /\ dtored \subseteq Objs

\* No registered root and no object that survives points to freed memory: between
\* runs every pointer is good, and from the end of the marking on those of the
\* objects that are to survive are, whatever the destructors do in between.
NoDangling ==
    /\ \A r \in roots : targets[r] \subseteq objects
    /\ phase \notin {"free", "mutator"} => \A o \in objects : edges[o] \subseteq objects
    /\ phase \in {"free", "mutator"} => \A o \in objects : Hit(o) => edges[o] \subseteq objects
    /\ phase = "mutator" => \A o \in objects : Hit(o)

\* What the program can reach: the least set that holds the externally referenced
\* objects and the roots' targets and is closed under the pointers.
Keeps(S) ==
    /\ \A o \in objects : refs[o] > 0 => o \in S
    /\ \A r \in roots : targets[r] \subseteq S
    /\ \A o \in S : edges[o] \subseteq S
Reachable == {o \in objects : \A S \in SUBSET Objs : Keeps(S) => o \in S}

\* The marking is exact: when it is over, the objects hit are the reachable ones,
\* neither one more (a leak) nor one less (a use after free).
MarkingExact ==
    phase = "roots" /\ todo = {} /\ calls = {} => {o \in objects : Hit(o)} = Reachable

\* An object is freed in the run in which its destructor ran, and never without:
\* all destructors of a run come before the first free, so that they may still
\* look at each other's objects, and nothing destructed survives the run.
DestructedThenFreed ==
    /\ phase = "free" => \A o \in todo : Hit(o) \/ o \in dtored
    /\ phase = "mutator" => objects \cap dtored = {}

\* A referenced object is never freed, nor is one freed outside a run, by its
\* destructor, or while another destructor has yet to return.
FreesOnlyDead ==
    [][\A o \in objects \ objects' : refs[o] = 0 /\ ~Hit(o) /\ phase = "free"]_vars

\* "it will return an identifier number >= 0 unique since the last call to
\* aem_iter_gen_master_reset" (iter_gen.h:15): also for objects registered
\* between two resets.
IdsUnique ==
    \A o \in objects : Hit(o) =>
        /\ id[o] < masterId
        /\ \A p \in objects : Hit(p) /\ p # o => id[p] # id[o]

\* Both, since the ids and the marks are the same counter: it names objects between two
\* resets, and its wrap must not make one look as if it had been visited.
VisitsExact == MarkingExact /\ IdsUnique

\* Objects go in order: destructed, all of them, and then freed, the dead ones only.
FreesInOrder == []DestructedThenFreed /\ FreesOnlyDead

\* Every run of the collector ends, cycles in the heap and destructors that create
\* objects notwithstanding.
RunEnds == phase # "mutator" ~> phase = "mutator"
=============================================================================
