----------------------------- MODULE AemGcProofs -----------------------------
(***************************************************************************)
(* Proofs about the collector of AemGc, for any set of objects, any heap,  *)
(* and any number of generations above one.                                *)
(***************************************************************************)
EXTENDS AemGc, TLAPS

Marking == phase \in {"refs", "roots"}

\* Outside the marking, what is hit is closed: it holds everything referenced and
\* everything the hit objects and the roots point to.
HitClosed ==
    /\ \A o \in objects : Hit(o) => \A c \in edges[o] : c \in objects /\ Hit(c)
    /\ \A o \in objects : refs[o] > 0 => Hit(o)
    /\ \A r \in roots : \A c \in targets[r] : c \in objects /\ Hit(c)

\* During the marking, what a hit object points to is hit or about to be marked
\* (no black object points to a white one), and everything referenced or pointed
\* to by a root is hit, about to be marked, or still to be visited.
Tricolour ==
    /\ calls \subseteq objects
    /\ \A o \in objects : Hit(o) => \A c \in edges[o] : Hit(c) \/ c \in calls
    /\ \A o \in objects : refs[o] > 0 => Hit(o) \/ o \in calls \/ (phase = "refs" /\ o \in todo)
    /\ \A r \in roots : \A c \in targets[r] :
          c \in objects /\ (Hit(c) \/ c \in calls \/ phase = "refs" \/ r \in todo)

\* During the marking, nothing is marked that the program could do without.
Frugal ==
    \A S \in SUBSET Objs : Keeps(S) =>
        /\ calls \subseteq S
        /\ \A o \in objects : Hit(o) => o \in S

\* Until the dead are freed, not even they point to freed memory.
EdgesClosed == phase # "free" => \A o \in objects : \A c \in edges[o] : c \in objects

\* The dead objects are on their way through destruction and freeing.
Sweep ==
    /\ phase \in {"refs", "roots"} => dtored = {}
    /\ phase = "mutator" => \A o \in objects : Hit(o)
    /\ \A o \in objects : o \in dtored => ~Hit(o)
    /\ phase \in {"dtor", "callback"} => \A o \in objects : Hit(o) \/ o \in dtored \/ o \in todo
    /\ phase = "free" => \A o \in objects : Hit(o) \/ (o \in dtored /\ o \in todo)
    /\ phase \in {"refs", "free"} => todo \subseteq objects
    /\ phase = "roots" => todo \subseteq roots

Marks ==
    /\ Marking => Tricolour /\ Frugal
    /\ ~Marking => HitClosed /\ calls = {}

IInv == TypeOK /\ Marks /\ EdgesClosed /\ Sweep

Safe == NoDangling /\ MarkingExact /\ DestructedThenFreed

-----------------------------------------------------------------------------
(* The invariant implies the properties *)

LEMMA InvSafe == IInv => Safe
  <1> SUFFICES ASSUME IInv PROVE Safe
    OBVIOUS
  <1> USE DEF IInv
  <1>1. NoDangling
    BY DEF NoDangling, TypeOK, Marks, Marking, EdgesClosed, Sweep, HitClosed, Tricolour
  <1>2. MarkingExact
    <2> SUFFICES ASSUME phase = "roots", todo = {}, calls = {}
                 PROVE  {o \in objects : Hit(o)} = Reachable
      BY DEF MarkingExact
    <2>1. Tricolour /\ Frugal
      BY DEF Marks, Marking
    <2> DEFINE H == {o \in objects : Hit(o)}
    <2>2. H \in SUBSET Objs
      BY DEF TypeOK
    <2>3. Keeps(H)
      <3>1. \A o \in objects : refs[o] > 0 => o \in H
        BY <2>1 DEF Tricolour
      <3>2. \A r \in roots : targets[r] \subseteq H
        BY <2>1 DEF Tricolour
      <3>3. \A o \in H : edges[o] \subseteq H
        BY <2>1 DEF Tricolour, EdgesClosed
      <3> QED
        BY <3>1, <3>2, <3>3 DEF Keeps
    <2>4. H \subseteq Reachable
      BY <2>1 DEF Frugal, Reachable
    <2>5. Reachable \subseteq H
      BY <2>2, <2>3 DEF Reachable
    <2> QED
      BY <2>4, <2>5
  <1>3. DestructedThenFreed
    <2>1. ASSUME phase = "free", NEW o \in todo
          PROVE  Hit(o) \/ o \in dtored
      BY <2>1 DEF Sweep
    <2>2. ASSUME phase = "mutator"
          PROVE  objects \cap dtored = {}
      BY <2>2 DEF Sweep
    <2> QED
      BY <2>1, <2>2 DEF DestructedThenFreed
  <1> QED
    BY <1>1, <1>2, <1>3 DEF Safe

LEMMA InitInv == Init => IInv
  <1> SUFFICES ASSUME Init PROVE IInv
    OBVIOUS
  <1>1. TypeOK
    <2>1. /\ gen \in [Objs -> 0 .. GenMod-1] /\ masterGen \in 0 .. GenMod-1
          /\ refs \in [Objs -> Nat] /\ id \in [Objs -> Nat] /\ masterId \in Nat
      BY GcAssumption DEF Init
    <2>2. edges \in [Objs -> SUBSET Objs] /\ targets \in [Roots -> SUBSET Objs]
      BY DEF Init
    <2>3. closing \in BOOLEAN
      BY Zenon DEF Init
    <2> QED
      BY <2>1, <2>2, <2>3 DEF Init, TypeOK
  <1>2. Marks
    BY DEF Init, Marks, Marking, HitClosed
  <1>3. EdgesClosed
    BY DEF Init, EdgesClosed
  <1>4. Sweep
    BY DEF Init, Sweep
  <1> QED
    BY <1>1, <1>2, <1>3, <1>4 DEF IInv

-----------------------------------------------------------------------------
(* The program's own steps *)

\* What a step of the program leaves alone, in the middle of a run or outside.
ProgramStep ==
    /\ phase \in {"mutator", "callback"}
    /\ phase' = phase /\ todo' = todo /\ calls' = calls /\ masterGen' = masterGen

LEMMA ProgramMarks ==
  ASSUME IInv, ProgramStep, TypeOK', HitClosed', EdgesClosed', Sweep'
  PROVE  IInv'
  BY DEF IInv, ProgramStep, Marks, Marking

LEMMA MutateInv == IInv /\ Mutate => IInv'
  <1> SUFFICES ASSUME IInv, Mutate PROVE IInv'
    OBVIOUS
  <1>0. TypeOK /\ EdgesClosed /\ Sweep /\ (phase \in {"mutator", "callback"} => HitClosed)
    BY DEF IInv, Marks, Marking
  <1>1. ASSUME NEW o \in Objs, Register(o)
        PROVE  IInv'
    <2>1. ProgramStep /\ HitClosed /\ o \notin objects
      BY <1>0, <1>1 DEF Register, Running, run, ProgramStep
    <2>2. /\ objects' = objects \cup {o} /\ refs' = [refs EXCEPT ![o] = 1]
          /\ edges' = [edges EXCEPT ![o] = {}] /\ gen' = [gen EXCEPT ![o] = masterGen]
          /\ dtored' = dtored \ {o} /\ roots' = roots /\ targets' = targets
          /\ masterGen' = masterGen /\ closing' = closing
      BY <1>1 DEF Register, BirthGen, rootset
    <2>3. /\ id' \in [Objs -> Nat] /\ masterId' \in Nat
      BY <1>0, <1>1 DEF Register, NextId, TypeOK
    <2>4. /\ refs' \in [Objs -> Nat] /\ edges' \in [Objs -> SUBSET Objs]
          /\ gen' \in [Objs -> 0 .. GenMod-1]
      BY <1>0, <2>2 DEF TypeOK
    <2>5. TypeOK'
      BY <1>0, <2>1, <2>2, <2>3, <2>4 DEF TypeOK, ProgramStep
    <2>6. \A p \in objects : /\ p # o /\ p \in Objs /\ refs'[p] = refs[p]
                              /\ edges'[p] = edges[p] /\ (Hit(p)' <=> Hit(p))
      BY <1>0, <2>1, <2>2 DEF TypeOK, Hit
    <2>7. edges'[o] = {} /\ Hit(o)'
      BY <1>0, <2>2 DEF TypeOK, Hit
    <2>8. HitClosed'
      BY <2>1, <2>2, <2>6, <2>7 DEF HitClosed
    <2>9. EdgesClosed'
      BY <1>0, <2>1, <2>2, <2>6, <2>7 DEF EdgesClosed, ProgramStep
    <2>10. Sweep'
      BY <1>0, <2>1, <2>2, <2>6, <2>7 DEF Sweep, ProgramStep
    <2> QED
      BY <2>1, <2>5, <2>8, <2>9, <2>10, ProgramMarks
  <1>2. ASSUME NEW o \in Objs, Ref(o) \/ Unref(o)
        PROVE  IInv'
    <2>1. /\ ProgramStep /\ HitClosed
          /\ UNCHANGED <<objects, edges, rootset, iter, run, history>>
      BY <1>0, <1>2 DEF Ref, Unref, Running, run, iter, ProgramStep
    <2>2. /\ refs' \in [Objs -> Nat]
          /\ \A p \in objects : refs'[p] > 0 => refs[p] > 0 \/ (p = o /\ Usable(o))
      BY <1>0, <1>2 DEF TypeOK, Ref, Unref
    <2>3. TypeOK'
      BY <1>0, <2>1, <2>2 DEF TypeOK, rootset, iter, run, history
    <2>4. \A p \in objects : Hit(p)' <=> Hit(p)
      BY <2>1 DEF Hit, iter
    <2>5. Usable(o) => Hit(o)
      BY <1>0, <2>1 DEF Usable, Sweep, ProgramStep
    <2>6. HitClosed'
      BY <2>1, <2>2, <2>4, <2>5 DEF HitClosed, rootset, Hit, iter
    <2>7. EdgesClosed' /\ Sweep'
      BY <1>0, <2>1, <2>4 DEF EdgesClosed, Sweep, run, history, ProgramStep
    <2> QED
      BY <2>1, <2>3, <2>6, <2>7, ProgramMarks
  <1>3. ASSUME NEW o \in Objs, NEW p \in Objs, Link(p, o) \/ Unlink(p, o)
        PROVE  IInv'
    <2>1. /\ ProgramStep /\ HitClosed
          /\ UNCHANGED <<objects, refs, rootset, iter, run, history>>
      BY <1>0, <1>3 DEF Link, Unlink, Running, run, iter, ProgramStep
    <2>2. /\ edges' \in [Objs -> SUBSET Objs]
          /\ \A q \in objects : \A c \in edges'[q] : c \in edges[q] \/ (c = o /\ Usable(o))
      BY <1>0, <1>3 DEF TypeOK, Link, Unlink
    <2>3. TypeOK'
      BY <1>0, <2>1, <2>2 DEF TypeOK, rootset, iter, run, history
    <2>4. \A q : Hit(q)' <=> Hit(q)
      BY <2>1 DEF Hit, iter
    <2>5. Usable(o) => o \in objects /\ Hit(o)
      BY <1>0, <2>1 DEF Usable, Sweep, ProgramStep
    <2>6. HitClosed'
      BY <2>1, <2>2, <2>4, <2>5 DEF HitClosed, rootset
    <2>7. EdgesClosed' /\ Sweep'
      BY <1>0, <2>1, <2>2, <2>4, <2>5 DEF EdgesClosed, Sweep, run, history, ProgramStep
    <2> QED
      BY <2>1, <2>3, <2>6, <2>7, ProgramMarks
  <1>4. ASSUME NEW r \in Roots, RootDeregister(r) \/ (\E o \in Objs : RootRegister(r, o))
        PROVE  IInv'
    <2>1. /\ ProgramStep /\ HitClosed
          /\ UNCHANGED <<heap, iter, run, history>>
      BY <1>0, <1>4 DEF RootDeregister, RootRegister, Running, run, iter, ProgramStep
    <2>2. /\ roots' \subseteq Roots /\ targets' \in [Roots -> SUBSET Objs]
          /\ \A q \in roots' : \A c \in targets'[q] : (q \in roots /\ c \in targets[q]) \/ Usable(c)
      BY <1>0, <1>4 DEF TypeOK, RootDeregister, RootRegister
    <2>3. TypeOK'
      BY <1>0, <2>1, <2>2 DEF TypeOK, heap, iter, run, history
    <2>4. \A q : Hit(q)' <=> Hit(q)
      BY <2>1 DEF Hit, iter
    <2>5. \A c : Usable(c) => c \in objects /\ Hit(c)
      BY <1>0, <2>1 DEF Usable, Sweep, ProgramStep
    <2>6. HitClosed'
      BY <2>1, <2>2, <2>4, <2>5 DEF HitClosed, heap
    <2>7. EdgesClosed' /\ Sweep'
      BY <1>0, <2>1, <2>4 DEF EdgesClosed, Sweep, heap, run, history, ProgramStep
    <2> QED
      BY <2>1, <2>3, <2>6, <2>7, ProgramMarks
  <1> QED
    BY <1>1, <1>2, <1>3, <1>4 DEF Mutate

-----------------------------------------------------------------------------
(* The collector's steps *)

\* A new generation: every object was hit in the last one, so none is hit now,
\* even if the counter has just wrapped.
LEMMA BeginRunInv ==
  ASSUME IInv, phase = "mutator", BeginRun, closing' \in BOOLEAN,
         \/ UNCHANGED rootset
         \/ roots' = {} /\ targets' = [r \in Roots |-> {}]
  PROVE  IInv'
  <1>0. TypeOK /\ HitClosed /\ EdgesClosed /\ Sweep /\ calls = {}
    BY DEF IInv, Marks, Marking
  <1>1. /\ objects' = objects /\ refs' = refs /\ edges' = edges /\ gen' = gen /\ id' = id
        /\ phase' = "refs" /\ todo' = objects /\ calls' = {} /\ dtored' = {}
        /\ masterId' = 0
    BY <1>0 DEF BeginRun, heap
  <1>2. masterGen' \in 0 .. GenMod-1 /\ masterGen' # masterGen
    BY <1>0, GcAssumption DEF BeginRun, GenAfter, TypeOK
  <1>3. \A o \in objects : ~Hit(o)'
    BY <1>0, <1>1, <1>2 DEF Hit, Sweep
  <1>4. /\ roots' \subseteq Roots /\ targets' \in [Roots -> SUBSET Objs]
        /\ \A r \in roots' : r \in roots /\ targets'[r] = targets[r]
    BY <1>0 DEF rootset, TypeOK
  <1>5. TypeOK'
    BY <1>0, <1>1, <1>2, <1>4 DEF TypeOK
  <1>6. Tricolour' /\ Frugal'
    BY <1>0, <1>1, <1>3, <1>4 DEF Tricolour, Frugal, HitClosed
  <1>7. EdgesClosed'
    BY <1>0, <1>1 DEF EdgesClosed
  <1>8. Sweep'
    BY <1>0, <1>1, <1>3 DEF Sweep
  <1> QED
    BY <1>1, <1>5, <1>6, <1>7, <1>8 DEF IInv, Marks, Marking

\* One call of aem_gc_mark: the object turns from white or pending to hit, and
\* what it points to becomes pending.
LEMMA MarkInv ==
  ASSUME IInv, NEW o \in Objs, Mark(o)
  PROVE  IInv'
  <1>0. TypeOK /\ EdgesClosed /\ Sweep /\ o \in calls
    BY DEF IInv, Mark
  <1>1. Marking /\ Tricolour /\ Frugal /\ o \in objects
    BY <1>0 DEF IInv, Marks, Marking, Tricolour
  <1>2. UNCHANGED <<objects, refs, edges, roots, targets, masterGen, phase, todo, closing, dtored>>
    BY DEF Mark, heap, rootset, iter, history
  <1>3. CASE Hit(o)
    <2>1. calls' = calls \ {o} /\ UNCHANGED <<gen, id, masterId>>
      BY <1>3 DEF Mark, SeenReturns, iter
    <2>2. \A p : Hit(p)' <=> Hit(p)
      BY <1>2, <2>1 DEF Hit
    <2>3. TypeOK'
      BY <1>0, <1>2, <2>1 DEF TypeOK
    <2>4. Tricolour'
      BY <1>1, <1>2, <1>3, <2>1, <2>2 DEF Tricolour
    <2>5. Frugal'
      BY <1>1, <1>2, <2>1, <2>2 DEF Frugal, Keeps
    <2>6. EdgesClosed' /\ Sweep'
      BY <1>0, <1>2, <2>2 DEF EdgesClosed, Sweep
    <2> QED
      BY <1>1, <1>2, <2>3, <2>4, <2>5, <2>6 DEF IInv, Marks, Marking
  <1>4. CASE ~Hit(o)
    <2>1. /\ gen' = [gen EXCEPT ![o] = masterGen] /\ id' = [id EXCEPT ![o] = masterId]
          /\ masterId' = masterId + 1 /\ calls' = (calls \ {o}) \cup edges[o]
      BY <1>4 DEF Mark, NextId, MarksOf
    <2>2. \A p \in Objs : Hit(p)' <=> Hit(p) \/ p = o
      BY <1>0, <1>2, <2>1 DEF Hit, TypeOK
    <2>3. TypeOK'
      <3>1. gen' \in [Objs -> 0 .. GenMod-1] /\ id' \in [Objs -> Nat] /\ masterId' \in Nat /\ calls' \subseteq Objs
        BY <1>0, <2>1 DEF TypeOK
      <3> QED
        BY <1>0, <1>2, <3>1 DEF TypeOK
    <2>4. edges[o] \subseteq objects /\ objects \subseteq Objs
      BY <1>0, <1>1 DEF EdgesClosed, Marking, TypeOK
    <2>5. Tricolour'
      <3>1. calls' \subseteq objects
        BY <1>1, <2>1, <2>4 DEF Tricolour
      <3>2. ASSUME NEW p \in objects, Hit(p)', NEW c \in edges[p]
            PROVE  Hit(c)' \/ c \in calls'
        <4>1. p \in Objs /\ c \in Objs
          BY <2>4, <1>0 DEF TypeOK
        <4> QED
          BY <1>1, <2>1, <2>2, <3>2, <4>1 DEF Tricolour
      <3>3. ASSUME NEW p \in objects, refs[p] > 0
            PROVE  Hit(p)' \/ p \in calls' \/ (phase = "refs" /\ p \in todo)
        BY <1>1, <2>1, <2>2, <2>4, <3>3 DEF Tricolour
      <3>4. ASSUME NEW r \in roots, NEW c \in targets[r]
            PROVE  c \in objects /\ (Hit(c)' \/ c \in calls' \/ phase = "refs" \/ r \in todo)
        BY <1>1, <2>1, <2>2, <2>4 DEF Tricolour
      <3> QED
        BY <1>2, <3>1, <3>2, <3>3, <3>4 DEF Tricolour
    <2>6. Frugal'
      <3>1. ASSUME NEW S \in SUBSET Objs, Keeps(S)
            PROVE  calls' \subseteq S /\ \A p \in objects : Hit(p)' => p \in S
        <4>1. calls \subseteq S /\ \A p \in objects : Hit(p) => p \in S
          BY <1>1, <3>1 DEF Frugal
        <4>2. o \in S /\ edges[o] \subseteq S
          BY <1>0, <3>1, <4>1 DEF Keeps
        <4> QED
          BY <2>1, <2>2, <2>4, <4>1, <4>2
      <3>2. \A S : Keeps(S)' <=> Keeps(S)
        BY <1>2 DEF Keeps
      <3> QED
        BY <1>2, <3>1, <3>2 DEF Frugal
    <2>7. EdgesClosed'
      BY <1>0, <1>2 DEF EdgesClosed
    <2>8. Sweep'
      <3>1. phase \in {"refs", "roots"} /\ phase' = phase /\ dtored = {} /\ dtored' = {}
        BY <1>0, <1>1, <1>2 DEF Sweep, Marking
      <3> QED
        BY <1>0, <1>2, <3>1 DEF Sweep
    <2> QED
      BY <1>1, <1>2, <2>3, <2>5, <2>6, <2>7, <2>8 DEF IInv, Marks, Marking
  <1> QED
    BY <1>3, <1>4

\* A loop of the marking visits a referenced object or a root.
LEMMA VisitInv ==
  ASSUME IInv, (\E o \in Objs : MarkReferenced(o)) \/ (\E r \in Roots : MarkRoot(r))
  PROVE  IInv'
  <1>0. TypeOK /\ EdgesClosed /\ Sweep /\ calls = {}
    BY DEF IInv, MarkReferenced, MarkRoot
  <1>1. Marking /\ Tricolour /\ Frugal
    BY DEF IInv, Marks, Marking, MarkReferenced, MarkRoot
  <1>2. UNCHANGED <<objects, refs, edges, roots, targets, gen, id, masterGen, masterId, phase, closing, dtored>>
    BY DEF MarkReferenced, MarkRoot, heap, rootset, iter, history
  <1>3. \A p : Hit(p)' <=> Hit(p)
    BY <1>2 DEF Hit
  <1>4. ASSUME NEW o \in Objs, MarkReferenced(o)
        PROVE  TypeOK' /\ Tricolour' /\ Frugal'
    <2>1. /\ o \in todo /\ todo' = todo \ {o} /\ phase = "refs"
          /\ calls' = IF refs[o] > 0 THEN {o} ELSE {}
      BY <1>4 DEF MarkReferenced, Referenced
    <2>2. TypeOK'
      BY <1>0, <1>2, <2>1 DEF TypeOK
    <2>3. o \in objects
      BY <1>0, <2>1 DEF Sweep
    <2>4. Tricolour'
      BY <1>0, <1>1, <1>2, <1>3, <2>1, <2>3 DEF Tricolour
    <2>5. Frugal'
      BY <1>1, <1>2, <1>3, <2>1, <2>3 DEF Frugal, Keeps
    <2> QED
      BY <2>2, <2>4, <2>5
  <1>5. ASSUME NEW r \in Roots, MarkRoot(r)
        PROVE  TypeOK' /\ Tricolour' /\ Frugal'
    <2>1. r \in todo /\ todo' = todo \ {r} /\ phase = "roots" /\ calls' = targets[r]
      BY <1>5 DEF MarkRoot
    <2>2. r \in roots
      BY <1>0, <2>1 DEF Sweep
    <2>3. TypeOK'
      BY <1>0, <1>2, <2>1 DEF TypeOK
    <2>4. Tricolour'
      BY <1>0, <1>1, <1>2, <1>3, <2>1, <2>2 DEF Tricolour
    <2>5. Frugal'
      BY <1>1, <1>2, <1>3, <2>1, <2>2 DEF Frugal, Keeps
    <2> QED
      BY <2>3, <2>4, <2>5
  <1>6. TypeOK' /\ Tricolour' /\ Frugal'
    BY <1>4, <1>5
  <1>7. EdgesClosed'
    BY <1>0, <1>2 DEF EdgesClosed
  <1>8. Sweep'
    <2>1. phase \in {"refs", "roots"} /\ phase' = phase /\ dtored = {} /\ dtored' = {}
      BY <1>0, <1>1, <1>2 DEF Sweep, Marking
    <2>2. /\ phase' = "roots" => todo' \subseteq roots'
          /\ phase' = "refs" => todo' \subseteq objects'
      BY <1>0, <1>2 DEF Sweep, MarkReferenced, MarkRoot
    <2> QED
      BY <2>1, <2>2 DEF Sweep
  <1> QED
    BY <1>1, <1>2, <1>6, <1>7, <1>8 DEF IInv, Marks, Marking

\* The end of each loop: at the end of the marking, what is hit is closed; at the
\* end of the destruction, every dead object has been destructed; at the end of
\* the freeing, none is left.
LEMMA LoopInv ==
  ASSUME IInv, MarkRoots \/ DtorAll \/ FreeAll \/ EndRun
  PROVE  IInv'
  <1>0. TypeOK /\ EdgesClosed /\ Sweep /\ calls = {} /\ todo = {}
    BY DEF IInv, MarkRoots, DtorAll, FreeAll, EndRun, NextLoop
  <1>1. UNCHANGED <<objects, refs, edges, roots, targets, gen, id, masterGen, masterId, calls, closing, dtored>>
    BY DEF MarkRoots, DtorAll, FreeAll, EndRun, NextLoop, heap, rootset, iter, history
  <1>2. \A p : Hit(p)' <=> Hit(p)
    BY <1>1 DEF Hit
  <1>3. TypeOK'
    BY <1>0, <1>1 DEF TypeOK, MarkRoots, DtorAll, FreeAll, EndRun, NextLoop
  <1>4. EdgesClosed'
    <2>1. CASE EndRun
      <3>1. \A o \in objects : Hit(o)
        BY <1>0, <2>1 DEF EndRun, NextLoop, Sweep
      <3>2. HitClosed
        BY <2>1 DEF IInv, Marks, Marking, EndRun, NextLoop
      <3> QED
        BY <1>1, <3>1, <3>2 DEF EdgesClosed, HitClosed
    <2>2. CASE ~EndRun
      BY <1>0, <1>1, <2>2 DEF EdgesClosed, MarkRoots, DtorAll, FreeAll, NextLoop
    <2> QED
      BY <2>1, <2>2
  <1>5. Sweep'
    BY <1>0, <1>1, <1>2 DEF Sweep, MarkRoots, DtorAll, FreeAll, EndRun, NextLoop
  <1>6. Marks'
    <2>1. CASE MarkRoots
      <3>1. phase = "refs" /\ phase' = "roots" /\ todo' = roots /\ Tricolour /\ Frugal
        BY <2>1 DEF MarkRoots, NextLoop, IInv, Marks, Marking
      <3>2. Tricolour'
        BY <1>0, <1>1, <1>2, <3>1 DEF Tricolour
      <3>3. Frugal'
        BY <1>1, <1>2, <3>1 DEF Frugal, Keeps
      <3> QED
        BY <3>1, <3>2, <3>3 DEF Marks, Marking
    <2>2. CASE DtorAll
      <3>1. phase = "roots" /\ phase' = "dtor" /\ Tricolour
        BY <2>2 DEF DtorAll, NextLoop, IInv, Marks, Marking
      <3>2. HitClosed
        BY <1>0, <3>1 DEF Tricolour, HitClosed, EdgesClosed
      <3>3. HitClosed'
        BY <1>1, <1>2, <3>2 DEF HitClosed
      <3> QED
        BY <1>0, <1>1, <3>1, <3>3 DEF Marks, Marking
    <2>3. CASE FreeAll \/ EndRun
      <3>1. ~Marking /\ ~Marking' /\ HitClosed
        BY <2>3 DEF FreeAll, EndRun, NextLoop, IInv, Marks, Marking
      <3>2. HitClosed'
        BY <1>1, <1>2, <3>1 DEF HitClosed
      <3> QED
        BY <1>0, <1>1, <3>1, <3>2 DEF Marks
    <2> QED
      BY <2>1, <2>2, <2>3
  <1> QED
    BY <1>3, <1>4, <1>5, <1>6 DEF IInv

\* Destructing and freeing touch only dead objects.
LEMMA SweepInv ==
  ASSUME IInv, DestructReturns \/ \E o \in Objs : Destruct(o) \/ Free(o)
  PROVE  IInv'
  <1>0. TypeOK /\ EdgesClosed /\ Sweep /\ ~Marking /\ HitClosed /\ calls = {}
    BY DEF IInv, Marks, Marking, DestructReturns, Destruct, Free
  <1>1. ASSUME NEW o \in Objs, Destruct(o)
        PROVE  IInv'
    <2>1. /\ UNCHANGED <<objects, refs, edges, roots, targets, gen, id, masterGen, masterId, calls, closing>>
          /\ phase = "dtor" /\ o \in todo /\ todo' = todo \ {o}
          /\ Hit(o) => phase' = "dtor" /\ dtored' = dtored
          /\ ~Hit(o) => phase' = "callback" /\ dtored' = dtored \cup {o}
      BY <1>1 DEF Destruct, heap, rootset, iter
    <2>2. \A p : Hit(p)' <=> Hit(p)
      BY <2>1 DEF Hit
    <2>3. TypeOK'
      BY <1>0, <2>1 DEF TypeOK
    <2>4. EdgesClosed' /\ HitClosed'
      BY <1>0, <2>1, <2>2 DEF EdgesClosed, HitClosed
    <2>5. Sweep'
      BY <1>0, <2>1, <2>2 DEF Sweep
    <2> QED
      BY <1>0, <2>1, <2>3, <2>4, <2>5 DEF IInv, Marks, Marking
  <1>2. CASE DestructReturns
    <2>1. /\ UNCHANGED <<objects, refs, edges, roots, targets, gen, id, masterGen, masterId, todo, calls, closing, dtored>>
          /\ phase = "callback" /\ phase' = "dtor"
      BY <1>2 DEF DestructReturns, heap, rootset, iter, history
    <2>2. \A p : Hit(p)' <=> Hit(p)
      BY <2>1 DEF Hit
    <2>3. TypeOK'
      BY <1>0, <2>1 DEF TypeOK
    <2>4. EdgesClosed' /\ HitClosed' /\ Sweep'
      BY <1>0, <2>1, <2>2 DEF EdgesClosed, HitClosed, Sweep
    <2> QED
      BY <1>0, <2>1, <2>3, <2>4 DEF IInv, Marks, Marking
  <1>3. ASSUME NEW o \in Objs, Free(o), Hit(o)
        PROVE  IInv'
    <2>1. /\ UNCHANGED <<objects, refs, edges, roots, targets, gen, id, masterGen, masterId, phase, calls, closing, dtored>>
          /\ phase = "free" /\ todo' = todo \ {o}
      BY <1>3 DEF Free, heap, rootset, history
    <2>2. \A p : Hit(p)' <=> Hit(p)
      BY <2>1 DEF Hit
    <2>3. TypeOK'
      BY <1>0, <2>1 DEF TypeOK
    <2>4. EdgesClosed' /\ HitClosed' /\ Sweep'
      BY <1>0, <1>3, <2>1, <2>2 DEF EdgesClosed, HitClosed, Sweep
    <2> QED
      BY <1>0, <2>1, <2>3, <2>4 DEF IInv, Marks, Marking
  <1>4. ASSUME NEW o \in Objs, Free(o), ~Hit(o)
        PROVE  IInv'
    <2>1. /\ UNCHANGED <<roots, targets, masterGen, masterId, phase, calls, closing, dtored>>
          /\ phase = "free" /\ todo' = todo \ {o} /\ objects' = objects \ {o}
          /\ refs' = [refs EXCEPT ![o] = 0] /\ edges' = [edges EXCEPT ![o] = {}]
          /\ gen' = [gen EXCEPT ![o] = 0] /\ id' = [id EXCEPT ![o] = 0]
      BY <1>4 DEF Free, rootset, history
    <2>2. \A p \in Objs : p # o => (Hit(p)' <=> Hit(p)) /\ edges'[p] = edges[p] /\ refs'[p] = refs[p]
      BY <1>0, <2>1 DEF Hit, TypeOK
    <2>3. TypeOK'
      <3>1. gen' \in [Objs -> 0 .. GenMod-1]
        BY <1>0, <2>1, GcAssumption DEF TypeOK
      <3>2. refs' \in [Objs -> Nat] /\ edges' \in [Objs -> SUBSET Objs] /\ id' \in [Objs -> Nat]
        BY <1>0, <2>1 DEF TypeOK
      <3> QED
        BY <1>0, <2>1, <3>1, <3>2 DEF TypeOK
    <2>4. HitClosed'
      <3>1. \A p \in objects' : p \in objects /\ p \in Objs /\ p # o
        BY <1>0, <2>1 DEF TypeOK
      <3>2. \A c \in objects : Hit(c) => c \in objects' /\ Hit(c)'
        BY <1>0, <1>4, <2>1, <2>2 DEF TypeOK
      <3> QED
        BY <1>0, <2>1, <2>2, <3>1, <3>2 DEF HitClosed
    <2>5. EdgesClosed'
      BY <2>1 DEF EdgesClosed
    <2>6. Sweep'
      BY <1>0, <2>1, <2>2 DEF Sweep, TypeOK
    <2> QED
      BY <1>0, <2>1, <2>3, <2>4, <2>5, <2>6 DEF IInv, Marks, Marking
  <1> QED
    BY <1>1, <1>2, <1>3, <1>4

LEMMA NextInv == IInv /\ [Next]_vars => IInv'
  <1> SUFFICES ASSUME IInv, [Next]_vars PROVE IInv'
    OBVIOUS
  <1>1. CASE Mutate
    BY <1>1, MutateInv
  <1>2. CASE Run
    BY <1>2, BeginRunInv DEF Run, IInv, TypeOK
  <1>3. CASE Dtor
    BY <1>3, BeginRunInv, Zenon DEF Dtor
  <1>4. CASE Collect
    BY <1>4, MarkInv, VisitInv, LoopInv, SweepInv DEF Collect
  <1>5. CASE DestructReturns
    BY <1>5, SweepInv
  <1>6. CASE UNCHANGED vars
    <2>1. UNCHANGED <<objects, refs, edges, roots, targets, gen, id, masterGen, masterId, phase, todo, calls, closing, dtored>>
      BY <1>6 DEF vars, heap, rootset, iter, run, history
    <2>2. \A p : Hit(p)' <=> Hit(p)
      BY <2>1 DEF Hit
    <2>3. TypeOK' /\ EdgesClosed' /\ Sweep'
      BY <2>1, <2>2 DEF IInv, TypeOK, EdgesClosed, Sweep
    <2>4. Marks'
      BY <2>1, <2>2 DEF IInv, Marks, Marking, Tricolour, Frugal, Keeps, HitClosed
    <2> QED
      BY <2>3, <2>4 DEF IInv
  <1> QED
    BY <1>1, <1>2, <1>3, <1>4, <1>5, <1>6 DEF Next

-----------------------------------------------------------------------------
(* What holds in every reachable state *)

LEMMA Invariant == Spec => []IInv
  BY InitInv, NextInv, PTL DEF Spec

\* The variables always have their types.
THEOREM TypeCorrect == Spec => []TypeOK
  <1>1. IInv => TypeOK
    BY DEF IInv
  <1> QED
    BY <1>1, Invariant, PTL

\* No root and no surviving object ever points to freed memory.
THEOREM NeverDangling == Spec => []NoDangling
  <1>1. IInv => NoDangling
    BY InvSafe DEF Safe
  <1> QED
    BY <1>1, Invariant, PTL

\* Every run keeps exactly the objects the program can reach, whatever the heap.
THEOREM CollectsExactly == Spec => []MarkingExact
  <1>1. IInv => MarkingExact
    BY InvSafe DEF Safe
  <1> QED
    BY <1>1, Invariant, PTL

\* Every object is freed in the run that destructed it, after all destructors.
THEOREM DestructsBeforeFreeing == Spec => []DestructedThenFreed
  <1>1. IInv => DestructedThenFreed
    BY InvSafe DEF Safe
  <1> QED
    BY <1>1, Invariant, PTL

\* Only dead, unreferenced objects are freed, and only by the last loop of a run.
THEOREM FreesDeadOnly == Spec => FreesOnlyDead
  <1>1. IInv /\ [Next]_vars =>
          [\A o \in objects \ objects' : refs[o] = 0 /\ ~Hit(o) /\ phase = "free"]_vars
    <2> SUFFICES ASSUME IInv, [Next]_vars, NEW o \in objects \ objects'
                 PROVE  refs[o] = 0 /\ ~Hit(o) /\ phase = "free"
      OBVIOUS
    <2>1. PICK x \in Objs : Free(x)
      BY DEF Next, Mutate, Register, Ref, Unref, Link, Unlink, RootRegister, RootDeregister,
             Run, Dtor, BeginRun, Collect, MarkReferenced, Mark, MarkRoot, MarkRoots, DtorAll,
             FreeAll, EndRun, NextLoop, Destruct, DestructReturns, vars, heap
    <2>2. phase = "free" /\ x = o /\ ~Hit(o)
      BY <2>1 DEF Free, heap
    <2>3. refs[o] = 0
      BY <2>2 DEF IInv, Marks, Marking, HitClosed, TypeOK
    <2> QED
      BY <2>2, <2>3
  <1> QED
    BY <1>1, Invariant, PTL DEF Spec, FreesOnlyDead

\* The ids handed out since the counter was reset are distinct, as iter_gen.h
\* promises, also across objects registered between runs and within them.
THEOREM IdsAlwaysUnique == Spec => []IdsUnique
  <1>1. Init => IdsUnique
    BY DEF Init, IdsUnique
  <1>2. IInv /\ IdsUnique /\ [Next]_vars => IdsUnique'
    <2> SUFFICES ASSUME IInv, IdsUnique, [Next]_vars PROVE IdsUnique'
      OBVIOUS
    <2>0. objects \subseteq Objs /\ gen \in [Objs -> 0 .. GenMod-1] /\ id \in [Objs -> Nat] /\ masterId \in Nat
          /\ masterGen \in 0 .. GenMod-1
      BY DEF IInv, TypeOK
    <2>1. ASSUME NEW o \in Objs, Register(o) \/ (Mark(o) /\ ~Hit(o))
          PROVE  IdsUnique'
      <3>1. /\ gen' = [gen EXCEPT ![o] = masterGen] /\ id' = [id EXCEPT ![o] = masterId]
            /\ masterGen' = masterGen /\ masterId' = masterId + 1
            /\ objects' \subseteq objects \cup {o}
        BY <2>1 DEF Register, Mark, BirthGen, NextId, heap
      <3>2. \A p \in objects : p # o => (Hit(p)' <=> Hit(p)) /\ id'[p] = id[p]
        BY <2>0, <3>1 DEF Hit
      <3>3. id'[o] = masterId
        BY <2>0, <3>1
      <3>4. \A p \in objects : Hit(p) => id[p] < masterId /\ id[p] \in Nat
        BY <2>0 DEF IdsUnique
      <3> QED
        BY <2>0, <3>1, <3>2, <3>3, <3>4 DEF IdsUnique
    <2>2. CASE Run \/ Dtor
      <3>1. masterGen' # masterGen /\ gen' = gen /\ objects' = objects /\ phase = "mutator"
        BY <2>0, <2>2, GcAssumption DEF Run, Dtor, BeginRun, GenAfter, heap
      <3>2. \A p \in objects : ~Hit(p)'
        BY <3>1 DEF Hit, IInv, Sweep
      <3> QED
        BY <3>1, <3>2 DEF IdsUnique
    <2>3. ASSUME NEW o \in Objs, Free(o), ~Hit(o)
          PROVE  IdsUnique'
      <3>1. /\ gen' = [gen EXCEPT ![o] = 0] /\ id' = [id EXCEPT ![o] = 0] /\ objects' = objects \ {o}
            /\ masterGen' = masterGen /\ masterId' = masterId
        BY <2>3 DEF Free
      <3>2. \A p \in objects' : p \in objects /\ (Hit(p)' <=> Hit(p)) /\ id'[p] = id[p]
        BY <2>0, <3>1 DEF Hit
      <3> QED
        BY <3>1, <3>2 DEF IdsUnique
    <2>4. CASE UNCHANGED <<objects, iter>>
      <3>1. /\ objects' = objects /\ masterId' = masterId /\ id' = id
            /\ \A p : Hit(p)' <=> Hit(p)
        BY <2>4 DEF iter, Hit
      <3> QED
        BY <3>1 DEF IdsUnique
    <2>5. \/ UNCHANGED <<objects, iter>> \/ Run \/ Dtor
          \/ \E o \in Objs : Register(o) \/ (Mark(o) /\ ~Hit(o)) \/ (Free(o) /\ ~Hit(o))
      BY DEF Next, Mutate, Ref, Unref, Link, Unlink, RootRegister, RootDeregister,
             Collect, MarkReferenced, Mark, MarkRoot, MarkRoots, DtorAll, FreeAll, EndRun,
             NextLoop, Destruct, DestructReturns, Free, vars, heap, iter
    <2> QED
      BY <2>1, <2>2, <2>3, <2>4, <2>5
  <1> QED
    BY <1>1, <1>2, Invariant, PTL DEF Spec

\* What a collection visits is what is reachable, under numbers that nobody shares.
THEOREM VisitsAlwaysExact == Spec => []VisitsExact
<1>1. MarkingExact /\ IdsUnique => VisitsExact
  BY DEF VisitsExact
<1> QED BY <1>1, CollectsExactly, IdsAlwaysUnique, PTL

\* Dead objects only are freed, after the destructors of all of them.
THEOREM AlwaysFreesInOrder == Spec => FreesInOrder
  BY DestructsBeforeFreeing, FreesDeadOnly, PTL DEF FreesInOrder
=============================================================================
