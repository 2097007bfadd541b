------------------------------- MODULE AemModule -------------------------------
(***************************************************************************)
(* Loadable modules: module.c, and the program around it in test/module.c, *)
(* which keeps the modules it has loaded in a ring.                        *)
(*                                                                         *)
(* A module calls the program back when it is registered and deregistered, *)
(* and may load and unload others from there.  frames is what the C stack  *)
(* still has to do, innermost call first; a "reg" or "dereg" on it is a    *)
(* callback that is running.  dlopen and dlclose are external: they count  *)
(* the handles of a file, and dlclose may fail.                            *)
(***************************************************************************)
EXTENDS Integers, Sequences, FiniteSets, AemList

CONSTANTS
    Mods,       \* the blocks of memory that malloc gives to modules
    Chain,       \* the sentinel "modules"
    Files,      \* the module files that can be opened
    Def,        \* the aem_module_def of each file, see Defs
    Requests,   \* what is loaded: a name and arguments
    Resolve,    \* the path of a name, or None when it is illegal
    Wanted,     \* the names that are unloaded
    Configs,    \* the texts given to modules_load, as sequences of lines
    CloseFails, \* dlclose may fail
    MaxDepth,   \* bound: callbacks that run at a time
    MaxRefs,    \* bound: handles of a file from which on dlclose works
    None

\* reg is the set of what reg() may return, empty if there is none; kind is what
\* aem_module_open finds; check_reg and check_dereg are NULL or the functions
\* aem_module_check_reg_singleton and aem_module_disable_dereg.
Defs == [kind : {"ok", "missing", "unnamed"}, name : STRING, reg : SUBSET {0, -1, -9},
         renames : BOOLEAN, dereg : BOOLEAN, singleton : BOOLEAN, pinned : BOOLEAN]

Nodes == Mods \cup {Chain}

\* What modules_load reads: a request, or None for a blank line or a comment.
Lines == [name : DOMAIN Resolve, arg : STRING \cup {None}] \cup {None}

Paths == {Resolve[n] : n \in DOMAIN Resolve} \cup {None}

ASSUME ModuleAssumption ==
    /\ IsFiniteSet(Mods) /\ Chain \notin Mods /\ None \notin Nodes /\ None \notin Files
    /\ Def \in [Files -> Defs]
    /\ CloseFails \in BOOLEAN
    /\ MaxDepth \in Nat /\ MaxRefs \in Nat
    /\ Requests \subseteq Lines /\ None \notin Requests
    /\ \A c \in Configs : c \in Seq(Lines)

VARIABLES
    alive,  \* blocks that are allocated
    mod,    \* their struct aem_module; within is history, see Open
    ring,   \* the pointers mod_prev and mod_next
    refs,   \* handles of each file that are open (external)
    frames,
    ret,    \* what the last call has returned
    config, \* what is left of the text that modules_load was called with
    order,  \* history: the modules in the ring, in the order in which they were registered
    debt,   \* history: how often reg() has succeeded for a block, less how often dereg() was called
    lost,   \* history: handles of each file whose module was freed without closing it
    given, served  \* history: the text as it was, and the modules loaded for it

history == <<order, debt, lost, given, served>>
modVars == <<alive, mod, ring, refs, frames, ret, config, history>>

Fresh(path) == [name |-> <<>>, path |-> path, handle |-> None, def |-> None,
                state |-> "UNREGISTERED", within |-> {}]
Blank == Fresh(None)

ModInit ==
    /\ alive = {} /\ mod = [m \in Mods |-> Blank]
    /\ ring = Unlinked(Nodes)
    /\ refs = [f \in Files |-> 0]
    /\ frames = <<>> /\ ret = 0 /\ config = <<>>
    /\ order = <<>> /\ debt = [m \in Mods |-> 0] /\ lost = [f \in Files |-> 0]
    /\ given = <<>> /\ served = <<>>

-----------------------------------------------------------------------------
(* The C stack and the ring *)

Frame(fn, m, val) == [fn |-> fn, m |-> m, val |-> val]
Calling(fn) == frames # <<>> /\ frames[1].fn = fn
Call(cs) == frames' = cs \o Tail(frames)
On == frames[1].m
Arg == frames[1].val

Callbacks == {k \in 1 .. Len(frames) : frames[k].fn \in {"reg", "dereg"}}
CanCall == frames = <<>> \/ (1 \in Callbacks /\ Cardinality(Callbacks) <= MaxDepth)

Listed == {m \in Mods : ~Single(ring, m)}
First(set) == FirstIn(ring, Chain, set, Cardinality(Mods))

\* The position of a module in a sequence without repetitions, and the sequence without it.
Drop(s, i) == [k \in 1 .. Len(s) - 1 |-> IF k < i THEN s[k] ELSE s[k + 1]]
Dropped(s, m) == IF \E i \in 1 .. Len(s) : s[i] = m
                 THEN Drop(s, CHOOSE i \in 1 .. Len(s) : s[i] = m) ELSE s

\* (mutant) the module is left in the ring.
LeftLinked(m) == UNCHANGED <<ring, order>>

Unlink(m) == ring' = Removed(ring, m) /\ order' = Dropped(order, m)

-----------------------------------------------------------------------------
(* module_load, with aem_module_init, _resolve_path, _open and _register *)

Begin(r, outer) == \E m \in Mods \ alive :
    /\ alive' = alive \cup {m}
    /\ mod' = [mod EXCEPT ![m] = Fresh(Resolve[r.name])]
    /\ ring' = Alone(ring, m)
    /\ debt' = [debt EXCEPT ![m] = 0]
    /\ frames' = <<IF Resolve[r.name] \in Files THEN Frame("open", m, r.arg)
                  ELSE Frame("fail", m, -1)>> \o outer
    /\ UNCHANGED <<refs, ret, order, lost, given>>

Load(r) == CanCall /\ Begin(r, frames) /\ UNCHANGED <<config, served>>

\* (mutant) the loop of check_reg_singleton never finds itself in the ring.
NeverLoaded(f) == FALSE

\* The loop of aem_module_check_reg_singleton.
AlreadyLoaded(f) == \E m \in Listed : mod[m].def = f

\* The modules of the file whose reg() is running.
Registering(f) ==
    {m \in Mods : mod[m].def = f /\ \E k \in 1 .. Len(frames) : frames[k].fn = "reg" /\ frames[k].m = m}

\* History: within has the modules of its own file from whose reg() a singleton was
\* opened; they join the ring only afterwards.
Open ==
    LET f == mod[On].path
        d == Def[f]
        m == [mod[On] EXCEPT !.handle = f,
                             !.within = IF d.singleton THEN Registering(f) ELSE {},
                             !.def = IF d.kind = "missing" THEN None ELSE f,
                             !.name = IF d.kind = "ok" THEN <<d.name>> ELSE <<>>]
        sane == d.kind = "ok" /\ (d.singleton => ~AlreadyLoaded(f))
    IN
    /\ Calling("open")
    /\ refs' = [refs EXCEPT ![f] = @ + 1]
    /\ mod' = [mod EXCEPT ![On] = [m EXCEPT !.state = IF sane THEN "LOADED" ELSE @]]
    /\ Call(<<IF sane THEN Frame("register", On, Arg) ELSE Frame("fail", On, -1)>>)
    /\ UNCHANGED <<alive, ring, ret, config, history>>

\* aem_module_register up to reg(), and all of it when there is none.
RegisterModule ==
    /\ Calling("register")
    /\ IF Def[mod[On].def].reg # {}
       THEN Call(<<Frame("reg", On, Arg)>>) /\ UNCHANGED <<mod, debt>>
       ELSE /\ mod' = [mod EXCEPT ![On].state = "REGISTERED"]
            /\ debt' = [debt EXCEPT ![On] = @ + 1]
            /\ Call(<<Frame("insert", On, None)>>)
    /\ UNCHANGED <<alive, ring, refs, ret, config, order, lost, given, served>>

\* reg() returns; the one of module_test has appended its arguments to the name.
RegReturns ==
    /\ Calling("reg")
    /\ \E rc \in Def[mod[On].def].reg :
         IF rc = 0
         THEN /\ mod' = [mod EXCEPT ![On].state = "REGISTERED",
                                    ![On].name = IF Def[mod[On].def].renames /\ Arg # None
                                                 THEN Append(@, Arg) ELSE @]
              /\ debt' = [debt EXCEPT ![On] = @ + 1]
              /\ Call(<<Frame("insert", On, None)>>)
         ELSE Call(<<Frame("fail", On, rc)>>) /\ UNCHANGED <<mod, debt>>
    /\ UNCHANGED <<alive, ring, refs, ret, config, order, lost, given, served>>

\* (mutant) the new module goes to the other end of the ring.
AtTheFront(l, m) == InsertedAfter(l, Chain, m)

AtTheEnd(l, m) == InsertedBefore(l, Chain, m)

LinkIn ==
    /\ Calling("insert")
    /\ ring' = AtTheEnd(ring, On) /\ order' = Append(order, On)
    /\ ret' = 0 /\ Call(<<>>)
    /\ served' = IF Len(frames) = 2 /\ frames[2].fn = "config" THEN Append(served, On) ELSE served
    /\ UNCHANGED <<alive, mod, refs, config, debt, lost, given>>

\* The end of module_load after an error: unload it, destroy it, which unloads it
\* again, and free it.
Fail ==
    /\ Calling("fail")
    /\ Unlink(On)
    /\ Call(<<Frame("unload", On, None), Frame("unload", On, None), Frame("free", On, Arg)>>)
    /\ UNCHANGED <<alive, mod, refs, ret, config, debt, lost, given, served>>

-----------------------------------------------------------------------------
(* aem_module_unload, module_unload and aem_module_dtor *)

\* (mutant) dereg() is for modules that are loaded and not yet registered.
OnlyLoaded(m) == m.state = "LOADED"

WasRegistered(m) == m.state = "REGISTERED"

\* Up to dereg(), or up to dlclose.
Unload ==
    /\ Calling("unload")
    /\ IF WasRegistered(mod[On])
       THEN /\ debt' = [debt EXCEPT ![On] = @ - 1]
            /\ IF mod[On].def # None /\ Def[mod[On].def].dereg
               THEN Call(<<Frame("dereg", On, None)>>) /\ UNCHANGED mod
               ELSE /\ mod' = [mod EXCEPT ![On].state = "UNREGISTERED"]
                    /\ Call(<<Frame("close", On, None)>>)
       ELSE Call(<<Frame("close", On, None)>>) /\ UNCHANGED <<mod, debt>>
    /\ UNCHANGED <<alive, ring, refs, ret, config, order, lost, given, served>>

\* (mutant) the state stays as it is after dereg().
StillRegistered(m) == m

Deregistered(m) == [m EXCEPT !.state = "UNREGISTERED"]

DeregReturns ==
    /\ Calling("dereg")
    /\ mod' = [mod EXCEPT ![On] = Deregistered(@)]
    /\ Call(<<Frame("close", On, None)>>)
    /\ UNCHANGED <<alive, ring, refs, ret, config, history>>

\* (mutant) mod->handle = NULL is missing.
HandleKept(m) == [m EXCEPT !.def = None]

HandleCleared(m) == [m EXCEPT !.def = None, !.handle = None]

CloseHandle ==
    LET h == mod[On].handle IN
    /\ Calling("close")
    /\ \/ /\ h # None => refs[h] > 0
          /\ mod' = [mod EXCEPT ![On] = HandleCleared(@)]
          /\ refs' = IF h = None THEN refs ELSE [refs EXCEPT ![h] = @ - 1]
          /\ ret' = 0
       \/ /\ h # None /\ (refs[h] = 0 \/ (CloseFails /\ refs[h] < MaxRefs))
          /\ mod' = [mod EXCEPT ![On].def = None]
          /\ ret' = -1
          /\ UNCHANGED refs
    /\ Call(<<>>)
    /\ UNCHANGED <<alive, ring, config, history>>

\* aem_module_unload_check
MayUnload(m) == ~Def[mod[m].def].pinned

\* module_lookup: first by name, then by the name of the definition.
ModLookup(n) ==
    LET named == First({m \in Listed : mod[m].name = n}) IN
    IF named # {} THEN named ELSE First({m \in Listed : <<Def[mod[m].def].name>> = n})

\* module_unload of what module_lookup finds, up to aem_module_unload.
UnloadNamed(n) == \E m \in Listed :
    /\ CanCall /\ m \in ModLookup(n)
    /\ IF MayUnload(m)
       THEN /\ Unlink(m)
            /\ frames' = <<Frame("unload", m, None), Frame("dispose", m, None)>> \o frames
            /\ UNCHANGED ret
       ELSE ret' = -1 /\ UNCHANGED <<ring, order, frames>>
    /\ UNCHANGED <<alive, mod, refs, config, debt, lost, given, served>>

NotFound(n) ==
    /\ CanCall /\ ModLookup(n) = {}
    /\ ret' = -1
    /\ UNCHANGED <<alive, mod, ring, refs, frames, config, history>>

\* ... and after it: when dlclose has failed, the module is left where nobody finds it.
Dispose ==
    /\ Calling("dispose")
    /\ Call(IF ret # 0 THEN <<>> ELSE <<Frame("unload", On, None), Frame("free", On, 0)>>)
    /\ UNCHANGED <<alive, mod, ring, refs, ret, config, history>>

Free ==
    LET h == mod[On].handle IN
    /\ Calling("free")
    /\ alive' = alive \ {On}
    /\ mod' = [mod EXCEPT ![On] = Blank]
    /\ lost' = IF h = None THEN lost ELSE [lost EXCEPT ![h] = @ + 1]
    /\ ret' = Arg /\ Call(<<>>)
    /\ UNCHANGED <<ring, refs, config, order, debt, given, served>>

-----------------------------------------------------------------------------
(* modules_load: a line is None, when it is blank or a comment, or a request *)

Configure(c) ==
    /\ frames = <<>>
    /\ config' = c /\ given' = c /\ served' = <<>>
    /\ ret' = 0
    /\ frames' = <<Frame("config", None, None)>>
    /\ UNCHANGED <<alive, mod, ring, refs, order, debt, lost>>

\* (mutant) an error is only logged.
NeverStops == FALSE

Stops == ret # 0

Line ==
    /\ Calling("config") /\ ~Stops /\ config # <<>>
    /\ config' = Tail(config)
    /\ IF config[1] = None
       THEN UNCHANGED <<alive, mod, ring, refs, frames, ret, order, debt, lost, given, served>>
       ELSE Begin(config[1], frames) /\ UNCHANGED served

\* modules_load returns, and its caller is done with the text.
Configured ==
    /\ Calling("config") /\ (Stops \/ config = <<>>)
    /\ Call(<<>>)
    /\ config' = <<>> /\ given' = <<>> /\ served' = <<>>
    /\ UNCHANGED <<alive, mod, ring, refs, ret, order, debt, lost>>

-----------------------------------------------------------------------------
ModNext ==
    \/ \E r \in Requests : Load(r)
    \/ Open \/ RegisterModule \/ RegReturns \/ LinkIn \/ Fail
    \/ \E n \in Wanted : UnloadNamed(n) \/ NotFound(n)
    \/ Unload \/ DeregReturns \/ CloseHandle \/ Dispose \/ Free
    \/ \E c \in Configs : Configure(c)
    \/ Line \/ Configured

ModSpec == ModInit /\ [][ModNext]_modVars

-----------------------------------------------------------------------------
(* Properties *)

\* Types; debt is never negative or above one, so that reg() and dereg() of a block alternate.
ModTypeOK ==
    /\ alive \in SUBSET Mods
    /\ mod \in [Mods -> [name : Seq(STRING), path : Paths, handle : Files \cup {None},
                         def : Files \cup {None}, state : {"UNREGISTERED", "LOADED", "REGISTERED"},
                         within : SUBSET Mods]]
    /\ ring \in Rings(Nodes)
    /\ refs \in [Files -> Nat] /\ lost \in [Files -> Nat]
    /\ \A k \in 1 .. Len(frames) : frames[k].m \in Mods \cup {None}
    /\ ret \in Int
    /\ config \in Seq(Lines) /\ given \in Seq(Lines)
    /\ order \in Seq(Mods) /\ served \in Seq(Mods)
    /\ debt \in [Mods -> 0 .. 1]

\* AEM_LL2_VERIFY holds at every moment, callbacks included: the ring has exactly the
\* modules that are registered, in the order in which they were, and others are alone.
RingHolds ==
    /\ Holds(ring, Chain, order, Len(order))
    /\ Listed = {order[k] : k \in 1 .. Len(order)}
    /\ \A m \in Mods : ring.next[m] = m <=> ring.prev[m] = m

\* Whoever walks the ring finds modules that are registered and mapped: module_lookup
\* and the report of test/module.c dereference their definitions.
ListedRegistered ==
    \A m \in Listed : /\ m \in alive /\ mod[m].state = "REGISTERED"
                      /\ mod[m].def # None /\ mod[m].def = mod[m].handle

\* The ring and what hangs on it, between any two steps of any callbacks.
RingKept == ModTypeOK /\ RingHolds /\ ListedRegistered

\* Every handle that dlopen gave is held by one module, or was lost when dlclose failed
\* twice: none is closed twice, although a module is unloaded twice on every way out.
HandlesBalanced ==
    \A f \in Files : refs[f] = Cardinality({m \in alive : mod[m].handle = f}) + lost[f]

\* The code of a callback stays mapped while it runs, whatever it loads and unloads.
CodeMapped ==
    \A k \in Callbacks : LET f == mod[frames[k].m].def IN
        f # None /\ f = mod[frames[k].m].handle /\ refs[f] > 0

\* Each reg() that succeeded is answered by exactly one dereg(), before the file
\* of the module is closed; one that failed is not answered at all.
Paired ==
    \A m \in Mods : debt[m] = 1 => m \in alive /\ mod[m].handle # None

\* Files stay open as long as their code is needed, and no longer.
HandlesHeld == HandlesBalanced /\ CodeMapped /\ Paired

\* Two modules of a file that asked for aem_module_check_reg_singleton are registered only
\* if one was opened from the reg() of the other: no other order of loads and unloads within
\* callbacks gets past the loop over the ring.
SingletonUnique ==
    \A m, n \in Listed :
        mod[m].def = mod[n].def /\ Def[mod[m].def].singleton /\ m # n =>
            m \in mod[n].within \/ n \in mod[m].within

\* modules_load stops at the first line that fails: the lines before it have been loaded,
\* those after it are left to the caller.
StopsAtError ==
    Calling("config") =>
        LET used == {k \in 1 .. Len(given) - Len(config) : given[k] # None}
        IN Cardinality(used) = Len(served) + IF ret = 0 THEN 0 ELSE 1
=============================================================================
