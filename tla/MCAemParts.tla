------------------------------ MODULE MCAemParts ------------------------------
(***************************************************************************)
(* The containers, the functions on texts and the module loader.  They     *)
(* share nothing that changes, so a behaviour is about one of them, and    *)
(* the others stay as they begin.                                          *)
(***************************************************************************)
EXTENDS AemRegistry, AemStack, AemStringbuf, AemText, AemModule

CONSTANT Parts

VARIABLE part

MCInit ==
    /\ part \in Parts
    /\ Init /\ StackInit /\ SbInit /\ TextInit /\ ModInit
    /\ part # "registry" => noDups /\ hasDtor /\ \A x \in Items : name[x] = [hash |-> FALSE, text |-> "a"]
    /\ part # "buffer" => sb = OnHeap
    /\ part # "text" => kind = "lines"

\* malloc has no block for another module: aem_assert ends the program.
OutOfMemory == alive = Mods /\ UNCHANGED <<part, regVars, stackVars, sbVars, textVars, modVars>>

MCNext ==
    \/ part = "registry" /\ Next /\ UNCHANGED <<part, stackVars, sbVars, textVars, modVars>>
    \/ part = "stack" /\ StackNext /\ UNCHANGED <<part, regVars, sbVars, textVars, modVars>>
    \/ part = "buffer" /\ SbNext /\ UNCHANGED <<part, regVars, stackVars, textVars, modVars>>
    \/ part = "text" /\ TextNext /\ UNCHANGED <<part, regVars, stackVars, sbVars, modVars>>
    \/ part = "modules" /\ ModNext /\ UNCHANGED <<part, regVars, stackVars, sbVars, textVars>>
    \/ OutOfMemory

MCSpec == MCInit /\ [][MCNext]_<<part, regVars, stackVars, sbVars, textVars, modVars>>

-----------------------------------------------------------------------------
StackSizes == <<3, 2>>

Key(hash, txt) == [hash |-> hash, text |-> txt]
Keys == {Key(FALSE, "a"), Key(FALSE, "1"), Key(TRUE, "0"), Key(TRUE, "1")}
KeyValue == ("a" :> -1) @@ ("0" :> 0) @@ ("1" :> 1)

\* Letters of both cases, a space and line ends; digits, a sign and the letters of bases;
\* positions of bits; bytes of every kind, with those that escapes and URLs are made of.
KindAlphabets ==
    ("slice" :> {65, 97, 98, 32, 10, 13})
    @@ ("number" :> {45, 48, 49, 54, 97, 98, 120})
    @@ ("rune" :> 1 .. 32)
    @@ ("bytes" :> {0, 37, 65, 92, 110, 120, 123, 125, 128, 195, 227, 255})
    @@ ("path" :> {"/", ".", "a"})
KindTyped == ("slice" :> 4) @@ ("number" :> 5) @@ ("rune" :> 2) @@ ("bytes" :> 4) @@ ("path" :> 7)

ReaderChars == {97, 10, 13}

-----------------------------------------------------------------------------
(* The modules of test/, found below the directory "l" as aem_sandbox_path says; but the *)
(* singleton has a reg(), and one more module has none and is not to be unloaded.        *)

\* The files in l: test, singleton, failreg, empty and the one that is not to be unloaded.
FileAt == (<<"l", "/", "t", ".so">> :> "test") @@ (<<"l", "/", "s", ".so">> :> "single")
          @@ (<<"l", "/", "f", ".so">> :> "failreg") @@ (<<"l", "/", "e", ".so">> :> "empty")
          @@ (<<"l", "/", "p", ".so">> :> "pinned")

D(k, n, rcs, renames, dereg, singleton, pinned) ==
    [kind |-> k, name |-> n, reg |-> rcs, renames |-> renames, dereg |-> dereg,
     singleton |-> singleton, pinned |-> pinned]
TestDef == ("test" :> D("ok", "t", {0, -1}, TRUE, TRUE, FALSE, FALSE))
           @@ ("single" :> D("ok", "s", {0}, FALSE, FALSE, TRUE, FALSE))
           @@ ("failreg" :> D("ok", "f", {-9}, FALSE, TRUE, FALSE, TRUE))
           @@ ("empty" :> D("missing", "e", {}, FALSE, FALSE, FALSE, FALSE))
           @@ ("pinned" :> D("ok", "p", {}, FALSE, FALSE, FALSE, TRUE))

Request(n, a) == [name |-> n, arg |-> a]
TestRequests == {Request(<<"t">>, "1"), Request(<<"s">>, None), Request(<<"f">>, None),
                 Request(<<"e">>, None), Request(<<"p">>, None),
                 Request(<<"..", "/", "s">>, None), Request(<<".", "/", "t">>, None)}

\* Dots come one by one in AemPath.
Spelled(n) == Path!FlattenSeq([k \in 1 .. Len(n) |->
                    IF n[k] = ".." THEN <<".", ".">> ELSE <<n[k]>>])
FileOf(n) ==
    LET r == Path!SandboxPath(<<"l">>, Spelled(n), <<".so">>)
    IN IF r.rc # {} THEN None ELSE IF r.path \in DOMAIN FileAt THEN FileAt[r.path] ELSE "noent"
TestResolve == [n \in {r.name : r \in TestRequests} |-> FileOf(n)]

TestConfigs == {<<Request(<<"t">>, "1"), None, Request(<<"s">>, None), Request(<<"t">>, None)>>,
                <<None, Request(<<"f">>, None), Request(<<"s">>, None)>>}
TestWanted == {<<"t", "1">>, <<"t">>, <<"s">>, <<"p">>}

\* The blocks are those of the items: one symmetry serves for both.
Symmetry == Permutations(Mods \cup Items)
=============================================================================
