------------------------------- MODULE AemPath -------------------------------
(***************************************************************************)
(* pathutil.c: paths are sequences of characters, of which only "/" and    *)
(* "." matter.                                                             *)
(***************************************************************************)
EXTENDS Integers, Sequences, SequencesExt

Slash == "/"
Dot == "."

\* aem_stringslice_match_pathcomponent: the component, what follows it, and whether
\* there were slashes between them.
Component(s) ==
    LET slashes == {k \in 1 .. Len(s) : s[k] = Slash}
        names == {k \in 1 .. Len(s) : s[k] # Slash /\ \E j \in 1 .. k : s[j] = Slash}
        end == Min(slashes \cup {Len(s) + 1})
    IN [out |-> SubSeq(s, 1, end - 1),
        rest |-> SubSeq(s, Min(names \cup {Len(s) + 1}), Len(s)),
        trailing |-> slashes # {}]

\* (mutant) ".." stops at the slash that it has just removed.
UpTooLittle(out, base) == out

\* Back up until the previous slash: without the slash at the end, and without the name.
Cut(out, base) == IF Len(out) > base THEN Front(out) ELSE out
Up(out, base) ==
    SubSeq(out, 1, Max({k \in base .. Len(out) : k = base \/ out[k] = Slash}))

\* The loop of aem_sandbox_path; st is the path so far, the rc, and trailing_slash. The
\* bits of rc are 1, the path leaves the base, and 2, the extension has no file.
RECURSIVE Walked(_, _, _)
Walked(st, base, subpath) ==
    IF subpath = <<>> THEN st
    ELSE LET c == Component(subpath)
             to(out, rc) == [out |-> out, rc |-> rc, trailing |-> c.trailing]
             cut == Cut(st.out, base)
             up == Up(cut, base)
         IN Walked(CASE c.out \in {<<>>, <<Dot>>} -> to(st.out, st.rc)
                     [] c.out = <<Dot, Dot>> ->
                          to(up, st.rc \cup IF up = cut THEN {1} ELSE {})
                     [] OTHER ->
                          to(st.out \o c.out \o IF c.trailing THEN <<Slash>> ELSE <<>>, st.rc),
                   base, c.rest)

\* The base and the slash between it and the rest.
Base(base) ==
    LET dir == IF base = <<>> THEN <<Dot>> ELSE base
    IN IF Last(dir) = Slash THEN dir ELSE Append(dir, Slash)

\* aem_sandbox_path, where ext may be NULL. (trailing_slash is not initialised for an empty
\* subpath, whose rc does not depend on it.)
NoExt == <<Slash>>
SandboxPath(base, subpath, ext) ==
    LET start == Base(base)
        st == Walked([out |-> start, rc |-> {}, trailing |-> FALSE], Len(start), subpath)
    IN IF ext = NoExt THEN [path |-> st.out, rc |-> st.rc]
       ELSE [path |-> IF IsSuffix(ext, st.out) THEN st.out ELSE st.out \o ext,
             rc |-> st.rc \cup IF st.trailing \/ st.out = start THEN {2} ELSE {}]

\* aem_dirname
Without(s, chars) == SubSeq(s, 1, Max({k \in 1 .. Len(s) : s[k] \notin chars} \cup {0}))
Dirname(path, chars) ==
    LET dir == Without(Without(path, {Slash}), chars \ {Slash})
    IN IF dir = <<>> THEN <<Dot>>
       ELSE IF Without(dir, {Slash}) = <<>> THEN <<Slash>> ELSE Without(dir, {Slash})

-----------------------------------------------------------------------------
(* What paths mean: the names in them, and where they lead. *)

\* The maximal pieces without a slash.
NamesIn(s) ==
    LET cuts == {0, Len(s) + 1} \cup {k \in 1 .. Len(s) : s[k] = Slash}
        starts == {i \in cuts : i + 1 \in 1 .. Len(s) /\ i + 1 \notin cuts}
        piece(i) == SubSeq(s, i + 1, Min({j \in cuts : j > i}) - 1)
        order == SetToSortSeq(starts, LAMBDA i, j : i < j)
    IN [k \in 1 .. Len(order) |-> piece(order[k])]

\* The directory that is reached: a stack of names.
Enter(dir, name) ==
    IF name = <<Dot>> THEN dir
    ELSE IF name # <<Dot, Dot>> THEN Append(dir, name)
    ELSE IF dir = <<>> THEN dir ELSE Front(dir)
Reached(names) == FoldLeft(Enter, <<>>, names)
Leaves(names) ==
    \E k \in 1 .. Len(names) : names[k] = <<Dot, Dot>> /\ Reached(SubSeq(names, 1, k - 1)) = <<>>

\* A path stays below the base and leads to where its names lead, with an error exactly
\* when they tried to leave; the assertion at the end of the loop holds.
Sandboxed(base, subpath) ==
    LET r == SandboxPath(base, subpath, NoExt)
        below == SubSeq(r.path, Len(Base(base)) + 1, Len(r.path))
    IN /\ IsPrefix(Base(base), r.path)
       /\ NamesIn(below) = Reached(NamesIn(subpath))
       /\ (1 \in r.rc) = Leaves(NamesIn(subpath))

\* What dirname(3) says of a path that is not only slashes: its names but the last.
DirnameOf(path, chars) ==
    LET names == NamesIn(path) IN
    names # <<>> => LET dir == Dirname(path, chars) IN
        IF Len(names) > 1 THEN NamesIn(dir) = Front(names) /\ (path[1] = Slash => dir[1] = Slash)
        ELSE dir = IF path[1] = Slash THEN <<Slash>> ELSE <<Dot>>
=============================================================================
