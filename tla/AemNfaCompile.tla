--------------------------- MODULE AemNfaCompile ---------------------------
(***************************************************************************)
(* From the tree of a pattern to instructions (nfa-compile.c), and the     *)
(* optimizer of nfa.c.  A compilation is a record of the program so far    *)
(* and whether all went well; what fails leaves its instructions behind.   *)
(***************************************************************************)
EXTENDS AemNfa, SequencesExt

CONSTANT UintMax   \* the largest unsigned int: a repetition without end

ASSUME UintMaxAssumption == UintMax \in Nat /\ UintMax > 255

(* The nodes of the tree. *)
Null == [kind |-> "null"]
RangeNode(min, max) == [kind |-> "range", min |-> min, max |-> max]
Atom(ch) == [kind |-> "atom", ch |-> ch]
ClassNode(neg, frontier, cclass) ==
    [kind |-> "class", neg |-> neg, frontier |-> frontier, cclass |-> cclass]
CaptureNode(n, child) == [kind |-> "capture", n |-> n, child |-> child]
RepeatNode(min, max, reluctant, child) ==
    [kind |-> "repeat", min |-> min, max |-> max, reluctant |-> reluctant, child |-> child]
Branch(children) == [kind |-> "branch", children |-> children]
Alternation(children) == [kind |-> "alternation", children |-> children]

(* insn_range keeps eight bits of each bound. *)
ClampByte(x) == IF x > 255 THEN 255 ELSE x

Emit(st, insn) == [st EXCEPT !.pgm = Append(@, insn)]
Patch(st, pc, insn) == [st EXCEPT !.pgm[pc + 1] = insn]
Here(st) == Len(st.pgm)
FailSilently(st) == st
Fail(st) == [st EXCEPT !.ok = FALSE]

RECURSIVE Compile(_, _)

(* The copies that must be there; "last" is where the last of them begins. *)
RECURSIVE Copies(_, _, _)
Copies(st, child, n) ==
    IF n = 0 \/ ~st.ok THEN st
    ELSE Copies([Compile(st, child) EXCEPT !.last = Here(st)], child, n - 1)

(* The copies that may be: each is forked around, to the next. *)
RECURSIVE Options(_, _, _)
Options(st, child, n) ==
    IF n = 0 \/ ~st.ok THEN st
    ELSE LET body == Compile(Emit(st, InsnFork(0)), child) IN
         IF ~body.ok THEN body
         ELSE Options(Patch(body, Here(st), InsnFork(Here(body))), child, n - 1)

CompileRepeat(st, node) ==
    LET copies == Copies(st, node.child, node.min)
        remain == IF node.max # UintMax THEN node.max - node.min ELSE UintMax
        body == Compile(Emit(copies, InsnFork(0)), node.child)
    IN  IF node.min > node.max THEN Fail(st)
        ELSE IF ~copies.ok THEN copies
        ELSE IF node.min > 0 /\ Here(copies) = Here(st) THEN copies
        ELSE IF node.reluctant THEN Fail(copies)
        ELSE IF remain < UintMax THEN Options(copies, node.child, remain)
        ELSE IF node.min > 0 THEN Emit(copies, InsnFork(copies.last))
        ELSE IF ~body.ok THEN body
        ELSE Patch(Emit(body, InsnJmp(Here(st))), Here(st), InsnFork(Here(body) + 1))

(* Each alternative but the last is forked around, and its end jumps to the end of the *)
(* next one, which is patched in then.                                                 *)
RECURSIVE Alternatives(_, _, _)
Alternatives(st, children, jmpPrev) ==
    IF children = <<>> THEN st
    ELSE LET last == Len(children) = 1
             alt  == Compile(IF last THEN st ELSE Emit(st, InsnFork(0)), Head(children))
             met  == IF jmpPrev = None THEN alt ELSE Patch(alt, jmpPrev, InsnJmp(Here(alt)))
             jump == Emit(met, InsnJmp(0))
         IN IF ~alt.ok THEN alt
            ELSE IF last THEN met
            ELSE Alternatives(Patch(jump, Here(st), InsnFork(Here(jump))),
                              Tail(children), Here(met))

(* An alternation drops the error of its alternatives. *)
Compile(st, node) ==
    CASE node.kind = "range" ->
            Emit(st, InsnRange(ClampByte(node.min), ClampByte(node.max)))
      [] node.kind = "atom" -> Emit(st, InsnRange(node.ch, node.ch))
      [] node.kind = "class" -> Emit(st, InsnClass(node.neg, node.frontier, node.cclass))
      [] node.kind = "capture" ->
            LET body == Compile(Emit(st, InsnCapture(FALSE, node.n)), node.child)
            IN  IF body.ok THEN Emit(body, InsnCapture(TRUE, node.n)) ELSE body
      [] node.kind = "repeat" -> CompileRepeat(st, node)
      [] node.kind = "branch" ->
            FoldLeft(LAMBDA s, child : IF s.ok THEN Compile(s, child) ELSE s,
                     st, node.children)
      [] node.kind = "alternation" ->
            [Alternatives(st, node.children, None) EXCEPT !.ok = TRUE]

(* All threads have room for the captures of every pattern. *)
CapturesOfLast(f, ncap) == ncap
CapturesNeeded(f, ncap) == IF ncap > f.ncap THEN ncap ELSE f.ncap

(* What aem_nfa_add makes of a tree: the program, or that it could not.    *)
CompileRoot(f, root, ncap, match) ==
    LET body == Compile([pgm |-> f.pgm, ok |-> TRUE, last |-> 0], root) IN
    [ok  |-> body.ok,
     nfa |-> IF body.ok
             THEN [pgm  |-> Append(body.pgm, InsnMatch(match)),
                   init |-> f.init \cup {Len(f.pgm)},
                   ncap |-> CapturesNeeded(f, ncap)]
             ELSE f]

-----------------------------------------------------------------------------
(* The optimizer. *)

(* Where the chain of JMPs that begins at "to" ends; a chain that never ends is left.  *)
(* The code works in place, front to back, which comes to the same.                    *)
ChainEnd(f, to) ==
    LET IsJmp(pc) == pc < Len(f.pgm) /\ InsnAt(f, pc).op = "JMP"
        Hop(pc, insn) == IF IsJmp(pc) THEN InsnAt(f, pc).to ELSE pc
        end == FoldLeft(Hop, to, f.pgm)
    IN  IF IsJmp(end) THEN to ELSE end

ThreadJumps(f) ==
    [f EXCEPT !.pgm = [i \in DOMAIN f.pgm |->
        IF f.pgm[i].op \in {"JMP", "FORK"}
        THEN [f.pgm[i] EXCEPT !.to = ChainEnd(f, @)]
        ELSE f.pgm[i]]]

OnlyTarget(f, pc) == {InsnAt(f, pc).to}
Successors(f, pc) == {pc + 1, InsnAt(f, pc).to}

(* An initial FORK is replaced by its two successors, front to back: one that leads    *)
(* back makes an initial thread which is not looked at again.                          *)
SplitInitial(f) ==
    LET Split(init, pc) ==
            IF pc \in init /\ InsnAt(f, pc).op = "FORK"
            THEN (init \ {pc}) \cup Successors(f, pc)
            ELSE init
    IN  [f EXCEPT !.init = FoldLeft(Split, @, [i \in 1 .. Len(f.pgm) |-> i - 1])]

Optimize(f) == SplitInitial(ThreadJumps(f))
=============================================================================
