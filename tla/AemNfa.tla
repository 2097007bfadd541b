------------------------------- MODULE AemNfa -------------------------------
(***************************************************************************)
(* The engine of nfa.c: aem_nfa_run carries a set of threads through a     *)
(* program, one character at a time.  A thread that finds its instruction  *)
(* already run on this character is dropped in favour of the first, which  *)
(* is what bounds the queues and stops loops that consume nothing.         *)
(*                                                                         *)
(* Texts are sequences of bytes, positions count the bytes before them,    *)
(* and instructions are numbered from 0.  Which instructions a thread has  *)
(* visited (the tracing of aem_nfa_show_trace) is left out.                *)
(***************************************************************************)
EXTENDS Integers, Sequences, FiniteSets

CONSTANT Inputs    \* the texts the engine is run on

Byte == 0..255

ASSUME InputsAssumption == Inputs \subseteq Seq(Byte)

VARIABLES
    nfa,        \* the program: instructions, initial threads, captures
    in,         \* the text given to this run
    inCurr,     \* how much of it has been read
    c, cPrev,   \* the character being matched, and the one before it
    curr, next, \* the threads to run on this character, and on the next
    mapCurr, mapNext, mapDone,   \* the instructions they are at; those already run
    at,         \* the thread of curr to take next, or the program counter while starting
    thr,        \* the thread that is running
    matched,    \* the captures of the thread that matched last
    longest,    \* where it ended
    rc,         \* what the run returns
    phase

runVars == <<in, inCurr, c, cPrev, curr, next, mapCurr, mapNext, mapDone,
             at, thr, matched, longest, rc, phase>>
vars == <<nfa, runVars>>

EOF == -1
None == -1
Fatal == -2

-----------------------------------------------------------------------------
(* Programs. *)

Cclass == {"alnum", "digit", "space", "lower", "any", "line"}

InsnRange(lo, hi) == [op |-> "RANGE", lo |-> lo, hi |-> hi]
InsnClass(neg, frontier, cclass) ==
    [op |-> "CLASS", neg |-> neg, frontier |-> frontier, cclass |-> cclass]
InsnCapture(end, n) == [op |-> "CAPTURE", end |-> end, n |-> n]
InsnMatch(match) == [op |-> "MATCH", match |-> match]
InsnJmp(to) == [op |-> "JMP", to |-> to]
InsnFork(to) == [op |-> "FORK", to |-> to]

Insn == [op : {"RANGE"}, lo : Byte, hi : Byte]
   \cup [op : {"CLASS"}, neg : BOOLEAN, frontier : BOOLEAN, cclass : Cclass]
   \cup [op : {"CAPTURE"}, end : BOOLEAN, n : Nat]
   \cup [op : {"MATCH"}, match : Nat]
   \cup [op : {"JMP", "FORK"}, to : Nat]

Nfa == [pgm : Seq(Insn), init : SUBSET Nat, ncap : Nat]

nInsns == Len(nfa.pgm)
Insns(f) == 0 .. Len(f.pgm) - 1
InsnAt(f, pc) == f.pgm[pc + 1]

(* What every program must be for the engine not to run out of it: it      *)
(* leads nowhere outside, and threads have room for its captures.          *)
WellFormed(f) ==
    /\ f.init \subseteq Insns(f)
    /\ \A pc \in Insns(f) :
          LET insn == InsnAt(f, pc) IN
          /\ insn.op \in {"JMP", "FORK"} => insn.to \in Insns(f)
          /\ insn.op = "CAPTURE" => insn.n < f.ncap
          /\ insn.op \notin {"MATCH", "JMP"} => pc + 1 \in Insns(f)

(* The ctype classes the patterns use, in the C locale. *)
CharsOf(cclass) ==
    CASE cclass = "alnum" -> 48..57 \cup 65..90 \cup 97..122
      [] cclass = "digit" -> 48..57
      [] cclass = "space" -> 9..13 \cup {32}
      [] cclass = "lower" -> 97..122
      [] cclass = "any"   -> 0..127
      [] cclass = "line"  -> {9} \cup 32..127

(* Bytes outside of ASCII and the end of the text are in no class, so that *)
(* they are in every negated one.                                          *)
CclassMatch(neg, cclass, ch) == (ch \in CharsOf(cclass)) # neg

-----------------------------------------------------------------------------
(* Threads. *)

Captures == [0 .. nfa.ncap - 1 -> [start : Nat \cup {None}, end : Nat \cup {None}]]
Thread == [pc : Nat, caps : Captures]
NoThread == [pc |-> None, caps |-> <<>>]

NewThread(pc) ==
    [pc |-> pc, caps |-> [i \in 0 .. nfa.ncap - 1 |-> [start |-> None, end |-> None]]]

(* Where the current character begins; the mutant looks for it after the end. *)
pCurrLost == IF c = EOF THEN 0 ELSE inCurr - 1
pCurr == IF c = EOF THEN inCurr ELSE inCurr - 1

(* aem_nfa_thread_check *)
NeverRan(pc) == FALSE
Ran(pc) == pc \in mapDone

FreshChild(t, to) == NewThread(to)
Child(t, to) == [t EXCEPT !.pc = to]

AddNext(t) ==
    IF t.pc \in mapNext
    THEN UNCHANGED <<next, mapNext>>
    ELSE /\ next' = Append(next, t)
         /\ mapNext' = mapNext \cup {t.pc}

AddCurrAgain(t) ==
    IF t.pc \in mapCurr
    THEN UNCHANGED <<curr, mapCurr>>
    ELSE /\ curr' = Append(curr, t)
         /\ mapCurr' = mapCurr \cup {t.pc}

AddCurr(t) ==
    IF t.pc \in mapCurr \cup mapDone'
    THEN UNCHANGED <<curr, mapCurr>>
    ELSE /\ curr' = Append(curr, t)
         /\ mapCurr' = mapCurr \cup {t.pc}

-----------------------------------------------------------------------------
(* A run. *)

(* A run starts from nothing, and nothing outlives it but its answer. *)
Reset(text, ph) ==
    /\ phase \in {"idle", "done"}
    /\ in' = text
    /\ inCurr' = 0
    /\ c' = EOF /\ cPrev' = EOF
    /\ curr' = <<>> /\ next' = <<>>
    /\ mapCurr' = {} /\ mapNext' = {} /\ mapDone' = {}
    /\ at' = 0
    /\ thr' = NoThread
    /\ matched' = <<>>
    /\ longest' = 0
    /\ rc' = None
    /\ phase' = ph

Call(text) == Reset(text, "start") /\ UNCHANGED nfa

(* One thread for each initial instruction. *)
Start ==
    /\ phase = "start"
    /\ IF at < nInsns
       THEN /\ IF at \in nfa.init THEN AddNext(NewThread(at))
                                  ELSE UNCHANGED <<next, mapNext>>
            /\ at' = at + 1
            /\ UNCHANGED phase
       ELSE /\ phase' = "swap"
            /\ UNCHANGED <<next, mapNext, at>>
    /\ UNCHANGED <<nfa, in, inCurr, c, cPrev, curr, mapCurr, mapDone, thr, matched,
                   longest, rc>>

(* The next threads become the current ones; with none left, that was all. *)
Swap ==
    /\ phase = "swap"
    /\ curr' = next /\ next' = <<>>
    /\ mapCurr' = mapNext /\ mapNext' = {} /\ mapDone' = {}
    /\ at' = 1
    /\ IF (mapNext = {}) # (next = <<>>)
       THEN phase' = "assert" /\ UNCHANGED <<c, inCurr>>
       ELSE IF mapNext = {}
       THEN phase' = "done" /\ UNCHANGED <<c, inCurr>>
       ELSE /\ phase' = "take"
            /\ c' = IF inCurr < Len(in) THEN in[inCurr + 1] ELSE EOF
            /\ inCurr' = IF inCurr < Len(in) THEN inCurr + 1 ELSE inCurr
    /\ UNCHANGED <<nfa, in, cPrev, thr, matched, longest, rc>>

Take ==
    /\ phase = "take"
    /\ at <= Len(curr)
    /\ thr' = curr[at]
    /\ mapCurr' = mapCurr \ {curr[at].pc}
    /\ at' = at + 1
    /\ phase' = "step"
    /\ UNCHANGED <<nfa, in, inCurr, c, cPrev, curr, next, mapNext, mapDone, matched,
                   longest, rc>>

(* All threads have run on this character: halt at the end of the text. *)
EndOfChar ==
    /\ phase = "take"
    /\ at > Len(curr)
    /\ IF c = EOF THEN phase' = "done" /\ UNCHANGED cPrev
                  ELSE phase' = "swap" /\ cPrev' = c
    /\ UNCHANGED <<nfa, in, inCurr, c, curr, next, mapCurr, mapNext, mapDone, at, thr,
                   matched, longest, rc>>

(* How a thread stops running: dropped, kept for the next character, or    *)
(* refused by the engine, which gives up.                                  *)
Drop == thr' = NoThread /\ phase' = "take"

Die == Drop /\ UNCHANGED <<next, mapNext, rc>>

Consume ==
    /\ thr' = NoThread
    /\ UNCHANGED rc
    /\ IF thr.pc + 1 < nInsns
       THEN AddNext([thr EXCEPT !.pc = @ + 1]) /\ phase' = "take"
       ELSE phase' = "assert" /\ UNCHANGED <<next, mapNext>>

GiveUp == rc' = Fatal /\ phase' = "done" /\ thr' = NoThread

GoOn(pc) == thr' = [thr EXCEPT !.pc = pc] /\ UNCHANGED <<rc, phase>>

(* The checks before an instruction is run. *)
Refuse ==
    /\ phase = "step"
    /\ thr.pc < nInsns => Ran(thr.pc)
    /\ IF thr.pc >= nInsns THEN GiveUp ELSE Drop /\ UNCHANGED rc
    /\ UNCHANGED <<nfa, in, inCurr, c, cPrev, curr, next, mapCurr, mapNext, mapDone, at,
                   matched, longest>>

Decode(op) ==
    /\ phase = "step"
    /\ thr.pc < nInsns
    /\ ~Ran(thr.pc)
    /\ InsnAt(nfa, thr.pc).op = op
    /\ mapDone' = mapDone \cup {thr.pc}
    /\ UNCHANGED <<nfa, in, inCurr, c, cPrev, at>>

StepRange ==
    /\ Decode("RANGE")
    /\ LET insn == InsnAt(nfa, thr.pc) IN
       IF c # EOF /\ insn.lo <= c /\ c <= insn.hi THEN Consume ELSE Die
    /\ UNCHANGED <<curr, mapCurr, matched, longest>>

(* A frontier is where the class begins to match, and consumes nothing. *)
StepClass ==
    /\ Decode("CLASS")
    /\ LET insn == InsnAt(nfa, thr.pc)
           Matches(ch) == CclassMatch(insn.neg, insn.cclass, ch)
       IN IF ~Matches(c) \/ (insn.frontier /\ Matches(cPrev)) THEN Die
          ELSE IF insn.frontier THEN GoOn(thr.pc + 1) /\ UNCHANGED <<next, mapNext>>
          ELSE Consume
    /\ UNCHANGED <<curr, mapCurr, matched, longest>>

StepCapture ==
    /\ Decode("CAPTURE")
    /\ LET insn == InsnAt(nfa, thr.pc) IN
       IF insn.n >= nfa.ncap THEN GiveUp
       ELSE /\ thr' = [pc |-> thr.pc + 1,
                       caps |-> IF insn.end
                                THEN [thr.caps EXCEPT ![insn.n].end = pCurr]
                                ELSE [thr.caps EXCEPT ![insn.n].start = pCurr]]
            /\ UNCHANGED <<rc, phase>>
    /\ UNCHANGED <<curr, next, mapCurr, mapNext, matched, longest>>

(* The last thread to match is the answer; a later character is longer. *)
StepMatch ==
    /\ Decode("MATCH")
    /\ rc' = InsnAt(nfa, thr.pc).match
    /\ matched' = thr.caps
    /\ longest' = pCurr
    /\ Drop
    /\ UNCHANGED <<curr, next, mapCurr, mapNext>>

StepJmp ==
    /\ Decode("JMP")
    /\ LET to == InsnAt(nfa, thr.pc).to IN
       IF to >= nInsns THEN GiveUp ELSE GoOn(to)
    /\ UNCHANGED <<curr, next, mapCurr, mapNext, matched, longest>>

(* The child joins the end of the queue of this character. *)
StepFork ==
    /\ Decode("FORK")
    /\ LET to == InsnAt(nfa, thr.pc).to IN
       IF to >= nInsns
       THEN GiveUp /\ UNCHANGED <<curr, mapCurr>>
       ELSE AddCurr(Child(thr, to)) /\ GoOn(thr.pc + 1)
    /\ UNCHANGED <<next, mapNext, matched, longest>>

RunStep == \/ Start \/ Swap \/ Take \/ EndOfChar \/ Refuse
           \/ StepRange \/ StepClass \/ StepCapture \/ StepMatch \/ StepJmp \/ StepFork

Idle ==
    /\ in = <<>> /\ inCurr = 0 /\ c = EOF /\ cPrev = EOF
    /\ curr = <<>> /\ next = <<>>
    /\ mapCurr = {} /\ mapNext = {} /\ mapDone = {}
    /\ at = 0 /\ thr = NoThread /\ matched = <<>> /\ longest = 0 /\ rc = None
    /\ phase = "idle"

BetweenRuns == Reset(<<>>, "idle")

(* Between runs the program grows and is optimized. *)
Replace == BetweenRuns /\ nfa' \in {f \in Nfa : WellFormed(f)}

Init == nfa \in {f \in Nfa : WellFormed(f)} /\ Idle

Next == RunStep \/ Replace \/ \E text \in Inputs : Call(text)

Spec == Init /\ [][Next]_vars

-----------------------------------------------------------------------------
(* Properties. *)

TypeOK ==
    /\ nfa \in Nfa
    /\ in \in Seq(Byte)
    /\ inCurr \in 0 .. Len(in)
    /\ c \in Byte \cup {EOF} /\ cPrev \in Byte \cup {EOF}
    /\ curr \in Seq(Thread) /\ next \in Seq(Thread)
    /\ mapCurr \subseteq Insns(nfa) /\ mapNext \subseteq Insns(nfa)
    /\ mapDone \subseteq Insns(nfa)
    /\ at \in Nat
    /\ thr \in IF phase = "step" THEN Thread ELSE {NoThread}
    /\ matched \in Captures \cup {<<>>}
    /\ longest \in 0 .. Len(in)
    /\ rc \in Nat \cup {None, Fatal}
    /\ phase \in {"idle", "start", "swap", "take", "step", "done", "assert"}

(* No program that the compiler makes leads the engine outside, past the captures of a *)
(* thread, or into one of its assertions, and none is malformed after an optimization  *)
(* or a pattern that was refused.                                                      *)
NeverFatal == WellFormed(nfa) /\ rc # Fatal /\ phase # "assert"

(* No instruction is queued twice for a character, nor queued again once it has run:   *)
(* the queues never exceed the program, however the loops of a pattern are nested.     *)
Distinct(threads) ==
    \A i, j \in 1 .. Len(threads) : threads[i].pc = threads[j].pc => i = j

QueuedOnce ==
    /\ Distinct(curr) /\ Distinct(next)
    /\ phase \in {"take", "step"} =>
          \A i \in at .. Len(curr) : curr[i].pc \in mapCurr

(* The engine keeps to its program, its captures and its queues.                        *)
RunsCleanly == TypeOK /\ NeverFatal /\ QueuedOnce

(* A match found later never ends earlier, so that the last is the longest.            *)
LaterIsLonger == [][phase = "step" => longest' >= longest]_vars
=============================================================================
