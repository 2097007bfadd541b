---------------------------- MODULE AemNfaProofs ----------------------------
(***************************************************************************)
(* Proofs about the engine of AemNfa, for any texts and any well-formed    *)
(* programs, whichever loops they have.                                    *)
(***************************************************************************)
EXTENDS AemNfa, TLAPS

\* The threads for the next character: each is at an instruction of its own,
\* and the bitmap knows it.
NextQueue ==
    /\ Distinct(next)
    /\ \A i \in 1 .. Len(next) : next[i].pc \in mapNext
    /\ next = <<>> => mapNext = {}

\* The threads of this character: those to come are in mapCurr, and those taken
\* have run, the running one excepted until it is past its first instruction.
CurrQueue ==
    /\ Distinct(curr)
    /\ \A i \in 1 .. Len(curr) : curr[i].pc \in Insns(nfa)
    /\ phase \in {"take", "step"} =>
         /\ at \in 1 .. Len(curr) + 1
         /\ \A i \in at .. Len(curr) : curr[i].pc \in mapCurr
         /\ \A i \in 1 .. Len(curr) : i < at =>
               \/ curr[i].pc \in mapDone
               \/ phase = "step" /\ curr[i].pc = thr.pc

\* No match lies ahead of the character that is being matched.
Position ==
    /\ c # EOF => inCurr >= 1
    /\ longest <= inCurr
    /\ phase \in {"take", "step"} => longest <= pCurr

Running == phase = "step" => thr.pc \in Insns(nfa)

IInv == TypeOK /\ NeverFatal /\ NextQueue /\ CurrQueue /\ Position /\ Running
-----------------------------------------------------------------------------
(* Programs and threads *)

\* What an instruction of a well-formed program holds, and where it leads.
LEMMA InsnOK ==
  ASSUME nfa \in Nfa, WellFormed(nfa), NEW pc \in Insns(nfa)
  PROVE  LET insn == InsnAt(nfa, pc) IN
         /\ insn.op = "MATCH" => insn.match \in Nat
         /\ insn.op \in {"JMP", "FORK"} => insn.to \in Insns(nfa)
         /\ insn.op = "CAPTURE" => insn.n \in 0 .. nfa.ncap - 1
         /\ insn.op \notin {"MATCH", "JMP"} => pc + 1 \in Insns(nfa)
  <1> DEFINE insn == InsnAt(nfa, pc)
  <1>1. nfa.pgm \in Seq(Insn) /\ pc \in Nat /\ pc + 1 \in 1 .. Len(nfa.pgm)
    BY DEF Nfa, Insns
  <1>2. insn \in Insn
    BY <1>1 DEF InsnAt
  <1>3. /\ insn.op = "MATCH" => insn.match \in Nat
        /\ insn.op = "CAPTURE" => insn.n \in Nat
    BY <1>2 DEF Insn
  <1> QED
    BY <1>3 DEF WellFormed, Nfa

LEMMA InsnsAreNats ==
  ASSUME nfa \in Nfa
  PROVE  /\ nInsns \in Nat
         /\ nfa.ncap \in Nat
         /\ \A pc : pc \in Insns(nfa) <=> pc \in Nat /\ pc < nInsns
  BY DEF Nfa, nInsns, Insns

LEMMA NewThreadType ==
  ASSUME NEW pc \in Nat
  PROVE  NewThread(pc) \in Thread /\ NewThread(pc).pc = pc
  BY DEF NewThread, Thread, Captures

\* Moving a thread changes nothing else of it.
LEMMA MovedType ==
  ASSUME NEW t \in Thread, NEW pc \in Nat
  PROVE  [t EXCEPT !.pc = pc] \in Thread /\ [t EXCEPT !.pc = pc].pc = pc
  BY DEF Thread

-----------------------------------------------------------------------------
(* The queues *)

\* aem_nfa_thread_add to the threads of the next character: the bitmap keeps
\* the queue free of duplicates.
LEMMA AddNextOK ==
  ASSUME nfa \in Nfa, next \in Seq(Thread), mapNext \subseteq Insns(nfa), NextQueue,
         NEW t \in Thread, t.pc \in Insns(nfa), AddNext(t), nfa' = nfa
  PROVE  next' \in Seq(Thread) /\ mapNext' \subseteq Insns(nfa) /\ NextQueue'
  <1>1. CASE t.pc \in mapNext
    BY <1>1 DEF AddNext, NextQueue, Distinct
  <1>2. CASE t.pc \notin mapNext
    <2>1. next' = Append(next, t) /\ mapNext' = mapNext \cup {t.pc}
      BY <1>2 DEF AddNext
    <2>2. /\ next' \in Seq(Thread) /\ Len(next) \in Nat /\ Len(next') = Len(next) + 1
          /\ \A i \in 1 .. Len(next) : next'[i] = next[i]
          /\ next'[Len(next) + 1] = t
      BY <2>1
    <2>3. \A i \in 1 .. Len(next') : i \in 1 .. Len(next) \/ i = Len(next) + 1
      BY <2>2
    <2>4. \A i \in 1 .. Len(next) : next'[i].pc \in mapNext /\ next'[i].pc # t.pc
      BY <1>2, <2>2 DEF NextQueue
    <2>5. Distinct(next')
      BY <2>2, <2>3, <2>4 DEF Distinct, NextQueue
    <2>6. \A i \in 1 .. Len(next') : next'[i].pc \in mapNext'
      BY <2>1, <2>2, <2>3, <2>4
    <2>7. next' # <<>>
      BY <2>2
    <2> QED
      BY <2>1, <2>2, <2>5, <2>6, <2>7 DEF NextQueue
  <1> QED
    BY <1>1, <1>2

\* aem_nfa_thread_add to the threads of this character, by one that is running:
\* no instruction is queued that waits, runs or has run.
LEMMA AddCurrOK ==
  ASSUME nfa \in Nfa, curr \in Seq(Thread), mapCurr \subseteq Insns(nfa), CurrQueue,
         phase = "step", at \in Nat,
         NEW t \in Thread, t.pc \in Insns(nfa), AddCurr(t),
         mapDone' = mapDone \cup {thr.pc}, UNCHANGED <<nfa, at, phase>>
  PROVE  curr' \in Seq(Thread) /\ mapCurr' \subseteq Insns(nfa) /\ CurrQueue'
  <1>1. \A i \in 1 .. Len(curr) : i < at => curr[i].pc \in mapDone'
    BY DEF CurrQueue
  <1>2. at \in 1 .. Len(curr) + 1 /\ \A i \in at .. Len(curr) : curr[i].pc \in mapCurr
    BY DEF CurrQueue
  <1>3. CASE t.pc \in mapCurr \cup mapDone'
    <2>1. curr' = curr /\ mapCurr' = mapCurr
      BY <1>3 DEF AddCurr
    <2> QED
      BY <1>1, <1>2, <2>1 DEF CurrQueue, Distinct
  <1>4. CASE t.pc \notin mapCurr \cup mapDone'
    <2>1. curr' = Append(curr, t) /\ mapCurr' = mapCurr \cup {t.pc}
      BY <1>4 DEF AddCurr
    <2>2. /\ curr' \in Seq(Thread) /\ Len(curr) \in Nat /\ Len(curr') = Len(curr) + 1
          /\ \A i \in 1 .. Len(curr) : curr'[i] = curr[i]
          /\ curr'[Len(curr) + 1] = t
      BY <2>1
    <2>3. \A i \in 1 .. Len(curr') : i \in 1 .. Len(curr) \/ i = Len(curr) + 1
      BY <2>2
    <2>4. \A i \in 1 .. Len(curr) : curr'[i].pc # t.pc
      <3>1. TAKE i \in 1 .. Len(curr)
      <3>2. CASE i < at
        BY <1>1, <1>4, <2>2, <3>2
      <3>3. CASE ~(i < at)
        <4>1. i \in at .. Len(curr)
          BY <2>2, <3>3
        <4> QED
          BY <1>2, <1>4, <2>2, <4>1
      <3> QED
        BY <3>2, <3>3
    <2>5. Distinct(curr')
      BY <2>2, <2>3, <2>4 DEF Distinct, CurrQueue
    <2>6. \A i \in 1 .. Len(curr') : curr'[i].pc \in Insns(nfa)
      BY <2>2, <2>3 DEF CurrQueue
    <2>7. \A i \in at .. Len(curr') : curr'[i].pc \in mapCurr'
      <3>1. TAKE i \in at .. Len(curr')
      <3>2. CASE i = Len(curr) + 1
        BY <2>1, <2>2, <3>2
      <3>3. CASE i # Len(curr) + 1
        <4>1. i \in at .. Len(curr) /\ i \in 1 .. Len(curr)
          BY <1>2, <2>2, <3>3
        <4> QED
          BY <1>2, <2>1, <2>2, <4>1
      <3> QED
        BY <3>2, <3>3
    <2>8. \A i \in 1 .. Len(curr') : i < at =>
             \/ curr'[i].pc \in mapDone'
             \/ phase' = "step" /\ curr'[i].pc = thr'.pc
      BY <1>1, <1>2, <2>2, <2>3
    <2> QED
      BY <1>2, <2>1, <2>2, <2>5, <2>6, <2>7, <2>8 DEF CurrQueue
  <1> QED
    BY <1>3, <1>4

-----------------------------------------------------------------------------
(* Between characters *)

LEMMA InitInv == Init => IInv
  <1> SUFFICES ASSUME Init
               PROVE  IInv
    OBVIOUS
  <1>1. nfa \in Nfa /\ WellFormed(nfa)
    BY DEF Init
  <1>2. TypeOK
    BY <1>1 DEF Init, Idle, TypeOK, EOF, None
  <1> QED
    BY <1>1, <1>2
       DEF Init, Idle, IInv, NeverFatal, NextQueue, CurrQueue, Distinct, Position, Running,
           EOF, None, Fatal

LEMMA CallInv ==
  ASSUME IInv, NEW text \in Inputs, Call(text)
  PROVE  IInv'
  <1>1. text \in Seq(Byte)
    BY InputsAssumption
  <1>2. TypeOK'
    BY <1>1 DEF IInv, TypeOK, Call, Reset, EOF, None
  <1> QED
    BY <1>2
       DEF IInv, Call, Reset, NeverFatal, NextQueue, CurrQueue, Distinct, Position, Running,
           EOF, None, Fatal

LEMMA ReplaceInv ==
  ASSUME IInv, Replace
  PROVE  IInv'
  <1>1. nfa' \in Nfa /\ WellFormed(nfa')
    BY DEF Replace
  <1>2. TypeOK'
    BY <1>1 DEF Replace, BetweenRuns, Reset, TypeOK, EOF, None
  <1> QED
    BY <1>1, <1>2
       DEF Replace, BetweenRuns, Reset, IInv, NeverFatal, NextQueue, CurrQueue, Distinct, Position,
           Running, EOF, None, Fatal

LEMMA StartInv ==
  ASSUME IInv, Start
  PROVE  IInv'
  <1>1. /\ nfa \in Nfa /\ WellFormed(nfa) /\ phase = "start" /\ at \in Nat
        /\ next \in Seq(Thread) /\ mapNext \subseteq Insns(nfa) /\ NextQueue
    BY DEF IInv, NeverFatal, TypeOK, Start
  <1>2. phase' \in {"start", "swap"} /\ at' \in Nat
    BY <1>1 DEF Start
  <1>3. next' \in Seq(Thread) /\ mapNext' \subseteq Insns(nfa) /\ NextQueue'
    <2>1. CASE at < nInsns /\ at \in nfa.init
      <3>1. AddNext(NewThread(at)) /\ nfa' = nfa
        BY <2>1 DEF Start
      <3>2. at \in Insns(nfa)
        BY <1>1, <2>1 DEF WellFormed
      <3> QED
        BY <1>1, <3>1, <3>2, NewThreadType, AddNextOK
    <2>2. CASE ~(at < nInsns /\ at \in nfa.init)
      <3>1. next' = next /\ mapNext' = mapNext
        BY <2>2 DEF Start
      <3> QED
        BY <1>1, <3>1 DEF NextQueue, Distinct
    <2> QED
      BY <2>1, <2>2
  <1>4. UNCHANGED <<nfa, in, inCurr, c, cPrev, curr, mapCurr, mapDone, thr, matched, longest, rc>>
    BY DEF Start
  <1>5. TypeOK'
    BY <1>1, <1>2, <1>3, <1>4 DEF IInv, TypeOK, Captures, Thread
  <1>6. CurrQueue'
    BY <1>2, <1>4 DEF IInv, CurrQueue, Distinct
  <1> QED
    BY <1>2, <1>3, <1>4, <1>5, <1>6 DEF IInv, NeverFatal, Position, Running

LEMMA SwapInv ==
  ASSUME IInv, Swap
  PROVE  IInv'
  <1>1. /\ nfa \in Nfa /\ in \in Seq(Byte) /\ Len(in) \in Nat /\ inCurr \in 0 .. Len(in)
        /\ next \in Seq(Thread) /\ Len(next) \in Nat /\ mapNext \subseteq Insns(nfa)
        /\ NextQueue /\ phase = "swap" /\ longest \in 0 .. inCurr
    BY DEF IInv, TypeOK, Swap, Position
  <1>2. /\ curr' = next /\ next' = <<>> /\ mapCurr' = mapNext /\ mapNext' = {} /\ mapDone' = {}
        /\ at' = 1 /\ UNCHANGED <<nfa, in, cPrev, thr, matched, longest, rc>>
    BY DEF Swap
  <1>3. (mapNext = {}) <=> (next = <<>>)
    <2>1. ASSUME next # <<>>
          PROVE  mapNext # {}
      <3>1. 1 \in 1 .. Len(next)
        BY <1>1, <2>1
      <3> QED
        BY <1>1, <3>1 DEF NextQueue
    <2> QED
      BY <1>1, <2>1 DEF NextQueue
  <1>4. phase' \in {"done", "take"}
    BY <1>3 DEF Swap
  <1>5. /\ inCurr' \in 0 .. Len(in) /\ c' \in Byte \cup {EOF}
        /\ c' # EOF => inCurr' >= 1
        /\ longest <= inCurr'
        /\ phase' = "take" => longest <= pCurr'
    <2>1. CASE phase' = "done"
      <3>1. c' = c /\ inCurr' = inCurr
        BY <1>3, <2>1 DEF Swap
      <3> QED
        BY <1>1, <2>1, <3>1 DEF IInv, TypeOK, Position
    <2>2. CASE phase' = "take" /\ inCurr < Len(in)
      <3>1. c' = in[inCurr + 1] /\ inCurr' = inCurr + 1
        BY <1>3, <2>2 DEF Swap
      <3>2. c' \in Byte
        BY <1>1, <2>2, <3>1
      <3>3. c' # EOF
        BY <3>2 DEF Byte, EOF
      <3>4. pCurr' = inCurr
        BY <1>1, <3>1, <3>3 DEF pCurr
      <3> QED
        BY <1>1, <2>2, <3>1, <3>2, <3>4
    <2>3. CASE phase' = "take" /\ ~(inCurr < Len(in))
      <3>1. c' = EOF /\ inCurr' = inCurr
        BY <1>3, <2>3 DEF Swap
      <3> QED
        BY <1>1, <3>1 DEF pCurr
    <2> QED
      BY <1>4, <2>1, <2>2, <2>3
  <1>6. TypeOK'
    BY <1>1, <1>2, <1>4, <1>5 DEF IInv, TypeOK, Captures, Thread
  <1>7. NextQueue'
    BY <1>2 DEF NextQueue, Distinct
  <1>8. CurrQueue'
    <2>1. Distinct(curr') /\ \A i \in 1 .. Len(curr') : curr'[i].pc \in mapCurr' /\ curr'[i].pc \in Insns(nfa)'
      BY <1>1, <1>2 DEF NextQueue, Distinct
    <2> QED
      BY <1>1, <1>2, <2>1 DEF CurrQueue
  <1> QED
    BY <1>2, <1>4, <1>5, <1>6, <1>7, <1>8 DEF IInv, NeverFatal, Position, Running

LEMMA TakeInv ==
  ASSUME IInv, Take
  PROVE  IInv'
  <1>1. /\ phase = "take" /\ phase' = "step" /\ at' = at + 1 /\ thr' = curr[at]
        /\ mapCurr' = mapCurr \ {curr[at].pc}
        /\ UNCHANGED <<nfa, in, inCurr, c, cPrev, curr, next, mapNext, mapDone, matched, longest, rc>>
    BY DEF Take
  <1>2. curr \in Seq(Thread) /\ Len(curr) \in Nat /\ at \in 1 .. Len(curr)
    BY <1>1 DEF IInv, TypeOK, CurrQueue, Take
  <1>3. curr[at] \in Thread /\ curr[at].pc \in Insns(nfa)
    BY <1>2 DEF IInv, CurrQueue
  <1>4. TypeOK'
    BY <1>1, <1>2, <1>3 DEF IInv, TypeOK, Captures, Thread
  <1>5. CurrQueue'
    <2>1. \A i \in at + 1 .. Len(curr) : curr[i].pc \in mapCurr'
      <3>1. TAKE i \in at + 1 .. Len(curr)
      <3>2. i \in at .. Len(curr) /\ i \in 1 .. Len(curr) /\ i # at
        BY <1>2
      <3>3. curr[i].pc \in mapCurr /\ curr[i].pc # curr[at].pc
        BY <1>1, <1>2, <3>2 DEF IInv, CurrQueue, Distinct
      <3> QED
        BY <1>1, <3>3
    <2>2. \A i \in 1 .. Len(curr) : i < at + 1 => curr[i].pc \in mapDone \/ curr[i].pc = thr'.pc
      <3>1. \A i \in 1 .. Len(curr) : i < at + 1 => i < at \/ i = at
        BY <1>2
      <3> QED
        BY <1>1, <3>1 DEF IInv, CurrQueue
    <2>3. Distinct(curr') /\ \A i \in 1 .. Len(curr') : curr'[i].pc \in Insns(nfa)'
      BY <1>1 DEF IInv, CurrQueue, Distinct
    <2> QED
      BY <1>1, <1>2, <2>1, <2>2, <2>3 DEF CurrQueue
  <1>6. NextQueue'
    BY <1>1 DEF IInv, NextQueue, Distinct
  <1>7. Position' /\ Running'
    BY <1>1, <1>3 DEF IInv, Position, pCurr, Running
  <1> QED
    BY <1>1, <1>4, <1>5, <1>6, <1>7 DEF IInv, NeverFatal

LEMMA EndOfCharInv ==
  ASSUME IInv, EndOfChar
  PROVE  IInv'
  <1>1. /\ phase = "take" /\ phase' \in {"done", "swap"} /\ cPrev' \in {c, cPrev}
        /\ UNCHANGED <<nfa, in, inCurr, c, curr, next, mapCurr, mapNext, mapDone, at, thr,
                       matched, longest, rc>>
    BY DEF EndOfChar
  <1>2. TypeOK'
    BY <1>1 DEF IInv, TypeOK, Captures, Thread
  <1> QED
    BY <1>1, <1>2 DEF IInv, NeverFatal, NextQueue, CurrQueue, Distinct, Position, Running

-----------------------------------------------------------------------------
(* Instructions *)

\* What holds once an instruction has been decoded: its program counter is inside
\* the program, and all threads taken so far count as having run.
LEMMA Decoded ==
  ASSUME IInv, NEW op, Decode(op)
  PROVE  /\ nfa \in Nfa /\ WellFormed(nfa) /\ nInsns \in Nat /\ nfa.ncap \in Nat
         /\ phase = "step" /\ at \in Nat /\ rc # Fatal
         /\ thr \in Thread /\ thr.pc \in Insns(nfa) /\ thr.pc \in Nat
         /\ InsnAt(nfa, thr.pc).op = op
         /\ UNCHANGED <<nfa, in, inCurr, c, cPrev, at>>
         /\ mapDone' = mapDone \cup {thr.pc} /\ mapDone' \subseteq Insns(nfa)
         /\ c \in Byte \cup {EOF} /\ Len(in) \in Nat
         /\ pCurr \in 0 .. Len(in) /\ pCurr <= inCurr /\ longest <= pCurr
         /\ pCurr' = pCurr
  <1>1. /\ nfa \in Nfa /\ WellFormed(nfa) /\ phase = "step" /\ at \in Nat /\ rc # Fatal
        /\ thr \in Thread /\ thr.pc \in Insns(nfa)
        /\ InsnAt(nfa, thr.pc).op = op
        /\ UNCHANGED <<nfa, in, inCurr, c, cPrev, at>>
        /\ mapDone' = mapDone \cup {thr.pc} /\ mapDone \subseteq Insns(nfa)
        /\ c \in Byte \cup {EOF}
    BY DEF IInv, NeverFatal, TypeOK, Running, Decode
  <1>2. nInsns \in Nat /\ nfa.ncap \in Nat /\ thr.pc \in Nat
    BY <1>1, InsnsAreNats
  <1>3. /\ Len(in) \in Nat /\ inCurr \in 0 .. Len(in) /\ (c # EOF => inCurr >= 1)
        /\ longest <= pCurr
    BY <1>1 DEF IInv, TypeOK, Position
  <1>4. pCurr \in 0 .. Len(in) /\ pCurr <= inCurr
    BY <1>3 DEF pCurr
  <1>5. pCurr' = pCurr
    BY <1>1 DEF pCurr
  <1> QED
    BY <1>1, <1>2, <1>3, <1>4, <1>5

\* An instruction that forks no thread leaves the current queue as it has to be.
LEMMA CurrKept ==
  ASSUME IInv, NEW op, Decode(op), UNCHANGED <<curr, mapCurr>>, phase' \in {"take", "step"}
  PROVE  CurrQueue'
  <1>1. \A i \in 1 .. Len(curr) : i < at => curr[i].pc \in mapDone'
    BY Decoded DEF IInv, CurrQueue
  <1> QED
    BY <1>1, Decoded DEF IInv, CurrQueue, Distinct

LEMMA NextKept ==
  ASSUME IInv, UNCHANGED <<nfa, next, mapNext>>
  PROVE  NextQueue' /\ next' \in Seq(Thread) /\ mapNext' \subseteq Insns(nfa)
  BY DEF IInv, TypeOK, NextQueue, Distinct

\* The parts of the invariant that an instruction can break, put together.
LEMMA StepParts ==
  ASSUME IInv, NEW op, Decode(op),
         \/ phase' = "take" /\ thr' = NoThread
         \/ phase' = "step" /\ thr' \in Thread /\ thr'.pc \in Insns(nfa),
         curr' \in Seq(Thread), mapCurr' \subseteq Insns(nfa), CurrQueue',
         next' \in Seq(Thread), mapNext' \subseteq Insns(nfa), NextQueue',
         rc' \in Nat \cup {None}, matched' \in Captures \cup {<<>>},
         longest' \in {longest, pCurr}
  PROVE  IInv'
  <1>1. rc' # Fatal
    BY DEF None, Fatal
  <1>2. Captures' = Captures /\ Thread' = Thread
    BY Decoded DEF Captures, Thread
  <1>3. longest' \in 0 .. Len(in) /\ longest' <= pCurr
    BY Decoded DEF IInv, TypeOK
  <1>4. TypeOK'
    BY <1>2, <1>3, Decoded DEF IInv, TypeOK
  <1>5. Position'
    <2>1. inCurr \in Nat /\ longest' \in Nat /\ (c # EOF => inCurr >= 1)
      BY <1>3, Decoded DEF IInv, TypeOK, Position
    <2> QED
      BY <1>3, <2>1, Decoded DEF Position
  <1>6. Running'
    BY Decoded DEF Running
  <1>7. NeverFatal'
    BY <1>1, Decoded DEF NeverFatal
  <1> QED
    BY <1>4, <1>5, <1>6, <1>7 DEF IInv

LEMMA RcKept ==
  ASSUME IInv, UNCHANGED rc
  PROVE  rc' \in Nat \cup {None}
  BY DEF IInv, TypeOK, NeverFatal

LEMMA MatchKept ==
  ASSUME IInv, UNCHANGED <<matched, longest>>
  PROVE  matched' \in Captures \cup {<<>>} /\ longest' \in {longest, pCurr}
  BY DEF IInv, TypeOK

\* A thread that the character stops.
LEMMA DieInv ==
  ASSUME IInv, NEW op, Decode(op), Die, UNCHANGED <<curr, mapCurr, matched, longest>>
  PROVE  IInv'
  <1>1. phase' = "take" /\ thr' = NoThread /\ UNCHANGED <<next, mapNext, rc>>
    BY DEF Die, Drop
  <1>2. CurrQueue'
    BY <1>1, CurrKept
  <1>3. curr' \in Seq(Thread) /\ mapCurr' \subseteq Insns(nfa)
    BY DEF IInv, TypeOK
  <1>4. NextQueue' /\ next' \in Seq(Thread) /\ mapNext' \subseteq Insns(nfa)
    BY <1>1, NextKept, Decoded
  <1> QED
    BY <1>1, <1>2, <1>3, <1>4, RcKept, MatchKept, StepParts

\* A thread that the character takes on.
LEMMA ConsumeInv ==
  ASSUME IInv, NEW op, op \notin {"MATCH", "JMP"}, Decode(op), Consume,
         UNCHANGED <<curr, mapCurr, matched, longest>>
  PROVE  IInv'
  <1>1. thr.pc + 1 \in Insns(nfa) /\ thr.pc + 1 \in Nat /\ thr.pc + 1 < nInsns
    BY Decoded, InsnOK, InsnsAreNats
  <1> DEFINE t == [thr EXCEPT !.pc = @ + 1]
  <1>2. t \in Thread /\ t.pc = thr.pc + 1
    BY <1>1, Decoded, MovedType
  <1>3. AddNext(t) /\ phase' = "take" /\ thr' = NoThread /\ rc' = rc
    BY <1>1 DEF Consume
  <1>4. next' \in Seq(Thread) /\ mapNext' \subseteq Insns(nfa) /\ NextQueue'
    <2>1. next \in Seq(Thread) /\ mapNext \subseteq Insns(nfa) /\ NextQueue
      BY DEF IInv, TypeOK
    <2> HIDE DEF t
    <2> QED
      BY <1>1, <1>2, <1>3, <2>1, Decoded, AddNextOK
  <1>5. CurrQueue'
    BY <1>3, CurrKept
  <1>6. curr' \in Seq(Thread) /\ mapCurr' \subseteq Insns(nfa)
    BY DEF IInv, TypeOK
  <1> QED
    BY <1>3, <1>4, <1>5, <1>6, RcKept, MatchKept, StepParts

\* A thread that goes on without consuming anything.
LEMMA GoOnInv ==
  ASSUME IInv, NEW op, Decode(op),
         phase' = "step", thr' \in Thread, thr'.pc \in Insns(nfa),
         UNCHANGED <<rc, next, mapNext, curr, mapCurr, matched, longest>>
  PROVE  IInv'
  <1>1. CurrQueue'
    BY CurrKept
  <1>2. curr' \in Seq(Thread) /\ mapCurr' \subseteq Insns(nfa)
    BY DEF IInv, TypeOK
  <1>3. NextQueue' /\ next' \in Seq(Thread) /\ mapNext' \subseteq Insns(nfa)
    BY NextKept, Decoded
  <1> QED
    BY <1>1, <1>2, <1>3, RcKept, MatchKept, StepParts

LEMMA RefuseInv ==
  ASSUME IInv, Refuse
  PROVE  IInv'
  <1>1. nfa \in Nfa /\ phase = "step" /\ thr.pc \in Insns(nfa)
    BY DEF IInv, TypeOK, Running, Refuse
  <1>2. thr.pc < nInsns /\ nInsns \in Nat /\ thr.pc \in Nat
    BY <1>1, InsnsAreNats
  <1>3. /\ thr.pc \in mapDone /\ phase' = "take" /\ thr' = NoThread
        /\ UNCHANGED <<nfa, in, inCurr, c, cPrev, curr, next, mapCurr, mapNext, mapDone, at,
                       matched, longest, rc>>
    BY <1>2 DEF Refuse, Ran, Drop
  <1>4. TypeOK'
    BY <1>1, <1>3 DEF IInv, TypeOK, Captures, Thread
  <1>5. CurrQueue'
    BY <1>1, <1>3 DEF IInv, CurrQueue, Distinct
  <1>6. Position'
    BY <1>1, <1>3 DEF IInv, Position, pCurr
  <1> QED
    BY <1>3, <1>4, <1>5, <1>6 DEF IInv, NeverFatal, NextQueue, Distinct, Running

LEMMA StepRangeInv ==
  ASSUME IInv, StepRange
  PROVE  IInv'
  <1>1. Decode("RANGE") /\ (Consume \/ Die) /\ UNCHANGED <<curr, mapCurr, matched, longest>>
    BY DEF StepRange
  <1>2. CASE Consume
    BY <1>1, <1>2, ConsumeInv
  <1>3. CASE Die
    BY <1>1, <1>3, DieInv
  <1> QED
    BY <1>1, <1>2, <1>3

LEMMA StepClassInv ==
  ASSUME IInv, StepClass
  PROVE  IInv'
  <1>1. /\ Decode("CLASS") /\ UNCHANGED <<curr, mapCurr, matched, longest>>
        /\ Consume \/ Die \/ (GoOn(thr.pc + 1) /\ UNCHANGED <<next, mapNext>>)
    BY DEF StepClass
  <1>2. CASE Consume
    BY <1>1, <1>2, ConsumeInv
  <1>3. CASE Die
    BY <1>1, <1>3, DieInv
  <1>4. CASE GoOn(thr.pc + 1) /\ UNCHANGED <<next, mapNext>>
    <2>1. thr.pc + 1 \in Insns(nfa) /\ thr.pc + 1 \in Nat
      BY <1>1, Decoded, InsnOK
    <2>2. thr' \in Thread /\ thr'.pc = thr.pc + 1 /\ phase' = "step" /\ rc' = rc
      BY <1>1, <1>4, <2>1, Decoded, MovedType DEF GoOn
    <2> QED
      BY <1>1, <1>4, <2>1, <2>2, GoOnInv
  <1> QED
    BY <1>1, <1>2, <1>3, <1>4

LEMMA StepCaptureInv ==
  ASSUME IInv, StepCapture
  PROVE  IInv'
  <1> DEFINE n == InsnAt(nfa, thr.pc).n
  <1>1. Decode("CAPTURE") /\ UNCHANGED <<curr, next, mapCurr, mapNext, matched, longest>>
    BY DEF StepCapture
  <1>2. n \in 0 .. nfa.ncap - 1 /\ thr.pc + 1 \in Insns(nfa) /\ thr.pc + 1 \in Nat
    BY <1>1, Decoded, InsnOK
  <1>3. /\ thr'.pc = thr.pc + 1 /\ phase' = phase /\ rc' = rc
        /\ \/ thr' = [pc |-> thr.pc + 1, caps |-> [thr.caps EXCEPT ![n].end = pCurr]]
           \/ thr' = [pc |-> thr.pc + 1, caps |-> [thr.caps EXCEPT ![n].start = pCurr]]
    BY <1>1, <1>2, Decoded DEF StepCapture
  <1>4. thr.caps \in Captures /\ pCurr \in Nat
    BY <1>1, Decoded DEF Thread
  <1>5. /\ [thr.caps EXCEPT ![n].end = pCurr] \in Captures
        /\ [thr.caps EXCEPT ![n].start = pCurr] \in Captures
    BY <1>2, <1>4 DEF Captures
  <1>6. thr' \in Thread
    BY <1>2, <1>3, <1>5 DEF Thread
  <1> QED
    BY <1>1, <1>2, <1>3, <1>6, Decoded, GoOnInv

LEMMA StepMatchInv ==
  ASSUME IInv, StepMatch
  PROVE  IInv'
  <1>1. /\ Decode("MATCH") /\ UNCHANGED <<curr, next, mapCurr, mapNext>>
        /\ rc' = InsnAt(nfa, thr.pc).match /\ matched' = thr.caps /\ longest' = pCurr
        /\ phase' = "take" /\ thr' = NoThread
    BY DEF StepMatch, Drop
  <1>2. rc' \in Nat /\ matched' \in Captures
    BY <1>1, Decoded, InsnOK DEF Thread
  <1>3. CurrQueue'
    BY <1>1, CurrKept
  <1>4. curr' \in Seq(Thread) /\ mapCurr' \subseteq Insns(nfa)
    BY <1>1 DEF IInv, TypeOK
  <1>5. NextQueue' /\ next' \in Seq(Thread) /\ mapNext' \subseteq Insns(nfa)
    BY <1>1, NextKept, Decoded
  <1> QED
    BY <1>1, <1>2, <1>3, <1>4, <1>5, StepParts

LEMMA StepJmpInv ==
  ASSUME IInv, StepJmp
  PROVE  IInv'
  <1> DEFINE to == InsnAt(nfa, thr.pc).to
  <1>1. Decode("JMP") /\ UNCHANGED <<curr, next, mapCurr, mapNext, matched, longest>>
    BY DEF StepJmp
  <1>2. to \in Insns(nfa) /\ to \in Nat /\ to < nInsns
    BY <1>1, Decoded, InsnOK, InsnsAreNats
  <1>3. GoOn(to)
    BY <1>1, <1>2, Decoded DEF StepJmp
  <1>4. thr' \in Thread /\ thr'.pc = to /\ phase' = "step" /\ rc' = rc
    BY <1>1, <1>2, <1>3, Decoded, MovedType DEF GoOn
  <1> QED
    BY <1>1, <1>2, <1>4, GoOnInv

LEMMA StepForkInv ==
  ASSUME IInv, StepFork
  PROVE  IInv'
  <1> DEFINE to == InsnAt(nfa, thr.pc).to
             t == Child(thr, to)
  <1>1. Decode("FORK") /\ UNCHANGED <<next, mapNext, matched, longest>>
    BY DEF StepFork
  <1>2. to \in Insns(nfa) /\ to \in Nat /\ to < nInsns /\ thr.pc + 1 \in Insns(nfa) /\ thr.pc + 1 \in Nat
    BY <1>1, Decoded, InsnOK, InsnsAreNats
  <1>3. AddCurr(t) /\ GoOn(thr.pc + 1)
    BY <1>1, <1>2, Decoded DEF StepFork
  <1>4. t \in Thread /\ t.pc = to
    BY <1>1, <1>2, Decoded, MovedType DEF Child
  <1>5. thr' \in Thread /\ thr'.pc = thr.pc + 1 /\ phase' = "step" /\ rc' = rc /\ phase' = phase
    BY <1>1, <1>2, <1>3, Decoded, MovedType DEF GoOn
  <1>6. curr' \in Seq(Thread) /\ mapCurr' \subseteq Insns(nfa) /\ CurrQueue'
    <2>1. curr \in Seq(Thread) /\ mapCurr \subseteq Insns(nfa) /\ CurrQueue
      BY DEF IInv, TypeOK
    <2> HIDE DEF t
    <2> QED
      BY <1>1, <1>2, <1>3, <1>4, <1>5, <2>1, Decoded, AddCurrOK
  <1>7. NextQueue' /\ next' \in Seq(Thread) /\ mapNext' \subseteq Insns(nfa)
    BY <1>1, NextKept, Decoded
  <1> QED
    BY <1>1, <1>2, <1>5, <1>6, <1>7, RcKept, MatchKept, StepParts

-----------------------------------------------------------------------------
(* What holds in every reachable state *)

LEMMA NextInv == IInv /\ [Next]_vars => IInv'
  <1> SUFFICES ASSUME IInv, [Next]_vars
               PROVE  IInv'
    OBVIOUS
  <1>1. CASE UNCHANGED vars
    <2>1. TypeOK'
      BY <1>1 DEF vars, runVars, IInv, TypeOK, Captures, Thread
    <2>2. NeverFatal' /\ Running'
      BY <1>1 DEF vars, runVars, IInv, NeverFatal, Running
    <2>3. NextQueue'
      BY <1>1 DEF vars, runVars, IInv, NextQueue, Distinct
    <2>4. CurrQueue'
      BY <1>1 DEF vars, runVars, IInv, CurrQueue, Distinct
    <2>5. Position'
      BY <1>1 DEF vars, runVars, IInv, Position, pCurr
    <2> QED
      BY <2>1, <2>2, <2>3, <2>4, <2>5 DEF IInv
  <1>2. ASSUME NEW text \in Inputs, Call(text)
        PROVE  IInv'
    BY <1>2, CallInv
  <1>3. CASE RunStep
    BY <1>3, StartInv, SwapInv, TakeInv, EndOfCharInv, RefuseInv, StepRangeInv, StepClassInv,
       StepCaptureInv, StepMatchInv, StepJmpInv, StepForkInv DEF RunStep
  <1>4. CASE Replace
    BY <1>4, ReplaceInv
  <1> QED
    BY <1>1, <1>2, <1>3, <1>4 DEF Next

LEMMA Invariant == Spec => []IInv
  BY InitInv, NextInv, PTL DEF Spec

\* The variables always have their types: positions lie in the text, the bitmaps
\* inside the program, and threads have the captures of the program.
THEOREM TypeCorrect == Spec => []TypeOK
  <1>1. IInv => TypeOK
    BY DEF IInv
  <1> QED
    BY <1>1, Invariant, PTL

\* aem_nfa_run returns no error and fails no assertion on a well-formed program,
\* whatever the text.
THEOREM NoFatal == Spec => []NeverFatal
  <1>1. IInv => NeverFatal
    BY DEF IInv
  <1> QED
    BY <1>1, Invariant, PTL

\* The queues hold at most one thread for each instruction: no nesting of loops
\* makes them outgrow the program.
THEOREM AlwaysQueuedOnce == Spec => []QueuedOnce
  <1>1. IInv => QueuedOnce
    BY DEF IInv, NextQueue, CurrQueue, QueuedOnce
  <1> QED
    BY <1>1, Invariant, PTL

\* A thread that matches replaces the match before only by one that ends no earlier.
THEOREM LongestLast == Spec => LaterIsLonger
  <1>1. IInv /\ [Next]_vars => [phase = "step" => longest' >= longest]_vars
    <2> SUFFICES ASSUME IInv, [Next]_vars, phase = "step", ~UNCHANGED vars
                 PROVE  longest' >= longest
      OBVIOUS
    <2>1. longest \in Nat
      BY DEF IInv, TypeOK
    <2>2. CASE StepMatch
      BY <2>1, <2>2, Decoded DEF StepMatch
    <2>3. CASE longest' = longest
      BY <2>1, <2>3
    <2> QED
      BY <2>2, <2>3 DEF Next, Call, Reset, Replace, BetweenRuns, RunStep, Start, Swap, Take, EndOfChar, Refuse,
         StepRange, StepClass, StepCapture, StepJmp, StepFork
  <1> QED
    BY <1>1, Invariant, PTL DEF Spec, LaterIsLonger

\* The engine keeps to its program, its captures and its queues.
THEOREM RunsAlwaysCleanly == Spec => []RunsCleanly
  <1>1. TypeOK /\ NeverFatal /\ QueuedOnce => RunsCleanly
    BY DEF RunsCleanly
  <1> QED
    BY <1>1, TypeCorrect, NoFatal, AlwaysQueuedOnce, PTL
=============================================================================
