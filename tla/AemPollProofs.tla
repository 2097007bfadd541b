---------------------------- MODULE AemPollProofs ----------------------------
(***************************************************************************)
(* Proofs about the event loop of AemPoll, for any set of events and any   *)
(* allocation policy that PollAssumption admits.                           *)
(***************************************************************************)
EXTENDS AemPoll, FiniteSetTheorems, TLAPS

\* The slots behind the scan position have been dealt with, the one being
\* handled excepted: no callback can move an unprocessed report behind it.
ScannedClean ==
    \A s \in Slots :
        /\ pc = "scan" /\ s < i => ~Pending(s)
        /\ pc = "call" /\ s < i => ~Pending(s) \/ evts[s] = cur

\* What NothingStale needs of the steps before: a failed wait leaves nothing
\* reported, and the scan has dealt with every slot behind it.
Clean ==
    /\ NothingStale
    /\ pc = "ready" /\ pollRc < 0 => \A s \in Slots : ~Pending(s)
    /\ ScannedClean

IInv == TypeOK /\ SlotsMatch /\ ArraysFit /\ Clean

-----------------------------------------------------------------------------
(* The allocation policy *)

\* A product grows with its factor: what the non-linear arithmetic of the
\* shrinking rule comes down to.
LEMMA TwiceIsLess ==
  ASSUME NEW k \in Nat \ {0}
  PROVE  2*k < ShrinkFactor * k
  <1> DEFINE d == ShrinkFactor - 3
  <1>1. d \in Nat /\ ShrinkFactor = d + 3
    BY PollAssumption
  <1>2. ShrinkFactor * k = d*k + 3*k
    BY <1>1
  <1>3. d * k >= 0
    BY <1>1
  <1>4. d * k \in Int
    BY <1>1
  <1> QED
    BY <1>2, <1>3, <1>4

\* aem_poll_resize leaves room for what is used and no more than a constant
\* factor of it.
LEMMA ResizedFits ==
  ASSUME NEW used \in Nat
  PROVE  /\ Resized(used) \in Nat
         /\ used <= Resized(used)
         /\ Resized(used) = MinAlloc \/ Resized(used) < ShrinkFactor * used
         /\ Resized(used) >= 1
         /\ used > 0 => Resized(used) >= used + 1
  <1>1. CASE 2*used < MinAlloc
    BY <1>1, PollAssumption DEF Resized
  <1>2. CASE ~(2*used < MinAlloc)
    <2>1. used \in Nat \ {0}
      BY <1>2, PollAssumption
    <2>2. 2*used < ShrinkFactor * used
      BY <2>1, TwiceIsLess
    <2> QED
      BY <1>2, <2>1, <2>2 DEF Resized
  <1> QED
    BY <1>1, <1>2

-----------------------------------------------------------------------------
(* The array operations *)

\* Deregistering keeps the arrays consistent and inside their allocation, and
\* the only slot whose report it changes, the one taken over, becomes clean.
LEMMA RemoveOK ==
  ASSUME ArraysType, SlotsMatch, ArraysFit,
         NEW e \in Evts, idx[e] # -1, Remove(e)
  PROVE  /\ ArraysType'
         /\ SlotsMatch'
         /\ ArraysFit'
         /\ n' \in Nat /\ n' = n - 1 /\ idx'[e] = -1
         /\ \A s \in Slots' : ~Pending(s)' \/ (fds'[s] = fds[s] /\ evts'[s] = evts[s])
  <1> DEFINE last == evts[n-1]
  <1>1. idx[e] \in Slots /\ evts[idx[e]] = e
    BY DEF SlotsMatch, Registered
  <1>2. n \in Nat /\ n >= 1 /\ n-1 \in Slots /\ n-1 \in Nat
    BY <1>1 DEF ArraysType, Slots
  <1>3. last \in Evts /\ idx[last] = n-1 /\ fds[n-1].fd = efd[last] /\ fds[n-1].events = eevents[last]
    BY <1>2 DEF ArraysType, SlotsMatch
  <1>4. fds[n-1] \in [fd : Fds, events : Interests, revents : SUBSET Conditions]
    BY <1>2 DEF ArraysType
  <1>5. efd[last] \in Fds /\ eevents[last] \in Interests
    BY <1>3, <1>4
  <1>6. Assigned(last) \in [fd : Fds, events : Interests, revents : SUBSET Conditions]
    BY <1>5 DEF Assigned
  <1>7. n' = n-1 /\ Slots' = 0 .. n-2 /\ Slots' \subseteq Slots
    BY <1>2 DEF Remove, MovedTo, Slots
  <1>8. maxn' \in Nat /\ ArraysFit'
    <2>1. CASE (n-1) * ShrinkFactor <= maxn
      BY <2>1, <1>2, <1>7, ResizedFits DEF Remove, MovedTo, ArraysFit
    <2>2. CASE ~((n-1) * ShrinkFactor <= maxn)
      <3>1. maxn' = maxn /\ maxn \in Nat /\ ShrinkFactor \in Nat
        BY <2>2, PollAssumption DEF Remove, MovedTo, ArraysType
      <3>2. (n-1) * ShrinkFactor = ShrinkFactor * (n-1) /\ ShrinkFactor * (n-1) \in Int
        BY <1>2, <3>1
      <3> QED
        BY <2>2, <3>1, <3>2, <1>2, <1>7 DEF ArraysFit
    <2> QED
      BY <2>1, <2>2
  <1>9. ArraysType'
    <2>1. idx' \in [Evts -> Int]
      BY <1>1, <1>2 DEF Remove, MovedTo, ArraysType, Slots
    <2>2. evts' \in [Slots' -> Evts]
      BY <1>2, <1>3, <1>7 DEF Remove, MovedTo, ArraysType, Slots
    <2>3. fds' \in [Slots' -> [fd : Fds, events : Interests, revents : SUBSET Conditions]]
      BY <1>2, <1>6, <1>7 DEF Remove, MovedTo, ArraysType, Slots
    <2> QED
      BY <2>1, <2>2, <2>3, <1>2, <1>7, <1>8 DEF Remove, MovedTo, ArraysType
  <1>10. SlotsMatch'
    <2>1. ASSUME NEW s \in Slots'
          PROVE  idx'[evts'[s]] = s /\ fds'[s].fd = efd'[evts'[s]] /\ fds'[s].events = eevents'[evts'[s]]
      <3>1. s \in Slots /\ s # n-1 /\ s \in 0 .. n-2
        BY <1>2, <1>7 DEF Slots
      <3>2. CASE s = idx[e]
        <4>1. evts'[s] = last /\ fds'[s] = Assigned(last) /\ last # e
          BY <3>1, <3>2, <1>3 DEF Remove, MovedTo
        <4>2. efd' = efd /\ eevents' = eevents
          BY DEF Remove, MovedTo
        <4>3. idx'[last] = idx[e]
          BY <4>1, <1>3 DEF Remove, MovedTo
        <4> QED
          BY <4>1, <4>2, <4>3, <3>2 DEF Assigned
      <3>3. CASE s # idx[e]
        <4>1. evts'[s] = evts[s] /\ fds'[s] = fds[s]
          BY <3>1, <3>3 DEF Remove, MovedTo
        <4>2. evts[s] # e /\ evts[s] # last /\ evts[s] \in Evts /\ idx[evts[s]] = s
          BY <3>1, <3>3, <1>3 DEF SlotsMatch, ArraysType
        <4> QED
          BY <3>1, <4>1, <4>2 DEF Remove, MovedTo, SlotsMatch
      <3> QED
        BY <3>2, <3>3
    <2>2. ASSUME NEW x \in Evts, idx'[x] # -1
          PROVE  idx'[x] \in Slots' /\ evts'[idx'[x]] = x
      <3>1. x # e /\ idx'[x] = IF x = last THEN idx[e] ELSE idx[x]
        BY <2>2 DEF Remove, MovedTo
      <3>2. CASE x = last
        <4>1. idx[e] # n-1 /\ idx[e] \in 0 .. n-2
          BY <3>1, <3>2, <1>1, <1>2 DEF Slots
        <4> QED
          BY <4>1, <3>1, <3>2, <1>7 DEF Remove, MovedTo
      <3>3. CASE x # last
        <4>1. idx'[x] = idx[x] /\ idx[x] \in Slots /\ evts[idx[x]] = x
          BY <2>2, <3>1, <3>3 DEF SlotsMatch, Registered
        <4>2. idx[x] # n-1 /\ idx[x] # idx[e] /\ idx[x] \in 0 .. n-2
          BY <4>1, <3>1, <3>3, <1>1, <1>2 DEF Slots
        <4> QED
          BY <4>1, <4>2, <1>7 DEF Remove, MovedTo
      <3> QED
        BY <3>2, <3>3
    <2> QED
      BY <2>1, <2>2 DEF SlotsMatch, Registered
  <1>11. ASSUME NEW s \in Slots'
         PROVE  ~Pending(s)' \/ (fds'[s] = fds[s] /\ evts'[s] = evts[s])
    BY <1>7 DEF Remove, MovedTo, Pending, Assigned
  <1>12. idx'[e] = -1
    BY DEF Remove, MovedTo
  <1> QED
    BY <1>2, <1>7, <1>8, <1>9, <1>10, <1>11, <1>12

\* Registering appends a clean slot and leaves the others as they are.
LEMMA AddOK ==
  ASSUME ArraysType, SlotsMatch, ArraysFit,
         NEW e \in Evts, NEW fd \in Fds, NEW events \in Interests, Add(e, fd, events)
  PROVE  /\ ArraysType'
         /\ SlotsMatch'
         /\ ArraysFit'
         /\ \A s \in Slots' : ~Pending(s)' \/ (s \in Slots /\ fds'[s] = fds[s] /\ evts'[s] = evts[s])
  <1>1. n \in Nat /\ n' = n+1 /\ Slots = 0 .. n-1 /\ Slots' = 0 .. n
    BY DEF Add, ArraysType, Slots
  <1>2. idx[e] = -1 /\ idx' = [idx EXCEPT ![e] = n] /\ efd' = [efd EXCEPT ![e] = fd]
        /\ eevents' = [eevents EXCEPT ![e] = events]
    BY DEF Add
  <1>3. evts' = [s \in 0 .. n |-> IF s = n THEN e ELSE evts[s]]
    BY DEF Add
  <1>4. fds' = [s \in 0 .. n |-> IF s = n THEN [fd |-> fd, events |-> events, revents |-> {}] ELSE fds[s]]
    BY DEF Add
  <1>5. maxn' \in Nat /\ ArraysFit'
    <2>1. CASE n >= maxn
      <3>1. n > 0 /\ maxn' = Resized(n)
        BY <2>1, <1>1, PollAssumption DEF Add, ArraysFit, ArraysType
      <3>2. Resized(n) = MinAlloc \/ Resized(n) < ShrinkFactor * n
        BY <1>1, ResizedFits
      <3>3. ShrinkFactor * (n+1) = ShrinkFactor * n + ShrinkFactor
        BY <1>1, PollAssumption
      <3>4. ShrinkFactor * n \in Int /\ ShrinkFactor \in Nat
        BY <1>1, PollAssumption
      <3> QED
        BY <3>1, <3>2, <3>3, <3>4, <1>1, ResizedFits DEF ArraysFit
    <2>2. CASE ~(n >= maxn)
      <3>1. maxn' = maxn
        BY <2>2 DEF Add
      <3>2. ShrinkFactor * (n+1) = ShrinkFactor * n + ShrinkFactor
        BY <1>1, PollAssumption
      <3>3. ShrinkFactor * n \in Int /\ ShrinkFactor \in Nat /\ maxn \in Nat
        BY <1>1, PollAssumption DEF ArraysType
      <3> QED
        BY <2>2, <3>1, <3>2, <3>3, <1>1 DEF ArraysFit
    <2> QED
      BY <2>1, <2>2
  <1>6. ArraysType'
    <2>1. idx' \in [Evts -> Int] /\ efd' \in [Evts -> Fds \cup {-1}] /\ eevents' \in [Evts -> Interests \cup {{}}]
      BY <1>1, <1>2 DEF ArraysType
    <2>2. evts' \in [Slots' -> Evts]
      BY <1>1, <1>3 DEF ArraysType
    <2>3. fds' \in [Slots' -> [fd : Fds, events : Interests, revents : SUBSET Conditions]]
      BY <1>1, <1>4 DEF ArraysType
    <2> QED
      BY <2>1, <2>2, <2>3, <1>1, <1>5 DEF ArraysType
  <1>7. SlotsMatch'
    <2>1. ASSUME NEW s \in Slots'
          PROVE  idx'[evts'[s]] = s /\ fds'[s].fd = efd'[evts'[s]] /\ fds'[s].events = eevents'[evts'[s]]
      <3>1. CASE s = n
        BY <3>1, <1>1, <1>2, <1>3, <1>4 DEF ArraysType
      <3>2. CASE s # n
        <4>1. s \in Slots /\ s # -1
          BY <3>2, <1>1
        <4>2. evts'[s] = evts[s] /\ fds'[s] = fds[s] /\ evts[s] \in Evts /\ evts[s] # e
          BY <3>2, <4>1, <1>1, <1>2, <1>3, <1>4 DEF SlotsMatch, ArraysType
        <4> QED
          BY <4>1, <4>2, <1>2 DEF SlotsMatch, ArraysType
      <3> QED
        BY <3>1, <3>2
    <2>2. ASSUME NEW x \in Evts, idx'[x] # -1
          PROVE  idx'[x] \in Slots' /\ evts'[idx'[x]] = x
      <3>1. CASE x = e
        BY <3>1, <1>1, <1>2, <1>3 DEF ArraysType
      <3>2. CASE x # e
        BY <3>2, <2>2, <1>1, <1>2, <1>3 DEF SlotsMatch, Registered, ArraysType
      <3> QED
        BY <3>1, <3>2
    <2> QED
      BY <2>1, <2>2 DEF SlotsMatch, Registered
  <1>8. ASSUME NEW s \in Slots'
        PROVE  ~Pending(s)' \/ (s \in Slots /\ fds'[s] = fds[s] /\ evts'[s] = evts[s])
    BY <1>1, <1>3, <1>4 DEF Pending
  <1> QED
    BY <1>5, <1>6, <1>7, <1>8

\* Modifying an event changes no report.
LEMMA ModOK ==
  ASSUME ArraysType, SlotsMatch, ArraysFit,
         NEW e \in Evts, NEW fd \in Fds, NEW events \in Interests, Mod(e, fd, events)
  PROVE  /\ ArraysType'
         /\ SlotsMatch'
         /\ ArraysFit'
         /\ Slots' = Slots /\ evts' = evts /\ idx' = idx
         /\ \A s \in Slots : fds'[s].revents = fds[s].revents
  <1>1. Slots' = Slots /\ evts' = evts /\ idx' = idx /\ n' = n /\ maxn' = maxn
    BY DEF Mod, Slots
  <1>2. efd' = [efd EXCEPT ![e] = fd] /\ eevents' = [eevents EXCEPT ![e] = events]
    BY DEF Mod
  <1>3. ASSUME NEW s \in Slots
        PROVE  /\ fds'[s].revents = fds[s].revents
               /\ fds'[s] \in [fd : Fds, events : Interests, revents : SUBSET Conditions]
               /\ fds'[s].fd = IF evts[s] = e THEN fd ELSE fds[s].fd
               /\ fds'[s].events = IF evts[s] = e THEN events ELSE fds[s].events
    <2>1. fds[s] \in [fd : Fds, events : Interests, revents : SUBSET Conditions]
      BY DEF ArraysType
    <2>2. idx[evts[s]] = s /\ s # -1
      BY DEF SlotsMatch, Slots
    <2>3. CASE idx[e] = -1
      <3>1. fds' = fds /\ evts[s] # e
        BY <2>2, <2>3 DEF Mod
      <3> QED
        BY <3>1, <2>1
    <2>4. CASE idx[e] # -1
      <3>1. idx[e] \in Slots /\ evts[idx[e]] = e
        BY <2>4 DEF SlotsMatch, Registered
      <3>2. fds' = [fds EXCEPT ![idx[e]].fd = fd, ![idx[e]].events = events]
        BY <2>4 DEF Mod
      <3>3. (s = idx[e]) <=> (evts[s] = e)
        BY <2>2, <3>1
      <3>4. CASE s = idx[e]
        BY <3>2, <3>3, <3>4, <2>1 DEF ArraysType
      <3>5. CASE s # idx[e]
        <4>1. fds'[s] = fds[s]
          BY <3>2, <3>5 DEF ArraysType
        <4> QED
          BY <4>1, <3>3, <3>5, <2>1
      <3> QED
        BY <3>4, <3>5
    <2> QED
      BY <2>3, <2>4
  <1>4. fds' \in [Slots -> [fd : Fds, events : Interests, revents : SUBSET Conditions]]
    <2>1. DOMAIN fds' = Slots /\ fds' = [s \in DOMAIN fds' |-> fds'[s]]
      BY DEF Mod, ArraysType
    <2> QED
      BY <2>1, <1>3
  <1>5. ArraysType'
    BY <1>1, <1>2, <1>4 DEF ArraysType
  <1>6. SlotsMatch'
    <2>1. ASSUME NEW s \in Slots
          PROVE  fds'[s].fd = efd'[evts[s]] /\ fds'[s].events = eevents'[evts[s]]
      BY <1>2, <1>3 DEF SlotsMatch, ArraysType
    <2> QED
      BY <2>1, <1>1 DEF SlotsMatch, Registered
  <1> QED
    BY <1>1, <1>3, <1>5, <1>6 DEF ArraysFit

-----------------------------------------------------------------------------
(* The inductive invariant *)

LEMMA InitInv == Init => IInv
  <1> SUFFICES ASSUME Init PROVE IInv
    OBVIOUS
  <1>1. Slots = {} /\ n = 0 /\ maxn = MinAlloc /\ MinAlloc \in Nat
    BY PollAssumption DEF Init, Slots
  <1>2. ArraysType /\ ControlType
    <2>1. Slots = DOMAIN evts /\ Slots = DOMAIN fds /\ evts = [s \in Slots |-> 0] /\ fds = [s \in Slots |-> 0]
      BY <1>1 DEF Init
    <2>2. evts \in [Slots -> Evts]
      BY <1>1, <2>1
    <2>3. fds \in [Slots -> [fd : Fds, events : Interests, revents : SUBSET Conditions]]
      BY <1>1, <2>1
    <2>4. idx \in [Evts -> Int] /\ efd \in [Evts -> Fds \cup {-1}] /\ eevents \in [Evts -> Interests \cup {{}}]
          /\ n \in Nat /\ maxn \in Nat
      BY <1>1 DEF Init
    <2>5. ArraysType
      BY <2>2, <2>3, <2>4 DEF ArraysType
    <2>6. ControlType
      <3>1. curHup \in BOOLEAN /\ cur \in Evts /\ owedHup \in SUBSET Evts
        BY Zenon DEF Init
      <3>2. pollRc \in Int /\ i \in Nat /\ rc \in Int /\ rcOrig \in Int
        BY DEF Init
      <3> QED
        BY <3>1, <3>2 DEF Init, ControlType
    <2> QED
      BY <2>5, <2>6
  <1>3. SlotsMatch
    BY <1>1 DEF Init, SlotsMatch, Registered
  <1>4. ArraysFit
    BY <1>1 DEF ArraysFit
  <1>5. Clean
    BY <1>1 DEF Init, Clean, NothingStale, ScannedClean
  <1> QED
    BY <1>2, <1>3, <1>4, <1>5 DEF IInv, TypeOK

\* A step that leaves the arrays alone keeps what IInv says of them alone.
LEMMA SameArrays ==
  ASSUME ArraysType, SlotsMatch, ArraysFit, UNCHANGED arrays
  PROVE  /\ ArraysType' /\ SlotsMatch' /\ ArraysFit'
         /\ Slots' = Slots /\ evts' = evts /\ fds' = fds /\ idx' = idx /\ n' = n
  BY DEF arrays, ArraysType, SlotsMatch, ArraysFit, Slots, Registered

\* Reporting writes nothing but revents.
LEMMA ReportOK ==
  ASSUME ArraysType, SlotsMatch, ArraysFit,
         UNCHANGED <<idx, efd, eevents, n, maxn, evts>>,
         NEW report \in [Slots -> SUBSET Conditions],
         fds' = [s \in Slots |-> [fds[s] EXCEPT !.revents = report[s]]]
  PROVE  ArraysType' /\ SlotsMatch' /\ ArraysFit'
  <1>1. Slots' = Slots
    BY DEF Slots
  <1>2. ASSUME NEW s \in Slots
        PROVE  /\ fds'[s] \in [fd : Fds, events : Interests, revents : SUBSET Conditions]
               /\ fds'[s].fd = fds[s].fd /\ fds'[s].events = fds[s].events
    <2>1. fds[s] \in [fd : Fds, events : Interests, revents : SUBSET Conditions]
      BY DEF ArraysType
    <2>2. fds'[s] = [fds[s] EXCEPT !.revents = report[s]] /\ report[s] \in SUBSET Conditions
      OBVIOUS
    <2> QED
      BY <2>1, <2>2
  <1>3. ArraysType'
    BY <1>1, <1>2 DEF ArraysType
  <1>4. SlotsMatch'
    BY <1>1, <1>2 DEF SlotsMatch, Registered
  <1> QED
    BY <1>3, <1>4 DEF ArraysFit

\* The return of a callback: the event is gone, deregistered for its owner, or
\* its slot is cleared, and the scan goes on at the right slot.
LEMMA ReturnInv ==
  ASSUME IInv, Return
  PROVE  IInv'
  <1> USE DEF IInv, TypeOK
  <1>1. pc = "call" /\ pc' = "scan" /\ cur \in Evts /\ cur' = cur /\ curHup \in BOOLEAN /\ i \in Nat
    BY DEF Return, NextSlot, ControlType
  <1>2. \A s \in Slots : s < i => ~Pending(s) \/ evts[s] = cur
    BY <1>1 DEF Clean, ScannedClean
  <1>3. i' = IF idx'[cur] = i THEN i + 1 ELSE i
    BY DEF Return, NextSlot, ReportCleared
  <1>4. ControlType'
    BY <1>1, <1>3 DEF Return, NextSlot, ControlType
  <1>5. CASE idx[cur] # -1 /\ curHup
    <2>1. Remove(cur)
      BY <1>5 DEF Return, NextSlot, ReportCleared
    <2>2. /\ ArraysType' /\ SlotsMatch' /\ ArraysFit' /\ idx'[cur] = -1 /\ n' = n - 1
          /\ \A s \in Slots' : ~Pending(s)' \/ (fds'[s] = fds[s] /\ evts'[s] = evts[s])
      BY <2>1, <1>1, <1>5, RemoveOK
    <2>3. i' = i
      BY <2>2, <1>1, <1>3
    <2>4. ASSUME NEW s \in Slots', s < i'
          PROVE  ~Pending(s)'
      <3>1. s \in Slots
        BY <2>2 DEF Slots, ArraysType
      <3>2. evts'[s] # cur
        BY <2>2 DEF SlotsMatch, Slots
      <3> QED
        BY <3>1, <3>2, <2>2, <2>3, <2>4, <1>2 DEF Pending
    <2> QED
      BY <2>2, <2>4, <1>1, <1>4 DEF Clean, NothingStale, ScannedClean
  <1>6. CASE idx[cur] # -1 /\ ~curHup
    <2>1. fds' = [fds EXCEPT ![idx[cur]].revents = {}] /\ UNCHANGED <<idx, efd, eevents, n, maxn, evts>>
      BY <1>6 DEF Return, NextSlot, ReportCleared
    <2>2. idx[cur] \in Slots /\ evts[idx[cur]] = cur
      BY <1>1, <1>6 DEF SlotsMatch, Registered
    <2>3. DEFINE report == [s \in Slots |-> IF s = idx[cur] THEN {} ELSE fds[s].revents]
    <2>4. report \in [Slots -> SUBSET Conditions]
      BY DEF ArraysType
    <2>5. fds' = [s \in Slots |-> [fds[s] EXCEPT !.revents = report[s]]]
      <3>1. DOMAIN fds' = Slots /\ fds' = [s \in Slots |-> fds'[s]]
        BY <2>1 DEF ArraysType
      <3>2. ASSUME NEW s \in Slots
            PROVE  fds'[s] = [fds[s] EXCEPT !.revents = report[s]]
        <4>1. fds[s] \in [fd : Fds, events : Interests, revents : SUBSET Conditions]
          BY DEF ArraysType
        <4>2. CASE s = idx[cur]
          BY <2>1, <4>2, <4>1 DEF ArraysType
        <4>3. CASE s # idx[cur]
          <5>1. fds'[s] = fds[s]
            BY <2>1, <4>3 DEF ArraysType
          <5> QED
            BY <4>1, <5>1, <4>3
        <4> QED
          BY <4>2, <4>3
      <3> QED
        BY <3>1, <3>2
    <2>6. ArraysType' /\ SlotsMatch' /\ ArraysFit'
      BY <2>1, <2>4, <2>5, ReportOK
    <2>7. ASSUME NEW s \in Slots', s < i'
          PROVE  ~Pending(s)'
      <3>1. s \in Slots /\ s \in Int /\ fds'[s].revents = report[s]
        <4>1. s \in Slots
          BY <2>1 DEF Slots
        <4>2. fds[s] \in [fd : Fds, events : Interests, revents : SUBSET Conditions]
          BY <4>1 DEF ArraysType
        <4>3. fds'[s] = [fds[s] EXCEPT !.revents = report[s]]
          BY <4>1, <2>5
        <4>4. fds'[s].revents = report[s]
          BY <4>2, <4>3
        <4> QED
          BY <4>1, <4>4 DEF Slots
      <3>2. CASE s = idx[cur]
        BY <3>1, <3>2 DEF Pending
      <3>3. CASE s # idx[cur]
        <4>1. evts[s] # cur
          BY <3>1, <3>3, <2>2 DEF SlotsMatch
        <4>2. idx' = idx /\ i' = IF idx[cur] = i THEN i + 1 ELSE i
          BY <2>1, <1>3
        <4>3. s < i
          BY <3>1, <3>3, <2>7, <4>2, <1>1
        <4> QED
          BY <3>1, <3>3, <4>1, <4>3, <1>2 DEF Pending
      <3> QED
        BY <3>2, <3>3
    <2> QED
      BY <2>6, <2>7, <1>1, <1>4 DEF Clean, NothingStale, ScannedClean
  <1>7. CASE idx[cur] = -1
    <2>1. UNCHANGED arrays /\ i' = i
      BY <1>1, <1>3, <1>7 DEF Return, NextSlot, ReportCleared, arrays
    <2>2. ArraysType' /\ SlotsMatch' /\ ArraysFit' /\ Slots' = Slots /\ evts' = evts /\ fds' = fds
      BY <2>1, SameArrays
    <2>3. ASSUME NEW s \in Slots
          PROVE  evts[s] # cur
      BY <1>7 DEF SlotsMatch, Slots
    <2> QED
      BY <2>1, <2>2, <2>3, <1>1, <1>2, <1>4 DEF Clean, NothingStale, ScannedClean, Pending
  <1> QED
    BY <1>1, <1>5, <1>6, <1>7

\* A user call changes no local of the loop and reports nothing.
LEMMA UserInv ==
  ASSUME IInv, UserMayCall, UNCHANGED <<pollRc, control>>, owedHup' \in SUBSET Evts,
         ArraysType', SlotsMatch', ArraysFit',
         \A s \in Slots' : \/ ~Pending(s)'
                           \/ s \in Slots /\ (Pending(s)' => Pending(s)) /\ evts'[s] = evts[s]
  PROVE  IInv'
  <1>1. UNCHANGED <<pollRc, pc, i, rc, rcOrig, cur, curHup>> /\ pc \in {"idle", "ready", "call"}
    BY DEF control, UserMayCall
  <1>2. ControlType'
    BY <1>1 DEF IInv, TypeOK, ControlType
  <1>3. NothingStale'
    BY <1>1 DEF IInv, Clean, NothingStale
  <1>4. pc' = "ready" /\ pollRc' < 0 => \A s \in Slots' : ~Pending(s)'
    BY <1>1 DEF IInv, Clean
  <1>5. ScannedClean'
    BY <1>1 DEF IInv, Clean, ScannedClean
  <1> QED
    BY <1>2, <1>3, <1>4, <1>5 DEF IInv, TypeOK, Clean

LEMMA NextInv == IInv /\ [Next]_vars => IInv'
  <1> SUFFICES ASSUME IInv, [Next]_vars PROVE IInv'
    OBVIOUS
  <1>0. ArraysType /\ SlotsMatch /\ ArraysFit /\ ControlType /\ Clean
    BY DEF IInv, TypeOK
  <1>1. ASSUME NEW e \in Evts, NEW fd \in Fds, NEW events \in Interests, Add(e, fd, events)
        PROVE  IInv'
    <2>1. /\ ArraysType' /\ SlotsMatch' /\ ArraysFit'
          /\ \A s \in Slots' : ~Pending(s)' \/ (s \in Slots /\ fds'[s] = fds[s] /\ evts'[s] = evts[s])
      BY <1>0, <1>1, AddOK
    <2>2. UserMayCall /\ UNCHANGED <<pollRc, control>> /\ owedHup' \in SUBSET Evts
      BY <1>0, <1>1 DEF Add, ControlType
    <2> QED
      BY <2>1, <2>2, UserInv DEF Pending
  <1>2. ASSUME NEW e \in Evts, Del(e)
        PROVE  IInv'
    <2>1. Remove(e) /\ idx[e] # -1 /\ UserMayCall /\ UNCHANGED <<pollRc, control>> /\ owedHup' \in SUBSET Evts
      BY <1>0, <1>2 DEF Del, ControlType
    <2>2. /\ ArraysType' /\ SlotsMatch' /\ ArraysFit' /\ n' = n - 1
          /\ \A s \in Slots' : ~Pending(s)' \/ (fds'[s] = fds[s] /\ evts'[s] = evts[s])
      BY <1>0, <2>1, RemoveOK
    <2>3. Slots' \subseteq Slots
      BY <1>0, <2>2 DEF Slots, ArraysType
    <2> QED
      BY <2>1, <2>2, <2>3, UserInv DEF Pending
  <1>3. ASSUME NEW e \in Evts, NEW fd \in Fds, NEW events \in Interests, Mod(e, fd, events)
        PROVE  IInv'
    <2>1. /\ ArraysType' /\ SlotsMatch' /\ ArraysFit' /\ Slots' = Slots /\ evts' = evts
          /\ \A s \in Slots : fds'[s].revents = fds[s].revents
      BY <1>0, <1>3, ModOK
    <2>2. UserMayCall /\ UNCHANGED <<pollRc, control>> /\ owedHup' \in SUBSET Evts
      BY <1>0, <1>3 DEF Mod, ControlType
    <2> QED
      BY <2>1, <2>2, UserInv DEF Pending
  <1>4. CASE Wait
    <2>1. PICK report \in [Slots -> SUBSET Conditions] :
             /\ fds' = [s \in Slots |-> [fds[s] EXCEPT !.revents = report[s]]]
             /\ pollRc' = Cardinality({s \in Slots : report[s] # {}})
      BY <1>4 DEF Wait
    <2>2. ArraysType' /\ SlotsMatch' /\ ArraysFit'
      BY <1>0, <1>4, <2>1, ReportOK DEF Wait
    <2>3. pollRc' \in Nat
      <3>1. IsFiniteSet(Slots)
        BY <1>0, FS_Interval DEF Slots, ArraysType
      <3> QED
        BY <2>1, <3>1, FS_Subset, FS_CardinalityType
    <2>4. pc' = "ready" /\ ControlType'
      BY <1>0, <1>4, <2>3 DEF Wait, ControlType
    <2> QED
      BY <2>2, <2>3, <2>4 DEF IInv, TypeOK, Clean, NothingStale, ScannedClean
  <1>5. CASE HupAll
    <2>1. DEFINE report == [s \in Slots |-> fds[s].revents \cup {HUP}]
    <2>2. report \in [Slots -> SUBSET Conditions]
      BY <1>0 DEF ArraysType, Conditions
    <2>3. fds' = [s \in Slots |-> [fds[s] EXCEPT !.revents = report[s]]]
      BY <1>5 DEF HupAll
    <2>4. ArraysType' /\ SlotsMatch' /\ ArraysFit'
      BY <1>0, <1>5, <2>2, <2>3, ReportOK DEF HupAll
    <2>5. pc' = "scan" /\ i' = 0 /\ ControlType'
      BY <1>0, <1>5 DEF HupAll, HupCount, StartPass, ControlType, ArraysType, Registered
    <2>6. \A s \in Slots' : ~(s < i')
      BY <2>4, <2>5 DEF Slots, ArraysType
    <2> QED
      BY <2>4, <2>5, <2>6 DEF IInv, TypeOK, Clean, NothingStale, ScannedClean
  <1>6. CASE Return
    BY <1>6, ReturnInv
  <1>7. ASSUME UNCHANGED arrays, WaitFails \/ Process \/ SkipSlot \/ Dispatch \/ EndPass \/ UNCHANGED vars
        PROVE  IInv'
    <2>1. /\ ArraysType' /\ SlotsMatch' /\ ArraysFit' /\ n \in Nat
          /\ Slots' = Slots /\ evts' = evts /\ fds' = fds /\ idx' = idx /\ n' = n
      BY <1>0, <1>7, SameArrays DEF ArraysType
    <2>2. \A s \in Slots : Pending(s)' <=> Pending(s)
      BY <2>1 DEF Pending
    <2>3. \A s \in Slots : s \in Int /\ s >= 0 /\ s < n
      BY <2>1 DEF Slots
    <2>4. CASE WaitFails
      <3>1. pollRc' = -1 /\ pc' = "ready" /\ UNCHANGED <<i, rc, rcOrig, cur, curHup, owedHup>>
        BY <2>4 DEF WaitFails
      <3>2. ControlType'
        BY <1>0, <3>1 DEF ControlType
      <3> QED
        BY <1>0, <2>1, <2>2, <2>4, <3>1, <3>2 DEF WaitFails, IInv, TypeOK, Clean, NothingStale, ScannedClean
    <2>5. CASE Process
      <3>1. ControlType'
        BY <1>0, <2>5 DEF Process, StartPass, ControlType
      <3>2. CASE pollRc < 0
        BY <1>0, <2>1, <2>2, <2>5, <3>1, <3>2 DEF Process, IInv, TypeOK, Clean, NothingStale, ScannedClean
      <3>3. CASE ~(pollRc < 0)
        <4>1. pc' = "scan" /\ i' = 0
          BY <2>5, <3>3 DEF Process, StartPass
        <4> QED
          BY <2>1, <2>3, <3>1, <4>1 DEF IInv, TypeOK, Clean, NothingStale, ScannedClean
      <3> QED
        BY <3>2, <3>3
    <2>6. CASE SkipSlot
      <3>1. /\ pc = "scan" /\ pc' = "scan" /\ i' = i+1 /\ i \in Nat /\ ~Pending(i)
            /\ ControlType'
        BY <1>0, <2>6 DEF SkipSlot, ControlType
      <3>2. \A s \in Slots : s < i+1 => s < i \/ s = i
        BY <2>3, <3>1
      <3> QED
        BY <1>0, <2>1, <2>2, <3>1, <3>2 DEF IInv, TypeOK, Clean, NothingStale, ScannedClean
    <2>7. CASE Dispatch
      <3>1. pc = "scan" /\ pc' = "call" /\ i' = i /\ i \in Slots
        BY <1>0, <2>1, <2>7 DEF Dispatch, ControlType, Slots
      <3>2. cur' \in Evts /\ curHup' \in BOOLEAN /\ owedHup' \in SUBSET Evts
        BY <1>0, <2>7, <3>1 DEF Dispatch, ControlType, ArraysType
      <3>3. ControlType'
        BY <1>0, <2>7, <3>1, <3>2 DEF Dispatch, ControlType
      <3> QED
        BY <1>0, <2>1, <2>2, <3>1, <3>3 DEF IInv, TypeOK, Clean, NothingStale, ScannedClean
    <2>8. CASE EndPass
      <3>1. pc = "scan" /\ i \in Nat /\ i >= n /\ ControlType'
        BY <1>0, <2>8 DEF EndPass, ScanAgain, StartPass, ControlType
      <3>2. \A s \in Slots : ~Pending(s)
        BY <1>0, <2>1, <2>3, <3>1 DEF Clean, ScannedClean
      <3>3. pc' \in {"scan", "idle"}
        BY <2>8 DEF EndPass, ScanAgain, StartPass
      <3> QED
        BY <2>1, <2>2, <3>1, <3>2, <3>3 DEF IInv, TypeOK, Clean, NothingStale, ScannedClean
    <2>9. CASE UNCHANGED vars
      <3>1. UNCHANGED <<pollRc, pc, i, rc, rcOrig, cur, curHup, owedHup>>
        BY <2>9 DEF vars, control
      <3>2. ControlType'
        BY <1>0, <3>1 DEF ControlType
      <3> QED
        BY <1>0, <2>1, <2>2, <3>1, <3>2 DEF IInv, TypeOK, Clean, NothingStale, ScannedClean
    <2> QED
      BY <1>7, <2>4, <2>5, <2>6, <2>7, <2>8, <2>9
  <1> QED
    BY <1>1, <1>2, <1>3, <1>4, <1>5, <1>6, <1>7
       DEF Next, Loop, vars, WaitFails, Process, SkipSlot, Dispatch, EndPass

-----------------------------------------------------------------------------
(* What holds in every reachable state *)

LEMMA Invariant == Spec => []IInv
  BY InitInv, NextInv, PTL DEF Spec

\* The variables always have their types.
THEOREM TypeCorrect == Spec => []TypeOK
  <1>1. IInv => TypeOK
    BY DEF IInv
  <1> QED
    BY <1>1, Invariant, PTL

\* The events and the arrays fds and evts agree, so none of the assertions of
\* aem_poll_event_verify, aem_poll_del and aem_poll_mod can fail.
THEOREM SlotsAlwaysMatch == Spec => []SlotsMatch
  <1>1. IInv => SlotsMatch
    BY DEF IInv
  <1> QED
    BY <1>1, Invariant, PTL

\* No access to the arrays is out of bounds, for every allocation policy with a
\* positive minimum and a shrinking factor above two.
THEOREM ArraysAlwaysFit == Spec => []ArraysFit
  <1>1. IInv => ArraysFit
    BY DEF IInv
  <1> QED
    BY <1>1, Invariant, PTL

\* aem_poll_process never leaves a report for the next round.
THEOREM NeverStale == Spec => []NothingStale
  <1>1. IInv => NothingStale
    BY DEF IInv, Clean
  <1> QED
    BY <1>1, Invariant, PTL

\* Arrays, events and allocation fit together whatever callbacks do.
THEOREM ArraysAlwaysHold == Spec => []ArraysHold
<1>1. SlotsMatch /\ ArraysFit => ArraysHold
  BY DEF ArraysHold
<1> QED BY <1>1, SlotsAlwaysMatch, ArraysAlwaysFit, PTL

-----------------------------------------------------------------------------
(* The promise of AemPollAbs *)

\* The events whose report the loop still has to deliver.
ReportsLeft == {evts[s] : s \in Undispatched}

\* Slots and events are one to one.
LEMMA SlotsToEvents ==
  ASSUME NEW S, NEW ix, NEW ev, -1 \notin S,
         \A s \in S : ev[s] \in Evts /\ ix[ev[s]] = s,
         \A e \in Evts : ix[e] # -1 => ix[e] \in S /\ ev[ix[e]] = e,
         NEW T \in SUBSET S, NEW e
  PROVE  e \in {ev[s] : s \in T} <=> e \in Evts /\ ix[e] \in T
  OBVIOUS

\* The events with a report left, by their slots; and the same of the next state.
LEMMA ReportsAre ==
  ASSUME ArraysType, SlotsMatch
  PROVE  /\ \A e : e \in ReportsLeft <=> e \in Evts /\ idx[e] \in Undispatched
         /\ -1 \notin Slots
         /\ \A s \in Slots : evts[s] \in Evts /\ idx[evts[s]] = s
         /\ \A e \in Evts : idx[e] # -1 => idx[e] \in Slots /\ evts[idx[e]] = e
  <1>1. /\ -1 \notin Slots
        /\ \A s \in Slots : evts[s] \in Evts /\ idx[evts[s]] = s
        /\ \A e \in Evts : idx[e] # -1 => idx[e] \in Slots /\ evts[idx[e]] = e
    BY DEF ArraysType, SlotsMatch, Slots, Registered
  <1>2. Undispatched \in SUBSET Slots
    BY DEF Undispatched
  <1> QED
    BY <1>1, <1>2, SlotsToEvents DEF ReportsLeft

LEMMA ReportsWillBe ==
  ASSUME ArraysType', SlotsMatch'
  PROVE  /\ \A e : e \in ReportsLeft' <=> e \in Evts /\ idx'[e] \in Undispatched'
         /\ -1 \notin Slots'
         /\ \A s \in Slots' : evts'[s] \in Evts /\ idx'[evts'[s]] = s
         /\ \A e \in Evts : idx'[e] # -1 => idx'[e] \in Slots' /\ evts'[idx'[e]] = e
  <1>1. /\ -1 \notin Slots'
        /\ \A s \in Slots' : evts'[s] \in Evts /\ idx'[evts'[s]] = s
        /\ \A e \in Evts : idx'[e] # -1 => idx'[e] \in Slots' /\ evts'[idx'[e]] = e
    <2>1. -1 \notin Slots'
      BY DEF Slots, ArraysType
    <2>2. \A s \in Slots' : evts'[s] \in Evts /\ idx'[evts'[s]] = s
      BY DEF ArraysType, SlotsMatch
    <2>3. \A e \in Evts : idx'[e] # -1 => idx'[e] \in Slots' /\ evts'[idx'[e]] = e
      BY DEF SlotsMatch, Registered
    <2> QED BY <2>1, <2>2, <2>3
  <1>2. Undispatched' \in SUBSET Slots'
    BY DEF Undispatched
  <1> QED
    BY <1>1, <1>2, SlotsToEvents DEF ReportsLeft

\* The state of the promise.
Handled == IF pc = "call" THEN cur ELSE None
Busy == pc # "idle"
absVars == <<Registered, ReportsLeft, Handled, Busy>>

\* A round that begins reports what it finds.
LEMMA AbsReport ==
  ASSUME ~Busy, Busy', Registered' = Registered, Handled' = Handled, ReportsLeft' \subseteq Registered
  PROVE  Abs!Next
  <1>1. PICK S : S = ReportsLeft'
    OBVIOUS
  <1>2. Abs!Report(S)
    BY <1>1 DEF Abs!Report, ReportsLeft, Handled, Busy
  <1> QED BY <1>1, <1>2 DEF Abs!Next

\* A round that ends leaves nothing.
LEMMA AbsFinish ==
  ASSUME Busy, ~Busy', Registered' = Registered, Handled = None, Handled' = None,
         ReportsLeft = {}, ReportsLeft' = {}
  PROVE  Abs!Next
  <1>1. Abs!Finish
    BY DEF Abs!Finish, ReportsLeft, Handled, Busy
  <1> QED BY <1>1 DEF Abs!Next

\* Deregistering loses the report of the event itself and of at most one other.
LEMMA AbsForget ==
  ASSUME NEW e \in Registered, Registered' = Registered \ {e}, NEW x,
         ReportsLeft' = ReportsLeft \ {e, x}
  PROVE  \E lost \in SUBSET ReportsLeft : Abs!Forget(e, lost)
  <1>0. PICK lost : lost = ReportsLeft \cap {x}
    OBVIOUS
  <1>1. lost \in SUBSET ReportsLeft /\ ReportsLeft' = ReportsLeft \ (lost \cup {e})
    BY <1>0
  <1>2. lost \ {e} = {} \/ lost \ {e} = {x}
    BY <1>0
  <1>3. Abs!Cardinality(lost \ {e}) = Cardinality(lost \ {e})
    BY Zenon DEF Cardinality, Abs!Cardinality
  <1>4. Cardinality(lost \ {e}) <= 1
    BY <1>2, FS_EmptySet, FS_Singleton
  <1>5. Abs!Forget(e, lost)
    BY <1>1, <1>3, <1>4 DEF Abs!Forget, ReportsLeft
  <1> QED BY <1>1, <1>5

\* What Remove does to the reports: the event that takes over a slot loses its own.
LEMMA RemoveForgets ==
  ASSUME ArraysType, SlotsMatch, ArraysFit, NEW e \in Evts, idx[e] # -1, Remove(e),
         (pc' = pc /\ cur' = cur) \/ (pc = "call" /\ pc' = "scan" /\ e = cur)
  PROVE  \E lost \in SUBSET ReportsLeft : Abs!Forget(e, lost)
  <1> DEFINE last == evts[n-1]
  <1>1. /\ \A x : x \in ReportsLeft <=> x \in Evts /\ idx[x] \in Undispatched
        /\ -1 \notin Slots
        /\ \A s \in Slots : evts[s] \in Evts /\ idx[evts[s]] = s
        /\ \A x \in Evts : idx[x] # -1 => idx[x] \in Slots /\ evts[idx[x]] = x
    BY ReportsAre
  <1>2. ArraysType' /\ SlotsMatch' /\ n' = n - 1
    BY RemoveOK
  <1>3. \A x : x \in ReportsLeft' <=> x \in Evts /\ idx'[x] \in Undispatched'
    BY <1>2, ReportsWillBe
  <1>4. n \in Nat /\ n - 1 \in Slots /\ Slots' = 0 .. n-2 /\ Slots = 0 .. n-1 /\ idx[e] \in Slots
    BY <1>1, <1>2 DEF ArraysType, Slots
  <1>5. last \in Evts /\ idx[last] = n - 1
    BY <1>1, <1>4
  <1>6. \A x \in Evts : idx'[x] = IF x = e THEN -1 ELSE IF x = last THEN idx[e] ELSE idx[x]
    BY DEF Remove, MovedTo
  <1>7. /\ \A s \in 0 .. n-2 : evts'[s] = IF s = idx[e] THEN last ELSE evts[s]
        /\ \A s \in 0 .. n-2 : fds'[s] = IF s = idx[e] THEN Assigned(last) ELSE fds[s]
    BY DEF Remove, MovedTo
  <1> HIDE DEF last
  <1>8. Registered' = Registered \ {e}
    <2>1. idx[e] # -1
      OBVIOUS
    <2>2. idx[last] # -1
      BY <1>4, <1>5
    <2> QED BY <1>6, <2>1, <2>2 DEF Registered
  <1>9. ASSUME NEW x \in Evts
        PROVE  x \in ReportsLeft' <=> x \in ReportsLeft /\ x # e /\ x # last
    <2>1. CASE x = e
      <3>1. idx'[x] = -1 /\ -1 \notin Slots'
        BY <2>1, <1>2, <1>6, ReportsWillBe
      <3> QED BY <2>1, <3>1, <1>3 DEF Undispatched
    <2>2. CASE x = last /\ x # e
      <3>1. idx'[x] = idx[e]
        BY <2>2, <1>6
      <3>2. idx[e] \in Slots' => fds'[idx[e]].revents = {}
        <4>1. idx[e] \in Slots' => fds'[idx[e]] = Assigned(last)
          BY <1>4, <1>7
        <4> QED BY <4>1 DEF Assigned
      <3> QED BY <2>2, <3>1, <3>2, <1>3 DEF Undispatched, Pending
    <2>3. CASE x # last /\ x # e
      <3>1. idx'[x] = idx[x]
        BY <2>3, <1>6
      <3>2. CASE idx[x] = -1
        BY <3>1, <3>2, <1>1, <1>2, <1>3, ReportsWillBe DEF Undispatched
      <3>3. CASE idx[x] # -1
        <4>1. idx[x] \in Slots /\ evts[idx[x]] = x
          BY <3>3, <1>1
        <4>2. idx[x] # n-1 /\ idx[x] # idx[e]
          BY <2>3, <4>1, <1>1 DEF last
        <4>3. idx[x] \in 0 .. n-2
          BY <4>1, <4>2, <1>4
        <4>4. evts'[idx[x]] = x /\ fds'[idx[x]] = fds[idx[x]]
          BY <4>1, <4>2, <4>3, <1>7
        <4>5. (pc' = "call" /\ x = cur') <=> (pc = "call" /\ x = cur)
          BY <2>3
        <4>6. idx[x] \in Undispatched' <=> idx[x] \in Undispatched
          BY <4>1, <4>3, <4>4, <4>5, <1>4 DEF Undispatched, Pending
        <4> QED BY <4>6, <3>1, <2>3, <1>1, <1>3
      <3> QED BY <3>2, <3>3
    <2> QED BY <2>1, <2>2, <2>3
  <1>10. ReportsLeft' = ReportsLeft \ {e, last}
    BY <1>1, <1>3, <1>9
  <1>11. e \in Registered
    BY DEF Registered
  <1> QED BY <1>8, <1>10, <1>11, AbsForget

\* Reports that are neither added nor dropped are the same set of events.
LEMMA SameReports ==
  ASSUME ArraysType, SlotsMatch, ArraysType', SlotsMatch',
         \A x \in Evts : idx'[x] \in Undispatched' <=> idx[x] \in Undispatched
  PROVE  ReportsLeft' = ReportsLeft
  BY ReportsAre, ReportsWillBe

\* A call of an owner.
LEMMA AddPromised ==
  ASSUME IInv, IInv', NEW e \in Evts, NEW fd \in Fds, NEW events \in Interests, Add(e, fd, events)
  PROVE  Abs!Next
  <1>1. ArraysType /\ SlotsMatch /\ ArraysType' /\ SlotsMatch'
    BY DEF IInv, TypeOK
  <1>2. /\ idx[e] = -1 /\ idx' = [idx EXCEPT ![e] = n] /\ n' = n + 1 /\ n \in Nat
        /\ Slots = 0 .. n-1 /\ Slots' = 0 .. n /\ pc' = pc /\ cur' = cur
        /\ idx \in [Evts -> Int]
    BY <1>1 DEF Add, control, Slots, ArraysType
  <1>3. /\ \A s \in Slots' : evts'[s] = IF s = n THEN e ELSE evts[s]
        /\ \A s \in Slots' : s # n => fds'[s] = fds[s]
        /\ fds'[n].revents = {}
    BY <1>2 DEF Add
  <1>4. Registered' = Registered \cup {e} /\ e \notin Registered
    <2>1. n # -1
      BY <1>2
    <2> QED BY <1>2, <2>1 DEF Registered
  <1>5. ASSUME NEW x \in Evts
        PROVE  idx'[x] \in Undispatched' <=> idx[x] \in Undispatched
    <2>1. CASE x = e
      <3>1. idx'[x] = n /\ idx[x] = -1 /\ -1 \notin Slots
        BY <2>1, <1>2
      <3> QED BY <3>1, <1>3 DEF Undispatched, Pending
    <2>2. CASE x # e
      <3>1. idx'[x] = idx[x]
        BY <2>2, <1>2
      <3>2. idx[x] \in Slots => idx[x] # n /\ idx[x] \in Slots'
        BY <1>2
      <3>3. idx[x] \in Slots' /\ idx[x] # n => idx[x] \in Slots
        BY <1>2
      <3>4. idx[x] # n
        BY <1>1, <1>2, <3>2, ReportsAre
      <3> QED BY <3>1, <3>2, <3>3, <3>4, <1>2, <1>3 DEF Undispatched, Pending
    <2> QED BY <2>1, <2>2
  <1>6. ReportsLeft' = ReportsLeft
    BY <1>1, <1>5, SameReports
  <1>7. Abs!Register(e)
    BY <1>2, <1>4, <1>6 DEF Abs!Register, ReportsLeft
  <1> QED BY <1>7 DEF Abs!Next

\* aem_poll_del.
LEMMA DelPromised ==
  ASSUME IInv, NEW e \in Evts, Del(e)
  PROVE  Abs!Next
  <1>1. ArraysType /\ SlotsMatch /\ ArraysFit /\ Remove(e) /\ idx[e] # -1 /\ pc' = pc /\ cur' = cur
    BY DEF IInv, TypeOK, Del, control
  <1>2. \E lost \in SUBSET ReportsLeft : Abs!Forget(e, lost)
    <2>1. (pc' = pc /\ cur' = cur) \/ (pc = "call" /\ pc' = "scan" /\ e = cur)
      BY <1>1
    <2>2. ArraysType /\ SlotsMatch /\ ArraysFit /\ Remove(e) /\ idx[e] # -1
      BY <1>1
    <2> QED BY <2>1, <2>2, RemoveForgets
  <1>3. \E lost \in SUBSET ReportsLeft : Abs!Deregister(e, lost)
    BY <1>1, <1>2 DEF Abs!Deregister
  <1> QED BY <1>3 DEF Abs!Next, ReportsLeft

\* Steps that leave the slots' reports to the events that have them.
LEMMA QuietReports ==
  ASSUME Slots' = Slots, evts' = evts, \A s \in Slots : fds'[s].revents = fds[s].revents,
         \A s \in Slots : (pc' = "call" /\ evts[s] = cur') <=> (pc = "call" /\ evts[s] = cur)
  PROVE  ReportsLeft' = ReportsLeft
  <1>1. Undispatched' = Undispatched
    BY DEF Undispatched, Pending
  <1> QED BY <1>1 DEF ReportsLeft

\* aem_poll_mod.
LEMMA ModPromised ==
  ASSUME IInv, NEW e \in Evts, NEW fd \in Fds, NEW events \in Interests, Mod(e, fd, events)
  PROVE  UNCHANGED absVars
  <1>1. /\ Slots' = Slots /\ evts' = evts /\ idx' = idx
        /\ \A s \in Slots : fds'[s].revents = fds[s].revents
    BY ModOK DEF IInv, TypeOK
  <1>2. pc' = pc /\ cur' = cur
    BY DEF Mod, control
  <1>3. ReportsLeft' = ReportsLeft
    BY <1>1, <1>2, QuietReports
  <1> QED BY <1>1, <1>2, <1>3 DEF absVars, Registered, Handled, Busy

\* poll(2) and the ways a round begins.
LEMMA WaitPromised ==
  ASSUME IInv, IInv', Wait \/ WaitFails \/ HupAll
  PROVE  Abs!Next
  <1>1. pc = "idle" /\ pc' \in {"ready", "scan"} /\ idx' = idx
    BY DEF Wait, WaitFails, HupAll, StartPass, arrays
  <1>2. ReportsLeft' \subseteq Registered'
    <2>1. ArraysType' /\ SlotsMatch'
      BY DEF IInv, TypeOK
    <2>2. Undispatched' \subseteq Slots'
      BY DEF Undispatched
    <2> QED BY <2>1, <2>2, ReportsWillBe DEF Registered
  <1>3. ~Busy /\ Busy' /\ Registered' = Registered /\ Handled' = Handled
    BY <1>1 DEF Busy, Registered, Handled
  <1> QED BY <1>2, <1>3, AbsReport

\* No slot is left over when a round ends.
LEMMA NothingLeft ==
  ASSUME \A s \in Slots : ~Pending(s)
  PROVE  ReportsLeft = {}
  BY DEF ReportsLeft, Undispatched

\* aem_poll_process begins, or gives up at once.
LEMMA ProcessPromised ==
  ASSUME IInv, IInv', Process
  PROVE  Abs!Next \/ UNCHANGED absVars
  <1>1. pc = "ready" /\ UNCHANGED arrays /\ cur' = cur
    BY DEF Process
  <1>2. UNCHANGED <<Slots, evts, fds, idx>>
    BY <1>1 DEF arrays, Slots
  <1>3. CASE pollRc < 0
    <2>1. pc' = "idle"
      BY <1>3 DEF Process
    <2>2. \A s \in Slots : ~Pending(s)
      BY <1>1, <1>3 DEF IInv, Clean
    <2>3. ReportsLeft = {} /\ ReportsLeft' = {}
      BY <1>2, <2>2, NothingLeft DEF ReportsLeft, Undispatched, Pending
    <2> QED BY <1>1, <1>2, <2>1, <2>3, AbsFinish DEF Busy, Handled, Registered
  <1>4. CASE ~(pollRc < 0)
    <2>1. pc' = "scan"
      BY <1>4 DEF Process, StartPass
    <2>2. ReportsLeft' = ReportsLeft
      BY <1>1, <1>2, <2>1, QuietReports
    <2> QED BY <1>1, <1>2, <2>1, <2>2 DEF absVars, Busy, Handled, Registered
  <1> QED BY <1>3, <1>4

\* The end of a pass over the slots.
LEMMA EndPassPromised ==
  ASSUME IInv, EndPass
  PROVE  Abs!Next \/ UNCHANGED absVars
  <1>1. pc = "scan" /\ UNCHANGED arrays /\ cur' = cur /\ i >= n /\ pc' \in {"scan", "idle"}
        /\ i \in Nat /\ n \in Nat
    BY DEF EndPass, ScanAgain, StartPass, IInv, TypeOK, ControlType, ArraysType
  <1>2. UNCHANGED <<Slots, evts, fds, idx>>
    BY <1>1 DEF arrays, Slots
  <1>3. \A s \in Slots : ~Pending(s)
    <2>1. \A s \in Slots : s < i
      BY <1>1 DEF Slots
    <2> QED BY <1>1, <2>1 DEF IInv, Clean, ScannedClean
  <1>4. ReportsLeft = {} /\ ReportsLeft' = {}
    BY <1>2, <1>3, NothingLeft DEF ReportsLeft, Undispatched, Pending
  <1>5. CASE pc' = "scan"
    BY <1>1, <1>2, <1>4, <1>5 DEF absVars, Busy, Handled, Registered
  <1>6. CASE pc' = "idle"
    BY <1>1, <1>2, <1>4, <1>6, AbsFinish DEF Busy, Handled, Registered
  <1> QED BY <1>1, <1>5, <1>6

\* A callback runs for a registered event that was reported.
LEMMA DispatchPromised ==
  ASSUME IInv, Dispatch
  PROVE  Abs!Next
  <1>1. /\ pc = "scan" /\ pc' = "call" /\ cur' = evts[i] /\ UNCHANGED arrays
        /\ i \in Slots /\ Pending(i)
    BY DEF Dispatch, IInv, TypeOK, ControlType, ArraysType, Slots
  <1>2. UNCHANGED <<Slots, evts, fds, idx>>
    BY <1>1 DEF arrays, Slots
  <1>3. PICK e : e = evts[i]
    OBVIOUS
  <1>4. /\ e \in Evts /\ idx[e] = i /\ i # -1 /\ e # None
        /\ \A s \in Slots : evts[s] = e => s = i
    BY <1>1, <1>3, ReportsAre, PollAssumption DEF IInv, TypeOK
  <1>5. Undispatched' = Undispatched \ {i} /\ i \in Undispatched
    BY <1>1, <1>2, <1>3, <1>4 DEF Undispatched, Pending
  <1>6. ReportsLeft' = ReportsLeft \ {e} /\ e \in ReportsLeft
    BY <1>2, <1>3, <1>4, <1>5 DEF ReportsLeft, Undispatched
  <1>7. e \in Registered /\ Registered' = Registered
    BY <1>2, <1>4 DEF Registered
  <1>8. Abs!Deliver(e)
    BY <1>1, <1>3, <1>6, <1>7 DEF Abs!Deliver, ReportsLeft
  <1> QED BY <1>4, <1>8 DEF Abs!Next

\* A callback returns; its event is dropped for it, or its slot cleared.
LEMMA ReturnPromised ==
  ASSUME IInv, IInv', Return
  PROVE  Abs!Next
  <1>1. ArraysType /\ SlotsMatch /\ ArraysFit /\ ArraysType' /\ SlotsMatch'
    BY DEF IInv, TypeOK
  <1>2. pc = "call" /\ pc' = "scan" /\ cur' = cur /\ cur \in Evts /\ cur # None
    BY PollAssumption DEF Return, IInv, TypeOK, ControlType
  <1>3. CASE idx[cur] # -1 /\ curHup
    <2>1. Remove(cur)
      BY <1>3 DEF Return
    <2>2. PICK lost \in SUBSET ReportsLeft : Abs!Forget(cur, lost)
      BY <1>1, <1>2, <1>3, <2>1, RemoveForgets
    <2>3. Abs!Return
      BY <1>2, <2>2 DEF Abs!Return, ReportsLeft
    <2> QED BY <2>3 DEF Abs!Next
  <1>4. CASE ~(idx[cur] # -1 /\ curHup)
    <2>1. UNCHANGED <<idx, efd, eevents, n, maxn, evts>> /\ fds' = ReportCleared(cur)
      BY <1>4 DEF Return
    <2>2. Slots' = Slots /\ Registered' = Registered
      BY <2>1 DEF Slots, Registered
    <2>3. ASSUME NEW x \in Evts
          PROVE  idx'[x] \in Undispatched' <=> idx[x] \in Undispatched
      <3>1. CASE x = cur
        <4>1. idx[x] \notin Undispatched
          BY <3>1, <1>1, <1>2, ReportsAre DEF Undispatched
        <4>2. idx[cur] # -1 => fds'[idx[cur]].revents = {}
          BY <1>1, <2>1, ReportsAre DEF ReportCleared, ArraysType
        <4>3. idx[cur] = -1 => idx[cur] \notin Slots
          BY <1>1, ReportsAre
        <4> QED BY <3>1, <2>1, <2>2, <4>1, <4>2, <4>3 DEF Undispatched, Pending
      <3>2. CASE x # cur
        <4>1. idx[x] \in Slots => evts[idx[x]] # cur /\ idx[x] # idx[cur]
          BY <3>2, <1>1, <1>2, ReportsAre
        <4>2. idx[x] \in Slots => fds'[idx[x]].revents = fds[idx[x]].revents
          BY <4>1, <1>1, <2>1 DEF ReportCleared, ArraysType
        <4> QED BY <1>2, <2>1, <2>2, <4>1, <4>2 DEF Undispatched, Pending
      <3> QED BY <3>1, <3>2
    <2>4. ReportsLeft' = ReportsLeft
      BY <1>1, <2>3, SameReports
    <2>5. Abs!Return
      BY <1>2, <2>2, <2>4 DEF Abs!Return, ReportsLeft
    <2> QED BY <2>5 DEF Abs!Next
  <1> QED BY <1>3, <1>4

\* A slot without a report.
LEMMA SkipPromised ==
  ASSUME SkipSlot \/ UNCHANGED vars
  PROVE  UNCHANGED absVars
  <1>1. UNCHANGED <<arrays, pc, cur>>
    BY DEF SkipSlot, vars, control
  <1>2. UNCHANGED <<Slots, evts, fds, idx>>
    BY <1>1 DEF arrays, Slots
  <1> QED BY <1>1, <1>2 DEF absVars, ReportsLeft, Undispatched, Pending, Registered, Handled, Busy

\* Every step.
LEMMA StepPromised == IInv /\ IInv' /\ [Next]_vars => [Abs!Next]_absVars
  <1> SUFFICES ASSUME IInv, IInv', [Next]_vars PROVE [Abs!Next]_absVars
    OBVIOUS
  <1>1. ASSUME NEW e \in Evts, NEW fd \in Fds, NEW events \in Interests,
               Add(e, fd, events) \/ Mod(e, fd, events)
        PROVE  [Abs!Next]_absVars
    BY <1>1, AddPromised, ModPromised
  <1>2. ASSUME NEW e \in Evts, Del(e)
        PROVE  [Abs!Next]_absVars
    BY <1>2, DelPromised
  <1>3. CASE Wait \/ WaitFails \/ HupAll
    BY <1>3, WaitPromised
  <1>4. CASE Loop
    BY <1>4, ProcessPromised, SkipPromised, DispatchPromised, ReturnPromised, EndPassPromised DEF Loop
  <1>5. CASE UNCHANGED vars
    BY <1>5, SkipPromised
  <1> QED BY <1>1, <1>2, <1>3, <1>4, <1>5 DEF Next

\* The event loop keeps the promise of AemPollAbs.
THEOREM PromiseKept == Spec => AbsSpec
  <1>1. Init => Abs!Init
    <2> SUFFICES ASSUME Init PROVE Abs!Init
      OBVIOUS
    <2>1. Registered = {} /\ pc = "idle" /\ Slots = {}
      BY DEF Init, Registered, Slots
    <2> QED BY <2>1 DEF Abs!Init, Undispatched
  <1>2. [Abs!Next]_absVars => [Abs!Next]_(Abs!vars)
    BY DEF Abs!vars, absVars, ReportsLeft, Handled, Busy
  <1>3. IInv /\ IInv' /\ [Next]_vars => [Abs!Next]_(Abs!vars)
    BY StepPromised, <1>2
  <1> QED BY <1>1, <1>3, Invariant, PTL DEF Spec, AbsSpec, Abs!Spec
=============================================================================
