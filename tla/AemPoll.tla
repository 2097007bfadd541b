------------------------------- MODULE AemPoll -------------------------------
(***************************************************************************)
(* The event loop of poll.c: struct aem_poll keeps two parallel arrays,    *)
(* fds (what poll(2) is given) and evts (whose events they are), and every *)
(* registered event knows its own slot (evt->i).  Callbacks run in the     *)
(* middle of the scan of those arrays and may register, deregister and     *)
(* modify events, which moves slots under the scan's feet.                 *)
(*                                                                         *)
(* One action is one piece of code between two points at which another     *)
(* party can act: a user call, a slot of the scan, a callback's return.    *)
(***************************************************************************)
EXTENDS Integers, FiniteSets

CONSTANTS
    Evts,          \* the struct aem_poll_event objects of the program
    Fds,           \* file descriptor numbers
    Interests,     \* the sets of conditions an owner may ask for
    MinAlloc,      \* least array size (8 in the code)
    ShrinkFactor,  \* arrays shrink when n * ShrinkFactor <= maxn (8 in the code)
    OwnEventOnly,  \* callbacks deregister and modify only their own event
    None           \* the absence of an event

ASSUME PollAssumption ==
    /\ None \notin Evts
    /\ Fds \subseteq Nat
    /\ MinAlloc \in Nat \ {0}
    /\ ShrinkFactor \in Nat /\ ShrinkFactor > 2
    /\ OwnEventOnly \in BOOLEAN

HUP == "HUP"

\* What poll(2) may report for an interest: conditions asked for, and POLLHUP.
Reportable(events) == SUBSET (events \cup {HUP})
Conditions == (UNION Interests) \cup {HUP}

VARIABLES
    idx,      \* evt->i of every event, -1 when it is not registered
    efd,      \* evt->fd
    eevents,  \* evt->events
    n,        \* p->n, the slots in use
    maxn,     \* p->maxn, the slots allocated
    evts,     \* p->evts[0 .. n-1]
    fds,      \* p->fds[0 .. n-1]
    pollRc,   \* p->poll_rc
    pc,       \* idle | ready (waited) | scan | call (in a callback)
    i,        \* aem_poll_process: the slot scanned
    rc,       \* aem_poll_process: the events it believes are left
    rcOrig,   \* aem_poll_process: rc at the start of the pass
    cur,      \* aem_poll_process: the event whose callback runs
    curHup,   \* aem_poll_process: (revents & POLLHUP) of that event
    owedHup   \* history: events aem_poll_hup_all has yet to reach

arrays == <<idx, efd, eevents, n, maxn, evts, fds>>
control == <<pc, i, rc, rcOrig, cur, curHup>>
vars == <<arrays, pollRc, control, owedHup>>

Slots == 0 .. n-1
Registered == {e \in Evts : idx[e] # -1}
Pending(s) == fds[s].revents # {}

Init ==
    /\ idx = [e \in Evts |-> -1]
    /\ efd = [e \in Evts |-> -1]
    /\ eevents = [e \in Evts |-> {}]
    /\ n = 0 /\ maxn = MinAlloc
    /\ evts = [s \in {} |-> 0] /\ fds = [s \in {} |-> 0]
    /\ pollRc = 0
    /\ pc = "idle"
    /\ i = 0 /\ rc = 0 /\ rcOrig = 0
    /\ cur \in Evts /\ curHup = FALSE
    /\ owedHup = {}

-----------------------------------------------------------------------------
(* The arrays *)

\* (mutant) aem_poll_resize without the doubling.
ResizedExactly(used) == IF used < MinAlloc THEN MinAlloc ELSE used

\* aem_poll_resize: room for twice as many as needed, never less than MinAlloc.
Resized(used) == IF 2*used < MinAlloc THEN MinAlloc ELSE 2*used

\* aem_poll_assign: the slot of an event starts with nothing reported.
Assigned(e) == [fd |-> efd[e], events |-> eevents[e], revents |-> {}]

\* (mutant) aem_poll_del that forgets to tell the event it moved.
NotMoved(last, e) == idx[last]

\* aem_poll_del: last->i = i.
MovedTo(last, e) == idx[e]

\* aem_poll_del: the last event takes over the slot of the one removed.
Remove(e) ==
    LET last == evts[n-1]
    IN  /\ idx' = [x \in Evts |-> IF x = e THEN -1
                                  ELSE IF x = last THEN MovedTo(last, e) ELSE idx[x]]
        /\ evts' = [s \in 0 .. n-2 |-> IF s = idx[e] THEN last ELSE evts[s]]
        /\ fds' = [s \in 0 .. n-2 |-> IF s = idx[e] THEN Assigned(last) ELSE fds[s]]
        /\ n' = n - 1
        /\ maxn' = IF (n-1) * ShrinkFactor <= maxn THEN Resized(n-1) ELSE maxn
        /\ UNCHANGED <<efd, eevents>>

-----------------------------------------------------------------------------
(* Calls of the owners of events, outside the loop or from a callback *)

UserMayCall == pc \in {"idle", "ready", "call"}
MayTouch(e) == (OwnEventOnly /\ pc = "call") => e = cur

\* aem_poll_add, after the owner has filled in evt->fd and evt->events.
Add(e, fd, events) ==
    /\ UserMayCall
    /\ idx[e] = -1
    /\ efd' = [efd EXCEPT ![e] = fd]
    /\ eevents' = [eevents EXCEPT ![e] = events]
    /\ idx' = [idx EXCEPT ![e] = n]
    /\ n' = n + 1
    /\ maxn' = IF n >= maxn THEN Resized(n) ELSE maxn
    /\ evts' = [s \in 0 .. n |-> IF s = n THEN e ELSE evts[s]]
    /\ fds' = [s \in 0 .. n |-> IF s = n
                                THEN [fd |-> fd, events |-> events, revents |-> {}]
                                ELSE fds[s]]
    /\ UNCHANGED <<pollRc, control, owedHup>>

\* aem_poll_del; deregistering an event that is not registered changes nothing.
Del(e) ==
    /\ UserMayCall
    /\ MayTouch(e)
    /\ idx[e] # -1
    /\ Remove(e)
    /\ owedHup' = owedHup \ {e}
    /\ UNCHANGED <<pollRc, control>>

\* aem_poll_mod, after the owner has changed evt->fd or evt->events.
Mod(e, fd, events) ==
    /\ UserMayCall
    /\ MayTouch(e)
    /\ efd' = [efd EXCEPT ![e] = fd]
    /\ eevents' = [eevents EXCEPT ![e] = events]
    /\ fds' = IF idx[e] = -1 THEN fds
              ELSE [fds EXCEPT ![idx[e]].fd = fd, ![idx[e]].events = events]
    /\ UNCHANGED <<idx, n, maxn, evts, pollRc, control, owedHup>>

-----------------------------------------------------------------------------
(* aem_poll_wait *)

\* poll(2) returns once something is reported: the timeout is -1.
Wait ==
    /\ pc = "idle"
    /\ \E report \in [Slots -> SUBSET Conditions] :
          LET hit == {s \in Slots : report[s] # {}}
          IN  /\ hit # {}
              /\ \A s \in Slots : report[s] \in Reportable(fds[s].events)
              /\ fds' = [s \in Slots |-> [fds[s] EXCEPT !.revents = report[s]]]
              /\ pollRc' = Cardinality(hit)
    /\ pc' = "ready"
    /\ UNCHANGED <<idx, efd, eevents, n, maxn, evts, i, rc, rcOrig, cur, curHup, owedHup>>

\* EINTR, EAGAIN or another failure of poll(2).
WaitFails ==
    /\ pc = "idle"
    /\ pollRc' = -1
    /\ pc' = "ready"
    /\ UNCHANGED <<arrays, i, rc, rcOrig, cur, curHup, owedHup>>

-----------------------------------------------------------------------------
(* aem_poll_process *)

StartPass(left) ==
    /\ pc' = "scan"
    /\ rc' = left
    /\ rcOrig' = left
    /\ i' = 0

Process ==
    /\ pc = "ready"
    /\ IF pollRc < 0
       THEN pc' = "idle" /\ rc' = pollRc /\ UNCHANGED <<i, rcOrig>>
       ELSE StartPass(pollRc)
    /\ UNCHANGED <<arrays, pollRc, cur, curHup, owedHup>>

\* aem_poll_hup_all: p->poll_rc = p->n.
HupCount == n

\* aem_poll_hup_all: every slot gets POLLHUP, and the scan starts at once.
HupAll ==
    /\ pc = "idle"
    /\ fds' = [s \in Slots |-> [fds[s] EXCEPT !.revents = @ \cup {HUP}]]
    /\ pollRc' = HupCount
    /\ StartPass(HupCount)
    /\ owedHup' = Registered
    /\ UNCHANGED <<idx, efd, eevents, n, maxn, evts, cur, curHup>>

SkipSlot ==
    /\ pc = "scan"
    /\ i < n
    /\ ~Pending(i)
    /\ i' = i + 1
    /\ UNCHANGED <<arrays, pollRc, pc, rc, rcOrig, cur, curHup, owedHup>>

Dispatch ==
    /\ pc = "scan"
    /\ i < n
    /\ Pending(i)
    /\ rc' = rc - 1
    /\ cur' = evts[i]
    /\ curHup' = (HUP \in fds[i].revents)
    /\ pc' = "call"
    /\ owedHup' = IF curHup' THEN owedHup \ {cur'} ELSE owedHup
    /\ UNCHANGED <<arrays, pollRc, i, rcOrig>>

\* (mutant) pollfd->revents is not cleared.
ReportKept(e) == fds

\* The slot of an event that is still registered is cleared.
ReportCleared(e) == IF idx[e] = -1 THEN fds ELSE [fds EXCEPT ![idx[e]].revents = {}]

\* (mutant) i-- without the i++ of the loop.
SlotBefore == IF idx'[cur] = i THEN i + 1 ELSE i - 1

\* When slot i no longer holds the event, it is looked at again: i-- and i++.
NextSlot == IF idx'[cur] = i THEN i + 1 ELSE i

\* The callback returns.  An event still registered after POLLHUP is
\* deregistered for its owner.
Return ==
    /\ pc = "call"
    /\ IF idx[cur] # -1 /\ curHup
       THEN Remove(cur)
       ELSE /\ fds' = ReportCleared(cur)
            /\ UNCHANGED <<idx, efd, eevents, n, maxn, evts>>
    /\ i' = NextSlot
    /\ pc' = "scan"
    /\ UNCHANGED <<pollRc, rc, rcOrig, cur, curHup, owedHup>>

\* (mutant) the loop goes on even without progress.
ScanAgainAnyway == rc > 0

\* Reports are left, and the pass has made progress.
ScanAgain == rc # rcOrig /\ rc > 0

\* The end of the for loop.
EndPass ==
    /\ pc = "scan"
    /\ i >= n
    /\ IF ScanAgain
       THEN StartPass(rc)
       ELSE pc' = "idle" /\ UNCHANGED <<i, rc, rcOrig>>
    /\ UNCHANGED <<arrays, pollRc, cur, curHup, owedHup>>

-----------------------------------------------------------------------------
Loop == Process \/ SkipSlot \/ Dispatch \/ Return \/ EndPass

Next ==
    \/ \E e \in Evts :
          \/ \E fd \in Fds, events \in Interests : Add(e, fd, events) \/ Mod(e, fd, events)
          \/ Del(e)
    \/ Wait \/ WaitFails \/ HupAll
    \/ Loop

Spec == Init /\ [][Next]_vars

\* aem_poll_process is a synchronous call: once it runs, its own steps go on,
\* and a callback returns (it may not block).  Nothing makes a user call
\* anything, nor poll(2) report anything.
FairSpec == Spec /\ WF_vars(SkipSlot \/ Dispatch \/ EndPass) /\ WF_vars(Return)
-----------------------------------------------------------------------------
(* Properties *)

\* Type correctness of the event fields, the arrays and the loop's locals.
ArraysType ==
    /\ idx \in [Evts -> Int]
    /\ efd \in [Evts -> Fds \cup {-1}]
    /\ eevents \in [Evts -> Interests \cup {{}}]
    /\ n \in Nat /\ maxn \in Nat
    /\ evts \in [Slots -> Evts]
    /\ fds \in [Slots -> [fd : Fds, events : Interests, revents : SUBSET Conditions]]

ControlType ==
    /\ pollRc \in Int
    /\ pc \in {"idle", "ready", "scan", "call"}
    /\ i \in Nat /\ rc \in Int /\ rcOrig \in Int
    /\ cur \in Evts /\ curHup \in BOOLEAN
    /\ owedHup \in SUBSET Evts

TypeOK == ArraysType /\ ControlType

\* The events and the two arrays agree after any sequence of calls: every slot's
\* event knows its slot, every registered event is in the slot it names, and
\* poll(2) is given the event's own fd and interest.  These are the assertions
\* of aem_poll_event_verify, aem_poll_del, aem_poll_mod and aem_poll_get_pollfd,
\* which debug builds evaluate on every slot the scan visits.
SlotsMatch ==
    /\ \A s \in Slots :
          /\ idx[evts[s]] = s
          /\ fds[s].fd = efd[evts[s]]
          /\ fds[s].events = eevents[evts[s]]
    /\ \A e \in Registered : idx[e] \in Slots /\ evts[idx[e]] = e

\* No slot lies outside the allocation, whatever mix of growing and shrinking
\* led here, and the allocation stays within a constant factor of its use.
ArraysFit ==
    /\ n <= maxn
    /\ maxn = MinAlloc \/ maxn < ShrinkFactor * n

\* The arrays, the events and the allocation fit together at every step of any callback.
ArraysHold == SlotsMatch /\ ArraysFit

\* aem_poll_process leaves no report behind: when it is over, no slot still has
\* revents that a later aem_poll_process would deliver as if they were new,
\* although callbacks move slots across the scan position.
NothingStale == pc = "idle" => \A s \in Slots : ~Pending(s)

\* The slots with a report that the loop has not dispatched yet.
Undispatched ==
    {s \in Slots : Pending(s) /\ ~(pc = "call" /\ evts[s] = cur)}

\* A round of the loop ends although callbacks keep shuffling the slots and
\* i-- makes the scan look at a slot again (fairness: the loop's own steps, and
\* callbacks that return).
RoundEnds == pc \in {"scan", "call"} ~> pc = "idle"

\* "Send an artificial HUP to each event handler" (poll.h:95).
HupReachesAll == pc = "idle" => owedHup = {}

-----------------------------------------------------------------------------
\* The abstract event loop this one implements.  A report is pending while its
\* slot has revents, until the callback for it starts.
Abs == INSTANCE AemPollAbs WITH
    reg <- Registered,
    pending <- {evts[s] : s \in Undispatched},
    handling <- IF pc = "call" THEN cur ELSE None,
    busy <- pc # "idle"

\* Every step of the arrays and of the scan is a step of the promise of
\* AemPollAbs: at most one delivery per report, only to registered events, and
\* no round that ends with a report undelivered.
AbsSpec == Abs!Spec
=============================================================================
