------------------------------ MODULE AemPollAbs ------------------------------
(***************************************************************************)
(* What the event loop of poll.c promises to the owners of events, without *)
(* its arrays: which events are registered, which of them the current      *)
(* round still has to deliver, and whose callback is running.              *)
(*                                                                         *)
(*  - a callback runs only for an event that is registered and that the    *)
(*    round reported, and at most once per report;                         *)
(*  - a round ends only when nothing reported is left undelivered;         *)
(*  - an event loses a report only in a step that deregisters an event,    *)
(*    and such a step takes the report of at most one other event.         *)
(***************************************************************************)
EXTENDS FiniteSets, Naturals

CONSTANTS Evts,  \* the events owners can register
          None   \* no callback is running

VARIABLES reg,      \* the registered events
          pending,  \* reported and not yet delivered
          handling, \* the event whose callback is running, or None
          busy      \* a round is in progress

vars == <<reg, pending, handling, busy>>

Init ==
    /\ reg = {}
    /\ pending = {}
    /\ handling = None
    /\ busy = FALSE

Register(e) ==
    /\ e \notin reg
    /\ reg' = reg \cup {e}
    /\ UNCHANGED <<pending, handling, busy>>

Forget(e, lost) ==
    /\ e \in reg
    /\ reg' = reg \ {e}
    /\ lost \subseteq pending
    /\ Cardinality(lost \ {e}) <= 1
    /\ pending' = pending \ (lost \cup {e})

Deregister(e, lost) ==
    /\ Forget(e, lost)
    /\ UNCHANGED <<handling, busy>>

Report(S) ==
    /\ ~busy
    /\ S \subseteq reg
    /\ pending' = S
    /\ busy' = TRUE
    /\ UNCHANGED <<reg, handling>>

Deliver(e) ==
    /\ busy
    /\ handling = None
    /\ e \in pending
    /\ e \in reg
    /\ handling' = e
    /\ pending' = pending \ {e}
    /\ UNCHANGED <<reg, busy>>

Return ==
    /\ handling # None
    /\ handling' = None
    /\ UNCHANGED busy
    /\ \/ UNCHANGED <<reg, pending>>
       \/ \E lost \in SUBSET pending : Forget(handling, lost)

Finish ==
    /\ busy
    /\ handling = None
    /\ pending = {}
    /\ busy' = FALSE
    /\ UNCHANGED <<reg, pending, handling>>

Next ==
    \/ \E e \in Evts :
          \/ Register(e)
          \/ \E lost \in SUBSET pending : Deregister(e, lost)
          \/ Deliver(e)
    \/ \E S \in SUBSET reg : Report(S)
    \/ Return
    \/ Finish

Spec == Init /\ [][Next]_vars
=============================================================================
