----------------------------- MODULE MCAemServer -----------------------------
(***************************************************************************)
(* The instance of AemServer for TLC: a behaviour follows one connection   *)
(* with all that its peer can do, or several whose peers do less.          *)
(***************************************************************************)
EXTENDS AemServer

VARIABLE scope  \* the blocks that malloc gives out

First == CHOOSE c \in Conns : TRUE

\* Bound: beside another connection a peer has one line on its way and reads at once,
\* and only one of the connections is reset.
InScope ==
    /\ live \subseteq scope
    /\ scope # {First} => \A c \in Conns :
          peer[c].lines <= 1 /\ peer[c].room /\ (peer[c].rst => c = First)

MCInit == Init /\ on = First /\ scope \in {{First}, Conns}

MCNext == UNCHANGED scope /\ Next /\ InScope'

MCSpec == MCInit /\ [][MCNext]_<<vars, scope>> /\ Fair
=============================================================================
