------------------------------ MODULE AemStream ------------------------------
(***************************************************************************)
(* The streams of stream.c, with the deferred frees of pmcrcu.c.           *)
(*                                                                         *)
(* A struct aem_stream joins one source and one sink.  Each end points to  *)
(* the stream and the stream to its ends; whoever detaches last frees the  *)
(* stream, through call_rcu.  The library calls its users back (provide,   *)
(* consume) in the middle of its own operations, and a callback may use    *)
(* any end of any stream, also detach the very ends that the operations    *)
(* below it on the C stack are busy with.  That stack is the variable      *)
(* stack; an action is the code from one such point to the next.           *)
(*                                                                         *)
(* Buffers and the FULL flag are left out: nothing here depends on them.   *)
(***************************************************************************)
EXTENDS Integers, Sequences, FiniteSets

CONSTANTS
    Sources, Sinks,  \* the struct aem_stream_source and _sink objects
    Streams,         \* the blocks of memory that malloc gives to streams
    MaxDepth,        \* bound: callbacks nested on the C stack
    Rewire,          \* users connect an end whose stream has its other end
    Reentrant,       \* callbacks touch a source whose detach has called them
    None             \* NULL

Ends == Sources \cup Sinks

ASSUME StreamAssumption ==
    /\ None \notin Ends \cup Streams
    /\ Sources \cap Sinks = {}
    /\ MaxDepth \in Nat \ {0}
    /\ Rewire \in BOOLEAN /\ Reentrant \in BOOLEAN

VARIABLES
    streamOf,  \* source->stream and sink->stream
    source,    \* stream->source
    sink,      \* stream->sink
    state,     \* stream->state: > 0 provides open, < 0 a consume open
    fin,       \* stream->flags & AEM_STREAM_FIN
    live,      \* the streams allocated and not yet freed
    queued,    \* the streams on the list of pmcrcu.c
    stack,     \* the C stack: the user's frame, and one frame per callback
    told,      \* history: streams whose sink has been called with FIN set
    failed     \* the aem_assert or NULL pointer that stopped the program, or "none"

links == <<streamOf, source, sink>>
vars == <<links, state, fin, live, queued, stack, told, failed>>

\* A frame is a callback about the stream "at"; "detaches" is the source that the
\* aem_stream_source_detach below it is detaching; "held" are the ends for
\* which the frame has called _begin and not yet _end.
Frame == [at : Streams \cup {None}, consume : BOOLEAN,
          detaches : Sources \cup {None}, held : SUBSET Ends]

Callback(st, consume, so) == [at |-> st, consume |-> consume, detaches |-> so, held |-> {}]
UserFrame == Callback(None, FALSE, None)

Depth == Len(stack)
Running == stack[Depth]

Init ==
    /\ streamOf = [x \in Ends |-> None]
    /\ source = [st \in Streams |-> None] /\ sink = [st \in Streams |-> None]
    /\ state = [st \in Streams |-> 0]
    /\ fin = [st \in Streams |-> FALSE]
    /\ live = {} /\ queued = {} /\ told = {}
    /\ stack = <<UserFrame>>
    /\ failed = "none"

-----------------------------------------------------------------------------
(* Pieces of the operations *)

Abort(why) == failed' = why /\ UNCHANGED <<links, state, fin, live, queued, stack, told>>

Hold(x) == stack' = [stack EXCEPT ![Depth].held = @ \cup {x}]
Released(x) == [stack EXCEPT ![Depth].held = @ \ {x}]

\* aem_stream_consume and aem_stream_provide call the other end back, from
\* the C stack s; the stack is at most MaxDepth callbacks deep.
CallBack(s, st, consume, so) ==
    /\ Depth <= MaxDepth
    /\ stack' = Append(s, Callback(st, consume, so))

\* aem_stream_consume: sink->consume(sink).
Consume(s, st, so) ==
    /\ CallBack(s, st, TRUE, so)
    /\ told' = IF fin'[st] THEN told \cup {st} ELSE told

\* (mutant) the stream is freed at once.
FreedAtOnce(st) == live' = live \ {st} /\ queued' = queued

\* aem_stream_free: call_rcu.
Freed(st) == live' = live /\ queued' = queued \cup {st}

\* (mutant) a stream that lost its sink is never freed.
NobodyLeft(other) == FALSE

\* if (!stream->sink), if (!stream->source): the other end is gone as well.
LastToLeave(other) == other = None

\* (mutant) source->stream is not reset.
StillLinked(x) == streamOf

\* x->stream = NULL.
Unlinked(x) == [streamOf EXCEPT ![x] = None]

\* The end of aem_stream_source_detach, after the sink has had its call.
FinishDetach(so, st, s, flags) ==
    IF state[st] # 0 THEN Abort("busy")
    ELSE IF LastToLeave(sink[st]) /\ st \in queued THEN Abort("enqueued")
    ELSE /\ fin' = flags
         /\ source' = [source EXCEPT ![st] = None]
         /\ streamOf' = Unlinked(so)
         /\ IF LastToLeave(sink[st]) THEN Freed(st) ELSE UNCHANGED <<live, queued>>
         /\ stack' = s
         /\ UNCHANGED <<sink, state, told, failed>>

-----------------------------------------------------------------------------
(* Attach and detach *)

\* The detaches that are waiting for the callback they made.
Detaching == {stack[k].detaches : k \in 1 .. Depth} \ {None}
LeftAlone(so) == Reentrant \/ so \notin Detaching

\* aem_stream_connect: the stream that one of the ends has, or a new one.
Joining(so, si) ==
    IF streamOf[so] # None THEN {streamOf[so]}
    ELSE IF streamOf[si] # None THEN {streamOf[si]}
    ELSE Streams \ live

Join(so, si) ==
    \E st \in Joining(so, si) :
        /\ st \in live => state[st] = 0
        /\ Rewire \/ st \notin live \/ source[st] = None \/ sink[st] = None
        /\ streamOf' = [streamOf EXCEPT ![so] = st, ![si] = st]
        /\ source' = [source EXCEPT ![st] = so]
        /\ sink' = [sink EXCEPT ![st] = si]
        /\ live' = live \cup {st}
        /\ state' = [state EXCEPT ![st] = 0]
        /\ fin' = IF st \in live THEN fin ELSE [fin EXCEPT ![st] = FALSE]
        /\ told' = IF streamOf[si] = st THEN told ELSE told \ {st}
        /\ UNCHANGED <<queued, stack, failed>>

\* Both ends have a stream.  If it is the same one, "Already connected to each
\* other", its state is asserted through a pointer that is still NULL.
AlreadyJoined(so, si) ==
    IF streamOf[so] = streamOf[si] THEN Abort("null") ELSE UNCHANGED vars

Connect(so, si) ==
    /\ failed = "none"
    /\ LeftAlone(so)
    /\ IF \/ streamOf[so] # None /\ source[streamOf[so]] # so
          \/ streamOf[si] # None /\ sink[streamOf[si]] # si
       THEN Abort("link")
       ELSE IF streamOf[so] # None /\ streamOf[si] # None
       THEN AlreadyJoined(so, si)
       ELSE Join(so, si)

\* (mutant) the sink does not hear of it.
NobodyToTell(st) == FALSE

\* aem_stream_source_detach: if (stream->sink).
SomeoneToTell(st) == sink[st] # None

\* The header forbids a detach between _begin and _end: state is 0.
SourceDetach(so) ==
    LET st == streamOf[so] IN
    /\ failed = "none"
    /\ LeftAlone(so)
    /\ st # None
    /\ state[st] = 0
    /\ IF source[st] # so THEN Abort("link")
       ELSE IF SomeoneToTell(st)
       THEN IF streamOf[sink[st]] # st THEN Abort("link")
            ELSE /\ fin' = [fin EXCEPT ![st] = TRUE]
                 /\ Consume(stack, st, so)
                 /\ UNCHANGED <<links, state, live, queued, failed>>
       ELSE FinishDetach(so, st, stack, [fin EXCEPT ![st] = TRUE])

SinkDetach(si) ==
    LET st == streamOf[si] IN
    /\ failed = "none"
    /\ st # None
    /\ state[st] = 0
    /\ IF sink[st] # si THEN Abort("link")
       ELSE IF LastToLeave(source[st]) /\ st \in queued THEN Abort("enqueued")
       ELSE /\ fin' = [fin EXCEPT ![st] = TRUE]
            /\ sink' = [sink EXCEPT ![st] = None]
            /\ streamOf' = [streamOf EXCEPT ![si] = None]
            /\ IF LastToLeave(source[st]) THEN Freed(st) ELSE UNCHANGED <<live, queued>>
            /\ UNCHANGED <<source, state, stack, told, failed>>

\* A callback returns, having closed what it opened, and the code that made
\* the call goes on.
Return ==
    /\ failed = "none"
    /\ Depth > 1
    /\ Running.held = {}
    /\ LET below == SubSeq(stack, 1, Depth - 1) IN
       IF Running.detaches # None
       THEN FinishDetach(Running.detaches, Running.at, below, fin)
       ELSE /\ stack' = below
            /\ UNCHANGED <<links, state, fin, live, queued, told, failed>>

-----------------------------------------------------------------------------
(* Data flow *)

\* aem_stream_provide_begin, by a user who knows that nothing is being consumed
\* (MaxDepth leaves room for the call that its _end may make).
ProvideBegin(so) ==
    LET st == streamOf[so] IN
    /\ failed = "none"
    /\ st # None
    /\ so \notin Running.held
    /\ Depth <= MaxDepth
    /\ state[st] >= 0
    /\ IF source[st] # so THEN Abort("link")
       ELSE /\ state' = [state EXCEPT ![st] = @ + 1]
            /\ Hold(so)
            /\ UNCHANGED <<links, fin, live, queued, told, failed>>

\* (mutant) every provide_end wakes the sink, a nested one as well.
EachProvide(st) == state[st] > 0

\* aem_stream_provide_end: the outermost one wakes the sink.
LastProvide(st) == state[st] = 1

\* (mutant) stream->state is not decremented.
StillProviding(st) == IF state[st] = 1 THEN 0 ELSE state[st]

ProvidesLeft(st) == state[st] - 1

ProvideEnd(so) ==
    LET st == streamOf[so] IN
    /\ failed = "none"
    /\ so \in Running.held
    /\ IF st = None THEN Abort("link")
       ELSE IF source[st] # so THEN Abort("link")
       ELSE IF state[st] <= 0 THEN Abort("busy")
       ELSE /\ state' = [state EXCEPT ![st] = ProvidesLeft(st)]
            /\ UNCHANGED fin
            /\ IF LastProvide(st) /\ sink[st] # None
               THEN Consume(Released(so), st, None)
               ELSE stack' = Released(so) /\ told' = told
            /\ UNCHANGED <<links, live, queued, failed>>

\* A consume callback may open its stream, whoever caused the call; other
\* code does so only when the stream is idle.  While the stream is being
\* consumed aem_stream_consume_begin only returns an empty slice.
ConsumeBegin(si) ==
    LET st == streamOf[si]
        called == Running.consume /\ Running.at = st /\ Running.held = {}
    IN
    /\ failed = "none"
    /\ st # None
    /\ state[st] >= 0
    /\ called \/ state[st] = 0
    /\ IF sink[st] # si THEN Abort("link")
       ELSE IF state[st] # 0 THEN Abort("busy")
       ELSE /\ state' = [state EXCEPT ![st] = @ - 1]
            /\ Hold(si)
            /\ UNCHANGED <<links, fin, live, queued, told, failed>>

\* (mutant) stream->state-- once more.
StateAfterBegin(st) == state[st] - 1

StateAfterConsume(st) == state[st] + 1

ConsumeEnd(si) ==
    LET st == streamOf[si] IN
    /\ failed = "none"
    /\ si \in Running.held
    /\ IF st = None THEN Abort("link")
       ELSE IF sink[st] # si THEN Abort("link")
       ELSE IF state[st] >= 0 THEN Abort("busy")
       ELSE /\ state' = [state EXCEPT ![st] = StateAfterConsume(st)]
            /\ stack' = Released(si)
            /\ UNCHANGED <<links, fin, live, queued, told, failed>>

\* aem_stream_flow, aem_stream_propagate_up: source->provide(source), no matter
\* what the state.
Flow(x) ==
    LET st == streamOf[x] IN
    /\ failed = "none"
    /\ st # None
    /\ source[st] # None
    /\ IF streamOf[source[st]] # st THEN Abort("link")
       ELSE /\ CallBack(stack, st, FALSE, None)
            /\ UNCHANGED <<links, state, fin, live, queued, told, failed>>

\* aem_stream_propagate_down, outside the source's own provide: a sink that cannot
\* take more is woken, also while it consumes.
PropagateDown(so) ==
    LET st == streamOf[so] IN
    /\ failed = "none"
    /\ st # None
    /\ state[st] <= 0
    /\ sink[st] # None
    /\ UNCHANGED fin
    /\ IF source[st] # so \/ streamOf[sink[st]] # st THEN Abort("link")
       ELSE /\ Consume(stack, st, None)
            /\ UNCHANGED <<links, state, live, queued, failed>>

-----------------------------------------------------------------------------
(* pmcrcu.c *)

\* rcu_barrier, called outside every callback: the queue is emptied and
\* aem_stream_free_rcu frees each stream on it.
Barrier ==
    /\ failed = "none"
    /\ Depth = 1 /\ Running.held = {}
    /\ queued # {}
    /\ live' = live \ queued
    /\ queued' = {}
    /\ told' = told \ queued
    /\ UNCHANGED <<links, state, fin, stack, failed>>

-----------------------------------------------------------------------------
Next ==
    \/ \E so \in Sources :
          \/ \E si \in Sinks : Connect(so, si)
          \/ SourceDetach(so)
          \/ ProvideBegin(so) \/ ProvideEnd(so)
          \/ PropagateDown(so)
    \/ \E si \in Sinks : SinkDetach(si) \/ ConsumeBegin(si) \/ ConsumeEnd(si)
    \/ \E x \in Ends : Flow(x)
    \/ Return
    \/ Barrier

Spec == Init /\ [][Next]_vars
-----------------------------------------------------------------------------
(* Properties *)

\* Type correctness; a stream is never consumed twice over (state >= -1).
TypeOK ==
    /\ streamOf \in [Ends -> Streams \cup {None}]
    /\ source \in [Streams -> Sources \cup {None}]
    /\ sink \in [Streams -> Sinks \cup {None}]
    /\ state \in [Streams -> Int]
    /\ \A st \in Streams : state[st] >= -1
    /\ fin \in [Streams -> BOOLEAN]
    /\ live \in SUBSET Streams /\ queued \in SUBSET live /\ told \in SUBSET live
    /\ stack \in Seq(Frame) /\ Depth >= 1
    /\ failed \in {"none", "link", "busy", "enqueued", "null"}

\* The ends and the stream point at each other, between any two steps of any
\* callbacks: no end is left with a stream that has forgotten it, none points
\* to a stream that has been freed or is about to be.
LinksAgree ==
    /\ \A so \in Sources : streamOf[so] # None =>
          streamOf[so] \in live \ queued /\ source[streamOf[so]] = so
    /\ \A si \in Sinks : streamOf[si] # None =>
          streamOf[si] \in live \ queued /\ sink[streamOf[si]] = si
    /\ \A st \in Streams :
          /\ source[st] # None => streamOf[source[st]] = st
          /\ sink[st] # None => streamOf[sink[st]] = st

\* A stream is handed to call_rcu when its second end leaves, in whichever order
\* and from whichever callback: none leaks and none goes while an end is left.
FreedByTheLast ==
    \A st \in live : st \in queued <=> source[st] = None /\ sink[st] = None

\* Streams stand and fall with their ends, whatever callbacks attach and detach.
LinksHold == LinksAgree /\ FreedByTheLast

\* The code below a callback uses its stream after the callback returns: that
\* stream is still allocated, whatever the callback detached, and a source
\* being detached is still attached.
FramesLive ==
    \A k \in 1 .. Depth :
        /\ stack[k].at # None => stack[k].at \in live
        /\ stack[k].detaches # None =>
              /\ stack[k].at # None
              /\ streamOf[stack[k].detaches] = stack[k].at

\* stream->state counts the _begin calls that still wait for their _end, in all
\* the frames: callbacks that begin, end, detach and connect inside another's
\* pair never unbalance it.
Opened(x) == {k \in 1 .. Depth : x \in stack[k].held}

StateCounts ==
    \A st \in live :
        state[st] = Cardinality(Opened(source[st])) - Cardinality(Opened(sink[st]))

\* A sink whose source has left has had a consume call with FIN set, in which
\* it could take the rest of the data and close.
FinDelivered ==
    \A st \in live : source[st] = None /\ sink[st] # None => st \in told

\* The assertions about the counts, and what they count: one call alone can stop the program,
\* the one that connects two ends which are connected to each other already.  It dereferences
\* NULL (stream.c:106).
CountsHold == StateCounts /\ failed \in {"none", "null"}
=============================================================================
