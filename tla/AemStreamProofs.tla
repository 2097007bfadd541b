--------------------------- MODULE AemStreamProofs ---------------------------
(***************************************************************************)
(* Proofs about the streams of AemStream, for any numbers of ends, streams *)
(* and nested callbacks.  Users keep to the two rules that the code needs  *)
(* and does not state: they connect an end only to a stream that lacks its *)
(* other end (~Rewire), and callbacks leave alone a source whose detach is *)
(* under way (~Reentrant).                                                 *)
(***************************************************************************)
EXTENDS AemStream, FiniteSetTheorems, TLAPS

\* What a callback on the C stack may rely on when it returns; the sink of a
\* stream whose source is being detached has heard of it.
FrameOK(f) ==
    /\ f.at # None => f.at \in live
    /\ f.detaches # None =>
          f.at # None /\ streamOf[f.detaches] = f.at /\ f.at \in told

\* The user's frame is at the bottom, and no source is being detached twice.
Nested ==
    /\ stack[1].at = None /\ stack[1].detaches = None
    /\ \A j, k \in 1 .. Depth :
          stack[j].detaches = stack[k].detaches /\ stack[j].detaches # None => j = k

Inv ==
    /\ TypeOK
    /\ LinksAgree /\ FreedByTheLast /\ FinDelivered
    /\ \A k \in 1 .. Depth : FrameOK(stack[k])
    /\ Nested

-----------------------------------------------------------------------------
(* The C stack *)

\* Frames other than the running one are untouched, apart from what they hold.
SameCalls(s) ==
    /\ s \in Seq(Frame)
    /\ Len(s) = Depth
    /\ \A k \in 1 .. Depth : s[k].at = stack[k].at /\ s[k].detaches = stack[k].detaches

\* Holding or releasing an end leaves the calls as they are.
LEMMA HeldOnly ==
    ASSUME stack \in Seq(Frame), Depth >= 1, NEW h \in SUBSET Ends
    PROVE  SameCalls([stack EXCEPT ![Depth].held = h])
<1> DEFINE s == [stack EXCEPT ![Depth].held = h]
<1>1. /\ DOMAIN stack = 1 .. Depth
      /\ Depth \in Nat
      /\ \A k \in 1 .. Depth : stack[k] \in Frame
      /\ stack \in [1 .. Depth -> Frame]
  BY DEF Depth
<1>2. [stack[Depth] EXCEPT !.held = h] \in Frame
  BY <1>1 DEF Frame
<1>3. s \in [1 .. Depth -> Frame]
  BY <1>1, <1>2
<1>4. s \in Seq(Frame) /\ Len(s) = Depth
  BY <1>1, <1>3
<1>5. \A k \in 1 .. Depth : s[k].at = stack[k].at /\ s[k].detaches = stack[k].detaches
  <2> SUFFICES ASSUME NEW k \in 1 .. Depth
               PROVE  s[k].at = stack[k].at /\ s[k].detaches = stack[k].detaches
    OBVIOUS
  <2>1. CASE k = Depth
    <3>1. s[k] = [stack[Depth] EXCEPT !.held = h]
      BY <2>1, <1>1
    <3>2. stack[Depth] \in Frame
      BY <1>1, <2>1
    <3> QED BY <3>1, <3>2, <2>1 DEF Frame
  <2>2. CASE k # Depth
    BY <2>2, <1>1
  <2> QED BY <2>1, <2>2
<1> QED BY <1>4, <1>5 DEF SameCalls

\* A callback's frame is a frame.
LEMMA CallbackType ==
    ASSUME NEW st \in Streams, NEW b \in BOOLEAN, NEW so \in Sources \cup {None}
    PROVE  /\ Callback(st, b, so) \in Frame
           /\ Callback(st, b, so).at = st
           /\ Callback(st, b, so).detaches = so
BY DEF Callback, Frame

\* Steps that move no link and free nothing, but may begin or end pairs and call
\* a user back, keep the invariant when the new frame is as it should be.
LEMMA Quiet ==
    ASSUME Inv,
           UNCHANGED <<links, live, queued>>,
           told \subseteq told', told' \subseteq live,
           \/ SameCalls(stack')
           \/ \E s, f : /\ SameCalls(s) /\ f \in Frame /\ stack' = Append(s, f)
                        /\ f.at \in live
                        /\ f.detaches # None =>
                              /\ streamOf[f.detaches] = f.at /\ f.at \in told'
                              /\ f.detaches \notin Detaching,
           state' \in [Streams -> Int], \A st \in Streams : state'[st] >= -1,
           fin' \in [Streams -> BOOLEAN],
           failed' \in {"none", "link", "busy", "enqueued", "null"}
    PROVE  Inv'
<1> USE DEF links
<1>1. /\ stack \in Seq(Frame) /\ Depth \in Nat /\ Depth >= 1
      /\ \A k \in 1 .. Depth : FrameOK(stack[k])
      /\ None \notin Streams
  BY StreamAssumption DEF Inv, TypeOK, Depth
<1>2. LinksAgree' /\ FreedByTheLast' /\ FinDelivered'
  BY DEF Inv, LinksAgree, FreedByTheLast, FinDelivered
<1>3. CASE SameCalls(stack')
  <2>1. stack' \in Seq(Frame) /\ Len(stack') = Depth
    BY <1>3 DEF SameCalls
  <2>2. TypeOK'
    BY <2>1, <1>1 DEF Inv, TypeOK, Depth
  <2>3. (\A k \in 1 .. Depth : FrameOK(stack[k]))'
    BY <2>1, <1>1, <1>3 DEF SameCalls, FrameOK, Depth
  <2>4. Nested'
    <3>1. \A k \in 1 .. Depth : stack'[k].at = stack[k].at /\ stack'[k].detaches = stack[k].detaches
      BY <1>3 DEF SameCalls
    <3>2. Nested
      BY DEF Inv
    <3>3. stack'[1].at = None /\ stack'[1].detaches = None
      BY <3>1, <3>2, <1>1 DEF Nested
    <3>4. \A j, k \in 1 .. Depth :
            stack'[j].detaches = stack'[k].detaches /\ stack'[j].detaches # None => j = k
      BY <3>1, <3>2 DEF Nested
    <3> QED BY <3>3, <3>4, <2>1 DEF Nested, Depth
  <2> QED BY <1>2, <2>2, <2>3, <2>4 DEF Inv
<1>4. ASSUME NEW s, NEW f, SameCalls(s), f \in Frame, stack' = Append(s, f),
             f.at \in live,
             f.detaches # None => /\ streamOf[f.detaches] = f.at /\ f.at \in told'
                                  /\ f.detaches \notin Detaching
      PROVE  Inv'
  <2>1. /\ stack' \in Seq(Frame) /\ Len(stack') = Depth + 1
        /\ \A k \in 1 .. Depth : stack'[k] = s[k]
        /\ stack'[Depth + 1] = f
    BY <1>4, <1>1 DEF SameCalls
  <2>2. TypeOK'
    BY <2>1, <1>1 DEF Inv, TypeOK, Depth
  <2>3. (\A k \in 1 .. Depth : FrameOK(stack[k]))'
    <3> SUFFICES ASSUME NEW k \in 1 .. Depth + 1
                 PROVE  FrameOK(stack[k])'
      BY <2>1 DEF Depth
    <3>1. CASE k \in 1 .. Depth
      <4>1. FrameOK(stack[k])
        BY <3>1, <1>1
      <4>2. stack'[k].at = stack[k].at /\ stack'[k].detaches = stack[k].detaches
        BY <3>1, <2>1, <1>4 DEF SameCalls
      <4> QED BY <4>1, <4>2 DEF FrameOK
    <3>2. CASE k = Depth + 1
      <4>1. live \in SUBSET Streams
        BY DEF Inv, TypeOK
      <4>2. stack'[k] = f /\ f.at # None
        BY <3>2, <2>1, <1>4, <1>1, <4>1
      <4>3. f.detaches # None => streamOf'[f.detaches] = f.at
        BY <1>4
      <4> QED BY <4>2, <4>3, <1>4 DEF FrameOK
    <3> QED BY <3>1, <3>2, <1>1
  <2>4. Nested'
    <3>1. stack'[1].at = None /\ stack'[1].detaches = None
      BY <2>1, <1>1, <1>4 DEF SameCalls, Nested, Inv
    <3>2. \A k \in 1 .. Depth : stack'[k].detaches = stack[k].detaches
      BY <2>1, <1>4 DEF SameCalls
    <3>3. \A k \in 1 .. Depth : stack[k].detaches # None => stack[k].detaches # f.detaches
      BY <1>4 DEF Detaching
    <3>4. ASSUME NEW j \in 1 .. Depth + 1, NEW k \in 1 .. Depth + 1,
                 stack'[j].detaches = stack'[k].detaches, stack'[j].detaches # None
          PROVE  j = k
      <4>1. j \in 1 .. Depth \/ j = Depth + 1
        BY <1>1
      <4>2. k \in 1 .. Depth \/ k = Depth + 1
        BY <1>1
      <4>3. CASE j \in 1 .. Depth /\ k \in 1 .. Depth
        BY <4>3, <3>2, <3>4 DEF Nested, Inv
      <4> QED BY <4>1, <4>2, <4>3, <3>2, <3>3, <3>4, <2>1
    <3> QED BY <3>1, <3>4, <2>1 DEF Nested, Depth
  <2> QED BY <1>2, <2>2, <2>3, <2>4 DEF Inv
<1> QED BY <1>3, <1>4

-----------------------------------------------------------------------------
(* The steps *)

\* The initial state.
LEMMA InitInv == Init => Inv
<1> SUFFICES ASSUME Init PROVE Inv
  OBVIOUS
<1>1. UserFrame \in Frame /\ UserFrame.at = None /\ UserFrame.detaches = None
  BY DEF UserFrame, Callback, Frame
<1>2. stack = <<UserFrame>> /\ stack \in Seq(Frame) /\ Depth = 1 /\ stack[1] = UserFrame
  BY <1>1 DEF Init, Depth
<1>3. TypeOK
  BY <1>2, StreamAssumption DEF Init, TypeOK
<1>4. LinksAgree /\ FreedByTheLast /\ FinDelivered
  BY DEF Init, LinksAgree, FreedByTheLast, FinDelivered, Ends
<1>5. \A k \in 1 .. Depth : FrameOK(stack[k])
  BY <1>1, <1>2 DEF FrameOK
<1>6. Nested
  BY <1>1, <1>2 DEF Nested
<1> QED BY <1>3, <1>4, <1>5, <1>6 DEF Inv

\* A step that changes nothing.
LEMMA StutterInv ==
    ASSUME Inv, UNCHANGED vars
    PROVE  Inv'
<1>1. SameCalls(stack) /\ stack' = stack
  BY DEF SameCalls, Inv, TypeOK, Depth, vars
<1>2. /\ UNCHANGED <<links, live, queued>> /\ state' = state /\ fin' = fin /\ told' = told
      /\ failed' = failed
  BY DEF vars
<1>3. /\ state \in [Streams -> Int] /\ \A st \in Streams : state[st] >= -1
      /\ fin \in [Streams -> BOOLEAN] /\ told \subseteq live
      /\ failed \in {"none", "link", "busy", "enqueued", "null"}
  BY DEF Inv, TypeOK
<1> QED BY <1>1, <1>2, <1>3, Quiet

\* An assertion that fails stops the program where it is.
LEMMA AbortInv ==
    ASSUME Inv, NEW a \in {"link", "busy", "enqueued", "null"}, Abort(a)
    PROVE  Inv'
<1>1. SameCalls(stack)
  BY DEF SameCalls, Inv, TypeOK, Depth
<1>2. /\ state \in [Streams -> Int] /\ \A st \in Streams : state[st] >= -1
      /\ fin \in [Streams -> BOOLEAN] /\ told \subseteq live
  BY DEF Inv, TypeOK
<1>3. /\ UNCHANGED <<links, live, queued>>
      /\ state' = state /\ fin' = fin /\ told' = told /\ stack' = stack
      /\ failed' \in {"none", "link", "busy", "enqueued", "null"}
  BY DEF Abort
<1> QED BY <1>1, <1>2, <1>3, Quiet

\* The attached stream of an end, and what is known of it.
LEMMA Attached ==
    ASSUME Inv, NEW x \in Ends, streamOf[x] # None
    PROVE  /\ streamOf[x] \in Streams /\ streamOf[x] \in live
           /\ state[streamOf[x]] \in Int
           /\ x \in Sources => source[streamOf[x]] = x
           /\ x \in Sinks => sink[streamOf[x]] = x
<1>1. streamOf[x] \in Streams /\ state[streamOf[x]] \in Int
  BY DEF Inv, TypeOK
<1> QED BY <1>1 DEF Inv, LinksAgree, Ends

\* An update of stream->state that stays above -2 keeps its type.
LEMMA StateStep ==
    ASSUME Inv, NEW st \in Streams, NEW v \in Int, v >= -1,
           state' = [state EXCEPT ![st] = v]
    PROVE  state' \in [Streams -> Int] /\ \A x \in Streams : state'[x] >= -1
BY DEF Inv, TypeOK

\* The running frame may hold or release any end.
LEMMA HoldCalls ==
    ASSUME Inv, NEW x \in Ends
    PROVE  /\ Hold(x) => SameCalls(stack')
           /\ SameCalls(Released(x))
<1>1. Depth >= 1 /\ stack \in Seq(Frame) /\ stack[Depth] \in Frame
  BY DEF Inv, TypeOK, Depth
<1>2. stack[Depth].held \cup {x} \in SUBSET Ends /\ stack[Depth].held \ {x} \in SUBSET Ends
  BY <1>1 DEF Frame
<1> QED BY <1>1, <1>2, HeldOnly DEF Hold, Released

\* The C stack as it is.
LEMMA StackCalls == Inv => SameCalls(stack)
BY DEF SameCalls, Inv, TypeOK, Depth

\* A callback that no detach waits for, about an attached stream.
LEMMA PlainCallback ==
    ASSUME Inv, NEW s, SameCalls(s), NEW st \in Streams, st \in live, NEW b \in BOOLEAN,
           stack' = Append(s, Callback(st, b, None)),
           UNCHANGED <<links, live, queued, failed>>, fin' = fin,
           told' = told \/ told' = told \cup {st},
           state' \in [Streams -> Int], \A x \in Streams : state'[x] >= -1
    PROVE  Inv'
<1> DEFINE f == Callback(st, b, None)
<1>1. f \in Frame /\ f.at = st /\ f.detaches = None
  BY CallbackType
<1>2. /\ told \subseteq told' /\ told' \subseteq live
      /\ fin' \in [Streams -> BOOLEAN]
      /\ failed' \in {"none", "link", "busy", "enqueued", "null"}
  BY DEF Inv, TypeOK
<1>3. stack' = Append(s, f)
  OBVIOUS
<1> HIDE DEF f
<1> QED BY <1>1, <1>2, <1>3, Quiet

\* aem_stream_provide_begin
LEMMA ProvideBeginInv ==
    ASSUME Inv, NEW so \in Sources, ProvideBegin(so)
    PROVE  Inv'
<1> DEFINE st == streamOf[so]
<1>1. CASE source[st] # so
  BY <1>1, AbortInv DEF ProvideBegin
<1>2. CASE source[st] = so
  <2>1. /\ state' = [state EXCEPT ![st] = state[st] + 1] /\ Hold(so)
        /\ state[st] >= 0 /\ st # None
        /\ UNCHANGED <<links, fin, live, queued, told, failed>>
    BY <1>2 DEF ProvideBegin
  <2>2. SameCalls(stack')
    BY <2>1, HoldCalls DEF Ends
  <2>3. state' \in [Streams -> Int] /\ \A x \in Streams : state'[x] >= -1
    <3>1. st \in Streams /\ state[st] \in Int
      BY <2>1, Attached DEF Ends
    <3> HIDE DEF st
    <3>2. state[st] + 1 \in Int /\ state[st] + 1 >= -1
      BY <2>1, <3>1
    <3> QED BY <2>1, <3>1, <3>2, StateStep
  <2> QED BY <2>1, <2>2, <2>3, Quiet DEF Inv, TypeOK
<1> QED BY <1>1, <1>2

\* aem_stream_provide_end
LEMMA ProvideEndInv ==
    ASSUME Inv, NEW so \in Sources, ProvideEnd(so)
    PROVE  Inv'
<1> DEFINE st == streamOf[so]
<1>1. CASE st = None \/ source[st] # so \/ state[st] <= 0
  BY <1>1, AbortInv DEF ProvideEnd
<1>2. CASE ~(st = None \/ source[st] # so \/ state[st] <= 0)
  <2>1. /\ state' = [state EXCEPT ![st] = state[st] - 1] /\ fin' = fin
        /\ UNCHANGED <<links, live, queued, failed>>
        /\ \/ Consume(Released(so), st, None)
           \/ stack' = Released(so) /\ told' = told
    BY <1>2 DEF ProvideEnd, ProvidesLeft
  <2>2. st \in Streams /\ st \in live /\ state[st] \in Int
    BY <1>2, Attached DEF Ends
  <2> HIDE DEF st
  <2>3. state' \in [Streams -> Int] /\ \A x \in Streams : state'[x] >= -1
    <3>1. state[st] - 1 \in Int /\ state[st] - 1 >= -1
      BY <1>2, <2>2
    <3> QED BY <2>1, <2>2, <3>1, StateStep
  <2>4. SameCalls(Released(so))
    BY HoldCalls DEF Ends
  <2>5. told \subseteq live /\ fin \in [Streams -> BOOLEAN] /\ failed \in {"none", "link", "busy", "enqueued", "null"}
    BY DEF Inv, TypeOK
  <2>6. CASE stack' = Released(so) /\ told' = told
    BY <2>6, <2>1, <2>3, <2>4, <2>5, Quiet
  <2>7. CASE Consume(Released(so), st, None)
    <3>1. /\ stack' = Append(Released(so), Callback(st, TRUE, None))
          /\ told' = told \/ told' = told \cup {st}
      BY <2>7 DEF Consume, CallBack
    <3> QED BY <3>1, <2>1, <2>2, <2>3, <2>4, PlainCallback
  <2> QED BY <2>1, <2>6, <2>7
<1> QED BY <1>1, <1>2

\* aem_stream_consume_begin
LEMMA ConsumeBeginInv ==
    ASSUME Inv, NEW si \in Sinks, ConsumeBegin(si)
    PROVE  Inv'
<1> DEFINE st == streamOf[si]
<1>1. CASE sink[st] # si \/ state[st] # 0
  BY <1>1, AbortInv DEF ConsumeBegin
<1>2. CASE sink[st] = si /\ state[st] = 0
  <2>1. /\ state' = [state EXCEPT ![st] = state[st] - 1] /\ Hold(si) /\ st # None
        /\ UNCHANGED <<links, fin, live, queued, told, failed>>
    BY <1>2 DEF ConsumeBegin
  <2>2. SameCalls(stack')
    BY <2>1, HoldCalls DEF Ends
  <2>3. state' \in [Streams -> Int] /\ \A x \in Streams : state'[x] >= -1
    <3>1. st \in Streams /\ state[st] \in Int
      BY <2>1, Attached DEF Ends
    <3> HIDE DEF st
    <3>2. state[st] - 1 \in Int /\ state[st] - 1 >= -1
      BY <1>2
    <3> QED BY <2>1, <3>1, <3>2, StateStep
  <2> QED BY <2>1, <2>2, <2>3, Quiet DEF Inv, TypeOK
<1> QED BY <1>1, <1>2

\* aem_stream_consume_end
LEMMA ConsumeEndInv ==
    ASSUME Inv, NEW si \in Sinks, ConsumeEnd(si)
    PROVE  Inv'
<1> DEFINE st == streamOf[si]
<1>1. CASE st = None \/ sink[st] # si \/ state[st] >= 0
  BY <1>1, AbortInv DEF ConsumeEnd
<1>2. CASE ~(st = None \/ sink[st] # si \/ state[st] >= 0)
  <2>1. /\ state' = [state EXCEPT ![st] = state[st] + 1] /\ stack' = Released(si)
        /\ UNCHANGED <<links, fin, live, queued, told, failed>>
    BY <1>2 DEF ConsumeEnd, StateAfterConsume
  <2>2. SameCalls(stack')
    BY <2>1, HoldCalls DEF Ends
  <2>3. state' \in [Streams -> Int] /\ \A x \in Streams : state'[x] >= -1
    <3>1. st \in Streams /\ state[st] \in Int /\ state[st] >= -1
      BY <1>2, Attached DEF Ends, Inv, TypeOK
    <3> HIDE DEF st
    <3>2. state[st] + 1 \in Int /\ state[st] + 1 >= -1
      BY <3>1
    <3> QED BY <2>1, <3>1, <3>2, StateStep
  <2> QED BY <2>1, <2>2, <2>3, Quiet DEF Inv, TypeOK
<1> QED BY <1>1, <1>2

\* aem_stream_flow and aem_stream_propagate_up
LEMMA FlowInv ==
    ASSUME Inv, NEW x \in Ends, Flow(x)
    PROVE  Inv'
<1> DEFINE st == streamOf[x]
<1>1. CASE streamOf[source[st]] # st
  BY <1>1, AbortInv DEF Flow
<1>2. CASE streamOf[source[st]] = st
  <2>1. /\ CallBack(stack, st, FALSE, None) /\ st # None
        /\ UNCHANGED <<links, state, fin, live, queued, told, failed>>
    BY <1>2 DEF Flow
  <2>2. st \in Streams /\ st \in live
    BY <2>1, Attached
  <2> HIDE DEF st
  <2>3. stack' = Append(stack, Callback(st, FALSE, None)) /\ fin' = fin /\ told' = told /\ state' = state
    BY <2>1 DEF CallBack
  <2>4. state \in [Streams -> Int] /\ \A y \in Streams : state[y] >= -1
    BY DEF Inv, TypeOK
  <2> QED BY <2>1, <2>2, <2>3, <2>4, StackCalls, PlainCallback
<1> QED BY <1>1, <1>2

\* aem_stream_propagate_down
LEMMA PropagateDownInv ==
    ASSUME Inv, NEW so \in Sources, PropagateDown(so)
    PROVE  Inv'
<1> DEFINE st == streamOf[so]
<1>1. CASE source[st] # so \/ streamOf[sink[st]] # st
  BY <1>1, AbortInv DEF PropagateDown
<1>2. CASE ~(source[st] # so \/ streamOf[sink[st]] # st)
  <2>1. /\ Consume(stack, st, None) /\ st # None
        /\ UNCHANGED <<links, state, fin, live, queued, failed>>
    BY <1>2 DEF PropagateDown
  <2>2. st \in Streams /\ st \in live
    BY <2>1, Attached DEF Ends
  <2> HIDE DEF st
  <2>3. /\ stack' = Append(stack, Callback(st, TRUE, None)) /\ fin' = fin /\ state' = state
        /\ told' = told \/ told' = told \cup {st}
    BY <2>1 DEF Consume, CallBack
  <2>4. state \in [Streams -> Int] /\ \A y \in Streams : state[y] >= -1
    BY DEF Inv, TypeOK
  <2> QED BY <2>1, <2>2, <2>3, <2>4, StackCalls, PlainCallback
<1> QED BY <1>1, <1>2

\* aem_stream_source_detach up to the consume call that tells the sink.
LEMMA TellInv ==
    ASSUME Inv, ~Reentrant, NEW so \in Sources, SourceDetach(so),
           SomeoneToTell(streamOf[so])
    PROVE  Inv'
<1> DEFINE st == streamOf[so]
           f == Callback(st, TRUE, so)
<1>1. CASE source[st] # so \/ streamOf[sink[st]] # st
  BY <1>1, AbortInv DEF SourceDetach
<1>2. CASE ~(source[st] # so \/ streamOf[sink[st]] # st)
  <2>1. /\ fin' = [fin EXCEPT ![st] = TRUE] /\ Consume(stack, st, so)
        /\ UNCHANGED <<links, state, live, queued, failed>>
        /\ st # None /\ so \notin Detaching
    BY <1>2 DEF SourceDetach, LeftAlone
  <2>2. st \in Streams /\ st \in live
    BY <2>1, Attached DEF Ends
  <2>3. f \in Frame /\ f.at = st /\ f.detaches = so
    <3>1. TRUE \in BOOLEAN /\ so \in Sources \cup {None}
      OBVIOUS
    <3>2. \A q \in Streams : /\ Callback(q, TRUE, so) \in Frame /\ Callback(q, TRUE, so).at = q
                              /\ Callback(q, TRUE, so).detaches = so
      BY <3>1, CallbackType
    <3> QED
      BY <2>2, <3>2, Zenon
  <2>4. stack' = Append(stack, f) /\ told' = told \cup {st} /\ fin' \in [Streams -> BOOLEAN]
    BY <2>1, <2>2 DEF Consume, CallBack, Inv, TypeOK
  <2>5. /\ told \subseteq told' /\ told' \subseteq live
        /\ state' \in [Streams -> Int] /\ \A x \in Streams : state'[x] >= -1
        /\ failed' \in {"none", "link", "busy", "enqueued", "null"}
    BY <2>1, <2>2, <2>4 DEF Inv, TypeOK
  <2>6. f.detaches # None => /\ streamOf[f.detaches] = f.at /\ f.at \in told'
                             /\ f.detaches \notin Detaching
    BY <2>1, <2>3, <2>4
  <2>7. SameCalls(stack) /\ f.at \in live
    BY <2>2, <2>3, StackCalls
  <2> HIDE DEF f, st
  <2> QED BY <2>1, <2>3, <2>4, <2>5, <2>6, <2>7, Quiet
<1> QED BY <1>1, <1>2

\* The stack after some callbacks have returned.
Below(s) ==
    /\ s \in Seq(Frame)
    /\ Len(s) \in 1 .. Depth
    /\ \A k \in 1 .. Len(s) : s[k] = stack[k]

\* What holds of the callbacks holds of those that remain, as long as streams
\* stay allocated and the sources they detach stay where they are.
LEMMA BelowOK ==
    ASSUME Inv, NEW s, Below(s), stack' = s, live' = live, told' = told,
           \A k \in 1 .. Len(s) :
              s[k].detaches # None => streamOf'[s[k].detaches] = streamOf[s[k].detaches]
    PROVE  /\ stack' \in Seq(Frame) /\ Depth' >= 1
           /\ (\A k \in 1 .. Depth : FrameOK(stack[k]))'
           /\ Nested'
<1>1. /\ Depth' = Len(s) /\ Depth \in Nat
      /\ Nested /\ \A k \in 1 .. Depth : FrameOK(stack[k])
  BY DEF Inv, TypeOK, Depth
<1>2. \A k \in 1 .. Len(s) : k \in 1 .. Depth /\ s[k] = stack[k] /\ stack'[k] = s[k]
  BY <1>1 DEF Below
<1>3. ASSUME NEW k \in 1 .. Len(s)
      PROVE  FrameOK(stack[k])'
  <2>1. FrameOK(s[k])
    BY <1>1, <1>2
  <2> QED BY <2>1, <1>2 DEF FrameOK
<1>4. Nested'
  <2>1. stack'[1].at = None /\ stack'[1].detaches = None
    BY <1>1, <1>2 DEF Below, Nested
  <2>2. \A j, k \in 1 .. Len(s) :
           stack'[j].detaches = stack'[k].detaches /\ stack'[j].detaches # None => j = k
    BY <1>1, <1>2 DEF Nested
  <2> QED BY <1>1, <2>1, <2>2 DEF Nested
<1> QED BY <1>1, <1>3, <1>4 DEF Below

\* The end of aem_stream_source_detach.
LEMMA FinishDetachInv ==
    ASSUME Inv, NEW so \in Sources, NEW st \in Streams, streamOf[so] = st,
           NEW s, Below(s), \A k \in 1 .. Len(s) : s[k].detaches # so,
           sink[st] # None => st \in told,
           NEW flags \in [Streams -> BOOLEAN],
           FinishDetach(so, st, s, flags)
    PROVE  Inv'
<1>1. CASE state[st] # 0 \/ (LastToLeave(sink[st]) /\ st \in queued)
  BY <1>1, AbortInv DEF FinishDetach
<1>2. CASE ~(state[st] # 0 \/ (LastToLeave(sink[st]) /\ st \in queued))
  <2>1. /\ fin' = flags
        /\ source' = [source EXCEPT ![st] = None]
        /\ streamOf' = [streamOf EXCEPT ![so] = None]
        /\ sink[st] = None => queued' = queued \cup {st}
        /\ sink[st] # None => queued' = queued
        /\ stack' = s /\ sink' = sink /\ state' = state /\ told' = told
        /\ live' = live /\ failed' = failed
    BY <1>2 DEF FinishDetach, LastToLeave, Freed, Unlinked
  <2>2. st \in live /\ st \notin queued /\ source[st] = so /\ None \notin Ends /\ None \notin Streams
    BY StreamAssumption DEF Inv, LinksAgree
  <2>3. /\ stack' \in Seq(Frame) /\ Depth' >= 1
        /\ (\A k \in 1 .. Depth : FrameOK(stack[k]))'
        /\ Nested'
    <3>1. \A k \in 1 .. Len(s) : s[k].detaches # None =>
             streamOf'[s[k].detaches] = streamOf[s[k].detaches]
      BY <2>1
    <3> QED BY <2>1, <3>1, BelowOK
  <2>4. TypeOK'
    BY <2>1, <2>2, <2>3 DEF Inv, TypeOK, Ends
  <2>5. LinksAgree'
    BY <2>1, <2>2, StreamAssumption DEF Inv, TypeOK, LinksAgree, Ends
  <2>6. FreedByTheLast'
    BY <2>1, <2>2 DEF Inv, TypeOK, FreedByTheLast
  <2>7. FinDelivered'
    BY <2>1, <2>2 DEF Inv, TypeOK, FinDelivered
  <2> QED BY <2>3, <2>4, <2>5, <2>6, <2>7 DEF Inv
<1> QED BY <1>1, <1>2

\* aem_stream_source_detach
LEMMA SourceDetachInv ==
    ASSUME Inv, ~Reentrant, NEW so \in Sources, SourceDetach(so)
    PROVE  Inv'
<1> DEFINE st == streamOf[so]
<1>1. CASE source[st] # so
  BY <1>1, AbortInv DEF SourceDetach
<1>2. CASE SomeoneToTell(st)
  BY <1>2, TellInv
<1>3. CASE source[st] = so /\ ~SomeoneToTell(st)
  <2>1. FinishDetach(so, st, stack, [fin EXCEPT ![st] = TRUE]) /\ st # None /\ so \notin Detaching
    BY <1>3 DEF SourceDetach, LeftAlone
  <2>2. st \in Streams /\ [fin EXCEPT ![st] = TRUE] \in [Streams -> BOOLEAN]
    BY <2>1, Attached DEF Ends, Inv, TypeOK
  <2>3. Below(stack)
    BY DEF Below, Inv, TypeOK, Depth
  <2>4. \A k \in 1 .. Len(stack) : stack[k].detaches # so
    BY <2>1, StreamAssumption DEF Detaching, Depth, Ends
  <2>5. sink[st] = None
    BY <1>3 DEF SomeoneToTell
  <2> QED BY <2>1, <2>2, <2>3, <2>4, <2>5, FinishDetachInv
<1> QED BY <1>1, <1>2, <1>3

\* A callback's return.
LEMMA ReturnInv ==
    ASSUME Inv, Return
    PROVE  Inv'
<1> DEFINE below == SubSeq(stack, 1, Depth - 1)
<1>1. /\ stack \in Seq(Frame) /\ Depth \in Nat /\ Depth > 1
      /\ Running \in Frame /\ FrameOK(Running) /\ Nested
  BY DEF Inv, TypeOK, Return, Depth, Running
<1>2. Below(below) /\ Len(below) = Depth - 1
  BY <1>1 DEF Below, Depth
<1>3. CASE Running.detaches # None
  <2> DEFINE so == Running.detaches
             st == Running.at
  <2>1. FinishDetach(so, st, below, fin)
    BY <1>3 DEF Return
  <2>2. so \in Sources /\ st \in live /\ st \in told /\ streamOf[so] = st
    BY <1>1, <1>3 DEF FrameOK, Frame
  <2>3. \A k \in 1 .. Len(below) : below[k].detaches # so
    <3>1. \A k \in 1 .. Depth - 1 : stack[k].detaches # Running.detaches
      BY <1>1, <1>3 DEF Nested, Running
    <3> QED BY <3>1, <1>1, <1>2 DEF Below
  <2>4. st \in Streams /\ fin \in [Streams -> BOOLEAN]
    BY <2>2 DEF Inv, TypeOK
  <2> HIDE DEF so, st, below
  <2> QED BY <2>1, <2>2, <2>3, <2>4, <1>2, FinishDetachInv
<1>4. CASE Running.detaches = None
  <2>1. stack' = below /\ UNCHANGED <<links, state, fin, live, queued, told, failed>>
    BY <1>4 DEF Return
  <2>2. /\ stack' \in Seq(Frame) /\ Depth' >= 1
        /\ (\A k \in 1 .. Depth : FrameOK(stack[k]))'
        /\ Nested'
    <3> HIDE DEF below
    <3> QED BY <2>1, <1>2, BelowOK DEF links
  <2>3. TypeOK' /\ LinksAgree' /\ FreedByTheLast' /\ FinDelivered'
    BY <2>1, <2>2 DEF links, Inv, TypeOK, LinksAgree, FreedByTheLast, FinDelivered
  <2> QED BY <2>2, <2>3 DEF Inv
<1> QED BY <1>3, <1>4

\* aem_stream_sink_detach
LEMMA SinkDetachInv ==
    ASSUME Inv, NEW si \in Sinks, SinkDetach(si)
    PROVE  Inv'
<1> DEFINE st == streamOf[si]
<1>1. CASE sink[st] # si \/ (LastToLeave(source[st]) /\ st \in queued)
  BY <1>1, AbortInv DEF SinkDetach
<1>2. CASE ~(sink[st] # si \/ (LastToLeave(source[st]) /\ st \in queued))
  <2>1. /\ fin' = [fin EXCEPT ![st] = TRUE]
        /\ sink' = [sink EXCEPT ![st] = None]
        /\ streamOf' = [streamOf EXCEPT ![si] = None]
        /\ source[st] = None => queued' = queued \cup {st}
        /\ source[st] # None => queued' = queued
        /\ st # None
        /\ stack' = stack /\ source' = source /\ state' = state /\ told' = told
        /\ live' = live /\ failed' = failed
    BY <1>2 DEF SinkDetach, LastToLeave, Freed
  <2>2. /\ st \in Streams /\ st \in live /\ st \notin queued /\ sink[st] = si
        /\ streamOf[si] = st
        /\ None \notin Ends /\ None \notin Streams /\ si \notin Sources
    BY <2>1, StreamAssumption DEF Inv, TypeOK, LinksAgree, Ends
  <2> HIDE DEF st
  <2>3. /\ stack' \in Seq(Frame) /\ Depth' >= 1
        /\ (\A k \in 1 .. Depth : FrameOK(stack[k]))'
        /\ Nested'
    <3>1. Below(stack) /\ Len(stack) = Depth /\ Depth \in Nat
      BY DEF Below, Inv, TypeOK, Depth
    <3>2. ASSUME NEW k \in 1 .. Len(stack), stack[k].detaches # None
          PROVE  streamOf'[stack[k].detaches] = streamOf[stack[k].detaches]
      <4>1. stack[k] \in Frame
        BY <3>1 DEF Inv, TypeOK
      <4>2. stack[k].detaches \in Sources
        BY <3>2, <4>1 DEF Frame
      <4> QED BY <2>1, <2>2, <4>2
    <3> QED BY <2>1, <3>1, <3>2, BelowOK
  <2>4. TypeOK'
    BY <2>1, <2>2, <2>3 DEF Inv, TypeOK, Ends
  <2>5. LinksAgree'
    BY <2>1, <2>2, StreamAssumption DEF Inv, TypeOK, LinksAgree, Ends
  <2>6. FreedByTheLast'
    BY <2>1, <2>2 DEF Inv, TypeOK, FreedByTheLast
  <2>7. FinDelivered'
    BY <2>1, <2>2 DEF Inv, TypeOK, FinDelivered
  <2> QED BY <2>3, <2>4, <2>5, <2>6, <2>7 DEF Inv
<1> QED BY <1>1, <1>2

\* aem_stream_connect
LEMMA ConnectInv ==
    ASSUME Inv, ~Rewire, ~Reentrant, NEW so \in Sources, NEW si \in Sinks, Connect(so, si)
    PROVE  Inv'
<1>1. CASE \/ streamOf[so] # None /\ source[streamOf[so]] # so
           \/ streamOf[si] # None /\ sink[streamOf[si]] # si
  BY <1>1, AbortInv DEF Connect
<1>2. CASE AlreadyJoined(so, si)
  BY <1>2, AbortInv, StutterInv DEF AlreadyJoined
<1>3. CASE /\ ~(\/ streamOf[so] # None /\ source[streamOf[so]] # so
                \/ streamOf[si] # None /\ sink[streamOf[si]] # si)
           /\ streamOf[so] = None \/ streamOf[si] = None
  <2>0. PICK st \in Joining(so, si) :
          /\ Rewire \/ st \notin live \/ source[st] = None \/ sink[st] = None
          /\ streamOf' = [streamOf EXCEPT ![so] = st, ![si] = st]
          /\ source' = [source EXCEPT ![st] = so]
          /\ sink' = [sink EXCEPT ![st] = si]
          /\ live' = live \cup {st}
          /\ state' = [state EXCEPT ![st] = 0]
          /\ fin' = IF st \in live THEN fin ELSE [fin EXCEPT ![st] = FALSE]
          /\ told' = IF streamOf[si] = st THEN told ELSE told \ {st}
          /\ UNCHANGED <<queued, stack, failed>>
    BY <1>3 DEF Connect, Join
  <2>1. /\ streamOf' = [streamOf EXCEPT ![so] = st, ![si] = st]
        /\ source' = [source EXCEPT ![st] = so]
        /\ sink' = [sink EXCEPT ![st] = si]
        /\ live' = live \cup {st}
        /\ state' = [state EXCEPT ![st] = 0]
        /\ fin' = IF st \in live THEN fin ELSE [fin EXCEPT ![st] = FALSE]
        /\ told' = IF streamOf[si] = st THEN told ELSE told \ {st}
        /\ queued' = queued /\ stack' = stack /\ failed' = failed
    BY <2>0
  <2>2. /\ so \notin Detaching
        /\ streamOf[so] = None \/ streamOf[si] = None
        /\ st \notin live \/ source[st] = None \/ sink[st] = None
    BY <1>3, <2>0 DEF Connect, LeftAlone
  <2>3. /\ so \in Ends /\ si \in Ends /\ so \notin Sinks /\ si \notin Sources
        /\ None \notin Ends /\ None \notin Streams
    BY StreamAssumption DEF Ends
  <2>4. /\ st \in Streams
        /\ \/ streamOf[so] = st /\ streamOf[si] = None /\ st \in live \ queued
              /\ source[st] = so /\ sink[st] = None
           \/ streamOf[si] = st /\ streamOf[so] = None /\ st \in live \ queued
              /\ sink[st] = si /\ source[st] = None
           \/ streamOf[so] = None /\ streamOf[si] = None /\ st \notin live
    <3>1. CASE streamOf[so] # None
      BY <3>1, <2>0, <1>3, <2>2, <2>3 DEF Joining, Inv, TypeOK, LinksAgree
    <3>2. CASE streamOf[so] = None /\ streamOf[si] # None
      BY <3>2, <2>0, <1>3, <2>2, <2>3 DEF Joining, Inv, TypeOK, LinksAgree
    <3>3. CASE streamOf[so] = None /\ streamOf[si] = None
      BY <3>3, <2>0 DEF Joining
    <3> QED BY <3>1, <3>2, <3>3
  <2>5. st \notin queued /\ (source[st] = None \/ source[st] = so) /\ (sink[st] = None \/ sink[st] = si)
    <3>1. CASE st \in live
      BY <2>4, <3>1
    <3>2. CASE st \notin live
      <4>1. queued \subseteq live
        BY DEF Inv, TypeOK
      <4>2. source[st] = None /\ sink[st] = None
        BY <3>2, <2>4, <2>3 DEF Inv, TypeOK, LinksAgree, Ends
      <4> QED BY <3>2, <4>1, <4>2
    <3> QED BY <3>1, <3>2
  <2>12. \A x \in Ends : streamOf'[x] = IF x = so \/ x = si THEN st ELSE streamOf[x]
    BY <2>1, <2>3 DEF Inv, TypeOK
  <2>13. /\ \A t \in Streams : source'[t] = IF t = st THEN so ELSE source[t]
         /\ \A t \in Streams : sink'[t] = IF t = st THEN si ELSE sink[t]
    BY <2>1 DEF Inv, TypeOK
  <2>14. /\ \A x \in Sources : x \in Ends /\ x # si /\ x # None
         /\ \A x \in Sinks : x \in Ends /\ x # so /\ x # None
         /\ source \in [Streams -> Sources \cup {None}] /\ sink \in [Streams -> Sinks \cup {None}]
         /\ streamOf \in [Ends -> Streams \cup {None}]
    BY <2>3 DEF Ends, Inv, TypeOK
  <2>6. ASSUME NEW k \in 1 .. Depth
        PROVE  FrameOK(stack[k])'
    <3>1. stack[k] \in Frame /\ FrameOK(stack[k]) /\ stack' = stack
      BY <2>1 DEF Inv, TypeOK, Depth
    <3>2. stack[k].at # None => stack[k].at \in live'
      BY <2>1, <3>1 DEF FrameOK
    <3>3. ASSUME stack[k].detaches # None
          PROVE  stack[k].at # None /\ streamOf'[stack[k].detaches] = stack[k].at /\ stack[k].at \in told'
      <4> DEFINE d == stack[k].detaches
      <4>1. d \in Sources /\ d # so /\ d # si
        BY <2>2, <2>3, <3>1, <3>3 DEF Detaching, Frame
      <4>2. streamOf[d] = stack[k].at /\ stack[k].at \in told /\ stack[k].at # None
        BY <3>1, <3>3 DEF FrameOK
      <4>3. streamOf'[d] = streamOf[d]
        BY <2>12, <2>14, <4>1
      <4>4. stack[k].at # st
        <5>1. source[stack[k].at] = d /\ stack[k].at \in live
          BY <4>1, <4>2, Attached DEF Ends
        <5>2. source[stack[k].at] # None /\ source[stack[k].at] # so
          BY <5>1, <4>1, <2>3 DEF Ends
        <5> QED BY <5>2, <2>5
      <4> QED BY <4>2, <4>3, <4>4, <2>1
    <3> QED BY <3>1, <3>2, <3>3 DEF FrameOK
  <2>7. TypeOK'
    <3>1. streamOf' \in [Ends -> Streams \cup {None}]
      BY <2>1, <2>3, <2>4 DEF Inv, TypeOK
    <3>2. source' \in [Streams -> Sources \cup {None}] /\ sink' \in [Streams -> Sinks \cup {None}]
      BY <2>1, <2>4 DEF Inv, TypeOK
    <3>3. state' \in [Streams -> Int] /\ \A t \in Streams : state'[t] >= -1
      BY <2>1, <2>4 DEF Inv, TypeOK
    <3>4. fin' \in [Streams -> BOOLEAN]
      <4>1. fin \in [Streams -> BOOLEAN]
        BY DEF Inv, TypeOK
      <4>2. [fin EXCEPT ![st] = FALSE] \in [Streams -> BOOLEAN]
        BY <4>1
      <4> QED BY <4>1, <4>2, <2>1
    <3>5. live' \in SUBSET Streams /\ queued' \in SUBSET live' /\ told' \in SUBSET live'
      BY <2>1, <2>4 DEF Inv, TypeOK
    <3>6. stack' \in Seq(Frame) /\ Depth' >= 1 /\ failed' \in {"none", "link", "busy", "enqueued", "null"}
      BY <2>1 DEF Inv, TypeOK, Depth
    <3> QED BY <3>1, <3>2, <3>3, <3>4, <3>5, <3>6 DEF TypeOK
  <2>8. LinksAgree'
    <3>1. ASSUME NEW x \in Sources, streamOf'[x] # None
          PROVE  streamOf'[x] \in live' \ queued' /\ source'[streamOf'[x]] = x
      <4>1. CASE x = so
        BY <4>1, <2>1, <2>4, <2>5, <2>12, <2>13, <2>14
      <4>2. CASE x # so
        <5>1. streamOf'[x] = streamOf[x] /\ streamOf[x] \in live \ queued /\ source[streamOf[x]] = x
          BY <4>2, <3>1, <2>12, <2>14 DEF Inv, LinksAgree
        <5>2. streamOf[x] \in Streams /\ streamOf[x] # st
          BY <5>1, <4>2, <3>1, <2>5, <2>12, <2>14
        <5> QED BY <5>1, <5>2, <2>1, <2>13
      <4> QED BY <4>1, <4>2
    <3>2. ASSUME NEW x \in Sinks, streamOf'[x] # None
          PROVE  streamOf'[x] \in live' \ queued' /\ sink'[streamOf'[x]] = x
      <4>1. CASE x = si
        BY <4>1, <2>1, <2>4, <2>5, <2>12, <2>13, <2>14
      <4>2. CASE x # si
        <5>3. x \in Ends /\ x # so /\ x # None
          BY <2>14
        <5>4. streamOf'[x] = streamOf[x]
          BY <5>3, <4>2, <2>12
        <5>1. streamOf'[x] = streamOf[x] /\ streamOf[x] \in live \ queued /\ sink[streamOf[x]] = x
          BY <5>4, <3>2 DEF Inv, LinksAgree
        <5>2. streamOf[x] \in Streams /\ streamOf[x] # st
          BY <5>1, <5>3, <4>2, <3>2, <2>5, <2>14
        <5> QED BY <5>1, <5>2, <2>1, <2>13
      <4> QED BY <4>1, <4>2
    <3>3. ASSUME NEW t \in Streams
          PROVE  /\ source'[t] # None => streamOf'[source'[t]] = t
                 /\ sink'[t] # None => streamOf'[sink'[t]] = t
      <4>1. CASE t = st
        BY <4>1, <2>12, <2>13, <2>3
      <4>2. CASE t # st
        <5>1. source'[t] = source[t] /\ sink'[t] = sink[t]
          BY <4>2, <2>13
        <5>2. source[t] # None => source[t] \in Sources /\ streamOf[source[t]] = t
          BY <2>14 DEF Inv, LinksAgree
        <5>3. sink[t] # None => sink[t] \in Sinks /\ streamOf[sink[t]] = t
          BY <2>14 DEF Inv, LinksAgree
        <5>4. (streamOf[so] = None \/ streamOf[so] = st) /\ (streamOf[si] = None \/ streamOf[si] = st)
          BY <2>4
        <5>5. t # None
          BY <2>3
        <5> QED BY <4>2, <5>1, <5>2, <5>3, <5>4, <5>5, <2>12, <2>14
      <4> QED BY <4>1, <4>2
    <3> QED BY <3>1, <3>2, <3>3 DEF LinksAgree
  <2>9. FreedByTheLast'
    BY <2>1, <2>3, <2>4, <2>5 DEF Inv, TypeOK, FreedByTheLast, Ends
  <2>10. FinDelivered'
    BY <2>1, <2>3, <2>4 DEF Inv, TypeOK, FinDelivered, Ends
  <2>11. Nested'
    BY <2>1 DEF Inv, Nested, Depth
  <2> QED BY <2>1, <2>6, <2>7, <2>8, <2>9, <2>10, <2>11 DEF Inv, Depth
<1> QED BY <1>1, <1>2, <1>3 DEF Connect

\* rcu_barrier
LEMMA BarrierInv ==
    ASSUME Inv, Barrier
    PROVE  Inv'
<1>1. /\ live' = live \ queued /\ queued' = {} /\ told' = told \ queued
      /\ UNCHANGED <<links, state, fin, stack, failed>> /\ Depth = 1
  BY DEF Barrier
<1>2. TypeOK'
  BY <1>1 DEF Inv, TypeOK, links, Depth
<1>3. LinksAgree' /\ FreedByTheLast' /\ FinDelivered'
  BY <1>1 DEF Inv, TypeOK, LinksAgree, FreedByTheLast, FinDelivered, links
<1>4. (\A k \in 1 .. Depth : FrameOK(stack[k]))'
  BY <1>1 DEF Inv, Nested, FrameOK, Depth
<1>5. Nested'
  BY <1>1 DEF Inv, Nested, Depth
<1> QED BY <1>2, <1>3, <1>4, <1>5 DEF Inv

\* Every step.
LEMMA NextInv == ASSUME Inv, ~Rewire, ~Reentrant, [Next]_vars PROVE Inv'
<1>1. ASSUME NEW so \in Sources, NEW si \in Sinks, Connect(so, si) PROVE Inv'
  BY <1>1, ConnectInv
<1>2. ASSUME NEW so \in Sources,
             \/ SourceDetach(so) \/ ProvideBegin(so) \/ ProvideEnd(so) \/ PropagateDown(so)
      PROVE  Inv'
  BY <1>2, SourceDetachInv, ProvideBeginInv, ProvideEndInv, PropagateDownInv
<1>3. ASSUME NEW si \in Sinks, SinkDetach(si) \/ ConsumeBegin(si) \/ ConsumeEnd(si)
      PROVE  Inv'
  BY <1>3, SinkDetachInv, ConsumeBeginInv, ConsumeEndInv
<1>4. ASSUME NEW x \in Ends, Flow(x) PROVE Inv'
  BY <1>4, FlowInv
<1>5. CASE Return
  BY <1>5, ReturnInv
<1>6. CASE Barrier
  BY <1>6, BarrierInv
<1>7. CASE UNCHANGED vars
  BY <1>7, StutterInv
<1> QED BY <1>1, <1>2, <1>3, <1>4, <1>5, <1>6, <1>7 DEF Next

-----------------------------------------------------------------------------
(* The theorems *)

\* The strengthened invariant holds of every behaviour of well-behaved users.
THEOREM Invariant == ASSUME ~Rewire, ~Reentrant PROVE Spec => []Inv
<1>1. Init => Inv
  BY InitInv
<1>2. Inv /\ [Next]_vars => Inv'
  BY NextInv
<1> QED BY <1>1, <1>2, PTL DEF Spec

\* Type correctness: stream->state stays a count above -2, only allocated
\* streams are queued for freeing, and the C stack keeps the user's frame.
THEOREM TypeCorrect == ASSUME ~Rewire, ~Reentrant PROVE Spec => []TypeOK
<1>1. Inv => TypeOK
  BY DEF Inv
<1> QED BY <1>1, Invariant, PTL

\* The ends and the stream agree about each other, whatever callbacks attach
\* and detach.
THEOREM LinksAlwaysAgree == ASSUME ~Rewire, ~Reentrant PROVE Spec => []LinksAgree
<1>1. Inv => LinksAgree
  BY DEF Inv
<1> QED BY <1>1, Invariant, PTL

\* A stream goes to call_rcu exactly when its second end leaves.
THEOREM LastOneFrees == ASSUME ~Rewire, ~Reentrant PROVE Spec => []FreedByTheLast
<1>1. Inv => FreedByTheLast
  BY DEF Inv
<1> QED BY <1>1, Invariant, PTL

\* No callback returns into code whose stream has been freed.
THEOREM FramesStayLive == ASSUME ~Rewire, ~Reentrant PROVE Spec => []FramesLive
<1>1. Inv => FramesLive
  BY DEF Inv, FrameOK, FramesLive
<1> QED BY <1>1, Invariant, PTL

\* A sink left alone has been told of FIN.
THEOREM FinAlwaysDelivered == ASSUME ~Rewire, ~Reentrant PROVE Spec => []FinDelivered
<1>1. Inv => FinDelivered
  BY DEF Inv
<1> QED BY <1>1, Invariant, PTL

\* Ends and streams agree, and the second end to leave takes the stream with it.
THEOREM LinksAlwaysHold == ASSUME ~Rewire, ~Reentrant PROVE Spec => []LinksHold
<1>1. LinksAgree /\ FreedByTheLast => LinksHold
  BY DEF LinksHold
<1> QED BY <1>1, LinksAlwaysAgree, LastOneFrees, PTL

-----------------------------------------------------------------------------
(* What the calls hold open *)

\* The _begin calls that a C stack holds open for an end.
HeldIn(s, x) == {k \in 1 .. Len(s) : x \in s[k].held}

\* A pair that is open keeps its end attached.
AttachedWhenHeld == \A x \in Ends : Opened(x) # {} => streamOf[x] # None

\* A stream counts up for its source and down for its sink, and never for both.
Balanced(st) ==
    /\ state[st] = Cardinality(Opened(source[st])) - Cardinality(Opened(sink[st]))
    /\ state[st] >= 0 => Opened(sink[st]) = {}
    /\ state[st] <= 0 => Opened(source[st]) = {}

\* A consume callback was made when the source had nothing open, the one of a
\* detach when neither end had; what is open now was opened in it or above it.
Undisturbed(k) ==
    LET st == stack[k].at IN
    /\ stack[k].consume => st # None /\ \A j \in Opened(source[st]) : j >= k
    /\ stack[k].detaches # None =>
          \A j \in Opened(source[st]) \cup Opened(sink[st]) : j >= k

\* Nothing has stopped the program.
Going == failed = "none"

\* The second invariant, on top of Inv.
Counted ==
    /\ Going
    /\ AttachedWhenHeld
    /\ \A st \in live : Balanced(st)
    /\ \A k \in 1 .. Depth : Undisturbed(k)

\* Frame k makes the call it made before.
SameCall(s, k) ==
    /\ k <= Depth
    /\ s[k].at = stack[k].at /\ s[k].detaches = stack[k].detaches
    /\ s[k].consume = stack[k].consume

\* The pairs that are open are those that the C stack holds.
LEMMA OpenedHeld == \A x : Opened(x) = HeldIn(stack, x)
BY DEF Opened, HeldIn, Depth

\* Frames hold ends only, and finitely many frames hold any one.
LEMMA OpenedFinite ==
    ASSUME NEW s \in Seq(Frame)
    PROVE  /\ \A x : IsFiniteSet(HeldIn(s, x)) /\ Cardinality(HeldIn(s, x)) \in Nat
           /\ \A x : HeldIn(s, x) \subseteq 1 .. Len(s)
           /\ HeldIn(s, None) = {}
<1>1. \A x : HeldIn(s, x) \subseteq 1 .. Len(s)
  BY DEF HeldIn
<1>2. IsFiniteSet(1 .. Len(s))
  BY FS_Interval
<1>3. \A x : IsFiniteSet(HeldIn(s, x)) /\ Cardinality(HeldIn(s, x)) \in Nat
  BY <1>1, <1>2, FS_Subset, FS_CardinalityType
<1>4. ASSUME NEW k \in 1 .. Len(s) PROVE s[k].held \subseteq Ends
  <2>1. s[k] \in Frame
    OBVIOUS
  <2> QED BY <2>1 DEF Frame
<1>5. HeldIn(s, None) = {}
  BY <1>4, StreamAssumption DEF HeldIn
<1> QED BY <1>1, <1>3, <1>5

\* The running frame changes what it holds: every call stays, and only the
\* pairs of that frame change.
LEMMA HeldChange ==
    ASSUME stack \in Seq(Frame), Depth >= 1, NEW h \in SUBSET Ends,
           NEW s, s = [stack EXCEPT ![Depth].held = h]
    PROVE  /\ s \in Seq(Frame) /\ Len(s) = Depth
           /\ \A k \in 1 .. Depth : SameCall(s, k)
           /\ \A x : HeldIn(s, x) = IF x \in h THEN Opened(x) \cup {Depth} ELSE Opened(x) \ {Depth}
<1>1. s \in Seq(Frame) /\ Len(s) = Depth
  BY HeldOnly DEF SameCalls
<1>2. Depth \in Nat /\ DOMAIN stack = 1 .. Depth
  BY DEF Depth
<1>3. ASSUME NEW k \in 1 .. Depth
      PROVE  /\ SameCall(s, k)
             /\ s[k].held = IF k = Depth THEN h ELSE stack[k].held
  <2>1. CASE k = Depth
    <3>1. s[k] = [stack[k] EXCEPT !.held = h]
      BY <2>1, <1>2
    <3>2. stack[k] \in Frame
      BY <1>2
    <3> QED BY <3>1, <3>2, <2>1, <1>2 DEF Frame, SameCall
  <2>2. CASE k # Depth
    <3>1. s[k] = stack[k]
      BY <2>2, <1>2
    <3> QED BY <3>1, <2>2, <1>2 DEF SameCall
  <2> QED BY <2>1, <2>2
<1>4. ASSUME NEW x
      PROVE  HeldIn(s, x) = IF x \in h THEN Opened(x) \cup {Depth} ELSE Opened(x) \ {Depth}
  <2>1. \A k : k \in HeldIn(s, x) <=> k \in 1 .. Depth /\ x \in s[k].held
    BY <1>1 DEF HeldIn
  <2>2. \A k : k \in Opened(x) <=> k \in 1 .. Depth /\ x \in stack[k].held
    BY DEF Opened
  <2>3. Depth \in 1 .. Depth
    BY <1>2
  <2> QED BY <1>3, <2>1, <2>2, <2>3
<1> QED BY <1>1, <1>3, <1>4

\* _begin: one more pair of the end is open, and of no other.
LEMMA HoldOpens ==
    ASSUME Inv, NEW x \in Ends, Hold(x)
    PROVE  /\ stack' \in Seq(Frame) /\ Depth' = Depth
           /\ \A k \in 1 .. Depth : SameCall(stack', k)
           /\ HeldIn(stack', x) = Opened(x) \cup {Depth}
           /\ \A y : y # x => HeldIn(stack', y) = Opened(y)
<1>1. Depth >= 1 /\ stack \in Seq(Frame) /\ stack[Depth] \in Frame /\ Depth \in 1 .. Depth
  BY DEF Inv, TypeOK, Depth
<1> DEFINE h == stack[Depth].held \cup {x}
<1>2. h \in SUBSET Ends /\ stack' = [stack EXCEPT ![Depth].held = h]
  BY <1>1 DEF Hold, Frame
<1>3. \A y : Depth \in Opened(y) <=> y \in stack[Depth].held
  BY <1>1 DEF Opened
<1>4. x \in h /\ \A y : y # x => (y \in h <=> y \in stack[Depth].held)
  OBVIOUS
<1> HIDE DEF h
<1> DEFINE s == stack'
<1>0. s = [stack EXCEPT ![Depth].held = h] /\ s = stack'
  BY <1>2
<1> HIDE DEF s
<1>5. /\ s \in Seq(Frame) /\ Len(s) = Depth
      /\ \A k \in 1 .. Depth : SameCall(s, k)
      /\ \A y : HeldIn(s, y) = IF y \in h THEN Opened(y) \cup {Depth} ELSE Opened(y) \ {Depth}
  BY <1>0, <1>1, <1>2, HeldChange
<1>6. ASSUME NEW y, y # x PROVE HeldIn(s, y) = Opened(y)
  <2>1. HeldIn(s, y) = IF y \in h THEN Opened(y) \cup {Depth} ELSE Opened(y) \ {Depth}
    BY <1>5
  <2>2. (Depth \in Opened(y)) <=> y \in h
    BY <1>3, <1>4, <1>6
  <2> QED BY <2>1, <2>2
<1> QED BY <1>0, <1>4, <1>5, <1>6 DEF Depth

\* _end: the pair of the running frame is closed, and no other.
LEMMA ReleaseCloses ==
    ASSUME Inv, NEW x \in Ends, NEW s, s = Released(x)
    PROVE  /\ s \in Seq(Frame) /\ Len(s) = Depth
           /\ \A k \in 1 .. Depth : SameCall(s, k)
           /\ HeldIn(s, x) = Opened(x) \ {Depth}
           /\ \A y : y # x => HeldIn(s, y) = Opened(y)
<1>1. Depth >= 1 /\ stack \in Seq(Frame) /\ stack[Depth] \in Frame /\ Depth \in 1 .. Depth
  BY DEF Inv, TypeOK, Depth
<1> DEFINE h == stack[Depth].held \ {x}
<1>2. h \in SUBSET Ends /\ s = [stack EXCEPT ![Depth].held = h]
  BY <1>1 DEF Released, Frame
<1>3. \A y : Depth \in Opened(y) <=> y \in stack[Depth].held
  BY <1>1 DEF Opened
<1>4. x \notin h /\ \A y : y # x => (y \in h <=> y \in stack[Depth].held)
  OBVIOUS
<1> HIDE DEF h
<1>5. /\ s \in Seq(Frame) /\ Len(s) = Depth
      /\ \A k \in 1 .. Depth : SameCall(s, k)
      /\ \A y : HeldIn(s, y) = IF y \in h THEN Opened(y) \cup {Depth} ELSE Opened(y) \ {Depth}
  BY <1>1, <1>2, HeldChange
<1>6. ASSUME NEW y, y # x PROVE HeldIn(s, y) = Opened(y)
  <2>1. HeldIn(s, y) = IF y \in h THEN Opened(y) \cup {Depth} ELSE Opened(y) \ {Depth}
    BY <1>5
  <2>2. (Depth \in Opened(y)) <=> y \in h
    BY <1>3, <1>4, <1>6
  <2> QED BY <2>1, <2>2
<1> QED BY <1>4, <1>5, <1>6

\* A callback begins with nothing open.
LEMMA CallOpensNothing ==
    ASSUME NEW s \in Seq(Frame), Len(s) = Depth, NEW st, NEW b, NEW so,
           \A k \in 1 .. Depth : SameCall(s, k),
           stack' = Append(s, Callback(st, b, so))
    PROVE  /\ Depth' = Depth + 1
           /\ \A k \in 1 .. Depth : SameCall(stack', k)
           /\ stack'[Depth + 1] = Callback(st, b, so)
           /\ \A x : HeldIn(stack', x) = HeldIn(s, x)
<1>1. /\ Len(stack') = Depth + 1 /\ Depth \in Nat
      /\ \A k \in 1 .. Depth : stack'[k] = s[k]
      /\ stack'[Depth + 1] = Callback(st, b, so)
  BY DEF Depth
<1>2. stack'[Depth + 1].held = {}
  BY <1>1 DEF Callback
<1>3. ASSUME NEW x PROVE HeldIn(stack', x) = HeldIn(s, x)
  <2>1. \A k : k \in HeldIn(stack', x) <=> k \in 1 .. Depth + 1 /\ x \in stack'[k].held
    BY <1>1 DEF HeldIn
  <2>2. \A k : k \in HeldIn(s, x) <=> k \in 1 .. Depth /\ x \in s[k].held
    BY DEF HeldIn
  <2>3. \A k : k \in 1 .. Depth + 1 <=> k \in 1 .. Depth \/ k = Depth + 1
    BY <1>1
  <2>4. ASSUME NEW k PROVE k \in HeldIn(stack', x) <=> k \in HeldIn(s, x)
    <3>1. CASE k = Depth + 1
      BY <3>1, <2>1, <2>2, <1>1, <1>2
    <3>2. CASE k # Depth + 1
      BY <3>2, <2>1, <2>2, <2>3, <1>1
    <3> QED BY <3>1, <3>2
  <2> QED BY <2>4 DEF HeldIn
<1> QED BY <1>1, <1>3 DEF SameCall, Depth

\* A callback returns when it has closed what it opened.
LEMMA ReturnClosesNothing ==
    ASSUME Inv, Return, NEW s, s = SubSeq(stack, 1, Depth - 1)
    PROVE  /\ s \in Seq(Frame) /\ Len(s) = Depth - 1
           /\ \A k \in 1 .. Len(s) : SameCall(s, k)
           /\ \A x : HeldIn(s, x) = Opened(x)
<1>1. /\ stack \in Seq(Frame) /\ Depth \in Nat /\ Depth > 1 /\ stack[Depth].held = {}
  BY DEF Inv, TypeOK, Return, Depth, Running
<1>2. /\ s \in Seq(Frame) /\ Len(s) = Depth - 1
      /\ \A k \in 1 .. Depth - 1 : s[k] = stack[k]
  BY <1>1 DEF Depth
<1>3. ASSUME NEW x PROVE HeldIn(s, x) = Opened(x)
  <2>1. \A k : k \in HeldIn(s, x) <=> k \in 1 .. Depth - 1 /\ x \in stack[k].held
    BY <1>2 DEF HeldIn
  <2>2. \A k : k \in Opened(x) <=> k \in 1 .. Depth /\ x \in stack[k].held
    BY DEF Opened
  <2>3. \A k : k \in 1 .. Depth <=> k \in 1 .. Depth - 1 \/ k = Depth
    BY <1>1
  <2> QED BY <2>1, <2>2, <2>3, <1>1
<1>4. \A k \in 1 .. Depth - 1 : SameCall(s, k)
  BY <1>1, <1>2 DEF SameCall
<1> QED BY <1>2, <1>3, <1>4

-----------------------------------------------------------------------------
(* Steps that move no link *)

\* Steps that move no link keep what is counted, if they keep it about the
\* streams they count for and the calls they make.
LEMMA FlowCounted ==
    ASSUME Inv, Counted, UNCHANGED links, live' \subseteq live, failed' = "none",
           stack' \in Seq(Frame),
           \A y : HeldIn(stack', y) \subseteq Opened(y) \cup {Depth},
           \A x \in Ends : HeldIn(stack', x) # {} => streamOf[x] # None,
           \A k \in 1 .. Depth' : SameCall(stack', k) \/ Undisturbed(k)',
           \A st \in live' : Balanced(st)'
    PROVE  Counted'
<1> USE DEF links
<1>1. AttachedWhenHeld' /\ Going'
  BY DEF AttachedWhenHeld, Opened, HeldIn, Depth, Going
<1>2. ASSUME NEW k \in 1 .. Depth', SameCall(stack', k)
      PROVE  Undisturbed(k)'
  <2>1. Depth \in Nat /\ Depth' \in Nat /\ k \in 1 .. Depth /\ k \in Int
    BY <1>2 DEF Inv, TypeOK, Depth, SameCall
  <2>2. Undisturbed(k)
    BY <2>1 DEF Counted
  <2>3. \A y : Opened(y)' \subseteq Opened(y) \cup {Depth}
    BY DEF Opened, HeldIn, Depth
  <2>4. Depth >= k
    BY <2>1
  <2> QED BY <1>2, <2>1, <2>2, <2>3, <2>4 DEF Undisturbed, SameCall
<1>3. \A k \in 1 .. Depth' : Undisturbed(k)'
  BY <1>2
<1> QED BY <1>1, <1>3 DEF Counted

\* A stream that is not the one of x is counted as before.
LEMMA Elsewhere ==
    ASSUME Inv, Counted, UNCHANGED links, NEW x \in Ends, streamOf[x] # None,
           NEW t \in live, t # streamOf[x], state'[t] = state[t],
           \A y : y # x => HeldIn(stack', y) = Opened(y)
    PROVE  Balanced(t)'
<1>1. t \in Streams /\ t # None
  BY StreamAssumption DEF Inv, TypeOK
<1>2. source[t] # x /\ sink[t] # x
  BY <1>1, StreamAssumption DEF Inv, LinksAgree, Ends
<1>3. Opened(source[t])' = Opened(source[t]) /\ Opened(sink[t])' = Opened(sink[t])
  BY <1>2 DEF Opened, HeldIn, Depth, links
<1>4. Balanced(t)
  BY DEF Counted
<1> QED BY <1>3, <1>4 DEF Balanced, links

\* Sources and sinks are told apart.
LEMMA TwoEnds ==
    ASSUME Inv, NEW st \in Streams
    PROVE  /\ source[st] \in Sources \cup {None} /\ sink[st] \in Sinks \cup {None}
           /\ \A so \in Sources : so \in Ends /\ so # None /\ sink[st] # so
           /\ \A si \in Sinks : si \in Ends /\ si # None /\ source[st] # si
<1>1. source[st] \in Sources \cup {None} /\ sink[st] \in Sinks \cup {None}
  BY DEF Inv, TypeOK
<1> QED BY <1>1, StreamAssumption DEF Ends

\* What a stream's count says of what is open.
LEMMA CountSays ==
    ASSUME Inv, Counted, NEW st \in live
    PROVE  /\ state[st] = 0 <=> Opened(source[st]) = {} /\ Opened(sink[st]) = {}
           /\ state[st] >= 0 => state[st] = Cardinality(Opened(source[st])) /\ Opened(sink[st]) = {}
           /\ state[st] <= 0 => -state[st] = Cardinality(Opened(sink[st])) /\ Opened(source[st]) = {}
           /\ Opened(source[st]) # {} => state[st] > 0
           /\ Opened(sink[st]) # {} => state[st] < 0
           /\ IsFiniteSet(Opened(source[st])) /\ IsFiniteSet(Opened(sink[st]))
           /\ Cardinality(Opened(source[st])) \in Nat /\ Cardinality(Opened(sink[st])) \in Nat
           /\ st \in Streams /\ st # None /\ state[st] \in Int
<1>1. Balanced(st)
  BY DEF Counted
<1>2. st \in Streams /\ st # None /\ state[st] \in Int
  BY StreamAssumption DEF Inv, TypeOK
<1>3. /\ IsFiniteSet(Opened(source[st])) /\ IsFiniteSet(Opened(sink[st]))
      /\ Cardinality(Opened(source[st])) \in Nat /\ Cardinality(Opened(sink[st])) \in Nat
  BY OpenedHeld, OpenedFinite DEF Inv, TypeOK
<1>4. Cardinality({}) = 0
  BY FS_EmptySet
<1>5. Opened(source[st]) # {} => Cardinality(Opened(source[st])) # 0
  BY <1>3, FS_EmptySet
<1>6. Opened(sink[st]) # {} => Cardinality(Opened(sink[st])) # 0
  BY <1>3, FS_EmptySet
<1> DEFINE a == Opened(source[st])
           b == Opened(sink[st])
           n == state[st]
<1>7. n = Cardinality(a) - Cardinality(b) /\ (n >= 0 => b = {}) /\ (n <= 0 => a = {})
  BY <1>1 DEF Balanced
<1>8. n \in Int /\ Cardinality(a) \in Nat /\ Cardinality(b) \in Nat
  BY <1>2, <1>3
<1>9. (a # {} => Cardinality(a) # 0) /\ (b # {} => Cardinality(b) # 0)
  BY <1>5, <1>6
<1>10. (a = {} => Cardinality(a) = 0) /\ (b = {} => Cardinality(b) = 0)
  BY <1>4
<1> HIDE DEF a, b, n
<1>11. n = 0 <=> a = {} /\ b = {}
  BY <1>7, <1>8, <1>10
<1>12. n >= 0 => n = Cardinality(a) /\ b = {}
  BY <1>7, <1>8, <1>10
<1>13. n <= 0 => -n = Cardinality(b) /\ a = {}
  BY <1>7, <1>8, <1>10
<1>14. (a # {} => n > 0) /\ (b # {} => n < 0)
  BY <1>7, <1>8
<1> QED BY <1>2, <1>3, <1>11, <1>12, <1>13, <1>14 DEF a, b, n

\* aem_stream_provide_begin
LEMMA ProvideBeginCounted ==
    ASSUME Inv, Counted, NEW so \in Sources, ProvideBegin(so)
    PROVE  Counted'
<1>0. PICK st : st = streamOf[so]
  OBVIOUS
<1>1. so \in Ends /\ st # None /\ st \in live /\ st \in Streams /\ source[st] = so
  BY <1>0, Attached DEF ProvideBegin, Ends
<1>2. /\ Hold(so) /\ state' = [state EXCEPT ![st] = state[st] + 1] /\ state[st] >= 0
      /\ UNCHANGED <<links, fin, live, queued, told, failed>> /\ so \notin Running.held
  BY <1>0, <1>1 DEF ProvideBegin
<1>3. /\ stack' \in Seq(Frame) /\ Depth' = Depth
      /\ \A k \in 1 .. Depth : SameCall(stack', k)
      /\ HeldIn(stack', so) = Opened(so) \cup {Depth}
      /\ \A y : y # so => HeldIn(stack', y) = Opened(y)
  BY <1>1, <1>2, HoldOpens
<1>4. Balanced(st)'
  <2>1. state[st] \in Int /\ state'[st] = state[st] + 1 /\ state'[st] > 0
    BY <1>1, <1>2 DEF Inv, TypeOK
  <2>2. /\ state[st] = Cardinality(Opened(so)) /\ Opened(sink[st]) = {}
        /\ IsFiniteSet(Opened(so))
    BY <1>1, <1>2, CountSays
  <2>3. Depth \notin Opened(so)
    BY <1>2 DEF Opened, Running
  <2>4. Cardinality(Opened(so) \cup {Depth}) = Cardinality(Opened(so)) + 1
    BY <2>2, <2>3, FS_AddElement
  <2>5. sink[st] # so
    BY <1>1, TwoEnds
  <2>6. Opened(source[st])' = Opened(so) \cup {Depth} /\ Opened(sink[st])' = {}
    <3>1. source'[st] = so /\ sink'[st] = sink[st]
      BY <1>1, <1>2 DEF links
    <3>2. HeldIn(stack', sink[st]) = {}
      BY <1>3, <2>2, <2>5
    <3> QED BY <1>3, <3>1, <3>2 DEF Opened, HeldIn, Depth
  <2> QED BY <2>1, <2>2, <2>4, <2>6, FS_EmptySet DEF Balanced
<1>5. \A t \in live : t # st => state'[t] = state[t] /\ t \in Streams
  BY <1>2 DEF Inv, TypeOK
<1>6. \A t \in live' : Balanced(t)'
  <2>1. \A t \in live : t # streamOf[so] => Balanced(t)'
    BY <1>1, <1>2, <1>3, <1>5, <1>0, Elsewhere
  <2> QED BY <1>0, <1>2, <1>4, <2>1
<1>7. \A x \in Ends : HeldIn(stack', x) # {} => streamOf[x] # None
  BY <1>0, <1>1, <1>3 DEF Counted, AttachedWhenHeld
<1>8. failed' = "none"
  BY <1>2 DEF Counted, Going
<1> QED BY <1>2, <1>3, <1>6, <1>7, <1>8, FlowCounted

\* aem_stream_consume_begin: nothing is open when its assertion looks at the count.
LEMMA ConsumeBeginCounted ==
    ASSUME Inv, Counted, NEW si \in Sinks, ConsumeBegin(si)
    PROVE  Counted'
<1>0. PICK st : st = streamOf[si]
  OBVIOUS
<1>1. si \in Ends /\ st # None /\ st \in live /\ st \in Streams /\ sink[st] = si
  BY <1>0, Attached DEF ConsumeBegin, Ends
<1>2. state[st] = 0
  <2>1. state[st] >= 0 /\ (state[st] = 0 \/ (Running.consume /\ Running.at = st /\ Running.held = {}))
    BY <1>0 DEF ConsumeBegin
  <2>2. CASE Running.consume /\ Running.at = st /\ Running.held = {}
    <3>1. Depth \in 1 .. Depth /\ Depth \in Nat
      BY DEF Inv, TypeOK, Depth
    <3>2. \A j \in Opened(source[st]) : j >= Depth
      BY <2>2, <3>1 DEF Counted, Undisturbed, Running
    <3>3. \A j \in Opened(source[st]) : j \in 1 .. Depth /\ j # Depth
      BY <2>2 DEF Opened, Running
    <3>4. Opened(source[st]) = {}
      BY <3>1, <3>2, <3>3
    <3>5. Opened(sink[st]) = {}
      BY <1>1, <2>1, CountSays
    <3> QED BY <1>1, <3>4, <3>5, CountSays
  <2> QED BY <2>1, <2>2
<1>3. /\ Hold(si) /\ state' = [state EXCEPT ![st] = state[st] - 1]
      /\ UNCHANGED <<links, fin, live, queued, told, failed>>
  BY <1>0, <1>1, <1>2 DEF ConsumeBegin
<1>4. /\ stack' \in Seq(Frame) /\ Depth' = Depth
      /\ \A k \in 1 .. Depth : SameCall(stack', k)
      /\ HeldIn(stack', si) = Opened(si) \cup {Depth}
      /\ \A y : y # si => HeldIn(stack', y) = Opened(y)
  BY <1>1, <1>3, HoldOpens
<1>5. Balanced(st)'
  <2>1. state'[st] = -1
    BY <1>1, <1>2, <1>3 DEF Inv, TypeOK
  <2>2. Opened(source[st]) = {} /\ Opened(si) = {}
    BY <1>1, <1>2, CountSays
  <2>3. Cardinality({Depth}) = 1 /\ Cardinality({}) = 0
    BY FS_Singleton, FS_EmptySet
  <2>4. source[st] # si
    BY <1>1, TwoEnds
  <2>5. Opened(source[st])' = {} /\ Opened(sink[st])' = {Depth}
    <3>1. sink'[st] = si /\ source'[st] = source[st]
      BY <1>1, <1>3 DEF links
    <3>2. HeldIn(stack', source[st]) = {} /\ HeldIn(stack', si) = {Depth}
      BY <1>4, <2>2, <2>4
    <3> QED BY <3>1, <3>2 DEF Opened, HeldIn, Depth
  <2> QED BY <2>1, <2>3, <2>5 DEF Balanced
<1>6. \A t \in live : t # st => state'[t] = state[t] /\ t \in Streams
  BY <1>3 DEF Inv, TypeOK
<1>7. \A t \in live' : Balanced(t)'
  <2>1. \A t \in live : t # streamOf[si] => Balanced(t)'
    BY <1>1, <1>3, <1>4, <1>6, <1>0, Elsewhere
  <2> QED BY <1>0, <1>3, <1>5, <2>1
<1>8. \A x \in Ends : HeldIn(stack', x) # {} => streamOf[x] # None
  BY <1>0, <1>1, <1>4 DEF Counted, AttachedWhenHeld
<1>9. failed' = "none"
  BY <1>3 DEF Counted, Going
<1> QED BY <1>3, <1>4, <1>7, <1>8, <1>9, FlowCounted

\* A consume call is made when the source has nothing open, the one of a detach
\* when the sink has nothing open either.
LEMMA CallUndisturbed ==
    ASSUME Inv, UNCHANGED links,
           NEW s \in Seq(Frame), Len(s) = Depth, \A k \in 1 .. Depth : SameCall(s, k),
           NEW st \in Streams, NEW b \in BOOLEAN, NEW so,
           stack' = Append(s, Callback(st, b, so)),
           b => HeldIn(s, source[st]) = {},
           so # None => HeldIn(s, source[st]) = {} /\ HeldIn(s, sink[st]) = {}
    PROVE  /\ \A k \in 1 .. Depth' : SameCall(stack', k) \/ Undisturbed(k)'
           /\ \A x : HeldIn(stack', x) = HeldIn(s, x)
<1>1. /\ Depth' = Depth + 1 /\ Depth \in Nat
      /\ \A k \in 1 .. Depth : SameCall(stack', k)
      /\ stack'[Depth + 1] = Callback(st, b, so)
      /\ \A x : HeldIn(stack', x) = HeldIn(s, x)
  <2>1. Depth \in Nat
    BY DEF Depth, Inv, TypeOK
  <2> QED BY <2>1, CallOpensNothing
<1>2. ASSUME NEW k, k = Depth + 1 PROVE Undisturbed(k)'
  <2>1. stack'[k].at = st /\ stack'[k].consume = b /\ stack'[k].detaches = so
    BY <1>1, <1>2 DEF Callback
  <2>2. source'[st] = source[st] /\ sink'[st] = sink[st]
    BY DEF links
  <2>3. b => HeldIn(stack', source'[st]) = {}
    BY <1>1, <2>2
  <2>4. so # None => HeldIn(stack', source'[st]) = {} /\ HeldIn(stack', sink'[st]) = {}
    BY <1>1, <2>2
  <2>5. st # None
    BY StreamAssumption
  <2> QED BY <2>1, <2>3, <2>4, <2>5 DEF Undisturbed, Opened, HeldIn, Depth
<1> QED BY <1>1, <1>2

\* The C stack after a call.
LEMMA CallType ==
    ASSUME NEW s \in Seq(Frame), NEW st \in Streams, NEW b \in BOOLEAN,
           NEW so \in Sources \cup {None}, stack' = Append(s, Callback(st, b, so))
    PROVE  stack' \in Seq(Frame)
<1>1. PICK f \in Frame : f = Callback(st, b, so)
  BY CallbackType
<1>2. Append(s, f) \in Seq(Frame)
  OBVIOUS
<1> QED BY <1>1, <1>2

\* Calls that change no count.
LEMMA CallCounted ==
    ASSUME Inv, Counted, UNCHANGED <<links, state, live, failed>>,
           NEW st \in live, NEW b \in BOOLEAN, NEW so,
           stack' = Append(stack, Callback(st, b, so)), stack' \in Seq(Frame),
           b => Opened(source[st]) = {},
           so # None => Opened(source[st]) = {} /\ Opened(sink[st]) = {}
    PROVE  Counted'
<1>1. /\ stack \in Seq(Frame) /\ Len(stack) = Depth /\ st \in Streams
      /\ \A k \in 1 .. Depth : SameCall(stack, k)
  BY DEF Inv, TypeOK, Depth, SameCall
<1>2. /\ \A k \in 1 .. Depth' : SameCall(stack', k) \/ Undisturbed(k)'
      /\ \A x : HeldIn(stack', x) = HeldIn(stack, x)
  BY <1>1, CallUndisturbed, OpenedHeld
<1>3. \A x : HeldIn(stack', x) = Opened(x)
  BY <1>2, OpenedHeld
<1>4. ASSUME NEW t \in live' PROVE Balanced(t)'
  <2>1. Opened(source[t])' = Opened(source[t]) /\ Opened(sink[t])' = Opened(sink[t])
    <3>1. /\ HeldIn(stack', source[t]) = HeldIn(stack, source[t])
          /\ HeldIn(stack', sink[t]) = HeldIn(stack, sink[t])
      BY <1>2
    <3>2. source'[t] = source[t] /\ sink'[t] = sink[t]
      BY DEF links
    <3> QED BY <3>1, <3>2 DEF Opened, HeldIn, Depth
  <2>2. Balanced(t) /\ state'[t] = state[t]
    BY DEF Counted
  <2> QED BY <2>1, <2>2 DEF Balanced
<1>5. \A x \in Ends : HeldIn(stack', x) # {} => streamOf[x] # None
  BY <1>3 DEF Counted, AttachedWhenHeld
<1>6. failed' = "none"
  BY DEF Counted, Going
<1> QED BY <1>2, <1>3, <1>4, <1>5, <1>6, FlowCounted

\* aem_stream_provide_end: the source is attached and its pair counted.
LEMMA ProvideEndCounted ==
    ASSUME Inv, Counted, NEW so \in Sources, ProvideEnd(so)
    PROVE  Counted'
<1>0. PICK st : st = streamOf[so]
  OBVIOUS
<1>1. so \in Ends /\ Depth \in Opened(so) /\ st # None
  BY <1>0 DEF ProvideEnd, Ends, Opened, Running, Inv, TypeOK, Counted, AttachedWhenHeld, Depth
<1>2. st \in live /\ st \in Streams /\ source[st] = so
  BY <1>0, <1>1, Attached
<1>3. state[st] > 0 /\ state[st] = Cardinality(Opened(so)) /\ Opened(sink[st]) = {}
      /\ IsFiniteSet(Opened(so)) /\ state[st] \in Int
  BY <1>1, <1>2, CountSays
<1>4. /\ state' = [state EXCEPT ![st] = state[st] - 1]
      /\ UNCHANGED <<links, fin, live, queued, failed>>
      /\ IF LastProvide(st) /\ sink[st] # None
         THEN Consume(Released(so), st, None)
         ELSE stack' = Released(so) /\ told' = told
  BY <1>0, <1>1, <1>2, <1>3 DEF ProvideEnd, ProvidesLeft
<1>5. PICK s : s = Released(so)
  OBVIOUS
<1>6. /\ s \in Seq(Frame) /\ Len(s) = Depth
      /\ \A k \in 1 .. Depth : SameCall(s, k)
      /\ HeldIn(s, so) = Opened(so) \ {Depth}
      /\ \A y : y # so => HeldIn(s, y) = Opened(y)
  BY <1>1, <1>5, ReleaseCloses
<1>7. Cardinality(Opened(so) \ {Depth}) = state[st] - 1
  BY <1>1, <1>3, FS_RemoveElement
<1>8. state[st] = 1 => HeldIn(s, so) = {}
  <2>1. IsFiniteSet(Opened(so) \ {Depth})
    BY <1>3, FS_RemoveElement
  <2> QED BY <1>6, <1>7, <2>1, FS_EmptySet
<1>9. /\ stack' \in Seq(Frame)
      /\ \A k \in 1 .. Depth' : SameCall(stack', k) \/ Undisturbed(k)'
      /\ \A x : HeldIn(stack', x) = HeldIn(s, x)
  <2>1. CASE stack' = s
    <3>1. Depth' = Depth
      BY <2>1, <1>6 DEF Depth
    <3> QED BY <2>1, <3>1, <1>6
  <2>2. CASE Consume(s, st, None) /\ LastProvide(st)
    <3>1. stack' = Append(s, Callback(st, TRUE, None))
      BY <2>2 DEF Consume, CallBack
    <3>2. HeldIn(s, source[st]) = {} /\ UNCHANGED links
      BY <2>2, <1>2, <1>4, <1>8 DEF LastProvide
    <3>5. TRUE \in BOOLEAN
      OBVIOUS
    <3>4. stack' \in Seq(Frame)
      BY <3>1, <3>5, <1>2, <1>6, CallType
    <3> QED BY <3>1, <3>2, <3>4, <3>5, <1>2, <1>6, CallUndisturbed
  <2> QED BY <2>1, <2>2, <1>4, <1>5
<1>10. Balanced(st)'
  <2>1. state'[st] = state[st] - 1 /\ state'[st] >= 0
    BY <1>2, <1>3, <1>4 DEF Inv, TypeOK
  <2>2. sink[st] # so
    BY <1>2, TwoEnds
  <2>3. source'[st] = so /\ sink'[st] = sink[st]
    BY <1>2, <1>4 DEF links
  <2>4. HeldIn(stack', sink[st]) = {} /\ HeldIn(stack', so) = Opened(so) \ {Depth}
    BY <1>3, <1>6, <1>9, <2>2
  <2>5. Opened(source[st])' = Opened(so) \ {Depth} /\ Opened(sink[st])' = {}
    BY <2>3, <2>4 DEF Opened, HeldIn, Depth
  <2>6. state'[st] <= 0 => Opened(so) \ {Depth} = {}
    BY <2>1, <1>3, <1>6, <1>8
  <2>7. state'[st] = Cardinality(Opened(so) \ {Depth}) - Cardinality({})
    BY <1>3, <1>7, <2>1, FS_EmptySet
  <2> QED BY <2>5, <2>6, <2>7 DEF Balanced
<1>11. \A t \in live : t # st => state'[t] = state[t] /\ t \in Streams
  BY <1>4 DEF Inv, TypeOK
<1>12. \A t \in live' : Balanced(t)'
  <2>1. \A t \in live : t # streamOf[so] => Balanced(t)'
    BY <1>0, <1>1, <1>4, <1>6, <1>9, <1>11, Elsewhere
  <2> QED BY <1>0, <1>4, <1>10, <2>1
<1>13. \A x \in Ends : HeldIn(stack', x) # {} => streamOf[x] # None
  BY <1>0, <1>1, <1>6, <1>9 DEF Counted, AttachedWhenHeld
<1>14. failed' = "none"
  BY <1>4 DEF Counted, Going
<1>15. \A y : HeldIn(stack', y) \subseteq Opened(y) \cup {Depth}
  BY <1>6, <1>9
<1> QED BY <1>4, <1>9, <1>12, <1>13, <1>14, <1>15, FlowCounted

\* aem_stream_consume_end: the sink is attached and has the one pair.
LEMMA ConsumeEndCounted ==
    ASSUME Inv, Counted, NEW si \in Sinks, ConsumeEnd(si)
    PROVE  Counted'
<1>0. PICK st : st = streamOf[si]
  OBVIOUS
<1>1. si \in Ends /\ Depth \in Opened(si) /\ st # None
  BY <1>0 DEF ConsumeEnd, Ends, Opened, Running, Inv, TypeOK, Counted, AttachedWhenHeld, Depth
<1>2. st \in live /\ st \in Streams /\ sink[st] = si
  BY <1>0, <1>1, Attached
<1>3. /\ state[st] < 0 /\ -state[st] = Cardinality(Opened(si)) /\ Opened(source[st]) = {}
      /\ IsFiniteSet(Opened(si)) /\ state[st] \in Int /\ state[st] >= -1
  <2>1. state[st] < 0 /\ state[st] \in Int
    BY <1>1, <1>2, CountSays
  <2>2. state[st] >= -1
    BY <1>2 DEF Inv, TypeOK
  <2>3. -state[st] = Cardinality(Opened(sink[st])) /\ Opened(source[st]) = {}
    BY <1>2, <2>1, CountSays
  <2>4. IsFiniteSet(Opened(sink[st]))
    BY <1>2, CountSays
  <2> QED BY <1>2, <2>1, <2>2, <2>3, <2>4
<1>4. /\ state' = [state EXCEPT ![st] = state[st] + 1] /\ stack' = Released(si)
      /\ UNCHANGED <<links, fin, live, queued, told, failed>>
  BY <1>0, <1>1, <1>2, <1>3 DEF ConsumeEnd, StateAfterConsume
<1>5. PICK s : s = Released(si)
  OBVIOUS
<1>6. /\ s \in Seq(Frame) /\ Len(s) = Depth
      /\ \A k \in 1 .. Depth : SameCall(s, k)
      /\ HeldIn(s, si) = Opened(si) \ {Depth}
      /\ \A y : y # si => HeldIn(s, y) = Opened(y)
  BY <1>1, <1>5, ReleaseCloses
<1>7. state[st] = -1 /\ HeldIn(s, si) = {}
  <2>1. state[st] = -1 /\ Cardinality(Opened(si)) = 1
    BY <1>3
  <2>2. IsFiniteSet(Opened(si) \ {Depth}) /\ Cardinality(Opened(si) \ {Depth}) = 0
    <3>1. Cardinality(Opened(si) \ {Depth}) = Cardinality(Opened(si)) - 1
      BY <1>1, <1>3, FS_RemoveElement
    <3>2. IsFiniteSet(Opened(si) \ {Depth})
      BY <1>3, FS_RemoveElement
    <3> QED BY <2>1, <3>1, <3>2
  <2> QED BY <1>6, <2>1, <2>2, FS_EmptySet
<1>8. stack' = s /\ Depth' = Depth
  BY <1>4, <1>5, <1>6 DEF Depth
<1>9. Balanced(st)'
  <2>1. state'[st] = 0
    BY <1>2, <1>4, <1>7 DEF Inv, TypeOK
  <2>2. source[st] # si
    BY <1>2, TwoEnds
  <2>3. source'[st] = source[st] /\ sink'[st] = si
    BY <1>2, <1>4 DEF links
  <2>4. HeldIn(stack', source[st]) = {} /\ HeldIn(stack', si) = {}
    BY <1>3, <1>6, <1>7, <1>8, <2>2
  <2>5. Opened(source[st])' = {} /\ Opened(sink[st])' = {}
    BY <2>3, <2>4 DEF Opened, HeldIn, Depth
  <2> QED BY <2>1, <2>5, FS_EmptySet DEF Balanced
<1>10. \A t \in live : t # st => state'[t] = state[t] /\ t \in Streams
  BY <1>4 DEF Inv, TypeOK
<1>11. \A t \in live' : Balanced(t)'
  <2>1. \A t \in live : t # streamOf[si] => Balanced(t)'
    BY <1>0, <1>1, <1>4, <1>6, <1>8, <1>10, Elsewhere
  <2> QED BY <1>0, <1>4, <1>9, <2>1
<1>12. \A x \in Ends : HeldIn(stack', x) # {} => streamOf[x] # None
  BY <1>0, <1>1, <1>6, <1>8 DEF Counted, AttachedWhenHeld
<1>13. failed' = "none"
  BY <1>4 DEF Counted, Going
<1>14. \A y : HeldIn(stack', y) \subseteq Opened(y) \cup {Depth}
  BY <1>6, <1>8
<1> QED BY <1>4, <1>6, <1>8, <1>11, <1>12, <1>13, <1>14, FlowCounted

\* aem_stream_flow and aem_stream_propagate_up: provide, whatever is open.
LEMMA FlowCallCounted ==
    ASSUME Inv, Counted, NEW x \in Ends, Flow(x)
    PROVE  Counted'
<1>0. PICK st : st = streamOf[x]
  OBVIOUS
<1>1. st # None /\ st \in live /\ st \in Streams
  BY <1>0, Attached DEF Flow
<1>2. source[st] # None /\ streamOf[source[st]] = st
  BY <1>0, <1>1 DEF Flow, Inv, LinksAgree
<1>3. /\ stack' = Append(stack, Callback(st, FALSE, None))
      /\ UNCHANGED <<links, state, fin, live, queued, told, failed>>
  BY <1>0, <1>2 DEF Flow, CallBack
<1>4. stack' \in Seq(Frame)
  <2>1. stack \in Seq(Frame) /\ FALSE \in BOOLEAN
    BY DEF Inv, TypeOK
  <2> QED BY <1>1, <1>3, <2>1, CallType
<1> QED BY <1>1, <1>3, <1>4, CallCounted

\* aem_stream_propagate_down: consume, with nothing open at the source.
LEMMA PropagateDownCounted ==
    ASSUME Inv, Counted, NEW so \in Sources, PropagateDown(so)
    PROVE  Counted'
<1>0. PICK st : st = streamOf[so]
  OBVIOUS
<1>1. st # None /\ st \in live /\ st \in Streams /\ source[st] = so
  BY <1>0, Attached DEF PropagateDown, Ends
<1>2. sink[st] # None /\ streamOf[sink[st]] = st /\ state[st] <= 0
  BY <1>0, <1>1 DEF PropagateDown, Inv, LinksAgree
<1>3. /\ stack' = Append(stack, Callback(st, TRUE, None))
      /\ UNCHANGED <<links, state, fin, live, queued, failed>>
  BY <1>0, <1>1, <1>2 DEF PropagateDown, Consume, CallBack
<1>4. stack' \in Seq(Frame)
  <2>1. stack \in Seq(Frame) /\ TRUE \in BOOLEAN
    BY DEF Inv, TypeOK
  <2> QED BY <1>1, <1>3, <2>1, CallType
<1>5. Opened(source[st]) = {}
  BY <1>1, <1>2, CountSays
<1> QED BY <1>1, <1>3, <1>4, <1>5, CallCounted

-----------------------------------------------------------------------------
(* Steps that move links *)

\* Steps that move links, of streams with nothing open only.
LEMMA RelinkCounted ==
    ASSUME Inv, Counted, failed' = "none", live \subseteq live',
           stack' \in Seq(Frame),
           \A y : HeldIn(stack', y) = Opened(y),
           \A k \in 1 .. Depth' : SameCall(stack', k),
           \A x \in Ends : Opened(x) # {} => streamOf'[x] # None,
           \A t \in live' :
              \/ /\ t \in live /\ state'[t] = state[t]
                 /\ source'[t] = source[t] /\ sink'[t] = sink[t]
              \/ state'[t] = 0 /\ Opened(source'[t]) = {} /\ Opened(sink'[t]) = {}
    PROVE  Counted'
<1>1. Going'
  BY DEF Going
<1>2. AttachedWhenHeld'
  BY DEF AttachedWhenHeld, Opened, HeldIn, Depth
<1>3. ASSUME NEW t \in live'
      PROVE  /\ Balanced(t)'
             /\ \/ source'[t] = source[t] /\ sink'[t] = sink[t]
                \/ HeldIn(stack', source'[t]) = {} /\ HeldIn(stack', sink'[t]) = {}
  <2>1. CASE /\ t \in live /\ state'[t] = state[t]
             /\ source'[t] = source[t] /\ sink'[t] = sink[t]
    <3>1. HeldIn(stack', source[t]) = Opened(source[t]) /\ HeldIn(stack', sink[t]) = Opened(sink[t])
      OBVIOUS
    <3>2. Opened(source[t])' = Opened(source[t]) /\ Opened(sink[t])' = Opened(sink[t])
      BY <2>1, <3>1 DEF Opened, HeldIn, Depth
    <3>3. Balanced(t)
      BY <2>1 DEF Counted
    <3> QED BY <2>1, <3>2, <3>3 DEF Balanced
  <2>2. CASE state'[t] = 0 /\ Opened(source'[t]) = {} /\ Opened(sink'[t]) = {}
    <3>1. HeldIn(stack', source'[t]) = {} /\ HeldIn(stack', sink'[t]) = {}
      BY <2>2
    <3>2. Opened(source[t])' = {} /\ Opened(sink[t])' = {}
      BY <3>1 DEF Opened, HeldIn, Depth
    <3> QED BY <2>2, <3>1, <3>2, FS_EmptySet DEF Balanced
  <2> QED BY <2>1, <2>2
<1>4. ASSUME NEW k \in 1 .. Depth' PROVE Undisturbed(k)'
  <2>1. k \in 1 .. Depth
    BY DEF SameCall, Depth, Inv, TypeOK
  <2>2. Undisturbed(k) /\ FrameOK(stack[k])
    BY <2>1 DEF Counted, Inv
  <2>3. PICK t : t = stack[k].at
    OBVIOUS
  <2>4. /\ stack'[k].at = t /\ stack'[k].consume = stack[k].consume
        /\ stack'[k].detaches = stack[k].detaches
    BY <2>3 DEF SameCall
  <2>5. (stack[k].consume \/ stack[k].detaches # None) => t \in live'
    BY <2>2, <2>3 DEF Undisturbed, FrameOK
  <2>6. stack[k].consume => t # None /\ \A j \in Opened(source[t]) : j >= k
    BY <2>2, <2>3 DEF Undisturbed
  <2>7. stack[k].detaches # None => \A j \in Opened(source[t]) \cup Opened(sink[t]) : j >= k
    BY <2>2, <2>3 DEF Undisturbed
  <2>8. stack[k].consume => \A j \in HeldIn(stack', source'[t]) : j >= k
    BY <2>5, <2>6, <1>3
  <2>9. stack[k].detaches # None =>
           \A j \in HeldIn(stack', source'[t]) \cup HeldIn(stack', sink'[t]) : j >= k
    BY <2>5, <2>7, <1>3
  <2>10. /\ Opened(source[stack[k].at])' = HeldIn(stack', source'[t])
         /\ Opened(sink[stack[k].at])' = HeldIn(stack', sink'[t])
    BY <2>4 DEF Opened, HeldIn, Depth
  <2> QED BY <2>4, <2>6, <2>8, <2>9, <2>10 DEF Undisturbed
<1> QED BY <1>1, <1>2, <1>3, <1>4 DEF Counted

\* aem_stream_source_detach up to the consume call that tells the sink.
LEMMA TellCounted ==
    ASSUME Inv, Counted, NEW so \in Sources, SourceDetach(so), SomeoneToTell(streamOf[so])
    PROVE  Counted'
<1>0. PICK st : st = streamOf[so]
  OBVIOUS
<1>1. st # None /\ st \in live /\ st \in Streams /\ source[st] = so
  BY <1>0, Attached DEF SourceDetach, Ends
<1>2. sink[st] # None /\ streamOf[sink[st]] = st /\ state[st] = 0
  BY <1>0, <1>1 DEF SourceDetach, SomeoneToTell, Inv, LinksAgree
<1>3. /\ stack' = Append(stack, Callback(st, TRUE, so))
      /\ UNCHANGED <<links, state, live, failed>>
  BY <1>0, <1>1, <1>2 DEF SourceDetach, SomeoneToTell, Consume, CallBack
<1>4. stack' \in Seq(Frame)
  <2>1. stack \in Seq(Frame) /\ TRUE \in BOOLEAN
    BY DEF Inv, TypeOK
  <2> QED BY <1>1, <1>3, <2>1, CallType
<1>5. Opened(source[st]) = {} /\ Opened(sink[st]) = {}
  BY <1>1, <1>2, CountSays
<1> QED BY <1>1, <1>3, <1>4, <1>5, CallCounted

\* The end of aem_stream_source_detach finds the stream idle and not queued.
LEMMA FinishDetachCounted ==
    ASSUME Inv, Counted, NEW so \in Sources, NEW st, st = streamOf[so], st # None,
           NEW s \in Seq(Frame), \A k \in 1 .. Len(s) : SameCall(s, k),
           \A y : HeldIn(s, y) = Opened(y), state[st] = 0,
           NEW flags, FinishDetach(so, st, s, flags)
    PROVE  Counted'
<1>1. st \in live /\ st \in Streams /\ source[st] = so /\ so \in Ends /\ so # None
  BY Attached, TwoEnds DEF Ends
<1>2. st \notin queued
  BY <1>1 DEF Inv, FreedByTheLast
<1>3. /\ source' = [source EXCEPT ![st] = None]
      /\ streamOf' = [streamOf EXCEPT ![so] = None]
      /\ stack' = s /\ live' = live
      /\ UNCHANGED <<sink, state, told, failed>>
  BY <1>2 DEF FinishDetach, Freed, Unlinked
<1>4. Opened(so) = {} /\ Opened(sink[st]) = {} /\ Opened(None) = {}
  <2>1. Opened(None) = {}
    BY OpenedFinite, OpenedHeld DEF Inv, TypeOK
  <2> QED BY <1>1, <2>1, CountSays
<1>5. \A x \in Ends : Opened(x) # {} => streamOf'[x] # None
  BY <1>3, <1>4 DEF Counted, AttachedWhenHeld, Inv, TypeOK
<1>6. ASSUME NEW t \in live'
      PROVE  \/ /\ t \in live /\ state'[t] = state[t]
                /\ source'[t] = source[t] /\ sink'[t] = sink[t]
             \/ state'[t] = 0 /\ Opened(source'[t]) = {} /\ Opened(sink'[t]) = {}
  <2>1. t \in live /\ t \in Streams
    BY <1>3 DEF Inv, TypeOK
  <2>2. source'[t] = IF t = st THEN None ELSE source[t]
    BY <1>3, <2>1 DEF Inv, TypeOK
  <2> QED BY <1>3, <1>4, <2>1, <2>2
<1>7. failed' = "none" /\ live \subseteq live' /\ stack' \in Seq(Frame)
  BY <1>3 DEF Counted, Going
<1>8. \A y : HeldIn(stack', y) = Opened(y)
  BY <1>3
<1>9. \A k \in 1 .. Depth' : SameCall(stack', k)
  BY <1>3 DEF Depth
<1> QED BY <1>5, <1>6, <1>7, <1>8, <1>9, RelinkCounted

\* aem_stream_source_detach
LEMMA SourceDetachCounted ==
    ASSUME Inv, Counted, NEW so \in Sources, SourceDetach(so)
    PROVE  Counted'
<1>0. PICK st : st = streamOf[so]
  OBVIOUS
<1>1. st # None /\ state[st] = 0 /\ st \in live /\ source[st] = so
  BY <1>0, Attached DEF SourceDetach, Ends
<1>2. CASE SomeoneToTell(st)
  BY <1>0, <1>2, TellCounted
<1>3. CASE ~SomeoneToTell(st)
  <2>1. FinishDetach(so, st, stack, [fin EXCEPT ![st] = TRUE])
    BY <1>0, <1>1, <1>3 DEF SourceDetach
  <2>2. stack \in Seq(Frame) /\ \A k \in 1 .. Len(stack) : SameCall(stack, k)
    BY DEF Inv, TypeOK, SameCall, Depth
  <2>3. \A y : HeldIn(stack, y) = Opened(y)
    BY OpenedHeld
  <2> QED BY <1>0, <1>1, <2>1, <2>2, <2>3, FinishDetachCounted
<1> QED BY <1>2, <1>3

\* A callback returns to a detach that finds the stream as idle as it left it.
LEMMA ReturnCounted ==
    ASSUME Inv, Counted, Return
    PROVE  Counted'
<1>1. PICK s : s = SubSeq(stack, 1, Depth - 1)
  OBVIOUS
<1>2. /\ s \in Seq(Frame) /\ Len(s) = Depth - 1
      /\ \A k \in 1 .. Len(s) : SameCall(s, k)
      /\ \A x : HeldIn(s, x) = Opened(x)
  BY <1>1, ReturnClosesNothing
<1>3. /\ Depth \in 1 .. Depth /\ Depth \in Nat /\ Running = stack[Depth] /\ Running.held = {}
      /\ Running \in Frame
  BY DEF Inv, TypeOK, Depth, Running, Return
<1>4. CASE Running.detaches # None
  <2>1. PICK so, st : so = Running.detaches /\ st = Running.at
    OBVIOUS
  <2>2. FinishDetach(so, st, s, fin)
    BY <1>1, <1>4, <2>1 DEF Return
  <2>3. so \in Sources /\ st # None /\ streamOf[so] = st
    BY <1>3, <1>4, <2>1 DEF Inv, FrameOK, Frame
  <2>4. st \in live
    BY <2>3, Attached DEF Ends
  <2>5. Undisturbed(Depth)
    BY <1>3 DEF Counted
  <2>6. \A j \in Opened(source[st]) \cup Opened(sink[st]) : j >= Depth
    BY <1>3, <1>4, <2>1, <2>5 DEF Undisturbed
  <2>7. \A x : \A j \in Opened(x) : j \in 1 .. Depth /\ j # Depth
    BY <1>3 DEF Opened
  <2>8. Opened(source[st]) = {} /\ Opened(sink[st]) = {}
    <3>1. ASSUME NEW x, \A j \in Opened(x) : j >= Depth PROVE Opened(x) = {}
      BY <1>3, <2>7, <3>1
    <3>2. \A j \in Opened(source[st]) : j >= Depth
      BY <2>6
    <3>3. \A j \in Opened(sink[st]) : j >= Depth
      BY <2>6
    <3> QED BY <3>1, <3>2, <3>3
  <2>9. state[st] = 0
    BY <2>4, <2>8, CountSays
  <2> QED BY <1>2, <2>2, <2>3, <2>9, FinishDetachCounted
<1>5. CASE Running.detaches = None
  <2>1. stack' = s /\ UNCHANGED <<links, state, fin, live, queued, told, failed>>
    BY <1>1, <1>5 DEF Return
  <2>2. \A x \in Ends : Opened(x) # {} => streamOf'[x] # None
    BY <2>1 DEF links, Counted, AttachedWhenHeld
  <2>3. \A t \in live' : /\ t \in live /\ state'[t] = state[t]
                         /\ source'[t] = source[t] /\ sink'[t] = sink[t]
    BY <2>1 DEF links
  <2>4. failed' = "none" /\ live \subseteq live' /\ stack' \in Seq(Frame)
    BY <1>2, <2>1 DEF Counted, Going
  <2>5. \A k \in 1 .. Depth' : SameCall(stack', k)
    BY <1>2, <2>1 DEF Depth
  <2>6. \A y : HeldIn(stack', y) = Opened(y)
    BY <1>2, <2>1
  <2> QED BY <2>2, <2>3, <2>4, <2>5, <2>6, RelinkCounted
<1> QED BY <1>4, <1>5

\* aem_stream_sink_detach
LEMMA SinkDetachCounted ==
    ASSUME Inv, Counted, NEW si \in Sinks, SinkDetach(si)
    PROVE  Counted'
<1>0. PICK st : st = streamOf[si]
  OBVIOUS
<1>1. /\ st # None /\ state[st] = 0 /\ st \in live /\ st \in Streams /\ sink[st] = si
      /\ si \in Ends /\ si # None
  BY <1>0, Attached, TwoEnds DEF SinkDetach, Ends
<1>2. st \notin queued
  BY <1>1 DEF Inv, FreedByTheLast
<1>3. /\ sink' = [sink EXCEPT ![st] = None]
      /\ streamOf' = [streamOf EXCEPT ![si] = None]
      /\ live' = live
      /\ UNCHANGED <<source, state, stack, told, failed>>
  BY <1>0, <1>1, <1>2 DEF SinkDetach, Freed
<1>4. Opened(si) = {} /\ Opened(source[st]) = {} /\ Opened(None) = {}
  <2>1. Opened(None) = {}
    BY OpenedFinite, OpenedHeld DEF Inv, TypeOK
  <2> QED BY <1>1, <2>1, CountSays
<1>5. \A x \in Ends : Opened(x) # {} => streamOf'[x] # None
  BY <1>3, <1>4 DEF Counted, AttachedWhenHeld, Inv, TypeOK
<1>6. ASSUME NEW t \in live'
      PROVE  \/ /\ t \in live /\ state'[t] = state[t]
                /\ source'[t] = source[t] /\ sink'[t] = sink[t]
             \/ state'[t] = 0 /\ Opened(source'[t]) = {} /\ Opened(sink'[t]) = {}
  <2>1. t \in live /\ t \in Streams
    BY <1>3 DEF Inv, TypeOK
  <2>2. sink'[t] = IF t = st THEN None ELSE sink[t]
    BY <1>3, <2>1 DEF Inv, TypeOK
  <2> QED BY <1>1, <1>3, <1>4, <2>1, <2>2
<1>7. failed' = "none" /\ live \subseteq live' /\ stack' \in Seq(Frame)
  BY <1>3 DEF Counted, Going, Inv, TypeOK
<1>8. \A y : HeldIn(stack', y) = Opened(y)
  BY <1>3, OpenedHeld
<1>9. \A k \in 1 .. Depth' : SameCall(stack', k)
  BY <1>3 DEF Depth, SameCall, Inv, TypeOK
<1> QED BY <1>5, <1>6, <1>7, <1>8, <1>9, RelinkCounted

\* aem_stream_connect: the end that joins has nothing open, and the stream is idle.
LEMMA JoinCounted ==
    ASSUME Inv, Counted, ~Rewire, NEW so \in Sources, NEW si \in Sinks, Join(so, si),
           streamOf[so] = None \/ streamOf[si] = None
    PROVE  Counted'
<1>1. PICK st \in Joining(so, si) :
          /\ st \in live => state[st] = 0
          /\ streamOf' = [streamOf EXCEPT ![so] = st, ![si] = st]
          /\ source' = [source EXCEPT ![st] = so]
          /\ sink' = [sink EXCEPT ![st] = si]
          /\ live' = live \cup {st}
          /\ state' = [state EXCEPT ![st] = 0]
          /\ UNCHANGED <<queued, stack, failed>>
  BY DEF Join
<1>2. so \in Ends /\ si \in Ends /\ so # si /\ None \notin Streams
  BY StreamAssumption DEF Ends
<1>3. /\ streamOf[so] # None => st = streamOf[so] /\ st \in live /\ source[st] = so
      /\ streamOf[si] # None => st = streamOf[si] /\ st \in live /\ sink[st] = si
      /\ st \in Streams
  <2>2. streamOf[so] # None => streamOf[so] \in live /\ streamOf[so] \in Streams /\ source[streamOf[so]] = so
    BY <1>2, Attached
  <2>3. streamOf[si] # None => streamOf[si] \in live /\ streamOf[si] \in Streams /\ sink[streamOf[si]] = si
    BY <1>2, Attached
  <2> QED BY <1>1, <2>2, <2>3 DEF Joining
<1>4. /\ streamOf' = [streamOf EXCEPT ![so] = st, ![si] = st]
      /\ source' = [source EXCEPT ![st] = so]
      /\ sink' = [sink EXCEPT ![st] = si]
      /\ live' = live \cup {st}
      /\ state' = [state EXCEPT ![st] = 0]
      /\ stack' = stack /\ failed' = failed
  BY <1>1
<1>5. Opened(so) = {} /\ Opened(si) = {}
  <2>1. st \in live => Opened(source[st]) = {} /\ Opened(sink[st]) = {}
    BY <1>1, CountSays
  <2>2. streamOf[so] = None => Opened(so) = {}
    BY <1>2 DEF Counted, AttachedWhenHeld
  <2>3. streamOf[si] = None => Opened(si) = {}
    BY <1>2 DEF Counted, AttachedWhenHeld
  <2> QED BY <1>3, <2>1, <2>2, <2>3
<1>6. \A x \in Ends : Opened(x) # {} => streamOf'[x] # None
  <2>1. \A x \in Ends : streamOf'[x] = IF x = so \/ x = si THEN st ELSE streamOf[x]
    BY <1>2, <1>4 DEF Inv, TypeOK
  <2> QED BY <1>2, <1>3, <2>1 DEF Counted, AttachedWhenHeld
<1>7. ASSUME NEW t \in live'
      PROVE  \/ /\ t \in live /\ state'[t] = state[t]
                /\ source'[t] = source[t] /\ sink'[t] = sink[t]
             \/ state'[t] = 0 /\ Opened(source'[t]) = {} /\ Opened(sink'[t]) = {}
  <2>1. t \in Streams /\ (t # st => t \in live)
    BY <1>3, <1>4 DEF Inv, TypeOK
  <2>2. /\ source'[t] = IF t = st THEN so ELSE source[t]
        /\ sink'[t] = IF t = st THEN si ELSE sink[t]
        /\ state'[t] = IF t = st THEN 0 ELSE state[t]
    BY <1>4, <2>1 DEF Inv, TypeOK
  <2> QED BY <1>5, <2>1, <2>2
<1>8. failed' = "none" /\ live \subseteq live' /\ stack' \in Seq(Frame)
  BY <1>4 DEF Counted, Going, Inv, TypeOK
<1>9. \A y : HeldIn(stack', y) = Opened(y)
  BY <1>4, OpenedHeld
<1>10. \A k \in 1 .. Depth' : SameCall(stack', k)
  BY <1>4 DEF Depth, SameCall, Inv, TypeOK
<1> QED BY <1>6, <1>7, <1>8, <1>9, <1>10, RelinkCounted

\* rcu_barrier
LEMMA BarrierCounted ==
    ASSUME Inv, Counted, Barrier
    PROVE  Counted'
<1>1. /\ live' = live \ queued /\ UNCHANGED <<links, state, fin, stack, failed>>
  BY DEF Barrier
<1> QED BY <1>1 DEF Counted, Going, AttachedWhenHeld, Balanced, Undisturbed, Opened, Depth, links

\* The initial state.
LEMMA InitCounted == Init => Counted
<1> SUFFICES ASSUME Init PROVE Counted
  OBVIOUS
<1>1. Depth = 1 /\ stack[1] = UserFrame /\ 1 .. Depth = {1}
  BY DEF Init, Depth
<1>2. stack[1].held = {} /\ stack[1].consume = FALSE /\ stack[1].detaches = None
  BY <1>1 DEF UserFrame, Callback
<1>3. \A x : Opened(x) = {}
  BY <1>1, <1>2 DEF Opened
<1>4. AttachedWhenHeld /\ live = {} /\ Going
  BY <1>3 DEF AttachedWhenHeld, Init, Going
<1>5. \A k \in 1 .. Depth : Undisturbed(k)
  BY <1>1, <1>2 DEF Undisturbed
<1> QED BY <1>4, <1>5 DEF Counted

\* What a stopped program leaves: all is counted right, and it was two ends that were
\* connected to each other already that stopped it.
Healthy ==
    /\ failed \in {"none", "null"}
    /\ AttachedWhenHeld
    /\ \A st \in live : Balanced(st)
    /\ \A k \in 1 .. Depth : Undisturbed(k)

\* A program that stopped, or did nothing, left the counts as they were.
LEMMA Untouched ==
    ASSUME Healthy, UNCHANGED <<links, state, live, stack>>,
           failed' = failed \/ failed' = "null"
    PROVE  Healthy'
BY DEF Healthy, AttachedWhenHeld, Balanced, Undisturbed, Opened, Depth, links

\* aem_stream_connect
LEMMA ConnectCounted ==
    ASSUME Inv, Counted, ~Rewire, NEW so \in Sources, NEW si \in Sinks, Connect(so, si)
    PROVE  Healthy'
<1>1. ~(\/ streamOf[so] # None /\ source[streamOf[so]] # so
        \/ streamOf[si] # None /\ sink[streamOf[si]] # si)
  BY Attached DEF Ends
<1>2. CASE streamOf[so] # None /\ streamOf[si] # None
  <2>1. Healthy
    BY DEF Counted, Healthy, Going
  <2>2. AlreadyJoined(so, si)
    BY <1>1, <1>2 DEF Connect
  <2> QED BY <2>1, <2>2, Untouched DEF AlreadyJoined, Abort, vars
<1>3. CASE streamOf[so] = None \/ streamOf[si] = None
  <2>1. Join(so, si)
    BY <1>1, <1>3 DEF Connect
  <2>2. Counted'
    BY <1>3, <2>1, JoinCounted
  <2> QED BY <2>2 DEF Counted, Healthy, Going
<1> QED BY <1>2, <1>3

\* Every step.
LEMMA NextCounted == ASSUME Inv, Healthy, ~Rewire, [Next]_vars PROVE Healthy'
<1>1. CASE UNCHANGED vars
  BY <1>1, Untouched DEF vars
<1>2. CASE Next
  <2>1. Going
    BY <1>2 DEF Next, Going, Connect, SourceDetach, ProvideBegin, ProvideEnd, PropagateDown,
                SinkDetach, ConsumeBegin, ConsumeEnd, Flow, Return, Barrier
  <2>2. Counted
    BY <2>1 DEF Counted, Healthy
  <2>3. ASSUME NEW so \in Sources, NEW si \in Sinks, Connect(so, si) PROVE Healthy'
    BY <2>2, <2>3, ConnectCounted
  <2>4. ASSUME NEW so \in Sources,
               \/ SourceDetach(so) \/ ProvideBegin(so) \/ ProvideEnd(so) \/ PropagateDown(so)
        PROVE  Counted'
    BY <2>2, <2>4, SourceDetachCounted, ProvideBeginCounted, ProvideEndCounted, PropagateDownCounted
  <2>5. ASSUME NEW si \in Sinks, SinkDetach(si) \/ ConsumeBegin(si) \/ ConsumeEnd(si)
        PROVE  Counted'
    BY <2>2, <2>5, SinkDetachCounted, ConsumeBeginCounted, ConsumeEndCounted
  <2>6. ASSUME NEW x \in Ends, Flow(x) PROVE Counted'
    BY <2>2, <2>6, FlowCallCounted
  <2>7. Return \/ Barrier => Counted'
    BY <2>2, ReturnCounted, BarrierCounted
  <2>8. Counted' => Healthy'
    BY DEF Counted, Healthy, Going
  <2> QED BY <1>2, <2>3, <2>4, <2>5, <2>6, <2>7, <2>8 DEF Next
<1> QED BY <1>1, <1>2

\* What is counted is counted right in every behaviour of well-behaved users.
THEOREM CountInvariant == ASSUME ~Rewire, ~Reentrant PROVE Spec => []Healthy
<1>1. Init => Healthy
  BY InitCounted DEF Counted, Healthy, Going
<1>2. Inv /\ Healthy /\ [Next]_vars => Healthy'
  BY NextCounted
<1> QED BY <1>1, <1>2, Invariant, PTL DEF Spec

\* stream->state is the number of pairs that are open, in whichever frames of
\* the C stack, and of the assertions of stream.c and pmcrcu.c none fails (neither
\* the one that a source being detached is idle after its sink has had its
\* call, nor the one that a consume finds nothing open, nor those on the links),
\* but for the one that dereferences NULL when ends are connected once more.
THEOREM CountsAlwaysHold == ASSUME ~Rewire, ~Reentrant PROVE Spec => []CountsHold
<1>1. Healthy => CountsHold
  BY DEF Healthy, Balanced, CountsHold, StateCounts
<1> QED BY <1>1, CountInvariant, PTL
=============================================================================
