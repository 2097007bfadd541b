------------------------------- MODULE AemServer -------------------------------
(***************************************************************************)
(* The connections of the line server in test/server.c: net.c, streams.c   *)
(* and the callbacks of server.c, driven by the event loop of its main.    *)
(*                                                                         *)
(*       peer -> rx ==up==> transducer ==down==> tx -> peer                *)
(*                                                                         *)
(* A connection owns a socket, a transducer and two streams, up and down.  *)
(* Everything happens in callbacks that call each other: calls is what     *)
(* the C stack still has to do for the connection "on", and an action is   *)
(* the code up to the next call.  Sockets and peers are external.  The     *)
(* arrays of poll.c are reduced to what AemPollAbs promises, and the frees *)
(* of the streams are left to AemStream.                                   *)
(***************************************************************************)
EXTENDS Integers, Sequences

CONSTANTS
    Conns,    \* the blocks of memory that malloc gives to connections
    Srv,      \* the event of the listening socket
    MaxLines, \* bound: lines that a peer has sent and nobody has read yet
    TrCloses, \* conn_new sets tr.on_close, as test/server.c does
    Env,      \* what the world may do: see Peers and signals below
    None      \* no event

Evts == Conns \cup {Srv}
Bits == {"IN", "OUT", "RDHUP", "HUP"}

ASSUME ServerAssumption ==
    /\ Srv \notin Conns /\ None \notin Evts
    /\ MaxLines \in Nat \ {0}
    /\ TrCloses \in BOOLEAN
    /\ Env \subseteq {"quiet", "slow", "reset", "signal"}

VARIABLES
    live,     \* connections allocated and not yet freed
    sock,     \* conn->sock
    trClose,  \* conn->tr.on_close is set
    up, down, \* the streams rx -> tr.sink and tr.source -> tx
    peer,     \* the other end and the kernel's buffers (external)
    reg,      \* the events registered with the poller
    revents,  \* the events reported and not yet delivered
    at,       \* the event whose on_event callback is running
    hupped,   \* the revents of that event had POLLHUP
    on,       \* the connection that calls is about
    calls,    \* the code that is still to run, innermost call first
    queue,    \* the list of pmcrcu.c, connections only
    phase,    \* where main() is
    exit,     \* should_exit
    failed    \* why the program stopped, or "none"

ends == <<sock, trClose, up, down>>
loop == <<at, hupped, phase, exit>>
poller == <<reg, revents>>
vars == <<ends, loop, poller, live, peer, on, calls, queue, failed>>

NoBuffer == -1  \* stream->buf.s is NULL
Stream == [src : BOOLEAN, snk : BOOLEAN,   \* the source, the sink is attached
           state : -1 .. 0,
           fin : BOOLEAN, full : BOOLEAN,
           buf : -1 .. 2 * MaxLines + 1]                    \* lines in the buffer, or NoBuffer
Sock == [fd : BOOLEAN, rd : BOOLEAN, wr : BOOLEAN, onClose : BOOLEAN,
         events : SUBSET Bits]

NewStream == [src |-> TRUE, snk |-> TRUE, state |-> 0,
              fin |-> FALSE, full |-> FALSE, buf |-> NoBuffer]
NewSock == [fd |-> TRUE, rd |-> TRUE, wr |-> TRUE, onClose |-> TRUE,
            events |-> {"IN", "RDHUP"}]

\* The contents of memory that is not allocated do not matter.
Junk == [NewStream EXCEPT !.src = FALSE, !.snk = FALSE]
JunkSock == [fd |-> FALSE, rd |-> FALSE, wr |-> FALSE, onClose |-> FALSE, events |-> {}]
NoPeer == [lines |-> 0, eof |-> FALSE, rst |-> FALSE, room |-> TRUE]

Init ==
    /\ live = {}
    /\ sock = [c \in Conns |-> JunkSock]
    /\ trClose = [c \in Conns |-> FALSE]
    /\ up = [c \in Conns |-> Junk] /\ down = [c \in Conns |-> Junk]
    /\ peer = [c \in Conns |-> NoPeer]
    /\ reg = {} /\ revents = [e \in Evts |-> {}]
    /\ at = None /\ hupped = FALSE
    /\ on \in Conns /\ calls = <<>> /\ queue = <<>>
    /\ phase = "start" /\ exit = FALSE /\ failed = "none"

-----------------------------------------------------------------------------
(* The C stack *)

\* The code that runs for a connection, but for the end of it, and the end.
Plain == {"detach_rx", "rx_detached", "detach_tx", "detach_tr_sink", "detach_tr_source",
          "tr_source_detached", "tr_consume", "tr_provide", "tr_close", "flow_rx", "flow_tx",
          "on_rx", "on_rx_end", "on_tx", "close_if_done", "sock_close", "closed"}
Endings == {"conn_dtor", "free"}
Lasting == Plain \cup {"call_rcu"}
Functions == Lasting \cup Endings

Calling(fn) == failed = "none" /\ calls # <<>> /\ calls[1] = fn
Call(cs) == calls' = cs \o Tail(calls)
Abort(why) == failed' = why /\ UNCHANGED <<ends, loop, poller, live, peer, on, calls, queue>>
If(condition, cs) == IF condition THEN cs ELSE <<>>

\* A step that only changes the connection and says what to call next.
Local(s, u, d, cs) ==
    /\ sock' = [sock EXCEPT ![on] = s]
    /\ up' = [up EXCEPT ![on] = u]
    /\ down' = [down EXCEPT ![on] = d]
    /\ Call(cs)
    /\ UNCHANGED <<loop, live, on, failed>>

Quiet == UNCHANGED <<trClose, peer, poller, queue>>

S == sock[on]
U == up[on]
D == down[on]

Want(s, bits) == [s EXCEPT !.events = @ \cup bits]
Ignore(s, bits) == [s EXCEPT !.events = @ \ bits]

-----------------------------------------------------------------------------
(* stream.c, as far as buffers and flags go *)

Empty(st) == st.buf <= 0
Lines(st) == IF Empty(st) THEN 0 ELSE st.buf

\* (mutant) FULL does not stop a source.
MoreAnyway(st) == st.state = 0

\* aem_stream_should_provide: the answer, and the FULL flag it clears.
ShouldProvide(st) == st.state = 0 /\ (Empty(st) \/ ~st.full)
Asked(st) == IF st.state = 0 /\ Empty(st) THEN [st EXCEPT !.full = FALSE] ELSE st

\* aem_stream_consume, which does nothing without a sink.
ConsumeUp == If(U.snk, <<"tr_consume">>)
ConsumeDown == If(D.snk, <<"on_tx">>)

\* The beginning and the end of aem_stream_source_detach.
Finished(st) == [st EXCEPT !.fin = TRUE, !.full = FALSE]
Sourceless(st) == [st EXCEPT !.src = FALSE]

\* aem_stream_sink_detach.
Sinkless(st) == [st EXCEPT !.snk = FALSE, !.fin = TRUE]

DetachRx ==
    /\ Calling("detach_rx") /\ Quiet
    /\ IF U.src THEN Local(S, Finished(U), D, ConsumeUp \o <<"rx_detached">>)
       ELSE Local(S, U, D, <<>>)

RxDetached ==
    /\ Calling("rx_detached")
    /\ IF U.state # 0 THEN Abort("busy")
       ELSE Local(S, Sourceless(U), D, <<>>) /\ Quiet

DetachTx ==
    /\ Calling("detach_tx")
    /\ IF D.snk /\ D.state # 0 THEN Abort("busy")
       ELSE Local(S, U, IF D.snk THEN Sinkless(D) ELSE D, <<>>) /\ Quiet

DetachTrSink ==
    /\ Calling("detach_tr_sink")
    /\ IF U.snk /\ U.state # 0 THEN Abort("busy")
       ELSE Local(S, IF U.snk THEN Sinkless(U) ELSE U, D, <<>>) /\ Quiet

DetachTrSource ==
    /\ Calling("detach_tr_source") /\ Quiet
    /\ IF D.src THEN Local(S, U, Finished(D), ConsumeDown \o <<"tr_source_detached">>)
       ELSE Local(S, U, D, <<>>)

TrSourceDetached ==
    /\ Calling("tr_source_detached")
    /\ IF D.state # 0 THEN Abort("busy")
       ELSE Local(S, U, Sourceless(D), <<>>) /\ Quiet

-----------------------------------------------------------------------------
(* streams.c: the transducer *)

\* process_data takes whole lines, and the rest when no more will come.  A
\* chunk may end within a line, except the first one of a peer that is not quiet.
Left ==
    IF U.fin THEN {0}
    ELSE IF "quiet" \notin Env /\ D.buf = NoBuffer THEN {0}
    ELSE {0, 1} \cap 0 .. Lines(U)

Appended(st, n) == IF n = 0 THEN st ELSE [st EXCEPT !.buf = Lines(st) + n]

\* aem_stream_transducer_consume: the lines that go from one stream to the other.
Transduce ==
    \E left \in Left :
        LET moved == Appended(Asked(D), Lines(U) - left)
            ends_ == (U.fin \/ D.fin) /\ left = 0
        IN Local(S, [U EXCEPT !.full = FALSE, !.buf = left],
                 [moved EXCEPT !.fin = @ \/ ends_], ConsumeDown)

TrConsume ==
    /\ Calling("tr_consume") /\ Quiet
    /\ IF ~D.src THEN Local(S, U, D, <<"tr_close">>)
       ELSE IF ~ShouldProvide(D) THEN Local(S, [U EXCEPT !.full = TRUE], D, ConsumeDown)
       ELSE IF U.state < 0 \/ U.buf = NoBuffer
       THEN Local(S, [U EXCEPT !.full = FALSE, !.state = -1], Asked(D), ConsumeDown)
       ELSE Transduce

\* aem_stream_transducer_provide: aem_stream_propagate_up.
TrProvide ==
    /\ Calling("tr_provide")
    /\ IF ~U.snk THEN Abort("null")
       ELSE /\ Quiet
            /\ Local(S, [U EXCEPT !.full = ~ShouldProvide(D)], Asked(D),
                     If(U.src, <<"on_rx">>))

\* (mutant) conn_free forgets call_rcu.
ConnForgotten == <<"detach_tr_sink", "detach_tr_source", "sock_close">>

\* conn_free.
ConnFree == <<"detach_tr_sink", "detach_tr_source", "sock_close", "call_rcu">>

\* aem_stream_transducer_close: on_close is never called more than once.
TrClose ==
    /\ Calling("tr_close")
    /\ trClose' = [trClose EXCEPT ![on] = FALSE]
    /\ Local(S, U, D, If(trClose[on], ConnFree))
    /\ UNCHANGED <<peer, poller, queue>>

-----------------------------------------------------------------------------
(* net.c: a connection *)

FlowRx ==
    /\ Calling("flow_rx") /\ Quiet
    /\ IF U.src THEN Local(S, U, D, <<"on_rx">>)
       ELSE Local(Ignore(S, {"IN"}), U, D, <<>>)

FlowTx ==
    /\ Calling("flow_tx") /\ Quiet
    /\ IF D.snk THEN Local(S, U, D, If(D.src, <<"tr_provide">>))
       ELSE Local(Ignore(S, {"OUT"}), U, D, <<>>)

\* aem_net_on_rx between _begin and _end: recv gets lines, an error, the end of
\* the input or EAGAIN.  An error may or may not close the read side at once.
Received(s, u) ==
    LET room == [u EXCEPT !.buf = Lines(u)]
        cs == ConsumeUp \o <<"on_rx_end">>
    IN
    /\ UNCHANGED <<trClose, poller, queue>>
    /\ IF peer[on].rst
       THEN /\ \E open \in BOOLEAN : Local([s EXCEPT !.rd = open], [room EXCEPT !.fin = TRUE], D, cs)
            /\ UNCHANGED peer
       ELSE IF peer[on].lines > 0
       THEN \E n \in 1 .. peer[on].lines :
              /\ peer' = [peer EXCEPT ![on].lines = @ - n]
              /\ Local(s, [room EXCEPT !.buf = @ + n], D, cs)
       ELSE IF peer[on].eof
       THEN Local(s, [room EXCEPT !.fin = TRUE], D, cs) /\ UNCHANGED peer
       ELSE Local(Want(s, {"IN"}), room, D, cs) /\ UNCHANGED peer

OnRx ==
    LET s == IF U.full THEN Ignore(S, {"IN"}) ELSE Want(S, {"IN"}) IN
    /\ Calling("on_rx")
    /\ IF ~S.rd THEN Local(S, U, D, <<>>) /\ Quiet
       ELSE IF ~ShouldProvide(U) THEN Local(s, U, D, ConsumeUp) /\ Quiet
       ELSE Received(s, Asked(U))

OnRxEnd ==
    /\ Calling("on_rx_end") /\ Quiet
    /\ IF U.fin
       THEN Local([Ignore(S, {"IN", "RDHUP"}) EXCEPT !.rd = FALSE], U, D,
                  <<"detach_rx", "close_if_done">>)
       ELSE Local(S, U, D, <<>>)

\* (mutant) FIN closes the write side at once.
CutShort(d) == d.fin

Over(d) == d.fin /\ (d.state < 0 \/ Empty(d))

\* aem_net_on_tx from the label cancel on.
Sent(s, d) ==
    IF Over(d)
    THEN Local([Ignore(s, {"OUT"}) EXCEPT !.wr = FALSE], U, d, <<"detach_tx", "close_if_done">>)
    ELSE Local(s, U, d, <<>>)

\* (mutant) nobody waits for room.
JustFull(s) == s

\* Register for POLLOUT if we couldn't send everything.
WaitForRoom(s) == Want(s, {"OUT"})

\* send() fails: EPIPE and ECONNRESET close the write side, other errors only
\* set FIN; the lines stay in the buffer.
SendFails ==
    /\ Quiet
    /\ \E open \in IF S.fd THEN {FALSE, S.wr} ELSE {S.wr} :
          LET s == [S EXCEPT !.wr = open]
          IN Sent(IF D.full THEN WaitForRoom(s) ELSE s, [D EXCEPT !.fin = TRUE])

\* (mutant) aem_stream_consume_end is not called when there was nothing to send.
StaysOpen(d) == [d EXCEPT !.state = -1]

\* _begin and _end around nothing.
NothingSent(d) == d

\* A peer that is slow lets the kernel's buffer fill up, with the last of the
\* lines or before it; then send() fails with EAGAIN.
Sends ==
    /\ \E room \in IF "slow" \in Env THEN BOOLEAN ELSE {TRUE} :
          peer' = [peer EXCEPT ![on].room = room]
    /\ UNCHANGED <<trClose, poller, queue>>

SendsAll ==
    /\ peer[on].room
    /\ Sends
    /\ Sent(S, [D EXCEPT !.buf = 0, !.full = FALSE])

SendsPart ==
    /\ IF peer[on].room THEN Sends /\ ~peer'[on].room ELSE Quiet
    /\ \E n \in IF peer[on].room THEN 1 .. D.buf - 1 ELSE {0} :
          Sent(WaitForRoom(S), [D EXCEPT !.buf = @ - n, !.full = TRUE])

OnTx ==
    /\ Calling("on_tx")
    /\ IF D.state < 0 THEN Quiet /\ Sent(S, D)
       ELSE IF D.buf = NoBuffer THEN Quiet /\ Sent(S, [D EXCEPT !.state = -1])
       ELSE IF D.buf = 0 THEN Quiet /\ Sent(Ignore(S, {"OUT"}), NothingSent(D))
       ELSE IF ~S.fd \/ peer[on].rst THEN SendFails
       ELSE SendsAll \/ SendsPart

\* (mutant) each side leaves the socket to the other.
LeftToTheOther(s) == FALSE

Done(s) == ~s.rd /\ ~s.wr

CloseIfDone ==
    /\ Calling("close_if_done") /\ Quiet
    /\ Local(S, U, D, If(Done(S), <<"sock_close">>))

\* aem_poll_del: the event that takes over the slot loses its report.
MovesLast(lost) == \A x, y \in lost : x = y

Deregister(e) ==
    /\ reg' = reg \ {e}
    /\ \E lost \in SUBSET Evts :
          /\ MovesLast(lost)
          /\ revents' = [x \in Evts |-> IF x = e \/ x \in lost THEN {} ELSE revents[x]]

\* (mutant) the event stays with the poller.
NeverListed(e) == FALSE

\* if (sock->evt.i >= 0).
Listed(e) == e \in reg

Shut(s) == [s EXCEPT !.fd = FALSE, !.rd = FALSE, !.wr = FALSE]

\* aem_net_sock_close, up to the call of on_close.
SockClose ==
    /\ Calling("sock_close")
    /\ IF ~S.fd /\ (S.rd \/ S.wr) THEN Abort("open")
       ELSE /\ IF Listed(on) THEN Deregister(on) ELSE UNCHANGED poller
            /\ Local(Shut(S), U, D,
                     If(S.fd /\ S.onClose, ConnFree \o <<"closed">>))
            /\ UNCHANGED <<trClose, peer, queue>>

\* ... and after it.
Closed ==
    /\ Calling("closed") /\ Quiet
    /\ Local([S EXCEPT !.onClose = FALSE], U, D, <<>>)

-----------------------------------------------------------------------------
(* test/server.c and pmcrcu.c: the end of a connection *)

InQueue(c) == \E k \in 1 .. Len(queue) : queue[k] = c

CallRcu ==
    /\ Calling("call_rcu")
    /\ IF InQueue(on) THEN Abort("enqueued")
       ELSE /\ queue' = <<on>> \o queue
            /\ Local(S, U, D, <<>>)
            /\ UNCHANGED <<trClose, peer, poller>>

\* conn_free_rcu, called for the head of the list.
Dtor == <<"tr_close", "detach_tr_sink", "detach_tr_source", "conn_dtor">>

Barrier ==
    /\ failed = "none" /\ phase = "barrier" /\ calls = <<>>
    /\ queue # <<>>
    /\ IF queue[1] \notin live THEN Abort("freed")
       ELSE /\ on' = queue[1] /\ queue' = Tail(queue)
            /\ calls' = Dtor
            /\ UNCHANGED <<ends, loop, poller, live, peer, failed>>

Fin(st) == [st EXCEPT !.fin = TRUE]

ConnDtor ==
    /\ Calling("conn_dtor") /\ Quiet
    /\ Local(S, IF U.src THEN Fin(U) ELSE U, IF D.snk THEN Fin(D) ELSE D,
             <<"detach_rx", "detach_tx", "sock_close", "free">>)

Free ==
    /\ Calling("free")
    /\ live' = live \ {on}
    /\ sock' = [sock EXCEPT ![on] = JunkSock]
    /\ up' = [up EXCEPT ![on] = Junk] /\ down' = [down EXCEPT ![on] = Junk]
    /\ trClose' = [trClose EXCEPT ![on] = FALSE]
    /\ peer' = [peer EXCEPT ![on] = NoPeer]
    /\ Call(<<>>)
    /\ UNCHANGED <<loop, poller, on, queue, failed>>

-----------------------------------------------------------------------------
(* main() and the event loop *)

\* What the kernel has to report of a connection.
Pending(c) ==
    LET p == peer[c]
        over == p.eof \/ p.rst
    IN {b \in sock[c].events : \/ b = "IN" /\ (p.lines > 0 \/ over)
                               \/ b = "RDHUP" /\ over
                               \/ b = "OUT" /\ (p.room \/ p.rst)}
       \cup {b \in {"HUP"} : p.rst \/ (p.eof /\ ~sock[c].wr)}

Idle == failed = "none" /\ calls = <<>> /\ at = None

\* aem_net_listen.
Listen ==
    /\ Idle /\ phase = "start"
    /\ reg' = {Srv} /\ phase' = "poll"
    /\ UNCHANGED <<ends, revents, at, hupped, exit, live, peer, on, calls, queue, failed>>

\* aem_poll_wait sleeps until there is something to report.
Poll ==
    /\ Idle /\ phase = "poll"
    /\ \E knock \in SUBSET (reg \cap {Srv}) :
          revents' = [e \in Evts |-> IF e \in knock THEN {"IN"}
                                     ELSE IF e \in reg \ {Srv} THEN Pending(e) ELSE {}]
    /\ \E e \in reg : revents'[e] # {}
    /\ phase' = "process"
    /\ UNCHANGED <<ends, reg, at, hupped, exit, live, peer, on, calls, queue, failed>>

\* aem_poll_process calls on_event.
Deliver(e) ==
    /\ Idle /\ phase \in {"process", "hup"}
    /\ e \in reg /\ revents[e] # {}
    /\ at' = e /\ hupped' = ("HUP" \in revents[e])
    /\ revents' = [revents EXCEPT ![e] = {}]
    /\ UNCHANGED <<trClose, reg, phase, exit, live, peer, queue, failed>>

\* aem_net_on_conn.
OnConn(c) ==
    LET bits == revents[c] IN
    /\ Deliver(c)
    /\ on' = c
    /\ calls' = If(bits \cap {"IN", "RDHUP", "HUP"} # {}, <<"flow_rx">>)
                \o If(bits \cap {"OUT", "HUP"} # {}, <<"flow_tx">>)
    /\ IF "HUP" \in bits
       THEN /\ sock' = [sock EXCEPT ![c].wr = FALSE]
            /\ up' = [up EXCEPT ![c].fin = @ \/ up[c].src]
            /\ down' = [down EXCEPT ![c].fin = @ \/ down[c].snk]
       ELSE UNCHANGED <<sock, up, down>>

OnAccept == Deliver(Srv) /\ UNCHANGED <<sock, up, down, on, calls>>

\* One turn of the loop in aem_net_on_accept, with conn_new and conn_setup.
Accept(c) ==
    /\ failed = "none" /\ calls = <<>> /\ at = Srv /\ ~hupped
    /\ c \notin live
    /\ live' = live \cup {c}
    /\ sock' = [sock EXCEPT ![c] = NewSock]
    /\ trClose' = [trClose EXCEPT ![c] = TrCloses]
    /\ up' = [up EXCEPT ![c] = NewStream] /\ down' = [down EXCEPT ![c] = NewStream]
    /\ \E n \in (IF "quiet" \in Env THEN 0 ELSE 1) .. MaxLines :
          peer' = [peer EXCEPT ![c] = [NoPeer EXCEPT !.lines = n]]
    /\ reg' = reg \cup {c}
    /\ on' = c /\ calls' = <<"flow_tx">>
    /\ UNCHANGED <<loop, revents, queue, failed>>

\* The callback has returned.  aem_net_on_accept closes a listener that was hung
\* up; aem_poll_process takes out an event that is registered after POLLHUP.
Return ==
    /\ failed = "none" /\ calls = <<>> /\ at # None
    /\ IF hupped /\ at \in reg THEN Deregister(at) ELSE UNCHANGED poller
    /\ at' = None /\ hupped' = FALSE
    /\ UNCHANGED <<ends, phase, exit, live, peer, on, calls, queue, failed>>

Processed == \A e \in reg : revents[e] = {}

\* aem_poll_process returns.
Finish ==
    /\ Idle /\ phase \in {"process", "hup"} /\ Processed
    /\ phase' = IF phase = "process" THEN "check" ELSE "barrier"
    /\ UNCHANGED <<ends, poller, at, hupped, exit, live, peer, on, calls, queue, failed>>

\* if (should_exit) aem_poll_hup_all(&poller); synchronize_rcu();
HupAll ==
    /\ Idle /\ phase = "check"
    /\ phase' = IF exit THEN "hup" ELSE "barrier"
    /\ revents' = [e \in Evts |-> IF exit /\ e \in reg THEN {"HUP"} ELSE {}]
    /\ UNCHANGED <<ends, reg, at, hupped, exit, live, peer, on, calls, queue, failed>>

NextRound ==
    /\ Idle /\ phase = "barrier" /\ queue = <<>>
    /\ phase' = IF reg = {} THEN "done" ELSE "poll"
    /\ UNCHANGED <<ends, poller, at, hupped, exit, live, peer, on, calls, queue, failed>>

-----------------------------------------------------------------------------
(* The world *)

PeerDoes(c) ==
    /\ failed = "none" /\ sock[c].fd
    /\ UNCHANGED <<ends, loop, poller, live, on, calls, queue, failed>>

PeerSends(c) ==
    /\ PeerDoes(c)
    /\ ~peer[c].eof /\ ~peer[c].rst /\ peer[c].lines < MaxLines
    /\ peer' = [peer EXCEPT ![c].lines = @ + 1]

PeerFinishes(c) ==
    /\ PeerDoes(c)
    /\ ~peer[c].eof /\ ~peer[c].rst
    /\ peer' = [peer EXCEPT ![c].eof = TRUE]

PeerReads(c) ==
    /\ PeerDoes(c)
    /\ ~peer[c].room
    /\ peer' = [peer EXCEPT ![c].room = TRUE]

PeerResets(c) ==
    /\ "reset" \in Env
    /\ PeerDoes(c)
    /\ ~peer[c].rst
    /\ "quiet" \in Env \/ down[c].buf # NoBuffer
    /\ peer' = [peer EXCEPT ![c].rst = TRUE, ![c].lines = 0]

\* on_sigint, at any moment; it also ends a poll(2) that is asleep.
Signal ==
    /\ "signal" \in Env /\ failed = "none" /\ phase # "done"
    /\ exit' = TRUE
    /\ phase' = IF phase = "poll" THEN "process" ELSE phase
    /\ UNCHANGED <<ends, poller, at, hupped, live, peer, on, calls, queue, failed>>

-----------------------------------------------------------------------------
Step ==
    \/ DetachRx \/ RxDetached \/ DetachTx \/ DetachTrSink \/ DetachTrSource \/ TrSourceDetached
    \/ TrConsume \/ TrProvide \/ TrClose
    \/ FlowRx \/ FlowTx \/ OnRx \/ OnRxEnd \/ OnTx \/ CloseIfDone \/ SockClose \/ Closed
    \/ CallRcu \/ Barrier \/ ConnDtor \/ Free

Main ==
    \/ Listen \/ Poll \/ OnAccept \/ Return \/ Finish \/ HupAll \/ NextRound
    \/ \E c \in Conns : OnConn(c) \/ Accept(c)

World ==
    \/ \E c \in Conns : PeerSends(c) \/ PeerFinishes(c) \/ PeerReads(c) \/ PeerResets(c)
    \/ Signal

Next == Step \/ Main \/ World

Spec == Init /\ [][Next]_vars

\* The program goes on when it can, accept(2) and the peers' sends apart;
\* a peer reads what is sent to it.
Fair ==
    /\ WF_vars(Step)
    /\ WF_vars(Poll) /\ WF_vars(OnAccept) /\ WF_vars(Return)
    /\ WF_vars(Finish) /\ WF_vars(HupAll) /\ WF_vars(NextRound)
    /\ \A c \in Conns : WF_vars(OnConn(c)) /\ WF_vars(PeerReads(c))

FairSpec == Spec /\ Fair

-----------------------------------------------------------------------------
(* Properties *)

\* Type correctness; backpressure bounds the buffers: a source provides nothing
\* to a full stream.
TypeOK ==
    /\ live \in SUBSET Conns
    /\ sock \in [Conns -> Sock]
    /\ trClose \in [Conns -> BOOLEAN]
    /\ up \in [Conns -> Stream] /\ down \in [Conns -> Stream]
    /\ peer \in [Conns -> [lines : 0 .. MaxLines, eof : BOOLEAN, rst : BOOLEAN, room : BOOLEAN]]
    /\ reg \in SUBSET Evts /\ revents \in [Evts -> SUBSET Bits]
    /\ at \in Evts \cup {None} /\ hupped \in BOOLEAN
    /\ on \in Conns /\ calls \in Seq(Functions) /\ queue \in Seq(Conns)
    /\ phase \in {"start", "poll", "process", "check", "hup", "barrier", "done"}
    /\ exit \in BOOLEAN
    /\ failed \in {"none", "busy", "null", "open", "enqueued", "freed"}

\* The assertions of net.c, stream.c, streams.c and pmcrcu.c on the way of a connection
\* hold, whatever the peer does in the middle of a callback.
AssertionsHold == failed = "none"

\* A connection is freed once: nothing still runs for it, waits on the list of
\* pmcrcu.c or is registered with the poller when its memory is gone.
FreedOnce ==
    \A c \in Conns : c \in reg \/ InQueue(c) \/ (on = c /\ calls # <<>>) => c \in live

\* Between two callbacks every connection is either registered, with its socket
\* open, or closed and about to be freed: none is leaked. After POLLHUP, which a reset and
\* the end of the program bring, the poller may have taken out an event whose owner stays.
Accounted ==
    calls = <<>> /\ ~exit => \A c \in live :
        peer[c].rst \/ (c \in reg /\ sock[c].fd) # InQueue(c)

\* Every _begin has had its _end when the callbacks have returned: no stream is
\* left open, which would make all later calls on it give up.
StreamsIdle ==
    calls = <<>> => \A c \in live : up[c].state = 0 /\ down[c].state = 0

\* A connection with lines to send waits for POLLOUT, and one that has nothing in
\* its streams waits for one or the other: POLLOUT makes it listen again.
WakesUp ==
    calls = <<>> => \A c \in reg \ {Srv} : ~peer[c].rst /\ ~exit =>
        /\ down[c].buf > 0 => "OUT" \in sock[c].events
        /\ sock[c].rd /\ Empty(up[c]) /\ Empty(down[c]) => {"IN", "OUT"} \cap sock[c].events # {}

\* Callbacks leave every connection as they must: no assertion has failed on the way, and no
\* stream is left open.
CallsEnd == AssertionsHold /\ StreamsIdle

\* Between two callbacks no connection is forgotten: it is registered and waits for what it needs.
Attended == Accounted /\ WakesUp

\* A connection that its peer has ended is not freed with lines in its streams:
\* everything that was received has been answered.
WholeReply ==
    [][\A c \in live \ live' : ~peer[c].rst /\ ~exit => Empty(up[c]) /\ Empty(down[c])]_vars

\* A connection whose peer has ended it is freed in the end, if the peer never let the
\* kernel's buffer fill up. Otherwise lines that did not fit are never sent: POLLOUT
\* only flows the stream, and on_tx is not reached once the source of the input is gone.
EofFrees == \A c \in Conns :
    []peer[c].room => (peer[c].eof ~> c \notin live \/ peer[c].rst \/ exit)

\* Lines that wait for a slow peer are sent in the end, as long as it goes on
\* with its side of the conversation.
Answered == \A c \in Conns :
    down[c].buf > 0 ~> Empty(down[c]) \/ peer[c].eof \/ peer[c].rst \/ exit

\* "Valid scenario in which !(evt->events & (POLLIN | POLLOUT)): - Reading side is
\* closed, - Writing side is open but currently has nothing to send." (net.c:462)
NeverDeaf ==
    calls = <<>> => \A c \in reg \ {Srv} :
        sock[c].events \cap {"IN", "OUT"} = {} => ~sock[c].rd
=============================================================================
