---------------------------- MODULE AemServerProofs ----------------------------
(***************************************************************************)
(* Proofs about the connections of AemServer, for any number of them, any  *)
(* bound on the lines of a peer, and whatever the peers do.                *)
(*                                                                         *)
(* What a callback may rely on is said by what the C stack still has to do *)
(* after it.  So the invariants speak of the places in calls where some    *)
(* functions may stand, and a step is seen as what it does to calls: it    *)
(* takes the first function off and puts the ones that it calls in front.  *)
(***************************************************************************)
EXTENDS AemServer, TLAPS

-----------------------------------------------------------------------------
(* Sequences of calls *)

\* Some call of a is one of X.
Occurs(X, a) == \E k \in 1 .. Len(a) : a[k] \in X

\* Nothing is left to do after a call that is one of X.
Last(X, a) == \A k \in 1 .. Len(a) : a[k] \in X => k = Len(a)

\* No two calls of a are of X.
Once(X, a) == \A j, k \in 1 .. Len(a) : a[j] \in X /\ a[k] \in X => j = k

\* Each call of x is followed by one of y.
Followed(x, y, a) == \A k \in 1 .. Len(a) : a[k] = x => k < Len(a) /\ a[k + 1] = y

\* Each call of y comes after one of x.
Preceded(y, x, a) == \A k \in 1 .. Len(a) : a[k] = y => k > 1 /\ a[k - 1] = x

\* What becomes of the places of a sequence of calls when its first one is
\* replaced by those that it makes.
LEMMA Pushed ==
  ASSUME NEW F, NEW a \in Seq(F), a # <<>>, NEW cs \in Seq(F), NEW b, b = cs \o Tail(a)
  PROVE  /\ b \in Seq(F)
         /\ Len(a) \in Nat \ {0} /\ Len(cs) \in Nat
         /\ Len(b) = Len(cs) + Len(a) - 1
         /\ \A k \in 1 .. Len(b) :
              \/ k <= Len(cs) /\ k \in 1 .. Len(cs) /\ b[k] = cs[k]
              \/ /\ k > Len(cs) /\ k - Len(cs) + 1 \in 1 .. Len(a) /\ k - Len(cs) + 1 # 1
                 /\ b[k] = a[k - Len(cs) + 1]
         /\ \A k \in 1 .. Len(cs) : k \in 1 .. Len(b) /\ b[k] = cs[k]
         /\ \A j \in 1 .. Len(a) : j # 1 =>
              j - 1 + Len(cs) \in 1 .. Len(b) /\ b[j - 1 + Len(cs)] = a[j]
  <1> DEFINE t == Tail(a)
  <1>1. t \in Seq(F) /\ Len(t) = Len(a) - 1 /\ Len(a) \in Nat /\ Len(a) > 0 /\ Len(cs) \in Nat
    OBVIOUS
  <1>2. \A k \in 1 .. Len(t) : t[k] = a[k + 1]
    OBVIOUS
  <1> HIDE DEF t
  <1>3. b = cs \o t
    BY DEF t
  <1>4. b \in Seq(F) /\ Len(b) = Len(cs) + Len(t)
    BY <1>1, <1>3
  <1>5. \A k \in 1 .. Len(b) : b[k] = IF k <= Len(cs) THEN cs[k] ELSE t[k - Len(cs)]
    BY <1>1, <1>3, <1>4
  <1>6. ASSUME NEW k \in 1 .. Len(b)
        PROVE  \/ k <= Len(cs) /\ k \in 1 .. Len(cs) /\ b[k] = cs[k]
               \/ /\ k > Len(cs) /\ k - Len(cs) + 1 \in 1 .. Len(a) /\ k - Len(cs) + 1 # 1
                  /\ b[k] = a[k - Len(cs) + 1]
    <2>1. CASE k <= Len(cs)
      BY <2>1, <1>1, <1>4, <1>5
    <2>2. CASE k > Len(cs)
      <3>1. k - Len(cs) \in 1 .. Len(t)
        BY <2>2, <1>1, <1>4
      <3>2. t[k - Len(cs)] = a[k - Len(cs) + 1]
        BY <3>1, <1>2
      <3>3. b[k] = t[k - Len(cs)]
        BY <2>2, <1>1, <1>4, <1>5
      <3>4. k - Len(cs) + 1 \in 1 .. Len(a) /\ k - Len(cs) + 1 # 1
        BY <3>1, <1>1
      <3> QED
        BY <2>2, <3>2, <3>3, <3>4
    <2> QED
      BY <2>1, <2>2, <1>1, <1>4
  <1>7. \A k \in 1 .. Len(cs) : k \in 1 .. Len(b) /\ b[k] = cs[k]
    BY <1>1, <1>4, <1>5
  <1>8. ASSUME NEW j \in 1 .. Len(a), j # 1
        PROVE  j - 1 + Len(cs) \in 1 .. Len(b) /\ b[j - 1 + Len(cs)] = a[j]
    <2>1. j - 1 \in 1 .. Len(t) /\ t[j - 1] = a[j]
      BY <1>1, <1>2, <1>8
    <2>2. j - 1 + Len(cs) \in 1 .. Len(b) /\ ~(j - 1 + Len(cs) <= Len(cs))
      BY <2>1, <1>1, <1>4
    <2>3. PICK i : i = j - 1 + Len(cs)
      OBVIOUS
    <2>4. b[i] = t[i - Len(cs)]
      BY <2>2, <2>3, <1>5
    <2>5. i - Len(cs) = j - 1
      BY <2>1, <2>3, <1>1
    <2> QED
      BY <2>1, <2>2, <2>3, <2>4, <2>5
  <1> QED
    BY <1>1, <1>4, <1>6, <1>7, <1>8

\* The places of two sequences of calls, one after the other.
LEMMA Joined ==
  ASSUME NEW F, NEW a \in Seq(F), NEW d \in Seq(F), NEW b, b = a \o d
  PROVE  /\ b \in Seq(F)
         /\ Len(a) \in Nat /\ Len(d) \in Nat /\ Len(b) = Len(a) + Len(d)
         /\ \A k \in 1 .. Len(b) :
              \/ k \in 1 .. Len(a) /\ b[k] = a[k]
              \/ k > Len(a) /\ k - Len(a) \in 1 .. Len(d) /\ b[k] = d[k - Len(a)]
         /\ \A k \in 1 .. Len(a) : k \in 1 .. Len(b) /\ b[k] = a[k]
  <1>1. b \in Seq(F) /\ Len(a) \in Nat /\ Len(d) \in Nat /\ Len(b) = Len(a) + Len(d)
    OBVIOUS
  <1>2. \A k \in 1 .. Len(b) : b[k] = IF k <= Len(a) THEN a[k] ELSE d[k - Len(a)]
    BY <1>1
  <1> QED
    BY <1>1, <1>2

\* A call that nothing follows is the only one when it comes first.
LEMMA LastAlone ==
  ASSUME NEW F, NEW a \in Seq(F), a # <<>>, NEW X, Last(X, a), a[1] \in X
  PROVE  Tail(a) = <<>> /\ Len(a) = 1
  <1>1. 1 \in 1 .. Len(a)
    OBVIOUS
  <1>2. Len(a) = 1
    BY <1>1 DEF Last
  <1>3. PICK t : t = Tail(a)
    OBVIOUS
  <1>4. t \in Seq(F) /\ Len(t) = 0
    BY <1>2, <1>3
  <1>5. t = <<>>
    BY <1>4
  <1> QED
    BY <1>2, <1>3, <1>5

\* Calls that are not of X do not come after one of X that must be the last.
LEMMA LastPushed ==
  ASSUME NEW F, NEW a \in Seq(F), a # <<>>, NEW P, NEW cs \in Seq(P), P \subseteq F, NEW X, P \cap X = {},
         Last(X, a), NEW b, b = cs \o Tail(a)
  PROVE  Last(X, b)
  <1>0. cs \in Seq(F) /\ \A k \in 1 .. Len(cs) : cs[k] \notin X
    OBVIOUS
  <1>1. SUFFICES ASSUME NEW k \in 1 .. Len(b), b[k] \in X
                 PROVE  k = Len(b)
    BY DEF Last
  <1>2. k > Len(cs) /\ k - Len(cs) + 1 \in 1 .. Len(a) /\ b[k] = a[k - Len(cs) + 1]
    BY <1>0, <1>1, Pushed
  <1>3. k - Len(cs) + 1 = Len(a)
    BY <1>1, <1>2 DEF Last
  <1>4. Len(b) = Len(cs) + Len(a) - 1 /\ Len(cs) \in Nat /\ Len(a) \in Nat
    BY <1>0, Pushed
  <1> QED
    BY <1>3, <1>4

\* Of calls that are made once there is at most one more.
LEMMA OncePushed ==
  ASSUME NEW F, NEW a \in Seq(F), a # <<>>, NEW P, NEW cs \in Seq(P), P \subseteq F, NEW X, P \cap X = {},
         Once(X, a), NEW b, b = cs \o Tail(a)
  PROVE  Once(X, b)
  <1>0. cs \in Seq(F) /\ \A k \in 1 .. Len(cs) : cs[k] \notin X
    OBVIOUS
  <1>1. SUFFICES ASSUME NEW j \in 1 .. Len(b), NEW k \in 1 .. Len(b), b[j] \in X, b[k] \in X
                 PROVE  j = k
    BY DEF Once
  <1>2. k - Len(cs) + 1 \in 1 .. Len(a) /\ b[k] = a[k - Len(cs) + 1]
    BY <1>0, <1>1, Pushed
  <1>3. j - Len(cs) + 1 \in 1 .. Len(a) /\ b[j] = a[j - Len(cs) + 1]
    BY <1>0, <1>1, Pushed
  <1>4. j - Len(cs) + 1 = k - Len(cs) + 1
    BY <1>1, <1>2, <1>3 DEF Once
  <1>5. Len(cs) \in Nat
    BY <1>0
  <1> QED
    BY <1>4, <1>5

\* Once one of X has been called, no other is waiting.
LEMMA OnceGone ==
  ASSUME NEW F, NEW a \in Seq(F), a # <<>>, NEW P, NEW cs \in Seq(P), P \subseteq F, NEW X, P \cap X = {},
         Once(X, a), a[1] \in X, NEW b, b = cs \o Tail(a)
  PROVE  ~Occurs(X, b)
  <1>0. cs \in Seq(F) /\ \A k \in 1 .. Len(cs) : cs[k] \notin X
    OBVIOUS
  <1>1. SUFFICES ASSUME NEW k \in 1 .. Len(b), b[k] \in X
                 PROVE  FALSE
    BY DEF Occurs
  <1>2. k - Len(cs) + 1 \in 1 .. Len(a) /\ k - Len(cs) + 1 # 1 /\ b[k] = a[k - Len(cs) + 1]
    BY <1>0, <1>1, Pushed
  <1>3. 1 \in 1 .. Len(a)
    OBVIOUS
  <1> QED
    BY <1>1, <1>2, <1>3 DEF Once

\* A call that is waiting waits until it is the first, and one that is not made
\* is not waiting.
LEMMA OccursPushed ==
  ASSUME NEW F, NEW a \in Seq(F), a # <<>>, NEW P, NEW cs \in Seq(P), P \subseteq F, NEW X,
         NEW b, b = cs \o Tail(a)
  PROVE  /\ Occurs(X, a) /\ a[1] \notin X => Occurs(X, b)
         /\ Occurs(X, cs) => Occurs(X, b)
         /\ Occurs(X, b) /\ P \cap X = {} => Occurs(X, a)
  <1>0. cs \in Seq(F)
    OBVIOUS
  <1>1. ASSUME Occurs(X, a), a[1] \notin X
        PROVE  Occurs(X, b)
    <2>1. PICK j \in 1 .. Len(a) : a[j] \in X
      BY <1>1 DEF Occurs
    <2>2. j # 1
      BY <1>1, <2>1
    <2>3. j - 1 + Len(cs) \in 1 .. Len(b) /\ b[j - 1 + Len(cs)] = a[j]
      BY <2>2, <1>0, Pushed
    <2> QED
      BY <2>1, <2>3 DEF Occurs
  <1>2. ASSUME Occurs(X, cs)
        PROVE  Occurs(X, b)
    <2>1. PICK j \in 1 .. Len(cs) : cs[j] \in X
      BY <1>2 DEF Occurs
    <2>2. j \in 1 .. Len(b) /\ b[j] = cs[j]
      BY <1>0, Pushed
    <2> QED
      BY <2>1, <2>2 DEF Occurs
  <1>3. ASSUME Occurs(X, b), P \cap X = {}
        PROVE  Occurs(X, a)
    <2>1. PICK k \in 1 .. Len(b) : b[k] \in X
      BY <1>3 DEF Occurs
    <2>2. \A i \in 1 .. Len(cs) : cs[i] \notin X
      BY <1>3
    <2>3. k - Len(cs) + 1 \in 1 .. Len(a) /\ b[k] = a[k - Len(cs) + 1]
      BY <2>1, <2>2, <1>0, Pushed
    <2> QED
      BY <2>1, <2>3 DEF Occurs
  <1> QED
    BY <1>1, <1>2, <1>3

\* The call after x stays after it, until x is called.
LEMMA FollowedPushed ==
  ASSUME NEW F, NEW a \in Seq(F), a # <<>>, NEW cs \in Seq(F), NEW x, NEW y,
         Followed(x, y, cs), Followed(x, y, a), NEW b, b = cs \o Tail(a)
  PROVE  Followed(x, y, b)
  <1>1. SUFFICES ASSUME NEW k \in 1 .. Len(b), b[k] = x
                 PROVE  k < Len(b) /\ b[k + 1] = y
    BY DEF Followed
  <1>2. Len(b) = Len(cs) + Len(a) - 1 /\ Len(cs) \in Nat /\ Len(a) \in Nat \ {0}
    BY Pushed
  <1>3. CASE k \in 1 .. Len(cs) /\ b[k] = cs[k]
    <2>1. k < Len(cs) /\ cs[k + 1] = y
      BY <1>1, <1>3 DEF Followed
    <2>2. k + 1 \in 1 .. Len(cs)
      BY <2>1, <1>2
    <2>3. b[k + 1] = cs[k + 1]
      BY <2>2, Pushed
    <2> QED
      BY <2>1, <2>3, <1>2
  <1>4. CASE k > Len(cs) /\ k - Len(cs) + 1 \in 1 .. Len(a) /\ b[k] = a[k - Len(cs) + 1]
    <2> DEFINE j == k - Len(cs) + 1
    <2>1. j \in 1 .. Len(a) /\ a[j] = x
      BY <1>1, <1>4
    <2>2. j < Len(a) /\ a[j + 1] = y
      BY <2>1 DEF Followed
    <2>3. j + 1 \in 1 .. Len(a) /\ j + 1 # 1
      BY <2>1, <2>2, <1>2
    <2>4. b[(j + 1) - 1 + Len(cs)] = a[j + 1]
      BY <2>3, Pushed
    <2>5. (j + 1) - 1 + Len(cs) = k + 1 /\ k < Len(b)
      BY <2>2, <1>2
    <2> QED
      BY <2>2, <2>4, <2>5
  <1> QED
    BY <1>3, <1>4, Pushed

\* The call before y stays before it, until it is called.
LEMMA PrecededPushed ==
  ASSUME NEW F, NEW a \in Seq(F), a # <<>>, NEW P, NEW cs \in Seq(P), P \subseteq F, NEW x, NEW y, y \notin P,
         Preceded(y, x, a), a[1] # x, NEW b, b = cs \o Tail(a)
  PROVE  Preceded(y, x, b)
  <1>0. cs \in Seq(F) /\ \A k \in 1 .. Len(cs) : cs[k] # y
    OBVIOUS
  <1>1. SUFFICES ASSUME NEW k \in 1 .. Len(b), b[k] = y
                 PROVE  k > 1 /\ b[k - 1] = x
    BY DEF Preceded
  <1>2. Len(b) = Len(cs) + Len(a) - 1 /\ Len(cs) \in Nat /\ Len(a) \in Nat \ {0}
    BY <1>0, Pushed
  <1> DEFINE j == k - Len(cs) + 1
  <1>3. j \in 1 .. Len(a) /\ j # 1 /\ a[j] = y
    BY <1>0, <1>1, Pushed
  <1>4. j > 1 /\ a[j - 1] = x
    BY <1>3 DEF Preceded
  <1>5. j - 1 \in 1 .. Len(a) /\ j - 1 # 1
    BY <1>3, <1>4, <1>2
  <1>6. b[(j - 1) - 1 + Len(cs)] = a[j - 1] /\ (j - 1) - 1 + Len(cs) \in 1 .. Len(b)
    BY <1>0, <1>5, Pushed
  <1>7. (j - 1) - 1 + Len(cs) = k - 1
    BY <1>2
  <1> QED
    BY <1>4, <1>6, <1>7, <1>2

-----------------------------------------------------------------------------
(* What every step keeps, whatever the constants *)

Busy == phase \in {"process", "hup"}

\* The types that the control flow depends on.
Control ==
    /\ live \in SUBSET Conns /\ sock \in [Conns -> Sock] /\ trClose \in [Conns -> BOOLEAN]
    /\ reg \in SUBSET Evts /\ revents \in [Evts -> SUBSET Bits] /\ at \in Evts \cup {None}
    /\ on \in Conns /\ calls \in Seq(Functions) /\ queue \in Seq(Conns)

\* Reports are for registered events and for this round.
Reports ==
    /\ \A e \in Evts : revents[e] # {} => e \in reg /\ Busy
    /\ at # None => Busy
    /\ phase = "start" => reg = {}

\* A registered connection is in memory, with its socket open.
Registered == \A c \in Conns : c \in reg => c \in live /\ sock[c].fd

\* Nothing runs for a connection after the end of its destructor, which closes
\* the socket before it frees the memory.
EndsLast == Last(Endings, calls)
ClosedFirst == ~sock[on].fd \/ Preceded("free", "sock_close", calls)

\* What runs, runs for a connection in memory.
Running == calls # <<>> => on \in live

CInv == Control /\ Reports /\ Registered /\ EndsLast /\ ClosedFirst /\ Running

\* Nothing happens but that the program stops.
Stops == UNCHANGED <<ends, loop, poller, live, peer, on, calls, queue>>

\* A step of the code of a connection that leaves the poller, the list of
\* pmcrcu.c and the memory alone: the function that is called returns, or calls
\* some of P first.
Turn(P) ==
    /\ calls # <<>> /\ calls[1] \in Plain \ {"sock_close"}
    /\ \E cs \in Seq(P), s \in Sock :
          /\ s.fd = S.fd
          /\ sock' = [sock EXCEPT ![on] = s]
          /\ calls' = cs \o Tail(calls)
    /\ UNCHANGED <<loop, poller, live, on, queue, failed>>

\* The flags of a socket, and the events that it waits for, are set and cleared.
LEMMA SockSet ==
  ASSUME NEW s \in Sock
  PROVE  /\ s.fd \in BOOLEAN /\ s.rd \in BOOLEAN /\ s.wr \in BOOLEAN /\ s.onClose \in BOOLEAN
         /\ \A b \in SUBSET Bits :
              /\ Want(s, b) \in Sock /\ Want(s, b).fd = s.fd /\ Want(s, b).rd = s.rd /\ Want(s, b).wr = s.wr
              /\ Ignore(s, b) \in Sock /\ Ignore(s, b).fd = s.fd /\ Ignore(s, b).rd = s.rd /\ Ignore(s, b).wr = s.wr
         /\ Shut(s) \in Sock /\ ~Shut(s).fd /\ ~Shut(s).rd /\ ~Shut(s).wr
  BY DEF Sock, Want, Ignore, Shut, Bits

\* A new socket, and the memory of none.
LEMMA SockForms ==
  /\ NewSock \in Sock /\ NewSock.fd /\ NewSock.rd
  /\ JunkSock \in Sock /\ ~JunkSock.fd /\ ~JunkSock.rd /\ ~JunkSock.wr
  BY DEF Sock, NewSock, JunkSock, Bits

\* The same for closing one side, or the callback.
LEMMA SockSides ==
  ASSUME NEW s \in Sock, NEW o \in BOOLEAN
  PROVE  /\ [s EXCEPT !.rd = o] \in Sock /\ [s EXCEPT !.rd = o].fd = s.fd
         /\ [s EXCEPT !.rd = o].rd = o /\ [s EXCEPT !.rd = o].wr = s.wr
         /\ [s EXCEPT !.wr = o] \in Sock /\ [s EXCEPT !.wr = o].fd = s.fd
         /\ [s EXCEPT !.wr = o].rd = s.rd /\ [s EXCEPT !.wr = o].wr = o
         /\ [s EXCEPT !.onClose = o] \in Sock /\ [s EXCEPT !.onClose = o].fd = s.fd
         /\ [s EXCEPT !.onClose = o].rd = s.rd /\ [s EXCEPT !.onClose = o].wr = s.wr
  BY DEF Sock

\* A socket whose reading side is left open or not.
HasRead(t, s, o) == t = [s EXCEPT !.rd = o]

LEMMA ReadSocks ==
  ASSUME NEW s \in Sock, NEW o \in BOOLEAN, NEW t, HasRead(t, s, o)
  PROVE  t \in Sock /\ t.fd = s.fd
  BY DEF HasRead, Sock

\* The side of a socket that reads is closed or not.
LEMMA RdSet ==
  ASSUME NEW s \in Sock, NEW o \in BOOLEAN, NEW r, r = [s EXCEPT !.rd = o]
  PROVE  r \in Sock /\ r.fd = s.fd /\ r.rd = o /\ r.wr = s.wr /\ r.onClose = s.onClose /\ r.events = s.events
  BY DEF Sock

\* The same for the side that writes.
LEMMA WrSet ==
  ASSUME NEW s \in Sock, NEW o \in BOOLEAN, NEW r, r = [s EXCEPT !.wr = o]
  PROVE  r \in Sock /\ r.fd = s.fd /\ r.rd = s.rd /\ r.wr = o /\ r.onClose = s.onClose /\ r.events = s.events
  BY DEF Sock

\* A step that only changes the connection and calls some of P is a turn.
LEMMA LocalTurns ==
  ASSUME NEW P, NEW cs \in Seq(P), NEW s \in Sock, s.fd = S.fd, NEW u, NEW d,
         calls # <<>>, calls[1] \in Plain \ {"sock_close"},
         Local(s, u, d, cs), UNCHANGED <<poller, queue>>
  PROVE  Turn(P)
  BY DEF Turn, Local, Call

\* The calls that a turn makes.
LEMMA PlainCalls ==
  /\ <<>> \in Seq(Plain) /\ ConsumeUp \in Seq(Plain) /\ ConsumeDown \in Seq(Plain)
  /\ \A f \in Plain : <<f>> \in Seq(Plain) /\ ConsumeUp \o <<f>> \in Seq(Plain) /\ ConsumeDown \o <<f>> \in Seq(Plain)
  /\ \A f, g \in Plain : <<f, g>> \in Seq(Plain)
  <1>1. <<>> \in Seq(Plain) /\ \A f \in Plain : <<f>> \in Seq(Plain)
    OBVIOUS
  <1>2. \A f, g \in Plain : <<f, g>> \in Seq(Plain)
    OBVIOUS
  <1>3. "tr_consume" \in Plain /\ "on_tx" \in Plain
    BY DEF Plain
  <1>4. ConsumeUp \in Seq(Plain) /\ ConsumeDown \in Seq(Plain)
    BY <1>1, <1>3 DEF ConsumeUp, ConsumeDown, If
  <1>5. \A x, y \in Seq(Plain) : x \o y \in Seq(Plain)
    OBVIOUS
  <1> QED
    BY <1>1, <1>2, <1>4, <1>5

\* aem_net_on_tx ends with a turn, whatever it sent.
LEMMA SentTurns ==
  ASSUME NEW s \in Sock, s.fd = S.fd, NEW d, calls # <<>>, calls[1] \in Plain \ {"sock_close"},
         Sent(s, d), UNCHANGED <<poller, queue>>
  PROVE  Turn(Plain)
  <1>1. CASE Over(d)
    <2> DEFINE i == Ignore(s, {"OUT"})
    <2>1. i \in Sock /\ i.fd = S.fd
      BY SockSet DEF Bits
    <2>2. PICK w : w = [i EXCEPT !.wr = FALSE]
      OBVIOUS
    <2>3. w \in Sock /\ w.fd = S.fd
      BY <2>1, <2>2, SockSides
    <2>4. Local(w, U, d, <<"detach_tx", "close_if_done">>)
      BY <1>1, <2>2 DEF Sent
    <2>5. <<"detach_tx", "close_if_done">> \in Seq(Plain)
      BY PlainCalls DEF Plain
    <2> QED
      BY <2>3, <2>4, <2>5, LocalTurns
  <1>2. CASE ~Over(d)
    <2>1. Local(s, U, d, <<>>)
      BY <1>2 DEF Sent
    <2> QED
      BY <2>1, PlainCalls, LocalTurns
  <1> QED
    BY <1>1, <1>2

\* What the actions below have in common.
PlainTurn ==
    \/ Stops /\ failed' \in {"busy", "null"}
    \/ Turn(Plain) /\ UNCHANGED trClose

\* stream.c: detaching an end of a stream.
LEMMA DetachTurns ==
  ASSUME Control, DetachRx \/ RxDetached \/ DetachTx \/ DetachTrSink \/ DetachTrSource \/ TrSourceDetached
  PROVE  PlainTurn
  <1>0. S \in Sock
    BY DEF Control, S
  <1>1. CASE DetachRx
    <2>1. calls # <<>> /\ calls[1] = "detach_rx"
      BY <1>1 DEF DetachRx, Calling
    <2>2. UNCHANGED <<trClose, poller, queue>>
      BY <1>1 DEF DetachRx, Quiet
    <2>3. \E u \in {Finished(U), U}, cs \in {ConsumeUp \o <<"rx_detached">>, <<>>} : Local(S, u, D, cs)
      BY <1>1 DEF DetachRx
    <2>4. \A cs \in {ConsumeUp \o <<"rx_detached">>, <<>>} : cs \in Seq(Plain)
      BY PlainCalls DEF Plain
    <2>5. calls[1] \in Plain \ {"sock_close"}
      BY <2>1 DEF Plain
    <2> QED
      BY <1>0, <2>1, <2>2, <2>3, <2>4, <2>5, LocalTurns DEF PlainTurn
  <1>2. CASE RxDetached
    <2>1. calls # <<>> /\ calls[1] = "rx_detached"
      BY <1>2 DEF RxDetached, Calling
    <2>2. CASE Abort("busy")
      BY <2>2 DEF Abort, PlainTurn, Stops
    <2>3. CASE Local(S, Sourceless(U), D, <<>>) /\ Quiet
      <3>1. UNCHANGED <<trClose, poller, queue>>
        BY <2>3 DEF Quiet
      <3>2. calls[1] \in Plain \ {"sock_close"}
        BY <2>1 DEF Plain
      <3> QED
        BY <1>0, <2>1, <2>3, <3>1, <3>2, PlainCalls, LocalTurns DEF PlainTurn
    <2> QED
      BY <1>2, <2>2, <2>3 DEF RxDetached
  <1>3. CASE DetachTx
    <2>1. calls # <<>> /\ calls[1] = "detach_tx"
      BY <1>3 DEF DetachTx, Calling
    <2>2. CASE Abort("busy")
      BY <2>2 DEF Abort, PlainTurn, Stops
    <2>3. CASE Local(S, U, IF D.snk THEN Sinkless(D) ELSE D, <<>>) /\ Quiet
      <3>1. UNCHANGED <<trClose, poller, queue>>
        BY <2>3 DEF Quiet
      <3>2. calls[1] \in Plain \ {"sock_close"}
        BY <2>1 DEF Plain
      <3> QED
        BY <1>0, <2>1, <2>3, <3>1, <3>2, PlainCalls, LocalTurns DEF PlainTurn
    <2> QED
      BY <1>3, <2>2, <2>3 DEF DetachTx
  <1>4. CASE DetachTrSink
    <2>1. calls # <<>> /\ calls[1] = "detach_tr_sink"
      BY <1>4 DEF DetachTrSink, Calling
    <2>2. CASE Abort("busy")
      BY <2>2 DEF Abort, PlainTurn, Stops
    <2>3. CASE Local(S, IF U.snk THEN Sinkless(U) ELSE U, D, <<>>) /\ Quiet
      <3>1. UNCHANGED <<trClose, poller, queue>>
        BY <2>3 DEF Quiet
      <3>2. calls[1] \in Plain \ {"sock_close"}
        BY <2>1 DEF Plain
      <3> QED
        BY <1>0, <2>1, <2>3, <3>1, <3>2, PlainCalls, LocalTurns DEF PlainTurn
    <2> QED
      BY <1>4, <2>2, <2>3 DEF DetachTrSink
  <1>5. CASE DetachTrSource
    <2>1. calls # <<>> /\ calls[1] = "detach_tr_source"
      BY <1>5 DEF DetachTrSource, Calling
    <2>2. UNCHANGED <<trClose, poller, queue>>
      BY <1>5 DEF DetachTrSource, Quiet
    <2>3. \E d \in {Finished(D), D}, cs \in {ConsumeDown \o <<"tr_source_detached">>, <<>>} : Local(S, U, d, cs)
      BY <1>5 DEF DetachTrSource
    <2>4. \A cs \in {ConsumeDown \o <<"tr_source_detached">>, <<>>} : cs \in Seq(Plain)
      BY PlainCalls DEF Plain
    <2>5. calls[1] \in Plain \ {"sock_close"}
      BY <2>1 DEF Plain
    <2> QED
      BY <1>0, <2>1, <2>2, <2>3, <2>4, <2>5, LocalTurns DEF PlainTurn
  <1>6. CASE TrSourceDetached
    <2>1. calls # <<>> /\ calls[1] = "tr_source_detached"
      BY <1>6 DEF TrSourceDetached, Calling
    <2>2. CASE Abort("busy")
      BY <2>2 DEF Abort, PlainTurn, Stops
    <2>3. CASE Local(S, U, Sourceless(D), <<>>) /\ Quiet
      <3>1. UNCHANGED <<trClose, poller, queue>>
        BY <2>3 DEF Quiet
      <3>2. calls[1] \in Plain \ {"sock_close"}
        BY <2>1 DEF Plain
      <3> QED
        BY <1>0, <2>1, <2>3, <3>1, <3>2, PlainCalls, LocalTurns DEF PlainTurn
    <2> QED
      BY <1>6, <2>2, <2>3 DEF TrSourceDetached
  <1> QED
    BY <1>1, <1>2, <1>3, <1>4, <1>5, <1>6

\* streams.c: the transducer consumes and provides.
LEMMA TransducerTurns ==
  ASSUME Control, TrConsume \/ TrProvide
  PROVE  PlainTurn
  <1>0. S \in Sock
    BY DEF Control, S
  <1>1. CASE TrConsume
    <2>1. calls # <<>> /\ calls[1] = "tr_consume"
      BY <1>1 DEF TrConsume, Calling
    <2>2. UNCHANGED <<trClose, poller, queue>>
      BY <1>1 DEF TrConsume, Quiet
    <2>3. <<"tr_close">> \in Seq(Plain) /\ ConsumeDown \in Seq(Plain) /\ calls[1] \in Plain \ {"sock_close"}
      BY <2>1, PlainCalls DEF Plain
    <2>4. CASE Local(S, U, D, <<"tr_close">>)
      BY <2>4, <1>0, <2>1, <2>2, <2>3, LocalTurns DEF PlainTurn
    <2>5. CASE Local(S, [U EXCEPT !.full = TRUE], D, ConsumeDown)
      BY <2>5, <1>0, <2>1, <2>2, <2>3, LocalTurns DEF PlainTurn
    <2>6. CASE Local(S, [U EXCEPT !.full = FALSE, !.state = -1], Asked(D), ConsumeDown)
      BY <2>6, <1>0, <2>1, <2>2, <2>3, LocalTurns DEF PlainTurn
    <2>7. CASE Transduce
      <3>1. \E u, d : Local(S, u, d, ConsumeDown)
        BY <2>7 DEF Transduce
      <3> QED
        BY <3>1, <1>0, <2>1, <2>2, <2>3, LocalTurns DEF PlainTurn
    <2> QED
      BY <1>1, <2>4, <2>5, <2>6, <2>7 DEF TrConsume
  <1>2. CASE TrProvide
    <2>1. calls # <<>> /\ calls[1] = "tr_provide"
      BY <1>2 DEF TrProvide, Calling
    <2>2. CASE Abort("null")
      BY <2>2 DEF Abort, PlainTurn, Stops
    <2>3. CASE Quiet /\ Local(S, [U EXCEPT !.full = ~ShouldProvide(D)], Asked(D), If(U.src, <<"on_rx">>))
      <3>1. UNCHANGED <<trClose, poller, queue>>
        BY <2>3 DEF Quiet
      <3>2. calls[1] \in Plain \ {"sock_close"} /\ If(U.src, <<"on_rx">>) \in Seq(Plain)
        BY <2>1, PlainCalls DEF Plain, If
      <3> QED
        BY <1>0, <2>1, <2>3, <3>1, <3>2, LocalTurns DEF PlainTurn
    <2> QED
      BY <1>2, <2>2, <2>3 DEF TrProvide
  <1> QED
    BY <1>1, <1>2

\* net.c: the reading side.
LEMMA RxTurns ==
  ASSUME Control, FlowRx \/ OnRx \/ OnRxEnd
  PROVE  PlainTurn
  <1>0. S \in Sock
    BY DEF Control, S
  <1>1. CASE FlowRx
    <2>1. calls # <<>> /\ calls[1] = "flow_rx"
      BY <1>1 DEF FlowRx, Calling
    <2>2. UNCHANGED <<trClose, poller, queue>>
      BY <1>1 DEF FlowRx, Quiet
    <2>3. \E s \in {S, Ignore(S, {"IN"})}, cs \in {<<"on_rx">>, <<>>} : Local(s, U, D, cs)
      BY <1>1 DEF FlowRx
    <2>4. \A s \in {S, Ignore(S, {"IN"})} : s \in Sock /\ s.fd = S.fd
      BY <1>0, SockSet DEF Bits
    <2>5. \A cs \in {<<"on_rx">>, <<>>} : cs \in Seq(Plain)
      BY PlainCalls DEF Plain
    <2>6. calls[1] \in Plain \ {"sock_close"}
      BY <2>1 DEF Plain
    <2> QED
      BY <2>1, <2>2, <2>3, <2>4, <2>5, <2>6, LocalTurns DEF PlainTurn
  <1>2. CASE OnRx
    <2>1. calls # <<>> /\ calls[1] = "on_rx"
      BY <1>2 DEF OnRx, Calling
    <2>2. calls[1] \in Plain \ {"sock_close"}
      BY <2>1 DEF Plain
    <2> DEFINE s == IF U.full THEN Ignore(S, {"IN"}) ELSE Want(S, {"IN"})
    <2>3. s \in Sock /\ s.fd = S.fd
      BY <1>0, SockSet DEF Bits
    <2>4. CASE Local(S, U, D, <<>>) /\ Quiet
      <3>1. UNCHANGED <<trClose, poller, queue>>
        BY <2>4 DEF Quiet
      <3> QED
        BY <1>0, <2>1, <2>2, <2>4, <3>1, PlainCalls, LocalTurns DEF PlainTurn
    <2>5. CASE Local(s, U, D, ConsumeUp) /\ Quiet
      <3>1. UNCHANGED <<trClose, poller, queue>>
        BY <2>5 DEF Quiet
      <3> QED
        BY <2>1, <2>2, <2>3, <2>5, <3>1, PlainCalls, LocalTurns DEF PlainTurn
    <2>6. CASE Received(s, Asked(U))
      <3>1. UNCHANGED <<trClose, poller, queue>>
        BY <2>6 DEF Received
      <3>2. PICK cs : cs = ConsumeUp \o <<"on_rx_end">>
        OBVIOUS
      <3>3. cs \in Seq(Plain)
        BY <3>2, PlainCalls DEF Plain
      <3>4. \E open \in BOOLEAN : \E u : \E r \in {s, [s EXCEPT !.rd = open], Want(s, {"IN"})} : Local(r, u, D, cs)
        BY <2>6, <3>2 DEF Received
      <3>5. \A open \in BOOLEAN : \A r \in {s, [s EXCEPT !.rd = open], Want(s, {"IN"})} : r \in Sock /\ r.fd = S.fd
        <4> HIDE DEF s
        <4>1. Want(s, {"IN"}) \in Sock /\ Want(s, {"IN"}).fd = S.fd
          BY <2>3, SockSet DEF Bits
        <4>2. ASSUME NEW open \in BOOLEAN
              PROVE  [s EXCEPT !.rd = open] \in Sock /\ [s EXCEPT !.rd = open].fd = S.fd
          <5>1. PICK q : q = s
            OBVIOUS
          <5>2. [q EXCEPT !.rd = open] \in Sock /\ [q EXCEPT !.rd = open].fd = q.fd
            <6>1. q \in Sock
              BY <5>1, <2>3
            <6> QED
              BY <6>1 DEF Sock
          <5> QED
            BY <5>1, <5>2, <2>3
        <4> QED
          BY <4>1, <4>2, <2>3
      <3> QED
        BY <3>1, <3>3, <3>4, <3>5, <2>1, <2>2, LocalTurns DEF PlainTurn
    <2> QED
      BY <1>2, <2>4, <2>5, <2>6 DEF OnRx
  <1>3. CASE OnRxEnd
    <2>1. calls # <<>> /\ calls[1] = "on_rx_end"
      BY <1>3 DEF OnRxEnd, Calling
    <2>2. UNCHANGED <<trClose, poller, queue>>
      BY <1>3 DEF OnRxEnd, Quiet
    <2>3. PICK i : i = Ignore(S, {"IN", "RDHUP"})
      OBVIOUS
    <2>4. i \in Sock /\ i.fd = S.fd
      BY <1>0, <2>3, SockSet DEF Bits
    <2> DEFINE shut == [i EXCEPT !.rd = FALSE]
    <2>5. \E s \in {S, shut}, cs \in {<<"detach_rx", "close_if_done">>, <<>>} : Local(s, U, D, cs)
      BY <1>3, <2>3 DEF OnRxEnd
    <2>6. shut \in Sock /\ shut.fd = S.fd
      BY <2>4, SockSides
    <2> HIDE DEF shut
    <2>7. \A cs \in {<<"detach_rx", "close_if_done">>, <<>>} : cs \in Seq(Plain)
      BY PlainCalls DEF Plain
    <2>8. calls[1] \in Plain \ {"sock_close"}
      BY <2>1 DEF Plain
    <2> QED
      BY <1>0, <2>1, <2>2, <2>5, <2>6, <2>7, <2>8, LocalTurns DEF PlainTurn
  <1> QED
    BY <1>1, <1>2, <1>3

\* net.c: the writing side, and closing when both are over.
LEMMA TxTurns ==
  ASSUME Control, FlowTx \/ OnTx \/ CloseIfDone \/ Closed
  PROVE  PlainTurn
  <1>0. S \in Sock
    BY DEF Control, S
  <1>1. CASE FlowTx
    <2>1. calls # <<>> /\ calls[1] = "flow_tx"
      BY <1>1 DEF FlowTx, Calling
    <2>2. UNCHANGED <<trClose, poller, queue>>
      BY <1>1 DEF FlowTx, Quiet
    <2>3. \E s \in {S, Ignore(S, {"OUT"})}, cs \in {<<"tr_provide">>, <<>>} : Local(s, U, D, cs)
      BY <1>1 DEF FlowTx, If
    <2>4. \A s \in {S, Ignore(S, {"OUT"})} : s \in Sock /\ s.fd = S.fd
      BY <1>0, SockSet DEF Bits
    <2>5. \A cs \in {<<"tr_provide">>, <<>>} : cs \in Seq(Plain)
      BY PlainCalls DEF Plain
    <2>6. calls[1] \in Plain \ {"sock_close"}
      BY <2>1 DEF Plain
    <2> QED
      BY <2>1, <2>2, <2>3, <2>4, <2>5, <2>6, LocalTurns DEF PlainTurn
  <1>2. CASE OnTx
    <2>1. calls # <<>> /\ calls[1] = "on_tx"
      BY <1>2 DEF OnTx, Calling
    <2>2. calls[1] \in Plain \ {"sock_close"}
      BY <2>1 DEF Plain
    <2>3. UNCHANGED <<trClose, poller, queue>>
      BY <1>2 DEF OnTx, Quiet, SendFails, SendsAll, SendsPart, Sends
    <2>4. Ignore(S, {"OUT"}) \in Sock /\ Ignore(S, {"OUT"}).fd = S.fd
      BY <1>0, SockSet DEF Bits
    <2>5. WaitForRoom(S) \in Sock /\ WaitForRoom(S).fd = S.fd
      BY <1>0, SockSet DEF Bits, WaitForRoom
    <2>6. \E s \in Sock : \E d : s.fd = S.fd /\ Sent(s, d)
      <3>1. CASE D.state < 0 \/ D.buf = NoBuffer
        BY <3>1, <1>2, <1>0 DEF OnTx
      <3>2. CASE ~(D.state < 0 \/ D.buf = NoBuffer) /\ D.buf = 0
        BY <3>2, <1>2, <2>4 DEF OnTx
      <3>3. CASE SendFails
        <4>0. S.wr \in BOOLEAN
          BY <1>0 DEF Sock
        <4>1. PICK open \in BOOLEAN :
                LET s == [S EXCEPT !.wr = open]
                IN  Sent(IF D.full THEN WaitForRoom(s) ELSE s, [D EXCEPT !.fin = TRUE])
          BY <3>3, <4>0 DEF SendFails
        <4>2. PICK s : s = [S EXCEPT !.wr = open]
          OBVIOUS
        <4>3. s \in Sock /\ s.fd = S.fd
          <5>1. PICK q : q = S
            OBVIOUS
          <5>2. q \in Sock /\ s = [q EXCEPT !.wr = open]
            BY <4>2, <5>1, <1>0
          <5>3. s \in Sock /\ s.fd = q.fd
            BY <5>2, <4>1, WrSet
          <5> QED
            BY <5>1, <5>3
        <4>4. WaitForRoom(s) \in Sock /\ WaitForRoom(s).fd = S.fd
          BY <4>3, SockSet DEF Bits, WaitForRoom
        <4> QED
          BY <4>1, <4>2, <4>3, <4>4
      <3>4. CASE SendsAll
        BY <3>4, <1>0 DEF SendsAll
      <3>5. CASE SendsPart
        BY <3>5, <2>5 DEF SendsPart
      <3> QED
        BY <1>2, <3>1, <3>2, <3>3, <3>4, <3>5 DEF OnTx
    <2> QED
      BY <2>1, <2>2, <2>3, <2>6, SentTurns DEF PlainTurn
  <1>3. CASE CloseIfDone
    <2>1. calls # <<>> /\ calls[1] = "close_if_done"
      BY <1>3 DEF CloseIfDone, Calling
    <2>2. UNCHANGED <<trClose, poller, queue>>
      BY <1>3 DEF CloseIfDone, Quiet
    <2>3. If(Done(S), <<"sock_close">>) \in Seq(Plain) /\ calls[1] \in Plain \ {"sock_close"}
      BY <2>1, PlainCalls DEF Plain, If
    <2> QED
      BY <1>3, <1>0, <2>1, <2>2, <2>3, LocalTurns DEF PlainTurn, CloseIfDone
  <1>4. CASE Closed
    <2>1. calls # <<>> /\ calls[1] = "closed"
      BY <1>4 DEF Closed, Calling
    <2>2. UNCHANGED <<trClose, poller, queue>>
      BY <1>4 DEF Closed, Quiet
    <2>3. [S EXCEPT !.onClose = FALSE] \in Sock /\ [S EXCEPT !.onClose = FALSE].fd = S.fd
      BY <1>0, SockSides
    <2>4. calls[1] \in Plain \ {"sock_close"}
      BY <2>1 DEF Plain
    <2> QED
      BY <1>4, <2>1, <2>2, <2>3, <2>4, PlainCalls, LocalTurns DEF PlainTurn, Closed
  <1> QED
    BY <1>1, <1>2, <1>3, <1>4

\* streams.c: the end of the transducer runs the end of the connection.
LEMMA TrCloseTurns ==
  ASSUME Control, TrClose
  PROVE  /\ Turn(Lasting) /\ calls[1] = "tr_close"
         /\ trClose' = [trClose EXCEPT ![on] = FALSE] /\ trClose' \in [Conns -> BOOLEAN]
         /\ ~trClose[on] => Turn(Plain)
  <1>0. S \in Sock
    BY DEF Control, S
  <1>1. calls # <<>> /\ calls[1] = "tr_close" /\ calls[1] \in Plain \ {"sock_close"}
    BY DEF TrClose, Calling, Plain
  <1>2. UNCHANGED <<poller, queue>>
    BY DEF TrClose
  <1>3. If(trClose[on], ConnFree) \in Seq(Lasting)
    <2>1. ConnFree \in Seq(Lasting)
      BY DEF ConnFree, Lasting, Plain
    <2>2. <<>> \in Seq(Lasting)
      OBVIOUS
    <2> QED
      BY <2>1, <2>2 DEF If
  <1>4. ~trClose[on] => If(trClose[on], ConnFree) \in Seq(Plain)
    BY PlainCalls DEF If
  <1>5. Local(S, U, D, If(trClose[on], ConnFree))
    BY DEF TrClose
  <1>6. Turn(Lasting) /\ (~trClose[on] => Turn(Plain))
    BY <1>0, <1>1, <1>2, <1>3, <1>4, <1>5, LocalTurns
  <1>7. trClose' = [trClose EXCEPT ![on] = FALSE]
    BY DEF TrClose
  <1> QED
    BY <1>1, <1>6, <1>7 DEF Control

\* A turn may call less than it may.
LEMMA PlainTurnLasts ==
  ASSUME Turn(Plain)
  PROVE  Turn(Lasting)
  <1>1. \A cs \in Seq(Plain) : cs \in Seq(Lasting)
    BY DEF Lasting
  <1> QED
    BY <1>1 DEF Turn

\* A step that nothing here depends on.
LEMMA StopsKeeps ==
  ASSUME CInv, Stops
  PROVE  CInv'
  BY DEF CInv, Stops, Control, Reports, Registered, EndsLast, ClosedFirst, Running, Busy,
         ends, loop, poller

\* A step of the code of a connection keeps the order in which the connection
\* ends: the functions of the end stay where they are.
LEMMA CallsKept ==
  ASSUME CInv, calls # <<>>, calls[1] \notin Endings, NEW cs \in Seq(Lasting),
         calls' = cs \o Tail(calls), UNCHANGED <<on, live>>,
         ~sock[on].fd => ~sock'[on].fd,
         calls[1] = "sock_close" => ~sock'[on].fd
  PROVE  calls' \in Seq(Functions) /\ EndsLast' /\ ClosedFirst' /\ Running'
  <1>1. calls \in Seq(Functions) /\ Lasting \subseteq Functions /\ Lasting \cap Endings = {}
    BY DEF CInv, Control, Functions, Lasting, Plain, Endings
  <1>2. PICK b : b = cs \o Tail(calls)
    OBVIOUS
  <1>3. b \in Seq(Functions)
    <2>1. cs \in Seq(Functions)
      BY <1>1
    <2> QED
      BY <1>1, <1>2, <2>1
  <1>4. Last(Endings, b)
    BY <1>1, <1>2, LastPushed DEF CInv, EndsLast
  <1>5. ~sock'[on].fd \/ Preceded("free", "sock_close", b)
    <2>1. SUFFICES ASSUME sock'[on].fd
                   PROVE  Preceded("free", "sock_close", b)
      OBVIOUS
    <2>2. Preceded("free", "sock_close", calls) /\ calls[1] # "sock_close"
      BY <2>1 DEF CInv, ClosedFirst
    <2>3. "free" \notin Lasting
      BY DEF Lasting, Plain
    <2> QED
      BY <1>1, <1>2, <2>2, <2>3, PrecededPushed
  <1>6. on \in live
    BY DEF CInv, Running
  <1> QED
    BY <1>2, <1>3, <1>4, <1>5, <1>6 DEF EndsLast, ClosedFirst, Running

\* A turn keeps the invariant.
LEMMA TurnKeeps ==
  ASSUME CInv, Turn(Lasting), trClose' \in [Conns -> BOOLEAN]
  PROVE  CInv'
  <1>1. calls # <<>> /\ calls[1] \in Plain \ {"sock_close"}
        /\ UNCHANGED <<loop, poller, live, on, queue, failed>>
    BY DEF Turn
  <1>2. PICK cs \in Seq(Lasting), s \in Sock :
          s.fd = S.fd /\ sock' = [sock EXCEPT ![on] = s] /\ calls' = cs \o Tail(calls)
    BY DEF Turn
  <1>3. on \in Conns /\ sock \in [Conns -> Sock]
    BY DEF CInv, Control
  <1>4. sock' \in [Conns -> Sock] /\ \A c \in Conns : sock'[c].fd = sock[c].fd
    BY <1>2, <1>3 DEF S
  <1>5. calls[1] \notin Endings /\ calls[1] # "sock_close"
    BY <1>1 DEF Plain, Endings
  <1>6. calls' \in Seq(Functions) /\ EndsLast' /\ ClosedFirst' /\ Running'
    BY <1>1, <1>2, <1>3, <1>4, <1>5, CallsKept
  <1>7. Control'
    BY <1>1, <1>4, <1>6 DEF CInv, Control, loop, poller
  <1>8. Reports'
    BY <1>1 DEF CInv, Reports, Busy, loop, poller
  <1>9. Registered'
    BY <1>1, <1>4 DEF CInv, Registered, poller
  <1> QED
    BY <1>6, <1>7, <1>8, <1>9 DEF CInv

\* Taking an event out of the poller takes its report, and maybe another.
LEMMA Deregistered ==
  ASSUME Control, Reports, NEW e \in Evts, Deregister(e)
  PROVE  /\ reg' \in SUBSET Evts /\ reg' = reg \ {e}
         /\ revents' \in [Evts -> SUBSET Bits]
         /\ \A x \in Evts : revents'[x] # {} => x \in reg' /\ revents'[x] = revents[x] /\ Busy
  <1>1. PICK lost \in SUBSET Evts :
          revents' = [x \in Evts |-> IF x = e \/ x \in lost THEN {} ELSE revents[x]]
    BY DEF Deregister
  <1>2. reg' = reg \ {e} /\ reg \in SUBSET Evts
    BY DEF Deregister, Control
  <1>3. \A x \in Evts : revents[x] \in SUBSET Bits
    BY DEF Control
  <1>4. revents' \in [Evts -> SUBSET Bits]
    BY <1>1, <1>3
  <1>5. \A x \in Evts : revents'[x] # {} => x # e /\ revents'[x] = revents[x]
    BY <1>1
  <1> QED
    BY <1>2, <1>4, <1>5 DEF Reports

\* aem_net_sock_close: the event is taken out before the socket is closed.
LEMMA SockCloseKeeps ==
  ASSUME CInv, SockClose
  PROVE  CInv'
  <1>1. CASE Abort("open")
    <2>1. Stops
      BY <1>1 DEF Abort, Stops
    <2> QED
      BY <2>1, StopsKeeps
  <1>2. CASE ~Abort("open")
    <2> DEFINE cs == If(S.fd /\ S.onClose, ConnFree \o <<"closed">>)
    <2>1. calls # <<>> /\ calls[1] = "sock_close"
      BY DEF SockClose, Calling
    <2>2. IF Listed(on) THEN Deregister(on) ELSE UNCHANGED poller
      BY <1>2 DEF SockClose
    <2>3. Local(Shut(S), U, D, cs) /\ UNCHANGED <<trClose, peer, queue>>
      BY <1>2 DEF SockClose
    <2>4. cs \in Seq(Lasting)
      <3>1. ConnFree \o <<"closed">> \in Seq(Lasting) /\ <<>> \in Seq(Lasting)
        BY DEF ConnFree, Lasting, Plain
      <3> QED
        BY <3>1 DEF If
    <2> HIDE DEF cs
    <2>5. on \in Conns /\ on \in Evts /\ sock \in [Conns -> Sock] /\ S \in Sock
      BY DEF CInv, Control, S, Evts
    <2>6. sock' \in [Conns -> Sock] /\ ~sock'[on].fd /\ \A c \in Conns : c # on => sock'[c] = sock[c]
      BY <2>3, <2>5, SockSet DEF Local
    <2>7. UNCHANGED <<on, live, loop, queue, trClose>> /\ calls' = cs \o Tail(calls)
      BY <2>3 DEF Local, Call
    <2>8. calls' \in Seq(Functions) /\ EndsLast' /\ ClosedFirst' /\ Running'
      <3>1. calls[1] \notin Endings
        BY <2>1 DEF Endings
      <3> QED
        BY <2>1, <2>4, <2>6, <2>7, <3>1, CallsKept
    <2>9. on \notin reg' /\ reg' \subseteq reg /\ revents' \in [Evts -> SUBSET Bits]
          /\ \A x \in Evts : revents'[x] # {} => x \in reg' /\ Busy
      <3>1. CASE Listed(on)
        BY <3>1, <2>2, <2>5, Deregistered DEF CInv
      <3>2. CASE ~Listed(on)
        BY <3>2, <2>2 DEF Listed, CInv, Control, Reports, poller
      <3> QED
        BY <3>1, <3>2
    <2>10. Control'
      BY <2>6, <2>7, <2>8, <2>9 DEF CInv, Control, loop
    <2>11. Reports'
      BY <2>7, <2>9 DEF CInv, Reports, Busy, loop
    <2>12. Registered'
      BY <2>6, <2>7, <2>9 DEF CInv, Registered
    <2> QED
      BY <2>8, <2>10, <2>11, <2>12 DEF CInv
  <1> QED
    BY <1>1, <1>2

\* The end of a connection: call_rcu, the barrier, the destructor and free.
LEMMA CallRcuKeeps ==
  ASSUME CInv, CallRcu
  PROVE  CInv'
  <1>1. CASE Abort("enqueued")
    <2>1. Stops
      BY <1>1 DEF Abort, Stops
    <2> QED
      BY <2>1, StopsKeeps
  <1>2. CASE ~Abort("enqueued")
    <2>1. calls # <<>> /\ calls[1] = "call_rcu" /\ calls[1] \notin Endings
      BY DEF CallRcu, Calling, Endings
    <2>2. Local(S, U, D, <<>>) /\ UNCHANGED <<trClose, peer, poller>> /\ queue' = <<on>> \o queue
      BY <1>2 DEF CallRcu
    <2>3. on \in Conns /\ sock \in [Conns -> Sock] /\ queue \in Seq(Conns)
      BY DEF CInv, Control
    <2>4. sock' = sock
      BY <2>2, <2>3 DEF Local, S
    <2>5. UNCHANGED <<on, live, loop, trClose, reg, revents>> /\ calls' = <<>> \o Tail(calls)
      BY <2>2 DEF Local, Call, poller
    <2>6. <<>> \in Seq(Lasting)
      OBVIOUS
    <2>7. calls' \in Seq(Functions) /\ EndsLast' /\ ClosedFirst' /\ Running'
      BY <2>1, <2>4, <2>5, <2>6, CallsKept
    <2>8. queue' \in Seq(Conns)
      BY <2>2, <2>3
    <2>9. Control'
      BY <2>4, <2>5, <2>7, <2>8 DEF CInv, Control, loop
    <2>10. Reports' /\ Registered'
      BY <2>4, <2>5 DEF CInv, Reports, Registered, Busy, loop
    <2> QED
      BY <2>7, <2>9, <2>10 DEF CInv
  <1> QED
    BY <1>1, <1>2

\* conn_free_rcu, up to the destructor of the transducer.
LEMMA BarrierKeeps ==
  ASSUME CInv, Barrier
  PROVE  CInv'
  <1>1. CASE Abort("freed")
    <2>1. Stops
      BY <1>1 DEF Abort, Stops
    <2> QED
      BY <2>1, StopsKeeps
  <1>2. CASE ~Abort("freed")
    <2>1. queue # <<>> /\ queue[1] \in live /\ on' = queue[1] /\ queue' = Tail(queue) /\ calls' = Dtor
          /\ UNCHANGED <<ends, loop, poller, live>>
      BY <1>2 DEF Barrier
    <2>2. queue \in Seq(Conns) /\ queue' \in Seq(Conns) /\ on' \in Conns
      BY <2>1 DEF CInv, Control
    <2>3. calls' \in Seq(Functions)
      BY <2>1 DEF Dtor, Functions, Lasting, Plain, Endings
    <2>4. Last(Endings, Dtor) /\ Preceded("free", "sock_close", Dtor)
      BY DEF Last, Preceded, Dtor, Endings
    <2>5. EndsLast' /\ ClosedFirst' /\ Running'
      BY <2>1, <2>4 DEF EndsLast, ClosedFirst, Running
    <2>6. Control'
      BY <2>1, <2>2, <2>3 DEF CInv, Control, ends, loop, poller
    <2>7. Reports' /\ Registered'
      BY <2>1 DEF CInv, Reports, Registered, Busy, ends, loop, poller
    <2> QED
      BY <2>5, <2>6, <2>7 DEF CInv
  <1> QED
    BY <1>1, <1>2

\* conn_free_rcu, up to free.
LEMMA ConnDtorKeeps ==
  ASSUME CInv, ConnDtor
  PROVE  CInv'
  <1> DEFINE cs == <<"detach_rx", "detach_tx", "sock_close", "free">>
  <1>1. calls # <<>> /\ calls[1] = "conn_dtor" /\ calls \in Seq(Functions)
    BY DEF ConnDtor, Calling, CInv, Control
  <1>2. Tail(calls) = <<>>
    BY <1>1, LastAlone DEF CInv, EndsLast, Endings
  <1>3. \E u, d : Local(S, u, d, cs)
    BY DEF ConnDtor
  <1>4. on \in Conns /\ sock \in [Conns -> Sock]
    BY DEF CInv, Control
  <1>5. sock' = sock /\ UNCHANGED <<on, live, loop>> /\ calls' = cs \o Tail(calls)
    BY <1>3, <1>4 DEF Local, Call, S
  <1>6. UNCHANGED <<trClose, reg, revents, queue>>
    BY DEF ConnDtor, Quiet, poller
  <1>7. cs \in Seq(Functions)
    BY DEF Functions, Lasting, Plain, Endings
  <1>8. calls' = cs
    <2>1. PICK c : c = cs
      OBVIOUS
    <2>2. c \o <<>> = c
      BY <1>7, <2>1
    <2> QED
      BY <1>2, <1>5, <2>1, <2>2
  <1>9. Last(Endings, cs) /\ Preceded("free", "sock_close", cs)
    BY DEF Last, Preceded, Endings
  <1>10. on \in live
    BY <1>1 DEF CInv, Running
  <1> HIDE DEF cs
  <1>11. EndsLast' /\ ClosedFirst' /\ Running'
    BY <1>5, <1>8, <1>9, <1>10 DEF EndsLast, ClosedFirst, Running
  <1>12. Control'
    BY <1>5, <1>6, <1>7, <1>8 DEF CInv, Control, loop
  <1>13. Reports' /\ Registered'
    BY <1>5, <1>6 DEF CInv, Reports, Registered, Busy, loop
  <1> QED
    BY <1>11, <1>12, <1>13 DEF CInv

\* free: by now the socket has been closed, so that the event is not registered.
LEMMA FreeKeeps ==
  ASSUME CInv, Free
  PROVE  CInv' /\ on \notin reg /\ calls' = <<>>
  <1>1. calls # <<>> /\ calls[1] = "free" /\ calls \in Seq(Functions)
    BY DEF Free, Calling, CInv, Control
  <1>2. Tail(calls) = <<>>
    BY <1>1, LastAlone DEF CInv, EndsLast, Endings
  <1>3. calls' = <<>> \o Tail(calls)
    BY DEF Free, Call
  <1>4. calls' = <<>>
    BY <1>2, <1>3
  <1>5. on \in Conns /\ on \notin reg
    <2>1. 1 \in 1 .. Len(calls)
      BY <1>1
    <2>2. ~Preceded("free", "sock_close", calls)
      BY <1>1, <2>1 DEF Preceded
    <2> QED
      BY <2>2 DEF CInv, Control, ClosedFirst, Registered
  <1>6. live' = live \ {on} /\ sock' = [sock EXCEPT ![on] = JunkSock] /\ trClose' = [trClose EXCEPT ![on] = FALSE]
        /\ UNCHANGED <<loop, poller, on, queue>>
    BY DEF Free
  <1>7. sock' \in [Conns -> Sock] /\ \A c \in Conns : c # on => sock'[c] = sock[c]
    BY <1>5, <1>6, SockForms DEF CInv, Control
  <1>8. Control'
    BY <1>4, <1>6, <1>7 DEF CInv, Control, loop, poller
  <1>9. Reports'
    BY <1>6 DEF CInv, Reports, Busy, loop, poller
  <1>10. Registered'
    BY <1>5, <1>6, <1>7 DEF CInv, Registered, poller
  <1>11. EndsLast' /\ ClosedFirst' /\ Running'
    BY <1>4 DEF EndsLast, ClosedFirst, Running, Last, Preceded
  <1> QED
    BY <1>4, <1>5, <1>8, <1>9, <1>10, <1>11 DEF CInv

\* The event loop and main: the steps of Reports that they take.
LEMMA LoopKeeps ==
  ASSUME CInv, Listen \/ Poll \/ HupAll \/ Finish \/ NextRound \/ Return
  PROVE  CInv'
  <1>1. UNCHANGED <<ends, live, on, calls, queue>> /\ calls = <<>>
    BY DEF Listen, Poll, HupAll, Finish, NextRound, Return, Idle
  <1>2. EndsLast' /\ ClosedFirst' /\ Running'
    BY <1>1 DEF EndsLast, ClosedFirst, Running, Last, Preceded
  <1>3. CASE Listen
    <2>1. reg' = {Srv} /\ UNCHANGED <<revents, at>> /\ phase = "start" /\ phase' = "poll" /\ at = None
      BY <1>3 DEF Listen, Idle
    <2>2. Srv \in Evts /\ Srv \notin Conns
      BY ServerAssumption DEF Evts
    <2>3. Control'
      BY <1>1, <2>1, <2>2 DEF CInv, Control, ends
    <2>4. Reports'
      <3>1. \A e \in Evts : revents[e] = {}
        BY <2>1 DEF CInv, Reports
      <3> QED
        BY <2>1, <3>1 DEF Reports
    <2>5. Registered'
      BY <2>1, <2>2 DEF Registered
    <2> QED
      BY <1>2, <2>3, <2>4, <2>5 DEF CInv
  <1>4. CASE Poll
    <2>1. PICK knock \in SUBSET (reg \cap {Srv}) :
            revents' = [e \in Evts |-> IF e \in knock THEN {"IN"}
                                       ELSE IF e \in reg \ {Srv} THEN Pending(e) ELSE {}]
      BY <1>4 DEF Poll
    <2>2. UNCHANGED <<reg, at>> /\ at = None /\ phase' = "process"
      BY <1>4 DEF Poll, Idle
    <2>3. \A e \in Evts : e \in reg \ {Srv} => Pending(e) \in SUBSET Bits
      <3>1. SUFFICES ASSUME NEW e \in Evts, e \in reg \ {Srv}
                     PROVE  Pending(e) \in SUBSET Bits
        OBVIOUS
      <3>2. e \in Conns
        BY <3>1 DEF Evts
      <3>3. sock[e].events \in SUBSET Bits
        BY <3>2 DEF CInv, Control, Sock
      <3> QED
        BY <3>3 DEF Pending, Bits
    <2>4. revents' \in [Evts -> SUBSET Bits] /\ \A e \in Evts : revents'[e] # {} => e \in reg
      BY <2>1, <2>3 DEF Bits
    <2>5. Control'
      BY <1>1, <2>2, <2>4 DEF CInv, Control, ends
    <2>6. Reports'
      BY <2>2, <2>4, ServerAssumption DEF Reports, Busy
    <2>7. Registered'
      BY <1>1, <2>2 DEF CInv, Registered, ends
    <2> QED
      BY <1>2, <2>5, <2>6, <2>7 DEF CInv
  <1>5. CASE HupAll
    <2>1. revents' = [e \in Evts |-> IF exit /\ e \in reg THEN {"HUP"} ELSE {}]
          /\ UNCHANGED <<reg, at, exit>> /\ at = None /\ phase' = IF exit THEN "hup" ELSE "barrier"
      BY <1>5 DEF HupAll, Idle
    <2>2. revents' \in [Evts -> SUBSET Bits] /\ \A e \in Evts : revents'[e] # {} => e \in reg /\ exit
      BY <2>1 DEF Bits
    <2>3. Control'
      BY <1>1, <2>1, <2>2 DEF CInv, Control, ends
    <2>4. Reports'
      BY <2>1, <2>2 DEF Reports, Busy
    <2>5. Registered'
      BY <1>1, <2>1 DEF CInv, Registered, ends
    <2> QED
      BY <1>2, <2>3, <2>4, <2>5 DEF CInv
  <1>6. CASE Finish
    <2>1. UNCHANGED <<reg, revents, at>> /\ at = None /\ phase' \in {"check", "barrier"}
          /\ \A e \in reg : revents[e] = {}
      BY <1>6 DEF Finish, Idle, Processed, poller
    <2>2. \A e \in Evts : revents[e] = {}
      BY <2>1 DEF CInv, Reports
    <2>3. Control'
      BY <1>1, <2>1 DEF CInv, Control, ends
    <2>4. Reports'
      BY <2>1, <2>2 DEF Reports
    <2>5. Registered'
      BY <1>1, <2>1 DEF CInv, Registered, ends
    <2> QED
      BY <1>2, <2>3, <2>4, <2>5 DEF CInv
  <1>7. CASE NextRound
    <2>1. UNCHANGED <<reg, revents, at>> /\ at = None /\ phase = "barrier" /\ phase' \in {"done", "poll"}
      BY <1>7 DEF NextRound, Idle, poller
    <2>2. \A e \in Evts : revents[e] = {}
      BY <2>1 DEF CInv, Reports, Busy
    <2>3. Control'
      BY <1>1, <2>1 DEF CInv, Control, ends
    <2>4. Reports'
      BY <2>1, <2>2 DEF Reports
    <2>5. Registered'
      BY <1>1, <2>1 DEF CInv, Registered, ends
    <2> QED
      BY <1>2, <2>3, <2>4, <2>5 DEF CInv
  <1>8. CASE Return
    <2>1. at # None /\ at' = None /\ UNCHANGED phase
          /\ IF hupped /\ at \in reg THEN Deregister(at) ELSE UNCHANGED poller
      BY <1>8 DEF Return
    <2>2. at \in Evts
      BY <2>1 DEF CInv, Control
    <2>3. reg' \in SUBSET Evts /\ reg' \subseteq reg /\ revents' \in [Evts -> SUBSET Bits]
          /\ \A x \in Evts : revents'[x] # {} => x \in reg' /\ Busy
      <3>1. CASE hupped /\ at \in reg
        BY <3>1, <2>1, <2>2, Deregistered DEF CInv
      <3>2. CASE ~(hupped /\ at \in reg)
        BY <3>2, <2>1 DEF CInv, Control, Reports, poller
      <3> QED
        BY <3>1, <3>2
    <2>4. Control'
      BY <1>1, <2>1, <2>3 DEF CInv, Control, ends
    <2>5. Reports'
      BY <2>1, <2>3 DEF CInv, Reports, Busy
    <2>6. Registered'
      BY <1>1, <2>3 DEF CInv, Registered, ends
    <2> QED
      BY <1>2, <2>4, <2>5, <2>6 DEF CInv
  <1> QED
    BY <1>3, <1>4, <1>5, <1>6, <1>7, <1>8

\* aem_poll_process calls on_event of an event that it has a report for.
LEMMA DeliverKeeps ==
  ASSUME CInv, NEW e \in Evts, Deliver(e)
  PROVE  /\ Reports' /\ Busy /\ e \in reg /\ reg' = reg /\ live' = live /\ queue' = queue
         /\ trClose' = trClose /\ at' \in Evts \cup {None} /\ calls = <<>>
         /\ revents' = [revents EXCEPT ![e] = {}] /\ revents' \in [Evts -> SUBSET Bits]
  <1>1. at' = e /\ revents' = [revents EXCEPT ![e] = {}] /\ UNCHANGED <<reg, live, queue, trClose, phase>>
        /\ Busy /\ e \in reg /\ calls = <<>>
    BY DEF Deliver, Idle, Busy
  <1>2. revents \in [Evts -> SUBSET Bits]
    BY DEF CInv, Control
  <1>3. revents' \in [Evts -> SUBSET Bits] /\ \A x \in Evts : revents'[x] # {} => revents[x] # {}
    BY <1>1, <1>2
  <1>4. Reports'
    BY <1>1, <1>3 DEF CInv, Reports, Busy
  <1> QED
    BY <1>1, <1>3, <1>4

\* aem_net_on_conn.
LEMMA OnConnKeeps ==
  ASSUME CInv, NEW c \in Conns, OnConn(c)
  PROVE  CInv'
  <1>1. c \in Evts
    BY DEF Evts
  <1>2. /\ Reports' /\ Busy /\ c \in reg /\ reg' = reg /\ live' = live /\ queue' = queue
        /\ trClose' = trClose /\ at' \in Evts \cup {None} /\ revents' \in [Evts -> SUBSET Bits]
    BY <1>1, DeliverKeeps DEF OnConn
  <1>3. on' = c /\ c \in live
    BY <1>2 DEF OnConn, CInv, Registered
  <1>4. sock' \in [Conns -> Sock] /\ \A x \in Conns : sock'[x].fd = sock[x].fd
    <2>1. sock' \in {sock, [sock EXCEPT ![c].wr = FALSE]} /\ sock \in [Conns -> Sock] /\ sock[c] \in Sock
      BY DEF OnConn, CInv, Control
    <2>2. PICK w : w = [sock[c] EXCEPT !.wr = FALSE]
      OBVIOUS
    <2>3. w \in Sock /\ w.fd = sock[c].fd
      BY <2>1, <2>2, SockSides
    <2>4. [sock EXCEPT ![c].wr = FALSE] = [sock EXCEPT ![c] = w]
      BY <2>1, <2>2
    <2>5. CASE sock' = sock
      BY <2>1, <2>5
    <2>6. CASE sock' = [sock EXCEPT ![c] = w]
      BY <2>1, <2>3, <2>6
    <2> QED
      BY <2>1, <2>4, <2>5, <2>6
  <1> DEFINE rx == If(revents[c] \cap {"IN", "RDHUP", "HUP"} # {}, <<"flow_rx">>)
             tx == If(revents[c] \cap {"OUT", "HUP"} # {}, <<"flow_tx">>)
  <1>5. calls' = rx \o tx
    BY DEF OnConn
  <1>6. rx \in Seq(Plain) /\ tx \in Seq(Plain)
    BY PlainCalls DEF If, Plain
  <1> HIDE DEF rx, tx
  <1>7. calls' \in Seq(Plain)
    BY <1>5, <1>6
  <1>8. calls' \in Seq(Functions)
    BY <1>7 DEF Functions, Lasting
  <1>9. \A k \in 1 .. Len(calls') : calls'[k] \notin Endings
    BY <1>7 DEF Plain, Endings
  <1>10. EndsLast' /\ ClosedFirst' /\ Running'
    BY <1>2, <1>3, <1>9 DEF EndsLast, ClosedFirst, Running, Last, Preceded, Endings
  <1>11. Control'
    BY <1>2, <1>3, <1>4, <1>8 DEF CInv, Control
  <1>12. Registered'
    BY <1>2, <1>4 DEF CInv, Registered
  <1> QED
    BY <1>2, <1>10, <1>11, <1>12 DEF CInv

\* aem_net_on_accept, and one turn of its loop.
LEMMA AcceptKeeps ==
  ASSUME CInv
  PROVE  /\ OnAccept => CInv'
         /\ \A c \in Conns : Accept(c) => CInv' /\ c \notin reg
  <1>1. ASSUME OnAccept
        PROVE  CInv'
    <2>1. Srv \in Evts
      BY DEF Evts
    <2>2. /\ Reports' /\ reg' = reg /\ live' = live /\ queue' = queue
          /\ trClose' = trClose /\ at' \in Evts \cup {None} /\ revents' \in [Evts -> SUBSET Bits]
      BY <1>1, <2>1, DeliverKeeps DEF OnAccept
    <2>3. UNCHANGED <<sock, on, calls>>
      BY <1>1 DEF OnAccept
    <2>4. Control'
      BY <2>2, <2>3 DEF CInv, Control
    <2>5. Registered' /\ EndsLast' /\ ClosedFirst' /\ Running'
      BY <2>2, <2>3 DEF CInv, Registered, EndsLast, ClosedFirst, Running
    <2> QED
      BY <2>2, <2>4, <2>5 DEF CInv
  <1>2. ASSUME NEW c \in Conns, Accept(c)
        PROVE  CInv' /\ c \notin reg
    <2>1. /\ c \notin live /\ live' = live \cup {c} /\ sock' = [sock EXCEPT ![c] = NewSock]
          /\ trClose' = [trClose EXCEPT ![c] = TrCloses] /\ reg' = reg \cup {c}
          /\ on' = c /\ calls' = <<"flow_tx">> /\ UNCHANGED <<revents, queue, at, phase>>
          /\ at = Srv /\ calls = <<>>
      BY <1>2 DEF Accept, loop
    <2>2. c \notin reg /\ c \in Evts
      BY <2>1 DEF CInv, Registered, Evts
    <2>3. sock' \in [Conns -> Sock] /\ sock'[c].fd /\ \A x \in Conns : x # c => sock'[x] = sock[x]
      BY <2>1, SockForms DEF CInv, Control
    <2>4. calls' \in Seq(Functions)
      BY <2>1 DEF Functions, Lasting, Plain, Endings
    <2>5. trClose' \in [Conns -> BOOLEAN]
      BY <2>1, ServerAssumption DEF CInv, Control
    <2>6. Control'
      BY <2>1, <2>2, <2>3, <2>4, <2>5 DEF CInv, Control
    <2>7. at # None
      BY <2>1, ServerAssumption DEF Evts
    <2>8. Busy /\ phase # "start"
      BY <2>7 DEF CInv, Reports, Busy
    <2>9. Reports'
      BY <2>1, <2>8 DEF CInv, Reports, Busy
    <2>10. Registered'
      BY <2>1, <2>3 DEF CInv, Registered
    <2>11. EndsLast' /\ ClosedFirst' /\ Running'
      <3>1. Len(calls') = 1 /\ calls'[1] = "flow_tx"
        BY <2>1
      <3>2. \A k \in 1 .. Len(calls') : calls'[k] \notin Endings
        BY <3>1 DEF Endings
      <3> QED
        BY <2>1, <3>2 DEF EndsLast, ClosedFirst, Running, Last, Preceded, Endings
    <2> QED
      BY <2>2, <2>6, <2>9, <2>10, <2>11 DEF CInv
  <1> QED
    BY <1>1, <1>2

\* The world changes the peers, and the phase when a signal comes.
LEMMA WorldKeeps ==
  ASSUME CInv, World
  PROVE  CInv'
  <1>1. CASE Signal
    <2>1. UNCHANGED <<ends, poller, at, live, on, calls, queue>> /\ phase # "done"
          /\ phase' = IF phase = "poll" THEN "process" ELSE phase
      BY <1>1 DEF Signal
    <2>2. Control' /\ Registered' /\ EndsLast' /\ ClosedFirst' /\ Running'
      BY <2>1 DEF CInv, Control, Registered, EndsLast, ClosedFirst, Running, ends, poller
    <2>3. Reports'
      BY <2>1 DEF CInv, Reports, Busy, poller
    <2> QED
      BY <2>2, <2>3 DEF CInv
  <1>2. CASE \E c \in Conns : PeerSends(c) \/ PeerFinishes(c) \/ PeerReads(c) \/ PeerResets(c)
    <2>1. UNCHANGED <<ends, loop, poller, live, on, calls, queue>>
      BY <1>2 DEF PeerSends, PeerFinishes, PeerReads, PeerResets, PeerDoes
    <2> QED
      BY <2>1 DEF CInv, Control, Reports, Registered, EndsLast, ClosedFirst, Running, Busy, ends, loop, poller
  <1> QED
    BY <1>1, <1>2 DEF World

\* The steps of the code of a connection.
LEMMA StepKeeps ==
  ASSUME CInv, Step
  PROVE  CInv'
  <1>0. Control /\ trClose \in [Conns -> BOOLEAN]
    BY DEF CInv, Control
  <1>1. ASSUME PlainTurn
        PROVE  CInv'
    BY <1>0, <1>1, StopsKeeps, PlainTurnLasts, TurnKeeps DEF PlainTurn
  <1>2. CASE DetachRx \/ RxDetached \/ DetachTx \/ DetachTrSink \/ DetachTrSource \/ TrSourceDetached
    BY <1>0, <1>1, <1>2, DetachTurns
  <1>3. CASE TrConsume \/ TrProvide
    BY <1>0, <1>1, <1>3, TransducerTurns
  <1>4. CASE FlowRx \/ OnRx \/ OnRxEnd
    BY <1>0, <1>1, <1>4, RxTurns
  <1>5. CASE FlowTx \/ OnTx \/ CloseIfDone \/ Closed
    BY <1>0, <1>1, <1>5, TxTurns
  <1>6. CASE TrClose
    BY <1>0, <1>6, TrCloseTurns, TurnKeeps
  <1>7. CASE SockClose \/ CallRcu \/ Barrier \/ ConnDtor \/ Free
    BY <1>7, SockCloseKeeps, CallRcuKeeps, BarrierKeeps, ConnDtorKeeps, FreeKeeps
  <1> QED
    BY <1>2, <1>3, <1>4, <1>5, <1>6, <1>7 DEF Step

\* Every step keeps the order of the calls and what the poller knows.
LEMMA NextKeeps ==
  ASSUME CInv, [Next]_vars
  PROVE  CInv'
  <1>1. CASE UNCHANGED vars
    <2>1. Stops
      BY <1>1 DEF vars, Stops
    <2> QED
      BY <2>1, StopsKeeps
  <1>2. CASE Main
    BY <1>2, LoopKeeps, AcceptKeeps, OnConnKeeps DEF Main
  <1> QED
    BY <1>1, <1>2, StepKeeps, WorldKeeps DEF Next

\* At the start nothing is allocated and nothing runs.
LEMMA InitHolds ==
  ASSUME Init
  PROVE  CInv
  <1>1. Control
    <2>1. calls \in Seq(Functions) /\ queue \in Seq(Conns)
      BY DEF Init
    <2>2. sock \in [Conns -> Sock]
      BY SockForms DEF Init
    <2> QED
      BY <2>1, <2>2 DEF Control, Init
  <1>2. Reports /\ Registered
    BY DEF Reports, Registered, Init
  <1>3. EndsLast /\ ClosedFirst /\ Running
    BY DEF EndsLast, ClosedFirst, Running, Last, Preceded, Init
  <1> QED
    BY <1>1, <1>2, <1>3 DEF CInv

\* In every behaviour of the server the callbacks of a connection end in the
\* order that conn_free and conn_free_rcu rely on, and what is registered with
\* the poller is a connection in memory with its socket open.
THEOREM ControlInvariant == Spec => []CInv
  <1>1. Init => CInv
    BY InitHolds
  <1>2. CInv /\ [Next]_vars => CInv'
    BY NextKeeps
  <1> QED
    BY <1>1, <1>2, PTL DEF Spec

-----------------------------------------------------------------------------
(* A connection is freed once, if conn->tr.on_close is not set: FreedOnce *)

\* What ends a connection: the request to free it, and its destructor.
Leavings == Endings \cup {"call_rcu"}

\* A connection that waits to be freed is in memory, and closed.
Waiting == \A k \in 1 .. Len(queue) : queue[k] \in live /\ ~sock[queue[k]].fd

\* No connection waits twice.
WaitsOnce == \A j, k \in 1 .. Len(queue) : queue[j] = queue[k] => j = k

\* When the end of a connection is on the stack, its socket is closed, it does
\* not wait to be freed, and nothing else on the stack ends it.
Leaves ==
    /\ Occurs(Leavings, calls) => ~sock[on].fd /\ ~InQueue(on)
    /\ Once(Leavings, calls)

FreeOnce ==
    /\ \A c \in Conns : ~trClose[c]
    /\ Waiting /\ WaitsOnce /\ Leaves
    /\ failed \notin {"enqueued", "freed"}

\* A sequence without any of X, from an empty one or from one that has none.
LEMMA OccursNot ==
  ASSUME NEW P, NEW X, P \cap X = {}, NEW a \in Seq(P)
  PROVE  ~Occurs(X, a) /\ Once(X, a)
  BY DEF Occurs, Once

\* A step that calls nothing of the end of a connection.
LEMMA TurnFreesOnce ==
  ASSUME CInv, FreeOnce, Turn(Plain), \A c \in Conns : ~trClose'[c]
  PROVE  FreeOnce'
  <1>1. calls # <<>> /\ UNCHANGED <<live, on, queue, failed>>
    BY DEF Turn
  <1>2. PICK cs \in Seq(Plain), s \in Sock :
          s.fd = S.fd /\ sock' = [sock EXCEPT ![on] = s] /\ calls' = cs \o Tail(calls)
    BY DEF Turn
  <1>3. on \in Conns /\ sock \in [Conns -> Sock] /\ queue \in Seq(Conns) /\ calls \in Seq(Functions)
    BY DEF CInv, Control
  <1>4. \A c \in Conns : sock'[c].fd = sock[c].fd
    BY <1>2, <1>3 DEF S
  <1>5. Plain \subseteq Functions /\ Plain \cap Leavings = {}
    BY DEF Plain, Functions, Lasting, Leavings, Endings
  <1>6. Once(Leavings, calls)
    BY DEF FreeOnce, Leaves
  <1>7. PICK b : b = cs \o Tail(calls)
    OBVIOUS
  <1>8. Once(Leavings, b) /\ (Occurs(Leavings, b) => Occurs(Leavings, calls))
    BY <1>1, <1>3, <1>5, <1>6, <1>7, OncePushed, OccursPushed
  <1>9. InQueue(on)' <=> InQueue(on)
    BY <1>1 DEF InQueue
  <1>10. Leaves'
    BY <1>1, <1>2, <1>3, <1>4, <1>7, <1>8, <1>9 DEF FreeOnce, Leaves
  <1>11. Waiting' /\ WaitsOnce'
    BY <1>1, <1>3, <1>4 DEF FreeOnce, Waiting, WaitsOnce
  <1> QED
    BY <1>1, <1>10, <1>11 DEF FreeOnce

\* A step that is not about the end of a connection.
LEMMA OthersFreeOnce ==
  ASSUME FreeOnce, UNCHANGED <<ends, live, on, calls, queue>>, failed' \notin {"enqueued", "freed"}
  PROVE  FreeOnce'
  BY DEF FreeOnce, Waiting, WaitsOnce, Leaves, InQueue, ends

\* aem_net_sock_close calls conn_free when the socket was open, and then the
\* connection was not yet leaving.
LEMMA SockCloseFreesOnce ==
  ASSUME CInv, FreeOnce, SockClose
  PROVE  FreeOnce'
  <1>1. CASE Abort("open")
    <2>1. Stops /\ failed' = "open"
      BY <1>1 DEF Abort, Stops
    <2> QED
      BY <2>1, OthersFreeOnce DEF Stops
  <1>2. CASE ~Abort("open")
    <2> DEFINE cs == If(S.fd /\ S.onClose, ConnFree \o <<"closed">>)
    <2>1. calls # <<>> /\ calls[1] = "sock_close" /\ calls \in Seq(Functions)
      BY DEF SockClose, Calling, CInv, Control
    <2>2. Local(Shut(S), U, D, cs) /\ UNCHANGED <<trClose, peer, queue>>
      BY <1>2 DEF SockClose
    <2>3. on \in Conns /\ sock \in [Conns -> Sock] /\ S \in Sock /\ queue \in Seq(Conns)
      BY DEF CInv, Control, S
    <2>4. ~sock'[on].fd /\ \A c \in Conns : c # on => sock'[c] = sock[c]
      BY <2>2, <2>3, SockSet DEF Local
    <2>5. UNCHANGED <<on, live, queue, trClose, failed>> /\ calls' = cs \o Tail(calls)
      BY <2>2 DEF Local, Call
    <2>6. cs \in Seq(Lasting) /\ Once(Leavings, cs) /\ (Occurs(Leavings, cs) => S.fd)
      <3>1. PICK f : f = ConnFree \o <<"closed">>
        OBVIOUS
      <3>2. PICK c : c = ConnFree
        OBVIOUS
      <3>3. c \in Seq(Lasting) /\ Once(Leavings, c)
        BY <3>2 DEF ConnFree, Lasting, Plain, Leavings, Endings, Once
      <3>4. f \in Seq(Lasting) /\ Once(Leavings, f)
        <4>1. PICK d : d = <<"closed">>
          OBVIOUS
        <4>2. d \in Seq(Plain) /\ d \in Seq(Lasting)
          BY <4>1, PlainCalls DEF Plain, Lasting
        <4>3. Plain \cap Leavings = {}
          BY DEF Plain, Leavings, Endings
        <4>4. \A k \in 1 .. Len(d) : d[k] \notin Leavings
          BY <4>2, <4>3
        <4>5. f = c \o d
          BY <3>1, <3>2, <4>1
        <4>6. \A k \in 1 .. Len(f) : f[k] \in Leavings => k \in 1 .. Len(c) /\ f[k] = c[k]
          BY <3>3, <4>2, <4>4, <4>5, Joined
        <4> QED
          BY <3>3, <4>2, <4>5, <4>6, Joined DEF Once
      <3>5. <<>> \in Seq(Lasting) /\ Once(Leavings, <<>>) /\ ~Occurs(Leavings, <<>>)
        BY DEF Once, Occurs
      <3> QED
        BY <3>1, <3>4, <3>5 DEF If
    <2> HIDE DEF cs
    <2>7. PICK b : b = cs \o Tail(calls)
      OBVIOUS
    <2>8. S.fd => ~Occurs(Leavings, calls) /\ ~InQueue(on)
      BY <2>3 DEF FreeOnce, Leaves, Waiting, InQueue, S
    <2>9. cs \in Seq(Functions)
      BY <2>6 DEF Functions
    <2>10. Once(Leavings, b)
      <3>1. CASE Occurs(Leavings, cs)
        <4>1. ~Occurs(Leavings, calls)
          BY <3>1, <2>6, <2>8
        <4>2. \A k \in 1 .. Len(b) : b[k] \in Leavings => k \in 1 .. Len(cs) /\ b[k] = cs[k]
          BY <4>1, <2>1, <2>7, <2>9, Pushed DEF Occurs
        <4> QED
          BY <4>2, <2>6 DEF Once
      <3>2. CASE ~Occurs(Leavings, cs)
        <4>1. \A k \in 1 .. Len(cs) : cs[k] \in Functions \ Leavings
          BY <3>2, <2>9 DEF Occurs
        <4>2. cs \in Seq(Functions \ Leavings)
          BY <4>1, <2>9
        <4>3. Once(Leavings, calls)
          BY DEF FreeOnce, Leaves
        <4>4. PICK P : P = Functions \ Leavings
          OBVIOUS
        <4>5. cs \in Seq(P) /\ P \subseteq Functions /\ P \cap Leavings = {}
          BY <4>2, <4>4
        <4> QED
          BY <4>3, <4>5, <2>1, <2>7, OncePushed
      <3> QED
        BY <3>1, <3>2
    <2>11. Occurs(Leavings, b) => ~InQueue(on)
      <3>1. CASE S.fd
        BY <3>1, <2>8
      <3>2. CASE ~S.fd
        <4>1. ~Occurs(Leavings, cs)
          BY <3>2, <2>6
        <4>2. \A k \in 1 .. Len(cs) : cs[k] \in Functions \ Leavings
          BY <4>1, <2>9 DEF Occurs
        <4>3. cs \in Seq(Functions \ Leavings)
          BY <4>2, <2>9
        <4>4. PICK P : P = Functions \ Leavings
          OBVIOUS
        <4>5. cs \in Seq(P) /\ P \subseteq Functions /\ P \cap Leavings = {}
          BY <4>3, <4>4
        <4>6. Occurs(Leavings, b) => Occurs(Leavings, calls)
          BY <4>5, <2>1, <2>7, OccursPushed
        <4> QED
          BY <4>6 DEF FreeOnce, Leaves
      <3> QED
        BY <3>1, <3>2
    <2>12. Leaves'
      BY <2>4, <2>5, <2>7, <2>10, <2>11 DEF Leaves, InQueue
    <2>13. Waiting'
      <3>1. \A k \in 1 .. Len(queue) : queue[k] \in Conns /\ queue[k] \in live /\ ~sock[queue[k]].fd
        BY <2>3 DEF FreeOnce, Waiting
      <3> QED
        BY <3>1, <2>4, <2>5 DEF Waiting
    <2>14. WaitsOnce'
      BY <2>5 DEF FreeOnce, WaitsOnce
    <2> QED
      BY <2>5, <2>12, <2>13, <2>14 DEF FreeOnce
  <1> QED
    BY <1>1, <1>2

\* call_rcu puts a connection on the list that is not there.
LEMMA CallRcuFreesOnce ==
  ASSUME CInv, FreeOnce, CallRcu
  PROVE  FreeOnce'
  <1>1. calls # <<>> /\ calls[1] = "call_rcu" /\ calls \in Seq(Functions)
    BY DEF CallRcu, Calling, CInv, Control
  <1>2. on \in Conns /\ sock \in [Conns -> Sock] /\ queue \in Seq(Conns) /\ on \in live
    BY <1>1 DEF CInv, Control, Running
  <1>3. "call_rcu" \in Leavings
    BY DEF Leavings
  <1>4. Occurs(Leavings, calls)
    <2>1. 1 \in 1 .. Len(calls)
      BY <1>1
    <2> QED
      BY <1>1, <1>3, <2>1 DEF Occurs
  <1>5. ~sock[on].fd /\ ~InQueue(on) /\ Once(Leavings, calls)
    BY <1>4 DEF FreeOnce, Leaves
  <1>6. Local(S, U, D, <<>>) /\ UNCHANGED trClose /\ queue' = <<on>> \o queue
    BY <1>5 DEF CallRcu
  <1>7. sock' = sock /\ UNCHANGED <<on, live, failed>> /\ calls' = <<>> \o Tail(calls)
    BY <1>2, <1>6 DEF Local, Call, S
  <1>8. PICK q : q = <<on>> \o queue
    OBVIOUS
  <1>9. /\ Len(q) = Len(queue) + 1 /\ Len(queue) \in Nat
        /\ \A k \in 1 .. Len(q) : q[k] = IF k = 1 THEN on ELSE queue[k - 1]
        /\ \A k \in 1 .. Len(q) : k # 1 => k - 1 \in 1 .. Len(queue)
    BY <1>2, <1>8
  <1>10. \A k \in 1 .. Len(queue) : queue[k] # on
    BY <1>5 DEF InQueue
  <1>11. Waiting'
    BY <1>2, <1>5, <1>6, <1>7, <1>8, <1>9 DEF FreeOnce, Waiting
  <1>12. WaitsOnce'
    <2>1. SUFFICES ASSUME NEW j \in 1 .. Len(q), NEW k \in 1 .. Len(q), q[j] = q[k]
                   PROVE  j = k
      BY <1>6, <1>8 DEF WaitsOnce
    <2>2. CASE j = 1 \/ k = 1
      BY <2>1, <2>2, <1>9, <1>10
    <2>3. CASE j # 1 /\ k # 1
      <3>1. j - 1 \in 1 .. Len(queue) /\ k - 1 \in 1 .. Len(queue) /\ queue[j - 1] = queue[k - 1]
        BY <2>1, <2>3, <1>9
      <3>2. j - 1 = k - 1
        BY <3>1 DEF FreeOnce, WaitsOnce
      <3> QED
        BY <3>2
    <2> QED
      BY <2>2, <2>3
  <1>13. Leaves'
    <2>1. PICK b : b = <<>> \o Tail(calls)
      OBVIOUS
    <2>2. <<>> \in Seq({}) /\ {} \subseteq Functions /\ {} \cap Leavings = {}
      OBVIOUS
    <2>3. ~Occurs(Leavings, b)
      BY <2>1, <2>2, <1>1, <1>3, <1>5, OnceGone
    <2>4. Once(Leavings, b)
      BY <2>3 DEF Once, Occurs
    <2> QED
      BY <1>7, <2>1, <2>3, <2>4 DEF Leaves
  <1> QED
    BY <1>6, <1>7, <1>11, <1>12, <1>13 DEF FreeOnce

\* synchronize_rcu takes a connection off the list that is in memory.
LEMMA BarrierFreesOnce ==
  ASSUME CInv, FreeOnce, Barrier
  PROVE  FreeOnce'
  <1>1. queue # <<>> /\ queue \in Seq(Conns)
    BY DEF Barrier, CInv, Control
  <1>2. 1 \in 1 .. Len(queue) /\ Len(queue) \in Nat
    BY <1>1
  <1>3. queue[1] \in live /\ ~sock[queue[1]].fd
    BY <1>2 DEF FreeOnce, Waiting
  <1>4. on' = queue[1] /\ queue' = Tail(queue) /\ calls' = Dtor /\ UNCHANGED <<ends, live, failed>>
    BY <1>3 DEF Barrier
  <1>5. PICK q : q = Tail(queue)
    OBVIOUS
  <1>6. Len(q) = Len(queue) - 1 /\ \A k \in 1 .. Len(q) : q[k] = queue[k + 1] /\ k + 1 \in 1 .. Len(queue)
    BY <1>1, <1>2, <1>5
  <1>7. Waiting'
    BY <1>4, <1>5, <1>6 DEF FreeOnce, Waiting, ends
  <1>8. WaitsOnce'
    <2>1. SUFFICES ASSUME NEW j \in 1 .. Len(q), NEW k \in 1 .. Len(q), q[j] = q[k]
                   PROVE  j = k
      BY <1>4, <1>5 DEF WaitsOnce
    <2>2. j + 1 = k + 1
      BY <2>1, <1>6 DEF FreeOnce, WaitsOnce
    <2> QED
      BY <2>2
  <1>9. \A k \in 1 .. Len(q) : q[k] # queue[1]
    <2>1. SUFFICES ASSUME NEW k \in 1 .. Len(q), q[k] = queue[1]
                   PROVE  FALSE
      OBVIOUS
    <2>2. k + 1 = 1
      BY <2>1, <1>2, <1>6 DEF FreeOnce, WaitsOnce
    <2> QED
      BY <2>2
  <1>10. Once(Leavings, Dtor)
    BY DEF Once, Dtor, Leavings, Endings
  <1>11. Leaves'
    BY <1>3, <1>4, <1>5, <1>9, <1>10 DEF Leaves, InQueue, ends
  <1> QED
    BY <1>4, <1>7, <1>8, <1>11 DEF FreeOnce, ends

\* The destructor: the connection that it runs for stays closed, and off the list.
LEMMA ConnDtorFreesOnce ==
  ASSUME CInv, FreeOnce, ConnDtor
  PROVE  FreeOnce'
  <1> DEFINE cs == <<"detach_rx", "detach_tx", "sock_close", "free">>
  <1>1. calls # <<>> /\ calls[1] = "conn_dtor" /\ calls \in Seq(Functions)
    BY DEF ConnDtor, Calling, CInv, Control
  <1>2. Tail(calls) = <<>>
    BY <1>1, LastAlone DEF CInv, EndsLast, Endings
  <1>3. \E u, d : Local(S, u, d, cs)
    BY DEF ConnDtor
  <1>4. on \in Conns /\ sock \in [Conns -> Sock]
    BY DEF CInv, Control
  <1>5. sock' = sock /\ UNCHANGED <<on, live, failed>> /\ calls' = cs \o Tail(calls)
    BY <1>3, <1>4 DEF Local, Call, S
  <1>6. UNCHANGED <<trClose, queue>>
    BY DEF ConnDtor, Quiet
  <1>7. cs \in Seq(Functions)
    BY DEF Functions, Lasting, Plain, Endings
  <1>8. calls' = cs
    <2>1. PICK c : c = cs
      OBVIOUS
    <2>2. c \o <<>> = c
      BY <1>7, <2>1
    <2> QED
      BY <1>2, <1>5, <2>1, <2>2
  <1>9. Once(Leavings, cs)
    BY DEF Once, Leavings, Endings
  <1>10. Occurs(Leavings, calls)
    <2>1. 1 \in 1 .. Len(calls)
      BY <1>1
    <2> QED
      BY <1>1, <2>1 DEF Occurs, Leavings, Endings
  <1>11. ~sock[on].fd /\ ~InQueue(on)
    BY <1>10 DEF FreeOnce, Leaves
  <1> HIDE DEF cs
  <1>12. Leaves'
    BY <1>5, <1>6, <1>8, <1>9, <1>11 DEF Leaves, InQueue
  <1>13. Waiting' /\ WaitsOnce'
    BY <1>5, <1>6 DEF FreeOnce, Waiting, WaitsOnce
  <1> QED
    BY <1>5, <1>6, <1>12, <1>13 DEF FreeOnce

\* free: the memory that goes is that of no connection on the list.
LEMMA FreeFreesOnce ==
  ASSUME CInv, FreeOnce, Free
  PROVE  FreeOnce'
  <1>1. calls # <<>> /\ calls[1] = "free" /\ calls \in Seq(Functions)
    BY DEF Free, Calling, CInv, Control
  <1>2. Occurs(Leavings, calls)
    <2>1. 1 \in 1 .. Len(calls)
      BY <1>1
    <2> QED
      BY <1>1, <2>1 DEF Occurs, Leavings, Endings
  <1>3. \A k \in 1 .. Len(queue) : queue[k] # on
    BY <1>2 DEF FreeOnce, Leaves, InQueue
  <1>4. calls' = <<>>
    BY FreeKeeps
  <1>5. live' = live \ {on} /\ sock' = [sock EXCEPT ![on] = JunkSock] /\ trClose' = [trClose EXCEPT ![on] = FALSE]
        /\ UNCHANGED <<on, queue, failed>>
    BY DEF Free
  <1>6. on \in Conns /\ queue \in Seq(Conns) /\ sock \in [Conns -> Sock] /\ trClose \in [Conns -> BOOLEAN]
    BY DEF CInv, Control
  <1>7. Waiting' /\ WaitsOnce'
    <2>1. \A k \in 1 .. Len(queue) : queue[k] \in Conns /\ queue[k] \in live /\ ~sock[queue[k]].fd
      BY <1>6 DEF FreeOnce, Waiting
    <2> QED
      BY <2>1, <1>3, <1>5, <1>6 DEF FreeOnce, Waiting, WaitsOnce
  <1>8. Leaves'
    BY <1>4 DEF Leaves, Once, Occurs
  <1>9. \A c \in Conns : ~trClose'[c]
    BY <1>5, <1>6 DEF FreeOnce
  <1> QED
    BY <1>5, <1>7, <1>8, <1>9 DEF FreeOnce

\* A new connection is none that waits to be freed, and a callback starts with
\* nothing on the stack.
LEMMA MainFreesOnce ==
  ASSUME ~TrCloses, CInv, FreeOnce, Main
  PROVE  FreeOnce'
  <1>0. queue \in Seq(Conns) /\ sock \in [Conns -> Sock] /\ trClose \in [Conns -> BOOLEAN]
    BY DEF CInv, Control
  <1>1. CASE Listen \/ Poll \/ Return \/ Finish \/ HupAll \/ NextRound \/ OnAccept
    <2>1. UNCHANGED <<ends, live, on, calls, queue, failed>>
      BY <1>1 DEF Listen, Poll, Return, Finish, HupAll, NextRound, OnAccept, Deliver, ends
    <2> QED
      BY <2>1, OthersFreeOnce DEF FreeOnce
  <1>2. ASSUME NEW c \in Conns, OnConn(c)
        PROVE  FreeOnce'
    <2>1. UNCHANGED <<live, queue, trClose, failed>>
      BY <1>2 DEF OnConn, Deliver
    <2>2. \A x \in Conns : sock'[x].fd = sock[x].fd
      <3>1. CASE sock' = sock
        BY <3>1
      <3>2. CASE sock' = [sock EXCEPT ![c].wr = FALSE]
        BY <3>2, <1>0 DEF Sock
      <3> QED
        BY <1>2, <3>1, <3>2 DEF OnConn
    <2> DEFINE rx == If(revents[c] \cap {"IN", "RDHUP", "HUP"} # {}, <<"flow_rx">>)
               tx == If(revents[c] \cap {"OUT", "HUP"} # {}, <<"flow_tx">>)
    <2>3. calls' = rx \o tx
      BY <1>2 DEF OnConn
    <2>4. rx \in Seq(Plain) /\ tx \in Seq(Plain)
      BY PlainCalls DEF If, Plain
    <2> HIDE DEF rx, tx
    <2>5. PICK b : b = rx \o tx
      OBVIOUS
    <2>6. b \in Seq(Plain) /\ Plain \cap Leavings = {}
      BY <2>4, <2>5 DEF Plain, Leavings, Endings
    <2>7. ~Occurs(Leavings, b) /\ Once(Leavings, b)
      BY <2>6, OccursNot
    <2>8. Leaves'
      BY <2>3, <2>5, <2>7 DEF Leaves
    <2>9. Waiting' /\ WaitsOnce'
      BY <2>1, <2>2, <1>0 DEF FreeOnce, Waiting, WaitsOnce
    <2> QED
      BY <2>1, <2>8, <2>9 DEF FreeOnce
  <1>3. ASSUME NEW c \in Conns, Accept(c)
        PROVE  FreeOnce'
    <2>1. /\ c \notin live /\ live' = live \cup {c} /\ sock' = [sock EXCEPT ![c] = NewSock]
          /\ trClose' = [trClose EXCEPT ![c] = TrCloses] /\ calls' = <<"flow_tx">> /\ UNCHANGED <<queue, failed>>
      BY <1>3 DEF Accept
    <2>2. \A x \in Conns : ~trClose'[x]
      BY <2>1, <1>0 DEF FreeOnce
    <2>3. PICK b : b = <<"flow_tx">>
      OBVIOUS
    <2>4. b \in Seq(Plain) /\ Plain \cap Leavings = {}
      BY <2>3, PlainCalls DEF Plain, Leavings, Endings
    <2>5. ~Occurs(Leavings, b) /\ Once(Leavings, b)
      BY <2>4, OccursNot
    <2>6. Leaves'
      BY <2>1, <2>3, <2>5 DEF Leaves
    <2>7. Waiting' /\ WaitsOnce'
      <3>1. \A k \in 1 .. Len(queue) : queue[k] \in Conns /\ queue[k] \in live /\ queue[k] # c /\ ~sock[queue[k]].fd
        BY <2>1, <1>0 DEF FreeOnce, Waiting
      <3> QED
        BY <3>1, <2>1, <1>0 DEF FreeOnce, Waiting, WaitsOnce
    <2> QED
      BY <2>1, <2>2, <2>6, <2>7 DEF FreeOnce
  <1> QED
    BY <1>1, <1>2, <1>3 DEF Main

\* The code of a connection.
LEMMA StepFreesOnce ==
  ASSUME CInv, FreeOnce, Step
  PROVE  FreeOnce'
  <1>0. Control /\ \A c \in Conns : ~trClose[c]
    BY DEF CInv, FreeOnce
  <1>1. ASSUME PlainTurn
        PROVE  FreeOnce'
    <2>1. CASE Stops /\ failed' \in {"busy", "null"}
      BY <2>1, OthersFreeOnce DEF Stops
    <2>2. CASE Turn(Plain) /\ UNCHANGED trClose
      BY <2>2, <1>0, TurnFreesOnce
    <2> QED
      BY <1>1, <2>1, <2>2 DEF PlainTurn
  <1>2. CASE DetachRx \/ RxDetached \/ DetachTx \/ DetachTrSink \/ DetachTrSource \/ TrSourceDetached
    BY <1>0, <1>1, <1>2, DetachTurns
  <1>3. CASE TrConsume \/ TrProvide
    BY <1>0, <1>1, <1>3, TransducerTurns
  <1>4. CASE FlowRx \/ OnRx \/ OnRxEnd
    BY <1>0, <1>1, <1>4, RxTurns
  <1>5. CASE FlowTx \/ OnTx \/ CloseIfDone \/ Closed
    BY <1>0, <1>1, <1>5, TxTurns
  <1>6. CASE TrClose
    <2>1. on \in Conns /\ trClose \in [Conns -> BOOLEAN]
      BY <1>0 DEF Control
    <2>2. Turn(Plain) /\ trClose' = [trClose EXCEPT ![on] = FALSE]
      BY <1>0, <1>6, <2>1, TrCloseTurns
    <2> QED
      BY <1>0, <2>1, <2>2, TurnFreesOnce
  <1>7. CASE SockClose \/ CallRcu \/ Barrier \/ ConnDtor \/ Free
    BY <1>7, SockCloseFreesOnce, CallRcuFreesOnce, BarrierFreesOnce, ConnDtorFreesOnce, FreeFreesOnce
  <1> QED
    BY <1>2, <1>3, <1>4, <1>5, <1>6, <1>7 DEF Step

\* The end of a connection happens once.
LEMMA NextFreesOnce ==
  ASSUME ~TrCloses, CInv, FreeOnce, [Next]_vars
  PROVE  FreeOnce'
  <1>1. CASE UNCHANGED vars
    BY <1>1, OthersFreeOnce DEF vars, FreeOnce
  <1>2. CASE World
    <2>1. UNCHANGED <<ends, live, on, calls, queue, failed>>
      BY <1>2 DEF World, Signal, PeerSends, PeerFinishes, PeerReads, PeerResets, PeerDoes
    <2> QED
      BY <2>1, OthersFreeOnce DEF FreeOnce
  <1> QED
    BY <1>1, <1>2, StepFreesOnce, MainFreesOnce DEF Next

\* If the transducer of a connection has no on_close callback of its own, a
\* connection is freed once: nothing still runs for it, waits on the list of
\* pmcrcu.c or is registered with the poller when its memory is gone.  With the
\* callback, as test/server.c sets it, it is not so: run server_double.
THEOREM AlwaysFreedOnce ==
  ASSUME ~TrCloses
  PROVE  Spec => []FreedOnce
  <1>1. Init => FreeOnce
    BY DEF Init, FreeOnce, Waiting, WaitsOnce, Leaves, Occurs, Once
  <1>2. CInv /\ FreeOnce /\ [Next]_vars => FreeOnce'
    BY NextFreesOnce
  <1>3. CInv /\ FreeOnce => FreedOnce
    BY DEF CInv, FreeOnce, FreedOnce, Registered, Running, Waiting, InQueue
  <1> QED
    BY <1>1, <1>2, <1>3, ControlInvariant, PTL DEF Spec

-----------------------------------------------------------------------------
(* Every callback ends what it began, if no peer is quiet: CallsEnd *)

Flows == {"flow_tx", "tr_provide"}
Sourcing == {"detach_tr_source", "tr_source_detached"}

\* No stream is left between its _begin and its _end.
IdleStream == [src : BOOLEAN, snk : BOOLEAN, state : {0}, fin : BOOLEAN, full : BOOLEAN,
               buf : {NoBuffer} \cup Nat]
Other == [lines : Nat, eof : BOOLEAN, rst : BOOLEAN, room : BOOLEAN]

StreamTypes ==
    /\ up \in [Conns -> IdleStream] /\ down \in [Conns -> IdleStream]
    /\ peer \in [Conns -> Other]

\* The transducer loses its sink only on the way to losing its source.
SinkFirst == \A c \in live : ~up[c].snk /\ down[c].src => on = c /\ Occurs(Sourcing, calls)
SourceNext == Followed("detach_tr_sink", "detach_tr_source", calls)

\* Flowing is the last thing that a callback does, and the transducer is asked to
\* provide only while it has a sink.
FlowsLast == Last(Flows, calls)
Provides == Occurs({"tr_provide"}, calls) => calls = <<"tr_provide">> /\ U.snk

\* Both streams have a buffer.
Begun(c) == up[c].buf # NoBuffer /\ down[c].buf # NoBuffer

\* Or the first lines of a new connection are on their way.
Offered == calls[1] \in {"flow_tx", "tr_provide", "on_rx"} /\ U = NewStream /\ peer[on].lines > 0 /\ ~peer[on].rst
Taken == calls[1] = "tr_consume" /\ U.buf > 0 /\ U = [NewStream EXCEPT !.buf = U.buf]
Beginning == calls # <<>> /\ D = NewStream /\ S.rd /\ S.fd /\ (Offered \/ Taken)
Begins == \A c \in live : Begun(c) \/ (on = c /\ Beginning)

\* A socket that is closed reads and writes no more.
ShutDown == \A c \in Conns : ~sock[c].fd => ~sock[c].rd /\ ~sock[c].wr

EndInv ==
    /\ StreamTypes /\ SinkFirst /\ SourceNext /\ FlowsLast /\ Provides
    /\ Begins /\ ShutDown /\ failed = "none"

\* The flags of a stream are set and cleared.
LEMMA StreamSet ==
  ASSUME NEW t \in IdleStream
  PROVE  /\ t.src \in BOOLEAN /\ t.snk \in BOOLEAN /\ t.state = 0 /\ t.fin \in BOOLEAN /\ t.full \in BOOLEAN
         /\ t.buf \in {NoBuffer} \cup Nat
         /\ Finished(t) \in IdleStream /\ Finished(t).snk = t.snk /\ Finished(t).src = t.src /\ Finished(t).buf = t.buf
         /\ Sourceless(t) \in IdleStream /\ Sourceless(t).snk = t.snk /\ ~Sourceless(t).src /\ Sourceless(t).buf = t.buf
         /\ Sinkless(t) \in IdleStream /\ Sinkless(t).src = t.src /\ Sinkless(t).buf = t.buf
         /\ Fin(t) \in IdleStream /\ Fin(t).snk = t.snk /\ Fin(t).src = t.src /\ Fin(t).buf = t.buf
         /\ Asked(t) \in IdleStream /\ Asked(t).snk = t.snk /\ Asked(t).src = t.src /\ Asked(t).buf = t.buf
  BY DEF IdleStream, Finished, Sourceless, Sinkless, Fin, Asked

\* The same for FULL and FIN, whatever they were.
LEMMA StreamFilled ==
  ASSUME NEW t \in IdleStream, NEW f \in BOOLEAN
  PROVE  /\ [t EXCEPT !.full = f] \in IdleStream /\ [t EXCEPT !.full = f].snk = t.snk
         /\ [t EXCEPT !.full = f].src = t.src /\ [t EXCEPT !.full = f].buf = t.buf
         /\ [t EXCEPT !.fin = f] \in IdleStream /\ [t EXCEPT !.fin = f].snk = t.snk
         /\ [t EXCEPT !.fin = f].src = t.src /\ [t EXCEPT !.fin = f].buf = t.buf
  BY DEF IdleStream

\* Lines come to a stream.
LEMMA StreamLines ==
  ASSUME NEW t \in IdleStream, NEW n \in Nat
  PROVE  /\ [t EXCEPT !.buf = n] \in IdleStream /\ [t EXCEPT !.buf = n].snk = t.snk
         /\ [t EXCEPT !.buf = n].src = t.src /\ [t EXCEPT !.buf = n].buf = n
  BY DEF IdleStream

\* Lines come or go, and the stream is full or not.
LEMMA StreamMoved ==
  ASSUME NEW t \in IdleStream, NEW n \in Nat, NEW f \in BOOLEAN
  PROVE  /\ [t EXCEPT !.buf = n, !.full = f] \in IdleStream /\ [t EXCEPT !.buf = n, !.full = f].snk = t.snk
         /\ [t EXCEPT !.buf = n, !.full = f].src = t.src /\ [t EXCEPT !.buf = n, !.full = f].buf = n
         /\ [t EXCEPT !.full = f, !.buf = n] \in IdleStream /\ [t EXCEPT !.full = f, !.buf = n].snk = t.snk
         /\ [t EXCEPT !.full = f, !.buf = n].src = t.src /\ [t EXCEPT !.full = f, !.buf = n].buf = n
  BY DEF IdleStream

\* A new stream, and the memory of none.
LEMMA StreamForms ==
  /\ NewStream \in IdleStream /\ NewStream.src /\ NewStream.snk /\ NewStream.buf = NoBuffer
  /\ ~NewStream.full /\ ~NewStream.fin
  /\ Junk \in IdleStream /\ Junk.snk = FALSE /\ Junk.src = FALSE
  /\ NoPeer \in Other
  BY DEF IdleStream, NewStream, Junk, NoPeer, NoBuffer, Other

\* What runs, but for the first lines of a connection, runs with both buffers.
LEMMA HasBegun ==
  ASSUME CInv, EndInv, calls # <<>>
  PROVE  /\ on \in live /\ on \in Conns /\ sock \in [Conns -> Sock] /\ S \in Sock
         /\ U \in IdleStream /\ D \in IdleStream
         /\ up[on] = U /\ down[on] = D /\ sock[on] = S
         /\ ~S.fd => ~S.rd /\ ~S.wr
         /\ calls \in Seq(Functions)
         /\ (U.buf # NoBuffer /\ D.buf # NoBuffer) \/ Beginning
         /\ calls[1] \notin {"flow_tx", "tr_provide", "on_rx", "tr_consume"} =>
              U.buf # NoBuffer /\ D.buf # NoBuffer
  <1>1. on \in live /\ on \in Conns /\ sock \in [Conns -> Sock] /\ calls \in Seq(Functions)
    BY DEF CInv, Control, Running
  <1>2. U \in IdleStream /\ D \in IdleStream /\ S \in Sock
    BY <1>1 DEF EndInv, StreamTypes, U, D, S
  <1>3. Begun(on) \/ Beginning
    BY <1>1 DEF EndInv, Begins
  <1>4. Beginning => calls[1] \in {"flow_tx", "tr_provide", "on_rx", "tr_consume"}
    BY DEF Beginning, Offered, Taken
  <1> QED
    BY <1>1, <1>2, <1>3, <1>4 DEF Begun, U, D, S, EndInv, ShutDown

\* What a step for a connection has to leave, for the invariant to hold.
LEMMA EffectEnds ==
  ASSUME CInv, EndInv, calls # <<>>,
         NEW s \in Sock, NEW u \in IdleStream, NEW d \in IdleStream,
         sock' = [sock EXCEPT ![on] = s], up' = [up EXCEPT ![on] = u], down' = [down EXCEPT ![on] = d],
         UNCHANGED <<on, live, failed>>, peer' \in [Conns -> Other],
         ~s.fd => ~s.rd /\ ~s.wr,
         SourceNext', FlowsLast',
         Occurs({"tr_provide"}, calls') => calls' = <<"tr_provide">> /\ u.snk,
         ~u.snk /\ d.src => Occurs(Sourcing, calls'),
         (u.buf # NoBuffer /\ d.buf # NoBuffer) \/ Beginning'
  PROVE  EndInv'
  <1>1. on \in Conns /\ sock \in [Conns -> Sock] /\ live \subseteq Conns
        /\ up \in [Conns -> IdleStream] /\ down \in [Conns -> IdleStream]
    BY DEF CInv, Control, EndInv, StreamTypes
  <1>2. sock'[on] = s /\ up'[on] = u /\ down'[on] = d
    BY <1>1
  <1>3. \A c \in Conns : c # on => sock'[c] = sock[c] /\ up'[c] = up[c] /\ down'[c] = down[c]
    BY <1>1
  <1>4. StreamTypes'
    BY <1>1 DEF StreamTypes
  <1>5. SinkFirst'
    <2>1. SUFFICES ASSUME NEW c \in live, ~up'[c].snk, down'[c].src
                   PROVE  on = c /\ Occurs(Sourcing, calls')
      BY DEF SinkFirst
    <2>2. c = on
      BY <2>1, <1>1, <1>3 DEF EndInv, SinkFirst
    <2> QED
      BY <2>1, <2>2, <1>2
  <1>6. Provides'
    BY <1>2 DEF Provides, U
  <1>7. Begins'
    <2>1. SUFFICES ASSUME NEW c \in live
                   PROVE  Begun(c)' \/ (on' = c /\ Beginning')
      BY DEF Begins
    <2>2. CASE c = on
      BY <2>2, <1>2 DEF Begun
    <2>3. CASE c # on
      BY <2>3, <1>1, <1>3 DEF Begun, EndInv, Begins
    <2> QED
      BY <2>2, <2>3
  <1>8. ShutDown'
    BY <1>2, <1>3 DEF EndInv, ShutDown
  <1> QED
    BY <1>4, <1>5, <1>6, <1>7, <1>8 DEF EndInv

\* A function that flows nothing, and takes no sink from the transducer whose
\* source is not taken next.
LEMMA LocalEnds ==
  ASSUME CInv, EndInv, calls # <<>>,
         NEW s \in Sock, NEW u \in IdleStream, NEW d \in IdleStream,
         NEW cs \in Seq(Functions \ Flows), Followed("detach_tr_sink", "detach_tr_source", cs),
         Local(s, u, d, cs), peer' \in [Conns -> Other],
         ~s.fd => ~s.rd /\ ~s.wr,
         ~u.snk /\ d.src =>
            (~U.snk /\ D.src /\ calls[1] \notin Sourcing) \/ Occurs(Sourcing, cs) \/ Occurs(Sourcing, calls'),
         (u.buf # NoBuffer /\ d.buf # NoBuffer) \/ Beginning'
  PROVE  EndInv'
  <1>1. sock' = [sock EXCEPT ![on] = s] /\ up' = [up EXCEPT ![on] = u] /\ down' = [down EXCEPT ![on] = d]
        /\ UNCHANGED <<on, live, failed>> /\ calls' = cs \o Tail(calls)
    BY DEF Local, Call
  <1>2. calls \in Seq(Functions) /\ on \in live /\ on \in Conns
    BY HasBegun
  <1>3. PICK b : b = cs \o Tail(calls)
    OBVIOUS
  <1>4. PICK P : P = Functions \ Flows
    OBVIOUS
  <1>5. cs \in Seq(P) /\ P \subseteq Functions /\ P \cap Flows = {} /\ cs \in Seq(Functions)
    BY <1>4
  <1>6. Last(Flows, b)
    BY <1>2, <1>3, <1>5, LastPushed DEF EndInv, FlowsLast
  <1>7. Followed("detach_tr_sink", "detach_tr_source", b)
    BY <1>2, <1>3, <1>5, FollowedPushed DEF EndInv, SourceNext
  <1>8. ~Occurs({"tr_provide"}, b)
    <2>1. SUFFICES ASSUME Occurs({"tr_provide"}, b)
                   PROVE  FALSE
      OBVIOUS
    <2>2. P \cap {"tr_provide"} = {}
      BY <1>5 DEF Flows
    <2>3. Occurs({"tr_provide"}, calls)
      BY <2>1, <2>2, <1>2, <1>3, <1>5, OccursPushed
    <2>4. calls = <<"tr_provide">>
      BY <2>3 DEF EndInv, Provides
    <2>5. Tail(calls) = <<>>
      BY <2>4
    <2>6. b = cs
      BY <2>5, <1>3, <1>5
    <2>7. \A k \in 1 .. Len(cs) : cs[k] \in P
      BY <1>5
    <2> QED
      BY <2>1, <2>2, <2>6, <2>7 DEF Occurs
  <1>9. ~u.snk /\ d.src => Occurs(Sourcing, b)
    <2>1. ASSUME ~U.snk, D.src, calls[1] \notin Sourcing
          PROVE  Occurs(Sourcing, b)
      <3>1. Occurs(Sourcing, calls)
        BY <2>1, <1>2 DEF EndInv, SinkFirst, U, D
      <3>2. PICK a, X : a = calls /\ X = Sourcing
        OBVIOUS
      <3>3. a \in Seq(Functions) /\ a # <<>> /\ b = cs \o Tail(a) /\ Occurs(X, a) /\ a[1] \notin X
        BY <3>1, <3>2, <2>1, <1>2, <1>3
      <3>4. Occurs(X, b)
        BY <3>3, <1>5, OccursPushed
      <3> QED
        BY <3>2, <3>4
    <2>2. ASSUME Occurs(Sourcing, cs)
          PROVE  Occurs(Sourcing, b)
      BY <2>2, <1>2, <1>3, <1>5, OccursPushed
    <2> QED
      BY <2>1, <2>2, <1>1, <1>3
  <1>10. SourceNext' /\ FlowsLast'
    BY <1>1, <1>3, <1>6, <1>7 DEF SourceNext, FlowsLast
  <1> QED
    BY <1>1, <1>3, <1>8, <1>9, <1>10, EffectEnds

\* The calls of stream.c, streams.c and net.c that flow nothing.
Gentle == Plain \ (Flows \cup {"detach_tr_sink"})

\* Sequences of them.
LEMMA GentleCalls ==
  /\ <<>> \in Seq(Gentle) /\ ConsumeUp \in Seq(Gentle) /\ ConsumeDown \in Seq(Gentle)
  /\ \A f \in Gentle : <<f>> \in Seq(Gentle)
  /\ \A f, g \in Gentle : <<f, g>> \in Seq(Gentle)
  /\ \A x, y \in Seq(Gentle) : x \o y \in Seq(Gentle)
  /\ \A x \in Seq(Gentle) :
        x \in Seq(Functions \ Flows) /\ Followed("detach_tr_sink", "detach_tr_source", x)
  <1>1. <<>> \in Seq(Gentle) /\ \A f \in Gentle : <<f>> \in Seq(Gentle)
    OBVIOUS
  <1>2. \A f, g \in Gentle : <<f, g>> \in Seq(Gentle)
    OBVIOUS
  <1>3. "tr_consume" \in Gentle /\ "on_tx" \in Gentle
    BY DEF Gentle, Plain, Flows
  <1>4. ConsumeUp \in Seq(Gentle) /\ ConsumeDown \in Seq(Gentle)
    BY <1>1, <1>3 DEF ConsumeUp, ConsumeDown, If
  <1>5. \A x, y \in Seq(Gentle) : x \o y \in Seq(Gentle)
    OBVIOUS
  <1>6. ASSUME NEW x \in Seq(Gentle)
        PROVE  x \in Seq(Functions \ Flows) /\ Followed("detach_tr_sink", "detach_tr_source", x)
    <2>1. \A k \in 1 .. Len(x) : x[k] \in Gentle /\ x[k] # "detach_tr_sink"
      BY DEF Gentle
    <2>2. Gentle \subseteq Functions \ Flows
      BY DEF Gentle, Functions, Lasting
    <2>3. x \in Seq(Functions \ Flows)
      BY <2>2
    <2> QED
      BY <2>1, <2>3 DEF Followed
  <1> QED
    BY <1>1, <1>2, <1>4, <1>5, <1>6

\* A function that keeps what is attached to the streams, and their buffers.
LEMMA GentleEnds ==
  ASSUME CInv, EndInv, calls # <<>>, calls[1] \notin Sourcing,
         NEW s \in Sock, NEW u \in IdleStream, NEW d \in IdleStream,
         NEW cs \in Seq(Gentle), Local(s, u, d, cs), peer' \in [Conns -> Other],
         ~s.fd => ~s.rd /\ ~s.wr, u.snk = U.snk, d.src => D.src,
         (u.buf # NoBuffer /\ d.buf # NoBuffer) \/ Beginning'
  PROVE  EndInv'
  BY GentleCalls, LocalEnds

\* stream.c: no stream is busy when an end of it is detached, and the transducer
\* loses its source after its sink.
LEMMA DetachEnds ==
  ASSUME CInv, EndInv, DetachRx \/ RxDetached \/ DetachTx \/ DetachTrSink \/ DetachTrSource \/ TrSourceDetached
  PROVE  EndInv'
  <1>0. peer \in [Conns -> Other]
    BY DEF EndInv, StreamTypes
  <1>1. CASE DetachRx
    <2>1. calls # <<>> /\ calls[1] = "detach_rx" /\ peer' = peer
      BY <1>1 DEF DetachRx, Calling, Quiet
    <2>2. /\ S \in Sock /\ U \in IdleStream /\ D \in IdleStream /\ (~S.fd => ~S.rd /\ ~S.wr)
          /\ U.buf # NoBuffer /\ D.buf # NoBuffer
      BY <2>1, HasBegun
    <2>3. \E u \in {Finished(U), U}, cs \in {ConsumeUp \o <<"rx_detached">>, <<>>} : Local(S, u, D, cs)
      BY <1>1 DEF DetachRx
    <2>4. \A cs \in {ConsumeUp \o <<"rx_detached">>, <<>>} : cs \in Seq(Gentle)
      <3>1. "rx_detached" \in Gentle
        BY DEF Gentle, Plain, Flows
      <3> QED
        BY <3>1, GentleCalls
    <2>5. \A u \in {Finished(U), U} : u \in IdleStream /\ u.snk = U.snk /\ u.buf # NoBuffer
      <3>1. Finished(U) \in IdleStream /\ Finished(U).snk = U.snk /\ Finished(U).buf # NoBuffer
        BY <2>2, StreamSet
      <3> QED
        BY <2>2, <3>1
    <2>6. calls[1] \notin Sourcing
      BY <2>1 DEF Sourcing
    <2> QED
      BY <1>0, <2>1, <2>2, <2>3, <2>4, <2>5, <2>6, GentleEnds
  <1>2. CASE RxDetached
    <2>1. calls # <<>> /\ calls[1] = "rx_detached"
      BY <1>2 DEF RxDetached, Calling
    <2>2. /\ S \in Sock /\ U \in IdleStream /\ D \in IdleStream /\ (~S.fd => ~S.rd /\ ~S.wr)
          /\ U.buf # NoBuffer /\ D.buf # NoBuffer
      BY <2>1, HasBegun
    <2>3. Local(S, Sourceless(U), D, <<>>) /\ peer' = peer
      BY <1>2, <2>2, StreamSet DEF RxDetached, Quiet
    <2>4. Sourceless(U) \in IdleStream /\ Sourceless(U).snk = U.snk /\ Sourceless(U).buf # NoBuffer
      BY <2>2, StreamSet
    <2>5. calls[1] \notin Sourcing
      BY <2>1 DEF Sourcing
    <2> QED
      BY <1>0, <2>1, <2>2, <2>3, <2>4, <2>5, GentleCalls, GentleEnds
  <1>3. CASE DetachTx
    <2>1. calls # <<>> /\ calls[1] = "detach_tx"
      BY <1>3 DEF DetachTx, Calling
    <2>2. /\ S \in Sock /\ U \in IdleStream /\ D \in IdleStream /\ (~S.fd => ~S.rd /\ ~S.wr)
          /\ U.buf # NoBuffer /\ D.buf # NoBuffer
      BY <2>1, HasBegun
    <2>3. (\E d \in {Sinkless(D), D} : Local(S, U, d, <<>>)) /\ peer' = peer
      BY <1>3, <2>2, StreamSet DEF DetachTx, Quiet
    <2>4. \A d \in {Sinkless(D), D} : d \in IdleStream /\ d.src = D.src /\ d.buf # NoBuffer
      <3>1. Sinkless(D) \in IdleStream /\ Sinkless(D).src = D.src /\ Sinkless(D).buf # NoBuffer
        BY <2>2, StreamSet
      <3> QED
        BY <2>2, <3>1
    <2>5. calls[1] \notin Sourcing
      BY <2>1 DEF Sourcing
    <2> QED
      BY <1>0, <2>1, <2>2, <2>3, <2>4, <2>5, GentleCalls, GentleEnds
  <1>4. CASE DetachTrSink
    <2>1. calls # <<>> /\ calls[1] = "detach_tr_sink" /\ calls \in Seq(Functions)
      BY <1>4 DEF DetachTrSink, Calling, CInv, Control
    <2>2. /\ S \in Sock /\ U \in IdleStream /\ D \in IdleStream /\ (~S.fd => ~S.rd /\ ~S.wr)
          /\ U.buf # NoBuffer /\ D.buf # NoBuffer
      BY <2>1, HasBegun
    <2>3. PICK u \in {Sinkless(U), U} : Local(S, u, D, <<>>)
      BY <1>4, <2>2, StreamSet DEF DetachTrSink
    <2>4. peer' = peer
      BY <1>4, <2>2, StreamSet DEF DetachTrSink, Quiet
    <2>5. u \in IdleStream /\ u.buf # NoBuffer
      <3>1. Sinkless(U) \in IdleStream /\ Sinkless(U).buf # NoBuffer
        BY <2>2, StreamSet
      <3> QED
        BY <2>2, <3>1
    <2>6. Occurs(Sourcing, calls')
      <3>1. 1 \in 1 .. Len(calls)
        BY <2>1
      <3>2. 1 < Len(calls) /\ calls[1 + 1] = "detach_tr_source"
        BY <2>1, <3>1 DEF EndInv, SourceNext, Followed
      <3>3. 2 \in 1 .. Len(calls) /\ calls[2] \in Sourcing
        BY <2>1, <3>2 DEF Sourcing
      <3>4. PICK b : b = <<>> \o Tail(calls)
        OBVIOUS
      <3>5. b[2 - 1 + Len(<<>>)] = calls[2] /\ 2 - 1 + Len(<<>>) \in 1 .. Len(b)
        <4>1. <<>> \in Seq(Functions)
          OBVIOUS
        <4> QED
          BY <2>1, <3>3, <3>4, <4>1, Pushed
      <3>6. Occurs(Sourcing, b)
        BY <3>3, <3>5 DEF Occurs
      <3> QED
        BY <2>3, <3>4, <3>6 DEF Local, Call
    <2> QED
      BY <1>0, <2>1, <2>2, <2>3, <2>4, <2>5, <2>6, GentleCalls, LocalEnds
  <1>5. CASE DetachTrSource
    <2>1. calls # <<>> /\ calls[1] = "detach_tr_source" /\ peer' = peer
      BY <1>5 DEF DetachTrSource, Calling, Quiet
    <2>2. /\ S \in Sock /\ U \in IdleStream /\ D \in IdleStream /\ (~S.fd => ~S.rd /\ ~S.wr)
          /\ U.buf # NoBuffer /\ D.buf # NoBuffer
      BY <2>1, HasBegun
    <2>3. CASE D.src
      <3>1. PICK cs : cs = ConsumeDown \o <<"tr_source_detached">>
        OBVIOUS
      <3>2. PICK e : e = <<"tr_source_detached">>
        OBVIOUS
      <3>3. e \in Seq(Gentle) /\ Len(e) \in Nat /\ Occurs(Sourcing, e)
        BY <3>2 DEF Gentle, Plain, Flows, Sourcing, Occurs
      <3>4. cs \in Seq(Gentle)
        BY <3>1, <3>2, <3>3, GentleCalls
      <3>5. Occurs(Sourcing, cs)
        <4>1. PICK k \in 1 .. Len(e) : e[k] \in Sourcing
          BY <3>3 DEF Occurs
        <4>2. PICK c : c = ConsumeDown
          OBVIOUS
        <4>3. c \in Seq(Gentle) /\ Len(c) \in Nat /\ cs = c \o e
          BY <3>1, <3>2, <4>2, GentleCalls
        <4>4. k + Len(c) \in 1 .. Len(cs) /\ cs[k + Len(c)] = e[k]
          <5>1. Len(cs) = Len(c) + Len(e)
            BY <3>3, <4>3
          <5>2. k + Len(c) \in 1 .. Len(cs) /\ ~(k + Len(c) <= Len(c)) /\ (k + Len(c)) - Len(c) = k
            BY <3>3, <4>3, <5>1
          <5>3. PICK i : i = k + Len(c)
            OBVIOUS
          <5>4. cs[i] = e[i - Len(c)]
            BY <3>3, <4>3, <5>1, <5>2, <5>3
          <5> QED
            BY <5>2, <5>3, <5>4
        <4> QED
          BY <4>1, <4>4 DEF Occurs
      <3>6. Local(S, U, Finished(D), cs)
        BY <1>5, <2>3, <3>1 DEF DetachTrSource
      <3>7. Finished(D) \in IdleStream /\ Finished(D).buf # NoBuffer
        BY <2>2, StreamSet
      <3> QED
        BY <1>0, <2>1, <2>2, <3>4, <3>5, <3>6, <3>7, GentleCalls, LocalEnds
    <2>4. CASE ~D.src
      <3>1. Local(S, U, D, <<>>)
        BY <1>5, <2>4 DEF DetachTrSource
      <3> QED
        BY <1>0, <2>1, <2>2, <2>4, <3>1, GentleCalls, LocalEnds
    <2> QED
      BY <2>3, <2>4
  <1>6. CASE TrSourceDetached
    <2>1. calls # <<>> /\ calls[1] = "tr_source_detached"
      BY <1>6 DEF TrSourceDetached, Calling
    <2>2. /\ S \in Sock /\ U \in IdleStream /\ D \in IdleStream /\ (~S.fd => ~S.rd /\ ~S.wr)
          /\ U.buf # NoBuffer /\ D.buf # NoBuffer
      BY <2>1, HasBegun
    <2>3. Local(S, U, Sourceless(D), <<>>) /\ peer' = peer
      BY <1>6, <2>2, StreamSet DEF TrSourceDetached, Quiet
    <2>4. Sourceless(D) \in IdleStream /\ ~Sourceless(D).src /\ Sourceless(D).buf # NoBuffer
      BY <2>2, StreamSet
    <2> QED
      BY <1>0, <2>1, <2>2, <2>3, <2>4, GentleCalls, LocalEnds
  <1> QED
    BY <1>1, <1>2, <1>3, <1>4, <1>5, <1>6

\* What the transducer appends to a stream.
LEMMA AppendedOK ==
  ASSUME NEW t \in IdleStream, NEW n \in Nat
  PROVE  /\ Appended(t, n) \in IdleStream /\ Appended(t, n).src = t.src /\ Appended(t, n).snk = t.snk
         /\ t.buf # NoBuffer \/ n > 0 => Appended(t, n).buf # NoBuffer
         /\ Lines(t) \in Nat
  <1>1. t.buf \in {NoBuffer} \cup Nat
    BY StreamSet
  <1>2. Lines(t) \in Nat
    BY <1>1 DEF Lines, Empty, NoBuffer
  <1>3. CASE n = 0
    BY <1>2, <1>3 DEF Appended
  <1>4. CASE n # 0
    <2>1. PICK m : m = Lines(t) + n
      OBVIOUS
    <2>2. m \in Nat /\ m # NoBuffer
      BY <2>1, <1>2 DEF NoBuffer
    <2>3. Appended(t, n) = [t EXCEPT !.buf = m]
      BY <1>4, <2>1 DEF Appended
    <2> QED
      BY <1>2, <2>2, <2>3, StreamLines
  <1> QED
    BY <1>3, <1>4

\* aem_stream_transducer_consume: the first lines come to a stream that has room.
LEMMA TrConsumeEnds ==
  ASSUME "quiet" \notin Env, CInv, EndInv, TrConsume
  PROVE  EndInv'
  <1>0. peer \in [Conns -> Other] /\ peer' = peer
    BY DEF EndInv, StreamTypes, TrConsume, Quiet
  <1>1. calls # <<>> /\ calls[1] = "tr_consume"
    BY DEF TrConsume, Calling
  <1>2. /\ S \in Sock /\ U \in IdleStream /\ D \in IdleStream /\ (~S.fd => ~S.rd /\ ~S.wr)
        /\ (U.buf # NoBuffer /\ D.buf # NoBuffer) \/ Beginning
    BY <1>1, HasBegun
  <1>3. calls[1] \notin Sourcing
    BY <1>1 DEF Sourcing
  <1>4. Beginning => D = NewStream /\ U.buf > 0
    BY <1>1 DEF Beginning, Offered, Taken
  <1>5. U.state = 0 /\ D.state = 0 /\ U.fin \in BOOLEAN /\ D.fin \in BOOLEAN
    BY <1>2, StreamSet
  <1>6. U.buf # NoBuffer
    BY <1>2, <1>4 DEF NoBuffer
  <1>7. ~D.src \/ ~ShouldProvide(D) => D.buf # NoBuffer
    BY <1>2, <1>4 DEF ShouldProvide, Empty, NewStream, NoBuffer
  <1>8. CASE ~D.src
    <2>1. Local(S, U, D, <<"tr_close">>)
      BY <1>8 DEF TrConsume
    <2>2. "tr_close" \in Gentle
      BY DEF Gentle, Plain, Flows
    <2> QED
      BY <2>1, <2>2, <1>0, <1>1, <1>2, <1>3, <1>6, <1>7, <1>8, GentleCalls, GentleEnds
  <1>9. CASE D.src /\ ~ShouldProvide(D)
    <2>1. PICK u : u = [U EXCEPT !.full = TRUE]
      OBVIOUS
    <2>2. u \in IdleStream /\ u.snk = U.snk /\ u.buf = U.buf
      BY <2>1, <1>2, StreamFilled
    <2>3. Local(S, u, D, ConsumeDown)
      BY <1>9, <2>1 DEF TrConsume
    <2> QED
      BY <2>2, <2>3, <1>0, <1>1, <1>2, <1>3, <1>6, <1>7, <1>9, GentleCalls, GentleEnds
  <1>10. CASE D.src /\ ShouldProvide(D)
    <2>1. Transduce
      BY <1>10, <1>5, <1>6 DEF TrConsume
    <2>2. PICK left \in Left :
            LET moved == Appended(Asked(D), Lines(U) - left)
                ends_ == (U.fin \/ D.fin) /\ left = 0
            IN Local(S, [U EXCEPT !.full = FALSE, !.buf = left],
                     [moved EXCEPT !.fin = @ \/ ends_], ConsumeDown)
      BY <2>1 DEF Transduce
    <2>3. Lines(U) \in Nat
      BY <1>2, AppendedOK
    <2>4. left \in Nat /\ left <= Lines(U) /\ (D.buf = NoBuffer => left = 0)
      BY <2>2, <2>3 DEF Left
    <2>5. PICK n : n = Lines(U) - left
      OBVIOUS
    <2>6. n \in Nat /\ (D.buf = NoBuffer => n > 0)
      <3>1. n \in Nat
        BY <2>3, <2>4, <2>5
      <3>2. ASSUME D.buf = NoBuffer
            PROVE  n > 0
        <4>1. U.buf > 0 /\ left = 0
          BY <3>2, <1>2, <1>4, <2>4
        <4>2. U.buf \in {NoBuffer} \cup Nat
          BY <1>2, StreamSet
        <4>3. U.buf \in Nat \ {0} /\ ~(U.buf <= 0)
          BY <4>1, <4>2 DEF NoBuffer
        <4>4. Lines(U) = U.buf
          BY <4>3 DEF Lines, Empty
        <4> QED
          BY <4>1, <4>3, <4>4, <2>5
      <3> QED
        BY <3>1, <3>2
    <2>7. PICK a : a = Asked(D)
      OBVIOUS
    <2>8. a \in IdleStream /\ a.src = D.src /\ a.buf = D.buf
      BY <2>7, <1>2, StreamSet
    <2>9. PICK m : m = Appended(a, n)
      OBVIOUS
    <2>10. m \in IdleStream /\ m.src = D.src /\ m.buf # NoBuffer
      BY <2>6, <2>8, <2>9, AppendedOK
    <2>11. PICK f : f = (m.fin \/ ((U.fin \/ D.fin) /\ left = 0))
      OBVIOUS
    <2>12. f \in BOOLEAN
      BY <2>11
    <2>13. PICK d : d = [m EXCEPT !.fin = f]
      OBVIOUS
    <2>14. d \in IdleStream /\ d.src = D.src /\ d.buf # NoBuffer
      BY <2>10, <2>12, <2>13, StreamFilled
    <2>15. PICK u : u = [U EXCEPT !.full = FALSE, !.buf = left]
      OBVIOUS
    <2>16. u \in IdleStream /\ u.snk = U.snk /\ u.buf # NoBuffer
      <3>1. u \in IdleStream /\ u.snk = U.snk /\ u.buf = left
        BY <2>4, <2>15, <1>2, StreamMoved
      <3>2. left # NoBuffer
        BY <2>4 DEF NoBuffer
      <3> QED
        BY <3>1, <3>2
    <2>17. Local(S, u, d, ConsumeDown)
      <3>1. d = [m EXCEPT !.fin = @ \/ ((U.fin \/ D.fin) /\ left = 0)]
        BY <2>11, <2>13
      <3> QED
        BY <2>2, <2>5, <2>7, <2>9, <2>15, <3>1
    <2> QED
      BY <2>14, <2>16, <2>17, <1>0, <1>1, <1>2, <1>3, GentleCalls, GentleEnds
  <1> QED
    BY <1>8, <1>9, <1>10

\* aem_stream_transducer_provide: it has a sink, and asks for the first lines.
LEMMA TrProvideEnds ==
  ASSUME CInv, EndInv, TrProvide
  PROVE  EndInv'
  <1>1. calls # <<>> /\ calls[1] = "tr_provide" /\ calls \in Seq(Functions)
    BY DEF TrProvide, Calling, CInv, Control
  <1>2. /\ S \in Sock /\ U \in IdleStream /\ D \in IdleStream /\ (~S.fd => ~S.rd /\ ~S.wr)
        /\ (U.buf # NoBuffer /\ D.buf # NoBuffer) \/ Beginning
        /\ on \in Conns
    BY <1>1, HasBegun
  <1>3. U.snk
    <2>1. 1 \in 1 .. Len(calls)
      BY <1>1
    <2> QED
      BY <1>1, <2>1 DEF EndInv, Provides, Occurs
  <1>4. peer \in [Conns -> Other] /\ peer' = peer
    BY <1>3 DEF EndInv, StreamTypes, TrProvide, Quiet
  <1>5. calls[1] \notin Sourcing
    BY <1>1 DEF Sourcing
  <1>6. PICK f : f = ~ShouldProvide(D)
    OBVIOUS
  <1>7. PICK u : u = [U EXCEPT !.full = f]
    OBVIOUS
  <1>8. f \in BOOLEAN
    BY <1>6
  <1>9. u \in IdleStream /\ u.snk = U.snk /\ u.buf = U.buf
    BY <1>2, <1>7, <1>8, StreamFilled
  <1>10. Asked(D) \in IdleStream /\ Asked(D).src = D.src /\ Asked(D).buf = D.buf
    BY <1>2, StreamSet
  <1>11. Local(S, u, Asked(D), If(U.src, <<"on_rx">>))
    BY <1>3, <1>6, <1>7 DEF TrProvide
  <1>12. PICK cs : cs = If(U.src, <<"on_rx">>)
    OBVIOUS
  <1>13. cs \in Seq(Gentle)
    <2>1. "on_rx" \in Gentle
      BY DEF Gentle, Plain, Flows
    <2> QED
      BY <1>12, <2>1, GentleCalls DEF If
  <1>14. Beginning => Beginning'
    <2>1. SUFFICES ASSUME Beginning
                   PROVE  Beginning'
      OBVIOUS
    <2>2. U = NewStream /\ D = NewStream /\ S.rd /\ S.fd /\ peer[on].lines > 0 /\ ~peer[on].rst
      BY <2>1, <1>1 DEF Beginning, Offered, Taken
    <2>3. u = NewStream /\ Asked(D) = NewStream
      BY <2>2, <1>6, <1>7 DEF NewStream, Asked, ShouldProvide, Empty, NoBuffer
    <2>4. cs = <<"on_rx">>
      BY <2>2, <1>12 DEF If, NewStream
    <2>5. calls' # <<>> /\ calls'[1] = "on_rx"
      <3>1. PICK b : b = cs \o Tail(calls)
        OBVIOUS
      <3>2. cs \in Seq(Functions) /\ 1 \in 1 .. Len(cs) /\ cs[1] = "on_rx"
        BY <2>4, <1>13 DEF Gentle, Functions, Lasting
      <3>3. 1 \in 1 .. Len(b) /\ b[1] = cs[1] /\ b \in Seq(Functions)
        BY <3>1, <3>2, <1>1, Pushed
      <3>4. b # <<>>
        BY <3>3
      <3> QED
        BY <3>1, <3>2, <3>3, <3>4, <1>11, <1>12 DEF Local, Call
    <2>6. on' = on /\ U' = u /\ D' = Asked(D) /\ S' = S
      BY <1>2, <1>11 DEF Local, U, D, S, EndInv, StreamTypes, CInv, Control
    <2> QED
      BY <2>2, <2>3, <2>5, <2>6, <1>4 DEF Beginning, Offered
  <1> QED
    BY <1>1, <1>2, <1>4, <1>5, <1>9, <1>10, <1>11, <1>12, <1>13, <1>14, GentleEnds

\* aem_stream_transducer_close, without a callback.
LEMMA TrCloseEnds ==
  ASSUME CInv, FreeOnce, EndInv, TrClose
  PROVE  EndInv'
  <1>1. calls # <<>> /\ calls[1] = "tr_close" /\ peer' = peer /\ peer \in [Conns -> Other]
    BY DEF TrClose, Calling, EndInv, StreamTypes
  <1>2. /\ S \in Sock /\ U \in IdleStream /\ D \in IdleStream /\ (~S.fd => ~S.rd /\ ~S.wr)
        /\ U.buf # NoBuffer /\ D.buf # NoBuffer /\ on \in Conns
    BY <1>1, HasBegun
  <1>3. ~trClose[on]
    BY <1>2 DEF FreeOnce
  <1>4. Local(S, U, D, <<>>)
    BY <1>3 DEF TrClose, If
  <1>5. calls[1] \notin Sourcing
    BY <1>1 DEF Sourcing
  <1> QED
    BY <1>1, <1>2, <1>4, <1>5, GentleCalls, GentleEnds

\* A socket whose events change reads and writes as before.
LEMMA SockWaits ==
  ASSUME NEW s \in Sock, ~s.fd => ~s.rd /\ ~s.wr, NEW b \in SUBSET Bits
  PROVE  /\ Want(s, b) \in Sock /\ (~Want(s, b).fd => ~Want(s, b).rd /\ ~Want(s, b).wr)
         /\ Ignore(s, b) \in Sock /\ (~Ignore(s, b).fd => ~Ignore(s, b).rd /\ ~Ignore(s, b).wr)
  BY SockSet

\* aem_net_flow_rx and aem_net_flow_tx.
LEMMA FlowEnds ==
  ASSUME CInv, EndInv, FlowRx \/ FlowTx
  PROVE  EndInv'
  <1>0. peer \in [Conns -> Other] /\ peer' = peer
    BY DEF EndInv, StreamTypes, FlowRx, FlowTx, Quiet
  <1>1. CASE FlowRx
    <2>1. calls # <<>> /\ calls[1] = "flow_rx"
      BY <1>1 DEF FlowRx, Calling
    <2>2. /\ S \in Sock /\ U \in IdleStream /\ D \in IdleStream /\ (~S.fd => ~S.rd /\ ~S.wr)
          /\ U.buf # NoBuffer /\ D.buf # NoBuffer
      BY <2>1, HasBegun
    <2>3. calls[1] \notin Sourcing /\ "on_rx" \in Gentle
      BY <2>1 DEF Sourcing, Gentle, Plain, Flows
    <2>4. CASE U.src
      <3>1. Local(S, U, D, <<"on_rx">>)
        BY <1>1, <2>4 DEF FlowRx
      <3> QED
        BY <1>0, <2>1, <2>2, <2>3, <3>1, GentleCalls, GentleEnds
    <2>5. CASE ~U.src
      <3>1. PICK s : s = Ignore(S, {"IN"})
        OBVIOUS
      <3>2. s \in Sock /\ (~s.fd => ~s.rd /\ ~s.wr)
        BY <2>2, <3>1, SockWaits DEF Bits
      <3>3. Local(s, U, D, <<>>)
        BY <1>1, <2>5, <3>1 DEF FlowRx
      <3> QED
        BY <1>0, <2>1, <2>2, <2>3, <3>2, <3>3, GentleCalls, GentleEnds
    <2> QED
      BY <2>4, <2>5
  <1>2. CASE FlowTx
    <2>1. calls # <<>> /\ calls[1] = "flow_tx" /\ calls \in Seq(Functions)
      BY <1>2 DEF FlowTx, Calling, CInv, Control
    <2>2. /\ S \in Sock /\ U \in IdleStream /\ D \in IdleStream /\ (~S.fd => ~S.rd /\ ~S.wr)
          /\ (U.buf # NoBuffer /\ D.buf # NoBuffer) \/ Beginning
          /\ on \in live /\ on \in Conns /\ sock \in [Conns -> Sock]
          /\ up[on] = U /\ down[on] = D /\ sock[on] = S
      BY <2>1, HasBegun
    <2>3. calls[1] \notin Sourcing
      BY <2>1 DEF Sourcing
    <2>4. Beginning => D = NewStream
      BY DEF Beginning
    <2>5. CASE D.snk /\ D.src
      <3>1. Local(S, U, D, <<"tr_provide">>)
        BY <1>2, <2>5 DEF FlowTx, If
      <3>2. Tail(calls) = <<>>
        BY <2>1, LastAlone DEF EndInv, FlowsLast, Flows
      <3>3. calls' = <<"tr_provide">> \o Tail(calls) /\ UNCHANGED <<on, live, failed>>
        BY <3>1 DEF Local, Call
      <3>4. calls' = <<"tr_provide">>
        <4>1. PICK c : c = <<"tr_provide">>
          OBVIOUS
        <4>2. c \in Seq(Functions)
          BY <4>1 DEF Functions, Lasting, Plain
        <4>3. c \o <<>> = c
          BY <4>2
        <4> QED
          BY <3>2, <3>3, <4>1, <4>3
      <3>5. U.snk
        <4>1. Len(calls) = 1
          BY <2>1, LastAlone DEF EndInv, FlowsLast, Flows
        <4>2. \A k \in 1 .. Len(calls) : calls[k] \notin Sourcing
          BY <2>1, <4>1 DEF Sourcing
        <4>3. ~Occurs(Sourcing, calls)
          BY <4>2 DEF Occurs
        <4> QED
          BY <4>3, <2>2, <2>5 DEF EndInv, SinkFirst
      <3>6. SourceNext' /\ FlowsLast'
        <4>1. Len(calls') = 1 /\ calls'[1] = "tr_provide"
          BY <3>4
        <4> QED
          BY <4>1 DEF SourceNext, FlowsLast, Followed, Last
      <3>7. Beginning => Beginning'
        <4>1. calls' # <<>> /\ calls'[1] = "tr_provide" /\ sock' = sock /\ up' = up /\ down' = down
          BY <3>1, <3>4, <2>2 DEF Local, EndInv, StreamTypes
        <4> QED
          BY <4>1, <3>3, <1>0, <2>1 DEF Beginning, Offered, Taken, U, D, S
      <3> QED
        BY <1>0, <2>1, <2>2, <2>5, <3>1, <3>3, <3>4, <3>5, <3>6, <3>7, EffectEnds DEF Local
    <2>6. CASE D.snk /\ ~D.src
      <3>1. Local(S, U, D, <<>>)
        BY <1>2, <2>6 DEF FlowTx, If
      <3>2. ~Beginning
        BY <2>4, <2>6, StreamForms
      <3> QED
        BY <1>0, <2>1, <2>2, <2>3, <3>1, <3>2, GentleCalls, GentleEnds
    <2>7. CASE ~D.snk
      <3>1. PICK s : s = Ignore(S, {"OUT"})
        OBVIOUS
      <3>2. s \in Sock /\ (~s.fd => ~s.rd /\ ~s.wr)
        BY <2>2, <3>1, SockWaits DEF Bits
      <3>3. Local(s, U, D, <<>>)
        BY <1>2, <2>7, <3>1 DEF FlowTx
      <3>4. ~Beginning
        BY <2>4, <2>7, StreamForms
      <3> QED
        BY <1>0, <2>1, <2>2, <2>3, <3>2, <3>3, <3>4, GentleCalls, GentleEnds
    <2> QED
      BY <2>5, <2>6, <2>7
  <1> QED
    BY <1>1, <1>2

\* The room that aem_net_on_rx makes in its stream.
LEMMA RoomOK ==
  ASSUME NEW t \in IdleStream
  PROVE  /\ Lines(t) \in Nat
         /\ [t EXCEPT !.buf = Lines(t)] \in IdleStream /\ [t EXCEPT !.buf = Lines(t)].snk = t.snk
         /\ [t EXCEPT !.buf = Lines(t)].buf = Lines(t)
  <1>1. PICK m : m = Lines(t)
    OBVIOUS
  <1>2. m \in Nat
    <2>1. 0 \in Nat
      OBVIOUS
    <2> QED
      BY <1>1, <2>1, AppendedOK
  <1> QED
    BY <1>1, <1>2, StreamLines

\* aem_net_on_rx, with the first lines of a connection or without.
LEMMA OnRxEnds ==
  ASSUME CInv, EndInv, OnRx
  PROVE  EndInv'
  <1>0. peer \in [Conns -> Other]
    BY DEF EndInv, StreamTypes
  <1>1. calls # <<>> /\ calls[1] = "on_rx" /\ calls \in Seq(Functions)
    BY DEF OnRx, Calling, CInv, Control
  <1>2. /\ S \in Sock /\ U \in IdleStream /\ D \in IdleStream /\ (~S.fd => ~S.rd /\ ~S.wr)
        /\ (U.buf # NoBuffer /\ D.buf # NoBuffer) \/ Beginning
        /\ on \in Conns /\ sock \in [Conns -> Sock]
    BY <1>1, HasBegun
  <1>3. calls[1] \notin Sourcing /\ "on_rx_end" \in Gentle
    BY <1>1 DEF Sourcing, Gentle, Plain, Flows
  <1>4. Beginning => D = NewStream /\ S.rd /\ S.fd /\ U = NewStream /\ peer[on].lines > 0 /\ ~peer[on].rst
    BY <1>1 DEF Beginning, Offered, Taken
  <1>5. PICK s : s = IF U.full THEN Ignore(S, {"IN"}) ELSE Want(S, {"IN"})
    OBVIOUS
  <1>6. s \in Sock /\ s.fd = S.fd /\ s.rd = S.rd /\ s.wr = S.wr
    <2>1. {"IN"} \in SUBSET Bits
      BY DEF Bits
    <2> QED
      BY <1>2, <1>5, <2>1, SockSet
  <1>7. CASE ~S.rd
    <2>1. Local(S, U, D, <<>>) /\ peer' = peer
      BY <1>7 DEF OnRx, Quiet
    <2> QED
      BY <2>1, <1>0, <1>1, <1>2, <1>3, <1>4, <1>7, GentleCalls, GentleEnds
  <1>8. CASE S.rd /\ ~ShouldProvide(U)
    <2>1. Local(s, U, D, ConsumeUp) /\ peer' = peer
      BY <1>5, <1>8 DEF OnRx, Quiet
    <2>2. ~Beginning
      BY <1>4, <1>8 DEF ShouldProvide, Empty, NewStream, NoBuffer
    <2> QED
      BY <2>1, <2>2, <1>0, <1>1, <1>2, <1>3, <1>6, GentleCalls, GentleEnds
  <1>9. CASE S.rd /\ ShouldProvide(U)
    <2>1. Received(s, Asked(U))
      BY <1>5, <1>9 DEF OnRx
    <2>2. PICK u0 : u0 = Asked(U)
      OBVIOUS
    <2>3. u0 \in IdleStream /\ u0.snk = U.snk
      BY <2>2, <1>2, StreamSet
    <2>4. PICK room : room = [u0 EXCEPT !.buf = Lines(u0)]
      OBVIOUS
    <2>5. room \in IdleStream /\ room.snk = U.snk /\ room.buf = Lines(u0) /\ Lines(u0) \in Nat
      BY <2>3, <2>4, RoomOK
    <2>6. room.buf # NoBuffer /\ room.buf \in Nat
      BY <2>5 DEF NoBuffer
    <2>7. PICK ended : ended = [room EXCEPT !.fin = TRUE]
      OBVIOUS
    <2>8. ended \in IdleStream /\ ended.snk = U.snk /\ ended.buf # NoBuffer
      BY <2>5, <2>6, <2>7, StreamFilled
    <2>9. PICK cs : cs = ConsumeUp \o <<"on_rx_end">>
      OBVIOUS
    <2>10. cs \in Seq(Gentle)
      BY <2>9, <1>3, GentleCalls
    <2>11. ~s.fd => ~s.rd /\ ~s.wr
      BY <1>2, <1>6
    <2>12. CASE peer[on].rst
      <3>1. PICK open \in BOOLEAN : Local([s EXCEPT !.rd = open], ended, D, cs)
        BY <2>1, <2>2, <2>4, <2>7, <2>9, <2>12 DEF Received
      <3>2. peer' = peer
        BY <2>1, <2>12 DEF Received
      <3>3. PICK t : t = [s EXCEPT !.rd = open]
        OBVIOUS
      <3>4. t \in Sock /\ t.fd = s.fd
        <4>1. s \in Sock /\ open \in BOOLEAN
          BY <1>6
        <4>2. HasRead(t, s, open)
          BY <3>3 DEF HasRead
        <4> QED
          BY <4>1, <4>2, ReadSocks
      <3>5. t.fd
        BY <3>4, <1>2, <1>6, <1>9
      <3>6. U.buf # NoBuffer /\ D.buf # NoBuffer
        BY <1>2, <1>4, <2>12
      <3> QED
        BY <3>1, <3>2, <3>3, <3>4, <3>5, <3>6, <1>0, <1>1, <1>2, <1>3, <2>8, <2>10, GentleEnds
    <2>13. CASE ~peer[on].rst /\ peer[on].lines > 0
      <3>1. PICK n \in 1 .. peer[on].lines :
              /\ peer' = [peer EXCEPT ![on].lines = @ - n]
              /\ Local(s, [room EXCEPT !.buf = @ + n], D, cs)
        BY <2>1, <2>2, <2>4, <2>9, <2>13 DEF Received
      <3>2. peer[on] \in Other /\ peer[on].lines \in Nat
        BY <1>0, <1>2 DEF Other
      <3>3. peer' \in [Conns -> Other]
        <4>1. PICK k : k = peer[on].lines - n
          OBVIOUS
        <4>2. k \in Nat
          BY <4>1, <3>2
        <4>3. peer' = [peer EXCEPT ![on].lines = k]
          BY <3>1, <4>1
        <4> QED
          BY <4>2, <4>3, <1>0, <1>2 DEF Other
      <3>4. PICK m : m = room.buf + n
        OBVIOUS
      <3>5. m \in Nat /\ m > 0 /\ m # NoBuffer
        BY <3>2, <3>4, <2>6 DEF NoBuffer
      <3>6. PICK u : u = [room EXCEPT !.buf = m]
        OBVIOUS
      <3>7. u \in IdleStream /\ u.snk = U.snk /\ u.buf = m
        BY <3>5, <3>6, <2>5, StreamLines
      <3>8. Local(s, u, D, cs)
        BY <3>1, <3>4, <3>6
      <3>9. Beginning => Beginning'
        <4>1. SUFFICES ASSUME Beginning
                       PROVE  Beginning'
          OBVIOUS
        <4>2. U = NewStream /\ D = NewStream
          BY <4>1, <1>4
        <4>3. u0 = NewStream
          BY <4>2, <2>2 DEF Asked, NewStream, Empty, NoBuffer
        <4>4. u = [NewStream EXCEPT !.buf = u.buf]
          BY <4>3, <2>4, <3>6, <3>7 DEF NewStream
        <4>5. ConsumeUp = <<"tr_consume">>
          BY <4>2, StreamForms DEF ConsumeUp, If
        <4>6. cs[1] = "tr_consume" /\ 1 \in 1 .. Len(cs)
          <5>1. PICK p, q : p = <<"tr_consume">> /\ q = <<"on_rx_end">>
            OBVIOUS
          <5>2. p \in Seq(Functions) /\ q \in Seq(Functions) /\ cs = p \o q /\ 1 \in 1 .. Len(p) /\ p[1] = "tr_consume"
            BY <5>1, <4>5, <2>9 DEF Functions, Lasting, Plain
          <5> QED
            BY <5>2, Joined
        <4>7. calls' # <<>> /\ calls'[1] = "tr_consume"
          <5>1. PICK b : b = cs \o Tail(calls)
            OBVIOUS
          <5>2. cs \in Seq(Functions)
            BY <2>10 DEF Gentle, Functions, Lasting
          <5>3. 1 \in 1 .. Len(b) /\ b[1] = cs[1] /\ b \in Seq(Functions)
            BY <5>1, <5>2, <4>6, <1>1, Pushed
          <5>4. b # <<>>
            BY <5>3
          <5> QED
            BY <5>1, <5>3, <5>4, <4>6, <3>8 DEF Local, Call
        <4>8. on' = on /\ U' = u /\ D' = D /\ S' = s
          BY <3>8, <1>2 DEF Local, U, D, S, EndInv, StreamTypes
        <4>9. s.rd /\ s.fd
          BY <4>1, <1>4, <1>6
        <4> QED
          BY <4>2, <4>4, <4>7, <4>8, <4>9, <3>5, <3>7 DEF Beginning, Taken
      <3> QED
        BY <3>3, <3>5, <3>7, <3>8, <3>9, <1>1, <1>2, <1>3, <1>6, <2>10, <2>11, GentleEnds
    <2>14. CASE ~peer[on].rst /\ ~(peer[on].lines > 0)
      <3>1. U.buf # NoBuffer /\ D.buf # NoBuffer
        BY <1>2, <1>4, <2>14
      <3>2. CASE peer[on].eof
        <4>1. Local(s, ended, D, cs) /\ peer' = peer
          BY <2>1, <2>2, <2>4, <2>7, <2>9, <2>14, <3>2 DEF Received
        <4> QED
          BY <4>1, <3>1, <1>0, <1>1, <1>2, <1>3, <1>6, <2>8, <2>10, <2>11, GentleEnds
      <3>3. CASE ~peer[on].eof
        <4>1. PICK t : t = Want(s, {"IN"})
          OBVIOUS
        <4>2. t \in Sock /\ (~t.fd => ~t.rd /\ ~t.wr)
          BY <4>1, <1>6, <2>11, SockWaits DEF Bits
        <4>3. Local(t, room, D, cs) /\ peer' = peer
          BY <2>1, <2>2, <2>4, <2>9, <2>14, <3>3, <4>1 DEF Received
        <4> QED
          BY <4>2, <4>3, <3>1, <1>0, <1>1, <1>2, <1>3, <2>5, <2>6, <2>10, GentleEnds
      <3> QED
        BY <3>2, <3>3
    <2> QED
      BY <2>12, <2>13, <2>14
  <1> QED
    BY <1>7, <1>8, <1>9

\* aem_net_on_rx_end, aem_net_on_close_if_done and the return of on_close.
LEMMA CloseEnds ==
  ASSUME CInv, EndInv, OnRxEnd \/ CloseIfDone \/ Closed
  PROVE  EndInv'
  <1>0. peer \in [Conns -> Other] /\ peer' = peer
    BY DEF EndInv, StreamTypes, OnRxEnd, CloseIfDone, Closed, Quiet
  <1>1. calls # <<>> /\ calls[1] \in {"on_rx_end", "close_if_done", "closed"}
    BY DEF OnRxEnd, CloseIfDone, Closed, Calling
  <1>2. /\ S \in Sock /\ U \in IdleStream /\ D \in IdleStream /\ (~S.fd => ~S.rd /\ ~S.wr)
        /\ U.buf # NoBuffer /\ D.buf # NoBuffer
    BY <1>1, HasBegun
  <1>3. calls[1] \notin Sourcing
    BY <1>1 DEF Sourcing
  <1>4. {"detach_rx", "close_if_done", "sock_close"} \subseteq Gentle
    BY DEF Gentle, Plain, Flows
  <1>5. CASE OnRxEnd
    <2>1. CASE U.fin
      <3>1. PICK i : i = Ignore(S, {"IN", "RDHUP"})
        OBVIOUS
      <3>2. i \in Sock /\ i.fd = S.fd /\ i.wr = S.wr
        BY <1>2, <3>1, SockSet DEF Bits
      <3>3. PICK s : s = [i EXCEPT !.rd = FALSE]
        OBVIOUS
      <3>4. s \in Sock /\ (~s.fd => ~s.rd /\ ~s.wr)
        BY <1>2, <3>2, <3>3, SockSides
      <3>5. Local(s, U, D, <<"detach_rx", "close_if_done">>)
        BY <1>5, <2>1, <3>1, <3>3 DEF OnRxEnd
      <3>6. <<"detach_rx", "close_if_done">> \in Seq(Gentle)
        BY <1>4, GentleCalls
      <3> QED
        BY <1>0, <1>1, <1>2, <1>3, <3>4, <3>5, <3>6, GentleEnds
    <2>2. CASE ~U.fin
      <3>1. Local(S, U, D, <<>>)
        BY <1>5, <2>2 DEF OnRxEnd
      <3> QED
        BY <1>0, <1>1, <1>2, <1>3, <3>1, GentleCalls, GentleEnds
    <2> QED
      BY <2>1, <2>2
  <1>6. CASE CloseIfDone
    <2>1. If(Done(S), <<"sock_close">>) \in Seq(Gentle)
      BY <1>4, GentleCalls DEF If
    <2>2. Local(S, U, D, If(Done(S), <<"sock_close">>))
      BY <1>6 DEF CloseIfDone
    <2> QED
      BY <1>0, <1>1, <1>2, <1>3, <2>1, <2>2, GentleEnds
  <1>7. CASE Closed
    <2>1. PICK s : s = [S EXCEPT !.onClose = FALSE]
      OBVIOUS
    <2>2. s \in Sock /\ (~s.fd => ~s.rd /\ ~s.wr)
      <3>1. s \in Sock /\ s.fd = S.fd /\ s.rd = S.rd /\ s.wr = S.wr
        BY <1>2, <2>1, SockSides
      <3> QED
        BY <1>2, <3>1
    <2>3. Local(s, U, D, <<>>)
      BY <1>7, <2>1 DEF Closed
    <2> QED
      BY <1>0, <1>1, <1>2, <1>3, <2>2, <2>3, GentleCalls, GentleEnds
  <1> QED
    BY <1>5, <1>6, <1>7

\* The end of aem_net_on_tx, whatever was sent.
LEMMA SentEnds ==
  ASSUME CInv, EndInv, calls # <<>>, calls[1] = "on_tx",
         NEW s \in Sock, ~s.fd => ~s.rd /\ ~s.wr,
         NEW d \in IdleStream, d.src = D.src, d.buf # NoBuffer,
         Sent(s, d), peer' \in [Conns -> Other]
  PROVE  EndInv'
  <1>1. U \in IdleStream /\ U.buf # NoBuffer /\ calls[1] \notin Sourcing
    BY HasBegun DEF Sourcing
  <1>2. CASE Over(d)
    <2>1. PICK i : i = Ignore(s, {"OUT"})
      OBVIOUS
    <2>2. i \in Sock /\ i.fd = s.fd /\ i.rd = s.rd
      BY <2>1, SockSet DEF Bits
    <2>3. PICK t : t = [i EXCEPT !.wr = FALSE]
      OBVIOUS
    <2>4. t \in Sock /\ (~t.fd => ~t.rd /\ ~t.wr)
      BY <2>2, <2>3, SockSides
    <2>5. Local(t, U, d, <<"detach_tx", "close_if_done">>)
      BY <1>2, <2>1, <2>3 DEF Sent
    <2>6. <<"detach_tx", "close_if_done">> \in Seq(Gentle)
      <3>1. "detach_tx" \in Gentle /\ "close_if_done" \in Gentle
        BY DEF Gentle, Plain, Flows
      <3> QED
        BY <3>1, GentleCalls
    <2> QED
      BY <1>1, <2>4, <2>5, <2>6, GentleEnds
  <1>3. CASE ~Over(d)
    <2>1. Local(s, U, d, <<>>)
      BY <1>3 DEF Sent
    <2> QED
      BY <1>1, <2>1, GentleCalls, GentleEnds
  <1> QED
    BY <1>2, <1>3

\* aem_net_on_tx: there is a buffer to send from.
LEMMA OnTxEnds ==
  ASSUME CInv, EndInv, OnTx
  PROVE  EndInv'
  <1>0. peer \in [Conns -> Other]
    BY DEF EndInv, StreamTypes
  <1>1. calls # <<>> /\ calls[1] = "on_tx"
    BY DEF OnTx, Calling
  <1>2. /\ S \in Sock /\ U \in IdleStream /\ D \in IdleStream /\ (~S.fd => ~S.rd /\ ~S.wr)
        /\ U.buf # NoBuffer /\ D.buf # NoBuffer
        /\ on \in Conns
    BY <1>1, HasBegun
  <1>3. D.state = 0 /\ D.buf \in Nat
    BY <1>2, StreamSet
  <1>4. CASE D.buf = 0
    <2>1. PICK s : s = Ignore(S, {"OUT"})
      OBVIOUS
    <2>2. s \in Sock /\ (~s.fd => ~s.rd /\ ~s.wr)
      BY <1>2, <2>1, SockWaits DEF Bits
    <2>3. Sent(s, D) /\ peer' = peer
      BY <1>2, <1>3, <1>4, <2>1 DEF OnTx, Quiet, NothingSent
    <2> QED
      BY <1>0, <1>1, <1>2, <2>2, <2>3, SentEnds
  <1>5. CASE D.buf # 0 /\ SendFails
    <2>1. peer' = peer
      BY <1>5 DEF SendFails, Quiet
    <2>2. S.wr \in BOOLEAN /\ S.fd \in BOOLEAN
      BY <1>2, SockSet
    <2>3. PICK open \in IF S.fd THEN {FALSE, S.wr} ELSE {S.wr} :
            LET s == [S EXCEPT !.wr = open]
            IN Sent(IF D.full THEN WaitForRoom(s) ELSE s, [D EXCEPT !.fin = TRUE])
      BY <1>5 DEF SendFails
    <2>4. open \in BOOLEAN /\ (~S.fd => open = S.wr)
      BY <2>2, <2>3
    <2>5. PICK s : s = [S EXCEPT !.wr = open]
      OBVIOUS
    <2>6. s \in Sock /\ (~s.fd => ~s.rd /\ ~s.wr)
      <3>1. S \in Sock /\ open \in BOOLEAN
        BY <1>2, <2>4
      <3>2. PICK q : q = S
        OBVIOUS
      <3>3. q \in Sock /\ s = [q EXCEPT !.wr = open]
        BY <3>1, <3>2, <2>5
      <3>4. s \in Sock /\ s.fd = q.fd /\ s.rd = q.rd /\ s.wr = open
        BY <3>1, <3>3 DEF Sock
      <3> QED
        BY <1>2, <2>4, <3>2, <3>4
    <2>7. PICK d : d = [D EXCEPT !.fin = TRUE]
      OBVIOUS
    <2>8. d \in IdleStream /\ d.src = D.src /\ d.buf # NoBuffer
      BY <1>2, <2>7, StreamFilled
    <2>9. PICK w : w = WaitForRoom(s)
      OBVIOUS
    <2>10. w \in Sock /\ (~w.fd => ~w.rd /\ ~w.wr)
      BY <2>6, <2>9, SockWaits DEF WaitForRoom, Bits
    <2>11. Sent(w, d) \/ Sent(s, d)
      BY <2>3, <2>5, <2>7, <2>9
    <2> QED
      BY <1>0, <1>1, <2>1, <2>6, <2>8, <2>10, <2>11, SentEnds
  <1>6. ASSUME Sends
        PROVE  peer' \in [Conns -> Other]
    <2>1. PICK room \in BOOLEAN : peer' = [peer EXCEPT ![on].room = room]
      BY <1>6 DEF Sends
    <2> QED
      BY <1>0, <1>2, <2>1 DEF Other
  <1>7. CASE D.buf # 0 /\ SendsAll
    <2>0. PICK n : n = 0
      OBVIOUS
    <2>1. PICK d : d = [D EXCEPT !.buf = n, !.full = FALSE]
      OBVIOUS
    <2>2. d \in IdleStream /\ d.src = D.src /\ d.buf = 0
      <3>1. n \in Nat
        BY <2>0
      <3>2. d \in IdleStream /\ d.src = D.src /\ d.buf = n
        BY <3>1, <1>2, <2>1, StreamMoved
      <3> QED
        BY <3>2, <2>0
    <2>3. Sent(S, d)
      BY <1>7, <2>0, <2>1 DEF SendsAll
    <2>4. peer' \in [Conns -> Other]
      BY <1>6, <1>7 DEF SendsAll
    <2>5. d.buf # NoBuffer
      BY <2>2 DEF NoBuffer
    <2> QED
      BY <1>1, <1>2, <2>2, <2>3, <2>4, <2>5, SentEnds
  <1>8. CASE D.buf # 0 /\ SendsPart
    <2>1. PICK n \in IF peer[on].room THEN 1 .. D.buf - 1 ELSE {0} :
            Sent(WaitForRoom(S), [D EXCEPT !.buf = @ - n, !.full = TRUE])
      BY <1>8 DEF SendsPart
    <2>2. PICK m : m = D.buf - n
      OBVIOUS
    <2>3. m \in Nat /\ m # NoBuffer
      BY <1>3, <2>1, <2>2 DEF NoBuffer
    <2>4. PICK d : d = [D EXCEPT !.buf = m, !.full = TRUE]
      OBVIOUS
    <2>5. d \in IdleStream /\ d.src = D.src /\ d.buf # NoBuffer
      BY <1>2, <2>3, <2>4, StreamMoved
    <2>6. PICK w : w = WaitForRoom(S)
      OBVIOUS
    <2>7. w \in Sock /\ (~w.fd => ~w.rd /\ ~w.wr)
      BY <1>2, <2>6, SockWaits DEF WaitForRoom, Bits
    <2>8. Sent(w, d)
      BY <2>1, <2>2, <2>4, <2>6
    <2>9. peer' \in [Conns -> Other]
      BY <1>0, <1>6, <1>8 DEF SendsPart, Quiet
    <2> QED
      BY <1>1, <2>5, <2>7, <2>8, <2>9, SentEnds
  <1> QED
    BY <1>2, <1>3, <1>4, <1>5, <1>7, <1>8 DEF OnTx

\* aem_net_sock_close, call_rcu and the destructor.
LEMMA FreeingEnds ==
  ASSUME CInv, FreeOnce, EndInv, SockClose \/ CallRcu \/ ConnDtor
  PROVE  EndInv'
  <1>0. peer \in [Conns -> Other]
    BY DEF EndInv, StreamTypes
  <1>1. calls # <<>> /\ calls[1] \in {"sock_close", "call_rcu", "conn_dtor"}
    BY DEF SockClose, CallRcu, ConnDtor, Calling
  <1>2. /\ S \in Sock /\ U \in IdleStream /\ D \in IdleStream /\ (~S.fd => ~S.rd /\ ~S.wr)
        /\ U.buf # NoBuffer /\ D.buf # NoBuffer
        /\ on \in Conns /\ calls \in Seq(Functions)
    BY <1>1, HasBegun
  <1>3. calls[1] \notin Sourcing
    BY <1>1 DEF Sourcing
  <1>4. <<>> \in Seq(Functions \ Flows) /\ Followed("detach_tr_sink", "detach_tr_source", <<>>)
    BY GentleCalls
  <1>5. CASE SockClose
    <2>1. PICK cs : cs = If(S.fd /\ S.onClose, ConnFree \o <<"closed">>)
      OBVIOUS
    <2>2. Local(Shut(S), U, D, cs) /\ peer' = peer
      BY <1>2, <1>5, <2>1 DEF SockClose
    <2>3. Shut(S) \in Sock /\ ~Shut(S).rd /\ ~Shut(S).wr
      BY <1>2, SockSet
    <2>4. cs \in Seq(Functions \ Flows) /\ Followed("detach_tr_sink", "detach_tr_source", cs)
      <3>1. PICK P : P = Functions \ Flows
        OBVIOUS
      <3>2. PICK c, d : c = ConnFree /\ d = <<"closed">>
        OBVIOUS
      <3>3. c \in Seq(P) /\ Followed("detach_tr_sink", "detach_tr_source", c)
        BY <3>1, <3>2 DEF ConnFree, Functions, Lasting, Plain, Flows, Endings, Followed
      <3>4. d \in Seq(P) /\ Followed("detach_tr_sink", "detach_tr_source", d)
        BY <3>1, <3>2 DEF Functions, Lasting, Plain, Flows, Endings, Followed
      <3>5. PICK f : f = c \o d
        OBVIOUS
      <3>6. f \in Seq(P)
        BY <3>3, <3>4, <3>5
      <3>7. \A k \in 1 .. Len(f) : f[k] = "detach_tr_sink" => k \in 1 .. Len(c) /\ f[k] = c[k]
        <4>1. \A k \in 1 .. Len(d) : d[k] # "detach_tr_sink"
          BY <3>2
        <4> QED
          BY <3>3, <3>4, <3>5, <4>1, Joined
      <3>8. Followed("detach_tr_sink", "detach_tr_source", f)
        <4>1. SUFFICES ASSUME NEW k \in 1 .. Len(f), f[k] = "detach_tr_sink"
                       PROVE  k < Len(f) /\ f[k + 1] = "detach_tr_source"
          BY DEF Followed
        <4>2. k \in 1 .. Len(c) /\ c[k] = "detach_tr_sink"
          BY <3>7, <4>1
        <4>3. k < Len(c) /\ c[k + 1] = "detach_tr_source"
          BY <3>3, <4>2 DEF Followed
        <4>4. k + 1 \in 1 .. Len(c) /\ Len(c) \in Nat /\ Len(d) \in Nat /\ Len(f) = Len(c) + Len(d)
          BY <3>3, <3>4, <3>5, <4>3
        <4>5. f[k + 1] = c[k + 1]
          BY <3>3, <3>4, <3>5, <4>4, Joined
        <4> QED
          BY <4>3, <4>4, <4>5
      <3> QED
        BY <1>4, <2>1, <3>1, <3>2, <3>5, <3>6, <3>8 DEF If
    <2> QED
      BY <1>0, <1>1, <1>2, <1>3, <2>2, <2>3, <2>4, LocalEnds
  <1>6. CASE CallRcu
    <2>1. calls[1] = "call_rcu" /\ 1 \in 1 .. Len(calls)
      BY <1>1, <1>2, <1>6 DEF CallRcu, Calling
    <2>2. Occurs(Leavings, calls)
      BY <2>1 DEF Occurs, Leavings
    <2>3. ~InQueue(on)
      BY <2>2 DEF FreeOnce, Leaves
    <2>4. Local(S, U, D, <<>>) /\ peer' = peer
      BY <1>6, <2>3 DEF CallRcu
    <2> QED
      BY <1>0, <1>1, <1>2, <1>3, <1>4, <2>4, LocalEnds
  <1>7. CASE ConnDtor
    <2>1. PICK cs : cs = <<"detach_rx", "detach_tx", "sock_close", "free">>
      OBVIOUS
    <2>2. cs \in Seq(Functions \ Flows)
      BY <2>1 DEF Functions, Lasting, Plain, Flows, Endings
    <2>3. Followed("detach_tr_sink", "detach_tr_source", cs)
      BY <2>1 DEF Followed
    <2>4. PICK u : u = IF U.src THEN Fin(U) ELSE U
      OBVIOUS
    <2>5. u \in IdleStream /\ u.snk = U.snk /\ u.buf # NoBuffer
      BY <1>2, <2>4, StreamSet
    <2>6. PICK d : d = IF D.snk THEN Fin(D) ELSE D
      OBVIOUS
    <2>7. d \in IdleStream /\ d.src = D.src /\ d.buf # NoBuffer
      BY <1>2, <2>6, StreamSet
    <2>8. Local(S, u, d, cs) /\ peer' = peer
      BY <1>7, <2>1, <2>4, <2>6 DEF ConnDtor, Quiet
    <2> QED
      BY <1>0, <1>1, <1>2, <1>3, <2>2, <2>3, <2>5, <2>7, <2>8, LocalEnds
  <1> QED
    BY <1>5, <1>6, <1>7

\* synchronize_rcu starts the destructor of a connection when nothing runs.
LEMMA BarrierEnds ==
  ASSUME CInv, FreeOnce, EndInv, Barrier
  PROVE  EndInv'
  <1>1. calls = <<>> /\ queue # <<>> /\ queue \in Seq(Conns)
    BY DEF Barrier, CInv, Control
  <1>2. 1 \in 1 .. Len(queue)
    BY <1>1
  <1>3. queue[1] \in live
    BY <1>2 DEF FreeOnce, Waiting
  <1>4. on' = queue[1] /\ calls' = Dtor /\ UNCHANGED <<ends, live, peer, failed>>
    BY <1>3 DEF Barrier
  <1>5. \A c \in live : Begun(c) /\ (up[c].snk \/ ~down[c].src)
    BY <1>1 DEF EndInv, Begins, Beginning, SinkFirst, Occurs
  <1>6. SinkFirst' /\ Begins'
    BY <1>4, <1>5 DEF SinkFirst, Begins, Begun, ends
  <1>7. Last(Flows, Dtor) /\ Followed("detach_tr_sink", "detach_tr_source", Dtor) /\ ~Occurs({"tr_provide"}, Dtor)
    BY DEF Last, Followed, Occurs, Dtor, Flows
  <1>8. SourceNext' /\ FlowsLast' /\ Provides'
    BY <1>4, <1>7 DEF SourceNext, FlowsLast, Provides
  <1>9. StreamTypes' /\ ShutDown' /\ failed' = "none"
    BY <1>4 DEF EndInv, StreamTypes, ShutDown, ends
  <1> QED
    BY <1>6, <1>8, <1>9 DEF EndInv

\* free leaves the other connections as they are.
LEMMA FreeEnds ==
  ASSUME CInv, EndInv, Free
  PROVE  EndInv'
  <1>1. calls' = <<>> /\ on \in Conns
    BY FreeKeeps DEF CInv, Control
  <1>2. /\ live' = live \ {on} /\ sock' = [sock EXCEPT ![on] = JunkSock]
        /\ up' = [up EXCEPT ![on] = Junk] /\ down' = [down EXCEPT ![on] = Junk]
        /\ peer' = [peer EXCEPT ![on] = NoPeer] /\ UNCHANGED <<on, failed>>
    BY DEF Free
  <1>3. up \in [Conns -> IdleStream] /\ down \in [Conns -> IdleStream] /\ peer \in [Conns -> Other]
        /\ sock \in [Conns -> Sock] /\ live \subseteq Conns
    BY DEF CInv, Control, EndInv, StreamTypes
  <1>4. StreamTypes'
    BY <1>2, <1>3, StreamForms DEF StreamTypes
  <1>5. \A c \in live' : c \in live /\ c # on /\ up'[c] = up[c] /\ down'[c] = down[c]
    BY <1>1, <1>2, <1>3
  <1>6. \A c \in live' : Begun(c) /\ (up[c].snk \/ ~down[c].src)
    BY <1>5 DEF EndInv, Begins, SinkFirst
  <1>7. SinkFirst' /\ Begins'
    BY <1>5, <1>6 DEF SinkFirst, Begins, Begun
  <1>8. SourceNext' /\ FlowsLast' /\ Provides'
    BY <1>1 DEF SourceNext, FlowsLast, Provides, Followed, Last, Occurs
  <1>9. ShutDown'
    <2>1. \A c \in Conns : sock'[c] = sock[c] \/ sock'[c] = JunkSock
      BY <1>2, <1>3
    <2> QED
      BY <2>1, SockForms DEF EndInv, ShutDown
  <1> QED
    BY <1>2, <1>4, <1>7, <1>8, <1>9 DEF EndInv

\* The callbacks that the event loop starts.
LEMMA OnConnEnds ==
  ASSUME CInv, EndInv, NEW c \in Conns, OnConn(c)
  PROVE  EndInv'
  <1>1. calls = <<>> /\ UNCHANGED <<live, peer, failed>> /\ on' = c
    BY DEF OnConn, Deliver, Idle
  <1>2. up \in [Conns -> IdleStream] /\ down \in [Conns -> IdleStream] /\ peer \in [Conns -> Other]
        /\ sock \in [Conns -> Sock] /\ live \subseteq Conns
    BY DEF CInv, Control, EndInv, StreamTypes
  <1>3. up[c] \in IdleStream /\ down[c] \in IdleStream /\ sock[c] \in Sock
    BY <1>2
  <1>4. PICK u : u = [up[c] EXCEPT !.fin = @ \/ up[c].src]
    OBVIOUS
  <1>5. PICK d : d = [down[c] EXCEPT !.fin = @ \/ down[c].snk]
    OBVIOUS
  <1>6. PICK s : s = [sock[c] EXCEPT !.wr = FALSE]
    OBVIOUS
  <1>7. u \in IdleStream /\ u.snk = up[c].snk /\ u.src = up[c].src /\ u.buf = up[c].buf
    BY <1>3, <1>4 DEF IdleStream
  <1>8. d \in IdleStream /\ d.snk = down[c].snk /\ d.src = down[c].src /\ d.buf = down[c].buf
    BY <1>3, <1>5 DEF IdleStream
  <1>9. s \in Sock /\ s.fd = sock[c].fd /\ s.rd = sock[c].rd /\ ~s.wr
    BY <1>3, <1>6, SockSides
  <1>10. \/ UNCHANGED <<sock, up, down>>
         \/ sock' = [sock EXCEPT ![c] = s] /\ up' = [up EXCEPT ![c] = u] /\ down' = [down EXCEPT ![c] = d]
    <2>1. CASE "HUP" \in revents[c]
      <3>1. sock' = [sock EXCEPT ![c].wr = FALSE] /\ up' = [up EXCEPT ![c].fin = @ \/ up[c].src]
            /\ down' = [down EXCEPT ![c].fin = @ \/ down[c].snk]
        BY <2>1 DEF OnConn
      <3>2. sock' = [sock EXCEPT ![c] = s]
        BY <3>1, <1>6
      <3>3. up' = [up EXCEPT ![c] = u]
        BY <3>1, <1>4
      <3>4. down' = [down EXCEPT ![c] = d]
        BY <3>1, <1>5
      <3> QED
        BY <3>2, <3>3, <3>4
    <2>2. CASE "HUP" \notin revents[c]
      BY <2>2 DEF OnConn
    <2> QED
      BY <2>1, <2>2
  <1>11. StreamTypes'
    BY <1>1, <1>2, <1>7, <1>8, <1>10 DEF StreamTypes
  <1>12. \A x \in Conns : /\ up'[x].snk = up[x].snk /\ up'[x].src = up[x].src /\ up'[x].buf = up[x].buf
                          /\ down'[x].snk = down[x].snk /\ down'[x].src = down[x].src /\ down'[x].buf = down[x].buf
    BY <1>2, <1>7, <1>8, <1>10
  <1>13. \A x \in live : x \in Conns /\ Begun(x) /\ (up[x].snk \/ ~down[x].src)
    BY <1>1, <1>2 DEF EndInv, Begins, Beginning, SinkFirst, Occurs
  <1>14. SinkFirst' /\ Begins'
    BY <1>1, <1>12, <1>13 DEF SinkFirst, Begins, Begun
  <1>15. ShutDown'
    BY <1>2, <1>9, <1>10 DEF EndInv, ShutDown
  <1>16. SourceNext' /\ FlowsLast' /\ Provides'
    <2> DEFINE rx == If(revents[c] \cap {"IN", "RDHUP", "HUP"} # {}, <<"flow_rx">>)
               tx == If(revents[c] \cap {"OUT", "HUP"} # {}, <<"flow_tx">>)
    <2>1. calls' = rx \o tx
      BY DEF OnConn
    <2>2. rx \in Seq({"flow_rx"})
      <3>1. <<"flow_rx">> \in Seq({"flow_rx"})
        OBVIOUS
      <3>2. << >> \in Seq({"flow_rx"})
        OBVIOUS
      <3>3. rx = <<"flow_rx">> \/ rx = << >>
        BY Zenon DEF If
      <3> QED
        BY <3>1, <3>2, <3>3, Zenon
    <2>3. tx \in Seq({"flow_tx"}) /\ Len(tx) <= 1
      <3>1. <<"flow_tx">> \in Seq({"flow_tx"}) /\ Len(<<"flow_tx">>) <= 1
        OBVIOUS
      <3>2. << >> \in Seq({"flow_tx"}) /\ Len(<< >>) <= 1
        OBVIOUS
      <3>3. tx = <<"flow_tx">> \/ tx = << >>
        BY Zenon DEF If
      <3> QED
        BY <3>1, <3>2, <3>3, Zenon
    <2> HIDE DEF rx, tx
    <2>4. PICK P : P = {"flow_rx", "flow_tx"}
      OBVIOUS
    <2>5. rx \in Seq(P) /\ tx \in Seq(P)
      BY <2>2, <2>3, <2>4
    <2>6. PICK a, t, b : a = rx /\ t = tx /\ b = rx \o tx
      OBVIOUS
    <2>7. a \in Seq(P) /\ t \in Seq(P) /\ b = a \o t /\ Len(t) <= 1 /\ \A k \in 1 .. Len(a) : a[k] = "flow_rx"
      BY <2>2, <2>3, <2>5, <2>6
    <2>8. b \in Seq(P) /\ Len(b) = Len(a) + Len(t) /\ Len(a) \in Nat /\ Len(t) \in Nat
      BY <2>7, Joined
    <2>9. \A k \in 1 .. Len(b) : b[k] # "flow_rx" => k > Len(a)
      BY <2>7, Joined
    <2>10. Last(Flows, b)
      <3>1. SUFFICES ASSUME NEW k \in 1 .. Len(b), b[k] \in Flows
                     PROVE  k = Len(b)
        BY DEF Last
      <3>2. k > Len(a)
        BY <2>9, <3>1 DEF Flows
      <3> QED
        BY <3>2, <2>7, <2>8
    <2>11. \A k \in 1 .. Len(b) : b[k] # "tr_provide" /\ b[k] # "detach_tr_sink"
      BY <2>4, <2>8
    <2> QED
      BY <2>1, <2>6, <2>10, <2>11 DEF SourceNext, FlowsLast, Provides, Followed, Occurs
  <1> QED
    BY <1>1, <1>11, <1>14, <1>15, <1>16 DEF EndInv

\* A new connection whose peer has sent something.
LEMMA AcceptEnds ==
  ASSUME "quiet" \notin Env, CInv, EndInv, NEW c \in Conns, Accept(c)
  PROVE  EndInv'
  <1>1. /\ calls = <<>> /\ c \notin live /\ live' = live \cup {c}
        /\ sock' = [sock EXCEPT ![c] = NewSock]
        /\ up' = [up EXCEPT ![c] = NewStream] /\ down' = [down EXCEPT ![c] = NewStream]
        /\ on' = c /\ calls' = <<"flow_tx">> /\ UNCHANGED failed
    BY DEF Accept
  <1>2. PICK n \in 1 .. MaxLines : peer' = [peer EXCEPT ![c] = [NoPeer EXCEPT !.lines = n]]
    BY DEF Accept
  <1>3. up \in [Conns -> IdleStream] /\ down \in [Conns -> IdleStream] /\ peer \in [Conns -> Other]
        /\ sock \in [Conns -> Sock] /\ live \subseteq Conns
    BY DEF CInv, Control, EndInv, StreamTypes
  <1>4. PICK p : p = [NoPeer EXCEPT !.lines = n]
    OBVIOUS
  <1>5. n \in Nat /\ n > 0
    BY <1>2, ServerAssumption
  <1>6. p \in Other /\ p.lines = n /\ ~p.rst
    BY <1>4, <1>5 DEF NoPeer, Other
  <1>7. peer' = [peer EXCEPT ![c] = p]
    BY <1>2, <1>4
  <1>8. StreamTypes'
    BY <1>1, <1>3, <1>6, <1>7, StreamForms DEF StreamTypes
  <1>9. up'[c] = NewStream /\ down'[c] = NewStream /\ sock'[c] = NewSock /\ peer'[c] = p
    BY <1>1, <1>3, <1>7
  <1>10. \A x \in live : x # c /\ x \in Conns /\ up'[x] = up[x] /\ down'[x] = down[x]
    BY <1>1, <1>3
  <1>11. \A x \in live : Begun(x) /\ (up[x].snk \/ ~down[x].src)
    BY <1>1 DEF EndInv, Begins, Beginning, SinkFirst, Occurs
  <1>12. calls' # <<>> /\ calls'[1] = "flow_tx" /\ Len(calls') = 1
    BY <1>1
  <1>13. Beginning'
    BY <1>1, <1>5, <1>6, <1>9, <1>12, SockForms DEF Beginning, Offered, U, D, S
  <1>14. SinkFirst'
    BY <1>1, <1>9, <1>10, <1>11, StreamForms DEF SinkFirst
  <1>15. Begins'
    BY <1>1, <1>10, <1>11, <1>13 DEF Begins, Begun
  <1>16. SourceNext' /\ FlowsLast' /\ Provides'
    BY <1>12 DEF SourceNext, FlowsLast, Provides, Followed, Last, Occurs
  <1>17. ShutDown'
    <2>1. \A x \in Conns : sock'[x] = sock[x] \/ sock'[x] = NewSock
      BY <1>1, <1>3
    <2> QED
      BY <2>1, SockForms DEF EndInv, ShutDown
  <1> QED
    BY <1>1, <1>8, <1>14, <1>15, <1>16, <1>17 DEF EndInv

\* The rest of main and the event loop touch no connection, nor does the world,
\* which keeps what a new connection waits for.
LEMMA OthersEnd ==
  ASSUME CInv, EndInv, UNCHANGED <<ends, live, on, calls, failed>>, peer' \in [Conns -> Other],
         Beginning => Beginning'
  PROVE  EndInv'
  <1>1. sock' = sock /\ up' = up /\ down' = down
    BY DEF ends
  <1>2. StreamTypes'
    BY <1>1 DEF EndInv, StreamTypes
  <1>3. SinkFirst' /\ SourceNext' /\ FlowsLast'
    BY <1>1 DEF EndInv, SinkFirst, SourceNext, FlowsLast
  <1>4. Provides'
    BY <1>1 DEF EndInv, Provides, U
  <1>5. Begins'
    BY <1>1 DEF EndInv, Begins, Begun
  <1>6. ShutDown'
    BY <1>1 DEF EndInv, ShutDown
  <1> QED
    BY <1>2, <1>3, <1>4, <1>5, <1>6 DEF EndInv

\* What the peers do, and a signal.
LEMMA WorldEnds ==
  ASSUME "quiet" \notin Env, CInv, EndInv, World
  PROVE  EndInv'
  <1>0. peer \in [Conns -> Other] /\ on \in Conns
    BY DEF EndInv, StreamTypes, CInv, Control
  <1>1. UNCHANGED <<ends, live, on, calls, failed>>
    BY DEF World, Signal, PeerSends, PeerFinishes, PeerReads, PeerResets, PeerDoes
  <1>2. ASSUME NEW c \in Conns, PeerSends(c) \/ PeerFinishes(c) \/ PeerReads(c) \/ PeerResets(c)
        PROVE  peer' \in [Conns -> Other] /\ (Beginning => Beginning')
    <2>1. peer[c] \in Other /\ peer[c].lines \in Nat
      BY <1>0 DEF Other
    <2>2. PICK p \in Other :
            /\ peer' = [peer EXCEPT ![c] = p]
            /\ c = on /\ Beginning => p.lines >= peer[c].lines /\ p.rst = peer[c].rst
      <3>1. CASE PeerSends(c)
        <4>1. PICK p : p = [peer[c] EXCEPT !.lines = @ + 1]
          OBVIOUS
        <4>2. p \in Other /\ p.lines >= peer[c].lines /\ p.rst = peer[c].rst
          BY <2>1, <4>1 DEF Other
        <4>3. peer' = [peer EXCEPT ![c] = p]
          BY <3>1, <4>1 DEF PeerSends
        <4> QED
          BY <4>2, <4>3
      <3>2. CASE PeerFinishes(c)
        <4>1. PICK p : p = [peer[c] EXCEPT !.eof = TRUE]
          OBVIOUS
        <4>2. p \in Other /\ p.lines >= peer[c].lines /\ p.rst = peer[c].rst
          <5>1. PICK q : q = peer[c]
            OBVIOUS
          <5>2. q \in Other /\ p = [q EXCEPT !.eof = TRUE]
            BY <2>1, <4>1, <5>1
          <5>3. p \in Other /\ p.lines = q.lines /\ p.rst = q.rst
            BY <5>2 DEF Other
          <5>4. q.lines \in Nat
            BY <5>2 DEF Other
          <5>5. p.lines >= q.lines
            BY <5>3, <5>4
          <5> QED
            BY <5>1, <5>3, <5>5
        <4>3. peer' = [peer EXCEPT ![c] = p]
          BY <3>2, <4>1 DEF PeerFinishes
        <4> QED
          BY <4>2, <4>3
      <3>3. CASE PeerReads(c)
        <4>1. PICK p : p = [peer[c] EXCEPT !.room = TRUE]
          OBVIOUS
        <4>2. p \in Other /\ p.lines >= peer[c].lines /\ p.rst = peer[c].rst
          <5>1. PICK q : q = peer[c]
            OBVIOUS
          <5>2. q \in Other /\ p = [q EXCEPT !.room = TRUE]
            BY <2>1, <4>1, <5>1
          <5>3. p \in Other /\ p.lines = q.lines /\ p.rst = q.rst
            BY <5>2 DEF Other
          <5>4. q.lines \in Nat
            BY <5>2 DEF Other
          <5>5. p.lines >= q.lines
            BY <5>3, <5>4
          <5> QED
            BY <5>1, <5>3, <5>5
        <4>3. peer' = [peer EXCEPT ![c] = p]
          BY <3>3, <4>1 DEF PeerReads
        <4> QED
          BY <4>2, <4>3
      <3>4. CASE PeerResets(c)
        <4>1. PICK p : p = [peer[c] EXCEPT !.rst = TRUE, !.lines = 0]
          OBVIOUS
        <4>2. p \in Other
          BY <2>1, <4>1 DEF Other
        <4>3. peer' = [peer EXCEPT ![c] = p]
          BY <3>4, <4>1, <1>0, <2>1 DEF PeerResets, Other
        <4>4. down[c].buf # NoBuffer
          BY <3>4 DEF PeerResets
        <4>5. ~(c = on /\ Beginning)
          BY <4>4, StreamForms DEF Beginning, D
        <4> QED
          BY <4>2, <4>3, <4>5
      <3> QED
        BY <1>2, <3>1, <3>2, <3>3, <3>4
    <2>3. peer' \in [Conns -> Other]
      BY <1>0, <2>2
    <2>4. ASSUME Beginning
          PROVE  Beginning'
      <3>1. sock' = sock /\ up' = up /\ down' = down /\ on' = on /\ calls' = calls
        BY <1>1 DEF ends
      <3>2. Offered => Offered'
        <4>1. peer'[on].lines >= peer[on].lines /\ peer'[on].rst = peer[on].rst
          <5>1. CASE c = on
            BY <5>1, <1>0, <2>2, <2>4
          <5>2. CASE c # on
            <6>1. peer'[on] = peer[on] /\ peer[on].lines \in Nat
              BY <5>2, <1>0, <2>2 DEF Other
            <6> QED
              BY <6>1
          <5> QED
            BY <5>1, <5>2
        <4>2. peer[on].lines \in Nat /\ peer'[on].lines \in Nat
          BY <1>0, <2>3 DEF Other
        <4> QED
          BY <3>1, <4>1, <4>2 DEF Offered, U
      <3>3. Taken => Taken'
        BY <3>1 DEF Taken, U
      <3> QED
        BY <2>4, <3>1, <3>2, <3>3 DEF Beginning, D, S
    <2> QED
      BY <2>3, <2>4
  <1>3. CASE Signal
    <2>1. peer' = peer
      BY <1>3 DEF Signal
    <2>2. Beginning => Beginning'
      BY <1>1, <2>1 DEF Beginning, Offered, Taken, U, D, S, ends
    <2> QED
      BY <1>0, <1>1, <2>1, <2>2, OthersEnd
  <1> QED
    BY <1>1, <1>2, <1>3, OthersEnd DEF World

\* Every step keeps it.
LEMMA NextEnds ==
  ASSUME "quiet" \notin Env, CInv, FreeOnce, EndInv, [Next]_vars
  PROVE  EndInv'
  <1>0. peer \in [Conns -> Other]
    BY DEF EndInv, StreamTypes
  <1>1. ASSUME UNCHANGED <<ends, live, peer, on, calls, failed>>
        PROVE  EndInv'
    <2>1. Beginning => Beginning'
      BY <1>1 DEF Beginning, Offered, Taken, U, D, S, ends
    <2> QED
      BY <1>0, <1>1, <2>1, OthersEnd
  <1>2. CASE UNCHANGED vars
    BY <1>1, <1>2 DEF vars
  <1>3. CASE Step
    BY <1>3, DetachEnds, TrConsumeEnds, TrProvideEnds, TrCloseEnds, FlowEnds, OnRxEnds, CloseEnds,
       OnTxEnds, FreeingEnds, BarrierEnds, FreeEnds DEF Step
  <1>4. CASE Main
    <2>1. CASE Listen \/ Poll \/ Return \/ Finish \/ HupAll \/ NextRound \/ OnAccept
      <3>1. UNCHANGED <<ends, live, peer, on, calls, failed>>
        BY <2>1 DEF Listen, Poll, Return, Finish, HupAll, NextRound, OnAccept, Deliver, ends
      <3> QED
        BY <3>1, <1>1
    <2> QED
      BY <1>4, <2>1, OnConnEnds, AcceptEnds DEF Main
  <1>5. CASE World
    BY <1>5, WorldEnds
  <1> QED
    BY <1>2, <1>3, <1>4, <1>5 DEF Next

\* Before main has listened nothing runs.
LEMMA InitEnds ==
  ASSUME Init
  PROVE  FreeOnce /\ EndInv
  <1>1. calls = <<>> /\ queue = <<>> /\ live = {} /\ failed = "none"
    BY DEF Init
  <1>2. FreeOnce
    BY <1>1 DEF Init, FreeOnce, Waiting, WaitsOnce, Leaves, Occurs, Once
  <1>3. StreamTypes
    BY StreamForms DEF Init, StreamTypes
  <1>4. SinkFirst /\ SourceNext /\ FlowsLast /\ Provides /\ Begins
    BY <1>1 DEF SinkFirst, SourceNext, FlowsLast, Provides, Begins, Followed, Last, Occurs
  <1>5. ShutDown
    BY SockForms DEF Init, ShutDown
  <1> QED
    BY <1>1, <1>2, <1>3, <1>4, <1>5 DEF EndInv

\* If the transducer of a connection has no on_close callback and no peer is
\* quiet, callbacks leave every connection as they must: no assertion of net.c,
\* stream.c, streams.c or pmcrcu.c fails on the way, and no stream is left open.
\* A quiet peer makes it false: run server_quiet.
THEOREM CallsAlwaysEnd ==
  ASSUME ~TrCloses, "quiet" \notin Env
  PROVE  Spec => []CallsEnd
  <1>1. Init => FreeOnce /\ EndInv
    BY InitEnds
  <1>2. CInv /\ FreeOnce /\ EndInv /\ [Next]_vars => (FreeOnce /\ EndInv)'
    BY NextFreesOnce, NextEnds
  <1>3. CInv /\ EndInv => CallsEnd
    <2>1. SUFFICES ASSUME CInv, EndInv
                   PROVE  CallsEnd
      OBVIOUS
    <2>2. \A c \in live : up[c] \in IdleStream /\ down[c] \in IdleStream
      BY <2>1 DEF CInv, Control, EndInv, StreamTypes
    <2>3. \A c \in live : up[c].state = 0 /\ down[c].state = 0
      BY <2>2, StreamSet
    <2> QED
      BY <2>1, <2>3 DEF CallsEnd, AssertionsHold, StreamsIdle, EndInv
  <1> QED
    BY <1>1, <1>2, <1>3, ControlInvariant, PTL DEF Spec


-----------------------------------------------------------------------------
(* Every connection is attended to, and gets its whole reply *)

\* The calls of X come first of all.
First(X, a) == \A k \in 1 .. Len(a) : a[k] \in X => k = 1

\* Only calls of Y wait behind one of X.
Before(X, Y, a) == \A j, k \in 1 .. Len(a) : j < k /\ a[j] \in X => a[k] \in Y

\* The call that runs is fn.
Top(fn, a) == a # <<>> /\ a[1] = fn

\* Calls that come first are no longer waiting when they have been made.
LEMMA FirstPushed ==
  ASSUME NEW F, NEW a \in Seq(F), a # <<>>, NEW cs \in Seq(F), NEW X, First(X, a), First(X, cs),
         NEW b, b = cs \o Tail(a)
  PROVE  First(X, b) /\ \A fn \in X : Top(fn, b) <=> Top(fn, cs)
  <1>1. ASSUME NEW k \in 1 .. Len(b), b[k] \in X
        PROVE  k \in 1 .. Len(cs) /\ b[k] = cs[k]
    <2>1. ~(k - Len(cs) + 1 \in 1 .. Len(a) /\ k - Len(cs) + 1 # 1 /\ b[k] = a[k - Len(cs) + 1])
      BY <1>1 DEF First
    <2> QED
      BY <2>1, Pushed
  <1>2. First(X, b)
    BY <1>1 DEF First
  <1>3. ASSUME NEW fn \in X, Top(fn, b)
        PROVE  Top(fn, cs)
    <2>1. 1 \in 1 .. Len(b) /\ b[1] \in X
      <3>1. b \in Seq(F) /\ b # <<>> /\ b[1] = fn
        BY <1>3, Pushed DEF Top
      <3> QED
        BY <3>1
    <2>2. 1 \in 1 .. Len(cs) /\ b[1] = cs[1]
      BY <2>1, <1>1
    <2>3. cs # <<>>
      BY <2>2
    <2> QED
      BY <2>2, <2>3, <1>3 DEF Top
  <1>4. ASSUME NEW fn \in X, Top(fn, cs)
        PROVE  Top(fn, b)
    <2>1. cs # <<>> /\ cs[1] = fn
      BY <1>4 DEF Top
    <2>2. 1 \in 1 .. Len(cs)
      BY <2>1
    <2>3. 1 \in 1 .. Len(b) /\ b[1] = cs[1]
      BY <2>2, Pushed
    <2>4. b # <<>>
      BY <2>3
    <2> QED
      BY <2>1, <2>3, <2>4 DEF Top
  <1> QED
    BY <1>2, <1>3, <1>4

\* What waits behind the calls of X stays, as long as no other is made but in
\* the place of one of X, or of the only call.
LEMMA BeforePushed ==
  ASSUME NEW F, NEW a \in Seq(F), a # <<>>, NEW cs \in Seq(F), NEW X, NEW Y, Before(X, Y, a),
         Occurs(X, cs) => Len(cs) <= 1 /\ (a[1] \in X \/ Tail(a) = <<>>),
         NEW b, b = cs \o Tail(a)
  PROVE  Before(X, Y, b)
  <1>1. SUFFICES ASSUME NEW j \in 1 .. Len(b), NEW k \in 1 .. Len(b), j < k, b[j] \in X
                 PROVE  b[k] \in Y
    BY DEF Before
  <1>2. Len(b) = Len(cs) + Len(a) - 1 /\ Len(cs) \in Nat /\ Len(a) \in Nat \ {0}
    BY Pushed
  <1>3. CASE j \in 1 .. Len(cs) /\ b[j] = cs[j]
    <2>1. Occurs(X, cs)
      BY <1>1, <1>3 DEF Occurs
    <2>2. Len(cs) = 1
      <3>1. Len(cs) <= 1
        BY <2>1, Zenon
      <3>2. PICK n : n = Len(cs)
        OBVIOUS
      <3>3. n \in Nat /\ n <= 1 /\ j \in 1 .. n
        BY <3>1, <3>2, <1>2, <1>3
      <3>4. n = 1
        BY <3>3
      <3> QED
        BY <3>2, <3>4
    <2>3. k > Len(cs) /\ k - Len(cs) + 1 \in 1 .. Len(a) /\ b[k] = a[k - Len(cs) + 1] /\ k - Len(cs) + 1 > 1
      <3>1. j >= 1 /\ k > 1 /\ k \in Int
        BY <1>1
      <3>2. k > Len(cs) /\ k \notin 1 .. Len(cs)
        BY <3>1, <2>2
      <3>3. k - Len(cs) + 1 \in 1 .. Len(a) /\ b[k] = a[k - Len(cs) + 1]
        BY <3>2, Pushed
      <3> QED
        BY <3>1, <3>2, <3>3, <2>2
    <2>4. a[1] \in X
      <3>1. ASSUME Tail(a) = <<>>
            PROVE  FALSE
        <4>1. PICK t : t = Tail(a)
          OBVIOUS
        <4>2. Len(t) = Len(a) - 1
          BY <4>1
        <4>3. Len(t) = 0
          BY <3>1, <4>1
        <4>4. PICK n : n = Len(a)
          OBVIOUS
        <4>5. n \in Nat /\ n - 1 = 0
          BY <4>2, <4>3, <4>4, <1>2
        <4>6. PICK p : p = k - Len(cs) + 1
          OBVIOUS
        <4>7. p > 1 /\ p \in 1 .. n
          BY <2>3, <4>4, <4>6
        <4> QED
          BY <4>5, <4>7
      <3> QED
        BY <2>1, <3>1, Zenon
    <2>5. 1 \in 1 .. Len(a)
      BY <1>2
    <2> QED
      BY <2>3, <2>4, <2>5 DEF Before
  <1>4. CASE j > Len(cs) /\ j - Len(cs) + 1 \in 1 .. Len(a) /\ b[j] = a[j - Len(cs) + 1]
    <2>1. k > Len(cs) /\ k - Len(cs) + 1 \in 1 .. Len(a) /\ b[k] = a[k - Len(cs) + 1]
      BY <1>1, <1>2, <1>4, Pushed
    <2>2. j - Len(cs) + 1 < k - Len(cs) + 1
      BY <1>1, <1>2
    <2> QED
      BY <2>1, <2>2, <1>1, <1>4 DEF Before
  <1> QED
    BY <1>3, <1>4, Pushed

\* The calls that are made, and those that wait behind the first one.
LEMMA OccursSplit ==
  ASSUME NEW F, NEW a \in Seq(F), a # <<>>, NEW cs \in Seq(F), NEW b, b = cs \o Tail(a), NEW X
  PROVE  /\ Occurs(X, b) <=> Occurs(X, cs) \/ Occurs(X, Tail(a))
         /\ Occurs(X, a) <=> a[1] \in X \/ Occurs(X, Tail(a))
  <1>1. PICK t : t = Tail(a)
    OBVIOUS
  <1>2. t \in Seq(F) /\ Len(t) = Len(a) - 1 /\ Len(a) \in Nat \ {0}
    BY <1>1
  <1>3. \A k \in 1 .. Len(t) : t[k] = a[k + 1] /\ k + 1 \in 1 .. Len(a)
    BY <1>1, <1>2
  <1>4. \A k \in 1 .. Len(a) : k # 1 => k - 1 \in 1 .. Len(t) /\ t[k - 1] = a[k]
    <2>1. SUFFICES ASSUME NEW k \in 1 .. Len(a), k # 1
                   PROVE  k - 1 \in 1 .. Len(t) /\ t[k - 1] = a[k]
      OBVIOUS
    <2>2. k - 1 \in 1 .. Len(t)
      BY <2>1, <1>2
    <2>3. t[k - 1] = a[(k - 1) + 1]
      BY <2>2, <1>3
    <2>4. (k - 1) + 1 = k
      BY <2>1
    <2> QED
      BY <2>2, <2>3, <2>4
  <1>5. 1 \in 1 .. Len(a)
    BY <1>2
  <1>6. Occurs(X, a) <=> a[1] \in X \/ Occurs(X, t)
    BY <1>3, <1>4, <1>5 DEF Occurs
  <1>7. Occurs(X, b) => Occurs(X, cs) \/ Occurs(X, t)
    <2>1. SUFFICES ASSUME NEW k \in 1 .. Len(b), b[k] \in X
                   PROVE  Occurs(X, cs) \/ Occurs(X, t)
      BY DEF Occurs
    <2>2. CASE k \in 1 .. Len(cs) /\ b[k] = cs[k]
      BY <2>1, <2>2 DEF Occurs
    <2>3. CASE k \in Int /\ k > Len(cs) /\ k - Len(cs) + 1 \in 1 .. Len(a) /\ k - Len(cs) + 1 # 1 /\ b[k] = a[k - Len(cs) + 1]
      <3>1. PICK j : j = k - Len(cs) + 1
        OBVIOUS
      <3>2. j - 1 \in 1 .. Len(t) /\ t[j - 1] \in X
        BY <2>1, <2>3, <3>1, <1>4
      <3> QED
        BY <3>2 DEF Occurs
    <2> QED
      BY <2>2, <2>3, Pushed
  <1>8. Occurs(X, cs) \/ Occurs(X, t) => Occurs(X, b)
    <2>1. ASSUME NEW k \in 1 .. Len(cs), cs[k] \in X
          PROVE  Occurs(X, b)
      <3>1. k \in 1 .. Len(b) /\ b[k] = cs[k]
        BY Pushed
      <3> QED
        BY <2>1, <3>1 DEF Occurs
    <2>2. ASSUME NEW k \in 1 .. Len(t), t[k] \in X
          PROVE  Occurs(X, b)
      <3>1. k + 1 \in 1 .. Len(a) /\ k + 1 # 1 /\ a[k + 1] \in X
        BY <2>2, <1>2, <1>3
      <3>2. PICK j : j = (k + 1) - 1 + Len(cs)
        OBVIOUS
      <3>3. j \in 1 .. Len(b) /\ b[j] = a[k + 1]
        BY <3>1, <3>2, Pushed
      <3> QED
        BY <3>1, <3>3 DEF Occurs
    <2> QED
      BY <2>1, <2>2 DEF Occurs
  <1> QED
    BY <1>1, <1>6, <1>7, <1>8

\* What few calls are.
LEMMA CallForms ==
  ASSUME NEW X
  PROVE  /\ ~Occurs(X, <<>>) /\ First(X, <<>>) /\ \A f : ~Top(f, <<>>)
         /\ \A x : /\ Occurs(X, <<x>>) <=> x \in X
                   /\ First(X, <<x>>)
                   /\ \A f : Top(f, <<x>>) <=> x = f
         /\ \A x, y : /\ Occurs(X, <<x, y>>) <=> x \in X \/ y \in X
                      /\ y \notin X => First(X, <<x, y>>)
                      /\ \A f : Top(f, <<x, y>>) <=> x = f
  <1>1. ~Occurs(X, <<>>) /\ First(X, <<>>) /\ \A f : ~Top(f, <<>>)
    BY DEF Occurs, First, Top
  <1>2. ASSUME NEW x
        PROVE  /\ Occurs(X, <<x>>) <=> x \in X
               /\ First(X, <<x>>)
               /\ \A f : Top(f, <<x>>) <=> x = f
    <2>1. PICK a : a = <<x>>
      OBVIOUS
    <2>2. Len(a) = 1 /\ a[1] = x /\ a # <<>>
      BY <2>1
    <2>3. 1 \in 1 .. Len(a) /\ \A k \in 1 .. Len(a) : k = 1
      BY <2>2
    <2> QED
      BY <2>1, <2>2, <2>3 DEF Occurs, First, Top
  <1>3. ASSUME NEW x, NEW y
        PROVE  /\ Occurs(X, <<x, y>>) <=> x \in X \/ y \in X
               /\ y \notin X => First(X, <<x, y>>)
               /\ \A f : Top(f, <<x, y>>) <=> x = f
    <2>1. PICK a : a = <<x, y>>
      OBVIOUS
    <2>2. Len(a) = 2 /\ a[1] = x /\ a[2] = y /\ a # <<>>
      BY <2>1
    <2>3. 1 \in 1 .. Len(a) /\ 2 \in 1 .. Len(a) /\ \A k \in 1 .. Len(a) : k = 1 \/ k = 2
      BY <2>2
    <2> QED
      BY <2>1, <2>2, <2>3 DEF Occurs, First, Top
  <1> QED
    BY <1>1, <1>2, <1>3

\* The same of two calls that have a name.
LEMMA TwoCalls ==
  ASSUME NEW x, NEW y, NEW cs, cs = <<x, y>>
  PROVE  /\ \A X : Occurs(X, cs) <=> x \in X \/ y \in X
         /\ \A X : y \notin X => First(X, cs)
         /\ \A f : Top(f, cs) <=> x = f
  <1>1. \A X : Occurs(X, <<x, y>>) <=> x \in X \/ y \in X
    BY CallForms
  <1>2. (\A X : y \notin X => First(X, <<x, y>>)) /\ \A f : Top(f, <<x, y>>) <=> x = f
    BY CallForms
  <1> QED
    BY <1>1, <1>2

\* The code that a callback reaches through the streams.
Inner == {"flow_rx", "on_rx", "tr_provide", "tr_consume", "on_tx"}
Receiving == {"flow_rx", "on_rx"}

\* The code that is reached only when the socket is closed.
Undoing == {"detach_tr_sink", "detach_tr_source", "tr_source_detached", "tr_close", "closed"} \cup Leavings

\* A connection with an open socket has all its ends, but for those that net.c lets go.
Tied == \A c \in live : sock[c].fd => sock[c].onClose /\ up[c].snk /\ down[c].src
Untied == Occurs(Undoing, calls) => ~S.fd

\* net.c lets go of its end of a stream when it has closed that side.
NoMoreTx == Occurs({"detach_tx"}, calls) => ~S.wr
NoMoreRx == Occurs({"detach_rx", "rx_detached"}, calls) => ~S.rd

\* Streams are served at once, and only flowing the other one waits for the input.
InnerFirst == First(Inner, calls)
RxAhead == Before(Receiving, {"flow_tx"}, calls)

\* A connection whose socket is closed is on its way to be freed.
Reaches == \A c \in live : ~sock[c].fd => InQueue(c) \/ (on = c /\ Occurs(Leavings, calls))

\* What a connection waits for, with its socket open: closing is under way or not due,
\* POLLOUT comes for what is to be sent, and some event for what is to be received.
\* The calls that have not been made yet stand for what they will do.
Fine(s, u, d, cs) ==
    /\ s.fd =>
        /\ u.fin => ~s.rd \/ Occurs({"on_rx_end"}, cs)
        /\ s.rd => u.src
        /\ d.fin => u.fin /\ Empty(u)
        /\ ~s.wr => d.fin /\ Empty(d)
        /\ ~d.snk => ~s.wr
        /\ Done(s) => Occurs({"close_if_done", "sock_close"}, cs)
        /\ Occurs({"sock_close"}, cs) => Done(s)
        /\ ~Empty(d) => "OUT" \in s.events \/ Top("on_tx", cs)
        /\ u.full /\ ~u.fin => "OUT" \in s.events
        /\ s.rd /\ ~u.fin => {"IN", "OUT"} \cap s.events # {} \/ (~Empty(u) /\ ~Top("tr_consume", cs))
        /\ Top("on_tx", cs) /\ Empty(d) /\ ~u.fin => ~u.full /\ ("IN" \in s.events \/ ~Empty(u))
        /\ Top("tr_consume", cs) /\ Empty(u) /\ ~u.fin => "IN" \in s.events
    /\ ~s.fd => Empty(u) /\ Empty(d)

\* Neither a reset nor the end of the program has brought POLLHUP, so the poller keeps
\* what it was given.
Heard(c) == ~peer[c].rst /\ ~exit
Kept(c) == (sock[c].fd => c \in reg) /\ "HUP" \notin revents[c] /\ (at = c => ~hupped)
Mine(c) == IF on = c THEN calls ELSE <<>>
Served == \A c \in live : Heard(c) => Kept(c) /\ Fine(sock[c], up[c], down[c], Mine(c))

AttendInv ==
    /\ Tied /\ Untied /\ NoMoreTx /\ NoMoreRx /\ InnerFirst /\ RxAhead
    /\ Reaches /\ Served

\* What runs finds its own connection as the invariant says.
LEMMA Attends ==
  ASSUME CInv, EndInv, AttendInv, calls # <<>>
  PROVE  /\ S.fd => S.onClose /\ U.snk /\ D.src
         /\ Occurs(Undoing, calls) => ~S.fd
         /\ Occurs({"detach_tx"}, calls) => ~S.wr
         /\ Occurs({"detach_rx", "rx_detached"}, calls) => ~S.rd
         /\ Heard(on) => Kept(on) /\ Fine(S, U, D, calls)
         /\ \A X : Occurs(X, calls) <=> calls[1] \in X \/ Occurs(X, Tail(calls))
         /\ \A f : Top(f, calls) <=> calls[1] = f
  <1>1. /\ on \in live /\ calls \in Seq(Functions)
        /\ up[on] = U /\ down[on] = D /\ sock[on] = S
    BY HasBegun
  <1>2. Mine(on) = calls
    BY DEF Mine
  <1>3. Heard(on) => Kept(on) /\ Fine(S, U, D, calls)
    BY <1>1, <1>2 DEF AttendInv, Served
  <1>4. S.fd => S.onClose /\ U.snk /\ D.src
    BY <1>1 DEF AttendInv, Tied
  <1>5. \A X : Occurs(X, calls) <=> calls[1] \in X \/ Occurs(X, Tail(calls))
    <2>1. PICK b : b = <<>> \o Tail(calls)
      OBVIOUS
    <2>2. <<>> \in Seq(Functions)
      OBVIOUS
    <2> QED
      BY <1>1, <2>1, <2>2, OccursSplit
  <1>6. \A f : Top(f, calls) <=> calls[1] = f
    BY DEF Top
  <1> QED
    BY <1>1, <1>3, <1>4, <1>5, <1>6 DEF AttendInv, Untied, NoMoreTx, NoMoreRx

\* What a step for a connection has to leave, for the invariant to hold, if it keeps the
\* poller and the list of pmcrcu.c.
LEMMA EffectAttends ==
  ASSUME CInv, EndInv, AttendInv, calls # <<>>,
         NEW s \in Sock, NEW u \in IdleStream, NEW d \in IdleStream,
         sock' = [sock EXCEPT ![on] = s], up' = [up EXCEPT ![on] = u], down' = [down EXCEPT ![on] = d],
         UNCHANGED <<on, live, at, hupped, exit>>,
         \A x \in Conns : peer[x].rst => peer'[x].rst,
         s.fd => s.onClose /\ u.snk /\ d.src,
         Occurs(Undoing, calls') => ~s.fd,
         Occurs({"detach_tx"}, calls') => ~s.wr,
         Occurs({"detach_rx", "rx_detached"}, calls') => ~s.rd,
         First(Inner, calls'), Before(Receiving, {"flow_tx"}, calls'),
         \A x \in Conns : InQueue(x) => InQueue(x)',
         ~s.fd => InQueue(on)' \/ Occurs(Leavings, calls'),
         Heard(on)' => Kept(on)' /\ Fine(s, u, d, calls'),
         \A x \in Conns : x # on => (x \in reg' <=> x \in reg) /\ (revents'[x] = revents[x] \/ revents'[x] = {})
  PROVE  AttendInv'
  <1>1. on \in Conns /\ sock \in [Conns -> Sock] /\ live \subseteq Conns
        /\ up \in [Conns -> IdleStream] /\ down \in [Conns -> IdleStream]
    BY DEF CInv, Control, EndInv, StreamTypes
  <1>2. sock'[on] = s /\ up'[on] = u /\ down'[on] = d /\ S' = s
    BY <1>1 DEF S
  <1>3. \A c \in Conns : c # on => sock'[c] = sock[c] /\ up'[c] = up[c] /\ down'[c] = down[c]
    BY <1>1
  <1>4. Tied'
    BY <1>1, <1>2, <1>3 DEF AttendInv, Tied
  <1>5. Untied' /\ NoMoreTx' /\ NoMoreRx' /\ InnerFirst' /\ RxAhead'
    BY <1>2 DEF Untied, NoMoreTx, NoMoreRx, InnerFirst, RxAhead
  <1>6. Reaches'
    <2>1. SUFFICES ASSUME NEW c \in live, ~sock'[c].fd
                   PROVE  InQueue(c)' \/ (on = c /\ Occurs(Leavings, calls'))
      BY DEF Reaches
    <2>2. CASE c = on
      BY <2>1, <2>2, <1>2
    <2>3. CASE c # on
      BY <2>1, <2>3, <1>1, <1>3 DEF AttendInv, Reaches
    <2> QED
      BY <2>2, <2>3
  <1>7. Served'
    <2>1. SUFFICES ASSUME NEW c \in live, Heard(c)'
                   PROVE  Kept(c)' /\ Fine(sock'[c], up'[c], down'[c], Mine(c)')
      BY DEF Served
    <2>2. CASE c = on
      <3>1. Mine(c)' = calls'
        BY <2>2 DEF Mine
      <3> QED
        BY <2>1, <2>2, <3>1, <1>2
    <2>3. CASE c # on
      <3>1. Mine(c)' = Mine(c)
        BY <2>3 DEF Mine
      <3>2. Heard(c)
        BY <2>1, <1>1 DEF Heard
      <3>3. Kept(c) /\ Fine(sock[c], up[c], down[c], Mine(c))
        BY <3>2 DEF AttendInv, Served
      <3>4. Kept(c)'
        BY <3>3, <2>3, <1>1, <1>3 DEF Kept
      <3> QED
        BY <3>1, <3>3, <3>4, <2>3, <1>1, <1>3
    <2> QED
      BY <2>2, <2>3
  <1> QED
    BY <1>4, <1>5, <1>6, <1>7 DEF AttendInv

\* A function that keeps the poller and the list, and is not one of the end of a connection.
LEMMA LocalAttends ==
  ASSUME CInv, EndInv, AttendInv, calls # <<>>, calls[1] \notin Leavings,
         NEW s \in Sock, s.fd = S.fd, s.fd => s.onClose = S.onClose, s.rd => S.rd, s.wr => S.wr,
         NEW u \in IdleStream, NEW d \in IdleStream, s.fd => u.snk = U.snk /\ d.src = D.src,
         NEW cs \in Seq(Functions), Local(s, u, d, cs), UNCHANGED <<poller, queue>>,
         \A x \in Conns : peer[x].rst => peer'[x].rst,
         Occurs(Undoing, cs) => ~s.fd,
         Occurs({"detach_tx"}, cs) => ~s.wr,
         Occurs({"detach_rx", "rx_detached"}, cs) => ~s.rd,
         First(Inner, cs),
         Occurs(Receiving, cs) => Len(cs) <= 1 /\ (calls[1] \in Receiving \/ Tail(calls) = <<>>),
         Heard(on) => Fine(s, u, d, cs \o Tail(calls))
  PROVE  AttendInv'
  <1>1. PICK b : b = cs \o Tail(calls)
    OBVIOUS
  <1>2. sock' = [sock EXCEPT ![on] = s] /\ up' = [up EXCEPT ![on] = u] /\ down' = [down EXCEPT ![on] = d]
        /\ UNCHANGED <<on, live, at, hupped, exit, reg, revents, queue>> /\ calls' = b
    BY <1>1 DEF Local, Call, loop, poller
  <1>3. on \in live /\ on \in Conns /\ calls \in Seq(Functions) /\ sock[on] = S /\ sock \in [Conns -> Sock]
    BY HasBegun
  <1>4. \A X : (Occurs(X, b) <=> Occurs(X, cs) \/ Occurs(X, Tail(calls)))
               /\ (Occurs(X, calls) <=> calls[1] \in X \/ Occurs(X, Tail(calls)))
    BY <1>1, <1>3, OccursSplit
  <1>5. Occurs(Undoing, b) => ~s.fd
    BY <1>4, Attends
  <1>6. Occurs({"detach_tx"}, b) => ~s.wr
    BY <1>4, Attends
  <1>7. Occurs({"detach_rx", "rx_detached"}, b) => ~s.rd
    BY <1>4, Attends
  <1>8. First(Inner, b)
    BY <1>1, <1>3, FirstPushed DEF AttendInv, InnerFirst
  <1>9. Before(Receiving, {"flow_tx"}, b)
    BY <1>1, <1>3, BeforePushed DEF AttendInv, RxAhead
  <1>10. ~s.fd => InQueue(on)' \/ Occurs(Leavings, b)
    <2>1. ~s.fd => InQueue(on) \/ Occurs(Leavings, b)
      BY <1>3, <1>4 DEF AttendInv, Reaches
    <2> QED
      BY <2>1, <1>2 DEF InQueue
  <1>11. \A x \in Conns : InQueue(x)' <=> InQueue(x)
    BY <1>2 DEF InQueue
  <1>12. ASSUME Heard(on)'
         PROVE  Kept(on)' /\ Fine(s, u, d, b)
    <2>1. Heard(on)
      BY <1>2, <1>3, <1>12 DEF Heard
    <2>2. Kept(on)
      BY <2>1, Attends
    <2>3. sock'[on].fd = sock[on].fd
      BY <1>2, <1>3
    <2> QED
      BY <2>1, <2>2, <2>3, <1>1, <1>2 DEF Kept
  <1>13. s.fd => s.onClose /\ u.snk /\ d.src
    BY Attends
  <1>14. /\ Occurs(Undoing, calls') => ~s.fd
         /\ Occurs({"detach_tx"}, calls') => ~s.wr
         /\ Occurs({"detach_rx", "rx_detached"}, calls') => ~s.rd
         /\ First(Inner, calls') /\ Before(Receiving, {"flow_tx"}, calls')
         /\ ~s.fd => InQueue(on)' \/ Occurs(Leavings, calls')
         /\ Heard(on)' => Kept(on)' /\ Fine(s, u, d, calls')
    BY <1>2, <1>5, <1>6, <1>7, <1>8, <1>9, <1>10, <1>12
  <1>15. \A x \in Conns : (x \in reg' <=> x \in reg) /\ revents'[x] = revents[x]
    BY <1>2
  <1> QED
    BY <1>2, <1>11, <1>13, <1>14, <1>15, EffectAttends

\* What the flags of a stream become.
LEMMA StreamFlags ==
  ASSUME NEW t \in IdleStream
  PROVE  /\ Finished(t).fin /\ ~Finished(t).full /\ (Empty(Finished(t)) <=> Empty(t))
         /\ Sourceless(t).fin = t.fin /\ Sourceless(t).full = t.full /\ (Empty(Sourceless(t)) <=> Empty(t))
         /\ Sinkless(t).fin /\ Sinkless(t).full = t.full /\ (Empty(Sinkless(t)) <=> Empty(t))
         /\ Fin(t).fin /\ Fin(t).full = t.full /\ (Empty(Fin(t)) <=> Empty(t))
         /\ Asked(t).fin = t.fin /\ (Asked(t).full <=> t.full /\ ~Empty(t)) /\ (Empty(Asked(t)) <=> Empty(t))
         /\ ShouldProvide(t) <=> Empty(t) \/ ~t.full
  BY DEF IdleStream, Finished, Sourceless, Sinkless, Fin, Asked, Empty, ShouldProvide

\* The same for one flag.
LEMMA FullSet ==
  ASSUME NEW t \in IdleStream, NEW f \in BOOLEAN, NEW r, r = [t EXCEPT !.full = f]
  PROVE  r.full = f /\ r.fin = t.fin /\ (Empty(r) <=> Empty(t))
  BY DEF IdleStream, Empty

\* The same for the other.
LEMMA FinSet ==
  ASSUME NEW t \in IdleStream, NEW f \in BOOLEAN, NEW r, r = [t EXCEPT !.fin = f]
  PROVE  r.fin = f /\ r.full = t.full /\ (Empty(r) <=> Empty(t))
  BY DEF IdleStream, Empty

\* Lines come or go, and the stream is full or not.
LEMMA LinesSet ==
  ASSUME NEW t \in IdleStream, NEW n \in Nat, NEW r, r = [t EXCEPT !.buf = n]
  PROVE  r.full = t.full /\ r.fin = t.fin /\ (Empty(r) <=> n = 0)
  BY DEF IdleStream, Empty

\* Lines are taken, and the source may go on.
IsDrained(r, t, n) == r = [t EXCEPT !.full = FALSE, !.buf = n]

LEMMA Drained ==
  ASSUME NEW t \in IdleStream, NEW n \in Nat, NEW r, IsDrained(r, t, n)
  PROVE  r.full = FALSE /\ r.fin = t.fin /\ (Empty(r) <=> n = 0)
  BY DEF IsDrained, IdleStream, Empty

\* The same for the stream to the socket.
IsSentOff(r, t, n) == r = [t EXCEPT !.buf = n, !.full = FALSE]

LEMMA SentOff ==
  ASSUME NEW t \in IdleStream, NEW n \in Nat, NEW r, IsSentOff(r, t, n)
  PROVE  r.full = FALSE /\ r.fin = t.fin /\ (Empty(r) <=> n = 0)
  BY DEF IsSentOff, IdleStream, Empty

\* Lines stay, and the source may not go on.
LEMMA Clogged ==
  ASSUME NEW t \in IdleStream, NEW n \in Nat, NEW r, r = [t EXCEPT !.buf = n, !.full = TRUE]
  PROVE  r.full = TRUE /\ r.fin = t.fin /\ (Empty(r) <=> n = 0)
  BY DEF IdleStream, Empty

\* What the events of a socket become.
LEMMA SockEvents ==
  ASSUME NEW s \in Sock
  PROVE  /\ \A b \in SUBSET Bits :
              /\ Want(s, b).events = s.events \cup b /\ Want(s, b).onClose = s.onClose
              /\ Ignore(s, b).events = s.events \ b /\ Ignore(s, b).onClose = s.onClose
         /\ \A o \in BOOLEAN :
              /\ [s EXCEPT !.rd = o].events = s.events /\ [s EXCEPT !.rd = o].onClose = s.onClose
              /\ [s EXCEPT !.wr = o].events = s.events /\ [s EXCEPT !.wr = o].onClose = s.onClose
  BY DEF Sock, Want, Ignore

\* What a sequence of calls has of those that Fine asks for.
LEMMA Marked ==
  ASSUME CInv, EndInv, AttendInv, calls # <<>>, NEW cs \in Seq(Functions), First(Inner, cs)
  PROVE  /\ Top("on_tx", cs \o Tail(calls)) <=> Top("on_tx", cs)
         /\ Top("tr_consume", cs \o Tail(calls)) <=> Top("tr_consume", cs)
         /\ \A X : Occurs(X, cs \o Tail(calls)) <=> Occurs(X, cs) \/ Occurs(X, Tail(calls))
  <1>1. PICK b : b = cs \o Tail(calls)
    OBVIOUS
  <1>2. calls \in Seq(Functions)
    BY HasBegun
  <1>3. "on_tx" \in Inner /\ "tr_consume" \in Inner
    BY DEF Inner
  <1>4. \A f \in Inner : Top(f, b) <=> Top(f, cs)
    BY <1>1, <1>2, FirstPushed DEF AttendInv, InnerFirst
  <1>5. \A X : Occurs(X, b) <=> Occurs(X, cs) \/ Occurs(X, Tail(calls))
    BY <1>1, <1>2, OccursSplit
  <1> QED
    BY <1>1, <1>3, <1>4, <1>5

\* Once the socket is closed, nothing matters but that the streams are empty.
LEMMA FineClosed ==
  ASSUME NEW s, NEW u, NEW d, NEW a, Fine(s, u, d, a), ~s.fd, NEW r, r.fd = s.fd,
         NEW v, Empty(v) <=> Empty(u), NEW e, Empty(e) <=> Empty(d), NEW b
  PROVE  Fine(r, v, e, b)
  BY DEF Fine

\* A function that calls none of those that Fine asks for, nor is one of them.
Marks == {"on_rx_end", "close_if_done", "sock_close", "on_tx", "tr_consume"}
LEMMA FineStill ==
  ASSUME CInv, EndInv, AttendInv, calls # <<>>, calls[1] \notin Marks,
         NEW cs \in Seq(Functions), First(Inner, cs), ~Occurs(Marks, cs), ~Top("on_tx", cs), ~Top("tr_consume", cs),
         NEW s, NEW u, NEW d, Fine(s, u, d, calls)
  PROVE  Fine(s, u, d, cs \o Tail(calls))
  <1>1. PICK b : b = cs \o Tail(calls)
    OBVIOUS
  <1>2. ~Top("on_tx", b) /\ ~Top("tr_consume", b)
    BY <1>1, Marked
  <1>3. ~Top("on_tx", calls) /\ ~Top("tr_consume", calls)
    BY DEF Top, Marks
  <1>4. ASSUME NEW X, X \subseteq Marks
        PROVE  Occurs(X, b) <=> Occurs(X, calls)
    <2>1. calls[1] \notin X
      BY <1>4
    <2>2. ~Occurs(X, cs)
      BY <1>4 DEF Occurs
    <2> QED
      BY <1>1, <2>1, <2>2, Marked, Attends
  <1>5. /\ Occurs({"on_rx_end"}, b) <=> Occurs({"on_rx_end"}, calls)
        /\ Occurs({"close_if_done", "sock_close"}, b) <=> Occurs({"close_if_done", "sock_close"}, calls)
        /\ Occurs({"sock_close"}, b) <=> Occurs({"sock_close"}, calls)
    BY <1>4 DEF Marks
  <1>6. Fine(s, u, d, b)
    BY <1>2, <1>3, <1>5 DEF Fine
  <1> QED
    BY <1>1, <1>6

\* A function that is reached only when the socket is closed, but for the end.
LEMMA ClosedAttends ==
  ASSUME CInv, EndInv, AttendInv, calls # <<>>, calls[1] \in Undoing, calls[1] \notin Leavings,
         NEW s \in Sock, s.fd = S.fd, s.rd => S.rd, s.wr => S.wr,
         NEW u \in IdleStream, Empty(u) <=> Empty(U), NEW d \in IdleStream, Empty(d) <=> Empty(D),
         NEW cs \in Seq(Functions), Local(s, u, d, cs), UNCHANGED <<poller, queue>>, peer' = peer,
         First(Inner, cs), ~Occurs(Receiving, cs)
  PROVE  AttendInv'
  <1>1. ~S.fd /\ ~s.fd
    BY Attends
  <1>2. ~s.rd /\ ~s.wr
    BY <1>1, HasBegun
  <1>3. Heard(on) => Fine(s, u, d, cs \o Tail(calls))
    <2>1. SUFFICES ASSUME Heard(on)
                   PROVE  Fine(s, u, d, cs \o Tail(calls))
      OBVIOUS
    <2>2. Fine(S, U, D, calls)
      BY <2>1, Attends
    <2>3. PICK b : b = cs \o Tail(calls)
      OBVIOUS
    <2>4. Fine(s, u, d, b)
      BY <1>1, <2>2, FineClosed
    <2> QED
      BY <2>3, <2>4
  <1>4. \A x \in Conns : peer[x].rst => peer'[x].rst
    OBVIOUS
  <1> QED
    BY <1>1, <1>2, <1>3, <1>4, LocalAttends

\* The calls of one function, after a stream is consumed or not.
LEMMA ConsumeForms ==
  ASSUME NEW g \in Functions, g \notin Inner
  PROVE  /\ ConsumeUp \in Seq(Functions) /\ ConsumeDown \in Seq(Functions)
         /\ First(Inner, ConsumeUp) /\ First(Inner, ConsumeDown)
         /\ ConsumeUp \o <<g>> \in Seq(Functions) /\ ConsumeDown \o <<g>> \in Seq(Functions)
         /\ First(Inner, ConsumeUp \o <<g>>) /\ First(Inner, ConsumeDown \o <<g>>)
         /\ \A X : /\ Occurs(X, ConsumeUp) <=> U.snk /\ "tr_consume" \in X
                   /\ Occurs(X, ConsumeDown) <=> D.snk /\ "on_tx" \in X
                   /\ Occurs(X, ConsumeUp \o <<g>>) <=> (U.snk /\ "tr_consume" \in X) \/ g \in X
                   /\ Occurs(X, ConsumeDown \o <<g>>) <=> (D.snk /\ "on_tx" \in X) \/ g \in X
         /\ \A f : /\ Top(f, ConsumeUp) <=> U.snk /\ f = "tr_consume"
                   /\ Top(f, ConsumeDown) <=> D.snk /\ f = "on_tx"
                   /\ f \in Inner => (Top(f, ConsumeUp \o <<g>>) <=> U.snk /\ f = "tr_consume")
                   /\ f \in Inner => (Top(f, ConsumeDown \o <<g>>) <=> D.snk /\ f = "on_tx")
  <1>1. "tr_consume" \in Functions /\ "on_tx" \in Functions
    BY DEF Functions, Lasting, Plain
  <1>2. ASSUME NEW f \in Functions, NEW on_, NEW c, c = If(on_, <<f>>)
        PROVE  /\ c \in Seq(Functions) /\ First(Inner, c)
               /\ c \o <<g>> \in Seq(Functions) /\ First(Inner, c \o <<g>>)
               /\ \A X : /\ Occurs(X, c) <=> on_ /\ f \in X
                         /\ Occurs(X, c \o <<g>>) <=> (on_ /\ f \in X) \/ g \in X
               /\ \A h : /\ Top(h, c) <=> on_ /\ h = f
                         /\ h \in Inner => (Top(h, c \o <<g>>) <=> on_ /\ h = f)
    <2>1. CASE on_
      <3>1. PICK e : e = <<f, g>>
        OBVIOUS
      <3>2. c = <<f>>
        BY <1>2, <2>1 DEF If
      <3>3. <<f>> \o <<g>> = <<f, g>>
        <4>1. PICK p, q : p = <<f>> /\ q = <<g>>
          OBVIOUS
        <4>2. p \in Seq(Functions) /\ q \in Seq(Functions)
          BY <4>1
        <4>7. Len(p) = 1 /\ Len(q) = 1 /\ p[1] = f /\ q[1] = g
          BY <4>1
        <4>3. PICK r : r = p \o q
          OBVIOUS
        <4>4. r \in Seq(Functions) /\ Len(r) = 2 /\ r[1] = f /\ r[2] = g
          <5>1. r \in Seq(Functions) /\ Len(r) = Len(p) + Len(q)
            BY <4>2, <4>3, Joined
          <5>2. Len(r) = 2
            BY <5>1, <4>7
          <5>3. r[1] = p[1] /\ r[2] = q[1]
            BY <5>2, <4>2, <4>3, <4>7
          <5> QED
            BY <5>1, <5>2, <5>3, <4>7
        <4>5. e \in Seq(Functions) /\ Len(e) = 2 /\ e[1] = f /\ e[2] = g
          BY <3>1
        <4>6. r = e
          BY <4>4, <4>5
        <4> QED
          BY <3>1, <4>1, <4>3, <4>6
      <3>4. c \o <<g>> = e
        BY <3>1, <3>2, <3>3
      <3>5. c \in Seq(Functions) /\ e \in Seq(Functions)
        BY <3>1, <3>2
      <3>6. First(Inner, c) /\ First(Inner, e)
        BY <3>1, <3>2, CallForms
      <3>7. \A X : (Occurs(X, c) <=> f \in X) /\ (Occurs(X, e) <=> f \in X \/ g \in X)
        BY <3>1, <3>2, CallForms
      <3>8. \A h : (Top(h, c) <=> h = f) /\ (Top(h, e) <=> h = f)
        BY <3>1, <3>2, CallForms
      <3> QED
        BY <2>1, <3>4, <3>5, <3>6, <3>7, <3>8
    <2>2. CASE ~on_
      <3>1. PICK e : e = <<g>>
        OBVIOUS
      <3>2. c = <<>>
        BY <1>2, <2>2 DEF If
      <3>3. e \in Seq(Functions)
        BY <3>1
      <3>4. c \o <<g>> = e
        BY <3>1, <3>2, <3>3
      <3>5. c \in Seq(Functions)
        BY <3>2
      <3>6. First(Inner, c) /\ First(Inner, e)
        BY <3>1, <3>2, CallForms
      <3>7. \A X : ~Occurs(X, c) /\ (Occurs(X, e) <=> g \in X)
        BY <3>1, <3>2, CallForms
      <3>8. \A h : ~Top(h, c) /\ (Top(h, e) <=> h = g)
        BY <3>1, <3>2, CallForms
      <3> QED
        BY <2>2, <3>3, <3>4, <3>5, <3>6, <3>7, <3>8
    <2> QED
      BY <2>1, <2>2
  <1>3. PICK c, d : c = ConsumeUp /\ d = ConsumeDown
    OBVIOUS
  <1>4. c = If(U.snk, <<"tr_consume">>) /\ d = If(D.snk, <<"on_tx">>)
    BY <1>3 DEF ConsumeUp, ConsumeDown
  <1>5. /\ c \in Seq(Functions) /\ First(Inner, c)
        /\ c \o <<g>> \in Seq(Functions) /\ First(Inner, c \o <<g>>)
        /\ \A X : /\ Occurs(X, c) <=> U.snk /\ "tr_consume" \in X
                  /\ Occurs(X, c \o <<g>>) <=> (U.snk /\ "tr_consume" \in X) \/ g \in X
        /\ \A h : /\ Top(h, c) <=> U.snk /\ h = "tr_consume"
                  /\ h \in Inner => (Top(h, c \o <<g>>) <=> U.snk /\ h = "tr_consume")
    BY <1>1, <1>2, <1>4
  <1>6. /\ d \in Seq(Functions) /\ First(Inner, d)
        /\ d \o <<g>> \in Seq(Functions) /\ First(Inner, d \o <<g>>)
        /\ \A X : /\ Occurs(X, d) <=> D.snk /\ "on_tx" \in X
                  /\ Occurs(X, d \o <<g>>) <=> (D.snk /\ "on_tx" \in X) \/ g \in X
        /\ \A h : /\ Top(h, d) <=> D.snk /\ h = "on_tx"
                  /\ h \in Inner => (Top(h, d \o <<g>>) <=> D.snk /\ h = "on_tx")
    BY <1>1, <1>2, <1>4
  <1> QED
    BY <1>3, <1>5, <1>6, Zenon

\* Taking the transducer out of its streams, and its close, which has no callback.
LEMMA UndoAttends ==
  ASSUME CInv, FreeOnce, EndInv, AttendInv,
         DetachTrSink \/ DetachTrSource \/ TrSourceDetached \/ TrClose \/ Closed
  PROVE  AttendInv'
  <1>1. calls # <<>> /\ calls[1] \in {"detach_tr_sink", "detach_tr_source", "tr_source_detached", "tr_close", "closed"}
    BY DEF DetachTrSink, DetachTrSource, TrSourceDetached, TrClose, Closed, Calling
  <1>2. calls[1] \in Undoing /\ calls[1] \notin Leavings
    BY <1>1 DEF Undoing, Leavings, Endings
  <1>3. S \in Sock /\ U \in IdleStream /\ D \in IdleStream /\ on \in Conns
    BY <1>1, HasBegun
  <1>4. U.state = 0 /\ D.state = 0
    BY <1>3, StreamSet
  <1>5. "tr_source_detached" \in Functions /\ "tr_source_detached" \notin Inner
    BY DEF Functions, Lasting, Plain, Inner
  <1>6. <<>> \in Seq(Functions) /\ First(Inner, <<>>) /\ ~Occurs(Receiving, <<>>)
    BY CallForms
  <1>7. CASE DetachTrSink
    <2>1. PICK u : u = IF U.snk THEN Sinkless(U) ELSE U
      OBVIOUS
    <2>2. u \in IdleStream /\ (Empty(u) <=> Empty(U))
      BY <2>1, <1>3, StreamSet, StreamFlags
    <2>3. Local(S, u, D, <<>>) /\ UNCHANGED <<poller, queue>> /\ peer' = peer
      BY <2>1, <1>4, <1>7 DEF DetachTrSink, Quiet
    <2> QED
      BY <1>1, <1>2, <1>3, <1>6, <2>2, <2>3, ClosedAttends
  <1>8. CASE DetachTrSource
    <2>1. UNCHANGED <<poller, queue>> /\ peer' = peer
      BY <1>8 DEF DetachTrSource, Quiet
    <2>2. CASE D.src
      <3>1. PICK d : d = Finished(D)
        OBVIOUS
      <3>2. d \in IdleStream /\ (Empty(d) <=> Empty(D))
        BY <3>1, <1>3, StreamSet, StreamFlags
      <3>3. PICK cs : cs = ConsumeDown \o <<"tr_source_detached">>
        OBVIOUS
      <3>4. cs \in Seq(Functions) /\ First(Inner, cs) /\ ~Occurs(Receiving, cs)
        <4>1. "on_tx" \notin Receiving /\ "tr_source_detached" \notin Receiving
          BY DEF Receiving
        <4> QED
          BY <4>1, <3>3, <1>5, ConsumeForms
      <3>5. Local(S, U, d, cs)
        BY <1>8, <2>2, <3>1, <3>3 DEF DetachTrSource
      <3> QED
        BY <1>1, <1>2, <1>3, <2>1, <3>2, <3>4, <3>5, ClosedAttends
    <2>3. CASE ~D.src
      <3>1. Local(S, U, D, <<>>)
        BY <1>8, <2>3 DEF DetachTrSource
      <3> QED
        BY <1>1, <1>2, <1>3, <1>6, <2>1, <3>1, ClosedAttends
    <2> QED
      BY <2>2, <2>3
  <1>9. CASE TrSourceDetached
    <2>1. PICK d : d = Sourceless(D)
      OBVIOUS
    <2>2. d \in IdleStream /\ (Empty(d) <=> Empty(D))
      BY <2>1, <1>3, StreamSet, StreamFlags
    <2>3. Local(S, U, d, <<>>) /\ UNCHANGED <<poller, queue>> /\ peer' = peer
      BY <2>1, <1>4, <1>9 DEF TrSourceDetached, Quiet
    <2> QED
      BY <1>1, <1>2, <1>3, <1>6, <2>2, <2>3, ClosedAttends
  <1>10. CASE TrClose
    <2>1. ~trClose[on]
      BY <1>3 DEF FreeOnce
    <2>2. Local(S, U, D, <<>>) /\ UNCHANGED <<poller, queue>> /\ peer' = peer
      BY <1>10, <2>1 DEF TrClose, If
    <2> QED
      BY <1>1, <1>2, <1>3, <1>6, <2>2, ClosedAttends
  <1>11. CASE Closed
    <2>1. PICK s : s = [S EXCEPT !.onClose = FALSE]
      OBVIOUS
    <2>2. s \in Sock /\ s.fd = S.fd /\ s.rd = S.rd /\ s.wr = S.wr
      BY <1>3, <2>1, SockSides
    <2>3. Local(s, U, D, <<>>) /\ UNCHANGED <<poller, queue>> /\ peer' = peer
      BY <1>11, <2>1 DEF Closed, Quiet
    <2> QED
      BY <1>1, <1>2, <1>3, <1>6, <2>2, <2>3, ClosedAttends
  <1> QED
    BY <1>7, <1>8, <1>9, <1>10, <1>11

\* What Fine asks of the calls, before and after the ones that are made.
LEMMA FineCalls ==
  ASSUME CInv, EndInv, AttendInv, calls # <<>>, Heard(on),
         NEW cs \in Seq(Functions), First(Inner, cs), NEW b, b = cs \o Tail(calls)
  PROVE  /\ Fine(S, U, D, calls)
         /\ Top("on_tx", b) <=> Top("on_tx", cs)
         /\ Top("tr_consume", b) <=> Top("tr_consume", cs)
         /\ Top("on_tx", calls) <=> calls[1] = "on_tx"
         /\ Top("tr_consume", calls) <=> calls[1] = "tr_consume"
         /\ calls[1] # "on_rx_end" => (Occurs({"on_rx_end"}, b) <=> Occurs({"on_rx_end"}, cs) \/ Occurs({"on_rx_end"}, calls))
         /\ calls[1] \notin {"close_if_done", "sock_close"} =>
              (Occurs({"close_if_done", "sock_close"}, b) <=>
                  Occurs({"close_if_done", "sock_close"}, cs) \/ Occurs({"close_if_done", "sock_close"}, calls))
         /\ calls[1] # "sock_close" => (Occurs({"sock_close"}, b) <=> Occurs({"sock_close"}, cs) \/ Occurs({"sock_close"}, calls))
  <1>1. \A X : Occurs(X, b) <=> Occurs(X, cs) \/ Occurs(X, Tail(calls))
    BY Marked
  <1>2. \A X : Occurs(X, calls) <=> calls[1] \in X \/ Occurs(X, Tail(calls))
    BY Attends
  <1>3. \A X : calls[1] \notin X => (Occurs(X, b) <=> Occurs(X, cs) \/ Occurs(X, calls))
    BY <1>1, <1>2
  <1> QED
    BY <1>3, Marked, Attends

\* aem_stream_source_detach on behalf of rx, up to the call of consume and after it.
LEMMA DetachRxAttends ==
  ASSUME CInv, EndInv, AttendInv, DetachRx \/ RxDetached
  PROVE  AttendInv'
  <1>1. calls # <<>> /\ calls[1] \in {"detach_rx", "rx_detached"}
    BY DEF DetachRx, RxDetached, Calling
  <1>2. S \in Sock /\ U \in IdleStream /\ D \in IdleStream /\ on \in Conns /\ calls \in Seq(Functions)
    BY <1>1, HasBegun
  <1>3. calls[1] \notin Leavings /\ calls[1] \notin Marks /\ calls[1] \notin {"close_if_done", "sock_close"}
    BY <1>1 DEF Leavings, Endings, Marks
  <1>4. ~S.rd
    BY <1>1, Attends
  <1>5. U.state = 0 /\ peer' = peer /\ UNCHANGED <<poller, queue>>
    <2>1. U.state = 0
      BY <1>2, StreamSet
    <2> QED
      BY <2>1 DEF DetachRx, RxDetached, Quiet
  <1>6. \A x \in Conns : peer[x].rst => peer'[x].rst
    BY <1>5
  <1>7. /\ <<>> \in Seq(Functions) /\ First(Inner, <<>>) /\ \A X : ~Occurs(X, <<>>)
        /\ ~Top("on_tx", <<>>) /\ ~Top("tr_consume", <<>>)
    BY CallForms
  <1>8. CASE DetachRx /\ U.src
    <2>1. PICK u : u = Finished(U)
      OBVIOUS
    <2>2. u \in IdleStream /\ u.snk = U.snk /\ u.fin /\ (Empty(u) <=> Empty(U))
      BY <2>1, <1>2, StreamSet, StreamFlags
    <2>3. PICK cs : cs = ConsumeUp \o <<"rx_detached">>
      OBVIOUS
    <2>4. "rx_detached" \in Functions /\ "rx_detached" \notin Inner
      BY DEF Functions, Lasting, Plain, Inner
    <2>5. /\ cs \in Seq(Functions) /\ First(Inner, cs)
          /\ \A X : Occurs(X, cs) <=> (U.snk /\ "tr_consume" \in X) \/ "rx_detached" \in X
      BY <2>3, <2>4, ConsumeForms
    <2>6. Local(S, u, D, cs)
      BY <1>8, <2>1, <2>3 DEF DetachRx
    <2>7. Heard(on) => Fine(S, u, D, cs \o Tail(calls))
      <3>1. SUFFICES ASSUME Heard(on), NEW b, b = cs \o Tail(calls)
                     PROVE  Fine(S, u, D, b)
        OBVIOUS
      <3>2. ~Occurs({"sock_close"}, cs) /\ ~Occurs({"close_if_done", "sock_close"}, cs)
        BY <2>5
      <3>3. /\ Fine(S, U, D, calls)
            /\ Occurs({"sock_close"}, b) <=> Occurs({"sock_close"}, calls)
            /\ Occurs({"close_if_done", "sock_close"}, b) <=> Occurs({"close_if_done", "sock_close"}, calls)
            /\ ~Top("on_tx", calls)
        BY <3>1, <3>2, <2>5, <1>1, <1>3, FineCalls
      <3> QED
        BY <3>3, <2>2, <1>4 DEF Fine
    <2>8. /\ ~Occurs(Undoing, cs) /\ ~Occurs({"detach_tx"}, cs) /\ ~Occurs(Receiving, cs)
      BY <2>5 DEF Undoing, Leavings, Endings, Receiving
    <2> QED
      BY <1>1, <1>2, <1>3, <1>4, <1>5, <1>6, <2>2, <2>5, <2>6, <2>7, <2>8, LocalAttends
  <1>9. CASE DetachRx /\ ~U.src
    <2>1. Local(S, U, D, <<>>)
      BY <1>9 DEF DetachRx
    <2>2. Heard(on) => Fine(S, U, D, <<>> \o Tail(calls))
      BY <1>1, <1>3, <1>7, Attends, FineStill
    <2> QED
      BY <1>1, <1>2, <1>3, <1>4, <1>5, <1>6, <1>7, <2>1, <2>2, LocalAttends
  <1>10. CASE RxDetached
    <2>1. PICK u : u = Sourceless(U)
      OBVIOUS
    <2>2. u \in IdleStream /\ u.snk = U.snk /\ u.fin = U.fin /\ u.full = U.full /\ (Empty(u) <=> Empty(U))
      BY <2>1, <1>2, StreamSet, StreamFlags
    <2>3. Local(S, u, D, <<>>)
      BY <1>5, <1>10, <2>1 DEF RxDetached
    <2>4. Heard(on) => Fine(S, u, D, <<>> \o Tail(calls))
      <3>1. SUFFICES ASSUME Heard(on), NEW b, b = <<>> \o Tail(calls)
                     PROVE  Fine(S, u, D, b)
        OBVIOUS
      <3>2. Fine(S, U, D, b)
        BY <3>1, <1>1, <1>3, <1>7, Attends, FineStill
      <3> QED
        BY <3>2, <2>2, <1>4 DEF Fine
    <2> QED
      BY <1>1, <1>2, <1>3, <1>4, <1>5, <1>6, <1>7, <2>2, <2>3, <2>4, LocalAttends
  <1> QED
    BY <1>8, <1>9, <1>10

\* aem_stream_sink_detach on behalf of tx, and flowing rx, which may find nothing to do.
LEMMA DetachTxAttends ==
  ASSUME CInv, EndInv, AttendInv, DetachTx
  PROVE  AttendInv'
  <1>1. calls # <<>> /\ calls[1] = "detach_tx"
    BY DEF DetachTx, Calling
  <1>2. S \in Sock /\ U \in IdleStream /\ D \in IdleStream /\ on \in Conns /\ calls \in Seq(Functions)
    BY <1>1, HasBegun
  <1>3. calls[1] \notin Leavings /\ calls[1] \notin Marks
    BY <1>1 DEF Leavings, Endings, Marks
  <1>4. ~S.wr
    <2>1. Occurs({"detach_tx"}, calls)
      BY <1>1, Attends
    <2> QED
      BY <2>1, <1>1, Attends
  <1>5. D.state = 0
    BY <1>2, StreamSet
  <1>6. PICK d : d = IF D.snk THEN Sinkless(D) ELSE D
    OBVIOUS
  <1>7. d \in IdleStream /\ d.src = D.src /\ (d.fin <=> D.fin \/ D.snk) /\ (Empty(d) <=> Empty(D))
    BY <1>2, <1>6, StreamSet, StreamFlags
  <1>8. Local(S, U, d, <<>>) /\ peer' = peer /\ UNCHANGED <<poller, queue>>
    BY <1>5, <1>6 DEF DetachTx, Quiet
  <1>9. /\ <<>> \in Seq(Functions) /\ First(Inner, <<>>) /\ \A X : ~Occurs(X, <<>>)
        /\ ~Top("on_tx", <<>>) /\ ~Top("tr_consume", <<>>)
    BY CallForms
  <1>10. Heard(on) => Fine(S, U, d, <<>> \o Tail(calls))
    <2>1. SUFFICES ASSUME Heard(on), NEW b, b = <<>> \o Tail(calls)
                   PROVE  Fine(S, U, d, b)
      OBVIOUS
    <2>2. Fine(S, U, D, b)
      BY <2>1, <1>1, <1>3, <1>9, Attends, FineStill
    <2> QED
      BY <2>2, <1>4, <1>7 DEF Fine
  <1>11. \A x \in Conns : peer[x].rst => peer'[x].rst
    BY <1>8
  <1> QED
    BY <1>1, <1>2, <1>3, <1>4, <1>7, <1>8, <1>9, <1>10, <1>11, LocalAttends

\* A function that calls none of the end of a connection, and keeps the streams.
LEMMA FlowAttends ==
  ASSUME CInv, EndInv, AttendInv, FlowRx \/ FlowTx
  PROVE  AttendInv'
  <1>1. calls # <<>> /\ calls[1] \in {"flow_rx", "flow_tx"}
    BY DEF FlowRx, FlowTx, Calling
  <1>2. S \in Sock /\ U \in IdleStream /\ D \in IdleStream /\ on \in Conns /\ calls \in Seq(Functions)
    BY <1>1, HasBegun
  <1>3. calls[1] \notin Leavings /\ calls[1] \notin Marks
    BY <1>1 DEF Leavings, Endings, Marks
  <1>4. peer' = peer /\ UNCHANGED <<poller, queue>> /\ \A x \in Conns : peer[x].rst => peer'[x].rst
    BY DEF FlowRx, FlowTx, Quiet
  <1>5. /\ <<>> \in Seq(Functions) /\ First(Inner, <<>>) /\ \A X : ~Occurs(X, <<>>)
        /\ ~Top("on_tx", <<>>) /\ ~Top("tr_consume", <<>>)
    BY CallForms
  <1>6. ASSUME NEW f \in Functions, f \notin Undoing, f \notin Marks, f \notin {"detach_tx", "detach_rx", "rx_detached"},
               f \in Receiving => calls[1] \in Receiving,
               Local(S, U, D, <<f>>)
        PROVE  AttendInv'
    <2>1. PICK cs : cs = <<f>>
      OBVIOUS
    <2>2. /\ cs \in Seq(Functions) /\ First(Inner, cs) /\ Len(cs) <= 1
          /\ \A X : Occurs(X, cs) <=> f \in X
          /\ \A h : Top(h, cs) <=> f = h
      <3>1. cs \in Seq(Functions) /\ Len(cs) <= 1
        BY <2>1
      <3> QED
        BY <3>1, <2>1, CallForms
    <2>3. ~Top("on_tx", cs) /\ ~Top("tr_consume", cs) /\ ~Occurs(Marks, cs)
      BY <2>2, <1>6 DEF Marks
    <2>4. Heard(on) => Fine(S, U, D, cs \o Tail(calls))
      BY <1>1, <1>3, <2>2, <2>3, Attends, FineStill
    <2>5. ~Occurs(Undoing, cs) /\ ~Occurs({"detach_tx"}, cs) /\ ~Occurs({"detach_rx", "rx_detached"}, cs)
          /\ (Occurs(Receiving, cs) => calls[1] \in Receiving)
      BY <2>2, <1>6
    <2> QED
      BY <1>1, <1>2, <1>3, <1>4, <1>6, <2>1, <2>2, <2>4, <2>5, LocalAttends
  <1>7. CASE FlowRx
    <2>1. CASE U.src
      <3>1. "on_rx" \in Functions /\ "on_rx" \notin Undoing /\ "on_rx" \notin Marks /\ calls[1] \in Receiving
        BY <1>7 DEF Functions, Lasting, Plain, Undoing, Leavings, Endings, Marks, Receiving, FlowRx, Calling
      <3>2. Local(S, U, D, <<"on_rx">>)
        BY <1>7, <2>1 DEF FlowRx
      <3> QED
        BY <1>6, <3>1, <3>2
    <2>2. CASE ~U.src
      <3>1. PICK s : s = Ignore(S, {"IN"})
        OBVIOUS
      <3>2. /\ s \in Sock /\ s.fd = S.fd /\ s.rd = S.rd /\ s.wr = S.wr /\ s.onClose = S.onClose
            /\ s.events = S.events \ {"IN"}
        BY <1>2, <3>1, SockSet, SockEvents DEF Bits
      <3>3. Local(s, U, D, <<>>)
        BY <1>7, <2>2, <3>1 DEF FlowRx
      <3>4. Heard(on) => Fine(s, U, D, <<>> \o Tail(calls))
        <4>1. SUFFICES ASSUME Heard(on), NEW b, b = <<>> \o Tail(calls)
                       PROVE  Fine(s, U, D, b)
          OBVIOUS
        <4>2. Fine(S, U, D, b)
          BY <4>1, <1>1, <1>3, <1>5, Attends, FineStill
        <4>3. Done(s) = Done(S) /\ ("OUT" \in s.events <=> "OUT" \in S.events)
          BY <3>2 DEF Done
        <4>4. Top("tr_consume", b) <=> FALSE
          BY <4>1, <1>1, <1>5, Marked
        <4>5. Top("on_tx", b) <=> FALSE
          BY <4>1, <1>1, <1>5, Marked
        <4> QED
          BY <4>2, <4>3, <4>4, <4>5, <3>2, <2>2 DEF Fine
      <3> QED
        BY <1>1, <1>2, <1>3, <1>4, <1>5, <3>2, <3>3, <3>4, LocalAttends
    <2> QED
      BY <2>1, <2>2
  <1>8. CASE FlowTx
    <2>1. CASE D.snk /\ D.src
      <3>1. "tr_provide" \in Functions /\ "tr_provide" \notin Undoing /\ "tr_provide" \notin Marks /\ "tr_provide" \notin Receiving
        BY DEF Functions, Lasting, Plain, Undoing, Leavings, Endings, Marks, Receiving
      <3>2. Local(S, U, D, <<"tr_provide">>)
        BY <1>8, <2>1 DEF FlowTx, If
      <3> QED
        BY <1>6, <3>1, <3>2
    <2>2. CASE D.snk /\ ~D.src
      <3>1. Local(S, U, D, <<>>)
        BY <1>8, <2>2 DEF FlowTx, If
      <3>2. Heard(on) => Fine(S, U, D, <<>> \o Tail(calls))
        BY <1>1, <1>3, <1>5, Attends, FineStill
      <3> QED
        BY <1>1, <1>2, <1>3, <1>4, <1>5, <3>1, <3>2, LocalAttends
    <2>3. CASE ~D.snk
      <3>1. PICK s : s = Ignore(S, {"OUT"})
        OBVIOUS
      <3>2. /\ s \in Sock /\ s.fd = S.fd /\ s.rd = S.rd /\ s.wr = S.wr /\ s.onClose = S.onClose
        BY <1>2, <3>1, SockSet, SockEvents DEF Bits
      <3>3. Local(s, U, D, <<>>)
        BY <1>8, <2>3, <3>1 DEF FlowTx
      <3>4. Heard(on) => Fine(s, U, D, <<>> \o Tail(calls))
        <4>1. SUFFICES ASSUME Heard(on), NEW b, b = <<>> \o Tail(calls)
                       PROVE  Fine(s, U, D, b)
          OBVIOUS
        <4>2. Fine(S, U, D, b)
          BY <4>1, <1>1, <1>3, <1>5, Attends, FineStill
        <4>3. Done(s) = Done(S)
          BY <3>2 DEF Done
        <4> QED
          BY <4>2, <4>3, <3>2, <2>3 DEF Fine
      <3> QED
        BY <1>1, <1>2, <1>3, <1>4, <1>5, <3>2, <3>3, <3>4, LocalAttends
    <2> QED
      BY <2>1, <2>2, <2>3
  <1> QED
    BY <1>7, <1>8

\* aem_net_on_rx_end: the input has ended.
LEMMA OnRxEndAttends ==
  ASSUME CInv, EndInv, AttendInv, OnRxEnd
  PROVE  AttendInv'
  <1>1. calls # <<>> /\ calls[1] = "on_rx_end"
    BY DEF OnRxEnd, Calling
  <1>2. S \in Sock /\ U \in IdleStream /\ D \in IdleStream /\ on \in Conns /\ calls \in Seq(Functions)
    BY <1>1, HasBegun
  <1>3. calls[1] \notin Leavings
    BY <1>1 DEF Leavings, Endings
  <1>4. peer' = peer /\ UNCHANGED <<poller, queue>> /\ \A x \in Conns : peer[x].rst => peer'[x].rst
    BY DEF OnRxEnd, Quiet
  <1>5. CASE U.fin
    <2>1. PICK i : i = Ignore(S, {"IN", "RDHUP"})
      OBVIOUS
    <2>2. i \in Sock /\ i.fd = S.fd /\ i.wr = S.wr /\ i.onClose = S.onClose /\ i.events = S.events \ {"IN", "RDHUP"}
      BY <1>2, <2>1, SockSet, SockEvents DEF Bits
    <2>3. PICK s : s = [i EXCEPT !.rd = FALSE]
      OBVIOUS
    <2>4. /\ s \in Sock /\ s.fd = S.fd /\ ~s.rd /\ s.wr = S.wr /\ s.onClose = S.onClose
          /\ s.events = S.events \ {"IN", "RDHUP"}
      <3>1. s \in Sock /\ s.fd = i.fd /\ s.rd = FALSE /\ s.wr = i.wr
        BY <2>2, <2>3, SockSides
      <3>2. s.onClose = i.onClose /\ s.events = i.events
        BY <2>2, <2>3, SockEvents
      <3> QED
        BY <3>1, <3>2, <2>2
    <2>5. PICK cs : cs = <<"detach_rx", "close_if_done">>
      OBVIOUS
    <2>6. "detach_rx" \in Functions /\ "close_if_done" \in Functions /\ "close_if_done" \notin Inner
      BY DEF Functions, Lasting, Plain, Inner
    <2>7. /\ cs \in Seq(Functions) /\ First(Inner, cs)
          /\ \A X : Occurs(X, cs) <=> "detach_rx" \in X \/ "close_if_done" \in X
          /\ \A h : Top(h, cs) <=> "detach_rx" = h
      <3>1. cs \in Seq(Functions)
        BY <2>5, <2>6
      <3> QED
        BY <3>1, <2>5, <2>6, CallForms
    <2>8. Local(s, U, D, cs)
      BY <1>5, <2>1, <2>3, <2>5 DEF OnRxEnd
    <2>9. Heard(on) => Fine(s, U, D, cs \o Tail(calls))
      <3>1. SUFFICES ASSUME Heard(on), NEW b, b = cs \o Tail(calls)
                     PROVE  Fine(s, U, D, b)
        OBVIOUS
      <3>2. Occurs({"close_if_done", "sock_close"}, cs) /\ ~Occurs({"sock_close"}, cs)
        BY <2>7
      <3>3. /\ Fine(S, U, D, calls)
            /\ Occurs({"close_if_done", "sock_close"}, b)
            /\ Occurs({"sock_close"}, b) <=> Occurs({"sock_close"}, calls)
            /\ ~Top("on_tx", calls)
        BY <3>1, <3>2, <2>7, <1>1, FineCalls
      <3>4. "OUT" \in s.events <=> "OUT" \in S.events
        BY <2>4
      <3>5. Done(S) => Done(s)
        BY <2>4 DEF Done
      <3> QED
        BY <3>3, <3>4, <3>5, <2>4, <1>5 DEF Fine
    <2>10. ~Occurs(Undoing, cs) /\ ~Occurs({"detach_tx"}, cs) /\ ~Occurs(Receiving, cs)
      BY <2>7 DEF Undoing, Leavings, Endings, Receiving
    <2> QED
      BY <1>1, <1>2, <1>3, <1>4, <2>4, <2>7, <2>8, <2>9, <2>10, LocalAttends
  <1>6. CASE ~U.fin
    <2>1. /\ <<>> \in Seq(Functions) /\ First(Inner, <<>>) /\ \A X : ~Occurs(X, <<>>)
          /\ ~Top("on_tx", <<>>) /\ ~Top("tr_consume", <<>>)
      BY CallForms
    <2>2. Local(S, U, D, <<>>)
      BY <1>6 DEF OnRxEnd
    <2>3. Heard(on) => Fine(S, U, D, <<>> \o Tail(calls))
      <3>1. SUFFICES ASSUME Heard(on), NEW b, b = <<>> \o Tail(calls)
                     PROVE  Fine(S, U, D, b)
        OBVIOUS
      <3>2. /\ Fine(S, U, D, calls)
            /\ Occurs({"close_if_done", "sock_close"}, b) <=> Occurs({"close_if_done", "sock_close"}, calls)
            /\ Occurs({"sock_close"}, b) <=> Occurs({"sock_close"}, calls)
            /\ ~Top("on_tx", calls) /\ ~Top("tr_consume", calls)
            /\ ~Top("on_tx", b) /\ ~Top("tr_consume", b)
        BY <3>1, <2>1, <1>1, FineCalls
      <3> QED
        BY <3>2, <1>6 DEF Fine
    <2> QED
      BY <1>1, <1>2, <1>3, <1>4, <2>1, <2>2, <2>3, LocalAttends
  <1> QED
    BY <1>5, <1>6

\* aem_net_close_if_done.
LEMMA CloseIfDoneAttends ==
  ASSUME CInv, EndInv, AttendInv, CloseIfDone
  PROVE  AttendInv'
  <1>1. calls # <<>> /\ calls[1] = "close_if_done"
    BY DEF CloseIfDone, Calling
  <1>2. S \in Sock /\ U \in IdleStream /\ D \in IdleStream /\ on \in Conns /\ calls \in Seq(Functions)
    BY <1>1, HasBegun
  <1>3. calls[1] \notin Leavings
    BY <1>1 DEF Leavings, Endings
  <1>4. peer' = peer /\ UNCHANGED <<poller, queue>> /\ \A x \in Conns : peer[x].rst => peer'[x].rst
    BY DEF CloseIfDone, Quiet
  <1>5. PICK cs : cs = If(Done(S), <<"sock_close">>)
    OBVIOUS
  <1>6. Local(S, U, D, cs)
    BY <1>5 DEF CloseIfDone
  <1>7. /\ cs \in Seq(Functions) /\ First(Inner, cs)
        /\ \A X : Occurs(X, cs) <=> Done(S) /\ "sock_close" \in X
        /\ ~Top("on_tx", cs) /\ ~Top("tr_consume", cs)
    <2>1. CASE Done(S)
      <3>1. cs = <<"sock_close">>
        BY <1>5, <2>1 DEF If
      <3>2. "sock_close" \in Functions
        BY DEF Functions, Lasting, Plain
      <3>3. cs \in Seq(Functions)
        BY <3>1, <3>2
      <3>4. First(Inner, cs) /\ (\A X : Occurs(X, cs) <=> "sock_close" \in X) /\ \A h : Top(h, cs) <=> "sock_close" = h
        BY <3>1, CallForms
      <3> QED
        BY <3>3, <3>4, <2>1
    <2>2. CASE ~Done(S)
      <3>1. cs = <<>>
        BY <1>5, <2>2 DEF If
      <3>2. cs \in Seq(Functions)
        BY <3>1
      <3> QED
        BY <3>1, <3>2, <2>2, CallForms
    <2> QED
      BY <2>1, <2>2
  <1>8. Heard(on) => Fine(S, U, D, cs \o Tail(calls))
    <2>1. SUFFICES ASSUME Heard(on), NEW b, b = cs \o Tail(calls)
                   PROVE  Fine(S, U, D, b)
      OBVIOUS
    <2>2. /\ Occurs({"sock_close"}, cs) <=> Done(S)
          /\ Occurs({"close_if_done", "sock_close"}, cs) <=> Done(S)
          /\ ~Occurs({"on_rx_end"}, cs)
      BY <1>7
    <2>3. Occurs({"close_if_done", "sock_close"}, b) \/ ~Done(S)
      BY <2>1, <2>2, <1>1, <1>7, Marked
    <2>4. /\ Fine(S, U, D, calls)
          /\ Occurs({"on_rx_end"}, b) <=> Occurs({"on_rx_end"}, calls)
          /\ Occurs({"sock_close"}, b) <=> Done(S) \/ Occurs({"sock_close"}, calls)
          /\ ~Top("on_tx", calls) /\ ~Top("tr_consume", calls)
          /\ ~Top("on_tx", b) /\ ~Top("tr_consume", b)
      BY <2>1, <2>2, <1>1, <1>7, FineCalls
    <2> QED
      BY <2>3, <2>4 DEF Fine
  <1>9. ~Occurs(Undoing, cs) /\ ~Occurs({"detach_tx"}, cs) /\ ~Occurs({"detach_rx", "rx_detached"}, cs) /\ ~Occurs(Receiving, cs)
    BY <1>7 DEF Undoing, Leavings, Endings, Receiving
  <1> QED
    BY <1>1, <1>2, <1>3, <1>4, <1>6, <1>7, <1>8, <1>9, LocalAttends

\* What the transducer appends, and what it is appended to.
LEMMA AppendedFlags ==
  ASSUME NEW t \in IdleStream, NEW n \in Nat
  PROVE  /\ Appended(t, n).fin = t.fin
         /\ Empty(Appended(t, n)) <=> Empty(t) /\ n = 0
         /\ Lines(t) = 0 <=> Empty(t)
  <1>1. t.buf \in {NoBuffer} \cup Nat
    BY StreamSet
  <1>2. Lines(t) \in Nat /\ (Lines(t) = 0 <=> Empty(t))
    BY <1>1 DEF Lines, Empty, NoBuffer
  <1>3. CASE n = 0
    BY <1>2, <1>3 DEF Appended
  <1>4. CASE n # 0
    <2>1. PICK m : m = Lines(t) + n
      OBVIOUS
    <2>2. m \in Nat /\ m # 0
      BY <2>1, <1>2, <1>4
    <2>3. PICK a : a = Appended(t, n)
      OBVIOUS
    <2>4. a = [t EXCEPT !.buf = m]
      BY <1>4, <2>1, <2>3 DEF Appended
    <2>5. a.fin = t.fin /\ (Empty(a) <=> m = 0)
      BY <2>2, <2>4, LinesSet
    <2> QED
      BY <1>2, <1>4, <2>2, <2>3, <2>5
  <1> QED
    BY <1>3, <1>4

\* What aem_stream_transducer_consume does to the streams.
Carried(u0, d0, left, u, d) ==
    LET n == Lines(u0) - left
        m == Appended(Asked(d0), n)
    IN /\ left \in Nat /\ left <= Lines(u0) /\ (u0.fin => left = 0)
       /\ u = [u0 EXCEPT !.full = FALSE, !.buf = left]
       /\ d = [m EXCEPT !.fin = m.fin \/ ((u0.fin \/ d0.fin) /\ left = 0)]

\* What becomes of them.
LEMMA Transduced ==
  ASSUME NEW u0 \in IdleStream, NEW d0 \in IdleStream, NEW left, NEW u, NEW d, Carried(u0, d0, left, u, d)
  PROVE  /\ u \in IdleStream /\ u.src = u0.src /\ u.snk = u0.snk /\ u.fin = u0.fin /\ ~u.full
         /\ Empty(u) <=> left = 0
         /\ d \in IdleStream /\ d.src = d0.src /\ d.snk = d0.snk
         /\ d.fin <=> d0.fin \/ (u0.fin /\ left = 0)
         /\ Empty(d) <=> Empty(d0) /\ left = Lines(u0)
         /\ left = Lines(u0) => (Empty(u) <=> Empty(u0))
         /\ Empty(u0) => left = 0 /\ left = Lines(u0)
  <1>12. PICK n, m : n = Lines(u0) - left /\ m = Appended(Asked(d0), n)
    OBVIOUS
  <1>13. PICK f : f = (m.fin \/ ((u0.fin \/ d0.fin) /\ left = 0))
    OBVIOUS
  <1>14. f \in BOOLEAN
    BY <1>13
  <1>15. /\ left \in Nat /\ left <= Lines(u0) /\ (u0.fin => left = 0)
         /\ u = [u0 EXCEPT !.full = FALSE, !.buf = left]
    BY DEF Carried
  <1>16. d = [m EXCEPT !.fin = f]
    BY <1>12, <1>13 DEF Carried
  <1>1. Lines(u0) \in Nat /\ (Lines(u0) = 0 <=> Empty(u0))
    <2>1. 0 \in Nat
      OBVIOUS
    <2> QED
      BY <2>1, AppendedOK, AppendedFlags
  <1>2. /\ u \in IdleStream /\ u.src = u0.src /\ u.snk = u0.snk /\ u.fin = u0.fin /\ ~u.full
        /\ Empty(u) <=> left = 0
    <2>1. u \in IdleStream /\ u.src = u0.src /\ u.snk = u0.snk
      BY <1>15, StreamMoved
    <2>2. u.fin = u0.fin /\ u.full = FALSE /\ (Empty(u) <=> left = 0)
      <3>1. left \in Nat
        BY <1>15
      <3>2. IsDrained(u, u0, left)
        BY <1>15 DEF IsDrained
      <3>3. u0 \in IdleStream
        OBVIOUS
      <3>4. u.full = FALSE /\ u.fin = u0.fin /\ (Empty(u) <=> left = 0)
        BY <3>1, <3>2, <3>3, Drained
      <3> QED
        BY <3>4
    <2> QED
      BY <2>1, <2>2
  <1>3. n \in Nat /\ (n = 0 <=> left = Lines(u0))
    BY <1>1, <1>12, <1>15
  <1>4. PICK a : a = Asked(d0)
    OBVIOUS
  <1>5. a \in IdleStream /\ a.src = d0.src /\ a.snk = d0.snk /\ a.fin = d0.fin /\ (Empty(a) <=> Empty(d0))
    BY <1>4, StreamSet, StreamFlags
  <1>6. m \in IdleStream /\ m.src = a.src /\ m.snk = a.snk /\ m.fin = a.fin /\ (Empty(m) <=> Empty(a) /\ n = 0)
    BY <1>3, <1>4, <1>5, <1>12, AppendedOK, AppendedFlags
  <1>7. /\ d \in IdleStream /\ d.src = m.src /\ d.snk = m.snk /\ d.fin = f /\ (Empty(d) <=> Empty(m))
    <2>1. m \in IdleStream
      BY <1>6
    <2>2. d \in IdleStream /\ d.src = m.src /\ d.snk = m.snk
      BY <2>1, <1>14, <1>16, StreamFilled
    <2>3. d.fin = f /\ (Empty(d) <=> Empty(m))
      BY <2>1, <1>14, <1>16, FinSet
    <2> QED
      BY <2>2, <2>3
  <1>8. d.fin <=> d0.fin \/ (u0.fin /\ left = 0)
    BY <1>5, <1>6, <1>7, <1>13
  <1>9. Empty(d) <=> Empty(d0) /\ left = Lines(u0)
    BY <1>3, <1>5, <1>6, <1>7
  <1>10. left = Lines(u0) => (Empty(u) <=> Empty(u0))
    BY <1>1, <1>2
  <1>11. Empty(u0) => left = 0 /\ left = Lines(u0)
    BY <1>1, <1>15
  <1> QED
    BY <1>2, <1>5, <1>6, <1>7, <1>8, <1>9, <1>10, <1>11

\* aem_stream_transducer_consume: what does not go on waits for POLLOUT, or for input.
LEMMA TrConsumeAttends ==
  ASSUME CInv, EndInv, AttendInv, TrConsume
  PROVE  AttendInv'
  <1>1. calls # <<>> /\ calls[1] = "tr_consume"
    BY DEF TrConsume, Calling
  <1>2. /\ S \in Sock /\ U \in IdleStream /\ D \in IdleStream /\ on \in Conns /\ calls \in Seq(Functions)
        /\ (U.buf # NoBuffer /\ D.buf # NoBuffer) \/ Beginning
    BY <1>1, HasBegun
  <1>3. calls[1] \notin Leavings
    BY <1>1 DEF Leavings, Endings
  <1>4. peer' = peer /\ UNCHANGED <<poller, queue>> /\ \A x \in Conns : peer[x].rst => peer'[x].rst
    BY DEF TrConsume, Quiet
  <1>5. U.buf # NoBuffer /\ U.state = 0
    <2>1. Beginning => U.buf > 0
      BY <1>1 DEF Beginning, Offered, Taken
    <2>2. U.buf # NoBuffer
      BY <2>1, <1>2 DEF NoBuffer
    <2> QED
      BY <2>2, <1>2, StreamSet
  <1>6. PICK cs : cs = ConsumeDown
    OBVIOUS
  <1>7. /\ cs \in Seq(Functions) /\ First(Inner, cs)
        /\ \A X : Occurs(X, cs) <=> D.snk /\ "on_tx" \in X
        /\ \A f : Top(f, cs) <=> D.snk /\ f = "on_tx"
    <2>1. "closed" \in Functions /\ "closed" \notin Inner
      BY DEF Functions, Lasting, Plain, Inner
    <2> QED
      BY <1>6, <2>1, ConsumeForms
  <1>8. /\ ~Occurs(Undoing, cs) /\ ~Occurs({"detach_tx"}, cs) /\ ~Occurs({"detach_rx", "rx_detached"}, cs)
        /\ ~Occurs(Receiving, cs)
        /\ ~Occurs({"on_rx_end"}, cs) /\ ~Occurs({"close_if_done", "sock_close"}, cs) /\ ~Occurs({"sock_close"}, cs)
    BY <1>7 DEF Undoing, Leavings, Endings, Receiving
  <1>9. ASSUME Heard(on), NEW b, b = cs \o Tail(calls)
        PROVE  /\ Fine(S, U, D, calls)
               /\ Top("on_tx", b) <=> D.snk
               /\ ~Top("tr_consume", b) /\ ~Top("on_tx", calls) /\ Top("tr_consume", calls)
               /\ Occurs({"on_rx_end"}, b) <=> Occurs({"on_rx_end"}, calls)
               /\ Occurs({"close_if_done", "sock_close"}, b) <=> Occurs({"close_if_done", "sock_close"}, calls)
               /\ Occurs({"sock_close"}, b) <=> Occurs({"sock_close"}, calls)
    BY <1>1, <1>7, <1>8, <1>9, FineCalls
  <1>10. CASE ~D.src
    <2>1. ~S.fd
      BY <1>1, <1>10, Attends
    <2>2. Local(S, U, D, <<"tr_close">>)
      BY <1>10 DEF TrConsume
    <2>3. PICK c : c = <<"tr_close">>
      OBVIOUS
    <2>4. c \in Seq(Functions) /\ First(Inner, c) /\ \A X : Occurs(X, c) <=> "tr_close" \in X
      <3>1. "tr_close" \in Functions
        BY DEF Functions, Lasting, Plain
      <3>2. c \in Seq(Functions)
        BY <2>3, <3>1
      <3> QED
        BY <2>3, <3>2, CallForms
    <2>5. Heard(on) => Fine(S, U, D, c \o Tail(calls))
      <3>1. SUFFICES ASSUME Heard(on), NEW b, b = c \o Tail(calls)
                     PROVE  Fine(S, U, D, b)
        OBVIOUS
      <3>2. Fine(S, U, D, calls)
        BY <3>1, <1>1, Attends
      <3> QED
        BY <3>2, <2>1 DEF Fine
    <2>6. ~Occurs({"detach_tx"}, c) /\ ~Occurs({"detach_rx", "rx_detached"}, c) /\ ~Occurs(Receiving, c)
      BY <2>4 DEF Receiving
    <2> QED
      BY <1>1, <1>2, <1>3, <1>4, <2>1, <2>2, <2>3, <2>4, <2>5, <2>6, LocalAttends
  <1>11. CASE D.src /\ ~ShouldProvide(D)
    <2>1. PICK u : u = [U EXCEPT !.full = TRUE]
      OBVIOUS
    <2>2. u \in IdleStream /\ u.snk = U.snk /\ u.src = U.src /\ u.full /\ u.fin = U.fin /\ (Empty(u) <=> Empty(U))
      BY <2>1, <1>2, StreamFilled, FullSet
    <2>3. ~Empty(D)
      BY <1>2, <1>11, StreamFlags
    <2>4. Local(S, u, D, cs)
      BY <1>6, <1>11, <2>1 DEF TrConsume
    <2>5. Heard(on) => Fine(S, u, D, cs \o Tail(calls))
      <3>1. SUFFICES ASSUME Heard(on), NEW b, b = cs \o Tail(calls)
                     PROVE  Fine(S, u, D, b)
        OBVIOUS
      <3>2. "OUT" \in S.events => {"IN", "OUT"} \cap S.events # {}
        OBVIOUS
      <3> QED
        BY <3>1, <3>2, <2>2, <2>3, <1>9 DEF Fine
    <2> QED
      BY <1>1, <1>2, <1>3, <1>4, <1>7, <1>8, <2>2, <2>4, <2>5, LocalAttends
  <1>12. CASE D.src /\ ShouldProvide(D)
    <2>1. Transduce
      BY <1>5, <1>12 DEF TrConsume
    <2>2. PICK left \in Left :
            LET moved == Appended(Asked(D), Lines(U) - left)
                ends_ == (U.fin \/ D.fin) /\ left = 0
            IN Local(S, [U EXCEPT !.full = FALSE, !.buf = left],
                     [moved EXCEPT !.fin = @ \/ ends_], ConsumeDown)
      BY <2>1 DEF Transduce
    <2>3. Lines(U) \in Nat
      <3>1. 0 \in Nat
        OBVIOUS
      <3> QED
        BY <3>1, <1>2, AppendedOK
    <2>4. left \in Nat /\ left <= Lines(U) /\ (U.fin => left = 0)
      BY <2>2, <2>3 DEF Left
    <2>5. PICK u : u = [U EXCEPT !.full = FALSE, !.buf = left]
      OBVIOUS
    <2>6. PICK n, m : n = Lines(U) - left /\ m = Appended(Asked(D), n)
      OBVIOUS
    <2>7. PICK f : f = (m.fin \/ ((U.fin \/ D.fin) /\ left = 0))
      OBVIOUS
    <2>10. PICK d : d = [m EXCEPT !.fin = f]
      OBVIOUS
    <2>11. Local(S, u, d, cs)
      <3>1. d = [m EXCEPT !.fin = @ \/ ((U.fin \/ D.fin) /\ left = 0)]
        BY <2>7, <2>10
      <3> QED
        BY <1>6, <2>2, <2>5, <2>6, <3>1
    <2>12. PICK u0, d0 : u0 = U /\ d0 = D
      OBVIOUS
    <2>13. Carried(u0, d0, left, u, d)
      BY <2>4, <2>5, <2>6, <2>7, <2>10, <2>12 DEF Carried
    <2>8. /\ u \in IdleStream /\ u.src = U.src /\ u.snk = U.snk /\ u.fin = U.fin /\ ~u.full
          /\ Empty(u) <=> left = 0
          /\ d \in IdleStream /\ d.src = D.src /\ d.snk = D.snk
          /\ d.fin <=> D.fin \/ (U.fin /\ left = 0)
          /\ Empty(d) <=> Empty(D) /\ left = Lines(U)
          /\ left = Lines(U) => (Empty(u) <=> Empty(U))
          /\ Empty(U) => left = 0 /\ left = Lines(U)
      <3>1. u0 \in IdleStream /\ d0 \in IdleStream
        BY <1>2, <2>12
      <3>2. /\ u \in IdleStream /\ u.src = u0.src /\ u.snk = u0.snk /\ u.fin = u0.fin /\ ~u.full
            /\ Empty(u) <=> left = 0
            /\ d \in IdleStream /\ d.src = d0.src /\ d.snk = d0.snk
            /\ d.fin <=> d0.fin \/ (u0.fin /\ left = 0)
            /\ Empty(d) <=> Empty(d0) /\ left = Lines(u0)
            /\ left = Lines(u0) => (Empty(u) <=> Empty(u0))
            /\ Empty(u0) => left = 0 /\ left = Lines(u0)
        BY <2>13, <3>1, Transduced
      <3> QED
        BY <3>2, <2>12
    <2>9. Heard(on) => Fine(S, u, d, cs \o Tail(calls))
      <3>1. SUFFICES ASSUME Heard(on), NEW b, b = cs \o Tail(calls)
                     PROVE  Fine(S, u, d, b)
        OBVIOUS
      <3> QED
        BY <3>1, <2>4, <2>8, <1>9 DEF Fine
    <2> QED
      BY <1>1, <1>2, <1>3, <1>4, <1>7, <1>8, <2>8, <2>9, <2>11, LocalAttends
  <1> QED
    BY <1>10, <1>11, <1>12

\* aem_stream_transducer_provide: a full stream down waits for POLLOUT, and so does the
\* stream up that is full because of it.
LEMMA TrProvideAttends ==
  ASSUME CInv, EndInv, AttendInv, TrProvide
  PROVE  AttendInv'
  <1>1. calls # <<>> /\ calls[1] = "tr_provide"
    BY DEF TrProvide, Calling
  <1>2. S \in Sock /\ U \in IdleStream /\ D \in IdleStream /\ on \in Conns /\ calls \in Seq(Functions)
    BY <1>1, HasBegun
  <1>3. calls[1] \notin Leavings /\ calls[1] \notin Marks
    BY <1>1 DEF Leavings, Endings, Marks
  <1>4. calls = <<"tr_provide">> /\ U.snk
    <2>1. Occurs({"tr_provide"}, calls)
      BY <1>1, Attends
    <2> QED
      BY <2>1 DEF EndInv, Provides
  <1>5. peer' = peer /\ UNCHANGED <<poller, queue>> /\ \A x \in Conns : peer[x].rst => peer'[x].rst
    BY <1>4 DEF TrProvide, Quiet
  <1>6. Tail(calls) = <<>>
    BY <1>4
  <1>7. PICK f : f = ~ShouldProvide(D)
    OBVIOUS
  <1>8. PICK u : u = [U EXCEPT !.full = f]
    OBVIOUS
  <1>9. /\ u \in IdleStream /\ u.snk = U.snk /\ u.src = U.src /\ u.fin = U.fin /\ (Empty(u) <=> Empty(U))
        /\ u.full => ~Empty(D)
    <2>1. f \in BOOLEAN
      BY <1>7
    <2>2. u \in IdleStream /\ u.snk = U.snk /\ u.src = U.src
      BY <2>1, <1>2, <1>8, StreamFilled
    <2>3. u.full = f /\ u.fin = U.fin /\ (Empty(u) <=> Empty(U))
      BY <2>1, <1>2, <1>8, FullSet
    <2>4. f => ~Empty(D)
      BY <1>2, <1>7, StreamFlags
    <2> QED
      BY <2>2, <2>3, <2>4
  <1>10. PICK d : d = Asked(D)
    OBVIOUS
  <1>11. d \in IdleStream /\ d.snk = D.snk /\ d.src = D.src /\ d.fin = D.fin /\ (Empty(d) <=> Empty(D))
    BY <1>2, <1>10, StreamSet, StreamFlags
  <1>12. PICK cs : cs = If(U.src, <<"on_rx">>)
    OBVIOUS
  <1>13. Local(S, u, d, cs)
    BY <1>4, <1>7, <1>8, <1>10, <1>12 DEF TrProvide
  <1>14. /\ cs \in Seq(Functions) /\ First(Inner, cs) /\ Len(cs) <= 1
         /\ \A X : Occurs(X, cs) => "on_rx" \in X
         /\ \A h : Top(h, cs) => "on_rx" = h
    <2>1. CASE U.src
      <3>1. cs = <<"on_rx">>
        BY <1>12, <2>1 DEF If
      <3>2. "on_rx" \in Functions
        BY DEF Functions, Lasting, Plain
      <3>3. cs \in Seq(Functions) /\ Len(cs) <= 1
        BY <3>1, <3>2
      <3>4. First(Inner, cs) /\ (\A X : Occurs(X, cs) <=> "on_rx" \in X) /\ \A h : Top(h, cs) <=> "on_rx" = h
        BY <3>1, CallForms
      <3> QED
        BY <3>3, <3>4
    <2>2. CASE ~U.src
      <3>1. cs = <<>>
        BY <1>12, <2>2 DEF If
      <3>2. cs \in Seq(Functions) /\ Len(cs) <= 1
        BY <3>1
      <3>3. First(Inner, cs) /\ (\A X : ~Occurs(X, cs)) /\ \A h : ~Top(h, cs)
        BY <3>1, CallForms
      <3> QED
        BY <3>2, <3>3
    <2> QED
      BY <2>1, <2>2
  <1>15. /\ ~Occurs(Undoing, cs) /\ ~Occurs({"detach_tx"}, cs) /\ ~Occurs({"detach_rx", "rx_detached"}, cs)
         /\ ~Occurs(Marks, cs) /\ ~Top("on_tx", cs) /\ ~Top("tr_consume", cs)
    BY <1>14 DEF Undoing, Leavings, Endings, Marks
  <1>16. Heard(on) => Fine(S, u, d, cs \o Tail(calls))
    <2>1. SUFFICES ASSUME Heard(on), NEW b, b = cs \o Tail(calls)
                   PROVE  Fine(S, u, d, b)
      OBVIOUS
    <2>2. Fine(S, U, D, b)
      BY <2>1, <1>1, <1>3, <1>14, <1>15, Attends, FineStill
    <2>3. ~Top("on_tx", b) /\ ~Top("tr_consume", b)
      BY <2>1, <1>1, <1>14, <1>15, Marked
    <2> QED
      BY <2>2, <2>3, <1>9, <1>11 DEF Fine
  <1> QED
    BY <1>1, <1>2, <1>3, <1>5, <1>6, <1>9, <1>11, <1>13, <1>14, <1>15, <1>16, LocalAttends

\* While rx receives, nothing waits but to flow tx.
LEMMA ReceivingLast ==
  ASSUME AttendInv, calls # <<>>, calls \in Seq(Functions), calls[1] \in Receiving, NEW X, "flow_tx" \notin X
  PROVE  ~Occurs(X, Tail(calls))
  <1>1. PICK t : t = Tail(calls)
    OBVIOUS
  <1>2. t \in Seq(Functions) /\ Len(t) = Len(calls) - 1 /\ Len(calls) \in Nat \ {0}
    BY <1>1
  <1>3. SUFFICES ASSUME NEW k \in 1 .. Len(t), t[k] \in X
                 PROVE  FALSE
    BY <1>1 DEF Occurs
  <1>4. t[k] = calls[k + 1] /\ k + 1 \in 1 .. Len(calls) /\ 1 \in 1 .. Len(calls) /\ 1 < k + 1
    BY <1>1, <1>2
  <1>5. Before(Receiving, {"flow_tx"}, calls)
    BY DEF AttendInv, RxAhead
  <1>6. calls[k + 1] \in {"flow_tx"}
    BY <1>4, <1>5 DEF Before
  <1> QED
    BY <1>3, <1>4, <1>6

\* What aem_net_on_rx leaves, when it may go on: the stream is not full, and there is
\* something in it unless POLLIN is waited for or the input has ended.
LEMMA ReceivedAttends ==
  ASSUME CInv, EndInv, AttendInv, calls # <<>>, calls[1] = "on_rx", S.rd,
         NEW s \in Sock, s.fd = S.fd, s.onClose = S.onClose, s.wr = S.wr,
         "OUT" \in s.events <=> "OUT" \in S.events,
         U.full /\ ~Empty(U) => FALSE, U.full \/ "IN" \in s.events,
         NEW u \in IdleStream, u.snk = U.snk, u.src = U.src, ~u.full,
         Heard(on) => u.fin \/ ~Empty(u) \/ "IN" \in s.events,
         NEW cs, cs = ConsumeUp \o <<"on_rx_end">>, Local(s, u, D, cs), UNCHANGED <<poller, queue>>,
         \A x \in Conns : peer[x].rst => peer'[x].rst
  PROVE  AttendInv'
  <1>1. S \in Sock /\ U \in IdleStream /\ D \in IdleStream /\ on \in Conns /\ calls \in Seq(Functions) /\ S.fd
    BY HasBegun
  <1>2. calls[1] \notin Leavings
    BY DEF Leavings, Endings
  <1>3. U.snk
    BY <1>1, Attends
  <1>4. /\ cs \in Seq(Functions) /\ First(Inner, cs)
        /\ \A X : Occurs(X, cs) <=> "tr_consume" \in X \/ "on_rx_end" \in X
        /\ Top("tr_consume", cs) /\ ~Top("on_tx", cs)
    <2>1. "on_rx_end" \in Functions /\ "on_rx_end" \notin Inner /\ "tr_consume" \in Inner /\ "on_tx" \in Inner
      BY DEF Functions, Lasting, Plain, Inner
    <2>2. cs \in Seq(Functions) /\ First(Inner, cs) /\ \A X : Occurs(X, cs) <=> (U.snk /\ "tr_consume" \in X) \/ "on_rx_end" \in X
      BY <2>1, ConsumeForms
    <2>3. \A f \in Inner : Top(f, cs) <=> U.snk /\ f = "tr_consume"
      BY <2>1, ConsumeForms
    <2> QED
      BY <2>1, <2>2, <2>3, <1>3
  <1>5. /\ ~Occurs(Undoing, cs) /\ ~Occurs({"detach_tx"}, cs) /\ ~Occurs({"detach_rx", "rx_detached"}, cs)
        /\ ~Occurs(Receiving, cs)
        /\ ~Occurs({"close_if_done", "sock_close"}, cs) /\ ~Occurs({"sock_close"}, cs) /\ Occurs({"on_rx_end"}, cs)
    BY <1>4 DEF Undoing, Leavings, Endings, Receiving
  <1>6. ~Occurs({"on_rx_end"}, calls) /\ ~Occurs({"close_if_done", "sock_close"}, calls) /\ ~Occurs({"sock_close"}, calls)
    <2>1. calls[1] \in Receiving
      BY DEF Receiving
    <2>2. \A X : "flow_tx" \notin X => ~Occurs(X, Tail(calls))
      BY <1>1, <2>1, ReceivingLast
    <2> QED
      BY <2>2, Attends
  <1>7. Heard(on) => Fine(s, u, D, cs \o Tail(calls))
    <2>1. SUFFICES ASSUME Heard(on), NEW b, b = cs \o Tail(calls)
                   PROVE  Fine(s, u, D, b)
      OBVIOUS
    <2>2. /\ Fine(S, U, D, calls)
          /\ ~Top("on_tx", calls) /\ ~Top("tr_consume", calls)
          /\ ~Top("on_tx", b) /\ Top("tr_consume", b)
          /\ Occurs({"on_rx_end"}, b)
          /\ ~Occurs({"sock_close"}, b)
      BY <2>1, <1>4, <1>5, <1>6, FineCalls
    <2>3. U.src /\ ~U.fin /\ ~D.fin /\ S.wr /\ (D.snk \/ ~S.wr) /\ (~Empty(D) => "OUT" \in S.events) /\ (U.full => "OUT" \in S.events)
      BY <2>2, <1>1, <1>6 DEF Fine
    <2>4. u.fin \/ ~Empty(u) \/ "IN" \in s.events
      BY <2>1
    <2>5. {"IN", "OUT"} \cap s.events # {}
      BY <2>3
    <2>6. ~Done(s)
      BY <2>3 DEF Done
    <2> QED
      BY <2>2, <2>3, <2>4, <2>5, <2>6, <1>1 DEF Fine
  <1> QED
    BY <1>1, <1>2, <1>4, <1>5, <1>7, LocalAttends

\* aem_net_on_rx.
LEMMA OnRxAttends ==
  ASSUME CInv, EndInv, AttendInv, OnRx
  PROVE  AttendInv'
  <1>1. calls # <<>> /\ calls[1] = "on_rx"
    BY DEF OnRx, Calling
  <1>2. S \in Sock /\ U \in IdleStream /\ D \in IdleStream /\ on \in Conns /\ calls \in Seq(Functions)
    BY <1>1, HasBegun
  <1>3. calls[1] \notin Leavings /\ calls[1] \notin Marks
    BY <1>1 DEF Leavings, Endings, Marks
  <1>4. PICK s : s = IF U.full THEN Ignore(S, {"IN"}) ELSE Want(S, {"IN"})
    OBVIOUS
  <1>5. /\ s \in Sock /\ s.fd = S.fd /\ s.rd = S.rd /\ s.wr = S.wr /\ s.onClose = S.onClose
        /\ "OUT" \in s.events <=> "OUT" \in S.events
        /\ U.full \/ "IN" \in s.events
    <2>1. {"IN"} \in SUBSET Bits
      BY DEF Bits
    <2>2. CASE U.full
      <3>1. s = Ignore(S, {"IN"})
        BY <1>4, <2>2
      <3>2. s \in Sock /\ s.fd = S.fd /\ s.rd = S.rd /\ s.wr = S.wr /\ s.onClose = S.onClose /\ s.events = S.events \ {"IN"}
        BY <3>1, <2>1, <1>2, SockSet, SockEvents
      <3> QED
        BY <3>2, <2>2
    <2>3. CASE ~U.full
      <3>1. s = Want(S, {"IN"})
        BY <1>4, <2>3
      <3>2. s \in Sock /\ s.fd = S.fd /\ s.rd = S.rd /\ s.wr = S.wr /\ s.onClose = S.onClose /\ s.events = S.events \cup {"IN"}
        BY <3>1, <2>1, <1>2, SockSet, SockEvents
      <3> QED
        BY <3>2, <2>3
    <2> QED
      BY <2>2, <2>3
  <1>6. CASE ~S.rd
    <2>1. Local(S, U, D, <<>>) /\ peer' = peer /\ UNCHANGED <<poller, queue>>
      BY <1>6 DEF OnRx, Quiet
    <2>2. /\ <<>> \in Seq(Functions) /\ First(Inner, <<>>) /\ \A X : ~Occurs(X, <<>>)
          /\ ~Top("on_tx", <<>>) /\ ~Top("tr_consume", <<>>)
      BY CallForms
    <2>3. Heard(on) => Fine(S, U, D, <<>> \o Tail(calls))
      BY <2>2, <1>1, <1>3, Attends, FineStill
    <2>4. \A x \in Conns : peer[x].rst => peer'[x].rst
      BY <2>1
    <2> QED
      BY <1>1, <1>2, <1>3, <2>1, <2>2, <2>3, <2>4, LocalAttends
  <1>7. CASE S.rd /\ ~ShouldProvide(U)
    <2>1. PICK cs : cs = ConsumeUp
      OBVIOUS
    <2>2. Local(s, U, D, cs) /\ peer' = peer /\ UNCHANGED <<poller, queue>>
      BY <1>4, <1>7, <2>1 DEF OnRx, Quiet
    <2>3. U.full /\ ~Empty(U)
      BY <1>2, <1>7, StreamFlags
    <2>4. S.fd
      BY <1>1, <1>7, HasBegun
    <2>5. U.snk
      BY <1>1, <2>4, Attends
    <2>6. /\ cs \in Seq(Functions) /\ First(Inner, cs)
          /\ \A X : Occurs(X, cs) <=> "tr_consume" \in X
          /\ Top("tr_consume", cs) /\ ~Top("on_tx", cs)
      <3>1. "on_rx_end" \in Functions /\ "on_rx_end" \notin Inner
        BY DEF Functions, Lasting, Plain, Inner
      <3>2. cs \in Seq(Functions) /\ First(Inner, cs) /\ (\A X : Occurs(X, cs) <=> U.snk /\ "tr_consume" \in X)
            /\ \A f : Top(f, cs) <=> U.snk /\ f = "tr_consume"
        BY <3>1, <2>1, ConsumeForms
      <3> QED
        BY <3>2, <2>5
    <2>7. /\ ~Occurs(Undoing, cs) /\ ~Occurs({"detach_tx"}, cs) /\ ~Occurs({"detach_rx", "rx_detached"}, cs)
          /\ ~Occurs(Receiving, cs)
          /\ ~Occurs({"close_if_done", "sock_close"}, cs) /\ ~Occurs({"sock_close"}, cs) /\ ~Occurs({"on_rx_end"}, cs)
      BY <2>6 DEF Undoing, Leavings, Endings, Receiving
    <2>8. Heard(on) => Fine(s, U, D, cs \o Tail(calls))
      <3>1. SUFFICES ASSUME Heard(on), NEW b, b = cs \o Tail(calls)
                     PROVE  Fine(s, U, D, b)
        OBVIOUS
      <3>2. /\ Fine(S, U, D, calls)
            /\ ~Top("on_tx", calls) /\ ~Top("tr_consume", calls)
            /\ ~Top("on_tx", b) /\ Top("tr_consume", b)
            /\ Occurs({"on_rx_end"}, b) <=> Occurs({"on_rx_end"}, calls)
            /\ Occurs({"sock_close"}, b) <=> Occurs({"sock_close"}, calls)
            /\ Occurs({"close_if_done", "sock_close"}, b) <=> Occurs({"close_if_done", "sock_close"}, calls)
        BY <3>1, <2>6, <2>7, <1>1, FineCalls
      <3>3. Done(s) = Done(S)
        BY <1>5 DEF Done
      <3>4. ~Occurs({"on_rx_end"}, calls)
        <4>1. calls[1] \in Receiving
          BY <1>1 DEF Receiving
        <4>2. \A X : "flow_tx" \notin X => ~Occurs(X, Tail(calls))
          BY <1>1, <1>2, <4>1, ReceivingLast
        <4> QED
          BY <4>2, <1>1, Attends
      <3>5. ~U.fin /\ "OUT" \in S.events
        BY <3>2, <3>4, <1>7, <2>3, <2>4 DEF Fine
      <3>6. "OUT" \in s.events /\ {"IN", "OUT"} \cap s.events # {}
        BY <3>5, <1>5
      <3> QED
        BY <3>2, <3>3, <3>5, <3>6, <1>5, <2>3 DEF Fine
    <2>9. \A x \in Conns : peer[x].rst => peer'[x].rst
      BY <2>2
    <2> QED
      BY <1>1, <1>2, <1>3, <1>5, <2>2, <2>6, <2>7, <2>8, <2>9, LocalAttends
  <1>8. CASE S.rd /\ ShouldProvide(U)
    <2>1. Received(s, Asked(U)) /\ UNCHANGED <<poller, queue>>
      BY <1>4, <1>8 DEF OnRx, Received
    <2>2. PICK u0 : u0 = Asked(U)
      OBVIOUS
    <2>3. u0 \in IdleStream /\ u0.snk = U.snk /\ u0.src = U.src /\ ~u0.full /\ ~(U.full /\ ~Empty(U))
      BY <2>2, <1>2, <1>8, StreamSet, StreamFlags
    <2>4. PICK l : l = Lines(u0)
      OBVIOUS
    <2>5. l \in Nat
      BY <2>3, <2>4, RoomOK
    <2>6. PICK room : room = [u0 EXCEPT !.buf = l]
      OBVIOUS
    <2>7. room \in IdleStream /\ room.snk = U.snk /\ room.src = U.src /\ ~room.full /\ room.buf = l
      BY <2>3, <2>5, <2>6, StreamLines, LinesSet
    <2>8. PICK t : t = TRUE
      OBVIOUS
    <2>9. PICK ended : ended = [room EXCEPT !.fin = t]
      OBVIOUS
    <2>10. ended \in IdleStream /\ ended.snk = U.snk /\ ended.src = U.src /\ ~ended.full /\ ended.fin
      <3>1. t \in BOOLEAN
        BY <2>8
      <3>2. ended \in IdleStream /\ ended.snk = room.snk /\ ended.src = room.src
        BY <3>1, <2>7, <2>9, StreamFilled
      <3>3. ended.fin = t /\ ended.full = room.full
        BY <3>1, <2>7, <2>9, FinSet
      <3> QED
        BY <3>2, <3>3, <2>7, <2>8
    <2>11. PICK cs : cs = ConsumeUp \o <<"on_rx_end">>
      OBVIOUS
    <2>12. CASE peer[on].rst
      <3>1. PICK open \in BOOLEAN : Local([s EXCEPT !.rd = open], ended, D, cs)
        BY <2>1, <2>2, <2>4, <2>6, <2>8, <2>9, <2>11, <2>12 DEF Received
      <3>2. \A x \in Conns : peer[x].rst => peer'[x].rst
        BY <2>1, <2>12 DEF Received
      <3>3. PICK r : r = [s EXCEPT !.rd = open]
        OBVIOUS
      <3>8. s \in Sock
        BY <1>5
      <3>4. r \in Sock /\ r.fd = s.fd /\ r.wr = s.wr
        BY <3>3, <3>8, RdSet
      <3>5. r.events = s.events /\ r.onClose = s.onClose
        BY <3>3, <3>8, RdSet
      <3>6. r.fd = S.fd /\ r.onClose = S.onClose /\ r.wr = S.wr
            /\ ("OUT" \in r.events <=> "OUT" \in S.events) /\ (U.full \/ "IN" \in r.events)
        BY <3>4, <3>5, <1>5
      <3>7. Local(r, ended, D, cs)
        BY <3>1, <3>3
      <3> QED
        BY <3>2, <3>4, <3>6, <3>7, <1>1, <1>8, <2>1, <2>3, <2>10, <2>11, ReceivedAttends
    <2>13. CASE ~peer[on].rst /\ peer[on].lines > 0
      <3>1. PICK n \in 1 .. peer[on].lines :
              /\ peer' = [peer EXCEPT ![on].lines = @ - n]
              /\ Local(s, [room EXCEPT !.buf = @ + n], D, cs)
        BY <2>1, <2>2, <2>4, <2>6, <2>11, <2>13 DEF Received
      <3>2. \A x \in Conns : peer[x].rst => peer'[x].rst
        <4>1. peer \in [Conns -> Other]
          BY DEF EndInv, StreamTypes
        <4>2. PICK k : k = peer[on].lines - n
          OBVIOUS
        <4>3. peer' = [peer EXCEPT ![on].lines = k]
          BY <3>1, <4>2
        <4> QED
          BY <4>1, <4>3, <1>2 DEF Other
      <3>3. PICK m : m = l + n
        OBVIOUS
      <3>4. m \in Nat /\ m # 0
        <4>1. peer[on].lines \in Nat
          BY <1>2 DEF EndInv, StreamTypes, Other
        <4> QED
          BY <4>1, <3>3, <2>5
      <3>5. PICK u : u = [room EXCEPT !.buf = m]
        OBVIOUS
      <3>6. u \in IdleStream /\ u.snk = U.snk /\ u.src = U.src /\ ~u.full /\ ~Empty(u)
        BY <3>4, <3>5, <2>7, StreamLines, LinesSet
      <3>7. Local(s, u, D, cs)
        BY <3>1, <3>3, <3>5, <2>7
      <3> QED
        BY <3>2, <3>6, <3>7, <1>1, <1>5, <1>8, <2>1, <2>3, <2>11, ReceivedAttends
    <2>14. CASE ~peer[on].rst /\ ~(peer[on].lines > 0) /\ peer[on].eof
      <3>1. Local(s, ended, D, cs) /\ peer' = peer
        BY <2>1, <2>2, <2>4, <2>6, <2>8, <2>9, <2>11, <2>14 DEF Received
      <3>2. \A x \in Conns : peer[x].rst => peer'[x].rst
        BY <3>1
      <3> QED
        BY <3>1, <3>2, <1>1, <1>5, <1>8, <2>1, <2>3, <2>10, <2>11, ReceivedAttends
    <2>15. CASE ~peer[on].rst /\ ~(peer[on].lines > 0) /\ ~peer[on].eof
      <3>1. PICK r : r = Want(s, {"IN"})
        OBVIOUS
      <3>2. Local(r, room, D, cs) /\ peer' = peer
        BY <2>1, <2>2, <2>4, <2>6, <2>11, <2>15, <3>1 DEF Received
      <3>3. {"IN"} \in SUBSET Bits
        BY DEF Bits
      <3>4. r \in Sock /\ r.fd = S.fd /\ r.onClose = S.onClose /\ r.wr = S.wr /\ r.events = s.events \cup {"IN"}
        BY <3>1, <3>3, <1>5, SockSet, SockEvents
      <3>5. ("OUT" \in r.events <=> "OUT" \in S.events) /\ "IN" \in r.events
        BY <3>4, <1>5
      <3>6. \A x \in Conns : peer[x].rst => peer'[x].rst
        BY <3>2
      <3> QED
        BY <3>2, <3>4, <3>5, <3>6, <1>1, <1>8, <2>1, <2>3, <2>7, <2>11, ReceivedAttends
    <2> QED
      BY <2>12, <2>13, <2>14, <2>15
  <1> QED
    BY <1>6, <1>7, <1>8

\* The end of aem_net_on_tx, whatever was sent: POLLOUT is waited for if something is left,
\* and the write side is closed when nothing more will come.
LEMMA SentAttends ==
  ASSUME CInv, EndInv, AttendInv, calls # <<>>, calls[1] = "on_tx",
         NEW s \in Sock, s.fd = S.fd, s.onClose = S.onClose, s.rd = S.rd, s.wr => S.wr,
         NEW d \in IdleStream, d.src = D.src,
         Sent(s, d), UNCHANGED <<poller, queue>>, \A x \in Conns : peer[x].rst => peer'[x].rst,
         Heard(on) /\ S.fd =>
            /\ s.wr = S.wr /\ d.snk = D.snk /\ d.fin = D.fin
            /\ Empty(D) => Empty(d)
            /\ Empty(d) \/ "OUT" \in s.events
            /\ ~U.fin => /\ U.full => "OUT" \in s.events
                         /\ S.rd => {"IN", "OUT"} \cap s.events # {} \/ ~Empty(U),
         Heard(on) /\ ~S.fd => Empty(d)
  PROVE  AttendInv'
  <1>1. S \in Sock /\ U \in IdleStream /\ D \in IdleStream /\ on \in Conns /\ calls \in Seq(Functions)
    BY HasBegun
  <1>2. calls[1] \notin Leavings
    BY DEF Leavings, Endings
  <1>3. CASE Over(d)
    <2>1. PICK i : i = Ignore(s, {"OUT"})
      OBVIOUS
    <2>2. i \in Sock /\ i.fd = s.fd /\ i.rd = s.rd /\ i.wr = s.wr /\ i.onClose = s.onClose
      BY <2>1, SockSet, SockEvents DEF Bits
    <2>3. PICK o : o = FALSE
      OBVIOUS
    <2>4. PICK t : t = [i EXCEPT !.wr = o]
      OBVIOUS
    <2>5. t \in Sock /\ t.fd = S.fd /\ t.rd = S.rd /\ ~t.wr /\ t.onClose = S.onClose
      <3>1. o \in BOOLEAN
        BY <2>3
      <3>2. t \in Sock /\ t.fd = i.fd /\ t.rd = i.rd /\ t.wr = o /\ t.onClose = i.onClose
        BY <3>1, <2>2, <2>4, WrSet
      <3> QED
        BY <3>2, <2>2, <2>3
    <2>6. PICK cs : cs = <<"detach_tx", "close_if_done">>
      OBVIOUS
    <2>7. Local(t, U, d, cs)
      BY <1>3, <2>1, <2>3, <2>4, <2>6 DEF Sent
    <2>8. "detach_tx" \in Functions /\ "close_if_done" \in Functions /\ "close_if_done" \notin Inner
      BY DEF Functions, Lasting, Plain, Inner
    <2>9. /\ cs \in Seq(Functions) /\ First(Inner, cs)
          /\ \A X : Occurs(X, cs) <=> "detach_tx" \in X \/ "close_if_done" \in X
          /\ \A h : Top(h, cs) <=> "detach_tx" = h
      <3>1. cs \in Seq(Functions)
        BY <2>6, <2>8
      <3> QED
        BY <3>1, <2>6, <2>8, TwoCalls
    <2>10. ~Occurs(Undoing, cs) /\ ~Occurs({"detach_rx", "rx_detached"}, cs) /\ ~Occurs(Receiving, cs)
           /\ Occurs({"close_if_done", "sock_close"}, cs) /\ ~Occurs({"sock_close"}, cs) /\ ~Occurs({"on_rx_end"}, cs)
      BY <2>9 DEF Undoing, Leavings, Endings, Receiving
    <2>11. d.fin /\ Empty(d)
      <3>1. d.state = 0
        BY StreamSet
      <3> QED
        BY <3>1, <1>3 DEF Over
    <2>12. Heard(on) => Fine(t, U, d, cs \o Tail(calls))
      <3>1. SUFFICES ASSUME Heard(on), NEW b, b = cs \o Tail(calls)
                     PROVE  Fine(t, U, d, b)
        OBVIOUS
      <3>2. /\ Fine(S, U, D, calls)
            /\ Occurs({"on_rx_end"}, b) <=> Occurs({"on_rx_end"}, calls)
            /\ Occurs({"close_if_done", "sock_close"}, b)
            /\ Occurs({"sock_close"}, b) <=> Occurs({"sock_close"}, calls)
        BY <3>1, <2>9, <2>10, FineCalls
      <3>3. Done(S) => Done(t)
        BY <2>5 DEF Done
      <3>4. S.fd => d.fin = D.fin
        BY <3>1
      <3> QED
        BY <3>2, <3>3, <3>4, <2>5, <2>11 DEF Fine
    <2> QED
      BY <1>1, <1>2, <2>5, <2>7, <2>9, <2>10, <2>12, LocalAttends
  <1>4. CASE ~Over(d)
    <2>1. /\ <<>> \in Seq(Functions) /\ First(Inner, <<>>) /\ \A X : ~Occurs(X, <<>>)
          /\ ~Top("on_tx", <<>>) /\ ~Top("tr_consume", <<>>)
      BY CallForms
    <2>2. Local(s, U, d, <<>>)
      BY <1>4 DEF Sent
    <2>3. ~(d.fin /\ Empty(d))
      BY <1>4 DEF Over
    <2>4. Heard(on) => Fine(s, U, d, <<>> \o Tail(calls))
      <3>1. SUFFICES ASSUME Heard(on), NEW b, b = <<>> \o Tail(calls)
                     PROVE  Fine(s, U, d, b)
        OBVIOUS
      <3>2. /\ Fine(S, U, D, calls)
            /\ Occurs({"on_rx_end"}, b) <=> Occurs({"on_rx_end"}, calls)
            /\ Occurs({"close_if_done", "sock_close"}, b) <=> Occurs({"close_if_done", "sock_close"}, calls)
            /\ Occurs({"sock_close"}, b) <=> Occurs({"sock_close"}, calls)
            /\ ~Top("tr_consume", calls)
            /\ ~Top("on_tx", b) /\ ~Top("tr_consume", b)
        BY <3>1, <2>1, FineCalls
      <3>3. CASE S.fd
        <4>1. /\ s.wr = S.wr /\ d.snk = D.snk /\ d.fin = D.fin
              /\ Empty(D) => Empty(d)
              /\ Empty(d) \/ "OUT" \in s.events
              /\ ~U.fin => /\ U.full => "OUT" \in s.events
                           /\ S.rd => {"IN", "OUT"} \cap s.events # {} \/ ~Empty(U)
          BY <3>1, <3>3
        <4>2. Done(s) = Done(S)
          BY <4>1 DEF Done
        <4> QED
          BY <3>2, <3>3, <4>1, <4>2, <2>3 DEF Fine
      <3>4. CASE ~S.fd
        <4>1. Empty(d) /\ Empty(U)
          BY <3>1, <3>2, <3>4 DEF Fine
        <4> QED
          BY <3>4, <4>1 DEF Fine
      <3> QED
        BY <3>3, <3>4
    <2> QED
      BY <1>1, <1>2, <2>1, <2>2, <2>4, LocalAttends
  <1> QED
    BY <1>3, <1>4

\* aem_net_on_tx.
LEMMA OnTxAttends ==
  ASSUME CInv, EndInv, AttendInv, OnTx
  PROVE  AttendInv'
  <1>1. calls # <<>> /\ calls[1] = "on_tx"
    BY DEF OnTx, Calling
  <1>2. S \in Sock /\ U \in IdleStream /\ D \in IdleStream /\ on \in Conns /\ D.buf # NoBuffer
    BY <1>1, HasBegun
  <1>3. D.state = 0 /\ D.buf \in Nat /\ (Empty(D) <=> D.buf = 0)
    <2>1. D.state = 0 /\ D.buf \in Nat
      BY <1>2, StreamSet
    <2> QED
      BY <2>1 DEF Empty
  <1>4. peer \in [Conns -> Other]
    BY DEF EndInv, StreamTypes
  <1>5. ASSUME Heard(on), S.fd
        PROVE  /\ ~U.fin /\ U.full => "OUT" \in S.events \/ Empty(D)
               /\ ~U.fin /\ Empty(D) => ~U.full /\ ("IN" \in S.events \/ ~Empty(U))
               /\ S.rd /\ ~U.fin => {"IN", "OUT"} \cap S.events # {} \/ ~Empty(U)
    <2>1. Fine(S, U, D, calls) /\ Top("on_tx", calls)
      BY <1>1, <1>5, Attends
    <2> QED
      BY <2>1, <1>5 DEF Fine
  <1>6. ASSUME Heard(on), ~S.fd
        PROVE  D.buf = 0
    <2>1. Fine(S, U, D, calls)
      BY <1>1, <1>6, Attends
    <2> QED
      BY <2>1, <1>3, <1>6 DEF Fine
  <1>7. CASE D.buf = 0
    <2>1. PICK s : s = Ignore(S, {"OUT"})
      OBVIOUS
    <2>2. /\ s \in Sock /\ s.fd = S.fd /\ s.rd = S.rd /\ s.wr = S.wr /\ s.onClose = S.onClose
          /\ s.events = S.events \ {"OUT"}
      BY <1>2, <2>1, SockSet, SockEvents DEF Bits
    <2>3. Sent(s, D) /\ peer' = peer /\ UNCHANGED <<poller, queue>>
      BY <1>2, <1>3, <1>7, <2>1 DEF OnTx, Quiet, NothingSent
    <2>4. Empty(D)
      BY <1>3, <1>7
    <2>5. Heard(on) /\ S.fd /\ ~U.fin => ~U.full /\ ({"IN", "OUT"} \cap s.events # {} \/ ~Empty(U))
      BY <1>5, <2>2, <2>4
    <2>6. \A x \in Conns : peer[x].rst => peer'[x].rst
      BY <2>3
    <2> QED
      BY <1>1, <1>2, <2>2, <2>3, <2>4, <2>5, <2>6, SentAttends
  <1>8. CASE D.buf # 0 /\ (~S.fd \/ peer[on].rst)
    <2>1. SendFails
      BY <1>2, <1>3, <1>8 DEF OnTx
    <2>2. ~Heard(on)
      BY <1>6, <1>8 DEF Heard
    <2>3. peer' = peer /\ UNCHANGED <<poller, queue>>
      BY <2>1 DEF SendFails, Quiet
    <2>4. S.wr \in BOOLEAN /\ S.fd \in BOOLEAN
      BY <1>2, SockSet
    <2>5. PICK open \in IF S.fd THEN {FALSE, S.wr} ELSE {S.wr} :
            LET s == [S EXCEPT !.wr = open]
            IN Sent(IF D.full THEN WaitForRoom(s) ELSE s, [D EXCEPT !.fin = TRUE])
      BY <2>1 DEF SendFails
    <2>6. open \in BOOLEAN /\ (open => S.wr)
      BY <2>4, <2>5
    <2>7. PICK q, s : q = S /\ s = [q EXCEPT !.wr = open]
      OBVIOUS
    <2>8. s \in Sock /\ s.fd = S.fd /\ s.rd = S.rd /\ (s.wr => S.wr) /\ s.onClose = S.onClose
      <3>1. q \in Sock /\ open \in BOOLEAN
        BY <1>2, <2>6, <2>7
      <3>2. s = [q EXCEPT !.wr = open]
        BY <2>7
      <3>3. s \in Sock /\ s.fd = q.fd /\ s.rd = q.rd /\ s.wr = open /\ s.onClose = q.onClose
        BY <3>1, <3>2, WrSet
      <3> QED
        BY <3>3, <2>6, <2>7
    <2>9. PICK d : d = [D EXCEPT !.fin = TRUE]
      OBVIOUS
    <2>10. d \in IdleStream /\ d.src = D.src
      BY <1>2, <2>9, StreamFilled
    <2>11. PICK w : w = WaitForRoom(s)
      OBVIOUS
    <2>12. w \in Sock /\ w.fd = S.fd /\ w.rd = S.rd /\ (w.wr => S.wr) /\ w.onClose = S.onClose
      <3>1. {"OUT"} \in SUBSET Bits /\ s \in Sock
        BY <2>8 DEF Bits
      <3>2. w = Want(s, {"OUT"})
        BY <2>11 DEF WaitForRoom
      <3>3. w \in Sock /\ w.fd = s.fd /\ w.rd = s.rd /\ w.wr = s.wr /\ w.onClose = s.onClose
        BY <3>1, <3>2, SockSet, SockEvents
      <3> QED
        BY <3>3, <2>8
    <2>13. Sent(w, d) \/ Sent(s, d)
      BY <2>5, <2>7, <2>9, <2>11
    <2>14. \A x \in Conns : peer[x].rst => peer'[x].rst
      BY <2>3
    <2> QED
      BY <1>1, <2>2, <2>3, <2>8, <2>10, <2>12, <2>13, <2>14, SentAttends
  <1>9. ASSUME Sends
        PROVE  \A x \in Conns : peer[x].rst => peer'[x].rst
    <2>1. PICK room \in BOOLEAN : peer' = [peer EXCEPT ![on].room = room]
      BY <1>9 DEF Sends
    <2> QED
      BY <1>2, <1>4, <2>1 DEF Other
  <1>10. CASE D.buf # 0 /\ S.fd /\ SendsAll
    <2>1. PICK n : n = 0
      OBVIOUS
    <2>2. PICK d : d = [D EXCEPT !.buf = n, !.full = FALSE]
      OBVIOUS
    <2>3. d \in IdleStream /\ d.src = D.src /\ d.snk = D.snk /\ d.fin = D.fin /\ Empty(d)
      <3>1. n \in Nat
        BY <2>1
      <3>2. d \in IdleStream /\ d.src = D.src /\ d.snk = D.snk
        BY <3>1, <1>2, <2>2, StreamMoved
      <3>3. d.fin = D.fin /\ (Empty(d) <=> n = 0)
        <4>1. D \in IdleStream
          BY <1>2
        <4>2. IsSentOff(d, D, n)
          BY <2>2 DEF IsSentOff
        <4> QED
          BY <3>1, <4>1, <4>2, SentOff
      <3> QED
        BY <3>2, <3>3, <2>1
    <2>4. Sent(S, d)
      BY <1>10, <2>1, <2>2 DEF SendsAll
    <2>5. Sends
      BY <1>10 DEF SendsAll
    <2>6. \A x \in Conns : peer[x].rst => peer'[x].rst
      BY <2>5, <1>9
    <2>7. UNCHANGED <<poller, queue>>
      BY <2>5 DEF Sends
    <2>8. ~Empty(D)
      BY <1>3, <1>10
    <2> QED
      BY <1>1, <1>2, <1>5, <1>10, <2>3, <2>4, <2>6, <2>7, <2>8, SentAttends
  <1>11. CASE D.buf # 0 /\ S.fd /\ SendsPart
    <2>1. PICK n \in IF peer[on].room THEN 1 .. D.buf - 1 ELSE {0} :
            Sent(WaitForRoom(S), [D EXCEPT !.buf = @ - n, !.full = TRUE])
      BY <1>11 DEF SendsPart
    <2>2. PICK m : m = D.buf - n
      OBVIOUS
    <2>3. m \in Nat
      BY <1>3, <2>1, <2>2
    <2>4. PICK d : d = [D EXCEPT !.buf = m, !.full = TRUE]
      OBVIOUS
    <2>5. d \in IdleStream /\ d.src = D.src /\ d.snk = D.snk
      BY <1>2, <2>3, <2>4, StreamMoved
    <2>6. d.fin = D.fin
      BY <1>2, <2>3, <2>4, Clogged
    <2>7. PICK w : w = WaitForRoom(S)
      OBVIOUS
    <2>8. /\ w \in Sock /\ w.fd = S.fd /\ w.rd = S.rd /\ w.wr = S.wr /\ w.onClose = S.onClose
          /\ "OUT" \in w.events
      <3>1. {"OUT"} \in SUBSET Bits
        BY DEF Bits
      <3>2. w = Want(S, {"OUT"})
        BY <2>7 DEF WaitForRoom
      <3>3. w \in Sock /\ w.fd = S.fd /\ w.rd = S.rd /\ w.wr = S.wr /\ w.onClose = S.onClose /\ w.events = S.events \cup {"OUT"}
        BY <3>1, <3>2, <1>2, SockSet, SockEvents
      <3> QED
        BY <3>3
    <2>9. Sent(w, d)
      BY <2>1, <2>2, <2>4, <2>7
    <2>10. UNCHANGED <<poller, queue>>
      BY <1>11 DEF SendsPart, Quiet, Sends
    <2>11. \A x \in Conns : peer[x].rst => peer'[x].rst
      <3>1. Sends \/ peer' = peer
        BY <1>11 DEF SendsPart, Quiet
      <3> QED
        BY <3>1, <1>9
    <2>12. {"IN", "OUT"} \cap w.events # {}
      BY <2>8
    <2>13. ~Empty(D)
      BY <1>3, <1>11
    <2> QED
      BY <1>1, <1>11, <2>5, <2>6, <2>8, <2>9, <2>10, <2>11, <2>12, <2>13, SentAttends
  <1> QED
    BY <1>2, <1>3, <1>7, <1>8, <1>10, <1>11 DEF OnTx

\* What is waiting when a function has made its calls.
LEMMA CallsPushed ==
  ASSUME NEW a \in Seq(Functions), a # <<>>, NEW cs \in Seq(Functions), NEW b, b = cs \o Tail(a)
  PROVE  \A X : Occurs(X, b) <=> Occurs(X, cs) \/ Occurs(X, Tail(a))
  BY OccursSplit

\* A function of the end of a connection, which calls nothing of what is done for an open one.
LEMMA EndingAttends ==
  ASSUME CInv, EndInv, AttendInv, calls # <<>>,
         NEW s \in Sock, ~s.fd, ~s.rd, ~s.wr, NEW u \in IdleStream, NEW d \in IdleStream,
         sock' = [sock EXCEPT ![on] = s], up' = [up EXCEPT ![on] = u], down' = [down EXCEPT ![on] = d],
         UNCHANGED <<on, live, at, hupped, exit, peer>>,
         NEW cs \in Seq(Functions), ~Occurs(Inner, cs), calls' = cs \o Tail(calls),
         \A x \in Conns : InQueue(x) => InQueue(x)',
         InQueue(on)' \/ Occurs(Leavings, cs) \/ Occurs(Leavings, Tail(calls)),
         Heard(on) => Empty(u) /\ Empty(d),
         \A x \in Conns : (x # on => (x \in reg' <=> x \in reg)) /\ (revents'[x] = revents[x] \/ revents'[x] = {})
  PROVE  AttendInv'
  <1>1. on \in Conns /\ calls \in Seq(Functions) /\ sock \in [Conns -> Sock]
    BY HasBegun
  <1>2. PICK b : b = cs \o Tail(calls)
    OBVIOUS
  <1>3. First(Inner, cs) /\ ~Occurs(Receiving, cs)
    BY DEF First, Occurs, Inner, Receiving
  <1>4. First(Inner, b)
    BY <1>1, <1>2, <1>3, FirstPushed DEF AttendInv, InnerFirst
  <1>5. Before(Receiving, {"flow_tx"}, b)
    BY <1>1, <1>2, <1>3, BeforePushed DEF AttendInv, RxAhead
  <1>6. InQueue(on)' \/ Occurs(Leavings, b)
    <2>1. Occurs(Leavings, b) <=> Occurs(Leavings, cs) \/ Occurs(Leavings, Tail(calls))
      BY <1>1, <1>2, CallsPushed
    <2>2. CASE InQueue(on)'
      BY <2>2
    <2>3. CASE Occurs(Leavings, cs) \/ Occurs(Leavings, Tail(calls))
      BY <2>1, <2>3
    <2> QED
      BY <2>2, <2>3
  <1>7. ASSUME Heard(on)'
        PROVE  Kept(on)' /\ Fine(s, u, d, b)
    <2>1. Heard(on)
      BY <1>7 DEF Heard
    <2>2. Kept(on)
      BY <2>1, Attends
    <2>3. sock'[on] = s
      BY <1>1
    <2>4. Kept(on)'
      BY <2>2, <2>3, <1>1 DEF Kept
    <2>5. Fine(s, u, d, b)
      BY <2>1 DEF Fine
    <2> QED
      BY <2>4, <2>5
  <1>8. calls' = b
    BY <1>2
  <1>9. /\ First(Inner, calls') /\ Before(Receiving, {"flow_tx"}, calls')
        /\ InQueue(on)' \/ Occurs(Leavings, calls')
        /\ Heard(on)' => Kept(on)' /\ Fine(s, u, d, calls')
    BY <1>4, <1>5, <1>6, <1>7, <1>8
  <1>10. \A x \in Conns : peer[x].rst => peer'[x].rst
    OBVIOUS
  <1> QED
    BY <1>9, <1>10, EffectAttends

\* Closing the socket finds both streams empty: nothing is lost.
LEMMA SockCloseAttends ==
  ASSUME CInv, EndInv, AttendInv, SockClose
  PROVE  AttendInv'
  <1>1. calls # <<>> /\ calls[1] = "sock_close"
    BY DEF SockClose, Calling
  <1>2. /\ S \in Sock /\ U \in IdleStream /\ D \in IdleStream /\ (~S.fd => ~S.rd /\ ~S.wr)
        /\ on \in live /\ on \in Conns /\ calls \in Seq(Functions) /\ sock[on] = S /\ up[on] = U /\ down[on] = D
    BY <1>1, HasBegun
  <1>3. PICK cs : cs = If(S.fd /\ S.onClose, ConnFree \o <<"closed">>)
    OBVIOUS
  <1>4. Local(Shut(S), U, D, cs) /\ peer' = peer /\ queue' = queue
        /\ (Deregister(on) \/ UNCHANGED poller)
    BY <1>2, <1>3 DEF SockClose
  <1>5. PICK s : s = Shut(S)
    OBVIOUS
  <1>6. s \in Sock /\ ~s.fd /\ ~s.rd /\ ~s.wr
    BY <1>2, <1>5, SockSet
  <1>7. cs \in Seq(Functions) /\ ~Occurs(Inner, cs) /\ (S.fd /\ S.onClose => Occurs(Leavings, cs))
    <2>1. PICK c, d : c = ConnFree /\ d = <<"closed">>
      OBVIOUS
    <2>2. c \in Seq(Functions) /\ ~Occurs(Inner, c) /\ 4 \in 1 .. Len(c) /\ c[4] \in Leavings
      BY <2>1 DEF ConnFree, Functions, Lasting, Plain, Endings, Leavings, Occurs, Inner
    <2>3. d \in Seq(Functions) /\ ~Occurs(Inner, d)
      <3>1. "closed" \in Functions /\ "closed" \notin Inner
        BY DEF Functions, Lasting, Plain, Inner
      <3>2. d \in Seq(Functions)
        BY <2>1, <3>1
      <3> QED
        BY <2>1, <3>1, <3>2, CallForms
    <2>4. PICK f : f = c \o d
      OBVIOUS
    <2>5. f \in Seq(Functions) /\ 4 \in 1 .. Len(f) /\ f[4] \in Leavings
      BY <2>2, <2>3, <2>4, Joined
    <2>6. ~Occurs(Inner, f)
      BY <2>2, <2>3, <2>4, Joined DEF Occurs
    <2>7. Occurs(Leavings, f)
      BY <2>5 DEF Occurs
    <2>8. CASE S.fd /\ S.onClose
      <3>1. cs = f
        BY <1>3, <2>1, <2>4, <2>8 DEF If
      <3> QED
        BY <3>1, <2>5, <2>6, <2>7
    <2>9. CASE ~(S.fd /\ S.onClose)
      <3>1. cs = <<>>
        BY <1>3, <2>9 DEF If
      <3>2. cs \in Seq(Functions)
        BY <3>1
      <3> QED
        BY <3>1, <3>2, <2>9, CallForms
    <2> QED
      BY <2>8, <2>9
  <1>8. Occurs(Leavings, cs) \/ InQueue(on) \/ Occurs(Leavings, Tail(calls))
    <2>1. CASE S.fd
      BY <2>1, <1>1, <1>7, Attends
    <2>2. CASE ~S.fd
      <3>1. InQueue(on) \/ Occurs(Leavings, calls)
        BY <2>2, <1>2 DEF AttendInv, Reaches
      <3>2. calls[1] \notin Leavings
        BY <1>1 DEF Leavings, Endings
      <3> QED
        BY <3>1, <3>2, <1>1, Attends
    <2> QED
      BY <2>1, <2>2
  <1>9. Heard(on) => Empty(U) /\ Empty(D)
    <2>1. SUFFICES ASSUME Heard(on)
                   PROVE  Empty(U) /\ Empty(D)
      OBVIOUS
    <2>2. Fine(S, U, D, calls) /\ Occurs({"sock_close"}, calls)
      BY <2>1, <1>1, Attends
    <2>3. S.fd => Done(S)
      BY <2>2 DEF Fine
    <2> QED
      BY <2>2, <2>3 DEF Fine, Done
  <1>10. \A x \in Conns : (x # on => (x \in reg' <=> x \in reg)) /\ (revents'[x] = revents[x] \/ revents'[x] = {})
    <2>1. CASE Deregister(on)
      BY <2>1 DEF Deregister, Evts
    <2>2. CASE UNCHANGED poller
      BY <2>2 DEF poller
    <2> QED
      BY <1>4, <2>1, <2>2
  <1>11. /\ sock' = [sock EXCEPT ![on] = s] /\ up' = [up EXCEPT ![on] = U] /\ down' = [down EXCEPT ![on] = D]
         /\ UNCHANGED <<on, live, at, hupped, exit, peer>> /\ calls' = cs \o Tail(calls)
    BY <1>4, <1>5 DEF Local, Call, loop
  <1>12. \A x \in Conns : InQueue(x)' <=> InQueue(x)
    BY <1>4 DEF InQueue
  <1>13. InQueue(on)' \/ Occurs(Leavings, cs) \/ Occurs(Leavings, Tail(calls))
    <2>1. InQueue(on) => InQueue(on)'
      BY <1>4, <1>11 DEF InQueue
    <2> QED
      BY <2>1, <1>8
  <1> QED
    BY <1>1, <1>2, <1>6, <1>7, <1>9, <1>10, <1>11, <1>12, <1>13, EndingAttends

\* call_rcu: from here on, the list keeps the connection.
LEMMA CallRcuAttends ==
  ASSUME CInv, FreeOnce, EndInv, AttendInv, CallRcu
  PROVE  AttendInv'
  <1>1. calls # <<>> /\ calls[1] = "call_rcu"
    BY DEF CallRcu, Calling
  <1>2. /\ S \in Sock /\ U \in IdleStream /\ D \in IdleStream /\ (~S.fd => ~S.rd /\ ~S.wr)
        /\ on \in live /\ on \in Conns /\ calls \in Seq(Functions)
    BY <1>1, HasBegun
  <1>3. Occurs(Leavings, calls) /\ Occurs(Undoing, calls)
    <2>1. "call_rcu" \in Leavings /\ "call_rcu" \in Undoing
      BY DEF Leavings, Undoing
    <2> QED
      BY <2>1, <1>1, Attends
  <1>4. ~S.fd
    BY <1>1, <1>3, Attends
  <1>5. ~InQueue(on)
    BY <1>3 DEF FreeOnce, Leaves
  <1>6. Local(S, U, D, <<>>) /\ queue' = <<on>> \o queue /\ UNCHANGED <<peer, poller>>
    BY <1>5 DEF CallRcu
  <1>7. queue \in Seq(Conns)
    BY DEF CInv, Control
  <1>8. \A x \in Conns : InQueue(x) \/ x = on => InQueue(x)'
    <2>1. PICK f, q : f = <<on>> /\ q = f \o queue
      OBVIOUS
    <2>2. f \in Seq(Conns) /\ Len(f) = 1 /\ f[1] = on
      BY <1>2, <2>1
    <2>3. q \in Seq(Conns) /\ Len(q) = 1 + Len(queue)
      BY <1>7, <2>1, <2>2
    <2>4. q[1] = on
      BY <1>7, <2>1, <2>2
    <2>5. \A k \in 1 .. Len(queue) : q[k + 1] = queue[k] /\ k + 1 \in 1 .. Len(q)
      BY <1>7, <2>1, <2>2, <2>3
    <2>6. 1 \in 1 .. Len(q)
      BY <1>7, <2>3
    <2>7. queue' = q
      BY <1>6, <2>1
    <2> QED
      BY <2>4, <2>5, <2>6, <2>7 DEF InQueue
  <1>9. <<>> \in Seq(Functions) /\ ~Occurs(Inner, <<>>)
    BY CallForms
  <1>10. Heard(on) => Empty(U) /\ Empty(D)
    <2>1. Heard(on) => Fine(S, U, D, calls)
      BY <1>1, Attends
    <2> QED
      BY <2>1, <1>4 DEF Fine
  <1>11. /\ sock' = [sock EXCEPT ![on] = S] /\ up' = [up EXCEPT ![on] = U] /\ down' = [down EXCEPT ![on] = D]
         /\ UNCHANGED <<on, live, at, hupped, exit, peer, reg, revents>> /\ calls' = <<>> \o Tail(calls)
    BY <1>6 DEF Local, Call, loop, poller
  <1>12. \A x \in Conns : (x # on => (x \in reg' <=> x \in reg)) /\ (revents'[x] = revents[x] \/ revents'[x] = {})
    BY <1>11
  <1>13. InQueue(on)'
    <2>1. \A x \in Conns : InQueue(x)' <=> \E k \in 1 .. Len(queue') : queue'[k] = x
      BY DEF InQueue
    <2>2. \E k \in 1 .. Len(queue') : queue'[k] = on
      BY <2>1, <1>2, <1>8
    <2> QED
      BY <2>2, <1>11 DEF InQueue
  <1> QED
    BY <1>1, <1>2, <1>4, <1>8, <1>9, <1>10, <1>11, <1>12, <1>13, EndingAttends

\* The destructor goes on to its end.
LEMMA ConnDtorAttends ==
  ASSUME CInv, EndInv, AttendInv, ConnDtor
  PROVE  AttendInv'
  <1>1. calls # <<>> /\ calls[1] = "conn_dtor"
    BY DEF ConnDtor, Calling
  <1>2. /\ S \in Sock /\ U \in IdleStream /\ D \in IdleStream /\ (~S.fd => ~S.rd /\ ~S.wr)
        /\ on \in live /\ on \in Conns /\ calls \in Seq(Functions)
    BY <1>1, HasBegun
  <1>3. ~S.fd
    <2>1. "conn_dtor" \in Undoing
      BY DEF Undoing, Leavings, Endings
    <2> QED
      BY <2>1, <1>1, Attends
  <1>4. PICK cs : cs = <<"detach_rx", "detach_tx", "sock_close", "free">>
    OBVIOUS
  <1>5. cs \in Seq(Functions) /\ ~Occurs(Inner, cs) /\ Occurs(Leavings, cs)
    <2>1. cs \in Seq(Functions)
      BY <1>4 DEF Functions, Lasting, Plain, Endings
    <2>2. ~Occurs(Inner, cs)
      BY <1>4 DEF Occurs, Inner
    <2>3. 4 \in 1 .. Len(cs) /\ cs[4] \in Leavings
      BY <1>4 DEF Leavings, Endings
    <2>4. Occurs(Leavings, cs)
      BY <2>3 DEF Occurs
    <2> QED
      BY <2>1, <2>2, <2>4
  <1>6. PICK u : u = IF U.src THEN Fin(U) ELSE U
    OBVIOUS
  <1>7. u \in IdleStream /\ (Empty(u) <=> Empty(U))
    BY <1>2, <1>6, StreamSet, StreamFlags
  <1>8. PICK d : d = IF D.snk THEN Fin(D) ELSE D
    OBVIOUS
  <1>9. d \in IdleStream /\ (Empty(d) <=> Empty(D))
    BY <1>2, <1>8, StreamSet, StreamFlags
  <1>10. Local(S, u, d, cs) /\ UNCHANGED <<peer, poller, queue>>
    BY <1>4, <1>6, <1>8 DEF ConnDtor, Quiet
  <1>11. Heard(on) => Empty(u) /\ Empty(d)
    <2>1. Heard(on) => Fine(S, U, D, calls)
      BY <1>1, Attends
    <2> QED
      BY <2>1, <1>3, <1>7, <1>9 DEF Fine
  <1>12. /\ sock' = [sock EXCEPT ![on] = S] /\ up' = [up EXCEPT ![on] = u] /\ down' = [down EXCEPT ![on] = d]
         /\ UNCHANGED <<on, live, at, hupped, exit, peer, reg, revents, queue>> /\ calls' = cs \o Tail(calls)
    BY <1>10 DEF Local, Call, loop, poller
  <1>13. \A x \in Conns : (x # on => (x \in reg' <=> x \in reg)) /\ (revents'[x] = revents[x] \/ revents'[x] = {})
    BY <1>12
  <1>14. \A x \in Conns : InQueue(x)' <=> InQueue(x)
    BY <1>12 DEF InQueue
  <1> QED
    BY <1>1, <1>2, <1>3, <1>5, <1>7, <1>9, <1>11, <1>12, <1>13, <1>14, EndingAttends

\* Between two callbacks, no connection has anything left to do.
LEMMA NothingRuns ==
  ASSUME AttendInv, calls = <<>>
  PROVE  /\ \A c \in live : ~sock[c].fd => InQueue(c)
         /\ \A c \in live : Heard(c) => Kept(c) /\ Fine(sock[c], up[c], down[c], <<>>)
         /\ \A c : Mine(c) = <<>>
  <1>1. ~Occurs(Leavings, calls)
    BY CallForms
  <1>2. \A c : Mine(c) = <<>>
    BY DEF Mine
  <1> QED
    BY <1>1, <1>2 DEF AttendInv, Reaches, Served

\* The loop or synchronize_rcu starts some code for connection c.
LEMMA StartAttends ==
  ASSUME CInv, AttendInv, calls = <<>>, NEW c \in Conns, live' \subseteq live \cup {c}, on' = c,
         \A x \in live : x # c =>
            /\ sock'[x] = sock[x] /\ up'[x] = up[x] /\ down'[x] = down[x]
            /\ InQueue(x) => InQueue(x)'
            /\ Heard(x)' => Heard(x)
            /\ Kept(x) => Kept(x)',
         sock'[c].fd => sock'[c].onClose /\ up'[c].snk /\ down'[c].src,
         First(Inner, calls'), Before(Receiving, {"flow_tx"}, calls'),
         Occurs(Undoing, calls') => ~sock'[c].fd,
         ~Occurs({"detach_tx"}, calls'), ~Occurs({"detach_rx", "rx_detached"}, calls'),
         ~sock'[c].fd => InQueue(c)' \/ Occurs(Leavings, calls'),
         Heard(c)' => Kept(c)' /\ Fine(sock'[c], up'[c], down'[c], calls')
  PROVE  AttendInv'
  <1>1. S' = sock'[c]
    BY DEF S
  <1>2. \A x \in live' : x # c => x \in live
    OBVIOUS
  <1>3. Tied'
    BY <1>2 DEF AttendInv, Tied
  <1>4. Untied' /\ NoMoreTx' /\ NoMoreRx' /\ InnerFirst' /\ RxAhead'
    BY <1>1 DEF Untied, NoMoreTx, NoMoreRx, InnerFirst, RxAhead
  <1>5. Reaches'
    <2>1. SUFFICES ASSUME NEW x \in live', ~sock'[x].fd
                   PROVE  InQueue(x)' \/ (on' = x /\ Occurs(Leavings, calls'))
      BY DEF Reaches
    <2>2. CASE x = c
      BY <2>1, <2>2
    <2>3. CASE x # c
      <3>1. x \in live /\ sock'[x] = sock[x] /\ (InQueue(x) => InQueue(x)')
        BY <2>1, <2>3, <1>2
      <3>2. InQueue(x)
        BY <2>1, <3>1, NothingRuns
      <3> QED
        BY <3>1, <3>2
    <2> QED
      BY <2>2, <2>3
  <1>6. Served'
    <2>1. SUFFICES ASSUME NEW x \in live', Heard(x)'
                   PROVE  Kept(x)' /\ Fine(sock'[x], up'[x], down'[x], Mine(x)')
      BY DEF Served
    <2>2. CASE x = c
      <3>1. Mine(x)' = calls'
        BY <2>2 DEF Mine
      <3> QED
        BY <2>1, <2>2, <3>1
    <2>3. CASE x # c
      <3>1. Mine(x)' = <<>>
        BY <2>3 DEF Mine
      <3>2. x \in live /\ sock'[x] = sock[x] /\ up'[x] = up[x] /\ down'[x] = down[x] /\ Heard(x) /\ (Kept(x) => Kept(x)')
        BY <2>1, <2>3, <1>2
      <3>3. Kept(x) /\ Fine(sock[x], up[x], down[x], <<>>)
        BY <3>2, NothingRuns
      <3> QED
        BY <3>1, <3>2, <3>3
    <2> QED
      BY <2>2, <2>3
  <1> QED
    BY <1>3, <1>4, <1>5, <1>6 DEF AttendInv

\* synchronize_rcu takes a connection off the list to destroy it.
LEMMA BarrierAttends ==
  ASSUME CInv, FreeOnce, EndInv, AttendInv, Barrier
  PROVE  AttendInv'
  <1>1. calls = <<>> /\ queue # <<>> /\ queue \in Seq(Conns)
    BY DEF Barrier, CInv, Control
  <1>2. PICK c : c = queue[1]
    OBVIOUS
  <1>3. 1 \in 1 .. Len(queue)
    BY <1>1
  <1>4. c \in live /\ ~sock[c].fd /\ c \in Conns
    BY <1>1, <1>2, <1>3 DEF FreeOnce, Waiting
  <1>5. on' = c /\ calls' = Dtor /\ queue' = Tail(queue) /\ UNCHANGED <<ends, loop, poller, live, peer>>
    BY <1>2, <1>4 DEF Barrier
  <1>6. sock' = sock /\ up' = up /\ down' = down /\ UNCHANGED <<at, hupped, exit, reg, revents, peer>>
    BY <1>5 DEF ends, loop, poller
  <1>7. \A x \in Conns : x # c /\ InQueue(x) => InQueue(x)'
    <2>1. SUFFICES ASSUME NEW x \in Conns, x # c, NEW k \in 1 .. Len(queue), queue[k] = x
                   PROVE  InQueue(x)'
      BY DEF InQueue
    <2>2. k # 1
      BY <2>1, <1>2
    <2>3. PICK t : t = Tail(queue)
      OBVIOUS
    <2>4. t \in Seq(Conns) /\ Len(t) = Len(queue) - 1 /\ \A j \in 1 .. Len(t) : t[j] = queue[j + 1]
      BY <1>1, <2>3
    <2>5. PICK j : j = k - 1
      OBVIOUS
    <2>6. j \in 1 .. Len(t) /\ j + 1 = k
      BY <2>2, <2>4, <2>5, <1>1
    <2>7. t[j] = x
      BY <2>1, <2>4, <2>6
    <2>8. queue' = t
      BY <1>5, <2>3
    <2> QED
      BY <2>6, <2>7, <2>8 DEF InQueue
  <1>8. ~Occurs(Inner, Dtor) /\ ~Occurs({"detach_tx"}, Dtor) /\ ~Occurs({"detach_rx", "rx_detached"}, Dtor)
    BY DEF Occurs, Dtor, Inner
  <1>9. Occurs(Leavings, Dtor)
    <2>1. 4 \in 1 .. Len(Dtor) /\ Dtor[4] \in Leavings
      BY DEF Dtor, Leavings, Endings
    <2> QED
      BY <2>1 DEF Occurs
  <1>10. First(Inner, Dtor) /\ Before(Receiving, {"flow_tx"}, Dtor)
    BY <1>8 DEF First, Before, Occurs, Inner, Receiving
  <1>11. \A x \in Conns : (Heard(x)' <=> Heard(x)) /\ (Kept(x)' <=> Kept(x))
    BY <1>6 DEF Heard, Kept
  <1>12. Heard(c)' => Kept(c)' /\ Fine(sock'[c], up'[c], down'[c], calls')
    <2>1. SUFFICES ASSUME Heard(c)
                   PROVE  Kept(c) /\ Fine(sock[c], up[c], down[c], Dtor)
      BY <1>4, <1>5, <1>6, <1>11
    <2>2. Kept(c) /\ Fine(sock[c], up[c], down[c], <<>>)
      BY <2>1, <1>1, <1>4, NothingRuns
    <2> QED
      BY <2>2, <1>4 DEF Fine
  <1>13. live \subseteq Conns
    BY DEF CInv, Control
  <1>14. \A x \in live : x # c =>
            /\ sock'[x] = sock[x] /\ up'[x] = up[x] /\ down'[x] = down[x]
            /\ InQueue(x) => InQueue(x)'
            /\ Heard(x)' => Heard(x)
            /\ Kept(x) => Kept(x)'
    BY <1>6, <1>7, <1>11, <1>13
  <1>15. ~sock'[c].fd /\ live' = live
    BY <1>4, <1>5, <1>6
  <1> QED
    BY <1>1, <1>4, <1>5, <1>8, <1>9, <1>10, <1>12, <1>14, <1>15, StartAttends

\* free leaves the other connections as they are.
LEMMA FreeAttends ==
  ASSUME CInv, EndInv, AttendInv, Free
  PROVE  AttendInv'
  <1>1. calls # <<>> /\ on \in Conns
    BY DEF Free, Calling, CInv, Control
  <1>2. calls' = <<>>
    BY FreeKeeps
  <1>3. /\ live' = live \ {on} /\ sock' = [sock EXCEPT ![on] = JunkSock]
        /\ up' = [up EXCEPT ![on] = Junk] /\ down' = [down EXCEPT ![on] = Junk]
        /\ peer' = [peer EXCEPT ![on] = NoPeer] /\ UNCHANGED <<loop, poller, on, queue>>
    BY DEF Free
  <1>4. up \in [Conns -> IdleStream] /\ down \in [Conns -> IdleStream] /\ peer \in [Conns -> Other]
        /\ sock \in [Conns -> Sock] /\ live \subseteq Conns
    BY DEF CInv, Control, EndInv, StreamTypes
  <1>5. \A c \in live' : /\ c \in live /\ c # on /\ c \in Conns
                         /\ up'[c] = up[c] /\ down'[c] = down[c] /\ sock'[c] = sock[c] /\ peer'[c] = peer[c]
    BY <1>3, <1>4
  <1>6. UNCHANGED <<at, hupped, exit, reg, revents>>
    BY <1>3 DEF loop, poller
  <1>7. ~Occurs(Undoing, calls') /\ ~Occurs({"detach_tx"}, calls') /\ ~Occurs({"detach_rx", "rx_detached"}, calls')
        /\ First(Inner, calls')
    BY <1>2, CallForms
  <1>8. Before(Receiving, {"flow_tx"}, calls')
    BY <1>2 DEF Before
  <1>9. Untied' /\ NoMoreTx' /\ NoMoreRx' /\ InnerFirst' /\ RxAhead'
    BY <1>7, <1>8 DEF Untied, NoMoreTx, NoMoreRx, InnerFirst, RxAhead
  <1>10. Tied'
    BY <1>5 DEF AttendInv, Tied
  <1>11. Reaches'
    BY <1>3, <1>5 DEF AttendInv, Reaches, InQueue
  <1>12. Served'
    <2>1. SUFFICES ASSUME NEW c \in live', Heard(c)'
                   PROVE  Kept(c)' /\ Fine(sock'[c], up'[c], down'[c], Mine(c)')
      BY DEF Served
    <2>2. Heard(c)
      BY <2>1, <1>5, <1>6 DEF Heard
    <2>3. Mine(c) = <<>> /\ Mine(c)' = <<>>
      BY <2>1, <1>2, <1>5 DEF Mine
    <2>4. Kept(c) /\ Fine(sock[c], up[c], down[c], <<>>)
      BY <2>1, <2>2, <2>3, <1>5 DEF AttendInv, Served
    <2>5. Kept(c)'
      BY <2>1, <2>4, <1>5, <1>6 DEF Kept
    <2> QED
      BY <2>1, <2>3, <2>4, <2>5, <1>5
  <1> QED
    BY <1>9, <1>10, <1>11, <1>12 DEF AttendInv

\* A callback that the poller starts, or the first one of a new connection.
LEMMA FineNext ==
  ASSUME NEW s, NEW u, NEW d, NEW a, Fine(s, u, d, <<>>), ~Occurs(Marks, a), ~Top("on_tx", a), ~Top("tr_consume", a)
  PROVE  Fine(s, u, d, a)
  <1>1. ASSUME NEW X, X \subseteq Marks
        PROVE  ~Occurs(X, a) /\ ~Occurs(X, <<>>)
    BY <1>1, CallForms DEF Occurs
  <1>2. /\ ~Occurs({"on_rx_end"}, a) /\ ~Occurs({"on_rx_end"}, <<>>)
        /\ ~Occurs({"close_if_done", "sock_close"}, a) /\ ~Occurs({"close_if_done", "sock_close"}, <<>>)
        /\ ~Occurs({"sock_close"}, a) /\ ~Occurs({"sock_close"}, <<>>)
    BY <1>1 DEF Marks
  <1>3. ~Top("on_tx", <<>>) /\ ~Top("tr_consume", <<>>)
    BY CallForms
  <1> QED
    BY <1>2, <1>3 DEF Fine

\* aem_net_on_conn flows rx, then tx.
LEMMA ConnCalls ==
  ASSUME NEW f, NEW g, NEW b,
         b = If(f, <<"flow_rx">>) \o If(g, <<"flow_tx">>)
  PROVE  /\ First(Inner, b) /\ Before(Receiving, {"flow_tx"}, b)
         /\ \A X : Occurs(X, b) => "flow_rx" \in X \/ "flow_tx" \in X
         /\ ~Top("on_tx", b) /\ ~Top("tr_consume", b)
  <1>1. PICK P : P = {"flow_rx", "flow_tx"}
    OBVIOUS
  <1>2. PICK a, t : a = If(f, <<"flow_rx">>) /\ t = If(g, <<"flow_tx">>)
    OBVIOUS
  <1>3. a \in Seq(P) /\ Len(a) <= 1 /\ Len(a) \in Nat /\ \A k \in 1 .. Len(a) : a[k] = "flow_rx"
    <2>1. CASE f
      <3>1. a = <<"flow_rx">>
        BY <1>2, <2>1 DEF If
      <3> QED
        BY <3>1, <1>1
    <2>2. CASE ~f
      <3>1. a = <<>>
        BY <1>2, <2>2 DEF If
      <3> QED
        BY <3>1
    <2> QED
      BY <2>1, <2>2
  <1>4. t \in Seq(P) /\ \A k \in 1 .. Len(t) : t[k] = "flow_tx"
    <2>1. CASE g
      <3>1. t = <<"flow_tx">>
        BY <1>2, <2>1 DEF If
      <3> QED
        BY <3>1, <1>1
    <2>2. CASE ~g
      <3>1. t = <<>>
        BY <1>2, <2>2 DEF If
      <3> QED
        BY <3>1
    <2> QED
      BY <2>1, <2>2
  <1>5. b = a \o t
    BY <1>2
  <1>6. /\ b \in Seq(P)
        /\ \A k \in 1 .. Len(b) : \/ k \in 1 .. Len(a) /\ b[k] = a[k]
                                  \/ k > Len(a) /\ k - Len(a) \in 1 .. Len(t) /\ b[k] = t[k - Len(a)]
    BY <1>3, <1>4, <1>5, Joined
  <1>7. \A k \in 1 .. Len(b) : (k = 1 /\ b[k] = "flow_rx") \/ b[k] = "flow_tx"
    <2>1. SUFFICES ASSUME NEW k \in 1 .. Len(b)
                   PROVE  (k = 1 /\ b[k] = "flow_rx") \/ b[k] = "flow_tx"
      OBVIOUS
    <2>2. CASE k \in 1 .. Len(a) /\ b[k] = a[k]
      <3>1. PICK n : n = Len(a)
        OBVIOUS
      <3>2. n \in Nat /\ n <= 1 /\ k \in 1 .. n
        BY <3>1, <2>2, <1>3
      <3> QED
        BY <3>2, <2>2, <1>3
    <2>3. CASE k - Len(a) \in 1 .. Len(t) /\ b[k] = t[k - Len(a)]
      BY <2>3, <1>4
    <2> QED
      BY <2>2, <2>3, <1>6
  <1>8. First(Inner, b)
    BY <1>7 DEF First, Inner
  <1>9. Before(Receiving, {"flow_tx"}, b)
    <2>1. SUFFICES ASSUME NEW j \in 1 .. Len(b), NEW k \in 1 .. Len(b), j < k
                   PROVE  b[k] = "flow_tx"
      BY DEF Before
    <2>2. k # 1
      BY <2>1
    <2> QED
      BY <2>2, <1>7
  <1>10. \A X : Occurs(X, b) => "flow_rx" \in X \/ "flow_tx" \in X
    BY <1>7 DEF Occurs
  <1>11. ~Top("on_tx", b) /\ ~Top("tr_consume", b)
    <2>1. SUFFICES ASSUME b # <<>>
                   PROVE  b[1] \notin {"on_tx", "tr_consume"}
      BY DEF Top
    <2>2. 1 \in 1 .. Len(b)
      BY <1>6, <2>1
    <2> QED
      BY <2>2, <1>7
  <1> QED
    BY <1>8, <1>9, <1>10, <1>11

\* The callbacks that the event loop starts: if the connection has been heard of, there was
\* no POLLHUP.
LEMMA OnConnAttends ==
  ASSUME CInv, EndInv, AttendInv, NEW c \in Conns, OnConn(c)
  PROVE  AttendInv'
  <1>1. /\ calls = <<>> /\ UNCHANGED <<live, peer, queue, exit, reg>> /\ on' = c /\ c \in reg
        /\ at' = c /\ hupped' = ("HUP" \in revents[c]) /\ revents' = [revents EXCEPT ![c] = {}]
    BY DEF OnConn, Deliver, Idle
  <1>2. up \in [Conns -> IdleStream] /\ down \in [Conns -> IdleStream]
        /\ sock \in [Conns -> Sock] /\ live \subseteq Conns /\ revents \in [Evts -> SUBSET Bits] /\ Conns \subseteq Evts
    BY DEF CInv, Control, EndInv, StreamTypes, Evts
  <1>3. c \in live /\ sock[c].fd
    BY <1>1 DEF CInv, Registered
  <1>4. up[c] \in IdleStream /\ down[c] \in IdleStream /\ sock[c] \in Sock
    BY <1>2
  <1>5. /\ sock'[c].fd /\ sock'[c].onClose = sock[c].onClose /\ up'[c].snk = up[c].snk /\ down'[c].src = down[c].src
        /\ \A x \in Conns : x # c => sock'[x] = sock[x] /\ up'[x] = up[x] /\ down'[x] = down[x]
        /\ "HUP" \notin revents[c] => sock'[c] = sock[c] /\ up'[c] = up[c] /\ down'[c] = down[c]
    <2>1. CASE "HUP" \in revents[c]
      <3>1. PICK f, g, o : f = (up[c].fin \/ up[c].src) /\ g = (down[c].fin \/ down[c].snk) /\ o = FALSE
        OBVIOUS
      <3>2. PICK u, d, s : u = [up[c] EXCEPT !.fin = f] /\ d = [down[c] EXCEPT !.fin = g] /\ s = [sock[c] EXCEPT !.wr = o]
        OBVIOUS
      <3>3. f \in BOOLEAN /\ g \in BOOLEAN /\ o \in BOOLEAN
        BY <3>1
      <3>4. sock' = [sock EXCEPT ![c].wr = FALSE] /\ up' = [up EXCEPT ![c].fin = @ \/ up[c].src]
            /\ down' = [down EXCEPT ![c].fin = @ \/ down[c].snk]
        BY <2>1 DEF OnConn
      <3>5. sock' = [sock EXCEPT ![c] = s]
        BY <3>4, <3>1, <3>2
      <3>6. up' = [up EXCEPT ![c] = u]
        BY <3>4, <3>1, <3>2
      <3>7. down' = [down EXCEPT ![c] = d]
        BY <3>4, <3>1, <3>2
      <3>8. s.fd = sock[c].fd /\ s.onClose = sock[c].onClose
        BY <3>2, <3>3, <1>4, WrSet
      <3>9. u.snk = up[c].snk
        BY <3>2, <3>3, <1>4, StreamFilled
      <3>10. d.src = down[c].src
        BY <3>2, <3>3, <1>4, StreamFilled
      <3> QED
        BY <2>1, <3>5, <3>6, <3>7, <3>8, <3>9, <3>10, <1>2, <1>3
    <2>2. CASE "HUP" \notin revents[c]
      <3>1. sock' = sock /\ up' = up /\ down' = down
        BY <2>2 DEF OnConn
      <3> QED
        BY <3>1, <1>3
    <2> QED
      BY <2>1, <2>2
  <1>6. sock'[c].fd => sock'[c].onClose /\ up'[c].snk /\ down'[c].src
    BY <1>3, <1>5 DEF AttendInv, Tied
  <1>7. /\ First(Inner, calls') /\ Before(Receiving, {"flow_tx"}, calls')
        /\ \A X : Occurs(X, calls') => "flow_rx" \in X \/ "flow_tx" \in X
        /\ ~Top("on_tx", calls') /\ ~Top("tr_consume", calls')
    <2>1. calls' = If(revents[c] \cap {"IN", "RDHUP", "HUP"} # {}, <<"flow_rx">>)
                   \o If(revents[c] \cap {"OUT", "HUP"} # {}, <<"flow_tx">>)
      BY DEF OnConn
    <2> QED
      BY <2>1, ConnCalls
  <1>8. /\ ~Occurs(Undoing, calls') /\ ~Occurs({"detach_tx"}, calls') /\ ~Occurs({"detach_rx", "rx_detached"}, calls')
        /\ ~Occurs(Marks, calls')
    BY <1>7 DEF Undoing, Leavings, Endings, Marks
  <1>9. \A x \in live : x # c =>
            /\ sock'[x] = sock[x] /\ up'[x] = up[x] /\ down'[x] = down[x]
            /\ InQueue(x) => InQueue(x)'
            /\ Heard(x)' => Heard(x)
            /\ Kept(x) => Kept(x)'
    BY <1>1, <1>2, <1>5 DEF InQueue, Heard, Kept
  <1>10. Heard(c)' => Kept(c)' /\ Fine(sock'[c], up'[c], down'[c], calls')
    <2>1. SUFFICES ASSUME Heard(c)'
                   PROVE  Kept(c)' /\ Fine(sock'[c], up'[c], down'[c], calls')
      OBVIOUS
    <2>2. Heard(c)
      BY <2>1, <1>1 DEF Heard
    <2>3. Kept(c) /\ Fine(sock[c], up[c], down[c], <<>>)
      BY <2>2, <1>1, <1>3, NothingRuns
    <2>4. "HUP" \notin revents[c]
      BY <2>3 DEF Kept
    <2>5. Kept(c)'
      BY <2>4, <1>1, <1>2 DEF Kept
    <2>6. Fine(sock[c], up[c], down[c], calls')
      BY <2>3, <1>7, <1>8, FineNext
    <2> QED
      BY <2>4, <2>5, <2>6, <1>5
  <1> QED
    BY <1>1, <1>5, <1>6, <1>7, <1>8, <1>9, <1>10, StartAttends

\* The flags of what conn_new makes.
LEMMA NewFlags ==
  /\ NewSock.fd /\ NewSock.rd /\ NewSock.wr /\ NewSock.onClose /\ NewSock.events = {"IN", "RDHUP"}
  /\ NewStream.src /\ NewStream.snk /\ ~NewStream.fin /\ ~NewStream.full /\ Empty(NewStream)
  BY DEF NewSock, NewStream, Empty, NoBuffer

\* A new connection waits for POLLIN.
LEMMA AcceptAttends ==
  ASSUME CInv, EndInv, AttendInv, NEW c \in Conns, Accept(c)
  PROVE  AttendInv'
  <1>1. /\ calls = <<>> /\ c \notin live /\ live' = live \cup {c} /\ at = Srv
        /\ sock' = [sock EXCEPT ![c] = NewSock]
        /\ up' = [up EXCEPT ![c] = NewStream] /\ down' = [down EXCEPT ![c] = NewStream]
        /\ on' = c /\ calls' = <<"flow_tx">> /\ reg' = reg \cup {c}
        /\ UNCHANGED <<at, hupped, exit, revents, queue>>
    BY DEF Accept, loop
  <1>2. \E q : peer' = [peer EXCEPT ![c] = q]
    BY DEF Accept
  <1>3. up \in [Conns -> IdleStream] /\ down \in [Conns -> IdleStream] /\ peer \in [Conns -> Other]
        /\ sock \in [Conns -> Sock] /\ live \subseteq Conns
    BY DEF CInv, Control, EndInv, StreamTypes
  <1>4. sock'[c] = NewSock /\ up'[c] = NewStream /\ down'[c] = NewStream
    BY <1>1, <1>3
  <1>5. \A x \in live : x # c /\ sock'[x] = sock[x] /\ up'[x] = up[x] /\ down'[x] = down[x] /\ peer'[x] = peer[x]
    BY <1>1, <1>2, <1>3
  <1>6. \A x \in live : x # c =>
            /\ sock'[x] = sock[x] /\ up'[x] = up[x] /\ down'[x] = down[x]
            /\ InQueue(x) => InQueue(x)'
            /\ Heard(x)' => Heard(x)
            /\ Kept(x) => Kept(x)'
    BY <1>1, <1>5 DEF InQueue, Heard, Kept
  <1>7. /\ First(Inner, calls') /\ Before(Receiving, {"flow_tx"}, calls')
        /\ \A X : Occurs(X, calls') <=> "flow_tx" \in X
        /\ ~Top("on_tx", calls') /\ ~Top("tr_consume", calls')
    <2>1. calls' = <<"flow_tx">>
      BY <1>1
    <2>2. First(Inner, calls') /\ (\A X : Occurs(X, calls') <=> "flow_tx" \in X) /\ \A f : Top(f, calls') <=> "flow_tx" = f
      BY <2>1, CallForms
    <2>3. Before(Receiving, {"flow_tx"}, calls')
      <3>1. \A k \in 1 .. Len(calls') : calls'[k] = "flow_tx"
        BY <2>1
      <3> QED
        BY <3>1 DEF Before
    <2> QED
      BY <2>2, <2>3
  <1>8. /\ ~Occurs(Undoing, calls') /\ ~Occurs({"detach_tx"}, calls') /\ ~Occurs({"detach_rx", "rx_detached"}, calls')
        /\ ~Occurs(Marks, calls')
    BY <1>7 DEF Undoing, Leavings, Endings, Marks
  <1>9. Fine(NewSock, NewStream, NewStream, calls')
    <2>1. Fine(NewSock, NewStream, NewStream, <<>>)
      <3>1. ~Occurs({"sock_close"}, <<>>) /\ ~Top("on_tx", <<>>) /\ ~Top("tr_consume", <<>>)
        BY CallForms
      <3>2. ~Done(NewSock)
        BY NewFlags DEF Done
      <3>3. {"IN", "OUT"} \cap NewSock.events # {} /\ "IN" \in NewSock.events
        BY NewFlags
      <3> QED
        BY <3>1, <3>2, <3>3, NewFlags DEF Fine
    <2> QED
      BY <2>1, <1>7, <1>8, FineNext
  <1>10. Kept(c)'
    <2>1. revents[c] = {}
      BY <1>1 DEF CInv, Reports, Registered, Evts
    <2>2. Srv # c
      BY ServerAssumption
    <2> QED
      BY <2>1, <2>2, <1>1 DEF Kept
  <1>11. sock'[c].fd /\ sock'[c].onClose /\ up'[c].snk /\ down'[c].src
    BY <1>4, NewFlags
  <1>12. Kept(c)' /\ Fine(sock'[c], up'[c], down'[c], calls')
    BY <1>4, <1>9, <1>10
  <1> QED
    BY <1>1, <1>6, <1>7, <1>8, <1>11, <1>12, StartAttends

\* A step that touches no connection keeps the invariant, if it keeps what the poller has.
LEMMA OthersAttend ==
  ASSUME AttendInv, UNCHANGED <<ends, live, on, calls, queue>>,
         \A c \in live : Heard(c)' => Heard(c),
         \A c \in live : Heard(c)' /\ Kept(c) => Kept(c)'
  PROVE  AttendInv'
  <1>1. sock' = sock /\ up' = up /\ down' = down /\ live' = live /\ on' = on /\ calls' = calls /\ queue' = queue
    BY DEF ends
  <1>2. Tied' /\ Untied' /\ NoMoreTx' /\ NoMoreRx' /\ InnerFirst' /\ RxAhead'
    BY <1>1 DEF AttendInv, Tied, Untied, NoMoreTx, NoMoreRx, InnerFirst, RxAhead, S
  <1>3. Reaches'
    BY <1>1 DEF AttendInv, Reaches, InQueue
  <1>4. Served'
    <2>1. SUFFICES ASSUME NEW c \in live, Heard(c)'
                   PROVE  Kept(c)' /\ Fine(sock'[c], up'[c], down'[c], Mine(c)')
      BY <1>1 DEF Served
    <2>2. Kept(c) /\ Fine(sock[c], up[c], down[c], Mine(c))
      BY <2>1 DEF AttendInv, Served
    <2>3. Mine(c)' = Mine(c)
      BY <1>1 DEF Mine
    <2> QED
      BY <2>1, <2>2, <2>3, <1>1
  <1> QED
    BY <1>2, <1>3, <1>4 DEF AttendInv

\* A connection that is registered is not hung up by an end of the peer's side alone: the
\* server has read that end before it closed its own side, and closed the socket then.
LEMMA NotHungUp ==
  ASSUME CInv, EndInv, AttendInv, calls = <<>>, NEW c \in live, Heard(c), c \in reg
  PROVE  "HUP" \notin Pending(c)
  <1>1. Fine(sock[c], up[c], down[c], <<>>)
    BY NothingRuns
  <1>2. sock[c].fd
    BY DEF CInv, Registered, Control
  <1>3. \A X : ~Occurs(X, <<>>)
    BY CallForms
  <1>4. sock[c].wr
    BY <1>1, <1>2, <1>3 DEF Fine, Done
  <1> QED
    BY <1>4 DEF Pending, Heard

\* What the loop does between two callbacks.
LEMMA LoopAttends ==
  ASSUME CInv, EndInv, AttendInv, Listen \/ Poll \/ Return \/ Finish \/ HupAll \/ NextRound
  PROVE  AttendInv'
  <1>1. UNCHANGED <<ends, live, on, calls, queue>> /\ calls = <<>> /\ exit' = exit /\ peer' = peer
    BY DEF Listen, Poll, Return, Finish, HupAll, NextRound, Idle
  <1>2. sock' = sock
    BY <1>1 DEF ends
  <1>3. live \subseteq Conns /\ Conns \subseteq Evts /\ Srv \notin Conns /\ None \notin Conns
    BY ServerAssumption DEF CInv, Control, Evts
  <1>4. \A c \in live : Heard(c)' <=> Heard(c)
    BY <1>1 DEF Heard
  <1>5. SUFFICES ASSUME NEW c \in live, Heard(c), Kept(c)
                 PROVE  Kept(c)'
    BY <1>1, <1>4, OthersAttend
  <1>6. CASE Listen
    <2>1. reg = {} /\ UNCHANGED <<revents, at, hupped>>
      BY <1>6 DEF Listen, CInv, Reports
    <2> QED
      BY <2>1, <1>2, <1>5 DEF Kept
  <1>7. CASE Poll
    <2>1. PICK knock \in SUBSET (reg \cap {Srv}) :
            revents' = [e \in Evts |-> IF e \in knock THEN {"IN"}
                                       ELSE IF e \in reg \ {Srv} THEN Pending(e) ELSE {}]
      BY <1>7 DEF Poll
    <2>2. revents'[c] = IF c \in reg THEN Pending(c) ELSE {}
      BY <2>1, <1>3
    <2>3. "HUP" \notin revents'[c]
      BY <2>2, <1>1, <1>5, NotHungUp
    <2>4. UNCHANGED <<reg, at, hupped>>
      BY <1>7 DEF Poll
    <2> QED
      BY <2>3, <2>4, <1>2, <1>5 DEF Kept
  <1>8. CASE Return
    <2>1. at' = None /\ at # None
      BY <1>8 DEF Return
    <2>2. CASE hupped /\ at \in reg
      <3>1. Deregister(at) /\ at \in Evts
        BY <1>8, <2>1, <2>2 DEF Return, CInv, Control
      <3>2. reg' = reg \ {at} /\ \A x \in Evts : revents'[x] # {} => revents'[x] = revents[x]
        BY <3>1, Deregistered DEF CInv
      <3>3. at # c
        BY <2>2, <1>5 DEF Kept
      <3>4. "HUP" \notin revents'[c]
        BY <3>2, <1>3, <1>5 DEF Kept
      <3> QED
        BY <2>1, <3>2, <3>3, <3>4, <1>2, <1>3, <1>5 DEF Kept
    <2>3. CASE ~(hupped /\ at \in reg)
      <3>1. UNCHANGED poller
        BY <1>8, <2>3 DEF Return
      <3> QED
        BY <2>1, <3>1, <1>2, <1>3, <1>5 DEF Kept, poller
    <2> QED
      BY <2>2, <2>3
  <1>9. CASE HupAll
    <2>1. revents' = [e \in Evts |-> IF exit /\ e \in reg THEN {"HUP"} ELSE {}] /\ UNCHANGED <<reg, at, hupped>>
      BY <1>9 DEF HupAll
    <2>2. revents'[c] = {}
      BY <2>1, <1>3, <1>5 DEF Heard
    <2> QED
      BY <2>1, <2>2, <1>2, <1>5 DEF Kept
  <1>10. CASE Finish \/ NextRound
    <2>1. UNCHANGED <<reg, revents, at, hupped>>
      BY <1>10 DEF Finish, NextRound, poller
    <2> QED
      BY <2>1, <1>2, <1>5 DEF Kept
  <1> QED
    BY <1>6, <1>7, <1>8, <1>9, <1>10

\* The callback of the listening socket starts with no connection.
LEMMA OnAcceptAttends ==
  ASSUME CInv, AttendInv, OnAccept
  PROVE  AttendInv'
  <1>1. UNCHANGED <<ends, live, on, calls, queue, reg, exit, peer>> /\ at' = Srv /\ revents' = [revents EXCEPT ![Srv] = {}]
    BY DEF OnAccept, Deliver, ends
  <1>2. live \subseteq Conns /\ Conns \subseteq Evts /\ Srv \notin Conns /\ revents \in [Evts -> SUBSET Bits]
    BY ServerAssumption DEF CInv, Control, Evts
  <1>3. \A c \in live : c # Srv /\ revents'[c] = revents[c]
    BY <1>1, <1>2
  <1>4. \A c \in live : (Heard(c)' <=> Heard(c)) /\ (Kept(c) => Kept(c)')
    BY <1>1, <1>3 DEF Heard, Kept, ends
  <1> QED
    BY <1>1, <1>4, OthersAttend

\* What the peers do and a signal: a reset is not taken back, nor is the end of the program.
LEMMA WorldAttends ==
  ASSUME EndInv, AttendInv, World
  PROVE  AttendInv'
  <1>1. UNCHANGED <<ends, live, on, calls, queue, poller, at, hupped>>
    BY DEF World, Signal, PeerSends, PeerFinishes, PeerReads, PeerResets, PeerDoes, loop
  <1>2. exit => exit'
    BY DEF World, Signal, PeerSends, PeerFinishes, PeerReads, PeerResets, PeerDoes, loop
  <1>3. peer \in [Conns -> Other]
    BY DEF EndInv, StreamTypes
  <1>4. \A c : peer[c].rst => peer'[c].rst
    <2>1. CASE Signal
      BY <2>1 DEF Signal
    <2>2. ASSUME NEW x \in Conns, PeerSends(x) \/ PeerFinishes(x) \/ PeerReads(x) \/ PeerResets(x)
          PROVE  \A c : peer[c].rst => peer'[c].rst
      <3>1. PICK p : /\ peer' = [peer EXCEPT ![x] = p]
                     /\ peer[x].rst => p.rst
        <4>1. peer[x] \in Other
          BY <1>3
        <4>2. CASE PeerSends(x)
          <5>1. ~peer[x].rst /\ peer' = [peer EXCEPT ![x] = [peer[x] EXCEPT !.lines = @ + 1]]
            BY <4>2 DEF PeerSends
          <5> QED
            BY <5>1
        <4>3. CASE PeerFinishes(x)
          <5>1. ~peer[x].rst /\ peer' = [peer EXCEPT ![x] = [peer[x] EXCEPT !.eof = TRUE]]
            BY <4>3 DEF PeerFinishes
          <5> QED
            BY <5>1
        <4>4. CASE PeerReads(x)
          <5>1. PICK p : p = [peer[x] EXCEPT !.room = TRUE]
            OBVIOUS
          <5>2. peer' = [peer EXCEPT ![x] = p]
            BY <4>4, <5>1 DEF PeerReads
          <5>3. p.rst = peer[x].rst
            BY <4>1, <5>1 DEF Other
          <5> QED
            BY <5>2, <5>3
        <4>5. CASE PeerResets(x)
          <5>1. ~peer[x].rst
            BY <4>5 DEF PeerResets
          <5>2. PICK p : p = [peer[x] EXCEPT !.rst = TRUE, !.lines = 0]
            OBVIOUS
          <5>3. peer' = [peer EXCEPT ![x] = p]
            BY <4>5, <5>2, <1>3 DEF PeerResets
          <5> QED
            BY <5>1, <5>3
        <4> QED
          BY <2>2, <4>2, <4>3, <4>4, <4>5
      <3> QED
        BY <3>1, <1>3
    <2> QED
      BY <2>1, <2>2 DEF World
  <1>5. \A c \in live : Heard(c)' => Heard(c)
    BY <1>2, <1>4 DEF Heard
  <1>6. \A c \in live : Kept(c) => Kept(c)'
    BY <1>1 DEF Kept, ends, poller
  <1> QED
    BY <1>1, <1>5, <1>6, OthersAttend

\* Every step keeps it.
LEMMA NextAttends ==
  ASSUME CInv, FreeOnce, EndInv, AttendInv, [Next]_vars
  PROVE  AttendInv'
  <1>1. CASE UNCHANGED vars
    <2>1. UNCHANGED <<ends, live, on, calls, queue, reg, revents, at, hupped, exit, peer>>
      BY <1>1 DEF vars, loop, poller
    <2>2. \A c \in live : (Heard(c)' <=> Heard(c)) /\ (Kept(c) => Kept(c)')
      BY <2>1 DEF Heard, Kept, ends
    <2> QED
      BY <2>1, <2>2, OthersAttend
  <1>2. CASE Step
    BY <1>2, UndoAttends, DetachRxAttends, DetachTxAttends, FlowAttends, OnRxEndAttends, CloseIfDoneAttends,
       TrConsumeAttends, TrProvideAttends, OnRxAttends, OnTxAttends, SockCloseAttends, CallRcuAttends,
       ConnDtorAttends, BarrierAttends, FreeAttends DEF Step
  <1>3. CASE Main
    BY <1>3, LoopAttends, OnAcceptAttends, OnConnAttends, AcceptAttends DEF Main
  <1>4. CASE World
    BY <1>4, WorldAttends
  <1> QED
    BY <1>1, <1>2, <1>3, <1>4 DEF Next

\* Before main has listened there is no connection.
LEMMA InitAttends ==
  ASSUME Init
  PROVE  AttendInv
  <1>1. calls = <<>> /\ live = {}
    BY DEF Init
  <1>2. \A X : ~Occurs(X, calls) /\ First(X, calls)
    BY <1>1, CallForms
  <1>3. Before(Receiving, {"flow_tx"}, calls)
    BY <1>1 DEF Before
  <1> QED
    BY <1>1, <1>2, <1>3 DEF AttendInv, Tied, Untied, NoMoreTx, NoMoreRx, InnerFirst, RxAhead, Reaches, Served

\* The invariant that the two theorems below rest on.
THEOREM AttendInvariant ==
  ASSUME ~TrCloses, "quiet" \notin Env
  PROVE  Spec => [](CInv /\ FreeOnce /\ EndInv /\ AttendInv)
  <1>1. Init => FreeOnce /\ EndInv /\ AttendInv
    BY InitEnds, InitAttends
  <1>2. CInv /\ FreeOnce /\ EndInv /\ AttendInv /\ [Next]_vars => (FreeOnce /\ EndInv /\ AttendInv)'
    BY NextFreesOnce, NextEnds, NextAttends
  <1> QED
    BY <1>1, <1>2, ControlInvariant, PTL DEF Spec

\* If the transducer of a connection has no on_close callback and no peer is quiet, no
\* connection is forgotten between two callbacks: until a reset or the end of the program
\* brings POLLHUP, it is registered with its socket open or waits to be freed, and it waits
\* for POLLOUT if there are lines to send, and for some event if it has to receive.
THEOREM AlwaysAttended ==
  ASSUME ~TrCloses, "quiet" \notin Env
  PROVE  Spec => []Attended
  <1>1. ASSUME CInv, FreeOnce, AttendInv, calls = <<>>, ~exit, NEW c \in live, ~peer[c].rst
        PROVE  (c \in reg /\ sock[c].fd) # InQueue(c)
    <2>1. Kept(c)
      BY <1>1, NothingRuns DEF Heard
    <2>2. ~sock[c].fd => InQueue(c)
      BY <1>1, NothingRuns
    <2>3. InQueue(c) => ~sock[c].fd
      BY <1>1 DEF FreeOnce, Waiting, InQueue
    <2>4. InQueue(c) \in BOOLEAN /\ sock[c].fd \in BOOLEAN
      <3>1. sock[c] \in Sock
        BY <1>1 DEF CInv, Control
      <3> QED
        BY <3>1, SockSet DEF InQueue
    <2> QED
      BY <2>1, <2>2, <2>3, <2>4 DEF Kept
  <1>2. ASSUME CInv, EndInv, AttendInv, calls = <<>>, NEW c \in reg \ {Srv}, ~peer[c].rst, ~exit
        PROVE  /\ down[c].buf > 0 => "OUT" \in sock[c].events
               /\ sock[c].rd /\ Empty(up[c]) /\ Empty(down[c]) => {"IN", "OUT"} \cap sock[c].events # {}
    <2>1. c \in live /\ sock[c].fd
      BY <1>2 DEF CInv, Control, Registered, Evts
    <2>2. Fine(sock[c], up[c], down[c], <<>>)
      BY <1>2, <2>1, NothingRuns DEF Heard
    <2>3. ~Occurs({"on_rx_end"}, <<>>) /\ ~Top("on_tx", <<>>)
      BY CallForms
    <2>4. down[c].buf > 0 => ~Empty(down[c])
      <3>1. down[c].buf \in {NoBuffer} \cup Nat
        BY <1>2, <2>1, StreamSet DEF CInv, Control, EndInv, StreamTypes
      <3> QED
        BY <3>1 DEF Empty, NoBuffer
    <2> QED
      BY <2>1, <2>2, <2>3, <2>4 DEF Fine
  <1>3. CInv /\ FreeOnce /\ EndInv /\ AttendInv => Attended
    BY <1>1, <1>2 DEF Attended, Accounted, WakesUp
  <1> QED
    BY <1>3, AttendInvariant, PTL

\* Memory is given back by free alone, which is called when the connection is closed.
LEMMA OnlyFreed ==
  ASSUME CInv, [Next]_vars, NEW c \in live, c \notin live'
  PROVE  Free /\ c = on
  <1>0. Control
    BY DEF CInv
  <1>1. CASE UNCHANGED vars
    BY <1>1 DEF vars
  <1>2. CASE World
    BY <1>2 DEF World, Signal, PeerSends, PeerFinishes, PeerReads, PeerResets, PeerDoes
  <1>3. CASE Main
    BY <1>3 DEF Main, Listen, Poll, OnAccept, Return, Finish, HupAll, NextRound, OnConn, Accept, Deliver
  <1>4. CASE Step
    <2>1. live' = live \/ (Free /\ c = on)
      <3>1. ASSUME PlainTurn \/ Turn(Lasting)
            PROVE  live' = live
        BY <3>1 DEF PlainTurn, Turn, Stops
      <3>2. CASE DetachRx \/ RxDetached \/ DetachTx \/ DetachTrSink \/ DetachTrSource \/ TrSourceDetached
        BY <1>0, <3>1, <3>2, DetachTurns
      <3>3. CASE TrConsume \/ TrProvide
        BY <1>0, <3>1, <3>3, TransducerTurns
      <3>4. CASE FlowRx \/ OnRx \/ OnRxEnd
        BY <1>0, <3>1, <3>4, RxTurns
      <3>5. CASE FlowTx \/ OnTx \/ CloseIfDone \/ Closed
        BY <1>0, <3>1, <3>5, TxTurns
      <3>6. CASE TrClose
        BY <1>0, <3>1, <3>6, TrCloseTurns
      <3>7. CASE SockClose \/ CallRcu \/ Barrier \/ ConnDtor
        BY <3>7 DEF SockClose, CallRcu, Barrier, ConnDtor, Local, Abort
      <3>8. CASE Free
        BY <3>8 DEF Free
      <3> QED
        BY <1>4, <3>2, <3>3, <3>4, <3>5, <3>6, <3>7, <3>8 DEF Step
    <2> QED
      BY <2>1
  <1> QED
    BY <1>1, <1>2, <1>3, <1>4 DEF Next

\* In the same cases a connection is freed with nothing left in its streams, unless a reset
\* or the end of the program has cut it short: everything received has been answered.
THEOREM RepliesWhole ==
  ASSUME ~TrCloses, "quiet" \notin Env
  PROVE  Spec => WholeReply
  <1>1. ASSUME CInv, EndInv, AttendInv, [Next]_vars, NEW c \in live \ live', ~peer[c].rst, ~exit
        PROVE  Empty(up[c]) /\ Empty(down[c])
    <2>1. Free /\ c = on
      BY <1>1, OnlyFreed
    <2>2. calls # <<>> /\ calls[1] = "free"
      BY <2>1 DEF Free, Calling
    <2>3. up[on] = U /\ down[on] = D
      BY <1>1, <2>2, HasBegun
    <2>4. Fine(S, U, D, calls)
      BY <1>1, <2>1, <2>2, Attends DEF Heard
    <2>5. ~S.fd
      <3>1. "free" \in Undoing
        BY DEF Undoing, Leavings, Endings
      <3>2. Occurs(Undoing, calls)
        BY <1>1, <2>2, <3>1, Attends
      <3> QED
        BY <1>1, <2>2, <3>2, Attends
    <2> QED
      BY <2>1, <2>3, <2>4, <2>5 DEF Fine
  <1>2. CInv /\ FreeOnce /\ EndInv /\ AttendInv /\ [Next]_vars =>
          [\A c \in live \ live' : ~peer[c].rst /\ ~exit => Empty(up[c]) /\ Empty(down[c])]_vars
    BY <1>1
  <1> QED
    BY <1>2, AttendInvariant, PTL DEF Spec, WholeReply

-----------------------------------------------------------------------------
(* Backpressure bounds the buffers *)

\* Nothing more is received: the read side is closed, or the peer has reset.
Cut(s, p) == ~s.rd \/ p.rst

\* A stream that takes nothing more, until some of it is sent.
Blocks(t) == ~Empty(t) /\ t.full

\* After POLLHUP the poller takes the event out, at the latest when its callback returns.
Unplugged(c) == c \notin reg \/ (at = c /\ hupped)

\* The code that leads to the transducer taking lines.
Flowing == {"flow_rx", "on_rx", "tr_provide", "tr_consume"}

\* What is received on top of what waits has room as long as the transducer is about to
\* take it, which leaves at most the beginning of a line; what the transducer cannot take
\* makes the stream full.  What it moves to the other stream is sent, or makes that one
\* full, before it moves any more.
Sized(s, u, d, p, cs) ==
    /\ \/ Lines(u) <= MaxLines + 1
       \/ Top("tr_consume", cs) /\ s.fd /\ Lines(u) <= 2 * MaxLines + 1 /\ ~Blocks(d)
    /\ Lines(d) <= 2 * MaxLines + 1
    /\ \/ Empty(d) \/ d.full
       \/ /\ ~u.snk \/ Lines(u) + Lines(d) <= 2 * MaxLines + 1
          /\ Top("on_tx", cs) \/ Cut(s, p)
    /\ \/ u.full \/ Lines(u) <= 1 \/ Cut(s, p) \/ Top("tr_consume", cs)
       \/ ~Top("on_tx", cs) /\ ~Blocks(d)
    /\ Top("tr_consume", cs) => u.snk

\* Lines are not moved to a stream that nobody sends any more, unless they are the last ones.
Parted(s, u, d, p, unplugged, cs) ==
    /\ Occurs(Flowing, cs) /\ ~d.snk => Cut(s, p)
    /\ ~d.snk => d.fin
    /\ Occurs({"detach_tx"}, cs) => d.fin \/ ~s.rd
    /\ u.fin \/ d.fin => Cut(s, p) \/ unplugged \/ (u.fin /\ Occurs({"on_rx_end"}, cs))

\* The source of the transducer goes after its sink.
SinkGone == U.snk => Preceded("detach_tr_source", "detach_tr_sink", calls)

\* A peer has sent so much, and what it sent is lost with a reset.
Sending == \A c \in Conns : peer[c].lines <= MaxLines /\ (peer[c].rst => peer[c].lines = 0)

BoundInv ==
    /\ Sending /\ SinkGone
    /\ \A c \in live :
          /\ Sized(sock[c], up[c], down[c], peer[c], Mine(c))
          /\ Parted(sock[c], up[c], down[c], peer[c], Unplugged(c), Mine(c))

\* How many lines a stream has.
LEMMA LinesOf ==
  ASSUME NEW t \in IdleStream
  PROVE  /\ Lines(t) \in Nat /\ (Empty(t) <=> Lines(t) = 0)
         /\ t.buf # NoBuffer => Lines(t) = t.buf
  <1>1. t.buf \in {NoBuffer} \cup Nat
    BY StreamSet
  <1> QED
    BY <1>1 DEF Lines, Empty, NoBuffer

\* They depend on nothing else.
LEMMA LinesSame ==
  ASSUME NEW t \in IdleStream, NEW r \in IdleStream, r.buf = t.buf
  PROVE  Lines(r) = Lines(t) /\ (Empty(r) <=> Empty(t))
  BY DEF Lines, Empty

\* What runs finds its own connection as the invariant says.
LEMMA Bounds ==
  ASSUME CInv, EndInv, AttendInv, BoundInv, calls # <<>>
  PROVE  /\ Sized(S, U, D, peer[on], calls) /\ Parted(S, U, D, peer[on], Unplugged(on), calls)
         /\ peer[on].rst => peer[on].lines = 0
         /\ peer[on].lines \in Nat /\ peer[on].lines <= MaxLines /\ peer[on].rst \in BOOLEAN
         /\ MaxLines \in Nat \ {0}
         /\ Lines(U) \in Nat /\ Lines(D) \in Nat /\ (Empty(U) <=> Lines(U) = 0) /\ (Empty(D) <=> Lines(D) = 0)
         /\ \A X : Occurs(X, calls) <=> calls[1] \in X \/ Occurs(X, Tail(calls))
         /\ \A f : Top(f, calls) <=> calls[1] = f
         /\ ~Occurs(Inner, Tail(calls))
  <1>1. on \in live /\ on \in Conns /\ up[on] = U /\ down[on] = D /\ sock[on] = S /\ U \in IdleStream /\ D \in IdleStream
        /\ calls \in Seq(Functions)
    BY HasBegun
  <1>2. Mine(on) = calls
    BY DEF Mine
  <1>3. Sized(S, U, D, peer[on], calls) /\ Parted(S, U, D, peer[on], Unplugged(on), calls)
    BY <1>1, <1>2 DEF BoundInv
  <1>4. peer[on] \in Other
    BY <1>1 DEF EndInv, StreamTypes
  <1>5. ~Occurs(Inner, Tail(calls))
    <2>1. PICK t : t = Tail(calls)
      OBVIOUS
    <2>2. \A k \in 1 .. Len(t) : k + 1 \in 1 .. Len(calls) /\ t[k] = calls[k + 1] /\ k + 1 # 1
      BY <1>1, <2>1
    <2>3. \A k \in 1 .. Len(t) : t[k] \notin Inner
      BY <2>2 DEF AttendInv, InnerFirst, First
    <2> QED
      BY <2>1, <2>3 DEF Occurs
  <1>6. peer[on].lines <= MaxLines /\ (peer[on].rst => peer[on].lines = 0)
    BY <1>1 DEF BoundInv, Sending
  <1>7. peer[on].lines \in Nat /\ peer[on].rst \in BOOLEAN
    BY <1>4 DEF Other
  <1>8. Lines(U) \in Nat /\ Lines(D) \in Nat /\ (Empty(U) <=> Lines(U) = 0) /\ (Empty(D) <=> Lines(D) = 0)
    BY <1>1, LinesOf
  <1> QED
    BY <1>3, <1>5, <1>6, <1>7, <1>8, Attends, ServerAssumption

\* What holds for a connection that nothing runs for holds on when its peer resets.
LEMMA CutLater ==
  ASSUME NEW s, NEW u, NEW d, NEW p, NEW q, p.rst => q.rst, NEW cs, NEW m, NEW n, m => n
  PROVE  /\ Sized(s, u, d, p, cs) => Sized(s, u, d, q, cs)
         /\ Parted(s, u, d, p, m, cs) => Parted(s, u, d, q, n, cs)
  <1>1. Cut(s, p) => Cut(s, q)
    BY DEF Cut
  <1>2. Sized(s, u, d, p, cs) => Sized(s, u, d, q, cs)
    BY <1>1 DEF Sized
  <1>3. Parted(s, u, d, p, m, cs) => Parted(s, u, d, q, n, cs)
    BY <1>1 DEF Parted
  <1> QED
    BY <1>2, <1>3

\* What a step for a connection has to leave, for the invariant to hold.
LEMMA EffectBounds ==
  ASSUME CInv, EndInv, BoundInv, calls # <<>>,
         NEW s, NEW u, NEW d,
         sock' = [sock EXCEPT ![on] = s], up' = [up EXCEPT ![on] = u], down' = [down EXCEPT ![on] = d],
         UNCHANGED <<on, live>>, Sending', SinkGone',
         \A x \in Conns : peer[x].rst => peer'[x].rst,
         \A x \in Conns : x # on => (Unplugged(x) => Unplugged(x)'),
         Sized(s, u, d, peer'[on], calls'), Parted(s, u, d, peer'[on], Unplugged(on)', calls')
  PROVE  BoundInv'
  <1>1. on \in Conns /\ sock \in [Conns -> Sock] /\ live \subseteq Conns
        /\ up \in [Conns -> IdleStream] /\ down \in [Conns -> IdleStream]
    BY DEF CInv, Control, EndInv, StreamTypes
  <1>2. sock'[on] = s /\ up'[on] = u /\ down'[on] = d
    BY <1>1
  <1>3. \A c \in Conns : c # on => sock'[c] = sock[c] /\ up'[c] = up[c] /\ down'[c] = down[c]
    BY <1>1
  <1>4. SUFFICES ASSUME NEW c \in live
                 PROVE  /\ Sized(sock'[c], up'[c], down'[c], peer'[c], Mine(c)')
                        /\ Parted(sock'[c], up'[c], down'[c], peer'[c], Unplugged(c)', Mine(c)')
    BY DEF BoundInv
  <1>5. CASE c = on
    <2>1. Mine(c)' = calls'
      BY <1>5 DEF Mine
    <2> QED
      BY <1>2, <1>5, <2>1
  <1>6. CASE c # on
    <2>1. Mine(c)' = Mine(c)
      BY <1>6 DEF Mine
    <2>2. Sized(sock[c], up[c], down[c], peer[c], Mine(c)) /\ Parted(sock[c], up[c], down[c], peer[c], Unplugged(c), Mine(c))
      BY DEF BoundInv
    <2>3. /\ Sized(sock[c], up[c], down[c], peer'[c], Mine(c))
          /\ Parted(sock[c], up[c], down[c], peer'[c], Unplugged(c)', Mine(c))
      BY <2>2, <1>1, <1>6, CutLater
    <2> QED
      BY <2>1, <2>3, <1>1, <1>3, <1>6
  <1> QED
    BY <1>5, <1>6

\* The source of the transducer still goes after its sink when other calls are made.
LEMMA SinkGoesFirst ==
  ASSUME CInv, EndInv, BoundInv, calls # <<>>, NEW u, up' = [up EXCEPT ![on] = u], on' = on,
         NEW cs \in Seq(Functions), ~Occurs({"detach_tr_source"}, cs), calls' = cs \o Tail(calls),
         u.snk => U.snk /\ calls[1] # "detach_tr_sink"
  PROVE  SinkGone'
  <1>1. on \in Conns /\ up \in [Conns -> IdleStream] /\ calls \in Seq(Functions)
    BY DEF CInv, Control, EndInv, StreamTypes
  <1>2. U' = u
    BY <1>1 DEF U
  <1>3. SUFFICES ASSUME u.snk
                 PROVE  Preceded("detach_tr_source", "detach_tr_sink", calls')
    BY <1>2 DEF SinkGone
  <1>4. PICK P : P = Functions \ {"detach_tr_source"}
    OBVIOUS
  <1>5. cs \in Seq(P) /\ P \subseteq Functions /\ "detach_tr_source" \notin P
    <2>1. \A k \in 1 .. Len(cs) : cs[k] \in P
      BY <1>4 DEF Occurs
    <2> QED
      BY <1>4, <2>1
  <1>6. Preceded("detach_tr_source", "detach_tr_sink", calls)
    BY <1>3 DEF BoundInv, SinkGone
  <1>7. PICK b : b = cs \o Tail(calls)
    OBVIOUS
  <1>8. Preceded("detach_tr_source", "detach_tr_sink", b)
    BY <1>1, <1>3, <1>5, <1>6, <1>7, PrecededPushed
  <1> QED
    BY <1>7, <1>8

\* A function that keeps the poller.
LEMMA LocalBounds ==
  ASSUME CInv, EndInv, BoundInv, calls # <<>>,
         NEW s, NEW u, NEW d, NEW cs \in Seq(Functions), Local(s, u, d, cs), UNCHANGED poller,
         Sending', \A x \in Conns : peer[x].rst => peer'[x].rst,
         ~Occurs({"detach_tr_source"}, cs), u.snk => U.snk /\ calls[1] # "detach_tr_sink",
         Sized(s, u, d, peer'[on], cs \o Tail(calls)),
         Parted(s, u, d, peer'[on], Unplugged(on), cs \o Tail(calls))
  PROVE  BoundInv'
  <1>1. sock' = [sock EXCEPT ![on] = s] /\ up' = [up EXCEPT ![on] = u] /\ down' = [down EXCEPT ![on] = d]
        /\ UNCHANGED <<on, live, at, hupped, reg>> /\ calls' = cs \o Tail(calls)
    BY DEF Local, Call, loop, poller
  <1>2. SinkGone'
    BY <1>1, SinkGoesFirst
  <1>3. \A x : Unplugged(x)' <=> Unplugged(x)
    BY <1>1 DEF Unplugged
  <1>4. Parted(s, u, d, peer'[on], Unplugged(on)', calls')
    BY <1>1, <1>3, CutLater
  <1>5. Sized(s, u, d, peer'[on], calls')
    BY <1>1
  <1> QED
    BY <1>1, <1>2, <1>3, <1>4, <1>5, EffectBounds

\* A connection that receives no more keeps its bounds, whatever is taken from its streams.
LEMMA CutBounds ==
  ASSUME NEW r, NEW v, NEW e, NEW p, NEW a, Sized(r, v, e, p, a), Lines(v) <= MaxLines + 1,
         NEW s, NEW u, NEW d, NEW q, NEW cs, Cut(s, q),
         Lines(u) = Lines(v), Lines(d) = Lines(e), Empty(d) <=> Empty(e),
         u.snk => v.snk, (d.full <=> e.full) \/ ~u.snk, Top("tr_consume", cs) => u.snk
  PROVE  Sized(s, u, d, q, cs)
  <1>1. Empty(d) \/ d.full \/ ~u.snk \/ Lines(u) + Lines(d) <= 2 * MaxLines + 1
    BY DEF Sized
  <1>2. Lines(d) <= 2 * MaxLines + 1
    BY DEF Sized
  <1> QED
    BY <1>1, <1>2 DEF Sized

\* What is asked of one that receives no more.
LEMMA CutParts ==
  ASSUME NEW s, NEW u, NEW d, NEW q, NEW m, NEW cs, ~s.rd, ~d.snk => d.fin
  PROVE  Parted(s, u, d, q, m, cs)
  BY DEF Parted, Cut

\* A function that neither takes nor sends lines keeps the bounds.
LEMMA StillBounds ==
  ASSUME NEW r, NEW v, NEW e, NEW p, NEW a, Sized(r, v, e, p, a), ~Top("tr_consume", a), ~Top("on_tx", a),
         NEW s, NEW u, NEW d, NEW q, NEW cs, Cut(r, p) => Cut(s, q),
         Lines(u) = Lines(v), Lines(d) = Lines(e), Empty(d) <=> Empty(e),
         u.snk => v.snk, Blocks(e) <=> Blocks(d),
         u.full \/ ~v.full \/ ~Blocks(d),
         Top("tr_consume", cs) => u.snk, ~Top("on_tx", cs)
  PROVE  Sized(s, u, d, q, cs)
  <1>1. Lines(u) <= MaxLines + 1
    BY DEF Sized
  <1>2. Lines(d) <= 2 * MaxLines + 1
    BY DEF Sized
  <1>3. Empty(d) \/ d.full \/ ((~u.snk \/ Lines(u) + Lines(d) <= 2 * MaxLines + 1) /\ Cut(s, q))
    BY DEF Sized, Blocks
  <1>4. u.full \/ Lines(u) <= 1 \/ Cut(s, q) \/ ~Blocks(d)
    BY DEF Sized
  <1> QED
    BY <1>1, <1>2, <1>3, <1>4 DEF Sized

\* What is asked of the calls that are made.
LEMMA StillParts ==
  ASSUME NEW r, NEW v, NEW e, NEW p, NEW m, NEW a, Parted(r, v, e, p, m, a),
         NEW s, NEW u, NEW d, NEW q, NEW cs, Cut(r, p) => Cut(s, q), ~s.rd \/ r.rd,
         Occurs(Flowing, cs) /\ ~d.snk => Occurs(Flowing, a) /\ ~e.snk,
         ~d.snk => d.fin, e.fin => d.fin,
         Occurs({"detach_tx"}, cs) => Occurs({"detach_tx"}, a) \/ d.fin \/ ~s.rd,
         u.fin => v.fin, d.fin => e.fin \/ Cut(s, q),
         v.fin /\ Occurs({"on_rx_end"}, a) => u.fin /\ Occurs({"on_rx_end"}, cs)
  PROVE  Parted(s, u, d, q, m, cs)
  BY DEF Parted, Cut

\* The places of the flowing calls.
LEMMA FlowingInner == Flowing \subseteq Inner
  BY DEF Flowing, Inner

\* What calls that are made do to those that the invariant speaks of.
LEMMA BoundCalls ==
  ASSUME CInv, EndInv, AttendInv, BoundInv, calls # <<>>, NEW cs \in Seq(Functions)
  PROVE  /\ First(Inner, cs) => /\ Top("on_tx", cs \o Tail(calls)) <=> Top("on_tx", cs)
                                /\ Top("tr_consume", cs \o Tail(calls)) <=> Top("tr_consume", cs)
         /\ \A X : Occurs(X, cs \o Tail(calls)) <=> Occurs(X, cs) \/ Occurs(X, Tail(calls))
         /\ Occurs(Flowing, cs \o Tail(calls)) <=> Occurs(Flowing, cs)
  <1>1. \A X : Occurs(X, cs \o Tail(calls)) <=> Occurs(X, cs) \/ Occurs(X, Tail(calls))
    <2>1. calls \in Seq(Functions)
      BY HasBegun
    <2>2. PICK b : b = cs \o Tail(calls)
      OBVIOUS
    <2>3. \A X : Occurs(X, b) <=> Occurs(X, cs) \/ Occurs(X, Tail(calls))
      BY <2>1, <2>2, OccursSplit
    <2> QED
      BY <2>2, <2>3
  <1>2. ~Occurs(Inner, Tail(calls))
    BY Bounds
  <1>3. ~Occurs(Flowing, Tail(calls))
    BY <1>2, FlowingInner DEF Occurs
  <1>4. First(Inner, cs) => /\ Top("on_tx", cs \o Tail(calls)) <=> Top("on_tx", cs)
                            /\ Top("tr_consume", cs \o Tail(calls)) <=> Top("tr_consume", cs)
    BY Marked
  <1> QED
    BY <1>1, <1>3, <1>4

\* The peers are as they were.
LEMMA SendingStays ==
  ASSUME BoundInv, UNCHANGED peer
  PROVE  Sending' /\ \A x \in Conns : peer[x].rst => peer'[x].rst
  BY DEF BoundInv, Sending

\* A function after which nothing more is received, and which keeps the poller.
LEMMA CutLocal ==
  ASSUME CInv, EndInv, AttendInv, BoundInv, calls # <<>>, UNCHANGED <<peer, poller>>,
         NEW s, NEW u \in IdleStream, NEW d \in IdleStream, NEW cs \in Seq(Functions), Local(s, u, d, cs), ~s.rd,
         Lines(U) <= MaxLines + 1, First(Inner, cs),
         u.buf = U.buf, d.buf = D.buf, (d.full <=> D.full) \/ ~u.snk,
         ~d.snk => d.fin, Top("tr_consume", cs) => u.snk,
         ~Occurs({"detach_tr_source"}, cs), u.snk => U.snk /\ calls[1] # "detach_tr_sink"
  PROVE  BoundInv'
  <1>1. U \in IdleStream /\ D \in IdleStream
    BY HasBegun
  <1>2. Lines(u) = Lines(U) /\ Lines(d) = Lines(D) /\ (Empty(d) <=> Empty(D))
    BY <1>1, LinesSame
  <1>3. Sized(S, U, D, peer[on], calls)
    BY Bounds
  <1>4. PICK b : b = cs \o Tail(calls)
    OBVIOUS
  <1>5. Top("tr_consume", b) => u.snk
    BY <1>4, BoundCalls
  <1>6. Cut(s, peer[on])
    BY DEF Cut
  <1>7. Sized(s, u, d, peer[on], b)
    BY <1>2, <1>3, <1>5, <1>6, CutBounds
  <1>8. Parted(s, u, d, peer[on], Unplugged(on), b)
    BY CutParts
  <1>9. UNCHANGED peer /\ UNCHANGED poller
    OBVIOUS
  <1>10. Sending' /\ \A x \in Conns : peer[x].rst => peer'[x].rst
    BY <1>9, SendingStays
  <1> QED
    BY <1>4, <1>7, <1>8, <1>9, <1>10, LocalBounds

\* The code that runs only when nothing more is received.
LEMMA CutRuns ==
  ASSUME CInv, EndInv, AttendInv, BoundInv, calls # <<>>, calls[1] \in Undoing \cup {"detach_rx", "rx_detached"}
  PROVE  /\ ~S.rd /\ Lines(U) <= MaxLines + 1 /\ (~D.snk => D.fin)
         /\ S \in Sock /\ U \in IdleStream /\ D \in IdleStream /\ U.state = 0 /\ D.state = 0
         /\ (U.snk => calls[1] # "detach_tr_source")
         /\ calls \in Seq(Functions)
  <1>1. S \in Sock /\ U \in IdleStream /\ D \in IdleStream /\ calls \in Seq(Functions) /\ (~S.fd => ~S.rd)
    BY HasBegun
  <1>2. U.state = 0 /\ D.state = 0
    BY <1>1, StreamSet
  <1>3. ~S.rd
    <2>1. CASE calls[1] \in Undoing
      BY <2>1, <1>1, Attends
    <2>2. CASE calls[1] \in {"detach_rx", "rx_detached"}
      <3>1. Occurs({"detach_rx", "rx_detached"}, calls)
        BY <2>2, Attends
      <3> QED
        BY <3>1, Attends
    <2> QED
      BY <2>1, <2>2
  <1>4. Lines(U) <= MaxLines + 1
    <2>1. calls[1] # "tr_consume"
      BY DEF Undoing, Leavings, Endings
    <2> QED
      BY <2>1, Bounds DEF Sized
  <1>5. ~D.snk => D.fin
    BY Bounds DEF Parted
  <1>6. U.snk => calls[1] # "detach_tr_source"
    <2>1. SUFFICES ASSUME U.snk, calls[1] = "detach_tr_source"
                   PROVE  FALSE
      OBVIOUS
    <2>2. Preceded("detach_tr_source", "detach_tr_sink", calls)
      BY <2>1 DEF BoundInv, SinkGone
    <2>3. 1 \in 1 .. Len(calls)
      BY <1>1
    <2> QED
      BY <2>1, <2>2, <2>3 DEF Preceded
  <1> QED
    BY <1>1, <1>2, <1>3, <1>4, <1>5, <1>6

\* aem_stream_source_detach on behalf of rx, up to the call of consume and after it.
LEMMA DetachRxBounds ==
  ASSUME CInv, EndInv, AttendInv, BoundInv, DetachRx \/ RxDetached
  PROVE  BoundInv'
  <1>1. calls # <<>> /\ calls[1] \in {"detach_rx", "rx_detached"}
    BY DEF DetachRx, RxDetached, Calling
  <1>2. /\ ~S.rd /\ Lines(U) <= MaxLines + 1 /\ (~D.snk => D.fin)
        /\ S \in Sock /\ U \in IdleStream /\ D \in IdleStream /\ U.state = 0
    BY <1>1, CutRuns
  <1>3. UNCHANGED <<peer, poller>>
    BY <1>2 DEF DetachRx, RxDetached, Quiet
  <1>4. <<>> \in Seq(Functions) /\ First(Inner, <<>>) /\ (\A X : ~Occurs(X, <<>>)) /\ ~Top("tr_consume", <<>>)
    BY CallForms
  <1>5. CASE DetachRx /\ U.src
    <2>1. PICK u : u = Finished(U)
      OBVIOUS
    <2>2. u \in IdleStream /\ u.buf = U.buf /\ u.snk = U.snk
      BY <2>1, <1>2, StreamSet
    <2>3. PICK cs : cs = ConsumeUp \o <<"rx_detached">>
      OBVIOUS
    <2>4. cs \in Seq(Functions) /\ First(Inner, cs) /\ ~Occurs({"detach_tr_source"}, cs) /\ (Top("tr_consume", cs) => U.snk)
      <3>1. "rx_detached" \in Functions /\ "rx_detached" \notin Inner /\ "tr_consume" \in Inner
        BY DEF Functions, Lasting, Plain, Inner
      <3> QED
        BY <3>1, <2>3, ConsumeForms
    <2>5. Local(S, u, D, cs)
      BY <1>5, <2>1, <2>3 DEF DetachRx
    <2> QED
      BY <1>1, <1>2, <1>3, <2>2, <2>4, <2>5, CutLocal
  <1>6. CASE DetachRx /\ ~U.src
    <2>1. Local(S, U, D, <<>>)
      BY <1>6 DEF DetachRx
    <2> QED
      BY <1>1, <1>2, <1>3, <1>4, <2>1, CutLocal
  <1>7. CASE RxDetached
    <2>1. PICK u : u = Sourceless(U)
      OBVIOUS
    <2>2. u \in IdleStream /\ u.buf = U.buf /\ u.snk = U.snk
      BY <2>1, <1>2, StreamSet
    <2>3. Local(S, u, D, <<>>)
      BY <1>2, <1>7, <2>1 DEF RxDetached
    <2> QED
      BY <1>1, <1>2, <1>3, <1>4, <2>2, <2>3, CutLocal
  <1> QED
    BY <1>5, <1>6, <1>7

\* A stream that has just lost its sink.
LEMMA SinkIsGone == \A t \in IdleStream : ~Sinkless(t).snk
  BY DEF Sinkless, IdleStream

\* Taking the transducer out of its streams, its close, and call_rcu.
LEMMA UndoBounds ==
  ASSUME CInv, FreeOnce, EndInv, AttendInv, BoundInv,
         DetachTrSink \/ DetachTrSource \/ TrSourceDetached \/ TrClose \/ Closed \/ CallRcu
  PROVE  BoundInv'
  <1>1. /\ calls # <<>>
        /\ calls[1] \in {"detach_tr_sink", "detach_tr_source", "tr_source_detached", "tr_close", "closed", "call_rcu"}
    BY DEF DetachTrSink, DetachTrSource, TrSourceDetached, TrClose, Closed, CallRcu, Calling
  <1>2. calls[1] \in Undoing
    BY <1>1 DEF Undoing, Leavings
  <1>3. /\ ~S.rd /\ Lines(U) <= MaxLines + 1 /\ (~D.snk => D.fin)
        /\ S \in Sock /\ U \in IdleStream /\ D \in IdleStream /\ U.state = 0 /\ D.state = 0
        /\ U.snk => calls[1] # "detach_tr_source"
    BY <1>1, <1>2, CutRuns
  <1>4. <<>> \in Seq(Functions) /\ First(Inner, <<>>) /\ (\A X : ~Occurs(X, <<>>)) /\ ~Top("tr_consume", <<>>)
    BY CallForms
  <1>5. ~InQueue(on) \/ calls[1] # "call_rcu"
    <2>1. "call_rcu" \in Leavings
      BY DEF Leavings
    <2>2. calls[1] = "call_rcu" => Occurs(Leavings, calls)
      BY <2>1, <1>1, Attends
    <2> QED
      BY <2>2 DEF FreeOnce, Leaves
  <1>6. ASSUME calls[1] # "detach_tr_sink", Local(S, U, D, <<>>), UNCHANGED <<peer, poller>>
        PROVE  BoundInv'
    BY <1>1, <1>3, <1>4, <1>6, CutLocal
  <1>7. ASSUME NEW d \in IdleStream, NEW cs \in Seq(Functions), Local(S, U, d, cs), UNCHANGED <<peer, poller>>,
               ~U.snk, d.buf = D.buf, d.fin, First(Inner, cs), ~Top("tr_consume", cs), ~Occurs({"detach_tr_source"}, cs)
        PROVE  BoundInv'
    <2>1. calls # <<>> /\ U \in IdleStream /\ ~S.rd /\ Lines(U) <= MaxLines + 1
      BY <1>1, <1>3
    <2> QED
      BY <2>1, <1>7, CutLocal
  <1>8. CASE DetachTrSink
    <2>1. PICK u : u = IF U.snk THEN Sinkless(U) ELSE U
      OBVIOUS
    <2>2. u \in IdleStream /\ u.buf = U.buf /\ ~u.snk
      <3>1. CASE U.snk
        <4>1. u = Sinkless(U)
          BY <3>1, <2>1
        <4> QED
          BY <4>1, <1>3, StreamSet, SinkIsGone
      <3>2. CASE ~U.snk
        BY <3>2, <2>1, <1>3
      <3> QED
        BY <3>1, <3>2
    <2>3. Local(S, u, D, <<>>) /\ UNCHANGED <<peer, poller>>
      BY <2>1, <1>3, <1>8 DEF DetachTrSink, Quiet
    <2> QED
      BY <1>1, <1>3, <1>4, <2>2, <2>3, CutLocal
  <1>9. CASE DetachTrSource
    <2>1. UNCHANGED <<peer, poller>>
      BY <1>9 DEF DetachTrSource, Quiet
    <2>2. calls[1] = "detach_tr_source"
      BY <1>9 DEF DetachTrSource, Calling
    <2>3. CASE D.src
      <3>1. PICK d : d = Finished(D)
        OBVIOUS
      <3>2. d \in IdleStream /\ d.buf = D.buf /\ d.fin
        BY <3>1, <1>3, StreamSet, StreamFlags
      <3>3. PICK cs : cs = ConsumeDown \o <<"tr_source_detached">>
        OBVIOUS
      <3>4. cs \in Seq(Functions) /\ First(Inner, cs) /\ ~Occurs({"detach_tr_source"}, cs) /\ ~Top("tr_consume", cs)
        <4>1. "tr_source_detached" \in Functions /\ "tr_source_detached" \notin Inner /\ "tr_consume" \in Inner
          BY DEF Functions, Lasting, Plain, Inner
        <4>2. cs \in Seq(Functions) /\ First(Inner, cs)
          BY <4>1, <3>3, ConsumeForms
        <4>3. ~Top("tr_consume", cs)
          BY <4>1, <3>3, ConsumeForms
        <4>4. \A X : Occurs(X, cs) => "on_tx" \in X \/ "tr_source_detached" \in X
          BY <4>1, <3>3, ConsumeForms
        <4> QED
          BY <4>2, <4>3, <4>4
      <3>5. Local(S, U, d, cs)
        BY <1>9, <2>3, <3>1, <3>3 DEF DetachTrSource
      <3>6. ~U.snk
        BY <1>3, <2>2
      <3> QED
        BY <2>1, <3>2, <3>4, <3>5, <3>6, <1>7
    <2>4. CASE ~D.src
      <3>1. Local(S, U, D, <<>>)
        BY <1>9, <2>4 DEF DetachTrSource
      <3> QED
        BY <2>1, <2>2, <3>1, <1>6
    <2> QED
      BY <2>3, <2>4
  <1>10. CASE TrSourceDetached
    <2>1. PICK d : d = Sourceless(D)
      OBVIOUS
    <2>2. d \in IdleStream /\ d.buf = D.buf /\ d.snk = D.snk /\ d.fin = D.fin /\ d.full = D.full
      BY <2>1, <1>3, StreamSet, StreamFlags
    <2>3. Local(S, U, d, <<>>) /\ UNCHANGED <<peer, poller>> /\ calls[1] # "detach_tr_sink"
      BY <2>1, <1>3, <1>10 DEF TrSourceDetached, Quiet, Calling
    <2> QED
      BY <1>1, <1>3, <1>4, <2>2, <2>3, CutLocal
  <1>11. CASE TrClose
    <2>1. ~trClose[on]
      BY <1>1, HasBegun DEF FreeOnce
    <2>2. Local(S, U, D, <<>>) /\ UNCHANGED <<peer, poller>> /\ calls[1] # "detach_tr_sink"
      BY <1>11, <2>1 DEF TrClose, If, Calling
    <2> QED
      BY <2>2, <1>6
  <1>12. CASE Closed
    <2>1. PICK s : s = [S EXCEPT !.onClose = FALSE]
      OBVIOUS
    <2>2. ~s.rd
      BY <1>3, <2>1, SockSides
    <2>3. Local(s, U, D, <<>>) /\ UNCHANGED <<peer, poller>> /\ calls[1] # "detach_tr_sink"
      BY <1>12, <2>1 DEF Closed, Quiet, Calling
    <2> QED
      BY <1>1, <1>3, <1>4, <2>2, <2>3, CutLocal
  <1>13. CASE CallRcu
    <2>1. Local(S, U, D, <<>>) /\ UNCHANGED <<peer, poller>> /\ calls[1] # "detach_tr_sink"
      BY <1>5, <1>13 DEF CallRcu, Calling
    <2> QED
      BY <2>1, <1>6
  <1> QED
    BY <1>8, <1>9, <1>10, <1>11, <1>12, <1>13

\* The destructor goes on to its end.
LEMMA ConnDtorBounds ==
  ASSUME CInv, EndInv, AttendInv, BoundInv, ConnDtor
  PROVE  BoundInv'
  <1>1. calls # <<>> /\ calls[1] = "conn_dtor"
    BY DEF ConnDtor, Calling
  <1>2. calls[1] \in Undoing
    BY <1>1 DEF Undoing, Leavings, Endings
  <1>3. /\ ~S.rd /\ Lines(U) <= MaxLines + 1 /\ (~D.snk => D.fin)
        /\ S \in Sock /\ U \in IdleStream /\ D \in IdleStream
    BY <1>1, <1>2, CutRuns
  <1>4. PICK cs : cs = <<"detach_rx", "detach_tx", "sock_close", "free">>
    OBVIOUS
  <1>5. cs \in Seq(Functions) /\ First(Inner, cs) /\ ~Occurs({"detach_tr_source"}, cs) /\ ~Top("tr_consume", cs)
    <2>1. cs \in Seq(Functions)
      BY <1>4 DEF Functions, Lasting, Plain, Endings
    <2>2. First(Inner, cs)
      BY <1>4 DEF First, Inner
    <2>3. ~Occurs({"detach_tr_source"}, cs) /\ ~Top("tr_consume", cs)
      BY <1>4 DEF Occurs, Top
    <2> QED
      BY <2>1, <2>2, <2>3
  <1>6. PICK u : u = IF U.src THEN Fin(U) ELSE U
    OBVIOUS
  <1>7. u \in IdleStream /\ u.buf = U.buf /\ u.snk = U.snk
    BY <1>3, <1>6, StreamSet
  <1>8. PICK d : d = IF D.snk THEN Fin(D) ELSE D
    OBVIOUS
  <1>9. d \in IdleStream /\ d.buf = D.buf /\ d.full = D.full /\ d.snk = D.snk /\ (D.fin => d.fin)
    BY <1>3, <1>8, StreamSet, StreamFlags
  <1>10. Local(S, u, d, cs) /\ UNCHANGED <<peer, poller>>
    BY <1>4, <1>6, <1>8 DEF ConnDtor, Quiet
  <1> QED
    BY <1>1, <1>3, <1>5, <1>7, <1>9, <1>10, CutLocal

\* A function that neither takes nor sends lines, and keeps the poller.
LEMMA StillLocal ==
  ASSUME CInv, EndInv, AttendInv, BoundInv, calls # <<>>, calls[1] \notin {"tr_consume", "on_tx"},
         UNCHANGED <<peer, poller>>,
         NEW s, NEW u \in IdleStream, NEW d \in IdleStream, NEW cs \in Seq(Functions), Local(s, u, d, cs), s.rd = S.rd,
         u.buf = U.buf, d.buf = D.buf, u.snk = U.snk, u.fin = U.fin, Blocks(d) <=> Blocks(D),
         u.full \/ ~U.full \/ ~Blocks(d),
         First(Inner, cs), Top("tr_consume", cs) => u.snk, ~Top("on_tx", cs),
         Occurs(Flowing, cs) /\ ~d.snk => ~D.snk /\ calls[1] \in Flowing,
         ~Occurs({"detach_tx", "detach_tr_source"}, cs), u.snk => calls[1] # "detach_tr_sink",
         D.fin => d.fin, d.fin => D.fin \/ ~s.rd, ~d.snk => d.fin,
         U.fin => calls[1] # "on_rx_end"
  PROVE  BoundInv'
  <1>1. /\ U \in IdleStream /\ D \in IdleStream
        /\ Sized(S, U, D, peer[on], calls) /\ Parted(S, U, D, peer[on], Unplugged(on), calls)
        /\ \A X : Occurs(X, calls) <=> calls[1] \in X \/ Occurs(X, Tail(calls))
        /\ \A f : Top(f, calls) <=> calls[1] = f
    BY HasBegun, Bounds
  <1>2. Lines(u) = Lines(U) /\ Lines(d) = Lines(D) /\ (Empty(d) <=> Empty(D))
    BY <1>1, LinesSame
  <1>3. PICK b : b = cs \o Tail(calls)
    OBVIOUS
  <1>4. /\ Top("tr_consume", b) => u.snk
        /\ ~Top("on_tx", b)
        /\ \A X : Occurs(X, b) <=> Occurs(X, cs) \/ Occurs(X, Tail(calls))
        /\ Occurs(Flowing, b) <=> Occurs(Flowing, cs)
    BY <1>3, BoundCalls
  <1>5. Cut(S, peer[on]) => Cut(s, peer[on])
    BY DEF Cut
  <1>6. ~Top("tr_consume", calls) /\ ~Top("on_tx", calls)
    BY <1>1
  <1>7. Sized(s, u, d, peer[on], b)
    BY <1>1, <1>2, <1>4, <1>5, <1>6, StillBounds
  <1>8. ~Occurs({"detach_tx"}, cs) /\ ~Occurs({"detach_tr_source"}, cs)
    BY DEF Occurs
  <1>9. Occurs({"detach_tx"}, b) => Occurs({"detach_tx"}, calls)
    BY <1>1, <1>4, <1>8
  <1>10. U.fin /\ Occurs({"on_rx_end"}, calls) => Occurs({"on_rx_end"}, b)
    BY <1>1, <1>4
  <1>11. Occurs(Flowing, b) /\ ~d.snk => Occurs(Flowing, calls) /\ ~D.snk
    BY <1>1, <1>4
  <1>12. d.fin => D.fin \/ Cut(s, peer[on])
    BY DEF Cut
  <1>13. Parted(s, u, d, peer[on], Unplugged(on), b)
    BY <1>1, <1>5, <1>9, <1>10, <1>11, <1>12, StillParts
  <1>14. UNCHANGED peer /\ UNCHANGED poller
    OBVIOUS
  <1>15. Sending' /\ \A x \in Conns : peer[x].rst => peer'[x].rst
    BY <1>14, SendingStays
  <1> QED
    BY <1>3, <1>7, <1>8, <1>13, <1>14, <1>15, LocalBounds

\* aem_stream_sink_detach on behalf of tx: tx has sent the last lines.
LEMMA DetachTxBounds ==
  ASSUME CInv, EndInv, AttendInv, BoundInv, DetachTx
  PROVE  BoundInv'
  <1>1. calls # <<>> /\ calls[1] = "detach_tx"
    BY DEF DetachTx, Calling
  <1>2. S \in Sock /\ U \in IdleStream /\ D \in IdleStream
    BY <1>1, HasBegun
  <1>3. D.state = 0
    BY <1>2, StreamSet
  <1>4. PICK d : d = IF D.snk THEN Sinkless(D) ELSE D
    OBVIOUS
  <1>5. d \in IdleStream /\ d.buf = D.buf /\ d.full = D.full /\ (d.fin <=> D.fin \/ D.snk)
    BY <1>2, <1>4, StreamSet, StreamFlags
  <1>6. Local(S, U, d, <<>>) /\ UNCHANGED <<peer, poller>>
    BY <1>3, <1>4 DEF DetachTx, Quiet
  <1>7. D.fin \/ ~S.rd
    <2>1. Occurs({"detach_tx"}, calls)
      BY <1>1, Bounds
    <2> QED
      BY <2>1, <1>1, Bounds DEF Parted
  <1>8. ~D.snk => D.fin
    BY <1>1, Bounds DEF Parted
  <1>9. Blocks(d) <=> Blocks(D)
    BY <1>2, <1>5, LinesSame DEF Blocks
  <1>10. /\ <<>> \in Seq(Functions) /\ First(Inner, <<>>) /\ (\A X : ~Occurs(X, <<>>))
         /\ ~Top("tr_consume", <<>>) /\ ~Top("on_tx", <<>>)
    BY CallForms
  <1> QED
    BY <1>1, <1>2, <1>5, <1>6, <1>7, <1>8, <1>9, <1>10, StillLocal

\* aem_net_flow_rx and aem_net_flow_tx.
LEMMA FlowBounds ==
  ASSUME CInv, EndInv, AttendInv, BoundInv, FlowRx \/ FlowTx
  PROVE  BoundInv'
  <1>1. calls # <<>> /\ calls[1] \in {"flow_rx", "flow_tx"}
    BY DEF FlowRx, FlowTx, Calling
  <1>2. S \in Sock /\ U \in IdleStream /\ D \in IdleStream
    BY <1>1, HasBegun
  <1>3. UNCHANGED <<peer, poller>>
    BY DEF FlowRx, FlowTx, Quiet
  <1>4. ~D.snk => D.fin
    BY <1>1, Bounds DEF Parted
  <1>5. ASSUME NEW s, s.rd = S.rd, NEW cs \in Seq(Functions), Local(s, U, D, cs),
               First(Inner, cs), ~Top("tr_consume", cs), ~Top("on_tx", cs),
               Occurs(Flowing, cs) /\ ~D.snk => calls[1] \in Flowing,
               ~Occurs({"detach_tx", "detach_tr_source"}, cs)
        PROVE  BoundInv'
    BY <1>1, <1>2, <1>3, <1>4, <1>5, StillLocal
  <1>6. /\ <<>> \in Seq(Functions) /\ First(Inner, <<>>) /\ (\A X : ~Occurs(X, <<>>))
        /\ ~Top("tr_consume", <<>>) /\ ~Top("on_tx", <<>>)
    BY CallForms
  <1>7. /\ \A b \in SUBSET Bits : Ignore(S, b).rd = S.rd
        /\ {"IN"} \in SUBSET Bits /\ {"OUT"} \in SUBSET Bits
    BY <1>2, SockSet DEF Bits
  <1>8. ASSUME NEW f \in {"on_rx", "tr_provide"}
        PROVE  /\ <<f>> \in Seq(Functions) /\ First(Inner, <<f>>)
               /\ ~Top("tr_consume", <<f>>) /\ ~Top("on_tx", <<f>>)
               /\ ~Occurs({"detach_tx", "detach_tr_source"}, <<f>>)
    <2>1. f \in Functions
      BY <1>8 DEF Functions, Lasting, Plain
    <2>2. PICK c : c = <<f>>
      OBVIOUS
    <2>3. c \in Seq(Functions)
      BY <2>1, <2>2
    <2>4. First(Inner, c) /\ (\A X : Occurs(X, c) <=> f \in X) /\ \A h : Top(h, c) <=> f = h
      BY <2>2, CallForms
    <2>5. ~Top("tr_consume", c) /\ ~Top("on_tx", c) /\ ~Occurs({"detach_tx", "detach_tr_source"}, c)
      BY <1>8, <2>4
    <2> QED
      BY <2>2, <2>3, <2>4, <2>5
  <1>9. CASE FlowRx
    <2>1. calls[1] \in Flowing
      BY <1>9 DEF FlowRx, Calling, Flowing
    <2>2. CASE U.src
      <3>1. Local(S, U, D, <<"on_rx">>)
        BY <1>9, <2>2 DEF FlowRx
      <3> QED
        BY <3>1, <2>1, <1>5, <1>8
    <2>3. CASE ~U.src
      <3>1. PICK s : s = Ignore(S, {"IN"})
        OBVIOUS
      <3>2. Local(s, U, D, <<>>)
        BY <1>9, <2>3, <3>1 DEF FlowRx
      <3>3. s.rd = S.rd
        BY <3>1, <1>7
      <3> QED
        BY <3>2, <3>3, <1>5, <1>6
    <2> QED
      BY <2>2, <2>3
  <1>10. CASE FlowTx
    <2>1. CASE D.snk /\ D.src
      <3>1. Local(S, U, D, <<"tr_provide">>)
        BY <1>10, <2>1 DEF FlowTx, If
      <3> QED
        BY <3>1, <2>1, <1>5, <1>8
    <2>2. CASE D.snk /\ ~D.src
      <3>1. Local(S, U, D, <<>>)
        BY <1>10, <2>2 DEF FlowTx, If
      <3> QED
        BY <3>1, <1>5, <1>6
    <2>3. CASE ~D.snk
      <3>1. PICK s : s = Ignore(S, {"OUT"})
        OBVIOUS
      <3>2. Local(s, U, D, <<>>)
        BY <1>10, <2>3, <3>1 DEF FlowTx
      <3>3. s.rd = S.rd
        BY <3>1, <1>7
      <3> QED
        BY <3>2, <3>3, <1>5, <1>6
    <2> QED
      BY <2>1, <2>2, <2>3
  <1> QED
    BY <1>9, <1>10

\* aem_net_on_rx_end: the input has ended.
LEMMA OnRxEndBounds ==
  ASSUME CInv, EndInv, AttendInv, BoundInv, OnRxEnd
  PROVE  BoundInv'
  <1>1. calls # <<>> /\ calls[1] = "on_rx_end"
    BY DEF OnRxEnd, Calling
  <1>2. S \in Sock /\ U \in IdleStream /\ D \in IdleStream
    BY <1>1, HasBegun
  <1>3. UNCHANGED <<peer, poller>>
    BY DEF OnRxEnd, Quiet
  <1>4. (~D.snk => D.fin) /\ Lines(U) <= MaxLines + 1
    BY <1>1, Bounds DEF Parted, Sized
  <1>5. CASE U.fin
    <2>1. PICK i : i = Ignore(S, {"IN", "RDHUP"})
      OBVIOUS
    <2>2. i \in Sock
      BY <1>2, <2>1, SockSet DEF Bits
    <2>3. PICK o, s : o = FALSE /\ s = [i EXCEPT !.rd = o]
      OBVIOUS
    <2>4. ~s.rd
      BY <2>2, <2>3, SockSides
    <2>5. PICK cs : cs = <<"detach_rx", "close_if_done">>
      OBVIOUS
    <2>6. "detach_rx" \in Functions /\ "close_if_done" \in Functions /\ "close_if_done" \notin Inner
      BY DEF Functions, Lasting, Plain, Inner
    <2>7. cs \in Seq(Functions)
      BY <2>5, <2>6
    <2>8. First(Inner, cs) /\ ~Occurs({"detach_tr_source"}, cs) /\ ~Top("tr_consume", cs)
      <3>1. /\ First(Inner, cs)
            /\ \A X : Occurs(X, cs) <=> "detach_rx" \in X \/ "close_if_done" \in X
            /\ \A h : Top(h, cs) <=> "detach_rx" = h
        BY <2>5, <2>6, CallForms
      <3> QED
        BY <3>1
    <2>9. Local(s, U, D, cs)
      BY <1>5, <2>1, <2>3, <2>5 DEF OnRxEnd
    <2> QED
      BY <1>1, <1>2, <1>3, <1>4, <2>4, <2>7, <2>8, <2>9, CutLocal
  <1>6. CASE ~U.fin
    <2>1. /\ <<>> \in Seq(Functions) /\ First(Inner, <<>>) /\ (\A X : ~Occurs(X, <<>>))
          /\ ~Top("tr_consume", <<>>) /\ ~Top("on_tx", <<>>)
      BY CallForms
    <2>2. Local(S, U, D, <<>>)
      BY <1>6 DEF OnRxEnd
    <2> QED
      BY <1>1, <1>2, <1>3, <1>4, <1>6, <2>1, <2>2, StillLocal
  <1> QED
    BY <1>5, <1>6

\* aem_net_close_if_done.
LEMMA CloseIfDoneBounds ==
  ASSUME CInv, EndInv, AttendInv, BoundInv, CloseIfDone
  PROVE  BoundInv'
  <1>1. calls # <<>> /\ calls[1] = "close_if_done"
    BY DEF CloseIfDone, Calling
  <1>2. S \in Sock /\ U \in IdleStream /\ D \in IdleStream
    BY <1>1, HasBegun
  <1>3. UNCHANGED <<peer, poller>>
    BY DEF CloseIfDone, Quiet
  <1>4. ~D.snk => D.fin
    BY <1>1, Bounds DEF Parted
  <1>5. PICK cs : cs = If(Done(S), <<"sock_close">>)
    OBVIOUS
  <1>6. Local(S, U, D, cs)
    BY <1>5 DEF CloseIfDone
  <1>7. /\ cs \in Seq(Functions) /\ First(Inner, cs) /\ ~Occurs(Flowing, cs)
        /\ ~Occurs({"detach_tx", "detach_tr_source"}, cs)
        /\ ~Top("on_tx", cs) /\ ~Top("tr_consume", cs)
    <2>1. CASE Done(S)
      <3>1. cs = <<"sock_close">>
        BY <1>5, <2>1 DEF If
      <3>2. "sock_close" \in Functions /\ "sock_close" \notin Flowing
        BY DEF Functions, Lasting, Plain, Flowing
      <3>3. cs \in Seq(Functions)
        BY <3>1, <3>2
      <3>4. First(Inner, cs) /\ (\A X : Occurs(X, cs) <=> "sock_close" \in X) /\ \A h : Top(h, cs) <=> "sock_close" = h
        BY <3>1, CallForms
      <3> QED
        BY <3>2, <3>3, <3>4
    <2>2. CASE ~Done(S)
      <3>1. cs = <<>>
        BY <1>5, <2>2 DEF If
      <3> QED
        BY <3>1, CallForms
    <2> QED
      BY <2>1, <2>2
  <1> QED
    BY <1>1, <1>2, <1>3, <1>4, <1>6, <1>7, StillLocal

\* aem_stream_transducer_provide: the stream up is full when the stream down takes no more.
LEMMA TrProvideBounds ==
  ASSUME CInv, EndInv, AttendInv, BoundInv, TrProvide
  PROVE  BoundInv'
  <1>1. calls # <<>> /\ calls[1] = "tr_provide"
    BY DEF TrProvide, Calling
  <1>2. S \in Sock /\ U \in IdleStream /\ D \in IdleStream
    BY <1>1, HasBegun
  <1>3. U.snk
    <2>1. Occurs({"tr_provide"}, calls)
      BY <1>1, Attends
    <2> QED
      BY <2>1 DEF EndInv, Provides
  <1>4. UNCHANGED <<peer, poller>>
    BY <1>3 DEF TrProvide, Quiet
  <1>5. ~D.snk => D.fin
    BY <1>1, Bounds DEF Parted
  <1>6. PICK f : f = ~ShouldProvide(D)
    OBVIOUS
  <1>7. PICK u : u = [U EXCEPT !.full = f]
    OBVIOUS
  <1>8. u \in IdleStream /\ u.snk = U.snk /\ u.buf = U.buf /\ u.fin = U.fin /\ (u.full <=> Blocks(D))
    <2>1. f \in BOOLEAN
      BY <1>6
    <2>2. u \in IdleStream /\ u.snk = U.snk /\ u.buf = U.buf
      BY <2>1, <1>2, <1>7, StreamFilled
    <2>3. u.full = f /\ u.fin = U.fin
      BY <2>1, <1>2, <1>7, FullSet
    <2>4. f <=> Blocks(D)
      BY <1>2, <1>6, StreamFlags DEF Blocks
    <2> QED
      BY <2>2, <2>3, <2>4
  <1>9. PICK d : d = Asked(D)
    OBVIOUS
  <1>10. d \in IdleStream /\ d.snk = D.snk /\ d.buf = D.buf /\ d.fin = D.fin /\ (Blocks(d) <=> Blocks(D))
    BY <1>2, <1>9, StreamSet, StreamFlags DEF Blocks
  <1>11. PICK cs : cs = If(U.src, <<"on_rx">>)
    OBVIOUS
  <1>12. Local(S, u, d, cs)
    BY <1>3, <1>6, <1>7, <1>9, <1>11 DEF TrProvide
  <1>13. /\ cs \in Seq(Functions) /\ First(Inner, cs)
         /\ ~Occurs({"detach_tx", "detach_tr_source"}, cs)
         /\ ~Top("on_tx", cs) /\ ~Top("tr_consume", cs)
    <2>1. CASE U.src
      <3>1. cs = <<"on_rx">>
        BY <1>11, <2>1 DEF If
      <3>2. "on_rx" \in Functions
        BY DEF Functions, Lasting, Plain
      <3>3. cs \in Seq(Functions)
        BY <3>1, <3>2
      <3>4. First(Inner, cs) /\ (\A X : Occurs(X, cs) <=> "on_rx" \in X) /\ \A h : Top(h, cs) <=> "on_rx" = h
        BY <3>1, CallForms
      <3> QED
        BY <3>3, <3>4
    <2>2. CASE ~U.src
      <3>1. cs = <<>>
        BY <1>11, <2>2 DEF If
      <3> QED
        BY <3>1, CallForms
    <2> QED
      BY <2>1, <2>2
  <1>14. calls[1] \in Flowing
    BY <1>1 DEF Flowing
  <1> QED
    BY <1>1, <1>2, <1>4, <1>5, <1>8, <1>10, <1>12, <1>13, <1>14, StillLocal

\* How many lines aem_stream_transducer_consume leaves, and where the others go.
LEMMA CarriedLines ==
  ASSUME NEW u0 \in IdleStream, NEW d0 \in IdleStream, NEW left, NEW u, NEW d, Carried(u0, d0, left, u, d)
  PROVE  Lines(u) = left /\ Lines(d) = Lines(d0) + (Lines(u0) - left)
  <1>1. left \in Nat /\ left <= Lines(u0) /\ u = [u0 EXCEPT !.full = FALSE, !.buf = left]
    BY DEF Carried
  <1>2. PICK o : o = FALSE
    OBVIOUS
  <1>3. u \in IdleStream /\ u.buf = left
    <2>1. left \in Nat /\ o \in BOOLEAN /\ u = [u0 EXCEPT !.full = o, !.buf = left]
      BY <1>1, <1>2
    <2> QED
      BY <2>1, StreamMoved
  <1>4. left # NoBuffer
    BY <1>1 DEF NoBuffer
  <1>5. Lines(u) = left
    BY <1>3, <1>4, LinesOf
  <1>6. Lines(u0) \in Nat /\ Lines(d0) \in Nat
    BY LinesOf
  <1>7. PICK n, m : n = Lines(u0) - left /\ m = Appended(Asked(d0), n)
    OBVIOUS
  <1>8. n \in Nat
    BY <1>1, <1>6, <1>7
  <1>9. PICK a : a = Asked(d0)
    OBVIOUS
  <1>10. a \in IdleStream /\ Lines(a) = Lines(d0)
    <2>1. a \in IdleStream /\ a.buf = d0.buf
      BY <1>9, StreamSet
    <2> QED
      BY <2>1, LinesSame
  <1>11. m \in IdleStream /\ Lines(m) = Lines(a) + n
    <2>1. m \in IdleStream
      BY <1>7, <1>8, <1>9, <1>10, AppendedOK
    <2>2. CASE n = 0
      <3>1. m = a
        BY <2>2, <1>7, <1>9 DEF Appended
      <3> QED
        BY <3>1, <2>2, <1>6, <1>10
    <2>3. CASE n # 0
      <3>1. PICK k : k = Lines(a) + n
        OBVIOUS
      <3>2. k \in Nat /\ k # NoBuffer
        BY <3>1, <1>6, <1>8, <1>10 DEF NoBuffer
      <3>3. m = [a EXCEPT !.buf = k]
        BY <2>3, <3>1, <1>7, <1>9 DEF Appended
      <3>4. m.buf = k
        BY <3>2, <3>3, <1>10, StreamLines
      <3> QED
        BY <2>1, <3>1, <3>2, <3>4, LinesOf
    <2> QED
      BY <2>1, <2>2, <2>3
  <1>12. PICK f : f = (m.fin \/ ((u0.fin \/ d0.fin) /\ left = 0))
    OBVIOUS
  <1>13. f \in BOOLEAN /\ d = [m EXCEPT !.fin = f]
    BY <1>7, <1>12 DEF Carried
  <1>14. d \in IdleStream /\ d.buf = m.buf
    BY <1>11, <1>13, StreamFilled
  <1>15. Lines(d) = Lines(m)
    BY <1>11, <1>14, LinesSame
  <1> QED
    BY <1>5, <1>7, <1>10, <1>11, <1>15

\* What the transducer leaves: at most the beginning of a line, or a stream that is full.
LEMMA ConsumedBounds ==
  ASSUME CInv, EndInv, AttendInv, BoundInv, calls # <<>>, calls[1] = "tr_consume", UNCHANGED <<peer, poller>>,
         NEW u \in IdleStream, NEW d \in IdleStream, u.snk = U.snk, d.snk = D.snk,
         NEW cs, cs = ConsumeDown, Local(S, u, d, cs),
         Lines(u) <= MaxLines + 1, Lines(d) <= 2 * MaxLines + 1,
         u.full \/ Lines(u) <= 1,
         Empty(d) \/ d.full \/ Lines(u) + Lines(d) <= 2 * MaxLines + 1,
         D.snk \/ d.full \/ Cut(S, peer[on]),
         u.fin = U.fin, D.fin => d.fin, d.fin => D.fin \/ U.fin
  PROVE  BoundInv'
  <1>1. PICK b : b = cs \o Tail(calls)
    OBVIOUS
  <1>2. cs \in Seq(Functions) /\ First(Inner, cs) /\ (\A X : Occurs(X, cs) <=> D.snk /\ "on_tx" \in X)
        /\ \A f : Top(f, cs) <=> D.snk /\ f = "on_tx"
    <2>1. "closed" \in Functions /\ "closed" \notin Inner
      BY DEF Functions, Lasting, Plain, Inner
    <2> QED
      BY <2>1, ConsumeForms
  <1>3. ~Occurs(Flowing, cs) /\ ~Occurs({"detach_tx"}, cs) /\ ~Occurs({"detach_tr_source"}, cs)
        /\ ~Occurs({"on_rx_end"}, cs) /\ ~Top("tr_consume", cs) /\ (Top("on_tx", cs) <=> D.snk)
    BY <1>2 DEF Flowing
  <1>4. /\ Top("on_tx", b) <=> D.snk
        /\ ~Top("tr_consume", b) /\ ~Occurs(Flowing, b)
        /\ \A X : Occurs(X, b) <=> Occurs(X, cs) \/ Occurs(X, Tail(calls))
    BY <1>1, <1>2, <1>3, BoundCalls
  <1>5. Sized(S, u, d, peer[on], b)
    BY <1>4 DEF Sized
  <1>6. \A X : Occurs(X, calls) <=> calls[1] \in X \/ Occurs(X, Tail(calls))
    BY Bounds
  <1>7. /\ Occurs({"detach_tx"}, b) <=> Occurs({"detach_tx"}, calls)
        /\ Occurs({"on_rx_end"}, b) <=> Occurs({"on_rx_end"}, calls)
    BY <1>3, <1>4, <1>6
  <1>8. Parted(S, u, d, peer[on], Unplugged(on), b)
    <2>1. Parted(S, U, D, peer[on], Unplugged(on), calls)
      BY Bounds
    <2> QED
      BY <2>1, <1>4, <1>7 DEF Parted
  <1>9. UNCHANGED peer /\ UNCHANGED poller
    OBVIOUS
  <1>10. Sending' /\ \A x \in Conns : peer[x].rst => peer'[x].rst
    BY <1>9, SendingStays
  <1>11. u.snk => U.snk /\ calls[1] # "detach_tr_sink"
    OBVIOUS
  <1> QED
    BY <1>1, <1>2, <1>3, <1>5, <1>8, <1>9, <1>10, <1>11, LocalBounds

\* aem_stream_transducer_consume.
LEMMA TrConsumeBounds ==
  ASSUME CInv, EndInv, AttendInv, BoundInv, TrConsume
  PROVE  BoundInv'
  <1>1. calls # <<>> /\ calls[1] = "tr_consume"
    BY DEF TrConsume, Calling
  <1>2. /\ S \in Sock /\ U \in IdleStream /\ D \in IdleStream /\ (~S.fd => ~S.rd)
        /\ (U.buf # NoBuffer /\ D.buf # NoBuffer) \/ Beginning
    BY <1>1, HasBegun
  <1>3. UNCHANGED <<peer, poller>>
    BY DEF TrConsume, Quiet
  <1>4. U.buf # NoBuffer /\ U.state = 0
    <2>1. Beginning => U.buf > 0
      BY <1>1 DEF Beginning, Offered, Taken
    <2>2. U.buf # NoBuffer
      BY <2>1, <1>2 DEF NoBuffer
    <2> QED
      BY <2>2, <1>2, StreamSet
  <1>5. /\ Sized(S, U, D, peer[on], calls) /\ Parted(S, U, D, peer[on], Unplugged(on), calls)
        /\ Top("tr_consume", calls) /\ ~Top("on_tx", calls) /\ Occurs(Flowing, calls)
        /\ MaxLines \in Nat /\ Lines(U) \in Nat /\ Lines(D) \in Nat /\ (Empty(U) <=> Lines(U) = 0) /\ (Empty(D) <=> Lines(D) = 0)
    <2>1. "tr_consume" \in Flowing
      BY DEF Flowing
    <2> QED
      BY <2>1, <1>1, Bounds
  <1>6. U.snk /\ (D.snk \/ Cut(S, peer[on])) /\ (~D.snk => D.fin)
    BY <1>5 DEF Sized, Parted
  <1>7. Lines(D) <= 2 * MaxLines + 1
    BY <1>5 DEF Sized
  <1>8. PICK cs : cs = ConsumeDown
    OBVIOUS
  <1>9. CASE ~D.src
    <2>1. ~S.fd
      BY <1>1, <1>9, Attends
    <2>2. ~S.rd /\ Lines(U) <= MaxLines + 1
      BY <2>1, <1>2, <1>5 DEF Sized
    <2>3. PICK c : c = <<"tr_close">>
      OBVIOUS
    <2>4. c \in Seq(Functions) /\ First(Inner, c) /\ ~Occurs({"detach_tr_source"}, c) /\ ~Top("tr_consume", c)
      <3>1. "tr_close" \in Functions
        BY DEF Functions, Lasting, Plain
      <3>2. c \in Seq(Functions)
        BY <2>3, <3>1
      <3>3. First(Inner, c) /\ (\A X : Occurs(X, c) <=> "tr_close" \in X) /\ \A h : Top(h, c) <=> "tr_close" = h
        BY <2>3, CallForms
      <3> QED
        BY <3>2, <3>3
    <2>5. Local(S, U, D, c)
      BY <1>9, <2>3 DEF TrConsume
    <2> QED
      BY <1>1, <1>2, <1>3, <1>6, <2>2, <2>4, <2>5, CutLocal
  <1>10. CASE D.src /\ ~ShouldProvide(D)
    <2>1. PICK u : u = [U EXCEPT !.full = TRUE]
      OBVIOUS
    <2>2. u \in IdleStream /\ u.snk = U.snk /\ u.buf = U.buf /\ u.full /\ u.fin = U.fin
      <3>1. PICK o : o = TRUE
        OBVIOUS
      <3> QED
        BY <2>1, <3>1, <1>2, StreamFilled, FullSet
    <2>3. Blocks(D)
      BY <1>2, <1>10, StreamFlags DEF Blocks
    <2>4. Local(S, u, D, cs)
      BY <1>8, <1>10, <2>1 DEF TrConsume
    <2>5. Lines(u) <= MaxLines + 1
      <3>1. Lines(u) = Lines(U)
        BY <1>2, <2>2, LinesSame
      <3> QED
        BY <3>1, <2>3, <1>5 DEF Sized
    <2>6. D.full
      BY <2>3 DEF Blocks
    <2> QED
      BY <1>1, <1>2, <1>3, <1>7, <1>8, <2>2, <2>4, <2>5, <2>6, ConsumedBounds
  <1>11. CASE D.src /\ ShouldProvide(D)
    <2>1. Transduce
      BY <1>4, <1>11 DEF TrConsume
    <2>2. PICK left \in Left :
            LET moved == Appended(Asked(D), Lines(U) - left)
                ends_ == (U.fin \/ D.fin) /\ left = 0
            IN Local(S, [U EXCEPT !.full = FALSE, !.buf = left],
                     [moved EXCEPT !.fin = @ \/ ends_], ConsumeDown)
      BY <2>1 DEF Transduce
    <2>3. left \in Nat /\ left <= Lines(U) /\ left <= 1 /\ (U.fin => left = 0)
      BY <2>2, <1>5 DEF Left
    <2>4. PICK u : u = [U EXCEPT !.full = FALSE, !.buf = left]
      OBVIOUS
    <2>5. PICK n, m : n = Lines(U) - left /\ m = Appended(Asked(D), n)
      OBVIOUS
    <2>6. PICK f : f = (m.fin \/ ((U.fin \/ D.fin) /\ left = 0))
      OBVIOUS
    <2>7. PICK d : d = [m EXCEPT !.fin = f]
      OBVIOUS
    <2>8. Local(S, u, d, cs)
      <3>1. d = [m EXCEPT !.fin = @ \/ ((U.fin \/ D.fin) /\ left = 0)]
        BY <2>6, <2>7
      <3> QED
        BY <1>8, <2>2, <2>4, <2>5, <3>1
    <2>9. PICK u0, d0 : u0 = U /\ d0 = D
      OBVIOUS
    <2>10. Carried(u0, d0, left, u, d)
      BY <2>3, <2>4, <2>5, <2>6, <2>7, <2>9 DEF Carried
    <2>11. u0 \in IdleStream /\ d0 \in IdleStream
      BY <1>2, <2>9
    <2>12. /\ u \in IdleStream /\ u.snk = U.snk /\ u.fin = U.fin
           /\ d \in IdleStream /\ d.snk = D.snk
           /\ d.fin <=> D.fin \/ (U.fin /\ left = 0)
      <3>1. /\ u \in IdleStream /\ u.snk = u0.snk /\ u.fin = u0.fin
            /\ d \in IdleStream /\ d.snk = d0.snk
            /\ d.fin <=> d0.fin \/ (u0.fin /\ left = 0)
        BY <2>10, <2>11, Transduced
      <3> QED
        BY <3>1, <2>9
    <2>13. Lines(u) = left /\ Lines(d) = Lines(D) + (Lines(U) - left)
      <3>1. Lines(u) = left /\ Lines(d) = Lines(d0) + (Lines(u0) - left)
        BY <2>10, <2>11, CarriedLines
      <3> QED
        BY <3>1, <2>9
    <2>14. Empty(D) \/ ~D.full
      BY <1>2, <1>11, StreamFlags
    <2>15. Lines(U) + Lines(D) <= 2 * MaxLines + 1
      <3>1. CASE Empty(D)
        <4>1. Lines(D) = 0
          BY <3>1, <1>5
        <4>2. Lines(U) <= MaxLines + 1 \/ Lines(U) <= 2 * MaxLines + 1
          BY <1>5 DEF Sized
        <4> QED
          BY <4>1, <4>2, <1>5, ServerAssumption
      <3>2. CASE ~Empty(D)
        BY <3>2, <2>14, <1>5, <1>6 DEF Sized
      <3> QED
        BY <3>1, <3>2
    <2>16. Lines(u) <= MaxLines + 1 /\ Lines(u) <= 1
      BY <2>3, <2>13, <1>5
    <2>17. Lines(d) <= 2 * MaxLines + 1 /\ Lines(u) + Lines(d) <= 2 * MaxLines + 1
      BY <2>3, <2>13, <2>15, <1>5
    <2> QED
      BY <1>1, <1>3, <1>6, <1>8, <2>8, <2>12, <2>16, <2>17, ConsumedBounds
  <1> QED
    BY <1>9, <1>10, <1>11

\* What aem_net_on_rx receives has room: the transducer is about to take it.
LEMMA ReceivedBounds ==
  ASSUME CInv, EndInv, AttendInv, BoundInv, calls # <<>>, calls[1] = "on_rx", S.rd, ~peer[on].rst, UNCHANGED poller,
         NEW s, s.fd = S.fd, s.rd = S.rd, ~U.full \/ Empty(U),
         NEW n \in Nat, n <= MaxLines,
         NEW u \in IdleStream, u.snk = U.snk, Lines(u) = Lines(U) + n, U.fin => u.fin,
         NEW cs, cs = ConsumeUp \o <<"on_rx_end">>, Local(s, u, D, cs),
         Sending', \A x \in Conns : peer[x].rst => peer'[x].rst
  PROVE  BoundInv'
  <1>1. /\ Sized(S, U, D, peer[on], calls) /\ Parted(S, U, D, peer[on], Unplugged(on), calls)
        /\ ~Top("on_tx", calls) /\ ~Top("tr_consume", calls) /\ Occurs(Flowing, calls)
        /\ MaxLines \in Nat /\ Lines(U) \in Nat /\ (Empty(U) <=> Lines(U) = 0)
        /\ \A X : Occurs(X, calls) <=> calls[1] \in X \/ Occurs(X, Tail(calls))
    <2>1. "on_rx" \in Flowing
      BY DEF Flowing
    <2> QED
      BY <2>1, Bounds
  <1>2. S.fd /\ U.snk
    <2>1. S.fd
      BY HasBegun
    <2> QED
      BY <2>1, Attends
  <1>3. /\ cs \in Seq(Functions) /\ First(Inner, cs)
        /\ \A X : Occurs(X, cs) <=> "tr_consume" \in X \/ "on_rx_end" \in X
        /\ Top("tr_consume", cs) /\ ~Top("on_tx", cs)
    <2>1. "on_rx_end" \in Functions /\ "on_rx_end" \notin Inner /\ "tr_consume" \in Inner /\ "on_tx" \in Inner
      BY DEF Functions, Lasting, Plain, Inner
    <2>2. cs \in Seq(Functions) /\ First(Inner, cs) /\ \A X : Occurs(X, cs) <=> (U.snk /\ "tr_consume" \in X) \/ "on_rx_end" \in X
      BY <2>1, ConsumeForms
    <2>3. \A f \in Inner : Top(f, cs) <=> U.snk /\ f = "tr_consume"
      BY <2>1, ConsumeForms
    <2> QED
      BY <2>1, <2>2, <2>3, <1>2
  <1>4. PICK b : b = cs \o Tail(calls)
    OBVIOUS
  <1>5. /\ Top("tr_consume", b) /\ ~Top("on_tx", b)
        /\ \A X : Occurs(X, b) <=> Occurs(X, cs) \/ Occurs(X, Tail(calls))
    BY <1>3, <1>4, BoundCalls
  <1>6. ~Occurs({"detach_tx"}, cs) /\ ~Occurs({"detach_tr_source"}, cs) /\ Occurs({"on_rx_end"}, cs)
    <2>1. \A X : Occurs(X, cs) <=> "tr_consume" \in X \/ "on_rx_end" \in X
      BY <1>3
    <2> QED
      BY <2>1
  <1>7. ~Cut(S, peer[on])
    BY DEF Cut
  <1>8. Sized(s, u, D, peer'[on], b)
    <2>1. Lines(U) <= MaxLines + 1 /\ Lines(D) <= 2 * MaxLines + 1 /\ (Empty(D) \/ D.full)
      BY <1>1, <1>7 DEF Sized
    <2>2. U.full \/ Lines(U) <= 1 \/ ~Blocks(D)
      BY <1>1, <1>7 DEF Sized
    <2>3. Lines(u) <= MaxLines + 1 \/ ~Blocks(D)
      BY <2>2, <1>1
    <2>4. Lines(u) <= 2 * MaxLines + 1
      BY <2>1, <1>1
    <2> QED
      BY <2>1, <2>3, <2>4, <1>2, <1>5 DEF Sized
  <1>9. Occurs({"detach_tx"}, b) => Occurs({"detach_tx"}, calls)
    BY <1>1, <1>5, <1>6
  <1>10. Occurs({"on_rx_end"}, b)
    BY <1>5, <1>6
  <1>11. Parted(s, u, D, peer'[on], Unplugged(on), b)
    BY <1>1, <1>7, <1>9, <1>10 DEF Parted, Cut
  <1>12. u.snk => U.snk /\ calls[1] # "detach_tr_sink"
    OBVIOUS
  <1> QED
    BY <1>3, <1>4, <1>6, <1>8, <1>11, <1>12, LocalBounds

\* After a reset nothing is received any more.
LEMMA ResetBounds ==
  ASSUME CInv, EndInv, AttendInv, BoundInv, calls # <<>>, calls[1] = "on_rx", S.rd, peer[on].rst,
         UNCHANGED <<peer, poller>>,
         NEW s, NEW u \in IdleStream, u.snk = U.snk, Lines(u) = Lines(U),
         NEW cs, cs = ConsumeUp \o <<"on_rx_end">>, Local(s, u, D, cs)
  PROVE  BoundInv'
  <1>1. /\ Sized(S, U, D, peer[on], calls) /\ Parted(S, U, D, peer[on], Unplugged(on), calls)
        /\ ~Top("tr_consume", calls)
        /\ \A X : Occurs(X, calls) <=> calls[1] \in X \/ Occurs(X, Tail(calls))
    BY Bounds
  <1>2. /\ cs \in Seq(Functions) /\ First(Inner, cs)
        /\ \A X : Occurs(X, cs) => "tr_consume" \in X \/ "on_rx_end" \in X
        /\ Top("tr_consume", cs) => U.snk
    <2>1. "on_rx_end" \in Functions /\ "on_rx_end" \notin Inner /\ "tr_consume" \in Inner
      BY DEF Functions, Lasting, Plain, Inner
    <2> QED
      BY <2>1, ConsumeForms
  <1>3. PICK b : b = cs \o Tail(calls)
    OBVIOUS
  <1>4. /\ Top("tr_consume", b) => U.snk
        /\ \A X : Occurs(X, b) <=> Occurs(X, cs) \/ Occurs(X, Tail(calls))
    BY <1>2, <1>3, BoundCalls
  <1>5. ~Occurs({"detach_tx"}, cs) /\ ~Occurs({"detach_tr_source"}, cs)
    BY <1>2
  <1>6. Cut(S, peer[on]) /\ Cut(s, peer[on])
    BY DEF Cut
  <1>7. Lines(U) <= MaxLines + 1
    BY <1>1 DEF Sized
  <1>8. Sized(s, u, D, peer[on], b)
    BY <1>1, <1>4, <1>6, <1>7, CutBounds
  <1>9. Occurs({"detach_tx"}, b) => Occurs({"detach_tx"}, calls)
    BY <1>1, <1>4, <1>5
  <1>10. Parted(s, u, D, peer[on], Unplugged(on), b)
    BY <1>1, <1>6, <1>9 DEF Parted
  <1>11. UNCHANGED peer /\ UNCHANGED poller
    OBVIOUS
  <1>12. Sending' /\ \A x \in Conns : peer[x].rst => peer'[x].rst
    BY <1>11, SendingStays
  <1>13. u.snk => U.snk /\ calls[1] # "detach_tr_sink"
    OBVIOUS
  <1> QED
    BY <1>2, <1>3, <1>5, <1>8, <1>10, <1>11, <1>12, <1>13, LocalBounds

\* aem_net_on_rx.
LEMMA OnRxBounds ==
  ASSUME CInv, EndInv, AttendInv, BoundInv, OnRx
  PROVE  BoundInv'
  <1>1. calls # <<>> /\ calls[1] = "on_rx"
    BY DEF OnRx, Calling
  <1>2. S \in Sock /\ U \in IdleStream /\ D \in IdleStream /\ on \in Conns /\ (~D.snk => D.fin)
    BY <1>1, HasBegun, Bounds DEF Parted
  <1>3. PICK s : s = IF U.full THEN Ignore(S, {"IN"}) ELSE Want(S, {"IN"})
    OBVIOUS
  <1>4. s \in Sock /\ s.fd = S.fd /\ s.rd = S.rd
    <2>1. {"IN"} \in SUBSET Bits
      BY DEF Bits
    <2> QED
      BY <2>1, <1>2, <1>3, SockSet
  <1>5. CASE ~S.rd
    <2>1. Local(S, U, D, <<>>) /\ UNCHANGED <<peer, poller>>
      BY <1>5 DEF OnRx, Quiet
    <2>2. /\ <<>> \in Seq(Functions) /\ First(Inner, <<>>) /\ (\A X : ~Occurs(X, <<>>))
          /\ ~Top("tr_consume", <<>>) /\ ~Top("on_tx", <<>>)
      BY CallForms
    <2> QED
      BY <1>1, <1>2, <2>1, <2>2, StillLocal
  <1>6. CASE S.rd /\ ~ShouldProvide(U)
    <2>1. PICK cs : cs = ConsumeUp
      OBVIOUS
    <2>2. Local(s, U, D, cs) /\ UNCHANGED <<peer, poller>>
      BY <1>3, <1>6, <2>1 DEF OnRx, Quiet
    <2>3. /\ cs \in Seq(Functions) /\ First(Inner, cs)
          /\ (Top("tr_consume", cs) => U.snk) /\ ~Top("on_tx", cs)
          /\ ~Occurs({"detach_tx", "detach_tr_source"}, cs)
      <3>1. "on_rx_end" \in Functions /\ "on_rx_end" \notin Inner
        BY DEF Functions, Lasting, Plain, Inner
      <3>2. cs \in Seq(Functions) /\ First(Inner, cs) /\ (\A X : Occurs(X, cs) <=> U.snk /\ "tr_consume" \in X)
            /\ \A f : Top(f, cs) <=> U.snk /\ f = "tr_consume"
        BY <3>1, <2>1, ConsumeForms
      <3> QED
        BY <3>2
    <2>4. calls[1] \in Flowing
      BY <1>1 DEF Flowing
    <2> QED
      BY <1>1, <1>2, <1>4, <2>2, <2>3, <2>4, StillLocal
  <1>7. CASE S.rd /\ ShouldProvide(U)
    <2>1. Received(s, Asked(U)) /\ UNCHANGED poller
      BY <1>3, <1>7 DEF OnRx, Received
    <2>2. PICK u0 : u0 = Asked(U)
      OBVIOUS
    <2>3. u0 \in IdleStream /\ u0.snk = U.snk /\ u0.fin = U.fin /\ u0.buf = U.buf /\ (~U.full \/ Empty(U))
      BY <2>2, <1>2, <1>7, StreamSet, StreamFlags
    <2>4. PICK l : l = Lines(u0)
      OBVIOUS
    <2>5. l \in Nat /\ l = Lines(U)
      <3>1. Lines(u0) = Lines(U)
        BY <1>2, <2>3, LinesSame
      <3> QED
        BY <3>1, <1>2, <2>4, LinesOf
    <2>6. \A k \in Nat : k # NoBuffer
      BY DEF NoBuffer
    <2>7. PICK room : room = [u0 EXCEPT !.buf = l]
      OBVIOUS
    <2>8. room \in IdleStream /\ room.snk = U.snk /\ room.fin = U.fin /\ room.buf = l /\ Lines(room) = l
      <3>1. room \in IdleStream /\ room.snk = U.snk /\ room.fin = U.fin /\ room.buf = l
        BY <2>3, <2>5, <2>7, StreamLines, LinesSet
      <3> QED
        BY <3>1, <2>5, <2>6, LinesOf
    <2>9. PICK t, ended : t = TRUE /\ ended = [room EXCEPT !.fin = t]
      OBVIOUS
    <2>10. ended \in IdleStream /\ ended.snk = U.snk /\ ended.fin /\ Lines(ended) = l
      <3>1. t \in BOOLEAN
        BY <2>9
      <3>2. ended \in IdleStream /\ ended.snk = room.snk /\ ended.buf = room.buf
        BY <3>1, <2>8, <2>9, StreamFilled
      <3>3. ended.fin = t
        BY <3>1, <2>8, <2>9, FinSet
      <3>4. Lines(ended) = Lines(room)
        BY <3>2, <2>8, LinesSame
      <3> QED
        BY <3>2, <3>3, <3>4, <2>8, <2>9
    <2>11. PICK cs : cs = ConsumeUp \o <<"on_rx_end">>
      OBVIOUS
    <2>12. PICK z : z = 0
      OBVIOUS
    <2>13. z \in Nat /\ z <= MaxLines /\ l = Lines(U) + z
      BY <2>5, <2>12, ServerAssumption
    <2>14. UNCHANGED peer => Sending' /\ \A x \in Conns : peer[x].rst => peer'[x].rst
      BY SendingStays
    <2>15. CASE peer[on].rst
      <3>1. PICK open \in BOOLEAN : Local([s EXCEPT !.rd = open], ended, D, cs)
        BY <2>1, <2>2, <2>4, <2>7, <2>9, <2>11, <2>15 DEF Received
      <3>2. UNCHANGED <<peer, poller>>
        BY <2>1, <2>15 DEF Received
      <3>3. PICK r : r = [s EXCEPT !.rd = open]
        OBVIOUS
      <3>4. Local(r, ended, D, cs)
        BY <3>1, <3>3
      <3>5. Lines(ended) = Lines(U)
        BY <2>5, <2>10
      <3> QED
        BY <3>2, <3>4, <3>5, <1>1, <1>7, <2>10, <2>11, <2>15, ResetBounds
    <2>16. CASE ~peer[on].rst /\ peer[on].lines > 0
      <3>1. PICK n \in 1 .. peer[on].lines :
              /\ peer' = [peer EXCEPT ![on].lines = @ - n]
              /\ Local(s, [room EXCEPT !.buf = @ + n], D, cs)
        BY <2>1, <2>2, <2>4, <2>7, <2>11, <2>16 DEF Received
      <3>2. peer \in [Conns -> Other] /\ peer[on].lines \in Nat /\ peer[on].lines <= MaxLines
        BY <1>1, <1>2, Bounds DEF EndInv, StreamTypes
      <3>3. PICK k : k = peer[on].lines - n
        OBVIOUS
      <3>4. k \in Nat /\ k <= MaxLines /\ n \in Nat /\ n <= MaxLines
        BY <3>2, <3>3, ServerAssumption
      <3>5. peer' = [peer EXCEPT ![on].lines = k]
        BY <3>1, <3>3
      <3>6. peer'[on].lines = k /\ peer'[on].rst = peer[on].rst /\ \A x \in Conns : x # on => peer'[x] = peer[x]
        BY <3>2, <3>5, <1>2 DEF Other
      <3>7. Sending' /\ \A x \in Conns : peer[x].rst => peer'[x].rst
        BY <3>4, <3>6, <2>16, <1>2 DEF Sending, BoundInv
      <3>8. PICK m : m = l + n
        OBVIOUS
      <3>9. m \in Nat
        BY <3>4, <3>8, <2>5
      <3>10. PICK u : u = [room EXCEPT !.buf = m]
        OBVIOUS
      <3>11. u \in IdleStream /\ u.snk = U.snk /\ u.fin = U.fin /\ u.buf = m
        BY <3>9, <3>10, <2>8, StreamLines, LinesSet
      <3>12. Lines(u) = Lines(U) + n
        BY <3>8, <3>9, <3>11, <2>5, <2>6, LinesOf
      <3>13. Local(s, u, D, cs)
        BY <3>1, <3>8, <3>10, <2>8
      <3> QED
        BY <3>4, <3>7, <3>11, <3>12, <3>13, <1>1, <1>4, <1>7, <2>1, <2>3, <2>11, <2>16, ReceivedBounds
    <2>17. CASE ~peer[on].rst /\ ~(peer[on].lines > 0) /\ peer[on].eof
      <3>1. Local(s, ended, D, cs) /\ UNCHANGED peer
        BY <2>1, <2>2, <2>4, <2>7, <2>9, <2>11, <2>17 DEF Received
      <3>2. Lines(ended) = Lines(U) + z
        BY <2>10, <2>13
      <3> QED
        BY <3>1, <3>2, <1>1, <1>4, <1>7, <2>1, <2>3, <2>10, <2>11, <2>13, <2>14, <2>17, ReceivedBounds
    <2>18. CASE ~peer[on].rst /\ ~(peer[on].lines > 0) /\ ~peer[on].eof
      <3>1. PICK r : r = Want(s, {"IN"})
        OBVIOUS
      <3>2. Local(r, room, D, cs) /\ UNCHANGED peer
        BY <2>1, <2>2, <2>4, <2>7, <2>11, <2>18, <3>1 DEF Received
      <3>3. {"IN"} \in SUBSET Bits
        BY DEF Bits
      <3>4. r.fd = S.fd /\ r.rd = S.rd
        BY <3>1, <3>3, <1>4, SockSet
      <3>5. Lines(room) = Lines(U) + z
        BY <2>8, <2>13
      <3> QED
        BY <3>2, <3>4, <3>5, <1>1, <1>7, <2>1, <2>3, <2>8, <2>11, <2>13, <2>14, <2>18, ReceivedBounds
    <2> QED
      BY <2>15, <2>16, <2>17, <2>18
  <1> QED
    BY <1>5, <1>6, <1>7

\* The end of aem_net_on_tx, whatever was sent: nothing is left, or the stream is full, or
\* nothing more is received.
LEMMA SentBounds ==
  ASSUME CInv, EndInv, AttendInv, BoundInv, calls # <<>>, calls[1] = "on_tx", UNCHANGED poller,
         NEW s \in Sock, s.rd = S.rd, NEW d \in IdleStream, d.snk = D.snk, Lines(d) <= Lines(D),
         D.fin => d.fin, d.fin => D.fin \/ Cut(S, peer[on]),
         Empty(d) \/ d.full \/ ((d.full <=> D.full) /\ (Empty(d) <=> Empty(D)) /\ Cut(S, peer[on])),
         Sent(s, d), Sending', \A x \in Conns : peer[x].rst => peer'[x].rst
  PROVE  BoundInv'
  <1>1. /\ Sized(S, U, D, peer[on], calls) /\ Parted(S, U, D, peer[on], Unplugged(on), calls)
        /\ Top("on_tx", calls) /\ ~Top("tr_consume", calls)
        /\ MaxLines \in Nat /\ Lines(U) \in Nat /\ Lines(D) \in Nat
        /\ \A X : Occurs(X, calls) <=> calls[1] \in X \/ Occurs(X, Tail(calls))
    BY Bounds
  <1>2. Lines(d) \in Nat /\ on \in Conns
    BY LinesOf, HasBegun
  <1>3. Cut(S, peer[on]) => Cut(S, peer'[on])
    BY <1>2 DEF Cut
  <1>4. ASSUME NEW r, r.rd = S.rd, NEW cs \in Seq(Functions), First(Inner, cs),
               ~Top("on_tx", cs), ~Top("tr_consume", cs), ~Occurs(Flowing, cs), ~Occurs({"detach_tr_source"}, cs),
               Occurs({"detach_tx"}, cs) => d.fin,
               Local(r, U, d, cs)
        PROVE  BoundInv'
    <2>1. PICK b : b = cs \o Tail(calls)
      OBVIOUS
    <2>2. /\ ~Top("on_tx", b) /\ ~Top("tr_consume", b) /\ ~Occurs(Flowing, b)
          /\ \A X : Occurs(X, b) <=> Occurs(X, cs) \/ Occurs(X, Tail(calls))
      BY <2>1, <1>4, BoundCalls
    <2>3. Cut(S, peer[on]) => Cut(r, peer'[on])
      BY <1>3, <1>4 DEF Cut
    <2>4. Sized(r, U, d, peer'[on], b)
      <3>1. Lines(U) <= MaxLines + 1 /\ Lines(d) <= 2 * MaxLines + 1
        BY <1>1, <1>2 DEF Sized
      <3>2. U.full \/ Lines(U) <= 1 \/ Cut(r, peer'[on])
        BY <1>1, <2>3 DEF Sized
      <3>3. Empty(d) \/ d.full \/ ((~U.snk \/ Lines(U) + Lines(d) <= 2 * MaxLines + 1) /\ Cut(r, peer'[on]))
        <4>1. SUFFICES ASSUME ~Empty(d), ~d.full
                       PROVE  (~U.snk \/ Lines(U) + Lines(d) <= 2 * MaxLines + 1) /\ Cut(r, peer'[on])
          OBVIOUS
        <4>2. ~Empty(D) /\ ~D.full /\ Cut(S, peer[on])
          BY <4>1
        <4>3. ~U.snk \/ Lines(U) + Lines(D) <= 2 * MaxLines + 1
          BY <4>2, <1>1 DEF Sized
        <4> QED
          BY <4>2, <4>3, <2>3, <1>1, <1>2
      <3> QED
        BY <3>1, <3>2, <3>3, <2>2 DEF Sized
    <2>5. Occurs({"detach_tx"}, b) => Occurs({"detach_tx"}, calls) \/ d.fin
      BY <1>1, <1>4, <2>2
    <2>6. Occurs({"on_rx_end"}, calls) => Occurs({"on_rx_end"}, b)
      BY <1>1, <2>2
    <2>7. Parted(r, U, d, peer'[on], Unplugged(on), b)
      BY <1>1, <1>4, <2>2, <2>3, <2>5, <2>6 DEF Parted
    <2>8. U.snk => U.snk /\ calls[1] # "detach_tr_sink"
      OBVIOUS
    <2> QED
      BY <1>4, <2>1, <2>4, <2>7, <2>8, LocalBounds
  <1>5. CASE Over(d)
    <2>1. PICK i : i = Ignore(s, {"OUT"})
      OBVIOUS
    <2>2. i \in Sock /\ i.rd = s.rd
      BY <2>1, SockSet DEF Bits
    <2>3. PICK o, t : o = FALSE /\ t = [i EXCEPT !.wr = o]
      OBVIOUS
    <2>4. t.rd = S.rd
      <3>1. o \in BOOLEAN /\ t = [i EXCEPT !.wr = o]
        BY <2>3
      <3>2. t.rd = i.rd
        BY <3>1, <2>2, WrSet
      <3> QED
        BY <3>2, <2>2
    <2>5. PICK cs : cs = <<"detach_tx", "close_if_done">>
      OBVIOUS
    <2>6. Local(t, U, d, cs)
      BY <1>5, <2>1, <2>3, <2>5 DEF Sent
    <2>7. /\ "detach_tx" \in Functions /\ "close_if_done" \in Functions /\ "close_if_done" \notin Inner
          /\ "detach_tx" \notin Flowing /\ "close_if_done" \notin Flowing
      BY DEF Functions, Lasting, Plain, Inner, Flowing
    <2>8. cs \in Seq(Functions)
      BY <2>5, <2>7
    <2>9. /\ First(Inner, cs)
          /\ \A X : Occurs(X, cs) <=> "detach_tx" \in X \/ "close_if_done" \in X
          /\ \A h : Top(h, cs) <=> "detach_tx" = h
      BY <2>5, <2>7, TwoCalls
    <2>10. ~Top("on_tx", cs) /\ ~Top("tr_consume", cs) /\ ~Occurs(Flowing, cs) /\ ~Occurs({"detach_tr_source"}, cs)
      BY <2>7, <2>9
    <2>11. d.fin
      BY <1>5 DEF Over
    <2> QED
      BY <2>4, <2>6, <2>8, <2>9, <2>10, <2>11, <1>4
  <1>6. CASE ~Over(d)
    <2>1. /\ <<>> \in Seq(Functions) /\ First(Inner, <<>>) /\ (\A X : ~Occurs(X, <<>>))
          /\ ~Top("on_tx", <<>>) /\ ~Top("tr_consume", <<>>)
      BY CallForms
    <2>2. Local(s, U, d, <<>>)
      BY <1>6 DEF Sent
    <2> QED
      BY <2>1, <2>2, <1>4
  <1> QED
    BY <1>5, <1>6

\* aem_net_on_tx.
LEMMA OnTxBounds ==
  ASSUME CInv, EndInv, AttendInv, BoundInv, OnTx
  PROVE  BoundInv'
  <1>1. calls # <<>> /\ calls[1] = "on_tx"
    BY DEF OnTx, Calling
  <1>2. S \in Sock /\ U \in IdleStream /\ D \in IdleStream /\ on \in Conns /\ D.buf # NoBuffer /\ (~S.fd => ~S.rd)
    BY <1>1, HasBegun
  <1>3. D.state = 0 /\ D.buf \in Nat /\ (Empty(D) <=> D.buf = 0) /\ Lines(D) = D.buf
    <2>1. D.state = 0 /\ D.buf \in Nat
      BY <1>2, StreamSet
    <2> QED
      BY <2>1, <1>2, LinesOf DEF Empty
  <1>4. peer \in [Conns -> Other]
    BY DEF EndInv, StreamTypes
  <1>5. UNCHANGED peer => Sending' /\ \A x \in Conns : peer[x].rst => peer'[x].rst
    BY SendingStays
  <1>6. ASSUME Sends
        PROVE  Sending' /\ (\A x \in Conns : peer[x].rst => peer'[x].rst) /\ UNCHANGED poller
    <2>1. PICK room \in BOOLEAN : peer' = [peer EXCEPT ![on].room = room]
      BY <1>6 DEF Sends
    <2>2. \A x \in Conns : peer'[x].rst = peer[x].rst /\ peer'[x].lines = peer[x].lines
      BY <1>2, <1>4, <2>1 DEF Other
    <2>3. Sending
      BY DEF BoundInv
    <2>4. Sending'
      BY <2>2, <2>3 DEF Sending
    <2>5. UNCHANGED poller
      BY <1>6 DEF Sends
    <2> QED
      BY <2>2, <2>4, <2>5
  <1>7. CASE D.buf = 0
    <2>1. PICK s : s = Ignore(S, {"OUT"})
      OBVIOUS
    <2>2. s \in Sock /\ s.rd = S.rd
      BY <1>2, <2>1, SockSet DEF Bits
    <2>3. Sent(s, D) /\ UNCHANGED peer /\ UNCHANGED poller
      BY <1>2, <1>3, <1>7, <2>1 DEF OnTx, Quiet, NothingSent
    <2>4. Empty(D) /\ Lines(D) <= Lines(D)
      BY <1>3, <1>7
    <2> QED
      BY <1>1, <1>2, <1>5, <2>2, <2>3, <2>4, SentBounds
  <1>8. CASE D.buf # 0 /\ (~S.fd \/ peer[on].rst)
    <2>1. SendFails
      BY <1>2, <1>3, <1>8 DEF OnTx
    <2>2. UNCHANGED peer /\ UNCHANGED poller
      BY <2>1 DEF SendFails, Quiet
    <2>3. S.wr \in BOOLEAN /\ S.fd \in BOOLEAN
      BY <1>2, SockSet
    <2>4. PICK open \in IF S.fd THEN {FALSE, S.wr} ELSE {S.wr} :
            LET s == [S EXCEPT !.wr = open]
            IN Sent(IF D.full THEN WaitForRoom(s) ELSE s, [D EXCEPT !.fin = TRUE])
      BY <2>1 DEF SendFails
    <2>5. open \in BOOLEAN
      BY <2>3, <2>4
    <2>6. PICK q, s : q = S /\ s = [q EXCEPT !.wr = open]
      OBVIOUS
    <2>7. s \in Sock /\ s.rd = S.rd
      <3>1. q \in Sock /\ open \in BOOLEAN /\ s = [q EXCEPT !.wr = open]
        BY <1>2, <2>5, <2>6
      <3>2. s \in Sock /\ s.rd = q.rd
        BY <3>1, WrSet
      <3> QED
        BY <3>2, <2>6
    <2>8. PICK o, d : o = TRUE /\ d = [D EXCEPT !.fin = o]
      OBVIOUS
    <2>9. d \in IdleStream /\ d.snk = D.snk /\ d.fin /\ d.full = D.full /\ d.buf = D.buf
      <3>1. o \in BOOLEAN /\ d = [D EXCEPT !.fin = o]
        BY <2>8
      <3>2. d \in IdleStream /\ d.snk = D.snk /\ d.buf = D.buf
        BY <3>1, <1>2, StreamFilled
      <3>3. d.fin = o /\ d.full = D.full
        BY <3>1, <1>2, FinSet
      <3> QED
        BY <3>2, <3>3, <2>8
    <2>10. PICK w : w = WaitForRoom(s)
      OBVIOUS
    <2>11. w \in Sock /\ w.rd = S.rd
      <3>1. {"OUT"} \in SUBSET Bits /\ s \in Sock
        BY <2>7 DEF Bits
      <3>2. w = Want(s, {"OUT"})
        BY <2>10 DEF WaitForRoom
      <3>3. w \in Sock /\ w.rd = s.rd
        BY <3>1, <3>2, SockSet
      <3> QED
        BY <3>3, <2>7
    <2>12. Sent(w, d) \/ Sent(s, d)
      BY <2>4, <2>6, <2>8, <2>10
    <2>13. Lines(d) = Lines(D) /\ (Empty(d) <=> Empty(D)) /\ Lines(d) <= Lines(D)
      <3>1. Lines(d) = Lines(D) /\ (Empty(d) <=> Empty(D))
        BY <1>2, <2>9, LinesSame
      <3> QED
        BY <3>1, <1>3
    <2>14. Cut(S, peer[on])
      BY <1>2, <1>8 DEF Cut
    <2>15. Sending' /\ \A x \in Conns : peer[x].rst => peer'[x].rst
      BY <1>5, <2>2
    <2> QED
      BY <1>1, <2>2, <2>7, <2>9, <2>11, <2>12, <2>13, <2>14, <2>15, SentBounds
  <1>9. CASE D.buf # 0 /\ SendsAll
    <2>1. PICK n : n = 0
      OBVIOUS
    <2>2. PICK d : d = [D EXCEPT !.buf = n, !.full = FALSE]
      OBVIOUS
    <2>3. d \in IdleStream /\ d.snk = D.snk /\ d.fin = D.fin /\ Empty(d) /\ Lines(d) <= Lines(D)
      <3>1. n \in Nat
        BY <2>1
      <3>2. d \in IdleStream /\ d.snk = D.snk
        BY <3>1, <1>2, <2>2, StreamMoved
      <3>3. d.fin = D.fin /\ (Empty(d) <=> n = 0)
        <4>1. D \in IdleStream
          BY <1>2
        <4>2. IsSentOff(d, D, n)
          BY <2>2 DEF IsSentOff
        <4> QED
          BY <3>1, <4>1, <4>2, SentOff
      <3>4. Empty(d)
        BY <3>3, <2>1
      <3>5. Lines(d) = 0
        BY <3>2, <3>4, LinesOf
      <3>6. Lines(d) <= Lines(D)
        BY <3>5, <1>3
      <3> QED
        BY <3>2, <3>3, <3>4, <3>6
    <2>4. Sent(S, d) /\ Sends
      BY <1>9, <2>1, <2>2 DEF SendsAll
    <2>5. Sending' /\ (\A x \in Conns : peer[x].rst => peer'[x].rst) /\ UNCHANGED poller
      BY <2>4, <1>6
    <2> QED
      BY <1>1, <1>2, <2>3, <2>4, <2>5, SentBounds
  <1>10. CASE D.buf # 0 /\ SendsPart
    <2>1. PICK n \in IF peer[on].room THEN 1 .. D.buf - 1 ELSE {0} :
            Sent(WaitForRoom(S), [D EXCEPT !.buf = @ - n, !.full = TRUE])
      BY <1>10 DEF SendsPart
    <2>2. PICK m : m = D.buf - n
      OBVIOUS
    <2>3. m \in Nat /\ m <= D.buf
      BY <1>3, <2>1, <2>2
    <2>4. PICK d : d = [D EXCEPT !.buf = m, !.full = TRUE]
      OBVIOUS
    <2>5. d \in IdleStream /\ d.snk = D.snk /\ d.buf = m
      <3>1. m \in Nat
        BY <2>3
      <3> QED
        BY <3>1, <1>2, <2>4, StreamMoved
    <2>6. d.fin = D.fin /\ d.full
      <3>1. d.full = TRUE /\ d.fin = D.fin
        BY <1>2, <2>3, <2>4, Clogged
      <3> QED
        BY <3>1
    <2>7. Lines(d) <= Lines(D)
      <3>1. m # NoBuffer
        BY <2>3 DEF NoBuffer
      <3>2. Lines(d) = m
        BY <3>1, <2>5, LinesOf
      <3> QED
        BY <3>2, <2>3, <1>3
    <2>8. PICK w : w = WaitForRoom(S)
      OBVIOUS
    <2>9. w \in Sock /\ w.rd = S.rd
      <3>1. {"OUT"} \in SUBSET Bits
        BY DEF Bits
      <3>2. w = Want(S, {"OUT"})
        BY <2>8 DEF WaitForRoom
      <3> QED
        BY <3>1, <3>2, <1>2, SockSet
    <2>10. Sent(w, d)
      BY <2>1, <2>2, <2>4, <2>8
    <2>11. Sending' /\ (\A x \in Conns : peer[x].rst => peer'[x].rst) /\ UNCHANGED poller
      <3>1. Sends \/ (UNCHANGED peer /\ UNCHANGED poller)
        BY <1>10 DEF SendsPart, Quiet
      <3> QED
        BY <3>1, <1>5, <1>6
    <2> QED
      BY <1>1, <2>5, <2>6, <2>7, <2>9, <2>10, <2>11, SentBounds
  <1> QED
    BY <1>2, <1>3, <1>7, <1>8, <1>9, <1>10 DEF OnTx

\* Closing the socket: nothing more is received, and conn_free is called.
LEMMA SockCloseBounds ==
  ASSUME CInv, EndInv, AttendInv, BoundInv, SockClose
  PROVE  BoundInv'
  <1>1. calls # <<>> /\ calls[1] = "sock_close"
    BY DEF SockClose, Calling
  <1>2. /\ S \in Sock /\ U \in IdleStream /\ D \in IdleStream /\ (~S.fd => ~S.rd /\ ~S.wr)
        /\ on \in Conns /\ calls \in Seq(Functions) /\ up[on] = U /\ up \in [Conns -> IdleStream]
    BY <1>1, HasBegun DEF EndInv, StreamTypes
  <1>3. PICK cs : cs = If(S.fd /\ S.onClose, ConnFree \o <<"closed">>)
    OBVIOUS
  <1>4. Local(Shut(S), U, D, cs) /\ peer' = peer /\ (Deregister(on) \/ UNCHANGED poller)
    BY <1>2, <1>3 DEF SockClose
  <1>5. PICK s : s = Shut(S)
    OBVIOUS
  <1>6. ~s.rd
    BY <1>2, <1>5, SockSet
  <1>7. PICK f : f = ConnFree \o <<"closed">>
    OBVIOUS
  <1>8. /\ f \in Seq(Functions) /\ ~Occurs(Inner, f)
        /\ \A k \in 1 .. Len(f) : f[k] = "detach_tr_source" => k > 1 /\ k - 1 \in 1 .. Len(f) /\ f[k - 1] = "detach_tr_sink"
    <2>1. PICK c, d : c = ConnFree /\ d = <<"closed">>
      OBVIOUS
    <2>2. c \in Seq(Functions) /\ ~Occurs(Inner, c) /\ Len(c) = 4
      BY <2>1 DEF ConnFree, Functions, Lasting, Plain, Endings, Occurs, Inner
    <2>3. \A k \in 1 .. Len(c) : c[k] = "detach_tr_source" => k > 1 /\ k - 1 \in 1 .. Len(c) /\ c[k - 1] = "detach_tr_sink"
      BY <2>1 DEF ConnFree
    <2>4. d \in Seq(Functions) /\ ~Occurs(Inner, d) /\ \A k \in 1 .. Len(d) : d[k] # "detach_tr_source"
      <3>1. "closed" \in Functions /\ "closed" \notin Inner
        BY DEF Functions, Lasting, Plain, Inner
      <3>2. d \in Seq(Functions) /\ \A k \in 1 .. Len(d) : d[k] # "detach_tr_source"
        BY <2>1, <3>1
      <3> QED
        BY <2>1, <3>1, <3>2, CallForms
    <2>5. f = c \o d /\ c \in Seq(Functions) /\ d \in Seq(Functions)
      BY <1>7, <2>1, <2>2, <2>4
    <2>6. /\ f \in Seq(Functions)
          /\ \A k \in 1 .. Len(f) :
              \/ k \in 1 .. Len(c) /\ f[k] = c[k]
              \/ k > Len(c) /\ k - Len(c) \in 1 .. Len(d) /\ f[k] = d[k - Len(c)]
          /\ \A k \in 1 .. Len(c) : k \in 1 .. Len(f) /\ f[k] = c[k]
      BY <2>5, Joined
    <2>7. ~Occurs(Inner, f)
      BY <2>2, <2>4, <2>6 DEF Occurs
    <2>8. ASSUME NEW k \in 1 .. Len(f), f[k] = "detach_tr_source"
          PROVE  k > 1 /\ k - 1 \in 1 .. Len(f) /\ f[k - 1] = "detach_tr_sink"
      <3>1. k \in 1 .. Len(c) /\ c[k] = "detach_tr_source"
        BY <2>4, <2>6, <2>8
      <3>2. k > 1 /\ k - 1 \in 1 .. Len(c) /\ c[k - 1] = "detach_tr_sink"
        BY <2>3, <3>1
      <3> QED
        BY <3>2, <2>6
    <2> QED
      BY <2>6, <2>7, <2>8
  <1>9. cs \in Seq(Functions) /\ ~Occurs(Inner, cs) /\ (S.fd \/ cs = <<>>) /\ (cs = <<>> \/ cs = f)
    <2>1. CASE S.fd /\ S.onClose
      <3>1. cs = f
        BY <1>3, <1>7, <2>1 DEF If
      <3> QED
        BY <3>1, <1>8, <2>1
    <2>2. CASE ~(S.fd /\ S.onClose)
      <3>1. cs = <<>>
        BY <1>3, <2>2 DEF If
      <3>2. cs \in Seq(Functions)
        BY <3>1
      <3>3. ~Occurs(Inner, cs)
        BY <3>1, CallForms
      <3>4. S.fd => S.onClose
        BY <1>1, Attends
      <3> QED
        BY <3>1, <3>2, <3>3
    <2> QED
      BY <2>1, <2>2
  <1>10. /\ sock' = [sock EXCEPT ![on] = s] /\ up' = [up EXCEPT ![on] = U] /\ down' = [down EXCEPT ![on] = D]
         /\ UNCHANGED <<on, live, at, hupped, peer>> /\ calls' = cs \o Tail(calls)
    BY <1>4, <1>5 DEF Local, Call, loop
  <1>11. SinkGone'
    <2>1. CASE cs = <<>>
      <3>1. ~Occurs({"detach_tr_source"}, cs)
        BY <2>1, CallForms
      <3> QED
        BY <1>1, <1>9, <1>10, <3>1, SinkGoesFirst
    <2>2. CASE S.fd /\ cs = f
      <3>1. PICK b : b = cs \o Tail(calls)
        OBVIOUS
      <3>2. \A k \in 1 .. Len(calls) : calls[k] # "detach_tr_source"
        <4>1. ~Occurs(Undoing, calls)
          BY <1>1, <2>2, Attends
        <4> QED
          BY <4>1 DEF Occurs, Undoing
      <3>3. Preceded("detach_tr_source", "detach_tr_sink", b)
        <4>1. SUFFICES ASSUME NEW k \in 1 .. Len(b), b[k] = "detach_tr_source"
                       PROVE  k > 1 /\ b[k - 1] = "detach_tr_sink"
          BY DEF Preceded
        <4>2. k \in 1 .. Len(cs) /\ cs[k] = "detach_tr_source"
          BY <1>1, <1>2, <1>9, <3>1, <3>2, <4>1, Pushed
        <4>3. k > 1 /\ k - 1 \in 1 .. Len(cs) /\ cs[k - 1] = "detach_tr_sink"
          BY <4>2, <2>2, <1>8
        <4>4. \A j \in 1 .. Len(cs) : b[j] = cs[j]
          BY <1>1, <1>2, <1>9, <3>1, Pushed
        <4> QED
          BY <4>3, <4>4
      <3> QED
        BY <1>10, <3>1, <3>3 DEF SinkGone
    <2> QED
      BY <1>9, <2>1, <2>2
  <1>12. Sending' /\ \A x \in Conns : peer[x].rst => peer'[x].rst
    BY <1>10, SendingStays
  <1>13. \A x \in Conns : x # on => (Unplugged(x) => Unplugged(x)')
    <2>1. reg' \subseteq reg
      <3>1. CASE Deregister(on)
        BY <3>1 DEF Deregister
      <3>2. CASE UNCHANGED poller
        BY <3>2 DEF poller
      <3> QED
        BY <1>4, <3>1, <3>2
    <2> QED
      BY <2>1, <1>10 DEF Unplugged
  <1>14. PICK b : b = cs \o Tail(calls)
    OBVIOUS
  <1>15. First(Inner, cs) /\ ~Top("tr_consume", cs)
    <2>1. First(Inner, cs)
      BY <1>9 DEF First, Occurs
    <2>2. ~Top("tr_consume", cs)
      <3>1. SUFFICES ASSUME cs # <<>>
                     PROVE  cs[1] # "tr_consume"
        BY DEF Top
      <3>2. 1 \in 1 .. Len(cs)
        BY <3>1, <1>9
      <3> QED
        BY <3>2, <1>9 DEF Occurs, Inner
    <2> QED
      BY <2>1, <2>2
  <1>16. Sized(s, U, D, peer[on], b)
    <2>1. Sized(S, U, D, peer[on], calls) /\ ~Top("tr_consume", calls)
      BY <1>1, Bounds
    <2>2. Lines(U) <= MaxLines + 1
      BY <2>1 DEF Sized
    <2>3. Cut(s, peer[on])
      BY <1>6 DEF Cut
    <2>4. ~Top("tr_consume", b)
      BY <1>1, <1>9, <1>14, <1>15, BoundCalls
    <2> QED
      BY <2>1, <2>2, <2>3, <2>4, CutBounds
  <1>17. Parted(s, U, D, peer[on], Unplugged(on)', b)
    <2>1. ~D.snk => D.fin
      BY <1>1, Bounds DEF Parted
    <2> QED
      BY <2>1, <1>6, CutParts
  <1>18. Sized(s, U, D, peer'[on], calls') /\ Parted(s, U, D, peer'[on], Unplugged(on)', calls')
    BY <1>10, <1>14, <1>16, <1>17
  <1> QED
    BY <1>1, <1>10, <1>11, <1>12, <1>13, <1>18, EffectBounds

\* Between two callbacks, no connection is about to take lines or to send some.
LEMMA RestBounds ==
  ASSUME BoundInv, calls = <<>>, NEW c \in live
  PROVE  /\ Mine(c) = <<>>
         /\ Sized(sock[c], up[c], down[c], peer[c], <<>>)
         /\ Parted(sock[c], up[c], down[c], peer[c], Unplugged(c), <<>>)
         /\ Lines(up[c]) <= MaxLines + 1
         /\ ~down[c].snk => down[c].fin
         /\ up[c].fin \/ down[c].fin => Cut(sock[c], peer[c]) \/ Unplugged(c)
  <1>1. Mine(c) = <<>>
    BY DEF Mine
  <1>2. Sized(sock[c], up[c], down[c], peer[c], <<>>) /\ Parted(sock[c], up[c], down[c], peer[c], Unplugged(c), <<>>)
    BY <1>1 DEF BoundInv
  <1>3. (\A f : ~Top(f, <<>>)) /\ ~Occurs({"on_rx_end"}, <<>>)
    BY CallForms
  <1> QED
    BY <1>1, <1>2, <1>3 DEF Sized, Parted

\* What code that is started for a connection has to find there, for the invariant to hold.
LEMMA StartBounds ==
  ASSUME BoundInv, calls = <<>>, NEW c \in Conns, live' \subseteq live \cup {c}, on' = c,
         \A x \in live : x # c =>
            /\ sock'[x] = sock[x] /\ up'[x] = up[x] /\ down'[x] = down[x]
            /\ peer[x].rst => peer'[x].rst
            /\ Unplugged(x) => Unplugged(x)',
         Sending', Preceded("detach_tr_source", "detach_tr_sink", calls'),
         Sized(sock'[c], up'[c], down'[c], peer'[c], calls'),
         Parted(sock'[c], up'[c], down'[c], peer'[c], Unplugged(c)', calls')
  PROVE  BoundInv'
  <1>1. SinkGone'
    BY DEF SinkGone
  <1>2. SUFFICES ASSUME NEW x \in live'
                 PROVE  /\ Sized(sock'[x], up'[x], down'[x], peer'[x], Mine(x)')
                        /\ Parted(sock'[x], up'[x], down'[x], peer'[x], Unplugged(x)', Mine(x)')
    BY <1>1 DEF BoundInv
  <1>3. CASE x = c
    <2>1. Mine(x)' = calls'
      BY <1>3 DEF Mine
    <2> QED
      BY <1>3, <2>1
  <1>4. CASE x # c
    <2>1. Mine(x)' = <<>>
      BY <1>4 DEF Mine
    <2>2. /\ x \in live /\ sock'[x] = sock[x] /\ up'[x] = up[x] /\ down'[x] = down[x]
          /\ peer[x].rst => peer'[x].rst
          /\ Unplugged(x) => Unplugged(x)'
      BY <1>2, <1>4
    <2>3. Sized(sock[x], up[x], down[x], peer[x], <<>>) /\ Parted(sock[x], up[x], down[x], peer[x], Unplugged(x), <<>>)
      BY <2>2, RestBounds
    <2>4. Sized(sock[x], up[x], down[x], peer'[x], <<>>) /\ Parted(sock[x], up[x], down[x], peer'[x], Unplugged(x)', <<>>)
      BY <2>2, <2>3, CutLater
    <2> QED
      BY <2>1, <2>2, <2>4
  <1> QED
    BY <1>3, <1>4

\* A connection that is destroyed receives nothing more.
LEMMA BarrierBounds ==
  ASSUME CInv, FreeOnce, EndInv, BoundInv, Barrier
  PROVE  BoundInv'
  <1>1. calls = <<>> /\ queue # <<>> /\ queue \in Seq(Conns)
    BY DEF Barrier, CInv, Control
  <1>2. PICK c : c = queue[1]
    OBVIOUS
  <1>3. 1 \in 1 .. Len(queue)
    BY <1>1
  <1>4. c \in live /\ ~sock[c].fd /\ c \in Conns
    BY <1>1, <1>2, <1>3 DEF FreeOnce, Waiting
  <1>5. on' = c /\ calls' = Dtor /\ UNCHANGED <<ends, loop, poller, live, peer>>
    BY <1>2, <1>4 DEF Barrier
  <1>6. sock' = sock /\ up' = up /\ down' = down /\ UNCHANGED <<at, hupped, reg, peer, live>>
    BY <1>5 DEF ends, loop, poller
  <1>7. ~sock[c].rd
    BY <1>4 DEF EndInv, ShutDown
  <1>8. Preceded("detach_tr_source", "detach_tr_sink", Dtor) /\ ~Top("tr_consume", Dtor)
    BY DEF Preceded, Top, Dtor
  <1>9. /\ Sized(sock[c], up[c], down[c], peer[c], <<>>) /\ Lines(up[c]) <= MaxLines + 1
        /\ ~down[c].snk => down[c].fin
    BY <1>1, <1>4, RestBounds
  <1>10. Cut(sock[c], peer[c])
    BY <1>7 DEF Cut
  <1>11. Sized(sock[c], up[c], down[c], peer[c], Dtor)
    BY <1>8, <1>9, <1>10, CutBounds
  <1>12. Parted(sock[c], up[c], down[c], peer[c], Unplugged(c)', Dtor)
    BY <1>7, <1>9, CutParts
  <1>13. Sending'
    BY <1>6 DEF BoundInv, Sending
  <1>14. \A x \in live : x # c =>
            /\ sock'[x] = sock[x] /\ up'[x] = up[x] /\ down'[x] = down[x]
            /\ peer[x].rst => peer'[x].rst
            /\ Unplugged(x) => Unplugged(x)'
    BY <1>6 DEF Unplugged
  <1>15. /\ Sized(sock'[c], up'[c], down'[c], peer'[c], calls')
         /\ Parted(sock'[c], up'[c], down'[c], peer'[c], Unplugged(c)', calls')
         /\ Preceded("detach_tr_source", "detach_tr_sink", calls')
    BY <1>5, <1>6, <1>8, <1>11, <1>12
  <1> QED
    BY <1>1, <1>4, <1>5, <1>6, <1>13, <1>14, <1>15, StartBounds

\* POLLHUP ends both streams, of a connection that the poller takes out.
LEMMA HungUp ==
  ASSUME NEW r \in Sock, NEW v \in IdleStream, NEW e \in IdleStream,
         NEW f \in BOOLEAN, NEW g \in BOOLEAN, NEW o \in BOOLEAN,
         NEW s, NEW u, NEW d,
         s = [r EXCEPT !.wr = o], u = [v EXCEPT !.fin = f], d = [e EXCEPT !.fin = g]
  PROVE  /\ s.rd = r.rd
         /\ u.snk = v.snk /\ u.full = v.full /\ Lines(u) = Lines(v)
         /\ d.snk = e.snk /\ d.full = e.full /\ Lines(d) = Lines(e) /\ (Empty(d) <=> Empty(e))
         /\ d.fin = g
  <1>1. s.rd = r.rd
    BY WrSet
  <1>2. u.full = v.full /\ d.full = e.full /\ d.fin = g
    BY FinSet
  <1>3. u \in IdleStream /\ u.snk = v.snk /\ u.buf = v.buf
    BY StreamFilled
  <1>4. d \in IdleStream /\ d.snk = e.snk /\ d.buf = e.buf
    BY StreamFilled
  <1> QED
    BY <1>1, <1>2, <1>3, <1>4, LinesSame

\* A callback that the poller starts.
LEMMA OnConnBounds ==
  ASSUME CInv, EndInv, BoundInv, NEW c \in Conns, OnConn(c)
  PROVE  BoundInv'
  <1>1. /\ calls = <<>> /\ UNCHANGED <<live, peer, reg>> /\ on' = c /\ c \in reg /\ at = None
        /\ at' = c /\ hupped' = ("HUP" \in revents[c])
    BY DEF OnConn, Deliver, Idle
  <1>2. up \in [Conns -> IdleStream] /\ down \in [Conns -> IdleStream]
        /\ sock \in [Conns -> Sock] /\ live \subseteq Conns /\ Conns \subseteq Evts /\ None \notin Evts
    BY ServerAssumption DEF CInv, Control, EndInv, StreamTypes, Evts
  <1>3. c \in live
    BY <1>1 DEF CInv, Registered
  <1>4. up[c] \in IdleStream /\ down[c] \in IdleStream /\ sock[c] \in Sock
    BY <1>2
  <1>5. ~Unplugged(c)
    BY <1>1, <1>2 DEF Unplugged
  <1>6. /\ \A x \in Conns : x # c => sock'[x] = sock[x] /\ up'[x] = up[x] /\ down'[x] = down[x]
        /\ sock'[c].rd = sock[c].rd
        /\ up'[c].snk = up[c].snk /\ up'[c].full = up[c].full /\ Lines(up'[c]) = Lines(up[c])
        /\ down'[c].snk = down[c].snk /\ down'[c].full = down[c].full
        /\ Lines(down'[c]) = Lines(down[c]) /\ (Empty(down'[c]) <=> Empty(down[c]))
        /\ down[c].fin => down'[c].fin
        /\ "HUP" \notin revents[c] => up'[c] = up[c] /\ down'[c] = down[c]
    <2>1. CASE "HUP" \in revents[c]
      <3>1. PICK f, g, o : f = (up[c].fin \/ up[c].src) /\ g = (down[c].fin \/ down[c].snk) /\ o = FALSE
        OBVIOUS
      <3>2. PICK u, d, s : u = [up[c] EXCEPT !.fin = f] /\ d = [down[c] EXCEPT !.fin = g] /\ s = [sock[c] EXCEPT !.wr = o]
        OBVIOUS
      <3>3. sock' = [sock EXCEPT ![c].wr = FALSE] /\ up' = [up EXCEPT ![c].fin = @ \/ up[c].src]
            /\ down' = [down EXCEPT ![c].fin = @ \/ down[c].snk]
        BY <2>1 DEF OnConn
      <3>4. sock' = [sock EXCEPT ![c] = s]
        BY <3>1, <3>2, <3>3
      <3>5. up' = [up EXCEPT ![c] = u]
        BY <3>1, <3>2, <3>3
      <3>6. down' = [down EXCEPT ![c] = d]
        BY <3>1, <3>2, <3>3
      <3>7. PICK r, v, e : r = sock[c] /\ v = up[c] /\ e = down[c]
        OBVIOUS
      <3>8. /\ s.rd = r.rd
            /\ u.snk = v.snk /\ u.full = v.full /\ Lines(u) = Lines(v)
            /\ d.snk = e.snk /\ d.full = e.full /\ Lines(d) = Lines(e) /\ (Empty(d) <=> Empty(e))
            /\ d.fin = g
        <4>1. r \in Sock /\ v \in IdleStream /\ e \in IdleStream
          BY <3>7, <1>4
        <4>2. f \in BOOLEAN /\ g \in BOOLEAN /\ o \in BOOLEAN
          BY <3>1
        <4>3. s = [r EXCEPT !.wr = o] /\ u = [v EXCEPT !.fin = f] /\ d = [e EXCEPT !.fin = g]
          BY <3>2, <3>7
        <4> QED
          BY <4>1, <4>2, <4>3, HungUp
      <3>9. sock'[c] = s /\ up'[c] = u /\ down'[c] = d
        BY <3>4, <3>5, <3>6, <1>2
      <3>10. \A x \in Conns : x # c => sock'[x] = sock[x] /\ up'[x] = up[x] /\ down'[x] = down[x]
        BY <3>4, <3>5, <3>6, <1>2
      <3> QED
        BY <2>1, <3>1, <3>7, <3>8, <3>9, <3>10
    <2>2. CASE "HUP" \notin revents[c]
      <3>1. sock' = sock /\ up' = up /\ down' = down
        BY <2>2 DEF OnConn
      <3> QED
        BY <3>1
    <2> QED
      BY <2>1, <2>2
  <1>7. /\ \A X : Occurs(X, calls') => "flow_rx" \in X \/ "flow_tx" \in X
        /\ ~Top("on_tx", calls') /\ ~Top("tr_consume", calls')
    <2>1. calls' = If(revents[c] \cap {"IN", "RDHUP", "HUP"} # {}, <<"flow_rx">>)
                   \o If(revents[c] \cap {"OUT", "HUP"} # {}, <<"flow_tx">>)
      BY DEF OnConn
    <2> QED
      BY <2>1, ConnCalls
  <1>8. ~Occurs({"detach_tx"}, calls') /\ Preceded("detach_tr_source", "detach_tr_sink", calls')
    <2>1. ~Occurs({"detach_tx"}, calls') /\ ~Occurs({"detach_tr_source"}, calls')
      BY <1>7
    <2> QED
      BY <2>1 DEF Occurs, Preceded
  <1>9. /\ Sized(sock[c], up[c], down[c], peer[c], <<>>) /\ Lines(up[c]) <= MaxLines + 1
        /\ ~down[c].snk => down[c].fin
        /\ up[c].fin \/ down[c].fin => Cut(sock[c], peer[c])
    BY <1>1, <1>3, <1>5, RestBounds
  <1>10. Cut(sock[c], peer[c]) <=> Cut(sock'[c], peer'[c])
    BY <1>1, <1>6 DEF Cut
  <1>11. Sized(sock'[c], up'[c], down'[c], peer'[c], calls')
    <2>1. ~Top("tr_consume", <<>>) /\ ~Top("on_tx", <<>>)
      BY CallForms
    <2>2. Blocks(down[c]) <=> Blocks(down'[c])
      BY <1>6 DEF Blocks
    <2> QED
      BY <2>1, <2>2, <1>6, <1>7, <1>9, <1>10, StillBounds
  <1>12. Parted(sock'[c], up'[c], down'[c], peer'[c], Unplugged(c)', calls')
    <2>1. ~down'[c].snk => down'[c].fin
      BY <1>6, <1>9
    <2>2. ~down'[c].snk => Cut(sock'[c], peer'[c])
      BY <1>6, <1>9, <1>10
    <2>3. up'[c].fin \/ down'[c].fin => Cut(sock'[c], peer'[c]) \/ Unplugged(c)'
      <3>1. CASE "HUP" \in revents[c]
        BY <3>1, <1>1 DEF Unplugged
      <3>2. CASE "HUP" \notin revents[c]
        BY <3>2, <1>6, <1>9, <1>10
      <3> QED
        BY <3>1, <3>2
    <2> QED
      BY <2>1, <2>2, <2>3, <1>8 DEF Parted
  <1>13. \A x \in live : x # c =>
            /\ sock'[x] = sock[x] /\ up'[x] = up[x] /\ down'[x] = down[x]
            /\ peer[x].rst => peer'[x].rst
            /\ Unplugged(x) => Unplugged(x)'
    BY <1>1, <1>2, <1>6 DEF Unplugged
  <1>14. Sending'
    BY <1>1 DEF BoundInv, Sending
  <1> QED
    BY <1>1, <1>8, <1>11, <1>12, <1>13, <1>14, StartBounds

\* A new connection has nothing in its streams yet.
LEMMA AcceptBounds ==
  ASSUME CInv, EndInv, BoundInv, NEW c \in Conns, Accept(c)
  PROVE  BoundInv'
  <1>1. /\ calls = <<>> /\ c \notin live /\ live' = live \cup {c} /\ at = Srv
        /\ sock' = [sock EXCEPT ![c] = NewSock]
        /\ up' = [up EXCEPT ![c] = NewStream] /\ down' = [down EXCEPT ![c] = NewStream]
        /\ on' = c /\ calls' = <<"flow_tx">> /\ reg' = reg \cup {c}
        /\ UNCHANGED <<at, hupped>>
    BY DEF Accept, loop
  <1>2. PICK n \in 0 .. MaxLines : peer' = [peer EXCEPT ![c] = [NoPeer EXCEPT !.lines = n]]
    <2>1. PICK n \in (IF "quiet" \in Env THEN 0 ELSE 1) .. MaxLines : peer' = [peer EXCEPT ![c] = [NoPeer EXCEPT !.lines = n]]
      BY DEF Accept
    <2>2. n \in 0 .. MaxLines
      BY ServerAssumption
    <2> QED
      BY <2>1, <2>2
  <1>3. PICK q : q = [NoPeer EXCEPT !.lines = n]
    OBVIOUS
  <1>4. up \in [Conns -> IdleStream] /\ down \in [Conns -> IdleStream] /\ peer \in [Conns -> Other]
        /\ sock \in [Conns -> Sock] /\ live \subseteq Conns
    BY DEF CInv, Control, EndInv, StreamTypes
  <1>5. sock'[c] = NewSock /\ up'[c] = NewStream /\ down'[c] = NewStream /\ peer'[c] = q
    BY <1>1, <1>2, <1>3, <1>4
  <1>6. \A x \in Conns : x # c => sock'[x] = sock[x] /\ up'[x] = up[x] /\ down'[x] = down[x] /\ peer'[x] = peer[x]
    BY <1>1, <1>2, <1>4
  <1>7. \A x \in live : x # c =>
            /\ sock'[x] = sock[x] /\ up'[x] = up[x] /\ down'[x] = down[x]
            /\ peer[x].rst => peer'[x].rst
            /\ Unplugged(x) => Unplugged(x)'
    BY <1>1, <1>4, <1>6 DEF Unplugged
  <1>8. Sending'
    <2>1. q.lines = n /\ ~q.rst /\ n <= MaxLines
      BY <1>3, ServerAssumption DEF NoPeer
    <2> QED
      BY <2>1, <1>5, <1>6 DEF BoundInv, Sending
  <1>9. (\A X : Occurs(X, calls') <=> "flow_tx" \in X) /\ \A f : Top(f, calls') <=> "flow_tx" = f
    BY <1>1, CallForms
  <1>10. ~Occurs({"detach_tx"}, calls') /\ ~Top("tr_consume", calls') /\ ~Top("on_tx", calls')
         /\ Preceded("detach_tr_source", "detach_tr_sink", calls')
    <2>1. ~Occurs({"detach_tx"}, calls') /\ ~Occurs({"detach_tr_source"}, calls')
          /\ ~Top("tr_consume", calls') /\ ~Top("on_tx", calls')
      BY <1>9
    <2> QED
      BY <2>1 DEF Occurs, Preceded
  <1>11. Lines(NewStream) = 0
    BY NewFlags DEF Lines
  <1>12. Sized(NewSock, NewStream, NewStream, q, calls')
    BY <1>10, <1>11, NewFlags, ServerAssumption DEF Sized, Blocks
  <1>13. Parted(NewSock, NewStream, NewStream, q, Unplugged(c)', calls')
    BY <1>10, NewFlags DEF Parted
  <1>14. /\ Sized(sock'[c], up'[c], down'[c], peer'[c], calls')
         /\ Parted(sock'[c], up'[c], down'[c], peer'[c], Unplugged(c)', calls')
    BY <1>5, <1>12, <1>13
  <1> QED
    BY <1>1, <1>7, <1>8, <1>10, <1>14, StartBounds

\* free leaves the other connections as they are.
LEMMA FreeBounds ==
  ASSUME CInv, EndInv, BoundInv, Free
  PROVE  BoundInv'
  <1>1. calls # <<>> /\ on \in Conns
    BY DEF Free, Calling, CInv, Control
  <1>2. calls' = <<>>
    BY FreeKeeps
  <1>3. /\ live' = live \ {on} /\ sock' = [sock EXCEPT ![on] = JunkSock]
        /\ up' = [up EXCEPT ![on] = Junk] /\ down' = [down EXCEPT ![on] = Junk]
        /\ peer' = [peer EXCEPT ![on] = NoPeer] /\ UNCHANGED <<loop, poller, on>>
    BY DEF Free
  <1>4. up \in [Conns -> IdleStream] /\ down \in [Conns -> IdleStream] /\ peer \in [Conns -> Other]
        /\ sock \in [Conns -> Sock] /\ live \subseteq Conns
    BY DEF CInv, Control, EndInv, StreamTypes
  <1>5. \A x \in live' : /\ x \in live /\ x # on
                         /\ up'[x] = up[x] /\ down'[x] = down[x] /\ sock'[x] = sock[x] /\ peer'[x] = peer[x]
    BY <1>3, <1>4
  <1>6. Sending'
    <2>1. NoPeer.lines = 0 /\ NoPeer.rst = FALSE
      BY DEF NoPeer
    <2>2. peer'[on] = NoPeer /\ \A x \in Conns : x # on => peer'[x] = peer[x]
      BY <1>1, <1>3, <1>4
    <2> QED
      BY <2>1, <2>2, ServerAssumption DEF BoundInv, Sending
  <1>7. SinkGone'
    <2>1. ~Occurs({"detach_tr_source"}, calls')
      BY <1>2, CallForms
    <2> QED
      BY <2>1 DEF SinkGone, Preceded, Occurs
  <1>8. ASSUME NEW x \in live'
        PROVE  /\ Sized(sock'[x], up'[x], down'[x], peer'[x], Mine(x)')
               /\ Parted(sock'[x], up'[x], down'[x], peer'[x], Unplugged(x)', Mine(x)')
    <2>1. Mine(x) = <<>> /\ Mine(x)' = <<>>
      BY <1>2, <1>3, <1>5 DEF Mine
    <2>2. Sized(sock[x], up[x], down[x], peer[x], <<>>) /\ Parted(sock[x], up[x], down[x], peer[x], Unplugged(x), <<>>)
      BY <2>1, <1>5 DEF BoundInv
    <2>3. Unplugged(x)' <=> Unplugged(x)
      BY <1>3 DEF Unplugged, loop, poller
    <2>4. Parted(sock[x], up[x], down[x], peer[x], Unplugged(x)', <<>>)
      BY <2>2, <2>3, CutLater
    <2> QED
      BY <2>1, <2>2, <2>4, <1>5
  <1> QED
    BY <1>6, <1>7, <1>8 DEF BoundInv

\* A step that touches no connection keeps the invariant, if no peer takes back a reset.
LEMMA OthersBound ==
  ASSUME BoundInv, UNCHANGED <<ends, live, on, calls>>, Sending',
         \A x \in live : peer[x].rst => peer'[x].rst,
         \A x \in live : Unplugged(x) => Unplugged(x)'
  PROVE  BoundInv'
  <1>1. sock' = sock /\ up' = up /\ down' = down /\ live' = live /\ on' = on /\ calls' = calls
    BY DEF ends
  <1>2. SinkGone'
    BY <1>1 DEF BoundInv, SinkGone, U
  <1>3. ASSUME NEW x \in live
        PROVE  /\ Sized(sock'[x], up'[x], down'[x], peer'[x], Mine(x)')
               /\ Parted(sock'[x], up'[x], down'[x], peer'[x], Unplugged(x)', Mine(x)')
    <2>1. Mine(x)' = Mine(x)
      BY <1>1 DEF Mine
    <2>2. Sized(sock[x], up[x], down[x], peer[x], Mine(x)) /\ Parted(sock[x], up[x], down[x], peer[x], Unplugged(x), Mine(x))
      BY DEF BoundInv
    <2>3. /\ Sized(sock[x], up[x], down[x], peer'[x], Mine(x))
          /\ Parted(sock[x], up[x], down[x], peer'[x], Unplugged(x)', Mine(x))
      BY <2>2, CutLater
    <2> QED
      BY <2>1, <2>3, <1>1
  <1> QED
    BY <1>1, <1>2, <1>3 DEF BoundInv

\* What the loop does between two callbacks: what POLLHUP was reported for is taken out.
LEMMA LoopBounds ==
  ASSUME CInv, BoundInv, Listen \/ Poll \/ Return \/ Finish \/ HupAll \/ NextRound
  PROVE  BoundInv'
  <1>1. UNCHANGED <<ends, live, on, calls>> /\ peer' = peer
    BY DEF Listen, Poll, Return, Finish, HupAll, NextRound, Idle
  <1>2. live \subseteq Conns /\ Srv \notin Conns
    BY ServerAssumption DEF CInv, Control
  <1>3. Sending'
    BY <1>1 DEF BoundInv, Sending
  <1>4. SUFFICES ASSUME NEW x \in live, Unplugged(x)
                 PROVE  Unplugged(x)'
    BY <1>1, <1>3, OthersBound
  <1>5. CASE Listen
    <2>1. reg' = {Srv}
      BY <1>5 DEF Listen
    <2> QED
      BY <2>1, <1>2 DEF Unplugged
  <1>6. CASE Return
    <2>1. CASE hupped /\ at \in reg
      <3>1. reg' = reg \ {at}
        BY <1>6, <2>1 DEF Return, Deregister
      <3> QED
        BY <3>1, <1>4 DEF Unplugged
    <2>2. CASE ~(hupped /\ at \in reg)
      <3>1. reg' = reg
        BY <1>6, <2>2 DEF Return, poller
      <3> QED
        BY <3>1, <2>2, <1>4 DEF Unplugged
    <2> QED
      BY <2>1, <2>2
  <1>7. CASE Poll \/ HupAll \/ Finish \/ NextRound
    <2>1. UNCHANGED <<reg, at, hupped>>
      BY <1>7 DEF Poll, HupAll, Finish, NextRound, poller
    <2> QED
      BY <2>1, <1>4 DEF Unplugged
  <1> QED
    BY <1>5, <1>6, <1>7

\* The callback of the listening socket starts with no connection.
LEMMA OnAcceptBounds ==
  ASSUME CInv, BoundInv, OnAccept
  PROVE  BoundInv'
  <1>1. UNCHANGED <<ends, live, on, calls, reg, peer>> /\ at = None
    BY DEF OnAccept, Deliver, ends, Idle
  <1>2. live \subseteq Conns /\ None \notin Conns
    BY ServerAssumption DEF CInv, Control, Evts
  <1>3. Sending'
    BY <1>1 DEF BoundInv, Sending
  <1>4. \A x \in live : Unplugged(x) => Unplugged(x)'
    BY <1>1, <1>2 DEF Unplugged
  <1> QED
    BY <1>1, <1>3, <1>4, OthersBound

\* What the peers do, and a signal.
LEMMA WorldBounds ==
  ASSUME EndInv, BoundInv, World
  PROVE  BoundInv'
  <1>1. UNCHANGED <<ends, live, on, calls, reg, at, hupped>>
    BY DEF World, Signal, PeerSends, PeerFinishes, PeerReads, PeerResets, PeerDoes, loop, poller
  <1>2. peer \in [Conns -> Other]
    BY DEF EndInv, StreamTypes
  <1>3. Sending' /\ \A x : peer[x].rst => peer'[x].rst
    <2>1. CASE Signal
      BY <2>1 DEF Signal, BoundInv, Sending
    <2>2. ASSUME NEW c \in Conns, PeerSends(c) \/ PeerFinishes(c) \/ PeerReads(c) \/ PeerResets(c)
          PROVE  Sending' /\ \A x : peer[x].rst => peer'[x].rst
      <3>1. peer[c] \in Other /\ peer[c].lines <= MaxLines /\ (peer[c].rst => peer[c].lines = 0)
        BY <1>2 DEF BoundInv, Sending
      <3>2. PICK p : /\ peer' = [peer EXCEPT ![c] = p]
                     /\ p.lines <= MaxLines /\ (p.rst => p.lines = 0) /\ (peer[c].rst => p.rst)
        <4>1. CASE PeerSends(c)
          <5>1. PICK p : p = [peer[c] EXCEPT !.lines = @ + 1]
            OBVIOUS
          <5>2. ~peer[c].rst /\ peer[c].lines < MaxLines /\ peer' = [peer EXCEPT ![c] = p]
            BY <4>1, <5>1 DEF PeerSends
          <5>3. p.lines = peer[c].lines + 1 /\ p.rst = peer[c].rst
            BY <3>1, <5>1 DEF Other
          <5>4. p.lines <= MaxLines
            BY <5>2, <5>3, <3>1, ServerAssumption DEF Other
          <5> QED
            BY <5>2, <5>3, <5>4
        <4>2. CASE PeerFinishes(c)
          <5>1. PICK p : p = [peer[c] EXCEPT !.eof = TRUE]
            OBVIOUS
          <5>2. peer' = [peer EXCEPT ![c] = p]
            BY <4>2, <5>1 DEF PeerFinishes
          <5>3. p.lines = peer[c].lines /\ p.rst = peer[c].rst
            BY <3>1, <5>1 DEF Other
          <5> QED
            BY <3>1, <5>2, <5>3
        <4>3. CASE PeerReads(c)
          <5>1. PICK p : p = [peer[c] EXCEPT !.room = TRUE]
            OBVIOUS
          <5>2. peer' = [peer EXCEPT ![c] = p]
            BY <4>3, <5>1 DEF PeerReads
          <5>3. p.lines = peer[c].lines /\ p.rst = peer[c].rst
            BY <3>1, <5>1 DEF Other
          <5> QED
            BY <3>1, <5>2, <5>3
        <4>4. CASE PeerResets(c)
          <5>1. ~peer[c].rst
            BY <4>4 DEF PeerResets
          <5>2. PICK p : p = [peer[c] EXCEPT !.rst = TRUE, !.lines = 0]
            OBVIOUS
          <5>3. peer' = [peer EXCEPT ![c] = p]
            BY <4>4, <5>2, <1>2 DEF PeerResets
          <5>4. p.lines = 0
            BY <3>1, <5>2 DEF Other
          <5>5. 0 <= MaxLines
            BY ServerAssumption
          <5> QED
            BY <5>1, <5>3, <5>4, <5>5
        <4> QED
          BY <2>2, <4>1, <4>2, <4>3, <4>4
      <3>3. peer'[c] = p /\ \A x \in Conns : x # c => peer'[x] = peer[x]
        BY <3>2, <1>2
      <3>4. Sending'
        BY <3>2, <3>3 DEF BoundInv, Sending
      <3>5. \A x : peer[x].rst => peer'[x].rst
        BY <3>2, <1>2
      <3> QED
        BY <3>4, <3>5
    <2> QED
      BY <2>1, <2>2 DEF World
  <1>4. \A x \in live : Unplugged(x) => Unplugged(x)'
    BY <1>1 DEF Unplugged
  <1> QED
    BY <1>1, <1>3, <1>4, OthersBound

\* Every step keeps it.
LEMMA NextBounds ==
  ASSUME CInv, FreeOnce, EndInv, AttendInv, BoundInv, [Next]_vars
  PROVE  BoundInv'
  <1>1. CASE UNCHANGED vars
    <2>1. UNCHANGED <<ends, live, on, calls, reg, at, hupped, peer>>
      BY <1>1 DEF vars, loop, poller
    <2>2. Sending'
      BY <2>1 DEF BoundInv, Sending
    <2>3. \A x \in live : Unplugged(x) => Unplugged(x)'
      BY <2>1 DEF Unplugged
    <2> QED
      BY <2>1, <2>2, <2>3, OthersBound
  <1>2. CASE Step
    BY <1>2, UndoBounds, DetachRxBounds, DetachTxBounds, FlowBounds, OnRxEndBounds, CloseIfDoneBounds,
       TrConsumeBounds, TrProvideBounds, OnRxBounds, OnTxBounds, SockCloseBounds,
       ConnDtorBounds, BarrierBounds, FreeBounds DEF Step
  <1>3. CASE Main
    BY <1>3, LoopBounds, OnAcceptBounds, OnConnBounds, AcceptBounds DEF Main
  <1>4. CASE World
    BY <1>4, WorldBounds
  <1> QED
    BY <1>1, <1>2, <1>3, <1>4 DEF Next

\* Before main has listened there is no connection, and nobody has sent anything.
LEMMA InitBounds ==
  ASSUME Init
  PROVE  BoundInv
  <1>1. calls = <<>> /\ live = {} /\ peer = [c \in Conns |-> NoPeer]
    BY DEF Init
  <1>2. SinkGone
    <2>1. ~Occurs({"detach_tr_source"}, calls)
      BY <1>1, CallForms
    <2> QED
      BY <2>1 DEF SinkGone, Preceded, Occurs
  <1>3. Sending
    <2>1. NoPeer.lines = 0
      BY DEF NoPeer
    <2>2. \A c \in Conns : peer[c] = NoPeer
      BY <1>1
    <2>3. 0 <= MaxLines
      BY ServerAssumption
    <2> QED
      BY <2>1, <2>2, <2>3 DEF Sending
  <1> QED
    BY <1>1, <1>2, <1>3 DEF BoundInv

-----------------------------------------------------------------------------
(* The types of the variables: TypeOK *)

Phases == {"start", "poll", "process", "check", "hup", "barrier", "done"}

\* The simple types, and what is left of memory that is not allocated.
Simple ==
    /\ hupped \in BOOLEAN /\ phase \in Phases /\ exit \in BOOLEAN
    /\ \A c \in Conns \ live : up[c] = Junk /\ down[c] = Junk

\* The code of a connection changes that connection, or the program stops.
LEMMA StepsLocally ==
  ASSUME Step
  PROVE  \/ calls # <<>> /\ \E s, u, d, cs : Local(s, u, d, cs)
         \/ \E why : Abort(why)
         \/ Barrier \/ Free
  <1> DEFINE Acts == (calls # <<>> /\ \E s, u, d, cs : Local(s, u, d, cs)) \/ \E why : Abort(why)
  <1>1. CASE DetachRx \/ RxDetached \/ DetachTx
    BY <1>1 DEF DetachRx, RxDetached, DetachTx, Calling
  <1>2. CASE DetachTrSink \/ DetachTrSource \/ TrSourceDetached
    BY <1>2 DEF DetachTrSink, DetachTrSource, TrSourceDetached, Calling
  <1>3. CASE TrConsume
    BY <1>3 DEF TrConsume, Transduce, Calling
  <1>4. CASE TrProvide \/ TrClose
    BY <1>4 DEF TrProvide, TrClose, Calling
  <1>5. CASE FlowRx \/ FlowTx \/ OnRxEnd \/ CloseIfDone
    BY <1>5 DEF FlowRx, FlowTx, OnRxEnd, CloseIfDone, Calling
  <1>6. CASE OnRx
    <2>1. \A s, u : Received(s, u) => \E r, v, d, cs : Local(r, v, d, cs)
      BY DEF Received
    <2> QED
      BY <1>6, <2>1 DEF OnRx, Calling
  <1>7. CASE OnTx
    <2>1. \A s, d : Sent(s, d) => \E r, u, e, cs : Local(r, u, e, cs)
      BY DEF Sent
    <2>2. SendFails => \E r, u, e, cs : Local(r, u, e, cs)
      BY <2>1 DEF SendFails
    <2>3. SendsAll \/ SendsPart => \E r, u, e, cs : Local(r, u, e, cs)
      BY <2>1 DEF SendsAll, SendsPart
    <2> QED
      BY <1>7, <2>1, <2>2, <2>3 DEF OnTx, Calling
  <1>8. CASE SockClose \/ Closed \/ CallRcu \/ ConnDtor
    BY <1>8 DEF SockClose, Closed, CallRcu, ConnDtor, Calling
  <1> QED
    BY <1>1, <1>2, <1>3, <1>4, <1>5, <1>6, <1>7, <1>8 DEF Step

\* Every step keeps them.
LEMMA NextSimple ==
  ASSUME CInv, EndInv, Simple, [Next]_vars
  PROVE  Simple'
  <1>1. up \in [Conns -> IdleStream] /\ down \in [Conns -> IdleStream] /\ live \subseteq Conns /\ on \in Conns
        /\ (calls # <<>> => on \in live)
    BY DEF CInv, Control, Running, EndInv, StreamTypes
  <1>2. hupped' \in BOOLEAN /\ phase' \in Phases /\ exit' \in BOOLEAN
    <2>1. CASE UNCHANGED vars
      BY <2>1 DEF vars, loop, Simple
    <2>2. CASE Step
      <3>1. UNCHANGED loop
        BY <2>2, StepsLocally DEF Local, Abort, Barrier, Free
      <3> QED
        BY <3>1 DEF loop, Simple
    <2>3. CASE Main
      <3>1. CASE Listen \/ Poll \/ Return \/ Finish \/ HupAll \/ NextRound
        BY <3>1 DEF Listen, Poll, Return, Finish, HupAll, NextRound, Simple, Phases
      <3>2. CASE OnAccept
        BY <3>2 DEF OnAccept, Deliver, Simple
      <3>3. ASSUME NEW c \in Conns, OnConn(c)
            PROVE  hupped' \in BOOLEAN /\ phase' \in Phases /\ exit' \in BOOLEAN
        BY <3>3 DEF OnConn, Deliver, Simple
      <3>4. ASSUME NEW c \in Conns, Accept(c)
            PROVE  hupped' \in BOOLEAN /\ phase' \in Phases /\ exit' \in BOOLEAN
        BY <3>4 DEF Accept, loop, Simple
      <3> QED
        BY <2>3, <3>1, <3>2, <3>3, <3>4 DEF Main
    <2>4. CASE World
      <3>1. CASE Signal
        BY <3>1 DEF Signal, Simple, Phases
      <3>2. ASSUME NEW c \in Conns, PeerDoes(c)
            PROVE  hupped' \in BOOLEAN /\ phase' \in Phases /\ exit' \in BOOLEAN
        BY <3>2 DEF PeerDoes, loop, Simple
      <3> QED
        BY <2>4, <3>1, <3>2 DEF World, PeerSends, PeerFinishes, PeerReads, PeerResets
    <2> QED
      BY <2>1, <2>2, <2>3, <2>4 DEF Next
  <1>3. \A c \in Conns \ live' : up'[c] = Junk /\ down'[c] = Junk
    <2>1. SUFFICES ASSUME NEW c \in Conns, c \notin live'
                   PROVE  up'[c] = Junk /\ down'[c] = Junk
      OBVIOUS
    <2>2. ASSUME UNCHANGED <<ends, live>>
          PROVE  up'[c] = Junk /\ down'[c] = Junk
      BY <2>1, <2>2 DEF Simple, ends
    <2>3. CASE Step
      <3>1. ASSUME calls # <<>>, NEW s, NEW u, NEW d, NEW cs, Local(s, u, d, cs)
            PROVE  up'[c] = Junk /\ down'[c] = Junk
        <4>1. up' = [up EXCEPT ![on] = u] /\ down' = [down EXCEPT ![on] = d] /\ live' = live
          BY <3>1 DEF Local
        <4>2. c # on /\ c \notin live
          BY <4>1, <3>1, <2>1, <1>1
        <4> QED
          BY <4>1, <4>2, <1>1 DEF Simple
      <3>2. ASSUME (\E why : Abort(why)) \/ Barrier
            PROVE  UNCHANGED <<ends, live>>
        BY <3>2 DEF Abort, Barrier
      <3>3. CASE Free
        <4>1. up' = [up EXCEPT ![on] = Junk] /\ down' = [down EXCEPT ![on] = Junk] /\ live' = live \ {on}
          BY <3>3 DEF Free
        <4> QED
          BY <4>1, <2>1, <1>1 DEF Simple
      <3> QED
        BY <2>2, <2>3, <3>1, <3>2, <3>3, StepsLocally
    <2>4. CASE Main
      <3>1. ASSUME Listen \/ Poll \/ Return \/ Finish \/ HupAll \/ NextRound \/ OnAccept
            PROVE  UNCHANGED <<ends, live>>
        BY <3>1 DEF Listen, Poll, Return, Finish, HupAll, NextRound, OnAccept, Deliver, ends
      <3>2. ASSUME NEW x \in Conns, OnConn(x)
            PROVE  up'[c] = Junk /\ down'[c] = Junk
        <4>1. x \in live /\ live' = live
          BY <3>2 DEF OnConn, Deliver, CInv, Registered
        <4>2. /\ up' = up \/ \E b : up' = [up EXCEPT ![x].fin = b]
              /\ down' = down \/ \E b : down' = [down EXCEPT ![x].fin = b]
          BY <3>2 DEF OnConn
        <4>3. c # x
          BY <4>1, <2>1
        <4>4. up'[c] = up[c] /\ down'[c] = down[c]
          BY <4>2, <4>3, <1>1
        <4> QED
          BY <4>1, <4>4, <2>1 DEF Simple
      <3>3. ASSUME NEW x \in Conns, Accept(x)
            PROVE  up'[c] = Junk /\ down'[c] = Junk
        <4>1. up' = [up EXCEPT ![x] = NewStream] /\ down' = [down EXCEPT ![x] = NewStream] /\ live' = live \cup {x}
          BY <3>3 DEF Accept
        <4> QED
          BY <4>1, <2>1, <1>1 DEF Simple
      <3> QED
        BY <2>2, <2>4, <3>1, <3>2, <3>3 DEF Main
    <2>5. CASE World
      <3>1. UNCHANGED <<ends, live>>
        BY <2>5 DEF World, Signal, PeerSends, PeerFinishes, PeerReads, PeerResets, PeerDoes
      <3> QED
        BY <2>2, <3>1
    <2>6. CASE UNCHANGED vars
      BY <2>2, <2>6 DEF vars
    <2> QED
      BY <2>3, <2>4, <2>5, <2>6 DEF Next
  <1> QED
    BY <1>2, <1>3 DEF Simple

\* A stream of the invariants has the type that the model declares.
LEMMA StreamTyped ==
  ASSUME NEW t \in IdleStream, Lines(t) <= 2 * MaxLines + 1
  PROVE  t \in Stream
  <1>1. t.buf \in {NoBuffer} \cup Nat /\ (t.buf # NoBuffer => t.buf <= 2 * MaxLines + 1)
    BY StreamSet, LinesOf
  <1>2. t.buf \in -1 .. 2 * MaxLines + 1
    BY <1>1, ServerAssumption DEF NoBuffer
  <1>3. 0 \in -1 .. 0
    OBVIOUS
  <1> QED
    BY <1>2, <1>3 DEF IdleStream, Stream

\* If the transducer of a connection has no on_close callback and no peer is quiet, backpressure
\* bounds the buffers of a connection, whatever its peer sends and however slowly it reads: each
\* holds at most what came in at once on top of what one reading had left of the one before.
THEOREM AlwaysTyped ==
  ASSUME ~TrCloses, "quiet" \notin Env
  PROVE  Spec => []TypeOK
  <1>1. Init => BoundInv /\ Simple
    <2>1. Init => Simple
      BY DEF Init, Simple, Phases
    <2> QED
      BY <2>1, InitBounds
  <1>2. CInv /\ FreeOnce /\ EndInv /\ AttendInv /\ BoundInv /\ Simple /\ [Next]_vars => (BoundInv /\ Simple)'
    BY NextBounds, NextSimple
  <1>3. CInv /\ EndInv /\ BoundInv /\ Simple => TypeOK
    <2>1. SUFFICES ASSUME CInv, EndInv, BoundInv, Simple
                   PROVE  TypeOK
      OBVIOUS
    <2>2. up \in [Conns -> IdleStream] /\ down \in [Conns -> IdleStream] /\ peer \in [Conns -> Other]
      BY <2>1 DEF EndInv, StreamTypes
    <2>3. \A c \in Conns : Lines(up[c]) <= 2 * MaxLines + 1 /\ Lines(down[c]) <= 2 * MaxLines + 1
      <3>1. SUFFICES ASSUME NEW c \in Conns
                     PROVE  Lines(up[c]) <= 2 * MaxLines + 1 /\ Lines(down[c]) <= 2 * MaxLines + 1
        OBVIOUS
      <3>2. CASE c \in live
        <4>1. Sized(sock[c], up[c], down[c], peer[c], Mine(c))
          BY <2>1, <3>2 DEF BoundInv
        <4>2. PICK n, m : n = Lines(up[c]) /\ m = Lines(down[c])
          OBVIOUS
        <4>3. n \in Nat /\ m \in Nat
          BY <4>2, <2>2, <3>1, LinesOf
        <4>4. (n <= MaxLines + 1 \/ n <= 2 * MaxLines + 1) /\ m <= 2 * MaxLines + 1
          BY <4>1, <4>2 DEF Sized
        <4>5. MaxLines \in Nat
          BY ServerAssumption
        <4>6. n <= 2 * MaxLines + 1
          BY <4>3, <4>4, <4>5
        <4> QED
          BY <4>2, <4>4, <4>6
      <3>3. CASE c \notin live
        <4>1. up[c] = Junk /\ down[c] = Junk
          BY <2>1, <3>3 DEF Simple
        <4>2. Junk.buf = NoBuffer
          BY DEF Junk, NewStream
        <4>3. Lines(Junk) = 0
          BY <4>2 DEF Lines, Empty, NoBuffer
        <4>4. 0 <= 2 * MaxLines + 1
          BY ServerAssumption
        <4> QED
          BY <4>1, <4>3, <4>4
      <3> QED
        BY <3>2, <3>3
    <2>4. up \in [Conns -> Stream] /\ down \in [Conns -> Stream]
      <3>1. \A c \in Conns : up[c] \in Stream /\ down[c] \in Stream
        BY <2>2, <2>3, StreamTyped
      <3> QED
        BY <2>2, <3>1
    <2>5. peer \in [Conns -> [lines : 0 .. MaxLines, eof : BOOLEAN, rst : BOOLEAN, room : BOOLEAN]]
      <3>1. \A c \in Conns : peer[c] \in Other /\ peer[c].lines <= MaxLines
        BY <2>1, <2>2 DEF BoundInv, Sending
      <3>2. ASSUME NEW p \in Other, p.lines <= MaxLines
            PROVE  p \in [lines : 0 .. MaxLines, eof : BOOLEAN, rst : BOOLEAN, room : BOOLEAN]
        <4>1. p.lines \in 0 .. MaxLines
          BY <3>2, ServerAssumption DEF Other
        <4> QED
          BY <4>1 DEF Other
      <3>3. \A c \in Conns : peer[c] \in [lines : 0 .. MaxLines, eof : BOOLEAN, rst : BOOLEAN, room : BOOLEAN]
        BY <3>1, <3>2
      <3> QED
        BY <2>2, <3>3
    <2> QED
      BY <2>1, <2>4, <2>5 DEF TypeOK, CInv, Control, Simple, Phases, EndInv
  <1> QED
    BY <1>1, <1>2, <1>3, AttendInvariant, PTL DEF Spec
=============================================================================
