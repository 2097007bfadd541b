----------------------------- MODULE AemStringbuf -----------------------------
(***************************************************************************)
(* stringbuf.c: one string buffer, on the heap or in a buffer of its       *)
(* owner's, allocations that fail, and the text that callers have written. *)
(* Cells are not modelled, the text in them is.                            *)
(***************************************************************************)
EXTENDS AemSlots, SequencesExt

CONSTANTS
    Chars,    \* characters, among them Space
    Space,
    Lent,     \* sizes of the buffers that owners lend
    TextMax,  \* bound: characters written
    Unsafe    \* calls that are made although they do not cope with a failed allocation

ASSUME StringbufAssumption ==
    /\ Space \in Chars
    /\ Lent \subseteq Nat \ {0} /\ TextMax \in Nat
    /\ Unsafe \subseteq {"vprintf", "assign", "read", "pop_front"}

VARIABLES sb,    \* the struct: text is the first n cells of s
          full   \* history: what it would hold with endless memory

sbVars == <<sb, full>>

OnHeap == [text |-> <<>>, maxn |-> 0, heap |-> TRUE, bad |-> FALSE, fixed |-> FALSE]
Borrowed(maxn, fixed) == [OnHeap EXCEPT !.maxn = maxn, !.heap = FALSE, !.fixed = fixed]

SbInit ==
    /\ sb \in {OnHeap} \cup {Borrowed(maxn, fixed) : maxn \in Lent, fixed \in BOOLEAN}
    /\ full = <<>>

N == Len(sb.text)
Texts == {<<a>> : a \in Chars} \cup {<<a, b>> : a, b \in Chars}
Written(xs) == Len(full) + Len(xs) <= TextMax

-----------------------------------------------------------------------------
(* Storage *)

\* aem_stringbuf_grow, which only finds borrowed storage; malloc may fail.
Grow(b, maxn) ==
    IF b.bad THEN {b}
    ELSE {[b EXCEPT !.bad = TRUE]}
         \cup (IF b.fixed THEN {} ELSE {[b EXCEPT !.heap = TRUE, !.maxn = maxn]})

\* (mutant) without the room for the terminator.
ForTextOnly(len) == len

Terminated(len) == len + 1

\* What aem_stringbuf_reserve_total may do: realloc may fail.
ReservedTotal(b, len) ==
    LET need == Terminated(len) IN
    IF need <= b.maxn THEN {b}
    ELSE IF b.heap THEN {[b EXCEPT !.bad = TRUE], [b EXCEPT !.maxn = Grown(b.maxn, need)]}
    ELSE Grow(b, 2 * need)

ReservedFor(b, len) == ReservedTotal(b, Len(b.text) + len)

\* aem_stringbuf_available as an int: -1 without storage.
Available(b) == b.maxn - Len(b.text) - 1

-----------------------------------------------------------------------------
(* Appending *)

Added(b, xs) == IF b.bad THEN b ELSE [b EXCEPT !.text = @ \o xs]

\* aem_stringbuf_putc, _puts, _putn, _append, _putss
Put(xs) ==
    /\ Written(xs)
    /\ \E b \in ReservedFor(sb, Len(xs)) : sb' = Added(b, xs)
    /\ full' = full \o xs

\* aem_stringbuf_puts_limit: putc by putc, until the text has len characters.
PutsLimit(xs, len) ==
    LET fit == SubSeq(xs, 1, Min({Len(xs), Max({0, len - N})})) IN
    /\ ~sb.bad /\ Written(xs) /\ fit # <<>>
    /\ \E b1 \in ReservedFor(sb, 1) : \E b2 \in ReservedFor(Added(b1, <<fit[1]>>), 1) :
         sb' = IF Len(fit) = 1 THEN Added(b1, fit) ELSE Added(b2, Tail(fit))
    /\ full' = full \o fit

\* The second vsnprintf, and what of its text is kept. Without storage -1 is added to n, which
\* becomes SIZE_MAX: more text than any buffer has.
SecondTry(b, xs) ==
    [b EXCEPT !.text = IF Available(b) < 0 THEN [k \in 1 .. 9 * TextMax |-> Space]
                       ELSE @ \o SubSeq(xs, 1, Min({Len(xs), Available(b)}))]

Vprintf(xs) ==
    /\ ~sb.bad /\ Written(xs)
    /\ IF Len(xs) <= Available(sb) THEN sb' = Added(sb, xs)
       ELSE \E b \in ReservedFor(sb, Len(xs) + 2) :
              /\ Available(b) >= 0 \/ "vprintf" \in Unsafe
              /\ sb' = SecondTry(b, xs)
    /\ full' = full \o xs

\* aem_stringbuf_pad: len more are reserved than there are, and pad up to len.
Pad(len, c) ==
    LET xs == [k \in 1 .. len - N |-> c] IN
    /\ ~sb.bad /\ Written(xs)
    /\ \E b \in ReservedFor(sb, len) : sb' = Added(b, xs)
    /\ full' = full \o xs

\* aem_stringbuf_assign: n is i + 1 although memory may end before it.
PutAt(i, pad, c) ==
    LET longer(s) == [k \in 1 .. Max({Len(s), i + 1}) |->
                        IF k = i + 1 THEN c ELSE IF k <= Len(s) THEN s[k] ELSE pad]
    IN
    /\ ~sb.bad \/ "assign" \in Unsafe
    /\ i < TextMax
    /\ IF i + 1 <= N THEN sb' = [sb EXCEPT !.text = longer(@)]
       ELSE \E b \in ReservedTotal(sb, i + 1) :
              /\ ~b.bad \/ "assign" \in Unsafe
              /\ sb' = [b EXCEPT !.text = longer(@)]
    /\ full' = longer(full)

\* aem_stringbuf_file_read and _fd_read of n characters, of which xs arrive.
Read(n, xs) ==
    /\ ~sb.bad \/ "read" \in Unsafe
    /\ Len(xs) <= n /\ Written(xs)
    /\ \E b \in ReservedFor(sb, n) :
         /\ ~b.bad \/ "read" \in Unsafe
         /\ sb' = [b EXCEPT !.text = @ \o xs]
    /\ full' = full \o xs

-----------------------------------------------------------------------------
(* Taking away *)

Trimmed(s) == SubSeq(s, 1, Max({0} \cup {k \in 1 .. Len(s) : s[k] # Space}))

Rtrim == sb' = [sb EXCEPT !.text = Trimmed(@)] /\ full' = Trimmed(full)

\* (mutant) one character too many is moved.
PoppedTooMuch(s, n) == SubSeq(s, n + 2, Len(s))

Popped(s, n) == SubSeq(s, n + 1, Len(s))

\* aem_stringbuf_pop_front, which forgets that a buffer was bad when nothing remains.
PopFront(n) ==
    /\ ~sb.bad \/ "pop_front" \in Unsafe
    /\ n \in 1 .. N
    /\ sb' = [sb EXCEPT !.text = Popped(@, n), !.bad = @ /\ n < N]
    /\ full' = SubSeq(full, n + 1, Len(full))

Reset == sb' = [sb EXCEPT !.text = <<>>, !.bad = FALSE] /\ full' = <<>>

\* aem_stringbuf_shrinkwrap
SbShrinkwrap ==
    /\ ~sb.fixed /\ sb.heap
    /\ sb' = [sb EXCEPT !.maxn = N + 1]
    /\ UNCHANGED full

\* aem_stringbuf_dtor, and _init_prealloc of what is left.
SbDtor == sb' = OnHeap /\ full' = <<>>
InitPrealloc(maxn) == sb = OnHeap /\ sb' \in ReservedTotal(sb, maxn) /\ full' = <<>>

SbNext ==
    \/ \E xs \in Texts : \/ Put(xs) \/ Vprintf(xs)
                         \/ \E n \in 1 .. TextMax : PutsLimit(xs, n) \/ Read(n, xs)
    \/ \E c \in Chars, n \in 0 .. TextMax : Pad(n, c) \/ PutAt(n, Space, c)
    \/ \E n \in 1 .. TextMax : PopFront(n) \/ InitPrealloc(n)
    \/ Rtrim \/ Reset \/ SbShrinkwrap \/ SbDtor

SbSpec == SbInit /\ [][SbNext]_sbVars

-----------------------------------------------------------------------------
(* Properties *)

\* There is always room for the terminator that aem_stringbuf_get writes behind the text,
\* "already allocated" (stringbuf.h:177), and an owner's fixed buffer is never given up.
BufferFits ==
    /\ N < sb.maxn \/ (N = 0 /\ sb.maxn = 0)
    /\ sb.fixed => ~sb.heap /\ sb.maxn \in Lent

\* A buffer that does not say it is bad holds everything that was written; a bad one holds
\* the beginning of it: "characters will just stop getting added once it's full" (stringbuf.h:46).
BufferKeeps == IF sb.bad THEN IsPrefix(sb.text, full) ELSE sb.text = full

\* A buffer is usable whatever failed before: within its memory and true to what it was given.
BufferHolds == BufferFits /\ BufferKeeps
=============================================================================
