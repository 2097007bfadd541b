------------------------------- MODULE AemStack -------------------------------
(***************************************************************************)
(* stack.c and memory.c: two stacks with their arrays, and the sequences   *)
(* that their callers take them for.                                       *)
(***************************************************************************)
EXTENDS AemSlots, SequencesExt

CONSTANTS Elems,    \* what is put on stacks, numbers
          StackMax  \* bound: elements on each stack

ASSUME StackAssumption == Elems \subseteq Int /\ Null \notin Elems /\ StackMax \in [{1, 2} -> Nat]

VARIABLES st,   \* the stacks: an array s of maxn cells, of which n are in use
          want  \* history: what should be on them

stackVars == <<st, want>>

Stacks == {1, 2}
Cells == Elems \cup {Null}
Junk == -2  \* memory that nobody has written

StackInit ==
    /\ st = [k \in Stacks |-> [s |-> <<>>, n |-> 0]]
    /\ want = [k \in Stacks |-> <<>>]

Shown(k) == SubSeq(k.s, 1, k.n)

-----------------------------------------------------------------------------
(* The arrays: realloc keeps what was there *)

Resized(k, maxn) == [k EXCEPT !.s = [i \in 1 .. maxn |-> IF i <= Len(k.s) THEN k.s[i] ELSE Junk]]
Reserved(k, len) == Resized(k, Grown(Len(k.s), k.n + len))

Pushed(k, x) ==
    LET g == Reserved(k, 1) IN [g EXCEPT !.s[k.n + 1] = x, !.n = k.n + 1]

\* aem_stack_pushn: memcpy of a sequence.
PushedAll(k, xs) ==
    LET g == Reserved(k, Len(xs)) IN
    [s |-> [i \in 1 .. Len(g.s) |-> IF i - k.n \in 1 .. Len(xs) THEN xs[i - k.n] ELSE g.s[i]],
     n |-> k.n + Len(xs)]

PushedInTurn(k, xs) ==
    LET after[j \in 0 .. Len(xs)] == IF j = 0 THEN k ELSE Pushed(after[j - 1], xs[j])
    IN after[Len(xs)]

\* aem_stack_pushv
PushedEach(k, xs) == PushedInTurn(Reserved(k, Len(xs)), xs)

\* (mutant) the cell at i is overwritten before it has been moved.
OneShort(s, i, j) == IF j > i + 2 THEN s[j - 1] ELSE s[j]

\* memmove from i to i + 1, and what lies in cell j after it.
MovedUp(s, i, j) == IF j > i + 1 THEN s[j - 1] ELSE s[j]

Inserted(k, i, x) ==
    LET g == Reserved(k, 1) IN
    [s |-> [j \in 1 .. Len(g.s) |->
               IF j = i + 1 THEN x ELSE IF j <= k.n + 1 THEN MovedUp(g.s, i, j) ELSE g.s[j]],
     n |-> k.n + 1]

\* aem_stack_index_p, which pushes NULLs, and the assignment.
Stored(k, i, x) ==
    LET to == IF i < k.n THEN k ELSE PushedInTurn(k, [j \in 1 .. i + 1 - k.n |-> Null])
    IN [to EXCEPT !.s[i + 1] = x]

Lost(k, i) ==
    LET s == [k.s EXCEPT ![i + 1] = Null] IN
    [s |-> s, n |-> CHOOSE n \in 0 .. k.n : IsTrimmed(SubSeq(s, 1, k.n), n)]

-----------------------------------------------------------------------------
(* The calls: what the code does, and what it is for *)

Do(k, new, meant) == st' = [st EXCEPT ![k] = new] /\ want' = [want EXCEPT ![k] = meant]
Room(k, len) == st[k].n + len <= StackMax[k]

Push(k, x) == Room(k, 1) /\ Do(k, Pushed(st[k], x), Append(want[k], x))
PushN(k, xs) == Room(k, Len(xs)) /\ Do(k, PushedAll(st[k], xs), want[k] \o xs)
PushV(k, xs) == Room(k, Len(xs)) /\ Do(k, PushedEach(st[k], xs), want[k] \o xs)

Pop(k) == st[k].n > 0 /\ Do(k, [st[k] EXCEPT !.n = @ - 1], Front(want[k]))
Trunc(k, n) == n < st[k].n /\ Do(k, [st[k] EXCEPT !.n = n], SubSeq(want[k], 1, n))

\* aem_stack_transfer of the n elements on top, and aem_stack_append of all of them, which copies.
Transfer(k, n) ==
    LET src == st[3 - k]
        top == src.n - n
    IN
    /\ n <= src.n /\ Room(k, n)
    /\ st' = [st EXCEPT ![k] = PushedAll(@, SubSeq(src.s, top + 1, src.n)),
                        ![3 - k].n = top]
    /\ want' = [want EXCEPT ![k] = @ \o SubSeq(want[3 - k], top + 1, src.n),
                            ![3 - k] = SubSeq(@, 1, top)]
AppendOther(k) ==
    Room(k, st[3 - k].n) /\ Do(k, PushedAll(st[k], Shown(st[3 - k])), want[k] \o want[3 - k])

Insert(k, i, x) ==
    /\ i <= st[k].n /\ Room(k, 1)
    /\ Do(k, Inserted(st[k], i, x), InsertAt(want[k], i + 1, x))
InsertEnd(k, i, x) ==
    /\ i <= st[k].n /\ Room(k, 1)
    /\ Do(k, Inserted(st[k], st[k].n - i, x), InsertAt(want[k], Len(want[k]) + 1 - i, x))

Assign(k, i, x) ==
    /\ i < StackMax[k]
    /\ Do(k, Stored(st[k], i, x),
          [j \in 1 .. (IF i < Len(want[k]) THEN Len(want[k]) ELSE i + 1) |->
              IF j = i + 1 THEN x ELSE Index(want[k], j - 1)])

AssignEmpty(k, x) ==
    \E i \in 0 .. st[k].n :
       /\ i < StackMax[k]
       /\ IsFirstEmpty(Shown(st[k]), i)
       /\ Do(k, Stored(st[k], i, x), Assigned(want[k], i, x))

RemoveAtIndex(k, i) ==
    /\ i < st[k].n
    /\ Do(k, Lost(st[k], i),
          LET cleared == ReplaceAt(want[k], i + 1, Null)
          IN SubSeq(cleared, 1, Max({0} \cup {j \in 1 .. Len(cleared) : cleared[j] # Null})))

Shrinkwrap(k) == Len(st[k].s) > st[k].n /\ Do(k, Resized(st[k], st[k].n), want[k])

\* qsort of a stack without empty slots.
Qsort(k) == \E p \in Bijection(1 .. st[k].n, 1 .. st[k].n) :
    /\ \A j \in 1 .. st[k].n : st[k].s[j] \in Elems
    /\ \A i, j \in 1 .. st[k].n : i < j => st[k].s[p[i]] <= st[k].s[p[j]]
    /\ Do(k, [st[k] EXCEPT !.s = [j \in 1 .. Len(@) |-> IF j <= st[k].n THEN @[p[j]] ELSE @[j]]],
          [j \in 1 .. Len(want[k]) |-> want[k][p[j]]])

\* aem_stack_dtor
Dtor(k) == Do(k, [s |-> <<>>, n |-> 0], <<>>)

StackNext == \E k \in Stacks :
    \/ \E x \in Elems : \/ Push(k, x) \/ AssignEmpty(k, x)
                        \/ \E i \in 0 .. StackMax[k] - 1 : \/ Insert(k, i, x) \/ InsertEnd(k, i, x)
                                                        \/ Assign(k, i, x)
    \/ \E x, y \in Elems : PushN(k, <<x, y>>) \/ PushV(k, <<x, y>>)
    \/ \E n \in 0 .. StackMax[k] : Trunc(k, n) \/ Transfer(k, n) \/ RemoveAtIndex(k, n)
    \/ Pop(k) \/ AppendOther(k) \/ Shrinkwrap(k) \/ Qsort(k) \/ Dtor(k)

StackSpec == StackInit /\ [][StackNext]_stackVars

-----------------------------------------------------------------------------
(* Properties *)

\* The arrays hold what callers put there, in their order: nothing is lost when an array is moved, when
\* cells shift under an insertion, or when the size steps back over empty slots; no cell
\* in use was never written, and nothing is written behind the end of the array.
StacksHold ==
    \A k \in Stacks : /\ st[k].n <= Len(st[k].s)
                      /\ Shown(st[k]) = want[k]
=============================================================================
