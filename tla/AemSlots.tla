------------------------------- MODULE AemSlots -------------------------------
(***************************************************************************)
(* The stack of stack.c as a sequence, where empty slots hold Null: what   *)
(* AemStack shows its arrays to do, and AemRegistry uses it for.           *)
(***************************************************************************)
EXTENDS Integers, Sequences

CONSTANTS Null,  \* NULL in a slot
          Slack  \* how many slots more than needed a growing array gets (8 in memory.c)

ASSUME SlackAssumption == Slack \in Nat

\* aem_stack_index
Index(stk, i) == IF i \in 0 .. Len(stk) - 1 THEN stk[i + 1] ELSE Null

\* (mutant) reused ids are never looked for.
IsBehindLast(stk, i) == i = Len(stk)

\* The slot that aem_stack_assign_empty finds.
IsFirstEmpty(stk, i) ==
    /\ i \in 0 .. Len(stk) /\ Index(stk, i) = Null
    /\ \A j \in 0 .. i - 1 : Index(stk, j) # Null

\* aem_stack_assign, to a slot of the stack or just behind it.
Assigned(stk, i, x) ==
    [k \in 1 .. (IF i = Len(stk) THEN i + 1 ELSE Len(stk)) |-> IF k = i + 1 THEN x ELSE stk[k]]

\* (mutant) only the slot itself is given up.
IsShortened(stk, n) == n = Len(stk)

\* The size to which aem_stack_remove cuts the stack.
IsTrimmed(stk, n) ==
    /\ n \in 0 .. Len(stk)
    /\ n > 0 => stk[n] # Null
    /\ \A k \in n + 1 .. Len(stk) : stk[k] = Null

\* aem_array_grow_impl
Grown(maxn, nr) ==
    IF nr <= maxn THEN maxn ELSE IF 2 * maxn < nr THEN nr + Slack ELSE 2 * maxn
=============================================================================
