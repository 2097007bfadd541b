------------------------------- MODULE AemSlice -------------------------------
(***************************************************************************)
(* stringslice.c: what its matchers take from the front of a text.  Texts  *)
(* are sequences of bytes; integers have as many bits as the constants     *)
(* say.                                                                    *)
(***************************************************************************)
EXTENDS Integers, Sequences, SequencesExt

CONSTANTS LongBits, IntBits

ASSUME WidthAssumption ==
    LongBits \in Nat /\ IntBits \in Nat /\ 1 < IntBits /\ IntBits <= LongBits

LF == 10
CR == 13
Minus == 45
Spaces == 9 .. 13 \cup {32}
Digits == 48 .. 57
Lower == 97 .. 122
Upper == 65 .. 90

\* How many characters of a set a text begins with, and what follows the first k.
Span(s, set) == Min({k \in 1 .. Len(s) : s[k] \notin set} \cup {Len(s) + 1}) - 1
After(s, k) == SubSeq(s, k + 1, Len(s))

-----------------------------------------------------------------------------
(* Space and lines *)

MatchWs(s) == After(s, Span(s, Spaces))

\* aem_stringslice_trim
TrimEnd(s) == SubSeq(s, 1, Max({0} \cup {k \in 1 .. Len(s) : s[k] \notin Spaces}))
Trim(s) == TrimEnd(MatchWs(s))

\* aem_stringslice_match_newline: 1 for LF, 2 for CR, 3 for both, which are two characters.
Newline(s) ==
    IF s = <<>> THEN 0
    ELSE CASE s[1] = LF -> 1
           [] s[1] = CR -> IF Len(s) > 1 /\ s[2] = LF THEN 3 ELSE 2
           [] OTHER -> 0
NewlineLength(s) == CASE Newline(s) = 0 -> 0 [] Newline(s) = 3 -> 2 [] OTHER -> 1

\* aem_stringslice_match_line, with its terminator.
Unbroken(s) == Span(s, 0 .. 255 \ {CR, LF})
MatchLine(s) == SubSeq(s, 1, Unbroken(s) + NewlineLength(After(s, Unbroken(s))))

\* (mutant) the state is forgotten between two calls.
NeverMore(newline, rest) == FALSE

MoreMayCome(newline, rest) == newline = 2 /\ rest = <<>>

\* aem_stringslice_match_line_multi: whether it found a line, the line, what remains
\* of the text, and the state for the next call. k characters come before the newline.
Found(s, k, newline, finish) ==
    LET rest == After(s, k + (IF newline = 3 THEN 2 ELSE 1)) IN
    [found |-> TRUE, line |-> SubSeq(s, 1, k), rest |-> rest,
     state |-> MoreMayCome(newline, rest) /\ ~finish]
Unfinished(s, finish, state) ==
    IF finish /\ s # <<>> THEN [found |-> TRUE, line |-> s, rest |-> <<>>, state |-> FALSE]
    ELSE [found |-> FALSE, line |-> <<>>, rest |-> s, state |-> state /\ s = <<>> /\ ~finish]
LineOf(s, finish, state) ==
    IF Unbroken(s) < Len(s)
    THEN Found(s, Unbroken(s), Newline(After(s, Unbroken(s))), finish)
    ELSE Unfinished(s, finish, state)
MatchLineMulti(s, state, finish) ==
    IF state /\ s # <<>> /\ s[1] = LF THEN LineOf(Tail(s), finish, FALSE)
    ELSE LineOf(s, finish, state)

-----------------------------------------------------------------------------
(* Comparing *)

\* aem_stringslice_match_prefix and _suffix: what remains, or the text as it was.
MatchPrefix(s, p) == IF IsPrefix(p, s) THEN After(s, Len(p)) ELSE s
MatchSuffix(s, p) == IF IsSuffix(p, s) THEN SubSeq(s, 1, Len(s) - Len(p)) ELSE s

\* strncmp, which stops at NUL.
Strncmp(s, t, n) ==
    LET stops == {k \in 1 .. n : s[k] # t[k] \/ s[k] = 0}
    IN IF stops = {} THEN 0 ELSE s[Min(stops)] - t[Min(stops)]

\* (mutant) lengths are not compared.
PrefixesEqual(s, t) == Strncmp(s, t, Min({Len(s), Len(t)}))

\* aem_stringslice_cmp: of two texts that begin alike, the longer one is less.
Cmp(s, t) ==
    LET cmp == Strncmp(s, t, Min({Len(s), Len(t)}))
    IN IF cmp # 0 THEN cmp ELSE Len(t) - Len(s)

-----------------------------------------------------------------------------
(* Numbers *)

\* char2digit
Digit(c) ==
    CASE c \in Digits -> c - 48
      [] c \in Lower -> c - 87
      [] c \in Upper -> c - 55
      [] OTHER -> -1

\* aem_stringslice_match_hexbyte: -1 when there is none.
HexByte(s) ==
    IF Len(s) >= 2 /\ Digit(s[1]) \in 0 .. 15 /\ Digit(s[2]) \in 0 .. 15
    THEN 16 * Digit(s[1]) + Digit(s[2]) ELSE -1

ULongMax == 2 ^ LongBits - 1
LongMax == 2 ^ (LongBits - 1) - 1
UIntMax == 2 ^ IntBits - 1
IntMax == 2 ^ (IntBits - 1) - 1
Signed(n) == IF n > LongMax THEN n - (ULongMax + 1) ELSE n

\* (mutant) the limit is off by one.
OverflowsEarly(n, base) == n >= ULongMax \div base

Overflows(n, base) == n > ULongMax \div base

\* aem_stringslice_match_ulong_base: ok, the number, and how many digits it has.
NextDigit(a, c, base) ==
    IF a.end \/ ~a.ok THEN a
    ELSE IF Digit(c) \notin 0 .. base - 1 THEN [a EXCEPT !.end = TRUE]
    ELSE IF Overflows(a.n, base) THEN [a EXCEPT !.ok = FALSE]
    ELSE [a EXCEPT !.n = (@ * base + Digit(c)) % (ULongMax + 1), !.used = @ + 1]
Scanned(s, base) ==
    FoldLeft(LAMBDA a, c : NextDigit(a, c, base), [ok |-> TRUE, n |-> 0, used |-> 0, end |-> FALSE], s)
Ulong(s, base) == LET a == Scanned(s, base) IN [a EXCEPT !.ok = @ /\ a.used > 0]

\* How _match_long_base, _match_int_base and _match_long_auto take the sign and the base off.
Negative(s) == s # <<>> /\ s[1] = Minus
Unsigned(s) == IF Negative(s) THEN Tail(s) ELSE s
WithSign(u, neg) ==
    LET n == Signed(IF neg THEN (-u.n) % (ULongMax + 1) ELSE u.n)
    IN [u EXCEPT !.n = n, !.ok = @ /\ (neg = (n < 0))]
Long(s, base) == WithSign(Ulong(Unsigned(s), base), Negative(s))

Uint(s, base) == LET u == Ulong(s, base) IN [u EXCEPT !.ok = @ /\ u.n <= UIntMax]
Int32(s, base) == LET i == Long(s, base) IN [i EXCEPT !.ok = @ /\ i.n \in -(IntMax + 1) .. IntMax]

AutoBase(s) ==
    IF Len(s) < 2 \/ s[1] # 48 THEN 10
    ELSE CASE s[2] = 120 -> 16 [] s[2] \in {98, 121} -> 2 [] OTHER -> 10
AutoDigits(s) == IF AutoBase(s) = 10 THEN s ELSE After(s, 2)
LongAuto(s) ==
    WithSign(Ulong(AutoDigits(Unsigned(s)), AutoBase(Unsigned(s))), Negative(s))
=============================================================================
