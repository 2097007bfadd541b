------------------------------- MODULE AemUtf8 -------------------------------
(***************************************************************************)
(* utf8.c: runes are 32 bit numbers, here the sets of their bits, and      *)
(* their encodings are sequences of bytes.                                 *)
(***************************************************************************)
EXTENDS Integers, Sequences, FiniteSetsExt

\* The number made of the bits from a to b of a rune, and the bits of a number put at a.
Bits(r, a, b) == MapThenSumSet(LAMBDA i : 2 ^ (i - a), r \cap (a .. b))
BitsAt(n, a, width) == {a + i : i \in {i \in 0 .. width - 1 : (n \div (2 ^ i)) % 2 = 1}}

\* aem_utf8_info, by the number of continuation bytes: the bits of max, top, and the bits of mask.
MaxBits == <<7, 11, 16, 21, 26, 32>>
Top == <<0, 192, 224, 240, 248, 252>>
MaskBits == <<7, 5, 4, 3, 2, 2>>
Rows == 0 .. 5

Tx == 128 .. 191

\* (mutant) the rows are found by what the first byte has room for.
RowByMask(r) == Min({l \in Rows : r \subseteq 0 .. 6 * l + 6} \cup {5})

Row(r) == Min({l \in Rows : r \subseteq 0 .. MaxBits[l + 1] - 1})

\* aem_stringbuf_put_rune
PutRune(r) ==
    LET len == Row(r) IN
    [k \in 1 .. len + 1 |->
        IF k = 1 THEN Top[len + 1] + Bits(r, 6 * len, 6 * len + MaskBits[len + 1] - 1)
        ELSE 128 + Bits(r, 6 * (len + 1 - k), 6 * (len + 1 - k) + 5)]

\* aem_stringslice_get_rune: ok, the rune, and how many bytes it has.
RowsOf(c) == {l \in Rows : c - (c % (2 ^ MaskBits[l + 1])) = Top[l + 1]}
Decoded(s, len) ==
    [ok |-> TRUE, used |-> len + 1,
     rune |-> BitsAt(s[1] % (2 ^ MaskBits[len + 1]), 6 * len, MaskBits[len + 1])
              \cup UNION {BitsAt(s[1 + i] % 64, 6 * (len - i), 6) : i \in 1 .. len}]
NoRune == [ok |-> FALSE, used |-> 0, rune |-> {}]
GetRune(s) ==
    IF s = <<>> \/ RowsOf(s[1]) = {} THEN NoRune
    ELSE LET len == Min(RowsOf(s[1])) IN
         IF len < Len(s) /\ \A i \in 1 .. len : s[1 + i] \in Tx THEN Decoded(s, len) ELSE NoRune
=============================================================================
