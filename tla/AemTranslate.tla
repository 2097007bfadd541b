----------------------------- MODULE AemTranslate -----------------------------
(* translate.c: escaping of strings and encoding of URLs. *)
EXTENDS AemUtf8, AemSlice

Backslash == 92
Percent == 37
Plain == 32 .. 126

\* The letters of the escapes that are written, and of those that are read.
Escapes == (LF :> 110) @@ (CR :> 114) @@ (9 :> 116) @@ (0 :> 48) @@ (34 :> 34)
           @@ (Backslash :> Backslash) @@ (32 :> 32)
Unescapes == (48 :> 0) @@ (101 :> 27) @@ (102 :> 12) @@ (116 :> 9) @@ (110 :> LF)
             @@ (114 :> CR) @@ (118 :> 11)

\* aem_stringbuf_puthex, and printf of so many hexadecimal digits.
HexDigit(d) == IF d < 10 THEN 48 + d ELSE 87 + d
Hex(r, n) == [k \in 1 .. n |-> HexDigit(Bits(r, 4 * (n - k), 4 * (n - k) + 3))]

Byte(n) == BitsAt(n, 0, 8)

\* (mutant) backslashes are left alone.
EscapedNot(c) == c \in DOMAIN Escapes \ {Backslash}

Escaped(c) == c \in DOMAIN Escapes

\* aem_string_escape_rune
EscapeRune(r) ==
    LET c == Bits(r, 0, 7) IN
    IF r \subseteq 0 .. 7
    THEN IF Escaped(c) THEN <<Backslash, Escapes[c]>>
         ELSE IF c \in Plain THEN <<c>> ELSE <<Backslash, 120>> \o Hex(r, 2)
    ELSE IF r \subseteq 0 .. 15 THEN <<Backslash, 117>> \o Hex(r, 4)
    ELSE <<Backslash, 85>> \o Hex(r, 8)

\* aem_string_escape: what is no rune is escaped like the rune of its byte.
RECURSIVE Escape(_)
Escape(s) ==
    IF s = <<>> THEN <<>>
    ELSE LET got == GetRune(s) IN
         IF got.ok THEN EscapeRune(got.rune) \o Escape(After(s, got.used))
         ELSE EscapeRune(Byte(s[1])) \o Escape(Tail(s))

\* The digits behind \x, \u and \U, of which 32 bits remain, and how many bytes they are.
HexDigits == Digits \cup 65 .. 70 \cup 97 .. 102
HexRune(s, n) == UNION {BitsAt(Digit(s[k]), 4 * (n - k), 4) : k \in Max({1, n - 7}) .. n}
Numbered(s, len) ==
    LET n == Span(s, HexDigits)
        braced == s # <<>> /\ s[1] = 123
        m == Span(Tail(s), HexDigits)
    IN IF braced
       THEN IF Len(s) > m + 1 /\ s[m + 2] = 125
            THEN [ok |-> TRUE, rune |-> HexRune(Tail(s), m), used |-> m + 2] ELSE NoRune
       ELSE IF n >= len THEN [ok |-> TRUE, rune |-> HexRune(s, len), used |-> len] ELSE NoRune

\* aem_string_unescape_rune, behind the backslash and the letter c, and all of it.
UnescapeLetter(s, got) ==
    LET c == Bits(got.rune, 0, 7)
        number == Numbered(After(s, got.used), CASE c = 120 -> 2 [] c = 117 -> 4 [] OTHER -> 8)
    IN IF ~(got.rune \subseteq 0 .. 7) THEN got
       ELSE IF c \in DOMAIN Unescapes THEN [got EXCEPT !.rune = Byte(Unescapes[c])]
       ELSE IF c \in {120, 117, 85} THEN [number EXCEPT !.used = @ + got.used]
       ELSE got
UnescapeRune(s) ==
    IF s[1] # Backslash THEN GetRune(s)
    ELSE LET got == GetRune(Tail(s)) IN
         IF ~got.ok THEN [ok |-> TRUE, rune |-> Byte(Backslash), used |-> 1]
         ELSE LET r == UnescapeLetter(Tail(s), got) IN [r EXCEPT !.used = @ + 1]

\* aem_string_unescape: what is no rune is copied.
RECURSIVE Unescape(_)
Unescape(s) ==
    IF s = <<>> THEN <<>>
    ELSE LET got == UnescapeRune(s) IN
         IF got.ok THEN PutRune(got.rune) \o Unescape(After(s, got.used))
         ELSE <<s[1]>> \o Unescape(Tail(s))

-----------------------------------------------------------------------------
(* URLs *)

Unreserved == Digits \cup Lower \cup Upper \cup {45, 95, 46, 126}

\* (mutant) "%" stands for itself.
LeftAlone(c) == c \in Unreserved \cup {Percent}

Kept(c) == c \in Unreserved

UrlEncode(s) ==
    FlattenSeq([k \in 1 .. Len(s) |-> IF Kept(s[k]) THEN <<s[k]>>
                                      ELSE <<Percent>> \o Hex(Byte(s[k]), 2)])

\* aem_string_urldecode, which stops at a "%" without two digits: what it has written,
\* and what remains of its input.
RECURSIVE UrlDecode(_, _)
UrlDecode(out, s) ==
    IF s = <<>> THEN [out |-> out, rest |-> s]
    ELSE IF s[1] # Percent THEN UrlDecode(Append(out, s[1]), Tail(s))
    ELSE IF HexByte(Tail(s)) = -1 THEN [out |-> out, rest |-> s]
    ELSE UrlDecode(Append(out, HexByte(Tail(s))), After(s, 3))
=============================================================================
