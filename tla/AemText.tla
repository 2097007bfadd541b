------------------------------- MODULE AemText -------------------------------
(***************************************************************************)
(* The functions on texts against what they are for.  A text is typed one  *)
(* character at a time, from an alphabet chosen for what is read in it;    *)
(* the reader of lines gets its text in pieces.                            *)
(***************************************************************************)
EXTENDS AemTranslate, AemReader, TLC

CONSTANTS
    Alphabets, Typed,  \* of each kind of text: its characters, and (bound) how many
    Bases              \* the bases in which numbers are read

Path == INSTANCE AemPath

VARIABLES kind, text

textVars == <<kind, text, reader>>

TextInit == kind \in DOMAIN Alphabets \cup {"lines"} /\ text = <<>> /\ ReaderInit

Type(c) ==
    /\ Len(text) < Typed[kind]
    /\ text' = Append(text, c)
    /\ UNCHANGED <<kind, reader>>

Retype == text # <<>> /\ text' = <<>> /\ UNCHANGED <<kind, reader>>

TextNext ==
    \/ kind # "lines" /\ (Retype \/ \E c \in Alphabets[kind] : Type(c))
    \/ kind = "lines" /\ ReaderNext /\ UNCHANGED <<kind, text>>

-----------------------------------------------------------------------------
(* What numbers and encodings are *)

DigitsOf(s, base) == SubSeq(s, 1, Span(s, {c \in 0 .. 127 : Digit(c) \in 0 .. base - 1}))
Exactly(ds, base) == FoldLeft(LAMBDA n, c : n * base + Digit(c), 0, ds)

RECURSIVE Valid(_)
Valid(s) ==
    s = <<>> \/ LET got == GetRune(s) IN
                got.ok /\ PutRune(got.rune) = SubSeq(s, 1, got.used) /\ Valid(After(s, got.used))

\* A rune typed as the positions at which its bits change.
RuneOf(t) == {i \in 0 .. 31 : Cardinality({k \in DOMAIN t : i < t[k]}) % 2 = 1}

-----------------------------------------------------------------------------
(* Properties *)

\* aem_stringslice_match_line takes a text apart without losing a character, and the
\* comparison orders texts: it is total, transitive, and 0 for equal texts only.
RECURSIVE Pieces(_)
Pieces(s) == IF s = <<>> THEN <<>> ELSE <<MatchLine(s)>> \o Pieces(After(s, Len(MatchLine(s))))
Ordered(s, t) == /\ (Cmp(s, t) = 0) = (s = t)
                 /\ (Cmp(s, t) > 0) = (Cmp(t, s) < 0)
SlicesAgree ==
    kind = "slice" =>
       /\ FlattenSeq(Pieces(text)) = text
       /\ [k \in 1 .. Len(LinesIn(text)) |-> Cleaned(Pieces(text)[k])] = LinesIn(text)
       /\ \E i, j \in 0 .. Len(text) : Trim(text) = SubSeq(text, i + 1, j)
       /\ \A i, j \in 0 .. Len(text) :
             LET s == SubSeq(text, 1, i)  t == SubSeq(text, i + 1, j)  u == After(text, j) IN
             /\ Ordered(s, t)
             /\ Cmp(s, t) <= 0 /\ Cmp(t, u) <= 0 => Cmp(s, u) <= 0
             /\ MatchSuffix(MatchPrefix(text, s), u) = t \/ i > j

\* A number that fits in its type is read exactly and with all its digits, in any base; one that does
\* not fit is refused in bases that divide the range of unsigned long, and in others if unsigned long
\* still holds it (of larger ones see OverflowRefused). Nothing is said of "-0", which
\* stringslice.c:393 refuses as an overflow.
ReadAs(got, n, ds) == got.ok /\ got.n = n /\ got.used = Len(ds)
ReadUpTo(got, v, ds, max) == IF v <= max THEN ReadAs(got, v, ds) ELSE ~got.ok
ReadSigned(got, v, neg, ds, max) ==
    IF neg THEN v = 0 \/ (IF v <= max + 1 THEN ReadAs(got, -v, ds) ELSE ~got.ok)
    ELSE ReadUpTo(got, v, ds, max)
SurelyKnown(v, base) == v <= ULongMax \/ (ULongMax + 1) % base = 0

NumbersExact ==
    kind = "number" =>
       LET digits == Unsigned(text)
           auto == AutoBase(digits)
           autoDs == DigitsOf(AutoDigits(digits), auto)
           neg == Negative(text)
       IN /\ \A base \in Bases :
               LET ds == DigitsOf(text, base)
                   v == Exactly(ds, base)
                   ms == DigitsOf(digits, base)
                   m == Exactly(ms, base)
               IN /\ ds = <<>> => ~Ulong(text, base).ok /\ ~Uint(text, base).ok
                  /\ ds # <<>> /\ SurelyKnown(v, base) =>
                       /\ ReadUpTo(Ulong(text, base), v, ds, ULongMax)
                       /\ ReadUpTo(Uint(text, base), v, ds, UIntMax)
                  /\ ms = <<>> => ~Long(text, base).ok /\ ~Int32(text, base).ok
                  /\ ms # <<>> /\ SurelyKnown(m, base) =>
                       /\ ReadSigned(Long(text, base), m, neg, ms, LongMax)
                       /\ ReadSigned(Int32(text, base), m, neg, ms, IntMax)
          /\ autoDs # <<>> /\ SurelyKnown(Exactly(autoDs, auto), auto) =>
               ReadSigned(LongAuto(text), Exactly(autoDs, auto), neg, autoDs, LongMax)

\* "Overflow; say we didn't find any number at all" (stringslice.c:351), in whatever base.
OverflowRefused ==
    kind = "number" => \A base \in Bases :
        Exactly(DigitsOf(text, base), base) > ULongMax => ~Ulong(text, base).ok

\* Every rune is read back as it was written, from as many bytes, and from no fewer; in any
\* bytes, what is read stays in front of the next byte that begins a rune, "All of the
\* sequences synchronize on any byte that is not a Tx byte" (utf8.c:51).
RunesReadBack ==
    /\ kind = "rune" =>
         LET r == RuneOf(text)
             s == PutRune(r)
         IN /\ \A more \in {<<>>, <<128>>} : GetRune(s \o more) = [ok |-> TRUE, rune |-> r, used |-> Len(s)]
            /\ \A k \in 0 .. Len(s) - 1 : ~GetRune(SubSeq(s, 1, k)).ok
    /\ kind = "bytes" =>
         LET got == GetRune(text) IN
         got.ok => /\ text[1] \notin Tx /\ \A k \in 2 .. got.used : text[k] \in Tx
                   /\ Len(PutRune(got.rune)) <= got.used

\* Text in UTF-8 comes back from escaping and unescaping as it was, and every rune does; what is
\* escaped has no spaces, no line breaks and nothing outside ASCII, so it stays one word of a line.
EscapesUndone ==
    /\ kind = "bytes" =>
         /\ Valid(text) => Unescape(Escape(text)) = text
         /\ \A k \in 1 .. Len(Escape(text)) : Escape(text)[k] \in Plain \ {32}
    /\ kind = "rune" =>
         LET r == RuneOf(text) IN UnescapeRune(EscapeRune(r)) =
                                  [ok |-> TRUE, rune |-> r, used |-> Len(EscapeRune(r))]

\* Any bytes come back from a URL; decoding stops at the first "%" without two digits, not behind it.
UrlsUndone ==
    kind = "bytes" =>
       /\ UrlDecode(<<>>, UrlEncode(text)) = [out |-> text, rest |-> <<>>]
       /\ LET got == UrlDecode(<<>>, text) IN
          got.rest = <<>> \/ (got.rest[1] = Percent /\ HexByte(Tail(got.rest)) = -1)

\* What is written is read back, in each of the three encodings.
CodersUndone == RunesReadBack /\ EscapesUndone /\ UrlsUndone

\* aem_sandbox_path leads below the base, where the names lead that it was given, and says so when
\* they lead out of it, for a base that ends with a slash, that does not, and that is empty; aem_dirname
\* takes the last name away.
PathsHold ==
    kind = "path" =>
       /\ \A base \in {<<>>, <<"b">>, <<"b", "/">>} : Path!Sandboxed(base, text)
       /\ Path!DirnameOf(text, {"/", ".", "a"})

\* Texts are cut and compared, and numbers and paths read, as they are meant, up to the last that fits.
ParsersExact == SlicesAgree /\ NumbersExact /\ PathsHold
=============================================================================
