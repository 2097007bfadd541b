------------------------------- MODULE AemReader -------------------------------
(***************************************************************************)
(* A reader of lines, as process_data of test/server.c: its text comes in  *)
(* pieces, and aem_stringslice_match_line_multi finds the lines in what    *)
(* has come so far.                                                        *)
(***************************************************************************)
EXTENDS AemSlice

CONSTANTS LineChars, FedMax  \* the characters the reader gets, and (bound) how many

ASSUME BytesAssumption == LineChars \subseteq 0 .. 255

VARIABLES fed,    \* history: all that the reader was given
          buf,    \* what is left of it
          state,  \* line_state of the connection
          fin,    \* AEM_STREAM_FIN
          lines   \* history: the lines it found

reader == <<fed, buf, state, fin, lines>>

ReaderInit == fed = <<>> /\ buf = <<>> /\ state = FALSE /\ fin = FALSE /\ lines = <<>>

\* The stream provides, and ends.
Feed(xs) ==
    /\ ~fin /\ Len(fed) + Len(xs) <= FedMax
    /\ fed' = fed \o xs /\ buf' = buf \o xs
    /\ UNCHANGED <<state, fin, lines>>
Fin == ~fin /\ fin' = TRUE /\ UNCHANGED <<fed, buf, state, lines>>

\* process_data
Take ==
    LET got == MatchLineMulti(buf, state, fin) IN
    /\ buf # <<>>
    /\ lines' = IF got.found THEN Append(lines, got.line) ELSE lines
    /\ buf' = got.rest /\ state' = got.state
    /\ UNCHANGED <<fed, fin>>

\* The next connection, whose line_state is 0.
Reconnect ==
    /\ fin /\ buf = <<>>
    /\ fed' = <<>> /\ buf' = <<>> /\ state' = FALSE /\ fin' = FALSE /\ lines' = <<>>

ReaderNext ==
    \/ \E x \in LineChars : Feed(<<x>>) \/ \E y \in LineChars : Feed(<<x, y>>)
    \/ Fin \/ Take \/ Reconnect

ReaderSpec == ReaderInit /\ [][ReaderNext]_reader

-----------------------------------------------------------------------------
(* What lines are *)

\* Where lines end: at a LF, and at a CR without one.
Ends(s) == {k \in 1 .. Len(s) : s[k] = LF \/ (s[k] = CR /\ ~(k < Len(s) /\ s[k + 1] = LF))}
LastEnd(s, n) == Max({0} \cup {k \in Ends(s) : k <= n})
Remainder(s) == After(s, LastEnd(s, Len(s)))

\* A line without its terminator.
Cleaned(s) ==
    LET n == Len(s) IN
    SubSeq(s, 1, IF n > 1 /\ s[n] = LF /\ s[n - 1] = CR THEN n - 2 ELSE n - 1)

\* The lines that end within the first n characters, and all of them.
LinesTo(s, n) ==
    LET to[k \in 0 .. Len(s)] ==
          IF k = 0 THEN <<>>
          ELSE IF k \in Ends(s) THEN Append(to[k - 1], Cleaned(SubSeq(s, LastEnd(s, k - 1) + 1, k)))
          ELSE to[k - 1]
    IN to[n]
LinesIn(s) == LinesTo(s, Len(s))
AllLines(s) == LinesIn(s) \o IF Remainder(s) = <<>> THEN <<>> ELSE <<Remainder(s)>>

-----------------------------------------------------------------------------
(* Properties *)

\* However a text is cut into pieces, and wherever calls come between them, the lines are those
\* of the whole text: no CRLF counts twice, no line waits for more once its end has come, and
\* FIN gives what is left.
LinesAsSplit ==
    /\ IsPrefix(lines, IF fin THEN AllLines(fed) ELSE LinesIn(fed))
    /\ fin /\ buf = <<>> => lines = AllLines(fed)
    /\ ~fin /\ Unbroken(buf) = Len(buf) => lines = LinesIn(fed)
=============================================================================
