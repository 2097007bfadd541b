------------------------------ MODULE AemRegex ------------------------------
(***************************************************************************)
(* The parser of regex.c, and a program that adds patterns to an nfa,      *)
(* optimizes and copies it, and runs it on texts.  What a pattern is meant *)
(* to match is given with it, as an expression of its own; the answer of   *)
(* the engine is held against that.                                        *)
(*                                                                         *)
(* Patterns are sequences of ASCII characters.  A named class is a single  *)
(* symbol above them, numbers stay below ULONG_MAX, and the escapes that   *)
(* stand for other characters are \n and \t.                               *)
(***************************************************************************)
EXTENDS AemNfaCompile

CONSTANT Scripts    \* the sequences of patterns a program may add

VARIABLES
    todo,       \* the patterns still to be added
    pats,       \* those that the nfa has taken, each with its match number
    nMatches,   \* one more than the highest match number
    ret         \* what the last aem_nfa_add returned, and whether it failed

regexVars == <<vars, todo, pats, nMatches, ret>>

-----------------------------------------------------------------------------
(* A parse is what is left of the pattern, the captures counted so far and *)
(* the flags; a result adds a node, or Null.                               *)

At(text, ch) == text # <<>> /\ Head(text) = ch

(* An escape: 0 for a plain character, 1 for one that stands for another,  *)
(* 2 for a character that is merely escaped.                               *)
Unescape(text) ==
    LET esc == At(text, 92) /\ Len(text) > 1
        ch  == IF esc THEN text[2] ELSE text[1]
    IN  [rest |-> IF esc THEN Tail(Tail(text)) ELSE Tail(text),
         ch   |-> IF esc /\ ch = 110 THEN 10 ELSE IF esc /\ ch = 116 THEN 9 ELSE ch,
         esc  |-> IF ~esc THEN 0 ELSE IF ch \in {110, 116} THEN 1 ELSE 2]

(* [:lower:] and [:^lower:] *)
Named == {256, 257}

(* A number in base 10; one above UINT_MAX is not found at all. *)
MatchUint(text, default) ==
    LET digits == SelectInSeq(Append(text, EOF), LAMBDA ch : ch \notin 48..57) - 1
        n == FoldLeft(LAMBDA m, ch : 10 * m + (ch - 48), 0, SubSeq(text, 1, digits))
    IN  IF digits > 0 /\ n <= UintMax
        THEN [found |-> TRUE, n |-> n, rest |-> SubSeq(text, digits + 1, Len(text))]
        ELSE [found |-> FALSE, n |-> default, rest |-> text]

(* Flags: c, explicit captures; b, binary.  After a "-" they are taken away. *)
ParseFlags(text) ==
    LET n == CHOOSE k \in 0 .. Len(text) :
                /\ \A i \in 1 .. k : text[i] \in {98, 99}
                /\ k < Len(text) => text[k + 1] \notin {98, 99}
    IN  [flags |-> {IF text[i] = 98 THEN "b" ELSE "c" : i \in 1 .. n},
         rest  |-> SubSeq(text, n + 1, Len(text))]

AdjustFlags(text, flags) ==
    LET plus  == ParseFlags(text)
        minus == ParseFlags(Tail(plus.rest))
    IN  IF At(plus.rest, 45)
        THEN [flags |-> (flags \cup plus.flags) \ minus.flags, rest |-> minus.rest]
        ELSE [flags |-> flags \cup plus.flags, rest |-> plus.rest]

Result(p, node, rest) == [p EXCEPT !.node = node, !.rest = rest]

RangeFrom(text, lo) ==
    LET hi == Unescape(Tail(lo.rest)) IN
    IF ~At(lo.rest, 45) THEN [node |-> RangeNode(lo.ch, lo.ch), rest |-> lo.rest]
    ELSE IF Tail(lo.rest) = <<>> THEN [node |-> Null, rest |-> text]
    ELSE [node |-> RangeNode(lo.ch, hi.ch), rest |-> hi.rest]

ParseRange(text) ==
    IF Head(text) \in Named
    THEN [node |-> ClassNode(Head(text) = 257, FALSE, "lower"), rest |-> Tail(text)]
    ELSE RangeFrom(text, Unescape(text))

(* The ranges up to the "]", or to the end of the pattern. *)
RECURSIVE ParseRanges(_, _)
RangesAfter(text, r, ranges) ==
    IF r.node = Null THEN [ok |-> FALSE, ranges |-> ranges, rest |-> text]
    ELSE IF At(r.rest, 93)
    THEN [ok |-> TRUE, ranges |-> Append(ranges, r.node), rest |-> Tail(r.rest)]
    ELSE ParseRanges(r.rest, Append(ranges, r.node))

ParseRanges(text, ranges) ==
    IF text = <<>> THEN [ok |-> TRUE, ranges |-> ranges, rest |-> text]
    ELSE RangesAfter(text, ParseRange(text), ranges)

(* What lies before each range and after the one before it, in unsigned    *)
(* arithmetic, and what lies after the last.                               *)
Wrap(x) == x % (UintMax + 1)

Complement(ranges) ==
    LET Before(i) ==
            LET prevMax == IF i = 1 THEN UintMax ELSE ranges[i - 1].max
            IN  RangeNode(Wrap(prevMax + 1), Wrap(ranges[i].min - 1))
        gaps == SelectSeq([i \in DOMAIN ranges |-> Before(i)],
                          LAMBDA r : r.max # UintMax /\ r.min <= r.max)
        after == Wrap(ranges[Len(ranges)].max + 1)
    IN  IF after = 0 THEN gaps ELSE Append(gaps, RangeNode(after, UintMax))

(* Only ranges are sorted, and only ranges have a complement. *)
OnlyRanges(nodes) == \A i \in DOMAIN nodes : nodes[i].kind = "range"

Sorted(nodes) ==
    IF OnlyRanges(nodes) THEN SortSeq(nodes, LAMBDA x, y : x.min < y.min) ELSE nodes

NoneOf(nodes) ==
    IF ~OnlyRanges(nodes) THEN Null
    ELSE Alternation(IF nodes = <<>> THEN <<>> ELSE Complement(nodes))

Bracketed(p, negate, r) ==
    LET node == IF negate THEN NoneOf(Sorted(r.ranges)) ELSE Alternation(Sorted(r.ranges))
    IN  IF ~r.ok \/ node = Null THEN Result(p, Null, p.rest) ELSE Result(p, node, r.rest)

ParseBrackets(p) ==
    LET inside == Tail(p.rest) IN
    IF At(inside, 94) THEN Bracketed(p, TRUE, ParseRanges(Tail(inside), <<>>))
                      ELSE Bracketed(p, FALSE, ParseRanges(inside, <<>>))

(* What an escaped or unescaped character stands for. *)
AtomNode(u, binary) ==
    LET IsPlain(ch) == u.esc = 0 /\ u.ch = ch
        IsEscaped(chars) == u.esc = 2 /\ u.ch \in chars
    IN  CASE IsPlain(46) -> ClassNode(FALSE, FALSE, IF binary THEN "any" ELSE "line")
          [] IsPlain(94) -> ClassNode(FALSE, TRUE, "line")
          [] IsPlain(36) -> ClassNode(TRUE, TRUE, "line")
          [] u.esc = 0 /\ u.ch \in {41, 42, 43, 63, 92, 124} -> Null
          [] IsEscaped({60}) -> ClassNode(FALSE, TRUE, "alnum")
          [] IsEscaped({62}) -> ClassNode(TRUE, TRUE, "alnum")
          [] IsEscaped({65}) -> ClassNode(FALSE, TRUE, "any")
          [] IsEscaped({122}) -> ClassNode(TRUE, TRUE, "any")
          [] IsEscaped({119, 87}) -> ClassNode(FALSE, FALSE, "alnum")
          [] IsEscaped({100, 68}) -> ClassNode(u.ch = 68, FALSE, "digit")
          [] IsEscaped({115, 83}) -> ClassNode(u.ch = 83, FALSE, "space")
          [] OTHER -> Atom(u.ch)

RECURSIVE ParsePattern(_)

(* A group: captures are counted where they open, and the flags it sets    *)
(* end with it.                                                            *)
CloseGroup(p, body, capture) ==
    LET closed == [body EXCEPT !.flags = p.flags, !.rest = Tail(@)]
    IN  IF ~At(body.rest, 41) THEN Result(p, Null, p.rest)
        ELSE IF ~capture \/ ("c" \in p.flags /\ body.node.kind = "alternation")
        THEN closed
        ELSE [closed EXCEPT !.node = CaptureNode(p.ncap, body.node)]

GroupOf(p, flags, capture, rest) ==
    CloseGroup(p,
               ParsePattern([p EXCEPT !.rest = rest, !.flags = flags,
                                      !.ncap = IF capture THEN @ + 1 ELSE @]),
               capture)

ParseGroup(p) ==
    LET inside == Tail(p.rest)
        adjust == AdjustFlags(Tail(inside), p.flags)
    IN  IF ~At(inside, 63) THEN GroupOf(p, p.flags, TRUE, inside)
        ELSE IF At(adjust.rest, 58) THEN GroupOf(p, adjust.flags, FALSE, Tail(adjust.rest))
        ELSE GroupOf(p, adjust.flags, TRUE, adjust.rest)

ParseAtom(p) ==
    LET u == Unescape(p.rest)
        node == AtomNode(u, "b" \in p.flags)
    IN  IF At(p.rest, 91) THEN ParseBrackets(p)
        ELSE IF At(p.rest, 40) THEN ParseGroup(p)
        ELSE IF p.rest = <<>> THEN Result(p, Null, p.rest)
        ELSE Result(p, node, IF node = Null THEN p.rest ELSE u.rest)

(* {m}, {m,}, {,n}, {m,n}, {,}.  A brace with neither a number nor a comma *)
(* after it is swallowed, and what follows it is not.                      *)
ParseBraces(text) ==
    LET lower == MatchUint(Tail(text), 0)
        comma == At(lower.rest, 44)
        upper == IF comma THEN MatchUint(Tail(lower.rest), UintMax)
                 ELSE [found |-> FALSE, rest |-> lower.rest,
                       n |-> IF lower.found THEN lower.n ELSE UintMax]
    IN  [how |-> IF ~lower.found /\ ~comma THEN "none"
                 ELSE IF At(upper.rest, 125) THEN "repeat" ELSE "fail",
         min |-> lower.n, max |-> upper.n,
         rest |-> IF (lower.found \/ comma) /\ At(upper.rest, 125)
                  THEN Tail(upper.rest) ELSE upper.rest]

ParseRepeat(text) ==
    LET Simple(min, max) ==
            [how |-> "repeat", min |-> min, max |-> max, rest |-> Tail(text)]
    IN  CASE At(text, 63) -> Simple(0, 1)
          [] At(text, 42) -> Simple(0, UintMax)
          [] At(text, 43) -> Simple(1, UintMax)
          [] At(text, 123) -> ParseBraces(text)
          [] OTHER -> [how |-> "none", rest |-> text]

(* With explicit captures, a group that is repeated captures nothing; only *)
(* the last capture counted is given back.                                 *)
Repeated(p, atom, r) ==
    LET reluctant == At(r.rest, 63)
        strip == "c" \in p.flags /\ atom.node.kind = "capture"
    IN  IF r.how = "none" THEN [atom EXCEPT !.rest = r.rest]
        ELSE IF r.how = "fail" \/ r.min > r.max THEN Result(atom, Null, atom.rest)
        ELSE [atom EXCEPT
                !.rest = IF reluctant THEN Tail(r.rest) ELSE r.rest,
                !.ncap = IF strip /\ atom.node.n = @ - 1 THEN @ - 1 ELSE @,
                !.node = RepeatNode(r.min, r.max, reluctant,
                                    IF strip THEN atom.node.child ELSE atom.node)]

PostfixOf(p, atom) ==
    IF atom.node = Null THEN atom ELSE Repeated(p, atom, ParseRepeat(atom.rest))

ParsePostfix(p) == PostfixOf(p, ParseAtom(p))

RECURSIVE ParseBranch(_, _)
BranchNode(nodes) == IF Len(nodes) = 1 THEN nodes[1] ELSE Branch(nodes)

BranchAfter(item, nodes) ==
    IF item.node = Null THEN [item EXCEPT !.node = BranchNode(nodes)]
    ELSE ParseBranch(item, Append(nodes, item.node))

ParseBranch(p, nodes) ==
    IF p.rest = <<>> THEN Result(p, BranchNode(nodes), p.rest)
    ELSE BranchAfter(ParsePostfix(p), nodes)

RECURSIVE ParseAlternatives(_, _)
AlternativesAfter(branch, nodes) ==
    IF At(branch.rest, 124)
    THEN ParseAlternatives([branch EXCEPT !.rest = Tail(@)], Append(nodes, branch.node))
    ELSE IF nodes = <<>> THEN branch
    ELSE [branch EXCEPT !.node = Alternation(Append(nodes, @))]

ParseAlternatives(p, nodes) == AlternativesAfter(ParseBranch(p, <<>>), nodes)

ParsePattern(p) == ParseAlternatives(p, <<>>)

ParseRegex(text) ==
    ParsePattern([node |-> Null, rest |-> text, ncap |-> 0, flags |-> {"b"}])

(* aem_nfa_add_string: the text itself. *)
ParseString(text) ==
    [node |-> Branch([i \in DOMAIN text |-> Atom(text[i])]), rest |-> <<>>,
     ncap |-> 0, flags |-> {"b"}]

-----------------------------------------------------------------------------
(* The program that uses the nfa. *)

Empty == [pgm |-> <<>>, init |-> {}, ncap |-> 0]

(* A pattern is refused with 0, the ctx.rc that nobody set, when not all   *)
(* of it was parsed, and with -1 when its tree could not be compiled.      *)
Reject(n) == ret' = [rc |-> n, failed |-> TRUE] /\ UNCHANGED <<nfa, pats, nMatches>>

Accept(pat, match, parse, made) ==
    IF parse.rest # <<>> THEN Reject(0)
    ELSE IF ~made.ok THEN Reject(-1)
    ELSE /\ nfa' = made.nfa
         /\ pats' = Append(pats, [id |-> match, e |-> pat.e])
         /\ nMatches' = IF nMatches < match + 1 THEN match + 1 ELSE nMatches
         /\ ret' = [rc |-> match, failed |-> FALSE]

AddParsed(pat, match, parse) ==
    Accept(pat, match, parse, CompileRoot(nfa, parse.node, parse.ncap, match))

Add ==
    /\ todo # <<>>
    /\ BetweenRuns
    /\ todo' = Tail(todo)
    /\ LET pat == Head(todo) IN
       AddParsed(pat, IF pat.id >= 0 THEN pat.id ELSE nMatches,
                 IF pat.how = "regex" THEN ParseRegex(pat.text) ELSE ParseString(pat.text))

OptimizeNfa ==
    /\ BetweenRuns
    /\ nfa' = Optimize(nfa)
    /\ UNCHANGED <<todo, pats, nMatches, ret>>

(* The copy that aem_nfa_dup makes does not know how many matches there are. *)
Dup ==
    /\ BetweenRuns
    /\ nMatches' = 0
    /\ UNCHANGED <<nfa, todo, pats, ret>>

Run(text) == Call(text) /\ UNCHANGED <<todo, pats, nMatches, ret>>
Step == RunStep /\ UNCHANGED <<todo, pats, nMatches, ret>>

RegexInit ==
    /\ Idle
    /\ nfa = Empty
    /\ todo \in Scripts
    /\ pats = <<>>
    /\ nMatches = 0
    /\ ret = [rc |-> 0, failed |-> FALSE]

RegexNext == Add \/ OptimizeNfa \/ Dup \/ (\E text \in Inputs : Run(text)) \/ Step

(* A run, once called, is straight code that goes on. *)
RegexSpec == RegexInit /\ [][RegexNext]_regexVars /\ WF_regexVars(Step)

-----------------------------------------------------------------------------
(* What a pattern means: where its matches in a text end that begin at i. *)

Bad == [k |-> "bad"]
OneOf(s) == [k |-> "set", s |-> s]
Begins(neg, cclass) == [k |-> "frontier", neg |-> neg, cclass |-> cclass]
Cat(es) == [k |-> "cat", es |-> es]
Or(es) == [k |-> "or", es |-> es]
Many(min, max, e) == [k |-> "many", min |-> min, max |-> max, e |-> e]
Group(n, e) == [k |-> "group", n |-> n, e |-> e]

CharAt(text, i) == IF i \in DOMAIN text THEN text[i] ELSE EOF

RECURSIVE Ends(_, _, _)
Ends(e, text, i) ==
    LET After(e2, from) == UNION {Ends(e2, text, j) : j \in from}
    IN  CASE e.k = "bad" -> {}
          [] e.k = "set" -> IF CharAt(text, i + 1) \in e.s THEN {i + 1} ELSE {}
          [] e.k = "frontier" ->
                IF /\ CclassMatch(e.neg, e.cclass, CharAt(text, i + 1))
                   /\ ~CclassMatch(e.neg, e.cclass, CharAt(text, i))
                THEN {i} ELSE {}
          [] e.k = "cat" -> FoldLeft(LAMBDA from, e2 : After(e2, from), {i}, e.es)
          [] e.k = "or" -> UNION {Ends(e.es[n], text, i) : n \in DOMAIN e.es}
          [] e.k = "many" ->
                LET times[n \in 0 .. e.min + Len(text) + 1] ==
                        IF n = 0 THEN {i} ELSE After(e.e, times[n - 1])
                IN  UNION {times[n] : n \in {m \in DOMAIN times : e.min <= m /\ m <= e.max}}
          [] e.k = "group" -> Ends(e.e, text, i)

RECURSIVE Groups(_)
Groups(e) ==
    CASE e.k \in {"bad", "set", "frontier"} -> {}
      [] e.k \in {"cat", "or"} -> UNION {Groups(e.es[n]) : n \in DOMAIN e.es}
      [] e.k = "many" -> Groups(e.e)
      [] e.k = "group" -> {e} \cup Groups(e.e)

Added == {pats[n] : n \in DOMAIN pats}

-----------------------------------------------------------------------------
(* Properties. *)

(* A run returns the longest prefix that one of the patterns matches, and the number of *)
(* a pattern that does, whatever was added, refused or optimized before it.             *)
LongestMatch ==
    phase = "done" =>
        LET ends == UNION {Ends(p.e, in, 0) : p \in Added} IN
        IF ends = {} THEN rc = None /\ longest = 0
        ELSE /\ \A j \in ends : j <= longest
             /\ rc \in {p.id : p \in {q \in Added : longest \in Ends(q.e, in, 0)}}

(* Every capture of the match holds a text that its group matches where it stands, or   *)
(* is unset at both ends; so is every capture that the pattern does not have.           *)
CapturesFit ==
    phase = "done" /\ rc >= 0 =>
        \E p \in {q \in Added : q.id = rc} :
            /\ \A g \in Groups(p.e) :
                  \/ matched[g.n] = [start |-> None, end |-> None]
                  \/ /\ matched[g.n].start # None
                     /\ matched[g.n].end \in Ends(g.e, in, matched[g.n].start)
                     /\ matched[g.n].end <= longest
            /\ \A n \in DOMAIN matched \ {g.n : g \in Groups(p.e)} :
                  matched[n] = [start |-> None, end |-> None]

(* A run answers what the patterns mean.                                                *)
AnswersRight == LongestMatch /\ CapturesFit

(* A pattern is taken exactly if it is one.                                             *)
TakesPatterns ==
    [][todo' # todo => (ret'.failed <=> Head(todo).e = Bad)]_regexVars

(* regex.h: what could not be added is reported by a negative number.                   *)
NegativeOnFailure == ret.failed => ret.rc < 0

(* However patterns loop over nothing, a run ends.                                      *)
Halts == phase = "start" ~> phase = "done"
=============================================================================
