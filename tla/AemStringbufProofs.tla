--------------------------- MODULE AemStringbufProofs ---------------------------
(***************************************************************************)
(* Proofs about the string buffer of AemStringbuf, for any text, any sizes *)
(* of borrowed buffers and any way in which allocations fail.              *)
(*                                                                         *)
(* Every call that adds text first reserves room for it, so the proofs say *)
(* once what a reserved buffer is (Reserving) and once what adding to one  *)
(* does (Adding).  The second part is about the reader of lines of         *)
(* AemReader, for any characters, any text and any way of cutting it.      *)
(***************************************************************************)
EXTENDS AemStringbuf, AemReader, SequenceTheorems, WellFoundedInduction, TLAPS

-----------------------------------------------------------------------------
(* Text *)

\* A prefix, said cell by cell.
LEMMA PrefixCells ==
    ASSUME NEW s \in Seq(Chars), NEW t \in Seq(Chars)
    PROVE IsPrefix(s, t) <=> Len(s) <= Len(t) /\ \A k \in 1 .. Len(s) : s[k] = t[k]
<1>1. CASE Len(s) <= Len(t)
  <2>1. SubSeq(s, 1, Len(s)) = s
    OBVIOUS
  <2>2. PICK u : u = SubSeq(t, 1, Len(s))
    OBVIOUS
  <2>3. u \in Seq(Chars) /\ Len(u) = Len(s) /\ \A k \in 1 .. Len(s) : u[k] = t[k]
    BY <1>1, <2>2
  <2>4. s = u <=> \A k \in 1 .. Len(s) : s[k] = t[k]
    BY <2>3
  <2> QED
    BY <1>1, <2>1, <2>2, <2>4 DEF IsPrefix
<1>2. CASE ~(Len(s) <= Len(t))
  BY <1>2 DEF IsPrefix
<1> QED
  BY <1>1, <1>2

\* A prefix of a text is one of everything that begins with the text, and a text that lost
\* its end while written is a prefix of what it would have been.
LEMMA PrefixWritten ==
    ASSUME NEW s \in Seq(Chars), NEW t \in Seq(Chars), NEW x \in Seq(Chars), IsPrefix(s, t)
    PROVE t \o x \in Seq(Chars) /\ IsPrefix(s, t \o x)
<1>1. PICK u : u = t \o x
  OBVIOUS
<1>2. u \in Seq(Chars) /\ Len(u) >= Len(t) /\ \A k \in 1 .. Len(t) : u[k] = t[k]
  BY <1>1
<1>3. Len(s) <= Len(t) /\ \A k \in 1 .. Len(s) : s[k] = t[k]
  BY PrefixCells
<1>4. Len(s) <= Len(u) /\ \A k \in 1 .. Len(s) : s[k] = u[k]
  BY <1>2, <1>3
<1> QED
  BY <1>1, <1>2, <1>4, PrefixCells

\* Every text is a prefix of itself.
LEMMA PrefixSelf ==
    ASSUME NEW s \in Seq(Chars)
    PROVE IsPrefix(s, s)
BY PrefixCells

\* A set of numbers that is not empty has a least one.
LEMMA LeastOf == ASSUME NEW S \in SUBSET Nat, S # {} PROVE \E m \in S : \A k \in S : m <= k
<1> DEFINE R == {ss \in Nat \X Nat : ss[1] < ss[2]}
<1>1. R = OpToRel(<, Nat)
  BY Zenon DEF OpToRel
<1>2. \A k, m \in Nat : k < m => <<k, m>> \in R
  BY SMT
<1> HIDE DEF R
<1>3. IsWellFoundedOn(R, Nat)
  BY <1>1, NatLessThanWellFounded, Zenon
<1>4. PICK m \in S : \A k \in S : ~(<<k, m>> \in R)
  BY <1>3, WFMin, Zenon
<1>5. \A k \in S : m <= k
  <2> TAKE k \in S
  <2>1. k \in Nat /\ m \in Nat
    OBVIOUS
  <2>2. ~(k < m)
    BY <1>2, <1>4, <2>1, Zenon
  <2> QED BY <2>1, <2>2, SMT
<1> QED BY <1>5

\* A number of characters is the greatest of a set of such numbers when none is greater.
LEMMA GreatestExists ==
    ASSUME NEW n \in Nat, NEW S \in SUBSET (0 .. n), 0 \in S
    PROVE /\ Max(S) \in S
          /\ \A k \in S : k <= Max(S)
<1> DEFINE D == {n - k : k \in S}
<1>1. D \in SUBSET Nat /\ n - 0 \in D
  OBVIOUS
<1>2. PICK m \in D : \A k \in D : m <= k
  BY <1>1, LeastOf
<1>3. n - m \in S /\ \A k \in S : n - m >= k
  BY <1>2
<1>4. \E x \in S : \A y \in S : x >= y
  BY <1>3
<1>5. Max(S) \in S /\ \A y \in S : Max(S) >= y
  BY <1>4 DEF Max
<1> QED
  BY <1>5

\* The smaller of two numbers.
LEMMA MinOfTwo ==
    ASSUME NEW a \in Int, NEW b \in Int
    PROVE Min({a, b}) = IF a <= b THEN a ELSE b
<1>1. \E x \in {a, b} : \A y \in {a, b} : x <= y
  OBVIOUS
<1>2. Min({a, b}) \in {a, b} /\ \A y \in {a, b} : Min({a, b}) <= y
  BY <1>1 DEF Min
<1> QED
  BY <1>2

\* The greater of two numbers.
LEMMA MaxOfTwo ==
    ASSUME NEW a \in Int, NEW b \in Int
    PROVE Max({a, b}) = IF a >= b THEN a ELSE b
<1>1. \E x \in {a, b} : \A y \in {a, b} : x >= y
  OBVIOUS
<1>2. Max({a, b}) \in {a, b} /\ \A y \in {a, b} : Max({a, b}) >= y
  BY <1>1 DEF Max
<1> QED
  BY <1>2

\* The part of a text that a call still takes.
LEMMA Beginning ==
    ASSUME NEW s \in Seq(Chars), NEW n \in 0 .. Len(s)
    PROVE /\ SubSeq(s, 1, n) \in Seq(Chars)
          /\ Len(SubSeq(s, 1, n)) = n
          /\ \A k \in 1 .. n : SubSeq(s, 1, n)[k] = s[k]
OBVIOUS

\* What _rtrim leaves of a text: up to the last character that is no space.
LEMMA Trimming ==
    ASSUME NEW s \in Seq(Chars)
    PROVE \E n \in 0 .. Len(s) :
            /\ Trimmed(s) = SubSeq(s, 1, n)
            /\ n > 0 => s[n] # Space
            /\ \A k \in n + 1 .. Len(s) : s[k] = Space
<1> DEFINE S == {0} \cup {k \in 1 .. Len(s) : s[k] # Space}
<1>1. S \in SUBSET (0 .. Len(s)) /\ 0 \in S /\ Len(s) \in Nat
  OBVIOUS
<1>2. Max(S) \in S /\ \A k \in S : k <= Max(S)
  BY <1>1, GreatestExists
<1>3. PICK n : n = Max(S)
  OBVIOUS
<1>4. n \in 0 .. Len(s) /\ (n > 0 => s[n] # Space)
  BY <1>2, <1>3
<1>5. \A k \in n + 1 .. Len(s) : s[k] = Space
  BY <1>2, <1>3, <1>4
<1>6. Trimmed(s) = SubSeq(s, 1, n)
  BY <1>3 DEF Trimmed
<1> QED
  BY <1>4, <1>5, <1>6

\* Trimming the beginning of a text leaves the beginning of what trimming the text leaves.
LEMMA TrimmedPrefix ==
    ASSUME NEW s \in Seq(Chars), NEW t \in Seq(Chars), IsPrefix(s, t)
    PROVE /\ Trimmed(s) \in Seq(Chars) /\ Trimmed(t) \in Seq(Chars)
          /\ Len(Trimmed(s)) <= Len(s)
          /\ IsPrefix(Trimmed(s), Trimmed(t))
<1>1. PICK m \in 0 .. Len(s) : /\ Trimmed(s) = SubSeq(s, 1, m)
                               /\ m > 0 => s[m] # Space
  BY Trimming
<1>2. PICK n \in 0 .. Len(t) : /\ Trimmed(t) = SubSeq(t, 1, n)
                               /\ \A k \in n + 1 .. Len(t) : t[k] = Space
  BY Trimming
<1>3. Len(s) <= Len(t) /\ \A k \in 1 .. Len(s) : s[k] = t[k]
  BY PrefixCells
<1>4. m <= n
  BY <1>1, <1>2, <1>3
<1>5. PICK u : u = Trimmed(s)
  OBVIOUS
<1>6. PICK v : v = Trimmed(t)
  OBVIOUS
<1>7. u \in Seq(Chars) /\ Len(u) = m /\ \A k \in 1 .. m : u[k] = s[k]
  BY <1>1, <1>5, Beginning
<1>8. v \in Seq(Chars) /\ Len(v) = n /\ \A k \in 1 .. n : v[k] = t[k]
  BY <1>2, <1>6, Beginning
<1>9. Len(u) <= Len(v)
  BY <1>4, <1>7, <1>8
<1>10. ASSUME NEW k \in 1 .. m PROVE u[k] = v[k]
  <2>1. k \in 1 .. n /\ k \in 1 .. Len(s)
    BY <1>4
  <2>2. u[k] = s[k] /\ v[k] = t[k] /\ s[k] = t[k]
    BY <1>3, <1>7, <1>8, <2>1
  <2> QED
    BY <2>2
<1>11. IsPrefix(u, v)
  BY <1>7, <1>8, <1>9, <1>10, PrefixCells
<1> QED
  BY <1>2, <1>5, <1>6, <1>7, <1>8, <1>11

-----------------------------------------------------------------------------
(* Buffers *)

Buffer == [text : Seq(Chars), maxn : Nat, heap : BOOLEAN, bad : BOOLEAN, fixed : BOOLEAN]

\* BufferFits of any buffer.
Fits(b) == Len(b.text) < b.maxn \/ (Len(b.text) = 0 /\ b.maxn = 0)
Owned(b) == b.fixed => ~b.heap /\ b.maxn \in Lent
Good(b) == b \in Buffer /\ Fits(b) /\ Owned(b)

\* BufferKeeps of any buffer and what was written to it, while nobody has made it forget that it was bad.
AllOf(b, f) == IF b.bad THEN IsPrefix(b.text, f) ELSE b.text = f
Keeps(b, f) == Unsafe = {} => AllOf(b, f)

\* What reserving leaves as it was: the text, and what went wrong before.
Same(r, b) == r.text = b.text /\ (b.bad => r.bad)

SbInv == Good(sb) /\ full \in Seq(Chars) /\ Keeps(sb, full)

\* Reserving finds memory for len characters and their terminator, or the buffer becomes bad.
LEMMA Reserving ==
    ASSUME NEW b, Good(b), NEW len \in Nat, NEW r \in ReservedTotal(b, len)
    PROVE Good(r) /\ Same(r, b) /\ (~r.bad => len < r.maxn)
<1> DEFINE need == Terminated(len)
<1>1. need \in Nat /\ need = len + 1
  BY DEF Terminated
<1> HIDE DEF need
<1>2. b \in Buffer /\ Fits(b) /\ Owned(b) /\ Len(b.text) \in Nat /\ b.maxn \in Nat
  BY DEF Good, Buffer
<1>3. Slack \in Nat
  BY SlackAssumption
<1>4. IF need <= b.maxn THEN r = b
      ELSE IF b.heap THEN r = [b EXCEPT !.bad = TRUE] \/ r = [b EXCEPT !.maxn = Grown(b.maxn, need)]
      ELSE r \in Grow(b, 2 * need)
  BY DEF ReservedTotal, need
<1>6. CASE r = [b EXCEPT !.bad = TRUE]
  <2>1. /\ r \in Buffer /\ r.text = b.text /\ r.maxn = b.maxn /\ r.bad = TRUE
        /\ r.heap = b.heap /\ r.fixed = b.fixed
    BY <1>2, <1>6 DEF Buffer
  <2> QED
    BY <1>2, <2>1 DEF Good, Same, Fits, Owned
<1>7. ASSUME NEW n \in Nat, need <= n, b.maxn < need, b.heap, r = [b EXCEPT !.maxn = n]
      PROVE Good(r) /\ Same(r, b) /\ (~r.bad => len < r.maxn)
  <2>1. /\ r \in Buffer /\ r.text = b.text /\ r.maxn = n /\ r.bad = b.bad
        /\ r.heap = b.heap /\ r.fixed = b.fixed
    BY <1>2, <1>7 DEF Buffer
  <2>2. Len(b.text) < n /\ len < n
    BY <1>1, <1>2, <1>7 DEF Fits
  <2>3. ~b.fixed
    BY <1>2, <1>7 DEF Owned
  <2> QED
    BY <2>1, <2>2, <2>3 DEF Good, Same, Fits, Owned
<1>8. ASSUME b.maxn < need, ~b.fixed, r = [b EXCEPT !.heap = TRUE, !.maxn = 2 * need]
      PROVE Good(r) /\ Same(r, b) /\ (~r.bad => len < r.maxn)
  <2>1. 2 * need \in Nat
    BY <1>1
  <2>2. /\ r \in Buffer /\ r.text = b.text /\ r.maxn = 2 * need /\ r.bad = b.bad
        /\ r.heap = TRUE /\ r.fixed = b.fixed
    BY <1>2, <1>8, <2>1 DEF Buffer
  <2>3. Len(b.text) < 2 * need /\ len < 2 * need
    BY <1>1, <1>2, <1>8 DEF Fits
  <2> QED
    BY <1>8, <2>2, <2>3 DEF Good, Same, Fits, Owned
<1>9. CASE ~(need <= b.maxn) /\ b.heap
  <2>1. PICK n : n = Grown(b.maxn, need)
    OBVIOUS
  <2>2. n \in Nat /\ need <= n
    BY <1>1, <1>2, <1>3, <1>9, <2>1 DEF Grown
  <2>3. b.maxn < need
    BY <1>1, <1>2, <1>9
  <2> QED
    BY <1>4, <1>6, <1>7, <1>9, <2>1, <2>2, <2>3
<1>10. CASE ~(need <= b.maxn) /\ ~b.heap
  <2>1. b.maxn < need
    BY <1>1, <1>2, <1>10
  <2>2. r \in Grow(b, 2 * need)
    BY <1>4, <1>10
  <2>3. \/ r = b /\ b.bad
        \/ r = [b EXCEPT !.bad = TRUE]
        \/ ~b.fixed /\ r = [b EXCEPT !.heap = TRUE, !.maxn = 2 * need]
    BY <2>2 DEF Grow
  <2>4. CASE r = b /\ b.bad
    BY <2>4 DEF Same
  <2> QED
    BY <1>6, <1>8, <2>1, <2>3, <2>4
<1>11. CASE need <= b.maxn
  <2>1. r = b
    BY <1>4, <1>11
  <2>2. len < b.maxn
    BY <1>1, <1>2, <1>11
  <2> QED
    BY <2>1, <2>2 DEF Same
<1> QED
  BY <1>9, <1>10, <1>11

\* The same for what is reserved on top of the text.
LEMMA ReservingFor ==
    ASSUME NEW b, Good(b), NEW len \in Nat, NEW r \in ReservedFor(b, len)
    PROVE Good(r) /\ Same(r, b) /\ (~r.bad => Len(b.text) + len < r.maxn)
<1>1. Len(b.text) \in Nat
  BY DEF Good, Buffer
<1>2. PICK n : n = Len(b.text) + len
  OBVIOUS
<1>3. n \in Nat
  BY <1>1, <1>2
<1>4. r \in ReservedTotal(b, n)
  BY <1>2 DEF ReservedFor
<1> QED
  BY <1>2, <1>3, <1>4, Reserving

\* A buffer with another text, for which it has the memory.
LEMMA Retexted ==
    ASSUME NEW b, Good(b), NEW x \in Seq(Chars), Len(x) < b.maxn \/ Len(x) <= Len(b.text),
           NEW r, r = [b EXCEPT !.text = x]
    PROVE Good(r) /\ r.text = x /\ r.bad = b.bad /\ r.maxn = b.maxn
<1>2. b \in Buffer
  BY DEF Good
<1>3. /\ r \in Buffer /\ r.text = x /\ r.maxn = b.maxn /\ r.bad = b.bad
      /\ r.heap = b.heap /\ r.fixed = b.fixed
  BY <1>2 DEF Buffer
<1>4. Len(x) \in Nat /\ Len(b.text) \in Nat /\ b.maxn \in Nat
  BY <1>2 DEF Buffer
<1>5. Fits(b) /\ Owned(b)
  BY DEF Good
<1>6. Fits(r)
  BY <1>3, <1>4, <1>5 DEF Fits
<1>7. Owned(r)
  BY <1>3, <1>5 DEF Owned
<1> QED
  BY <1>3, <1>6, <1>7 DEF Good

\* Adding to a buffer that is not bad and has room adds everything, to a bad one nothing.
LEMMA Adding ==
    ASSUME NEW b, Good(b), NEW x \in Seq(Chars), ~b.bad => Len(b.text) + Len(x) < b.maxn
    PROVE /\ Good(Added(b, x))
          /\ Added(b, x).text = IF b.bad THEN b.text ELSE b.text \o x
          /\ Added(b, x).bad = b.bad
          /\ Added(b, x).maxn = b.maxn
<1>1. CASE b.bad
  BY <1>1 DEF Added
<1>2. CASE ~b.bad
  <2>1. b.text \in Seq(Chars)
    BY DEF Good, Buffer
  <2>2. PICK u : u = b.text \o x
    OBVIOUS
  <2>3. u \in Seq(Chars) /\ Len(u) = Len(b.text) + Len(x)
    BY <2>1, <2>2
  <2>4. Added(b, x) = [b EXCEPT !.text = u]
    BY <1>2, <2>2 DEF Added
  <2>5. Len(u) < b.maxn
    BY <1>2, <2>3
  <2>6. PICK r : r = Added(b, x)
    OBVIOUS
  <2>7. Good(r) /\ r.text = u /\ r.bad = b.bad /\ r.maxn = b.maxn
    <3>1. r = [b EXCEPT !.text = u]
      BY <2>4, <2>6, Zenon
    <3>2. u \in Seq(Chars)
      BY <2>3
    <3> QED
      BY <2>5, <3>1, <3>2, Retexted
  <2> QED
    BY <1>2, <2>2, <2>6, <2>7
<1> QED
  BY <1>1, <1>2

\* Text that is reserved for and added is kept, as long as there is memory.
LEMMA Appending ==
    ASSUME NEW b, Good(b), NEW f \in Seq(Chars), Keeps(b, f), NEW x \in Seq(Chars),
           NEW r, Good(r), Same(r, b), ~r.bad => Len(b.text) + Len(x) < r.maxn,
           NEW q, q = Added(r, x), NEW g, g = f \o x
    PROVE Good(q) /\ g \in Seq(Chars) /\ Keeps(q, g)
<1>1. b.text \in Seq(Chars) /\ r.text = b.text
  BY DEF Good, Buffer, Same
<1>2. Good(q) /\ q.text = (IF r.bad THEN r.text ELSE r.text \o x) /\ q.bad = r.bad
  BY <1>1, Adding
<1>3. g \in Seq(Chars)
  OBVIOUS
<1>4. ASSUME AllOf(b, f), r.bad PROVE AllOf(q, g)
  <2>1. IsPrefix(b.text, f)
    BY <1>1, <1>4, PrefixSelf DEF AllOf
  <2>2. IsPrefix(b.text, g)
    BY <1>1, <2>1, PrefixWritten
  <2> QED
    BY <1>1, <1>2, <1>4, <2>2 DEF AllOf
<1>5. ASSUME AllOf(b, f), ~r.bad PROVE AllOf(q, g)
  <2>1. b.text = f
    BY <1>5 DEF AllOf, Same
  <2> QED
    BY <1>1, <1>2, <1>5, <2>1 DEF AllOf
<1> QED
  BY <1>2, <1>3, <1>4, <1>5 DEF Keeps

-----------------------------------------------------------------------------
(* Appending *)

\* What the calls that write are given.
LEMMA TextsAreText ==
    ASSUME NEW xs \in Texts
    PROVE xs \in Seq(Chars) /\ Len(xs) \in Nat /\ 1 <= Len(xs) /\ Len(xs) <= 2
<1>1. CASE \E a \in Chars : xs = <<a>>
  <2>1. PICK a \in Chars : xs = <<a>>
    BY <1>1
  <2>2. <<a>> \in Seq(Chars) /\ Len(<<a>>) = 1
    OBVIOUS
  <2>3. 1 \in Nat /\ 1 <= 1 /\ 1 <= 2
    OBVIOUS
  <2> QED
    BY <2>1, <2>2, <2>3, Zenon
<1>2. CASE \E a, b \in Chars : xs = <<a, b>>
  <2>1. PICK a \in Chars, b \in Chars : xs = <<a, b>>
    BY <1>2
  <2>2. <<a, b>> \in Seq(Chars) /\ Len(<<a, b>>) = 2
    OBVIOUS
  <2>3. 2 \in Nat /\ 1 <= 2 /\ 2 <= 2
    OBVIOUS
  <2> QED
    BY <2>1, <2>2, <2>3, Zenon
<1>3. (\E a \in Chars : xs = <<a>>) \/ (\E a, b \in Chars : xs = <<a, b>>)
  <2>1. xs \in {<<a>> : a \in Chars} \/ xs \in {<<a, b>> : a, b \in Chars}
    BY DEF Texts
  <2> QED
    BY <2>1
<1> QED
  BY <1>1, <1>2, <1>3

\* _putc, _puts, _putn, _append, _putss
LEMMA PutKeeps ==
    ASSUME SbInv, NEW xs \in Texts, Put(xs)
    PROVE SbInv'
<1>1. xs \in Seq(Chars) /\ Len(xs) \in Nat
  BY TextsAreText
<1>2. PICK b \in ReservedFor(sb, Len(xs)) : sb' = Added(b, xs)
  BY DEF Put
<1>3. Good(b) /\ Same(b, sb) /\ (~b.bad => Len(sb.text) + Len(xs) < b.maxn)
  BY <1>1, ReservingFor DEF SbInv
<1>4. full' = full \o xs
  BY DEF Put
<1> QED
  BY <1>1, <1>2, <1>3, <1>4, Appending DEF SbInv

\* The characters that _puts_limit takes are those that were given, one or two.
LEMMA FitIsText ==
    ASSUME NEW xs \in Texts, NEW n \in Int, SubSeq(xs, 1, n) # << >>, n <= Len(xs)
    PROVE /\ SubSeq(xs, 1, n) \in Seq(Chars) /\ Len(SubSeq(xs, 1, n)) = n /\ n \in 1 .. 2
          /\ n = 1 => SubSeq(xs, 1, n) = <<xs[1]>>
          /\ n = 2 => SubSeq(xs, 1, n) = <<xs[1]>> \o Tail(SubSeq(xs, 1, n))
          /\ <<SubSeq(xs, 1, n)[1]>> = <<xs[1]>> /\ <<xs[1]>> \in Seq(Chars)
          /\ Tail(SubSeq(xs, 1, n)) \in Seq(Chars)
          /\ n = 2 => Len(Tail(SubSeq(xs, 1, n))) = 1
<1>1. xs \in Seq(Chars) /\ Len(xs) \in Nat /\ 1 <= Len(xs) /\ Len(xs) <= 2
  BY TextsAreText
<1>2. n \in 1 .. 2 /\ n <= Len(xs)
  <2>1. CASE n < 1
    <3>1. PICK u : u = SubSeq(xs, 1, n)
      OBVIOUS
    <3>2. u \in Seq(Chars) /\ Len(u) = 0
      BY <1>1, <2>1, <3>1
    <3>3. u = << >>
      BY <3>2
    <3> QED
      BY <3>1, <3>3
  <2>2. CASE ~(n < 1)
    BY <1>1, <2>2
  <2> QED
    BY <2>1, <2>2
<1>3. PICK f : f = SubSeq(xs, 1, n)
  OBVIOUS
<1>4. f \in Seq(Chars) /\ Len(f) = n /\ f[1] = xs[1]
  BY <1>1, <1>2, <1>3
<1>5. xs[1] \in Chars
  BY <1>1
<1>6. <<xs[1]>> \in Seq(Chars) /\ Len(<<xs[1]>>) = 1
  BY <1>5
<1>7. PICK t : t = Tail(f)
  OBVIOUS
<1>8. t \in Seq(Chars) /\ Len(t) = n - 1 /\ \A k \in 1 .. n - 1 : t[k] = f[k + 1]
  BY <1>2, <1>4, <1>7
<1>9. n = 1 => f = <<xs[1]>>
  BY <1>4, <1>6
<1>10. n = 2 => f = <<xs[1]>> \o t
  <2>1. PICK g : g = <<xs[1]>> \o t
    OBVIOUS
  <2>2. /\ g \in Seq(Chars) /\ Len(g) = 1 + Len(t) /\ g[1] = xs[1]
        /\ \A k \in 2 .. 1 + Len(t) : g[k] = t[k - 1]
    BY <1>6, <1>8, <2>1
  <2>3. n = 2 => Len(g) = 2 /\ g[2] = f[2] /\ g[1] = f[1] /\ Len(f) = 2
    BY <1>4, <1>8, <2>2
  <2> QED
    BY <1>4, <2>1, <2>2, <2>3
<1> QED
  BY <1>2, <1>3, <1>4, <1>6, <1>7, <1>8, <1>9, <1>10

\* _puts_limit, character by character
LEMMA PutsLimitKeeps ==
    ASSUME SbInv, NEW xs \in Texts, NEW len \in Nat, PutsLimit(xs, len)
    PROVE SbInv'
<1> DEFINE most == Max({0, len - N})
           n == Min({Len(xs), most})
           fit == SubSeq(xs, 1, n)
           c == <<fit[1]>>
           d == Tail(fit)
<1>1. xs \in Seq(Chars) /\ Len(xs) \in Nat /\ 1 <= Len(xs) /\ Len(xs) <= 2
  BY TextsAreText
<1>2. N \in Nat
  BY DEF SbInv, Good, Buffer, N
<1>3. most \in Int
  BY <1>2, MaxOfTwo
<1> HIDE DEF most
<1>4. n \in Int /\ n <= Len(xs)
  BY <1>1, <1>3, MinOfTwo
<1>5. /\ fit # << >> /\ full' = full \o fit
      /\ \E b1 \in ReservedFor(sb, 1) : \E b2 \in ReservedFor(Added(b1, c), 1) :
           sb' = IF Len(fit) = 1 THEN Added(b1, fit) ELSE Added(b2, d)
  BY DEF PutsLimit, most
<1> HIDE DEF n
<1>6. /\ fit \in Seq(Chars) /\ Len(fit) = n /\ n \in 1 .. 2
      /\ n = 1 => fit = c
      /\ n = 2 => fit = c \o d
      /\ c \in Seq(Chars) /\ d \in Seq(Chars)
      /\ n = 2 => Len(d) = 1
  BY <1>4, <1>5, FitIsText
<1>7. Len(c) = 1
  OBVIOUS
<1> HIDE DEF fit, c, d
<1>8. PICK b1 \in ReservedFor(sb, 1) : \E b2 \in ReservedFor(Added(b1, c), 1) :
           sb' = IF Len(fit) = 1 THEN Added(b1, fit) ELSE Added(b2, d)
  BY <1>5
<1>9. PICK b2 \in ReservedFor(Added(b1, c), 1) :
           sb' = IF Len(fit) = 1 THEN Added(b1, fit) ELSE Added(b2, d)
  BY <1>8
<1>10. Good(b1) /\ Same(b1, sb) /\ (~b1.bad => Len(sb.text) + Len(c) < b1.maxn)
  BY <1>7, ReservingFor DEF SbInv
<1>11. PICK q : q = Added(b1, c)
  OBVIOUS
<1>12. PICK f : f = full \o c
  OBVIOUS
<1>13. Good(q) /\ f \in Seq(Chars) /\ Keeps(q, f)
  BY <1>6, <1>10, <1>11, <1>12, Appending DEF SbInv
<1>14. CASE n = 1
  BY <1>5, <1>6, <1>9, <1>11, <1>12, <1>13, <1>14 DEF SbInv
<1>15. CASE n = 2
  <2>1. Good(b2) /\ Same(b2, q) /\ (~b2.bad => Len(q.text) + Len(d) < b2.maxn)
    BY <1>6, <1>9, <1>11, <1>13, <1>15, ReservingFor
  <2>2. PICK p, g : p = Added(b2, d) /\ g = f \o d
    OBVIOUS
  <2>3. Good(p) /\ g \in Seq(Chars) /\ Keeps(p, g)
    BY <1>6, <1>13, <2>1, <2>2, Appending
  <2>4. full' = g
    <3>1. full \in Seq(Chars) /\ c \in Seq(Chars) /\ d \in Seq(Chars)
      BY <1>6 DEF SbInv
    <3>2. full \o (c \o d) = (full \o c) \o d
      BY <3>1
    <3> QED
      BY <1>5, <1>6, <1>12, <1>15, <2>2, <3>2
  <2> QED
    BY <1>6, <1>9, <1>15, <2>2, <2>3, <2>4 DEF SbInv
<1> QED
  BY <1>6, <1>14, <1>15

\* _vprintf, with a second try for which there is room
LEMMA VprintfKeeps ==
    ASSUME Unsafe \subseteq {"pop_front"}, SbInv, NEW xs \in Texts, Vprintf(xs)
    PROVE SbInv'
<1>1. xs \in Seq(Chars) /\ Len(xs) \in Nat
  BY TextsAreText
<1>2. ~sb.bad /\ full' = full \o xs
  BY DEF Vprintf
<1>3. /\ Good(sb) /\ sb.text \in Seq(Chars) /\ Len(sb.text) \in Nat /\ sb.maxn \in Nat
      /\ full \in Seq(Chars) /\ Keeps(sb, full)
  BY DEF SbInv, Good, Buffer
<1>4. CASE Len(xs) <= Available(sb)
  <2>1. sb' = Added(sb, xs)
    BY <1>4 DEF Vprintf
  <2>2. Len(sb.text) + Len(xs) < sb.maxn
    BY <1>1, <1>3, <1>4 DEF Available
  <2>3. Same(sb, sb)
    BY DEF Same
  <2> QED
    BY <1>1, <1>2, <1>3, <2>1, <2>2, <2>3, Appending DEF SbInv
<1>5. CASE ~(Len(xs) <= Available(sb))
  <2>1. PICK b \in ReservedFor(sb, Len(xs) + 2) : Available(b) >= 0 /\ sb' = SecondTry(b, xs)
    BY <1>5 DEF Vprintf
  <2>2. PICK m : m = Len(xs) + 2
    OBVIOUS
  <2>3. m \in Nat
    BY <1>1, <2>2
  <2>4. Good(b) /\ Same(b, sb) /\ (~b.bad => Len(sb.text) + m < b.maxn)
    BY <1>3, <2>1, <2>2, <2>3, ReservingFor
  <2>5. b.text = sb.text /\ b.maxn \in Nat
    BY <2>4 DEF Good, Buffer, Same
  <2>6. PICK a : a = Available(b)
    OBVIOUS
  <2>7. a = b.maxn - Len(b.text) - 1 /\ a \in Nat
    BY <1>3, <2>1, <2>5, <2>6 DEF Available
  <2>8. PICK n : n = Min({Len(xs), a})
    OBVIOUS
  <2>9. n = (IF Len(xs) <= a THEN Len(xs) ELSE a) /\ n \in 0 .. Len(xs) /\ n <= a
    BY <1>1, <2>7, <2>8, MinOfTwo
  <2>10. PICK s : s = SubSeq(xs, 1, n)
    OBVIOUS
  <2>11. s \in Seq(Chars) /\ Len(s) = n /\ \A k \in 1 .. n : s[k] = xs[k]
    BY <1>1, <2>9, <2>10, Beginning
  <2>12. PICK t : t = sb.text \o s
    OBVIOUS
  <2>13. sb' = [b EXCEPT !.text = t]
    <3>1. PICK w : w = IF Available(b) < 0 THEN [k \in 1 .. 9 * TextMax |-> Space]
                       ELSE b.text \o SubSeq(xs, 1, Min({Len(xs), Available(b)}))
      OBVIOUS
    <3>2. ~(Available(b) < 0)
      BY <2>6, <2>7
    <3>3. w = b.text \o SubSeq(xs, 1, n)
      BY <2>6, <2>8, <3>1, <3>2, Zenon
    <3>4. w = t
      BY <2>5, <2>10, <2>12, <3>3, Zenon
    <3>5. sb' = [b EXCEPT !.text = w]
      BY <2>1, <3>1, Zenon DEF SecondTry
    <3> QED
      BY <3>4, <3>5, Zenon
  <2>14. t \in Seq(Chars) /\ Len(t) = Len(sb.text) + n
    <3>1. PICK v : v = sb.text
      OBVIOUS
    <3>2. v \in Seq(Chars) /\ t = v \o s
      BY <1>3, <2>12, <3>1
    <3>3. t \in Seq(Chars) /\ Len(t) = Len(v) + Len(s)
      <4>1. s \in Seq(Chars)
        BY <2>11
      <4> QED
        BY <3>2, <4>1
    <3> QED
      BY <2>11, <3>1, <3>3
  <2>15. Len(t) < b.maxn
    BY <1>3, <2>5, <2>7, <2>9, <2>14
  <2>16. Good(sb') /\ sb'.text = t /\ sb'.bad = b.bad
    BY <2>4, <2>13, <2>14, <2>15, Retexted
  <2>17. PICK f : f = full \o xs
    OBVIOUS
  <2>18. f \in Seq(Chars)
    BY <1>1, <1>3, <2>17
  <2>19. ASSUME Unsafe = {} PROVE sb.text = full /\ IsPrefix(t, f)
    <3>0. sb.text = full
      BY <1>2, <1>3, <2>19 DEF Keeps, AllOf
    <3>1. Len(f) = Len(sb.text) + Len(xs)
      BY <1>1, <1>3, <2>17, <3>0
    <3>2. \A k \in 1 .. Len(t) : t[k] = IF k <= Len(sb.text) THEN sb.text[k] ELSE s[k - Len(sb.text)]
      BY <1>3, <2>11, <2>12, <2>14
    <3>3. \A k \in 1 .. Len(f) : f[k] = IF k <= Len(sb.text) THEN sb.text[k] ELSE xs[k - Len(sb.text)]
      BY <1>1, <1>3, <2>17, <3>0, <3>1
    <3>4. Len(t) <= Len(f)
      BY <1>1, <1>3, <2>9, <2>14, <3>1
    <3>5. ASSUME NEW k \in 1 .. Len(t) PROVE t[k] = f[k]
      <4>1. k \in 1 .. Len(f) /\ k \in Nat
        BY <2>14, <2>18, <3>4
      <4>2. CASE k <= Len(sb.text)
        BY <3>2, <3>3, <4>1, <4>2
      <4>3. CASE ~(k <= Len(sb.text))
        <5>1. k - Len(sb.text) \in 1 .. n
          BY <1>3, <2>9, <2>14, <4>1, <4>3
        <5> QED
          BY <2>11, <3>2, <3>3, <4>1, <4>3, <5>1
      <4> QED
        BY <4>2, <4>3
    <3> QED
      BY <2>14, <2>18, <3>0, <3>4, <3>5, PrefixCells
  <2>20. ASSUME Unsafe = {}, ~b.bad PROVE t = f
    <3>2. Len(xs) <= a
      <4>1. Len(sb.text) + m < b.maxn
        BY <2>4, <2>20
      <4>2. Len(b.text) = Len(sb.text)
        BY <2>5
      <4>3. PICK i, j, y : i = Len(xs) /\ j = Len(sb.text) /\ y = b.maxn
        OBVIOUS
      <4>4. i \in Nat /\ j \in Nat /\ y \in Nat
        BY <1>1, <1>3, <2>5, <4>3
      <4>5. j + (i + 2) < y /\ a = y - j - 1
        BY <2>2, <2>7, <4>1, <4>2, <4>3
      <4>6. i <= a
        BY <4>4, <4>5
      <4> QED
        BY <4>3, <4>6, Zenon
    <3>3. s = xs
      BY <1>1, <2>9, <2>11, <3>2
    <3> QED
      BY <2>12, <2>17, <2>19, <2>20, <3>3
  <2>21. Unsafe = {} => AllOf(sb', f)
    BY <2>16, <2>19, <2>20 DEF AllOf
  <2> QED
    BY <1>2, <2>16, <2>17, <2>18, <2>21 DEF SbInv, Keeps, AllOf
<1> QED
  BY <1>4, <1>5

\* What _pad puts behind the text: nothing, when the text is long enough.
LEMMA Repeated ==
    ASSUME NEW c \in Chars, NEW n \in Int, NEW x, x = [k \in 1 .. n |-> c]
    PROVE x \in Seq(Chars) /\ Len(x) = IF n > 0 THEN n ELSE 0
<1>1. CASE n > 0
  BY <1>1
<1>2. CASE ~(n > 0)
  <2>1. 1 .. n = {} /\ 1 .. 0 = {}
    BY <1>2
  <2>2. x = [k \in 1 .. 0 |-> c]
    BY <2>1
  <2>3. x = << >>
    BY <2>2
  <2>4. << >> \in Seq(Chars) /\ Len(<< >>) = 0
    OBVIOUS
  <2>5. x \in Seq(Chars)
    BY <2>3, <2>4, Zenon
  <2>6. Len(x) = 0
    BY <2>3, <2>4, Zenon
  <2> QED
    BY <1>2, <2>5, <2>6
<1> QED
  BY <1>1, <1>2

\* _pad, which reserves more than it needs
LEMMA PadKeeps ==
    ASSUME SbInv, NEW len \in Nat, NEW c \in Chars, Pad(len, c)
    PROVE SbInv'
<1>1. PICK n : n = len - N
  OBVIOUS
<1>2. PICK x : x = [k \in 1 .. n |-> c]
  OBVIOUS
<1>3. PICK b \in ReservedFor(sb, len) : sb' = Added(b, x)
  BY <1>1, <1>2 DEF Pad
<1>4. full' = full \o x
  BY <1>1, <1>2 DEF Pad
<1>5. Len(sb.text) \in Nat
  BY DEF SbInv, Good, Buffer
<1>6. n \in Int /\ n = len - Len(sb.text)
  BY <1>1, <1>5 DEF N
<1>7. x \in Seq(Chars) /\ Len(x) = IF n > 0 THEN n ELSE 0
  BY <1>2, <1>6, Repeated
<1>8. Good(b) /\ Same(b, sb) /\ (~b.bad => Len(sb.text) + len < b.maxn)
  BY <1>3, ReservingFor DEF SbInv
<1>9. b.maxn \in Nat /\ Len(x) \in Nat /\ Len(x) <= len
  BY <1>5, <1>6, <1>7, <1>8 DEF Good, Buffer
<1>10. ~b.bad => Len(sb.text) + Len(x) < b.maxn
  BY <1>5, <1>8, <1>9
<1> QED
  BY <1>3, <1>4, <1>7, <1>8, <1>10, Appending DEF SbInv

\* _file_read and _fd_read, into memory that was reserved
LEMMA ReadKeeps ==
    ASSUME Unsafe \subseteq {"pop_front"}, SbInv, NEW n \in Nat, NEW xs \in Texts, Read(n, xs)
    PROVE SbInv'
<1>1. xs \in Seq(Chars) /\ Len(xs) \in Nat
  BY TextsAreText
<1>2. Len(xs) <= n /\ full' = full \o xs
  BY DEF Read
<1>3. PICK b \in ReservedFor(sb, n) : ~b.bad /\ sb' = [b EXCEPT !.text = @ \o xs]
  BY DEF Read
<1>4. sb' = Added(b, xs)
  BY <1>3 DEF Added
<1>5. Good(b) /\ Same(b, sb) /\ (~b.bad => Len(sb.text) + n < b.maxn)
  BY <1>3, ReservingFor DEF SbInv
<1>6. b.maxn \in Nat /\ Len(sb.text) \in Nat
  BY <1>5 DEF SbInv, Good, Buffer
<1>7. ~b.bad => Len(sb.text) + Len(xs) < b.maxn
  BY <1>1, <1>2, <1>5, <1>6
<1> QED
  BY <1>1, <1>2, <1>4, <1>5, <1>7, Appending DEF SbInv

-----------------------------------------------------------------------------
(* Assigning, and taking away *)

\* A text said cell by cell.
LEMMA FunctionIsText ==
    ASSUME NEW n \in Nat, NEW l \in [1 .. n -> Chars]
    PROVE l \in Seq(Chars) /\ Len(l) = n
OBVIOUS

\* The text with a character put at i, behind its end if need be.
LEMMA Lengthened ==
    ASSUME NEW s \in Seq(Chars), NEW i \in Nat, NEW c \in Chars, NEW l,
           l = [k \in 1 .. Max({Len(s), i + 1}) |-> IF k = i + 1 THEN c
                                                    ELSE IF k <= Len(s) THEN s[k] ELSE Space]
    PROVE l \in Seq(Chars) /\ Len(l) = IF i + 1 <= Len(s) THEN Len(s) ELSE i + 1
<1>1. PICK n : n = Max({Len(s), i + 1})
  OBVIOUS
<1>2. Len(s) \in Nat
  OBVIOUS
<1>3. n \in Nat /\ n = IF i + 1 <= Len(s) THEN Len(s) ELSE i + 1
  BY <1>1, <1>2, MaxOfTwo
<1>4. l = [k \in 1 .. n |-> IF k = i + 1 THEN c ELSE IF k <= Len(s) THEN s[k] ELSE Space]
  BY <1>1
<1>5. Space \in Chars
  BY StringbufAssumption
<1>6. ASSUME NEW k \in 1 .. n
      PROVE (IF k = i + 1 THEN c ELSE IF k <= Len(s) THEN s[k] ELSE Space) \in Chars
  BY <1>3, <1>5
<1>7. l \in [1 .. n -> Chars] /\ DOMAIN l = 1 .. n
  BY <1>4, <1>6
<1>8. l \in Seq(Chars) /\ Len(l) = n
  <2>1. n \in Nat
    BY <1>3
  <2> QED
    BY <1>7, <2>1, FunctionIsText
<1> QED
  BY <1>3, <1>8

\* _assign, when memory does not end before its character
LEMMA PutAtKeeps ==
    ASSUME Unsafe \subseteq {"pop_front"}, SbInv, NEW i \in Nat, NEW c \in Chars, PutAt(i, Space, c)
    PROVE SbInv'
<1> DEFINE longer(s) == [k \in 1 .. Max({Len(s), i + 1}) |->
                           IF k = i + 1 THEN c ELSE IF k <= Len(s) THEN s[k] ELSE Space]
<1>1. ~sb.bad /\ full' = longer(full)
  BY DEF PutAt
<1>2. /\ Good(sb) /\ sb.text \in Seq(Chars) /\ full \in Seq(Chars)
      /\ Len(sb.text) \in Nat /\ sb.maxn \in Nat
  BY DEF SbInv, Good, Buffer
<1>3. Unsafe = {} => sb.text = full
  BY <1>1 DEF SbInv, Keeps, AllOf
<1>4. PICK l, g : l = longer(sb.text) /\ g = longer(full)
  OBVIOUS
<1>5. /\ l \in Seq(Chars) /\ Len(l) = (IF i + 1 <= Len(sb.text) THEN Len(sb.text) ELSE i + 1)
      /\ g \in Seq(Chars)
  <2>1. ASSUME NEW s \in Seq(Chars), NEW x, x = longer(s)
        PROVE  x \in Seq(Chars) /\ Len(x) = IF i + 1 <= Len(s) THEN Len(s) ELSE i + 1
    BY <2>1, Lengthened
  <2> HIDE DEF longer
  <2>2. PICK s : s = sb.text
    OBVIOUS
  <2>3. l \in Seq(Chars) /\ Len(l) = IF i + 1 <= Len(s) THEN Len(s) ELSE i + 1
    BY <1>2, <1>4, <2>1, <2>2
  <2>4. g \in Seq(Chars)
    BY <1>2, <1>4, <2>1
  <2> QED
    BY <2>2, <2>3, <2>4
<1>6. IF i + 1 <= Len(sb.text) THEN sb' = [sb EXCEPT !.text = longer(sb.text)]
      ELSE \E b \in ReservedTotal(sb, i + 1) : ~b.bad /\ sb' = [b EXCEPT !.text = longer(b.text)]
  BY DEF PutAt, N
<1> HIDE DEF longer
<1>7. Unsafe = {} => l = g
  BY <1>3, <1>4
<1>8. CASE i + 1 <= Len(sb.text)
  <2>1. sb' = [sb EXCEPT !.text = l]
    BY <1>4, <1>6, <1>8
  <2>2. Len(l) <= Len(sb.text)
    BY <1>2, <1>5, <1>8
  <2>3. Good(sb') /\ sb'.text = l /\ sb'.bad = sb.bad
    BY <1>2, <1>5, <2>1, <2>2, Retexted
  <2> QED
    BY <1>1, <1>4, <1>5, <1>7, <2>3 DEF SbInv, Keeps, AllOf
<1>9. CASE ~(i + 1 <= Len(sb.text))
  <2>1. PICK b \in ReservedTotal(sb, i + 1) : ~b.bad /\ sb' = [b EXCEPT !.text = longer(b.text)]
    BY <1>6, <1>9
  <2>2. PICK n : n = i + 1
    OBVIOUS
  <2>3. n \in Nat /\ b \in ReservedTotal(sb, n)
    BY <2>1, <2>2
  <2>4. Good(b) /\ Same(b, sb) /\ (~b.bad => n < b.maxn)
    BY <1>2, <2>3, Reserving
  <2>5. longer(b.text) = l
    BY <1>4, <2>4 DEF Same
  <2>6. sb' = [b EXCEPT !.text = l]
    BY <2>1, <2>5
  <2>7. Len(l) < b.maxn
    BY <1>5, <1>9, <2>1, <2>2, <2>4
  <2>8. Good(sb') /\ sb'.text = l /\ sb'.bad = b.bad
    BY <1>5, <2>4, <2>6, <2>7, Retexted
  <2> QED
    BY <1>1, <1>4, <1>5, <1>7, <2>1, <2>8 DEF SbInv, Keeps, AllOf
<1> QED
  BY <1>8, <1>9

\* _rtrim
LEMMA RtrimKeeps ==
    ASSUME SbInv, Rtrim
    PROVE SbInv'
<1>1. PICK s, t : s = sb.text /\ t = full
  OBVIOUS
<1>2. Good(sb) /\ s \in Seq(Chars) /\ t \in Seq(Chars)
  BY <1>1 DEF SbInv, Good, Buffer
<1>3. /\ Trimmed(s) \in Seq(Chars) /\ Len(Trimmed(s)) <= Len(s) /\ Trimmed(t) \in Seq(Chars)
      /\ IsPrefix(s, t) => IsPrefix(Trimmed(s), Trimmed(t))
  <2>1. IsPrefix(s, s) /\ IsPrefix(t, t)
    BY <1>2, PrefixSelf
  <2> QED
    BY <1>2, <2>1, TrimmedPrefix
<1>4. PICK x : x = Trimmed(s)
  OBVIOUS
<1>5. sb' = [sb EXCEPT !.text = x] /\ full' = Trimmed(t)
  BY <1>1, <1>4 DEF Rtrim
<1>6. Good(sb') /\ sb'.text = x /\ sb'.bad = sb.bad
  BY <1>1, <1>2, <1>3, <1>4, <1>5, Retexted
<1>7. Keeps(sb', full')
  BY <1>1, <1>3, <1>4, <1>5, <1>6 DEF SbInv, Keeps, AllOf
<1> QED
  BY <1>3, <1>5, <1>6, <1>7 DEF SbInv

\* _pop_front
LEMMA PopFrontKeeps ==
    ASSUME Unsafe \subseteq {"pop_front"}, SbInv, NEW n \in Nat, PopFront(n)
    PROVE SbInv'
<1>1. (Unsafe = {} => ~sb.bad) /\ n \in 1 .. Len(sb.text)
  BY DEF PopFront, N
<1>2. PICK b, s, f : b = sb /\ s = sb.text /\ f = full
  OBVIOUS
<1>3. b \in Buffer /\ Good(b) /\ b.text = s /\ s \in Seq(Chars) /\ f \in Seq(Chars) /\ n \in 1 .. Len(s)
  BY <1>1, <1>2 DEF SbInv, Good, Buffer
<1>4. Unsafe = {} => s = f /\ ~b.bad
  BY <1>1, <1>2 DEF SbInv, Keeps, AllOf
<1>5. PICK x, g, bad : x = SubSeq(s, n + 1, Len(s)) /\ g = SubSeq(f, n + 1, Len(f)) /\ bad = (b.bad /\ n < Len(s))
  OBVIOUS
<1>6. x \in Seq(Chars) /\ Len(x) <= Len(s) /\ g \in Seq(Chars) /\ bad \in BOOLEAN
  BY <1>3, <1>5
<1>7. sb' = [b EXCEPT !.text = x, !.bad = bad] /\ full' = g
  BY <1>2, <1>5 DEF PopFront, Popped, N
<1>8. PICK r : r = [b EXCEPT !.text = x, !.bad = bad]
  OBVIOUS
<1>9. /\ r \in Buffer /\ r.text = x /\ r.maxn = b.maxn /\ r.bad = bad
      /\ r.heap = b.heap /\ r.fixed = b.fixed
  BY <1>3, <1>6, <1>8 DEF Buffer
<1>10. Len(x) \in Nat /\ Len(s) \in Nat /\ b.maxn \in Nat
  BY <1>3, <1>6 DEF Buffer
<1>11. Good(r)
  BY <1>3, <1>6, <1>9, <1>10 DEF Good, Fits, Owned
<1>12. Unsafe = {} => AllOf(r, g)
  BY <1>4, <1>5, <1>9 DEF AllOf
<1> QED
  BY <1>6, <1>7, <1>8, <1>11, <1>12 DEF SbInv, Keeps, AllOf

\* _reset
LEMMA ResetKeeps ==
    ASSUME SbInv, Reset
    PROVE SbInv'
<1>1. PICK b : b = sb
  OBVIOUS
<1>2. b \in Buffer /\ Owned(b) /\ b.maxn \in Nat
  BY <1>1 DEF SbInv, Good, Buffer
<1>3. PICK r : r = [b EXCEPT !.text = << >>, !.bad = FALSE]
  OBVIOUS
<1>4. << >> \in Seq(Chars) /\ Len(<< >>) = 0
  OBVIOUS
<1>5. /\ r \in Buffer /\ r.text = << >> /\ r.maxn = b.maxn /\ r.bad = FALSE
      /\ r.heap = b.heap /\ r.fixed = b.fixed
  BY <1>2, <1>3, <1>4 DEF Buffer
<1>6. Good(r)
  BY <1>2, <1>4, <1>5 DEF Good, Fits, Owned
<1>7. sb' = r /\ full' = << >>
  BY <1>1, <1>3 DEF Reset
<1> QED
  BY <1>4, <1>5, <1>6, <1>7 DEF SbInv, Keeps, AllOf

\* _shrinkwrap, which leaves room for the terminator
LEMMA ShrinkwrapKeeps ==
    ASSUME SbInv, SbShrinkwrap
    PROVE SbInv'
<1>1. PICK b, n : b = sb /\ n = Len(sb.text) + 1
  OBVIOUS
<1>2. b \in Buffer /\ Len(b.text) \in Nat /\ ~b.fixed
  BY <1>1 DEF SbInv, Good, Buffer, SbShrinkwrap
<1>3. PICK r : r = [b EXCEPT !.maxn = n]
  OBVIOUS
<1>4. n \in Nat /\ Len(b.text) < n
  BY <1>1, <1>2
<1>5. /\ r \in Buffer /\ r.text = b.text /\ r.maxn = n /\ r.bad = b.bad
      /\ r.heap = b.heap /\ r.fixed = b.fixed
  BY <1>2, <1>3, <1>4 DEF Buffer
<1>6. Good(r)
  BY <1>2, <1>4, <1>5 DEF Good, Fits, Owned
<1>7. sb' = r /\ full' = full
  BY <1>1, <1>3 DEF SbShrinkwrap, N
<1> QED
  BY <1>1, <1>5, <1>6, <1>7 DEF SbInv, Keeps, AllOf

\* A new buffer on the heap, or in what an owner lends.
LEMMA NewIsGood ==
    /\ Good(OnHeap) /\ OnHeap.text = << >> /\ ~OnHeap.bad
    /\ \A n \in Lent, f \in BOOLEAN : /\ Good(Borrowed(n, f))
                                      /\ Borrowed(n, f).text = << >> /\ ~Borrowed(n, f).bad
<1>1. << >> \in Seq(Chars) /\ Len(<< >>) = 0
  OBVIOUS
<1>2. OnHeap \in Buffer
  BY <1>1 DEF OnHeap, Buffer
<1>3. Good(OnHeap) /\ OnHeap.text = << >> /\ ~OnHeap.bad
  BY <1>1, <1>2 DEF OnHeap, Good, Fits, Owned
<1>4. ASSUME NEW n \in Lent, NEW f \in BOOLEAN
      PROVE Good(Borrowed(n, f)) /\ Borrowed(n, f).text = << >> /\ ~Borrowed(n, f).bad
  <2>1. n \in Nat /\ n > 0
    BY StringbufAssumption
  <2>2. PICK r : r = Borrowed(n, f)
    OBVIOUS
  <2>3. /\ r \in Buffer /\ r.text = << >> /\ r.maxn = n /\ r.bad = FALSE
        /\ r.heap = FALSE /\ r.fixed = f
    BY <1>1, <2>1, <2>2 DEF Borrowed, OnHeap, Buffer
  <2> QED
    BY <1>1, <2>1, <2>2, <2>3 DEF Good, Fits, Owned
<1> QED
  BY <1>3, <1>4

\* _dtor and _init_prealloc
LEMMA FreshKeeps ==
    ASSUME SbInv, NEW n \in Nat, SbDtor \/ InitPrealloc(n)
    PROVE SbInv'
<1>1. << >> \in Seq(Chars) /\ IsPrefix(<< >>, << >>)
  <2>1. << >> \in Seq(Chars)
    OBVIOUS
  <2> QED
    BY <2>1, PrefixSelf, Zenon
<1>2. full' = << >>
  BY DEF SbDtor, InitPrealloc
<1>3. CASE SbDtor
  BY <1>1, <1>2, <1>3, NewIsGood DEF SbDtor, SbInv, Keeps, AllOf
<1>4. CASE InitPrealloc(n)
  <2>1. Good(OnHeap) /\ sb' \in ReservedTotal(OnHeap, n)
    BY <1>4, NewIsGood DEF InitPrealloc
  <2>2. Good(sb') /\ Same(sb', OnHeap)
    BY <2>1, Reserving
  <2> QED
    BY <1>1, <1>2, <2>2, NewIsGood DEF SbInv, Keeps, AllOf, Same
<1> QED
  BY <1>3, <1>4

-----------------------------------------------------------------------------
(* The invariant *)

\* A buffer begins good and true to the text that it was not given.
LEMMA BufferBegins == SbInit => SbInv
<1> SUFFICES ASSUME SbInit PROVE SbInv
  OBVIOUS
<1>1. << >> \in Seq(Chars) /\ full = << >>
  BY DEF SbInit
<1>2. sb = OnHeap \/ \E n \in Lent, f \in BOOLEAN : sb = Borrowed(n, f)
  BY DEF SbInit
<1>3. Good(sb) /\ sb.text = << >> /\ ~sb.bad
  BY <1>2, NewIsGood
<1> QED
  BY <1>1, <1>3 DEF SbInv, Keeps, AllOf

\* Every call keeps it, whichever allocations fail.
LEMMA BufferStep ==
    ASSUME Unsafe \subseteq {"pop_front"}, SbInv, [SbNext]_sbVars
    PROVE SbInv'
<1>1. TextMax \in Nat /\ 1 .. TextMax \subseteq Nat /\ 0 .. TextMax \subseteq Nat
  BY StringbufAssumption
<1>2. CASE UNCHANGED sbVars
  BY <1>2 DEF sbVars, SbInv
<1>3. ASSUME NEW xs \in Texts, Put(xs) \/ Vprintf(xs) PROVE SbInv'
  BY <1>3, PutKeeps, VprintfKeeps
<1>4. ASSUME NEW xs \in Texts, NEW n \in 1 .. TextMax, PutsLimit(xs, n) \/ Read(n, xs) PROVE SbInv'
  BY <1>1, <1>4, PutsLimitKeeps, ReadKeeps
<1>5. ASSUME NEW c \in Chars, NEW n \in 0 .. TextMax, Pad(n, c) \/ PutAt(n, Space, c) PROVE SbInv'
  BY <1>1, <1>5, PadKeeps, PutAtKeeps
<1>6. ASSUME NEW n \in 1 .. TextMax, PopFront(n) \/ InitPrealloc(n) PROVE SbInv'
  BY <1>1, <1>6, PopFrontKeeps, FreshKeeps
<1>7. CASE Rtrim \/ Reset \/ SbShrinkwrap \/ SbDtor
  BY <1>7, RtrimKeeps, ResetKeeps, ShrinkwrapKeeps, FreshKeeps
<1> QED
  BY <1>2, <1>3, <1>4, <1>5, <1>6, <1>7 DEF SbNext

\* For every text and every way in which allocations fail, the struct of stringbuf.c keeps within
\* its memory, also when _pop_front is called on a bad buffer; vprintf, assign and read must cope.
THEOREM BufferAlwaysFits ==
    ASSUME Unsafe \subseteq {"pop_front"}
    PROVE SbSpec => []BufferFits
<1>1. SbInit => SbInv
  BY BufferBegins
<1>2. SbInv /\ [SbNext]_sbVars => SbInv'
  BY BufferStep
<1>3. SbInv => BufferFits
  BY DEF SbInv, Good, Fits, Owned, BufferFits, N
<1> QED
  BY <1>1, <1>2, <1>3, PTL DEF SbSpec

\* And when every call copes with a failed allocation, it is true to what was written as well.
THEOREM BufferAlwaysHolds ==
    ASSUME Unsafe = {}
    PROVE SbSpec => []BufferHolds
<1>1. SbInit => SbInv
  BY BufferBegins
<1>2. SbInv /\ [SbNext]_sbVars => SbInv'
  BY BufferStep
<1>3. SbInv => BufferHolds
  BY DEF SbInv, Good, Fits, Owned, Keeps, AllOf, BufferHolds, BufferFits, BufferKeeps, N
<1> QED
  BY <1>1, <1>2, <1>3, PTL DEF SbSpec

-----------------------------------------------------------------------------
(* The reader of lines: AemReader *)

\* Induction on a set: what holds at 0, and at n if at n - 1, holds up to the end.
LEMMA UpTo ==
    ASSUME NEW top \in Nat, NEW G, 0 \in G, \A n \in 1 .. top : n - 1 \in G => n \in G
    PROVE  \A n \in 0 .. top : n \in G
<1> DEFINE S == {n \in 0 .. top : n \notin G}
<1>1. SUFFICES ASSUME S # {} PROVE FALSE
  OBVIOUS
<1>2. S \in SUBSET Nat
  OBVIOUS
<1>3. PICK n \in S : \A m \in S : n <= m
  BY <1>1, <1>2, LeastOf
<1>4. n \in 1 .. top /\ n - 1 \in 0 .. top /\ ~ (n <= n - 1) /\ n \notin G
  BY <1>3
<1>5. n - 1 \in G
  BY <1>3, <1>4
<1> QED BY <1>4, <1>5

\* A bounded set of numbers has a greatest and a least one.
LEMMA MaxOf ==
    ASSUME NEW top \in Nat, NEW S \in SUBSET (0 .. top), S # {}
    PROVE  Max(S) \in S /\ \A k \in S : k <= Max(S)
<1> DEFINE R == {top - k : k \in S}
<1>1. R \in SUBSET Nat /\ R # {}
  <2>1. \A k \in S : top - k \in Nat
    OBVIOUS
  <2> QED BY <2>1
<1>2. PICK r \in R : \A k \in R : r <= k
  BY <1>1, LeastOf
<1>3. PICK m \in S : r = top - m
  BY <1>2
<1>4. \A k \in S : m >= k
  <2> TAKE k \in S
  <2>1. top - k \in R /\ m \in 0 .. top /\ k \in 0 .. top
    OBVIOUS
  <2>2. top - m <= top - k
    BY <1>2, <1>3, <2>1
  <2> QED BY <2>1, <2>2
<1>5. Max(S) \in S /\ \A k \in S : Max(S) >= k
  BY <1>4, Zenon DEF Max
<1>6. Max(S) \in 0 .. top
  BY <1>5
<1> QED BY <1>5, <1>6

LEMMA MinOf ==
    ASSUME NEW S \in SUBSET Nat, S # {}
    PROVE  Min(S) \in S /\ \A k \in S : Min(S) <= k
<1>1. PICK m \in S : \A k \in S : m <= k
  BY LeastOf
<1>2. Min(S) \in S /\ \A k \in S : Min(S) =< k
  BY <1>1, Zenon DEF Min
<1> QED BY <1>2

Chars8 == 0 .. 255
Text8 == Seq(Chars8)

\* What Unbroken counts: the characters before the first CR or LF.
IsUnbroken(s, u) ==
    /\ u \in 0 .. Len(s) /\ \A k \in 1 .. u : s[k] \notin {CR, LF}
    /\ u < Len(s) => s[u + 1] \in {CR, LF}

LEMMA UnbrokenIs ==
    ASSUME NEW s \in Text8
    PROVE  IsUnbroken(s, Unbroken(s))
<1> DEFINE set == Chars8 \ {CR, LF}
           S == {k \in 1 .. Len(s) : s[k] \notin set} \cup {Len(s) + 1}
<1>0. Len(s) \in Nat /\ \A k \in 1 .. Len(s) : s[k] \in Chars8
  BY DEF Text8
<1>1. S \in SUBSET Nat /\ S # {}
  BY <1>0
<1>2. Min(S) \in S /\ \A k \in S : Min(S) <= k
  BY <1>1, MinOf
<1>3. Unbroken(s) = Min(S) - 1
  BY DEF Unbroken, Span, Chars8
<1>4. PICK m : m = Min(S)
  OBVIOUS
<1>5. m \in 1 .. Len(s) + 1 /\ \A k \in S : m <= k
  BY <1>0, <1>2, <1>4
<1>6. ASSUME NEW k \in 1 .. m - 1 PROVE s[k] \notin {CR, LF}
  <2>1. k \in 1 .. Len(s) /\ ~ (m <= k)
    BY <1>0, <1>5
  <2>2. s[k] \in set
    BY <1>5, <2>1
  <2> QED BY <2>2
<1>7. ASSUME m - 1 < Len(s) PROVE s[m] \in {CR, LF}
  <2>1. m \in 1 .. Len(s) /\ m # Len(s) + 1
    BY <1>0, <1>5, <1>7
  <2>2. s[m] \notin set
    BY <1>2, <1>4, <2>1
  <2> QED BY <1>0, <2>1, <2>2
<1>8. m - 1 \in 0 .. Len(s) /\ (m - 1) + 1 = m
  BY <1>0, <1>5
<1>9. Unbroken(s) = m - 1
  BY <1>3, <1>4
<1> QED BY <1>6, <1>7, <1>8, <1>9 DEF IsUnbroken

\* Ends are places in the text.
LEMMA EndsAre == ASSUME NEW s \in Text8 PROVE Len(s) \in Nat /\ Ends(s) \in SUBSET (1 .. Len(s))
BY DEF Ends, Text8

\* The last end of a line up to n.
LEMMA LastEndIs ==
    ASSUME NEW s \in Text8, NEW n \in 0 .. Len(s)
    PROVE  /\ LastEnd(s, n) \in Ends(s) \cup {0} /\ LastEnd(s, n) \in 0 .. n
           /\ \A k \in Ends(s) : k <= n => k <= LastEnd(s, n)
<1> DEFINE S == {0} \cup {k \in Ends(s) : k <= n}
<1>1. n \in Nat /\ S \in SUBSET (0 .. n) /\ S # {}
  BY EndsAre
<1>2. Max(S) \in S /\ \A k \in S : k <= Max(S)
  BY <1>1, MaxOf
<1>3. LastEnd(s, n) = Max(S)
  BY DEF LastEnd
<1> QED BY <1>1, <1>2, <1>3

\* An end, or the beginning, with none after it up to n, is the last one.
LEMMA LastEndUnique ==
    ASSUME NEW s \in Text8, NEW n \in 0 .. Len(s), NEW c \in Ends(s) \cup {0}, c <= n,
           \A k \in Ends(s) : k <= n => k <= c
    PROVE  LastEnd(s, n) = c
<1>1. c \in Nat /\ c <= LastEnd(s, n)
  BY EndsAre, LastEndIs
<1>2. LastEnd(s, n) \in Nat /\ LastEnd(s, n) <= c
  BY EndsAre, LastEndIs
<1> QED BY <1>1, <1>2

-----------------------------------------------------------------------------
(* The lines of a text *)

\* The line that ends at n.
LineAt(s, n) == Cleaned(SubSeq(s, LastEnd(s, n - 1) + 1, n))

\* The function in LinesTo, of which only the values matter.
IsLinesTo(f, s, n) ==
    f = [k \in 0 .. n |-> IF k = 0 THEN <<>>
                          ELSE IF k \in Ends(s) THEN Append(f[k - 1], LineAt(s, k)) ELSE f[k - 1]]

\* There is such a function, for the first n characters by induction on n.
LEMMA LinesToExists == ASSUME NEW s, NEW top \in Nat PROVE \E f : IsLinesTo(f, s, top)
<1> DEFINE G == {n \in 0 .. top : \E f : IsLinesTo(f, s, n)}
<1>1. 0 \in G
  <2>1. PICK f : f = [k \in 0 .. 0 |-> <<>>]
    OBVIOUS
  <2>2. f = [k \in 0 .. 0 |-> IF k = 0 THEN <<>>
               ELSE IF k \in Ends(s) THEN Append(f[k - 1], LineAt(s, k)) ELSE f[k - 1]]
    BY <2>1
  <2>3. IsLinesTo(f, s, 0)
    BY <2>2 DEF IsLinesTo
  <2> QED BY <2>3
<1>2. ASSUME NEW n \in 1 .. top, n - 1 \in G PROVE n \in G
  <2>1. PICK g : IsLinesTo(g, s, n - 1)
    BY <1>2
  <2>2. PICK f : f = [k \in 0 .. n |-> IF k # n THEN g[k]
                        ELSE IF n \in Ends(s) THEN Append(g[n - 1], LineAt(s, n)) ELSE g[n - 1]]
    OBVIOUS
  <2>3. \A k \in 0 .. n : f[k] = IF k = 0 THEN <<>>
               ELSE IF k \in Ends(s) THEN Append(f[k - 1], LineAt(s, k)) ELSE f[k - 1]
    <3> TAKE k \in 0 .. n
    <3>1. k # 0 => k - 1 \in 0 .. n /\ k - 1 # n /\ f[k - 1] = g[k - 1]
      BY <2>2
    <3>2. CASE k = n
      <4>1. f[k] = IF n \in Ends(s) THEN Append(g[n - 1], LineAt(s, n)) ELSE g[n - 1]
        BY <2>2, <3>2
      <4>2. k # 0
        BY <3>2
      <4> QED BY <3>1, <3>2, <4>1, <4>2
    <3>3. CASE k # n
      <4>1. k \in 0 .. n - 1 /\ f[k] = g[k]
        BY <2>2, <3>3
      <4>2. g[k] = IF k = 0 THEN <<>>
               ELSE IF k \in Ends(s) THEN Append(g[k - 1], LineAt(s, k)) ELSE g[k - 1]
        BY <2>1, <4>1 DEF IsLinesTo
      <4> QED BY <3>1, <4>1, <4>2
    <3> QED BY <3>2, <3>3
  <2>4. f = [k \in 0 .. n |-> IF k = 0 THEN <<>>
               ELSE IF k \in Ends(s) THEN Append(f[k - 1], LineAt(s, k)) ELSE f[k - 1]]
    BY <2>2, <2>3
  <2>5. IsLinesTo(f, s, n)
    BY <2>4, Zenon DEF IsLinesTo
  <2> QED BY <2>5
<1> HIDE DEF G
<1>3. \A n \in 0 .. top : n \in G
  BY <1>1, <1>2, UpTo
<1>4. top \in G
  BY <1>3
<1> QED BY <1>4 DEF G

\* LinesTo, one character at a time.
LEMMA LinesToStep ==
    ASSUME NEW s \in Text8
    PROVE  /\ LinesTo(s, 0) = <<>>
           /\ \A k \in 1 .. Len(s) :
                LinesTo(s, k) = IF k \in Ends(s) THEN Append(LinesTo(s, k - 1), LineAt(s, k)) ELSE LinesTo(s, k - 1)
<1> DEFINE to[k \in 0 .. Len(s)] ==
          IF k = 0 THEN <<>>
          ELSE IF k \in Ends(s) THEN Append(to[k - 1], Cleaned(SubSeq(s, LastEnd(s, k - 1) + 1, k)))
          ELSE to[k - 1]
<1>0. Len(s) \in Nat
  BY EndsAre
<1>1. to = [k \in 0 .. Len(s) |-> IF k = 0 THEN <<>>
          ELSE IF k \in Ends(s) THEN Append(to[k - 1], Cleaned(SubSeq(s, LastEnd(s, k - 1) + 1, k)))
          ELSE to[k - 1]]
  <2>1. PICK f : IsLinesTo(f, s, Len(s))
    BY <1>0, LinesToExists
  <2>2. \E g : g = [k \in 0 .. Len(s) |-> IF k = 0 THEN <<>>
          ELSE IF k \in Ends(s) THEN Append(g[k - 1], Cleaned(SubSeq(s, LastEnd(s, k - 1) + 1, k)))
          ELSE g[k - 1]]
    BY <2>1, Zenon DEF IsLinesTo, LineAt
  <2> QED BY <2>2, Zenon
<1>2. \A n : LinesTo(s, n) = to[n]
  BY Zenon DEF LinesTo
<1> HIDE DEF to
<1>3. to[0] = <<>>
  BY <1>0, <1>1
<1>4. ASSUME NEW k \in 1 .. Len(s)
      PROVE  to[k] = IF k \in Ends(s) THEN Append(to[k - 1], LineAt(s, k)) ELSE to[k - 1]
  <2>1. k \in 0 .. Len(s) /\ k # 0
    BY <1>0
  <2> QED BY <1>1, <2>1 DEF LineAt
<1> QED BY <1>2, <1>3, <1>4

\* A piece of a text, character by character.
LEMMA PieceIs ==
    ASSUME NEW s \in Text8, NEW a \in Nat, NEW b \in Nat, a >= 1, b <= Len(s)
    PROVE  /\ SubSeq(s, a, b) \in Text8
           /\ Len(SubSeq(s, a, b)) = IF a <= b THEN b - a + 1 ELSE 0
           /\ \A k \in 1 .. b - a + 1 : SubSeq(s, a, b)[k] = s[a + k - 1]
<1>1. \A i \in a .. b : s[i] \in Chars8
  BY DEF Text8
<1>2. PICK u : u = SubSeq(s, a, b)
  OBVIOUS
<1>3. /\ u \in Seq(Chars8) /\ Len(u) = IF a <= b THEN b - a + 1 ELSE 0
      /\ \A k \in 1 .. b - a + 1 : u[k] = s[a + k - 1]
  BY <1>1, <1>2, SubSeqProperties
<1> QED BY <1>2, <1>3 DEF Text8

\* A line without its end is a text.
LEMMA CleanedIs == ASSUME NEW s \in Text8, Len(s) >= 1 PROVE Cleaned(s) \in Text8
<1>1. PICK n : n = IF Len(s) > 1 /\ s[Len(s)] = LF /\ s[Len(s) - 1] = CR THEN Len(s) - 2 ELSE Len(s) - 1
  OBVIOUS
<1>2. n \in Nat /\ n <= Len(s)
  BY <1>1 DEF Text8
<1>3. SubSeq(s, 1, n) \in Text8
  BY <1>2, PieceIs
<1>4. Cleaned(s) = SubSeq(s, 1, n)
  BY <1>1 DEF Cleaned
<1> QED BY <1>3, <1>4

\* Lines are texts,
LEMMA LineAtIs == ASSUME NEW s \in Text8, NEW k \in 1 .. Len(s) PROVE LineAt(s, k) \in Text8
<1>1. k - 1 \in 0 .. Len(s) /\ k \in Nat /\ k <= Len(s)
  BY EndsAre
<1>2. PICK e : e = LastEnd(s, k - 1)
  OBVIOUS
<1>3. e \in 0 .. k - 1
  BY <1>1, <1>2, LastEndIs
<1>4. e + 1 \in Nat /\ e + 1 >= 1 /\ e + 1 <= k /\ k - (e + 1) + 1 >= 1
  BY <1>1, <1>3
<1>5. PICK p : p = SubSeq(s, e + 1, k)
  OBVIOUS
<1>6. p \in Text8 /\ Len(p) >= 1
  BY <1>1, <1>4, <1>5, PieceIs
<1>7. Cleaned(p) \in Text8
  BY <1>6, CleanedIs
<1> QED BY <1>2, <1>5, <1>7 DEF LineAt

\* and the lines of a text are a sequence of them.
LEMMA LinesToType ==
    ASSUME NEW s \in Text8
    PROVE  \A n \in 0 .. Len(s) : LinesTo(s, n) \in Seq(Text8)
<1> DEFINE G == {n \in 0 .. Len(s) : LinesTo(s, n) \in Seq(Text8)}
<1>0. Len(s) \in Nat
  BY EndsAre
<1>1. 0 \in G
  <2>1. <<>> \in Seq(Text8)
    OBVIOUS
  <2>2. LinesTo(s, 0) = <<>>
    BY LinesToStep
  <2>3. LinesTo(s, 0) \in Seq(Text8)
    BY <2>1, <2>2
  <2> QED BY <1>0, <2>3
<1>2. ASSUME NEW n \in 1 .. Len(s), n - 1 \in G PROVE n \in G
  <2>1. LinesTo(s, n - 1) \in Seq(Text8) /\ LineAt(s, n) \in Text8
    BY <1>2, LineAtIs
  <2>2. PICK t : t = LinesTo(s, n - 1)
    OBVIOUS
  <2>3. Append(t, LineAt(s, n)) \in Seq(Text8)
    BY <2>1, <2>2
  <2>4. LinesTo(s, n) = t \/ LinesTo(s, n) = Append(t, LineAt(s, n))
    BY <2>2, LinesToStep
  <2>5. n \in 0 .. Len(s)
    BY <1>0
  <2> QED BY <2>1, <2>2, <2>3, <2>4, <2>5
<1> HIDE DEF G
<1>3. \A n \in 0 .. Len(s) : n \in G
  BY <1>0, <1>1, <1>2, UpTo
<1> QED BY <1>3 DEF G

\* Where no line ends there are no new lines.
LEMMA LinesToGap ==
    ASSUME NEW s \in Text8, NEW m \in 0 .. Len(s), NEW n \in 0 .. Len(s), m <= n,
           \A k \in Ends(s) : k <= n => k <= m
    PROVE  LinesTo(s, n) = LinesTo(s, m)
<1> DEFINE G == {k \in 0 .. n : k >= m => LinesTo(s, k) = LinesTo(s, m)}
<1>0. Len(s) \in Nat /\ n \in Nat /\ m \in Nat
  BY EndsAre
<1>1. 0 \in G
  BY <1>0
<1>2. ASSUME NEW k \in 1 .. n, k - 1 \in G PROVE k \in G
  <2>1. CASE k <= m
    BY <1>0, <2>1
  <2>2. CASE k > m
    <3>1. k \in 1 .. Len(s) /\ k \notin Ends(s) /\ k - 1 >= m /\ k \in 0 .. n
      BY <1>0, <2>2
    <3>2. LinesTo(s, k) = LinesTo(s, k - 1)
      BY <3>1, LinesToStep
    <3>3. LinesTo(s, k - 1) = LinesTo(s, m)
      BY <1>2, <3>1
    <3> QED BY <3>1, <3>2, <3>3
  <2> QED BY <1>0, <2>1, <2>2
<1> HIDE DEF G
<1>3. \A k \in 0 .. n : k \in G
  BY <1>0, <1>1, <1>2, UpTo
<1>4. n \in G
  BY <1>0, <1>3
<1> QED BY <1>4 DEF G

\* From one end of a line to the next there is one line more.
LEMMA LinesToNext ==
    ASSUME NEW s \in Text8, NEW c \in Ends(s) \cup {0}, NEW e \in Ends(s), c < e,
           \A k \in Ends(s) : k < e => k <= c
    PROVE  LinesTo(s, e) = Append(LinesTo(s, c), Cleaned(SubSeq(s, c + 1, e)))
<1>1. e \in 1 .. Len(s) /\ e - 1 \in 0 .. Len(s) /\ c \in 0 .. Len(s) /\ c <= e - 1
  BY EndsAre
<1>2. \A k \in Ends(s) : k <= e - 1 => k <= c
  BY EndsAre, <1>1
<1>3. LastEnd(s, e - 1) = c
  BY <1>1, <1>2, LastEndUnique
<1>4. LinesTo(s, e - 1) = LinesTo(s, c)
  BY <1>1, <1>2, LinesToGap
<1>5. LinesTo(s, e) = Append(LinesTo(s, e - 1), LineAt(s, e))
  BY <1>1, LinesToStep
<1> QED BY <1>3, <1>4, <1>5 DEF LineAt

\* A beginning, element by element.
Begins(s, t) == Len(s) <= Len(t) /\ \A k \in 1 .. Len(s) : s[k] = t[k]

\* Which is what IsPrefix says.
LEMMA BeginsIsPrefix ==
    ASSUME NEW T, NEW s \in Seq(T), NEW t \in Seq(T), Begins(s, t)
    PROVE  IsPrefix(s, t)
<1>1. PICK u : u = SubSeq(t, 1, Len(s))
  OBVIOUS
<1>2. u \in Seq(T) /\ Len(u) = Len(s) /\ \A k \in 1 .. Len(s) : u[k] = t[k]
  BY <1>1 DEF Begins
<1>3. \A k \in 1 .. Len(s) : s[k] = u[k]
  BY <1>2 DEF Begins
<1>4. s = u
  BY <1>2, <1>3, SeqEqual
<1> QED BY <1>1, <1>4 DEF IsPrefix, Begins

\* Lines are only added.
LEMMA LinesToGrow ==
    ASSUME NEW s \in Text8, NEW m \in 0 .. Len(s), NEW n \in 0 .. Len(s), m <= n
    PROVE  Begins(LinesTo(s, m), LinesTo(s, n))
<1> DEFINE G == {k \in 0 .. n : k >= m => Begins(LinesTo(s, m), LinesTo(s, k))}
<1>0. Len(s) \in Nat /\ n \in Nat /\ m \in Nat /\ LinesTo(s, m) \in Seq(Text8)
  BY EndsAre, LinesToType
<1>a. PICK t : t = LinesTo(s, m)
  OBVIOUS
<1>b. t \in Seq(Text8) /\ Len(t) \in Nat /\ Begins(t, t)
  BY <1>0, <1>a DEF Begins
<1>1. 0 \in G
  <2>1. 0 >= m => m = 0
    BY <1>0
  <2> QED BY <1>0, <1>a, <1>b, <2>1
<1>2. ASSUME NEW k \in 1 .. n, k - 1 \in G PROVE k \in G
  <2>0. k \in 0 .. n /\ k \in 1 .. Len(s) /\ k - 1 \in 0 .. Len(s)
    BY <1>0
  <2>1. CASE k < m
    BY <1>0, <2>0, <2>1
  <2>2. CASE k = m
    BY <1>a, <1>b, <2>0, <2>2
  <2>3. CASE k > m
    <3>1. PICK u : u = LinesTo(s, k - 1)
      OBVIOUS
    <3>2. u \in Seq(Text8) /\ Begins(t, u)
      <4>1. k - 1 >= m
        BY <1>0, <2>0, <2>3
      <4> QED BY <1>2, <1>a, <2>0, <3>1, <4>1, LinesToType
    <3>3. LinesTo(s, k) = u \/ LinesTo(s, k) = Append(u, LineAt(s, k))
      BY <2>0, <3>1, LinesToStep
    <3>4. Begins(t, Append(u, LineAt(s, k)))
      <4>1. PICK v : v = Append(u, LineAt(s, k))
        OBVIOUS
      <4>2. LineAt(s, k) \in Text8
        BY <2>0, LineAtIs
      <4>3. v \in Seq(Text8) /\ Len(v) = Len(u) + 1 /\ \A i \in 1 .. Len(u) : v[i] = u[i]
        BY <3>2, <4>1, <4>2
      <4> QED BY <1>b, <3>2, <4>1, <4>3 DEF Begins
    <3> QED BY <1>a, <2>0, <3>2, <3>3, <3>4
  <2> QED BY <1>0, <2>0, <2>1, <2>2, <2>3
<1> HIDE DEF G
<1>3. \A k \in 0 .. n : k \in G
  BY <1>0, <1>1, <1>2, UpTo
<1>4. n \in G
  BY <1>0, <1>3
<1> QED BY <1>4 DEF G

\* Pieces of pieces, and of a beginning.
LEMMA PieceOfPiece ==
    ASSUME NEW s \in Text8, NEW a \in Nat, NEW b \in Nat, a >= 1, b <= Len(s), a <= b + 1,
           NEW m \in Nat, NEW n \in Nat, m >= 1, n <= b - a + 1
    PROVE  SubSeq(SubSeq(s, a, b), m, n) = SubSeq(s, a + m - 1, a + n - 1)
<1>1. PICK p : p = SubSeq(s, a, b)
  OBVIOUS
<1>2. p \in Text8 /\ Len(p) = b - a + 1 /\ \A k \in 1 .. b - a + 1 : p[k] = s[a + k - 1]
  <2>1. Len(p) = IF a <= b THEN b - a + 1 ELSE 0
    BY <1>1, PieceIs
  <2> QED BY <1>1, <2>1, PieceIs
<1>3. PICK u : u = SubSeq(p, m, n)
  OBVIOUS
<1>4. u \in Text8 /\ Len(u) = (IF m <= n THEN n - m + 1 ELSE 0) /\ \A k \in 1 .. n - m + 1 : u[k] = p[m + k - 1]
  BY <1>2, <1>3, PieceIs
<1>5. PICK v : v = SubSeq(s, a + m - 1, a + n - 1)
  OBVIOUS
<1>6. /\ v \in Text8 /\ Len(v) = (IF m <= n THEN n - m + 1 ELSE 0)
      /\ \A k \in 1 .. n - m + 1 : v[k] = s[a + m - 1 + k - 1]
  <2>1. PICK a1 \in Nat : a1 = a + m - 1
    OBVIOUS
  <2>2. PICK b1 \in Nat : b1 = a + n - 1
    OBVIOUS
  <2>3. Len(s) \in Nat
    BY EndsAre
  <2>4. a1 >= 1 /\ b1 <= Len(s) /\ (a1 <= b1 <=> m <= n) /\ b1 - a1 + 1 = n - m + 1
    BY <2>1, <2>2, <2>3
  <2>5. /\ v \in Text8 /\ Len(v) = (IF a1 <= b1 THEN b1 - a1 + 1 ELSE 0)
        /\ \A k \in 1 .. b1 - a1 + 1 : v[k] = s[a1 + k - 1]
    BY <1>5, <2>1, <2>2, <2>4, PieceIs
  <2> QED BY <2>1, <2>4, <2>5
<1>7. ASSUME NEW k \in 1 .. n - m + 1 PROVE u[k] = v[k]
  <2>1. m + k - 1 \in 1 .. b - a + 1 /\ a + (m + k - 1) - 1 = a + m - 1 + k - 1
    OBVIOUS
  <2>2. u[k] = p[m + k - 1] /\ p[m + k - 1] = s[a + (m + k - 1) - 1] /\ v[k] = s[a + m - 1 + k - 1]
    BY <1>2, <1>4, <1>6, <2>1
  <2> QED BY <2>1, <2>2
<1>8. Len(u) = Len(v) /\ \A k \in 1 .. Len(u) : u[k] = v[k]
  <2>1. Len(u) = Len(v)
    BY <1>4, <1>6
  <2>2. \A k \in 1 .. Len(u) : k \in 1 .. n - m + 1
    BY <1>4
  <2> QED BY <1>7, <2>1, <2>2
<1>9. u = v
  BY <1>4, <1>6, <1>8, SeqEqual DEF Text8
<1> QED BY <1>1, <1>3, <1>5, <1>9

\* A piece of a beginning is one of the whole.
LEMMA SamePiece ==
    ASSUME NEW s \in Text8, NEW t \in Text8, Begins(s, t), NEW a \in Nat, NEW b \in Nat, a >= 1, b <= Len(s)
    PROVE  SubSeq(s, a, b) = SubSeq(t, a, b)
<1>0. Len(s) \in Nat /\ Len(t) \in Nat
  BY EndsAre
<1>1. PICK u : u = SubSeq(s, a, b)
  OBVIOUS
<1>2. PICK v : v = SubSeq(t, a, b)
  OBVIOUS
<1>3. u \in Text8 /\ Len(u) = (IF a <= b THEN b - a + 1 ELSE 0) /\ \A k \in 1 .. b - a + 1 : u[k] = s[a + k - 1]
  BY <1>1, PieceIs
<1>4. v \in Text8 /\ Len(v) = (IF a <= b THEN b - a + 1 ELSE 0) /\ \A k \in 1 .. b - a + 1 : v[k] = t[a + k - 1]
  BY <1>0, <1>2, PieceIs DEF Begins
<1>5. ASSUME NEW k \in 1 .. b - a + 1 PROVE u[k] = v[k]
  <2>1. a + k - 1 \in 1 .. Len(s)
    BY <1>0
  <2> QED BY <1>3, <1>4, <2>1 DEF Begins
<1>6. Len(u) = Len(v) /\ \A k \in 1 .. Len(u) : u[k] = v[k]
  BY <1>3, <1>4, <1>5
<1>7. u = v
  BY <1>3, <1>4, <1>6, SeqEqual DEF Text8
<1> QED BY <1>1, <1>2, <1>7

\* What is left of a line without its end.
LEMMA CleanedPiece ==
    ASSUME NEW s \in Text8, NEW a \in Nat, NEW b \in Nat, a >= 1, a <= b, b <= Len(s)
    PROVE  Cleaned(SubSeq(s, a, b)) =
             SubSeq(s, a, IF a < b /\ s[b] = LF /\ s[b - 1] = CR THEN b - 2 ELSE b - 1)
<1>1. PICK p : p = SubSeq(s, a, b)
  OBVIOUS
<1>2. p \in Text8 /\ Len(p) = b - a + 1 /\ \A k \in 1 .. b - a + 1 : p[k] = s[a + k - 1]
  BY <1>1, PieceIs
<1>3. p[Len(p)] = s[b] /\ (a < b => p[Len(p) - 1] = s[b - 1])
  BY <1>2
<1>4. CASE a < b /\ s[b] = LF /\ s[b - 1] = CR
  <2>1. Cleaned(p) = SubSeq(p, 1, Len(p) - 2)
    BY <1>2, <1>3, <1>4 DEF Cleaned
  <2>2. Len(p) - 2 \in Nat /\ Len(p) - 2 <= b - a + 1 /\ a + (Len(p) - 2) - 1 = b - 2
    BY <1>2, <1>4
  <2>3. SubSeq(p, 1, Len(p) - 2) = SubSeq(s, a + 1 - 1, a + (Len(p) - 2) - 1)
    BY <1>1, <2>2, PieceOfPiece
  <2> QED BY <1>1, <1>4, <2>1, <2>2, <2>3
<1>5. CASE ~ (a < b /\ s[b] = LF /\ s[b - 1] = CR)
  <2>1. Cleaned(p) = SubSeq(p, 1, Len(p) - 1)
    BY <1>2, <1>3, <1>5 DEF Cleaned
  <2>2. Len(p) - 1 \in Nat /\ Len(p) - 1 <= b - a + 1 /\ a + (Len(p) - 1) - 1 = b - 1
    BY <1>2
  <2>3. SubSeq(p, 1, Len(p) - 1) = SubSeq(s, a + 1 - 1, a + (Len(p) - 1) - 1)
    BY <1>1, <2>2, PieceOfPiece
  <2>4. a + 1 - 1 = a
    OBVIOUS
  <2> QED BY <1>1, <1>5, <2>1, <2>2, <2>3, <2>4
<1> QED BY <1>4, <1>5

-----------------------------------------------------------------------------
(* More of a text *)

\* The first n characters end no differently when s goes on as t.
Firm(s, t, n) == n < Len(s) \/ n = 0 \/ s[n] # CR \/ Len(t) = Len(s) \/ t[n + 1] # LF

LEMMA EndsGrow ==
    ASSUME NEW s \in Text8, NEW t \in Text8, Begins(s, t), NEW n \in 0 .. Len(s), Firm(s, t, n)
    PROVE  \A k \in 1 .. n : k \in Ends(s) <=> k \in Ends(t)
<1> TAKE k \in 1 .. n
<1>1. Len(s) \in Nat /\ Len(t) \in Nat /\ k \in 1 .. Len(s) /\ k \in 1 .. Len(t) /\ s[k] = t[k]
  BY EndsAre DEF Begins
<1>2. k < Len(s) => k + 1 \in 1 .. Len(s) /\ s[k + 1] = t[k + 1] /\ k < Len(t)
  BY <1>1 DEF Begins
<1>3. CASE k < Len(s)
  BY <1>1, <1>2, <1>3 DEF Ends
<1>4. CASE k = Len(s)
  <2>1. k = n
    BY <1>1, <1>4
  <2>2. s[k] # CR \/ ~ (k < Len(t)) \/ t[k + 1] # LF
    BY <1>1, <1>4, <2>1 DEF Firm
  <2>3. ~ (k < Len(s))
    BY <1>1, <1>4
  <2> QED BY <1>1, <2>2, <2>3 DEF Ends
<1> QED BY <1>1, <1>3, <1>4

\* With the same ends, the same last one;
LEMMA LastEndGrow ==
    ASSUME NEW s \in Text8, NEW t \in Text8, Begins(s, t), NEW n \in 0 .. Len(s),
           \A k \in 1 .. n : k \in Ends(s) <=> k \in Ends(t)
    PROVE  LastEnd(s, n) = LastEnd(t, n)
<1>1. Len(s) \in Nat /\ Len(t) \in Nat /\ n \in 0 .. Len(t)
  BY EndsAre DEF Begins
<1>2. PICK c : c = LastEnd(s, n)
  OBVIOUS
<1>3. c \in Ends(s) \cup {0} /\ c \in 0 .. n /\ \A k \in Ends(s) : k <= n => k <= c
  BY <1>2, LastEndIs
<1>4. c \in Ends(t) \cup {0}
  BY <1>1, <1>3
<1>5. \A k \in Ends(t) : k <= n => k <= c
  <2> TAKE k \in Ends(t)
  <2>1. k \in 1 .. Len(t)
    BY EndsAre
  <2> QED BY <1>1, <1>3, <2>1
<1>6. c <= n
  BY <1>1, <1>3
<1>7. LastEnd(t, n) = c
  BY <1>1, <1>4, <1>5, <1>6, LastEndUnique
<1> QED BY <1>2, <1>7

\* and the same lines: what is firm stays when more of the text comes.
LEMMA LinesAgree ==
    ASSUME NEW s \in Text8, NEW t \in Text8, Begins(s, t), NEW n \in 0 .. Len(s), Firm(s, t, n)
    PROVE  LinesTo(s, n) = LinesTo(t, n)
<1> DEFINE G == {k \in 0 .. n : LinesTo(s, k) = LinesTo(t, k)}
<1>0. Len(s) \in Nat /\ Len(t) \in Nat /\ n \in Nat /\ n <= Len(s) /\ n <= Len(t)
  BY EndsAre DEF Begins
<1>1. 0 \in G
  BY <1>0, LinesToStep
<1>e. \A k \in 1 .. n : k \in Ends(s) <=> k \in Ends(t)
  BY EndsGrow
<1>2. ASSUME NEW k \in 1 .. n, k - 1 \in G PROVE k \in G
  <2>1. k \in 0 .. n /\ k \in 1 .. Len(s) /\ k \in 1 .. Len(t) /\ k - 1 \in 0 .. Len(s)
    BY <1>0
  <2>2. LastEnd(s, k - 1) = LastEnd(t, k - 1)
    <3>1. \A j \in 1 .. k - 1 : j \in Ends(s) <=> j \in Ends(t)
      BY <1>0, <1>e
    <3> QED BY <2>1, <3>1, LastEndGrow
  <2>3. LineAt(s, k) = LineAt(t, k)
    <3>1. PICK e : e = LastEnd(s, k - 1)
      OBVIOUS
    <3>2. e \in 0 .. k - 1
      BY <2>1, <3>1, LastEndIs
    <3>3. e + 1 \in Nat /\ e + 1 >= 1 /\ k \in Nat /\ k <= Len(s)
      BY <1>0, <3>2
    <3>4. SubSeq(s, e + 1, k) = SubSeq(t, e + 1, k)
      BY <3>3, SamePiece
    <3> QED BY <2>2, <3>1, <3>4, Zenon DEF LineAt
  <2>4. LinesTo(s, k - 1) = LinesTo(t, k - 1)
    BY <1>2
  <2>5. LinesTo(s, k) = IF k \in Ends(s) THEN Append(LinesTo(s, k - 1), LineAt(s, k)) ELSE LinesTo(s, k - 1)
    BY <2>1, LinesToStep
  <2>6. LinesTo(t, k) = IF k \in Ends(t) THEN Append(LinesTo(t, k - 1), LineAt(t, k)) ELSE LinesTo(t, k - 1)
    BY <2>1, LinesToStep
  <2>7. k \in Ends(s) <=> k \in Ends(t)
    BY <1>e
  <2>8. LinesTo(s, k) = LinesTo(t, k)
    BY <2>3, <2>4, <2>5, <2>6, <2>7, Zenon
  <2> QED BY <2>1, <2>8
<1> HIDE DEF G
<1>3. \A k \in 0 .. n : k \in G
  BY <1>0, <1>1, <1>2, UpTo
<1>4. n \in G
  BY <1>0, <1>3
<1> QED BY <1>4 DEF G

\* A CR at the end of a text ends the line that a CRLF ends when LF comes after it.
LEMMA LinesOverCRLF ==
    ASSUME NEW s \in Text8, NEW t \in Text8, Begins(s, t), NEW n \in 1 .. Len(s), n = Len(s),
           n < Len(t), s[n] = CR, t[n + 1] = LF
    PROVE  LinesTo(t, n + 1) = LinesTo(s, n)
<1> PICK m \in Nat : m = n + 1
  OBVIOUS
<1>0. /\ n \in Nat /\ m = n + 1 /\ Len(s) \in Nat /\ Len(t) \in Nat /\ m \in 1 .. Len(t) /\ n \in 1 .. Len(t)
      /\ t[n] = CR /\ t[m] = LF /\ n = m - 1
      /\ n - 1 \in 0 .. Len(s) /\ n - 1 \in 0 .. Len(t) /\ n \in 0 .. Len(t)
  BY EndsAre DEF Begins
<1>1. n \in Ends(s)
  BY <1>0 DEF Ends
<1>2. n \notin Ends(t) /\ m \in Ends(t)
  BY <1>0 DEF Ends, CR, LF
<1>3. Firm(s, t, n - 1)
  BY <1>0 DEF Firm
<1>4. LinesTo(s, n - 1) = LinesTo(t, n - 1)
  BY <1>0, <1>3, LinesAgree
<1>5. PICK e : e = LastEnd(s, n - 1)
  OBVIOUS
<1>6. e \in 0 .. n - 1
  BY <1>0, <1>5, LastEndIs
<1>7. LastEnd(t, n - 1) = e
  <2>1. \A k \in 1 .. n - 1 : k \in Ends(s) <=> k \in Ends(t)
    BY <1>0, <1>3, EndsGrow
  <2> QED BY <1>0, <1>5, <2>1, LastEndGrow
<1>8. LastEnd(t, n) = e
  <2>1. e \in Ends(t) \cup {0} /\ \A k \in Ends(t) : k <= n - 1 => k <= e
    BY <1>0, <1>7, LastEndIs
  <2>2. \A k \in Ends(t) : k <= n => k <= e
    <3> TAKE k \in Ends(t)
    <3>1. k \in 1 .. Len(t) /\ k # n
      BY <1>2, EndsAre
    <3> QED BY <1>0, <2>1, <3>1
  <2>3. e <= n
    BY <1>0, <1>6
  <2> QED BY <1>0, <2>1, <2>2, <2>3, LastEndUnique
<1>9. LineAt(t, m) = LineAt(s, n)
  <2>1. /\ e + 1 \in Nat /\ e + 1 >= 1 /\ e + 1 <= n /\ e + 1 <= m /\ e + 1 < m /\ n <= Len(s)
        /\ m <= Len(t) /\ m - 2 = n - 1
    BY <1>0, <1>6
  <2>2. Cleaned(SubSeq(t, e + 1, m)) =
        SubSeq(t, e + 1, IF e + 1 < m /\ t[m] = LF /\ t[m - 1] = CR THEN m - 2 ELSE m - 1)
    BY <2>1, CleanedPiece
  <2>3. Cleaned(SubSeq(t, e + 1, m)) = SubSeq(t, e + 1, n - 1)
    BY <1>0, <2>1, <2>2
  <2>4. Cleaned(SubSeq(s, e + 1, n)) =
        SubSeq(s, e + 1, IF e + 1 < n /\ s[n] = LF /\ s[n - 1] = CR THEN n - 2 ELSE n - 1)
    BY <1>0, <2>1, CleanedPiece
  <2>5. Cleaned(SubSeq(s, e + 1, n)) = SubSeq(s, e + 1, n - 1)
    BY <2>4 DEF CR, LF
  <2>6. n - 1 \in Nat /\ n - 1 <= Len(s)
    BY <1>0
  <2>7. SubSeq(s, e + 1, n - 1) = SubSeq(t, e + 1, n - 1)
    <3>1. PICK a \in Nat : a = e + 1
      BY <2>1
    <3>2. PICK b \in Nat : b = n - 1
      BY <2>6
    <3>0. a >= 1 /\ b <= Len(s) /\ s \in Text8 /\ t \in Text8 /\ Begins(s, t)
      BY <2>1, <2>6, <3>1, <3>2
    <3>3. SubSeq(s, a, b) = SubSeq(t, a, b)
      BY <3>0, SamePiece, SMT
    <3> QED BY <3>1, <3>2, <3>3
  <2>8. LineAt(t, m) = Cleaned(SubSeq(t, e + 1, m))
    <3>1. LastEnd(t, m - 1) = e
      BY <1>0, <1>8
    <3> QED BY <3>1 DEF LineAt
  <2>9. LineAt(s, n) = Cleaned(SubSeq(s, e + 1, n))
    BY <1>5 DEF LineAt
  <2> QED BY <2>3, <2>5, <2>7, <2>8, <2>9
<1>10. LinesTo(t, n) = LinesTo(t, n - 1)
  BY <1>0, <1>2, LinesToStep
<1>11. LinesTo(t, m) = Append(LinesTo(t, n), LineAt(t, m))
  BY <1>0, <1>2, LinesToStep
<1>12. LinesTo(s, n) = Append(LinesTo(s, n - 1), LineAt(s, n))
  BY <1>1, LinesToStep
<1> QED BY <1>0, <1>4, <1>9, <1>10, <1>11, <1>12

-----------------------------------------------------------------------------
(* A call of aem_stringslice_match_line_multi *)

\* What remains after the first c characters.
LEMMA AfterIs ==
    ASSUME NEW s \in Text8, NEW c \in 0 .. Len(s)
    PROVE  /\ After(s, c) \in Text8 /\ Len(After(s, c)) = Len(s) - c
           /\ \A k \in 1 .. Len(s) - c : After(s, c)[k] = s[c + k]
           /\ \A d \in 0 .. Len(s) - c : After(After(s, c), d) = After(s, c + d)
<1>0. Len(s) \in Nat /\ c \in Nat /\ c <= Len(s)
  BY EndsAre
<1>1. PICK a \in Nat : a = c + 1
  BY <1>0
<1>2. PICK b \in Nat : b = Len(s)
  BY <1>0
<1>3. PICK p : p = SubSeq(s, a, b)
  OBVIOUS
<1>4. a >= 1 /\ b <= Len(s) /\ a <= b + 1 /\ b - a + 1 = Len(s) - c
  BY <1>0, <1>1, <1>2
<1>5. p \in Text8 /\ Len(p) = Len(s) - c /\ \A k \in 1 .. Len(s) - c : p[k] = s[c + k]
  <2>1. p \in Text8 /\ Len(p) = (IF a <= b THEN b - a + 1 ELSE 0) /\ \A k \in 1 .. b - a + 1 : p[k] = s[a + k - 1]
    BY <1>3, <1>4, PieceIs
  <2>2. Len(p) = Len(s) - c
    BY <1>0, <1>1, <1>2, <2>1
  <2>3. \A k \in 1 .. Len(s) - c : a + k - 1 = c + k
    BY <1>0, <1>1
  <2> QED BY <1>4, <2>1, <2>2, <2>3
<1>6. After(s, c) = p
  BY <1>1, <1>2, <1>3 DEF After
<1>7. ASSUME NEW d \in 0 .. Len(s) - c PROVE After(p, d) = After(s, c + d)
  <2>1. PICK m \in Nat : m = d + 1
    BY <1>0
  <2>a. Len(p) \in Nat
    BY <1>0, <1>5
  <2>2. PICK n \in Nat : n = Len(p)
    BY <2>a
  <2>3. m >= 1 /\ n <= b - a + 1 /\ a + m - 1 = c + d + 1 /\ a + n - 1 = Len(s)
    BY <1>0, <1>1, <1>2, <1>5, <2>1, <2>2
  <2>4. SubSeq(SubSeq(s, a, b), m, n) = SubSeq(s, a + m - 1, a + n - 1)
    BY <1>4, <2>3, PieceOfPiece
  <2>5. SubSeq(p, d + 1, Len(p)) = SubSeq(s, c + d + 1, Len(s))
    BY <1>3, <2>1, <2>2, <2>3, <2>4
  <2> QED BY <2>5 DEF After
<1> QED BY <1>5, <1>6, <1>7

\* Where the next line ends, and what it is: u characters and w that break it.
EndsNext(f, c, s, u, w, e) ==
    /\ e \in Ends(f) /\ LinesTo(f, e) = Append(LinesTo(f, c), SubSeq(s, 1, u)) /\ u + w \in 1 .. Len(s)
    /\ Newline(After(s, u)) = 2 <=> f[e] = CR

LEMMA NextLine ==
    ASSUME NEW f \in Text8, NEW c \in Ends(f) \cup {0}, NEW s, s = After(f, c), NEW u, IsUnbroken(s, u), u < Len(s),
           NEW w, w = (IF Newline(After(s, u)) = 3 THEN 2 ELSE 1), NEW e, e = c + u + w
    PROVE  EndsNext(f, c, s, u, w, e)
<1>0. Len(f) \in Nat /\ c \in 0 .. Len(f) /\ c \in Nat /\ Ends(f) \in SUBSET (1 .. Len(f))
  BY EndsAre
<1>1. s \in Text8 /\ Len(s) = Len(f) - c /\ \A k \in 1 .. Len(f) - c : s[k] = f[c + k]
  BY <1>0, AfterIs
<1>2. u \in 0 .. Len(s) /\ u \in Nat /\ u < Len(f) - c /\ \A k \in 1 .. u : s[k] \notin {CR, LF}
  BY <1>0, <1>1 DEF IsUnbroken
<1>3. PICK q : q = After(s, u)
  OBVIOUS
<1>4. Len(q) = Len(s) - u /\ \A k \in 1 .. Len(s) - u : q[k] = s[u + k]
  BY <1>1, <1>2, <1>3, AfterIs
<1>5. PICK g \in Nat : g = c + u + 1
  BY <1>0, <1>2
<1>n. Len(s) = Len(f) - c /\ Len(q) = Len(s) - u /\ u \in Nat /\ u < Len(f) - c
  BY <1>1, <1>2, <1>4
<1>6. q # <<>> /\ g \in 1 .. Len(f) /\ q[1] = f[g] /\ f[g] \in {CR, LF}
  <2>1. 1 \in 1 .. Len(s) - u /\ u + 1 \in 1 .. Len(f) - c /\ c + (u + 1) = g
    BY <1>0, <1>n, <1>5
  <2>2. q[1] = f[g]
    BY <1>1, <1>4, <2>1
  <2>3. s[u + 1] \in {CR, LF}
    BY <1>1, <1>2 DEF IsUnbroken
  <2>4. s[u + 1] = f[g]
    BY <1>1, <2>1
  <2>5. g \in 1 .. Len(f) /\ Len(q) # 0
    BY <1>0, <1>n, <1>5
  <2> QED BY <2>2, <2>3, <2>4, <2>5
<1>7. Len(q) > 1 => g + 1 \in 1 .. Len(f) /\ q[2] = f[g + 1]
  <2>1. HAVE Len(q) > 1
  <2>2. 2 \in 1 .. Len(s) - u /\ u + 2 \in 1 .. Len(f) - c /\ c + (u + 2) = g + 1
    BY <1>0, <1>n, <1>5, <2>1
  <2>3. g + 1 \in 1 .. Len(f)
    BY <1>0, <1>n, <1>5, <2>1
  <2> QED BY <1>1, <1>4, <2>2, <2>3
<1>8. g < Len(f) <=> Len(q) > 1
  BY <1>0, <1>n, <1>5
<1>9. Newline(q) = IF f[g] = LF THEN 1 ELSE IF g < Len(f) /\ f[g + 1] = LF THEN 3 ELSE 2
  BY <1>6, <1>7, <1>8 DEF Newline, CR, LF
<1>10. e = IF Newline(q) = 3 THEN g + 1 ELSE g
  BY <1>0, <1>2, <1>3, <1>5
<1>11. e \in Ends(f) /\ e >= g /\ e <= Len(f) /\ (e # g => f[g] = CR /\ f[e] = LF /\ e = g + 1)
  BY <1>0, <1>6, <1>9, <1>10 DEF Ends, CR, LF
<1>12. \A k \in Ends(f) : k < e => k <= c
  <2> TAKE k \in Ends(f)
  <2>1. SUFFICES ASSUME k < e, k > c PROVE FALSE
    BY <1>0
  <2>2. CASE k = g
    <3>1. f[g] = CR /\ e = g + 1 /\ f[g + 1] = LF /\ g < Len(f)
      BY <1>0, <1>5, <1>11, <2>1, <2>2
    <3> QED BY <2>2, <3>1 DEF Ends, CR, LF
  <2>3. CASE k # g
    <3>1. k - c \in 1 .. u /\ k - c \in 1 .. Len(f) - c /\ c + (k - c) = k
      BY <1>0, <1>2, <1>5, <1>10, <2>1, <2>3
    <3>2. f[k] \notin {CR, LF}
      BY <1>1, <1>2, <3>1
    <3> QED BY <3>2 DEF Ends
  <2> QED BY <2>2, <2>3
<1>13. LinesTo(f, e) = Append(LinesTo(f, c), Cleaned(SubSeq(f, c + 1, e)))
  <2>1. c < e
    BY <1>0, <1>2, <1>5, <1>11
  <2> QED BY <1>11, <1>12, <2>1, LinesToNext
<1>14. SubSeq(s, 1, u) = SubSeq(f, c + 1, c + u)
  <2>1. PICK a \in Nat : a = c + 1
    BY <1>0
  <2>2. PICK b \in Nat : b = Len(f)
    BY <1>0
  <2>3. a >= 1 /\ b <= Len(f) /\ a <= b + 1 /\ u <= b - a + 1 /\ 1 \in Nat /\ u \in Nat /\ a + 1 - 1 = c + 1 /\ a + u - 1 = c + u
    BY <1>0, <1>2, <2>1, <2>2
  <2>4. SubSeq(SubSeq(f, a, b), 1, u) = SubSeq(f, a + 1 - 1, a + u - 1)
    BY <2>3, PieceOfPiece
  <2>5. s = SubSeq(f, a, b)
    BY <2>1, <2>2 DEF After
  <2> QED BY <2>3, <2>4, <2>5
<1>15. Cleaned(SubSeq(f, c + 1, e)) = SubSeq(f, c + 1, c + u)
  <2>1. PICK a \in Nat : a = c + 1
    BY <1>0
  <2>2. e \in Nat /\ a >= 1 /\ a <= e /\ e <= Len(f)
    BY <1>0, <1>2, <1>5, <1>11, <2>1
  <2>3. Cleaned(SubSeq(f, a, e)) =
          SubSeq(f, a, IF a < e /\ f[e] = LF /\ f[e - 1] = CR THEN e - 2 ELSE e - 1)
    <3>1. \A b \in Nat : a <= b /\ b <= Len(f) => Cleaned(SubSeq(f, a, b)) =
            SubSeq(f, a, IF a < b /\ f[b] = LF /\ f[b - 1] = CR THEN b - 2 ELSE b - 1)
      BY <2>2, CleanedPiece
    <3> QED BY <2>2, <3>1
  <2>4. CASE e = g
    <3>1. a < e => f[e - 1] # CR
      <4>1. HAVE a < e
      <4>2. u \in 1 .. u /\ u \in 1 .. Len(f) - c /\ c + u = e - 1
        BY <1>0, <1>2, <1>5, <2>1, <2>4, <4>1
      <4> QED BY <1>1, <1>2, <4>2
    <3>2. e - 1 = c + u
      BY <1>0, <1>2, <1>5, <2>4
    <3> QED BY <2>1, <2>3, <3>1, <3>2
  <2>5. CASE e # g
    <3>1. f[e - 1] = CR /\ f[e] = LF /\ a < e /\ e - 2 = c + u
      BY <1>0, <1>2, <1>5, <1>11, <2>1, <2>5
    <3> QED BY <2>1, <2>3, <3>1
  <2> QED BY <2>4, <2>5
<1>16. Newline(q) = 2 <=> f[e] = CR
  BY <1>6, <1>9, <1>10, <1>11 DEF CR, LF
<1>17. u + w \in 1 .. Len(s)
  BY <1>0, <1>n, <1>3, <1>5, <1>8, <1>9
<1> QED BY <1>3, <1>11, <1>13, <1>14, <1>15, <1>16, <1>17 DEF EndsNext

\* Where nothing breaks the rest, no line ends in it.
LEMMA NoMoreEnds ==
    ASSUME NEW f \in Text8, NEW c \in Ends(f) \cup {0}, NEW s, s = After(f, c), IsUnbroken(s, Len(s))
    PROVE  /\ LinesIn(f) = LinesTo(f, c) /\ Remainder(f) = s
           /\ AllLines(f) = IF s = <<>> THEN LinesTo(f, c) ELSE Append(LinesTo(f, c), s)
<1>0. Len(f) \in Nat /\ c \in 0 .. Len(f) /\ c \in Nat /\ Ends(f) \in SUBSET (1 .. Len(f)) /\ Len(f) \in 0 .. Len(f)
  BY EndsAre
<1>1. s \in Text8 /\ Len(s) = Len(f) - c /\ \A k \in 1 .. Len(f) - c : s[k] = f[c + k]
  BY <1>0, AfterIs
<1>2. \A k \in Ends(f) : k <= Len(f) => k <= c
  <2> TAKE k \in Ends(f)
  <2>1. SUFFICES ASSUME k > c PROVE FALSE
    BY <1>0
  <2>2. k - c \in 1 .. Len(f) - c /\ c + (k - c) = k
    BY <1>0, <2>1
  <2>3. f[k] \notin {CR, LF}
    BY <1>1, <2>2 DEF IsUnbroken
  <2> QED BY <2>3 DEF Ends
<1>3. LinesTo(f, Len(f)) = LinesTo(f, c)
  BY <1>0, <1>2, LinesToGap
<1>4. LastEnd(f, Len(f)) = c
  BY <1>0, <1>2, LastEndUnique
<1>5. LinesIn(f) = LinesTo(f, c) /\ Remainder(f) = s
  BY <1>3, <1>4 DEF LinesIn, Remainder
<1>6. PICK t : t = LinesTo(f, c)
  OBVIOUS
<1>7. t \in Seq(Text8)
  BY <1>0, <1>6, LinesToType
<1>8. t \o <<>> = t /\ t \o <<s>> = Append(t, s)
  BY <1>1, <1>7
<1> QED BY <1>5, <1>6, <1>8 DEF AllLines

\* What is true of the reader between two calls, of the text f, what is taken of it (c characters),
\* the lines ls, the state st and the end fn.
AtBoundary(f, c, ls, st, fn) ==
    /\ c \in Ends(f) \cup {0} /\ ls = LinesTo(f, c)
    /\ st => c > 0 /\ f[c] = CR
    /\ ~st /\ c > 0 /\ c = Len(f) /\ f[c] = CR => fn

\* What a call leaves: a line more or none, at the end of a line or of the text.
LinesWith(ls, got) == IF got.found THEN Append(ls, got.line) ELSE ls
Reached(f, ls, got, fn) ==
    /\ got.state \in BOOLEAN
    /\ \/ \E e \in 0 .. Len(f) : got.rest = After(f, e) /\ AtBoundary(f, e, ls, got.state, fn)
       \/ fn /\ got.rest = <<>> /\ ls = AllLines(f)

\* One call from the end of a line: to the next one, or to the end of the text.
LEMMA LineOfStep ==
    ASSUME NEW f \in Text8, NEW c \in Ends(f) \cup {0}, NEW s, s = After(f, c),
           NEW fn \in BOOLEAN, NEW st \in BOOLEAN, s = <<>> => c > 0 /\ f[c] = LF /\ st = FALSE
    PROVE  Reached(f, LinesWith(LinesTo(f, c), LineOf(s, fn, st)), LineOf(s, fn, st), fn)
<1> PICK got : got = LineOf(s, fn, st)
  OBVIOUS
<1> PICK ls : ls = LinesWith(LinesTo(f, c), got)
  OBVIOUS
<1>a. ls = IF got.found THEN Append(LinesTo(f, c), got.line) ELSE LinesTo(f, c)
  BY DEF LinesWith
<1> SUFFICES Reached(f, ls, got, fn)
  OBVIOUS
<1>0. Len(f) \in Nat /\ c \in 0 .. Len(f) /\ c \in Nat /\ Ends(f) \in SUBSET (1 .. Len(f))
  BY EndsAre
<1>1. s \in Text8 /\ Len(s) = Len(f) - c
  BY <1>0, AfterIs
<1>2. PICK u : u = Unbroken(s)
  OBVIOUS
<1>3. IsUnbroken(s, u) /\ u \in 0 .. Len(s)
  BY <1>1, <1>2, UnbrokenIs DEF IsUnbroken
<1>4. CASE u < Len(s)
  <2>1. PICK nl : nl = Newline(After(s, u))
    OBVIOUS
  <2>w. PICK w : w = IF nl = 3 THEN 2 ELSE 1
    OBVIOUS
  <2>2. PICK d : d = u + w
    OBVIOUS
  <2>3. PICK e : e = c + u + w
    OBVIOUS
  <2>4. /\ e \in Ends(f) /\ LinesTo(f, e) = Append(LinesTo(f, c), SubSeq(s, 1, u))
        /\ d \in 1 .. Len(s) /\ (nl = 2 <=> f[e] = CR)
    <3>1. w = IF Newline(After(s, u)) = 3 THEN 2 ELSE 1
      BY <2>1, <2>w
    <3>2. EndsNext(f, c, s, u, w, e)
      BY <1>3, <1>4, <2>3, <3>1, NextLine
    <3> QED BY <2>1, <2>2, <3>2 DEF EndsNext
  <2>5. PICK rest : rest = After(s, d)
    OBVIOUS
  <2>6. /\ got.found = TRUE /\ got.line = SubSeq(s, 1, u) /\ got.rest = rest
        /\ got.state = (nl = 2 /\ rest = <<>> /\ ~fn)
    BY <1>2, <1>4, <2>1, <2>w, <2>2, <2>5 DEF LineOf, Found, MoreMayCome
  <2>7. d \in 0 .. Len(f) - c /\ c + d = e /\ e \in 1 .. Len(f) /\ Len(f) - e \in Nat /\ e \in Nat /\ e \in 0 .. Len(f)
    BY <1>0, <1>1, <1>3, <2>w, <2>2, <2>3, <2>4
  <2>8. rest = After(f, e) /\ Len(rest) = Len(f) - e /\ rest \in Text8
    <3>1. rest = After(f, c + d)
      BY <1>0, <2>5, <2>7, AfterIs
    <3> QED BY <2>7, <3>1, AfterIs
  <2>9. ls = LinesTo(f, e)
    BY <1>a, <2>4, <2>6
  <2>10. e = Len(f) => rest = <<>>
    BY <2>7, <2>8 DEF Text8
  <2>11. AtBoundary(f, e, ls, got.state, fn)
    <3>1. PICK b : b = got.state
      OBVIOUS
    <3>2. b => nl = 2
      BY <2>6, <3>1
    <3>3. nl = 2 /\ e = Len(f) /\ ~b => fn
      BY <2>6, <2>10, <3>1
    <3>4. AtBoundary(f, e, ls, b, fn)
      BY <2>4, <2>7, <2>9, <3>2, <3>3 DEF AtBoundary
    <3> QED BY <3>1, <3>4
  <2>12. got.state \in BOOLEAN
    BY <2>6
  <2> QED BY <2>6, <2>7, <2>8, <2>11, <2>12 DEF Reached
<1>5. CASE ~ (u < Len(s))
  <2>1. u = Len(s)
    BY <1>0, <1>1, <1>3, <1>5
  <2>2. AllLines(f) = IF s = <<>> THEN LinesTo(f, c) ELSE Append(LinesTo(f, c), s)
    BY <1>3, <2>1, NoMoreEnds
  <2>3. got = Unfinished(s, fn, st)
    BY <1>2, <1>5 DEF LineOf
  <2>4. CASE fn /\ s # <<>>
    <3>1. got.found = TRUE /\ got.line = s /\ got.rest = <<>> /\ got.state = FALSE
      BY <2>3, <2>4 DEF Unfinished
    <3> QED BY <1>a, <2>2, <2>4, <3>1 DEF Reached
  <2>5. CASE ~ (fn /\ s # <<>>)
    <3>1. got = [found |-> FALSE, line |-> <<>>, rest |-> s, state |-> st /\ s = <<>> /\ ~fn]
      BY <2>3, <2>5, Zenon DEF Unfinished
    <3>a. (st /\ s = <<>> /\ ~fn) = FALSE
      OBVIOUS
    <3>b. got = [found |-> FALSE, line |-> <<>>, rest |-> s, state |-> FALSE]
      BY <3>1, <3>a, Zenon
    <3>2. got.found = FALSE /\ got.rest = s /\ got.state = FALSE /\ ls = LinesTo(f, c)
      BY <1>a, <3>b
    <3>3. c > 0 /\ c = Len(f) /\ f[c] = CR => FALSE
      <4>1. c = Len(f) => s = <<>>
        BY <1>0, <1>1 DEF Text8
      <4> QED BY <4>1 DEF CR, LF
    <3>4. AtBoundary(f, c, ls, got.state, fn)
      BY <3>2, <3>3 DEF AtBoundary
    <3> QED BY <1>0, <3>2, <3>4 DEF Reached
  <2> QED BY <2>4, <2>5
<1> QED BY <1>4, <1>5

\* Or a LF came after the CR that ended the last line.
BetweenCRLF(f, c, ls, st) ==
    st /\ c \in 1 .. Len(f) /\ c < Len(f) /\ f[c] = CR /\ f[c + 1] = LF /\ ls = LinesTo(f, c + 1)

\* Two texts, one after the other.
LEMMA TextsTogether ==
    ASSUME NEW s \in Text8, NEW x \in Text8
    PROVE  /\ s \o x \in Text8 /\ Len(s \o x) = Len(s) + Len(x)
           /\ \A k \in 1 .. Len(s) : (s \o x)[k] = s[k]
           /\ \A k \in 1 .. Len(x) : (s \o x)[Len(s) + k] = x[k]
<1>1. s \o x \in Seq(Chars8)
  BY DEF Text8
<1>2. /\ Len(s \o x) = Len(s) + Len(x) /\ \A k \in 1 .. Len(s) : (s \o x)[k] = s[k]
      /\ \A k \in 1 .. Len(x) : (s \o x)[Len(s) + k] = x[k]
  BY DEF Text8
<1> QED BY <1>1, <1>2 DEF Text8

TookLines(f, c, ls, st, fn) == AtBoundary(f, c, ls, st, fn) \/ BetweenCRLF(f, c, ls, st)

\* t is f and x after it, of which the reader has still the first c characters taken.
StillTook(t, f, x, c, ls, st) ==
    /\ t \in Text8 /\ c \in 0 .. Len(t) /\ After(t, c) = After(f, c) \o x
    /\ TookLines(t, c, ls, st, FALSE)

\* The stream goes on.
LEMMA FeedStep ==
    ASSUME NEW f \in Text8, NEW x \in Text8, NEW c \in 0 .. Len(f), NEW ls, NEW st \in BOOLEAN,
           TookLines(f, c, ls, st, FALSE), NEW t, t = f \o x
    PROVE  StillTook(t, f, x, c, ls, st)
<1>1. Len(f) \in Nat /\ Len(x) \in Nat /\ Ends(f) \in SUBSET (1 .. Len(f))
  BY EndsAre
<1>2. t \in Text8 /\ Len(t) = Len(f) + Len(x) /\ (\A k \in 1 .. Len(f) : t[k] = f[k])
      /\ \A k \in 1 .. Len(x) : t[Len(f) + k] = x[k]
  BY TextsTogether
<1>3. Begins(f, t) /\ Len(t) \in Nat /\ c \in 0 .. Len(t)
  BY <1>1, <1>2 DEF Begins
<1>4. After(t, c) = After(f, c) \o x
  <2>1. PICK p : p = After(t, c)
    OBVIOUS
  <2>2. PICK q : q = After(f, c)
    OBVIOUS
  <2>3. p \in Text8 /\ Len(p) = Len(t) - c /\ \A k \in 1 .. Len(t) - c : p[k] = t[c + k]
    BY <1>2, <1>3, <2>1, AfterIs
  <2>4. q \in Text8 /\ Len(q) = Len(f) - c /\ \A k \in 1 .. Len(f) - c : q[k] = f[c + k]
    BY <2>2, AfterIs
  <2>5. PICK r : r = q \o x
    OBVIOUS
  <2>6. /\ r \in Text8 /\ Len(r) = Len(q) + Len(x) /\ (\A k \in 1 .. Len(q) : r[k] = q[k])
        /\ \A k \in 1 .. Len(x) : r[Len(q) + k] = x[k]
    <3>1. q \in Text8
      BY <2>4
    <3>2. /\ q \o x \in Text8 /\ Len(q \o x) = Len(q) + Len(x)
          /\ \A k \in 1 .. Len(q) : (q \o x)[k] = q[k]
          /\ \A k \in 1 .. Len(x) : (q \o x)[Len(q) + k] = x[k]
      BY <3>1, TextsTogether
    <3> QED BY <2>5, <3>2
  <2>n. c \in Nat /\ c <= Len(f) /\ Len(q) = Len(f) - c /\ Len(t) = Len(f) + Len(x) /\ Len(r) = Len(t) - c /\ Len(p) = Len(r)
    BY <1>1, <1>2, <2>3, <2>4, <2>6
  <2>7. ASSUME NEW k \in 1 .. Len(p) PROVE p[k] = r[k]
    <3>1. p[k] = t[c + k]
      BY <2>n, <2>3
    <3>2. CASE k <= Len(q)
      <4>1. k \in 1 .. Len(q) /\ k \in 1 .. Len(f) - c /\ c + k \in 1 .. Len(f)
        BY <1>1, <2>n, <3>2
      <4> QED BY <1>2, <2>4, <2>6, <3>1, <4>1
    <3>3. CASE k > Len(q)
      <4>1. PICK j \in 1 .. Len(x) : k = Len(q) + j /\ c + k = Len(f) + j
        <5>1. k - Len(q) \in 1 .. Len(x) /\ k = Len(q) + (k - Len(q)) /\ c + k = Len(f) + (k - Len(q))
          BY <1>1, <2>n, <3>3
        <5> QED BY <5>1
      <4> QED BY <1>2, <2>6, <3>1, <4>1
    <3> QED BY <1>1, <2>n, <3>2, <3>3
  <2>8. p = r
    BY <2>3, <2>6, <2>7, <2>n, SeqEqual DEF Text8
  <2> QED BY <2>1, <2>2, <2>5, <2>8
<1>5. AtBoundary(t, c, ls, st, FALSE) \/ BetweenCRLF(t, c, ls, st)
  <2>1. CASE AtBoundary(f, c, ls, st, FALSE) /\ c = 0
    <3>1. LinesTo(f, 0) = LinesTo(t, 0)
      BY <1>2, LinesToStep
    <3> QED BY <2>1, <3>1 DEF AtBoundary
  <2>2. CASE AtBoundary(f, c, ls, st, FALSE) /\ c # 0 /\ Firm(f, t, c)
    <3>0. c \in 1 .. c /\ c \in 1 .. Len(f) /\ c \in Ends(f)
      BY <1>1, <2>2 DEF AtBoundary
    <3>1. c \in Ends(t) /\ LinesTo(f, c) = LinesTo(t, c)
      BY <1>2, <1>3, <2>2, <3>0, EndsGrow, LinesAgree
    <3>2. t[c] = f[c] /\ (c = Len(t) => c = Len(f))
      BY <1>1, <1>2, <3>0
    <3> QED BY <2>2, <3>1, <3>2 DEF AtBoundary
  <2>3. CASE AtBoundary(f, c, ls, st, FALSE) /\ c # 0 /\ ~Firm(f, t, c)
    <3>1. c = Len(f) /\ f[c] = CR /\ Len(t) # Len(f) /\ t[c + 1] = LF /\ c \in 1 .. Len(f) /\ c < Len(t)
      BY <1>1, <1>2, <2>3 DEF Firm
    <3>2. st
      BY <1>1, <2>3, <3>1 DEF AtBoundary
    <3>3. LinesTo(t, c + 1) = LinesTo(f, c)
      BY <1>2, <1>3, <3>1, LinesOverCRLF
    <3>4. ls = LinesTo(f, c) /\ t[c] = f[c]
      BY <1>2, <2>3, <3>1 DEF AtBoundary
    <3>5. c \in 1 .. Len(t)
      BY <1>3, <3>1
    <3> QED BY <3>1, <3>2, <3>3, <3>4, <3>5 DEF BetweenCRLF
  <2>4. CASE BetweenCRLF(f, c, ls, st)
    <3>1. PICK m \in Nat : m = c + 1
      BY <1>1
    <3>2. m \in 0 .. Len(f) /\ m \in 1 .. Len(f) /\ c \in 1 .. Len(f) /\ f[m] = LF /\ c \in 1 .. Len(t) /\ c < Len(t)
      BY <1>1, <1>2, <2>4, <3>1 DEF BetweenCRLF
    <3>3. Firm(f, t, m)
      BY <3>2 DEF Firm, CR, LF
    <3>4. LinesTo(f, m) = LinesTo(t, m)
      BY <1>2, <1>3, <3>2, <3>3, LinesAgree
    <3>5. t[m] = LF /\ t[c] = f[c]
      BY <1>2, <3>2
    <3> QED BY <2>4, <3>1, <3>2, <3>4, <3>5 DEF BetweenCRLF
  <2> QED BY <2>1, <2>2, <2>3, <2>4 DEF TookLines
<1>6. TookLines(t, c, ls, st, FALSE)
  BY <1>5 DEF TookLines
<1> QED BY <1>2, <1>3, <1>4, <1>6 DEF StillTook

-----------------------------------------------------------------------------
(* The reader *)

\* Between any two steps it has taken whole lines, perhaps with a LF to come that belongs to the
\* last of them, or all of a text that has ended.
ReaderInv ==
    /\ fed \in Text8 /\ state \in BOOLEAN /\ fin \in BOOLEAN
    /\ \/ \E c \in 0 .. Len(fed) :
            /\ buf = After(fed, c)
            /\ TookLines(fed, c, lines, state, fin)
       \/ fin /\ buf = <<>> /\ lines = AllLines(fed)

\* The reader of a new connection.
LEMMA Nothing ==
    <<>> \in Text8 /\ 0 \in 0 .. Len(<<>>) /\ After(<<>>, 0) = <<>> /\ AtBoundary(<<>>, 0, <<>>, FALSE, FALSE)
<1>1. PICK s : s = <<>>
  OBVIOUS
<1>2. s \in Text8 /\ Len(s) = 0 /\ 0 \in 0 .. Len(s)
  BY <1>1 DEF Text8
<1>3. LinesTo(s, 0) = <<>>
  BY <1>2, LinesToStep
<1>4. After(s, 0) = s
  <2>1. After(s, 0) \in Text8 /\ Len(After(s, 0)) = Len(s) - 0
    BY <1>2, AfterIs
  <2>2. Len(After(s, 0)) = 0
    BY <1>2, <2>1
  <2> QED BY <1>1, <2>1, <2>2 DEF Text8
<1>5. AtBoundary(s, 0, <<>>, FALSE, FALSE)
  BY <1>2, <1>3 DEF AtBoundary
<1> QED BY <1>1, <1>2, <1>4, <1>5

\* Each of the reader's steps keeps the invariant: Feed by FeedStep, Take by LineOfStep.
LEMMA ReaderStep == ReaderInv /\ [ReaderNext]_reader => ReaderInv'
<1> SUFFICES ASSUME ReaderInv, [ReaderNext]_reader PROVE ReaderInv'
  OBVIOUS
<1>1. fed \in Text8 /\ state \in BOOLEAN /\ fin \in BOOLEAN
  BY DEF ReaderInv
<1>2. ASSUME NEW xs \in Seq(LineChars), Feed(xs) PROVE ReaderInv'
  <2>1. xs \in Text8
    <3>1. LineChars \subseteq Chars8
      BY BytesAssumption DEF Chars8
    <3> QED BY <3>1, SeqMonotonic DEF Text8
  <2>2. ~fin /\ fed' = fed \o xs /\ buf' = buf \o xs /\ state' = state /\ fin' = fin /\ lines' = lines
    BY <1>2 DEF Feed
  <2>3. PICK c \in 0 .. Len(fed) :
            /\ buf = After(fed, c)
            /\ TookLines(fed, c, lines, state, fin)
    BY <2>2 DEF ReaderInv
  <2>4. /\ fed \o xs \in Text8 /\ c \in 0 .. Len(fed \o xs) /\ After(fed \o xs, c) = After(fed, c) \o xs
        /\ TookLines(fed \o xs, c, lines, state, fin)
    <3>1. PICK st \in BOOLEAN : st = state
      BY <1>1
    <3>a. fin = FALSE
      BY <1>1, <2>2
    <3>2. TookLines(fed, c, lines, st, FALSE)
      BY <2>3, <3>1, <3>a
    <3>3. StillTook(fed \o xs, fed, xs, c, lines, st)
      BY <1>1, <2>1, <3>2, FeedStep
    <3> QED BY <3>1, <3>3, <3>a DEF StillTook
  <2>5. /\ fed' \in Text8 /\ c \in 0 .. Len(fed') /\ buf' = After(fed', c)
        /\ TookLines(fed', c, lines', state', fin')
    BY <2>2, <2>3, <2>4
  <2>6. state' \in BOOLEAN /\ fin' \in BOOLEAN
    BY <1>1, <2>2
  <2> QED BY <2>5, <2>6 DEF ReaderInv
<1>3. CASE Fin
  <2>1. ~fin /\ fin' = TRUE /\ fed' = fed /\ buf' = buf /\ state' = state /\ lines' = lines
    BY <1>3 DEF Fin
  <2>2. PICK c \in 0 .. Len(fed) :
            /\ buf = After(fed, c)
            /\ TookLines(fed, c, lines, state, fin)
    BY <2>1 DEF ReaderInv
  <2>3. TookLines(fed, c, lines, state, TRUE)
    BY <2>2 DEF TookLines, AtBoundary
  <2>4. c \in 0 .. Len(fed') /\ buf' = After(fed', c)
        /\ TookLines(fed', c, lines', state', fin')
    BY <2>1, <2>2, <2>3
  <2>5. fed' \in Text8 /\ state' \in BOOLEAN /\ fin' \in BOOLEAN
    BY <1>1, <2>1
  <2> QED BY <2>4, <2>5 DEF ReaderInv
<1>4. CASE Take
  <2>1. PICK got : got = MatchLineMulti(buf, state, fin)
    OBVIOUS
  <2>2. /\ buf # <<>> /\ fed' = fed /\ fin' = fin /\ buf' = got.rest /\ state' = got.state
        /\ lines' = IF got.found THEN Append(lines, got.line) ELSE lines
    BY <1>4, <2>1 DEF Take
  <2>3. PICK c \in 0 .. Len(fed) :
            /\ buf = After(fed, c)
            /\ TookLines(fed, c, lines, state, fin)
    BY <2>2 DEF ReaderInv
  <2>4. /\ Len(fed) \in Nat /\ c \in Nat /\ buf \in Text8 /\ Len(buf) = Len(fed) - c
        /\ \A k \in 1 .. Len(fed) - c : buf[k] = fed[c + k]
    <3>1. Len(fed) \in Nat /\ c \in Nat
      BY <1>1, EndsAre
    <3> QED BY <1>1, <2>3, <3>1, AfterIs
  <2>5. c < Len(fed) /\ buf[1] = fed[c + 1]
    <3>1. Len(buf) # 0
      BY <2>2, <2>4 DEF Text8
    <3>2. 1 \in 1 .. Len(fed) - c
      BY <2>4, <3>1
    <3> QED BY <2>4, <3>1, <3>2
  \* from whichever end of a line it goes on
  <2>6. ASSUME NEW b \in Ends(fed) \cup {0}, NEW s, s = After(fed, b), NEW st \in BOOLEAN,
               s = <<>> => b > 0 /\ fed[b] = LF /\ st = FALSE, got = LineOf(s, fin, st), lines = LinesTo(fed, b)
        PROVE  ReaderInv'
    <3>1. lines' = IF got.found THEN Append(LinesTo(fed, b), got.line) ELSE LinesTo(fed, b)
      BY <2>2, <2>6
    <3>2. /\ got.state \in BOOLEAN
          /\ \/ \E e \in 0 .. Len(fed) : got.rest = After(fed, e) /\ AtBoundary(fed, e, lines', got.state, fin)
             \/ fin /\ got.rest = <<>> /\ lines' = AllLines(fed)
      <4>1. PICK fn \in BOOLEAN : fn = fin
        BY <1>1
      <4>2. got = LineOf(s, fn, st)
        BY <2>6, <4>1
      <4>3. s = After(fed, b) /\ (s = <<>> => b > 0 /\ fed[b] = LF /\ st = FALSE)
        BY <2>6
      <4>4. Reached(fed, LinesWith(LinesTo(fed, b), LineOf(s, fn, st)), LineOf(s, fn, st), fn)
        BY <1>1, <4>3, LineOfStep
      <4>5. LinesWith(LinesTo(fed, b), LineOf(s, fn, st)) = lines'
        BY <3>1, <4>2 DEF LinesWith
      <4>6. Reached(fed, lines', got, fn)
        BY <4>2, <4>4, <4>5
      <4> QED BY <4>1, <4>6 DEF Reached
    <3>3. fed' \in Text8 /\ state' \in BOOLEAN /\ fin' \in BOOLEAN
      BY <1>1, <2>2, <3>2
    <3>4. CASE \E e \in 0 .. Len(fed) : got.rest = After(fed, e) /\ AtBoundary(fed, e, lines', got.state, fin)
      <4>1. PICK e \in 0 .. Len(fed) : got.rest = After(fed, e) /\ AtBoundary(fed, e, lines', got.state, fin)
        BY <3>4
      <4>2. e \in 0 .. Len(fed') /\ buf' = After(fed', e) /\ AtBoundary(fed', e, lines', state', fin')
        BY <2>2, <4>1
      <4> QED BY <3>3, <4>2 DEF ReaderInv, TookLines
    <3>5. CASE fin /\ got.rest = <<>> /\ lines' = AllLines(fed)
      <4>1. fin' /\ buf' = <<>> /\ lines' = AllLines(fed')
        BY <2>2, <3>5
      <4> QED BY <3>3, <4>1 DEF ReaderInv
    <3> QED BY <3>2, <3>4, <3>5
  <2>7. CASE AtBoundary(fed, c, lines, state, fin)
    <3>1. ~ (state /\ buf # <<>> /\ buf[1] = LF)
      <4>1. SUFFICES ASSUME state, buf[1] = LF PROVE FALSE
        OBVIOUS
      <4>2. c > 0 /\ fed[c] = CR /\ c \in Ends(fed)
        BY <2>7, <4>1 DEF AtBoundary
      <4>3. fed[c + 1] = LF /\ c < Len(fed) /\ fed[c] # LF
        BY <2>5, <4>1, <4>2 DEF CR, LF
      <4> QED BY <4>2, <4>3 DEF Ends
    <3>2. got = LineOf(buf, fin, state)
      BY <2>1, <3>1, Zenon DEF MatchLineMulti
    <3>3. c \in Ends(fed) \cup {0} /\ lines = LinesTo(fed, c)
      BY <2>7 DEF AtBoundary
    <3> QED BY <1>1, <2>2, <2>3, <2>6, <3>2, <3>3
  <2>8. CASE BetweenCRLF(fed, c, lines, state)
    <3>1. state /\ fed[c + 1] = LF /\ lines = LinesTo(fed, c + 1)
      BY <2>8 DEF BetweenCRLF
    <3>2. got = LineOf(Tail(buf), fin, FALSE)
      BY <2>1, <2>2, <2>5, <3>1, Zenon DEF MatchLineMulti
    <3>3. PICK m \in Nat : m = c + 1
      BY <2>4
    <3>4. m \in Ends(fed) /\ m > 0 /\ fed[m] = LF /\ lines = LinesTo(fed, m)
      BY <2>4, <2>5, <3>1, <3>3 DEF Ends
    <3>5. Tail(buf) = After(fed, m)
      <4>1. Tail(buf) = After(buf, 1)
        <5>1. Tail(buf) = SubSeq(buf, 2, Len(buf))
          BY <2>2, <2>4, TailIsSubSeq DEF Text8
        <5>2. After(buf, 1) = SubSeq(buf, 2, Len(buf))
          BY DEF After
        <5> QED BY <5>1, <5>2
      <4>2. 1 \in 0 .. Len(fed) - c /\ c + 1 = m
        BY <2>4, <2>5, <3>3
      <4>3. After(After(fed, c), 1) = After(fed, c + 1)
        BY <1>1, <4>2, AfterIs
      <4> QED BY <2>3, <3>3, <4>1, <4>3
    <3> QED BY <2>6, <3>2, <3>4, <3>5
  <2> QED BY <2>3, <2>7, <2>8 DEF TookLines
<1>5. CASE Reconnect
  <2>1. fed' = <<>> /\ buf' = <<>> /\ state' = FALSE /\ fin' = FALSE /\ lines' = <<>>
    BY <1>5 DEF Reconnect
  <2>2. /\ fed' \in Text8 /\ 0 \in 0 .. Len(fed') /\ buf' = After(fed', 0)
        /\ AtBoundary(fed', 0, lines', state', fin')
    BY <2>1, Nothing
  <2>3. state' \in BOOLEAN /\ fin' \in BOOLEAN
    BY <2>1
  <2> QED BY <2>2, <2>3 DEF ReaderInv, TookLines
<1>6. CASE UNCHANGED reader
  BY <1>6 DEF ReaderInv, reader
<1>7. ASSUME NEW x \in LineChars, NEW y \in LineChars PROVE <<x>> \in Seq(LineChars) /\ <<x, y>> \in Seq(LineChars)
  OBVIOUS
<1> QED BY <1>2, <1>3, <1>4, <1>5, <1>6, <1>7 DEF ReaderNext

\* The invariant gives the property.
LEMMA ReaderInvThen == ReaderInv => LinesAsSplit
<1> SUFFICES ASSUME ReaderInv PROVE LinesAsSplit
  OBVIOUS
<1>1. fed \in Text8 /\ state \in BOOLEAN /\ fin \in BOOLEAN /\ Len(fed) \in Nat /\ Len(fed) \in 0 .. Len(fed)
  BY EndsAre DEF ReaderInv
<1>2. PICK all : all = LinesIn(fed)
  OBVIOUS
<1>3. all \in Seq(Text8)
  BY <1>1, <1>2, LinesToType DEF LinesIn
<1>4. Remainder(fed) \in Text8
  <2>1. PICK e \in 0 .. Len(fed) : e = LastEnd(fed, Len(fed))
    BY <1>1, LastEndIs
  <2> QED BY <1>1, <2>1, AfterIs DEF Remainder
<1>5. PICK rest : rest = IF Remainder(fed) = <<>> THEN <<>> ELSE <<Remainder(fed)>>
  OBVIOUS
<1>6. rest \in Seq(Text8) /\ AllLines(fed) = all \o rest
  BY <1>2, <1>4, <1>5 DEF AllLines
\* the lines so far begin those of the text
<1>7. ASSUME NEW n \in 0 .. Len(fed), lines = LinesTo(fed, n)
      PROVE  IsPrefix(lines, IF fin THEN AllLines(fed) ELSE LinesIn(fed))
  <2>1. lines \in Seq(Text8) /\ Begins(lines, all)
    BY <1>1, <1>2, <1>7, LinesToType, LinesToGrow DEF LinesIn
  <2>2. Begins(lines, all \o rest) /\ all \o rest \in Seq(Text8)
    BY <1>3, <1>6, <2>1 DEF Begins
  <2>3. IsPrefix(lines, all) /\ IsPrefix(lines, all \o rest)
    BY <1>3, <2>1, <2>2, BeginsIsPrefix
  <2> QED BY <1>2, <1>6, <2>3
<1>8. CASE fin /\ buf = <<>> /\ lines = AllLines(fed)
  <2>1. all \o rest \in Seq(Text8) /\ Begins(all \o rest, all \o rest)
    BY <1>3, <1>6 DEF Begins
  <2>2. IsPrefix(all \o rest, all \o rest)
    BY <2>1, BeginsIsPrefix
  <2> QED BY <1>6, <1>8, <2>2 DEF LinesAsSplit
<1>9. ASSUME NEW c \in 0 .. Len(fed), buf = After(fed, c), AtBoundary(fed, c, lines, state, fin)
      PROVE  LinesAsSplit
  <2>1. c \in Ends(fed) \cup {0} /\ lines = LinesTo(fed, c)
    BY <1>9 DEF AtBoundary
  <2>2. buf \in Text8
    BY <1>1, <1>9, AfterIs
  <2>3. ASSUME Unbroken(buf) = Len(buf)
        PROVE  LinesIn(fed) = lines /\ (buf = <<>> => AllLines(fed) = lines)
    <3>1. IsUnbroken(buf, Len(buf))
      BY <2>2, <2>3, UnbrokenIs
    <3> QED BY <1>1, <1>9, <2>1, <3>1, NoMoreEnds
  <2>4. buf = <<>> => Unbroken(buf) = Len(buf)
    <3>1. HAVE buf = <<>>
    <3>2. Unbroken(buf) \in 0 .. Len(buf) /\ Len(buf) = 0
      BY <2>2, <3>1, UnbrokenIs DEF IsUnbroken
    <3> QED BY <3>2
  <2>5. IsPrefix(lines, IF fin THEN AllLines(fed) ELSE LinesIn(fed))
    BY <1>7, <2>1
  <2> QED BY <2>3, <2>4, <2>5 DEF LinesAsSplit
<1>10. ASSUME NEW c \in 0 .. Len(fed), buf = After(fed, c), BetweenCRLF(fed, c, lines, state)
       PROVE  LinesAsSplit
  <2>1. c \in Nat /\ c < Len(fed) /\ fed[c + 1] = LF /\ lines = LinesTo(fed, c + 1) /\ c + 1 \in 0 .. Len(fed)
    BY <1>1, <1>10 DEF BetweenCRLF
  <2>2. buf \in Text8 /\ Len(buf) = Len(fed) - c /\ buf[1] = fed[c + 1]
    <3>1. 1 \in 1 .. Len(fed) - c
      BY <1>1, <2>1
    <3> QED BY <1>1, <1>10, <3>1, AfterIs
  <2>3. Len(buf) \in Nat /\ 0 < Len(buf)
    BY <1>1, <2>1, <2>2
  <2>4. Unbroken(buf) # Len(buf)
    <3>1. SUFFICES ASSUME Unbroken(buf) = Len(buf) PROVE FALSE
      OBVIOUS
    <3>2. \A k \in 1 .. Len(buf) : buf[k] \notin {CR, LF}
      BY <2>2, <3>1, UnbrokenIs DEF IsUnbroken
    <3> QED BY <2>1, <2>2, <2>3, <3>2
  <2>5. buf # <<>>
    BY <2>3
  <2>6. IsPrefix(lines, IF fin THEN AllLines(fed) ELSE LinesIn(fed))
    BY <1>7, <2>1
  <2> QED BY <2>4, <2>5, <2>6 DEF LinesAsSplit
<1> QED BY <1>8, <1>9, <1>10 DEF ReaderInv, TookLines

\* However a text is cut into pieces and wherever calls of aem_stringslice_match_line_multi come
\* between them, process_data gets the lines of the whole text: for any characters, any length.
THEOREM LinesRight == ReaderSpec => []LinesAsSplit
<1>1. ReaderInit => ReaderInv
  <2> SUFFICES ASSUME ReaderInit PROVE ReaderInv
    OBVIOUS
  <2>1. fed = <<>> /\ buf = <<>> /\ state = FALSE /\ fin = FALSE /\ lines = <<>>
    BY DEF ReaderInit
  <2>2. /\ fed \in Text8 /\ 0 \in 0 .. Len(fed) /\ buf = After(fed, 0)
        /\ AtBoundary(fed, 0, lines, state, fin)
    BY <2>1, Nothing
  <2>3. state \in BOOLEAN /\ fin \in BOOLEAN
    BY <2>1
  <2> QED BY <2>2, <2>3 DEF ReaderInv, TookLines
<1> QED BY <1>1, ReaderStep, ReaderInvThen, PTL DEF ReaderSpec
===============================================================================
