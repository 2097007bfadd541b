----------------------------- MODULE MCAemRegex -----------------------------
EXTENDS AemRegex

(* Patterns are spelt as tuples of one-character strings. *)
Code == [a |-> 97, b |-> 98, c |-> 99, d |-> 100, D |-> 68, W |-> 87, w |-> 119, A |-> 65, z |-> 122] @@
    ("(" :> 40) @@ (")" :> 41) @@ ("*" :> 42) @@ ("+" :> 43) @@ ("," :> 44) @@ ("-" :> 45) @@
    ("." :> 46) @@ (":" :> 58) @@ ("<" :> 60) @@ (">" :> 62) @@ ("?" :> 63) @@ ("[" :> 91) @@
    ("\\" :> 92) @@ ("]" :> 93) @@ ("^" :> 94) @@ ("$" :> 36) @@ ("{" :> 123) @@ ("|" :> 124) @@ ("}" :> 125) @@
    ("0" :> 48) @@ ("1" :> 49) @@ ("2" :> 50) @@ ("3" :> 51) @@ ("n" :> 110) @@
    ("[:lower:]" :> 256) @@ ("[:^lower:]" :> 257)

Spell(chars) == [i \in DOMAIN chars |-> Code[chars[i]]]
Regex(id, e, chars) == [how |-> "regex", id |-> id, e |-> e, text |-> Spell(chars)]
String(id, e, chars) == [how |-> "string", id |-> id, e |-> e, text |-> Spell(chars)]

a == OneOf({97})
b == OneOf({98})
nl == OneOf({10})
ab == OneOf({97, 98})
Opt(e) == Many(0, 1, e)
Star(e) == Many(0, UintMax, e)
Plus(e) == Many(1, UintMax, e)
Nothing == Cat(<<>>)
any == OneOf(0..127)

Singles == {
    \* (((()+)*)*)*a
    Regex(-1, Cat(<<Star(Group(0, Star(Group(1, Star(Group(2, Plus(Group(3, Nothing)))))))), a>>),
          <<"(","(","(","(",")","+",")","*",")","*",")","*","a">>),
    \* ((a|b)*b)*
    Regex(-1, Star(Group(0, Cat(<<Star(Group(1, Or(<<a, b>>))), b>>))),
          <<"(","(","a","|","b",")","*","b",")","*">>),
    \* (?:a|ab|b)+$
    Regex(-1, Cat(<<Plus(Or(<<a, Cat(<<a, b>>), b>>)), Begins(TRUE, "line")>>),
          <<"(","?",":","a","|","a","b","|","b",")","+","$">>),
    \* a{2,3}b?
    Regex(-1, Cat(<<Many(2, 3, a), Opt(b)>>), <<"a","{","2",",","3","}","b","?">>),
    \* (a|){2}b
    Regex(-1, Cat(<<Many(2, 2, Group(0, Or(<<a, Nothing>>))), b>>),
          <<"(","a","|",")","{","2","}","b">>),
    \* a{,2}b
    Regex(-1, Cat(<<Many(0, 2, a), b>>), <<"a","{",",","2","}","b">>),
    \* a{,12}b
    Regex(-1, Cat(<<Many(0, 12, a), b>>), <<"a","{",",","1","2","}","b">>),
    \* a{}?b, where the brace that begins no count is dropped
    Regex(-1, Cat(<<a, Opt(OneOf({125})), b>>), <<"a","{","}","?","b">>),
    \* (?c:((a.)+)b)
    Regex(-1, Cat(<<Group(0, Plus(Cat(<<a, any>>))), b>>),
          <<"(","?","c",":","(","(","a",".",")","+",")","b",")">>),
    \* ^(?-b:.)*\n
    Regex(-1, Cat(<<Begins(FALSE, "line"), Star(OneOf({9} \cup 32..127)), nl>>),
          <<"^","(","?","-","b",":",".",")","*","\\","n">>),
    \* [^a]([:^lower:]\D)*
    Regex(-1, Cat(<<OneOf(Byte \ {97}), Star(Group(0, OneOf(Byte \ 97..122)))>>),
          <<"[","^","a","]","(","[","[:^lower:]","]",")","*">>),
    \* [a-b\n]+\>
    Regex(-1, Cat(<<Plus(OneOf({97, 98, 10})), Begins(TRUE, "alnum")>>),
          <<"[","a","-","b","\\","n","]","+","\\",">">>),
    \* (\<b|\n\D)*
    Regex(-1, Star(Group(0, Or(<<Cat(<<Begins(FALSE, "alnum"), b>>), Cat(<<nl, OneOf(Byte \ 48..57)>>)>>))),
          <<"(","\\","<","b","|","\\","n","\\","D",")","*">>)}

Pairs == {
    <<Regex(-1, Or(<<Group(0, a), b>>), <<"(","a",")","|","b">>), String(-1, b, <<"b">>)>>,
    <<Regex(2, Plus(Group(0, ab)), <<"(","[","a","b","]",")","+">>),
      Regex(-1, Cat(<<Star(a), Group(0, b), Group(1, Star(nl))>>), <<"a","*","(","b",")","(","\\","n","*",")">>)>>,
    <<String(-1, Cat(<<a, b>>), <<"a","b">>), Regex(-1, Bad, <<"(","a","(","b",")">>),
      Regex(-1, Cat(<<a, Star(b)>>), <<"a","b","*">>)>>,
    <<Regex(1, Cat(<<Star(b), a>>), <<"b","*","a">>), Regex(-1, Bad, <<"(","a",")","*","a","+","?">>),
      Regex(-1, Group(0, Opt(Or(<<a, b>>))), <<"(","(","?",":","a","|","b",")","?",")">>)>>,
    <<Regex(-1, Bad, <<"a","{","2",",","1","}">>), Regex(-1, Opt(Group(0, Star(b))), <<"(","b","*",")","?">>)>>}

SmallScripts == {<<p>> : p \in Singles} \cup Pairs
SmallInputs == UNION {[1..n -> {97, 98, 10}] : n \in 0..3} \cup [1..4 -> {97, 98}] \cup {<<97, 125, 98>>}
=============================================================================
