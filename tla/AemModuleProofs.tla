---------------------------- MODULE AemModuleProofs ----------------------------
(***************************************************************************)
(* The module loader is correct for any modules, files, requests and       *)
(* callbacks: the properties that are checked of AemModule, proved from    *)
(* one inductive invariant.  What it adds to the properties is what each   *)
(* call that waits on the C stack may rely on when it goes on, whatever    *)
(* the callbacks above it have loaded and unloaded meanwhile.              *)
(***************************************************************************)
EXTENDS AemModule, FiniteSetTheorems, TLAPS

-----------------------------------------------------------------------------
(* The C stack: its shape, and what keeps it *)

\* The calls on the C stack that end what is done about their module, those that
\* have another call about it below them, and those that may be that call.
Ends == {"open", "register", "reg", "insert", "fail", "free", "dispose"}
Leads == {"unload", "close", "dereg"}
Follows == {"unload", "free", "dispose"}

FrameType ==
    [fn : Ends \cup Leads \cup {"config"}, m : Mods \cup {None}, val : STRING \cup {None} \cup Int]

\* A frame has the argument that its function takes.
Typed(a) ==
    /\ a.fn = "config" <=> a.m = None
    /\ a.fn \in {"open", "register", "reg"} => a.val \in STRING \cup {None}
    /\ a.fn \in {"fail", "free"} => a.val \in Int
    /\ a.fn = "fail" => a.val # 0

\* Call a may be on top of call b: it has been made by b, or is to be followed by b.
\* modules_load is left with an error by each load that fails.
Above(a, b) ==
    \/ a.fn \in {"unload", "close"} /\ b.fn \in Follows /\ a.m = b.m
    \/ a.fn = "dereg" /\ b.fn = "dispose" /\ a.m = b.m
    \/ a.fn \in Ends /\ b.fn \in {"reg", "dereg"}
    \/ a.fn \in Ends \ {"dispose"} /\ (a.fn \in {"fail", "free"} => a.val # 0) /\ b.fn = "config"

\* Two calls about the same module are parts of one operation.
Shape(s) ==
    /\ \A k \in 1 .. Len(s) : Typed(s[k])
    /\ \A k \in 1 .. Len(s) - 1 : Above(s[k], s[k + 1])
    /\ s # <<>> => s[Len(s)].fn \in Ends \cup {"config"}
    /\ \A j, k \in 1 .. Len(s) :
          j < k /\ s[j].m = s[k].m => s[j].fn \in Leads /\ s[k].fn \in Follows

StackShape == frames \in Seq(FrameType) /\ Shape(frames)

\* Calls put on top of others.
LEMMA Joined ==
    ASSUME NEW cs \in Seq(FrameType), NEW rest \in Seq(FrameType), NEW s, s = cs \o rest
    PROVE  /\ s \in Seq(FrameType) /\ Len(s) = Len(cs) + Len(rest)
           /\ Len(cs) \in Nat /\ Len(rest) \in Nat
           /\ \A k \in 1 .. Len(cs) : s[k] = cs[k]
           /\ \A k \in 1 .. Len(rest) : s[Len(cs) + k] = rest[k]
           /\ \A k \in 1 .. Len(s) : k > Len(cs) => k - Len(cs) \in 1 .. Len(rest) /\ s[k] = rest[k - Len(cs)]
OBVIOUS

\* What is below the call on top.
LEMMA Under ==
    ASSUME NEW s \in Seq(FrameType), s # <<>>
    PROVE  /\ Tail(s) \in Seq(FrameType) /\ Len(Tail(s)) = Len(s) - 1
           /\ Len(s) \in Nat /\ Len(s) >= 1
           /\ \A k \in 1 .. Len(s) - 1 : Tail(s)[k] = s[k + 1] /\ k + 1 \in 1 .. Len(s)
OBVIOUS

\* What is below the call on top has the shape of a C stack too.
LEMMA TailShape ==
    ASSUME NEW s \in Seq(FrameType), s # <<>>, Shape(s)
    PROVE  Shape(Tail(s))
<1> DEFINE t == Tail(s)
<1>1. /\ t \in Seq(FrameType) /\ Len(t) = Len(s) - 1 /\ Len(s) \in Nat /\ Len(s) >= 1
      /\ \A k \in 1 .. Len(s) - 1 : t[k] = s[k + 1] /\ k + 1 \in 1 .. Len(s)
  BY Under
<1> HIDE DEF t
<1>2. \A k \in 1 .. Len(t) : Typed(t[k])
  BY <1>1 DEF Shape
<1>3. ASSUME NEW k \in 1 .. Len(t) - 1 PROVE Above(t[k], t[k + 1])
  <2>1. k + 1 \in 1 .. Len(s) - 1 /\ t[k] = s[k + 1] /\ t[k + 1] = s[(k + 1) + 1]
    BY <1>1
  <2> QED BY <2>1 DEF Shape
<1>4. t # <<>> => t[Len(t)].fn \in Ends \cup {"config"}
  <2>1. ASSUME t # <<>> PROVE t[Len(t)].fn \in Ends \cup {"config"}
    <3>1. Len(t) # 0
      BY <1>1, <2>1
    <3>2. t[Len(t)] = s[Len(s)] /\ s # <<>>
      BY <1>1, <3>1
    <3> QED BY <3>2 DEF Shape
  <2> QED BY <2>1
<1>5. ASSUME NEW j \in 1 .. Len(t), NEW k \in 1 .. Len(t), j < k, t[j].m = t[k].m
      PROVE  t[j].fn \in Leads /\ t[k].fn \in Follows
  <2>1. j + 1 \in 1 .. Len(s) /\ k + 1 \in 1 .. Len(s) /\ j + 1 < k + 1 /\ t[j] = s[j + 1] /\ t[k] = s[k + 1]
    BY <1>1, <1>5
  <2> QED BY <2>1, <1>5 DEF Shape
<1> QED BY <1>2, <1>3, <1>4, <1>5 DEF Shape, t

\* Neighbours on a stack.
LEMMA ShapePairs ==
    ASSUME NEW s, Shape(s), NEW j \in 1 .. Len(s) - 1
    PROVE  Above(s[j], s[j + 1])
BY DEF Shape

\* New calls on top of a stack, which they fit.
LEMMA JoinShape ==
    ASSUME NEW cs \in Seq(FrameType), cs # <<>>, NEW rest \in Seq(FrameType), NEW s, s = cs \o rest,
           \A k \in 1 .. Len(cs) : Typed(cs[k]),
           \A k \in 1 .. Len(cs) - 1 : Above(cs[k], cs[k + 1]),
           \A j, k \in 1 .. Len(cs) :
              j < k /\ cs[j].m = cs[k].m => cs[j].fn \in Leads /\ cs[k].fn \in Follows,
           rest # <<>> => Above(cs[Len(cs)], rest[1]),
           rest = <<>> => cs[Len(cs)].fn \in Ends \cup {"config"},
           \A j \in 1 .. Len(cs), k \in 1 .. Len(rest) :
              cs[j].m = rest[k].m => cs[j].fn \in Leads /\ rest[k].fn \in Follows,
           Shape(rest)
    PROVE  s \in Seq(FrameType) /\ Shape(s)
<1>1. /\ s \in Seq(FrameType) /\ Len(s) = Len(cs) + Len(rest)
      /\ Len(cs) \in Nat /\ Len(rest) \in Nat
      /\ \A k \in 1 .. Len(cs) : s[k] = cs[k]
      /\ \A k \in 1 .. Len(s) : k > Len(cs) => k - Len(cs) \in 1 .. Len(rest) /\ s[k] = rest[k - Len(cs)]
  BY Joined
<1>2. Len(cs) >= 1 /\ Len(s) >= 1
  BY <1>1
<1>3. ASSUME NEW k \in 1 .. Len(s) PROVE Typed(s[k])
  <2>1. CASE k <= Len(cs)
    BY <2>1, <1>1
  <2>2. CASE k > Len(cs)
    BY <2>2, <1>1 DEF Shape
  <2> QED BY <1>1, <2>1, <2>2
<1>4. ASSUME NEW k \in 1 .. Len(s) - 1 PROVE Above(s[k], s[k + 1])
  <2>1. CASE k < Len(cs)
    <3>1. k \in 1 .. Len(cs) - 1 /\ s[k] = cs[k] /\ s[k + 1] = cs[k + 1]
      BY <2>1, <1>1
    <3> QED BY <3>1
  <2>2. CASE k = Len(cs)
    <3>1. s[k] = cs[Len(cs)] /\ s[k + 1] = rest[1] /\ rest # <<>>
      BY <2>2, <1>1, <1>2
    <3> QED BY <3>1
  <2>3. CASE k > Len(cs)
    <3>1. s[k] = rest[k - Len(cs)] /\ s[k + 1] = rest[(k - Len(cs)) + 1] /\ k - Len(cs) \in 1 .. Len(rest) - 1
      BY <2>3, <1>1
    <3>2. PICK j : j = k - Len(cs)
      OBVIOUS
    <3>3. j \in 1 .. Len(rest) - 1 /\ s[k] = rest[j] /\ s[k + 1] = rest[j + 1]
      BY <3>1, <3>2
    <3>4. Above(rest[j], rest[j + 1])
      BY <3>3, ShapePairs
    <3> QED BY <3>3, <3>4
  <2>4. k < Len(cs) \/ k = Len(cs) \/ k > Len(cs)
    BY <1>1
  <2> QED BY <2>1, <2>2, <2>3, <2>4
<1>5. s[Len(s)].fn \in Ends \cup {"config"}
  <2>1. CASE rest = <<>>
    BY <2>1, <1>1, <1>2
  <2>2. CASE rest # <<>>
    <3>1. s[Len(s)] = rest[Len(rest)]
      BY <2>2, <1>1, <1>2
    <3> QED BY <2>2, <3>1 DEF Shape
  <2> QED BY <2>1, <2>2
<1>6. ASSUME NEW j \in 1 .. Len(s), NEW k \in 1 .. Len(s), j < k, s[j].m = s[k].m
      PROVE  s[j].fn \in Leads /\ s[k].fn \in Follows
  <2>1. CASE k <= Len(cs)
    <3>1. j \in 1 .. Len(cs) /\ k \in 1 .. Len(cs) /\ s[j] = cs[j] /\ s[k] = cs[k]
      BY <2>1, <1>1, <1>6
    <3> QED BY <3>1, <1>6
  <2>2. CASE k > Len(cs) /\ j <= Len(cs)
    <3>1. j \in 1 .. Len(cs) /\ k - Len(cs) \in 1 .. Len(rest) /\ s[j] = cs[j] /\ s[k] = rest[k - Len(cs)]
      BY <2>2, <1>1
    <3> QED BY <3>1, <1>6
  <2>3. CASE j > Len(cs)
    <3>1. /\ j - Len(cs) \in 1 .. Len(rest) /\ k - Len(cs) \in 1 .. Len(rest)
          /\ s[j] = rest[j - Len(cs)] /\ s[k] = rest[k - Len(cs)] /\ j - Len(cs) < k - Len(cs)
      BY <2>3, <1>1, <1>6
    <3> QED BY <3>1, <1>6 DEF Shape
  <2> QED BY <1>1, <2>1, <2>2, <2>3
<1> QED BY <1>1, <1>3, <1>4, <1>5, <1>6 DEF Shape

\* A stack with a call on it.
LEMMA Filled == ASSUME NEW s \in Seq(FrameType), Len(s) # 0 PROVE s # <<>>
OBVIOUS

\* The call on top, if another one cannot be on top of one about its module, is the only one
\* about it.
LEMMA OnlyOne ==
    ASSUME NEW s \in Seq(FrameType), s # <<>>, Shape(s), s[1].fn \in Ends
    PROVE  /\ s[1].m \in Mods
           /\ \A k \in 2 .. Len(s) : s[k].m # s[1].m
           /\ Tail(s) # <<>> => /\ s[2].fn \in {"reg", "dereg", "config"} /\ Tail(s)[1] = s[2]
                                /\ s[2].fn = "config" => Above(s[1], s[2]) /\ s[1].fn # "dispose"
<1>1. Len(s) \in Nat /\ 1 \in 1 .. Len(s) /\ s[1] \in FrameType
  BY Under
<1>2. s[1].m \in Mods
  <2>1. Typed(s[1])
    BY <1>1 DEF Shape
  <2>2. s[1].m \in Mods \cup {None}
    BY <1>1 DEF FrameType
  <2> QED BY <2>1, <2>2 DEF Typed, Ends
<1>3. ASSUME NEW k \in 2 .. Len(s) PROVE s[k].m # s[1].m
  <2>1. k \in 1 .. Len(s) /\ 1 < k /\ s[1].fn \notin Leads
    BY <1>1 DEF Ends, Leads
  <2> QED BY <1>1, <2>1 DEF Shape
<1>4. ASSUME Tail(s) # <<>>
      PROVE  /\ s[2].fn \in {"reg", "dereg", "config"} /\ Tail(s)[1] = s[2]
             /\ s[2].fn = "config" => Above(s[1], s[2]) /\ s[1].fn # "dispose"
  <2>1. 1 \in 1 .. Len(s) - 1 /\ Tail(s)[1] = s[1 + 1] /\ 1 + 1 = 2
    BY <1>4, <1>1, Under
  <2>2. Above(s[1], s[2])
    BY <2>1 DEF Shape
  <2>3. s[2].fn \in {"reg", "dereg", "config"}
    BY <2>2 DEF Above, Ends
  <2>4. s[2].fn = "config" => s[1].fn # "dispose"
    BY <2>2 DEF Above, Follows
  <2> QED BY <2>1, <2>2, <2>3, <2>4
<1> QED BY <1>2, <1>3, <1>4

\* What calls must be like to be put on top of others that are about other modules.
OnTopOf(cs, rest) ==
    /\ \A k \in 1 .. Len(cs) : Typed(cs[k])
    /\ \A k \in 1 .. Len(cs) - 1 : Above(cs[k], cs[k + 1])
    /\ \A j, k \in 1 .. Len(cs) :
          j < k /\ cs[j].m = cs[k].m => cs[j].fn \in Leads /\ cs[k].fn \in Follows
    /\ rest # <<>> => Above(cs[Len(cs)], rest[1])
    /\ rest = <<>> => cs[Len(cs)].fn \in Ends \cup {"config"}
    /\ \A j \in 1 .. Len(cs), k \in 1 .. Len(rest) : cs[j].m # rest[k].m

LEMMA OnTopShape ==
    ASSUME NEW cs \in Seq(FrameType), cs # <<>>, NEW rest \in Seq(FrameType), NEW s, s = cs \o rest,
           OnTopOf(cs, rest), Shape(rest)
    PROVE  s \in Seq(FrameType) /\ Shape(s)
BY JoinShape DEF OnTopOf

\* A call that ends what it does by other calls about its module.
LEMMA EndReplaced ==
    ASSUME NEW s \in Seq(FrameType), s # <<>>, Shape(s), s[1].fn \in Ends,
           NEW cs \in Seq(FrameType), cs # <<>>,
           \A k \in 1 .. Len(cs) : Typed(cs[k]) /\ cs[k].m = s[1].m,
           \A k \in 1 .. Len(cs) - 1 : Above(cs[k], cs[k + 1]),
           \A j, k \in 1 .. Len(cs) : j < k => cs[j].fn \in Leads /\ cs[k].fn \in Follows,
           cs[Len(cs)].fn \in Ends \ {"dispose"},
           Tail(s) # <<>> /\ s[2].fn = "config" /\ cs[Len(cs)].fn \in {"fail", "free"} => cs[Len(cs)].val # 0
    PROVE  cs \o Tail(s) \in Seq(FrameType) /\ Shape(cs \o Tail(s))
<1> DEFINE rest == Tail(s)
<1>1. /\ rest \in Seq(FrameType) /\ Len(rest) = Len(s) - 1 /\ Len(s) \in Nat
      /\ \A k \in 1 .. Len(s) - 1 : rest[k] = s[k + 1] /\ k + 1 \in 2 .. Len(s)
  BY Under
<1>2. Shape(rest)
  BY TailShape
<1>3. ASSUME rest # <<>> PROVE Above(cs[Len(cs)], rest[1])
  <2>1. rest[1] = s[2] /\ s[2].fn \in {"reg", "dereg", "config"}
    BY OnlyOne, <1>3
  <2>2. CASE s[2].fn = "config"
    <3>1. cs[Len(cs)].fn \in {"fail", "free"} => cs[Len(cs)].val # 0
      BY <2>2, <1>3
    <3> QED BY <2>1, <2>2, <3>1 DEF Above
  <2>3. CASE s[2].fn # "config"
    BY <2>1, <2>3 DEF Above
  <2> QED BY <2>2, <2>3
<1>4. \A k \in 1 .. Len(rest) : rest[k].m # s[1].m
  BY <1>1, OnlyOne
<1> HIDE DEF rest
<1>5. cs \o rest \in Seq(FrameType) /\ Shape(cs \o rest)
  <2> DEFINE t == cs \o rest
  <2>1. \A j \in 1 .. Len(cs), k \in 1 .. Len(rest) : cs[j].m # rest[k].m
    BY <1>4
  <2>2. \A j, k \in 1 .. Len(cs) :
          j < k /\ cs[j].m = cs[k].m => cs[j].fn \in Leads /\ cs[k].fn \in Follows
    OBVIOUS
  <2>3. t = cs \o rest
    OBVIOUS
  <2> HIDE DEF t
  <2>5. OnTopOf(cs, rest)
    BY <1>3, <2>1, <2>2 DEF OnTopOf
  <2>4. t \in Seq(FrameType) /\ Shape(t)
    BY <1>1, <1>2, <2>3, <2>5, OnTopShape
  <2> QED BY <2>3, <2>4
<1> QED BY <1>5 DEF rest

\* A call that goes on as one other.
LEMMA OneReplaced ==
    ASSUME NEW s \in Seq(FrameType), s # <<>>, Shape(s), s[1].fn \in Ends,
           NEW c \in FrameType, c.fn \in Ends \ {"dispose"}, Typed(c), c.m = s[1].m,
           Tail(s) # <<>> /\ s[2].fn = "config" /\ c.fn \in {"fail", "free"} => c.val # 0
    PROVE  <<c>> \o Tail(s) \in Seq(FrameType) /\ Shape(<<c>> \o Tail(s))
<1> DEFINE cs == <<c>>
<1>1. cs \in Seq(FrameType) /\ cs # <<>> /\ Len(cs) = 1 /\ cs[1] = c
  OBVIOUS
<1>2. \A k \in 1 .. Len(cs) : k = 1
  BY <1>1
<1>3. \A k \in 1 .. Len(cs) - 1 : FALSE
  BY <1>1
<1>4. \A j, k \in 1 .. Len(cs) : ~(j < k)
  BY <1>1
<1> HIDE DEF cs
<1>5. cs \o Tail(s) \in Seq(FrameType) /\ Shape(cs \o Tail(s))
  BY <1>1, <1>2, <1>3, <1>4, EndReplaced
<1> QED BY <1>5 DEF cs

\* The calls that lead to the end of a module do so one after another.
LEMMA LeadReplaced ==
    ASSUME NEW s \in Seq(FrameType), s # <<>>, Shape(s), s[1].fn \in Leads,
           NEW c \in FrameType, c.fn \in Leads, Typed(c), c.m = s[1].m, Above(c, s[2])
    PROVE  <<c>> \o Tail(s) \in Seq(FrameType) /\ Shape(<<c>> \o Tail(s))
<1> DEFINE cs == <<c>>
           rest == Tail(s)
           t == cs \o rest
<1>1. cs \in Seq(FrameType) /\ cs # <<>> /\ Len(cs) = 1 /\ cs[1] = c
  OBVIOUS
<1>2. /\ rest \in Seq(FrameType) /\ Len(rest) = Len(s) - 1 /\ Len(s) \in Nat /\ Len(s) >= 1
      /\ \A k \in 1 .. Len(s) - 1 : rest[k] = s[k + 1] /\ k + 1 \in 2 .. Len(s)
  BY Under
<1>3. Len(s) # 1
  BY DEF Shape, Leads, Ends
<1>4. rest # <<>> /\ rest[1] = s[2]
  <2>1. Len(s) >= 2
    <3>1. PICK n \in Nat : n = Len(s)
      BY <1>2
    <3>2. n >= 1
      BY <3>1, <1>2
    <3>3. n # 1
      BY <3>1, <1>3
    <3> QED BY <3>1, <3>2, <3>3
  <2>2. 1 \in 1 .. Len(s) - 1 /\ 1 + 1 = 2 /\ Len(rest) # 0
    BY <2>1, <1>2
  <2>3. rest[1] = s[2]
    BY <2>2, <1>2
  <2>4. rest # <<>>
    BY <2>2, <1>2, Filled
  <2> QED BY <2>3, <2>4
<1>5. Shape(rest)
  BY TailShape
<1>6. ASSUME NEW k \in 1 .. Len(rest), rest[k].m = c.m PROVE rest[k].fn \in Follows
  <2>1. rest[k] = s[k + 1] /\ 1 \in 1 .. Len(s) /\ k + 1 \in 1 .. Len(s) /\ 1 < k + 1
    BY <1>2
  <2> QED BY <2>1, <1>6 DEF Shape
<1>7. t = cs \o rest
  OBVIOUS
<1>8. \A k \in 1 .. Len(cs) : k = 1
  BY <1>1
<1>9. (\A k \in 1 .. Len(cs) - 1 : FALSE) /\ \A j, k \in 1 .. Len(cs) : ~(j < k)
  BY <1>1
<1>10. \A j \in 1 .. Len(cs), k \in 1 .. Len(rest) :
          cs[j].m = rest[k].m => cs[j].fn \in Leads /\ rest[k].fn \in Follows
  BY <1>6, <1>8, <1>1
<1> HIDE DEF cs, rest, t
<1>11. t \in Seq(FrameType) /\ Shape(t)
  BY <1>1, <1>2, <1>4, <1>5, <1>7, <1>8, <1>9, <1>10, JoinShape
<1> QED BY <1>11 DEF t, cs, rest

\* The calls that lead to the end have the rest of it below them.
LEMMA LeadOver ==
    ASSUME NEW s \in Seq(FrameType), s # <<>>, Shape(s), s[1].fn \in Leads
    PROVE  /\ s[1].m \in Mods
           /\ 2 \in 1 .. Len(s) /\ Tail(s) # <<>> /\ Tail(s)[1] = s[2]
           /\ s[2].m = s[1].m /\ s[2].fn \in Follows
           /\ s[1].fn = "dereg" => s[2].fn = "dispose"
           /\ \A k \in 2 .. Len(s) : s[k].m = s[1].m => s[k].fn \in Follows
<1>1. Len(s) \in Nat /\ Len(s) >= 1 /\ 1 \in 1 .. Len(s) /\ s[1] \in FrameType
  BY Under
<1>2. s[1].m \in Mods
  <2>1. Typed(s[1])
    BY <1>1 DEF Shape
  <2>2. s[1].m \in Mods \cup {None}
    BY <1>1 DEF FrameType
  <2> QED BY <2>1, <2>2 DEF Typed, Leads
<1>3. Len(s) # 1
  BY DEF Shape, Leads, Ends
<1>4. 1 \in 1 .. Len(s) - 1 /\ 1 + 1 = 2 /\ 2 \in 1 .. Len(s)
  <2>1. Len(s) >= 2
    <3>1. PICK n \in Nat : n = Len(s)
      BY <1>1
    <3>2. n >= 1 /\ n # 1
      BY <3>1, <1>1, <1>3
    <3> QED BY <3>1, <3>2
  <2> QED BY <2>1, <1>1
<1>5. Above(s[1], s[2])
  BY <1>4 DEF Shape
<1>6. s[2].m = s[1].m /\ s[2].fn \in Follows /\ (s[1].fn = "dereg" => s[2].fn = "dispose")
  BY <1>5 DEF Above, Leads, Ends, Follows
<1>7. Tail(s) # <<>> /\ Tail(s)[1] = s[2]
  <2>1. Len(Tail(s)) = Len(s) - 1 /\ Tail(s)[1] = s[1 + 1]
    BY <1>4, Under
  <2>2. Len(Tail(s)) # 0
    BY <2>1, <1>4
  <2>3. Tail(s) # <<>>
    BY <2>2, Under, Filled
  <2>4. Tail(s)[1] = s[2]
    BY <2>1, <1>4
  <2> QED BY <2>3, <2>4
<1>8. ASSUME NEW k \in 2 .. Len(s), s[k].m = s[1].m PROVE s[k].fn \in Follows
  <2>1. k \in 1 .. Len(s) /\ 1 < k
    BY <1>1
  <2> QED BY <2>1, <1>1, <1>8 DEF Shape
<1> QED BY <1>2, <1>4, <1>6, <1>7, <1>8

-----------------------------------------------------------------------------
(* The inductive invariant *)

\* The file of m is open and its definition has been found.
OpenFile(m) == mod[m].def = mod[m].handle /\ mod[m].def \in Files
NotRegistered(m) == mod[m].state # "REGISTERED"

\* What a call on the C stack may rely on about its module.
Facts(a) ==
    /\ a.m \in alive /\ a.m \notin Listed
    /\ a.fn = "open" => mod[a.m].handle = None /\ mod[a.m].def = None /\ mod[a.m].path \in Files
    /\ a.fn \in {"register", "reg", "insert", "dereg"} => OpenFile(a.m)
    /\ a.fn \in {"open", "register", "reg", "fail", "free", "close"} => NotRegistered(a.m)
    /\ a.fn = "unload" => NotRegistered(a.m) \/ (debt[a.m] = 1 /\ OpenFile(a.m))
    /\ a.fn = "insert" => debt[a.m] = 1 /\ ~NotRegistered(a.m)
    /\ a.fn = "dereg" => debt[a.m] = 0

FactsHold == \A k \in 1 .. Len(frames) : frames[k].fn # "config" => Facts(frames[k])

\* When a module is unloaded for the second time, and when what is left of it is
\* disposed of, it has been deregistered.
Depths ==
    /\ \A k \in 2 .. Len(frames) : frames[k].fn = "unload" => NotRegistered(frames[k].m)
    /\ Calling("dispose") => NotRegistered(On)

\* The module whose reg() has succeeded is there, with its file open, until dereg().
DebtOf(m) == debt[m] = 1 => m \in alive /\ ~NotRegistered(m) /\ mod[m].handle # None
Debts == \A m \in Mods : DebtOf(m)

\* The history of the ring has each module once, and those in it are registered.
Distinct == \A j, k \in 1 .. Len(order) : order[j] = order[k] => j = k
MemberOf(m) == m \in Listed => m \in alive /\ ~NotRegistered(m) /\ debt[m] = 1 /\ OpenFile(m)
Members == \A m \in Mods : MemberOf(m)

\* The modules that are registered and those that are about to be.
Present == Listed \cup {frames[k].m : k \in {k \in 1 .. Len(frames) : frames[k].fn \in {"register", "reg", "insert"}}}

\* Of two that are of the file of a singleton, one was opened from the reg() of the other.
OneEach ==
    \A m, n \in Present :
        mod[m].def = mod[n].def /\ Def[mod[m].def].singleton /\ m # n =>
            m \in mod[n].within \/ n \in mod[m].within

\* The lines of the text that have been read; what is left is the end of it, and all
\* of them but the last have been answered.
Used == {k \in 1 .. Len(given) - Len(config) : given[k] # None}
LinesRead ==
    frames # <<>> /\ frames[Len(frames)].fn = "config" =>
        /\ Len(config) <= Len(given)
        /\ \A k \in 1 .. Len(config) : config[k] = given[Len(given) - Len(config) + k]
        /\ Cardinality(Used) = Len(served) + IF Len(frames) = 1 /\ ret = 0 THEN 0 ELSE 1

MInv ==
    /\ ModTypeOK
    /\ StackShape /\ FactsHold /\ Depths
    /\ Debts
    /\ RingHolds /\ Distinct /\ Members
    /\ HandlesBalanced
    /\ OneEach /\ LinesRead

\* The call on top of the C stack.
LEMMA Top ==
    ASSUME StackShape, NEW fn \in Ends \cup Leads, Calling(fn)
    PROVE  /\ frames # <<>> /\ frames \in Seq(FrameType) /\ Shape(frames) /\ frames[1].fn = fn
           /\ Tail(frames) \in Seq(FrameType)
           /\ 1 \in 1 .. Len(frames) /\ On \in Mods /\ frames[1].m = On /\ frames[1].val = Arg
           /\ fn \in {"open", "register", "reg"} => Arg \in STRING \cup {None}
           /\ fn \in {"fail", "free"} => Arg \in Int
           /\ fn = "fail" => Arg # 0
<1>1. frames # <<>> /\ frames \in Seq(FrameType) /\ Shape(frames) /\ frames[1].fn = fn
  BY DEF StackShape, Calling
<1>2. 1 \in 1 .. Len(frames) /\ frames[1] \in FrameType /\ Tail(frames) \in Seq(FrameType)
  BY <1>1, Under
<1>3. Typed(frames[1])
  BY <1>1, <1>2 DEF Shape
<1>4. On \in Mods
  <2>1. frames[1].m \in Mods \cup {None}
    BY <1>2 DEF FrameType
  <2> QED BY <1>1, <1>3, <2>1 DEF Typed, Ends, Leads, On
<1> QED BY <1>1, <1>2, <1>3, <1>4 DEF Typed, On, Arg

\* What is below the call on top when it returns.
LEMMA PopShape == ASSUME StackShape, frames # <<>>, Call(<<>>) PROVE StackShape' /\ frames' = Tail(frames)
<1>1. frames \in Seq(FrameType) /\ Shape(frames) /\ Tail(frames) \in Seq(FrameType)
  BY Under DEF StackShape
<1>2. frames' = Tail(frames)
  BY <1>1 DEF Call
<1>3. Shape(Tail(frames))
  BY <1>1, TailShape
<1> QED BY <1>1, <1>2, <1>3 DEF StackShape, Shape

\* The call on top, if it is not one of those that lead to the end, goes on as another.
LEMMA OneShape ==
    ASSUME StackShape, frames # <<>>, frames[1].fn \in Ends, NEW c \in FrameType, Call(<<c>>),
           c.fn \in Ends \ {"dispose"}, Typed(c), c.m = On, c.fn \in {"fail", "free"} => c.val # 0
    PROVE  StackShape' /\ frames' = <<c>> \o Tail(frames)
<1>1. frames \in Seq(FrameType) /\ Shape(frames) /\ c.m = frames[1].m
  BY DEF StackShape, On
<1>2. frames' = <<c>> \o Tail(frames)
  BY DEF Call
<1>3. frames' \in Seq(FrameType) /\ Shape(frames')
  BY <1>1, <1>2, OneReplaced
<1> QED BY <1>2, <1>3 DEF StackShape, Shape

\* The calls that lead to the end.
LEMMA LeadShape ==
    ASSUME StackShape, frames # <<>>, frames[1].fn \in Leads, NEW c \in FrameType, Call(<<c>>),
           c.fn \in Leads, Typed(c), c.m = On, c.fn = "dereg" => frames[2].fn = "dispose"
    PROVE  StackShape' /\ frames' = <<c>> \o Tail(frames)
<1>1. frames \in Seq(FrameType) /\ Shape(frames) /\ c.m = frames[1].m
  BY DEF StackShape, On
<1>2. frames' = <<c>> \o Tail(frames)
  BY DEF Call
<1>3. Above(c, frames[2])
  <2>1. frames[2].m = c.m /\ frames[2].fn \in Follows
    BY <1>1, LeadOver
  <2> QED BY <2>1 DEF Above, Leads
<1>4. frames' \in Seq(FrameType) /\ Shape(frames')
  BY <1>1, <1>2, <1>3, LeadReplaced
<1> QED BY <1>2, <1>4 DEF StackShape, Shape

\* A new call about a module that no other call is about.
LEMMA PushShape ==
    ASSUME StackShape, NEW c \in FrameType, frames' = <<c>> \o frames,
           c.fn \in (Ends \ {"dispose"}) \cup {"config"}, Typed(c),
           frames # <<>> => c.fn # "config" /\ frames[1].fn \in {"reg", "dereg", "config"},
           frames # <<>> /\ frames[1].fn = "config" => (c.fn \in {"fail", "free"} => c.val # 0),
           \A k \in 1 .. Len(frames) : frames[k].m # c.m
    PROVE  StackShape'
<1> DEFINE cs == <<c>>
<1>1. cs \in Seq(FrameType) /\ cs # <<>> /\ Len(cs) = 1 /\ cs[1] = c /\ frames' = cs \o frames
  OBVIOUS
<1>2. \A k \in 1 .. Len(cs) : k = 1
  BY <1>1
<1>3. (\A k \in 1 .. Len(cs) - 1 : FALSE) /\ \A j, k \in 1 .. Len(cs) : ~(j < k)
  BY <1>1
<1>4. frames \in Seq(FrameType) /\ Shape(frames)
  BY DEF StackShape
<1>5. frames # <<>> => Above(c, frames[1])
  BY DEF Above
<1>6. \A j \in 1 .. Len(cs), k \in 1 .. Len(frames) : cs[j].m # frames[k].m
  BY <1>1, <1>2
<1>7. cs[Len(cs)] = c /\ c.fn \in Ends \cup {"config"} /\ \A k \in 1 .. Len(cs) : Typed(cs[k])
  BY <1>1, <1>2
<1> HIDE DEF cs
<1>8. frames' \in Seq(FrameType) /\ Shape(frames')
  <2>1. frames # <<>> => Above(cs[Len(cs)], frames[1])
    BY <1>5, <1>7
  <2>2. \A j, k \in 1 .. Len(cs) : j < k /\ cs[j].m = cs[k].m => cs[j].fn \in Leads /\ cs[k].fn \in Follows
    BY <1>3
  <2>3. PICK t : t = cs \o frames
    OBVIOUS
  <2>4. \A k \in 1 .. Len(cs) - 1 : Above(cs[k], cs[k + 1])
    BY <1>3
  <2>5. frames = <<>> => cs[Len(cs)].fn \in Ends \cup {"config"}
    BY <1>7
  <2>6. \A j \in 1 .. Len(cs), k \in 1 .. Len(frames) :
          cs[j].m = frames[k].m => cs[j].fn \in Leads /\ frames[k].fn \in Follows
    BY <1>6
  <2>7. cs \in Seq(FrameType) /\ cs # <<>> /\ frames \in Seq(FrameType) /\ Shape(frames)
        /\ \A k \in 1 .. Len(cs) : Typed(cs[k])
    BY <1>1, <1>4, <1>7
  <2>8. t \in Seq(FrameType) /\ Shape(t)
    BY <2>1, <2>2, <2>3, <2>4, <2>5, <2>6, <2>7, JoinShape
  <2> QED BY <1>1, <2>3, <2>8
<1> QED BY <1>8 DEF StackShape, Shape

\* The call on top, that of a program, is to end with others about a module that no other call is about.
LEMMA PushTwoShape ==
    ASSUME StackShape, NEW m \in Mods,
           frames' = <<Frame("unload", m, None), Frame("dispose", m, None)>> \o frames,
           frames # <<>> => frames[1].fn \in {"reg", "dereg"},
           m # None, \A k \in 1 .. Len(frames) : frames[k].m # m
    PROVE  StackShape'
<1> DEFINE c1 == Frame("unload", m, None)
           c2 == Frame("dispose", m, None)
           cs == <<c1, c2>>
<1>0. /\ c1 \in FrameType /\ c1.fn = "unload" /\ c1.m = m
      /\ c2 \in FrameType /\ c2.fn = "dispose" /\ c2.m = m
  BY DEF Frame, FrameType, Ends, Leads
<1>t. Typed(c1) /\ Typed(c2) /\ Above(c1, c2)
  BY <1>0 DEF Typed, Above, Follows
<1> HIDE DEF c1, c2
<1>1. /\ cs \in Seq(FrameType) /\ cs # <<>> /\ Len(cs) = 2 /\ cs[1] = c1 /\ cs[2] = c2
  BY <1>0
<1>f. frames' = cs \o frames
  BY DEF c1, c2
<1>2. \A k \in 1 .. Len(cs) : k = 1 \/ k = 2
  BY <1>1
<1>3. \A k \in 1 .. Len(cs) - 1 : k = 1
  BY <1>1
<1>3a. \A j, k \in 1 .. Len(cs) : j < k => j = 1 /\ k = 2
  BY <1>1
<1>4. frames \in Seq(FrameType) /\ Shape(frames)
  BY DEF StackShape
<1>5. frames # <<>> => Above(c2, frames[1])
  BY <1>0 DEF Above, Ends
<1>6. \A j \in 1 .. Len(cs), k \in 1 .. Len(frames) : cs[j].m # frames[k].m
  BY <1>0, <1>1, <1>2
<1>7. cs[Len(cs)] = c2 /\ c2.fn \in Ends \cup {"config"} /\ \A k \in 1 .. Len(cs) : Typed(cs[k])
  BY <1>0, <1>t, <1>1, <1>2 DEF Ends
<1> HIDE DEF cs
<1>8. \A k \in 1 .. Len(cs) - 1 : Above(cs[k], cs[k + 1])
  <2>1. 1 + 1 = 2
    OBVIOUS
  <2> QED BY <1>3, <1>1, <1>t, <2>1
<1>9. \A j, k \in 1 .. Len(cs) :
          j < k /\ cs[j].m = cs[k].m => cs[j].fn \in Leads /\ cs[k].fn \in Follows
  BY <1>3a, <1>1, <1>0 DEF Leads, Follows
<1>10. frames' \in Seq(FrameType) /\ Shape(frames')
  <2>1. frames # <<>> => Above(cs[Len(cs)], frames[1])
    BY <1>5, <1>7
  <2>3. PICK t : t = cs \o frames
    OBVIOUS
  <2>5. frames = <<>> => cs[Len(cs)].fn \in Ends \cup {"config"}
    BY <1>7
  <2>6. \A j \in 1 .. Len(cs), k \in 1 .. Len(frames) :
          cs[j].m = frames[k].m => cs[j].fn \in Leads /\ frames[k].fn \in Follows
    BY <1>6
  <2>7. cs \in Seq(FrameType) /\ cs # <<>> /\ frames \in Seq(FrameType) /\ Shape(frames)
        /\ \A k \in 1 .. Len(cs) : Typed(cs[k])
    BY <1>1, <1>4, <1>7
  <2>8. t \in Seq(FrameType) /\ Shape(t)
    BY <2>1, <2>3, <2>5, <2>6, <2>7, <1>8, <1>9, JoinShape
  <2> QED BY <1>f, <2>3, <2>8
<1> QED BY <1>10 DEF StackShape, Shape

-----------------------------------------------------------------------------
(* The ring as a list: what insertion and removal do to it *)

\* The node at a place of the ring that has the modules of s: the chain is before
\* the first and after the last.
At(s, k) == IF k \in 1 .. Len(s) THEN s[k] ELSE Chain

\* RingHolds, of any ring and order.
InOrder(r, s) ==
    /\ \A k \in 0 .. Len(s) : r.next[At(s, k)] = At(s, k + 1) /\ r.prev[At(s, k + 1)] = At(s, k)
    /\ \A m \in Mods : r.next[m] # m <=> \E k \in 1 .. Len(s) : s[k] = m
    /\ \A m \in Mods : r.next[m] = m <=> r.prev[m] = m
    /\ \A j, k \in 1 .. Len(s) : s[j] = s[k] => j = k

\* The ring and its history, as the list that both of them are.
LEMMA RingInOrder == ASSUME ModTypeOK PROVE RingHolds /\ Distinct <=> InOrder(ring, order)
<1>1. Holds(ring, Chain, order, Len(order)) <=>
        \A k \in 0 .. Len(order) : ring.next[At(order, k)] = At(order, k + 1) /\ ring.prev[At(order, k + 1)] = At(order, k)
  BY DEF Holds, At
<1>2.
      (Listed = {order[k] : k \in 1 .. Len(order)}) <=>
        \A m \in Mods : ring.next[m] # m <=> \E k \in 1 .. Len(order) : order[k] = m
  <2>1. Listed \subseteq Mods /\ \A m \in Mods : m \in Listed <=> ring.next[m] # m
    BY DEF Listed, Single
  <2>2. \A k \in 1 .. Len(order) : order[k] \in Mods
    BY DEF ModTypeOK
  <2> QED BY <2>1, <2>2
<1> QED BY <1>1, <1>2 DEF RingHolds, Distinct, InOrder

\* Types, and that places of the ring are different.
LEMMA Places ==
    ASSUME NEW s \in Seq(Mods), \A j, k \in 1 .. Len(s) : s[j] = s[k] => j = k
    PROVE  /\ Len(s) \in Nat
           /\ \A k \in 1 .. Len(s) : At(s, k) = s[k] /\ At(s, k) \in Mods /\ At(s, k) # Chain
           /\ At(s, 0) = Chain /\ At(s, Len(s) + 1) = Chain
           /\ \A k \in Int : At(s, k) \in Nodes
           /\ \A j, k \in 0 .. Len(s) : At(s, j) = At(s, k) => j = k
           /\ \A j, k \in 1 .. Len(s) + 1 : At(s, j) = At(s, k) => j = k
<1>1. Len(s) \in Nat /\ Chain \notin Mods
  BY ModuleAssumption
<1>2. \A k \in 1 .. Len(s) : At(s, k) = s[k] /\ At(s, k) \in Mods
  BY DEF At
<1>3. At(s, 0) = Chain /\ At(s, Len(s) + 1) = Chain
  BY <1>1 DEF At
<1>4. \A k \in Int : At(s, k) \in Nodes
  BY DEF At, Nodes
<1>5. \A j, k \in 0 .. Len(s) : At(s, j) = At(s, k) => j = k
  BY <1>1, <1>2, <1>3
<1>6. \A j, k \in 1 .. Len(s) + 1 : At(s, j) = At(s, k) => j = k
  BY <1>1, <1>2, <1>3
<1> QED BY <1>1, <1>2, <1>3, <1>4, <1>5, <1>6

\* A ring is its two arrays of pointers.
LEMMA RingFields ==
    ASSUME NEW r \in Rings(Nodes)
    PROVE  /\ r.next \in [Nodes -> Nodes] /\ r.prev \in [Nodes -> Nodes]
           /\ r = [next |-> r.next, prev |-> r.prev]
BY DEF Rings

\* What is done to a node that is not in the ring changes nothing.
LEMMA LoneNode ==
    ASSUME NEW r \in Rings(Nodes), NEW m \in Nodes, r.next[m] = m, r.prev[m] = m
    PROVE  Alone(r, m) = r /\ Removed(r, m) = r
<1>1. r.next \in [Nodes -> Nodes] /\ r.prev \in [Nodes -> Nodes] /\ r = [next |-> r.next, prev |-> r.prev]
  BY RingFields
<1>2. [r.next EXCEPT ![m] = m] = r.next /\ [r.prev EXCEPT ![m] = m] = r.prev
  BY <1>1
<1>3. /\ [r.next EXCEPT ![r.prev[m]] = r.next[m], ![m] = m] = r.next
      /\ [r.prev EXCEPT ![r.next[m]] = r.prev[m], ![m] = m] = r.prev
  BY <1>1
<1> QED BY <1>1, <1>2, <1>3 DEF Alone, Removed

\* The order after m has been registered.
Appended(s, m, s2) == s2 = Append(s, m)

\* A module that is inserted before the chain is the last one.
LEMMA InsertLast ==
    ASSUME NEW r \in Rings(Nodes), NEW s \in Seq(Mods), InOrder(r, s), NEW m \in Mods, r.next[m] = m,
           NEW r2, r2 = InsertedBefore(r, Chain, m), NEW s2, Appended(s, m, s2)
    PROVE  /\ r2 \in Rings(Nodes) /\ s2 \in Seq(Mods) /\ InOrder(r2, s2)
           /\ \A x \in Mods : r2.next[x] # x <=> x = m \/ r.next[x] # x
<1> DEFINE n == Len(s)
           p == r.prev[Chain]
<1>1. r.next \in [Nodes -> Nodes] /\ r.prev \in [Nodes -> Nodes] /\ m \in Nodes /\ Chain \in Nodes /\ Mods \subseteq Nodes
  BY RingFields DEF Nodes
<1>2. /\ \A k \in 0 .. n : r.next[At(s, k)] = At(s, k + 1) /\ r.prev[At(s, k + 1)] = At(s, k)
      /\ \A x \in Mods : r.next[x] # x <=> \E k \in 1 .. n : s[k] = x
      /\ \A x \in Mods : r.next[x] = x <=> r.prev[x] = x
      /\ \A j, k \in 1 .. n : s[j] = s[k] => j = k
  BY DEF InOrder
<1>3. /\ n \in Nat
      /\ \A k \in 1 .. n : At(s, k) = s[k] /\ At(s, k) \in Mods /\ At(s, k) # Chain
      /\ At(s, 0) = Chain /\ At(s, n + 1) = Chain
      /\ \A k \in Int : At(s, k) \in Nodes
      /\ \A j, k \in 0 .. n : At(s, j) = At(s, k) => j = k
  BY <1>2, Places
<1>4. p = At(s, n)
  BY <1>2, <1>3
<1>5. m # Chain /\ m # p /\ \A k \in 0 .. n : At(s, k) # m
  BY <1>2, <1>3, <1>4, ModuleAssumption
<1>6. /\ r2.next = [r.next EXCEPT ![m] = Chain, ![p] = m]
      /\ r2.prev = [r.prev EXCEPT ![m] = p, ![Chain] = m]
      /\ r2 = [next |-> r2.next, prev |-> r2.prev]
  BY DEF InsertedBefore
<1>7. p \in Nodes
  BY <1>1
<1> HIDE DEF n, p
<1>8. /\ r2.next \in [Nodes -> Nodes] /\ r2.prev \in [Nodes -> Nodes]
      /\ r2.next[m] = Chain /\ r2.next[p] = m /\ \A x \in Nodes \ {m, p} : r2.next[x] = r.next[x]
      /\ r2.prev[m] = p /\ r2.prev[Chain] = m /\ \A x \in Nodes \ {m, Chain} : r2.prev[x] = r.prev[x]
  <2>1. /\ r2.next \in [Nodes -> Nodes]
        /\ r2.next[m] = Chain /\ r2.next[p] = m /\ \A x \in Nodes \ {m, p} : r2.next[x] = r.next[x]
    <3> DEFINE f == r.next
    <3>1. f \in [Nodes -> Nodes] /\ r2.next = [f EXCEPT ![m] = Chain, ![p] = m]
      BY <1>1, <1>6
    <3> HIDE DEF f
    <3>2. \A x \in Nodes \ {m, p} : r2.next[x] = f[x]
      BY <3>1
    <3>3. r2.next \in [Nodes -> Nodes] /\ r2.next[m] = Chain /\ r2.next[p] = m
      BY <3>1, <1>1, <1>5, <1>7
    <3> QED BY <3>2, <3>3 DEF f
  <2>2. /\ r2.prev \in [Nodes -> Nodes]
        /\ r2.prev[m] = p /\ r2.prev[Chain] = m /\ \A x \in Nodes \ {m, Chain} : r2.prev[x] = r.prev[x]
    <3> DEFINE f == r.prev
    <3>1. f \in [Nodes -> Nodes] /\ r2.prev = [f EXCEPT ![m] = p, ![Chain] = m]
      BY <1>1, <1>6
    <3> HIDE DEF f
    <3>2. \A x \in Nodes \ {m, Chain} : r2.prev[x] = f[x]
      BY <3>1
    <3>3. r2.prev \in [Nodes -> Nodes] /\ r2.prev[m] = p /\ r2.prev[Chain] = m
      BY <3>1, <1>1, <1>5, <1>7
    <3> QED BY <3>2, <3>3 DEF f
  <2> QED BY <2>1, <2>2
<1>9. r2 \in Rings(Nodes)
  BY <1>6, <1>8 DEF Rings
<1>10. s2 \in Seq(Mods) /\ Len(s2) = n + 1 /\ s2[n + 1] = m /\ \A k \in 1 .. n : s2[k] = s[k]
  BY DEF n, Appended
<1>11. /\ \A k \in 0 .. n : At(s2, k) = At(s, k)
       /\ At(s2, n + 1) = m /\ At(s2, n + 2) = Chain
  <2>1. \A k \in 1 .. n : At(s2, k) = At(s, k)
    BY <1>10, <1>3 DEF At
  <2>2. At(s2, 0) = Chain /\ At(s2, n + 1) = m /\ At(s2, n + 2) = Chain
    BY <1>10, <1>3 DEF At
  <2> QED BY <2>1, <2>2, <1>3
<1>12. ASSUME NEW k \in 0 .. n + 1
       PROVE  r2.next[At(s2, k)] = At(s2, k + 1) /\ r2.prev[At(s2, k + 1)] = At(s2, k)
  <2>1. CASE k < n
    <3>1. k \in 0 .. n /\ k + 1 \in 1 .. n /\ n \in 0 .. n /\ k # n /\ k + 1 \in 0 .. n
      BY <2>1, <1>3
    <3>2. At(s, k) # p /\ At(s, k) # m /\ At(s, k) \in Nodes
      BY <3>1, <1>3, <1>4, <1>5
    <3>3. At(s, k + 1) # Chain /\ At(s, k + 1) # m /\ At(s, k + 1) \in Nodes
      BY <3>1, <1>3, <1>5
    <3>4. r2.next[At(s, k)] = At(s, k + 1) /\ r2.prev[At(s, k + 1)] = At(s, k)
      BY <3>1, <3>2, <3>3, <1>2, <1>8 DEF n
    <3> QED BY <3>1, <3>4, <1>11
  <2>2. CASE k = n
    <3>1. At(s2, k) = p /\ At(s2, k + 1) = m
      BY <2>2, <1>3, <1>4, <1>11
    <3> QED BY <3>1, <1>8
  <2>3. CASE k = n + 1
    <3>1. At(s2, k) = m /\ At(s2, k + 1) = Chain
      BY <2>3, <1>3, <1>11
    <3> QED BY <3>1, <1>8
  <2> QED BY <2>1, <2>2, <2>3, <1>3
<1>13. p = Chain \/ (p \in Mods /\ r.next[p] # p /\ \E k \in 1 .. n : s[k] = p)
  <2>1. CASE n = 0
    BY <2>1, <1>3, <1>4
  <2>2. CASE n # 0
    <3>1. n \in 1 .. n
      BY <2>2, <1>3
    <3>2. p = s[n] /\ p \in Mods
      BY <3>1, <1>3, <1>4
    <3> QED BY <3>1, <3>2, <1>2 DEF n
  <2> QED BY <2>1, <2>2
<1>14. ASSUME NEW x \in Mods
       PROVE  /\ r2.next[x] # x <=> \E k \in 1 .. Len(s2) : s2[k] = x
              /\ r2.next[x] # x <=> x = m \/ r.next[x] # x
  <2>1. (\E k \in 1 .. Len(s2) : s2[k] = x) <=> (x = m \/ \E k \in 1 .. n : s[k] = x)
    <3>1. \A k \in 1 .. n + 1 : k = n + 1 \/ k \in 1 .. n
      BY <1>3
    <3>2. n + 1 \in 1 .. n + 1 /\ \A k \in 1 .. n : k \in 1 .. n + 1
      BY <1>3
    <3> QED BY <3>1, <3>2, <1>10
  <2>2. r2.next[x] # x <=> (x = m \/ r.next[x] # x)
    <3>1. CASE x = m
      BY <3>1, <1>5, <1>8
    <3>2. CASE x # m /\ x = p
      <4>1. r.next[x] # x
        BY <3>2, <1>13, ModuleAssumption
      <4> QED BY <3>2, <4>1, <1>5, <1>8
    <3>3. CASE x # m /\ x # p
      BY <3>3, <1>1, <1>8
    <3> QED BY <3>1, <3>2, <3>3
  <2> QED BY <2>1, <2>2, <1>2 DEF n
<1>15. ASSUME NEW x \in Mods PROVE r2.next[x] = x <=> r2.prev[x] = x
  <2>1. x # Chain /\ x \in Nodes
    BY <1>1, ModuleAssumption
  <2>2. CASE x = m
    BY <2>2, <1>8, <1>5
  <2>3. CASE x # m /\ x = p
    BY <2>1, <2>3, <1>8, <1>13, <1>2
  <2>4. CASE x # m /\ x # p
    BY <2>1, <2>4, <1>8, <1>2
  <2> QED BY <2>2, <2>3, <2>4
<1>16. ASSUME NEW j \in 1 .. Len(s2), NEW k \in 1 .. Len(s2), s2[j] = s2[k] PROVE j = k
  <2>1. (j = n + 1 \/ j \in 1 .. n) /\ (k = n + 1 \/ k \in 1 .. n)
    BY <1>3, <1>10
  <2>2. \A i \in 1 .. n : s2[i] # m
    BY <1>3, <1>5, <1>10
  <2> QED BY <2>1, <2>2, <1>16, <1>2, <1>10 DEF n
<1> QED
  <2>1. \A k \in 0 .. Len(s2) : r2.next[At(s2, k)] = At(s2, k + 1) /\ r2.prev[At(s2, k + 1)] = At(s2, k)
    BY <1>12, <1>10
  <2> QED BY <2>1, <1>9, <1>10, <1>14, <1>15, <1>16 DEF InOrder

\* Each module is in s once, and d is s without the one at i.
Once(s) == \A j, k \in 1 .. Len(s) : s[j] = s[k] => j = k
Without(s, i, d) ==
    /\ d \in Seq(Mods) /\ Len(d) = Len(s) - 1
    /\ \A k \in 1 .. Len(s) - 1 : d[k] = IF k < i THEN s[k] ELSE s[k + 1]

\* The sequence of the modules without one of them.
LEMMA DropOne ==
    ASSUME NEW s \in Seq(Mods), Once(s), NEW i \in 1 .. Len(s), NEW d, d = Dropped(s, s[i])
    PROVE  Without(s, i, d)
<1>1. PICK n \in Nat : n = Len(s)
  OBVIOUS
<1>2. (CHOOSE j \in 1 .. Len(s) : s[j] = s[i]) = i
  BY DEF Once
<1>3. d = Drop(s, i)
  BY <1>2 DEF Dropped
<1>4. d = [k \in 1 .. n - 1 |-> IF k < i THEN s[k] ELSE s[k + 1]] /\ i \in 1 .. n
  BY <1>1, <1>3 DEF Drop
<1>5. \A k \in 1 .. n - 1 : k \in 1 .. n /\ k + 1 \in 1 .. n
  BY <1>1
<1>6. \A k \in 1 .. n : s[k] \in Mods
  BY <1>1
<1>7. d \in [1 .. n - 1 -> Mods] /\ n - 1 \in Nat
  <2>1. \A k \in 1 .. n - 1 : (IF k < i THEN s[k] ELSE s[k + 1]) \in Mods
    BY <1>5, <1>6
  <2>2. n - 1 \in Nat
    BY <1>4
  <2> QED BY <2>1, <2>2, <1>4
<1>8. d \in Seq(Mods) /\ Len(d) = n - 1
  BY <1>7
<1> QED BY <1>1, <1>4, <1>8 DEF Without

\* A module that is taken out.
LEMMA RemoveOne ==
    ASSUME NEW r \in Rings(Nodes), NEW s \in Seq(Mods), InOrder(r, s), NEW m \in Mods, r.next[m] # m,
           NEW r2, r2 = Removed(r, m), NEW d, d = Dropped(s, m)
    PROVE  /\ r2 \in Rings(Nodes) /\ d \in Seq(Mods) /\ InOrder(r2, d)
           /\ r2.next[m] = m /\ \A x \in Mods \ {m} : r2.next[x] = x <=> r.next[x] = x
<1> DEFINE n == Len(s)
           p == r.prev[m]
           q == r.next[m]
<1>1. r.next \in [Nodes -> Nodes] /\ r.prev \in [Nodes -> Nodes] /\ m \in Nodes /\ Chain \in Nodes
      /\ Mods \subseteq Nodes /\ m # Chain
  BY RingFields, ModuleAssumption DEF Nodes
<1>2. /\ \A k \in 0 .. n : r.next[At(s, k)] = At(s, k + 1) /\ r.prev[At(s, k + 1)] = At(s, k)
      /\ \A x \in Mods : r.next[x] # x <=> \E k \in 1 .. n : s[k] = x
      /\ \A x \in Mods : r.next[x] = x <=> r.prev[x] = x
      /\ \A j, k \in 1 .. n : s[j] = s[k] => j = k
  BY DEF InOrder
<1>3. /\ n \in Nat
      /\ \A k \in 1 .. n : At(s, k) = s[k] /\ At(s, k) \in Mods /\ At(s, k) # Chain
      /\ At(s, 0) = Chain /\ At(s, n + 1) = Chain
      /\ \A k \in Int : At(s, k) \in Nodes
      /\ \A j, k \in 0 .. n : At(s, j) = At(s, k) => j = k
      /\ \A j, k \in 1 .. n + 1 : At(s, j) = At(s, k) => j = k
  BY <1>2, Places
<1>4. PICK i \in 1 .. n : s[i] = m
  BY <1>2
<1>5. /\ i - 1 \in 0 .. n /\ i \in 0 .. n /\ i + 1 \in 1 .. n + 1 /\ (i - 1) + 1 = i
      /\ At(s, i) = m /\ p = At(s, i - 1) /\ q = At(s, i + 1)
  <2>1. i - 1 \in 0 .. n /\ i \in 0 .. n /\ i + 1 \in 1 .. n + 1 /\ (i - 1) + 1 = i
    BY <1>3
  <2>2. At(s, i) = m
    BY <1>3, <1>4
  <2>3. r.prev[At(s, (i - 1) + 1)] = At(s, i - 1)
    BY <2>1, <1>2
  <2> QED BY <2>1, <2>2, <2>3, <1>2 DEF n
<1>6. p # m /\ q # m /\ p \in Nodes /\ q \in Nodes
  BY <1>1, <1>2
<1>7. /\ r2.next = [r.next EXCEPT ![p] = q, ![m] = m]
      /\ r2.prev = [r.prev EXCEPT ![q] = p, ![m] = m]
      /\ r2 = [next |-> r2.next, prev |-> r2.prev]
  BY DEF Removed
<1>8. /\ d \in Seq(Mods) /\ Len(d) = n - 1
      /\ \A k \in 1 .. n - 1 : d[k] = IF k < i THEN s[k] ELSE s[k + 1]
  <2>1. d = Dropped(s, s[i]) /\ i \in 1 .. Len(s)
    BY <1>4
  <2>2. Once(s)
    BY DEF InOrder, Once
  <2>3. Without(s, i, d)
    BY <2>1, <2>2, DropOne
  <2> QED BY <2>3 DEF Without
<1> HIDE DEF n, p, q
<1>9. /\ r2.next \in [Nodes -> Nodes] /\ r2.prev \in [Nodes -> Nodes]
      /\ r2.next[m] = m /\ r2.next[p] = q /\ \A x \in Nodes \ {m, p} : r2.next[x] = r.next[x]
      /\ r2.prev[m] = m /\ r2.prev[q] = p /\ \A x \in Nodes \ {m, q} : r2.prev[x] = r.prev[x]
  <2>1. /\ r2.next \in [Nodes -> Nodes]
        /\ r2.next[m] = m /\ r2.next[p] = q /\ \A x \in Nodes \ {m, p} : r2.next[x] = r.next[x]
    <3> DEFINE f == r.next
    <3>1. f \in [Nodes -> Nodes] /\ r2.next = [f EXCEPT ![p] = q, ![m] = m]
      BY <1>1, <1>7
    <3> HIDE DEF f
    <3>2. \A x \in Nodes \ {m, p} : r2.next[x] = f[x]
      BY <3>1
    <3>3. r2.next \in [Nodes -> Nodes] /\ r2.next[m] = m /\ r2.next[p] = q
      BY <3>1, <1>1, <1>6
    <3> QED BY <3>2, <3>3 DEF f
  <2>2. /\ r2.prev \in [Nodes -> Nodes]
        /\ r2.prev[m] = m /\ r2.prev[q] = p /\ \A x \in Nodes \ {m, q} : r2.prev[x] = r.prev[x]
    <3> DEFINE f == r.prev
    <3>1. f \in [Nodes -> Nodes] /\ r2.prev = [f EXCEPT ![q] = p, ![m] = m]
      BY <1>1, <1>7
    <3> HIDE DEF f
    <3>2. \A x \in Nodes \ {m, q} : r2.prev[x] = f[x]
      BY <3>1
    <3>3. r2.prev \in [Nodes -> Nodes] /\ r2.prev[m] = m /\ r2.prev[q] = p
      BY <3>1, <1>1, <1>6
    <3> QED BY <3>2, <3>3 DEF f
  <2> QED BY <2>1, <2>2
<1>10. r2 \in Rings(Nodes)
  BY <1>7, <1>9 DEF Rings
<1>11. /\ \A k \in 0 .. i - 1 : At(d, k) = At(s, k)
       /\ \A k \in i .. n : At(d, k) = At(s, k + 1)
  <2>1. ASSUME NEW k \in 0 .. i - 1 PROVE At(d, k) = At(s, k)
    <3>1. CASE k = 0
      BY <3>1, <1>3, <1>8 DEF At
    <3>2. CASE k # 0
      <4>1. k \in 1 .. n - 1 /\ k \in 1 .. n /\ k < i
        BY <3>2, <1>3
      <4>2. At(d, k) = d[k] /\ d[k] = s[k]
        BY <4>1, <1>8 DEF At
      <4> QED BY <4>1, <4>2, <1>3
    <3> QED BY <3>1, <3>2
  <2>2. ASSUME NEW k \in i .. n PROVE At(d, k) = At(s, k + 1)
    <3>1. CASE k = n
      <4>1. k \notin 1 .. Len(d) /\ At(s, k + 1) = Chain
        BY <3>1, <1>3, <1>8
      <4> QED BY <4>1 DEF At
    <3>2. CASE k # n
      <4>1. k \in 1 .. n - 1 /\ k + 1 \in 1 .. n /\ ~(k < i)
        BY <3>2, <1>3
      <4>2. At(d, k) = d[k] /\ d[k] = s[k + 1]
        BY <4>1, <1>8 DEF At
      <4> QED BY <4>1, <4>2, <1>3
    <3> QED BY <3>1, <3>2
  <2> QED BY <2>1, <2>2
<1>12. ASSUME NEW k \in 0 .. n - 1
       PROVE  r2.next[At(d, k)] = At(d, k + 1) /\ r2.prev[At(d, k + 1)] = At(d, k)
  <2>0. k \in Nat /\ k \in Int /\ k + 1 \in Int /\ k + 2 \in Int
    BY <1>3
  <2>1. CASE k < i - 1
    <3>1. /\ k \in 0 .. i - 1 /\ k + 1 \in 0 .. i - 1 /\ k \in 0 .. n /\ k # i - 1 /\ k # i
          /\ k + 1 \in 1 .. n + 1 /\ k + 1 # i + 1 /\ k + 1 # i /\ k + 1 \in 0 .. n
      BY <2>1, <1>3
    <3>2. At(s, k) # p /\ At(s, k) # m /\ At(s, k) \in Nodes
      BY <3>1, <2>0, <1>3, <1>5
    <3>3. At(s, k + 1) # q /\ At(s, k + 1) # m /\ At(s, k + 1) \in Nodes
      BY <3>1, <2>0, <1>3, <1>5
    <3>4. r2.next[At(s, k)] = At(s, k + 1) /\ r2.prev[At(s, k + 1)] = At(s, k)
      BY <3>1, <3>2, <3>3, <1>2, <1>9
    <3> QED BY <3>1, <3>4, <1>11
  <2>2. CASE k = i - 1
    <3>1. k \in 0 .. i - 1 /\ k + 1 = i /\ i \in i .. n
      BY <2>2, <1>3
    <3>2. At(d, k) = p /\ At(d, k + 1) = q
      BY <2>2, <3>1, <1>11, <1>5
    <3> QED BY <3>2, <1>9
  <2>3. CASE k > i - 1
    <3>1. /\ k \in i .. n /\ k + 1 \in i .. n /\ k + 1 \in 0 .. n /\ (k + 1) + 1 = k + 2
          /\ k + 1 # i - 1 /\ k + 1 # i
          /\ k + 2 \in 1 .. n + 1 /\ k + 2 # i + 1 /\ k + 2 # i /\ i \in 1 .. n + 1
      BY <2>3, <1>3
    <3>2. At(s, k + 1) # p /\ At(s, k + 1) # m /\ At(s, k + 1) \in Nodes
      BY <3>1, <2>0, <1>3, <1>5
    <3>3. At(s, k + 2) # q /\ At(s, k + 2) # m /\ At(s, k + 2) \in Nodes
      BY <3>1, <2>0, <1>3, <1>5
    <3>4. r.next[At(s, k + 1)] = At(s, k + 2) /\ r.prev[At(s, k + 2)] = At(s, k + 1)
      BY <3>1, <1>2
    <3>5. r2.next[At(s, k + 1)] = At(s, k + 2) /\ r2.prev[At(s, k + 2)] = At(s, k + 1)
      BY <3>2, <3>3, <3>4, <1>9
    <3>6. At(d, k) = At(s, k + 1) /\ At(d, k + 1) = At(s, k + 2)
      BY <3>1, <1>11
    <3> QED BY <3>5, <3>6
  <2> QED BY <2>0, <2>1, <2>2, <2>3, <1>3
<1>13. p \in Mods => p # q
  <2>1. ASSUME p \in Mods, p = q PROVE FALSE
    <3>1. i - 1 # 0
      BY <2>1, <1>5, <1>3, ModuleAssumption
    <3>2. i - 1 \in 1 .. n + 1 /\ i - 1 # i + 1 /\ i + 1 \in 1 .. n + 1
      BY <3>1, <1>5, <1>3
    <3> QED BY <2>1, <3>2, <1>3, <1>5
  <2> QED BY <2>1
<1>14. /\ p \in Mods => r.next[p] # p
       /\ q \in Mods => r.next[q] # q
  <2>1. ASSUME p \in Mods PROVE r.next[p] # p
    <3>1. i - 1 # 0
      BY <2>1, <1>5, <1>3, ModuleAssumption
    <3>2. i - 1 \in 1 .. n
      BY <3>1, <1>5
    <3> QED BY <2>1, <3>2, <1>2, <1>3, <1>5
  <2>2. ASSUME q \in Mods PROVE r.next[q] # q
    <3>1. i + 1 # n + 1
      BY <2>2, <1>5, <1>3, ModuleAssumption
    <3>2. i + 1 \in 1 .. n
      BY <3>1, <1>5, <1>3
    <3> QED BY <2>2, <3>2, <1>2, <1>3, <1>5
  <2> QED BY <2>1, <2>2
<1>15. ASSUME NEW x \in Mods \ {m} PROVE r2.next[x] = x <=> r.next[x] = x
  <2>1. CASE x = p
    BY <2>1, <1>9, <1>13, <1>14
  <2>2. CASE x # p
    BY <2>2, <1>1, <1>9
  <2> QED BY <2>1, <2>2
<1>16. ASSUME NEW x \in Mods PROVE r2.next[x] = x <=> r2.prev[x] = x
  <2>1. CASE x = m
    BY <2>1, <1>9
  <2>2. CASE x # m /\ x = q
    <3>1. r2.prev[x] = p /\ r2.next[x] # x /\ x \in Mods \ {m}
      BY <2>2, <1>9, <1>14, <1>15
    <3>2. p # x
      BY <2>2, <1>13
    <3> QED BY <3>1, <3>2
  <2>3. CASE x # m /\ x # q
    <3>1. r2.prev[x] = r.prev[x] /\ x \in Mods \ {m}
      BY <2>3, <1>1, <1>9
    <3> QED BY <3>1, <1>2, <1>15
  <2> QED BY <2>1, <2>2, <2>3
<1>17. ASSUME NEW x \in Mods PROVE r2.next[x] # x <=> \E k \in 1 .. Len(d) : d[k] = x
  <2>1. CASE x = m
    <3>1. ASSUME NEW k \in 1 .. Len(d) PROVE d[k] # m
      <4>1. k \in 1 .. n - 1 /\ k \in 1 .. n /\ k + 1 \in 1 .. n /\ k \in Int /\ i \in Int
        BY <1>3, <1>8
      <4>2. CASE k < i
        <5>1. d[k] = s[k] /\ k # i
          BY <4>1, <4>2, <1>8
        <5> QED BY <5>1, <4>1, <1>2, <1>4
      <4>3. CASE ~(k < i)
        <5>1. d[k] = s[k + 1] /\ k + 1 # i
          BY <4>1, <4>3, <1>8
        <5> QED BY <5>1, <4>1, <1>2, <1>4
      <4> QED BY <4>2, <4>3
    <3> QED BY <3>1, <2>1, <1>9
  <2>2. CASE x # m
    <3>1. ASSUME NEW k \in 1 .. Len(d) PROVE \E j \in 1 .. n : s[j] = d[k]
      <4>1. k \in 1 .. n - 1 /\ k \in 1 .. n /\ k + 1 \in 1 .. n
        BY <1>3, <1>8
      <4> QED BY <4>1, <1>8
    <3>2. ASSUME NEW j \in 1 .. n, s[j] = x PROVE \E k \in 1 .. Len(d) : d[k] = x
      <4>1. j # i
        BY <3>2, <2>2, <1>4
      <4>2. CASE j < i
        <5>1. j \in 1 .. n - 1
          BY <4>2, <1>3
        <5> QED BY <5>1, <4>2, <3>2, <1>8
      <4>3. CASE j > i
        <5>1. j - 1 \in 1 .. n - 1 /\ ~(j - 1 < i) /\ (j - 1) + 1 = j
          BY <4>3, <1>3
        <5> QED BY <5>1, <3>2, <1>8
      <4> QED BY <4>1, <4>2, <4>3
    <3>3. (\E k \in 1 .. Len(d) : d[k] = x) <=> \E j \in 1 .. n : s[j] = x
      BY <3>1, <3>2
    <3> QED BY <3>3, <2>2, <1>2, <1>15
  <2> QED BY <2>1, <2>2
<1>18. ASSUME NEW j \in 1 .. Len(d), NEW k \in 1 .. Len(d), d[j] = d[k] PROVE j = k
  <2>1. /\ j \in 1 .. n - 1 /\ k \in 1 .. n - 1 /\ j \in Int /\ k \in Int /\ i \in Int
        /\ j \in 1 .. n /\ k \in 1 .. n /\ j + 1 \in 1 .. n /\ k + 1 \in 1 .. n
    BY <1>3, <1>8
  <2>2. CASE j < i /\ k < i
    <3>1. d[j] = s[j] /\ d[k] = s[k]
      BY <2>1, <2>2, <1>8
    <3>2. s[j] = s[k]
      BY <3>1, <1>18
    <3> QED BY <3>2, <2>1, <1>2
  <2>3. CASE j < i /\ ~(k < i)
    <3>1. s[j] = s[k + 1]
      BY <2>1, <2>3, <1>18, <1>8
    <3>2. j = k + 1
      BY <3>1, <2>1, <1>2
    <3> QED BY <3>2, <2>1, <2>3
  <2>4. CASE ~(j < i) /\ k < i
    <3>1. s[j + 1] = s[k]
      BY <2>1, <2>4, <1>18, <1>8
    <3>2. j + 1 = k
      BY <3>1, <2>1, <1>2
    <3> QED BY <3>2, <2>1, <2>4
  <2>5. CASE ~(j < i) /\ ~(k < i)
    <3>1. s[j + 1] = s[k + 1]
      BY <2>1, <2>5, <1>18, <1>8
    <3>2. j + 1 = k + 1
      BY <3>1, <2>1, <1>2
    <3> QED BY <3>2, <2>1
  <2> QED BY <2>2, <2>3, <2>4, <2>5
<1>19. \A k \in 0 .. Len(d) : r2.next[At(d, k)] = At(d, k + 1) /\ r2.prev[At(d, k + 1)] = At(d, k)
  BY <1>12, <1>8
<1> QED BY <1>8, <1>9, <1>10, <1>15, <1>16, <1>17, <1>18, <1>19 DEF InOrder

-----------------------------------------------------------------------------
(* A step about one module *)

\* Where modules are, and that no call is about one that has been freed or is in the ring.
LEMMA Whereabouts ==
    ASSUME MInv
    PROVE  /\ alive \subseteq Mods /\ None \notin Mods
           /\ \A m \in Mods : m \in Listed <=> ring.next[m] # m
           /\ \A m \in Mods : ring.next[m] = m <=> ring.prev[m] = m
           /\ \A m \in Mods \ alive : m \notin Listed
           /\ \A m \in Mods, k \in 1 .. Len(frames) : frames[k].m = m => m \in alive /\ m \notin Listed
<1>1. alive \subseteq Mods /\ None \notin Mods
  BY ModuleAssumption DEF MInv, ModTypeOK, Nodes
<1>2. \A m \in Mods : m \in Listed <=> ring.next[m] # m
  BY DEF Listed, Single
<1>3. \A m \in Mods : ring.next[m] = m <=> ring.prev[m] = m
  BY DEF MInv, RingHolds
<1>4. \A m \in Mods \ alive : m \notin Listed
  BY DEF MInv, Members, MemberOf
<1>5. ASSUME NEW m \in Mods, NEW k \in 1 .. Len(frames), frames[k].m = m PROVE m \in alive /\ m \notin Listed
  <2>1. Typed(frames[k])
    BY DEF MInv, StackShape, Shape
  <2>2. frames[k].fn # "config"
    BY <1>1, <1>5, <2>1 DEF Typed
  <2>3. Facts(frames[k])
    BY <2>2 DEF MInv, FactsHold
  <2> QED BY <2>3, <1>5 DEF Facts
<1> QED BY <1>1, <1>2, <1>3, <1>4, <1>5

\* A step that is about module m.
Others(m) ==
    \A x \in Mods \ {m} : /\ x \in alive' <=> x \in alive
                          /\ x \in Listed' <=> x \in Listed
                          /\ mod'[x] = mod[x] /\ debt'[x] = debt[x]

\* What is known of a module stays known while others are dealt with.
LEMMA FactsKept ==
    ASSUME NEW a, Facts(a), a.m \in alive', a.m \notin Listed', mod'[a.m] = mod[a.m], debt'[a.m] = debt[a.m]
    PROVE  Facts(a)'
BY DEF Facts, OpenFile, NotRegistered

\* What is known of the calls that are put on top, and of those that stay.
Pushes(m, cs, rest) ==
    /\ \A k \in 1 .. Len(rest) : /\ \E j \in 1 .. Len(frames) : frames[j] = rest[k]
                                 /\ rest[k].fn = "unload" => NotRegistered(rest[k].m)
                                 /\ rest[k].m = m => Facts(rest[k])'
                                 /\ rest[k].m = m /\ rest[k].fn = "unload" => NotRegistered(m)'
    /\ \A k \in 1 .. Len(cs) : cs[k].m = m /\ Facts(cs[k])'
    /\ \A k \in 2 .. Len(cs) : cs[k].fn = "unload" => NotRegistered(m)'
    /\ cs # <<>> => cs[1].fn # "dispose"
    /\ cs = <<>> /\ rest # <<>> /\ rest[1].fn = "dispose" => rest[1].m = m /\ NotRegistered(m)'

\* A step about one module, which changes the calls on top: what the invariant says of
\* all the others and of the calls below is kept.
LEMMA OneModule ==
    ASSUME MInv, NEW m \in Mods, Others(m), StackShape',
           NEW cs \in Seq(FrameType), NEW rest \in Seq(FrameType), frames' = cs \o rest,
           Pushes(m, cs, rest),
           DebtOf(m)', MemberOf(m)'
    PROVE  FactsHold' /\ Depths' /\ Debts' /\ Members'
<1>0. /\ \A k \in 1 .. Len(cs) : cs[k].m = m /\ Facts(cs[k])'
      /\ \A k \in 2 .. Len(cs) : cs[k].fn = "unload" => NotRegistered(m)'
      /\ cs # <<>> => cs[1].fn # "dispose"
      /\ cs = <<>> /\ rest # <<>> /\ rest[1].fn = "dispose" => rest[1].m = m /\ NotRegistered(m)'
  BY DEF Pushes
<1>a. ASSUME NEW k \in 1 .. Len(rest)
      PROVE  \E j \in 1 .. Len(frames) : frames[j] = rest[k]
  BY DEF Pushes
<1>b. ASSUME NEW k \in 1 .. Len(rest), rest[k].fn = "unload"
      PROVE  NotRegistered(rest[k].m) /\ (rest[k].m = m => NotRegistered(m)')
  BY <1>b DEF Pushes
<1>c. ASSUME NEW k \in 1 .. Len(rest), rest[k].m = m
      PROVE  Facts(rest[k])'
  BY <1>c DEF Pushes
<1>1. PICK s : s = frames'
  OBVIOUS
<1>2. /\ s \in Seq(FrameType) /\ Len(s) = Len(cs) + Len(rest) /\ Len(cs) \in Nat /\ Len(rest) \in Nat
      /\ \A k \in 1 .. Len(cs) : s[k] = cs[k]
      /\ \A k \in 1 .. Len(s) : k > Len(cs) => k - Len(cs) \in 1 .. Len(rest) /\ s[k] = rest[k - Len(cs)]
  BY <1>1, Joined
<1>3. ASSUME NEW k \in 1 .. Len(rest), rest[k].fn # "config" PROVE Facts(rest[k])'
  <2>1. CASE rest[k].m = m
    BY <1>c, <2>1
  <2>2. CASE rest[k].m # m
    <3>1. PICK j \in 1 .. Len(frames) : frames[j] = rest[k]
      BY <1>a
    <3>2. Facts(frames[j]) /\ frames[j].m \in Mods
      <4>1. Facts(frames[j])
        BY <1>3, <3>1 DEF MInv, FactsHold
      <4> QED BY <4>1, Whereabouts DEF Facts
    <3>3. PICK a : a = rest[k]
      OBVIOUS
    <3>4. Facts(a) /\ a.m \in Mods \ {m}
      BY <2>2, <3>1, <3>2, <3>3
    <3>5. a.m \in alive' /\ a.m \notin Listed' /\ mod'[a.m] = mod[a.m] /\ debt'[a.m] = debt[a.m]
      BY <3>4 DEF Others, Facts
    <3>6. Facts(a)'
      BY <3>4, <3>5, FactsKept
    <3> QED BY <3>3, <3>6
  <2> QED BY <2>1, <2>2
<1>4. FactsHold'
  <2>1. ASSUME NEW k \in 1 .. Len(s), s[k].fn # "config" PROVE Facts(s[k])'
    <3>1. CASE k > Len(cs)
      BY <3>1, <2>1, <1>2, <1>3
    <3>2. CASE k <= Len(cs)
      <4>1. k \in 1 .. Len(cs) /\ s[k] = cs[k]
        BY <3>2, <1>2
      <4> QED BY <1>0, <4>1
    <3> QED BY <3>1, <3>2, <1>2
  <2>2. ASSUME NEW k \in 1 .. Len(s), s[k].fn # "config" PROVE Facts(frames[k])'
    <3>1. Facts(s[k])' /\ frames'[k] = s[k]
      BY <2>1, <2>2, <1>1
    <3> QED BY <3>1 DEF Facts, OpenFile, NotRegistered
  <2> QED BY <2>2, <1>1 DEF FactsHold
<1>5. Depths'
  <2>1. ASSUME NEW k \in 2 .. Len(s), s[k].fn = "unload" PROVE NotRegistered(s[k].m)'
    <3>1. CASE k <= Len(cs)
      <4>1. k \in 2 .. Len(cs) /\ k \in 1 .. Len(cs) /\ s[k] = cs[k] /\ cs[k].m = m
        BY <1>0, <3>1, <1>2
      <4> QED BY <1>0, <4>1, <2>1
    <3>2. CASE k > Len(cs)
      <4>1. PICK i : i = k - Len(cs)
        OBVIOUS
      <4>2. k \in 1 .. Len(s) /\ i \in 1 .. Len(rest) /\ s[k] = rest[i]
        BY <3>2, <4>1, <1>2
      <4>3. PICK j \in 1 .. Len(frames) : frames[j] = rest[i]
        BY <1>a, <4>2
      <4>4. NotRegistered(rest[i].m)
        BY <1>b, <2>1, <4>2
      <4>5. CASE rest[i].m = m
        BY <1>b, <2>1, <4>2, <4>5
      <4>6. CASE rest[i].m # m
        <5>1. rest[i].m \in Mods
          <6>1. Facts(frames[j])
            BY <2>1, <4>2, <4>3 DEF MInv, FactsHold
          <6> QED BY <6>1, <4>3, Whereabouts DEF Facts
        <5> QED BY <5>1, <4>2, <4>4, <4>6 DEF Others, NotRegistered
      <4> QED BY <4>5, <4>6
    <3> QED BY <3>1, <3>2, <1>2
  <2>2. ASSUME s # <<>>, s[1].fn = "dispose" PROVE NotRegistered(s[1].m)'
    <3>1. cs = <<>>
      <4>1. ASSUME cs # <<>> PROVE FALSE
        <5>1. s[1] = cs[1]
          BY <4>1, <1>2
        <5> QED BY <1>0, <4>1, <5>1, <2>2
      <4> QED BY <4>1
    <3>2. s = rest
      BY <3>1, <1>1
    <3> QED BY <1>0, <3>1, <3>2, <2>2
  <2>3. (\A k \in 2 .. Len(frames) : frames[k].fn = "unload" => NotRegistered(frames[k].m))'
    BY <2>1, <1>1 DEF NotRegistered
  <2>4. (Calling("dispose") => NotRegistered(On))'
    BY <2>2, <1>1 DEF NotRegistered, Calling, On
  <2> QED BY <2>3, <2>4 DEF Depths
<1>6. Debts'
  <2>1. ASSUME NEW x \in Mods \ {m} PROVE DebtOf(x)'
    <3>1. DebtOf(x)
      BY DEF MInv, Debts
    <3> QED BY <3>1 DEF DebtOf, Others, NotRegistered
  <2> QED BY <2>1 DEF Debts
<1>7. Members'
  <2>1. ASSUME NEW x \in Mods \ {m} PROVE MemberOf(x)'
    <3>1. MemberOf(x)
      BY DEF MInv, Members
    <3> QED BY <3>1 DEF MemberOf, Others, NotRegistered, OpenFile
  <2> QED BY <2>1 DEF Members
<1> QED BY <1>4, <1>5, <1>6, <1>7

\* The parts of the invariant that say what the calls and the ring are.
Core ==
    /\ ModTypeOK /\ StackShape /\ FactsHold /\ Depths
    /\ Debts /\ RingHolds /\ Distinct /\ Members

\* A ring that is still the list its history says.
LEMMA RingNext ==
    ASSUME ModTypeOK', InOrder(ring', order')
    PROVE  RingHolds' /\ Distinct'
<1>1. Holds(ring, Chain, order, Len(order))' <=>
        \A k \in 0 .. Len(order') : /\ ring'.next[At(order', k)] = At(order', k + 1)
                                    /\ ring'.prev[At(order', k + 1)] = At(order', k)
  BY DEF Holds, At
<1>2. Listed' = {order'[k] : k \in 1 .. Len(order')}
  <2>1. Listed' \subseteq Mods /\ \A m \in Mods : m \in Listed' <=> ring'.next[m] # m
    BY DEF Listed, Single
  <2>2. \A k \in 1 .. Len(order') : order'[k] \in Mods
    BY DEF ModTypeOK
  <2> QED BY <2>1, <2>2 DEF InOrder
<1> QED BY <1>1, <1>2 DEF RingHolds, Distinct, InOrder

\* The list that the ring is now.
LEMMA RingNow ==
    ASSUME MInv
    PROVE  /\ ring \in Rings(Nodes) /\ order \in Seq(Mods) /\ InOrder(ring, order)
BY RingInOrder DEF MInv, ModTypeOK

\* A step that leaves the ring alone.
LEMMA RingSame ==
    ASSUME MInv, ModTypeOK', ring' = ring, order' = order
    PROVE  RingHolds' /\ Distinct' /\ Listed' = Listed
<1>1. Listed' = Listed
  BY DEF Listed, Single
<1> QED BY <1>1, RingNow, RingNext

\* The frames that stay on the C stack are those below the first, or all of them.
LEMMA BelowTop ==
    ASSUME MInv, frames # <<>>, NEW rest, rest = Tail(frames)
    PROVE  /\ rest \in Seq(FrameType)
           /\ \A k \in 1 .. Len(rest) : /\ k + 1 \in 2 .. Len(frames) /\ rest[k] = frames[k + 1]
                                        /\ \E j \in 1 .. Len(frames) : frames[j] = rest[k]
                                        /\ rest[k].fn = "unload" => NotRegistered(rest[k].m)
                                        /\ rest[k].fn # "config" => Facts(rest[k])
<1>1. frames \in Seq(FrameType)
  BY DEF MInv, StackShape
<1>2. /\ rest \in Seq(FrameType) /\ Len(rest) = Len(frames) - 1 /\ Len(frames) \in Nat
      /\ \A k \in 1 .. Len(frames) - 1 : rest[k] = frames[k + 1] /\ k + 1 \in 1 .. Len(frames)
  BY <1>1, Under
<1>3. ASSUME NEW k \in 1 .. Len(rest)
      PROVE  /\ k + 1 \in 2 .. Len(frames) /\ rest[k] = frames[k + 1] /\ k + 1 \in 1 .. Len(frames)
  BY <1>2
<1> QED BY <1>2, <1>3 DEF MInv, Depths, FactsHold

\* The types that the steps of the C stack share.
LEMMA FrameMods == ASSUME StackShape' PROVE \A k \in 1 .. Len(frames') : frames'[k].m \in Mods \cup {None}
<1>1. frames' \in Seq(FrameType)
  BY DEF StackShape
<1>2. \A k \in 1 .. Len(frames') : frames'[k] \in FrameType
  BY <1>1
<1> QED BY <1>2 DEF FrameType

ModType == [name : Seq(STRING), path : Paths, handle : Files \cup {None},
            def : Files \cup {None}, state : {"UNREGISTERED", "LOADED", "REGISTERED"},
            within : SUBSET Mods]

\* The types, each for itself.
LEMMA Types ==
    ASSUME ModTypeOK
    PROVE  /\ alive \in SUBSET Mods /\ mod \in [Mods -> ModType] /\ ring \in Rings(Nodes)
           /\ refs \in [Files -> Nat] /\ lost \in [Files -> Nat]
           /\ ret \in Int /\ config \in Seq(Lines) /\ given \in Seq(Lines)
           /\ order \in Seq(Mods) /\ served \in Seq(Mods) /\ debt \in [Mods -> 0 .. 1]
BY DEF ModTypeOK, ModType

\* The types after a step.
LEMMA TypesNext ==
    ASSUME StackShape',
           alive' \in SUBSET Mods /\ mod' \in [Mods -> ModType] /\ ring' \in Rings(Nodes),
           refs' \in [Files -> Nat] /\ lost' \in [Files -> Nat],
           ret' \in Int /\ config' \in Seq(Lines) /\ given' \in Seq(Lines),
           order' \in Seq(Mods) /\ served' \in Seq(Mods) /\ debt' \in [Mods -> 0 .. 1]
    PROVE  ModTypeOK'
BY FrameMods DEF ModTypeOK, ModType

\* A module is allocated and its loading begins.
LEMMA BeginCore ==
    ASSUME MInv, NEW r \in Lines, r # None, Begin(r, frames),
           frames # <<>> => frames[1].fn \in {"reg", "dereg", "config"},
           config' \in Seq(Lines), given' \in Seq(Lines), served' \in Seq(Mods)
    PROVE  Core'
<1> DEFINE path == Resolve[r.name]
           call(m) == IF path \in Files THEN Frame("open", m, r.arg) ELSE Frame("fail", m, -1)
<1>1. PICK m \in Mods \ alive :
        /\ alive' = alive \cup {m}
        /\ mod' = [mod EXCEPT ![m] = Fresh(path)]
        /\ ring' = Alone(ring, m)
        /\ debt' = [debt EXCEPT ![m] = 0]
        /\ frames' = <<call(m)>> \o frames
        /\ UNCHANGED <<refs, ret, order, lost, given>>
  BY DEF Begin
<1>2. ModTypeOK
  BY DEF MInv
<1>3. r.name \in DOMAIN Resolve /\ r.arg \in STRING \cup {None} /\ path \in Paths
  BY DEF Lines, Paths
<1>4. PICK c : c = call(m)
  OBVIOUS
<1>5. /\ c \in FrameType /\ c.m = m /\ Typed(c)
      /\ c.fn = IF path \in Files THEN "open" ELSE "fail"
      /\ c.fn = "fail" => c.val # 0
  <2>1. None \notin Mods /\ m # None
    BY Whereabouts
  <2>2. c = Frame("open", m, r.arg) \/ c = Frame("fail", m, -1)
    BY <1>4
  <2>3. c \in FrameType /\ c.m = m
    BY <2>2, <1>3 DEF Frame, FrameType, Ends
  <2>4. CASE path \in Files
    <3>1. c.fn = "open" /\ c.val = r.arg
      BY <2>4, <1>4 DEF Frame
    <3> QED BY <2>1, <2>3, <2>4, <3>1, <1>3 DEF Typed
  <2>5. CASE path \notin Files
    <3>1. c.fn = "fail" /\ c.val = -1
      BY <2>5, <1>4 DEF Frame
    <3> QED BY <2>1, <2>3, <2>5, <3>1 DEF Typed
  <2> QED BY <2>4, <2>5
<1>6. frames' = <<c>> \o frames
  BY <1>1, <1>4
<1> HIDE DEF call
<1>7. ring' = ring
  BY <1>1, <1>2, Whereabouts, LoneNode, Types DEF Nodes
<1>8. \A k \in 1 .. Len(frames) : frames[k].m # m
  BY <1>1, Whereabouts
<1>9. StackShape'
  BY <1>5, <1>6, <1>8, PushShape DEF MInv, Ends
<1>10. /\ mod' \in [Mods -> ModType] /\ mod'[m] = Fresh(path) /\ \A x \in Mods \ {m} : mod'[x] = mod[x]
       /\ debt' \in [Mods -> 0 .. 1] /\ debt'[m] = 0 /\ \A x \in Mods \ {m} : debt'[x] = debt[x]
  <2>1. Fresh(path) \in ModType
    BY <1>3 DEF Fresh, ModType
  <2> QED BY <1>1, <1>2, <2>1, Types
<1>11. ModTypeOK'
  BY <1>1, <1>2, <1>7, <1>9, <1>10, Types, TypesNext
<1>12. RingHolds' /\ Distinct' /\ Listed' = Listed
  BY <1>1, <1>7, <1>11, RingSame
<1>13. m \notin Listed' /\ m \in alive'
  BY <1>1, <1>12, Whereabouts
<1>14. Others(m)
  BY <1>1, <1>10, <1>12 DEF Others
<1>15. Facts(c)'
  <2>1. mod'[c.m].handle = None /\ mod'[c.m].def = None /\ mod'[c.m].path = path /\ mod'[c.m].state = "UNREGISTERED"
    BY <1>5, <1>10 DEF Fresh
  <2> QED BY <2>1, <1>5, <1>13 DEF Facts, NotRegistered
<1>16. DebtOf(m)' /\ MemberOf(m)'
  BY <1>10, <1>13 DEF DebtOf, MemberOf
<1>17. FactsHold' /\ Depths' /\ Debts' /\ Members'
  <2>1. PICK rest : rest = frames
    OBVIOUS
  <2>2. PICK cs : cs = <<c>>
    OBVIOUS
  <2>3. cs \in Seq(FrameType) /\ cs # <<>> /\ Len(cs) = 1 /\ cs[1] = c
    BY <2>2, <1>5
  <2>4. rest \in Seq(FrameType) /\ frames' = cs \o rest
    BY <2>1, <2>2, <1>6 DEF MInv, StackShape
  <2>5. ASSUME NEW k \in 1 .. Len(rest)
        PROVE  /\ \E j \in 1 .. Len(frames) : frames[j] = rest[k]
               /\ rest[k].fn = "unload" => NotRegistered(rest[k].m)
               /\ rest[k].m # m
    <3>1. k \in 1 .. Len(frames) /\ rest[k] = frames[k] /\ Len(frames) \in Nat
      BY <2>1, <2>4
    <3>2. CASE k = 1
      BY <3>1, <3>2, <1>8
    <3>3. CASE k # 1
      <4>1. k \in 2 .. Len(frames)
        BY <3>1, <3>3
      <4> QED BY <4>1, <3>1, <1>8 DEF MInv, Depths
    <3> QED BY <3>2, <3>3
  <2>6. ASSUME NEW k \in 1 .. Len(cs) PROVE k = 1 /\ cs[k].m = m /\ Facts(cs[k])'
    <3>1. cs[k] = c
      BY <2>3
    <3> QED BY <3>1, <1>5, <1>15, <2>3
  <2>7. cs[1].fn # "dispose"
    BY <2>3, <1>5
  <2>8. \A k \in 2 .. Len(cs) : FALSE
    BY <2>3
  <2>9. Pushes(m, cs, rest)
    BY <2>3, <2>5, <2>6, <2>7, <2>8 DEF Pushes
  <2> QED BY <1>9, <1>14, <1>16, <2>3, <2>4, <2>9, OneModule
<1> QED BY <1>9, <1>11, <1>12, <1>17 DEF Core

-----------------------------------------------------------------------------
(* The calls, the ring and the modules: each step keeps them *)

\* A module that is assigned.
LEMMA ModSet ==
    ASSUME ModTypeOK, NEW m \in Mods, NEW n \in ModType, mod' = [mod EXCEPT ![m] = n]
    PROVE  mod' \in [Mods -> ModType] /\ mod'[m] = n /\ \A x \in Mods \ {m} : mod'[x] = mod[x]
<1>1. mod \in [Mods -> ModType]
  BY Types
<1> QED BY <1>1

\* The debt of one module is assigned.
LEMMA DebtSet ==
    ASSUME ModTypeOK, NEW m \in Mods, NEW n \in 0 .. 1, debt' = [debt EXCEPT ![m] = n]
    PROVE  debt' \in [Mods -> 0 .. 1] /\ debt'[m] = n /\ \A x \in Mods \ {m} : debt'[x] = debt[x]
<1>1. debt \in [Mods -> 0 .. 1]
  BY Types
<1> QED BY <1>1

\* A call below the one on top.
Below(a) == \E k \in 2 .. Len(frames) : frames[k] = a

\* The call on top is replaced by others about its module.
LEMMA Replaced ==
    ASSUME MInv, frames # <<>>, NEW m \in Mods, frames[1].m = m, Others(m), StackShape',
           NEW cs \in Seq(FrameType), frames' = cs \o Tail(frames),
           \A a \in FrameType : Below(a) /\ a.m = m => /\ Facts(a)'
                                                       /\ a.fn = "unload" => NotRegistered(m)',
           \A k \in 1 .. Len(cs) : cs[k].m = m /\ Facts(cs[k])',
           \A k \in 2 .. Len(cs) : cs[k].fn = "unload" => NotRegistered(m)',
           cs # <<>> => cs[1].fn # "dispose",
           cs = <<>> /\ Tail(frames) # <<>> /\ frames[2].fn = "dispose" => frames[2].m = m /\ NotRegistered(m)',
           DebtOf(m)', MemberOf(m)'
    PROVE  FactsHold' /\ Depths' /\ Debts' /\ Members'
<1>1. PICK rest : rest = Tail(frames)
  OBVIOUS
<1>2. /\ rest \in Seq(FrameType)
      /\ \A k \in 1 .. Len(rest) : /\ k + 1 \in 2 .. Len(frames) /\ rest[k] = frames[k + 1]
                                   /\ \E j \in 1 .. Len(frames) : frames[j] = rest[k]
                                   /\ rest[k].fn = "unload" => NotRegistered(rest[k].m)
                                   /\ rest[k].fn # "config" => Facts(rest[k])
  BY <1>1, BelowTop
<1>3. ASSUME NEW k \in 1 .. Len(rest), rest[k].m = m
      PROVE Facts(rest[k])' /\ (rest[k].fn = "unload" => NotRegistered(m)')
  <2>1. PICK a : a = rest[k]
    OBVIOUS
  <2>2. a \in FrameType /\ Below(a) /\ a.m = m
    BY <2>1, <1>2, <1>3 DEF Below
  <2>3. Facts(a)' /\ (a.fn = "unload" => NotRegistered(m)')
    BY <2>2
  <2> QED BY <2>1, <2>3
<1>4. cs = <<>> /\ rest # <<>> /\ rest[1].fn = "dispose" => rest[1].m = m /\ NotRegistered(m)'
  <2>1. ASSUME rest # <<>> PROVE rest[1] = frames[2]
    <3>1. 1 \in 1 .. Len(rest) /\ 1 + 1 = 2
      BY <2>1, <1>2
    <3> QED BY <3>1, <1>2
  <2> QED BY <2>1, <1>1
<1>5. frames' = cs \o rest
  BY <1>1
<1>6. Pushes(m, cs, rest)
  BY <1>2, <1>3, <1>4 DEF Pushes
<1> QED BY <1>2, <1>5, <1>6, OneModule

\* ... by one other, or by none, when no other call is about its module.
LEMMA EndGoesOn ==
    ASSUME MInv, frames # <<>>, frames[1].fn \in Ends, NEW m \in Mods, frames[1].m = m, Others(m),
           NEW c \in FrameType, Call(<<c>>), c.fn \in Ends \ {"dispose"}, Typed(c), c.m = m,
           c.fn \in {"fail", "free"} => c.val # 0, Facts(c)',
           DebtOf(m)', MemberOf(m)'
    PROVE  StackShape' /\ FactsHold' /\ Depths' /\ Debts' /\ Members'
<1>1. StackShape' /\ frames' = <<c>> \o Tail(frames)
  BY OneShape DEF MInv, On
<1>2. \A a \in FrameType : Below(a) => a.m # m
  BY OnlyOne DEF MInv, StackShape, Below
<1>3. PICK cs : cs = <<c>>
  OBVIOUS
<1>4. cs \in Seq(FrameType) /\ cs # <<>> /\ Len(cs) = 1 /\ cs[1] = c /\ frames' = cs \o Tail(frames)
  BY <1>1, <1>3
<1>5. ASSUME NEW k \in 1 .. Len(cs) PROVE cs[k].m = m /\ Facts(cs[k])'
  <2>1. cs[k] = c
    BY <1>4
  <2> QED BY <2>1
<1>6. \A k \in 2 .. Len(cs) : FALSE
  BY <1>4
<1>7. cs[1].fn # "dispose"
  BY <1>4
<1>8. FactsHold' /\ Depths' /\ Debts' /\ Members'
  BY <1>1, <1>2, <1>4, <1>5, <1>6, <1>7, Replaced
<1> QED BY <1>1, <1>8

\* The call on top returns.
LEMMA EndReturns ==
    ASSUME MInv, frames # <<>>, frames[1].fn \in Ends, NEW m \in Mods, frames[1].m = m, Others(m),
           Call(<<>>), DebtOf(m)', MemberOf(m)'
    PROVE  StackShape' /\ FactsHold' /\ Depths' /\ Debts' /\ Members'
<1>1. StackShape' /\ frames' = Tail(frames)
  BY PopShape DEF MInv
<1>2. \A a \in FrameType : Below(a) => a.m # m
  BY OnlyOne DEF MInv, StackShape, Below
<1>3. Tail(frames) # <<>> => frames[2].fn # "dispose"
  BY OnlyOne DEF MInv, StackShape
<1>4. PICK cs : cs = <<>>
  OBVIOUS
<1>5. frames' = cs \o Tail(frames) /\ Len(cs) = 0 /\ cs \in Seq(FrameType)
  BY <1>4 DEF Call
<1>6. (\A k \in 1 .. Len(cs) : FALSE) /\ (\A k \in 2 .. Len(cs) : FALSE)
  BY <1>5
<1>7. FactsHold' /\ Depths' /\ Debts' /\ Members'
  BY <1>1, <1>2, <1>3, <1>4, <1>5, <1>6, Replaced
<1> QED BY <1>1, <1>7

-----------------------------------------------------------------------------

\* aem_module_open.
LEMMA OpenCore == ASSUME MInv, Open PROVE Core'
<1> PICK m : m = On
  OBVIOUS
<1> PICK f : f = mod[m].path
  OBVIOUS
<1> DEFINE sane == Def[f].kind = "ok" /\ (Def[f].singleton => ~AlreadyLoaded(f))
           new == [mod[m] EXCEPT !.handle = f,
                                 !.within = IF Def[f].singleton THEN Registering(f) ELSE {},
                                 !.def = IF Def[f].kind = "missing" THEN None ELSE f,
                                 !.name = IF Def[f].kind = "ok" THEN <<Def[f].name>> ELSE <<>>]
<1>1. /\ Calling("open")
      /\ refs' = [refs EXCEPT ![f] = @ + 1]
      /\ mod' = [mod EXCEPT ![m] = [new EXCEPT !.state = IF sane THEN "LOADED" ELSE @]]
      /\ Call(<<IF sane THEN Frame("register", m, Arg) ELSE Frame("fail", m, -1)>>)
      /\ UNCHANGED <<alive, ring, ret, config, history>>
  BY DEF Open
<1>2. ModTypeOK /\ StackShape
  BY DEF MInv
<1>3. /\ frames # <<>> /\ frames[1].fn = "open" /\ frames[1].m = m /\ m \in Mods
      /\ 1 \in 1 .. Len(frames) /\ Arg \in STRING \cup {None}
  BY <1>1, <1>2, Top DEF Ends
<1>4. Facts(frames[1]) /\ m \in alive /\ m \notin Listed
  <2>1. Facts(frames[1])
    BY <1>3 DEF MInv, FactsHold
  <2> QED BY <1>3, <2>1 DEF Facts
<1>5. f \in Files /\ mod[m].state # "REGISTERED" /\ debt[m] # 1
  <2>1. f \in Files /\ mod[m].state # "REGISTERED"
    BY <1>3, <1>4 DEF Facts, NotRegistered
  <2> QED BY <2>1, <1>3 DEF MInv, Debts, DebtOf, NotRegistered
<1>6. Def[f] \in Defs
  BY <1>5, ModuleAssumption
<1>7. new \in ModType /\ new.def \in {None, f} /\ (Def[f].kind # "missing" => new.def = f) /\ new.handle = f
      /\ new.state = mod[m].state
  <2>1. mod[m] \in ModType
    BY <1>2, <1>3, Types
  <2>2. <<Def[f].name>> \in Seq(STRING)
    BY <1>6 DEF Defs
  <2>3. PICK o \in ModType : o = mod[m]
    BY <2>1
  <2>4. /\ new = [o EXCEPT !.handle = f, !.within = new.within, !.def = new.def, !.name = new.name]
        /\ new.within = (IF Def[f].singleton THEN Registering(f) ELSE {})
        /\ new.def = (IF Def[f].kind = "missing" THEN None ELSE f) /\ new.handle = f
        /\ new.name = (IF Def[f].kind = "ok" THEN <<Def[f].name>> ELSE <<>>)
        /\ new.state = o.state
    BY <2>3 DEF ModType
  <2>5. new.def \in Files \cup {None} /\ new.name \in Seq(STRING) /\ new.within \subseteq Mods
    <3> HIDE DEF new
    <3>1. new.def \in Files \cup {None}
      BY <1>5, <2>4
    <3>2. <<>> \in Seq(STRING)
      OBVIOUS
    <3>3. new.name \in Seq(STRING)
      BY <2>2, <2>4, <3>2
    <3>4. new.within \subseteq Mods
      BY <2>4 DEF Registering
    <3> QED BY <3>1, <3>3, <3>4
  <2>6. PICK d, s, w : d = new.def /\ s = new.name /\ w = new.within
    OBVIOUS
  <2>7. new = [o EXCEPT !.handle = f, !.within = w, !.def = d, !.name = s]
    BY <2>4, <2>6
  <2>8. new \in ModType
    <3> HIDE DEF new
    <3> QED BY <1>5, <2>5, <2>6, <2>7 DEF ModType
  <2> QED BY <2>3, <2>4, <2>8
<1> HIDE DEF new
<1>8. PICK n : n = [new EXCEPT !.state = IF sane THEN "LOADED" ELSE @]
  OBVIOUS
<1>9. n \in ModType /\ n.def = new.def /\ n.handle = f /\ n.state # "REGISTERED"
  <2> HIDE DEF sane
  <2>1. n = [new EXCEPT !.state = "LOADED"] \/ n = [new EXCEPT !.state = new.state]
    BY <1>8
  <2>2. new \in ModType /\ new.handle = f /\ new.state # "REGISTERED"
    BY <1>5, <1>7
  <2>3. CASE n = [new EXCEPT !.state = "LOADED"]
    BY <2>2, <2>3 DEF ModType
  <2>4. CASE n = [new EXCEPT !.state = new.state]
    BY <2>2, <2>4 DEF ModType
  <2> QED BY <2>1, <2>3, <2>4
<1>10. /\ mod' \in [Mods -> ModType] /\ mod'[m] = n /\ \A x \in Mods \ {m} : mod'[x] = mod[x]
       /\ refs' \in [Files -> Nat]
  <2>1. mod' = [mod EXCEPT ![m] = n]
    BY <1>1, <1>8
  <2>2. refs \in [Files -> Nat] /\ refs' = [refs EXCEPT ![f] = @ + 1]
    BY <1>1, <1>2, Types
  <2> HIDE DEF new, sane
  <2>3. refs' \in [Files -> Nat]
    BY <1>5, <2>2
  <2> QED BY <1>2, <1>3, <1>9, <2>1, <2>3, ModSet
<1>11. PICK c : c = IF sane THEN Frame("register", m, Arg) ELSE Frame("fail", m, -1)
  OBVIOUS
<1>12. /\ c \in FrameType /\ c.m = m /\ Typed(c) /\ c.fn \in {"register", "fail"}
       /\ c.fn = "register" => sane
       /\ c.fn = "fail" => c.val # 0
  <2>1. m # None
    BY <1>3, Whereabouts
  <2>2. c = Frame("register", m, Arg) \/ c = Frame("fail", m, -1)
    BY <1>11
  <2>3. c \in FrameType /\ c.m = m
    BY <2>2, <1>3 DEF Frame, FrameType, Ends
  <2> HIDE DEF sane
  <2>4. CASE sane
    <3>1. c.fn = "register" /\ c.val = Arg
      BY <2>4, <1>11 DEF Frame
    <3> QED BY <2>1, <2>3, <2>4, <3>1, <1>3 DEF Typed
  <2>5. CASE ~sane
    <3>1. c.fn = "fail" /\ c.val = -1
      BY <2>5, <1>11 DEF Frame
    <3> QED BY <2>1, <2>3, <2>5, <3>1 DEF Typed
  <2> QED BY <2>4, <2>5
<1>13. c.fn = "register" => n.def = f
  BY <1>7, <1>9, <1>12
<1>14. Call(<<c>>)
  BY <1>1, <1>11
<1> HIDE DEF new, sane
<1>15. Listed' = Listed /\ alive' = alive /\ debt' = debt /\ ring' = ring /\ order' = order
  BY <1>1 DEF Listed, Single, history
<1>16. Others(m)
  BY <1>10, <1>15 DEF Others
<1>17. Facts(c)' /\ DebtOf(m)' /\ MemberOf(m)'
  <2>1. Facts(c)'
    BY <1>4, <1>5, <1>9, <1>10, <1>12, <1>13, <1>15 DEF Facts, NotRegistered, OpenFile
  <2> QED BY <2>1, <1>4, <1>5, <1>15 DEF DebtOf, MemberOf
<1>18. StackShape' /\ FactsHold' /\ Depths' /\ Debts' /\ Members'
  <2>1. frames[1].fn \in Ends /\ c.fn \in Ends \ {"dispose"}
    BY <1>3, <1>12 DEF Ends
  <2>2. c.fn \in {"fail", "free"} => c.val # 0
    BY <1>12
  <2> QED BY <1>3, <1>12, <1>14, <1>16, <1>17, <2>1, <2>2, EndGoesOn
<1>19. ModTypeOK'
  BY <1>1, <1>2, <1>10, <1>18, Types, TypesNext DEF history
<1>20. RingHolds' /\ Distinct'
  BY <1>15, <1>19, RingSame
<1> QED BY <1>18, <1>19, <1>20 DEF Core

\* What the call on top may rely on.
LEMMA TopFacts ==
    ASSUME MInv, NEW fn \in Ends \cup Leads, Calling(fn), NEW m, m = On
    PROVE  /\ frames # <<>> /\ frames[1].fn = fn /\ frames[1].m = m /\ m \in Mods /\ m # None
           /\ 1 \in 1 .. Len(frames) /\ frames[1].val = Arg
           /\ Facts(frames[1]) /\ m \in alive /\ m \notin Listed
           /\ mod[m] \in ModType /\ debt[m] \in 0 .. 1 /\ DebtOf(m)
<1>1. ModTypeOK /\ StackShape
  BY DEF MInv
<1>2. /\ frames # <<>> /\ frames[1].fn = fn /\ frames[1].m = m /\ m \in Mods
      /\ 1 \in 1 .. Len(frames) /\ frames[1].val = Arg
  BY <1>1, Top
<1>3. Facts(frames[1])
  <2>1. frames[1].fn # "config"
    BY <1>2 DEF Ends, Leads
  <2> QED BY <1>2, <2>1 DEF MInv, FactsHold
<1>4. m \in alive /\ m \notin Listed
  BY <1>2, <1>3 DEF Facts
<1>5. mod[m] \in ModType /\ debt[m] \in 0 .. 1
  <2>1. mod \in [Mods -> ModType] /\ debt \in [Mods -> 0 .. 1]
    BY <1>1, Types
  <2> QED BY <1>2, <2>1
<1> QED BY <1>2, <1>3, <1>4, <1>5, Whereabouts DEF MInv, Debts

\* The module under m is registered: it is to be put into the ring next.
LEMMA RegisteredCore ==
    ASSUME MInv, NEW m, m = On, Calling("register") \/ Calling("reg"),
           NEW n \in ModType, n.state = "REGISTERED", n.def = mod[m].def, n.handle = mod[m].handle,
           mod' = [mod EXCEPT ![m] = n], debt' = [debt EXCEPT ![m] = @ + 1],
           Call(<<Frame("insert", m, None)>>),
           UNCHANGED <<alive, ring, refs, ret, config, order, lost, given, served>>
    PROVE  Core'
<1>1. PICK fn \in {"register", "reg"} : Calling(fn)
  OBVIOUS
<1>2. ModTypeOK /\ fn \in Ends
  BY <1>1 DEF MInv, Ends
<1>3. /\ frames # <<>> /\ frames[1].fn = fn /\ frames[1].m = m /\ m \in Mods /\ m # None
      /\ Facts(frames[1]) /\ m \in alive /\ m \notin Listed
      /\ debt[m] \in 0 .. 1 /\ DebtOf(m)
  BY <1>1, <1>2, TopFacts
<1>4. NotRegistered(m) /\ OpenFile(m) /\ debt[m] = 0
  <2>1. NotRegistered(m) /\ OpenFile(m)
    BY <1>1, <1>3 DEF Facts
  <2> QED BY <2>1, <1>3 DEF DebtOf
<1>5. mod' \in [Mods -> ModType] /\ mod'[m] = n /\ \A x \in Mods \ {m} : mod'[x] = mod[x]
  BY <1>2, <1>3, ModSet
<1>6. debt' \in [Mods -> 0 .. 1] /\ debt'[m] = 1 /\ \A x \in Mods \ {m} : debt'[x] = debt[x]
  <2>1. debt' = [debt EXCEPT ![m] = 1] /\ 1 \in 0 .. 1
    BY <1>2, <1>3, <1>4, Types
  <2> QED BY <1>2, <1>3, <2>1, DebtSet
<1>7. PICK c : c = Frame("insert", m, None)
  OBVIOUS
<1>8. c \in FrameType /\ c.fn = "insert" /\ c.m = m /\ Typed(c) /\ Call(<<c>>)
  BY <1>3, <1>7 DEF Frame, FrameType, Typed, Ends
<1>9. Listed' = Listed /\ alive' = alive /\ ring' = ring /\ order' = order
  BY DEF Listed, Single
<1>10. Others(m)
  BY <1>5, <1>6, <1>9 DEF Others
<1>11. Facts(c)' /\ DebtOf(m)' /\ MemberOf(m)'
  <2>1. mod'[m].def = mod'[m].handle /\ mod'[m].def \in Files /\ mod'[m].state = "REGISTERED" /\ mod'[m].handle # None
    BY <1>4, <1>5, ModuleAssumption DEF OpenFile
  <2> QED BY <2>1, <1>3, <1>6, <1>8, <1>9 DEF Facts, NotRegistered, OpenFile, DebtOf, MemberOf
<1>12. StackShape' /\ FactsHold' /\ Depths' /\ Debts' /\ Members'
  <2>1. frames[1].fn \in Ends /\ c.fn \in Ends \ {"dispose"} /\ (c.fn \in {"fail", "free"} => c.val # 0)
    BY <1>2, <1>3, <1>8 DEF Ends
  <2> QED BY <1>3, <1>8, <1>10, <1>11, <2>1, EndGoesOn
<1>13. ModTypeOK'
  BY <1>2, <1>5, <1>6, <1>12, Types, TypesNext
<1>14. RingHolds' /\ Distinct'
  BY <1>9, <1>13, RingSame
<1> QED BY <1>12, <1>13, <1>14 DEF Core

\* Nothing changes but what the call about m goes on with.
LEMMA GoesOnCore ==
    ASSUME MInv, NEW m, m = On, NEW fn \in Ends, Calling(fn),
           NEW c \in FrameType, Call(<<c>>), c.fn \in Ends \ {"dispose"}, Typed(c), c.m = m,
           c.fn \in {"fail", "free"} => c.val # 0, Facts(c),
           UNCHANGED <<alive, mod, ring, refs, ret, config, history>>
    PROVE  Core'
<1>1. /\ frames # <<>> /\ frames[1].fn = fn /\ frames[1].m = m /\ m \in Mods
      /\ m \notin Listed /\ DebtOf(m)
  BY TopFacts
<1>2. Listed' = Listed /\ alive' = alive /\ ring' = ring /\ order' = order /\ mod' = mod /\ debt' = debt
  BY DEF Listed, Single, history
<1>3. Others(m)
  BY <1>2 DEF Others
<1>4. Facts(c)' /\ DebtOf(m)' /\ MemberOf(m)'
  BY <1>1, <1>2 DEF Facts, NotRegistered, OpenFile, DebtOf, MemberOf
<1>5. StackShape' /\ FactsHold' /\ Depths' /\ Debts' /\ Members'
  BY <1>1, <1>3, <1>4, EndGoesOn
<1>6. ModTypeOK'
  <2>1. ModTypeOK
    BY DEF MInv
  <2> QED BY <2>1, <1>5, Types, TypesNext DEF history
<1>7. RingHolds' /\ Distinct'
  BY <1>2, <1>6, RingSame
<1> QED BY <1>5, <1>6, <1>7 DEF Core

\* aem_module_register up to reg().
LEMMA RegisterModuleCore == ASSUME MInv, RegisterModule PROVE Core'
<1> PICK m : m = On
  OBVIOUS
<1>1. Calling("register") /\ "register" \in Ends
  BY DEF RegisterModule, Ends
<1>2. /\ frames # <<>> /\ frames[1].fn = "register" /\ frames[1].m = m /\ m \in Mods /\ m # None
      /\ frames[1].val = Arg /\ Facts(frames[1]) /\ mod[m] \in ModType
  BY <1>1, TopFacts
<1>3. CASE Def[mod[m].def].reg # {}
  <2>1. /\ Call(<<Frame("reg", m, Arg)>>)
        /\ UNCHANGED <<alive, mod, ring, refs, ret, config, history>>
    BY <1>3 DEF RegisterModule, history
  <2>2. PICK c : c = Frame("reg", m, Arg)
    OBVIOUS
  <2>3. Arg \in STRING \cup {None}
    BY <1>1, Top DEF MInv
  <2>4. c \in FrameType /\ c.fn = "reg" /\ c.m = m /\ Typed(c) /\ Call(<<c>>)
    BY <1>2, <2>1, <2>2, <2>3 DEF Frame, FrameType, Typed, Ends
  <2>5. Facts(c)
    BY <1>2, <2>4 DEF Facts
  <2>6. c.fn \in Ends \ {"dispose"} /\ ~(c.fn \in {"fail", "free"})
    BY <2>4 DEF Ends
  <2> QED BY <1>1, <2>1, <2>4, <2>5, <2>6, GoesOnCore
<1>4. CASE Def[mod[m].def].reg = {}
  <2>1. /\ mod' = [mod EXCEPT ![m].state = "REGISTERED"]
        /\ debt' = [debt EXCEPT ![m] = @ + 1]
        /\ Call(<<Frame("insert", m, None)>>)
        /\ UNCHANGED <<alive, ring, refs, ret, config, order, lost, given, served>>
    BY <1>4 DEF RegisterModule
  <2>2. PICK n : n = [mod[m] EXCEPT !.state = "REGISTERED"]
    OBVIOUS
  <2>3. n \in ModType /\ n.state = "REGISTERED" /\ n.def = mod[m].def /\ n.handle = mod[m].handle
    BY <1>2, <2>2 DEF ModType
  <2>4. mod' = [mod EXCEPT ![m] = n]
    BY <2>1, <2>2
  <2> QED BY <1>1, <2>1, <2>3, <2>4, RegisteredCore
<1> QED BY <1>3, <1>4

\* reg() returns.
LEMMA RegReturnsCore == ASSUME MInv, RegReturns PROVE Core'
<1> PICK m : m = On
  OBVIOUS
<1>1. Calling("reg") /\ "reg" \in Ends
  BY DEF RegReturns, Ends
<1>2. /\ frames # <<>> /\ frames[1].fn = "reg" /\ frames[1].m = m /\ m \in Mods /\ m # None
      /\ frames[1].val = Arg /\ Facts(frames[1]) /\ mod[m] \in ModType
  BY <1>1, TopFacts
<1>3. Arg \in STRING \cup {None}
  BY <1>1, Top DEF MInv
<1>4. OpenFile(m) /\ NotRegistered(m) /\ m \in alive /\ m \notin Listed
  BY <1>2 DEF Facts
<1>5. PICK rc \in Def[mod[m].def].reg :
        /\ IF rc = 0
           THEN /\ mod' = [mod EXCEPT ![m].state = "REGISTERED",
                                      ![m].name = IF Def[mod[m].def].renames /\ Arg # None
                                                  THEN Append(@, Arg) ELSE @]
                /\ debt' = [debt EXCEPT ![m] = @ + 1]
                /\ Call(<<Frame("insert", m, None)>>)
           ELSE Call(<<Frame("fail", m, rc)>>) /\ UNCHANGED <<mod, debt>>
        /\ UNCHANGED <<alive, ring, refs, ret, config, order, lost, given, served>>
  BY DEF RegReturns
<1>6. rc \in Int
  <2>1. Def[mod[m].def] \in Defs
    BY <1>4, ModuleAssumption DEF OpenFile
  <2>2. Def[mod[m].def].reg \subseteq {0, -1, -9}
    BY <2>1 DEF Defs
  <2> QED BY <2>2
<1>7. CASE rc # 0
  <2>1. PICK c : c = Frame("fail", m, rc)
    OBVIOUS
  <2>2. c \in FrameType /\ c.fn = "fail" /\ c.m = m /\ c.val = rc
    BY <1>2, <1>6, <2>1 DEF Frame, FrameType, Ends
  <2>3. Typed(c) /\ Facts(c)
    BY <1>2, <1>4, <1>6, <1>7, <2>2 DEF Typed, Facts
  <2>4. c.fn \in Ends \ {"dispose"} /\ Call(<<c>>) /\ UNCHANGED <<alive, mod, ring, refs, ret, config, history>>
    BY <1>5, <1>7, <2>1, <2>2 DEF Ends, history
  <2> QED BY <1>1, <1>7, <2>2, <2>3, <2>4, GoesOnCore
<1>8. CASE rc = 0
  <2>1. /\ mod' = [mod EXCEPT ![m].state = "REGISTERED",
                              ![m].name = IF Def[mod[m].def].renames /\ Arg # None
                                          THEN Append(@, Arg) ELSE @]
        /\ debt' = [debt EXCEPT ![m] = @ + 1]
        /\ Call(<<Frame("insert", m, None)>>)
        /\ UNCHANGED <<alive, ring, refs, ret, config, order, lost, given, served>>
    BY <1>5, <1>8
  <2>2. PICK o \in ModType : o = mod[m]
    BY <1>2
  <2>3. PICK s : s = IF Def[mod[m].def].renames /\ Arg # None THEN Append(o.name, Arg) ELSE o.name
    OBVIOUS
  <2>4. PICK n : n = [o EXCEPT !.state = "REGISTERED", !.name = s]
    OBVIOUS
  <2>5. s \in Seq(STRING)
    <3>1. o.name \in Seq(STRING)
      BY <2>2 DEF ModType
    <3>2. Arg # None => Append(o.name, Arg) \in Seq(STRING)
      BY <1>3, <3>1
    <3> QED BY <2>3, <3>1, <3>2
  <2>6. n \in ModType /\ n.state = "REGISTERED" /\ n.def = o.def /\ n.handle = o.handle
    BY <2>2, <2>4, <2>5 DEF ModType
  <2>7. mod' = [mod EXCEPT ![m] = n]
    <3>1. mod \in [Mods -> ModType]
      BY Types DEF MInv
    <3> QED BY <1>2, <2>1, <2>2, <2>3, <2>4, <3>1 DEF ModType
  <2> QED BY <1>1, <2>1, <2>2, <2>6, <2>7, RegisteredCore
<1> QED BY <1>7, <1>8

\* AEM_LL2_REMOVE takes a module out of the list, wherever it is in it.
LEMMA UnlinkStep ==
    ASSUME MInv, NEW m \in Mods, Unlink(m)
    PROVE  /\ ring' \in Rings(Nodes) /\ order' \in Seq(Mods) /\ InOrder(ring', order')
           /\ m \notin Listed' /\ \A x \in Mods \ {m} : x \in Listed' <=> x \in Listed
<1>1. ring \in Rings(Nodes) /\ order \in Seq(Mods) /\ InOrder(ring, order)
  BY RingNow
<1>2. ring' = Removed(ring, m) /\ order' = Dropped(order, m)
  BY DEF Unlink
<1>3. /\ \A x \in Mods : x \in Listed <=> ring.next[x] # x
      /\ \A x \in Mods : x \in Listed' <=> ring'.next[x] # x
  BY DEF Listed, Single
<1>4. CASE ring.next[m] # m
  <2>1. /\ ring' \in Rings(Nodes) /\ order' \in Seq(Mods) /\ InOrder(ring', order')
        /\ ring'.next[m] = m /\ \A x \in Mods \ {m} : ring'.next[x] = x <=> ring.next[x] = x
    BY <1>1, <1>2, <1>4, RemoveOne
  <2> QED BY <2>1, <1>3
<1>5. CASE ring.next[m] = m
  <2>1. ring' = ring
    <3>1. ring.prev[m] = m /\ m \in Nodes
      BY <1>5, Whereabouts DEF Nodes
    <3> QED BY <1>1, <1>2, <1>5, <3>1, LoneNode
  <2>2. order' = order
    <3>1. ~ \E i \in 1 .. Len(order) : order[i] = m
      BY <1>1, <1>5 DEF InOrder
    <3> QED BY <1>2, <3>1 DEF Dropped
  <2> QED BY <1>1, <1>3, <1>5, <2>1, <2>2
<1> QED BY <1>4, <1>5

\* AEM_LL2_INSERT_BEFORE puts the module on top at the end of the list.
LEMMA LinkInCore == ASSUME MInv, LinkIn PROVE Core'
<1> PICK m : m = On
  OBVIOUS
<1>1. /\ Calling("insert") /\ "insert" \in Ends
      /\ ring' = InsertedBefore(ring, Chain, m) /\ order' = Append(order, m)
      /\ ret' = 0 /\ Call(<<>>)
      /\ UNCHANGED <<alive, mod, refs, config, debt, lost, given>>
  BY DEF LinkIn, AtTheEnd, Ends
<1>2. /\ frames # <<>> /\ frames[1].fn = "insert" /\ frames[1].m = m /\ m \in Mods /\ m # None
      /\ Facts(frames[1]) /\ m \in alive /\ m \notin Listed /\ DebtOf(m)
  BY <1>1, TopFacts
<1>3. debt[m] = 1 /\ ~NotRegistered(m) /\ OpenFile(m)
  BY <1>2 DEF Facts
<1>4. ring \in Rings(Nodes) /\ order \in Seq(Mods) /\ InOrder(ring, order) /\ ring.next[m] = m
  BY <1>2, RingNow, Whereabouts
<1>5. /\ ring' \in Rings(Nodes) /\ order' \in Seq(Mods) /\ InOrder(ring', order')
      /\ \A x \in Mods : ring'.next[x] # x <=> x = m \/ ring.next[x] # x
  <2>1. PICK r2, s2 : r2 = InsertedBefore(ring, Chain, m) /\ s2 = Append(order, m)
    OBVIOUS
  <2>2. /\ r2 \in Rings(Nodes) /\ s2 \in Seq(Mods) /\ InOrder(r2, s2)
        /\ \A x \in Mods : r2.next[x] # x <=> x = m \/ ring.next[x] # x
    <3>1. Appended(order, m, s2)
      BY <2>1 DEF Appended
    <3> QED BY <1>2, <1>4, <2>1, <3>1, InsertLast
  <2>3. ring' = r2 /\ order' = s2
    BY <1>1, <2>1
  <2> QED BY <2>2, <2>3
<1>6. \A x \in Mods : x \in Listed' <=> x = m \/ x \in Listed
  <2>1. \A x \in Mods : x \in Listed' <=> ring'.next[x] # x
    BY DEF Listed, Single
  <2>2. \A x \in Mods : x \in Listed <=> ring.next[x] # x
    BY DEF Listed, Single
  <2> QED BY <1>5, <2>1, <2>2
<1>7. Others(m)
  BY <1>1, <1>6 DEF Others
<1>8. DebtOf(m)' /\ MemberOf(m)'
  BY <1>1, <1>2, <1>3 DEF DebtOf, MemberOf, NotRegistered, OpenFile
<1>9. StackShape' /\ FactsHold' /\ Depths' /\ Debts' /\ Members'
  BY <1>1, <1>2, <1>7, <1>8, EndReturns
<1>10. served' \in Seq(Mods)
  <2>1. served \in Seq(Mods)
    BY Types DEF MInv
  <2>2. Append(served, m) \in Seq(Mods)
    BY <2>1, <1>2
  <2>3. served' = Append(served, m) \/ served' = served
    BY DEF LinkIn
  <2> QED BY <2>1, <2>2, <2>3
<1>11. ModTypeOK'
  <2>1. ModTypeOK
    BY DEF MInv
  <2>2. ret' \in Int
    BY <1>1
  <2> QED BY <2>1, <2>2, <1>1, <1>5, <1>9, <1>10, Types, TypesNext
<1>12. RingHolds' /\ Distinct'
  BY <1>5, <1>11, RingNext
<1> QED BY <1>9, <1>11, <1>12 DEF Core

\* Calls about m that lead to its end take the place of the one on top.
LEMMA EndLeads ==
    ASSUME MInv, frames # <<>>, frames[1].fn \in Ends, NEW m \in Mods, frames[1].m = m, Others(m),
           NEW cs \in Seq(FrameType), cs # <<>>, Call(cs),
           \A k \in 1 .. Len(cs) : cs[k].fn = IF k = Len(cs) THEN "free" ELSE "unload",
           \A k \in 1 .. Len(cs) : Typed(cs[k]) /\ cs[k].m = m /\ Facts(cs[k])',
           Tail(frames) # <<>> /\ frames[2].fn = "config" => cs[Len(cs)].val # 0,
           NotRegistered(m)', DebtOf(m)', MemberOf(m)'
    PROVE  StackShape' /\ FactsHold' /\ Depths' /\ Debts' /\ Members'
<1>1. frames' = cs \o Tail(frames) /\ frames \in Seq(FrameType) /\ Shape(frames) /\ Len(cs) \in Nat
  BY DEF Call, MInv, StackShape
<1>2. \A k \in 1 .. Len(cs) - 1 : Above(cs[k], cs[k + 1])
  <2>1. ASSUME NEW k \in 1 .. Len(cs) - 1 PROVE Above(cs[k], cs[k + 1])
    <3>1. k \in 1 .. Len(cs) /\ k + 1 \in 1 .. Len(cs) /\ k # Len(cs)
      BY <1>1
    <3>2. cs[k].fn = "unload" /\ cs[k + 1].fn \in {"unload", "free"} /\ cs[k].m = cs[k + 1].m
      BY <3>1
    <3> QED BY <3>2 DEF Above, Follows
  <2> QED BY <2>1
<1>3. \A j, k \in 1 .. Len(cs) : j < k => cs[j].fn \in Leads /\ cs[k].fn \in Follows
  <2>1. ASSUME NEW j \in 1 .. Len(cs), NEW k \in 1 .. Len(cs), j < k PROVE cs[j].fn \in Leads /\ cs[k].fn \in Follows
    <3>1. j # Len(cs)
      BY <1>1, <2>1
    <3> QED BY <3>1 DEF Leads, Follows
  <2> QED BY <2>1
<1>4. Len(cs) # 0 /\ Len(cs) \in 1 .. Len(cs)
  BY <1>1
<1>5. cs[Len(cs)].fn = "free"
  BY <1>4
<1>6. frames' \in Seq(FrameType) /\ Shape(frames')
  <2>1. cs[Len(cs)].fn \in Ends \ {"dispose"}
    BY <1>5 DEF Ends
  <2>2. Tail(frames) # <<>> /\ frames[2].fn = "config" /\ cs[Len(cs)].fn \in {"fail", "free"} => cs[Len(cs)].val # 0
    OBVIOUS
  <2>3. \A k \in 1 .. Len(cs) : Typed(cs[k]) /\ cs[k].m = frames[1].m
    OBVIOUS
  <2> QED BY <1>1, <1>2, <1>3, <2>1, <2>2, <2>3, EndReplaced
<1>7. StackShape'
  BY <1>6 DEF StackShape, Shape
<1>8. \A a \in FrameType : Below(a) => a.m # m
  BY <1>1, OnlyOne DEF Below
<1>9. cs[1].fn # "dispose"
  BY <1>1, <1>4
<1>10. FactsHold' /\ Depths' /\ Debts' /\ Members'
  BY <1>1, <1>7, <1>8, <1>9, Replaced
<1> QED BY <1>7, <1>10

\* The end of module_load after an error.
LEMMA FailCore == ASSUME MInv, Fail PROVE Core'
<1> PICK m : m = On
  OBVIOUS
<1> PICK v : v = Arg
  OBVIOUS
<1>1. /\ Calling("fail") /\ "fail" \in Ends /\ Unlink(m)
      /\ Call(<<Frame("unload", m, None), Frame("unload", m, None), Frame("free", m, v)>>)
      /\ UNCHANGED <<alive, mod, refs, ret, config, debt, lost, given, served>>
  BY DEF Fail, Ends
<1>2. /\ frames # <<>> /\ frames[1].fn = "fail" /\ frames[1].m = m /\ m \in Mods /\ m # None
      /\ Facts(frames[1]) /\ m \in alive /\ m \notin Listed /\ DebtOf(m)
  BY <1>1, TopFacts
<1>3. v \in Int /\ v # 0
  BY <1>1, Top DEF MInv
<1>4. NotRegistered(m)
  BY <1>2 DEF Facts
<1>5. /\ ring' \in Rings(Nodes) /\ order' \in Seq(Mods) /\ InOrder(ring', order')
      /\ m \notin Listed' /\ \A x \in Mods \ {m} : x \in Listed' <=> x \in Listed
  BY <1>1, <1>2, UnlinkStep
<1>6. Others(m)
  BY <1>1, <1>5 DEF Others
<1>7. PICK u, f : u = Frame("unload", m, None) /\ f = Frame("free", m, v)
  OBVIOUS
<1>8. /\ u \in FrameType /\ u.fn = "unload" /\ u.m = m /\ Typed(u)
      /\ f \in FrameType /\ f.fn = "free" /\ f.m = m /\ f.val = v /\ Typed(f)
  BY <1>2, <1>3, <1>7 DEF Frame, FrameType, Typed, Ends, Leads
<1>9. NotRegistered(m)' /\ DebtOf(m)' /\ MemberOf(m)'
  BY <1>1, <1>2, <1>4, <1>5 DEF NotRegistered, DebtOf, MemberOf
<1>10. Facts(u)' /\ Facts(f)'
  BY <1>1, <1>2, <1>5, <1>8, <1>9 DEF Facts
<1>11. PICK cs : cs = <<u, u, f>>
  OBVIOUS
<1>12. /\ cs \in Seq(FrameType) /\ cs # <<>> /\ Len(cs) = 3 /\ cs[1] = u /\ cs[2] = u /\ cs[3] = f
       /\ Call(cs)
  BY <1>1, <1>7, <1>8, <1>11
<1>13. ASSUME NEW k \in 1 .. Len(cs)
       PROVE /\ cs[k].fn = IF k = Len(cs) THEN "free" ELSE "unload"
             /\ Typed(cs[k]) /\ cs[k].m = m /\ Facts(cs[k])'
  <2>1. k = 1 \/ k = 2 \/ k = 3
    BY <1>12
  <2>2. (cs[k] = u /\ k # Len(cs)) \/ (cs[k] = f /\ k = Len(cs))
    BY <2>1, <1>12
  <2> QED BY <2>2, <1>8, <1>10
<1>14. StackShape' /\ FactsHold' /\ Depths' /\ Debts' /\ Members'
  <2>1. frames[1].fn \in Ends /\ cs[Len(cs)].val # 0
    BY <1>1, <1>2, <1>3, <1>8, <1>12
  <2> QED BY <2>1, <1>2, <1>6, <1>9, <1>12, <1>13, EndLeads
<1>15. ModTypeOK'
  <2>1. ModTypeOK
    BY DEF MInv
  <2> QED BY <2>1, <1>1, <1>5, <1>14, Types, TypesNext
<1>16. RingHolds' /\ Distinct'
  BY <1>5, <1>15, RingNext
<1> QED BY <1>14, <1>15, <1>16 DEF Core

\* The end of module_unload.
LEMMA DisposeCore == ASSUME MInv, Dispose PROVE Core'
<1> PICK m : m = On
  OBVIOUS
<1>1. /\ Calling("dispose") /\ "dispose" \in Ends
      /\ Call(IF ret # 0 THEN <<>> ELSE <<Frame("unload", m, None), Frame("free", m, 0)>>)
      /\ UNCHANGED <<alive, mod, ring, refs, ret, config, history>>
  BY DEF Dispose, Ends
<1>2. /\ frames # <<>> /\ frames[1].fn = "dispose" /\ frames[1].m = m /\ m \in Mods /\ m # None
      /\ Facts(frames[1]) /\ m \in alive /\ m \notin Listed /\ DebtOf(m)
  BY <1>1, TopFacts
<1>3. NotRegistered(m)
  BY <1>1 DEF MInv, Depths
<1>4. Listed' = Listed /\ alive' = alive /\ ring' = ring /\ order' = order /\ mod' = mod /\ debt' = debt
  BY <1>1 DEF Listed, Single, history
<1>5. Others(m)
  BY <1>4 DEF Others
<1>6. NotRegistered(m)' /\ DebtOf(m)' /\ MemberOf(m)'
  BY <1>2, <1>3, <1>4 DEF NotRegistered, DebtOf, MemberOf
<1>7. StackShape' /\ FactsHold' /\ Depths' /\ Debts' /\ Members'
  <2>1. CASE ret # 0
    <3>1. Call(<<>>) /\ frames[1].fn \in Ends
      BY <2>1, <1>1, <1>2
    <3> QED BY <3>1, <1>2, <1>5, <1>6, EndReturns
  <2>2. CASE ret = 0
    <3>1. PICK u, f : u = Frame("unload", m, None) /\ f = Frame("free", m, 0)
      OBVIOUS
    <3>2. /\ u \in FrameType /\ u.fn = "unload" /\ u.m = m /\ Typed(u)
          /\ f \in FrameType /\ f.fn = "free" /\ f.m = m /\ Typed(f)
      BY <1>2, <3>1 DEF Frame, FrameType, Typed, Ends, Leads
    <3>3. Facts(u)' /\ Facts(f)'
      BY <1>2, <1>4, <1>6, <3>2 DEF Facts
    <3>4. PICK cs : cs = <<u, f>>
      OBVIOUS
    <3>5. cs \in Seq(FrameType) /\ cs # <<>> /\ Len(cs) = 2 /\ cs[1] = u /\ cs[2] = f /\ Call(cs)
      BY <1>1, <2>2, <3>1, <3>2, <3>4
    <3>6. ASSUME NEW k \in 1 .. Len(cs)
          PROVE  /\ cs[k].fn = IF k = Len(cs) THEN "free" ELSE "unload"
                 /\ Typed(cs[k]) /\ cs[k].m = m /\ Facts(cs[k])'
      <4>1. k = 1 \/ k = 2
        BY <3>5
      <4>2. (cs[k] = u /\ k # Len(cs)) \/ (cs[k] = f /\ k = Len(cs))
        BY <4>1, <3>5
      <4> QED BY <4>2, <3>2, <3>3
    <3>7. frames[1].fn \in Ends /\ (Tail(frames) # <<>> => frames[2].fn # "config")
      BY <1>1, <1>2, OnlyOne DEF MInv, StackShape
    <3> QED BY <1>2, <1>5, <1>6, <3>5, <3>6, <3>7, EndLeads
  <2> QED BY <2>1, <2>2
<1>8. ModTypeOK'
  <2>1. ModTypeOK
    BY DEF MInv
  <2> QED BY <2>1, <1>1, <1>7, Types, TypesNext DEF history
<1>9. RingHolds' /\ Distinct'
  BY <1>4, <1>8, RingSame
<1> QED BY <1>7, <1>8, <1>9 DEF Core

\* The module is freed.
LEMMA FreeCore == ASSUME MInv, Free PROVE Core'
<1> PICK m : m = On
  OBVIOUS
<1> PICK h : h = mod[m].handle
  OBVIOUS
<1>1. /\ Calling("free") /\ "free" \in Ends
      /\ alive' = alive \ {m} /\ mod' = [mod EXCEPT ![m] = Blank]
      /\ lost' = (IF h = None THEN lost ELSE [lost EXCEPT ![h] = @ + 1])
      /\ ret' = Arg /\ Call(<<>>)
      /\ UNCHANGED <<ring, refs, config, order, debt, given, served>>
  BY DEF Free, Ends
<1>2. /\ frames # <<>> /\ frames[1].fn = "free" /\ frames[1].m = m /\ m \in Mods /\ m # None
      /\ Facts(frames[1]) /\ m \in alive /\ m \notin Listed /\ DebtOf(m) /\ mod[m] \in ModType
  BY <1>1, TopFacts
<1>3. NotRegistered(m) /\ debt[m] # 1
  BY <1>2 DEF Facts, DebtOf
<1>4. Arg \in Int
  BY <1>1, Top DEF MInv
<1>5. Blank \in ModType
  BY DEF Blank, Fresh, ModType, Paths
<1>6. mod' \in [Mods -> ModType] /\ \A x \in Mods \ {m} : mod'[x] = mod[x]
  BY <1>1, <1>2, <1>5, ModSet DEF MInv
<1>7. lost' \in [Files -> Nat]
  <2>1. lost \in [Files -> Nat] /\ h \in Files \cup {None}
    BY <1>2, Types DEF MInv, ModType
  <2> QED BY <1>1, <2>1
<1>8. Listed' = Listed
  BY <1>1 DEF Listed, Single
<1>9. Others(m)
  BY <1>1, <1>6, <1>8 DEF Others
<1>10. DebtOf(m)' /\ MemberOf(m)'
  BY <1>1, <1>2, <1>3, <1>8 DEF DebtOf, MemberOf
<1>11. StackShape' /\ FactsHold' /\ Depths' /\ Debts' /\ Members'
  BY <1>1, <1>2, <1>9, <1>10, EndReturns
<1>12. ModTypeOK'
  <2>1. ModTypeOK /\ ret' \in Int /\ alive' \in SUBSET Mods
    BY <1>1, <1>4, Types DEF MInv
  <2> QED BY <2>1, <1>1, <1>6, <1>7, <1>11, Types, TypesNext
<1>13. RingHolds' /\ Distinct'
  BY <1>1, <1>12, RingSame
<1> QED BY <1>11, <1>12, <1>13 DEF Core

\* The calls below one that leads to the end of its module.
LEMMA BelowLead ==
    ASSUME MInv, frames # <<>>, frames[1].fn \in Leads, NEW a \in FrameType, Below(a), a.m = frames[1].m
    PROVE  a.fn \in Follows /\ Facts(a) /\ (a.fn = "unload" => NotRegistered(a.m))
<1>1. frames \in Seq(FrameType) /\ Shape(frames)
  BY DEF MInv, StackShape
<1>2. PICK k \in 2 .. Len(frames) : frames[k] = a
  BY DEF Below
<1>3. a.fn \in Follows
  BY <1>1, <1>2, LeadOver
<1>4. k \in 1 .. Len(frames) /\ a.fn # "config"
  BY <1>1, <1>2, <1>3 DEF Follows
<1> QED BY <1>2, <1>3, <1>4 DEF MInv, FactsHold, Depths

\* A call that leads to the end of a module goes on as another.
LEMMA LeadGoesOn ==
    ASSUME MInv, frames # <<>>, frames[1].fn \in Leads, NEW m \in Mods, frames[1].m = m, Others(m),
           NEW c \in FrameType, Call(<<c>>), c.fn \in {"dereg", "close"}, Typed(c), c.m = m,
           c.fn = "dereg" => frames[2].fn = "dispose", Facts(c)', DebtOf(m)', MemberOf(m)',
           \A a \in FrameType : /\ Below(a) /\ a.m = m /\ a.fn \in Follows /\ Facts(a)
                                /\ a.fn = "unload" => NotRegistered(m)
                                => Facts(a)' /\ (a.fn = "unload" => NotRegistered(m)')
    PROVE  StackShape' /\ FactsHold' /\ Depths' /\ Debts' /\ Members'
<1>1. StackShape' /\ frames' = <<c>> \o Tail(frames)
  <2>1. c.fn \in Leads
    BY DEF Leads
  <2> QED BY <2>1, LeadShape DEF MInv, On
<1>2. \A a \in FrameType : Below(a) /\ a.m = m => Facts(a)' /\ (a.fn = "unload" => NotRegistered(m)')
  BY BelowLead
<1>3. PICK cs : cs = <<c>>
  OBVIOUS
<1>4. cs \in Seq(FrameType) /\ cs # <<>> /\ Len(cs) = 1 /\ cs[1] = c /\ frames' = cs \o Tail(frames)
  BY <1>1, <1>3
<1>5. ASSUME NEW k \in 1 .. Len(cs) PROVE cs[k].m = m /\ Facts(cs[k])'
  <2>1. cs[k] = c
    BY <1>4
  <2> QED BY <2>1
<1>6. \A k \in 2 .. Len(cs) : FALSE
  BY <1>4
<1>7. cs[1].fn # "dispose"
  BY <1>4
<1>8. FactsHold' /\ Depths' /\ Debts' /\ Members'
  BY <1>1, <1>2, <1>4, <1>5, <1>6, <1>7, Replaced
<1> QED BY <1>1, <1>8

\* aem_module_unload up to dereg() or dlclose.
LEMMA UnloadCore == ASSUME MInv, Unload PROVE Core'
<1> PICK m : m = On
  OBVIOUS
<1>1. /\ Calling("unload") /\ "unload" \in Leads
      /\ IF WasRegistered(mod[m])
         THEN /\ debt' = [debt EXCEPT ![m] = @ - 1]
              /\ IF mod[m].def # None /\ Def[mod[m].def].dereg
                 THEN Call(<<Frame("dereg", m, None)>>) /\ UNCHANGED mod
                 ELSE /\ mod' = [mod EXCEPT ![m].state = "UNREGISTERED"]
                      /\ Call(<<Frame("close", m, None)>>)
         ELSE Call(<<Frame("close", m, None)>>) /\ UNCHANGED <<mod, debt>>
      /\ UNCHANGED <<alive, ring, refs, ret, config, order, lost, given, served>>
  BY DEF Unload, Leads
<1>2. /\ frames # <<>> /\ frames[1].fn = "unload" /\ frames[1].m = m /\ m \in Mods /\ m # None
      /\ Facts(frames[1]) /\ m \in alive /\ m \notin Listed /\ DebtOf(m) /\ mod[m] \in ModType
      /\ debt[m] \in 0 .. 1
  BY <1>1, TopFacts
<1>3. Listed' = Listed /\ alive' = alive /\ ring' = ring /\ order' = order
  BY <1>1 DEF Listed, Single
<1>4. PICK c : c \in {Frame("dereg", m, None), Frame("close", m, None)} /\ Call(<<c>>)
               /\ (c = Frame("dereg", m, None) => WasRegistered(mod[m]) /\ mod' = mod)
               /\ (c = Frame("close", m, None) => mod' = [mod EXCEPT ![m].state = "UNREGISTERED"]
                                                  \/ (mod' = mod /\ ~WasRegistered(mod[m])))
  <2>1. Frame("dereg", m, None) # Frame("close", m, None)
    BY DEF Frame
  <2> QED BY <1>1, <2>1
<1>5. /\ c \in FrameType /\ c.fn \in {"dereg", "close"} /\ c.m = m /\ Typed(c)
      /\ c.fn = "dereg" => c = Frame("dereg", m, None)
      /\ c.fn = "close" => c = Frame("close", m, None)
  BY <1>2, <1>4 DEF Frame, FrameType, Typed, Ends, Leads
<1>6. WasRegistered(mod[m]) => OpenFile(m) /\ debt[m] = 1 /\ ~NotRegistered(m)
  BY <1>2 DEF Facts, WasRegistered, NotRegistered
<1>7. PICK n \in ModType : /\ mod' = [mod EXCEPT ![m] = n]
                           /\ n.def = mod[m].def /\ n.handle = mod[m].handle
                           /\ c.fn = "dereg" => n.state = mod[m].state
                           /\ c.fn = "close" => n.state # "REGISTERED"
                           /\ ~WasRegistered(mod[m]) => n.state # "REGISTERED"
  <2>1. mod \in [Mods -> ModType]
    BY Types DEF MInv
  <2>2. CASE mod' = mod /\ (c.fn = "dereg" \/ ~WasRegistered(mod[m]))
    <3>1. mod' = [mod EXCEPT ![m] = mod[m]]
      BY <1>2, <2>1, <2>2
    <3>2. ~WasRegistered(mod[m]) => mod[m].state # "REGISTERED"
      BY DEF WasRegistered
    <3> QED BY <1>2, <1>4, <1>5, <2>2, <3>1, <3>2
  <2>3. CASE mod' = [mod EXCEPT ![m].state = "UNREGISTERED"] /\ c.fn = "close"
    <3>1. PICK o \in ModType : o = mod[m]
      BY <1>2
    <3>2. PICK n : n = [o EXCEPT !.state = "UNREGISTERED"]
      OBVIOUS
    <3>3. n \in ModType /\ n.state = "UNREGISTERED" /\ n.def = o.def /\ n.handle = o.handle
      BY <3>1, <3>2 DEF ModType
    <3>4. mod' = [mod EXCEPT ![m] = n]
      BY <2>3, <3>1, <3>2
    <3> QED BY <2>3, <3>1, <3>3, <3>4
  <2> QED BY <1>4, <1>5, <2>2, <2>3
<1>8. mod' \in [Mods -> ModType] /\ mod'[m] = n /\ \A x \in Mods \ {m} : mod'[x] = mod[x]
  BY <1>2, <1>7, ModSet DEF MInv
<1>9. debt' \in [Mods -> 0 .. 1] /\ debt'[m] = 0 /\ \A x \in Mods \ {m} : debt'[x] = debt[x]
  <2>1. debt \in [Mods -> 0 .. 1]
    BY Types DEF MInv
  <2>2. CASE WasRegistered(mod[m])
    <3>1. debt' = [debt EXCEPT ![m] = 0] /\ 0 \in 0 .. 1
      BY <1>1, <1>2, <1>6, <2>1, <2>2
    <3> QED BY <1>2, <3>1, DebtSet DEF MInv
  <2>3. CASE ~WasRegistered(mod[m])
    <3>1. debt' = debt
      BY <1>1, <2>3
    <3>2. debt[m] # 1
      BY <1>2, <2>3 DEF DebtOf, NotRegistered, WasRegistered
    <3> QED BY <1>2, <2>1, <3>1, <3>2
  <2> QED BY <2>2, <2>3
<1>10. Others(m)
  BY <1>3, <1>8, <1>9 DEF Others
<1>11. Facts(c)'
  <2>1. c.fn = "dereg" => WasRegistered(mod[m])
    BY <1>4, <1>5
  <2>2. c.fn = "dereg" => OpenFile(m)'
    BY <2>1, <1>6, <1>7, <1>8 DEF OpenFile
  <2>3. c.fn = "close" => NotRegistered(m)'
    BY <1>7, <1>8 DEF NotRegistered
  <2> QED BY <2>2, <2>3, <1>2, <1>3, <1>5, <1>9 DEF Facts
<1>12. DebtOf(m)' /\ MemberOf(m)'
  BY <1>2, <1>3, <1>9 DEF DebtOf, MemberOf
<1>13. ASSUME NEW a \in FrameType, Below(a), a.m = m, a.fn \in Follows, Facts(a),
              a.fn = "unload" => NotRegistered(m)
       PROVE  Facts(a)' /\ (a.fn = "unload" => NotRegistered(m)')
  <2>1. a.fn \in {"unload", "free"} => ~WasRegistered(mod[m])
    BY <1>13 DEF Facts, NotRegistered, WasRegistered
  <2>2. a.fn \in {"unload", "free"} => NotRegistered(m)'
    BY <2>1, <1>7, <1>8 DEF NotRegistered
  <2> QED BY <1>2, <1>3, <1>13, <2>2 DEF Facts, Follows
<1>14. c.fn = "dereg" => frames[2].fn = "dispose"
  <2>1. ASSUME c.fn = "dereg" PROVE frames[2].fn = "dispose"
    <3>1. ~NotRegistered(m)
      BY <1>4, <1>5, <1>6, <2>1
    <3>2. frames \in Seq(FrameType) /\ Shape(frames) /\ frames[1].fn \in Leads
      BY <1>1, <1>2 DEF MInv, StackShape
    <3>3. 2 \in 1 .. Len(frames) /\ frames[2].m = m /\ frames[2].fn \in Follows
      BY <1>2, <3>2, LeadOver
    <3>4. PICK a : a = frames[2]
      OBVIOUS
    <3>5. a \in FrameType /\ Below(a)
      BY <3>2, <3>3, <3>4 DEF Below
    <3>6. Facts(a) /\ (a.fn = "unload" => NotRegistered(m)) /\ a.fn \in Follows /\ a.m = m
      BY <1>2, <3>2, <3>3, <3>4, <3>5, BelowLead
    <3>7. a.fn \notin {"unload", "free"}
      BY <3>1, <3>6 DEF Facts
    <3> QED BY <3>4, <3>6, <3>7 DEF Follows
  <2> QED BY <2>1
<1>15. StackShape' /\ FactsHold' /\ Depths' /\ Debts' /\ Members'
  <2>1. frames[1].fn \in Leads
    BY <1>1, <1>2
  <2> QED BY <2>1, <1>2, <1>4, <1>5, <1>10, <1>11, <1>12, <1>13, <1>14, LeadGoesOn
<1>16. ModTypeOK'
  <2>1. ModTypeOK
    BY DEF MInv
  <2> QED BY <2>1, <1>1, <1>8, <1>9, <1>15, Types, TypesNext
<1>17. RingHolds' /\ Distinct'
  BY <1>3, <1>16, RingSame
<1> QED BY <1>15, <1>16, <1>17 DEF Core

\* dereg() returns.
LEMMA DeregReturnsCore == ASSUME MInv, DeregReturns PROVE Core'
<1> PICK m : m = On
  OBVIOUS
<1>1. /\ Calling("dereg") /\ "dereg" \in Leads
      /\ mod' = [mod EXCEPT ![m] = Deregistered(@)]
      /\ Call(<<Frame("close", m, None)>>)
      /\ UNCHANGED <<alive, ring, refs, ret, config, history>>
  BY DEF DeregReturns, Leads
<1>2. /\ frames # <<>> /\ frames[1].fn = "dereg" /\ frames[1].m = m /\ m \in Mods /\ m # None
      /\ Facts(frames[1]) /\ m \in alive /\ m \notin Listed /\ DebtOf(m) /\ mod[m] \in ModType
  BY <1>1, TopFacts
<1>3. Listed' = Listed /\ alive' = alive /\ ring' = ring /\ order' = order /\ debt' = debt
  BY <1>1 DEF Listed, Single, history
<1>4. PICK n : n = [mod[m] EXCEPT !.state = "UNREGISTERED"]
  OBVIOUS
<1>5. n \in ModType /\ n.state = "UNREGISTERED"
  BY <1>2, <1>4 DEF ModType
<1>6. mod' \in [Mods -> ModType] /\ mod'[m] = n /\ \A x \in Mods \ {m} : mod'[x] = mod[x]
  <2>1. mod' = [mod EXCEPT ![m] = n]
    BY <1>1, <1>4 DEF Deregistered
  <2> QED BY <2>1, <1>2, <1>5, ModSet DEF MInv
<1>7. Others(m)
  BY <1>3, <1>6 DEF Others
<1>8. NotRegistered(m)' /\ debt'[m] # 1
  <2>1. debt[m] = 0
    BY <1>2 DEF Facts
  <2> QED BY <2>1, <1>3, <1>5, <1>6 DEF NotRegistered
<1>9. PICK c : c = Frame("close", m, None)
  OBVIOUS
<1>10. c \in FrameType /\ c.fn = "close" /\ c.m = m /\ Typed(c) /\ Call(<<c>>)
  BY <1>1, <1>2, <1>9 DEF Frame, FrameType, Typed, Ends, Leads
<1>11. Facts(c)' /\ DebtOf(m)' /\ MemberOf(m)'
  BY <1>2, <1>3, <1>8, <1>10 DEF Facts, DebtOf, MemberOf
<1>12. ASSUME NEW a \in FrameType, a.m = m, a.fn \in Follows
       PROVE  Facts(a)' /\ (a.fn = "unload" => NotRegistered(m)')
  BY <1>2, <1>3, <1>8, <1>12 DEF Facts, Follows
<1>13. StackShape' /\ FactsHold' /\ Depths' /\ Debts' /\ Members'
  <2>1. frames[1].fn \in Leads /\ c.fn # "dereg"
    BY <1>1, <1>2, <1>10
  <2> QED BY <2>1, <1>2, <1>7, <1>10, <1>11, <1>12, LeadGoesOn
<1>14. ModTypeOK'
  <2>1. ModTypeOK
    BY DEF MInv
  <2> QED BY <2>1, <1>1, <1>6, <1>13, Types, TypesNext DEF history
<1>15. RingHolds' /\ Distinct'
  BY <1>3, <1>14, RingSame
<1> QED BY <1>13, <1>14, <1>15 DEF Core

\* dlclose, and the end of aem_module_unload.
LEMMA CloseHandleCore == ASSUME MInv, CloseHandle PROVE Core'
<1> PICK m : m = On
  OBVIOUS
<1> PICK h : h = mod[m].handle
  OBVIOUS
<1>1. /\ Calling("close") /\ "close" \in Leads /\ Call(<<>>)
      /\ \/ /\ h # None => refs[h] > 0
            /\ mod' = [mod EXCEPT ![m] = HandleCleared(@)]
            /\ refs' = IF h = None THEN refs ELSE [refs EXCEPT ![h] = @ - 1]
            /\ ret' = 0
         \/ /\ mod' = [mod EXCEPT ![m].def = None]
            /\ ret' = -1
            /\ UNCHANGED refs
      /\ UNCHANGED <<alive, ring, config, history>>
  BY DEF CloseHandle, Leads
<1>2. /\ frames # <<>> /\ frames[1].fn = "close" /\ frames[1].m = m /\ m \in Mods /\ m # None
      /\ Facts(frames[1]) /\ m \in alive /\ m \notin Listed /\ DebtOf(m) /\ mod[m] \in ModType
  BY <1>1, TopFacts
<1>3. Listed' = Listed /\ alive' = alive /\ ring' = ring /\ order' = order /\ debt' = debt
  BY <1>1 DEF Listed, Single, history
<1>4. NotRegistered(m)
  BY <1>2 DEF Facts
<1>5. PICK n \in ModType : mod' = [mod EXCEPT ![m] = n] /\ n.state = mod[m].state
  <2>1. PICK o \in ModType : o = mod[m]
    BY <1>2
  <2>2. PICK n1, n2 : n1 = [o EXCEPT !.def = None, !.handle = None] /\ n2 = [o EXCEPT !.def = None]
    OBVIOUS
  <2>3. n1 \in ModType /\ n1.state = o.state /\ n2 \in ModType /\ n2.state = o.state
    BY <2>1, <2>2 DEF ModType
  <2>4. mod' = [mod EXCEPT ![m] = n1] \/ mod' = [mod EXCEPT ![m] = n2]
    BY <1>1, <2>1, <2>2 DEF HandleCleared
  <2> QED BY <2>1, <2>3, <2>4
<1>6. mod' \in [Mods -> ModType] /\ mod'[m] = n /\ \A x \in Mods \ {m} : mod'[x] = mod[x]
  BY <1>2, <1>5, ModSet DEF MInv
<1>7. Others(m)
  BY <1>3, <1>6 DEF Others
<1>8. NotRegistered(m)' /\ debt'[m] # 1
  BY <1>2, <1>3, <1>4, <1>5, <1>6 DEF NotRegistered, DebtOf
<1>9. DebtOf(m)' /\ MemberOf(m)'
  BY <1>2, <1>3, <1>8 DEF DebtOf, MemberOf
<1>10. ASSUME NEW a \in FrameType, a.m = m, a.fn \in Follows
       PROVE  Facts(a)' /\ (a.fn = "unload" => NotRegistered(m)')
  BY <1>2, <1>3, <1>8, <1>10 DEF Facts, Follows
<1>11. frames[1].fn \in Leads /\ frames \in Seq(FrameType) /\ Shape(frames)
  BY <1>1, <1>2 DEF MInv, StackShape
<1>12. StackShape' /\ frames' = Tail(frames)
  BY <1>1, <1>2, PopShape DEF MInv
<1>13. FactsHold' /\ Depths' /\ Debts' /\ Members'
  <2>1. PICK cs : cs = <<>>
    OBVIOUS
  <2>2. frames' = cs \o Tail(frames) /\ Len(cs) = 0 /\ cs \in Seq(FrameType)
    BY <1>1, <2>1 DEF Call
  <2>3. (\A k \in 1 .. Len(cs) : FALSE) /\ (\A k \in 2 .. Len(cs) : FALSE)
    BY <2>2
  <2>4. \A a \in FrameType : Below(a) /\ a.m = m => Facts(a)' /\ (a.fn = "unload" => NotRegistered(m)')
    BY <1>2, <1>10, <1>11, BelowLead
  <2>5. frames[2].m = m
    BY <1>2, <1>11, LeadOver
  <2> QED BY <1>2, <1>7, <1>8, <1>9, <1>12, <2>1, <2>2, <2>3, <2>4, <2>5, Replaced
<1>14. ret' \in Int /\ refs' \in [Files -> Nat]
  <2>1. refs \in [Files -> Nat] /\ h \in Files \cup {None}
    BY <1>2, Types DEF MInv, ModType
  <2>2. CASE refs' = refs
    BY <1>1, <2>1, <2>2
  <2>3. CASE h # None /\ refs[h] > 0 /\ refs' = [refs EXCEPT ![h] = @ - 1] /\ ret' = 0
    <3>1. refs[h] - 1 \in Nat
      BY <2>1, <2>3
    <3> QED BY <2>1, <2>3, <3>1
  <2> QED BY <1>1, <2>2, <2>3
<1>15. ModTypeOK'
  <2>1. ModTypeOK
    BY DEF MInv
  <2> QED BY <2>1, <1>1, <1>6, <1>12, <1>14, Types, TypesNext DEF history
<1>16. RingHolds' /\ Distinct'
  BY <1>3, <1>15, RingSame
<1> QED BY <1>12, <1>13, <1>15, <1>16 DEF Core

\* Nothing that the invariant is about changes, but ret and the text.
LEMMA SameCore ==
    ASSUME MInv, UNCHANGED <<alive, mod, ring, refs, frames, order, debt, lost>>,
           ret' \in Int, config' \in Seq(Lines), given' \in Seq(Lines), served' \in Seq(Mods)
    PROVE  Core'
<1>1. StackShape'
  BY DEF MInv, StackShape, Shape
<1>2. ModTypeOK'
  <2>1. ModTypeOK
    BY DEF MInv
  <2> QED BY <2>1, <1>1, Types, TypesNext
<1>3. RingHolds' /\ Distinct' /\ Listed' = Listed
  BY <1>2, RingSame
<1>4. FactsHold' /\ Depths' /\ Debts' /\ Members'
  <2>1. FactsHold'
    BY <1>3 DEF MInv, FactsHold, Facts, OpenFile, NotRegistered
  <2>2. Depths'
    BY DEF MInv, Depths, Calling, On, NotRegistered
  <2>3. Debts'
    BY DEF MInv, Debts, DebtOf, NotRegistered
  <2>4. Members'
    BY <1>3 DEF MInv, Members, MemberOf, OpenFile, NotRegistered
  <2> QED BY <2>1, <2>2, <2>3, <2>4
<1> QED BY <1>1, <1>2, <1>3, <1>4 DEF Core

\* A call may be made by a program or by a callback.
LEMMA Callable == ASSUME CanCall PROVE frames # <<>> => frames[1].fn \in {"reg", "dereg"}
BY DEF CanCall, Callbacks

\* module_unload by name.
LEMMA UnloadNamedCore == ASSUME MInv, NEW n, UnloadNamed(n) PROVE Core'
<1>1. PICK m \in Listed :
        /\ CanCall
        /\ \/ /\ Unlink(m)
              /\ frames' = <<Frame("unload", m, None), Frame("dispose", m, None)>> \o frames
              /\ UNCHANGED ret
           \/ ret' = -1 /\ UNCHANGED <<ring, order, frames>>
        /\ UNCHANGED <<alive, mod, refs, config, debt, lost, given, served>>
  BY DEF UnloadNamed
<1>t. ModTypeOK /\ m \in Mods
  BY DEF MInv, Listed
<1>2. CASE ret' = -1 /\ UNCHANGED <<ring, order, frames>>
  <2>1. ret' \in Int /\ config' \in Seq(Lines) /\ given' \in Seq(Lines) /\ served' \in Seq(Mods)
    BY <1>1, <1>2, <1>t, Types
  <2> QED BY <1>1, <1>2, <2>1, SameCore
<1>3. CASE /\ Unlink(m) /\ UNCHANGED ret
           /\ frames' = <<Frame("unload", m, None), Frame("dispose", m, None)>> \o frames
  <2>1. /\ m \in alive /\ ~NotRegistered(m) /\ debt[m] = 1 /\ OpenFile(m) /\ m # None
        /\ \A k \in 1 .. Len(frames) : frames[k].m # m
    <3>1. m \in alive /\ ~NotRegistered(m) /\ debt[m] = 1 /\ OpenFile(m)
      BY <1>t DEF MInv, Members, MemberOf
    <3> QED BY <1>t, <3>1, Whereabouts
  <2>2. /\ ring' \in Rings(Nodes) /\ order' \in Seq(Mods) /\ InOrder(ring', order')
        /\ m \notin Listed' /\ \A x \in Mods \ {m} : x \in Listed' <=> x \in Listed
    BY <1>3, <1>t, UnlinkStep
  <2>3. StackShape'
    BY <1>1, <1>3, <1>t, <2>1, Callable, PushTwoShape DEF MInv
  <2>4. ModTypeOK'
    BY <1>1, <1>3, <1>t, <2>2, <2>3, Types, TypesNext
  <2>5. RingHolds' /\ Distinct'
    BY <2>2, <2>4, RingNext
  <2>6. Others(m)
    BY <1>1, <2>2 DEF Others
  <2>7. PICK u, d : u = Frame("unload", m, None) /\ d = Frame("dispose", m, None)
    OBVIOUS
  <2>8. /\ u \in FrameType /\ u.fn = "unload" /\ u.m = m
        /\ d \in FrameType /\ d.fn = "dispose" /\ d.m = m
    BY <1>t, <2>7 DEF Frame, FrameType, Ends, Leads
  <2>9. Facts(u)' /\ Facts(d)' /\ DebtOf(m)' /\ MemberOf(m)'
    <3>1. mod'[m] = mod[m] /\ debt'[m] = 1 /\ m \in alive'
      BY <1>1, <2>1
    <3>2. OpenFile(m)' /\ ~NotRegistered(m)' /\ mod'[m].handle # None
      BY <2>1, <3>1, ModuleAssumption DEF OpenFile, NotRegistered
    <3>3. Facts(u)' /\ Facts(d)'
      BY <2>2, <2>8, <3>1, <3>2 DEF Facts
    <3> QED BY <2>2, <3>1, <3>2, <3>3 DEF DebtOf, MemberOf
  <2>10. PICK cs, rest : cs = <<u, d>> /\ rest = frames
    OBVIOUS
  <2>11. /\ cs \in Seq(FrameType) /\ cs # <<>> /\ Len(cs) = 2 /\ cs[1] = u /\ cs[2] = d
         /\ rest \in Seq(FrameType) /\ frames' = cs \o rest
    <3>1. frames \in Seq(FrameType)
      BY DEF MInv, StackShape
    <3> QED BY <1>3, <2>7, <2>8, <2>10, <3>1
  <2>12. ASSUME NEW k \in 1 .. Len(rest)
         PROVE  /\ \E j \in 1 .. Len(frames) : frames[j] = rest[k]
                /\ rest[k].fn = "unload" => NotRegistered(rest[k].m)
                /\ rest[k].m # m
    <3>1. k \in 1 .. Len(frames) /\ rest[k] = frames[k] /\ Len(frames) \in Nat
      BY <2>10, <2>11
    <3>2. CASE k = 1
      <4>1. frames # <<>>
        BY <3>1
      <4> QED BY <1>1, <2>1, <3>1, <3>2, <4>1, Callable
    <3>3. CASE k # 1
      <4>1. k \in 2 .. Len(frames)
        BY <3>1, <3>3
      <4> QED BY <2>1, <3>1, <4>1 DEF MInv, Depths
    <3> QED BY <3>2, <3>3
  <2>13. ASSUME NEW k \in 1 .. Len(cs) PROVE cs[k].m = m /\ Facts(cs[k])'
    <3>1. k = 1 \/ k = 2
      BY <2>11
    <3>2. cs[k] = u \/ cs[k] = d
      BY <2>11, <3>1
    <3> QED BY <2>8, <2>9, <3>2
  <2>14. \A k \in 2 .. Len(cs) : cs[k].fn # "unload"
    <3>1. \A k \in 2 .. Len(cs) : k = 2
      BY <2>11
    <3> QED BY <2>8, <2>11, <3>1
  <2>15. cs[1].fn # "dispose"
    BY <2>8, <2>11
  <2>16. FactsHold' /\ Depths' /\ Debts' /\ Members'
    <3>1. Pushes(m, cs, rest)
      BY <2>11, <2>12, <2>13, <2>14, <2>15 DEF Pushes
    <3> QED BY <1>t, <2>3, <2>6, <2>9, <2>11, <3>1, OneModule
  <2> QED BY <2>3, <2>4, <2>5, <2>16 DEF Core
<1> QED BY <1>1, <1>2, <1>3

\* modules_load is called.
LEMMA ConfigureCore == ASSUME MInv, NEW c \in Configs, Configure(c) PROVE Core'
<1>1. /\ frames = <<>> /\ config' = c /\ given' = c /\ served' = <<>> /\ ret' = 0
      /\ frames' = <<Frame("config", None, None)>>
      /\ UNCHANGED <<alive, mod, ring, refs, order, debt, lost>>
  BY DEF Configure
<1>2. PICK f : f = Frame("config", None, None)
  OBVIOUS
<1>3. f \in FrameType /\ f.fn = "config" /\ f.m = None /\ Typed(f)
  BY <1>2 DEF Frame, FrameType, Typed
<1>4. frames' = <<f>> \o frames /\ Len(frames) = 0 /\ frames' = <<f>>
  BY <1>1, <1>2, <1>3
<1>5. StackShape'
  <2>1. \A k \in 1 .. Len(frames) : FALSE
    BY <1>4
  <2>2. f.fn \in (Ends \ {"dispose"}) \cup {"config"} /\ f.fn \notin {"fail", "free"}
    BY <1>3
  <2>3. StackShape /\ frames = <<>> /\ frames' = <<f>> \o frames
    BY <1>1, <1>4 DEF MInv
  <2>4. \A k \in 1 .. Len(frames) : frames[k].m # f.m
    BY <2>1
  <2> QED BY <1>3, <2>2, <2>3, <2>4, PushShape
<1>6. Listed' = Listed
  BY <1>1 DEF Listed, Single
<1>7. ModTypeOK'
  <2>1. ModTypeOK
    BY DEF MInv
  <2>2. c \in Seq(Lines) /\ <<>> \in Seq(Mods)
    BY ModuleAssumption
  <2> QED BY <2>1, <2>2, <1>1, <1>5, Types, TypesNext
<1>8. RingHolds' /\ Distinct'
  BY <1>1, <1>7, RingSame
<1>9. frames' \in Seq(FrameType) /\ Len(frames') = 1 /\ frames'[1] = f
  BY <1>3, <1>4
<1>10. \A k \in 1 .. Len(frames') : k = 1 /\ frames'[k].fn = "config"
  BY <1>3, <1>9
<1>11. \A k \in 2 .. Len(frames') : FALSE
  BY <1>9
<1>12. FactsHold' /\ Depths'
  <2>1. FactsHold'
    BY <1>10 DEF FactsHold
  <2>2. Depths'
    BY <1>3, <1>9, <1>11 DEF Depths, Calling
  <2> QED BY <2>1, <2>2
<1>13. Debts' /\ Members'
  <2>1. Debts'
    BY <1>1 DEF MInv, Debts, DebtOf, NotRegistered
  <2>2. Members'
    BY <1>1, <1>6 DEF MInv, Members, MemberOf, OpenFile, NotRegistered
  <2> QED BY <2>1, <2>2
<1> QED BY <1>5, <1>7, <1>8, <1>12, <1>13 DEF Core

\* modules_load is the first call of all.
LEMMA ConfigLast ==
    ASSUME StackShape, Calling("config")
    PROVE  frames # <<>> /\ Len(frames) = 1 /\ frames[1].fn = "config" /\ Tail(frames) = <<>>
<1>1. frames # <<>> /\ frames[1].fn = "config" /\ frames \in Seq(FrameType) /\ Shape(frames)
  BY DEF Calling, StackShape
<1>2. PICK t : t = Tail(frames)
  OBVIOUS
<1>3. t \in Seq(FrameType) /\ Len(t) = Len(frames) - 1 /\ Len(frames) \in Nat /\ Len(t) \in Nat
  BY <1>1, <1>2, Under
<1>4. ASSUME t # <<>> PROVE FALSE
  <2>1. Len(t) >= 1
    BY <1>3, <1>4, Under
  <2>2. 1 \in 1 .. Len(frames) - 1
    BY <1>3, <2>1
  <2>3. Above(frames[1], frames[1 + 1])
    BY <1>1, <2>2 DEF Shape
  <2> QED BY <1>1, <2>3 DEF Above, Ends
<1>5. Len(frames) = 1
  <2>1. Len(t) = 0
    BY <1>4
  <2> QED BY <1>3, <2>1
<1> QED BY <1>1, <1>2, <1>4, <1>5

\* modules_load reads a line.
LEMMA LineCore == ASSUME MInv, Line PROVE Core'
<1>1. Calling("config") /\ config # <<>> /\ config' = Tail(config)
  BY DEF Line
<1>2. ModTypeOK /\ StackShape
  BY DEF MInv
<1>3. config \in Seq(Lines) /\ given \in Seq(Lines) /\ served \in Seq(Mods) /\ ret \in Int
  BY <1>2, Types
<1>4. config' \in Seq(Lines) /\ config[1] \in Lines
  <2>1. Len(config) # 0
    BY <1>1, <1>3
  <2>2. Tail(config) \in Seq(Lines)
    BY <1>1, <1>3
  <2>3. 1 \in 1 .. Len(config)
    BY <2>1, <1>3
  <2>4. config[1] \in Lines
    BY <2>3, <1>3
  <2> QED BY <1>1, <2>2, <2>4
<1>5. CASE config[1] = None
  <2>1. UNCHANGED <<alive, mod, ring, refs, frames, ret, order, debt, lost, given, served>>
    BY <1>5 DEF Line
  <2> QED BY <1>3, <1>4, <2>1, SameCore
<1>6. CASE config[1] # None
  <2>1. Begin(config[1], frames) /\ UNCHANGED served
    BY <1>6 DEF Line
  <2>2. given' = given
    BY <2>1 DEF Begin
  <2>3. PICK r \in Lines : r = config[1]
    BY <1>4
  <2>4. Begin(r, frames) /\ r # None
    BY <1>6, <2>1, <2>3
  <2>5. frames[1].fn = "config"
    BY <1>1, <1>2, ConfigLast
  <2> QED BY <1>3, <1>4, <2>1, <2>2, <2>4, <2>5, BeginCore
<1> QED BY <1>5, <1>6

\* modules_load returns.
LEMMA ConfiguredCore == ASSUME MInv, Configured PROVE Core'
<1>1. /\ Calling("config") /\ Call(<<>>)
      /\ config' = <<>> /\ given' = <<>> /\ served' = <<>>
      /\ UNCHANGED <<alive, mod, ring, refs, ret, order, debt, lost>>
  BY DEF Configured
<1>2. StackShape /\ ModTypeOK
  BY DEF MInv
<1>3. StackShape' /\ frames' = <<>> /\ Len(frames') = 0
  <2>1. frames # <<>> /\ Tail(frames) = <<>>
    BY <1>1, <1>2, ConfigLast
  <2>2. StackShape' /\ frames' = Tail(frames)
    BY <1>1, <1>2, <2>1, PopShape
  <2> QED BY <2>1, <2>2
<1>4. ModTypeOK'
  <2>1. <<>> \in Seq(Lines) /\ <<>> \in Seq(Mods)
    OBVIOUS
  <2> QED BY <1>1, <1>2, <1>3, <2>1, Types, TypesNext
<1>5. Listed' = Listed
  BY <1>1 DEF Listed, Single
<1>6. RingHolds' /\ Distinct'
  BY <1>1, <1>4, RingSame
<1>7. FactsHold' /\ Depths'
  <2>1. (\A k \in 1 .. Len(frames') : FALSE) /\ (\A k \in 2 .. Len(frames') : FALSE)
    BY <1>3
  <2> QED BY <1>3, <2>1 DEF FactsHold, Depths, Calling
<1>8. Debts' /\ Members'
  <2>1. Debts'
    BY <1>1 DEF MInv, Debts, DebtOf, NotRegistered
  <2>2. Members'
    BY <1>1, <1>5 DEF MInv, Members, MemberOf, OpenFile, NotRegistered
  <2> QED BY <2>1, <2>2
<1> QED BY <1>3, <1>4, <1>6, <1>7, <1>8 DEF Core

\* Every step keeps what the calls rely on, and the ring.
LEMMA CoreStep == ASSUME MInv, [ModNext]_modVars PROVE Core'
<1>1. ModTypeOK /\ config \in Seq(Lines) /\ given \in Seq(Lines) /\ served \in Seq(Mods) /\ ret \in Int
  <2>1. ModTypeOK
    BY DEF MInv
  <2> QED BY <2>1, Types
<1>2. CASE \E r \in Requests : Load(r)
  <2>1. PICK r \in Requests : Load(r)
    BY <1>2
  <2>2. r \in Lines /\ r # None
    BY ModuleAssumption
  <2>3. CanCall /\ Begin(r, frames) /\ UNCHANGED <<config, served>>
    BY <2>1 DEF Load
  <2>4. given' = given
    BY <2>3 DEF Begin
  <2>5. frames # <<>> => frames[1].fn \in {"reg", "dereg", "config"}
    BY <2>3, Callable
  <2> QED BY <1>1, <2>2, <2>3, <2>4, <2>5, BeginCore
<1>3. CASE \E n \in Wanted : UnloadNamed(n) \/ NotFound(n)
  <2>1. PICK n \in Wanted : UnloadNamed(n) \/ NotFound(n)
    BY <1>3
  <2>2. CASE NotFound(n)
    <3>1. ret' = -1 /\ UNCHANGED <<alive, mod, ring, refs, frames, config, history>>
      BY <2>2 DEF NotFound
    <3>2. ret' \in Int /\ config' \in Seq(Lines) /\ given' \in Seq(Lines) /\ served' \in Seq(Mods)
      BY <1>1, <3>1 DEF history
    <3> QED BY <3>1, <3>2, SameCore DEF history
  <2> QED BY <2>1, <2>2, UnloadNamedCore
<1>4. CASE UNCHANGED modVars
  <2>1. UNCHANGED <<alive, mod, ring, refs, frames, ret, config, order, debt, lost, given, served>>
    BY <1>4 DEF modVars, history
  <2> QED BY <1>1, <2>1, SameCore
<1> QED BY <1>2, <1>3, <1>4, OpenCore, RegisterModuleCore, RegReturnsCore, LinkInCore, FailCore,
        UnloadCore, DeregReturnsCore, CloseHandleCore, DisposeCore, FreeCore, ConfigureCore,
        LineCore, ConfiguredCore DEF ModNext

-----------------------------------------------------------------------------
(* The handles of dlopen *)

\* The modules that hold a handle of file f.
Holders(f) == {m \in alive : mod[m].handle = f}

\* Few modules hold a handle of a file.
LEMMA HoldersFinite == ASSUME MInv, NEW f \in Files PROVE IsFiniteSet(Holders(f)) /\ Cardinality(Holders(f)) \in Nat
<1>1. Holders(f) \subseteq Mods /\ IsFiniteSet(Mods)
  BY Whereabouts, ModuleAssumption DEF Holders
<1>2. IsFiniteSet(Holders(f))
  BY <1>1, FS_Subset
<1> QED BY <1>2, FS_CardinalityType

\* The balance of one file.
LEMMA Balance == ASSUME MInv, NEW f \in Files PROVE refs[f] = Cardinality(Holders(f)) + lost[f]
BY DEF MInv, HandlesBalanced, Holders

\* A step that opens and closes nothing.
LEMMA BalanceKept ==
    ASSUME MInv, alive' \subseteq Mods, refs' = refs, lost' = lost,
           \A f \in Files, x \in Mods : x \in alive' /\ mod'[x].handle = f <=> x \in alive /\ mod[x].handle = f
    PROVE  HandlesBalanced'
<1>1. alive \subseteq Mods
  BY Whereabouts
<1>2. ASSUME NEW f \in Files PROVE refs'[f] = Cardinality({m \in alive' : mod'[m].handle = f}) + lost'[f]
  <2>1. {m \in alive' : mod'[m].handle = f} = Holders(f)
    BY <1>1 DEF Holders
  <2> QED BY <2>1, Balance
<1> QED BY <1>2 DEF HandlesBalanced

\* A step that changes what module m holds, and nothing about the others.
LEMMA HandlesSame ==
    ASSUME MInv, NEW m \in Mods, alive' = alive, refs' = refs, lost' = lost,
           \A x \in Mods \ {m} : mod'[x] = mod[x], mod'[m].handle = mod[m].handle
    PROVE  HandlesBalanced'
<1>1. alive' \subseteq Mods
  BY Whereabouts
<1>2. \A x \in Mods : mod'[x].handle = mod[x].handle
  OBVIOUS
<1> QED BY <1>1, <1>2, BalanceKept

\* m has been given a handle of f, or is left without the one it had.
LEMMA HandleGained ==
    ASSUME MInv, NEW m \in alive, NEW f \in Files, mod[m].handle # f, mod[m].handle \notin Files,
           alive' = alive, mod'[m].handle = f, \A x \in Mods \ {m} : mod'[x] = mod[x],
           refs' = [refs EXCEPT ![f] = @ + 1], lost' = lost
    PROVE  HandlesBalanced'
<1>1. alive \subseteq Mods /\ refs \in [Files -> Nat] /\ lost \in [Files -> Nat]
  BY Whereabouts, Types DEF MInv
<1>2. ASSUME NEW g \in Files PROVE refs'[g] = Cardinality({x \in alive' : mod'[x].handle = g}) + lost'[g]
  <2>1. PICK H : H = {x \in alive' : mod'[x].handle = g}
    OBVIOUS
  <2>2. IsFiniteSet(Holders(g)) /\ Cardinality(Holders(g)) \in Nat /\ refs[g] = Cardinality(Holders(g)) + lost[g]
    BY HoldersFinite, Balance
  <2>3. CASE g = f
    <3>1. H = Holders(g) \cup {m} /\ m \notin Holders(g)
      BY <1>1, <2>1, <2>3 DEF Holders
    <3>2. Cardinality(H) = Cardinality(Holders(g)) + 1
      BY <2>2, <3>1, FS_AddElement
    <3>3. refs'[g] = refs[g] + 1 /\ lost'[g] = lost[g] /\ lost[g] \in Nat
      BY <1>1, <2>3
    <3> QED BY <2>1, <2>2, <3>2, <3>3
  <2>4. CASE g # f
    <3>1. H = Holders(g)
      BY <1>1, <2>1, <2>4 DEF Holders
    <3>2. refs'[g] = refs[g] /\ lost'[g] = lost[g]
      BY <1>1, <2>4
    <3> QED BY <2>1, <2>2, <3>1, <3>2
  <2> QED BY <2>3, <2>4
<1> QED BY <1>2 DEF HandlesBalanced

\* m loses the handle it held: it is closed, or m is freed.
LEMMA HandleLost ==
    ASSUME MInv, NEW m \in alive, NEW f \in Files, mod[m].handle = f,
           m \notin alive' \/ mod'[m].handle \notin Files, alive' \subseteq alive,
           \A x \in Mods \ {m} : mod'[x] = mod[x] /\ (x \in alive' <=> x \in alive),
           \/ refs' = [refs EXCEPT ![f] = @ - 1] /\ lost' = lost
           \/ refs' = refs /\ lost' = [lost EXCEPT ![f] = @ + 1]
    PROVE  HandlesBalanced'
<1>1. alive \subseteq Mods /\ refs \in [Files -> Nat] /\ lost \in [Files -> Nat]
  BY Whereabouts, Types DEF MInv
<1>2. ASSUME NEW g \in Files PROVE refs'[g] = Cardinality({x \in alive' : mod'[x].handle = g}) + lost'[g]
  <2>1. PICK H : H = {x \in alive' : mod'[x].handle = g}
    OBVIOUS
  <2>2. IsFiniteSet(Holders(g)) /\ Cardinality(Holders(g)) \in Nat /\ refs[g] = Cardinality(Holders(g)) + lost[g]
        /\ refs[g] \in Nat /\ lost[g] \in Nat
    BY <1>1, HoldersFinite, Balance
  <2>3. CASE g = f
    <3>1. H = Holders(g) \ {m} /\ m \in Holders(g)
      BY <1>1, <2>1, <2>3 DEF Holders
    <3>2. Cardinality(H) = Cardinality(Holders(g)) - 1
      BY <2>2, <3>1, FS_RemoveElement
    <3>3. (refs'[g] = refs[g] - 1 /\ lost'[g] = lost[g]) \/ (refs'[g] = refs[g] /\ lost'[g] = lost[g] + 1)
      BY <1>1, <2>3
    <3> QED BY <2>1, <2>2, <3>2, <3>3
  <2>4. CASE g # f
    <3>1. H = Holders(g)
      BY <1>1, <2>1, <2>4 DEF Holders
    <3>2. refs'[g] = refs[g] /\ lost'[g] = lost[g]
      BY <1>1, <2>4
    <3> QED BY <2>1, <2>2, <3>1, <3>2
  <2> QED BY <2>3, <2>4
<1> QED BY <1>2 DEF HandlesBalanced

\* A part of a module other than its handle is assigned.
LEMMA HandleField ==
    ASSUME MInv, NEW m \in alive, alive' = alive, refs' = refs, lost' = lost,
           NEW n, mod' = [mod EXCEPT ![m] = n], n.handle = mod[m].handle
    PROVE  HandlesBalanced'
<1>1. mod \in [Mods -> ModType] /\ m \in Mods
  BY Types, Whereabouts DEF MInv
<1>2. mod'[m] = n /\ \A x \in Mods \ {m} : mod'[x] = mod[x]
  BY <1>1
<1> QED BY <1>1, <1>2, HandlesSame

\* A step that touches no module and no handle.
LEMMA HandlesKept ==
    ASSUME MInv, UNCHANGED <<alive, mod, refs, lost>> PROVE HandlesBalanced'
BY DEF MInv, HandlesBalanced

\* A new module holds nothing.
LEMMA BeginHandles == ASSUME MInv, NEW r, Begin(r, frames) PROVE HandlesBalanced'
<1>1. PICK m \in Mods \ alive :
        /\ alive' = alive \cup {m}
        /\ mod' = [mod EXCEPT ![m] = Fresh(Resolve[r.name])]
        /\ UNCHANGED <<refs, lost>>
  BY DEF Begin
<1>2. mod \in [Mods -> ModType] /\ alive \subseteq Mods /\ None \notin Files
  BY Types, Whereabouts, ModuleAssumption DEF MInv
<1>3. mod'[m].handle = None /\ \A x \in Mods \ {m} : mod'[x] = mod[x]
  BY <1>1, <1>2 DEF Fresh
<1> QED BY <1>1, <1>2, <1>3, BalanceKept

\* dlopen gives one handle to the module on top.
LEMMA OpenHandles == ASSUME MInv, Open PROVE HandlesBalanced'
<1> PICK m : m = On
  OBVIOUS
<1> PICK f : f = mod[m].path
  OBVIOUS
<1>1. /\ Calling("open") /\ "open" \in Ends
      /\ alive' = alive /\ lost' = lost /\ refs' = [refs EXCEPT ![f] = @ + 1]
  BY DEF Open, history, Ends
<1>2. PICK n : mod' = [mod EXCEPT ![m] = n] /\ n.handle = f
  <2>1. mod[m] \in ModType
    BY <1>1, TopFacts
  <2>2. PICK o \in ModType : o = mod[m]
    BY <2>1
  <2>3. PICK d, s, st, w, n :
            /\ n = [[o EXCEPT !.handle = f, !.within = w, !.def = d, !.name = s] EXCEPT !.state = st]
            /\ mod' = [mod EXCEPT ![m] = n]
    BY <2>2 DEF Open
  <2>4. n.handle = f
    BY <2>3 DEF ModType
  <2> QED BY <2>3, <2>4
<1>3. /\ frames[1].fn = "open" /\ frames[1].m = m /\ m \in Mods /\ Facts(frames[1]) /\ m \in alive
  BY <1>1, TopFacts
<1>4. f \in Files /\ mod[m].handle = None /\ None \notin Files
  BY <1>3, ModuleAssumption DEF Facts
<1>5. mod \in [Mods -> ModType]
  BY Types DEF MInv
<1>6. mod'[m].handle = f /\ \A x \in Mods \ {m} : mod'[x] = mod[x]
  BY <1>2, <1>3, <1>5
<1>7. mod[m].handle # f /\ mod[m].handle \notin Files
  BY <1>4
<1> QED BY <1>1, <1>3, <1>4, <1>6, <1>7, HandleGained

\* What happens to a module between dlopen and dlclose leaves its handle alone.
LEMMA StepHandles ==
    ASSUME MInv, RegisterModule \/ RegReturns \/ Unload \/ DeregReturns PROVE HandlesBalanced'
<1> PICK m : m = On
  OBVIOUS
<1>1. PICK fn \in {"register", "reg", "unload", "dereg"} : Calling(fn)
  BY DEF RegisterModule, RegReturns, Unload, DeregReturns
<1>2. fn \in Ends \cup Leads
  BY DEF Ends, Leads
<1>3. m \in alive /\ mod[m] \in ModType
  BY <1>1, <1>2, TopFacts
<1>4. alive' = alive /\ refs' = refs /\ lost' = lost
  BY DEF RegisterModule, RegReturns, Unload, DeregReturns, history
<1>5. PICK o \in ModType : o = mod[m]
  BY <1>3
<1>6. \/ mod' = mod
      \/ \E st, s : mod' = [mod EXCEPT ![m] = [o EXCEPT !.state = st, !.name = s]]
      \/ \E st : mod' = [mod EXCEPT ![m] = [o EXCEPT !.state = st]]
  <2>1. CASE RegisterModule
    BY <1>5, <2>1 DEF RegisterModule
  <2>2. CASE RegReturns
    <3>1. mod' = mod \/ mod' = [mod EXCEPT ![m].state = "REGISTERED",
                                           ![m].name = IF Def[mod[m].def].renames /\ Arg # None
                                                       THEN Append(@, Arg) ELSE @]
      BY <2>2 DEF RegReturns
    <3>2. PICK s : s = IF Def[mod[m].def].renames /\ Arg # None THEN Append(o.name, Arg) ELSE o.name
      OBVIOUS
    <3>3. mod \in [Mods -> ModType] /\ m \in Mods
      BY <1>3, Types, Whereabouts DEF MInv
    <3>4. CASE mod' = [mod EXCEPT ![m].state = "REGISTERED",
                                  ![m].name = IF Def[mod[m].def].renames /\ Arg # None
                                              THEN Append(@, Arg) ELSE @]
      <4>1. mod' = [mod EXCEPT ![m] = [o EXCEPT !.state = "REGISTERED", !.name = s]]
        BY <1>5, <3>2, <3>3, <3>4 DEF ModType
      <4> QED BY <4>1
    <3> QED BY <3>1, <3>4
  <2>3. CASE Unload
    BY <1>5, <2>3 DEF Unload
  <2>4. CASE DeregReturns
    BY <1>5, <2>4 DEF DeregReturns, Deregistered
  <2> QED BY <2>1, <2>2, <2>3, <2>4
<1>7. CASE mod' = mod
  BY <1>4, <1>7, HandlesKept
<1>8. CASE \E st, s : mod' = [mod EXCEPT ![m] = [o EXCEPT !.state = st, !.name = s]]
  <2>1. PICK st, s : mod' = [mod EXCEPT ![m] = [o EXCEPT !.state = st, !.name = s]]
    BY <1>8
  <2>2. PICK n : n = [o EXCEPT !.state = st, !.name = s]
    OBVIOUS
  <2>3. n.handle = mod[m].handle /\ mod' = [mod EXCEPT ![m] = n]
    BY <1>5, <2>1, <2>2 DEF ModType
  <2> QED BY <1>3, <1>4, <2>3, HandleField
<1>9. CASE \E st : mod' = [mod EXCEPT ![m] = [o EXCEPT !.state = st]]
  <2>1. PICK st : mod' = [mod EXCEPT ![m] = [o EXCEPT !.state = st]]
    BY <1>9
  <2>2. PICK n : n = [o EXCEPT !.state = st]
    OBVIOUS
  <2>3. n.handle = mod[m].handle /\ mod' = [mod EXCEPT ![m] = n]
    BY <1>5, <2>1, <2>2 DEF ModType
  <2> QED BY <1>3, <1>4, <2>3, HandleField
<1> QED BY <1>6, <1>7, <1>8, <1>9

\* dlclose takes one handle from the module on top, or fails.
LEMMA CloseHandles == ASSUME MInv, CloseHandle PROVE HandlesBalanced'
<1> PICK m : m = On
  OBVIOUS
<1> PICK h : h = mod[m].handle
  OBVIOUS
<1>1. /\ Calling("close") /\ "close" \in Leads
      /\ \/ /\ h # None => refs[h] > 0
            /\ mod' = [mod EXCEPT ![m] = HandleCleared(@)]
            /\ refs' = IF h = None THEN refs ELSE [refs EXCEPT ![h] = @ - 1]
         \/ /\ mod' = [mod EXCEPT ![m].def = None]
            /\ UNCHANGED refs
      /\ alive' = alive /\ lost' = lost
  BY DEF CloseHandle, Leads, history
<1>2. m \in Mods /\ m \in alive /\ mod[m] \in ModType
  BY <1>1, TopFacts
<1>3. PICK o \in ModType : o = mod[m]
  BY <1>2
<1>4. mod \in [Mods -> ModType] /\ None \notin Files /\ alive \subseteq Mods
  BY Types, ModuleAssumption, Whereabouts DEF MInv
<1>5. h \in Files \cup {None}
  BY <1>2 DEF ModType
<1>6. CASE mod' = [mod EXCEPT ![m].def = None] /\ refs' = refs
  <2>1. PICK n : n = [o EXCEPT !.def = None]
    OBVIOUS
  <2>2. n.handle = mod[m].handle /\ mod' = [mod EXCEPT ![m] = n]
    BY <1>3, <1>6, <2>1 DEF ModType
  <2> QED BY <1>1, <1>2, <1>6, <2>2, HandleField
<1>7. CASE /\ mod' = [mod EXCEPT ![m] = HandleCleared(@)]
           /\ refs' = IF h = None THEN refs ELSE [refs EXCEPT ![h] = @ - 1]
  <2>1. PICK n : n = [o EXCEPT !.def = None, !.handle = None]
    OBVIOUS
  <2>2. n.handle = None /\ mod' = [mod EXCEPT ![m] = n]
    BY <1>3, <1>7, <2>1 DEF ModType, HandleCleared
  <2>3. CASE h = None
    <3>1. refs' = refs
      BY <1>7, <2>3
    <3> QED BY <1>1, <1>2, <2>2, <2>3, <3>1, HandleField
  <2>4. CASE h # None
    <3>1. refs' = [refs EXCEPT ![h] = @ - 1] /\ h \in Files
      BY <1>5, <1>7, <2>4
    <3>2. mod'[m].handle = None /\ \A x \in Mods \ {m} : mod'[x] = mod[x]
      BY <1>2, <1>4, <2>2
    <3> QED BY <1>1, <1>2, <1>4, <3>1, <3>2, HandleLost
  <2> QED BY <2>3, <2>4
<1> QED BY <1>1, <1>6, <1>7

\* A handle that a freed module still had is lost.
LEMMA FreeHandles == ASSUME MInv, Free PROVE HandlesBalanced'
<1> PICK m : m = On
  OBVIOUS
<1> PICK h : h = mod[m].handle
  OBVIOUS
<1>1. /\ Calling("free") /\ "free" \in Ends
      /\ alive' = alive \ {m} /\ mod' = [mod EXCEPT ![m] = Blank]
      /\ lost' = (IF h = None THEN lost ELSE [lost EXCEPT ![h] = @ + 1])
      /\ refs' = refs
  BY DEF Free, Ends
<1>2. m \in Mods /\ m \in alive /\ mod[m] \in ModType
  BY <1>1, TopFacts
<1>3. mod \in [Mods -> ModType] /\ None \notin Files /\ alive \subseteq Mods /\ h \in Files \cup {None}
  BY <1>2, Types, ModuleAssumption, Whereabouts DEF MInv, ModType
<1>4. m \notin alive' /\ \A x \in Mods \ {m} : mod'[x] = mod[x] /\ (x \in alive' <=> x \in alive)
  BY <1>1, <1>2, <1>3
<1>5. CASE h = None
  <2>1. \A f \in Files, x \in Mods : x \in alive' /\ mod'[x].handle = f <=> x \in alive /\ mod[x].handle = f
    BY <1>3, <1>4, <1>5
  <2>2. lost' = lost /\ alive' \subseteq Mods
    BY <1>1, <1>3, <1>5
  <2> QED BY <1>1, <2>1, <2>2, BalanceKept
<1>6. CASE h # None
  <2>1. h \in Files /\ lost' = [lost EXCEPT ![h] = @ + 1] /\ alive' \subseteq alive
    BY <1>1, <1>3, <1>6
  <2> QED BY <1>1, <1>2, <1>4, <2>1, HandleLost
<1> QED BY <1>5, <1>6

\* Every step keeps the handles balanced.
LEMMA HandlesStep == ASSUME MInv, [ModNext]_modVars PROVE HandlesBalanced'
<1>1. ASSUME NEW r \in Requests, Load(r) PROVE HandlesBalanced'
  BY <1>1, BeginHandles DEF Load
<1>2. ASSUME Line PROVE HandlesBalanced'
  <2>1. (\E r : Begin(r, frames)) \/ UNCHANGED <<alive, mod, refs, lost>>
    BY <1>2 DEF Line
  <2> QED BY <2>1, BeginHandles, HandlesKept
<1>3. ASSUME LinkIn \/ Fail \/ Dispose \/ Configured \/ UNCHANGED modVars PROVE HandlesBalanced'
  <2>1. UNCHANGED <<alive, mod, refs, lost>>
    BY <1>3 DEF LinkIn, Fail, Dispose, Configured, modVars, history
  <2> QED BY <2>1, HandlesKept
<1>4. ASSUME NEW n, UnloadNamed(n) \/ NotFound(n) PROVE HandlesBalanced'
  <2>1. UNCHANGED <<alive, mod, refs, lost>>
    BY <1>4 DEF UnloadNamed, NotFound, history
  <2> QED BY <2>1, HandlesKept
<1>5. ASSUME NEW c, Configure(c) PROVE HandlesBalanced'
  <2>1. UNCHANGED <<alive, mod, refs, lost>>
    BY <1>5 DEF Configure
  <2> QED BY <2>1, HandlesKept
<1> QED BY <1>1, <1>2, <1>3, <1>4, <1>5, OpenHandles, StepHandles, CloseHandles, FreeHandles DEF ModNext

-----------------------------------------------------------------------------
(* Singletons *)

\* The calls whose module is registered, or about to be.
Entering == {"register", "reg", "insert"}

\* Who is present.
LEMMA PresentIs ==
    \A x : x \in Present <=> x \in Listed \/ \E k \in 1 .. Len(frames) : frames[k].fn \in Entering /\ frames[k].m = x
BY DEF Present, Entering

\* Who is present after a step.
LEMMA PresentIsNext ==
    \A x : x \in Present' <=> x \in Listed' \/ \E k \in 1 .. Len(frames') : frames'[k].fn \in Entering /\ frames'[k].m = x
BY DEF Present, Entering

\* What is below another call is one of those that wait.
LEMMA Waiting ==
    ASSUME MInv, NEW k \in 2 .. Len(frames)
    PROVE  frames[k].fn \in Follows \cup {"reg", "dereg", "config"}
<1>1. frames \in Seq(FrameType) /\ Shape(frames)
  BY DEF MInv, StackShape
<1>2. PICK j \in 1 .. Len(frames) - 1 : k = j + 1
  <2>1. k - 1 \in 1 .. Len(frames) - 1 /\ k = (k - 1) + 1
    BY <1>1
  <2> QED BY <2>1
<1>3. Above(frames[j], frames[k])
  BY <1>1, <1>2 DEF Shape
<1> QED BY <1>3 DEF Above, Follows

\* The module under the call on top is not among those present, unless that call enters it.
LEMMA AbsentTop ==
    ASSUME MInv, NEW fn \in (Ends \cup Leads) \ Entering, Calling(fn)
    PROVE  On \notin Present
<1>1. PICK m : m = On
  OBVIOUS
<1>2. /\ frames # <<>> /\ frames[1].fn = fn /\ frames[1].m = m /\ m \notin Listed
  BY <1>1, TopFacts
<1>3. frames \in Seq(FrameType) /\ Shape(frames) /\ Len(frames) \in Nat
  BY DEF MInv, StackShape
<1>4. ASSUME NEW k \in 1 .. Len(frames), frames[k].fn \in Entering, frames[k].m = m PROVE FALSE
  <2>1. CASE k = 1
    BY <1>2, <1>4, <2>1
  <2>2. CASE k # 1
    <3>1. k \in 2 .. Len(frames)
      BY <1>3, <2>2
    <3>2. CASE fn \in Ends
      BY <1>2, <1>3, <1>4, <3>1, <3>2, OnlyOne
    <3>3. CASE fn \in Leads
      BY <1>2, <1>3, <1>4, <3>1, <3>3, LeadOver DEF Entering, Follows
    <3> QED BY <3>2, <3>3
  <2> QED BY <2>1, <2>2
<1> QED BY <1>1, <1>2, <1>4, PresentIs

\* Nobody enters.
LEMMA OneEachLess ==
    ASSUME MInv,
           \A x \in Present' : x \in Present /\ mod'[x].def = mod[x].def /\ mod'[x].within = mod[x].within
    PROVE  OneEach'
<1>1. ASSUME NEW x \in Present', NEW y \in Present', x # y, mod'[x].def = mod'[y].def, Def[mod'[x].def].singleton
      PROVE  x \in mod'[y].within \/ y \in mod'[x].within
  <2>1. x \in Present /\ y \in Present /\ mod[x].def = mod[y].def /\ Def[mod[x].def].singleton
    BY <1>1
  <2>2. x \in mod[y].within \/ y \in mod[x].within
    BY <1>1, <2>1 DEF MInv, OneEach
  <2> QED BY <2>2
<1> QED BY <1>1 DEF OneEach

\* The call on top is replaced by others about its module.
LEMMA PresentTop ==
    ASSUME MInv, frames # <<>>, NEW m, frames[1].m = m, NEW cs \in Seq(FrameType), Call(cs),
           \A k \in 1 .. Len(cs) : cs[k].m = m /\ (cs[k].fn \in Entering => frames[1].fn \in Entering),
           \A x \in Listed' : x \in Listed \/ (x = m /\ frames[1].fn \in Entering)
    PROVE  Present' \subseteq Present
<1>1. frames \in Seq(FrameType) /\ frames' = cs \o Tail(frames)
  BY DEF MInv, StackShape, Call
<1>2. PICK rest : rest = Tail(frames)
  OBVIOUS
<1>3. /\ rest \in Seq(FrameType)
      /\ \A k \in 1 .. Len(rest) : k + 1 \in 2 .. Len(frames) /\ rest[k] = frames[k + 1]
  BY <1>2, BelowTop
<1>4. PICK s : s = frames'
  OBVIOUS
<1>5. /\ s \in Seq(FrameType) /\ Len(s) = Len(cs) + Len(rest) /\ Len(cs) \in Nat /\ Len(rest) \in Nat
      /\ \A k \in 1 .. Len(cs) : s[k] = cs[k]
      /\ \A k \in 1 .. Len(s) : k > Len(cs) => k - Len(cs) \in 1 .. Len(rest) /\ s[k] = rest[k - Len(cs)]
  BY <1>1, <1>2, <1>3, <1>4, Joined
<1>6. ASSUME NEW k \in 1 .. Len(s)
      PROVE  s[k].fn \in Entering => s[k].m \in Present
  <2>1. CASE k <= Len(cs)
    <3>1. k \in 1 .. Len(cs) /\ s[k] = cs[k]
      BY <1>5, <2>1
    <3>2. 1 \in 1 .. Len(frames)
      BY <1>1, Under
    <3>3. frames[1].fn \in Entering => m \in Present
      BY <3>2, PresentIs
    <3> QED BY <3>1, <3>3
  <2>2. CASE k > Len(cs)
    <3>1. PICK j : j = k - Len(cs) + 1
      OBVIOUS
    <3>2. j \in 2 .. Len(frames) /\ s[k] = frames[j] /\ j \in 1 .. Len(frames)
      <4>1. k - Len(cs) \in 1 .. Len(rest) /\ s[k] = rest[k - Len(cs)]
        BY <1>5, <2>2
      <4>2. j \in 2 .. Len(frames) /\ s[k] = frames[j]
        BY <1>3, <3>1, <4>1
      <4> QED BY <1>1, <4>2
    <3>3. frames[j].fn \in Entering => frames[j].m \in Present
      BY <3>2, PresentIs
    <3> QED BY <3>2, <3>3
  <2> QED BY <1>5, <2>1, <2>2
<1>7. ASSUME NEW x \in Present' PROVE x \in Present
  <2>1. CASE x \in Listed'
    <3>1. 1 \in 1 .. Len(frames)
      BY <1>1, Under
    <3> QED BY <2>1, <3>1, PresentIs
  <2>2. CASE x \notin Listed'
    <3>1. PICK k \in 1 .. Len(s) : s[k].fn \in Entering /\ s[k].m = x
      BY <1>4, <1>7, <2>2, PresentIsNext
    <3> QED BY <3>1, <1>6
  <2> QED BY <2>1, <2>2
<1> QED BY <1>7

\* What is called by the calls that leave, which then return or go on with those.
LEMMA LeaveCalls ==
    ASSUME MInv, Fail \/ Unload \/ DeregReturns \/ CloseHandle \/ Dispose \/ Free, NEW m, m = On
    PROVE  \E cs \in Seq(FrameType) :
              /\ Call(cs)
              /\ cs # <<>> \/ (Dispose /\ ret # 0) \/ CloseHandle \/ Free
              /\ \A k \in 1 .. Len(cs) : cs[k].m = m /\ cs[k].fn \in {"unload", "free", "dereg", "close"}
<1>a. PICK fn \in {"fail", "unload", "dereg", "close", "dispose", "free"} : Calling(fn)
  BY DEF Fail, Unload, DeregReturns, CloseHandle, Dispose, Free
<1>b. fn \in Ends \cup Leads
  BY DEF Ends, Leads
<1>c. m \in Mods /\ m # None
  BY <1>a, <1>b, TopFacts
<1> DEFINE good(f) == f \in FrameType /\ f.m = m /\ f.fn \in {"unload", "free", "dereg", "close"}
<1>0. ASSUME NEW gn \in {"unload", "free", "dereg", "close"}, NEW v \in {None} \cup Int
      PROVE good(Frame(gn, m, v))
  BY <1>c DEF Frame, FrameType, Ends, Leads
<1>1. CASE Fail
  <2>1. Arg \in Int
    BY <1>1, Top DEF MInv, Fail, Ends
  <2>2. PICK u, f : u = Frame("unload", m, None) /\ f = Frame("free", m, Arg)
    OBVIOUS
  <2>3. good(u) /\ good(f)
    BY <1>0, <2>1, <2>2
  <2>4. Call(<<u, u, f>>)
    BY <1>1, <2>2 DEF Fail
  <2>5. PICK cs : cs = <<u, u, f>>
    OBVIOUS
  <2>6. cs \in Seq(FrameType) /\ Len(cs) = 3 /\ cs[1] = u /\ cs[2] = u /\ cs[3] = f
    BY <2>3, <2>5
  <2>7. ASSUME NEW k \in 1 .. Len(cs) PROVE good(cs[k])
    <3>1. k = 1 \/ k = 2 \/ k = 3
      BY <2>6
    <3>2. cs[k] = u \/ cs[k] = f
      BY <2>6, <3>1
    <3> QED BY <2>3, <3>2
  <2> QED BY <2>4, <2>5, <2>6, <2>7
<1>2. CASE Dispose /\ ret = 0
  <2>1. PICK u, f : u = Frame("unload", m, None) /\ f = Frame("free", m, 0)
    OBVIOUS
  <2>2. good(u) /\ good(f)
    BY <1>0, <2>1
  <2>3. Call(<<u, f>>)
    BY <1>2, <2>1 DEF Dispose
  <2>4. PICK cs : cs = <<u, f>>
    OBVIOUS
  <2>5. cs \in Seq(FrameType) /\ cs # <<>> /\ Call(cs) /\ Len(cs) = 2 /\ cs[1] = u /\ cs[2] = f
    BY <2>2, <2>3, <2>4
  <2>6. ASSUME NEW k \in 1 .. Len(cs) PROVE good(cs[k])
    <3>1. k = 1 \/ k = 2
      BY <2>5
    <3>2. cs[k] = u \/ cs[k] = f
      BY <2>5, <3>1
    <3> QED BY <2>2, <3>2
  <2> QED BY <2>5, <2>6
<1>3. CASE (Dispose /\ ret # 0) \/ CloseHandle \/ Free
  <2>1. Call(<<>>)
    BY <1>3 DEF Dispose, CloseHandle, Free
  <2>2. PICK cs : cs = <<>>
    OBVIOUS
  <2>3. cs \in Seq(FrameType) /\ Len(cs) = 0 /\ Call(cs)
    BY <2>1, <2>2
  <2>4. \A k \in 1 .. Len(cs) : FALSE
    BY <2>3
  <2>5. (Dispose /\ ret # 0) \/ CloseHandle \/ Free
    BY <1>3
  <2>6. \A k \in 1 .. Len(cs) : cs[k].m = m /\ cs[k].fn \in {"unload", "free", "dereg", "close"}
    BY <2>4
  <2> QED BY <2>3, <2>5, <2>6
<1>4. CASE Unload \/ DeregReturns
  <2>1. PICK gn \in {"dereg", "close"} : Call(<<Frame(gn, m, None)>>)
    BY <1>4 DEF Unload, DeregReturns
  <2>2. PICK u : u = Frame(gn, m, None)
    OBVIOUS
  <2>3. good(u)
    BY <1>0, <2>2
  <2>4. PICK cs : cs = <<u>>
    OBVIOUS
  <2>5. cs \in Seq(FrameType) /\ cs # <<>> /\ Len(cs) = 1 /\ cs[1] = u /\ Call(cs)
    BY <2>1, <2>2, <2>3, <2>4
  <2>6. ASSUME NEW k \in 1 .. Len(cs) PROVE good(cs[k])
    <3>1. cs[k] = u
      BY <2>5
    <3> QED BY <2>3, <3>1
  <2> QED BY <2>5, <2>6
<1> QED BY <1>1, <1>2, <1>3, <1>4

\* The calls that leave, one after another.
LEMMA LeaveOneEach ==
    ASSUME MInv, Fail \/ Unload \/ DeregReturns \/ CloseHandle \/ Dispose \/ Free
    PROVE  OneEach'
<1> PICK m : m = On
  OBVIOUS
<1>1. PICK fn \in {"fail", "unload", "dereg", "close", "dispose", "free"} : Calling(fn)
  BY DEF Fail, Unload, DeregReturns, CloseHandle, Dispose, Free
<1>2. fn \in (Ends \cup Leads) \ Entering
  BY DEF Ends, Leads, Entering
<1>3. m \in Mods /\ frames # <<>> /\ frames[1].m = m /\ m \notin Present /\ m \notin Listed /\ m # None
  BY <1>1, <1>2, TopFacts, AbsentTop
<1>4. ASSUME NEW x \in Mods \ {m} PROVE mod'[x] = mod[x] /\ (x \in Listed' => x \in Listed)
  <2>1. mod \in [Mods -> ModType]
    BY Types DEF MInv
  <2>2. mod'[x] = mod[x]
    <3>1. CASE Fail \/ Dispose
      BY <3>1 DEF Fail, Dispose
    <3>2. CASE Unload
      BY <1>4, <2>1, <3>2 DEF Unload
    <3>3. CASE DeregReturns
      BY <1>4, <2>1, <3>3 DEF DeregReturns
    <3>4. CASE CloseHandle
      BY <1>4, <2>1, <3>4 DEF CloseHandle
    <3>5. CASE Free
      BY <1>4, <2>1, <3>5 DEF Free
    <3> QED BY <3>1, <3>2, <3>3, <3>4, <3>5
  <2>3. CASE Fail
    <3>1. Unlink(m)
      BY <2>3 DEF Fail
    <3> QED BY <1>3, <1>4, <2>2, <3>1, UnlinkStep
  <2>4. CASE ~Fail
    <3>1. ring' = ring
      BY <2>4 DEF Unload, DeregReturns, CloseHandle, Dispose, Free
    <3>2. Listed' = Listed
      BY <3>1 DEF Listed, Single
    <3> QED BY <2>2, <3>2
  <2> QED BY <2>3, <2>4
<1>5. m \notin Listed'
  <2>1. CASE Fail
    <3>1. Unlink(m)
      BY <2>1 DEF Fail
    <3> QED BY <1>3, <3>1, UnlinkStep
  <2>2. CASE ~Fail
    <3>1. ring' = ring
      BY <2>2 DEF Unload, DeregReturns, CloseHandle, Dispose, Free
    <3>2. Listed' = Listed
      BY <3>1 DEF Listed, Single
    <3> QED BY <1>3, <3>2
  <2> QED BY <2>1, <2>2
<1>6. PICK cs \in Seq(FrameType) :
        /\ Call(cs)
        /\ \A k \in 1 .. Len(cs) : cs[k].m = m /\ cs[k].fn \in {"unload", "free", "dereg", "close"}
  BY LeaveCalls
<1>7. Present' \subseteq Present
  <2>1. \A k \in 1 .. Len(cs) : cs[k].m = m /\ cs[k].fn \notin Entering
    BY <1>6 DEF Entering
  <2>2. \A x \in Listed' : x \in Listed
    BY <1>4, <1>5 DEF Listed
  <2> QED BY <1>3, <1>6, <2>1, <2>2, PresentTop
<1>8. ASSUME NEW x \in Present' PROVE x \in Present /\ mod'[x] = mod[x]
  <2>1. x \in Present /\ x # m
    BY <1>3, <1>7
  <2>2. x \in Mods
    <3>1. Listed \subseteq Mods
      BY DEF Listed
    <3>2. ASSUME NEW k \in 1 .. Len(frames), frames[k].fn \in Entering PROVE frames[k].m \in Mods
      <4>1. frames[k].fn # "config"
        BY <3>2 DEF Entering
      <4>2. frames[k].m \in alive
        BY <4>1 DEF MInv, FactsHold, Facts
      <4> QED BY <4>2, Whereabouts
    <3> QED BY <2>1, <3>1, <3>2, PresentIs
  <2> QED BY <1>4, <2>1, <2>2
<1> QED BY <1>8, OneEachLess

\* Modules that are present are allocated.
LEMMA PresentMods == ASSUME MInv PROVE Present \subseteq alive /\ Present \subseteq Mods
<1>1. Listed \subseteq alive
  BY Whereabouts DEF Listed
<1>2. ASSUME NEW k \in 1 .. Len(frames), frames[k].fn \in Entering PROVE frames[k].m \in alive
  <2>1. frames[k].fn # "config"
    BY <1>2 DEF Entering
  <2> QED BY <2>1 DEF MInv, FactsHold, Facts
<1> QED BY <1>1, <1>2, Whereabouts, PresentIs

\* The singletons in the ring and on the C stack stay what they are.
LEMMA SameOneEach ==
    ASSUME MInv, UNCHANGED <<mod, frames>>, Listed' \subseteq Listed PROVE OneEach'
<1>1. Present' \subseteq Present
  BY PresentIs, PresentIsNext
<1>2. \A x \in Present' : x \in Present /\ mod'[x] = mod[x]
  BY <1>1
<1> QED BY <1>2, OneEachLess

\* A load begins.
LEMMA BeginOneEach == ASSUME MInv, NEW r, Begin(r, frames) PROVE OneEach'
<1> DEFINE path == Resolve[r.name]
<1>1. PICK m \in Mods \ alive :
        /\ mod' = [mod EXCEPT ![m] = Fresh(path)] /\ ring' = Alone(ring, m)
        /\ frames' = <<IF path \in Files THEN Frame("open", m, r.arg) ELSE Frame("fail", m, -1)>> \o frames
  BY DEF Begin
<1>2. mod \in [Mods -> ModType] /\ ring \in Rings(Nodes) /\ frames \in Seq(FrameType)
  BY Types DEF MInv, StackShape
<1>3. Listed' = Listed
  <2>1. ring' = ring
    BY <1>1, <1>2, Whereabouts, LoneNode DEF Nodes
  <2> QED BY <2>1 DEF Listed, Single
<1>4. PICK c : c = IF path \in Files THEN Frame("open", m, r.arg) ELSE Frame("fail", m, -1)
  OBVIOUS
<1>5. /\ c.m = m /\ c.fn \in {"open", "fail"}
      /\ frames' = <<c>> \o frames
  BY <1>1, <1>4 DEF Frame
<1>6. /\ Len(frames') = Len(frames) + 1 /\ Len(frames) \in Nat /\ frames'[1] = c
      /\ \A k \in 1 .. Len(frames') : k = 1 \/ (k - 1 \in 1 .. Len(frames) /\ frames'[k] = frames[k - 1])
  BY <1>2, <1>5
<1>7. ASSUME NEW x \in Present' PROVE x \in Present /\ mod'[x] = mod[x]
  <2>1. x \in Present
    <3>1. CASE x \in Listed'
      BY <1>3, <3>1, PresentIs
    <3>2. CASE x \notin Listed'
      <4>1. PICK k \in 1 .. Len(frames') : frames'[k].fn \in Entering /\ frames'[k].m = x
        BY <1>7, <3>2, PresentIsNext
      <4>2. k # 1
        BY <1>5, <1>6, <4>1 DEF Entering
      <4> QED BY <1>6, <4>1, <4>2, PresentIs
    <3> QED BY <3>1, <3>2
  <2>2. x \in Mods /\ x # m
    BY <1>1, <2>1, PresentMods
  <2> QED BY <1>1, <1>2, <2>1, <2>2
<1> QED BY <1>7, OneEachLess

\* aem_module_open has asked aem_module_check_reg_singleton, which sees the ring; the
\* modules of the file that are on the C stack and not yet in the ring are in within.
LEMMA OpenOneEach == ASSUME MInv, Open PROVE OneEach'
<1> PICK m : m = On
  OBVIOUS
<1> PICK f : f = mod[m].path
  OBVIOUS
<1>1. /\ Calling("open") /\ ring' = ring /\ "open" \in (Ends \cup Leads) \ Entering
      /\ \/ Call(<<Frame("fail", m, -1)>>)
         \/ Call(<<Frame("register", m, Arg)>>) /\ Def[f].kind = "ok" /\ (Def[f].singleton => ~AlreadyLoaded(f))
  BY DEF Open, Ends, Leads, Entering
<1>2. /\ m \in Mods /\ frames # <<>> /\ frames[1].fn = "open" /\ frames[1].m = m
      /\ m \notin Present /\ m # None /\ mod[m] \in ModType
  BY <1>1, TopFacts, AbsentTop
<1>3. PICK n : /\ mod' = [mod EXCEPT ![m] = n]
               /\ Def[f].kind = "ok" => n.def = f
               /\ Def[f].singleton => n.within = Registering(f)
  <2>1. PICK o \in ModType : o = mod[m]
    BY <1>2
  <2>2. PICK d, s, st, w, n :
            /\ n = [[o EXCEPT !.handle = f, !.within = w, !.def = d, !.name = s] EXCEPT !.state = st]
            /\ d = (IF Def[f].kind = "missing" THEN None ELSE f)
            /\ w = (IF Def[f].singleton THEN Registering(f) ELSE {})
            /\ mod' = [mod EXCEPT ![m] = n]
    BY <2>1 DEF Open
  <2>3. (Def[f].kind = "ok" => n.def = f) /\ (Def[f].singleton => n.within = Registering(f))
    BY <2>2 DEF ModType
  <2> QED BY <2>2, <2>3
<1>4. mod \in [Mods -> ModType] /\ frames \in Seq(FrameType)
  BY Types DEF MInv, StackShape
<1>5. mod'[m] = n /\ \A x \in Mods \ {m} : mod'[x] = mod[x]
  <2>1. mod' = [mod EXCEPT ![m] = n]
    BY <1>3
  <2> QED BY <1>2, <1>4, <2>1
<1>6. Listed' = Listed
  BY <1>1 DEF Listed, Single
<1>7. Arg \in STRING \cup {None}
  BY <1>1, Top DEF MInv, Ends
<1>8. CASE Call(<<Frame("fail", m, -1)>>)
  <2>1. PICK c : c = Frame("fail", m, -1)
    OBVIOUS
  <2>2. c \in FrameType /\ c.fn = "fail" /\ c.m = m
    BY <1>2, <2>1 DEF Frame, FrameType, Ends
  <2>3. PICK cs : cs = <<c>>
    OBVIOUS
  <2>4. cs \in Seq(FrameType) /\ Len(cs) = 1 /\ cs[1] = c /\ Call(cs)
    BY <1>8, <2>1, <2>2, <2>3
  <2>5. \A k \in 1 .. Len(cs) : cs[k] = c
    BY <2>4
  <2>6. Present' \subseteq Present
    <3>1. \A k \in 1 .. Len(cs) : cs[k].m = m /\ cs[k].fn \notin Entering
      BY <2>2, <2>5 DEF Entering
    <3> QED BY <1>2, <1>6, <2>4, <3>1, PresentTop
  <2>7. \A x \in Present' : x \in Present /\ mod'[x] = mod[x]
    BY <1>2, <1>5, <2>6, PresentMods
  <2> QED BY <2>7, OneEachLess
<1>9. CASE Call(<<Frame("register", m, Arg)>>) /\ Def[f].kind = "ok" /\ (Def[f].singleton => ~AlreadyLoaded(f))
  <2>1. PICK c : c = Frame("register", m, Arg)
    OBVIOUS
  <2>2. c \in FrameType /\ c.fn = "register" /\ c.m = m
    BY <1>2, <1>7, <2>1 DEF Frame, FrameType, Ends
  <2>3. frames' = <<c>> \o Tail(frames) /\ Tail(frames) \in Seq(FrameType)
    BY <1>2, <1>4, <1>9, <2>1, Under DEF Call
  <2>4. /\ Len(frames') = Len(frames) /\ frames'[1] = c /\ Len(frames) \in Nat
        /\ \A k \in 1 .. Len(frames') : k = 1 \/ (k \in 2 .. Len(frames) /\ frames'[k] = frames[k])
    <3>1. /\ Len(Tail(frames)) = Len(frames) - 1 /\ Len(frames) \in Nat /\ Len(frames) >= 1
          /\ \A k \in 1 .. Len(frames) - 1 : Tail(frames)[k] = frames[k + 1]
      BY <1>2, <1>4, Under
    <3>2. PICK t : t = Tail(frames)
      OBVIOUS
    <3>3. Len(frames') = Len(frames) /\ frames'[1] = c
      BY <2>3, <3>1, <3>2
    <3>4. ASSUME NEW k \in 1 .. Len(frames'), k # 1 PROVE k \in 2 .. Len(frames) /\ frames'[k] = frames[k]
      <4>1. k \in 2 .. Len(frames) /\ k - 1 \in 1 .. Len(frames) - 1 /\ (k - 1) + 1 = k
        BY <3>1, <3>3, <3>4
      <4>2. frames'[k] = t[k - 1]
        BY <2>3, <3>1, <3>2, <4>1
      <4> QED BY <3>1, <3>2, <4>1, <4>2
    <3> QED BY <3>1, <3>3, <3>4
  <2>5. ASSUME NEW x \in Present', x # m
        PROVE  /\ x \in Present /\ mod'[x] = mod[x]
               /\ x \in Listed \/ \E k \in 2 .. Len(frames) : frames[k].fn = "reg" /\ frames[k].m = x
    <3>1. CASE x \in Listed'
      <4>1. x \in Present
        BY <1>6, <3>1, PresentIs
      <4> QED BY <1>5, <1>6, <2>5, <3>1, <4>1, PresentMods
    <3>2. CASE x \notin Listed'
      <4>1. PICK k \in 1 .. Len(frames') : frames'[k].fn \in Entering /\ frames'[k].m = x
        BY <2>5, <3>2, PresentIsNext
      <4>2. k # 1
        BY <2>2, <2>4, <2>5, <4>1
      <4>3. k \in 2 .. Len(frames) /\ frames[k].fn \in Entering /\ frames[k].m = x /\ k \in 1 .. Len(frames)
        BY <2>4, <4>1, <4>2
      <4>4. frames[k].fn = "reg"
        BY <4>3, Waiting DEF Entering, Follows
      <4>5. x \in Present
        BY <4>3, PresentIs
      <4> QED BY <1>5, <2>5, <4>3, <4>4, <4>5, PresentMods
    <3> QED BY <3>1, <3>2
  <2>6. mod'[m].def = f /\ (Def[f].singleton => mod'[m].within = Registering(f))
    BY <1>3, <1>5, <1>9
  <2>7. ASSUME NEW x \in Present', x # m, mod'[x].def = f, Def[f].singleton PROVE x \in mod'[m].within
    <3>1. mod[x].def = f /\ x \in Mods
      BY <2>5, <2>7, PresentMods
    <3>2. x \notin Listed
      BY <1>9, <2>7, <3>1 DEF AlreadyLoaded
    <3>3. PICK k \in 2 .. Len(frames) : frames[k].fn = "reg" /\ frames[k].m = x
      BY <2>5, <2>7, <3>2
    <3>4. k \in 1 .. Len(frames)
      BY <2>4
    <3>5. x \in Registering(f)
      BY <3>1, <3>3, <3>4 DEF Registering
    <3> QED BY <2>6, <2>7, <3>5
  <2>8. ASSUME NEW x \in Present', NEW y \in Present', x # y, mod'[x].def = mod'[y].def, Def[mod'[x].def].singleton
        PROVE  x \in mod'[y].within \/ y \in mod'[x].within
    <3>1. CASE x = m
      BY <2>6, <2>7, <2>8, <3>1
    <3>2. CASE y = m
      BY <2>6, <2>7, <2>8, <3>2
    <3>3. CASE x # m /\ y # m
      <4>1. x \in Present /\ y \in Present /\ mod'[x] = mod[x] /\ mod'[y] = mod[y]
        BY <2>5, <3>3
      <4>2. x \in mod[y].within \/ y \in mod[x].within
        BY <2>8, <4>1 DEF MInv, OneEach
      <4> QED BY <4>1, <4>2
    <3> QED BY <3>1, <3>2, <3>3
  <2> QED BY <2>8 DEF OneEach
<1> QED BY <1>1, <1>8, <1>9

\* A call that enters its module goes on as another.
LEMMA EnterOneEach ==
    ASSUME MInv, frames # <<>>, frames[1].fn \in Entering, NEW c \in FrameType, c.m = On,
           Call(<<c>>), ring' = ring,
           \A x \in Mods : mod'[x].def = mod[x].def /\ mod'[x].within = mod[x].within
    PROVE  OneEach'
<1>1. PICK cs : cs = <<c>>
  OBVIOUS
<1>2. cs \in Seq(FrameType) /\ Call(cs) /\ \A k \in 1 .. Len(cs) : cs[k] = c
  BY <1>1
<1>3. frames[1].m = On /\ \A k \in 1 .. Len(cs) : cs[k].m = On
  BY <1>2 DEF On
<1>4. \A x \in Listed' : x \in Listed
  BY DEF Listed, Single
<1>5. PICK m : m = On
  OBVIOUS
<1>6. Present' \subseteq Present
  <2>1. frames[1].m = m /\ \A k \in 1 .. Len(cs) : cs[k].m = m
    BY <1>3, <1>5
  <2> QED BY <1>2, <1>4, <2>1, PresentTop
<1>7. \A x \in Present' : x \in Present /\ mod'[x].def = mod[x].def /\ mod'[x].within = mod[x].within
  BY <1>6, PresentMods
<1> QED BY <1>7, OneEachLess

\* The module on top is being registered.
LEMMA RegisterOneEach == ASSUME MInv, RegisterModule \/ RegReturns PROVE OneEach'
<1> PICK m : m = On
  OBVIOUS
<1>1. PICK fn \in {"register", "reg"} : Calling(fn)
  BY DEF RegisterModule, RegReturns
<1>2. fn \in Ends /\ fn \in Entering
  BY DEF Ends, Entering
<1>3. /\ frames # <<>> /\ frames[1].fn = fn /\ frames[1].m = m /\ m \in Mods /\ m # None /\ m \in alive
      /\ frames[1].val = Arg /\ Facts(frames[1]) /\ mod[m] \in ModType
  BY <1>1, <1>2, TopFacts
<1>4. Arg \in STRING \cup {None}
  BY <1>1, <1>2, Top DEF MInv
<1>5. mod[m].def \in Files /\ Def \in [Files -> Defs]
  BY <1>1, <1>3, ModuleAssumption DEF Facts, OpenFile
<1>6. PICK c \in FrameType : c.m = m /\ Call(<<c>>)
  <2>1. CASE RegisterModule
    <3>1. PICK gn \in {"reg", "insert"}, v \in STRING \cup {None} : Call(<<Frame(gn, m, v)>>)
      BY <1>4, <2>1 DEF RegisterModule
    <3>2. Frame(gn, m, v) \in FrameType /\ Frame(gn, m, v).m = m
      BY <1>3 DEF Frame, FrameType, Ends
    <3> QED BY <3>1, <3>2
  <2>2. CASE RegReturns
    <3>1. Def[mod[m].def].reg \subseteq {0, -1, -9}
      BY <1>5 DEF Defs
    <3>2. PICK rc \in Def[mod[m].def].reg : Call(<<Frame("insert", m, None)>>) \/ Call(<<Frame("fail", m, rc)>>)
      BY <2>2 DEF RegReturns
    <3>3. rc \in Int
      BY <3>1, <3>2
    <3>4. PICK gn \in {"insert", "fail"}, v \in {None} \cup Int : Call(<<Frame(gn, m, v)>>)
      BY <3>2, <3>3
    <3>5. Frame(gn, m, v) \in FrameType /\ Frame(gn, m, v).m = m
      BY <1>3 DEF Frame, FrameType, Ends
    <3> QED BY <3>4, <3>5
  <2> QED BY <2>1, <2>2
<1>7. ring' = ring
  BY DEF RegisterModule, RegReturns
<1>8. \A x \in Mods : mod'[x].def = mod[x].def /\ mod'[x].within = mod[x].within
  <2>1. mod \in [Mods -> ModType]
    BY Types DEF MInv
  <2>2. PICK o \in ModType : o = mod[m]
    BY <1>3
  <2>3. CASE mod' = mod
    BY <2>3
  <2>4. CASE mod' # mod
    <3>1. PICK n : mod' = [mod EXCEPT ![m] = n] /\ n.def = o.def /\ n.within = o.within
      <4>1. CASE RegisterModule
        <5>1. mod' = [mod EXCEPT ![m] = [o EXCEPT !.state = "REGISTERED"]]
          BY <2>2, <2>4, <4>1 DEF RegisterModule
        <5>2. PICK n : n = [o EXCEPT !.state = "REGISTERED"]
          OBVIOUS
        <5>3. n.def = o.def /\ n.within = o.within
          BY <5>2 DEF ModType
        <5> QED BY <5>1, <5>2, <5>3
      <4>2. CASE RegReturns
        <5>1. mod' = [mod EXCEPT ![m].state = "REGISTERED",
                                 ![m].name = IF Def[mod[m].def].renames /\ Arg # None
                                             THEN Append(@, Arg) ELSE @]
          BY <2>4, <4>2 DEF RegReturns
        <5>2. PICK s : s = IF Def[mod[m].def].renames /\ Arg # None THEN Append(o.name, Arg) ELSE o.name
          OBVIOUS
        <5>3. mod' = [mod EXCEPT ![m] = [o EXCEPT !.state = "REGISTERED", !.name = s]]
          BY <1>3, <2>1, <2>2, <5>1, <5>2 DEF ModType
        <5>4. PICK n : n = [o EXCEPT !.state = "REGISTERED", !.name = s]
          OBVIOUS
        <5>5. n.def = o.def /\ n.within = o.within
          BY <5>4 DEF ModType
        <5> QED BY <5>3, <5>4, <5>5
      <4> QED BY <4>1, <4>2
    <3>2. mod'[m] = n /\ \A x \in Mods \ {m} : mod'[x] = mod[x]
      BY <1>3, <2>1, <3>1
    <3> QED BY <2>2, <3>1, <3>2
  <2> QED BY <2>3, <2>4
<1> QED BY <1>2, <1>3, <1>6, <1>7, <1>8, EnterOneEach

\* The module on top enters the ring.
LEMMA LinkInOneEach == ASSUME MInv, LinkIn PROVE OneEach'
<1> PICK m : m = On
  OBVIOUS
<1>1. Calling("insert") /\ "insert" \in Ends /\ Call(<<>>) /\ mod' = mod /\ ring' = InsertedBefore(ring, Chain, m)
      /\ order' = Append(order, m)
  BY DEF LinkIn, Ends, AtTheEnd
<1>2. frames # <<>> /\ frames[1].fn = "insert" /\ frames[1].m = m /\ m \in Mods /\ m \notin Listed
  BY <1>1, TopFacts
<1>3. \A x \in Listed' : x \in Listed \/ x = m
  <2>1. Core' /\ RingHolds /\ order \in Seq(Mods)
    BY LinkInCore, Types DEF MInv
  <2>2. Listed' = {order'[k] : k \in 1 .. Len(order')} /\ Listed = {order[k] : k \in 1 .. Len(order)}
    BY <2>1 DEF Core, RingHolds
  <2>3. \A k \in 1 .. Len(order') : order'[k] = m \/ (k \in 1 .. Len(order) /\ order'[k] = order[k])
    BY <1>1, <2>1
  <2> QED BY <2>2, <2>3
<1>4. PICK cs : cs = <<>>
  OBVIOUS
<1>5. cs \in Seq(FrameType) /\ Call(cs) /\ \A k \in 1 .. Len(cs) : FALSE
  BY <1>1, <1>4
<1>6. Present' \subseteq Present
  <2>1. \A x \in Listed' : x \in Listed \/ (x = m /\ frames[1].fn \in Entering)
    BY <1>2, <1>3 DEF Entering
  <2> QED BY <1>2, <1>5, <2>1, PresentTop
<1>7. \A x \in Present' : x \in Present /\ mod'[x] = mod[x]
  BY <1>1, <1>6
<1> QED BY <1>7, OneEachLess

\* A module leaves the ring by name.
LEMMA UnloadNamedOneEach == ASSUME MInv, NEW n, UnloadNamed(n) PROVE OneEach'
<1>1. PICK m \in Listed :
        /\ \/ /\ Unlink(m)
              /\ frames' = <<Frame("unload", m, None), Frame("dispose", m, None)>> \o frames
           \/ UNCHANGED <<ring, frames>>
        /\ mod' = mod
  BY DEF UnloadNamed
<1>2. CASE UNCHANGED <<ring, frames>>
  <2>1. Listed' = Listed
    BY <1>2 DEF Listed, Single
  <2> QED BY <1>1, <1>2, <2>1, SameOneEach
<1>3. CASE Unlink(m) /\ frames' = <<Frame("unload", m, None), Frame("dispose", m, None)>> \o frames
  <2>1. m \in Mods
    BY DEF Listed
  <2>2. Listed' \subseteq Listed
    <3>1. m \notin Listed' /\ \A x \in Mods \ {m} : x \in Listed' <=> x \in Listed
      BY <1>3, <2>1, UnlinkStep
    <3> QED BY <3>1 DEF Listed
  <2>3. PICK u, d : u = Frame("unload", m, None) /\ d = Frame("dispose", m, None)
    OBVIOUS
  <2>4. u.fn = "unload" /\ d.fn = "dispose" /\ u \in FrameType /\ d \in FrameType
    BY <2>1, <2>3 DEF Frame, FrameType, Ends, Leads
  <2>5. PICK cs, rest : cs = <<u, d>> /\ rest = frames
    OBVIOUS
  <2>6. /\ cs \in Seq(FrameType) /\ cs # <<>> /\ Len(cs) = 2 /\ cs[1] = u /\ cs[2] = d
        /\ rest \in Seq(FrameType) /\ frames' = cs \o rest
    <3>1. frames \in Seq(FrameType)
      BY DEF MInv, StackShape
    <3> QED BY <1>3, <2>3, <2>4, <2>5, <3>1
  <2>7. PICK s : s = frames'
    OBVIOUS
  <2>8. /\ s \in Seq(FrameType) /\ Len(s) = Len(cs) + Len(rest) /\ Len(cs) \in Nat /\ Len(rest) \in Nat
        /\ \A k \in 1 .. Len(cs) : s[k] = cs[k]
        /\ \A k \in 1 .. Len(s) : k > Len(cs) => k - Len(cs) \in 1 .. Len(rest) /\ s[k] = rest[k - Len(cs)]
    <3>1. s = cs \o rest
      BY <2>6, <2>7
    <3>2. cs \in Seq(FrameType) /\ rest \in Seq(FrameType)
      BY <2>6
    <3> QED BY <3>1, <3>2, Joined
  <2>9. ASSUME NEW x \in Present' PROVE x \in Present /\ mod'[x] = mod[x]
    <3>1. CASE x \in Listed'
      BY <1>1, <2>2, <3>1, PresentIs
    <3>2. CASE x \notin Listed'
      <4>1. PICK k \in 1 .. Len(s) : s[k].fn \in Entering /\ s[k].m = x
        BY <2>7, <2>9, <3>2, PresentIsNext
      <4>2. k > Len(cs)
        <5>1. ASSUME k <= Len(cs) PROVE FALSE
          <6>1. k \in 1 .. Len(cs)
            BY <2>8, <5>1
          <6>2. k = 1 \/ k = 2
            BY <2>6, <6>1
          <6>3. s[k] = u \/ s[k] = d
            BY <2>6, <2>8, <6>1, <6>2
          <6> QED BY <2>4, <4>1, <6>3 DEF Entering
        <5> QED BY <2>8, <5>1
      <4>3. k - Len(cs) \in 1 .. Len(frames) /\ frames[k - Len(cs)] = s[k]
        BY <2>5, <2>8, <4>2
      <4> QED BY <1>1, <4>1, <4>3, PresentIs
    <3> QED BY <3>1, <3>2
  <2> QED BY <2>9, OneEachLess
<1> QED BY <1>1, <1>2, <1>3

\* modules_load, which is the first call of all, loads a file.
LEMMA LineOneEach == ASSUME MInv, Line PROVE OneEach'
<1>1. Calling("config") /\ config # <<>>
  BY DEF Line
<1>2. CASE UNCHANGED <<mod, ring, frames>>
  <2>1. Listed' = Listed
    BY <1>2 DEF Listed, Single
  <2> QED BY <1>2, <2>1, SameOneEach
<1>3. CASE Begin(config[1], frames)
  BY <1>3, BeginOneEach
<1> QED BY <1>2, <1>3 DEF Line

\* modules_load is called.
LEMMA ConfigureOneEach == ASSUME MInv, NEW c, Configure(c) PROVE OneEach'
<1>1. frames = <<>> /\ frames' = <<Frame("config", None, None)>> /\ UNCHANGED <<mod, ring>>
  BY DEF Configure
<1>2. PICK s : s = frames'
  OBVIOUS
<1>3. PICK f : f = Frame("config", None, None)
  OBVIOUS
<1>4. f.fn = "config" /\ s = <<f>> /\ Len(s) = 1 /\ s[1] = f
  BY <1>1, <1>2, <1>3 DEF Frame
<1>5. \A k \in 1 .. Len(s) : s[k].fn = "config"
  BY <1>4
<1>7. Listed' = Listed
  BY <1>1 DEF Listed, Single
<1>8. ASSUME NEW x \in Present' PROVE x \in Present /\ mod'[x] = mod[x]
  <2>1. x \in Listed'
    BY <1>2, <1>5, <1>8, PresentIsNext DEF Entering
  <2> QED BY <1>1, <1>7, <2>1, PresentIs
<1> QED BY <1>8, OneEachLess

\* modules_load returns.
LEMMA ConfiguredOneEach == ASSUME MInv, Configured PROVE OneEach'
<1>1. Calling("config") /\ Call(<<>>) /\ UNCHANGED <<mod, ring>>
  BY DEF Configured
<1>2. frames' = <<>> /\ Len(frames') = 0
  <2>1. Tail(frames) = <<>>
    BY <1>1, ConfigLast DEF MInv
  <2>2. frames # <<>> /\ StackShape
    BY <1>1 DEF Calling, MInv
  <2>3. frames' = Tail(frames)
    BY <1>1, <2>2, PopShape
  <2> QED BY <2>1, <2>3
<1>3. Listed' = Listed
  BY <1>1 DEF Listed, Single
<1>4. ASSUME NEW x \in Present' PROVE x \in Present /\ mod'[x] = mod[x]
  <2>1. x \in Listed'
    BY <1>2, <1>4, PresentIsNext
  <2> QED BY <1>1, <1>3, <2>1, PresentIs
<1> QED BY <1>4, OneEachLess

\* Every step keeps the singletons single.
LEMMA OneEachStep == ASSUME MInv, [ModNext]_modVars PROVE OneEach'
<1>1. ASSUME NEW r \in Requests, Load(r) PROVE OneEach'
  BY <1>1, BeginOneEach DEF Load
<1>2. ASSUME NEW n, NotFound(n) PROVE OneEach'
  <2>1. UNCHANGED <<mod, ring, frames>>
    BY <1>2 DEF NotFound
  <2>2. Listed' = Listed
    BY <2>1 DEF Listed, Single
  <2> QED BY <2>1, <2>2, SameOneEach
<1>3. ASSUME UNCHANGED modVars PROVE OneEach'
  <2>1. UNCHANGED <<mod, ring, frames>>
    BY <1>3 DEF modVars
  <2>2. Listed' = Listed
    BY <2>1 DEF Listed, Single
  <2> QED BY <2>1, <2>2, SameOneEach
<1> QED BY <1>1, <1>2, <1>3, OpenOneEach, RegisterOneEach, LinkInOneEach, LeaveOneEach, UnloadNamedOneEach,
           ConfigureOneEach, LineOneEach, ConfiguredOneEach DEF ModNext

-----------------------------------------------------------------------------
(* The lines of modules_load *)

\* modules_load waits at the other end of the C stack.
Loading == frames # <<>> /\ frames[Len(frames)].fn = "config"

\* It still does when the calls on top of it go on as others.
LEMMA LoadingBelow ==
    ASSUME MInv, frames # <<>>, NEW cs \in Seq(FrameType), Call(cs),
           \A k \in 1 .. Len(cs) : cs[k].fn # "config", Loading'
    PROVE  /\ Loading /\ Len(frames) \in Nat /\ Len(frames) >= 2 /\ frames[2] = Tail(frames)[1] /\ Tail(frames) # <<>>
           /\ Len(cs) \in Nat /\ Len(frames') = Len(cs) + Len(frames) - 1
           /\ Len(cs) = 0 => cs = <<>>
<1>1. frames \in Seq(FrameType) /\ frames' = cs \o Tail(frames)
  BY DEF MInv, StackShape, Call
<1>2. PICK rest : rest = Tail(frames)
  OBVIOUS
<1>3. /\ rest \in Seq(FrameType) /\ Len(rest) = Len(frames) - 1 /\ Len(frames) \in Nat /\ Len(frames) >= 1
      /\ \A k \in 1 .. Len(frames) - 1 : rest[k] = frames[k + 1]
  BY <1>1, <1>2, Under
<1>4. PICK s : s = frames'
  OBVIOUS
<1>5. /\ s \in Seq(FrameType) /\ Len(s) = Len(cs) + Len(rest) /\ Len(cs) \in Nat /\ Len(rest) \in Nat
      /\ \A k \in 1 .. Len(cs) : s[k] = cs[k]
      /\ \A k \in 1 .. Len(s) : k > Len(cs) => k - Len(cs) \in 1 .. Len(rest) /\ s[k] = rest[k - Len(cs)]
  BY <1>1, <1>2, <1>3, <1>4, Joined
<1>6. s # <<>> /\ s[Len(s)].fn = "config"
  BY <1>4 DEF Loading
<1>7. Len(s) \in 1 .. Len(s) /\ Len(s) >= 1
  BY <1>5, <1>6, Under
<1>8. Len(s) > Len(cs)
  <2>1. ASSUME Len(s) <= Len(cs) PROVE FALSE
    <3>1. Len(s) \in 1 .. Len(cs)
      BY <1>5, <1>7, <2>1
    <3> QED BY <1>5, <1>6, <3>1
  <2> QED BY <1>5, <2>1
<1>9. PICK j \in 1 .. Len(rest) : j = Len(s) - Len(cs) /\ s[Len(s)] = rest[j]
  BY <1>5, <1>7, <1>8
<1>10. j = Len(frames) - 1 /\ rest[j] = frames[j + 1] /\ j + 1 = Len(frames) /\ Len(frames) >= 2
  BY <1>3, <1>5, <1>9
<1>11. frames[2] = rest[1]
  BY <1>3, <1>10
<1>12. Len(cs) = 0 => cs = <<>>
  OBVIOUS
<1>13. rest # <<>>
  <2>1. Len(rest) # 0
    BY <1>3, <1>10
  <2> QED BY <2>1
<1>14. frames[Len(frames)].fn = "config"
  BY <1>6, <1>9, <1>10
<1> QED BY <1>2, <1>3, <1>4, <1>5, <1>10, <1>11, <1>12, <1>13, <1>14 DEF Loading

\* Nothing is read and nothing is answered.
LEMMA LinesKept ==
    ASSUME MInv, UNCHANGED <<config, given, served>>,
           Loading' => Loading /\ (Len(frames) = 1 /\ ret = 0 <=> Len(frames') = 1 /\ ret' = 0)
    PROVE  LinesRead'
<1>1. Used' = Used
  BY DEF Used
<1>2. ASSUME Loading'
      PROVE  /\ Len(config') <= Len(given')
             /\ \A k \in 1 .. Len(config') : config'[k] = given'[Len(given') - Len(config') + k]
             /\ Cardinality(Used') = Len(served') + IF Len(frames') = 1 /\ ret' = 0 THEN 0 ELSE 1
  BY <1>1, <1>2 DEF MInv, LinesRead, Loading
<1> QED BY <1>2 DEF LinesRead, Loading

\* A call about a module goes on as others, or returns to another than modules_load, or fails.
LEMMA TopLines ==
    ASSUME MInv, frames # <<>>, NEW cs \in Seq(FrameType), Call(cs),
           \A k \in 1 .. Len(cs) : cs[k].fn # "config", UNCHANGED <<config, given, served>>,
           cs = <<>> /\ Tail(frames) # <<>> /\ frames[2].fn = "config" => ret' # 0
    PROVE  LinesRead'
<1>1. ASSUME Loading'
      PROVE  Loading /\ (Len(frames) = 1 /\ ret = 0 <=> Len(frames') = 1 /\ ret' = 0)
  <2>1. /\ Loading /\ Len(frames) \in Nat /\ Len(frames) >= 2 /\ Tail(frames) # <<>>
        /\ Len(cs) \in Nat /\ Len(frames') = Len(cs) + Len(frames) - 1
        /\ Len(cs) = 0 => cs = <<>>
    BY <1>1, LoadingBelow
  <2>2. Len(frames) # 1
    BY <2>1
  <2>3. ~(Len(frames') = 1 /\ ret' = 0)
    <3>1. ASSUME Len(frames') = 1, ret' = 0 PROVE FALSE
      <4>1. PICK i, n \in Nat : i = Len(cs) /\ n = Len(frames)
        BY <2>1
      <4>2. i + n - 1 = 1 /\ n >= 2
        BY <2>1, <3>1, <4>1
      <4>3. i = 0 /\ n = 2
        BY <4>2
      <4>4. frames[2].fn = "config"
        BY <2>1, <4>1, <4>3 DEF Loading
      <4> QED BY <2>1, <3>1, <4>1, <4>3, <4>4
    <3> QED BY <3>1
  <2> QED BY <2>1, <2>2, <2>3
<1> QED BY <1>1, LinesKept

\* A call goes on as one other.
LEMMA OneLines ==
    ASSUME MInv, frames # <<>>, NEW c \in FrameType, Call(<<c>>), c.fn # "config", UNCHANGED <<config, given, served>>
    PROVE  LinesRead'
<1>1. PICK cs : cs = <<c>>
  OBVIOUS
<1>2. cs \in Seq(FrameType) /\ Call(cs) /\ cs # <<>> /\ \A k \in 1 .. Len(cs) : cs[k] = c
  BY <1>1
<1> QED BY <1>2, TopLines

\* A module is opened and registered.
LEMMA OpenLines == ASSUME MInv, Open \/ RegisterModule \/ RegReturns PROVE LinesRead'
<1> PICK m : m = On
  OBVIOUS
<1>1. PICK fn \in {"open", "register", "reg"} : Calling(fn)
  BY DEF Open, RegisterModule, RegReturns
<1>2. fn \in Ends
  BY <1>1 DEF Ends
<1>3. /\ frames # <<>> /\ frames[1].fn = fn /\ frames[1].m = m /\ m \in Mods /\ m # None
      /\ Facts(frames[1]) /\ mod[m] \in ModType
  BY <1>1, <1>2, TopFacts
<1>4. Arg \in STRING \cup {None}
  BY <1>1, <1>2, Top DEF MInv
<1>5. UNCHANGED <<config, given, served>>
  BY DEF Open, RegisterModule, RegReturns, history
<1>6. PICK gn \in {"register", "reg", "insert", "fail"}, v \in STRING \cup {None} \cup Int : Call(<<Frame(gn, m, v)>>)
  <2>1. CASE Open
    <3>1. -1 \in Int
      OBVIOUS
    <3> QED BY <1>4, <2>1, <3>1 DEF Open
  <2>2. CASE RegisterModule
    BY <1>4, <2>2 DEF RegisterModule
  <2>3. CASE RegReturns
    <3>1. Calling("reg")
      BY <2>3 DEF RegReturns
    <3>2. mod[m].def \in Files
      BY <1>3, <3>1 DEF Calling, Facts, OpenFile
    <3>3. Def[mod[m].def].reg \subseteq {0, -1, -9}
      BY <3>2, ModuleAssumption DEF Defs
    <3>4. PICK rc \in Def[mod[m].def].reg : Call(<<Frame("insert", m, None)>>) \/ Call(<<Frame("fail", m, rc)>>)
      BY <2>3 DEF RegReturns
    <3>5. rc \in Int
      BY <3>3, <3>4
    <3> QED BY <3>4, <3>5
  <2> QED BY <2>1, <2>2, <2>3
<1>7. PICK c : c = Frame(gn, m, v)
  OBVIOUS
<1>8. c \in FrameType /\ c.fn # "config" /\ Call(<<c>>)
  BY <1>3, <1>6, <1>7 DEF Frame, FrameType, Ends
<1> QED BY <1>3, <1>5, <1>8, OneLines

\* A module leaves: a load that ends here has failed.
LEMMA LeaveLines ==
    ASSUME MInv, Fail \/ Unload \/ DeregReturns \/ CloseHandle \/ Dispose \/ Free
    PROVE  LinesRead'
<1> PICK m : m = On
  OBVIOUS
<1>1. PICK fn \in {"fail", "unload", "dereg", "close", "dispose", "free"} : Calling(fn)
  BY DEF Fail, Unload, DeregReturns, CloseHandle, Dispose, Free
<1>2. fn \in Ends \cup Leads
  BY DEF Ends, Leads
<1>3. frames # <<>> /\ frames \in Seq(FrameType) /\ Shape(frames) /\ frames[1].fn = fn
  BY <1>1, <1>2, Top DEF MInv
<1>4. PICK cs \in Seq(FrameType) :
        /\ Call(cs)
        /\ cs # <<>> \/ (Dispose /\ ret # 0) \/ CloseHandle \/ Free
        /\ \A k \in 1 .. Len(cs) : cs[k].m = m /\ cs[k].fn \in {"unload", "free", "dereg", "close"}
  BY LeaveCalls
<1>5. UNCHANGED <<config, given, served>>
  BY DEF Fail, Unload, DeregReturns, CloseHandle, Dispose, Free, history
<1>6. ASSUME cs = <<>>, Tail(frames) # <<>>, frames[2].fn = "config" PROVE ret' # 0
  <2>1. CASE Dispose
    <3>1. frames[1].fn = "dispose"
      BY <2>1 DEF Dispose, Calling
    <3>2. "dispose" \in Ends
      BY DEF Ends
    <3> QED BY <1>3, <1>6, <3>1, <3>2, OnlyOne
  <2>2. CASE CloseHandle
    <3>1. frames[1].fn = "close" /\ "close" \in Leads
      BY <2>2 DEF CloseHandle, Calling, Leads
    <3>2. frames[2].fn \in Follows
      BY <1>3, <3>1, LeadOver
    <3> QED BY <1>6, <3>2 DEF Follows
  <2>3. CASE Free
    <3>1. frames[1].fn = "free" /\ "free" \in Ends /\ ret' = frames[1].val
      BY <2>3 DEF Free, Calling, Ends, Arg
    <3>2. Above(frames[1], frames[2])
      BY <1>3, <1>6, <3>1, OnlyOne
    <3>3. frames[1].val # 0
      BY <1>6, <3>1, <3>2 DEF Above, Follows
    <3> QED BY <3>1, <3>3
  <2> QED BY <1>4, <1>6, <2>1, <2>2, <2>3
<1> QED BY <1>3, <1>4, <1>5, <1>6, TopLines

\* A load that modules_load has called is done.
LEMMA LinkInLines == ASSUME MInv, LinkIn PROVE LinesRead'
<1>1. /\ Calling("insert") /\ "insert" \in Ends /\ Call(<<>>) /\ ret' = 0 /\ UNCHANGED <<config, given>>
      /\ served' = IF Len(frames) = 2 /\ frames[2].fn = "config" THEN Append(served, On) ELSE served
  BY DEF LinkIn, Ends
<1>2. frames # <<>> /\ On \in Mods
  BY <1>1, Top DEF MInv
<1>3. served \in Seq(Mods) /\ Len(served) \in Nat
  BY Types DEF MInv
<1>4. Used' = Used
  BY <1>1 DEF Used
<1>5. ASSUME Loading'
      PROVE  /\ Len(config') <= Len(given')
             /\ \A k \in 1 .. Len(config') : config'[k] = given'[Len(given') - Len(config') + k]
             /\ Cardinality(Used') = Len(served') + IF Len(frames') = 1 /\ ret' = 0 THEN 0 ELSE 1
  <2>1. PICK cs : cs = <<>>
    OBVIOUS
  <2>2. cs \in Seq(FrameType) /\ Call(cs) /\ Len(cs) = 0 /\ \A k \in 1 .. Len(cs) : cs[k].fn # "config"
    BY <1>1, <2>1
  <2>3. Loading /\ Len(frames) \in Nat /\ Len(frames) >= 2 /\ Len(frames') = Len(cs) + Len(frames) - 1
    BY <1>2, <1>5, <2>2, LoadingBelow
  <2>4. PICK n \in Nat : n = Len(frames) /\ n >= 2 /\ Len(frames') = n - 1
    BY <2>2, <2>3
  <2>5. /\ Len(config) <= Len(given)
        /\ \A k \in 1 .. Len(config) : config[k] = given[Len(given) - Len(config) + k]
        /\ Cardinality(Used) = Len(served) + IF Len(frames) = 1 /\ ret = 0 THEN 0 ELSE 1
    BY <2>3 DEF MInv, LinesRead, Loading
  <2>6. Cardinality(Used) = Len(served) + 1
    BY <2>4, <2>5
  <2>7. Cardinality(Used') = Len(served') + IF Len(frames') = 1 /\ ret' = 0 THEN 0 ELSE 1
    <3>1. CASE n = 2
      <4>1. frames[2].fn = "config"
        BY <2>3, <2>4, <3>1 DEF Loading
      <4>2. served' = Append(served, On)
        BY <1>1, <2>4, <3>1, <4>1
      <4>3. Len(served') = Len(served) + 1
        BY <1>2, <1>3, <4>2
      <4>4. Len(frames') = 1 /\ ret' = 0
        BY <1>1, <2>4, <3>1
      <4> QED BY <1>3, <1>4, <2>6, <4>3, <4>4
    <3>2. CASE n # 2
      <4>1. served' = served
        BY <1>1, <2>4, <3>2
      <4>2. Len(frames') # 1
        BY <2>4, <3>2
      <4> QED BY <1>4, <2>6, <4>1, <4>2
    <3> QED BY <3>1, <3>2
  <2> QED BY <1>1, <2>5, <2>7
<1> QED BY <1>5 DEF LinesRead, Loading

\* Calls made by the one on top.
LEMMA LoadingUnder ==
    ASSUME MInv, NEW cs \in Seq(FrameType), cs # <<>>, \A k \in 1 .. Len(cs) : cs[k].fn # "config",
           frames' = cs \o frames, Loading'
    PROVE  /\ Loading /\ Len(frames) \in Nat /\ Len(cs) \in Nat /\ Len(cs) >= 1 /\ Len(frames) >= 1
           /\ Len(frames') = Len(cs) + Len(frames)
<1>1. PICK rest : rest = frames
  OBVIOUS
<1>2. PICK s : s = frames'
  OBVIOUS
<1>3. rest \in Seq(FrameType) /\ s = cs \o rest
  BY <1>1, <1>2 DEF MInv, StackShape
<1>4. /\ s \in Seq(FrameType) /\ Len(s) = Len(cs) + Len(rest) /\ Len(cs) \in Nat /\ Len(rest) \in Nat
      /\ \A k \in 1 .. Len(cs) : s[k] = cs[k]
      /\ \A k \in 1 .. Len(s) : k > Len(cs) => k - Len(cs) \in 1 .. Len(rest) /\ s[k] = rest[k - Len(cs)]
  BY <1>3, Joined
<1>5. s # <<>> /\ s[Len(s)].fn = "config"
  BY <1>2 DEF Loading
<1>6. Len(s) \in 1 .. Len(s) /\ Len(s) >= 1 /\ Len(cs) >= 1
  BY <1>4, <1>5, Under
<1>7. Len(s) > Len(cs)
  <2>1. ASSUME Len(s) <= Len(cs) PROVE FALSE
    <3>1. Len(s) \in 1 .. Len(cs)
      BY <1>4, <1>6, <2>1
    <3> QED BY <1>4, <1>5, <3>1
  <2> QED BY <1>4, <2>1
<1>8. Len(s) - Len(cs) \in 1 .. Len(rest) /\ s[Len(s)] = rest[Len(s) - Len(cs)] /\ Len(s) - Len(cs) = Len(rest)
  BY <1>4, <1>6, <1>7
<1>9. Len(rest) >= 1 /\ rest[Len(rest)].fn = "config"
  BY <1>4, <1>5, <1>8
<1>10. rest # <<>>
  <2>1. Len(rest) # 0
    BY <1>9
  <2> QED BY <2>1
<1> QED BY <1>1, <1>2, <1>4, <1>6, <1>9, <1>10 DEF Loading

\* The calls of a callback.
LEMMA CallLines ==
    ASSUME MInv, CanCall, NEW cs \in Seq(FrameType), cs # <<>>, \A k \in 1 .. Len(cs) : cs[k].fn # "config",
           frames' = cs \o frames, UNCHANGED <<config, given, served>>
    PROVE  LinesRead'
<1>1. ASSUME Loading'
      PROVE  Loading /\ (Len(frames) = 1 /\ ret = 0 <=> Len(frames') = 1 /\ ret' = 0)
  <2>1. /\ Loading /\ Len(frames) \in Nat /\ Len(cs) \in Nat /\ Len(cs) >= 1 /\ Len(frames) >= 1
        /\ Len(frames') = Len(cs) + Len(frames)
    BY <1>1, LoadingUnder
  <2>2. Len(frames) # 1
    <3>1. ASSUME Len(frames) = 1 PROVE FALSE
      <4>1. frames # <<>> /\ frames[1].fn = "config"
        BY <2>1, <3>1 DEF Loading
      <4> QED BY <4>1, Callable
    <3> QED BY <3>1
  <2>3. Len(frames') # 1
    <3>1. PICK i, n \in Nat : i = Len(cs) /\ n = Len(frames)
      BY <2>1
    <3>2. i >= 1 /\ n >= 1 /\ Len(frames') = i + n
      BY <2>1, <3>1
    <3>3. i + n # 1
      BY <3>2
    <3> QED BY <3>2, <3>3
  <2> QED BY <2>1, <2>2, <2>3
<1> QED BY <1>1, LinesKept

\* What Begin puts on the C stack.
LEMMA BeginCall ==
    ASSUME MInv, NEW r \in Lines, r # None, Begin(r, frames)
    PROVE  \E c \in FrameType : c.fn # "config" /\ frames' = <<c>> \o frames
<1>1. PICK m \in Mods : frames' = <<IF Resolve[r.name] \in Files THEN Frame("open", m, r.arg)
                                   ELSE Frame("fail", m, -1)>> \o frames
  BY DEF Begin
<1>2. r.arg \in STRING \cup {None} /\ -1 \in Int
  BY DEF Lines
<1>3. PICK c : c = IF Resolve[r.name] \in Files THEN Frame("open", m, r.arg) ELSE Frame("fail", m, -1)
  OBVIOUS
<1>4. PICK fn \in {"open", "fail"}, v \in STRING \cup {None} \cup Int : c = Frame(fn, m, v)
  BY <1>2, <1>3
<1>5. c \in FrameType /\ c.fn # "config"
  BY <1>4 DEF Frame, FrameType, Ends
<1> QED BY <1>1, <1>3, <1>5

\* A callback loads a module.
LEMMA LoadLines == ASSUME MInv, NEW r \in Requests, Load(r) PROVE LinesRead'
<1>1. r \in Lines /\ r # None
  BY ModuleAssumption
<1>2. Begin(r, frames) /\ CanCall /\ UNCHANGED <<config, given, served>>
  BY DEF Load, Begin
<1>3. PICK c \in FrameType : c.fn # "config" /\ frames' = <<c>> \o frames
  BY <1>1, <1>2, BeginCall
<1>4. PICK cs : cs = <<c>>
  OBVIOUS
<1>5. /\ cs \in Seq(FrameType) /\ cs # <<>> /\ frames' = cs \o frames
      /\ \A k \in 1 .. Len(cs) : cs[k] = c
  BY <1>3, <1>4
<1> QED BY <1>2, <1>3, <1>5, CallLines

\* A callback unloads a module.
LEMMA UnloadNamedLines == ASSUME MInv, NEW n, UnloadNamed(n) PROVE LinesRead'
<1>1. PICK m \in Listed :
        /\ CanCall
        /\ \/ frames' = <<Frame("unload", m, None), Frame("dispose", m, None)>> \o frames
           \/ UNCHANGED frames
        /\ UNCHANGED <<config, given, served>>
  BY DEF UnloadNamed
<1>2. CASE UNCHANGED frames
  <2>1. ASSUME Loading'
        PROVE  Loading /\ (Len(frames) = 1 /\ ret = 0 <=> Len(frames') = 1 /\ ret' = 0)
    <3>1. Loading
      BY <1>2, <2>1 DEF Loading
    <3>2. Len(frames) # 1
      BY <1>1, <3>1, Callable DEF Loading
    <3> QED BY <1>2, <3>1, <3>2
  <2> QED BY <1>1, <2>1, LinesKept
<1>3. CASE frames' = <<Frame("unload", m, None), Frame("dispose", m, None)>> \o frames
  <2>1. PICK u, d : u = Frame("unload", m, None) /\ d = Frame("dispose", m, None)
    OBVIOUS
  <2>2. u \in FrameType /\ d \in FrameType /\ u.fn # "config" /\ d.fn # "config"
    BY <2>1 DEF Frame, FrameType, Ends, Leads, Listed
  <2>3. PICK cs : cs = <<u, d>>
    OBVIOUS
  <2>4. cs \in Seq(FrameType) /\ cs # <<>> /\ Len(cs) = 2 /\ cs[1] = u /\ cs[2] = d /\ frames' = cs \o frames
    BY <1>3, <2>1, <2>2, <2>3
  <2>5. ASSUME NEW k \in 1 .. Len(cs) PROVE cs[k].fn # "config"
    <3>1. k = 1 \/ k = 2
      BY <2>4
    <3> QED BY <2>2, <2>4, <3>1
  <2> QED BY <1>1, <2>4, <2>5, CallLines
<1> QED BY <1>1, <1>2, <1>3

\* A callback looks for a module that is not there.
LEMMA NotFoundLines == ASSUME MInv, NEW n, NotFound(n) PROVE LinesRead'
<1>1. CanCall /\ frames' = frames /\ UNCHANGED <<config, given, served>>
  BY DEF NotFound, history
<1>2. ASSUME Loading'
      PROVE  Loading /\ (Len(frames) = 1 /\ ret = 0 <=> Len(frames') = 1 /\ ret' = 0)
  <2>1. Loading
    BY <1>1, <1>2 DEF Loading
  <2>2. Len(frames) # 1
    BY <1>1, <2>1, Callable DEF Loading
  <2> QED BY <1>1, <2>1, <2>2
<1> QED BY <1>1, <1>2, LinesKept

\* modules_load is called: nothing has been read.
LEMMA ConfigureLines == ASSUME MInv, NEW c \in Configs, Configure(c) PROVE LinesRead'
<1>1. config' = c /\ given' = c /\ served' = <<>> /\ ret' = 0 /\ frames' = <<Frame("config", None, None)>>
  BY DEF Configure
<1>2. c \in Seq(Lines) /\ Len(c) \in Nat
  BY ModuleAssumption
<1>3. Used' = {}
  <2>1. Len(given') - Len(config') = 0
    BY <1>1, <1>2
  <2>2. 1 .. 0 = {}
    OBVIOUS
  <2> QED BY <2>1, <2>2 DEF Used
<1>4. Cardinality(Used') = 0
  BY <1>3, FS_EmptySet
<1>5. Len(frames') = 1 /\ Len(served') = 0
  BY <1>1
<1>6. Len(config') <= Len(given') /\ \A k \in 1 .. Len(config') : config'[k] = given'[Len(given') - Len(config') + k]
  BY <1>1, <1>2
<1> QED BY <1>1, <1>4, <1>5, <1>6 DEF LinesRead

\* modules_load returns.
LEMMA ConfiguredLines == ASSUME MInv, Configured PROVE LinesRead'
<1>1. Calling("config") /\ Call(<<>>)
  BY DEF Configured
<1>2. frames # <<>> /\ StackShape /\ Tail(frames) = <<>>
  BY <1>1, ConfigLast DEF MInv
<1>3. frames' = <<>>
  BY <1>1, <1>2, PopShape
<1> QED BY <1>3 DEF LinesRead

\* One more line has been read.
LEMMA LineLines == ASSUME MInv, Line PROVE LinesRead'
<1>1. Calling("config") /\ ret = 0 /\ config # <<>> /\ config' = Tail(config) /\ UNCHANGED <<given, served, ret>>
  BY DEF Line, Begin, Stops
<1>2. frames # <<>> /\ Len(frames) = 1 /\ frames[1].fn = "config" /\ frames \in Seq(FrameType)
  BY <1>1, ConfigLast DEF MInv, StackShape
<1>3. config \in Seq(Lines) /\ given \in Seq(Lines) /\ served \in Seq(Mods)
  BY Types DEF MInv
<1>4. /\ Len(config) <= Len(given)
      /\ \A k \in 1 .. Len(config) : config[k] = given[Len(given) - Len(config) + k]
      /\ Cardinality(Used) = Len(served) + 0
  BY <1>1, <1>2 DEF MInv, LinesRead
<1>5. PICK i, n \in Nat : i = Len(config) /\ n = Len(given) /\ i >= 1 /\ i <= n
  BY <1>1, <1>3, <1>4
<1>6. Len(config') = i - 1 /\ \A k \in 1 .. i - 1 : config'[k] = config[k + 1]
  BY <1>1, <1>3, <1>5
<1>7. PICK j : j = n - i + 1
  OBVIOUS
<1>8. j \in 1 .. n /\ j - 1 = n - i /\ given[j] = config[1] /\ Len(given') - Len(config') = j
  <2>1. 1 \in 1 .. Len(config)
    BY <1>5
  <2>2. given[j] = config[1]
    BY <1>4, <1>5, <1>7, <2>1
  <2> QED BY <1>1, <1>5, <1>6, <1>7, <2>2
<1>9. \A k \in 1 .. Len(config') : config'[k] = given'[Len(given') - Len(config') + k]
  <2>1. ASSUME NEW k \in 1 .. i - 1 PROVE config'[k] = given[j + k]
    <3>1. config'[k] = config[k + 1] /\ k + 1 \in 1 .. Len(config)
      BY <1>5, <1>6, <2>1
    <3>2. config[k + 1] = given[n - i + (k + 1)]
      BY <1>4, <1>5, <3>1
    <3>3. n - i + (k + 1) = j + k
      BY <1>5, <1>7
    <3> QED BY <3>1, <3>2, <3>3
  <2> QED BY <1>1, <1>6, <1>8, <2>1
<1>10. Len(config') <= Len(given')
  BY <1>1, <1>5, <1>6
<1>11. /\ Used = {k \in 1 .. j - 1 : given[k] # None}
       /\ Used' = {k \in 1 .. j : given[k] # None}
  BY <1>1, <1>5, <1>7, <1>8 DEF Used
<1>12. 1 .. j = (1 .. j - 1) \cup {j} /\ j \notin 1 .. j - 1
  BY <1>8
<1>13. IsFiniteSet(Used)
  <2>1. j - 1 \in Int /\ 1 \in Int
    BY <1>8
  <2>2. IsFiniteSet(1 .. j - 1)
    BY <2>1, FS_Interval
  <2>3. Used \subseteq 1 .. j - 1
    BY <1>11
  <2> QED BY <2>2, <2>3, FS_Subset
<1>14. CASE config[1] = None
  <2>1. frames' = frames
    BY <1>14 DEF Line
  <2>2. Used' = Used
    BY <1>8, <1>11, <1>12, <1>14
  <2>3. Cardinality(Used') = Len(served') + IF Len(frames') = 1 /\ ret' = 0 THEN 0 ELSE 1
    BY <1>1, <1>2, <1>4, <2>1, <2>2
  <2> QED BY <1>9, <1>10, <2>3 DEF LinesRead
<1>15. CASE config[1] # None
  <2>1. Begin(config[1], frames) /\ config[1] \in Lines
    <3>1. 1 \in 1 .. Len(config)
      BY <1>5
    <3> QED BY <1>3, <1>15, <3>1 DEF Line
  <2>2. PICK c \in FrameType : c.fn # "config" /\ frames' = <<c>> \o frames
    BY <1>15, <2>1, BeginCall
  <2>3. Len(frames') = 2
    <3>1. PICK s, t : s = frames /\ t = <<c>>
      OBVIOUS
    <3>2. t \in Seq(FrameType) /\ s \in Seq(FrameType) /\ Len(t) = 1 /\ Len(s) = 1
      BY <1>2, <3>1
    <3>3. Len(t \o s) = Len(t) + Len(s)
      BY <3>2
    <3> QED BY <2>2, <3>1, <3>2, <3>3
  <2>4. Used' = Used \cup {j} /\ j \notin Used
    BY <1>8, <1>11, <1>12, <1>15
  <2>5. Cardinality(Used') = Cardinality(Used) + 1
    BY <1>13, <2>4, FS_AddElement
  <2>6. Cardinality(Used') = Len(served') + 1
    <3>1. Len(served) \in Nat
      BY <1>3
    <3>2. Cardinality(Used) = Len(served)
      BY <1>4, <3>1
    <3> QED BY <1>1, <2>5, <3>2
  <2>7. Cardinality(Used') = Len(served') + IF Len(frames') = 1 /\ ret' = 0 THEN 0 ELSE 1
    BY <2>3, <2>6
  <2> QED BY <1>9, <1>10, <2>6, <2>7 DEF LinesRead
<1> QED BY <1>14, <1>15

\* Every step keeps the account of the lines.
LEMMA LinesStep == ASSUME MInv, [ModNext]_modVars PROVE LinesRead'
<1>1. ASSUME UNCHANGED modVars PROVE LinesRead'
  <2>1. UNCHANGED <<config, given, served, frames, ret>>
    BY <1>1 DEF modVars, history
  <2>2. Loading' => Loading /\ (Len(frames) = 1 /\ ret = 0 <=> Len(frames') = 1 /\ ret' = 0)
    BY <2>1 DEF Loading
  <2> QED BY <2>1, <2>2, LinesKept
<1> QED BY <1>1, LoadLines, OpenLines, LinkInLines, LeaveLines, UnloadNamedLines, NotFoundLines,
           ConfigureLines, LineLines, ConfiguredLines DEF ModNext

-----------------------------------------------------------------------------
(* The theorems *)

\* The types at the start.
LEMMA InitTypes == ModInit => ModTypeOK
<1> SUFFICES ASSUME ModInit PROVE ModTypeOK
  OBVIOUS
<1>1. Blank \in ModType
  BY DEF Blank, Fresh, ModType, Paths
<1>2. mod \in [Mods -> ModType]
  BY <1>1 DEF ModInit
<1>3. ring \in Rings(Nodes)
  BY DEF ModInit, Unlinked, Rings
<1>4. refs \in [Files -> Nat] /\ lost \in [Files -> Nat] /\ debt \in [Mods -> 0 .. 1]
  <2>1. 0 \in Nat /\ 0 \in 0 .. 1
    OBVIOUS
  <2> QED BY <2>1 DEF ModInit
<1>5. frames = <<>> /\ Len(frames) = 0
  BY DEF ModInit
<1>6. \A k \in 1 .. Len(frames) : frames[k].m \in Mods \cup {None}
  BY <1>5
<1>7. alive \in SUBSET Mods /\ ret \in Int
  BY DEF ModInit
<1>8. config \in Seq(Lines) /\ given \in Seq(Lines) /\ order \in Seq(Mods) /\ served \in Seq(Mods)
  BY DEF ModInit
<1> QED BY <1>2, <1>3, <1>4, <1>6, <1>7, <1>8 DEF ModTypeOK, ModType

\* Nothing is loaded at the start.
LEMMA InitHolds == ModInit => MInv
<1> SUFFICES ASSUME ModInit PROVE MInv
  OBVIOUS
<1>1. ModTypeOK
  BY InitTypes
<1>2. frames = <<>> /\ Len(frames) = 0 /\ frames \in Seq(FrameType) /\ order = <<>> /\ Len(order) = 0
  BY DEF ModInit
<1>3. (\A k \in 1 .. Len(frames) : FALSE) /\ (\A k \in 2 .. Len(frames) : FALSE) /\ (\A k \in 1 .. Len(frames) - 1 : FALSE)
  BY <1>2
<1>4. \A m \in Mods : ring.next[m] = m /\ ring.prev[m] = m
  BY DEF ModInit, Unlinked, Nodes
<1>5. ring.next[Chain] = Chain /\ ring.prev[Chain] = Chain
  BY DEF ModInit, Unlinked, Nodes
<1>6. Listed = {}
  BY <1>4 DEF Listed, Single
<1>7. StackShape
  BY <1>2, <1>3 DEF StackShape, Shape
<1>8. FactsHold /\ Depths
  BY <1>2, <1>3 DEF FactsHold, Depths, Calling
<1>9. Debts
  <2>1. \A m \in Mods : debt[m] # 1
    BY DEF ModInit
  <2> QED BY <2>1 DEF Debts, DebtOf
<1>10. \A k \in 1 .. Len(order) : FALSE
  BY <1>2
<1>11. RingHolds
  <2>1. Holds(ring, Chain, order, Len(order))
    BY <1>2, <1>5, <1>10 DEF Holds
  <2>2. {order[k] : k \in 1 .. Len(order)} = {}
    BY <1>10
  <2> QED BY <1>4, <1>6, <2>1, <2>2 DEF RingHolds
<1>12. Distinct /\ Members
  BY <1>6, <1>10 DEF Distinct, Members, MemberOf
<1>13. HandlesBalanced
  <2>1. ASSUME NEW f \in Files PROVE refs[f] = Cardinality({m \in alive : mod[m].handle = f}) + lost[f]
    <3>1. {m \in alive : mod[m].handle = f} = {}
      BY DEF ModInit
    <3>2. refs[f] = 0 /\ lost[f] = 0
      BY DEF ModInit
    <3>3. Cardinality({m \in alive : mod[m].handle = f}) = 0
      <4>1. Cardinality({}) = 0
        BY FS_EmptySet
      <4> QED BY <3>1, <4>1, Zenon
    <3> QED BY <3>2, <3>3
  <2> QED BY <2>1 DEF HandlesBalanced
<1>14. OneEach
  <2>1. Present = {}
    BY <1>3, <1>6, PresentIs
  <2> QED BY <2>1 DEF OneEach
<1>15. LinesRead
  BY <1>2 DEF LinesRead
<1> QED BY <1>1, <1>7, <1>8, <1>9, <1>11, <1>12, <1>13, <1>14, <1>15 DEF MInv

\* Whatever the callbacks do, and whatever fails, every step of the loader keeps the invariant.
THEOREM ModuleInvariant == ModSpec => []MInv
<1>1. ModInit => MInv
  BY InitHolds
<1>2. MInv /\ [ModNext]_modVars => MInv'
  <2> SUFFICES ASSUME MInv, [ModNext]_modVars PROVE MInv'
    OBVIOUS
  <2>1. Core' /\ HandlesBalanced' /\ OneEach' /\ LinesRead'
    BY CoreStep, HandlesStep, OneEachStep, LinesStep
  <2> QED BY <2>1 DEF MInv, Core
<1> QED BY <1>1, <1>2, PTL DEF ModSpec

\* The ring is well linked, has the registered modules in the order in which they were
\* registered, and every one found on it is allocated, registered and mapped: whatever
\* the callbacks of test/module.c load and unload while module.c walks or changes it.
THEOREM RingAlwaysKept == ModSpec => []RingKept
<1>1. MInv => RingKept
  <2> SUFFICES ASSUME MInv PROVE RingKept
    OBVIOUS
  <2>1. ASSUME NEW m \in Listed
        PROVE  m \in alive /\ mod[m].state = "REGISTERED" /\ mod[m].def # None /\ mod[m].def = mod[m].handle
    <3>1. m \in Mods
      BY DEF Listed
    <3>2. m \in alive /\ ~NotRegistered(m) /\ OpenFile(m)
      BY <2>1, <3>1 DEF MInv, Members, MemberOf
    <3> QED BY <3>2, ModuleAssumption DEF NotRegistered, OpenFile
  <2> QED BY <2>1 DEF MInv, RingKept, ListedRegistered
<1> QED BY <1>1, ModuleInvariant, PTL

\* Handles of dlopen are neither leaked nor closed twice by module.c, the code of a callback stays
\* mapped while it runs, and a block whose reg() has succeeded keeps its file until dereg().
THEOREM HandlesAlwaysHeld == ModSpec => []HandlesHeld
<1>1. MInv => HandlesHeld
  <2> SUFFICES ASSUME MInv PROVE HandlesHeld
    OBVIOUS
  <2>1. ASSUME NEW k \in Callbacks, NEW f, f = mod[frames[k].m].def
        PROVE  f # None /\ f = mod[frames[k].m].handle /\ refs[f] > 0
    <3>1. k \in 1 .. Len(frames) /\ frames[k].fn \in {"reg", "dereg"}
      BY DEF Callbacks
    <3>2. Facts(frames[k])
      BY <3>1 DEF MInv, FactsHold
    <3>3. frames[k].m \in alive /\ OpenFile(frames[k].m)
      BY <3>1, <3>2 DEF Facts
    <3>4. f \in Files /\ f = mod[frames[k].m].handle
      BY <2>1, <3>3 DEF OpenFile
    <3>5. frames[k].m \in Holders(f)
      BY <3>3, <3>4 DEF Holders
    <3>6. IsFiniteSet(Holders(f)) /\ Cardinality(Holders(f)) \in Nat /\ refs[f] = Cardinality(Holders(f)) + lost[f]
      BY <3>4, HoldersFinite, Balance
    <3>7. Cardinality(Holders(f)) # 0
      BY <3>5, <3>6, FS_EmptySet
    <3>8. lost[f] \in Nat
      BY <3>4, Types DEF MInv
    <3> QED BY <3>4, <3>6, <3>7, <3>8, ModuleAssumption
  <2>2. CodeMapped
    BY <2>1 DEF CodeMapped
  <2>3. Paired
    BY DEF MInv, Debts, DebtOf, Paired
  <2> QED BY <2>2, <2>3 DEF MInv, HandlesHeld
<1> QED BY <1>1, ModuleInvariant, PTL

\* aem_module_check_reg_singleton keeps what it can promise, whatever callbacks load and unload:
\* of two registered modules of one file that asked for it, one was opened from the reg() of the other.
THEOREM SingletonAlwaysUnique == ModSpec => []SingletonUnique
<1>1. MInv => SingletonUnique
  <2> SUFFICES ASSUME MInv PROVE SingletonUnique
    OBVIOUS
  <2>1. Listed \subseteq Present
    BY PresentIs
  <2> QED BY <2>1 DEF MInv, OneEach, SingletonUnique
<1> QED BY <1>1, ModuleInvariant, PTL

\* modules_load has loaded a module for each line that it has read, but for the last one
\* after an error, whatever the modules it loads load themselves.
THEOREM AlwaysStopsAtError == ModSpec => []StopsAtError
<1>1. MInv => StopsAtError
  <2> SUFFICES ASSUME MInv, Calling("config")
      PROVE  Cardinality(Used) = Len(served) + IF ret = 0 THEN 0 ELSE 1
    BY DEF StopsAtError, Used
  <2>1. frames # <<>> /\ Len(frames) = 1 /\ frames[1].fn = "config"
    BY ConfigLast DEF MInv
  <2>2. frames[Len(frames)].fn = "config"
    BY <2>1
  <2> QED BY <2>1, <2>2 DEF MInv, LinesRead
<1> QED BY <1>1, ModuleInvariant, PTL
=============================================================================
