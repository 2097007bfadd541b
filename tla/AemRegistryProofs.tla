-------------------------- MODULE AemRegistryProofs --------------------------
(***************************************************************************)
(* Proofs about AemRegistry, for any items, names and nesting of callbacks,*)
(* as long as nothing is registered while the registry is destroyed; and,  *)
(* at the end, about the stack that its slots are: AemStack, for any       *)
(* elements and any sizes.                                                 *)
(***************************************************************************)
EXTENDS AemRegistry, AemStack, FiniteSetTheorems, SequenceTheorems, TLAPS

\* The types without the bound of the ids, which follows from the slots.
Types ==
    /\ stk \in Seq(Items \cup {Null}) /\ maxn \in Nat
    /\ noDups \in BOOLEAN /\ hasDtor \in BOOLEAN /\ open \in BOOLEAN /\ failed \in BOOLEAN
    /\ id \in [Items -> Int] /\ \A x \in Items : id[x] >= -1
    /\ reg \in [Items -> BOOLEAN] /\ name \in [Items -> Names]
    /\ calls \in Seq(Items)
    /\ at \in Int /\ at >= -1

\* What the loop of aem_registry_dtor has passed is gone, or is just being destructed.
Passed ==
    /\ \A k \in 1 .. Len(stk) : k <= at => stk[k] = Null \/ \E j \in 1 .. Len(calls) : calls[j] = stk[k]
    /\ at # -1 => open
    /\ ~open => stk = <<>>

\* Ids stay below the number of items, for which the slots are not enough: see IdsFewerThanItems.
Bounded == \A x \in Items : id[x] <= Cardinality(Items) - 1

IInv == Types /\ Bounded /\ SlotsAgree /\ EndsWithItem /\ NamesUnique /\ Passed

-----------------------------------------------------------------------------
(* Numbers, sequences and slots *)

\* A set of numbers that is not empty has a least one.
LEMMA LeastOf == ASSUME NEW S \in SUBSET Nat, S # {} PROVE \E m \in S : \A k \in S : m <= k
<1> DEFINE R == {ss \in Nat \X Nat : ss[1] < ss[2]}
<1>1. R = OpToRel(<, Nat)
  BY Zenon DEF OpToRel
<1>2. \A k, m \in Nat : k < m => <<k, m>> \in R
  BY SMT
<1> HIDE DEF R
<1>3. IsWellFoundedOn(R, Nat)
  BY <1>1, NatLessThanWellFounded, Zenon
<1>4. PICK m \in S : \A k \in S : ~(<<k, m>> \in R)
  BY <1>3, WFMin, Zenon
<1>5. \A k \in S : m <= k
  <2> TAKE k \in S
  <2>1. k \in Nat /\ m \in Nat
    OBVIOUS
  <2>2. ~(k < m)
    BY <1>2, <1>4, <2>1, Zenon
  <2> QED BY <2>1, <2>2, SMT
<1> QED BY <1>5

\* A name that aem_registry_by_name does not find is nobody's.
LEMMA NotFoundIsFree ==
  ASSUME Types, SlotsAgree, NEW n, ByName(n) = {}, NEW x \in Items, id[x] # -1
  PROVE  name[x] # n
<1> SUFFICES ASSUME name[x] = n PROVE FALSE
  OBVIOUS
<1>1. id[x] + 1 \in Named(n)
  BY RegistryAssumption DEF Types, SlotsAgree, Named
<1>2. Named(n) \in SUBSET Nat
  BY DEF Types, Named
<1>3. PICK m \in Named(n) : \A k \in Named(n) : m <= k
  BY <1>1, <1>2, LeastOf
<1>4. m \in {k \in Named(n) : \A j \in Named(n) : k <= j}
  BY <1>3
<1>5. stk[m] \in ByName(n)
  BY <1>4, Zenon DEF ByName
<1> QED BY <1>5

\* There are no more ids below a free slot than other items.
LEMMA IdsFewerThanItems ==
  ASSUME Types, SlotsAgree, NEW x \in Items, id[x] = -1,
         NEW i \in 0 .. Len(stk), IsFirstEmpty(stk, i)
  PROVE  i <= Cardinality(Items) - 1
<1> DEFINE f == [j \in 0 .. i - 1 |-> stk[j + 1]]
<1>1. \A j \in 0 .. i - 1 : stk[j + 1] \in Items /\ id[stk[j + 1]] = j /\ j # -1
  BY DEF Types, SlotsAgree, IsFirstEmpty, Index
<1>2. f \in Injection(0 .. i - 1, Items \ {x})
  <2>1. ASSUME NEW j \in 0 .. i - 1 PROVE stk[j + 1] \in Items \ {x}
    <3>1. id[stk[j + 1]] # -1
      BY <1>1
    <3> QED BY <1>1, <3>1
  <2>2. \A a, b \in 0 .. i - 1 : f[a] = f[b] => a = b
    BY <1>1
  <2> QED BY <2>1, <2>2 DEF Injection, IsInjective
<1>3. IsFiniteSet(Items) /\ Cardinality(Items) \in Nat
  BY RegistryAssumption, FS_CardinalityType
<1>4. IsFiniteSet(Items \ {x}) /\ Cardinality(Items \ {x}) = Cardinality(Items) - 1
  BY <1>3, FS_RemoveElement
<1>5. Cardinality(0 .. i - 1) <= Cardinality(Items \ {x})
  BY <1>2, <1>4, FS_Injection
<1>6. Cardinality(0 .. i - 1) = i
  BY FS_Interval
<1> QED BY <1>3, <1>4, <1>5, <1>6

\* What aem_stack_remove leaves: the item's slot empty, and no empty slot at the end.
LEMMA Removal ==
  ASSUME Types, SlotsAgree, NEW x \in Items, id[x] # -1, Leave(x)
  PROVE  /\ failed' = FALSE
         /\ stk' \in Seq(Items \cup {Null}) /\ Len(stk') <= Len(stk)
         /\ \A k \in 1 .. Len(stk') : stk'[k] = IF k = id[x] + 1 THEN Null ELSE stk[k]
         /\ \A k \in Len(stk') + 1 .. Len(stk) : k = id[x] + 1 \/ stk[k] = Null
         /\ stk' # <<>> => stk'[Len(stk')] # Null
         /\ id' = [id EXCEPT ![x] = -1] /\ reg' = [reg EXCEPT ![x] = FALSE]
<1> DEFINE emptied == [stk EXCEPT ![id[x] + 1] = Null]
<1>1. id[x] + 1 \in 1 .. Len(stk) /\ stk[id[x] + 1] = x
  BY DEF Types, SlotsAgree
<1>2. /\ emptied \in Seq(Items \cup {Null}) /\ Len(emptied) = Len(stk)
      /\ \A k \in 1 .. Len(stk) : emptied[k] = IF k = id[x] + 1 THEN Null ELSE stk[k]
  BY <1>1 DEF Types
<1>3. PICK n \in 0 .. Len(stk) : IsTrimmed(emptied, n) /\ stk' = SubSeq(emptied, 1, n)
  BY DEF Leave
<1> HIDE DEF emptied
<1>4. /\ stk' \in Seq(Items \cup {Null}) /\ Len(stk') = n
      /\ \A k \in 1 .. n : stk'[k] = emptied[k]
  BY <1>2, <1>3
<1>5. \A k \in n + 1 .. Len(stk) : emptied[k] = Null
  BY <1>2, <1>3 DEF IsTrimmed
<1>6. n > 0 => emptied[n] # Null
  BY <1>2, <1>3 DEF IsTrimmed
<1>7. failed' = FALSE
  <2>1. Index(stk, id[x]) = x
    BY <1>1 DEF Index, Types
  <2> QED BY <2>1 DEF Leave
<1>8. id' = [id EXCEPT ![x] = -1] /\ reg' = [reg EXCEPT ![x] = FALSE]
  BY DEF Leave, Cleared
<1>9. \A k \in n + 1 .. Len(stk) : k = id[x] + 1 \/ stk[k] = Null
  BY <1>2, <1>5, <1>3
<1>10. stk' # <<>> => stk'[Len(stk')] # Null
  BY <1>4, <1>6, <1>3
<1>11. Len(stk') \in Nat /\ Len(stk) \in Nat /\ Len(stk') <= Len(stk)
  BY <1>3, <1>4 DEF Types
<1>12. \A k \in 1 .. Len(stk') : stk'[k] = IF k = id[x] + 1 THEN Null ELSE stk[k]
  <2> TAKE k \in 1 .. Len(stk')
  <2>1. k \in 1 .. Len(stk)
    BY <1>11
  <2> QED BY <1>2, <1>4, <2>1
<1>13. \A k \in Len(stk') + 1 .. Len(stk) : k = id[x] + 1 \/ stk[k] = Null
  BY <1>4, <1>9
<1> QED BY <1>4, <1>7, <1>8, <1>10, <1>11, <1>12, <1>13

-----------------------------------------------------------------------------
(* What the parts of actions do to the invariant *)

\* An item that registers gets a slot that agrees, at the end or where one was empty.
LEMMA Entered ==
  ASSUME IInv, NEW x \in Items, id[x] = -1, Enter(x),
         noDups' = noDups, hasDtor' = hasDtor, open' = open, failed' = failed,
         calls' = calls, at' = at, at = -1, open,
         name' \in [Items -> Names], \A y \in Items : y # x => name'[y] = name[y],
         noDups => \A y \in Items : id[y] # -1 => name[y] # name'[x]
  PROVE  IInv'
<1>1. PICK i \in 0 .. Len(stk) :
        /\ IsFirstEmpty(stk, i)
        /\ stk' = Assigned(stk, i, x)
        /\ maxn' = IF i = Len(stk) THEN Grown(maxn, i + 1) ELSE maxn
        /\ id' = [id EXCEPT ![x] = i]
        /\ reg' = [reg EXCEPT ![x] = TRUE]
  BY DEF Enter
<1> DEFINE len == IF i = Len(stk) THEN i + 1 ELSE Len(stk)
<1>2. i \in Nat /\ Len(stk) \in Nat /\ i <= Len(stk) /\ Null \notin Items
  BY RegistryAssumption DEF IInv, Types
<1>3. /\ stk' \in Seq(Items \cup {Null}) /\ Len(stk') = len
      /\ \A k \in 1 .. len : stk'[k] = IF k = i + 1 THEN x ELSE stk[k]
  <2>1. stk' = [k \in 1 .. len |-> IF k = i + 1 THEN x ELSE stk[k]]
    BY <1>1 DEF Assigned
  <2>2. \A k \in 1 .. len : (IF k = i + 1 THEN x ELSE stk[k]) \in Items \cup {Null}
    BY <1>2 DEF IInv, Types
  <2> QED BY <1>2, <2>1, <2>2
<1> HIDE DEF len
<1>4. len \in Nat /\ len >= Len(stk) /\ i + 1 \in 1 .. len /\ (i < Len(stk) => len = Len(stk))
      /\ (i = Len(stk) => len = i + 1)
  BY <1>2 DEF len
<1>5. i < Len(stk) => stk[i + 1] = Null
  BY <1>1, <1>2 DEF IsFirstEmpty, Index
<1>6. maxn' \in Nat /\ len <= maxn'
  <2>1. maxn \in Nat /\ Len(stk) <= maxn /\ Slack \in Nat
    BY SlackAssumption DEF IInv, Types, EndsWithItem
  <2> QED BY <1>1, <1>2, <1>4, <2>1 DEF Grown
<1>7. Types'
  BY <1>1, <1>2, <1>3, <1>6 DEF IInv, Types
<1>8. SlotsAgree'
  <2>1. \A k \in 1 .. len : stk'[k] # Null => id'[stk'[k]] = k - 1
    <3> SUFFICES ASSUME NEW k \in 1 .. len, stk'[k] # Null PROVE id'[stk'[k]] = k - 1
      OBVIOUS
    <3>1. CASE k = i + 1
      BY <1>1, <1>2, <1>3, <3>1 DEF IInv, Types
    <3>2. CASE k # i + 1
      <4>1. k \in 1 .. Len(stk) /\ stk'[k] = stk[k]
        BY <1>2, <1>3, <1>4, <3>2
      <4>2. stk[k] \in Items /\ id[stk[k]] = k - 1
        BY <4>1 DEF IInv, Types, SlotsAgree
      <4>3. stk[k] # x
        BY <4>1, <4>2, <1>2
      <4> QED BY <1>1, <4>1, <4>2, <4>3 DEF IInv, Types
    <3> QED BY <3>1, <3>2
  <2>2. \A y \in Items : /\ reg'[y] = (id'[y] # -1)
                         /\ id'[y] # -1 => id'[y] + 1 \in 1 .. len /\ stk'[id'[y] + 1] = y
    <3> TAKE y \in Items
    <3>1. CASE y = x
      <4>1. id'[y] = i /\ reg'[y] = TRUE
        BY <1>1, <3>1 DEF IInv, Types
      <4>2. i # -1 /\ i + 1 \in 1 .. len /\ stk'[i + 1] = y
        BY <1>2, <1>3, <1>4, <3>1
      <4> QED BY <4>1, <4>2
    <3>2. CASE y # x
      <4>1. id'[y] = id[y] /\ reg'[y] = reg[y]
        BY <1>1, <3>2 DEF IInv, Types
      <4>2. reg[y] = (id[y] # -1)
        BY DEF IInv, SlotsAgree
      <4>3. id[y] # -1 => id[y] + 1 \in 1 .. Len(stk) /\ stk[id[y] + 1] = y
        BY DEF IInv, SlotsAgree
      <4>4. id[y] # -1 => id[y] + 1 # i + 1
        BY <1>2, <1>5, <4>3
      <4> QED BY <1>3, <1>4, <1>2, <4>1, <4>2, <4>3, <4>4
    <3> QED BY <3>1, <3>2
  <2> QED BY <1>3, <2>1, <2>2 DEF IInv, SlotsAgree
<1>9. EndsWithItem'
  <2>1. stk'[len] # Null
    <3>1. CASE len = i + 1
      BY <1>2, <1>3, <1>4, <3>1
    <3>2. CASE len # i + 1
      <4>1. len = Len(stk) /\ len # 0 /\ stk'[len] = stk[len]
        BY <1>2, <1>3, <1>4, <3>2
      <4> QED BY <4>1 DEF IInv, Types, EndsWithItem
    <3> QED BY <3>1, <3>2
  <2> QED BY <1>3, <1>6, <2>1 DEF EndsWithItem
<1>10. NamesUnique'
  <2> SUFFICES ASSUME noDups, NEW y \in Items, NEW z \in Items, id'[y] # -1, id'[z] # -1, name'[y] = name'[z]
               PROVE  y = z
    BY DEF NamesUnique, Registered
  <2>1. \A u \in Items : u # x => id'[u] = id[u] /\ name'[u] = name[u]
    BY <1>1 DEF IInv, Types
  <2> QED BY <2>1 DEF IInv, NamesUnique, Registered
<1>11. Passed'
  BY <1>2, <1>3 DEF IInv, Passed
<1>12. Bounded'
  <2>1. i <= Cardinality(Items) - 1
    BY <1>1, IdsFewerThanItems DEF IInv
  <2> QED BY <1>1, <2>1 DEF IInv, Types, Bounded
<1> QED BY <1>7, <1>8, <1>9, <1>10, <1>11, <1>12 DEF IInv

\* An item that leaves is in no slot, and leaves everyone else where they are.
LEMMA Left ==
  ASSUME IInv, NEW x \in Items, id[x] # -1, Leave(x),
         maxn' = maxn, noDups' = noDups, hasDtor' = hasDtor, open' = open, name' = name,
         calls' \in Seq(Items), at' \in Int, at' >= -1, at' # -1 => open,
         \A k \in 1 .. Len(stk) : k <= at' => stk[k] = Null \/ stk[k] = x
                                              \/ \E j \in 1 .. Len(calls') : calls'[j] = stk[k]
  PROVE  IInv'
<1>1. /\ failed' = FALSE
      /\ stk' \in Seq(Items \cup {Null}) /\ Len(stk') <= Len(stk)
      /\ \A k \in 1 .. Len(stk') : stk'[k] = IF k = id[x] + 1 THEN Null ELSE stk[k]
      /\ \A k \in Len(stk') + 1 .. Len(stk) : k = id[x] + 1 \/ stk[k] = Null
      /\ stk' # <<>> => stk'[Len(stk')] # Null
      /\ id' = [id EXCEPT ![x] = -1] /\ reg' = [reg EXCEPT ![x] = FALSE]
  BY Removal DEF IInv
<1>2. /\ Len(stk') \in Nat /\ Len(stk) \in Nat /\ Null \notin Items
      /\ \A k \in 1 .. Len(stk) : stk[k] # Null => stk[k] \in Items /\ id[stk[k]] = k - 1
  <2>1. stk \in Seq(Items \cup {Null}) /\ Null \notin Items
    BY RegistryAssumption DEF IInv, Types
  <2>2. \A k \in 1 .. Len(stk) : stk[k] \in Items \cup {Null}
    BY <2>1
  <2>3. \A k \in 1 .. Len(stk) : stk[k] # Null => id[stk[k]] = k - 1
    BY DEF IInv, SlotsAgree
  <2> QED BY <1>1, <2>1, <2>2, <2>3
<1>3. id[x] + 1 \in 1 .. Len(stk) /\ stk[id[x] + 1] = x
  BY DEF IInv, SlotsAgree
<1>4. Types'
  <2>1. id' \in [Items -> Int] /\ \A y \in Items : id'[y] >= -1
    BY <1>1 DEF IInv, Types
  <2>2. reg' \in [Items -> BOOLEAN] /\ failed' \in BOOLEAN
    BY <1>1 DEF IInv, Types
  <2> QED BY <1>1, <2>1, <2>2 DEF IInv, Types
<1>5. SlotsAgree'
  <2>1. \A k \in 1 .. Len(stk') : stk'[k] # Null => id'[stk'[k]] = k - 1
    <3> SUFFICES ASSUME NEW k \in 1 .. Len(stk'), stk'[k] # Null PROVE id'[stk'[k]] = k - 1
      OBVIOUS
    <3>1. k \in 1 .. Len(stk) /\ k # id[x] + 1 /\ stk'[k] = stk[k]
      BY <1>1, <1>2
    <3>2. stk[k] \in Items /\ id[stk[k]] = k - 1
      BY <1>2, <3>1
    <3>3. stk[k] # x
      BY <3>1, <3>2, <1>2
    <3> QED BY <1>1, <3>1, <3>2, <3>3 DEF IInv, Types
  <2>2. \A y \in Items : /\ reg'[y] = (id'[y] # -1)
                         /\ id'[y] # -1 => id'[y] + 1 \in 1 .. Len(stk') /\ stk'[id'[y] + 1] = y
    <3> TAKE y \in Items
    <3>1. CASE y = x
      BY <1>1, <3>1 DEF IInv, Types
    <3>2. CASE y # x
      <4>1. id'[y] = id[y] /\ reg'[y] = reg[y]
        BY <1>1, <3>2 DEF IInv, Types
      <4>2. reg[y] = (id[y] # -1)
        BY DEF IInv, SlotsAgree
      <4>3. id[y] # -1 => id[y] + 1 \in 1 .. Len(stk) /\ stk[id[y] + 1] = y
        BY DEF IInv, SlotsAgree
      <4>4. id[y] # -1 => id[y] + 1 # id[x] + 1
        BY <1>3, <3>2, <4>3
      <4>5. id[y] # -1 => id[y] + 1 \in 1 .. Len(stk')
        <5>1. HAVE id[y] # -1
        <5>2. PICK k \in 1 .. Len(stk) : k = id[y] + 1
          BY <4>3, <5>1
        <5>3. k # id[x] + 1 /\ stk[k] # Null
          BY <1>2, <4>3, <4>4, <5>1, <5>2
        <5>4. ~ (k \in Len(stk') + 1 .. Len(stk))
          BY <1>1, <5>3
        <5>5. k \in 1 .. Len(stk')
          BY <1>2, <5>2, <5>4
        <5> QED BY <5>2, <5>5
      <4> QED BY <1>1, <4>1, <4>2, <4>3, <4>4, <4>5
    <3> QED BY <3>1, <3>2
  <2> QED BY <1>1, <2>1, <2>2 DEF SlotsAgree
<1>6. EndsWithItem'
  BY <1>1, <1>2 DEF IInv, Types, EndsWithItem
<1>7. NamesUnique'
  BY <1>1 DEF IInv, Types, NamesUnique, Registered
<1>8. Passed'
  <2>0. ~open' => stk' = <<>>
    BY <1>1, <1>2, <1>3 DEF IInv, Passed
  <2> SUFFICES ASSUME NEW k \in 1 .. Len(stk'), k <= at'
        PROVE  stk'[k] = Null \/ \E j \in 1 .. Len(calls') : calls'[j] = stk'[k]
    BY <2>0 DEF IInv, Passed
  <2>1. k \in 1 .. Len(stk) /\ k \in 1 .. Len(stk')
    BY <1>1, <1>2
  <2>2. stk'[k] = IF k = id[x] + 1 THEN Null ELSE stk[k]
    BY <1>1, <2>1
  <2>3. CASE stk[k] = x
    <3>1. id[x] = k - 1
      BY <1>2, <2>1, <2>3
    <3> QED BY <1>2, <2>1, <2>2, <3>1
  <2>4. CASE stk[k] # x
    BY <2>1, <2>2, <2>4
  <2> QED BY <2>3, <2>4
<1>9. Bounded'
  <2>1. Cardinality(Items) \in Nat
    BY RegistryAssumption, FS_CardinalityType
  <2> QED BY <1>1, <2>1 DEF IInv, Types, Bounded
<1> QED BY <1>4, <1>5, <1>6, <1>7, <1>8, <1>9 DEF IInv
-----------------------------------------------------------------------------
(* The invariant *)

LEMMA InitInv == Init => IInv
<1> SUFFICES ASSUME Init PROVE IInv
  OBVIOUS
<1>1. stk = <<>> /\ Len(stk) = 0
  BY DEF Init
<1>2. Types
  <2>1. id \in [Items -> Int] /\ (\A x \in Items : id[x] >= -1) /\ reg \in [Items -> BOOLEAN]
    BY DEF Init
  <2>2. name \in [Items -> Names]
    BY DEF Init
  <2>3. stk \in Seq(Items \cup {Null}) /\ calls \in Seq(Items) /\ maxn \in Nat /\ at \in Int /\ at >= -1
    BY DEF Init
  <2> QED BY <2>1, <2>2, <2>3 DEF Init, Types
<1>3. SlotsAgree
  <2>1. \A x \in Items : id[x] = -1 /\ reg[x] = FALSE
    BY DEF Init
  <2>2. failed = FALSE
    BY DEF Init
  <2>3. \A x \in Items : reg[x] = (id[x] # -1)
    BY <2>1
  <2>4. \A k \in 1 .. Len(stk) : FALSE
    BY <1>1
  <2> QED BY <2>1, <2>2, <2>3, <2>4 DEF SlotsAgree
<1>4. EndsWithItem /\ NamesUnique /\ Passed
  BY <1>1 DEF Init, EndsWithItem, NamesUnique, Registered, Passed
<1>5. Bounded
  <2>1. Cardinality(Items) \in Nat
    BY RegistryAssumption, FS_CardinalityType
  <2> QED BY <2>1 DEF Init, Bounded
<1> QED BY <1>2, <1>3, <1>4, <1>5 DEF IInv

LEMMA RegisterInv == ASSUME ~LateRegister, IInv, NEW x \in Items, Register(x) PROVE IInv'
<1>1. noDups => \A y \in Items : id[y] # -1 => name[y] # name[x]
  BY NotFoundIsFree DEF Register, Taken, IInv
<1> QED BY <1>1, Entered DEF Register, MayRegister, IInv, Types

LEMMA GetInv == ASSUME ~LateRegister, IInv, NEW x \in Items, NEW n \in Names, Get(n, x) PROVE IInv'
<1>1. \A y \in Items : id[y] # -1 => name[y] # n
  BY NotFoundIsFree DEF Get, IInv
<1>2. name' = [name EXCEPT ![x] = n] /\ name \in [Items -> Names]
  BY DEF Get, IInv, Types
<1>3. name' \in [Items -> Names] /\ name'[x] = n /\ \A y \in Items : y # x => name'[y] = name[y]
  BY <1>2
<1> QED BY <1>1, <1>3, Entered DEF Get, MayRegister

LEMMA SetNameInv == ASSUME IInv, NEW x \in Items, NEW n \in Names, SetName(x, n) PROVE IInv'
<1>1. name' = [name EXCEPT ![x] = n] /\ name \in [Items -> Names] /\ id[x] = -1
  BY DEF SetName, IInv, Types
<1>2. name' \in [Items -> Names] /\ \A y \in Items : y # x => name'[y] = name[y]
  BY <1>1
<1>3. NamesUnique'
  BY <1>1, <1>2 DEF SetName, IInv, NamesUnique, Registered
<1> QED BY <1>2, <1>3 DEF SetName, IInv, Types, Bounded, SlotsAgree, EndsWithItem, Passed

LEMMA DeregisterInv == ASSUME IInv, NEW x \in Items, Deregister(x) PROVE IInv'
BY Left DEF Deregister, IInv, Types, Passed

\* A call that removes an item pushes it, or takes it out at once.
LEMMA RemoveItemInv ==
  ASSUME IInv, NEW x \in Items, id[x] # -1, RemoveItem(x),
         maxn' = maxn, noDups' = noDups, hasDtor' = hasDtor, open' = open, name' = name,
         at' \in Int, at' >= -1, at' # -1 => open,
         \A k \in 1 .. Len(stk) : k <= at' /\ stk[k] # x => k <= at
  PROVE  IInv'
<1>0. calls \in Seq(Items) /\ at \in Int /\ stk \in Seq(Items \cup {Null})
  BY DEF IInv, Types
<1>1. \A k \in 1 .. Len(stk) : k <= at' => stk[k] = Null \/ stk[k] = x \/ \E j \in 1 .. Len(calls) : calls[j] = stk[k]
  BY DEF IInv, Passed
<1>2. CASE hasDtor
  <2>1. calls' = <<x>> \o calls /\ UNCHANGED <<stk, id, reg, failed>>
    BY <1>2 DEF RemoveItem
  <2>2. /\ calls' \in Seq(Items) /\ Len(calls') = Len(calls) + 1 /\ calls'[1] = x
        /\ \A j \in 1 .. Len(calls) : j + 1 \in 1 .. Len(calls') /\ calls'[j + 1] = calls[j]
    BY <1>0, <2>1
  <2>3. Passed'
    <3> SUFFICES ASSUME NEW k \in 1 .. Len(stk), k <= at', stk[k] # Null
                 PROVE  \E j \in 1 .. Len(calls') : calls'[j] = stk[k]
      BY <2>1 DEF IInv, Passed
    <3>1. CASE stk[k] = x
      BY <1>0, <2>2, <3>1
    <3>2. CASE stk[k] # x
      <4>1. PICK j \in 1 .. Len(calls) : calls[j] = stk[k]
        BY <1>1, <3>2
      <4> QED BY <2>2, <4>1
    <3> QED BY <3>1, <3>2
  <2> QED BY <2>1, <2>2, <2>3 DEF IInv, Types, Bounded, SlotsAgree, EndsWithItem, NamesUnique, Registered
<1>3. CASE ~hasDtor
  <2>1. Leave(x) /\ calls' = calls
    BY <1>3 DEF RemoveItem
  <2> QED BY <1>0, <1>1, <2>1, Left
<1> QED BY <1>2, <1>3 DEF IInv, Types

LEMMA RemoveIdInv == ASSUME IInv, NEW i \in 0 .. Len(stk) - 1, RemoveId(i) PROVE IInv'
<1>1. PICK x \in ById(i) : RemoveItem(x)
  BY DEF RemoveId
<1>2. x \in Items /\ id[x] # -1
  <2>1. stk \in Seq(Items \cup {Null}) /\ i + 1 \in 1 .. Len(stk) /\ i # -1
    BY DEF IInv, Types
  <2>2. x = stk[i + 1] /\ x # Null
    BY <1>1, <2>1 DEF ById, Index
  <2> QED BY <2>1, <2>2 DEF IInv, SlotsAgree
<1> QED BY <1>1, <1>2, RemoveItemInv DEF RemoveId, IInv, Types, Passed

LEMMA DestructedInv == ASSUME IInv, Destructed PROVE IInv'
<1> DEFINE x == Head(calls)
<1>1. /\ calls # <<>> /\ calls' = Tail(calls)
      /\ maxn' = maxn /\ noDups' = noDups /\ hasDtor' = hasDtor /\ name' = name /\ at' = at /\ open' = open
  BY DEF Destructed
<1>2. calls \in Seq(Items) /\ stk \in Seq(Items \cup {Null}) /\ at \in Int
  BY DEF IInv, Types
<1>3. /\ x \in Items /\ x = calls[1] /\ calls' \in Seq(Items) /\ Len(calls') = Len(calls) - 1 /\ Len(calls) \in Nat
      /\ \A j \in 1 .. Len(calls') : calls'[j] = calls[j + 1]
  BY <1>1, <1>2
<1> HIDE DEF x
<1>4. \A k \in 1 .. Len(stk) : k <= at => stk[k] = Null \/ stk[k] = x \/ \E j \in 1 .. Len(calls') : calls'[j] = stk[k]
  <2> SUFFICES ASSUME NEW k \in 1 .. Len(stk), k <= at, stk[k] # Null, stk[k] # x
               PROVE  \E j \in 1 .. Len(calls') : calls'[j] = stk[k]
    OBVIOUS
  <2>1. PICK j \in 1 .. Len(calls) : calls[j] = stk[k]
    BY DEF IInv, Passed
  <2>2. j # 1
    BY <1>3, <2>1
  <2>3. j - 1 \in 1 .. Len(calls') /\ calls'[j - 1] = calls[j]
    BY <1>3, <2>2
  <2> QED BY <2>1, <2>3
<1>5. CASE id[x] # -1
  <2>1. Leave(x)
    BY <1>5 DEF Destructed, x
  <2> QED BY <1>1, <1>2, <1>3, <1>4, <1>5, <2>1, Left DEF IInv, Types, Passed
<1>6. CASE id[x] = -1
  <2>1. failed' = reg[x] /\ UNCHANGED <<stk, id, reg>>
    BY <1>6 DEF Destructed, x
  <2>2. reg[x] = FALSE
    BY <1>3, <1>6 DEF IInv, SlotsAgree
  <2>3. \A k \in 1 .. Len(stk) : stk[k] # Null => stk[k] # x
    <3>1. \A k \in 1 .. Len(stk) : stk[k] # Null => id[stk[k]] = k - 1
      BY DEF IInv, SlotsAgree
    <3>2. \A k \in 1 .. Len(stk) : k - 1 # -1
      BY <1>2
    <3> QED BY <1>6, <3>1, <3>2
  <2>4. Passed'
    BY <1>1, <1>4, <2>1, <2>3 DEF IInv, Passed
  <2>5. failed' = FALSE
    BY <2>1, <2>2
  <2> QED BY <1>1, <1>3, <2>1, <2>5, <2>4 DEF IInv, Types, Bounded, SlotsAgree, EndsWithItem, NamesUnique, Registered
<1> QED BY <1>5, <1>6

\* The loop of aem_registry_dtor.
LEMMA CloseInv == ASSUME IInv, Close PROVE IInv'
BY DEF Close, IInv, Types, Bounded, SlotsAgree, EndsWithItem, NamesUnique, Registered, Passed

LEMMA CloseNextInv == ASSUME IInv, CloseNext PROVE IInv'
<1>1. /\ at \in 0 .. Len(stk) - 1 /\ at' = at + 1
      /\ maxn' = maxn /\ noDups' = noDups /\ hasDtor' = hasDtor /\ name' = name /\ open' = open
  BY DEF CloseNext, NextAt
<1>2. Len(stk) \in Nat /\ stk \in Seq(Items \cup {Null}) /\ at \in Int /\ at # -1 /\ open
  BY <1>1 DEF IInv, Types, Passed
<1>3. \A k \in 1 .. Len(stk) : k <= at' => k <= at \/ k = at + 1
  BY <1>1, <1>2
<1>4. CASE stk[at + 1] # Null
  <2> DEFINE x == stk[at + 1]
  <2>1. x \in Items /\ id[x] # -1 /\ RemoveItem(x)
    BY <1>1, <1>2, <1>4 DEF CloseNext, IInv, SlotsAgree
  <2>2. \A k \in 1 .. Len(stk) : k <= at' /\ stk[k] # x => k <= at
    BY <1>3
  <2>3. at' \in Int /\ at' >= -1
    BY <1>1, <1>2
  <2> HIDE DEF x
  <2> QED BY <1>1, <1>2, <2>1, <2>2, <2>3, RemoveItemInv
<1>5. CASE stk[at + 1] = Null
  <2>1. UNCHANGED <<stk, id, reg, calls, failed>>
    BY <1>5 DEF CloseNext
  <2>2. Passed'
    BY <1>1, <1>2, <1>3, <1>5, <2>1 DEF IInv, Passed
  <2> QED BY <1>1, <1>2, <2>1, <2>2 DEF IInv, Types, Bounded, SlotsAgree, EndsWithItem, NamesUnique, Registered
<1> QED BY <1>4, <1>5

\* The loop leaves nobody behind.
LEMMA NobodyLeft == ASSUME IInv, Closed PROVE \A x \in Items : id[x] = -1
<1>1. at >= Len(stk) /\ calls = <<>> /\ Len(stk) \in Nat /\ at \in Int
  BY DEF Closed, IInv, Types
<1>2. \A k \in 1 .. Len(stk) : stk[k] = Null
  BY <1>1 DEF IInv, Passed
<1>3. \A x \in Items : id[x] # -1 => id[x] + 1 \in 1 .. Len(stk) /\ stk[id[x] + 1] = x
  BY DEF IInv, SlotsAgree
<1>4. Null \notin Items
  BY RegistryAssumption
<1> QED BY <1>2, <1>3, <1>4

LEMMA ClosedInv == ASSUME IInv, Closed PROVE IInv'
<1>1. \A x \in Items : id[x] = -1
  BY NobodyLeft
<1>2. stk' = <<>> /\ Len(stk') = 0 /\ id' = id
  BY DEF Closed
<1>3. Types'
  <2>1. stk' \in Seq(Items \cup {Null}) /\ maxn' \in Nat /\ at' \in Int /\ at' >= -1
    BY <1>2 DEF Closed
  <2> QED BY <1>2, <2>1 DEF Closed, IInv, Types
<1>4. SlotsAgree'
  BY <1>1, <1>2 DEF Closed, IInv, SlotsAgree
<1> QED BY <1>2, <1>3, <1>4 DEF Closed, IInv, Types, Bounded, EndsWithItem, NamesUnique, Registered, Passed

LEMMA ReopenInv == ASSUME IInv, Reopen PROVE IInv'
<1>1. stk' = stk /\ stk = <<>> /\ Len(stk) = 0 /\ at = -1
  BY DEF Reopen, IInv, Passed
<1> QED BY <1>1 DEF Reopen, IInv, Types, Bounded, SlotsAgree, EndsWithItem, NamesUnique, Registered, Passed

LEMMA NextInv == ASSUME ~LateRegister, IInv, [Next]_regVars PROVE IInv'
<1>1. ASSUME NEW x \in Items, Register(x) PROVE IInv'
  BY <1>1, RegisterInv
<1>2. ASSUME NEW x \in Items, Deregister(x) PROVE IInv'
  BY <1>2, DeregisterInv
<1>3. ASSUME NEW x \in Items, NEW n \in Names, Get(n, x) \/ SetName(x, n) PROVE IInv'
  BY <1>3, GetInv, SetNameInv
<1>4. ASSUME NEW i \in 0 .. Len(stk) - 1, RemoveId(i) PROVE IInv'
  BY <1>4, RemoveIdInv
<1>5. CASE Destructed \/ Close \/ CloseNext \/ Closed \/ Reopen
  BY <1>5, DestructedInv, CloseInv, CloseNextInv, ClosedInv, ReopenInv
<1>6. CASE UNCHANGED regVars
  BY <1>6 DEF regVars, IInv, Types, Bounded, SlotsAgree, EndsWithItem, NamesUnique, Registered, Passed
<1> QED BY <1>1, <1>2, <1>3, <1>4, <1>5, <1>6 DEF Next

\* The strengthened invariant holds of every behaviour in which nobody registers while the
\* registry is destroyed.
THEOREM Invariant == ASSUME ~LateRegister PROVE Spec => []IInv
<1>1. Init => IInv
  BY InitInv
<1>2. IInv /\ [Next]_regVars => IInv'
  BY NextInv
<1> QED BY <1>1, <1>2, PTL DEF Spec

-----------------------------------------------------------------------------
(* The theorems *)

\* The types, and what registry.c and stack.c take for granted, hold in every state.
THEOREM RegistryAlwaysHolds == ASSUME ~LateRegister PROVE Spec => []RegistryHolds
<1>1. IInv => RegistryHolds
  <2> SUFFICES ASSUME IInv PROVE TypeOK
    BY DEF IInv, RegistryHolds
  <2>1. Cardinality(Items) \in Nat
    BY RegistryAssumption, FS_CardinalityType
  <2>2. \A x \in Items : id[x] \in -1 .. Cardinality(Items) - 1
    BY <2>1 DEF IInv, Types, Bounded
  <2>3. id \in [Items -> -1 .. Cardinality(Items) - 1]
    BY <2>2 DEF IInv, Types
  <2> QED BY <2>3 DEF IInv, Types, TypeOK
<1> QED BY <1>1, Invariant, PTL

\* An item that is registered is in the slot of its id, and nobody else is found there.
LEMMA FoundById == ASSUME IInv, NEW x \in Items, id[x] # -1 PROVE ById(id[x]) = {x}
<1>1. id[x] + 1 \in 1 .. Len(stk) /\ stk[id[x] + 1] = x /\ id[x] \in Int /\ Len(stk) \in Nat
  BY DEF IInv, Types, SlotsAgree
<1>2. Index(stk, id[x]) = x
  BY <1>1 DEF Index
<1> QED BY <1>2, RegistryAssumption DEF ById

\* A name that somebody has is found, at the one of them with the least id.
LEMMA FoundByName ==
  ASSUME IInv, NEW x \in Items, id[x] # -1
  PROVE  \E y \in ByName(name[x]) : y \in Items /\ name[y] = name[x] /\ id[y] <= id[x]
<1>1. Named(name[x]) \in SUBSET Nat
  BY DEF IInv, Types, Named
<1>2. id[x] + 1 \in Named(name[x])
  BY RegistryAssumption DEF IInv, Types, SlotsAgree, Named
<1>3. PICK m \in Named(name[x]) : \A k \in Named(name[x]) : m <= k
  BY <1>1, <1>2, LeastOf
<1>4. m \in 1 .. Len(stk) /\ stk[m] # Null /\ name[stk[m]] = name[x] /\ m <= id[x] + 1
  BY <1>2, <1>3 DEF Named
<1>5. stk[m] \in Items /\ id[stk[m]] = m - 1
  BY <1>4 DEF IInv, Types, SlotsAgree
<1>6. stk[m] \in ByName(name[x])
  <2>1. m \in {k \in Named(name[x]) : \A j \in Named(name[x]) : k <= j}
    BY <1>3
  <2> QED BY <2>1, Zenon DEF ByName
<1>7. id[stk[m]] <= id[x]
  BY <1>4, <1>5 DEF IInv, Types
<1> QED BY <1>4, <1>5, <1>6, <1>7

LEMMA Finds == ASSUME IInv PROVE LookupFinds
<1> SUFFICES ASSUME NEW x \in Items, id[x] # -1
    PROVE  /\ ~name[x].hash => \E y \in Lookup(name[x]) : name[y] = name[x] /\ id[y] <= id[x]
           /\ \A n \in Names : n.hash /\ Value[n.text] = id[x] => Lookup(n) = {x}
  BY DEF LookupFinds, Registered
<1>1. ASSUME ~name[x].hash PROVE \E y \in Lookup(name[x]) : name[y] = name[x] /\ id[y] <= id[x]
  <2>1. PICK y \in ByName(name[x]) : name[y] = name[x] /\ id[y] <= id[x]
    BY FoundByName
  <2>2. Lookup(name[x]) = ByName(name[x])
    BY <1>1, <2>1 DEF Lookup
  <2> QED BY <2>1, <2>2
<1>2. ASSUME NEW n \in Names, n.hash, Value[n.text] = id[x] PROVE Lookup(n) = {x}
  BY <1>2, FoundById DEF Lookup
<1> QED BY <1>1, <1>2

\* Whoever is registered is found by its name, or by "#" and its id; and alone, with
\* AEM_REGISTRY_NO_DUPS.
THEOREM NamesAlwaysFind == ASSUME ~LateRegister PROVE Spec => []NamesFind
<1>1. IInv => NamesFind
  BY Finds DEF IInv, NamesFind
<1> QED BY <1>1, Invariant, PTL

-----------------------------------------------------------------------------
(* The refinement *)

\* Every step of Enter registers an item under the least id that is free.
LEMMA AbsEnter ==
  ASSUME IInv, NEW x \in Items, id[x] = -1, Enter(x), open, open' = open
  PROVE  \E i \in 0 .. Cardinality(Items) - 1 : Abs!Register(x, i)
<1>1. PICK i \in 0 .. Len(stk) : IsFirstEmpty(stk, i) /\ id' = [id EXCEPT ![x] = i]
  BY DEF Enter
<1>2. i <= Cardinality(Items) - 1
  BY <1>1, IdsFewerThanItems DEF IInv
<1>3. i \in 0 .. Cardinality(Items) - 1
  BY <1>2, RegistryAssumption, FS_CardinalityType
<1>4. Len(stk) \in Nat /\ i \in Nat /\ i <= Len(stk)
  BY DEF IInv, Types
<1>5. \A y \in Items : id[y] # i
  <2> SUFFICES ASSUME NEW y \in Items, id[y] = i PROVE FALSE
    OBVIOUS
  <2>1. i + 1 \in 1 .. Len(stk) /\ stk[i + 1] = y
    BY <1>4 DEF IInv, SlotsAgree
  <2>2. stk[i + 1] = Null
    BY <1>1, <1>4, <2>1 DEF IsFirstEmpty, Index
  <2> QED BY <2>1, <2>2, RegistryAssumption
<1>6. \A j \in 0 .. i - 1 : \E y \in Items : id[y] = j
  <2> TAKE j \in 0 .. i - 1
  <2>1. j \in 0 .. Len(stk) - 1 /\ j + 1 \in 1 .. Len(stk) /\ j = (j + 1) - 1
    BY <1>4
  <2>2. stk[j + 1] # Null
    BY <1>1, <2>1 DEF IsFirstEmpty, Index
  <2>3. stk[j + 1] \in Items /\ id[stk[j + 1]] = j
    BY <2>1, <2>2 DEF IInv, Types, SlotsAgree
  <2> QED BY <2>3
<1>7. Abs!Register(x, i)
  BY <1>1, <1>5, <1>6 DEF Abs!Register, Abs!Holders
<1> QED BY <1>3, <1>7

LEMMA AbsLeave ==
  ASSUME NEW x \in Items, id[x] # -1, Leave(x), open' = open
  PROVE  Abs!Deregister(x)
BY DEF Leave, Cleared, Abs!Deregister

LEMMA AbsRemoveItem ==
  ASSUME NEW x \in Items, id[x] # -1, RemoveItem(x), open' = open
  PROVE  [Abs!Next]_<<id, open>>
<1>1. CASE hasDtor
  BY <1>1 DEF RemoveItem
<1>2. CASE ~hasDtor
  <2>1. Abs!Deregister(x)
    BY <1>2, AbsLeave DEF RemoveItem
  <2> QED BY <2>1 DEF Abs!Next
<1> QED BY <1>1, <1>2

LEMMA AbsStep == ASSUME ~LateRegister, IInv, [Next]_regVars PROVE [Abs!Next]_<<id, open>>
<1>1. ASSUME NEW x \in Items, NEW n \in Names, Register(x) \/ Get(n, x) PROVE [Abs!Next]_<<id, open>>
  <2>1. id[x] = -1 /\ Enter(x) /\ open /\ open' = open
    BY <1>1 DEF Register, Get, MayRegister
  <2>2. PICK i \in 0 .. Cardinality(Items) - 1 : Abs!Register(x, i)
    BY <2>1, AbsEnter
  <2>3. Abs!Cardinality(Items) = Cardinality(Items)
    BY Zenon DEF Cardinality, Abs!Cardinality
  <2> QED BY <2>2, <2>3 DEF Abs!Next
<1>2. ASSUME NEW x \in Items, Deregister(x) PROVE [Abs!Next]_<<id, open>>
  <2>1. Abs!Deregister(x)
    BY <1>2, AbsLeave DEF Deregister
  <2> QED BY <2>1 DEF Abs!Next
<1>3. ASSUME NEW x \in Items, NEW n \in Names, SetName(x, n) PROVE [Abs!Next]_<<id, open>>
  BY <1>3 DEF SetName
<1>4. ASSUME NEW i \in 0 .. Len(stk) - 1, RemoveId(i) PROVE [Abs!Next]_<<id, open>>
  <2>1. PICK x \in ById(i) : RemoveItem(x) /\ open' = open
    BY <1>4 DEF RemoveId
  <2>2. i + 1 \in 1 .. Len(stk) /\ i # -1 /\ i = (i + 1) - 1 /\ stk \in Seq(Items \cup {Null})
    BY DEF IInv, Types
  <2>3. x = stk[i + 1] /\ x # Null
    BY <2>1, <2>2 DEF ById, Index
  <2>4. x \in Items /\ id[x] # -1
    BY <2>2, <2>3 DEF IInv, SlotsAgree
  <2> QED BY <2>1, <2>4, AbsRemoveItem
<1>5. CASE Destructed
  <2>1. calls # <<>> /\ calls \in Seq(Items) /\ open' = open
    BY <1>5 DEF Destructed, IInv, Types
  <2>2. Head(calls) \in Items
    BY <2>1
  <2>3. CASE id[Head(calls)] # -1
    <3>1. Abs!Deregister(Head(calls))
      BY <1>5, <2>1, <2>2, <2>3, AbsLeave DEF Destructed
    <3> QED BY <2>2, <3>1 DEF Abs!Next
  <2>4. CASE id[Head(calls)] = -1
    BY <1>5, <2>4 DEF Destructed
  <2> QED BY <2>3, <2>4
<1>6. CASE Close
  BY <1>6 DEF Close
<1>7. CASE CloseNext
  <2>1. at \in 0 .. Len(stk) - 1 /\ open' = open /\ stk \in Seq(Items \cup {Null}) /\ at \in Int
    BY <1>7 DEF CloseNext, IInv, Types
  <2>2. CASE stk[at + 1] # Null
    <3>1. at + 1 \in 1 .. Len(stk) /\ at = (at + 1) - 1 /\ at # -1
      BY <2>1
    <3>2. stk[at + 1] \in Items /\ id[stk[at + 1]] # -1
      BY <2>1, <2>2, <3>1 DEF IInv, SlotsAgree
    <3>3. RemoveItem(stk[at + 1])
      BY <1>7, <2>2 DEF CloseNext
    <3> QED BY <2>1, <3>2, <3>3, AbsRemoveItem
  <2>3. CASE stk[at + 1] = Null
    BY <1>7, <2>3 DEF CloseNext
  <2> QED BY <2>2, <2>3
<1>8. CASE Closed
  <2>1. open /\ open' = FALSE /\ id' = id
    <3>1. at # -1
      BY <1>8 DEF Closed, IInv, Types
    <3> QED BY <1>8, <3>1 DEF Closed, IInv, Passed
  <2>2. Abs!Destroy
    BY <1>8, <2>1, NobodyLeft DEF Abs!Destroy
  <2> QED BY <2>2 DEF Abs!Next
<1>9. CASE Reopen
  <2>1. Abs!Create
    BY <1>9 DEF Reopen, Abs!Create
  <2> QED BY <2>1 DEF Abs!Next
<1>10. CASE UNCHANGED regVars
  BY <1>10 DEF regVars
<1>11. ASSUME NEW x \in Items, Register(x) PROVE [Abs!Next]_<<id, open>>
  <2>1. name[x] \in Names
    BY DEF IInv, Types
  <2> QED BY <1>1, <1>11, <2>1
<1> QED BY <1>1, <1>2, <1>3, <1>4, <1>5, <1>6, <1>7, <1>8, <1>9, <1>10, <1>11 DEF Next

\* The slots of a stack, with items that register, leave and are removed by callbacks within
\* callbacks, implement a map from items to the least free ids, which is destroyed empty.
THEOREM ImplementsMap == ASSUME ~LateRegister PROVE Spec => AbsSpec
<1>1. Init => Abs!Init
  BY DEF Init, Abs!Init
<1>2. IInv /\ [Next]_regVars => [Abs!Next]_(Abs!vars)
  BY AbsStep DEF Abs!vars
<1> QED BY <1>1, <1>2, Invariant, PTL DEF Spec, AbsSpec, Abs!Spec

-----------------------------------------------------------------------------
(* The stack under the registry: AemStack *)

\* A stack with its array, and a sequence that it stands for, cell by cell.
Written == Cells \cup {Junk}
StackRecords == [s : Seq(Written), n : Nat]

Holds(k, w) ==
    /\ k \in StackRecords /\ w \in Seq(Cells)
    /\ k.n <= Len(k.s) /\ Len(w) = k.n
    /\ \A i \in 1 .. k.n : k.s[i] = w[i]

StackInv ==
    /\ st \in [Stacks -> StackRecords] /\ want \in [Stacks -> Seq(Cells)]
    /\ \A k \in Stacks : Holds(st[k], want[k])

LEMMA HoldsTypes ==
    ASSUME NEW k, NEW w, Holds(k, w)
    PROVE  /\ k \in StackRecords /\ k.s \in Seq(Written) /\ k.n \in Nat /\ w \in Seq(Cells)
           /\ Len(k.s) \in Nat /\ k.n <= Len(k.s) /\ Len(w) = k.n
           /\ \A i \in 1 .. k.n : k.s[i] = w[i]
BY DEF Holds, StackRecords

\* The same, of an array given alone.
LEMMA HoldsIf ==
    ASSUME NEW h, NEW v \in Seq(Cells), NEW t \in Seq(Written), NEW n \in Nat,
           h = [s |-> t, n |-> n], n <= Len(t), Len(v) = n, \A i \in 1 .. n : t[i] = v[i]
    PROVE  Holds(h, v)
<1>1. h.s = t /\ h.n = n /\ h \in StackRecords
  BY DEF StackRecords
<1> QED BY <1>1 DEF Holds

\* An array made of m cells.
LEMMA ArrayOf ==
    ASSUME NEW m \in Nat, NEW t \in [1 .. m -> Written]
    PROVE  t \in Seq(Written) /\ Len(t) = m
OBVIOUS

\* What is shown of a stack is what it stands for.
LEMMA ShownCells ==
    ASSUME NEW k, NEW w, Holds(k, w)
    PROVE  Shown(k) = w
<1>1. k.s \in Seq(Written) /\ k.n \in Nat /\ w \in Seq(Cells) /\ k.n <= Len(k.s) /\ Len(w) = k.n
  BY DEF Holds, StackRecords
<1>2. PICK s : s = k.s
  OBVIOUS
<1>3. PICK u : u = SubSeq(s, 1, k.n)
  OBVIOUS
<1>4. u \in Seq(Written) /\ Len(u) = k.n /\ \A i \in 1 .. k.n : u[i] = s[i]
  BY <1>1, <1>2, <1>3
<1>5. u \in Seq(Written) /\ w \in Seq(Written)
  BY <1>1, <1>4 DEF Written
<1>6. \A i \in 1 .. Len(u) : u[i] = w[i]
  BY <1>2, <1>4 DEF Holds
<1>7. u = w
  BY <1>1, <1>4, <1>5, <1>6, SeqEqual
<1> QED BY <1>2, <1>3, <1>7 DEF Shown

\* The array that Resized makes: what fits of the old one, and junk.
LEMMA Resizing ==
    ASSUME NEW k \in StackRecords, NEW size \in Nat
    PROVE  /\ Resized(k, size) \in StackRecords /\ Resized(k, size).n = k.n
           /\ Len(Resized(k, size).s) = size
           /\ \A i \in 1 .. size : i <= Len(k.s) => Resized(k, size).s[i] = k.s[i]
<1>1. k.s \in Seq(Written) /\ k.n \in Nat
  BY DEF StackRecords
<1>2. PICK t : t = [i \in 1 .. size |-> IF i <= Len(k.s) THEN k.s[i] ELSE Junk]
  OBVIOUS
<1>3. t \in Seq(Written) /\ Len(t) = size /\ \A i \in 1 .. size : i <= Len(k.s) => t[i] = k.s[i]
  <2>1. \A i \in 1 .. size : t[i] \in Written
    BY <1>1, <1>2 DEF Written
  <2>2. t \in [1 .. size -> Written]
    BY <1>2, <2>1
  <2>3. t \in Seq(Written) /\ Len(t) = size
    BY <2>2, ArrayOf
  <2> QED BY <1>2, <2>3
<1>4. Resized(k, size) \in StackRecords /\ Resized(k, size).n = k.n /\ Resized(k, size).s = t
  BY <1>1, <1>2, <1>3 DEF Resized, StackRecords
<1> QED BY <1>3, <1>4

\* aem_stack_reserve moves what is there, and there is room after it.
LEMMA ReservingStack ==
    ASSUME NEW k, NEW w, Holds(k, w), NEW len \in Nat
    PROVE  /\ Holds(Reserved(k, len), w) /\ Reserved(k, len).n = k.n
           /\ k.n + len <= Len(Reserved(k, len).s)
<1>1. k \in StackRecords /\ k.s \in Seq(Written) /\ k.n \in Nat /\ Len(k.s) \in Nat /\ k.n <= Len(k.s)
  BY DEF Holds, StackRecords
<1>2. PICK size : size = Grown(Len(k.s), k.n + len)
  OBVIOUS
<1>3. size \in Nat /\ k.n + len <= size /\ k.n <= size
  BY <1>1, <1>2, SlackAssumption DEF Grown
<1>4. PICK g : g = Resized(k, size)
  OBVIOUS
<1>5. /\ g \in StackRecords /\ g.n = k.n /\ Len(g.s) = size
      /\ \A i \in 1 .. size : i <= Len(k.s) => g.s[i] = k.s[i]
  BY <1>1, <1>3, <1>4, Resizing, Zenon
<1>a. \A i \in 1 .. k.n : g.s[i] = w[i]
  BY <1>1, <1>3, <1>5, HoldsTypes
<1>6. Holds(g, w)
  BY <1>1, <1>3, <1>5, <1>a DEF Holds
<1> QED BY <1>2, <1>3, <1>4, <1>5, <1>6 DEF Reserved

LEMMA Pushing ==
    ASSUME NEW k, NEW w, Holds(k, w), NEW x \in Cells
    PROVE  Holds(Pushed(k, x), Append(w, x))
<1>1. PICK g : g = Reserved(k, 1)
  OBVIOUS
<1>2. Holds(g, w) /\ g.n = k.n /\ k.n + 1 <= Len(g.s)
  BY <1>1, ReservingStack
<1>3. /\ g.s \in Seq(Written) /\ Len(g.s) \in Nat /\ k.n \in Nat /\ w \in Seq(Cells) /\ Len(w) = k.n
      /\ \A i \in 1 .. k.n : g.s[i] = w[i]
  BY <1>2, HoldsTypes
<1>4. PICK t : t = [g.s EXCEPT ![k.n + 1] = x]
  OBVIOUS
<1>5. t \in Seq(Written) /\ Len(t) = Len(g.s) /\ t[k.n + 1] = x /\ \A i \in 1 .. k.n : t[i] = g.s[i]
  BY <1>2, <1>3, <1>4 DEF Written
<1>6. PICK h : h = Pushed(k, x)
  OBVIOUS
<1>7. h = [s |-> t, n |-> k.n + 1]
  <2>1. g \in [s : Seq(Written), n : Nat]
    BY <1>2, HoldsTypes DEF StackRecords
  <2> QED BY <1>1, <1>4, <1>6, <2>1 DEF Pushed
<1>8. PICK v : v = Append(w, x)
  OBVIOUS
<1>9. v \in Seq(Cells) /\ Len(v) = k.n + 1 /\ v[k.n + 1] = x /\ \A i \in 1 .. k.n : v[i] = w[i]
  BY <1>3, <1>8
<1>10. \A i \in 1 .. k.n + 1 : t[i] = v[i]
  <2> TAKE i \in 1 .. k.n + 1
  <2>1. CASE i = k.n + 1
    BY <1>5, <1>9, <2>1
  <2>2. CASE i # k.n + 1
    <3>1. i \in 1 .. k.n
      BY <1>3, <2>2
    <3> QED BY <1>3, <1>5, <1>9, <3>1
  <2> QED BY <2>1, <2>2
<1>11. Holds(h, v)
  BY <1>2, <1>3, <1>5, <1>7, <1>9, <1>10, HoldsIf
<1> QED BY <1>6, <1>8, <1>11

\* The cells of a concatenation.
LEMMA CellsJoined ==
    ASSUME NEW w \in Seq(Cells), NEW xs \in Seq(Cells)
    PROVE  /\ w \o xs \in Seq(Cells) /\ Len(w \o xs) = Len(w) + Len(xs)
           /\ \A i \in 1 .. Len(w) : (w \o xs)[i] = w[i]
           /\ \A i \in 1 .. Len(w) + Len(xs) : i > Len(w) => (w \o xs)[i] = xs[i - Len(w)]
OBVIOUS

LEMMA AppendJoined ==
    ASSUME NEW w \in Seq(Cells), NEW xs \in Seq(Cells), NEW x \in Cells
    PROVE  Append(w \o xs, x) = w \o Append(xs, x)
OBVIOUS

LEMMA PushingAll ==
    ASSUME NEW k, NEW w, Holds(k, w), NEW xs \in Seq(Cells)
    PROVE  Holds(PushedAll(k, xs), w \o xs)
<1>1. PICK g : g = Reserved(k, Len(xs))
  OBVIOUS
<1>0. Len(xs) \in Nat
  OBVIOUS
<1>2. Holds(g, w) /\ g.n = k.n /\ k.n + Len(xs) <= Len(g.s)
  BY <1>0, <1>1, ReservingStack
<1>3. /\ g.s \in Seq(Written) /\ Len(g.s) \in Nat /\ k.n \in Nat /\ w \in Seq(Cells) /\ Len(w) = k.n
      /\ \A i \in 1 .. k.n : g.s[i] = w[i]
  BY <1>2, HoldsTypes
<1>4. PICK t : t = [i \in 1 .. Len(g.s) |-> IF i - k.n \in 1 .. Len(xs) THEN xs[i - k.n] ELSE g.s[i]]
  OBVIOUS
<1>5. t \in Seq(Written) /\ Len(t) = Len(g.s)
  <2>1. \A i \in 1 .. Len(g.s) : t[i] \in Written
    BY <1>3, <1>4 DEF Written
  <2>2. t \in [1 .. Len(g.s) -> Written]
    BY <1>4, <2>1
  <2> QED BY <1>3, <2>2, ArrayOf
<1>6. \A i \in 1 .. k.n : t[i] = w[i]
  BY <1>0, <1>2, <1>3, <1>4
<1>7. \A i \in 1 .. k.n + Len(xs) : i > k.n => i - k.n \in 1 .. Len(xs) /\ t[i] = xs[i - k.n]
  BY <1>0, <1>2, <1>3, <1>4
<1>8. PICK v : v = w \o xs
  OBVIOUS
<1>9. /\ v \in Seq(Cells) /\ Len(v) = Len(w) + Len(xs) /\ \A i \in 1 .. Len(w) : v[i] = w[i]
      /\ \A i \in 1 .. Len(w) + Len(xs) : i > Len(w) => v[i] = xs[i - Len(w)]
  BY <1>3, <1>8, CellsJoined, Zenon
<1>11. PICK h : h = PushedAll(k, xs)
  OBVIOUS
<1>12. h = [s |-> t, n |-> k.n + Len(xs)]
  BY <1>1, <1>4, <1>11 DEF PushedAll
<1>14. \A i \in 1 .. k.n + Len(xs) : t[i] = v[i]
  <2> TAKE i \in 1 .. k.n + Len(xs)
  <2>1. CASE i > k.n
    BY <1>3, <1>7, <1>9, <2>1
  <2>2. CASE ~(i > k.n)
    <3>1. i \in 1 .. k.n /\ i \in 1 .. Len(w)
      BY <1>0, <1>3, <2>2
    <3> QED BY <1>6, <1>9, <3>1
  <2> QED BY <2>1, <2>2
<1>13. k.n + Len(xs) \in Nat /\ k.n + Len(xs) <= Len(t) /\ Len(v) = k.n + Len(xs)
  BY <1>0, <1>2, <1>3, <1>5, <1>9
<1>15. Holds(h, v)
  BY <1>5, <1>9, <1>12, <1>13, <1>14, HoldsIf
<1> QED BY <1>8, <1>11, <1>15

\* What the loop of PushedInTurn makes of a stack exists, turn by turn.
IsTurns(f, k, xs, n) == f = [j \in 0 .. n |-> IF j = 0 THEN k ELSE Pushed(f[j - 1], xs[j])]

LEMMA TurnsExist ==
    ASSUME NEW k, NEW xs \in Seq(Cells)
    PROVE  \A n \in Nat : \E f : IsTurns(f, k, xs, n)
<1> DEFINE S == {n \in Nat : ~ \E f : IsTurns(f, k, xs, n)}
<1>1. SUFFICES ASSUME S # {} PROVE FALSE
  OBVIOUS
<1>2. PICK n \in S : \A m \in S : n <= m
  <2> HIDE DEF S
  <2>1. S \in SUBSET Nat
    BY DEF S
  <2> QED BY <1>1, <2>1, LeastOf
<1>3. CASE n = 0
  <2>1. PICK f : f = [j \in 0 .. 0 |-> k]
    OBVIOUS
  <2>2. f = [j \in 0 .. 0 |-> IF j = 0 THEN k ELSE Pushed(f[j - 1], xs[j])]
    BY <2>1
  <2> QED BY <1>2, <1>3, <2>2 DEF IsTurns
<1>4. CASE n # 0
  <2>1. n \in Nat /\ n - 1 \in Nat /\ ~ (n <= n - 1)
    BY <1>2, <1>4
  <2>2. PICK g : IsTurns(g, k, xs, n - 1)
    BY <1>2, <2>1
  <2>3. PICK f : f = [j \in 0 .. n |-> IF j = n THEN Pushed(g[n - 1], xs[n]) ELSE g[j]]
    OBVIOUS
  <2>4. \A j \in 0 .. n : f[j] = IF j = 0 THEN k ELSE Pushed(f[j - 1], xs[j])
    <3> TAKE j \in 0 .. n
    <3>1. CASE j = n
      <4>1. f[j] = Pushed(g[n - 1], xs[n]) /\ f[j - 1] = g[n - 1]
        BY <2>1, <2>3, <3>1
      <4> QED BY <1>4, <3>1, <4>1
    <3>2. CASE j # n
      <4>1. j \in 0 .. n - 1 /\ f[j] = g[j]
        BY <2>1, <2>3, <3>2
      <4>2. g[j] = IF j = 0 THEN k ELSE Pushed(g[j - 1], xs[j])
        BY <2>2, <4>1 DEF IsTurns
      <4>3. j # 0 => j - 1 \in 0 .. n /\ j - 1 # n
        BY <2>1, <4>1
      <4>4. j # 0 => f[j - 1] = g[j - 1]
        BY <2>3, <4>3
      <4> QED BY <4>1, <4>2, <4>4
    <3> QED BY <3>1, <3>2
  <2>5. f = [j \in 0 .. n |-> IF j = 0 THEN k ELSE Pushed(f[j - 1], xs[j])]
    BY <2>3, <2>4
  <2> QED BY <1>2, <2>5 DEF IsTurns
<1> QED BY <1>3, <1>4

\* Pushing one after the other is pushing all.
LEMMA PushingInTurn ==
    ASSUME NEW k, NEW w, Holds(k, w), NEW xs \in Seq(Cells)
    PROVE  Holds(PushedInTurn(k, xs), w \o xs)
<1> DEFINE after[j \in 0 .. Len(xs)] == IF j = 0 THEN k ELSE Pushed(after[j - 1], xs[j])
<1>0. Len(xs) \in Nat
  OBVIOUS
<1>1. after = [j \in 0 .. Len(xs) |-> IF j = 0 THEN k ELSE Pushed(after[j - 1], xs[j])]
  <2>1. \E f : f = [j \in 0 .. Len(xs) |-> IF j = 0 THEN k ELSE Pushed(f[j - 1], xs[j])]
    <3>1. PICK f : IsTurns(f, k, xs, Len(xs))
      BY <1>0, TurnsExist
    <3> QED BY <3>1, Zenon DEF IsTurns
  <2> QED BY <2>1, Zenon
<1>2. PushedInTurn(k, xs) = after[Len(xs)]
  BY Zenon DEF PushedInTurn
<1> HIDE DEF after
<1>3. PICK f : f = after
  OBVIOUS
<1>4. /\ f[0] = k
      /\ \A j \in 1 .. Len(xs) : f[j] = Pushed(f[j - 1], xs[j])
  BY <1>0, <1>1, <1>3
<1> DEFINE S == {n \in 0 .. Len(xs) : ~ Holds(f[n], w \o SubSeq(xs, 1, n))}
<1>5. ASSUME S # {} PROVE FALSE
  <2>1. PICK n \in S : \A m \in S : n <= m
    <3>1. S \in SUBSET Nat
      OBVIOUS
    <3> QED BY <1>5, <3>1, LeastOf
  <2>2. CASE n = 0
    <3>1. SubSeq(xs, 1, 0) = <<>> /\ w \o <<>> = w
      BY HoldsTypes
    <3> QED BY <1>4, <2>1, <2>2, <3>1
  <2>3. CASE n # 0
    <3>1. n \in 1 .. Len(xs) /\ n - 1 \in 0 .. Len(xs) /\ ~ (n <= n - 1)
      BY <2>1, <2>3
    <3>2. Holds(f[n - 1], w \o SubSeq(xs, 1, n - 1))
      BY <2>1, <3>1
    <3>3. xs[n] \in Cells
      BY <3>1
    <3>4. Holds(f[n], Append(w \o SubSeq(xs, 1, n - 1), xs[n]))
      BY <1>4, <3>1, <3>2, <3>3, Pushing
    <3>5. Append(w \o SubSeq(xs, 1, n - 1), xs[n]) = w \o SubSeq(xs, 1, n)
      <4>1. w \in Seq(Cells)
        BY HoldsTypes
      <4>2. PICK a : a = SubSeq(xs, 1, n - 1)
        OBVIOUS
      <4>3. PICK b : b = SubSeq(xs, 1, n)
        OBVIOUS
      <4>4. a \in Seq(Cells) /\ b \in Seq(Cells) /\ b = Append(a, xs[n])
        <5>1. a \in Seq(Cells) /\ Len(a) = n - 1 /\ \A i \in 1 .. n - 1 : a[i] = xs[i]
          BY <3>1, <4>2
        <5>2. b \in Seq(Cells) /\ Len(b) = n /\ \A i \in 1 .. n : b[i] = xs[i]
          BY <3>1, <4>3
        <5>3. PICK c : c = Append(a, xs[n])
          OBVIOUS
        <5>4. c \in Seq(Cells) /\ Len(c) = n /\ c[n] = xs[n] /\ \A i \in 1 .. n - 1 : c[i] = xs[i]
          BY <3>1, <3>3, <5>1, <5>3
        <5>5. \A i \in 1 .. Len(b) : b[i] = c[i]
          BY <3>1, <5>2, <5>4
        <5>6. b = c
          BY <5>2, <5>4, <5>5, SeqEqual
        <5> QED BY <5>1, <5>2, <5>3, <5>6
      <4>5. Append(w \o a, xs[n]) = w \o Append(a, xs[n])
        BY <3>3, <4>1, <4>4, AppendJoined
      <4> QED BY <4>2, <4>3, <4>4, <4>5
    <3> QED BY <2>1, <3>4, <3>5
  <2> QED BY <2>2, <2>3
<1>6. Holds(f[Len(xs)], w \o SubSeq(xs, 1, Len(xs)))
  BY <1>0, <1>5
<1>7. SubSeq(xs, 1, Len(xs)) = xs
  OBVIOUS
<1> QED BY <1>2, <1>3, <1>6, <1>7

\* A stack whose array holds other cells, and the sequence those cells say.
LEMMA HoldsCells ==
    ASSUME NEW t \in Seq(Written), NEW n \in Nat, NEW v \in Seq(Cells), n <= Len(t), Len(v) = n,
           \A i \in 1 .. n : t[i] = v[i]
    PROVE  Holds([s |-> t, n |-> n], v)
<1>1. PICK h : h = [s |-> t, n |-> n]
  OBVIOUS
<1>2. Holds(h, v)
  BY <1>1, HoldsIf
<1> QED BY <1>1, <1>2

\* A stack without elements.
LEMMA HoldsNothing == Holds([s |-> <<>>, n |-> 0], <<>>)
<1>1. PICK e : e = <<>>
  OBVIOUS
<1>2. e \in Seq(Written) /\ e \in Seq(Cells) /\ Len(e) = 0
  BY <1>1
<1>3. PICK n : n = 0
  OBVIOUS
<1>4. n \in Nat /\ n <= Len(e) /\ Len(e) = n /\ \A i \in 1 .. n : e[i] = e[i]
  BY <1>2, <1>3
<1>5. Holds([s |-> e, n |-> n], e)
  BY <1>2, <1>4, HoldsCells
<1> QED BY <1>1, <1>3, <1>5

\* A sequence of so many cells.
LEMMA CellsOf ==
    ASSUME NEW m \in Nat, NEW v \in [1 .. m -> Cells]
    PROVE  v \in Seq(Cells) /\ Len(v) = m
OBVIOUS

\* What callers take an assignment for, where NULLs fill the gap to the cell.
Extended(w, i, x) ==
    [j \in 1 .. (IF i < Len(w) THEN Len(w) ELSE i + 1) |-> IF j = i + 1 THEN x ELSE Index(w, j - 1)]

\* aem_stack_assign, of a cell in use or behind the last.
LEMMA Storing ==
    ASSUME NEW k, NEW w, Holds(k, w), NEW i \in Nat, NEW x \in Cells
    PROVE  Holds(Stored(k, i, x), Extended(w, i, x))
<1> DEFINE to == IF i < k.n THEN k ELSE PushedInTurn(k, [j \in 1 .. i + 1 - k.n |-> Null])
<1> DEFINE m == IF i < Len(w) THEN Len(w) ELSE i + 1
<1>1. k.n \in Nat /\ w \in Seq(Cells) /\ Len(w) = k.n
  BY HoldsTypes
<1>2. PICK v : v \in Seq(Cells) /\ Len(v) = m /\ Holds(to, v) /\ \A j \in 1 .. m : v[j] = Index(w, j - 1)
  <2>1. CASE i < k.n
    <3>1. Len(w) = m /\ Holds(to, w)
      BY <1>1, <2>1
    <3>2. \A j \in 1 .. m : w[j] = Index(w, j - 1)
      BY <1>1, <3>1 DEF Index
    <3> QED BY <1>1, <3>1, <3>2
  <2>2. CASE ~ (i < k.n)
    <3>1. PICK xs : xs = [j \in 1 .. i + 1 - k.n |-> Null]
      OBVIOUS
    <3>2. xs \in Seq(Cells) /\ Len(xs) = i + 1 - k.n /\ \A j \in 1 .. i + 1 - k.n : xs[j] = Null
      <4>1. i + 1 - k.n \in Nat /\ xs \in [1 .. i + 1 - k.n -> Cells]
        BY <1>1, <2>2, <3>1 DEF Cells
      <4> QED BY <3>1, <4>1, CellsOf
    <3>3. PICK v : v = w \o xs
      OBVIOUS
    <3>4. Holds(to, v)
      <4>1. to = PushedInTurn(k, xs)
        BY <2>2, <3>1
      <4>2. Holds(PushedInTurn(k, xs), w \o xs)
        BY <3>2, PushingInTurn
      <4> QED BY <3>3, <4>1, <4>2, Zenon
    <3>5. m = i + 1 /\ m = Len(w) + Len(xs)
      BY <1>1, <2>2, <3>2
    <3>6. /\ v \in Seq(Cells) /\ Len(v) = Len(w) + Len(xs) /\ \A j \in 1 .. Len(w) : v[j] = w[j]
          /\ \A j \in 1 .. Len(w) + Len(xs) : j > Len(w) => v[j] = xs[j - Len(w)]
      BY <1>1, <3>2, <3>3, CellsJoined, Zenon
    <3>7. ASSUME NEW j \in 1 .. m PROVE v[j] = Index(w, j - 1)
      <4>1. CASE j > Len(w)
        <5>1. j - Len(w) \in 1 .. i + 1 - k.n
          BY <1>1, <2>2, <3>5, <4>1
        <5>2. v[j] = xs[j - Len(w)] /\ j - Len(w) = j - k.n
          BY <1>1, <3>5, <3>6, <4>1
        <5>3. v[j] = Null
          BY <3>2, <5>1, <5>2
        <5>4. ~ (j - 1 \in 0 .. Len(w) - 1)
          BY <1>1, <4>1
        <5> QED BY <5>3, <5>4 DEF Index
      <4>2. CASE ~ (j > Len(w))
        <5>1. j \in 1 .. Len(w) /\ j - 1 \in 0 .. Len(w) - 1 /\ (j - 1) + 1 = j
          BY <1>1, <3>5, <4>2
        <5>2. v[j] = w[j]
          BY <3>6, <5>1
        <5> QED BY <5>1, <5>2 DEF Index
      <4> QED BY <4>1, <4>2
    <3> HIDE DEF m, to
    <3> QED BY <3>4, <3>5, <3>6, <3>7
  <2> QED BY <2>1, <2>2
<1>3. m \in Nat /\ i + 1 \in 1 .. m
  BY <1>1
<1>4. PICK g : g = to
  OBVIOUS
<1>5. Stored(k, i, x) = [g EXCEPT !.s[i + 1] = x]
  BY <1>4, Zenon DEF Stored
<1> HIDE DEF m, to
<1>6. /\ g \in StackRecords /\ g.s \in Seq(Written) /\ g.n = m /\ m <= Len(g.s)
      /\ Len(g.s) \in Nat /\ \A j \in 1 .. m : g.s[j] = v[j]
  BY <1>2, <1>4, HoldsTypes
<1>7. PICK t : t = [g.s EXCEPT ![i + 1] = x]
  OBVIOUS
<1>8. [g EXCEPT !.s[i + 1] = x] = [s |-> t, n |-> m]
  <2>1. g \in [s : Seq(Written), n : Nat] /\ g.n = m
    BY <1>6 DEF StackRecords
  <2>2. [g EXCEPT !.s = t] = [s |-> t, n |-> m]
    BY <2>1
  <2> QED BY <1>7, <2>2, Zenon
<1>9. t \in Seq(Written) /\ Len(t) = Len(g.s) /\ t[i + 1] = x /\ \A j \in 1 .. m : j # i + 1 => t[j] = g.s[j]
  BY <1>3, <1>6, <1>7 DEF Written
<1>10. PICK u : u = [j \in 1 .. m |-> IF j = i + 1 THEN x ELSE Index(w, j - 1)]
  OBVIOUS
<1>11. /\ u \in Seq(Cells) /\ Len(u) = m /\ u[i + 1] = x
       /\ \A j \in 1 .. m : j # i + 1 => u[j] = v[j]
  <2>1. u[i + 1] = x /\ \A j \in 1 .. m : j # i + 1 => u[j] = v[j]
    BY <1>2, <1>3, <1>10
  <2>2. \A j \in 1 .. m : u[j] \in Cells
    BY <1>2, <2>1
  <2>3. u \in [1 .. m -> Cells]
    BY <1>10, <2>2
  <2> QED BY <1>3, <2>1, <2>3, CellsOf
<1>12. \A j \in 1 .. m : t[j] = u[j]
  BY <1>3, <1>6, <1>9, <1>11
<1>13. Holds([s |-> t, n |-> m], u)
  BY <1>3, <1>6, <1>9, <1>11, <1>12, HoldsCells
<1> QED BY <1>5, <1>8, <1>10, <1>13 DEF m, Extended

\* An element put into the middle of a sequence, cell by cell.
IsInserted(v, w, i, x) ==
    /\ v \in Seq(Cells) /\ Len(v) = Len(w) + 1
    /\ \A j \in 1 .. Len(w) + 1 : v[j] = IF j = i + 1 THEN x ELSE IF j > i + 1 THEN w[j - 1] ELSE w[j]

LEMMA CellsInserted ==
    ASSUME NEW w \in Seq(Cells), NEW i \in 0 .. Len(w), NEW x \in Cells
    PROVE  IsInserted(InsertAt(w, i + 1, x), w, i, x)
<1>1. PICK a : a = SubSeq(w, 1, i)
  OBVIOUS
<1>2. a \in Seq(Cells) /\ Len(a) = i /\ \A j \in 1 .. i : a[j] = w[j]
  BY <1>1
<1>3. PICK b : b = SubSeq(w, i + 1, Len(w))
  OBVIOUS
<1>4. b \in Seq(Cells) /\ Len(b) = Len(w) - i /\ \A j \in 1 .. Len(w) - i : b[j] = w[i + j]
  BY <1>3
<1>5. PICK c : c = a \o <<x>>
  OBVIOUS
<1>6. c \in Seq(Cells) /\ Len(c) = i + 1 /\ c[i + 1] = x /\ \A j \in 1 .. i : c[j] = w[j]
  <2>1. c = Append(a, x)
    BY <1>2, <1>5
  <2> QED BY <1>2, <2>1
<1>7. PICK v : v = c \o b
  OBVIOUS
<1>8. /\ v \in Seq(Cells) /\ Len(v) = Len(c) + Len(b) /\ \A j \in 1 .. Len(c) : v[j] = c[j]
      /\ \A j \in 1 .. Len(c) + Len(b) : j > Len(c) => v[j] = b[j - Len(c)]
  BY <1>4, <1>6, <1>7, CellsJoined, Zenon
<1>9. InsertAt(w, i + 1, x) = v
  <2>1. (i + 1) - 1 = i
    OBVIOUS
  <2> QED BY <1>1, <1>3, <1>5, <1>7, <2>1 DEF InsertAt
<1>10. Len(v) = Len(w) + 1
  BY <1>4, <1>6, <1>8
<1>11. ASSUME NEW j \in 1 .. Len(w) + 1
       PROVE  v[j] = IF j = i + 1 THEN x ELSE IF j > i + 1 THEN w[j - 1] ELSE w[j]
  <2>1. CASE j > i + 1
    <3>1. j - (i + 1) \in 1 .. Len(w) - i /\ i + (j - (i + 1)) = j - 1
      BY <2>1
    <3>2. v[j] = b[j - (i + 1)]
      BY <1>4, <1>6, <1>8, <2>1
    <3> QED BY <1>4, <2>1, <3>1, <3>2
  <2>2. CASE ~ (j > i + 1)
    <3>1. j \in 1 .. Len(c) /\ (j # i + 1 => j \in 1 .. i)
      BY <1>6, <2>2
    <3> QED BY <1>6, <1>8, <2>2, <3>1
  <2> QED BY <2>1, <2>2
<1> QED BY <1>8, <1>9, <1>10, <1>11 DEF IsInserted

\* aem_stack_insert: what follows moves up by one cell.
LEMMA Inserting ==
    ASSUME NEW k, NEW w, Holds(k, w), NEW i \in 0 .. k.n, NEW x \in Cells
    PROVE  Holds(Inserted(k, i, x), InsertAt(w, i + 1, x))
<1>1. PICK g : g = Reserved(k, 1)
  OBVIOUS
<1>2. Holds(g, w) /\ g.n = k.n /\ k.n + 1 <= Len(g.s)
  BY <1>1, ReservingStack
<1>3. /\ g.s \in Seq(Written) /\ Len(g.s) \in Nat /\ k.n \in Nat /\ w \in Seq(Cells) /\ Len(w) = k.n
      /\ \A j \in 1 .. k.n : g.s[j] = w[j]
  BY <1>2, HoldsTypes
<1>4. PICK t : t = [j \in 1 .. Len(g.s) |->
               IF j = i + 1 THEN x ELSE IF j <= k.n + 1 THEN MovedUp(g.s, i, j) ELSE g.s[j]]
  OBVIOUS
<1>5. Inserted(k, i, x) = [s |-> t, n |-> k.n + 1]
  BY <1>1, <1>4 DEF Inserted
<1>6. \A j \in 1 .. k.n + 1 : t[j] = IF j = i + 1 THEN x ELSE IF j > i + 1 THEN g.s[j - 1] ELSE g.s[j]
  BY <1>2, <1>3, <1>4 DEF MovedUp
<1>7. t \in Seq(Written) /\ Len(t) = Len(g.s)
  <2>1. ASSUME NEW j \in 1 .. Len(g.s) PROVE t[j] \in Written
    <3>1. CASE j <= k.n + 1
      <4>1. CASE j = i + 1
        BY <1>4, <4>1 DEF Written
      <4>2. CASE j > i + 1
        <5>1. j - 1 \in 1 .. Len(g.s)
          BY <1>3, <4>2
        <5>2. j \in 1 .. k.n + 1 /\ j # i + 1
          BY <1>3, <3>1, <4>2
        <5>3. t[j] = g.s[j - 1]
          BY <1>6, <4>2, <5>2
        <5> QED BY <1>3, <5>1, <5>3
      <4>3. CASE j < i + 1
        <5>1. j \in 1 .. k.n + 1 /\ j # i + 1 /\ ~ (j > i + 1)
          BY <1>3, <3>1, <4>3
        <5>2. t[j] = g.s[j]
          BY <1>6, <5>1
        <5> QED BY <1>3, <5>2
      <4> QED BY <1>3, <4>1, <4>2, <4>3
    <3>2. CASE ~ (j <= k.n + 1)
      <4>1. t[j] = g.s[j]
        BY <1>3, <1>4, <3>2
      <4> QED BY <1>3, <4>1
    <3> QED BY <3>1, <3>2
  <2>2. t \in [1 .. Len(g.s) -> Written]
    BY <1>4, <2>1
  <2> QED BY <1>3, <2>2, ArrayOf
<1>8. PICK v : v = InsertAt(w, i + 1, x)
  OBVIOUS
<1>9. /\ v \in Seq(Cells) /\ Len(v) = k.n + 1
      /\ \A j \in 1 .. k.n + 1 : v[j] = IF j = i + 1 THEN x ELSE IF j > i + 1 THEN w[j - 1] ELSE w[j]
  <2>1. i \in 0 .. Len(w)
    BY <1>3
  <2>2. IsInserted(v, w, i, x)
    BY <1>3, <1>8, <2>1, CellsInserted
  <2> QED BY <1>3, <2>2 DEF IsInserted
<1>10. ASSUME NEW j \in 1 .. k.n + 1 PROVE t[j] = v[j]
  <2>1. CASE j = i + 1
    BY <1>6, <1>9, <2>1
  <2>2. CASE j > i + 1
    <3>1. j - 1 \in 1 .. k.n
      BY <1>3, <2>2
    <3> QED BY <1>3, <1>6, <1>9, <2>2, <3>1
  <2>3. CASE j < i + 1
    <3>1. j \in 1 .. k.n
      BY <1>3, <2>3
    <3> QED BY <1>3, <1>6, <1>9, <2>3, <3>1
  <2> QED BY <1>3, <2>1, <2>2, <2>3
<1>11. Holds([s |-> t, n |-> k.n + 1], v)
  <2>1. k.n + 1 \in Nat /\ k.n + 1 <= Len(t)
    BY <1>2, <1>3, <1>7
  <2> QED BY <1>7, <1>9, <1>10, <2>1, HoldsCells
<1> QED BY <1>5, <1>8, <1>11

\* aem_stack_trunc, and with it what is left of a stack when elements go.
LEMMA Cutting ==
    ASSUME NEW k, NEW w, Holds(k, w), NEW n \in 0 .. k.n
    PROVE  Holds([k EXCEPT !.n = n], SubSeq(w, 1, n))
<1>1. /\ k.s \in Seq(Written) /\ Len(k.s) \in Nat /\ k.n \in Nat /\ w \in Seq(Cells) /\ Len(w) = k.n
      /\ k.n <= Len(k.s) /\ \A j \in 1 .. k.n : k.s[j] = w[j]
  BY HoldsTypes
<1>2. [k EXCEPT !.n = n] = [s |-> k.s, n |-> n]
  <2>1. k \in [s : Seq(Written), n : Nat]
    BY HoldsTypes DEF StackRecords
  <2> QED BY <2>1
<1>3. PICK v : v = SubSeq(w, 1, n)
  OBVIOUS
<1>4. v \in Seq(Cells) /\ Len(v) = n /\ \A j \in 1 .. n : v[j] = w[j]
  BY <1>1, <1>3
<1>5. n \in Nat /\ n <= Len(k.s) /\ \A j \in 1 .. n : k.s[j] = v[j]
  BY <1>1, <1>4
<1>6. Holds([s |-> k.s, n |-> n], v)
  BY <1>1, <1>4, <1>5, HoldsCells
<1> QED BY <1>2, <1>3, <1>6

\* A piece of the array is the same piece of what the stack stands for.
LEMMA PieceShown ==
    ASSUME NEW k, NEW w, Holds(k, w), NEW a \in Nat, a >= 1
    PROVE  SubSeq(k.s, a, k.n) = SubSeq(w, a, k.n) /\ SubSeq(w, a, k.n) \in Seq(Cells)
<1>1. /\ k.s \in Seq(Written) /\ Len(k.s) \in Nat /\ k.n \in Nat /\ w \in Seq(Cells) /\ Len(w) = k.n
      /\ k.n <= Len(k.s) /\ \A j \in 1 .. k.n : k.s[j] = w[j]
  BY HoldsTypes
<1>2. PICK m : m = IF a <= k.n THEN k.n - a + 1 ELSE 0
  OBVIOUS
<1>3. PICK u : u = SubSeq(k.s, a, k.n)
  OBVIOUS
<1>4. PICK v : v = SubSeq(w, a, k.n)
  OBVIOUS
<1>5. u \in Seq(Written) /\ Len(u) = m /\ \A j \in 1 .. m : u[j] = k.s[a + j - 1]
  BY <1>1, <1>2, <1>3
<1>6. v \in Seq(Cells) /\ Len(v) = m /\ \A j \in 1 .. m : v[j] = w[a + j - 1]
  BY <1>1, <1>2, <1>4
<1>7. \A j \in 1 .. m : a + j - 1 \in 1 .. k.n
  BY <1>1, <1>2
<1>8. \A j \in 1 .. m : u[j] = v[j]
  BY <1>1, <1>5, <1>6, <1>7
<1>9. v \in Seq(Written)
  BY <1>6 DEF Written
<1>10. u = v
  BY <1>5, <1>6, <1>8, <1>9, SeqEqual
<1> QED BY <1>3, <1>4, <1>6, <1>10

\* What callers take a removal for.
Remaining(w, i) ==
    LET cleared == ReplaceAt(w, i + 1, Null)
    IN SubSeq(cleared, 1, Max({0} \cup {j \in 1 .. Len(cleared) : cleared[j] # Null}))

\* aem_stack_remove cuts a stack behind its last element that is not NULL, wherever it was.
LEMMA Losing ==
    ASSUME NEW k, NEW w, Holds(k, w), NEW i \in Nat, i < k.n
    PROVE  Holds(Lost(k, i), Remaining(w, i))
<1>1. /\ k.s \in Seq(Written) /\ Len(k.s) \in Nat /\ k.n \in Nat /\ w \in Seq(Cells) /\ Len(w) = k.n
      /\ k.n <= Len(k.s) /\ \A j \in 1 .. k.n : k.s[j] = w[j]
  BY HoldsTypes
<1>2. i + 1 \in 1 .. k.n
  BY <1>1
<1>3. PICK s : s = [k.s EXCEPT ![i + 1] = Null]
  OBVIOUS
<1>4. /\ s \in Seq(Written) /\ Len(s) = Len(k.s) /\ s[i + 1] = Null
      /\ \A j \in 1 .. k.n : j # i + 1 => s[j] = k.s[j]
  BY <1>1, <1>2, <1>3 DEF Written, Cells
<1>5. PICK c : c = ReplaceAt(w, i + 1, Null)
  OBVIOUS
<1>6. /\ c \in Seq(Cells) /\ Len(c) = k.n /\ c[i + 1] = Null
      /\ \A j \in 1 .. k.n : j # i + 1 => c[j] = w[j]
  BY <1>1, <1>2, <1>5 DEF ReplaceAt, Cells
<1>7. \A j \in 1 .. k.n : s[j] = c[j]
  BY <1>1, <1>4, <1>6
<1>8. Holds([s |-> s, n |-> k.n], c)
  BY <1>1, <1>4, <1>6, <1>7, HoldsCells
<1>9. SubSeq(s, 1, k.n) = c
  <2>1. PICK h : h = [s |-> s, n |-> k.n]
    OBVIOUS
  <2>2. h.s = s /\ h.n = k.n /\ Holds(h, c)
    BY <1>8, <2>1
  <2>3. Shown(h) = c
    BY <2>2, ShownCells
  <2> QED BY <2>2, <2>3 DEF Shown
<1> DEFINE E == {n \in 0 .. k.n : \A j \in n + 1 .. k.n : c[j] = Null}
<1>10. PICK n \in E : \A m \in E : n <= m
  <2>1. k.n \in E
    BY <1>1
  <2>2. E \in SUBSET Nat
    OBVIOUS
  <2> HIDE DEF E
  <2> QED BY <2>1, <2>2, LeastOf
<1>11. n \in 0 .. k.n /\ \A j \in n + 1 .. k.n : c[j] = Null
  BY <1>10
<1>12. n > 0 => c[n] # Null
  <2> SUFFICES ASSUME n > 0, c[n] = Null PROVE FALSE
    OBVIOUS
  <2>1. n - 1 \in 0 .. k.n /\ ~ (n <= n - 1)
    BY <1>1, <1>11
  <2>2. \A j \in (n - 1) + 1 .. k.n : c[j] = Null
    BY <1>1, <1>11
  <2>3. n - 1 \in E
    BY <2>1, <2>2
  <2> QED BY <1>10, <2>1, <2>3
<1> HIDE DEF E
<1>13. IsTrimmed(c, n)
  BY <1>6, <1>11, <1>12 DEF IsTrimmed
<1>14. \A m \in 0 .. k.n : IsTrimmed(c, m) => m = n
  <2> SUFFICES ASSUME NEW m \in 0 .. k.n, IsTrimmed(c, m) PROVE m = n
    OBVIOUS
  <2>1. (m > 0 => c[m] # Null) /\ \A j \in m + 1 .. k.n : c[j] = Null
    BY <1>6 DEF IsTrimmed
  <2>2. CASE m < n
    BY <1>1, <1>11, <1>12, <2>1, <2>2
  <2>3. CASE n < m
    BY <1>1, <1>11, <2>1, <2>3
  <2> QED BY <1>1, <1>11, <2>2, <2>3
<1>15. (CHOOSE m \in 0 .. k.n : IsTrimmed(c, m)) = n
  BY <1>11, <1>13, <1>14, Zenon
<1>16. Lost(k, i) = [s |-> s, n |-> n]
  BY <1>3, <1>9, <1>15, Zenon DEF Lost
<1> DEFINE F == {0} \cup {j \in 1 .. Len(c) : c[j] # Null}
<1>17. n \in F /\ F \subseteq Int /\ \A y \in F : n >= y
  <2>1. n \in F
    BY <1>1, <1>6, <1>11, <1>12
  <2>2. F \subseteq Int
    OBVIOUS
  <2>3. ASSUME NEW y \in F PROVE n >= y
    <3>1. CASE y = 0
      BY <1>11, <3>1
    <3>2. CASE y # 0
      <4>1. y \in 1 .. k.n /\ c[y] # Null
        BY <1>6, <3>2
      <4> QED BY <1>1, <1>11, <4>1
    <3> QED BY <3>1, <3>2
  <2> QED BY <2>1, <2>2, <2>3
<1> HIDE DEF F
<1>18. Max(F) = n
  <2>1. \A x \in F : (\A y \in F : x >= y) => x = n
    BY <1>17
  <2> QED BY <1>17, <2>1, Zenon DEF Max
<1>19. Holds([s |-> s, n |-> n], SubSeq(c, 1, n))
  <2>1. PICK h : h = [s |-> s, n |-> k.n]
    OBVIOUS
  <2>2. Holds(h, c) /\ h.n = k.n /\ n \in 0 .. h.n
    BY <1>8, <1>11, <2>1
  <2>3. Holds([h EXCEPT !.n = n], SubSeq(c, 1, n))
    BY <2>2, Cutting
  <2>4. [h EXCEPT !.n = n] = [s |-> s, n |-> n]
    BY <2>1
  <2> QED BY <2>3, <2>4
<1> QED BY <1>5, <1>16, <1>18, <1>19, Zenon DEF F, Remaining

\* A call is right if what it makes of its stack is what the callers take it for.
LEMMA Doing ==
    ASSUME StackInv, NEW k \in Stacks, NEW new, NEW meant, Holds(new, meant), Do(k, new, meant)
    PROVE  StackInv'
<1>1. st' = [st EXCEPT ![k] = new] /\ want' = [want EXCEPT ![k] = meant]
  BY DEF Do
<1>2. new \in StackRecords /\ meant \in Seq(Cells)
  BY HoldsTypes
<1>3. st' \in [Stacks -> StackRecords] /\ want' \in [Stacks -> Seq(Cells)]
  BY <1>1, <1>2 DEF StackInv
<1>4. ASSUME NEW j \in Stacks PROVE Holds(st'[j], want'[j])
  <2>1. CASE j = k
    <3>1. st'[j] = new /\ want'[j] = meant
      BY <1>1, <2>1 DEF StackInv
    <3> QED BY <3>1
  <2>2. CASE j # k
    <3>1. st'[j] = st[j] /\ want'[j] = want[j]
      BY <1>1, <2>2 DEF StackInv
    <3> QED BY <3>1 DEF StackInv
  <2> QED BY <2>1, <2>2
<1> QED BY <1>3, <1>4 DEF StackInv

\* Every call keeps the arrays as their callers take them for.
LEMMA StackStep ==
    ASSUME StackInv, [StackNext]_stackVars
    PROVE  StackInv'
<1>1. CASE UNCHANGED stackVars
  BY <1>1 DEF StackInv, stackVars
<1>2. ASSUME NEW k \in Stacks, NEW x \in Elems, Push(k, x) PROVE StackInv'
  <2>1. Holds(st[k], want[k]) /\ x \in Cells
    BY DEF StackInv, Cells
  <2>2. Holds(Pushed(st[k], x), Append(want[k], x))
    BY <2>1, Pushing
  <2> QED BY <1>2, <2>2, Doing DEF Push
<1>3. ASSUME NEW k \in Stacks, NEW x \in Elems, AssignEmpty(k, x) PROVE StackInv'
  <2>1. Holds(st[k], want[k]) /\ x \in Cells
    BY DEF StackInv, Cells
  <2>2. st[k].n \in Nat /\ want[k] \in Seq(Cells) /\ Len(want[k]) = st[k].n
    BY <2>1, HoldsTypes
  <2>3. PICK i \in 0 .. st[k].n : Do(k, Stored(st[k], i, x), Assigned(want[k], i, x))
    BY <1>3 DEF AssignEmpty
  <2>4. i \in Nat /\ i <= Len(want[k])
    BY <2>2
  <2>5. PICK w : w = want[k]
    OBVIOUS
  <2>6. Extended(w, i, x) = Assigned(w, i, x)
    <3>1. PICK m : m = IF i < Len(w) THEN Len(w) ELSE i + 1
      OBVIOUS
    <3>2. m = IF i = Len(w) THEN i + 1 ELSE Len(w)
      BY <2>2, <2>4, <2>5, <3>1
    <3>3. \A j \in 1 .. m : j # i + 1 => Index(w, j - 1) = w[j]
      BY <2>2, <2>4, <2>5, <3>1 DEF Index
    <3>4. [j \in 1 .. m |-> IF j = i + 1 THEN x ELSE Index(w, j - 1)]
            = [j \in 1 .. m |-> IF j = i + 1 THEN x ELSE w[j]]
      BY <3>3
    <3> QED BY <3>1, <3>2, <3>4 DEF Assigned, Extended
  <2>7. Holds(Stored(st[k], i, x), Assigned(w, i, x))
    <3>1. Holds(Stored(st[k], i, x), Extended(w, i, x))
      BY <2>1, <2>4, <2>5, Storing
    <3> QED BY <2>6, <3>1, Zenon
  <2> QED BY <2>3, <2>5, <2>7, Doing
<1>4. ASSUME NEW k \in Stacks, NEW x \in Elems, NEW i \in 0 .. StackMax[k] - 1, Insert(k, i, x)
      PROVE  StackInv'
  <2>1. Holds(st[k], want[k]) /\ x \in Cells
    BY DEF StackInv, Cells
  <2>2. i \in 0 .. st[k].n
    BY <1>4, <2>1, HoldsTypes DEF Insert
  <2>3. Holds(Inserted(st[k], i, x), InsertAt(want[k], i + 1, x))
    BY <2>1, <2>2, Inserting
  <2> QED BY <1>4, <2>3, Doing DEF Insert
<1>5. ASSUME NEW k \in Stacks, NEW x \in Elems, NEW i \in 0 .. StackMax[k] - 1, InsertEnd(k, i, x)
      PROVE  StackInv'
  <2>1. Holds(st[k], want[k]) /\ x \in Cells
    BY DEF StackInv, Cells
  <2>2. st[k].n \in Nat /\ Len(want[k]) = st[k].n /\ i \in Nat /\ i <= st[k].n
    BY <1>5, <2>1, HoldsTypes DEF InsertEnd
  <2>3. st[k].n - i \in 0 .. st[k].n /\ (st[k].n - i) + 1 = Len(want[k]) + 1 - i
    BY <2>2
  <2>4. Holds(Inserted(st[k], st[k].n - i, x), InsertAt(want[k], (st[k].n - i) + 1, x))
    BY <2>1, <2>3, Inserting
  <2>5. Do(k, Inserted(st[k], st[k].n - i, x), InsertAt(want[k], (st[k].n - i) + 1, x))
    BY <1>5, <2>3, Zenon DEF InsertEnd
  <2> QED BY <2>4, <2>5, Doing
<1>6. ASSUME NEW k \in Stacks, NEW x \in Elems, NEW i \in 0 .. StackMax[k] - 1, Assign(k, i, x)
      PROVE  StackInv'
  <2>1. Holds(st[k], want[k]) /\ x \in Cells /\ i \in Nat
    BY DEF StackInv, Cells
  <2>2. Holds(Stored(st[k], i, x), Extended(want[k], i, x))
    BY <2>1, Storing
  <2>3. Do(k, Stored(st[k], i, x), Extended(want[k], i, x))
    BY <1>6, Zenon DEF Assign, Extended
  <2> QED BY <2>2, <2>3, Doing
<1>7. ASSUME NEW k \in Stacks, NEW x \in Elems, NEW y \in Elems,
             PushN(k, <<x, y>>) \/ PushV(k, <<x, y>>)
      PROVE  StackInv'
  <2>1. PICK xs : xs = <<x, y>>
    OBVIOUS
  <2>2. Holds(st[k], want[k]) /\ xs \in Seq(Cells)
    BY <2>1 DEF StackInv, Cells
  <2>3. Holds(PushedAll(st[k], xs), want[k] \o xs)
    BY <2>2, PushingAll
  <2>4. Holds(PushedEach(st[k], xs), want[k] \o xs)
    <3>1. Len(xs) \in Nat
      BY <2>2
    <3>2. Holds(Reserved(st[k], Len(xs)), want[k])
      BY <2>2, <3>1, ReservingStack
    <3> QED BY <2>2, <3>2, PushingInTurn DEF PushedEach
  <2>5. CASE PushN(k, <<x, y>>)
    BY <2>1, <2>3, <2>5, Doing DEF PushN
  <2>6. CASE PushV(k, <<x, y>>)
    BY <2>1, <2>4, <2>6, Doing DEF PushV
  <2> QED BY <1>7, <2>5, <2>6
<1>8. ASSUME NEW k \in Stacks, NEW n \in 0 .. StackMax[k], Trunc(k, n) PROVE StackInv'
  <2>1. Holds(st[k], want[k])
    BY DEF StackInv
  <2>2. n \in 0 .. st[k].n
    BY <1>8, <2>1, HoldsTypes DEF Trunc
  <2>3. Holds([st[k] EXCEPT !.n = n], SubSeq(want[k], 1, n))
    BY <2>1, <2>2, Cutting
  <2> QED BY <1>8, <2>3, Doing DEF Trunc
<1>9. ASSUME NEW k \in Stacks, NEW n \in 0 .. StackMax[k], Transfer(k, n) PROVE StackInv'
  <2>1. PICK o : o = 3 - k
    OBVIOUS
  <2>2. o \in Stacks /\ o # k
    BY <2>1 DEF Stacks
  <2>3. Holds(st[k], want[k]) /\ Holds(st[o], want[o])
    BY <2>2 DEF StackInv
  <2>4. PICK top : top = st[o].n - n
    OBVIOUS
  <2>5. st[o].n \in Nat /\ n \in Nat /\ top \in 0 .. st[o].n /\ top + 1 \in Nat /\ top + 1 >= 1
    <3>1. st[o].n \in Nat
      BY <2>3, HoldsTypes
    <3>2. n <= st[o].n
      BY <1>9, <2>1, Zenon DEF Transfer
    <3> QED BY <2>4, <3>1, <3>2
  <2>6. PICK xs : xs = SubSeq(want[o], top + 1, st[o].n)
    OBVIOUS
  <2>7. xs \in Seq(Cells) /\ SubSeq(st[o].s, top + 1, st[o].n) = xs
    BY <2>3, <2>5, <2>6, PieceShown
  <2>8. Holds(PushedAll(st[k], xs), want[k] \o xs)
    BY <2>3, <2>7, PushingAll
  <2>9. Holds([st[o] EXCEPT !.n = top], SubSeq(want[o], 1, top))
    BY <2>3, <2>5, Cutting
  <2>10. /\ st' = [st EXCEPT ![k] = PushedAll(@, xs), ![o].n = top]
         /\ want' = [want EXCEPT ![k] = @ \o xs, ![o] = SubSeq(@, 1, top)]
    BY <1>9, <2>1, <2>4, <2>6, <2>7, Zenon DEF Transfer
  <2>11. PICK a : a = PushedAll(st[k], xs)
    OBVIOUS
  <2>12. PICK b : b = [st[o] EXCEPT !.n = top]
    OBVIOUS
  <2>13. PICK va : va = want[k] \o xs
    OBVIOUS
  <2>14. PICK vb : vb = SubSeq(want[o], 1, top)
    OBVIOUS
  <2>15. a \in StackRecords /\ va \in Seq(Cells) /\ b \in StackRecords /\ vb \in Seq(Cells)
    BY <2>8, <2>9, <2>11, <2>12, <2>13, <2>14, HoldsTypes
  <2>16. st \in [Stacks -> StackRecords] /\ want \in [Stacks -> Seq(Cells)]
    BY DEF StackInv
  <2>17. st' = [st EXCEPT ![k] = a, ![o] = b] /\ want' = [want EXCEPT ![k] = va, ![o] = vb]
    BY <2>2, <2>10, <2>11, <2>12, <2>13, <2>14, <2>16
  <2>18. st' \in [Stacks -> StackRecords] /\ want' \in [Stacks -> Seq(Cells)]
    BY <2>2, <2>15, <2>16, <2>17
  <2>19. /\ st'[k] = a /\ st'[o] = b /\ want'[k] = va /\ want'[o] = vb
         /\ \A j \in Stacks : j = k \/ j = o
    BY <2>1, <2>2, <2>16, <2>17 DEF Stacks
  <2>20. \A j \in Stacks : Holds(st'[j], want'[j])
    BY <2>8, <2>9, <2>11, <2>12, <2>13, <2>14, <2>19, Zenon
  <2> QED BY <2>18, <2>20 DEF StackInv
<1>10. ASSUME NEW k \in Stacks, NEW n \in 0 .. StackMax[k], RemoveAtIndex(k, n) PROVE StackInv'
  <2>1. Holds(st[k], want[k]) /\ n \in Nat /\ n < st[k].n
    BY <1>10 DEF StackInv, RemoveAtIndex
  <2>2. Holds(Lost(st[k], n), Remaining(want[k], n))
    BY <2>1, Losing
  <2>3. Do(k, Lost(st[k], n), Remaining(want[k], n))
    BY <1>10, Zenon DEF RemoveAtIndex, Remaining
  <2> QED BY <2>2, <2>3, Doing
<1>11. ASSUME NEW k \in Stacks, Pop(k) PROVE StackInv'
  <2>1. Holds(st[k], want[k])
    BY DEF StackInv
  <2>2. st[k].n - 1 \in 0 .. st[k].n /\ Len(want[k]) = st[k].n
    BY <1>11, <2>1, HoldsTypes DEF Pop
  <2>3. Holds([st[k] EXCEPT !.n = st[k].n - 1], SubSeq(want[k], 1, st[k].n - 1))
    BY <2>1, <2>2, Cutting
  <2>4. Do(k, [st[k] EXCEPT !.n = st[k].n - 1], SubSeq(want[k], 1, st[k].n - 1))
    BY <1>11, <2>2, Zenon DEF Pop, Front
  <2> QED BY <2>3, <2>4, Doing
<1>12. ASSUME NEW k \in Stacks, AppendOther(k) PROVE StackInv'
  <2>1. 3 - k \in Stacks
    BY DEF Stacks
  <2>2. Holds(st[k], want[k]) /\ Holds(st[3 - k], want[3 - k])
    BY <2>1 DEF StackInv
  <2>3. Shown(st[3 - k]) = want[3 - k] /\ want[3 - k] \in Seq(Cells)
    BY <2>2, ShownCells, HoldsTypes
  <2>4. Holds(PushedAll(st[k], want[3 - k]), want[k] \o want[3 - k])
    BY <2>2, <2>3, PushingAll
  <2>5. Do(k, PushedAll(st[k], want[3 - k]), want[k] \o want[3 - k])
    BY <1>12, <2>3, Zenon DEF AppendOther
  <2> QED BY <2>4, <2>5, Doing
<1>13. ASSUME NEW k \in Stacks, Shrinkwrap(k) PROVE StackInv'
  <2>1. Holds(st[k], want[k])
    BY DEF StackInv
  <2>2. /\ st[k] \in StackRecords /\ st[k].n \in Nat /\ st[k].n <= Len(st[k].s) /\ want[k] \in Seq(Cells)
        /\ Len(want[k]) = st[k].n /\ \A i \in 1 .. st[k].n : st[k].s[i] = want[k][i]
    BY <2>1, HoldsTypes
  <2>3. PICK g : g = Resized(st[k], st[k].n)
    OBVIOUS
  <2>4. /\ g \in StackRecords /\ g.n = st[k].n /\ Len(g.s) = st[k].n
        /\ \A i \in 1 .. st[k].n : i <= Len(st[k].s) => g.s[i] = st[k].s[i]
    BY <2>2, <2>3, Resizing, Zenon
  <2>5. \A i \in 1 .. st[k].n : g.s[i] = want[k][i]
    BY <2>2, <2>4
  <2>6. Holds(g, want[k])
    BY <2>2, <2>4, <2>5 DEF Holds
  <2> QED BY <1>13, <2>3, <2>6, Doing DEF Shrinkwrap
<1>14. ASSUME NEW k \in Stacks, Qsort(k) PROVE StackInv'
  <2>1. Holds(st[k], want[k])
    BY DEF StackInv
  <2>2. /\ st[k] \in StackRecords /\ st[k].s \in Seq(Written) /\ Len(st[k].s) \in Nat
        /\ st[k].n \in Nat /\ st[k].n <= Len(st[k].s) /\ want[k] \in Seq(Cells)
        /\ Len(want[k]) = st[k].n /\ \A i \in 1 .. st[k].n : st[k].s[i] = want[k][i]
    BY <2>1, HoldsTypes
  <2>3. PICK s : s = st[k].s
    OBVIOUS
  <2>4. PICK n : n = st[k].n
    OBVIOUS
  <2>5. PICK p \in Bijection(1 .. n, 1 .. n) :
            Do(k, [st[k] EXCEPT !.s = [j \in 1 .. Len(@) |-> IF j <= st[k].n THEN @[p[j]] ELSE @[j]]],
               [j \in 1 .. Len(want[k]) |-> want[k][p[j]]])
    BY <1>14, <2>4, Zenon DEF Qsort
  <2>6. p \in [1 .. n -> 1 .. n]
    BY DEF Bijection, Injection
  <2>7. PICK t : t = [j \in 1 .. Len(s) |-> IF j <= n THEN s[p[j]] ELSE s[j]]
    OBVIOUS
  <2>8. PICK v : v = [j \in 1 .. n |-> want[k][p[j]]]
    OBVIOUS
  <2>9. Do(k, [st[k] EXCEPT !.s = t], v)
    BY <2>2, <2>3, <2>4, <2>5, <2>7, <2>8, Zenon
  <2>10. [st[k] EXCEPT !.s = t] = [s |-> t, n |-> n]
    <3>1. st[k] \in [s : Seq(Written), n : Nat]
      BY <2>2 DEF StackRecords
    <3> QED BY <2>4, <3>1
  <2>11. n \in Nat /\ Len(s) \in Nat /\ n <= Len(s) /\ s \in Seq(Written)
    BY <2>2, <2>3, <2>4
  <2>12. t \in Seq(Written) /\ Len(t) = Len(s)
    <3>1. \A j \in 1 .. Len(s) : t[j] \in Written
      <4> TAKE j \in 1 .. Len(s)
      <4>1. CASE j <= n
        <5>1. j \in 1 .. n /\ p[j] \in 1 .. Len(s)
          BY <2>6, <2>11, <4>1
        <5>2. s[p[j]] \in Written
          BY <2>11, <5>1
        <5> QED BY <2>7, <4>1, <5>2
      <4>2. CASE ~ (j <= n)
        <5>1. s[j] \in Written
          BY <2>11
        <5> QED BY <2>7, <4>2, <5>1
      <4> QED BY <4>1, <4>2
    <3>2. t \in [1 .. Len(s) -> Written]
      BY <2>7, <3>1
    <3> QED BY <2>11, <3>2, ArrayOf
  <2>13. v \in Seq(Cells) /\ Len(v) = n
    <3>1. \A j \in 1 .. n : v[j] \in Cells
      <4> TAKE j \in 1 .. n
      <4>1. p[j] \in 1 .. Len(want[k])
        BY <2>2, <2>4, <2>6
      <4>2. want[k][p[j]] \in Cells
        BY <2>2, <4>1
      <4> QED BY <2>8, <4>2
    <3>2. v \in [1 .. n -> Cells]
      BY <2>8, <3>1
    <3> QED BY <2>11, <3>2, CellsOf
  <2>14. \A j \in 1 .. n : t[j] = v[j]
    <3> TAKE j \in 1 .. n
    <3>1. p[j] \in 1 .. n /\ j \in 1 .. Len(s) /\ j <= n
      BY <2>6, <2>11
    <3>2. s[p[j]] = want[k][p[j]]
      BY <2>2, <2>3, <2>4, <3>1
    <3> QED BY <2>7, <2>8, <3>1, <3>2
  <2>15. Holds([s |-> t, n |-> n], v)
    BY <2>11, <2>12, <2>13, <2>14, HoldsCells
  <2> QED BY <2>9, <2>10, <2>15, Doing
<1>15. ASSUME NEW k \in Stacks, Dtor(k) PROVE StackInv'
  <2>1. Holds([s |-> <<>>, n |-> 0], <<>>)
    BY HoldsNothing
  <2> QED BY <1>15, <2>1, Doing DEF Dtor
<1> QED BY <1>1, <1>2, <1>3, <1>4, <1>5, <1>6, <1>7, <1>8, <1>9, <1>10, <1>11, <1>12, <1>13, <1>14, <1>15
        DEF StackNext

\* Cell by cell, the arrays of stack.c and what their callers take them for agree, and no
\* cell in use was never written.
THEOREM StackTyped == StackSpec => []StackInv
<1>1. StackInit => StackInv
  <2> SUFFICES ASSUME StackInit PROVE StackInv
    OBVIOUS
  <2>1. \A k \in Stacks : Holds([s |-> <<>>, n |-> 0], <<>>)
    BY HoldsNothing
  <2>2. [s |-> <<>>, n |-> 0] \in StackRecords
    BY DEF StackRecords
  <2> QED BY <2>1, <2>2 DEF StackInit, StackInv
<1>2. StackInv /\ [StackNext]_stackVars => StackInv'
  BY StackStep
<1> QED BY <1>1, <1>2, PTL DEF StackSpec

\* After any calls of stack.c, on stacks of any size and with any growth, the arrays hold what the
\* callers put there, in their order, and nothing is behind their ends.
THEOREM StacksRight == StackSpec => []StacksHold
<1>1. StackInv => StacksHold
  <2> SUFFICES ASSUME StackInv, NEW k \in Stacks
               PROVE  st[k].n <= Len(st[k].s) /\ Shown(st[k]) = want[k]
    BY DEF StacksHold
  <2>1. Holds(st[k], want[k])
    BY DEF StackInv
  <2> QED BY <2>1, HoldsTypes, ShownCells
<1> QED BY <1>1, StackTyped, PTL
=============================================================================
