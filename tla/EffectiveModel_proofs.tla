----------------------- MODULE EffectiveModel_proofs -----------------------
(***************************************************************************)
(* What the operators of EffectiveModel do to any parameters: a merge has  *)
(* what either side has, keeps what its second side sets and the items of  *)
(* both lists, and is not deeper than they are; what a node or a build is  *)
(* given beside its parameters stays out of their way.                     *)
(***************************************************************************)
EXTENDS EffectiveModel, FiniteSetTheorems, WellFoundedInduction, TLAPS

-----------------------------------------------------------------------------
(* Numbers: a set of them has a least element, a bounded one a greatest,   *)
(* and what holds at 0 and passes from each number to the next holds of    *)
(* all.  They rest on the strict subset ordering of finite sets, which is  *)
(* well founded, and speak of sets of numbers, never of a predicate.       *)

LEMMA LeastOf ==
  ASSUME NEW S \in SUBSET Nat, S # {}
  PROVE  \E m \in S : \A n \in S : m <= n
<1> DEFINE T == {0 .. n : n \in S}
<1>1. T \subseteq FiniteSubsetsOf(Nat) /\ T # {}
  <2>1. ASSUME NEW n \in S PROVE 0 .. n \in FiniteSubsetsOf(Nat)
    BY FS_Interval DEF FiniteSubsetsOf
  <2> QED
    BY <2>1
<1>2. \E x \in T : \A y \in T : <<y, x>> \notin StrictSubsetOrdering(Nat)
  <2> HIDE DEF T
  <2> QED
    BY <1>1, FS_StrictSubsetOrderingWellFounded, WFMin
<1>3. PICK m \in S : \A n \in S : <<0 .. n, 0 .. m>> \notin StrictSubsetOrdering(Nat)
  BY <1>2
<1>4. ASSUME NEW n \in S, n < m PROVE FALSE
  <2>1. 0 .. n \in SUBSET Nat /\ 0 .. m \in SUBSET Nat /\ 0 .. n \subseteq 0 .. m
        /\ m \in 0 .. m /\ m \notin 0 .. n
    BY <1>4
  <2> QED
    BY <1>3, <2>1 DEF StrictSubsetOrdering
<1> QED
  BY <1>4

\* Induction: the least number that is missing would be neither 0 nor a successor.
LEMMA Induction ==
  ASSUME NEW S, 0 \in S, \A n \in Nat : n \in S => n + 1 \in S
  PROVE  Nat \subseteq S
<1> SUFFICES ASSUME Nat \ S # {} PROVE FALSE
  OBVIOUS
<1>1. PICK m \in Nat \ S : \A n \in Nat \ S : m <= n
  BY LeastOf
<1>2. m # 0 /\ m - 1 \in Nat /\ ~(m <= m - 1)
  OBVIOUS
<1>3. m - 1 \in S
  BY <1>1, <1>2
<1> QED
  BY <1>2, <1>3

\* What is bounded has a greatest element: the bounds have a least.
LEMMA GreatestBelow ==
  ASSUME NEW S \in SUBSET Nat, S # {}, NEW b \in Nat, \A n \in S : n <= b
  PROVE  \E m \in S : \A n \in S : n <= m
<1> DEFINE B == {c \in Nat : \A n \in S : n <= c}
<1>1. B \in SUBSET Nat /\ b \in B
  OBVIOUS
<1>2. PICK m \in B : \A c \in B : m <= c
  <2> HIDE DEF B
  <2> QED
    BY <1>1, LeastOf
<1>3. ASSUME m \notin S PROVE FALSE
  <2>1. m \in Nat /\ \A n \in S : n \in Nat /\ n <= m
    BY <1>2
  <2>2. \A n \in S : n < m
    BY <1>3, <2>1
  <2>3. m # 0
    <3>1. PICK n \in S : TRUE
      OBVIOUS
    <3> QED
      BY <2>1, <2>2, <3>1
  <2>4. m - 1 \in Nat /\ \A n \in S : n <= m - 1
    BY <2>1, <2>2, <2>3
  <2>5. m <= m - 1
    BY <1>2, <2>4
  <2> QED
    BY <2>1, <2>5
<1> QED
  BY <1>2, <1>3

-----------------------------------------------------------------------------
(* Dictionaries. *)

LEMMA OneTag ==
  ASSUME NEW t
  PROVE  /\ IsDict(t) => ~IsList(t) /\ ~IsScalar(t)
         /\ IsList(t) => ~IsScalar(t)
BY DEF IsDict, IsList, IsScalar

LEMMA DictLemma ==
  ASSUME NEW f
  PROVE  /\ IsDict(Dict(f)) /\ ~IsList(Dict(f)) /\ ~IsScalar(Dict(f))
         /\ Keys(Dict(f)) = DOMAIN f /\ Dict(f).dict = f
BY DEF Dict, IsDict, IsList, IsScalar, Keys

LEMMA ListLemma ==
  ASSUME NEW s
  PROVE  /\ IsList(List(s)) /\ ~IsDict(List(s)) /\ Keys(List(s)) = {}
         /\ Items(List(s)) = s /\ List(s).list = s
BY DEF List, IsDict, IsList, Items, Keys

LEMMA ScalarLemma ==
  ASSUME NEW v
  PROVE  /\ IsScalar(Scalar(v)) /\ ~IsDict(Scalar(v)) /\ ~IsList(Scalar(v))
         /\ Keys(Scalar(v)) = {} /\ Items(Scalar(v)) = <<>> /\ Scalar(v).scalar = v
BY DEF Scalar, IsDict, IsList, IsScalar, Items, Keys

LEMMA BlankLemma ==
  IsScalar(Blank) /\ ~IsDict(Blank) /\ ~IsList(Blank) /\ Keys(Blank) = {} /\ Items(Blank) = <<>>
BY Zenon, ScalarLemma DEF Blank

LEMMA ScalarSame ==
  ASSUME NEW v, NEW w
  PROVE  Scalar(v) = Scalar(w) <=> v = w
<1>1. ASSUME Scalar(v) = Scalar(w) PROVE v = w
  <2>1. Scalar(v).scalar = Scalar(w).scalar
    BY <1>1
  <2> QED
    BY <2>1, ScalarLemma
<1> QED
  BY <1>1

\* A value has keys only as a dictionary.
LEMMA GetLemma ==
  ASSUME NEW t, NEW k
  PROVE  /\ k \in Keys(t) => IsDict(t) /\ Get(t, k) = t.dict[k]
         /\ k \notin Keys(t) => Get(t, k) = Blank
BY DEF Get, Keys

LEMMA EmptyLemma == IsDict(Empty) /\ Keys(Empty) = {}
BY DictLemma DEF Empty

LEMMA WithLemma ==
  ASSUME NEW t, NEW k, NEW v
  PROVE  /\ IsDict(With(t, k, v)) /\ Keys(With(t, k, v)) = Keys(t) \cup {k}
         /\ Get(With(t, k, v), k) = v
         /\ \A x : x # k => Get(With(t, k, v), x) = Get(t, x)
<1> DEFINE f == [x \in Keys(t) \cup {k} |-> IF x = k THEN v ELSE t.dict[x]]
<1>1. With(t, k, v) = Dict(f)
  BY DEF With
<1>2. DOMAIN f = Keys(t) \cup {k} /\ f[k] = v /\ \A x \in Keys(t) \ {k} : f[x] = t.dict[x]
  OBVIOUS
<1> HIDE DEF f
<1>3. \A x : Get(Dict(f), x) = IF x \in DOMAIN f THEN f[x] ELSE Blank
  BY DictLemma DEF Get
<1> QED
  BY <1>1, <1>2, <1>3, DictLemma DEF Get

LEMMA OnlyLemma ==
  ASSUME NEW t, NEW K
  PROVE  /\ IsDict(Only(t, K)) /\ Keys(Only(t, K)) = Keys(t) \cap K
         /\ \A x : Get(Only(t, K), x) = IF x \in K THEN Get(t, x) ELSE Blank
<1> DEFINE f == [k \in Keys(t) \cap K |-> t.dict[k]]
<1>1. Only(t, K) = Dict(f)
  BY DEF Only
<1>2. DOMAIN f = Keys(t) \cap K /\ \A x \in Keys(t) \cap K : f[x] = t.dict[x]
  OBVIOUS
<1> HIDE DEF f
<1>3. \A x : Get(Dict(f), x) = IF x \in DOMAIN f THEN f[x] ELSE Blank
  BY DictLemma DEF Get
<1> QED
  BY <1>1, <1>2, <1>3, DictLemma DEF Get

LEMMA OverLemma ==
  ASSUME NEW f, NEW g
  PROVE  /\ DOMAIN Over(f, g) = DOMAIN f \cup DOMAIN g
         /\ \A x \in DOMAIN f : Over(f, g)[x] = f[x]
         /\ \A x \in DOMAIN g \ DOMAIN f : Over(f, g)[x] = g[x]
BY DEF Over

\* Two dictionaries with the same keys and values are the same.
LEMMA SameDict ==
  ASSUME NEW f, NEW g, DOMAIN f = DOMAIN g, \A x \in DOMAIN f : f[x] = g[x],
         f = [x \in DOMAIN f |-> f[x]], g = [x \in DOMAIN g |-> g[x]]
  PROVE  Dict(f) = Dict(g)
<1>1. f = g
  OBVIOUS
<1> QED
  BY <1>1

-----------------------------------------------------------------------------
(* The union of two lists. *)

LEMMA AppendItems ==
  ASSUME NEW X, NEW s \in Seq(X), NEW x \in X
  PROVE  Append(s, x) \in Seq(X) /\ ToSet(Append(s, x)) = ToSet(s) \cup {x}
<1>1. Append(s, x) \in Seq(X) /\ Len(Append(s, x)) = Len(s) + 1 /\ Len(s) \in Nat
  OBVIOUS
<1>2. \A i \in 1 .. Len(s) : Append(s, x)[i] = s[i]
  OBVIOUS
<1>3. Append(s, x)[Len(s) + 1] = x
  OBVIOUS
<1>4. DOMAIN Append(s, x) = 1 .. Len(s) + 1 /\ DOMAIN s = 1 .. Len(s)
  BY <1>1
<1>5. 1 .. Len(s) + 1 = (1 .. Len(s)) \cup {Len(s) + 1}
  BY <1>1
<1> QED
  BY <1>1, <1>2, <1>3, <1>4, <1>5 DEF ToSet

LEMMA ContainsItem ==
  ASSUME NEW X, NEW s \in Seq(X), NEW x
  PROVE  Contains(s, x) <=> x \in ToSet(s)
BY DEF Contains, ToSet

LEMMA SeqOfItems ==
  ASSUME NEW X, NEW s \in Seq(X)
  PROVE  s \in Seq(ToSet(s)) /\ ToSet(s) \subseteq X
BY DEF ToSet

LEMMA SeqOfMore ==
  ASSUME NEW X, NEW Y, X \subseteq Y, NEW s \in Seq(X)
  PROVE  s \in Seq(Y)
OBVIOUS

\* The list so far, item by item.
IsMerging(h, base, more) ==
  h = [i \in 0 .. Len(more) |->
    IF i = 0 THEN base
    ELSE IF Contains(h[i - 1], more[i]) THEN h[i - 1] ELSE Append(h[i - 1], more[i])]
Merging(base, more) == CHOOSE h : IsMerging(h, base, more)

LEMMA MergingExists ==
  ASSUME NEW X, NEW base \in Seq(X), NEW more \in Seq(X)
  PROVE  \E h : IsMerging(h, base, more)
<1> DEFINE Step(i, s) == IF Contains(s, more[i]) THEN s ELSE Append(s, more[i])
           Upto(n) == \E h : h = [i \in 0 .. n |-> IF i = 0 THEN base ELSE Step(i, h[i - 1])]
           S == {n \in Nat : Upto(n)}
<1>1. 0 \in S
  <2> DEFINE h == [i \in 0 .. 0 |-> base]
  <2>1. h = [i \in 0 .. 0 |-> IF i = 0 THEN base ELSE Step(i, h[i - 1])]
    OBVIOUS
  <2> HIDE DEF h, Step
  <2> QED
    BY <2>1
<1>2. ASSUME NEW n \in Nat, n \in S PROVE n + 1 \in S
  <2> HIDE DEF Step
  <2>1. PICK h : h = [i \in 0 .. n |-> IF i = 0 THEN base ELSE Step(i, h[i - 1])]
    BY <1>2
  <2> DEFINE g == [i \in 0 .. n + 1 |-> IF i \in 0 .. n THEN h[i] ELSE Step(i, h[i - 1])]
  <2>2. \A i \in 0 .. n + 1 : g[i] = IF i = 0 THEN base ELSE Step(i, g[i - 1])
    <3>1. ASSUME NEW i \in 0 .. n PROVE g[i] = IF i = 0 THEN base ELSE Step(i, g[i - 1])
      <4>1. g[i] = h[i] /\ (i # 0 => i - 1 \in 0 .. n /\ g[i - 1] = h[i - 1])
        OBVIOUS
      <4>2. h[i] = IF i = 0 THEN base ELSE Step(i, h[i - 1])
        BY <2>1
      <4> HIDE DEF g
      <4> QED
        BY <4>1, <4>2
    <3>2. g[n + 1] = Step(n + 1, g[n])
      <4>1. g[n + 1] = Step(n + 1, h[n + 1 - 1]) /\ g[n] = h[n]
        OBVIOUS
      <4> HIDE DEF g
      <4> QED
        BY <4>1
    <3>3. \A i \in 0 .. n + 1 : i \in 0 .. n \/ i = n + 1
      OBVIOUS
    <3>4. n + 1 # 0 /\ n + 1 - 1 = n
      OBVIOUS
    <3> HIDE DEF g
    <3>5. ASSUME NEW i, i = n + 1 PROVE g[i] = IF i = 0 THEN base ELSE Step(i, g[i - 1])
      BY <3>2, <3>4, <3>5
    <3> QED
      BY <3>1, <3>3, <3>5
  <2>3. g = [i \in 0 .. n + 1 |-> IF i = 0 THEN base ELSE Step(i, g[i - 1])]
    <3>1. g = [i \in 0 .. n + 1 |-> g[i]]
      OBVIOUS
    <3> HIDE DEF g
    <3> QED
      BY <2>2, <3>1
  <2> HIDE DEF g
  <2>4. Upto(n + 1)
    BY <2>3
  <2> QED
    BY <2>4
<1>3. Len(more) \in S
  <2> HIDE DEF S
  <2> QED
    BY <1>1, <1>2, Induction
<1> QED
  BY <1>3 DEF IsMerging

LEMMA MergingIs ==
  ASSUME NEW X, NEW base \in Seq(X), NEW more \in Seq(X)
  PROVE  /\ Union(base, more) = Merging(base, more)[Len(more)]
         /\ Merging(base, more)[0] = base
         /\ \A i \in 1 .. Len(more) :
              LET before == Merging(base, more)[i - 1] IN
              Merging(base, more)[i] =
                IF Contains(before, more[i]) THEN before ELSE Append(before, more[i])
<1> DEFINE h == Merging(base, more)
<1>1. IsMerging(h, base, more)
  BY MergingExists, Zenon DEF Merging
<1>2. Union(base, more) = h[Len(more)]
  BY DEF Union, Merging, IsMerging
<1> HIDE DEF h
<1> DEFINE Step(i) == IF Contains(h[i - 1], more[i]) THEN h[i - 1] ELSE Append(h[i - 1], more[i])
<1>3. h = [i \in 0 .. Len(more) |-> IF i = 0 THEN base ELSE Step(i)]
  BY <1>1 DEF IsMerging
<1>4. h[0] = base /\ \A i \in 1 .. Len(more) : h[i] = Step(i)
  <2> HIDE DEF Step
  <2> QED
    BY <1>3
<1> QED
  BY <1>2, <1>4 DEF h

\* The union has the items of both lists and no others.
LEMMA UnionItems ==
  ASSUME NEW X, NEW base \in Seq(X), NEW more \in Seq(X)
  PROVE  Union(base, more) \in Seq(X) /\ ToSet(Union(base, more)) = ToSet(base) \cup ToSet(more)
<1> DEFINE h == Merging(base, more)
           Upto(n) == {more[j] : j \in 1 .. n}
           S == {n \in Nat : n <= Len(more) => h[n] \in Seq(X) /\ ToSet(h[n]) = ToSet(base) \cup Upto(n)}
<1> HIDE DEF h
<1>1. 0 \in S
  BY MergingIs DEF h
<1>2. ASSUME NEW n \in Nat, n \in S PROVE n + 1 \in S
  <2> SUFFICES ASSUME n + 1 <= Len(more)
               PROVE  h[n + 1] \in Seq(X) /\ ToSet(h[n + 1]) = ToSet(base) \cup Upto(n + 1)
    OBVIOUS
  <2>1. n <= Len(more) /\ n + 1 \in 1 .. Len(more) /\ n + 1 - 1 = n /\ more[n + 1] \in X
    OBVIOUS
  <2>2. h[n] \in Seq(X) /\ ToSet(h[n]) = ToSet(base) \cup Upto(n)
    BY <1>2, <2>1
  <2>3. h[n + 1] = IF Contains(h[n], more[n + 1]) THEN h[n] ELSE Append(h[n], more[n + 1])
    BY <2>1, MergingIs DEF h
  <2>4. Upto(n + 1) = Upto(n) \cup {more[n + 1]}
    <3>1. 1 .. n + 1 = (1 .. n) \cup {n + 1}
      OBVIOUS
    <3> QED
      BY <3>1
  <2> HIDE DEF Upto
  <2>5. CASE Contains(h[n], more[n + 1])
    BY <2>2, <2>3, <2>4, <2>5, ContainsItem
  <2>6. CASE ~Contains(h[n], more[n + 1])
    BY <2>1, <2>2, <2>3, <2>4, <2>6, AppendItems
  <2> QED
    BY <2>5, <2>6
<1>3. Len(more) \in S
  <2> HIDE DEF S
  <2> QED
    BY <1>1, <1>2, Induction
<1>4. Upto(Len(more)) = ToSet(more)
  BY DEF ToSet
<1>5. h[Len(more)] \in Seq(X) /\ ToSet(h[Len(more)]) = ToSet(base) \cup ToSet(more)
  BY <1>3, <1>4
<1> QED
  BY <1>5, MergingIs DEF h

-----------------------------------------------------------------------------
(* Parameters are not too deep, and their lists are sequences. *)

LEMMA FormedLeaf ==
  ASSUME NEW t, ~IsDict(t)
  PROVE  /\ Formed1(t) <=> Flat(t)
         /\ Formed2(t) <=> Flat(t)
         /\ Formed3(t) <=> Flat(t)
BY DEF Formed1, Formed2, Formed3, FormedBy

LEMMA FormedDict ==
  ASSUME NEW t, IsDict(t)
  PROVE  /\ ~Flat(t) /\ ~IsList(t)
         /\ Formed1(t) <=> \A k \in Keys(t) : Flat(Get(t, k))
         /\ Formed2(t) <=> \A k \in Keys(t) : Formed1(Get(t, k))
         /\ Formed3(t) <=> \A k \in Keys(t) : Formed2(Get(t, k))
         /\ Parameters(t) <=> IsFiniteSet(Keys(t)) /\ \A k \in Keys(t) : Formed3(Get(t, k))
<1>1. \A k \in Keys(t) : Get(t, k) = t.dict[k]
  BY GetLemma
<1>2. ~Flat(t) /\ ~IsList(t)
  BY OneTag DEF Flat
<1>3. Formed1(t) <=> \A k \in Keys(t) : Flat(Get(t, k))
  BY <1>1 DEF Formed1, FormedBy
<1>4. Formed2(t) <=> \A k \in Keys(t) : Formed1(Get(t, k))
  BY <1>1 DEF Formed2, FormedBy
<1>5. Formed3(t) <=> \A k \in Keys(t) : Formed2(Get(t, k))
  BY <1>1 DEF Formed3, FormedBy
<1>6. Parameters(t) <=> IsFiniteSet(Keys(t)) /\ \A k \in Keys(t) : Formed3(Get(t, k))
  BY <1>1 DEF Parameters, FormedBy
<1> QED
  BY <1>2, <1>3, <1>4, <1>5, <1>6

LEMMA ParametersIsDict == ASSUME NEW t, Parameters(t) PROVE IsDict(t) /\ ~IsList(t) /\ IsFiniteSet(Keys(t))
BY OneTag DEF Parameters

LEMMA FlatScalar ==
  ASSUME NEW t, ~IsDict(t), ~IsList(t)
  PROVE  Flat(t)
BY DEF Flat

LEMMA FlatList ==
  ASSUME NEW X, NEW s \in Seq(X)
  PROVE  Flat(List(s))
BY ListLemma, SeqOfItems DEF Flat

\* What is less deep is not too deep.
LEMMA FormedMore ==
  ASSUME NEW t
  PROVE  /\ Flat(t) => Formed1(t)
         /\ Formed1(t) => Formed2(t)
         /\ Formed2(t) => Formed3(t)
<1>1. \A u : Flat(u) => Formed1(u)
  BY FormedLeaf DEF Flat
<1>2. \A u : Formed1(u) => Formed2(u)
  <2> TAKE u
  <2>1. CASE IsDict(u)
    BY <1>1, <2>1, FormedDict
  <2> QED
    BY <2>1, FormedLeaf
<1>3. \A u : Formed2(u) => Formed3(u)
  <2> TAKE u
  <2>1. CASE IsDict(u)
    BY <1>2, <2>1, FormedDict
  <2> QED
    BY <2>1, FormedLeaf
<1> QED
  BY <1>1, <1>2, <1>3

LEMMA FlatBlank == Flat(Blank) /\ Formed1(Blank) /\ Formed2(Blank) /\ Formed3(Blank)
BY BlankLemma, FlatScalar, FormedMore

LEMMA FormedGet ==
  ASSUME NEW t, NEW k
  PROVE  /\ Formed1(t) => Flat(Get(t, k))
         /\ Formed2(t) => Formed1(Get(t, k))
         /\ Formed3(t) => Formed2(Get(t, k))
         /\ Parameters(t) => Formed3(Get(t, k))
<1>1. CASE k \in Keys(t)
  <2>1. IsDict(t)
    BY <1>1, GetLemma
  <2> QED
    BY <1>1, <2>1, FormedDict
<1>2. CASE k \notin Keys(t)
  BY <1>2, GetLemma, FlatBlank
<1> QED
  BY <1>1, <1>2

\* The items of a value are those of a sequence.
LEMMA FormedItems ==
  ASSUME NEW t, Flat(t) \/ Formed1(t) \/ Formed2(t) \/ Formed3(t)
  PROVE  /\ Items(t) \in Seq(ToSet(Items(t)))
         /\ IsList(t) => ~IsDict(t) /\ t.list = Items(t) /\ Flat(t)
<1>1. Formed3(t)
  BY FormedMore
<1>2. CASE IsList(t)
  <2>1. ~IsDict(t)
    BY <1>1, <1>2, FormedDict
  <2> QED
    BY <1>1, <1>2, <2>1, FormedLeaf DEF Flat, Items
<1>3. CASE ~IsList(t)
  BY <1>3 DEF Items
<1> QED
  BY <1>2, <1>3

-----------------------------------------------------------------------------
(* The merge, level by level. *)

LEMMA LeavesFormed ==
  ASSUME NEW old, NEW new, Formed3(old), Flat(new)
  PROVE  /\ Flat(MergedLeaves(old, new))
         /\ ToSet(Items(new)) \subseteq ToSet(Items(MergedLeaves(old, new)))
         /\ IsList(new) => /\ IsList(MergedLeaves(old, new))
                           /\ ToSet(Items(old)) \subseteq ToSet(Items(MergedLeaves(old, new)))
<1>1. CASE IsList(old) /\ IsList(new)
  <2> DEFINE X == ToSet(Items(old)) \cup ToSet(Items(new))
  <2>1. old.list \in Seq(X) /\ new.list \in Seq(X) /\ old.list = Items(old) /\ new.list = Items(new)
    BY <1>1, FormedItems, SeqOfMore
  <2> HIDE DEF X
  <2>2. MergedLeaves(old, new) = List(Union(old.list, new.list))
    BY <1>1 DEF MergedLeaves
  <2>3. /\ Union(old.list, new.list) \in Seq(X)
        /\ ToSet(Union(old.list, new.list)) = ToSet(old.list) \cup ToSet(new.list)
    BY <2>1, UnionItems
  <2>4. Flat(List(Union(old.list, new.list)))
    BY <2>3, FlatList
  <2> QED
    BY <2>1, <2>2, <2>3, <2>4, ListLemma
<1>2. CASE IsList(new) /\ ~IsList(old)
  <2>1. MergedLeaves(old, new) = new
    BY <1>2 DEF MergedLeaves
  <2>2. Items(old) = <<>> /\ ToSet(Items(old)) = {}
    BY <1>2 DEF Items, ToSet
  <2> QED
    BY <1>2, <2>1, <2>2
<1>3. CASE ~IsList(new)
  BY <1>3 DEF MergedLeaves
<1> QED
  BY <1>1, <1>2, <1>3

\* What the merge of two dictionaries has under each key.
LEMMA MergedDicts ==
  ASSUME NEW old, NEW new, IsDict(old), IsDict(new)
  PROVE  /\ IsDict(Merged1(old, new)) /\ ~IsList(Merged1(old, new))
         /\ Keys(Merged1(old, new)) = Keys(old) \cup Keys(new)
         /\ \A k : Get(Merged1(old, new), k) =
                     IF k \in Keys(new) THEN MergedLeaves(Get(old, k), Get(new, k)) ELSE Get(old, k)
         /\ IsDict(Merged2(old, new)) /\ ~IsList(Merged2(old, new))
         /\ Keys(Merged2(old, new)) = Keys(old) \cup Keys(new)
         /\ \A k : Get(Merged2(old, new), k) =
                     IF k \in Keys(new) THEN Merged1(Get(old, k), Get(new, k)) ELSE Get(old, k)
         /\ IsDict(Merged3(old, new)) /\ ~IsList(Merged3(old, new))
         /\ Keys(Merged3(old, new)) = Keys(old) \cup Keys(new)
         /\ \A k : Get(Merged3(old, new), k) =
                     IF k \in Keys(new) THEN Merged2(Get(old, k), Get(new, k)) ELSE Get(old, k)
<1>1. /\ IsDict(Merged1(old, new)) /\ ~IsList(Merged1(old, new))
      /\ Keys(Merged1(old, new)) = Keys(old) \cup Keys(new)
      /\ \A k : Get(Merged1(old, new), k) =
                  IF k \in Keys(new) THEN MergedLeaves(Get(old, k), Get(new, k)) ELSE Get(old, k)
  <2> DEFINE f == [k \in Keys(old) \cup Keys(new) |->
                     IF k \in Keys(new) THEN MergedLeaves(Get(old, k), new.dict[k]) ELSE old.dict[k]]
  <2>1. Merged1(old, new) = Dict(f)
    BY DEF Merged1, MergeBy
  <2>2. /\ DOMAIN f = Keys(old) \cup Keys(new)
        /\ \A k \in DOMAIN f :
             f[k] = IF k \in Keys(new) THEN MergedLeaves(Get(old, k), new.dict[k]) ELSE old.dict[k]
    OBVIOUS
  <2> HIDE DEF f
  <2>3. \A k : Get(Dict(f), k) = IF k \in DOMAIN f THEN f[k] ELSE Blank
    BY DictLemma DEF Get
  <2> QED
    BY <2>1, <2>2, <2>3, DictLemma, GetLemma
<1>2. /\ IsDict(Merged2(old, new)) /\ ~IsList(Merged2(old, new))
      /\ Keys(Merged2(old, new)) = Keys(old) \cup Keys(new)
      /\ \A k : Get(Merged2(old, new), k) =
                  IF k \in Keys(new) THEN Merged1(Get(old, k), Get(new, k)) ELSE Get(old, k)
  <2> DEFINE f == [k \in Keys(old) \cup Keys(new) |->
                     IF k \in Keys(new) THEN Merged1(Get(old, k), new.dict[k]) ELSE old.dict[k]]
  <2>1. Merged2(old, new) = Dict(f)
    BY DEF Merged2, MergeBy
  <2>2. /\ DOMAIN f = Keys(old) \cup Keys(new)
        /\ \A k \in DOMAIN f :
             f[k] = IF k \in Keys(new) THEN Merged1(Get(old, k), new.dict[k]) ELSE old.dict[k]
    OBVIOUS
  <2> HIDE DEF f
  <2>3. \A k : Get(Dict(f), k) = IF k \in DOMAIN f THEN f[k] ELSE Blank
    BY DictLemma DEF Get
  <2> QED
    BY <2>1, <2>2, <2>3, DictLemma, GetLemma
<1>3. /\ IsDict(Merged3(old, new)) /\ ~IsList(Merged3(old, new))
      /\ Keys(Merged3(old, new)) = Keys(old) \cup Keys(new)
      /\ \A k : Get(Merged3(old, new), k) =
                  IF k \in Keys(new) THEN Merged2(Get(old, k), Get(new, k)) ELSE Get(old, k)
  <2> DEFINE f == [k \in Keys(old) \cup Keys(new) |->
                     IF k \in Keys(new) THEN Merged2(Get(old, k), new.dict[k]) ELSE old.dict[k]]
  <2>1. Merged3(old, new) = Dict(f)
    BY DEF Merged3, MergeBy
  <2>2. /\ DOMAIN f = Keys(old) \cup Keys(new)
        /\ \A k \in DOMAIN f :
             f[k] = IF k \in Keys(new) THEN Merged2(Get(old, k), new.dict[k]) ELSE old.dict[k]
    OBVIOUS
  <2> HIDE DEF f
  <2>3. \A k : Get(Dict(f), k) = IF k \in DOMAIN f THEN f[k] ELSE Blank
    BY DictLemma DEF Get
  <2> QED
    BY <2>1, <2>2, <2>3, DictLemma, GetLemma
<1> QED
  BY <1>1, <1>2, <1>3

LEMMA MergedOthers ==
  ASSUME NEW old, NEW new, ~(IsDict(old) /\ IsDict(new))
  PROVE  /\ Merged1(old, new) = MergedLeaves(old, new)
         /\ Merged2(old, new) = MergedLeaves(old, new)
         /\ Merged3(old, new) = MergedLeaves(old, new)
BY Zenon DEF Merged1, Merged2, Merged3

LEMMA DeepMergeLemma ==
  ASSUME NEW base, NEW over
  PROVE  /\ IsDict(DeepMerge(base, over)) /\ ~IsList(DeepMerge(base, over))
         /\ Keys(DeepMerge(base, over)) = Keys(base) \cup Keys(over)
         /\ \A k : Get(DeepMerge(base, over), k) =
                     IF k \in Keys(over) THEN Merged3(Get(base, k), Get(over, k)) ELSE Get(base, k)
<1> DEFINE f == [k \in Keys(base) \cup Keys(over) |->
                   IF k \in Keys(over) THEN Merged3(Get(base, k), over.dict[k]) ELSE base.dict[k]]
<1>1. DeepMerge(base, over) = Dict(f)
  BY DEF DeepMerge, MergeBy
<1>2. /\ DOMAIN f = Keys(base) \cup Keys(over)
      /\ \A k \in DOMAIN f :
           f[k] = IF k \in Keys(over) THEN Merged3(Get(base, k), over.dict[k]) ELSE base.dict[k]
  OBVIOUS
<1> HIDE DEF f
<1>3. \A k : Get(Dict(f), k) = IF k \in DOMAIN f THEN f[k] ELSE Blank
  BY DictLemma DEF Get
<1> QED
  BY <1>1, <1>2, <1>3, DictLemma, GetLemma

\* A merge is no deeper than what is merged, and it extends its second side.
LEMMA LeafKeptLemma ==
  ASSUME NEW old, NEW new, Formed3(old), Flat(new)
  PROVE  LeafKept(new, new) /\ LeafKept(new, MergedLeaves(old, new))
BY LeavesFormed DEF LeafKept, MergedLeaves, Items

LEMMA KeptDict ==
  ASSUME NEW t, NEW u
  PROVE  /\ IsDict(t) =>
              /\ Kept1(t, u) <=> Keys(t) \subseteq Keys(u) /\ \A k \in Keys(t) : LeafKept(Get(t, k), Get(u, k))
              /\ Kept2(t, u) <=> Keys(t) \subseteq Keys(u) /\ \A k \in Keys(t) : Kept1(Get(t, k), Get(u, k))
              /\ Kept3(t, u) <=> Keys(t) \subseteq Keys(u) /\ \A k \in Keys(t) : Kept2(Get(t, k), Get(u, k))
              /\ ExtendedBy(t, u) <=> Keys(t) \subseteq Keys(u) /\ \A k \in Keys(t) : Kept3(Get(t, k), Get(u, k))
         /\ ~IsDict(t) =>
              /\ Kept1(t, u) <=> LeafKept(t, u)
              /\ Kept2(t, u) <=> LeafKept(t, u)
              /\ Kept3(t, u) <=> LeafKept(t, u)
<1>1. ASSUME IsDict(t), Keys(t) \subseteq Keys(u)
      PROVE  \A k \in Keys(t) : Get(t, k) = t.dict[k] /\ Get(u, k) = u.dict[k]
  BY <1>1, GetLemma
<1>2. CASE IsDict(t)
  <2>1. Kept1(t, u) <=> Keys(t) \subseteq Keys(u) /\ \A k \in Keys(t) : LeafKept(Get(t, k), Get(u, k))
    BY <1>1, <1>2 DEF Kept1, KeptBy
  <2>2. Kept2(t, u) <=> Keys(t) \subseteq Keys(u) /\ \A k \in Keys(t) : Kept1(Get(t, k), Get(u, k))
    BY <1>1, <1>2 DEF Kept2, KeptBy
  <2>3. Kept3(t, u) <=> Keys(t) \subseteq Keys(u) /\ \A k \in Keys(t) : Kept2(Get(t, k), Get(u, k))
    BY <1>1, <1>2 DEF Kept3, KeptBy
  <2>4. ExtendedBy(t, u) <=> Keys(t) \subseteq Keys(u) /\ \A k \in Keys(t) : Kept3(Get(t, k), Get(u, k))
    BY <1>1, <1>2 DEF ExtendedBy, KeptBy
  <2> QED
    BY <1>2, <2>1, <2>2, <2>3, <2>4
<1>3. CASE ~IsDict(t)
  BY <1>3, Zenon DEF Kept1, Kept2, Kept3, KeptBy
<1> QED
  BY <1>2, <1>3

LEMMA Level1Formed ==
  ASSUME NEW old, NEW new, Formed1(old), Formed1(new)
  PROVE  Formed1(Merged1(old, new)) /\ Kept1(new, new) /\ Kept1(new, Merged1(old, new))
<1>1. CASE IsDict(old) /\ IsDict(new)
  <2> DEFINE m == Merged1(old, new)
  <2>1. /\ IsDict(m) /\ ~IsList(m) /\ Keys(m) = Keys(old) \cup Keys(new)
        /\ \A k : Get(m, k) = IF k \in Keys(new) THEN MergedLeaves(Get(old, k), Get(new, k)) ELSE Get(old, k)
    BY <1>1, MergedDicts
  <2> HIDE DEF m
  <2>2. \A k : Flat(Get(old, k)) /\ Flat(Get(new, k)) /\ Formed3(Get(old, k))
    BY FormedGet, FormedMore
  <2>3. \A k : Flat(MergedLeaves(Get(old, k), Get(new, k))) /\ LeafKept(Get(new, k), Get(new, k))
               /\ LeafKept(Get(new, k), MergedLeaves(Get(old, k), Get(new, k)))
    BY <2>2, LeavesFormed, LeafKeptLemma
  <2>4. Formed1(m)
    BY <2>1, <2>2, <2>3, FormedDict
  <2>5. Kept1(new, new) /\ Kept1(new, m)
    BY <1>1, <2>1, <2>3, KeptDict
  <2> QED
    BY <2>4, <2>5 DEF m
<1>2. CASE ~IsDict(old) /\ IsDict(new)
  <2>1. Merged1(old, new) = new
    BY <1>2, MergedOthers, FormedDict DEF MergedLeaves
  <2>2. \A k : LeafKept(Get(new, k), Get(new, k))
    <3>1. \A k : Flat(Get(new, k))
      BY FormedGet
    <3> QED
      BY <3>1, FlatBlank, LeafKeptLemma
  <2>3. Kept1(new, new)
    BY <1>2, <2>2, KeptDict
  <2> QED
    BY <2>1, <2>3
<1>3. CASE ~IsDict(new)
  <2>1. Merged1(old, new) = MergedLeaves(old, new) /\ Formed3(old) /\ Flat(new)
    BY <1>3, MergedOthers, FormedMore, FormedLeaf
  <2>2. Flat(MergedLeaves(old, new)) /\ LeafKept(new, new) /\ LeafKept(new, MergedLeaves(old, new))
    BY <2>1, LeavesFormed, LeafKeptLemma
  <2> QED
    BY <1>3, <2>1, <2>2, KeptDict, FormedMore
<1> QED
  BY <1>1, <1>2, <1>3

LEMMA Level2Formed ==
  ASSUME NEW old, NEW new, Formed2(old), Formed2(new)
  PROVE  Formed2(Merged2(old, new)) /\ Kept2(new, new) /\ Kept2(new, Merged2(old, new))
<1>1. CASE IsDict(old) /\ IsDict(new)
  <2> DEFINE m == Merged2(old, new)
  <2>1. /\ IsDict(m) /\ ~IsList(m) /\ Keys(m) = Keys(old) \cup Keys(new)
        /\ \A k : Get(m, k) = IF k \in Keys(new) THEN Merged1(Get(old, k), Get(new, k)) ELSE Get(old, k)
    BY <1>1, MergedDicts
  <2> HIDE DEF m
  <2>2. \A k : Formed1(Get(old, k)) /\ Formed1(Get(new, k))
    BY FormedGet, FormedMore
  <2>3. \A k : Formed1(Merged1(Get(old, k), Get(new, k))) /\ Kept1(Get(new, k), Get(new, k))
               /\ Kept1(Get(new, k), Merged1(Get(old, k), Get(new, k)))
    BY <2>2, Level1Formed
  <2>4. Formed2(m)
    BY <2>1, <2>2, <2>3, FormedDict
  <2>5. Kept2(new, new) /\ Kept2(new, m)
    BY <1>1, <2>1, <2>3, KeptDict
  <2> QED
    BY <2>4, <2>5 DEF m
<1>2. CASE ~IsDict(old) /\ IsDict(new)
  <2>1. Merged2(old, new) = new
    BY <1>2, MergedOthers, FormedDict DEF MergedLeaves
  <2>2. \A k : Kept1(Get(new, k), Get(new, k))
    <3>1. \A k : Formed1(Get(new, k))
      BY FormedGet
    <3> QED
      BY <3>1, FlatBlank, Level1Formed
  <2>3. Kept2(new, new)
    BY <1>2, <2>2, KeptDict
  <2> QED
    BY <2>1, <2>3
<1>3. CASE ~IsDict(new)
  <2>1. Merged2(old, new) = MergedLeaves(old, new) /\ Formed3(old) /\ Flat(new)
    BY <1>3, MergedOthers, FormedMore, FormedLeaf
  <2>2. Flat(MergedLeaves(old, new)) /\ LeafKept(new, new) /\ LeafKept(new, MergedLeaves(old, new))
    BY <2>1, LeavesFormed, LeafKeptLemma
  <2> QED
    BY <1>3, <2>1, <2>2, KeptDict, FormedMore
<1> QED
  BY <1>1, <1>2, <1>3

LEMMA Level3Formed ==
  ASSUME NEW old, NEW new, Formed3(old), Formed3(new)
  PROVE  Formed3(Merged3(old, new)) /\ Kept3(new, new) /\ Kept3(new, Merged3(old, new))
<1>1. CASE IsDict(old) /\ IsDict(new)
  <2> DEFINE m == Merged3(old, new)
  <2>1. /\ IsDict(m) /\ ~IsList(m) /\ Keys(m) = Keys(old) \cup Keys(new)
        /\ \A k : Get(m, k) = IF k \in Keys(new) THEN Merged2(Get(old, k), Get(new, k)) ELSE Get(old, k)
    BY <1>1, MergedDicts
  <2> HIDE DEF m
  <2>2. \A k : Formed2(Get(old, k)) /\ Formed2(Get(new, k))
    BY FormedGet, FormedMore
  <2>3. \A k : Formed2(Merged2(Get(old, k), Get(new, k))) /\ Kept2(Get(new, k), Get(new, k))
               /\ Kept2(Get(new, k), Merged2(Get(old, k), Get(new, k)))
    BY <2>2, Level2Formed
  <2>4. Formed3(m)
    BY <2>1, <2>2, <2>3, FormedDict
  <2>5. Kept3(new, new) /\ Kept3(new, m)
    BY <1>1, <2>1, <2>3, KeptDict
  <2> QED
    BY <2>4, <2>5 DEF m
<1>2. CASE ~IsDict(old) /\ IsDict(new)
  <2>1. Merged3(old, new) = new
    BY <1>2, MergedOthers, FormedDict DEF MergedLeaves
  <2>2. \A k : Kept2(Get(new, k), Get(new, k))
    <3>1. \A k : Formed2(Get(new, k))
      BY FormedGet
    <3> QED
      BY <3>1, FlatBlank, Level2Formed
  <2>3. Kept3(new, new)
    BY <1>2, <2>2, KeptDict
  <2> QED
    BY <2>1, <2>3
<1>3. CASE ~IsDict(new)
  <2>1. Merged3(old, new) = MergedLeaves(old, new) /\ Formed3(old) /\ Flat(new)
    BY <1>3, MergedOthers, FormedMore, FormedLeaf
  <2>2. Flat(MergedLeaves(old, new)) /\ LeafKept(new, new) /\ LeafKept(new, MergedLeaves(old, new))
    BY <2>1, LeavesFormed, LeafKeptLemma
  <2> QED
    BY <1>3, <2>1, <2>2, KeptDict, FormedMore
<1> QED
  BY <1>1, <1>2, <1>3

\* A merge of parameters is parameters again, and extends its second side.
LEMMA MergeKeeps ==
  ASSUME NEW base, NEW over, Parameters(base), Parameters(over)
  PROVE  Parameters(DeepMerge(base, over)) /\ ExtendedBy(over, DeepMerge(base, over))
<1> DEFINE m == DeepMerge(base, over)
<1>1. /\ IsDict(m) /\ ~IsList(m) /\ Keys(m) = Keys(base) \cup Keys(over)
      /\ \A k : Get(m, k) = IF k \in Keys(over) THEN Merged3(Get(base, k), Get(over, k)) ELSE Get(base, k)
  BY DeepMergeLemma
<1> HIDE DEF m
<1>2. \A k : Formed3(Get(base, k)) /\ Formed3(Get(over, k))
  BY FormedGet
<1>3. \A k : Formed3(Merged3(Get(base, k), Get(over, k))) /\ Kept3(Get(over, k), Merged3(Get(base, k), Get(over, k)))
  BY <1>2, Level3Formed
<1>4. Parameters(m)
  <2>1. IsFiniteSet(Keys(m))
    BY <1>1, ParametersIsDict, FS_Union
  <2> QED
    BY <1>1, <1>2, <1>3, <2>1, FormedDict
<1>5. ExtendedBy(over, m)
  BY <1>1, <1>3, KeptDict, ParametersIsDict
<1> QED
  BY <1>4, <1>5 DEF m

-----------------------------------------------------------------------------
(* Sections: what a dictionary has two keys deep, as parameters.wireguard.  *)
(* interfaces, parameters.zerotier.networks and parameters.salt.id.         *)

\* The items of the list at two keys.
Section(t, k, l) == ToSet(Items(Get(Get(t, k), l)))

\* What a dictionary has at the two keys does not hide the other side's list.
Joins(t, k, l) ==
  k \in Keys(t) => /\ IsDict(Get(t, k))
                   /\ l \in Keys(Get(t, k)) => IsList(Get(Get(t, k), l))

LEMMA NoItems == ASSUME NEW t, ~IsList(t) PROVE ToSet(Items(t)) = {}
BY DEF Items, ToSet

LEMMA Merged2Items ==
  ASSUME NEW old, NEW new, Formed2(old), Formed2(new)
  PROVE  ToSet(Items(Merged2(old, new))) =
           IF IsList(new) THEN ToSet(Items(old)) \cup ToSet(Items(new)) ELSE {}
<1>1. CASE IsList(new)
  <2>1. ~IsDict(new) /\ Flat(new) /\ Formed3(old)
    BY <1>1, FormedItems, FormedMore
  <2>2. Merged2(old, new) = MergedLeaves(old, new)
    BY <2>1, MergedOthers
  <2>3. CASE IsList(old)
    <3> DEFINE X == ToSet(Items(old)) \cup ToSet(Items(new))
    <3>1. old.list \in Seq(X) /\ new.list \in Seq(X) /\ old.list = Items(old) /\ new.list = Items(new)
      BY <1>1, <2>1, <2>3, FormedItems, FormedMore, SeqOfMore
    <3> HIDE DEF X
    <3>2. MergedLeaves(old, new) = List(Union(Items(old), Items(new)))
      BY <1>1, <2>3, <3>1 DEF MergedLeaves
    <3> QED
      BY <1>1, <2>2, <3>1, <3>2, UnionItems, ListLemma
  <2>4. CASE ~IsList(old)
    <3>1. MergedLeaves(old, new) = new
      BY <2>4 DEF MergedLeaves
    <3> QED
      BY <1>1, <2>2, <2>4, <3>1, NoItems
  <2> QED
    BY <2>3, <2>4
<1>2. CASE ~IsList(new)
  <2>1. ~IsList(Merged2(old, new))
    BY <1>2, MergedDicts, MergedOthers DEF MergedLeaves
  <2> QED
    BY <1>2, <2>1, NoItems
<1> QED
  BY <1>1, <1>2

\* A merge has at two keys the items of both sides, or none where the second side
\* has something else there.
LEMMA MergeSection ==
  ASSUME NEW a, NEW b, NEW k, NEW l, Parameters(a), Parameters(b)
  PROVE  Section(DeepMerge(a, b), k, l) =
           IF Joins(b, k, l) THEN Section(a, k, l) \cup Section(b, k, l) ELSE {}
<1> DEFINE x == Get(a, k)
           y == Get(b, k)
<1>1. Formed3(x) /\ Formed3(y) /\ Formed2(Get(x, l)) /\ Formed2(Get(y, l))
  BY FormedGet
<1>2. CASE k \notin Keys(b)
  <2>1. Get(DeepMerge(a, b), k) = Get(a, k) /\ Get(b, k) = Blank
    BY <1>2, DeepMergeLemma, GetLemma
  <2>2. ~IsList(Get(Blank, l))
    BY BlankLemma, GetLemma
  <2> QED
    BY <1>2, <2>1, <2>2, NoItems DEF Joins, Section
<1>3. CASE k \in Keys(b)
  <2>1. Get(DeepMerge(a, b), k) = Merged3(x, y)
    BY <1>3, DeepMergeLemma
  <2> HIDE DEF x, y
  <2>2. CASE IsDict(x) /\ IsDict(y)
    <3>1. Get(Merged3(x, y), l) = IF l \in Keys(y) THEN Merged2(Get(x, l), Get(y, l)) ELSE Get(x, l)
      BY <2>2, MergedDicts
    <3>2. l \notin Keys(y) => ToSet(Items(Get(y, l))) = {}
      BY GetLemma, BlankLemma, NoItems
    <3>3. ToSet(Items(Get(Merged3(x, y), l))) =
            IF l \in Keys(y) => IsList(Get(y, l))
            THEN ToSet(Items(Get(x, l))) \cup ToSet(Items(Get(y, l))) ELSE {}
      BY <1>1, <3>1, <3>2, Merged2Items
    <3> QED
      BY <1>3, <2>1, <2>2, <3>3 DEF Joins, Section, x, y
  <2>3. CASE IsDict(y) /\ ~IsDict(x)
    <3>1. Merged3(x, y) = y
      BY <1>1, <2>3, MergedOthers, FormedDict DEF MergedLeaves
    <3>2. ToSet(Items(Get(x, l))) = {}
      BY <2>3, GetLemma, BlankLemma, NoItems
    <3>3. ToSet(Items(Get(y, l))) =
            IF l \in Keys(y) => IsList(Get(y, l)) THEN ToSet(Items(Get(y, l))) ELSE {}
      BY NoItems
    <3> QED
      BY <1>3, <2>1, <2>3, <3>1, <3>2, <3>3 DEF Joins, Section, x, y
  <2>4. CASE ~IsDict(y)
    <3>1. ~IsDict(Merged3(x, y))
      BY <2>4, MergedOthers, ListLemma DEF MergedLeaves
    <3>2. ToSet(Items(Get(Merged3(x, y), l))) = {}
      BY <3>1, GetLemma, BlankLemma, NoItems
    <3> QED
      BY <1>3, <2>1, <2>4, <3>2 DEF Joins, Section, x, y
  <2> QED
    BY <2>2, <2>3, <2>4
<1> QED
  BY <1>2, <1>3

\* The items at two keys are there under a merge, whatever it is merged over.
LEMMA SectionKept ==
  ASSUME NEW a, NEW b, NEW k, NEW l, Parameters(a), Parameters(b)
  PROVE  Section(b, k, l) \subseteq Section(DeepMerge(a, b), k, l)
<1>1. ~Joins(b, k, l) => Section(b, k, l) = {}
  <2>1. ~IsDict(Get(b, k)) => Section(b, k, l) = {}
    BY GetLemma, BlankLemma, NoItems DEF Section
  <2>2. ~IsList(Get(Get(b, k), l)) => Section(b, k, l) = {}
    BY NoItems DEF Section
  <2> QED
    BY <2>1, <2>2 DEF Joins
<1> QED
  BY <1>1, MergeSection

\* A scalar at two keys overrides; nothing there leaves nothing.
LEMMA MergeScalar ==
  ASSUME NEW a, NEW b, NEW k, NEW l, Parameters(a), Parameters(b), IsScalar(Get(Get(b, k), l))
  PROVE  LET pinned == Get(Get(b, k), l)
             merged == Get(Get(DeepMerge(a, b), k), l)
         IN /\ pinned # Blank => merged = pinned
            /\ pinned = Blank /\ Get(Get(a, k), l) = Blank => merged = Blank
<1> DEFINE x == Get(a, k)
           y == Get(b, k)
<1>1. CASE k \notin Keys(b)
  <2>1. Get(DeepMerge(a, b), k) = Get(a, k) /\ Get(b, k) = Blank
    BY <1>1, DeepMergeLemma, GetLemma
  <2>2. Get(Blank, l) = Blank
    BY BlankLemma, GetLemma
  <2> QED
    BY <1>1, <2>1, <2>2
<1>2. CASE k \in Keys(b)
  <2>1. Get(DeepMerge(a, b), k) = Merged3(x, y)
    BY <1>2, DeepMergeLemma
  <2>2. Formed3(x) /\ Formed3(y)
    BY FormedGet
  <2> HIDE DEF x, y
  <2>3. CASE IsDict(x) /\ IsDict(y)
    <3>1. Get(Merged3(x, y), l) = IF l \in Keys(y) THEN Merged2(Get(x, l), Get(y, l)) ELSE Get(x, l)
      BY <2>3, MergedDicts
    <3>2. l \in Keys(y) => Merged2(Get(x, l), Get(y, l)) = Get(y, l)
      BY MergedOthers, OneTag DEF MergedLeaves, y
    <3>3. l \notin Keys(y) => Get(y, l) = Blank
      BY GetLemma
    <3> QED
      BY <2>1, <3>1, <3>2, <3>3 DEF x, y
  <2>4. CASE IsDict(y) /\ ~IsDict(x)
    <3>1. Merged3(x, y) = y
      BY <2>2, <2>4, MergedOthers, FormedDict DEF MergedLeaves
    <3> QED
      BY <2>1, <3>1 DEF x, y
  <2>5. CASE ~IsDict(y)
    <3>1. ~IsDict(Merged3(x, y))
      BY <2>5, MergedOthers, ListLemma DEF MergedLeaves
    <3>2. Get(Merged3(x, y), l) = Blank /\ Get(y, l) = Blank
      BY <2>5, <3>1, GetLemma
    <3> QED
      BY <2>1, <3>2 DEF x, y
  <2> QED
    BY <2>3, <2>4, <2>5
<1> QED
  BY <1>1, <1>2

-----------------------------------------------------------------------------
(* The layers of a device: what each adds is under a key of its own. *)

\* A layer of one key.
LEMMA LayerFormed ==
  ASSUME NEW k, NEW f, \A x \in DOMAIN f : Flat(f[x]), NEW t, IsDict(t), Keys(t) = {k}, Get(t, k) = Dict(f)
  PROVE  Parameters(t)
<1>1. Formed1(Dict(f))
  <2>1. \A x \in DOMAIN f : Get(Dict(f), x) = f[x]
    BY DictLemma, GetLemma
  <2> QED
    BY <2>1, DictLemma, FormedDict
<1> QED
  <2>1. IsFiniteSet({k})
    BY FS_Singleton, Zenon
  <2> QED
    BY <1>1, <2>1, FormedDict, FormedMore

LEMMA ScalarFlat == ASSUME NEW v PROVE Flat(Scalar(v))
BY Zenon, ScalarLemma, FlatScalar

LEMMA DeviceFormed ==
  ASSUME NEW target
  PROVE  Parameters(Device(target)) /\ Keys(Device(target)) = {"device"}
<1> DEFINE f == [target |-> Scalar(target)]
           g == [device |-> Dict(f)]
<1>1. DOMAIN f = {"target"} /\ f.target = Scalar(target)
  OBVIOUS
<1>2. DOMAIN g = {"device"} /\ g.device = Dict(f)
  OBVIOUS
<1>3. Device(target) = Dict(g)
  BY DEF Device
<1> HIDE DEF f, g
<1>4. IsDict(Dict(g)) /\ Keys(Dict(g)) = {"device"} /\ Get(Dict(g), "device") = Dict(f)
  BY <1>2, DictLemma DEF Get
<1> QED
  BY <1>1, <1>3, <1>4, LayerFormed, ScalarFlat

Options(h, m) == Dict([options |-> Dict([hostname |-> Scalar(h), minion_id |-> Scalar(m)])])

LEMMA OptionsFormed ==
  ASSUME NEW h, NEW m
  PROVE  Parameters(Options(h, m)) /\ Keys(Options(h, m)) = {"options"}
<1> DEFINE f == [hostname |-> Scalar(h), minion_id |-> Scalar(m)]
           g == [options |-> Dict(f)]
<1>1. \A x \in DOMAIN f : Flat(f[x])
  BY ScalarFlat
<1>2. DOMAIN g = {"options"} /\ g.options = Dict(f)
  OBVIOUS
<1>3. Options(h, m) = Dict(g)
  BY DEF Options
<1> HIDE DEF f, g
<1>4. IsDict(Dict(g)) /\ Keys(Dict(g)) = {"options"} /\ Get(Dict(g), "options") = Dict(f)
  BY <1>2, DictLemma DEF Get
<1> QED
  BY <1>1, <1>3, <1>4, LayerFormed

Stamp(n, c) == Dict([osbakery |-> Dict([node |-> n, cluster |-> c])])

LEMMA StampFormed ==
  ASSUME NEW n, NEW c, Flat(n), Flat(c)
  PROVE  Parameters(Stamp(n, c)) /\ Keys(Stamp(n, c)) = {"osbakery"}
<1> DEFINE f == [node |-> n, cluster |-> c]
           g == [osbakery |-> Dict(f)]
<1>1. \A x \in DOMAIN f : Flat(f[x])
  OBVIOUS
<1>2. DOMAIN g = {"osbakery"} /\ g.osbakery = Dict(f)
  OBVIOUS
<1>3. Stamp(n, c) = Dict(g)
  BY DEF Stamp
<1> HIDE DEF f, g
<1>4. IsDict(Dict(g)) /\ Keys(Dict(g)) = {"osbakery"} /\ Get(Dict(g), "osbakery") = Dict(f)
  BY <1>2, DictLemma DEF Get
<1> QED
  BY <1>1, <1>3, <1>4, LayerFormed

SaltLayer(id) == Dict([salt |-> Dict([id |-> Scalar(id)])])

LEMMA SaltLayerFormed ==
  ASSUME NEW id
  PROVE  /\ Parameters(SaltLayer(id)) /\ Keys(SaltLayer(id)) = {"salt"}
         /\ Get(Get(SaltLayer(id), "salt"), "id") = Scalar(id)
<1> DEFINE f == [id |-> Scalar(id)]
           g == [salt |-> Dict(f)]
<1>1. DOMAIN f = {"id"} /\ f.id = Scalar(id)
  OBVIOUS
<1>2. DOMAIN g = {"salt"} /\ g.salt = Dict(f)
  OBVIOUS
<1>3. SaltLayer(id) = Dict(g)
  BY DEF SaltLayer
<1> HIDE DEF f, g
<1>4. /\ IsDict(Dict(g)) /\ Keys(Dict(g)) = {"salt"} /\ Get(Dict(g), "salt") = Dict(f)
      /\ Get(Dict(f), "id") = Scalar(id)
  BY <1>1, <1>2, DictLemma DEF Get
<1> QED
  BY <1>1, <1>3, <1>4, LayerFormed, ScalarFlat

InstanceLayer(label) == Dict([alloy |-> Dict([labels |-> Dict([instance |-> Scalar(label)])])])

LEMMA InstanceLayerFormed ==
  ASSUME NEW label
  PROVE  Parameters(InstanceLayer(label)) /\ Keys(InstanceLayer(label)) = {"alloy"}
<1> DEFINE e == [instance |-> Scalar(label)]
           f == [labels |-> Dict(e)]
           g == [alloy |-> Dict(f)]
<1>1. DOMAIN e = {"instance"} /\ e.instance = Scalar(label)
  OBVIOUS
<1>2. DOMAIN f = {"labels"} /\ f.labels = Dict(e)
  OBVIOUS
<1>3. DOMAIN g = {"alloy"} /\ g.alloy = Dict(f)
  OBVIOUS
<1>4. InstanceLayer(label) = Dict(g)
  BY DEF InstanceLayer
<1> HIDE DEF e, f, g
<1>5. IsDict(Dict(g)) /\ Keys(Dict(g)) = {"alloy"} /\ Get(Dict(g), "alloy") = Dict(f)
  BY <1>3, DictLemma DEF Get
<1>6. IsDict(Dict(f)) /\ Keys(Dict(f)) = {"labels"} /\ Get(Dict(f), "labels") = Dict(e)
  BY <1>2, DictLemma DEF Get
<1>7. IsDict(Dict(e)) /\ Keys(Dict(e)) = {"instance"} /\ Get(Dict(e), "instance") = Scalar(label)
  BY <1>1, DictLemma DEF Get
<1>8. Formed1(Dict(e))
  BY <1>7, FormedDict, ScalarFlat
<1>9. Formed3(Dict(f))
  BY <1>6, <1>8, FormedDict, FormedMore
<1> QED
  <2>1. IsFiniteSet({"alloy"})
    BY FS_Singleton, Zenon
  <2> QED
    BY <1>4, <1>5, <1>9, <2>1, FormedDict

\* The salt id: what is pinned stays, else the one of the node is set.
LEMMA WithSaltIdLemma ==
  ASSUME NEW m, NEW id, Parameters(m)
  PROVE  /\ Parameters(WithSaltId(m, id))
         /\ \A k : k # "salt" => /\ Get(WithSaltId(m, id), k) = Get(m, k)
                                 /\ k \in Keys(WithSaltId(m, id)) <=> k \in Keys(m)
         /\ LET old == Get(Get(m, "salt"), "id") new == Get(Get(WithSaltId(m, id), "salt"), "id") IN
            /\ old # Blank => new = old
            /\ old = Blank /\ id # Unset => new = Scalar(id)
<1>1. CASE id = Unset \/ Get(Get(m, "salt"), "id") # Blank
  <2>1. WithSaltId(m, id) = m
    BY <1>1 DEF WithSaltId
  <2> QED
    BY <1>1, <2>1
<1>2. CASE ~(id = Unset \/ Get(Get(m, "salt"), "id") # Blank)
  <2>1. WithSaltId(m, id) = DeepMerge(m, SaltLayer(id))
    BY <1>2 DEF WithSaltId, SaltLayer
  <2>2. IsScalar(Scalar(id)) /\ Scalar(id) # Blank
    BY <1>2, ScalarLemma, ScalarSame DEF Blank
  <2>3. Get(Get(DeepMerge(m, SaltLayer(id)), "salt"), "id") = Scalar(id)
    BY <2>2, SaltLayerFormed, MergeScalar
  <2>4. Parameters(DeepMerge(m, SaltLayer(id)))
    BY SaltLayerFormed, MergeKeeps
  <2>5. \A k : k # "salt" => /\ Get(DeepMerge(m, SaltLayer(id)), k) = Get(m, k)
                             /\ k \in Keys(DeepMerge(m, SaltLayer(id))) <=> k \in Keys(m)
    BY SaltLayerFormed, DeepMergeLemma
  <2> QED
    BY <1>2, <2>1, <2>3, <2>4, <2>5
<1> QED
  BY <1>1, <1>2

LEMMA WithInstanceLemma ==
  ASSUME NEW m, NEW label, Parameters(m)
  PROVE  /\ Parameters(WithInstance(m, label))
         /\ \A k : k # "alloy" => /\ Get(WithInstance(m, label), k) = Get(m, k)
                                  /\ k \in Keys(WithInstance(m, label)) <=> k \in Keys(m)
<1>1. WithInstance(m, label) \in {m, DeepMerge(m, InstanceLayer(label))}
  BY Zenon DEF WithInstance, InstanceLayer
<1>2. Parameters(DeepMerge(m, InstanceLayer(label)))
  BY InstanceLayerFormed, MergeKeeps
<1>3. \A k : k # "alloy" => /\ Get(DeepMerge(m, InstanceLayer(label)), k) = Get(m, k)
                            /\ k \in Keys(DeepMerge(m, InstanceLayer(label))) <=> k \in Keys(m)
  BY InstanceLayerFormed, DeepMergeLemma
<1> QED
  BY <1>1, <1>2, <1>3

-----------------------------------------------------------------------------
(* Two models with the same pillar. *)

SamePillar(m1, m2) ==
  \A k : k \notin NonPillarKeys => (k \in Keys(m1) <=> k \in Keys(m2)) /\ Get(m1, k) = Get(m2, k)

LEMMA SamePillarMerge ==
  ASSUME NEW m1, NEW m2, SamePillar(m1, m2), NEW over
  PROVE  SamePillar(DeepMerge(m1, over), DeepMerge(m2, over))
BY DeepMergeLemma DEF SamePillar

\* A layer under keys the pillar leaves out.
LEMMA SamePillarLayer ==
  ASSUME NEW m1, NEW m2, SamePillar(m1, m2), NEW o1, NEW o2,
         Keys(o1) \subseteq NonPillarKeys, Keys(o2) \subseteq NonPillarKeys
  PROVE  SamePillar(DeepMerge(m1, o1), DeepMerge(m2, o2))
BY DeepMergeLemma DEF SamePillar

LEMMA SamePillarWith ==
  ASSUME NEW m1, NEW m2, SamePillar(m1, m2), NEW k, NEW v
  PROVE  SamePillar(With(m1, k, v), With(m2, k, v))
BY WithLemma DEF SamePillar

LEMMA SamePillarSaltId ==
  ASSUME NEW m1, NEW m2, SamePillar(m1, m2), NEW id
  PROVE  SamePillar(WithSaltId(m1, id), WithSaltId(m2, id))
<1>1. Get(m1, "salt") = Get(m2, "salt")
  BY DEF SamePillar, NonPillarKeys
<1>2. SamePillar(DeepMerge(m1, SaltLayer(id)), DeepMerge(m2, SaltLayer(id)))
  BY SamePillarMerge
<1>3. CASE id = Unset \/ Get(Get(m1, "salt"), "id") # Blank
  BY <1>1, <1>3, Zenon DEF WithSaltId
<1>4. CASE ~(id = Unset \/ Get(Get(m1, "salt"), "id") # Blank)
  <2>1. WithSaltId(m1, id) = DeepMerge(m1, SaltLayer(id)) /\ WithSaltId(m2, id) = DeepMerge(m2, SaltLayer(id))
    BY <1>1, <1>4 DEF WithSaltId, SaltLayer
  <2> QED
    BY <1>2, <2>1
<1> QED
  BY <1>3, <1>4

LEMMA SamePillarInstance ==
  ASSUME NEW m1, NEW m2, SamePillar(m1, m2), NEW label
  PROVE  SamePillar(WithInstance(m1, label), WithInstance(m2, label))
<1> DEFINE Labelled(m) ==
             \/ label = Unset \/ ~IsDict(Get(m, "alloy"))
             \/ Get(Get(Get(m, "alloy"), "labels"), "instance") # Blank
<1>1. Get(m1, "alloy") = Get(m2, "alloy")
  BY DEF SamePillar, NonPillarKeys
<1>2. SamePillar(DeepMerge(m1, InstanceLayer(label)), DeepMerge(m2, InstanceLayer(label)))
  BY SamePillarMerge
<1>3. ASSUME NEW m
      PROVE  WithInstance(m, label) = IF Labelled(m) THEN m ELSE DeepMerge(m, InstanceLayer(label))
  BY Zenon DEF WithInstance, InstanceLayer
<1>4. Labelled(m1) <=> Labelled(m2)
  BY <1>1
<1> HIDE DEF Labelled
<1> QED
  BY <1>2, <1>3, <1>4

LEMMA SamePillarSplice ==
  ASSUME NEW m1, NEW m2, SamePillar(m1, m2), NEW members, NEW keys
  PROVE  /\ SamePillar(SpliceZerotier(m1, members), SpliceZerotier(m2, members))
         /\ SamePillar(SpliceWireguard(m1, keys), SpliceWireguard(m2, keys))
<1>1. Get(m1, "zerotier") = Get(m2, "zerotier") /\ Get(m1, "wireguard") = Get(m2, "wireguard")
  BY DEF SamePillar, NonPillarKeys
<1> DEFINE zt == Get(m1, "zerotier")
           nets == Get(zt, "networks")
           zt2 == With(zt, "networks",
                    List([i \in DOMAIN nets.list |->
                       IF IsDict(nets.list[i]) THEN SpliceNetwork(nets.list[i], members) ELSE nets.list[i]]))
           wg == Get(m1, "wireguard")
           ifaces == Get(wg, "interfaces")
           wg2 == With(wg, "interfaces",
                    List([i \in DOMAIN ifaces.list |->
                       IF IsDict(ifaces.list[i]) THEN SpliceInterface(ifaces.list[i], keys) ELSE ifaces.list[i]]))
<1>2. ASSUME NEW m, Get(m, "zerotier") = zt
      PROVE  SpliceZerotier(m, members) = IF IsList(nets) THEN With(m, "zerotier", zt2) ELSE m
  BY <1>2, Zenon DEF SpliceZerotier
<1>3. ASSUME NEW m, Get(m, "wireguard") = wg
      PROVE  SpliceWireguard(m, keys) = IF IsList(ifaces) THEN With(m, "wireguard", wg2) ELSE m
  BY <1>3, Zenon DEF SpliceWireguard
<1>4. /\ SamePillar(With(m1, "zerotier", zt2), With(m2, "zerotier", zt2))
      /\ SamePillar(With(m1, "wireguard", wg2), With(m2, "wireguard", wg2))
  BY SamePillarWith
<1> HIDE DEF zt2, wg2, nets, ifaces
<1>5. SamePillar(SpliceZerotier(m1, members), SpliceZerotier(m2, members))
  BY <1>1, <1>2, <1>4
<1>6. SamePillar(SpliceWireguard(m1, keys), SpliceWireguard(m2, keys))
  BY <1>1, <1>3, <1>4
<1> QED
  BY <1>5, <1>6

LEMMA SamePillarIs ==
  ASSUME NEW m1, NEW m2, SamePillar(m1, m2)
  PROVE  Pillar(m1) = Pillar(m2)
<1> DEFINE f(m) == [k \in Keys(m) \cap (Keys(m) \ NonPillarKeys) |-> m.dict[k]]
<1>1. Keys(m1) \ NonPillarKeys = Keys(m2) \ NonPillarKeys
  BY DEF SamePillar
<1>2. \A k \in Keys(m1) \ NonPillarKeys : m1.dict[k] = m2.dict[k]
  BY <1>1, GetLemma DEF SamePillar
<1>3. f(m1) = f(m2)
  BY <1>1, <1>2
<1> QED
  BY <1>3, Zenon DEF Pillar, Only

-----------------------------------------------------------------------------
(* The identities spliced into a model. *)

LEMMA WithFormed ==
  ASSUME NEW t, NEW k, NEW v
  PROVE  /\ Formed3(t) /\ Formed2(v) => Formed3(With(t, k, v))
         /\ Parameters(t) /\ Formed3(v) => Parameters(With(t, k, v))
<1> DEFINE w == With(t, k, v)
<1>1. IsDict(w) /\ Keys(w) = Keys(t) \cup {k} /\ Get(w, k) = v /\ \A x : x # k => Get(w, x) = Get(t, x)
  BY WithLemma
<1> HIDE DEF w
<1>2. ASSUME Formed3(t), Formed2(v) PROVE Formed3(w)
  BY <1>1, <1>2, FormedGet, FormedDict
<1>3. ASSUME Parameters(t), Formed3(v) PROVE Parameters(w)
  BY <1>1, <1>3, FormedGet, FormedDict, ParametersIsDict, FS_AddElement
<1> QED
  BY <1>2, <1>3 DEF w


LEMMA SpliceZerotierLemma ==
  ASSUME NEW m, NEW members, Parameters(m)
  PROVE  /\ Parameters(SpliceZerotier(m, members))
         /\ \A k : k # "zerotier" => /\ Get(SpliceZerotier(m, members), k) = Get(m, k)
                                     /\ k \in Keys(SpliceZerotier(m, members)) <=> k \in Keys(m)
         /\ Section(SpliceZerotier(m, members), "zerotier", "networks") =
              {IF IsDict(e) THEN SpliceNetwork(e, members) ELSE e : e \in Section(m, "zerotier", "networks")}
<1> DEFINE zt == Get(m, "zerotier")
           nets == Get(zt, "networks")
           new == [i \in DOMAIN nets.list |->
                     IF IsDict(nets.list[i]) THEN SpliceNetwork(nets.list[i], members) ELSE nets.list[i]]
           zt2 == With(zt, "networks", List(new))
           spliced == SpliceZerotier(m, members)
<1>1. spliced = IF IsList(nets) THEN With(m, "zerotier", zt2) ELSE m
  BY Zenon DEF SpliceZerotier
<1>2. CASE ~IsList(nets)
  <2>1. Section(m, "zerotier", "networks") = {}
    BY <1>2, NoItems DEF Section
  <2> QED
    BY <1>1, <1>2, <2>1
<1>3. CASE IsList(nets)
  <2>1. Formed3(zt) /\ Formed2(nets)
    BY FormedGet
  <2>2. nets.list = Items(nets) /\ nets.list \in Seq(ToSet(nets.list))
    BY <1>3, <2>1, FormedItems, FormedMore
  <2>3. /\ DOMAIN new = DOMAIN nets.list
        /\ \A i \in DOMAIN new :
             new[i] = IF IsDict(nets.list[i]) THEN SpliceNetwork(nets.list[i], members) ELSE nets.list[i]
        /\ new = [i \in DOMAIN nets.list |-> new[i]]
    OBVIOUS
  <2> HIDE DEF new, nets
  <2>4. new \in Seq(ToSet(new))
    BY <2>2, <2>3 DEF ToSet
  <2>5. Formed2(List(new))
    BY <2>4, FlatList, FormedMore
  <2>6. Parameters(With(m, "zerotier", zt2))
    BY <2>1, <2>5, WithFormed
  <2>7. \A k : k # "zerotier" => /\ Get(With(m, "zerotier", zt2), k) = Get(m, k)
                                 /\ k \in Keys(With(m, "zerotier", zt2)) <=> k \in Keys(m)
    BY WithLemma
  <2>8. Items(Get(Get(With(m, "zerotier", zt2), "zerotier"), "networks")) = new
    BY WithLemma, ListLemma
  <2>9. ToSet(new) = {IF IsDict(e) THEN SpliceNetwork(e, members) ELSE e : e \in ToSet(nets.list)}
    BY <2>3 DEF ToSet
  <2>10. Section(m, "zerotier", "networks") = ToSet(nets.list)
    BY <2>2 DEF Section, nets
  <2>11. Section(With(m, "zerotier", zt2), "zerotier", "networks") = ToSet(new)
    BY <2>8 DEF Section
  <2> QED
    BY <1>1, <1>3, <2>6, <2>7, <2>9, <2>10, <2>11
<1> QED
  BY <1>2, <1>3

LEMMA SpliceWireguardLemma ==
  ASSUME NEW m, NEW keys, Parameters(m)
  PROVE  /\ Parameters(SpliceWireguard(m, keys))
         /\ \A k : k # "wireguard" => /\ Get(SpliceWireguard(m, keys), k) = Get(m, k)
                                      /\ k \in Keys(SpliceWireguard(m, keys)) <=> k \in Keys(m)
<1> DEFINE wg == Get(m, "wireguard")
           ifaces == Get(wg, "interfaces")
           new == [i \in DOMAIN ifaces.list |->
                     IF IsDict(ifaces.list[i]) THEN SpliceInterface(ifaces.list[i], keys) ELSE ifaces.list[i]]
           wg2 == With(wg, "interfaces", List(new))
<1>1. SpliceWireguard(m, keys) = IF IsList(ifaces) THEN With(m, "wireguard", wg2) ELSE m
  BY Zenon DEF SpliceWireguard
<1>2. CASE ~IsList(ifaces)
  BY <1>1, <1>2
<1>3. CASE IsList(ifaces)
  <2>1. Formed3(wg) /\ Formed2(ifaces)
    BY FormedGet
  <2>2. ifaces.list \in Seq(ToSet(ifaces.list))
    BY <1>3, <2>1, FormedItems, FormedMore
  <2>3. DOMAIN new = DOMAIN ifaces.list /\ new = [i \in DOMAIN ifaces.list |-> new[i]]
    OBVIOUS
  <2> HIDE DEF new, ifaces
  <2>4. new \in Seq(ToSet(new))
    BY <2>2, <2>3 DEF ToSet
  <2>5. Formed2(List(new))
    BY <2>4, FlatList, FormedMore
  <2>6. Parameters(With(m, "wireguard", wg2))
    BY <2>1, <2>5, WithFormed
  <2>7. \A k : k # "wireguard" => /\ Get(With(m, "wireguard", wg2), k) = Get(m, k)
                                  /\ k \in Keys(With(m, "wireguard", wg2)) <=> k \in Keys(m)
    BY WithLemma
  <2> QED
    BY <1>1, <1>3, <2>6, <2>7
<1> QED
  BY <1>2, <1>3

\* An entry that names a network by either name is spliced under the current one,
\* with the identity there is.
LEMMA SpliceNetworkLemma ==
  ASSUME NEW e, NEW members
  PROVE  LET s == SpliceNetwork(e, members) m == Stored(members, NetworkId(e)) IN
         /\ Get(s, "network_id") = NetworkId(e)
         /\ m # 0 => Get(s, "member_id") = Member(m) /\ Get(s, "secret_key") = Secret(m)
<1> DEFINE nid   == NetworkId(e)
           label == GetOr(e, "network_name", "name")
           m     == Stored(members, nid)
           rest  == Keys(e) \ (Popped(e, "network_id", "network")
                                 \cup Popped(e, "network_name", "name") \cup {"id"})
           ids   == IF nid = Blank THEN <<>> ELSE [x \in {"network_id"} |-> nid]
           labels == IF label = Blank THEN <<>> ELSE [x \in {"network_name"} |-> label]
           known == [member_id |-> Member(m), public_key |-> Member(m), secret_key |-> Secret(m)]
           keys  == IF m = 0 THEN <<>> ELSE known
           others == Only(e, rest).dict
           f == Over(ids, Over(labels, Over(keys, others)))
<1>1. SpliceNetwork(e, members) = Dict(f)
  BY Zenon DEF SpliceNetwork
<1>2. "network_id" \notin rest
  BY DEF Popped
<1>3. DOMAIN others \subseteq rest
  <2>1. others = [k \in Keys(e) \cap rest |-> e.dict[k]]
    BY DictLemma DEF Only
  <2> QED
    BY <2>1
<1>4. DOMAIN labels \subseteq {"network_name"} /\ DOMAIN <<>> = {}
  OBVIOUS
<1>5. IF nid = Blank THEN DOMAIN ids = {} ELSE DOMAIN ids = {"network_id"} /\ ids["network_id"] = nid
  OBVIOUS
<1>6. /\ DOMAIN known = {"member_id", "public_key", "secret_key"}
      /\ known["member_id"] = Member(m) /\ known["secret_key"] = Secret(m)
  OBVIOUS
<1>7. \A x : Get(Dict(f), x) = IF x \in DOMAIN f THEN f[x] ELSE Blank
  BY DictLemma DEF Get
<1> DEFINE low == Over(keys, others)
           mid == Over(labels, low)
<1>8. f = Over(ids, mid)
  OBVIOUS
<1> HIDE DEF ids, labels, known, others, rest, f, nid, m
<1>9. DOMAIN keys \subseteq {"member_id", "public_key", "secret_key"}
  BY <1>4, <1>6
<1>10. m # 0 => keys = known
  OBVIOUS
<1> HIDE DEF keys
<1>11. /\ DOMAIN low \subseteq DOMAIN keys \cup rest
       /\ \A x \in DOMAIN keys : x \in DOMAIN low /\ low[x] = keys[x]
  BY <1>3, OverLemma
<1> HIDE DEF low
<1>12. /\ DOMAIN mid \subseteq DOMAIN labels \cup DOMAIN low
       /\ \A x \in DOMAIN low \ DOMAIN labels : x \in DOMAIN mid /\ mid[x] = low[x]
  <2>1. /\ DOMAIN mid = DOMAIN labels \cup DOMAIN low
        /\ \A x \in DOMAIN low \ DOMAIN labels : mid[x] = low[x]
    BY OverLemma, Zenon
  <2> HIDE DEF mid
  <2> QED
    BY <2>1
<1> HIDE DEF mid
<1>13. /\ DOMAIN f = DOMAIN ids \cup DOMAIN mid
       /\ \A x \in DOMAIN ids : f[x] = ids[x]
       /\ \A x \in DOMAIN mid \ DOMAIN ids : f[x] = mid[x]
  <2>1. DOMAIN Over(ids, mid) = DOMAIN ids \cup DOMAIN mid
    BY OverLemma, Zenon
  <2>2. \A x \in DOMAIN ids : Over(ids, mid)[x] = ids[x]
    BY OverLemma, Zenon
  <2>3. \A x \in DOMAIN mid \ DOMAIN ids : Over(ids, mid)[x] = mid[x]
    BY OverLemma, Zenon
  <2> QED
    BY <1>8, <2>1, <2>2, <2>3
<1>14. "network_id" \notin DOMAIN mid
  BY <1>2, <1>4, <1>9, <1>11, <1>12
<1>15. Get(Dict(f), "network_id") = nid
  BY <1>5, <1>7, <1>13, <1>14
<1>16. ASSUME m # 0, NEW x \in {"member_id", "secret_key"}
       PROVE  Get(Dict(f), x) = known[x]
  <2>1. x \in DOMAIN low /\ low[x] = known[x]
    BY <1>16, <1>6, <1>10, <1>11
  <2>2. x \in DOMAIN mid /\ mid[x] = known[x]
    BY <2>1, <1>4, <1>12
  <2>3. x \notin DOMAIN ids
    BY <1>5
  <2> QED
    BY <2>2, <2>3, <1>7, <1>13
<1> QED
  BY <1>1, <1>15, <1>16, <1>6 DEF nid, m

-----------------------------------------------------------------------------
(* The model of a node, step by step. *)

Layered(overrides, target, c, n) ==
  DeepMerge(DeepMerge(DeepMerge(DeepMerge(Empty, overrides), Device(target)), c.params), n.params)
Named(model, h, m, salt, label) ==
  WithInstance(WithSaltId(DeepMerge(model, Options(h, m)), salt), label)
Spliced(model, stamp, members, keys) ==
  SpliceWireguard(SpliceZerotier(DeepMerge(model, stamp), members), keys)

LEMMA NodeModelIs ==
  ASSUME NEW overrides, NEW c, NEW n, NEW members, NEW keys
  PROVE  NodeModel(overrides, c, n, members, keys) =
           Spliced(Named(Layered(overrides, n.target, c, n), MinionId(n), n.slug, n.slug, MinionId(n)),
                   Stamp(Scalar(n.slug), Scalar(c.slug)), members, keys)
BY Zenon DEF NodeModel, Layered, Named, Spliced, Options, Stamp

LEMMA EmptyFormed == Parameters(Empty)
BY EmptyLemma, FormedDict, FS_EmptySet

LEMMA LayeredFormed ==
  ASSUME NEW overrides, NEW target, NEW c, NEW n,
         Parameters(overrides), Parameters(c.params), Parameters(n.params)
  PROVE  Parameters(Layered(overrides, target, c, n))
<1>1. Parameters(DeepMerge(Empty, overrides))
  BY EmptyFormed, MergeKeeps
<1>2. Parameters(DeepMerge(DeepMerge(Empty, overrides), Device(target)))
  BY <1>1, DeviceFormed, MergeKeeps
<1>3. Parameters(DeepMerge(DeepMerge(DeepMerge(Empty, overrides), Device(target)), c.params))
  BY <1>2, MergeKeeps
<1> QED
  BY <1>3, MergeKeeps DEF Layered

\* Only the keys options, salt and alloy change.
LEMMA NamedLemma ==
  ASSUME NEW m, NEW h, NEW i, NEW salt, NEW label, Parameters(m), salt # Unset
  PROVE  /\ Parameters(Named(m, h, i, salt, label))
         /\ \A k \in {"zerotier", "wireguard"} : Get(Named(m, h, i, salt, label), k) = Get(m, k)
         /\ LET old == Get(Get(m, "salt"), "id")
                new == Get(Get(Named(m, h, i, salt, label), "salt"), "id")
            IN new = IF old = Blank THEN Scalar(salt) ELSE old
<1> DEFINE m1 == DeepMerge(m, Options(h, i))
           m2 == WithSaltId(m1, salt)
           m3 == WithInstance(m2, label)
<1>1. Parameters(m1) /\ \A k : k # "options" => Get(m1, k) = Get(m, k)
  BY OptionsFormed, MergeKeeps, DeepMergeLemma
<1> HIDE DEF m1
<1>2. /\ Parameters(m2) /\ \A k : k # "salt" => Get(m2, k) = Get(m1, k)
      /\ LET old == Get(Get(m1, "salt"), "id") new == Get(Get(m2, "salt"), "id") IN
         /\ old # Blank => new = old
         /\ old = Blank => new = Scalar(salt)
  BY <1>1, WithSaltIdLemma
<1> HIDE DEF m2
<1>3. Parameters(m3) /\ \A k : k # "alloy" => Get(m3, k) = Get(m2, k)
  BY <1>2, WithInstanceLemma
<1> HIDE DEF m3
<1>4. Named(m, h, i, salt, label) = m3
  BY Zenon DEF Named, m1, m2, m3
<1> QED
  BY <1>1, <1>2, <1>3, <1>4

LEMMA SplicedLemma ==
  ASSUME NEW m, NEW stamp, NEW members, NEW keys, Parameters(m), Parameters(stamp), Keys(stamp) = {"osbakery"}
  PROVE  /\ Parameters(Spliced(m, stamp, members, keys))
         /\ Get(Spliced(m, stamp, members, keys), "salt") = Get(m, "salt")
         /\ Section(Spliced(m, stamp, members, keys), "zerotier", "networks") =
              {IF IsDict(e) THEN SpliceNetwork(e, members) ELSE e : e \in Section(m, "zerotier", "networks")}
<1> DEFINE m1 == DeepMerge(m, stamp)
           m2 == SpliceZerotier(m1, members)
           m3 == SpliceWireguard(m2, keys)
<1>1. Parameters(m1) /\ \A k : k # "osbakery" => Get(m1, k) = Get(m, k)
  BY MergeKeeps, DeepMergeLemma
<1>2. Section(m1, "zerotier", "networks") = Section(m, "zerotier", "networks")
  BY <1>1 DEF Section
<1> HIDE DEF m1
<1>3. /\ Parameters(m2) /\ Get(m2, "salt") = Get(m1, "salt")
      /\ Section(m2, "zerotier", "networks") =
           {IF IsDict(e) THEN SpliceNetwork(e, members) ELSE e : e \in Section(m1, "zerotier", "networks")}
  BY <1>1, SpliceZerotierLemma
<1> HIDE DEF m2
<1>4. /\ Parameters(m3) /\ Get(m3, "salt") = Get(m2, "salt")
      /\ Section(m3, "zerotier", "networks") = Section(m2, "zerotier", "networks")
  BY <1>3, SpliceWireguardLemma DEF Section
<1> HIDE DEF m3
<1>5. Spliced(m, stamp, members, keys) = m3
  BY Zenon DEF Spliced, m1, m2, m3
<1> QED
  BY <1>1, <1>2, <1>3, <1>4, <1>5

\* What is read from the model of a node: its salt id and its networks.
LEMMA NodeModelLemma ==
  ASSUME NEW overrides, NEW c, NEW n, NEW members, NEW keys, n.slug # Unset,
         Parameters(overrides), Parameters(c.params), Parameters(n.params)
  PROVE  LET model == NodeModel(overrides, c, n, members, keys)
             layered == Layered(overrides, n.target, c, n)
             old == Get(Get(layered, "salt"), "id")
         IN /\ Parameters(model)
            /\ Get(Get(model, "salt"), "id") = IF old = Blank THEN Scalar(n.slug) ELSE old
            /\ Section(model, "zerotier", "networks") =
                 {IF IsDict(e) THEN SpliceNetwork(e, members) ELSE e :
                    e \in Section(layered, "zerotier", "networks")}
<1> DEFINE layered == Layered(overrides, n.target, c, n)
           named == Named(layered, MinionId(n), n.slug, n.slug, MinionId(n))
           stamp == Stamp(Scalar(n.slug), Scalar(c.slug))
           old == Get(Get(layered, "salt"), "id")
           model == NodeModel(overrides, c, n, members, keys)
<1>1. Parameters(layered)
  BY LayeredFormed
<1>2. Parameters(stamp) /\ Keys(stamp) = {"osbakery"}
  BY StampFormed, ScalarFlat
<1>3. model = Spliced(named, stamp, members, keys)
  BY NodeModelIs
<1> HIDE DEF layered, stamp, model
<1>4. /\ Parameters(named) /\ Get(named, "zerotier") = Get(layered, "zerotier")
      /\ Get(Get(named, "salt"), "id") = IF old = Blank THEN Scalar(n.slug) ELSE old
  BY <1>1, NamedLemma
<1> HIDE DEF named
<1>5. /\ Parameters(model) /\ Get(model, "salt") = Get(named, "salt")
      /\ Section(model, "zerotier", "networks") =
           {IF IsDict(e) THEN SpliceNetwork(e, members) ELSE e : e \in Section(named, "zerotier", "networks")}
  BY <1>2, <1>3, <1>4, SplicedLemma
<1>6. Section(named, "zerotier", "networks") = Section(layered, "zerotier", "networks")
  BY <1>4 DEF Section
<1> QED
  BY <1>4, <1>5, <1>6 DEF layered, model

\* The bake and the pillar endpoint, though their options and their stamps differ.
LEMMA ModelsAgree ==
  ASSUME NEW overrides, NEW b, NEW c, NEW n, NEW members, NEW keys
  PROVE  SamePillar(BuildModel(overrides, b, TRUE, c, TRUE, n, members, keys),
                    NodeModel(overrides, c, n, members, keys))
<1> DEFINE start == DeepMerge(Empty, overrides)
           b1 == DeepMerge(start, Device(b.target))
           n1 == DeepMerge(start, Device(n.target))
           b2 == DeepMerge(DeepMerge(b1, c.params), n.params)
           n2 == DeepMerge(DeepMerge(n1, c.params), n.params)
           b3 == DeepMerge(b2, Options(b.hostname, b.hostname))
           n3 == DeepMerge(n2, Options(MinionId(n), n.slug))
           b4 == WithInstance(WithSaltId(b3, n.slug), MinionId(n))
           n4 == WithInstance(WithSaltId(n3, n.slug), MinionId(n))
           stamp == Stamp(Scalar(n.slug), Scalar(c.slug))
<1>1. SamePillar(start, start)
  BY DEF SamePillar
<1>2. SamePillar(b1, n1)
  BY <1>1, DeviceFormed, SamePillarLayer DEF NonPillarKeys
<1>3. SamePillar(b2, n2)
  BY <1>2, SamePillarMerge
<1> HIDE DEF b2, n2
<1>4. SamePillar(b3, n3)
  BY <1>3, OptionsFormed, SamePillarLayer DEF NonPillarKeys
<1> HIDE DEF b3, n3
<1>5. SamePillar(b4, n4)
  BY <1>4, SamePillarSaltId, SamePillarInstance
<1> HIDE DEF b4, n4
<1>6. SamePillar(DeepMerge(b4, stamp), DeepMerge(n4, stamp))
  BY <1>5, SamePillarMerge
<1>7. SamePillar(Spliced(b4, stamp, members, keys), Spliced(n4, stamp, members, keys))
  BY <1>6, SamePillarSplice DEF Spliced
<1>8. BuildModel(overrides, b, TRUE, c, TRUE, n, members, keys) = Spliced(b4, stamp, members, keys)
  BY Zenon DEF BuildModel, Spliced, Options, Stamp, b4, b3, b2
<1>9. NodeModel(overrides, c, n, members, keys) = Spliced(n4, stamp, members, keys)
  BY Zenon DEF NodeModel, Spliced, Options, Stamp, n4, n3, n2
<1> QED
  BY <1>7, <1>8, <1>9

-----------------------------------------------------------------------------
(* The pillar, and what a bake writes of it. *)

LEMMA PillarLemma ==
  ASSUME NEW m, Parameters(m)
  PROVE  /\ Parameters(Pillar(m))
         /\ \A k : k \notin NonPillarKeys => Get(Pillar(m), k) = Get(m, k)
<1> DEFINE K == Keys(m) \ NonPillarKeys
           p == Pillar(m)
<1>1. IsDict(p) /\ Keys(p) = Keys(m) \cap K /\ \A x : Get(p, x) = IF x \in K THEN Get(m, x) ELSE Blank
  BY OnlyLemma, Zenon DEF Pillar
<1> HIDE DEF p
<1>2. IsFiniteSet(Keys(p))
  BY <1>1, ParametersIsDict, FS_Subset
<1>3. Parameters(p)
  BY <1>1, <1>2, FormedGet, FormedDict
<1>4. \A k : k \notin NonPillarKeys => Get(p, k) = Get(m, k)
  BY <1>1, GetLemma
<1> QED
  BY <1>3, <1>4 DEF p

\* A value extends itself.
LEMMA KeptSelf == ASSUME NEW t, Formed3(t) PROVE Kept3(t, t)
BY Level3Formed

\* The defaults of a formula, also when there are none.
LEMMA DefaultsFormed ==
  ASSUME NEW m, NEW defaults, NEW formula, Parameters(m), \A k \in Keys(defaults) : Parameters(Get(defaults, k))
  PROVE  Parameters(DeepMerge(m, Get(defaults, formula)))
<1>1. CASE formula \in Keys(defaults)
  BY <1>1, MergeKeeps
<1>2. CASE formula \notin Keys(defaults)
  <2> DEFINE w == DeepMerge(m, Get(defaults, formula))
  <2>1. Keys(Get(defaults, formula)) = {}
    BY <1>2, GetLemma, BlankLemma
  <2>2. IsDict(w) /\ Keys(w) = Keys(m) /\ \A k : Get(w, k) = Get(m, k)
    BY <2>1, DeepMergeLemma
  <2> HIDE DEF w
  <2>3. \A k : Formed3(Get(m, k))
    BY FormedGet
  <2>4. Parameters(w)
    BY <2>2, <2>3, FormedDict, ParametersIsDict
  <2> QED
    BY <2>4 DEF w
<1> QED
  BY <1>1, <1>2

\* The defaults so far, formula by formula.
IsWriting(h, defaults, formulas) ==
  h = [i \in 0 .. Len(formulas) |->
         IF i = 0 THEN Empty ELSE DeepMerge(h[i - 1], Get(defaults, formulas[i]))]
Writing(defaults, formulas) == CHOOSE h : IsWriting(h, defaults, formulas)

LEMMA WritingExists ==
  ASSUME NEW defaults, NEW formulas, Len(formulas) \in Nat
  PROVE  \E h : IsWriting(h, defaults, formulas)
<1> DEFINE Step(i, t) == DeepMerge(t, Get(defaults, formulas[i]))
           Upto(n) == \E h : h = [i \in 0 .. n |-> IF i = 0 THEN Empty ELSE Step(i, h[i - 1])]
           S == {n \in Nat : Upto(n)}
<1>1. 0 \in S
  <2> DEFINE h == [i \in 0 .. 0 |-> Empty]
  <2>1. h = [i \in 0 .. 0 |-> IF i = 0 THEN Empty ELSE Step(i, h[i - 1])]
    OBVIOUS
  <2> HIDE DEF h, Step
  <2> QED
    BY <2>1
<1>2. ASSUME NEW n \in Nat, n \in S PROVE n + 1 \in S
  <2> HIDE DEF Step
  <2>1. PICK h : h = [i \in 0 .. n |-> IF i = 0 THEN Empty ELSE Step(i, h[i - 1])]
    BY <1>2
  <2> DEFINE g == [i \in 0 .. n + 1 |-> IF i = n + 1 THEN Step(n + 1, h[n]) ELSE h[i]]
  <2>2. \A i \in 0 .. n : g[i] = h[i]
    OBVIOUS
  <2>3. g[n + 1] = Step(n + 1, h[n])
    OBVIOUS
  <2>4. \A i \in 0 .. n : h[i] = IF i = 0 THEN Empty ELSE Step(i, h[i - 1])
    BY <2>1
  <2>5. \A i \in 0 .. n + 1 : g[i] = IF i = 0 THEN Empty ELSE Step(i, g[i - 1])
    BY <2>2, <2>3, <2>4
  <2>6. g = [i \in 0 .. n + 1 |-> g[i]]
    OBVIOUS
  <2> HIDE DEF g
  <2>7. g = [i \in 0 .. n + 1 |-> IF i = 0 THEN Empty ELSE Step(i, g[i - 1])]
    BY <2>5, <2>6
  <2> QED
    BY <2>7
<1> HIDE DEF S
<1>3. Len(formulas) \in S
  BY <1>1, <1>2, Induction
<1>4. Upto(Len(formulas))
  BY <1>3 DEF S
<1> QED
  BY <1>4, Zenon DEF IsWriting

LEMMA WritingFormed ==
  ASSUME NEW defaults, NEW formulas, Len(formulas) \in Nat, \A k \in Keys(defaults) : Parameters(Get(defaults, k))
  PROVE  Parameters(Writing(defaults, formulas)[Len(formulas)])
<1> DEFINE h == Writing(defaults, formulas)
           S == {n \in Nat : n <= Len(formulas) => Parameters(h[n])}
<1>1. IsWriting(h, defaults, formulas)
  BY WritingExists, Zenon DEF Writing
<1> HIDE DEF h
<1>2. h[0] = Empty
  BY <1>1 DEF IsWriting
<1>3. \A i \in 1 .. Len(formulas) : h[i] = DeepMerge(h[i - 1], Get(defaults, formulas[i]))
  BY <1>1 DEF IsWriting
<1>4. 0 \in S
  BY <1>2, EmptyFormed
<1>5. ASSUME NEW n \in Nat, n \in S PROVE n + 1 \in S
  <2> SUFFICES ASSUME n + 1 <= Len(formulas) PROVE Parameters(h[n + 1])
    OBVIOUS
  <2>1. Parameters(h[n]) /\ h[n + 1] = DeepMerge(h[n], Get(defaults, formulas[n + 1]))
    BY <1>3, <1>5
  <2> QED
    BY <2>1, DefaultsFormed
<1> HIDE DEF S
<1>6. Len(formulas) \in S
  BY <1>4, <1>5, Induction
<1> QED
  BY <1>6 DEF S, h

LEMMA SetToSeqLen == ASSUME NEW S, IsFiniteSet(S) PROVE Len(SetToSeq(S)) \in Nat
<1>1. Cardinality(S) \in Nat /\ ExistsBijection(1 .. Cardinality(S), S)
  BY FS_CardinalityType
<1>2. \E f \in [1 .. Cardinality(S) -> S] : IsInjective(f)
  BY <1>1, Zenon DEF ExistsBijection, Bijection, Injection, IsInjective
<1>3. SetToSeq(S) \in [1 .. Cardinality(S) -> S]
  BY <1>2, Zenon DEF SetToSeq
<1> QED
  BY <1>1, <1>3

\* The file a bake writes has all of the pillar.
LEMMA WrittenLemma ==
  ASSUME NEW defaults, NEW pillar, Parameters(pillar), \A k \in Keys(defaults) : Parameters(Get(defaults, k))
  PROVE  ExtendedBy(pillar, WrittenPillar(defaults, pillar))
<1> DEFINE formulas == SetToSeq(Keys(pillar))
           h == Writing(defaults, formulas)
<1>1. Len(formulas) \in Nat
  BY ParametersIsDict, SetToSeqLen
<1>2. WrittenPillar(defaults, pillar) = DeepMerge(h[Len(formulas)], pillar)
  BY Zenon DEF WrittenPillar, Writing, IsWriting
<1>3. Parameters(h[Len(formulas)])
  BY <1>1, WritingFormed
<1> QED
  BY <1>2, <1>3, MergeKeeps

\* On Batocera it has all of it but the list of states.
LEMMA BatoceraLemma ==
  ASSUME NEW pillar, Parameters(pillar)
  PROVE  ExtendedBy(Only(pillar, Keys(pillar) \ {"states"}), BatoceraPillar(pillar))
<1> DEFINE t == Only(pillar, Keys(pillar) \ {"states"})
           u == BatoceraPillar(pillar)
<1>1. /\ IsDict(t) /\ Keys(t) = Keys(pillar) \ {"states"}
      /\ \A x \in Keys(t) : Get(t, x) = Get(pillar, x)
  BY OnlyLemma
<1>2. Keys(u) = Keys(pillar) \cup {"states"} /\ \A x : x # "states" => Get(u, x) = Get(pillar, x)
  <2>1. ASSUME NEW v
        PROVE  /\ Keys(With(pillar, "states", v)) = Keys(pillar) \cup {"states"}
               /\ \A x : x # "states" => Get(With(pillar, "states", v), x) = Get(pillar, x)
    BY WithLemma
  <2>2. PICK v : u = With(pillar, "states", v)
    BY Zenon DEF BatoceraPillar
  <2> HIDE DEF u
  <2> QED
    BY <2>1, <2>2
<1> HIDE DEF t, u
<1>3. \A x \in Keys(t) : Kept3(Get(t, x), Get(u, x))
  <2>1. \A x : Formed3(Get(pillar, x))
    BY FormedGet
  <2>2. \A x : Kept3(Get(pillar, x), Get(pillar, x))
    BY <2>1, KeptSelf
  <2> QED
    BY <1>1, <1>2, <2>2
<1>4. ExtendedBy(t, u)
  BY <1>1, <1>2, <1>3, KeptDict
<1> QED
  BY <1>4 DEF t, u

-----------------------------------------------------------------------------
(* The address the node page suggests. *)

LEMMA SuggestionLemma ==
  ASSUME NEW last \in Nat, NEW used, Suggestion(last, used) # 0
  PROVE  LET s == Suggestion(last, used) IN
         /\ s \in 1 .. last /\ s \notin used \cup Reserved
         /\ s < last \/ last - 1 \in used
<1> DEFINE inPool == used \cap 0 .. last
           Top(h) == h \in inPool /\ \A g \in inPool : g <= h
           top == CHOOSE h \in inPool : \A g \in inPool : g <= h
           next == IF inPool = {} THEN 0 ELSE 1 + top
           free == (1 .. last - 1) \ (Reserved \cup used)
           low == CHOOSE h \in free : \A g \in free : h <= g
           s == Suggestion(last, used)
<1>1. s = IF inPool # {} /\ next <= last /\ next \notin Reserved THEN next
          ELSE IF free = {} THEN 0 ELSE low
  BY DEF Suggestion
<1>2. inPool # {} => top \in inPool /\ \A g \in inPool : g <= top
  <2> SUFFICES ASSUME inPool # {} PROVE top \in inPool /\ \A g \in inPool : g <= top
    OBVIOUS
  <2>1. inPool \in SUBSET Nat /\ \A g \in inPool : g <= last
    OBVIOUS
  <2>2. \E h \in inPool : \A g \in inPool : g <= h
    <3> HIDE DEF inPool
    <3> QED
      BY <2>1, GreatestBelow
  <2> HIDE DEF inPool
  <2> QED
    BY <2>2
<1>3. free # {} => low \in free
  <2> SUFFICES ASSUME free # {} PROVE low \in free
    OBVIOUS
  <2>1. free \in SUBSET Nat
    OBVIOUS
  <2>2. \E h \in free : \A g \in free : h <= g
    <3> HIDE DEF free
    <3> QED
      BY <2>1, LeastOf
  <2> HIDE DEF free
  <2> QED
    BY <2>2
<1> HIDE DEF top, low, s
<1>4. CASE inPool # {} /\ next <= last /\ next \notin Reserved
  <2>1. s = 1 + top /\ top \in used /\ top \in 0 .. last /\ 1 + top <= last
    BY <1>1, <1>2, <1>4
  <2>2. s \notin used
    BY <1>2, <1>4, <2>1
  <2> QED
    BY <2>1, <2>2, <1>4 DEF s
<1>5. CASE ~(inPool # {} /\ next <= last /\ next \notin Reserved)
  <2>1. s = IF free = {} THEN 0 ELSE low
    BY <1>1, <1>5
  <2>2. s \in free
    BY <1>3, <2>1 DEF s
  <2> QED
    BY <2>2 DEF s
<1> QED
  BY <1>4, <1>5
=============================================================================
