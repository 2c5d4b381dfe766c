---------------------------- MODULE PledgeProofs -----------------------------
(***************************************************************************)
(* Sums over finite sets, and what the operations of pledge_balance_object *)
(* do to the amounts it holds: the facts that the proofs about the locked  *)
(* balances and about the mining pledges share.                            *)
(***************************************************************************)
EXTENDS PledgeBalance, FiniteSetTheorems, WellFoundedInduction, NaturalsInduction,
        TLAPS

(* Induction, on a set of numbers. *)
LEMMA SetInduction ==
    ASSUME NEW T \in SUBSET Nat, 0 \in T, \A n \in T : n + 1 \in T
    PROVE  T = Nat
  <1> SUFFICES ASSUME NEW m \in Nat, m \notin T PROVE FALSE
    BY Zenon
  <1> DEFINE U == Nat \ T
  <1>1. U \subseteq Nat /\ m \in U
    OBVIOUS
  <1>2. PICK k \in U : \A j \in U : ~(<<j, k>> \in OpToRel(<, Nat))
    BY <1>1, NatLessThanWellFounded, WFMin
  <1>3. k \in Nat /\ k # 0 /\ k - 1 \in Nat /\ k - 1 < k /\ k - 1 + 1 = k
    <2>1. k \in U
      BY <1>2
    <2> QED BY <2>1
  <1>4. k - 1 \in U
    BY <1>2, <1>3
  <1>5. <<k - 1, k>> \in OpToRel(<, Nat)
    BY <1>2, <1>3 DEF OpToRel
  <1> QED BY <1>2, <1>4, <1>5

-----------------------------------------------------------------------------
(* The recursive function behind SumOfFunction. *)

Summable(f) == IsFiniteSet(DOMAIN f) /\ \A x \in DOMAIN f : f[x] \in Int

Choice(s) == CHOOSE x \in s : TRUE
NextSum(f, g, s) == IF s = {} THEN 0 ELSE f[Choice(s)] + g[s \ {Choice(s)}]
Sums(f) == CHOOSE g : g = [s \in SUBSET (DOMAIN f) |-> NextSum(f, g, s)]

LEMMA SumIsLast == \A f : SumOfFunction(f) = Sums(f)[DOMAIN f]
  BY DEF SumOfFunction, FoldSet, MapThenFoldSet, Sums, NextSum, Choice

LEMMA ChoiceIn == \A s : s # {} => Choice(s) \in s
  BY DEF Choice

(* A subset without its choice is smaller. *)
LEMMA Smaller ==
    ASSUME NEW D, IsFiniteSet(D), NEW s \in SUBSET D
    PROVE  /\ IsFiniteSet(s) /\ Cardinality(s) \in Nat
           /\ Cardinality(s) = 0 <=> s = {}
           /\ \A x \in s : Cardinality(s \ {x}) = Cardinality(s) - 1
           /\ Cardinality(s) <= Cardinality(D)
  <1>1. IsFiniteSet(s) /\ Cardinality(s) <= Cardinality(D)
    BY FS_Subset
  <1> QED BY <1>1, FS_CardinalityType, FS_EmptySet, FS_RemoveElement

(* One more level of the recursion, for the sets up to a size. *)
LEMMA SumsUpTo ==
    ASSUME NEW f, Summable(f)
    PROVE  \A n \in Nat : \E h \in [SUBSET (DOMAIN f) -> Int] :
               \A s \in SUBSET (DOMAIN f) : Cardinality(s) <= n => h[s] = NextSum(f, h, s)
  <1> DEFINE D == DOMAIN f
             Good(n, h) == \A s \in SUBSET D : Cardinality(s) <= n => h[s] = NextSum(f, h, s)
             T == {n \in Nat : \E h \in [SUBSET D -> Int] : Good(n, h)}
  <1>fin. IsFiniteSet(D)
    BY DEF Summable
  <1>1. 0 \in T
    <2> DEFINE h == [s \in SUBSET D |-> 0]
    <2>1. \A s \in SUBSET D : Cardinality(s) <= 0 => s = {}
      BY <1>fin, Smaller
    <2>2. h \in [SUBSET D -> Int] /\ Good(0, h)
      BY <2>1 DEF NextSum
    <2> QED BY Zenon, <2>2
  <1>2. ASSUME NEW n \in T PROVE n + 1 \in T
    <2>1. PICK h \in [SUBSET D -> Int] : Good(n, h)
      BY Zenon
    <2> DEFINE k == [s \in SUBSET D |-> NextSum(f, h, s)]
    <2>2. k \in [SUBSET D -> Int]
      <3> SUFFICES ASSUME NEW s \in SUBSET D PROVE NextSum(f, h, s) \in Int
        OBVIOUS
      <3>1. CASE s = {}
        BY <3>1 DEF NextSum
      <3>2. CASE s # {}
        <4>1. Choice(s) \in D /\ s \ {Choice(s)} \in SUBSET D
          BY <3>2, ChoiceIn
        <4> QED BY <2>1, <3>2, <4>1 DEF NextSum, Summable
      <3> QED BY <3>1, <3>2
    <2>3. Good(n + 1, k)
      <3> SUFFICES ASSUME NEW s \in SUBSET D, Cardinality(s) <= n + 1
                   PROVE  NextSum(f, h, s) = NextSum(f, k, s)
        BY Zenon
      <3>1. CASE s = {}
        BY <3>1 DEF NextSum
      <3>2. CASE s # {}
        <4> DEFINE t == s \ {Choice(s)}
        <4>1. t \in SUBSET D /\ Cardinality(t) = Cardinality(s) - 1
          BY <1>fin, <3>2, ChoiceIn, Smaller
        <4>2. Cardinality(s) \in Nat /\ n \in Nat
          BY <1>fin, Smaller
        <4>3. Cardinality(t) <= n
          BY <4>1, <4>2
        <4> HIDE DEF t
        <4>4. h[t] = k[t]
          BY <2>1, <4>1, <4>3
        <4> QED BY <3>2, <4>4 DEF NextSum, t
      <3> QED BY <3>1, <3>2
    <2>4. n + 1 \in Nat
      OBVIOUS
    <2> QED BY Zenon, <2>2, <2>3, <2>4
  <1> HIDE DEF T
  <1>3. T \in SUBSET Nat
    BY DEF T
  <1>4. T = Nat
    BY <1>1, <1>2, <1>3, SetInduction
  <1> QED BY Zenon, <1>4 DEF T

LEMMA SumsExist ==
    ASSUME NEW f, Summable(f)
    PROVE  Sums(f) = [s \in SUBSET (DOMAIN f) |-> NextSum(f, Sums(f), s)]
  <1> DEFINE D == DOMAIN f
  <1>1. IsFiniteSet(D) /\ Cardinality(D) \in Nat
    BY FS_CardinalityType DEF Summable
  <1>2. PICK h \in [SUBSET D -> Int] :
            \A s \in SUBSET D : Cardinality(s) <= Cardinality(D) => h[s] = NextSum(f, h, s)
    BY Zenon, <1>1, SumsUpTo
  <1>3. \A s \in SUBSET D : Cardinality(s) <= Cardinality(D)
    BY <1>1, Smaller
  <1>4. h = [s \in SUBSET D |-> NextSum(f, h, s)]
    BY <1>2, <1>3
  <1> QED BY <1>4 DEF Sums


(* The sum over no element, over some, and that it is a number. *)
LEMMA SumsStep ==
    ASSUME NEW f, Summable(f)
    PROVE  /\ Sums(f)[{}] = 0
           /\ \A s \in SUBSET (DOMAIN f) : s # {} =>
                  Sums(f)[s] = f[Choice(s)] + Sums(f)[s \ {Choice(s)}]
  <1> DEFINE g == Sums(f)
  <1>1. g = [s \in SUBSET (DOMAIN f) |-> NextSum(f, g, s)]
    BY Zenon, SumsExist
  <1> HIDE DEF g
  <1>2. \A s \in SUBSET (DOMAIN f) : g[s] = NextSum(f, g, s)
    BY <1>1
  <1>3. g[{}] = 0
    BY <1>2 DEF NextSum
  <1>4. \A s \in SUBSET (DOMAIN f) : s # {} => g[s] = f[Choice(s)] + g[s \ {Choice(s)}]
    BY <1>2 DEF NextSum
  <1> QED BY Zenon, <1>3, <1>4 DEF g

LEMMA SumsType ==
    ASSUME NEW f, Summable(f)
    PROVE  \A s \in SUBSET (DOMAIN f) : Sums(f)[s] \in Int
  <1> DEFINE D == DOMAIN f
             g == Sums(f)
             T == {n \in Nat : \A s \in SUBSET D : Cardinality(s) = n => g[s] \in Int}
  <1>fin. IsFiniteSet(D)
    BY DEF Summable
  <1>step. /\ g[{}] = 0
           /\ \A s \in SUBSET D : s # {} => g[s] = f[Choice(s)] + g[s \ {Choice(s)}]
    BY SumsStep
  <1> HIDE DEF g
  <1>1. 0 \in T
    <2>1. \A s \in SUBSET D : Cardinality(s) = 0 => s = {}
      BY <1>fin, Smaller
    <2>2. g[{}] \in Int
      BY <1>step
    <2> QED BY <2>1, <2>2
  <1>2. ASSUME NEW n \in T PROVE n + 1 \in T
    <2>1. n \in Nat /\ n + 1 \in Nat /\ n + 1 # 0 /\ n + 1 - 1 = n
      OBVIOUS
    <2> SUFFICES ASSUME NEW s \in SUBSET D, Cardinality(s) = n + 1 PROVE g[s] \in Int
      BY <2>1
    <2>2. s # {}
      BY <1>fin, <2>1, Smaller
    <2>3. Choice(s) \in s
      BY <2>2, ChoiceIn
    <2>4. s \ {Choice(s)} \in SUBSET D /\ Cardinality(s \ {Choice(s)}) = n
      BY <1>fin, <2>1, <2>3, Smaller
    <2>5. g[s \ {Choice(s)}] \in Int
      BY <2>4
    <2>6. f[Choice(s)] \in Int
      BY <2>3 DEF Summable
    <2> QED BY <1>step, <2>2, <2>5, <2>6
  <1> HIDE DEF T
  <1>3. T = Nat
    <2>1. T \in SUBSET Nat
      BY DEF T
    <2> QED BY <1>1, <1>2, <2>1, SetInduction
  <1>4. \A s \in SUBSET D : Cardinality(s) \in Nat
    BY <1>fin, Smaller
  <1> QED BY <1>3, <1>4 DEF T, g

(* Any element may be added last. *)
LEMMA SumsRemove ==
    ASSUME NEW f, Summable(f)
    PROVE  \A s \in SUBSET (DOMAIN f) : \A x \in s : Sums(f)[s] = f[x] + Sums(f)[s \ {x}]
  <1> DEFINE D == DOMAIN f
             g == Sums(f)
             T == {n \in Nat : \A s \in SUBSET D : Cardinality(s) = n =>
                                   \A x \in s : g[s] = f[x] + g[s \ {x}]}
  <1>fin. IsFiniteSet(D) /\ \A x \in D : f[x] \in Int
    BY DEF Summable
  <1>step. \A s \in SUBSET D : s # {} => g[s] = f[Choice(s)] + g[s \ {Choice(s)}]
    BY SumsStep
  <1>int. \A s \in SUBSET D : g[s] \in Int
    BY SumsType
  <1> HIDE DEF g
  <1>1. 0 \in T
    BY <1>fin, Smaller
  <1>2. ASSUME NEW n \in T PROVE n + 1 \in T
    <2>1. n \in Nat /\ n + 1 \in Nat /\ n + 1 - 1 = n
      OBVIOUS
    <2> SUFFICES ASSUME NEW s \in SUBSET D, Cardinality(s) = n + 1, NEW x \in s
                 PROVE  g[s] = f[x] + g[s \ {x}]
      BY Zenon, <2>1
    <2> DEFINE c == Choice(s)
               u == s \ {c}
               v == s \ {x}
               w == u \ {x}
    <2>2. c \in s
      BY ChoiceIn
    <2>3. g[s] = f[c] + g[u]
      BY <1>step
    <2>4. CASE x = c
      BY <2>3, <2>4
    <2>5. CASE x # c
      <3>1. u \in SUBSET D /\ Cardinality(u) = n /\ x \in u
        BY <1>fin, <2>1, <2>2, <2>5, Smaller
      <3>2. v \in SUBSET D /\ Cardinality(v) = n /\ c \in v /\ v \ {c} = w
        BY <1>fin, <2>1, <2>2, <2>5, Smaller
      <3> HIDE DEF c, u
      <3>3. g[u] = f[x] + g[w]
        BY <3>1
      <3> HIDE DEF v, w
      <3>4. g[v] = f[c] + g[w]
        BY <3>2
      <3>5. f[c] \in Int /\ f[x] \in Int /\ g[w] \in Int
        BY <1>fin, <1>int, <2>2, <3>2
      <3>6. g[s] = f[x] + g[v]
        BY <2>3, <3>3, <3>4, <3>5
      <3> QED BY <3>6 DEF v
    <2> QED BY <2>4, <2>5
  <1> HIDE DEF T
  <1>3. T = Nat
    <2>1. T \in SUBSET Nat
      BY DEF T
    <2> QED BY <1>1, <1>2, <2>1, SetInduction
  <1>4. \A s \in SUBSET D : Cardinality(s) \in Nat
    BY <1>fin, Smaller
  <1> QED BY <1>3, <1>4 DEF T, g

(* The sum over a set depends on the values there only. *)
LEMMA SumsAgree ==
    ASSUME NEW f, Summable(f), NEW h, Summable(h), NEW S,
           S \subseteq DOMAIN f, S \subseteq DOMAIN h, \A x \in S : f[x] = h[x]
    PROVE  Sums(f)[S] = Sums(h)[S]
  <1> DEFINE a == Sums(f)
             b == Sums(h)
             T == {n \in Nat : \A s \in SUBSET S : Cardinality(s) = n => a[s] = b[s]}
  <1>fin. IsFiniteSet(S)
    BY FS_Subset DEF Summable
  <1>step. /\ a[{}] = 0 /\ b[{}] = 0
           /\ \A s \in SUBSET S : s # {} => /\ a[s] = f[Choice(s)] + a[s \ {Choice(s)}]
                                            /\ b[s] = h[Choice(s)] + b[s \ {Choice(s)}]
    BY SumsStep
  <1> HIDE DEF a, b
  <1>1. 0 \in T
    BY Zenon, <1>fin, <1>step, Smaller
  <1>2. ASSUME NEW n \in T PROVE n + 1 \in T
    <2>1. n \in Nat /\ n + 1 \in Nat /\ n + 1 # 0 /\ n + 1 - 1 = n
      OBVIOUS
    <2> SUFFICES ASSUME NEW s \in SUBSET S, Cardinality(s) = n + 1 PROVE a[s] = b[s]
      BY <2>1
    <2>2. s # {}
      BY <1>fin, <2>1, Smaller
    <2>3. Choice(s) \in s
      BY <2>2, ChoiceIn
    <2>4. s \ {Choice(s)} \in SUBSET S /\ Cardinality(s \ {Choice(s)}) = n
      BY <1>fin, <2>1, <2>3, Smaller
    <2>5. a[s \ {Choice(s)}] = b[s \ {Choice(s)}]
      BY <2>4
    <2>6. f[Choice(s)] = h[Choice(s)]
      BY <2>3
    <2> QED BY Zenon, <1>step, <2>2, <2>5, <2>6
  <1> HIDE DEF T
  <1>3. T = Nat
    <2>1. T \in SUBSET Nat
      BY DEF T
    <2> QED BY <1>1, <1>2, <2>1, SetInduction
  <1>4. Cardinality(S) \in Nat
    BY <1>fin, FS_CardinalityType
  <1> QED BY <1>3, <1>4 DEF T, a, b
-----------------------------------------------------------------------------
(* What SumOfFunction returns. *)

LEMMA SumType ==
    ASSUME NEW f, Summable(f) PROVE SumOfFunction(f) \in Int
  BY SumsType, SumIsLast

LEMMA SumEmpty ==
    ASSUME NEW f, DOMAIN f = {} PROVE SumOfFunction(f) = 0
  <1>1. Summable(f)
    BY FS_EmptySet DEF Summable
  <1> QED BY <1>1, SumsStep, SumIsLast

LEMMA WithoutType ==
    ASSUME NEW f, Summable(f), NEW S
    PROVE  /\ Summable(WithoutEntries(f, S))
           /\ DOMAIN WithoutEntries(f, S) = DOMAIN f \ S
           /\ \A x \in DOMAIN f \ S : WithoutEntries(f, S)[x] = f[x]
  <1>1. IsFiniteSet(DOMAIN f \ S)
    BY Zenon, FS_Difference DEF Summable
  <1> QED BY <1>1 DEF Summable, WithoutEntries

LEMMA SumRemove ==
    ASSUME NEW f, Summable(f), NEW x \in DOMAIN f
    PROVE  SumOfFunction(f) = f[x] + SumOfFunction(WithoutEntries(f, {x}))
  <1> DEFINE h == WithoutEntries(f, {x})
             S == DOMAIN f \ {x}
  <1>1. Summable(h) /\ DOMAIN h = S /\ \A y \in S : h[y] = f[y]
    BY Zenon, WithoutType
  <1> HIDE DEF h
  <1>2. Sums(f)[S] = Sums(h)[S]
    BY <1>1, SumsAgree
  <1>3. Sums(f)[DOMAIN f] = f[x] + Sums(f)[S]
    BY SumsRemove
  <1>4. SumOfFunction(f) = Sums(f)[DOMAIN f] /\ SumOfFunction(h) = Sums(h)[S]
    BY <1>1, SumIsLast
  <1> QED BY <1>2, <1>3, <1>4 DEF h

(* An entry that is added or replaced. *)
LEMMA SumEntry ==
    ASSUME NEW f, Summable(f), NEW x, NEW v \in Int
    PROVE  /\ Summable(WithEntry(f, x, v))
           /\ SumOfFunction(WithEntry(f, x, v)) =
                 SumOfFunction(f) + v - (IF x \in DOMAIN f THEN f[x] ELSE 0)
  <1> DEFINE h == WithEntry(f, x, v)
             r == WithoutEntries(f, {x})
  <1>1. DOMAIN h = DOMAIN f \union {x} /\ h[x] = v /\ \A y \in DOMAIN f \ {x} : h[y] = f[y]
    BY DEF WithEntry
  <1>2. Summable(h)
    <2>1. IsFiniteSet(DOMAIN h)
      BY <1>1, FS_AddElement DEF Summable
    <2> QED BY <1>1, <2>1 DEF Summable
  <1>3. WithoutEntries(h, {x}) = r
    <2>1. DOMAIN h \ {x} = DOMAIN f \ {x}
      BY <1>1
    <2> HIDE DEF h
    <2> QED BY <1>1, <2>1 DEF WithoutEntries
  <1>4. Summable(r)
    BY Zenon, WithoutType
  <1> HIDE DEF h, r
  <1>5. SumOfFunction(h) = v + SumOfFunction(r)
    BY <1>1, <1>2, <1>3, SumRemove
  <1>6. SumOfFunction(r) \in Int /\ SumOfFunction(f) \in Int
    BY <1>4, SumType
  <1>7. CASE x \in DOMAIN f
    <2>1. SumOfFunction(f) = f[x] + SumOfFunction(r) /\ f[x] \in Int
      BY <1>7, SumRemove DEF r, Summable
    <2>2. SumOfFunction(h) = SumOfFunction(f) + v - f[x]
      BY <1>5, <1>6, <2>1
    <2> QED BY <1>2, <1>7, <2>2 DEF h
  <1>8. CASE x \notin DOMAIN f
    <2>1. r = WithoutEntries(f, {})
      <3>1. DOMAIN f \ {x} = DOMAIN f \ {}
        BY <1>8
      <3> QED BY <3>1 DEF r, WithoutEntries
    <2>2. DOMAIN r = DOMAIN f /\ \A y \in DOMAIN f : r[y] = f[y]
      BY <2>1, WithoutType
    <2>3. SumOfFunction(r) = SumOfFunction(f)
      <3>1. Sums(r)[DOMAIN f] = Sums(f)[DOMAIN f]
        BY <1>4, <2>2, SumsAgree
      <3> QED BY <2>2, <3>1, SumIsLast
    <2>4. SumOfFunction(h) = SumOfFunction(f) + v - 0
      BY <1>5, <1>6, <2>3
    <2> QED BY <1>2, <1>8, <2>4 DEF h
  <1> QED BY <1>7, <1>8

(* Functions with the same values. *)
LEMMA SumAgree ==
    ASSUME NEW f, Summable(f), NEW h, Summable(h), DOMAIN f = DOMAIN h,
           \A x \in DOMAIN f : f[x] = h[x]
    PROVE  SumOfFunction(f) = SumOfFunction(h)
  <1>1. Sums(f)[DOMAIN f] = Sums(h)[DOMAIN f]
    BY SumsAgree
  <1> QED BY <1>1, SumIsLast

(* Induction over the subsets of a finite set, one element at a time. *)
LEMMA SubsetInduction ==
    ASSUME NEW D, IsFiniteSet(D), NEW P \in SUBSET (SUBSET D), {} \in P,
           \A t \in P : \A x \in D \ t : t \union {x} \in P
    PROVE  \A s \in SUBSET D : s \in P
  <1> DEFINE T == {n \in Nat : \A s \in SUBSET D : Cardinality(s) = n => s \in P}
  <1>1. 0 \in T
    BY Smaller
  <1>2. ASSUME NEW n \in T PROVE n + 1 \in T
    <2>1. n \in Nat /\ n + 1 \in Nat /\ n + 1 # 0 /\ n + 1 - 1 = n
      OBVIOUS
    <2> SUFFICES ASSUME NEW s \in SUBSET D, Cardinality(s) = n + 1 PROVE s \in P
      BY <2>1
    <2>2. s # {}
      BY <2>1, Smaller
    <2>3. PICK x \in s : TRUE
      BY <2>2
    <2>4. s \ {x} \in SUBSET D /\ Cardinality(s \ {x}) = n
      BY <2>1, <2>3, Smaller
    <2>5. s \ {x} \in P
      BY <2>4
    <2>6. (s \ {x}) \union {x} = s /\ x \in D \ (s \ {x})
      BY <2>3
    <2> QED BY <2>5, <2>6
  <1> HIDE DEF T
  <1>3. T = Nat
    <2>1. T \in SUBSET Nat
      BY DEF T
    <2> QED BY <1>1, <1>2, <2>1, SetInduction
  <1>4. \A s \in SUBSET D : Cardinality(s) \in Nat
    BY Smaller
  <1> QED BY <1>3, <1>4 DEF T

LEMMA SumsAdd ==
    ASSUME NEW f, Summable(f), NEW t \in SUBSET (DOMAIN f), NEW x \in DOMAIN f \ t
    PROVE  Sums(f)[t \union {x}] = f[x] + Sums(f)[t]
  <1>1. t \union {x} \in SUBSET (DOMAIN f) /\ x \in t \union {x} /\ (t \union {x}) \ {x} = t
    OBVIOUS
  <1> QED BY <1>1, SumsRemove

(* A sum is that of a part of the elements and that of the others. *)
LEMMA SumSplit ==
    ASSUME NEW f, Summable(f), NEW A \in SUBSET (DOMAIN f)
    PROVE  /\ Summable([x \in A |-> f[x]])
           /\ SumOfFunction(f) =
                 SumOfFunction([x \in A |-> f[x]]) + SumOfFunction(WithoutEntries(f, A))
  <1> DEFINE D == DOMAIN f
             g == Sums(f)
             P == {s \in SUBSET D : g[D] = g[s] + g[D \ s]}
             h == [x \in A |-> f[x]]
             r == WithoutEntries(f, A)
  <1>fin. IsFiniteSet(D) /\ \A x \in D : f[x] \in Int
    BY DEF Summable
  <1>g. /\ g[{}] = 0
        /\ \A s \in SUBSET D : g[s] \in Int
        /\ \A s \in SUBSET D : \A x \in s : g[s] = f[x] + g[s \ {x}]
        /\ \A s \in SUBSET D : \A x \in D \ s : g[s \union {x}] = f[x] + g[s]
    BY SumsStep, SumsType, SumsRemove, SumsAdd
  <1> HIDE DEF g
  <1>1. {} \in P
    <2>1. D \ {} = D /\ g[D] \in Int
      BY <1>g
    <2> QED BY <1>g, <2>1
  <1>2. ASSUME NEW t \in P, NEW x \in D \ t PROVE t \union {x} \in P
    <2>1. D \ (t \union {x}) = (D \ t) \ {x} /\ D \ t \in SUBSET D
      OBVIOUS
    <2>2. g[D \ t] = f[x] + g[D \ (t \union {x})]
      BY <1>g, <2>1
    <2>3. g[t \union {x}] = f[x] + g[t]
      BY <1>g
    <2>4. f[x] \in Int /\ g[t] \in Int /\ g[D \ (t \union {x})] \in Int
      BY <1>fin, <1>g
    <2>5. g[D] = g[t] + g[D \ t]
      OBVIOUS
    <2>6. g[D] = g[t \union {x}] + g[D \ (t \union {x})]
      BY <2>2, <2>3, <2>4, <2>5
    <2> QED BY <2>6
  <1>3. A \in P
    <2> HIDE DEF P
    <2>1. P \in SUBSET (SUBSET D)
      BY DEF P
    <2> QED BY Zenon, <1>fin, <1>1, <1>2, <2>1, SubsetInduction
  <1>4. Summable(h) /\ DOMAIN h = A
    <2>1. IsFiniteSet(A)
      BY <1>fin, FS_Subset
    <2> QED BY <1>fin, <2>1 DEF Summable
  <1>5. Summable(r) /\ DOMAIN r = D \ A /\ \A x \in D \ A : r[x] = f[x]
    BY WithoutType
  <1>6. \A x \in A : h[x] = f[x]
    OBVIOUS
  <1> HIDE DEF h, r
  <1>7. g[A] = Sums(h)[A]
    BY <1>4, <1>6, SumsAgree DEF g
  <1>8. g[D \ A] = Sums(r)[D \ A]
    BY <1>5, SumsAgree DEF g
  <1>9. SumOfFunction(f) = SumOfFunction(h) + SumOfFunction(r)
    BY <1>3, <1>4, <1>5, <1>7, <1>8, SumIsLast DEF g
  <1> QED BY <1>4, <1>9 DEF h, r

(* Larger values make a larger sum. *)
LEMMA SumLE ==
    ASSUME NEW f, Summable(f), NEW h, Summable(h), DOMAIN f = DOMAIN h,
           \A x \in DOMAIN f : f[x] <= h[x]
    PROVE  SumOfFunction(f) <= SumOfFunction(h)
  <1> DEFINE D == DOMAIN f
             a == Sums(f)
             b == Sums(h)
             P == {s \in SUBSET D : a[s] <= b[s]}
  <1>fin. IsFiniteSet(D) /\ \A x \in D : f[x] \in Int /\ h[x] \in Int
    BY DEF Summable
  <1>g. /\ a[{}] = 0 /\ b[{}] = 0
        /\ \A s \in SUBSET D : a[s] \in Int /\ b[s] \in Int
        /\ \A s \in SUBSET D : \A x \in D \ s : /\ a[s \union {x}] = f[x] + a[s]
                                               /\ b[s \union {x}] = h[x] + b[s]
    BY SumsStep, SumsType, SumsAdd
  <1> HIDE DEF a, b
  <1>1. {} \in P
    BY <1>g
  <1>2. ASSUME NEW t \in P, NEW x \in D \ t PROVE t \union {x} \in P
    <2>1. a[t \union {x}] = f[x] + a[t] /\ b[t \union {x}] = h[x] + b[t]
      BY <1>g
    <2>2. f[x] \in Int /\ h[x] \in Int /\ a[t] \in Int /\ b[t] \in Int /\ f[x] <= h[x]
      BY <1>fin, <1>g
    <2>3. a[t] <= b[t]
      OBVIOUS
    <2>4. a[t \union {x}] <= b[t \union {x}]
      BY <2>1, <2>2, <2>3
    <2> QED BY <2>4
  <1>3. D \in P
    <2> HIDE DEF P
    <2>1. P \in SUBSET (SUBSET D)
      BY DEF P
    <2> QED BY Zenon, <1>fin, <1>1, <1>2, <2>1, SubsetInduction
  <1> QED BY <1>3, SumIsLast DEF a, b

LEMMA SumNotNegative ==
    ASSUME NEW f, Summable(f), \A x \in DOMAIN f : f[x] >= 0
    PROVE  /\ SumOfFunction(f) \in Nat
           /\ \A x \in DOMAIN f : f[x] <= SumOfFunction(f)
  <1>1. ASSUME NEW h, Summable(h), \A x \in DOMAIN h : h[x] >= 0
        PROVE  SumOfFunction(h) \in Nat
    <2> DEFINE g == Sums(h)
               D == DOMAIN h
               P == {s \in SUBSET D : g[s] \in Nat}
    <2>fin. IsFiniteSet(D) /\ \A x \in D : h[x] \in Nat
      <3>1. IsFiniteSet(D) /\ \A x \in D : h[x] \in Int /\ h[x] >= 0
        BY <1>1 DEF Summable
      <3>2. \A i \in Int : i >= 0 => i \in Nat
        OBVIOUS
      <3> QED BY <3>1, <3>2
    <2>g. /\ g[{}] = 0
          /\ \A s \in SUBSET D : \A x \in D \ s : g[s \union {x}] = h[x] + g[s]
      BY <1>1, SumsStep, SumsAdd
    <2> HIDE DEF g
    <2>1. {} \in P
      BY <2>g
    <2>2. ASSUME NEW t \in P, NEW x \in D \ t PROVE t \union {x} \in P
      <3>1. g[t \union {x}] = h[x] + g[t] /\ h[x] \in Nat /\ g[t] \in Nat
        BY <2>fin, <2>g
      <3> QED BY <3>1
    <2>3. D \in P
      <3> HIDE DEF P
      <3>1. P \in SUBSET (SUBSET D)
        BY DEF P
      <3> QED BY Zenon, <2>fin, <2>1, <2>2, <3>1, SubsetInduction
    <2> QED BY <2>3, SumIsLast DEF g
  <1>2. SumOfFunction(f) \in Nat
    BY <1>1
  <1>3. ASSUME NEW x \in DOMAIN f PROVE f[x] <= SumOfFunction(f)
    <2> DEFINE r == WithoutEntries(f, {x})
    <2>1. Summable(r) /\ \A y \in DOMAIN r : r[y] >= 0
      <3>1. /\ Summable(r) /\ DOMAIN r = DOMAIN f \ {x}
            /\ \A y \in DOMAIN f \ {x} : r[y] = f[y]
        BY Zenon, WithoutType
      <3> HIDE DEF r
      <3> QED BY <3>1
    <2> HIDE DEF r
    <2>2. SumOfFunction(r) \in Nat
      BY <1>1, <2>1
    <2>3. SumOfFunction(f) = f[x] + SumOfFunction(r)
      BY SumRemove DEF r
    <2>4. f[x] \in Int
      BY DEF Summable
    <2> QED BY <2>2, <2>3, <2>4
  <1> QED BY <1>2, <1>3

LEMMA SumZero ==
    ASSUME NEW f, IsFiniteSet(DOMAIN f), \A x \in DOMAIN f : f[x] = 0
    PROVE  Summable(f) /\ SumOfFunction(f) = 0
  <1> DEFINE g == Sums(f)
             D == DOMAIN f
             P == {s \in SUBSET D : g[s] = 0}
  <1>sum. Summable(f)
    BY DEF Summable
  <1>g. /\ g[{}] = 0
        /\ \A s \in SUBSET D : \A x \in D \ s : g[s \union {x}] = f[x] + g[s]
    BY <1>sum, SumsStep, SumsAdd
  <1> HIDE DEF g
  <1>1. {} \in P
    BY <1>g
  <1>2. ASSUME NEW t \in P, NEW x \in D \ t PROVE t \union {x} \in P
    <2>1. g[t \union {x}] = f[x] + g[t] /\ f[x] = 0 /\ g[t] = 0
      BY <1>g
    <2> QED BY <2>1
  <1>3. D \in P
    <2> HIDE DEF P
    <2>1. P \in SUBSET (SUBSET D)
      BY DEF P
    <2> QED BY Zenon, <1>1, <1>2, <2>1, SubsetInduction
  <1> QED BY <1>sum, <1>3, SumIsLast DEF g

-----------------------------------------------------------------------------
(* Largest and smallest elements. *)

LEMMA MaxPair ==
    ASSUME NEW x \in Int, NEW y \in Int
    PROVE  Max({x, y}) = IF x >= y THEN x ELSE y
  <1>1. CASE x >= y
    <2>1. \A z \in {x, y} : (\A w \in {x, y} : z >= w) <=> z = x
      BY <1>1
    <2> QED BY <1>1, <2>1 DEF Max
  <1>2. CASE ~(x >= y)
    <2>1. \A z \in {x, y} : (\A w \in {x, y} : z >= w) <=> z = y
      BY <1>2
    <2> QED BY <1>2, <2>1 DEF Max
  <1> QED BY <1>1, <1>2

LEMMA MinPair ==
    ASSUME NEW x \in Int, NEW y \in Int
    PROVE  Min({x, y}) = IF x <= y THEN x ELSE y
  <1>1. CASE x <= y
    <2>1. \A z \in {x, y} : (\A w \in {x, y} : z <= w) <=> z = x
      BY <1>1
    <2> QED BY <1>1, <2>1 DEF Min
  <1>2. CASE ~(x <= y)
    <2>1. \A z \in {x, y} : (\A w \in {x, y} : z <= w) <=> z = y
      BY <1>2
    <2> QED BY <1>2, <2>1 DEF Min
  <1> QED BY <1>1, <1>2

LEMMA Extremes ==
    ASSUME NEW D \in SUBSET Int, IsFiniteSet(D)
    PROVE  \A s \in SUBSET D : s # {} => /\ \E x \in s : \A y \in s : x >= y
                                       /\ \E x \in s : \A y \in s : x <= y
  <1> DEFINE Good(s) == s # {} => /\ \E x \in s : \A y \in s : x >= y
                                  /\ \E x \in s : \A y \in s : x <= y
             P == {s \in SUBSET D : Good(s)}
  <1>1. {} \in P
    OBVIOUS
  <1>2. ASSUME NEW t \in P, NEW x \in D \ t PROVE t \union {x} \in P
    <2>1. CASE t = {}
      <3>1. t \union {x} = {x} /\ x >= x /\ x <= x
        BY <2>1
      <3> QED BY <3>1
    <2>2. CASE t # {}
      <3>1. PICK u \in t : \A y \in t : u >= y
        BY <2>2
      <3>2. PICK v \in t : \A y \in t : v <= y
        BY <2>2
      <3>3. \E w \in t \union {x} : \A y \in t \union {x} : w >= y
        <4>1. CASE u >= x
          BY <3>1, <4>1
        <4>2. CASE x >= u
          BY <3>1, <4>2
        <4> QED BY <4>1, <4>2
      <3>4. \E w \in t \union {x} : \A y \in t \union {x} : w <= y
        <4>1. CASE v <= x
          BY <3>2, <4>1
        <4>2. CASE x <= v
          BY <3>2, <4>2
        <4> QED BY <4>1, <4>2
      <3> QED BY <3>3, <3>4
    <2> QED BY <2>1, <2>2
  <1> HIDE DEF P
  <1>3. P \in SUBSET (SUBSET D)
    BY DEF P
  <1>4. \A s \in SUBSET D : s \in P
    BY Zenon, <1>1, <1>2, <1>3, SubsetInduction
  <1> QED BY <1>4 DEF P

LEMMA MaxOf ==
    ASSUME NEW S \in SUBSET Int, IsFiniteSet(S), S # {}
    PROVE  Max(S) \in S /\ \A y \in S : Max(S) >= y
  <1>1. \E x \in S : \A y \in S : x >= y
    BY Extremes
  <1> QED BY Zenon, <1>1 DEF Max

(* Induction from the largest element down. *)
LEMMA DescendingInduction ==
    ASSUME NEW D \in SUBSET Int, IsFiniteSet(D), NEW P \in SUBSET (SUBSET D), {} \in P,
           \A t \in P : \A x \in D \ t : (\A y \in t : x < y) => t \union {x} \in P
    PROVE  D \in P
  <1> DEFINE T == {n \in Nat : \A s \in SUBSET D : Cardinality(s) = n => s \in P}
  <1>1. 0 \in T
    BY Zenon, Smaller
  <1>2. ASSUME NEW n \in T PROVE n + 1 \in T
    <2>1. n \in Nat /\ n + 1 \in Nat /\ n + 1 # 0 /\ n + 1 - 1 = n
      OBVIOUS
    <2> SUFFICES ASSUME NEW s \in SUBSET D, Cardinality(s) = n + 1 PROVE s \in P
      BY <2>1
    <2>2. s # {}
      BY <2>1, Smaller
    <2>3. PICK x \in s : \A y \in s : x <= y
      BY <2>2, Extremes
    <2>4. s \ {x} \in SUBSET D /\ Cardinality(s \ {x}) = n
      <3>1. \A z \in s : Cardinality(s \ {z}) = Cardinality(s) - 1
        BY Zenon, Smaller
      <3> QED BY <2>1, <3>1
    <2>5. s \ {x} \in P
      BY <2>4
    <2>6. (s \ {x}) \union {x} = s /\ x \in D \ (s \ {x})
      BY <2>3
    <2>7. \A y \in s \ {x} : x < y
      BY <2>3
    <2> QED BY <2>5, <2>6, <2>7
  <1> HIDE DEF T
  <1>3. T = Nat
    <2>1. T \in SUBSET Nat
      BY DEF T
    <2> QED BY <1>1, <1>2, <2>1, SetInduction
  <1>4. Cardinality(D) \in Nat
    BY Smaller
  <1> QED BY <1>3, <1>4 DEF T

-----------------------------------------------------------------------------
(* The amounts of a pledge_balance_object. *)

(* What an object is between two operations: its amounts are not negative, *)
(* each entry that is being released is positive, and they add up.         *)
PledgeOK(p) ==
    /\ p = [pledge |-> p.pledge, total |-> p.total, releasing |-> p.releasing]
    /\ p.pledge \in Nat /\ p.total \in Nat
    /\ DOMAIN p.releasing \subseteq Nat /\ IsFiniteSet(DOMAIN p.releasing)
    /\ p.releasing \in [DOMAIN p.releasing -> Nat \ {0}]
    /\ EntriesAddUp(p)

LEMMA NewPledgeOK ==
    ASSUME NEW n \in Nat
    PROVE  /\ PledgeOK(NewPledge(n)) /\ NewPledge(n).pledge = n
           /\ TotalUnreleased(NewPledge(n)) = n /\ DOMAIN NewPledge(n).releasing = {}
  <1> DEFINE p == NewPledge(n)
  <1>1. /\ p = [pledge |-> n, total |-> 0, releasing |-> NothingReleasing]
        /\ p.pledge = n /\ p.total = 0 /\ p.releasing = NothingReleasing
    BY DEF NewPledge
  <1>2. DOMAIN NothingReleasing = {} /\ NothingReleasing \in [{} -> Nat \ {0}]
    BY DEF NothingReleasing
  <1>3. SumOfFunction(NothingReleasing) = 0
    BY <1>2, SumEmpty
  <1>4. TotalUnreleased(p) = n
    BY <1>1 DEF TotalUnreleased
  <1> HIDE DEF p
  <1>5. PledgeOK(p)
    BY <1>1, <1>2, <1>3, FS_EmptySet DEF PledgeOK, EntriesAddUp
  <1> QED BY <1>1, <1>2, <1>4, <1>5 DEF p

LEMMA EntriesSum ==
    ASSUME NEW p, PledgeOK(p)
    PROVE  Summable(p.releasing) /\ p.total = SumOfFunction(p.releasing)
  BY DEF PledgeOK, Summable, EntriesAddUp

(* new_releasing, at a block that is not before any entry: the amount is   *)
(* added to the entries, also when it has to be merged with the last one.  *)
LEMMA NewReleasingOK ==
    ASSUME NEW p, PledgeOK(p), NEW n \in Nat \ {0}, NEW at \in Nat,
           \A b \in DOMAIN p.releasing : b <= at
    PROVE  LET q == NewReleasing(p, n, at)
           IN /\ PledgeOK(q) /\ q.pledge = p.pledge /\ q.total = p.total + n
              /\ DOMAIN q.releasing \subseteq DOMAIN p.releasing \union {at}
  <1> DEFINE f == p.releasing
             D == DOMAIN f
             last == Max(D)
             old == IF at \in D THEN f[at] ELSE 0
             g == WithoutEntries(f, {last})
             h == IF Cardinality(D) = MaxPledgeReleasing
                  THEN WithEntry(g, at, f[last] + n) ELSE WithEntry(f, at, n + old)
             q == NewReleasing(p, n, at)
  <1>f. /\ Summable(f) /\ p.total = SumOfFunction(f) /\ p.total \in Nat /\ p.pledge \in Nat
        /\ D \subseteq Nat /\ IsFiniteSet(D) /\ \A b \in D : f[b] \in Nat \ {0}
    BY EntriesSum DEF PledgeOK
  <1>q. /\ q = [pledge |-> p.pledge, total |-> p.total + n, releasing |-> h]
        /\ q.pledge = p.pledge /\ q.total = p.total + n /\ q.releasing = h
    <2>1. p = [pledge |-> p.pledge, total |-> p.total, releasing |-> f]
      BY DEF PledgeOK
    <2>2. q = [p EXCEPT !.total = p.total + n, !.releasing = h]
      BY <2>1 DEF NewReleasing
    <2> HIDE DEF q, h, f
    <2> QED BY Zenon, <2>1, <2>2
  <1> HIDE DEF f, q
  <1>1. /\ Summable(h) /\ SumOfFunction(h) = p.total + n
        /\ DOMAIN h \subseteq D \union {at}
        /\ h \in [DOMAIN h -> Nat \ {0}]
    <2>1. CASE Cardinality(D) = MaxPledgeReleasing
      <3>1. D # {}
        BY <2>1, FS_EmptySet, PledgeAssumption
      <3>2. last \in D /\ \A b \in D : last >= b
        BY <1>f, <3>1, MaxOf
      <3>3. at \notin D \ {last}
        BY <1>f, <3>2 DEF f
      <3> HIDE DEF last
      <3>4. /\ Summable(g) /\ DOMAIN g = D \ {last} /\ \A b \in D \ {last} : g[b] = f[b]
        BY <1>f, WithoutType
      <3>5. SumOfFunction(f) = f[last] + SumOfFunction(g) /\ SumOfFunction(g) \in Int
        BY <1>f, <3>2, <3>4, SumRemove, SumType
      <3> HIDE DEF g
      <3>6. f[last] \in Nat \ {0} /\ f[last] + n \in Nat \ {0}
        BY <1>f, <3>2
      <3>7. h = WithEntry(g, at, f[last] + n)
        BY <2>1
      <3>8. Summable(h) /\ SumOfFunction(h) = SumOfFunction(g) + (f[last] + n) - 0
        BY <3>3, <3>4, <3>6, <3>7, SumEntry
      <3>9. DOMAIN h = (D \ {last}) \union {at} /\ h \in [DOMAIN h -> Nat \ {0}]
        BY <1>f, <3>4, <3>6, <3>7 DEF WithEntry
      <3>10. SumOfFunction(h) = p.total + n
        BY <1>f, <3>5, <3>6, <3>8
      <3> QED BY <3>8, <3>9, <3>10
    <2>2. CASE Cardinality(D) # MaxPledgeReleasing
      <3>1. h = WithEntry(f, at, n + old)
        BY <2>2
      <3>2. old \in Nat /\ n + old \in Nat \ {0}
        BY <1>f
      <3>3. Summable(h) /\ SumOfFunction(h) = SumOfFunction(f) + (n + old) - old
        BY <1>f, <3>1, <3>2, SumEntry
      <3> HIDE DEF old, h
      <3>4. DOMAIN h = D \union {at} /\ h \in [DOMAIN h -> Nat \ {0}]
        BY <1>f, <3>1, <3>2 DEF WithEntry
      <3>5. SumOfFunction(h) = p.total + n
        BY <1>f, <3>2, <3>3
      <3> QED BY <3>3, <3>4, <3>5
    <2> QED BY <2>1, <2>2
  <1> HIDE DEF h
  <1>2. PledgeOK(q)
    <2>1. DOMAIN h \subseteq Nat /\ IsFiniteSet(DOMAIN h) /\ p.total + n \in Nat
      BY <1>f, <1>1 DEF Summable
    <2> QED BY <1>f, <1>q, <1>1, <2>1 DEF PledgeOK, EntriesAddUp
  <1> QED BY <1>q, <1>1, <1>2 DEF q, f

(* What is left of the entries of a set when an amount is taken from them, *)
(* the last one first.                                                     *)
Exceeding(f, s, n, b) == Sums(f)[{x \in s : x >= b}] - n
LeftOf(f, s, n, b) == Min({f[b], Max({0, Exceeding(f, s, n, b)})})

LEMMA LeftValue ==
    ASSUME NEW f, Summable(f), DOMAIN f \subseteq Int, \A x \in DOMAIN f : f[x] > 0,
           NEW n \in Nat, NEW s \in SUBSET (DOMAIN f), NEW b \in s
    PROVE  /\ LeftOf(f, s, n, b) =
                  IF Exceeding(f, s, n, b) <= 0 THEN 0
                  ELSE IF f[b] <= Exceeding(f, s, n, b) THEN f[b] ELSE Exceeding(f, s, n, b)
           /\ LeftOf(f, s, n, b) \in Nat
  <1> DEFINE u == Exceeding(f, s, n, b)
             m == Max({0, u})
  <1>1. {x \in s : x >= b} \in SUBSET (DOMAIN f)
    OBVIOUS
  <1>2. u \in Int
    BY <1>1, SumsType DEF Exceeding
  <1> HIDE DEF u
  <1>3. f[b] \in Int /\ f[b] > 0
    BY DEF Summable
  <1>4. m = IF 0 >= u THEN 0 ELSE u
    <2>1. \A v \in Int : Max({0, v}) = IF 0 >= v THEN 0 ELSE v
      BY MaxPair
    <2> QED BY <1>2, <2>1
  <1> HIDE DEF m
  <1>5. m \in Int /\ LeftOf(f, s, n, b) = IF f[b] <= m THEN f[b] ELSE m
    <2>1. m \in Int
      BY <1>2, <1>4
    <2>2. LeftOf(f, s, n, b) = Min({f[b], m})
      BY DEF LeftOf, m, u
    <2> QED BY <1>3, <2>1, <2>2, MinPair
  <1>6. /\ LeftOf(f, s, n, b) = IF u <= 0 THEN 0 ELSE IF f[b] <= u THEN f[b] ELSE u
        /\ LeftOf(f, s, n, b) \in Nat
    BY <1>2, <1>3, <1>4, <1>5
  <1> QED BY <1>6 DEF u

LEMMA LeftType ==
    ASSUME NEW f, Summable(f), DOMAIN f \subseteq Int, \A x \in DOMAIN f : f[x] > 0,
           NEW n \in Nat, NEW s \in SUBSET (DOMAIN f), NEW b \in s
    PROVE  LeftOf(f, s, n, b) \in Nat
  BY LeftValue

(* Taken together they are what there was without the amount. *)
LEMMA LeftAddsUp ==
    ASSUME NEW f, Summable(f), DOMAIN f \subseteq Int, \A x \in DOMAIN f : f[x] > 0,
           NEW n \in Nat, n <= SumOfFunction(f)
    PROVE  LET h == [b \in DOMAIN f |-> LeftOf(f, DOMAIN f, n, b)]
           IN Summable(h) /\ SumOfFunction(h) = SumOfFunction(f) - n
  <1> DEFINE D == DOMAIN f
             g == Sums(f)
             h(s) == [b \in s |-> LeftOf(f, s, n, b)]
             P == {s \in SUBSET D : /\ g[s] >= 0
                                    /\ SumOfFunction(h(s)) = IF g[s] >= n THEN g[s] - n ELSE 0}
  <1>fin. IsFiniteSet(D) /\ \A x \in D : f[x] \in Int /\ f[x] > 0
    BY DEF Summable
  <1>h. ASSUME NEW s \in SUBSET D PROVE Summable(h(s)) /\ DOMAIN h(s) = s
    <2>1. IsFiniteSet(s)
      BY <1>fin, FS_Subset
    <2>2. \A b \in s : LeftOf(f, s, n, b) \in Int
      <3>1. \A b \in s : LeftOf(f, s, n, b) \in Nat
        BY LeftType
      <3> QED BY <3>1
    <2> QED BY <2>1, <2>2 DEF Summable
  <1>1. {} \in P
    <2>1. SumOfFunction(h({})) = 0
      BY SumEmpty
    <2>2. g[{}] = 0
      BY SumsStep
    <2> HIDE DEF g
    <2> QED BY <2>1, <2>2
  <1>2. ASSUME NEW t \in P, NEW x \in D \ t, \A y \in t : x < y PROVE t \union {x} \in P
    <2> DEFINE s == t \union {x}
               u == g[s] - n
    <2>1. s \in SUBSET D /\ x \in s /\ t \in SUBSET D
      OBVIOUS
    <2>2. \A b \in t : {y \in s : y >= b} = {y \in t : y >= b}
      BY <1>2
    <2>3. {y \in s : y >= x} = s
      BY <1>2
    <2>4. \A b \in t : LeftOf(f, s, n, b) = LeftOf(f, t, n, b)
      BY Zenon, <2>2 DEF LeftOf, Exceeding
    <2>5. WithoutEntries(h(s), {x}) = h(t)
      <3>1. DOMAIN h(s) \ {x} = t
        OBVIOUS
      <3>2. WithoutEntries(h(s), {x}) = [y \in t |-> h(s)[y]]
        BY <3>1 DEF WithoutEntries
      <3>3. \A y \in t : h(s)[y] = LeftOf(f, t, n, y)
        BY <2>4
      <3> QED BY <3>2, <3>3
    <2>6. SumOfFunction(h(s)) = h(s)[x] + SumOfFunction(h(t))
      BY <1>h, <2>1, <2>5, SumRemove
    <2>7. h(s)[x] = IF u <= 0 THEN 0 ELSE IF f[x] <= u THEN f[x] ELSE u
      <3>1. u = Exceeding(f, s, n, x)
        BY <2>3 DEF Exceeding
      <3> HIDE DEF s, u
      <3>2. LeftOf(f, s, n, x) = IF u <= 0 THEN 0 ELSE IF f[x] <= u THEN f[x] ELSE u
        BY <2>1, <3>1, LeftValue
      <3> QED BY <2>1, <3>2
    <2>8. g[s] = f[x] + g[t] /\ g[t] \in Int /\ g[s] \in Int
      BY <2>1, SumsAdd, SumsType
    <2>9. g[t] >= 0 /\ SumOfFunction(h(t)) = IF g[t] >= n THEN g[t] - n ELSE 0
      OBVIOUS
    <2> HIDE DEF g, h, s
    <2>10. /\ g[s] >= 0
           /\ SumOfFunction(h(s)) = IF g[s] >= n THEN g[s] - n ELSE 0
      BY <1>fin, <2>6, <2>7, <2>8, <2>9
    <2> QED BY <2>1, <2>10 DEF s
  <1>3. D \in P
    <2> HIDE DEF P
    <2>1. P \in SUBSET (SUBSET D)
      BY DEF P
    <2> QED BY Zenon, <1>fin, <1>1, <1>2, <2>1, DescendingInduction
  <1>4. SumOfFunction(h(D)) = SumOfFunction(f) - n
    BY <1>3, SumIsLast
  <1>5. Summable(h(D))
    BY <1>h
  <1> QED BY <1>4, <1>5

(* reduce_releasing: no more is taken than there is, from the last entry   *)
(* down, and the entries that are used up disappear.                       *)
LEMMA ReduceReleasingOK ==
    ASSUME NEW p, PledgeOK(p), NEW n \in Nat, n <= p.total
    PROVE  LET q == ReduceReleasing(p, n)
           IN /\ PledgeOK(q) /\ q.pledge = p.pledge /\ q.total = p.total - n
              /\ DOMAIN q.releasing \subseteq DOMAIN p.releasing
  <1> DEFINE f == p.releasing
             D == DOMAIN f
             Upto(b) == SumOfFunction(WithoutEntries(f, {x \in D : x < b}))
             Left(b) == Min({f[b], Max({0, Upto(b) - n})})
             h == [b \in D |-> LeftOf(f, D, n, b)]
             A == {b \in D : Left(b) > 0}
             r == [b \in A |-> Left(b)]
             q == ReduceReleasing(p, n)
  <1>f. /\ Summable(f) /\ p.total = SumOfFunction(f) /\ p.total \in Nat /\ p.pledge \in Nat
        /\ D \subseteq Int /\ D \subseteq Nat /\ IsFiniteSet(D)
        /\ \A b \in D : f[b] \in Nat \ {0} /\ f[b] > 0
    BY EntriesSum DEF PledgeOK
  <1>q. /\ q = [pledge |-> p.pledge, total |-> p.total - n, releasing |-> r]
        /\ q.pledge = p.pledge /\ q.total = p.total - n /\ q.releasing = r
    <2>1. p = [pledge |-> p.pledge, total |-> p.total, releasing |-> f]
      BY DEF PledgeOK
    <2>2. q = [p EXCEPT !.total = p.total - n, !.releasing = r]
      BY <2>1 DEF ReduceReleasing
    <2> HIDE DEF q, r, f
    <2> QED BY Zenon, <2>1, <2>2
  <1> HIDE DEF f, q
  <1>1. ASSUME NEW b \in D PROVE Left(b) = h[b]
    <2> DEFINE w == WithoutEntries(f, {x \in D : x < b})
               S == {x \in D : x >= b}
    <2>1. S = D \ {x \in D : x < b}
      BY <1>f
    <2>2. Summable(w) /\ DOMAIN w = S /\ \A x \in S : w[x] = f[x]
      BY Zenon, <1>f, <2>1, WithoutType
    <2> HIDE DEF w
    <2>3. Sums(w)[S] = Sums(f)[S]
      BY <1>f, <2>2, SumsAgree
    <2>4. Upto(b) = Sums(f)[S]
      BY <2>2, <2>3, SumIsLast DEF w
    <2> QED BY Zenon, <2>4 DEF LeftOf, Exceeding
  <1>2. Summable(h) /\ SumOfFunction(h) = p.total - n
    BY <1>f, LeftAddsUp
  <1>3. DOMAIN h = D /\ \A b \in D : h[b] \in Nat
    BY <1>f, LeftType
  <1>4. A \subseteq D /\ r = [b \in A |-> h[b]] /\ \A b \in D : b \in A <=> h[b] > 0
    <2>1. \A b \in D : Left(b) = h[b]
      BY Zenon, <1>1
    <2> HIDE DEF Left, h
    <2> QED BY <2>1
  <1> HIDE DEF h, A, r
  <1>5. DOMAIN r = A /\ r \in [A -> Nat \ {0}] /\ IsFiniteSet(A)
    <2>1. \A i \in Nat : i > 0 => i \in Nat \ {0}
      OBVIOUS
    <2> QED BY <1>f, <1>3, <1>4, <2>1, FS_Subset
  <1>6. Summable(r) /\ SumOfFunction(h) = SumOfFunction(r) + SumOfFunction(WithoutEntries(h, A))
    BY <1>2, <1>3, <1>4, SumSplit
  <1>7. SumOfFunction(WithoutEntries(h, A)) = 0
    <2> DEFINE w == WithoutEntries(h, A)
    <2>1. Summable(w) /\ DOMAIN w = D \ A /\ \A b \in D \ A : w[b] = h[b]
      BY Zenon, <1>2, <1>3, WithoutType
    <2>2. \A b \in D \ A : h[b] = 0
      BY <1>3, <1>4
    <2> HIDE DEF w
    <2>3. IsFiniteSet(DOMAIN w) /\ \A b \in DOMAIN w : w[b] = 0
      BY <2>1, <2>2 DEF Summable
    <2> QED BY <2>3, SumZero DEF w
  <1>8. SumOfFunction(r) = p.total - n
    <2>1. SumOfFunction(r) \in Int
      BY <1>6, SumType
    <2> QED BY <1>2, <1>6, <1>7, <2>1
  <1>9. PledgeOK(q)
    <2>1. p.total - n \in Nat
      BY <1>f
    <2> QED BY <1>f, <1>q, <1>4, <1>5, <1>8, <2>1 DEF PledgeOK, EntriesAddUp
  <1> QED BY <1>q, <1>4, <1>5, <1>9 DEF q, f

(* update_pledge: the object has the new pledge, and the account loses what *)
(* the new pledge needs beyond all that was pledged or being released.     *)
LEMMA UpdatePledgeOK ==
    ASSUME NEW p, PledgeOK(p), NEW new \in Nat, NEW at \in Nat,
           \A b \in DOMAIN p.releasing : b <= at,
           NEW q, q = UpdatePledge(p, new, at)
    PROVE  /\ PledgeOK(q) /\ q.pledge = new
           /\ PledgeDelta(p, new) \in Nat
           /\ TotalUnreleased(q) = TotalUnreleased(p) + PledgeDelta(p, new)
           /\ DOMAIN q.releasing \subseteq DOMAIN p.releasing \union {at}
           /\ new = 0 => PledgeDelta(p, new) = 0
           /\ new >= TotalUnreleased(p) => TotalUnreleased(q) = new
           /\ new <= TotalUnreleased(p) => TotalUnreleased(q) = TotalUnreleased(p)
  <1> DEFINE less == p.pledge - new
             r == [p EXCEPT !.pledge = new]
             d == PledgeDelta(p, new)
             tu == TotalUnreleased(p)
  <1>p. /\ p = [pledge |-> p.pledge, total |-> p.total, releasing |-> p.releasing]
        /\ p.pledge \in Nat /\ p.total \in Nat /\ tu = p.pledge + p.total /\ tu \in Nat
    BY DEF PledgeOK, TotalUnreleased
  <1>r. r = [pledge |-> new, total |-> p.total, releasing |-> p.releasing]
    BY <1>p
  <1>rok. PledgeOK(r) /\ r.pledge = new /\ r.total = p.total /\ r.releasing = p.releasing
    <2> HIDE DEF r
    <2>1. r.pledge = new /\ r.total = p.total /\ r.releasing = p.releasing
      BY <1>r
    <2> QED BY <1>r, <2>1 DEF PledgeOK, EntriesAddUp
  <1>d. d = IF 0 >= new - tu THEN 0 ELSE new - tu
    <2>1. \A v \in Int : Max({0, v}) = IF 0 >= v THEN 0 ELSE v
      BY MaxPair
    <2>2. new - tu \in Int
      BY <1>p
    <2>3. d = Max({0, new - tu})
      BY DEF PledgeDelta
    <2> HIDE DEF tu
    <2> QED BY <2>1, <2>2, <2>3
  <1>u. q = IF new >= tu THEN NewPledge(new)
            ELSE IF less > 0 THEN NewReleasing(r, less, at) ELSE ReduceReleasing(r, -less)
    BY DEF UpdatePledge
  <1> HIDE DEF r, d, tu
  <1>1. CASE new >= tu
    <2>1. q = NewPledge(new)
      BY <1>u, <1>1
    <2>2. /\ PledgeOK(q) /\ q.pledge = new /\ TotalUnreleased(q) = new
          /\ DOMAIN q.releasing = {}
      BY <2>1, NewPledgeOK
    <2>3. d = new - tu
      BY <1>p, <1>d, <1>1
    <2>4. d \in Nat /\ new = tu + d /\ (new = 0 => d = 0) /\ (new <= tu => new = tu)
      BY <1>p, <1>1, <2>3
    <2> QED BY <2>2, <2>4 DEF d, tu
  <1>2. CASE ~(new >= tu) /\ less > 0
    <2>1. q = NewReleasing(r, less, at)
      BY <1>u, <1>2
    <2>2. less \in Nat \ {0}
      BY <1>p, <1>2
    <2> HIDE DEF less
    <2>3. /\ PledgeOK(q) /\ q.pledge = new /\ q.total = p.total + less
          /\ DOMAIN q.releasing \subseteq DOMAIN p.releasing \union {at}
      BY <1>rok, <2>1, <2>2, NewReleasingOK
    <2>4. d = 0
      BY <1>p, <1>d, <1>2
    <2>5. TotalUnreleased(q) = tu
      BY <1>p, <2>3 DEF TotalUnreleased, less
    <2> QED BY <1>p, <1>2, <2>3, <2>4, <2>5 DEF d, tu
  <1>3. CASE ~(new >= tu) /\ ~(less > 0)
    <2>1. q = ReduceReleasing(r, -less)
      BY <1>u, <1>3
    <2>2. -less \in Nat /\ -less <= r.total
      BY <1>p, <1>rok, <1>3
    <2>3. /\ PledgeOK(q) /\ q.pledge = new /\ q.total = p.total - (-less)
          /\ DOMAIN q.releasing \subseteq DOMAIN p.releasing
      <3> HIDE DEF less
      <3> QED BY <1>rok, <2>1, <2>2, ReduceReleasingOK
    <2>4. d = 0
      BY <1>p, <1>d, <1>3
    <2>5. TotalUnreleased(q) = tu
      BY <1>p, <2>3 DEF TotalUnreleased
    <2> QED BY <1>p, <1>3, <2>3, <2>4, <2>5 DEF d, tu
  <1> QED BY <1>1, <1>2, <1>3

(* process_pledge_balance_release: the entries up to the block are gone,   *)
(* and with them the amounts.                                              *)
LEMMA ReleaseDueOK ==
    ASSUME NEW p, PledgeOK(p), NEW head \in Nat, NEW q, q = ReleaseDue(p, head)
    PROVE  /\ PledgeOK(q) /\ q.pledge = p.pledge
           /\ Released(p, head) \in Nat
           /\ TotalUnreleased(q) = TotalUnreleased(p) - Released(p, head)
           /\ DOMAIN q.releasing = {b \in DOMAIN p.releasing : b > head}
           /\ Due(p, head) = {} => Released(p, head) = 0
  <1> DEFINE f == p.releasing
             D == DOMAIN f
             A == Due(p, head)
             a == [b \in A |-> f[b]]
             w == WithoutEntries(f, A)
             n == Released(p, head)
  <1>f. /\ Summable(f) /\ p.total = SumOfFunction(f) /\ p.total \in Nat /\ p.pledge \in Nat
        /\ D \subseteq Nat /\ IsFiniteSet(D) /\ \A b \in D : f[b] \in Nat \ {0}
        /\ p = [pledge |-> p.pledge, total |-> p.total, releasing |-> f]
    BY EntriesSum DEF PledgeOK
  <1>q. /\ q = [pledge |-> p.pledge, total |-> p.total - n, releasing |-> w]
        /\ q.pledge = p.pledge /\ q.total = p.total - n /\ q.releasing = w
    <2>1. q = [p EXCEPT !.total = p.total - n, !.releasing = w]
      BY <1>f DEF ReleaseDue
    <2> HIDE DEF n, w, f
    <2> QED BY Zenon, <1>f, <2>1
  <1> HIDE DEF f
  <1>1. A \in SUBSET D /\ D \ A = {b \in D : b > head}
    BY <1>f DEF Due, f
  <1>2. n = SumOfFunction(a)
    BY DEF Released, f
  <1> HIDE DEF A, n
  <1>3. Summable(a) /\ SumOfFunction(f) = SumOfFunction(a) + SumOfFunction(w)
    BY <1>f, <1>1, SumSplit
  <1>4. Summable(w) /\ DOMAIN w = D \ A /\ \A b \in D \ A : w[b] = f[b]
    BY <1>f, WithoutType
  <1>w. w \in [DOMAIN w -> Nat \ {0}]
    <2>1. w = [b \in D \ A |-> f[b]]
      BY DEF WithoutEntries
    <2> QED BY <1>f, <1>1, <1>4, <2>1
  <1>5. DOMAIN a = A /\ \A b \in A : a[b] >= 0
    BY <1>f, <1>1
  <1> HIDE DEF a, w
  <1>6. SumOfFunction(a) \in Nat
    BY <1>3, <1>5, SumNotNegative
  <1>7. SumOfFunction(w) \in Nat
    <2>1. \A b \in DOMAIN w : w[b] >= 0
      BY <1>f, <1>4
    <2> QED BY <1>4, <2>1, SumNotNegative
  <1>8. p.total - n = SumOfFunction(w)
    BY <1>f, <1>2, <1>3, <1>6, <1>7
  <1>9. PledgeOK(q)
    <2>1. DOMAIN w \subseteq Nat /\ IsFiniteSet(DOMAIN w)
      BY <1>f, <1>1, <1>4 DEF Summable
    <2> QED BY <1>f, <1>q, <1>7, <1>8, <1>w, <2>1 DEF PledgeOK, EntriesAddUp
  <1>10. TotalUnreleased(q) = TotalUnreleased(p) - n
    BY <1>f, <1>q, <1>2, <1>6 DEF TotalUnreleased
  <1>11. A = {} => n = 0
    BY <1>2, <1>5, SumEmpty
  <1>12. DOMAIN q.releasing = {b \in DOMAIN p.releasing : b > head}
    BY <1>q, <1>1, <1>4 DEF f
  <1> QED BY <1>q, <1>2, <1>6, <1>9, <1>10, <1>11, <1>12 DEF n, A
==============================================================================
