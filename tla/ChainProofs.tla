----------------------------- MODULE ChainProofs -----------------------------
(***************************************************************************)
(* Proofs about push_block (ChainDatabase), for every block tree, every    *)
(* assignment of signers, every depth of nested sessions and every set of  *)
(* blocks that fail to apply.                                              *)
(***************************************************************************)
EXTENDS ChainDatabase, SequenceTheorems, FiniteSetTheorems, TLAPS

-----------------------------------------------------------------------------
(* Blocks and their prefixes. *)

(* A head is a sequence; only the zero id is empty. *)
LEMMA HeadsAreSeqs ==
    \A c \in Heads : /\ c \in Seq(STRING) /\ Len(c) \in Nat
                     /\ Len(c) = 0 <=> c = <<>>
                     /\ c \in Blocks <=> c # <<>>
  <1> SUFFICES ASSUME NEW c \in Heads
               PROVE  /\ c \in Seq(STRING) /\ Len(c) \in Nat
                      /\ Len(c) = 0 <=> c = <<>>
                      /\ c \in Blocks <=> c # <<>>
    OBVIOUS
  <1>1. c \in Seq(STRING)
    BY EmptySeq, BlocksAssumption DEF Heads
  <1>2. Len(c) \in Nat
    BY <1>1, LenProperties
  <1>3. c \in Blocks <=> c # <<>>
    BY BlocksAssumption DEF Heads
  <1>4. Len(c) = 0 <=> c = <<>>
    BY <1>1, EmptySeq
  <1> QED BY <1>1, <1>2, <1>3, <1>4

(* The ancestor of number n of a block is a block of that number. *)
LEMMA PrefixIsHead ==
    \A c \in Heads : \A n \in 0..Len(c) :
        Prefix(c, n) \in Heads /\ Len(Prefix(c, n)) = n
  <1> SUFFICES ASSUME NEW c \in Heads, NEW n \in 0..Len(c)
               PROVE  Prefix(c, n) \in Heads /\ Len(Prefix(c, n)) = n
    OBVIOUS
  <1>1. c \in Seq(STRING) /\ Len(c) \in Nat
    BY HeadsAreSeqs
  <1>2. \A i \in 1..n : c[i] \in STRING
    BY <1>1, ElementOfSeq
  <1>3. Len(Prefix(c, n)) = n
    BY <1>1, <1>2, SubSeqProperties DEF Prefix
  <1>4. CASE n = 0
    <2>1. Prefix(c, n) = <<>>
      BY <1>4, SubSeqEmpty DEF Prefix
    <2> QED BY <2>1, <1>3 DEF Heads
  <1>5. CASE n # 0
    <2>1. c \in Blocks
      BY <1>1, <1>5, HeadsAreSeqs
    <2>2. n \in 1..Len(c)
      BY <1>1, <1>5
    <2> QED BY <1>3, <2>1, <2>2, BlocksAssumption DEF Heads
  <1> QED BY <1>4, <1>5

(* The ancestors of an ancestor are ancestors. *)
LEMMA PrefixOfPrefix ==
    \A c \in Heads : \A n \in 0..Len(c) : \A m \in 0..n :
        Prefix(Prefix(c, n), m) = Prefix(c, m)
  <1> SUFFICES ASSUME NEW c \in Heads, NEW n \in 0..Len(c), NEW m \in 0..n
               PROVE  Prefix(Prefix(c, n), m) = Prefix(c, m)
    OBVIOUS
  <1> DEFINE d == Prefix(c, n)
  <1>1. /\ Len(c) \in Nat /\ c \in Seq(STRING)
        /\ d \in Heads /\ Len(d) = n /\ d \in Seq(STRING)
    BY HeadsAreSeqs, PrefixIsHead
  <1>2. m \in 0..Len(c) /\ m \in Int /\ n \in Int
    BY <1>1
  <1>3. \A i \in 1..n : c[i] \in STRING
    BY <1>1, <1>2, ElementOfSeq
  <1>4. \A i \in 1..n : d[i] = c[i]
    BY <1>2, <1>3, SubSeqProperties DEF Prefix
  <1> HIDE DEF d
  <1>5. /\ Prefix(c, m) \in Seq(STRING) /\ Len(Prefix(c, m)) = m
        /\ \A i \in 1..m : Prefix(c, m)[i] = c[i]
    <2>1. \A i \in 1..m : c[i] \in STRING
      BY <1>2, <1>3
    <2> QED BY <1>2, <2>1, SubSeqProperties DEF Prefix
  <1>6. /\ Prefix(d, m) \in Seq(STRING) /\ Len(Prefix(d, m)) = m
        /\ \A i \in 1..m : Prefix(d, m)[i] = d[i]
    <2>1. \A i \in 1..m : d[i] \in STRING
      BY <1>2, <1>3, <1>4
    <2> QED BY <1>2, <2>1, SubSeqProperties DEF Prefix
  <1>7. \A i \in 1..m : Prefix(d, m)[i] = Prefix(c, m)[i]
    BY <1>2, <1>4, <1>5, <1>6
  <1>8. Prefix(d, m) = Prefix(c, m)
    BY <1>5, <1>6, <1>7, SeqEqual
  <1> QED BY <1>8 DEF d

(* A block is the ancestor of its own number; the previous block of a      *)
(* block is the ancestor of the number before.                             *)
LEMMA PrefixAndPrev ==
    \A c \in Heads : /\ Prefix(c, Len(c)) = c
                     /\ Prefix(c, 0) = <<>>
                     /\ c # <<>> => Prev(c) = Prefix(c, Len(c) - 1)
                     /\ Prev(c) \in Heads
                     /\ Len(Prev(c)) = IF c = <<>> THEN 0 ELSE Len(c) - 1
  <1> SUFFICES ASSUME NEW c \in Heads
               PROVE  /\ Prefix(c, Len(c)) = c
                      /\ Prefix(c, 0) = <<>>
                      /\ c # <<>> => Prev(c) = Prefix(c, Len(c) - 1)
                      /\ Prev(c) \in Heads
                      /\ Len(Prev(c)) = IF c = <<>> THEN 0 ELSE Len(c) - 1
    OBVIOUS
  <1>1. c \in Seq(STRING) /\ Len(c) \in Nat /\ (Len(c) = 0 <=> c = <<>>)
    BY HeadsAreSeqs
  <1>2. Prefix(c, Len(c)) = c
    BY <1>1, SubSeqFull DEF Prefix
  <1>3. Prefix(c, 0) = <<>>
    BY SubSeqEmpty DEF Prefix
  <1>4. c # <<>> => Prev(c) = Prefix(c, Len(c) - 1)
    BY DEF Prev, Prefix
  <1>5. CASE c = <<>>
    <2>1. Len(c) - 1 < 1 /\ Len(c) - 1 \in Int
      BY <1>1, <1>5
    <2>2. Prev(c) = <<>>
      BY <2>1, SubSeqEmpty DEF Prev
    <2> QED BY <1>1, <1>2, <1>3, <1>4, <1>5, <2>2 DEF Heads
  <1>6. CASE c # <<>>
    <2>1. Len(c) - 1 \in 0..Len(c)
      BY <1>1, <1>6
    <2> QED BY <1>2, <1>3, <1>4, <1>6, <2>1, PrefixIsHead
  <1> QED BY <1>5, <1>6

-----------------------------------------------------------------------------
(* The last irreversible block. *)

(* A bounded set of numbers has a greatest element: what the CHOOSE of the *)
(* definitions below pick exists.                                          *)
LEMMA Greatest ==
    ASSUME NEW N \in Nat, NEW S \in SUBSET (0..N), S # {}
    PROVE  \E n \in S : \A m \in S : m <= n
  <1> DEFINE R == OpToRel(<, Nat)
             T == {N - n : n \in S}
  <1>1. IsWellFoundedOn(R, Nat)
    BY NatLessThanWellFounded
  <1>2. \A x, y \in Nat : <<y, x>> \in R <=> y < x
    BY DEF OpToRel
  <1>3. T \subseteq Nat /\ T # {}
    <2>1. T \subseteq Nat
      OBVIOUS
    <2>2. PICK n \in S : TRUE
      OBVIOUS
    <2>3. N - n \in T
      BY <2>2
    <2> QED BY <2>1, <2>3
  <1> HIDE DEF R
  <1>4. PICK x \in T : \A y \in T : ~ (<<y, x>> \in R)
    <2> HIDE DEF T
    <2> QED BY <1>1, <1>3, WFMin
  <1>5. \A y \in T : ~(y < x)
    BY <1>2, <1>3, <1>4
  <1>6. PICK n \in S : x = N - n
    BY <1>4
  <1>7. \A m \in S : ~(N - m < N - n)
    BY <1>5, <1>6
  <1> QED BY <1>7

(* What update_last_irreversible_block finds for a witness is a block      *)
(* number of the chain.                                                    *)
LEMMA LastConfirmedType ==
    \A c \in Heads : \A w \in Witnesses : LastConfirmed(c, w) \in 0..Len(c)
  <1> SUFFICES ASSUME NEW c \in Heads, NEW w \in Witnesses
               PROVE  LastConfirmed(c, w) \in 0..Len(c)
    OBVIOUS
  <1> DEFINE S == {n \in 0..Len(c) : n = 0 \/ Signer[Prefix(c, n)] = w}
  <1>1. Len(c) \in Nat
    BY HeadsAreSeqs
  <1>2. S \subseteq 0..Len(c) /\ 0 \in S
    BY <1>1
  <1>3. PICK n \in S : \A m \in S : m <= n
    <2> HIDE DEF S
    <2> QED BY <1>1, <1>2, Greatest
  <1>4. \A m \in (n + 1)..Len(c) : Signer[Prefix(c, m)] # w
    BY <1>1, <1>3
  <1>5. \E k \in 0..Len(c) :
            /\ k = 0 \/ Signer[Prefix(c, k)] = w
            /\ \A m \in (k + 1)..Len(c) : Signer[Prefix(c, m)] # w
    BY <1>3, <1>4
  <1> QED BY <1>5 DEF LastConfirmed

(* The number that enough witnesses have confirmed is one of the chain. *)
LEMMA ConfirmedByMostType ==
    \A c \in Heads : ConfirmedByMost(c) \in 0..Len(c)
  <1> SUFFICES ASSUME NEW c \in Heads
               PROVE  ConfirmedByMost(c) \in 0..Len(c)
    OBVIOUS
  <1> DEFINE size == Cardinality(Witnesses)
             offset == ((100 - Percent75) * size) \div 100
             AtLeast(n) == {w \in Witnesses : LastConfirmed(c, w) >= n}
             Enough(n) == Cardinality(AtLeast(n)) >= size - offset
             S == {n \in 0..Len(c) : Enough(n)}
  <1>1. Len(c) \in Nat
    BY HeadsAreSeqs
  <1>2. size \in Nat
    BY FS_CardinalityType, ChainAssumption
  <1>3. offset \in Nat
    BY <1>2 DEF Percent75
  <1>4. \A n : Cardinality(AtLeast(n)) \in Nat
    <2> TAKE n
    <2>1. AtLeast(n) \in SUBSET Witnesses
      OBVIOUS
    <2> HIDE DEF AtLeast
    <2> QED BY <2>1, FS_Subset, FS_CardinalityType, ChainAssumption
  <1>5. 0 \in S
    <2>1. AtLeast(0) = Witnesses
      BY <1>1, LastConfirmedType
    <2>2. size >= size - offset
      BY <1>2, <1>3
    <2>3. Enough(0)
      BY <2>1, <2>2
    <2> HIDE DEF Enough
    <2> QED BY <1>1, <2>3
  <1>6. PICK n \in S : \A m \in S : m <= n
    <2>1. S \subseteq 0..Len(c)
      OBVIOUS
    <2> HIDE DEF S
    <2> QED BY <1>1, <1>5, <2>1, Greatest
  <1>7. \A m \in (n + 1)..Len(c) : ~Enough(m)
    <2> HIDE DEF Enough
    <2> QED BY <1>1, <1>6
  <1>8. \A m : ~Enough(m) => Cardinality(AtLeast(m)) < size - offset
    <2> TAKE m
    <2>1. Cardinality(AtLeast(m)) \in Nat
      BY <1>4
    <2> HIDE DEF size, offset, AtLeast
    <2> QED BY <1>2, <1>3, <2>1
  <1>9. \E k \in 0..Len(c) :
            /\ Cardinality(AtLeast(k)) >= size - offset
            /\ \A m \in (k + 1)..Len(c) : Cardinality(AtLeast(m)) < size - offset
    <2>1. n \in 0..Len(c) /\ Cardinality(AtLeast(n)) >= size - offset
      BY <1>6
    <2> HIDE DEF size, offset, AtLeast, Enough
    <2> QED BY <1>7, <1>8, <2>1
  <1>10. ConfirmedByMost(c) =
            CHOOSE k \in 0..Len(c) :
              /\ Cardinality(AtLeast(k)) >= size - offset
              /\ \A m \in (k + 1)..Len(c) : Cardinality(AtLeast(m)) < size - offset
    BY DEF ConfirmedByMost
  <1> HIDE DEF size, offset, AtLeast
  <1> QED BY <1>9, <1>10

(* The last irreversible block of a chain is the highest of those of its   *)
(* ancestors.                                                              *)
LEMMA LIBIsGreatest ==
    \A c \in Heads :
        /\ \E k \in 0..Len(c) : LIB[c] = ConfirmedByMost(Prefix(c, k))
        /\ \A k \in 0..Len(c) : ConfirmedByMost(Prefix(c, k)) <= LIB[c]
  <1> SUFFICES ASSUME NEW c \in Heads
               PROVE
        /\ \E k \in 0..Len(c) : LIB[c] = ConfirmedByMost(Prefix(c, k))
        /\ \A k \in 0..Len(c) : ConfirmedByMost(Prefix(c, k)) <= LIB[c]
    OBVIOUS
  <1> DEFINE S == {ConfirmedByMost(Prefix(c, k)) : k \in 0..Len(c)}
  <1>1. Len(c) \in Nat
    BY HeadsAreSeqs
  <1>2. \A k \in 0..Len(c) : ConfirmedByMost(Prefix(c, k)) \in 0..Len(c)
    <2> TAKE k \in 0..Len(c)
    <2>1. Prefix(c, k) \in Heads /\ Len(Prefix(c, k)) = k
      BY PrefixIsHead
    <2>2. ConfirmedByMost(Prefix(c, k)) \in 0..k
      BY <2>1, ConfirmedByMostType
    <2> QED BY <1>1, <2>2
  <1>3. S \subseteq 0..Len(c) /\ S # {}
    BY <1>1, <1>2
  <1>4. \E n \in S : \A m \in S : m <= n
    <2> HIDE DEF S
    <2> QED BY <1>1, <1>3, Greatest
  <1>5. \E n \in S : \A k \in 0..Len(c) : ConfirmedByMost(Prefix(c, k)) <= n
    BY <1>4
  <1>6. LIB[c] = CHOOSE n \in S :
                     \A k \in 0..Len(c) : ConfirmedByMost(Prefix(c, k)) <= n
    BY DEF LIB
  <1>7. /\ LIB[c] \in S
        /\ \A k \in 0..Len(c) : ConfirmedByMost(Prefix(c, k)) <= LIB[c]
    <2> HIDE DEF S
    <2> QED BY <1>5, <1>6
  <1> QED BY <1>7

(* It is a number of the chain, and extending the chain never lowers it. *)
LEMMA LIBOfAncestor ==
    \A c \in Heads : /\ LIB[c] \in 0..Len(c)
                     /\ \A n \in 0..Len(c) : LIB[Prefix(c, n)] <= LIB[c]
  <1> SUFFICES ASSUME NEW c \in Heads
               PROVE  /\ LIB[c] \in 0..Len(c)
                      /\ \A n \in 0..Len(c) : LIB[Prefix(c, n)] <= LIB[c]
    OBVIOUS
  <1>1. Len(c) \in Nat
    BY HeadsAreSeqs
  <1>2. LIB[c] \in 0..Len(c)
    <2>1. PICK k \in 0..Len(c) : LIB[c] = ConfirmedByMost(Prefix(c, k))
      BY LIBIsGreatest
    <2>2. Prefix(c, k) \in Heads /\ Len(Prefix(c, k)) = k
      BY PrefixIsHead
    <2>3. LIB[c] \in 0..k
      BY <2>1, <2>2, ConfirmedByMostType
    <2> QED BY <1>1, <2>3
  <1>3. ASSUME NEW n \in 0..Len(c)
        PROVE  LIB[Prefix(c, n)] <= LIB[c]
    <2>1. Prefix(c, n) \in Heads /\ Len(Prefix(c, n)) = n
      BY PrefixIsHead
    <2>2. PICK k \in 0..n :
              LIB[Prefix(c, n)] = ConfirmedByMost(Prefix(Prefix(c, n), k))
      BY <2>1, LIBIsGreatest
    <2>3. Prefix(Prefix(c, n), k) = Prefix(c, k) /\ k \in 0..Len(c)
      BY <1>1, <2>1, PrefixOfPrefix
    <2> QED BY <2>2, <2>3, LIBIsGreatest
  <1> QED BY <1>2, <1>3

-----------------------------------------------------------------------------
(* Branches, the undo history and the block log. *)

(* fetch_branch_from stops at a pair of blocks with the same predecessor. *)
LEMMA LowestIsCommon ==
    \A a, b \in Blocks :
        /\ Lowest(a, b) \in 1..Len(a) /\ Lowest(a, b) \in 1..Len(b)
        /\ Prefix(a, Lowest(a, b) - 1) = Prefix(b, Lowest(a, b) - 1)
  <1> SUFFICES ASSUME NEW a \in Blocks, NEW b \in Blocks
               PROVE
        /\ Lowest(a, b) \in 1..Len(a) /\ Lowest(a, b) \in 1..Len(b)
        /\ Prefix(a, Lowest(a, b) - 1) = Prefix(b, Lowest(a, b) - 1)
    OBVIOUS
  <1> DEFINE M == MinOf(Len(a), Len(b))
             S == {n \in 0..(M - 1) : Prefix(a, n) = Prefix(b, n)}
  <1>1. Len(a) \in Nat \ {0} /\ Len(b) \in Nat \ {0}
    BY HeadsAreSeqs DEF Heads
  <1>2. M \in Nat \ {0} /\ M <= Len(a) /\ M <= Len(b)
    BY <1>1 DEF MinOf
  <1>3. Prefix(a, 0) = Prefix(b, 0)
    BY PrefixAndPrev DEF Heads
  <1> HIDE DEF M
  <1>4. 0 \in S /\ S \subseteq 0..(M - 1)
    BY <1>2, <1>3
  <1>5. PICK n \in S : \A m \in S : m <= n
    <2> HIDE DEF S
    <2>1. M - 1 \in Nat
      BY <1>2
    <2> QED BY <1>4, <2>1, Greatest
  <1>6. /\ n + 1 \in 1..M
        /\ Prefix(a, (n + 1) - 1) = Prefix(b, (n + 1) - 1)
        /\ n + 1 < M => Prefix(a, n + 1) # Prefix(b, n + 1)
    <2>1. n \in 0..(M - 1) /\ (n + 1) - 1 = n
      BY <1>2, <1>5
    <2>2. ~(n + 1 <= n)
      BY <2>1, <1>2
    <2>3. n + 1 \notin S
      BY <1>5, <2>2
    <2>4. n + 1 < M => n + 1 \in 0..(M - 1)
      BY <1>2, <2>1
    <2>5. n + 1 < M => Prefix(a, n + 1) # Prefix(b, n + 1)
      BY <2>3, <2>4
    <2>6. Prefix(a, n) = Prefix(b, n)
      BY <1>5
    <2>7. n + 1 \in 1..M
      BY <1>2, <2>1
    <2> QED BY <2>1, <2>5, <2>6, <2>7
  <1>7. \E k \in 1..M : /\ Prefix(a, k - 1) = Prefix(b, k - 1)
                        /\ k < M => Prefix(a, k) # Prefix(b, k)
    BY <1>6
  <1>8. /\ Lowest(a, b) \in 1..M
        /\ Prefix(a, Lowest(a, b) - 1) = Prefix(b, Lowest(a, b) - 1)
    BY <1>7 DEF Lowest, M
  <1> QED BY <1>1, <1>2, <1>8

(* The states of a history are the chains before the last blocks of c. *)
HistoryOf(u, c) ==
    /\ Len(u) <= Len(c)
    /\ \A i \in 1..Len(u) : u[i] = Prefix(c, Len(c) - Len(u) + i - 1)

(* Starting a session forgets the oldest states and leaves a history. *)
LEMMA HistoryNewest ==
    ASSUME NEW c \in Heads, NEW u \in Seq(Heads), HistoryOf(u, c), NEW n \in Nat
    PROVE  /\ Newest(u, n) \in Seq(Heads)
           /\ HistoryOf(Newest(u, n), c)
           /\ Len(Newest(u, n)) = MinOf(n, Len(u))
  <1> DEFINE k == MaxOf(0, Len(u) - n)
             v == Newest(u, n)
  <1>1. Len(u) \in Nat /\ Len(c) \in Nat
    BY LenProperties, HeadsAreSeqs
  <1>2. k \in 0..Len(u) /\ Len(u) - k = MinOf(n, Len(u))
    <2>1. CASE Len(u) > n
      BY <1>1, <2>1 DEF MaxOf, MinOf
    <2>2. CASE ~(Len(u) > n)
      BY <1>1, <2>2 DEF MaxOf, MinOf
    <2> QED BY <2>1, <2>2
  <1>3. v = SubSeq(u, k + 1, Len(u))
    BY DEF Newest
  <1>4. \A i \in (k + 1)..Len(u) : u[i] \in Heads
    BY <1>1, <1>2, ElementOfSeq
  <1> HIDE DEF k, v
  <1>5. /\ v \in Seq(Heads)
        /\ Len(v) = Len(u) - k
        /\ \A i \in 1..(Len(u) - k) : v[i] = u[k + i]
    <2>1. k + 1 \in Int /\ Len(u) \in Int
      BY <1>1, <1>2
    <2>2. /\ v \in Seq(Heads)
          /\ Len(v) = IF k + 1 <= Len(u) THEN Len(u) - (k + 1) + 1 ELSE 0
          /\ \A i \in 1..(Len(u) - (k + 1) + 1) : v[i] = u[(k + 1) + i - 1]
      BY <1>3, <1>4, <2>1, SubSeqProperties
    <2>3. Len(u) - (k + 1) + 1 = Len(u) - k
      BY <1>1, <1>2
    <2>4. \A i \in 1..(Len(u) - k) : (k + 1) + i - 1 = k + i
      BY <1>1, <1>2
    <2>5. Len(v) = Len(u) - k
      BY <1>1, <1>2, <2>2
    <2> QED BY <2>2, <2>3, <2>4, <2>5
  <1>6. HistoryOf(v, c)
    <2>1. Len(v) <= Len(c)
      BY <1>1, <1>2, <1>5 DEF HistoryOf
    <2>2. ASSUME NEW i \in 1..Len(v)
          PROVE  v[i] = Prefix(c, Len(c) - Len(v) + i - 1)
      <3>1. k + i \in 1..Len(u)
        BY <1>1, <1>2, <1>5
      <3>2. v[i] = Prefix(c, Len(c) - Len(u) + (k + i) - 1)
        BY <1>5, <3>1 DEF HistoryOf
      <3>3. Len(c) - Len(u) + (k + i) - 1 = Len(c) - Len(v) + i - 1
        BY <1>1, <1>2, <1>5
      <3> QED BY <3>2, <3>3
    <2> QED BY <2>1, <2>2 DEF HistoryOf
  <1> QED BY <1>2, <1>5, <1>6 DEF v

(* Committing the session of a block on top of the chain adds its state. *)
LEMMA HistoryAppend ==
    ASSUME NEW c \in Heads, NEW u \in Seq(Heads), HistoryOf(u, c),
           NEW b \in Blocks, Prev(b) = c
    PROVE  /\ Append(u, c) \in Seq(Heads)
           /\ HistoryOf(Append(u, c), b)
           /\ Len(Append(u, c)) = Len(u) + 1
           /\ Len(b) = Len(c) + 1
  <1> DEFINE v == Append(u, c)
  <1>1. /\ Len(u) \in Nat /\ Len(c) \in Nat
        /\ b \in Heads /\ Len(b) \in Nat /\ b # <<>>
    BY LenProperties, HeadsAreSeqs DEF Heads
  <1>2. Len(b) = Len(c) + 1 /\ c = Prefix(b, Len(c))
    <2>1. Len(c) = Len(b) - 1 /\ c = Prefix(b, Len(b) - 1)
      BY <1>1, PrefixAndPrev
    <2>2. Len(b) = Len(c) + 1
      BY <1>1, <2>1
    <2> QED BY <2>1, <2>2
  <1>3. /\ v \in Seq(Heads) /\ Len(v) = Len(u) + 1
        /\ \A i \in 1..Len(u) : v[i] = u[i]
        /\ v[Len(u) + 1] = c
    BY AppendProperties
  <1> HIDE DEF v
  <1>4. HistoryOf(v, b)
    <2>1. Len(v) <= Len(b)
      BY <1>1, <1>2, <1>3 DEF HistoryOf
    <2>2. ASSUME NEW i \in 1..Len(v)
          PROVE  v[i] = Prefix(b, Len(b) - Len(v) + i - 1)
      <3>1. Len(b) - Len(v) + i - 1 = Len(c) - Len(u) + i - 1
        BY <1>1, <1>2, <1>3
      <3>2. CASE i \in 1..Len(u)
        <4>1. v[i] = Prefix(c, Len(c) - Len(u) + i - 1)
          BY <1>3, <3>2 DEF HistoryOf
        <4>2. Len(c) - Len(u) + i - 1 \in 0..Len(c) /\ Len(c) \in 0..Len(b)
          BY <1>1, <1>2, <3>2 DEF HistoryOf
        <4>3. Prefix(Prefix(b, Len(c)), Len(c) - Len(u) + i - 1) =
                  Prefix(b, Len(c) - Len(u) + i - 1)
          BY <1>1, <4>2, PrefixOfPrefix
        <4> QED BY <1>2, <3>1, <4>1, <4>3
      <3>3. CASE i = Len(u) + 1
        <4>1. v[i] = c /\ Len(c) - Len(u) + i - 1 = Len(c)
          BY <1>1, <1>3, <3>3
        <4> QED BY <1>2, <3>1, <4>1
      <3>4. i \in 1..Len(u) \/ i = Len(u) + 1
        BY <1>1, <1>3
      <3> QED BY <3>2, <3>3, <3>4
    <2> QED BY <2>1, <2>2 DEF HistoryOf
  <1> QED BY <1>2, <1>3, <1>4 DEF v

(* Undoing the newest state is popping the head block. *)
LEMMA HistoryPop ==
    ASSUME NEW c \in Heads, NEW u \in Seq(Heads), HistoryOf(u, c), u # <<>>
    PROVE  /\ c # <<>> /\ u[Len(u)] = Prev(c)
           /\ SubSeq(u, 1, Len(u) - 1) \in Seq(Heads)
           /\ Len(SubSeq(u, 1, Len(u) - 1)) = Len(u) - 1
           /\ HistoryOf(SubSeq(u, 1, Len(u) - 1), Prev(c))
  <1> DEFINE v == SubSeq(u, 1, Len(u) - 1)
  <1>1. Len(u) \in Nat \ {0} /\ Len(c) \in Nat /\ Len(u) <= Len(c)
    BY EmptySeq, HeadsAreSeqs DEF HistoryOf
  <1>2. c # <<>> /\ Len(Prev(c)) = Len(c) - 1 /\ Prev(c) = Prefix(c, Len(c) - 1)
    BY <1>1, HeadsAreSeqs, PrefixAndPrev
  <1>3. u[Len(u)] = Prev(c)
    <2>1. u[Len(u)] = Prefix(c, Len(c) - Len(u) + Len(u) - 1)
      BY <1>1 DEF HistoryOf
    <2>2. Len(c) - Len(u) + Len(u) - 1 = Len(c) - 1
      BY <1>1
    <2> QED BY <1>2, <2>1, <2>2
  <1>4. /\ v \in Seq(Heads) /\ Len(v) = Len(u) - 1
        /\ \A i \in 1..(Len(u) - 1) : v[i] = u[i]
    <2>1. \A i \in 1..(Len(u) - 1) : u[i] \in Heads
      BY <1>1, ElementOfSeq
    <2>2. 1 \in Int /\ Len(u) - 1 \in Int
      BY <1>1
    <2>3. /\ v \in Seq(Heads)
          /\ Len(v) = IF 1 <= Len(u) - 1 THEN Len(u) - 1 - 1 + 1 ELSE 0
          /\ \A i \in 1..(Len(u) - 1 - 1 + 1) : v[i] = u[1 + i - 1]
      BY <2>1, <2>2, SubSeqProperties
    <2> HIDE DEF v
    <2>4. \A i \in 1..(Len(u) - 1) : 1 + i - 1 = i /\ i \in 1..(Len(u) - 1 - 1 + 1)
      BY <1>1
    <2>5. Len(v) = Len(u) - 1
      <3>1. CASE Len(u) = 1
        BY <2>3, <3>1
      <3>2. CASE Len(u) # 1
        <4>1. 1 <= Len(u) - 1 /\ Len(u) - 1 - 1 + 1 = Len(u) - 1
          <5>1. \A k \in Nat : k # 0 /\ k # 1 => 1 <= k - 1 /\ k - 1 - 1 + 1 = k - 1
            OBVIOUS
          <5>2. Len(u) \in Nat /\ Len(u) # 0
            BY <1>1
          <5> QED BY <3>2, <5>1, <5>2
        <4> QED BY <2>3, <4>1
      <3> QED BY <3>1, <3>2
    <2>6. ASSUME NEW i \in 1..(Len(u) - 1)
          PROVE  v[i] = u[i]
      <3>1. 1 + i - 1 = i /\ i \in 1..(Len(u) - 1 - 1 + 1)
        BY <2>4
      <3>2. v[i] = u[1 + i - 1]
        BY <2>3, <3>1
      <3> QED BY <3>1, <3>2
    <2> QED BY <2>3, <2>5, <2>6
  <1> HIDE DEF v
  <1>5. HistoryOf(v, Prev(c))
    <2>1. Len(v) <= Len(Prev(c))
      BY <1>1, <1>2, <1>4
    <2>2. ASSUME NEW i \in 1..Len(v)
          PROVE  v[i] = Prefix(Prev(c), Len(Prev(c)) - Len(v) + i - 1)
      <3>1. i \in 1..Len(u) /\ i \in 1..(Len(u) - 1)
        BY <1>1, <1>4
      <3>2. v[i] = Prefix(c, Len(c) - Len(u) + i - 1)
        BY <1>4, <3>1 DEF HistoryOf
      <3>3. Len(Prev(c)) - Len(v) + i - 1 = Len(c) - Len(u) + i - 1
        BY <1>1, <1>2, <1>4
      <3>a. Len(u) - 1 \in Nat /\ Len(c) - 1 \in Nat
        BY <1>1
      <3>4. /\ Len(c) - 1 \in 0..Len(c)
            /\ Len(c) - Len(u) + i - 1 \in 0..(Len(c) - 1)
        BY <1>1, <3>1
      <3>5. Prefix(Prefix(c, Len(c) - 1), Len(c) - Len(u) + i - 1) =
                Prefix(c, Len(c) - Len(u) + i - 1)
        BY <3>4, PrefixOfPrefix
      <3> QED BY <1>2, <3>2, <3>3, <3>5
    <2> QED BY <2>1, <2>2 DEF HistoryOf
  <1> QED BY <1>2, <1>3, <1>4, <1>5 DEF v

(* Storing a block leaves an index file of entries. *)
LEMMA StoredType ==
    ASSUME NEW l \in Seq(Entries), NEW id \in Heads, NEW b \in Blocks
    PROVE  Stored(l, id, b) \in Seq(Entries)
  <1> DEFINE N == MaxOf(Len(id), Len(l))
  <1>1. Len(l) \in Nat /\ Len(id) \in Nat
    BY LenProperties, HeadsAreSeqs
  <1>2. N \in Nat
    BY <1>1 DEF MaxOf
  <1>3. ASSUME NEW n \in 1..N
        PROVE  (IF n = Len(id) THEN [id |-> id, data |-> b]
                ELSE IF n <= Len(l) THEN l[n] ELSE Hole) \in Entries
    <2>1. [id |-> id, data |-> b] \in Entries /\ Hole \in Entries
      BY DEF Entries, Hole, Heads
    <2>2. n <= Len(l) => l[n] \in Entries
      <3>1. n <= Len(l) => n \in 1..Len(l)
        BY <1>1, <1>2
      <3> QED BY <3>1, ElementOfSeq
    <2> QED BY <2>1, <2>2
  <1>4. Stored(l, id, b) \in [1..N -> Entries]
    BY <1>3 DEF Stored
  <1> HIDE DEF N
  <1>5. Stored(l, id, b) \in UNION {[1..n -> Entries] : n \in Nat}
    BY <1>2, <1>4
  <1> QED BY <1>5, SeqDef

-----------------------------------------------------------------------------
(* The fork database. *)

(* The items are blocks, and an item that is linked, or a head that can be *)
(* popped, has a block before it.                                          *)
ForkOK ==
    /\ index \subseteq Blocks /\ linked \subseteq Blocks /\ held \subseteq Blocks
    /\ head \in Blocks \union {None} /\ headLink \in BOOLEAN /\ max_size \in Nat
    /\ \A b \in linked : Len(b) > 1
    /\ headLink => head # None /\ Len(head) > 1

(* The block before a block is a block unless that is the first one. *)
LEMMA PrevIsBlock ==
    \A b \in Blocks : /\ Len(b) \in Nat \ {0} /\ b # None
                      /\ Len(b) > 1 => Prev(b) \in Blocks
  <1> SUFFICES ASSUME NEW b \in Blocks
               PROVE  /\ Len(b) \in Nat \ {0} /\ b # None
                      /\ Len(b) > 1 => Prev(b) \in Blocks
    OBVIOUS
  <1>1. b \in Heads /\ b # <<>> /\ b # None
    BY BlocksAssumption DEF Heads
  <1>2. Len(b) \in Nat \ {0}
    BY <1>1, HeadsAreSeqs
  <1>3. Prev(b) \in Heads /\ Len(Prev(b)) = Len(b) - 1
    BY <1>1, PrefixAndPrev
  <1>4. ASSUME Len(b) > 1 PROVE Prev(b) \in Blocks
    <2>1. Len(Prev(b)) # 0
      BY <1>2, <1>3, <1>4
    <2> QED BY <1>3, <2>1, HeadsAreSeqs
  <1> QED BY <1>1, <1>2, <1>4

(* A push leaves a head that is as high as the new block, and items whose  *)
(* pointers lead to other items of the index.                              *)
LEMMA ForkPushOK ==
    ASSUME ForkOK, NEW b \in Blocks, ForkPush(b)
    PROVE  /\ ForkOK'
           /\ head' \in Blocks /\ Len(b) <= Len(head')
           /\ \A c \in linked' : Prev(c) \in index'
           /\ index' \subseteq index \union {b}
  <1>1. Len(b) \in Nat
    BY PrevIsBlock
  <1>2. index' \subseteq index \union {b}
    BY DEF ForkPush
  <1>3. linked' \subseteq linked \union {b} /\ \A c \in linked' : Prev(c) \in index'
    BY DEF ForkPush
  <1>4. \A c \in linked' : Len(c) > 1
    BY DEF ForkPush, ForkOK
  <1>5. head' = (IF head = None \/ Len(b) > Len(head) THEN b ELSE head)
    BY DEF ForkPush
  <1>6. head' \in Blocks /\ Len(b) <= Len(head')
    <2>1. CASE head = None \/ Len(b) > Len(head)
      BY <1>1, <1>5, <2>1
    <2>2. CASE ~(head = None \/ Len(b) > Len(head))
      <3>1. head \in Blocks /\ Len(head) \in Nat
        BY <2>2, PrevIsBlock DEF ForkOK
      <3> QED BY <1>1, <1>5, <2>2, <3>1
    <2> QED BY <2>1, <2>2
  <1>7. headLink' => Len(head') > 1
    <2>1. CASE head = None \/ Len(b) > Len(head)
      BY <1>5, <2>1 DEF ForkPush
    <2>2. CASE ~(head = None \/ Len(b) > Len(head))
      <3>1. headLink' => headLink
        BY <2>2 DEF ForkPush
      <3> QED BY <1>5, <2>2, <3>1 DEF ForkOK
    <2> QED BY <2>1, <2>2
  <1>8. headLink' \in BOOLEAN
    BY Zenon DEF ForkPush, ForkOK
  <1>9. max_size' \in Nat /\ held' \subseteq Blocks
    BY DEF ForkPush, ForkOK
  <1>10. index' \subseteq Blocks /\ linked' \subseteq Blocks
    BY <1>2, <1>3 DEF ForkOK
  <1>11. head' # None
    BY <1>6, PrevIsBlock
  <1> QED BY <1>2, <1>3, <1>4, <1>6, <1>7, <1>8, <1>9, <1>10, <1>11 DEF ForkOK

(* A pop has a block to step back to. *)
LEMMA ForkPopOK ==
    ASSUME ForkOK, CanPop, ForkPop
    PROVE  ForkOK' /\ head' \in Blocks
  <1>1. head \in Blocks /\ Len(head) > 1
    BY DEF ForkOK, CanPop
  <1>2. head' \in Blocks /\ head' # None
    BY <1>1, PrevIsBlock DEF ForkPop
  <1>3. headLink' => Len(head') > 1
    BY DEF ForkPop, ForkOK
  <1>4. headLink' \in BOOLEAN
    BY DEF ForkPop
  <1>5. UNCHANGED <<index, linked, max_size, held>>
    BY DEF ForkPop
  <1> QED BY <1>2, <1>3, <1>4, <1>5 DEF ForkOK

(* Erasing items only ever removes items and pointers. *)
LEMMA EraseOK ==
    ASSUME ForkOK, NEW kept, NEW alive, kept \subseteq index,
           Erase(kept, alive), head' = head, max_size' \in Nat,
           held' \subseteq Blocks
    PROVE  ForkOK' /\ index' \subseteq index
  <1>1. index' \subseteq index /\ linked' \subseteq linked
    BY DEF Erase
  <1>2. headLink' => headLink
    BY DEF Erase
  <1>3. headLink' \in BOOLEAN
    BY Zenon DEF Erase
  <1> QED BY <1>1, <1>2, <1>3 DEF ForkOK

LEMMA ForkSetMaxSizeOK ==
    ASSUME ForkOK, NEW n \in Nat, ForkSetMaxSize(n)
    PROVE  ForkOK' /\ head' = head /\ max_size' = n /\ index' \subseteq index
  <1> DEFINE kept == IF head = None THEN index
                     ELSE {c \in index : Len(c) >= MaxOf(0, Len(head) - n)}
  <1>1. /\ kept \subseteq index /\ Erase(kept, kept \union held \union {head})
        /\ head' = head /\ max_size' = n /\ held' = held
    BY DEF ForkSetMaxSize
  <1>2. max_size' \in Nat /\ held' \subseteq Blocks
    BY <1>1 DEF ForkOK
  <1> HIDE DEF kept
  <1> QED BY <1>1, <1>2, EraseOK

LEMMA ForkRemoveOK ==
    ASSUME ForkOK, NEW S, ForkRemove(S)
    PROVE  ForkOK' /\ head' = head /\ max_size' = max_size /\ index' \subseteq index
  <1>1. /\ index \ S \subseteq index /\ Erase(index \ S, (index \ S) \union held)
        /\ head' = head /\ max_size' = max_size /\ held' = held
    BY DEF ForkRemove
  <1>2. max_size' \in Nat /\ held' \subseteq Blocks
    BY <1>1 DEF ForkOK
  <1> QED BY <1>1, <1>2, EraseOK

LEMMA ReleaseOK ==
    ASSUME ForkOK, Release
    PROVE  ForkOK' /\ head' = head /\ max_size' = max_size /\ index' \subseteq index
  <1>1. /\ index \subseteq index /\ Erase(index, index \union {head})
        /\ head' = head /\ max_size' = max_size /\ held' = {}
    BY DEF Release
  <1>2. max_size' \in Nat /\ held' \subseteq Blocks
    BY <1>1 DEF ForkOK
  <1> QED BY <1>1, <1>2, EraseOK

LEMMA ForkSetHeadOK ==
    ASSUME ForkOK, NEW b \in Blocks, ForkSetHead(b)
    PROVE  ForkOK' /\ head' = b /\ index' = index
  <1>1. headLink' => Len(b) > 1
    BY DEF ForkSetHead, ForkOK
  <1>2. headLink' \in BOOLEAN
    BY DEF ForkSetHead
  <1>3. head' = b /\ UNCHANGED <<index, linked, max_size, held>>
    BY DEF ForkSetHead
  <1>4. b # None
    BY PrevIsBlock
  <1> QED BY <1>1, <1>2, <1>3, <1>4 DEF ForkOK

LEMMA HoldOK ==
    ASSUME ForkOK, NEW S, S \subseteq Blocks, Hold(S)
    PROVE  ForkOK' /\ head' = head
  BY DEF ForkOK, Hold

-----------------------------------------------------------------------------
(* The object state. *)

StateOK ==
    /\ undoMax \in Nat /\ final \in Nat
    /\ log \in Seq(Entries)
    /\ chain \in Heads /\ undo \in Seq(Heads)
    /\ HistoryOf(undo, chain)

(* The sizes that update_undo_db_size computes are positive. *)
LEMMA NewSizeType ==
    \A b \in Blocks : /\ NewSize(b) \in Nat /\ LIB[Prev(b)] \in Nat
                      /\ LIB[Prev(b)] <= LIB[b] /\ LIB[b] \in Nat
  <1> SUFFICES ASSUME NEW b \in Blocks
               PROVE  /\ NewSize(b) \in Nat /\ LIB[Prev(b)] \in Nat
                      /\ LIB[Prev(b)] <= LIB[b] /\ LIB[b] \in Nat
    OBVIOUS
  <1>1. b \in Heads /\ b # <<>> /\ Len(b) \in Nat \ {0}
    BY PrevIsBlock, HeadsAreSeqs DEF Heads
  <1>2. /\ Prev(b) \in Heads /\ Len(Prev(b)) = Len(b) - 1
        /\ Prev(b) = Prefix(b, Len(b) - 1)
    BY <1>1, PrefixAndPrev
  <1>3. LIB[Prev(b)] \in 0..(Len(b) - 1) /\ LIB[b] \in 0..Len(b)
    BY <1>1, <1>2, LIBOfAncestor
  <1>4. Len(b) - 1 \in 0..Len(b)
    BY <1>1
  <1>5. LIB[Prev(b)] <= LIB[b]
    BY <1>1, <1>2, <1>4, LIBOfAncestor
  <1> QED BY <1>1, <1>3, <1>5 DEF NewSize

(* What starting a session inside depth - 1 others leaves. *)
LEMMA RetainedOK ==
    ASSUME StateOK, NEW depth \in 1..MaxDepth
    PROVE  /\ Retained(depth) \in Seq(Heads)
           /\ HistoryOf(Retained(depth), chain)
           /\ Len(Retained(depth)) =
                  MinOf(MaxOf(0, undoMax - (depth - 1)), Len(undo))
  <1>1. MaxOf(0, undoMax - (depth - 1)) \in Nat
    BY ChainAssumption DEF StateOK, MaxOf
  <1> QED BY <1>1, HistoryNewest DEF StateOK, Retained

(* A block that applies becomes the head block and leaves the chain before *)
(* it on the undo history.                                                 *)
LEMMA ApplyOK ==
    ASSUME ForkOK, StateOK, NEW b \in Blocks, NEW id \in Heads,
           Applies(b), ApplyAndStore(b, id)
    PROVE  /\ ForkOK' /\ head' = head /\ index' \subseteq index
           /\ StateOK'
           /\ chain' = b /\ Len(chain') = Len(chain) + 1 /\ Prev(b) = chain
  <1>1. Prev(b) = chain /\ chain' = b
    BY DEF Applies, ApplyAndStore
  <1>2. NewSize(b) \in Nat /\ LIB[b] \in Nat
    BY NewSizeType
  <1>3. ForkOK' /\ head' = head /\ index' \subseteq index
    BY <1>2, ForkSetMaxSizeOK DEF ApplyAndStore
  <1>4. PICK depth \in 1..(MaxDepth - 1) : undo' = Append(Retained(depth), chain)
    BY DEF ApplyAndStore
  <1>5. depth \in 1..MaxDepth
    BY ChainAssumption
  <1>6. Retained(depth) \in Seq(Heads) /\ HistoryOf(Retained(depth), chain)
    BY <1>5, RetainedOK
  <1>7. /\ undo' \in Seq(Heads) /\ HistoryOf(undo', chain')
        /\ Len(chain') = Len(chain) + 1
    BY <1>1, <1>4, <1>6, HistoryAppend DEF StateOK
  <1>8. log' \in Seq(Entries)
    BY StoredType DEF StateOK, ApplyAndStore, Store
  <1>9. undoMax' \in Nat /\ final' \in Nat
    BY <1>2 DEF ApplyAndStore, StateOK, MaxOf
  <1>10. chain' \in Heads
    BY <1>1 DEF Heads
  <1> QED BY <1>1, <1>3, <1>7, <1>8, <1>9, <1>10 DEF StateOK

(* A block that fails leaves the chain, but may leave the sizes changed    *)
(* and the oldest undo states forgotten.                                   *)
LEMMA FailsOK ==
    ASSUME ForkOK, StateOK, NEW b \in Blocks, ApplyFails(b)
    PROVE  /\ ForkOK' /\ head' = head /\ index' \subseteq index
           /\ StateOK' /\ chain' = chain
  <1>1. NewSize(b) \in Nat
    BY NewSizeType
  <1>2. chain' = chain /\ log' = log /\ final' = final
    BY DEF ApplyFails
  <1>3. PICK depth \in 1..(MaxDepth - 1) : undo' = Retained(depth)
    BY DEF ApplyFails
  <1>4. depth \in 1..MaxDepth
    BY ChainAssumption
  <1>5. undo' \in Seq(Heads) /\ HistoryOf(undo', chain)
    BY <1>3, <1>4, RetainedOK
  <1>6. /\ ForkOK' /\ head' = head /\ index' \subseteq index
        /\ undoMax' \in Nat
    <2>1. CASE UNCHANGED <<undoMax, forkVars>>
      BY <2>1 DEF ForkOK, forkVars, StateOK
    <2>2. CASE undoMax' = NewSize(b) /\ ForkSetMaxSize(NewSize(b))
      BY <1>1, <2>2, ForkSetMaxSizeOK
    <2> QED BY <2>1, <2>2 DEF ApplyFails
  <1> QED BY <1>2, <1>5, <1>6 DEF StateOK

(* pop_block takes the chain back by exactly its head block. *)
LEMMA PopOK ==
    ASSUME StateOK, undo # <<>>, PopState
    PROVE  /\ StateOK'
           /\ chain # <<>> /\ chain' = Prev(chain) /\ Len(chain') = Len(chain) - 1
           /\ Len(undo') = Len(undo) - 1
  <1>1. /\ chain # <<>> /\ undo[Len(undo)] = Prev(chain)
        /\ SubSeq(undo, 1, Len(undo) - 1) \in Seq(Heads)
        /\ Len(SubSeq(undo, 1, Len(undo) - 1)) = Len(undo) - 1
        /\ HistoryOf(SubSeq(undo, 1, Len(undo) - 1), Prev(chain))
    BY HistoryPop DEF StateOK
  <1>2. /\ chain' = undo[Len(undo)] /\ undo' = SubSeq(undo, 1, Len(undo) - 1)
        /\ UNCHANGED <<log, undoMax, final>>
    BY DEF PopState
  <1>3. Prev(chain) \in Heads /\ Len(Prev(chain)) = Len(chain) - 1
    BY <1>1, PrefixAndPrev DEF StateOK
  <1> QED BY <1>1, <1>2, <1>3 DEF StateOK

-----------------------------------------------------------------------------
(* Where push_block is: the invariant that places the chain on one of the  *)
(* two branches at every step of a switch.                                 *)

LeadsTo(c, b) == Len(c) <= Len(b) /\ c = Prefix(b, Len(c))
Low == Lowest(target, before)
OnOldBranch == pc \in {"pop", "restore"}
OnNewBranch == pc \in {"apply", "cleanup", "sethead", "repop"}

(* What push_block knows between its steps. *)
CallOK ==
    /\ pc \in Labels /\ outcome \in Outcomes
    /\ new \in Heads /\ target \in Heads /\ before \in Heads
    /\ pc # "idle" => new \in Blocks
    /\ head = None => chain = <<>> /\ pc = "idle"
    /\ pc \in {"forked", "remove"} => before = chain
    /\ pc = "forked" => /\ Len(new) <= Len(head)
                        /\ \A b \in linked : Prev(b) \in index

(* Where the chain is during a switch: on the old branch while blocks are  *)
(* popped and while it is restored, on the new branch in between, and      *)
(* never below the fork point.                                             *)
SwitchOK ==
    /\ OnOldBranch \/ OnNewBranch => /\ target \in Blocks /\ before \in Blocks
                                     /\ Len(new) <= Len(target)
                                     /\ Low - 1 <= Len(chain)
    /\ OnOldBranch => LeadsTo(chain, before)
    /\ OnNewBranch => LeadsTo(chain, target)

CoreInv == ForkOK /\ StateOK /\ CallOK /\ SwitchOK

(* The next block of a branch the chain is on, and the one before. *)
LEMMA NextOnBranch ==
    ASSUME NEW c \in Heads, NEW b \in Blocks, LeadsTo(c, b), c # b
    PROVE  /\ Prefix(b, Len(c) + 1) \in Blocks
           /\ Len(Prefix(b, Len(c) + 1)) = Len(c) + 1
           /\ Prev(Prefix(b, Len(c) + 1)) = c
           /\ LeadsTo(Prefix(b, Len(c) + 1), b)
  <1> DEFINE n == Len(c) + 1
             d == Prefix(b, n)
  <1>1. Len(b) \in Nat /\ Len(c) \in Nat /\ b \in Heads
    BY HeadsAreSeqs DEF Heads
  <1>2. Len(c) # Len(b)
    BY <1>1, PrefixAndPrev DEF LeadsTo
  <1>3. n \in 0..Len(b) /\ n # 0 /\ Len(c) \in 0..n /\ n - 1 = Len(c)
    BY <1>1, <1>2 DEF LeadsTo
  <1>4. d \in Heads /\ Len(d) = n
    BY <1>1, <1>3, PrefixIsHead
  <1>5. d \in Blocks /\ d # <<>>
    BY <1>3, <1>4, HeadsAreSeqs
  <1>6. Prefix(d, Len(c)) = Prefix(b, Len(c))
    BY <1>1, <1>3, PrefixOfPrefix
  <1> HIDE DEF d
  <1>7. Prev(d) = c
    <2>1. Prev(d) = Prefix(d, Len(d) - 1)
      BY <1>4, <1>5, PrefixAndPrev
    <2> QED BY <1>3, <1>4, <1>6, <2>1 DEF LeadsTo
  <1>8. LeadsTo(d, b)
    BY <1>1, <1>3, <1>4 DEF LeadsTo, d
  <1> QED BY <1>4, <1>5, <1>7, <1>8 DEF d

LEMMA PrevOnBranch ==
    ASSUME NEW c \in Heads, NEW b \in Heads, LeadsTo(c, b), c # <<>>
    PROVE  LeadsTo(Prev(c), b)
  <1>1. Len(b) \in Nat /\ Len(c) \in Nat \ {0}
    BY HeadsAreSeqs
  <1>2. Len(Prev(c)) = Len(c) - 1 /\ Prev(c) = Prefix(c, Len(c) - 1)
    BY PrefixAndPrev
  <1>3. Len(c) \in 0..Len(b) /\ Len(c) - 1 \in 0..Len(c)
    BY <1>1 DEF LeadsTo
  <1>4. Prefix(Prefix(b, Len(c)), Len(c) - 1) = Prefix(b, Len(c) - 1)
    BY <1>3, PrefixOfPrefix
  <1> QED BY <1>1, <1>2, <1>3, <1>4 DEF LeadsTo

(* The fork point is on both branches. *)
LEMMA ForkPointOnBoth ==
    ASSUME target \in Blocks, before \in Blocks
    PROVE  /\ Low \in 1..Len(target) /\ Low \in 1..Len(before)
           /\ ForkPoint \in Heads /\ Len(ForkPoint) = Low - 1
           /\ LeadsTo(ForkPoint, target) /\ LeadsTo(ForkPoint, before)
           /\ ForkPoint # before /\ ForkPoint # target
  <1>1. /\ Low \in 1..Len(target) /\ Low \in 1..Len(before)
        /\ Prefix(target, Low - 1) = Prefix(before, Low - 1)
    BY LowestIsCommon DEF Low
  <1>2. /\ target \in Heads /\ before \in Heads
        /\ Len(target) \in Nat /\ Len(before) \in Nat
    BY HeadsAreSeqs DEF Heads
  <1>3. Low - 1 \in 0..Len(target) /\ Low - 1 \in 0..Len(before)
    BY <1>1, <1>2
  <1>4. ForkPoint = Prefix(before, Low - 1)
    BY DEF ForkPoint, Low
  <1>5. ForkPoint \in Heads /\ Len(ForkPoint) = Low - 1
    BY <1>2, <1>3, <1>4, PrefixIsHead
  <1>6. Low - 1 # Len(before) /\ Low - 1 # Len(target)
    BY <1>1, <1>2
  <1> HIDE DEF Low
  <1>7. LeadsTo(ForkPoint, target) /\ LeadsTo(ForkPoint, before)
    BY <1>1, <1>2, <1>3, <1>4, <1>5 DEF LeadsTo
  <1> QED BY <1>1, <1>5, <1>6, <1>7

(* The chain is at the start of the new branch, or further on it. *)
LEMMA OnTargetLeads ==
    ASSUME CoreInv, OnTarget
    PROVE  /\ target \in Blocks /\ before \in Blocks /\ chain \in Heads
           /\ Len(new) <= Len(target)
           /\ LeadsTo(chain, target) /\ Low - 1 <= Len(chain)
  <1>1. CASE pc = "apply"
    BY <1>1 DEF CoreInv, SwitchOK, OnOldBranch, OnNewBranch, StateOK
  <1>2. CASE pc = "pop" /\ chain = ForkPoint
    <2>1. /\ target \in Blocks /\ before \in Blocks /\ chain \in Heads
          /\ Len(new) <= Len(target) /\ Low - 1 <= Len(chain)
      BY <1>2 DEF CoreInv, SwitchOK, OnOldBranch, OnNewBranch, StateOK
    <2> QED BY <1>2, <2>1, ForkPointOnBoth
  <1> QED BY <1>1, <1>2 DEF OnTarget

(* The chain is at the start of the old branch, or further on it. *)
LEMMA OnRestoreLeads ==
    ASSUME CoreInv, pc = "restore" \/ (pc = "repop" /\ chain = ForkPoint)
    PROVE  /\ target \in Blocks /\ before \in Blocks /\ chain \in Heads
           /\ Len(new) <= Len(target)
           /\ LeadsTo(chain, before) /\ Low - 1 <= Len(chain)
  <1>1. CASE pc = "restore"
    BY <1>1 DEF CoreInv, SwitchOK, OnOldBranch, OnNewBranch, StateOK
  <1>2. CASE pc = "repop" /\ chain = ForkPoint
    <2>1. /\ target \in Blocks /\ before \in Blocks /\ chain \in Heads
          /\ Len(new) <= Len(target) /\ Low - 1 <= Len(chain)
      BY <1>2 DEF CoreInv, SwitchOK, OnOldBranch, OnNewBranch, StateOK
    <2> QED BY <1>2, <2>1, ForkPointOnBoth
  <1> QED BY <1>1, <1>2

(* Outside a switch nothing is claimed of the branches. *)
LEMMA NotSwitching ==
    ASSUME pc \notin {"pop", "restore", "apply", "cleanup", "sethead", "repop"}
    PROVE  SwitchOK
  BY DEF SwitchOK, OnOldBranch, OnNewBranch

LEMMA CoreInit == Init => CoreInv
  <1> SUFFICES ASSUME Init PROVE CoreInv
    OBVIOUS
  <1>1. ForkOK
    <2>1. /\ index = {} /\ linked = {} /\ held = {} /\ head = None
          /\ max_size = 1024 /\ headLink = FALSE
      BY DEF Init, ForkInit, InitialMaxSize
    <2>2. headLink \in BOOLEAN /\ ~headLink
      BY <2>1, Zenon
    <2> QED BY <2>1, <2>2 DEF ForkOK
  <1>2. StateOK
    <2>1. <<>> \in Seq(Heads) /\ <<>> \in Seq(Entries) /\ Len(<<>>) = 0
      BY EmptySeq
    <2>2. HistoryOf(<<>>, <<>>)
      BY <2>1 DEF HistoryOf
    <2> QED BY <2>1, <2>2 DEF Init, LogInit, StateOK, Heads, InitialUndoMax
  <1>3. CallOK
    BY DEF Init, CallOK, Labels, Outcomes, Heads
  <1>4. SwitchOK
    BY NotSwitching DEF Init
  <1> QED BY <1>1, <1>2, <1>3, <1>4 DEF CoreInv

LEMMA CoreStep == CoreInv /\ [Next]_vars => CoreInv'
  <1> SUFFICES ASSUME CoreInv, [Next]_vars PROVE CoreInv'
    OBVIOUS
  <1>core. ForkOK /\ StateOK /\ CallOK /\ SwitchOK
    BY DEF CoreInv
  <1>1. ASSUME NEW depth \in 2..MaxDepth, PushTransaction(depth) PROVE CoreInv'
    <2>1. /\ UNCHANGED forkVars /\ UNCHANGED <<log, chain, undoMax, final>>
          /\ UNCHANGED pushVars /\ undo' = Retained(depth) /\ pc = "idle"
      BY <1>1 DEF PushTransaction
    <2>2. Retained(depth) \in Seq(Heads) /\ HistoryOf(Retained(depth), chain)
      <3>1. depth \in 1..MaxDepth
        BY ChainAssumption
      <3> QED BY <1>core, <3>1, RetainedOK
    <2>3. StateOK'
      BY <1>core, <2>1, <2>2 DEF StateOK
    <2>4. ForkOK' /\ CallOK'
      BY <1>core, <2>1 DEF ForkOK, CallOK, forkVars, pushVars
    <2>5. SwitchOK'
      BY <2>1, NotSwitching DEF pushVars, SwitchOK, OnOldBranch, OnNewBranch
    <2> QED BY <2>3, <2>4, <2>5 DEF CoreInv
  <1>2. ASSUME NEW b \in Blocks, Deliver(b) PROVE CoreInv'
    <2>1. /\ pc = "idle" /\ new' = b /\ before' = chain /\ target' = target
          /\ UNCHANGED <<log, chain, undo, undoMax, final>>
      BY <1>2 DEF Deliver, PushBlock, stateVars
    <2>2. StateOK'
      BY <1>core, <2>1 DEF StateOK
    <2>3. new' \in Heads /\ target' \in Heads /\ before' \in Heads
      BY <1>core, <2>1 DEF CallOK, StateOK, Heads
    <2>4. CASE outcome' = "threw" /\ UNCHANGED <<forkVars, pc>>
      <3>1. ForkOK'
        BY <1>core, <2>4 DEF ForkOK, forkVars
      <3>2. CallOK'
        BY <1>core, <2>1, <2>3, <2>4 DEF CallOK, forkVars, Outcomes
      <3>3. SwitchOK'
        BY <2>1, <2>4 DEF SwitchOK, OnOldBranch, OnNewBranch
      <3> QED BY <2>2, <3>1, <3>2, <3>3 DEF CoreInv
    <2>5. CASE ForkPush(b) /\ pc' = "forked" /\ UNCHANGED outcome
      <3>1. /\ ForkOK' /\ head' \in Blocks /\ Len(b) <= Len(head')
            /\ \A c \in linked' : Prev(c) \in index'
        BY <1>core, <2>5, ForkPushOK
      <3>2. CallOK'
        <4>1. head' # None
          BY <3>1, PrevIsBlock
        <4> QED BY <1>core, <2>1, <2>3, <2>5, <3>1, <4>1 DEF CallOK, Labels
      <3>3. SwitchOK'
        BY <2>5 DEF SwitchOK, OnOldBranch, OnNewBranch
      <3> QED BY <2>2, <3>1, <3>2, <3>3 DEF CoreInv
    <2> QED BY <1>2, <2>4, <2>5 DEF Deliver, PushBlock
  <1>3. ASSUME Extend PROVE CoreInv'
    <2>1. /\ pc = "forked" /\ new \in Blocks /\ new \in Heads /\ head # None
          /\ Applies(new) /\ ApplyAndStore(new, new) /\ Return("applied")
      BY <1>core, <1>3 DEF Extend, CallOK
    <2>2. ForkOK' /\ head' = head /\ StateOK' /\ chain' = new
      BY <1>core, <2>1, ApplyOK
    <2>3. CallOK' /\ SwitchOK'
      BY <1>core, <2>1, <2>2 DEF CallOK, SwitchOK, OnOldBranch, OnNewBranch,
                                 Return, Labels, Outcomes, Heads
    <2> QED BY <2>2, <2>3 DEF CoreInv
  <1>4. ASSUME ExtendFails PROVE CoreInv'
    <2>1. /\ pc = "forked" /\ new \in Blocks /\ head # None
          /\ ApplyFails(new) /\ Goto("remove")
      BY <1>core, <1>4 DEF ExtendFails, CallOK
    <2>2. ForkOK' /\ head' = head /\ StateOK' /\ chain' = chain
      BY <1>core, <2>1, FailsOK
    <2>3. CallOK' /\ SwitchOK'
      BY <1>core, <2>1, <2>2 DEF CallOK, SwitchOK, OnOldBranch, OnNewBranch,
                                 Goto, Labels
    <2> QED BY <2>2, <2>3 DEF CoreInv
  <1>5. ASSUME RemoveNew PROVE CoreInv'
    <2>1. /\ pc = "remove" /\ head # None /\ ForkRemove({new}) /\ Return("threw")
          /\ UNCHANGED <<log, chain, undo, undoMax, final>>
      BY <1>core, <1>5 DEF RemoveNew, CallOK, stateVars
    <2>2. ForkOK' /\ head' = head
      BY <1>core, <2>1, ForkRemoveOK
    <2>3. StateOK'
      BY <1>core, <2>1 DEF StateOK
    <2>4. CallOK' /\ SwitchOK'
      BY <1>core, <2>1, <2>2 DEF CallOK, SwitchOK, OnOldBranch, OnNewBranch,
                                 Return, Labels, Outcomes, Heads
    <2> QED BY <2>2, <2>3, <2>4 DEF CoreInv
  <1>6. ASSUME StayOnFork PROVE CoreInv'
    <2>1. /\ pc = "forked" /\ head # None /\ Return("kept") /\ UNCHANGED forkVars
          /\ UNCHANGED <<log, chain, undo, undoMax, final>>
      BY <1>core, <1>6 DEF StayOnFork, CallOK, stateVars
    <2>2. ForkOK' /\ head' = head /\ StateOK'
      BY <1>core, <2>1 DEF StateOK, ForkOK, forkVars
    <2>3. CallOK' /\ SwitchOK'
      BY <1>core, <2>1, <2>2 DEF CallOK, SwitchOK, OnOldBranch, OnNewBranch,
                                 Return, Labels, Outcomes, Heads
    <2> QED BY <2>2, <2>3 DEF CoreInv
  <1>7. ASSUME StartSwitch PROVE CoreInv'
    <2>1. /\ pc = "forked" /\ head \in Blocks /\ before = chain
          /\ Len(new) <= Len(head)
          /\ UNCHANGED <<log, chain, undo, undoMax, final>>
      BY <1>core, <1>7 DEF StartSwitch, CallOK, ForkOK, stateVars
    <2>2. StateOK' /\ head # None
      BY <1>core, <2>1, PrevIsBlock DEF StateOK
    <2>3. CASE Return("threw") /\ UNCHANGED forkVars
      <3>1. ForkOK' /\ head' = head
        BY <1>core, <2>3 DEF ForkOK, forkVars
      <3>2. CallOK' /\ SwitchOK'
        BY <1>core, <2>1, <2>2, <2>3, <3>1
           DEF CallOK, SwitchOK, OnOldBranch, OnNewBranch,
               Return, Labels, Outcomes, Heads
      <3> QED BY <2>2, <3>1, <3>2 DEF CoreInv
    <2>4. CASE /\ CanFetchBranches(head, chain)
               /\ LET low == Lowest(head, chain)
                  IN Hold({Prefix(head, n) : n \in low..Len(head)} \union
                          {Prefix(chain, n) : n \in low..Len(chain)})
               /\ target' = head /\ pc' = "pop"
               /\ UNCHANGED <<new, before, outcome>>
      <3> DEFINE low == Lowest(head, chain)
                 S == {Prefix(head, n) : n \in low..Len(head)} \union
                      {Prefix(chain, n) : n \in low..Len(chain)}
      <3>1. chain \in Blocks
        BY <1>core, <2>4 DEF CanFetchBranches, ForkOK
      <3>2. low \in 1..Len(head) /\ low \in 1..Len(chain)
        BY <2>1, <3>1, LowestIsCommon
      <3>3. S \subseteq Blocks
        <4>1. \A n \in low..Len(head) : n \in 1..Len(head)
          BY <3>2, <2>1, PrevIsBlock
        <4>2. \A n \in low..Len(chain) : n \in 1..Len(chain)
          BY <3>2, <3>1, PrevIsBlock
        <4> HIDE DEF low
        <4> QED BY <2>1, <3>1, <4>1, <4>2, BlocksAssumption
      <3>4. Hold(S)
        BY <2>4
      <3>5. ForkOK' /\ head' = head
        <4> HIDE DEF S
        <4> QED BY <1>core, <3>3, <3>4, HoldOK
      <3>6. CallOK'
        BY <1>core, <2>1, <2>2, <2>4, <3>5 DEF CallOK, Labels, Heads
      <3>7. SwitchOK'
        <4>1. /\ target' = head /\ before' = chain /\ chain' = chain /\ new' = new
              /\ pc' = "pop"
          BY <2>1, <2>4
        <4>2. Low' = low
          BY <4>1 DEF Low
        <4>3. Len(chain) \in Nat /\ LeadsTo(chain, chain)
          BY <3>1, HeadsAreSeqs, PrefixAndPrev DEF LeadsTo, Heads
        <4>4. low - 1 <= Len(chain)
          BY <3>2, <4>3
        <4> HIDE DEF low
        <4> QED BY <2>1, <3>1, <4>1, <4>2, <4>3, <4>4
                DEF SwitchOK, OnOldBranch, OnNewBranch
      <3> QED BY <2>2, <3>5, <3>6, <3>7 DEF CoreInv
    <2> QED BY <1>7, <2>3, <2>4 DEF StartSwitch
  <1>8. ASSUME PopBlock PROVE CoreInv'
    <2>1. /\ pc \in {"pop", "repop"} /\ chain # ForkPoint
          /\ CanPop /\ undo # <<>> /\ ForkPop /\ PopState
          /\ UNCHANGED <<pc, new, target, before, outcome>>
      BY <1>8 DEF PopBlock, CanPopBlock, pushVars
    <2>2. ForkOK' /\ head' # None
      BY <1>core, <2>1, ForkPopOK, PrevIsBlock
    <2>3. /\ StateOK' /\ chain # <<>> /\ chain' = Prev(chain)
          /\ Len(chain') = Len(chain) - 1
      BY <1>core, <2>1, PopOK
    <2>4. CallOK'
      BY <1>core, <2>1, <2>2 DEF CallOK
    <2>5. /\ target \in Blocks /\ before \in Blocks /\ Low - 1 <= Len(chain)
          /\ chain \in Heads /\ target \in Heads /\ before \in Heads
      BY <1>core, <2>1 DEF SwitchOK, OnOldBranch, OnNewBranch, StateOK, Heads
    <2>6. Low' = Low
      BY <2>1 DEF Low
    <2>7. Len(chain) # Low - 1
      <3>1. /\ LeadsTo(ForkPoint, target) /\ LeadsTo(ForkPoint, before)
            /\ Len(ForkPoint) = Low - 1
        BY <2>5, ForkPointOnBoth
      <3>2. LeadsTo(chain, target) \/ LeadsTo(chain, before)
        BY <1>core, <2>1 DEF SwitchOK, OnOldBranch, OnNewBranch
      <3> QED BY <2>1, <3>1, <3>2 DEF LeadsTo
    <2>8. Low - 1 <= Len(chain')
      <3>1. Low \in Int /\ Len(chain) \in Nat
        BY <2>5, ForkPointOnBoth, HeadsAreSeqs
      <3> QED BY <2>3, <2>5, <2>7, <3>1
    <2>9. SwitchOK'
      <3>1. OnOldBranch' => LeadsTo(chain', before')
        BY <1>core, <2>1, <2>3, <2>5, PrevOnBranch DEF SwitchOK, OnOldBranch
      <3>2. OnNewBranch' => LeadsTo(chain', target')
        BY <1>core, <2>1, <2>3, <2>5, PrevOnBranch DEF SwitchOK, OnNewBranch
      <3>3. Len(new') <= Len(target')
        BY <1>core, <2>1 DEF SwitchOK, OnOldBranch, OnNewBranch
      <3> QED BY <2>1, <2>5, <2>6, <2>8, <3>1, <3>2, <3>3 DEF SwitchOK
    <2> QED BY <2>2, <2>3, <2>4, <2>9 DEF CoreInv
  <1>9. ASSUME PopThrows PROVE CoreInv'
    <2>1. /\ pc \in {"pop", "repop"} /\ head # None
          /\ Goto("throw") /\ UNCHANGED <<log, chain, undo, undoMax, final>>
      BY <1>core, <1>9 DEF PopThrows, stateVars, CallOK
    <2>2. ForkOK' /\ head' # None
      <3>1. CASE BlockFound /\ CanPop
        BY <1>core, <1>9, <3>1, ForkPopOK, PrevIsBlock DEF PopThrows
      <3>2. CASE ~(BlockFound /\ CanPop)
        BY <1>core, <1>9, <2>1, <3>2 DEF PopThrows, ForkOK, forkVars
      <3> QED BY <3>1, <3>2
    <2>3. StateOK'
      BY <1>core, <2>1 DEF StateOK
    <2>4. CallOK' /\ SwitchOK'
      BY <1>core, <2>1, <2>2 DEF CallOK, SwitchOK, OnOldBranch, OnNewBranch,
                                 Goto, Labels
    <2> QED BY <2>2, <2>3, <2>4 DEF CoreInv
  <1>10. ASSUME Throw PROVE CoreInv'
    <2>1. /\ pc = "throw" /\ head # None /\ Release /\ Return("threw")
          /\ UNCHANGED <<log, chain, undo, undoMax, final>>
      BY <1>core, <1>10 DEF Throw, stateVars, CallOK
    <2>2. ForkOK' /\ head' = head
      BY <1>core, <2>1, ReleaseOK
    <2>3. StateOK'
      BY <1>core, <2>1 DEF StateOK
    <2>4. CallOK' /\ SwitchOK'
      BY <1>core, <2>1, <2>2 DEF CallOK, SwitchOK, OnOldBranch, OnNewBranch,
                                 Return, Labels, Outcomes, Heads
    <2> QED BY <2>2, <2>3, <2>4 DEF CoreInv
  <1>11. ASSUME ApplyFork PROVE CoreInv'
    <2> DEFINE b == NextOf(target)
    <2>1. /\ OnTarget /\ chain # target
          /\ Applies(b) /\ ApplyAndStore(b, b) /\ Goto("apply")
      BY <1>11 DEF ApplyFork
    <2>2. /\ target \in Blocks /\ before \in Blocks /\ chain \in Heads
          /\ Len(new) <= Len(target)
          /\ LeadsTo(chain, target) /\ Low - 1 <= Len(chain)
      BY <2>1, OnTargetLeads
    <2>3. b \in Blocks /\ b \in Heads /\ LeadsTo(b, target)
      BY <2>1, <2>2, NextOnBranch DEF NextOf, Heads
    <2> HIDE DEF b
    <2>4. /\ ForkOK' /\ head' = head /\ StateOK'
          /\ chain' = b /\ Len(chain') = Len(chain) + 1
      BY <1>core, <2>1, <2>3, ApplyOK
    <2>5. CallOK'
      <3>1. head # None
        BY <1>core, <2>1 DEF CallOK, OnTarget
      <3>2. pc # "idle"
        BY <2>1 DEF OnTarget
      <3> QED BY <1>core, <2>1, <2>4, <3>1, <3>2 DEF CallOK, Goto, Labels
    <2>6. SwitchOK'
      <3>1. /\ pc' = "apply" /\ new' = new /\ target' = target /\ before' = before
            /\ Low' = Low
        BY <2>1 DEF Goto, Low
      <3>2. Low - 1 <= Len(chain')
        <4>1. Low \in Int /\ Len(chain) \in Nat
          BY <2>2, ForkPointOnBoth, HeadsAreSeqs
        <4> QED BY <2>2, <2>4, <4>1
      <3> QED BY <2>2, <2>3, <2>4, <3>1, <3>2 DEF SwitchOK, OnOldBranch, OnNewBranch
    <2> QED BY <2>4, <2>5, <2>6 DEF CoreInv
  <1>12. ASSUME FinishSwitch PROVE CoreInv'
    <2>1. /\ pc = "apply" /\ head # None /\ Release /\ Return("switched")
          /\ UNCHANGED <<log, chain, undo, undoMax, final>>
      BY <1>core, <1>12 DEF FinishSwitch, stateVars, CallOK
    <2>2. ForkOK' /\ head' = head
      BY <1>core, <2>1, ReleaseOK
    <2>3. StateOK'
      BY <1>core, <2>1 DEF StateOK
    <2>4. CallOK' /\ SwitchOK'
      BY <1>core, <2>1, <2>2 DEF CallOK, SwitchOK, OnOldBranch, OnNewBranch,
                                 Return, Labels, Outcomes, Heads
    <2> QED BY <2>2, <2>3, <2>4 DEF CoreInv
  <1>13. ASSUME ApplyForkFails PROVE CoreInv'
    <2> DEFINE b == NextOf(target)
    <2>1. OnTarget /\ chain # target /\ ApplyFails(b) /\ Goto("cleanup")
      BY <1>13 DEF ApplyForkFails
    <2>2. /\ target \in Blocks /\ before \in Blocks /\ chain \in Heads
          /\ Len(new) <= Len(target)
          /\ LeadsTo(chain, target) /\ Low - 1 <= Len(chain)
      BY <2>1, OnTargetLeads
    <2>3. b \in Blocks
      BY <2>1, <2>2, NextOnBranch DEF NextOf
    <2> HIDE DEF b
    <2>4. ForkOK' /\ head' = head /\ StateOK' /\ chain' = chain
      BY <1>core, <2>1, <2>3, FailsOK
    <2>5. CallOK'
      <3>1. head # None /\ pc # "idle"
        BY <1>core, <2>1 DEF CallOK, OnTarget
      <3> QED BY <1>core, <2>1, <2>4, <3>1 DEF CallOK, Goto, Labels
    <2>6. SwitchOK'
      <3>1. /\ pc' = "cleanup" /\ new' = new /\ target' = target
            /\ before' = before /\ Low' = Low
        BY <2>1 DEF Goto, Low
      <3> QED BY <2>2, <2>4, <3>1 DEF SwitchOK, OnOldBranch, OnNewBranch
    <2> QED BY <2>4, <2>5, <2>6 DEF CoreInv
  <1>14. ASSUME RemoveRest PROVE CoreInv'
    <2> DEFINE S == {Prefix(target, n) : n \in (Len(chain) + 1)..Len(target)}
    <2>1. /\ pc = "cleanup" /\ head # None /\ ForkRemove(S) /\ Goto("sethead")
          /\ UNCHANGED <<log, chain, undo, undoMax, final>>
      BY <1>core, <1>14 DEF RemoveRest, stateVars, CallOK
    <2> HIDE DEF S
    <2>2. ForkOK' /\ head' = head
      BY <1>core, <2>1, ForkRemoveOK
    <2>3. StateOK'
      BY <1>core, <2>1 DEF StateOK
    <2>4. CallOK'
      BY <1>core, <2>1, <2>2 DEF CallOK, Goto, Labels
    <2>5. SwitchOK'
      <3>1. Low' = Low
        BY <2>1 DEF Goto, Low
      <3> QED BY <1>core, <2>1, <3>1 DEF SwitchOK, OnOldBranch, OnNewBranch, Goto
    <2> QED BY <2>2, <2>3, <2>4, <2>5 DEF CoreInv
  <1>15. ASSUME SetHead PROVE CoreInv'
    <2>1. /\ pc = "sethead" /\ ForkSetHead(before) /\ Goto("repop")
          /\ UNCHANGED <<log, chain, undo, undoMax, final>>
      BY <1>15 DEF SetHead, stateVars
    <2>2. before \in Blocks /\ before # None
      BY <1>core, <2>1, PrevIsBlock DEF SwitchOK, OnOldBranch, OnNewBranch
    <2>3. ForkOK' /\ head' = before
      BY <1>core, <2>1, <2>2, ForkSetHeadOK
    <2>4. StateOK'
      BY <1>core, <2>1 DEF StateOK
    <2>5. CallOK'
      BY <1>core, <2>1, <2>2, <2>3 DEF CallOK, Goto, Labels
    <2>6. SwitchOK'
      <3>1. Low' = Low
        BY <2>1 DEF Goto, Low
      <3> QED BY <1>core, <2>1, <3>1 DEF SwitchOK, OnOldBranch, OnNewBranch, Goto
    <2> QED BY <2>3, <2>4, <2>5, <2>6 DEF CoreInv
  <1>16. ASSUME RestoreFork PROVE CoreInv'
    <2> DEFINE b == NextOf(before)
    <2>1. /\ pc = "restore" \/ (pc = "repop" /\ chain = ForkPoint)
          /\ chain # before /\ Applies(b) /\ ApplyAndStore(b, new)
          /\ Goto(IF b = before THEN "throw" ELSE "restore")
      BY <1>16 DEF RestoreFork
    <2>2. /\ target \in Blocks /\ before \in Blocks /\ chain \in Heads
          /\ Len(new) <= Len(target)
          /\ LeadsTo(chain, before) /\ Low - 1 <= Len(chain)
      BY <2>1, OnRestoreLeads
    <2>3. b \in Blocks /\ LeadsTo(b, before)
      BY <2>1, <2>2, NextOnBranch DEF NextOf
    <2>4. new \in Heads /\ head # None /\ pc # "idle"
      BY <1>core, <2>1 DEF CallOK
    <2> HIDE DEF b
    <2>5. /\ ForkOK' /\ head' = head /\ StateOK'
          /\ chain' = b /\ Len(chain') = Len(chain) + 1
      BY <1>core, <2>1, <2>3, <2>4, ApplyOK
    <2>6. CallOK'
      BY <1>core, <2>1, <2>4, <2>5 DEF CallOK, Goto, Labels
    <2>7. SwitchOK'
      <3>1. /\ pc' \in {"throw", "restore"} /\ new' = new /\ target' = target
            /\ before' = before /\ Low' = Low
        BY <2>1 DEF Goto, Low
      <3>2. Low - 1 <= Len(chain')
        <4>1. Low \in Int /\ Len(chain) \in Nat
          BY <2>2, ForkPointOnBoth, HeadsAreSeqs
        <4> QED BY <2>2, <2>5, <4>1
      <3> QED BY <2>2, <2>3, <2>5, <3>1, <3>2 DEF SwitchOK, OnOldBranch, OnNewBranch
    <2> QED BY <2>5, <2>6, <2>7 DEF CoreInv
  <1>17. CASE UNCHANGED vars
    <2>1. /\ UNCHANGED forkVars /\ UNCHANGED <<pc, new, target, before, outcome>>
          /\ UNCHANGED <<log, chain, undo, undoMax, final>>
      BY <1>17 DEF vars, pushVars, stateVars
    <2>2. ForkOK' /\ StateOK' /\ CallOK'
      BY <1>core, <2>1 DEF ForkOK, StateOK, CallOK, forkVars
    <2>3. SwitchOK'
      BY <1>core, <2>1 DEF SwitchOK, OnOldBranch, OnNewBranch, Low
    <2> QED BY <2>2, <2>3 DEF CoreInv
  <1> QED
    BY <1>1, <1>2, <1>3, <1>4, <1>5, <1>6, <1>7, <1>8, <1>9, <1>10, <1>11, <1>12,
       <1>13, <1>14, <1>15, <1>16, <1>17 DEF Next, PushStep

(* The fields of the fork database, of the object state, of the block log  *)
(* and of a call of push_block have the types of the code's members at     *)
(* every step; in particular _head is a block whenever it is not null,     *)
(* after any number of pops.                                               *)
THEOREM TypeCorrect == Spec => []TypeOK
  <1>1. CoreInv => TypeOK
    BY DEF CoreInv, ForkOK, StateOK, CallOK, TypeOK
  <1> QED BY CoreInit, CoreStep, <1>1, PTL DEF Spec

(* The undo history is the chain of the last blocks at every step of a     *)
(* push, of a switch to another fork and of the way back.                  *)
THEOREM HistoryIsChain == Spec => []UndoIsHistory
  <1>1. CoreInv => UndoIsHistory
    BY DEF CoreInv, StateOK, HistoryOf, UndoIsHistory
  <1> QED BY CoreInit, CoreStep, <1>1, PTL DEF Spec

(* push_block returns without an exception only once the chain is as long  *)
(* as the block that was pushed.                                           *)
THEOREM CatchesUp == Spec => []PushCatchesUp
  <1>1. Init => PushCatchesUp
    BY EmptySeq DEF Init, PushCatchesUp
  <1>2. CoreInv /\ PushCatchesUp /\ [Next]_vars => PushCatchesUp'
    <2> SUFFICES ASSUME CoreInv, PushCatchesUp, [Next]_vars PROVE PushCatchesUp'
      OBVIOUS
    <2>core. StateOK /\ CallOK /\ SwitchOK /\ ForkOK
      BY DEF CoreInv
    <2>len. Len(chain) \in Nat /\ Len(new) \in Nat
      BY <2>core, HeadsAreSeqs DEF StateOK, CallOK
    <2>1. ASSUME NEW depth \in 2..MaxDepth, PushTransaction(depth) PROVE PushCatchesUp'
      BY <2>1 DEF PushTransaction, PushCatchesUp, pushVars
    <2>2. ASSUME NEW b \in Blocks, Deliver(b) PROVE PushCatchesUp'
      BY <2>2 DEF Deliver, PushBlock, PushCatchesUp
    <2>3. ASSUME Extend PROVE PushCatchesUp'
      <3>1. chain' = new /\ new' = new
        BY <2>3 DEF Extend, ApplyAndStore, Return
      <3> QED BY <2>len, <3>1 DEF PushCatchesUp
    <2>4. ASSUME StayOnFork PROVE PushCatchesUp'
      <3>1. /\ Len(new) <= Len(head) /\ Len(head) <= Len(chain) /\ head \in Blocks
            /\ new' = new /\ chain' = chain
        BY <2>core, <2>4 DEF StayOnFork, CallOK, ForkOK, Return, stateVars
      <3>2. Len(head) \in Nat
        BY <3>1, PrevIsBlock
      <3> QED BY <2>len, <3>1, <3>2 DEF PushCatchesUp
    <2>5. ASSUME FinishSwitch PROVE PushCatchesUp'
      <3>1. /\ Len(new) <= Len(target) /\ chain = target
            /\ new' = new /\ chain' = chain
        BY <2>core, <2>5
           DEF FinishSwitch, SwitchOK, OnOldBranch, OnNewBranch, Return, stateVars
      <3> QED BY <2>len, <3>1 DEF PushCatchesUp
    <2>6. ASSUME RemoveNew \/ Throw PROVE PushCatchesUp'
      BY <2>6 DEF RemoveNew, Throw, Return, PushCatchesUp
    <2>7. ASSUME StartSwitch PROVE PushCatchesUp'
      BY <2>7 DEF StartSwitch, Return, PushCatchesUp
    <2>8. ASSUME ExtendFails \/ PopThrows \/ ApplyFork \/ ApplyForkFails \/
                 RemoveRest \/ SetHead \/ RestoreFork
          PROVE  PushCatchesUp'
      <3>1. pc' # "idle"
        BY <2>8 DEF ExtendFails, PopThrows, ApplyFork, ApplyForkFails, RemoveRest,
                    SetHead, RestoreFork, Goto
      <3> QED BY <3>1 DEF PushCatchesUp
    <2>9. ASSUME PopBlock PROVE PushCatchesUp'
      BY <2>9 DEF PopBlock, pushVars, PushCatchesUp
    <2>10. CASE UNCHANGED vars
      BY <2>10 DEF vars, pushVars, stateVars, PushCatchesUp
    <2> QED BY <2>1, <2>2, <2>3, <2>4, <2>5, <2>6, <2>7, <2>8, <2>9, <2>10
            DEF Next, PushStep
  <1> QED BY CoreInit, CoreStep, <1>1, <1>2, PTL DEF Spec

-----------------------------------------------------------------------------
(* How far back the undo history reaches. *)

(* The number of blocks below the undo history, which no pop can reach. *)
Bottom == Len(chain) - Len(undo)

(* The undo history ends no lower than one block below the block that was  *)
(* irreversible when the head block was applied.                           *)
UndoGuards == Bottom >= LIB[Prev(chain)] - 1

(* The sizes lag behind the chain by one block, so the bound above may     *)
(* fail for the newest block; it holds for the block before.               *)
SizesOK ==
    /\ LIB[chain] <= final
    /\ undoMax >= Len(chain) - final + 1
    /\ UndoReachesReversible
    /\ max_size = undoMax \/ chain = <<>>
    /\ UndoGuards \/ undoMax <= Len(chain) - LIB[Prev(chain)] + 1
    /\ Bottom >= LIB[Prev(Prev(chain))] - 1

(* How many states a session leaves: all of them, or as many as there is   *)
(* room for, which is never more than the size.                            *)
LEMMA RetainedLen ==
    ASSUME StateOK, NEW depth \in 1..MaxDepth
    PROVE  /\ Len(Retained(depth)) \in Nat
           /\ Len(Retained(depth)) <= Len(undo)
           /\ Len(Retained(depth)) <= undoMax
           /\ \/ Len(Retained(depth)) = Len(undo)
              \/ Len(Retained(depth)) >= undoMax - (MaxDepth - 1)
  <1> DEFINE room == MaxOf(0, undoMax - (depth - 1))
  <1>1. Len(undo) \in Nat /\ undoMax \in Nat /\ MaxDepth \in Nat
    BY LenProperties, ChainAssumption DEF StateOK
  <1>2. room \in Nat /\ room <= undoMax /\ room >= undoMax - (MaxDepth - 1)
    BY <1>1 DEF MaxOf
  <1>3. Len(Retained(depth)) = MinOf(room, Len(undo))
    BY RetainedOK
  <1> HIDE DEF room
  <1> QED BY <1>1, <1>2, <1>3 DEF MinOf

(* The irreversible blocks of the last three heads. *)
LEMMA LIBsOfChain ==
    \A c \in Heads : /\ LIB[c] \in Nat /\ LIB[Prev(c)] \in Nat
                     /\ LIB[Prev(Prev(c))] \in Nat
                     /\ LIB[Prev(c)] <= LIB[c]
                     /\ LIB[Prev(Prev(c))] <= LIB[Prev(c)]
  <1>1. \A c \in Heads : /\ Prev(c) \in Heads /\ LIB[c] \in Nat
                         /\ LIB[Prev(c)] <= LIB[c]
    <2> TAKE c \in Heads
    <2>1. Prev(c) \in Heads
      BY PrefixAndPrev
    <2>2. LIB[c] \in 0..Len(c) /\ Len(c) \in Nat
      BY LIBOfAncestor, HeadsAreSeqs
    <2>3. CASE c = <<>>
      <3>1. Prev(c) = c
        BY <2>1, <2>3, PrefixAndPrev, HeadsAreSeqs
      <3> QED BY <2>1, <2>2, <3>1
    <2>4. CASE c # <<>>
      BY <2>1, <2>2, <2>4, NewSizeType, HeadsAreSeqs
    <2> QED BY <2>3, <2>4
  <1> QED BY <1>1

LEMMA SizesForget ==
    ASSUME StateOK, SizesOK, NEW depth \in 1..MaxDepth, undo' = Retained(depth),
           UNCHANGED <<chain, undoMax, max_size, final>>
    PROVE  SizesOK' /\ Bottom' >= Bottom /\ UndoGuards'
  <1>1. /\ Len(undo') \in Nat /\ Len(undo') <= Len(undo) /\ Len(undo') <= undoMax
        /\ Len(undo') = Len(undo) \/ Len(undo') >= undoMax - (MaxDepth - 1)
    BY RetainedLen
  <1>2. /\ Len(undo) \in Nat /\ Len(chain) \in Nat /\ undoMax \in Nat
        /\ final \in Nat /\ MaxDepth \in Nat
    BY LenProperties, HeadsAreSeqs, ChainAssumption DEF StateOK
  <1>3. /\ LIB[chain] \in Nat /\ LIB[Prev(chain)] \in Nat
        /\ LIB[Prev(Prev(chain))] \in Nat
    BY LIBsOfChain DEF StateOK
  <1>4. Bottom' >= Bottom
    BY <1>1, <1>2 DEF Bottom
  <1>5. UndoGuards'
    <2>1. CASE UndoGuards
      BY <1>1, <1>2, <1>3, <2>1 DEF UndoGuards, Bottom
    <2>2. CASE undoMax <= Len(chain) - LIB[Prev(chain)] + 1
      BY <1>1, <1>2, <1>3, <2>2 DEF UndoGuards, Bottom
    <2> QED BY <2>1, <2>2 DEF SizesOK
  <1>6. UndoReachesReversible'
    BY <1>1, <1>2 DEF SizesOK, UndoReachesReversible
  <1>7. Bottom' >= LIB[Prev(Prev(chain'))] - 1
    BY <1>1, <1>2, <1>3 DEF SizesOK, Bottom
  <1> QED BY <1>4, <1>5, <1>6, <1>7 DEF SizesOK

LEMMA SizesApply ==
    ASSUME ForkOK, StateOK, SizesOK, NEW b \in Blocks, NEW id \in Heads,
           Applies(b), ApplyAndStore(b, id)
    PROVE  SizesOK' /\ Bottom' >= Bottom
  <1>1. /\ chain' = b /\ Len(chain') = Len(chain) + 1 /\ Prev(b) = chain
        /\ chain \in Heads
    BY ApplyOK DEF StateOK
  <1>2. PICK depth \in 1..(MaxDepth - 1) : undo' = Append(Retained(depth), chain)
    BY DEF ApplyAndStore
  <1> DEFINE r == Len(Retained(depth))
  <1>3. depth \in 1..MaxDepth
    BY ChainAssumption
  <1>4. r \in Nat /\ r <= Len(undo) /\ r <= undoMax
        /\ (r = Len(undo) \/ r >= undoMax - (MaxDepth - 1))
    BY <1>3, RetainedLen
  <1>5. Len(undo') = r + 1
    BY <1>1, <1>2, <1>3, RetainedOK, AppendProperties
  <1> HIDE DEF r
  <1>6. /\ Len(undo) \in Nat /\ Len(chain) \in Nat /\ undoMax \in Nat
        /\ final \in Nat /\ MaxDepth \in Nat /\ Len(b) = Len(chain) + 1
    BY <1>1, LenProperties, HeadsAreSeqs, ChainAssumption DEF StateOK
  <1>7. /\ LIB[b] \in Nat /\ LIB[chain] \in Nat /\ LIB[Prev(chain)] \in Nat
        /\ LIB[chain] <= LIB[b]
    <2>1. b \in Heads
      BY DEF Heads
    <2> QED BY <1>1, <2>1, LIBsOfChain
  <1>8. /\ undoMax' = Len(chain) + 1 - LIB[chain] + 1 /\ max_size' = undoMax'
        /\ final' = MaxOf(final, LIB[b])
    <2>1. NewSize(b) = Len(chain) + 1 - LIB[chain] + 1
      BY <1>1, <1>6, <1>7 DEF NewSize
    <2>2. undoMax' = NewSize(b) /\ final' = MaxOf(final, LIB[b])
      BY DEF ApplyAndStore
    <2>3. max_size' = NewSize(b)
      BY DEF ApplyAndStore, ForkSetMaxSize
    <2> QED BY <2>1, <2>2, <2>3
  <1>9. final' \in Nat /\ final' >= final /\ LIB[b] <= final'
    BY <1>6, <1>7, <1>8 DEF MaxOf
  <1>10. Bottom' = Len(chain) - r
    BY <1>1, <1>4, <1>5, <1>6 DEF Bottom
  <1>11. Bottom' >= Bottom
    BY <1>4, <1>6, <1>10 DEF Bottom
  <1>12. UndoReachesReversible'
    BY <1>4, <1>6, <1>9, <1>10 DEF SizesOK, UndoReachesReversible, Bottom
  <1>13. Bottom' >= LIB[Prev(chain)] - 1
    <2>1. CASE UndoGuards
      BY <1>4, <1>6, <1>7, <1>10, <2>1 DEF UndoGuards, Bottom
    <2>2. CASE undoMax <= Len(chain) - LIB[Prev(chain)] + 1
      BY <1>4, <1>6, <1>7, <1>10, <2>2
    <2> QED BY <2>1, <2>2 DEF SizesOK
  <1>14. undoMax' >= Len(chain') - final' + 1
    BY <1>1, <1>6, <1>7, <1>8, <1>9 DEF SizesOK
  <1>15. undoMax' <= Len(chain') - LIB[Prev(chain')] + 1
    BY <1>1, <1>6, <1>7, <1>8
  <1> QED BY <1>1, <1>8, <1>9, <1>11, <1>12, <1>13, <1>14, <1>15 DEF SizesOK

LEMMA SizesFail ==
    ASSUME ForkOK, StateOK, SizesOK, NEW b \in Blocks, ApplyFails(b)
    PROVE  SizesOK' /\ Bottom' >= Bottom /\ UndoGuards'
  <1>1. chain' = chain /\ final' = final
    BY DEF ApplyFails
  <1>2. PICK depth \in 1..(MaxDepth - 1) : undo' = Retained(depth)
    BY DEF ApplyFails
  <1>3. depth \in 1..MaxDepth
    BY ChainAssumption
  <1>4. CASE UNCHANGED <<undoMax, forkVars>>
    BY <1>1, <1>2, <1>3, <1>4, SizesForget DEF forkVars
  <1>5. CASE /\ Prev(b) = chain /\ undoMax' = NewSize(b)
             /\ ForkSetMaxSize(NewSize(b))
    <2>1. /\ Len(undo') \in Nat /\ Len(undo') <= Len(undo) /\ Len(undo') <= undoMax
          /\ Len(undo') = Len(undo) \/ Len(undo') >= undoMax - (MaxDepth - 1)
      BY <1>2, <1>3, RetainedLen
    <2>2. /\ Len(undo) \in Nat /\ Len(chain) \in Nat /\ undoMax \in Nat
          /\ final \in Nat /\ MaxDepth \in Nat
      BY LenProperties, HeadsAreSeqs, ChainAssumption DEF StateOK
    <2>3. /\ LIB[chain] \in Nat /\ LIB[Prev(chain)] \in Nat
          /\ LIB[Prev(Prev(chain))] \in Nat
      BY LIBsOfChain DEF StateOK
    <2>4. undoMax' = Len(chain) + 1 - LIB[chain] + 1 /\ max_size' = undoMax'
      <3>1. Len(b) \in Nat \ {0} /\ b \in Heads /\ b # <<>>
        BY PrevIsBlock, HeadsAreSeqs DEF Heads
      <3>2. Len(b) = Len(chain) + 1
        <4>1. Len(Prev(b)) = Len(b) - 1
          BY <3>1, PrefixAndPrev
        <4> QED BY <1>5, <3>1, <4>1
      <3>3. NewSize(b) = Len(chain) + 1 - LIB[chain] + 1
        BY <1>5, <2>2, <2>3, <3>2 DEF NewSize
      <3>4. max_size' = NewSize(b)
        BY <1>5 DEF ForkSetMaxSize
      <3> QED BY <1>5, <3>3, <3>4
    <2>5. Bottom' >= Bottom
      BY <1>1, <2>1, <2>2 DEF Bottom
    <2>6. UndoGuards'
      <3>1. CASE UndoGuards
        BY <1>1, <2>1, <2>2, <2>3, <3>1 DEF UndoGuards, Bottom
      <3>2. CASE undoMax <= Len(chain) - LIB[Prev(chain)] + 1
        BY <1>1, <2>1, <2>2, <2>3, <3>2 DEF UndoGuards, Bottom
      <3> QED BY <3>1, <3>2 DEF SizesOK
    <2>7. UndoReachesReversible'
      BY <1>1, <2>1, <2>2 DEF SizesOK, UndoReachesReversible
    <2>8. Bottom' >= LIB[Prev(Prev(chain'))] - 1
      BY <1>1, <2>1, <2>2, <2>3 DEF SizesOK, Bottom
    <2>9. undoMax' >= Len(chain') - final' + 1
      BY <1>1, <2>2, <2>3, <2>4 DEF SizesOK
    <2> QED BY <1>1, <2>4, <2>5, <2>6, <2>7, <2>8, <2>9 DEF SizesOK
  <1> QED BY <1>4, <1>5 DEF ApplyFails

LEMMA SizesPop ==
    ASSUME StateOK, SizesOK, undo # <<>>, PopState, max_size' = max_size
    PROVE  SizesOK' /\ Bottom' = Bottom /\ UndoGuards'
  <1>1. /\ StateOK' /\ chain # <<>> /\ chain' = Prev(chain)
        /\ Len(chain') = Len(chain) - 1 /\ Len(undo') = Len(undo) - 1
        /\ undoMax' = undoMax /\ final' = final
    BY PopOK DEF PopState
  <1>2. /\ Len(undo) \in Nat /\ Len(chain) \in Nat /\ undoMax \in Nat
        /\ final \in Nat /\ MaxDepth \in Nat
    BY LenProperties, HeadsAreSeqs, ChainAssumption DEF StateOK
  <1>3. /\ LIB[chain] \in Nat /\ LIB[Prev(chain)] \in Nat
        /\ LIB[Prev(Prev(chain))] \in Nat /\ LIB[Prev(chain)] <= LIB[chain]
        /\ LIB[Prev(Prev(Prev(chain)))] \in Nat
        /\ LIB[Prev(Prev(Prev(chain)))] <= LIB[Prev(Prev(chain))]
    <2>1. chain \in Heads /\ Prev(chain) \in Heads
      BY PrefixAndPrev DEF StateOK
    <2> QED BY <2>1, LIBsOfChain
  <1>4. Bottom' = Bottom
    BY <1>1, <1>2 DEF Bottom
  <1>5. UndoGuards'
    BY <1>1, <1>3, <1>4 DEF SizesOK, UndoGuards
  <1>6. UndoReachesReversible'
    BY <1>1, <1>2, <1>4 DEF SizesOK, UndoReachesReversible, Bottom
  <1>7. Bottom' >= LIB[Prev(Prev(chain'))] - 1
    <2>1. Bottom \in Int
      BY <1>2 DEF Bottom
    <2> QED BY <1>1, <1>3, <1>4, <2>1 DEF SizesOK
  <1>8. undoMax' >= Len(chain') - final' + 1 /\ LIB[chain'] <= final'
    BY <1>1, <1>2, <1>3 DEF SizesOK
  <1> QED BY <1>1, <1>4, <1>5, <1>6, <1>7, <1>8 DEF SizesOK

(* The effects a step can have on the object state and the sizes. *)
Forgets ==
    /\ \E depth \in 1..MaxDepth : undo' = Retained(depth)
    /\ UNCHANGED <<chain, undoMax, final>> /\ UNCHANGED forkVars
AppliesBlock ==
    /\ \E b \in Blocks, id \in Heads : Applies(b) /\ ApplyAndStore(b, id)
    /\ pc' \in {"idle", "apply", "restore", "throw"}
FailsBlock == \E b \in Blocks : ApplyFails(b)
Pops == undo # <<>> /\ PopState /\ max_size' = max_size
Keeps ==
    /\ UNCHANGED <<chain, undo, undoMax, max_size, final>>
    /\ pc' \in {"cleanup", "sethead", "repop"} =>
           pc \in {"cleanup", "sethead", "repop"}
    /\ \/ \E b \in Blocks : CanPush(b) /\ ForkPush(b)
       \/ /\ index' \subseteq index
          /\ head' # None /\ Len(head') > Len(chain) =>
                 head # None /\ Len(head) > Len(chain)
       \/ pc = "sethead"

LEMMA StepEffect ==
    ASSUME CoreInv, [Next]_vars
    PROVE  Forgets \/ AppliesBlock \/ FailsBlock \/ Pops \/ Keeps
  <1>core. ForkOK /\ StateOK /\ CallOK /\ SwitchOK
    BY DEF CoreInv
  <1>1. ASSUME NEW depth \in 2..MaxDepth, PushTransaction(depth) PROVE Forgets
    <2>1. depth \in 1..MaxDepth
      BY ChainAssumption
    <2> QED BY <1>1, <2>1 DEF PushTransaction, Forgets
  <1>2. ASSUME NEW b \in Blocks, Deliver(b) PROVE Keeps
    <2>1. UNCHANGED <<chain, undo, undoMax, final>> /\ pc = "idle"
      BY <1>2 DEF Deliver, PushBlock, stateVars
    <2>2. max_size' = max_size /\ pc' \in {"idle", "forked"}
      BY <1>2 DEF Deliver, PushBlock, ForkPush, forkVars
    <2>3. (CanPush(b) /\ ForkPush(b)) \/ UNCHANGED <<index, head>>
      BY <1>2 DEF Deliver, PushBlock, forkVars
    <2> QED BY <2>1, <2>2, <2>3 DEF Keeps
  <1>3. ASSUME Extend PROVE AppliesBlock
    <2>1. new \in Blocks /\ new \in Heads /\ Applies(new) /\ ApplyAndStore(new, new)
          /\ pc' = "idle"
      BY <1>core, <1>3 DEF Extend, CallOK, Return
    <2> QED BY <2>1 DEF AppliesBlock
  <1>4. ASSUME ExtendFails PROVE FailsBlock
    <2>1. new \in Blocks /\ ApplyFails(new)
      BY <1>core, <1>4 DEF ExtendFails, CallOK
    <2> QED BY <2>1 DEF FailsBlock
  <1>5. ASSUME ApplyFork PROVE AppliesBlock
    <2> DEFINE b == NextOf(target)
    <2>1. /\ OnTarget /\ chain # target /\ Applies(b) /\ ApplyAndStore(b, b)
          /\ pc' = "apply"
      BY <1>5 DEF ApplyFork, Goto
    <2>2. b \in Blocks /\ b \in Heads
      BY <2>1, OnTargetLeads, NextOnBranch DEF NextOf, Heads
    <2> HIDE DEF b
    <2> QED BY <2>1, <2>2 DEF AppliesBlock
  <1>6. ASSUME ApplyForkFails PROVE FailsBlock
    <2> DEFINE b == NextOf(target)
    <2>1. OnTarget /\ chain # target /\ ApplyFails(b)
      BY <1>6 DEF ApplyForkFails
    <2>2. b \in Blocks
      BY <2>1, OnTargetLeads, NextOnBranch DEF NextOf
    <2> HIDE DEF b
    <2> QED BY <2>1, <2>2 DEF FailsBlock
  <1>7. ASSUME RestoreFork PROVE AppliesBlock
    <2> DEFINE b == NextOf(before)
    <2>1. /\ pc = "restore" \/ (pc = "repop" /\ chain = ForkPoint)
          /\ chain # before /\ Applies(b) /\ ApplyAndStore(b, new)
          /\ pc' \in {"throw", "restore"}
      BY <1>7 DEF RestoreFork, Goto
    <2>2. b \in Blocks
      BY <2>1, OnRestoreLeads, NextOnBranch DEF NextOf
    <2>3. new \in Heads
      BY <1>core DEF CallOK
    <2> HIDE DEF b
    <2> QED BY <2>1, <2>2, <2>3 DEF AppliesBlock
  <1>8. ASSUME PopBlock PROVE Pops
    BY <1>8 DEF PopBlock, CanPopBlock, ForkPop, Pops
  <1>9. ASSUME PopThrows PROVE Keeps
    <2>1. UNCHANGED <<chain, undo, undoMax, final>> /\ pc' = "throw"
      BY <1>9 DEF PopThrows, stateVars, Goto
    <2>2. max_size' = max_size /\ index' = index
      BY <1>9 DEF PopThrows, ForkPop, forkVars
    <2>3. head' = head \/ (CanPop /\ head' = Prev(head))
      BY <1>9 DEF PopThrows, ForkPop, forkVars
    <2>4. ASSUME CanPop, head' = Prev(head), Len(head') > Len(chain)
          PROVE  head # None /\ Len(head) > Len(chain)
      <3>1. head # None /\ head \in Blocks /\ head \in Heads
        BY <1>core, <2>4 DEF CanPop, ForkOK, Heads
      <3>2. Len(head) \in Nat \ {0} /\ Len(chain) \in Nat
        BY <1>core, <3>1, PrevIsBlock, HeadsAreSeqs DEF StateOK
      <3>3. Len(Prev(head)) = Len(head) - 1
        BY <3>1, <3>2, PrefixAndPrev, EmptySeq
      <3> QED BY <2>4, <3>1, <3>2, <3>3
    <2> QED BY <2>1, <2>2, <2>3, <2>4 DEF Keeps
  <1>10. ASSUME StayOnFork \/ StartSwitch PROVE Keeps
    <2>1. UNCHANGED <<chain, undo, undoMax, final>>
          /\ pc' \notin {"cleanup", "sethead", "repop"}
      BY <1>10 DEF StayOnFork, StartSwitch, stateVars, Return
    <2>2. UNCHANGED <<index, head, max_size>>
      BY <1>10 DEF StayOnFork, StartSwitch, Hold, forkVars
    <2> QED BY <2>1, <2>2 DEF Keeps
  <1>11. ASSUME RemoveNew \/ Throw \/ FinishSwitch PROVE Keeps
    <2>1. UNCHANGED <<chain, undo, undoMax, final>> /\ pc' = "idle"
      BY <1>11 DEF RemoveNew, Throw, FinishSwitch, stateVars, Return
    <2>2. max_size' = max_size /\ head' = head /\ index' \subseteq index
      BY <1>core, <1>11, ForkRemoveOK, ReleaseOK DEF RemoveNew, Throw, FinishSwitch
    <2> QED BY <2>1, <2>2 DEF Keeps
  <1>12. ASSUME RemoveRest \/ SetHead PROVE Keeps
    <2>1. UNCHANGED <<chain, undo, undoMax, final>> /\ pc \in {"cleanup", "sethead"}
      BY <1>12 DEF RemoveRest, SetHead, stateVars
    <2>2. max_size' = max_size
      BY <1>12 DEF RemoveRest, SetHead, ForkRemove, ForkSetHead
    <2>3. pc = "sethead" \/ (head' = head /\ index' \subseteq index)
      BY <1>core, <1>12, ForkRemoveOK DEF RemoveRest, SetHead
    <2> QED BY <2>1, <2>2, <2>3 DEF Keeps
  <1>13. CASE UNCHANGED vars
    BY <1>13 DEF vars, forkVars, stateVars, pushVars, Keeps
  <1> QED
    BY <1>1, <1>2, <1>3, <1>4, <1>5, <1>6, <1>7, <1>8, <1>9, <1>10, <1>11, <1>12,
       <1>13 DEF Next, PushStep

(* While the way back from a failed switch is prepared, the stronger bound *)
(* holds: the failed block's session has forgotten the oldest state.       *)
BackOK == pc \in {"cleanup", "sethead", "repop"} => UndoGuards

SizesInv == SizesOK /\ BackOK

LEMMA SizesInit == Init => SizesInv
  <1> SUFFICES ASSUME Init PROVE SizesInv
    OBVIOUS
  <1>1. /\ chain = <<>> /\ undo = <<>> /\ undoMax = 10 /\ final = 0 /\ pc = "idle"
    BY DEF Init, InitialUndoMax
  <1>2. <<>> \in Heads /\ Len(<<>>) = 0
    BY EmptySeq DEF Heads
  <1>3. /\ Prev(<<>>) \in Heads /\ Len(Prev(<<>>)) = 0
    BY <1>2, PrefixAndPrev
  <1>4. Prev(<<>>) = <<>>
    BY <1>3, HeadsAreSeqs
  <1>5. LIB[<<>>] \in 0..0
    BY <1>2, LIBOfAncestor
  <1>6. LIB[<<>>] = 0
    BY <1>5
  <1>7. Bottom = 0
    BY <1>1, <1>2 DEF Bottom
  <1>8. MaxDepth \in Nat /\ MaxDepth >= 2
    BY ChainAssumption
  <1>9. UndoReachesReversible
    BY <1>1, <1>2, <1>8 DEF UndoReachesReversible
  <1>10. undoMax >= Len(chain) - final + 1
    BY <1>1, <1>2
  <1>11. UndoGuards /\ Bottom >= LIB[Prev(Prev(chain))] - 1 /\ LIB[chain] <= final
    BY <1>1, <1>4, <1>6, <1>7 DEF UndoGuards
  <1> QED BY <1>1, <1>9, <1>10, <1>11 DEF SizesInv, SizesOK, BackOK

LEMMA SizesStep ==
    ASSUME CoreInv, SizesInv, [Next]_vars
    PROVE  SizesInv' /\ Bottom' >= Bottom
  <1>core. ForkOK /\ StateOK /\ SizesOK /\ BackOK
    BY DEF CoreInv, SizesInv
  <1>int. Bottom \in Int
    BY <1>core, HeadsAreSeqs, LenProperties DEF Bottom, StateOK
  <1>1. CASE Forgets
    BY <1>core, <1>1, SizesForget DEF Forgets, forkVars, SizesInv, BackOK
  <1>2. CASE AppliesBlock
    <2>1. SizesOK' /\ Bottom' >= Bottom
      BY <1>core, <1>2, SizesApply DEF AppliesBlock
    <2>2. BackOK'
      BY <1>2 DEF AppliesBlock, BackOK
    <2> QED BY <2>1, <2>2 DEF SizesInv
  <1>3. CASE FailsBlock
    BY <1>core, <1>3, SizesFail DEF FailsBlock, SizesInv, BackOK
  <1>4. CASE Pops
    BY <1>core, <1>int, <1>4, SizesPop DEF Pops, SizesInv, BackOK
  <1>5. CASE Keeps
    <2>1. Bottom' = Bottom /\ (UndoGuards => UndoGuards')
      BY <1>5 DEF Keeps, UndoGuards, Bottom
    <2>2. SizesOK'
      BY <1>core, <1>5, <2>1 DEF Keeps, SizesOK, UndoReachesReversible, UndoGuards
    <2>3. BackOK'
      BY <1>core, <1>5, <2>1 DEF Keeps, BackOK
    <2> QED BY <1>int, <2>1, <2>2, <2>3 DEF SizesInv
  <1> QED BY <1>1, <1>2, <1>3, <1>4, <1>5, StepEffect

(* The undo history is never shorter than what may still be reversed, but  *)
(* for the states the deepest session forgets: at every step the blocks    *)
(* below it have been irreversible, up to MaxDepth - 2 of them.            *)
THEOREM ReachesReversible == Spec => []UndoReachesReversible
  <1>1. SizesInv => UndoReachesReversible
    BY DEF SizesInv, SizesOK
  <1>2. CoreInv /\ SizesInv /\ [Next]_vars => SizesInv'
    BY SizesStep
  <1> QED BY CoreInit, CoreStep, SizesInit, <1>1, <1>2, PTL DEF Spec

-----------------------------------------------------------------------------
(* What a switch can reach. *)

(* Where the undo history reaches too far down, the fork database does     *)
(* not: no item of it is low enough for a switch to go there.              *)
ForkGuards ==
    UndoGuards \/ (head # None /\ Len(head) > Len(chain) =>
                       \A b \in index : Len(b) >= LIB[Prev(chain)])

(* A switch goes no lower than the undo history or the fork point allows. *)
Kept == LIB[Prev(before)] - 1
SwitchKeeps ==
    OnOldBranch \/ OnNewBranch =>
        Kept <= Low - 1 \/ (pc = "pop" /\ Kept <= Bottom)

KeptInv == ForkGuards /\ SwitchKeeps /\ IrreversibleKept

(* set_max_size drops what is too far behind the head. *)
LEMMA GuardsApply ==
    ASSUME ForkOK, StateOK, NEW b \in Blocks, NEW id \in Heads,
           Applies(b), ApplyAndStore(b, id)
    PROVE  ForkGuards'
  <1> SUFFICES ASSUME head' # None, Len(head') > Len(chain'), NEW c \in index'
               PROVE  Len(c) >= LIB[Prev(chain')]
    BY DEF ForkGuards
  <1>1. head' = head /\ index' \subseteq index /\ chain' = b
    BY ApplyOK
  <1>2. Len(c) >= MaxOf(0, Len(head) - NewSize(b))
    BY <1>1 DEF ApplyAndStore, ForkSetMaxSize, Erase
  <1>3. c \in Blocks /\ head \in Blocks
    BY <1>1 DEF ForkOK
  <1>4. /\ Len(c) \in Nat /\ Len(head) \in Nat /\ Len(b) \in Nat
        /\ LIB[Prev(b)] \in Nat /\ NewSize(b) \in Nat
    BY <1>3, PrevIsBlock, NewSizeType
  <1>5. Len(c) >= Len(head) - NewSize(b)
    BY <1>2, <1>4 DEF MaxOf
  <1> QED BY <1>1, <1>4, <1>5 DEF NewSize

(* _push_block refuses what is too far behind the head, and drops it. *)
LEMMA GuardsPush ==
    ASSUME ForkOK, StateOK, CallOK, SizesOK, ForkGuards,
           NEW b \in Blocks, CanPush(b), ForkPush(b), UNCHANGED <<chain, undo>>
    PROVE  ForkGuards'
  <1>1. CASE UndoGuards
    BY <1>1 DEF ForkGuards, UndoGuards, Bottom
  <1>2. CASE ~UndoGuards
    <2> DEFINE L == LIB[Prev(chain)]
    <2> SUFFICES ASSUME Len(head') > Len(chain), NEW c \in index'
                 PROVE  Len(c) >= L
      BY DEF ForkGuards
    <2>1. /\ Len(chain) \in Nat /\ Len(undo) \in Nat /\ L \in Nat
          /\ undoMax \in Nat /\ Len(b) \in Nat \ {0}
      BY HeadsAreSeqs, LenProperties, LIBsOfChain, PrevIsBlock DEF StateOK
    <2>2. chain # <<>>
      <3> SUFFICES ASSUME chain = <<>> PROVE FALSE
        OBVIOUS
      <3>1. Prev(chain) \in Heads /\ Len(Prev(chain)) = 0
        BY PrefixAndPrev DEF StateOK
      <3>2. L \in 0..0
        BY <3>1, LIBOfAncestor
      <3>3. Len(chain) = 0 /\ Len(undo) <= Len(chain)
        BY EmptySeq DEF StateOK, HistoryOf
      <3>4. Bottom >= L - 1
        BY <2>1, <3>2, <3>3 DEF Bottom
      <3> QED BY <1>2, <3>4 DEF UndoGuards
    <2>3. max_size = undoMax /\ undoMax <= Len(chain) - L + 1 /\ head # None
      BY <1>2, <2>2 DEF SizesOK, CallOK
    <2>4. head \in Blocks /\ Len(head) \in Nat
      BY <2>3, PrevIsBlock DEF ForkOK
    <2>5. c \in Blocks /\ Len(c) \in Nat
      BY ForkPushOK, PrevIsBlock DEF ForkOK
    <2> HIDE DEF L
    <2>6. CASE Len(b) > Len(head)
      <3>1. head' = b /\ Len(c) >= MaxOf(0, Len(b) - max_size)
        BY <2>3, <2>6 DEF ForkPush
      <3>2. Len(c) >= Len(b) - undoMax
        BY <2>1, <2>3, <2>5, <3>1 DEF MaxOf
      <3>3. Len(b) > Len(chain)
        BY <3>1
      <3> QED BY <2>1, <2>3, <2>5, <3>2, <3>3
    <2>7. CASE ~(Len(b) > Len(head))
      <3>1. head' = head
        BY <2>3, <2>7 DEF ForkPush
      <3>2. \A d \in index : Len(d) >= L
        BY <1>2, <2>3, <3>1 DEF ForkGuards, L
      <3>3. CASE c # b
        BY <3>2, <3>3, ForkPushOK
      <3>4. CASE c = b /\ Len(b) > 1
        <4>1. Prev(b) \in index
          BY <2>3, <3>4 DEF CanPush, Unlinkable
        <4>2. Len(Prev(b)) = Len(b) - 1
          <5>1. b \in Heads /\ b # <<>>
            BY <2>1, EmptySeq DEF Heads
          <5> QED BY <5>1, PrefixAndPrev
        <4> QED BY <2>1, <3>2, <3>4, <4>1, <4>2
      <3>5. CASE c = b /\ Len(b) = 1
        <4>1. ~(1 <= MaxOf(0, Len(head) - max_size))
          BY <2>3, <3>5 DEF CanPush, TooOld
        <4>2. Len(head) <= undoMax
          BY <2>1, <2>3, <2>4, <4>1 DEF MaxOf
        <4> QED BY <2>1, <2>3, <2>4, <3>1, <3>5, <4>2
      <3>6. Len(b) > 1 \/ Len(b) = 1
        <4>1. \A k \in Nat \ {0} : k > 1 \/ k = 1
          OBVIOUS
        <4>2. Len(b) \in Nat \ {0}
          BY <2>1
        <4> QED BY <4>1, <4>2
      <3> QED BY <3>3, <3>4, <3>5, <3>6
    <2> QED BY <2>6, <2>7
  <1> QED BY <1>1, <1>2

(* Nothing else raises the head of the fork database or adds items. *)
LEMMA GuardsKeep ==
    ASSUME ForkGuards, UNCHANGED <<chain, undo>>, index' \subseteq index,
           head' # None /\ Len(head') > Len(chain) =>
               head # None /\ Len(head) > Len(chain)
    PROVE  ForkGuards'
  BY DEF ForkGuards, UndoGuards, Bottom

LEMMA GuardsStep ==
    ASSUME CoreInv, SizesInv, ForkGuards, [Next]_vars
    PROVE  ForkGuards'
  <1>core. ForkOK /\ StateOK /\ CallOK /\ SwitchOK /\ SizesOK /\ BackOK
    BY DEF CoreInv, SizesInv
  <1>1. CASE Forgets
    BY <1>core, <1>1, SizesForget DEF Forgets, forkVars, ForkGuards
  <1>2. CASE AppliesBlock
    BY <1>core, <1>2, GuardsApply DEF AppliesBlock
  <1>3. CASE FailsBlock
    BY <1>core, <1>3, SizesFail DEF FailsBlock, ForkGuards
  <1>4. CASE Pops
    BY <1>core, <1>4, SizesPop DEF Pops, ForkGuards
  <1>5. CASE Keeps
    <2>1. UNCHANGED <<chain, undo>>
      BY <1>5 DEF Keeps
    <2>2. CASE pc = "sethead"
      BY <1>core, <2>1, <2>2 DEF BackOK, ForkGuards, UndoGuards, Bottom
    <2> QED BY <1>core, <1>5, <2>1, <2>2, GuardsPush, GuardsKeep DEF Keeps
  <1> QED BY <1>1, <1>2, <1>3, <1>4, <1>5, StepEffect

(* A chain on either branch, not below the fork point, or on the old       *)
(* branch and not below the undo history, has kept those blocks.           *)
LEMMA OnBranchKeeps ==
    ASSUME StateOK, SwitchOK, SwitchKeeps, OnOldBranch \/ OnNewBranch
    PROVE  IrreversibleKept
  <1> SUFFICES ASSUME Kept > 0
               PROVE  Len(chain) >= Kept /\ Prefix(chain, Kept) = Prefix(before, Kept)
    BY DEF IrreversibleKept, Kept
  <1>1. /\ target \in Blocks /\ before \in Blocks /\ Low - 1 <= Len(chain)
        /\ target \in Heads /\ before \in Heads
    BY DEF SwitchOK, Heads
  <1>2. /\ Low \in 1..Len(target) /\ Low \in 1..Len(before)
        /\ LeadsTo(ForkPoint, target) /\ LeadsTo(ForkPoint, before)
        /\ Len(ForkPoint) = Low - 1
    BY <1>1, ForkPointOnBoth
  <1>3. /\ Len(chain) \in Nat /\ Len(target) \in Nat /\ Len(before) \in Nat
        /\ Len(undo) \in Nat /\ Kept \in Int
    BY <1>1, HeadsAreSeqs, LenProperties, LIBsOfChain DEF StateOK, Kept
  <1>4. Len(chain) >= Kept
    <2>1. CASE Kept <= Low - 1
      BY <1>1, <1>2, <1>3, <2>1
    <2>2. CASE Kept <= Bottom
      BY <1>3, <2>2 DEF Bottom
    <2> QED BY <2>1, <2>2 DEF SwitchKeeps
  <1>5. Kept \in 0..Len(chain)
    BY <1>3, <1>4
  <1> HIDE DEF Kept, Low, ForkPoint
  <1>6. CASE LeadsTo(chain, before)
    <2>1. Len(chain) \in 0..Len(before) /\ chain = Prefix(before, Len(chain))
      BY <1>3, <1>6 DEF LeadsTo
    <2>2. Prefix(Prefix(before, Len(chain)), Kept) = Prefix(before, Kept)
      BY <1>1, <1>5, <2>1, PrefixOfPrefix
    <2> QED BY <1>4, <2>1, <2>2
  <1>7. CASE LeadsTo(chain, target) /\ Kept <= Low - 1
    <2>1. Len(chain) \in 0..Len(target) /\ chain = Prefix(target, Len(chain))
      BY <1>3, <1>7 DEF LeadsTo
    <2>2. Prefix(Prefix(target, Len(chain)), Kept) = Prefix(target, Kept)
      BY <1>1, <1>5, <2>1, PrefixOfPrefix
    <2>3. /\ Low - 1 \in 0..Len(target) /\ Low - 1 \in 0..Len(before)
          /\ Kept \in 0..(Low - 1)
      BY <1>2, <1>3, <1>5, <1>7
    <2>4. Prefix(target, Low - 1) = Prefix(before, Low - 1)
      BY <1>2 DEF LeadsTo
    <2>5. /\ Prefix(Prefix(target, Low - 1), Kept) = Prefix(target, Kept)
          /\ Prefix(Prefix(before, Low - 1), Kept) = Prefix(before, Kept)
      BY <1>1, <2>3, PrefixOfPrefix
    <2> QED BY <1>4, <2>1, <2>2, <2>4, <2>5
  <1> QED BY <1>6, <1>7 DEF SwitchOK, SwitchKeeps, OnOldBranch, OnNewBranch

(* A chain is long enough to keep what was irreversible before its head. *)
LEMMA OwnBlocksKept ==
    \A c \in Heads : Len(c) >= LIB[Prev(c)] - 1
  <1> SUFFICES ASSUME NEW c \in Heads PROVE Len(c) >= LIB[Prev(c)] - 1
    OBVIOUS
  <1>1. LIB[Prev(c)] \in Nat /\ LIB[Prev(c)] <= LIB[c] /\ LIB[c] \in Nat
    BY LIBsOfChain
  <1>2. LIB[c] <= Len(c) /\ Len(c) \in Nat
    BY LIBOfAncestor, HeadsAreSeqs
  <1> QED BY <1>1, <1>2

(* A chain that only grows from where the call found it keeps its blocks. *)
LEMMA GrownKeeps ==
    ASSUME chain \in Heads, chain' \in Heads, before = chain, before' = before,
           LeadsTo(chain, chain')
    PROVE  IrreversibleKept'
  <1>1. /\ LIB[Prev(chain)] \in Nat /\ LIB[Prev(chain)] <= LIB[chain]
        /\ LIB[chain] \in Nat /\ LIB[chain] <= Len(chain)
        /\ Len(chain) \in Nat /\ Len(chain') \in Nat /\ Len(chain) <= Len(chain')
    BY LIBsOfChain, LIBOfAncestor, HeadsAreSeqs DEF LeadsTo
  <1> DEFINE k == LIB[Prev(before)] - 1
  <1>2. ASSUME k > 0 PROVE Len(chain') >= k /\ Prefix(chain', k) = Prefix(before, k)
    <2>1. k \in 0..Len(chain) /\ Len(chain) \in 0..Len(chain')
      BY <1>1, <1>2
    <2> HIDE DEF k
    <2>2. Prefix(Prefix(chain', Len(chain)), k) = Prefix(chain', k)
      BY <2>1, PrefixOfPrefix
    <2> QED BY <1>1, <2>1, <2>2 DEF LeadsTo
  <1> QED BY <1>2 DEF IrreversibleKept

(* fetch_branch_from walks over items of the fork database only. *)
LEMMA StartKeeps ==
    ASSUME CoreInv, SizesInv, ForkGuards, StartSwitch, pc' = "pop"
    PROVE  SwitchKeeps'
  <1>core. ForkOK /\ StateOK /\ CallOK /\ SizesOK
    BY DEF CoreInv, SizesInv
  <1>1. /\ pc = "forked" /\ before = chain /\ head \in Blocks /\ head # None
        /\ Len(head) > Len(chain) /\ CanFetchBranches(head, chain)
        /\ target' = head /\ before' = before /\ UNCHANGED <<chain, undo>>
        /\ \A b \in linked : Prev(b) \in index
    BY <1>core DEF StartSwitch, Return, CallOK, ForkOK, stateVars
  <1> DEFINE low == Lowest(head, chain)
  <1>2. Low' = low /\ Kept' = LIB[Prev(chain)] - 1 /\ Bottom' = Bottom
    BY <1>1 DEF Low, Kept, Bottom
  <1>3. CASE UndoGuards
    <2>1. Kept' <= Bottom'
      <3>1. Bottom \in Int /\ LIB[Prev(chain)] \in Nat
        BY <1>core, HeadsAreSeqs, LenProperties, LIBsOfChain DEF Bottom, StateOK
      <3> QED BY <1>2, <1>3, <3>1 DEF UndoGuards
    <2> QED BY <2>1 DEF SwitchKeeps
  <1>4. CASE ~UndoGuards
    <2>1. chain \in Blocks /\ head \in Heads /\ chain \in Heads
      BY <1>core, <1>1 DEF CanFetchBranches, ForkOK, Heads
    <2>2. /\ low \in 1..Len(head) /\ low \in 1..Len(chain)
          /\ Len(head) \in Nat /\ Len(chain) \in Nat
      BY <1>1, <2>1, LowestIsCommon, HeadsAreSeqs
    <2>3. \A n \in (low + 1)..Len(head) : Prefix(head, n) \in linked
      BY <1>1 DEF CanFetchBranches
    <2> HIDE DEF low
    <2>4. low + 1 \in (low + 1)..Len(head) /\ low + 1 \in 0..Len(head)
      BY <1>1, <2>2
    <2>5. Prev(Prefix(head, low + 1)) \in index
      BY <1>1, <2>3, <2>4
    <2>6. Len(Prev(Prefix(head, low + 1))) = low
      <3>1. Prefix(head, low + 1) \in Heads /\ Len(Prefix(head, low + 1)) = low + 1
        BY <2>1, <2>4, PrefixIsHead
      <3>2. Prefix(head, low + 1) # <<>>
        BY <2>2, <3>1, EmptySeq
      <3> QED BY <2>2, <3>1, <3>2, PrefixAndPrev
    <2>7. low >= LIB[Prev(chain)]
      BY <1>1, <1>4, <2>5, <2>6 DEF ForkGuards
    <2>8. LIB[Prev(chain)] \in Nat
      BY <2>1, LIBsOfChain
    <2> QED BY <1>2, <2>2, <2>7, <2>8 DEF SwitchKeeps
  <1> QED BY <1>3, <1>4

LEMMA KeptStep ==
    ASSUME CoreInv, CoreInv', SizesInv, KeptInv, [Next]_vars
    PROVE  KeptInv'
  <1>core. /\ ForkOK /\ StateOK /\ CallOK /\ SwitchOK /\ SizesOK
           /\ StateOK' /\ CallOK' /\ SwitchOK'
           /\ ForkGuards /\ SwitchKeeps /\ IrreversibleKept
    BY DEF CoreInv, SizesInv, KeptInv
  <1>guards. ForkGuards' /\ Bottom' >= Bottom
    BY <1>core, GuardsStep, SizesStep
  <1>switching. ASSUME SwitchKeeps', OnOldBranch' \/ OnNewBranch' PROVE KeptInv'
    BY <1>core, <1>guards, <1>switching, OnBranchKeeps, PTL DEF KeptInv
  <1>calm. ASSUME ~(OnOldBranch' \/ OnNewBranch'), IrreversibleKept' PROVE KeptInv'
    BY <1>guards, <1>calm DEF KeptInv, SwitchKeeps
  <1>same. ASSUME UNCHANGED <<chain, before>> PROVE IrreversibleKept'
    BY <1>core, <1>same DEF IrreversibleKept
  <1>1. ASSUME NEW depth \in 2..MaxDepth, PushTransaction(depth) PROVE KeptInv'
    BY <1>1, <1>calm, <1>same DEF PushTransaction, pushVars, OnOldBranch, OnNewBranch
  <1>2. ASSUME NEW b \in Blocks, Deliver(b) PROVE KeptInv'
    <2>1. before' = chain /\ chain' = chain /\ pc' \in {"idle", "forked"}
      BY <1>2 DEF Deliver, PushBlock, stateVars
    <2>2. IrreversibleKept'
      <3>1. Len(chain) >= LIB[Prev(chain)] - 1
        BY <1>core, OwnBlocksKept DEF StateOK
      <3> QED BY <2>1, <3>1 DEF IrreversibleKept
    <2> QED BY <1>calm, <2>1, <2>2 DEF OnOldBranch, OnNewBranch
  <1>3. ASSUME Extend PROVE KeptInv'
    <2>1. /\ before = chain /\ before' = before /\ pc' = "idle" /\ new \in Blocks
          /\ new \in Heads /\ Applies(new) /\ ApplyAndStore(new, new)
      BY <1>core, <1>3 DEF Extend, CallOK, Return
    <2>2. chain' = new /\ Len(chain') = Len(chain) + 1 /\ Prev(new) = chain
      BY <1>core, <2>1, ApplyOK
    <2>3. LeadsTo(chain, chain')
      <3>1. Len(chain) \in Nat /\ new # <<>>
        BY <1>core, <2>2, HeadsAreSeqs, EmptySeq DEF StateOK
      <3>2. Prev(new) = Prefix(new, Len(new) - 1)
        BY <2>1, <3>1, PrefixAndPrev
      <3> QED BY <2>2, <3>1, <3>2 DEF LeadsTo
    <2>4. IrreversibleKept'
      BY <1>core, <2>1, <2>3, GrownKeeps DEF StateOK
    <2> QED BY <1>calm, <2>1, <2>4 DEF OnOldBranch, OnNewBranch
  <1>4. ASSUME ExtendFails \/ RemoveNew \/ StayOnFork \/ Throw \/ FinishSwitch \/ PopThrows
        PROVE  KeptInv'
    <2>1. UNCHANGED <<chain, before>>
      BY <1>4 DEF ExtendFails, RemoveNew, StayOnFork, Throw, FinishSwitch, PopThrows,
                  ApplyFails, stateVars, Return, Goto
    <2>2. pc' \in {"idle", "remove", "throw"}
      BY <1>4 DEF ExtendFails, RemoveNew, StayOnFork, Throw, FinishSwitch, PopThrows,
                  Return, Goto
    <2> QED BY <1>calm, <1>same, <2>1, <2>2 DEF OnOldBranch, OnNewBranch
  <1>5. ASSUME StartSwitch PROVE KeptInv'
    <2>1. CASE pc' = "pop"
      <3>1. SwitchKeeps'
        BY <1>core, <1>5, <2>1, StartKeeps
      <3> QED BY <1>switching, <2>1, <3>1 DEF OnOldBranch, OnNewBranch
    <2>2. CASE pc' = "idle" /\ UNCHANGED <<chain, before>>
      BY <1>calm, <1>same, <2>2 DEF OnOldBranch, OnNewBranch
    <2> QED BY <1>5, <2>1, <2>2 DEF StartSwitch, Return, stateVars
  <1>6. ASSUME PopBlock PROVE KeptInv'
    <2>1. /\ pc \in {"pop", "repop"} /\ UNCHANGED <<pc, target, before>>
          /\ undo # <<>> /\ PopState /\ max_size' = max_size
      BY <1>6 DEF PopBlock, CanPopBlock, ForkPop, pushVars
    <2>2. Bottom' = Bottom
      BY <1>core, <2>1, SizesPop
    <2>3. Kept' = Kept /\ Low' = Low
      BY <2>1 DEF Kept, Low
    <2>4. SwitchKeeps'
      BY <1>core, <2>1, <2>2, <2>3 DEF SwitchKeeps, OnOldBranch, OnNewBranch
    <2> QED BY <1>switching, <2>1, <2>4 DEF OnOldBranch, OnNewBranch
  <1>7. ASSUME ApplyFork \/ ApplyForkFails PROVE KeptInv'
    <2>1. /\ OnTarget /\ pc' \in {"apply", "cleanup"} /\ UNCHANGED <<target, before>>
      BY <1>7 DEF ApplyFork, ApplyForkFails, Goto
    <2>2. Kept' = Kept /\ Low' = Low
      BY <2>1 DEF Kept, Low
    <2>3. Kept <= Low - 1
      <3>1. CASE pc = "apply"
        BY <1>core, <3>1 DEF SwitchKeeps, OnOldBranch, OnNewBranch
      <3>2. CASE pc = "pop" /\ chain = ForkPoint
        <4>1. target \in Blocks /\ before \in Blocks /\ before \in Heads
          BY <1>core, <3>2 DEF SwitchOK, OnOldBranch, Heads
        <4>2. Len(chain) = Low - 1 /\ Low \in Int
          BY <3>2, <4>1, ForkPointOnBoth
        <4>3. Len(chain) \in Nat /\ Len(undo) \in Nat /\ Kept \in Int
          BY <1>core, <4>1, HeadsAreSeqs, LenProperties, LIBsOfChain DEF StateOK, Kept
        <4>4. Kept <= Low - 1 \/ Kept <= Bottom
          BY <1>core, <3>2 DEF SwitchKeeps, OnOldBranch, OnNewBranch
        <4> QED BY <4>2, <4>3, <4>4 DEF Bottom
      <3> QED BY <2>1, <3>1, <3>2 DEF OnTarget
    <2>4. SwitchKeeps'
      BY <2>2, <2>3 DEF SwitchKeeps
    <2> QED BY <1>switching, <2>1, <2>4 DEF OnOldBranch, OnNewBranch
  <1>8. ASSUME RemoveRest \/ SetHead PROVE KeptInv'
    <2>1. /\ pc \in {"cleanup", "sethead"} /\ UNCHANGED <<target, before, chain, undo>>
          /\ pc' \in {"sethead", "repop"}
      BY <1>8 DEF RemoveRest, SetHead, Goto, stateVars
    <2>2. Kept' = Kept /\ Low' = Low
      BY <2>1 DEF Kept, Low
    <2>3. SwitchKeeps'
      BY <1>core, <2>1, <2>2 DEF SwitchKeeps, OnOldBranch, OnNewBranch
    <2> QED BY <1>switching, <2>1, <2>3 DEF OnOldBranch, OnNewBranch
  <1>9. ASSUME RestoreFork PROVE KeptInv'
    <2>1. /\ pc \in {"repop", "restore"} /\ UNCHANGED <<target, before>>
          /\ pc' \in {"throw", "restore"} /\ chain' = NextOf(before)
          /\ pc' = "throw" => NextOf(before) = before
      BY <1>9 DEF RestoreFork, Goto, ApplyAndStore
    <2>2. Kept' = Kept /\ Low' = Low
      BY <2>1 DEF Kept, Low
    <2>3. SwitchKeeps'
      BY <1>core, <2>1, <2>2 DEF SwitchKeeps, OnOldBranch, OnNewBranch
    <2>4. CASE pc' = "restore"
      BY <1>switching, <2>3, <2>4 DEF OnOldBranch, OnNewBranch
    <2>5. CASE pc' = "throw"
      <3>1. chain' \in Heads /\ chain' = before'
        BY <1>core, <2>1, <2>5 DEF StateOK
      <3>2. IrreversibleKept'
        BY <3>1, OwnBlocksKept DEF IrreversibleKept
      <3> QED BY <1>calm, <2>5, <3>2 DEF OnOldBranch, OnNewBranch
    <2> QED BY <2>1, <2>4, <2>5
  <1>10. CASE UNCHANGED vars
    <2>1. UNCHANGED <<pc, target, before, chain, undo>>
      BY <1>10 DEF vars, pushVars, stateVars
    <2>2. SwitchKeeps'
      BY <1>core, <2>1 DEF SwitchKeeps, OnOldBranch, OnNewBranch, Kept, Low, Bottom
    <2>3. IrreversibleKept'
      BY <1>same, <2>1
    <2> QED BY <1>guards, <2>2, <2>3 DEF KeptInv
  <1> QED BY <1>1, <1>2, <1>3, <1>4, <1>5, <1>6, <1>7, <1>8, <1>9, <1>10
          DEF Next, PushStep

(* Whatever a call of push_block does, and wherever it fails, the chain    *)
(* keeps the blocks below the one that was irreversible before its head    *)
(* block was applied: the undo history or, where that reaches lower, the   *)
(* fork database stops the switch.                                         *)
THEOREM IrreversibleStays == Spec => []IrreversibleKept
  <1>1. Init => KeptInv
    <2> SUFFICES ASSUME Init PROVE KeptInv
      OBVIOUS
    <2>1. pc = "idle" /\ head = None /\ before = <<>>
      BY DEF Init, ForkInit
    <2> QED BY <2>1 DEF KeptInv, ForkGuards, SwitchKeeps, IrreversibleKept,
                       OnOldBranch, OnNewBranch
  <1>2. CoreInv /\ CoreInv' /\ SizesInv /\ KeptInv /\ [Next]_vars => KeptInv'
    BY KeptStep
  <1>3. CoreInv /\ SizesInv /\ [Next]_vars => SizesInv'
    BY SizesStep
  <1>4. KeptInv => IrreversibleKept
    BY DEF KeptInv
  <1> QED BY CoreInit, CoreStep, SizesInit, <1>1, <1>2, <1>3, <1>4, PTL DEF Spec
=============================================================================
