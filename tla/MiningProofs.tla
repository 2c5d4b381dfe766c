----------------------------- MODULE MiningProofs ----------------------------
(***************************************************************************)
(* What an account may not spend is what it has pledged and what is still  *)
(* being released, for any number of accounts, witness objects, pledges    *)
(* and blocks.                                                             *)
(*                                                                         *)
(* MiningLocked is not inductive.  That a change of a pledge adds to the   *)
(* last entry needs that no entry is later than the delay from now; that a *)
(* pledge object made anew locks its whole amount needs that nothing is    *)
(* locked without one; and that a bonus is a number needs the types of all *)
(* that the pay of the witnesses goes through, down to the signer's        *)
(* object, which must exist.                                               *)
(***************************************************************************)
EXTENDS PledgeMining, PledgeProofs

-----------------------------------------------------------------------------
(* The states. *)

Entries(R) == UNION {[D -> R] : D \in SUBSET Nat}

Balances == [pledge : Nat, total : Nat, releasing : Entries(Nat \ {0})]
PledgeObjects == [on : BOOLEAN, last : Nat, balance : Balances]
Statistics == [core : Int, locked : Int, bonus : Int]
WitnessObjects ==
    [valid : BOOLEAN, can : BOOLEAN, total : Nat, perPledge : Entries(Int),
     unhandled : Int, need : Int, already : Int, last : Nat]
MineStates ==
    [head : Nat, signer : Nat, seq : Nat, wit : Entries(WitnessObjects),
     obj : [Miners -> PledgeObjects], stats : [Miners -> Statistics], pay : Int, paid : Int]

(* One account, with entries from block low on. *)
LockedOK(o, st, low, head) ==
    /\ PledgeOK(o.balance)
    /\ \A b \in DOMAIN o.balance.releasing : low <= b /\ b <= head + MiningDelay
    /\ st.locked = TotalUnreleased(o.balance)
    /\ st.locked <= st.core
    /\ ~o.on => TotalUnreleased(o.balance) = 0

WitnessesOK(s) ==
    /\ DOMAIN s.wit \subseteq 1..s.seq
    /\ \A q \in DOMAIN s.wit : IsFiniteSet(DOMAIN s.wit[q].perPledge)
    /\ s.signer # 0 => s.signer \in Current(s)
    /\ Current(s) \subseteq {s.seq}

MineOK(s, low) ==
    /\ s \in MineStates
    /\ WitnessesOK(s)
    /\ \A a \in Miners : LockedOK(s.obj[a], s.stats[a], low, s.head)

-----------------------------------------------------------------------------
(* Folds.  D is what is folded over, Z has the values on the way, f[x] is  *)
(* what x does to a value and c[u] is the last one of the set u.           *)

Picks(c, D) == \A u \in SUBSET D : u # {} => c[u] \in u
NextValue(b, f, c, g, u) == IF u = {} THEN b ELSE f[c[u]][g[u \ {c[u]}]]

FoldedTo(D, Z, b, f, c, n) ==
    \E g \in [SUBSET D -> Z] :
        \A u \in SUBSET D : Cardinality(u) <= n => g[u] = NextValue(b, f, c, g, u)

LEMMA FoldUpTo ==
    ASSUME NEW D, IsFiniteSet(D), NEW Z, NEW b \in Z, NEW f \in [D -> [Z -> Z]], NEW c, Picks(c, D)
    PROVE  \A n \in Nat : FoldedTo(D, Z, b, f, c, n)
  <1> DEFINE Good(n, g) == \A u \in SUBSET D : Cardinality(u) <= n => g[u] = NextValue(b, f, c, g, u)
             T == {n \in Nat : \E g \in [SUBSET D -> Z] : Good(n, g)}
  <1>1. 0 \in T
    <2> DEFINE g == [u \in SUBSET D |-> b]
    <2>1. \A u \in SUBSET D : Cardinality(u) <= 0 => u = {}
      BY Smaller
    <2>2. g \in [SUBSET D -> Z] /\ Good(0, g)
      BY <2>1 DEF NextValue
    <2> QED BY Zenon, <2>2
  <1>2. ASSUME NEW n \in T PROVE n + 1 \in T
    <2>1. PICK g \in [SUBSET D -> Z] : Good(n, g)
      BY Zenon
    <2> DEFINE k == [u \in SUBSET D |-> NextValue(b, f, c, g, u)]
    <2>2. k \in [SUBSET D -> Z]
      <3> SUFFICES ASSUME NEW u \in SUBSET D PROVE NextValue(b, f, c, g, u) \in Z
        OBVIOUS
      <3>1. CASE u = {}
        BY <3>1 DEF NextValue
      <3>2. CASE u # {}
        <4>1. c[u] \in D /\ g[u \ {c[u]}] \in Z
          BY <2>1, <3>2 DEF Picks
        <4> QED BY <3>2, <4>1 DEF NextValue
      <3> QED BY <3>1, <3>2
    <2>3. Good(n + 1, k)
      <3> SUFFICES ASSUME NEW u \in SUBSET D, Cardinality(u) <= n + 1
                   PROVE  NextValue(b, f, c, g, u) = NextValue(b, f, c, k, u)
        BY Zenon
      <3>1. CASE u = {}
        BY <3>1 DEF NextValue
      <3>2. CASE u # {}
        <4> DEFINE t == u \ {c[u]}
        <4>1. t \in SUBSET D /\ Cardinality(t) = Cardinality(u) - 1
          BY <3>2, Smaller DEF Picks
        <4>2. Cardinality(u) \in Nat /\ n \in Nat
          BY Smaller
        <4>3. Cardinality(t) <= n
          BY <4>1, <4>2
        <4> HIDE DEF t
        <4>4. g[t] = k[t]
          BY <2>1, <4>1, <4>3
        <4> QED BY <3>2, <4>4 DEF NextValue, t
      <3> QED BY <3>1, <3>2
    <2>4. n + 1 \in Nat
      OBVIOUS
    <2> QED BY Zenon, <2>2, <2>3, <2>4
  <1> HIDE DEF T
  <1>3. T \in SUBSET Nat
    BY DEF T
  <1>4. T = Nat
    BY <1>1, <1>2, <1>3, SetInduction
  <1> QED BY Zenon, <1>4 DEF T, FoldedTo

StepsIn(f, D, Z) == f \in [D -> [Z -> Z]]
Folded(D, Z, b, f, c) ==
    \E g \in [SUBSET D -> Z] : \A u \in SUBSET D : g[u] = NextValue(b, f, c, g, u)

LEMMA FoldExists ==
    ASSUME NEW D, IsFiniteSet(D), NEW Z, NEW b \in Z, NEW f, StepsIn(f, D, Z), NEW c, Picks(c, D)
    PROVE  Folded(D, Z, b, f, c)
  <1>1. Cardinality(D) \in Nat /\ \A u \in SUBSET D : Cardinality(u) <= Cardinality(D)
    BY FS_CardinalityType, Smaller
  <1>2. FoldedTo(D, Z, b, f, c, Cardinality(D))
    BY <1>1, FoldUpTo DEF StepsIn
  <1>3. PICK g \in [SUBSET D -> Z] :
            \A u \in SUBSET D : Cardinality(u) <= Cardinality(D) => g[u] = NextValue(b, f, c, g, u)
    BY <1>2 DEF FoldedTo
  <1> QED BY <1>1, <1>3 DEF Folded

(* A function that takes a value of Z to one of Z at every step. *)
LEMMA FoldIn ==
    ASSUME NEW D, IsFiniteSet(D), NEW Z, NEW g, NEW c, Picks(c, D),
           g[{}] \in Z,
           \A u \in SUBSET D : u # {} /\ g[u \ {c[u]}] \in Z => g[u] \in Z
    PROVE  \A u \in SUBSET D : g[u] \in Z
  <1> DEFINE T == {n \in Nat : \A u \in SUBSET D : Cardinality(u) = n => g[u] \in Z}
  <1>1. 0 \in T
    <2>1. \A u \in SUBSET D : Cardinality(u) = 0 => u = {}
      BY Smaller
    <2> QED BY <2>1
  <1>2. ASSUME NEW n \in T PROVE n + 1 \in T
    <2> SUFFICES ASSUME NEW u \in SUBSET D, Cardinality(u) = n + 1 PROVE g[u] \in Z
      BY DEF T
    <2>1. n \in Nat /\ n + 1 # 0 /\ (n + 1) - 1 = n
      OBVIOUS
    <2>2. u # {}
      BY <2>1, Smaller
    <2>3. u \ {c[u]} \in SUBSET D /\ Cardinality(u \ {c[u]}) = n
      BY <2>1, <2>2, Smaller DEF Picks
    <2>4. g[u \ {c[u]}] \in Z
      BY <2>3
    <2> QED BY <2>2, <2>4
  <1> HIDE DEF T
  <1>3. T \in SUBSET Nat
    BY DEF T
  <1>4. T = Nat
    BY <1>1, <1>2, <1>3, SetInduction
  <1>5. \A u \in SUBSET D : Cardinality(u) \in Nat
    BY Smaller
  <1> QED BY <1>4, <1>5 DEF T

-----------------------------------------------------------------------------
(* Bonuses are numbers. *)

WitnessOK(w) == w \in WitnessObjects /\ IsFiniteSet(DOMAIN w.perPledge)

LEMMA WitnessParts ==
    ASSUME NEW w, WitnessOK(w)
    PROVE  /\ w.total \in Nat /\ w.unhandled \in Int /\ w.need \in Int /\ w.already \in Int
           /\ w.last \in Nat
           /\ IsFiniteSet(DOMAIN w.perPledge) /\ DOMAIN w.perPledge \subseteq Nat
           /\ w.perPledge \in [DOMAIN w.perPledge -> Int]
  <1>1. w \in WitnessObjects /\ IsFiniteSet(DOMAIN w.perPledge)
    BY DEF WitnessOK
  <1>2. /\ w.total \in Nat /\ w.unhandled \in Int /\ w.need \in Int /\ w.already \in Int
        /\ w.last \in Nat /\ w.perPledge \in Entries(Int)
    BY <1>1 DEF WitnessObjects
  <1>3. PICK D \in SUBSET Nat : w.perPledge \in [D -> Int]
    BY <1>2 DEF Entries
  <1> QED BY Zenon, <1>1, <1>2, <1>3

LEMMA MineParts ==
    ASSUME NEW s \in MineStates, NEW a \in Miners
    PROVE  /\ s.head \in Nat /\ s.signer \in Nat /\ s.seq \in Nat /\ s.pay \in Int /\ s.paid \in Int
           /\ s.obj \in [Miners -> PledgeObjects] /\ s.stats \in [Miners -> Statistics]
           /\ s.obj[a] \in PledgeObjects /\ s.stats[a] \in Statistics
           /\ s.obj[a].last \in Nat /\ s.obj[a].balance.pledge \in Nat
           /\ s.stats[a].core \in Int /\ s.stats[a].locked \in Int /\ s.stats[a].bonus \in Int
           /\ s.wit \in Entries(WitnessObjects)
  BY DEF MineStates, PledgeObjects, Balances, Statistics

LEMMA Quotient ==
    ASSUME NEW i \in Int, NEW n \in Nat, n > 0
    PROVE  i \div n \in Int
  OBVIOUS

LEMMA PerPledgeType ==
    ASSUME NEW w, WitnessOK(w), Unshared(w)
    PROVE  PerPledge(w) \in Int
  <1>1. w.total \in Nat /\ w.total > 0 /\ w.unhandled \in Int /\ BonusPrecision \in Int
    BY WitnessParts, MiningAssumption DEF Unshared
  <1>2. w.unhandled * BonusPrecision \in Int
    BY <1>1
  <1> QED BY <1>1, <1>2, Quotient DEF PerPledge

LEMMA AccumulateType ==
    ASSUME NEW w, WitnessOK(w), NEW from \in Int
    PROVE  AccumulateBonus(w, from) \in Int
  <1> DEFINE D == {b \in DOMAIN w.perPledge : b >= from}
             f == [b \in D |-> w.perPledge[b]]
             u == IF Unshared(w) THEN PerPledge(w) ELSE 0
  <1>1. IsFiniteSet(DOMAIN w.perPledge) /\ \A b \in DOMAIN w.perPledge : w.perPledge[b] \in Int
    BY WitnessParts
  <1>2. IsFiniteSet(D)
    BY <1>1, FS_Subset
  <1>3. DOMAIN f = D /\ \A b \in D : f[b] \in Int
    BY <1>1
  <1>4. AccumulateBonus(w, from) = SumOfFunction(f) + u
    BY DEF AccumulateBonus
  <1> HIDE DEF f, D
  <1>5. SumOfFunction(f) \in Int
    BY <1>2, <1>3, SumType DEF Summable
  <1>6. u \in Int
    BY PerPledgeType
  <1> HIDE DEF u
  <1> QED BY <1>4, <1>5, <1>6

LEMMA ShareType ==
    ASSUME NEW s \in MineStates, NEW w, WitnessOK(w), NEW a \in Miners
    PROVE  Share(s, w, a) \in Int
  <1>1. s.obj[a].last \in Nat /\ s.obj[a].balance.pledge \in Nat
    BY MineParts
  <1>2. s.obj[a].last + 1 \in Int
    BY <1>1
  <1>3. AccumulateBonus(w, s.obj[a].last + 1) \in Int
    BY <1>2, AccumulateType
  <1>4. AccumulateBonus(w, s.obj[a].last + 1) * s.obj[a].balance.pledge \in Int
    BY <1>1, <1>3
  <1>5. BonusPrecision \in Nat /\ BonusPrecision > 0
    BY MiningAssumption
  <1> QED BY <1>4, <1>5, Quotient DEF Share

(* What an account has of its objects when it has been credited. *)
SameLocks(o, st, p, tt) ==
    /\ p \in PledgeObjects /\ tt \in Statistics
    /\ p.on = o.on /\ p.balance = o.balance /\ tt.core = st.core /\ tt.locked = st.locked

LEMMA CreditShareIs ==
    ASSUME NEW s \in MineStates, NEW w, WitnessOK(w), NEW a \in Miners
    PROVE  /\ SameLocks(s.obj[a], s.stats[a], CreditShare(s, w, a).obj[a],
                        CreditShare(s, w, a).stats[a])
           /\ CreditShare(s, w, a) \in MineStates
           /\ CreditShare(s, w, a).head = s.head /\ CreditShare(s, w, a).signer = s.signer
           /\ CreditShare(s, w, a).seq = s.seq /\ CreditShare(s, w, a).wit = s.wit
           /\ CreditShare(s, w, a).pay = s.pay /\ CreditShare(s, w, a).paid = s.paid
           /\ \A x \in Miners \ {a} : /\ CreditShare(s, w, a).obj[x] = s.obj[x]
                                     /\ CreditShare(s, w, a).stats[x] = s.stats[x]
  <1> DEFINE t == CreditShare(s, w, a)
             st == [s.stats[a] EXCEPT !.bonus = s.stats[a].bonus + Share(s, w, a)]
             o == [s.obj[a] EXCEPT !.last = s.head]
  <1>1. /\ s.head \in Nat /\ s.obj[a] \in PledgeObjects /\ s.stats[a] \in Statistics
        /\ s.stats[a].bonus \in Int
    BY MineParts
  <1>2. CASE s.obj[a].balance.pledge = 0
    <2>1. t = s
      BY <1>2 DEF CreditShare
    <2> QED BY <1>1, <2>1 DEF SameLocks
  <1>3. CASE s.obj[a].balance.pledge # 0
    <2>1. Share(s, w, a) \in Int
      BY ShareType
    <2>2. s.stats[a].bonus + Share(s, w, a) \in Int
      BY <1>1, <2>1
    <2>3. t = [s EXCEPT !.stats = [s.stats EXCEPT ![a] = st], !.obj = [s.obj EXCEPT ![a] = o]]
      BY <1>3 DEF CreditShare, MineStates
    <2>4. st \in Statistics /\ st.core = s.stats[a].core /\ st.locked = s.stats[a].locked
      BY <1>1, <2>2 DEF Statistics
    <2>5. o \in PledgeObjects /\ o.on = s.obj[a].on /\ o.balance = s.obj[a].balance
      BY <1>1 DEF PledgeObjects
    <2> HIDE DEF st, o
    <2>6. /\ t \in MineStates /\ t.stats = [s.stats EXCEPT ![a] = st]
          /\ t.obj = [s.obj EXCEPT ![a] = o]
          /\ t.head = s.head /\ t.signer = s.signer /\ t.seq = s.seq /\ t.wit = s.wit
          /\ t.pay = s.pay /\ t.paid = s.paid
      <3> DEFINE S == [s.stats EXCEPT ![a] = st]
                 O == [s.obj EXCEPT ![a] = o]
      <3>1. S \in [Miners -> Statistics] /\ O \in [Miners -> PledgeObjects]
        BY <2>4, <2>5 DEF MineStates
      <3>2. t = [s EXCEPT !.stats = S, !.obj = O]
        BY <2>3
      <3> HIDE DEF S, O
      <3>3. /\ t.stats = S /\ t.obj = O
            /\ t.head = s.head /\ t.signer = s.signer /\ t.seq = s.seq /\ t.wit = s.wit
            /\ t.pay = s.pay /\ t.paid = s.paid
        BY <3>2 DEF MineStates
      <3>4. t \in MineStates
        BY Zenon, <3>1, <3>2 DEF MineStates
      <3> QED BY <3>3, <3>4 DEF S, O
    <2>7. s.stats \in [Miners -> Statistics] /\ s.obj \in [Miners -> PledgeObjects]
      BY MineParts
    <2> HIDE DEF t
    <2>8. /\ t.stats[a] = st /\ t.obj[a] = o
          /\ \A x \in Miners \ {a} : t.obj[x] = s.obj[x] /\ t.stats[x] = s.stats[x]
      BY <2>6, <2>7
    <2> QED BY <2>4, <2>5, <2>6, <2>8 DEF SameLocks, t
  <1> QED BY <1>2, <1>3

-----------------------------------------------------------------------------
(* Changes of all accounts at once. *)

LEMMA LockedSame ==
    ASSUME NEW o, NEW st, NEW p, NEW tt, NEW low, NEW head, LockedOK(o, st, low, head),
           SameLocks(o, st, p, tt)
    PROVE  LockedOK(p, tt, low, head)
  BY DEF LockedOK, SameLocks

SameWitnesses(s, t) ==
    t.head = s.head /\ t.signer = s.signer /\ t.seq = s.seq /\ t.wit = s.wit

LEMMA WitnessesSame ==
    ASSUME NEW s, NEW t, SameWitnesses(s, t), WitnessesOK(s)
    PROVE  WitnessesOK(t)
  BY DEF SameWitnesses, WitnessesOK, Current

WithAccounts(s, stats, obj, pay) == [s EXCEPT !.stats = stats, !.obj = obj, !.pay = pay]

LEMMA WithAccountsIs ==
    ASSUME NEW s \in MineStates, NEW stats \in [Miners -> Statistics],
           NEW obj \in [Miners -> PledgeObjects], NEW pay \in Int
    PROVE  /\ WithAccounts(s, stats, obj, pay) \in MineStates
           /\ WithAccounts(s, stats, obj, pay).stats = stats
           /\ WithAccounts(s, stats, obj, pay).obj = obj
           /\ SameWitnesses(s, WithAccounts(s, stats, obj, pay))
  <1> DEFINE t == WithAccounts(s, stats, obj, pay)
  <1>1. t \in MineStates
    BY Zenon DEF WithAccounts, MineStates
  <1>2. t.stats = stats /\ t.obj = obj /\ t.head = s.head /\ t.signer = s.signer /\ t.seq = s.seq /\ t.wit = s.wit
    BY DEF WithAccounts, MineStates
  <1> QED BY <1>1, <1>2 DEF SameWitnesses

LEMMA WithAccountsOK ==
    ASSUME NEW s, NEW low, MineOK(s, low), NEW from, NEW stats \in [Miners -> Statistics],
           NEW obj \in [Miners -> PledgeObjects], NEW pay \in Int,
           \A a \in Miners : LockedOK(obj[a], stats[a], from, s.head)
    PROVE  /\ MineOK(WithAccounts(s, stats, obj, pay), from)
           /\ SameWitnesses(s, WithAccounts(s, stats, obj, pay))
  <1> DEFINE t == WithAccounts(s, stats, obj, pay)
  <1>1. s \in MineStates /\ WitnessesOK(s)
    BY DEF MineOK
  <1>2. t \in MineStates /\ t.stats = stats /\ t.obj = obj /\ SameWitnesses(s, t)
    BY <1>1, WithAccountsIs
  <1> HIDE DEF t
  <1>3. WitnessesOK(t)
    BY <1>1, <1>2, WitnessesSame
  <1>4. t.head = s.head
    BY <1>2 DEF SameWitnesses
  <1>5. MineOK(t, from)
    BY <1>2, <1>3, <1>4 DEF MineOK
  <1> QED BY <1>2, <1>5 DEF t

LEMMA CreditAllOK ==
    ASSUME NEW s, NEW low, MineOK(s, low), NEW w, WitnessOK(w)
    PROVE  MineOK(CreditAll(s, w), low) /\ SameWitnesses(s, CreditAll(s, w))
  <1> DEFINE on == {a \in Miners : s.obj[a].on}
             share == [a \in on |-> Share(s, w, a)]
             sent == SumOfFunction(share)
             Credited(a) == IF a \in on THEN CreditShare(s, w, a) ELSE s
             stats == [a \in Miners |-> Credited(a).stats[a]]
             obj == [a \in Miners |-> Credited(a).obj[a]]
             pay == s.pay + w.need - w.already - sent
  <1>1. s \in MineStates /\ \A a \in Miners : LockedOK(s.obj[a], s.stats[a], low, s.head)
    BY DEF MineOK
  <1>2. CreditAll(s, w) = WithAccounts(s, stats, obj, pay)
    BY <1>1 DEF CreditAll, WithAccounts, MineStates
  <1>3. sent \in Int
    <2>1. \A a \in on : share[a] \in Int
      BY <1>1, ShareType
    <2>2. DOMAIN share = on /\ IsFiniteSet(on)
      BY MiningAssumption, FS_Subset
    <2> HIDE DEF share, on
    <2>3. Summable(share)
      BY <2>1, <2>2 DEF Summable
    <2> QED BY <2>3, SumType
  <1> HIDE DEF sent
  <1>4. pay \in Int
    <2>1. w.need \in Int /\ w.already \in Int
      BY WitnessParts
    <2>2. s.pay \in Int
      BY <1>1 DEF MineStates
    <2> QED BY <1>3, <2>1, <2>2
  <1>5. ASSUME NEW a \in Miners PROVE SameLocks(s.obj[a], s.stats[a], obj[a], stats[a])
    <2>1. obj[a] = Credited(a).obj[a] /\ stats[a] = Credited(a).stats[a]
      OBVIOUS
    <2>2. CASE a \in on
      <3>1. Credited(a) = CreditShare(s, w, a)
        BY <2>2
      <3> HIDE DEF Credited, on
      <3> QED BY <1>1, <2>1, <3>1, CreditShareIs
    <2>3. CASE a \notin on
      <3>1. Credited(a) = s
        BY <2>3
      <3>2. s.obj[a] \in PledgeObjects /\ s.stats[a] \in Statistics
        BY <1>1, MineParts
      <3> HIDE DEF Credited, on
      <3> QED BY <2>1, <3>1, <3>2 DEF SameLocks
    <2> QED BY <2>2, <2>3
  <1>6. stats \in [Miners -> Statistics] /\ obj \in [Miners -> PledgeObjects]
    <2>1. \A a \in Miners : stats[a] \in Statistics /\ obj[a] \in PledgeObjects
      BY <1>5 DEF SameLocks
    <2> QED BY <2>1
  <1> HIDE DEF stats, obj, pay
  <1>7. \A a \in Miners : LockedOK(obj[a], stats[a], low, s.head)
    BY <1>1, <1>5, LockedSame
  <1> QED BY <1>2, <1>4, <1>6, <1>7, WithAccountsOK

LEMMA BalanceIn ==
    ASSUME NEW p, PledgeOK(p) PROVE p \in Balances
  <1>1. p.releasing \in Entries(Nat \ {0})
    <2>1. DOMAIN p.releasing \in SUBSET Nat /\ p.releasing \in [DOMAIN p.releasing -> Nat \ {0}]
      BY DEF PledgeOK
    <2> QED BY <2>1 DEF Entries
  <1>2. /\ p = [pledge |-> p.pledge, total |-> p.total, releasing |-> p.releasing]
        /\ p.pledge \in Nat /\ p.total \in Nat
    BY DEF PledgeOK
  <1> QED BY <1>1, <1>2 DEF Balances

WithBalance(o, p) == [o EXCEPT !.balance = p]

LEMMA WithBalanceIs ==
    ASSUME NEW p, PledgeOK(p), NEW o \in PledgeObjects
    PROVE  /\ WithBalance(o, p) \in PledgeObjects /\ WithBalance(o, p).balance = p
           /\ WithBalance(o, p).on = o.on /\ WithBalance(o, p).last = o.last
  <1>1. WithBalance(o, p) \in PledgeObjects
    <2>1. p \in Balances
      BY BalanceIn
    <2> QED BY <2>1 DEF WithBalance, PledgeObjects
  <1>2. /\ WithBalance(o, p).balance = p /\ WithBalance(o, p).on = o.on
        /\ WithBalance(o, p).last = o.last
    BY DEF WithBalance, PledgeObjects
  <1> QED BY <1>1, <1>2

(* A pledge that ends is released later and stays locked until then. *)
LEMMA EndsLocked ==
    ASSUME NEW o \in PledgeObjects, NEW st \in Statistics, NEW low \in Nat, NEW head \in Nat,
           LockedOK(o, st, low, head), low <= head + MiningDelay, o.on
    PROVE  /\ WithBalance(o, UpdatePledge(o.balance, 0, head + MiningDelay)) \in PledgeObjects
           /\ LockedOK(WithBalance(o, UpdatePledge(o.balance, 0, head + MiningDelay)), st, low, head)
  <1> DEFINE at == head + MiningDelay
             p == o.balance
             q == UpdatePledge(p, 0, at)
             r == WithBalance(o, q)
  <1>1. at \in Nat /\ at <= head + MiningDelay /\ 0 \in Nat
    BY MiningAssumption
  <1>2. /\ PledgeOK(p) /\ \A b \in DOMAIN p.releasing : low <= b /\ b <= at
        /\ st.locked = TotalUnreleased(p) /\ st.locked <= st.core
    BY DEF LockedOK
  <1> HIDE DEF p, at
  <1>3. /\ PledgeOK(q) /\ TotalUnreleased(q) = TotalUnreleased(p) + PledgeDelta(p, 0)
        /\ DOMAIN q.releasing \subseteq DOMAIN p.releasing \union {at}
        /\ PledgeDelta(p, 0) = 0
    BY <1>1, <1>2, UpdatePledgeOK
  <1>4. st.locked \in Int
    BY DEF Statistics
  <1>5. st.locked = TotalUnreleased(q)
    BY <1>2, <1>3, <1>4
  <1>6. \A b \in DOMAIN q.releasing : low <= b /\ b <= head + MiningDelay
    BY <1>1, <1>2, <1>3 DEF at
  <1> HIDE DEF q
  <1>7. r \in PledgeObjects /\ r.balance = q /\ r.on = o.on
    BY Zenon, <1>3, WithBalanceIs
  <1> HIDE DEF r
  <1>8. LockedOK(r, st, low, head)
    BY <1>2, <1>3, <1>5, <1>6, <1>7 DEF LockedOK
  <1> QED BY <1>7, <1>8 DEF r, q, p, at

LEMMA ResignMiningOK ==
    ASSUME NEW s, NEW low \in Nat, MineOK(s, low), low <= s.head + MiningDelay
    PROVE  MineOK(ResignMining(s), low) /\ SameWitnesses(s, ResignMining(s))
  <1> DEFINE ended(a) == WithBalance(s.obj[a], UpdatePledge(s.obj[a].balance, 0, s.head + MiningDelay))
             obj == [a \in Miners |-> IF ~s.obj[a].on THEN s.obj[a] ELSE ended(a)]
  <1>1. s \in MineStates /\ \A a \in Miners : LockedOK(s.obj[a], s.stats[a], low, s.head)
    BY DEF MineOK
  <1>2. ResignMining(s) = WithAccounts(s, s.stats, obj, s.pay)
    <2>1. ResignMining(s) = [s EXCEPT !.obj = obj]
      BY DEF ResignMining, WithBalance
    <2> HIDE DEF obj
    <2> QED BY Zenon, <1>1, <2>1 DEF WithAccounts, MineStates
  <1>3. ASSUME NEW a \in Miners
        PROVE  obj[a] \in PledgeObjects /\ LockedOK(obj[a], s.stats[a], low, s.head)
    <2>1. /\ s.obj[a] \in PledgeObjects /\ s.stats[a] \in Statistics /\ s.head \in Nat
          /\ LockedOK(s.obj[a], s.stats[a], low, s.head)
      BY <1>1, MineParts
    <2>2. CASE ~s.obj[a].on
      <3>1. obj[a] = s.obj[a]
        BY <2>2
      <3> QED BY <2>1, <3>1
    <2>3. CASE s.obj[a].on
      <3>1. obj[a] = ended(a)
        BY <2>3
      <3> HIDE DEF obj
      <3> QED BY <2>1, <2>3, <3>1, EndsLocked
    <2> QED BY <2>2, <2>3
  <1>4. obj \in [Miners -> PledgeObjects] /\ s.stats \in [Miners -> Statistics] /\ s.pay \in Int
    <2>1. \A a \in Miners : obj[a] \in PledgeObjects
      BY <1>3
    <2>2. obj \in [Miners -> PledgeObjects]
      BY <2>1
    <2> HIDE DEF obj
    <2> QED BY <1>1, <2>2 DEF MineStates
  <1> HIDE DEF obj
  <1>5. \A a \in Miners : LockedOK(obj[a], s.stats[a], low, s.head)
    BY <1>3
  <1> QED BY <1>2, <1>4, <1>5, WithAccountsOK

-----------------------------------------------------------------------------
(* The end of a block. *)

ReleasedFrom(o, head) ==
    IF Due(o.balance, head) = {} THEN o
    ELSE IF Emptied(ReleaseDue(o.balance, head)) THEN NoPledge
    ELSE WithBalance(o, ReleaseDue(o.balance, head))

Unlocked(st, n) == [st EXCEPT !.locked = st.locked - n]

LEMMA UnlockedIs ==
    ASSUME NEW st \in Statistics, NEW n \in Int
    PROVE  /\ Unlocked(st, n) \in Statistics /\ Unlocked(st, n).locked = st.locked - n
           /\ Unlocked(st, n).core = st.core /\ st.locked \in Int /\ st.core \in Int
  BY DEF Unlocked, Statistics

LEMMA NoPledgeOK ==
    /\ NoPledge \in PledgeObjects /\ PledgeOK(NoPledge.balance) /\ NoPledge.on = FALSE
    /\ TotalUnreleased(NoPledge.balance) = 0 /\ DOMAIN NoPledge.balance.releasing = {}
  <1>1. /\ PledgeOK(NewPledge(0)) /\ TotalUnreleased(NewPledge(0)) = 0
        /\ DOMAIN NewPledge(0).releasing = {}
    BY NewPledgeOK
  <1>2. NewPledge(0) \in Balances
    BY <1>1, BalanceIn
  <1>3. NoPledge \in PledgeObjects /\ NoPledge.balance = NewPledge(0) /\ NoPledge.on = FALSE
    BY <1>2 DEF NoPledge, PledgeObjects
  <1> QED BY <1>1, <1>3

LEMMA ReleasedLocked ==
    ASSUME NEW o \in PledgeObjects, NEW st \in Statistics, NEW head \in Nat,
           LockedOK(o, st, head, head)
    PROVE  /\ ReleasedFrom(o, head) \in PledgeObjects
           /\ Unlocked(st, Released(o.balance, head)) \in Statistics
           /\ LockedOK(ReleasedFrom(o, head), Unlocked(st, Released(o.balance, head)),
                       head + 1, head)
  <1> DEFINE p == o.balance
             q == ReleaseDue(p, head)
             n == Released(p, head)
             r == ReleasedFrom(o, head)
             tt == Unlocked(st, n)
  <1>1. /\ PledgeOK(p) /\ \A b \in DOMAIN p.releasing : head <= b /\ b <= head + MiningDelay
        /\ st.locked = TotalUnreleased(p) /\ st.locked <= st.core
        /\ ~o.on => TotalUnreleased(p) = 0
    BY DEF LockedOK
  <1> HIDE DEF p
  <1>2. /\ PledgeOK(q) /\ n \in Nat /\ TotalUnreleased(q) = TotalUnreleased(p) - n
        /\ DOMAIN q.releasing = {b \in DOMAIN p.releasing : b > head}
        /\ Due(p, head) = {} => n = 0
    BY <1>1, ReleaseDueOK
  <1>3. \A b \in DOMAIN p.releasing : b \in Nat
    BY <1>1 DEF PledgeOK
  <1>4. TotalUnreleased(q) \in Nat
    BY <1>2 DEF PledgeOK, TotalUnreleased
  <1> HIDE DEF q, n
  <1>5. /\ tt \in Statistics /\ tt.locked = st.locked - n /\ tt.core = st.core
        /\ st.locked \in Int /\ st.core \in Int
    BY <1>2, UnlockedIs
  <1> HIDE DEF tt
  <1>6. tt.locked = TotalUnreleased(q) /\ tt.locked <= tt.core
    BY <1>1, <1>2, <1>5
  <1>7. CASE Due(p, head) = {}
    <2>1. r = o
      BY <1>7 DEF ReleasedFrom, p
    <2>2. tt.locked = TotalUnreleased(p)
      BY <1>1, <1>2, <1>5, <1>7
    <2>3. \A b \in DOMAIN p.releasing : ~(b <= head)
      BY <1>7 DEF Due
    <2>4. \A b \in DOMAIN p.releasing : head + 1 <= b /\ b <= head + MiningDelay
      BY <1>1, <1>3, <2>3
    <2>5. LockedOK(o, tt, head + 1, head)
      BY <1>1, <1>6, <2>2, <2>4 DEF LockedOK, p
    <2> QED BY <1>5, <2>1, <2>5 DEF tt, n, p
  <1>8. CASE Due(p, head) # {} /\ Emptied(q)
    <2>1. r = NoPledge
      BY <1>8 DEF ReleasedFrom, p, q
    <2>2. q.pledge = 0 /\ DOMAIN q.releasing = {}
      BY <1>8 DEF Emptied
    <2>3. q.total = 0
      <3>1. q.total = SumOfFunction(q.releasing)
        BY <1>2, EntriesSum
      <3>2. SumOfFunction(q.releasing) = 0
        BY Zenon, <2>2, SumEmpty
      <3> QED BY <3>1, <3>2
    <2>4. TotalUnreleased(q) = 0
      BY <2>2, <2>3 DEF TotalUnreleased
    <2>5. LockedOK(NoPledge, tt, head + 1, head)
      BY <1>6, <2>4, NoPledgeOK DEF LockedOK
    <2> QED BY <1>5, <2>1, <2>5, NoPledgeOK DEF tt, n, p
  <1>9. CASE Due(p, head) # {} /\ ~Emptied(q)
    <2>1. r = WithBalance(o, q)
      BY <1>9 DEF ReleasedFrom, p, q
    <2>2. r \in PledgeObjects /\ r.balance = q /\ r.on = o.on
      BY <1>2, <2>1, WithBalanceIs
    <2> HIDE DEF r
    <2>3. \A b \in DOMAIN q.releasing : head + 1 <= b /\ b <= head + MiningDelay
      BY <1>1, <1>2, <1>3
    <2>4. TotalUnreleased(p) \in Nat
      BY <1>1 DEF PledgeOK, TotalUnreleased
    <2>5. ~r.on => TotalUnreleased(q) = 0
      BY <1>1, <1>2, <1>4, <2>2, <2>4
    <2>6. LockedOK(r, tt, head + 1, head)
      BY <1>2, <1>6, <2>2, <2>3, <2>5 DEF LockedOK
    <2> QED BY <1>5, <2>2, <2>6 DEF tt, n, p, r
  <1> QED BY <1>7, <1>8, <1>9

LEMMA ReleasePledgesOK ==
    ASSUME NEW s, MineOK(s, s.head)
    PROVE  MineOK(ReleasePledges(s), s.head + 1) /\ SameWitnesses(s, ReleasePledges(s))
  <1> DEFINE obj == [a \in Miners |-> ReleasedFrom(s.obj[a], s.head)]
             stats == [a \in Miners |-> Unlocked(s.stats[a], Released(s.obj[a].balance, s.head))]
  <1>1. s \in MineStates /\ \A a \in Miners : LockedOK(s.obj[a], s.stats[a], s.head, s.head)
    BY DEF MineOK
  <1>2. ReleasePledges(s) = WithAccounts(s, stats, obj, s.pay)
    <2>1. \A a \in Miners : s.obj[a] \in PledgeObjects
      BY <1>1, MineParts
    <2>2. \A a \in Miners : [s.obj[a] EXCEPT !.balance = ReleaseDue(@, s.head)].balance
                                = ReleaseDue(s.obj[a].balance, s.head)
      BY <2>1 DEF PledgeObjects
    <2>3. ReleasePledges(s) = [s EXCEPT !.obj = obj, !.stats = stats]
      BY <2>2 DEF ReleasePledges, ReleasedFrom, Unlocked, WithBalance
    <2> HIDE DEF obj, stats
    <2> QED BY Zenon, <1>1, <2>3 DEF WithAccounts, MineStates
  <1>3. ASSUME NEW a \in Miners
        PROVE  /\ obj[a] \in PledgeObjects /\ stats[a] \in Statistics
               /\ LockedOK(obj[a], stats[a], s.head + 1, s.head)
    <2>1. /\ s.obj[a] \in PledgeObjects /\ s.stats[a] \in Statistics /\ s.head \in Nat
          /\ LockedOK(s.obj[a], s.stats[a], s.head, s.head)
      BY <1>1, MineParts
    <2>2. /\ obj[a] = ReleasedFrom(s.obj[a], s.head)
          /\ stats[a] = Unlocked(s.stats[a], Released(s.obj[a].balance, s.head))
      OBVIOUS
    <2> HIDE DEF obj, stats
    <2> QED BY <2>1, <2>2, ReleasedLocked
  <1>4. obj \in [Miners -> PledgeObjects] /\ stats \in [Miners -> Statistics] /\ s.pay \in Int
    <2>1. \A a \in Miners : obj[a] \in PledgeObjects /\ stats[a] \in Statistics
      BY <1>3
    <2>2. s.pay \in Int
      BY <1>1 DEF MineStates
    <2> QED BY <2>1, <2>2
  <1> HIDE DEF obj, stats
  <1>5. \A a \in Miners : LockedOK(obj[a], stats[a], s.head + 1, s.head)
    BY <1>3
  <1> QED BY <1>2, <1>4, <1>5, WithAccountsOK

LEMMA WitnessIn ==
    ASSUME NEW s, NEW low, MineOK(s, low)
    PROVE  /\ \A q \in DOMAIN s.wit : WitnessOK(s.wit[q])
           /\ DOMAIN s.wit \subseteq Nat /\ IsFiniteSet(DOMAIN s.wit)
           /\ s.wit \in [DOMAIN s.wit -> WitnessObjects]
  <1>1. s.wit \in Entries(WitnessObjects) /\ s.seq \in Nat
    BY DEF MineOK, MineStates
  <1>2. /\ DOMAIN s.wit \subseteq 1..s.seq
        /\ \A q \in DOMAIN s.wit : IsFiniteSet(DOMAIN s.wit[q].perPledge)
    BY DEF MineOK, WitnessesOK
  <1>3. PICK D \in SUBSET Nat : s.wit \in [D -> WitnessObjects]
    BY <1>1 DEF Entries
  <1>4. IsFiniteSet(1..s.seq)
    BY <1>1, FS_Interval
  <1>5. IsFiniteSet(DOMAIN s.wit)
    BY Zenon, <1>2, <1>4, FS_Subset
  <1>6. DOMAIN s.wit = D
    BY <1>3
  <1>7. \A q \in DOMAIN s.wit : WitnessOK(s.wit[q])
    BY Zenon, <1>2, <1>3, <1>6 DEF WitnessOK
  <1> QED BY <1>3, <1>5, <1>6, <1>7

(* The states on the way through the witness objects. *)
Midway(s, low) == {x \in MineStates : MineOK(x, low) /\ SameWitnesses(s, x)}

Dropped(x, w) == ResignMining(CreditAll(x, w))

LEMMA DroppedOK ==
    ASSUME NEW s, NEW low \in Nat, low <= s.head + MiningDelay, NEW w, WitnessOK(w),
           NEW x \in Midway(s, low)
    PROVE  Dropped(x, w) \in Midway(s, low)
  <1> DEFINE y == CreditAll(x, w)
             z == ResignMining(y)
  <1>1. MineOK(x, low) /\ SameWitnesses(s, x)
    BY DEF Midway
  <1>2. MineOK(y, low) /\ SameWitnesses(x, y)
    BY <1>1, CreditAllOK
  <1> HIDE DEF y
  <1>3. SameWitnesses(s, y)
    BY <1>1, <1>2 DEF SameWitnesses
  <1>4. low <= y.head + MiningDelay
    BY <1>3 DEF SameWitnesses
  <1>5. MineOK(z, low) /\ SameWitnesses(y, z)
    BY <1>2, <1>4, ResignMiningOK
  <1> HIDE DEF z
  <1>6. SameWitnesses(s, z)
    BY <1>3, <1>5 DEF SameWitnesses
  <1>7. z \in MineStates
    BY <1>5 DEF MineOK
  <1>8. z \in Midway(s, low)
    BY <1>5, <1>6, <1>7 DEF Midway
  <1> QED BY <1>8 DEF Dropped, y, z

LEMMA CreditedOK ==
    ASSUME NEW s, NEW low, NEW w, WitnessOK(w), NEW x \in Midway(s, low)
    PROVE  CreditAll(x, w) \in Midway(s, low)
  <1> DEFINE y == CreditAll(x, w)
  <1>1. MineOK(x, low) /\ SameWitnesses(s, x)
    BY DEF Midway
  <1>2. MineOK(y, low) /\ SameWitnesses(x, y)
    BY <1>1, CreditAllOK
  <1> HIDE DEF y
  <1>3. SameWitnesses(s, y)
    BY <1>1, <1>2 DEF SameWitnesses
  <1>4. y \in MineStates
    BY <1>2 DEF MineOK
  <1>5. y \in Midway(s, low)
    BY <1>2, <1>3, <1>4 DEF Midway
  <1> QED BY <1>5 DEF y

(* The resigned objects are dropped one by one. *)
DropAll(s) ==
    LET Drop(q, u) == ResignMining(CreditAll(u, s.wit[q]))
    IN MapThenFoldSet(Drop, s, LAMBDA q : q, LAMBDA S : Max(S), DOMAIN s.wit \ Current(s))

LEMMA DropAllOK ==
    ASSUME NEW s, NEW low \in Nat, low <= s.head + MiningDelay, MineOK(s, low)
    PROVE  DropAll(s) \in Midway(s, low)
  <1> DEFINE D == DOMAIN s.wit \ Current(s)
             Z == Midway(s, low)
             f == [q \in D |-> [x \in Z |-> Dropped(x, s.wit[q])]]
             c == [u \in SUBSET D |-> Max(u)]
             Drops(g) == [u \in SUBSET D |->
                             IF u = {} THEN s ELSE Dropped(g[u \ {Max(u)}], s.wit[Max(u)])]
             G == CHOOSE g : g = Drops(g)
  <1>1. /\ \A q \in D : WitnessOK(s.wit[q])
        /\ D \subseteq Int /\ IsFiniteSet(D)
    <2>1. /\ \A q \in DOMAIN s.wit : WitnessOK(s.wit[q])
          /\ DOMAIN s.wit \subseteq Nat /\ IsFiniteSet(DOMAIN s.wit)
      BY WitnessIn
    <2>2. IsFiniteSet(D)
      BY <2>1, FS_Subset
    <2> QED BY <2>1, <2>2
  <1>2. DropAll(s) = G[D]
    BY DEF DropAll, MapThenFoldSet, Dropped
  <1> HIDE DEF D
  <1>3. \A u \in SUBSET D : u # {} => Max(u) \in u
    <2> SUFFICES ASSUME NEW u \in SUBSET D, u # {} PROVE Max(u) \in u
      OBVIOUS
    <2>1. u \in SUBSET Int /\ IsFiniteSet(u)
      BY Zenon, <1>1, FS_Subset
    <2> QED BY <2>1, MaxOf
  <1>4. Picks(c, D)
    BY <1>3 DEF Picks
  <1>5. \A q \in D : \A x \in Z : Dropped(x, s.wit[q]) \in Z
    BY <1>1, DroppedOK
  <1>6. s \in Z
    BY DEF MineOK, Midway, SameWitnesses
  <1> HIDE DEF Z
  <1>7. StepsIn(f, D, Z)
    BY <1>5 DEF StepsIn
  <1> HIDE DEF f, c
  <1>8. PICK k \in [SUBSET D -> Z] : \A u \in SUBSET D : k[u] = NextValue(s, f, c, k, u)
    <2>1. Folded(D, Z, s, f, c)
      BY <1>1, <1>4, <1>6, <1>7, FoldExists
    <2> QED BY <2>1 DEF Folded
  <1>9. k = Drops(k)
    <2>1. ASSUME NEW u \in SUBSET D
          PROVE  k[u] = IF u = {} THEN s ELSE Dropped(k[u \ {Max(u)}], s.wit[Max(u)])
      <3>1. CASE u = {}
        BY Zenon, <1>8, <3>1 DEF NextValue
      <3>2. CASE u # {}
        <4>1. c[u] = Max(u) /\ Max(u) \in D /\ u \ {Max(u)} \in SUBSET D
          BY <1>3, <3>2 DEF c
        <4>2. k[u] = f[Max(u)][k[u \ {Max(u)}]]
          BY Zenon, <1>8, <3>2, <4>1 DEF NextValue
        <4>3. k[u \ {Max(u)}] \in Z
          BY <4>1
        <4>4. f[Max(u)][k[u \ {Max(u)}]] = Dropped(k[u \ {Max(u)}], s.wit[Max(u)])
          BY <4>1, <4>3 DEF f
        <4> QED BY <3>2, <4>2, <4>4
      <3> QED BY <3>1, <3>2
    <2>2. k = [u \in SUBSET D |-> k[u]]
      OBVIOUS
    <2> QED BY Zenon, <2>1, <2>2
  <1>10. G = Drops(G)
    BY Zenon, <1>9
  <1> HIDE DEF G
  <1>11. /\ G[{}] = s
         /\ \A u \in SUBSET D : u # {} => G[u] = Dropped(G[u \ {Max(u)}], s.wit[Max(u)])
    BY Zenon, <1>10
  <1>12. \A u \in SUBSET D : u # {} /\ G[u \ {c[u]}] \in Z => G[u] \in Z
    BY <1>3, <1>5, <1>11 DEF c
  <1>13. \A u \in SUBSET D : G[u] \in Z
    BY Zenon, <1>1, <1>4, <1>6, <1>11, <1>12, FoldIn
  <1> QED BY <1>2, <1>13 DEF Z

(* The bonus is distributed over the objects in due, the latest first. *)
DueForBonus(s) ==
    {q \in DOMAIN s.wit : /\ s.wit[q].total > 0
                          /\ DOMAIN s.wit[q].perPledge # {} \/ s.wit[q].unhandled > 0
                          /\ s.wit[q].last + BonusInterval <= s.head}
LaterThan(s, x, y) == \/ s.wit[x].last > s.wit[y].last
                      \/ s.wit[x].last = s.wit[y].last /\ x < y
Earliest(s, S) == CHOOSE x \in S : \A y \in S \ {x} : LaterThan(s, y, x)
CreditDue(s) ==
    MapThenFoldSet(LAMBDA q, u : CreditAll(u, s.wit[q]), s, LAMBDA q : q,
                   LAMBDA S : Earliest(s, S), DueForBonus(s))

LEMMA EarliestIn ==
    ASSUME NEW s, NEW S, IsFiniteSet(S), S \subseteq Nat, S # {},
           \A q \in S : s.wit[q].last \in Nat
    PROVE  Earliest(s, S) \in S
  <1> DEFINE L == {s.wit[q].last : q \in S}
  <1>1. L \subseteq Nat /\ L # {}
    OBVIOUS
  <1>2. PICK m \in L : \A y \in L : m <= y
    <2> HIDE DEF L
    <2>1. PICK m \in L : \A y \in L : ~(<<y, m>> \in OpToRel(<, Nat))
      BY <1>1, NatLessThanWellFounded, WFMin
    <2>2. \A y \in L : ~(y < m)
      BY Zenon, <1>1, <2>1 DEF OpToRel
    <2>3. \A y \in L : m <= y
      BY <1>1, <2>2
    <2> QED BY <2>3
  <1> DEFINE M == {q \in S : s.wit[q].last = m}
  <1>3. M \in SUBSET Int /\ IsFiniteSet(M) /\ M # {}
    <2>1. IsFiniteSet(M)
      BY FS_Subset
    <2>2. PICK q \in S : m = s.wit[q].last
      BY Zenon, <1>2
    <2>3. M # {}
      BY <2>2
    <2>4. M \subseteq S
      BY Zenon
    <2>5. S \subseteq Int
      OBVIOUS
    <2> HIDE DEF M
    <2> QED BY <2>1, <2>3, <2>4, <2>5
  <1>4. PICK x \in M : \A y \in M : x >= y
    BY Zenon, <1>3, Extremes
  <1>5. x \in S /\ s.wit[x].last = m
    OBVIOUS
  <1>6. ASSUME NEW y \in S \ {x} PROVE LaterThan(s, y, x)
    <2>1. m <= s.wit[y].last /\ s.wit[y].last \in Nat /\ m \in Nat
      BY Zenon, <1>2
    <2>2. CASE s.wit[y].last = m
      <3>1. y \in M /\ x \in Nat /\ y \in Nat
        BY Zenon, <2>2
      <3>2. y < x
        BY <1>4, <3>1
      <3> QED BY <1>5, <2>2, <3>2 DEF LaterThan
    <2>3. CASE s.wit[y].last # m
      <3>1. s.wit[y].last > s.wit[x].last
        BY <1>5, <2>1, <2>3
      <3> QED BY <3>1 DEF LaterThan
    <2> QED BY <2>2, <2>3
  <1> QED BY Zenon, <1>5, <1>6 DEF Earliest

LEMMA CreditDueOK ==
    ASSUME NEW s, NEW low, MineOK(s, low)
    PROVE  CreditDue(s) \in Midway(s, low)
  <1> DEFINE D == DueForBonus(s)
             Z == Midway(s, low)
             f == [q \in D |-> [x \in Z |-> CreditAll(x, s.wit[q])]]
             First(u) == Earliest(s, u)
             c == [u \in SUBSET D |-> First(u)]
             Credits(g) == [u \in SUBSET D |->
                             IF u = {} THEN s ELSE CreditAll(g[u \ {First(u)}], s.wit[First(u)])]
             G == CHOOSE g : g = Credits(g)
  <1>1. /\ \A q \in D : WitnessOK(s.wit[q])
        /\ D \subseteq Nat /\ IsFiniteSet(D)
    <2>1. /\ \A q \in DOMAIN s.wit : WitnessOK(s.wit[q])
          /\ DOMAIN s.wit \subseteq Nat /\ IsFiniteSet(DOMAIN s.wit)
      BY WitnessIn
    <2>2. D \subseteq DOMAIN s.wit
      BY DEF DueForBonus
    <2> HIDE DEF D
    <2>3. IsFiniteSet(D)
      BY <2>1, <2>2, FS_Subset
    <2> QED BY <2>1, <2>2, <2>3
  <1>2. CreditDue(s) = G[D]
    BY DEF CreditDue, MapThenFoldSet
  <1> HIDE DEF D
  <1>3. \A u \in SUBSET D : u # {} => First(u) \in u
    <2> SUFFICES ASSUME NEW u \in SUBSET D, u # {} PROVE First(u) \in u
      OBVIOUS
    <2>1. u \subseteq Nat /\ IsFiniteSet(u)
      BY Zenon, <1>1, FS_Subset
    <2>2. \A q \in u : s.wit[q].last \in Nat
      BY <1>1, WitnessParts
    <2> QED BY Zenon, <2>1, <2>2, EarliestIn
  <1> HIDE DEF First
  <1>4. Picks(c, D)
    BY <1>3 DEF Picks
  <1>5. \A q \in D : \A x \in Z : CreditAll(x, s.wit[q]) \in Z
    BY <1>1, CreditedOK
  <1>6. s \in Z
    BY DEF MineOK, Midway, SameWitnesses
  <1> HIDE DEF Z
  <1>7. StepsIn(f, D, Z)
    BY <1>5 DEF StepsIn
  <1> HIDE DEF f, c
  <1>8. PICK k \in [SUBSET D -> Z] : \A u \in SUBSET D : k[u] = NextValue(s, f, c, k, u)
    <2>1. Folded(D, Z, s, f, c)
      BY <1>1, <1>4, <1>6, <1>7, FoldExists
    <2> QED BY <2>1 DEF Folded
  <1>9. k = Credits(k)
    <2>1. ASSUME NEW u \in SUBSET D
          PROVE  k[u] = IF u = {} THEN s ELSE CreditAll(k[u \ {First(u)}], s.wit[First(u)])
      <3>1. CASE u = {}
        BY Zenon, <1>8, <3>1 DEF NextValue
      <3>2. CASE u # {}
        <4>1. c[u] = First(u) /\ First(u) \in D /\ u \ {First(u)} \in SUBSET D
          BY <1>3, <3>2 DEF c
        <4>2. k[u] = f[First(u)][k[u \ {First(u)}]]
          BY Zenon, <1>8, <3>2, <4>1 DEF NextValue
        <4>3. k[u \ {First(u)}] \in Z
          BY <4>1
        <4>4. f[First(u)][k[u \ {First(u)}]] = CreditAll(k[u \ {First(u)}], s.wit[First(u)])
          BY <4>1, <4>3 DEF f
        <4> QED BY <3>2, <4>2, <4>4
      <3> QED BY <3>1, <3>2
    <2>2. k = [u \in SUBSET D |-> k[u]]
      OBVIOUS
    <2> QED BY Zenon, <2>1, <2>2
  <1>10. G = Credits(G)
    BY Zenon, <1>9
  <1> HIDE DEF G
  <1>11. /\ G[{}] = s
         /\ \A u \in SUBSET D : u # {} => G[u] = CreditAll(G[u \ {First(u)}], s.wit[First(u)])
    BY Zenon, <1>10
  <1>12. \A u \in SUBSET D : u # {} /\ G[u \ {c[u]}] \in Z => G[u] \in Z
    BY SMTT(30), <1>3, <1>5, <1>11 DEF c
  <1>13. \A u \in SUBSET D : G[u] \in Z
    BY Zenon, <1>1, <1>4, <1>6, <1>11, <1>12, FoldIn
  <1> QED BY <1>2, <1>13 DEF Z

-----------------------------------------------------------------------------
(* Changes of the witness objects. *)

(* V has objects of W, changed, and still the one that signs. *)
WitChanged(V, W, signer) ==
    /\ V = [q \in DOMAIN V |-> V[q]] /\ DOMAIN V \subseteq DOMAIN W
    /\ \A q \in DOMAIN V : WitnessOK(V[q]) /\ (V[q].valid => W[q].valid)
    /\ signer # 0 => signer \in DOMAIN V /\ V[signer].valid

WithWit(s, V) == [s EXCEPT !.wit = V]

LEMMA WithWitOK ==
    ASSUME NEW s, NEW low, MineOK(s, low), NEW V, WitChanged(V, s.wit, s.signer)
    PROVE  /\ MineOK(WithWit(s, V), low) /\ WithWit(s, V).head = s.head
           /\ WithWit(s, V).seq = s.seq /\ WithWit(s, V).wit = V
           /\ WithWit(s, V).signer = s.signer
  <1> DEFINE t == WithWit(s, V)
  <1>1. /\ s \in MineStates /\ WitnessesOK(s)
        /\ \A a \in Miners : LockedOK(s.obj[a], s.stats[a], low, s.head)
    BY DEF MineOK
  <1>2. DOMAIN s.wit \subseteq Nat
    BY WitnessIn
  <1>3. V \in Entries(WitnessObjects)
    <2>1. DOMAIN V \in SUBSET Nat /\ V \in [DOMAIN V -> WitnessObjects]
      BY <1>2 DEF WitChanged, WitnessOK
    <2> QED BY <2>1 DEF Entries
  <1>4. t \in MineStates
    BY <1>1, <1>3 DEF WithWit, MineStates
  <1>5. /\ t.head = s.head /\ t.signer = s.signer /\ t.seq = s.seq /\ t.wit = V
        /\ t.obj = s.obj /\ t.stats = s.stats
    BY <1>1 DEF WithWit, MineStates
  <1> HIDE DEF t
  <1>6. /\ DOMAIN s.wit \subseteq 1..s.seq
        /\ \A q \in DOMAIN s.wit : s.wit[q].valid => q = s.seq
    BY <1>1 DEF WitnessesOK, Current
  <1>7. \A q \in DOMAIN V : q \in DOMAIN s.wit /\ (V[q].valid => q = s.seq)
    BY <1>6 DEF WitChanged
  <1>8. \A q \in DOMAIN V : IsFiniteSet(DOMAIN V[q].perPledge)
    BY DEF WitChanged, WitnessOK
  <1>9. s.signer # 0 => s.signer \in DOMAIN V /\ V[s.signer].valid
    BY DEF WitChanged
  <1>10. Current(t) = {q \in DOMAIN V : V[q].valid}
    BY <1>5 DEF Current
  <1>11. DOMAIN t.wit \subseteq 1..t.seq
    BY <1>5, <1>6, <1>7
  <1>12. t.signer # 0 => t.signer \in Current(t)
    BY <1>5, <1>9, <1>10
  <1>13. Current(t) \subseteq {t.seq}
    BY SMTT(30), <1>5, <1>7, <1>10
  <1>14. WitnessesOK(t)
    BY SMTT(30), <1>5, <1>8, <1>11, <1>12, <1>13 DEF WitnessesOK
  <1>15. MineOK(t, low)
    BY <1>1, <1>4, <1>5, <1>14 DEF MineOK
  <1> QED BY <1>5, <1>15 DEF t

LEMMA SignerIn ==
    ASSUME NEW s, NEW low, MineOK(s, low), s.signer # 0
    PROVE  s.signer \in Current(s) /\ s.signer \in DOMAIN s.wit /\ s.wit[s.signer].valid
  BY DEF MineOK, WitnessesOK, Current

LEMMA NothingIn ==
    /\ NothingReleasing \in Entries(Int) /\ IsFiniteSet(DOMAIN NothingReleasing)
    /\ DOMAIN NothingReleasing = {}
  <1>1. NothingReleasing \in [{} -> Int] /\ {} \in SUBSET Nat /\ DOMAIN NothingReleasing = {}
    BY DEF NothingReleasing
  <1>2. NothingReleasing \in Entries(Int)
    BY <1>1 DEF Entries
  <1> QED BY <1>1, <1>2, FS_EmptySet

WitnessFields == {"valid", "can", "total", "perPledge", "unhandled", "need", "already", "last"}

LEMMA WitnessShape ==
    ASSUME NEW x, x = [k \in WitnessFields |-> x[k]],
           x.valid \in BOOLEAN, x.can \in BOOLEAN, x.total \in Nat, x.perPledge \in Entries(Int),
           x.unhandled \in Int, x.need \in Int, x.already \in Int, x.last \in Nat
    PROVE  x \in WitnessObjects
  <1>1. x = [valid |-> x.valid, can |-> x.can, total |-> x.total, perPledge |-> x.perPledge,
             unhandled |-> x.unhandled, need |-> x.need, already |-> x.already, last |-> x.last]
    BY DEF WitnessFields
  <1> QED BY <1>1 DEF WitnessObjects

LEMMA ClearedOK ==
    ASSUME NEW w, WitnessOK(w), NEW head \in Nat
    PROVE  WitnessOK(Cleared(w, head)) /\ (Cleared(w, head).valid => w.valid)
           /\ (w.valid => Cleared(w, head).valid)
  <1>1. w \in WitnessObjects
    BY DEF WitnessOK
  <1>2. Cleared(w, head) \in WitnessObjects
    <2> DEFINE x == Cleared(w, head)
    <2>1. x = [k \in WitnessFields |-> x[k]]
      BY Zenon, <1>1 DEF Cleared, WitnessObjects, WitnessFields
    <2>2. x.valid \in BOOLEAN /\ x.can \in BOOLEAN /\ x.total \in Nat
      BY <1>1 DEF Cleared, WitnessObjects
    <2>3. /\ x.perPledge = NothingReleasing /\ x.unhandled = 0 /\ x.need = 0
          /\ x.already = 0 /\ x.last = head
      BY <1>1 DEF Cleared, WitnessObjects
    <2> HIDE DEF x
    <2>4. x \in WitnessObjects
      BY SMTT(30), <2>1, <2>2, <2>3, NothingIn, WitnessShape
    <2> QED BY <2>4 DEF x
  <1>3. Cleared(w, head).perPledge = NothingReleasing
    BY <1>1 DEF Cleared, WitnessObjects
  <1>4. Cleared(w, head).valid = w.valid
    BY <1>1 DEF Cleared, WitnessObjects
  <1>5. WitnessOK(Cleared(w, head))
    BY <1>2, <1>3, NothingIn DEF WitnessOK
  <1> HIDE DEF Cleared
  <1> QED BY <1>4, <1>5

LEMMA RemoveResignedOK ==
    ASSUME NEW s, NEW low \in Nat, low <= s.head + MiningDelay, MineOK(s, low)
    PROVE  /\ MineOK(RemoveResigned(s), low) /\ RemoveResigned(s).head = s.head
           /\ RemoveResigned(s).seq = s.seq /\ Current(RemoveResigned(s)) = Current(s)
  <1> DEFINE t == DropAll(s)
             V == [q \in Current(s) |-> s.wit[q]]
             r == WithWit(t, V)
  <1>1. RemoveResigned(s) = r
    BY DEF RemoveResigned, DropAll, WithWit
  <1>2. t \in Midway(s, low)
    BY DropAllOK
  <1> HIDE DEF t
  <1>3. MineOK(t, low) /\ t.wit = s.wit /\ t.signer = s.signer /\ t.head = s.head /\ t.seq = s.seq
    BY <1>2 DEF Midway, SameWitnesses
  <1>4. DOMAIN V = Current(s) /\ \A q \in Current(s) : V[q] = s.wit[q]
    OBVIOUS
  <1>5. Current(s) \subseteq DOMAIN s.wit /\ \A q \in Current(s) : s.wit[q].valid
    BY DEF Current
  <1>6. \A q \in Current(s) : WitnessOK(s.wit[q])
    BY <1>5, WitnessIn
  <1>7. s.signer # 0 => s.signer \in Current(s)
    BY SignerIn
  <1>8. V = [q \in DOMAIN V |-> V[q]]
    OBVIOUS
  <1> HIDE DEF V
  <1>9. WitChanged(V, t.wit, t.signer)
    BY SMTT(30), <1>3, <1>4, <1>5, <1>6, <1>7, <1>8 DEF WitChanged
  <1>10. MineOK(r, low) /\ r.head = t.head /\ r.seq = t.seq /\ r.wit = V
    BY <1>3, <1>9, WithWitOK
  <1> HIDE DEF r
  <1>11. Current(r) = Current(s)
    BY <1>4, <1>5, <1>10 DEF Current
  <1> QED BY <1>1, <1>3, <1>10, <1>11

LEMMA DistributeBonusOK ==
    ASSUME NEW s, NEW low, MineOK(s, low)
    PROVE  /\ MineOK(DistributeBonus(s), low) /\ DistributeBonus(s).head = s.head
           /\ DistributeBonus(s).seq = s.seq /\ Current(DistributeBonus(s)) = Current(s)
  <1> DEFINE t == CreditDue(s)
             New(q) == IF q \in DueForBonus(s) THEN Cleared(s.wit[q], s.head) ELSE s.wit[q]
             V == [q \in DOMAIN s.wit |-> New(q)]
             r == WithWit(t, V)
  <1>1. DistributeBonus(s) = r
    BY DEF DistributeBonus, CreditDue, DueForBonus, Earliest, LaterThan, WithWit
  <1>2. t \in Midway(s, low)
    BY CreditDueOK
  <1> HIDE DEF t
  <1>3. MineOK(t, low) /\ t.wit = s.wit /\ t.signer = s.signer /\ t.head = s.head /\ t.seq = s.seq
    BY <1>2 DEF Midway, SameWitnesses
  <1>4. DOMAIN V = DOMAIN s.wit /\ \A q \in DOMAIN s.wit : V[q] = New(q)
    OBVIOUS
  <1>5. s.head \in Nat
    BY DEF MineOK, MineStates
  <1>6. ASSUME NEW q \in DOMAIN s.wit
        PROVE  /\ WitnessOK(V[q]) /\ (V[q].valid => s.wit[q].valid)
               /\ (s.wit[q].valid => V[q].valid)
    <2>1. WitnessOK(s.wit[q])
      BY WitnessIn
    <2>2. CASE q \in DueForBonus(s)
      <3>1. V[q] = Cleared(s.wit[q], s.head)
        BY <2>2
      <3> HIDE DEF V
      <3> QED BY <1>5, <2>1, <3>1, ClearedOK
    <2>3. CASE q \notin DueForBonus(s)
      <3>1. V[q] = s.wit[q]
        BY <2>3
      <3> HIDE DEF V
      <3> QED BY <2>1, <3>1
    <2> QED BY <2>2, <2>3
  <1>7. s.signer # 0 => s.signer \in DOMAIN s.wit /\ s.wit[s.signer].valid
    BY SignerIn
  <1>8. V = [q \in DOMAIN V |-> V[q]]
    OBVIOUS
  <1> HIDE DEF V
  <1>9. WitChanged(V, t.wit, t.signer)
    BY <1>3, <1>4, <1>6, <1>7, <1>8 DEF WitChanged
  <1>10. MineOK(r, low) /\ r.head = t.head /\ r.seq = t.seq /\ r.wit = V
    BY <1>3, <1>9, WithWitOK
  <1> HIDE DEF r
  <1>11. Current(r) = Current(s)
    BY <1>4, <1>6, <1>10 DEF Current
  <1> QED BY <1>1, <1>3, <1>10, <1>11

WithOne(W, q, w) == [W EXCEPT ![q] = w]

LEMMA OneChanged ==
    ASSUME NEW s, NEW low, MineOK(s, low), NEW q \in DOMAIN s.wit, NEW w, WitnessOK(w),
           w.valid => s.wit[q].valid, q = s.signer => w.valid
    PROVE  /\ WitChanged(WithOne(s.wit, q, w), s.wit, s.signer)
           /\ WithOne(s.wit, q, w)[q] = w /\ DOMAIN WithOne(s.wit, q, w) = DOMAIN s.wit
           /\ \A x \in DOMAIN s.wit \ {q} : WithOne(s.wit, q, w)[x] = s.wit[x]
  <1> DEFINE V == WithOne(s.wit, q, w)
  <1>1. /\ \A x \in DOMAIN s.wit : WitnessOK(s.wit[x])
        /\ s.wit \in [DOMAIN s.wit -> WitnessObjects]
    BY WitnessIn
  <1>2. /\ V = [x \in DOMAIN V |-> V[x]] /\ DOMAIN V = DOMAIN s.wit /\ V[q] = w
        /\ \A x \in DOMAIN s.wit \ {q} : V[x] = s.wit[x]
    BY <1>1 DEF WithOne
  <1> HIDE DEF V
  <1>3. \A x \in DOMAIN V : WitnessOK(V[x]) /\ (V[x].valid => s.wit[x].valid)
    BY <1>1, <1>2
  <1>4. s.signer # 0 => s.signer \in DOMAIN V /\ V[s.signer].valid
    BY <1>2, SignerIn
  <1>5. WitChanged(V, s.wit, s.signer)
    BY <1>2, <1>3, <1>4 DEF WitChanged
  <1> QED BY <1>2, <1>5 DEF V

Paid(s, paid, pay) == [s EXCEPT !.paid = paid, !.pay = pay]

LEMMA PaidOK ==
    ASSUME NEW s, NEW low, MineOK(s, low), NEW paid \in Int, NEW pay \in Int
    PROVE  MineOK(Paid(s, paid, pay), low) /\ SameWitnesses(s, Paid(s, paid, pay))
  <1> DEFINE t == Paid(s, paid, pay)
  <1>1. /\ s \in MineStates /\ WitnessesOK(s)
        /\ \A a \in Miners : LockedOK(s.obj[a], s.stats[a], low, s.head)
    BY DEF MineOK
  <1>2. t \in MineStates
    BY Zenon, <1>1 DEF Paid, MineStates
  <1>3. /\ t.head = s.head /\ t.signer = s.signer /\ t.seq = s.seq /\ t.wit = s.wit
        /\ t.obj = s.obj /\ t.stats = s.stats
    BY <1>1 DEF Paid, MineStates
  <1> HIDE DEF t
  <1>4. SameWitnesses(s, t)
    BY <1>3 DEF SameWitnesses
  <1>5. WitnessesOK(t)
    BY <1>1, <1>4, WitnessesSame
  <1>6. MineOK(t, low)
    BY <1>1, <1>2, <1>3, <1>5 DEF MineOK
  <1> QED BY <1>4, <1>6 DEF t

Earning(w, n, last) == [w EXCEPT !.unhandled = w.unhandled + n, !.need = w.need + n, !.last = last]

LEMMA EarningOK ==
    ASSUME NEW w, WitnessOK(w), NEW n \in Int, NEW last \in Nat
    PROVE  WitnessOK(Earning(w, n, last)) /\ (w.valid => Earning(w, n, last).valid)
           /\ (Earning(w, n, last).valid => w.valid)
  <1>1. w \in WitnessObjects /\ IsFiniteSet(DOMAIN w.perPledge)
    BY DEF WitnessOK
  <1>2. w.unhandled \in Int /\ w.need \in Int
    BY WitnessParts
  <1>3. w.unhandled + n \in Int /\ w.need + n \in Int
    BY <1>2
  <1>4. Earning(w, n, last) \in WitnessObjects
    BY Zenon, <1>1, <1>3 DEF Earning, WitnessObjects
  <1>5. Earning(w, n, last).perPledge = w.perPledge
    BY <1>1 DEF Earning, WitnessObjects
  <1>6. Earning(w, n, last).valid = w.valid
    BY <1>1 DEF Earning, WitnessObjects
  <1> HIDE DEF Earning
  <1>7. WitnessOK(Earning(w, n, last))
    BY <1>1, <1>4, <1>5 DEF WitnessOK
  <1> QED BY <1>6, <1>7

LEMMA DepositPayOK ==
    ASSUME NEW s, NEW low, MineOK(s, low), s.signer # 0
    PROVE  /\ MineOK(DepositPay(s, s.signer), low) /\ DepositPay(s, s.signer).head = s.head
           /\ DepositPay(s, s.signer).seq = s.seq
           /\ Current(DepositPay(s, s.signer)) = Current(s)
  <1> DEFINE q == s.signer
             w == s.wit[q]
             bonus == (BlockPay * BonusRate * w.total) \div ((WitnessPledge + w.total) * 100)
             last == IF bonus > 0 /\ w.last = 0 THEN s.head ELSE w.last
             paid == s.paid + BlockPay
             pay == s.pay + BlockPay - bonus
             v == Earning(w, bonus, last)
             t == Paid(s, paid, pay)
             V == WithOne(s.wit, q, v)
             r == WithWit(t, V)
  <1>1. s \in MineStates /\ s.head \in Nat /\ s.pay \in Int /\ s.paid \in Int
    BY DEF MineOK, MineStates
  <1>2. q \in DOMAIN s.wit /\ w.valid
    BY SignerIn
  <1>3. WitnessOK(w)
    BY <1>2, WitnessIn
  <1>4. w.total \in Nat /\ w.last \in Nat
    BY <1>3, WitnessParts
  <1> HIDE DEF w, q
  <1>5. bonus \in Int
    <2>1. /\ BlockPay \in Nat /\ BonusRate \in Nat /\ WitnessPledge \in Nat /\ WitnessPledge > 0
      BY MiningAssumption
    <2>2. BlockPay * BonusRate \in Nat
      BY <2>1
    <2>3. BlockPay * BonusRate * w.total \in Int
      BY <1>4, <2>2
    <2>4. (WitnessPledge + w.total) * 100 \in Nat /\ (WitnessPledge + w.total) * 100 > 0
      BY <1>4, <2>1
    <2> QED BY <2>3, <2>4, Quotient
  <1>6. DepositPay(s, q) = r
    <2>1. [w EXCEPT !.unhandled = @ + bonus, !.need = @ + bonus,
                    !.last = IF bonus > 0 /\ @ = 0 THEN s.head ELSE @] = v
      BY DEF Earning
    <2>2. DepositPay(s, q) = [s EXCEPT !.paid = paid, !.pay = pay, !.wit[q] = v]
      BY Zenon, <2>1 DEF DepositPay, w
    <2> HIDE DEF v, paid, pay, bonus
    <2>3. DepositPay(s, q) = [s EXCEPT !.paid = paid, !.pay = pay, !.wit = V]
      BY <1>1, <2>2 DEF MineStates, WithOne
    <2> HIDE DEF V
    <2>4. r = [s EXCEPT !.paid = paid, !.pay = pay, !.wit = V]
      BY <1>1 DEF MineStates, Paid, WithWit
    <2> QED BY <2>3, <2>4
  <1>7. last \in Nat
    BY <1>1, <1>4
  <1>8. paid \in Int /\ pay \in Int
    BY <1>1, <1>5, MiningAssumption
  <1> HIDE DEF bonus, last, paid, pay
  <1>9. WitnessOK(v) /\ (v.valid => w.valid) /\ v.valid
    <2>1. WitnessOK(v) /\ (v.valid => w.valid) /\ (w.valid => v.valid)
      BY <1>3, <1>5, <1>7, EarningOK
    <2> HIDE DEF v
    <2> QED BY <1>2, <2>1
  <1>10. MineOK(t, low) /\ SameWitnesses(s, t)
    BY <1>8, PaidOK
  <1> HIDE DEF v, t
  <1>11. t.wit = s.wit /\ t.signer = s.signer /\ t.head = s.head /\ t.seq = s.seq
    BY SMTT(30), <1>10 DEF SameWitnesses
  <1>12. /\ WitChanged(V, s.wit, s.signer) /\ V[q] = v /\ DOMAIN V = DOMAIN s.wit
         /\ \A x \in DOMAIN s.wit \ {q} : V[x] = s.wit[x]
    <2>1. (v.valid => s.wit[q].valid) /\ (q = s.signer => v.valid)
      BY <1>9 DEF w
    <2> QED BY <1>2, <1>9, <2>1, OneChanged
  <1> HIDE DEF V
  <1>13. MineOK(r, low) /\ r.head = t.head /\ r.seq = t.seq /\ r.wit = V
    BY <1>10, <1>11, <1>12, WithWitOK
  <1> HIDE DEF r
  <1>14. Current(r) = Current(s)
    <2>1. \A x \in DOMAIN s.wit : V[x].valid <=> s.wit[x].valid
      BY <1>2, <1>9, <1>12 DEF w
    <2> QED BY <1>12, <1>13, <2>1 DEF Current
  <1> QED BY <1>6, <1>11, <1>13, <1>14 DEF q

NextHead(t, signer) == [t EXCEPT !.head = t.head + 1, !.signer = signer]

LEMMA NextHeadOK ==
    ASSUME NEW t, NEW low, MineOK(t, low), NEW signer \in Nat, signer # 0 => signer \in Current(t)
    PROVE  /\ MineOK(NextHead(t, signer), low) /\ NextHead(t, signer).head = t.head + 1
  <1> DEFINE r == NextHead(t, signer)
  <1>1. /\ t \in MineStates /\ WitnessesOK(t) /\ t.head \in Nat
        /\ \A a \in Miners : LockedOK(t.obj[a], t.stats[a], low, t.head)
    BY DEF MineOK, MineStates
  <1>2. r \in MineStates
    <2>1. t.head + 1 \in Nat
      BY <1>1
    <2> QED BY Zenon, <1>1, <2>1 DEF NextHead, MineStates
  <1>3. /\ r.head = t.head + 1 /\ r.signer = signer /\ r.seq = t.seq /\ r.wit = t.wit
        /\ r.obj = t.obj /\ r.stats = t.stats
    BY <1>1 DEF NextHead, MineStates
  <1> HIDE DEF r
  <1>4. Current(r) = Current(t)
    BY <1>3 DEF Current
  <1>5. WitnessesOK(r)
    BY <1>1, <1>3, <1>4 DEF WitnessesOK
  <1>6. ASSUME NEW a \in Miners PROVE LockedOK(r.obj[a], r.stats[a], low, r.head)
    <2> DEFINE f == t.obj[a].balance.releasing
    <2>1. LockedOK(t.obj[a], t.stats[a], low, t.head)
      BY <1>1
    <2>2. DOMAIN f \subseteq Nat /\ \A b \in DOMAIN f : low <= b /\ b <= t.head + MiningDelay
      BY <2>1 DEF LockedOK, PledgeOK
    <2>3. MiningDelay \in Nat
      BY MiningAssumption
    <2>4. \A b \in DOMAIN f : low <= b /\ b <= t.head + 1 + MiningDelay
      BY <1>1, <2>2, <2>3
    <2> QED BY <1>3, <2>1, <2>4 DEF LockedOK
  <1>7. MineOK(r, low)
    BY <1>2, <1>5, <1>6 DEF MineOK
  <1> QED BY <1>3, <1>7 DEF r

LEMMA EndBlockOK ==
    ASSUME MineOK(mine, mine.head), NEW signs \in BOOLEAN, NEW votesLeft \in BOOLEAN,
           MiningEndBlock(signs, votesLeft)
    PROVE  MineOK(mine', mine'.head)
  <1> DEFINE x == IF mine.signer # 0 THEN DepositPay(mine, mine.signer) ELSE mine
             s == ReleasePledges(x)
             r == IF votesLeft THEN s ELSE RemoveResigned(s)
             t == DistributeBonus(r)
             signer == IF signs THEN t.seq ELSE 0
             low == mine.head + 1
  <1>1. mine' = NextHead(t, signer) /\ (signs => Current(mine) # {})
    BY DEF MiningEndBlock, NextHead
  <1>2. MineOK(x, mine.head) /\ x.head = mine.head /\ x.seq = mine.seq /\ Current(x) = Current(mine)
    <2>1. CASE mine.signer # 0
      <3>1. x = DepositPay(mine, mine.signer)
        BY <2>1
      <3> HIDE DEF x
      <3> QED BY <2>1, <3>1, DepositPayOK
    <2>2. CASE mine.signer = 0
      <3>1. x = mine
        BY <2>2
      <3> HIDE DEF x
      <3> QED BY <3>1
    <2> QED BY <2>1, <2>2
  <1> HIDE DEF x
  <1>3. MineOK(s, low) /\ s.head = mine.head /\ s.seq = mine.seq /\ Current(s) = Current(mine)
    <2>1. MineOK(s, x.head + 1) /\ SameWitnesses(x, s)
      BY <1>2, ReleasePledgesOK
    <2> HIDE DEF s
    <2> QED BY <1>2, <2>1 DEF SameWitnesses, Current
  <1> HIDE DEF s
  <1>4. mine.head \in Nat /\ mine.seq \in Nat /\ low \in Nat /\ low <= s.head + MiningDelay
    <2>1. mine.head \in Nat /\ mine.seq \in Nat
      BY DEF MineOK, MineStates
    <2> QED BY <1>3, <2>1, MiningAssumption
  <1> HIDE DEF low
  <1>5. MineOK(r, low) /\ r.head = mine.head /\ r.seq = mine.seq /\ Current(r) = Current(mine)
    <2>1. CASE votesLeft
      <3>1. r = s
        BY <2>1
      <3> HIDE DEF r
      <3> QED BY <1>3, <3>1
    <2>2. CASE ~votesLeft
      <3>1. r = RemoveResigned(s)
        BY <2>2
      <3> HIDE DEF r
      <3> QED BY <1>3, <1>4, <3>1, RemoveResignedOK
    <2> QED BY <2>1, <2>2
  <1> HIDE DEF r
  <1>6. MineOK(t, low) /\ t.head = mine.head /\ t.seq = mine.seq /\ Current(t) = Current(mine)
    BY <1>5, DistributeBonusOK
  <1> HIDE DEF t
  <1>7. signer \in Nat
    BY <1>4, <1>6
  <1>8. signer # 0 => signer \in Current(t)
    <2>1. Current(mine) \subseteq {mine.seq}
      BY DEF MineOK, WitnessesOK
    <2> QED BY <1>1, <1>6, <2>1
  <1> HIDE DEF signer
  <1>9. MineOK(mine', low) /\ mine'.head = t.head + 1
    BY <1>1, <1>6, <1>7, <1>8, NextHeadOK
  <1> QED BY <1>6, <1>9 DEF low

-----------------------------------------------------------------------------
(* The calls. *)

Collected(st, n) == [st EXCEPT !.bonus = st.bonus - n, !.core = st.core + n]

LEMMA BonusCollectOK ==
    ASSUME MineOK(mine, mine.head), NEW a \in Miners, mine.stats[a].bonus > 0,
           PledgeBonusCollect(a, mine.stats[a].bonus)
    PROVE  MineOK(mine', mine'.head)
  <1> DEFINE st == mine.stats[a]
             n == st.bonus
             tt == Collected(st, n)
             stats == [mine.stats EXCEPT ![a] = tt]
  <1>1. mine \in MineStates /\ \A x \in Miners : LockedOK(mine.obj[x], mine.stats[x], mine.head, mine.head)
    BY DEF MineOK
  <1>2. /\ st \in Statistics /\ st.core \in Int /\ st.locked \in Int /\ n \in Int
        /\ mine.stats \in [Miners -> Statistics] /\ mine.obj \in [Miners -> PledgeObjects]
        /\ mine.pay \in Int
    BY <1>1, MineParts
  <1>3. tt \in Statistics /\ tt.core = st.core + n /\ tt.locked = st.locked
    <2>1. st.bonus - n \in Int /\ st.core + n \in Int
      BY <1>2
    <2> QED BY Zenon, <1>2, <2>1 DEF Collected, Statistics
  <1>4. mine' = WithAccounts(mine, stats, mine.obj, mine.pay)
    <2>1. mine' = [mine EXCEPT !.stats = stats]
      BY Zenon, <1>1, <1>2 DEF PledgeBonusCollect, Collected, MineStates, Statistics
    <2> HIDE DEF stats
    <2> QED BY Zenon, <1>1, <2>1 DEF WithAccounts, MineStates
  <1> HIDE DEF tt
  <1>5. LockedOK(mine.obj[a], tt, mine.head, mine.head)
    <2>1. LockedOK(mine.obj[a], st, mine.head, mine.head) /\ n > 0
      BY <1>1
    <2>2. st.locked <= st.core
      BY <2>1 DEF LockedOK
    <2>3. tt.locked <= tt.core
      BY <1>2, <1>3, <2>1, <2>2
    <2> QED BY <1>3, <2>1, <2>3 DEF LockedOK
  <1>6. stats[a] = tt /\ \A x \in Miners \ {a} : stats[x] = mine.stats[x]
    BY <1>2
  <1>7. stats \in [Miners -> Statistics]
    BY <1>2, <1>3
  <1> HIDE DEF stats
  <1>8. \A x \in Miners : LockedOK(mine.obj[x], stats[x], mine.head, mine.head)
    BY <1>1, <1>5, <1>6
  <1>9. MineOK(mine', mine.head) /\ SameWitnesses(mine, mine')
    BY SMTT(30), <1>2, <1>4, <1>7, <1>8, WithAccountsOK
  <1> QED BY <1>9 DEF SameWitnesses

(* A witness object replaced by another one. *)
LEMMA ReplacedOK ==
    ASSUME NEW s, NEW low, MineOK(s, low), NEW q \in DOMAIN s.wit, NEW w, WitnessOK(w),
           w.valid => s.wit[q].valid, q = s.signer => w.valid
    PROVE  /\ MineOK(WithWit(s, WithOne(s.wit, q, w)), low)
           /\ WithWit(s, WithOne(s.wit, q, w)).head = s.head
  <1>1. WitChanged(WithOne(s.wit, q, w), s.wit, s.signer)
    BY OneChanged
  <1> QED BY <1>1, WithWitOK

LEMMA ResignOK ==
    ASSUME MineOK(mine, mine.head), WitnessResign
    PROVE  MineOK(mine', mine'.head)
  <1>1. PICK q \in Current(mine) : q # mine.signer /\ mine' = [mine EXCEPT !.wit[q].valid = FALSE]
    BY Zenon DEF WitnessResign
  <1> DEFINE w == [mine.wit[q] EXCEPT !.valid = FALSE]
  <1>2. q \in DOMAIN mine.wit /\ mine.wit[q].valid
    BY DEF Current
  <1>3. mine \in MineStates
    BY DEF MineOK
  <1>4. mine' = WithWit(mine, WithOne(mine.wit, q, w))
    BY <1>1, <1>3 DEF WithWit, WithOne, MineStates
  <1>5. WitnessOK(mine.wit[q])
    BY <1>2, WitnessIn
  <1>6. WitnessOK(w)
    <2>1. mine.wit[q] \in WitnessObjects /\ IsFiniteSet(DOMAIN mine.wit[q].perPledge)
      BY <1>5 DEF WitnessOK
    <2>2. w \in WitnessObjects /\ w.perPledge = mine.wit[q].perPledge
      BY Zenon, <2>1 DEF WitnessObjects
    <2> HIDE DEF w
    <2> QED BY <2>1, <2>2 DEF WitnessOK
  <1> HIDE DEF w
  <1>7. (w.valid => mine.wit[q].valid) /\ (q = mine.signer => w.valid)
    BY <1>1, <1>2
  <1>8. MineOK(mine', mine.head) /\ mine'.head = mine.head
    BY <1>2, <1>4, <1>6, <1>7, ReplacedOK
  <1> QED BY <1>8

LEMMA NewWitnessOK == WitnessOK(NewWitness) /\ NewWitness.valid
  <1>1. NewWitness \in WitnessObjects
    BY NothingIn DEF NewWitness, WitnessObjects
  <1>2. NewWitness.perPledge = NothingReleasing /\ NewWitness.valid
    BY DEF NewWitness
  <1> QED BY <1>1, <1>2, NothingIn DEF WitnessOK

LEMMA CreateOK ==
    ASSUME MineOK(mine, mine.head), WitnessCreate
    PROVE  MineOK(mine', mine'.head)
  <1> DEFINE n == mine.seq + 1
             W == mine.wit
             V == [q \in DOMAIN W \union {n} |-> IF q = n THEN NewWitness ELSE W[q]]
  <1>1. /\ mine \in MineStates /\ WitnessesOK(mine)
        /\ \A a \in Miners : LockedOK(mine.obj[a], mine.stats[a], mine.head, mine.head)
    BY DEF MineOK
  <1>2. mine.seq \in Nat /\ n \in Nat
    BY <1>1 DEF MineStates
  <1>3. /\ \A q \in DOMAIN W : WitnessOK(W[q])
        /\ DOMAIN W \subseteq Nat
    BY WitnessIn
  <1>4. DOMAIN W \subseteq 1..mine.seq
    BY <1>1 DEF WitnessesOK
  <1>5. n \notin DOMAIN W
    BY <1>2, <1>4
  <1>6. \A q \in DOMAIN W : ~W[q].valid
    BY DEF WitnessCreate, Current
  <1>7. mine.signer = 0
    BY SignerIn DEF WitnessCreate
  <1>8. mine' = [mine EXCEPT !.seq = n, !.wit = V]
    BY DEF WitnessCreate
  <1>9. /\ DOMAIN V = DOMAIN W \union {n} /\ V[n] = NewWitness
        /\ \A q \in DOMAIN W : V[q] = W[q]
    BY <1>5
  <1>10. V \in [DOMAIN W \union {n} -> WitnessObjects]
    <2>1. NewWitness \in WitnessObjects /\ \A q \in DOMAIN W : W[q] \in WitnessObjects
      BY <1>3, NewWitnessOK DEF WitnessOK
    <2> QED BY <2>1
  <1> HIDE DEF V, n
  <1>11. V \in Entries(WitnessObjects)
    <2>1. DOMAIN W \union {n} \in SUBSET Nat
      BY <1>2, <1>3
    <2> QED BY <1>10, <2>1 DEF Entries
  <1> HIDE DEF W
  <1>12. mine' \in MineStates
    BY Zenon, <1>1, <1>2, <1>8, <1>11 DEF MineStates
  <1>13. /\ mine'.head = mine.head /\ mine'.signer = mine.signer /\ mine'.seq = n /\ mine'.wit = V
         /\ mine'.obj = mine.obj /\ mine'.stats = mine.stats
    BY <1>1, <1>8 DEF MineStates
  <1>14. WitnessesOK(mine')
    <2>1. DOMAIN V \subseteq 1..n
      BY <1>2, <1>4, <1>9 DEF W, n
    <2>2. \A q \in DOMAIN V : IsFiniteSet(DOMAIN V[q].perPledge)
      BY <1>3, <1>9, NewWitnessOK DEF WitnessOK
    <2>3. \A q \in DOMAIN V : V[q].valid => q = n
      BY <1>6, <1>9
    <2>4. Current(mine') \subseteq {n}
      BY <1>13, <2>3 DEF Current
    <2>5. /\ DOMAIN mine'.wit \subseteq 1..mine'.seq
          /\ \A q \in DOMAIN mine'.wit : IsFiniteSet(DOMAIN mine'.wit[q].perPledge)
          /\ mine'.signer = 0 /\ Current(mine') \subseteq {mine'.seq}
      BY <1>7, <1>13, <2>1, <2>2, <2>4
    <2> QED BY <2>5 DEF WitnessesOK
  <1>15. \A a \in Miners : LockedOK(mine'.obj[a], mine'.stats[a], mine'.head, mine'.head)
    BY <1>1, <1>13
  <1> QED BY <1>12, <1>14, <1>15 DEF MineOK

Stopped(w, head) == [Cleared(w, head) EXCEPT !.can = FALSE, !.total = 0]

LEMMA StoppedOK ==
    ASSUME NEW w, WitnessOK(w), NEW head \in Nat
    PROVE  /\ WitnessOK(Stopped(w, head)) /\ (Stopped(w, head).valid => w.valid)
           /\ (w.valid => Stopped(w, head).valid)
  <1> DEFINE x == Cleared(w, head)
             y == Stopped(w, head)
  <1>1. WitnessOK(x) /\ (x.valid => w.valid) /\ (w.valid => x.valid)
    BY ClearedOK
  <1>2. y = [x EXCEPT !.can = FALSE, !.total = 0]
    BY DEF Stopped
  <1> HIDE DEF x, y
  <1>3. x \in WitnessObjects /\ IsFiniteSet(DOMAIN x.perPledge)
    BY <1>1 DEF WitnessOK
  <1>4. y \in WitnessObjects
    BY Zenon, <1>2, <1>3 DEF WitnessObjects
  <1>5. y.perPledge = x.perPledge /\ y.valid = x.valid
    BY <1>2, <1>3 DEF WitnessObjects
  <1>6. WitnessOK(y)
    BY <1>3, <1>4, <1>5 DEF WitnessOK
  <1> QED BY <1>1, <1>5, <1>6 DEF y

LEMMA CanPledgeOK ==
    ASSUME MineOK(mine, mine.head), NEW can \in BOOLEAN, WitnessCanPledge(can)
    PROVE  MineOK(mine', mine'.head)
  <1>1. PICK q \in Current(mine) :
            mine' = IF can THEN [mine EXCEPT !.wit[q].can = TRUE]
                    ELSE [ResignMining(CreditAll(mine, mine.wit[q])) EXCEPT
                             !.wit[q] = Stopped(mine.wit[q], mine.head)]
    BY Zenon DEF WitnessCanPledge, Stopped
  <1>2. q \in DOMAIN mine.wit /\ mine.wit[q].valid
    BY DEF Current
  <1>3. mine \in MineStates /\ mine.head \in Nat
    BY DEF MineOK, MineStates
  <1>4. WitnessOK(mine.wit[q])
    BY <1>2, WitnessIn
  <1>5. CASE can
    <2> DEFINE w == [mine.wit[q] EXCEPT !.can = TRUE]
    <2>1. mine' = WithWit(mine, WithOne(mine.wit, q, w))
      BY <1>1, <1>3, <1>5 DEF WithWit, WithOne, MineStates
    <2>2. mine.wit[q] \in WitnessObjects /\ IsFiniteSet(DOMAIN mine.wit[q].perPledge)
      BY <1>4 DEF WitnessOK
    <2>3. w \in WitnessObjects /\ w.perPledge = mine.wit[q].perPledge
      BY Zenon, <2>2 DEF WitnessObjects
    <2>4. w.valid = mine.wit[q].valid
      BY <2>2 DEF WitnessObjects
    <2> HIDE DEF w
    <2>5. WitnessOK(w)
      BY <2>2, <2>3 DEF WitnessOK
    <2>6. (w.valid => mine.wit[q].valid) /\ (q = mine.signer => w.valid)
      BY <1>2, <2>4
    <2>7. MineOK(mine', mine.head) /\ mine'.head = mine.head
      BY <1>2, <2>1, <2>5, <2>6, ReplacedOK
    <2> QED BY <2>7
  <1>6. CASE ~can
    <2> DEFINE x == CreditAll(mine, mine.wit[q])
               s == ResignMining(x)
               w == Stopped(mine.wit[q], mine.head)
    <2>1. mine' = [s EXCEPT !.wit[q] = w]
      BY <1>1, <1>6
    <2>2. MineOK(x, mine.head) /\ SameWitnesses(mine, x)
      BY <1>4, CreditAllOK
    <2> HIDE DEF x
    <2>3. mine.head <= x.head + MiningDelay
      BY <1>3, <2>2, MiningAssumption DEF SameWitnesses
    <2>4. MineOK(s, mine.head) /\ SameWitnesses(x, s)
      BY <1>3, <2>2, <2>3, ResignMiningOK
    <2> HIDE DEF s
    <2>5. s.wit = mine.wit /\ s.signer = mine.signer /\ s.head = mine.head
      BY <2>2, <2>4 DEF SameWitnesses
    <2>6. WitnessOK(w) /\ (w.valid => mine.wit[q].valid) /\ (mine.wit[q].valid => w.valid)
      BY <1>3, <1>4, StoppedOK
    <2> HIDE DEF w
    <2>7. mine' = WithWit(s, WithOne(s.wit, q, w))
      <3>1. s \in MineStates
        BY <2>4 DEF MineOK
      <3> QED BY <2>1, <3>1 DEF WithWit, WithOne, MineStates
    <2>8. q \in DOMAIN s.wit /\ (w.valid => s.wit[q].valid) /\ (q = s.signer => w.valid)
      BY SMTT(30), <1>2, <2>5, <2>6
    <2>9. MineOK(mine', mine.head) /\ mine'.head = s.head
      BY <2>4, <2>6, <2>7, <2>8, ReplacedOK
    <2> QED BY <2>5, <2>9
  <1> QED BY <1>5, <1>6

LEMMA ShareUnhandledOK ==
    ASSUME NEW w, WitnessOK(w), NEW head \in Nat
    PROVE  WitnessOK(ShareUnhandled(w, head)) /\ ShareUnhandled(w, head).valid = w.valid
  <1> DEFINE f == w.perPledge
             g == IF head \in DOMAIN f THEN f ELSE WithEntry(f, head, PerPledge(w))
             x == [w EXCEPT !.unhandled = 0, !.perPledge = g]
  <1>1. CASE ~Unshared(w)
    BY <1>1 DEF ShareUnhandled
  <1>2. CASE Unshared(w)
    <2>1. ShareUnhandled(w, head) = x
      BY <1>2 DEF ShareUnhandled
    <2>2. w \in WitnessObjects /\ IsFiniteSet(DOMAIN f)
      BY DEF WitnessOK
    <2>3. DOMAIN f \subseteq Nat /\ f \in [DOMAIN f -> Int]
      BY WitnessParts
    <2>4. PerPledge(w) \in Int
      BY <1>2, PerPledgeType
    <2> HIDE DEF f
    <2>5. g \in Entries(Int) /\ IsFiniteSet(DOMAIN g)
      <3>1. CASE head \in DOMAIN f
        BY <2>2, <2>3, <3>1 DEF Entries
      <3>2. CASE head \notin DOMAIN f
        <4> DEFINE e == WithEntry(f, head, PerPledge(w))
                   D == DOMAIN f \union {head}
        <4>1. g = e
          BY <3>2
        <4>2. e \in [D -> Int]
          BY <2>3, <2>4 DEF WithEntry
        <4> HIDE DEF e
        <4>3. D \in SUBSET Nat /\ DOMAIN e = D
          BY <2>3, <4>2
        <4>4. IsFiniteSet(D)
          BY <2>2, FS_AddElement
        <4> HIDE DEF D
        <4>5. e \in Entries(Int)
          BY <4>2, <4>3 DEF Entries
        <4> HIDE DEF g
        <4> QED BY <4>1, <4>3, <4>4, <4>5
      <3> QED BY <3>1, <3>2
    <2> HIDE DEF g
    <2>6. x \in WitnessObjects /\ x.perPledge = g
      <3>1. x = [k \in WitnessFields |-> x[k]]
        BY Zenon, <2>2 DEF WitnessObjects, WitnessFields
      <3>2. /\ x.valid \in BOOLEAN /\ x.can \in BOOLEAN /\ x.total \in Nat /\ x.need \in Int
            /\ x.already \in Int /\ x.last \in Nat
        BY <2>2 DEF WitnessObjects
      <3>3. x.perPledge = g /\ x.unhandled = 0
        BY <2>2 DEF WitnessObjects
      <3> HIDE DEF x
      <3>4. x \in WitnessObjects
        BY <2>5, <3>1, <3>2, <3>3, WitnessShape
      <3> QED BY <3>3, <3>4
    <2>7. x.valid = w.valid
      BY <2>2 DEF WitnessObjects
    <2> HIDE DEF x
    <2>8. WitnessOK(x)
      BY <2>5, <2>6 DEF WitnessOK
    <2> QED BY <2>1, <2>7, <2>8
  <1> QED BY <1>1, <1>2

Retotalled(w, sent, more) ==
    [w EXCEPT !.already = w.already + sent, !.total = (w.total + more) % TwoTo64]

LEMMA RetotalledOK ==
    ASSUME NEW w, WitnessOK(w), NEW sent \in Int, NEW more \in Int
    PROVE  /\ WitnessOK(Retotalled(w, sent, more)) /\ Retotalled(w, sent, more).valid = w.valid
  <1> DEFINE i == w.already + sent
             n == (w.total + more) % TwoTo64
             x == [w EXCEPT !.already = i, !.total = n]
  <1>1. w \in WitnessObjects /\ IsFiniteSet(DOMAIN w.perPledge) /\ w.total \in Nat /\ w.already \in Int
    BY WitnessParts DEF WitnessOK
  <1>2. i \in Int
    BY <1>1
  <1>3. n \in Nat
    <2>1. TwoTo64 \in Nat \ {0} /\ w.total + more \in Int
      BY <1>1, MiningAssumption
    <2> QED BY <2>1
  <1>4. Retotalled(w, sent, more) = x
    BY DEF Retotalled
  <1> HIDE DEF i, n
  <1>5. x \in WitnessObjects /\ x.perPledge = w.perPledge
    BY Zenon, <1>1, <1>2, <1>3 DEF WitnessObjects
  <1>6. x.valid = w.valid
    BY <1>1 DEF WitnessObjects
  <1> HIDE DEF x
  <1> QED BY <1>1, <1>4, <1>5, <1>6 DEF WitnessOK

NothingPledged(w) == [w EXCEPT !.need = 0, !.already = 0, !.perPledge = NothingReleasing]

LEMMA NothingPledgedOK ==
    ASSUME NEW w, WitnessOK(w)
    PROVE  WitnessOK(NothingPledged(w)) /\ NothingPledged(w).valid = w.valid
  <1> DEFINE x == NothingPledged(w)
  <1>1. w \in WitnessObjects /\ NothingReleasing \in Entries(Int)
    BY NothingIn DEF WitnessOK
  <1>2. x \in WitnessObjects
    <2>1. x = [k \in WitnessFields |-> x[k]]
      BY Zenon, <1>1 DEF NothingPledged, WitnessObjects, WitnessFields
    <2>2. /\ x.valid \in BOOLEAN /\ x.can \in BOOLEAN /\ x.total \in Nat /\ x.unhandled \in Int
          /\ x.last \in Nat
      BY <1>1 DEF NothingPledged, WitnessObjects
    <2>3. x.perPledge = NothingReleasing /\ x.need = 0 /\ x.already = 0
      BY <1>1 DEF NothingPledged, WitnessObjects
    <2> HIDE DEF x
    <2> QED BY <1>1, <2>1, <2>2, <2>3, WitnessShape
  <1>3. x.perPledge = NothingReleasing
    BY <1>1 DEF NothingPledged, WitnessObjects
  <1>4. x.valid = w.valid
    BY <1>1 DEF NothingPledged, WitnessObjects
  <1> HIDE DEF x
  <1>5. WitnessOK(x)
    BY SMTT(30), <1>2, <1>3, NothingIn DEF WitnessOK
  <1> QED BY <1>4, <1>5 DEF x

LEMMA CreditShareOK ==
    ASSUME NEW s, NEW low, MineOK(s, low), NEW w, WitnessOK(w), NEW a \in Miners
    PROVE  /\ MineOK(CreditShare(s, w, a), low) /\ SameWitnesses(s, CreditShare(s, w, a))
           /\ SameLocks(s.obj[a], s.stats[a], CreditShare(s, w, a).obj[a],
                        CreditShare(s, w, a).stats[a])
  <1> DEFINE t == CreditShare(s, w, a)
  <1>1. /\ s \in MineStates /\ WitnessesOK(s)
        /\ \A x \in Miners : LockedOK(s.obj[x], s.stats[x], low, s.head)
    BY SMTT(30) DEF MineOK
  <1>2. /\ SameLocks(s.obj[a], s.stats[a], t.obj[a], t.stats[a]) /\ t \in MineStates
        /\ t.head = s.head /\ t.signer = s.signer /\ t.seq = s.seq /\ t.wit = s.wit
        /\ \A x \in Miners \ {a} : t.obj[x] = s.obj[x] /\ t.stats[x] = s.stats[x]
    BY <1>1, CreditShareIs
  <1> HIDE DEF t
  <1>3. SameWitnesses(s, t)
    BY <1>2 DEF SameWitnesses
  <1>4. WitnessesOK(t)
    BY <1>1, <1>3, WitnessesSame
  <1>5. LockedOK(t.obj[a], t.stats[a], low, s.head)
    BY <1>1, <1>2, LockedSame
  <1>6. \A x \in Miners : LockedOK(t.obj[x], t.stats[x], low, t.head)
    BY <1>1, <1>2, <1>5
  <1>7. MineOK(t, low)
    BY <1>2, <1>4, <1>6 DEF MineOK
  <1> QED BY <1>2, <1>3, <1>7 DEF t

(* A pledge that is changed or made. *)
Repledged(o, new, head) ==
    IF o.on THEN WithBalance(o, UpdatePledge(o.balance, new, head + MiningDelay))
    ELSE [on |-> TRUE, last |-> head, balance |-> NewPledge(new)]
Locked(st, n) == [st EXCEPT !.locked = st.locked + n]
Affords(o, st, new) ==
    \/ new > 0 /\ st.core - st.locked + TotalUnreleased(o.balance) >= new
    \/ new = 0 /\ o.on

LEMMA RepledgedLocked ==
    ASSUME NEW o \in PledgeObjects, NEW st \in Statistics, NEW head \in Nat, NEW new \in Nat,
           LockedOK(o, st, head, head), Affords(o, st, new)
    PROVE  /\ Repledged(o, new, head) \in PledgeObjects
           /\ Locked(st, PledgeDelta(o.balance, new)) \in Statistics
           /\ LockedOK(Repledged(o, new, head), Locked(st, PledgeDelta(o.balance, new)), head, head)
  <1> DEFINE p == o.balance
             n == PledgeDelta(p, new)
             r == Repledged(o, new, head)
             tt == Locked(st, n)
             at == head + MiningDelay
  <1>1. /\ PledgeOK(p) /\ \A b \in DOMAIN p.releasing : head <= b /\ b <= at
        /\ st.locked = TotalUnreleased(p) /\ st.locked <= st.core
        /\ ~o.on => TotalUnreleased(p) = 0
    BY DEF LockedOK
  <1>2. TotalUnreleased(p) \in Nat
    BY <1>1 DEF PledgeOK, TotalUnreleased
  <1>3. n = IF 0 >= new - TotalUnreleased(p) THEN 0 ELSE new - TotalUnreleased(p)
    <2>1. new - TotalUnreleased(p) \in Int
      BY <1>2
    <2> QED BY <2>1, MaxPair DEF PledgeDelta
  <1>4. n \in Nat
    BY <1>2, <1>3
  <1>5. at \in Nat /\ head <= at /\ at <= head + MiningDelay
    BY MiningAssumption
  <1>6. (new > 0 /\ st.core - st.locked + TotalUnreleased(p) >= new) \/ new = 0
    BY DEF Affords
  <1>7. o.on \/ new > 0
    BY DEF Affords
  <1> HIDE DEF n
  <1>8. /\ tt \in Statistics /\ tt.locked = st.locked + n /\ tt.core = st.core
        /\ st.locked \in Int /\ st.core \in Int
    <2>1. st.locked \in Int /\ st.core \in Int
      BY DEF Statistics
    <2>2. st.locked + n \in Int
      BY <1>4, <2>1
    <2> QED BY <2>1, <2>2 DEF Locked, Statistics
  <1> HIDE DEF tt, p
  <1>9. tt.locked <= tt.core
    BY <1>1, <1>2, <1>3, <1>4, <1>6, <1>8
  <1>10. CASE o.on
    <2> DEFINE q == UpdatePledge(p, new, at)
    <2>1. r = WithBalance(o, q)
      BY <1>10 DEF Repledged, p
    <2>2. \A b \in DOMAIN p.releasing : b <= at
      BY <1>1
    <2>3. /\ PledgeOK(q) /\ TotalUnreleased(q) = TotalUnreleased(p) + PledgeDelta(p, new)
          /\ DOMAIN q.releasing \subseteq DOMAIN p.releasing \union {at}
      BY SMTT(30), <1>1, <1>5, <2>2, UpdatePledgeOK
    <2> HIDE DEF q, at
    <2>4. r \in PledgeObjects /\ r.balance = q /\ r.on = o.on
      BY <2>1, <2>3, WithBalanceIs
    <2> HIDE DEF r
    <2>5. tt.locked = TotalUnreleased(q)
      BY <1>1, <1>8, <2>3 DEF n
    <2>6. \A b \in DOMAIN q.releasing : head <= b /\ b <= head + MiningDelay
      BY <1>1, <1>5, <2>3 DEF at
    <2>7. LockedOK(r, tt, head, head)
      BY SMTT(30), <1>9, <1>10, <2>3, <2>4, <2>5, <2>6 DEF LockedOK
    <2> QED BY <1>8, <2>4, <2>7 DEF r, tt, n, p
  <1>11. CASE ~o.on
    <2> DEFINE q == NewPledge(new)
    <2>1. r = [on |-> TRUE, last |-> head, balance |-> q]
      BY <1>11 DEF Repledged
    <2>2. PledgeOK(q) /\ TotalUnreleased(q) = new /\ DOMAIN q.releasing = {}
      BY NewPledgeOK
    <2>3. TotalUnreleased(p) = 0 /\ n = new
      BY <1>1, <1>3, <1>7, <1>11
    <2> HIDE DEF q
    <2>4. r \in PledgeObjects /\ r.balance = q /\ r.on = TRUE
      <3>1. q \in Balances
        BY <2>2, BalanceIn
      <3> QED BY <2>1, <3>1 DEF PledgeObjects
    <2> HIDE DEF r
    <2>5. tt.locked = TotalUnreleased(q)
      BY <1>1, <1>8, <2>2, <2>3
    <2>6. LockedOK(r, tt, head, head)
      BY SMTT(30), <1>9, <2>2, <2>4, <2>5 DEF LockedOK
    <2> QED BY <1>8, <2>4, <2>6 DEF r, tt, n, p
  <1> QED BY <1>10, <1>11

LEMMA AccountOK ==
    ASSUME NEW s, NEW low, MineOK(s, low), NEW a \in Miners, NEW o \in PledgeObjects,
           NEW st \in Statistics, LockedOK(o, st, low, s.head), NEW pay \in Int
    PROVE  /\ MineOK(WithAccounts(s, [s.stats EXCEPT ![a] = st], [s.obj EXCEPT ![a] = o], pay), low)
           /\ SameWitnesses(s, WithAccounts(s, [s.stats EXCEPT ![a] = st],
                                            [s.obj EXCEPT ![a] = o], pay))
  <1> DEFINE S == [s.stats EXCEPT ![a] = st]
             O == [s.obj EXCEPT ![a] = o]
  <1>1. s \in MineStates /\ \A x \in Miners : LockedOK(s.obj[x], s.stats[x], low, s.head)
    BY DEF MineOK
  <1>2. s.stats \in [Miners -> Statistics] /\ s.obj \in [Miners -> PledgeObjects]
    BY <1>1, MineParts
  <1>3. /\ S \in [Miners -> Statistics] /\ O \in [Miners -> PledgeObjects]
        /\ S[a] = st /\ O[a] = o
        /\ \A x \in Miners \ {a} : S[x] = s.stats[x] /\ O[x] = s.obj[x]
    BY <1>2
  <1> HIDE DEF S, O
  <1>4. \A x \in Miners : LockedOK(O[x], S[x], low, s.head)
    BY SMTT(30), <1>1, <1>3
  <1>5. MineOK(WithAccounts(s, S, O, pay), low) /\ SameWitnesses(s, WithAccounts(s, S, O, pay))
    BY <1>3, <1>4, WithAccountsOK
  <1> QED BY <1>5 DEF S, O

LEMMA PledgeUpdateOK ==
    ASSUME MineOK(mine, mine.head), NEW a \in Miners, NEW new \in MiningAmounts,
           PledgeMiningUpdate(a, new)
    PROVE  MineOK(mine', mine'.head)
  <1> DEFINE o == mine.obj[a]
             st == mine.stats[a]
             head == mine.head
             S(w) == IF o.on THEN CreditShare(mine, w, a) ELSE mine
             Sent(w) == IF o.on /\ o.balance.pledge > 0 THEN Share(mine, w, a) ELSE 0
             Updated(s) == IF o.on
                           THEN [s.obj[a] EXCEPT !.balance = UpdatePledge(@, new, s.head + MiningDelay)]
                           ELSE [on |-> TRUE, last |-> s.head, balance |-> NewPledge(new)]
             T(s) == [s EXCEPT !.obj[a] = Updated(s), !.stats[a].locked = @ + PledgeDelta(o.balance, new)]
             V(w) == [ShareUnhandled(w, S(w).head) EXCEPT
                         !.already = @ + Sent(w), !.total = (@ + new - o.balance.pledge) % TwoTo64]
             Rest(v) == IF v.need > v.already THEN v.need - v.already ELSE 0
  <1>1. PICK q \in Current(mine) :
            /\ mine.wit[q].can
            /\ \/ /\ new > 0 /\ (o.on => new # o.balance.pledge)
                  /\ st.core - st.locked + TotalUnreleased(o.balance) >= new
               \/ new = 0 /\ o.on /\ o.balance.pledge > 0
            /\ mine' = IF V(mine.wit[q]).total # 0
                       THEN [T(S(mine.wit[q])) EXCEPT !.wit[q] = V(mine.wit[q])]
                       ELSE [T(S(mine.wit[q])) EXCEPT !.pay = @ + Rest(V(mine.wit[q])),
                                !.wit[q] = [V(mine.wit[q]) EXCEPT !.need = 0, !.already = 0,
                                                                  !.perPledge = NothingReleasing]]
    BY Zenon DEF PledgeMiningUpdate
  <1> DEFINE w == mine.wit[q]
             s == S(w)
             n == PledgeDelta(o.balance, new)
             x == ShareUnhandled(w, s.head)
             sent == Sent(w)
             v == Retotalled(x, sent, new - o.balance.pledge)
             t == WithAccounts(s, [s.stats EXCEPT ![a] = Locked(s.stats[a], n)],
                               [s.obj EXCEPT ![a] = Repledged(s.obj[a], new, head)], s.pay)
  <1>2. q \in DOMAIN mine.wit /\ w.valid
    BY DEF Current
  <1>3. WitnessOK(w)
    BY <1>2, WitnessIn
  <1>4. /\ mine \in MineStates /\ head \in Nat /\ new \in Nat /\ o \in PledgeObjects
        /\ o.balance.pledge \in Nat /\ st \in Statistics
    BY MineParts, MiningAssumption DEF MineOK
  <1>5. LockedOK(o, st, head, head)
    BY DEF MineOK
  <1>6. Affords(o, st, new)
    BY Zenon, <1>1 DEF Affords
  <1>7. MineOK(s, head) /\ SameWitnesses(mine, s) /\ SameLocks(o, st, s.obj[a], s.stats[a])
    <2>1. CASE o.on
      <3>1. s = CreditShare(mine, w, a)
        BY <2>1
      <3> HIDE DEF s
      <3> QED BY <1>3, <3>1, CreditShareOK
    <2>2. CASE ~o.on
      <3>1. s = mine
        BY <2>2
      <3> HIDE DEF s
      <3> QED BY <1>4, <3>1 DEF SameLocks, SameWitnesses
    <2> QED BY ZenonT(30), <2>1, <2>2
  <1>8. sent \in Int
    <2>1. Share(mine, w, a) \in Int
      BY SMTT(30), <1>3, <1>4, ShareType
    <2> QED BY <2>1
  <1> HIDE DEF w, s, sent, S, Sent
  <1>9. /\ s.head = head /\ s.wit = mine.wit /\ s.signer = mine.signer
        /\ s.obj[a] \in PledgeObjects /\ s.stats[a] \in Statistics
        /\ s.obj[a].on = o.on /\ s.obj[a].balance = o.balance
        /\ s.stats[a].core = st.core /\ s.stats[a].locked = st.locked
    BY <1>7 DEF SameWitnesses, SameLocks
  <1>10. s \in MineStates /\ s.pay \in Int
    BY <1>7 DEF MineOK, MineStates
  <1>11. T(s) = t
    <2> DEFINE p == Repledged(s.obj[a], new, head)
    <2>1. Updated(s) = p
      BY <1>9 DEF Repledged, WithBalance
    <2>2. T(s) = [s EXCEPT !.obj[a] = p, !.stats[a].locked = @ + n]
      BY Zenon, <2>1
    <2> HIDE DEF p, Updated, T, n
    <2>3. T(s) = [s EXCEPT !.obj = [s.obj EXCEPT ![a] = p],
                           !.stats = [s.stats EXCEPT ![a] = Locked(s.stats[a], n)]]
      BY <1>10, <2>2 DEF Locked, MineStates
    <2> DEFINE O == [s.obj EXCEPT ![a] = p]
               Z == [s.stats EXCEPT ![a] = Locked(s.stats[a], n)]
    <2>4. T(s) = [s EXCEPT !.obj = O, !.stats = Z] /\ t = WithAccounts(s, Z, O, s.pay)
      BY <2>3 DEF p
    <2> HIDE DEF O, Z
    <2> QED BY Zenon, <1>10, <2>4 DEF WithAccounts, MineStates
  <1> HIDE DEF Updated, T
  <1>12. WitnessOK(x) /\ x.valid = w.valid
    BY Zenon, <1>3, <1>4, <1>9, ShareUnhandledOK
  <1>13. V(w) = v
    <2>1. V(w) = [x EXCEPT !.already = @ + sent, !.total = (@ + new - o.balance.pledge) % TwoTo64]
      BY DEF s, sent
    <2>2. x.total \in Nat
      BY <1>12, WitnessParts
    <2> HIDE DEF V, x, o
    <2>3. x.total + new - o.balance.pledge = x.total + (new - o.balance.pledge)
      BY SMTT(30), <1>4, <2>2
    <2> QED BY <2>1, <2>3 DEF Retotalled
  <1> HIDE DEF V, x
  <1>14. WitnessOK(v) /\ v.valid = w.valid
    <2>1. new - o.balance.pledge \in Int
      BY <1>4
    <2>2. WitnessOK(v) /\ v.valid = x.valid
      BY SMTT(30), <1>8, <1>12, <2>1, RetotalledOK
    <2> QED BY <1>12, <2>2
  <1> HIDE DEF v
  <1>15. MineOK(t, head) /\ SameWitnesses(s, t)
    <2> DEFINE p == Repledged(s.obj[a], new, head)
               z == Locked(s.stats[a], n)
    <2>1. LockedOK(s.obj[a], s.stats[a], head, head)
      BY SMTT(30), <1>5, <1>7, LockedSame
    <2>2. Affords(s.obj[a], s.stats[a], new)
      BY SMTT(30), <1>6, <1>9 DEF Affords
    <2>3. n = PledgeDelta(s.obj[a].balance, new)
      BY SMTT(30), <1>9
    <2>4. p \in PledgeObjects /\ z \in Statistics /\ LockedOK(p, z, head, head)
      BY ZenonT(30), <1>4, <1>9, <2>1, <2>2, <2>3, RepledgedLocked
    <2>5. LockedOK(p, z, head, s.head)
      BY ZenonT(30), <1>9, <2>4
    <2> HIDE DEF p, z
    <2>6. t = WithAccounts(s, [s.stats EXCEPT ![a] = z], [s.obj EXCEPT ![a] = p], s.pay)
      BY SMTT(30) DEF p, z
    <2> HIDE DEF t
    <2> QED BY SMTT(30), <1>7, <1>10, <2>4, <2>5, <2>6, AccountOK
  <1> HIDE DEF t
  <1>16. t.head = head /\ t.wit = mine.wit /\ t.signer = mine.signer /\ t \in MineStates
    BY SMTT(30), <1>9, <1>15 DEF SameWitnesses, MineOK
  <1>17. CASE v.total # 0
    <2>1. mine' = [t EXCEPT !.wit[q] = v]
      BY <1>1, <1>11, <1>13, <1>17 DEF s, w
    <2>2. mine' = WithWit(t, WithOne(t.wit, q, v))
      BY <1>16, <2>1 DEF WithWit, WithOne, MineStates
    <2>3. q \in DOMAIN t.wit /\ (v.valid => t.wit[q].valid) /\ (q = t.signer => v.valid)
      BY SMTT(30), <1>2, <1>14, <1>16 DEF w
    <2>4. MineOK(mine', head) /\ mine'.head = t.head
      BY SMTT(30), <1>14, <1>15, <2>2, <2>3, ReplacedOK
    <2> QED BY <1>16, <2>4
  <1>18. CASE v.total = 0
    <2> DEFINE y == NothingPledged(v)
               pay == t.pay + Rest(v)
               r == Paid(t, t.paid, pay)
    <2>1. mine' = [t EXCEPT !.pay = pay, !.wit[q] = y]
      BY <1>1, <1>11, <1>13, <1>18 DEF s, w, NothingPledged
    <2>2. t.pay \in Int /\ t.paid \in Int
      BY <1>16 DEF MineStates
    <2>3. pay \in Int
      <3>1. v.need \in Int /\ v.already \in Int
        BY <1>14, WitnessParts
      <3> QED BY <2>2, <3>1
    <2> HIDE DEF pay
    <2>4. WitnessOK(y) /\ y.valid = v.valid
      BY <1>14, NothingPledgedOK
    <2> HIDE DEF y
    <2>5. MineOK(r, head) /\ SameWitnesses(t, r)
      BY <1>15, <2>2, <2>3, PaidOK
    <2>6. mine' = WithWit(r, WithOne(r.wit, q, y))
      <3>1. r.wit = t.wit
        BY <2>5 DEF SameWitnesses
      <3>2. mine' = [t EXCEPT !.pay = pay, !.wit = WithOne(t.wit, q, y)]
        BY Zenon, <1>16, <2>1 DEF WithOne, MineStates
      <3> DEFINE W == WithOne(t.wit, q, y)
      <3> HIDE DEF W
      <3>3. [t EXCEPT !.pay = pay, !.wit = W] = WithWit(r, W)
        BY Zenon, <1>16 DEF WithWit, Paid, MineStates
      <3> QED BY <3>1, <3>2, <3>3 DEF W
    <2> HIDE DEF r
    <2>7. r.wit = mine.wit /\ r.signer = mine.signer /\ r.head = head
      BY <1>16, <2>5 DEF SameWitnesses
    <2>8. q \in DOMAIN r.wit /\ (y.valid => r.wit[q].valid) /\ (q = r.signer => y.valid)
      BY SMTT(30), <1>2, <1>14, <2>4, <2>7 DEF w
    <2>9. MineOK(mine', head) /\ mine'.head = r.head
      BY <2>4, <2>5, <2>6, <2>8, ReplacedOK
    <2> QED BY <2>7, <2>9
  <1> QED BY <1>17, <1>18


-----------------------------------------------------------------------------
(* The inductive invariant: an entry that is due now is released at the    *)
(* end of this block.                                                      *)
MineInv == MineOK(mine, mine.head)

LEMMA MiningStarts == MiningInit => MineInv
  <1> SUFFICES ASSUME MiningInit PROVE MineInv
    OBVIOUS
  <1> DEFINE W == [q \in {1} |-> NewWitness]
             O == [a \in Miners |-> NoPledge]
             st == [core |-> MinerBalance, locked |-> 0, bonus |-> 0]
             S == [a \in Miners |-> st]
  <1>1. mine = [head |-> 1, signer |-> 1, seq |-> 1, wit |-> W, obj |-> O, stats |-> S,
                pay |-> 0, paid |-> 0]
    BY DEF MiningInit
  <1>2. st \in Statistics /\ st.locked = 0 /\ 0 <= st.core /\ st.core \in Nat
    BY MiningAssumption DEF Statistics
  <1> HIDE DEF st
  <1>3. O \in [Miners -> PledgeObjects] /\ S \in [Miners -> Statistics]
    BY <1>2, NoPledgeOK
  <1>4. W \in [{1} -> WitnessObjects] /\ DOMAIN W = {1} /\ W[1] = NewWitness
    BY NewWitnessOK DEF WitnessOK
  <1>5. W \in Entries(WitnessObjects)
    <2>1. {1} \in SUBSET Nat
      OBVIOUS
    <2> HIDE DEF W
    <2> QED BY <1>4, <2>1 DEF Entries
  <1>6. \A a \in Miners : O[a] = NoPledge /\ S[a] = st
    OBVIOUS
  <1> HIDE DEF W, O, S
  <1>7. mine \in MineStates
    BY <1>1, <1>3, <1>5 DEF MineStates
  <1>8. /\ mine.head = 1 /\ mine.signer = 1 /\ mine.seq = 1 /\ mine.wit = W
        /\ mine.obj = O /\ mine.stats = S
    BY <1>1
  <1>9. LockedOK(NoPledge, st, 1, 1)
    BY <1>2, NoPledgeOK DEF LockedOK
  <1>10. \A a \in Miners : LockedOK(mine.obj[a], mine.stats[a], mine.head, mine.head)
    BY <1>6, <1>8, <1>9
  <1>11. WitnessesOK(mine)
    <2>1. Current(mine) = {1}
      BY <1>4, <1>8, NewWitnessOK DEF Current
    <2>2. IsFiniteSet(DOMAIN NewWitness.perPledge)
      BY NewWitnessOK DEF WitnessOK
    <2> QED BY <1>4, <1>8, <2>1, <2>2 DEF WitnessesOK
  <1> QED BY <1>7, <1>10, <1>11 DEF MineInv, MineOK

LEMMA MiningSteps == MineInv /\ [MiningNext]_pvars => MineInv'
  <1> SUFFICES ASSUME MineInv, [MiningNext]_pvars PROVE MineInv'
    OBVIOUS
  <1>1. MineOK(mine, mine.head)
    BY DEF MineInv
  <1>2. ASSUME NEW a \in Miners, NEW n \in MiningAmounts, PledgeMiningUpdate(a, n) PROVE MineInv'
    BY <1>1, <1>2, PledgeUpdateOK DEF MineInv
  <1>3. ASSUME NEW a \in Miners, mine.stats[a].bonus > 0, PledgeBonusCollect(a, mine.stats[a].bonus)
        PROVE  MineInv'
    BY <1>1, <1>3, BonusCollectOK DEF MineInv
  <1>4. CASE WitnessResign
    BY <1>1, <1>4, ResignOK DEF MineInv
  <1>5. CASE WitnessCreate
    BY <1>1, <1>5, CreateOK DEF MineInv
  <1>6. ASSUME NEW can \in BOOLEAN, WitnessCanPledge(can) PROVE MineInv'
    BY <1>1, <1>6, CanPledgeOK DEF MineInv
  <1>7. ASSUME NEW signs \in BOOLEAN, NEW votesLeft \in BOOLEAN, MiningEndBlock(signs, votesLeft)
        PROVE  MineInv'
    BY <1>1, <1>7, EndBlockOK DEF MineInv
  <1>8. CASE UNCHANGED pvars
    BY <1>8 DEF MineInv, pvars
  <1> QED BY <1>2, <1>3, <1>4, <1>5, <1>6, <1>7, <1>8 DEF MiningNext, MiningCall

LEMMA LockedFollows == MineInv => MiningLocked
  <1> SUFFICES ASSUME MineInv, NEW a \in Miners
               PROVE  LET p == mine.obj[a].balance
                      IN /\ mine.stats[a].locked = TotalUnreleased(p) /\ EntriesAddUp(p)
                         /\ mine.stats[a].locked <= mine.stats[a].core
                         /\ \A b \in DOMAIN p.releasing : b >= mine.head /\ p.releasing[b] > 0
    BY DEF MiningLocked
  <1> DEFINE p == mine.obj[a].balance
  <1>1. LockedOK(mine.obj[a], mine.stats[a], mine.head, mine.head) /\ mine.head \in Nat
    BY DEF MineInv, MineOK, MineStates
  <1>2. /\ PledgeOK(p) /\ \A b \in DOMAIN p.releasing : mine.head <= b
        /\ mine.stats[a].locked = TotalUnreleased(p) /\ mine.stats[a].locked <= mine.stats[a].core
    BY <1>1 DEF LockedOK
  <1> HIDE DEF p
  <1>3. /\ EntriesAddUp(p) /\ DOMAIN p.releasing \subseteq Nat
        /\ p.releasing \in [DOMAIN p.releasing -> Nat \ {0}]
    BY <1>2 DEF PledgeOK
  <1>4. \A b \in DOMAIN p.releasing : b >= mine.head /\ p.releasing[b] > 0
    BY <1>1, <1>2, <1>3
  <1> QED BY <1>2, <1>3, <1>4 DEF p

(* Whatever accounts pledge, change, take back and collect, and however    *)
(* often the witness stops taking pledges, resigns and is made again, what *)
(* an account has locked is what it has pledged and what is being          *)
(* released, is covered by its balance, and every amount is released at    *)
(* its block.                                                              *)
THEOREM PledgesLocked == MiningSpec => []MiningLocked
  <1>1. MiningSpec => []MineInv
    BY MiningStarts, MiningSteps, PTL DEF MiningSpec
  <1> QED BY <1>1, LockedFollows, PTL
==============================================================================
