----------------------------- MODULE CsafProofs ------------------------------
(***************************************************************************)
(* That a balance covers what is locked and leased out of it, and that     *)
(* coin-seconds are collected once: proofs for every number of accounts,   *)
(* all amounts, delays, windows and sequences of operations.               *)
(***************************************************************************)
EXTENDS Csaf, PledgeProofs

-----------------------------------------------------------------------------
(* Times that are rounded to the minute. *)

LEMMA DivMod ==
    ASSUME NEW t \in Nat
    PROVE  /\ t = Minute * (t \div Minute) + (t % Minute)
           /\ t % Minute \in Nat /\ t % Minute < Minute /\ t \div Minute \in Nat
           /\ Minute * (t \div Minute) \in Nat
  BY CsafAssumption

LEMMA DivModUnique ==
    ASSUME NEW q \in Nat, NEW r \in Nat, r < Minute
    PROVE  (Minute * q + r) % Minute = r
  <1> DEFINE t == Minute * q + r
  <1>1. t \in Nat
    BY CsafAssumption
  <1>2. /\ t = Minute * (t \div Minute) + (t % Minute)
        /\ t % Minute \in Nat /\ t % Minute < Minute /\ t \div Minute \in Nat
    BY <1>1, DivMod
  <1> QED BY <1>2, CsafAssumption

LEMMA RoundedType ==
    ASSUME NEW t \in Nat
    PROVE  /\ Rounded(t) = Minute * (t \div Minute)
           /\ Rounded(t) \in Nat /\ Rounded(t) <= t
           /\ Rounded(Rounded(t)) = Rounded(t)
  <1>1. Rounded(t) = Minute * (t \div Minute) /\ Rounded(t) \in Nat /\ Rounded(t) <= t
    BY DivMod, CsafAssumption DEF Rounded
  <1>2. (Minute * (t \div Minute) + 0) % Minute = 0
    BY DivMod, DivModUnique, CsafAssumption
  <1>3. Rounded(t) % Minute = 0
    BY <1>1, <1>2
  <1> QED BY <1>1, <1>3 DEF Rounded

LEMMA RoundedMonotone ==
    ASSUME NEW t \in Nat, NEW u \in Nat, t <= u
    PROVE  Rounded(t) <= Rounded(u)
  <1>1. /\ t = Minute * (t \div Minute) + (t % Minute)
        /\ t % Minute \in Nat /\ t % Minute < Minute /\ t \div Minute \in Nat
    BY DivMod
  <1>2. /\ u = Minute * (u \div Minute) + (u % Minute)
        /\ u % Minute \in Nat /\ u % Minute < Minute /\ u \div Minute \in Nat
    BY DivMod
  <1>3. t \div Minute <= u \div Minute
    BY <1>1, <1>2, CsafAssumption
  <1>4. Minute * (t \div Minute) <= Minute * (u \div Minute)
    BY <1>1, <1>2, <1>3, CsafAssumption
  <1> QED BY <1>4, RoundedType

(* A second later the minute is the same one or the next. *)
LEMMA RoundedNext ==
    ASSUME NEW t \in Nat
    PROVE  Rounded(t + 1) = Rounded(t) + (IF (t + 1) % Minute = 0 THEN Minute ELSE 0)
  <1> DEFINE q == t \div Minute
             r == t % Minute
  <1>1. t = Minute * q + r /\ r \in Nat /\ r < Minute /\ q \in Nat
    BY DivMod, Zenon
  <1>2. Rounded(t) = t - r /\ Rounded(t + 1) = (t + 1) - ((t + 1) % Minute)
    BY DEF Rounded
  <1> HIDE DEF q, r
  <1>3. CASE r + 1 < Minute
    <2>1. t + 1 = Minute * q + (r + 1)
      BY <1>1, CsafAssumption
    <2>2. (t + 1) % Minute = r + 1
      BY <1>1, <1>3, <2>1, DivModUnique
    <2> QED BY <1>1, <1>2, <2>2, CsafAssumption
  <1>4. CASE ~(r + 1 < Minute)
    <2>1. r + 1 = Minute
      BY <1>1, <1>4, CsafAssumption
    <2>2. t + 1 = Minute * (q + 1) + 0
      BY <1>1, <2>1, CsafAssumption
    <2>3. (t + 1) % Minute = 0
      BY <1>1, <2>2, DivModUnique, CsafAssumption
    <2> QED BY <1>1, <1>2, <2>1, <2>3, CsafAssumption
  <1> QED BY <1>3, <1>4

-----------------------------------------------------------------------------
(* One account. *)

AccountFields == {"core", "leasedOut", "leasedIn", "locking", "lock", "csaf", "collected",
                  "earned", "earnedAt", "average", "averageAt"}

(* What an account's statistics are at time t: amounts that are not        *)
(* negative, a sound lock whose entries are released within the delay, and *)
(* times that have passed.                                                 *)
AccountOK(s, t) ==
    /\ s = [x \in AccountFields |-> s[x]]
    /\ s.core \in Nat /\ s.csaf \in Nat /\ s.collected \in Nat
    /\ s.earned \in Nat /\ s.average \in Nat
    /\ s.leasedOut \in Int /\ s.leasedIn \in Int /\ s.locking \in BOOLEAN
    /\ PledgeOK(s.lock)
    /\ \A b \in DOMAIN s.lock.releasing : b >= t /\ b <= t + UnlockDelay
    /\ s.earnedAt \in Nat /\ s.earnedAt <= Rounded(t)
    /\ s.averageAt \in Nat /\ s.averageAt <= Rounded(t)

EarnedOK(s, t, acc) ==
    s.collected * CsafRate + s.earned + s.lock.pledge * (Rounded(t) - s.earnedAt) <= acc

LEMMA PledgeType == ASSUME NEW p, PledgeOK(p)
                    PROVE  p.pledge \in Nat /\ p.total \in Nat /\ TotalUnreleased(p) \in Nat
  BY DEF PledgeOK, TotalUnreleased

LEMMA AverageType ==
    ASSUME NEW t \in Nat, NEW s, NEW u \in Nat, AccountOK(s, u)
    PROVE  NewAverage(s, t) \in Nat
  <1> DEFINE delta == Rounded(t) - s.averageAt
             x == s.average
             y == s.lock.pledge
  <1>1. delta \in Int /\ x \in Nat /\ y \in Nat
    BY RoundedType, PledgeType DEF AccountOK
  <1>2. NewAverage(s, t) = CASE delta <= 0 -> x [] delta >= CsafWindow -> y
                             [] OTHER -> (x * (CsafWindow - delta) + y * delta) \div CsafWindow
    BY DEF NewAverage
  <1> HIDE DEF delta, x, y
  <1>3. CASE delta <= 0
    <2>1. ~(delta >= CsafWindow)
      BY <1>1, <1>3, CsafAssumption
    <2> QED BY <1>1, <1>2, <1>3, <2>1
  <1>4. CASE delta >= CsafWindow
    <2>1. ~(delta <= 0)
      BY <1>1, <1>4, CsafAssumption
    <2> QED BY <1>1, <1>2, <1>4, <2>1
  <1>5. CASE ~(delta <= 0) /\ ~(delta >= CsafWindow)
    <2>1. delta \in Nat /\ CsafWindow - delta \in Nat /\ CsafWindow \in Nat \ {0}
      BY <1>1, <1>5, CsafAssumption
    <2>2. \A i, j \in Nat : i * j \in Nat /\ i + j \in Nat
      OBVIOUS
    <2>3. x * (CsafWindow - delta) \in Nat /\ y * delta \in Nat
      BY <1>1, <2>1, <2>2
    <2>4. x * (CsafWindow - delta) + y * delta \in Nat
      BY <2>2, <2>3
    <2>5. \A i \in Nat : i \div CsafWindow \in Nat
      BY <2>1
    <2> QED BY <1>2, <1>5, <2>4, <2>5
  <1> QED BY <1>3, <1>4, <1>5

(* compute_coin_seconds_earned never gives more than what had been earned  *)
(* and what the locked balance earned since, up to the whole minute.       *)
LEMMA CoinSecondsBound ==
    ASSUME NEW t \in Nat, NEW s, NEW u \in Nat, AccountOK(s, u)
    PROVE  /\ CoinSeconds(s, t) \in Nat
           /\ Rounded(t) <= s.earnedAt => CoinSeconds(s, t) <= s.earned
           /\ Rounded(t) >= s.earnedAt =>
                 CoinSeconds(s, t) <= s.earned + s.lock.pledge * (Rounded(t) - s.earnedAt)
  <1> DEFINE d == Rounded(t) - s.earnedAt
             m == Max({0, d})
             more == s.lock.pledge * m
             cap == NewAverage(s, t) * CsafWindow
             c == CoinSeconds(s, t)
             e == s.earned
             y == s.lock.pledge
  <1>1. d \in Int /\ e \in Nat /\ y \in Nat /\ Rounded(t) \in Int /\ s.earnedAt \in Int
    BY RoundedType, PledgeType DEF AccountOK
  <1>2. m = IF 0 >= d THEN 0 ELSE d
    <2>1. \A v \in Int : Max({0, v}) = IF 0 >= v THEN 0 ELSE v
      BY MaxPair
    <2> HIDE DEF d
    <2> QED BY <1>1, <2>1
  <1>3. \A i, j \in Nat : i * j \in Nat /\ i + j \in Nat
    OBVIOUS
  <1>4. cap \in Nat
    BY <1>3, AverageType, CsafAssumption
  <1>5. c = Min({e + more, cap})
    BY DEF CoinSeconds
  <1> HIDE DEF d, m, cap, c, e, y
  <1>6. m \in Nat
    BY <1>1, <1>2
  <1>7. more = y * m /\ more \in Nat
    BY <1>1, <1>3, <1>6 DEF y
  <1> HIDE DEF more
  <1>8. e + more \in Nat
    BY <1>1, <1>3, <1>7
  <1>9. c = IF e + more <= cap THEN e + more ELSE cap
    BY <1>4, <1>5, <1>8, MinPair
  <1>10. c \in Nat /\ c <= e + more
    BY <1>4, <1>8, <1>9
  <1>11. ASSUME Rounded(t) <= s.earnedAt PROVE c <= e
    <2>1. d <= 0
      BY <1>1, <1>11 DEF d
    <2>2. m = 0
      BY <1>1, <1>2, <2>1
    <2>3. more = 0
      BY <1>1, <1>7, <2>2
    <2> QED BY <1>1, <1>10, <2>3
  <1>12. ASSUME Rounded(t) >= s.earnedAt PROVE c <= e + y * d
    <2>1. d >= 0
      BY <1>1, <1>12 DEF d
    <2>2. m = d
      BY <1>1, <1>2, <2>1
    <2> QED BY <1>7, <1>10, <2>2
  <1> QED BY <1>10, <1>11, <1>12 DEF c, d, e, y

LEMMA EarnedType ==
    ASSUME NEW t \in Nat, NEW s, AccountOK(s, t)
    PROVE  /\ Rounded(t) \in Nat /\ Rounded(t) - s.earnedAt \in Nat
           /\ s.lock.pledge * (Rounded(t) - s.earnedAt) \in Nat
           /\ s.collected * CsafRate \in Nat /\ s.earned \in Nat
  <1>1. \A i, j \in Nat : i * j \in Nat /\ (i <= j => j - i \in Nat)
    OBVIOUS
  <1>2. /\ Rounded(t) \in Nat /\ s.earnedAt \in Nat /\ s.earnedAt <= Rounded(t)
        /\ s.lock.pledge \in Nat /\ s.collected \in Nat /\ s.earned \in Nat
    BY RoundedType, PledgeType DEF AccountOK
  <1> QED BY <1>1, <1>2, CsafAssumption

(* update_coin_seconds_earned: what the locked balance earned up to this   *)
(* minute is credited, and a change of the balance counts from here on.    *)
LEMMA SettleOK ==
    ASSUME NEW t \in Nat, NEW s, AccountOK(s, t), NEW acc \in Int, EarnedOK(s, t, acc),
           NEW u, u = UpdateCoinSeconds(s, t)
    PROVE  /\ AccountOK(u, t) /\ u.earnedAt = Rounded(t)
           /\ u.collected * CsafRate + u.earned <= acc
           /\ u.core = s.core /\ u.lock = s.lock /\ u.locking = s.locking
           /\ u.leasedOut = s.leasedOut /\ u.leasedIn = s.leasedIn
  <1> DEFINE r == Rounded(t)
             w == s.collected * CsafRate
             y == s.lock.pledge * (r - s.earnedAt)
  <1>1. /\ r \in Nat /\ Rounded(r) = r
        /\ s.earnedAt \in Nat /\ s.earnedAt <= r /\ s.averageAt \in Nat /\ s.averageAt <= r
        /\ s.earned \in Nat /\ w \in Nat /\ y \in Nat /\ w + s.earned + y <= acc
    BY RoundedType, EarnedType DEF AccountOK, EarnedOK
  <1>2. CASE r <= s.earnedAt /\ r <= s.averageAt
    <2>1. u = s
      BY <1>2 DEF UpdateCoinSeconds
    <2>2. s.earnedAt = r /\ w + s.earned <= acc
      <3> HIDE DEF r, w, y
      <3> QED BY <1>1, <1>2
    <2> QED BY <2>1, <2>2
  <1>3. CASE ~(r <= s.earnedAt /\ r <= s.averageAt)
    <2> DEFINE c == CoinSeconds(s, r)
               v == NewAverage(s, r)
    <2>1. u = [s EXCEPT !.earned = c, !.earnedAt = r, !.average = v, !.averageAt = r]
      BY <1>3 DEF UpdateCoinSeconds
    <2>2. c \in Nat /\ v \in Nat /\ c <= s.earned + y
      BY <1>1, CoinSecondsBound, AverageType
    <2> HIDE DEF c, v, r
    <2>3. s = [x \in AccountFields |-> s[x]]
      BY DEF AccountOK
    <2>4. /\ u = [x \in AccountFields |-> u[x]]
          /\ u.core = s.core /\ u.lock = s.lock /\ u.locking = s.locking
          /\ u.leasedOut = s.leasedOut /\ u.leasedIn = s.leasedIn
          /\ u.csaf = s.csaf /\ u.collected = s.collected
          /\ u.earned = c /\ u.earnedAt = r /\ u.average = v /\ u.averageAt = r
      BY Zenon, <2>1, <2>3 DEF AccountFields
    <2>5. AccountOK(u, t)
      <3>1. r \in Nat /\ r <= Rounded(t)
        BY <1>1 DEF r
      <3> QED BY <2>2, <2>4, <3>1 DEF AccountOK
    <2>6. w + c <= acc
      <3> HIDE DEF w, y
      <3> QED BY <1>1, <2>2
    <2> QED BY <2>4, <2>5, <2>6 DEF r
  <1> QED BY <1>2, <1>3

(* The account that balance_lock_update leaves, and the one that           *)
(* csaf_collect takes from.                                                *)
Locked(s, t, n) ==
    [UpdateCoinSeconds(s, t) EXCEPT
        !.lock = IF s.locking THEN UpdatePledge(@, n, t + UnlockDelay) ELSE NewPledge(n),
        !.locking = TRUE]
LeftEarned(s, n, time) == CoinSeconds(s, time) - n * CsafRate
Collected(s, n, time) ==
    [s EXCEPT !.earned = LeftEarned(s, n, time), !.collected = @ + n,
              !.earnedAt = Max({@, Rounded(time)})]

(* balance_lock_update: at the whole minute the new balance starts to earn *)
(* and what it had earned is kept; no more is locked than is available.    *)
LEMMA LockOK ==
    ASSUME NEW t \in Nat, NEW s, AccountOK(s, t), NEW acc \in Int, EarnedOK(s, t, acc),
           Available(s) >= 0, NEW n \in Nat,
           n > 0 => Available(s) + TotalUnreleased(s.lock) >= n,
           NEW u, u = Locked(s, t, n)
    PROVE  /\ AccountOK(u, t) /\ EarnedOK(u, t, acc) /\ Available(u) >= 0
           /\ u.core = s.core /\ u.leasedOut = s.leasedOut /\ u.leasedIn = s.leasedIn
  <1> DEFINE v == UpdateCoinSeconds(s, t)
             l == IF s.locking THEN UpdatePledge(v.lock, n, t + UnlockDelay) ELSE NewPledge(n)
             T == TotalUnreleased(s.lock)
  <1>u. u = [v EXCEPT !.lock = l, !.locking = TRUE]
    BY DEF Locked
  <1>v. /\ AccountOK(v, t) /\ v.earnedAt = Rounded(t)
        /\ v.collected * CsafRate + v.earned <= acc
        /\ v.core = s.core /\ v.lock = s.lock /\ v.locking = s.locking
        /\ v.leasedOut = s.leasedOut /\ v.leasedIn = s.leasedIn
    BY SettleOK
  <1> HIDE DEF v
  <1>s. /\ T \in Nat /\ s.core \in Nat /\ s.leasedOut \in Int /\ PledgeOK(s.lock)
        /\ s.core - T - s.leasedOut >= 0
        /\ n > 0 => s.core - T - s.leasedOut + T >= n
    BY PledgeType DEF AccountOK, Available
  <1>1. /\ PledgeOK(l) /\ l.pledge = n
        /\ DOMAIN l.releasing \subseteq DOMAIN s.lock.releasing \union {t + UnlockDelay}
        /\ TotalUnreleased(l) <= T \/ TotalUnreleased(l) = n
        /\ TotalUnreleased(l) \in Nat
    <2>1. CASE s.locking
      <3>1. l = UpdatePledge(s.lock, n, t + UnlockDelay)
        BY <1>v, <2>1
      <3>2. t + UnlockDelay \in Nat /\ \A b \in DOMAIN s.lock.releasing : b <= t + UnlockDelay
        BY CsafAssumption DEF AccountOK
      <3> HIDE DEF T, l
      <3>3. /\ PledgeOK(l) /\ l.pledge = n
            /\ DOMAIN l.releasing \subseteq DOMAIN s.lock.releasing \union {t + UnlockDelay}
            /\ n >= T => TotalUnreleased(l) = n
            /\ n <= T => TotalUnreleased(l) = T
        <4> DEFINE at == t + UnlockDelay
        <4>1. PledgeOK(s.lock) /\ at \in Nat /\ l = UpdatePledge(s.lock, n, at)
          BY <1>s, <3>1, <3>2
        <4>2. \A b \in DOMAIN s.lock.releasing : b <= at
          BY <3>2
        <4> HIDE DEF at
        <4> QED BY <4>1, <4>2, UpdatePledgeOK DEF T, at
      <3>4. TotalUnreleased(l) \in Nat
        BY <3>3, PledgeType
      <3>5. n >= T \/ n <= T
        BY <1>s
      <3>6. T <= T
        BY <1>s
      <3> QED BY <3>3, <3>4, <3>5, <3>6
    <2>2. CASE ~s.locking
      <3>1. l = NewPledge(n)
        BY <2>2
      <3> HIDE DEF l
      <3> QED BY <3>1, NewPledgeOK
    <2> QED BY <2>1, <2>2
  <1> HIDE DEF T, l
  <1>3. /\ u = [x \in AccountFields |-> u[x]]
        /\ u.core = v.core /\ u.lock = l /\ u.leasedOut = v.leasedOut /\ u.leasedIn = v.leasedIn
        /\ u.csaf = v.csaf /\ u.collected = v.collected /\ u.earned = v.earned
        /\ u.earnedAt = v.earnedAt /\ u.average = v.average /\ u.averageAt = v.averageAt
        /\ u.locking = TRUE
    <2>1. v = [x \in AccountFields |-> v[x]]
      BY <1>v DEF AccountOK
    <2> QED BY Zenon, <1>u, <2>1 DEF AccountFields
  <1>4. \A b \in DOMAIN l.releasing : b >= t /\ b <= t + UnlockDelay
    <2>1. \A b \in DOMAIN s.lock.releasing : b >= t /\ b <= t + UnlockDelay
      BY DEF AccountOK
    <2>2. t + UnlockDelay >= t /\ t + UnlockDelay <= t + UnlockDelay
      BY CsafAssumption
    <2> QED BY <1>1, <2>1, <2>2
  <1>5. AccountOK(u, t)
    <2>1. u.locking \in BOOLEAN
      BY Zenon, <1>3
    <2> QED BY <1>v, <1>1, <1>3, <1>4, <2>1 DEF AccountOK
  <1>6. EarnedOK(u, t, acc)
    <2>1. u.lock.pledge * (Rounded(t) - u.earnedAt) = 0
      <3>1. Rounded(t) - u.earnedAt = 0 /\ u.lock.pledge = n
        BY <1>v, <1>1, <1>3, RoundedType
      <3> QED BY <3>1
    <2>2. u.collected * CsafRate \in Nat /\ u.earned \in Nat
      BY Zenon, <1>5, EarnedType
    <2>3. u.collected * CsafRate + u.earned <= acc
      BY <1>v, <1>3
    <2> QED BY <2>1, <2>2, <2>3 DEF EarnedOK
  <1>7. Available(u) >= 0
    <2>1. Available(u) = s.core - TotalUnreleased(l) - s.leasedOut
      BY <1>v, <1>3 DEF Available
    <2> QED BY <1>s, <1>1, <2>1
  <1> QED BY <1>v, <1>3, <1>5, <1>6, <1>7

(* The account that csaf_collect takes from, also for a time in the past:  *)
(* what is taken is gone, and the time up to which coin-seconds are        *)
(* credited never moves back.                                              *)
LEMMA CollectOK ==
    ASSUME NEW t \in Nat, NEW s, AccountOK(s, t), NEW acc \in Int, EarnedOK(s, t, acc),
           NEW n \in Nat, NEW time \in Nat, time <= t,
           LeftEarned(s, n, time) >= 0, NEW u, u = Collected(s, n, time)
    PROVE  /\ AccountOK(u, t) /\ EarnedOK(u, t, acc)
           /\ u.core = s.core /\ u.lock = s.lock
           /\ u.leasedOut = s.leasedOut /\ u.leasedIn = s.leasedIn
  <1> DEFINE r == Rounded(t)
             x == Rounded(time)
             a == s.earnedAt
             y == s.lock.pledge
             c == CoinSeconds(s, time)
             k == n * CsafRate
             w == s.collected * CsafRate
             e == s.earned
             m == Max({a, x})
             left == LeftEarned(s, n, time)
  <1>1. /\ r \in Nat /\ x \in Nat /\ x <= r /\ a \in Nat /\ a <= r
        /\ y \in Nat /\ k \in Nat /\ w \in Nat /\ e \in Nat /\ c \in Nat
        /\ s.collected \in Nat /\ w + e + y * (r - a) <= acc
    <2>1. r \in Nat /\ x \in Nat /\ x <= r
      BY RoundedType, RoundedMonotone
    <2>2. a \in Nat /\ a <= r /\ y \in Nat /\ e \in Nat /\ s.collected \in Nat
      BY PledgeType DEF AccountOK
    <2>3. \A i, j \in Nat : i * j \in Nat
      OBVIOUS
    <2>4. k \in Nat /\ w \in Nat
      BY <2>2, <2>3, CsafAssumption
    <2>5. c \in Nat
      BY CoinSecondsBound
    <2> QED BY <2>1, <2>2, <2>4, <2>5 DEF EarnedOK
  <1>2. m = IF a >= x THEN a ELSE x
    BY <1>1, MaxPair
  <1>3. /\ x <= a => c <= e
        /\ x >= a => c <= e + y * (x - a)
    BY CoinSecondsBound
  <1>4. u = [s EXCEPT !.earned = left, !.collected = s.collected + n, !.earnedAt = m]
    <2>1. s = [z \in AccountFields |-> s[z]]
      BY DEF AccountOK
    <2> QED BY <2>1 DEF AccountFields, Collected
  <1>5. left = c - k /\ left \in Nat
    <2>1. left = c - k /\ left >= 0
      BY DEF LeftEarned
    <2> HIDE DEF c, k, left
    <2> QED BY <1>1, <2>1
  <1> HIDE DEF x, c, m, left
  <1>6. /\ u = [z \in AccountFields |-> u[z]]
        /\ u.core = s.core /\ u.lock = s.lock /\ u.locking = s.locking
        /\ u.leasedOut = s.leasedOut /\ u.leasedIn = s.leasedIn
        /\ u.csaf = s.csaf /\ u.collected = s.collected + n /\ u.earned = left
        /\ u.earnedAt = m /\ u.average = s.average /\ u.averageAt = s.averageAt
    <2>1. s = [z \in AccountFields |-> s[z]]
      BY DEF AccountOK
    <2> QED BY Zenon, <1>4, <2>1 DEF AccountFields
  <1>7. m \in Nat /\ m <= r
    BY <1>1, <1>2
  <1>8. AccountOK(u, t)
    <2>1. s.collected + n \in Nat
      BY <1>1
    <2> QED BY <1>5, <1>6, <1>7, <2>1 DEF AccountOK
  <1>9. (s.collected + n) * CsafRate = w + k
    BY <1>1, CsafAssumption
  <1>10. (w + k) + (c - k) + y * (r - m) <= acc
    <2> HIDE DEF r, a, y, k, w, e
    <2>1. CASE a >= x
      <3>1. m = a /\ c <= e
        BY <1>1, <1>2, <1>3, <2>1
      <3>2. y * (r - a) \in Int
        BY <1>1
      <3> QED BY <1>1, <3>1, <3>2
    <2>2. CASE ~(a >= x)
      <3>1. m = x /\ c <= e + y * (x - a)
        BY <1>1, <1>2, <1>3, <2>2
      <3>2. y * (r - a) = y * (x - a) + y * (r - x)
        BY <1>1
      <3>3. y * (x - a) \in Int /\ y * (r - x) \in Int
        BY <1>1
      <3> QED BY <1>1, <3>1, <3>2, <3>3
    <2> QED BY <2>1, <2>2
  <1>11. EarnedOK(u, t, acc)
    BY <1>5, <1>6, <1>9, <1>10 DEF EarnedOK
  <1> QED BY <1>6, <1>8, <1>11

(* A field that is about neither locks nor coin-seconds. *)
LEMMA OtherFieldsOK ==
    ASSUME NEW t \in Nat, NEW s, AccountOK(s, t), NEW v \in Int
    PROVE  /\ \A u : u = [s EXCEPT !.leasedOut = v] =>
                  /\ AccountOK(u, t) /\ u.leasedOut = v
                  /\ u.core = s.core /\ u.lock = s.lock /\ u.leasedIn = s.leasedIn
                  /\ u.collected = s.collected /\ u.earned = s.earned /\ u.earnedAt = s.earnedAt
           /\ \A u : u = [s EXCEPT !.leasedIn = v] =>
                  /\ AccountOK(u, t) /\ u.leasedIn = v
                  /\ u.core = s.core /\ u.lock = s.lock /\ u.leasedOut = s.leasedOut
                  /\ u.collected = s.collected /\ u.earned = s.earned /\ u.earnedAt = s.earnedAt
           /\ \A u : u = [s EXCEPT !.core = v] /\ v \in Nat =>
                  /\ AccountOK(u, t) /\ u.core = v
                  /\ u.lock = s.lock /\ u.leasedOut = s.leasedOut /\ u.leasedIn = s.leasedIn
                  /\ u.collected = s.collected /\ u.earned = s.earned /\ u.earnedAt = s.earnedAt
           /\ \A u : u = [s EXCEPT !.csaf = v] /\ v \in Nat =>
                  /\ AccountOK(u, t) /\ u.core = s.core
                  /\ u.lock = s.lock /\ u.leasedOut = s.leasedOut /\ u.leasedIn = s.leasedIn
                  /\ u.collected = s.collected /\ u.earned = s.earned /\ u.earnedAt = s.earnedAt
  <1>1. s = [x \in AccountFields |-> s[x]]
    BY DEF AccountOK
  <1>2. ASSUME NEW u, NEW i \in {"leasedOut", "leasedIn", "core", "csaf"}, u = [s EXCEPT ![i] = v]
        PROVE  /\ u = [x \in AccountFields |-> u[x]] /\ u[i] = v
               /\ \A x \in AccountFields \ {i} : u[x] = s[x]
    BY Zenon, <1>1, <1>2 DEF AccountFields
  <1>3. ASSUME NEW u, u = [s EXCEPT !.leasedOut = v]
        PROVE  /\ u = [x \in AccountFields |-> u[x]] /\ u.leasedOut = v
               /\ \A x \in AccountFields \ {"leasedOut"} : u[x] = s[x]
    BY <1>2, <1>3
  <1>4. ASSUME NEW u, u = [s EXCEPT !.leasedIn = v]
        PROVE  /\ u = [x \in AccountFields |-> u[x]] /\ u.leasedIn = v
               /\ \A x \in AccountFields \ {"leasedIn"} : u[x] = s[x]
    BY <1>2, <1>4
  <1>5. ASSUME NEW u, u = [s EXCEPT !.core = v]
        PROVE  /\ u = [x \in AccountFields |-> u[x]] /\ u.core = v
               /\ \A x \in AccountFields \ {"core"} : u[x] = s[x]
    BY <1>2, <1>5
  <1>6. ASSUME NEW u, u = [s EXCEPT !.csaf = v]
        PROVE  /\ u = [x \in AccountFields |-> u[x]] /\ u.csaf = v
               /\ \A x \in AccountFields \ {"csaf"} : u[x] = s[x]
    BY <1>2, <1>6
  <1>7. ASSUME NEW u, u = [x \in AccountFields |-> u[x]],
               NEW i \in {"leasedOut", "leasedIn", "core", "csaf"}, u[i] = v,
               \A x \in AccountFields \ {i} : u[x] = s[x]
        PROVE  /\ u.lock = s.lock /\ u.locking = s.locking
               /\ u.collected = s.collected /\ u.earned = s.earned /\ u.earnedAt = s.earnedAt
               /\ u.average = s.average /\ u.averageAt = s.averageAt
               /\ i # "leasedOut" => u.leasedOut = s.leasedOut
               /\ i # "leasedIn" => u.leasedIn = s.leasedIn
               /\ i # "core" => u.core = s.core
               /\ i # "csaf" => u.csaf = s.csaf
    BY <1>7 DEF AccountFields
  <1>8. ASSUME NEW u, u = [s EXCEPT !.leasedOut = v] PROVE AccountOK(u, t)
    BY <1>3, <1>7, <1>8 DEF AccountOK
  <1>9. ASSUME NEW u, u = [s EXCEPT !.leasedIn = v] PROVE AccountOK(u, t)
    BY <1>4, <1>7, <1>9 DEF AccountOK
  <1>10. ASSUME NEW u, u = [s EXCEPT !.core = v], v \in Nat PROVE AccountOK(u, t)
    BY <1>5, <1>7, <1>10 DEF AccountOK
  <1>11. ASSUME NEW u, u = [s EXCEPT !.csaf = v], v \in Nat PROVE AccountOK(u, t)
    BY <1>6, <1>7, <1>11 DEF AccountOK
  <1> QED BY <1>3, <1>4, <1>5, <1>6, <1>7, <1>8, <1>9, <1>10, <1>11

(* The account after a block, when leases of x and to it of y end, and     *)
(* what it has earned in the last second of a minute.                      *)
AtEnd(s, t, x, y, g) ==
    [s EXCEPT !.leasedOut = @ - x, !.leasedIn = @ - y,
              !.lock = ReleaseDue(s.lock, t), !.locking = @ /\ g]
MinuteEarned(s, t) == IF (t + 1) % Minute = 0 THEN Minute * s.lock.pledge ELSE 0

(* An account at the end of a block: leases end, entries are released, and *)
(* at the end of a minute the locked balance has earned a minute.          *)
LEMMA EndBlockOK ==
    ASSUME NEW t \in Nat, NEW s, AccountOK(s, t), NEW acc \in Int, EarnedOK(s, t, acc),
           Available(s) >= 0, NEW x \in Nat, NEW y \in Int, NEW g,
           NEW u, u = AtEnd(s, t, x, y, g), NEW new, new = acc + MinuteEarned(s, t)
    PROVE  /\ AccountOK(u, t + 1) /\ EarnedOK(u, t + 1, new) /\ new \in Int
           /\ Available(u) >= 0 /\ u.core = s.core
           /\ u.leasedOut = s.leasedOut - x /\ u.leasedIn = s.leasedIn - y
  <1> DEFINE l == ReleaseDue(s.lock, t)
             k == s.locking /\ g
             r == Rounded(t)
             r1 == Rounded(t + 1)
             a == s.earnedAt
             p == s.lock.pledge
             rel == Released(s.lock, t)
             T == TotalUnreleased(s.lock)
  <1>s. s = [z \in AccountFields |-> s[z]] /\ PledgeOK(s.lock) /\ T \in Nat /\ p \in Nat
    BY PledgeType DEF AccountOK
  <1>1. /\ PledgeOK(l) /\ l.pledge = p /\ rel \in Nat /\ TotalUnreleased(l) = T - rel
        /\ DOMAIN l.releasing = {b \in DOMAIN s.lock.releasing : b > t}
    BY <1>s, ReleaseDueOK
  <1>2. u = [s EXCEPT !.leasedOut = s.leasedOut - x, !.leasedIn = s.leasedIn - y,
                      !.lock = l, !.locking = k]
    BY <1>s DEF AccountFields, AtEnd
  <1>k. k \in BOOLEAN
    BY Zenon
  <1> HIDE DEF l, k, rel, T
  <1>3. /\ u = [z \in AccountFields |-> u[z]]
        /\ u.core = s.core /\ u.lock = l /\ u.locking = k
        /\ u.leasedOut = s.leasedOut - x /\ u.leasedIn = s.leasedIn - y
        /\ u.csaf = s.csaf /\ u.collected = s.collected /\ u.earned = s.earned
        /\ u.earnedAt = s.earnedAt /\ u.average = s.average /\ u.averageAt = s.averageAt
    BY Zenon, <1>s, <1>2 DEF AccountFields
  <1>4. /\ r \in Nat /\ r1 \in Nat /\ a \in Nat /\ a <= r
        /\ r1 = r + (IF (t + 1) % Minute = 0 THEN Minute ELSE 0)
        /\ s.averageAt \in Nat /\ s.averageAt <= r
    BY RoundedType, RoundedNext DEF AccountOK
  <1>5. a <= r1 /\ s.averageAt <= r1
    <2> HIDE DEF r, r1
    <2> QED BY <1>4, CsafAssumption
  <1>6. \A b \in DOMAIN l.releasing : b >= t + 1 /\ b <= t + 1 + UnlockDelay
    <2>1. \A b \in DOMAIN s.lock.releasing : b \in Nat /\ b <= t + UnlockDelay
      BY DEF AccountOK, PledgeOK
    <2> QED BY <1>1, <2>1, CsafAssumption
  <1>7. AccountOK(u, t + 1)
    <2>1. s.leasedOut - x \in Int /\ s.leasedIn - y \in Int
      BY DEF AccountOK
    <2> QED BY Zenon, <1>k, <1>1, <1>3, <1>4, <1>5, <1>6, <2>1 DEF AccountOK
  <1>8. Available(u) >= 0
    <2>1. Available(u) = s.core - (T - rel) - (s.leasedOut - x)
      BY <1>1, <1>3 DEF Available
    <2>2. s.core - T - s.leasedOut >= 0
      BY DEF Available, T
    <2>3. s.core \in Nat /\ s.leasedOut \in Int
      BY DEF AccountOK
    <2> QED BY <1>s, <1>1, <2>1, <2>2, <2>3
  <1>9. new \in Int /\ EarnedOK(u, t + 1, new)
    <2> DEFINE w == s.collected * CsafRate
               e == s.earned
    <2>1. w \in Nat /\ e \in Nat /\ p * (r - a) \in Nat /\ w + e + p * (r - a) <= acc
      BY EarnedType DEF EarnedOK
    <2>2. new = acc + (IF (t + 1) % Minute = 0 THEN Minute * p ELSE 0)
      BY DEF MinuteEarned
    <2> HIDE DEF w, e, r, r1, a, p
    <2>3. CASE (t + 1) % Minute = 0
      <3>1. r1 = r + Minute /\ new = acc + Minute * p
        BY <1>4, <2>2, <2>3
      <3>2. p * (r1 - a) = p * (r - a) + Minute * p /\ Minute * p \in Nat
        BY <1>s, <1>4, <3>1, CsafAssumption
      <3> QED BY <1>1, <1>3, <2>1, <3>1, <3>2 DEF EarnedOK, w, e, r1, a
    <2>4. CASE (t + 1) % Minute # 0
      <3>1. r1 = r /\ new = acc
        BY <1>4, <2>2, <2>4
      <3> QED BY <1>1, <1>3, <2>1, <3>1 DEF EarnedOK, w, e, r1, a
    <2> QED BY <2>3, <2>4
  <1> QED BY <1>3, <1>7, <1>8, <1>9

-----------------------------------------------------------------------------
(* The leases. *)

LeasesOK(L, t) ==
    /\ L = [p \in DOMAIN L |-> L[p]]
    /\ DOMAIN L \subseteq Holders \X Holders
    /\ \A p \in DOMAIN L : /\ L[p].amount \in Nat \ {0}
                           /\ L[p].expires \in Nat /\ L[p].expires >= t

From(a) == {p \in Holders \X Holders : p[1] = a}
To(b) == {p \in Holders \X Holders : p[2] = b}
Count(L, K) == SumOfFunction([p \in DOMAIN L \cap K |-> L[p].amount])

LEMMA CountType ==
    ASSUME NEW t \in Nat, NEW L, LeasesOK(L, t), NEW S, S \subseteq DOMAIN L
    PROVE  /\ IsFiniteSet(S)
           /\ Summable([p \in S |-> L[p].amount])
           /\ SumOfFunction([p \in S |-> L[p].amount]) \in Nat
  <1> DEFINE f == [p \in S |-> L[p].amount]
  <1>1. IsFiniteSet(S)
    BY Zenon, CsafAssumption, FS_Product, FS_Subset DEF LeasesOK
  <1>2. DOMAIN f = S /\ \A p \in S : f[p] \in Int /\ f[p] >= 0
    BY DEF LeasesOK
  <1> HIDE DEF f
  <1>3. Summable(f)
    BY <1>1, <1>2 DEF Summable
  <1>4. SumOfFunction(f) \in Nat
    BY <1>2, <1>3, SumNotNegative
  <1> QED BY <1>1, <1>3, <1>4 DEF f

LEMMA CountAdd ==
    ASSUME NEW t \in Nat, NEW L, LeasesOK(L, t), NEW K, NEW p, NEW r, r.amount \in Nat
    PROVE  Count(WithEntry(L, p, r), K) = Count(L, K) +
               IF p \in K THEN r.amount - (IF p \in DOMAIN L THEN L[p].amount ELSE 0) ELSE 0
  <1> DEFINE M == WithEntry(L, p, r)
             f == [x \in DOMAIN L \cap K |-> L[x].amount]
             h == [x \in DOMAIN M \cap K |-> M[x].amount]
  <1>1. /\ DOMAIN M = DOMAIN L \union {p} /\ M[p] = r
        /\ \A x \in DOMAIN L \ {p} : M[x] = L[x]
    BY DEF WithEntry
  <1> HIDE DEF M
  <1>2. Summable(f) /\ SumOfFunction(f) \in Nat
    BY CountType
  <1>3. CASE p \in K
    <2>1. h = WithEntry(f, p, r.amount)
      <3>1. DOMAIN M \cap K = (DOMAIN L \cap K) \union {p}
        BY <1>1, <1>3
      <3>2. \A x \in (DOMAIN L \cap K) \union {p} :
                M[x].amount = IF x = p THEN r.amount ELSE f[x]
        BY <1>1
      <3>3. DOMAIN f = DOMAIN L \cap K
        OBVIOUS
      <3> HIDE DEF f
      <3> QED BY <3>1, <3>2, <3>3 DEF WithEntry
    <2>2. SumOfFunction(h) =
              SumOfFunction(f) + r.amount - (IF p \in DOMAIN f THEN f[p] ELSE 0)
      <3> HIDE DEF h, f
      <3> QED BY <1>2, <2>1, SumEntry
    <2>3. (IF p \in DOMAIN f THEN f[p] ELSE 0) = (IF p \in DOMAIN L THEN L[p].amount ELSE 0)
      BY <1>3
    <2>4. (IF p \in DOMAIN L THEN L[p].amount ELSE 0) \in Int
      BY DEF LeasesOK
    <2>5. SumOfFunction(h) = SumOfFunction(f) +
              (r.amount - (IF p \in DOMAIN L THEN L[p].amount ELSE 0))
      <3> HIDE DEF h, f
      <3> QED BY <1>2, <2>2, <2>3, <2>4
    <2> QED BY <1>3, <2>5 DEF Count, M
  <1>4. CASE p \notin K
    <2>1. DOMAIN M \cap K = DOMAIN L \cap K
      BY <1>1, <1>4
    <2>2. h = f
      BY <1>1, <1>4, <2>1
    <2>3. SumOfFunction(h) = SumOfFunction(f) + 0
      BY <1>2, <2>2
    <2> QED BY <1>4, <2>3 DEF Count, M
  <1> QED BY <1>3, <1>4

LEMMA CountRemove ==
    ASSUME NEW t \in Nat, NEW L, LeasesOK(L, t), NEW K, NEW R, R \subseteq DOMAIN L
    PROVE  Count(WithoutEntries(L, R), K) =
               Count(L, K) - SumOfFunction([p \in R \cap K |-> L[p].amount])
  <1> DEFINE M == WithoutEntries(L, R)
             f == [x \in DOMAIN L \cap K |-> L[x].amount]
             A == R \cap K
             h == [x \in DOMAIN M \cap K |-> M[x].amount]
             g == [x \in A |-> L[x].amount]
  <1>1. DOMAIN M = DOMAIN L \ R /\ \A x \in DOMAIN L \ R : M[x] = L[x]
    BY DEF WithoutEntries
  <1> HIDE DEF M
  <1>2. Summable(f) /\ SumOfFunction(f) \in Nat /\ SumOfFunction(g) \in Nat
    BY CountType
  <1>3. A \subseteq DOMAIN f /\ g = [x \in A |-> f[x]]
    OBVIOUS
  <1>4. h = WithoutEntries(f, A)
    <2>1. DOMAIN M \cap K = DOMAIN f \ A
      BY <1>1
    <2>2. \A x \in DOMAIN f \ A : M[x].amount = f[x]
      BY <1>1
    <2> HIDE DEF f, A
    <2> QED BY <2>1, <2>2 DEF WithoutEntries
  <1> HIDE DEF f, g, h, A
  <1>5. SumOfFunction(f) = SumOfFunction(g) + SumOfFunction(h) /\ Summable(h)
    BY Zenon, <1>2, <1>3, <1>4, SumSplit, WithoutType
  <1>6. SumOfFunction(h) \in Int
    BY <1>5, SumType
  <1>7. SumOfFunction(h) = SumOfFunction(f) - SumOfFunction(g)
    BY <1>2, <1>5, <1>6
  <1> QED BY <1>7 DEF f, g, h, A, M, Count

-----------------------------------------------------------------------------
(* The inductive invariant.  Coin-seconds are earned up to the last whole  *)
(* minute, so an account's time of earning may not lie beyond it; entries  *)
(* lie within the delay, so that a new one is never before another.        *)

HoldersOK(h, t, acc) ==
    /\ h = [a \in Holders |-> h[a]] /\ acc = [a \in Holders |-> acc[a]]
    /\ \A a \in Holders : /\ AccountOK(h[a], t) /\ Available(h[a]) >= 0
                          /\ acc[a] \in Int /\ EarnedOK(h[a], t, acc[a])

LeasedOK(h, L) ==
    \A a \in Holders : /\ h[a].leasedOut = Count(L, From(a))
                       /\ h[a].leasedIn = Count(L, To(a))

CoreTotal(h) == SumOfFunction([a \in Holders |-> h[a].core])

CsafInv ==
    /\ now \in Nat
    /\ HoldersOK(hold, now, accrued)
    /\ LeasesOK(leases, now)
    /\ LeasedOK(hold, leases)
    /\ CoreTotal(hold) = Cardinality(Holders) * HolderBalance

LEMMA SumConstant ==
    ASSUME NEW D, IsFiniteSet(D), NEW c \in Int
    PROVE  SumOfFunction([x \in D |-> c]) = Cardinality(D) * c
  <1> DEFINE f == [x \in D |-> c]
             g == Sums(f)
             P == {s \in SUBSET D : g[s] = Cardinality(s) * c}
  <1>1. DOMAIN f = D /\ Summable(f) /\ \A x \in D : f[x] = c
    BY DEF Summable
  <1> HIDE DEF f
  <1>g. /\ g[{}] = 0
        /\ \A s \in SUBSET D : \A x \in D \ s : g[s \union {x}] = c + g[s]
    BY Zenon, <1>1, SumsStep, SumsAdd
  <1> HIDE DEF g
  <1>2. {} \in P
    BY <1>g, FS_EmptySet
  <1>3. ASSUME NEW t \in P, NEW x \in D \ t PROVE t \union {x} \in P
    <2>1. IsFiniteSet(t) /\ Cardinality(t) \in Nat
      BY FS_Subset, FS_CardinalityType
    <2>2. Cardinality(t \union {x}) = Cardinality(t) + 1
      BY Zenon, <2>1, FS_AddElement
    <2>3. g[t \union {x}] = c + g[t] /\ g[t] = Cardinality(t) * c
      BY <1>g
    <2>4. g[t \union {x}] = (Cardinality(t) + 1) * c
      BY <2>1, <2>3
    <2> QED BY <2>2, <2>4
  <1>4. D \in P
    <2> HIDE DEF P
    <2>1. P \in SUBSET (SUBSET D)
      BY DEF P
    <2> QED BY SMTT(30), <1>2, <1>3, <2>1, SubsetInduction
  <1>5. SumOfFunction(f) = g[D]
    BY <1>1, SumIsLast DEF g
  <1> QED BY <1>4, <1>5 DEF f

LEMMA CsafInitInv == CsafInit => CsafInv
  <1> SUFFICES ASSUME CsafInit PROVE CsafInv
    OBVIOUS
  <1> DEFINE s == [core |-> HolderBalance, leasedOut |-> 0, leasedIn |-> 0,
                   locking |-> FALSE, lock |-> NewPledge(0), csaf |-> 0, collected |-> 0,
                   earned |-> 0, earnedAt |-> 0, average |-> 0, averageAt |-> 0]
  <1>1. /\ hold = [a \in Holders |-> s] /\ accrued = [a \in Holders |-> 0]
        /\ leases = [p \in {} |-> {}] /\ now = 1
    BY DEF CsafInit
  <1>2. /\ s.core = HolderBalance /\ s.leasedOut = 0 /\ s.leasedIn = 0 /\ s.locking = FALSE
        /\ s.lock = NewPledge(0) /\ s.csaf = 0 /\ s.collected = 0 /\ s.earned = 0
        /\ s.earnedAt = 0 /\ s.average = 0 /\ s.averageAt = 0
        /\ s = [x \in AccountFields |-> s[x]]
    BY DEF AccountFields
  <1>3. /\ PledgeOK(s.lock) /\ TotalUnreleased(s.lock) = 0 /\ s.lock.pledge = 0
        /\ DOMAIN s.lock.releasing = {}
    BY <1>2, NewPledgeOK
  <1>4. 1 \in Nat /\ Rounded(1) \in Nat /\ HolderBalance \in Nat /\ CsafRate \in Nat
    BY RoundedType, CsafAssumption
  <1> HIDE DEF s
  <1>5. AccountOK(s, 1) /\ Available(s) >= 0 /\ EarnedOK(s, 1, 0)
    <2>1. s.locking \in BOOLEAN
      BY Zenon, <1>2
    <2>2. AccountOK(s, 1)
      BY <1>2, <1>3, <1>4, <2>1 DEF AccountOK
    <2>3. Available(s) >= 0
      BY <1>2, <1>3, <1>4 DEF Available
    <2>4. EarnedOK(s, 1, 0)
      BY <1>2, <1>3, <1>4 DEF EarnedOK
    <2> QED BY <2>2, <2>3, <2>4
  <1>6. HoldersOK(hold, now, accrued)
    BY <1>1, <1>5 DEF HoldersOK
  <1>7. LeasesOK(leases, now) /\ DOMAIN leases = {}
    BY <1>1 DEF LeasesOK
  <1>8. LeasedOK(hold, leases)
    <2>1. \A K : Count(leases, K) = 0
      BY <1>7, SumEmpty DEF Count
    <2> QED BY <1>1, <1>2, <2>1 DEF LeasedOK
  <1>9. CoreTotal(hold) = Cardinality(Holders) * HolderBalance
    <2>1. [a \in Holders |-> hold[a].core] = [a \in Holders |-> HolderBalance]
      BY <1>1, <1>2
    <2>2. HolderBalance \in Int /\ IsFiniteSet(Holders)
      BY CsafAssumption
    <2> QED BY Zenon, <2>1, <2>2, SumConstant DEF CoreTotal
  <1> QED BY <1>1, <1>6, <1>7, <1>8, <1>9 DEF CsafInv

(* An operation that leaves every account's core balance alone. *)
LEMMA CoreKept ==
    ASSUME NEW h, NEW k, \A a \in Holders : k[a].core = h[a].core
    PROVE  CoreTotal(k) = CoreTotal(h)
  <1>1. [a \in Holders |-> k[a].core] = [a \in Holders |-> h[a].core]
    OBVIOUS
  <1> QED BY <1>1 DEF CoreTotal

LEMMA TransferStep ==
    ASSUME CsafInv, NEW a \in Holders, NEW b \in Holders, a # b, NEW n \in Nat,
           Transfer(a, b, n), now' = now, accrued' = accrued
    PROVE  CsafInv'
  <1>1. /\ now \in Nat /\ HoldersOK(hold, now, accrued) /\ LeasesOK(leases, now)
        /\ LeasedOK(hold, leases) /\ CoreTotal(hold) = Cardinality(Holders) * HolderBalance
    BY DEF CsafInv
  <1>2. /\ hold = [x \in Holders |-> hold[x]] /\ accrued = [x \in Holders |-> accrued[x]]
        /\ \A x \in Holders : /\ AccountOK(hold[x], now) /\ Available(hold[x]) >= 0
                              /\ accrued[x] \in Int /\ EarnedOK(hold[x], now, accrued[x])
    BY <1>1 DEF HoldersOK
  <1>3. /\ Available(hold[a]) >= n /\ leases' = leases
        /\ hold' = [hold EXCEPT ![a].core = @ - n, ![b].core = @ + n]
    BY DEF Transfer
  <1>4. /\ hold' = [x \in Holders |-> hold'[x]]
        /\ hold'[a] = [hold[a] EXCEPT !.core = hold[a].core - n]
        /\ hold'[b] = [hold[b] EXCEPT !.core = hold[b].core + n]
        /\ \A x \in Holders \ {a, b} : hold'[x] = hold[x]
    BY Zenon, <1>2, <1>3
  <1>5. \A x \in Holders : /\ hold[x].core \in Nat /\ hold[x].leasedOut \in Int
                           /\ TotalUnreleased(hold[x].lock) \in Nat
    BY <1>2, PledgeType DEF AccountOK
  <1>6. hold[a].core - n \in Nat /\ hold[b].core + n \in Nat
    <2>1. hold[a].leasedOut = Count(leases, From(a))
      BY <1>1 DEF LeasedOK
    <2>2. hold[a].leasedOut \in Nat
      <3>1. DOMAIN leases \cap From(a) \subseteq DOMAIN leases
        OBVIOUS
      <3> QED BY <1>1, <2>1, <3>1, CountType DEF Count
    <2>3. hold[a].core - TotalUnreleased(hold[a].lock) - hold[a].leasedOut >= n
      BY <1>3 DEF Available
    <2> QED BY <1>5, <2>2, <2>3
  <1>7. ASSUME NEW x \in {a, b}, NEW v \in Nat, hold'[x] = [hold[x] EXCEPT !.core = v],
               v >= hold[x].core - Available(hold[x])
        PROVE  /\ AccountOK(hold'[x], now) /\ hold'[x].core = v
               /\ EarnedOK(hold'[x], now, accrued[x])
               /\ Available(hold'[x]) >= 0
               /\ hold'[x].leasedOut = hold[x].leasedOut /\ hold'[x].leasedIn = hold[x].leasedIn
    <2>1. AccountOK(hold[x], now) /\ v \in Int /\ x \in Holders
      BY <1>2
    <2>2. /\ AccountOK(hold'[x], now) /\ hold'[x].core = v /\ hold'[x].lock = hold[x].lock
          /\ hold'[x].leasedOut = hold[x].leasedOut /\ hold'[x].leasedIn = hold[x].leasedIn
          /\ hold'[x].collected = hold[x].collected /\ hold'[x].earned = hold[x].earned
          /\ hold'[x].earnedAt = hold[x].earnedAt
      BY <1>1, <1>7, <2>1, OtherFieldsOK
    <2>3. EarnedOK(hold'[x], now, accrued[x])
      BY <1>2, <2>1, <2>2 DEF EarnedOK
    <2>4. Available(hold'[x]) >= 0
      BY <1>5, <1>7, <2>1, <2>2 DEF Available
    <2> QED BY <2>2, <2>3, <2>4
  <1>8. \A x \in {a, b} : /\ AccountOK(hold'[x], now) /\ EarnedOK(hold'[x], now, accrued[x])
                          /\ Available(hold'[x]) >= 0 /\ hold'[x].leasedOut = hold[x].leasedOut
                          /\ hold'[x].leasedIn = hold[x].leasedIn
                          /\ hold'[x].core = IF x = a THEN hold[a].core - n ELSE hold[b].core + n
    <2>1. hold[a].core - n >= hold[a].core - Available(hold[a])
      BY <1>3, <1>5 DEF Available
    <2>2. hold[b].core + n >= hold[b].core - Available(hold[b])
      BY <1>2, <1>5 DEF Available
    <2> QED BY <1>4, <1>6, <1>7, <2>1, <2>2
  <1>9. HoldersOK(hold', now', accrued')
    BY <1>2, <1>4, <1>8 DEF HoldersOK
  <1>10. LeasedOK(hold', leases')
    <2>1. \A x \in Holders : /\ hold'[x].leasedOut = hold[x].leasedOut
                             /\ hold'[x].leasedIn = hold[x].leasedIn
      BY <1>4, <1>8
    <2> QED BY Zenon, <1>1, <1>3, <2>1 DEF LeasedOK
  <1>11. CoreTotal(hold') = CoreTotal(hold)
    <2> DEFINE f == [x \in Holders |-> hold[x].core]
               g == WithEntry(f, a, hold[a].core - n)
               h == WithEntry(g, b, hold[b].core + n)
    <2>1. Summable(f) /\ f[a] = hold[a].core /\ DOMAIN f = Holders /\ f[b] = hold[b].core
      BY <1>5, CsafAssumption DEF Summable
    <2>2. DOMAIN g = Holders /\ g[b] = hold[b].core /\ \A x \in Holders \ {a} : g[x] = f[x]
          /\ g[a] = hold[a].core - n
      BY <2>1 DEF WithEntry
    <2>3. [x \in Holders |-> hold'[x].core] = h
      <3>1. \A x \in Holders : hold'[x].core = IF x = b THEN hold[b].core + n ELSE g[x]
        BY <1>4, <1>8, <2>2
      <3>2. h = [x \in Holders |-> IF x = b THEN hold[b].core + n ELSE g[x]]
        <4>1. Holders \union {b} = Holders
          OBVIOUS
        <4> HIDE DEF g
        <4> QED BY <2>2, <4>1 DEF WithEntry
      <3> QED BY Zenon, <3>1, <3>2
    <2> HIDE DEF f
    <2>4. /\ Summable(g)
          /\ SumOfFunction(g) = SumOfFunction(f) + (hold[a].core - n) - hold[a].core
      BY <1>6, <2>1, SumEntry
    <2> HIDE DEF g
    <2>5. SumOfFunction(h) = SumOfFunction(g) + (hold[b].core + n) - hold[b].core
      BY <1>6, <2>2, <2>4, SumEntry
    <2>6. SumOfFunction(f) \in Int /\ SumOfFunction(g) \in Int
      BY <2>1, <2>4, SumType
    <2>7. SumOfFunction(h) = SumOfFunction(f)
      BY <1>5, <2>4, <2>5, <2>6
    <2> QED BY <2>3, <2>7 DEF CoreTotal, f
  <1> QED BY <1>1, <1>3, <1>9, <1>10, <1>11 DEF CsafInv

LEMMA LockStep ==
    ASSUME CsafInv, NEW a \in Holders, NEW n \in Nat,
           BalanceLockUpdate(a, n), now' = now, accrued' = accrued
    PROVE  CsafInv'
  <1>1. /\ now \in Nat /\ HoldersOK(hold, now, accrued) /\ LeasesOK(leases, now)
        /\ LeasedOK(hold, leases) /\ CoreTotal(hold) = Cardinality(Holders) * HolderBalance
    BY DEF CsafInv
  <1>2. /\ hold = [x \in Holders |-> hold[x]] /\ accrued = [x \in Holders |-> accrued[x]]
        /\ \A x \in Holders : /\ AccountOK(hold[x], now) /\ Available(hold[x]) >= 0
                              /\ accrued[x] \in Int /\ EarnedOK(hold[x], now, accrued[x])
    BY <1>1 DEF HoldersOK
  <1> DEFINE u == Locked(hold[a], now, n)
  <1>3. /\ n > 0 => Available(hold[a]) + TotalUnreleased(hold[a].lock) >= n
        /\ hold' = [hold EXCEPT ![a] = u] /\ leases' = leases
    BY DEF BalanceLockUpdate, Locked
  <1>4. /\ AccountOK(u, now) /\ EarnedOK(u, now, accrued[a]) /\ Available(u) >= 0
        /\ u.core = hold[a].core /\ u.leasedOut = hold[a].leasedOut
        /\ u.leasedIn = hold[a].leasedIn
    <2>1. /\ AccountOK(hold[a], now) /\ Available(hold[a]) >= 0
          /\ accrued[a] \in Int /\ EarnedOK(hold[a], now, accrued[a])
      BY <1>2
    <2> QED BY <1>1, <1>3, <2>1, LockOK
  <1> HIDE DEF u
  <1>5. hold' = [x \in Holders |-> IF x = a THEN u ELSE hold[x]]
    BY <1>2, <1>3
  <1>6. HoldersOK(hold', now', accrued')
    BY <1>2, <1>4, <1>5 DEF HoldersOK
  <1>7. \A x \in Holders : /\ hold'[x].leasedOut = hold[x].leasedOut
                           /\ hold'[x].leasedIn = hold[x].leasedIn
                           /\ hold'[x].core = hold[x].core
    BY <1>4, <1>5
  <1>8. LeasedOK(hold', leases')
    BY <1>1, <1>3, <1>7 DEF LeasedOK
  <1>9. CoreTotal(hold') = CoreTotal(hold)
    BY <1>7, CoreKept
  <1> QED BY <1>1, <1>3, <1>6, <1>8, <1>9 DEF CsafInv

LEMMA CollectStep ==
    ASSUME CsafInv, NEW a \in Holders, NEW b \in Holders, NEW n \in Nat, NEW time \in Nat,
           CsafCollect(a, b, n, time), now' = now, accrued' = accrued
    PROVE  CsafInv'
  <1>1. /\ now \in Nat /\ HoldersOK(hold, now, accrued) /\ LeasesOK(leases, now)
        /\ LeasedOK(hold, leases) /\ CoreTotal(hold) = Cardinality(Holders) * HolderBalance
    BY DEF CsafInv
  <1>2. /\ hold = [x \in Holders |-> hold[x]] /\ accrued = [x \in Holders |-> accrued[x]]
        /\ \A x \in Holders : /\ AccountOK(hold[x], now) /\ Available(hold[x]) >= 0
                              /\ accrued[x] \in Int /\ EarnedOK(hold[x], now, accrued[x])
    BY <1>1 DEF HoldersOK
  <1> DEFINE u == Collected(hold[a], n, time)
             from == [hold EXCEPT ![a] = u]
             v == [from[b] EXCEPT !.csaf = from[b].csaf + n]
  <1>3. /\ time <= now /\ LeftEarned(hold[a], n, time) >= 0
        /\ hold' = [from EXCEPT ![b].csaf = @ + n] /\ leases' = leases
    BY DEF CsafCollect, Collected, LeftEarned
  <1>4. /\ AccountOK(u, now) /\ EarnedOK(u, now, accrued[a])
        /\ u.core = hold[a].core /\ u.lock = hold[a].lock
        /\ u.leasedOut = hold[a].leasedOut /\ u.leasedIn = hold[a].leasedIn
    <2>1. /\ AccountOK(hold[a], now) /\ accrued[a] \in Int
          /\ EarnedOK(hold[a], now, accrued[a])
      BY <1>2
    <2> QED BY <1>1, <1>3, <2>1, CollectOK
  <1> HIDE DEF u
  <1>5. from = [x \in Holders |-> IF x = a THEN u ELSE hold[x]]
    BY <1>2
  <1> HIDE DEF from
  <1>6. /\ from = [x \in Holders |-> from[x]]
        /\ \A x \in Holders : /\ AccountOK(from[x], now) /\ EarnedOK(from[x], now, accrued[x])
                              /\ from[x].core = hold[x].core /\ from[x].lock = hold[x].lock
                              /\ from[x].leasedOut = hold[x].leasedOut
                              /\ from[x].leasedIn = hold[x].leasedIn
    BY <1>2, <1>4, <1>5
  <1>7. hold' = [from EXCEPT ![b] = v]
    BY <1>3
  <1>8. /\ AccountOK(v, now) /\ v.core = from[b].core /\ v.lock = from[b].lock
        /\ v.leasedOut = from[b].leasedOut /\ v.leasedIn = from[b].leasedIn
        /\ v.collected = from[b].collected /\ v.earned = from[b].earned
        /\ v.earnedAt = from[b].earnedAt
    <2>1. AccountOK(from[b], now)
      BY <1>6
    <2>2. from[b].csaf + n \in Nat /\ from[b].csaf + n \in Int
      BY <2>1 DEF AccountOK
    <2> QED BY <1>1, <2>1, <2>2, OtherFieldsOK
  <1>9. EarnedOK(v, now, accrued[b])
    <2>1. EarnedOK(from[b], now, accrued[b])
      BY <1>6
    <2> HIDE DEF v
    <2> QED BY <1>8, <2>1 DEF EarnedOK
  <1> HIDE DEF v
  <1>10. hold' = [x \in Holders |-> IF x = b THEN v ELSE from[x]]
    BY <1>6, <1>7
  <1>11. \A x \in Holders : /\ AccountOK(hold'[x], now) /\ EarnedOK(hold'[x], now, accrued[x])
                            /\ hold'[x].core = hold[x].core /\ hold'[x].lock = hold[x].lock
                            /\ hold'[x].leasedOut = hold[x].leasedOut
                            /\ hold'[x].leasedIn = hold[x].leasedIn
    BY <1>6, <1>8, <1>9, <1>10
  <1>12. \A x \in Holders : Available(hold'[x]) >= 0
    BY <1>2, <1>11 DEF Available
  <1>13. HoldersOK(hold', now', accrued')
    <2>1. hold' = [x \in Holders |-> hold'[x]]
      BY <1>10
    <2> QED BY <1>2, <1>11, <1>12, <2>1 DEF HoldersOK
  <1>14. LeasedOK(hold', leases')
    BY <1>1, <1>3, <1>11 DEF LeasedOK
  <1>15. CoreTotal(hold') = CoreTotal(hold)
    BY <1>11, CoreKept
  <1> QED BY <1>1, <1>3, <1>13, <1>14, <1>15 DEF CsafInv

LEMMA LeaseStep ==
    ASSUME CsafInv, NEW a \in Holders, NEW b \in Holders, a # b, NEW n \in Nat,
           NEW expires \in Nat, CsafLease(a, b, n, expires), now' = now, accrued' = accrued
    PROVE  CsafInv'
  <1>1. /\ now \in Nat /\ HoldersOK(hold, now, accrued) /\ LeasesOK(leases, now)
        /\ LeasedOK(hold, leases) /\ CoreTotal(hold) = Cardinality(Holders) * HolderBalance
    BY DEF CsafInv
  <1>2. /\ hold = [x \in Holders |-> hold[x]] /\ accrued = [x \in Holders |-> accrued[x]]
        /\ \A x \in Holders : /\ AccountOK(hold[x], now) /\ Available(hold[x]) >= 0
                              /\ accrued[x] \in Int /\ EarnedOK(hold[x], now, accrued[x])
    BY <1>1 DEF HoldersOK
  <1> DEFINE p == <<a, b>>
             rec == [amount |-> n, expires |-> expires]
             old == IF p \in DOMAIN leases THEN leases[p].amount ELSE 0
             delta == n - old
             u == [hold[a] EXCEPT !.leasedOut = hold[a].leasedOut + delta]
             v == [hold[b] EXCEPT !.leasedIn = hold[b].leasedIn + delta]
  <1>p. p \in Holders \X Holders /\ p[1] = a /\ p[2] = b
    OBVIOUS
  <1>3. /\ n = 0 \/ expires > now
        /\ p \notin DOMAIN leases => n > 0
        /\ delta > 0 => Available(hold[a]) >= delta
        /\ n > 0 => leases' = WithEntry(leases, p, rec)
        /\ ~(n > 0) => leases' = WithoutEntries(leases, {p})
        /\ hold' = [hold EXCEPT ![a].leasedOut = @ + delta, ![b].leasedIn = @ + delta]
    BY DEF CsafLease, WithEntry, WithoutEntries
  <1>rec. rec.amount = n /\ rec.expires = expires
    OBVIOUS
  <1> HIDE DEF p, rec
  <1>4. old \in Nat /\ delta \in Int
    BY <1>1 DEF LeasesOK
  <1> HIDE DEF old, delta
  <1>5. hold' = [x \in Holders |-> IF x = a THEN u ELSE IF x = b THEN v ELSE hold[x]]
    BY <1>2, <1>3
  <1>6. \A x \in Holders : /\ hold[x].core \in Nat /\ hold[x].leasedOut \in Int
                           /\ hold[x].leasedIn \in Int /\ TotalUnreleased(hold[x].lock) \in Nat
    BY <1>2, PledgeType DEF AccountOK
  <1>7. /\ AccountOK(u, now) /\ u.leasedOut = hold[a].leasedOut + delta
        /\ u.core = hold[a].core /\ u.lock = hold[a].lock /\ u.leasedIn = hold[a].leasedIn
        /\ u.collected = hold[a].collected /\ u.earned = hold[a].earned
        /\ u.earnedAt = hold[a].earnedAt
    <2>1. AccountOK(hold[a], now) /\ hold[a].leasedOut + delta \in Int
      BY <1>2, <1>4, <1>6
    <2> QED BY <1>1, <2>1, OtherFieldsOK
  <1>8. /\ AccountOK(v, now) /\ v.leasedIn = hold[b].leasedIn + delta
        /\ v.core = hold[b].core /\ v.lock = hold[b].lock /\ v.leasedOut = hold[b].leasedOut
        /\ v.collected = hold[b].collected /\ v.earned = hold[b].earned
        /\ v.earnedAt = hold[b].earnedAt
    <2>1. AccountOK(hold[b], now) /\ hold[b].leasedIn + delta \in Int
      BY <1>2, <1>4, <1>6
    <2> QED BY <1>1, <2>1, OtherFieldsOK
  <1> HIDE DEF u, v
  <1>9. EarnedOK(u, now, accrued[a]) /\ EarnedOK(v, now, accrued[b])
    <2>1. EarnedOK(hold[a], now, accrued[a]) /\ EarnedOK(hold[b], now, accrued[b])
      BY <1>2
    <2> QED BY <1>7, <1>8, <2>1 DEF EarnedOK
  <1>10. Available(v) >= 0 /\ Available(u) >= 0
    <2>1. Available(hold[b]) >= 0 /\ Available(v) = Available(hold[b])
      BY <1>2, <1>8 DEF Available
    <2>2. /\ Available(u) = hold[a].core - TotalUnreleased(hold[a].lock)
                            - (hold[a].leasedOut + delta)
          /\ Available(hold[a]) = hold[a].core - TotalUnreleased(hold[a].lock) - hold[a].leasedOut
          /\ Available(hold[a]) >= 0
      BY <1>2, <1>7 DEF Available
    <2>3. Available(u) >= 0
      BY <1>3, <1>4, <1>6, <2>2
    <2> QED BY <2>1, <2>3
  <1>11. HoldersOK(hold', now', accrued')
    BY <1>2, <1>5, <1>7, <1>8, <1>9, <1>10 DEF HoldersOK
  <1>12. LeasesOK(leases', now')
    <2>1. CASE n > 0
      <3>1. leases' = [x \in DOMAIN leases \union {p} |-> IF x = p THEN rec ELSE leases[x]]
        BY <1>3, <2>1 DEF WithEntry
      <3>2. n \in Nat \ {0} /\ expires >= now
        BY <1>1, <1>3, <2>1
      <3>3. DOMAIN leases' \subseteq Holders \X Holders
        BY <1>1, <1>p, <3>1 DEF LeasesOK
      <3> QED BY <1>1, <1>rec, <3>1, <3>2, <3>3 DEF LeasesOK
    <2>2. CASE ~(n > 0)
      <3>1. leases' = [x \in DOMAIN leases \ {p} |-> leases[x]]
        BY <1>3, <2>2 DEF WithoutEntries
      <3> QED BY <1>1, <3>1 DEF LeasesOK
    <2> QED BY <2>1, <2>2
  <1>13. ASSUME NEW K
         PROVE  Count(leases', K) = Count(leases, K) + (IF p \in K THEN delta ELSE 0)
    <2>1. CASE n > 0
      <3>1. leases' = WithEntry(leases, p, rec) /\ rec.amount \in Nat
        BY <1>3, <1>rec, <2>1
      <3>2. Count(leases', K) = Count(leases, K) + (IF p \in K THEN rec.amount - old ELSE 0)
        BY <1>1, <3>1, CountAdd DEF old
      <3> QED BY <1>rec, <3>2 DEF delta
    <2>2. CASE ~(n > 0)
      <3> DEFINE R == {p}
                 g == [x \in R \cap K |-> leases[x].amount]
      <3>1. leases' = WithoutEntries(leases, R) /\ R \subseteq DOMAIN leases /\ n = 0
        BY <1>3, <2>2
      <3>2. Count(leases', K) = Count(leases, K) - SumOfFunction(g)
        BY Zenon, <1>1, <3>1, CountRemove
      <3>3. /\ SumOfFunction(g) \in Nat /\ Summable(g)
            /\ Count(leases, K) \in Nat
        BY <1>1, <3>1, CountType DEF Count
      <3>4. CASE p \in K
        <4>1. p \in DOMAIN g /\ g[p] = old
          BY <3>1, <3>4 DEF old
        <4>2. SumOfFunction(g) = g[p] + SumOfFunction(WithoutEntries(g, {p}))
          BY <3>3, <4>1, SumRemove
        <4>3. DOMAIN WithoutEntries(g, {p}) = {}
          BY DEF WithoutEntries
        <4>4. SumOfFunction(WithoutEntries(g, {p})) = 0
          BY <4>3, SumEmpty
        <4>5. SumOfFunction(g) = old
          BY <1>4, <4>1, <4>2, <4>4
        <4> HIDE DEF g
        <4>6. Count(leases', K) = Count(leases, K) + delta
          BY <1>4, <3>1, <3>2, <3>3, <4>5 DEF delta
        <4> QED BY <3>4, <4>6
      <3>5. CASE p \notin K
        <4>1. DOMAIN g = {}
          BY <3>5
        <4>2. SumOfFunction(g) = 0
          BY Zenon, <4>1, SumEmpty
        <4> HIDE DEF g
        <4>3. Count(leases', K) = Count(leases, K) + 0
          BY <3>2, <3>3, <4>2
        <4> QED BY <3>5, <4>3
      <3> QED BY <3>4, <3>5
    <2> QED BY <2>1, <2>2
  <1>14. LeasedOK(hold', leases')
    <2>1. ASSUME NEW x \in Holders
          PROVE  /\ Count(leases', From(x)) = Count(leases, From(x)) + (IF x = a THEN delta ELSE 0)
                 /\ Count(leases', To(x)) = Count(leases, To(x)) + (IF x = b THEN delta ELSE 0)
      <3>1. (p \in From(x) <=> x = a) /\ (p \in To(x) <=> x = b)
        BY <1>p DEF From, To
      <3> QED BY <1>13, <3>1
    <2>2. \A x \in Holders : Count(leases, From(x)) \in Int /\ Count(leases, To(x)) \in Int
      BY SMTT(30), <1>1, <1>6 DEF LeasedOK
    <2>3. ASSUME NEW x \in Holders
          PROVE  /\ hold'[x].leasedOut = hold[x].leasedOut + (IF x = a THEN delta ELSE 0)
                 /\ hold'[x].leasedIn = hold[x].leasedIn + (IF x = b THEN delta ELSE 0)
      BY <1>4, <1>5, <1>6, <1>7, <1>8
    <2> QED BY <1>1, <2>1, <2>3 DEF LeasedOK
  <1>15. CoreTotal(hold') = CoreTotal(hold)
    <2>1. \A x \in Holders : hold'[x].core = hold[x].core
      BY <1>5, <1>7, <1>8
    <2> QED BY <2>1, CoreKept
  <1> QED BY <1>1, <1>11, <1>12, <1>14, <1>15 DEF CsafInv

LEMMA EndBlockStep ==
    ASSUME CsafInv, CsafEndBlock
    PROVE  CsafInv'
  <1>1. /\ now \in Nat /\ HoldersOK(hold, now, accrued) /\ LeasesOK(leases, now)
        /\ LeasedOK(hold, leases) /\ CoreTotal(hold) = Cardinality(Holders) * HolderBalance
    BY DEF CsafInv
  <1>2. /\ hold = [x \in Holders |-> hold[x]] /\ accrued = [x \in Holders |-> accrued[x]]
        /\ \A x \in Holders : /\ AccountOK(hold[x], now) /\ Available(hold[x]) >= 0
                              /\ accrued[x] \in Int /\ EarnedOK(hold[x], now, accrued[x])
    BY <1>1 DEF HoldersOK
  <1> DEFINE old == {p \in DOMAIN leases : leases[p].expires <= now}
             out(x) == Leased({p \in old : p[1] = x})
             in(x) == Leased({p \in old : p[2] = x})
             gone(x) == Due(hold[x].lock, now) # {} /\ Emptied(ReleaseDue(hold[x].lock, now))
             more(x) == IF (now + 1) % Minute = 0 THEN Minute * hold[x].lock.pledge ELSE 0
  <1>3. /\ now' = now + 1
        /\ hold' = [x \in Holders |->
               [hold[x] EXCEPT !.leasedOut = @ - out(x), !.leasedIn = @ - in(x),
                               !.lock = ReleaseDue(hold[x].lock, now),
                               !.locking = @ /\ ~gone(x)]]
        /\ leases' = WithoutEntries(leases, old)
        /\ accrued' = [x \in Holders |-> accrued[x] + more(x)]
    <2>1. now' = now + 1 /\ leases' = WithoutEntries(leases, old)
      BY Zenon DEF CsafEndBlock, WithoutEntries
    <2>2. accrued' = [x \in Holders |-> accrued[x] + more(x)]
      BY Zenon DEF CsafEndBlock
    <2>3. hold' = [x \in Holders |->
               [hold[x] EXCEPT !.leasedOut = @ - out(x), !.leasedIn = @ - in(x),
                               !.lock = ReleaseDue(hold[x].lock, now),
                               !.locking = @ /\ ~gone(x)]]
      BY Zenon DEF CsafEndBlock
    <2> QED BY Zenon, <2>1, <2>2, <2>3
  <1>4. ASSUME NEW K
        PROVE  Count(leases', K) = Count(leases, K) - Leased(old \cap K)
    <2>1. old \subseteq DOMAIN leases
      OBVIOUS
    <2> HIDE DEF old
    <2> QED BY Zenon, <1>1, <1>3, <2>1, CountRemove DEF Leased
  <1>5. ASSUME NEW x \in Holders
        PROVE  /\ out(x) = Leased(old \cap From(x)) /\ in(x) = Leased(old \cap To(x))
               /\ out(x) \in Nat /\ in(x) \in Nat
    <2>1. /\ {p \in old : p[1] = x} = old \cap From(x)
          /\ {p \in old : p[2] = x} = old \cap To(x)
      BY <1>1 DEF LeasesOK, From, To
    <2>2. old \cap From(x) \subseteq DOMAIN leases /\ old \cap To(x) \subseteq DOMAIN leases
      OBVIOUS
    <2> HIDE DEF old
    <2>3. Leased(old \cap From(x)) \in Nat /\ Leased(old \cap To(x)) \in Nat
      BY <1>1, <2>2, CountType DEF Leased
    <2> QED BY Zenon, <2>1, <2>3
  <1>6. LeasesOK(leases', now')
    <2>1. leases' = [p \in DOMAIN leases \ old |-> leases[p]]
      BY Zenon, <1>3 DEF WithoutEntries
    <2>2. \A p \in DOMAIN leases \ old : /\ leases[p].amount \in Nat \ {0}
                                         /\ leases[p].expires \in Nat
                                         /\ leases[p].expires >= now + 1
      BY <1>1 DEF LeasesOK
    <2>3. DOMAIN leases \ old \subseteq Holders \X Holders
      BY <1>1 DEF LeasesOK
    <2> HIDE DEF old
    <2> QED BY Zenon, <1>3, <2>1, <2>2, <2>3 DEF LeasesOK
  <1> HIDE DEF out, in, gone, old
  <1>7. ASSUME NEW x \in Holders
        PROVE  /\ AccountOK(hold'[x], now') /\ EarnedOK(hold'[x], now', accrued'[x])
               /\ accrued'[x] \in Int /\ Available(hold'[x]) >= 0
               /\ hold'[x].core = hold[x].core
               /\ hold'[x].leasedOut = hold[x].leasedOut - out(x)
               /\ hold'[x].leasedIn = hold[x].leasedIn - in(x)
    <2> DEFINE s == hold[x]
               u == hold'[x]
               o == out(x)
               i == in(x)
               g == ~gone(x)
               acc == accrued[x]
               new == accrued'[x]
    <2>1. u = AtEnd(s, now, o, i, g)
      BY <1>3, Zenon DEF AtEnd
    <2>2. new = acc + MinuteEarned(s, now)
      BY Zenon, <1>3 DEF MinuteEarned
    <2>3. /\ AccountOK(s, now) /\ Available(s) >= 0 /\ acc \in Int /\ EarnedOK(s, now, acc)
          /\ now \in Nat
      BY <1>1, <1>2
    <2>o. o \in Nat /\ i \in Int
      <3>1. o \in Nat /\ i \in Nat
        BY Zenon, <1>5
      <3> HIDE DEF o, i
      <3> QED BY <3>1
    <2> HIDE DEF s, u, o, i, g, acc, new
    <2>4. /\ AccountOK(u, now + 1) /\ EarnedOK(u, now + 1, new) /\ new \in Int
          /\ Available(u) >= 0 /\ u.core = s.core
          /\ u.leasedOut = s.leasedOut - o /\ u.leasedIn = s.leasedIn - i
      BY <2>1, <2>2, <2>3, <2>o, EndBlockOK
    <2> QED BY Zenon, <1>3, <2>4 DEF s, u, o, i, new
  <1>8. HoldersOK(hold', now', accrued')
    <2>1. hold' = [x \in Holders |-> hold'[x]] /\ accrued' = [x \in Holders |-> accrued'[x]]
      BY Zenon, <1>3
    <2> QED BY <1>7, <2>1 DEF HoldersOK
  <1>9. LeasedOK(hold', leases')
    <2>1. \A x \in Holders : /\ Count(leases', From(x)) = Count(leases, From(x)) - out(x)
                             /\ Count(leases', To(x)) = Count(leases, To(x)) - in(x)
      BY Zenon, <1>4, <1>5
    <2> QED BY <1>1, <1>7, <2>1 DEF LeasedOK
  <1>10. CoreTotal(hold') = CoreTotal(hold)
    <2>1. \A x \in Holders : hold'[x].core = hold[x].core
      BY <1>7
    <2> QED BY <2>1, CoreKept
  <1>11. now' \in Nat
    <2>1. now' = now + 1
      BY Zenon DEF CsafEndBlock
    <2> QED BY <1>1, <2>1
  <1> QED BY <1>1, <1>6, <1>8, <1>9, <1>10, <1>11 DEF CsafInv

LEMMA CsafStep == CsafInv /\ [CsafNext]_cvars => CsafInv'
  <1> SUFFICES ASSUME CsafInv, [CsafNext]_cvars PROVE CsafInv'
    OBVIOUS
  <1>now. now \in Nat
    BY DEF CsafInv
  <1>amounts. CsafAmounts \subseteq Nat /\ LeaseTimes \subseteq Nat
    BY CsafAssumption
  <1>1. ASSUME NEW a \in Holders, NEW b \in Holders, NEW n \in CsafAmounts, a # b,
               Transfer(a, b, n), UNCHANGED <<now, accrued>>
        PROVE  CsafInv'
    BY <1>1, <1>amounts, TransferStep
  <1>2. ASSUME NEW a \in Holders, NEW b \in Holders, NEW n \in CsafAmounts, a # b,
               NEW d \in LeaseTimes, CsafLease(a, b, n, now + d), UNCHANGED <<now, accrued>>
        PROVE  CsafInv'
    <2>1. now + d \in Nat /\ n \in Nat
      BY <1>now, <1>amounts
    <2> QED BY <1>2, <2>1, LeaseStep
  <1>3. ASSUME NEW a \in Holders, NEW n \in CsafAmounts,
               BalanceLockUpdate(a, n), UNCHANGED <<now, accrued>>
        PROVE  CsafInv'
    BY <1>3, <1>amounts, LockStep
  <1>4. ASSUME NEW a \in Holders, NEW b \in Holders, NEW n \in CsafAmounts, NEW t \in 0..now,
               CsafCollect(a, b, n, t), UNCHANGED <<now, accrued>>
        PROVE  CsafInv'
    <2>1. t \in Nat /\ n \in Nat
      BY <1>now, <1>amounts
    <2> QED BY <1>4, <2>1, CollectStep
  <1>5. CASE CsafEndBlock
    BY <1>5, EndBlockStep
  <1>6. CASE UNCHANGED cvars
    BY <1>6 DEF CsafInv, cvars
  <1>7. CASE CsafCall /\ UNCHANGED <<now, accrued>>
    BY <1>1, <1>2, <1>3, <1>4, <1>7 DEF CsafCall
  <1> QED BY <1>5, <1>6, <1>7 DEF CsafNext

LEMMA CsafInvHolds == CsafSpec => []CsafInv
  BY CsafInitInv, CsafStep, PTL DEF CsafSpec

(* A balance always covers all that is locked, being released and leased   *)
(* out of it, as check_invariants demands: what get_available_core_balance *)
(* returns is never negative, whatever transfers, locks, leases, and their *)
(* ends follow one another, for any number of accounts and any parameters. *)
THEOREM BalancesCover == CsafSpec => []BalanceCovers
  <1>1. CsafInv => BalanceCovers
    <2> SUFFICES ASSUME CsafInv PROVE BalanceCovers
      OBVIOUS
    <2>1. /\ now \in Nat /\ HoldersOK(hold, now, accrued) /\ LeasesOK(leases, now)
          /\ LeasedOK(hold, leases) /\ CoreTotal(hold) = Cardinality(Holders) * HolderBalance
      BY DEF CsafInv
    <2>2. ASSUME NEW a \in Holders
          PROVE  /\ Available(hold[a]) >= 0 /\ EntriesAddUp(hold[a].lock)
                 /\ \A b \in DOMAIN hold[a].lock.releasing : b >= now
      BY Zenon, <2>1 DEF HoldersOK, AccountOK, PledgeOK
    <2>3. ASSUME NEW a \in Holders
          PROVE  /\ hold[a].leasedOut = Leased({p \in DOMAIN leases : p[1] = a})
                 /\ hold[a].leasedIn = Leased({p \in DOMAIN leases : p[2] = a})
      <3>1. /\ {p \in DOMAIN leases : p[1] = a} = DOMAIN leases \cap From(a)
            /\ {p \in DOMAIN leases : p[2] = a} = DOMAIN leases \cap To(a)
        BY <2>1 DEF LeasesOK, From, To
      <3> QED BY Zenon, <2>1, <3>1 DEF LeasedOK, Count, Leased
    <2>4. \A p \in DOMAIN leases : leases[p].amount > 0 /\ leases[p].expires >= now
      BY <2>1 DEF LeasesOK
    <2> QED BY Zenon, <2>1, <2>2, <2>3, <2>4 DEF BalanceCovers, CoreTotal
  <1> QED BY <1>1, CsafInvHolds, PTL

(* CSAF is collected once for what a locked balance has earned: what an    *)
(* account has collected and has left, and what it has not been credited   *)
(* yet, never exceeds what its balance was worth at the end of each        *)
(* minute, also when csaf_collect states a time in the past.               *)
THEOREM CollectedOnce == CsafSpec => []CsafEarned
  <1>1. CsafInv => CsafEarned
    BY DEF CsafInv, HoldersOK, EarnedOK, CsafEarned
  <1> QED BY <1>1, CsafInvHolds, PTL
==============================================================================
