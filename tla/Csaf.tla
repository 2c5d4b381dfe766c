-------------------------------- MODULE Csaf ---------------------------------
(***************************************************************************)
(* What an account may do with its core balance while parts of it are      *)
(* locked or leased out, and the coin-seconds that a locked balance earns, *)
(* from which the free operation allowance, CSAF, is collected.            *)
(*                                                                         *)
(* One block is one second; now is both the number and the time of the     *)
(* block that is being applied.  Coin-seconds are counted to the minute.   *)
(***************************************************************************)
EXTENDS PledgeBalance

CONSTANTS
    Holders,            \* the accounts
    HolderBalance,      \* the balance they start with
    CsafAmounts,        \* bound: amounts that are moved, locked or leased
    UnlockDelay,        \* unlocked_balance_release_delay
    Minute,             \* seconds in a minute (60)
    CsafWindow,         \* csaf_accumulate_window
    CsafRate,           \* csaf_rate
    MaxCsaf,            \* max_csaf_per_account
    LockModulus,        \* csaf_limit_lock_balance_modulus, in percent
    CollectOffset,      \* GRAPHENE_MAX_CSAF_COLLECTING_TIME_OFFSET
    LeaseTimes,         \* bound: how long leases last
    MaxNow,             \* bound: the last block
    MaxCsafCalls        \* bound: the number of calls

ASSUME CsafAssumption ==
    /\ IsFiniteSet(Holders) /\ HolderBalance \in Nat /\ CsafAmounts \subseteq Nat
    /\ UnlockDelay \in Nat /\ LeaseTimes \subseteq Nat
    /\ Minute \in Nat \ {0} /\ CsafWindow \in Nat \ {0}
    /\ CsafRate \in Nat /\ MaxCsaf \in Nat /\ LockModulus \in Nat /\ CollectOffset \in Nat
    /\ MaxNow \in Nat \ {0} /\ MaxCsafCalls \in Nat

VARIABLES
    hold,               \* the accounts' statistics and locked balances
    leases,             \* csaf_lease_object: from and to |-> amount and expiration
    now,
    csafCalls,          \* how many calls there have been
    accrued             \* history: coin-seconds of the locked balance, minute by minute

cvars == <<hold, leases, now, csafCalls, accrued>>

CsafInit ==
    /\ hold = [a \in Holders |->
                  [core |-> HolderBalance, leasedOut |-> 0, leasedIn |-> 0,
                   locking |-> FALSE, lock |-> NewPledge(0), csaf |-> 0, collected |-> 0,
                   earned |-> 0, earnedAt |-> 0, average |-> 0, averageAt |-> 0]]
    /\ leases = [p \in {} |-> {}]
    /\ now = 1 /\ csafCalls = 0
    /\ accrued = [a \in Holders |-> 0]

-----------------------------------------------------------------------------
Rounded(t) == t - (t % Minute)
Available(s) == s.core - TotalUnreleased(s.lock) - s.leasedOut

NewAverage(s, t) ==
    LET delta == Rounded(t) - s.averageAt
    IN CASE delta <= 0 -> s.average
         [] delta >= CsafWindow -> s.lock.pledge
         [] OTHER -> (s.average * (CsafWindow - delta) + s.lock.pledge * delta) \div CsafWindow

CoinSecondsUncapped(s, t) ==    \* mutant: the rounded time is not used
    s.earned + s.lock.pledge * (t - s.earnedAt)

(* compute_coin_seconds_earned, as of hard fork 0.5. *)
CoinSeconds(s, t) ==
    LET more == s.lock.pledge * Max({0, Rounded(t) - s.earnedAt})
    IN Min({s.earned + more, NewAverage(s, t) * CsafWindow})

UpdateCoinSeconds(s, t) ==
    LET r == Rounded(t)
    IN IF r <= s.earnedAt /\ r <= s.averageAt THEN s
       ELSE [s EXCEPT !.earned = CoinSeconds(s, r), !.earnedAt = r,
                      !.average = NewAverage(s, r), !.averageAt = r]

-----------------------------------------------------------------------------
Transfer(a, b, n) ==
    /\ n > 0 /\ Available(hold[a]) >= n
    /\ hold' = [hold EXCEPT ![a].core = @ - n, ![b].core = @ + n]
    /\ UNCHANGED leases

LockTakesAvailable(a, n) ==     \* mutant: what is leased out can be locked
    /\ n > 0 => /\ n # hold[a].lock.pledge
                /\ hold[a].core >= n
    /\ hold' = [hold EXCEPT ![a] = [UpdateCoinSeconds(@, now) EXCEPT
                   !.locking = TRUE, !.lock = UpdatePledge(@, n, now + UnlockDelay)]]
    /\ UNCHANGED leases

(* balance_lock_update; what is being released can be locked again. *)
BalanceLockUpdate(a, n) ==
    /\ n > 0 => /\ hold[a].locking => n # hold[a].lock.pledge
                /\ Available(hold[a]) + TotalUnreleased(hold[a].lock) >= n
    /\ hold' = [hold EXCEPT ![a] = [UpdateCoinSeconds(hold[a], now) EXCEPT
                   !.lock = IF hold[a].locking THEN UpdatePledge(@, n, now + UnlockDelay)
                            ELSE NewPledge(n),
                   !.locking = TRUE]]
    /\ UNCHANGED leases

CsafLease(a, b, n, expires) ==
    LET p == <<a, b>>
        delta == n - IF p \in DOMAIN leases THEN leases[p].amount ELSE 0
    IN /\ n = 0 \/ expires > now
       /\ IF p \in DOMAIN leases THEN leases[p] # [amount |-> n, expires |-> expires] ELSE n > 0
       /\ delta > 0 => Available(hold[a]) >= delta
       /\ leases' = IF n > 0
                    THEN [x \in DOMAIN leases \union {p} |->
                             IF x = p THEN [amount |-> n, expires |-> expires] ELSE leases[x]]
                    ELSE [x \in DOMAIN leases \ {p} |-> leases[x]]
       /\ hold' = [hold EXCEPT ![a].leasedOut = @ + delta, ![b].leasedIn = @ + delta]

CsafCollect(a, b, n, time) ==
    LET available == CoinSeconds(hold[a], time)
        left == available - n * CsafRate
        extra == (hold[b].lock.pledge * LockModulus) \div 100
        from == [hold EXCEPT ![a] = [hold[a] EXCEPT !.earned = left, !.collected = @ + n,
                                                    !.earnedAt = Max({@, Rounded(time)})]]
    IN /\ n > 0 /\ n + hold[b].csaf <= MaxCsaf + extra
       /\ time <= now /\ time + CollectOffset >= now
       /\ left >= 0
       /\ hold' = [from EXCEPT ![b].csaf = @ + n]
       /\ UNCHANGED leases

(* What the leases of a set amount to together. *)
Leased(S) == SumOfFunction([p \in S |-> leases[p].amount])

(* The end of a block: leases that expired end, balances are released. *)
CsafEndBlock ==
    LET old == {p \in DOMAIN leases : leases[p].expires <= now}
        After(a) ==
            LET s == hold[a]
                lock == ReleaseDue(s.lock, now)
                gone == Due(s.lock, now) # {} /\ Emptied(lock)
            IN [s EXCEPT !.leasedOut = @ - Leased({p \in old : p[1] = a}),
                         !.leasedIn = @ - Leased({p \in old : p[2] = a}),
                         !.lock = lock, !.locking = @ /\ ~gone]
        minute == (now + 1) % Minute = 0
    IN /\ now < MaxNow
       /\ now' = now + 1
       /\ hold' = [a \in Holders |-> After(a)]
       /\ leases' = [p \in DOMAIN leases \ old |-> leases[p]]
       /\ accrued' = [a \in Holders |->
             accrued[a] + IF minute THEN Minute * hold[a].lock.pledge ELSE 0]
       /\ UNCHANGED csafCalls

CsafCall ==
    \/ \E a, b \in Holders, n \in CsafAmounts :
           a # b /\ (Transfer(a, b, n) \/ \E d \in LeaseTimes : CsafLease(a, b, n, now + d))
    \/ \E a \in Holders, n \in CsafAmounts : BalanceLockUpdate(a, n)
    \/ \E a, b \in Holders, n \in CsafAmounts, t \in 0..now : CsafCollect(a, b, n, t)

CsafNext ==
    \/ csafCalls < MaxCsafCalls /\ CsafCall /\ csafCalls' = csafCalls + 1
                                /\ UNCHANGED <<now, accrued>>
    \/ CsafEndBlock

CsafSpec == CsafInit /\ [][CsafNext]_cvars

-----------------------------------------------------------------------------
CsafTypeOK ==
    /\ now \in 1..MaxNow /\ csafCalls \in 0..MaxCsafCalls
    /\ DOMAIN leases \subseteq Holders \X Holders
    /\ \A a \in Holders : /\ hold[a].core \in Nat /\ hold[a].csaf \in Nat
                          /\ hold[a].earned \in Nat /\ hold[a].earnedAt \in 0..now

(* check_invariants: a balance covers all that is locked, still being      *)
(* released and leased out, whatever the order of transfers, locks, leases *)
(* and their ends; the statistics agree with the leases; nothing is kept   *)
(* beyond the block that releases it, and no core appears or disappears.   *)
BalanceCovers ==
    /\ \A a \in Holders :
          LET s == hold[a]
          IN /\ Available(s) >= 0 /\ EntriesAddUp(s.lock)
             /\ \A b \in DOMAIN s.lock.releasing : b >= now
             /\ s.leasedOut = Leased({p \in DOMAIN leases : p[1] = a})
             /\ s.leasedIn = Leased({p \in DOMAIN leases : p[2] = a})
    /\ \A p \in DOMAIN leases : leases[p].amount > 0 /\ leases[p].expires >= now
    /\ SumOfFunction([a \in Holders |-> hold[a].core]) = Cardinality(Holders) * HolderBalance

(* CSAF is collected at most once for what a locked balance earned: what   *)
(* an account has collected, has left and has not yet been credited is no  *)
(* more than its locked balance was worth at the end of each minute, also  *)
(* when the time that a collection states is in the past.                  *)
CsafEarned ==
    \A a \in Holders :
        LET s == hold[a]
        IN s.collected * CsafRate + s.earned + s.lock.pledge * (Rounded(now) - s.earnedAt)
               <= accrued[a]
==============================================================================
