------------------------------- MODULE Market --------------------------------
(***************************************************************************)
(* The market of the core asset and a user-issued one: limit orders, their *)
(* matching, market fees and the rewards paid out of them.  Orders that    *)
(* sell core count as votes of their seller, if that is a voter.           *)
(*                                                                         *)
(* Everything a call changes is in one record, market, which the steps of  *)
(* a call hand on; a call that throws leaves it as it was.  Balances are   *)
(* available as a whole: pledges and leases are in other modules.          *)
(***************************************************************************)
EXTENDS Integers, Sequences, SequencesExt, FiniteSetsExt

CONSTANTS
    Traders,            \* the accounts
    Voters,             \* those that are voters at first
    MinVotingBalance,   \* min_governance_voting_balance
    Supply,             \* of each asset, what each trader has at first
    FeePercent,         \* of each asset, market_fee_percent
    MaxMarketFee,       \* of each asset, max_market_fee
    RewardPercent,      \* of each asset, reward_percent
    ReferrerPercent,    \* referrer_percent of every trader
    Referrer, Registrar,\* of every trader
    Offers,             \* bound: what orders sell and ask for
    Lifetimes,          \* bound: for how long
    MaxOrders,          \* bound: how many orders there ever are
    MaxClock            \* bound: the last head_block_time

VARIABLES
    market,             \* the objects
    clock,              \* head_block_time
    nextOrder,          \* the id of the next order
    outcome             \* how the last call ended

mvars == <<market, clock, nextOrder, outcome>>

Core == "core"
Assets == {Core, "usd"}
Other(asset) == IF asset = Core THEN "usd" ELSE Core
Hundred == 100          \* GRAPHENE_100_PERCENT

NoOrders == [i \in {} |-> {}]

MarketInit ==
    /\ market = [orders      |-> NoOrders,
                 balance     |-> [x \in Assets |-> [a \in Traders |-> Supply[x]]],
                 inOrders    |-> [a \in Traders |-> 0],
                 voter       |-> [a \in Traders |-> a \in Voters],
                 votes       |-> [a \in Traders |-> IF a \in Voters THEN Supply[Core] ELSE 0],
                 accumulated |-> [x \in Assets |-> 0],
                 uncollected |-> [x \in Assets |-> [a \in Traders |-> 0]],
                 fills       |-> {},
                 throws      |-> FALSE]
    /\ clock = 0 /\ nextOrder = 1 /\ outcome = "ok"

-----------------------------------------------------------------------------
(* A price is what an order sells for what it asks, both in full.  An      *)
(* amount of one asset in terms of the other, rounded down and up.         *)
ToQuote(n, price) == (n * price.quote) \div price.base
ToBase(n, price) == (n * price.base) \div price.quote
ToQuoteUp(n, price) == (n * price.quote + price.base - 1) \div price.base
ToBaseUp(n, price) == (n * price.base + price.quote - 1) \div price.quote

AmountToReceive(order) == ToQuote(order.for_sale, order.price)

(* The order of by_price: the better price, then the older order. *)
Better(p, q) == p.base * q.quote > q.base * p.quote
Before(s, i, j) ==
    LET p == s.orders[i].price
        q == s.orders[j].price
    IN Better(p, q) \/ (~Better(q, p) /\ i < j)

Selling(s, asset) == {i \in DOMAIN s.orders : s.orders[i].sells = asset}

(* The opposite side has a price at least as good as the order's. *)
Meets(maker, taker) ==
    maker.price.base * taker.price.base >= maker.price.quote * taker.price.quote

-----------------------------------------------------------------------------
(* update_voter_effective_votes is in module Voting; here the votes are    *)
(* those a voter has of its own.                                           *)
RefreshVotes(s, a) ==
    IF s.voter[a]
    THEN [s EXCEPT !.votes[a] = s.balance[Core][a] + s.inOrders[a]]
    ELSE s

(* A voter with too small a balance is invalidated. *)
AdjustBalance(s, a, asset, delta) ==
    LET paid == [s EXCEPT !.balance[asset][a] = @ + delta]
        small == delta < 0 /\ paid.balance[Core][a] < MinVotingBalance
    IN IF delta = 0 \/ asset # Core THEN paid
       ELSE RefreshVotes(IF small THEN [paid EXCEPT !.voter[a] = FALSE] ELSE paid, a)

RemoveOrder(s, id) ==
    [s EXCEPT !.orders = [i \in DOMAIN @ \ {id} |-> @[i]]]

CancelKeepsInOrders(s, id) ==    \* mutant: total_core_in_orders is not reduced
    LET order == s.orders[id]
    IN RemoveOrder(AdjustBalance(s, order.seller, order.sells, order.for_sale), id)

CancelLimitOrder(s, id) ==
    LET order == s.orders[id]
        left == IF order.sells = Core
                THEN [s EXCEPT !.inOrders[order.seller] = @ - order.for_sale]
                ELSE s
    IN RemoveOrder(AdjustBalance(left, order.seller, order.sells, order.for_sale), id)

CullNever(s, id) == s    \* mutant: small orders stay

MaybeCullSmallOrder(s, id) ==
    IF AmountToReceive(s.orders[id]) = 0 THEN CancelLimitOrder(s, id) ELSE s

CalculatePercent(n, percent) == (n * percent) \div Hundred

CalculateMarketFee(asset, amount) ==
    Min({CalculatePercent(amount, FeePercent[asset]), MaxMarketFee[asset]})

PayMarketFeesRounded(s, a, asset, receives) ==    \* mutant: both shares rounded down
    LET fee == CalculateMarketFee(asset, receives)
        reward == CalculatePercent(fee, RewardPercent[asset])
        referrer == CalculatePercent(reward, ReferrerPercent)
        registrar == CalculatePercent(reward, Hundred - ReferrerPercent)
        rewarded == [s EXCEPT !.uncollected[asset][Referrer] = @ + referrer]
    IN [rewarded EXCEPT !.uncollected[asset][Registrar] = @ + registrar,
                        !.accumulated[asset] = @ + fee - reward,
                        !.throws = @ \/ (reward > 0 /\ reward >= fee)]

(* The reward must be less than the fee, or the trade throws. *)
PayMarketFees(s, a, asset, receives) ==
    LET fee == CalculateMarketFee(asset, receives)
        reward == CalculatePercent(fee, RewardPercent[asset])
        referrer == CalculatePercent(reward, ReferrerPercent)
        rewarded == [s EXCEPT !.uncollected[asset][Referrer] = @ + referrer]
    IN [rewarded EXCEPT !.uncollected[asset][Registrar] = @ + reward - referrer,
                        !.accumulated[asset] = @ + fee - reward,
                        !.throws = @ \/ (reward > 0 /\ reward >= fee)]

PayOrder(s, a, asset, receives, pays) ==
    LET left == IF asset = Core THEN s
                ELSE RefreshVotes([s EXCEPT !.inOrders[a] = @ - pays], a)
    IN AdjustBalance(left, a, asset, receives)

(* An order that has sold all is removed, and one that is left may be culled. *)
ReduceOrder(s, id, pays, cull) ==
    LET less == [s EXCEPT !.orders[id].for_sale = @ - pays]
    IN IF pays = s.orders[id].for_sale THEN RemoveOrder(s, id)
       ELSE IF cull THEN MaybeCullSmallOrder(less, id)
       ELSE less

FillLimitOrder(s, id, pays, receives, cull) ==
    LET order == s.orders[id]
        asset == Other(order.sells)
        fee == CalculateMarketFee(asset, receives)
        paid == PayOrder(PayMarketFees(s, order.seller, asset, receives),
                         order.seller, asset, receives - fee, pays)
    IN ReduceOrder([paid EXCEPT !.fills = @ \union
                       {[order |-> id, price |-> order.price,
                         pays |-> pays, receives |-> receives]}], id, pays, cull)

(* Both orders are filled; one of them has to be gone then. *)
Trade(s, taker, maker, cost, bought, cull) ==
    LET Checked(t) == [t EXCEPT !.throws = @ \/ {taker, maker} \subseteq DOMAIN t.orders]
    IN Checked(FillLimitOrder(FillLimitOrder(s, taker, cost, bought, cull),
                              maker, bought, cost, TRUE))

MatchDown(s, taker, maker) ==    \* mutant: what the maker gets is rounded down
    LET price == s.orders[maker].price
        offered == s.orders[taker].for_sale
        stock == s.orders[maker].for_sale
        takes == offered <= ToQuote(stock, price)
        bought == IF takes THEN ToBase(offered, price)
                  ELSE ToBase(ToQuote(stock, price), price)
        cost == IF takes THEN ToQuote(bought, price) ELSE ToQuote(stock, price)
    IN IF takes /\ bought = 0 THEN s
       ELSE Trade(s, taker, maker, cost, bought, takes)

(* The taker buys what it offers is worth, or all that the maker has.  The *)
(* smaller order gets its amount rounded down, and the other one pays for  *)
(* that, rounded up.  A taker that would get nothing ends here.            *)
Match(s, taker, maker) ==
    LET price == s.orders[maker].price
        offered == s.orders[taker].for_sale
        stock == s.orders[maker].for_sale
        takes == offered <= ToQuote(stock, price)
        bought == IF takes THEN ToBase(offered, price)
                  ELSE ToBaseUp(ToQuote(stock, price), price)
        cost == IF takes THEN ToQuoteUp(bought, price) ELSE ToQuote(stock, price)
    IN IF takes /\ bought = 0 THEN s
       ELSE Trade(s, taker, maker, cost, bought, takes)

(* Matching goes on while only makers were filled: a maker that is still   *)
(* there ends it, and so does the end of the taker.                        *)
MatchAll(s, id, makers) ==
    LET Matched(t, maker) ==
            [s |-> t, finished |-> id \notin DOMAIN t.orders \/ maker \in DOMAIN t.orders]
        Step(r, maker) ==
            IF r.finished THEN r ELSE Matched(Match(r.s, id, maker), maker)
    IN FoldLeft(Step, [s |-> s, finished |-> FALSE], makers).s

(* Only an order at the front of its side of the book is matched. *)
ApplyOrder(s, id) ==
    LET order == s.orders[id]
        front == \A i \in Selling(s, order.sells) : ~Before(s, i, id)
        makers == SetToSortSeq({i \in Selling(s, Other(order.sells)) :
                                    Meets(s.orders[i], order)},
                               LAMBDA i, j : Before(s, i, j))
        Left(t) == IF id \in DOMAIN t.orders THEN MaybeCullSmallOrder(t, id) ELSE t
    IN IF front THEN Left(MatchAll(s, id, makers)) ELSE s

-----------------------------------------------------------------------------
Fresh == [market EXCEPT !.fills = {}]

(* limit_order_create: a call that throws changes nothing. *)
LimitOrderCreate(a, asset, offer, life, fillOrKill) ==
    LET held == IF asset = Core
                THEN [Fresh EXCEPT !.inOrders[a] = @ + offer.base] ELSE Fresh
        paid == AdjustBalance(held, a, asset, -offer.base)
        order == [seller |-> a, sells |-> asset, for_sale |-> offer.base,
                  price |-> offer, expiration |-> clock + life]
        placed == [paid EXCEPT !.orders = [i \in DOMAIN @ \union {nextOrder} |->
                      IF i = nextOrder THEN order ELSE @[i]]]
    IN /\ nextOrder <= MaxOrders
       /\ market.balance[asset][a] >= offer.base
       /\ \E done \in {ApplyOrder(placed, nextOrder)} :
             LET killed == fillOrKill /\ nextOrder \in DOMAIN done.orders
             IN /\ outcome' = IF done.throws THEN "assert"
                              ELSE IF killed THEN "killed" ELSE "ok"
                /\ IF done.throws \/ killed
                   THEN market' = Fresh /\ UNCHANGED nextOrder
                   ELSE market' = done /\ nextOrder' = nextOrder + 1
       /\ UNCHANGED clock

LimitOrderCancel(id) ==
    /\ id \in DOMAIN market.orders
    /\ market' = CancelLimitOrder(Fresh, id) /\ outcome' = "ok"
    /\ UNCHANGED <<clock, nextOrder>>

MarketFeeCollect(a, asset, n) ==
    /\ n > 0 /\ market.uncollected[asset][a] >= n
    /\ market' = AdjustBalance([Fresh EXCEPT !.uncollected[asset][a] = @ - n],
                               a, asset, n)
    /\ outcome' = "ok" /\ UNCHANGED <<clock, nextOrder>>

(* The end of a block: clear_expired_limit_orders, the oldest first. *)
ClearExpiredLimitOrders ==
    LET now == clock + 1
        expired == {i \in DOMAIN market.orders : market.orders[i].expiration <= now}
    IN /\ clock < MaxClock /\ clock' = now
       /\ market' = FoldLeft(CancelLimitOrder, Fresh, SetToSortSeq(expired, LAMBDA i, j :
              LET p == market.orders[i].expiration
                  q == market.orders[j].expiration
              IN p < q \/ (p = q /\ i < j)))
       /\ outcome' = "ok" /\ UNCHANGED nextOrder

MarketNext ==
    \/ \E a \in Traders, x \in Assets, o \in Offers, l \in Lifetimes, k \in BOOLEAN :
           LimitOrderCreate(a, x, o, l, k)
    \/ \E id \in 1..MaxOrders : LimitOrderCancel(id)
    \/ \E a \in Traders, x \in Assets : \E n \in 1..market.uncollected[x][a] :
           MarketFeeCollect(a, x, n)
    \/ ClearExpiredLimitOrders

MarketSpec == MarketInit /\ [][MarketNext]_mvars

-----------------------------------------------------------------------------
Prices == [base : Nat \ {0}, quote : Nat \ {0}]
OrderType == [seller : Traders, sells : Assets, for_sale : Nat \ {0},
              price : Prices, expiration : Nat]

(* The objects of the market; no order is empty and no amount negative. *)
MarketTypeOK ==
    /\ \A i \in DOMAIN market.orders : i < nextOrder /\ market.orders[i] \in OrderType
    /\ market.balance \in [Assets -> [Traders -> Nat]]
    /\ market.uncollected \in [Assets -> [Traders -> Nat]]
    /\ market.accumulated \in [Assets -> Nat]
    /\ market.inOrders \in [Traders -> Nat] /\ market.votes \in [Traders -> Nat]
    /\ market.voter \in [Traders -> BOOLEAN]
    /\ clock \in 0..MaxClock /\ nextOrder \in 1..(MaxOrders + 1)
    /\ outcome \in {"ok", "killed", "assert"}

SumOver(S, f(_)) == FoldSet(LAMBDA i, n : f(i) + n, 0, S)

(* check_invariants: of each asset, the balances, the orders, and the fees *)
(* collected and not yet collected add up to the supply, whatever rounding *)
(* the trades and the shares of the fees go through.                       *)
MarketConserves ==
    \A x \in Assets :
        SumOver(Traders, LAMBDA a : market.balance[x][a] + market.uncollected[x][a])
        + SumOver(Selling(market, x), LAMBDA i : market.orders[i].for_sale)
        + market.accumulated[x] = Cardinality(Traders) * Supply[x]

(* After every call the book is settled: no two orders in it would trade   *)
(* with each other and none is too small to be worth anything, although    *)
(* only orders at the front are matched and matching stops early.          *)
BookSettled ==
    \A i \in DOMAIN market.orders :
        LET order == market.orders[i]
        IN /\ AmountToReceive(order) > 0
           /\ \A j \in Selling(market, Other(order.sells)) :
                  ~Meets(market.orders[j], order)

(* Nobody pays for nothing, or more than the limit of the order rounded up *)
(* to a whole unit, as taker or as maker, and what match() asserts of its  *)
(* result holds: trades never throw.                                       *)
FairFills ==
    /\ outcome # "assert"
    /\ \A f \in market.fills :
           f.receives > 0 /\ f.pays <= ToBaseUp(f.receives, f.price)

(* check_invariants: the votes of a voter are its core balance and what it *)
(* has in orders, and total_core_in_orders is what its orders still sell,  *)
(* after partial fills, culls, cancellations and expiration.               *)
VotesFollowOrders ==
    \A a \in Traders :
        /\ market.inOrders[a] =
               SumOver({i \in Selling(market, Core) : market.orders[i].seller = a},
                       LAMBDA i : market.orders[i].for_sale)
        /\ market.voter[a] =>
               market.votes[a] = market.balance[Core][a] + market.inOrders[a]
==============================================================================
