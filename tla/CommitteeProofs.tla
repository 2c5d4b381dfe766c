--------------------------- MODULE CommitteeProofs ---------------------------
(***************************************************************************)
(* A proposal of the committee is executed only with enough votes of the   *)
(* committee in office, and whoever was a registrar and is none any more   *)
(* has a registrar who takes over; for any committees, any number of       *)
(* proposals and items, and any number of blocks.                          *)
(*                                                                         *)
(* Neither is inductive.  That a proposal which runs was approved by this  *)
(* committee needs that every approved one has the votes, which its count  *)
(* may only be given with; and that the takeovers are right after the last *)
(* item needs what holds between the items, where the copy of the          *)
(* registrars, the new takeovers and the stored ones are all in use.       *)
(***************************************************************************)
EXTENDS CommitteeProposals, PledgeProofs

-----------------------------------------------------------------------------
(* The states. *)

IsFunction(f) == f = [x \in DOMAIN f |-> f[x]]
HasFields(r, F) == IsFunction(r) /\ DOMAIN r = F

ProposalFields == {"items", "closing", "execution", "expiration", "opinions", "approved"}
ComFields == {"head", "next", "members", "open", "number", "registrars", "takeover", "owner",
              "receiver", "pledge", "platform", "platformPledge"}
ItemFields == {"ok", "com", "map", "reg", "said"}

VotesFor(p) == {m \in DOMAIN p.opinions : p.opinions[m]}
Enough(p, members) ==
    Cardinality(VotesFor(p)) * 10000 >= ApproveThreshold(p.items) * Cardinality(members)

ProposalOK(p, members) ==
    /\ HasFields(p, ProposalFields)
    /\ p.items \in ProposalItems
    /\ p.execution \in Nat /\ p.expiration \in Nat
    /\ IsFunction(p.opinions) /\ DOMAIN p.opinions \subseteq members
    /\ p.approved => Enough(p, members)

OpenOK(open, members) ==
    /\ IsFunction(open) /\ IsFiniteSet(DOMAIN open) /\ DOMAIN open \subseteq Nat
    /\ \A n \in DOMAIN open : ProposalOK(open[n], members)

ComOK(c) ==
    /\ HasFields(c, ComFields)
    /\ c.head \in Nat /\ c.number \in Nat
    /\ c.members \in Committees
    /\ OpenOK(c.open, c.members)
    /\ IsFunction(c.takeover)

Covered(c) ==
    /\ \A a \in DOMAIN c.takeover : a \notin c.registrars /\ c.takeover[a] \in c.registrars
    /\ Registrars \subseteq c.registrars \union DOMAIN c.takeover
TakeoversOK(c) == NotMadeAndTaken => Covered(c)

CommitteeInv == ComOK(com) /\ TakeoversOK(com) /\ CommitteeApproved

-----------------------------------------------------------------------------
(* The items of a proposal are folded from the first to the last, the      *)
(* proposals that are due from the first to the last too: c[u] is the last *)
(* one of the set u.                                                       *)

Picks(c, D) == \A u \in SUBSET D : u # {} => c[u] \in u

LEMMA PickInduction ==
    ASSUME NEW D, IsFiniteSet(D), NEW c, Picks(c, D), NEW P \in SUBSET (SUBSET D), {} \in P,
           \A u \in SUBSET D : u # {} /\ u \ {c[u]} \in P => u \in P
    PROVE  D \in P
  <1> DEFINE T == {n \in Nat : \A u \in SUBSET D : Cardinality(u) = n => u \in P}
  <1>1. 0 \in T
    BY Zenon, Smaller
  <1>2. ASSUME NEW n \in T PROVE n + 1 \in T
    <2>1. n \in Nat /\ n + 1 \in Nat /\ n + 1 # 0 /\ n + 1 - 1 = n
      OBVIOUS
    <2> SUFFICES ASSUME NEW u \in SUBSET D, Cardinality(u) = n + 1 PROVE u \in P
      BY <2>1
    <2>2. u # {}
      BY <2>1, Smaller
    <2>3. u \ {c[u]} \in SUBSET D /\ Cardinality(u \ {c[u]}) = n
      BY <2>1, <2>2, Smaller DEF Picks
    <2>4. u \ {c[u]} \in P
      BY <2>3
    <2> QED BY <2>2, <2>4
  <1> HIDE DEF T
  <1>3. T = Nat
    <2>1. T \in SUBSET Nat
      BY DEF T
    <2> QED BY <1>1, <1>2, <2>1, SetInduction
  <1>4. Cardinality(D) \in Nat
    BY Smaller
  <1> QED BY <1>3, <1>4 DEF T

LastItem(D) == [u \in SUBSET D |-> Max(u)]

LEMMA LastPicks ==
    ASSUME NEW D \in SUBSET Int, IsFiniteSet(D)
    PROVE  Picks(LastItem(D), D) /\ \A u \in SUBSET D : u # {} => \A i \in u : i <= Max(u)
  <1> SUFFICES ASSUME NEW u \in SUBSET D, u # {}
               PROVE  Max(u) \in u /\ \A i \in u : i <= Max(u)
    BY DEF Picks, LastItem
  <1>1. IsFiniteSet(u) /\ u \in SUBSET Int
    BY Zenon, FS_Subset
  <1>2. Max(u) \in u /\ \A y \in u : Max(u) >= y
    BY <1>1, MaxOf
  <1> QED BY <1>1, <1>2

NextItem(b, items, g, u) == IF u = {} THEN b ELSE Item(g[u \ {Max(u)}], items[Max(u)])
Items(b, items) == CHOOSE g : g = [u \in SUBSET (DOMAIN items) |-> NextItem(b, items, g, u)]

LEMMA ItemsFolded == \A b, items : EveryItem(b, items) = Items(b, items)[DOMAIN items]
  BY DEF EveryItem, MapThenFoldSet, Items, NextItem

LEMMA ItemsExist ==
    ASSUME NEW b, NEW items, IsFiniteSet(DOMAIN items), DOMAIN items \in SUBSET Int
    PROVE  Items(b, items)
             = [u \in SUBSET (DOMAIN items) |-> NextItem(b, items, Items(b, items), u)]
  <1> DEFINE D == DOMAIN items
             Good(n, g) == \A u \in SUBSET D : Cardinality(u) <= n => g[u] = NextItem(b, items, g, u)
             T == {n \in Nat : \E g : Good(n, g)}
  <1> HIDE DEF D
  <1>1. 0 \in T
    <2> DEFINE g == [u \in SUBSET D |-> b]
    <2>1. \A u \in SUBSET D : Cardinality(u) <= 0 => u = {}
      BY Smaller DEF D
    <2>2. Good(0, g)
      BY <2>1 DEF NextItem
    <2> QED BY Zenon, <2>2
  <1>2. ASSUME NEW n \in T PROVE n + 1 \in T
    <2>1. PICK g : Good(n, g)
      BY Zenon
    <2> DEFINE k == [u \in SUBSET D |-> NextItem(b, items, g, u)]
    <2>2. Good(n + 1, k)
      <3> SUFFICES ASSUME NEW u \in SUBSET D, Cardinality(u) <= n + 1
                   PROVE  NextItem(b, items, g, u) = NextItem(b, items, k, u)
        BY Zenon
      <3>1. CASE u = {}
        BY <3>1 DEF NextItem
      <3>2. CASE u # {}
        <4> DEFINE t == u \ {Max(u)}
        <4>1. Max(u) \in u
          BY Zenon, <3>2, LastPicks DEF D, Picks, LastItem
        <4>2. t \in SUBSET D /\ Cardinality(t) = Cardinality(u) - 1
          BY <4>1, Smaller DEF D
        <4>3. Cardinality(u) \in Nat /\ n \in Nat
          BY Smaller DEF D
        <4>4. Cardinality(t) <= n
          BY <4>2, <4>3
        <4>5. t \in SUBSET D
          BY <4>2
        <4> HIDE DEF t
        <4>6. g[t] = k[t]
          BY <2>1, <4>5, <4>4
        <4> QED BY <3>2, <4>6 DEF NextItem, t
      <3> QED BY <3>1, <3>2
    <2>3. n + 1 \in Nat
      OBVIOUS
    <2> QED BY Zenon, <2>2, <2>3
  <1> HIDE DEF T
  <1>3. T = Nat
    <2>1. T \in SUBSET Nat
      BY DEF T
    <2> QED BY SMTT(30), <1>1, <1>2, <2>1, SetInduction
  <1>4. Cardinality(D) \in T /\ \A u \in SUBSET D : Cardinality(u) <= Cardinality(D)
    BY <1>3, Smaller DEF D
  <1>5. PICK g : Good(Cardinality(D), g)
    BY Zenon, <1>4 DEF T
  <1> DEFINE k == [u \in SUBSET D |-> g[u]]
  <1>6. \A u \in SUBSET D : g[u] = NextItem(b, items, g, u)
    BY <1>4, <1>5
  <1>7. k = [u \in SUBSET D |-> NextItem(b, items, k, u)]
    <2> SUFFICES ASSUME NEW u \in SUBSET D PROVE g[u] = NextItem(b, items, k, u)
      BY Zenon
    <2>1. u \ {Max(u)} \in SUBSET D
      OBVIOUS
    <2>2. k[u \ {Max(u)}] = g[u \ {Max(u)}]
      BY <2>1
    <2> QED BY ZenonT(30), <1>6, <2>2 DEF NextItem
  <1> HIDE DEF k
  <1> QED BY <1>7 DEF Items, D

-----------------------------------------------------------------------------
(* One item. *)

SameRest(c, d) ==
    /\ d.head = c.head /\ d.next = c.next /\ d.members = c.members /\ d.open = c.open
    /\ d.number = c.number /\ d.registrars = c.registrars /\ d.takeover = c.takeover

ItemState(c, x) ==
    /\ HasFields(x, ItemFields) /\ HasFields(x.com, ComFields)
    /\ SameRest(c, x.com)
    /\ IsFunction(x.map) /\ x.ok \in BOOLEAN

(* After the items in u: reg and map are the registrars and the takeovers  *)
(* there will be, save that who is said to be a registrar is not taken     *)
(* over from.                                                              *)
Moved(c, items, u, x) ==
    /\ \A o \in DOMAIN x.map : x.map[o] \in x.reg /\ (o \in x.reg => o \in x.said)
    /\ \A o \in DOMAIN c.takeover \ DOMAIN x.map : o \in x.reg \/ c.takeover[o] \in x.reg
    /\ \A o \in DOMAIN c.takeover : o \in x.reg => o \in x.said
    /\ Registrars \subseteq x.reg \union DOMAIN c.takeover \union DOMAIN x.map
    /\ \A a \in x.said \intersect x.reg : \E i \in u : items[i] = IsRegistrar(a)

LEMMA WithdrawKeeps ==
    ASSUME NEW c, HasFields(c, ComFields), NEW n
    PROVE  HasFields(WithdrawItem(c, n), ComFields) /\ SameRest(c, WithdrawItem(c, n))
  <1> DEFINE amount == Min({n, TotalUnreleased(c.pledge)})
             releasing == Min({c.pledge.total, amount})
             less == [ReduceReleasing(c.pledge, releasing) EXCEPT !.pledge = @ - (amount - releasing)]
             low == less.pledge < MinPlatformPledge
             gone == IF less.pledge > 0 THEN UpdatePledge(less, 0, c.head + PlatformDelay) ELSE less
             d == [c EXCEPT !.receiver = @ + amount]
             e == [d EXCEPT !.platform = FALSE, !.pledge = gone]
             f == [d EXCEPT !.pledge = less,
                            !.platformPledge = IF amount > releasing THEN less.pledge ELSE @]
  <1>1. WithdrawItem(c, n) \in {c, e, f}
    BY DEF WithdrawItem
  <1> HIDE DEF amount, releasing, less, low, gone
  <1>2. HasFields(d, ComFields) /\ SameRest(c, d)
    BY DEF HasFields, IsFunction, ComFields, SameRest
  <1> HIDE DEF d
  <1>3. HasFields(e, ComFields) /\ SameRest(c, e)
    BY Zenon, <1>2 DEF HasFields, IsFunction, ComFields, SameRest
  <1>4. HasFields(f, ComFields) /\ SameRest(c, f)
    BY Zenon, <1>2 DEF HasFields, IsFunction, ComFields, SameRest
  <1>5. SameRest(c, c)
    BY DEF SameRest
  <1> HIDE DEF e, f
  <1> QED BY <1>1, <1>3, <1>4, <1>5

LEMMA WithdrawMoves ==
    ASSUME NEW c, NEW items, NEW u, NEW i, NEW x, ItemState(c, x),
           x.ok /\ NotMadeAndTaken => Moved(c, items, u, x),
           items[i].kind = "withdraw", NEW v, u \subseteq v
    PROVE  /\ ItemState(c, Item(x, items[i]))
           /\ Item(x, items[i]).ok /\ NotMadeAndTaken => Moved(c, items, v, Item(x, items[i]))
  <1> DEFINE y == Item(x, items[i])
             d == WithdrawItem(x.com, items[i].amount)
  <1>1. y = x \/ y = [x EXCEPT !.com = d]
    BY DEF Item
  <1>2. HasFields(d, ComFields) /\ SameRest(x.com, d)
    BY WithdrawKeeps DEF ItemState
  <1>3. SameRest(c, d)
    BY <1>2 DEF ItemState, SameRest
  <1> HIDE DEF d
  <1>4. ItemState(c, y) /\ y.ok = x.ok /\ y.map = x.map /\ y.reg = x.reg /\ y.said = x.said
    BY <1>1, <1>2, <1>3 DEF ItemState, HasFields, IsFunction, ItemFields
  <1> HIDE DEF y
  <1>5. y.ok /\ NotMadeAndTaken => Moved(c, items, v, y)
    BY <1>4 DEF Moved
  <1> QED BY <1>4, <1>5 DEF y

LEMMA RegistrarMoves ==
    ASSUME NEW c, NEW items, NEW u, NEW i, NEW x, ItemState(c, x), x.ok,
           NotMadeAndTaken => Moved(c, items, u, x),
           NEW a, items[i] = IsRegistrar(a), NEW v, u \union {i} \subseteq v
    PROVE  /\ ItemState(c, Item(x, items[i]))
           /\ NotMadeAndTaken => Moved(c, items, v, Item(x, items[i]))
  <1> DEFINE y == Item(x, items[i])
             map == WithoutEntries(x.map, {a})
  <1>1. y = [x EXCEPT !.map = map, !.reg = x.reg \union {a}, !.said = x.said \union {a}]
    BY DEF Item, AccountItem, IsRegistrar, Unchanged
  <1>2. IsFunction(map) /\ DOMAIN map = DOMAIN x.map \ {a} /\ \A o \in DOMAIN map : map[o] = x.map[o]
    BY DEF WithoutEntries, IsFunction
  <1> HIDE DEF map, y
  <1>3. /\ y.map = map /\ y.reg = x.reg \union {a} /\ y.said = x.said \union {a}
        /\ y.ok = x.ok /\ y.com = x.com /\ HasFields(y, ItemFields)
    BY ZenonT(30), <1>1 DEF ItemState, HasFields, IsFunction, ItemFields
  <1>4. ItemState(c, y)
    BY <1>2, <1>3 DEF ItemState
  <1>5. ASSUME NotMadeAndTaken PROVE Moved(c, items, v, y)
    <2> Moved(c, items, u, x)
      BY <1>5
    <2>1. \A o \in DOMAIN y.map : y.map[o] \in y.reg /\ (o \in y.reg => o \in y.said)
      BY <1>2, <1>3 DEF Moved
    <2>2. \A o \in DOMAIN c.takeover \ DOMAIN y.map : o \in y.reg \/ c.takeover[o] \in y.reg
      BY SMTT(30), <1>2, <1>3 DEF Moved
    <2>3. \A o \in DOMAIN c.takeover : o \in y.reg => o \in y.said
      BY SMTT(30), <1>2, <1>3 DEF Moved
    <2>4. Registrars \subseteq y.reg \union DOMAIN c.takeover \union DOMAIN y.map
      BY <1>2, <1>3 DEF Moved
    <2>5. \A b \in y.said \intersect y.reg : \E j \in v : items[j] = IsRegistrar(b)
      BY <1>3 DEF Moved
    <2> QED BY <2>1, <2>2, <2>3, <2>4, <2>5 DEF Moved
  <1> QED BY <1>4, <1>5 DEF y

LEMMA RedirectedMap ==
    ASSUME NEW f, IsFunction(f), NEW S, NEW b
    PROVE  /\ IsFunction(Redirected(f, S, b)) /\ DOMAIN Redirected(f, S, b) = DOMAIN f \union S
           /\ \A o \in DOMAIN f \union S : Redirected(f, S, b)[o] = IF o \in S THEN b ELSE f[o]
  BY DEF Redirected, IsFunction

(* What b is given: all that a had, if it is no registrar any more.        *)
LEMMA TakenMoves ==
    ASSUME NEW c, NEW items, NEW u, NEW i, NEW x, ItemState(c, x), x.ok,
           NotMadeAndTaken => Moved(c, items, u, x),
           NEW a \in RegistrarAccounts, NEW b \in RegistrarAccounts, items[i] = TakenOver(a, b),
           NotMadeAndTaken /\ a \in x.said => a \notin x.reg, NEW v, u \subseteq v
    PROVE  /\ ItemState(c, Item(x, items[i]))
           /\ Item(x, items[i]).ok /\ NotMadeAndTaken => Moved(c, items, v, Item(x, items[i]))
  <1> DEFINE y == Item(x, items[i])
             stored == {o \in DOMAIN x.com.takeover : x.com.takeover[o] = a}
             map == IF a \notin x.said THEN Redirected(x.map, stored, b) ELSE x.map
             reg == x.reg \ {a}
             follow == Followed(map, a) \union {a}
             new == Redirected(map, follow, b)
             ok == a \notin reg /\ b \in reg
  <1>1. y = [x EXCEPT !.ok = ok, !.map = new, !.reg = reg, !.said = x.said \union {a}]
    <2>1. b # Nobody
      BY CommitteeAssumption
    <2> QED BY <2>1 DEF Item, AccountItem, TakenOver, Unchanged
  <1>2. stored = {o \in DOMAIN c.takeover : c.takeover[o] = a}
    BY DEF ItemState, SameRest
  <1>3. IsFunction(x.map)
    BY DEF ItemState
  <1> HIDE DEF stored
  <1>4. /\ IsFunction(map)
        /\ a \in x.said => map = x.map
        /\ a \notin x.said => /\ DOMAIN map = DOMAIN x.map \union stored
                              /\ \A o \in DOMAIN map : map[o] = IF o \in stored THEN b ELSE x.map[o]
    <2> DEFINE f == Redirected(x.map, stored, b)
    <2>1. /\ IsFunction(f) /\ DOMAIN f = DOMAIN x.map \union stored
          /\ \A o \in DOMAIN x.map \union stored : f[o] = IF o \in stored THEN b ELSE x.map[o]
      BY ZenonT(30), <1>3, RedirectedMap
    <2> HIDE DEF f
    <2>2. map = IF a \notin x.said THEN f ELSE x.map
      BY DEF f
    <2> HIDE DEF map
    <2> QED BY <1>3, <2>1, <2>2
  <1> HIDE DEF map
  <1>5. /\ IsFunction(new) /\ DOMAIN new = DOMAIN map \union {a}
        /\ \A o \in DOMAIN new : new[o] = IF o = a \/ map[o] = a THEN b ELSE map[o]
    <2>1. \A o \in DOMAIN map \union {a} : o \in follow <=> (o = a \/ map[o] = a)
      BY DEF Followed
    <2>2. DOMAIN map \union follow = DOMAIN map \union {a}
      BY DEF Followed
    <2> HIDE DEF follow
    <2>0. IsFunction(map)
      BY <1>4
    <2>3. /\ IsFunction(new) /\ DOMAIN new = DOMAIN map \union follow
          /\ \A o \in DOMAIN map \union follow : new[o] = IF o \in follow THEN b ELSE map[o]
      BY Zenon, <2>0, RedirectedMap
    <2> HIDE DEF new
    <2> QED BY <2>1, <2>2, <2>3
  <1> HIDE DEF new
  <1>6. /\ y.map = new /\ y.reg = reg /\ y.said = x.said \union {a} /\ y.ok = ok
        /\ y.com = x.com /\ HasFields(y, ItemFields)
    BY ZenonT(30), <1>1 DEF ItemState, HasFields, IsFunction, ItemFields
  <1> HIDE DEF y
  <1>7. ItemState(c, y)
    <2>1. ok \in BOOLEAN
      OBVIOUS
    <2> QED BY <1>5, <1>6, <2>1 DEF ItemState
  <1>8. ASSUME y.ok, NotMadeAndTaken PROVE Moved(c, items, v, y)
    <2> Moved(c, items, u, x)
      BY <1>8
    <2>0. b \in x.reg /\ b # a
      BY ZenonT(30), <1>6, <1>8
    <2>1. ASSUME NEW o \in DOMAIN y.map
          PROVE  y.map[o] \in y.reg /\ (o \in y.reg => o \in y.said)
      <3>1. o = a \/ o \in DOMAIN x.map \/ (a \notin x.said /\ o \in stored)
        BY <1>4, <1>5, <1>6, <2>1
      <3>2. o \in y.reg => o \in y.said
        BY SMTT(30), <1>2, <1>6, <3>1 DEF Moved
      <3>3. new[o] = b \/ (o \in DOMAIN x.map /\ new[o] = x.map[o] /\ new[o] # a)
        BY SMTT(30), <1>4, <1>5, <1>6, <2>1, <3>1
      <3> QED BY <1>6, <2>0, <3>2, <3>3 DEF Moved
    <2>2. ASSUME NEW o \in DOMAIN c.takeover \ DOMAIN y.map
          PROVE  o \in y.reg \/ c.takeover[o] \in y.reg
      <3>1. o # a /\ o \notin DOMAIN x.map /\ (a \notin x.said => o \notin stored)
        BY SMTT(30), <1>4, <1>5, <1>6, <2>2
      <3>2. o \in x.reg \/ c.takeover[o] \in x.reg
        BY SMTT(30), <2>2, <3>1 DEF Moved
      <3>3. CASE a \in x.said
        BY SMTT(30), <1>6, <1>8, <3>1, <3>2, <3>3
      <3>4. CASE a \notin x.said
        BY SMTT(30), <1>2, <1>6, <2>2, <3>1, <3>2, <3>4
      <3> QED BY <3>3, <3>4
    <2>3. \A o \in DOMAIN c.takeover : o \in y.reg => o \in y.said
      BY <1>6 DEF Moved
    <2>4. Registrars \subseteq y.reg \union DOMAIN c.takeover \union DOMAIN y.map
      <3>1. DOMAIN x.map \union {a} \subseteq DOMAIN new
        BY SMTT(30), <1>4, <1>5
      <3> QED BY <1>6, <3>1 DEF Moved
    <2>5. \A d \in y.said \intersect y.reg : \E j \in v : items[j] = IsRegistrar(d)
      BY <1>6 DEF Moved
    <2> QED BY <2>1, <2>2, <2>3, <2>4, <2>5 DEF Moved
  <1> QED BY <1>7, <1>8 DEF y

LEMMA NewTakeoverMoves ==
    ASSUME NEW c, NEW items, NEW u, NEW i, NEW x, ItemState(c, x), x.ok,
           NotMadeAndTaken => Moved(c, items, u, x),
           NEW a \in RegistrarAccounts, NEW b \in RegistrarAccounts,
           items[i] = NewTakeover(a, b), NEW v, u \subseteq v
    PROVE  /\ ItemState(c, Item(x, items[i]))
           /\ Item(x, items[i]).ok /\ NotMadeAndTaken => Moved(c, items, v, Item(x, items[i]))
  <1> DEFINE y == Item(x, items[i])
             follow == Followed(x.map, a) \union {a}
             new == Redirected(x.map, follow, b)
             ok == a \notin x.reg /\ b \in x.reg
  <1>1. y = [x EXCEPT !.ok = ok, !.map = new, !.reg = x.reg, !.said = x.said]
    <2>1. b # Nobody
      BY CommitteeAssumption
    <2> QED BY <2>1 DEF Item, AccountItem, NewTakeover, Unchanged
  <1>2. IsFunction(x.map)
    BY DEF ItemState
  <1>3. /\ IsFunction(new) /\ DOMAIN new = DOMAIN x.map \union {a}
        /\ \A o \in DOMAIN new : new[o] = IF o = a \/ x.map[o] = a THEN b ELSE x.map[o]
    <2>1. \A o \in DOMAIN x.map \union {a} : o \in follow <=> (o = a \/ x.map[o] = a)
      BY DEF Followed
    <2>2. DOMAIN x.map \union follow = DOMAIN x.map \union {a}
      BY DEF Followed
    <2> HIDE DEF follow
    <2>3. /\ IsFunction(new) /\ DOMAIN new = DOMAIN x.map \union follow
          /\ \A o \in DOMAIN x.map \union follow : new[o] = IF o \in follow THEN b ELSE x.map[o]
      BY Zenon, <1>2, RedirectedMap
    <2> HIDE DEF new
    <2> QED BY SMTT(30), <2>1, <2>2, <2>3
  <1> HIDE DEF new
  <1>4. /\ y.map = new /\ y.reg = x.reg /\ y.said = x.said /\ y.ok = ok
        /\ y.com = x.com /\ HasFields(y, ItemFields)
    BY ZenonT(30), <1>1 DEF ItemState, HasFields, IsFunction, ItemFields
  <1> HIDE DEF y
  <1>5. ItemState(c, y)
    <2>1. ok \in BOOLEAN
      OBVIOUS
    <2> QED BY <1>3, <1>4, <2>1 DEF ItemState
  <1>6. ASSUME y.ok, NotMadeAndTaken PROVE Moved(c, items, v, y)
    <2> Moved(c, items, u, x)
      BY <1>6
    <2>0. b \in x.reg /\ a \notin x.reg
      BY ZenonT(30), <1>4, <1>6
    <2>1. \A o \in DOMAIN y.map : y.map[o] \in y.reg /\ (o \in y.reg => o \in y.said)
      BY <1>3, <1>4, <2>0 DEF Moved
    <2>2. \A o \in DOMAIN c.takeover \ DOMAIN y.map : o \in y.reg \/ c.takeover[o] \in y.reg
      BY SMTT(30), <1>3, <1>4 DEF Moved
    <2>3. \A o \in DOMAIN c.takeover : o \in y.reg => o \in y.said
      BY <1>4 DEF Moved
    <2>4. Registrars \subseteq y.reg \union DOMAIN c.takeover \union DOMAIN y.map
      BY SMTT(30), <1>3, <1>4 DEF Moved
    <2>5. \A d \in y.said \intersect y.reg : \E j \in v : items[j] = IsRegistrar(d)
      BY <1>4 DEF Moved
    <2> QED BY <2>1, <2>2, <2>3, <2>4, <2>5 DEF Moved
  <1> QED BY <1>5, <1>6 DEF y

(* The items in order: the one of u that is gone through last comes after  *)
(* the others.                                                             *)
LEMMA ItemMoves ==
    ASSUME NEW c, NEW items \in ProposalItems, NEW u \in SUBSET (DOMAIN items), NEW i \in u,
           \A j \in u : j <= i, u \subseteq Int, NEW x,
           ItemState(c, x), x.ok /\ NotMadeAndTaken => Moved(c, items, u \ {i}, x)
    PROVE  /\ ItemState(c, Item(x, items[i]))
           /\ Item(x, items[i]).ok /\ NotMadeAndTaken => Moved(c, items, u, Item(x, items[i]))
  <1> DEFINE t == u \ {i}
  <1>0. t \subseteq u /\ t \union {i} \subseteq u
    OBVIOUS
  <1>1. CASE ~x.ok
    <2>1. Item(x, items[i]) = x
      BY <1>1 DEF Item
    <2> QED BY <1>1, <2>1
  <1>2. CASE x.ok
    <2>1. NotMadeAndTaken => Moved(c, items, t, x)
      BY <1>2
    <2>2. ItemOK(items[i])
      BY CommitteeAssumption
    <2> HIDE DEF t
    <2>3. CASE items[i].kind = "withdraw"
      BY Zenon, <1>0, <2>1, <2>3, WithdrawMoves
    <2>4. ASSUME NEW a \in RegistrarAccounts, items[i] = IsRegistrar(a)
          PROVE  /\ ItemState(c, Item(x, items[i]))
                 /\ NotMadeAndTaken => Moved(c, items, u, Item(x, items[i]))
      BY Zenon, <1>0, <1>2, <2>1, <2>4, RegistrarMoves
    <2>5. ASSUME NEW a \in RegistrarAccounts, NEW b \in RegistrarAccounts,
                 items[i] = TakenOver(a, b)
          PROVE  /\ ItemState(c, Item(x, items[i]))
                 /\ Item(x, items[i]).ok /\ NotMadeAndTaken
                        => Moved(c, items, u, Item(x, items[i]))
      <3>1. ASSUME NotMadeAndTaken, a \in x.said, a \in x.reg PROVE FALSE
        <4>1. PICK j \in t : items[j] = IsRegistrar(a)
          BY <2>1, <3>1 DEF Moved
        <4>2. j \in DOMAIN items /\ i \in DOMAIN items /\ j < i
          BY <4>1 DEF t
        <4> QED BY <2>5, <3>1, <4>1, <4>2 DEF NotMadeAndTaken
      <3>2. NotMadeAndTaken /\ a \in x.said => a \notin x.reg
        BY <3>1
      <3> QED BY ZenonT(30), <1>0, <1>2, <2>1, <2>5, <3>2, TakenMoves
    <2>6. ASSUME NEW a \in RegistrarAccounts, NEW b \in RegistrarAccounts,
                 items[i] = NewTakeover(a, b)
          PROVE  /\ ItemState(c, Item(x, items[i]))
                 /\ Item(x, items[i]).ok /\ NotMadeAndTaken
                        => Moved(c, items, u, Item(x, items[i]))
      BY SMTT(30), <1>0, <1>2, <2>1, <2>6, NewTakeoverMoves
    <2> QED BY SMTT(30), <2>2, <2>3, <2>4, <2>5, <2>6 DEF ItemOK
  <1> QED BY <1>1, <1>2

-----------------------------------------------------------------------------
(* A whole proposal. *)

Started(c) == [ok |-> TRUE, com |-> c, map |-> <<>>, reg |-> c.registrars, said |-> {}]

LEMMA StartedOK ==
    ASSUME NEW c, ComOK(c), TakeoversOK(c), NEW items
    PROVE  ItemState(c, Started(c)) /\ (NotMadeAndTaken => Moved(c, items, {}, Started(c)))
  <1> DEFINE x == Started(c)
  <1>1. /\ x.ok = TRUE /\ x.com = c /\ x.map = <<>> /\ x.reg = c.registrars /\ x.said = {}
        /\ HasFields(x, ItemFields)
    BY Zenon DEF Started, HasFields, IsFunction, ItemFields
  <1>2. DOMAIN x.map = {} /\ IsFunction(x.map)
    BY <1>1 DEF IsFunction
  <1> HIDE DEF x
  <1>3. ItemState(c, x)
    BY Zenon, <1>1, <1>2 DEF ItemState, ComOK, SameRest
  <1>4. NotMadeAndTaken => Moved(c, items, {}, x)
    BY <1>1, <1>2 DEF Moved, TakeoversOK, Covered
  <1> QED BY SMTT(30), <1>3, <1>4 DEF x

LEMMA ItemsMove ==
    ASSUME NEW c, ComOK(c), TakeoversOK(c), NEW items \in ProposalItems
    PROVE  \E x : /\ EveryItem(Started(c), items) = x
                  /\ ItemState(c, x) /\ (x.ok /\ NotMadeAndTaken => Moved(c, items, DOMAIN items, x))
  <1> DEFINE D == DOMAIN items
             G == Items(Started(c), items)
             Good(u) == ItemState(c, G[u]) /\ (G[u].ok /\ NotMadeAndTaken => Moved(c, items, u, G[u]))
             P == {u \in SUBSET D : Good(u)}
  <1>1. D \in SUBSET Int /\ IsFiniteSet(D)
    <2>1. items \in Seq(Range(items))
      BY CommitteeAssumption
    <2>2. D = 1..Len(items) /\ Len(items) \in Nat
      BY <2>1
    <2>3. IsFiniteSet(1..Len(items))
      BY <2>2, FS_Interval
    <2> QED BY <2>2, <2>3
  <1>2. G = [u \in SUBSET D |-> NextItem(Started(c), items, G, u)]
    BY Zenon, <1>1, ItemsExist
  <1>3. EveryItem(Started(c), items) = G[D]
    BY ItemsFolded
  <1>4. Picks(LastItem(D), D)
    BY <1>1, LastPicks
  <1> HIDE DEF G
  <1>5. {} \in P
    <2>1. G[{}] = Started(c)
      BY <1>2 DEF NextItem
    <2>2. ItemState(c, Started(c)) /\ (NotMadeAndTaken => Moved(c, items, {}, Started(c)))
      BY StartedOK
    <2> QED BY <2>1, <2>2
  <1>6. ASSUME NEW u \in SUBSET D, u # {}, u \ {LastItem(D)[u]} \in P PROVE u \in P
    <2> DEFINE i == Max(u)
               x == G[u \ {i}]
    <2>1. i \in u /\ \A j \in u : j <= i
      BY Zenon, <1>1, <1>4, <1>6, LastPicks DEF Picks, LastItem
    <2>2. LastItem(D)[u] = i
      BY DEF LastItem
    <2>3. ItemState(c, x) /\ (x.ok /\ NotMadeAndTaken => Moved(c, items, u \ {i}, x))
      BY <1>6, <2>2
    <2>4. G[u] = Item(x, items[i])
      BY Zenon, <1>2, <1>6 DEF NextItem
    <2>5. u \subseteq Int
      BY <1>1
    <2> HIDE DEF i, x
    <2>6. /\ ItemState(c, Item(x, items[i]))
          /\ Item(x, items[i]).ok /\ NotMadeAndTaken => Moved(c, items, u, Item(x, items[i]))
      BY ZenonT(30), <2>1, <2>3, <2>5, ItemMoves
    <2> QED BY <2>4, <2>6
  <1> HIDE DEF P
  <1>7. P \in SUBSET (SUBSET D)
    BY DEF P
  <1>8. D \in P
    BY <1>1, <1>4, <1>5, <1>6, <1>7, PickInduction
  <1> QED BY <1>3, <1>8 DEF P

(* Executed: the committee and the proposals are as before, the takeovers  *)
(* are in order, whether or not an item failed.                            *)
Executed(c, x) ==
    /\ x.ok \in BOOLEAN
    /\ ComOK(x.com) /\ TakeoversOK(x.com)
    /\ x.com.head = c.head /\ x.com.members = c.members /\ x.com.open = c.open

LEMMA ExecuteOK ==
    ASSUME NEW c, ComOK(c), TakeoversOK(c), NEW items \in ProposalItems
    PROVE  Executed(c, Execute(c, items))
  <1>1. PICK x : /\ EveryItem(Started(c), items) = x
                 /\ ItemState(c, x) /\ (x.ok /\ NotMadeAndTaken => Moved(c, items, DOMAIN items, x))
    BY ItemsMove
  <1>2. Execute(c, items) = Applied(x)
    BY <1>1 DEF Execute, Started
  <1>3. /\ HasFields(x, ItemFields) /\ HasFields(x.com, ComFields) /\ SameRest(c, x.com)
        /\ IsFunction(x.map) /\ x.ok \in BOOLEAN
    BY <1>1 DEF ItemState
  <1>4. CASE ~x.ok
    <2>1. Applied(x) = x
      BY <1>4 DEF Applied
    <2>2. ComOK(x.com) /\ TakeoversOK(x.com)
      BY <1>3 DEF ComOK, TakeoversOK, Covered, SameRest
    <2> QED BY SMTT(30), <1>2, <1>3, <2>1, <2>2 DEF Executed, SameRest
  <1>5. CASE x.ok
    <2> DEFINE out == x.said \intersect x.reg
               take == WithoutEntries(Merged(x.com.takeover, x.map), out)
               d == [x.com EXCEPT !.registrars = x.reg, !.takeover = take]
    <2>1. Applied(x) = [x EXCEPT !.com = d]
      BY SMTT(30), <1>5 DEF Applied
    <2>2. /\ IsFunction(take)
          /\ DOMAIN take = (DOMAIN c.takeover \union DOMAIN x.map) \ out
          /\ \A o \in DOMAIN take : take[o] = IF o \in DOMAIN x.map THEN x.map[o] ELSE c.takeover[o]
      BY <1>3 DEF WithoutEntries, Merged, IsFunction, SameRest
    <2> HIDE DEF take
    <2>3. /\ d.registrars = x.reg /\ d.takeover = take /\ d.head = c.head /\ d.members = c.members
          /\ d.open = c.open /\ d.number = c.number /\ HasFields(d, ComFields)
      BY ZenonT(30), <1>3 DEF HasFields, IsFunction, ComFields, SameRest
    <2> HIDE DEF d
    <2>4. ComOK(d)
      BY <2>2, <2>3 DEF ComOK
    <2>5. TakeoversOK(d)
      <3> SUFFICES ASSUME NotMadeAndTaken PROVE Covered(d)
        BY DEF TakeoversOK
      <3>1. Moved(c, items, DOMAIN items, x)
        BY SMTT(30), <1>1, <1>5
      <3>2. ASSUME NEW o \in DOMAIN take PROVE o \notin x.reg /\ take[o] \in x.reg
        BY SMTT(30), <2>2, <3>1 DEF Moved
      <3>3. Registrars \subseteq x.reg \union DOMAIN take
        BY <2>2, <3>1 DEF Moved
      <3> QED BY <2>3, <3>2, <3>3 DEF Covered
    <2>6. Applied(x).com = d /\ Applied(x).ok = x.ok
      BY <1>3, <2>1 DEF HasFields, ItemFields
    <2> QED BY SMTT(30), <1>2, <1>3, <2>3, <2>4, <2>5, <2>6 DEF Executed
  <1> QED BY <1>3, <1>4, <1>5

(* Taking a proposal from the open ones, and letting it wait. *)
LEMMA RemovedOK ==
    ASSUME NEW c, ComOK(c), TakeoversOK(c), NEW n
    PROVE  /\ ComOK(Removed(c, n)) /\ TakeoversOK(Removed(c, n))
           /\ Removed(c, n).head = c.head /\ Removed(c, n).members = c.members
           /\ DOMAIN Removed(c, n).open = DOMAIN c.open \ {n}
  <1> DEFINE open == WithoutEntries(c.open, {n})
             d == Removed(c, n)
  <1>1. HasFields(c, ComFields) /\ OpenOK(c.open, c.members)
    BY DEF ComOK
  <1>2. /\ IsFunction(open) /\ DOMAIN open = DOMAIN c.open \ {n}
        /\ \A m \in DOMAIN open : open[m] = c.open[m]
    BY DEF WithoutEntries, IsFunction
  <1>3. d = [c EXCEPT !.open = open]
    BY DEF Removed
  <1> HIDE DEF open, d
  <1>4. /\ d.open = open /\ d.head = c.head /\ d.number = c.number /\ d.members = c.members
        /\ d.takeover = c.takeover /\ d.registrars = c.registrars /\ HasFields(d, ComFields)
    BY SMTT(30), <1>1, <1>3 DEF HasFields, IsFunction, ComFields
  <1>5. OpenOK(open, c.members)
    <2>1. IsFiniteSet(DOMAIN open)
      BY SMTT(30), <1>1, <1>2, FS_Subset DEF OpenOK
    <2> QED BY SMTT(30), <1>1, <1>2, <2>1 DEF OpenOK
  <1>6. ComOK(d)
    BY SMTT(30), <1>4, <1>5 DEF ComOK
  <1>7. TakeoversOK(d)
    BY <1>4 DEF TakeoversOK, Covered
  <1> QED BY SMTT(30), <1>2, <1>4, <1>6, <1>7 DEF d

Postponed(c, n, at) == [c EXCEPT !.open[n].execution = at]

LEMMA PostponedOK ==
    ASSUME NEW c, ComOK(c), TakeoversOK(c), NEW n \in DOMAIN c.open, NEW at \in Nat
    PROVE  /\ ComOK(Postponed(c, n, at)) /\ TakeoversOK(Postponed(c, n, at))
           /\ Postponed(c, n, at).head = c.head /\ Postponed(c, n, at).members = c.members
           /\ DOMAIN Postponed(c, n, at).open = DOMAIN c.open
  <1> DEFINE p == c.open[n]
             q == [p EXCEPT !.execution = at]
             open == [c.open EXCEPT ![n] = q]
             d == Postponed(c, n, at)
  <1>1. HasFields(c, ComFields) /\ OpenOK(c.open, c.members)
    BY DEF ComOK
  <1>2. d = [c EXCEPT !.open = open]
    BY <1>1 DEF Postponed, HasFields, ComFields
  <1>3. ProposalOK(q, c.members)
    <2>1. ProposalOK(p, c.members)
      BY <1>1 DEF OpenOK
    <2> HIDE DEF p
    <2>2. /\ q.execution = at /\ q.items = p.items /\ q.expiration = p.expiration
          /\ q.opinions = p.opinions /\ q.approved = p.approved /\ HasFields(q, ProposalFields)
      BY <2>1 DEF ProposalOK, HasFields, IsFunction, ProposalFields
    <2> HIDE DEF q
    <2>3. Enough(p, c.members) => Enough(q, c.members)
      BY <2>2 DEF Enough, VotesFor
    <2> QED BY SMTT(30), <2>1, <2>2, <2>3 DEF ProposalOK
  <1> HIDE DEF d, q
  <1>4. /\ IsFunction(open) /\ DOMAIN open = DOMAIN c.open
        /\ \A m \in DOMAIN open : open[m] = IF m = n THEN q ELSE c.open[m]
    BY <1>1 DEF OpenOK, IsFunction
  <1> HIDE DEF open
  <1>5. /\ d.open = open /\ d.head = c.head /\ d.number = c.number /\ d.members = c.members
        /\ d.takeover = c.takeover /\ d.registrars = c.registrars /\ HasFields(d, ComFields)
    BY SMTT(30), <1>1, <1>2 DEF HasFields, IsFunction, ComFields
  <1>6. OpenOK(open, c.members)
    BY SMTT(30), <1>1, <1>3, <1>4 DEF OpenOK
  <1>7. ComOK(d)
    BY SMTT(30), <1>5, <1>6 DEF ComOK
  <1>8. TakeoversOK(d)
    BY SMTT(30), <1>5 DEF TakeoversOK, Covered
  <1> QED BY SMTT(30), <1>4, <1>5, <1>7, <1>8 DEF d

-----------------------------------------------------------------------------
(* Running proposals.  From c to d those in done are executed. *)

Ran(c, d, done) ==
    /\ ComOK(d) /\ TakeoversOK(d)
    /\ d.head = c.head /\ d.members = c.members
    /\ \A n \in done : /\ n \in DOMAIN c.open /\ c.open[n].approved
                       /\ c.open[n].execution <= c.head
                       /\ n \notin DOMAIN d.open

LEMMA ItemsOf ==
    ASSUME NEW c, ComOK(c), NEW n \in DOMAIN c.open
    PROVE  /\ c.open[n].items \in ProposalItems
           /\ c.open[n].execution \in Nat /\ c.open[n].expiration \in Nat /\ c.head \in Nat
  BY DEF ComOK, OpenOK, ProposalOK

LEMMA RunNowOK ==
    ASSUME NEW c, ComOK(c), TakeoversOK(c), NEW n \in DOMAIN c.open
    PROVE  Ran(c, RunNow(c, n).com, RunNow(c, n).done)
  <1> DEFINE p == c.open[n]
             r == RunNow(c, n)
             x == Execute(c, p.items)
             d == Removed(x.com, n)
  <1>1. CASE p.approved /\ c.head >= p.execution
    <2>1. r.com = d /\ r.done = {n}
      BY <1>1 DEF RunNow
    <2>2. p.items \in ProposalItems
      BY ItemsOf
    <2>3. Executed(c, x)
      BY <2>2, ExecuteOK
    <2> HIDE DEF r, x
    <2>4. ComOK(x.com) /\ TakeoversOK(x.com) /\ x.com.head = c.head /\ x.com.members = c.members
      BY <2>3 DEF Executed
    <2>5. /\ ComOK(d) /\ TakeoversOK(d) /\ d.head = c.head /\ d.members = c.members
          /\ n \notin DOMAIN d.open
      BY SMTT(30), <2>4, RemovedOK
    <2> HIDE DEF d
    <2>6. p.execution <= c.head
      BY SMTT(30), <1>1, ItemsOf
    <2>7. Ran(c, d, {n})
      BY SMTT(30), <1>1, <2>5, <2>6 DEF Ran
    <2> QED BY SMTT(30), <2>1, <2>7 DEF r
  <1>2. CASE ~(p.approved /\ c.head >= p.execution)
    <2>1. r.com = c /\ r.done = {}
      BY <1>2 DEF RunNow
    <2>2. Ran(c, c, {})
      BY DEF Ran
    <2> QED BY SMTT(30), <2>1, <2>2
  <1> QED BY SMTT(30), <1>1, <1>2

(* The proposals that are due, and the order they are run in. *)
DueProposals(c) == {n \in DOMAIN c.open : c.open[n].approved /\ c.open[n].execution <= c.head}
RunsBefore(c, m, n) == \/ c.open[m].execution < c.open[n].execution
                       \/ c.open[m].execution = c.open[n].execution /\ m < n
RunLast(c, S) == CHOOSE n \in S : \A m \in S \ {n} : RunsBefore(c, m, n)
LastRun(c, D) == [u \in SUBSET D |-> RunLast(c, u)]

LEMMA RunLastIn ==
    ASSUME NEW c, ComOK(c), NEW S \in SUBSET DueProposals(c), S # {}
    PROVE  RunLast(c, S) \in S
  <1> DEFINE L == {c.head - c.open[n].execution : n \in S}
  <1>1. /\ IsFiniteSet(S) /\ S \subseteq Nat /\ c.head \in Nat
        /\ \A n \in S : c.open[n].execution \in Nat /\ c.open[n].execution <= c.head
    <2>1. S \subseteq DOMAIN c.open /\ \A n \in S : c.open[n].execution <= c.head
      BY DEF DueProposals
    <2>2. IsFiniteSet(DOMAIN c.open) /\ DOMAIN c.open \subseteq Nat /\ c.head \in Nat
      BY DEF ComOK, OpenOK
    <2>3. IsFiniteSet(S)
      BY SMTT(30), <2>1, <2>2, FS_Subset
    <2>4. \A n \in S : c.open[n].execution \in Nat
      BY <2>1, ItemsOf
    <2> QED BY SMTT(30), <2>1, <2>2, <2>3, <2>4
  <1>2. L \subseteq Nat /\ L # {}
    <2>1. \A n \in S : c.head - c.open[n].execution \in Nat
      BY <1>1
    <2>2. PICK n \in S : TRUE
      OBVIOUS
    <2>3. c.head - c.open[n].execution \in L
      BY <2>2
    <2> QED BY <2>1, <2>3
  <1>3. PICK k \in L : \A y \in L : k <= y
    <2> HIDE DEF L
    <2>1. PICK k \in L : \A y \in L : ~(<<y, k>> \in OpToRel(<, Nat))
      BY ZenonT(30), <1>2, NatLessThanWellFounded, WFMin
    <2>2. \A y \in L : ~(y < k)
      BY Zenon, <1>2, <2>1 DEF OpToRel
    <2>3. \A y \in L : k <= y
      BY <1>2, <2>2
    <2> QED BY <2>3
  <1>4. PICK q \in S : k = c.head - c.open[q].execution
    BY <1>3
  <1> DEFINE e == c.open[q].execution
             M == {n \in S : c.open[n].execution = e}
  <1>5. \A n \in S : c.open[n].execution <= e
    <2> SUFFICES ASSUME NEW n \in S PROVE c.open[n].execution <= e
      OBVIOUS
    <2>1. c.head - e <= c.head - c.open[n].execution
      BY SMTT(30), <1>3, <1>4
    <2> QED BY SMTT(30), <1>1, <1>4, <2>1
  <1>6. M \subseteq S /\ M # {} /\ M \subseteq Int
    <2>1. M \subseteq S
      BY Zenon
    <2>2. q \in M
      BY ZenonT(30), <1>4
    <2> HIDE DEF M
    <2> QED BY SMTT(30), <1>1, <2>1, <2>2
  <1>7. IsFiniteSet(M)
    BY SMTT(30), <1>1, <1>6, FS_Subset
  <1>8. PICK z \in M : \A y \in M : z >= y
    <2> HIDE DEF M
    <2> QED BY SMTT(30), <1>6, <1>7, Extremes
  <1>9. \A m \in S \ {z} : RunsBefore(c, m, z)
    <2> SUFFICES ASSUME NEW m \in S \ {z} PROVE RunsBefore(c, m, z)
      OBVIOUS
    <2>1. m \in Nat /\ z \in Nat /\ m # z /\ c.open[m].execution \in Nat /\ e \in Nat
      BY SMTT(30), <1>1, <1>4, <1>8
    <2>2. c.open[z].execution = e /\ c.open[m].execution <= e
      BY SMTT(30), <1>5, <1>8
    <2>3. CASE c.open[m].execution = e
      <3>1. z >= m
        BY SMTT(30), <1>8, <2>3
      <3> QED BY SMTT(30), <2>1, <2>2, <2>3, <3>1 DEF RunsBefore
    <2>4. CASE c.open[m].execution # e
      BY SMTT(30), <2>1, <2>2, <2>4 DEF RunsBefore
    <2> QED BY SMTT(30), <2>3, <2>4
  <1>10. z \in S
    BY SMTT(30), <1>8
  <1> QED BY SMTT(30), <1>9, <1>10 DEF RunLast

NextRun(c, g, u) ==
    IF u = {} THEN [com |-> c, done |-> {}]
    ELSE RunSilently(g[u \ {RunLast(c, u)}], RunLast(c, u))
Runs(c) == CHOOSE g : g = [u \in SUBSET DueProposals(c) |-> NextRun(c, g, u)]

LEMMA RunsFolded == \A c : ExecuteCommitteeProposals(c) = Runs(c)[DueProposals(c)]
  BY DEF ExecuteCommitteeProposals, MapThenFoldSet, Runs, NextRun, DueProposals, RunLast, RunsBefore

LEMMA DueFinite ==
    ASSUME NEW c, ComOK(c)
    PROVE  /\ IsFiniteSet(DueProposals(c))
           /\ Picks(LastRun(c, DueProposals(c)), DueProposals(c))
  <1>1. IsFiniteSet(DOMAIN c.open) /\ DueProposals(c) \subseteq DOMAIN c.open
    BY DEF ComOK, OpenOK, DueProposals
  <1>2. IsFiniteSet(DueProposals(c))
    BY SMTT(30), <1>1, FS_Subset
  <1>3. \A u \in SUBSET DueProposals(c) : u # {} => RunLast(c, u) \in u
    BY RunLastIn
  <1> QED BY SMTT(30), <1>2, <1>3 DEF Picks, LastRun

LEMMA RunsExist ==
    ASSUME NEW c, ComOK(c)
    PROVE  Runs(c) = [u \in SUBSET DueProposals(c) |-> NextRun(c, Runs(c), u)]
  <1> DEFINE D == DueProposals(c)
             Good(n, g) == \A u \in SUBSET D : Cardinality(u) <= n => g[u] = NextRun(c, g, u)
             T == {n \in Nat : \E g : Good(n, g)}
  <1>0. IsFiniteSet(D) /\ \A u \in SUBSET D : u # {} => RunLast(c, u) \in u
    BY DueFinite, RunLastIn
  <1> HIDE DEF D
  <1>1. 0 \in T
    <2> DEFINE g == [u \in SUBSET D |-> [com |-> c, done |-> {}]]
    <2>1. \A u \in SUBSET D : Cardinality(u) <= 0 => u = {}
      BY SMTT(30), <1>0, Smaller
    <2>2. Good(0, g)
      BY <2>1 DEF NextRun
    <2> QED BY ZenonT(30), <2>2
  <1>2. ASSUME NEW n \in T PROVE n + 1 \in T
    <2>1. PICK g : Good(n, g)
      BY Zenon
    <2> DEFINE k == [u \in SUBSET D |-> NextRun(c, g, u)]
    <2>2. Good(n + 1, k)
      <3> SUFFICES ASSUME NEW u \in SUBSET D, Cardinality(u) <= n + 1
                   PROVE  NextRun(c, g, u) = NextRun(c, k, u)
        BY ZenonT(30), Zenon
      <3>1. CASE u = {}
        BY SMTT(30), <3>1 DEF NextRun
      <3>2. CASE u # {}
        <4> DEFINE t == u \ {RunLast(c, u)}
        <4>1. RunLast(c, u) \in u
          BY SMTT(30), <1>0, <3>2
        <4>2. t \in SUBSET D /\ Cardinality(t) = Cardinality(u) - 1
          BY SMTT(30), <1>0, <4>1, Smaller
        <4>3. Cardinality(u) \in Nat /\ n \in Nat
          BY <1>0, Smaller
        <4>4. Cardinality(t) <= n
          BY <4>2, <4>3
        <4>5. t \in SUBSET D
          BY <4>2
        <4> HIDE DEF t
        <4>6. g[t] = k[t]
          BY <2>1, <4>5, <4>4
        <4> QED BY <3>2, <4>6 DEF NextRun, t
      <3> QED BY <3>1, <3>2
    <2>3. n + 1 \in Nat
      OBVIOUS
    <2> QED BY ZenonT(30), <2>2, <2>3
  <1> HIDE DEF T
  <1>3. T = Nat
    <2>1. T \in SUBSET Nat
      BY DEF T
    <2> QED BY SMTT(30), <1>1, <1>2, <2>1, SetInduction
  <1>4. Cardinality(D) \in T /\ \A u \in SUBSET D : Cardinality(u) <= Cardinality(D)
    BY <1>0, <1>3, Smaller
  <1>5. PICK g : Good(Cardinality(D), g)
    BY Zenon, <1>4 DEF T
  <1> DEFINE k == [u \in SUBSET D |-> g[u]]
  <1>6. \A u \in SUBSET D : g[u] = NextRun(c, g, u)
    BY SMTT(30), <1>4, <1>5
  <1>7. k = [u \in SUBSET D |-> NextRun(c, k, u)]
    <2> SUFFICES ASSUME NEW u \in SUBSET D PROVE g[u] = NextRun(c, k, u)
      BY Zenon
    <2>1. u \ {RunLast(c, u)} \in SUBSET D
      OBVIOUS
    <2>2. k[u \ {RunLast(c, u)}] = g[u \ {RunLast(c, u)}]
      BY <2>1
    <2> QED BY ZenonT(30), <1>6, <2>2 DEF NextRun
  <1> HIDE DEF k
  <1> QED BY <1>7 DEF Runs, D

(* After those in u: the others are still open. *)
RunState(c, u, r) ==
    /\ HasFields(r, {"com", "done"})
    /\ Ran(c, r.com, r.done)
    /\ DueProposals(c) \ u \subseteq DOMAIN r.com.open

LEMMA RunSilentlyOK ==
    ASSUME NEW c, ComOK(c), NEW u \in SUBSET DueProposals(c), NEW n \in u, NEW r,
           RunState(c, u \ {n}, r)
    PROVE  RunState(c, u, RunSilently(r, n))
  <1> DEFINE p == r.com.open[n]
             x == Execute(r.com, p.items)
             d == Removed(x.com, n)
             e == Postponed(x.com, n, p.expiration)
             s == RunSilently(r, n)
  <1>1. /\ HasFields(r, {"com", "done"}) /\ Ran(c, r.com, r.done)
        /\ DueProposals(c) \ (u \ {n}) \subseteq DOMAIN r.com.open
    BY DEF RunState
  <1>2. n \in DOMAIN r.com.open
    BY <1>1
  <1>3. ComOK(r.com) /\ TakeoversOK(r.com) /\ r.com.head = c.head /\ r.com.members = c.members
    BY <1>1 DEF Ran
  <1>4. p.items \in ProposalItems /\ p.expiration \in Nat
    BY SMTT(30), <1>2, <1>3, ItemsOf
  <1>5. Executed(r.com, x)
    BY SMTT(30), <1>3, <1>4, ExecuteOK
  <1>6. \/ s = [com |-> d, done |-> r.done \union {n}]
        \/ s = [r EXCEPT !.com = d]
        \/ s = [r EXCEPT !.com = e]
    BY Zenon DEF RunSilently, Postponed
  <1> HIDE DEF x, s
  <1>7. /\ ComOK(x.com) /\ TakeoversOK(x.com) /\ x.com.head = c.head /\ x.com.members = c.members
        /\ x.com.open = r.com.open
    BY SMTT(30), <1>3, <1>5 DEF Executed
  <1>8. /\ ComOK(d) /\ TakeoversOK(d) /\ d.head = c.head /\ d.members = c.members
        /\ DOMAIN d.open = DOMAIN r.com.open \ {n}
    BY SMTT(30), <1>7, RemovedOK
  <1>9. /\ ComOK(e) /\ TakeoversOK(e) /\ e.head = c.head /\ e.members = c.members
        /\ DOMAIN e.open = DOMAIN r.com.open
    BY SMTT(30), <1>2, <1>4, <1>7, PostponedOK
  <1> HIDE DEF d, e
  <1>10. /\ HasFields(s, {"com", "done"})
         /\ \/ s.com = d /\ s.done = r.done \union {n}
            \/ s.com = d /\ s.done = r.done
            \/ s.com = e /\ s.done = r.done
    BY SMTT(30), <1>1, <1>6 DEF HasFields, IsFunction
  <1>11. Ran(c, s.com, s.done)
    <2>1. n \in DOMAIN c.open /\ c.open[n].approved /\ c.open[n].execution <= c.head
      BY SMTT(30) DEF DueProposals
    <2> QED BY SMTT(30), <1>1, <1>8, <1>9, <1>10, <2>1 DEF Ran
  <1>12. DueProposals(c) \ u \subseteq DOMAIN s.com.open
    BY SMTT(30), <1>1, <1>8, <1>9, <1>10
  <1> QED BY <1>10, <1>11, <1>12 DEF RunState, s

LEMMA ExecuteProposalsOK ==
    ASSUME NEW c, ComOK(c), TakeoversOK(c)
    PROVE  Ran(c, ExecuteCommitteeProposals(c).com, ExecuteCommitteeProposals(c).done)
  <1> DEFINE D == DueProposals(c)
             G == Runs(c)
             P == {u \in SUBSET D : RunState(c, u, G[u])}
  <1>1. IsFiniteSet(D) /\ Picks(LastRun(c, D), D)
    BY DueFinite
  <1>2. G = [u \in SUBSET D |-> NextRun(c, G, u)]
    BY ZenonT(30), RunsExist
  <1>3. ExecuteCommitteeProposals(c) = G[D]
    BY RunsFolded
  <1> HIDE DEF G
  <1>4. {} \in P
    <2> DEFINE r == [com |-> c, done |-> {}]
    <2>1. G[{}] = r
      BY SMTT(30), <1>2 DEF NextRun
    <2>2. r.com = c /\ r.done = {} /\ HasFields(r, {"com", "done"})
      BY DEF HasFields, IsFunction
    <2> HIDE DEF r
    <2>3. Ran(c, r.com, r.done)
      BY <2>2 DEF Ran
    <2>4. D \ {} \subseteq DOMAIN r.com.open
      BY SMTT(30), <2>2 DEF DueProposals
    <2> QED BY <2>1, <2>2, <2>3, <2>4 DEF RunState
  <1>5. ASSUME NEW u \in SUBSET D, u # {}, u \ {LastRun(c, D)[u]} \in P PROVE u \in P
    <2> DEFINE n == RunLast(c, u)
               r == G[u \ {n}]
    <2>1. n \in u
      BY SMTT(30), <1>5, RunLastIn
    <2>2. LastRun(c, D)[u] = n
      BY DEF LastRun
    <2>3. RunState(c, u \ {n}, r)
      BY SMTT(30), <1>5, <2>2
    <2>4. G[u] = RunSilently(r, n)
      BY Zenon, <1>2, <1>5 DEF NextRun
    <2> HIDE DEF n, r
    <2>5. RunState(c, u, RunSilently(r, n))
      BY <2>1, <2>3, RunSilentlyOK
    <2> QED BY SMTT(30), <2>4, <2>5
  <1> HIDE DEF P
  <1>6. P \in SUBSET (SUBSET D)
    BY SMTT(30) DEF P
  <1>7. D \in P
    BY SMTT(30), <1>1, <1>4, <1>5, <1>6, PickInduction
  <1>8. RunState(c, D, G[D])
    BY <1>7 DEF P
  <1> QED BY <1>3, <1>8 DEF RunState

-----------------------------------------------------------------------------
(* The votes. *)

(* A share in whole hundredths of a percent that is reached is reached.    *)
LEMMA QuotientBound ==
    ASSUME NEW y \in Nat, NEW k \in Nat, k > 0, NEW t \in Nat, y \div k >= t
    PROVE  y >= t * k
  <1> DEFINE q == y \div k
  <1>1. q \in Nat /\ k * q <= y
    OBVIOUS
  <1> HIDE DEF q
  <1>2. q >= t
    BY DEF q
  <1>3. PICK z \in Nat : q = t + z
    <2>1. q - t \in Nat /\ q = t + (q - t)
      BY SMTT(30), <1>1, <1>2
    <2> QED BY <2>1
  <1>4. k * q = t * k + k * z
    BY <1>3
  <1>5. k * z \in Nat /\ t * k \in Nat
    BY <1>3
  <1> QED BY SMTT(30), <1>1, <1>4, <1>5

LEMMA ThresholdType == \A items : ApproveThreshold(items) \in Nat
  BY DEF ApproveThreshold

(* What completes an approval is enough. *)
LEMMA CountedEnough ==
    ASSUME NEW p, NEW members, IsFiniteSet(members), members # {}, DOMAIN p.opinions \subseteq members,
           YesPercent(p, members) >= ApproveThreshold(p.items)
    PROVE  Enough(p, members)
  <1> DEFINE k == Cardinality(members)
             y == Cardinality(VotesFor(p))
             t == ApproveThreshold(p.items)
  <1>1. VotesFor(p) \subseteq members
    BY DEF VotesFor
  <1>2. IsFiniteSet(VotesFor(p))
    BY SMTT(30), <1>1, FS_Subset
  <1>3. k \in Nat /\ y \in Nat /\ k # 0
    BY SMTT(30), <1>2, FS_CardinalityType, FS_EmptySet
  <1>4. (y * 10000) \div k >= t
    BY DEF YesPercent, VotesFor
  <1>5. t \in Nat
    BY ThresholdType
  <1> HIDE DEF k, y, t
  <1>6. y * 10000 \in Nat /\ k > 0
    BY <1>3
  <1>7. y * 10000 >= t * k
    BY SMTT(30), <1>3, <1>4, <1>5, <1>6, QuotientBound
  <1> QED BY <1>7 DEF Enough, k, y, t

(* What CommitteeApproved says of what is recorded. *)
Approves(for, members, items) ==
    Cardinality(for \intersect members) * 10000 >= ApproveThreshold(items) * Cardinality(members)
ApprovedIn(e, d) ==
    \A n \in DOMAIN e :
        /\ Approves(e[n].for, e[n].members, e[n].items)
        /\ ~e[n].early
        /\ n \notin DOMAIN d.open

LEMMA EnactedOK ==
    ASSUME NEW c, ComOK(c), c.members = com.members, NEW d, NEW done, Ran(c, d, done)
    PROVE  ApprovedIn(Enacted(done, c), d)
  <1> DEFINE e == Enacted(done, c)
  <1>1. DOMAIN e = done
    BY SMTT(30) DEF Enacted
  <1>2. ASSUME NEW n \in done
        PROVE  /\ Approves(e[n].for, e[n].members, e[n].items)
               /\ ~e[n].early
               /\ n \notin DOMAIN d.open
    <2> DEFINE p == c.open[n]
    <2>1. e[n].items = p.items /\ e[n].for = VotesFor(p) /\ e[n].members = c.members
      BY SMTT(30), <1>2 DEF Enacted, VotesFor
    <2>2. e[n].early <=> c.head < p.execution
      BY ZenonT(30), <1>2 DEF Enacted
    <2>3. n \in DOMAIN c.open /\ p.approved /\ p.execution <= c.head /\ n \notin DOMAIN d.open
      BY <1>2 DEF Ran
    <2>4. ProposalOK(p, c.members)
      BY <2>3 DEF ComOK, OpenOK
    <2>5. p.execution \in Nat /\ c.head \in Nat
      BY SMTT(30), <2>3, ItemsOf
    <2>6. ~e[n].early
      BY SMTT(30), <2>2, <2>3, <2>5
    <2> HIDE DEF e, p
    <2>7. Enough(p, c.members)
      BY SMTT(30), <2>3, <2>4 DEF ProposalOK
    <2>8. VotesFor(p) \intersect c.members = VotesFor(p)
      BY SMTT(30), <2>4 DEF ProposalOK, VotesFor
    <2>9. Approves(VotesFor(p), c.members, p.items)
      <3> DEFINE y == Cardinality(VotesFor(p))
                 t == ApproveThreshold(p.items)
                 k == Cardinality(c.members)
      <3>1. Cardinality(VotesFor(p) \intersect c.members) = y
        BY ZenonT(30), <2>8
      <3>2. y * 10000 >= t * k
        BY <2>7 DEF Enough
      <3> HIDE DEF y, t, k
      <3>3. Cardinality(VotesFor(p) \intersect c.members) * 10000 >= t * k
        BY SMTT(30), <3>1, <3>2
      <3> QED BY <3>3 DEF Approves, t, k
    <2>10. Approves(e[n].for, e[n].members, e[n].items)
      BY SMTT(30), <2>1, <2>9
    <2> QED BY SMTT(30), <2>3, <2>6, <2>10
  <1> HIDE DEF e
  <1>3. ApprovedIn(e, d)
    BY <1>1, <1>2 DEF ApprovedIn
  <1> QED BY SMTT(30), <1>3 DEF e

-----------------------------------------------------------------------------
(* The steps. *)

LEMMA ApprovedNow == CommitteeApproved <=> ApprovedIn(enacted, com)
  BY DEF CommitteeApproved, ApprovedIn, Approves

LEMMA VotedOK ==
    ASSUME NEW c, ComOK(c), TakeoversOK(c), c.members = com.members, NEW n \in DOMAIN c.open,
           Voted(c, n)
    PROVE  ComOK(com') /\ TakeoversOK(com') /\ ApprovedIn(enacted', com')
  <1> DEFINE r == RunNow(c, n)
  <1>1. com' = r.com /\ enacted' = Enacted(r.done, c)
    BY DEF Voted
  <1>2. Ran(c, r.com, r.done)
    BY RunNowOK
  <1> HIDE DEF r
  <1>3. ApprovedIn(Enacted(r.done, c), r.com)
    BY SMTT(30), <1>2, EnactedOK
  <1> QED BY SMTT(30), <1>1, <1>2, <1>3 DEF Ran

(* A proposal that is written among the open ones. *)
LEMMA WrittenOK ==
    ASSUME NEW c, ComOK(c), TakeoversOK(c), NEW n \in Nat, NEW p, ProposalOK(p, c.members),
           NEW d, HasFields(d, ComFields), d.open = WithEntry(c.open, n, p), d.number \in Nat,
           d.head = c.head, d.members = c.members, d.takeover = c.takeover,
           d.registrars = c.registrars
    PROVE  ComOK(d) /\ TakeoversOK(d) /\ n \in DOMAIN d.open
  <1>1. OpenOK(c.open, c.members)
    BY DEF ComOK
  <1>2. /\ IsFunction(d.open) /\ DOMAIN d.open = DOMAIN c.open \union {n}
        /\ \A m \in DOMAIN d.open : d.open[m] = IF m = n THEN p ELSE c.open[m]
    BY SMTT(30) DEF WithEntry, IsFunction
  <1>3. IsFiniteSet(DOMAIN d.open)
    <2>1. IsFiniteSet(DOMAIN c.open)
      BY SMTT(30), <1>1 DEF OpenOK
    <2> QED BY SMTT(30), <1>2, <2>1, FS_AddElement
  <1>4. OpenOK(d.open, d.members)
    BY SMTT(30), <1>1, <1>2, <1>3 DEF OpenOK
  <1>5. ComOK(d)
    BY SMTT(30), <1>4 DEF ComOK
  <1>6. TakeoversOK(d)
    BY DEF TakeoversOK, Covered
  <1> QED BY SMTT(30), <1>2, <1>5, <1>6

LEMMA CommitteeFinite ==
    ASSUME NEW c, ComOK(c)
    PROVE  IsFiniteSet(c.members) /\ c.members # {}
  BY SMTT(30), CommitteeAssumption DEF ComOK

LEMMA CreateOK ==
    ASSUME ComOK(com), TakeoversOK(com), NEW m \in com.members, NEW items \in ProposalItems,
           NEW closing, NEW execution \in Nat, NEW expiration \in Nat, NEW for,
           CommitteeProposalCreate(m, items, closing, execution, expiration, for)
    PROVE  ComOK(com') /\ TakeoversOK(com') /\ ApprovedIn(enacted', com')
  <1> DEFINE n == com.number
             p == [items |-> items, closing |-> closing, execution |-> execution,
                   expiration |-> expiration,
                   opinions |-> [x \in IF for THEN {m} ELSE {} |-> TRUE], approved |-> FALSE]
             yes == YesPercent(p, com.members) >= ApproveThreshold(items)
             q == [p EXCEPT !.approved = yes]
             c == [com EXCEPT !.number = @ + 1, !.open = WithEntry(@, n, q)]
  <1>1. Voted(c, n)
    BY SMTT(30) DEF CommitteeProposalCreate
  <1>2. /\ p.items = items /\ p.execution = execution /\ p.expiration = expiration
        /\ p.opinions = [x \in IF for THEN {m} ELSE {} |-> TRUE] /\ HasFields(p, ProposalFields)
    BY ZenonT(30) DEF HasFields, IsFunction, ProposalFields
  <1>3. IsFunction(p.opinions) /\ DOMAIN p.opinions \subseteq com.members
    BY Zenon, <1>2 DEF IsFunction
  <1> HIDE DEF p
  <1>4. yes => Enough(p, com.members)
    <2>1. IsFiniteSet(com.members) /\ com.members # {}
      BY CommitteeFinite
    <2> QED BY ZenonT(30), <1>2, <1>3, <2>1, CountedEnough
  <1> HIDE DEF yes
  <1>5. /\ q.items = p.items /\ q.execution = p.execution /\ q.expiration = p.expiration
        /\ q.opinions = p.opinions /\ q.approved = yes /\ HasFields(q, ProposalFields)
    BY SMTT(30), <1>2 DEF HasFields, IsFunction, ProposalFields
  <1> HIDE DEF q
  <1>6. ProposalOK(q, com.members)
    <2>1. Enough(p, com.members) => Enough(q, com.members)
      BY SMTT(30), <1>5 DEF Enough, VotesFor
    <2> QED BY SMTT(30), <1>2, <1>3, <1>4, <1>5, <2>1 DEF ProposalOK
  <1>7. HasFields(com, ComFields) /\ n \in Nat
    BY DEF ComOK
  <1>8. /\ HasFields(c, ComFields) /\ c.open = WithEntry(com.open, n, q) /\ c.number = n + 1
        /\ c.head = com.head /\ c.members = com.members /\ c.takeover = com.takeover
        /\ c.registrars = com.registrars
    BY ZenonT(30), <1>7 DEF HasFields, IsFunction, ComFields
  <1>9. c.number \in Nat
    BY <1>7, <1>8
  <1> HIDE DEF c, n
  <1>10. ComOK(c) /\ TakeoversOK(c) /\ n \in DOMAIN c.open
    BY <1>6, <1>7, <1>8, <1>9, WrittenOK
  <1> QED BY SMTT(30), <1>1, <1>8, <1>10, VotedOK

LEMMA UpdateOK ==
    ASSUME ComOK(com), TakeoversOK(com), NEW m \in com.members, NEW n \in DOMAIN com.open,
           NEW for, CommitteeProposalUpdate(m, n, for)
    PROVE  ComOK(com') /\ TakeoversOK(com') /\ ApprovedIn(enacted', com')
  <1> DEFINE p == com.open[n]
             q == [p EXCEPT !.opinions = WithEntry(@, m, for)]
             yes == YesPercent(q, com.members) >= ApproveThreshold(q.items)
             z == [q EXCEPT !.approved = yes]
             c == [com EXCEPT !.open[n] = z]
  <1>1. Voted(c, n)
    BY SMTT(30) DEF CommitteeProposalUpdate
  <1>2. ProposalOK(p, com.members)
    BY DEF ComOK, OpenOK
  <1> HIDE DEF p
  <1>3. /\ q.items = p.items /\ q.execution = p.execution /\ q.expiration = p.expiration
        /\ q.opinions = WithEntry(p.opinions, m, for) /\ HasFields(q, ProposalFields)
    BY SMTT(30), <1>2 DEF ProposalOK, HasFields, IsFunction, ProposalFields
  <1> HIDE DEF q
  <1>4. IsFunction(q.opinions) /\ DOMAIN q.opinions \subseteq com.members
    BY SMTT(30), <1>2, <1>3 DEF ProposalOK, WithEntry, IsFunction
  <1>5. yes => Enough(q, com.members)
    <2>1. IsFiniteSet(com.members) /\ com.members # {}
      BY CommitteeFinite
    <2> QED BY SMTT(30), <1>4, <2>1, CountedEnough
  <1> HIDE DEF yes
  <1>6. /\ z.items = q.items /\ z.execution = q.execution /\ z.expiration = q.expiration
        /\ z.opinions = q.opinions /\ z.approved = yes /\ HasFields(z, ProposalFields)
    BY SMTT(30), <1>3 DEF HasFields, IsFunction, ProposalFields
  <1> HIDE DEF z
  <1>7. ProposalOK(z, com.members)
    <2>1. Enough(q, com.members) => Enough(z, com.members)
      BY SMTT(30), <1>6 DEF Enough, VotesFor
    <2> QED BY SMTT(30), <1>2, <1>3, <1>4, <1>5, <1>6, <2>1 DEF ProposalOK
  <1>8. HasFields(com, ComFields) /\ com.number \in Nat /\ n \in Nat /\ IsFunction(com.open)
    BY DEF ComOK, OpenOK
  <1>9. [com.open EXCEPT ![n] = z] = WithEntry(com.open, n, z)
    BY <1>8 DEF WithEntry, IsFunction
  <1>10. c = [com EXCEPT !.open = [com.open EXCEPT ![n] = z]]
    BY <1>8 DEF HasFields, ComFields
  <1> HIDE DEF c
  <1>11. /\ HasFields(c, ComFields) /\ c.open = WithEntry(com.open, n, z)
         /\ c.number = com.number /\ c.head = com.head /\ c.members = com.members
         /\ c.takeover = com.takeover /\ c.registrars = com.registrars
    BY SMTT(30), <1>8, <1>9, <1>10 DEF HasFields, IsFunction, ComFields
  <1>12. c.number \in Nat
    BY SMTT(30), <1>8, <1>11
  <1>13. ComOK(c) /\ TakeoversOK(c) /\ n \in DOMAIN c.open
    BY SMTT(30), <1>7, <1>8, <1>11, <1>12, WrittenOK
  <1> QED BY SMTT(30), <1>1, <1>11, <1>13, VotedOK

(* Steps that change only what is pledged and paid. *)
LEMMA SameRestOK ==
    ASSUME NEW c, ComOK(c), TakeoversOK(c), NEW d, HasFields(d, ComFields), SameRest(c, d)
    PROVE  ComOK(d) /\ TakeoversOK(d)
  <1>1. ComOK(d)
    BY DEF ComOK, SameRest
  <1>2. TakeoversOK(d)
    BY DEF TakeoversOK, Covered, SameRest
  <1> QED BY <1>1, <1>2

LEMMA PlatformOK ==
    ASSUME ComOK(com), TakeoversOK(com), NEW n, PlatformCreate(n) \/ PlatformUpdate(n)
    PROVE  ComOK(com') /\ TakeoversOK(com') /\ ApprovedIn(enacted', com')
  <1>1. HasFields(com, ComFields)
    BY SMTT(30) DEF ComOK
  <1>2. /\ enacted' = <<>>
        /\ \E on, amount, pledge :
              com' = [com EXCEPT !.platform = on, !.platformPledge = amount, !.pledge = pledge]
    <2>1. CASE PlatformCreate(n)
      BY ZenonT(30), <2>1 DEF PlatformCreate
    <2>2. CASE PlatformUpdate(n)
      <3>1. com' = [com EXCEPT !.platform = n > 0,
                               !.platformPledge = IF n > 0 THEN n ELSE com.platformPledge,
                               !.pledge = UpdatePledge(com.pledge, n, com.head + PlatformDelay)]
        BY SMTT(30), <1>1, <2>2 DEF PlatformUpdate, HasFields, ComFields
      <3> QED BY Zenon, <2>2, <3>1 DEF PlatformUpdate
    <2> QED BY ZenonT(30), <2>1, <2>2
  <1>3. PICK on, amount, pledge :
            com' = [com EXCEPT !.platform = on, !.platformPledge = amount, !.pledge = pledge]
    BY Zenon, <1>2
  <1>4. HasFields(com', ComFields) /\ SameRest(com, com')
    BY Zenon, <1>1, <1>3 DEF HasFields, IsFunction, ComFields, SameRest
  <1>5. ComOK(com') /\ TakeoversOK(com')
    BY <1>4, SameRestOK
  <1>6. DOMAIN (enacted') = {}
    BY <1>2
  <1>7. ApprovedIn(enacted', com')
    BY <1>6 DEF ApprovedIn
  <1> QED BY SMTT(30), <1>5, <1>7

LEMMA EndBlockOK ==
    ASSUME ComOK(com), TakeoversOK(com), CommitteeEndBlock
    PROVE  ComOK(com') /\ TakeoversOK(com') /\ ApprovedIn(enacted', com')
  <1> DEFINE r == ExecuteCommitteeProposals(com)
             c == [r.com EXCEPT !.pledge = ReleaseDue(@, com.head)]
  <1>1. PICK members \in Committees :
            /\ com' = [UpdateCommittee(c, members) EXCEPT !.head = @ + 1]
            /\ enacted' = Enacted(r.done, com)
    BY DEF CommitteeEndBlock
  <1>2. Ran(com, r.com, r.done)
    BY SMTT(30), ExecuteProposalsOK
  <1> HIDE DEF r
  <1>3. ComOK(r.com) /\ TakeoversOK(r.com) /\ HasFields(r.com, ComFields)
    BY <1>2 DEF Ran, ComOK
  <1>4. HasFields(c, ComFields) /\ SameRest(r.com, c)
    BY SMTT(30), <1>3 DEF HasFields, IsFunction, ComFields, SameRest
  <1> HIDE DEF c
  <1>5. ComOK(c) /\ TakeoversOK(c) /\ c.open = r.com.open /\ c.head \in Nat
    BY SMTT(30), <1>3, <1>4, SameRestOK DEF SameRest, ComOK
  <1> DEFINE d == UpdateCommittee(c, members)
  <1>6. \/ d = c
        \/ d = [c EXCEPT !.open = <<>>, !.members = members, !.next = @ + CommitteeInterval]
    BY DEF UpdateCommittee
  <1> HIDE DEF d
  <1>7. /\ HasFields(d, ComFields) /\ d.head = c.head /\ d.number = c.number
        /\ d.registrars = c.registrars /\ d.takeover = c.takeover
        /\ \/ d.open = c.open /\ d.members = c.members
           \/ d.open = <<>> /\ d.members = members
    BY ZenonT(30), <1>4, <1>6 DEF HasFields, IsFunction, ComFields
  <1>8. OpenOK(d.open, d.members) /\ d.members \in Committees /\ DOMAIN d.open \subseteq DOMAIN c.open
    <2>1. CASE d.open = c.open /\ d.members = c.members
      BY SMTT(30), <1>5, <2>1 DEF ComOK
    <2>2. CASE d.open = <<>> /\ d.members = members
      <3>1. IsFunction(d.open) /\ DOMAIN d.open = {}
        BY <2>2 DEF IsFunction
      <3> QED BY SMTT(30), <2>2, <3>1, FS_EmptySet DEF OpenOK
    <2> QED BY <1>7, <2>1, <2>2
  <1>9. com' = [d EXCEPT !.head = @ + 1]
    BY <1>1 DEF d
  <1>10. /\ HasFields(com', ComFields) /\ com'.head = c.head + 1 /\ com'.number = c.number
         /\ com'.registrars = c.registrars /\ com'.takeover = c.takeover
         /\ com'.open = d.open /\ com'.members = d.members
    BY <1>7, <1>9 DEF HasFields, IsFunction, ComFields
  <1>11. c.head + 1 \in Nat
    BY SMTT(30), <1>5
  <1>12. ComOK(com')
    BY SMTT(30), <1>5, <1>8, <1>10, <1>11 DEF ComOK
  <1>13. TakeoversOK(com')
    BY SMTT(30), <1>5, <1>10 DEF TakeoversOK, Covered
  <1>14. ApprovedIn(Enacted(r.done, com), r.com)
    BY SMTT(30), <1>2, EnactedOK
  <1>15. DOMAIN (com'.open) \subseteq DOMAIN r.com.open
    BY SMTT(30), <1>5, <1>8, <1>10
  <1>16. ApprovedIn(enacted', com')
    BY SMTT(30), <1>1, <1>14, <1>15 DEF ApprovedIn
  <1> QED BY SMTT(30), <1>12, <1>13, <1>16

-----------------------------------------------------------------------------
LEMMA CommitteeInitOK == CommitteeInit => CommitteeInv
  <1> SUFFICES ASSUME CommitteeInit PROVE CommitteeInv
    BY SMTT(30)
  <1>1. PICK m \in Committees :
            com = [head |-> 1, next |-> CommitteeInterval, members |-> m, open |-> <<>>,
                   number |-> 1, registrars |-> Registrars, takeover |-> <<>>,
                   owner |-> OwnerBalance, receiver |-> 0, pledge |-> NewPledge(0),
                   platform |-> FALSE, platformPledge |-> 0]
    BY SMTT(30) DEF CommitteeInit
  <1>2. /\ HasFields(com, ComFields) /\ com.head = 1 /\ com.number = 1 /\ com.members = m
        /\ com.open = <<>> /\ com.takeover = <<>> /\ com.registrars = Registrars
    BY <1>1 DEF HasFields, IsFunction, ComFields
  <1>3. IsFunction(<<>>) /\ DOMAIN <<>> = {} /\ IsFiniteSet({})
    BY SMTT(30), FS_EmptySet DEF IsFunction
  <1>4. OpenOK(com.open, com.members)
    BY SMTT(30), <1>2, <1>3 DEF OpenOK
  <1>5. ComOK(com)
    BY SMTT(30), <1>2, <1>3, <1>4 DEF ComOK
  <1>6. TakeoversOK(com)
    BY SMTT(30), <1>2, <1>3 DEF TakeoversOK, Covered
  <1>7. ApprovedIn(enacted, com)
    BY <1>3 DEF CommitteeInit, ApprovedIn
  <1> QED BY SMTT(30), <1>5, <1>6, <1>7, ApprovedNow DEF CommitteeInv

LEMMA CommitteeStep == CommitteeInv /\ [CommitteeNext]_comvars => CommitteeInv'
  <1> SUFFICES ASSUME CommitteeInv, [CommitteeNext]_comvars PROVE CommitteeInv'
    OBVIOUS
  <1>1. ComOK(com) /\ TakeoversOK(com) /\ ApprovedIn(enacted, com)
    BY SMTT(30), ApprovedNow DEF CommitteeInv
  <1>2. com.head \in Nat
    BY SMTT(30), <1>1 DEF ComOK
  <1>3. ASSUME NEW m \in com.members, NEW items \in ProposalItems, NEW for \in BOOLEAN,
               NEW t \in Schedules,
               CommitteeProposalCreate(m, items, com.head + t.closing, com.head + t.execution,
                                       com.head + t.expiration, for)
        PROVE  ComOK(com') /\ TakeoversOK(com') /\ ApprovedIn(enacted', com')
    <2>1. com.head + t.execution \in Nat /\ com.head + t.expiration \in Nat
      BY SMTT(30), <1>2, CommitteeAssumption
    <2> QED BY SMTT(30), <1>1, <1>3, <2>1, CreateOK
  <1>4. ASSUME NEW m \in com.members, NEW n \in DOMAIN com.open, NEW for \in BOOLEAN,
               CommitteeProposalUpdate(m, n, for)
        PROVE  ComOK(com') /\ TakeoversOK(com') /\ ApprovedIn(enacted', com')
    BY SMTT(30), <1>1, <1>4, UpdateOK
  <1>5. ASSUME NEW n \in PlatformPledges, PlatformCreate(n) \/ PlatformUpdate(n)
        PROVE  ComOK(com') /\ TakeoversOK(com') /\ ApprovedIn(enacted', com')
    BY SMTT(30), <1>1, <1>5, PlatformOK
  <1>6. ASSUME CommitteeEndBlock
        PROVE  ComOK(com') /\ TakeoversOK(com') /\ ApprovedIn(enacted', com')
    BY SMTT(30), <1>1, <1>6, EndBlockOK
  <1>7. ASSUME UNCHANGED comvars
        PROVE  ComOK(com') /\ TakeoversOK(com') /\ ApprovedIn(enacted', com')
    <2>1. com' = com /\ enacted' = enacted
      BY <1>7 DEF comvars
    <2> QED BY <1>1, <2>1
  <1>8. ComOK(com') /\ TakeoversOK(com') /\ ApprovedIn(enacted', com')
    <2>1. CASE CommitteeCall
      BY SMTT(30), <1>3, <1>4, <1>5, <2>1 DEF CommitteeCall
    <2> QED BY SMTT(30), <1>6, <1>7, <2>1 DEF CommitteeNext
  <1>9. CommitteeApproved' <=> ApprovedIn(enacted', com')
    BY DEF CommitteeApproved, ApprovedIn, Approves
  <1> QED BY SMTT(30), <1>8, <1>9 DEF CommitteeInv

(* In every reachable state each open proposal that counts as approved has *)
(* the votes, of members in office, and the takeovers are in order.        *)
THEOREM CommitteeInvariant == CommitteeSpec => []CommitteeInv
  BY CommitteeInitOK, CommitteeStep, PTL DEF CommitteeSpec

(* What execute_committee_proposals and a completed vote run was approved  *)
(* by enough of the members in office, at its block or later, and is gone  *)
(* from the open proposals.                                                *)
THEOREM ApprovedByCommittee == CommitteeSpec => []CommitteeApproved
  <1>1. CommitteeInv => CommitteeApproved
    BY DEF CommitteeInv
  <1> QED BY <1>1, CommitteeInvariant, PTL

(* However the items of the proposals move registrars, the accounts of     *)
(* those that are none any more are with one that is, if no proposal makes *)
(* an account a registrar and lets it be taken over in a later item.       *)
THEOREM AccountsTakenOver ==
    ASSUME NotMadeAndTaken
    PROVE  CommitteeSpec => []TakeoversActive
  <1>1. CommitteeInv => TakeoversActive
    BY DEF CommitteeInv, TakeoversOK, Covered, TakeoversActive
  <1> QED BY <1>1, CommitteeInvariant, PTL
==============================================================================
