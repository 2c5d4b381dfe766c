---------------------------- MODULE PledgeBalance ----------------------------
(***************************************************************************)
(* pledge_balance_object: an amount of an account's balance that is        *)
(* pledged, and amounts that were and will be released at given blocks.    *)
(***************************************************************************)
EXTENDS Integers, FiniteSets, FiniteSetsExt

CONSTANT MaxPledgeReleasing     \* max_pledge_releasing_size

ASSUME PledgeAssumption == MaxPledgeReleasing \in Nat \ {0}

NothingReleasing == [b \in {} |-> 0]
NewPledge(amount) == [pledge |-> amount, total |-> 0, releasing |-> NothingReleasing]

SumOfFunction(f) == FoldSet(LAMBDA b, n : f[b] + n, 0, DOMAIN f)
WithEntry(f, b, amount) == [x \in DOMAIN f \union {b} |-> IF x = b THEN amount ELSE f[x]]
WithoutEntries(f, S) == [x \in DOMAIN f \ S |-> f[x]]

TotalUnreleased(p) == p.pledge + p.total

NewReleasingReplaces(p, amount, at) ==      \* mutant: the last entry is dropped
    LET f == p.releasing
        last == Max(DOMAIN f)
    IN [p EXCEPT !.total = @ + amount, !.releasing =
            IF Cardinality(DOMAIN f) = MaxPledgeReleasing
            THEN WithEntry(WithoutEntries(f, {last}), at, amount)
            ELSE WithEntry(f, at, amount + IF at \in DOMAIN f THEN f[at] ELSE 0)]

(* With all entries in use the last one is released later. *)
NewReleasing(p, amount, at) ==
    LET f == p.releasing
        last == Max(DOMAIN f)
    IN [p EXCEPT !.total = @ + amount, !.releasing =
            IF Cardinality(DOMAIN f) = MaxPledgeReleasing
            THEN WithEntry(WithoutEntries(f, {last}), at, f[last] + amount)
            ELSE WithEntry(f, at, amount + IF at \in DOMAIN f THEN f[at] ELSE 0)]

(* What is pledged again is taken from the entries, the last one first. *)
ReduceReleasing(p, amount) ==
    LET f == p.releasing
        Upto(b) == SumOfFunction(WithoutEntries(f, {x \in DOMAIN f : x < b}))
        Left(b) == Min({f[b], Max({0, Upto(b) - amount})})
    IN [p EXCEPT !.total = @ - amount,
                 !.releasing = [b \in {b \in DOMAIN f : Left(b) > 0} |-> Left(b)]]

UpdatePledge(p, new, at) ==
    LET less == p.pledge - new
        q == [p EXCEPT !.pledge = new]
    IN IF new >= TotalUnreleased(p) THEN NewPledge(new)
       ELSE IF less > 0 THEN NewReleasing(q, less, at)
       ELSE ReduceReleasing(q, -less)

(* What update_pledge takes from the account's balance. *)
PledgeDelta(p, new) == Max({0, new - TotalUnreleased(p)})

(* process_pledge_balance_release, for one object. *)
Due(p, head) == {b \in DOMAIN p.releasing : b <= head}
Released(p, head) == SumOfFunction([b \in Due(p, head) |-> p.releasing[b]])
ReleaseDue(p, head) ==
    [p EXCEPT !.total = @ - Released(p, head),
              !.releasing = WithoutEntries(@, Due(p, head))]
Emptied(p) == p.pledge = 0 /\ DOMAIN p.releasing = {}

(* The total that is being released is that of the entries. *)
EntriesAddUp(p) == p.total = SumOfFunction(p.releasing)
==============================================================================
