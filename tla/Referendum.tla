----------------------------- MODULE Referendum -----------------------------
(***************************************************************************)
(* What the DAO promises of its polls, without tallies, heights, quorums   *)
(* or effects: a poll is open until it is settled once; while it is open   *)
(* each account casts at most one ballot, which is never changed; it can   *)
(* only pass if a recount of the ballots, each with the weight it was cast *)
(* with, carries it.                                                       *)
(***************************************************************************)
EXTENDS Integers, FiniteSets

CONSTANTS
    Electorate,     \* accounts that may cast a ballot
    Ids             \* polls there may be

VARIABLES
    outcome,        \* id -> "open", "passed" or "failed"
    ballot          \* <<id, account>> -> [approve, weight]

Ballot == [approve : BOOLEAN, weight : Nat \ {0}]

\* The weight of the ballots of a poll that say yes, or no, unit by unit.
BallotsFor(id, approve) ==
    {account \in Electorate :
        <<id, account>> \in DOMAIN ballot /\ ballot[<<id, account>>].approve = approve}

BallotUnits(id, some) ==
    UNION {{account} \X (1..ballot[<<id, account>>].weight) : account \in some}

Recount(id, approve) == Cardinality(BallotUnits(id, BallotsFor(id, approve)))

\* At least half of the weight says yes, and about a third at most says no.
Carried(id) ==
    LET yes == Recount(id, TRUE)
        no == Recount(id, FALSE)
    IN  yes > 0 /\ yes >= no /\ 100 * no < 34 * (yes + no)

ReferendumInit ==
    /\ outcome = [id \in {} |-> "open"]
    /\ ballot = [key \in {} |-> [approve |-> TRUE, weight |-> 1]]

Propose(id) ==
    /\ id \notin DOMAIN outcome
    /\ outcome' = [i \in DOMAIN outcome \cup {id} |-> IF i = id THEN "open" ELSE outcome[i]]
    /\ UNCHANGED ballot

Cast(id, account) ==
    LET key == <<id, account>>
    IN  /\ id \in DOMAIN outcome
        /\ outcome[id] = "open"
        /\ key \notin DOMAIN ballot
        /\ DOMAIN ballot' = DOMAIN ballot \cup {key}
        /\ ballot' = [k \in DOMAIN ballot' |->
                         IF k = key THEN ballot'[key] ELSE ballot[k]]
        /\ ballot'[key] \in Ballot
        /\ UNCHANGED outcome

Settle(id, result) ==
    /\ id \in DOMAIN outcome
    /\ outcome[id] = "open"
    /\ result = "passed" => Carried(id)
    /\ outcome' = [outcome EXCEPT ![id] = result]
    /\ UNCHANGED ballot

ReferendumNext ==
    \/ \E id \in Ids : Propose(id)
    \/ \E id \in Ids, account \in Electorate : Cast(id, account)
    \/ \E id \in Ids, result \in {"passed", "failed"} : Settle(id, result)

ReferendumSpec == ReferendumInit /\ [][ReferendumNext]_<<outcome, ballot>>

=============================================================================
