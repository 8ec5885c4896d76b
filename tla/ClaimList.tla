----------------------------- MODULE ClaimList -----------------------------
(***************************************************************************)
(* The loop of handle_claim over the list of addresses it is given: the    *)
(* storage is read and written once per winning ticket, so that an address *)
(* named again, or after others, meets what the earlier ones left. Lottery *)
(* takes the addresses as a set and writes all their claims at once; here  *)
(* the loop is folded over every list and the two are compared.            *)
(***************************************************************************)
EXTENDS Lottery, TLC

LOCAL INSTANCE SequencesExt

CONSTANT
    MaxListed       \* bound: the addresses of a list

ASSUME ListAssumption == MaxListed \in Nat

\* What the loop reads and writes: PREFIXED_WINNER and PREFIXED_RANK.
Stored == [winner |-> winner, rank |-> rank]

\* Mutant of SaveWinner: the ranks saved before are lost.
SaveLastRank(stored, key, r) ==
    LET slot == <<key[1], r>>
    IN  [winner |-> (key :> [claimed |-> FALSE, ranks |-> [k \in Ranks |-> IF k = r THEN 1 ELSE 0]])
                    @@ stored.winner,
         rank |-> (slot :> MayLoad(stored.rank, slot, 0) + 1) @@ stored.rank]

\* One winning ticket of rank r is pushed to the ranks of its player, which are
\* counted as in Lottery, and counted among the tickets of its rank.
SaveWinner(stored, key, r) ==
    LET slot == <<key[1], r>>
        none == [claimed |-> FALSE, ranks |-> [k \in Ranks |-> 0]]
        saved == MayLoad(stored.winner, key, none)
    IN  [winner |-> (key :> [claimed |-> FALSE, ranks |-> [saved.ranks EXCEPT ![r] = @ + 1]])
                    @@ stored.winner,
         rank |-> (slot :> MayLoad(stored.rank, slot, 0) + 1) @@ stored.rank]

ClaimTicket(stored, key, ticket) ==
    LET r == RankOf(ticket, winning[key[1]])
    IN  IF r = NoRank THEN stored ELSE SaveWinner(stored, key, r)

\* Mutant of ClaimAddress: nobody asks whether the player claimed.
ClaimAddressAgain(lottery, stored, player) ==
    LET key == <<lottery, player>>
    IN  FoldLeft(LAMBDA acc, ticket : ClaimTicket(acc, key, ticket),
                 stored, MayLoad(tickets, key, <<>>))

\* The tickets of one address, unless it is a winner already.
ClaimAddress(lottery, stored, player) ==
    LET key == <<lottery, player>>
    IN  IF key \in DOMAIN stored.winner
        THEN stored
        ELSE FoldLeft(LAMBDA acc, ticket : ClaimTicket(acc, key, ticket),
                      stored, MayLoad(tickets, key, <<>>))

\* The addresses of the list, one after the other.
ClaimEach(lottery, addresses) ==
    FoldLeft(LAMBDA acc, player : ClaimAddress(lottery, acc, player), Stored, addresses)

\* Shorter lists are the first addresses of these.
Lists == [1..MaxListed -> Accounts]

\* While claims are open an address named twice in a list, in whatever order and
\* among whatever others, some of which claimed before, has each winning ticket
\* saved and counted once (handle_claim, save_winner).
ListedOnceClaimed ==
    LastLottery \in DOMAIN winning /\ now <= ClaimDeadline =>
        \A addresses \in Lists :
            LET stored == ClaimEach(LastLottery, addresses)
                claimants == Claimants(LastLottery, {addresses[i] : i \in DOMAIN addresses})
            IN  /\ stored.winner = WinnersAfter(LastLottery, claimants)
                /\ stored.rank = RanksAfter(LastLottery, claimants)

=============================================================================
