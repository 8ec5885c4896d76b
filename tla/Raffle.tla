------------------------------- MODULE Raffle -------------------------------
(***************************************************************************)
(* What the lottery promises of its prizes, without tickets, ranks, shares *)
(* or windows: each lottery is settled with a pot that never changes; out  *)
(* of the pot of the last lottery every player is served at most once, and *)
(* all that is given stays within the pot, unless the terms of the prizes  *)
(* are declared void.                                                      *)
(***************************************************************************)
EXTENDS Integers

CONSTANT Players

VARIABLES
    last,       \* the last lottery settled, 0 if there is none
    pot,        \* lottery -> amount set aside for its winners
    given,      \* lottery -> amount handed out of it
    served,     \* lottery -> players that got their prize
    void        \* lotteries whose terms changed after a prize was given

raffleVars == <<last, pot, given, served, void>>

RaffleInit ==
    /\ last = 0
    /\ pot = [lottery \in {} |-> 0]
    /\ given = [lottery \in {} |-> 0]
    /\ served = [lottery \in {} |-> {}]
    /\ void = {}

\* map with a value for the next lottery.
With(map, value) == [lottery \in 1..(last + 1) |-> IF lottery = last + 1 THEN value ELSE map[lottery]]

Settle ==
    /\ last' = last + 1
    /\ DOMAIN pot' = 1..(last + 1)
    /\ pot'[last + 1] \in Nat
    /\ pot' = With(pot, pot'[last + 1])
    /\ given' = With(given, 0)
    /\ served' = With(served, {})
    /\ UNCHANGED void

Serve(player) ==
    /\ last > 0
    /\ player \notin served[last]
    /\ served' = [served EXCEPT ![last] = @ \cup {player}]
    /\ DOMAIN given' = DOMAIN given
    /\ given'[last] >= given[last]
    /\ given' = [given EXCEPT ![last] = given'[last]]
    /\ last \notin void => given'[last] <= pot[last]
    /\ UNCHANGED <<last, pot, void>>

\* The terms of the last lottery change, now that somebody was served.
Void ==
    /\ last > 0
    /\ served[last] # {}
    /\ void' = void \cup {last}
    /\ UNCHANGED <<last, pot, given, served>>

RaffleNext == Settle \/ (\E player \in Players : Serve(player)) \/ Void

RaffleSpec == RaffleInit /\ [][RaffleNext]_raffleVars

=============================================================================
