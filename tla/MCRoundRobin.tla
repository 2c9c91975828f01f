---------------------------- MODULE MCRoundRobin ----------------------------
EXTENDS RoundRobin, TLC

\* Weighted, unweighted and standby targets; the last has no schedule.
Picked == {<<1, 1>>, <<2, 1, 0>>, <<1, 1, 1, 1>>, <<1, 0, 0>>, <<4, 3, 2>>}

Raced == {<<1, 2, 0>>, <<2, 0, 0>>}

\* Every weighting of up to three targets with weights up to six, and four
\* targets without weights.
AllWeightings == UNION {[1..n -> 0..6] : n \in 1..3} \cup {<<0, 0, 0, 0>>}

TurnBound(sh) == IF sh \in Picked THEN 12 ELSE IF sh \in Raced THEN 3 ELSE 0
RaceBound(sh) == IF sh \in Raced THEN 3 ELSE 0

Symmetry == Permutations(Pickers)
=============================================================================
