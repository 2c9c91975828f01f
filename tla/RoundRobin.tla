----------------------------- MODULE RoundRobin -----------------------------
(****************************************************************************)
(* The round robin balancer, pkg/proxy/round_robin_lb.go and                *)
(* weighted_round_robin_lb.go: the smooth weighted schedule it computes     *)
(* when its targets change, and the lock-free picks that walk it while the  *)
(* health checker turns targets on and off.  Targets are the positions      *)
(* 1..n of the weights.  Every alive.Load of a pick is a step.              *)
(****************************************************************************)
EXTENDS Integers, Sequences, FiniteSets, SequencesExt

CONSTANTS
    Weightings,      \* the configured weights, a set of sequences
    Pickers,         \* concurrent requests
    MaxScheduleLen,  \* maxScheduleLen
    MaxTurns(_),     \* bound on the turns taken, by the shares
    MaxRacing(_)     \* the same when health changes while requests are picking

ASSUME PickersAssumption == Pickers # {}
ASSUME BoundsAssumption == MaxScheduleLen \in Nat

-----------------------------------------------------------------------------
(* The schedule.                                                            *)

\* effectiveShares.
EffectiveShares(weights) ==
    LET weighted == \E i \in DOMAIN weights : weights[i] > 0 IN
    [i \in DOMAIN weights |->
        IF ~weighted THEN 1 ELSE IF weights[i] > 0 THEN weights[i] ELSE 0]

Gcd[a \in Nat, b \in Nat] == IF b = 0 THEN a ELSE Gcd[b, a % b]

\* The common factor of the shares; zero shares do not count.
Factor(shares) == FoldLeft(LAMBDA g, s : IF s > 0 THEN Gcd[g, s] ELSE g, 0, shares)

Total(shares) == FoldLeft(+, 0, shares)

\* The first of the richest targets.
Richest(credit, weights) ==
    CHOOSE i \in DOMAIN weights :
        /\ weights[i] > 0
        /\ \A j \in DOMAIN weights :
              weights[j] > 0 => credit[i] > credit[j] \/ (credit[i] = credit[j] /\ i <= j)

\* The pick paid its own weight instead of the total.
DealPayingWeight(weights, total, state) ==
    LET gained == [i \in DOMAIN weights |-> state.credit[i] + weights[i]]
        best == Richest(gained, weights)
    IN  [credit |-> [gained EXCEPT ![best] = @ - weights[best]],
         order |-> Append(state.order, best)]

\* One turn of interleave: every target gains its weight, the richest is picked
\* and pays the total.
Deal(weights, total, state) ==
    LET gained == [i \in DOMAIN weights |-> state.credit[i] + weights[i]]
        best == Richest(gained, weights)
    IN  [credit |-> [gained EXCEPT ![best] = @ - total],
         order |-> Append(state.order, best)]

InterleaveWeights(weights, total) ==
    FoldLeft(LAMBDA state, turn : Deal(weights, total, state),
             [credit |-> [i \in DOMAIN weights |-> 0], order |-> <<>>],
             [turn \in 1..total |-> turn]).order

Reduced(shares) ==
    [i \in DOMAIN shares |-> IF shares[i] > 0 THEN shares[i] \div Factor(shares) ELSE 0]

\* smoothSchedule: empty when there is no share or the cycle would be too long.
SmoothSchedule(shares) ==
    IF Factor(shares) = 0 \/ Total(Reduced(shares)) > MaxScheduleLen
    THEN <<>>
    ELSE InterleaveWeights(Reduced(shares), Total(Reduced(shares)))

-----------------------------------------------------------------------------
VARIABLES
    shares, order,  \* the rrSet being served
    alive,          \* each target's alive flag
    current,        \* turns taken
    skipped,        \* turns that fell on a dead target
    pc,             \* where each pick stands
    k, total, i,    \* pickLive's and pickStandby's locals
    got,            \* the target picked, 0 for nil
    steady,         \* history: targets alive ever since the pick began
    served,         \* history: how many picks each target got
    changed         \* history: the health checker has spoken since Init

set == <<shares, order>>
locals == <<k, total, i, got>>
vars == <<set, alive, current, skipped, pc, locals, steady, served, changed>>

Positions == DOMAIN shares

\* UpdateWeightedTargets; health is what the checker has said since.
Init ==
    \E w \in Weightings :
        /\ shares = EffectiveShares(w)
        /\ order = SmoothSchedule(EffectiveShares(w))
        /\ alive \in [DOMAIN w -> BOOLEAN]
        /\ current = 0 /\ skipped = 0
        /\ pc = [p \in Pickers |-> "idle"]
        /\ k = [p \in Pickers |-> 0] /\ total = [p \in Pickers |-> 0]
        /\ i = [p \in Pickers |-> 0] /\ got = [p \in Pickers |-> 0]
        /\ steady = [p \in Pickers |-> {}]
        /\ served = [t \in DOMAIN w |-> 0]
        /\ changed = FALSE

SetAlive(t) ==
    /\ current \in 1..MaxRacing(shares)
    /\ changed' = TRUE
    /\ alive' = [alive EXCEPT ![t] = ~@]
    /\ steady' = [p \in Pickers |-> steady[p] \ {t}]
    /\ UNCHANGED <<set, current, skipped, pc, locals, served>>

Goto(p, label, kk, sum, at) ==
    /\ pc' = [pc EXCEPT ![p] = label]
    /\ k' = [k EXCEPT ![p] = kk]
    /\ total' = [total EXCEPT ![p] = sum]
    /\ i' = [i EXCEPT ![p] = at]

\* NextState: take a turn.
Turn(p) ==
    /\ pc[p] = "idle"
    /\ current < IF changed THEN MaxRacing(shares) ELSE MaxTurns(shares)
    /\ current' = current + 1
    /\ Goto(p, IF order = <<>> THEN "sum" ELSE "look", current, 0, 1)
    /\ steady' = [steady EXCEPT ![p] = {t \in Positions : alive[t]}]
    /\ UNCHANGED <<set, alive, skipped, got, served>>

Return(p, t) ==
    /\ got' = [got EXCEPT ![p] = t]
    /\ Goto(p, "done", 0, 0, 0)
    /\ served' = IF t = 0 THEN served ELSE [served EXCEPT ![t] = @ + 1]

\* NextState: the target the turn lands on, when it is alive.
Scheduled(p) ==
    LET t == order[(k[p] % Len(order)) + 1] IN
    /\ pc[p] = "look" /\ alive[t]
    /\ Return(p, t)
    /\ UNCHANGED <<set, alive, current, skipped, steady>>

\* The skipped turn kept its place in the schedule.
SkipByTurn(p) ==
    LET t == order[(k[p] % Len(order)) + 1] IN
    /\ pc[p] = "look" /\ ~alive[t]
    /\ skipped' = skipped + 1
    /\ Goto(p, "sum", k[p], 0, 1)
    /\ UNCHANGED <<set, alive, current, got, steady, served>>

\* NextState: a turn that fell on a dead target is dealt over the live ones.
Skip(p) ==
    LET t == order[(k[p] % Len(order)) + 1] IN
    /\ pc[p] = "look" /\ ~alive[t]
    /\ skipped' = skipped + 1
    /\ Goto(p, "sum", skipped, 0, 1)
    /\ UNCHANGED <<set, alive, current, got, steady, served>>

\* pickLive's first loop, one target at a time.
Sum(p) ==
    /\ pc[p] = "sum" /\ i[p] \in Positions
    /\ LET t == i[p] IN
       Goto(p, "sum", k[p], total[p] + (IF alive[t] THEN shares[t] ELSE 0), t + 1)
    /\ UNCHANGED <<set, alive, current, skipped, got, steady, served>>

\* The standbys were asked as soon as the first weighted target was dead.
SummedEagerly(p) ==
    /\ pc[p] = "sum" /\ i[p] \notin Positions
    /\ IF total[p] < Total(shares)
       THEN Goto(p, "count", k[p], 0, 1)
       ELSE Goto(p, "walk", k[p] % total[p], 0, 1)
    /\ UNCHANGED <<set, alive, current, skipped, got, steady, served>>

\* pickLive: the standbys are asked only when no weighted target is alive.
Summed(p) ==
    /\ pc[p] = "sum" /\ i[p] \notin Positions
    /\ IF total[p] = 0
       THEN Goto(p, "count", k[p], 0, 1)
       ELSE Goto(p, "walk", k[p] % total[p], 0, 1)
    /\ UNCHANGED <<set, alive, current, skipped, got, steady, served>>

\* pickLive's second loop: the live target the turn lands on.
Walk(p) ==
    /\ pc[p] = "walk" /\ i[p] \in Positions
    /\ LET t == i[p]
           live == shares[t] > 0 /\ alive[t]
       IN  IF live /\ k[p] < shares[t]
           THEN Return(p, t)
           ELSE /\ Goto(p, "walk", IF live THEN k[p] - shares[t] ELSE k[p], 0, t + 1)
                /\ UNCHANGED <<got, served>>
    /\ UNCHANGED <<set, alive, current, skipped, steady>>

\* pickStandby's first loop.
Count(p) ==
    /\ pc[p] = "count" /\ i[p] \in Positions
    /\ LET t == i[p] IN
       Goto(p, "count", k[p], total[p] + (IF shares[t] = 0 /\ alive[t] THEN 1 ELSE 0), t + 1)
    /\ UNCHANGED <<set, alive, current, skipped, got, steady, served>>

Counted(p) ==
    /\ pc[p] = "count" /\ i[p] \notin Positions
    /\ IF total[p] = 0
       THEN Return(p, 0)
       ELSE Goto(p, "deal", k[p] % total[p], 0, 1) /\ UNCHANGED <<got, served>>
    /\ UNCHANGED <<set, alive, current, skipped, steady>>

\* pickStandby's second loop.
DealStandby(p) ==
    /\ pc[p] = "deal" /\ i[p] \in Positions
    /\ LET t == i[p]
           live == shares[t] = 0 /\ alive[t]
       IN  IF live /\ k[p] = 0
           THEN Return(p, t)
           ELSE /\ Goto(p, "deal", IF live THEN k[p] - 1 ELSE k[p], 0, t + 1)
                /\ UNCHANGED <<got, served>>
    /\ UNCHANGED <<set, alive, current, skipped, steady>>

\* Both walks end with nil when a target died after it was counted.
Exhausted(p) ==
    /\ pc[p] \in {"walk", "deal"} /\ i[p] \notin Positions
    /\ Return(p, 0)
    /\ UNCHANGED <<set, alive, current, skipped, steady>>

\* The request goes on with what it was given.
Leave(p) ==
    /\ pc[p] = "done"
    /\ pc' = [pc EXCEPT ![p] = "idle"]
    /\ got' = [got EXCEPT ![p] = 0]
    /\ steady' = [steady EXCEPT ![p] = {}]
    /\ UNCHANGED <<set, alive, current, skipped, k, total, i, served>>

Pick(p) ==
    \/ Turn(p) \/ Scheduled(p) \/ Skip(p) \/ Sum(p) \/ Summed(p) \/ Walk(p)
    \/ Count(p) \/ Counted(p) \/ DealStandby(p) \/ Exhausted(p) \/ Leave(p)

Next ==
    \/ \E p \in Pickers : Pick(p) /\ UNCHANGED changed
    \/ \E t \in Positions : SetAlive(t)

Spec == Init /\ [][Next]_vars

-----------------------------------------------------------------------------
\* Types.
TypeOK ==
    /\ \A t \in Positions : shares[t] \in Nat
    /\ order \in Seq(Positions)
    /\ alive \in [Positions -> BOOLEAN]
    /\ skipped \in 0..current /\ current \in 0..MaxTurns(shares)
    /\ pc \in [Pickers -> {"idle", "look", "sum", "walk", "count", "deal", "done"}]
    /\ got \in [Pickers -> {0} \cup Positions]
    /\ \A p \in Pickers : k[p] \in Nat /\ i[p] \in 0..(Len(shares) + 1)
                          /\ total[p] \in 0..(Total(shares) + Len(shares))

\* "each target appears share/gcd times per cycle, spread out" (smoothSchedule),
\* with the weights' proportions kept exactly: a schedule is one cycle, in it
\* each target appears in proportion to its share, and after m turns no target
\* is a whole turn or more ahead of or behind what m turns owe it.
ScheduleIsSmooth ==
    LET n == Len(order)
        Turns(t, m) == Cardinality({j \in 1..m : order[j] = t})
    IN  order # <<>> =>
            \A t \in Positions :
                /\ Turns(t, n) * Total(shares) = n * shares[t]
                /\ Turns(t, n) * Factor(shares) = shares[t]
                /\ \A m \in 1..n :
                      LET ahead == Turns(t, m) * n - m * Turns(t, n)
                      IN  -n < ahead /\ ahead < n

Idle == \A p \in Pickers : pc[p] \in {"idle", "done"}

LiveTotal == Total([t \in Positions |-> IF alive[t] THEN shares[t] ELSE 0])

\* pickLive deals dead targets' turns "over the live targets in proportion to
\* their shares": with steady health, whenever whole cycles of the schedule and
\* of the skipped turns are complete, the live targets have been served in exact
\* proportion to their shares, however the picks were interleaved.
ServedInProportion ==
    /\ Idle /\ ~changed /\ LiveTotal > 0
    /\ IF order = <<>> THEN current % LiveTotal = 0
       ELSE current % Len(order) = 0 /\ skipped % LiveTotal = 0
    => \A t, u \in Positions :
          alive[t] /\ alive[u] => served[t] * shares[u] = served[u] * shares[t]

\* A standby, "reached only when no weighted target is alive" (pickStandby),
\* takes no request while a weighted target stays alive throughout the pick.
StandbyWaits ==
    \A p \in Pickers :
        pc[p] = "done" /\ got[p] # 0 /\ shares[got[p]] = 0
        => \A t \in steady[p] : shares[t] = 0
=============================================================================
