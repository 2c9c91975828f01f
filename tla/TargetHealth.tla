---------------------------- MODULE TargetHealth ----------------------------
(****************************************************************************)
(* How one proxy handler decides which of its targets take traffic          *)
(* (pkg/proxy/health/tracker.go, health_check.go, discovery.go and the      *)
(* health part of proxy.go).                                                *)
(*                                                                          *)
(* Three goroutines share two pieces of state.  The health checker records  *)
(* each result in the Tracker and tells the balancer only when the Tracker  *)
(* says something changed; the build that stores the handler seeds both     *)
(* from the handler it replaces; service discovery swaps the balancer's     *)
(* targets and forgets the history of the ones that left.  The Tracker and  *)
(* the balancer are updated one after the other, never together.            *)
(****************************************************************************)
EXTENDS Naturals

CONSTANTS
    Targets,      \* target URLs
    Unhealthy,    \* consecutive failures that take a target out (0: the default)
    Healthy,      \* consecutive successes that bring it back (0: the default)
    Services      \* whether it discovers, whether its build outlasts a check interval

ASSUME ThresholdsAssumption == Unhealthy \in Nat /\ Healthy \in Nat
ASSUME ServicesAssumption == Services \subseteq BOOLEAN \X BOOLEAN

VARIABLES
    discovers,    \* the service has a discovery URL
    slow,         \* the rest of the chain takes longer to build than a check interval
    up,           \* what a check of each target would find
    members,      \* the balancer's targets
    lb,           \* the balancer's alive flag of each target
    seen,         \* targets the Tracker has an entry for
    alive,        \* the Tracker's conclusion
    consecutive,  \* results in a row that disagree with it
    due,          \* targets the running tick has still to check
    tell, news,   \* changes recorded and not yet passed to the balancer
    prev,         \* conclusions of the handler this one replaces
    inherit,      \* targets InheritHealth has still to visit
    down,         \* targets it seeded as dead and has still to mark
    stored,       \* the handler has been stored in the cache
    retiring,     \* targets that left, with history still to forget
    last, streak  \* history: each target's last result and how often in a row

tracker == <<seen, alive, consecutive>>
checker == <<due, tell, news>>
given == <<discovers, slow, prev>>
building == <<given, inherit, down, stored>>
history == <<last, streak>>
vars == <<up, members, lb, tracker, checker, building, retiring, history>>

\* New: a threshold that is not set means the default of two.
Threshold(n) == IF n = 0 THEN 2 ELSE n

Need(ok) == IF ok THEN Threshold(Healthy) ELSE Threshold(Unhealthy)

\* Build: every target starts alive and unchecked; the checker is running.  The
\* handler it replaces concluded something about some of the targets.
Init ==
    /\ up \in [Targets -> BOOLEAN]
    /\ \E s \in Services : discovers = s[1] /\ slow = s[2]
    /\ members \in {Targets} \cup (IF discovers THEN SUBSET Targets ELSE {})
    /\ lb = [t \in Targets |-> TRUE]
    /\ seen = {} /\ alive = [t \in Targets |-> FALSE]
    /\ consecutive = [t \in Targets |-> 0]
    /\ due = {} /\ tell = {} /\ news = [t \in Targets |-> FALSE]
    /\ prev \in [Targets -> {"unknown", "alive", "dead"}]
    /\ inherit = {} /\ down = {} /\ stored = FALSE
    /\ retiring = {}
    /\ last = [t \in Targets |-> TRUE] /\ streak = [t \in Targets |-> 0]

\* A backend goes down or comes back.
Flip(t) ==
    /\ up' = [up EXCEPT ![t] = ~@]
    /\ UNCHANGED <<members, lb, tracker, checker, building, retiring, history>>

-----------------------------------------------------------------------------
(* The health checker: one tick checks every target, and ends with the last.*)

\* checkAll.  Only a handler whose chain takes longer to build than the check
\* interval is checked before it is stored.
Tick ==
    /\ due = {} /\ tell = {}
    /\ ~slow => stored /\ inherit = {} /\ down = {}
    /\ due' = members
    /\ UNCHANGED <<up, members, lb, tracker, tell, news, building, retiring, history>>

\* The result of a check becomes the conclusion: the first one at once, any
\* other when it is the last of a long enough streak against it.
Concludes(t, ok) ==
    \/ t \notin seen
    \/ ok # alive[t] /\ consecutive[t] + 1 >= Need(ok)

\* Agreeing results left the streak standing.
RecordKeepingStreak(t) ==
    LET ok == up[t] IN
    /\ t \in due
    /\ due' = due \ {t}
    /\ seen' = seen \cup {t}
    /\ tell' = IF Concludes(t, ok) THEN tell \cup {t} ELSE tell
    /\ news' = IF Concludes(t, ok) THEN [news EXCEPT ![t] = ok] ELSE news
    /\ alive' = IF Concludes(t, ok) THEN [alive EXCEPT ![t] = ok] ELSE alive
    /\ consecutive' =
         [consecutive EXCEPT ![t] =
             IF Concludes(t, ok) THEN 0 ELSE IF ok = alive[t] THEN @ ELSE @ + 1]
    /\ streak' = [streak EXCEPT ![t] =
                    IF ok # last[t] THEN 1 ELSE IF @ < Need(ok) THEN @ + 1 ELSE @]
    /\ last' = [last EXCEPT ![t] = ok]
    /\ UNCHANGED <<up, members, lb, building, retiring>>

\* checkOne up to Record.
Record(t) ==
    LET ok == up[t] IN
    /\ t \in due
    /\ due' = due \ {t}
    /\ seen' = seen \cup {t}
    /\ tell' = IF Concludes(t, ok) THEN tell \cup {t} ELSE tell
    /\ news' = IF Concludes(t, ok) THEN [news EXCEPT ![t] = ok] ELSE news
    /\ alive' = IF Concludes(t, ok) THEN [alive EXCEPT ![t] = ok] ELSE alive
    /\ consecutive' =
         [consecutive EXCEPT ![t] =
             IF Concludes(t, ok) \/ ok = alive[t] THEN 0 ELSE @ + 1]
    /\ streak' = [streak EXCEPT ![t] =
                    IF ok # last[t] THEN 1 ELSE IF @ < Need(ok) THEN @ + 1 ELSE @]
    /\ last' = [last EXCEPT ![t] = ok]
    /\ UNCHANGED <<up, members, lb, building, retiring>>

\* Only bad news was passed on.
SetDead(t) ==
    /\ t \in tell
    /\ tell' = tell \ {t} /\ news' = [news EXCEPT ![t] = FALSE]
    /\ lb' = IF t \in members /\ ~news[t] THEN [lb EXCEPT ![t] = FALSE] ELSE lb
    /\ UNCHANGED <<up, members, tracker, due, building, retiring, history>>

\* checkOne's SetAlive, with what Record returned.  It writes to the target list
\* it loaded, so one that is replaced meanwhile is as one written just before.
SetAlive(t) ==
    /\ t \in tell
    /\ tell' = tell \ {t} /\ news' = [news EXCEPT ![t] = FALSE]
    /\ lb' = IF t \in members THEN [lb EXCEPT ![t] = news[t]] ELSE lb
    /\ UNCHANGED <<up, members, tracker, due, building, retiring, history>>

-----------------------------------------------------------------------------
(* storeLocked: the new handler inherits, and is then stored.               *)

Inherit ==
    /\ ~stored
    /\ stored' = TRUE
    /\ inherit' = {t \in members : prev[t] # "unknown"}
    /\ UNCHANGED <<up, members, lb, tracker, checker, given, down, retiring, history>>

\* Dead targets were seeded and the balancer was not told.
SeedOnly(t) ==
    /\ t \in inherit
    /\ inherit' = inherit \ {t}
    /\ seen' = seen \cup {t}
    /\ alive' = IF t \in seen THEN alive ELSE [alive EXCEPT ![t] = prev[t] = "alive"]
    /\ UNCHANGED <<up, members, lb, consecutive, checker, down, given, stored, retiring,
                   history>>

\* InheritHealth up to Seed: a target with history of its own keeps it.
Seed(t) ==
    /\ t \in inherit
    /\ inherit' = inherit \ {t}
    /\ seen' = seen \cup {t}
    /\ alive' = IF t \in seen THEN alive ELSE [alive EXCEPT ![t] = prev[t] = "alive"]
    /\ down' = IF prev[t] = "dead" THEN down \cup {t} ELSE down
    /\ UNCHANGED <<up, members, lb, consecutive, checker, given, stored, retiring, history>>

\* InheritHealth's SetAlive(url, false), whether or not Seed took.
MarkDown(t) ==
    /\ t \in down
    /\ down' = down \ {t}
    /\ lb' = IF t \in members THEN [lb EXCEPT ![t] = FALSE] ELSE lb
    /\ UNCHANGED <<up, members, tracker, checker, given, inherit, stored, retiring, history>>

-----------------------------------------------------------------------------
(* Service discovery.                                                       *)

\* applyDiscoveredTargets: UpdateWeightedTargets makes every target a new,
\* alive state.
Discover(S) ==
    /\ discovers
    /\ retiring = {} /\ S # {}
    /\ members' = S
    /\ lb' = [t \in Targets |-> IF t \in S THEN TRUE ELSE lb[t]]
    /\ retiring' = members \ S
    /\ UNCHANGED <<up, tracker, checker, building, history>>

\* retireTargetMetrics: Forget.
Forget(t) ==
    /\ t \in retiring
    /\ retiring' = retiring \ {t}
    /\ seen' = seen \ {t}
    /\ alive' = [alive EXCEPT ![t] = FALSE]
    /\ consecutive' = [consecutive EXCEPT ![t] = 0]
    /\ last' = [last EXCEPT ![t] = TRUE] /\ streak' = [streak EXCEPT ![t] = 0]
    /\ UNCHANGED <<up, members, lb, checker, building>>

-----------------------------------------------------------------------------
Next ==
    \/ Tick \/ Inherit
    \/ \E t \in Targets :
          Flip(t) \/ Record(t) \/ SetAlive(t) \/ Seed(t) \/ MarkDown(t) \/ Forget(t)
    \/ \E S \in SUBSET Targets : Discover(S)

Spec == Init /\ [][Next]_vars

\* The ticker keeps firing, checks are bounded by their timeout, and a build
\* that began is stored; nothing is assumed of backends or of discovery.
Fairness ==
    /\ WF_vars(Tick) /\ WF_vars(Inherit)
    /\ \A t \in Targets : /\ WF_vars(Record(t)) /\ WF_vars(SetAlive(t))
                          /\ WF_vars(Seed(t)) /\ WF_vars(MarkDown(t))

FairSpec == Spec /\ Fairness

-----------------------------------------------------------------------------
\* Types.
TypeOK ==
    /\ discovers \in BOOLEAN /\ slow \in BOOLEAN
    /\ up \in [Targets -> BOOLEAN] /\ members \in SUBSET Targets
    /\ lb \in [Targets -> BOOLEAN]
    /\ seen \in SUBSET Targets /\ alive \in [Targets -> BOOLEAN]
    /\ consecutive \in [Targets -> Nat]
    /\ \A t \in Targets : consecutive[t] < Threshold(Healthy)
                          \/ consecutive[t] < Threshold(Unhealthy)
    /\ due \in SUBSET Targets /\ tell \in SUBSET Targets
    /\ news \in [Targets -> BOOLEAN]
    /\ prev \in [Targets -> {"unknown", "alive", "dead"}]
    /\ inherit \in SUBSET Targets /\ down \in SUBSET Targets /\ stored \in BOOLEAN
    /\ retiring \in SUBSET Targets
    /\ last \in [Targets -> BOOLEAN] /\ streak \in [Targets -> Nat]

\* No news of the target is on its way from the Tracker to the balancer.
Settled(t) == t \notin tell /\ t \notin down

\* The Tracker's conclusion "is what the balancer was last told"
\* (targetHealthState.alive): a target in the balancer with history is in
\* rotation exactly when the Tracker holds it alive.  A repeat is never re-sent,
\* so a target on which the two disagree stays in or out of rotation wrongly.
AlwaysTold ==
    \A t \in members : t \in seen /\ Settled(t) => lb[t] = alive[t]

\* AlwaysTold, for a service without discovery whose chain is stored before its
\* first check.
BalancerTold == ~discovers /\ ~slow => AlwaysTold

\* "One check result is not a state change" (checkOne): after the first result
\* or an inherited conclusion the Tracker changes its mind only on a full
\* streak of results against it.
ThresholdRespected ==
    [][\A t \in Targets :
          t \in seen /\ t \in seen' /\ alive'[t] # alive[t]
          => last'[t] = alive'[t] /\ streak'[t] >= Need(alive'[t])]_vars

\* A backend that stays down leaves the rotation for good, also one that was
\* inherited as dead: a disagreement would never be repaired, since a result that
\* agrees with the Tracker is not passed on.
DeadLeavesRotation ==
    \A t \in Targets :
       ~discovers /\ ~slow /\ <>[](~up[t]) => <>[](t \in members => ~lb[t])

\* A backend that stays up takes traffic again, also one inherited as dead, and
\* whatever discovery does to the balancer.
LiveReturns ==
    \A t \in Targets : ~slow /\ <>[](up[t]) => <>[](t \in members => lb[t])
=============================================================================
