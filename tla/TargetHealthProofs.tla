------------------------- MODULE TargetHealthProofs -------------------------
(****************************************************************************)
(* Proofs about TargetHealth, for any targets and any thresholds: type      *)
(* correctness, the Tracker's threshold, and, for a service without         *)
(* discovery whose chain is stored before its first check, that the         *)
(* balancer and the Tracker agree.                                          *)
(****************************************************************************)
EXTENDS TargetHealth, TLAPS

LEMMA ThresholdType == \A n \in Nat : Threshold(n) \in Nat /\ Threshold(n) >= 1
BY DEF Threshold

LEMMA NeedType == \A ok \in BOOLEAN : Need(ok) \in Nat /\ Need(ok) >= 1
BY ThresholdType, ThresholdsAssumption DEF Need

LEMMA TypeInit == Init => TypeOK
<1> SUFFICES ASSUME Init PROVE TypeOK
    OBVIOUS
<1>0. \A t \in Targets : consecutive[t] = 0
    BY DEF Init
<1>1. \A t \in Targets : consecutive[t] < Threshold(Healthy)
  <2>1. Threshold(Healthy) \in Nat /\ Threshold(Healthy) >= 1
      BY ThresholdType, ThresholdsAssumption
  <2>2. 0 < Threshold(Healthy)
      BY <2>1
  <2> QED BY <1>0, <2>2
<1>2. members \in SUBSET Targets
    BY DEF Init
<1>3. consecutive \in [Targets -> Nat] /\ streak \in [Targets -> Nat]
    BY DEF Init
<1>4. discovers \in BOOLEAN /\ slow \in BOOLEAN
    BY ServicesAssumption DEF Init
<1> QED BY <1>1, <1>2, <1>3, <1>4 DEF Init, TypeOK

LEMMA RecordTypes ==
    ASSUME TypeOK, NEW t \in Targets, Record(t)
    PROVE  TypeOK'
<1> DEFINE ok == up[t]
<1>0. ok \in BOOLEAN /\ alive[t] \in BOOLEAN /\ consecutive[t] \in Nat
    BY DEF TypeOK
<1>1. Need(ok) \in Nat /\ Need(ok) >= 1
    BY <1>0, NeedType
<1>2. consecutive' \in [Targets -> Nat]
    BY DEF TypeOK, Record
<1>3. ASSUME NEW u \in Targets
      PROVE  consecutive'[u] < Threshold(Healthy) \/ consecutive'[u] < Threshold(Unhealthy)
  <2>1. CASE u # t
      BY <2>1 DEF TypeOK, Record
  <2>2. CASE u = t /\ (Concludes(t, ok) \/ ok = alive[t])
    <3>1. consecutive'[u] = 0
        BY <2>2 DEF TypeOK, Record
    <3> QED BY <3>1, ThresholdType, ThresholdsAssumption
  <2>3. CASE u = t /\ ~(Concludes(t, ok) \/ ok = alive[t])
    <3>1. consecutive'[u] = consecutive[t] + 1
        BY <2>3 DEF TypeOK, Record
    <3>2. consecutive[t] + 1 < Need(ok)
        BY <1>0, <1>1, <2>3 DEF Concludes
    <3> QED BY <3>1, <3>2 DEF Need
  <2> QED BY <2>1, <2>2, <2>3
<1>4. streak' \in [Targets -> Nat]
    BY DEF TypeOK, Record
<1>5. alive' \in [Targets -> BOOLEAN] /\ news' \in [Targets -> BOOLEAN]
      /\ last' \in [Targets -> BOOLEAN]
    BY <1>0 DEF TypeOK, Record
<1> QED BY <1>2, <1>3, <1>4, <1>5 DEF TypeOK, Record, building, given

LEMMA TypeNext == TypeOK /\ [Next]_vars => TypeOK'
<1> SUFFICES ASSUME TypeOK, [Next]_vars PROVE TypeOK'
    OBVIOUS
<1> USE DEF TypeOK, tracker, checker, building, given, history
<1>1. CASE Tick
    BY <1>1 DEF Tick
<1>2. CASE Inherit
    BY <1>2 DEF Inherit
<1>3. ASSUME NEW t \in Targets, Flip(t) PROVE TypeOK'
    BY <1>3 DEF Flip
<1>4. ASSUME NEW t \in Targets, SetAlive(t) PROVE TypeOK'
    BY <1>4 DEF SetAlive
<1>5. ASSUME NEW t \in Targets, Seed(t) PROVE TypeOK'
    BY <1>5 DEF Seed
<1>6. ASSUME NEW t \in Targets, MarkDown(t) PROVE TypeOK'
    BY <1>6 DEF MarkDown
<1>7. ASSUME NEW t \in Targets, Forget(t) PROVE TypeOK'
  <2>1. \A u \in Targets :
           consecutive'[u] < Threshold(Healthy) \/ consecutive'[u] < Threshold(Unhealthy)
      BY <1>7, ThresholdType, ThresholdsAssumption DEF Forget
  <2> QED BY <1>7, <2>1 DEF Forget
<1>8. ASSUME NEW S \in SUBSET Targets, Discover(S) PROVE TypeOK'
    BY <1>8 DEF Discover
<1>9. CASE UNCHANGED vars
    BY <1>9 DEF vars
<1> QED BY <1>1, <1>2, <1>3, <1>4, <1>5, <1>6, <1>7, <1>8, <1>9, RecordTypes DEF Next

\* Every variable keeps its type, and no streak reaches its threshold unnoticed.
THEOREM TypeCorrect == Spec => []TypeOK
BY TypeInit, TypeNext, PTL DEF Spec

-----------------------------------------------------------------------------
(* The threshold.  The Tracker's own counter is bounded by the streak that  *)
(* really occurred, and a standing counter means the last result disagreed. *)

StreakInv ==
    \A t \in Targets :
        /\ consecutive[t] <= streak[t]
        /\ consecutive[t] > 0 => last[t] # alive[t] /\ t \in seen

LEMMA RecordStreak ==
    ASSUME TypeOK, StreakInv, NEW t \in Targets, Record(t)
    PROVE  /\ StreakInv'
           /\ \A u \in Targets : u \in seen /\ alive'[u] # alive[u]
                                 => last'[u] = alive'[u] /\ streak'[u] >= Need(alive'[u])
<1> DEFINE ok == up[t]
<1>0. /\ ok \in BOOLEAN /\ alive[t] \in BOOLEAN /\ last[t] \in BOOLEAN
      /\ consecutive[t] \in Nat /\ streak[t] \in Nat
      /\ consecutive[t] <= streak[t]
      /\ consecutive[t] > 0 => last[t] # alive[t] /\ t \in seen
    BY DEF TypeOK, StreakInv
<1>1. Need(ok) \in Nat /\ Need(ok) >= 1
    BY <1>0, NeedType
<1>2. /\ last'[t] = ok
      /\ streak'[t] = IF ok # last[t] THEN 1
                      ELSE IF streak[t] < Need(ok) THEN streak[t] + 1 ELSE streak[t]
      /\ consecutive'[t] = IF Concludes(t, ok) \/ ok = alive[t] THEN 0
                           ELSE consecutive[t] + 1
      /\ alive'[t] = IF Concludes(t, ok) THEN ok ELSE alive[t]
      /\ seen' = seen \cup {t}
    BY DEF TypeOK, Record
<1>3. \A u \in Targets : u # t => /\ last'[u] = last[u] /\ streak'[u] = streak[u]
                                  /\ consecutive'[u] = consecutive[u]
                                  /\ alive'[u] = alive[u]
    BY DEF TypeOK, Record
<1>4. /\ consecutive'[t] <= streak'[t]
      /\ consecutive'[t] > 0 => last'[t] # alive'[t] /\ t \in seen'
  <2>1. CASE Concludes(t, ok) \/ ok = alive[t]
      BY <1>0, <1>1, <1>2, <2>1
  <2>2. CASE ~(Concludes(t, ok) \/ ok = alive[t])
    <3>1. consecutive[t] + 1 < Need(ok)
        BY <1>0, <1>1, <2>2 DEF Concludes
    <3>2. consecutive[t] > 0 => ok = last[t]
        BY <1>0, <2>2
    <3> QED BY <1>0, <1>1, <1>2, <2>2, <3>1, <3>2
  <2> QED BY <2>1, <2>2
<1>5. t \in seen /\ alive'[t] # alive[t]
      => last'[t] = alive'[t] /\ streak'[t] >= Need(alive'[t])
  <2> SUFFICES ASSUME t \in seen, alive'[t] # alive[t]
               PROVE  last'[t] = alive'[t] /\ streak'[t] >= Need(alive'[t])
      OBVIOUS
  <2>1. Concludes(t, ok) /\ alive'[t] = ok /\ ok # alive[t]
      BY <1>2
  <2>2. consecutive[t] + 1 >= Need(ok)
      BY <2>1 DEF Concludes
  <2>3. consecutive[t] > 0 => ok = last[t]
      BY <1>0, <2>1
  <2>4. streak'[t] >= Need(ok)
      BY <1>0, <1>1, <1>2, <2>2, <2>3
  <2> QED BY <1>2, <2>1, <2>4
<1>6. StreakInv'
    BY <1>2, <1>3, <1>4 DEF StreakInv
<1> QED BY <1>3, <1>5, <1>6

LEMMA StreakNext ==
    TypeOK /\ StreakInv /\ [Next]_vars
    => /\ StreakInv'
       /\ \A t \in Targets :
             t \in seen /\ t \in seen' /\ alive'[t] # alive[t]
             => last'[t] = alive'[t] /\ streak'[t] >= Need(alive'[t])
<1> DEFINE Kept == \A t \in Targets :
                      t \in seen /\ t \in seen' /\ alive'[t] # alive[t]
                      => last'[t] = alive'[t] /\ streak'[t] >= Need(alive'[t])
<1> SUFFICES ASSUME TypeOK, StreakInv, [Next]_vars PROVE StreakInv' /\ Kept
    OBVIOUS
<1>1. ASSUME UNCHANGED <<tracker, history>> PROVE StreakInv' /\ Kept
    BY <1>1 DEF tracker, history, StreakInv
<1>2. ASSUME NEW t \in Targets, Seed(t) PROVE StreakInv' /\ Kept
  <2>1. \A u \in Targets : u \in seen => alive'[u] = alive[u]
      BY <1>2 DEF Seed, TypeOK
  <2>2. seen \subseteq seen' /\ UNCHANGED <<consecutive, history>>
      BY <1>2 DEF Seed
  <2> QED BY <2>1, <2>2 DEF StreakInv, history
<1>3. ASSUME NEW t \in Targets, Forget(t) PROVE StreakInv' /\ Kept
  <2>1. consecutive'[t] = 0 /\ streak'[t] = 0 /\ t \notin seen'
      BY <1>3 DEF Forget, TypeOK
  <2>2. \A u \in Targets : u # t => /\ last'[u] = last[u] /\ streak'[u] = streak[u]
                                    /\ consecutive'[u] = consecutive[u]
                                    /\ alive'[u] = alive[u]
                                    /\ (u \in seen) = (u \in seen')
      BY <1>3 DEF Forget, TypeOK
  <2> QED BY <2>1, <2>2 DEF StreakInv
<1>4. ASSUME NEW t \in Targets, Record(t) PROVE StreakInv' /\ Kept
    BY <1>4, RecordStreak
<1> QED BY <1>1, <1>2, <1>3, <1>4
        DEF Next, Tick, Inherit, Flip, SetAlive, MarkDown, Discover, vars

\* The Tracker changes its mind only on a full streak against it, whatever
\* discovery and a slow build do to its entries (ThresholdRespected).
THEOREM ThresholdAlwaysRespected == Spec => ThresholdRespected
<1> DEFINE Kept == \A t \in Targets :
                      t \in seen /\ t \in seen' /\ alive'[t] # alive[t]
                      => last'[t] = alive'[t] /\ streak'[t] >= Need(alive'[t])
<1>1. Init => StreakInv
  <2> SUFFICES ASSUME Init, NEW t \in Targets
               PROVE  consecutive[t] <= streak[t] /\ ~(consecutive[t] > 0)
      BY DEF StreakInv
  <2>1. consecutive[t] = 0 /\ streak[t] = 0
      BY DEF Init
  <2> QED BY <2>1
<1>2. TypeOK /\ StreakInv /\ [Next]_vars => StreakInv' /\ [Kept]_vars
    BY StreakNext
<1> QED BY <1>1, <1>2, TypeCorrect, PTL DEF Spec, ThresholdRespected

-----------------------------------------------------------------------------
(* Agreement of the balancer with the Tracker.  Without discovery the       *)
(* targets never change; when the handler is stored before its first check, *)
(* InheritHealth meets no history of its own.                               *)

AgreeInv ==
    /\ members = Targets /\ retiring = {}
    /\ ~stored => inherit = {} /\ down = {} /\ due = {} /\ tell = {} /\ seen = {}
    /\ inherit # {} \/ down # {} => due = {} /\ tell = {}
    /\ \A t \in inherit : t \notin seen /\ prev[t] # "unknown"
    /\ \A t \in down : t \in seen /\ ~alive[t]
    /\ \A t \in Targets : t \notin seen => lb[t]
    /\ \A t \in tell : t \in seen /\ news[t] = alive[t]
    /\ AlwaysTold

LEMMA SettingsKept == [Next]_vars => UNCHANGED <<discovers, slow>>
BY DEF Next, Tick, Inherit, Flip, Record, SetAlive, Seed, MarkDown, Discover, Forget,
       vars, building, given

LEMMA AgreeNext ==
    ASSUME ~discovers, ~slow, TypeOK, AgreeInv, [Next]_vars
    PROVE  AgreeInv'
<1> USE DEF AgreeInv, AlwaysTold, Settled, tracker, checker, building, given
<1>1. CASE Tick
    BY <1>1 DEF Tick
<1>2. CASE Inherit
    BY <1>2 DEF Inherit
<1>3. ASSUME NEW t \in Targets, Flip(t) PROVE AgreeInv'
    BY <1>3 DEF Flip
<1>4. ASSUME NEW t \in Targets, SetAlive(t) PROVE AgreeInv'
  <2>1. /\ lb'[t] = alive[t] /\ t \in seen
        /\ \A u \in Targets : u # t => lb'[u] = lb[u] /\ news'[u] = news[u]
      BY <1>4 DEF SetAlive, TypeOK
  <2>2. /\ tell' = tell \ {t} /\ t \in tell
        /\ UNCHANGED <<members, tracker, due, building, retiring>>
      BY <1>4 DEF SetAlive
  <2> QED BY <2>1, <2>2 DEF TypeOK
<1>5. ASSUME NEW t \in Targets, Seed(t) PROVE AgreeInv'
  <2>1. /\ t \notin seen /\ seen' = seen \cup {t} /\ inherit' = inherit \ {t}
        /\ t \in inherit /\ lb[t]
        /\ alive'[t] = (prev[t] = "alive")
        /\ \A u \in Targets : u # t => alive'[u] = alive[u]
        /\ down' = IF prev[t] = "dead" THEN down \cup {t} ELSE down
        /\ prev[t] \in {"alive", "dead"}
      BY <1>5 DEF Seed, TypeOK
  <2>2. UNCHANGED <<members, lb, checker, given, stored, retiring>> /\ due = {} /\ tell = {} /\ stored
      BY <1>5 DEF Seed, TypeOK
  <2>3. \A u \in members : u \in seen' /\ u \notin tell' /\ u \notin down'
                           => lb'[u] = alive'[u]
      BY <2>1, <2>2 DEF TypeOK
  <2>4. \A u \in down' : u \in seen' /\ ~alive'[u]
    <3>1. \A u \in down : u \in Targets /\ u # t /\ u \in seen /\ ~alive[u]
        BY <2>1 DEF TypeOK
    <3>2. prev[t] = "dead" => ~alive'[t]
        BY <2>1
    <3>3. \A u \in down' : u \in down \/ (u = t /\ prev[t] = "dead")
        BY <2>1
    <3> QED BY <2>1, <3>1, <3>2, <3>3
  <2>5. \A u \in inherit' : u \notin seen' /\ prev'[u] # "unknown"
      BY <2>1, <2>2
  <2>6. \A u \in Targets : u \notin seen' => lb'[u]
      BY <2>1, <2>2
  <2> QED BY <2>2, <2>3, <2>4, <2>5, <2>6
<1>6. ASSUME NEW t \in Targets, MarkDown(t) PROVE AgreeInv'
  <2>1. /\ lb'[t] = FALSE /\ t \in seen /\ ~alive[t]
        /\ \A u \in Targets : u # t => lb'[u] = lb[u]
      BY <1>6 DEF MarkDown, TypeOK
  <2>2. /\ down' = down \ {t} /\ t \in down
        /\ UNCHANGED <<members, tracker, checker, given, inherit, stored, retiring>>
      BY <1>6 DEF MarkDown
  <2>3. \A u \in Targets : u \in seen /\ u \notin tell /\ u \notin down'
                           => lb'[u] = alive[u]
    <3>0. alive[t] \in BOOLEAN /\ lb'[t] \in BOOLEAN
        BY <2>1 DEF TypeOK
    <3>1. lb'[t] = alive[t]
        BY <2>1, <3>0, Zenon
    <3>2. \A u \in Targets : u # t /\ u \in seen /\ u \notin tell /\ u \notin down
                             => lb'[u] = alive[u]
        BY <2>1
    <3> QED BY <2>2, <3>1, <3>2
  <2>4. \A u \in Targets : u \notin seen => lb'[u]
      BY <2>1, <2>2
  <2> QED BY <2>2, <2>3, <2>4
<1>7. ASSUME NEW t \in Targets, Forget(t) PROVE AgreeInv'
    BY <1>7 DEF Forget
<1>8. ASSUME NEW S \in SUBSET Targets, Discover(S) PROVE AgreeInv'
    BY <1>8 DEF Discover
<1>9. ASSUME NEW t \in Targets, Record(t) PROVE AgreeInv'
  <2>1. /\ t \in due /\ due' = due \ {t} /\ seen' = seen \cup {t}
        /\ stored /\ inherit = {} /\ down = {}
        /\ UNCHANGED <<members, lb, building, retiring>>
      BY <1>9 DEF Record
  <2>2. CASE Concludes(t, up[t])
    <3>1. /\ tell' = tell \cup {t} /\ news'[t] = up[t] /\ alive'[t] = up[t]
          /\ \A u \in Targets : u # t => alive'[u] = alive[u] /\ news'[u] = news[u]
        BY <1>9, <2>2 DEF Record, TypeOK
    <3> QED BY <2>1, <3>1 DEF TypeOK
  <2>3. CASE ~Concludes(t, up[t])
    <3>1. UNCHANGED <<tell, news, alive>> /\ t \in seen
        BY <1>9, <2>3 DEF Record, Concludes
    <3> QED BY <2>1, <3>1 DEF TypeOK
  <2> QED BY <2>2, <2>3
<1>10. CASE UNCHANGED vars
    BY <1>10 DEF vars
<1> QED BY <1>1, <1>2, <1>3, <1>4, <1>5, <1>6, <1>7, <1>8, <1>9, <1>10 DEF Next

\* The balancer and the Tracker agree on every target with history and no news
\* under way, in a service without discovery whose chain is stored before its
\* first check (BalancerTold).
THEOREM BalancerAlwaysTold == Spec => []BalancerTold
<1> DEFINE Inv == ~discovers /\ ~slow => AgreeInv
<1>1. Init => Inv
    BY DEF Init, AgreeInv, AlwaysTold
<1>2. TypeOK /\ Inv /\ [Next]_vars => Inv'
    BY AgreeNext, SettingsKept
<1>3. Inv => BalancerTold
    BY DEF AgreeInv, BalancerTold
<1> QED BY <1>1, <1>2, <1>3, TypeCorrect, PTL DEF Spec
=============================================================================
