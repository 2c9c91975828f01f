------------------------ MODULE CircuitBreakerProofs ------------------------
(***************************************************************************)
(* TLAPS proofs about CircuitBreaker, for any set of requests, any         *)
(* settings the configuration accepts and any length of time.              *)
(***************************************************************************)
EXTENDS CircuitBreaker, TLAPS

USE ZenonT(20), SMTT(60)

LEMMA TypeInit == Init => TypeOK
<1> SUFFICES ASSUME Init PROVE TypeOK
  OBVIOUS
<1>1. Closed0 \in Phases
  BY DEF Closed0, Phases, Kinds
<1>2. pc \in [Requests -> Steps] /\ to \in [Requests -> Kinds]
  BY DEF Init, Steps, Kinds
<1>3. QED
  BY <1>1, <1>2, ZenonT(60) DEF Init, TypeOK

LEMMA TypeNext == TypeOK /\ [Next]_vars => TypeOK'
<1> SUFFICES ASSUME TypeOK, [Next]_vars PROVE TypeOK'
  OBVIOUS
<1> USE DEF TypeOK, Goto
<1>1. ASSUME NEW r \in Requests, LoadPhase(r) PROVE TypeOK'
  BY <1>1 DEF LoadPhase, counters, Phases, Kinds, Steps
<1>2. ASSUME NEW r \in Requests, CheckSleep(r) PROVE TypeOK'
  BY <1>2 DEF CheckSleep, CallTransition, counters, Kinds, Steps
<1>3. ASSUME NEW r \in Requests, ReloadPhase(r) PROVE TypeOK'
  BY <1>3 DEF ReloadPhase, counters, Steps
<1>4. ASSUME NEW r \in Requests, ClaimProbe(r) PROVE TypeOK'
  BY <1>4 DEF ClaimProbe, counters, Steps
<1>5. ASSUME NEW r \in Requests, NEW bad \in BOOLEAN, Respond(r, bad)
      PROVE  TypeOK'
  BY SMTT(60), <1>5 DEF Respond, CallTransition, counters, Kinds, Steps
<1>6. ASSUME NEW r \in Requests, Panic(r) \/ Return(r) \/ Abandon(r)
      PROVE  TypeOK'
  <2>1. pc' \in [Requests -> Steps]
    BY <1>6, ZenonT(60) DEF Panic, Return, Abandon, Steps
  <2>2. probing' \in BOOLEAN
    <3>1. probing' = probing \/ probing' = FALSE
      BY <1>6, ZenonT(60) DEF Panic, Return, Abandon
    <3>2. QED
      BY <3>1, ZenonT(60)
  <2>3. UNCHANGED <<phase, changed, counters, mu, now, locals>>
    BY <1>6, ZenonT(60) DEF Panic, Return, Abandon
  <2>4. QED
    BY <2>1, <2>2, <2>3 DEF counters, locals
<1>7. ASSUME NEW r \in Requests, CheckPhase(r) \/ RestartWindow(r)
      PROVE  TypeOK'
  BY SMTT(60), <1>7 DEF CheckPhase, RestartWindow, counters, locals, Steps
<1>8. ASSUME NEW r \in Requests,
             ZeroRequests(r) \/ ZeroErrors(r) \/ AddRequest(r)
      PROVE  TypeOK'
  BY SMTT(60), <1>8 DEF ZeroRequests, ZeroErrors, AddRequest, locals, Steps
<1>9. ASSUME NEW r \in Requests, AddError(r) PROVE TypeOK'
  <2>1. CASE Trips(errors + 1, count[r])
    BY SMTT(60), <1>9, <2>1 DEF AddError, CallTransition, Steps, Kinds
  <2>2. CASE ~Trips(errors + 1, count[r])
    BY SMTT(60), <1>9, <2>2 DEF AddError, Steps
  <2>3. QED
    BY <2>1, <2>2
<1>10. ASSUME NEW r \in Requests, ResetForTransition(r) PROVE TypeOK'
  <2>1. AfterTransition(r) \in Steps /\ "publish" \in Steps
    BY DEF AfterTransition, Steps
  <2>2. pc' \in [Requests -> Steps]
    BY <1>10, <2>1 DEF ResetForTransition
  <2>3. CASE mu' = r
    <3>1. requests' \in Nat /\ errors' \in Nat
      BY SMTT(60), <1>10 DEF ResetForTransition
    <3>2. window' \in Nat /\ changed' \in Nat
      BY SMTT(60), <1>10 DEF ResetForTransition
    <3>3. probing' \in BOOLEAN
      BY <1>10, ZenonT(60) DEF ResetForTransition
    <3>4. UNCHANGED <<phase, now, p, probe, to, at, count, failed>>
      BY <1>10 DEF ResetForTransition, locals
    <3>5. QED
      BY <2>2, <2>3, <3>1, <3>2, <3>3, <3>4
  <2>4. CASE UNCHANGED <<requests, errors, window, changed, probing, mu>>
    BY <1>10, <2>2, <2>4 DEF ResetForTransition, locals
  <2>5. QED
    BY <1>10, <2>3, <2>4 DEF ResetForTransition
<1>11. ASSUME NEW r \in Requests, PublishPhase(r) PROVE TypeOK'
  BY SMTT(60), <1>11 DEF PublishPhase, NextPhase, AfterTransition, counters, locals,
               Phases, Steps
<1>12. CASE Tick
  BY SMTT(60), <1>12, SettingsAssumption DEF Tick, counters, locals
<1>13. CASE Finished \/ UNCHANGED vars
  BY <1>13 DEF Finished, vars
<1>14. QED
  BY <1>1, <1>2, <1>3, <1>4, <1>5, <1>6, <1>7, <1>8, <1>9, <1>10, <1>11,
     <1>12, <1>13 DEF Next

\* Type correctness of every reachable state of the breaker.
THEOREM TypeCorrect == Spec => []TypeOK
  BY TypeInit, TypeNext, PTL DEF Spec

-----------------------------------------------------------------------------
\* The inductive invariant

Recording == {"check", "window", "zeroRequests", "zeroErrors", "addRequest",
              "addError"}

\* What a pending transition may be: an open circuit's half-opening, a probe's
\* verdict or a closed circuit's trip.
PendingMove(r) ==
  \/ ~probe[r] /\ p[r].kind = "open" /\ to[r] = "halfopen"
  \/ probe[r] /\ p[r].kind = "halfopen" /\ to[r] \in {"open", "closed"}
  \/ ~probe[r] /\ p[r].kind = "closed" /\ to[r] = "open"

\* Where a request is says what its ticket is.
TicketOK(r) ==
  /\ pc[r] \in {"new", "reload"} => ~probe[r]
  /\ pc[r] = "sleep" => ~probe[r] /\ p[r].kind = "open"
  /\ pc[r] = "claim" => ~probe[r] /\ p[r].kind = "halfopen"
  /\ pc[r] = "serving" => p[r].kind = IF probe[r] THEN "halfopen" ELSE "closed"
  /\ pc[r] \in Recording => ~probe[r] /\ p[r].kind = "closed"
  /\ pc[r] \in {"lock", "publish"} => PendingMove(r)
  /\ pc[r] \in {"tail", "abandon"} => probe[r] /\ p[r].kind = "halfopen"

\* No ticket is of a phase yet to come, and one of the present generation is of
\* the present phase.
NotAhead(r) ==
  /\ p[r].gen <= phase.gen
  /\ p[r].gen = phase.gen => p[r] = phase

\* mu is held exactly by the request about to publish, whose phase it moves.
Locked(r) ==
  /\ mu = r <=> pc[r] = "publish"
  /\ pc[r] = "publish" => p[r] = phase

\* An unsettled probe of the present phase holds the slot.
SlotHeld(r) == Unsettled(r) /\ p[r] = phase => probing

\* A request about to half-open the circuit that is still open has waited the
\* sleep window out.
Slept(r) ==
  /\ pc[r] = "lock" /\ to[r] = "halfopen" /\ p[r] = phase /\ mu = NoOne
  => now - changed >= SleepWindow

Inv ==
  /\ TypeOK
  /\ \A r \in Requests : TicketOK(r)
  /\ \A r \in Requests : NotAhead(r)
  /\ \A r \in Requests : Locked(r)
  /\ \A r \in Requests : SlotHeld(r)
  /\ \A r \in Requests : Slept(r)
  /\ SingleProbe
  /\ VerdictTakesEffect

LEMMA InvInit == Init => Inv
<1> SUFFICES ASSUME Init PROVE Inv
  OBVIOUS
<1>1. TypeOK
  BY TypeInit
<1>2. QED
  BY SMTT(60), <1>1, NoOneAssumption
  DEF Init, Inv, TicketOK, NotAhead, Locked, SlotHeld, Slept, SingleProbe,
      VerdictTakesEffect, Unsettled, Recording, Closed0

\* A step of r that changes no shared variable but the counters, and leaves r
\* with a legal ticket and no new claim on the slot.
LocalStep(r) ==
  /\ UNCHANGED <<phase, changed, probing, mu, now, probe>>
  /\ \A s \in Requests \ {r} :
       pc'[s] = pc[s] /\ p'[s] = p[s] /\ to'[s] = to[s]
  /\ pc[r] # "publish" /\ pc'[r] # "publish"
  /\ pc'[r] = "tail" /\ probe[r] => phase.gen > p'[r].gen
  /\ TicketOK(r)' /\ NotAhead(r)' /\ Slept(r)'
  /\ Unsettled(r)' /\ p'[r] = phase => Unsettled(r) /\ p[r] = phase

LEMMA LocalStepKeepsInv ==
  ASSUME Inv, TypeOK', NEW r \in Requests, LocalStep(r) PROVE Inv'
<1>1. ASSUME NEW s \in Requests PROVE TicketOK(s)'
  BY <1>1 DEF Inv, LocalStep, TicketOK, PendingMove
<1>2. ASSUME NEW s \in Requests PROVE NotAhead(s)'
  BY <1>2 DEF Inv, LocalStep, NotAhead
<1>3. ASSUME NEW s \in Requests PROVE Locked(s)'
  <2>1. CASE s = r
    BY <2>1 DEF Inv, LocalStep, Locked
  <2>2. CASE s # r
    BY <2>2, <1>3 DEF Inv, LocalStep, Locked
  <2>3. QED
    BY <2>1, <2>2
<1>4. ASSUME NEW s \in Requests PROVE SlotHeld(s)'
  BY <1>4 DEF Inv, LocalStep, SlotHeld, Unsettled
<1>5. ASSUME NEW s \in Requests PROVE Slept(s)'
  BY <1>5 DEF Inv, LocalStep, Slept
<1>6. ASSUME NEW s \in Requests, Unsettled(s)', p'[s] = phase
      PROVE  Unsettled(s) /\ p[s] = phase
  BY <1>6 DEF LocalStep, Unsettled
<1>7. SingleProbe'
  BY <1>6 DEF Inv, LocalStep, SingleProbe
<1>8. VerdictTakesEffect'
  BY DEF Inv, LocalStep, VerdictTakesEffect
<1>9. QED
  BY <1>1, <1>2, <1>3, <1>4, <1>5, <1>7, <1>8 DEF Inv

LEMMA InvNext == Inv /\ [Next]_vars => Inv'
<1> SUFFICES ASSUME Inv, [Next]_vars PROVE Inv'
  OBVIOUS
<1>t. TypeOK /\ TypeOK'
  BY TypeNext DEF Inv
<1> USE DEF Goto, counters, locals
<1>1. ASSUME NEW r \in Requests, LoadPhase(r) PROVE Inv'
  <2>1. LocalStep(r)
    BY SMTT(60), <1>1, <1>t DEF LocalStep, LoadPhase, Phases, Kinds,
         Inv, TypeOK, TicketOK, NotAhead, Slept, Unsettled, PendingMove, Recording
  <2>2. QED
    BY <2>1, <1>t, LocalStepKeepsInv
<1>2. ASSUME NEW r \in Requests, CheckSleep(r) PROVE Inv'
  <2>1. LocalStep(r)
    BY <1>2, <1>t DEF LocalStep, CheckSleep, CallTransition,
         Inv, TypeOK, TicketOK, NotAhead, Slept, Unsettled, PendingMove, Recording
  <2>2. QED
    BY <2>1, <1>t, LocalStepKeepsInv
<1>3. ASSUME NEW r \in Requests, ReloadPhase(r) PROVE Inv'
  <2>1. LocalStep(r)
    BY SMTT(60), <1>3, <1>t DEF LocalStep, ReloadPhase, Phases,
         Inv, TypeOK, TicketOK, NotAhead, Slept, Unsettled, PendingMove, Recording
  <2>2. QED
    BY <2>1, <1>t, LocalStepKeepsInv
<1>4. ASSUME NEW r \in Requests, Panic(r) PROVE Inv'
  <2>0. /\ pc[r] \in {"serving", "tail"}
        /\ pc' = [pc EXCEPT ![r] = IF probe[r] THEN "abandon" ELSE "done"]
        /\ UNCHANGED <<phase, changed, probing, mu, now, p, probe, to>>
    BY <1>4 DEF Panic
  <2>a. pc'[r] = IF probe[r] THEN "abandon" ELSE "done"
    BY <1>t, <2>0 DEF TypeOK
  <2>b. TicketOK(r)'
    BY SMTT(60), <2>0, <2>a DEF Inv, TicketOK, Recording
  <2>c. NotAhead(r)' /\ Slept(r)'
    BY SMTT(60), <2>0, <2>a DEF Inv, NotAhead, Slept
  <2>d. Unsettled(r)' /\ p'[r] = phase => Unsettled(r) /\ p[r] = phase
    <3>1. phase.gen \in Nat
      BY <1>t DEF TypeOK, Phases
    <3>2. probe[r] /\ pc[r] = "tail" => p[r] # phase
      BY SMTT(60), <3>1 DEF Inv, VerdictTakesEffect
    <3>3. QED
      BY <2>0, <2>a, <3>2 DEF Unsettled
  <2>1. LocalStep(r)
    BY <1>t, <2>0, <2>a, <2>b, <2>c, <2>d DEF LocalStep, TypeOK
  <2>2. QED
    BY <2>1, <1>t, LocalStepKeepsInv
<1>5. ASSUME NEW r \in Requests, Return(r) PROVE Inv'
  <2>1. LocalStep(r)
    BY <1>5, <1>t DEF LocalStep, Return,
         Inv, TypeOK, TicketOK, NotAhead, Slept, Unsettled, PendingMove, Recording
  <2>2. QED
    BY <2>1, <1>t, LocalStepKeepsInv
<1>6. ASSUME NEW r \in Requests, CheckPhase(r) PROVE Inv'
  <2>1. LocalStep(r)
    BY <1>6, <1>t DEF LocalStep, CheckPhase,
         Inv, TypeOK, TicketOK, NotAhead, Slept, Unsettled, PendingMove, Recording
  <2>2. QED
    BY <2>1, <1>t, LocalStepKeepsInv
<1>7. ASSUME NEW r \in Requests, RestartWindow(r) PROVE Inv'
  <2>1. LocalStep(r)
    BY <1>7, <1>t DEF LocalStep, RestartWindow,
         Inv, TypeOK, TicketOK, NotAhead, Slept, Unsettled, PendingMove, Recording
  <2>2. QED
    BY <2>1, <1>t, LocalStepKeepsInv
<1>8. ASSUME NEW r \in Requests, ZeroRequests(r) \/ ZeroErrors(r) PROVE Inv'
  <2>1. LocalStep(r)
    BY <1>8, <1>t DEF LocalStep, ZeroRequests, ZeroErrors,
         Inv, TypeOK, TicketOK, NotAhead, Slept, Unsettled, PendingMove, Recording
  <2>2. QED
    BY <2>1, <1>t, LocalStepKeepsInv
<1>9. ASSUME NEW r \in Requests, AddRequest(r) PROVE Inv'
  <2>1. LocalStep(r)
    BY <1>9, <1>t DEF LocalStep, AddRequest,
         Inv, TypeOK, TicketOK, NotAhead, Slept, Unsettled, PendingMove, Recording
  <2>2. QED
    BY <2>1, <1>t, LocalStepKeepsInv
<1>10. ASSUME NEW r \in Requests, AddError(r) PROVE Inv'
  <2>1. LocalStep(r)
    BY <1>10, <1>t DEF LocalStep, AddError, CallTransition,
         Inv, TypeOK, TicketOK, NotAhead, Slept, Unsettled, PendingMove, Recording
  <2>2. QED
    BY <2>1, <1>t, LocalStepKeepsInv
<1>11. ASSUME NEW r \in Requests, NEW bad \in BOOLEAN, Respond(r, bad) PROVE Inv'
  <2>1. LocalStep(r)
    BY <1>11, <1>t DEF LocalStep, Respond, CallTransition,
         Inv, TypeOK, TicketOK, NotAhead, Slept, Unsettled, PendingMove, Recording
  <2>2. QED
    BY <2>1, <1>t, LocalStepKeepsInv
<1>12. ASSUME NEW r \in Requests, ClaimProbe(r) PROVE Inv'
  <2>1. CASE probing
    <3>a. /\ pc[r] = "claim" /\ pc' = [pc EXCEPT ![r] = "done"]
          /\ probe' = [probe EXCEPT ![r] = FALSE] /\ probing' = TRUE
          /\ UNCHANGED <<phase, changed, mu, now, p, to>>
      BY <1>12, <2>1, ZenonT(60) DEF ClaimProbe
    <3>b. probe' = probe /\ probing' = probing /\ pc'[r] = "done"
      BY <1>t, <2>1, <3>a DEF Inv, TypeOK, TicketOK
    <3>c. TicketOK(r)' /\ NotAhead(r)' /\ Slept(r)'
      BY <3>a, <3>b DEF Inv, TicketOK, NotAhead, Slept, Recording
    <3>1. LocalStep(r)
      BY <1>t, <3>a, <3>b, <3>c DEF LocalStep, TypeOK, Unsettled
    <3>2. QED
      BY <3>1, <1>t, LocalStepKeepsInv
  <2>2. CASE ~probing
    <3>1. ASSUME NEW s \in Requests PROVE TicketOK(s)'
      BY <1>12, <1>t, <2>2, ZenonT(60)
      DEF Inv, ClaimProbe, TypeOK, TicketOK, PendingMove, Recording
    <3>2. ASSUME NEW s \in Requests PROVE NotAhead(s)' /\ Locked(s)' /\ Slept(s)'
      BY <1>12, <1>t, <2>2 DEF Inv, ClaimProbe, TypeOK, NotAhead, Locked, Slept
    <3>3. ASSUME NEW s \in Requests PROVE SlotHeld(s)'
      BY <1>12 DEF ClaimProbe, SlotHeld
    <3>4. ASSUME NEW s \in Requests, Unsettled(s)', p'[s] = phase' PROVE s = r
      BY <1>12, <1>t, <2>2, <3>4 DEF Inv, ClaimProbe, TypeOK, SlotHeld, Unsettled
    <3>5. SingleProbe'
      BY <3>4 DEF SingleProbe
    <3>6. VerdictTakesEffect'
      BY <1>12, <1>t, <2>2 DEF Inv, ClaimProbe, TypeOK, VerdictTakesEffect
    <3>7. QED
      BY <1>t, <3>1, <3>2, <3>3, <3>5, <3>6 DEF Inv
  <2>3. QED
    BY <2>1, <2>2
<1>13. ASSUME NEW r \in Requests, Abandon(r) PROVE Inv'
  <2>1. ASSUME NEW s \in Requests PROVE TicketOK(s)' /\ NotAhead(s)' /\ Locked(s)' /\ Slept(s)'
    BY <1>13, <1>t DEF Inv, Abandon, TypeOK, TicketOK, PendingMove, Recording, NotAhead, Locked, Slept
  <2>2. ASSUME NEW s \in Requests, Unsettled(s)' PROVE s # r /\ Unsettled(s) /\ p'[s] = p[s]
    BY <1>13, <1>t, <2>2 DEF Abandon, TypeOK, Unsettled
  <2>3. Unsettled(r)
    BY <1>13 DEF Inv, Abandon, Unsettled, TicketOK
  <2>4. ASSUME NEW s \in Requests PROVE SlotHeld(s)'
    BY <1>13, <2>2, <2>3 DEF Inv, Abandon, SlotHeld, SingleProbe
  <2>5. SingleProbe'
    BY <1>13, <2>2 DEF Inv, Abandon, SingleProbe
  <2>6. VerdictTakesEffect'
    BY <1>13, <1>t DEF Inv, Abandon, TypeOK, VerdictTakesEffect
  <2>7. QED
    BY <1>t, <2>1, <2>4, <2>5, <2>6 DEF Inv
<1>14. ASSUME NEW r \in Requests, ResetForTransition(r) PROVE Inv'
  <2>1. CASE phase # p[r]
    <3>1. /\ pc[r] = "lock"
          /\ pc' = [pc EXCEPT ![r] = AfterTransition(r)]
          /\ UNCHANGED <<phase, changed, probing, mu, now, probe, p, to>>
      BY <1>14, <2>1 DEF ResetForTransition
    <3>2. pc'[r] = AfterTransition(r) /\ PendingMove(r)
      BY <1>t, <3>1 DEF TypeOK, Inv, TicketOK
    <3>3. phase.gen > p[r].gen
      <4>1. phase.gen \in Nat /\ p[r].gen \in Nat
        BY <1>t DEF TypeOK, Phases
      <4>2. QED
        BY SMTT(60), <4>1, <2>1 DEF Inv, NotAhead
    <3>4. TicketOK(r)'
      BY SMTT(60), <3>1, <3>2 DEF TicketOK, PendingMove, AfterTransition, Recording
    <3>5. pc'[r] \notin {"lock", "publish", "serving", "abandon"}
      BY <3>2 DEF AfterTransition
    <3>6. LocalStep(r)
      BY <1>t, <3>1, <3>3, <3>4, <3>5
      DEF LocalStep, Inv, TypeOK, NotAhead, Slept, Unsettled
    <3>7. QED
      BY <3>6, <1>t, LocalStepKeepsInv
  <2>2. CASE phase = p[r]
    <3>0. /\ pc[r] = "lock" /\ mu = NoOne /\ mu' = r
          /\ pc' = [pc EXCEPT ![r] = "publish"]
          /\ UNCHANGED <<phase, now, p, probe, to>>
          /\ probing' = FALSE
      BY <1>14, <2>2 DEF ResetForTransition
    <3>1. ASSUME NEW s \in Requests PROVE TicketOK(s)' /\ NotAhead(s)'
      BY <1>t, <3>0 DEF Inv, TypeOK, TicketOK, PendingMove, Recording, NotAhead
    <3>2. ASSUME NEW s \in Requests PROVE Locked(s)' /\ Slept(s)'
      BY <1>t, <2>2, <3>0, NoOneAssumption DEF Inv, TypeOK, Locked, Slept
    <3>3. ASSUME NEW s \in Requests, Unsettled(s)' PROVE s # r /\ Unsettled(s)
      BY <1>t, <3>0, <3>3 DEF TypeOK, Unsettled
    <3>4. ASSUME NEW s \in Requests, Unsettled(s)' PROVE p'[s] # phase'
      <4>1. CASE probe[r]
        BY <4>1, <2>2, <3>0, <3>3, <3>4 DEF Inv, SingleProbe, Unsettled
      <4>2. CASE ~probe[r]
        BY <4>2, <2>2, <3>0, <3>3, <3>4 DEF Inv, TicketOK, PendingMove, Unsettled
      <4>3. QED
        BY <4>1, <4>2
    <3>5. (\A s \in Requests : SlotHeld(s)') /\ SingleProbe'
      BY <3>4 DEF SlotHeld, SingleProbe
    <3>6. VerdictTakesEffect'
      BY <1>t, <3>0 DEF Inv, TypeOK, VerdictTakesEffect
    <3>7. QED
      BY <1>t, <3>1, <3>2, <3>5, <3>6 DEF Inv
  <2>3. QED
    BY <2>1, <2>2
<1>15. ASSUME NEW r \in Requests, PublishPhase(r) PROVE Inv'
  <2>0. /\ pc[r] = "publish" /\ mu = r /\ mu' = NoOne /\ p[r] = phase
        /\ phase' = [kind |-> to[r], gen |-> phase.gen + 1]
        /\ UNCHANGED <<changed, now, probing, p, probe, to>>
        /\ pc' = [pc EXCEPT ![r] = AfterTransition(r)]
    BY <1>15 DEF PublishPhase, NextPhase, Inv, Locked
  <2>1. phase.gen \in Nat /\ phase'.gen = phase.gen + 1
    BY <1>t, <2>0 DEF TypeOK, Phases
  <2>2. ASSUME NEW s \in Requests PROVE p'[s].gen < phase'.gen /\ p'[s] # phase'
    <3>1. p[s].gen \in Nat
      BY DEF Inv, TypeOK, Phases
    <3>2. p[s].gen <= phase.gen
      BY DEF Inv, NotAhead
    <3>3. p'[s].gen < phase'.gen
      BY SMTT(60), <2>0, <2>1, <3>1, <3>2
    <3>4. QED
      BY SMTT(60), <3>3, <3>1, <2>0, <2>1
  <2>3. ASSUME NEW s \in Requests PROVE TicketOK(s)'
    BY <1>t, <2>0 DEF Inv, TypeOK, TicketOK, PendingMove, Recording, AfterTransition
  <2>4. ASSUME NEW s \in Requests PROVE NotAhead(s)'
    BY SMTT(60), <1>t, <2>1, <2>2 DEF TypeOK, Phases, NotAhead
  <2>5. ASSUME NEW s \in Requests PROVE Locked(s)'
    BY <1>t, <2>0, NoOneAssumption DEF Inv, TypeOK, Locked, AfterTransition
  <2>6. (\A s \in Requests : SlotHeld(s)' /\ Slept(s)') /\ SingleProbe'
    BY <2>2 DEF SlotHeld, Slept, SingleProbe
  <2>7. VerdictTakesEffect'
    BY <2>2 DEF VerdictTakesEffect
  <2>8. QED
    BY <1>t, <2>3, <2>4, <2>5, <2>6, <2>7 DEF Inv
<1>16. CASE Tick
  <2>1. ASSUME NEW s \in Requests PROVE Slept(s)'
    <3>1. now \in Nat /\ changed \in Nat /\ Slept(s)
      BY DEF Inv, TypeOK
    <3>2. now' = now + 1 /\ UNCHANGED <<phase, changed, mu, pc, p, to>>
      BY <1>16 DEF Tick, locals
    <3>3. QED
      BY SMTT(60), <3>1, <3>2, SettingsAssumption DEF Slept
  <2>2. ASSUME NEW s \in Requests
        PROVE  TicketOK(s)' /\ NotAhead(s)' /\ Locked(s)' /\ SlotHeld(s)'
    BY <1>16 DEF Tick, Inv, TicketOK, PendingMove, NotAhead, Locked, SlotHeld,
                 Unsettled
  <2>3. SingleProbe' /\ VerdictTakesEffect'
    BY <1>16 DEF Tick, Inv, SingleProbe, VerdictTakesEffect, Unsettled
  <2>4. QED
    BY <1>t, <2>1, <2>2, <2>3 DEF Inv
<1>17. CASE Finished \/ UNCHANGED vars
  <2>1. UNCHANGED vars
    BY <1>17 DEF Finished
  <2>2. ASSUME NEW s \in Requests
        PROVE  TicketOK(s)' /\ NotAhead(s)' /\ Locked(s)'
    BY <2>1 DEF vars, Inv, TicketOK, PendingMove, NotAhead, Locked
  <2>3. ASSUME NEW s \in Requests PROVE SlotHeld(s)' /\ Slept(s)'
    BY <2>1, ZenonT(60) DEF vars, Inv, SlotHeld, Slept, Unsettled
  <2>4. SingleProbe' /\ VerdictTakesEffect'
    BY <2>1 DEF vars, Inv, SingleProbe, VerdictTakesEffect, Unsettled
  <2>5. QED
    BY <1>t, <2>2, <2>3, <2>4 DEF Inv
<1>18. QED
  BY <1>1, <1>2, <1>3, <1>4, <1>5, <1>6, <1>7, <1>8, <1>9, <1>10, <1>11,
     <1>12, <1>13, <1>14, <1>15, <1>16, <1>17 DEF Next

LEMMA InvAlways == Spec => []Inv
  BY InvInit, InvNext, PTL DEF Spec

\* At most one unsettled probe of the present phase is ever out, whatever the
\* number of requests racing through admit, settle, abandon and transition.
THEOREM SingleProbeAlways == Spec => []SingleProbe
<1>1. Inv => SingleProbe
  BY DEF Inv
<1>2. QED
  BY <1>1, InvAlways, PTL

\* A settled probe has always moved the circuit out of the phase it judged.
THEOREM VerdictAlwaysTakesEffect == Spec => []VerdictTakesEffect
<1>1. Inv => VerdictTakesEffect
  BY DEF Inv
<1>2. QED
  BY <1>1, InvAlways, PTL

\* The phase follows closed, open, half-open and back, one generation at a
\* time.
THEOREM AlwaysMovesAlongCycle == Spec => MovesAlongCycle
<1> DEFINE Move == phase' # phase =>
       /\ phase'.gen = phase.gen + 1
       /\ <<phase.kind, phase'.kind>> \in
            {<<"closed", "open">>, <<"open", "halfopen">>,
             <<"halfopen", "open">>, <<"halfopen", "closed">>}
<1>1. Inv /\ [Next]_vars => [Move]_phase
  <2> SUFFICES ASSUME Inv, [Next]_vars, phase' # phase PROVE Move
    OBVIOUS
  <2>1. PICK r \in Requests : PublishPhase(r)
    BY ZenonT(60)
    DEF Next, LoadPhase, CheckSleep, ReloadPhase, ClaimProbe, Respond, Panic,
       Return, Abandon, CheckPhase, RestartWindow, ZeroRequests, ZeroErrors,
       AddRequest, AddError, ResetForTransition, Tick, Finished, vars
  <2>2. p[r] = phase /\ PendingMove(r)
    BY <2>1 DEF Inv, PublishPhase, Locked, TicketOK
  <2>3. phase' = [kind |-> to[r], gen |-> phase.gen + 1]
    BY <2>1, <2>2 DEF PublishPhase, NextPhase
  <2>4. QED
    BY <2>2, <2>3 DEF PendingMove
<1>2. QED
  BY <1>1, InvAlways, PTL DEF Spec, MovesAlongCycle

\* No request half-opens an open circuit before SleepWindow has passed.
THEOREM AlwaysSleepsBeforeProbing == Spec => SleepsBeforeProbing
<1> DEFINE Step == \A r \in Requests :
       /\ pc[r] = "lock" /\ pc'[r] = "publish"
       /\ phase.kind = "open"
       => now - changed >= SleepWindow
<1>1. Inv /\ [Next]_vars => [Step]_vars
  <2> SUFFICES ASSUME Inv, Next, NEW r \in Requests,
                      pc[r] = "lock", pc'[r] = "publish", phase.kind = "open"
               PROVE  now - changed >= SleepWindow
    OBVIOUS
  <2> USE DEF Goto, Inv, TypeOK
  <2>1. ResetForTransition(r)
    <3>1. ASSUME NEW s \in Requests,
                 \/ LoadPhase(s) \/ CheckSleep(s) \/ ReloadPhase(s)
                 \/ ClaimProbe(s) \/ (\E bad \in BOOLEAN : Respond(s, bad))
          PROVE  FALSE
      BY <3>1 DEF LoadPhase, CheckSleep, ReloadPhase, ClaimProbe, Respond,
                  CallTransition
    <3>2. ASSUME NEW s \in Requests,
                 \/ Panic(s) \/ Return(s) \/ Abandon(s) \/ CheckPhase(s)
                 \/ RestartWindow(s) \/ ZeroRequests(s) \/ ZeroErrors(s)
                 \/ AddRequest(s) \/ AddError(s)
          PROVE  FALSE
      BY <3>2, ZenonT(60) DEF Panic, Return, Abandon, CheckPhase, RestartWindow,
                  ZeroRequests, ZeroErrors, AddRequest, AddError,
                  CallTransition
    <3>3. ASSUME NEW s \in Requests, PublishPhase(s) PROVE FALSE
      BY <3>3 DEF PublishPhase, AfterTransition
    <3>4. ASSUME NEW s \in Requests, s # r PROVE ~ResetForTransition(s)
      BY <3>4 DEF ResetForTransition
    <3>5. ~Tick /\ ~Finished
      BY DEF Tick, Finished, vars
    <3>6. QED
      BY <3>1, <3>2, <3>3, <3>4, <3>5 DEF Next
  <2>2. mu = NoOne /\ p[r] = phase
    BY <2>1 DEF ResetForTransition, Goto, AfterTransition, Inv, TypeOK
  <2>3. QED
    BY <2>2 DEF Inv, Slept, TicketOK, PendingMove
<1>2. QED
  BY <1>1, InvAlways, PTL DEF Spec, SleepsBeforeProbing
=============================================================================
