--------------------------- MODULE CircuitBreaker ---------------------------
(***************************************************************************)
(* The per-route circuit breaker of internal/middleware/circuit_breaker.go *)
(* (circuitBreakerState: admit, record, abandon, transition, serveProbe).  *)
(*                                                                         *)
(* The request path touches only atomics; mu serialises transitions.  So   *)
(* each atomic load, store or compare-and-swap of a request is one step    *)
(* here, and any number of requests interleave between those steps.  A     *)
(* transition holds mu over two steps: its resets (requests, errors,       *)
(* window, changed, probing), then the store of the new phase, because     *)
(* lock-free readers can run between the two.                              *)
(*                                                                         *)
(* Requests stands for the requests that meet the breaker, each of which   *)
(* runs once.  Time is a counter that advances at any moment.              *)
(***************************************************************************)
EXTENDS Integers, FiniteSets

CONSTANTS Requests,      \* the requests that meet this breaker
          NoOne,         \* the value of mu when nobody holds it
          SleepWindow,   \* cfg.SleepWindow, in ticks
          WindowSize,    \* cfg.WindowSize, in ticks
          MinRequests,   \* cfg.MinRequests
          ThresholdNum,  \* cfg.ErrorThreshold, as a fraction
          ThresholdDen,
          MaxNow         \* bound on the clock

\* circuitBreakerFromConfig refuses settings outside these (lines 74-99).
ASSUME SettingsAssumption ==
  /\ SleepWindow \in Nat \ {0}
  /\ WindowSize \in Nat \ {0}
  /\ MinRequests \in Nat \ {0}
  /\ ThresholdDen \in Nat \ {0}
  /\ ThresholdNum \in 1..ThresholdDen
  /\ MaxNow \in Nat

ASSUME NoOneAssumption == NoOne \notin Requests

VARIABLES
  phase,     \* kind and generation; every transition bumps the generation
  changed,   \* when the last transition was stamped
  window,    \* when the current count window began
  requests,  \* outcomes counted in the window
  errors,    \* failures counted in the window
  probing,   \* the one request a half-open circuit admits is out
  mu,        \* who holds the transition lock
  now,       \* the clock
  pc,        \* where each request is in admit, the handler or record
  p,         \* each request's copy of the phase: its ticket's, once admitted
  probe,     \* ticket.probe
  to,        \* the kind a pending transition moves to
  at,        \* the clock as the request read it
  count,     \* requests.Add's answer, local to record
  failed     \* the outcome being recorded

counters == <<window, requests, errors>>
locals == <<p, probe, to, at, count, failed>>
vars == <<phase, changed, window, requests, errors, probing, mu, now,
          pc, p, probe, to, at, count, failed>>

Kinds == {"closed", "open", "halfopen"}
Phases == [kind : Kinds, gen : Nat]

Steps == {"new", "sleep", "lock", "publish", "reload", "claim", "serving",
          "check", "window", "zeroRequests", "zeroErrors", "addRequest",
          "addError", "tail", "abandon", "done"}

\* Types.
TypeOK ==
  /\ phase \in Phases
  /\ changed \in Nat
  /\ window \in Nat
  /\ requests \in Nat
  /\ errors \in Nat
  /\ probing \in BOOLEAN
  /\ mu \in Requests \cup {NoOne}
  /\ now \in Nat
  /\ pc \in [Requests -> Steps]
  /\ p \in [Requests -> Phases]
  /\ probe \in [Requests -> BOOLEAN]
  /\ to \in [Requests -> Kinds]
  /\ at \in [Requests -> Nat]
  /\ count \in [Requests -> Nat]
  /\ failed \in [Requests -> BOOLEAN]

Closed0 == [kind |-> "closed", gen |-> 0]

\* getCBState makes a breaker closed, stamped with the clock.
Init ==
  /\ phase = Closed0
  /\ changed = 0
  /\ window = 0
  /\ requests = 0
  /\ errors = 0
  /\ probing = FALSE
  /\ mu = NoOne
  /\ now = 0
  /\ pc = [r \in Requests |-> "new"]
  /\ p = [r \in Requests |-> Closed0]
  /\ probe = [r \in Requests |-> FALSE]
  /\ to = [r \in Requests |-> "closed"]
  /\ at = [r \in Requests |-> 0]
  /\ count = [r \in Requests |-> 0]
  /\ failed = [r \in Requests |-> FALSE]

Goto(r, step) == pc' = [pc EXCEPT ![r] = step]

\* As NextPhase, with the generation counting down.
PreviousPhase(from, kind) == [kind |-> kind, gen |-> from.gen - 1]

\* cbPhase.next: the phase after a transition into kind.
NextPhase(from, kind) == [kind |-> kind, gen |-> from.gen + 1]

\* Begin a call of transition(p[r], kind, now).
CallTransition(r, kind) ==
  /\ Goto(r, "lock")
  /\ to' = [to EXCEPT ![r] = kind]

-----------------------------------------------------------------------------
\* admit

\* The first load of the phase, and the switch on its kind.
LoadPhase(r) ==
  /\ pc[r] = "new"
  /\ p' = [p EXCEPT ![r] = phase]
  /\ Goto(r, CASE phase.kind = "closed" -> "serving"
               [] phase.kind = "open" -> "sleep"
               [] phase.kind = "halfopen" -> "claim")
  /\ UNCHANGED <<phase, changed, counters, probing, mu, now,
                 probe, to, at, count, failed>>

\* As CheckSleep, one tick early.
CheckSleepEarly(r) ==
  /\ pc[r] = "sleep"
  /\ \/ /\ now - changed < SleepWindow - 1
        /\ Goto(r, "done")
        /\ UNCHANGED <<to, at>>
     \/ /\ now - changed >= SleepWindow - 1
        /\ at' = [at EXCEPT ![r] = now]
        /\ CallTransition(r, "halfopen")
  /\ UNCHANGED <<phase, changed, counters, probing, mu, now,
                 p, probe, count, failed>>

\* The circuit was open: refuse while the sleep window lasts, else half-open it.
CheckSleep(r) ==
  /\ pc[r] = "sleep"
  /\ \/ /\ now - changed < SleepWindow
        /\ Goto(r, "done")
        /\ UNCHANGED <<to, at>>
     \/ /\ now - changed >= SleepWindow
        /\ at' = [at EXCEPT ![r] = now]
        /\ CallTransition(r, "halfopen")
  /\ UNCHANGED <<phase, changed, counters, probing, mu, now,
                 p, probe, count, failed>>

\* The second load: whoever moved the circuit on, it is half-open or admit
\* starts again.
ReloadPhase(r) ==
  /\ pc[r] = "reload"
  /\ p' = [p EXCEPT ![r] = phase]
  /\ Goto(r, IF phase.kind = "halfopen" THEN "claim" ELSE "new")
  /\ UNCHANGED <<phase, changed, counters, probing, mu, now,
                 probe, to, at, count, failed>>

\* probing.CompareAndSwap(false, true): the winner is the probe, with the phase
\* it loaded earlier as its ticket; the others are refused.
ClaimProbe(r) ==
  /\ pc[r] = "claim"
  /\ probing' = TRUE
  /\ probe' = [probe EXCEPT ![r] = ~probing]
  /\ Goto(r, IF probing THEN "done" ELSE "serving")
  /\ UNCHANGED <<phase, changed, counters, mu, now,
                 p, to, at, count, failed>>

-----------------------------------------------------------------------------
\* The admitted request runs

\* The handler answers.  A probe settles at once (probeWriter.settle), and the
\* rest of the handler runs after that; any other request is recorded when the
\* handler returns.
Respond(r, bad) ==
  /\ pc[r] = "serving"
  /\ \/ /\ probe[r]
        /\ at' = [at EXCEPT ![r] = now]
        /\ CallTransition(r, IF bad THEN "open" ELSE "closed")
        /\ UNCHANGED failed
     \/ /\ ~probe[r]
        /\ failed' = [failed EXCEPT ![r] = bad]
        /\ Goto(r, "check")
        /\ UNCHANGED <<to, at>>
  /\ UNCHANGED <<phase, changed, counters, probing, mu, now, p, probe, count>>

\* The handler panics.  A probe, settled or not, calls abandon on the way out;
\* any other request is never recorded.
Panic(r) ==
  /\ \/ pc[r] = "serving"
     \/ pc[r] = "tail"
  /\ Goto(r, IF probe[r] THEN "abandon" ELSE "done")
  /\ UNCHANGED <<phase, changed, counters, probing, mu, now, locals>>

\* A settled probe's handler returns; settle does nothing the second time.
Return(r) ==
  /\ pc[r] = "tail"
  /\ Goto(r, "done")
  /\ UNCHANGED <<phase, changed, counters, probing, mu, now, locals>>

\* As Abandon, without looking whether the circuit has moved on.
AbandonAnyPhase(r) ==
  /\ pc[r] = "abandon"
  /\ mu = NoOne
  /\ probing' = FALSE
  /\ Goto(r, "done")
  /\ UNCHANGED <<phase, changed, counters, mu, now, locals>>

\* abandon, under mu: hand the slot back unless the circuit has moved on.
Abandon(r) ==
  /\ pc[r] = "abandon"
  /\ mu = NoOne
  /\ probing' = IF phase = p[r] THEN FALSE ELSE probing
  /\ Goto(r, "done")
  /\ UNCHANGED <<phase, changed, counters, mu, now, locals>>

-----------------------------------------------------------------------------
\* record, for a request that is not the probe

\* An outcome from an earlier phase is dropped.
CheckPhase(r) ==
  /\ pc[r] = "check"
  /\ at' = [at EXCEPT ![r] = now]
  /\ Goto(r, IF phase = p[r] THEN "window" ELSE "done")
  /\ UNCHANGED <<phase, changed, counters, probing, mu, now,
                 p, probe, to, count, failed>>

\* One request restarts an expired window, by compare-and-swap.
RestartWindow(r) ==
  /\ pc[r] = "window"
  /\ \/ /\ at[r] - window >= WindowSize
        /\ window' = at[r]
        /\ Goto(r, "zeroRequests")
     \/ /\ at[r] - window < WindowSize
        /\ UNCHANGED window
        /\ Goto(r, "addRequest")
  /\ UNCHANGED <<phase, changed, requests, errors, probing, mu, now, locals>>

ZeroRequests(r) ==
  /\ pc[r] = "zeroRequests"
  /\ requests' = 0
  /\ Goto(r, "zeroErrors")
  /\ UNCHANGED <<phase, changed, window, errors, probing, mu, now, locals>>

ZeroErrors(r) ==
  /\ pc[r] = "zeroErrors"
  /\ errors' = 0
  /\ Goto(r, "addRequest")
  /\ UNCHANGED <<phase, changed, window, requests, probing, mu, now, locals>>

AddRequest(r) ==
  /\ pc[r] = "addRequest"
  /\ requests' = requests + 1
  /\ count' = [count EXCEPT ![r] = requests + 1]
  /\ Goto(r, IF failed[r] THEN "addError" ELSE "done")
  /\ UNCHANGED <<phase, changed, window, errors, probing, mu, now,
                 p, probe, to, at, failed>>

\* The error rate of a window with enough requests reaches the threshold.
Trips(errs, reqs) ==
  /\ reqs >= MinRequests
  /\ errs * ThresholdDen >= ThresholdNum * reqs

AddError(r) ==
  /\ pc[r] = "addError"
  /\ errors' = errors + 1
  /\ \/ /\ Trips(errors + 1, count[r])
        /\ CallTransition(r, "open")
     \/ /\ ~Trips(errors + 1, count[r])
        /\ Goto(r, "done")
        /\ UNCHANGED to
  /\ UNCHANGED <<phase, changed, window, requests, probing, mu, now,
                 p, probe, at, count, failed>>

-----------------------------------------------------------------------------
\* transition

\* Where transition returns to: admit reloads the phase, a settled probe runs
\* on, and a recorded request is finished.
AfterTransition(r) ==
  IF to[r] = "halfopen" THEN "reload" ELSE IF probe[r] THEN "tail" ELSE "done"

\* Take mu; unless another request has already moved the circuit on, reset
\* everything but the phase.
ResetForTransition(r) ==
  /\ pc[r] = "lock"
  /\ mu = NoOne
  /\ \/ /\ phase # p[r]
        /\ Goto(r, AfterTransition(r))
        /\ UNCHANGED <<requests, errors, window, changed, probing, mu>>
     \/ /\ phase = p[r]
        /\ mu' = r
        /\ requests' = 0
        /\ errors' = 0
        /\ window' = at[r]
        /\ changed' = at[r]
        /\ probing' = FALSE
        /\ Goto(r, "publish")
  /\ UNCHANGED <<phase, now, locals>>

\* Store the new phase and let mu go.
PublishPhase(r) ==
  /\ pc[r] = "publish"
  /\ phase' = NextPhase(p[r], to[r])
  /\ mu' = NoOne
  /\ Goto(r, AfterTransition(r))
  /\ UNCHANGED <<changed, counters, probing, now, locals>>

-----------------------------------------------------------------------------
Tick ==
  /\ now < MaxNow
  /\ now' = now + 1
  /\ UNCHANGED <<phase, changed, counters, probing, mu, pc, locals>>

\* Every request has been answered.
Finished ==
  /\ \A r \in Requests : pc[r] = "done"
  /\ UNCHANGED vars

Next ==
  \/ \E r \in Requests :
       \/ LoadPhase(r) \/ CheckSleep(r) \/ ReloadPhase(r) \/ ClaimProbe(r)
       \/ \E bad \in BOOLEAN : Respond(r, bad)
       \/ Panic(r) \/ Return(r) \/ Abandon(r)
       \/ CheckPhase(r) \/ RestartWindow(r) \/ ZeroRequests(r) \/ ZeroErrors(r)
       \/ AddRequest(r) \/ AddError(r)
       \/ ResetForTransition(r) \/ PublishPhase(r)
  \/ Tick
  \/ Finished

Spec == Init /\ [][Next]_vars

-----------------------------------------------------------------------------
\* Properties

\* r is a probe that has not settled: its handler has not answered, or its
\* verdict is waiting for mu.
Unsettled(r) == probe[r] /\ pc[r] \in {"serving", "lock", "abandon"}

\* A half-open circuit has at most one probe out: of the requests whose ticket
\* carries the circuit's present phase, at most one is an unsettled probe,
\* however admit, settle, abandon and transition interleave.
SingleProbe ==
  \A r, s \in Requests :
    /\ Unsettled(r) /\ p[r] = phase
    /\ Unsettled(s) /\ p[s] = phase
    => r = s

\* The phase only moves along the breaker's cycle, one generation at a time:
\* no verdict is applied to a phase other than the one it was reached in.
MovesAlongCycle ==
  [][phase' # phase =>
       /\ phase'.gen = phase.gen + 1
       /\ <<phase.kind, phase'.kind>> \in
            {<<"closed", "open">>, <<"open", "halfopen">>,
             <<"halfopen", "open">>, <<"halfopen", "closed">>}]_phase

\* An open circuit is not half-opened before SleepWindow has passed since it
\* opened, whichever of the requests racing to probe it moves it on.
SleepsBeforeProbing ==
  [][\A r \in Requests :
       /\ pc[r] = "lock" /\ pc'[r] = "publish"
       /\ phase.kind = "open"
       => now - changed >= SleepWindow]_vars

\* A probe's verdict is never lost: once it has settled, the circuit has left
\* the phase the probe was admitted in.
VerdictTakesEffect ==
  \A r \in Requests : probe[r] /\ pc[r] = "tail" => phase.gen > p[r].gen

\* What the comment on probing says (line 153): while it is set in a half-open
\* circuit, "the one request a half-open circuit admits is out".
ProbeIsOut ==
  phase.kind = "halfopen" /\ probing /\ mu = NoOne =>
    \E r \in Requests : Unsettled(r) /\ p[r] = phase
=============================================================================
