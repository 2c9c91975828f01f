------------------------------- MODULE Canary -------------------------------
(****************************************************************************)
(* Canary rollouts (internal/domain/canary): a rollout shifts the weights   *)
(* of a service in steps, on the gateway it was started at, judges each     *)
(* step by its traffic and restores the service when one does badly.        *)
(* Operators edit and delete the service meanwhile, at any gateway.         *)
(*                                                                          *)
(* Whether a step did badly is open.  Weights move in floating point; the   *)
(* instances use weights and step counts for which that is exact.           *)
(****************************************************************************)
EXTENDS Gateways

CONSTANTS
    Want,    \* per rollout, the weights asked for, by target
    Steps    \* steps of a rollout, after the adjustments for its duration

ASSUME CanaryAssumption ==
    /\ Steps \in Nat \ {0}
    /\ \A k \in Rollouts : DOMAIN Want[k] \subseteq Targets

VARIABLES
    run,       \* per rollout: steps done, its snapshot of the service, its end;
               \* history: whether it is alone, and whether an edit came since
    spoiled,   \* history: an edit and a rollout got into each other's way
    wanted     \* history: the rest of the service after the last edit

vars == <<gvars, run, spoiled, wanted>>

\* A rollout before it begins, and one that nothing more is to be said of.
NotRun == [end |-> "none"]
Past == [end |-> "past"]
Over == [at |-> "over"]

Init ==
    /\ GInit
    /\ run = [k \in Rollouts |-> NotRun]
    /\ spoiled = FALSE /\ wanted = 0

\* The rollout r is not alone.
Disturbed(r) ==
    IF r.end = "open" THEN [r EXCEPT !.alone = FALSE] ELSE IF r.end = "none" THEN r ELSE Past

\* The rollouts when those in ks are disturbed and k is r.
Runs(ks, k, r) ==
    [i \in Rollouts |-> IF i = k THEN r ELSE IF i \in ks THEN Disturbed(run[i]) ELSE run[i]]

\* A rollout that has come to its end.
Ended(k, end) == IF run[k].alone THEN [run[k] EXCEPT !.end = end] ELSE Past

-----------------------------------------------------------------------------
(* A rollout.                                                               *)

\* checkRunnable finds the service.
StartCanary(k, g) ==
    /\ job[k] = NoJob /\ Known(g) # Deleted /\ calls < MaxCalls
    /\ calls' = calls + 1
    /\ job' = [job EXCEPT ![k] = [at |-> "begin", g |-> g]]
    /\ UNCHANGED <<row, route, heap, mem, chain, mail, listen, faults, astray>>
    /\ UNCHANGED <<run, spoiled, wanted>>

\* runCanary, in its goroutine: the service may be gone by now.
Begin(k) ==
    LET g == job[k].g IN
    /\ job[k].at = "begin"
    /\ IF Known(g) = Deleted
       THEN /\ job' = [job EXCEPT ![k] = Over]
            /\ run' = [run EXCEPT ![k] = Past] /\ UNCHANGED spoiled
       ELSE /\ job' = [job EXCEPT ![k].at = "wait"]
            /\ run' = [run EXCEPT ![k] = [step |-> 0, orig |-> Known(g), alone |-> InTouch(g),
                                          stale |-> FALSE, end |-> "open"]]
            /\ spoiled' = (spoiled \/ ~InTouch(g))
    /\ UNCHANGED <<row, route, heap, mem, chain, mail, listen, calls, faults, astray, wanted>>

\* The first step moves nothing.
InterpolateLate(from, to, step) == from + ((to - from) * (step - 1)) \div Steps

\* The weight after so many steps, truncated.
Interpolate(from, to, step) == from + ((to - from) * step) \div Steps

\* The service after the next step; a target the request does not name keeps its
\* weight.
Shifted(k, s) ==
    [s EXCEPT !.w = [t \in Targets |->
        IF t \in DOMAIN Want[k]
        THEN Interpolate(run[k].orig.w[t], Want[k][t], run[k].step + 1) ELSE s.w[t]]]

\* The step starts from the snapshot.
ShiftSnapshot(k) ==
    LET g == job[k].g
        o == mem[g].obj
        j == [job EXCEPT ![k] = [at |-> "save", g |-> g, obj |-> o]] IN
    /\ job[k].at = "wait" /\ Known(g) # Deleted
    /\ heap' = With(g, o, Shifted(k, run[k].orig), mem, j) /\ job' = j
    /\ run' = Runs({i \in Rollouts : job[i].at \notin {"idle", "over"} /\ job[i].g = g}, k, run[k])
    /\ spoiled' = (spoiled \/ ~InTouch(g))
    /\ UNCHANGED <<row, route, mem, chain, mail, listen, calls, faults, astray, wanted>>

\* A step did well: the service is looked up again and its weights are set, in
\* the registry's own object.
Shift(k) ==
    LET g == job[k].g
        o == mem[g].obj
        j == [job EXCEPT ![k] = [at |-> "save", g |-> g, obj |-> o]] IN
    /\ job[k].at = "wait" /\ Known(g) # Deleted
    /\ heap' = With(g, o, Shifted(k, Known(g)), mem, j) /\ job' = j
    /\ run' = Runs({i \in Rollouts : job[i].at \notin {"idle", "over"} /\ job[i].g = g}, k, run[k])
    /\ spoiled' = (spoiled \/ ~InTouch(g))
    /\ UNCHANGED <<row, route, mem, chain, mail, listen, calls, faults, astray, wanted>>

\* Or the service was deleted.
Abort(k) ==
    /\ job[k].at = "wait" /\ Known(job[k].g) = Deleted
    /\ job' = [job EXCEPT ![k] = Over]
    /\ run' = [run EXCEPT ![k] = Past]
    /\ UNCHANGED <<row, route, heap, mem, chain, mail, listen, calls, faults, astray>>
    /\ UNCHANGED <<spoiled, wanted>>

\* The step saves what it looked up.
Save(k) ==
    LET g == job[k].g
        o == job[k].obj IN
    /\ job[k].at = "save"
    /\ Update(k, g, o, heap[g][o])
    /\ run' = Runs(Rollouts, k, IF run[k].step + 1 = Steps THEN Ended(k, "done")
                               ELSE [run[k] EXCEPT !.step = @ + 1])
    /\ UNCHANGED <<route, chain, mail, listen, calls, faults, astray, spoiled, wanted>>

\* A save that fails ends the rollout; the object keeps its weights.
SaveFails(k) ==
    LET g == job[k].g
        j == [job EXCEPT ![k] = Over] IN
    /\ job[k].at = "save" /\ Fault
    /\ job' = j /\ heap' = With(g, NoObject, Blank, mem, j)
    /\ astray' = IF mem[g].obj = job[k].obj THEN astray \cup {g} ELSE astray
    /\ run' = [run EXCEPT ![k] = Past]
    /\ UNCHANGED <<row, route, mem, chain, mail, listen, calls, spoiled, wanted>>

\* The snapshot was the registry's object.
RollBackShared(k) ==
    LET g == job[k].g IN
    /\ job[k].at = "wait"
    /\ Update(k, g, Fresh(g), IF Known(g) = Deleted THEN run[k].orig ELSE Known(g))
    /\ run' = Runs(Rollouts, k, Ended(k, "restored"))
    /\ spoiled' = (spoiled \/ run[k].stale)
    /\ UNCHANGED <<route, chain, mail, listen, calls, faults, astray, wanted>>

\* A step did badly: the whole service is saved as it was when the rollout began.
rollBack(k) ==
    LET g == job[k].g IN
    /\ job[k].at = "wait"
    /\ Update(k, g, Fresh(g), run[k].orig)
    /\ run' = Runs(Rollouts, k, Ended(k, "restored"))
    /\ spoiled' = (spoiled \/ run[k].stale)
    /\ UNCHANGED <<route, chain, mail, listen, calls, faults, astray, wanted>>

rollBackFails(k) ==
    /\ job[k].at = "wait" /\ Fault
    /\ job' = [job EXCEPT ![k] = Over]
    /\ run' = [run EXCEPT ![k] = Past]
    /\ UNCHANGED <<row, route, heap, mem, chain, mail, listen, calls, astray, spoiled, wanted>>

\* After telling the peers, the next step.
Tell(k) ==
    /\ Publish(k, IF run[k].end = "open" THEN [at |-> "wait", g |-> job[k].g] ELSE Over)
    /\ UNCHANGED <<run, spoiled, wanted>>

-----------------------------------------------------------------------------
(* Operators and gateways.                                                  *)

\* What an edit does to the histories.
Edited(rest) ==
    /\ wanted' = rest
    /\ spoiled' = (spoiled \/ \E k \in Rollouts : job[k].at = "save")
    /\ run' = [k \in Rollouts |-> IF run[k].end = "open" THEN [Disturbed(run[k]) EXCEPT !.stale = TRUE]
                                  ELSE Disturbed(run[k])]

Operate(a) ==
    \/ \E g \in Gateways :
          \/ SaveService(a, g) /\ Edited(calls + 1)
          \/ ClearRouteReferences(a, g) /\ UNCHANGED <<run, spoiled, wanted>>
    \/ DeleteService(a) /\ Edited(Deleted.rest)
    \/ Publish(a, NoJob) /\ UNCHANGED <<run, spoiled, wanted>>

\* Its rollouts end with a gateway.
Stop(g) ==
    /\ Restart(g, Over)
    /\ run' = [k \in Rollouts |-> IF job'[k] = Over /\ job[k] # Over
                                  THEN Past ELSE run[k]]
    /\ UNCHANGED <<spoiled, wanted>>

Next ==
    \/ \E k \in Rollouts :
          \/ \E g \in Gateways : StartCanary(k, g)
          \/ Begin(k) \/ Shift(k) \/ Abort(k) \/ Save(k) \/ SaveFails(k)
          \/ rollBack(k) \/ rollBackFails(k) \/ Tell(k)
    \/ \E a \in Operators : Operate(a)
    \/ GStep /\ UNCHANGED <<run, spoiled, wanted>>
    \/ \E g \in Gateways : Stop(g)

Spec == Init /\ [][Next]_vars

-----------------------------------------------------------------------------
\* Types.
TypeOK ==
    /\ row \in Services \cup {Deleted} /\ route \in BOOLEAN
    /\ \A g \in Gateways :
          /\ heap[g] \in [Objects -> Services \cup {Blank}]
          /\ mem[g].obj # NoObject => heap[g][mem[g].obj] # Blank
          /\ chain[g] \in Services \cup {Deleted, Empty}
    /\ listen \in [Gateways -> {"idle", "services", "clear"}]
    /\ \A k \in Rollouts : run[k].end = "open" => run[k].step \in 0..Steps - 1
    /\ calls \in 0..MaxCalls /\ faults \in 0..MaxFaults /\ astray \subseteq Gateways

\* Nothing is going on at g that it has still to write or to clear.
Settled(g) ==
    InTouch(g) /\ \A a \in Callers : job[a].at \in {"save", "delete", "clear"} => job[a].g # g

\* "Every message now re-reads the registries the message can concern before the
\* caches are cleared": a gateway that has missed nothing since it last read the
\* tables knows and serves what is stored, whoever wrote it and in whatever order
\* writes and messages crossed; one message it hears makes good what it missed.
InStep ==
    \A g \in Gateways : Settled(g) =>
        /\ Known(g) = row /\ mem[g].routed = route
        /\ chain[g] \in {Empty, Compiled(g)}

\* "Refresh service state to ensure we don't overwrite other changes"
\* (runCanary): an edit or a deletion of the service outlives the rollouts, unless
\* it fell between a step's look-up and its save, or a rollout read a gateway that
\* had not heard of it, or a rollout begun before it was rolled back.
EditKept == ~spoiled => row.rest = wanted

\* A rollout that nobody interfered with ends with the service as it was and the
\* weights asked for.
ReachesTarget ==
    \A k \in Rollouts : run[k].end = "done" =>
        row = [run[k].orig EXCEPT !.w = [t \in Targets |->
                  IF t \in DOMAIN Want[k] THEN Want[k][t] ELSE run[k].orig.w[t]]]

\* "rolled back to exactly what was there before" (snapshotService), though the
\* steps write into the registry's own object.
Restores ==
    \A k \in Rollouts : run[k].end = "restored" => row = run[k].orig
=============================================================================
