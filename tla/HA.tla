--------------------------------- MODULE HA ---------------------------------
(****************************************************************************)
(* High availability (internal/ha): the nodes that may hold the virtual     *)
(* addresses, each an HAManager with a listener (listenLoop) and a ticker   *)
(* (step), and the adverts a master sends to every node, itself included.   *)
(*                                                                          *)
(* Time is counted in advertisement intervals.  A datagram may be lost,     *)
(* delivered twice or late, until the environment settles; from then on     *)
(* every advert arrives within MaxDelay intervals and no node is started or *)
(* stopped.                                                                 *)
(****************************************************************************)
EXTENDS Naturals, FiniteSets

CONSTANTS
    Nodes,       \* addresses, as numbers: the tie-break compares them
    VIPs,        \* the virtual addresses
    Settings,    \* the configurations of the nodes to consider
    MaxDelay,    \* how late a settled network delivers, in intervals
    Window,      \* replayWindow, in intervals
    MaxFaults    \* bound on starts, stops, crashes and failures of `ip`

\* step takes over after three intervals without a master.
MasterDown == 3

ASSUME NodesAssumption == Nodes \subseteq Nat /\ IsFiniteSet(Nodes) /\ VIPs # {}
ASSUME BoundsAssumption ==
    /\ MaxDelay \in Nat /\ Window \in Nat /\ MaxFaults \in Nat
    /\ MaxDelay + 1 < MasterDown /\ MasterDown <= Window
ASSUME SettingsAssumption ==
    \A c \in Settings :
        c.prio \in [Nodes -> Nat] /\ c.clock \in [Nodes -> {0, 1}] /\ c.known \subseteq Nodes

VARIABLES
    conf,       \* priority, clock and knowledge of its own address, per node
    proc,       \* "off", "on", "stopping", "stopped": the manager of a node
    active,     \* the node considers itself MASTER
    seen,       \* intervals since lastSeen
    held,       \* the virtual addresses on its interface
    yielding,   \* the listener, holding mu, has still to delete the addresses
    stepped,    \* the ticker has fired in this interval
    adverts,    \* datagrams under way
    settled,    \* the environment has settled
    calm,       \* intervals since then
    faults,     \* starts, stops, crashes and failures of `ip` so far
    mishap      \* history: nodes that kept an address a failed delete or an exit left

node == <<proc, active, seen, held, yielding, stepped>>
vars == <<conf, node, adverts, settled, calm, faults, mishap>>

\* What is older than this makes no difference.
MaxSeen == MasterDown + 1
MaxAge == Window + 2

\* The bound within which the nodes agree once the environment has settled: the
\* last advert of a master that stopped, the wait after it, the take-over and the
\* first advert of the new one, which is as long under way as the last of the old.
Settling == 2 * MaxDelay + MasterDown + 2

\* The smaller of two numbers.
Least(a, b) == IF a < b THEN a ELSE b

\* Managers just started: lastSeen is the time of the start.
Init ==
    /\ conf \in Settings
    /\ proc = [n \in Nodes |-> "on"]
    /\ active = [n \in Nodes |-> FALSE]
    /\ seen = [n \in Nodes |-> 0]
    /\ held = [n \in Nodes |-> {}]
    /\ yielding = [n \in Nodes |-> FALSE]
    /\ stepped = [n \in Nodes |-> FALSE]
    /\ adverts = {}
    /\ settled = FALSE /\ calm = 0 /\ faults = 0 /\ mishap = {}

-----------------------------------------------------------------------------
(* Election.                                                                *)

\* Without the rule for equal priorities.
OutranksByPriority(peer, me) == conf.prio[peer] > conf.prio[me]

\* The higher priority, and among equals the higher address; a node that does
\* not know its own defers.
peerOutranks(peer, me) ==
    \/ conf.prio[peer] > conf.prio[me]
    \/ conf.prio[peer] = conf.prio[me] /\ (me \notin conf.known \/ peer > me)

\* Any advert whose MAC verifies.
FreshAtAnyAge(a) == TRUE

\* parseAdvert: the clocks of the two nodes and the time under way,
\* in either direction, stay within the window.
Fresh(a) ==
    /\ a.age + conf.clock[a.to] <= Window + conf.clock[a.from]
    /\ conf.clock[a.from] <= Window + a.age + conf.clock[a.to]

-----------------------------------------------------------------------------
(* Addresses.                                                               *)

\* A command that fails is a fault of the environment.
Unless(succeeds) ==
    \/ succeeds /\ UNCHANGED faults
    \/ ~succeeds /\ ~settled /\ faults < MaxFaults /\ faults' = faults + 1

\* MASTER whether or not an address was added.
AcquireRegardless(n) ==
    \E got \in SUBSET (VIPs \ held[n]) :
        /\ Unless(got = VIPs \ held[n])
        /\ held' = [held EXCEPT ![n] = @ \cup got]
        /\ active' = [active EXCEPT ![n] = TRUE]

\* `ip addr add` of each address; an address that is on the interface already
\* cannot be added.  A node that added none stays BACKUP.
acquireVIPs(n) ==
    \E got \in SUBSET (VIPs \ held[n]) :
        /\ Unless(got = VIPs \ held[n])
        /\ held' = [held EXCEPT ![n] = @ \cup got]
        /\ active' = [active EXCEPT ![n] = got # {}]

\* `ip addr del` of each address, which may fail.
DeleteVIPs(n) ==
    \E left \in SUBSET held[n] :
        /\ Unless(left = {})
        /\ held' = [held EXCEPT ![n] = left]
        /\ mishap' = IF left = {} THEN mishap ELSE mishap \cup {n}

-----------------------------------------------------------------------------
(* The ticker.                                                              *)

\* sendAdvert: to every node.  Its own copy is left out where the node would
\* ignore it, and an unsettled network loses what a newer advert overtakes.
sendAdvert(n) ==
    adverts' = {a \in adverts : settled \/ a.from # n} \cup
        {[from |-> n, to |-> m, age |-> 0] : m \in (Nodes \ {n}) \cup ({n} \ conf.known)}

\* step: more than three intervals after the last master, take over; a master
\* advertises.  In the third interval on the clock of the model three intervals
\* may have passed or not.
step(n) ==
    /\ proc[n] = "on" /\ ~stepped[n] /\ ~yielding[n]
    /\ stepped' = [stepped EXCEPT ![n] = TRUE]
    /\ \/ ~active[n] /\ seen[n] >= MasterDown /\ acquireVIPs(n)
       \/ (active[n] \/ seen[n] <= MasterDown) /\ UNCHANGED <<held, active, faults>>
    /\ IF active'[n] THEN sendAdvert(n) ELSE UNCHANGED adverts
    /\ UNCHANGED <<conf, proc, seen, yielding, settled, calm, mishap>>

-----------------------------------------------------------------------------
(* The listener.                                                            *)

\* listenLoop: an advert of a peer that outranks this node is a master seen, and
\* a master yields to it; any other is ignored.
Hear(a) ==
    LET n == a.to
        obeys == Fresh(a) /\ peerOutranks(a.from, n)
    IN
    /\ proc[n] \in {"on", "stopping"} /\ a \in adverts /\ ~yielding[n]
    /\ seen' = [seen EXCEPT ![n] = IF obeys THEN 0 ELSE @]
    /\ yielding' = [yielding EXCEPT ![n] = obeys /\ active[n]]
    /\ active' = [active EXCEPT ![n] = @ /\ ~obeys]
    /\ \/ adverts' = adverts \ {a}
       \/ ~settled /\ UNCHANGED adverts
    /\ UNCHANGED <<conf, proc, held, stepped, settled, calm, faults, mishap>>

\* The rest of releaseVIPs, with mu held.
Yield(n) ==
    /\ yielding[n]
    /\ DeleteVIPs(n)
    /\ yielding' = [yielding EXCEPT ![n] = FALSE]
    /\ UNCHANGED <<conf, proc, active, seen, stepped, adverts, settled, calm>>

-----------------------------------------------------------------------------
(* Start and stop.                                                          *)

\* Starts, stops and exits happen before the environment has settled.
Fault ==
    /\ ~settled /\ faults < MaxFaults
    /\ faults' = faults + 1
    /\ UNCHANGED <<conf, settled, calm>>

\* A new manager waits for a master first.
Start(n) ==
    /\ Fault
    /\ proc[n] = "off" \/ (proc[n] = "stopped" /\ ~yielding[n])
    /\ proc' = [proc EXCEPT ![n] = "on"]
    /\ active' = [active EXCEPT ![n] = FALSE]
    /\ seen' = [seen EXCEPT ![n] = 0]
    /\ stepped' = [stepped EXCEPT ![n] = FALSE]
    /\ UNCHANGED <<held, yielding, adverts, mishap>>

\* The supervisor cancels the manager, for a new configuration or at shutdown.
Cancel(n) ==
    /\ Fault /\ proc[n] = "on"
    /\ proc' = [proc EXCEPT ![n] = "stopping"]
    /\ UNCHANGED <<active, seen, held, yielding, stepped, adverts, mishap>>

\* Start returns without releasing.
StopHolding(n) ==
    /\ proc[n] = "stopping"
    /\ proc' = [proc EXCEPT ![n] = "stopped"]
    /\ active' = [active EXCEPT ![n] = FALSE]
    /\ UNCHANGED <<conf, seen, held, yielding, stepped, adverts, settled, calm, faults, mishap>>

\* Start returns: releaseVIPs without mu, which does nothing when the listener
\* has cleared active already.
Stop(n) ==
    /\ proc[n] = "stopping"
    /\ proc' = [proc EXCEPT ![n] = "stopped"]
    /\ IF active[n] THEN DeleteVIPs(n) ELSE UNCHANGED <<held, faults, mishap>>
    /\ active' = [active EXCEPT ![n] = FALSE]
    /\ UNCHANGED <<conf, seen, yielding, stepped, adverts, settled, calm>>

\* The process ends, by a crash or without waiting for the manager; the
\* interface keeps what it has.
Exit(n) ==
    /\ Fault /\ proc[n] # "off"
    /\ proc' = [proc EXCEPT ![n] = "off"]
    /\ active' = [active EXCEPT ![n] = FALSE]
    /\ yielding' = [yielding EXCEPT ![n] = FALSE]
    /\ mishap' = IF held[n] = {} THEN mishap ELSE mishap \cup {n}
    /\ UNCHANGED <<seen, held, stepped, adverts>>

-----------------------------------------------------------------------------
(* The network and time.                                                    *)

\* A datagram is lost, or nobody listens any more.
Lose(a) ==
    /\ ~settled \/ proc[a.to] \in {"off", "stopped"}
    /\ a \in adverts
    /\ adverts' = adverts \ {a}
    /\ UNCHANGED <<conf, node, settled, calm, faults, mishap>>

\* From now on no command fails, no node starts or stops and nothing is lost.
Settle ==
    /\ ~settled /\ settled' = TRUE
    /\ UNCHANGED <<conf, node, adverts, calm, faults, mishap>>

\* An interval passes: the tickers have fired, releases have ended and a settled
\* network has delivered.
Tick ==
    /\ \A n \in Nodes :
          /\ proc[n] = "on" => stepped[n]
          /\ proc[n] # "stopping" /\ ~yielding[n]
    /\ settled => \A a \in adverts : a.age < MaxDelay
    /\ seen' = [n \in Nodes |-> Least(seen[n] + 1, MaxSeen)]
    /\ stepped' = [n \in Nodes |-> FALSE]
    /\ adverts' = {[a EXCEPT !.age = Least(@ + 1, MaxAge)] : a \in adverts}
    /\ calm' = IF settled THEN Least(calm + 1, Settling) ELSE calm
    /\ UNCHANGED <<conf, proc, active, held, yielding, settled, faults, mishap>>

\* Some node, the network or time takes a step.
Next ==
    \/ \E n \in Nodes : step(n) \/ Yield(n) \/ Start(n) \/ Cancel(n) \/ Stop(n) \/ Exit(n)
    \/ \E a \in adverts : Hear(a) \/ Lose(a)
    \/ Settle \/ Tick

Spec == Init /\ [][Next]_vars

\* Tickers fire, mutexes are released, a cancelled manager returns and time
\* passes.  Nothing is assumed of the network.
Fairness ==
    /\ \A n \in Nodes : WF_vars(step(n)) /\ WF_vars(Yield(n)) /\ WF_vars(Stop(n))
    /\ WF_vars(\E a \in adverts : Hear(a) \/ Lose(a))
    /\ WF_vars(Tick)

LiveSpec == Spec /\ Fairness

-----------------------------------------------------------------------------
\* Types; only a running manager is MASTER.
TypeOK ==
    /\ proc \in [Nodes -> {"off", "on", "stopping", "stopped"}]
    /\ active \in [Nodes -> BOOLEAN]
    /\ seen \in [Nodes -> 0..MaxSeen]
    /\ held \in [Nodes -> SUBSET VIPs]
    /\ yielding \in [Nodes -> BOOLEAN]
    /\ stepped \in [Nodes -> BOOLEAN]
    /\ adverts \subseteq [from : Nodes, to : Nodes, age : 0..MaxAge]
    /\ settled \in BOOLEAN /\ calm \in 0..Settling /\ faults \in 0..MaxFaults /\ mishap \subseteq Nodes
    /\ \A n \in Nodes : active[n] => proc[n] \in {"on", "stopping"}

\* acquireVIPs: what must not happen is "claiming MASTER while holding nothing
\* at all", which "suppresses the peer that would have succeeded".
MasterHolds == \A n \in Nodes : active[n] => held[n] # {}

\* Running nodes; those that can take the addresses; the one that should.
Running == {n \in Nodes : proc[n] = "on"}
Able == {n \in Running : active[n] \/ held[n] # VIPs}
Above(m, n) == conf.prio[m] > conf.prio[n] \/ (conf.prio[m] = conf.prio[n] /\ m > n)
Best(n) == n \in Able /\ \A m \in Able \ {n} : Above(n, m)

\* The clocks are close enough for every timely advert to be accepted.
Synchronous ==
    \A m, n \in Nodes : conf.clock[m] + MaxDelay <= Window + conf.clock[n]

\* "exactly one of them yields" (peerOutranks), without the split that used to
\* last "indefinitely, with nothing logged": within Settling intervals after the
\* last fault the best of the nodes is MASTER, and no other.  The nodes know
\* their own addresses: one that does not defers to every equal, its own echo
\* included.
OneMasterInTime ==
    calm = Settling /\ Synchronous /\ Running \subseteq conf.known =>
        \A n \in Nodes : Best(n) => \A m \in Nodes : active[m] <=> m = n

\* releaseVIPs "gives up every configured address": an address stays on the
\* interface of a node that is not MASTER only after a delete failed or the
\* process ended first, however a stop and a yield to a peer overlap.
NothingLeft ==
    \A n \in Nodes \ mishap : held[n] # {} => active[n] \/ yielding[n]

\* "a node that wrongly yields leaves the pair with no master for three
\* intervals, which recovers on its own": whatever the network loses, there is
\* a MASTER again and again as long as some node runs that can take the
\* addresses.
MasterAgain ==
    (\E n \in Nodes : <>[](n \in Able)) => []<>(\E n \in Nodes : active[n])
=============================================================================
