------------------------------ MODULE HAProofs ------------------------------
(* What is proved of high availability, for any number of nodes and virtual *)
(* addresses, any priorities and clocks, and any number of faults: a MASTER *)
(* holds an address, who is not MASTER gives up what it holds, and the best *)
(* node is the only MASTER some time after the faults have ended.           *)
EXTENDS HA, FiniteSetTheorems, TLAPS

USE ZenonT(20), SMTT(60)

\* A node that is yielding is no longer MASTER, and a process that ended is not
\* yielding.
YieldInv ==
    \A n \in Nodes : yielding[n] => ~active[n] /\ proc[n] # "off"

IInv == YieldInv /\ MasterHolds /\ NothingLeft

-----------------------------------------------------------------------------
(* Types.                                                                   *)

LEMMA Numbers ==
    /\ MasterDown = 3 /\ MaxSeen = 4 /\ MaxAge \in Nat /\ Settling \in Nat
    /\ \A a, b \in Nat : Least(a, b) \in 0..b
BY SMTT(60), BoundsAssumption DEF MasterDown, MaxSeen, MaxAge, Settling, Least

LEMMA TypeInit == Init => TypeOK
<1> SUFFICES ASSUME Init PROVE TypeOK
    OBVIOUS
<1>1. 0 \in 0..MaxSeen /\ 0 \in 0..Settling /\ 0 \in 0..MaxFaults
    BY SMTT(60), Numbers, BoundsAssumption
<1>2. /\ proc \in [Nodes -> {"off", "on", "stopping", "stopped"}]
      /\ active \in [Nodes -> BOOLEAN] /\ yielding \in [Nodes -> BOOLEAN]
      /\ stepped \in [Nodes -> BOOLEAN] /\ settled \in BOOLEAN
      /\ \A n \in Nodes : ~active[n]
    BY DEF Init
<1>3. seen \in [Nodes -> 0..MaxSeen] /\ held \in [Nodes -> SUBSET VIPs]
    BY <1>1 DEF Init
<1> QED BY <1>1, <1>2, <1>3 DEF Init, TypeOK

\* What a command that fails, or a delete, leaves.
LEMMA AcquireType ==
    ASSUME TypeOK, NEW n \in Nodes, acquireVIPs(n)
    PROVE  /\ held' \in [Nodes -> SUBSET VIPs] /\ active' \in [Nodes -> BOOLEAN]
           /\ faults' \in 0..MaxFaults
BY SMTT(60), BoundsAssumption DEF acquireVIPs, Unless, TypeOK

LEMMA DeleteType ==
    ASSUME TypeOK, NEW n \in Nodes, DeleteVIPs(n)
    PROVE  /\ held' \in [Nodes -> SUBSET VIPs]
           /\ faults' \in 0..MaxFaults /\ mishap' \subseteq Nodes
BY SMTT(60), BoundsAssumption DEF DeleteVIPs, Unless, TypeOK

LEMMA SendType ==
    ASSUME TypeOK, NEW n \in Nodes, sendAdvert(n)
    PROVE  adverts' \subseteq [from : Nodes, to : Nodes, age : 0..MaxAge]
BY SMTT(60), Numbers DEF sendAdvert, TypeOK

LEMMA TypeNext == TypeOK /\ [Next]_vars => TypeOK'
<1> SUFFICES ASSUME TypeOK, [Next]_vars PROVE TypeOK'
    OBVIOUS
<1>0. MaxSeen = 4 /\ MasterDown = 3
    BY Numbers
<1>1. ASSUME NEW n \in Nodes, step(n) PROVE TypeOK'
  <2>1. adverts' \subseteq [from : Nodes, to : Nodes, age : 0..MaxAge]
      BY <1>1, SendType DEF step, TypeOK
  <2>2. /\ held' \in [Nodes -> SUBSET VIPs] /\ active' \in [Nodes -> BOOLEAN]
        /\ faults' \in 0..MaxFaults
      BY <1>1, AcquireType DEF step, TypeOK
  <2>3. \A m \in Nodes : active'[m] => proc'[m] \in {"on", "stopping"}
      BY <1>1 DEF step, acquireVIPs, TypeOK
  <2> QED BY <1>1, <2>1, <2>2, <2>3 DEF step, TypeOK
<1>2. ASSUME NEW n \in Nodes, Yield(n) PROVE TypeOK'
    BY <1>2, DeleteType DEF Yield, TypeOK
<1>3. ASSUME NEW n \in Nodes, Start(n) \/ Cancel(n) PROVE TypeOK'
  <2>1. faults' \in 0..MaxFaults /\ UNCHANGED <<conf, settled, calm>>
      BY SMTT(60), <1>3, BoundsAssumption DEF Start, Cancel, Fault, TypeOK
  <2>2. CASE Start(n)
    <3>1. seen' \in [Nodes -> 0..MaxSeen]
        BY SMTT(60), <1>0, <2>2 DEF Start, TypeOK
    <3>2. active' \in [Nodes -> BOOLEAN] /\ stepped' \in [Nodes -> BOOLEAN]
        BY <2>2 DEF Start, TypeOK
    <3>3. \A m \in Nodes : active'[m] => proc'[m] \in {"on", "stopping"}
        BY <2>2 DEF Start, TypeOK
    <3> QED BY <2>1, <2>2, <3>1, <3>2, <3>3 DEF Start, TypeOK
  <2>3. CASE Cancel(n)
      BY <2>1, <2>3 DEF Cancel, TypeOK
  <2> QED BY <1>3, <2>2, <2>3
<1>4. ASSUME NEW n \in Nodes, Stop(n) PROVE TypeOK'
    BY <1>4, DeleteType DEF Stop, TypeOK
<1>5. ASSUME NEW n \in Nodes, Exit(n) PROVE TypeOK'
    BY SMTT(60), <1>5, BoundsAssumption DEF Exit, Fault, TypeOK
<1>6. ASSUME NEW a \in adverts, Hear(a) PROVE TypeOK'
  <2>1. a.to \in Nodes
      BY DEF TypeOK
  <2>2. seen' \in [Nodes -> 0..MaxSeen]
      BY SMTT(60), <1>0, <1>6, <2>1 DEF Hear, TypeOK
  <2>3. active' = [active EXCEPT ![a.to] = FALSE] \/ active' = active
      BY <1>6, <2>1 DEF Hear, TypeOK
  <2>4. yielding' \in [Nodes -> BOOLEAN]
      BY <1>6, <2>1 DEF Hear, TypeOK
  <2> QED BY <1>6, <2>1, <2>2, <2>3, <2>4 DEF Hear, TypeOK
<1>7. ASSUME NEW a \in adverts, Lose(a) PROVE TypeOK'
    BY <1>7 DEF Lose, node, TypeOK
<1>8. ASSUME Settle \/ UNCHANGED vars PROVE TypeOK'
    BY <1>8 DEF Settle, vars, node, TypeOK
<1>9. ASSUME Tick PROVE TypeOK'
  <2>1. seen' \in [Nodes -> 0..MaxSeen]
    <3>1. \A n \in Nodes : Least(seen[n] + 1, MaxSeen) \in 0..MaxSeen
        BY SMTT(60), <1>0 DEF Least, TypeOK
    <3> QED BY <1>9, <3>1 DEF Tick
  <2>2. calm' \in 0..Settling
      BY SMTT(60), <1>9, Numbers DEF Tick, TypeOK
  <2>3. adverts' \subseteq [from : Nodes, to : Nodes, age : 0..MaxAge]
      BY SMTT(60), <1>9, Numbers DEF Tick, TypeOK
  <2> QED BY <1>9, <2>1, <2>2, <2>3 DEF Tick, TypeOK
<1> QED BY <1>1, <1>2, <1>3, <1>4, <1>5, <1>6, <1>7, <1>8, <1>9 DEF Next

-----------------------------------------------------------------------------
(* The addresses.                                                           *)

LEMMA IInvNext == TypeOK /\ IInv /\ [Next]_vars => IInv'
<1> SUFFICES ASSUME TypeOK, IInv, [Next]_vars PROVE IInv'
    OBVIOUS
<1> USE DEF IInv, YieldInv, MasterHolds, NothingLeft, TypeOK
<1>1. ASSUME NEW n \in Nodes, step(n) PROVE IInv'
  <2>1. CASE UNCHANGED <<held, active>>
      BY <1>1, <2>1 DEF step
  <2>2. CASE ~active[n] /\ acquireVIPs(n)
    <3>1. PICK got \in SUBSET (VIPs \ held[n]) :
             /\ held' = [held EXCEPT ![n] = @ \cup got]
             /\ active' = [active EXCEPT ![n] = got # {}]
        BY <2>2 DEF acquireVIPs
    <3> QED BY <1>1, <2>2, <3>1 DEF step
  <2> QED BY <1>1, <2>1, <2>2 DEF step
<1>2. ASSUME NEW n \in Nodes, Yield(n) PROVE IInv'
    BY <1>2 DEF Yield, DeleteVIPs
<1>3. ASSUME NEW n \in Nodes, Start(n) PROVE IInv'
    BY <1>3 DEF Start, Fault
<1>4. ASSUME NEW n \in Nodes, Cancel(n) PROVE IInv'
    BY <1>4 DEF Cancel, Fault
<1>5. ASSUME NEW n \in Nodes, Stop(n) PROVE IInv'
    BY <1>5 DEF Stop, DeleteVIPs
<1>6. ASSUME NEW n \in Nodes, Exit(n) PROVE IInv'
    BY <1>6 DEF Exit, Fault
<1>7. ASSUME NEW a \in adverts, Hear(a) PROVE IInv'
  <2>1. a.to \in Nodes
      OBVIOUS
  <2>2. /\ yielding'[a.to] = (active[a.to] /\ ~active'[a.to])
        /\ active'[a.to] => active[a.to]
        /\ \A m \in Nodes : m # a.to => active'[m] = active[m] /\ yielding'[m] = yielding[m]
      BY <1>7, <2>1 DEF Hear
  <2>3. UNCHANGED <<proc, held, mishap>> /\ proc[a.to] # "off" /\ ~yielding[a.to]
      BY <1>7 DEF Hear
  <2> QED BY <2>1, <2>2, <2>3
<1>8. ASSUME UNCHANGED <<proc, active, held, yielding, mishap>> PROVE IInv'
    BY <1>8
<1> QED BY <1>1, <1>2, <1>3, <1>4, <1>5, <1>6, <1>7, <1>8
        DEF Next, Lose, Settle, Tick, vars, node

LEMMA IInvAlways == Spec => [](TypeOK /\ IInv)
<1>1. Init => IInv
    BY DEF Init, IInv, YieldInv, MasterHolds, NothingLeft
<1> QED BY <1>1, TypeInit, TypeNext, IInvNext, PTL DEF Spec

\* No node claims MASTER with none of the addresses on its interface, whatever
\* `ip` refuses and the network delivers (MasterHolds, acquireVIPs).
THEOREM MasterAlwaysHolds == Spec => []MasterHolds
BY IInvAlways, PTL DEF IInv

\* A node that is not MASTER keeps no address, unless a delete failed or its
\* process ended first: the listener's yield, which holds mu, and Start's return,
\* which does not, may overlap (NothingLeft, releaseVIPs).
THEOREM NothingEverLeft == Spec => []NothingLeft
BY IInvAlways, PTL DEF IInv

-----------------------------------------------------------------------------
(* Agreement in time.                                                       *)

\* Who runs and can be MASTER, now or once it has given up its addresses.  It
\* no longer changes once the environment has settled, unlike Able, which a
\* node leaves while it yields.
Contenders ==
    {n \in Nodes : proc[n] = "on" /\ (active[n] \/ yielding[n] \/ held[n] # VIPs)}

Leader(t) == t \in Contenders /\ \A m \in Contenders \ {t} : Above(t, m)

\* What OneMasterInTime supposes of the nodes.
Sound == settled /\ Synchronous /\ Running \subseteq conf.known

\* By then the leader has taken over, whoever it last waited for.
TakeOver == MaxDelay + MasterDown + 1

\* In a settled network adverts are young, and those that were sent before it
\* settled are as old as the calm; what was stopping has stopped.
Aging ==
    /\ conf \in Settings
    /\ ~settled => calm = 0
    /\ settled => \A a \in adverts : a.from \in Contenders \/ a.age >= calm
    /\ settled /\ calm > 0 =>
          /\ \A a \in adverts : a.age <= MaxDelay
          /\ \A n \in Nodes : proc[n] # "stopping"

\* Nobody is left to whom the leader would yield: it is MASTER, or its wait
\* began no later than the last advert of before.
Waiting(t) ==
    /\ ~yielding[t]
    /\ \/ active[t]
       \/ /\ calm <= TakeOver /\ seen[t] + MaxDelay >= calm
          /\ calm = TakeOver => ~stepped[t]

\* What the leader sent k intervals ago is still under way to m, or m has heard
\* the leader since.
Reached(t, m, k) ==
    \/ [from |-> t, to |-> m, age |-> k] \in adverts
    \/ ~active[m] /\ seen[m] <= k

\* The leader has sent an advert in each interval since it took over.
Reaching(t) ==
    \A m \in Contenders \ {t}, k \in 0..(MaxDelay + 1) :
        TakeOver + k <= calm /\ (k = 0 => stepped[t]) => Reached(t, m, k)

TimeInv ==
    /\ Aging
    /\ Sound /\ calm > MaxDelay =>
          \A t \in Nodes : Leader(t) => Waiting(t) /\ Reaching(t)

LEMMA AboveOrder ==
    ASSUME conf \in Settings
    PROVE  /\ \A x \in Nodes : ~Above(x, x)
           /\ \A x, y, z \in Nodes : Above(x, y) /\ Above(y, z) => Above(x, z)
           /\ \A x, y \in Nodes : x # y => Above(x, y) \/ Above(y, x)
<1>1. \A x \in Nodes : x \in Nat /\ conf.prio[x] \in Nat
    BY NodesAssumption, SettingsAssumption
<1> QED BY SMTT(60), <1>1 DEF Above

\* Among finitely many nodes one outranks the others.
LEMMA TopExists ==
    ASSUME conf \in Settings, NEW C \in SUBSET Nodes, C # {}
    PROVE  \E t \in C : \A m \in C \ {t} : Above(t, m)
<1> DEFINE Over(x) == {y \in C : Above(y, x)}
           T == {Over(x) : x \in C}
<1>1. T \subseteq FiniteSubsetsOf(Nodes) /\ T # {}
  <2>1. FiniteSubsetsOf(Nodes) = SUBSET Nodes
      BY NodesAssumption, FS_FiniteSubsetsOfFinite
  <2>2. T \in SUBSET (SUBSET Nodes)
      OBVIOUS
  <2>3. PICK x \in C : TRUE
      OBVIOUS
  <2>4. Over(x) \in T
      OBVIOUS
  <2> HIDE DEF T
  <2> QED BY <2>1, <2>2, <2>4
<1>2. IsWellFoundedOn(StrictSubsetOrdering(Nodes), FiniteSubsetsOf(Nodes))
    BY FS_StrictSubsetOrderingWellFounded
<1> HIDE DEF T
<1>3. PICK u \in T : \A v \in T : <<v, u>> \notin StrictSubsetOrdering(Nodes)
    BY <1>1, <1>2, WFMin
<1> USE DEF T
<1>4. PICK x \in C : u = Over(x)
    OBVIOUS
<1>5. ASSUME NEW y \in C, Above(y, x) PROVE FALSE
  <2>1. Over(y) \subseteq Over(x) /\ Over(y) # Over(x)
      BY <1>5, AboveOrder
  <2>2. <<Over(y), Over(x)>> \in StrictSubsetOrdering(Nodes)
      BY <2>1 DEF StrictSubsetOrdering
  <2> QED BY <1>3, <1>4, <2>2
<1> QED BY <1>5, AboveOrder

LEMMA TimeNumbers ==
    /\ MaxDelay \in Nat /\ MaxDelay <= 1 /\ MasterDown = 3 /\ MaxSeen = 4
    /\ TakeOver = MaxDelay + 4 /\ Settling = 2 * MaxDelay + 5
    /\ Window \in Nat /\ Window >= 3 /\ MaxAge = Window + 2
BY SMTT(60), BoundsAssumption DEF MasterDown, MaxSeen, TakeOver, Settling, MaxAge

\* Once the environment has settled, who contends no longer changes.
LEMMA Stable ==
    ASSUME TypeOK, settled, [Next]_vars
    PROVE  /\ settled' /\ conf' = conf /\ Running' = Running
           /\ Contenders' = Contenders
<1>1. ASSUME NEW n \in Nodes, step(n)
      PROVE  settled' /\ conf' = conf /\ Running' = Running /\ Contenders' = Contenders
  <2>1. settled' /\ conf' = conf /\ proc' = proc /\ yielding' = yielding
      BY <1>1 DEF step
  <2>2. CASE UNCHANGED <<held, active>>
      BY <2>1, <2>2 DEF Running, Contenders
  <2>3. CASE ~active[n] /\ acquireVIPs(n)
    <3>1. /\ held' = [held EXCEPT ![n] = VIPs]
          /\ active' = [active EXCEPT ![n] = VIPs \ held[n] # {}]
        BY <2>3 DEF acquireVIPs, Unless, TypeOK
    <3>2. VIPs \ held[n] # {} <=> held[n] # VIPs
        BY DEF TypeOK
    <3>3. ~yielding[n]
        BY <1>1 DEF step
    <3>4. \A m \in Nodes : m \in Contenders' <=> m \in Contenders
        BY <2>1, <2>3, <3>1, <3>2, <3>3 DEF Contenders, TypeOK
    <3> QED BY <2>1, <3>4 DEF Running, Contenders
  <2> QED BY <1>1, <2>2, <2>3 DEF step
<1>2. ASSUME NEW n \in Nodes, Yield(n)
      PROVE  settled' /\ conf' = conf /\ Running' = Running /\ Contenders' = Contenders
  <2>1. /\ settled' /\ conf' = conf /\ proc' = proc /\ active' = active
        /\ yielding' = [yielding EXCEPT ![n] = FALSE]
        /\ held' = [held EXCEPT ![n] = {}] /\ yielding[n]
      BY <1>2 DEF Yield, DeleteVIPs, Unless
  <2>2. \A m \in Nodes : m \in Contenders' <=> m \in Contenders
      BY <2>1, NodesAssumption DEF Contenders, TypeOK
  <2> QED BY <2>1, <2>2 DEF Running, Contenders
<1>3. ASSUME NEW n \in Nodes, Stop(n)
      PROVE  settled' /\ conf' = conf /\ Running' = Running /\ Contenders' = Contenders
  <2>1. /\ settled' /\ conf' = conf /\ proc' = [proc EXCEPT ![n] = "stopped"]
        /\ active' = [active EXCEPT ![n] = FALSE] /\ yielding' = yielding
        /\ proc[n] = "stopping"
      BY <1>3 DEF Stop
  <2>2. \A m \in Nodes \ {n} : held'[m] = held[m]
      BY <1>3 DEF Stop, DeleteVIPs, TypeOK
  <2>3. \A m \in Nodes : /\ m \in Contenders' <=> m \in Contenders
                         /\ m \in Running' <=> m \in Running
      BY <2>1, <2>2 DEF Contenders, Running, TypeOK
  <2> QED BY <2>1, <2>3 DEF Running, Contenders
<1>4. ASSUME NEW a \in adverts, Hear(a)
      PROVE  settled' /\ conf' = conf /\ Running' = Running /\ Contenders' = Contenders
  <2>1. a.to \in Nodes
      BY DEF TypeOK
  <2>2. settled' /\ conf' = conf /\ proc' = proc /\ held' = held /\ ~yielding[a.to]
      BY <1>4 DEF Hear
  <2>3. /\ yielding'[a.to] = (active[a.to] /\ ~active'[a.to])
        /\ active'[a.to] => active[a.to]
        /\ \A m \in Nodes : m # a.to => active'[m] = active[m] /\ yielding'[m] = yielding[m]
      BY <1>4, <2>1 DEF Hear, TypeOK
  <2>4. \A m \in Nodes : m \in Contenders' <=> m \in Contenders
      BY <2>1, <2>2, <2>3 DEF Contenders
  <2> QED BY <2>2, <2>4 DEF Running, Contenders
<1>5. ASSUME UNCHANGED <<conf, proc, active, held, yielding, settled>>
      PROVE  settled' /\ conf' = conf /\ Running' = Running /\ Contenders' = Contenders
    BY <1>5 DEF Running, Contenders
<1> QED BY <1>1, <1>2, <1>3, <1>4, <1>5
        DEF Next, Start, Cancel, Exit, Fault, Lose, Settle, Tick, vars, node

\* What an action does to the adverts under way in a settled network.
LEMMA AgingNext == TypeOK /\ Aging /\ [Next]_vars => Aging'
<1> SUFFICES ASSUME TypeOK, Aging, [Next]_vars PROVE Aging'
    OBVIOUS
<1> USE TimeNumbers
<1>1. CASE ~settled
  <2>1. calm' = 0 /\ conf' \in Settings
    <3>1. UNCHANGED <<conf, calm>>
        BY <1>1 DEF Next, step, Yield, Start, Cancel, Stop, Exit, Fault, Hear, Lose,
           Settle, Tick, vars
    <3> QED BY <1>1, <3>1 DEF Aging
  <2>2. CASE settled'
    <3>1. Settle
        BY <1>1, <2>2 DEF Next, step, Yield, Start, Cancel, Stop, Exit, Fault, Hear,
           Lose, Tick, vars
    <3>2. \A a \in adverts' : a.age >= 0
        BY SMTT(60), <3>1 DEF Settle, TypeOK
    <3> QED BY SMTT(60), <2>1, <2>2, <3>2 DEF Aging
  <2> QED BY <2>1, <2>2 DEF Aging
<1>2. CASE settled
  <2>1. settled' /\ conf' = conf /\ Contenders' = Contenders
      BY <1>2, Stable
  <2>2. ASSUME calm' = calm, UNCHANGED proc \/ \E n \in Nodes : Stop(n),
               \A a \in adverts' : a \in adverts \/ (a.from \in Contenders /\ a.age = 0)
        PROVE  Aging'
    <3>1. \A n \in Nodes : proc[n] # "stopping" => proc'[n] # "stopping"
        BY <2>2 DEF Stop, TypeOK
    <3> QED BY SMTT(60), <1>2, <2>1, <2>2, <3>1 DEF Aging
  <2>3. ASSUME NEW n \in Nodes, step(n) PROVE Aging'
    <3>1. calm' = calm /\ UNCHANGED proc
        BY <2>3 DEF step
    <3>2. CASE active'[n]
      <4>1. n \in Contenders'
          BY <2>3, <3>2 DEF step, Contenders
      <4>2. \A a \in adverts' : a \in adverts \/ (a.from = n /\ a.age = 0)
          BY SMTT(60), <2>3, <3>2 DEF step, sendAdvert
      <4> QED BY <2>1, <2>2, <3>1, <4>1, <4>2
    <3>3. CASE ~active'[n]
        BY <2>2, <2>3, <3>1, <3>3 DEF step
    <3> QED BY <3>2, <3>3
  <2>4. ASSUME NEW n \in Nodes, Yield(n) \/ Stop(n) PROVE Aging'
      BY <2>2, <2>4 DEF Yield, Stop
  <2>5. ASSUME NEW a \in adverts, Hear(a) \/ Lose(a) PROVE Aging'
    <3>1. adverts' = adverts \ {a} /\ UNCHANGED <<proc, calm>>
        BY <1>2, <2>5 DEF Hear, Lose, node
    <3> QED BY <2>2, <3>1
  <2>6. ASSUME Tick PROVE Aging'
    <3>1. /\ calm' = Least(calm + 1, Settling) /\ proc' = proc
          /\ adverts' = {[a EXCEPT !.age = Least(@ + 1, MaxAge)] : a \in adverts}
          /\ \A a \in adverts : a.age < MaxDelay
          /\ \A n \in Nodes : proc[n] # "stopping"
        BY <1>2, <2>6 DEF Tick
    <3>2. calm' \in Nat /\ calm' <= calm + 1
        BY SMTT(60), <3>1 DEF Least, TypeOK
    <3>3. ASSUME NEW b \in adverts'
          PROVE  b.age <= MaxDelay /\ (b.from \in Contenders \/ b.age >= calm')
      <4>1. PICK a \in adverts : b = [a EXCEPT !.age = Least(@ + 1, MaxAge)]
          BY <3>1, <3>3
      <4>2. a.age \in Nat /\ a.age < MaxDelay /\ b.from = a.from
          BY SMTT(60), <3>1, <4>1 DEF TypeOK
      <4>3. b.age = Least(a.age + 1, MaxAge)
          BY <4>1 DEF TypeOK
      <4>4. b.age = a.age + 1
          BY SMTT(60), <4>2, <4>3 DEF Least
      <4>5. a.from \in Contenders \/ a.age >= calm
          BY <1>2 DEF Aging
      <4>6. calm \in Nat
          BY SMTT(60) DEF TypeOK
      <4> QED BY SMTT(60), <3>2, <4>2, <4>4, <4>5, <4>6
    <3> QED BY <2>1, <3>1, <3>3 DEF Aging
  <2>7. ASSUME UNCHANGED vars PROVE Aging'
      BY <2>2, <2>7 DEF vars, node
  <2> QED BY <1>2, <2>3, <2>4, <2>5, <2>6, <2>7 DEF Next, Start, Cancel, Exit, Fault, Settle
<1> QED BY <1>1, <1>2

\* The leader obeys nobody any more, and is obeyed by every other contender.
LEMMA Obeying ==
    ASSUME TypeOK, Aging, Sound, calm > MaxDelay, NEW t \in Nodes, Leader(t),
           NEW a \in adverts
    PROVE  /\ a.to = t => ~peerOutranks(a.from, t)
           /\ a.from = t /\ a.to \in Contenders \ {t} => Fresh(a) /\ peerOutranks(t, a.to)
<1> USE TimeNumbers
<1>1. /\ a.from \in Nodes /\ a.to \in Nodes /\ a.age \in Nat /\ calm \in Nat
      /\ a.from \in Contenders /\ a.age <= MaxDelay
  <2>1. a.from \in Nodes /\ a.to \in Nodes /\ a.age \in Nat /\ calm \in Nat
      BY SMTT(60) DEF TypeOK
  <2>2. a.age <= MaxDelay /\ (a.from \in Contenders \/ a.age >= calm)
      BY SMTT(60), <2>1 DEF Aging, Sound
  <2> QED BY SMTT(60), <2>1, <2>2
<1>2. \A x \in Nodes : x \in Nat /\ conf.prio[x] \in Nat /\ conf.clock[x] \in Nat
  <2>1. conf.prio \in [Nodes -> Nat] /\ conf.clock \in [Nodes -> {0, 1}]
      BY SettingsAssumption DEF Aging
  <2> QED BY SMTT(60), <2>1, NodesAssumption
<1>3. t \in conf.known
    BY DEF Leader, Contenders, Running, Sound
<1>4. ASSUME a.to = t PROVE ~peerOutranks(a.from, t)
  <2>1. a.from # t => Above(t, a.from)
      BY <1>1 DEF Leader
  <2> QED BY SMTT(60), <1>1, <1>2, <1>3, <2>1 DEF Above, peerOutranks
<1>5. ASSUME a.from = t, a.to \in Contenders \ {t} PROVE Fresh(a) /\ peerOutranks(t, a.to)
  <2>1. peerOutranks(t, a.to)
      BY <1>5 DEF Leader, Above, peerOutranks
  <2>2. /\ conf.clock[a.to] + MaxDelay <= Window + conf.clock[t]
        /\ conf.clock[t] + MaxDelay <= Window + conf.clock[a.to]
      BY <1>1 DEF Sound, Synchronous
  <2>3. Fresh(a)
      BY SMTT(60), <1>1, <1>2, <1>5, <2>2 DEF Fresh
  <2> QED BY <2>1, <2>3
<1> QED BY <1>4, <1>5

\* Steps within an interval.
LEMMA TimeKept ==
    ASSUME TypeOK, Aging, Sound, calm > MaxDelay, NEW t \in Nodes, Leader(t),
           Waiting(t), Reaching(t), [Next]_vars, calm' = calm, ~Tick
    PROVE  Waiting(t)' /\ Reaching(t)'
<1> USE TimeNumbers
<1>0. settled /\ calm \in Nat /\ \A n \in Nodes : seen[n] \in Nat
    BY SMTT(60) DEF Sound, TypeOK
<1>1. Contenders' = Contenders
    BY <1>0, Stable
<1>2. ASSUME NEW n \in Nodes, step(n) PROVE Waiting(t)' /\ Reaching(t)'
  <2>1. /\ UNCHANGED <<proc, seen, yielding, settled, calm>> /\ ~stepped[n] /\ ~yielding[n]
        /\ stepped' = [stepped EXCEPT ![n] = TRUE]
        /\ \A m \in Nodes \ {n} : active'[m] = active[m]
        /\ adverts \subseteq adverts'
      BY <1>0, <1>2 DEF step, acquireVIPs, sendAdvert, TypeOK
  <2>2. active[n] => active'[n]
      BY <1>2 DEF step
  <2>3. ~active[n] /\ seen[n] < 3 => ~active'[n]
      BY SMTT(60), <1>0, <1>2 DEF step
  <2>4. n \in Contenders /\ seen[n] > 3 => active'[n]
    <3>1. SUFFICES ASSUME ~active[n], n \in Contenders, seen[n] > 3 PROVE active'[n]
        BY <2>2
    <3>2. acquireVIPs(n)
        BY SMTT(60), <1>0, <1>2, <3>1 DEF step
    <3>3. active' = [active EXCEPT ![n] = VIPs \ held[n] # {}]
        BY <1>0, <3>2 DEF acquireVIPs, Unless
    <3>4. held[n] \subseteq VIPs /\ held[n] # VIPs
        BY <2>1, <3>1 DEF Contenders, TypeOK
    <3> QED BY <3>3, <3>4 DEF TypeOK
  <2>5. Waiting(t)'
    <3>1. CASE n = t /\ ~active[t]
      <4>1. calm = TakeOver => active'[t]
          BY SMTT(60), <1>0, <2>4, <3>1 DEF Waiting, Leader
      <4> QED BY <1>0, <2>1, <3>1, <4>1 DEF Waiting, TypeOK
    <3>2. CASE n # t \/ active[t]
        BY <2>1, <2>2, <3>2 DEF Waiting, TypeOK
    <3> QED BY <3>1, <3>2
  <2>6. ASSUME NEW m \in Contenders \ {t}, NEW k \in 0..(MaxDelay + 1),
               TakeOver + k <= calm, k = 0 => stepped'[t]
        PROVE  Reached(t, m, k)'
    <3>1. m \in Nodes
        BY DEF Contenders
    <3>2. CASE Reached(t, m, k)
        BY SMTT(60), <1>0, <2>1, <2>3, <3>1, <3>2 DEF Reached
    <3>3. CASE ~Reached(t, m, k)
      <4>1. k = 0 /\ n = t
          BY <2>1, <2>6, <3>3 DEF Reaching, TypeOK
      <4>2. active'[t]
          BY SMTT(60), <1>0, <2>2, <2>4, <2>6, <4>1 DEF Waiting, Leader
      <4>3. [from |-> t, to |-> m, age |-> 0] \in adverts'
          BY <1>2, <3>1, <4>1, <4>2 DEF step, sendAdvert
      <4> QED BY <4>1, <4>3 DEF Reached
    <3> QED BY <3>2, <3>3
  <2> QED BY <1>1, <2>1, <2>5, <2>6 DEF Reaching
<1>3. ASSUME NEW n \in Nodes, Yield(n) \/ Stop(n) PROVE Waiting(t)' /\ Reaching(t)'
  <2>1. /\ UNCHANGED <<seen, stepped, adverts, settled, calm>>
        /\ \A m \in Nodes : (active'[m] => active[m]) /\ (yielding'[m] => yielding[m])
        /\ \A m \in Nodes : m \in Contenders => active'[m] = active[m]
      BY <1>3 DEF Yield, Stop, Contenders, TypeOK
  <2>2. Waiting(t)'
      BY <2>1 DEF Waiting, Leader
  <2>3. Reaching(t)'
      BY <1>1, <2>1 DEF Reaching, Reached, Contenders
  <2> QED BY <2>2, <2>3
<1>4. ASSUME NEW a \in adverts, Hear(a) PROVE Waiting(t)' /\ Reaching(t)'
  <2>1. a.to \in Nodes /\ a.from \in Nodes /\ adverts' = adverts \ {a} /\ UNCHANGED <<stepped, calm>>
      BY <1>0, <1>4 DEF Hear, TypeOK
  <2>2. /\ \A m \in Nodes : m # a.to => /\ active'[m] = active[m] /\ seen'[m] = seen[m]
                                     /\ yielding'[m] = yielding[m]
        /\ active'[a.to] => active[a.to]
        /\ seen'[a.to] \in {0, seen[a.to]}
      BY <1>4, <2>1 DEF Hear, TypeOK
  <2>3. Waiting(t)'
    <3>1. CASE a.to # t
        BY <2>1, <2>2, <3>1 DEF Waiting
    <3>2. CASE a.to = t
      <4>1. ~(Fresh(a) /\ peerOutranks(a.from, t))
          BY <3>2, Obeying
      <4>2. active'[t] = active[t] /\ seen'[t] = seen[t] /\ ~yielding'[t]
          BY <1>4, <3>2, <4>1 DEF Hear, TypeOK
      <4> QED BY <2>1, <4>2 DEF Waiting
    <3> QED BY <3>1, <3>2
  <2>4. ASSUME NEW m \in Contenders \ {t}, NEW k \in 0..(MaxDelay + 1), Reached(t, m, k)
        PROVE  Reached(t, m, k)'
    <3>1. m \in Nodes
        BY DEF Contenders
    <3>2. CASE ~active[m] /\ seen[m] <= k
        BY SMTT(60), <1>0, <2>2, <3>1, <3>2 DEF Reached
    <3>3. CASE a # [from |-> t, to |-> m, age |-> k] /\ [from |-> t, to |-> m, age |-> k] \in adverts
        BY <2>1, <3>3 DEF Reached
    <3>4. CASE a = [from |-> t, to |-> m, age |-> k]
      <4>1. a.to = m /\ Fresh(a) /\ peerOutranks(a.from, m)
          BY <3>4, Obeying
      <4>2. ~active'[m] /\ seen'[m] = 0
          BY <1>4, <3>1, <4>1 DEF Hear, TypeOK
      <4> QED BY SMTT(60), <4>2 DEF Reached
    <3> QED BY <2>4, <3>2, <3>3, <3>4 DEF Reached
  <2> QED BY <1>1, <2>1, <2>3, <2>4 DEF Reaching
<1>5. ASSUME NEW a \in adverts, Lose(a) PROVE Waiting(t)' /\ Reaching(t)'
  <2>1. adverts' = adverts \ {a} /\ a.to \notin Contenders /\ UNCHANGED <<node, calm>>
      BY <1>0, <1>5 DEF Lose, Contenders
  <2>2. Waiting(t)'
      BY <2>1 DEF Waiting, node
  <2>3. \A m \in Contenders, k \in 0..(MaxDelay + 1) : Reached(t, m, k) => Reached(t, m, k)'
      BY SMTT(60), <2>1 DEF Reached, node
  <2> QED BY <1>1, <2>1, <2>2, <2>3 DEF Reaching, node
<1>6. ASSUME UNCHANGED vars PROVE Waiting(t)' /\ Reaching(t)'
    BY <1>1, <1>6 DEF vars, node, Waiting, Reaching, Reached
<1> QED BY <1>0, <1>2, <1>3, <1>4, <1>5, <1>6 DEF Next, Start, Cancel, Exit, Fault, Settle

\* An interval passes.
LEMMA TimePasses ==
    ASSUME TypeOK, Aging, Sound, NEW t \in Nodes, Leader(t), Tick, calm' > MaxDelay,
           calm > MaxDelay => Waiting(t) /\ Reaching(t)
    PROVE  Waiting(t)' /\ Reaching(t)'
<1> USE TimeNumbers
<1>1. /\ settled /\ calm \in 0..Settling /\ calm' = Least(calm + 1, Settling)
      /\ proc[t] = "on"
    BY DEF Sound, TypeOK, Tick, Leader, Contenders
<1>2. /\ stepped[t] /\ ~stepped'[t] /\ ~yielding'[t]
      /\ UNCHANGED <<active, yielding>>
      /\ \A n \in Nodes : seen[n] \in 0..MaxSeen /\ seen'[n] = Least(seen[n] + 1, MaxSeen)
    BY <1>1 DEF Tick, TypeOK
<1>3. calm' \in 0..Settling /\ calm' <= calm + 1 /\ (calm' = calm + 1 \/ calm = Settling)
    BY SMTT(60), <1>1 DEF Least
<1>4. Contenders' = Contenders
    BY DEF Tick, Contenders
<1>5. Waiting(t)'
  <2>1. CASE active[t]
      BY <1>2, <2>1 DEF Waiting
  <2>2. CASE ~active[t]
    <3>1. calm > MaxDelay => calm < TakeOver /\ seen[t] + MaxDelay >= calm
        BY SMTT(60), <1>1, <1>2, <2>2 DEF Waiting
    <3>2. calm' = calm + 1 /\ calm' <= TakeOver
        BY SMTT(60), <1>1, <1>3, <3>1
    <3>3. seen'[t] + MaxDelay >= calm'
        BY SMTT(60), <1>1, <1>2, <3>1, <3>2 DEF Least
    <3> QED BY <1>2, <3>2, <3>3 DEF Waiting
  <2> QED BY <2>1, <2>2
<1>6. ASSUME NEW m \in Contenders \ {t}, NEW k \in 0..(MaxDelay + 1),
             TakeOver + k <= calm', k # 0
      PROVE  Reached(t, m, k)'
  <2>1. m \in Nodes /\ k - 1 \in 0..(MaxDelay + 1) /\ TakeOver + (k - 1) <= calm
      BY SMTT(60), <1>1, <1>3, <1>6 DEF Contenders
  <2>2. Reached(t, m, k - 1)
      BY SMTT(60), <1>1, <1>2, <2>1 DEF Reaching
  <2>3. CASE [from |-> t, to |-> m, age |-> k - 1] \in adverts
    <3> DEFINE a == [from |-> t, to |-> m, age |-> k - 1]
    <3>1. a.age < MaxDelay
        BY <1>1, <2>3 DEF Tick
    <3>2. Least(k, MaxAge) = k
        BY SMTT(60), <2>1, <3>1 DEF Least
    <3>3. [a EXCEPT !.age = Least(@ + 1, MaxAge)] = [from |-> t, to |-> m, age |-> k]
        BY SMTT(60), <3>2
    <3>4. [a EXCEPT !.age = Least(@ + 1, MaxAge)] \in adverts'
        BY <2>3 DEF Tick
    <3> QED BY <3>3, <3>4 DEF Reached
  <2>4. CASE ~active[m] /\ seen[m] <= k - 1
    <3>1. seen'[m] <= k
        BY SMTT(60), <1>2, <2>1, <2>4 DEF Least
    <3> QED BY <1>2, <2>4, <3>1 DEF Reached
  <2> QED BY <2>2, <2>3, <2>4 DEF Reached
<1> QED BY <1>2, <1>4, <1>5, <1>6 DEF Reaching

LEMMA TimeNext == TypeOK /\ TimeInv /\ [Next]_vars => TimeInv'
<1> SUFFICES ASSUME TypeOK, TimeInv, [Next]_vars PROVE TimeInv'
    OBVIOUS
<1>1. Aging /\ Aging'
    BY AgingNext DEF TimeInv
<1>2. ASSUME Sound', calm' > MaxDelay, NEW t \in Nodes, Leader(t)'
      PROVE  Waiting(t)' /\ Reaching(t)'
  <2>1. calm' \in Nat /\ calm \in Nat /\ MaxDelay \in Nat
      BY SMTT(60), TypeNext, TimeNumbers DEF TypeOK
  <2>2. settled
    <3>1. CASE ~settled
      <4>1. calm' = calm
          BY <3>1 DEF Next, step, Yield, Start, Cancel, Stop, Exit, Fault, Hear, Lose,
             Settle, Tick, vars
      <4>2. calm = 0
          BY <1>1, <3>1 DEF Aging
      <4> QED BY SMTT(60), <1>2, <2>1, <4>1, <4>2
    <3> QED BY <3>1
  <2>3. conf' = conf /\ Running' = Running /\ Contenders' = Contenders
      BY <2>2, Stable
  <2>4. Sound
      BY <1>2, <2>2, <2>3 DEF Sound, Synchronous
  <2>5. Leader(t)
      BY <1>2, <2>3 DEF Leader, Above
  <2>6. calm > MaxDelay => Waiting(t) /\ Reaching(t)
      BY <2>4, <2>5 DEF TimeInv
  <2>7. CASE Tick
      BY <1>1, <1>2, <2>4, <2>5, <2>6, <2>7, TimePasses
  <2>8. CASE ~Tick
    <3>1. calm' = calm
        BY <2>8 DEF Next, step, Yield, Start, Cancel, Stop, Exit, Fault, Hear, Lose,
           Settle, vars
    <3> QED BY <1>1, <1>2, <2>4, <2>5, <2>6, <2>8, <3>1, TimeKept
  <2> QED BY <2>7, <2>8
<1> QED BY <1>1, <1>2 DEF TimeInv

\* At the end of the calm the leader has been MASTER long enough for everybody
\* to have heard it.
LEMMA Agreed ==
    ASSUME TypeOK, YieldInv, TimeInv
    PROVE  OneMasterInTime
<1> SUFFICES ASSUME calm = Settling, Synchronous, Running \subseteq conf.known,
                    NEW n \in Nodes, Best(n), NEW m \in Nodes
             PROVE  active[m] <=> m = n
    BY DEF OneMasterInTime
<1> USE TimeNumbers
<1>1. settled /\ Sound /\ calm > MaxDelay
    BY SMTT(60) DEF TimeInv, Aging, Sound
<1>2. n \in Contenders
    BY DEF Best, Able, Running, Contenders
<1>3. PICK t \in Contenders : Leader(t)
  <2>1. Contenders \in SUBSET Nodes /\ conf \in Settings
      BY DEF Contenders, TimeInv, Aging
  <2> QED BY <1>2, <2>1, TopExists DEF Leader
<1>4. t \in Nodes /\ Waiting(t) /\ Reaching(t)
    BY <1>1, <1>3 DEF Contenders, TimeInv
<1>5. active[t]
    BY SMTT(60), <1>4 DEF Waiting
<1>6. t \in Able
    BY <1>3, <1>5 DEF Able, Running, Contenders
<1>7. t = n
  <2>1. t # n => Above(n, t) /\ Above(t, n)
      BY SMTT(60), <1>2, <1>3, <1>6 DEF Best, Leader
  <2> QED BY <1>4, <2>1, AboveOrder DEF TimeInv, Aging
<1>8. ASSUME active[m], m # t PROVE FALSE
  <2>1. proc[m] # "stopping"
      BY SMTT(60), <1>1 DEF TimeInv, Aging
  <2>2. m \in Contenders \ {t}
      BY <1>8, <2>1 DEF TypeOK, Contenders
  <2>3. Reached(t, m, MaxDelay + 1)
      BY SMTT(60), <1>4, <2>2 DEF Reaching
  <2>4. [from |-> t, to |-> m, age |-> MaxDelay + 1] \notin adverts
    <3>1. \A a \in adverts : a.age <= MaxDelay
        BY SMTT(60), <1>1 DEF TimeInv, Aging
    <3> QED BY SMTT(60), <3>1
  <2> QED BY <1>8, <2>3, <2>4 DEF Reached
<1> QED BY <1>5, <1>7, <1>8

\* Within Settling intervals after the last fault the best of the nodes is MASTER
\* and no other is, whatever happened before, however many nodes there are and
\* whichever adverts were still under way (OneMasterInTime, listenLoop and step).
THEOREM OneMasterAgreed == Spec => []OneMasterInTime
<1>1. Init => TimeInv
  <2> SUFFICES ASSUME Init PROVE TimeInv
      OBVIOUS
  <2>1. Aging
      BY DEF Init, Aging
  <2>2. ~Sound
      BY DEF Init, Sound
  <2> QED BY <2>1, <2>2 DEF TimeInv
<1>2. Spec => []TimeInv
    BY <1>1, TypeInit, TypeNext, TimeNext, PTL DEF Spec
<1> QED BY <1>2, IInvAlways, Agreed, PTL DEF IInv
=============================================================================
