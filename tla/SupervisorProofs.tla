-------------------------- MODULE SupervisorProofs --------------------------
(* What is proved of the kernel's leases and of the supervisor that swaps   *)
(* managers under them, for any callers, lease, configurations and bounds.  *)
EXTENDS Supervisor, TLAPS

USE ZenonT(20), SMTT(60)

-----------------------------------------------------------------------------
(* The inductive invariant of the leases.                                   *)

\* A caller is in such an operation.
Sets(c) == call[c] # Idle /\ call[c].act = "set"
Releases(c) == call[c] # Idle /\ call[c].act = "release"

\* No set overlaps a release, and no call overlaps a pass of the sweep.
ReleasesApart == "release" \notin crossed
SweepApart == crossed \subseteq {"swap"}

\* The crossings are noted as they begin; a lease that has still to be recorded
\* has room to end; what is to be recorded is an end.
Noted ==
    /\ Some("set", call) /\ Some("release", call) => "release" \in crossed
    /\ sweep # Rest /\ (\E c \in Callers : call[c] # Idle) => "sweep" \in crossed
    /\ \A c \in Callers : call[c] # Idle => now + Lease <= MaxTime
    /\ \A c \in Callers : Sets(c) /\ kind = "shun" => call[c].end > None
    /\ sweep # Rest => sweep.end > None
    /\ kind = "limit" => owed <= now + Lease

\* A release that has still to drop a lease finds nothing left to hold: it has
\* deleted the entry, or the manager came after it.
ReleasesLast ==
    ReleasesApart =>
        \A c \in Callers : Releases(c) /\ (call[c].at = "table" \/ call[c].m # manager) =>
            manager \notin kernel /\ owed = None

\* What was promised is in the table until it has ended, what is about to be
\* promised is in the kernel, and the sweep takes nothing else.
PromisesRecorded ==
    SweepApart =>
        /\ \A c \in Callers : Sets(c) /\ call[c].at = "table" /\ call[c].m = manager =>
              manager \in kernel
        /\ incoming = {} /\ sweep # Rest => owed <= now
        /\ incoming = {} => owed <= lease \/ owed <= now

LeaseInv == TypeOK /\ Noted /\ ReleasesLast /\ PromisesRecorded /\ NothingForgotten /\ HeldStays

-----------------------------------------------------------------------------
(* The inductive invariant of the supervisor.                               *)

\* A caller notifies one version, no later than the stored one, and the stored
\* one if it has its number.
NotesOlder ==
    \A w \in Notifiers : \A c \in note[w] :
        note[w] = {c} /\ c.n <= stored.n /\ (c.n = stored.n => c = stored)

\* Before Run has subscribed, only Run notifies.
BootFirst == ~subscribed => note["boot"] # {} /\ \A w \in Notifiers \ {"boot"} : note[w] = {}

\* What is stored was reconciled, or somebody has still to notify it; and what
\* is being reconciled is no older than what was.
StoredIsNoted ==
    astray = {} =>
        /\ ran = stored.n \/ \E w \in Notifiers : stored \in note[w]
        /\ rec # Free => ran <= rec.c.n

\* The manager follows the settings that were applied, except within a Swap.
ManagerFollows ==
    /\ (rec = Free \/ rec.at = "compare") =>
          \A x \in ebpfCfg : ebpfCfg = {x} /\ (manager # Nil <=> (capable /\ x # "off"))
    /\ rec # Free /\ rec.at = "apply" => manager = Nil
    /\ rec # Free /\ rec.at = "install" =>
          capable /\ rec.c.cfg.ebpf # "off" /\ ebpfCfg = {rec.c.cfg.ebpf}

\* What runs is what was reconciled last.
LastRuns ==
    /\ rec # Free => gitops = rec.c.cfg.git
    /\ rec = Free /\ subscribed /\ ran = stored.n =>
          gitops = stored.cfg.git /\ ebpfCfg = {stored.cfg.ebpf}

SupervisorInv == STypeOK /\ NotesOlder /\ BootFirst /\ StoredIsNoted /\ ManagerFollows /\ LastRuns

-----------------------------------------------------------------------------
(* The leases: the invariant is inductive.                                  *)

LEMMA LeaseBounds ==
    /\ Lease \in Nat /\ MaxTime \in Nat /\ MaxCalls \in Nat /\ MaxManagers \in Nat
    /\ MaxFailures \in Nat /\ 0 < Lease /\ Lease <= MaxTime
    /\ None = 0 /\ Nil = 0 /\ Forever = MaxTime + 1 /\ Ends = 0..(MaxTime + 1)
BY LeaseAssumption DEF None, Nil, Forever, Ends

LEMMA CallFacts ==
    ASSUME TypeOK, NEW c \in Callers
    PROVE  /\ call[c].at \in {"kernel", "table"} => call[c] # Idle
           /\ call[c] # Idle =>
                 /\ call[c].at \in {"kernel", "table"} /\ call[c].act \in {"set", "release"}
                 /\ call[c].m \in 1..managers /\ call[c].end \in Ends
BY SMTT(60) DEF TypeOK, Calls, Idle

LEMMA LeaseInit == Init => LeaseInv
<1> SUFFICES ASSUME Init PROVE LeaseInv
    OBVIOUS
<1> USE LeaseBounds DEF Init
<1>1. TypeOK
    BY SMTT(60) DEF TypeOK, Calls, Rest, Kinds
<1>2. Noted
    BY SMTT(60) DEF Noted, Some, Sets
<1>3. ReleasesLast /\ PromisesRecorded
    BY SMTT(60) DEF ReleasesLast, PromisesRecorded, Releases, Sets
<1>4. NothingForgotten /\ HeldStays
    BY DEF NothingForgotten, HeldStays
<1> QED BY <1>1, <1>2, <1>3, <1>4 DEF LeaseInv

\* A call begins: it is neither in the table nor bound to another manager.
LEMMA BeginKeeps ==
    ASSUME LeaseInv, NEW c \in Callers, NEW act \in {"set", "release"}, NEW end \in Ends,
           act = "set" /\ kind = "shun" => end > None, Begin(c, act, end)
    PROVE  LeaseInv'
<1> DEFINE o == [at |-> "kernel", act |-> act, m |-> manager, end |-> end]
<1> USE LeaseBounds DEF LeaseInv
<1>1. /\ UNCHANGED <<kind, manager, incoming, lease, kernel, sweep, now, managers, failures, owed>>
      /\ call[c] = Idle /\ now + Lease <= MaxTime /\ manager \in 1..managers
      /\ calls' \in 0..MaxCalls
    BY SMTT(60) DEF Begin, table, TypeOK
<1>2. /\ call' = [call EXCEPT ![c] = o] /\ o \in Calls /\ o # Idle
    BY <1>1 DEF Begin, Calls, Idle
<1>3. call'[c] = o /\ \A d \in Callers \ {c} : call'[d] = call[d]
    BY <1>2 DEF TypeOK
<1>4. /\ crossed \subseteq crossed' /\ crossed' \subseteq Crossings
      /\ Some("set", call') /\ Some("release", call') => "release" \in crossed'
      /\ sweep # Rest => "sweep" \in crossed'
    <2>1. \E d \in Callers : call'[d] # Idle
        BY <1>2, <1>3
    <2>2. NoteCrossings(call', sweep)
        BY DEF Begin
    <2> QED BY <2>1, <2>2 DEF NoteCrossings, Crossings, TypeOK
<1>5. TypeOK'
    <2>1. call' \in [Callers -> Calls] /\ Calls' = Calls
        BY <1>1, <1>2 DEF TypeOK, Calls
    <2> QED BY <1>1, <1>4, <2>1 DEF TypeOK, NewManager
<1>6. Noted'
    <2>1. \A d \in Callers : Sets(d)' /\ kind = "shun" => call'[d].end > None
        BY SMTT(60), <1>1, <1>3 DEF Noted, Sets
    <2>2. \A d \in Callers : call'[d] # Idle => now + Lease <= MaxTime
        BY <1>1
    <2> QED BY <1>1, <1>4, <2>1, <2>2 DEF Noted, Some
<1>7. ReleasesLast'
    BY SMTT(60), <1>1, <1>3, <1>4 DEF ReleasesLast, ReleasesApart, Releases
<1>8. PromisesRecorded'
    <2> SUFFICES ASSUME crossed' \subseteq {"swap"} PROVE PromisesRecorded'
        BY DEF PromisesRecorded, SweepApart
    <2>1. SweepApart
        BY <1>4 DEF SweepApart
    <2>2. \A d \in Callers : Sets(d)' /\ call'[d].at = "table" /\ call'[d].m = manager =>
              manager \in kernel
        BY SMTT(60), <2>1, <1>3 DEF PromisesRecorded, Sets
    <2> QED BY <2>1, <2>2, <1>1 DEF PromisesRecorded
<1>9. NothingForgotten'
    BY <1>1, <1>3, <1>4 DEF NothingForgotten, InHand
<1>10. HeldStays'
    BY <1>1, <1>4 DEF HeldStays
<1> QED BY <1>5, <1>6, <1>7, <1>8, <1>9, <1>10

LEMMA RefusedKeeps ==
    ASSUME LeaseInv, NEW c \in Callers, Refused(c)
    PROVE  LeaseInv'
<1> USE LeaseBounds DEF LeaseInv
<1>1. /\ UNCHANGED <<kind, manager, incoming, lease, kernel, sweep, now, calls, managers, owed, crossed>>
      /\ call[c].at = "kernel" /\ failures' \in 0..MaxFailures
    BY SMTT(60) DEF Refused, table, TypeOK
<1>2. call' = [call EXCEPT ![c] = Idle]
    BY DEF Refused
<1>3. call'[c] = Idle /\ \A d \in Callers \ {c} : call'[d] = call[d]
    BY <1>2 DEF TypeOK
<1>4. TypeOK'
    BY <1>1, <1>2 DEF TypeOK, NewManager, Calls
<1>5. Noted'
    BY <1>1, <1>3 DEF Noted, Some, Sets
<1>6. ReleasesLast' /\ PromisesRecorded'
    BY <1>1, <1>3 DEF ReleasesLast, ReleasesApart, Releases, PromisesRecorded, SweepApart, Sets
<1>7. NothingForgotten' /\ HeldStays'
    BY <1>1, <1>3 DEF NothingForgotten, InHand, HeldStays
<1> QED BY <1>4, <1>5, <1>6, <1>7

\* A set puts the entry there and has the table left; a release that no set
\* overlaps leaves nothing behind.
LEMMA InKernelKeeps ==
    ASSUME LeaseInv, NEW c \in Callers, InKernel(c)
    PROVE  LeaseInv'
<1> DEFINE o == call[c]
<1> USE LeaseBounds DEF LeaseInv
<1>1. /\ UNCHANGED <<kind, manager, incoming, lease, sweep, now, calls, managers, failures, crossed>>
      /\ o.at = "kernel"
    BY DEF InKernel, table, counts
<1>2. o # Idle /\ o.act \in {"set", "release"} /\ o.m \in 1..managers /\ o.end \in Ends
    BY <1>1, CallFacts
<1>3. /\ call' = [call EXCEPT ![c].at = "table"]
      /\ kernel' = IF o.act = "set" THEN kernel \cup {o.m} ELSE kernel \ {o.m}
      /\ owed' = IF o.act = "release" /\ o.m = manager THEN None ELSE owed
    BY DEF InKernel
<1>4. /\ call'[c].at = "table" /\ call'[c].act = o.act /\ call'[c].m = o.m
      /\ call'[c].end = o.end /\ call'[c] # Idle /\ call'[c] \in Calls
      /\ \A d \in Callers \ {c} : call'[d] = call[d]
    BY <1>2, <1>3 DEF TypeOK, Calls, Idle
<1>5. TypeOK'
    <2>1. call' \in [Callers -> Calls] /\ Calls' = Calls
        BY <1>1, <1>3, <1>4 DEF TypeOK, Calls
    <2>2. kernel' \subseteq 1..managers /\ owed' \in Ends
        BY SMTT(60), <1>2, <1>3 DEF TypeOK
    <2> QED BY <1>1, <2>1, <2>2 DEF TypeOK, NewManager
<1>6. \A d \in Callers : /\ call'[d] # Idle <=> call[d] # Idle
                         /\ call'[d].act = call[d].act /\ call'[d].m = call[d].m
                         /\ call'[d].end = call[d].end
    BY <1>2, <1>4
<1>7. Noted'
    <2>1. Some("set", call') = Some("set", call) /\ Some("release", call') = Some("release", call)
        BY <1>6 DEF Some
    <2>2. owed' <= owed
        BY SMTT(60), <1>3 DEF TypeOK
    <2>3. kind = "limit" => owed' <= now + Lease
        BY SMTT(60), <2>2, <1>5 DEF Noted, TypeOK
    <2> QED BY <1>1, <1>6, <2>1, <2>3 DEF Noted, Sets
<1>8. ReleasesLast'
    <2> SUFFICES ASSUME "release" \notin crossed, NEW d \in Callers, Releases(d)',
                        call'[d].at = "table" \/ call'[d].m # manager
                 PROVE  manager \notin kernel' /\ owed' = None
        BY <1>1 DEF ReleasesLast, ReleasesApart
    <2>1. o.act = "release"
        BY <1>1, <1>2, <1>6 DEF Noted, Some, Releases
    <2>2. CASE d = c
        BY <2>1, <2>2, <1>1, <1>2, <1>3, <1>4 DEF ReleasesLast, ReleasesApart, Releases
    <2>3. CASE d # c
        BY <2>1, <2>3, <1>1, <1>3, <1>4 DEF ReleasesLast, ReleasesApart, Releases
    <2> QED BY <2>2, <2>3
<1>9. PromisesRecorded'
    <2> SUFFICES ASSUME crossed \subseteq {"swap"} PROVE PromisesRecorded'
        BY <1>1 DEF PromisesRecorded, SweepApart
    <2>1. ASSUME NEW d \in Callers, Sets(d)', call'[d].at = "table", call'[d].m = manager
          PROVE  manager \in kernel'
        <3>1. o.act = "set"
            BY <2>1, <1>1, <1>2, <1>6 DEF Noted, Some, Sets
        <3>2. CASE d = c
            BY SMTT(60), <3>1, <3>2, <2>1, <1>3, <1>4
        <3>3. CASE d # c
            BY SMTT(60), <3>1, <3>3, <2>1, <1>3, <1>4 DEF PromisesRecorded, SweepApart, Sets
        <3> QED BY <3>2, <3>3
    <2>2. owed' <= owed /\ owed' \in Nat /\ owed \in Nat
        BY SMTT(60), <1>3 DEF TypeOK
    <2>3. incoming = {} /\ sweep # Rest => owed' <= now
        BY SMTT(60), <2>2 DEF PromisesRecorded, SweepApart, TypeOK
    <2>4. incoming = {} => owed' <= lease \/ owed' <= now
        BY SMTT(60), <2>2 DEF PromisesRecorded, SweepApart, TypeOK
    <2> QED BY <2>1, <2>3, <2>4, <1>1 DEF PromisesRecorded
<1>10. NothingForgotten'
    <2> SUFFICES ASSUME manager # Nil, incoming = {}, "release" \notin crossed, manager \in kernel',
                        lease = None
                 PROVE  InHand'
        BY <1>1 DEF NothingForgotten
    <2>1. CASE o.act = "set" /\ o.m = manager
        BY <2>1, <1>1, <1>4 DEF InHand
    <2>2. CASE ~(o.act = "set" /\ o.m = manager)
        <3>1. manager \in kernel /\ InHand
            BY <2>2, <1>3 DEF NothingForgotten
        <3> QED BY <3>1, <1>1, <1>4 DEF InHand
    <2> QED BY <2>1, <2>2
<1>11. HeldStays'
    BY SMTT(60), <1>1, <1>2, <1>3 DEF HeldStays, TypeOK
<1> QED BY <1>5, <1>7, <1>8, <1>9, <1>10, <1>11

\* A set records a lease that ends no earlier than what it promises; a release
\* drops the lease of an entry that is gone.
LEMMA InTableKeeps ==
    ASSUME LeaseInv, NEW c \in Callers, InTable(c)
    PROVE  LeaseInv'
<1> DEFINE o == call[c]
           end == IF kind = "limit" THEN now + Lease ELSE o.end
<1> USE LeaseBounds DEF LeaseInv
<1>1. /\ UNCHANGED <<kind, manager, incoming, kernel, sweep, now, calls, managers, failures>>
      /\ o.at = "table"
    BY DEF InTable, counts
<1>2. o # Idle /\ o.act \in {"set", "release"} /\ o.m \in 1..managers /\ o.end \in Ends
    BY <1>1, CallFacts
<1>3. /\ lease' = IF o.act = "set" THEN Recorded(end) ELSE None
      /\ owed' = IF o.act = "set" /\ o.m = manager /\ end > owed THEN end ELSE owed
      /\ call' = [call EXCEPT ![c] = Idle]
      /\ crossed' = IF o.m = manager THEN crossed ELSE crossed \cup {"swap"}
    BY DEF InTable
<1>4. call'[c] = Idle /\ \A d \in Callers \ {c} : call'[d] = call[d]
    BY <1>3 DEF TypeOK
<1>5. /\ now + Lease <= MaxTime /\ end \in Ends
      /\ o.act = "set" => end > None
      /\ lease \in Nat /\ owed \in Nat /\ now \in Nat /\ end \in Nat /\ kind \in {"shun", "limit"}
    <2>1. now + Lease <= MaxTime /\ (o.act = "set" /\ kind = "shun" => o.end > None)
        BY <1>2 DEF Noted, Sets
    <2> QED BY SMTT(60), <2>1, <1>2 DEF TypeOK, Kinds
<1>6. o.act = "set" => /\ lease' \in Ends /\ lease' >= end
                       /\ kind = "shun" => lease' >= lease
                       /\ kind = "limit" => lease' = now + Lease
    BY SMTT(60), <1>3, <1>5 DEF Recorded, hold, TypeOK
<1>7. crossed \subseteq crossed' /\ crossed' \subseteq Crossings
      /\ (SweepApart' => SweepApart) /\ (ReleasesApart' => ReleasesApart)
    BY <1>3 DEF Crossings, SweepApart, ReleasesApart, TypeOK
<1>8. TypeOK'
    <2>1. lease' \in Ends /\ owed' \in Ends
        BY SMTT(60), <1>3, <1>5, <1>6 DEF TypeOK
    <2> QED BY <1>1, <1>3, <1>7, <2>1 DEF TypeOK, NewManager, Calls
<1>9. Noted'
    <2>1. kind = "limit" => owed' <= now + Lease
        BY SMTT(60), <1>3, <1>5 DEF Noted
    <2>2. /\ Some("set", call') => Some("set", call)
          /\ Some("release", call') => Some("release", call)
        BY <1>4 DEF Some
    <2>3. \A d \in Callers : call'[d] # Idle => call'[d] = call[d]
        BY <1>4
    <2> QED BY <1>1, <1>7, <2>1, <2>2, <2>3 DEF Noted, Sets
<1>10. ReleasesLast'
    <2> SUFFICES ASSUME ReleasesApart', NEW d \in Callers, Releases(d)',
                        call'[d].at = "table" \/ call'[d].m # manager
                 PROVE  manager \notin kernel /\ owed' = None
        BY <1>1 DEF ReleasesLast
    <2>1. d # c /\ call'[d] = call[d] /\ Releases(d)
        BY <1>4 DEF Releases
    <2>2. o.act = "release"
        BY <2>1, <1>2, <1>7 DEF Noted, Some, Releases, ReleasesApart
    <2> QED BY <2>1, <2>2, <1>3, <1>7 DEF ReleasesLast
<1>11. PromisesRecorded'
    <2> SUFFICES ASSUME SweepApart' PROVE PromisesRecorded'
        BY DEF PromisesRecorded
    <2>1. \A d \in Callers : Sets(d)' /\ call'[d].at = "table" /\ call'[d].m = manager =>
              manager \in kernel
        BY <1>4, <1>7 DEF PromisesRecorded, Sets
    <2>2. sweep = Rest
        BY <1>2, <1>7 DEF Noted, SweepApart
    <2>3. ASSUME incoming = {} PROVE owed' <= lease' \/ owed' <= now
        <3>1. owed <= lease \/ owed <= now
            BY <2>3, <1>7 DEF PromisesRecorded
        <3>2. CASE o.act = "set"
            BY SMTT(60), <3>1, <3>2, <1>3, <1>5, <1>6 DEF Noted, TypeOK
        <3>3. CASE o.act = "release"
            <4>1. owed = None
                BY <3>3, <1>1, <1>2, <1>7 DEF ReleasesLast, Releases, SweepApart, ReleasesApart
            <4> QED BY SMTT(60), <3>3, <4>1, <1>3, <1>5
        <3> QED BY <3>2, <3>3, <1>2
    <2> QED BY <2>1, <2>2, <2>3, <1>1 DEF PromisesRecorded
<1>12. NothingForgotten'
    <2> SUFFICES ASSUME manager # Nil, incoming = {}, ReleasesApart', manager \in kernel,
                        lease' = None
                 PROVE  InHand'
        BY <1>1 DEF NothingForgotten, ReleasesApart
    <2>1. o.act = "release"
        BY SMTT(60), <1>2, <1>5, <1>6
    <2> QED BY <2>1, <1>1, <1>2, <1>7 DEF ReleasesLast, Releases
<1>13. HeldStays'
    <2> SUFFICES ASSUME manager # Nil, incoming = {}, SweepApart', owed' > now
                 PROVE  manager \in kernel
        BY <1>1 DEF HeldStays, SweepApart
    <2>1. CASE owed' = owed
        BY <2>1, <1>7 DEF HeldStays, SweepApart
    <2>2. CASE owed' # owed
        <3>1. Sets(c) /\ o.m = manager
            BY <2>2, <1>2, <1>3 DEF Sets
        <3> QED BY <3>1, <1>1, <1>7 DEF PromisesRecorded
    <2> QED BY <2>1, <2>2
<1> QED BY <1>8, <1>9, <1>10, <1>11, <1>12, <1>13

\* The sweep takes a lease that has ended.
LEMMA TakeKeeps ==
    ASSUME LeaseInv, Take
    PROVE  LeaseInv'
<1> USE LeaseBounds DEF LeaseInv
<1>1. /\ UNCHANGED <<kind, manager, incoming, kernel, call, now, calls, managers, failures, owed>>
      /\ sweep = Rest /\ manager # Nil /\ lease # None /\ lease # Forever /\ lease <= now
      /\ lease' = None
    BY DEF Take, counts
<1>2. sweep' = [m |-> manager, end |-> IF kind = "shun" THEN now ELSE lease]
    BY DEF Take
<1>3. /\ sweep'.m = manager /\ sweep'.end > None /\ sweep' \in [m : 0..managers, end : Ends]
    BY SMTT(60), <1>1, <1>2 DEF TypeOK
<1>4. /\ crossed \subseteq crossed' /\ crossed' \subseteq Crossings
      /\ Some("set", call) /\ Some("release", call) => "release" \in crossed'
      /\ sweep' # Rest /\ (\E c \in Callers : call[c] # Idle) => "sweep" \in crossed'
      /\ (SweepApart' => SweepApart) /\ (ReleasesApart' => ReleasesApart)
    <2>1. NoteCrossings(call, sweep')
        BY DEF Take
    <2> QED BY <2>1 DEF NoteCrossings, Crossings, SweepApart, ReleasesApart, TypeOK
<1>5. TypeOK'
    BY SMTT(60), <1>1, <1>3, <1>4 DEF TypeOK, NewManager, Calls
<1>6. Noted'
    BY <1>1, <1>3, <1>4 DEF Noted, Sets
<1>7. ReleasesLast'
    BY <1>1, <1>4 DEF ReleasesLast, Releases
<1>8. PromisesRecorded'
    <2> SUFFICES ASSUME SweepApart' PROVE PromisesRecorded'
        BY DEF PromisesRecorded
    <2>1. incoming = {} => owed <= now
        BY SMTT(60), <1>1, <1>4 DEF PromisesRecorded, TypeOK
    <2> QED BY <2>1, <1>1, <1>4 DEF PromisesRecorded, Sets
<1>9. NothingForgotten' /\ HeldStays'
    BY <1>1, <1>3, <1>4 DEF NothingForgotten, InHand, HeldStays, SweepApart
<1> QED BY <1>5, <1>6, <1>7, <1>8, <1>9

\* And lifts the entry, unless the kernel refuses; the lease it then records
\* again has ended.
LEMMA LiftKeeps ==
    ASSUME LeaseInv, Lift
    PROVE  LeaseInv'
<1> USE LeaseBounds DEF LeaseInv
<1>1. /\ UNCHANGED <<kind, manager, incoming, lease, call, now, calls, managers, failures, owed, crossed>>
      /\ sweep # Rest /\ sweep' = Rest /\ kernel' = kernel \ {sweep.m}
    BY DEF Lift, table, counts
<1>2. TypeOK'
    <2>1. kernel' \subseteq 1..managers
        BY <1>1 DEF TypeOK
    <2>2. Rest \in [m : 0..managers, end : Ends]
        BY SMTT(60) DEF TypeOK, Rest
    <2> QED BY <1>1, <2>1, <2>2 DEF TypeOK, NewManager, Calls
<1>3. Noted'
    BY <1>1 DEF Noted, Sets
<1>4. ReleasesLast'
    BY <1>1 DEF ReleasesLast, ReleasesApart, Releases
<1>5. PromisesRecorded'
    <2> SUFFICES ASSUME SweepApart PROVE PromisesRecorded'
        BY <1>1 DEF PromisesRecorded, SweepApart
    <2>1. \A c \in Callers : call[c] = Idle
        BY <1>1 DEF Noted, SweepApart
    <2> QED BY <2>1, <1>1 DEF PromisesRecorded, Sets
<1>6. NothingForgotten'
    BY <1>1 DEF NothingForgotten, InHand
<1>7. HeldStays'
    <2> SUFFICES ASSUME manager # Nil, incoming = {}, SweepApart, owed > now PROVE FALSE
        BY <1>1 DEF HeldStays, SweepApart
    <2> QED BY SMTT(60), <1>1 DEF PromisesRecorded, TypeOK
<1> QED BY <1>2, <1>3, <1>4, <1>5, <1>6, <1>7

LEMMA LiftFailsKeeps ==
    ASSUME LeaseInv, LiftFails
    PROVE  LeaseInv'
<1> USE LeaseBounds DEF LeaseInv
<1>1. /\ UNCHANGED <<kind, manager, incoming, kernel, call, now, calls, managers, owed, crossed>>
      /\ sweep # Rest /\ sweep' = Rest /\ failures' \in 0..MaxFailures
    BY SMTT(60) DEF LiftFails, TypeOK
<1>2. lease' \in Ends /\ lease' > None
    BY SMTT(60), <1>1 DEF LiftFails, Recorded, hold, Noted, TypeOK
<1>3. TypeOK'
    BY SMTT(60), <1>1, <1>2 DEF TypeOK, NewManager, Calls, Rest
<1>4. Noted'
    BY <1>1 DEF Noted, Sets
<1>5. ReleasesLast'
    BY <1>1 DEF ReleasesLast, ReleasesApart, Releases
<1>6. PromisesRecorded'
    BY <1>1 DEF PromisesRecorded, SweepApart, Sets
<1>7. NothingForgotten' /\ HeldStays'
    BY SMTT(60), <1>1, <1>2 DEF NothingForgotten, HeldStays
<1> QED BY <1>3, <1>4, <1>5, <1>6, <1>7

LEMMA SwapKeeps ==
    ASSUME LeaseInv, NEW m \in {Nil} \cup {n \in {NewManager} : n <= MaxManagers}, Swap(m)
    PROVE  LeaseInv'
<1> USE LeaseBounds DEF LeaseInv
<1>1. /\ UNCHANGED <<kind, manager, kernel, call, sweep, now, calls, managers, failures, owed, crossed>>
      /\ incoming' = {m} /\ lease' = None
    BY DEF Swap, counts
<1>2. TypeOK'
    BY SMTT(60), <1>1 DEF TypeOK, NewManager, Calls
<1>3. Noted' /\ ReleasesLast'
    BY <1>1 DEF Noted, Sets, ReleasesLast, ReleasesApart, Releases
<1>4. PromisesRecorded' /\ NothingForgotten' /\ HeldStays'
    BY <1>1 DEF PromisesRecorded, SweepApart, Sets, NothingForgotten, HeldStays
<1> QED BY <1>2, <1>3, <1>4

\* The maps of the manager that is installed are empty, and no call is bound
\* to it.
LEMMA InstallKeeps ==
    ASSUME LeaseInv, NEW m \in {Nil} \cup {n \in {NewManager} : n <= MaxManagers}, Install(m)
    PROVE  LeaseInv'
<1> USE LeaseBounds DEF LeaseInv
<1>1. /\ UNCHANGED <<kind, lease, kernel, call, sweep, now, calls, failures, crossed>>
      /\ incoming' = {} /\ manager' = m /\ owed' = None
      /\ managers' = IF m = Nil THEN managers ELSE m
    BY DEF Install
<1>2. managers' \in 0..MaxManagers /\ m \in 0..managers' /\ managers <= managers'
    BY SMTT(60), <1>1 DEF NewManager, TypeOK
<1>3. m \notin kernel /\ m \notin 1..managers
    BY SMTT(60) DEF NewManager, TypeOK
<1>4. TypeOK'
    <2>1. call' \in [Callers -> Calls']
        BY SMTT(60), <1>1, <1>2 DEF TypeOK, Calls
    <2>2. kernel' \subseteq 1..managers' /\ sweep' \in [m : 0..managers', end : Ends]
        BY SMTT(60), <1>1, <1>2 DEF TypeOK
    <2> QED BY SMTT(60), <1>1, <1>2, <2>1, <2>2 DEF TypeOK
<1>5. Noted'
    BY SMTT(60), <1>1 DEF Noted, Sets, TypeOK
<1>6. ReleasesLast'
    BY <1>1, <1>3 DEF ReleasesLast
<1>7. PromisesRecorded'
    <2>1. \A c \in Callers : Sets(c) => call[c].m # m
        BY <1>3, CallFacts DEF Sets
    <2> QED BY SMTT(60), <2>1, <1>1 DEF PromisesRecorded, SweepApart, Sets, TypeOK
<1>8. NothingForgotten' /\ HeldStays'
    BY SMTT(60), <1>1, <1>3 DEF NothingForgotten, HeldStays, TypeOK
<1> QED BY <1>4, <1>5, <1>6, <1>7, <1>8

LEMMA TickKeeps ==
    ASSUME LeaseInv, Tick
    PROVE  LeaseInv'
<1> USE LeaseBounds DEF LeaseInv
<1>1. /\ UNCHANGED <<kind, manager, incoming, lease, kernel, call, sweep, calls, managers, failures, owed, crossed>>
      /\ now' = now + 1 /\ now' \in 0..MaxTime
      /\ now' + Lease <= MaxTime \/ \A c \in Callers : call[c] = Idle
    BY SMTT(60) DEF Tick, table, counts, TypeOK
<1>2. TypeOK'
    BY <1>1 DEF TypeOK, NewManager, Calls
<1>3. Noted'
    BY SMTT(60), <1>1 DEF Noted, Sets, TypeOK
<1>4. ReleasesLast'
    BY <1>1 DEF ReleasesLast, ReleasesApart, Releases
<1>5. PromisesRecorded'
    BY SMTT(60), <1>1 DEF PromisesRecorded, SweepApart, Sets, TypeOK
<1>6. NothingForgotten' /\ HeldStays'
    BY SMTT(60), <1>1 DEF NothingForgotten, InHand, HeldStays, TypeOK
<1> QED BY <1>2, <1>3, <1>4, <1>5, <1>6

LEMMA LeaseNext == LeaseInv /\ [Next]_vars => LeaseInv'
<1> SUFFICES ASSUME LeaseInv, [Next]_vars PROVE LeaseInv'
    OBVIOUS
<1>1. ASSUME NEW c \in Callers, shun(c) PROVE LeaseInv'
    <2>1. PICK end \in {now + Lease, Forever} : Begin(c, "set", end)
        BY <1>1 DEF shun
    <2>2. end \in Ends /\ end > None
        BY SMTT(60), <2>1, LeaseBounds DEF Begin, LeaseInv, TypeOK
    <2> QED BY <2>1, <2>2, BeginKeeps
<1>2. ASSUME NEW c \in Callers, SetAdaptiveRateLimitFor(c) \/ Release(c) PROVE LeaseInv'
    <2>1. None \in Ends
        BY SMTT(60), LeaseBounds
    <2> QED BY <1>2, <2>1, BeginKeeps DEF SetAdaptiveRateLimitFor, Release
<1>3. CASE UNCHANGED vars
    <2>1. UNCHANGED <<kind, manager, incoming, lease, kernel, call, sweep, now, calls, managers, failures, owed, crossed>>
        BY <1>3 DEF vars, table, counts
    <2>2. TypeOK' /\ Noted'
        BY <2>1 DEF LeaseInv, TypeOK, NewManager, Calls, Noted, Some, Sets
    <2>3. ReleasesLast' /\ PromisesRecorded'
        BY <2>1 DEF LeaseInv, ReleasesLast, ReleasesApart, Releases, PromisesRecorded, SweepApart, Sets
    <2>4. NothingForgotten' /\ HeldStays'
        BY <2>1 DEF LeaseInv, NothingForgotten, InHand, HeldStays
    <2> QED BY <2>2, <2>3, <2>4 DEF LeaseInv
<1> QED
    BY <1>1, <1>2, <1>3, RefusedKeeps, InKernelKeeps, InTableKeeps, TakeKeeps, LiftKeeps,
       LiftFailsKeeps, TickKeeps, SwapKeeps, InstallKeeps
    DEF Next, HolderNext, HolderProgress

-----------------------------------------------------------------------------
(* The supervisor implements whoever swaps managers in KernelLeases.        *)

LEMMA SwapsAsAllowed == LeaseInv /\ [SNext]_svars => [Next]_vars
<1> SUFFICES ASSUME LeaseInv, [SNext]_svars PROVE [Next]_vars
    OBVIOUS
<1> DEFINE Allowed == {Nil} \cup {n \in {NewManager} : n <= MaxManagers}
<1>1. ASSUME UNCHANGED vars PROVE [Next]_vars
    BY <1>1
<1>2. ASSUME NEW m \in Allowed, Swap(m) \/ Install(m) PROVE [Next]_vars
    BY <1>2 DEF Next
<1>3. ASSUME NEW w \in Operators, OperatorUpdates(w) PROVE [Next]_vars
    BY <1>1, <1>3 DEF OperatorUpdates
<1>4. CASE Sync \/ Clone \/ Compare \/ Resolve
    BY <1>1, <1>4 DEF Sync, Clone, Compare, Resolve
<1>5. ASSUME NEW w \in Notifiers, Reconcile(w) PROVE [Next]_vars
    BY <1>1, <1>5 DEF Reconcile
<1>6. CASE reconcileEbpf
    <2>1. UNCHANGED vars \/ Swap(Nil)
        BY <1>6 DEF reconcileEbpf
    <2> QED BY <2>1, <1>1, <1>2
<1>7. CASE Teardown
    BY <1>2, <1>7 DEF Teardown
<1>8. CASE Apply
    <2>1. UNCHANGED vars \/ (managers < MaxManagers /\ Swap(NewManager))
        BY <1>8 DEF Apply
    <2>2. managers < MaxManagers => NewManager \in Allowed
        BY SMTT(60), LeaseBounds DEF NewManager, LeaseInv, TypeOK
    <2> QED BY <2>1, <2>2, <1>1, <1>2
<1>9. CASE Enable
    <2>1. Install(NewManager)
        BY <1>9 DEF Enable
    <2>2. NewManager \in Allowed
        BY SMTT(60), <2>1, LeaseBounds DEF Install, LeaseInv, TypeOK
    <2> QED BY <2>1, <2>2, <1>2
<1>10. CASE Holder
    BY <1>10 DEF Holder, Next
<1>11. CASE UNCHANGED svars
    BY <1>1, <1>11 DEF svars
<1> QED
    BY <1>3, <1>4, <1>5, <1>6, <1>7, <1>8, <1>9, <1>10, <1>11 DEF SNext

LEMMA LeaseAlways == Spec => []LeaseInv
BY LeaseInit, LeaseNext, PTL DEF Spec

LEMMA SLeaseAlways == SSpec => []LeaseInv
<1>1. SInit => LeaseInv
    BY LeaseInit DEF SInit
<1>2. LeaseInv /\ [SNext]_svars => LeaseInv'
    BY SwapsAsAllowed, LeaseNext
<1> QED BY <1>1, <1>2, PTL DEF SSpec

-----------------------------------------------------------------------------
(* The supervisor: the invariant is inductive.                              *)

LEMMA VersionFacts ==
    ASSUME NEW v \in Versions
    PROVE  v.n \in Nat /\ v.cfg.git \in BOOLEAN
BY SMTT(60), ConfigsAssumption DEF Versions

LEMMA SupervisorInit == SInit => SupervisorInv
<1> SUFFICES ASSUME SInit PROVE SupervisorInv
    OBVIOUS
<1>1. TypeOK
    BY LeaseInit DEF SInit, LeaseInv
<1>2. stored \in Versions /\ stored.n = 0 /\ "boot" \in Notifiers
    BY SMTT(60), ConfigsAssumption DEF SInit, Versions, Notifiers
<1>3. STypeOK
    <2>1. note \in [Notifiers -> SUBSET Versions]
        BY <1>2 DEF SInit
    <2>2. capable \in BOOLEAN /\ subscribed \in BOOLEAN /\ gitops \in BOOLEAN
        BY Zenon DEF SInit
    <2>3. /\ updates = stored.n /\ ran \in 0..updates /\ rec = Free /\ sync = "no"
          /\ astray = {}
        BY SMTT(60), <1>2 DEF SInit
    <2> QED BY <1>1, <1>2, <2>1, <2>2, <2>3 DEF STypeOK
<1>4. NotesOlder /\ BootFirst
    BY SMTT(60), <1>2 DEF SInit, NotesOlder, BootFirst
<1>5. StoredIsNoted /\ ManagerFollows /\ LastRuns
    BY <1>2 DEF SInit, StoredIsNoted, ManagerFollows, LastRuns
<1> QED BY <1>3, <1>4, <1>5 DEF SupervisorInv

\* What is stored is newer than every note.
LEMMA UpdateKeeps ==
    ASSUME SupervisorInv, TypeOK', NEW w \in Writers, NEW c \in Configs, Update(w, c),
           UNCHANGED <<capable, super, vars>>, sync' \in {"no", "cloning", "read", "differs"}
    PROVE  SupervisorInv'
<1> USE DEF SupervisorInv
<1>1. /\ UNCHANGED <<capable, subscribed, rec, ran, ebpfCfg, gitops, manager>>
      /\ note[w] = {} /\ w \in Notifiers /\ MaxUpdates \in Nat
    BY ConfigsAssumption DEF super, vars, table, Update, Notifiers
<1>2. /\ updates' = updates + 1 /\ stored' = [cfg |-> c, n |-> updates + 1]
      /\ stored' \in Versions /\ stored'.n = updates' /\ stored'.n = stored.n + 1
      /\ ran \in 0..updates' /\ ran # stored'.n /\ stored.n \in Nat
    BY SMTT(60), <1>1 DEF Update, STypeOK, Versions
<1>3. /\ note' = [note EXCEPT ![w] = IF subscribed THEN {stored'} ELSE {}]
      /\ astray' = IF subscribed THEN astray ELSE astray \cup {"missed"}
    BY DEF Update
<1>4. /\ note'[w] = IF subscribed THEN {stored'} ELSE {}
      /\ \A v \in Notifiers \ {w} : note'[v] = note[v]
    BY <1>1, <1>3 DEF STypeOK
<1>5. STypeOK'
    <2>1. note' \in [Notifiers -> SUBSET Versions]
        BY <1>2, <1>3 DEF STypeOK
    <2>2. rec # Free => rec.by \in Notifiers \ {w} /\ note'[rec.by] = {rec.c}
        BY <1>1, <1>4 DEF STypeOK
    <2>3. astray' \subseteq {"missed", "overtaken"}
        BY <1>3 DEF STypeOK
    <2> QED BY <1>1, <1>2, <2>1, <2>2, <2>3 DEF STypeOK
<1>6. NotesOlder'
    <2> SUFFICES ASSUME NEW v \in Notifiers, NEW x \in note'[v]
                 PROVE  note'[v] = {x} /\ x.n <= stored'.n /\ (x.n = stored'.n => x = stored')
        BY DEF NotesOlder
    <2>1. CASE v = w
        BY SMTT(60), <2>1, <1>2, <1>4
    <2>2. CASE v # w
        <3>1. x \in Versions /\ note'[v] = {x} /\ x.n <= stored.n
            BY <2>2, <1>4 DEF NotesOlder, STypeOK
        <3> QED BY SMTT(60), <3>1, <1>2, VersionFacts
    <2> QED BY <2>1, <2>2
<1>7. BootFirst'
    <2>1. "boot" \in Notifiers
        BY DEF Notifiers
    <2> QED BY <2>1, <1>1, <1>4 DEF BootFirst
<1>8. StoredIsNoted'
    BY <1>1, <1>3, <1>4 DEF StoredIsNoted, STypeOK
<1>9. ManagerFollows' /\ LastRuns'
    BY SMTT(60), <1>1, <1>2 DEF ManagerFollows, LastRuns
<1> QED BY <1>5, <1>6, <1>7, <1>8, <1>9

\* Steps of the GitOps loop and of the Holder, which leave the manager alone.
LEMMA OthersKeep ==
    ASSUME SupervisorInv, TypeOK', UNCHANGED <<capable, registry, super, astray, manager>>,
           sync' \in {"no", "cloning", "read", "differs"}
    PROVE  SupervisorInv'
<1>1. UNCHANGED <<capable, stored, updates, note, subscribed, rec, ran, ebpfCfg, gitops, astray, manager>>
    BY DEF registry, super
<1>2. STypeOK'
    BY <1>1 DEF SupervisorInv, STypeOK
<1>3. NotesOlder' /\ BootFirst' /\ StoredIsNoted'
    BY <1>1 DEF SupervisorInv, NotesOlder, BootFirst, StoredIsNoted
<1>4. ManagerFollows' /\ LastRuns'
    BY SMTT(60), <1>1 DEF SupervisorInv, ManagerFollows, LastRuns
<1> QED BY <1>2, <1>3, <1>4 DEF SupervisorInv

LEMMA ReconcileKeeps ==
    ASSUME SupervisorInv, TypeOK', NEW w \in Notifiers, Reconcile(w)
    PROVE  SupervisorInv'
<1> USE DEF SupervisorInv
<1>1. PICK c \in note[w] :
        /\ rec = Free /\ rec' = [at |-> "compare", by |-> w, c |-> c]
        /\ gitops' = c.cfg.git
        /\ astray' = IF c.n < ran THEN astray \cup {"overtaken"} ELSE astray
        /\ UNCHANGED <<capable, stored, updates, note, subscribed, ran, ebpfCfg, sync, manager>>
    BY DEF Reconcile, registry, vars, table
<1>2. c \in Versions /\ c.n \in Nat /\ c.cfg.git \in BOOLEAN /\ ran \in Nat
    BY SMTT(60), VersionFacts DEF STypeOK
<1>3. rec' # Free /\ rec'.at = "compare" /\ rec'.c = c /\ rec'.by = w
    BY <1>1 DEF Free
<1>4. STypeOK'
    <2>1. note[w] = {c}
        BY DEF NotesOlder
    <2>2. rec' \in [at : {"compare", "teardown", "apply", "install"}, by : Notifiers, c : Versions]
        BY <1>1, <1>2
    <2>3. astray' \subseteq {"missed", "overtaken"}
        BY <1>1 DEF STypeOK
    <2> QED BY <1>1, <1>2, <1>3, <2>1, <2>2, <2>3 DEF STypeOK
<1>5. NotesOlder' /\ BootFirst'
    BY <1>1 DEF NotesOlder, BootFirst
<1>6. StoredIsNoted'
    BY SMTT(60), <1>1, <1>2, <1>3 DEF StoredIsNoted, STypeOK
<1>7. ManagerFollows' /\ LastRuns'
    BY <1>1, <1>3 DEF ManagerFollows, LastRuns
<1> QED BY <1>4, <1>5, <1>6, <1>7

\* A reconcile goes on.
LEMMA MoveKeeps ==
    ASSUME SupervisorInv, TypeOK', rec # Free, NEW at \in {"teardown", "apply", "install"},
           rec' = [rec EXCEPT !.at = at],
           UNCHANGED <<capable, registry, subscribed, ran, gitops, sync, astray>>,
           at = "apply" => manager' = Nil,
           at = "install" => capable /\ rec.c.cfg.ebpf # "off" /\ ebpfCfg' = {rec.c.cfg.ebpf}
    PROVE  SupervisorInv'
<1> USE DEF SupervisorInv
<1>1. UNCHANGED <<capable, stored, updates, note, subscribed, ran, gitops, sync, astray>>
    BY DEF registry
<1>2. rec \in [at : {"compare", "teardown", "apply", "install"}, by : Notifiers, c : Versions]
    BY DEF STypeOK
<1>3. /\ rec' \in [at : {"compare", "teardown", "apply", "install"}, by : Notifiers, c : Versions]
      /\ rec'.at = at /\ rec'.by = rec.by /\ rec'.c = rec.c /\ rec' # Free
    BY <1>2 DEF Free
<1>4. STypeOK'
    BY <1>1, <1>3 DEF STypeOK
<1>5. NotesOlder' /\ BootFirst' /\ StoredIsNoted'
    BY SMTT(60), <1>1, <1>3 DEF NotesOlder, BootFirst, StoredIsNoted
<1>6. ManagerFollows'
    BY SMTT(60), <1>1, <1>3 DEF ManagerFollows
<1>7. LastRuns'
    BY <1>1, <1>3 DEF LastRuns
<1> QED BY <1>4, <1>5, <1>6, <1>7

\* A reconcile ends with its configuration applied.
LEMMA DoneKeeps ==
    ASSUME SupervisorInv, TypeOK', rec # Free, Done,
           UNCHANGED <<capable, stored, updates, gitops, sync, astray>>,
           ebpfCfg' = {rec.c.cfg.ebpf}, manager' # Nil <=> (capable /\ rec.c.cfg.ebpf # "off")
    PROVE  SupervisorInv'
<1> USE DEF SupervisorInv
<1>1. /\ rec.by \in Notifiers /\ rec.c \in Versions /\ note[rec.by] = {rec.c}
      /\ rec.c.n \in Nat /\ stored.n \in Nat /\ ran \in Nat
      /\ rec.c.n <= stored.n /\ (rec.c.n = stored.n => rec.c = stored)
    BY SMTT(60), VersionFacts DEF STypeOK, NotesOlder
<1>2. /\ note' = [note EXCEPT ![rec.by] = {}] /\ ran' = rec.c.n /\ rec' = Free
      /\ subscribed' = (subscribed \/ rec.by = "boot")
    BY DEF Done
<1>3. note'[rec.by] = {} /\ \A w \in Notifiers \ {rec.by} : note'[w] = note[w]
    BY <1>1, <1>2 DEF STypeOK
<1>4. STypeOK'
    <2>1. note' \in [Notifiers -> SUBSET Versions] /\ ran' \in 0..updates
        BY SMTT(60), <1>1, <1>2 DEF STypeOK
    <2>2. subscribed' \in BOOLEAN
        BY <1>2
    <2> QED BY <1>2, <2>1, <2>2 DEF STypeOK
<1>5. NotesOlder'
    BY <1>3 DEF NotesOlder
<1>6. BootFirst'
    BY <1>1, <1>2, <1>3 DEF BootFirst
<1>7. StoredIsNoted'
    <2> SUFFICES ASSUME astray = {}, ran' # stored.n
                 PROVE  \E w \in Notifiers : stored \in note'[w]
        BY <1>2 DEF StoredIsNoted
    <2>1. ran # stored.n /\ stored # rec.c
        BY SMTT(60), <1>1, <1>2 DEF StoredIsNoted
    <2>2. PICK w \in Notifiers : stored \in note[w]
        BY <2>1 DEF StoredIsNoted
    <2> QED BY <2>1, <2>2, <1>1, <1>3
<1>8. ManagerFollows'
    BY <1>2 DEF ManagerFollows
<1>9. LastRuns'
    BY <1>1, <1>2 DEF LastRuns
<1> QED BY <1>4, <1>5, <1>6, <1>7, <1>8, <1>9

LEMMA HolderKeepsManager == HolderNext => manager' = manager
<1> SUFFICES ASSUME HolderNext PROVE manager' = manager
    OBVIOUS
<1>1. ASSUME NEW c \in Callers, shun(c) \/ SetAdaptiveRateLimitFor(c) \/ Release(c)
      PROVE  manager' = manager
    BY <1>1 DEF shun, SetAdaptiveRateLimitFor, Release, Begin, table
<1>2. ASSUME NEW c \in Callers, Refused(c) \/ InKernel(c) \/ InTable(c)
      PROVE  manager' = manager
    BY <1>2 DEF Refused, InKernel, InTable, table
<1>3. CASE LiftFails \/ Take \/ Lift \/ Tick
    BY <1>3 DEF LiftFails, Take, Lift, Tick, table
<1> QED BY <1>1, <1>2, <1>3 DEF HolderNext, HolderProgress

LEMMA SupervisorNext == SupervisorInv /\ LeaseInv /\ [SNext]_svars => SupervisorInv'
<1> SUFFICES ASSUME SupervisorInv, LeaseInv, [SNext]_svars PROVE SupervisorInv'
    OBVIOUS
<1>0. TypeOK'
    BY SwapsAsAllowed, LeaseNext DEF LeaseInv
<1>1. ASSUME NEW w \in Operators, OperatorUpdates(w) PROVE SupervisorInv'
    <2>1. w \in Writers /\ sync' \in {"no", "cloning", "read", "differs"}
        BY <1>1 DEF Writers, OperatorUpdates, SupervisorInv, STypeOK
    <2> QED BY <1>0, <1>1, <2>1, UpdateKeeps DEF OperatorUpdates
<1>2. CASE Resolve
    <2>1. "git" \in Writers /\ Repo \in Configs
        BY ConfigsAssumption DEF Writers
    <2> QED BY <1>0, <1>2, <2>1, UpdateKeeps DEF Resolve
<1>3. CASE Sync \/ Clone \/ Compare
    <2>1. UNCHANGED <<capable, registry, super, astray, manager>>
        BY <1>3 DEF Sync, Clone, Compare, vars, table
    <2>2. sync' \in {"no", "cloning", "read", "differs"}
        BY <1>3 DEF Sync, Clone, Compare
    <2> QED BY <1>0, <2>1, <2>2, OthersKeep
<1>4. CASE Holder \/ UNCHANGED svars
    <2>1. UNCHANGED <<capable, registry, super, astray, manager>>
        BY <1>4, HolderKeepsManager DEF Holder, svars, vars, table
    <2>2. sync' \in {"no", "cloning", "read", "differs"}
        BY <1>4 DEF Holder, svars, SupervisorInv, STypeOK
    <2> QED BY <1>0, <2>1, <2>2, OthersKeep
<1>5. CASE reconcileEbpf
    <2>1. /\ rec # Free /\ rec.at = "compare"
          /\ UNCHANGED <<capable, stored, updates, gitops, sync, astray>>
        BY <1>5 DEF reconcileEbpf
    <2>2. CASE ebpfCfg = {rec.c.cfg.ebpf}
        <3>1. Done /\ ebpfCfg' = {rec.c.cfg.ebpf} /\ manager' = manager
            BY <1>5, <2>2 DEF reconcileEbpf, vars, table
        <3>2. manager # Nil <=> (capable /\ rec.c.cfg.ebpf # "off")
            BY <2>1, <2>2 DEF SupervisorInv, ManagerFollows
        <3> QED BY <1>0, <2>1, <3>1, <3>2, DoneKeeps
    <2>3. CASE ebpfCfg # {rec.c.cfg.ebpf} /\ manager # Nil
        <3>1. rec' = [rec EXCEPT !.at = "teardown"] /\ UNCHANGED <<registry, subscribed, ran>>
            BY <1>5, <2>3 DEF reconcileEbpf, registry
        <3> QED BY <1>0, <2>1, <3>1, MoveKeeps
    <2>4. CASE ebpfCfg # {rec.c.cfg.ebpf} /\ manager = Nil
        <3>1. /\ rec' = [rec EXCEPT !.at = "apply"] /\ UNCHANGED <<registry, subscribed, ran>>
              /\ manager' = Nil
            BY <1>5, <2>4 DEF reconcileEbpf, registry, vars, table
        <3> QED BY <1>0, <2>1, <3>1, MoveKeeps
    <2> QED BY <2>2, <2>3, <2>4
<1>6. CASE Teardown
    <2>1. /\ rec # Free /\ rec' = [rec EXCEPT !.at = "apply"] /\ manager' = Nil
          /\ UNCHANGED <<capable, registry, subscribed, ran, gitops, sync, astray>>
        BY <1>6 DEF Teardown, Install
    <2> QED BY <1>0, <2>1, MoveKeeps
<1>7. CASE Apply
    <2>1. /\ rec # Free /\ rec.at = "apply" /\ ebpfCfg' = {rec.c.cfg.ebpf}
          /\ UNCHANGED <<capable, stored, updates, gitops, sync, astray>>
        BY <1>7 DEF Apply
    <2>2. CASE rec.c.cfg.ebpf = "off" \/ ~capable
        <3>1. Done /\ manager' = manager /\ manager = Nil
            BY <1>7, <2>1, <2>2 DEF Apply, vars, table, SupervisorInv, ManagerFollows
        <3> QED BY <1>0, <2>1, <2>2, <3>1, DoneKeeps
    <2>3. CASE rec.c.cfg.ebpf # "off" /\ capable
        <3>1. rec' = [rec EXCEPT !.at = "install"] /\ UNCHANGED <<registry, subscribed, ran>>
            BY <1>7, <2>1, <2>3 DEF Apply, registry
        <3> QED BY <1>0, <2>1, <2>3, <3>1, MoveKeeps
    <2> QED BY <2>2, <2>3
<1>8. CASE Enable
    <2>1. /\ rec # Free /\ rec.at = "install" /\ Done /\ manager' = NewManager
          /\ UNCHANGED <<capable, stored, updates, ebpfCfg, gitops, sync, astray>>
        BY <1>8 DEF Enable, Install
    <2>2. NewManager # Nil
        BY SMTT(60), LeaseBounds DEF NewManager, LeaseInv, TypeOK
    <2>3. capable /\ rec.c.cfg.ebpf # "off" /\ ebpfCfg = {rec.c.cfg.ebpf}
        BY <2>1 DEF SupervisorInv, ManagerFollows
    <2> QED BY <1>0, <2>1, <2>2, <2>3, DoneKeeps
<1> QED
    BY <1>0, <1>1, <1>2, <1>3, <1>4, <1>5, <1>6, <1>7, <1>8, ReconcileKeeps DEF SNext

-----------------------------------------------------------------------------
(* Theorems.                                                                *)

\* Whoever swaps managers, and however: an entry of the current manager has a
\* lease or an operation that will give it one, unless a release overlapped a set.
THEOREM LeasesNeverForgotten == Spec => []NothingForgotten
BY LeaseAlways, PTL DEF LeaseInv

\* And the sweep leaves it in place until the latest end that was promised.
THEOREM LeasesHold == Spec => []HeldStays
BY LeaseAlways, PTL DEF LeaseInv

\* The supervisor swaps managers as the Holder expects it: its specification
\* implements that of KernelLeases.
THEOREM SupervisorImplementsLeases == SSpec => Spec
<1>1. SInit => Init
    BY DEF SInit
<1> QED BY <1>1, SLeaseAlways, SwapsAsAllowed, PTL DEF SSpec, Spec

\* So both hold under it, while it reconciles one configuration after the other.
THEOREM SupervisedLeases == SSpec => [](NothingForgotten /\ HeldStays)
BY SLeaseAlways, PTL DEF LeaseInv

\* When no update is under way, the GitOps loop and the eBPF manager are those
\* of the stored configuration, unless a notification was missed or overtaken.
THEOREM StoredAlwaysRuns == SSpec => []RunsWhatIsStored
<1>1. SupervisorInv => RunsWhatIsStored
    <2> SUFFICES ASSUME SupervisorInv, Quiet, astray = {}
                 PROVE  /\ ran = stored.n
                        /\ gitops = stored.cfg.git
                        /\ manager # Nil <=> (capable /\ stored.cfg.ebpf # "off")
        BY DEF RunsWhatIsStored
    <2>1. ran = stored.n /\ subscribed /\ rec = Free
        BY DEF SupervisorInv, Quiet, StoredIsNoted, BootFirst, Notifiers
    <2>2. gitops = stored.cfg.git /\ ebpfCfg = {stored.cfg.ebpf}
        BY <2>1 DEF SupervisorInv, LastRuns
    <2>3. manager # Nil <=> (capable /\ stored.cfg.ebpf # "off")
        BY <2>1, <2>2 DEF SupervisorInv, ManagerFollows
    <2> QED BY <2>1, <2>2, <2>3
<1> QED BY <1>1, SupervisorInit, SupervisorNext, SLeaseAlways, PTL DEF SSpec
=============================================================================
