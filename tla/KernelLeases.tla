---------------------------- MODULE KernelLeases ----------------------------
(****************************************************************************)
(* The entries internal/ebpf keeps in the kernel: shuns and adaptive rate   *)
(* limits.  The kernel's maps have no expiry, so the Holder keeps a lease   *)
(* beside every entry and a sweep lifts what has lapsed.  The Holder also   *)
(* swaps the manager, and with it the maps, under running calls.            *)
(*                                                                          *)
(* One entry is modelled, a shun or a limit: the tables and the maps are    *)
(* keyed alike and no operation relates two keys.  Two addresses of one     *)
(* IPv6 /64 share the key, so it may be shunned again while it is shunned.  *)
(****************************************************************************)
EXTENDS Naturals

CONSTANTS
    Callers,      \* goroutines that set and release entries
    Lease,        \* how long an entry is leased
    MaxTime,      \* bound on the clock
    MaxCalls,     \* bound on the calls
    MaxManagers,  \* bound on the managers installed
    MaxFailures   \* bound on the operations the kernel refuses

ASSUME LeaseAssumption ==
    /\ {Lease, MaxTime, MaxCalls, MaxManagers, MaxFailures} \subseteq Nat
    /\ 0 < Lease /\ Lease <= MaxTime

\* What the entry is.
Kinds == {"shun", "limit"}

\* The end of a lease: a time, Forever for an operator's block, None for no lease.
None == 0
Forever == MaxTime + 1
Ends == 0..Forever

\* The manager that is no manager.
Nil == 0

VARIABLES
    kind,      \* whether the entry is a shun or a limit
    manager,   \* the Holder's current manager
    incoming,  \* the manager a Swap is about to install: a set of at most one
    kernel,    \* the managers whose map holds the entry
    lease,     \* its end in the Holder's table
    call,      \* per caller, the operation it is in
    sweep,     \* the manager and the end a pass of the sweep has taken
    now,       \* the clock
    calls, managers, failures,
    owed,      \* history: the latest end promised since the last release
    crossed    \* history: what overlapped a set

table == <<manager, incoming, lease>>
counts == <<calls, managers, failures>>
vars == <<kind, table, kernel, call, sweep, now, counts, owed, crossed>>

\* A caller outside the Holder, and the sweep between two passes.
Idle == [at |-> "idle"]
Rest == [m |-> Nil, end |-> None]

\* What an overlapping operation can do to a set.
Crossings == {"release", "sweep", "swap"}

\* A call: before the kernel's map, or before the Holder's table.
Calls ==
    {Idle} \cup
    [at : {"kernel", "table"}, act : {"set", "release"}, m : 1..managers, end : Ends]

\* NewHolder(nil).
Init ==
    /\ manager = Nil /\ managers = 0 /\ incoming = {}
    /\ kind \in Kinds
    /\ kernel = {} /\ lease = None
    /\ call = [c \in Callers |-> Idle]
    /\ sweep = Rest
    /\ now = 0 /\ calls = 0 /\ failures = 0
    /\ owed = None /\ crossed = {}

-----------------------------------------------------------------------------
(* The tables.                                                              *)

\* A lease replaces the one before.
HoldLast(end, cur) == end

\* shunLeases.hold: the later end is kept, and Forever is the latest.
hold(end, cur) == IF end > cur THEN end ELSE cur

\* limitLeases.renew replaces; shunLeases.hold does not.
Recorded(end) == IF kind = "shun" THEN hold(end, lease) ELSE end

-----------------------------------------------------------------------------
(* History: which operations overlap.                                       *)

\* Some call sets, or releases.
Some(act, cs) == \E c \in Callers : cs[c] # Idle /\ cs[c].act = act

\* With the calls cs and the sweep sw.
NoteCrossings(cs, sw) ==
    crossed' = crossed
        \cup {x \in {"release"} : Some("set", cs) /\ Some("release", cs)}
        \cup {x \in {"sweep"} : sw # Rest /\ \E c \in Callers : cs[c] # Idle}

-----------------------------------------------------------------------------
(* Calls of the Holder.                                                     *)

\* The manager is read first; without one the call does nothing.  The end of a
\* shun is given, that of a limit is computed when the lease is recorded.
Begin(c, act, end) ==
    /\ call[c] = Idle /\ calls < MaxCalls /\ manager # Nil /\ now + Lease <= MaxTime
    /\ calls' = calls + 1
    /\ call' = [call EXCEPT ![c] =
                  [at |-> "kernel", act |-> act, m |-> manager, end |-> end]]
    /\ NoteCrossings(call', sweep)
    /\ UNCHANGED <<kind, table, kernel, sweep, now, managers, failures, owed>>

\* shun, for ShunIPUntil and ShunIP.
shun(c) == kind = "shun" /\ \E end \in {now + Lease, Forever} : Begin(c, "set", end)
SetAdaptiveRateLimitFor(c) == kind = "limit" /\ Begin(c, "set", None)

\* UnshunIP and ClearAdaptiveRateLimit.
Release(c) == Begin(c, "release", None)

\* The kernel refuses, or the entry to unshun is not there: the error is
\* returned and the table stays as it is.
Refused(c) ==
    /\ call[c].at = "kernel"
    /\ \/ failures < MaxFailures /\ failures' = failures + 1
       \/ /\ call[c].act = "release" /\ kind = "shun" /\ call[c].m \notin kernel
          /\ UNCHANGED failures
    /\ call' = [call EXCEPT ![c] = Idle]
    /\ UNCHANGED <<kind, table, kernel, sweep, now, calls, managers, owed, crossed>>

\* The kernel's entry is set or deleted.
InKernel(c) ==
    LET o == call[c] IN
    /\ o.at = "kernel"
    /\ o.act = "set" \/ kind = "limit" \/ o.m \in kernel
    /\ kernel' = IF o.act = "set" THEN kernel \cup {o.m} ELSE kernel \ {o.m}
    /\ owed' = IF o.act = "release" /\ o.m = manager THEN None ELSE owed
    /\ call' = [call EXCEPT ![c].at = "table"]
    /\ UNCHANGED <<kind, table, sweep, now, counts, crossed>>

\* The lease is recorded, or dropped.
InTable(c) ==
    LET o == call[c]
        end == IF kind = "limit" THEN now + Lease ELSE o.end
    IN
    /\ o.at = "table"
    /\ lease' = IF o.act = "set" THEN Recorded(end) ELSE None
    /\ owed' = IF o.act = "set" /\ o.m = manager /\ end > owed THEN end ELSE owed
    /\ call' = [call EXCEPT ![c] = Idle]
    /\ crossed' = IF o.m = manager THEN crossed ELSE crossed \cup {"swap"}
    /\ UNCHANGED <<kind, manager, incoming, kernel, sweep, now, counts>>

-----------------------------------------------------------------------------
(* The sweep: expireAdaptiveLimits and expireShuns.                         *)

\* takeExpired, with the manager read before.  A limit is kept as it was, of a
\* shun only that it has ended.
Take ==
    /\ sweep = Rest /\ manager # Nil
    /\ lease # None /\ lease # Forever /\ lease <= now
    /\ sweep' = [m |-> manager, end |-> IF kind = "shun" THEN now ELSE lease]
    /\ lease' = None
    /\ NoteCrossings(call, sweep')
    /\ UNCHANGED <<kind, manager, incoming, kernel, call, now, counts, owed>>

\* The entry is deleted, or was gone.
Lift ==
    /\ sweep # Rest
    /\ kernel' = kernel \ {sweep.m}
    /\ sweep' = Rest
    /\ UNCHANGED <<kind, table, call, now, counts, owed, crossed>>

\* The lease is not taken up again.
LiftFailsForgotten ==
    /\ sweep # Rest /\ failures < MaxFailures
    /\ failures' = failures + 1
    /\ sweep' = Rest
    /\ UNCHANGED <<kind, table, kernel, call, now, calls, managers, owed, crossed>>

\* The lease is taken up again without an end.
LiftFailsForGood ==
    /\ sweep # Rest /\ failures < MaxFailures
    /\ failures' = failures + 1
    /\ lease' = Forever
    /\ sweep' = Rest
    /\ UNCHANGED <<kind, manager, incoming, kernel, call, now, calls, managers, owed, crossed>>

\* The kernel refuses: the lease is recorded again, ended, for the next pass.
LiftFails ==
    /\ sweep # Rest /\ failures < MaxFailures
    /\ failures' = failures + 1
    /\ lease' = Recorded(sweep.end)
    /\ sweep' = Rest
    /\ UNCHANGED <<kind, manager, incoming, kernel, call, now, calls, managers, owed, crossed>>

-----------------------------------------------------------------------------
(* Swap: the tables are reset, then the manager is installed.               *)

\* m is Nil or a manager whose maps are empty.
Swap(m) ==
    /\ incoming = {}
    /\ incoming' = {m}
    /\ lease' = None
    /\ UNCHANGED <<kind, manager, kernel, call, sweep, now, counts, owed, crossed>>

\* The rest of Swap: the manager is stored.
Install(m) ==
    /\ incoming = {m}
    /\ incoming' = {}
    /\ manager' = m
    /\ managers' = IF m = Nil THEN managers ELSE m
    /\ owed' = None
    /\ UNCHANGED <<kind, lease, kernel, call, sweep, now, calls, failures, crossed>>

\* A manager that was never installed.
NewManager == managers + 1

\* The clock; the bound leaves room for every lease to end.
Tick ==
    /\ now < MaxTime
    /\ now + Lease < MaxTime \/ \A c \in Callers : call[c] = Idle
    /\ now' = now + 1
    /\ UNCHANGED <<kind, table, kernel, call, sweep, counts, owed, crossed>>

\* What the Holder does of itself once it was called.
HolderProgress ==
    \/ \E c \in Callers : InKernel(c) \/ InTable(c)
    \/ Take \/ Lift \/ Tick

\* The Holder's steps.
HolderNext ==
    \/ \E c \in Callers : shun(c) \/ SetAdaptiveRateLimitFor(c) \/ Release(c) \/ Refused(c)
    \/ LiftFails
    \/ HolderProgress

\* Whoever swaps managers does it between any two of them.
Next ==
    \/ HolderNext
    \/ \E m \in {Nil} \cup {n \in {NewManager} : n <= MaxManagers} : Swap(m) \/ Install(m)

Spec == Init /\ [][Next]_vars

-----------------------------------------------------------------------------
\* Types.
TypeOK ==
    /\ kind \in Kinds
    /\ manager \in 0..MaxManagers /\ managers \in 0..MaxManagers /\ manager <= managers
    /\ incoming \subseteq 0..MaxManagers /\ incoming \in {{}, {Nil}, {NewManager}}
    /\ kernel \subseteq 1..managers
    /\ lease \in Ends /\ owed \in Ends
    /\ call \in [Callers -> Calls]
    /\ sweep \in [m : 0..managers, end : Ends]
    /\ now \in 0..MaxTime /\ calls \in 0..MaxCalls /\ failures \in 0..MaxFailures
    /\ crossed \subseteq Crossings

\* A lease will be recorded for the entry, or the sweep will deal with it.
InHand ==
    \/ \E c \in Callers : call[c] # Idle /\ call[c].at = "table" /\ call[c].act = "set"
                            /\ call[c].m = manager
    \/ sweep.m = manager

\* "a forgotten lease is a shun nothing will ever lift" (expireShuns): whatever
\* the kernel refuses and whenever the manager is swapped, an entry of the
\* current manager has a lease, or an operation in hand will give it one.  A
\* Swap forgets the leases of the manager it is about to replace, and a release
\* that overlaps a set may drop the lease the set has recorded.
NothingForgotten ==
    manager # Nil /\ incoming = {} /\ "release" \notin crossed /\ manager \in kernel
        => lease # None \/ InHand

\* "the sweep never lifts an entry something still holds" (hold): until the
\* latest end promised to a caller the entry stays, with several callers
\* shunning the same /64 and the sweep retrying.  A call that overlaps a pass of
\* the sweep, or a release, has no such promise.
HeldStays ==
    manager # Nil /\ incoming = {} /\ crossed \subseteq {"swap"} /\ owed > now
        => manager \in kernel

\* What the leases are for (AdaptiveLimitLease): an entry that nobody asked to
\* hold for good is lifted in the end, refused deletes included.
Lapses ==
    <>[](manager \in kernel => owed = Forever \/ crossed \cap {"release", "swap"} # {})
=============================================================================
