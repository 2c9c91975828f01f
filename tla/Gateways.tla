------------------------------ MODULE Gateways ------------------------------
(****************************************************************************)
(* Gateways that share a database: the service and route registries         *)
(* (internal/repositories/stores), each a copy of its table in memory, the  *)
(* saves and deletions of internal/domain/service, and the messages by      *)
(* which a gateway tells its peers to read the tables again                 *)
(* (internal/server/distributed_invalidator.go).                            *)
(*                                                                          *)
(* One service, with a route that may name it.  A service is its weights    *)
(* and the rest of it, which an edit replaces by its number.  Registries hold and hand out    *)
(* pointers, so services in memory are objects on a heap.  A message is     *)
(* delivered at most once; messages about one route and about all have the  *)
(* same effect here.                                                        *)
(****************************************************************************)
EXTENDS Integers, FiniteSets, FiniteSetsExt

CONSTANTS
    Gateways,
    Operators,   \* management requests that edit or delete the service
    Rollouts,    \* canary rollouts, which save it too
    Targets,     \* targets of the service
    MaxWeight,   \* largest weight of a target
    Initial,     \* their weights at first
    MaxCalls,    \* bound on edits and rollouts
    MaxFaults    \* bound on lost messages, failed reads and writes, and restarts

ASSUME GatewaysAssumption ==
    {MaxWeight, MaxCalls, MaxFaults} \subseteq Nat /\ Initial \in [Targets -> 0..MaxWeight]

Callers == Operators \cup Rollouts

Services == [rest : 0..MaxCalls, w : [Targets -> 0..MaxWeight]]

\* No such row; its rest is one that no edit writes.
Deleted == [rest |-> MaxCalls + 1]

\* Enough for what a registry and the rollouts hold, and one more.
Objects == 1..Cardinality(Rollouts) + 2

\* An object nobody holds, no object, and an empty place in the proxy cache.
Blank == [rest |-> MaxCalls + 2]
NoObject == 0
Empty == [rest |-> MaxCalls + 3]

VARIABLES
    row,      \* the service in the database
    route,    \* whether the route names it, in the database
    heap,     \* per gateway, the services in its memory
    mem,      \* per gateway, the registries: the route and the service
    chain,    \* per gateway, the service the route's cached chain was built from
    mail,     \* per gateway, messages under way to it
    listen,   \* per gateway, where its listener stands
    job,      \* per caller, the call in progress
    calls,    \* edits and rollouts so far
    faults,   \* faults so far
    astray    \* history: gateways that missed a change or a write

gvars == <<row, route, heap, mem, chain, mail, listen, job, calls, faults, astray>>

NoJob == [at |-> "idle"]

GInit ==
    /\ row = [rest |-> 0, w |-> Initial] /\ route \in BOOLEAN
    /\ heap = [g \in Gateways |-> [o \in Objects |-> IF o = 1 THEN row ELSE Blank]]
    /\ mem = [g \in Gateways |-> [routed |-> route, obj |-> 1]]
    /\ chain = [g \in Gateways |-> Empty]
    /\ mail = [g \in Gateways |-> 0]
    /\ listen = [g \in Gateways |-> "idle"]
    /\ job = [a \in Callers |-> NoJob]
    /\ calls = 0 /\ faults = 0 /\ astray = {}

-----------------------------------------------------------------------------
(* Memory.                                                                  *)

\* The objects the registry of g and the rollouts there refer to.
Held(g, m, j) ==
    {m[g].obj} \cup {j[k].obj : k \in {r \in Rollouts : j[r].at = "save" /\ j[r].g = g}}

\* A new object.
Fresh(g) == Min(Objects \ Held(g, mem, job))

\* The memory of g with s as object o; objects nobody holds any more are gone.
With(g, o, s, m, j) ==
    [heap EXCEPT ![g] = [i \in Objects |-> IF i \notin Held(g, m, j) THEN Blank
                                           ELSE IF i = o THEN s ELSE heap[g][i]]]

\* The service as gateway g knows it.
Known(g) == IF mem[g].obj = NoObject THEN Deleted ELSE heap[g][mem[g].obj]

\* What a chain built now is built from.
Compiled(g) == IF mem[g].routed THEN Known(g) ELSE Deleted

Fault == faults < MaxFaults /\ faults' = faults + 1

Others(g) == Gateways \ {g}

\* Gateway g has heard of all that was written elsewhere.
InTouch(g) ==
    /\ g \notin astray /\ mail[g] = 0 /\ listen[g] = "idle"
    /\ \A a \in Callers : job[a].at \in {"delete", "clear"} => job[a].g = g

-----------------------------------------------------------------------------
(* Saving and deleting the service.                                         *)

\* DBServiceRegistry.Update by caller a at gateway g: the row, then the memory
\* takes the caller's object.
Update(a, g, o, s) ==
    LET m == [mem EXCEPT ![g].obj = o]
        j == [job EXCEPT ![a] = [at |-> "clear", g |-> g]] IN
    /\ row' = s
    /\ mem' = m /\ job' = j /\ heap' = With(g, o, s, m, j)

\* An operator edits the service as the gateway shows it and saves the whole.
\* A save that fails changes nothing.
SaveService(a, g) ==
    /\ job[a] = NoJob /\ calls < MaxCalls /\ Known(g) # Deleted
    /\ calls' = calls + 1
    /\ Update(a, g, Fresh(g), [Known(g) EXCEPT !.rest = calls + 1])
    /\ UNCHANGED <<route, chain, mail, listen, faults, astray>>

\* DeleteService: the route that names it is rewritten first; one that cannot be
\* is skipped, and counts as affected all the same.
ClearRouteReferences(a, g) ==
    /\ job[a] = NoJob /\ calls < MaxCalls /\ Known(g) # Deleted
    /\ calls' = calls + 1
    /\ \/ /\ route' = IF mem[g].routed THEN FALSE ELSE route
          /\ mem' = [mem EXCEPT ![g].routed = FALSE]
          /\ UNCHANGED faults
       \/ mem[g].routed /\ Fault /\ UNCHANGED <<route, mem>>
    /\ job' = [job EXCEPT ![a] = [at |-> "delete", g |-> g, affected |-> mem[g].routed]]
    /\ UNCHANGED <<row, heap, chain, mail, listen, astray>>

\* Then the row goes.  Only a route that was affected is invalidated: with none,
\* the peers are not told.
DeleteService(a) ==
    LET g == job[a].g
        m == [mem EXCEPT ![g].obj = NoObject]
        j == [job EXCEPT ![a] = IF @.affected THEN [at |-> "clear", g |-> g] ELSE NoJob] IN
    /\ job[a].at = "delete"
    /\ row' = Deleted
    /\ mem' = m /\ job' = j /\ heap' = With(g, NoObject, Blank, m, j)
    /\ astray' = IF job[a].affected THEN astray ELSE astray \cup Others(g)
    /\ UNCHANGED <<route, chain, mail, listen, calls, faults>>

-----------------------------------------------------------------------------
(* Telling the peers.                                                       *)

\* Nobody is told.
PublishNothing(a, next) ==
    /\ job[a].at = "clear"
    /\ chain' = [chain EXCEPT ![job[a].g] = Empty]
    /\ job' = [job EXCEPT ![a] = next]
    /\ UNCHANGED <<row, route, heap, mem, mail, listen, calls, faults, astray>>

\* InvalidateRoutes and InvalidateRoute clear the local cache and publish, which
\* may fail.  What the caller does next is for it to say.
Publish(a, next) ==
    LET g == job[a].g IN
    /\ job[a].at = "clear"
    /\ chain' = [chain EXCEPT ![g] = Empty]
    /\ \/ /\ mail' = [p \in Gateways |-> IF p = g THEN mail[p] ELSE mail[p] + 1]
          /\ UNCHANGED <<faults, astray>>
       \/ Fault /\ astray' = astray \cup Others(g) /\ UNCHANGED mail
    /\ job' = [job EXCEPT ![a] = next]
    /\ UNCHANGED <<row, route, heap, mem, listen, calls>>

LoseMail(g) ==
    /\ mail[g] > 0 /\ Fault
    /\ mail' = [mail EXCEPT ![g] = @ - 1]
    /\ astray' = astray \cup {g}
    /\ UNCHANGED <<row, route, heap, mem, chain, listen, job, calls>>

\* handleInvalidation: the registries are read again, one after the other, and
\* one that cannot be read is left as it is.  First the routes ...
ReloadRoutes(g) ==
    /\ mail[g] > 0 /\ listen[g] = "idle"
    /\ mail' = [mail EXCEPT ![g] = @ - 1]
    /\ listen' = [listen EXCEPT ![g] = "services"]
    /\ \/ mem' = [mem EXCEPT ![g].routed = route] /\ astray' = astray \ {g} /\ UNCHANGED faults
       \/ Fault /\ astray' = astray \cup {g} /\ UNCHANGED mem
    /\ UNCHANGED <<row, route, heap, chain, job, calls>>

\* ... then the services: new objects, from the rows.
ReloadServices(g) ==
    LET o == IF row = Deleted THEN NoObject ELSE Fresh(g)
        m == [mem EXCEPT ![g].obj = o] IN
    /\ listen[g] = "services"
    /\ listen' = [listen EXCEPT ![g] = "clear"]
    /\ \/ /\ mem' = m
          /\ heap' = With(g, o, row, m, job)
          /\ UNCHANGED <<astray, faults>>
       \/ Fault /\ astray' = astray \cup {g} /\ UNCHANGED <<mem, heap>>
    /\ UNCHANGED <<row, route, chain, mail, job, calls>>

\* Whatever was read, the cache is cleared after that.
Invalidate(g) ==
    /\ listen[g] = "clear"
    /\ listen' = [listen EXCEPT ![g] = "idle"]
    /\ chain' = [chain EXCEPT ![g] = Empty]
    /\ UNCHANGED <<row, route, heap, mem, mail, job, calls, faults, astray>>

-----------------------------------------------------------------------------
\* A request finds no chain and builds one.
Serve(g) ==
    /\ chain[g] = Empty
    /\ chain' = [chain EXCEPT ![g] = Compiled(g)]
    /\ UNCHANGED <<row, route, heap, mem, mail, listen, job, calls, faults, astray>>

\* The process ends, and with it the calls it was in, and comes back with what
\* the database holds.  Messages sent to it are lost, and what its calls had
\* still to tell is not told.
Restart(g, over) ==
    LET dead == {a \in Callers : job[a] # NoJob /\ job[a].at # "over" /\ job[a].g = g}
        untold == {a \in dead : job[a].at \in {"delete", "clear"}}
        o == IF row = Deleted THEN NoObject ELSE Fresh(g)
        m == [mem EXCEPT ![g] = [routed |-> route, obj |-> o]]
        j == [a \in Callers |-> IF a \notin dead THEN job[a]
                                ELSE IF a \in Operators THEN NoJob ELSE over] IN
    /\ Fault
    /\ mem' = m /\ job' = j
    /\ heap' = With(g, o, row, m, j)
    /\ chain' = [chain EXCEPT ![g] = Empty]
    /\ mail' = [mail EXCEPT ![g] = 0]
    /\ listen' = [listen EXCEPT ![g] = "idle"]
    /\ astray' = (IF untold = {} THEN astray ELSE astray \cup Others(g)) \ {g}
    /\ UNCHANGED <<row, route, calls>>

\* What every gateway does by itself.
GStep ==
    \E g \in Gateways :
        LoseMail(g) \/ ReloadRoutes(g) \/ ReloadServices(g) \/ Invalidate(g) \/ Serve(g)
=============================================================================
