----------------------------- MODULE ConfigPlane -----------------------------
(****************************************************************************)
(* The configuration plane of one gateway: the route, service and           *)
(* middleware registries (internal/config, internal/repositories/stores)    *)
(* and the domain services that edit them (internal/domain/route, service,  *)
(* middleware).                                                             *)
(*                                                                          *)
(* A registry operation is atomic, under the registry's mutex.  An edit is  *)
(* not: it reads a list, writes routes one by one, writes its own record    *)
(* and invalidates cached chains, with no lock over the whole, and any      *)
(* write may fail.  Records are reduced to what edits relate: a route's     *)
(* name, service and middlewares, and whether a service or middleware       *)
(* exists.                                                                  *)
(****************************************************************************)
EXTENDS Naturals

CONSTANTS
    Routes, Names, Services, Middlewares,
    Editors,      \* management requests in progress
    Edits,        \* the operations they perform
    Backends,     \* "file", "db": how configuration may be persisted
    UpdateFails,  \* a registry write may fail
    DeleteFails,  \* a service or middleware deletion may fail
    None,
    MaxEdits      \* bound on edits begun

ASSUME BackendsAssumption == Backends \subseteq {"file", "db"}
ASSUME BoundsAssumption ==
    MaxEdits \in Nat /\ UpdateFails \in BOOLEAN /\ DeleteFails \in BOOLEAN

Parts == Services \cup Middlewares

RouteDefs ==
    [name : Names, service : Services \cup {None}, middlewares : SUBSET Middlewares]

\* Services and middlewares have tables of their own.
ASSUME KindsAssumption == Services \cap Middlewares = {} /\ None \notin RouteDefs \cup Parts

VARIABLES
    mem,      \* the routes the gateway serves
    disk,     \* the routes as persisted
    parts,    \* the services and middlewares in the registries
    stored,   \* the services and middlewares as persisted
    dirty,    \* routes whose configuration changed since their last invalidation
    pc,       \* where each edit stands
    target,   \* the route, service or middleware it is about
    snap,     \* its copy of the routes, from List
    todo,     \* routes it has still to rewrite or to invalidate
    changed,  \* routes it has to invalidate at its end
    failed,   \* some rewrite failed
    gone,     \* history: routes deleted with success and not saved since
    edits,    \* edits begun
    backend,  \* how this gateway persists its configuration
    mishaps   \* history: what has gone wrong so far

stores == <<mem, disk, parts, stored, dirty>>
locals == <<target, snap, todo, changed, failed>>
vars == <<stores, pc, locals, gone, edits, backend, mishaps>>

NoRoutes == [r \in Routes |-> None]

Existing(rts) == {r \in Routes : rts[r] # None}

Init ==
    /\ mem = NoRoutes /\ disk = NoRoutes
    /\ parts = Parts /\ stored = Parts
    /\ dirty = {} /\ gone = {} /\ edits = 0
    /\ backend \in Backends /\ mishaps = {}
    /\ pc = [e \in Editors |-> "idle"]
    /\ target = [e \in Editors |-> None]
    /\ snap = [e \in Editors |-> NoRoutes]
    /\ todo = [e \in Editors |-> {}]
    /\ changed = [e \in Editors |-> {}]
    /\ failed = [e \in Editors |-> FALSE]

-----------------------------------------------------------------------------
(* Registries.                                                              *)

Outcomes(mayFail) == IF mayFail THEN BOOLEAN ELSE {TRUE}

\* RouteRegistry.Update and Delete change the memory and then save the whole of it.
FileRoutes(rts, ok) ==
    /\ mem' = rts
    /\ disk' = IF ok THEN rts ELSE disk

\* The memory was changed before the row.
DBRoutesLate(rts, ok) ==
    /\ mem' = rts
    /\ disk' = IF ok THEN rts ELSE disk

\* DBRouteRegistry.Update and Delete write the row and return on an error; the
\* memory follows.
DBRoutes(rts, ok) ==
    /\ mem' = IF ok THEN rts ELSE mem
    /\ disk' = IF ok THEN rts ELSE disk

WriteRoutes(rts, ok) ==
    \/ backend = "file" /\ FileRoutes(rts, ok)
    \/ backend = "db" /\ DBRoutes(rts, ok)

\* The routes that name a service or a middleware.
Naming(p) ==
    {r \in Existing(mem) : mem[r].service = p \/ p \in mem[r].middlewares}

\* The same for the services and middlewares.  The routes that name one have
\* changed when it has.
FileParts(ps, ok) ==
    /\ parts' = ps
    /\ stored' = IF ok THEN ps ELSE stored

DBParts(ps, ok) ==
    /\ parts' = IF ok THEN ps ELSE parts
    /\ stored' = IF ok THEN ps ELSE stored

WriteParts(ps, p, ok) ==
    /\ \/ backend = "file" /\ FileParts(ps, ok)
       \/ backend = "db" /\ DBParts(ps, ok)
    /\ dirty' = IF backend = "file" \/ ok THEN dirty \cup Naming(p) ELSE dirty

-----------------------------------------------------------------------------
(* Steps the edits share.                                                   *)

\* Whether an edit begun now races a deletion.
Overlaps(edit) ==
    LET busy == {e \in Editors : pc[e] # "idle"}
        deleting == {e \in busy : pc[e] \in {"unlink", "invalidate"} /\ target[e] \in Parts} IN
    IF deleting # {} \/ (busy # {} /\ edit = "DeletePart") THEN {"race"} ELSE {}

Unless(ok, mishap) == IF ok THEN {} ELSE {mishap}

Begin(e, edit, wrong) ==
    /\ pc[e] = "idle" /\ edit \in Edits /\ edits < MaxEdits
    /\ edits' = edits + 1
    /\ mishaps' = mishaps \cup Overlaps(edit) \cup wrong
    /\ UNCHANGED backend

Continue(e, label, wrong) ==
    /\ pc[e] = label
    /\ mishaps' = mishaps \cup wrong
    /\ UNCHANGED <<edits, backend>>

\* The edit is over: its locals are dead.
Finish(e) ==
    /\ pc' = [pc EXCEPT ![e] = "idle"]
    /\ target' = [target EXCEPT ![e] = None]
    /\ snap' = [snap EXCEPT ![e] = NoRoutes]
    /\ todo' = [todo EXCEPT ![e] = {}]
    /\ changed' = [changed EXCEPT ![e] = {}]
    /\ failed' = [failed EXCEPT ![e] = FALSE]

Goto(e, label) == pc' = [pc EXCEPT ![e] = label]

\* InvalidateRoute, for one route after another.
Invalidate(e) ==
    /\ Continue(e, "invalidate", {})
    /\ IF changed[e] = {}
       THEN Finish(e) /\ UNCHANGED dirty
       ELSE \E r \in changed[e] :
               /\ dirty' = dirty \ {r}
               /\ changed' = [changed EXCEPT ![e] = @ \ {r}]
               /\ UNCHANGED <<pc, target, snap, todo, failed>>
    /\ UNCHANGED <<mem, disk, parts, stored, gone>>

-----------------------------------------------------------------------------
(* Routes.                                                                  *)

Free(r, name) == \A s \in Existing(mem) : s # r => mem[s].name # name

\* SaveRoute up to nameIsFree: a route with a service, under a name no other
\* route has.
SaveRoute(e, r, d) ==
    /\ Begin(e, "SaveRoute", {})
    /\ d.service # None
    /\ Free(r, d.name)
    /\ target' = [target EXCEPT ![e] = r]
    /\ snap' = [snap EXCEPT ![e] = [NoRoutes EXCEPT ![r] = d]]
    /\ Goto(e, "save")
    /\ UNCHANGED <<stores, todo, changed, failed, gone>>

\* SaveRoute: Update, and on an error return.
StoreRoute(e) ==
    LET r == target[e] IN
    /\ \E ok \in Outcomes(UpdateFails) :
          /\ Continue(e, "save", Unless(ok, "unsaved"))
          /\ WriteRoutes([mem EXCEPT ![r] = snap[e][r]], ok)
          /\ IF ok
             THEN /\ Goto(e, "invalidate") /\ changed' = [changed EXCEPT ![e] = {r}]
                  /\ UNCHANGED <<target, snap, todo, failed>>
             ELSE Finish(e)
    /\ dirty' = IF mem'[r] # mem[r] THEN dirty \cup {r} ELSE dirty
    /\ gone' = gone \ {r}
    /\ UNCHANGED <<parts, stored>>

\* The registry's error was dropped.
DeleteSwallowing(e, r) ==
    /\ \E ok \in Outcomes(UpdateFails) :
          /\ Begin(e, "DeleteRoute", Unless(ok, "unsaved"))
          /\ WriteRoutes([mem EXCEPT ![r] = None], ok)
    /\ gone' = gone \cup {r}
    /\ Goto(e, "invalidate") /\ changed' = [changed EXCEPT ![e] = {r}]
    /\ dirty' = IF mem'[r] # mem[r] THEN dirty \cup {r} ELSE dirty
    /\ UNCHANGED <<parts, stored, target, snap, todo, failed>>

\* DeleteRoute up to the registry's Delete.
DeleteRoute(e, r) ==
    /\ \E ok \in Outcomes(UpdateFails) :
          /\ Begin(e, "DeleteRoute", Unless(ok, "unsaved"))
          /\ WriteRoutes([mem EXCEPT ![r] = None], ok)
          /\ gone' = IF ok THEN gone \cup {r} ELSE gone
          /\ IF ok
             THEN /\ Goto(e, "invalidate") /\ changed' = [changed EXCEPT ![e] = {r}]
                  /\ UNCHANGED <<target, snap, todo, failed>>
             ELSE UNCHANGED <<pc, locals>>
    /\ dirty' = IF mem'[r] # mem[r] THEN dirty \cup {r} ELSE dirty
    /\ UNCHANGED <<parts, stored>>

-----------------------------------------------------------------------------
(* Services and middlewares.                                                *)

\* Validation and restored secrets aside, a save is an Update ...
SavePart(e, p) ==
    /\ \E ok \in Outcomes(UpdateFails) :
          /\ Begin(e, "SavePart", Unless(ok, "unsaved"))
          /\ WriteParts(parts \cup {p}, p, ok)
          /\ IF ok
             THEN /\ Goto(e, "match") /\ target' = [target EXCEPT ![e] = p]
                  /\ UNCHANGED <<snap, todo, changed, failed>>
             ELSE UNCHANGED <<pc, locals>>
    /\ UNCHANGED <<mem, disk, gone>>

SaveService(e, s) == SavePart(e, s)

SaveMiddleware(e, m) == SavePart(e, m)

\* ... and InvalidateRoutes with a strategy: the routes that name it now.
InvalidateNaming(e) ==
    /\ Continue(e, "match", {})
    /\ dirty' = dirty \ Naming(target[e])
    /\ Finish(e)
    /\ UNCHANGED <<mem, disk, parts, stored, gone>>

\* The routes that name it are listed ...
ListNaming(e, p) ==
    /\ Begin(e, "DeletePart", {})
    /\ target' = [target EXCEPT ![e] = p]
    /\ snap' = [snap EXCEPT ![e] = mem]
    /\ todo' = [todo EXCEPT ![e] = Naming(p)]
    /\ Goto(e, "unlink")
    /\ UNCHANGED <<stores, failed, gone>>

\* ... and for a service they all count as affected, whatever becomes of them.
DeleteService(e, s) ==
    /\ ListNaming(e, s)
    /\ changed' = [changed EXCEPT ![e] = Naming(s)]

DeleteMiddleware(e, m) ==
    /\ ListNaming(e, m)
    /\ UNCHANGED changed

Without(d, p) ==
    [d EXCEPT !.service = IF @ = p THEN None ELSE @, !.middlewares = @ \ {p}]

\* Write back a clone of the route that was listed, without the reference.
Rewrite(e, r, ok) ==
    /\ Continue(e, "unlink", Unless(ok, "unsaved")) /\ r \in todo[e]
    /\ WriteRoutes([mem EXCEPT ![r] = Without(snap[e][r], target[e])], ok)
    /\ dirty' = IF mem'[r] # mem[r] THEN dirty \cup {r} ELSE dirty
    /\ todo' = [todo EXCEPT ![e] = @ \ {r}]
    /\ UNCHANGED <<parts, stored, pc, target, snap, gone>>

ClearRouteReferences(e) ==
    /\ target[e] \in Services
    /\ \E r \in Routes, ok \in Outcomes(UpdateFails) : Rewrite(e, r, ok)
    /\ UNCHANGED <<changed, failed>>

\* A failed rewrite was passed over.
UnlinkRegardless(e) ==
    /\ target[e] \in Middlewares
    /\ \E r \in Routes, ok \in Outcomes(UpdateFails) :
          /\ Rewrite(e, r, ok)
          /\ changed' = [changed EXCEPT ![e] = IF ok THEN @ \cup {r} ELSE @]
    /\ UNCHANGED failed

unlinkFromRoutes(e) ==
    /\ target[e] \in Middlewares
    /\ \E r \in Routes, ok \in Outcomes(UpdateFails) :
          /\ Rewrite(e, r, ok)
          /\ changed' = [changed EXCEPT ![e] = IF ok THEN @ \cup {r} ELSE @]
          /\ failed' = [failed EXCEPT ![e] = @ \/ ~ok]

\* DeleteMiddleware: with a route still naming it, invalidate what changed and
\* refuse.
Refuse(e) ==
    /\ Continue(e, "unlink", {}) /\ todo[e] = {} /\ failed[e]
    /\ Goto(e, "invalidate")
    /\ UNCHANGED <<stores, locals, gone>>

\* The routes it changed were not invalidated.
DeleteQuietly(e) ==
    /\ todo[e] = {} /\ ~failed[e]
    /\ \E ok \in Outcomes(DeleteFails) :
          /\ Continue(e, "unlink", Unless(ok, "undeleted"))
          /\ WriteParts(parts \ {target[e]}, target[e], ok)
          /\ Finish(e)
    /\ UNCHANGED <<mem, disk, gone>>

\* DeleteService and DeleteMiddleware: the registry's Delete; on an error they
\* return at once.
DeleteRecord(e) ==
    /\ todo[e] = {} /\ ~failed[e]
    /\ \E ok \in Outcomes(DeleteFails) :
          /\ Continue(e, "unlink", Unless(ok, "undeleted"))
          /\ WriteParts(parts \ {target[e]}, target[e], ok)
          /\ IF ok THEN Goto(e, "invalidate") /\ UNCHANGED locals
             ELSE Finish(e)
    /\ UNCHANGED <<mem, disk, gone>>

-----------------------------------------------------------------------------
\* The process dies, between two steps of whatever it was doing, and comes back
\* with what is persisted and with an empty proxy cache.
Restart ==
    /\ mem' = disk /\ parts' = stored /\ dirty' = {}
    /\ pc' = [e \in Editors |-> "idle"]
    /\ target' = [e \in Editors |-> None]
    /\ snap' = [e \in Editors |-> NoRoutes]
    /\ todo' = [e \in Editors |-> {}]
    /\ changed' = [e \in Editors |-> {}]
    /\ failed' = [e \in Editors |-> FALSE]
    /\ UNCHANGED <<disk, stored, gone, edits, backend, mishaps>>

-----------------------------------------------------------------------------
\* What an operator submits: a route made of parts that exist.
Submitted ==
    {d \in RouteDefs : {d.service} \cup d.middlewares \subseteq parts}

Next ==
    \/ \E e \in Editors :
          \/ \E r \in Routes, d \in Submitted : SaveRoute(e, r, d)
          \/ \E r \in Routes : DeleteRoute(e, r)
          \/ \E s \in Services : SaveService(e, s) \/ DeleteService(e, s)
          \/ \E m \in Middlewares : SaveMiddleware(e, m) \/ DeleteMiddleware(e, m)
          \/ StoreRoute(e) \/ InvalidateNaming(e) \/ ClearRouteReferences(e)
          \/ unlinkFromRoutes(e) \/ Refuse(e) \/ DeleteRecord(e) \/ Invalidate(e)
    \/ Restart

Spec == Init /\ [][Next]_vars

-----------------------------------------------------------------------------
\* Types.
TypeOK ==
    /\ mem \in [Routes -> RouteDefs \cup {None}]
    /\ disk \in [Routes -> RouteDefs \cup {None}]
    /\ parts \subseteq Parts /\ stored \subseteq Parts
    /\ dirty \subseteq Routes /\ gone \subseteq Routes
    /\ pc \in [Editors -> {"idle", "save", "match", "unlink", "invalidate"}]
    /\ target \in [Editors -> Routes \cup Parts \cup {None}]
    /\ snap \in [Editors -> [Routes -> RouteDefs \cup {None}]]
    /\ todo \in [Editors -> SUBSET Routes]
    /\ changed \in [Editors -> SUBSET Routes]
    /\ failed \in [Editors -> BOOLEAN]
    /\ edits \in 0..MaxEdits /\ backend \in Backends
    /\ mishaps \subseteq {"race", "unsaved", "undeleted"}
    /\ \A e \in Editors :
          /\ pc[e] = "save" => target[e] \in Routes /\ snap[e][target[e]] # None
          /\ pc[e] \in {"match", "unlink"} => target[e] \in Parts
          /\ pc[e] = "unlink" => \A r \in todo[e] : snap[e][r] # None

Quiet == \A e \in Editors : pc[e] = "idle"

\* The file registries change memory before a write that failed.
Detached == backend = "file" /\ mishaps \cap {"unsaved", "undeleted"} # {}

\* The gateway serves what is persisted.  Over a database this survives any
\* failed write and any interleaving of edits: a failed Update leaves the route
\* "exactly as it was".
StoredIsServed == ~Detached => mem = disk /\ parts = stored

NamesExisting == \A r \in Existing(mem) : mem[r].middlewares \subseteq parts

\* DeleteMiddleware refuses "to delete while a route still points at it", since
\* the router serves a route without the middleware it cannot find.  Between
\* edits that did not race, no route names a middleware that does not exist,
\* after failed writes and a crash in the middle of a deletion as well.
NoDanglingMiddleware ==
    Quiet /\ "race" \notin mishaps /\ ~Detached => NamesExisting

\* "DeleteRoute removes the route": a route whose deletion succeeded is not
\* served again until someone saves it, across restarts.
DeletedStaysDeleted == "race" \notin mishaps => \A r \in gone : mem[r] = None

\* Every edit "invalidates affected route proxies": once the edits are over, no
\* route is served by a chain compiled before its configuration changed, unless
\* edits raced with a deletion or a deletion failed at its last write.
ChangesInvalidated ==
    Quiet /\ mishaps \cap {"race", "undeleted"} = {} /\ ~Detached => dirty = {}
=============================================================================
