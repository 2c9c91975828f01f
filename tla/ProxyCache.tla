----------------------------- MODULE ProxyCache -----------------------------
(***************************************************************************)
(* The proxy cache of internal/server/proxy_cache.go: compiled handler     *)
(* chains, one per route, built on demand without holding the cache's      *)
(* mutex, dropped by the configuration edits that make them stale, and     *)
(* drained before they are closed.                                         *)
(*                                                                         *)
(* Callers (requests and the periodic Sync) read the cache lock-free and   *)
(* join one build per route (a singleflight).  Editors change a stored     *)
(* route, or a part (a service or a middleware) that routes name, and      *)
(* then, in a later step, invalidate the chains that used it.  The epoch   *)
(* is what keeps a chain compiled from configuration that changed while it *)
(* was being compiled out of the cache.                                    *)
(***************************************************************************)
EXTENDS Integers, FiniteSets

CONSTANTS
    Routes,             \* route ids
    Parts,              \* services and middlewares routes are built from
    Defs,               \* the definitions a route can be saved with
    Disabled,           \* the definitions that disable their route
    PartDefs,           \* the contents a service or middleware can have
    Uses,               \* Uses[d]: the parts a definition names
    Handlers,           \* identities of ProxyHandler objects
    Requests,           \* request goroutines
    Syncer,             \* the goroutine that runs Sync
    Editors,            \* goroutines running a configuration save or delete
    HealthChecked,      \* whether the handlers check their targets' health
    MayRefuse,          \* whether a route names a security middleware that may fail to build
    None,               \* no handler, no route, nothing
    MaxBuildAttempts,   \* maxBuildAttempts
    MaxEpoch            \* bound: no edit or purge begins at this epoch

Callers == Requests \cup {Syncer}

ASSUME SetsAssumption ==
    /\ IsFiniteSet(Routes)
    /\ Uses \in [Defs -> SUBSET Parts]
    /\ Disabled \subseteq Defs
    /\ Syncer \notin Requests
    /\ HealthChecked \in BOOLEAN
    /\ MayRefuse \in BOOLEAN

ASSUME NoneAssumption ==
    None \notin Routes \cup Handlers \cup Defs \cup Parts \cup PartDefs

ASSUME BoundsAssumption ==
    MaxBuildAttempts \in Nat \ {0} /\ MaxEpoch \in Nat

VARIABLES
    routes,     \* routeStore: the definition each route is stored with, or None
    parts,      \* serviceStore and mwStore: the content of each part
    due,        \* due[w]: routes editor w has yet to InvalidateRoute
    partDue,    \* partDue[w]: part editor w has yet to InvalidateRoutes for
    cache,      \* proxies and proxyHandlers: the handler cached for each route
    epoch,      \* epoch
    mu,         \* mu: the flight that holds it across its steps, or None
    retired,    \* retiredHealth: routes with health conclusions kept for their next handler
    life,       \* where each handler is between its build and its Close
    def,        \* the definition each handler was compiled from
    seen,       \* the part contents each handler was compiled from
    refused,    \* handlers whose chain is a RefusedChain
    aged,       \* refused handlers older than refusalRetry
    checked,    \* handlers with health conclusions, their own or inherited
    active,     \* activeConnCount of each handler
    pc,         \* pc[r]: the step of route r's singleflight call
    given,      \* given[r]: the route copy the call was started with
    loaded,     \* loaded[r]: the epoch the attempt recorded
    tries,      \* tries[r]: attempts thrown away so far
    built,      \* built[r]: the handler the attempt is compiling
    result,     \* result[r]: what the call returns to everyone waiting
    cpc,        \* cpc[q]: the step of each caller
    copy,       \* copy[q]: the route id and definition the caller selected
    held,       \* held[q]: the handler the caller was given
    sync,       \* Sync: idle, or warming
    todo,       \* the routes Sync has yet to pre-warm, as it listed them
    known       \* history: routes a cached handler has had conclusions for

stores == <<routes, parts>>
editing == <<due, partDue>>
handlerVars == <<life, def, seen, refused, aged, checked, active>>
flightVars == <<pc, given, loaded, tries, built, result>>
callerVars == <<cpc, copy, held>>
syncVars == <<sync, todo>>
vars == <<stores, editing, cache, epoch, mu, retired, handlerVars, flightVars,
          callerVars, syncVars, known>>

Unread == [p \in Parts |-> None]

Init ==
    /\ routes \in [Routes -> Defs \cup {None}]
    /\ parts \in [Parts -> PartDefs]
    /\ due = [w \in Editors |-> {}]
    /\ partDue = [w \in Editors |-> None]
    /\ cache = [r \in Routes |-> None]
    /\ epoch = 0
    /\ mu = None
    /\ retired = {}
    /\ life = [h \in Handlers |-> "unused"]
    /\ def = [h \in Handlers |-> None]
    /\ seen = [h \in Handlers |-> Unread]
    /\ refused = {}
    /\ aged = {}
    /\ checked = {}
    /\ active = [h \in Handlers |-> 0]
    /\ pc = [r \in Routes |-> "idle"]
    /\ given = [r \in Routes |-> None]
    /\ loaded = [r \in Routes |-> 0]
    /\ tries = [r \in Routes |-> 0]
    /\ built = [r \in Routes |-> None]
    /\ result = [r \in Routes |-> None]
    /\ cpc = [q \in Callers |-> "idle"]
    /\ copy = [q \in Callers |-> <<None, None>>]
    /\ held = [q \in Callers |-> None]
    /\ sync = "idle"
    /\ todo = {}
    /\ known = {}

-----------------------------------------------------------------------------
(* Dropping cached chains.  Everything here runs under mu, so each is one   *)
(* step that waits until no flight holds it.                                *)

\* Close: what the handler was compiled from and had learned is let go with it.
Close(h, how) ==
    /\ life' = [life EXCEPT ![h] = how]
    /\ def' = [def EXCEPT ![h] = None]
    /\ seen' = [seen EXCEPT ![h] = Unread]
    /\ aged' = aged \ {h}
    /\ checked' = checked \ {h}

\* Handlers the routes in S have cached.
CachedFor(S) == {h \in Handlers : \E r \in S : cache[r] = h}

\* invalidateLocked for each route of S: the epoch moves even when nothing is
\* cached; a cached handler leaves the cache, its health conclusions are kept
\* for the route's next handler and it starts to drain.
Drop(S, bump) ==
    /\ mu = None
    /\ epoch' = epoch + bump
    /\ cache' = [r \in Routes |-> IF r \in S THEN None ELSE cache[r]]
    /\ life' = [h \in Handlers |->
                    IF h \in CachedFor(S) THEN "draining" ELSE life[h]]
    /\ retired' = {r \in Routes : IF r \in S /\ cache[r] # None
                                  THEN cache[r] \in checked
                                  ELSE r \in retired}
    /\ UNCHANGED <<stores, mu, def, seen, refused, aged, checked, active,
                   flightVars, callerVars, syncVars, known>>

\* Purge, under memory pressure: every cached handler is retired.
Purge ==
    /\ epoch < MaxEpoch
    /\ Drop(Routes, 1)
    /\ UNCHANGED editing

-----------------------------------------------------------------------------
(* Editors: the store changes first, the invalidation is a later step.      *)

\* An editor between two requests.
Free(w) == due[w] = {} /\ partDue[w] = None /\ epoch < MaxEpoch

\* SaveRoute: store.Update, with InvalidateRoute still to come.
SaveRoute(w, r, d) ==
    /\ Free(w)
    /\ routes' = [routes EXCEPT ![r] = d]
    /\ due' = [due EXCEPT ![w] = {r}]
    /\ UNCHANGED <<parts, partDue, cache, epoch, mu, retired, handlerVars,
                   flightVars, callerVars, syncVars, known>>

\* DeleteRoute: store.Delete, with InvalidateRoute still to come.
DeleteRoute(w, r) ==
    /\ Free(w)
    /\ routes[r] # None
    /\ routes' = [routes EXCEPT ![r] = None]
    /\ due' = [due EXCEPT ![w] = {r}]
    /\ UNCHANGED <<parts, partDue, cache, epoch, mu, retired, handlerVars,
                   flightVars, callerVars, syncVars, known>>

\* A bug: nothing is invalidated when nothing was cached.
SaveUncached(w, p, v) ==
    /\ Free(w)
    /\ parts' = [parts EXCEPT ![p] = v]
    /\ partDue' = [partDue EXCEPT ![w] = IF \A r \in Routes : cache[r] = None THEN None ELSE p]
    /\ UNCHANGED <<routes, due, cache, epoch, mu, retired, handlerVars,
                   flightVars, callerVars, syncVars, known>>

\* SaveService and SaveMiddleware: store.Update, with InvalidateRoutes to come.
SavePart(w, p, v) ==
    /\ Free(w)
    /\ parts' = [parts EXCEPT ![p] = v]
    /\ partDue' = [partDue EXCEPT ![w] = p]
    /\ UNCHANGED <<routes, due, cache, epoch, mu, retired, handlerVars,
                   flightVars, callerVars, syncVars, known>>

\* The stored routes that name part p.
Naming(p) == {r \in Routes : routes[r] # None /\ p \in Uses[routes[r]]}

\* A bug: the epoch moves only when something was cached.
InvalidateCachedRoute(w, r) ==
    /\ r \in due[w]
    /\ Drop({r}, IF cache[r] # None THEN 1 ELSE 0)
    /\ due' = [due EXCEPT ![w] = @ \ {r}]
    /\ UNCHANGED partDue

InvalidateRoute(w, r) ==
    /\ r \in due[w]
    /\ Drop({r}, 1)
    /\ due' = [due EXCEPT ![w] = @ \ {r}]
    /\ UNCHANGED partDue

\* InvalidateRoutes walks the routes stored now and drops those that match.
InvalidateRoutes(w) ==
    /\ partDue[w] # None
    /\ Drop(Naming(partDue[w]), Cardinality(Naming(partDue[w])))
    /\ partDue' = [partDue EXCEPT ![w] = None]
    /\ UNCHANGED due

-----------------------------------------------------------------------------
(* Callers.  A request selects a route, and its copy of it, before it asks  *)
(* the cache for a handler; Sync does the same for every enabled route.     *)

\* retryDue: a refused chain old enough to build again.
RetryDue(h) == h \in refused /\ h \in aged

\* cached: the route has a chain that is not a refusal due for a retry.
Cached(r) == cache[r] # None /\ ~RetryDue(cache[r])

Select(q, r) ==
    /\ cpc[q] = "idle"
    /\ routes[r] # None
    /\ cpc' = [cpc EXCEPT ![q] = "selected"]
    /\ copy' = [copy EXCEPT ![q] = <<r, routes[r]>>]
    /\ UNCHANGED <<stores, editing, cache, epoch, mu, retired, handlerVars,
                   flightVars, held, syncVars, known>>

\* GetOrCreate's lock-free read.
Look(q) ==
    /\ cpc[q] = "selected"
    /\ \/ /\ Cached(copy[q][1])
          /\ cpc' = [cpc EXCEPT ![q] = "holding"]
          /\ held' = [held EXCEPT ![q] = cache[copy[q][1]]]
       \/ /\ ~Cached(copy[q][1])
          /\ cpc' = [cpc EXCEPT ![q] = "missed"]
          /\ UNCHANGED held
    /\ UNCHANGED <<stores, editing, cache, epoch, mu, retired, handlerVars,
                   flightVars, copy, syncVars, known>>

\* sf.Do: start the route's build, or wait for the one that is running.
Join(q) ==
    LET r == copy[q][1] IN
    /\ cpc[q] = "missed"
    /\ cpc' = [cpc EXCEPT ![q] = "waiting"]
    /\ \/ /\ pc[r] = "idle"
          /\ pc' = [pc EXCEPT ![r] = "attempt"]
          /\ given' = [given EXCEPT ![r] = copy[q][2]]
       \/ /\ pc[r] # "idle"
          /\ UNCHANGED <<pc, given>>
    /\ UNCHANGED <<stores, editing, cache, epoch, mu, retired, handlerVars,
                   loaded, tries, built, result, copy, held, syncVars, known>>

\* ServeHTTP reaches a backend: the request is counted from here.
Serve(q) ==
    /\ q # Syncer
    /\ cpc[q] = "holding"
    /\ held[q] \notin refused
    /\ cpc' = [cpc EXCEPT ![q] = "serving"]
    /\ active' = [active EXCEPT ![held[q]] = @ + 1]
    /\ UNCHANGED <<stores, editing, cache, epoch, mu, retired, life, def, seen,
                   refused, aged, checked, flightVars, copy, held, syncVars, known>>

\* The response is done: decrementActiveConn.
Finish(q) ==
    /\ cpc[q] = "serving"
    /\ cpc' = [cpc EXCEPT ![q] = "idle"]
    /\ active' = [active EXCEPT ![held[q]] = @ - 1]
    /\ held' = [held EXCEPT ![q] = None]
    /\ copy' = [copy EXCEPT ![q] = <<None, None>>]
    /\ UNCHANGED <<stores, editing, cache, epoch, mu, retired, life, def, seen,
                   refused, aged, checked, flightVars, syncVars, known>>

\* The chain answered without reaching a backend (a refusal, a middleware, no
\* healthy target), or the caller was Sync.
Leave(q) ==
    /\ cpc[q] = "holding"
    /\ cpc' = [cpc EXCEPT ![q] = "idle"]
    /\ held' = [held EXCEPT ![q] = None]
    /\ copy' = [copy EXCEPT ![q] = <<None, None>>]
    /\ UNCHANGED <<stores, editing, cache, epoch, mu, retired, handlerVars,
                   flightVars, syncVars, known>>

-----------------------------------------------------------------------------
(* build: one call per route at a time.                                     *)

\* An optimistic attempt records the epoch; the last one takes mu instead.
Attempt(r) ==
    /\ pc[r] = "attempt"
    /\ \/ /\ tries[r] < MaxBuildAttempts - 1
          /\ loaded' = [loaded EXCEPT ![r] = epoch]
          /\ UNCHANGED mu
       \/ /\ tries[r] >= MaxBuildAttempts - 1
          /\ mu = None
          /\ mu' = r
          /\ UNCHANGED loaded
    /\ pc' = [pc EXCEPT ![r] = "check"]
    /\ UNCHANGED <<stores, editing, cache, epoch, retired, handlerVars, given,
                   tries, built, result, callerVars, syncVars, known>>

\* A bug: the flight that took mu never releases it.
StillLocked(r) == mu

\* mu is released by the deferred Unlock of the flight that holds it.
Unlocked(r) == IF mu = r THEN None ELSE mu

ReturnCached(r) ==
    /\ pc[r] = "check"
    /\ Cached(r)
    /\ result' = [result EXCEPT ![r] = cache[r]]
    /\ pc' = [pc EXCEPT ![r] = "done"]
    /\ mu' = Unlocked(r)
    /\ UNCHANGED <<stores, editing, cache, epoch, retired, handlerVars, given,
                   loaded, tries, built, callerVars, syncVars, known>>

\* A handler object nothing refers to: never allocated, or closed and forgotten.
Unreferenced(h) ==
    /\ life[h] \in {"unused", "closed", "expired"}
    /\ \A q \in Callers : held[q] # h
    /\ \A r \in Routes : pc[r] = "done" => result[r] # h

\* The definition compiled when the flight of r reads the store: the stored
\* one, or the caller's copy when the route has been deleted meanwhile.
Current(r) == IF routes[r] # None THEN routes[r] ELSE given[r]

StartCompile(r, h) ==
    /\ pc[r] = "check"
    /\ ~Cached(r)
    /\ Unreferenced(h)
    /\ life' = [life EXCEPT ![h] = "building"]
    /\ def' = [def EXCEPT ![h] = Current(r)]
    /\ seen' = [seen EXCEPT ![h] = Unread]
    /\ refused' = refused \ {h}
    /\ active' = [active EXCEPT ![h] = 0]
    /\ built' = [built EXCEPT ![r] = h]
    /\ pc' = [pc EXCEPT ![r] = "compile"]
    /\ UNCHANGED <<stores, editing, cache, epoch, mu, retired, aged, checked, given,
                   loaded, tries, result, callerVars, syncVars, known>>

\* compile reads the services and middlewares the definition names one by one.
ReadPart(r, p) ==
    /\ pc[r] = "compile"
    /\ p \in Uses[def[built[r]]]
    /\ seen[built[r]][p] = None
    /\ seen' = [seen EXCEPT ![built[r]][p] = parts[p]]
    /\ UNCHANGED <<stores, editing, cache, epoch, mu, retired, life, def, refused,
                   aged, checked, active, flightVars, callerVars, syncVars, known>>

\* ApplyRouteMiddlewares returns the chain, or a refusal when a security
\* middleware could not be built.
FinishCompile(r) ==
    /\ pc[r] = "compile"
    /\ \A p \in Uses[def[built[r]]] : seen[built[r]][p] # None
    /\ \/ refused' = refused
       \/ MayRefuse /\ refused' = refused \cup {built[r]}
    /\ pc' = [pc EXCEPT ![r] = "store"]
    /\ UNCHANGED <<stores, editing, cache, epoch, mu, retired, life, def, seen, aged,
                   checked, active, given, loaded, tries, built, result, callerVars,
                   syncVars, known>>

\* A bug: only a direct replacement hands its conclusions on.
InheritsDirectly(r) == cache[r] # None /\ cache[r] \in checked

\* inheritHealthLocked: a handler stored for r starts from the conclusions of
\* the one it replaces, else from those kept for the route.
Inherits(r) == IF cache[r] # None THEN cache[r] \in checked ELSE r \in retired

\* The attempt may store: it holds mu, or nothing was dropped since it began.
MayStore(r) == mu = r \/ (mu = None /\ loaded[r] = epoch)

\* storeLocked.
Store(r) ==
    /\ pc[r] = "store"
    /\ MayStore(r)
    /\ cache' = [cache EXCEPT ![r] = built[r]]
    /\ life' = [h \in Handlers |-> IF h = built[r] THEN "cached"
                                   ELSE IF h = cache[r] THEN "draining"
                                   ELSE life[h]]
    /\ checked' = IF Inherits(r) THEN checked \cup {built[r]} ELSE checked
    /\ retired' = IF cache[r] = None THEN retired \ {r} ELSE retired
    /\ result' = [result EXCEPT ![r] = built[r]]
    /\ built' = [built EXCEPT ![r] = None]
    /\ pc' = [pc EXCEPT ![r] = "done"]
    /\ mu' = Unlocked(r)
    /\ UNCHANGED <<stores, editing, epoch, def, seen, refused, aged, active, given,
                   loaded, tries, callerVars, syncVars, known>>

\* A bug: the chain is thrown away without closing its handler.
ForgetBuild(r) ==
    /\ pc[r] = "store"
    /\ mu = None /\ loaded[r] # epoch
    /\ built' = [built EXCEPT ![r] = None]
    /\ tries' = [tries EXCEPT ![r] = @ + 1]
    /\ pc' = [pc EXCEPT ![r] = "attempt"]
    /\ UNCHANGED <<stores, editing, cache, epoch, mu, retired, handlerVars, given,
                   loaded, result, callerVars, syncVars, known>>

\* storeIfCurrent refused: an invalidation landed mid-build, so ph.Close() and
\* build again.
Discard(r) ==
    /\ pc[r] = "store"
    /\ mu = None /\ loaded[r] # epoch
    /\ Close(built[r], "closed")
    /\ built' = [built EXCEPT ![r] = None]
    /\ tries' = [tries EXCEPT ![r] = @ + 1]
    /\ pc' = [pc EXCEPT ![r] = "attempt"]
    /\ UNCHANGED <<stores, editing, cache, epoch, mu, retired, refused, active,
                   given, loaded, result, callerVars, syncVars, known>>

\* The singleflight call ends: everyone waiting on it gets its result.
EndFlight(r) ==
    LET waiting == {q \in Callers : cpc[q] = "waiting" /\ copy[q][1] = r} IN
    /\ pc[r] = "done"
    /\ pc' = [pc EXCEPT ![r] = "idle"]
    /\ cpc' = [q \in Callers |-> IF q \in waiting THEN "holding" ELSE cpc[q]]
    /\ held' = [q \in Callers |-> IF q \in waiting THEN result[r] ELSE held[q]]
    /\ given' = [given EXCEPT ![r] = None]
    /\ loaded' = [loaded EXCEPT ![r] = 0]
    /\ tries' = [tries EXCEPT ![r] = 0]
    /\ result' = [result EXCEPT ![r] = None]
    /\ UNCHANGED <<stores, editing, cache, epoch, mu, retired, handlerVars, built,
                   copy, syncVars, known>>

-----------------------------------------------------------------------------
(* Handlers: health checks, drains and the age of a refusal.                *)

\* A health check of a handler that is not closed reaches a conclusion.
Check(h) ==
    /\ HealthChecked
    /\ life[h] \in {"building", "cached", "draining"}
    /\ h \notin checked
    /\ checked' = checked \cup {h}
    /\ UNCHANGED <<stores, editing, cache, epoch, mu, retired, life, def, seen,
                   refused, aged, active, flightVars, callerVars, syncVars>>
    /\ known' = known \cup {r \in Routes : cache[r] = h}

\* DrainAndClose: the handler is closed once no request is counted.
DrainedClose(h) ==
    /\ life[h] = "draining"
    /\ active[h] = 0
    /\ Close(h, "closed")
    /\ UNCHANGED <<stores, editing, cache, epoch, mu, retired, refused, active,
                   flightVars, callerVars, syncVars, known>>

\* DrainAndClose: requests are still counted when the drain timeout fires.
DrainExpires(h) ==
    /\ life[h] = "draining"
    /\ active[h] # 0
    /\ Close(h, "expired")
    /\ UNCHANGED <<stores, editing, cache, epoch, mu, retired, refused, active,
                   flightVars, callerVars, syncVars, known>>

\* refusalRetry has passed since a cached refusal was built.
Age(r) ==
    /\ cache[r] # None
    /\ cache[r] \in refused \ aged
    /\ aged' = aged \cup {cache[r]}
    /\ UNCHANGED <<stores, editing, cache, epoch, mu, retired, life, def, seen,
                   refused, checked, active, flightVars, callerVars, syncVars, known>>

-----------------------------------------------------------------------------
(* Sync: pre-warm every enabled route, then collect what deleted ones left. *)

SyncList ==
    /\ sync = "idle"
    /\ sync' = "warming"
    /\ todo' = {<<r, routes[r]>> : r \in {x \in Routes :
                                    routes[x] # None /\ routes[x] \notin Disabled}}
    /\ UNCHANGED <<stores, editing, cache, epoch, mu, retired, handlerVars,
                   flightVars, callerVars, known>>

SyncWarm ==
    /\ sync = "warming"
    /\ cpc[Syncer] = "idle"
    /\ \E c \in todo :
          /\ todo' = todo \ {c}
          /\ copy' = [copy EXCEPT ![Syncer] = c]
    /\ cpc' = [cpc EXCEPT ![Syncer] = "selected"]
    /\ UNCHANGED <<stores, editing, cache, epoch, mu, retired, handlerVars,
                   flightVars, held, sync, known>>

Absent == {r \in Routes : routes[r] = None}

\* A cached chain of a route that is no longer stored.
Orphaned == {r \in Absent : cache[r] # None}

\* A bug: what deleted routes left is dropped, except from the cache itself.
SyncRetain ==
    /\ sync = "warming" /\ todo = {} /\ cpc[Syncer] = "idle"
    /\ mu = None
    /\ retired' = retired \ Absent
    /\ known' = known \ Absent
    /\ sync' = "idle"
    /\ UNCHANGED <<stores, editing, cache, epoch, mu, handlerVars, flightVars,
                   callerVars, todo>>

\* The epoch moves only when there was an orphan; its conclusions are not kept.
SyncCollect ==
    /\ sync = "warming" /\ todo = {} /\ cpc[Syncer] = "idle"
    /\ mu = None
    /\ epoch' = IF Orphaned = {} THEN epoch ELSE epoch + 1
    /\ cache' = [r \in Routes |-> IF r \in Absent THEN None ELSE cache[r]]
    /\ life' = [h \in Handlers |->
                    IF h \in CachedFor(Absent) THEN "draining" ELSE life[h]]
    /\ retired' = retired \ Absent
    /\ known' = known \ Absent
    /\ sync' = "idle"
    /\ UNCHANGED <<stores, editing, mu, def, seen, refused, aged, checked, active,
                   flightVars, callerVars, todo>>

-----------------------------------------------------------------------------
EditorStep(w) ==
    \/ \E r \in Routes, d \in Defs : SaveRoute(w, r, d)
    \/ \E r \in Routes : DeleteRoute(w, r)
    \/ \E p \in Parts, v \in PartDefs : SavePart(w, p, v)
    \/ \E r \in Routes : InvalidateRoute(w, r)
    \/ InvalidateRoutes(w)

CallerStep(q) == Look(q) \/ Join(q) \/ Serve(q) \/ Finish(q) \/ Leave(q)

FlightStep(r) ==
    \/ Attempt(r)
    \/ ReturnCached(r)
    \/ \E h \in Handlers : StartCompile(r, h)
    \/ \E p \in Parts : ReadPart(r, p)
    \/ FinishCompile(r)
    \/ Store(r)
    \/ Discard(r)
    \/ EndFlight(r)

HandlerStep(h) == Check(h) \/ DrainedClose(h) \/ DrainExpires(h)

SyncStep == SyncList \/ SyncWarm \/ SyncCollect

Next ==
    \/ Purge
    \/ \E w \in Editors : EditorStep(w)
    \/ \E q \in Requests, r \in Routes : Select(q, r)
    \/ \E q \in Callers : CallerStep(q)
    \/ \E r \in Routes : FlightStep(r) \/ Age(r)
    \/ \E h \in Handlers : HandlerStep(h)
    \/ SyncStep

Spec == Init /\ [][Next]_vars

\* Started builds and drains run on, a request that was given a handler is
\* answered, an edit that was stored is invalidated, Sync is run by a ticker,
\* and Go's mutex, which a waiter cannot lose forever, is acquired in the end.
Fairness ==
    /\ \A r \in Routes : SF_vars(FlightStep(r))
    /\ \A q \in Callers : WF_vars(CallerStep(q))
    /\ \A h \in Handlers : WF_vars(DrainedClose(h) \/ DrainExpires(h))
    /\ \A w \in Editors :
          SF_vars(InvalidateRoutes(w) \/ \E r \in Routes : InvalidateRoute(w, r))
    /\ SF_vars(SyncStep)

FairSpec == Spec /\ Fairness

-----------------------------------------------------------------------------
Lives == {"unused", "building", "cached", "draining", "closed", "expired"}

\* Types.
TypeOK ==
    /\ routes \in [Routes -> Defs \cup {None}]
    /\ parts \in [Parts -> PartDefs]
    /\ due \in [Editors -> SUBSET Routes]
    /\ partDue \in [Editors -> Parts \cup {None}]
    /\ cache \in [Routes -> Handlers \cup {None}]
    /\ epoch \in Nat
    /\ mu \in Routes \cup {None}
    /\ retired \subseteq Routes
    /\ life \in [Handlers -> Lives]
    /\ def \in [Handlers -> Defs \cup {None}]
    /\ seen \in [Handlers -> [Parts -> PartDefs \cup {None}]]
    /\ refused \subseteq Handlers
    /\ aged \subseteq Handlers
    /\ checked \subseteq Handlers
    /\ active \in [Handlers -> Int]
    /\ pc \in [Routes -> {"idle", "attempt", "check", "compile", "store", "done"}]
    /\ given \in [Routes -> Defs \cup {None}]
    /\ loaded \in [Routes -> Nat]
    /\ tries \in [Routes -> 0..(MaxBuildAttempts - 1)]
    /\ built \in [Routes -> Handlers \cup {None}]
    /\ result \in [Routes -> Handlers \cup {None}]
    /\ cpc \in [Callers -> {"idle", "selected", "missed", "waiting", "holding",
                            "serving"}]
    /\ copy \in [Callers -> (Routes \cup {None}) \X (Defs \cup {None})]
    /\ held \in [Callers -> Handlers \cup {None}]
    /\ sync \in {"idle", "warming"}
    /\ todo \subseteq Routes \X Defs
    /\ known \subseteq Routes

\* An editor still has to drop the cached chain of r.
InvalidationDue(r) ==
    \E w \in Editors : r \in due[w] \/ r \in Naming(partDue[w])

\* Handler h was compiled from the configuration stored for r now.
UpToDate(h, r) ==
    /\ def[h] = routes[r]
    /\ \A p \in Uses[routes[r]] : seen[h][p] = parts[p]

\* A chain compiled from configuration that has since changed is not left in the
\* cache: whatever builds, edits and purges interleave, the chain cached for a
\* stored route reflects what is stored, unless the edit that changed it has yet
\* to invalidate it (build, current and the epoch).
CacheIsCurrent ==
    \A r \in Routes :
        cache[r] # None /\ routes[r] # None
            => UpToDate(cache[r], r) \/ InvalidationDue(r)

-----------------------------------------------------------------------------
(* The cache as its users see it.                                           *)

\* What a route is configured with: its definition and the parts it names.
Configured(r) ==
    IF routes[r] = None THEN None
    ELSE <<routes[r], [p \in Uses[routes[r]] |-> parts[p]]>>

\* What the chain cached for a route was compiled from.
Compiled(r) ==
    IF cache[r] = None THEN None
    ELSE <<def[cache[r]], [p \in Uses[def[cache[r]]] |-> seen[cache[r]][p]]>>

Atomic == INSTANCE AtomicCache WITH
    config <- [r \in Routes |-> Configured(r)],
    served <- [r \in Routes |-> Compiled(r)],
    owed <- {r \in Routes : InvalidationDue(r)}

\* A build reads the route and its parts one after the other, without a lock and
\* over many steps, and is thrown away when the epoch moved: to those who use the
\* cache it is as though every chain were compiled in one step, at the moment it
\* is stored (build, storeIfCurrent).
CompilesAtomically == Atomic!Spec

-----------------------------------------------------------------------------
\* No handler is lost: one that was built and is not closed is being built by a
\* flight, cached for exactly one route, or draining; and nothing closed or
\* draining is cached (storeLocked, Discard's Close, retireHandlerLocked).
HandlersOwned ==
    \A h \in Handlers :
        /\ life[h] = "cached" <=> \E r \in Routes : cache[r] = h
        /\ life[h] = "building"
             <=> \E r \in Routes : built[r] = h /\ pc[r] \in {"compile", "store"}
        /\ \A r, s \in Routes : cache[r] = h /\ cache[s] = h => r = s

\* What health checks learned of a route's targets survives every rebuild: once
\* a cached handler had conclusions, each handler cached after it has some, until
\* the route is deleted and collected (inheritHealthLocked, retireHandlerLocked).
HealthNotForgotten ==
    \A r \in known : cache[r] # None => cache[r] \in checked

\* A build ends, even when every attempt is overtaken by an invalidation: the
\* last one holds invalidations off (maxBuildAttempts).
BuildsEnd == \A r \in Routes : pc[r] # "idle" ~> pc[r] = "idle"

\* What a deleted route left in the cache is collected by Sync.
OrphansCollected == \A r \in Routes : r \in Orphaned ~> r \notin Orphaned
=============================================================================
