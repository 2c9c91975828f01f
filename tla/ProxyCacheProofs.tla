-------------------------- MODULE ProxyCacheProofs --------------------------
(* What is proved of the proxy cache, for any number of routes, parts,      *)
(* handlers, requests and editors: types, that a cached chain is current,   *)
(* that handlers are owned, that what health checks learned is not          *)
(* forgotten, and that the cache implements AtomicCache: every step of it   *)
(* is an edit, a removal or the compilation of a chain in one step, or      *)
(* changes nothing that the users of the cache see.                         *)
EXTENDS ProxyCache, FiniteSetTheorems, TLAPS

USE ZenonT(20), SMTT(60)

-----------------------------------------------------------------------------
(* Type correctness.                                                        *)

\* The steps of a flight between taking its ticket (the epoch, or mu) and
\* returning; at the last two it owns a handler.
Working == {"check", "compile", "store"}
Compiling == {"compile", "store"}

\* Callers carry a route they selected; flights compile a definition of it.
CallersOK ==
    \A q \in Callers :
        cpc[q] \in {"selected", "missed", "waiting"} => copy[q] \in Routes \X Defs

FlightsOK ==
    \A r \in Routes :
        /\ pc[r] # "idle" => given[r] \in Defs
        /\ pc[r] \in Compiling => built[r] \in Handlers

\* mu is held by a flight on its last attempt, and only then.
LockOK ==
    /\ mu # None => pc[mu] \in Working
    /\ \A r \in Routes :
          pc[r] \in Working => mu = r \/ tries[r] < MaxBuildAttempts - 1

TypeInv == TypeOK /\ CallersOK /\ FlightsOK /\ LockOK

LEMMA TypeInit == Init => TypeInv
<1> SUFFICES ASSUME Init PROVE TypeInv
    OBVIOUS
<1>1. TypeOK
    BY SMTT(60), SetsAssumption, NoneAssumption, BoundsAssumption
    DEF Init, TypeOK, Callers, Unread, Lives
<1>2. CallersOK /\ FlightsOK /\ LockOK
    BY DEF Init, CallersOK, FlightsOK, LockOK, Working, Compiling
<1> QED BY <1>1, <1>2 DEF TypeInv

\* A step that only drops cached handlers keeps the types.
LEMMA DropTypes ==
    ASSUME TypeInv, NEW S \in SUBSET Routes, NEW n \in Nat, Drop(S, n),
           due' \in [Editors -> SUBSET Routes],
           partDue' \in [Editors -> Parts \cup {None}]
    PROVE  TypeInv'
<1>1. cache' \in [Routes -> Handlers \cup {None}]
    BY DEF Drop, TypeInv, TypeOK
<1>2. life' \in [Handlers -> Lives]
    BY DEF Drop, TypeInv, TypeOK, Lives
<1>3. retired' \subseteq Routes /\ epoch' \in Nat
    BY SMTT(60) DEF Drop, TypeInv, TypeOK
<1>4. TypeOK'
    BY <1>1, <1>2, <1>3 DEF Drop, TypeInv, TypeOK, stores, flightVars, callerVars,
       syncVars
<1>5. CallersOK' /\ FlightsOK' /\ LockOK'
    BY DEF Drop, TypeInv, CallersOK, FlightsOK, LockOK, stores, flightVars, callerVars
<1> QED BY <1>4, <1>5 DEF TypeInv

LEMMA EditorTypes ==
    ASSUME TypeInv, NEW w \in Editors, EditorStep(w)
    PROVE  TypeInv'
<1> USE DEF TypeInv
<1>1. ASSUME NEW r \in Routes, NEW d \in Defs, SaveRoute(w, r, d) PROVE TypeInv'
  <2>1. routes' \in [Routes -> Defs \cup {None}] /\ due' \in [Editors -> SUBSET Routes]
      BY <1>1 DEF SaveRoute, TypeOK
  <2>2. TypeOK'
      BY <1>1, <2>1 DEF SaveRoute, TypeOK, handlerVars, flightVars, callerVars, syncVars
  <2>3. CallersOK' /\ FlightsOK' /\ LockOK'
      BY <1>1 DEF SaveRoute, CallersOK, FlightsOK, LockOK, handlerVars, flightVars,
         callerVars
  <2> QED BY <2>2, <2>3
<1>2. ASSUME NEW r \in Routes, DeleteRoute(w, r) PROVE TypeInv'
  <2>1. routes' \in [Routes -> Defs \cup {None}] /\ due' \in [Editors -> SUBSET Routes]
      BY <1>2 DEF DeleteRoute, TypeOK
  <2>2. TypeOK'
      BY <1>2, <2>1 DEF DeleteRoute, TypeOK, handlerVars, flightVars, callerVars,
         syncVars
  <2>3. CallersOK' /\ FlightsOK' /\ LockOK'
      BY <1>2 DEF DeleteRoute, CallersOK, FlightsOK, LockOK, handlerVars, flightVars,
         callerVars
  <2> QED BY <2>2, <2>3
<1>3. ASSUME NEW p \in Parts, NEW v \in PartDefs, SavePart(w, p, v) PROVE TypeInv'
  <2>1. parts' \in [Parts -> PartDefs] /\ partDue' \in [Editors -> Parts \cup {None}]
      BY <1>3 DEF SavePart, TypeOK
  <2>2. TypeOK'
      BY <1>3, <2>1 DEF SavePart, TypeOK, handlerVars, flightVars, callerVars, syncVars
  <2>3. CallersOK' /\ FlightsOK' /\ LockOK'
      BY <1>3 DEF SavePart, CallersOK, FlightsOK, LockOK, handlerVars, flightVars,
         callerVars
  <2> QED BY <2>2, <2>3
<1>4. ASSUME NEW r \in Routes, InvalidateRoute(w, r) PROVE TypeInv'
  <2>1. due' \in [Editors -> SUBSET Routes] /\ partDue' \in [Editors -> Parts \cup {None}]
      BY <1>4 DEF InvalidateRoute, TypeOK
  <2> QED BY <1>4, <2>1, DropTypes DEF InvalidateRoute
<1>5. ASSUME InvalidateRoutes(w) PROVE TypeInv'
  <2>1. Naming(partDue[w]) \in SUBSET Routes
      BY DEF Naming
  <2>2. Cardinality(Naming(partDue[w])) \in Nat
      BY SMTT(60), <2>1, SetsAssumption, FS_Subset, FS_CardinalityType
  <2>3. due' \in [Editors -> SUBSET Routes] /\ partDue' \in [Editors -> Parts \cup {None}]
      BY <1>5 DEF InvalidateRoutes, TypeOK
  <2> QED BY <1>5, <2>1, <2>2, <2>3, DropTypes DEF InvalidateRoutes
<1> QED BY <1>1, <1>2, <1>3, <1>4, <1>5 DEF EditorStep

\* A step of callers that leaves the stores, the cache and every flight alone.
LEMMA CallerTypes ==
    ASSUME TypeInv, NEW q \in Callers,
           CallerStep(q) \/ \E r \in Routes : Select(q, r)
    PROVE  TypeInv'
<1> USE DEF TypeInv
<1>1. ASSUME NEW r \in Routes, Select(q, r) PROVE TypeInv'
  <2>1. copy' \in [Callers -> (Routes \cup {None}) \X (Defs \cup {None})]
      BY <1>1 DEF Select, TypeOK
  <2>2. TypeOK'
      BY <1>1, <2>1 DEF Select, TypeOK, stores, editing, handlerVars, flightVars, syncVars
  <2>3. CallersOK'
    <3>1. <<r, routes[r]>> \in Routes \X Defs
        BY <1>1 DEF Select, TypeOK
    <3> QED BY <1>1, <3>1 DEF Select, CallersOK, TypeOK
  <2>4. FlightsOK' /\ LockOK'
      BY <1>1 DEF Select, FlightsOK, LockOK, handlerVars, flightVars
  <2> QED BY <2>2, <2>3, <2>4
<1>2. ASSUME Look(q) PROVE TypeInv'
  <2>1. copy[q][1] \in Routes
      BY <1>2 DEF Look, CallersOK
  <2>2. held' \in [Callers -> Handlers \cup {None}]
      BY SMTT(60), <1>2, <2>1 DEF Look, TypeOK
  <2>3. cpc' \in [Callers -> {"idle", "selected", "missed", "waiting", "holding",
                              "serving"}]
      BY <1>2 DEF Look, TypeOK
  <2>4. TypeOK'
      BY <1>2, <2>2, <2>3 DEF Look, TypeOK, stores, editing, handlerVars, flightVars,
         syncVars
  <2>5. CallersOK'
      BY <1>2 DEF Look, CallersOK, TypeOK
  <2>6. FlightsOK' /\ LockOK'
      BY <1>2 DEF Look, FlightsOK, LockOK, handlerVars, flightVars
  <2> QED BY <2>4, <2>5, <2>6
<1>3. ASSUME Join(q) PROVE TypeInv'
  <2>1. copy[q][1] \in Routes /\ copy[q][2] \in Defs
      BY <1>3 DEF Join, CallersOK
  <2>2. /\ pc' \in [Routes -> {"idle", "attempt", "check", "compile", "store", "done"}]
        /\ given' \in [Routes -> Defs \cup {None}]
        /\ cpc' \in [Callers -> {"idle", "selected", "missed", "waiting", "holding",
                                 "serving"}]
      BY <1>3, <2>1 DEF Join, TypeOK
  <2>3. TypeOK'
      BY <1>3, <2>2 DEF Join, TypeOK, stores, editing, handlerVars, syncVars
  <2>4. CallersOK'
      BY <1>3 DEF Join, CallersOK, TypeOK
  <2>5. FlightsOK'
      BY <1>3, <2>1 DEF Join, FlightsOK, TypeOK, handlerVars, Compiling
  <2>6. LockOK'
      BY <1>3, <2>1 DEF Join, LockOK, TypeOK, Working
  <2> QED BY <2>3, <2>4, <2>5, <2>6
<1>4. ASSUME Serve(q) PROVE TypeInv'
  <2>1. active' \in [Handlers -> Int]
    <3>1. active \in [Handlers -> Int]
        BY DEF TypeOK
    <3>2. active' = [active EXCEPT ![held[q]] = active[held[q]] + 1]
        BY <1>4 DEF Serve
    <3>3. CASE held[q] \in Handlers
      <4>1. active[held[q]] + 1 \in Int
          BY SMTT(60), <3>1, <3>3
      <4> QED BY <3>1, <3>2, <4>1
    <3>4. CASE held[q] \notin Handlers
        BY <3>1, <3>2, <3>4
    <3> QED BY <3>3, <3>4
  <2>5. cpc' \in [Callers -> {"idle", "selected", "missed", "waiting", "holding",
                              "serving"}]
      BY <1>4 DEF Serve, TypeOK
  <2>2. TypeOK'
      BY <1>4, <2>1, <2>5 DEF Serve, TypeOK, stores, editing, flightVars, syncVars
  <2>3. CallersOK'
      BY <1>4 DEF Serve, CallersOK, TypeOK
  <2>4. FlightsOK' /\ LockOK'
      BY <1>4 DEF Serve, FlightsOK, LockOK, flightVars
  <2> QED BY <2>2, <2>3, <2>4
<1>6. ASSUME Finish(q) PROVE TypeInv'
  <2>1. active' \in [Handlers -> Int]
    <3>1. active \in [Handlers -> Int]
        BY DEF TypeOK
    <3>2. active' = [active EXCEPT ![held[q]] = active[held[q]] - 1]
        BY <1>6 DEF Finish
    <3>3. CASE held[q] \in Handlers
      <4>1. active[held[q]] - 1 \in Int
          BY SMTT(60), <3>1, <3>3
      <4> QED BY <3>1, <3>2, <4>1
    <3>4. CASE held[q] \notin Handlers
        BY <3>1, <3>2, <3>4
    <3> QED BY <3>3, <3>4
  <2>6. /\ cpc' \in [Callers -> {"idle", "selected", "missed", "waiting", "holding",
                                 "serving"}]
        /\ held' \in [Callers -> Handlers \cup {None}]
      BY <1>6 DEF Finish, TypeOK
  <2>2. copy' \in [Callers -> (Routes \cup {None}) \X (Defs \cup {None})]
      BY <1>6 DEF Finish, TypeOK
  <2>3. TypeOK'
      BY <1>6, <2>1, <2>2, <2>6 DEF Finish, TypeOK, stores, editing, flightVars, syncVars
  <2>4. CallersOK'
      BY <1>6 DEF Finish, CallersOK, TypeOK
  <2>5. FlightsOK' /\ LockOK'
      BY <1>6 DEF Finish, FlightsOK, LockOK, flightVars
  <2> QED BY <2>3, <2>4, <2>5
<1>5. ASSUME Leave(q) PROVE TypeInv'
  <2>1. TypeOK'
      BY <1>5 DEF Leave, TypeOK, stores, editing, handlerVars, flightVars, syncVars
  <2>2. CallersOK'
      BY <1>5 DEF Leave, CallersOK, TypeOK
  <2>3. FlightsOK' /\ LockOK'
      BY <1>5 DEF Leave, FlightsOK, LockOK, handlerVars, flightVars
  <2> QED BY <2>1, <2>2, <2>3
<1> QED BY <1>1, <1>2, <1>3, <1>4, <1>5, <1>6 DEF CallerStep

LEMMA FlightTypes ==
    ASSUME TypeInv, NEW r \in Routes, FlightStep(r)
    PROVE  TypeInv'
<1> USE DEF TypeInv
<1>1. ASSUME Attempt(r) PROVE TypeInv'
  <2>8. epoch \in Nat /\ loaded \in [Routes -> Nat] /\ mu \in Routes \cup {None}
      BY DEF TypeOK
  <2>9. loaded' \in [Routes -> Nat]
      BY <1>1, <2>8 DEF Attempt
  <2>10. mu' \in Routes \cup {None}
      BY <1>1, <2>8 DEF Attempt
  <2>6. pc' \in [Routes -> {"idle", "attempt", "check", "compile", "store", "done"}]
      BY <1>1 DEF Attempt, TypeOK
  <2>7. UNCHANGED <<stores, editing, cache, epoch, retired, handlerVars, given,
                    tries, built, result, callerVars, syncVars, known>>
      BY <1>1 DEF Attempt
  <2>2. TypeOK'
      BY <2>9, <2>10, <2>6, <2>7 DEF TypeOK, stores, editing, handlerVars, callerVars, syncVars
  <2>3. CallersOK' /\ FlightsOK'
      BY <1>1 DEF Attempt, CallersOK, FlightsOK, TypeOK, callerVars, Compiling
  <2>4. tries[r] < MaxBuildAttempts - 1 \/ mu' = r
      BY <1>1 DEF Attempt
  <2>5. LockOK'
    <3>1. CASE tries[r] < MaxBuildAttempts - 1 /\ mu' = mu
        BY SMTT(60), <1>1, <3>1, NoneAssumption DEF Attempt, LockOK, TypeOK, Working
    <3>2. CASE mu = None /\ mu' = r
        BY <1>1, <3>2, NoneAssumption DEF Attempt, LockOK, TypeOK, Working
    <3> QED BY <1>1, <3>1, <3>2 DEF Attempt
  <2> QED BY <2>2, <2>3, <2>5
<1>2. ASSUME ReturnCached(r) PROVE TypeInv'
  <2>1. result' \in [Routes -> Handlers \cup {None}] /\ mu' \in Routes \cup {None}
      BY <1>2 DEF ReturnCached, TypeOK, Unlocked
  <2>2. TypeOK'
      BY <1>2, <2>1 DEF ReturnCached, TypeOK, stores, editing, handlerVars, callerVars,
         syncVars
  <2>3. CallersOK' /\ FlightsOK'
      BY <1>2 DEF ReturnCached, CallersOK, FlightsOK, TypeOK, callerVars, Compiling
  <2>4. LockOK'
      BY <1>2, NoneAssumption DEF ReturnCached, LockOK, TypeOK, Working, Unlocked
  <2> QED BY <2>2, <2>3, <2>4
<1>3. ASSUME NEW h \in Handlers, StartCompile(r, h) PROVE TypeInv'
  <2>1. Current(r) \in Defs
      BY <1>3 DEF StartCompile, Current, FlightsOK, TypeOK
  <2>2. /\ life' \in [Handlers -> Lives]
        /\ def' \in [Handlers -> Defs \cup {None}]
        /\ built' \in [Routes -> Handlers \cup {None}]
      BY <1>3, <2>1 DEF StartCompile, TypeOK, Lives
  <2>3. seen' \in [Handlers -> [Parts -> PartDefs \cup {None}]]
      BY <1>3 DEF StartCompile, TypeOK, Unread
  <2>4. /\ active' \in [Handlers -> Int]
        /\ pc' \in [Routes -> {"idle", "attempt", "check", "compile", "store", "done"}]
        /\ refused' \subseteq Handlers
      BY SMTT(60), <1>3 DEF StartCompile, TypeOK
  <2>5. TypeOK'
      BY <1>3, <2>2, <2>3, <2>4 DEF StartCompile, TypeOK, stores, editing, callerVars,
         syncVars
  <2>6. CallersOK' /\ FlightsOK'
      BY <1>3 DEF StartCompile, CallersOK, FlightsOK, TypeOK, callerVars, Compiling
  <2>7. LockOK'
      BY <1>3, NoneAssumption DEF StartCompile, LockOK, TypeOK, Working
  <2> QED BY <2>5, <2>6, <2>7
<1>4. ASSUME NEW p \in Parts, ReadPart(r, p) PROVE TypeInv'
  <2>1. built[r] \in Handlers
      BY <1>4 DEF ReadPart, FlightsOK, Compiling
  <2>2. seen' \in [Handlers -> [Parts -> PartDefs \cup {None}]]
      BY <1>4, <2>1 DEF ReadPart, TypeOK
  <2>3. TypeOK'
      BY <1>4, <2>2 DEF ReadPart, TypeOK, stores, editing, flightVars, callerVars,
         syncVars
  <2>4. CallersOK' /\ FlightsOK' /\ LockOK'
      BY <1>4 DEF ReadPart, CallersOK, FlightsOK, LockOK, flightVars, callerVars
  <2> QED BY <2>3, <2>4
<1>5. ASSUME FinishCompile(r) PROVE TypeInv'
  <2>1. built[r] \in Handlers
      BY <1>5 DEF FinishCompile, FlightsOK, Compiling
  <2>2. /\ refused' \subseteq Handlers
        /\ pc' \in [Routes -> {"idle", "attempt", "check", "compile", "store", "done"}]
      BY <1>5, <2>1 DEF FinishCompile, TypeOK
  <2>3. TypeOK'
      BY <1>5, <2>2 DEF FinishCompile, TypeOK, stores, editing, callerVars, syncVars
  <2>4. CallersOK' /\ FlightsOK'
      BY <1>5 DEF FinishCompile, CallersOK, FlightsOK, TypeOK, callerVars, Compiling
  <2>5. LockOK'
      BY <1>5, NoneAssumption DEF FinishCompile, LockOK, TypeOK, Working
  <2> QED BY <2>3, <2>4, <2>5
<1>6. ASSUME Store(r) PROVE TypeInv'
  <2>1. built[r] \in Handlers
      BY <1>6 DEF Store, FlightsOK, Compiling
  <2>2. /\ cache' \in [Routes -> Handlers \cup {None}]
        /\ result' \in [Routes -> Handlers \cup {None}]
        /\ built' \in [Routes -> Handlers \cup {None}]
        /\ mu' \in Routes \cup {None}
      BY <1>6, <2>1 DEF Store, TypeOK, Unlocked
  <2>3. life' \in [Handlers -> Lives]
      BY <1>6 DEF Store, TypeOK, Lives
  <2>4. checked' \subseteq Handlers /\ retired' \subseteq Routes
      BY <1>6, <2>1 DEF Store, TypeOK
  <2>5. pc' \in [Routes -> {"idle", "attempt", "check", "compile", "store", "done"}]
      BY <1>6 DEF Store, TypeOK
  <2>6. TypeOK'
      BY <1>6, <2>2, <2>3, <2>4, <2>5 DEF Store, TypeOK, stores, editing, callerVars,
         syncVars
  <2>7. CallersOK' /\ FlightsOK'
      BY <1>6 DEF Store, CallersOK, FlightsOK, TypeOK, callerVars, Compiling
  <2>8. LockOK'
      BY <1>6, NoneAssumption DEF Store, LockOK, TypeOK, Working, Unlocked
  <2> QED BY <2>6, <2>7, <2>8
<1>7. ASSUME Discard(r) PROVE TypeInv'
  <2>1. built[r] \in Handlers
      BY <1>7 DEF Discard, FlightsOK, Compiling
  <2>2. tries[r] < MaxBuildAttempts - 1
      BY <1>7, NoneAssumption DEF Discard, LockOK, Working
  <2>3. tries' \in [Routes -> 0..(MaxBuildAttempts - 1)]
      BY SMTT(60), <1>7, <2>2, BoundsAssumption DEF Discard, TypeOK
  <2>4. /\ life' \in [Handlers -> Lives]
        /\ def' \in [Handlers -> Defs \cup {None}]
        /\ aged' \subseteq Handlers
        /\ checked' \subseteq Handlers
      BY <1>7, <2>1 DEF Discard, Close, TypeOK, Lives
  <2>5. seen' \in [Handlers -> [Parts -> PartDefs \cup {None}]]
      BY <1>7, <2>1 DEF Discard, Close, TypeOK, Unread
  <2>6. /\ built' \in [Routes -> Handlers \cup {None}]
        /\ pc' \in [Routes -> {"idle", "attempt", "check", "compile", "store", "done"}]
      BY <1>7 DEF Discard, TypeOK
  <2>7. TypeOK'
      BY <1>7, <2>3, <2>4, <2>5, <2>6 DEF Discard, TypeOK, stores, editing, callerVars,
         syncVars
  <2>8. CallersOK' /\ FlightsOK'
      BY <1>7 DEF Discard, CallersOK, FlightsOK, TypeOK, callerVars, Compiling
  <2>9. LockOK'
      BY <1>7, NoneAssumption DEF Discard, LockOK, TypeOK, Working
  <2> QED BY <2>7, <2>8, <2>9
<1>8. ASSUME EndFlight(r) PROVE TypeInv'
  <2>1. /\ pc' \in [Routes -> {"idle", "attempt", "check", "compile", "store", "done"}]
        /\ given' \in [Routes -> Defs \cup {None}]
        /\ loaded' \in [Routes -> Nat]
        /\ result' \in [Routes -> Handlers \cup {None}]
      BY <1>8 DEF EndFlight, TypeOK
  <2>2. tries' \in [Routes -> 0..(MaxBuildAttempts - 1)]
      BY SMTT(60), <1>8, BoundsAssumption DEF EndFlight, TypeOK
  <2>3. /\ cpc' \in [Callers -> {"idle", "selected", "missed", "waiting", "holding",
                                 "serving"}]
        /\ held' \in [Callers -> Handlers \cup {None}]
      BY <1>8 DEF EndFlight, TypeOK
  <2>4. TypeOK'
      BY <1>8, <2>1, <2>2, <2>3 DEF EndFlight, TypeOK, stores, editing, handlerVars,
         syncVars
  <2>5. CallersOK'
      BY <1>8 DEF EndFlight, CallersOK, TypeOK
  <2>6. FlightsOK'
      BY <1>8 DEF EndFlight, FlightsOK, TypeOK, Compiling
  <2>7. LockOK'
      BY <1>8, NoneAssumption DEF EndFlight, LockOK, TypeOK, Working
  <2> QED BY <2>4, <2>5, <2>6, <2>7
<1> QED BY <1>1, <1>2, <1>3, <1>4, <1>5, <1>6, <1>7, <1>8 DEF FlightStep

LEMMA CloseTypes ==
    ASSUME TypeInv, NEW h \in Handlers, NEW how \in Lives, Close(h, how)
    PROVE  /\ life' \in [Handlers -> Lives]
           /\ def' \in [Handlers -> Defs \cup {None}]
           /\ seen' \in [Handlers -> [Parts -> PartDefs \cup {None}]]
           /\ aged' \subseteq Handlers
           /\ checked' \subseteq Handlers
<1>1. seen' \in [Handlers -> [Parts -> PartDefs \cup {None}]]
    BY DEF Close, TypeInv, TypeOK, Unread
<1>2. life' \in [Handlers -> Lives]
    BY DEF Close, TypeInv, TypeOK
<1> QED BY <1>1, <1>2 DEF Close, TypeInv, TypeOK

LEMMA HandlerTypes ==
    ASSUME TypeInv, (\E h \in Handlers : HandlerStep(h)) \/ (\E r \in Routes : Age(r))
    PROVE  TypeInv'
<1> USE DEF TypeInv
<1>1. ASSUME NEW h \in Handlers, Check(h) PROVE TypeInv'
  <2>1. TypeOK'
      BY <1>1 DEF Check, TypeOK, stores, editing, flightVars, callerVars, syncVars
  <2>2. CallersOK' /\ FlightsOK' /\ LockOK'
      BY <1>1 DEF Check, CallersOK, FlightsOK, LockOK, flightVars, callerVars
  <2> QED BY <2>1, <2>2
<1>2. ASSUME NEW h \in Handlers, DrainedClose(h) PROVE TypeInv'
  <2>1. Close(h, "closed") /\ "closed" \in Lives
      BY <1>2 DEF DrainedClose, Lives
  <2>2. TypeOK'
      BY <1>2, <2>1, CloseTypes DEF DrainedClose, TypeOK, stores, editing, flightVars,
         callerVars, syncVars
  <2>3. CallersOK' /\ FlightsOK' /\ LockOK'
      BY <1>2 DEF DrainedClose, CallersOK, FlightsOK, LockOK, flightVars, callerVars
  <2> QED BY <2>2, <2>3
<1>3. ASSUME NEW h \in Handlers, DrainExpires(h) PROVE TypeInv'
  <2>1. Close(h, "expired") /\ "expired" \in Lives
      BY <1>3 DEF DrainExpires, Lives
  <2>2. TypeOK'
      BY <1>3, <2>1, CloseTypes DEF DrainExpires, TypeOK, stores, editing, flightVars,
         callerVars, syncVars
  <2>3. CallersOK' /\ FlightsOK' /\ LockOK'
      BY <1>3 DEF DrainExpires, CallersOK, FlightsOK, LockOK, flightVars, callerVars
  <2> QED BY <2>2, <2>3
<1>4. ASSUME NEW r \in Routes, Age(r) PROVE TypeInv'
  <2>1. TypeOK'
      BY <1>4 DEF Age, TypeOK, stores, editing, flightVars, callerVars, syncVars
  <2>2. CallersOK' /\ FlightsOK' /\ LockOK'
      BY <1>4 DEF Age, CallersOK, FlightsOK, LockOK, flightVars, callerVars
  <2> QED BY <2>1, <2>2
<1> QED BY <1>1, <1>2, <1>3, <1>4 DEF HandlerStep

LEMMA SyncTypes ==
    ASSUME TypeInv, SyncStep
    PROVE  TypeInv'
<1> USE DEF TypeInv
<1>0. Syncer \in Callers
    BY DEF Callers
<1>1. ASSUME SyncList PROVE TypeInv'
  <2>1. todo' \subseteq Routes \X Defs
      BY SMTT(60), <1>1 DEF SyncList, TypeOK
  <2>2. TypeOK'
      BY <1>1, <2>1 DEF SyncList, TypeOK, stores, editing, handlerVars, flightVars,
         callerVars
  <2>3. CallersOK' /\ FlightsOK' /\ LockOK'
      BY <1>1 DEF SyncList, CallersOK, FlightsOK, LockOK, flightVars, callerVars,
         handlerVars
  <2> QED BY <2>2, <2>3
<1>2. ASSUME SyncWarm PROVE TypeInv'
  <2>1. PICK c \in todo : /\ todo' = todo \ {c}
                          /\ copy' = [copy EXCEPT ![Syncer] = c]
      BY <1>2 DEF SyncWarm
  <2>2. c \in Routes \X Defs
      BY <2>1 DEF TypeOK
  <2>3. /\ copy' \in [Callers -> (Routes \cup {None}) \X (Defs \cup {None})]
        /\ todo' \subseteq Routes \X Defs
      BY <2>1, <2>2 DEF TypeOK
  <2>4. cpc' \in [Callers -> {"idle", "selected", "missed", "waiting", "holding",
                              "serving"}]
      BY <1>2 DEF SyncWarm, TypeOK
  <2>5. TypeOK'
      BY <1>2, <2>3, <2>4 DEF SyncWarm, TypeOK, stores, editing, handlerVars, flightVars
  <2>6. CallersOK'
      BY <1>0, <1>2, <2>1, <2>2 DEF SyncWarm, CallersOK, TypeOK
  <2>7. FlightsOK' /\ LockOK'
      BY <1>2 DEF SyncWarm, FlightsOK, LockOK, flightVars, handlerVars
  <2> QED BY <2>5, <2>6, <2>7
<1>3. ASSUME SyncCollect PROVE TypeInv'
  <2>1. /\ cache' \in [Routes -> Handlers \cup {None}]
        /\ retired' \subseteq Routes
        /\ known' \subseteq Routes
      BY <1>3 DEF SyncCollect, TypeOK
  <2>2. life' \in [Handlers -> Lives]
      BY <1>3 DEF SyncCollect, TypeOK, Lives
  <2>3. epoch' \in Nat
      BY SMTT(60), <1>3 DEF SyncCollect, TypeOK
  <2>4. TypeOK'
      BY <1>3, <2>1, <2>2, <2>3 DEF SyncCollect, TypeOK, stores, editing, flightVars,
         callerVars
  <2>5. CallersOK' /\ FlightsOK' /\ LockOK'
      BY <1>3 DEF SyncCollect, CallersOK, FlightsOK, LockOK, flightVars, callerVars
  <2> QED BY <2>4, <2>5
<1> QED BY <1>1, <1>2, <1>3 DEF SyncStep

LEMMA TypeNext == TypeInv /\ [Next]_vars => TypeInv'
<1> SUFFICES ASSUME TypeInv, [Next]_vars PROVE TypeInv'
    OBVIOUS
<1>1. CASE Purge
  <2>1. /\ due' \in [Editors -> SUBSET Routes]
        /\ partDue' \in [Editors -> Parts \cup {None}]
      BY <1>1 DEF Purge, editing, TypeInv, TypeOK
  <2> QED BY <1>1, <2>1, DropTypes DEF Purge
<1>2. CASE \E q \in Requests, r \in Routes : Select(q, r)
    BY <1>2, CallerTypes DEF Callers
<1>3. CASE UNCHANGED vars
  <2>1. TypeOK'
      BY <1>3 DEF vars, TypeInv, TypeOK, stores, editing, handlerVars, flightVars,
         callerVars, syncVars
  <2>2. CallersOK' /\ FlightsOK' /\ LockOK'
      BY <1>3 DEF vars, TypeInv, CallersOK, FlightsOK, LockOK, handlerVars, flightVars,
         callerVars
  <2> QED BY <2>1, <2>2 DEF TypeInv
<1> QED BY <1>1, <1>2, <1>3, EditorTypes, CallerTypes, FlightTypes, HandlerTypes,
           SyncTypes DEF Next

\* Every variable keeps its type; in particular a build is thrown away at most
\* maxBuildAttempts - 1 times, because its last attempt holds mu.
THEOREM TypeCorrect == Spec => []TypeOK
<1>1. Spec => []TypeInv
    BY TypeInit, TypeNext, PTL DEF Spec
<1>2. TypeInv => TypeOK
    BY DEF TypeInv
<1> QED BY <1>1, <1>2, PTL

-----------------------------------------------------------------------------
(* The invariant behind CacheIsCurrent and HandlersOwned, and the steps     *)
(* that build nothing: callers, editors, Sync and drains.                   *)

(* Ownership of handlers, and currency of what is cached or about to be.    *)

CachedOwned ==
    /\ \A r \in Routes : cache[r] # None => life[cache[r]] = "cached"
    /\ \A h \in Handlers : life[h] = "cached" => \E r \in Routes : cache[r] = h
    /\ \A r, s \in Routes : cache[r] # None /\ cache[r] = cache[s] => r = s

BuiltOwned ==
    /\ \A r \in Routes : pc[r] \in Compiling => life[built[r]] = "building"
    /\ \A h \in Handlers :
          life[h] = "building" => \E r \in Routes : pc[r] \in Compiling /\ built[r] = h
    /\ \A r, s \in Routes :
          pc[r] \in Compiling /\ pc[s] \in Compiling /\ built[r] = built[s] => r = s

\* No flight recorded an epoch still to come.
TicketsOK == \A r \in Routes : loaded[r] <= epoch

\* A flight has read every part its definition names before it stores.
BuildsRead ==
    \A r \in Routes :
        /\ pc[r] \in Compiling => def[built[r]] \in Defs
        /\ pc[r] = "store" =>
              \A p \in Uses[def[built[r]]] : seen[built[r]][p] # None

\* What handler h has read so far is what is stored for r now.
CurrentSoFar(h, r) ==
    /\ def[h] = routes[r]
    /\ \A p \in Uses[routes[r]] : seen[h][p] = None \/ seen[h][p] = parts[p]

\* The flight of r may still store what it is compiling.
Eligible(r) == pc[r] \in Compiling /\ routes[r] # None /\ (mu = r \/ loaded[r] = epoch)

BuildsCurrent ==
    \A r \in Routes :
        Eligible(r) => CurrentSoFar(built[r], r) \/ InvalidationDue(r)

OwnInv == CachedOwned /\ BuiltOwned
CurInv == TicketsOK /\ BuildsRead /\ BuildsCurrent /\ CacheIsCurrent
IInv == OwnInv /\ CurInv

LEMMA IInvInit == Init => IInv
<1> SUFFICES ASSUME Init PROVE IInv
    OBVIOUS
<1>1. CachedOwned /\ BuiltOwned
    BY DEF Init, CachedOwned, BuiltOwned, Compiling
<1>2. TicketsOK /\ BuildsRead /\ BuildsCurrent /\ CacheIsCurrent
    BY SMTT(60) DEF Init, TicketsOK, BuildsRead, BuildsCurrent, CacheIsCurrent, Eligible, Compiling
<1> QED BY <1>1, <1>2 DEF IInv, OwnInv, CurInv

\* A step that moves no handler, changes no stored configuration and lets no
\* flight begin to compile.
Quiet ==
    /\ UNCHANGED <<routes, parts, due, partDue, cache, epoch, life, def, seen, built>>
    /\ \A r \in Routes :
          /\ pc'[r] \in Compiling => pc'[r] = pc[r] /\ loaded'[r] = loaded[r]
          /\ pc[r] \in Compiling => pc'[r] = pc[r]
          /\ pc'[r] \in Compiling /\ mu' = r => mu = r
          /\ loaded'[r] <= epoch

LEMMA QuietStep ==
    ASSUME TypeInv, IInv, Quiet
    PROVE  IInv'
<1>1. CachedOwned'
    BY DEF Quiet, IInv, OwnInv, CachedOwned
<1>2. BuiltOwned'
    BY DEF Quiet, IInv, OwnInv, BuiltOwned
<1>3. TicketsOK'
    BY DEF Quiet, TicketsOK
<1>4. BuildsRead'
    BY DEF Quiet, IInv, CurInv, BuildsRead, Compiling
<1>5. ASSUME NEW r \in Routes PROVE InvalidationDue(r)' = InvalidationDue(r)
    BY DEF Quiet, InvalidationDue, Naming
<1>6. BuildsCurrent'
  <2> SUFFICES ASSUME NEW r \in Routes, Eligible(r)'
               PROVE  CurrentSoFar(built[r], r)' \/ InvalidationDue(r)'
      BY DEF BuildsCurrent
  <2>1. Eligible(r)
      BY DEF Eligible, Quiet
  <2>2. CurrentSoFar(built[r], r) \/ InvalidationDue(r)
      BY <2>1 DEF IInv, CurInv, BuildsCurrent
  <2>3. CurrentSoFar(built[r], r) => CurrentSoFar(built[r], r)'
      BY DEF CurrentSoFar, Quiet
  <2> QED BY <1>5, <2>2, <2>3
<1>7. CacheIsCurrent'
    BY <1>5 DEF Quiet, IInv, CurInv, CacheIsCurrent, UpToDate
<1> QED BY <1>1, <1>2, <1>3, <1>4, <1>6, <1>7 DEF IInv, OwnInv, CurInv

LEMMA CallersQuiet ==
    ASSUME TypeInv, IInv, NEW q \in Callers,
           CallerStep(q) \/ \E r \in Routes : Select(q, r)
    PROVE  IInv'
<1> USE DEF IInv, CurInv, TicketsOK
<1>1. ASSUME NEW r \in Routes, Select(q, r) PROVE Quiet
    BY <1>1 DEF Select, Quiet, stores, editing, handlerVars, flightVars
<1>2. ASSUME Look(q) PROVE Quiet
    BY <1>2 DEF Look, Quiet, stores, editing, handlerVars, flightVars
<1>3. ASSUME Join(q) PROVE Quiet
  <2>1. UNCHANGED <<routes, parts, due, partDue, cache, epoch, life, def, seen, built,
                    loaded, mu>>
      BY <1>3 DEF Join, stores, editing, handlerVars
  <2>2. \A r \in Routes : pc'[r] = pc[r] \/ (pc[r] = "idle" /\ pc'[r] = "attempt")
      BY <1>3 DEF Join, TypeInv, TypeOK
  <2> QED BY <2>1, <2>2 DEF Quiet, Compiling
<1>4. ASSUME Serve(q) PROVE Quiet
    BY <1>4 DEF Serve, Quiet, stores, editing, flightVars
<1>5. ASSUME Finish(q) PROVE Quiet
    BY <1>5 DEF Finish, Quiet, stores, editing, flightVars
<1>6. ASSUME Leave(q) PROVE Quiet
    BY <1>6 DEF Leave, Quiet, stores, editing, handlerVars, flightVars
<1> QED BY <1>1, <1>2, <1>3, <1>4, <1>5, <1>6, QuietStep DEF CallerStep

LEMMA MoreQuiet ==
    ASSUME TypeInv, IInv,
           \/ \E h \in Handlers : Check(h)
           \/ \E r \in Routes : Age(r) \/ Attempt(r) \/ ReturnCached(r) \/ EndFlight(r)
           \/ SyncList
           \/ SyncWarm
           \/ UNCHANGED vars
    PROVE  IInv'
<1> USE DEF IInv, CurInv, TicketsOK
<1>1. ASSUME NEW h \in Handlers, Check(h) PROVE Quiet
    BY <1>1 DEF Check, Quiet, stores, editing, flightVars
<1>2. ASSUME NEW r \in Routes, Age(r) PROVE Quiet
    BY <1>2 DEF Age, Quiet, stores, editing, flightVars
<1>3. ASSUME NEW r \in Routes, Attempt(r) PROVE Quiet
  <2>1. UNCHANGED <<routes, parts, due, partDue, cache, epoch, life, def, seen, built>>
      BY <1>3 DEF Attempt, stores, editing, handlerVars
  <2>2. pc'[r] = "check" /\ pc[r] = "attempt" /\ \A s \in Routes \ {r} : pc'[s] = pc[s]
      BY <1>3 DEF Attempt, TypeInv, TypeOK
  <2>3. /\ \A s \in Routes \ {r} : loaded'[s] = loaded[s] /\ (mu' = s => mu = s)
        /\ loaded'[r] = epoch \/ loaded'[r] = loaded[r]
      BY <1>3 DEF Attempt, TypeInv, TypeOK
  <2>4. epoch <= epoch
      BY SMTT(60) DEF TypeInv, TypeOK
  <2> QED BY <2>1, <2>2, <2>3, <2>4 DEF Quiet, Compiling
<1>4. ASSUME NEW r \in Routes, ReturnCached(r) PROVE Quiet
  <2>1. UNCHANGED <<routes, parts, due, partDue, cache, epoch, life, def, seen, built,
                    loaded>>
      BY <1>4 DEF ReturnCached, stores, editing, handlerVars
  <2>2. pc'[r] = "done" /\ pc[r] = "check" /\ \A s \in Routes \ {r} : pc'[s] = pc[s]
      BY <1>4 DEF ReturnCached, TypeInv, TypeOK
  <2>3. \A s \in Routes : mu' = s => mu = s
      BY <1>4, NoneAssumption DEF ReturnCached, Unlocked
  <2> QED BY <2>1, <2>2, <2>3 DEF Quiet, Compiling
<1>5. ASSUME NEW r \in Routes, EndFlight(r) PROVE Quiet
  <2>1. UNCHANGED <<routes, parts, due, partDue, cache, epoch, life, def, seen, built, mu>>
      BY <1>5 DEF EndFlight, stores, editing, handlerVars
  <2>2. pc'[r] = "idle" /\ pc[r] = "done" /\ \A s \in Routes \ {r} : pc'[s] = pc[s]
      BY <1>5 DEF EndFlight, TypeInv, TypeOK
  <2>3. loaded'[r] = 0 /\ \A s \in Routes \ {r} : loaded'[s] = loaded[s]
      BY <1>5 DEF EndFlight, TypeInv, TypeOK
  <2>4. 0 <= epoch
      BY SMTT(60) DEF TypeInv, TypeOK
  <2> QED BY <2>1, <2>2, <2>3, <2>4 DEF Quiet, Compiling
<1>6. ASSUME SyncList PROVE Quiet
    BY <1>6 DEF SyncList, Quiet, stores, editing, handlerVars, flightVars
<1>7. ASSUME SyncWarm PROVE Quiet
    BY <1>7 DEF SyncWarm, Quiet, stores, editing, handlerVars, flightVars
<1>8. ASSUME UNCHANGED vars PROVE Quiet
    BY <1>8 DEF vars, Quiet, stores, editing, handlerVars, flightVars
<1> QED BY <1>1, <1>2, <1>3, <1>4, <1>5, <1>6, <1>7, <1>8, QuietStep

\* A store that changes leaves handlers and flights where they are, and is
\* covered by the invalidation it still owes.
LEMMA SaveStep ==
    ASSUME TypeInv, IInv,
           UNCHANGED <<cache, epoch, mu, life, def, seen, built, pc, loaded>>,
           \A r \in Routes :
              \/ routes'[r] = None
              \/ InvalidationDue(r)'
              \/ /\ routes'[r] = routes[r]
                 /\ \A p \in Uses[routes[r]] : parts'[p] = parts[p]
                 /\ InvalidationDue(r) => InvalidationDue(r)'
    PROVE  IInv'
<1>1. CachedOwned' /\ BuiltOwned'
    BY DEF IInv, OwnInv, CachedOwned, BuiltOwned
<1>2. TicketsOK' /\ BuildsRead'
    BY DEF IInv, CurInv, TicketsOK, BuildsRead
<1>3. BuildsCurrent'
  <2> SUFFICES ASSUME NEW r \in Routes, Eligible(r)', ~InvalidationDue(r)'
               PROVE  CurrentSoFar(built[r], r)'
      BY DEF BuildsCurrent
  <2>1. /\ routes'[r] = routes[r] /\ routes[r] # None
        /\ \A p \in Uses[routes[r]] : parts'[p] = parts[p]
        /\ ~InvalidationDue(r)
      BY DEF Eligible
  <2>2. Eligible(r)
      BY <2>1 DEF Eligible
  <2>3. CurrentSoFar(built[r], r)
      BY <2>1, <2>2 DEF IInv, CurInv, BuildsCurrent
  <2> QED BY <2>1, <2>3 DEF CurrentSoFar
<1>4. CacheIsCurrent'
  <2> SUFFICES ASSUME NEW r \in Routes, cache[r] # None, routes'[r] # None,
                      ~InvalidationDue(r)'
               PROVE  UpToDate(cache[r], r)'
      BY DEF CacheIsCurrent
  <2>1. /\ routes'[r] = routes[r]
        /\ \A p \in Uses[routes[r]] : parts'[p] = parts[p]
        /\ ~InvalidationDue(r)
      OBVIOUS
  <2>2. UpToDate(cache[r], r)
      BY <2>1 DEF IInv, CurInv, CacheIsCurrent
  <2> QED BY <2>1, <2>2 DEF UpToDate
<1> QED BY <1>1, <1>2, <1>3, <1>4 DEF IInv, OwnInv, CurInv

\* Taking the routes of S out of the cache.  Either the epoch moves on, so no
\* flight may store what it is compiling, or S is empty.
LEMMA DropStep ==
    ASSUME TypeInv, IInv, NEW S \in SUBSET Routes,
           mu = None,
           epoch' \in Nat, epoch' > epoch \/ (epoch' = epoch /\ S = {}),
           cache' = [r \in Routes |-> IF r \in S THEN None ELSE cache[r]],
           life' = [h \in Handlers |->
                      IF h \in CachedFor(S) THEN "draining" ELSE life[h]],
           UNCHANGED <<routes, parts, mu, def, seen, built, pc, loaded>>,
           \A r \in Routes \ S :
              routes[r] # None /\ InvalidationDue(r) => InvalidationDue(r)'
    PROVE  IInv'
<1> USE DEF IInv, OwnInv, CurInv
<1>0. /\ cache \in [Routes -> Handlers \cup {None}] /\ life \in [Handlers -> Lives]
      /\ epoch \in Nat /\ loaded \in [Routes -> Nat]
      /\ \A r \in Routes : pc[r] \in Compiling => built[r] \in Handlers
    BY DEF TypeInv, TypeOK, FlightsOK
<1>1. CachedOwned'
  <2>1. ASSUME NEW r \in Routes, cache'[r] # None PROVE life'[cache'[r]] = "cached"
    <3>1. r \notin S /\ cache'[r] = cache[r] /\ cache[r] \in Handlers
        BY <1>0, <2>1
    <3>2. cache[r] \notin CachedFor(S)
        BY <3>1, NoneAssumption DEF CachedFor, CachedOwned
    <3>3. life'[cache[r]] = life[cache[r]]
        BY <3>1, <3>2
    <3>4. life[cache[r]] = "cached"
        BY <3>1, NoneAssumption DEF CachedOwned
    <3> QED BY <3>1, <3>3, <3>4
  <2>2. ASSUME NEW h \in Handlers, life'[h] = "cached"
        PROVE  \E r \in Routes : cache'[r] = h
    <3>1. life[h] = "cached" /\ h \notin CachedFor(S)
        BY <2>2
    <3>2. PICK r \in Routes : cache[r] = h
        BY <3>1 DEF CachedOwned
    <3>3. r \notin S
        BY <3>1, <3>2 DEF CachedFor
    <3> QED BY <3>2, <3>3
  <2>3. ASSUME NEW r \in Routes, NEW s \in Routes, cache'[r] # None,
               cache'[r] = cache'[s]
        PROVE  r = s
      BY <2>3 DEF CachedOwned
  <2> QED BY <2>1, <2>2, <2>3 DEF CachedOwned
<1>2. BuiltOwned'
  <2>1. \A h \in Handlers : life'[h] = "building" => life[h] = "building"
      BY DEF BuiltOwned
  <2>2. \A h \in Handlers : life[h] = "building" => life'[h] = "building"
      BY NoneAssumption DEF CachedFor, CachedOwned
  <2> QED BY <1>0, <2>1, <2>2 DEF BuiltOwned
<1>3. TicketsOK'
    BY SMTT(60), <1>0 DEF TicketsOK
<1>4. BuildsRead'
    BY DEF BuildsRead
<1>5. BuildsCurrent'
  <2> SUFFICES ASSUME NEW r \in Routes, Eligible(r)'
               PROVE  CurrentSoFar(built[r], r)' \/ InvalidationDue(r)'
      BY DEF BuildsCurrent
  <2>1. loaded[r] = epoch'
      BY NoneAssumption DEF Eligible
  <2>2. epoch' = epoch /\ S = {}
      BY SMTT(60), <1>0, <2>1 DEF TicketsOK
  <2>3. Eligible(r) /\ routes[r] # None
      BY <2>1, <2>2 DEF Eligible
  <2>4. CurrentSoFar(built[r], r) \/ InvalidationDue(r)
      BY <2>3 DEF BuildsCurrent
  <2> QED BY <2>2, <2>3, <2>4 DEF CurrentSoFar
<1>6. CacheIsCurrent'
  <2> SUFFICES ASSUME NEW r \in Routes, cache'[r] # None, routes[r] # None
               PROVE  UpToDate(cache[r], r)' \/ InvalidationDue(r)'
      BY DEF CacheIsCurrent
  <2>1. r \notin S /\ cache'[r] = cache[r]
      OBVIOUS
  <2>2. UpToDate(cache[r], r) \/ InvalidationDue(r)
      BY <2>1 DEF CacheIsCurrent
  <2>3. UpToDate(cache[r], r) => UpToDate(cache[r], r)'
      BY <2>1 DEF UpToDate
  <2> QED BY <2>1, <2>2, <2>3
<1> QED BY <1>1, <1>2, <1>3, <1>4, <1>5, <1>6

LEMMA EditorKeeps ==
    ASSUME TypeInv, IInv, NEW w \in Editors, EditorStep(w)
    PROVE  IInv'
<1>0. /\ due \in [Editors -> SUBSET Routes] /\ partDue \in [Editors -> Parts \cup {None}]
      /\ routes \in [Routes -> Defs \cup {None}] /\ parts \in [Parts -> PartDefs]
      /\ epoch \in Nat
    BY DEF TypeInv, TypeOK
<1>1. ASSUME NEW r \in Routes, NEW d \in Defs, SaveRoute(w, r, d) PROVE IInv'
  <2>1. InvalidationDue(r)'
      BY <1>0, <1>1 DEF SaveRoute, InvalidationDue
  <2>2. ASSUME NEW s \in Routes \ {r} PROVE InvalidationDue(s) => InvalidationDue(s)'
      BY <1>0, <1>1 DEF SaveRoute, Free, InvalidationDue, Naming
  <2>3. UNCHANGED <<parts, cache, epoch, mu, life, def, seen, built, pc, loaded>>
      BY <1>1 DEF SaveRoute, handlerVars, flightVars
  <2>4. \A s \in Routes \ {r} : routes'[s] = routes[s]
      BY <1>0, <1>1 DEF SaveRoute
  <2> QED BY <2>1, <2>2, <2>3, <2>4, SaveStep
<1>2. ASSUME NEW r \in Routes, DeleteRoute(w, r) PROVE IInv'
  <2>1. routes'[r] = None
      BY <1>0, <1>2 DEF DeleteRoute
  <2>2. ASSUME NEW s \in Routes \ {r} PROVE InvalidationDue(s) => InvalidationDue(s)'
      BY <1>0, <1>2 DEF DeleteRoute, Free, InvalidationDue, Naming
  <2>3. UNCHANGED <<parts, cache, epoch, mu, life, def, seen, built, pc, loaded>>
      BY <1>2 DEF DeleteRoute, handlerVars, flightVars
  <2>4. \A s \in Routes \ {r} : routes'[s] = routes[s]
      BY <1>0, <1>2 DEF DeleteRoute
  <2> QED BY <2>1, <2>2, <2>3, <2>4, SaveStep
<1>3. ASSUME NEW p \in Parts, NEW v \in PartDefs, SavePart(w, p, v) PROVE IInv'
  <2>1. partDue'[w] = p /\ UNCHANGED routes
      BY <1>0, <1>3 DEF SavePart
  <2>2. ASSUME NEW s \in Routes, routes[s] # None, p \in Uses[routes[s]]
        PROVE  InvalidationDue(s)'
      BY <2>1, <2>2 DEF InvalidationDue, Naming
  <2>3. ASSUME NEW s \in Routes PROVE InvalidationDue(s) => InvalidationDue(s)'
    <3>1. \A x \in Editors : x # w => due'[x] = due[x] /\ partDue'[x] = partDue[x]
        BY <1>0, <1>3 DEF SavePart
    <3>2. s \notin due[w] /\ s \notin Naming(partDue[w])
        BY <1>3, SetsAssumption, NoneAssumption DEF SavePart, Free, Naming, TypeInv, TypeOK
    <3> QED BY <2>1, <3>1, <3>2 DEF InvalidationDue, Naming
  <2>4. UNCHANGED <<cache, epoch, mu, life, def, seen, built, pc, loaded>>
      BY <1>3 DEF SavePart, handlerVars, flightVars
  <2>5. \A x \in Parts : x # p => parts'[x] = parts[x]
      BY <1>0, <1>3 DEF SavePart
  <2>6. \A s \in Routes : routes[s] # None => Uses[routes[s]] \subseteq Parts
      BY <1>0, SetsAssumption
  <2> QED BY <2>1, <2>2, <2>3, <2>4, <2>5, <2>6, SaveStep
<1>4. ASSUME NEW r \in Routes, InvalidateRoute(w, r) PROVE IInv'
  <2>1. \A s \in Routes \ {r} : InvalidationDue(s) => InvalidationDue(s)'
      BY <1>0, <1>4 DEF InvalidateRoute, Drop, InvalidationDue, Naming, stores
  <2>2. Drop({r}, 1)
      BY <1>4 DEF InvalidateRoute
  <2>3. epoch' \in Nat /\ epoch' > epoch
      BY SMTT(60), <1>0, <2>2 DEF Drop
  <2> QED BY <2>1, <2>2, <2>3, DropStep DEF Drop, stores, flightVars
<1>5. ASSUME InvalidateRoutes(w) PROVE IInv'
  <2> DEFINE S == Naming(partDue[w])
  <2>1. S \in SUBSET Routes
      BY DEF Naming
  <2>2. IsFiniteSet(S)
      BY SMTT(60), <2>1, SetsAssumption, FS_Subset
  <2>3. Cardinality(S) \in Nat /\ (Cardinality(S) = 0 <=> S = {})
      BY SMTT(60), <2>2, FS_CardinalityType, FS_EmptySet
  <2>4. Drop(S, Cardinality(S))
      BY <1>5 DEF InvalidateRoutes
  <2>5. epoch' \in Nat /\ (epoch' > epoch \/ (epoch' = epoch /\ S = {}))
      BY SMTT(60), <1>0, <2>3, <2>4 DEF Drop
  <2>6. \A s \in Routes \ S : InvalidationDue(s) => InvalidationDue(s)'
      BY <1>0, <1>5 DEF InvalidateRoutes, Drop, InvalidationDue, Naming, stores
  <2> HIDE DEF S
  <2> QED BY <2>1, <2>4, <2>5, <2>6, DropStep DEF Drop, stores, flightVars
<1> QED BY <1>1, <1>2, <1>3, <1>4, <1>5 DEF EditorStep

LEMMA SyncKeeps ==
    ASSUME TypeInv, IInv, SyncCollect
    PROVE  IInv'
<1> DEFINE S == IF Orphaned = {} THEN {} ELSE Absent
<1>0. epoch \in Nat /\ cache \in [Routes -> Handlers \cup {None}]
      /\ life \in [Handlers -> Lives]
    BY DEF TypeInv, TypeOK
<1>1. S \in SUBSET Routes
    BY DEF Absent
<1>2. epoch' \in Nat /\ (epoch' > epoch \/ (epoch' = epoch /\ S = {}))
    BY SMTT(60), <1>0 DEF SyncCollect
<1>3. \A r \in Routes : r \in Absent /\ r \notin S => cache[r] = None
    BY DEF Orphaned
<1>4. cache' = [r \in Routes |-> IF r \in S THEN None ELSE cache[r]]
  <2>1. S \subseteq Absent
      OBVIOUS
  <2> QED BY <1>3, <2>1 DEF SyncCollect
<1>5. CachedFor(Absent) = CachedFor(S)
    BY <1>3, NoneAssumption DEF CachedFor, Absent
<1>6. life' = [h \in Handlers |-> IF h \in CachedFor(S) THEN "draining" ELSE life[h]]
    BY <1>5 DEF SyncCollect
<1>7. /\ mu = None
      /\ UNCHANGED <<routes, parts, mu, def, seen, built, pc, loaded>>
    BY DEF SyncCollect, stores, flightVars
<1>8. \A r \in Routes : InvalidationDue(r) => InvalidationDue(r)'
    BY DEF SyncCollect, InvalidationDue, Naming, stores, editing
<1> HIDE DEF S
<1> QED BY <1>1, <1>2, <1>4, <1>6, <1>7, <1>8, DropStep

\* Handlers that are neither cached nor being built can be closed or reused
\* without touching what the cache or a flight holds.
LEMMA CloseKeeps ==
    ASSUME TypeInv, IInv, NEW h \in Handlers, NEW how \in {"closed", "expired"},
           life[h] = "draining", Close(h, how),
           UNCHANGED <<routes, parts, due, partDue, cache, epoch, mu, pc, loaded, built>>
    PROVE  IInv'
<1> USE DEF IInv, OwnInv, CurInv
<1>0. /\ cache \in [Routes -> Handlers \cup {None}] /\ life \in [Handlers -> Lives]
      /\ def \in [Handlers -> Defs \cup {None}]
      /\ seen \in [Handlers -> [Parts -> PartDefs \cup {None}]]
      /\ \A r \in Routes : pc[r] \in Compiling => built[r] \in Handlers
    BY DEF TypeInv, TypeOK, FlightsOK
<1>1. \A g \in Handlers : g # h => /\ life'[g] = life[g]
                                   /\ def'[g] = def[g]
                                   /\ seen'[g] = seen[g]
    BY <1>0 DEF Close
<1>2. life'[h] = how
    BY <1>0 DEF Close
<1>3. \A r \in Routes : cache[r] # None => cache[r] # h /\ cache[r] \in Handlers
    BY <1>0 DEF CachedOwned
<1>4. \A r \in Routes : pc[r] \in Compiling => built[r] # h /\ built[r] \in Handlers
    BY <1>0 DEF BuiltOwned
<1>5. CachedOwned'
    BY <1>1, <1>2, <1>3 DEF CachedOwned
<1>6. BuiltOwned'
    BY <1>1, <1>2, <1>4 DEF BuiltOwned
<1>7. TicketsOK' /\ BuildsRead'
    BY <1>1, <1>4 DEF TicketsOK, BuildsRead, Compiling
<1>8. \A r \in Routes : InvalidationDue(r)' = InvalidationDue(r)
    BY DEF InvalidationDue, Naming
<1>9. BuildsCurrent'
  <2> SUFFICES ASSUME NEW r \in Routes, Eligible(r)', ~InvalidationDue(r)'
               PROVE  CurrentSoFar(built[r], r)'
      BY DEF BuildsCurrent
  <2>1. Eligible(r) /\ ~InvalidationDue(r)
      BY <1>8 DEF Eligible
  <2>2. CurrentSoFar(built[r], r) /\ built[r] # h /\ built[r] \in Handlers
      BY <1>4, <2>1 DEF BuildsCurrent, Eligible
  <2> QED BY <1>1, <2>2 DEF CurrentSoFar
<1>10. CacheIsCurrent'
  <2> SUFFICES ASSUME NEW r \in Routes, cache[r] # None, routes[r] # None,
                      ~InvalidationDue(r)'
               PROVE  UpToDate(cache[r], r)'
      BY DEF CacheIsCurrent
  <2>1. UpToDate(cache[r], r)
      BY <1>8 DEF CacheIsCurrent
  <2> QED BY <1>1, <1>3, <2>1 DEF UpToDate
<1> QED BY <1>5, <1>6, <1>7, <1>9, <1>10

-----------------------------------------------------------------------------
(* The steps of a build keep it.                                            *)

LEMMA StartKeeps ==
    ASSUME TypeInv, IInv, NEW r \in Routes, NEW h \in Handlers, StartCompile(r, h)
    PROVE  IInv'
<1> USE DEF IInv, OwnInv, CurInv
<1>0. /\ cache \in [Routes -> Handlers \cup {None}] /\ life \in [Handlers -> Lives]
      /\ def \in [Handlers -> Defs \cup {None}]
      /\ seen \in [Handlers -> [Parts -> PartDefs \cup {None}]]
      /\ built \in [Routes -> Handlers \cup {None}]
      /\ pc \in [Routes -> {"idle", "attempt", "check", "compile", "store", "done"}]
      /\ \A s \in Routes : pc[s] \in Compiling => built[s] \in Handlers
    BY DEF TypeInv, TypeOK, FlightsOK
<1>1. /\ pc[r] = "check" /\ pc'[r] = "compile" /\ built'[r] = h
      /\ \A s \in Routes : s # r => pc'[s] = pc[s] /\ built'[s] = built[s]
    BY <1>0 DEF StartCompile
<1>2. /\ life'[h] = "building" /\ def'[h] = Current(r) /\ seen'[h] = Unread
      /\ \A g \in Handlers : g # h => /\ life'[g] = life[g]
                                      /\ def'[g] = def[g]
                                      /\ seen'[g] = seen[g]
    BY <1>0 DEF StartCompile
<1>3. UNCHANGED <<routes, parts, due, partDue, cache, epoch, mu, loaded>>
    BY DEF StartCompile, stores, editing
<1>4. life[h] \in {"unused", "closed", "expired"}
    BY DEF StartCompile, Unreferenced
<1>5. \A s \in Routes : cache[s] # None => cache[s] # h /\ cache[s] \in Handlers
    BY SMTT(60), <1>0, <1>4 DEF CachedOwned
<1>6. \A s \in Routes : pc[s] \in Compiling => built[s] # h /\ built[s] \in Handlers
    BY <1>0, <1>4 DEF BuiltOwned
<1>7. Current(r) \in Defs
    BY <1>1 DEF Current, TypeInv, TypeOK, FlightsOK
<1>8. CachedOwned'
    BY <1>2, <1>3, <1>4, <1>5 DEF CachedOwned
<1>9. BuiltOwned'
  <2>1. \A s \in Routes : pc'[s] \in Compiling => life'[built'[s]] = "building"
      BY SMTT(60), <1>1, <1>2, <1>6 DEF BuiltOwned
  <2>2. ASSUME NEW g \in Handlers, life'[g] = "building"
        PROVE  \E s \in Routes : pc'[s] \in Compiling /\ built'[s] = g
    <3>1. CASE g = h
        BY <1>1, <3>1 DEF Compiling
    <3>2. CASE g # h
      <4>1. PICK s \in Routes : pc[s] \in Compiling /\ built[s] = g
          BY <1>2, <2>2, <3>2 DEF BuiltOwned
      <4>2. s # r
          BY <1>1, <4>1 DEF Compiling
      <4> QED BY <1>1, <4>1, <4>2
    <3> QED BY <3>1, <3>2
  <2>3. \A s, t \in Routes : pc'[s] \in Compiling /\ pc'[t] \in Compiling
                             /\ built'[s] = built'[t] => s = t
      BY SMTT(60), <1>1, <1>6 DEF BuiltOwned
  <2> QED BY <2>1, <2>2, <2>3 DEF BuiltOwned
<1>10. TicketsOK'
    BY <1>3 DEF TicketsOK
<1>11. BuildsRead'
    BY SMTT(60), <1>1, <1>2, <1>6, <1>7 DEF BuildsRead, Compiling
<1>12. \A s \in Routes : InvalidationDue(s)' = InvalidationDue(s)
    BY <1>3 DEF InvalidationDue, Naming
<1>13. BuildsCurrent'
  <2> SUFFICES ASSUME NEW s \in Routes, Eligible(s)', ~InvalidationDue(s)'
               PROVE  CurrentSoFar(built[s], s)'
      BY DEF BuildsCurrent
  <2>1. CASE s = r
    <3>1. routes[r] # None /\ Current(r) = routes[r]
        BY <1>3, <2>1 DEF Eligible, Current
    <3>2. \A p \in Uses[routes[r]] : Unread[p] = None
        BY <3>1, SetsAssumption DEF Unread, TypeInv, TypeOK
    <3> QED BY <1>1, <1>2, <1>3, <2>1, <3>1, <3>2 DEF CurrentSoFar
  <2>2. CASE s # r
    <3>1. Eligible(s) /\ ~InvalidationDue(s)
        BY <1>1, <1>3, <1>12, <2>2 DEF Eligible
    <3>2. CurrentSoFar(built[s], s) /\ built[s] # h /\ built[s] \in Handlers
        BY <1>6, <3>1 DEF BuildsCurrent, Eligible
    <3>3. /\ built'[s] = built[s]
          /\ def'[built[s]] = def[built[s]]
          /\ seen'[built[s]] = seen[built[s]]
        BY <1>1, <1>2, <2>2, <3>2
    <3> QED BY <1>3, <3>2, <3>3 DEF CurrentSoFar
  <2> QED BY <2>1, <2>2
<1>14. CacheIsCurrent'
  <2> SUFFICES ASSUME NEW s \in Routes, cache[s] # None, routes[s] # None,
                      ~InvalidationDue(s)'
               PROVE  UpToDate(cache[s], s)'
      BY <1>3 DEF CacheIsCurrent
  <2>1. UpToDate(cache[s], s)
      BY <1>12 DEF CacheIsCurrent
  <2> QED BY <1>2, <1>3, <1>5, <2>1 DEF UpToDate
<1> QED BY <1>8, <1>9, <1>10, <1>11, <1>13, <1>14

LEMMA ReadKeeps ==
    ASSUME TypeInv, IInv, NEW r \in Routes, NEW p \in Parts, ReadPart(r, p)
    PROVE  IInv'
<1> USE DEF IInv, OwnInv, CurInv
<1> DEFINE h == built[r]
<1>0. /\ cache \in [Routes -> Handlers \cup {None}]
      /\ seen \in [Handlers -> [Parts -> PartDefs \cup {None}]]
      /\ parts \in [Parts -> PartDefs]
      /\ routes \in [Routes -> Defs \cup {None}]
      /\ pc[r] \in Compiling /\ h \in Handlers /\ def[h] \in Defs
      /\ \A s \in Routes : pc[s] \in Compiling => built[s] \in Handlers
    BY DEF TypeInv, TypeOK, FlightsOK, ReadPart, Compiling, BuildsRead
<1>1. /\ \A g \in Handlers : g # h => seen'[g] = seen[g]
      /\ seen'[h][p] = parts[p]
      /\ \A x \in Parts : x # p => seen'[h][x] = seen[h][x]
    BY <1>0 DEF ReadPart
<1>2. UNCHANGED <<routes, parts, due, partDue, cache, epoch, mu, life, def, pc, loaded,
                  built>>
    BY DEF ReadPart, stores, editing, flightVars
<1>3. \A s \in Routes : cache[s] # None => cache[s] # h /\ cache[s] \in Handlers
    BY SMTT(60), <1>0 DEF CachedOwned, BuiltOwned
<1>4. \A s \in Routes : pc[s] \in Compiling /\ s # r => built[s] # h
    BY <1>0 DEF BuiltOwned
<1>5. CachedOwned' /\ BuiltOwned' /\ TicketsOK'
    BY <1>2 DEF CachedOwned, BuiltOwned, TicketsOK
<1>6. \A s \in Routes : pc[s] = "store" => s # r
    BY DEF ReadPart
<1>7. BuildsRead'
    BY SMTT(60), <1>0, <1>1, <1>2, <1>4, <1>6 DEF BuildsRead, Compiling
<1>8. \A s \in Routes : InvalidationDue(s)' = InvalidationDue(s)
    BY <1>2 DEF InvalidationDue, Naming
<1>9. BuildsCurrent'
  <2> SUFFICES ASSUME NEW s \in Routes, Eligible(s)', ~InvalidationDue(s)'
               PROVE  CurrentSoFar(built[s], s)'
      BY DEF BuildsCurrent
  <2>1. Eligible(s) /\ ~InvalidationDue(s) /\ pc[s] \in Compiling /\ routes[s] # None
      BY <1>2, <1>8 DEF Eligible
  <2>2. CurrentSoFar(built[s], s) /\ built[s] \in Handlers
      BY <1>0, <2>1 DEF BuildsCurrent
  <2>3. CASE s # r
      BY <1>1, <1>2, <1>4, <2>1, <2>2, <2>3 DEF CurrentSoFar
  <2>4. CASE s = r
    <3>1. Uses[routes[r]] \subseteq Parts
        BY <1>0, <2>1, <2>4, SetsAssumption
    <3>2. \A x \in Uses[routes[r]] : seen'[h][x] = None \/ seen'[h][x] = parts[x]
        BY <1>1, <2>2, <2>4, <3>1 DEF CurrentSoFar
    <3>3. def[h] = routes[r]
        BY <2>2, <2>4 DEF CurrentSoFar
    <3> QED BY <1>2, <2>4, <3>2, <3>3 DEF CurrentSoFar
  <2> QED BY <2>3, <2>4
<1>10. CacheIsCurrent'
  <2> SUFFICES ASSUME NEW s \in Routes, cache[s] # None, routes[s] # None,
                      ~InvalidationDue(s)'
               PROVE  UpToDate(cache[s], s)'
      BY <1>2 DEF CacheIsCurrent
  <2>1. UpToDate(cache[s], s)
      BY <1>8 DEF CacheIsCurrent
  <2> QED BY <1>1, <1>2, <1>3, <2>1 DEF UpToDate
<1> QED BY <1>5, <1>7, <1>9, <1>10

LEMMA FinishKeeps ==
    ASSUME TypeInv, IInv, NEW r \in Routes, FinishCompile(r)
    PROVE  IInv'
<1> USE DEF IInv, OwnInv, CurInv
<1>1. UNCHANGED <<routes, parts, due, partDue, cache, epoch, mu, life, def, seen, loaded,
                  built>>
    BY DEF FinishCompile, stores, editing
<1>2. /\ pc[r] = "compile" /\ pc'[r] = "store"
      /\ \A s \in Routes : s # r => pc'[s] = pc[s]
    BY DEF FinishCompile, TypeInv, TypeOK
<1>3. \A p \in Uses[def[built[r]]] : seen[built[r]][p] # None
    BY DEF FinishCompile
<1>4. \A s \in Routes : /\ pc'[s] \in Compiling => pc[s] \in Compiling
                        /\ pc[s] \in Compiling => pc'[s] \in Compiling
    BY <1>2 DEF Compiling
<1>5. CachedOwned' /\ BuiltOwned' /\ TicketsOK'
    BY <1>1, <1>4 DEF CachedOwned, BuiltOwned, TicketsOK
<1>6. BuildsRead'
    BY <1>1, <1>2, <1>3, <1>4 DEF BuildsRead
<1>7. \A s \in Routes : InvalidationDue(s)' = InvalidationDue(s)
    BY <1>1 DEF InvalidationDue, Naming
<1>8. BuildsCurrent'
    BY <1>1, <1>4, <1>7 DEF BuildsCurrent, Eligible, CurrentSoFar
<1>9. CacheIsCurrent'
    BY <1>1, <1>7 DEF CacheIsCurrent, UpToDate
<1> QED BY <1>5, <1>6, <1>8, <1>9

\* The heart of the argument: a flight that may store has read nothing that
\* changed since without an invalidation still to come.
LEMMA StoreKeeps ==
    ASSUME TypeInv, IInv, NEW r \in Routes, Store(r)
    PROVE  IInv'
<1> USE DEF IInv, OwnInv, CurInv
<1> DEFINE h == built[r]
<1>0. /\ cache \in [Routes -> Handlers \cup {None}] /\ life \in [Handlers -> Lives]
      /\ built \in [Routes -> Handlers \cup {None}]
      /\ pc \in [Routes -> {"idle", "attempt", "check", "compile", "store", "done"}]
      /\ routes \in [Routes -> Defs \cup {None}]
      /\ pc[r] = "store" /\ pc[r] \in Compiling /\ h \in Handlers
      /\ \A s \in Routes : pc[s] \in Compiling => built[s] \in Handlers
    BY DEF TypeInv, TypeOK, FlightsOK, Store, Compiling
<1>1. /\ pc'[r] = "done" /\ built'[r] = None /\ cache'[r] = h
      /\ \A s \in Routes : s # r => /\ pc'[s] = pc[s]
                                    /\ built'[s] = built[s]
                                    /\ cache'[s] = cache[s]
    BY <1>0 DEF Store
<1>2. \A g \in Handlers : life'[g] = IF g = h THEN "cached"
                                     ELSE IF g = cache[r] THEN "draining" ELSE life[g]
    BY DEF Store
<1>3. UNCHANGED <<routes, parts, due, partDue, epoch, def, seen, loaded>>
    BY DEF Store, stores, editing
<1>4. \A s \in Routes : mu' = s => mu = s
    BY NoneAssumption DEF Store, Unlocked
<1>5. life[h] = "building" /\ h # None
    BY <1>0, NoneAssumption DEF BuiltOwned
<1>6. \A s \in Routes : cache[s] # None => cache[s] # h /\ cache[s] \in Handlers
    BY SMTT(60), <1>0, <1>5 DEF CachedOwned
<1>7. \A s \in Routes : pc[s] \in Compiling /\ s # r => built[s] # h
    BY <1>0 DEF BuiltOwned
<1>8. CachedOwned'
  <2>1. ASSUME NEW s \in Routes, cache'[s] # None PROVE life'[cache'[s]] = "cached"
    <3>1. CASE s = r
        BY <1>0, <1>1, <1>2, <3>1
    <3>2. CASE s # r
      <4>1. cache'[s] = cache[s] /\ cache[s] \in Handlers /\ cache[s] # h
          BY <1>1, <1>6, <2>1, <3>2
      <4>2. cache[s] # cache[r]
          BY <2>1, <3>2, <4>1 DEF CachedOwned
      <4>3. life[cache[s]] = "cached"
          BY <2>1, <4>1 DEF CachedOwned
      <4> QED BY <1>2, <4>1, <4>2, <4>3
    <3> QED BY <3>1, <3>2
  <2>2. ASSUME NEW g \in Handlers, life'[g] = "cached"
        PROVE  \E s \in Routes : cache'[s] = g
    <3>1. CASE g = h
        BY <1>1, <3>1
    <3>2. CASE g # h
      <4>1. g # cache[r] /\ life[g] = "cached"
          BY <1>2, <2>2, <3>2
      <4>2. PICK s \in Routes : cache[s] = g
          BY <4>1 DEF CachedOwned
      <4> QED BY <1>1, <4>1, <4>2
    <3> QED BY <3>1, <3>2
  <2>3. ASSUME NEW s \in Routes, NEW t \in Routes, cache'[s] # None,
               cache'[s] = cache'[t]
        PROVE  s = t
      BY SMTT(60), <1>1, <1>5, <1>6, <2>3 DEF CachedOwned
  <2> QED BY <2>1, <2>2, <2>3 DEF CachedOwned
<1>9. BuiltOwned'
  <2>1. ASSUME NEW s \in Routes, pc'[s] \in Compiling
        PROVE  s # r /\ pc[s] \in Compiling /\ built'[s] = built[s]
               /\ built[s] \in Handlers /\ built[s] # h
      BY <1>0, <1>1, <1>7, <2>1 DEF Compiling
  <2>2. \A s \in Routes : pc'[s] \in Compiling => life'[built'[s]] = "building"
    <3> SUFFICES ASSUME NEW s \in Routes, pc'[s] \in Compiling
                 PROVE  life'[built[s]] = "building"
        BY <2>1
    <3>1. life[built[s]] = "building"
        BY <2>1 DEF BuiltOwned
    <3>2. built[s] # cache[r]
        BY SMTT(60), <1>0, <2>1, <3>1, NoneAssumption DEF CachedOwned
    <3> QED BY <1>2, <2>1, <3>1, <3>2
  <2>3. ASSUME NEW g \in Handlers, life'[g] = "building"
        PROVE  \E s \in Routes : pc'[s] \in Compiling /\ built'[s] = g
    <3>1. g # h /\ life[g] = "building"
        BY <1>2, <2>3
    <3>2. PICK s \in Routes : pc[s] \in Compiling /\ built[s] = g
        BY <3>1 DEF BuiltOwned
    <3> QED BY <1>1, <3>1, <3>2
  <2>4. \A s, t \in Routes : pc'[s] \in Compiling /\ pc'[t] \in Compiling
                             /\ built'[s] = built'[t] => s = t
      BY <2>1 DEF BuiltOwned
  <2> QED BY <2>2, <2>3, <2>4 DEF BuiltOwned
<1>10. TicketsOK'
    BY <1>3 DEF TicketsOK
<1>11. \A s \in Routes : pc'[s] \in Compiling
                         => s # r /\ pc'[s] = pc[s] /\ built'[s] = built[s]
    BY <1>1 DEF Compiling
<1>12. BuildsRead'
    BY <1>3, <1>11 DEF BuildsRead, Compiling
<1>13. \A s \in Routes : InvalidationDue(s)' = InvalidationDue(s)
    BY <1>3 DEF InvalidationDue, Naming
<1>14. BuildsCurrent'
  <2> SUFFICES ASSUME NEW s \in Routes, Eligible(s)', ~InvalidationDue(s)'
               PROVE  CurrentSoFar(built[s], s)'
      BY DEF BuildsCurrent
  <2>1. s # r /\ built'[s] = built[s] /\ Eligible(s) /\ ~InvalidationDue(s)
      BY <1>3, <1>4, <1>11, <1>13 DEF Eligible
  <2>2. CurrentSoFar(built[s], s)
      BY <2>1 DEF BuildsCurrent
  <2> QED BY <1>3, <2>1, <2>2 DEF CurrentSoFar
<1>15. CacheIsCurrent'
  <2> SUFFICES ASSUME NEW s \in Routes, cache'[s] # None, routes[s] # None,
                      ~InvalidationDue(s)'
               PROVE  UpToDate(cache[s], s)'
      BY <1>3 DEF CacheIsCurrent
  <2>1. CASE s # r
    <3>1. cache'[s] = cache[s] /\ UpToDate(cache[s], s)
        BY <1>1, <1>13, <2>1 DEF CacheIsCurrent
    <3> QED BY <1>3, <3>1 DEF UpToDate
  <2>2. CASE s = r
    <3>1. Eligible(r) /\ ~InvalidationDue(r)
        BY <1>0, <1>13, <2>2 DEF Eligible, Store, MayStore
    <3>2. CurrentSoFar(h, r)
        BY <3>1 DEF BuildsCurrent
    <3>3. \A p \in Uses[def[h]] : seen[h][p] # None
        BY <1>0 DEF BuildsRead
    <3>4. /\ def[h] = routes[r]
          /\ \A p \in Uses[routes[r]] : seen[h][p] = parts[p]
        BY <3>2, <3>3 DEF CurrentSoFar
    <3> QED BY <1>1, <1>3, <2>2, <3>4 DEF UpToDate
  <2> QED BY <2>1, <2>2
<1> QED BY <1>8, <1>9, <1>10, <1>12, <1>14, <1>15

LEMMA DiscardKeeps ==
    ASSUME TypeInv, IInv, NEW r \in Routes, Discard(r)
    PROVE  IInv'
<1> USE DEF IInv, OwnInv, CurInv
<1> DEFINE h == built[r]
<1>0. /\ cache \in [Routes -> Handlers \cup {None}] /\ life \in [Handlers -> Lives]
      /\ def \in [Handlers -> Defs \cup {None}]
      /\ seen \in [Handlers -> [Parts -> PartDefs \cup {None}]]
      /\ built \in [Routes -> Handlers \cup {None}]
      /\ pc \in [Routes -> {"idle", "attempt", "check", "compile", "store", "done"}]
      /\ pc[r] \in Compiling /\ h \in Handlers
      /\ \A s \in Routes : pc[s] \in Compiling => built[s] \in Handlers
    BY DEF TypeInv, TypeOK, FlightsOK, Discard, Compiling
<1>1. /\ pc'[r] = "attempt"
      /\ \A s \in Routes : s # r => pc'[s] = pc[s] /\ built'[s] = built[s]
    BY <1>0 DEF Discard
<1>2. /\ life'[h] = "closed"
      /\ \A g \in Handlers : g # h => /\ life'[g] = life[g]
                                      /\ def'[g] = def[g]
                                      /\ seen'[g] = seen[g]
    BY <1>0 DEF Discard, Close
<1>3. UNCHANGED <<routes, parts, due, partDue, cache, epoch, mu, loaded>>
    BY DEF Discard, stores, editing
<1>4. life[h] = "building"
    BY <1>0 DEF BuiltOwned
<1>5. \A s \in Routes : cache[s] # None => cache[s] # h /\ cache[s] \in Handlers
    BY SMTT(60), <1>0, <1>4 DEF CachedOwned
<1>6. \A s \in Routes : pc'[s] \in Compiling
          => /\ s # r /\ pc'[s] = pc[s] /\ built'[s] = built[s]
             /\ built[s] \in Handlers /\ built[s] # h
    BY <1>0, <1>1 DEF BuiltOwned, Compiling
<1>7. CachedOwned'
    BY <1>2, <1>3, <1>4, <1>5 DEF CachedOwned
<1>8. BuiltOwned'
  <2>1. ASSUME NEW s \in Routes, pc'[s] \in Compiling
        PROVE  life'[built'[s]] = "building"
    <3>1. /\ pc[s] \in Compiling /\ built'[s] = built[s]
          /\ built[s] \in Handlers /\ built[s] # h
        BY <1>6, <2>1
    <3>2. life[built[s]] = "building"
        BY <3>1 DEF BuiltOwned
    <3>3. life'[built[s]] = life[built[s]]
        BY <1>2, <3>1
    <3> QED BY <3>1, <3>2, <3>3
  <2>2. ASSUME NEW g \in Handlers, life'[g] = "building"
        PROVE  \E s \in Routes : pc'[s] \in Compiling /\ built'[s] = g
    <3>1. g # h /\ life[g] = "building"
        BY <1>2, <2>2
    <3>2. PICK s \in Routes : pc[s] \in Compiling /\ built[s] = g
        BY <3>1 DEF BuiltOwned
    <3> QED BY <1>1, <3>1, <3>2
  <2>3. \A s, t \in Routes : pc'[s] \in Compiling /\ pc'[t] \in Compiling
                             /\ built'[s] = built'[t] => s = t
      BY <1>6 DEF BuiltOwned
  <2> QED BY <2>1, <2>2, <2>3 DEF BuiltOwned
<1>9. TicketsOK'
    BY <1>3 DEF TicketsOK
<1>10. BuildsRead'
    BY SMTT(60), <1>2, <1>6 DEF BuildsRead, Compiling
<1>11. \A s \in Routes : InvalidationDue(s)' = InvalidationDue(s)
    BY <1>3 DEF InvalidationDue, Naming
<1>12. BuildsCurrent'
  <2> SUFFICES ASSUME NEW s \in Routes, Eligible(s)', ~InvalidationDue(s)'
               PROVE  CurrentSoFar(built[s], s)'
      BY DEF BuildsCurrent
  <2>1. /\ Eligible(s) /\ ~InvalidationDue(s) /\ built'[s] = built[s]
        /\ built[s] \in Handlers /\ built[s] # h
      BY <1>3, <1>6, <1>11 DEF Eligible
  <2>2. CurrentSoFar(built[s], s)
      BY <2>1 DEF BuildsCurrent
  <2>3. def'[built[s]] = def[built[s]] /\ seen'[built[s]] = seen[built[s]]
      BY <1>2, <2>1
  <2> QED BY <1>3, <2>1, <2>2, <2>3 DEF CurrentSoFar
<1>13. CacheIsCurrent'
  <2> SUFFICES ASSUME NEW s \in Routes, cache[s] # None, routes[s] # None,
                      ~InvalidationDue(s)'
               PROVE  UpToDate(cache[s], s)'
      BY <1>3 DEF CacheIsCurrent
  <2>1. UpToDate(cache[s], s)
      BY <1>11 DEF CacheIsCurrent
  <2> QED BY <1>2, <1>3, <1>5, <2>1 DEF UpToDate
<1> QED BY <1>7, <1>8, <1>9, <1>10, <1>12, <1>13

LEMMA PurgeKeeps ==
    ASSUME TypeInv, IInv, Purge
    PROVE  IInv'
<1>1. epoch' \in Nat /\ epoch' > epoch
    BY SMTT(60) DEF Purge, Drop, TypeInv, TypeOK
<1> QED BY <1>1, DropStep DEF Purge, Drop, stores, flightVars

LEMMA IInvNext == TypeInv /\ IInv /\ [Next]_vars => IInv'
<1> SUFFICES ASSUME TypeInv, IInv, [Next]_vars PROVE IInv'
    OBVIOUS
<1>1. ASSUME NEW h \in Handlers, HandlerStep(h) PROVE IInv'
  <2>1. CASE Check(h)
      BY <2>1, MoreQuiet
  <2>2. CASE DrainedClose(h)
      BY <2>2, CloseKeeps DEF DrainedClose, stores, editing, flightVars
  <2>3. CASE DrainExpires(h)
      BY <2>3, CloseKeeps DEF DrainExpires, stores, editing, flightVars
  <2> QED BY <1>1, <2>1, <2>2, <2>3 DEF HandlerStep
<1>2. ASSUME NEW r \in Routes, FlightStep(r) PROVE IInv'
    BY <1>2, MoreQuiet, StartKeeps, ReadKeeps, FinishKeeps, StoreKeeps, DiscardKeeps
    DEF FlightStep
<1>3. ASSUME SyncStep PROVE IInv'
    BY <1>3, MoreQuiet, SyncKeeps DEF SyncStep
<1>4. ASSUME NEW q \in Requests, NEW r \in Routes, Select(q, r) PROVE IInv'
    BY <1>4, CallersQuiet DEF Callers
<1> QED BY <1>1, <1>2, <1>3, <1>4, PurgeKeeps, EditorKeeps, CallersQuiet, MoreQuiet
        DEF Next

LEMMA IInvAlways == Spec => [](TypeInv /\ IInv)
BY TypeInit, IInvInit, TypeNext, IInvNext, PTL DEF Spec

\* A chain compiled from configuration that changed is kept out of the cache or
\* has an invalidation coming, for any number of routes, services, middlewares,
\* builds and editors (CacheIsCurrent).
THEOREM CacheAlwaysCurrent == Spec => []CacheIsCurrent
<1>1. TypeInv /\ IInv => CacheIsCurrent
    BY DEF IInv, CurInv
<1> QED BY <1>1, IInvAlways, PTL

\* No handler is lost or cached twice, and nothing closed or draining is cached
\* (HandlersOwned).
THEOREM HandlersAlwaysOwned == Spec => []HandlersOwned
<1>1. ASSUME TypeInv, IInv PROVE HandlersOwned
  <2> SUFFICES ASSUME NEW h \in Handlers
               PROVE  /\ life[h] = "cached" <=> \E r \in Routes : cache[r] = h
                      /\ life[h] = "building"
                           <=> \E r \in Routes : /\ built[r] = h
                                                 /\ pc[r] \in {"compile", "store"}
                      /\ \A r, s \in Routes : cache[r] = h /\ cache[s] = h => r = s
      BY DEF HandlersOwned
  <2>1. life[h] = "cached" => \E r \in Routes : cache[r] = h
      BY <1>1 DEF IInv, OwnInv, CachedOwned
  <2>2. (\E r \in Routes : cache[r] = h) => life[h] = "cached"
      BY <1>1, NoneAssumption DEF IInv, OwnInv, CachedOwned
  <2>3. \A r, s \in Routes : cache[r] = h /\ cache[s] = h => r = s
      BY <1>1, NoneAssumption DEF IInv, OwnInv, CachedOwned
  <2>4. life[h] = "building" => \E r \in Routes : built[r] = h /\ pc[r] \in Compiling
      BY <1>1 DEF IInv, OwnInv, BuiltOwned
  <2>5. (\E r \in Routes : built[r] = h /\ pc[r] \in Compiling) => life[h] = "building"
      BY <1>1 DEF IInv, OwnInv, BuiltOwned
  <2> QED BY <2>1, <2>2, <2>3, <2>4, <2>5 DEF Compiling
<1> QED BY <1>1, IInvAlways, PTL

-----------------------------------------------------------------------------
(* What health checks learned.                                              *)

\* A route whose handlers learned something has it in its cached handler or,
\* between two handlers, in retiredHealth.
HealthInv ==
    \A r \in known :
        /\ cache[r] # None => cache[r] \in checked
        /\ cache[r] = None => r \in retired

LEMMA HealthNext ==
    TypeInv /\ TypeInv' /\ IInv /\ HealthInv /\ [Next]_vars => HealthInv'
<1> SUFFICES ASSUME TypeInv, IInv, HealthInv, [Next]_vars PROVE HealthInv'
    OBVIOUS
<1>0. /\ cache \in [Routes -> Handlers \cup {None}] /\ known \subseteq Routes
      /\ retired \subseteq Routes
      /\ \A r \in Routes : pc[r] \in Compiling => built[r] \in Handlers
    BY DEF TypeInv, TypeOK, FlightsOK
<1>1. ASSUME UNCHANGED <<cache, retired, checked, known>> PROVE HealthInv'
    BY <1>1 DEF HealthInv
<1>2. ASSUME NEW S \in SUBSET Routes, NEW n \in Nat, Drop(S, n) PROVE HealthInv'
    BY <1>0, <1>2 DEF Drop, HealthInv
<1>3. ASSUME NEW h \in Handlers, NEW how \in Lives, life[h] # "cached", Close(h, how),
             UNCHANGED <<cache, retired, known>>
      PROVE  HealthInv'
    BY <1>0, <1>3 DEF Close, HealthInv, IInv, OwnInv, CachedOwned
<1>4. CASE Purge
    BY <1>2, <1>4 DEF Purge
<1>5. ASSUME NEW w \in Editors, EditorStep(w) PROVE HealthInv'
  <2>1. ASSUME NEW r \in Routes, InvalidateRoute(w, r) PROVE HealthInv'
      BY <1>2, <2>1 DEF InvalidateRoute
  <2>2. ASSUME InvalidateRoutes(w) PROVE HealthInv'
    <3>1. Naming(partDue[w]) \in SUBSET Routes
        BY DEF Naming
    <3>2. Cardinality(Naming(partDue[w])) \in Nat
        BY <3>1, SetsAssumption, FS_Subset, FS_CardinalityType
    <3> QED BY <1>2, <2>2, <3>1, <3>2 DEF InvalidateRoutes
  <2> QED BY <1>1, <1>5, <2>1, <2>2
          DEF EditorStep, SaveRoute, DeleteRoute, SavePart, handlerVars
<1>6. ASSUME NEW q \in Callers, CallerStep(q) \/ \E r \in Routes : Select(q, r)
      PROVE  HealthInv'
    BY <1>1, <1>6 DEF CallerStep, Select, Look, Join, Serve, Finish, Leave, handlerVars
<1>7. ASSUME NEW r \in Routes, FlightStep(r) PROVE HealthInv'
  <2>1. CASE Store(r)
    <3>1. built[r] \in Handlers /\ built[r] # None
        BY <1>0, <2>1, NoneAssumption DEF Store, Compiling
    <3>2. /\ cache'[r] = built[r]
          /\ \A s \in Routes : s # r => cache'[s] = cache[s]
          /\ known' = known
          /\ \A s \in Routes : s # r /\ s \in retired => s \in retired'
          /\ checked \subseteq checked'
          /\ Inherits(r) => built[r] \in checked'
        BY <1>0, <2>1 DEF Store
    <3>3. r \in known => Inherits(r)
        BY DEF HealthInv, Inherits
    <3> QED BY <1>0, <3>1, <3>2, <3>3 DEF HealthInv
  <2>2. CASE Discard(r)
    <3>1. built[r] \in Handlers /\ life[built[r]] = "building"
        BY <1>0, <2>2 DEF Discard, Compiling, IInv, OwnInv, BuiltOwned
    <3> QED BY <1>3, <2>2, <3>1 DEF Discard, Lives
  <2> QED BY <1>1, <1>7, <2>1, <2>2
          DEF FlightStep, Attempt, ReturnCached, StartCompile, ReadPart, FinishCompile,
              EndFlight, handlerVars
<1>8. ASSUME NEW h \in Handlers, HandlerStep(h) PROVE HealthInv'
  <2>1. CASE Check(h)
      BY <1>0, <2>1, NoneAssumption DEF Check, HealthInv
  <2>2. CASE DrainedClose(h)
      BY <1>3, <2>2 DEF DrainedClose, Lives
  <2>3. CASE DrainExpires(h)
      BY <1>3, <2>3 DEF DrainExpires, Lives
  <2> QED BY <1>8, <2>1, <2>2, <2>3 DEF HandlerStep
<1>9. ASSUME NEW r \in Routes, Age(r) PROVE HealthInv'
    BY <1>1, <1>9 DEF Age
<1>10. ASSUME SyncStep PROVE HealthInv'
  <2>1. CASE SyncCollect
      BY <1>0, <2>1 DEF SyncCollect, HealthInv, Absent
  <2> QED BY <1>1, <1>10, <2>1 DEF SyncStep, SyncList, SyncWarm, handlerVars
<1>11. CASE UNCHANGED vars
    BY <1>1, <1>11 DEF vars, handlerVars
<1> QED BY <1>4, <1>5, <1>6, <1>7, <1>8, <1>9, <1>10, <1>11 DEF Next, Callers

\* What health checks learned of a route's targets survives every rebuild,
\* purge and invalidation (HealthNotForgotten).
THEOREM HealthNeverForgotten == Spec => []HealthNotForgotten
<1>1. Init => HealthInv
    BY DEF Init, HealthInv
<1>2. HealthInv => HealthNotForgotten
    BY DEF HealthInv, HealthNotForgotten
<1> QED BY <1>1, <1>2, IInvAlways, HealthNext, PTL DEF Spec

-----------------------------------------------------------------------------
(* The cache implements AtomicCache.                                        *)

\* The configuration, what is owed and what is served, if they do not change.
LEMMA SameConfig ==
    ASSUME UNCHANGED <<routes, parts>>
    PROVE  \A r \in Routes : Configured(r)' = Configured(r)
BY DEF Configured

LEMMA SameOwed ==
    ASSUME UNCHANGED <<routes, due, partDue>>
    PROVE  \A r \in Routes : InvalidationDue(r)' = InvalidationDue(r)
BY DEF InvalidationDue, Naming

LEMMA SameServed ==
    ASSUME NEW r \in Routes, cache'[r] = cache[r],
           cache[r] # None => def'[cache[r]] = def[cache[r]] /\ seen'[cache[r]] = seen[cache[r]]
    PROVE  Compiled(r)' = Compiled(r)
<1>1. CASE cache[r] = None
    BY <1>1 DEF Compiled
<1>2. CASE cache[r] # None
    BY <1>2 DEF Compiled
<1> QED BY <1>1, <1>2

\* A step that leaves the stores, the invalidations due, the cache and the cached
\* handlers as they are is a stutter.
LEMMA Unseen ==
    ASSUME UNCHANGED <<routes, parts, due, partDue, cache>>,
           \A r \in Routes : cache[r] # None =>
               def'[cache[r]] = def[cache[r]] /\ seen'[cache[r]] = seen[cache[r]]
    PROVE  UNCHANGED Atomic!vars
<1>1. \A r \in Routes : Configured(r)' = Configured(r)
    BY SameConfig
<1>2. \A r \in Routes : InvalidationDue(r)' = InvalidationDue(r)
    BY SameOwed
<1>3. \A r \in Routes : Compiled(r)' = Compiled(r)
    BY SameServed
<1> QED BY <1>1, <1>2, <1>3 DEF Atomic!vars

-----------------------------------------------------------------------------
(* Edits and removals.                                                      *)

\* A route whose configuration changes is owed an invalidation, and none that
\* was owed is forgotten.
LEMMA EditSteps ==
    ASSUME UNCHANGED <<cache, def, seen>>,
           \A r \in Routes : Configured(r)' = Configured(r) \/ InvalidationDue(r)',
           \A r \in Routes : InvalidationDue(r) => InvalidationDue(r)'
    PROVE  Atomic!Edit
<1>1. \A r \in Routes : Compiled(r)' = Compiled(r)
    BY SameServed
<1> QED BY <1>1 DEF Atomic!Edit

\* Removing the chains of S settles at most what S is owed.
LEMMA RemoveSteps ==
    ASSUME NEW S \in SUBSET Routes,
           cache' = [r \in Routes |-> IF r \in S THEN None ELSE cache[r]],
           UNCHANGED <<routes, parts, def, seen>>,
           \A r \in Routes \ S : InvalidationDue(r) => InvalidationDue(r)',
           \A r \in Routes : InvalidationDue(r)' => InvalidationDue(r)
    PROVE  Atomic!Remove
<1>1. \A r \in Routes : Configured(r)' = Configured(r)
    BY SameConfig
<1>2. \A r \in Routes \ S : Compiled(r)' = Compiled(r)
    BY SameServed
<1>3. \A r \in S : Compiled(r)' = None
    BY DEF Compiled
<1>4. [r \in Routes |-> Compiled(r)]'
        = [r \in Routes |-> IF r \in S THEN None ELSE [s \in Routes |-> Compiled(s)][r]]
    BY <1>2, <1>3
<1> QED BY <1>1, <1>4 DEF Atomic!Remove

LEMMA EditorSteps ==
    ASSUME TypeInv, NEW w \in Editors, EditorStep(w)
    PROVE  Atomic!Next
<1>0. /\ due \in [Editors -> SUBSET Routes] /\ partDue \in [Editors -> Parts \cup {None}]
      /\ routes \in [Routes -> Defs \cup {None}] /\ parts \in [Parts -> PartDefs]
    BY DEF TypeInv, TypeOK
<1>1. ASSUME NEW r \in Routes,
             DeleteRoute(w, r) \/ \E d \in Defs : SaveRoute(w, r, d)
      PROVE  Atomic!Edit
  <2>1. InvalidationDue(r)'
      BY <1>0, <1>1 DEF SaveRoute, DeleteRoute, InvalidationDue
  <2>2. \A s \in Routes \ {r} : routes'[s] = routes[s]
      BY <1>0, <1>1 DEF SaveRoute, DeleteRoute
  <2>3. ASSUME NEW s \in Routes \ {r} PROVE InvalidationDue(s) => InvalidationDue(s)'
      BY <1>0, <1>1 DEF SaveRoute, DeleteRoute, Free, InvalidationDue, Naming
  <2>4. UNCHANGED <<parts, cache, def, seen>>
      BY <1>1 DEF SaveRoute, DeleteRoute, handlerVars
  <2>5. \A s \in Routes \ {r} : Configured(s)' = Configured(s)
      BY <2>2, <2>4 DEF Configured
  <2> QED BY <2>1, <2>3, <2>4, <2>5, EditSteps
<1>2. ASSUME NEW p \in Parts, NEW v \in PartDefs, SavePart(w, p, v) PROVE Atomic!Edit
  <2>1. /\ partDue'[w] = p /\ UNCHANGED <<routes, cache, def, seen>>
        /\ \A x \in Parts : x # p => parts'[x] = parts[x]
        /\ \A x \in Editors : x # w => due'[x] = due[x] /\ partDue'[x] = partDue[x]
      BY <1>0, <1>2 DEF SavePart, handlerVars
  <2>2. ASSUME NEW s \in Routes PROVE InvalidationDue(s) => InvalidationDue(s)'
    <3>1. s \notin due[w] /\ s \notin Naming(partDue[w])
        BY <1>2, SetsAssumption, NoneAssumption DEF SavePart, Free, Naming, TypeInv, TypeOK
    <3> QED BY <2>1, <3>1 DEF InvalidationDue, Naming
  <2>3. ASSUME NEW s \in Routes PROVE Configured(s)' = Configured(s) \/ InvalidationDue(s)'
    <3>1. CASE routes[s] = None
        BY <2>1, <3>1 DEF Configured
    <3>2. CASE routes[s] # None /\ p \in Uses[routes[s]]
        BY <2>1, <3>2 DEF InvalidationDue, Naming
    <3>3. CASE routes[s] # None /\ p \notin Uses[routes[s]]
      <4>1. \A x \in Uses[routes[s]] : parts'[x] = parts[x]
          BY <1>0, <2>1, <3>3, SetsAssumption
      <4> QED BY <2>1, <3>3, <4>1 DEF Configured
    <3> QED BY <3>1, <3>2, <3>3
  <2> QED BY <2>1, <2>2, <2>3, EditSteps
<1>3. ASSUME NEW r \in Routes, InvalidateRoute(w, r) PROVE Atomic!Remove
  <2>1. /\ cache' = [s \in Routes |-> IF s \in {r} THEN None ELSE cache[s]]
        /\ UNCHANGED <<routes, parts, partDue, def, seen>>
        /\ due' = [due EXCEPT ![w] = @ \ {r}]
      BY <1>3 DEF InvalidateRoute, Drop, stores
  <2>2. \A s \in Routes \ {r} : InvalidationDue(s) => InvalidationDue(s)'
      BY <1>0, <2>1 DEF InvalidationDue, Naming
  <2>3. \A s \in Routes : InvalidationDue(s)' => InvalidationDue(s)
      BY <1>0, <2>1 DEF InvalidationDue, Naming
  <2> QED BY <2>1, <2>2, <2>3, RemoveSteps
<1>4. ASSUME InvalidateRoutes(w) PROVE Atomic!Remove
  <2> DEFINE S == Naming(partDue[w])
  <2>1. /\ cache' = [s \in Routes |-> IF s \in S THEN None ELSE cache[s]]
        /\ UNCHANGED <<routes, parts, due, def, seen>>
        /\ partDue' = [partDue EXCEPT ![w] = None]
      BY <1>4 DEF InvalidateRoutes, Drop, stores
  <2>2. S \in SUBSET Routes /\ \A x \in Editors : Naming(partDue[x])' = Naming(partDue'[x])
      BY <2>1 DEF Naming
  <2>3. \A s \in Routes \ S : InvalidationDue(s) => InvalidationDue(s)'
      BY <1>0, <2>1 DEF InvalidationDue, Naming
  <2>4. Naming(None) = {}
      BY <1>0, SetsAssumption, NoneAssumption DEF Naming
  <2>5. \A s \in Routes : InvalidationDue(s)' => InvalidationDue(s)
      BY <1>0, <2>1, <2>4 DEF InvalidationDue, Naming
  <2> HIDE DEF S
  <2> QED BY <2>1, <2>2, <2>3, <2>5, RemoveSteps
<1> QED BY <1>1, <1>2, <1>3, <1>4 DEF EditorStep, Atomic!Next

-----------------------------------------------------------------------------
(* Compilation.                                                             *)

\* A chain that may be stored was read from the configuration as it is now.
LEMMA StoreSteps ==
    ASSUME TypeInv, IInv, NEW r \in Routes, Store(r)
    PROVE  Atomic!Compile(r)
<1>0. /\ cache \in [Routes -> Handlers \cup {None}] /\ built[r] \in Handlers
      /\ built[r] # None
    BY NoneAssumption DEF TypeInv, TypeOK, FlightsOK, Store, Compiling
<1>1. /\ cache'[r] = built[r]
      /\ \A s \in Routes \ {r} : cache'[s] = cache[s]
      /\ UNCHANGED <<routes, parts, due, partDue, def, seen>>
    BY <1>0 DEF Store, stores, editing
<1>2. \A s \in Routes : Configured(s)' = Configured(s)
    BY <1>1, SameConfig
<1>3. \A s \in Routes : InvalidationDue(s)' = InvalidationDue(s)
    BY <1>1, SameOwed
<1>4. \A s \in Routes \ {r} : Compiled(s)' = Compiled(s)
    BY <1>1, SameServed
<1>5. ASSUME routes[r] # None, ~InvalidationDue(r) PROVE Compiled(r)' = Configured(r)
  <2>1. UpToDate(cache[r], r)'
      BY <1>0, <1>1, <1>3, <1>5, StoreKeeps DEF IInv, CurInv, CacheIsCurrent
  <2>2. def[built[r]] = routes[r] /\ \A p \in Uses[routes[r]] : seen[built[r]][p] = parts[p]
      BY <1>1, <2>1 DEF UpToDate
  <2>3. Compiled(r)' = <<def[built[r]], [p \in Uses[def[built[r]]] |-> seen[built[r]][p]]>>
      BY <1>0, <1>1 DEF Compiled
  <2> QED BY <1>5, <2>2, <2>3 DEF Configured
<1>6. Configured(r) # None => routes[r] # None
    BY DEF Configured
<1> QED BY <1>2, <1>3, <1>4, <1>5, <1>6 DEF Atomic!Compile

\* Nothing else a flight does, and no drain, touches a handler that is cached.
LEMMA FlightSteps ==
    ASSUME TypeInv, IInv, NEW r \in Routes, FlightStep(r)
    PROVE  [Atomic!Next]_(Atomic!vars)
<1>0. /\ cache \in [Routes -> Handlers \cup {None}]
      /\ def \in [Handlers -> Defs \cup {None}]
      /\ seen \in [Handlers -> [Parts -> PartDefs \cup {None}]]
      /\ \A s \in Routes : cache[s] # None => life[cache[s]] = "cached"
      /\ pc[r] \in Compiling => built[r] \in Handlers /\ life[built[r]] = "building"
    BY DEF TypeInv, TypeOK, FlightsOK, IInv, OwnInv, CachedOwned, BuiltOwned
<1>1. ASSUME NEW h \in Handlers, StartCompile(r, h) PROVE UNCHANGED Atomic!vars
  <2>1. \A g \in Handlers : life[g] = "cached" => def'[g] = def[g] /\ seen'[g] = seen[g]
      BY <1>0, <1>1 DEF StartCompile, Unreferenced
  <2> QED BY <1>0, <1>1, <2>1, Unseen DEF StartCompile, stores, editing
<1>2. ASSUME NEW p \in Parts, ReadPart(r, p) PROVE UNCHANGED Atomic!vars
  <2>1. \A g \in Handlers : life[g] = "cached" => def'[g] = def[g] /\ seen'[g] = seen[g]
      BY <1>0, <1>2 DEF ReadPart, Compiling
  <2> QED BY <1>0, <1>2, <2>1, Unseen DEF ReadPart, stores, editing
<1>3. ASSUME Discard(r) PROVE UNCHANGED Atomic!vars
  <2>1. \A g \in Handlers : life[g] = "cached" => def'[g] = def[g] /\ seen'[g] = seen[g]
      BY <1>0, <1>3 DEF Discard, Close, Compiling
  <2> QED BY <1>0, <1>3, <2>1, Unseen DEF Discard, stores, editing
<1>4. ASSUME Attempt(r) \/ ReturnCached(r) \/ FinishCompile(r) \/ EndFlight(r)
      PROVE  UNCHANGED Atomic!vars
    BY <1>4, Unseen DEF Attempt, ReturnCached, FinishCompile, EndFlight, stores, editing,
       handlerVars
<1>5. ASSUME Store(r) PROVE Atomic!Next
    BY <1>5, StoreSteps DEF Atomic!Next
<1> QED BY <1>1, <1>2, <1>3, <1>4, <1>5 DEF FlightStep

LEMMA HandlerSteps ==
    ASSUME TypeInv, IInv, NEW h \in Handlers, HandlerStep(h)
    PROVE  UNCHANGED Atomic!vars
<1>0. /\ cache \in [Routes -> Handlers \cup {None}]
      /\ def \in [Handlers -> Defs \cup {None}]
      /\ seen \in [Handlers -> [Parts -> PartDefs \cup {None}]]
      /\ \A s \in Routes : cache[s] # None => life[cache[s]] = "cached"
    BY DEF TypeInv, TypeOK, IInv, OwnInv, CachedOwned
<1>1. \A g \in Handlers : life[g] = "cached" => def'[g] = def[g] /\ seen'[g] = seen[g]
    BY <1>0 DEF HandlerStep, Check, DrainedClose, DrainExpires, Close
<1>2. UNCHANGED <<routes, parts, due, partDue, cache>>
    BY DEF HandlerStep, Check, DrainedClose, DrainExpires, stores, editing
<1> QED BY <1>0, <1>1, <1>2, Unseen

LEMMA PurgeSteps ==
    ASSUME TypeInv, Purge \/ SyncCollect
    PROVE  Atomic!Remove
<1>1. ASSUME NEW S \in SUBSET Routes,
             cache' = [r \in Routes |-> IF r \in S THEN None ELSE cache[r]],
             UNCHANGED <<routes, parts, due, partDue, def, seen>>
      PROVE  Atomic!Remove
    BY <1>1, SameOwed, RemoveSteps
<1>2. CASE Purge
    BY <1>1, <1>2 DEF Purge, Drop, stores, editing
<1>3. CASE SyncCollect
    BY <1>1, <1>3 DEF SyncCollect, Absent, stores, editing
<1> QED BY <1>2, <1>3

LEMMA AtomicNext == TypeInv /\ IInv /\ [Next]_vars => [Atomic!Next]_(Atomic!vars)
<1> SUFFICES ASSUME TypeInv, IInv, [Next]_vars PROVE [Atomic!Next]_(Atomic!vars)
    OBVIOUS
<1>1. ASSUME Purge \/ SyncCollect PROVE Atomic!Next
    BY <1>1, PurgeSteps DEF Atomic!Next
<1>2. ASSUME NEW q \in Callers, CallerStep(q) \/ \E r \in Routes : Select(q, r)
      PROVE  UNCHANGED Atomic!vars
    BY <1>2, Unseen DEF CallerStep, Select, Look, Join, Serve, Finish, Leave, stores,
       editing, handlerVars
<1>3. ASSUME NEW r \in Routes, Age(r) PROVE UNCHANGED Atomic!vars
    BY <1>3, Unseen DEF Age, stores, editing
<1>4. ASSUME SyncList \/ SyncWarm PROVE UNCHANGED Atomic!vars
    BY <1>4, Unseen DEF SyncList, SyncWarm, stores, editing, handlerVars
<1>5. ASSUME UNCHANGED vars PROVE UNCHANGED Atomic!vars
    BY <1>5, Unseen DEF vars, stores, editing, handlerVars
<1> QED BY <1>1, <1>2, <1>3, <1>4, <1>5, EditorSteps, FlightSteps, HandlerSteps
        DEF Next, SyncStep, Callers

LEMMA AtomicInit == Init => Atomic!Init
<1> SUFFICES ASSUME Init PROVE Atomic!Init
    OBVIOUS
<1>1. \A r \in Routes : Compiled(r) = None
    BY DEF Init, Compiled
<1>2. \A r \in Routes : ~InvalidationDue(r)
    BY SetsAssumption, NoneAssumption DEF Init, InvalidationDue, Naming
<1> QED BY <1>1, <1>2 DEF Atomic!Init

\* To its users the cache compiles each chain in one step, at the moment it is
\* stored, whatever edits, purges and builds interleave, for any number of routes,
\* parts, handlers and editors (CompilesAtomically).
THEOREM CacheCompilesAtomically == Spec => CompilesAtomically
BY IInvAlways, AtomicInit, AtomicNext, PTL DEF Spec, CompilesAtomically, Atomic!Spec
=============================================================================
