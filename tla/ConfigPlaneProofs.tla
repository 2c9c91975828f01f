------------------------- MODULE ConfigPlaneProofs -------------------------
(* What is proved of the configuration plane, for any routes, services,     *)
(* middlewares, editors and edits, over either backend.                     *)
EXTENDS ConfigPlane, TLAPS

USE ZenonT(20), SMTT(60)

-----------------------------------------------------------------------------
(* The inductive invariant.                                                 *)

NoRace == "race" \notin mishaps

\* A deletion that rewrites routes without a race is alone, and the routes it
\* has still to rewrite are as it has listed them.
Alone ==
    NoRace => \A e \in Editors : pc[e] = "unlink" =>
        /\ \A f \in Editors \ {e} : pc[f] = "idle"
        /\ \A r \in todo[e] : mem[r] = snap[e][r]

\* A deleted route is not persisted either.
GoneForGood == NoRace => \A r \in gone : mem[r] = None /\ disk[r] = None

\* At any time, and for the route that is about to be stored as well.
NoneDangling ==
    NoRace /\ ~Detached =>
        /\ NamesExisting
        /\ \A e \in Editors : pc[e] = "save" => snap[e][target[e]].middlewares \subseteq parts

\* While no rewrite has failed, the routes that still name the middleware that
\* is being deleted are those that are still to be rewritten.
UnlinkedBehind ==
    NoRace => \A e \in Editors : pc[e] = "unlink" /\ ~failed[e] =>
        \A r \in Existing(mem) \ todo[e] : target[e] \notin mem[r].middlewares

\* The routes that name the service that is being deleted will be invalidated.
AffectedNoted ==
    NoRace => \A e \in Editors : pc[e] = "unlink" /\ target[e] \in Services =>
        todo[e] \subseteq changed[e] /\ Naming(target[e]) \subseteq changed[e]

\* The edit e will invalidate r.
Covers(e, r) ==
    \/ pc[e] \in {"unlink", "invalidate"} /\ r \in changed[e]
    \/ pc[e] = "match" /\ r \in Naming(target[e])

DirtyCovered ==
    NoRace /\ "undeleted" \notin mishaps /\ ~Detached =>
        \A r \in dirty : \E e \in Editors : Covers(e, r)

Inv ==
    /\ TypeOK /\ StoredIsServed /\ Alone /\ GoneForGood
    /\ NoneDangling /\ UnlinkedBehind /\ AffectedNoted /\ DirtyCovered

-----------------------------------------------------------------------------
(* What the steps of an edit do.                                            *)

Records == RouteDefs \cup {None}

\* Mishaps are never forgotten.
LEMMA MishapsGrow ==
    ASSUME mishaps \subseteq mishaps', backend' = backend
    PROVE  /\ NoRace' => NoRace
           /\ ~Detached' => ~Detached
           /\ "undeleted" \notin mishaps' => "undeleted" \notin mishaps
BY DEF NoRace, Detached

LEMMA OutcomeIsBoolean == \A ok \in Outcomes(UpdateFails) \cup Outcomes(DeleteFails) : ok \in BOOLEAN
BY ZenonT(60), BoundsAssumption DEF Outcomes

\* A write of one route.
LEMMA RouteWritten ==
    ASSUME TypeOK, NEW r \in Routes, NEW d \in Records, NEW ok \in BOOLEAN,
           WriteRoutes([mem EXCEPT ![r] = d], ok)
    PROVE  /\ mem' \in [Routes -> Records] /\ disk' \in [Routes -> Records]
           /\ mem'[r] \in {mem[r], d} /\ disk'[r] \in {disk[r], d}
           /\ \A q \in Routes \ {r} : mem'[q] = mem[q] /\ disk'[q] \in {disk[q], mem[q]}
           /\ ok => mem'[r] = d /\ disk'[r] = d /\ mem' = disk'
           /\ ~ok => backend = "file" \/ (mem' = mem /\ disk' = disk)
<1> DEFINE rts == [mem EXCEPT ![r] = d]
<1>1. rts \in [Routes -> Records] /\ rts[r] = d /\ \A q \in Routes \ {r} : rts[q] = mem[q]
    BY DEF TypeOK, Records
<1>2. mem \in [Routes -> Records] /\ disk \in [Routes -> Records]
    BY DEF TypeOK, Records
<1>3. CASE ok
    <2>1. mem' = rts /\ disk' = rts
        BY <1>3 DEF WriteRoutes, FileRoutes, DBRoutes
    <2> QED BY <1>1, <1>2, <1>3, <2>1
<1>4. CASE ~ok
    <2>1. \/ backend = "file" /\ mem' = rts /\ disk' = disk
          \/ backend = "db" /\ mem' = mem /\ disk' = disk
        BY <1>4 DEF WriteRoutes, FileRoutes, DBRoutes
    <2>2. CASE backend = "file" /\ mem' = rts /\ disk' = disk
        BY <1>1, <1>2, <1>4, <2>2
    <2>3. CASE backend = "db" /\ mem' = mem /\ disk' = disk
        BY <1>1, <1>2, <1>4, <2>3
    <2> QED BY <2>1, <2>2, <2>3
<1> QED BY <1>3, <1>4

\* A write of a service or a middleware.
LEMMA PartWritten ==
    ASSUME TypeOK, NEW p \in Parts, NEW ps \in SUBSET Parts, NEW ok \in BOOLEAN,
           WriteParts(ps, p, ok)
    PROVE  /\ parts' \in {parts, ps} /\ stored' \in {stored, ps}
           /\ ok => parts' = ps /\ stored' = ps /\ dirty' = dirty \cup Naming(p)
           /\ ~ok => backend = "file" \/ (parts' = parts /\ stored' = stored /\ dirty' = dirty)
           /\ dirty' \in {dirty, dirty \cup Naming(p)}
<1>1. CASE ok
    BY <1>1 DEF WriteParts, FileParts, DBParts
<1>2. CASE ~ok
    BY <1>2 DEF WriteParts, FileParts, DBParts
<1> QED BY <1>1, <1>2

LEMMA NamingRoutes == ASSUME TypeOK, NEW p PROVE Naming(p) \subseteq Routes
BY DEF Naming, Existing

LEMMA WithoutFacts ==
    ASSUME NEW d \in RouteDefs, NEW p
    PROVE  /\ Without(d, p) \in RouteDefs
           /\ Without(d, p).middlewares = d.middlewares \ {p}
BY DEF Without, RouteDefs

\* An edit that begins without a race finds no deletion rewriting routes, and a
\* deletion finds nobody at all.
LEMMA BeginsAlone ==
    ASSUME TypeOK, NEW e \in Editors, NEW edit, NEW wrong \in SUBSET {"unsaved"},
           Begin(e, edit, wrong)
    PROVE  /\ mishaps \subseteq mishaps' /\ backend' = backend /\ edits' \in 0..MaxEdits
           /\ mishaps' \subseteq {"race", "unsaved", "undeleted"} /\ wrong \subseteq mishaps'
           /\ pc[e] = "idle"
           /\ NoRace' => \A f \in Editors : pc[f] # "unlink"
           /\ NoRace' /\ edit = "DeletePart" => \A f \in Editors : pc[f] = "idle"
<1>1. /\ mishaps' = mishaps \cup Overlaps(edit) \cup wrong /\ backend' = backend
      /\ edits' = edits + 1 /\ edits < MaxEdits /\ pc[e] = "idle"
    BY DEF Begin
<1>2. Overlaps(edit) \subseteq {"race"}
    BY DEF Overlaps
<1>3. ASSUME NEW f \in Editors, pc[f] = "unlink" PROVE "race" \in Overlaps(edit)
    <2>1. target[f] \in Parts
        BY <1>3 DEF TypeOK
    <2> QED BY <1>3, <2>1 DEF Overlaps
<1>4. ASSUME NEW f \in Editors, pc[f] # "idle", edit = "DeletePart" PROVE "race" \in Overlaps(edit)
    BY <1>4 DEF Overlaps
<1>5. edits' \in 0..MaxEdits
    BY SMTT(60), <1>1, BoundsAssumption DEF TypeOK
<1> QED BY <1>1, <1>2, <1>3, <1>4, <1>5 DEF NoRace, TypeOK

LEMMA Continues ==
    ASSUME TypeOK, NEW e \in Editors, NEW label, NEW wrong \in SUBSET {"unsaved", "undeleted"},
           Continue(e, label, wrong)
    PROVE  /\ mishaps \subseteq mishaps' /\ backend' = backend /\ edits' = edits
           /\ mishaps' \subseteq {"race", "unsaved", "undeleted"} /\ wrong \subseteq mishaps'
           /\ pc[e] = label
BY DEF Continue, TypeOK

\* A deletion is alone, so nobody else is in the middle of anything.
LEMMA OthersDoNotUnlink ==
    ASSUME Alone, NoRace, NEW e \in Editors, pc[e] \notin {"idle", "unlink"}
    PROVE  \A f \in Editors : pc[f] # "unlink"
BY DEF Alone

LEMMA FinishTypes ==
    ASSUME TypeOK, NEW e \in Editors, Finish(e)
    PROVE  /\ pc' \in [Editors -> {"idle", "save", "match", "unlink", "invalidate"}]
           /\ target' \in [Editors -> Routes \cup Parts \cup {None}]
           /\ snap' \in [Editors -> [Routes -> Records]]
           /\ todo' \in [Editors -> SUBSET Routes] /\ changed' \in [Editors -> SUBSET Routes]
           /\ failed' \in [Editors -> BOOLEAN]
           /\ pc'[e] = "idle" /\ todo'[e] = {}
           /\ \A f \in Editors \ {e} :
                 /\ pc'[f] = pc[f] /\ target'[f] = target[f] /\ snap'[f] = snap[f]
                 /\ todo'[f] = todo[f] /\ changed'[f] = changed[f] /\ failed'[f] = failed[f]
<1>1. NoRoutes \in [Routes -> Records]
    BY DEF NoRoutes, Records
<1>2. snap' \in [Editors -> [Routes -> Records]]
    BY <1>1 DEF Finish, TypeOK, Records
<1>3. failed' \in [Editors -> BOOLEAN] /\ \A f \in Editors \ {e} : failed'[f] = failed[f]
    BY ZenonT(60) DEF Finish, TypeOK
<1>4. /\ pc' \in [Editors -> {"idle", "save", "match", "unlink", "invalidate"}]
      /\ target' \in [Editors -> Routes \cup Parts \cup {None}]
      /\ todo' \in [Editors -> SUBSET Routes] /\ changed' \in [Editors -> SUBSET Routes]
    BY DEF Finish, TypeOK
<1> QED BY <1>2, <1>3, <1>4 DEF Finish, TypeOK

\* Where nobody rewrites routes there is nothing to say of it.
LEMMA NobodyUnlinks ==
    ASSUME NoRace' => \A f \in Editors : pc'[f] # "unlink"
    PROVE  Alone' /\ UnlinkedBehind' /\ AffectedNoted'
BY DEF Alone, UnlinkedBehind, AffectedNoted

\* An edit covers what it covered, unless its step or a write changes that.
LEMMA CoverKept ==
    ASSUME NEW f \in Editors, NEW r \in Routes, Covers(f, r),
           mem'[r] = mem[r], pc'[f] = pc[f], target'[f] = target[f], changed'[f] = changed[f]
    PROVE  Covers(f, r)'
BY DEF Covers, Naming, Existing

\* What follows from the memory, the parts and what is persisted staying as
\* they are.
LEMMA StoresKept ==
    ASSUME Inv, UNCHANGED <<mem, disk, parts, stored, gone>>,
           mishaps \subseteq mishaps', backend' = backend
    PROVE  /\ StoredIsServed' /\ GoneForGood'
           /\ NoRace' /\ ~Detached' => NamesExisting'
<1>1. (NoRace' => NoRace) /\ (~Detached' => ~Detached)
    BY MishapsGrow
<1> QED BY <1>1 DEF Inv, StoredIsServed, GoneForGood, NoneDangling, NamesExisting, Existing

-----------------------------------------------------------------------------
(* The invariant is inductive.                                              *)

LEMMA InvInit == Init => Inv
<1> SUFFICES ASSUME Init PROVE Inv
    OBVIOUS
<1>1. NoRoutes \in [Routes -> Records]
    BY DEF NoRoutes, Records
<1>2. TypeOK
    <2>1. failed \in [Editors -> BOOLEAN]
        BY ZenonT(60) DEF Init
    <2> QED BY SMTT(60), <1>1, <2>1, BoundsAssumption DEF Init, TypeOK, Records
<1>3. StoredIsServed /\ GoneForGood /\ Alone
    BY DEF Init, StoredIsServed, GoneForGood, Alone
<1>4. NoneDangling /\ UnlinkedBehind
    BY DEF Init, NoneDangling, NamesExisting, Existing, NoRoutes, UnlinkedBehind
<1>5. AffectedNoted /\ DirtyCovered
    BY DEF Init, AffectedNoted, DirtyCovered
<1> QED BY <1>2, <1>3, <1>4, <1>5 DEF Inv

LEMMA SaveRouteKeeps ==
    ASSUME Inv, NEW e \in Editors, NEW r \in Routes, NEW d \in Submitted, SaveRoute(e, r, d)
    PROVE  Inv'
<1> USE DEF Inv
<1>1. UNCHANGED <<mem, disk, parts, stored, dirty, todo, changed, failed, gone>>
    BY DEF SaveRoute, stores
<1>2. /\ mishaps \subseteq mishaps' /\ backend' = backend /\ edits' \in 0..MaxEdits
      /\ mishaps' \subseteq {"race", "unsaved", "undeleted"} /\ pc[e] = "idle"
      /\ NoRace' => \A f \in Editors : pc[f] # "unlink"
    BY BeginsAlone DEF SaveRoute
<1>3. d \in RouteDefs /\ d # None /\ d.middlewares \subseteq parts
    BY KindsAssumption DEF Submitted
<1>4. /\ pc' = [pc EXCEPT ![e] = "save"] /\ target' = [target EXCEPT ![e] = r]
      /\ snap' = [snap EXCEPT ![e] = [NoRoutes EXCEPT ![r] = d]]
    BY DEF SaveRoute, Goto
<1>5. [NoRoutes EXCEPT ![r] = d] \in [Routes -> Records] /\ [NoRoutes EXCEPT ![r] = d][r] = d
    BY <1>3 DEF NoRoutes, Records
<1>6. /\ pc'[e] = "save" /\ target'[e] = r /\ snap'[e][r] = d
      /\ \A f \in Editors \ {e} : pc'[f] = pc[f] /\ target'[f] = target[f] /\ snap'[f] = snap[f]
    BY <1>4, <1>5 DEF TypeOK
<1>7. TypeOK'
    <2>1. /\ pc' \in [Editors -> {"idle", "save", "match", "unlink", "invalidate"}]
          /\ target' \in [Editors -> Routes \cup Parts \cup {None}]
        BY <1>4 DEF TypeOK
    <2>2. snap' \in [Editors -> [Routes -> Records]]
        BY <1>4, <1>5 DEF TypeOK, Records
    <2>3. ASSUME NEW f \in Editors
          PROVE  /\ pc'[f] = "save" => target'[f] \in Routes /\ snap'[f][target'[f]] # None
                 /\ pc'[f] \in {"match", "unlink"} => target'[f] \in Parts
                 /\ pc'[f] = "unlink" => \A q \in todo[f] : snap'[f][q] # None
        BY SMTT(60), <1>3, <1>6 DEF TypeOK
    <2> QED BY <1>1, <1>2, <2>1, <2>2, <2>3 DEF TypeOK, Records
<1>8. (NoRace' => NoRace) /\ (~Detached' => ~Detached)
      /\ ("undeleted" \notin mishaps' => "undeleted" \notin mishaps)
    BY <1>2, MishapsGrow
<1>9. StoredIsServed' /\ GoneForGood' /\ (NoRace' /\ ~Detached' => NamesExisting')
    BY <1>1, <1>2, StoresKept
<1>10. Alone' /\ UnlinkedBehind' /\ AffectedNoted'
    BY <1>2, <1>6, NobodyUnlinks
<1>11. NoneDangling'
    BY <1>1, <1>3, <1>6, <1>8, <1>9 DEF NoneDangling
<1>12. DirtyCovered'
    <2> SUFFICES ASSUME DirtyCovered, NEW q \in dirty, NEW f \in Editors, Covers(f, q)
                 PROVE  \E g \in Editors : Covers(g, q)'
        BY <1>1, <1>8 DEF DirtyCovered
    <2>1. f # e /\ q \in Routes
        BY <1>2 DEF Covers, TypeOK
    <2> QED BY <2>1, <1>1, <1>6, CoverKept
<1> QED BY <1>7, <1>9, <1>10, <1>11, <1>12

LEMMA StoreRouteKeeps ==
    ASSUME Inv, NEW e \in Editors, StoreRoute(e)
    PROVE  Inv'
<1> DEFINE r == target[e]
           d == snap[e][r]
<1> USE DEF Inv
<1>1. PICK ok \in Outcomes(UpdateFails) :
        /\ Continue(e, "save", Unless(ok, "unsaved"))
        /\ WriteRoutes([mem EXCEPT ![r] = d], ok)
        /\ IF ok
           THEN /\ Goto(e, "invalidate") /\ changed' = [changed EXCEPT ![e] = {r}]
                /\ UNCHANGED <<target, snap, todo, failed>>
           ELSE Finish(e)
    BY DEF StoreRoute
<1>2. /\ dirty' = IF mem'[r] # mem[r] THEN dirty \cup {r} ELSE dirty
      /\ gone' = gone \ {r} /\ UNCHANGED <<parts, stored>>
    BY DEF StoreRoute
<1>3. ok \in BOOLEAN
    BY OutcomeIsBoolean
<1>4. /\ mishaps \subseteq mishaps' /\ backend' = backend /\ edits' = edits
      /\ mishaps' \subseteq {"race", "unsaved", "undeleted"} /\ pc[e] = "save"
      /\ ~ok => "unsaved" \in mishaps'
    <2>1. Unless(ok, "unsaved") \in SUBSET {"unsaved", "undeleted"}
        BY DEF Unless
    <2>2. ~ok => "unsaved" \in Unless(ok, "unsaved")
        BY DEF Unless
    <2> QED BY <1>1, <2>1, <2>2, Continues
<1>5. r \in Routes /\ d \in RouteDefs
    BY SMTT(60), <1>4 DEF TypeOK
<1>6. /\ mem' \in [Routes -> Records] /\ disk' \in [Routes -> Records]
      /\ mem'[r] \in {mem[r], d} /\ disk'[r] \in {disk[r], d}
      /\ \A q \in Routes \ {r} : mem'[q] = mem[q] /\ disk'[q] \in {disk[q], mem[q]}
      /\ ok => mem'[r] = d /\ disk'[r] = d /\ mem' = disk'
      /\ ~ok => backend = "file" \/ (mem' = mem /\ disk' = disk)
    <2>1. d \in Records
        BY <1>5 DEF Records
    <2> QED BY <1>1, <1>3, <1>5, <2>1, RouteWritten
<1>7. /\ pc' \in [Editors -> {"idle", "save", "match", "unlink", "invalidate"}]
      /\ target' \in [Editors -> Routes \cup Parts \cup {None}]
      /\ snap' \in [Editors -> [Routes -> Records]]
      /\ todo' \in [Editors -> SUBSET Routes] /\ changed' \in [Editors -> SUBSET Routes]
      /\ failed' \in [Editors -> BOOLEAN]
      /\ pc'[e] \in {"idle", "invalidate"}
      /\ ok => pc'[e] = "invalidate" /\ r \in changed'[e]
      /\ \A f \in Editors \ {e} :
            /\ pc'[f] = pc[f] /\ target'[f] = target[f] /\ snap'[f] = snap[f]
            /\ todo'[f] = todo[f] /\ changed'[f] = changed[f]
    <2>1. CASE ok
        <3>1. /\ Goto(e, "invalidate") /\ changed' = [changed EXCEPT ![e] = {r}]
              /\ UNCHANGED <<target, snap, todo, failed>>
            BY <1>1, <2>1
        <3> QED BY <2>1, <3>1, <1>5 DEF Goto, TypeOK, Records
    <2>2. CASE ~ok
        <3>1. Finish(e)
            BY <1>1, <2>2
        <3> QED BY <2>2, <3>1, FinishTypes
    <2> QED BY <1>3, <2>1, <2>2
<1>8. TypeOK'
    <2>1. dirty' \subseteq Routes /\ gone' \subseteq Routes
        BY <1>2, <1>5 DEF TypeOK
    <2>2. ASSUME NEW f \in Editors
          PROVE  /\ pc'[f] = "save" => target'[f] \in Routes /\ snap'[f][target'[f]] # None
                 /\ pc'[f] \in {"match", "unlink"} => target'[f] \in Parts
                 /\ pc'[f] = "unlink" => \A q \in todo'[f] : snap'[f][q] # None
        <3>1. CASE f = e
            BY <3>1, <1>7
        <3>2. CASE f # e
            <4>1. /\ pc'[f] = pc[f] /\ target'[f] = target[f] /\ snap'[f] = snap[f]
                  /\ todo'[f] = todo[f]
                BY <3>2, <1>7
            <4> QED BY <4>1 DEF TypeOK
        <3> QED BY <3>1, <3>2
    <2> QED BY <1>2, <1>4, <1>6, <1>7, <2>1, <2>2 DEF TypeOK, Records
<1>9. /\ NoRace' => NoRace
      /\ ~Detached' => ~Detached /\ (ok \/ (mem' = mem /\ disk' = disk))
      /\ "undeleted" \notin mishaps' => "undeleted" \notin mishaps
    <2>1. ~Detached' /\ ~ok => mem' = mem /\ disk' = disk
        BY <1>4, <1>6 DEF Detached
    <2> QED BY <2>1, <1>3, <1>4, MishapsGrow
<1>10. StoredIsServed'
    BY <1>2, <1>6, <1>9 DEF StoredIsServed
<1>11. GoneForGood'
    BY <1>2, <1>6, <1>9 DEF GoneForGood, TypeOK
<1>12. Alone' /\ UnlinkedBehind' /\ AffectedNoted'
    BY <1>4, <1>7, <1>9, OthersDoNotUnlink, NobodyUnlinks
<1>13. NoneDangling'
    <2> SUFFICES ASSUME NoRace', ~Detached' PROVE NoneDangling'
        BY DEF NoneDangling
    <2>1. NamesExisting /\ \A f \in Editors : pc[f] = "save" => snap[f][target[f]].middlewares \subseteq parts
        BY <1>9 DEF NoneDangling
    <2>2. ASSUME NEW q \in Routes, mem'[q] # None PROVE mem'[q].middlewares \subseteq parts
        BY <2>1, <2>2, <1>4, <1>6 DEF NamesExisting, Existing
    <2>3. NamesExisting'
        BY <2>2, <1>2 DEF NamesExisting, Existing
    <2>4. \A f \in Editors : pc'[f] = "save" => snap'[f][target'[f]].middlewares \subseteq parts
        BY <2>1, <1>7
    <2> QED BY <2>3, <2>4, <1>2 DEF NoneDangling
<1>14. DirtyCovered'
    <2> SUFFICES ASSUME NoRace', "undeleted" \notin mishaps', ~Detached', NEW q \in dirty'
                 PROVE  \E g \in Editors : Covers(g, q)'
        BY DEF DirtyCovered
    <2>1. CASE q = r /\ ok
        BY <2>1, <1>7 DEF Covers
    <2>2. CASE q # r \/ mem' = mem
        <3>1. q \in dirty /\ q \in Routes /\ mem'[q] = mem[q]
            BY <2>2, <1>2, <1>6 DEF TypeOK
        <3>2. PICK f \in Editors : Covers(f, q)
            BY <3>1, <1>9 DEF DirtyCovered
        <3>3. f # e
            BY <3>2, <1>4 DEF Covers
        <3> QED BY <3>1, <3>2, <3>3, <1>7, CoverKept
    <2> QED BY <2>1, <2>2, <1>9
<1> QED BY <1>8, <1>10, <1>11, <1>12, <1>13, <1>14

LEMMA DeleteRouteKeeps ==
    ASSUME Inv, NEW e \in Editors, NEW r \in Routes, DeleteRoute(e, r)
    PROVE  Inv'
<1> USE DEF Inv
<1>1. PICK ok \in Outcomes(UpdateFails) :
        /\ Begin(e, "DeleteRoute", Unless(ok, "unsaved"))
        /\ WriteRoutes([mem EXCEPT ![r] = None], ok)
        /\ gone' = IF ok THEN gone \cup {r} ELSE gone
        /\ IF ok
           THEN /\ Goto(e, "invalidate") /\ changed' = [changed EXCEPT ![e] = {r}]
                /\ UNCHANGED <<target, snap, todo, failed>>
           ELSE UNCHANGED <<pc, locals>>
    BY DEF DeleteRoute
<1>2. /\ dirty' = IF mem'[r] # mem[r] THEN dirty \cup {r} ELSE dirty
      /\ UNCHANGED <<parts, stored, target, snap, todo, failed>>
    BY <1>1 DEF DeleteRoute, locals
<1>3. ok \in BOOLEAN
    BY OutcomeIsBoolean
<1>4. /\ mishaps \subseteq mishaps' /\ backend' = backend /\ edits' \in 0..MaxEdits
      /\ mishaps' \subseteq {"race", "unsaved", "undeleted"} /\ pc[e] = "idle"
      /\ NoRace' => \A f \in Editors : pc[f] # "unlink"
      /\ ~ok => "unsaved" \in mishaps'
    <2>1. Unless(ok, "unsaved") \in SUBSET {"unsaved"}
        BY DEF Unless
    <2>2. ~ok => "unsaved" \in Unless(ok, "unsaved")
        BY DEF Unless
    <2> QED BY <1>1, <2>1, <2>2, BeginsAlone
<1>5. /\ mem' \in [Routes -> Records] /\ disk' \in [Routes -> Records]
      /\ mem'[r] \in {mem[r], None} /\ disk'[r] \in {disk[r], None}
      /\ \A q \in Routes \ {r} : mem'[q] = mem[q] /\ disk'[q] \in {disk[q], mem[q]}
      /\ ok => mem'[r] = None /\ disk'[r] = None /\ mem' = disk'
      /\ ~ok => backend = "file" \/ (mem' = mem /\ disk' = disk)
    <2>1. None \in Records
        BY DEF Records
    <2> QED BY <1>1, <1>3, <2>1, RouteWritten
<1>6. /\ pc' \in [Editors -> {"idle", "save", "match", "unlink", "invalidate"}]
      /\ changed' \in [Editors -> SUBSET Routes]
      /\ pc'[e] \in {"idle", "invalidate"}
      /\ ok => pc'[e] = "invalidate" /\ r \in changed'[e]
      /\ \A f \in Editors \ {e} : pc'[f] = pc[f] /\ changed'[f] = changed[f]
    <2>1. CASE ok
        <3>1. Goto(e, "invalidate") /\ changed' = [changed EXCEPT ![e] = {r}]
            BY <1>1, <2>1
        <3> QED BY <2>1, <3>1 DEF Goto, TypeOK
    <2>2. CASE ~ok
        <3>1. UNCHANGED <<pc, changed>>
            BY <1>1, <2>2 DEF locals
        <3> QED BY <2>2, <3>1, <1>4 DEF TypeOK
    <2> QED BY <1>3, <2>1, <2>2
<1>7. TypeOK'
    <2>1. dirty' \subseteq Routes /\ gone' \subseteq Routes
        BY <1>1, <1>2 DEF TypeOK
    <2>2. ASSUME NEW f \in Editors
          PROVE  /\ pc'[f] = "save" => target[f] \in Routes /\ snap[f][target[f]] # None
                 /\ pc'[f] \in {"match", "unlink"} => target[f] \in Parts
                 /\ pc'[f] = "unlink" => \A q \in todo[f] : snap[f][q] # None
        BY <1>6 DEF TypeOK
    <2> QED BY SMTT(60), <1>2, <1>4, <1>5, <1>6, <2>1, <2>2 DEF TypeOK, Records
<1>8. /\ NoRace' => NoRace
      /\ ~Detached' => ~Detached /\ (ok \/ (mem' = mem /\ disk' = disk))
      /\ "undeleted" \notin mishaps' => "undeleted" \notin mishaps
    <2>1. ~Detached' /\ ~ok => mem' = mem /\ disk' = disk
        BY <1>4, <1>5 DEF Detached
    <2> QED BY <2>1, <1>3, <1>4, MishapsGrow
<1>9. StoredIsServed'
    BY <1>2, <1>5, <1>8 DEF StoredIsServed
<1>10. GoneForGood'
    <2> SUFFICES ASSUME NoRace', NEW q \in gone' PROVE mem'[q] = None /\ disk'[q] = None
        BY DEF GoneForGood
    <2>1. CASE q = r /\ ok
        BY <2>1, <1>5
    <2>2. CASE q \in gone
        BY <2>2, <1>5, <1>8 DEF GoneForGood, TypeOK
    <2> QED BY <1>1, <2>1, <2>2
<1>11. Alone' /\ UnlinkedBehind' /\ AffectedNoted'
    BY <1>4, <1>6, NobodyUnlinks
<1>12. NoneDangling'
    BY <1>2, <1>5, <1>6, <1>8 DEF NoneDangling, NamesExisting, Existing
<1>13. DirtyCovered'
    <2> SUFFICES ASSUME NoRace', "undeleted" \notin mishaps', ~Detached', NEW q \in dirty'
                 PROVE  \E g \in Editors : Covers(g, q)'
        BY DEF DirtyCovered
    <2>1. CASE q = r /\ ok
        BY <2>1, <1>6 DEF Covers
    <2>2. CASE q # r \/ mem' = mem
        <3>1. q \in dirty /\ q \in Routes /\ mem'[q] = mem[q]
            BY <2>2, <1>2, <1>5 DEF TypeOK
        <3>2. PICK f \in Editors : Covers(f, q)
            BY <3>1, <1>8 DEF DirtyCovered
        <3>3. f # e
            BY <3>2, <1>4 DEF Covers
        <3> QED BY <3>1, <3>2, <3>3, <1>2, <1>6, CoverKept
    <2> QED BY <2>1, <2>2, <1>8
<1> QED BY <1>7, <1>9, <1>10, <1>11, <1>12, <1>13

LEMMA SavePartKeeps ==
    ASSUME Inv, NEW e \in Editors, NEW p \in Parts, SavePart(e, p)
    PROVE  Inv'
<1> USE DEF Inv
<1>1. PICK ok \in Outcomes(UpdateFails) :
        /\ Begin(e, "SavePart", Unless(ok, "unsaved"))
        /\ WriteParts(parts \cup {p}, p, ok)
        /\ IF ok
           THEN /\ Goto(e, "match") /\ target' = [target EXCEPT ![e] = p]
                /\ UNCHANGED <<snap, todo, changed, failed>>
           ELSE UNCHANGED <<pc, locals>>
    BY DEF SavePart
<1>2. UNCHANGED <<mem, disk, gone, snap, todo, changed, failed>>
    BY <1>1 DEF SavePart, locals
<1>3. ok \in BOOLEAN
    BY OutcomeIsBoolean
<1>4. /\ mishaps \subseteq mishaps' /\ backend' = backend /\ edits' \in 0..MaxEdits
      /\ mishaps' \subseteq {"race", "unsaved", "undeleted"} /\ pc[e] = "idle"
      /\ NoRace' => \A f \in Editors : pc[f] # "unlink"
      /\ ~ok => "unsaved" \in mishaps'
    <2>1. Unless(ok, "unsaved") \in SUBSET {"unsaved"}
        BY DEF Unless
    <2>2. ~ok => "unsaved" \in Unless(ok, "unsaved")
        BY DEF Unless
    <2> QED BY <1>1, <2>1, <2>2, BeginsAlone
<1>5. /\ parts' \in {parts, parts \cup {p}} /\ stored' \in {stored, parts \cup {p}}
      /\ ok => parts' = stored' /\ dirty' = dirty \cup Naming(p)
      /\ ~ok => backend = "file" \/ (parts' = parts /\ stored' = stored /\ dirty' = dirty)
      /\ dirty' \in {dirty, dirty \cup Naming(p)}
    <2>1. parts \cup {p} \in SUBSET Parts
        BY DEF TypeOK
    <2> QED BY <1>1, <1>3, <2>1, PartWritten
<1>6. /\ pc' \in [Editors -> {"idle", "save", "match", "unlink", "invalidate"}]
      /\ target' \in [Editors -> Routes \cup Parts \cup {None}]
      /\ pc'[e] = "idle" \/ (pc'[e] = "match" /\ target'[e] = p)
      /\ ok => pc'[e] = "match" /\ target'[e] = p
      /\ \A f \in Editors \ {e} : pc'[f] = pc[f] /\ target'[f] = target[f]
    <2>1. CASE ok
        <3>1. Goto(e, "match") /\ target' = [target EXCEPT ![e] = p]
            BY <1>1, <2>1
        <3> QED BY <2>1, <3>1 DEF Goto, TypeOK
    <2>2. CASE ~ok
        <3>1. UNCHANGED <<pc, target>>
            BY <1>1, <2>2 DEF locals
        <3> QED BY <2>2, <3>1, <1>4 DEF TypeOK
    <2> QED BY <1>3, <2>1, <2>2
<1>7. TypeOK'
    <2>1. dirty' \subseteq Routes /\ parts' \subseteq Parts /\ stored' \subseteq Parts
        BY <1>5, NamingRoutes DEF TypeOK
    <2>2. ASSUME NEW f \in Editors
          PROVE  /\ pc'[f] = "save" => target'[f] \in Routes /\ snap[f][target'[f]] # None
                 /\ pc'[f] \in {"match", "unlink"} => target'[f] \in Parts
                 /\ pc'[f] = "unlink" => \A q \in todo[f] : snap[f][q] # None
        BY <1>6 DEF TypeOK
    <2> QED BY SMTT(60), <1>2, <1>4, <1>6, <2>1, <2>2 DEF TypeOK
<1>8. /\ NoRace' => NoRace
      /\ ~Detached' => /\ ~Detached
                       /\ ok \/ (parts' = parts /\ stored' = stored /\ dirty' = dirty)
      /\ "undeleted" \notin mishaps' => "undeleted" \notin mishaps
    <2>1. ~Detached' /\ ~ok => parts' = parts /\ stored' = stored /\ dirty' = dirty
        BY <1>4, <1>5 DEF Detached
    <2> QED BY <2>1, <1>3, <1>4, MishapsGrow
<1>9. StoredIsServed'
    BY <1>2, <1>5, <1>8 DEF StoredIsServed
<1>10. GoneForGood'
    BY <1>2, <1>8 DEF GoneForGood
<1>11. Alone' /\ UnlinkedBehind' /\ AffectedNoted'
    BY <1>4, <1>6, NobodyUnlinks
<1>12. NoneDangling'
    BY <1>2, <1>5, <1>6, <1>8 DEF NoneDangling, NamesExisting, Existing
<1>13. DirtyCovered'
    <2> SUFFICES ASSUME NoRace', "undeleted" \notin mishaps', ~Detached', NEW q \in dirty'
                 PROVE  \E g \in Editors : Covers(g, q)'
        BY DEF DirtyCovered
    <2>1. CASE q \in Naming(p) /\ ok
        BY <2>1, <1>2, <1>6 DEF Covers, Naming, Existing
    <2>2. CASE q \in dirty
        <3>1. PICK f \in Editors : Covers(f, q)
            BY <2>2, <1>8 DEF DirtyCovered
        <3>2. f # e /\ q \in Routes
            BY <2>2, <3>1, <1>4 DEF Covers, TypeOK
        <3> QED BY <3>1, <3>2, <1>2, <1>6, CoverKept
    <2> QED BY <2>1, <2>2, <1>5, <1>8
<1> QED BY <1>7, <1>9, <1>10, <1>11, <1>12, <1>13

\* The edits that end with an invalidation.
LEMMA InvalidateNamingKeeps ==
    ASSUME Inv, NEW e \in Editors, InvalidateNaming(e)
    PROVE  Inv'
<1> USE DEF Inv
<1>1. /\ UNCHANGED <<mem, disk, parts, stored, gone>> /\ Finish(e)
      /\ dirty' = dirty \ Naming(target[e])
    BY DEF InvalidateNaming
<1>2. /\ mishaps \subseteq mishaps' /\ backend' = backend /\ edits' = edits
      /\ mishaps' \subseteq {"race", "unsaved", "undeleted"} /\ pc[e] = "match"
    BY Continues DEF InvalidateNaming
<1>3. TypeOK'
    <2>1. dirty' \subseteq Routes
        BY <1>1 DEF TypeOK
    <2>2. ASSUME NEW f \in Editors
          PROVE  /\ pc'[f] = "save" => target'[f] \in Routes /\ snap'[f][target'[f]] # None
                 /\ pc'[f] \in {"match", "unlink"} => target'[f] \in Parts
                 /\ pc'[f] = "unlink" => \A q \in todo'[f] : snap'[f][q] # None
        <3>1. pc'[e] = "idle" /\ (f # e => /\ pc'[f] = pc[f] /\ target'[f] = target[f]
                                          /\ snap'[f] = snap[f] /\ todo'[f] = todo[f])
            BY <1>1, FinishTypes
        <3> QED BY <3>1 DEF TypeOK
    <2> QED BY <1>1, <1>2, <2>1, <2>2, FinishTypes DEF TypeOK, Records
<1>4. /\ NoRace' => NoRace
      /\ ~Detached' => ~Detached
      /\ "undeleted" \notin mishaps' => "undeleted" \notin mishaps
    BY <1>2, MishapsGrow
<1>5. StoredIsServed' /\ GoneForGood' /\ (NoRace' /\ ~Detached' => NamesExisting')
    BY <1>1, <1>2, StoresKept
<1>6. Alone' /\ UnlinkedBehind' /\ AffectedNoted'
    BY SMTT(60), <1>1, <1>2, <1>4, FinishTypes, OthersDoNotUnlink, NobodyUnlinks
<1>7. NoneDangling'
    BY <1>1, <1>4, <1>5, FinishTypes DEF NoneDangling
<1>8. DirtyCovered'
    <2> SUFFICES ASSUME DirtyCovered, NEW q \in dirty', NEW f \in Editors, Covers(f, q)
                 PROVE  \E g \in Editors : Covers(g, q)'
        BY <1>1, <1>4 DEF DirtyCovered
    <2>1. f # e /\ q \in Routes
        BY <1>1, <1>2 DEF Covers, TypeOK
    <2> QED BY <2>1, <1>1, FinishTypes, CoverKept
<1> QED BY <1>3, <1>5, <1>6, <1>7, <1>8

LEMMA InvalidateKeeps ==
    ASSUME Inv, NEW e \in Editors, Invalidate(e)
    PROVE  Inv'
<1> USE DEF Inv
<1>1. UNCHANGED <<mem, disk, parts, stored, gone>>
    BY DEF Invalidate
<1>2. /\ mishaps \subseteq mishaps' /\ backend' = backend /\ edits' = edits
      /\ mishaps' \subseteq {"race", "unsaved", "undeleted"} /\ pc[e] = "invalidate"
    BY Continues DEF Invalidate
<1>3. /\ NoRace' => NoRace
      /\ ~Detached' => ~Detached
      /\ "undeleted" \notin mishaps' => "undeleted" \notin mishaps
    BY <1>2, MishapsGrow
<1>4. /\ pc' \in [Editors -> {"idle", "save", "match", "unlink", "invalidate"}]
      /\ target' \in [Editors -> Routes \cup Parts \cup {None}]
      /\ snap' \in [Editors -> [Routes -> Records]]
      /\ todo' \in [Editors -> SUBSET Routes] /\ changed' \in [Editors -> SUBSET Routes]
      /\ failed' \in [Editors -> BOOLEAN] /\ dirty' \subseteq dirty
      /\ pc'[e] \in {"idle", "invalidate"}
      /\ \A q \in dirty' : q \in changed[e] => pc'[e] = "invalidate" /\ q \in changed'[e]
      /\ \A f \in Editors \ {e} :
            /\ pc'[f] = pc[f] /\ target'[f] = target[f] /\ snap'[f] = snap[f]
            /\ todo'[f] = todo[f] /\ changed'[f] = changed[f]
    <2>1. CASE changed[e] = {}
        <3>1. Finish(e) /\ dirty' = dirty
            BY <2>1 DEF Invalidate
        <3> QED BY <2>1, <3>1, FinishTypes
    <2>2. CASE changed[e] # {}
        <3>1. PICK r \in changed[e] :
                /\ dirty' = dirty \ {r} /\ changed' = [changed EXCEPT ![e] = @ \ {r}]
                /\ UNCHANGED <<pc, target, snap, todo, failed>>
            BY <2>2 DEF Invalidate
        <3> QED BY <3>1, <1>2 DEF TypeOK, Records
    <2> QED BY <2>1, <2>2
<1>5. TypeOK'
    <2>1. ASSUME NEW f \in Editors
          PROVE  /\ pc'[f] = "save" => target'[f] \in Routes /\ snap'[f][target'[f]] # None
                 /\ pc'[f] \in {"match", "unlink"} => target'[f] \in Parts
                 /\ pc'[f] = "unlink" => \A q \in todo'[f] : snap'[f][q] # None
        <3>1. CASE f = e
            BY <3>1, <1>4
        <3>2. CASE f # e
            <4>1. /\ pc'[f] = pc[f] /\ target'[f] = target[f] /\ snap'[f] = snap[f]
                  /\ todo'[f] = todo[f]
                BY <3>2, <1>4
            <4> QED BY <4>1 DEF TypeOK
        <3> QED BY <3>1, <3>2
    <2> QED BY <1>1, <1>2, <1>4, <2>1 DEF TypeOK, Records
<1>6. StoredIsServed' /\ GoneForGood' /\ (NoRace' /\ ~Detached' => NamesExisting')
    BY <1>1, <1>2, StoresKept
<1>7. Alone' /\ UnlinkedBehind' /\ AffectedNoted'
    BY <1>2, <1>3, <1>4, OthersDoNotUnlink, NobodyUnlinks
<1>8. NoneDangling'
    BY <1>1, <1>3, <1>4, <1>6 DEF NoneDangling
<1>9. DirtyCovered'
    <2> SUFFICES ASSUME DirtyCovered, NEW q \in dirty', NEW f \in Editors, Covers(f, q)
                 PROVE  \E g \in Editors : Covers(g, q)'
        BY <1>3, <1>4 DEF DirtyCovered
    <2>1. CASE f = e
        BY <2>1, <1>2, <1>4 DEF Covers
    <2>2. CASE f # e
        <3>1. q \in Routes
            BY <1>4 DEF TypeOK
        <3> QED BY <2>2, <3>1, <1>1, <1>4, CoverKept
    <2> QED BY <2>1, <2>2
<1> QED BY <1>5, <1>6, <1>7, <1>8, <1>9

\* A deletion begins: the routes it lists are the routes there are.
LEMMA ListNamingKeeps ==
    ASSUME Inv, NEW e \in Editors, NEW p \in Parts, ListNaming(e, p),
           \/ p \in Services /\ changed' = [changed EXCEPT ![e] = Naming(p)]
           \/ p \in Middlewares /\ changed' = changed
    PROVE  Inv'
<1> USE DEF Inv
<1>1. UNCHANGED <<mem, disk, parts, stored, dirty, failed, gone>>
    BY DEF ListNaming, stores
<1>2. /\ mishaps \subseteq mishaps' /\ backend' = backend /\ edits' \in 0..MaxEdits
      /\ mishaps' \subseteq {"race", "unsaved", "undeleted"} /\ pc[e] = "idle"
      /\ NoRace' => \A f \in Editors : pc[f] = "idle"
    BY BeginsAlone DEF ListNaming
<1>3. /\ pc' = [pc EXCEPT ![e] = "unlink"] /\ target' = [target EXCEPT ![e] = p]
      /\ snap' = [snap EXCEPT ![e] = mem] /\ todo' = [todo EXCEPT ![e] = Naming(p)]
    BY DEF ListNaming, Goto
<1>4. /\ pc'[e] = "unlink" /\ target'[e] = p /\ snap'[e] = mem /\ todo'[e] = Naming(p)
      /\ p \in Services => changed'[e] = Naming(p)
      /\ \A f \in Editors \ {e} : /\ pc'[f] = pc[f] /\ target'[f] = target[f]
                                  /\ snap'[f] = snap[f] /\ todo'[f] = todo[f]
                                  /\ changed'[f] = changed[f]
    BY <1>3, KindsAssumption DEF TypeOK
<1>5. TypeOK'
    <2>1. /\ pc' \in [Editors -> {"idle", "save", "match", "unlink", "invalidate"}]
          /\ target' \in [Editors -> Routes \cup Parts \cup {None}]
          /\ snap' \in [Editors -> [Routes -> Records]]
        BY <1>3 DEF TypeOK, Records
    <2>2. todo' \in [Editors -> SUBSET Routes] /\ changed' \in [Editors -> SUBSET Routes]
        BY SMTT(60), <1>3, NamingRoutes DEF TypeOK
    <2>3. ASSUME NEW f \in Editors
          PROVE  /\ pc'[f] = "save" => target'[f] \in Routes /\ snap'[f][target'[f]] # None
                 /\ pc'[f] \in {"match", "unlink"} => target'[f] \in Parts
                 /\ pc'[f] = "unlink" => \A q \in todo'[f] : snap'[f][q] # None
        <3>1. CASE f = e
            BY <3>1, <1>4 DEF Naming, Existing
        <3>2. CASE f # e
            <4>1. /\ pc'[f] = pc[f] /\ target'[f] = target[f] /\ snap'[f] = snap[f]
                  /\ todo'[f] = todo[f]
                BY <3>2, <1>4
            <4> QED BY <4>1 DEF TypeOK
        <3> QED BY <3>1, <3>2
    <2> QED BY <1>1, <1>2, <2>1, <2>2, <2>3 DEF TypeOK, Records
<1>6. /\ NoRace' => NoRace
      /\ ~Detached' => ~Detached
      /\ "undeleted" \notin mishaps' => "undeleted" \notin mishaps
    BY <1>2, MishapsGrow
<1>7. StoredIsServed' /\ GoneForGood' /\ (NoRace' /\ ~Detached' => NamesExisting')
    BY <1>1, <1>2, StoresKept
<1>8. NoRace' => \A f \in Editors : pc'[f] = "unlink" => f = e
    BY <1>2, <1>4
<1>9. Alone'
    BY <1>1, <1>2, <1>4, <1>8 DEF Alone
<1>10. UnlinkedBehind'
    <2>1. \A q \in Existing(mem) \ Naming(p) : p \notin mem[q].middlewares
        BY DEF Naming
    <2> QED BY <2>1, <1>1, <1>4, <1>8 DEF UnlinkedBehind, Existing
<1>11. AffectedNoted'
    BY SMTT(60), <1>1, <1>4, <1>8 DEF AffectedNoted, Naming, Existing
<1>12. NoneDangling'
    BY <1>1, <1>4, <1>6, <1>7 DEF NoneDangling
<1>13. DirtyCovered'
    <2> SUFFICES ASSUME DirtyCovered, NEW q \in dirty, NEW f \in Editors, Covers(f, q)
                 PROVE  \E g \in Editors : Covers(g, q)'
        BY <1>1, <1>6 DEF DirtyCovered
    <2>1. f # e /\ q \in Routes
        BY <1>2 DEF Covers, TypeOK
    <2> QED BY <2>1, <1>1, <1>4, CoverKept
<1> QED BY <1>5, <1>7, <1>9, <1>10, <1>11, <1>12, <1>13

\* A route is rewritten as it was listed, which without a race is as it is.
LEMMA RewriteKeeps ==
    ASSUME Inv, NEW e \in Editors, NEW r \in Routes, NEW ok \in BOOLEAN, Rewrite(e, r, ok),
           \/ target[e] \in Services /\ UNCHANGED <<changed, failed>>
           \/ /\ target[e] \in Middlewares
              /\ changed' = [changed EXCEPT ![e] = IF ok THEN @ \cup {r} ELSE @]
              /\ failed' = [failed EXCEPT ![e] = @ \/ ~ok]
    PROVE  Inv'
<1> DEFINE p == target[e]
           d == Without(snap[e][r], p)
<1> USE DEF Inv
<1>1. /\ UNCHANGED <<parts, stored, pc, target, snap, gone>> /\ r \in todo[e]
      /\ dirty' = IF mem'[r] # mem[r] THEN dirty \cup {r} ELSE dirty
      /\ todo' = [todo EXCEPT ![e] = @ \ {r}]
    BY DEF Rewrite
<1>2. /\ mishaps \subseteq mishaps' /\ backend' = backend /\ edits' = edits
      /\ mishaps' \subseteq {"race", "unsaved", "undeleted"} /\ pc[e] = "unlink"
      /\ ~ok => "unsaved" \in mishaps'
    <2>1. Unless(ok, "unsaved") \in SUBSET {"unsaved", "undeleted"}
        BY DEF Unless
    <2>2. ~ok => "unsaved" \in Unless(ok, "unsaved")
        BY DEF Unless
    <2> QED BY <2>1, <2>2, Continues DEF Rewrite
<1>3. p \in Parts /\ snap[e][r] \in RouteDefs
    BY SMTT(60), <1>1, <1>2 DEF TypeOK
<1>4. d \in RouteDefs /\ d.middlewares = snap[e][r].middlewares \ {p}
    BY <1>3, WithoutFacts
<1>5. /\ mem' \in [Routes -> Records] /\ disk' \in [Routes -> Records]
      /\ mem'[r] \in {mem[r], d} /\ disk'[r] \in {disk[r], d}
      /\ \A q \in Routes \ {r} : mem'[q] = mem[q] /\ disk'[q] \in {disk[q], mem[q]}
      /\ ok => mem'[r] = d /\ disk'[r] = d /\ mem' = disk'
      /\ ~ok => backend = "file" \/ (mem' = mem /\ disk' = disk)
    <2>1. d \in Records
        BY <1>4 DEF Records
    <2> QED BY SMTT(60), <2>1, RouteWritten DEF Rewrite
<1>6. /\ todo' \in [Editors -> SUBSET Routes] /\ todo'[e] = todo[e] \ {r}
      /\ \A f \in Editors \ {e} : todo'[f] = todo[f]
    BY <1>1 DEF TypeOK
<1>7. /\ changed' \in [Editors -> SUBSET Routes] /\ changed[e] \subseteq changed'[e]
      /\ p \in Services => changed' = changed
      /\ p \in Middlewares /\ ok => r \in changed'[e]
    BY SMTT(60), KindsAssumption DEF TypeOK
<1>8. /\ failed' \in [Editors -> BOOLEAN]
      /\ ~failed'[e] => ~failed[e] /\ (p \in Services \/ ok)
    BY ZenonT(60) DEF TypeOK
<1>9. TypeOK'
    <2>1. dirty' \subseteq Routes
        BY <1>1 DEF TypeOK
    <2>2. ASSUME NEW f \in Editors
          PROVE  /\ pc[f] = "save" => target[f] \in Routes /\ snap[f][target[f]] # None
                 /\ pc[f] \in {"match", "unlink"} => target[f] \in Parts
                 /\ pc[f] = "unlink" => \A q \in todo'[f] : snap[f][q] # None
        BY <1>6 DEF TypeOK
    <2> QED BY <1>1, <1>2, <1>5, <1>6, <1>7, <1>8, <2>1, <2>2 DEF TypeOK, Records
<1>10. /\ NoRace' => NoRace
       /\ ~Detached' => ~Detached /\ (ok \/ (mem' = mem /\ disk' = disk))
       /\ "undeleted" \notin mishaps' => "undeleted" \notin mishaps
    <2>1. ~Detached' /\ ~ok => mem' = mem /\ disk' = disk
        BY <1>2, <1>5 DEF Detached
    <2> QED BY <2>1, <1>2, MishapsGrow
<1>11. StoredIsServed'
    BY <1>1, <1>5, <1>10 DEF StoredIsServed
<1>12. ASSUME NoRace'
       PROVE  /\ NoRace /\ mem[r] = snap[e][r] /\ mem[r] # None
              /\ \A q \in todo[e] : mem[q] = snap[e][q]
              /\ \A f \in Editors : pc[f] # "idle" => f = e
    <2>1. NoRace
        BY <1>10, <1>12
    <2> QED BY SMTT(60), <2>1, <1>1, <1>2 DEF Alone, TypeOK
<1>13. Alone'
    BY <1>1, <1>2, <1>5, <1>6, <1>12 DEF Alone, TypeOK
<1>14. GoneForGood'
    <2> SUFFICES ASSUME NoRace', NEW q \in gone PROVE mem'[q] = None /\ disk'[q] = None
        BY <1>1 DEF GoneForGood
    <2>1. mem[q] = None /\ disk[q] = None /\ q \in Routes \ {r}
        BY <1>12 DEF GoneForGood, TypeOK
    <2> QED BY <2>1, <1>5
<1>15. NoneDangling'
    <2> SUFFICES ASSUME NoRace', ~Detached' PROVE NoneDangling'
        BY DEF NoneDangling
    <2>1. NamesExisting
        BY <1>10 DEF NoneDangling
    <2>2. ASSUME NEW q \in Routes, mem'[q] # None PROVE mem'[q].middlewares \subseteq parts
        BY <2>1, <2>2, <1>4, <1>5, <1>12 DEF NamesExisting, Existing
    <2>3. \A f \in Editors : pc[f] # "save"
        BY <1>2, <1>12
    <2> QED BY <2>2, <2>3, <1>1 DEF NoneDangling, NamesExisting, Existing
<1>16. UnlinkedBehind'
    <2> SUFFICES ASSUME NoRace', ~failed'[e], NEW q \in Routes, mem'[q] # None, q \notin todo'[e]
                 PROVE  p \notin mem'[q].middlewares
        BY <1>1, <1>12 DEF UnlinkedBehind, Existing
    <2>1. CASE q # r
        BY <2>1, <1>2, <1>5, <1>6, <1>8, <1>12 DEF UnlinkedBehind, Existing
    <2>2. CASE q = r /\ p \in Services
        <3>1. mem'[q].middlewares \subseteq Middlewares
            BY <1>5 DEF Records, RouteDefs
        <3> QED BY <2>2, <3>1, KindsAssumption
    <2>3. CASE q = r /\ ok
        BY <2>3, <1>4, <1>5
    <2> QED BY <2>1, <2>2, <2>3, <1>8
<1>17. AffectedNoted'
    <2> SUFFICES ASSUME NoRace', p \in Services
                 PROVE  todo'[e] \subseteq changed'[e] /\ Naming(p)' \subseteq changed'[e]
        BY <1>1, <1>12 DEF AffectedNoted, Naming, Existing
    <2>1. todo[e] \subseteq changed[e] /\ Naming(p) \subseteq changed[e]
        BY <1>2, <1>12 DEF AffectedNoted
    <2>2. p' = p /\ Naming(p)' \subseteq Naming(p) \cup {r}
        BY <1>1, <1>5 DEF Naming, Existing
    <2> QED BY <2>1, <2>2, <1>1, <1>6, <1>7
<1>18. DirtyCovered'
    <2> SUFFICES ASSUME NoRace', "undeleted" \notin mishaps', ~Detached', NEW q \in dirty'
                 PROVE  q \in changed'[e]
        BY <1>1, <1>2 DEF DirtyCovered, Covers
    <2>1. CASE q \in dirty
        <3>1. PICK f \in Editors : Covers(f, q)
            BY <2>1, <1>10 DEF DirtyCovered
        <3>2. f = e
            BY <3>1, <1>12 DEF Covers
        <3> QED BY <3>1, <3>2, <1>2, <1>7 DEF Covers
    <2>2. CASE q = r /\ mem'[r] # mem[r]
        <3>1. CASE p \in Services
            BY <2>2, <3>1, <1>1, <1>2, <1>7, <1>12 DEF AffectedNoted
        <3>2. CASE p \in Middlewares
            BY <2>2, <3>2, <1>7, <1>10
        <3> QED BY <3>1, <3>2, <1>3 DEF Parts
    <2> QED BY <2>1, <2>2, <1>1
<1> QED BY <1>9, <1>11, <1>13, <1>14, <1>15, <1>16, <1>17, <1>18

\* A deletion stops for a route it could not rewrite.
LEMMA RefuseKeeps ==
    ASSUME Inv, NEW e \in Editors, Refuse(e)
    PROVE  Inv'
<1> USE DEF Inv
<1>1. /\ UNCHANGED <<mem, disk, parts, stored, dirty, target, snap, todo, changed, failed, gone>>
      /\ pc' = [pc EXCEPT ![e] = "invalidate"]
    BY DEF Refuse, stores, locals, Goto
<1>2. /\ mishaps \subseteq mishaps' /\ backend' = backend /\ edits' = edits
      /\ mishaps' \subseteq {"race", "unsaved", "undeleted"} /\ pc[e] = "unlink"
    BY Continues DEF Refuse
<1>3. /\ pc' \in [Editors -> {"idle", "save", "match", "unlink", "invalidate"}]
      /\ pc'[e] = "invalidate" /\ \A f \in Editors \ {e} : pc'[f] = pc[f]
    BY <1>1 DEF TypeOK
<1>4. TypeOK'
    <2>1. ASSUME NEW f \in Editors
          PROVE  /\ pc'[f] = "save" => target[f] \in Routes /\ snap[f][target[f]] # None
                 /\ pc'[f] \in {"match", "unlink"} => target[f] \in Parts
                 /\ pc'[f] = "unlink" => \A q \in todo[f] : snap[f][q] # None
        BY <1>3 DEF TypeOK
    <2> QED BY <1>1, <1>2, <1>3, <2>1 DEF TypeOK
<1>5. /\ NoRace' => NoRace
      /\ ~Detached' => ~Detached
      /\ "undeleted" \notin mishaps' => "undeleted" \notin mishaps
    BY <1>2, MishapsGrow
<1>6. StoredIsServed' /\ GoneForGood' /\ (NoRace' /\ ~Detached' => NamesExisting')
    BY <1>1, <1>2, StoresKept
<1>7. Alone' /\ UnlinkedBehind' /\ AffectedNoted'
    <2>1. NoRace' => \A f \in Editors : pc'[f] # "unlink"
        BY <1>2, <1>3, <1>5 DEF Alone
    <2> QED BY <2>1, NobodyUnlinks
<1>8. NoneDangling'
    BY <1>1, <1>3, <1>5, <1>6 DEF NoneDangling
<1>9. DirtyCovered'
    <2> SUFFICES ASSUME DirtyCovered, NEW q \in dirty, NEW f \in Editors, Covers(f, q)
                 PROVE  \E g \in Editors : Covers(g, q)'
        BY <1>1, <1>5 DEF DirtyCovered
    <2>1. CASE f = e
        BY <2>1, <1>1, <1>2, <1>3 DEF Covers
    <2>2. CASE f # e
        <3>1. q \in Routes
            BY DEF TypeOK
        <3> QED BY <2>2, <3>1, <1>1, <1>3, CoverKept
    <2> QED BY <2>1, <2>2
<1> QED BY <1>4, <1>6, <1>7, <1>8, <1>9

\* The record goes last, when no route names it or all that do are noted.
LEMMA DeleteRecordKeeps ==
    ASSUME Inv, NEW e \in Editors, DeleteRecord(e)
    PROVE  Inv'
<1> DEFINE p == target[e]
<1> USE DEF Inv
<1>1. PICK ok \in Outcomes(DeleteFails) :
        /\ Continue(e, "unlink", Unless(ok, "undeleted"))
        /\ WriteParts(parts \ {p}, p, ok)
        /\ IF ok THEN Goto(e, "invalidate") /\ UNCHANGED locals ELSE Finish(e)
    BY DEF DeleteRecord
<1>2. UNCHANGED <<mem, disk, gone>> /\ todo[e] = {} /\ ~failed[e]
    BY DEF DeleteRecord
<1>3. ok \in BOOLEAN
    BY OutcomeIsBoolean
<1>4. /\ mishaps \subseteq mishaps' /\ backend' = backend /\ edits' = edits
      /\ mishaps' \subseteq {"race", "unsaved", "undeleted"} /\ pc[e] = "unlink"
      /\ ~ok => "undeleted" \in mishaps'
    <2>1. Unless(ok, "undeleted") \in SUBSET {"unsaved", "undeleted"}
        BY DEF Unless
    <2>2. ~ok => "undeleted" \in Unless(ok, "undeleted")
        BY DEF Unless
    <2> QED BY <1>1, <2>1, <2>2, Continues
<1>5. p \in Parts
    BY <1>4 DEF TypeOK
<1>6. /\ parts' \in {parts, parts \ {p}} /\ stored' \in {stored, parts \ {p}}
      /\ ok => parts' = stored' /\ dirty' = dirty \cup Naming(p)
      /\ ~ok => backend = "file" \/ (parts' = parts /\ stored' = stored /\ dirty' = dirty)
      /\ dirty' \in {dirty, dirty \cup Naming(p)}
    <2>1. parts \ {p} \in SUBSET Parts
        BY DEF TypeOK
    <2> QED BY <1>1, <1>3, <1>5, <2>1, PartWritten
<1>7. /\ pc' \in [Editors -> {"idle", "save", "match", "unlink", "invalidate"}]
      /\ target' \in [Editors -> Routes \cup Parts \cup {None}]
      /\ snap' \in [Editors -> [Routes -> Records]]
      /\ todo' \in [Editors -> SUBSET Routes] /\ changed' \in [Editors -> SUBSET Routes]
      /\ failed' \in [Editors -> BOOLEAN]
      /\ pc'[e] \in {"idle", "invalidate"}
      /\ ok => pc'[e] = "invalidate" /\ changed' = changed
      /\ \A f \in Editors \ {e} :
            /\ pc'[f] = pc[f] /\ target'[f] = target[f] /\ snap'[f] = snap[f]
            /\ todo'[f] = todo[f] /\ changed'[f] = changed[f]
    <2>1. CASE ok
        <3>1. Goto(e, "invalidate") /\ UNCHANGED <<target, snap, todo, changed, failed>>
            BY <1>1, <2>1 DEF locals
        <3> QED BY <2>1, <3>1 DEF Goto, TypeOK, Records
    <2>2. CASE ~ok
        <3>1. Finish(e)
            BY <1>1, <2>2
        <3> QED BY <2>2, <3>1, FinishTypes
    <2> QED BY <1>3, <2>1, <2>2
<1>8. TypeOK'
    <2>1. dirty' \subseteq Routes /\ parts' \subseteq Parts /\ stored' \subseteq Parts
        BY <1>6, NamingRoutes DEF TypeOK
    <2>2. ASSUME NEW f \in Editors
          PROVE  /\ pc'[f] = "save" => target'[f] \in Routes /\ snap'[f][target'[f]] # None
                 /\ pc'[f] \in {"match", "unlink"} => target'[f] \in Parts
                 /\ pc'[f] = "unlink" => \A q \in todo'[f] : snap'[f][q] # None
        <3>1. CASE f = e
            BY <3>1, <1>7
        <3>2. CASE f # e
            <4>1. /\ pc'[f] = pc[f] /\ target'[f] = target[f] /\ snap'[f] = snap[f]
                  /\ todo'[f] = todo[f]
                BY <3>2, <1>7
            <4> QED BY <4>1 DEF TypeOK
        <3> QED BY <3>1, <3>2
    <2> QED BY <1>2, <1>4, <1>7, <2>1, <2>2 DEF TypeOK, Records
<1>9. /\ NoRace' => NoRace
      /\ ~Detached' => /\ ~Detached
                       /\ ok \/ (parts' = parts /\ stored' = stored /\ dirty' = dirty)
      /\ "undeleted" \notin mishaps' => "undeleted" \notin mishaps
    <2>1. ~Detached' /\ ~ok => parts' = parts /\ stored' = stored /\ dirty' = dirty
        BY <1>4, <1>6 DEF Detached
    <2> QED BY <2>1, <1>3, <1>4, MishapsGrow
<1>10. NoRace' => NoRace /\ \A f \in Editors : pc[f] # "idle" => f = e
    BY <1>4, <1>9 DEF Alone
<1>11. NoRace' => \A q \in Existing(mem) : p \notin mem[q].middlewares
    BY <1>2, <1>4, <1>10 DEF UnlinkedBehind
<1>12. StoredIsServed'
    BY <1>2, <1>6, <1>9 DEF StoredIsServed
<1>13. GoneForGood'
    BY <1>2, <1>9 DEF GoneForGood
<1>14. Alone' /\ UnlinkedBehind' /\ AffectedNoted'
    <2>1. NoRace' => \A f \in Editors : pc'[f] # "unlink"
        BY <1>7, <1>10
    <2> QED BY <2>1, NobodyUnlinks
<1>15. NoneDangling'
    <2> SUFFICES ASSUME NoRace', ~Detached' PROVE NoneDangling'
        BY DEF NoneDangling
    <2>1. NamesExisting
        BY <1>9 DEF NoneDangling
    <2>2. NamesExisting'
        BY <2>1, <1>2, <1>6, <1>11 DEF NamesExisting, Existing
    <2>3. \A f \in Editors : pc'[f] # "save"
        BY <1>7, <1>10
    <2> QED BY <2>2, <2>3 DEF NoneDangling
<1>16. DirtyCovered'
    <2> SUFFICES ASSUME NoRace', "undeleted" \notin mishaps', ~Detached', NEW q \in dirty'
                 PROVE  q \in changed[e]
        BY <1>3, <1>4, <1>7 DEF DirtyCovered, Covers
    <2>1. CASE q \in dirty
        <3>1. PICK f \in Editors : Covers(f, q)
            BY <2>1, <1>9 DEF DirtyCovered
        <3>2. f = e
            BY <3>1, <1>10 DEF Covers
        <3> QED BY <3>1, <3>2, <1>4 DEF Covers
    <2>2. CASE q \in Naming(p)
        <3>1. CASE p \in Services
            BY <2>2, <3>1, <1>4, <1>10 DEF AffectedNoted
        <3>2. CASE p \in Middlewares
            <4>1. q \in Existing(mem) /\ mem[q].service = p
                BY <2>2, <1>11 DEF Naming
            <4>2. mem[q].service \in Services \cup {None}
                BY <4>1 DEF Existing, TypeOK, RouteDefs
            <4> QED BY <3>2, <4>1, <4>2, KindsAssumption DEF Parts
        <3> QED BY <3>1, <3>2, <1>5 DEF Parts
    <2> QED BY <2>1, <2>2, <1>6
<1> QED BY <1>8, <1>12, <1>13, <1>14, <1>15, <1>16

\* What is persisted was served, unless a file write failed.
LEMMA RestartKeeps ==
    ASSUME Inv, Restart
    PROVE  Inv'
<1> USE DEF Inv
<1>1. /\ mem' = disk /\ parts' = stored /\ dirty' = {}
      /\ UNCHANGED <<disk, stored, gone, edits, backend, mishaps>>
    BY DEF Restart
<1>2. /\ pc' = [e \in Editors |-> "idle"] /\ target' = [e \in Editors |-> None]
      /\ snap' = [e \in Editors |-> NoRoutes] /\ todo' = [e \in Editors |-> {}]
      /\ changed' = [e \in Editors |-> {}]
    BY DEF Restart
<1>3. \A f \in Editors : pc'[f] = "idle"
    BY <1>2
<1>4. TypeOK'
    <2>1. NoRoutes \in [Routes -> Records]
        BY DEF NoRoutes, Records
    <2>2. failed' \in [Editors -> BOOLEAN]
        BY ZenonT(60) DEF Restart
    <2> QED BY <1>1, <1>2, <2>1, <2>2 DEF TypeOK, Records
<1>5. (NoRace' => NoRace) /\ (~Detached' => ~Detached)
    BY <1>1, MishapsGrow
<1>6. StoredIsServed' /\ GoneForGood'
    BY <1>1, <1>5 DEF StoredIsServed, GoneForGood
<1>7. Alone' /\ UnlinkedBehind' /\ AffectedNoted'
    BY <1>3, NobodyUnlinks
<1>8. NoneDangling'
    <2>1. NoRace' /\ ~Detached' => mem' = mem /\ parts' = parts /\ NamesExisting
        BY <1>1, <1>5 DEF StoredIsServed, NoneDangling
    <2> QED BY <2>1, <1>3 DEF NoneDangling, NamesExisting, Existing
<1>9. DirtyCovered'
    BY <1>1 DEF DirtyCovered
<1> QED BY <1>4, <1>6, <1>7, <1>8, <1>9

LEMMA InvNext == Inv /\ [Next]_vars => Inv'
<1> SUFFICES ASSUME Inv, [Next]_vars PROVE Inv'
    OBVIOUS
<1>1. ASSUME NEW e \in Editors, NEW s \in Services, SaveService(e, s) \/ DeleteService(e, s)
      PROVE  Inv'
    <2>1. s \in Parts
        BY DEF Parts
    <2> QED BY <1>1, <2>1, SavePartKeeps, ListNamingKeeps DEF SaveService, DeleteService
<1>2. ASSUME NEW e \in Editors, NEW m \in Middlewares,
             SaveMiddleware(e, m) \/ DeleteMiddleware(e, m)
      PROVE  Inv'
    <2>1. m \in Parts
        BY DEF Parts
    <2> QED BY <1>2, <2>1, SavePartKeeps, ListNamingKeeps DEF SaveMiddleware, DeleteMiddleware
<1>3. ASSUME NEW e \in Editors, ClearRouteReferences(e) PROVE Inv'
    <2>1. PICK r \in Routes, ok \in Outcomes(UpdateFails) : Rewrite(e, r, ok)
        BY <1>3 DEF ClearRouteReferences
    <2>2. ok \in BOOLEAN
        BY OutcomeIsBoolean
    <2> QED BY <1>3, <2>1, <2>2, RewriteKeeps DEF ClearRouteReferences
<1>4. ASSUME NEW e \in Editors, unlinkFromRoutes(e) PROVE Inv'
    <2>1. PICK r \in Routes, ok \in Outcomes(UpdateFails) :
            /\ Rewrite(e, r, ok)
            /\ changed' = [changed EXCEPT ![e] = IF ok THEN @ \cup {r} ELSE @]
            /\ failed' = [failed EXCEPT ![e] = @ \/ ~ok]
        BY <1>4 DEF unlinkFromRoutes
    <2>2. ok \in BOOLEAN /\ target[e] \in Middlewares
        BY <1>4, OutcomeIsBoolean DEF unlinkFromRoutes
    <2> QED BY <2>1, <2>2, RewriteKeeps
<1>5. CASE UNCHANGED vars
    <2>1. UNCHANGED <<mem, disk, parts, stored, dirty, pc, target, snap, todo, changed, failed, gone, edits, backend, mishaps>>
        BY <1>5 DEF vars, stores, locals
    <2>2. TypeOK'
        BY <2>1 DEF Inv, TypeOK
    <2>3. StoredIsServed' /\ Alone' /\ GoneForGood' /\ NoneDangling'
        BY <2>1 DEF Inv, StoredIsServed, Detached, Alone, NoRace, GoneForGood, NoneDangling,
                    NamesExisting, Existing
    <2>4. UnlinkedBehind' /\ AffectedNoted' /\ DirtyCovered'
        BY <2>1 DEF Inv, UnlinkedBehind, NoRace, AffectedNoted, Naming, Existing, DirtyCovered,
                    Detached, Covers
    <2> QED BY <2>2, <2>3, <2>4 DEF Inv
<1> QED
    BY <1>1, <1>2, <1>3, <1>4, <1>5, SaveRouteKeeps, DeleteRouteKeeps, StoreRouteKeeps,
       InvalidateNamingKeeps, RefuseKeeps, DeleteRecordKeeps, InvalidateKeeps, RestartKeeps
    DEF Next

LEMMA InvAlways == Spec => []Inv
BY InvInit, InvNext, PTL DEF Spec

-----------------------------------------------------------------------------
(* Theorems.                                                                *)

\* The gateway serves what is persisted, whatever writes fail and however edits
\* interleave; over files, until a write has failed.
THEOREM StoredAlwaysServed == Spec => []StoredIsServed
BY InvAlways, PTL DEF Inv

\* Without a race, a route whose deletion succeeded is not served again until
\* it is saved, across restarts.
THEOREM DeletedForGood == Spec => []DeletedStaysDeleted
<1>1. Inv => DeletedStaysDeleted
    BY DEF Inv, GoneForGood, NoRace, DeletedStaysDeleted
<1> QED BY <1>1, InvAlways, PTL

\* Without a race, no route names a middleware that does not exist, after failed
\* writes and a crash in the middle of a deletion as well.
THEOREM NeverDangling == Spec => []NoDanglingMiddleware
<1>1. Inv => NoDanglingMiddleware
    BY DEF Inv, NoneDangling, NoRace, NoDanglingMiddleware
<1> QED BY <1>1, InvAlways, PTL

\* Once the edits are over, no route is served by a chain compiled before its
\* configuration changed.
THEOREM ChangesAlwaysInvalidated == Spec => []ChangesInvalidated
<1>1. Inv => ChangesInvalidated
    BY DEF Inv, DirtyCovered, Covers, NoRace, Quiet, ChangesInvalidated
<1> QED BY <1>1, InvAlways, PTL
=============================================================================
