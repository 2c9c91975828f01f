--------------------------- MODULE SessionsProofs ---------------------------
(* What is proved of session revocation, for any nodes, requests, roles,    *)
(* TTL and number of changes.                                               *)
EXTENDS Sessions, TLAPS

USE ZenonT(20), SMTT(60)

-----------------------------------------------------------------------------
(* The inductive invariant.                                                 *)

\* A binding that is answered although it is not the account's.
Stale(b) == b \notin {Row, Refusal}

\* What a request has read was the account's binding no longer ago than the
\* read, and a refusal that was lifted since was lifted no longer ago.
ReadsAge ==
    \A r \in Requests : req[r] # Idle =>
        /\ Stale(req[r].row) => ended[req[r].row] <= req[r].age
        /\ req[r].row = Refusal /\ Row # Refusal => \E b \in Bindings : ended[b] <= req[r].age

\* A cached binding that has ended has no more left than its read and its TTL
\* leave it.
EntriesAge ==
    \A n \in Nodes : \A e \in cache[n] : Stale(e.b) => ended[e.b] + e.left <= Long

\* A node that has an old binding cached has still to hear of the change.
Expecting(n) ==
    \/ n \in late \cup unheard \cup mail
    \/ \E m \in Nodes : change[m] = "drop" \/ (change[m] = "publish" /\ m # n)

WillHear == \A n \in Nodes : \A e \in cache[n] : e.left > 0 => e.b = Row \/ Expecting(n)

Inv == TypeOK /\ ReadsAge /\ EntriesAge /\ WillHear

-----------------------------------------------------------------------------
(* Types.                                                                   *)

Asked == [at : {"put"}, node : Nodes, row : Bindings \cup {Refusal}, age : 0..MaxRead]

LEMMA Bounds ==
    /\ TTL \in Nat /\ TTL > 0 /\ MaxRead \in Nat /\ MaxChanges \in Nat
    /\ Long \in Nat /\ Long = MaxRead + TTL
    /\ Refusal \notin Bindings
<1>1. /\ TTL \in Nat /\ TTL > 0 /\ MaxRead \in Nat /\ MaxChanges \in Nat
    BY SessionsAssumption
<1>2. ASSUME NEW b \in Bindings PROVE b # Refusal
    BY SMTT(60), <1>1 DEF Bindings, Refusal
<1> QED BY SMTT(60), <1>1, <1>2 DEF Long

LEMMA RowType == ASSUME TypeOK PROVE Row \in Bindings \cup {Refusal} /\ acct.b \in Bindings
BY DEF TypeOK, Row

LEMMA TypeInit == Init => TypeOK
<1> SUFFICES ASSUME Init PROVE TypeOK
    OBVIOUS
<1>1. PICK r \in Roles :
        acct = [b |-> [gen |-> 0, role |-> r], enabled |-> TRUE, exists |-> TRUE]
    BY DEF Init
<1>2. acct \in [b : Bindings, enabled : BOOLEAN, exists : BOOLEAN]
    BY SMTT(60), <1>1, Bounds DEF Bindings
<1>3. ended \in [Bindings -> 0..Long]
    BY SMTT(60), Bounds DEF Init
<1> QED BY SMTT(60), <1>2, <1>3, Bounds DEF Init, TypeOK

LEMMA TypeNext == TypeOK /\ [Next]_vars => TypeOK'
<1> SUFFICES ASSUME TypeOK, [Next]_vars PROVE TypeOK'
    OBVIOUS
<1> USE DEF TypeOK
<1>1. ASSUME NEW r \in Requests, NEW n \in Nodes, Read(r, n) PROVE TypeOK'
    <2>1. [at |-> "put", node |-> n, row |-> Row, age |-> 0] \in Asked
        BY SMTT(60), RowType, Bounds DEF Asked
    <2>2. req' \in [Requests -> {Idle} \cup Asked]
        BY <1>1, <2>1 DEF Read, Asked
    <2> QED BY <1>1, <2>2 DEF Read, Asked
<1>2. ASSUME NEW r \in Requests, Put(r) PROVE TypeOK'
    <2>1. req[r] \in Asked
        BY <1>2 DEF Put, Asked
    <2>2. put(req[r].node, req[r].row) \in [Nodes -> SUBSET [b : Bindings, left : 0..TTL]]
        <3>1. CASE req[r].row = Refusal
            BY <3>1 DEF put
        <3>2. CASE req[r].row # Refusal
            <4>1. [b |-> req[r].row, left |-> TTL] \in [b : Bindings, left : 0..TTL]
                BY SMTT(60), <3>2, <2>1, Bounds DEF Asked
            <4> QED BY <3>2, <4>1, <2>1 DEF put, Asked
        <3> QED BY <3>1, <3>2
    <2>3. late' \subseteq Nodes
        BY <1>2, <2>1 DEF Put, Asked
    <2> QED BY <1>2, <2>2, <2>3 DEF Put
<1>3. ASSUME NEW n \in Nodes, NEW a \in [b : Bindings, enabled : BOOLEAN, exists : BOOLEAN],
             Write(n, a)
      PROVE  TypeOK'
    <2>1. ended' \in [Bindings -> 0..Long] /\ changes' \in 0..MaxChanges
        BY SMTT(60), <1>3, Bounds DEF Write
    <2> QED BY <1>3, <2>1 DEF Write
<1>4. ASSUME NEW n \in Nodes, SetPassword(n) \/ UpdateRole(n) \/ SetUserDisabled(n) \/ DeleteUser(n)
      PROVE  TypeOK'
    <2> DEFINE A == [b : Bindings, enabled : BOOLEAN, exists : BOOLEAN]
    <2>1. CASE SetPassword(n)
        <3>1. changes + 1 \in 0..MaxChanges
            BY SMTT(60), <2>1, Bounds DEF SetPassword, Write
        <3>2. [acct EXCEPT !.b.gen = changes + 1] \in A
            BY <3>1 DEF Bindings
        <3> QED BY <2>1, <3>2, <1>3 DEF SetPassword
    <2>2. CASE UpdateRole(n)
        <3>1. PICK r \in Roles : Write(n, [acct EXCEPT !.b.role = r])
            BY <2>2 DEF UpdateRole
        <3>2. [acct EXCEPT !.b.role = r] \in A
            BY DEF Bindings
        <3> QED BY <3>1, <3>2, <1>3
    <2>3. CASE SetUserDisabled(n)
        <3>1. [acct EXCEPT !.enabled = ~@] \in A
            OBVIOUS
        <3> QED BY <2>3, <3>1, <1>3 DEF SetUserDisabled
    <2>4. CASE DeleteUser(n)
        <3>1. [acct EXCEPT !.exists = FALSE] \in A
            OBVIOUS
        <3> QED BY <2>4, <3>1, <1>3 DEF DeleteUser
    <2> QED BY <1>4, <2>1, <2>2, <2>3, <2>4
<1>5. ASSUME NEW n \in Nodes, Drop(n) \/ Publish(n) PROVE TypeOK'
    BY <1>5 DEF Drop, Publish, Forget
<1>6. ASSUME NEW n \in Nodes, InvalidateBinding(n) \/ LoseMail(n) PROVE TypeOK'
    BY <1>6 DEF InvalidateBinding, LoseMail, Forget
<1>7. CASE Tick
    <2>1. req' \in [Requests -> {Idle} \cup Asked]
        <3> SUFFICES ASSUME NEW r \in Requests, req[r] # Idle
                     PROVE  [req[r] EXCEPT !.age = @ + 1] \in Asked
            BY <1>7 DEF Tick
        <3>1. req[r] \in Asked /\ req[r].age < MaxRead
            BY <1>7 DEF Tick, Asked
        <3> QED BY SMTT(60), <3>1, Bounds DEF Asked
    <2>2. cache' \in [Nodes -> SUBSET [b : Bindings, left : 0..TTL]]
        <3> SUFFICES ASSUME NEW n \in Nodes, NEW e \in get(n)
                     PROVE  [e EXCEPT !.left = @ - 1] \in [b : Bindings, left : 0..TTL]
            BY SMTT(60), <1>7 DEF Tick
        <3>1. e \in [b : Bindings, left : 0..TTL] /\ e.left > 0
            BY DEF get
        <3> QED BY SMTT(60), <3>1, Bounds
    <2>3. ended' \in [Bindings -> 0..Long]
        BY SMTT(60), <1>7, Bounds DEF Tick, Older
    <2> QED BY <1>7, <2>1, <2>2, <2>3 DEF Tick, Asked
<1>8. CASE UNCHANGED vars
    BY <1>8 DEF vars
<1> QED BY <1>1, <1>2, <1>4, <1>5, <1>6, <1>7, <1>8 DEF Next

-----------------------------------------------------------------------------
(* The invariant is inductive.                                              *)

LEMMA InvInit == Init => Inv
<1> SUFFICES ASSUME Init PROVE Inv
    OBVIOUS
<1> QED BY TypeInit DEF Init, Inv, ReadsAge, EntriesAge, WillHear

\* What is answered is looked at through Row, ended, the requests and the
\* caches only.
LEMMA ReadKeeps ==
    ASSUME Inv, TypeOK', NEW r \in Requests, NEW n \in Nodes, Read(r, n)
    PROVE  Inv'
<1> USE DEF Inv, Stale
<1>1. Row' = Row
    BY DEF Read, Row
<1>2. ReadsAge'
    <2> SUFFICES ASSUME NEW q \in Requests, req'[q] # Idle
                 PROVE  /\ Stale(req'[q].row) => ended[req'[q].row] <= req'[q].age
                        /\ req'[q].row = Refusal /\ Row # Refusal =>
                              \E b \in Bindings : ended[b] <= req'[q].age
        BY <1>1 DEF ReadsAge, Read
    <2>1. CASE q = r
        <3>1. req'[q].row = Row
            BY <2>1 DEF Read, TypeOK
        <3> QED BY <3>1, <1>1
    <2>2. CASE q # r
        <3>1. req'[q] = req[q]
            BY <2>2 DEF Read, TypeOK
        <3> QED BY <3>1, <1>1 DEF ReadsAge, Read
    <2> QED BY <2>1, <2>2
<1>3. EntriesAge'
    BY <1>1 DEF EntriesAge, Read
<1>4. WillHear'
    BY <1>1 DEF WillHear, Expecting, Read
<1> QED BY <1>2, <1>3, <1>4

LEMMA PutKeeps ==
    ASSUME Inv, TypeOK', NEW r \in Requests, Put(r)
    PROVE  Inv'
<1> USE DEF Inv, Stale
<1> DEFINE q == req[r]
<1>1. Row' = Row
    BY DEF Put, Row
<1>2. q \in Asked
    BY DEF Put, TypeOK, Asked
<1>3. ASSUME NEW n \in Nodes, NEW e \in cache'[n]
      PROVE  \/ e \in cache[n]
             \/ n = q.node /\ q.row # Refusal /\ e = [b |-> q.row, left |-> TTL]
    BY <1>2, <1>3 DEF Put, put, TypeOK, Asked
<1>4. ReadsAge'
    BY <1>1 DEF ReadsAge, Put, TypeOK
<1>5. EntriesAge'
    <2> SUFFICES ASSUME NEW n \in Nodes, NEW e \in cache'[n], Stale(e.b)
                 PROVE  ended[e.b] + e.left <= Long
        BY <1>1 DEF EntriesAge, Put
    <2>1. CASE e \in cache[n]
        BY <2>1 DEF EntriesAge
    <2>2. CASE q.row # Refusal /\ e = [b |-> q.row, left |-> TTL]
        <3>1. ended[q.row] <= q.age
            BY <2>2, <1>2 DEF ReadsAge, Put
        <3>2. ended[q.row] \in 0..Long /\ q.age \in 0..MaxRead
            BY <2>2, <1>2 DEF TypeOK, Asked
        <3> QED BY SMTT(60), <2>2, <3>1, <3>2, Bounds
    <2> QED BY <1>3, <2>1, <2>2
<1>6. WillHear'
    <2> SUFFICES ASSUME NEW n \in Nodes, NEW e \in cache'[n], e.left > 0, e.b # Row
                 PROVE  Expecting(n)'
        BY <1>1 DEF WillHear
    <2>1. CASE e \in cache[n]
        BY <2>1 DEF WillHear, Expecting, Put
    <2>2. CASE n = q.node /\ q.row # Refusal /\ e = [b |-> q.row, left |-> TTL]
        BY <2>2 DEF Expecting, Put
    <2> QED BY <1>3, <2>1, <2>2
<1> QED BY <1>4, <1>5, <1>6

\* A change ends the binding it replaces, and only that one: no other binding
\* becomes stale, and a refusal is lifted only by a change.
LEMMA WriteKeeps ==
    ASSUME Inv, TypeOK', NEW n \in Nodes, NEW a, Write(n, a)
    PROVE  Inv'
<1> USE DEF Inv, Stale
<1>1. acct.b \in Bindings /\ ended'[acct.b] = 0
    BY Bounds DEF TypeOK, Write
<1>2. \A b \in Bindings : ended'[b] = ended[b] \/ ended'[b] = 0
    BY DEF TypeOK, Write
<1>3. ASSUME NEW b \in Bindings, Stale(b)' PROVE ended'[b] = 0 \/ (Stale(b) /\ ended'[b] = ended[b])
    <2>1. CASE b = acct.b
        BY <1>1, <2>1
    <2>2. CASE b # acct.b
        <3>1. ended'[b] = ended[b]
            BY <2>2, <1>1 DEF TypeOK, Write
        <3> QED BY <2>2, <3>1, <1>3 DEF Row
    <2> QED BY <2>1, <2>2
<1>4. ReadsAge'
    <2> SUFFICES ASSUME NEW q \in Requests, req[q] # Idle
                 PROVE  /\ req[q].row \notin {Row', Refusal} => ended'[req[q].row] <= req[q].age
                        /\ req[q].row = Refusal /\ Row' # Refusal =>
                              \E b \in Bindings : ended'[b] <= req[q].age
        BY DEF ReadsAge, Write
    <2>1. req[q].row \in Bindings \cup {Refusal} /\ req[q].age \in 0..MaxRead
        BY DEF TypeOK
    <2>2. ASSUME req[q].row \notin {Row', Refusal} PROVE ended'[req[q].row] <= req[q].age
        BY SMTT(60), <2>1, <2>2, <1>3, Bounds DEF ReadsAge
    <2>3. \E b \in Bindings : ended'[b] <= req[q].age
        BY SMTT(60), <2>1, <1>1, Bounds
    <2> QED BY <2>2, <2>3
<1>5. EntriesAge'
    <2> SUFFICES ASSUME NEW m \in Nodes, NEW e \in cache[m], Stale(e.b)'
                 PROVE  ended'[e.b] + e.left <= Long
        BY DEF EntriesAge, Write
    <2>1. e.b \in Bindings /\ e.left \in 0..TTL
        BY SMTT(60) DEF TypeOK
    <2> QED BY SMTT(60), <2>1, <1>3, Bounds DEF EntriesAge
<1>6. WillHear'
    BY DEF WillHear, Expecting, Write, TypeOK
<1> QED BY <1>4, <1>5, <1>6

\* A node that forgets its binding has nothing left to hear of.
LEMMA ForgetKeeps ==
    ASSUME Inv, TypeOK', NEW n \in Nodes, Drop(n) \/ InvalidateBinding(n)
    PROVE  Inv'
<1> USE DEF Inv, Stale
<1>1. Row' = Row
    BY DEF Drop, InvalidateBinding, Row
<1>2. /\ UNCHANGED <<req, ended>> /\ cache' = [cache EXCEPT ![n] = {}]
      /\ late' = late \ {n} /\ unheard' = unheard \ {n}
    BY DEF Drop, InvalidateBinding, Forget
<1>3. cache'[n] = {} /\ \A m \in Nodes \ {n} : cache'[m] = cache[m]
    BY <1>2 DEF TypeOK
<1>4. ReadsAge'
    BY <1>1, <1>2 DEF ReadsAge
<1>5. EntriesAge'
    BY <1>1, <1>2, <1>3 DEF EntriesAge
<1>6. WillHear'
    <2> SUFFICES ASSUME NEW m \in Nodes \ {n}, Expecting(m) PROVE Expecting(m)'
        BY <1>1, <1>3 DEF WillHear
    <2>1. CASE m \in late \cup unheard \cup mail
        BY <2>1, <1>2 DEF Expecting, Drop, InvalidateBinding
    <2>2. CASE \E k \in Nodes : change[k] = "drop" \/ (change[k] = "publish" /\ k # m)
        BY <2>2 DEF Expecting, Drop, InvalidateBinding, TypeOK
    <2> QED BY <2>1, <2>2 DEF Expecting
<1> QED BY <1>4, <1>5, <1>6

\* The peers are told, or counted among those that are not.
LEMMA TellKeeps ==
    ASSUME Inv, TypeOK', NEW n \in Nodes, Publish(n) \/ LoseMail(n)
    PROVE  Inv'
<1> USE DEF Inv, Stale
<1>1. Row' = Row /\ UNCHANGED <<req, ended, cache, late>>
    BY DEF Publish, LoseMail, Row
<1>2. ReadsAge' /\ EntriesAge'
    BY <1>1 DEF ReadsAge, EntriesAge
<1>3. ASSUME NEW m \in Nodes, Expecting(m) PROVE Expecting(m)'
    <2>1. CASE LoseMail(n)
        BY <1>3, <2>1 DEF Expecting, LoseMail
    <2>2. CASE Publish(n)
        <3>1. CASE m \in late \cup unheard \cup mail
            BY <3>1, <2>2 DEF Expecting, Publish
        <3>2. CASE \E k \in Nodes : change[k] = "drop" \/ (change[k] = "publish" /\ k # m)
            <4>1. PICK k \in Nodes : change[k] = "drop" \/ (change[k] = "publish" /\ k # m)
                BY <3>2
            <4>2. CASE k = n
                BY <4>1, <4>2, <2>2 DEF Expecting, Publish
            <4>3. CASE k # n
                BY <4>1, <4>3, <2>2 DEF Expecting, Publish, TypeOK
            <4> QED BY <4>2, <4>3
        <3> QED BY <1>3, <3>1, <3>2 DEF Expecting
    <2> QED BY <2>1, <2>2
<1>4. WillHear'
    BY <1>1, <1>3 DEF WillHear
<1> QED BY <1>2, <1>4

LEMMA TickKeeps ==
    ASSUME Inv, TypeOK', Tick
    PROVE  Inv'
<1> USE DEF Inv, Stale
<1>1. Row' = Row
    BY DEF Tick, Row
<1>2. ASSUME NEW b \in Bindings
      PROVE  ended[b] \in 0..Long /\ ended'[b] \in 0..Long /\ ended'[b] <= ended[b] + 1
    BY SMTT(60), <1>2, Bounds DEF Tick, Older, TypeOK
<1>3. ReadsAge'
    <2> SUFFICES ASSUME NEW q \in Requests, req'[q] # Idle
                 PROVE  /\ Stale(req'[q].row) => ended'[req'[q].row] <= req'[q].age
                        /\ req'[q].row = Refusal /\ Row # Refusal =>
                              \E b \in Bindings : ended'[b] <= req'[q].age
        BY <1>1 DEF ReadsAge
    <2>1. req[q] # Idle /\ req[q] \in Asked
        BY DEF Tick, TypeOK, Asked
    <2>2. req'[q].row = req[q].row /\ req'[q].age = req[q].age + 1
        BY <2>1 DEF Tick, Asked
    <2>3. req[q].row \in Bindings \cup {Refusal} /\ req[q].age \in 0..MaxRead
        BY <2>1 DEF Asked
    <2>4. ASSUME Stale(req[q].row) PROVE ended'[req[q].row] <= req[q].age + 1
        BY SMTT(60), <2>1, <2>3, <2>4, <1>2, Bounds DEF ReadsAge
    <2>5. ASSUME req[q].row = Refusal, Row # Refusal
          PROVE  \E b \in Bindings : ended'[b] <= req[q].age + 1
        <3>1. PICK b \in Bindings : ended[b] <= req[q].age
            BY <2>1, <2>5 DEF ReadsAge
        <3> QED BY SMTT(60), <3>1, <2>3, <1>2, Bounds
    <2> QED BY <2>2, <2>4, <2>5
<1>4. ASSUME NEW n \in Nodes, NEW e \in cache'[n]
      PROVE  \E d \in cache[n] : d.left > 0 /\ e.b = d.b /\ e.left = d.left - 1
    <2>1. PICK d \in get(n) : e = [d EXCEPT !.left = @ - 1]
        BY <1>4 DEF Tick
    <2>2. d \in [b : Bindings, left : 0..TTL]
        BY DEF get, TypeOK
    <2> QED BY <2>1, <2>2 DEF get
<1>5. EntriesAge'
    <2> SUFFICES ASSUME NEW n \in Nodes, NEW e \in cache'[n], Stale(e.b)
                 PROVE  ended'[e.b] + e.left <= Long
        BY <1>1 DEF EntriesAge
    <2>1. PICK d \in cache[n] : d.left > 0 /\ e.b = d.b /\ e.left = d.left - 1
        BY <1>4
    <2>2. d.b \in Bindings /\ d.left \in 0..TTL
        BY SMTT(60) DEF TypeOK
    <2>3. ended[d.b] + d.left <= Long
        BY <2>1 DEF EntriesAge
    <2> QED BY SMTT(60), <2>1, <2>2, <2>3, <1>2, Bounds
<1>6. WillHear'
    <2> SUFFICES ASSUME NEW n \in Nodes, NEW e \in cache'[n], e.b # Row
                 PROVE  Expecting(n)
        BY <1>1 DEF WillHear, Expecting, Tick
    <2> QED BY <1>4 DEF WillHear
<1> QED BY <1>3, <1>5, <1>6

LEMMA InvNext == Inv /\ [Next]_vars => Inv'
<1> SUFFICES ASSUME Inv, [Next]_vars PROVE Inv'
    OBVIOUS
<1>0. TypeOK'
    BY TypeNext DEF Inv
<1>1. ASSUME NEW n \in Nodes, SetPassword(n) \/ UpdateRole(n) \/ SetUserDisabled(n) \/ DeleteUser(n)
      PROVE  Inv'
    BY <1>0, <1>1, WriteKeeps DEF SetPassword, UpdateRole, SetUserDisabled, DeleteUser
<1>2. CASE UNCHANGED vars
    BY <1>2 DEF vars, Inv, TypeOK, ReadsAge, EntriesAge, WillHear, Expecting, Stale, Row
<1> QED
    BY <1>0, <1>1, <1>2, ReadKeeps, PutKeeps, ForgetKeeps, TellKeeps, TickKeeps DEF Next

LEMMA InvAlways == Spec => []Inv
BY InvInit, InvNext, PTL DEF Spec

-----------------------------------------------------------------------------
(* Theorems.                                                                *)

\* Type correctness: what is cached is a binding with a part of its TTL left,
\* never a refusal.
THEOREM TypeCorrect == Spec => []TypeOK
BY InvAlways, PTL DEF Inv

\* Whatever a node misses and however a read overlaps the change, a node accepts
\* no session longer than the TTL, and the read, after its binding ended.
THEOREM AcceptedOnlyInTime == Spec => []AcceptedInTime
<1>1. Inv => AcceptedInTime
    <2> SUFFICES ASSUME Inv, NEW n \in Nodes, NEW b \in Answers(n) \ {Row, Refusal}
                 PROVE  ended[b] < Long
        BY DEF AcceptedInTime
    <2> USE DEF Inv, Stale
    <2>1. CASE \E e \in get(n) : b = e.b
        <3>1. PICK e \in cache[n] : e.left > 0 /\ b = e.b
            BY <2>1 DEF get
        <3>2. ended[b] + e.left <= Long
            BY <3>1 DEF EntriesAge
        <3>3. e.left \in 0..TTL /\ ended[b] \in 0..Long
            BY SMTT(60), <3>1 DEF TypeOK
        <3> QED BY SMTT(60), <3>1, <3>2, <3>3, Bounds
    <2>2. CASE \E r \in Requests : req[r] # Idle /\ b = req[r].row
        <3>1. PICK r \in Requests : req[r] # Idle /\ b = req[r].row
            BY <2>2
        <3>2. ended[b] <= req[r].age
            BY <3>1 DEF ReadsAge
        <3>3. req[r].age \in 0..MaxRead /\ ended[b] \in 0..Long
            BY <3>1 DEF TypeOK
        <3> QED BY SMTT(60), <3>2, <3>3, Bounds
    <2> QED BY <2>1, <2>2 DEF Answers
<1> QED BY <1>1, InvAlways, PTL

\* The TTL and the read after the last change, no node refuses a session with
\* the binding of an enabled account.
THEOREM RefusedOnlyInTime == Spec => []RefusedInTime
<1>1. Inv => RefusedInTime
    <2> SUFFICES ASSUME Inv, Row # Refusal, \A b \in Bindings : ended[b] = Long,
                        NEW n \in Nodes, NEW b \in Answers(n)
                 PROVE  b = Row
        BY DEF RefusedInTime
    <2> USE DEF Inv, Stale
    <2>1. CASE \E e \in get(n) : b = e.b
        <3>1. PICK e \in cache[n] : e.left > 0 /\ b = e.b
            BY <2>1 DEF get
        <3>2. e.left \in 0..TTL /\ e.b \in Bindings
            BY SMTT(60) DEF TypeOK
        <3>3. Stale(e.b) => ended[e.b] + e.left <= Long
            BY DEF EntriesAge
        <3> QED BY SMTT(60), <3>1, <3>2, <3>3, Bounds
    <2>2. CASE \E r \in Requests : req[r] # Idle /\ b = req[r].row
        <3>1. PICK r \in Requests : req[r] # Idle /\ b = req[r].row
            BY <2>2
        <3>2. req[r].age \in 0..MaxRead /\ b \in Bindings \cup {Refusal}
            BY <3>1 DEF TypeOK
        <3>3. CASE b = Refusal
            <4>1. PICK c \in Bindings : ended[c] <= req[r].age
                BY <3>1, <3>3 DEF ReadsAge
            <4> QED BY SMTT(60), <4>1, <3>2, Bounds
        <3>4. CASE Stale(b)
            BY SMTT(60), <3>1, <3>2, <3>4, Bounds DEF ReadsAge
        <3> QED BY <3>3, <3>4
    <2> QED BY <2>1, <2>2 DEF Answers
<1> QED BY <1>1, InvAlways, PTL

\* Once the change, or the message of it, is dealt with, what a node has cached
\* is the account's binding, unless a read overlapped the change.
THEOREM CacheAlwaysCurrent == Spec => []CacheIsCurrent
<1>1. Inv => CacheIsCurrent
    BY DEF Inv, CacheIsCurrent, WillHear, Expecting, get
<1> QED BY <1>1, InvAlways, PTL
=============================================================================
