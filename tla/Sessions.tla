------------------------------ MODULE Sessions ------------------------------
(****************************************************************************)
(* Session revocation (internal/auth): a session carries the binding of the *)
(* account's state it was issued against, every request compares it with    *)
(* the current one, and every node caches that for a TTL.  One account, in  *)
(* the database the nodes share; a change drops the cached binding of the   *)
(* node that made it and tells the others, who may not hear of it.          *)
(*                                                                          *)
(* A request is a call of currentBinding: the sessions with the binding it  *)
(* answers are accepted, all others refused, and issueToken mints it.  One  *)
(* that a warm cache answers changes nothing and is no step of its own.  The *)
(* password hash and the epoch only ever take new values and are one        *)
(* counter; the role goes back and forth.  Times are ages.                  *)
(****************************************************************************)
EXTENDS Naturals, FiniteSets

CONSTANTS
    Nodes,       \* instances that share the database
    Requests,    \* requests in flight
    Roles,       \* roles of the account
    TTL,         \* life of a cached binding
    MaxRead,     \* how long a request takes from its read to its put
    MaxChanges   \* bound on the changes of the account

ASSUME SessionsAssumption ==
    {TTL, MaxRead, MaxChanges} \subseteq Nat /\ TTL > 0 /\ Roles # {}

Bindings == [gen : 0..MaxChanges, role : Roles]

\* What currentBinding answers instead of a binding: the account is disabled or
\* deleted.
Refusal == [gen |-> MaxChanges + 1]

\* Ages from here on are not told apart.
Long == MaxRead + TTL

VARIABLES
    acct,      \* the row: its binding, whether it is enabled, whether it exists
    cache,     \* per node, a set of at most one binding with the time it has left
    change,    \* per node, what a change of the account has still to do there
    mail,      \* nodes with a revocation under way
    req,       \* requests that have read the row and have still to cache it
    changes,   \* changes so far
    ended,     \* history: how long ago a binding stopped being the account's
    late,      \* history: nodes where a read was put after the account changed
    unheard    \* history: nodes a revocation did not reach

vars == <<acct, cache, change, mail, req, changes, ended, late, unheard>>

\* A request that is not reading.
Idle == [at |-> "idle"]

\* The next age.
Older(age) == IF age < Long THEN age + 1 ELSE Long

\* An account that has not changed for a while.
Init ==
    /\ \E r \in Roles : acct = [b |-> [gen |-> 0, role |-> r], enabled |-> TRUE, exists |-> TRUE]
    /\ cache = [n \in Nodes |-> {}]
    /\ change = [n \in Nodes |-> "none"]
    /\ mail = {}
    /\ req = [r \in Requests |-> Idle]
    /\ changes = 0
    /\ ended = [b \in Bindings |-> Long]
    /\ late = {} /\ unheard = {}

-----------------------------------------------------------------------------
(* The row and the binding cache.                                           *)

\* A deleted or a disabled account has no binding.
Row == IF acct.exists /\ acct.enabled THEN acct.b ELSE Refusal

\* bindingCache.get.
get(n) == {e \in cache[n] : e.left > 0}

\* A refusal is cached too, and does not expire.
PutAnswer(n, b) ==
    [cache EXCEPT ![n] = {[b |-> b, left |-> IF b = Refusal THEN Long + 1 ELSE TTL]}]

\* The entry is still good at its expiry.
PutInclusive(n, b) ==
    IF b = Refusal THEN cache ELSE [cache EXCEPT ![n] = {[b |-> b, left |-> TTL + 1]}]

\* bindingCache.put; a refusal is not cached.
put(n, b) == IF b = Refusal THEN cache ELSE [cache EXCEPT ![n] = {[b |-> b, left |-> TTL]}]

-----------------------------------------------------------------------------
(* currentBinding.                                                          *)

\* A request that has found the cache cold, now or a while ago, reads the row.
Read(r, n) ==
    /\ req[r] = Idle
    /\ req' = [req EXCEPT ![r] = [at |-> "put", node |-> n, row |-> Row, age |-> 0]]
    /\ UNCHANGED <<acct, cache, change, mail, changes, ended, late, unheard>>

\* And caches it, whatever was revoked since.
Put(r) ==
    LET q == req[r] IN
    /\ q # Idle
    /\ cache' = put(q.node, q.row)
    /\ req' = [req EXCEPT ![r] = Idle]
    /\ late' = IF q.row \notin {Row, Refusal} THEN late \cup {q.node} ELSE late
    /\ UNCHANGED <<acct, change, mail, changes, ended, unheard>>

-----------------------------------------------------------------------------
(* Changes of the account.                                                  *)

\* The row is written by node n, one change at a time there; what follows is
\* revokeSessions.
Write(n, a) ==
    /\ change[n] = "none" /\ changes < MaxChanges /\ acct.exists /\ a # acct
    /\ changes' = changes + 1
    /\ acct' = a
    /\ ended' = [ended EXCEPT ![acct.b] = 0]
    /\ change' = [change EXCEPT ![n] = "drop"]
    /\ UNCHANGED <<cache, mail, req, late, unheard>>

\* setPassword, EndSessions and ResetTwoFactor.
SetPassword(n) == Write(n, [acct EXCEPT !.b.gen = changes + 1])
UpdateRole(n) == \E r \in Roles : Write(n, [acct EXCEPT !.b.role = r])
SetUserDisabled(n) == Write(n, [acct EXCEPT !.enabled = ~@])
DeleteUser(n) == Write(n, [acct EXCEPT !.exists = FALSE])

\* The cached binding is forgotten.
Forget(n) ==
    /\ cache' = [cache EXCEPT ![n] = {}]
    /\ late' = late \ {n} /\ unheard' = unheard \ {n}

\* The cached binding stays, and only the others are told.
DropNothing(n) ==
    /\ change[n] = "drop"
    /\ change' = [change EXCEPT ![n] = "publish"]
    /\ UNCHANGED <<acct, cache, mail, req, changes, ended, late, unheard>>

\* revokeSessions: the local binding first.
Drop(n) ==
    /\ change[n] = "drop"
    /\ Forget(n)
    /\ change' = [change EXCEPT ![n] = "publish"]
    /\ UNCHANGED <<acct, mail, req, changes, ended>>

\* Then the peers, where the channel is configured and up.
Publish(n) ==
    /\ change[n] = "publish"
    /\ change' = [change EXCEPT ![n] = "none"]
    /\ \/ mail' = mail \cup (Nodes \ {n}) /\ UNCHANGED unheard
       \/ unheard' = unheard \cup (Nodes \ {n}) /\ UNCHANGED mail
    /\ UNCHANGED <<acct, cache, req, changes, ended, late>>

\* For a message.
InvalidateBinding(n) ==
    /\ n \in mail
    /\ mail' = mail \ {n}
    /\ Forget(n)
    /\ UNCHANGED <<acct, change, req, changes, ended>>

\* The channel delivers at most once.
LoseMail(n) ==
    /\ n \in mail
    /\ mail' = mail \ {n}
    /\ unheard' = unheard \cup {n}
    /\ UNCHANGED <<acct, cache, change, req, changes, ended, late>>

\* Time passes; a read is put within MaxRead.
Tick ==
    /\ \A r \in Requests : req[r] # Idle => req[r].age < MaxRead
    /\ req' = [r \in Requests |-> IF req[r] = Idle THEN Idle ELSE [req[r] EXCEPT !.age = @ + 1]]
    /\ cache' = [n \in Nodes |-> {[e EXCEPT !.left = @ - 1] : e \in get(n)}]
    /\ ended' = [b \in Bindings |-> Older(ended[b])]
    /\ UNCHANGED <<acct, change, mail, changes, late, unheard>>

\* Requests, changes, messages and time.
Next ==
    \/ \E r \in Requests : Put(r) \/ \E n \in Nodes : Read(r, n)
    \/ \E n \in Nodes :
          \/ SetPassword(n) \/ UpdateRole(n) \/ SetUserDisabled(n) \/ DeleteUser(n)
          \/ Drop(n) \/ Publish(n) \/ InvalidateBinding(n) \/ LoseMail(n)
    \/ Tick

Spec == Init /\ [][Next]_vars

-----------------------------------------------------------------------------
\* Types; no refusal is cached, and a password that is set is a new one.
TypeOK ==
    /\ acct \in [b : Bindings, enabled : BOOLEAN, exists : BOOLEAN]
    /\ cache \in [Nodes -> SUBSET [b : Bindings, left : 0..TTL]]
    /\ change \in [Nodes -> {"none", "drop", "publish"}]
    /\ mail \subseteq Nodes /\ late \subseteq Nodes /\ unheard \subseteq Nodes
    /\ req \in [Requests ->
          {Idle} \cup [at : {"put"}, node : Nodes, row : Bindings \cup {Refusal}, age : 0..MaxRead]]
    /\ changes \in 0..MaxChanges
    /\ ended \in [Bindings -> 0..Long]

\* What a request is answered at node n in this state: from the cache, or from
\* the row it has read.
Answers(n) ==
    {e.b : e \in get(n)} \cup {req[r].row : r \in {q \in Requests : req[q] # Idle /\ req[q].node = n}}

\* "no node can go on accepting a signed-out session for longer than the TTL"
\* (EndSessions): whatever a node misses, and however a read overlaps the change,
\* it accepts a session no later than the TTL, and the time of the read, after
\* the session's binding ended.
AcceptedInTime ==
    \A n \in Nodes : \A b \in Answers(n) \ {Row, Refusal} : ended[b] < Long

\* The other way round, "re-enabling the account takes effect on the next
\* request" (currentBinding): a session with the account's binding is refused
\* only that long after the last change, by a node that knows the state before.
RefusedInTime ==
    Row # Refusal /\ (\A b \in Bindings : ended[b] = Long) => \A n \in Nodes : Answers(n) \subseteq {Row}

\* "the node that handles the sign-out refuses the old sessions at once", and so
\* does one that hears of it: once its change or its message is dealt with, what
\* a node has cached is the account's binding.  The exception is a request that
\* read the row before the change and cached it afterwards.
CacheIsCurrent ==
    \A n \in Nodes \ (late \cup unheard \cup mail) :
        (\A m \in Nodes : change[m] = "none") => \A e \in get(n) : e.b = Row
=============================================================================
