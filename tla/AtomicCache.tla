---------------------------- MODULE AtomicCache ----------------------------
(****************************************************************************)
(* What a cache of compiled routes promises those who use it: a chain is    *)
(* compiled in one step, from the configuration of that moment, and an edit *)
(* of the configuration is followed by the removal of what it made stale.   *)
(****************************************************************************)
CONSTANTS Routes, None

VARIABLES
    config,   \* what each route is configured with, or None
    served,   \* what the cached chain of each route was compiled from, or None
    owed      \* routes whose chain an edit has yet to remove

vars == <<config, served, owed>>

Init ==
    /\ config = [r \in Routes |-> config[r]]
    /\ served = [r \in Routes |-> None]
    /\ owed = {}

\* A route whose configuration changes is owed the removal of its chain.
Edit ==
    /\ \A r \in Routes : config'[r] # config[r] => r \in owed'
    /\ owed \subseteq owed'
    /\ UNCHANGED served

\* Chains are removed, and none but theirs is owed no longer.
Remove ==
    \E S \in SUBSET Routes :
        /\ served' = [r \in Routes |-> IF r \in S THEN None ELSE served[r]]
        /\ owed \ S \subseteq owed' /\ owed' \subseteq owed
        /\ UNCHANGED config

\* A chain is compiled: from the configuration as it is now, unless its removal
\* is owed or the route is deleted.
Compile(r) ==
    /\ config[r] # None /\ r \notin owed => served'[r] = config[r]
    /\ \A s \in Routes \ {r} : served'[s] = served[s]
    /\ UNCHANGED <<config, owed>>

Next == Edit \/ Remove \/ \E r \in Routes : Compile(r)

Spec == Init /\ [][Next]_vars
=============================================================================
