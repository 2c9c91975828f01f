----------------------------- MODULE Supervisor -----------------------------
(****************************************************************************)
(* The security supervisor (cmd/gateon) between the global configuration    *)
(* and what runs: GlobalRegistry.Update notifies it outside its lock, it    *)
(* reconciles one configuration at a time, starts and stops the GitOps loop *)
(* that itself updates the configuration, and swaps the eBPF manager inside *)
(* the Holder of module KernelLeases, whose callers and sweep go on.        *)
(****************************************************************************)
EXTENDS KernelLeases

CONSTANTS
    Operators,   \* whoever updates the configuration through the API
    Configs,     \* configurations: eBPF and GitOps settings
    Repo,        \* the configuration in the GitOps repository
    MaxUpdates   \* bound on the updates

ASSUME ConfigsAssumption ==
    /\ MaxUpdates \in Nat
    /\ Configs \subseteq [ebpf : {"off", "a", "b"}, git : BOOLEAN] /\ Repo \in Configs

\* Update is called by operators and by the GitOps loop; the supervisor's Run
\* reconciles the configuration at boot.
Writers == Operators \cup {"git"}
Notifiers == Writers \cup {"boot"}

VARIABLES
    capable,     \* the process may load eBPF
    stored,      \* the registry's configuration and the number of its update
    updates,     \* updates so far
    note,        \* the configuration a caller has still to notify: a set of at most one
    subscribed,  \* Run has subscribed
    rec,         \* the reconcile that holds the supervisor's mutex
    ran,         \* the update reconciled last
    ebpfCfg,     \* the eBPF settings applied: a set of at most one
    gitops,      \* the GitOps loop is running
    sync,        \* "no", "cloning", "read", "differs": its Sync
    astray       \* history: notifications that were missed or overtaken

registry == <<stored, updates, note>>
super == <<subscribed, rec, ran, ebpfCfg, gitops>>
svars == <<capable, registry, super, sync, astray, vars>>

\* Nobody reconciles.
Free == [at |-> "free"]

\* Boot: the supervisor is about to reconcile what is stored.
SInit ==
    /\ Init
    /\ capable \in BOOLEAN
    /\ stored \in [cfg : Configs, n : {0}] /\ updates = 0
    /\ note = [w \in Notifiers |-> IF w = "boot" THEN {stored} ELSE {}]
    /\ subscribed = FALSE /\ rec = Free /\ ran = 0 /\ ebpfCfg = {}
    /\ gitops = FALSE /\ sync = "no" /\ astray = {}

-----------------------------------------------------------------------------
(* GlobalRegistry.Update.                                                   *)

\* Stored and saved under the registry's lock; the listeners are called later.
Update(w, c) ==
    /\ note[w] = {} /\ updates < MaxUpdates
    /\ updates' = updates + 1
    /\ stored' = [cfg |-> c, n |-> updates + 1]
    /\ note' = [note EXCEPT ![w] = IF subscribed THEN {stored'} ELSE {}]
    /\ astray' = IF subscribed THEN astray ELSE astray \cup {"missed"}

\* Through the API.
OperatorUpdates(w) ==
    /\ \E c \in Configs : Update(w, c)
    /\ UNCHANGED <<capable, super, sync, vars>>

-----------------------------------------------------------------------------
(* GitOps.                                                                  *)

\* A tick of the loop: Sync clones.
Sync ==
    /\ gitops /\ sync = "no" /\ note["git"] = {}
    /\ sync' = "cloning"
    /\ UNCHANGED <<capable, registry, super, astray, vars>>

\* The clone is read; it fails, or its context was cancelled.
Clone ==
    /\ sync = "cloning"
    /\ sync' \in {"no"} \cup {s \in {"read"} : gitops}
    /\ UNCHANGED <<capable, registry, super, astray, vars>>

\* The repository is compared with Get.
Compare ==
    /\ sync = "read"
    /\ sync' = IF stored.cfg = Repo THEN "no" ELSE "differs"
    /\ UNCHANGED <<capable, registry, super, astray, vars>>

\* And stored, whoever has stored or stopped the loop in between.
Resolve ==
    /\ sync = "differs"
    /\ sync' = "no"
    /\ Update("git", Repo)
    /\ UNCHANGED <<capable, super, vars>>

-----------------------------------------------------------------------------
(* reconcile, with the supervisor's mutex.                                  *)

\* The GitOps loop is started, stopped or left alone.
Reconcile(w) ==
    \E c \in note[w] :
        /\ rec = Free
        /\ rec' = [at |-> "compare", by |-> w, c |-> c]
        /\ gitops' = c.cfg.git
        /\ astray' = IF c.n < ran THEN astray \cup {"overtaken"} ELSE astray
        /\ UNCHANGED <<capable, registry, subscribed, ran, ebpfCfg, sync, vars>>

\* The listener returns; Run subscribes after its first reconcile.
Done ==
    /\ note' = [note EXCEPT ![rec.by] = {}]
    /\ subscribed' = (subscribed \/ rec.by = "boot")
    /\ ran' = rec.c.n
    /\ rec' = Free

\* reconcileEbpf: the same settings are left alone, others replace what runs.
reconcileEbpf ==
    /\ rec # Free /\ rec.at = "compare"
    /\ IF ebpfCfg = {rec.c.cfg.ebpf}
       THEN Done /\ UNCHANGED <<ebpfCfg, vars>>
       ELSE IF manager # Nil
       THEN /\ Swap(Nil)
            /\ rec' = [rec EXCEPT !.at = "teardown"]
            /\ UNCHANGED <<note, subscribed, ran, ebpfCfg>>
       ELSE /\ rec' = [rec EXCEPT !.at = "apply"]
            /\ UNCHANGED <<note, subscribed, ran, ebpfCfg, vars>>
    /\ UNCHANGED <<capable, stored, updates, gitops, sync, astray>>

\* Without the nil manager in between.
TeardownNothing ==
    /\ rec # Free /\ rec.at = "teardown"
    /\ incoming' = {}
    /\ rec' = [rec EXCEPT !.at = "apply"]
    /\ UNCHANGED <<kind, manager, lease, kernel, call, sweep, now, counts, owed, crossed>>
    /\ UNCHANGED <<capable, registry, subscribed, ran, ebpfCfg, gitops, sync, astray>>

\* The rest of Swap(nil).
Teardown ==
    /\ rec # Free /\ rec.at = "teardown"
    /\ Install(Nil)
    /\ rec' = [rec EXCEPT !.at = "apply"]
    /\ UNCHANGED <<capable, registry, subscribed, ran, ebpfCfg, gitops, sync, astray>>

\* Disabled, or not capable: that is all.
Apply ==
    /\ rec # Free /\ rec.at = "apply"
    /\ ebpfCfg' = {rec.c.cfg.ebpf}
    /\ IF rec.c.cfg.ebpf = "off" \/ ~capable
       THEN Done /\ UNCHANGED vars
       ELSE /\ managers < MaxManagers /\ Swap(NewManager)
            /\ rec' = [rec EXCEPT !.at = "install"]
            /\ UNCHANGED <<note, subscribed, ran>>
    /\ UNCHANGED <<capable, stored, updates, gitops, sync, astray>>

\* The rest of Swap(manager).
Enable ==
    /\ rec # Free /\ rec.at = "install"
    /\ Install(NewManager)
    /\ Done
    /\ UNCHANGED <<capable, stored, updates, ebpfCfg, gitops, sync, astray>>

-----------------------------------------------------------------------------
\* The Holder's callers, its sweep and the clock.
Holder == HolderNext /\ UNCHANGED <<capable, registry, super, sync, astray>>

\* The whole system.
SNext ==
    \/ \E w \in Operators : OperatorUpdates(w)
    \/ Sync \/ Clone \/ Compare \/ Resolve
    \/ \E w \in Notifiers : Reconcile(w)
    \/ reconcileEbpf \/ Teardown \/ Apply \/ Enable
    \/ Holder

SSpec == SInit /\ [][SNext]_svars

\* Calls return, the sweep passes, time goes on and a reconcile ends; nobody has
\* to call, to update or to sync.
SFairness ==
    /\ WF_svars(reconcileEbpf \/ Teardown \/ Apply \/ Enable)
    /\ WF_svars(HolderProgress /\ UNCHANGED <<capable, registry, super, sync, astray>>)

SLiveSpec == SSpec /\ SFairness

-----------------------------------------------------------------------------
\* A configuration and the number of the update that stored it.
Versions == [cfg : Configs, n : 0..MaxUpdates]

\* Types; whoever reconciles is being waited for.
STypeOK ==
    /\ TypeOK
    /\ capable \in BOOLEAN /\ subscribed \in BOOLEAN /\ gitops \in BOOLEAN
    /\ stored \in Versions /\ updates = stored.n /\ ran \in 0..updates
    /\ note \in [Notifiers -> SUBSET Versions]
    /\ rec \in {Free} \cup
          [at : {"compare", "teardown", "apply", "install"}, by : Notifiers, c : Versions]
    /\ rec # Free => note[rec.by] = {rec.c}
    /\ astray \subseteq {"missed", "overtaken"}
    /\ sync \in {"no", "cloning", "read", "differs"}

\* Nobody is updating or reconciling.
Quiet == rec = Free /\ \A w \in Notifiers : note[w] = {}

\* What Run says, "toggles take effect live": when no update is under way the
\* GitOps loop and the eBPF manager are those of the stored configuration.  Two
\* things are excluded: an update between Run's first reconcile and its
\* subscription, and a notification that an older one overtakes.
RunsWhatIsStored ==
    Quiet /\ astray = {} =>
        /\ ran = stored.n
        /\ gitops = stored.cfg.git
        /\ manager # Nil <=> (capable /\ stored.cfg.ebpf # "off")
=============================================================================
