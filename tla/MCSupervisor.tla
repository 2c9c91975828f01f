---------------------------- MODULE MCSupervisor ----------------------------
EXTENDS Supervisor

\* eBPF off and in two configurations; GitOps on where the repository has it on.
SomeConfigs == {[ebpf |-> "off", git |-> FALSE], [ebpf |-> "a", git |-> TRUE], [ebpf |-> "b", git |-> TRUE]}
RepoConfig == [ebpf |-> "a", git |-> TRUE]
=============================================================================
