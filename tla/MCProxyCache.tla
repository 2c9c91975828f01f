---------------------------- MODULE MCProxyCache ----------------------------
(* ProxyCache for TLC.                                                      *)
EXTENDS ProxyCache, TLC

CONSTANTS bare      \* the one definition that names no part

NamedParts == [d \in Defs |-> IF d = bare THEN {} ELSE Parts]

Symmetry == Permutations(Handlers) \cup Permutations(PartDefs) \cup Permutations(Editors)
=============================================================================
