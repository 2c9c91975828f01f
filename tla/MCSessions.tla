----------------------------- MODULE MCSessions -----------------------------
EXTENDS Sessions, TLC

\* Nodes, requests and roles are interchangeable.
Symmetry == Permutations(Nodes) \cup Permutations(Requests) \cup Permutations(Roles)
=============================================================================
