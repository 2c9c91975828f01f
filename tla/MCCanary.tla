------------------------------ MODULE MCCanary ------------------------------
EXTENDS Canary, TLC

CONSTANTS k1, k2, old, new

\* The service's traffic is all on the old target, of weight 2.
AllOld == old :> 2 @@ new :> 0

\* One rollout moves it to the new target; the other adds some to that.
TwoRequests == k1 :> (old :> 0 @@ new :> 2) @@ k2 :> (new :> 1)

\* Gateways are interchangeable, and so are operators.
Symmetry == Permutations(Gateways) \cup Permutations(Operators)
=============================================================================
