CONSTANTS
    k1 = k1
    k2 = k2
    old = old
    new = new
    Gateways = {g1, g2}
    Operators = {o1, o2}
    Rollouts = {k1, k2}
    Targets = {old, new}
    MaxWeight = 2
    Initial <- AllOld
    Want <- TwoRequests
    MaxCalls = 2
    MaxFaults = 1
    Steps = 2
SPECIFICATION Spec
SYMMETRY Symmetry
INVARIANTS  EditKept ReachesTarget 
CHECK_DEADLOCK FALSE
