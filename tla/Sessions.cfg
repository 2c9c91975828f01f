CONSTANTS
    Nodes = {n1, n2}
    Requests = {r1, r2}
    Roles = {admin, viewer}
    TTL = 2
    MaxRead = 1
    MaxChanges = 2
SPECIFICATION Spec
SYMMETRY Symmetry
INVARIANTS AcceptedInTime  CacheIsCurrent
CHECK_DEADLOCK FALSE
