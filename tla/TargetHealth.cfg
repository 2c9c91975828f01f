CONSTANTS
    Targets = {a, b}
    Unhealthy = 0
    Healthy = 3
    Services <- FixedOrDiscovering
SPECIFICATION FairSpec
INVARIANTS BalancerTold
PROPERTIES ThresholdRespected DeadLeavesRotation LiveReturns
CHECK_DEADLOCK FALSE
