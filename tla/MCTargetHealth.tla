--------------------------- MODULE MCTargetHealth ---------------------------
EXTENDS TargetHealth, TLC

\* A service with a fixed target list and either build, or one with discovery.
FixedOrDiscovering == {<<FALSE, FALSE>>, <<FALSE, TRUE>>, <<TRUE, FALSE>>}
=============================================================================
