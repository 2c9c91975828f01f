----------------------------- MODULE MCAuditLog -----------------------------
EXTENDS AuditLog, TLC

Symmetry == Permutations(Loggers) \cup Permutations(SystemCalls)
=============================================================================
