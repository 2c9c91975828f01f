CONSTANTS
    bare = bare
    Routes = {r1}
    Parts = {service}
    Defs = {proxied}
    Disabled = {}
    PartDefs = {v1, v2}
    Uses <- NamedParts
    Handlers = {h1, h2}
    Requests = {q1}
    Syncer = syncer
    Editors = {w1}
    HealthChecked = TRUE
    MayRefuse = TRUE
    None = None
    MaxBuildAttempts = 2
    MaxEpoch = 2
SPECIFICATION Spec
SYMMETRY Symmetry
INVARIANTS CacheIsCurrent HandlersOwned 
CHECK_DEADLOCK FALSE
PROPERTY CompilesAtomically
