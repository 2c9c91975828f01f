CONSTANTS
    bare = bare
    Routes = {r1, r2}
    Parts = {service}
    Defs = {bare}
    Disabled = {}
    PartDefs = {v1}
    Uses <- NamedParts
    Handlers = {h1, h2}
    Requests = {}
    Syncer = syncer
    Editors = {w1}
    HealthChecked = FALSE
    MayRefuse = FALSE
    None = None
    MaxBuildAttempts = 2
    MaxEpoch = 2
SPECIFICATION FairSpec
PROPERTIES
    
    OrphansCollected
CHECK_DEADLOCK FALSE
