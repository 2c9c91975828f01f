CONSTANTS
    Routes = {r1, r2}
    Names = {a, b}
    Services = {s}
    Middlewares = {m}
    Editors = {e1, e2}
    Edits <- AllEdits
    Backends = {"db", "file"}
    UpdateFails = TRUE
    DeleteFails = TRUE
    None = none
    MaxEdits = 4
SPECIFICATION Spec
SYMMETRY Symmetry
INVARIANTS StoredIsServed NoDanglingMiddleware DeletedStaysDeleted ChangesInvalidated
