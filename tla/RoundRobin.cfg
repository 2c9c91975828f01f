CONSTANTS
    Weightings <- AllWeightings
    Pickers = {p, q}
    MaxScheduleLen = 8
    MaxTurns <- TurnBound
    MaxRacing <- RaceBound
SPECIFICATION Spec
SYMMETRY Symmetry
INVARIANTS ScheduleIsSmooth ServedInProportion StandbyWaits
CHECK_DEADLOCK FALSE
