CONSTANTS
    Temps <- MCTemps
    Elapsed <- MCElapsed
    MaxCaptures = 3
    FirstRows = 1
    NextRows = 1
SPECIFICATION Spec
CHECK_DEADLOCK FALSE
INVARIANTS
    SeveritiesRelate
    CoverIsTrue
    FootersLag
