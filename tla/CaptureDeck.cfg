SPECIFICATION Spec
CONSTANTS
    MaxTelemetry = 2
    MaxCaptures = 2
    MaxSaves = 2
    MaxExports = 1
    MaxToasts = 3
    MaxRepeats = 1
INVARIANTS
    TypeOK
    CapturesAreTrue
    FilesPairUp
    ToastsHaveTimers
PROPERTIES
    RgbFollows
