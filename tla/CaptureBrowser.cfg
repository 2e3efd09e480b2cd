SPECIFICATION BrowserSpec
CONSTANTS
    MaxTelemetry = 2
    MaxCaptures = 4
    MaxSaves = 0
    MaxExports = 0
    MaxToasts = 1
    MaxRepeats = 0
    Temp <- MCTemp
    Lat <- MCLat
    Stamp <- MCStamp
    Queries <- MCQueries
    NoQuery <- MCNoQuery
INVARIANTS
    RowsAreTrue
    ModalShowsChosen
