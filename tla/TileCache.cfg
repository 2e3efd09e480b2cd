CONSTANTS
    Tiles <- MCTiles
    Url <- MCUrl
    MaxFlips = 2
SPECIFICATION TilesSpec
CHECK_DEADLOCK FALSE
INVARIANTS
    TilesTypeOK
    CacheBeforeNetwork
PROPERTIES
    EveryTileReported
