SPECIFICATION Spec
CONSTANTS
    Positions <- MCPositions
    FieldDefault <- MCFieldDefault
    Eps = 1
    Jump = 5
    MaxPoints = 5
INVARIANTS
    TypeOK
    PathContinuous
    PathTracksDrone
    NoFixNeverJoined
    ViewFollowsDrone
