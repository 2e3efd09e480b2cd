SPECIFICATION ServersSpec
CONSTANTS
    Threads = {"thermal", "webcam"}
    Rtsp = {"thermal"}
    MaxFrames = 2
    MaxOutages = 1
    Viewers = {"thermal", "webcam"}
    MaxCameraFrames = 2
INVARIANTS
    ServersTypeOK
    BoxesOwnUnlessShared
    DetectionsFirst
PROPERTIES
    RtspFeedResumes
    FramesReachViewers
CHECK_DEADLOCK FALSE
