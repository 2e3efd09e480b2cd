CONSTANTS
    MaxZoom = 3
    Mouse = {0, 1}
SPECIFICATION PanelsSpec
INVARIANTS
    PanelsTypeOK
    CaptureImages
    HeldPointStays
    ZoomedOutIsCentred
    DragNeedsButton
