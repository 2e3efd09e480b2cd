----------------------------- MODULE VideoFeeds -----------------------------
(***************************************************************************)
(* Which pixels a capture holds: the two canvases of VideoPanel.jsx, the    *)
(* refs through which App.jsx reaches them, the feed swap, and captureFrame *)
(* of captureEngine.js.  A canvas shows the feed last drawn on it.          *)
(***************************************************************************)
EXTENDS Integers

Panels == {"left", "right"}
Feeds == {"thermal", "rgb"}
Pixels == Feeds \cup {"blank"}
Canvas == Pixels \cup {"none"}    \* "none": the panel is not mounted

VARIABLES
    activeTab,  \* the store's activeTab
    swapped,    \* the store's feedsSwapped
    canvas,     \* what each panel's canvas shows
    drawn,      \* the panel has drawn a frame since its stream was started
    shot        \* the images of the last capture, with the circumstances

vars == <<activeTab, swapped, canvas, drawn, shot>>

----------------------------------------------------------------------------
(* The type that a panel shows (leftType, rightType) *)
TypeOf(panel, swap) ==
    IF (panel = "left") # swap THEN "thermal" ELSE "rgb"

(* The panel whose canvas a ref reaches (leftRef, rightRef): thermalRef     *)
(* goes wherever the thermal type goes.                                     *)
PanelOf(ref, swap) == IF (ref = "thermal") # swap THEN "left" ELSE "right"

(* mutant: one of the two refs ignores the swap *)
CaptureRefHalf(slot, swap) ==
    IF slot = "thermal" /\ ~ swap THEN "thermal" ELSE "rgb"

(* tCanvas and rCanvas of handleCapture *)
CaptureRef(slot, swap) ==
    IF (slot = "thermal") # swap THEN "thermal" ELSE "rgb"

(* captureFrame on the canvas of a slot *)
CaptureFrame(slot) == canvas[PanelOf(CaptureRef(slot, swapped), swapped)]

NoShot == [thermal |-> "blank", rgb |-> "blank", settled |-> FALSE, swapped |-> FALSE]

Init ==
    /\ activeTab = "dashboard"
    /\ swapped = FALSE
    /\ canvas = [p \in Panels |-> "blank"]
    /\ drawn = [p \in Panels |-> FALSE]
    /\ shot = NoShot

(* useRtspStream's draw loop, once the new stream's image has loaded *)
DrawFrame(p) ==
    /\ canvas[p] # "none"
    /\ canvas' = [canvas EXCEPT ![p] = TypeOf(p, swapped)]
    /\ drawn' = [drawn EXCEPT ![p] = TRUE]
    /\ UNCHANGED <<activeTab, swapped, shot>>

(* The ResizeObserver sets the canvas size, which clears it: on a resize,   *)
(* on full screen and whenever its effect runs again after a swap.          *)
Resize(p) ==
    /\ canvas[p] # "none"
    /\ canvas' = [canvas EXCEPT ![p] = "blank"]
    /\ UNCHANGED <<activeTab, swapped, drawn, shot>>

(* SWAP: refs and types move to the other panel, the canvases and their     *)
(* pixels stay, both streams start again.                                   *)
ToggleFeedsSwapped ==
    /\ swapped' = ~ swapped
    /\ drawn' = [p \in Panels |-> FALSE]
    /\ UNCHANGED <<activeTab, canvas, shot>>

(* A palette is chosen in the thermal panel.  Live pictures keep their      *)
(* colours, but the effect runs again and starts the stream anew; the       *)
(* canvas keeps its pixels.                                                 *)
SetPaletteIdx(p) ==
    /\ canvas[p] # "none"
    /\ TypeOf(p, swapped) = "thermal"
    /\ drawn' = [drawn EXCEPT ![p] = FALSE]
    /\ UNCHANGED <<activeTab, swapped, canvas, shot>>

(* the panels are mounted on the dashboard only; a new canvas is blank, and *)
(* without a panel the ref is null                                          *)
CanvasOnTab(tab) == IF tab = "dashboard" THEN "blank" ELSE "none"

SetActiveTab(tab) ==
    /\ tab # activeTab
    /\ activeTab' = tab
    /\ canvas' = [p \in Panels |-> CanvasOnTab(tab)]
    /\ drawn' = [p \in Panels |-> FALSE]
    /\ UNCHANGED <<swapped, shot>>

(* handleCapture's images.  Without the panels it only shows a toast.       *)
HandleCapture ==
    /\ \A slot \in Feeds : CaptureFrame(slot) # "none"
    /\ shot' = [thermal |-> CaptureFrame("thermal"), rgb |-> CaptureFrame("rgb"),
                settled |-> \A p \in Panels : drawn[p], swapped |-> swapped]
    /\ UNCHANGED <<activeTab, swapped, canvas, drawn>>

Next ==
    \/ \E p \in Panels : DrawFrame(p)
    \/ \E p \in Panels : Resize(p)
    \/ ToggleFeedsSwapped
    \/ \E p \in Panels : SetPaletteIdx(p)
    \/ \E tab \in {"dashboard", "map"} : SetActiveTab(tab)
    \/ HandleCapture

Spec == Init /\ [][Next]_vars

----------------------------------------------------------------------------
(* Every variable keeps its type, and the canvases are there exactly on the *)
(* dashboard.                                                               *)
TypeOK ==
    /\ activeTab \in {"dashboard", "map"}
    /\ swapped \in BOOLEAN
    /\ canvas \in [Panels -> Canvas]
    /\ \A p \in Panels : (canvas[p] = "none") = (activeTab = "map")
    /\ drawn \in [Panels -> BOOLEAN]
    /\ shot \in [thermal : Pixels, rgb : Pixels, settled : BOOLEAN,
                 swapped : BOOLEAN]

(* With the feeds in their normal places and both streams drawn since the   *)
(* last swap or tab change, each image of a capture comes from its own      *)
(* feed.  (A canvas may have been cleared by a resize in between.)          *)
SettledImagesInPlace ==
    shot.settled /\ ~ shot.swapped =>
        /\ shot.thermal \in {"thermal", "blank"}
        /\ shot.rgb \in {"rgb", "blank"}

(* Once both streams have been drawn, the two images of a capture are never *)
(* twice the same feed, swapped or not: the two refs always reach different *)
(* canvases.                                                                *)
SettledImagesDiffer ==
    shot.settled => shot.thermal # shot.rgb \/ shot.thermal = "blank"

(* App.jsx line 73, "Account for feed swap": whatever the operator has      *)
(* swapped, once both streams have been drawn a capture's thermal slot      *)
(* holds no RGB pixels and its RGB slot no thermal pixels.  The refs        *)
(* already follow the swap, so handleCapture's own swap undoes it.          *)
SwapAccountedFor ==
    shot.settled => shot.thermal # "rgb" /\ shot.rgb # "thermal"

=============================================================================
