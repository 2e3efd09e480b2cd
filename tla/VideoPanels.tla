----------------------------- MODULE VideoPanels -----------------------------
(***************************************************************************)
(* The dashboard's video panels as a whole: the view of the left panel      *)
(* (PanelView) together with the feeds, the canvases and the captures       *)
(* (VideoFeeds).  The two meet at the mount point: App.jsx renders the      *)
(* panels on the dashboard tab only, so leaving the tab throws the panel's  *)
(* React state and refs away with its canvas, in the middle of a drag too.  *)
(***************************************************************************)
EXTENDS PanelView

VARIABLES activeTab, swapped, canvas, drawn, shot

Feed == INSTANCE VideoFeeds

feedVars == <<activeTab, swapped, canvas, drawn, shot>>
allVars == <<vars, feedVars>>

PanelsInit == Init /\ Feed!Init

----------------------------------------------------------------------------
(* mutant: the drag flag is kept outside the component *)
DraggingOnMountKept == dragging

(* isDragging.current of a freshly mounted panel *)
DraggingOnMount == FALSE

(* The tab changes: on the way out the panel is unmounted, on the way back  *)
(* its state and refs start afresh; the pointer has to enter it again.      *)
ChangeTab(tab) ==
    /\ Feed!SetActiveTab(tab)
    /\ inside' = FALSE
    /\ zoom' = 1 /\ pan' = 0
    /\ dragging' = DraggingOnMount /\ lastMouse' = 0
    /\ full' = FALSE
    /\ held' = NotHeld /\ lost' = FALSE /\ outlived' = FALSE
    /\ UNCHANGED <<mouse, button>>

(* The pointer acts on a panel that is mounted. *)
Interact ==
    /\ canvas["left"] # "none"
    /\ Next
    /\ UNCHANGED feedVars

PanelsNext ==
    \/ Interact
    \/ \E tab \in {"dashboard", "map"} : ChangeTab(tab)
    \/ \E p \in Feed!Panels : Feed!DrawFrame(p) /\ UNCHANGED vars
    \/ \E p \in Feed!Panels : Feed!Resize(p) /\ UNCHANGED vars
    \/ Feed!ToggleFeedsSwapped /\ UNCHANGED vars
    \/ \E p \in Feed!Panels : Feed!SetPaletteIdx(p) /\ UNCHANGED vars
    \/ Feed!HandleCapture /\ UNCHANGED vars

PanelsSpec == PanelsInit /\ [][PanelsNext]_allVars

----------------------------------------------------------------------------
(* Every variable keeps its type, and the canvases are there exactly on the *)
(* dashboard.                                                               *)
PanelsTypeOK == TypeOK /\ Feed!TypeOK

(* Once both streams have been drawn since the last swap or tab change, the *)
(* two images of a capture are never twice the same feed, and with the      *)
(* feeds in their normal places each comes from its own, whatever was       *)
(* zoomed, dragged or resized meanwhile.                                    *)
CaptureImages == Feed!SettledImagesDiffer /\ Feed!SettledImagesInPlace

=============================================================================
