----------------------------- MODULE PanelView -----------------------------
(***************************************************************************)
(* The interaction state of one VideoPanel (VideoPanel.jsx): wheel zoom,    *)
(* drag to pan, full screen.  Zoom is in steps of one wheel notch between 1 *)
(* and MaxZoom; the mouse moves along one axis.                             *)
(***************************************************************************)
EXTENDS Integers

CONSTANTS
    MaxZoom,    \* 10 in the code
    Mouse       \* positions of the pointer inside the panel

ASSUME PanelAssumption ==
    /\ MaxZoom \in Nat \ {0}
    /\ Mouse \subseteq Int

VARIABLES
    inside,     \* the pointer is over the panel
    mouse,      \* where it is, or was when it left
    button,     \* the mouse button is down
    zoom, pan,
    dragging,   \* isDragging.current
    lastMouse,  \* lastMouse.current
    full,       \* isFullscreen
    held,       \* history: UnderPointer when the drag began
    lost,       \* history: the release that should end the drag was swallowed
    outlived    \* history: the drag went on when the zoom came back to 1

history == <<held, lost, outlived>>
vars == <<inside, mouse, button, zoom, pan, dragging, lastMouse, full, history>>

NotHeld == <<0, 1>>

Init ==
    /\ inside = FALSE /\ button = FALSE
    /\ mouse \in Mouse
    /\ zoom = 1 /\ pan = 0
    /\ dragging = FALSE /\ lastMouse = 0
    /\ full = FALSE
    /\ held = NotHeld /\ lost = FALSE /\ outlived = FALSE

----------------------------------------------------------------------------
(* Bound: a pan that leaves this range is not explored further. *)
PanBound == 2

Within(p) == p \in -PanBound .. PanBound

(* mutant: the lower limit is forgotten *)
ZoomedFree(d) == IF zoom - d > MaxZoom THEN MaxZoom ELSE zoom - d

(* Math.max(1, Math.min(z - delta, 10)) *)
Zoomed(d) ==
    LET z == IF zoom - d > MaxZoom THEN MaxZoom ELSE zoom - d
    IN  IF z < 1 THEN 1 ELSE z

(* The canvas has the transform translate(pan) scale(zoom) about its centre, *)
(* so the pointer is over the point of the image that is (mouse - pan) / zoom *)
(* away from the image's centre, here as a fraction.                         *)
UnderPointer == <<mouse - pan, zoom>>

SamePoint(f, g) == f[1] * g[2] = g[1] * f[2]

(* mutant: nothing resets the pan *)
PanAfterZoomKept(z) == pan

(* the effect on [zoom]: it runs only when the zoom has changed *)
PanAfterZoom(z) == IF z # zoom /\ z = 1 THEN 0 ELSE pan

(* handleWheel and the render that follows *)
HandleWheel(d) ==
    /\ inside
    /\ zoom' = Zoomed(d)
    /\ pan' = PanAfterZoom(zoom')
    /\ outlived' = IF zoom' # zoom /\ zoom' = 1 THEN dragging ELSE outlived
    /\ UNCHANGED <<inside, mouse, button, dragging, lastMouse, full, held, lost>>

(* any button: e.button is not looked at *)
HandleMouseDown ==
    /\ inside /\ ~ button
    /\ button' = TRUE
    /\ IF zoom > 1
       THEN /\ dragging' = TRUE /\ lastMouse' = mouse
            /\ held' = UnderPointer /\ lost' = FALSE /\ outlived' = FALSE
       ELSE UNCHANGED <<dragging, lastMouse, history>>
    /\ UNCHANGED <<inside, mouse, zoom, pan, full>>

(* mutant: the anchor of the drag is not moved on *)
AnchorKept(x) == lastMouse

(* lastMouse.current after a move to x *)
Anchor(x) == x

HandleMouseMove(x) ==
    /\ inside
    /\ mouse' = x
    /\ IF dragging
       THEN /\ pan' = pan + (x - lastMouse) /\ Within(pan')
            /\ lastMouse' = Anchor(x)
       ELSE UNCHANGED <<pan, lastMouse>>
    /\ UNCHANGED <<inside, button, zoom, dragging, full, history>>

(* isDragging.current = false *)
EndDrag ==
    /\ dragging' = FALSE
    /\ held' = NotHeld /\ lost' = FALSE
    /\ UNCHANGED <<zoom, pan, lastMouse, full, outlived>>

HandleMouseUp ==
    /\ inside /\ button
    /\ button' = FALSE
    /\ EndDrag
    /\ UNCHANGED <<inside, mouse>>

(* The release goes to a context menu (of a right button, which drags too)  *)
(* or to the popup of the palette's select: no handler of the panel runs.   *)
ReleaseSwallowed ==
    /\ inside /\ button
    /\ button' = FALSE
    /\ lost' = dragging
    /\ UNCHANGED <<inside, mouse, zoom, pan, dragging, lastMouse, full, held, outlived>>

(* onMouseLeave is handleMouseUp too *)
HandleMouseLeave ==
    /\ inside
    /\ inside' = FALSE
    /\ EndDrag
    /\ UNCHANGED <<mouse, button>>

(* the pointer comes back, elsewhere and with the button as it is then *)
Enter(x, b) ==
    /\ ~ inside
    /\ inside' = TRUE /\ mouse' = x /\ button' = b
    /\ UNCHANGED <<zoom, pan, dragging, lastMouse, full, history>>

(* two clicks: the release of the second has ended any drag *)
HandleDoubleClick ==
    /\ inside /\ ~ button /\ ~ dragging
    /\ full' = ~ full
    /\ UNCHANGED <<inside, mouse, button, zoom, pan, dragging, lastMouse, history>>

Next ==
    \/ \E d \in {-1, 1} : HandleWheel(d)
    \/ HandleMouseDown \/ HandleMouseUp \/ ReleaseSwallowed
    \/ HandleMouseLeave \/ HandleDoubleClick
    \/ \E x \in Mouse : HandleMouseMove(x)
    \/ \E x \in Mouse, b \in BOOLEAN : Enter(x, b)

Spec == Init /\ [][Next]_vars

----------------------------------------------------------------------------
(* Every variable keeps its type, and the zoom its limits. *)
TypeOK ==
    /\ inside \in BOOLEAN /\ button \in BOOLEAN /\ full \in BOOLEAN
    /\ mouse \in Mouse
    /\ zoom \in 1 .. MaxZoom /\ pan \in Int
    /\ dragging \in BOOLEAN /\ lastMouse \in Int
    /\ held \in Int \X (1 .. MaxZoom) /\ lost \in BOOLEAN /\ outlived \in BOOLEAN

(* What a drag holds: over any moves and turns of the wheel, the point of   *)
(* the image under the pointer is the one that was grabbed exactly when the *)
(* zoom is what it was then (or the centre was grabbed): moving drops       *)
(* nothing, a turn of the wheel, which scales about the centre, makes the   *)
(* point slide away and the turn back returns it.  Only a zoom that comes   *)
(* down to 1 in the middle of the drag, with its reset of the pan, loses    *)
(* the point: handleMouseMove and the canvas' transform.                    *)
HeldPointStays ==
    dragging /\ ~ outlived =>
        (SamePoint(UnderPointer, held) <=> zoom = held[2] \/ mouse = pan)

(* "Reset pan if zoomed out": at zoom 1 the image is in its place, unless a *)
(* drag was under way when the zoom came back to 1.  That drag goes on (the *)
(* effect does not end it, and does not run again while the zoom is 1) and  *)
(* may leave a pan behind.                                                  *)
ZoomedOutIsCentred == zoom = 1 /\ pan # 0 => outlived

(* No drag outlives the pointer's stay in the panel, and none goes on with  *)
(* the button up unless the release was swallowed by a menu or a popup:     *)
(* handleMouseUp, also as onMouseLeave.                                     *)
DragNeedsButton == dragging => inside /\ (button \/ lost)

=============================================================================
