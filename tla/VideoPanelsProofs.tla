-------------------------- MODULE VideoPanelsProofs --------------------------
(***************************************************************************)
(* Proofs about VideoPanels, for every set of pointer positions and every   *)
(* zoom limit: the drag of a panel, and what the images of a capture show,  *)
(* while both go on together.                                               *)
(***************************************************************************)
EXTENDS VideoPanels, TLAPS

(* The drag: its anchor is where the pointer is, and its distance to the    *)
(* image's centre is what it was when the drag began, whatever the zoom.    *)
DragInv ==
    /\ DragNeedsButton
    /\ ZoomedOutIsCentred
    /\ dragging => lastMouse = mouse
    /\ dragging /\ zoom = 1 => outlived
    /\ dragging /\ ~ outlived => mouse - pan = held[1]

(* The canvases: a panel that has drawn since its stream started shows its  *)
(* own feed, unless it was cleared.                                         *)
DrawnIsOwn ==
    \A p \in Feed!Panels :
        drawn[p] => canvas[p] \in {Feed!TypeOf(p, swapped), "blank"}

IInv == PanelsTypeOK /\ DragInv /\ DrawnIsOwn /\ CaptureImages

----------------------------------------------------------------------------
(* The view of a panel *)

LEMMA OneIsZoom == 1 \in 1 .. MaxZoom
  BY PanelAssumption

(* The wheel stays within the limits, whatever it is turned by. *)
LEMMA ZoomedTyped ==
    ASSUME TypeOK, NEW d \in Int
    PROVE  Zoomed(d) \in 1 .. MaxZoom
  BY PanelAssumption DEF TypeOK, Zoomed

(* A point at the same distance from the centre, at two zooms. *)
LEMMA SameDistance ==
    ASSUME NEW a \in Int, NEW z \in Nat, NEW y \in Nat
    PROVE  a * y = a * z <=> z = y \/ a = 0
  OBVIOUS

(* The distance is what the property about the point needs. *)
LEMMA HeldFromDistance ==
    ASSUME TypeOK, DragInv
    PROVE  HeldPointStays
  <1> SUFFICES ASSUME dragging, ~ outlived
               PROVE  (mouse - pan) * held[2] = held[1] * zoom
                          <=> zoom = held[2] \/ mouse = pan
    BY DEF HeldPointStays, SamePoint, UnderPointer
  <1> DEFINE a == mouse - pan
  <1>1. a \in Int /\ held[1] = a /\ (a = 0 <=> mouse = pan)
    BY PanelAssumption DEF TypeOK, DragInv
  <1>2. zoom \in Nat /\ held[2] \in Nat
    BY PanelAssumption DEF TypeOK
  <1>3. a * held[2] = a * zoom <=> zoom = held[2] \/ a = 0
    <2> HIDE DEF a
    <2> QED BY <1>1, <1>2, SameDistance
  <1> QED BY <1>1, <1>3

LEMMA ViewStep ==
    ASSUME TypeOK, DragInv, Next
    PROVE  TypeOK' /\ DragInv'
  <1> USE PanelAssumption
  <1> USE DEF DragInv, DragNeedsButton, ZoomedOutIsCentred
  <1>0. mouse \in Int /\ \A x \in Mouse : x \in Int
    BY DEF TypeOK
  <1>1. ASSUME NEW d \in {-1, 1}, HandleWheel(d) PROVE TypeOK' /\ DragInv'
    <2>1. zoom' \in 1 .. MaxZoom
      BY <1>1, ZoomedTyped DEF HandleWheel
    <2>2. /\ pan' = IF zoom' # zoom /\ zoom' = 1 THEN 0 ELSE pan
          /\ outlived' = IF zoom' # zoom /\ zoom' = 1 THEN dragging ELSE outlived
          /\ UNCHANGED <<inside, mouse, button, dragging, lastMouse, full, held, lost>>
      BY <1>1 DEF HandleWheel, PanAfterZoom
    <2>3. TypeOK'
      BY <2>1, <2>2 DEF TypeOK
    <2>4. CASE zoom' # zoom /\ zoom' = 1
      BY <2>2, <2>3, <2>4
    <2>5. CASE ~ (zoom' # zoom /\ zoom' = 1)
      BY <2>2, <2>3, <2>5
    <2> QED BY <2>4, <2>5
  <1>2. CASE HandleMouseDown
    <2>1. CASE zoom > 1
      <3>1. /\ dragging' = TRUE /\ lastMouse' = mouse /\ held' = <<mouse - pan, zoom>>
            /\ button' = TRUE /\ lost' = FALSE /\ outlived' = FALSE
            /\ inside /\ UNCHANGED <<inside, mouse, zoom, pan, full>>
        BY <1>2, <2>1 DEF HandleMouseDown, UnderPointer
      <3>2. mouse - pan \in Int /\ zoom # 1
        BY <1>0, <2>1 DEF TypeOK
      <3> QED BY <1>0, <3>1, <3>2 DEF TypeOK
    <2>2. CASE ~ (zoom > 1)
      BY <1>2, <2>2 DEF TypeOK, HandleMouseDown, history
    <2> QED BY <2>1, <2>2
  <1>3. CASE HandleMouseUp \/ HandleMouseLeave
    <2>1. NotHeld \in Int \X (1 .. MaxZoom)
      BY OneIsZoom DEF NotHeld
    <2>2. EndDrag /\ UNCHANGED mouse /\ inside' \in BOOLEAN /\ button' \in BOOLEAN
      BY <1>3 DEF TypeOK, HandleMouseUp, HandleMouseLeave
    <2> QED BY <2>1, <2>2 DEF TypeOK, EndDrag
  <1>4. CASE ReleaseSwallowed
    BY <1>4 DEF TypeOK, ReleaseSwallowed
  <1>5. CASE HandleDoubleClick
    BY <1>5 DEF TypeOK, HandleDoubleClick, history
  <1>6. ASSUME NEW x \in Mouse, HandleMouseMove(x) PROVE TypeOK' /\ DragInv'
    <2>0. UNCHANGED <<inside, button, zoom, dragging, full, held, lost, outlived>> /\ mouse' = x
      BY <1>6 DEF HandleMouseMove, history
    <2>1. CASE dragging
      <3>1. /\ pan' = pan + (x - lastMouse) /\ lastMouse' = x
            /\ lastMouse = mouse
        BY <1>6, <2>1 DEF HandleMouseMove, Anchor
      <3>2. pan' \in Int /\ x - pan' = mouse - pan
        BY <1>0, <3>1 DEF TypeOK
      <3> QED BY <1>0, <2>0, <2>1, <3>1, <3>2 DEF TypeOK
    <2>2. CASE ~ dragging
      BY <1>6, <2>0, <2>2 DEF TypeOK, HandleMouseMove
    <2> QED BY <2>1, <2>2
  <1>7. ASSUME NEW x \in Mouse, NEW b \in BOOLEAN, Enter(x, b) PROVE TypeOK' /\ DragInv'
    BY <1>7 DEF TypeOK, Enter, history
  <1> QED BY <1>1, <1>2, <1>3, <1>4, <1>5, <1>6, <1>7 DEF Next

----------------------------------------------------------------------------
(* The canvases and the captures *)

(* The two refs reach the two panels, so that the two images of a capture   *)
(* come from different canvases.                                            *)
LEMMA CaptureFrames ==
    ASSUME swapped \in BOOLEAN
    PROVE  /\ Feed!CaptureFrame("thermal") = canvas["left"]
           /\ Feed!CaptureFrame("rgb") = canvas["right"]
  BY DEF Feed!CaptureFrame, Feed!CaptureRef, Feed!PanelOf

FeedInv == Feed!TypeOK /\ DrawnIsOwn /\ CaptureImages

LEMMA FeedStep ==
    ASSUME FeedInv, Feed!Next
    PROVE  FeedInv'
  <1> USE DEF Feed!Panels, Feed!Feeds, Feed!Pixels, Feed!Canvas
  <1>0. /\ Feed!TypeOK /\ DrawnIsOwn /\ CaptureImages
        /\ swapped \in BOOLEAN /\ canvas \in [Feed!Panels -> Feed!Canvas]
        /\ drawn \in [Feed!Panels -> BOOLEAN]
    BY DEF FeedInv, Feed!TypeOK
  <1>1. \A p \in Feed!Panels, s \in BOOLEAN : Feed!TypeOf(p, s) \in Feed!Feeds
    BY DEF Feed!TypeOf
  <1>2. ASSUME shot' = shot PROVE CaptureImages'
    BY <1>0, <1>2 DEF CaptureImages, Feed!SettledImagesDiffer, Feed!SettledImagesInPlace
  <1>3. ASSUME NEW p \in Feed!Panels, Feed!DrawFrame(p) PROVE FeedInv'
    <2>1. Feed!TypeOK'
      BY <1>0, <1>1, <1>3 DEF Feed!TypeOK, Feed!DrawFrame
    <2>2. DrawnIsOwn'
      BY <1>0, <1>3 DEF DrawnIsOwn, Feed!DrawFrame
    <2> QED BY <1>2, <1>3, <2>1, <2>2 DEF FeedInv, Feed!DrawFrame
  <1>4. ASSUME NEW p \in Feed!Panels, Feed!Resize(p) PROVE FeedInv'
    <2>1. Feed!TypeOK'
      BY <1>0, <1>4 DEF Feed!TypeOK, Feed!Resize
    <2>2. DrawnIsOwn'
      BY <1>0, <1>4 DEF DrawnIsOwn, Feed!Resize
    <2> QED BY <1>2, <1>4, <2>1, <2>2 DEF FeedInv, Feed!Resize
  <1>5. CASE Feed!ToggleFeedsSwapped
    <2>1. Feed!TypeOK'
      BY <1>0, <1>5 DEF Feed!TypeOK, Feed!ToggleFeedsSwapped
    <2>2. DrawnIsOwn'
      BY <1>5 DEF DrawnIsOwn, Feed!ToggleFeedsSwapped
    <2> QED BY <1>2, <1>5, <2>1, <2>2 DEF FeedInv, Feed!ToggleFeedsSwapped
  <1>6. ASSUME NEW p \in Feed!Panels, Feed!SetPaletteIdx(p) PROVE FeedInv'
    <2>1. Feed!TypeOK'
      BY <1>0, <1>6 DEF Feed!TypeOK, Feed!SetPaletteIdx
    <2>2. DrawnIsOwn'
      BY <1>0, <1>6 DEF DrawnIsOwn, Feed!SetPaletteIdx
    <2> QED BY <1>2, <1>6, <2>1, <2>2 DEF FeedInv, Feed!SetPaletteIdx
  <1>7. ASSUME NEW tab \in {"dashboard", "map"}, Feed!SetActiveTab(tab) PROVE FeedInv'
    <2>1. Feed!TypeOK'
      BY <1>0, <1>7 DEF Feed!TypeOK, Feed!SetActiveTab, Feed!CanvasOnTab
    <2>2. DrawnIsOwn'
      BY <1>7 DEF DrawnIsOwn, Feed!SetActiveTab
    <2> QED BY <1>2, <1>7, <2>1, <2>2 DEF FeedInv, Feed!SetActiveTab
  <1>8. CASE Feed!HandleCapture
    <2>1. /\ shot' = [thermal |-> canvas["left"], rgb |-> canvas["right"],
                      settled |-> \A p \in Feed!Panels : drawn[p], swapped |-> swapped]
          /\ canvas["left"] # "none" /\ canvas["right"] # "none"
      BY <1>0, <1>8, CaptureFrames DEF Feed!HandleCapture
    <2>2. Feed!TypeOK'
      BY <1>0, <1>8, <2>1 DEF Feed!TypeOK, Feed!HandleCapture
    <2>3. DrawnIsOwn'
      BY <1>0, <1>8 DEF DrawnIsOwn, Feed!HandleCapture
    <2>4. CaptureImages'
      <3>1. shot'.settled => /\ shot'.thermal \in {Feed!TypeOf("left", swapped), "blank"}
                             /\ shot'.rgb \in {Feed!TypeOf("right", swapped), "blank"}
        BY <1>0, <2>1 DEF DrawnIsOwn
      <3>2. /\ Feed!TypeOf("left", swapped) # Feed!TypeOf("right", swapped)
            /\ ~ swapped => /\ Feed!TypeOf("left", swapped) = "thermal"
                            /\ Feed!TypeOf("right", swapped) = "rgb"
        BY <1>0 DEF Feed!TypeOf
      <3>3. shot'.swapped = swapped
        BY <2>1
      <3>4. \A p \in Feed!Panels : Feed!TypeOf(p, swapped) # "blank"
        BY <1>0, <1>1
      <3> QED BY <3>1, <3>2, <3>3, <3>4
              DEF CaptureImages, Feed!SettledImagesDiffer, Feed!SettledImagesInPlace
    <2> QED BY <2>2, <2>3, <2>4 DEF FeedInv
  <1> QED BY <1>3, <1>4, <1>5, <1>6, <1>7, <1>8 DEF Feed!Next

----------------------------------------------------------------------------
(* Both together *)

LEMMA InitIInv == PanelsInit => IInv
  <1> SUFFICES ASSUME PanelsInit PROVE IInv
    OBVIOUS
  <1>1. TypeOK
    <2>1. zoom \in 1 .. MaxZoom
      BY OneIsZoom, Zenon DEF PanelsInit, Init
    <2>2. 0 \in Int /\ NotHeld \in Int \X (1 .. MaxZoom)
      BY OneIsZoom DEF NotHeld
    <2> QED BY <2>1, <2>2, Zenon DEF PanelsInit, Init, TypeOK
  <1>2. Feed!TypeOK
    BY DEF PanelsInit, Feed!Init, Feed!TypeOK, Feed!NoShot, Feed!Panels, Feed!Feeds,
           Feed!Pixels, Feed!Canvas
  <1>3. DragInv
    BY DEF PanelsInit, Init, DragInv, DragNeedsButton, ZoomedOutIsCentred
  <1>4. DrawnIsOwn
    BY DEF PanelsInit, Feed!Init, DrawnIsOwn
  <1>5. CaptureImages
    BY DEF PanelsInit, Feed!Init, Feed!NoShot, CaptureImages,
           Feed!SettledImagesDiffer, Feed!SettledImagesInPlace
  <1> QED BY <1>1, <1>2, <1>3, <1>4, <1>5 DEF IInv, PanelsTypeOK

(* The two halves change their own variables; only a tab change does both,  *)
(* and it ends a drag.                                                      *)
LEMMA IInvStep == IInv /\ [PanelsNext]_allVars => IInv'
  <1> SUFFICES ASSUME IInv, [PanelsNext]_allVars PROVE IInv'
    OBVIOUS
  <1> USE DEF IInv, PanelsTypeOK, FeedInv
  <1>1. ASSUME UNCHANGED vars PROVE TypeOK' /\ DragInv'
    BY <1>1 DEF TypeOK, DragInv, DragNeedsButton, ZoomedOutIsCentred, vars, history
  <1>2. ASSUME UNCHANGED feedVars PROVE FeedInv'
    BY <1>2 DEF Feed!TypeOK, DrawnIsOwn, CaptureImages,
                Feed!SettledImagesDiffer, Feed!SettledImagesInPlace, feedVars
  <1>3. CASE Interact
    BY <1>2, <1>3, ViewStep DEF Interact
  <1>4. ASSUME NEW tab \in {"dashboard", "map"}, ChangeTab(tab) PROVE IInv'
    <2>1. FeedInv'
      BY <1>4, FeedStep DEF ChangeTab, Feed!Next
    <2>2. TypeOK' /\ DragInv'
      <3>1. zoom' \in 1 .. MaxZoom
        BY <1>4, OneIsZoom, Zenon DEF ChangeTab
      <3>2. 0 \in Int /\ NotHeld \in Int \X (1 .. MaxZoom)
        BY OneIsZoom DEF NotHeld
      <3> QED
        BY <1>4, <3>1, <3>2, Zenon DEF ChangeTab, DraggingOnMount, TypeOK, DragInv,
           DragNeedsButton, ZoomedOutIsCentred
    <2> QED BY <2>1, <2>2
  <1>5. ASSUME Feed!Next, UNCHANGED vars PROVE IInv'
    BY <1>1, <1>5, FeedStep
  <1> QED BY <1>1, <1>2, <1>3, <1>4, <1>5 DEF PanelsNext, Feed!Next, allVars

LEMMA Invariance == PanelsSpec => []IInv
  BY InitIInv, IInvStep, PTL DEF PanelsSpec

(* Panel state and canvases keep their types: the zoom its limits, and the  *)
(* canvases are there exactly on the dashboard tab.                         *)
THEOREM TypeCorrect == PanelsSpec => []PanelsTypeOK
  <1>1. IInv => PanelsTypeOK
    BY DEF IInv
  <1> QED BY <1>1, Invariance, PTL

(* A capture taken when both streams have drawn since the last swap or tab  *)
(* change never holds one feed twice; unswapped, each image is in place.    *)
THEOREM CapturedImages == PanelsSpec => []CaptureImages
  <1>1. IInv => CaptureImages
    BY DEF IInv
  <1> QED BY <1>1, Invariance, PTL

(* Over any number of moves and turns of the wheel the pointer of a drag is *)
(* over the point it grabbed exactly at the zoom of the grab, for every set *)
(* of pointer positions and every zoom limit.                               *)
THEOREM HeldPoint == PanelsSpec => []HeldPointStays
  <1>1. IInv => HeldPointStays
    BY HeldFromDistance DEF IInv, PanelsTypeOK
  <1> QED BY <1>1, Invariance, PTL

(* At zoom 1 the image is in its place, unless a drag was under way when    *)
(* the zoom came back to 1.                                                 *)
THEOREM CentredAtOne == PanelsSpec => []ZoomedOutIsCentred
  <1>1. IInv => ZoomedOutIsCentred
    BY DEF IInv, DragInv
  <1> QED BY <1>1, Invariance, PTL

(* No drag outlives the pointer's stay or the panel itself (a tab change in *)
(* the middle of a drag ends it), and none its button, but for a release    *)
(* that a menu or a popup has swallowed.                                    *)
THEOREM DragEnds == PanelsSpec => []DragNeedsButton
  <1>1. IInv => DragNeedsButton
    BY DEF IInv, DragInv
  <1> QED BY <1>1, Invariance, PTL

=============================================================================
