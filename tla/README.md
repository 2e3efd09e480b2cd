# TIOS: a TLA+ model of the thermal inspection station

This directory specifies the program under `src/tios2/`, the ground station of a
thermal inspection drone. A Node backend turns MAVLink telemetry into Socket.io
messages and RTSP video into WebSocket video. Python processes bridge the drone to the
backend and draw detections on the video. A React dashboard shows telemetry, video and
a map, takes captures and exports them as files, a CSV and a PDF report. Nothing is
persisted on the server; what must survive is in the browser's memory, in its downloads
and in its tile database.

`src/tensorflow-master` is a vendored copy of TensorFlow that the program does not call.

Paths below are relative to `src/tios2/`; `frontend/` stands for `frontend/src/`.

## 1. Inventory

| Part | Source | State it keeps | Operations |
|---|---|---|---|
| Drone bridge | `backend/drone_bridge.py` | the telemetry dict, the MAVLink connection | `connect_drone` with a heartbeat timeout, merge one message, forward the dict on GLOBAL_POSITION_INT |
| MAVLink parser | `backend/src/mavlink/mavlinkParser.js` | the module's `telemetry`, its intervals, its sockets | `startMAVLink` in five modes, the UDP, serial and LAN handlers, the simulator, the 10 Hz broadcast |
| Backend server | `backend/src/server.js` | `global.latestTelemetry`, open sockets | `boot`, the snapshot on connection |
| Stream relay | `backend/src/stream/streamRelay.js` | an FFmpeg process per camera, `retry`, the Set of WebSockets | spawn, relay a chunk, restart after a delay |
| Detection stream | `backend/tf_detector.py` | the global network `net`, a capture per thread | `run_detection_stream` in each request thread |
| Shared-camera detectors | `backend/tf_detector_updated.py`, `backend/tf_detector_yolo.py` | the last JPEG, a lock, the frame counter | `_capture_loop`, `get_frame`, `gen_frames` |
| Socket hook | `frontend/hooks/useSocket.js` | none of its own | connect, disconnect, telemetry |
| Store | `frontend/store/useTIOSStore.js` | telemetry, flight path, captures, selection, tab, swap flag, toasts | one setter each |
| Map | `frontend/components/map/OfflineMap.jsx` | Leaflet's view, the IndexedDB tile store | centring, dragging, `createTile` |
| Video panels | `frontend/components/video/VideoPanel.jsx`, `frontend/App.jsx` | two canvases, zoom, pan, drag, full screen, the two refs | draw, resize, swap, wheel, drag |
| Captures | `frontend/App.jsx`, `frontend/utils/captureEngine.js`, `frontend/components/capture/` | the captures list, download timers, a CSV module being imported | capture, reset, select, save, export |
| Reports | `frontend/utils/pdfGenerator.js`, `frontend/utils/csvExport.js` | the document being drawn | cover, severity page, detail pages, CSV |
| Toasts | `frontend/store/useTIOSStore.js` | the toast list and its timers | `addToast`, which most handlers call |
| Capture browser | `frontend/components/capture/CaptureBrowserModal.jsx` | search text, sort key and direction, view, the memoised list | search, sort, change view, choose |
| TopBar, SideNav, ScanBar | `frontend/components/` | a clock, a random histogram | buttons and tabs |
| Scripts | `backend/patch*.py`, `backend/download_tf_model.py`, `backend/test_lan_telemetry.js` | none | one-shot |

**How the parts interact.** The bridge sends JSON by UDP to the parser, which merges it
into one mutable object. An interval copies that object to `latestTelemetry` and emits
it; a new connection is greeted with the last copy. The dashboard's socket hook writes
the store; React renders every subscriber of it before the next event. The map, the
sidebar and `handleCapture` read the store, the last one through a memoised closure. The
relay and the detectors deliver video by routes of their own. Captures read the canvases
through refs, and the reports read captures.

**What is hard in it.**

* Ordering: a snapshot is older than the broadcasts that follow it, and may be older
  than what a reconnecting dashboard already shows; events of a lost connection are
  handled after the loss.
* Failure: UDP packets are lost, backend and bridge restart with default values, the
  camera stops answering or changes its transport, npm packages or FFmpeg are missing,
  a tile cannot be read, fetched or stored.
* Shared state: two Flask threads in one network object without a lock; a capture thread
  and its viewers around one lock.
* Stale state: memoised handlers, timers and dynamic imports that outlive the list they
  were started for, a memoised list in the browser, refs that move between panels, toast
  ids that repeat.
* Edges: thresholds that five places state independently, figures that are rounded before
  they are printed, durations, percentages and headings at the ends of their ranges.
* The browser itself: a mouse release that a menu swallows, list keys that repeat.

`PROJECT.json` lists each of these at its line under `hazards`, with the properties that
would catch it.

## 2. Modules

Each component module holds its state as VARIABLES, one action per handler or step, the
specification, and its properties. A definition whose comment starts with "mutant" is a
plausible bug in the definition that follows it; nothing uses it except the mutation
check, which shows that the property can fail. Variables marked "history" do not exist
in the program: they record what a property needs to compare. The theorems about a
component, with their lemmas, are in a module of their own whose name ends in `Proofs`
(section 4).

### TelemetryLink: from the drone to the store

`bridge` is the Python process (where it is in `connect_drone` or the loop, and its
dict), `udp` the loopback socket, `telemetry` and `latest` the parser's object and
`global.latestTelemetry`, `link` and `inbox` a Socket.io connection and the events in it,
`connected` and `store` what the dashboard shows. A group of fields that arrive in one
MAVLink message is one dict entry, whose value is the number of the message.
`BridgeMessage` is one turn of the bridge's loop, `LANMessage` the parser's socket
handler, `Broadcast` the interval, `Connect` the connection handler with its greeting,
`HandleEvent` one event of `useSocket`. `BackendCrash`, `BackendStart`, `BridgeRestart`,
`DropLink` and `LosePacket` are the failures; a crash or a drop loses any suffix of what
was under way to a browser and ends with a disconnect event.

* `ImplementsLiveView`: the path implements the abstract specification below.
* `FlagWillBeCorrected`: whenever the connected flag is wrong, the event that will correct
  it is on its way.
* `ShownOnlyWhileConnected`: telemetry does not change under DISCONNECTED.
* `EveryClientCatchesUp` (liveness): what the parser took in, or something newer, reaches
  the dashboard, unless the backend dies.

### LiveView: what the path promises

The abstract specification of the telemetry path, without the path. Packets are
published, the backend lives one life after another, and each dashboard shows one packet
whole, or a life's defaults. `Show` may only replace what is shown by something newer: a
later packet of the same life, or a later life's defaults, or a later packet that a later
life passes on. `TelemetryLink` instantiates it with the refinement mapping

| LiveView | TelemetryLink |
|---|---|
| `published` | `log`, the dicts that the bridge forwarded |
| `life` | `telemetry.epoch`, the life of the parser |
| `view` | `store` |

and `ImplementsLiveView` is `LiveView`'s specification under it. A position message is a
`Publish`, `BackendStart` a `Restart`, the handling of a telemetry event a `Show` or, for a
packet that is shown already, a stutter; every other step is a stutter. So no interleaving
of two merges, a lossy socket, the interval, the greeting, lost connections and restarts
mixes two packets or takes a dashboard back in time.

### MavlinkParser: which source feeds the telemetry

All five values of `MAVLINK_CONNECTION`, with and without the packages. `opened` is the
transport in use, `sims` the number of simulator intervals (each serial error adds one),
`from` where each group of fields is from. Voltage, percentage and heading, which are
computed, keep their values: tenths of a volt, whole percent, degrees. `From` and the
per-message actions copy; `Percent` and `HeadingOf` are the LAN handler's arithmetic. A
message that a handler ignores (an unknown battery voltage, a named value it does not know)
is in the model too, and is not counted as heard.

* `NeverMixed`: no broadcast holds simulated fields beside the drone's.
* `SourceIsShown` (liveness): the fallback after a missing package really delivers, and so
  does the network.
* `SerialHeardIsShown` is violated; see section 5.

### FlightMap: path and map view

`updateTelemetry`'s jump reset and movement filter, `OfflineMap`'s centring. Coordinates
are integers in a fixed sub-degree unit, the code's two thresholds are the constants `Eps`
and `Jump`, and the Euclidean distance is compared squared. `OtherStoreChange` is there
because the map subscribes to the whole store: any change renders it and runs
`MapAutoCenter`.

* `PathContinuous`, `PathTracksDrone`, `NoFixNeverJoined`: a drawn segment is a movement and
  never a jump; creep cannot leave the path's end behind; (0, 0) never shares a path with a
  fix.
* `ViewFollowsDrone`: an undragged map is on the drone while the position is valid. When the
  fix is lost it stays on the last valid position it has seen since it was mounted, and only
  a map that has seen none is on the field default (`lastFix` and `located` record what it
  has seen). The page then says otherwise; see section 5.

### TileCache: offline tiles

The promise chain of `createTile`: lookup, fetch, write, and both catch clauses, for
several tiles with equal URLs.

* `CacheBeforeNetwork`: what was stored when it was asked for is never fetched or written
  again, and is left to the live URL, which may use the network, only if reading it was
  refused (`refused`).
* `EveryTileReported` (liveness): `done` is called for every tile; the type invariant says
  that it is called once.

### StreamRelay: FFmpeg and its clients

A process per camera that is starting, streaming or waiting for its restart; the retry
count, which chooses transport and delay and is never reset; the WebSockets with their
closing handshake. Time is counted in units of 3000 ms while a restart is awaited. The
retry count is unbounded in the code; past the cap only its parity matters, so it
alternates between two values there. `SpawnError` is the `error` event of a missing
binary, which nothing handles, and which ends the backend.

* `DarkBounded`: while a camera answers on some transport, the waiting between attempts
  adds up to at most two full delays.
* `VideoArrives` (liveness): a browser that stays connected is sent chunk after chunk, for
  ever, by a camera that ends up answering. `beat` changes with every chunk, so that each one
  is a step.

### Detector: the network shared by two threads

Each request thread reads, calls `setInput` and `forward` on the one global network, draws
and yields. OpenCV releases the interpreter lock in both calls, and nothing in the code
bounds what comes of a pass that overlaps with another thread's `setInput` or `forward`: it
may return the boxes of any input it may have seen, boxes of none (`Torn`), raise, which ends
the response (`PassRaises`), or bring the process down (`PassCrashes`). `overlapped` records
whether there was an overlap, `broken` whether a pass has failed.

* `BoxesOwnUnlessShared`: a feed that has the network to itself from its `setInput` to the end
  of its `forward` draws the boxes of its own frame, whatever was left in the network before.
  Nothing is claimed of a disturbed pass.
* `RtspFeedResumes` (liveness): an RTSP feed survives every outage, unless a disturbed pass
  fails.

### SharedCamera: one capture thread, many viewers

The later detectors: `_capture_loop` reads, detects, sends the detections by UDP, encodes
and publishes under a lock; viewers poll `get_frame` under it. A `sendto` that raises is
swallowed by the code and recorded in `unsent`.

* `DetectionsFirst`: a frame on a screen never overtakes its detections; it is shown without
  them only if the very `sendto` that was to carry them raised.
* `FramesReachViewers` (liveness): every published frame, or a newer one, reaches every
  viewer.

### DetectionServers: whichever was started

Both kinds of detector serve the same addresses on port 5000, so an operator runs one of
them. The module extends `Detector` and instantiates `SharedCamera`; the initial state
chooses the program, and only that one's threads run. The properties of both, with their
types (`ServersTypeOK`), are checked on the composition.

### VideoFeeds, PanelView, VideoPanels: canvases, view, and both

`VideoFeeds` says which feed's pixels are on which canvas and what a capture takes through
the refs, under swaps, resizes, changes of palette (which start the stream again) and tab
changes. `PanelView` is the interaction state of one panel, with the canvas' transform: it
is scaled about its centre and then moved by the pan, so that `UnderPointer` is the point of
the image under the pointer. A release of the button is handled, or swallowed by a context
menu or by the popup of the palette's select (`ReleaseSwallowed`). `VideoPanels` composes them: it extends `PanelView`, instantiates
`VideoFeeds`, and adds what couples them. Leaving the dashboard unmounts the panels, which
throws the view's state away with the canvas, in the middle of a drag too.

* `CaptureImages`: once both streams have been drawn, a capture never holds one feed twice,
  and in the normal arrangement each image is of its own feed. Between a swap and the next
  frame of each stream the canvases hold the old pictures, and nothing is claimed.
* `HeldPointStays`: over any number of moves and turns of the wheel, the point under the
  pointer is the one that was grabbed exactly when the zoom is what it was then (or the
  centre was grabbed): the wheel makes it slide, turning it back returns it, moves lose
  nothing. Only a zoom that comes down to 1 during the drag loses it.
* `ZoomedOutIsCentred`: at zoom 1 the image is in its place, unless a drag was under way when
  the zoom came back to 1 (`outlived`).
* `DragNeedsButton`: no drag outlives the pointer's stay or the panel, and one goes on with
  the button up only if the release was swallowed.
* `SwapAccountedFor` is violated; see section 5.

### Toasts, CaptureDeck: the list, its files and its messages

`Toasts` is `addToast` with its timer: an id is a small number that may repeat, because only
the equality of ids matters, and timers of equal delay fire in order. The ids are also the
React keys of the rendered toasts. When a list with equal keys is rendered again after a
removal, React may leave a node behind that belongs to no toast of the list; `Strands` says
when, modelled from how React 18 matches children by key. `CaptureDeck` extends it. It has captures with the memoised closure of `handleCapture`, the reset, the selection
by id, the modal, the two-step image download with its 300 ms timer, the CSV export that
waits for a dynamic import which may reject, the PDF call which may throw, and the toasts of
every one of these handlers and of the socket hook. A capture carries a serial number that,
unlike its id, is never used twice.

* `CapturesAreTrue`: every list, on the screen, awaiting its export or exported, is numbered
  without gaps and tagged with the telemetry of the moment of the press.
* `ModalShowsChosen`: the modal shows the capture that was chosen until the list is cleared
  (checked with the browser, which is one of the two places to choose from).
* `FilesPairUp`, `RgbFollows` (liveness): the n-th RGB file belongs to the n-th thermal file,
  and comes.
* `ToastsHaveTimers`: every toast of the list has its own timer pending, behind those of the
  toasts before it, although ids repeat. As long as no toast was given the id of a pending
  timer, no timer removes another's toast and the screen shows the list. With a repeated id
  a toast may go early, or stay on the screen for good; see section 5.

### CaptureBrowser: search, sort, choose

Extends `CaptureDeck`, all of which goes on behind an open browser. `rows` is
`processedCaptures`, recomputed by `RenderRows` when a dependency of its memo changes.
`Temp`, `Lat` and `Stamp` give the sort keys; a search text is the set of ids and places it
is found in. The sort is JavaScript's, stable, under the code's comparison function: the row
of a capture (`RowOf`) is one more than the number of captures that match and go before it,
by a smaller key or, with equal keys, by an earlier place in the list (`GoesBefore`).

* `RowsAreTrue`: an open browser lists exactly the captures there are that match, each once,
  ordered by the key and direction shown, equal keys in the order of capture.
* `ModalShowsChosen`: what is chosen in the filtered, sorted list is what the modal finds by
  id, also after a reset has started the numbering anew.

### Report: what PDF and CSV say

The figures, not the layout: pages with their footers, the cover's peak, duration and map
pins, the severity counts and the advice, the badges, the CSV's column, the colours of the
browser's rows. Temperatures are in hundredths of a degree, and `ToFixed1` rounds the printed
peak to tenths. autoTable's page breaks are modelled from how the code uses it.

* `SeveritiesRelate`: the five classifications do not agree, and this is how they differ. The
  counts of the severity page are the badges'; the CSV is one class worse in the bands 35 to
  45, 50 to 65 and 70 to 85 degrees and equal elsewhere; the browser's rows and the pins on
  the cover follow the CSV.
* `CoverIsTrue`: the advice follows from the peak as it is printed, unless the threshold
  itself is printed; the duration reads back.
* `FootersLag`: whether or not the table fits on the cover, every footer number lags by the
  pages that the table fills, the severity page's total leaves those out, and the cover's
  total is one less still.

## 3. Runs

| Run | Module, cfg | Distinct states | Bounds, and why they are enough |
|---|---|---|---|
| `flight_map` | MCFlightMap, FlightMap.cfg | 11 478 | positions around a field, one jump away, and no fix; paths of up to 5 points: jitter, creep, movement, jump and loss of fix can follow one another in every order. |
| `telemetry_link` | TelemetryLink, TelemetryLink.cfg | 213 442 | 3 messages of 2 kinds, 2 dropped connections, a restart of backend and of bridge, buffers of 2. Browsers do not interact with one another and every property is about one browser, so one is modelled. Two packets make an older and a newer; a third lets a greeting come between. |
| `mavlink_parser` | MCMavlinkParser, MavlinkParser.cfg | 27 173 | every mode with and without packages; every subset of the LAN groups; voltages below, in and above the estimate's range. |
| `mavlink_serial` | MCMavlinkParser, MavlinkSerial.cfg | violation | as above |
| `video_panels` | VideoPanels, VideoPanels.cfg | 2 038 608 | 3 zoom levels, pointer at 2 places, pans of up to 2 (`PanBound`): a drag with several moves, a second drag from a shifted image, a wheel turned up and down during a drag, a drag that outlives the zoom or its release. |
| `video_feeds_swap` | VideoFeeds, VideoFeedsSwap.cfg | violation | finite without bounds |
| `capture_deck` | CaptureDeck, CaptureDeck.cfg | 430 244 | 2 captures, 2 messages, 2 downloads, 1 export, 3 pending toasts, 1 of them with a repeated id: an id used again after a reset, two downloads under way, an export overtaken by a reset, two toasts with one id and a third around them, which is what it takes to strand one. |
| `capture_browser` | MCCaptureBrowser, CaptureBrowser.cfg | 71 940 | 4 captures of 3 messages, temperatures and latitudes in opposite orders, equal keys, a message without a fix, a clock set back; a search that finds all, some and none; captures taken and cleared while it is open. Files are off: they do not touch the list. |
| `report` | MCReport, Report.cfg | 666 106 | every list of up to 3 of 14 temperatures on both sides of the thresholds of all five places and of the tenth they are rounded to, durations on both sides of every unit and a clock set back, a table with room for 1 row on the cover and 1 per further page: fitting, and overflowing by one page and by two. |
| `tile_cache` | MCTileCache, TileCache.cfg | 5 409 | 3 tiles of 2 URLs, the uplink changing twice: two tiles race for one URL, a third does not. |
| `stream_relay` | StreamRelay, StreamRelay.cfg | 111 614 | the code's own cap (30 s, 10 units), one camera and browser (relays are independent), 2 changes of the camera, 2 broken streams. |
| `detection_servers` | DetectionServers, DetectionServers.cfg | 129 314 | an RTSP feed and a webcam, 2 frames each, an outage: every overlap of two passes, and every outcome of it; or 2 frames of the shared camera and 2 viewers, every send failing or not: a viewer may be a frame behind. |

Every invariant and every action or refinement property of the passing runs is also proved
for all values of the constants; the liveness properties rest on these bounds alone.

`CHECK_DEADLOCK FALSE` is set where the modelled activity really ends: a saved report, tiles
all shown, a webcam stream that ended, a relay without URLs or without a backend.

### Fairness

* Node, browser and Python timers that are due fire, promises settle, and an event that has
  been delivered is handled: weak fairness of `Broadcast`, `HandleEvent`, `RgbTimer`,
  `ToastTimeout`, `Tick`, `SpawnFFmpeg`, `SimulateFlight` and the tiles' steps, and of
  `CsvModuleLoaded \/ CsvModuleFails`: an import resolves or rejects.
* Socket.io's client reconnects for ever by default: weak fairness of `Connect`.
* An FFmpeg process streams or exits; a thread whose call returns goes on. A disturbed pass
  of the network returns sooner or later if it does not fail; nothing obliges it to fail.
* Acquiring the camera's lock is strongly fair: holders release it at once and sleep (30 ms
  in the viewers) or detect before they want it again, so that a waiting thread meets it
  free again and again.
* In serial mode a connected drone keeps transmitting (`SerialData`).
* Nothing obliges an operator to act, a source to return, a camera to answer, a message to
  arrive, or the backend to be restarted.

## 4. Proofs

The proofs hold for every value of the constants that satisfies the assumptions named in the
component modules; TLC evaluates those assumptions in the runs. Each module of proofs states
one inductive invariant (`IInv` unless named otherwise), shows that the initial states satisfy
it and that every action preserves it, with a lemma per group of variables or actions, and
derives the properties from it.

| Module | Theorems, and the property each is about |
|---|---|
| `OfflineMapProofs` | `TypeCorrect` (`TypeOK` of FlightMap), `PathIsContinuous` (`PathContinuous`), `PathTracks` (`PathTracksDrone`), `NoFixIsolated` (`NoFixNeverJoined`), `ViewFollows` (`ViewFollowsDrone`), `TilesTypeCorrect` (`TilesTypeOK`), `CachedStaysOffline` (`CacheBeforeNetwork`), `ReportedOnce` |
| `StreamRelayProofs` | `TypeCorrect`, `OutageBounded` (`DarkBounded`) |
| `TelemetryLinkProofs` | `TypeCorrect`, `Refinement` (`ImplementsLiveView`), `FlagCorrected` (`FlagWillBeCorrected`), `ShownWhileConnected` (`ShownOnlyWhileConnected`) |
| `MavlinkParserProofs` | `TypeCorrect`, `SourcesUnmixed` (`NeverMixed`) |
| `VideoPanelsProofs` | `TypeCorrect`, `CapturedImages` (`CaptureImages`), `HeldPoint` (`HeldPointStays`), `CentredAtOne` (`ZoomedOutIsCentred`), `DragEnds` (`DragNeedsButton`) |
| `DetectionServersProofs` | `TypeCorrect`, `UndisturbedBoxesAreOwn` (`BoxesOwnUnlessShared`), `DetectionsAreFirst` (`DetectionsFirst`) |
| `CaptureProofs` | `TypeCorrect`, `CapturesTrue` (`CapturesAreTrue`), `FilesArePaired` (`FilesPairUp`), `ModalIsRight` and `BrowserModalIsRight` (`ModalShowsChosen`, without and with the browser), `NoToastStays` (`ToastsHaveTimers`), `BrowserRowsTrue` (`RowsAreTrue`) |
| `ReportProofs` | `SeveritiesDoRelate` (`SeveritiesRelate`), `CoverTellsTheStory` (`CoverIsTrue`), `FootersDoLag` (`FootersLag`) |

**The map.** Positions are pairs of integers, thresholds natural numbers, and the field
default a valid position. The work is in two lemmas about `NextPath`: what it returns is a
path, never empty, that ends within the threshold of the new position (`NextPathShape`); it
is continuous if its argument was (`NextPathContinuous`). `NoFixIsolated` needs the extra
invariant that a path holds received positions only, because continuity then leaves no
neighbour for (0, 0). `ViewFollows` needs that the last valid position is the present one
while that is valid, and that a mounted map has then seen it (`FixesInv`).

**The tiles.** `CacheBeforeNetwork` is about tiles that were stored when they were asked for;
a step of another tile could disturb it only by removing a blob. `TilesInv` therefore adds
that what was stored is stored still (`StillStored`), that a write under way or an image
belongs to a tile that has ended (`WritesAfterTheEnd`), and that `done` has been called once for the tiles that
have ended and never for the others (`ReportedAtTheEnd`, which is `ReportedOnce`).

**The relay.** `DarkBounded` is not inductive: it says nothing of what is still to be waited.
`IInv` adds

* `DarkResets`: nothing has been waited while a stream runs or no transport works, and no
  delay is pending outside "waiting";
* `DarkBudget`: what has been waited plus what is still to be waited is at most the cap
  when the next attempt will use a transport that does not work, and twice the cap when it
  will use one that does.

The step that matters is a failed attempt: it adds at most one delay (`DelayBounded`), and
the next attempt uses the other transport (`RetryAlternates`), which works if any does
(`OtherTransportWorks`).

**The telemetry path.** `Refinement` shows that the initial states are initial states of
`LiveView` and that every step is one of its steps or a stutter. For `Show` to be allowed, an
event at the head of an inbox must hold a whole packet of the log, or the defaults, and must be
one that may follow what is shown. "May follow" (`Before`) is not transitive: between a packet
of an old life and an older packet of a new one lie the new life's defaults, which may follow the
first and be followed by the second. So it is not enough to order neighbours: the invariant
relates every two places along the path.

* `UdpInOrder`: packets under way are log entries in ascending order, newer than the parser's
  object.
* `BackendInOrder`: `telemetry` and `latest` are log entries or defaults, and `latest` is of the
  same life and no newer.
* `ClientsInOrder`: the store, every event of an inbox and every later event of it are in
  order, and all of them are before all that the backend still holds or will receive (`Past`).
* `InboxShape`: where connect and disconnect events may stand in an inbox, given the link and
  the flag. From this alone follow `FlagCorrected` and `ShownWhileConnected`.

The lemmas `InOrderAppend`, `InOrderTail`, `InOrderLost` and `GreetingOK` say what an emission,
a handled event, a dropped connection and a greeting do to an inbox.

**The parser.** `NeverMixed` follows from a fact about the modes: the transports whose handlers
write the drone's values never run beside a simulator (`DroneAlone`), and no other code writes
them (`NoDroneWithout`). What the type invariant says of battery and heading rests on the
arithmetic: `PercentInRange` for every voltage, `HeadingOnCompass` for every yaw in -180 .. 180.
The ranges assumed of the messages are those of their MAVLink fields.

**The panels.** `HeldPointStays` compares fractions, which is not inductive for the provers; what
is, is that the anchor of the next move is where the pointer is and that the pointer's distance to
the image's centre is what it was when the drag began (`DragInv`), whatever the zoom.
`HeldFromDistance` derives the property from that. `DragInv` also has that a drag at zoom 1 has
outlived the zoom, since a button pressed at zoom 1 starts none. A panel that has drawn since its stream started shows its own feed or
nothing (`DrawnIsOwn`). A swap exchanges the feeds and leaves the pixels, but starts both streams
again, so that neither panel counts as drawn. The two halves are proved separately (`ViewStep`,
`FeedStep`) and meet in the steps that change the tab.

**The detectors.** `IInv` is a disjunction: one of the two programs runs and the other one's
variables are as they were. For the network without a lock, a pass is under way exactly while a
thread is in `forward` (`PassUnderWay`), and a thread without an overlap finds its own frame in the
network, in its pass and in its boxes (`Undisturbed`). For the shared camera, the sending of every
count up to the last was tried, no frame number that is published, copied or shown exceeds it, and the viewer that copies holds
the lock. Assumed of the constants: no viewer is called "camera" or "free", the two values of the
lock that name no viewer.

**The captures.** `CapturesAreTrue` needs that the memoised closure equals the store after every
render (`ClosureFresh`), and the same numbering of the lists that wait for their export.
`FilesPairUp` needs the pending timers as the continuation of the RGB files (`FilesInv`);
`ModalShowsChosen` that the chosen capture is at the place its id says (`ChosenInv`).
`ToastsHaveTimers` needs that without a repetition ids and places are equal (`ToastInv`): the
timer at the head then removes the toast at the head and no other, and `Strands`, which takes two
toasts of one id, is false.

**The browser.** `BrowserInv` adds that serial numbers ascend in the list, and that the memo is
never stale (`RowsFresh`). What `Sorted` returns is then a matter of counting: `GoesBefore` is
a strict total order of the captures that match (`OrderIsTotal`), so the number of those that go
before rises along it (`RowsRise`); different captures get different rows, and as many rows as
captures means that every row is filled (`RowsFilled`, by the pigeonhole principle of
`FiniteSetTheorems`). `RowsAreTrue` follows from that (`SortedIs`).

**The report.** The five classifications are compared for every temperature (`ClassIsBadge`,
`CsvOneWorse`, `ColourIsCsv`), the printed peak is on the same side of a threshold as the peak
unless it is the threshold (`RoundedSide`), and a duration is recovered from its text for every number of
milliseconds (`DurationKept`). The peak is a maximum over a list of any length. The induction
over the length is done with sets, since the induction theorems cannot be used: a nonempty set
of natural numbers has a least element (`LeastNat`, from the well-foundedness of < in
`WellFoundedInduction`), which gives an upper bound for every list (`ListBounded`) and the maximum
(`PeakIsHighest`). That the advice agrees with the peak goes through the counts: the class of the
peak is counted at least once (`CountPositive`), and no higher one is (`AdviceFollowsPeak`). For
`FootersLag`, `PagesInv` relates the number of pages to the step of the generator, to the number of
badges drawn and to the pages of the table.

Only model-checked: the liveness properties `SourceIsShown`, `EveryClientCatchesUp`, `RgbFollows`,
`EveryTileReported`, `VideoArrives`, `RtspFeedResumes` and `FramesReachViewers`, because
fairness and ENABLED are out of the prover's reach; and the two properties of section 5, which are
false.

## 5. Disagreements between code and documentation

Shown by a run:

* `video_feeds_swap`: `frontend/App.jsx:73` says "Account for feed swap", but the refs follow
  the swap already (line 147), so exchanging them once more stores each picture as the other.
* `mavlink_serial`: `mavlinkParser.js:12` offers "serial → direct USB/UART connection", but
  `openSerial` registers no message handler, so nothing that the drone sends is shown.

Seen while modelling, described by the actions named here and not the subject of a run:

* `drone_bridge.py:16`: `wait_heartbeat` reports its timeout by a result that is not looked
  at; the bridge announces SUCCESS without a drone (`WaitHeartbeat`).
* `VideoPanel.jsx:280` adds a cache buster "to ensure it loads fresh if toggled"; a stream that
  breaks is not asked for again until the panel is mounted anew, swapped or given another
  palette.
* `TelemetrySidebar.jsx:114` clears the list and leaves the selection: a capture that is taken
  later and gets the selected number opens the modal by itself (`HandleReset`, `Shown`).
* `App.jsx:140`: nothing catches a rejected import, so a failed CSV export shows no toast
  (`CsvModuleFails`), unlike a failed PDF (`HandleGeneratePDF`).
* `CaptureBrowserModal.jsx:17` trims the search text to see whether it is blank, but searches
  with the text untrimmed: "CAP-001 " finds nothing (`Matches`).
* `mavlinkParser.js:207` says 22.8 V is about 100 %, line 209 computes 61 % (`Percent`).
* `OfflineMap.jsx:73`: the store's default position is non-zero and passes for a GPS fix
  before any telemetry (`MapCenter`, `Init` of FlightMap).
* `OfflineMap.jsx:147` says "Centering on Test Field" when the fix is lost, and line 87 says so
  too, but with the map open the view stays where it is: `MapAutoCenter` is given null, and
  `MapContainer` reads its centre once (`Recentre`, `ViewFollowsDrone`).
* `OfflineMap.jsx:42`: a stored tile whose read is refused is asked for at its live URL
  (`LookupFails`).
* `VideoPanel.jsx:385` says "Reset pan if zoomed out", but a drag that outlives zooming out
  shifts the image afterwards (`HandleMouseMove` looks at `dragging` only), and the effect does
  not run again at zoom 1 (`ZoomedOutIsCentred` names the case).
* `VideoPanel.jsx:366`: any button starts a drag, so one whose release goes to the context menu,
  or to the popup of the select at line 431, goes on with the button up until the pointer leaves
  or another release comes (`ReleaseSwallowed`).
* `useTIOSStore.js:86` makes ids of milliseconds and `ToastContainer.jsx:17` keys of ids: of two
  toasts with one id the second goes when the first does, and after a removal in front of them
  one may stay on the screen for good (`WithoutToasts`, `Strands`).
* `pdfGenerator.js:708` says "Page 2 is Severity Summary", which a long table prevents
  (`TablePages`). Line 705 says "Page 1 of n + 1" for n captures, where line 673 says "of n + 2"
  and the document has that many pages, or more with the table's (`FootersLag`).
* `pdfGenerator.js:296` rounds the peak and line 598 does not: 85.04 degrees are printed as 85.0
  beside IMMEDIATE ATTENTION (`ToFixed1`, `CoverIsTrue`).
* The report's own legend (`pdfGenerator.js:630`, `656`) starts CRITICAL at 85 degrees and its
  badges follow it; the pins on its cover (line 90), the CSV (`csvExport.js:20`) and the browser's
  rows start at 70, and likewise below: captures between 35 and 45, 50 and 65, 70 and 85 degrees
  are one class worse there (`SeveritiesRelate`).
* `tf_detector_updated.py:90` swallows every error of `sendto`: the frame is then shown without
  its detections having been sent (`Announce`).
* `streamRelay.js:56`: a missing FFmpeg ends the backend, telemetry included (`SpawnError`).
* `tf_detector.py:78`: with two feeds open one may draw the other's boxes or boxes of no frame,
  or fail, because nothing serialises the calls of the network (`LeaveForward`, `PassRaises`,
  `PassCrashes`).

## 6. Not modelled

* The palettes' colours, drawing, simulated canvases (`DEMO_MODE` is false), page layout, wording, logs.
* The numbers of the detections, the neural networks, codecs.
* The search text of the browser as characters: what a text is found in is a parameter.
* A panel's MJPEG request: the model's streams deliver frames or not (`DrawFrame`), and the
  code has no reaction to a failure that could be modelled.
* `removeCapture` and the mission setters of the store, which nothing calls; the toasts of a
  save or an export without captures, whose buttons are disabled then.
* The patch, download and test scripts, and the TensorFlow sources.

## 7. Plan

Done, in this order: FlightMap, TelemetryLink, StreamRelay, VideoFeeds, CaptureDeck, Detector,
SharedCamera, MavlinkParser, Report, TileCache, PanelView, VideoPanels, the proofs of
FlightMap and StreamRelay; then LiveView and the refinement, Toasts composed with CaptureDeck,
CaptureBrowser, and DetectionServers; then the proofs of TelemetryLink with its refinement,
VideoPanels, DetectionServers, CaptureDeck and CaptureBrowser, TileCache, MavlinkParser and
Report.

What the model leaves out of the program's own logic is listed in section 6. A composition of
`VideoFeeds` with `CaptureDeck` would add nothing that either can observe: the first says
which pixels `handleCapture` takes, the second everything else that it does.

Next:

1. DetectionServers: the conditions under which the two feeds of `tf_detector.py` never overlap.
2. LiveView: that its own specification never shows a packet twice with another one between,
   within one life, so that the refinement carries it over to `TelemetryLink`.
