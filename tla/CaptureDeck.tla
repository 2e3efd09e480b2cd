---------------------------- MODULE CaptureDeck ----------------------------
(***************************************************************************)
(* The capture list and what is made of it: handleCapture and the save and  *)
(* export handlers of App.jsx, buildCaptureUnit and the image downloads of  *)
(* captureEngine.js, the sidebar's reset, the capture modal.                *)
(*                                                                         *)
(* A telemetry message is its number.  A capture carries, as history, a     *)
(* serial number that is never used twice and the telemetry the store held  *)
(* when the button was pressed; which pixels it holds is the subject of     *)
(* VideoFeeds.  The browser runs one handler at a time and renders before   *)
(* the next one.                                                            *)
(***************************************************************************)
EXTENDS Toasts

CONSTANTS
    MaxTelemetry,   \* bound: telemetry messages
    MaxCaptures,    \* bound: captures in the session, cleared ones included
    MaxSaves,       \* bound: presses of a save button
    MaxExports      \* bound: presses of an export button

ASSUME CaptureBounds ==
    /\ MaxTelemetry \in Nat /\ MaxCaptures \in Nat
    /\ MaxSaves \in Nat /\ MaxExports \in Nat

NoSelection == 0

VARIABLES
    activeTab,  \* the store's activeTab
    telemetry,  \* number of the store's telemetry message
    closure,    \* what the memoised handleCapture sees
    captures,   \* the store's captures
    serial,     \* captures taken so far
    selected,   \* the store's selectedCapture (an id), NoSelection for null
    chosen,     \* history: the serial the operator chose, 0 once cleared
    thermalFiles, rgbFiles,     \* serials of the downloaded images, in order
    rgbTimers,  \* captures whose RGB download is still due
    csvJobs,    \* captures lists whose CSV module is still loading
    exports     \* the rows of each report written

captureVars == <<captures, serial, selected, chosen>>
fileVars == <<thermalFiles, rgbFiles, rgbTimers, csvJobs, exports>>
vars == <<activeTab, telemetry, closure, captureVars, fileVars, toastVars>>

----------------------------------------------------------------------------
(* mutant: captures.length is missing from useCallback's dependencies *)
MemoNoCount(old, new) ==
    IF old.telemetry = new.telemetry THEN old ELSE new

(* useCallback of handleCapture: its dependencies list both values          *)
Memo(old, new) == IF old = new THEN old ELSE new

(* the render that follows every store change *)
Render ==
    closure' = Memo(closure, [telemetry |-> telemetry', count |-> Len(captures')])

Init ==
    /\ activeTab = "dashboard"
    /\ telemetry = 0
    /\ closure = [telemetry |-> 0, count |-> 0]
    /\ captures = <<>>
    /\ serial = 0
    /\ selected = NoSelection
    /\ chosen = 0
    /\ thermalFiles = <<>> /\ rgbFiles = <<>> /\ rgbTimers = <<>>
    /\ csvJobs = <<>> /\ exports = <<>>
    /\ ToastInit

----------------------------------------------------------------------------
(* The video panels, hence the canvases, exist on the dashboard only.       *)
SetActiveTab(tab) ==
    /\ tab # activeTab
    /\ activeTab' = tab
    /\ UNCHANGED <<telemetry, closure, captureVars, fileVars, toastVars>>

(* useSocket's telemetry event *)
UpdateTelemetry ==
    /\ telemetry < MaxTelemetry
    /\ telemetry' = telemetry + 1
    /\ UNCHANGED <<activeTab, captureVars, fileVars, toastVars>>
    /\ Render

(* useSocket's connect and disconnect events; the flag that they set is the *)
(* subject of TelemetryLink                                                 *)
SocketToast ==
    /\ AddToast
    /\ UNCHANGED <<activeTab, telemetry, closure, captureVars, fileVars>>

ToastTimeout ==
    /\ ToastTimer
    /\ UNCHANGED <<activeTab, telemetry, closure, captureVars, fileVars>>

----------------------------------------------------------------------------
(* Captures *)

(* index: captures.length + 1 *)
Index == closure.count + 1

(* mutant: buildCaptureUnit leaves the telemetry out *)
CaptureUnitBare == [id |-> Index, serial |-> serial + 1, pressedAt |-> telemetry]

(* buildCaptureUnit *)
CaptureUnit ==
    [id |-> Index, telemetry |-> closure.telemetry,
     serial |-> serial + 1, pressedAt |-> telemetry]

(* handleCapture with the canvases there *)
HandleCapture ==
    /\ activeTab = "dashboard"
    /\ serial < MaxCaptures
    /\ captures' = Append(captures, CaptureUnit)
    /\ serial' = serial + 1
    /\ AddToast
    /\ UNCHANGED <<activeTab, telemetry, selected, chosen, fileVars>>
    /\ Render

(* handleCapture on the map tab: captureFrame finds no canvas *)
CaptureNotReady ==
    /\ activeTab # "dashboard"
    /\ AddToast
    /\ UNCHANGED <<activeTab, telemetry, closure, captureVars, fileVars>>

(* handleReset of the sidebar, clearCaptures: the selection is left as it is *)
HandleReset ==
    /\ captures # <<>>
    /\ captures' = <<>>
    /\ chosen' = 0
    /\ AddToast
    /\ UNCHANGED <<activeTab, telemetry, serial, selected, fileVars>>
    /\ Render

(* CaptureModal: captures.find((c) => c.id === captureId), nothing if none  *)
Shown ==
    LET matches == {i \in DOMAIN captures : captures[i].id = selected}
    IN  IF matches = {} THEN <<>>
        ELSE <<captures[CHOOSE i \in matches : \A j \in matches : i <= j]>>

(* A row of the sidebar is clicked; a modal on the screen covers it. *)
SetSelectedCapture(i) ==
    /\ Shown = <<>>
    /\ selected' = captures[i].id
    /\ chosen' = captures[i].serial
    /\ UNCHANGED <<activeTab, telemetry, closure, captures, serial, fileVars,
                   toastVars>>

(* A selection that finds no capture shows nothing that could be closed. *)
CloseModal ==
    /\ Shown # <<>>
    /\ selected' = NoSelection
    /\ chosen' = 0
    /\ UNCHANGED <<activeTab, telemetry, closure, captures, serial, fileVars,
                   toastVars>>

----------------------------------------------------------------------------
(* Files.  The top bar disables their buttons while there are no captures.  *)

(* saveAllImagesLocally: the thermal image now, the RGB image in 300 ms     *)
SaveAllImagesLocally(cap) ==
    /\ Len(thermalFiles) < MaxSaves
    /\ thermalFiles' = Append(thermalFiles, cap.serial)
    /\ rgbTimers' = Append(rgbTimers, cap)
    /\ UNCHANGED <<activeTab, telemetry, closure, captureVars, rgbFiles, csvJobs,
                   exports>>

(* handleSaveImages of App: the latest capture *)
HandleSaveImages ==
    /\ captures # <<>>
    /\ SaveAllImagesLocally(captures[Len(captures)])
    /\ AddToast

(* the modal's button: the capture it shows *)
ModalSaveImages ==
    /\ Shown # <<>>
    /\ SaveAllImagesLocally(Shown[1])
    /\ UNCHANGED toastVars

(* mutant: the timer looks the latest capture up when it fires *)
TimerFileLatest(cap) ==
    IF captures = <<>> THEN cap.serial ELSE captures[Len(captures)].serial

(* the timer's closure holds the capture itself *)
TimerFile(cap) == cap.serial

(* mutant: a new press cancels the timers that are still pending *)
TimersLeftNone == <<>>

TimersLeft == Tail(rgbTimers)

RgbTimer ==
    /\ rgbTimers # <<>>
    /\ rgbFiles' = Append(rgbFiles, TimerFile(Head(rgbTimers)))
    /\ rgbTimers' = TimersLeft
    /\ UNCHANGED <<activeTab, telemetry, closure, captureVars, thermalFiles,
                   csvJobs, exports, toastVars>>

(* handleExportCSV: the module is imported first *)
HandleExportCSV ==
    /\ captures # <<>>
    /\ Len(csvJobs) + Len(exports) < MaxExports
    /\ csvJobs' = Append(csvJobs, captures)
    /\ UNCHANGED <<activeTab, telemetry, closure, captureVars, thermalFiles,
                   rgbFiles, rgbTimers, exports, toastVars>>

(* the captures list of the render in which the button was pressed *)
CsvModuleLoaded ==
    /\ csvJobs # <<>>
    /\ exports' = Append(exports, Head(csvJobs))
    /\ csvJobs' = Tail(csvJobs)
    /\ AddToast
    /\ UNCHANGED <<activeTab, telemetry, closure, captureVars, thermalFiles,
                   rgbFiles, rgbTimers>>

(* the import rejects, as when the page's server is gone: nobody is told *)
CsvModuleFails ==
    /\ csvJobs # <<>>
    /\ csvJobs' = Tail(csvJobs)
    /\ UNCHANGED <<activeTab, telemetry, closure, captureVars, thermalFiles,
                   rgbFiles, rgbTimers, exports, toastVars>>

(* handleGeneratePDF: generateInspectionReport runs to its end, or throws,  *)
(* within the handler; one toast before it and one after.                   *)
HandleGeneratePDF(ok) ==
    /\ captures # <<>>
    /\ Len(csvJobs) + Len(exports) < MaxExports
    /\ exports' = IF ok THEN Append(exports, captures) ELSE exports
    /\ AddTwoToasts
    /\ UNCHANGED <<activeTab, telemetry, closure, captureVars, thermalFiles,
                   rgbFiles, rgbTimers, csvJobs>>

----------------------------------------------------------------------------
Next ==
    \/ \E tab \in {"dashboard", "map"} : SetActiveTab(tab)
    \/ UpdateTelemetry
    \/ SocketToast
    \/ ToastTimeout
    \/ HandleCapture
    \/ CaptureNotReady
    \/ HandleReset
    \/ \E i \in DOMAIN captures : SetSelectedCapture(i)
    \/ CloseModal
    \/ HandleSaveImages
    \/ ModalSaveImages
    \/ RgbTimer
    \/ HandleExportCSV
    \/ CsvModuleLoaded
    \/ CsvModuleFails
    \/ \E ok \in BOOLEAN : HandleGeneratePDF(ok)

(* Timers fire and imports resolve; nothing obliges the operator to act.    *)
Fairness ==
    /\ WF_vars(RgbTimer) /\ WF_vars(ToastTimeout)
    /\ WF_vars(CsvModuleLoaded \/ CsvModuleFails)

Spec == Init /\ [][Next]_vars /\ Fairness

----------------------------------------------------------------------------
Capture == [id : Nat, telemetry : Nat, serial : Nat, pressedAt : Nat]

(* Every variable keeps its type. *)
TypeOK ==
    /\ activeTab \in {"dashboard", "map"}
    /\ telemetry \in Nat
    /\ closure \in [telemetry : Nat, count : Nat]
    /\ captures \in Seq(Capture)
    /\ serial \in Nat /\ selected \in Nat /\ chosen \in Nat
    /\ thermalFiles \in Seq(Nat) /\ rgbFiles \in Seq(Nat)
    /\ rgbTimers \in Seq(Capture)
    /\ csvJobs \in Seq(Seq(Capture))
    /\ exports \in Seq(Seq(Capture))
    /\ toasts \subseteq [place : Int, id : Int] /\ toastTimers \in Seq(Int)
    /\ stranded \in BOOLEAN /\ repeats \in Nat

(* The lists there are: on the screen, awaiting the CSV module, exported *)
Lists == {captures} \cup Range(csvJobs) \cup Range(exports)

(* Every list, also one that was cleared while its export was under way,    *)
(* numbers its captures from CAP-001 on without gaps or repetitions (find   *)
(* by id, React keys and file names rely on it), and every capture has the  *)
(* telemetry of the moment of its press (buildCaptureUnit's "frozen at the  *)
(* exact millisecond of the button press"), although handleCapture takes    *)
(* both from a memoised closure.  No report is empty.                       *)
CapturesAreTrue ==
    /\ \A list \in Lists : \A i \in DOMAIN list :
          list[i].id = i /\ list[i].telemetry = list[i].pressedAt
    /\ <<>> \notin Range(exports)

(* The modal shows the capture that was chosen, whatever is captured in the *)
(* meantime, as long as the list is not cleared.                            *)
ModalShowsChosen ==
    chosen # 0 => Shown # <<>> /\ Shown[1].serial = chosen

(* The n-th RGB file and the n-th thermal file come from the same capture,  *)
(* even if the list is cleared or grows during the 300 ms between them.     *)
FilesPairUp ==
    /\ Len(rgbFiles) <= Len(thermalFiles)
    /\ \A n \in DOMAIN rgbFiles : rgbFiles[n] = thermalFiles[n]

(* Every toast in the store's list has its own timer pending, behind those  *)
(* of the toasts before it, although ids repeat within a millisecond and    *)
(* after the clock was set back: none stays in the list for good.  As long  *)
(* as no toast was given the id of a pending timer, every toast stays until *)
(* its own timer fires, no timer removes another's, and the screen shows    *)
(* the list.  Only a repeated id, which ToastContainer uses as a key, can   *)
(* take a toast away early, or leave one on the screen that no timer        *)
(* removes.                                                                 *)
ToastsHaveTimers ==
    /\ \A t \in toasts : t.place \in DOMAIN toastTimers /\ toastTimers[t.place] = t.id
    /\ repeats = 0 =>
          /\ toasts = {Toast(n, toastTimers[n]) : n \in DOMAIN toastTimers}
          /\ ~ stranded

(* Every thermal image is followed by its RGB image. *)
RgbFollows ==
    \A n \in 1 .. MaxSaves : Len(thermalFiles) >= n ~> Len(rgbFiles) >= n

=============================================================================
