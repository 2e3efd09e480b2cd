-------------------------- MODULE DetectionServers --------------------------
(***************************************************************************)
(* The program behind port 5000, from which the video panels take their     *)
(* pictures: the operator starts one of tf_detector.py, which detects in    *)
(* every request thread (Detector), and tf_detector_updated.py or           *)
(* tf_detector_yolo.py, which share one camera thread (SharedCamera).       *)
(* Only the one that was started runs.                                      *)
(***************************************************************************)
EXTENDS Detector

CONSTANTS
    Viewers,            \* request threads of the shared camera
    MaxCameraFrames     \* bound: frames that it reads

(* The lock tells the camera, a viewer and nobody apart. *)
ASSUME CameraAssumption ==
    MaxCameraFrames \in Nat /\ "camera" \notin Viewers /\ "free" \notin Viewers

VARIABLES
    program,    \* the program started
    loop,       \* pc of the shared camera's capture thread
    reading, announced, sent, unsent, published, lock, vpc, copy, shown

Camera == INSTANCE SharedCamera
    WITH pc <- loop, MaxFrames <- MaxCameraFrames

cameraVars == <<loop, reading, announced, sent, unsent, published, lock, vpc, copy, shown>>
allVars == <<program, vars, cameraVars>>

(* The program that was not started has no threads: nothing of it is        *)
(* enabled.                                                                 *)
ServersInit ==
    \/ /\ program = "tf_detector"
       /\ Init
       /\ loop = "off" /\ reading = 0 /\ announced = 0 /\ published = 0
       /\ sent = {} /\ unsent = {}
       /\ lock = "free"
       /\ vpc = [v \in Viewers |-> "off"]
       /\ copy = [v \in Viewers |-> 0] /\ shown = [v \in Viewers |-> 0]
    \/ /\ program = "shared camera"
       /\ Camera!Init
       /\ pc = [t \in Threads |-> "off"]
       /\ frame = [t \in Threads |-> 0] /\ delivers = [t \in Threads |-> FALSE]
       /\ input = NoFrame
       /\ inside = [t \in Threads |-> {}] /\ detections = [t \in Threads |-> NoFrame]
       /\ overlapped = [t \in Threads |-> FALSE] /\ broken = FALSE
       /\ output = [t \in Threads |-> <<>>]
       /\ outages = 0

RunDetector == program = "tf_detector" /\ Next /\ UNCHANGED <<program, cameraVars>>

RunCamera == program = "shared camera" /\ Camera!Next /\ UNCHANGED <<program, vars>>

ServersNext == RunDetector \/ RunCamera

ServersSpec ==
    ServersInit /\ [][ServersNext]_allVars /\ Fairness /\ Camera!Fairness

----------------------------------------------------------------------------
(* The variables of the program that runs keep their types; its lock is the *)
(* camera's exactly while it publishes, and a webcam alone may end unless a *)
(* disturbed pass of the network has failed.                                *)
ServersTypeOK == IF program = "tf_detector" THEN TypeOK ELSE Camera!TypeOK

(* A frame never overtakes its detections, whatever is encoded, dropped and *)
(* polled in between: _capture_loop tries to send them before it publishes, *)
(* and a frame shown without them is one whose own sendto raised.           *)
DetectionsFirst == Camera!DetectionsFirst

(* Every frame that the shared camera publishes, or a newer one, reaches    *)
(* every viewer, although all compete for one lock.                         *)
FramesReachViewers == Camera!FramesReachViewers

=============================================================================
