---------------------------- MODULE SharedCamera ----------------------------
(***************************************************************************)
(* The Camera class of tf_detector_updated.py and tf_detector_yolo.py: one  *)
(* capture thread reads, detects, sends the detections over UDP and         *)
(* publishes the JPEG under a lock; every open feed polls it in a request   *)
(* thread of its own (gen_frames).  A frame is the number of its read.      *)
(***************************************************************************)
EXTENDS Integers

CONSTANTS
    Viewers,        \* request threads: both routes serve the same camera
    MaxFrames       \* bound: frames read

VARIABLES
    pc,         \* where the capture thread is in _capture_loop
    reading,    \* the frame it holds
    announced,  \* frame_count, the "count" of the detections last sent
    sent,       \* history: the counts that sendto took
    unsent,     \* history: the counts whose sendto raised
    published,  \* self.frame, 0 for None
    lock,       \* its holder, "free" if there is none
    vpc,        \* where each viewer is in gen_frames
    copy,       \* what get_frame returned to it
    shown       \* history: the last frame yielded to it, 0 for none

sendVars == <<announced, sent, unsent>>
camVars == <<pc, reading, sendVars, published>>
viewVars == <<vpc, copy, shown>>
vars == <<camVars, lock, viewVars>>

Init ==
    /\ pc = "read" /\ reading = 0 /\ announced = 0 /\ published = 0
    /\ sent = {} /\ unsent = {}
    /\ lock = "free"
    /\ vpc = [v \in Viewers |-> "poll"]
    /\ copy = [v \in Viewers |-> 0]
    /\ shown = [v \in Viewers |-> 0]

----------------------------------------------------------------------------
(* cap.read(); when it fails the loop sleeps and tries again, and self.frame *)
(* stays what it was                                                        *)
Read ==
    /\ pc = "read"
    /\ reading < MaxFrames
    /\ reading' = reading + 1
    /\ pc' = "detect"
    /\ UNCHANGED <<sendVars, published, lock, viewVars>>

(* mutant: the detections are sent after the frame is published *)
AfterDetectLate == "encode"

(* detection, then the UDP broadcast, before the frame is encoded *)
AfterDetect == "announce"

Detect ==
    /\ pc = "detect"
    /\ pc' = AfterDetect
    /\ UNCHANGED <<reading, sendVars, published, lock, viewVars>>

(* frame_count += 1 and sendto; an error of sendto is swallowed, and the    *)
(* frame goes on without its detections                                     *)
Announce(ok) ==
    /\ pc = "announce"
    /\ announced' = announced + 1
    /\ sent' = IF ok THEN sent \cup {announced + 1} ELSE sent
    /\ unsent' = IF ok THEN unsent ELSE unsent \cup {announced + 1}
    /\ pc' = "encode"
    /\ UNCHANGED <<reading, published, lock, viewVars>>

(* cv2.imencode; on failure nothing is published *)
Encode(ok) ==
    /\ pc = "encode"
    /\ pc' = IF ok THEN "acquire" ELSE "read"
    /\ UNCHANGED <<reading, sendVars, published, lock, viewVars>>

Acquire ==
    /\ pc = "acquire"
    /\ lock = "free"
    /\ lock' = "camera"
    /\ pc' = "publish"
    /\ UNCHANGED <<reading, sendVars, published, viewVars>>

(* mutant: the with block is left without releasing the lock *)
LockAfterPublishHeld == "camera"

(* leaving the with block *)
LockAfterPublish == "free"

(* self.frame = buffer.tobytes(), and the end of the with block *)
Publish ==
    /\ pc = "publish"
    /\ published' = reading
    /\ lock' = LockAfterPublish
    /\ pc' = "read"
    /\ UNCHANGED <<reading, sendVars, viewVars>>

----------------------------------------------------------------------------
ViewerAcquire(v) ==
    /\ vpc[v] = "poll"
    /\ lock = "free"
    /\ lock' = v
    /\ vpc' = [vpc EXCEPT ![v] = "copy"]
    /\ UNCHANGED <<camVars, copy, shown>>

(* get_frame *)
GetFrame(v) ==
    /\ vpc[v] = "copy"
    /\ copy' = [copy EXCEPT ![v] = published]
    /\ lock' = "free"
    /\ vpc' = [vpc EXCEPT ![v] = "yield"]
    /\ UNCHANGED <<camVars, shown>>

(* None is told apart from a frame *)
Yields(v) == copy[v] # 0

(* gen_frames: yield the frame unless there is none yet, then sleep *)
GenFrames(v) ==
    /\ vpc[v] = "yield"
    /\ shown' = IF Yields(v) THEN [shown EXCEPT ![v] = copy[v]] ELSE shown
    /\ vpc' = [vpc EXCEPT ![v] = "poll"]
    /\ UNCHANGED <<camVars, lock, copy>>

Next ==
    \/ Read \/ Detect \/ Acquire \/ Publish
    \/ \E ok \in BOOLEAN : Announce(ok) \/ Encode(ok)
    \/ \E v \in Viewers : ViewerAcquire(v) \/ GetFrame(v) \/ GenFrames(v)

(* Threads run; the sleeps outside the lock let every waiting thread have   *)
(* it again and again.  Nothing obliges the camera to deliver.              *)
Fairness ==
    /\ WF_vars(Detect) /\ WF_vars(Publish) /\ SF_vars(Acquire)
    /\ WF_vars(\E ok \in BOOLEAN : Announce(ok)) /\ WF_vars(\E ok \in BOOLEAN : Encode(ok))
    /\ \A v \in Viewers :
          SF_vars(ViewerAcquire(v)) /\ WF_vars(GetFrame(v)) /\ WF_vars(GenFrames(v))

Spec == Init /\ [][Next]_vars /\ Fairness

----------------------------------------------------------------------------
(* Every variable keeps its type. *)
TypeOK ==
    /\ pc \in {"read", "detect", "announce", "encode", "acquire", "publish"}
    /\ reading \in Nat /\ announced \in Nat /\ published \in Nat
    /\ sent \in SUBSET Nat /\ unsent \in SUBSET Nat
    /\ lock \in Viewers \cup {"free", "camera"}
    /\ (lock = "camera") = (pc = "publish")
    /\ vpc \in [Viewers -> {"poll", "copy", "yield"}]
    /\ copy \in [Viewers -> Nat]
    /\ shown \in [Viewers -> Nat]

(* A frame never overtakes its detections: when a viewer is shown frame n,  *)
(* the detections with count n have been handed to the network, whatever    *)
(* was encoded, dropped and polled in between; a frame is shown without     *)
(* detections only if the very sendto that was to carry them raised.        *)
DetectionsFirst ==
    \A v \in Viewers : shown[v] # 0 => shown[v] \in sent \/ shown[v] \in unsent

(* Every published frame, or a newer one, reaches every viewer. *)
FramesReachViewers ==
    \A v \in Viewers : \A n \in 1 .. MaxFrames : published = n ~> shown[v] >= n

=============================================================================
