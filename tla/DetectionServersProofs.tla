----------------------- MODULE DetectionServersProofs -----------------------
(***************************************************************************)
(* Proofs about DetectionServers, for any number of feeds, viewers and      *)
(* frames: that a feed which nobody disturbs in the unlocked network gets   *)
(* the boxes of its own frame, and that the shared camera never shows a     *)
(* frame before it has tried to send its detections.                        *)
(***************************************************************************)
EXTENDS DetectionServers, TLAPS

Own(t) == <<t, frame[t]>>

(* A pass is under way exactly while a thread is in forward. *)
PassUnderWay == \A t \in Threads : (inside[t] = {}) = (pc[t] # "infer")

(* A thread that has had the network to itself since its setInput finds     *)
(* only its own frame there.                                                *)
Undisturbed ==
    \A t \in Threads : ~ overlapped[t] =>
        /\ pc[t] = "forward" => input = Own(t)
        /\ pc[t] = "infer" => inside[t] = {Own(t)}
        /\ pc[t] = "yield" => detections[t] = Own(t)

DetectorInv == TypeOK /\ PassUnderWay /\ Undisturbed

DetectorOff == \A t \in Threads : pc[t] = "off"

(* The lock is held by the viewer that copies, the sending of every count   *)
(* up to the last was tried, and every frame number that is published,      *)
(* copied or shown is at most the last count.                               *)
CameraInv ==
    /\ Camera!TypeOK
    /\ \A v \in Viewers : vpc[v] = "copy" => lock = v
    /\ reading = announced + (IF loop \in {"detect", "announce"} THEN 1 ELSE 0)
    /\ \A n \in 1 .. announced : n \in sent \/ n \in unsent
    /\ published <= announced
    /\ \A v \in Viewers : copy[v] <= announced /\ shown[v] <= announced

CameraOff == \A v \in Viewers : shown[v] = 0

IInv ==
    \/ program = "tf_detector" /\ DetectorInv /\ CameraOff
    \/ program = "shared camera" /\ CameraInv /\ DetectorOff

----------------------------------------------------------------------------
(* The detector that runs in every request thread *)

LEMMA DetectorTypeStep ==
    ASSUME DetectorInv, Next
    PROVE  TypeOK'
  <1> USE DetectorBounds
  <1>0. TypeOK
    BY DEF DetectorInv
  <1>1. PICK t \in Threads :
          \/ Read(t) \/ ReadFails(t) \/ Reopen(t)
          \/ SetInput(t) \/ EnterForward(t) \/ LeaveForward(t)
          \/ PassRaises(t) \/ PassCrashes(t)
          \/ Yield(t) \/ EncodeFails(t)
          \/ SourceStops(t) \/ SourceReturns(t)
    BY DEF Next
  <1>2. <<t, frame[t]>> \in Frames
    BY <1>0 DEF TypeOK, Frames
  <1> USE DEF netVars, Goto
  <1>3. CASE Read(t)
    BY <1>0, <1>3 DEF TypeOK, Read, AfterRead
  <1>4. CASE ReadFails(t)
    BY <1>0, <1>4 DEF TypeOK, ReadFails, AfterFailedRead
  <1>5. CASE Reopen(t)
    BY <1>0, <1>5 DEF TypeOK, Reopen
  <1>6. CASE SetInput(t)
    <2>1. /\ input' \in Frames
          /\ inside' \in [Threads -> SUBSET Frames]
          /\ overlapped' \in [Threads -> BOOLEAN]
      <3>1. overlapped' \in [Threads -> BOOLEAN]
        BY <1>0, <1>6, Zenon DEF TypeOK, SetInput
      <3> QED BY <1>0, <1>2, <1>6, <3>1 DEF TypeOK, SetInput
    <2> QED BY <1>0, <1>6, <2>1 DEF TypeOK, SetInput
  <1>7. CASE EnterForward(t)
    <2> DEFINE all == UNION {inside[v] : v \in Threads}
    <2>1. all \in SUBSET Frames
      BY <1>0 DEF TypeOK
    <2>2. inside' \in [Threads -> SUBSET Frames]
      <3>1. inside' = [u \in Threads |->
                         IF u = t THEN {input} \cup all
                         ELSE IF inside[u] = {} THEN {} ELSE inside[u] \cup {input}]
        BY <1>7 DEF EnterForward
      <3> HIDE DEF all
      <3> QED BY <1>0, <2>1, <3>1 DEF TypeOK
    <2>3. overlapped' \in [Threads -> BOOLEAN]
      BY <1>0, <1>7, Zenon DEF TypeOK, EnterForward
    <2> QED BY <1>0, <1>7, <2>2, <2>3 DEF TypeOK, EnterForward
  <1>8. CASE LeaveForward(t)
    BY <1>0, <1>8 DEF TypeOK, LeaveForward
  <1>9. CASE Yield(t)
    <2>1. <<<<t, frame[t]>>, detections[t]>> \in Frames \X (Frames \cup {Torn})
      BY <1>0, <1>2 DEF TypeOK
    <2>2. output' \in [Threads -> {<<>>} \cup (Frames \X (Frames \cup {Torn}))]
      BY <1>0, <1>9, <2>1 DEF TypeOK, Yield
    <2> QED BY <1>0, <1>9, <2>2 DEF TypeOK, Yield
  <1>10. CASE EncodeFails(t)
    BY <1>0, <1>10 DEF TypeOK, EncodeFails
  <1>11. CASE SourceStops(t)
    BY <1>0, <1>11 DEF TypeOK, SourceStops
  <1>12. CASE SourceReturns(t)
    BY <1>0, <1>12 DEF TypeOK, SourceReturns
  <1>13. CASE PassRaises(t)
    BY <1>0, <1>13 DEF TypeOK, PassRaises
  <1>14. CASE PassCrashes(t)
    BY <1>0, <1>14 DEF TypeOK, PassCrashes
  <1> QED BY <1>1, <1>3, <1>4, <1>5, <1>6, <1>7, <1>8, <1>9, <1>10, <1>11, <1>12,
             <1>13, <1>14

LEMMA DetectorStep ==
    ASSUME DetectorInv, Next
    PROVE  DetectorInv'
  <1> USE DetectorBounds
  <1> DEFINE Goal == PassUnderWay' /\ Undisturbed'
  <1>0. TypeOK /\ PassUnderWay /\ Undisturbed
    BY DEF DetectorInv
  <1>1. PICK t \in Threads :
          \/ Read(t) \/ ReadFails(t) \/ Reopen(t)
          \/ SetInput(t) \/ EnterForward(t) \/ LeaveForward(t)
          \/ PassRaises(t) \/ PassCrashes(t)
          \/ Yield(t) \/ EncodeFails(t)
          \/ SourceStops(t) \/ SourceReturns(t)
    BY DEF Next
  <1>2. /\ pc \in [Threads -> {"read", "reopen", "ended", "setInput", "forward",
                               "infer", "yield"}]
        /\ frame \in [Threads -> Nat] /\ inside \in [Threads -> SUBSET Frames]
        /\ detections \in [Threads -> Frames \cup {Torn}]
        /\ overlapped \in [Threads -> BOOLEAN]
    BY <1>0 DEF TypeOK
  <1> USE DEF netVars, Goto
  <1>3. ASSUME UNCHANGED <<frame, netVars>>, pc' = pc PROVE Goal
    BY <1>0, <1>3 DEF PassUnderWay, Undisturbed, Own
  <1>4. ASSUME UNCHANGED netVars, pc[t] # "infer",
               \A u \in Threads : u # t => frame'[u] = frame[u],
               NEW where \in {"read", "reopen", "ended", "setInput"}, Goto(t, where)
        PROVE  Goal
    <2>1. /\ pc'[t] = where
          /\ where # "infer" /\ where # "yield" /\ where # "forward"
          /\ \A u \in Threads : u # t => pc'[u] = pc[u]
      BY <1>2, <1>4
    <2>2. PassUnderWay'
      BY <1>0, <1>4, <2>1 DEF PassUnderWay
    <2>3. Undisturbed'
      BY <1>0, <1>4, <2>1 DEF Undisturbed, Own
    <2> QED BY <2>2, <2>3
  <1>5. ASSUME Read(t) PROVE Goal
    BY <1>2, <1>4, <1>5 DEF Read, AfterRead
  <1>6. ASSUME SetInput(t) PROVE Goal
    <2>1. /\ pc[t] = "setInput" /\ pc'[t] = "forward" /\ input' = Own(t)
          /\ frame' = frame /\ detections' = detections
          /\ \A u \in Threads : u # t => pc'[u] = pc[u]
          /\ \A u \in Threads : inside'[u] = IF inside[u] = {} THEN {} ELSE inside[u] \cup {Own(t)}
      BY <1>2, <1>6 DEF SetInput, Own
    <2>2. \A u \in Threads : u # t =>
             overlapped'[u] = (overlapped[u] \/ pc[u] \in {"forward", "infer"})
      BY <1>6, Zenon DEF SetInput
    <2>3. \A u \in Threads : (inside'[u] = {}) = (inside[u] = {})
      BY <2>1
    <2>4. PassUnderWay'
      BY <1>0, <2>1, <2>3 DEF PassUnderWay
    <2>5. ASSUME NEW u \in Threads, ~ overlapped'[u]
          PROVE  /\ pc'[u] = "forward" => input' = Own(u)
                 /\ pc'[u] = "infer" => inside'[u] = {Own(u)}
                 /\ pc'[u] = "yield" => detections'[u] = Own(u)
      <3>1. CASE u = t
        BY <2>1, <3>1
      <3>2. CASE u # t
        <4>1. ~ overlapped[u] /\ pc[u] \notin {"forward", "infer"} /\ pc'[u] = pc[u]
          BY <1>2, <2>1, <2>2, <2>5, <3>2, Zenon
        <4> QED BY <1>0, <2>1, <4>1 DEF Undisturbed
      <3> QED BY <3>1, <3>2
    <2> QED BY <2>1, <2>4, <2>5 DEF Undisturbed, Own
  <1>7. ASSUME EnterForward(t) PROVE Goal
    <2> DEFINE all == UNION {inside[v] : v \in Threads}
    <2>1. /\ pc[t] = "forward" /\ pc'[t] = "infer" /\ input' = input
          /\ frame' = frame /\ detections' = detections
          /\ \A u \in Threads : u # t => pc'[u] = pc[u]
      BY <1>2, <1>7 DEF EnterForward
    <2>2. \A u \in Threads :
            inside'[u] = IF u = t THEN {input} \cup all
                         ELSE IF inside[u] = {} THEN {} ELSE inside[u] \cup {input}
      BY <1>7 DEF EnterForward
    <2>3. \A u \in Threads :
            overlapped'[u] = (\/ overlapped[u]
                              \/ u = t /\ \E v \in Threads \ {t} : pc[v] = "infer"
                              \/ u # t /\ pc[u] \in {"forward", "infer"})
      BY <1>7, Zenon DEF EnterForward
    <2>4. inside[t] = {}
      BY <1>0, <2>1 DEF PassUnderWay
    <2>5. ASSUME \A v \in Threads \ {t} : pc[v] # "infer" PROVE all = {}
      BY <1>0, <2>4, <2>5 DEF PassUnderWay
    <2> HIDE DEF all
    <2>6. PassUnderWay'
      <3>1. ASSUME NEW u \in Threads PROVE (inside'[u] = {}) = (pc'[u] # "infer")
        <4>1. CASE u = t
          BY <2>1, <2>2, <4>1
        <4>2. CASE u # t
          BY <1>0, <2>1, <2>2, <4>2 DEF PassUnderWay
        <4> QED BY <4>1, <4>2
      <3> QED BY <3>1 DEF PassUnderWay
    <2>7. ASSUME NEW u \in Threads, ~ overlapped'[u]
          PROVE  /\ pc'[u] = "forward" => input' = Own(u)
                 /\ pc'[u] = "infer" => inside'[u] = {Own(u)}
                 /\ pc'[u] = "yield" => detections'[u] = Own(u)
      <3>1. CASE u = t
        <4>1. ~ overlapped[t] /\ \A v \in Threads \ {t} : pc[v] # "infer"
          BY <2>3, <2>7, <3>1, Zenon
        <4>2. inside'[t] = {input} /\ input = Own(t)
          BY <1>0, <2>1, <2>2, <2>5, <4>1 DEF Undisturbed
        <4> QED BY <2>1, <3>1, <4>2
      <3>2. CASE u # t
        <4>1. ~ overlapped[u] /\ pc[u] \notin {"forward", "infer"} /\ pc'[u] = pc[u]
          BY <2>1, <2>3, <2>7, <3>2, Zenon
        <4> QED BY <1>0, <2>1, <4>1 DEF Undisturbed
      <3> QED BY <3>1, <3>2
    <2> QED BY <2>1, <2>6, <2>7 DEF Undisturbed, Own
  <1>8. ASSUME LeaveForward(t) PROVE Goal
    <2>1. PICK seen \in inside[t] \cup (IF overlapped[t] THEN {Torn} ELSE {}) :
            detections' = [detections EXCEPT ![t] = seen]
      BY <1>8 DEF LeaveForward
    <2>2. /\ pc[t] = "infer" /\ pc'[t] = "yield" /\ input' = input
          /\ frame' = frame /\ overlapped' = overlapped
          /\ inside'[t] = {} /\ detections'[t] = seen
          /\ \A u \in Threads : u # t => /\ pc'[u] = pc[u] /\ inside'[u] = inside[u]
                                        /\ detections'[u] = detections[u]
      BY <1>2, <1>8, <2>1 DEF LeaveForward
    <2>3. ~ overlapped[t] => seen = Own(t)
      BY <1>0, <2>1, <2>2 DEF Undisturbed
    <2>4. PassUnderWay'
      BY <1>0, <2>2 DEF PassUnderWay
    <2>5. Undisturbed'
      BY <1>0, <2>2, <2>3 DEF Undisturbed, Own
    <2> QED BY <2>4, <2>5
  <1>9. ASSUME PassRaises(t) PROVE Goal
    <2>1. /\ pc'[t] = "ended" /\ inside'[t] = {}
          /\ UNCHANGED <<frame, input, detections, overlapped>>
          /\ \A u \in Threads : u # t => pc'[u] = pc[u] /\ inside'[u] = inside[u]
      BY <1>2, <1>9 DEF PassRaises
    <2>2. PassUnderWay'
      BY <1>0, <2>1 DEF PassUnderWay
    <2>3. Undisturbed'
      BY <1>0, <2>1 DEF Undisturbed, Own
    <2> QED BY <2>2, <2>3
  <1>10. ASSUME PassCrashes(t) PROVE Goal
    <2>1. \A u \in Threads : pc'[u] = "ended" /\ inside'[u] = {}
      BY <1>10 DEF PassCrashes
    <2> QED BY <2>1 DEF PassUnderWay, Undisturbed
  <1>11. ASSUME ReadFails(t) PROVE Goal
    BY <1>4, <1>11 DEF ReadFails, AfterFailedRead
  <1>12. ASSUME Reopen(t) PROVE Goal
    BY <1>4, <1>12 DEF Reopen
  <1>13. ASSUME Yield(t) \/ EncodeFails(t) PROVE Goal
    BY <1>4, <1>13 DEF Yield, EncodeFails
  <1>14. ASSUME SourceStops(t) \/ SourceReturns(t) PROVE Goal
    BY <1>3, <1>14 DEF SourceStops, SourceReturns
  <1>15. Goal
    BY <1>1, <1>5, <1>6, <1>7, <1>8, <1>9, <1>10, <1>11, <1>12, <1>13, <1>14
  <1> QED BY <1>15, DetectorTypeStep DEF DetectorInv

----------------------------------------------------------------------------
(* The shared camera *)

LEMMA CameraStep ==
    ASSUME CameraInv, Camera!Next
    PROVE  CameraInv'
  <1> USE CameraAssumption
  <1> USE DEF CameraInv, Camera!TypeOK, Camera!sendVars, Camera!camVars, Camera!viewVars
  <1>1. CASE Camera!Read
    BY <1>1 DEF Camera!Read
  <1>2. CASE Camera!Detect
    BY <1>2 DEF Camera!Detect, Camera!AfterDetect
  <1>3. ASSUME NEW ok \in BOOLEAN, Camera!Announce(ok) PROVE CameraInv'
    <2>1. /\ announced \in Nat /\ announced' = announced + 1
          /\ sent \in SUBSET Nat /\ unsent \in SUBSET Nat
      BY <1>3 DEF Camera!Announce
    <2>2. /\ sent \subseteq sent' /\ unsent \subseteq unsent'
          /\ announced + 1 \in sent' \/ announced + 1 \in unsent'
          /\ sent' \in SUBSET Nat /\ unsent' \in SUBSET Nat
      BY <1>3, <2>1 DEF Camera!Announce
    <2>3. \A n \in 1 .. announced + 1 : n \in 1 .. announced \/ n = announced + 1
      BY <2>1
    <2>4. \A n \in 1 .. announced' : n \in sent' \/ n \in unsent'
      BY <2>1, <2>2, <2>3
    <2> QED BY <1>3, <2>1, <2>2, <2>4 DEF Camera!Announce
  <1>4. ASSUME NEW ok \in BOOLEAN, Camera!Encode(ok) PROVE CameraInv'
    BY <1>4 DEF Camera!Encode
  <1>5. CASE Camera!Acquire
    BY <1>5 DEF Camera!Acquire
  <1>6. CASE Camera!Publish
    BY <1>6 DEF Camera!Publish, Camera!LockAfterPublish
  <1>7. ASSUME NEW v \in Viewers, Camera!ViewerAcquire(v) PROVE CameraInv'
    BY <1>7 DEF Camera!ViewerAcquire
  <1>8. ASSUME NEW v \in Viewers, Camera!GetFrame(v) PROVE CameraInv'
    BY <1>8 DEF Camera!GetFrame
  <1>9. ASSUME NEW v \in Viewers, Camera!GenFrames(v) PROVE CameraInv'
    BY <1>9 DEF Camera!GenFrames, Camera!Yields
  <1> QED BY <1>1, <1>2, <1>3, <1>4, <1>5, <1>6, <1>7, <1>8, <1>9 DEF Camera!Next

----------------------------------------------------------------------------
(* The program that was started *)

LEMMA InitIInv == ServersInit => IInv
  <1> SUFFICES ASSUME ServersInit PROVE IInv
    OBVIOUS
  <1>1. CASE program = "tf_detector"
    <2>1. Init /\ CameraOff
      BY <1>1 DEF ServersInit, CameraOff
    <2>2. NoFrame \in Frames
      BY DEF Frames
    <2>3. TypeOK
      BY <2>1, <2>2, DetectorBounds DEF Init, TypeOK
    <2>4. PassUnderWay /\ Undisturbed
      BY <2>1 DEF Init, PassUnderWay, Undisturbed
    <2> QED BY <1>1, <2>1, <2>3, <2>4 DEF IInv, DetectorInv
  <1>2. CASE program = "shared camera"
    <2>1. Camera!Init /\ DetectorOff
      BY <1>2 DEF ServersInit, DetectorOff
    <2>2. CameraInv
      BY <2>1, CameraAssumption DEF Camera!Init, CameraInv, Camera!TypeOK
    <2> QED BY <1>2, <2>1, <2>2 DEF IInv
  <1> QED BY <1>1, <1>2 DEF ServersInit

LEMMA IInvStep == IInv /\ [ServersNext]_allVars => IInv'
  <1> SUFFICES ASSUME IInv, [ServersNext]_allVars PROVE IInv'
    OBVIOUS
  <1>1. CASE RunDetector
    <2>1. /\ program = "tf_detector" /\ program' = program /\ Next
          /\ shown' = shown
      BY <1>1 DEF RunDetector, cameraVars
    <2>2. DetectorInv /\ CameraOff
      BY <2>1 DEF IInv
    <2> QED BY <2>1, <2>2, DetectorStep DEF IInv, CameraOff
  <1>2. CASE RunCamera
    <2>1. /\ program = "shared camera" /\ program' = program /\ Camera!Next /\ pc' = pc
      BY <1>2 DEF RunCamera, vars
    <2>2. CameraInv /\ DetectorOff
      BY <2>1 DEF IInv
    <2> QED BY <2>1, <2>2, CameraStep DEF IInv, DetectorOff
  <1>3. CASE UNCHANGED allVars
    <2>1. UNCHANGED <<program, vars, cameraVars>>
      BY <1>3 DEF allVars
    <2>2. ASSUME DetectorInv PROVE DetectorInv'
      BY <2>1, <2>2 DEF DetectorInv, TypeOK, PassUnderWay, Undisturbed, Own, vars, netVars
    <2>3. ASSUME CameraInv PROVE CameraInv'
      BY <2>1, <2>3 DEF CameraInv, Camera!TypeOK, cameraVars
    <2>4. DetectorOff' = DetectorOff /\ CameraOff' = CameraOff
      BY <2>1 DEF DetectorOff, CameraOff, vars, cameraVars
    <2> QED BY <2>1, <2>2, <2>3, <2>4 DEF IInv
  <1> QED BY <1>1, <1>2, <1>3 DEF ServersNext

LEMMA Invariance == ServersSpec => []IInv
  BY InitIInv, IInvStep, PTL DEF ServersSpec

(* The variables of the program that runs keep their types: only a webcam's *)
(* stream ends unless a disturbed pass has failed, and Camera.lock is the   *)
(* capture thread's exactly while it assigns self.frame.                    *)
THEOREM TypeCorrect == ServersSpec => []ServersTypeOK
  <1>1. IInv => ServersTypeOK
    BY DEF IInv, DetectorInv, CameraInv, ServersTypeOK
  <1> QED BY <1>1, Invariance, PTL

(* With any number of feeds in the one network of tf_detector.py, a feed    *)
(* that no other thread disturbed between its setInput and the end of its   *)
(* forward draws the boxes of its own frame.                                *)
THEOREM UndisturbedBoxesAreOwn == ServersSpec => []BoxesOwnUnlessShared
  <1>1. IInv => BoxesOwnUnlessShared
    <2> SUFFICES ASSUME IInv, NEW t \in Threads, pc[t] = "yield", ~ overlapped[t]
                 PROVE  detections[t] = <<t, frame[t]>>
      BY DEF BoxesOwnUnlessShared
    <2>1. DetectorInv
      BY DEF IInv, DetectorOff
    <2> QED BY <2>1 DEF DetectorInv, Undisturbed, Own
  <1> QED BY <1>1, Invariance, PTL

(* _capture_loop tries to send the detections of a frame before any viewer  *)
(* is shown it, whichever frames fail to encode and however the viewers     *)
(* poll: a frame is shown without them only if its own sendto raised.       *)
THEOREM DetectionsAreFirst == ServersSpec => []DetectionsFirst
  <1>1. IInv => DetectionsFirst
    <2>1. CameraOff => DetectionsFirst
      BY Zenon DEF CameraOff, DetectionsFirst, Camera!DetectionsFirst
    <2>2. ASSUME CameraInv, NEW v \in Viewers, shown[v] # 0
          PROVE  shown[v] \in sent \/ shown[v] \in unsent
      <3>1. shown[v] \in Nat /\ announced \in Nat /\ shown[v] <= announced
        BY <2>2 DEF CameraInv, Camera!TypeOK
      <3>2. shown[v] \in 1 .. announced
        BY <2>2, <3>1
      <3> QED BY <2>2, <3>2 DEF CameraInv
    <2> QED BY <2>1, <2>2, Zenon DEF IInv, DetectionsFirst, Camera!DetectionsFirst
  <1> QED BY <1>1, Invariance, PTL

=============================================================================
