------------------------------ MODULE Detector ------------------------------
(***************************************************************************)
(* tf_detector.py: one request thread per open video feed (Flask with       *)
(* threaded=True), all running run_detection_stream over their own capture  *)
(* and over the one global network `net`, without a lock.                   *)
(*                                                                         *)
(* A frame is <<thread, n>>.  OpenCV releases the interpreter lock inside   *)
(* setInput and forward, so two threads really run in the network at once.  *)
(* What comes of that is not bounded by the code: a pass that is disturbed  *)
(* may return the boxes of another frame, boxes of no frame at all, raise,  *)
(* or bring the process down.                                               *)
(***************************************************************************)
EXTENDS Integers, Sequences

CONSTANTS
    Threads,        \* the feeds being watched
    Rtsp,           \* those of them that read an RTSP source
    MaxFrames,      \* bound: frames read by a thread
    MaxOutages      \* bound: times a source stops delivering

ASSUME DetectorBounds ==
    Rtsp \subseteq Threads /\ MaxFrames \in Nat /\ MaxOutages \in Nat

VARIABLES
    pc,         \* where each thread is in run_detection_stream
    frame,      \* number of the frame it holds
    delivers,   \* its source delivers frames
    input,      \* the network's input blob: the frame it was made from
    inside,     \* for a thread in forward: the inputs the pass may have seen
    detections, \* the frame that its detections were computed from, or Torn
    overlapped, \* history: another thread was in the network at its setInput
                \* or has used it since
    broken,     \* history: a disturbed pass has raised or crashed
    output,     \* the last part yielded: <<frame, frame of its boxes>>
    outages

netVars == <<input, inside, detections, overlapped, broken>>
vars == <<pc, frame, delivers, netVars, output, outages>>

NoFrame == <<"none", 0>>
Frames == (Threads \X Nat) \cup {NoFrame}

(* boxes of no frame: layers of two passes mixed *)
Torn == <<"torn", 0>>

Goto(t, where) == pc' = [pc EXCEPT ![t] = where]

Init ==
    /\ pc = [t \in Threads |-> "read"]
    /\ frame = [t \in Threads |-> 0]
    /\ delivers = [t \in Threads |-> TRUE]
    /\ input = NoFrame
    /\ inside = [t \in Threads |-> {}]
    /\ detections = [t \in Threads |-> NoFrame]
    /\ overlapped = [t \in Threads |-> FALSE]
    /\ broken = FALSE
    /\ output = [t \in Threads |-> <<>>]
    /\ outages = 0

----------------------------------------------------------------------------
(* mutant: the blob is renewed for every other frame only *)
AfterReadAlternate(t) == IF frame[t] % 2 = 0 THEN "setInput" ELSE "forward"

(* every frame becomes the network's input before the pass *)
AfterRead(t) == "setInput"

(* ret, frame = cap.read() *)
Read(t) ==
    /\ pc[t] = "read"
    /\ delivers[t]
    /\ frame[t] < MaxFrames
    /\ frame' = [frame EXCEPT ![t] = frame[t] + 1]
    /\ Goto(t, AfterRead(t))
    /\ UNCHANGED <<delivers, netVars, output, outages>>

(* mutant: every source ends the stream at its first failed read *)
AfterFailedReadBreak(t) == "ended"

(* an RTSP source is opened again after a second, a webcam ends the stream *)
AfterFailedRead(t) == IF t \in Rtsp THEN "reopen" ELSE "ended"

ReadFails(t) ==
    /\ pc[t] = "read"
    /\ ~ delivers[t]
    /\ Goto(t, AfterFailedRead(t))
    /\ UNCHANGED <<frame, delivers, netVars, output, outages>>

Reopen(t) ==
    /\ pc[t] = "reopen"
    /\ Goto(t, "read")
    /\ UNCHANGED <<frame, delivers, netVars, output, outages>>

(* net.setInput(blob): a pass that is under way may pick the new blob up *)
SetInput(t) ==
    /\ pc[t] = "setInput"
    /\ input' = <<t, frame[t]>>
    /\ inside' = [u \in Threads |->
                     IF inside[u] = {} THEN {} ELSE inside[u] \cup {<<t, frame[t]>>}]
    /\ overlapped' = [u \in Threads |->
                         IF u = t THEN \E v \in Threads \ {t} : pc[v] = "infer"
                         ELSE overlapped[u] \/ pc[u] \in {"forward", "infer"}]
    /\ Goto(t, "forward")
    /\ UNCHANGED <<frame, delivers, detections, broken, output, outages>>

(* detections = net.forward(), entered and left; a second pass that is      *)
(* entered meanwhile shares the layers' buffers                             *)
EnterForward(t) ==
    /\ pc[t] = "forward"
    /\ inside' = [u \in Threads |->
                     IF u = t THEN {input} \cup UNION {inside[v] : v \in Threads}
                     ELSE IF inside[u] = {} THEN {} ELSE inside[u] \cup {input}]
    /\ overlapped' = [u \in Threads |->
                         \/ overlapped[u]
                         \/ u = t /\ \E v \in Threads \ {t} : pc[v] = "infer"
                         \/ u # t /\ pc[u] \in {"forward", "infer"}]
    /\ Goto(t, "infer")
    /\ UNCHANGED <<frame, delivers, input, detections, broken, output, outages>>

(* A pass that nobody disturbed computes every layer from the input it      *)
(* found; a disturbed one returns what belongs to another, or a mixture.    *)
LeaveForward(t) ==
    /\ pc[t] = "infer"
    /\ \E seen \in inside[t] \cup (IF overlapped[t] THEN {Torn} ELSE {}) :
          detections' = [detections EXCEPT ![t] = seen]
    /\ inside' = [inside EXCEPT ![t] = {}]
    /\ Goto(t, "yield")
    /\ UNCHANGED <<frame, delivers, input, overlapped, broken, output, outages>>

(* A disturbed pass raises, here or when its boxes are drawn; nothing       *)
(* catches it, so the generator ends and with it the response.              *)
PassRaises(t) ==
    /\ pc[t] = "infer"
    /\ overlapped[t]
    /\ inside' = [inside EXCEPT ![t] = {}]
    /\ broken' = TRUE
    /\ Goto(t, "ended")
    /\ UNCHANGED <<frame, delivers, input, detections, overlapped, output, outages>>

(* A disturbed pass crashes in native code, and every feed ends with it. *)
PassCrashes(t) ==
    /\ pc[t] = "infer"
    /\ overlapped[t]
    /\ inside' = [u \in Threads |-> {}]
    /\ broken' = TRUE
    /\ pc' = [u \in Threads |-> "ended"]
    /\ UNCHANGED <<frame, delivers, input, detections, overlapped, output, outages>>

(* draw_detections on the thread's own frame, imencode and yield *)
Yield(t) ==
    /\ pc[t] = "yield"
    /\ output' = [output EXCEPT ![t] = <<<<t, frame[t]>>, detections[t]>>]
    /\ Goto(t, "read")
    /\ UNCHANGED <<frame, delivers, netVars, outages>>

(* imencode fails: the frame is dropped *)
EncodeFails(t) ==
    /\ pc[t] = "yield"
    /\ Goto(t, "read")
    /\ UNCHANGED <<frame, delivers, netVars, output, outages>>

SourceStops(t) ==
    /\ delivers[t]
    /\ outages < MaxOutages
    /\ outages' = outages + 1
    /\ delivers' = [delivers EXCEPT ![t] = FALSE]
    /\ UNCHANGED <<pc, frame, netVars, output>>

SourceReturns(t) ==
    /\ ~ delivers[t]
    /\ delivers' = [delivers EXCEPT ![t] = TRUE]
    /\ UNCHANGED <<pc, frame, netVars, output, outages>>

Next ==
    \E t \in Threads :
        \/ Read(t) \/ ReadFails(t) \/ Reopen(t)
        \/ SetInput(t) \/ EnterForward(t) \/ LeaveForward(t)
        \/ PassRaises(t) \/ PassCrashes(t)
        \/ Yield(t) \/ EncodeFails(t)
        \/ SourceStops(t) \/ SourceReturns(t)

(* A thread whose call returns goes on; nothing obliges a source to return, *)
(* or a disturbed pass to fail.                                             *)
Fairness ==
    \A t \in Threads :
        /\ WF_vars(Read(t)) /\ WF_vars(ReadFails(t)) /\ WF_vars(Reopen(t))
        /\ WF_vars(SetInput(t)) /\ WF_vars(EnterForward(t))
        /\ WF_vars(LeaveForward(t)) /\ WF_vars(Yield(t))

Spec == Init /\ [][Next]_vars /\ Fairness

----------------------------------------------------------------------------
(* Every variable keeps its type, and only a webcam's stream ever ends, as  *)
(* long as no disturbed pass has failed.                                    *)
TypeOK ==
    /\ pc \in [Threads -> {"read", "reopen", "ended", "setInput", "forward",
                           "infer", "yield"}]
    /\ \A t \in Rtsp : pc[t] = "ended" => broken
    /\ frame \in [Threads -> Nat]
    /\ delivers \in [Threads -> BOOLEAN]
    /\ input \in Frames
    /\ inside \in [Threads -> SUBSET Frames]
    /\ detections \in [Threads -> Frames \cup {Torn}]
    /\ overlapped \in [Threads -> BOOLEAN]
    /\ broken \in BOOLEAN
    /\ output \in [Threads -> {<<>>} \cup (Frames \X (Frames \cup {Torn}))]
    /\ outages \in Nat

(* A feed that has the network to itself from its setInput to the end of    *)
(* its forward gets the boxes of its own frame, however the threads         *)
(* interleave before and after, and although the blob of an earlier frame   *)
(* or of another feed may be the one left in the network.  It says nothing  *)
(* of a pass that was disturbed: the code has no lock to bound what comes   *)
(* of it.                                                                   *)
BoxesOwnUnlessShared ==
    \A t \in Threads :
        pc[t] = "yield" /\ ~ overlapped[t] => detections[t] = <<t, frame[t]>>

(* An RTSP feed survives outages: once its source delivers for good, the    *)
(* thread is reading or working on frames again, never ended, unless a      *)
(* disturbed pass has failed.                                               *)
RtspFeedResumes ==
    \A t \in Rtsp :
        (<>[]delivers[t]) => <>[](pc[t] \notin {"reopen", "ended"}) \/ <>broken

=============================================================================
