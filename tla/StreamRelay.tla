---------------------------- MODULE StreamRelay ----------------------------
(***************************************************************************)
(* streamRelay.js: one FFmpeg process per camera, restarted for ever with   *)
(* a growing delay and the other RTSP transport, and the WebSocket clients  *)
(* that its output goes to.                                                 *)
(*                                                                         *)
(* Time is counted in units of 3000 ms and passes only while a restart is   *)
(* awaited.  The retry counter is unbounded in the code, but past Cap only  *)
(* its parity matters: it alternates between Cap and Cap + 1 here.          *)
(***************************************************************************)
EXTENDS Integers, FiniteSets

CONSTANTS
    Relays,         \* the cameras: thermal, rgb
    Clients,        \* browsers' WebSockets
    Cap,            \* 30000 ms, the longest delay, in units of 3000 ms
    MaxChanges,     \* bound: changes of what a camera answers to
    MaxCuts,        \* bound: streams that break off
    MaxJoins        \* bound: connections made by a browser

ASSUME RelayBounds ==
    /\ Cap \in Nat \ {0}
    /\ MaxChanges \in Nat /\ MaxCuts \in Nat /\ MaxJoins \in Nat

Transports == {"udp", "tcp"}

VARIABLES
    alive,      \* the backend process
    installed,  \* the ffmpeg binary can be spawned
    urls,       \* the cameras whose URL is configured
    works,      \* the transports on which a camera answers
    ff,         \* "off", "starting", "streaming" or "waiting"
    retry,      \* spawnFFmpeg's argument
    wait,       \* units left until the restart
    ws,         \* readyState of each browser's socket to each relay
    clients,    \* the relay's Set
    beat,       \* history: flips with every chunk of the camera's output
    dark,       \* history: units waited while the camera answered somehow,
                \* at most 2 * Cap + 1
    changes, cuts, joins

procVars == <<ff, retry, wait>>
sockVars == <<ws, clients, beat, joins>>
hostVars == <<alive, installed, urls>>
vars == <<hostVars, works, procVars, sockVars, dark, changes, cuts>>

----------------------------------------------------------------------------
(* mutant: the fallback is taken once and kept *)
TransportOnce(n) == IF n = 0 THEN "udp" ELSE "tcp"

Transport(n) == IF n % 2 = 0 THEN "udp" ELSE "tcp"

(* mutant: the cap is forgotten *)
DelayUncapped(n) == n + 1

Delay(n) == IF n + 1 < Cap THEN n + 1 ELSE Cap

(* retry + 1, as far as Transport and Delay tell it apart *)
Succ(n) == IF n <= Cap THEN n + 1 ELSE Cap

Init ==
    /\ alive = TRUE
    /\ installed \in BOOLEAN
    /\ urls \in SUBSET Relays
    /\ works \in [Relays -> SUBSET Transports]
    /\ ff = [r \in Relays |-> "off"]
    /\ retry = [r \in Relays |-> 0]
    /\ wait = [r \in Relays |-> 0]
    /\ ws = [r \in Relays |-> [c \in Clients |-> "closed"]]
    /\ clients = [r \in Relays |-> {}]
    /\ beat = [r \in Relays |-> FALSE]
    /\ dark = [r \in Relays |-> 0]
    /\ changes = 0 /\ cuts = 0 /\ joins = 0

----------------------------------------------------------------------------
(* startStreamRelay, createRelay: all or nothing *)
StartStreamRelay ==
    /\ alive
    /\ urls = Relays
    /\ \A r \in Relays : ff[r] = "off"
    /\ ff' = [r \in Relays |-> "starting"]
    /\ UNCHANGED <<hostVars, works, retry, wait, sockVars, dark, changes, cuts>>

(* ff.on('close'): wait, then spawnFFmpeg(..., retry + 1) *)
Closed(r) ==
    /\ ff' = [ff EXCEPT ![r] = "waiting"]
    /\ wait' = [wait EXCEPT ![r] = Delay(retry[r])]
    /\ retry' = [retry EXCEPT ![r] = Succ(retry[r])]

(* FFmpeg reaches the camera and starts to produce output *)
FFmpegStreams(r) ==
    /\ alive /\ installed
    /\ ff[r] = "starting"
    /\ Transport(retry[r]) \in works[r]
    /\ ff' = [ff EXCEPT ![r] = "streaming"]
    /\ dark' = [dark EXCEPT ![r] = 0]
    /\ UNCHANGED <<hostVars, works, retry, wait, sockVars, changes, cuts>>

(* it gives up: the camera does not answer on this transport *)
FFmpegFails(r) ==
    /\ alive /\ installed
    /\ ff[r] = "starting"
    /\ Transport(retry[r]) \notin works[r]
    /\ Closed(r)
    /\ UNCHANGED <<hostVars, works, sockVars, dark, changes, cuts>>

(* the binary is missing: spawn emits 'error', nothing handles it, and the  *)
(* uncaught exception ends the whole backend                                *)
SpawnError(r) ==
    /\ alive /\ ~ installed
    /\ ff[r] = "starting"
    /\ alive' = FALSE
    /\ UNCHANGED <<installed, urls, works, procVars, sockVars, dark, changes, cuts>>

(* a running stream breaks off; the retry count goes on from where it was   *)
StreamBreaks(r) ==
    /\ alive
    /\ ff[r] = "streaming"
    /\ cuts < MaxCuts
    /\ cuts' = cuts + 1
    /\ Closed(r)
    /\ UNCHANGED <<hostVars, works, sockVars, dark, changes>>

(* the history variable dark after one more unit *)
Darker(r) ==
    IF works[r] = {} THEN 0
    ELSE IF dark[r] <= 2 * Cap THEN dark[r] + 1 ELSE dark[r]

Tick(r) ==
    /\ alive
    /\ ff[r] = "waiting"
    /\ wait[r] > 0
    /\ wait' = [wait EXCEPT ![r] = wait[r] - 1]
    /\ dark' = [dark EXCEPT ![r] = Darker(r)]
    /\ UNCHANGED <<hostVars, works, ff, retry, sockVars, changes, cuts>>

(* the timer of ff.on('close') fires *)
SpawnFFmpeg(r) ==
    /\ alive
    /\ ff[r] = "waiting"
    /\ wait[r] = 0
    /\ ff' = [ff EXCEPT ![r] = "starting"]
    /\ UNCHANGED <<hostVars, works, retry, wait, sockVars, dark, changes, cuts>>

(* The camera starts or stops to answer on a transport; a camera that stops *)
(* answering on the one in use breaks its stream off.                       *)
CameraChanges(r, t) ==
    /\ changes < MaxChanges
    /\ t # works[r]
    /\ changes' = changes + 1
    /\ works' = [works EXCEPT ![r] = t]
    /\ dark' = [dark EXCEPT ![r] = 0]
    /\ IF ff[r] = "streaming" /\ Transport(retry[r]) \notin t
       THEN Closed(r)
       ELSE UNCHANGED procVars
    /\ UNCHANGED <<hostVars, sockVars, cuts>>

----------------------------------------------------------------------------
(* wss.on('connection'); the WebSocket server exists once the relay does *)
WsConnect(r, c) ==
    /\ alive
    /\ ff[r] # "off"
    /\ ws[r][c] = "closed"
    /\ joins < MaxJoins
    /\ joins' = joins + 1
    /\ ws' = [ws EXCEPT ![r][c] = "open"]
    /\ clients' = [clients EXCEPT ![r] = clients[r] \cup {c}]
    /\ UNCHANGED <<hostVars, works, procVars, beat, dark, changes, cuts>>

(* the closing handshake starts: readyState leaves OPEN before 'close' *)
WsClosing(r, c) ==
    /\ alive
    /\ ws[r][c] = "open"
    /\ ws' = [ws EXCEPT ![r][c] = "closing"]
    /\ UNCHANGED <<hostVars, works, procVars, clients, beat, joins, dark,
                   changes, cuts>>

(* ws.on('close') *)
WsClose(r, c) ==
    /\ alive
    /\ ws[r][c] = "closing"
    /\ ws' = [ws EXCEPT ![r][c] = "closed"]
    /\ clients' = [clients EXCEPT ![r] = clients[r] \ {c}]
    /\ UNCHANGED <<hostVars, works, procVars, beat, joins, dark, changes, cuts>>

(* the sockets that a chunk is sent to *)
Targets(r) == {c \in clients[r] : ws[r][c] = "open"}

(* ff.stdout.on('data'): every chunk goes to the sockets of that moment *)
Chunk(r) ==
    /\ alive
    /\ ff[r] = "streaming"
    /\ beat' = [beat EXCEPT ![r] = ~ beat[r]]
    /\ UNCHANGED <<hostVars, works, procVars, ws, clients, joins, dark,
                   changes, cuts>>

----------------------------------------------------------------------------
Next ==
    \/ StartStreamRelay
    \/ \E r \in Relays :
          \/ FFmpegStreams(r) \/ FFmpegFails(r) \/ SpawnError(r)
          \/ StreamBreaks(r) \/ Tick(r) \/ SpawnFFmpeg(r) \/ Chunk(r)
          \/ \E t \in SUBSET Transports : CameraChanges(r, t)
          \/ \E c \in Clients : WsConnect(r, c) \/ WsClosing(r, c) \/ WsClose(r, c)

(* The boot sequence runs; FFmpeg either streams, exits or cannot be        *)
(* spawned; timers fire; a running FFmpeg keeps writing.                    *)
Fairness ==
    /\ WF_vars(StartStreamRelay)
    /\ \A r \in Relays :
          /\ WF_vars(FFmpegStreams(r)) /\ WF_vars(FFmpegFails(r))
          /\ WF_vars(SpawnError(r))
          /\ WF_vars(Tick(r)) /\ WF_vars(SpawnFFmpeg(r)) /\ WF_vars(Chunk(r))

Spec == Init /\ [][Next]_vars /\ Fairness

----------------------------------------------------------------------------
(* Every variable keeps its type, and a delay never exceeds the cap. *)
TypeOK ==
    /\ alive \in BOOLEAN
    /\ installed \in BOOLEAN
    /\ urls \in SUBSET Relays
    /\ works \in [Relays -> SUBSET Transports]
    /\ ff \in [Relays -> {"off", "starting", "streaming", "waiting"}]
    /\ retry \in [Relays -> 0 .. Cap + 1]
    /\ wait \in [Relays -> 0 .. Cap]
    /\ ws \in [Relays -> [Clients -> {"closed", "open", "closing"}]]
    /\ clients \in [Relays -> SUBSET Clients]
    /\ beat \in [Relays -> BOOLEAN]
    /\ dark \in [Relays -> 0 .. 2 * Cap + 1]
    /\ changes \in Nat /\ cuts \in Nat /\ joins \in Nat

(* A camera that answers on one transport, whichever, is never missed for   *)
(* longer than two full delays: the transport alternates with every retry,  *)
(* so at most one attempt in between is wasted.                             *)
DarkBounded == \A r \in Relays : dark[r] <= 2 * Cap

(* the socket is one of those that a chunk is sent to *)
SentTo(r, c) == Chunk(r) /\ c \in Targets(r)

(* Video comes back and keeps coming: if the camera ends up answering on    *)
(* some transport, a browser that stays connected is sent chunk after chunk *)
(* for ever, whatever broke off before.                                     *)
VideoArrives ==
    \A r \in Relays : \A c \in Clients :
        (<>[](alive /\ works[r] # {} /\ ws[r][c] = "open"))
            => []<><<SentTo(r, c)>>_vars

=============================================================================
