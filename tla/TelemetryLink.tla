--------------------------- MODULE TelemetryLink ---------------------------
(***************************************************************************)
(* The telemetry path in "lan" mode, from the MAVLink messages that         *)
(* drone_bridge.py receives to the store of every dashboard:                *)
(*                                                                         *)
(*   drone -> bridge dict -> UDP 14555 -> parser -> 10 Hz broadcast          *)
(*         -> Socket.io -> store                                            *)
(*                                                                         *)
(* A group of fields that arrive in one MAVLink message is one entry of a   *)
(* dict; its value is the number of the message it came from, 0 for the     *)
(* program's default.  A snapshot carries, as history, which packet of the  *)
(* bridge and which life of the backend it comes from.                      *)
(***************************************************************************)
EXTENDS Integers, Sequences

CONSTANTS
    Clients,        \* browsers
    Kinds,          \* MAVLink message types that the bridge merges
    Position,       \* GLOBAL_POSITION_INT, the one that makes it forward
    Battery,        \* BATTERY_STATUS, ignored when its voltage is 65535
    MaxMessages,    \* bound: MAVLink messages
    MaxUdp,         \* bound: packets in the loopback socket's buffer
    MaxInbox,       \* bound: events buffered for one client
    MaxDrops,       \* bound: lost client connections
    MaxRestarts     \* bound: restarts of the backend, and of the bridge

ASSUME KindsAssumption == Position \in Kinds /\ Battery \in Kinds
ASSUME BoundsAssumption ==
    /\ MaxMessages \in Nat /\ MaxUdp \in Nat /\ MaxInbox \in Nat
    /\ MaxDrops \in Nat /\ MaxRestarts \in Nat

VARIABLES
    bridge,     \* drone_bridge.py: [pc, dict]
    messages,   \* MAVLink messages received so far
    log,        \* history: the dicts forwarded, in order
    udp,        \* packets under way to the parser
    up,         \* the backend process is running
    telemetry,  \* the parser's telemetry object
    latest,     \* global.latestTelemetry: <<>> for null, else <<snapshot>>
    link,       \* the server holds an open socket to this client
    inbox,      \* events under way to, or buffered in, this client
    connected,  \* the store's connected
    store,      \* the store's telemetry
    drops, restarts, bridgeRestarts

bridgeVars == <<bridge, messages, log, bridgeRestarts>>
backendVars == <<up, telemetry, latest, restarts>>
clientVars == <<link, inbox, connected, store, drops>>
vars == <<bridgeVars, udp, backendVars, clientVars>>

----------------------------------------------------------------------------
Dict == [Kinds -> Nat]
Snapshot == [epoch : Nat, seq : Nat, data : Dict]
Event == [type : {"connect", "disconnect", "telemetry"}, snap : Snapshot]
Packet == [seq : Nat, data : Dict]

Defaults == [k \in Kinds |-> 0]

(* The store starts with its own defaults, the parser of each backend life  *)
(* with its own.                                                            *)
Fresh(e) == [epoch |-> e, seq |-> 0, data |-> Defaults]

Emit(type, s) == [type |-> type, snap |-> s]

(* mutant: only the position group of a packet is taken over *)
MergePositionOnly(tel, packet) ==
    [tel EXCEPT !.seq = packet.seq, !.data[Position] = packet.data[Position]]

(* openLAN's handler: every field that the packet defines is taken over;    *)
(* the bridge's packets define them all.                                    *)
Merge(tel, packet) ==
    [tel EXCEPT !.seq = packet.seq,
                !.data = [k \in Kinds |-> packet.data[k]]]

Init ==
    /\ bridge = [pc |-> "connecting", dict |-> Defaults]
    /\ messages = 0
    /\ log = <<>>
    /\ udp = <<>>
    /\ up = TRUE
    /\ telemetry = Fresh(1)
    /\ latest = <<>>
    /\ link = [c \in Clients |-> FALSE]
    /\ inbox = [c \in Clients |-> <<>>]
    /\ connected = [c \in Clients |-> FALSE]
    /\ store = [c \in Clients |-> Fresh(0)]
    /\ drops = 0
    /\ restarts = 0
    /\ bridgeRestarts = 0

----------------------------------------------------------------------------
(* drone_bridge.py *)

(* wait_heartbeat returns a heartbeat, or None after 5 s; connect_drone     *)
(* looks at neither result, so it returns with or without a drone.          *)
WaitHeartbeat ==
    /\ bridge.pc = "connecting"
    /\ bridge' = [bridge EXCEPT !.pc = "running"]
    /\ UNCHANGED <<messages, log, bridgeRestarts, udp, backendVars, clientVars>>

(* mavlink_connection raises (the port is taken); sleep, then try again.    *)
ConnectFails ==
    /\ bridge.pc = "connecting"
    /\ bridge' = [bridge EXCEPT !.pc = "offline"]
    /\ UNCHANGED <<messages, log, bridgeRestarts, udp, backendVars, clientVars>>

RetryConnect ==
    /\ bridge.pc = "offline"
    /\ bridge' = [bridge EXCEPT !.pc = "connecting"]
    /\ UNCHANGED <<messages, log, bridgeRestarts, udp, backendVars, clientVars>>

(* One turn of the loop: merge the message and, on a position, forward the  *)
(* whole dict.  A packet for a full buffer or a dead backend is lost; the   *)
(* bridge does not notice (line 73 swallows what sendto raises).            *)
BridgeMessage(k, usable) ==
    LET n == messages + 1
        dict == IF k = Battery /\ ~ usable THEN bridge.dict
                ELSE [bridge.dict EXCEPT ![k] = n]
        packet == [seq |-> Len(log) + 1, data |-> dict]
    IN  /\ bridge.pc = "running"
        /\ messages < MaxMessages
        /\ messages' = n
        /\ bridge' = [bridge EXCEPT !.dict = dict]
        /\ IF k = Position
           THEN /\ log' = Append(log, dict)
                /\ udp' = IF up /\ Len(udp) < MaxUdp THEN Append(udp, packet)
                          ELSE udp
           ELSE UNCHANGED <<log, udp>>
        /\ UNCHANGED <<bridgeRestarts, backendVars, clientVars>>

(* The bridge dies and is started again: the dict is back at zero.          *)
BridgeRestart ==
    /\ bridgeRestarts < MaxRestarts
    /\ bridgeRestarts' = bridgeRestarts + 1
    /\ bridge' = [pc |-> "connecting", dict |-> Defaults]
    /\ UNCHANGED <<messages, log, udp, backendVars, clientVars>>

(* The loopback socket may drop any packet; it keeps the order. *)
LosePacket ==
    /\ udp # <<>>
    /\ udp' = Tail(udp)
    /\ UNCHANGED <<bridgeVars, backendVars, clientVars>>

----------------------------------------------------------------------------
(* The backend: mavlinkParser.js and server.js *)

LANMessage ==
    /\ up
    /\ udp # <<>>
    /\ telemetry' = Merge(telemetry, Head(udp))
    /\ udp' = Tail(udp)
    /\ UNCHANGED <<bridgeVars, up, latest, restarts, clientVars>>

(* The 100 ms interval of startMAVLink *)
Broadcast ==
    /\ up
    /\ \A c \in Clients : link[c] => Len(inbox[c]) < MaxInbox
    /\ latest' = <<telemetry>>
    /\ inbox' = [c \in Clients |->
                    IF link[c] THEN Append(inbox[c], Emit("telemetry", telemetry))
                    ELSE inbox[c]]
    /\ UNCHANGED <<bridgeVars, udp, up, telemetry, restarts,
                   link, connected, store, drops>>

(* io.on('connection'): the snapshot, if there is one *)
OnConnection ==
    IF latest = <<>> THEN <<>> ELSE <<Emit("telemetry", latest[1])>>

(* What a client still handles after its connection is lost: the first k    *)
(* events had reached it, the rest are gone, and it notices the loss.       *)
Lost(c, k) ==
    IF connected[c] \/ k > 0
    THEN Append(SubSeq(inbox[c], 1, k), Emit("disconnect", Fresh(0)))
    ELSE <<>>

(* The process dies: every socket and every buffered packet with it.  Each  *)
(* client had received the first cut[c] of its events.                      *)
BackendCrash(cut) ==
    /\ up
    /\ restarts < MaxRestarts
    /\ up' = FALSE
    /\ udp' = <<>>
    /\ link' = [c \in Clients |-> FALSE]
    /\ \A c \in Clients : cut[c] <= Len(inbox[c])
    /\ inbox' = [c \in Clients |-> IF link[c] THEN Lost(c, cut[c]) ELSE inbox[c]]
    /\ restarts' = restarts + 1
    /\ UNCHANGED <<bridgeVars, telemetry, latest, connected, store, drops>>

BackendStart ==
    /\ ~ up
    /\ up' = TRUE
    /\ telemetry' = Fresh(telemetry.epoch + 1)
    /\ latest' = <<>>
    /\ UNCHANGED <<bridgeVars, udp, restarts, clientVars>>

----------------------------------------------------------------------------
(* The Socket.io connection and useSocket.js *)

(* mutant: the snapshot overtakes the connect event *)
GreetingSnapshotFirst == Append(OnConnection, Emit("connect", Fresh(0)))

Greeting == <<Emit("connect", Fresh(0))>> \o OnConnection

(* The client (re)connects once it has handled the previous disconnect.     *)
Connect(c) ==
    /\ up
    /\ ~ link[c] /\ ~ connected[c] /\ inbox[c] = <<>>
    /\ link' = [link EXCEPT ![c] = TRUE]
    /\ inbox' = [inbox EXCEPT ![c] = Greeting]
    /\ UNCHANGED <<bridgeVars, udp, backendVars, connected, store, drops>>

DropLink(c, k) ==
    /\ link[c]
    /\ drops < MaxDrops
    /\ drops' = drops + 1
    /\ link' = [link EXCEPT ![c] = FALSE]
    /\ inbox' = [inbox EXCEPT ![c] = Lost(c, k)]
    /\ UNCHANGED <<bridgeVars, udp, backendVars, connected, store>>

(* mutant: the whole envelope is stored *)
ApplyEnvelope(c, e) == IF e.type = "telemetry" THEN e ELSE store[c]

(* mutant: only the first message counts *)
ApplyOnce(c, e) ==
    IF e.type = "telemetry" /\ store[c].epoch = 0 THEN e.snap ELSE store[c]

(* updateTelemetry merges the message, which carries every field *)
Apply(c, e) == IF e.type = "telemetry" THEN e.snap ELSE store[c]

(* mutant: no handler for the loss of the connection *)
ConnectedAfterNoLoss(c, e) == e.type = "connect" \/ connected[c]

(* setConnected *)
ConnectedAfter(c, e) ==
    \/ e.type = "connect"
    \/ e.type = "telemetry" /\ connected[c]

(* One event of useSocket: connect, disconnect or telemetry *)
HandleEvent(c) ==
    /\ inbox[c] # <<>>
    /\ LET e == Head(inbox[c])
       IN  /\ connected' = [connected EXCEPT ![c] = ConnectedAfter(c, e)]
           /\ store' = [store EXCEPT ![c] = Apply(c, e)]
    /\ inbox' = [inbox EXCEPT ![c] = Tail(inbox[c])]
    /\ UNCHANGED <<bridgeVars, udp, backendVars, link, drops>>

----------------------------------------------------------------------------
Next ==
    \/ WaitHeartbeat
    \/ ConnectFails
    \/ RetryConnect
    \/ \E k \in Kinds, b \in BOOLEAN : BridgeMessage(k, b)
    \/ BridgeRestart
    \/ LosePacket
    \/ LANMessage
    \/ Broadcast
    \/ \E cut \in [Clients -> 0 .. MaxInbox] : BackendCrash(cut)
    \/ BackendStart
    \/ \E c \in Clients : Connect(c)
    \/ \E c \in Clients : \E k \in 0 .. Len(inbox[c]) : DropLink(c, k)
    \/ \E c \in Clients : HandleEvent(c)

(* The parser's socket handler and its interval keep running while the      *)
(* backend is up; a browser handles the events it has and reconnects.       *)
Fairness ==
    /\ WF_vars(LANMessage)
    /\ WF_vars(Broadcast)
    /\ \A c \in Clients : WF_vars(Connect(c)) /\ WF_vars(HandleEvent(c))

Spec == Init /\ [][Next]_vars /\ Fairness

----------------------------------------------------------------------------
(* s is not newer than t: an earlier life of the backend, or an earlier     *)
(* packet in the same life.                                                 *)
NotNewer(s, t) == s.epoch < t.epoch \/ (s.epoch = t.epoch /\ s.seq <= t.seq)

(* Every variable keeps its type. *)
TypeOK ==
    /\ bridge \in [pc : {"connecting", "offline", "running"}, dict : Dict]
    /\ messages \in Nat /\ drops \in Nat
    /\ restarts \in Nat /\ bridgeRestarts \in Nat
    /\ log \in Seq(Dict)
    /\ udp \in Seq(Packet)
    /\ up \in BOOLEAN
    /\ telemetry \in Snapshot
    /\ latest \in Seq(Snapshot) /\ Len(latest) <= 1
    /\ link \in [Clients -> BOOLEAN]
    /\ inbox \in [Clients -> Seq(Event)]
    /\ connected \in [Clients -> BOOLEAN]
    /\ store \in [Clients -> Snapshot]

(* The path as a dashboard sees it: what was forwarded, the lives of the    *)
(* backend, what the store holds                                            *)
View == INSTANCE LiveView
    WITH Values <- Dict, Default <- Defaults,
         published <- log, life <- telemetry.epoch, view <- store

(* Two merges, a lossy socket, a 10 Hz broadcast, a snapshot on connection, *)
(* lost connections and restarts together implement LiveView: a dashboard   *)
(* shows one forwarded dict whole, never a mixture of two, and never goes   *)
(* back in time; a new life of the backend shows its defaults or a packet   *)
(* that is newer than what was shown before it.                             *)
ImplementsLiveView == View!Spec

(* The dashboard's telemetry changes only while it says it is connected:    *)
(* server.js emits the snapshot after the connection is made, and           *)
(* useSocket.js handles the events in order.                                *)
ShownOnlyWhileConnected ==
    [][\A c \in Clients : store'[c] # store[c] => connected[c]]_vars

(* A dashboard that says it is disconnected while the server holds a        *)
(* socket to it, or says it is connected while the server holds none, has   *)
(* the event that will correct it under way: the flag is never wrong for    *)
(* good.                                                                    *)
FlagWillBeCorrected ==
    \A c \in Clients :
        connected[c] # link[c] =>
            \E i \in 1 .. Len(inbox[c]) :
                inbox[c][i].type = IF link[c] THEN "connect" ELSE "disconnect"

(* Every packet that the parser has taken in reaches every dashboard, or    *)
(* something newer does, unless the backend dies.  A dropped connection     *)
(* only delays it.                                                          *)
EveryClientCatchesUp ==
    \A c \in Clients : \A n \in 1 .. MaxMessages : \A e \in 1 .. MaxRestarts + 1 :
        (up /\ telemetry.epoch = e /\ telemetry.seq = n)
            ~> (~ up \/ ~ NotNewer(store[c], [epoch |-> e, seq |-> n - 1]))

=============================================================================
