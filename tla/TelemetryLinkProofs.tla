------------------------ MODULE TelemetryLinkProofs ------------------------
(***************************************************************************)
(* Proofs about TelemetryLink, for every set of browsers and of message     *)
(* kinds and every bound: the path implements LiveView, and what the        *)
(* connected flag says is true or about to be corrected.                    *)
(***************************************************************************)
EXTENDS TelemetryLink, SequenceTheorems, TLAPS

(* s is a whole packet of the log l, or the defaults, of a life up to e. *)
Genuine(s, e, l) ==
    /\ s.epoch \in 0 .. e
    /\ s.seq \in 0 .. Len(l)
    /\ s.data = IF s.seq = 0 THEN Defaults ELSE l[s.seq]

(* What may follow s on a screen.  The relation is not transitive: the      *)
(* defaults of a new life lie between packets that must not be exchanged.   *)
(* The invariant therefore relates every pair along the path.               *)
Before(s, t) ==
    \/ s.epoch = t.epoch /\ s.seq <= t.seq
    \/ s.epoch < t.epoch /\ (t.seq = 0 \/ s.seq < t.seq)

(* s has left the parser: all that is still in the backend may follow it.   *)
Past(s, tel, lat, u, l) ==
    /\ Genuine(s, tel.epoch, l)
    /\ Before(s, tel)
    /\ \A i \in 1 .. Len(lat) : Before(s, lat[i])
    /\ \A i \in 1 .. Len(u) : s.seq < u[i].seq

(* Packets under way are newer than what the parser holds, and in order. *)
UdpInOrder ==
    /\ ~ up => udp = <<>>
    /\ \A i \in 1 .. Len(udp) :
          /\ udp[i].seq \in 1 .. Len(log)
          /\ udp[i].data = log[udp[i].seq]
          /\ telemetry.seq < udp[i].seq
    /\ \A i, j \in 1 .. Len(udp) : i < j => udp[i].seq < udp[j].seq

BackendInOrder ==
    /\ telemetry.epoch >= 1
    /\ Genuine(telemetry, telemetry.epoch, log)
    /\ \A i \in 1 .. Len(latest) :
          /\ Genuine(latest[i], telemetry.epoch, log)
          /\ latest[i].epoch = telemetry.epoch
          /\ latest[i].seq <= telemetry.seq

(* The telemetry events of an inbox q, for a dashboard that shows s. *)
InOrder(q, s) ==
    /\ \A i \in 1 .. Len(q) :
          q[i].type = "telemetry" => q[i].snap.epoch >= 1 /\ Before(s, q[i].snap)
    /\ \A i, j \in 1 .. Len(q) :
          i < j /\ q[i].type = "telemetry" /\ q[j].type = "telemetry"
              => Before(q[i].snap, q[j].snap)

AllPast(q, tel, lat, u, l) ==
    \A i \in 1 .. Len(q) :
        q[i].type = "telemetry" => Past(q[i].snap, tel, lat, u, l)

ClientsInOrder ==
    \A c \in Clients :
        /\ Past(store[c], telemetry, latest, udp, log)
        /\ AllPast(inbox[c], telemetry, latest, udp, log)
        /\ InOrder(inbox[c], store[c])

(* Where the connect and disconnect events of an inbox q are: the first     *)
(* event is a connect exactly while the flag con is down, the last one a    *)
(* disconnect exactly while the server holds no socket, and the events      *)
(* between are telemetry.                                                   *)
Shape(q, lnk, con) ==
    /\ \A i \in 1 .. Len(q) :
          /\ (q[i].type = "connect") = (i = 1 /\ ~ con)
          /\ (q[i].type = "disconnect") = (i = Len(q) /\ ~ lnk)
    /\ lnk # con => q # <<>>

InboxShape == \A c \in Clients : Shape(inbox[c], link[c], connected[c])

IInv == TypeOK /\ UdpInOrder /\ BackendInOrder /\ ClientsInOrder /\ InboxShape

----------------------------------------------------------------------------
(* Type correctness *)

LEMMA OneElement ==
    ASSUME NEW S, NEW q \in Seq(S), Len(q) <= 1, q # <<>>
    PROVE  Len(q) = 1 /\ q[1] \in S
  <1>1. \A n \in Nat : n <= 1 /\ n # 0 => n = 1
    OBVIOUS
  <1>2. Len(q) \in Nat /\ Len(q) # 0
    BY EmptySeq, LenProperties
  <1>3. Len(q) = 1
    BY <1>1, <1>2, Zenon
  <1> QED BY <1>3, ElementOfSeq

LEMMA FreshTyped == \A e \in Nat : Fresh(e) \in Snapshot
  BY DEF Fresh, Snapshot, Defaults, Dict

LEMMA EmitTyped ==
    \A t \in {"connect", "disconnect", "telemetry"}, s \in Snapshot :
        /\ Emit(t, s) \in Event
        /\ Emit(t, s).type = t /\ Emit(t, s).snap = s
  BY DEF Emit, Event

(* What a lost connection leaves in an inbox: a prefix and a disconnect, or *)
(* nothing.                                                                 *)
LEMMA LostEvents ==
    ASSUME NEW c \in Clients, inbox[c] \in Seq(Event), NEW k \in 0 .. Len(inbox[c])
    PROVE  /\ Lost(c, k) \in Seq(Event)
           /\ connected[c] \/ k > 0 =>
                 /\ Len(Lost(c, k)) = k + 1
                 /\ Lost(c, k)[k + 1].type = "disconnect"
                 /\ \A i \in 1 .. k : Lost(c, k)[i] = inbox[c][i]
           /\ ~ (connected[c] \/ k > 0) => Lost(c, k) = <<>>
  <1> DEFINE p == SubSeq(inbox[c], 1, k)
             d == Emit("disconnect", Fresh(0))
  <1>1. d \in Event /\ d.type = "disconnect"
    BY EmitTyped, FreshTyped
  <1>2. \A i \in 1 .. k : inbox[c][i] \in Event
    BY ElementOfSeq
  <1>3. /\ p \in Seq(Event) /\ Len(p) = k
        /\ \A i \in 1 .. k : p[i] = inbox[c][i]
    BY <1>2, SubSeqProperties, Z3
  <1>4. /\ Append(p, d) \in Seq(Event) /\ Len(Append(p, d)) = k + 1
        /\ Append(p, d)[k + 1] = d
        /\ \A i \in 1 .. k : Append(p, d)[i] = inbox[c][i]
    BY <1>1, <1>3, AppendProperties
  <1> QED BY <1>1, <1>4, EmptySeq DEF Lost

LEMMA GreetingEvents ==
    ASSUME TypeOK
    PROVE  /\ Greeting \in Seq(Event)
           /\ Len(Greeting) = Len(latest) + 1
           /\ Greeting[1].type = "connect"
           /\ Len(latest) = 1 => Greeting[2] = Emit("telemetry", latest[1])
  <1>1. Emit("connect", Fresh(0)) \in Event /\ Emit("connect", Fresh(0)).type = "connect"
    BY EmitTyped, FreshTyped
  <1>2. CASE latest = <<>>
    BY <1>1, <1>2 DEF Greeting, OnConnection
  <1>3. CASE latest # <<>>
    <2>2. Len(latest) = 1 /\ latest[1] \in Snapshot
      BY <1>3, OneElement DEF TypeOK
    <2>3. Emit("telemetry", latest[1]) \in Event
      BY <2>2, EmitTyped
    <2> QED BY <1>1, <1>3, <2>2, <2>3 DEF Greeting, OnConnection
  <1> QED BY <1>2, <1>3

LEMMA MergeFacts ==
    ASSUME NEW tel \in Snapshot, NEW p \in Packet
    PROVE  /\ Merge(tel, p) \in Snapshot
           /\ Merge(tel, p).epoch = tel.epoch
           /\ Merge(tel, p).seq = p.seq
           /\ Merge(tel, p).data = p.data
  BY DEF Merge, Snapshot, Packet, Dict

(* What a message does on the way: the dict d is logged and its packet may  *)
(* be under way, or nothing is forwarded.                                   *)
Forwards(d) ==
    \/ log' = log /\ udp' = udp
    \/ /\ log' = Append(log, d)
       /\ \/ udp' = udp
          \/ up /\ udp' = Append(udp, [seq |-> Len(log) + 1, data |-> d])

LEMMA BridgeForwards ==
    ASSUME TypeOK, NEW k \in Kinds, NEW b \in BOOLEAN, BridgeMessage(k, b)
    PROVE  /\ \E d \in Dict : Forwards(d)
           /\ messages' \in Nat
           /\ bridge' \in [pc : {"connecting", "offline", "running"}, dict : Dict]
  <1> DEFINE n == messages + 1
             d == IF k = Battery /\ ~ b THEN bridge.dict
                  ELSE [bridge.dict EXCEPT ![k] = n]
  <1>1. d \in Dict /\ n \in Nat
    BY DEF TypeOK, Dict
  <1>2. messages' = n /\ bridge' = [bridge EXCEPT !.dict = d]
    BY DEF BridgeMessage
  <1>3. Forwards(d)
    <2> HIDE DEF d
    <2> QED BY DEF BridgeMessage, Forwards, d
  <1> HIDE DEF d, n
  <1> QED BY <1>1, <1>2, <1>3 DEF TypeOK

(* Type correctness is inductive. *)
LEMMA TypeStep ==
    ASSUME TypeOK, [Next]_vars
    PROVE  TypeOK'
  <1> USE BoundsAssumption
  <1>1. CASE WaitHeartbeat \/ ConnectFails \/ RetryConnect
    BY <1>1 DEF TypeOK, WaitHeartbeat, ConnectFails, RetryConnect, backendVars, clientVars
  <1>2. ASSUME NEW k \in Kinds, NEW b \in BOOLEAN, BridgeMessage(k, b) PROVE TypeOK'
    <2>1. PICK d \in Dict : Forwards(d)
      BY <1>2, BridgeForwards
    <2>2. log' \in Seq(Dict)
      <3>1. log \in Seq(Dict) /\ Append(log, d) \in Seq(Dict)
        BY AppendProperties DEF TypeOK
      <3> QED BY <2>1, <3>1 DEF Forwards
    <2>3. [seq |-> Len(log) + 1, data |-> d] \in Packet
      BY LenProperties DEF TypeOK, Packet
    <2>4. udp' \in Seq(Packet)
      <3> DEFINE p == [seq |-> Len(log) + 1, data |-> d]
      <3>1. udp \in Seq(Packet) /\ Append(udp, p) \in Seq(Packet)
        BY <2>3, AppendProperties DEF TypeOK
      <3> QED BY <2>1, <3>1 DEF Forwards
    <2>5. messages' \in Nat /\ bridge' \in [pc : {"connecting", "offline", "running"}, dict : Dict]
      BY <1>2, BridgeForwards
    <2> QED BY <2>2, <2>4, <2>5, <1>2 DEF TypeOK, BridgeMessage, backendVars, clientVars
  <1>3. CASE BridgeRestart
    BY <1>3 DEF TypeOK, BridgeRestart, Defaults, Dict, backendVars, clientVars
  <1>4. CASE LosePacket
    BY <1>4 DEF TypeOK, LosePacket, bridgeVars, backendVars, clientVars
  <1>5. CASE LANMessage
    <2>1. Head(udp) \in Packet /\ udp' \in Seq(Packet)
      BY <1>5, HeadTailProperties DEF TypeOK, LANMessage
    <2>2. telemetry' \in Snapshot
      BY <1>5, <2>1, MergeFacts DEF TypeOK, LANMessage
    <2> QED BY <1>5, <2>1, <2>2 DEF TypeOK, LANMessage, bridgeVars, clientVars
  <1>6. CASE Broadcast
    <2>1. Emit("telemetry", telemetry) \in Event
      BY EmitTyped DEF TypeOK
    <2>2. inbox' \in [Clients -> Seq(Event)]
      BY <1>6, <2>1, AppendProperties DEF TypeOK, Broadcast
    <2>3. latest' \in Seq(Snapshot) /\ Len(latest') <= 1
      BY <1>6 DEF TypeOK, Broadcast
    <2> QED BY <1>6, <2>2, <2>3 DEF TypeOK, Broadcast, bridgeVars
  <1>7. ASSUME NEW cut \in [Clients -> 0 .. MaxInbox], BackendCrash(cut) PROVE TypeOK'
    <2>1. ASSUME NEW c \in Clients PROVE Lost(c, cut[c]) \in Seq(Event)
      BY <1>7, LostEvents DEF TypeOK, BackendCrash
    <2>2. inbox' \in [Clients -> Seq(Event)]
      BY <1>7, <2>1 DEF TypeOK, BackendCrash
    <2>3. link' \in [Clients -> BOOLEAN] /\ up' \in BOOLEAN
      BY <1>7 DEF BackendCrash
    <2>4. restarts' \in Nat /\ udp' \in Seq(Packet)
      BY <1>7 DEF TypeOK, BackendCrash
    <2> QED BY <1>7, <2>2, <2>3, <2>4 DEF TypeOK, BackendCrash, bridgeVars
  <1>8. CASE BackendStart
    <2>1. telemetry' \in Snapshot
      BY <1>8, FreshTyped DEF TypeOK, BackendStart, Snapshot
    <2> QED BY <1>8, <2>1 DEF TypeOK, BackendStart, bridgeVars, clientVars
  <1>9. ASSUME NEW c \in Clients, Connect(c) PROVE TypeOK'
    BY <1>9, GreetingEvents DEF TypeOK, Connect, bridgeVars, backendVars
  <1>10. ASSUME NEW c \in Clients, NEW k \in 0 .. Len(inbox[c]), DropLink(c, k)
         PROVE TypeOK'
    <2>1. Lost(c, k) \in Seq(Event)
      BY LostEvents DEF TypeOK
    <2> QED BY <1>10, <2>1 DEF TypeOK, DropLink, bridgeVars, backendVars
  <1>11. ASSUME NEW c \in Clients, HandleEvent(c) PROVE TypeOK'
    <2>1. Head(inbox[c]) \in Event /\ Tail(inbox[c]) \in Seq(Event)
      BY <1>11, HeadTailProperties DEF TypeOK, HandleEvent
    <2>2. /\ ConnectedAfter(c, Head(inbox[c])) \in BOOLEAN
          /\ Apply(c, Head(inbox[c])) \in Snapshot
      BY <2>1 DEF TypeOK, ConnectedAfter, Apply, Event
    <2> QED BY <1>11, <2>1, <2>2 DEF TypeOK, HandleEvent, bridgeVars, backendVars
  <1>12. CASE UNCHANGED vars
    BY <1>12 DEF TypeOK, vars, bridgeVars, backendVars, clientVars
  <1> QED BY <1>1, <1>2, <1>3, <1>4, <1>5, <1>6, <1>7, <1>8, <1>9, <1>10, <1>11, <1>12
          DEF Next

----------------------------------------------------------------------------
(* The order of what is in the backend *)

(* A longer log has the same packets at the same places. *)
LEMMA GenuineGrows ==
    ASSUME NEW l \in Seq(Dict), NEW d \in Dict, NEW e \in Nat, NEW s \in Snapshot,
           Genuine(s, e, l)
    PROVE  Genuine(s, e, Append(l, d))
  <1>1. /\ Len(l) \in Nat
        /\ Len(Append(l, d)) = Len(l) + 1
        /\ \A i \in 1 .. Len(l) : Append(l, d)[i] = l[i]
    BY AppendProperties, LenProperties
  <1>2. s.seq \in Nat /\ s.seq <= Len(l) /\ (s.seq # 0 => s.seq \in 1 .. Len(l))
    BY <1>1 DEF Genuine, Snapshot
  <1> HIDE DEF Snapshot
  <1> QED BY <1>1, <1>2 DEF Genuine

(* A step keeps the packets under way newer than what the parser holds. *)
LEMMA UdpStep ==
    ASSUME TypeOK, UdpInOrder, BackendInOrder, [Next]_vars
    PROVE  UdpInOrder'
  <1> USE BoundsAssumption
  <1>1. ASSUME udp' = udp, log' = log, telemetry' = telemetry, up' = up
        PROVE  UdpInOrder'
    BY <1>1 DEF UdpInOrder
  <1>2. ASSUME NEW k \in Kinds, NEW b \in BOOLEAN, BridgeMessage(k, b)
        PROVE  UdpInOrder'
    <2>1. PICK d \in Dict : Forwards(d)
      BY <1>2, BridgeForwards
    <2>2. up' = up /\ telemetry' = telemetry
      BY <1>2 DEF BridgeMessage, backendVars
    <2>3. CASE log' = log /\ udp' = udp
      BY <1>1, <2>2, <2>3
    <2>4. CASE log' = Append(log, d)
      <3> DEFINE p == [seq |-> Len(log) + 1, data |-> d]
      <3>1. /\ Len(log) \in Nat /\ Len(log') = Len(log) + 1
            /\ \A i \in 1 .. Len(log) : log'[i] = log[i]
            /\ log'[Len(log) + 1] = d
        BY <2>4, AppendProperties, LenProperties DEF TypeOK
      <3>2. \A i \in 1 .. Len(udp) :
              /\ udp[i].seq \in 1 .. Len(log)
              /\ udp[i].seq \in 1 .. Len(log')
              /\ udp[i].data = log'[udp[i].seq]
              /\ telemetry.seq < udp[i].seq
        BY <3>1 DEF UdpInOrder
      <3>3. CASE udp' = udp
        BY <2>2, <3>2, <3>3 DEF UdpInOrder
      <3>4. CASE up /\ udp' = Append(udp, p)
        <4>1. p \in Packet /\ p.seq = Len(log) + 1 /\ p.data = d
          BY <3>1 DEF Packet
        <4> HIDE DEF p
        <4>2. /\ Len(udp) \in Nat /\ Len(udp') = Len(udp) + 1
              /\ \A i \in 1 .. Len(udp) : udp'[i] = udp[i]
              /\ udp'[Len(udp) + 1] = p
          BY <3>4, <4>1, AppendProperties, LenProperties DEF TypeOK
        <4>3. telemetry.seq \in Nat /\ telemetry.seq < p.seq
          BY <3>1, <4>1 DEF TypeOK, Snapshot, BackendInOrder, Genuine
        <4>4. ASSUME NEW i \in 1 .. Len(udp')
              PROVE  /\ udp'[i].seq \in 1 .. Len(log')
                     /\ udp'[i].data = log'[udp'[i].seq]
                     /\ telemetry'.seq < udp'[i].seq
          <5>1. CASE i \in 1 .. Len(udp)
            BY <2>2, <3>2, <4>2, <5>1
          <5>2. CASE i = Len(udp) + 1
            BY <2>2, <3>1, <4>1, <4>2, <4>3, <5>2
          <5> QED BY <4>2, <5>1, <5>2
        <4>5. ASSUME NEW i \in 1 .. Len(udp'), NEW j \in 1 .. Len(udp'), i < j
              PROVE  udp'[i].seq < udp'[j].seq
          <5>1. i \in 1 .. Len(udp)
            BY <4>2, <4>5
          <5>2. CASE j \in 1 .. Len(udp)
            BY <4>2, <4>5, <5>1, <5>2 DEF UdpInOrder
          <5>3. CASE j = Len(udp) + 1
            BY <3>1, <3>2, <4>1, <4>2, <5>1, <5>3
          <5> QED BY <4>2, <5>2, <5>3
        <4> QED BY <2>2, <3>4, <4>4, <4>5 DEF UdpInOrder
      <3> QED BY <2>1, <2>4, <3>3, <3>4 DEF Forwards
    <2> QED BY <2>1, <2>3, <2>4 DEF Forwards
  <1>3. ASSUME udp # <<>>, udp' = Tail(udp), log' = log, up' = up,
               telemetry'.seq = telemetry.seq \/ telemetry'.seq = Head(udp).seq
        PROVE  UdpInOrder'
    <2>1. /\ Len(udp) \in Nat /\ Len(udp') = Len(udp) - 1 /\ Head(udp) = udp[1]
          /\ \A i \in 1 .. Len(udp') : udp'[i] = udp[i + 1]
      BY <1>3, HeadTailProperties, LenProperties DEF TypeOK
    <2>2. \A i \in 1 .. Len(udp') : i + 1 \in 1 .. Len(udp) /\ 1 \in 1 .. Len(udp) /\ 1 < i + 1
      BY <2>1
    <2>3. \A i \in 1 .. Len(udp') : telemetry'.seq < udp'[i].seq
      BY <1>3, <2>1, <2>2 DEF UdpInOrder
    <2>4. \A i, j \in 1 .. Len(udp') : i < j => i + 1 < j + 1
      BY <2>1
    <2>5. up
      BY <1>3 DEF UdpInOrder, TypeOK
    <2> QED BY <1>3, <2>1, <2>2, <2>3, <2>4, <2>5 DEF UdpInOrder
  <1>4. CASE LosePacket
    BY <1>3, <1>4 DEF LosePacket, bridgeVars, backendVars
  <1>5. CASE LANMessage
    <2>1. Head(udp) \in Packet
      BY <1>5, HeadTailProperties DEF TypeOK, LANMessage
    <2> QED BY <1>3, <1>5, <2>1, MergeFacts DEF TypeOK, LANMessage, bridgeVars
  <1>6. ASSUME NEW cut \in [Clients -> 0 .. MaxInbox], BackendCrash(cut)
        PROVE  UdpInOrder'
    <2>1. udp' = <<>>
      BY <1>6 DEF BackendCrash
    <2> QED BY <2>1 DEF UdpInOrder
  <1>7. CASE BackendStart
    <2>1. udp' = <<>>
      BY <1>7 DEF UdpInOrder, BackendStart
    <2> QED BY <2>1 DEF UdpInOrder
  <1> QED
    BY <1>1, <1>2, <1>4, <1>5, <1>6, <1>7
    DEF Next, WaitHeartbeat, ConnectFails, RetryConnect, BridgeRestart, Broadcast,
        Connect, DropLink, HandleEvent, vars, bridgeVars, backendVars, clientVars

(* A step keeps the parser's object and the last broadcast genuine. *)
LEMMA BackendStep ==
    ASSUME TypeOK, TypeOK', UdpInOrder, BackendInOrder, [Next]_vars
    PROVE  BackendInOrder'
  <1> USE BoundsAssumption
  <1>1. ASSUME log' = log, telemetry' = telemetry, latest' = latest
        PROVE  BackendInOrder'
    BY <1>1 DEF BackendInOrder
  <1>2. ASSUME NEW k \in Kinds, NEW b \in BOOLEAN, BridgeMessage(k, b)
        PROVE  BackendInOrder'
    <2>1. PICK d \in Dict : Forwards(d)
      BY <1>2, BridgeForwards
    <2>2. latest' = latest /\ telemetry' = telemetry
      BY <1>2 DEF BridgeMessage, backendVars
    <2>3. CASE log' = log
      BY <1>1, <2>2, <2>3
    <2>4. CASE log' = Append(log, d)
      <3>1. telemetry.epoch \in Nat /\ log \in Seq(Dict) /\ telemetry \in Snapshot
        BY DEF TypeOK, Snapshot
      <3>2. Genuine(telemetry, telemetry.epoch, log')
        BY <2>4, <3>1, GenuineGrows DEF BackendInOrder
      <3>3. ASSUME NEW i \in 1 .. Len(latest)
            PROVE  Genuine(latest[i], telemetry.epoch, log')
        <4>1. latest[i] \in Snapshot
          BY ElementOfSeq DEF TypeOK
        <4> QED BY <2>4, <3>1, <4>1, GenuineGrows DEF BackendInOrder
      <3> QED BY <2>2, <3>2, <3>3 DEF BackendInOrder
    <2> QED BY <2>1, <2>3, <2>4 DEF Forwards
  <1>3. CASE LANMessage
    <2>1. Head(udp) \in Packet /\ Head(udp) = udp[1] /\ 1 \in 1 .. Len(udp)
      BY <1>3, HeadTailProperties, LenProperties, EmptySeq DEF TypeOK, LANMessage
    <2>2. /\ telemetry'.epoch = telemetry.epoch /\ telemetry'.seq = udp[1].seq
          /\ telemetry'.data = udp[1].data /\ log' = log /\ latest' = latest
      BY <1>3, <2>1, MergeFacts DEF TypeOK, LANMessage, bridgeVars
    <2>3. /\ udp[1].seq \in 1 .. Len(log) /\ udp[1].data = log[udp[1].seq]
          /\ telemetry.seq < udp[1].seq
      BY <2>1 DEF UdpInOrder
    <2>4. telemetry.epoch \in Nat /\ Len(log) \in Nat /\ telemetry.seq \in Nat
      BY LenProperties DEF TypeOK, Snapshot
    <2>5. Genuine(telemetry', telemetry'.epoch, log')
      BY <2>2, <2>3, <2>4 DEF Genuine
    <2>6. \A i \in 1 .. Len(latest) : latest[i].seq \in Nat /\ latest[i].seq <= telemetry.seq
      <3>1. \A i \in 1 .. Len(latest) : latest[i] \in Snapshot
        BY ElementOfSeq DEF TypeOK
      <3> QED BY <3>1 DEF Snapshot, BackendInOrder
    <2>7. \A i \in 1 .. Len(latest) : latest[i].seq <= telemetry'.seq
      BY <2>2, <2>3, <2>4, <2>6
    <2> QED BY <2>2, <2>5, <2>7 DEF BackendInOrder
  <1>4. CASE Broadcast
    <2>1. /\ log' = log /\ telemetry' = telemetry /\ Len(latest') = 1
          /\ latest'[1] = telemetry
      BY <1>4 DEF Broadcast, bridgeVars
    <2>2. \A i \in 1 .. Len(latest') : latest'[i] = telemetry
      BY <2>1
    <2>3. telemetry.seq <= telemetry.seq
      BY DEF TypeOK, Snapshot
    <2> QED BY <2>1, <2>2, <2>3 DEF BackendInOrder
  <1>5. CASE BackendStart
    <2>1. /\ telemetry'.epoch = telemetry.epoch + 1 /\ telemetry'.seq = 0
          /\ telemetry'.data = Defaults /\ latest' = <<>>
      BY <1>5 DEF BackendStart, Fresh
    <2>2. telemetry.epoch \in Nat /\ Len(log') \in Nat
      BY LenProperties DEF TypeOK, Snapshot
    <2>3. Genuine(telemetry', telemetry'.epoch, log')
      BY <2>1, <2>2 DEF Genuine
    <2> QED BY <2>1, <2>2, <2>3 DEF BackendInOrder
  <1> QED
    BY <1>1, <1>2, <1>3, <1>4, <1>5
    DEF Next, WaitHeartbeat, ConnectFails, RetryConnect, BridgeRestart, LosePacket,
        BackendCrash, Connect, DropLink, HandleEvent,
        vars, bridgeVars, backendVars, clientVars

(* What has left the parser stays older than all that is behind it. *)
LEMMA PastStep ==
    ASSUME TypeOK, UdpInOrder, BackendInOrder, [Next]_vars,
           NEW s \in Snapshot, Past(s, telemetry, latest, udp, log)
    PROVE  Past(s, telemetry', latest', udp', log')
  <1> USE BoundsAssumption
  <1> DEFINE Goal == Past(s, telemetry', latest', udp', log')
  <1>0. s.seq \in Nat /\ s.epoch \in Nat /\ telemetry.seq \in Nat /\ telemetry.epoch \in Nat
    BY DEF TypeOK, Snapshot
  <1>1. ASSUME log' = log, telemetry' = telemetry, latest' = latest, udp' = udp
        PROVE  Goal
    BY <1>1
  <1>2. ASSUME NEW k \in Kinds, NEW b \in BOOLEAN, BridgeMessage(k, b) PROVE Goal
    <2>1. PICK d \in Dict : Forwards(d)
      BY <1>2, BridgeForwards
    <2>2. latest' = latest /\ telemetry' = telemetry
      BY <1>2 DEF BridgeMessage, backendVars
    <2>3. CASE log' = log /\ udp' = udp
      BY <1>1, <2>2, <2>3
    <2>4. CASE log' = Append(log, d)
      <3>1. Genuine(s, telemetry.epoch, log')
        BY <1>0, <2>4, GenuineGrows DEF TypeOK, Past
      <3>2. \A i \in 1 .. Len(udp') : s.seq < udp'[i].seq
        <4>1. CASE udp' = udp
          BY <4>1 DEF Past
        <4>2. CASE udp' = Append(udp, [seq |-> Len(log) + 1, data |-> d])
          <5> DEFINE p == [seq |-> Len(log) + 1, data |-> d]
          <5>1. Len(log) \in Nat /\ p \in Packet /\ p.seq = Len(log) + 1 /\ udp' = Append(udp, p)
            BY <4>2, LenProperties DEF TypeOK, Packet
          <5> HIDE DEF p
          <5>2. s.seq < p.seq
            BY <1>0, <5>1 DEF Past, Genuine
          <5>3. /\ Len(udp) \in Nat /\ Len(udp') = Len(udp) + 1
                /\ \A i \in 1 .. Len(udp) : udp'[i] = udp[i]
                /\ udp'[Len(udp) + 1] = p
            BY <5>1, AppendProperties, LenProperties DEF TypeOK
          <5> QED BY <5>2, <5>3 DEF Past
        <4> QED BY <2>1, <2>4, <4>1, <4>2 DEF Forwards
      <3> QED BY <2>2, <3>1, <3>2 DEF Past
    <2> QED BY <2>1, <2>3, <2>4 DEF Forwards
  <1>3. ASSUME udp # <<>>, udp' = Tail(udp)
        PROVE  \A i \in 1 .. Len(udp') : s.seq < udp'[i].seq
    <2>1. \A i \in 1 .. Len(udp') : i + 1 \in 1 .. Len(udp) /\ udp'[i] = udp[i + 1]
      BY <1>3, HeadTailProperties, LenProperties DEF TypeOK
    <2> QED BY <2>1 DEF Past
  <1>4. CASE LosePacket
    BY <1>3, <1>4 DEF LosePacket, Past, bridgeVars, backendVars
  <1>5. CASE LANMessage
    <2>1. Head(udp) \in Packet /\ Head(udp) = udp[1] /\ 1 \in 1 .. Len(udp)
      BY <1>5, HeadTailProperties, LenProperties, EmptySeq DEF TypeOK, LANMessage
    <2>2. /\ telemetry'.epoch = telemetry.epoch /\ telemetry'.seq = udp[1].seq
          /\ log' = log /\ latest' = latest
      BY <1>5, <2>1, MergeFacts DEF TypeOK, LANMessage, bridgeVars
    <2>3. udp[1].seq \in Nat /\ s.seq < udp[1].seq
      BY <2>1 DEF Past, Packet
    <2>4. Before(s, telemetry')
      BY <1>0, <2>2, <2>3 DEF Past, Before
    <2> QED BY <1>3, <1>5, <2>2, <2>4 DEF Past, LANMessage
  <1>6. CASE Broadcast
    <2>1. /\ log' = log /\ udp' = udp /\ telemetry' = telemetry
          /\ Len(latest') = 1 /\ latest'[1] = telemetry
      BY <1>6 DEF Broadcast, bridgeVars
    <2>2. \A i \in 1 .. Len(latest') : latest'[i] = telemetry
      BY <2>1
    <2> QED BY <2>1, <2>2 DEF Past
  <1>7. ASSUME NEW cut \in [Clients -> 0 .. MaxInbox], BackendCrash(cut) PROVE Goal
    <2>1. log' = log /\ udp' = <<>> /\ telemetry' = telemetry /\ latest' = latest
      BY <1>7 DEF BackendCrash, bridgeVars
    <2> QED BY <2>1 DEF Past
  <1>8. CASE BackendStart
    <2>1. /\ telemetry'.epoch = telemetry.epoch + 1 /\ telemetry'.seq = 0
          /\ latest' = <<>> /\ log' = log /\ udp' = udp
      BY <1>8 DEF BackendStart, Fresh, bridgeVars
    <2>2. s.epoch \in 0 .. telemetry.epoch
      BY DEF Past, Genuine
    <2>3. Genuine(s, telemetry'.epoch, log') /\ Before(s, telemetry')
      BY <1>0, <2>1, <2>2 DEF Past, Genuine, Before
    <2> QED BY <2>1, <2>3 DEF Past
  <1> QED
    BY <1>1, <1>2, <1>4, <1>5, <1>6, <1>7, <1>8
    DEF Next, WaitHeartbeat, ConnectFails, RetryConnect, BridgeRestart,
        Connect, DropLink, HandleEvent, vars, bridgeVars, backendVars, clientVars

----------------------------------------------------------------------------
(* The order of what is under way to a dashboard *)

(* An event that may follow all others may be appended. *)
LEMMA InOrderAppend ==
    ASSUME NEW q \in Seq(Event), NEW s \in Snapshot, NEW t \in Snapshot,
           InOrder(q, s), t.epoch >= 1, Before(s, t),
           \A i \in 1 .. Len(q) : q[i].type = "telemetry" => Before(q[i].snap, t)
    PROVE  InOrder(Append(q, Emit("telemetry", t)), s)
  <1> DEFINE e == Emit("telemetry", t)
             r == Append(q, e)
  <1>1. e \in Event /\ e.type = "telemetry" /\ e.snap = t
    BY EmitTyped
  <1> HIDE DEF e
  <1>2. /\ Len(q) \in Nat /\ Len(r) = Len(q) + 1 /\ r[Len(q) + 1] = e
        /\ \A i \in 1 .. Len(q) : r[i] = q[i]
    BY <1>1, AppendProperties, LenProperties
  <1> HIDE DEF r
  <1>3. \A i \in 1 .. Len(r) : i \in 1 .. Len(q) \/ i = Len(q) + 1
    BY <1>2
  <1>4. ASSUME NEW i \in 1 .. Len(r), r[i].type = "telemetry"
        PROVE  r[i].snap.epoch >= 1 /\ Before(s, r[i].snap)
    BY <1>1, <1>2, <1>3, <1>4 DEF InOrder
  <1>5. ASSUME NEW i \in 1 .. Len(r), NEW j \in 1 .. Len(r), i < j,
               r[i].type = "telemetry", r[j].type = "telemetry"
        PROVE  Before(r[i].snap, r[j].snap)
    <2>1. i \in 1 .. Len(q)
      BY <1>2, <1>5
    <2>2. CASE j \in 1 .. Len(q)
      BY <1>2, <1>5, <2>1, <2>2 DEF InOrder
    <2>3. CASE j = Len(q) + 1
      BY <1>1, <1>2, <1>5, <2>1, <2>3
    <2> QED BY <1>3, <2>2, <2>3
  <1>6. InOrder(r, s)
    BY <1>4, <1>5 DEF InOrder
  <1> QED BY <1>6 DEF r, e

(* Handling the first event leaves the others in order. *)
LEMMA InOrderTail ==
    ASSUME NEW q \in Seq(Event), q # <<>>, NEW s \in Snapshot, InOrder(q, s)
    PROVE  InOrder(Tail(q), IF Head(q).type = "telemetry" THEN Head(q).snap ELSE s)
  <1> DEFINE r == Tail(q)
             t == IF Head(q).type = "telemetry" THEN Head(q).snap ELSE s
  <1>1. /\ Len(q) \in Nat /\ 1 \in 1 .. Len(q) /\ Head(q) = q[1]
        /\ Len(r) = Len(q) - 1
        /\ \A i \in 1 .. Len(r) : r[i] = q[i + 1]
    BY HeadTailProperties, LenProperties, EmptySeq
  <1> HIDE DEF r
  <1>2. \A i \in 1 .. Len(r) : i + 1 \in 1 .. Len(q) /\ 1 < i + 1
    BY <1>1
  <1>3. ASSUME NEW i \in 1 .. Len(r), r[i].type = "telemetry"
        PROVE  r[i].snap.epoch >= 1 /\ Before(t, r[i].snap)
    BY <1>1, <1>2, <1>3 DEF InOrder
  <1>4. ASSUME NEW i \in 1 .. Len(r), NEW j \in 1 .. Len(r), i < j,
               r[i].type = "telemetry", r[j].type = "telemetry"
        PROVE  Before(r[i].snap, r[j].snap)
    <2>1. i + 1 < j + 1
      BY <1>1, <1>4
    <2> QED BY <1>1, <1>2, <1>4, <2>1 DEF InOrder
  <1> HIDE DEF t
  <1>5. InOrder(r, t)
    BY <1>3, <1>4 DEF InOrder
  <1> QED BY <1>5 DEF r, t

(* A lost connection loses a suffix of the telemetry. *)
LEMMA InOrderLost ==
    ASSUME NEW c \in Clients, inbox[c] \in Seq(Event), NEW k \in 0 .. Len(inbox[c])
    PROVE  /\ \A s : InOrder(inbox[c], s) => InOrder(Lost(c, k), s)
           /\ \A tel, lat, u, l :
                 AllPast(inbox[c], tel, lat, u, l) => AllPast(Lost(c, k), tel, lat, u, l)
  <1> DEFINE q == Lost(c, k)
  <1>1. /\ \A i \in 1 .. Len(q) : q[i].type = "telemetry" =>
              i \in 1 .. Len(inbox[c]) /\ q[i] = inbox[c][i]
    <2>1. CASE connected[c] \/ k > 0
      <3>1. /\ Len(q) = k + 1 /\ q[k + 1].type = "disconnect"
            /\ \A i \in 1 .. k : q[i] = inbox[c][i]
        BY <2>1, LostEvents
      <3>2. \A i \in 1 .. Len(q) : i \in 1 .. k \/ i = k + 1
        BY <3>1
      <3>3. \A i \in 1 .. k : i \in 1 .. Len(inbox[c])
        BY LenProperties
      <3> HIDE DEF q
      <3> QED BY <3>1, <3>2, <3>3
    <2>2. CASE ~ (connected[c] \/ k > 0)
      <3>1. Len(q) = 0
        BY <2>2, LostEvents, EmptySeq
      <3> HIDE DEF q
      <3> QED BY <3>1
    <2> QED BY <2>1, <2>2
  <1> HIDE DEF q
  <1>2. \A s : InOrder(inbox[c], s) => InOrder(q, s)
    BY <1>1 DEF InOrder
  <1>3. \A tel, lat, u, l : AllPast(inbox[c], tel, lat, u, l) => AllPast(q, tel, lat, u, l)
    BY <1>1 DEF AllPast
  <1> QED BY <1>2, <1>3 DEF q

(* The events of a new connection are in order and past. *)
LEMMA GreetingOK ==
    ASSUME TypeOK, UdpInOrder, BackendInOrder, NEW s \in Snapshot,
           Past(s, telemetry, latest, udp, log)
    PROVE  InOrder(Greeting, s) /\ AllPast(Greeting, telemetry, latest, udp, log)
  <1>1. CASE latest = <<>>
    <2>1. Len(Greeting) = 1 /\ Greeting[1].type = "connect"
      BY <1>1, GreetingEvents
    <2>2. \A i \in 1 .. Len(Greeting) : Greeting[i].type # "telemetry"
      BY <2>1
    <2> QED BY <2>2 DEF InOrder, AllPast
  <1>2. CASE latest # <<>>
    <2>1. Len(latest) = 1 /\ latest[1] \in Snapshot
      BY <1>2, OneElement DEF TypeOK
    <2>2. /\ Len(Greeting) = 2 /\ Greeting[1].type = "connect"
          /\ Greeting[2].snap = latest[1]
      BY <2>1, GreetingEvents, EmitTyped
    <2>3. \A i \in 1 .. Len(Greeting) : Greeting[i].type = "telemetry" => i = 2
      BY <2>2
    <2>4. 1 \in 1 .. Len(latest) /\ \A i \in 1 .. Len(latest) : i = 1
      BY <2>1
    <2>5. /\ latest[1].epoch = telemetry.epoch /\ telemetry.epoch >= 1
          /\ latest[1].seq <= telemetry.seq
          /\ Genuine(latest[1], telemetry.epoch, log)
      BY <2>4 DEF BackendInOrder
    <2>6. latest[1].seq \in Nat /\ telemetry.seq \in Nat
      BY <2>1 DEF TypeOK, Snapshot
    <2>7. Before(latest[1], telemetry) /\ Before(latest[1], latest[1])
      BY <2>5, <2>6 DEF Before
    <2>8. \A i \in 1 .. Len(udp) : latest[1].seq < udp[i].seq
      <3>1. \A i \in 1 .. Len(udp) : udp[i].seq \in Nat /\ telemetry.seq < udp[i].seq
        BY LenProperties DEF UdpInOrder, TypeOK
      <3> QED BY <2>5, <2>6, <3>1
    <2>9. Past(latest[1], telemetry, latest, udp, log)
      BY <2>4, <2>5, <2>7, <2>8 DEF Past
    <2>10. Before(s, latest[1])
      BY <2>4 DEF Past
    <2>11. AllPast(Greeting, telemetry, latest, udp, log)
      BY <2>2, <2>3, <2>9 DEF AllPast
    <2>12. \A i, j \in 1 .. Len(Greeting) :
             ~ (i < j /\ Greeting[i].type = "telemetry" /\ Greeting[j].type = "telemetry")
      BY <2>2, <2>3
    <2> QED BY <2>2, <2>3, <2>5, <2>10, <2>11, <2>12 DEF InOrder
  <1> QED BY <1>1, <1>2

(* A step keeps every dashboard behind the backend, its events in order. *)
LEMMA ClientsStep ==
    ASSUME TypeOK, UdpInOrder, BackendInOrder, ClientsInOrder, [Next]_vars
    PROVE  ClientsInOrder'
  <1> USE BoundsAssumption
  <1> DEFINE Now(q) == AllPast(q, telemetry, latest, udp, log)
             Then(q) == AllPast(q, telemetry', latest', udp', log')
             ThenPast(s) == Past(s, telemetry', latest', udp', log')
             Kept(c) == ThenPast(store'[c]) /\ Then(inbox'[c]) /\ InOrder(inbox'[c], store'[c])
  <1>1. SUFFICES ASSUME NEW c \in Clients PROVE Kept(c)
    BY DEF ClientsInOrder
  <1>2. /\ inbox[c] \in Seq(Event) /\ store[c] \in Snapshot
        /\ Past(store[c], telemetry, latest, udp, log) /\ Now(inbox[c])
        /\ InOrder(inbox[c], store[c])
    BY DEF TypeOK, ClientsInOrder
  <1>3. ThenPast(store[c])
    BY <1>2, PastStep
  <1>4. ASSUME NEW q \in Seq(Event), Now(q) PROVE Then(q)
    <2>1. ASSUME NEW i \in 1 .. Len(q), q[i].type = "telemetry" PROVE ThenPast(q[i].snap)
      <3>1. q[i].snap \in Snapshot
        <4>1. q[i] \in Event
          BY ElementOfSeq
        <4> QED BY <4>1 DEF Event
      <3>2. Past(q[i].snap, telemetry, latest, udp, log)
        BY <1>4, <2>1 DEF AllPast
      <3> QED BY <3>1, <3>2, PastStep
    <2> QED BY <2>1 DEF AllPast
  <1>5. Then(inbox[c])
    BY <1>2, <1>4
  <1> HIDE DEF Now, Then, ThenPast
  <1>6. ASSUME inbox' = inbox, store' = store PROVE Kept(c)
    BY <1>2, <1>3, <1>5, <1>6
  <1>7. CASE Broadcast
    <2>1. /\ store' = store
          /\ inbox'[c] = IF link[c] THEN Append(inbox[c], Emit("telemetry", telemetry))
                         ELSE inbox[c]
      BY <1>7 DEF Broadcast
    <2>2. telemetry \in Snapshot /\ telemetry.seq \in Nat /\ telemetry.epoch \in Nat
      BY DEF TypeOK, Snapshot
    <2>3. Past(telemetry, telemetry, <<>>, udp, log)
      BY <2>2 DEF Past, Before, UdpInOrder, BackendInOrder
    <2>4. Past(telemetry, telemetry, latest', udp, log)
      <3>1. \A i \in 1 .. Len(latest') : latest'[i] = telemetry
        BY <1>7 DEF Broadcast
      <3> QED BY <2>3, <3>1 DEF Past
    <2>5. ThenPast(telemetry)
      BY <1>7, <2>4 DEF Broadcast, ThenPast, bridgeVars
    <2>6. \A i \in 1 .. Len(inbox[c]) :
            inbox[c][i].type = "telemetry" => Before(inbox[c][i].snap, telemetry)
      BY <1>2 DEF Now, AllPast, Past
    <2>7. Before(store[c], telemetry) /\ telemetry.epoch >= 1
      BY <1>2 DEF Past, BackendInOrder
    <2> DEFINE e == Emit("telemetry", telemetry)
               r == Append(inbox[c], e)
    <2>8. InOrder(r, store[c])
      BY <1>2, <2>2, <2>6, <2>7, InOrderAppend
    <2>9. Then(r)
      <3>1. e \in Event /\ e.snap = telemetry
        BY <2>2, EmitTyped
      <3> HIDE DEF e
      <3>2. /\ Len(inbox[c]) \in Nat /\ Len(r) = Len(inbox[c]) + 1
            /\ r[Len(inbox[c]) + 1] = e
            /\ \A i \in 1 .. Len(inbox[c]) : r[i] = inbox[c][i]
        BY <1>2, <3>1, AppendProperties, LenProperties
      <3> HIDE DEF r
      <3>3. \A i \in 1 .. Len(r) : i \in 1 .. Len(inbox[c]) \/ i = Len(inbox[c]) + 1
        BY <3>2
      <3> QED BY <1>5, <2>5, <3>1, <3>2, <3>3 DEF Then, ThenPast, AllPast
    <2> QED BY <1>2, <1>3, <1>5, <2>1, <2>8, <2>9
  <1>8. ASSUME NEW k \in 0 .. Len(inbox[c]) PROVE Then(Lost(c, k)) /\ InOrder(Lost(c, k), store[c])
    BY <1>2, <1>5, InOrderLost DEF Then
  <1>9. ASSUME NEW cut \in [Clients -> 0 .. MaxInbox], BackendCrash(cut) PROVE Kept(c)
    <2>1. /\ store' = store /\ cut[c] \in 0 .. Len(inbox[c])
          /\ inbox'[c] = IF link[c] THEN Lost(c, cut[c]) ELSE inbox[c]
      BY <1>2, <1>9, LenProperties DEF BackendCrash
    <2> QED BY <1>2, <1>3, <1>5, <1>8, <2>1
  <1>10. ASSUME NEW d \in Clients, NEW k \in 0 .. Len(inbox[d]), DropLink(d, k) PROVE Kept(c)
    <2>1. store' = store /\ inbox'[c] = IF c = d THEN Lost(c, k) ELSE inbox[c]
      BY <1>10 DEF TypeOK, DropLink
    <2> QED BY <1>2, <1>3, <1>5, <1>8, <2>1
  <1>11. ASSUME NEW d \in Clients, Connect(d) PROVE Kept(c)
    <2>1. store' = store /\ inbox'[c] = IF c = d THEN Greeting ELSE inbox[c]
      BY <1>11 DEF TypeOK, Connect
    <2>2. Greeting \in Seq(Event) /\ InOrder(Greeting, store[c]) /\ Now(Greeting)
      BY <1>2, GreetingEvents, GreetingOK DEF Now
    <2> QED BY <1>2, <1>3, <1>4, <1>5, <2>1, <2>2
  <1>12. ASSUME NEW d \in Clients, HandleEvent(d) PROVE Kept(c)
    <2>1. CASE c # d
      <3>1. store'[c] = store[c] /\ inbox'[c] = inbox[c]
        BY <1>12, <2>1 DEF TypeOK, HandleEvent
      <3> QED BY <1>2, <1>3, <1>5, <3>1
    <2>2. CASE c = d
      <3> DEFINE e == Head(inbox[c])
                 q == Tail(inbox[c])
      <3>1. /\ inbox[c] # <<>> /\ inbox'[c] = q
            /\ store'[c] = IF e.type = "telemetry" THEN e.snap ELSE store[c]
        BY <1>12, <2>2 DEF TypeOK, HandleEvent, Apply
      <3>2. InOrder(q, store'[c])
        BY <1>2, <3>1, InOrderTail
      <3>3. /\ e = inbox[c][1] /\ 1 \in 1 .. Len(inbox[c])
            /\ \A i \in 1 .. Len(q) : i + 1 \in 1 .. Len(inbox[c]) /\ q[i] = inbox[c][i + 1]
        BY <1>2, <3>1, HeadTailProperties, LenProperties, EmptySeq
      <3> HIDE DEF e, q
      <3>4. Then(q)
        BY <1>5, <3>3 DEF Then, AllPast
      <3>5. ThenPast(store'[c])
        BY <1>3, <1>5, <3>1, <3>3 DEF Then, ThenPast, AllPast
      <3> QED BY <3>1, <3>2, <3>4, <3>5
    <2> QED BY <2>1, <2>2
  <1> HIDE DEF Kept
  <1> QED
    BY <1>6, <1>7, <1>9, <1>10, <1>11, <1>12
    DEF Next, WaitHeartbeat, ConnectFails, RetryConnect, BridgeMessage, BridgeRestart,
        LosePacket, LANMessage, BackendStart, vars, bridgeVars, backendVars, clientVars

----------------------------------------------------------------------------
(* Where the connection events are *)

LEMMA ShapeStep ==
    ASSUME TypeOK, InboxShape, [Next]_vars
    PROVE  InboxShape'
  <1> USE BoundsAssumption
  <1> DEFINE Goal(c) == Shape(inbox'[c], link'[c], connected'[c])
  <1>1. SUFFICES ASSUME NEW c \in Clients PROVE Goal(c)
    BY DEF InboxShape
  <1>2. /\ inbox[c] \in Seq(Event) /\ link[c] \in BOOLEAN /\ connected[c] \in BOOLEAN
        /\ Len(inbox[c]) \in Nat
        /\ Shape(inbox[c], link[c], connected[c])
    BY LenProperties DEF TypeOK, InboxShape
  <1>3. ASSUME inbox'[c] = inbox[c], link'[c] = link[c], connected'[c] = connected[c]
        PROVE  Goal(c)
    BY <1>2, <1>3
  <1>4. CASE Broadcast
    <2> DEFINE e == Emit("telemetry", telemetry)
               r == Append(inbox[c], e)
    <2>1. /\ link' = link /\ connected' = connected
          /\ inbox'[c] = IF link[c] THEN r ELSE inbox[c]
      BY <1>4 DEF Broadcast
    <2>2. CASE ~ link[c]
      BY <1>3, <2>1, <2>2
    <2>3. CASE link[c]
      <3>1. e \in Event /\ e.type = "telemetry"
        BY EmitTyped DEF TypeOK
      <3> HIDE DEF e
      <3>2. /\ Len(r) = Len(inbox[c]) + 1 /\ r[Len(inbox[c]) + 1] = e
            /\ r # <<>>
            /\ \A i \in 1 .. Len(inbox[c]) : r[i] = inbox[c][i]
        BY <1>2, <3>1, AppendProperties
      <3> HIDE DEF r
      <3>3. \A i \in 1 .. Len(r) : i \in 1 .. Len(inbox[c]) \/ i = Len(inbox[c]) + 1
        BY <1>2, <3>2
      <3>4. ~ connected[c] => Len(inbox[c]) # 0
        BY <1>2, <2>3, EmptySeq DEF Shape
      <3>5. ASSUME NEW i \in 1 .. Len(r)
            PROVE  /\ (r[i].type = "connect") = (i = 1 /\ ~ connected[c])
                   /\ (r[i].type = "disconnect") = (i = Len(r) /\ ~ link[c])
        BY <1>2, <2>3, <3>1, <3>2, <3>3, <3>4 DEF Shape
      <3>6. Shape(r, link[c], connected[c])
        BY <3>2, <3>5 DEF Shape
      <3> QED BY <2>1, <2>3, <3>6
    <2> QED BY <2>2, <2>3
  <1>5. ASSUME NEW k \in 0 .. Len(inbox[c]), link[c]
        PROVE  Shape(Lost(c, k), FALSE, connected[c])
    <2> DEFINE q == Lost(c, k)
    <2>1. CASE connected[c] \/ k > 0
      <3>1. /\ Len(q) = k + 1 /\ q[k + 1].type = "disconnect" /\ q # <<>>
            /\ \A i \in 1 .. k : q[i] = inbox[c][i]
        BY <1>2, <2>1, LostEvents, EmptySeq
      <3> HIDE DEF q
      <3>2. \A i \in 1 .. Len(q) : i \in 1 .. k \/ i = k + 1
        BY <3>1
      <3>3. \A i \in 1 .. k : i \in 1 .. Len(inbox[c]) /\ i # k + 1
        BY <1>2
      <3>4. ASSUME NEW i \in 1 .. Len(q)
            PROVE  /\ (q[i].type = "connect") = (i = 1 /\ ~ connected[c])
                   /\ (q[i].type = "disconnect") = (i = Len(q) /\ ~ FALSE)
        <4>1. CASE i \in 1 .. k
          BY <1>2, <1>5, <3>1, <3>3, <4>1 DEF Shape
        <4>2. CASE i = k + 1
          BY <2>1, <3>1, <4>2
        <4> QED BY <3>2, <4>1, <4>2
      <3>5. Shape(q, FALSE, connected[c])
        BY <3>1, <3>4 DEF Shape
      <3> QED BY <3>5 DEF q
    <2>2. CASE ~ (connected[c] \/ k > 0)
      <3>1. q = <<>> /\ Len(<<>>) = 0
        BY <1>2, <2>2, LostEvents, EmptySeq
      <3>2. connected[c] = FALSE
        BY <1>2, <2>2
      <3>3. Shape(<<>>, FALSE, FALSE)
        BY <3>1 DEF Shape
      <3> QED BY <3>1, <3>2, <3>3
    <2> QED BY <2>1, <2>2
  <1>6. ASSUME NEW cut \in [Clients -> 0 .. MaxInbox], BackendCrash(cut) PROVE Goal(c)
    <2>1. /\ connected' = connected /\ cut[c] \in 0 .. Len(inbox[c]) /\ link'[c] = FALSE
          /\ inbox'[c] = IF link[c] THEN Lost(c, cut[c]) ELSE inbox[c]
      BY <1>2, <1>6 DEF BackendCrash
    <2>2. CASE link[c]
      BY <1>5, <2>1, <2>2
    <2>3. CASE ~ link[c]
      BY <1>2, <1>3, <2>1, <2>3
    <2> QED BY <2>2, <2>3
  <1>7. ASSUME NEW d \in Clients, NEW k \in 0 .. Len(inbox[d]), DropLink(d, k) PROVE Goal(c)
    <2>1. CASE c = d
      <3>1. /\ link[c] /\ link'[c] = FALSE /\ connected' = connected
            /\ inbox'[c] = Lost(c, k)
        BY <1>7, <2>1 DEF TypeOK, DropLink
      <3> QED BY <1>5, <2>1, <3>1
    <2>2. CASE c # d
      BY <1>3, <1>7, <2>2 DEF TypeOK, DropLink
    <2> QED BY <2>1, <2>2
  <1>8. ASSUME NEW d \in Clients, Connect(d) PROVE Goal(c)
    <2>1. CASE c = d
      <3>1. /\ connected[c] = FALSE /\ connected' = connected /\ link'[c] = TRUE
            /\ inbox'[c] = Greeting
        BY <1>2, <1>8, <2>1 DEF TypeOK, Connect
      <3>2. /\ Greeting \in Seq(Event) /\ Len(Greeting) \in {1, 2}
            /\ Greeting[1].type = "connect"
            /\ Len(Greeting) = 2 => Greeting[2].type = "telemetry"
        <4>1. CASE latest = <<>>
          BY <4>1, GreetingEvents, EmptySeq
        <4>2. CASE latest # <<>>
          <5>1. Len(latest) = 1 /\ latest[1] \in Snapshot
            BY <4>2, OneElement DEF TypeOK
          <5> QED BY <5>1, GreetingEvents, EmitTyped
        <4> QED BY <4>1, <4>2
      <3>3. Greeting # <<>>
        BY <3>2, EmptySeq
      <3>4. \A i \in 1 .. Len(Greeting) : i = 1 \/ (i = 2 /\ Len(Greeting) = 2)
        <4>1. \A n \in {1, 2} : \A i \in 1 .. n : i = 1 \/ (i = 2 /\ n = 2)
          OBVIOUS
        <4> QED BY <3>2, <4>1, Zenon
      <3>5. Shape(Greeting, TRUE, FALSE)
        BY <3>2, <3>3, <3>4 DEF Shape
      <3> QED BY <3>1, <3>5
    <2>2. CASE c # d
      BY <1>3, <1>8, <2>2 DEF TypeOK, Connect
    <2> QED BY <2>1, <2>2
  <1>9. ASSUME NEW d \in Clients, HandleEvent(d) PROVE Goal(c)
    <2>1. CASE c = d
      <3> DEFINE e == Head(inbox[c])
                 q == Tail(inbox[c])
      <3>1. /\ inbox[c] # <<>> /\ inbox'[c] = q /\ link' = link
            /\ connected'[c] = (e.type = "connect" \/ (e.type = "telemetry" /\ connected[c]))
        BY <1>9, <2>1 DEF TypeOK, HandleEvent, ConnectedAfter
      <3>2. /\ e = inbox[c][1] /\ 1 \in 1 .. Len(inbox[c]) /\ e \in Event
            /\ Len(q) = Len(inbox[c]) - 1 /\ q \in Seq(Event)
            /\ \A i \in 1 .. Len(q) : q[i] = inbox[c][i + 1]
        BY <1>2, <3>1, HeadTailProperties, EmptySeq
      <3>3. e.type \in {"connect", "disconnect", "telemetry"}
        BY <3>2 DEF Event
      <3> HIDE DEF e, q
      <3>4. /\ (e.type = "connect") = ~ connected[c]
            /\ (e.type = "disconnect") = (1 = Len(inbox[c]) /\ ~ link[c])
        BY <1>2, <3>2 DEF Shape
      <3>5. \A i \in 1 .. Len(q) : i + 1 \in 1 .. Len(inbox[c]) /\ i + 1 # 1
        BY <1>2, <3>2
      <3>6. ASSUME NEW i \in 1 .. Len(q)
            PROVE  /\ (q[i].type = "connect") = FALSE
                   /\ (q[i].type = "disconnect") = (i = Len(q) /\ ~ link[c])
        <4>1. (i + 1 = Len(inbox[c])) = (i = Len(q))
          BY <1>2, <3>2
        <4> QED BY <1>2, <3>2, <3>5, <4>1 DEF Shape
      <3>7. connected'[c] = ~ (Len(q) = 0 /\ ~ link[c])
        <4>1. (1 = Len(inbox[c])) = (Len(q) = 0)
          BY <1>2, <3>2
        <4> QED BY <1>2, <3>1, <3>3, <3>4, <4>1
      <3>8. (q = <<>>) = (Len(q) = 0)
        BY <3>2, EmptySeq
      <3>9. Shape(q, link[c], connected'[c])
        <4>1. \A i \in 1 .. Len(q) : connected'[c]
          <5>1. \A i \in 1 .. Len(q) : Len(q) # 0
            BY <1>2, <3>2
          <5>2. Len(q) # 0 => connected'[c]
            BY <3>7, Zenon
          <5> QED BY <5>1, <5>2, Zenon
        <4>2. link[c] # connected'[c] => q # <<>>
          BY <1>2, <3>7, <3>8
        <4> QED BY <3>6, <4>1, <4>2 DEF Shape
      <3> QED BY <3>1, <3>9
    <2>2. CASE c # d
      BY <1>3, <1>9, <2>2 DEF TypeOK, HandleEvent
    <2> QED BY <2>1, <2>2
  <1> HIDE DEF Goal
  <1> QED
    BY <1>3, <1>4, <1>6, <1>7, <1>8, <1>9
    DEF Next, WaitHeartbeat, ConnectFails, RetryConnect, BridgeMessage, BridgeRestart,
        LosePacket, LANMessage, BackendStart, vars, bridgeVars, backendVars, clientVars

----------------------------------------------------------------------------
(* The theorems *)

LEMMA InitIInv == Init => IInv
  <1> SUFFICES ASSUME Init PROVE IInv
    OBVIOUS
  <1>1. /\ Len(log) = 0 /\ Len(udp) = 0 /\ Len(latest) = 0 /\ Len(<<>>) = 0
        /\ telemetry = Fresh(1)
    BY EmptySeq DEF Init
  <1>2. Fresh(0) \in Snapshot /\ Fresh(1) \in Snapshot
    BY FreshTyped
  <1>3. TypeOK
    <2>1. \A S : <<>> \in Seq(S)
      BY EmptySeq
    <2> QED BY <1>1, <1>2, <2>1 DEF Init, TypeOK, Defaults, Dict
  <1>4. UdpInOrder
    BY <1>1 DEF Init, UdpInOrder
  <1>5. \A e \in {0, 1} : Genuine(Fresh(e), 1, log)
    BY <1>1 DEF Genuine, Fresh
  <1>6. BackendInOrder
    <2>1. Fresh(1).epoch = 1
      BY DEF Fresh
    <2> QED BY <1>1, <1>5, <2>1 DEF BackendInOrder
  <1>7. ClientsInOrder
    <2>1. Past(Fresh(0), telemetry, latest, udp, log)
      BY <1>1, <1>5 DEF Past, Before, Fresh
    <2>2. \A c \in Clients : store[c] = Fresh(0) /\ inbox[c] = <<>>
      BY DEF Init
    <2>3. InOrder(<<>>, Fresh(0)) /\ AllPast(<<>>, telemetry, latest, udp, log)
      BY <1>1 DEF AllPast, InOrder
    <2> QED BY <2>1, <2>2, <2>3 DEF ClientsInOrder
  <1>8. InboxShape
    <2>1. \A c \in Clients : inbox[c] = <<>> /\ link[c] = FALSE /\ connected[c] = FALSE
      BY DEF Init
    <2>2. Shape(<<>>, FALSE, FALSE)
      BY <1>1 DEF Shape
    <2> QED BY <2>1, <2>2 DEF InboxShape
  <1> QED BY <1>3, <1>4, <1>6, <1>7, <1>8 DEF IInv

(* The invariant holds in every state: Spec's fairness is not needed. *)
LEMMA Invariance == Spec => []IInv
  <1>1. IInv /\ [Next]_vars => IInv'
    BY TypeStep, UdpStep, BackendStep, ClientsStep, ShapeStep DEF IInv
  <1> QED BY <1>1, InitIInv, PTL DEF Spec

(* Bridge, socket, parser, connection and store keep their types. *)
THEOREM TypeCorrect == Spec => []TypeOK
  <1>1. IInv => TypeOK
    BY DEF IInv
  <1> QED BY <1>1, Invariance, PTL

(* However connections, crashes and broadcasts interleave, a wrong          *)
(* connected flag of useSocket.js has its correction under way: a connect   *)
(* heads the inbox, or a disconnect ends it.                                *)
THEOREM FlagCorrected == Spec => []FlagWillBeCorrected
  <1>1. IInv => FlagWillBeCorrected
    <2> SUFFICES ASSUME IInv, NEW c \in Clients, connected[c] # link[c]
                 PROVE  \E i \in 1 .. Len(inbox[c]) :
                          inbox[c][i].type = IF link[c] THEN "connect" ELSE "disconnect"
      BY DEF FlagWillBeCorrected
    <2>1. /\ Shape(inbox[c], link[c], connected[c]) /\ inbox[c] \in Seq(Event)
          /\ link[c] \in BOOLEAN /\ connected[c] \in BOOLEAN
      BY DEF IInv, InboxShape, TypeOK
    <2>2. Len(inbox[c]) \in Nat /\ Len(inbox[c]) # 0
      BY <2>1, EmptySeq, LenProperties DEF Shape
    <2>3. 1 \in 1 .. Len(inbox[c]) /\ Len(inbox[c]) \in 1 .. Len(inbox[c])
      BY <2>2
    <2>4. CASE link[c]
      <3>1. inbox[c][1].type = "connect"
        BY <2>1, <2>3, <2>4 DEF Shape
      <3> QED BY <2>3, <2>4, <3>1
    <2>5. CASE ~ link[c]
      <3>1. inbox[c][Len(inbox[c])].type = "disconnect"
        BY <2>1, <2>3, <2>5 DEF Shape
      <3> QED BY <2>3, <2>5, <3>1
    <2> QED BY <2>4, <2>5
  <1> QED BY <1>1, Invariance, PTL

(* The telemetry on a dashboard changes only while it says it is connected, *)
(* because the snapshot that server.js emits on connection is queued behind *)
(* the connect event that useSocket.js handles first.                       *)
THEOREM ShownWhileConnected == Spec => ShownOnlyWhileConnected
  <1>1. IInv /\ [Next]_vars =>
          [\A c \in Clients : store'[c] # store[c] => connected[c]]_vars
    <2> SUFFICES ASSUME IInv, [Next]_vars, NEW c \in Clients, store'[c] # store[c]
                 PROVE  connected[c]
      OBVIOUS
    <2>1. HandleEvent(c)
      <3>1. ASSUME NEW d \in Clients, HandleEvent(d), d # c PROVE FALSE
        BY <3>1 DEF HandleEvent, IInv, TypeOK
      <3>2. store' # store
        OBVIOUS
      <3> QED
        BY <3>1, <3>2
        DEF Next, WaitHeartbeat, ConnectFails, RetryConnect, BridgeMessage, BridgeRestart,
            LosePacket, LANMessage, Broadcast, BackendCrash, BackendStart, Connect,
            DropLink, vars, clientVars
    <2>2. inbox[c] # <<>> /\ Head(inbox[c]).type = "telemetry"
      BY <2>1 DEF HandleEvent, Apply, IInv, TypeOK
    <2>3. /\ Shape(inbox[c], link[c], connected[c]) /\ inbox[c] \in Seq(Event)
          /\ connected[c] \in BOOLEAN
      BY DEF IInv, InboxShape, TypeOK
    <2>4. 1 \in 1 .. Len(inbox[c]) /\ inbox[c][1].type = "telemetry"
      BY <2>2, <2>3, HeadTailProperties, LenProperties, EmptySeq
    <2> QED BY <2>3, <2>4 DEF Shape
  <1> QED BY <1>1, Invariance, PTL DEF Spec, ShownOnlyWhileConnected

(* The whole path implements LiveView: a dashboard shows one forwarded dict *)
(* whole, and never goes back in time.                                      *)
THEOREM Refinement == Spec => ImplementsLiveView
  <1>1. Init => View!Init
    BY DEF Init, View!Init, Fresh
  <1>2. IInv /\ IInv' /\ [Next]_vars => [View!Next]_(View!vars)
    <2> SUFFICES ASSUME IInv, IInv', [Next]_vars PROVE [View!Next]_(View!vars)
      OBVIOUS
    <2> USE BoundsAssumption
    <2>1. ASSUME log' = log, telemetry'.epoch = telemetry.epoch, store' = store
          PROVE  UNCHANGED View!vars
      BY <2>1 DEF View!vars
    <2>2. ASSUME NEW k \in Kinds, NEW b \in BOOLEAN, BridgeMessage(k, b)
          PROVE  [View!Next]_(View!vars)
      <3>1. PICK d \in Dict : Forwards(d)
        BY <2>2, BridgeForwards DEF IInv
      <3>2. telemetry' = telemetry /\ store' = store
        BY <2>2 DEF BridgeMessage, backendVars, clientVars
      <3>3. CASE log' = log
        BY <2>1, <3>2, <3>3
      <3>4. CASE log' = Append(log, d)
        <4>1. log \in Seq(Dict)
          BY DEF IInv, TypeOK
        <4>2. /\ log' \in Seq(Dict) /\ Len(log') = Len(log) + 1
              /\ Len(log) \in Nat
              /\ \A i \in 1 .. Len(log) : log'[i] = log[i]
          BY <3>4, <4>1, AppendProperties, LenProperties
        <4>3. SubSeq(log', 1, Len(log)) = log
          BY <4>1, <4>2, SMT
        <4>4. View!Publish
          BY <3>2, <4>2, <4>3 DEF View!Publish
        <4> QED BY <4>4 DEF View!Next
      <3> QED BY <3>1, <3>3, <3>4 DEF Forwards
    <2>3. CASE LANMessage
      <3>1. Head(udp) \in Packet /\ telemetry \in Snapshot
        BY <2>3, HeadTailProperties DEF IInv, TypeOK, LANMessage
      <3> QED BY <2>1, <2>3, <3>1, MergeFacts DEF LANMessage, bridgeVars, clientVars
    <2>4. CASE BackendStart
      <3>1. telemetry'.epoch = telemetry.epoch + 1 /\ log' = log /\ store' = store
        BY <2>4 DEF BackendStart, Fresh, bridgeVars, clientVars
      <3> QED BY <3>1 DEF View!Next, View!Restart
    <2>5. ASSUME NEW c \in Clients, HandleEvent(c)
          PROVE  [View!Next]_(View!vars)
      <3> DEFINE e == Head(inbox[c])
      <3>1. /\ inbox[c] # <<>> /\ log' = log /\ telemetry' = telemetry
            /\ store' = [store EXCEPT ![c] = IF e.type = "telemetry" THEN e.snap ELSE store[c]]
        BY <2>5 DEF HandleEvent, Apply, bridgeVars, backendVars
      <3>2. /\ store \in [Clients -> Snapshot] /\ inbox[c] \in Seq(Event)
        BY DEF IInv, TypeOK
      <3>3. e \in Event /\ e = inbox[c][1] /\ 1 \in 1 .. Len(inbox[c])
        BY <3>1, <3>2, HeadTailProperties, LenProperties, EmptySeq
      <3> HIDE DEF e
      <3>4. CASE e.type # "telemetry"
        BY <2>1, <3>1, <3>2, <3>4
      <3>5. CASE e.type = "telemetry"
        <4> DEFINE s == store[c]
                   t == e.snap
        <4>1. store' = [store EXCEPT ![c] = t] /\ s \in Snapshot /\ t \in Snapshot
          BY <3>1, <3>2, <3>3, <3>5 DEF Event
        <4>2. /\ t.epoch >= 1 /\ Before(s, t)
              /\ Past(t, telemetry, latest, udp, log)
          BY <3>3, <3>5 DEF IInv, ClientsInOrder, InOrder, AllPast
        <4>3. Past(s, telemetry, latest, udp, log)
          BY DEF IInv, ClientsInOrder
        <4>4. Genuine(t, telemetry.epoch, log) /\ Genuine(s, telemetry.epoch, log)
          BY <4>2, <4>3 DEF Past
        <4>5. /\ s.epoch \in Nat /\ s.seq \in Nat /\ t.epoch \in Nat /\ t.seq \in Nat
              /\ telemetry.epoch \in Nat
          BY <4>1 DEF IInv, TypeOK, Snapshot
        <4>6. s = [epoch |-> s.epoch, seq |-> s.seq, data |-> s.data]
              /\ t = [epoch |-> t.epoch, seq |-> t.seq, data |-> t.data]
          BY <4>1 DEF Snapshot
        <4>7. CASE s.epoch = t.epoch /\ s.seq = t.seq
          <5>1. s.data = t.data
            BY <4>4, <4>7 DEF Genuine
          <5>2. s = t
            BY <4>6, <4>7, <5>1
          <5>3. store' = store
            BY <3>2, <4>1, <5>2
          <5> QED BY <2>1, <3>1, <5>3
        <4>8. CASE ~ (s.epoch = t.epoch /\ s.seq = t.seq)
          <5>1. View!Newer(c, t.epoch, t.seq)
            BY <4>2, <4>5, <4>8 DEF View!Newer, Before
          <5>2. t.epoch \in 1 .. telemetry.epoch /\ t.seq \in 0 .. Len(log)
            BY <4>2, <4>4, <4>5 DEF Genuine
          <5>3. t.data = View!Packet(t.seq)
            BY <4>4 DEF Genuine, View!Packet
          <5>4. store' = [store EXCEPT ![c] = [epoch |-> t.epoch, seq |-> t.seq,
                                               data |-> View!Packet(t.seq)]]
            BY <4>1, <4>6, <5>3
          <5>5. View!Show(c)
            BY <3>1, <5>1, <5>2, <5>4 DEF View!Show
          <5> QED BY <5>5 DEF View!Next
        <4> QED BY <4>7, <4>8
      <3> QED BY <3>4, <3>5
    <2> HIDE DEF View!Next
    <2> QED
      BY <2>1, <2>2, <2>3, <2>4, <2>5
      DEF Next, WaitHeartbeat, ConnectFails, RetryConnect, BridgeRestart, LosePacket,
          Broadcast, BackendCrash, Connect, DropLink,
          vars, bridgeVars, backendVars, clientVars
  <1> QED BY <1>1, <1>2, Invariance, PTL DEF Spec, ImplementsLiveView, View!Spec

=============================================================================
