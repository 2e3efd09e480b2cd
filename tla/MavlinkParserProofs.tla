-------------------------- MODULE MavlinkParserProofs --------------------------
(***************************************************************************)
(* Proofs about MavlinkParser, for every set of voltages, angles, headings  *)
(* and battery levels that the messages may carry, and any number of errors *)
(* of the serial port.                                                      *)
(***************************************************************************)
EXTENDS MavlinkParser, TLAPS

(* Before startMAVLink nothing has written the telemetry object: openLAN    *)
(* starts from a battery and a heading within its own ranges.               *)
QuietBeforeStart ==
    ~ started => /\ opened = "none" /\ sims = 0
                 /\ from = Defaults /\ battery = 100 /\ heading = 0

(* The two transports with handlers never run beside a simulator, ...       *)
DroneAlone ==
    opened \in {"udp", "lan"} =>
        sims = 0 /\ \A g \in Groups : from[g] # "simulation"

(* ... and nothing else writes a value of the drone.                        *)
NoDroneWithout ==
    opened \notin {"udp", "lan"} => \A g \in Groups : from[g] # "drone"

IInv ==
    /\ TypeOK
    /\ QuietBeforeStart
    /\ DroneAlone
    /\ NoDroneWithout
    /\ NeverMixed

(* One writer at a time is what keeps the telemetry object unmixed. *)
Unmixed(t) == ~ \E g, h \in Groups : t[g] = "simulation" /\ t[h] = "drone"

----------------------------------------------------------------------------
(* The operators *)

(* The estimate of openLAN is a percentage for every voltage. *)
LEMMA PercentInRange == \A v \in Nat : Percent(v) \in 0 .. 100
  <1> SUFFICES ASSUME NEW v \in Nat PROVE Percent(v) \in 0 .. 100
    OBVIOUS
  <1>1. CASE v <= 190 \/ v >= 252
    BY <1>1 DEF Percent
  <1>2. CASE v > 190 /\ v < 252
    <2>1. (v - 190) * 100 \in 0 .. 6200
      BY <1>2
    <2>2. ((v - 190) * 100) \div 62 \in 0 .. 100
      BY <2>1
    <2> QED BY <1>2, <2>2 DEF Percent
  <1> QED BY <1>1, <1>2

(* Adding the full circle before the remainder keeps the heading on the     *)
(* compass for yaws of either sign.                                         *)
LEMMA HeadingOnCompass == \A yaw \in -180 .. 180 : HeadingOf(yaw) \in 0 .. 359
  BY DEF HeadingOf

LEMMA FromTyped ==
    ASSUME from \in [Groups -> Origins], NEW groups
    PROVE  /\ From(groups) \in [Groups -> Origins]
           /\ \A g \in Groups :
                  From(groups)[g] = "simulation" => from[g] = "simulation"
  BY DEF From, Origins

LEMMA UnmixedBoth == NeverMixed <=> Unmixed(from) /\ Unmixed(latest)
  BY DEF NeverMixed, Unmixed

----------------------------------------------------------------------------
LEMMA InitOK == Init => IInv
  <1> SUFFICES ASSUME Init PROVE IInv
    OBVIOUS
  <1>1. Defaults \in [Groups -> Origins] /\ \A g \in Groups : Defaults[g] = "default"
    BY DEF Defaults, Origins
  <1>2. TypeOK
    <2>1. /\ packages \in BOOLEAN /\ started \in BOOLEAN /\ heard \in BOOLEAN
          /\ opened \in {"none", "udp", "serial", "lan"}
          /\ from \in [Groups -> Origins] /\ latest \in [Groups -> Origins]
      BY <1>1, Zenon DEF Init
    <2>2. /\ sims \in Nat /\ errors \in Nat /\ voltage \in Nat /\ opened = "none"
          /\ battery \in -1 .. 100 /\ heading \in Nat
      BY DEF Init
    <2>3. mode \in {"simulation", "udp", "serial", "lan", "other"}
      BY DEF Init
    <2> QED BY <2>1, <2>2, <2>3 DEF TypeOK
  <1>3. QuietBeforeStart /\ DroneAlone /\ NoDroneWithout
    BY <1>1 DEF Init, QuietBeforeStart, DroneAlone, NoDroneWithout
  <1>4. NeverMixed
    BY <1>1, UnmixedBoth DEF Init, Unmixed
  <1> QED BY <1>2, <1>3, <1>4 DEF IInv

(* A message over UDP or the LAN: it writes values of the drone into an     *)
(* object without simulated ones.  What is left to each handler is the      *)
(* three computed values.                                                   *)
LEMMA DroneStep ==
    ASSUME IInv, opened \in {"udp", "lan"}, NEW groups, from' = From(groups),
           heard' \in BOOLEAN, voltage' \in Nat,
           battery' \in IF opened = "lan" THEN 0 .. 100 ELSE -1 .. 100,
           heading' \in IF opened = "lan" THEN 0 .. 359 ELSE Nat,
           UNCHANGED <<mode, packages, started, sims, opened, latest, errors>>
    PROVE  IInv'
  <1>1. /\ from' \in [Groups -> Origins]
        /\ \A g \in Groups : from'[g] # "simulation"
    BY FromTyped DEF IInv, TypeOK, DroneAlone
  <1>2. TypeOK'
    BY <1>1 DEF IInv, TypeOK
  <1>3. started
    BY DEF IInv, QuietBeforeStart
  <1>4. QuietBeforeStart' /\ DroneAlone' /\ NoDroneWithout'
    BY <1>1, <1>3 DEF IInv, QuietBeforeStart, DroneAlone, NoDroneWithout
  <1>5. Unmixed(from') /\ Unmixed(latest')
    BY <1>1, UnmixedBoth DEF IInv, Unmixed
  <1>6. NeverMixed'
    BY <1>5 DEF NeverMixed, Unmixed
  <1> QED BY <1>2, <1>4, <1>6 DEF IInv

LEMMA UdpStep ==
    ASSUME IInv,
           \/ \E groups \in UDPGroups : UDPEvent(groups)
           \/ \E h \in Headings : GlobalPosition(h)
           \/ \E v \in Volts : \/ \E known \in BOOLEAN : BatteryStatus(v, known)
                               \/ \E p \in Percents : SysStatus(v, p)
    PROVE  IInv'
  <1>0. /\ opened = "udp" /\ heard' \in BOOLEAN
        /\ UNCHANGED <<mode, packages, started, sims, opened, latest, errors>>
    BY DEF UDPEvent, GlobalPosition, BatteryStatus, SysStatus
  <1>1. /\ voltage \in Nat /\ battery \in -1 .. 100 /\ heading \in Nat
        /\ TRUE \in BOOLEAN
    BY <1>0 DEF IInv, TypeOK
  <1>2. /\ \A h \in Headings : h \in Nat
        /\ \A v \in Volts : v \in Nat
        /\ \A p \in Percents : p \in -1 .. 100
    BY ParserAssumption
  <1>3. \E groups : from' = From(groups)
    <2>1. from = From({})
      BY DEF IInv, TypeOK, From
    <2> QED BY <2>1, Zenon DEF UDPEvent, GlobalPosition, BatteryStatus, SysStatus
  <1>4. voltage' \in Nat /\ battery' \in -1 .. 100 /\ heading' \in Nat
    BY <1>1, <1>2 DEF UDPEvent, GlobalPosition, BatteryStatus, SysStatus
  <1> QED BY <1>0, <1>1, <1>3, <1>4, DroneStep

LEMMA LanStep ==
    ASSUME IInv, LANArrives
    PROVE  IInv'
  <1>1. PICK groups \in SUBSET LANGroups, v \in Volts, yaw \in Yaws :
            LANMessage(groups, v, yaw)
    BY DEF LANArrives
  <1>2. /\ opened = "lan"
        /\ UNCHANGED <<mode, packages, started, sims, opened, latest, errors>>
        /\ from' = From(groups \cup (IF "voltage" \in groups THEN {"battery"} ELSE {}))
        /\ heard' \in BOOLEAN
    BY <1>1 DEF LANMessage
  <1>3. voltage \in Nat /\ battery \in 0 .. 100 /\ heading \in 0 .. 359
    BY <1>2 DEF IInv, TypeOK
  <1>4. v \in Nat /\ Percent(v) \in 0 .. 100 /\ HeadingOf(yaw) \in 0 .. 359
    <2>1. v \in Nat
      BY ParserAssumption
    <2>2. yaw \in -180 .. 180
      BY ParserAssumption
    <2>3. Percent(v) \in 0 .. 100
      BY <2>1, PercentInRange
    <2>4. HeadingOf(yaw) \in 0 .. 359
      BY <2>2, HeadingOnCompass
    <2> QED BY <2>1, <2>3, <2>4
  <1>5. voltage' \in Nat /\ battery' \in 0 .. 100 /\ heading' \in 0 .. 359
    BY <1>1, <1>3, <1>4 DEF LANMessage
  <1> QED BY <1>2, <1>5, DroneStep

(* startMAVLink opens a transport with handlers or starts a simulator, and  *)
(* never both: openUDP returns before it opens anything.                    *)
LEMMA StartStep ==
    ASSUME IInv, StartMAVLink
    PROVE  IInv'
  <1>0. /\ from = Defaults /\ battery = 100 /\ heading = 0 /\ sims = 0
        /\ from' = from /\ latest' = latest /\ voltage' = voltage
        /\ battery' = battery /\ heading' = heading /\ started' = TRUE
        /\ opened' = Opens /\ UNCHANGED <<mode, packages, heard, errors>>
        /\ sims' = IF Simulates THEN 1 ELSE 0
    BY DEF IInv, QuietBeforeStart, StartMAVLink, fields
  <1>1. /\ opened' \in {"none", "udp", "serial", "lan"} /\ sims' \in Nat
        /\ opened' \in {"udp", "lan"} => sims' = 0
    BY <1>0 DEF IInv, TypeOK, Opens, Simulates
  <1>2. \A g \in Groups : from[g] = "default"
    BY <1>0 DEF Defaults
  <1>3. TypeOK'
    BY <1>0, <1>1 DEF IInv, TypeOK
  <1>4. QuietBeforeStart' /\ DroneAlone' /\ NoDroneWithout'
    BY <1>0, <1>1, <1>2 DEF QuietBeforeStart, DroneAlone, NoDroneWithout
  <1>5. NeverMixed'
    BY <1>0 DEF IInv, NeverMixed
  <1> QED BY <1>3, <1>4, <1>5 DEF IInv

(* The simulator only runs where no drone writes; its interval overwrites   *)
(* every group.                                                             *)
LEMMA SimulatorStep ==
    ASSUME IInv, SimulateFlight
    PROVE  IInv'
  <1>0. /\ sims > 0 /\ \A g \in Groups : from'[g] = "simulation"
        /\ from' \in [Groups -> Origins]
        /\ voltage' = 242 /\ battery' = 98 /\ heading' = 45
        /\ UNCHANGED <<mode, packages, started, sims, opened, latest, heard, errors>>
    BY DEF SimulateFlight, Origins
  <1>1. started /\ opened \notin {"udp", "lan"}
    BY <1>0 DEF IInv, TypeOK, QuietBeforeStart, DroneAlone
  <1>2. TypeOK'
    BY <1>0 DEF IInv, TypeOK
  <1>3. QuietBeforeStart' /\ DroneAlone' /\ NoDroneWithout'
    BY <1>0, <1>1 DEF QuietBeforeStart, DroneAlone, NoDroneWithout
  <1>4. Unmixed(from') /\ Unmixed(latest')
    BY <1>0, UnmixedBoth DEF IInv, Unmixed
  <1>5. NeverMixed'
    BY <1>4 DEF NeverMixed, Unmixed
  <1> QED BY <1>2, <1>3, <1>5 DEF IInv

(* The serial port, and the broadcast, write no field. *)
LEMMA QuietStep ==
    ASSUME IInv, SerialData \/ SerialError \/ Broadcast \/ UNCHANGED vars
    PROVE  IInv'
  <1>1. CASE SerialData
    BY <1>1
    DEF IInv, TypeOK, QuietBeforeStart, DroneAlone, NoDroneWithout, NeverMixed,
        SerialData, fields
  <1>2. CASE SerialError
    BY <1>2
    DEF IInv, TypeOK, QuietBeforeStart, DroneAlone, NoDroneWithout, NeverMixed,
        SerialError, fields
  <1>3. CASE Broadcast
    BY <1>3
    DEF IInv, TypeOK, QuietBeforeStart, DroneAlone, NoDroneWithout, NeverMixed,
        Broadcast, fields
  <1>4. CASE UNCHANGED vars
    BY <1>4
    DEF IInv, TypeOK, QuietBeforeStart, DroneAlone, NoDroneWithout, NeverMixed,
        vars, fields
  <1> QED BY <1>1, <1>2, <1>3, <1>4

LEMMA IInvStep == IInv /\ [Next]_vars => IInv'
  BY UdpStep, LanStep, StartStep, SimulatorStep, QuietStep DEF Next

LEMMA Invariance == Spec => []IInv
  BY InitOK, IInvStep, PTL DEF Spec

----------------------------------------------------------------------------
(* The telemetry object keeps its types: on the LAN feed the battery is a   *)
(* percentage and the heading on the compass, for every voltage and every   *)
(* yaw a message may carry.                                                 *)
THEOREM TypeCorrect == Spec => []TypeOK
  <1>1. IInv => TypeOK
    BY DEF IInv
  <1> QED BY Invariance, <1>1, PTL

(* Neither the telemetry object nor a broadcast mixes the simulator's       *)
(* values with the drone's, however often the serial port fails.            *)
THEOREM SourcesUnmixed == Spec => []NeverMixed
  <1>1. IInv => NeverMixed
    BY DEF IInv
  <1> QED BY Invariance, <1>1, PTL

=============================================================================
