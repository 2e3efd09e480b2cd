--------------------------- MODULE MavlinkParser ---------------------------
(***************************************************************************)
(* mavlinkParser.js: which of its sources write the telemetry object in     *)
(* each value of MAVLINK_CONNECTION, with or without the npm packages, and  *)
(* what the 10 Hz broadcast then carries.  A field is known by its group    *)
(* and by where its value is from; voltage (in tenths of a volt), battery   *)
(* (percent) and heading (degrees) keep their values, because they are      *)
(* computed.                                                                *)
(***************************************************************************)
EXTENDS Integers

CONSTANTS
    Volts,          \* battery voltages a message may carry, tenths of a volt
    Yaws,           \* yaw angles of the LAN feed, degrees, -180 .. 180
    Headings,       \* msg.hdg / 100 of GLOBAL_POSITION_INT, 655 for unknown
    Percents,       \* battery_remaining of SYS_STATUS, -1 for unknown
    MaxErrors       \* bound: errors of the serial port

ASSUME ParserAssumption ==
    /\ Volts \subseteq Nat /\ Yaws \subseteq -180 .. 180
    /\ Headings \subseteq 0 .. 655 /\ Percents \subseteq -1 .. 100
    /\ MaxErrors \in Nat

Groups == {"position", "attitude", "speed", "battery", "voltage", "temp",
           "armed", "gps", "mode"}
Origins == {"default", "simulation", "drone"}

VARIABLES
    mode,       \* MAVLINK_CONNECTION
    packages,   \* the npm packages that the mode requires are installed
    started,    \* startMAVLink has run
    sims,       \* intervals of simulateFlight
    opened,     \* the transport that feeds the parser, "none" if there is none
    from,       \* where each group of the telemetry object is from
    voltage, battery, heading,
    latest,     \* from, as last broadcast
    heard,      \* history: the drone has sent a value
    errors

fields == <<from, voltage, battery, heading>>
vars == <<mode, packages, started, sims, opened, fields, latest, heard, errors>>

Defaults == [g \in Groups |-> "default"]

Init ==
    /\ mode \in {"simulation", "udp", "serial", "lan", "other"}
    /\ packages \in BOOLEAN
    /\ started = FALSE
    /\ sims = 0
    /\ opened = "none"
    /\ from = Defaults
    /\ voltage = 0 /\ battery = 100 /\ heading = 0
    /\ latest = Defaults
    /\ heard = FALSE
    /\ errors = 0

----------------------------------------------------------------------------
(* the transport that startMAVLink opens: openUDP and openSerial return     *)
(* early when a package is missing                                          *)
Opens ==
    IF mode \in {"udp", "serial"} /\ ~ packages THEN "none"
    ELSE IF mode \in {"udp", "serial", "lan"} THEN mode ELSE "none"

(* mutant: a missing package is only warned about *)
SimulatesNoFallback == mode = "simulation"

(* mutant: the simulation stands in until the LAN feed speaks, and then     *)
(* nothing stops it                                                         *)
SimulatesStandIn ==
    mode \in {"simulation", "lan"} \/ (mode \in {"udp", "serial"} /\ ~ packages)

Simulates == mode = "simulation" \/ (mode \in {"udp", "serial"} /\ ~ packages)

StartMAVLink ==
    /\ ~ started
    /\ started' = TRUE
    /\ opened' = Opens
    /\ sims' = IF Simulates THEN 1 ELSE 0
    /\ UNCHANGED <<mode, packages, fields, latest, heard, errors>>

(* one interval of simulateFlight writes every group; 24.2 V, 98.4 %, and a *)
(* heading that follows a yaw of 45 degrees                                 *)
SimulateFlight ==
    /\ sims > 0
    /\ from' = [g \in Groups |-> "simulation"]
    /\ voltage' = 242 /\ battery' = 98 /\ heading' = 45
    /\ UNCHANGED <<mode, packages, started, sims, opened, latest, heard, errors>>

From(groups) == [g \in Groups |-> IF g \in groups THEN "drone" ELSE from[g]]

----------------------------------------------------------------------------
(* The m.on handlers of openUDP; ATTITUDE, VFR_HUD, HEARTBEAT and           *)
(* NAMED_VALUE_FLOAT only copy, and the last one only the three names it    *)
(* knows: another name changes nothing.                                     *)
UDPEvent(groups) ==
    /\ opened = "udp"
    /\ heard' = (heard \/ groups # {})
    /\ from' = From(groups)
    /\ UNCHANGED <<mode, packages, started, sims, opened, voltage, battery,
                   heading, latest, errors>>

UDPGroups == {{}, {"attitude"}, {"speed"}, {"armed"}, {"temp"}}

GlobalPosition(h) ==
    /\ opened = "udp"
    /\ heard' = TRUE
    /\ from' = From({"position"})
    /\ heading' = h
    /\ UNCHANGED <<mode, packages, started, sims, opened, voltage, battery,
                   latest, errors>>

SysStatus(v, percent) ==
    /\ opened = "udp"
    /\ heard' = TRUE
    /\ from' = From({"battery", "voltage"})
    /\ voltage' = v /\ battery' = percent
    /\ UNCHANGED <<mode, packages, started, sims, opened, heading, latest, errors>>

(* BATTERY_STATUS; a message without voltages, or with 65535 for an unknown *)
(* one, changes nothing                                                     *)
BatteryStatus(v, known) ==
    /\ opened = "udp"
    /\ heard' = (heard \/ known)
    /\ from' = IF known THEN From({"voltage"}) ELSE from
    /\ voltage' = IF known THEN v ELSE voltage
    /\ UNCHANGED <<mode, packages, started, sims, opened, battery, heading,
                   latest, errors>>

(* serial.on('data'): m.parse raises events that nobody listens to *)
SerialData ==
    /\ opened = "serial"
    /\ heard' = TRUE
    /\ UNCHANGED <<mode, packages, started, sims, opened, fields, latest, errors>>

(* serial.on('error') *)
SerialError ==
    /\ opened = "serial"
    /\ errors < MaxErrors
    /\ errors' = errors + 1
    /\ sims' = sims + 1
    /\ UNCHANGED <<mode, packages, started, opened, fields, latest, heard>>

(* mutant: the clamp at 0 is missing *)
PercentUnclamped(v) == IF v >= 252 THEN 100 ELSE ((v - 190) * 100) \div 62

(* the estimate of openLAN, in whole percent *)
Percent(v) ==
    IF v <= 190 THEN 0 ELSE IF v >= 252 THEN 100 ELSE ((v - 190) * 100) \div 62

(* (yawDeg + 360) % 360 *)
HeadingOf(yaw) == (yaw + 360) % 360

(* A message of openLAN: any of the groups may be in it; an unreadable one  *)
(* changes nothing.                                                         *)
LANMessage(groups, v, yaw) ==
    /\ opened = "lan"
    /\ heard' = (heard \/ groups # {})
    /\ from' = From(groups \cup (IF "voltage" \in groups THEN {"battery"} ELSE {}))
    /\ voltage' = IF "voltage" \in groups THEN v ELSE voltage
    /\ battery' = IF "voltage" \in groups THEN Percent(v) ELSE battery
    /\ heading' = IF "attitude" \in groups THEN HeadingOf(yaw) ELSE heading
    /\ UNCHANGED <<mode, packages, started, sims, opened, latest, errors>>

LANGroups == {"position", "attitude", "speed", "voltage", "armed", "gps", "mode"}

(* the interval at the end of startMAVLink *)
Broadcast ==
    /\ started
    /\ latest' = from
    /\ UNCHANGED <<mode, packages, started, sims, opened, fields, heard, errors>>

----------------------------------------------------------------------------
LANArrives ==
    \E groups \in SUBSET LANGroups : \E v \in Volts : \E yaw \in Yaws :
        LANMessage(groups, v, yaw)

Next ==
    \/ StartMAVLink \/ SimulateFlight \/ Broadcast
    \/ SerialData \/ SerialError \/ LANArrives
    \/ \E groups \in UDPGroups : UDPEvent(groups)
    \/ \E h \in Headings : GlobalPosition(h)
    \/ \E v \in Volts : \/ \E known \in BOOLEAN : BatteryStatus(v, known)
                        \/ \E p \in Percents : SysStatus(v, p)

(* boot() calls startMAVLink; intervals fire; a connected drone transmits *)
Fairness ==
    /\ WF_vars(StartMAVLink) /\ WF_vars(SimulateFlight) /\ WF_vars(Broadcast)
    /\ WF_vars(SerialData)

Spec == Init /\ [][Next]_vars /\ Fairness

----------------------------------------------------------------------------
(* Every variable keeps its type; on the LAN feed the battery is a         *)
(* percentage and the heading on the compass.                               *)
TypeOK ==
    /\ mode \in {"simulation", "udp", "serial", "lan", "other"}
    /\ packages \in BOOLEAN /\ started \in BOOLEAN /\ heard \in BOOLEAN
    /\ sims \in Nat /\ errors \in Nat
    /\ opened \in {"none", "udp", "serial", "lan"}
    /\ from \in [Groups -> Origins] /\ latest \in [Groups -> Origins]
    /\ voltage \in Nat /\ battery \in IF opened = "lan" THEN 0 .. 100 ELSE -1 .. 100
    /\ heading \in IF opened = "lan" THEN 0 .. 359 ELSE Nat

(* The operator is never shown invented values beside real ones: no         *)
(* broadcast mixes the simulator's fields with the drone's, whatever        *)
(* package is missing and whenever the serial port fails.                   *)
NeverMixed ==
    \A t \in {from, latest} :
        ~ \E g, h \in Groups : t[g] = "simulation" /\ t[h] = "drone"

(* The operator is not left without telemetry: a missing package ends in    *)
(* every field of the simulation being broadcast, and what the drone sends  *)
(* over the network is broadcast too.                                       *)
SourceIsShown ==
    /\ (mode \in {"udp", "serial"} /\ ~ packages)
           ~> (\A g \in Groups : latest[g] = "simulation")
    /\ (heard /\ opened # "serial") ~> (\E g \in Groups : latest[g] = "drone")

(* "serial: direct USB/UART connection": what the drone sends is broadcast  *)
(* on that connection too, unless the port fails.                           *)
SerialHeardIsShown ==
    (heard /\ opened = "serial") ~> (errors > 0 \/ \E g \in Groups : latest[g] = "drone")

=============================================================================
