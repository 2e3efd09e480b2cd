----------------------------- MODULE FlightMap -----------------------------
(***************************************************************************)
(* The operator's map: the flight path that the store's updateTelemetry    *)
(* accumulates (useTIOSStore.js) and the view that OfflineMap.jsx derives   *)
(* from it.  A position is a pair <<lat, lon>> of integers in some fixed    *)
(* sub-degree unit; the two thresholds of the code are the constants Eps    *)
(* (0.000005 degrees) and Jump (0.01 degrees) in that unit.                 *)
(***************************************************************************)
EXTENDS Integers, Sequences

CONSTANTS
    Positions,      \* the positions a telemetry message may carry
    FieldDefault,   \* DEFAULT_TELEMETRY's position, also DEFAULT_CENTER
    Eps,            \* movement below this on both axes adds no point
    Jump,           \* a displacement above this restarts the path
    MaxPoints       \* bound on the path's length (the code has none)

NoFix == <<0, 0>>       \* what the backend sends before the first GPS fix
NoView == <<>>          \* the map is not mounted

ASSUME PositionsAssumption ==
    Positions \subseteq Int \X Int /\ FieldDefault \in Int \X Int
ASSUME ThresholdAssumption == Eps \in Nat /\ Jump \in Nat /\ MaxPoints \in Nat

VARIABLES
    pos,        \* telemetry.lat, telemetry.lon of the store
    flightPath, \* the store's flightPath
    heard,      \* history: some telemetry message has been applied
    view,       \* where the mounted map is centred
    panned,     \* the operator has dragged the map since it was last centred
    lastFix,    \* history: the last valid position the store has held
    located     \* history: the store has held one since the map was mounted

vars == <<pos, flightPath, heard, view, panned, lastFix, located>>

----------------------------------------------------------------------------
Abs(n) == IF n < 0 THEN -n ELSE n

(* dist > 0.01, squared *)
Far(p, q) == (p[1] - q[1]) * (p[1] - q[1]) + (p[2] - q[2]) * (p[2] - q[2])
                 > Jump * Jump

(* the store's "moved" for a path that has a last point *)
Moved(p, q) == Abs(p[1] - q[1]) > Eps \/ Abs(p[2] - q[2]) > Eps

LastPoint(path) == path[Len(path)]

(* mutant: the jump test is forgotten *)
NextPathNoJump(path, p) ==
    IF path = <<>> THEN <<p>>
    ELSE IF Moved(LastPoint(path), p) THEN Append(path, p)
    ELSE path

(* mutant: a point is kept only when both axes moved *)
NextPathBothAxes(path, p) ==
    IF path = <<>> \/ Far(LastPoint(path), p) THEN <<p>>
    ELSE IF /\ Abs(LastPoint(path)[1] - p[1]) > Eps
            /\ Abs(LastPoint(path)[2] - p[2]) > Eps
         THEN Append(path, p)
         ELSE path

NextPath(path, p) ==
    IF path = <<>> \/ Far(LastPoint(path), p) THEN <<p>>
    ELSE IF Moved(LastPoint(path), p) THEN Append(path, p)
    ELSE path

HasGps(p) == p[1] # 0 /\ p[2] # 0

(* mutant: the map opens on whatever the telemetry says *)
MapCenterRaw(p) == p

(* mutant: the centre is built from all three coordinates *)
MapCenterWithAlt(p) == IF HasGps(p) THEN <<p[1], p[2], 0>> ELSE FieldDefault

MapCenter(p) == IF HasGps(p) THEN p ELSE FieldDefault

(* MapAutoCenter's effect: its center is a fresh array on every render, so  *)
(* every render of a mounted map with a valid position centres it again.    *)
Recentre(p) ==
    IF view # NoView /\ HasGps(p)
    THEN view' = p /\ panned' = FALSE
    ELSE UNCHANGED <<view, panned>>

----------------------------------------------------------------------------
Init ==
    /\ pos = FieldDefault
    /\ flightPath = <<>>
    /\ heard = FALSE
    /\ view = NoView
    /\ panned = FALSE
    /\ lastFix = FieldDefault
    /\ located = FALSE

(* socket.on('telemetry'): the store merges the message, and every          *)
(* subscriber renders before the next event is handled.                     *)
UpdateTelemetry(p) ==
    /\ Len(NextPath(flightPath, p)) <= MaxPoints
    /\ pos' = p
    /\ flightPath' = NextPath(flightPath, p)
    /\ heard' = TRUE
    /\ Recentre(p)
    /\ lastFix' = IF HasGps(p) THEN p ELSE lastFix
    /\ located' = (view # NoView /\ (located \/ HasGps(p)))

(* The map subscribes to the whole store: a toast, a capture, a connection  *)
(* change renders it too.                                                   *)
OtherStoreChange ==
    /\ view # NoView
    /\ Recentre(pos)
    /\ UNCHANGED <<pos, flightPath, heard, lastFix, located>>

OpenMap ==
    /\ view = NoView
    /\ view' = MapCenter(pos)
    /\ panned' = FALSE
    /\ located' = HasGps(pos)
    /\ UNCHANGED <<pos, flightPath, heard, lastFix>>

CloseMap ==
    /\ view # NoView
    /\ view' = NoView
    /\ panned' = FALSE
    /\ located' = FALSE
    /\ UNCHANGED <<pos, flightPath, heard, lastFix>>

(* The operator drags the map anywhere (Leaflet's own handler).             *)
PanMap(v) ==
    /\ view # NoView
    /\ view' = v
    /\ panned' = TRUE
    /\ UNCHANGED <<pos, flightPath, heard, lastFix, located>>

Next ==
    \/ \E p \in Positions : UpdateTelemetry(p)
    \/ OtherStoreChange
    \/ OpenMap
    \/ CloseMap
    \/ \E v \in Positions : PanMap(v)

Spec == Init /\ [][Next]_vars

----------------------------------------------------------------------------
(* Every variable keeps its type; the path never outgrows its bound.        *)
TypeOK ==
    /\ pos \in Int \X Int
    /\ flightPath \in Seq(Int \X Int)
    /\ Len(flightPath) <= MaxPoints
    /\ heard \in BOOLEAN
    /\ view \in (Int \X Int) \cup {NoView}
    /\ panned \in BOOLEAN
    /\ lastFix \in Int \X Int
    /\ located \in BOOLEAN

(* Every segment of the drawn path is a real movement (above the noise      *)
(* threshold) and never bridges a GPS jump, however messages, jumps and     *)
(* jitter alternate: updateTelemetry's jump reset and movement filter.      *)
PathContinuous ==
    \A i \in 1 .. Len(flightPath) - 1 :
        /\ Moved(flightPath[i], flightPath[i + 1])
        /\ ~ Far(flightPath[i], flightPath[i + 1])

(* The end of the path is the drone: a slow creep made of steps that are    *)
(* each below the threshold cannot carry the drone away from the last       *)
(* point, because updateTelemetry compares with the last point kept and     *)
(* not with the previous message.                                           *)
PathTracksDrone ==
    heard => /\ flightPath # <<>>
             /\ ~ Moved(LastPoint(flightPath), pos)

(* When every fix is more than Jump away from <<0, 0>>, the backend's       *)
(* "no fix yet" position never shares a path with a real one, in whichever  *)
(* order fix and no fix alternate (a backend restart sends <<0, 0>> again). *)
NoFixNeverJoined ==
    (/\ \A p \in Positions \ {NoFix} : Far(p, NoFix) /\ Far(NoFix, p)
     /\ \E i \in 1 .. Len(flightPath) : flightPath[i] = NoFix)
        => Len(flightPath) = 1

(* A mounted map that the operator has not dragged shows the drone while    *)
(* the position is valid.  When the fix is lost it stays on the last valid  *)
(* position if the map has seen one since it was mounted (MapAutoCenter is  *)
(* given null and does nothing, although the page then says "Centering on   *)
(* Test Field"), and only a map that has seen none is on the field default  *)
(* (MapContainer reads its centre once), whatever was flown before.         *)
ViewFollowsDrone ==
    view # NoView /\ ~ panned =>
        view = IF HasGps(pos) THEN pos
               ELSE IF located THEN lastFix
               ELSE FieldDefault

=============================================================================
