-------------------------- MODULE OfflineMapProofs --------------------------
(***************************************************************************)
(* Proofs about the two sides of OfflineMap.jsx, which share no state: the  *)
(* path and the view (FlightMap), for every set of positions and every      *)
(* threshold, and the tiles (TileCache), for any number of tiles, however   *)
(* they share their URLs, and any number of changes of the uplink.          *)
(***************************************************************************)
EXTENDS FlightMap, TileCache, TLAPS

Point == Int \X Int

(* A step of at most Eps on each axis is no movement, so a point that is    *)
(* repeated never counts as one.                                            *)
LEMMA NotMovedFromItself ==
    ASSUME NEW p \in Point
    PROVE  ~ Moved(p, p)
  BY ThresholdAssumption DEF Moved, Abs, Point

(* What updateTelemetry's path computation returns: a path of points, never *)
(* empty, that ends within Eps of the new position.                         *)
LEMMA NextPathShape ==
    ASSUME NEW path \in Seq(Point), NEW p \in Point
    PROVE  /\ NextPath(path, p) \in Seq(Point)
           /\ NextPath(path, p) # <<>>
           /\ ~ Moved(LastPoint(NextPath(path, p)), p)
<1>1. CASE path = <<>> \/ Far(LastPoint(path), p)
  <2>1. NextPath(path, p) = <<p>>
    BY <1>1 DEF NextPath
  <2>2. <<p>> \in Seq(Point) /\ <<p>> # <<>> /\ LastPoint(<<p>>) = p
    BY DEF LastPoint
  <2> QED
    BY <2>1, <2>2, NotMovedFromItself
<1>2. CASE /\ ~ (path = <<>> \/ Far(LastPoint(path), p))
           /\ Moved(LastPoint(path), p)
  <2>1. NextPath(path, p) = Append(path, p)
    BY <1>2 DEF NextPath
  <2>2. /\ Append(path, p) \in Seq(Point)
        /\ Append(path, p) # <<>>
        /\ LastPoint(Append(path, p)) = p
    BY DEF LastPoint
  <2> QED
    BY <2>1, <2>2, NotMovedFromItself
<1>3. CASE /\ ~ (path = <<>> \/ Far(LastPoint(path), p))
           /\ ~ Moved(LastPoint(path), p)
  BY <1>3 DEF NextPath
<1> QED
  BY <1>1, <1>2, <1>3

(* The same computation keeps every segment a real movement without a jump. *)
LEMMA NextPathContinuous ==
    ASSUME NEW path \in Seq(Point), NEW p \in Point,
           \A i \in 1 .. Len(path) - 1 :
               Moved(path[i], path[i + 1]) /\ ~ Far(path[i], path[i + 1])
    PROVE  \A i \in 1 .. Len(NextPath(path, p)) - 1 :
               /\ Moved(NextPath(path, p)[i], NextPath(path, p)[i + 1])
               /\ ~ Far(NextPath(path, p)[i], NextPath(path, p)[i + 1])
<1>1. CASE path = <<>> \/ Far(LastPoint(path), p)
  <2>1. NextPath(path, p) = <<p>>
    BY <1>1 DEF NextPath
  <2> QED
    BY <2>1
<1>2. CASE /\ path # <<>>
           /\ ~ Far(LastPoint(path), p)
           /\ Moved(LastPoint(path), p)
  <2>1. NextPath(path, p) = Append(path, p)
    BY <1>2 DEF NextPath
  <2>2. /\ Len(path) \in Nat \ {0}
        /\ Len(Append(path, p)) = Len(path) + 1
        /\ Append(path, p)[Len(path) + 1] = p
        /\ \A i \in 1 .. Len(path) : Append(path, p)[i] = path[i]
    BY <1>2
  <2>3. SUFFICES ASSUME NEW i \in 1 .. Len(path)
                 PROVE  /\ Moved(Append(path, p)[i], Append(path, p)[i + 1])
                        /\ ~ Far(Append(path, p)[i], Append(path, p)[i + 1])
    BY <2>1, <2>2
  <2>4. CASE i = Len(path)
    BY <1>2, <2>2, <2>4 DEF LastPoint
  <2>5. CASE i # Len(path)
    <3>1. i \in 1 .. Len(path) - 1 /\ i + 1 \in 1 .. Len(path)
      BY <2>2, <2>5
    <3> QED
      BY <2>2, <3>1
  <2> QED
    BY <2>4, <2>5
<1>3. CASE /\ path # <<>>
           /\ ~ Far(LastPoint(path), p)
           /\ ~ Moved(LastPoint(path), p)
  <2>1. NextPath(path, p) = path
    BY <1>3 DEF NextPath
  <2> QED
    BY <2>1
<1> QED
  BY <1>1, <1>2, <1>3

-----------------------------------------------------------------------------
(* Every step of the store and of the map keeps the types. *)
LEMMA TypeStep == TypeOK /\ [Next]_vars => TypeOK'
<1> SUFFICES ASSUME TypeOK, [Next]_vars PROVE TypeOK'
  OBVIOUS
<1> USE PositionsAssumption DEF TypeOK
<1>1. ASSUME NEW p \in Positions, UpdateTelemetry(p) PROVE TypeOK'
  <2>1. NextPath(flightPath, p) \in Seq(Int \X Int)
    BY NextPathShape DEF Point
  <2> QED
    BY <1>1, <2>1 DEF UpdateTelemetry, Recentre
<1>2. CASE OtherStoreChange
  BY <1>2 DEF OtherStoreChange, Recentre
<1>3. CASE OpenMap
  BY <1>3 DEF OpenMap, MapCenter, HasGps
<1>4. CASE CloseMap
  BY <1>4 DEF CloseMap
<1>5. ASSUME NEW v \in Positions, PanMap(v) PROVE TypeOK'
  BY <1>5 DEF PanMap
<1>6. CASE UNCHANGED vars
  BY <1>6 DEF vars
<1> QED
  BY <1>1, <1>2, <1>3, <1>4, <1>5, <1>6 DEF Next

(* The store's position and path and the map's view always have the shape   *)
(* that OfflineMap.jsx renders.                                             *)
THEOREM TypeCorrect == Spec => []TypeOK
<1>1. Init => TypeOK
  <2>1. <<>> \in Seq(Int \X Int) /\ Len(<<>>) <= MaxPoints
    BY ThresholdAssumption
  <2> QED
    BY <2>1, PositionsAssumption DEF Init, TypeOK
<1> QED
  BY <1>1, TypeStep, PTL DEF Spec

(* The path drawn on the map has no segment across a GPS jump and no        *)
(* segment below the noise threshold, whatever updateTelemetry receives.    *)
THEOREM PathIsContinuous == Spec => []PathContinuous
<1>1. Init => PathContinuous
  BY DEF Init, PathContinuous
<1>2. TypeOK /\ PathContinuous /\ [Next]_vars => PathContinuous'
  <2> SUFFICES ASSUME TypeOK, PathContinuous, [Next]_vars
               PROVE  PathContinuous'
    OBVIOUS
  <2>1. ASSUME NEW p \in Positions, UpdateTelemetry(p) PROVE PathContinuous'
    <3>1. flightPath \in Seq(Point) /\ p \in Point
      BY PositionsAssumption DEF TypeOK, Point
    <3>2. flightPath' = NextPath(flightPath, p)
      BY <2>1 DEF UpdateTelemetry
    <3> QED
      BY <3>1, <3>2, NextPathContinuous DEF PathContinuous
  <2>2. ASSUME flightPath' = flightPath PROVE PathContinuous'
    BY <2>2 DEF PathContinuous
  <2> QED
    BY <2>1, <2>2
    DEF Next, OtherStoreChange, OpenMap, CloseMap, PanMap, vars
<1> QED
  BY <1>1, <1>2, TypeCorrect, PTL DEF Spec

(* Once a message has arrived the path ends at the drone, within Eps on     *)
(* each axis, so no slow drift escapes the recorded path.                   *)
THEOREM PathTracks == Spec => []PathTracksDrone
<1>1. Init => PathTracksDrone
  BY DEF Init, PathTracksDrone
<1>2. TypeOK /\ PathTracksDrone /\ [Next]_vars => PathTracksDrone'
  <2> SUFFICES ASSUME TypeOK, PathTracksDrone, [Next]_vars
               PROVE  PathTracksDrone'
    OBVIOUS
  <2>1. ASSUME NEW p \in Positions, UpdateTelemetry(p) PROVE PathTracksDrone'
    <3>1. flightPath \in Seq(Point) /\ p \in Point
      BY PositionsAssumption DEF TypeOK, Point
    <3>2. flightPath' = NextPath(flightPath, p) /\ pos' = p
      BY <2>1 DEF UpdateTelemetry
    <3> QED
      BY <3>1, <3>2, NextPathShape DEF PathTracksDrone
  <2>2. ASSUME UNCHANGED <<pos, flightPath, heard>> PROVE PathTracksDrone'
    BY <2>2 DEF PathTracksDrone
  <2> QED
    BY <2>1, <2>2
    DEF Next, OtherStoreChange, OpenMap, CloseMap, PanMap, vars
<1> QED
  BY <1>1, <1>2, TypeCorrect, PTL DEF Spec

(* Every point of the path came in a telemetry message. *)
PathPositions == \A i \in 1 .. Len(flightPath) : flightPath[i] \in Positions

LEMMA PathHoldsPositions == Spec => []PathPositions
<1>1. Init => PathPositions
  BY DEF Init, PathPositions
<1>2. TypeOK /\ PathPositions /\ [Next]_vars => PathPositions'
  <2> SUFFICES ASSUME TypeOK, PathPositions, [Next]_vars
               PROVE  PathPositions'
    OBVIOUS
  <2>1. ASSUME NEW p \in Positions, UpdateTelemetry(p) PROVE PathPositions'
    <3>1. flightPath' = NextPath(flightPath, p)
      BY <2>1 DEF UpdateTelemetry
    <3>2. CASE flightPath' = <<p>>
      BY <3>2 DEF PathPositions
    <3>3. CASE flightPath' = Append(flightPath, p)
      BY <3>3 DEF PathPositions, TypeOK
    <3> QED
      BY <3>1, <3>2, <3>3 DEF NextPath, PathPositions
  <2>2. ASSUME flightPath' = flightPath PROVE PathPositions'
    BY <2>2 DEF PathPositions
  <2> QED
    BY <2>1, <2>2
    DEF Next, OtherStoreChange, OpenMap, CloseMap, PanMap, vars
<1> QED
  BY <1>1, <1>2, TypeCorrect, PTL DEF Spec

(* With every fix more than Jump away from <<0, 0>>, a path that holds the   *)
(* backend's "no fix" position holds nothing else.                          *)
THEOREM NoFixIsolated == Spec => []NoFixNeverJoined
<1>1. TypeOK /\ PathContinuous /\ PathPositions => NoFixNeverJoined
  <2> SUFFICES ASSUME TypeOK, PathContinuous, PathPositions,
                      \A p \in Positions \ {NoFix} : Far(p, NoFix) /\ Far(NoFix, p),
                      NEW i \in 1 .. Len(flightPath), flightPath[i] = NoFix
               PROVE  Len(flightPath) = 1
    BY DEF NoFixNeverJoined
  <2>1. Len(flightPath) \in Nat
    BY DEF TypeOK
  <2>2. ~ Moved(NoFix, NoFix)
    BY NotMovedFromItself DEF NoFix, Point
  <2>3. CASE i + 1 \in 1 .. Len(flightPath)
    <3>1. i \in 1 .. Len(flightPath) - 1
      BY <2>1, <2>3
    <3>2. /\ Moved(NoFix, flightPath[i + 1])
          /\ ~ Far(NoFix, flightPath[i + 1])
      BY <3>1 DEF PathContinuous
    <3>3. flightPath[i + 1] \in Positions
      BY <2>3 DEF PathPositions
    <3> QED
      BY <2>2, <3>2, <3>3
  <2>4. CASE i - 1 \in 1 .. Len(flightPath)
    <3>1. i - 1 \in 1 .. Len(flightPath) - 1 /\ (i - 1) + 1 = i
      BY <2>1, <2>4
    <3>2. /\ Moved(flightPath[i - 1], NoFix)
          /\ ~ Far(flightPath[i - 1], NoFix)
      BY <3>1 DEF PathContinuous
    <3>3. flightPath[i - 1] \in Positions
      BY <2>4 DEF PathPositions
    <3> QED
      BY <2>2, <3>2, <3>3
  <2>5. \/ i + 1 \in 1 .. Len(flightPath)
        \/ i - 1 \in 1 .. Len(flightPath)
        \/ Len(flightPath) = 1
    <3>1. i \in Nat /\ 1 <= i /\ i <= Len(flightPath)
      BY <2>1
    <3> QED
      BY <2>1, <3>1
  <2> QED
    BY <2>3, <2>4, <2>5
<1> QED
  BY <1>1, TypeCorrect, PathIsContinuous, PathHoldsPositions, PTL

(* What the two history variables say of a valid position: it is the last   *)
(* one, and an open map has been centred on it.                             *)
FixesInv == HasGps(pos) => lastFix = pos /\ (view # NoView => located)

(* An undragged map is on the drone while its position is usable, and       *)
(* otherwise on the last usable one the map has seen, or on the field       *)
(* default if it has seen none.                                             *)
THEOREM ViewFollows == Spec => []ViewFollowsDrone
<1>1. Init => FixesInv /\ ViewFollowsDrone
  BY DEF Init, FixesInv, ViewFollowsDrone
<1>2. TypeOK /\ FixesInv /\ ViewFollowsDrone /\ [Next]_vars
          => FixesInv' /\ ViewFollowsDrone'
  <2> SUFFICES ASSUME TypeOK, FixesInv, ViewFollowsDrone, [Next]_vars
               PROVE  FixesInv' /\ ViewFollowsDrone'
    OBVIOUS
  <2> USE DEF FixesInv, ViewFollowsDrone
  <2>1. ASSUME NEW p \in Positions, UpdateTelemetry(p)
        PROVE  FixesInv' /\ ViewFollowsDrone'
    <3>1. CASE HasGps(p)
      BY <2>1, <3>1 DEF UpdateTelemetry, Recentre
    <3>2. CASE ~ HasGps(p)
      <4>1. /\ pos' = p /\ UNCHANGED <<view, panned, lastFix>>
            /\ view # NoView => located' = located
        BY <2>1, <3>2 DEF UpdateTelemetry, Recentre, TypeOK
      <4> QED
        BY <3>2, <4>1
    <3> QED
      BY <3>1, <3>2
  <2>2. CASE OtherStoreChange
    BY <2>2 DEF OtherStoreChange, Recentre
  <2>3. CASE OpenMap
    BY <2>3 DEF OpenMap, MapCenter
  <2>4. CASE CloseMap
    BY <2>4 DEF CloseMap
  <2>5. ASSUME NEW v \in Positions, PanMap(v)
        PROVE  FixesInv' /\ ViewFollowsDrone'
    BY <2>5 DEF PanMap
  <2>6. CASE UNCHANGED vars
    BY <2>6 DEF vars
  <2> QED
    BY <2>1, <2>2, <2>3, <2>4, <2>5, <2>6 DEF Next
<1> QED
  BY <1>1, <1>2, TypeCorrect, PTL DEF Spec

----------------------------------------------------------------------------
(* The tiles *)

(* done is called as the chain of a tile ends, and not before: without this *)
(* nothing bounds the number of calls.                                      *)
ReportedAtTheEnd ==
    \A t \in Tiles : done[t] = IF step[t] = "done" THEN 1 ELSE 0

(* Only a tile whose chain has ended has a write under way, or an image. *)
WritesAfterTheEnd ==
    /\ \A t \in writing : step[t] = "done"
    /\ \A t \in Tiles : src[t] # "none" => step[t] = "done"

(* What createTile found in the database is still there: nothing is ever    *)
(* taken out of it.                                                         *)
StillStored ==
    \A t \in Tiles : was[t] => step[t] # "idle" /\ Url[t] \in stored

TilesInv ==
    /\ TilesTypeOK
    /\ ReportedAtTheEnd
    /\ WritesAfterTheEnd
    /\ StillStored
    /\ CacheBeforeNetwork

----------------------------------------------------------------------------
(* Finish ends a chain that had not ended, with its one call of done. *)
LEMMA FinishStep ==
    ASSUME TilesTypeOK, ReportedAtTheEnd,
           NEW t \in Tiles, step[t] # "done",
           NEW source \in {"blob", "live"}, Finish(t, source)
    PROVE  /\ step' \in [Tiles -> {"idle", "lookup", "fetch", "done"}]
           /\ src' \in [Tiles -> {"none", "blob", "live"}]
           /\ done' \in [Tiles -> 0 .. 1]
           /\ ReportedAtTheEnd'
           /\ step'[t] = "done"
           /\ \A u \in Tiles \ {t} : step'[u] = step[u]
  <1>1. done[t] = 0
    BY DEF ReportedAtTheEnd
  <1>2. done' = [done EXCEPT ![t] = 1]
    BY <1>1 DEF Finish
  <1> QED BY <1>2 DEF TilesTypeOK, ReportedAtTheEnd, Finish

LEMMA TilesInitOK == TilesInit => TilesInv
  BY TileAssumption
  DEF TilesInit, TilesInv, TilesTypeOK, ReportedAtTheEnd, WritesAfterTheEnd, StillStored,
      CacheBeforeNetwork

(* The chain of a tile that was stored: the lookup hits or is refused, so   *)
(* neither the fetch nor, after it, the write is reached.                   *)
LEMMA TileStep ==
    ASSUME TilesInv, NEW t \in Tiles,
           \/ CreateTile(t) \/ LookupHit(t) \/ LookupMiss(t) \/ LookupFails(t)
           \/ FetchOk(t) \/ FetchFails(t) \/ Written(t) \/ WriteFails(t)
    PROVE  TilesInv'
  <1> USE DEF TilesInv
  <1>1. CASE CreateTile(t)
    <2>1. t \notin writing /\ src[t] = "none"
      BY <1>1 DEF CreateTile, WritesAfterTheEnd
    <2>2. TilesTypeOK'
      BY <1>1 DEF TilesTypeOK, CreateTile
    <2>3. ReportedAtTheEnd' /\ WritesAfterTheEnd'
      BY <1>1, <2>1 DEF TilesTypeOK, ReportedAtTheEnd, WritesAfterTheEnd, CreateTile
    <2>4. StillStored' /\ CacheBeforeNetwork'
      BY <1>1, <2>1 DEF TilesTypeOK, StillStored, CacheBeforeNetwork, CreateTile
    <2> QED BY <2>2, <2>3, <2>4
  <1>2. CASE LookupHit(t) \/ LookupFails(t) \/ FetchFails(t)
    <2>1. PICK source \in {"blob", "live"} :
              Finish(t, source) /\ (source = "live" /\ was[t] => refused'[t])
      BY <1>2
      DEF LookupHit, LookupFails, FetchFails, FinishRejected, TilesTypeOK, CacheBeforeNetwork
    <2>2. /\ step[t] \in {"lookup", "fetch"}
          /\ UNCHANGED <<online, stored, writing, was, flips>>
          /\ refused' \in [Tiles -> BOOLEAN]
          /\ \A u \in Tiles \ {t} : refused'[u] = refused[u]
      BY <1>2 DEF LookupHit, LookupFails, FetchFails, TilesTypeOK
    <2>3. TilesTypeOK' /\ ReportedAtTheEnd'
      BY <2>1, <2>2, FinishStep DEF TilesTypeOK
    <2>4. step'[t] = "done" /\ \A u \in Tiles \ {t} : step'[u] = step[u]
      BY <2>1, <2>2, FinishStep
    <2>5. src'[t] = source /\ \A u \in Tiles \ {t} : src'[u] = src[u]
      BY <2>1 DEF Finish, TilesTypeOK
    <2>6. WritesAfterTheEnd' /\ StillStored'
      BY <2>2, <2>4, <2>5 DEF TilesTypeOK, WritesAfterTheEnd, StillStored
    <2>7. CacheBeforeNetwork'
      <3> SUFFICES ASSUME NEW u \in Tiles, was[u]
                   PROVE  /\ step'[u] # "fetch" /\ u \notin writing
                          /\ src'[u] = "live" => refused'[u]
        BY <2>2 DEF CacheBeforeNetwork
      <3>1. CASE u = t
        BY <2>1, <2>2, <2>4, <2>5, <3>1 DEF CacheBeforeNetwork
      <3>2. CASE u # t
        BY <2>2, <2>4, <2>5, <3>2 DEF CacheBeforeNetwork
      <3> QED BY <3>1, <3>2
    <2> QED BY <2>3, <2>6, <2>7
  <1>3. CASE LookupMiss(t)
    <2>1. ~ was[t]
      BY <1>3 DEF LookupMiss, Hit, StillStored
    <2>2. TilesTypeOK' /\ ReportedAtTheEnd'
      BY <1>3 DEF TilesTypeOK, ReportedAtTheEnd, LookupMiss
    <2>3. WritesAfterTheEnd' /\ StillStored' /\ CacheBeforeNetwork'
      BY <1>3, <2>1
      DEF TilesTypeOK, WritesAfterTheEnd, StillStored, CacheBeforeNetwork, LookupMiss
    <2> QED BY <2>2, <2>3
  <1>4. CASE FetchOk(t)
    <2>1. /\ step[t] = "fetch" /\ Finish(t, "blob") /\ writing' = writing \cup {t}
          /\ UNCHANGED <<online, stored, was, refused, flips>>
      BY <1>4 DEF FetchOk
    <2>2. ~ was[t]
      BY <2>1 DEF CacheBeforeNetwork
    <2>3. TilesTypeOK' /\ ReportedAtTheEnd'
      BY <2>1, FinishStep DEF TilesTypeOK
    <2>4. step'[t] = "done" /\ \A u \in Tiles \ {t} : step'[u] = step[u]
      BY <2>1, FinishStep
    <2>5. \A u \in Tiles \ {t} : src'[u] = src[u]
      BY <2>1 DEF Finish, TilesTypeOK
    <2>6. WritesAfterTheEnd' /\ StillStored'
      BY <2>1, <2>2, <2>4, <2>5 DEF TilesTypeOK, WritesAfterTheEnd, StillStored
    <2>7. CacheBeforeNetwork'
      BY <2>1, <2>2, <2>4, <2>5 DEF CacheBeforeNetwork
    <2> QED BY <2>3, <2>6, <2>7
  <1>5. CASE Written(t)
    BY <1>5
    DEF TilesTypeOK, ReportedAtTheEnd, WritesAfterTheEnd, StillStored,
        CacheBeforeNetwork, Written, Urls
  <1>6. CASE WriteFails(t)
    BY <1>6
    DEF TilesTypeOK, ReportedAtTheEnd, WritesAfterTheEnd, StillStored,
        CacheBeforeNetwork, WriteFails, AfterWriteFails
  <1> QED BY <1>1, <1>2, <1>3, <1>4, <1>5, <1>6

LEMMA TilesInvStep == TilesInv /\ [TilesNext]_tileVars => TilesInv'
  <1> SUFFICES ASSUME TilesInv, [TilesNext]_tileVars PROVE TilesInv'
    OBVIOUS
  <1>1. CASE UplinkChanges
    BY <1>1
    DEF TilesInv, TilesTypeOK, ReportedAtTheEnd, WritesAfterTheEnd, StillStored,
        CacheBeforeNetwork, UplinkChanges
  <1>2. CASE UNCHANGED tileVars
    BY <1>2
    DEF TilesInv, TilesTypeOK, ReportedAtTheEnd, WritesAfterTheEnd, StillStored,
        CacheBeforeNetwork, tileVars
  <1> QED BY <1>1, <1>2, TileStep DEF TilesNext

LEMMA TilesInvariant == TilesSpec => []TilesInv
  BY TilesInitOK, TilesInvStep, PTL DEF TilesSpec

----------------------------------------------------------------------------
(* Every variable of the tile layer keeps its type; in particular done, the *)
(* callback of createTile, is never called twice for a tile, whichever of   *)
(* the two catches or the blob ends its chain.                              *)
THEOREM TilesTypeCorrect == TilesSpec => []TilesTypeOK
  <1>1. TilesInv => TilesTypeOK
    BY DEF TilesInv
  <1> QED BY TilesInvariant, <1>1, PTL

(* A tile that is in tileStore when createTile is called for it is never    *)
(* fetched and never written, and gets the live URL only if its own read    *)
(* was refused, for any number of tiles of the same URL.                    *)
THEOREM CachedStaysOffline == TilesSpec => []CacheBeforeNetwork
  <1>1. TilesInv => CacheBeforeNetwork
    BY DEF TilesInv
  <1> QED BY TilesInvariant, <1>1, PTL

(* createTile's contract with Leaflet: done has been called exactly when    *)
(* the chain of the tile has ended, so a tile is reported with its image    *)
(* or fallback in place and a chain never ends unreported.                  *)
THEOREM ReportedOnce == TilesSpec => []ReportedAtTheEnd
  <1>1. TilesInv => ReportedAtTheEnd
    BY DEF TilesInv
  <1> QED BY TilesInvariant, <1>1, PTL

=============================================================================
