------------------------------ MODULE TileCache ------------------------------
(***************************************************************************)
(* OfflineTileLayer.createTile (OfflineMap.jsx): each tile looks its URL up *)
(* in IndexedDB, fetches and stores it when it is not there, and falls back *)
(* to the live URL; whatever happens, Leaflet is told by done().  Lookups,  *)
(* fetches and writes of different tiles interleave; the uplink comes and   *)
(* goes; writes may fail, and the database may refuse to be read.           *)
(***************************************************************************)
EXTENDS Integers, FiniteSets

CONSTANTS
    Tiles,      \* createTile calls
    Url,        \* the URL of each: a function on Tiles
    MaxFlips    \* bound: changes of the uplink

ASSUME TileAssumption == DOMAIN Url = Tiles /\ MaxFlips \in Nat

Urls == {Url[t] : t \in Tiles}

VARIABLES
    online,     \* the uplink works
    stored,     \* the URLs with a blob in tileStore
    writing,    \* setItem calls under way, one per tile that fetched
    step,       \* where each tile's promise chain is
    src,        \* tile.src: "none", "blob" (an object URL) or "live"
    done,       \* how often done was called for the tile
    was,        \* history: the URL was stored when createTile was called
    refused,    \* history: getItem rejected for the tile
    flips

tileVars == <<online, stored, writing, step, src, done, was, refused, flips>>

TilesInit ==
    /\ online \in BOOLEAN
    /\ stored \in SUBSET Urls
    /\ writing = {}
    /\ step = [t \in Tiles |-> "idle"]
    /\ src = [t \in Tiles |-> "none"]
    /\ done = [t \in Tiles |-> 0]
    /\ was = [t \in Tiles |-> FALSE]
    /\ refused = [t \in Tiles |-> FALSE]
    /\ flips = 0

----------------------------------------------------------------------------
CreateTile(t) ==
    /\ step[t] = "idle"
    /\ step' = [step EXCEPT ![t] = "lookup"]
    /\ was' = [was EXCEPT ![t] = Url[t] \in stored]
    /\ UNCHANGED <<online, stored, writing, src, done, refused, flips>>

(* tile.src = ...; done(null, tile) *)
Finish(t, source) ==
    /\ step' = [step EXCEPT ![t] = "done"]
    /\ src' = [src EXCEPT ![t] = source]
    /\ done' = [done EXCEPT ![t] = done[t] + 1]

(* mutant: the network is tried first while there is one *)
HitOnlyOffline(t) == Url[t] \in stored /\ ~ online

(* getItem found a blob *)
Hit(t) == Url[t] \in stored

LookupHit(t) ==
    /\ step[t] = "lookup"
    /\ Hit(t)
    /\ Finish(t, "blob")
    /\ UNCHANGED <<online, stored, writing, was, refused, flips>>

LookupMiss(t) ==
    /\ step[t] = "lookup"
    /\ ~ Hit(t)
    /\ step' = [step EXCEPT ![t] = "fetch"]
    /\ UNCHANGED <<online, stored, writing, src, done, was, refused, flips>>

(* getItem rejected *)
LookupFails(t) ==
    /\ step[t] = "lookup"
    /\ Finish(t, "live")
    /\ refused' = [refused EXCEPT ![t] = TRUE]
    /\ UNCHANGED <<online, stored, writing, was, flips>>

(* an ok response: start the write, show the blob without waiting for it *)
FetchOk(t) ==
    /\ step[t] = "fetch"
    /\ online
    /\ writing' = writing \cup {t}
    /\ Finish(t, "blob")
    /\ UNCHANGED <<online, stored, was, refused, flips>>

(* mutant: the inner catch is missing *)
FinishRejectedSilently(t) ==
    /\ step' = [step EXCEPT ![t] = "done"]
    /\ UNCHANGED <<src, done>>

(* the inner catch: the live URL, which the browser may have to give up on *)
FinishRejected(t) == Finish(t, "live")

(* no uplink, or a response that is not ok *)
FetchFails(t) ==
    /\ step[t] = "fetch"
    /\ FinishRejected(t)
    /\ UNCHANGED <<online, stored, writing, was, refused, flips>>

Written(t) ==
    /\ t \in writing
    /\ writing' = writing \ {t}
    /\ stored' = stored \cup {Url[t]}
    /\ UNCHANGED <<online, step, src, done, was, refused, flips>>

(* mutant: the promise of setItem is chained, so the fallback runs too *)
AfterWriteFailsChained(t) == Finish(t, "live")

(* setItem's own catch *)
AfterWriteFails(t) == UNCHANGED <<step, src, done>>

(* setItem rejects, as when the quota is used up; nobody is told *)
WriteFails(t) ==
    /\ t \in writing
    /\ writing' = writing \ {t}
    /\ AfterWriteFails(t)
    /\ UNCHANGED <<online, stored, was, refused, flips>>

UplinkChanges ==
    /\ flips < MaxFlips
    /\ flips' = flips + 1
    /\ online' = ~ online
    /\ UNCHANGED <<stored, writing, step, src, done, was, refused>>

TilesNext ==
    \/ UplinkChanges
    \/ \E t \in Tiles :
          \/ CreateTile(t) \/ LookupHit(t) \/ LookupMiss(t) \/ LookupFails(t)
          \/ FetchOk(t) \/ FetchFails(t) \/ Written(t) \/ WriteFails(t)

(* every promise is settled in the end *)
Settles(t) ==
    LookupHit(t) \/ LookupMiss(t) \/ LookupFails(t) \/ FetchOk(t) \/ FetchFails(t)

TilesFairness ==
    \A t \in Tiles : WF_tileVars(Settles(t)) /\ WF_tileVars(Written(t) \/ WriteFails(t))

TilesSpec == TilesInit /\ [][TilesNext]_tileVars /\ TilesFairness

----------------------------------------------------------------------------
(* Every variable keeps its type, and done is never called twice. *)
TilesTypeOK ==
    /\ online \in BOOLEAN
    /\ stored \subseteq Urls /\ writing \subseteq Tiles
    /\ step \in [Tiles -> {"idle", "lookup", "fetch", "done"}]
    /\ src \in [Tiles -> {"none", "blob", "live"}]
    /\ done \in [Tiles -> 0 .. 1]
    /\ was \in [Tiles -> BOOLEAN] /\ refused \in [Tiles -> BOOLEAN]
    /\ flips \in Nat

(* Offline use: a tile that was in the database when it was asked for is    *)
(* never fetched or written again, and is shown from the database unless    *)
(* reading it was refused (then createTile's outer catch leaves it to the   *)
(* live URL, which may use the network), with whatever lookups, fetches and *)
(* writes of other tiles, and changes of the uplink, in between.            *)
CacheBeforeNetwork ==
    \A t \in Tiles : was[t] =>
        /\ step[t] # "fetch" /\ t \notin writing
        /\ src[t] = "live" => refused[t]

(* A failed fetch, a refused read and a full database all end in done():    *)
(* Leaflet never waits for a tile for ever.                                 *)
EveryTileReported == \A t \in Tiles : step[t] = "lookup" ~> done[t] > 0

=============================================================================
