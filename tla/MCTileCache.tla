----------------------------- MODULE MCTileCache -----------------------------
(* TileCache for TLC: two tiles of one URL, as when the map is opened again, *)
(* and one of another.                                                       *)
EXTENDS TileCache

MCTiles == {"first", "again", "other"}
MCUrl == [first |-> "u", again |-> "u", other |-> "v"]

=============================================================================
