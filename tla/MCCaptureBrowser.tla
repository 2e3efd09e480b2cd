-------------------------- MODULE MCCaptureBrowser --------------------------
(* CaptureBrowser for TLC: temperatures that fall while latitudes rise, a   *)
(* message without a fix, a clock that is set back to a time used before,   *)
(* and three search texts: blank, one found in an id and in a place, one    *)
(* found nowhere.                                                           *)
EXTENDS CaptureBrowser

MCNoQuery == [blank |-> TRUE, ids |-> {}, places |-> {}]
MCQueries == {MCNoQuery,
              [blank |-> FALSE, ids |-> {2}, places |-> {1}],
              [blank |-> FALSE, ids |-> {}, places |-> {}]}
MCTemp == [n \in 0 .. 2 |-> IF n = 0 THEN 0 ELSE 90 - 10 * n]
MCLat == [n \in 0 .. 2 |-> IF n = 2 THEN 0 ELSE 14 + n]
MCStamp == <<5, 9, 5, 7>>

=============================================================================
