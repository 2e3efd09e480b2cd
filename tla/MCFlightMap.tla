---------------------------- MODULE MCFlightMap ----------------------------
(* FlightMap with Eps = 1 and Jump = 5: creeping steps, real steps, jumps   *)
(* within the field, the backend's <<0, 0>> and a position on the equator.  *)
EXTENDS FlightMap

MCFieldDefault == <<20, 20>>

MCPositions ==
    {NoFix, <<20, 20>>, <<21, 20>>, <<22, 20>>, <<23, 21>>, <<20, 24>>,
     <<29, 20>>, <<0, 30>>}

=============================================================================
