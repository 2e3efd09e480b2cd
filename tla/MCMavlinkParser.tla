-------------------------- MODULE MCMavlinkParser --------------------------
(* MavlinkParser for TLC: voltages below, in and above the range of the     *)
(* battery estimate (in the cfg), both signs of yaw, and a battery level    *)
(* that the drone does not know.                                            *)
EXTENDS MavlinkParser

MCYaws == {-90, 180}

MCPercents == {-1, 40}

=============================================================================
