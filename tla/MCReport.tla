------------------------------ MODULE MCReport ------------------------------
(* Report for TLC: temperatures on both sides of every threshold and of     *)
(* the tenth it is rounded to, durations on both sides of every unit, and a *)
(* clock that was set back.                                                 *)
EXTENDS Report

MCTemps ==
    {0, 3500, 3501, 4500, 4501, 5000, 5001, 6500, 6505, 7000, 7001, 8500, 8504, 8505}

MCElapsed == {-5, 0, 59, 60, 3599, 3600, 90061}

=============================================================================
