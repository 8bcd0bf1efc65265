--------------------------- MODULE MCProcessTime ---------------------------
(* The processes and the clock share no state: a behaviour is one of the   *)
(* first or one of the second, while the other stays as it starts (the     *)
(* clock, when the processes run, in one of the states it can start in).   *)
EXTENDS Process, TimeOfDay

VARIABLE part

MCInit ==
    /\ Init /\ TimeInit /\ part \in {"processes", "time"}
    /\ part = "processes" =>
           /\ date.year = 2000 /\ date.mon = 1 /\ date.mday = 28
           /\ phase = 0 /\ ~ pending
MCNext ==
    \/ part = "processes" /\ Next /\ UNCHANGED <<timeVars, part>>
    \/ part = "time" /\ TimeNext /\ UNCHANGED <<vars, part>>
MCSpec == MCInit /\ [][MCNext]_<<vars, timeVars, part>>
=============================================================================
