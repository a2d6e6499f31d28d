----------------------------- MODULE MCFireTimes -----------------------------
(***************************************************************************)
(* An instance of FireTimes for TLC: days of four readings, and zones that *)
(* put the clock forward, back or leave it alone at different times.       *)
(***************************************************************************)
EXTENDS FireTimes

MCLocal == [before |-> 0, after |-> 0, change |-> 0]

\* Changes back by up to two readings, forward by up to a whole day.
MCZones ==
    {z \in [before : {-1, 1}, after : {-1, 0, 1, 3}, change : 8..20] :
        CivilZone(z)}

=============================================================================
