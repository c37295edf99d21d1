------------------------- MODULE MCConexusScheduler -------------------------
(* The instance of ConexusScheduler for TLC: days of three hours and weeks of   *)
(* two days; the briefing in the second hour, to be caught up before the third; *)
(* a job that is not caught up; and the lint once a week, to be caught up at    *)
(* any time.                                                                    *)
EXTENDS ConexusScheduler

MCJobs ==
  <<[period |-> 3, tick |-> 1, catchable |-> TRUE, end |-> 2],
    [period |-> 6, tick |-> 2, catchable |-> FALSE, end |-> 0],
    [period |-> 6, tick |-> 3, catchable |-> TRUE, end |-> 0]>>
=============================================================================
