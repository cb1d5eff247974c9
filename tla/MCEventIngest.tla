---------------------------- MODULE MCEventIngest ----------------------------
(* One event_id with two contents, observed at two instants of a day of the *)
(* first month or on a day of the second.                                   *)
EXTENDS EventIngest, TLC

CONSTANTS e1, x1, x2, w1, w2, Monday, Friday

MCIds == {e1}
MCRaws == {x1, x2}
MCTwoWorkers == {w1, w2}
MCObserved == {[day |-> Monday, month |-> 0, instant |-> 1],
               [day |-> Monday, month |-> 0, instant |-> 2],
               [day |-> Friday, month |-> 1, instant |-> 3]}
MCSymmetry == Permutations(MCRaws) \cup Permutations(MCTwoWorkers)
=============================================================================
