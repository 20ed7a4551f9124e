---------------------------- MODULE MCSchedules ----------------------------
(* Schedules for TLC: a schedule that waits between two tasks, and one of a *)
(* single task.                                                             *)
EXTENDS Schedules, TLC

Now(goesOn) == [delay |-> 0, goesOn |-> goesOn]
Later == [delay |-> 2, goesOn |-> FALSE]
MCVersions == {<<Now(TRUE), Later>>, <<Now(FALSE)>>}

MCInit == Init /\ Len(tasks) = 2
MCSpec == MCInit /\ [][Next]_vars /\ Fairness
=============================================================================
