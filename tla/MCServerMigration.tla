------------------------- MODULE MCServerMigration -------------------------
(* ServerMigration for TLC.  All nodes are alike and so are all ports:      *)
(* every run starts on one of each.                                         *)
EXTENDS ServerMigration, TLC

CONSTANTS n1, n2

MCInit == Init /\ row.node = n1 /\ row.port = 1
MCSpec == MCInit /\ [][Next]_vars /\ Fairness
=============================================================================
