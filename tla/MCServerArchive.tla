-------------------------- MODULE MCServerArchive --------------------------
(* ServerArchive for TLC.                                                   *)
EXTENDS ServerArchive, TLC
=============================================================================
