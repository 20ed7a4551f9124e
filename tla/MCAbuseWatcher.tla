--------------------------- MODULE MCAbuseWatcher ---------------------------
(* AbuseWatcher for TLC.                                                    *)
EXTENDS AbuseWatcher, TLC
=============================================================================
