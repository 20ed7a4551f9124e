-------------------------- MODULE ServerHomeProofs --------------------------
(***************************************************************************)
(* What ServerHome is for: until the promise is void, the node the record  *)
(* names has the server's files.                                           *)
(***************************************************************************)
EXTENDS ServerHome, TLAPS

\* A server is moved only to a node that has its files, and they are dropped
\* only elsewhere, so a panel that dies between any two steps finds them at the
\* node its record names.
THEOREM FilesAtHome == Spec => []Safe
<1>1. Init => Safe
  BY DEF Init, Safe
<1>2. Safe /\ [Next]_homeVars => Safe'
  <2> SUFFICES ASSUME Safe, [Next]_homeVars PROVE Safe'
    OBVIOUS
  <2>1. ASSUME NEW n \in Nodes, Copy(n) PROVE Safe'
    BY <2>1 DEF Copy, Safe
  <2>2. ASSUME NEW n \in Nodes, Move(n) PROVE Safe'
    BY <2>2 DEF Move, Safe
  <2>3. ASSUME NEW n \in Nodes, Drop(n) PROVE Safe'
    BY <2>3 DEF Drop, Safe
  <2>4. CASE Play
    BY <2>4 DEF Play, Safe
  <2>5. CASE Forfeit
    BY <2>5 DEF Forfeit, Safe
  <2>6. CASE UNCHANGED homeVars
    BY <2>6 DEF homeVars, Safe
  <2> QED BY <2>1, <2>2, <2>3, <2>4, <2>5, <2>6 DEF Next
<1> QED BY <1>1, <1>2, PTL DEF Spec
=============================================================================
