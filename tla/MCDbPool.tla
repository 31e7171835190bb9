------------------------------- MODULE MCDbPool -------------------------------
(* A small instance of DbPool: as many calls as connections, so that all    *)
(* connections can be held by calls that wait for one more, and be lost.    *)
EXTENDS DbPool

CONSTANTS c1, c2, k1, k2
=============================================================================
