------------------------------- MODULE MCNotify -------------------------------
(* A small instance of Notify: u1's calls concern u2, u2's concern u1.       *)
EXTENDS Notify

CONSTANTS u1, u2, s1, s2, c1, c2

MCRecipient == [c \in Calls |-> IF c = c1 THEN u2 ELSE u1]
=============================================================================
