------------------------------- MODULE MCLikes -------------------------------
(* Small instances of Likes: u1 and u2 own an ad each, u3 has no stats row.  *)
EXTENDS Likes, TLC

CONSTANTS u1, u2, u3, a1, a2, a3, r1, r2

\* u2 owns one ad in MCOwner and two in MCOwner3.
MCOwner   == (a1 :> u1) @@ (a2 :> u2)
MCOwner3  == MCOwner @@ (a3 :> u2)
MCStatsId == (u1 :> 1) @@ (u2 :> 2)
Symmetry  == Permutations({r1, r2})
=============================================================================
