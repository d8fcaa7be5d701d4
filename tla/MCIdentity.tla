----------------------------- MODULE MCIdentity -----------------------------
(* Two requests at a time for one account, with three sessions and two addresses. *)
EXTENDS Identity, TLC

CONSTANTS r1, r2, u1, s1, s2, s3, a1, a2

MCSymmetry == Permutations({r1, r2}) \cup Permutations({s1, s2, s3})
                \cup Permutations({a1, a2})
=============================================================================
