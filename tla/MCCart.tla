------------------------------- MODULE MCCart -------------------------------
(* Two requests at a time over two variants. *)
EXTENDS Cart, TLC

CONSTANTS r1, r2, c1, c2, v1, v2

Ask(kind, o, v, q) == [kind |-> kind, owner |-> o, variant |-> v, quantity |-> q]

MCOps ==
    {Ask("add", o, v1, 1) : o \in Owners}
    \cup {Ask("add", "user", v2, 2)}
    \cup {Ask("set", "user", v1, 3), Ask("set", "user", v2, 0)}
    \cup {Ask(kind, "user", v1, 0) : kind \in {"sign_in", "checkout", "clear", "read"}}

MCSymmetry == Permutations({r1, r2}) \cup Permutations({c1, c2})
=============================================================================
