----------------------------- MODULE MCCapacity -----------------------------
(***************************************************************************)
(* Capacity with addresses of a few bits for TLC.                          *)
(***************************************************************************)
EXTENDS Capacity, TLC

CONSTANTS n1, n2

\* Of each IPv4 length the first and the last network; of IPv6 prefixes
\* some that fit the counter and one that does not.
Ends ==
    {p \in Valid :
       \/ p.family = 4 /\ p.net \in {0, 2 ^ p.bits - 1}
       \/ p.family = 6 /\ p.bits \in {1, 2, 4} /\ p.net = 0}

Symmetry == Permutations(Subnets)
=============================================================================
