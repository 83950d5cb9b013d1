---------------------------- MODULE MCDiscovery -----------------------------
(***************************************************************************)
(* Discovery on small clusters for TLC.                                    *)
(***************************************************************************)
EXTENDS Discovery, TLC

CONSTANTS r1, r2, i1, i2

\* One Service in each of two namespaces.
TwoNamespaces == [u \in Uids |-> IF u = 2 THEN 2 ELSE 1]
OneNamespace == [u \in Uids |-> 1]

\* No Service has an address, or all have the same.
NoAddress == [u \in Uids |-> {}]
SameAddress == [u \in Uids |-> {1}]

\* All address rows hold the address, as rows of different subnets may.
AllMatch == [i \in IpIds |-> 1]

Symmetry == Permutations(Replicas) \cup Permutations(IpIds)
=============================================================================
