--------------------------- MODULE MCDiscoveryView ---------------------------
(***************************************************************************)
(* DiscoveryView on a small cluster for TLC.                               *)
(***************************************************************************)
EXTENDS DiscoveryView

CONSTANTS r1, i1

\* A Service has a cluster and a load balancer IP.
TwoAddresses == [u \in Uids |-> {1, 2}]
OneNamespace == [u \in Uids |-> 1]

\* The row holds the first address; the other is never matched.
FirstAddress == [i \in IpIds |-> 1]
=============================================================================
