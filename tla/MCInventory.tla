---------------------------- MODULE MCInventory -----------------------------
(***************************************************************************)
(* Inventory on small tables for TLC.                                      *)
(***************************************************************************)
EXTENDS Inventory, TLC

CONSTANTS s1, s2, north, south, n1, n2, i1, i2, w1, w2, p1, p2, c1, c2, a1, a2

\* c1 takes both addresses and c2 the second alone.
MCUsable == [c \in Cidrs |-> IF c = c2 THEN Addresses \ {a1} ELSE Addresses]

SiteOps == {"CreateSite", "UpdateSite", "DeleteSite", "CreateSubnet"}
SubnetOps == {"CreateSite", "UpdateSite", "DeleteSite", "CreateSubnet",
              "UpdateSubnet", "AssignSite", "DeleteSubnet"}
AddressOps == {"CreateSite", "DeleteSite", "CreateSubnet", "DeleteSubnet",
               "CreateIP", "UpdateIP", "DeleteIP"}
CidrOps == AddressOps \cup {"UpdateSubnet"}

Symmetry == Permutations(SiteIds) \cup Permutations(SubnetIds)
            \cup Permutations(IpIds) \cup Permutations(Procs)
            \cup Permutations(SiteNames) \cup Permutations(Hostnames)
=============================================================================
