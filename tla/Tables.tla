------------------------------- MODULE Tables -------------------------------
(***************************************************************************)
(* The IPAM tables sites, subnets and ip_addresses, and the SQL statements *)
(* that change them.  Every statement of db/queries runs in a transaction  *)
(* of its own, so each is one action here, with the constraints and the    *)
(* referential actions that db/migrations declares:                        *)
(*   - sites.name is UNIQUE,                                               *)
(*   - subnets.site_id references sites ON DELETE SET NULL,                *)
(*   - ip_addresses.subnet_id references subnets ON DELETE CASCADE,        *)
(*   - unique_ip is UNIQUE (ip, subnet_id).                                *)
(* A statement whose constraint fails changes nothing; which answer its    *)
(* caller gives is the caller's business (module Inventory).               *)
(*                                                                         *)
(* Ids are UUIDs or BIGSERIAL numbers: an id is Unused until a row is      *)
(* inserted under it, and Deleted ever after the row is gone.  The sets of *)
(* ids bound how many rows a behaviour may insert.  Descriptions and       *)
(* timestamps are left out.                                                *)
(***************************************************************************)

CONSTANTS
    SiteIds, SubnetIds, IpIds,  \* primary keys the database may hand out
    SiteNames, Cidrs, Addresses, Hostnames,
    HostBitCidrs,   \* CIDRs with bits to the right of the mask: the cidr
                    \* column type refuses them, netip.ParsePrefix does not
    Nil,            \* SQL NULL, and an argument that is absent or unparsable
    Unused, Deleted \* a key with no row: never inserted, no longer there

SubnetRow == [cidr : Cidrs, site : SiteIds \cup {Nil}]
IpRow == [ip : Addresses, hostname : Hostnames, subnet : SubnetIds]
NoRow == {Unused, Deleted}

ASSUME RowsAreNotMarks ==
    /\ NoRow \cap (SiteNames \cup SubnetRow \cup IpRow) = {}
    /\ Unused # Deleted
    /\ Nil \notin SiteIds \cup SubnetIds \cup IpIds
    /\ Nil \notin SiteNames \cup Cidrs \cup Addresses \cup Hostnames
    /\ HostBitCidrs \subseteq Cidrs

VARIABLES
    sites,      \* site id -> name or a mark
    subnets,    \* subnet id -> row or a mark
    ips,        \* ip id -> row or a mark
    cidrsHeld   \* history: every CIDR a subnet's row has ever had

tables == <<sites, subnets, ips, cidrsHeld>>

LiveSites == {s \in SiteIds : sites[s] \notin NoRow}
LiveSubnets == {n \in SubnetIds : subnets[n] \notin NoRow}
LiveIps == {i \in IpIds : ips[i] \notin NoRow}

TablesTypeOK ==
    /\ sites \in [SiteIds -> SiteNames \cup NoRow]
    /\ subnets \in [SubnetIds -> SubnetRow \cup NoRow]
    /\ ips \in [IpIds -> IpRow \cup NoRow]
    /\ cidrsHeld \in [SubnetIds -> SUBSET Cidrs]

TablesInit ==
    /\ sites = [s \in SiteIds |-> Unused]
    /\ subnets = [n \in SubnetIds |-> Unused]
    /\ ips = [i \in IpIds |-> Unused]
    /\ cidrsHeld = [n \in SubnetIds |-> {}]
-----------------------------------------------------------------------------
(* The constraints a statement is checked against.                         *)

\* UNIQUE (name): some other row of sites has the name.
NameTaken(name, s) == \E t \in LiveSites \ {s} : sites[t] = name

\* What INSERT or UPDATE of a subnet needs: a value the cidr type takes and
\* a site_id that is NULL or references a row.
SubnetStorable(cidr, site) ==
    /\ cidr \notin HostBitCidrs
    /\ site \in LiveSites \cup {Nil}

\* UNIQUE (ip, subnet_id).
AddressTaken(a, n) == \E i \in LiveIps : ips[i].ip = a /\ ips[i].subnet = n
-----------------------------------------------------------------------------
(* The statements.                                                         *)

\* CreateSite
InsertSite(s, name) ==
    /\ sites[s] = Unused
    /\ ~NameTaken(name, s)
    /\ sites' = [sites EXCEPT ![s] = name]
    /\ UNCHANGED <<subnets, ips, cidrsHeld>>

\* UpdateSite
RenameSite(s, name) ==
    /\ s \in LiveSites
    /\ ~NameTaken(name, s)
    /\ sites' = [sites EXCEPT ![s] = name]
    /\ UNCHANGED <<subnets, ips, cidrsHeld>>

\* DeleteSiteByID: ON DELETE SET NULL clears the site of its subnets.
RemoveSite(s) ==
    /\ s \in LiveSites
    /\ sites' = [sites EXCEPT ![s] = Deleted]
    /\ subnets' = [n \in SubnetIds |->
                     IF n \in LiveSubnets /\ subnets[n].site = s
                     THEN [subnets[n] EXCEPT !.site = Nil]
                     ELSE subnets[n]]
    /\ UNCHANGED <<ips, cidrsHeld>>

\* CreateSubnet: nothing forbids a second row with the same site and CIDR.
InsertSubnet(n, cidr, site) ==
    /\ subnets[n] = Unused
    /\ SubnetStorable(cidr, site)
    /\ subnets' = [subnets EXCEPT ![n] = [cidr |-> cidr, site |-> site]]
    /\ cidrsHeld' = [cidrsHeld EXCEPT ![n] = @ \cup {cidr}]
    /\ UNCHANGED <<sites, ips>>

\* UpdateSubnet: the addresses the subnet already has are not looked at.
RewriteSubnet(n, cidr, site) ==
    /\ n \in LiveSubnets
    /\ SubnetStorable(cidr, site)
    /\ subnets' = [subnets EXCEPT ![n] = [cidr |-> cidr, site |-> site]]
    /\ cidrsHeld' = [cidrsHeld EXCEPT ![n] = @ \cup {cidr}]
    /\ UNCHANGED <<sites, ips>>

\* AssignSubnetSite
MoveSubnet(n, site) ==
    /\ n \in LiveSubnets
    /\ site \in LiveSites
    /\ subnets' = [subnets EXCEPT ![n].site = site]
    /\ UNCHANGED <<sites, ips, cidrsHeld>>

\* DeleteSubnetByID: ON DELETE CASCADE takes its addresses along.
RemoveSubnet(n) ==
    /\ n \in LiveSubnets
    /\ subnets' = [subnets EXCEPT ![n] = Deleted]
    /\ ips' = [i \in IpIds |->
                 IF i \in LiveIps /\ ips[i].subnet = n THEN Deleted ELSE ips[i]]
    /\ UNCHANGED <<sites, cidrsHeld>>

\* Faulty variant of InsertIp: ip_addresses without its constraints.
InsertIpUnchecked(i, a, hostname, n) ==
    /\ ips[i] \in NoRow
    /\ ips' = [ips EXCEPT ![i] = [ip |-> a, hostname |-> hostname, subnet |-> n]]
    /\ UNCHANGED <<sites, subnets, cidrsHeld>>

\* CreateIPAddress
InsertIp(i, a, hostname, n) ==
    /\ ips[i] = Unused
    /\ n \in LiveSubnets
    /\ ~AddressTaken(a, n)
    /\ ips' = [ips EXCEPT ![i] = [ip |-> a, hostname |-> hostname, subnet |-> n]]
    /\ UNCHANGED <<sites, subnets, cidrsHeld>>

\* UpdateIPByUUID: by id alone.
RenameIp(i, hostname) ==
    /\ i \in LiveIps
    /\ ips' = [ips EXCEPT ![i].hostname = hostname]
    /\ UNCHANGED <<sites, subnets, cidrsHeld>>

\* DeleteIPByUUIDandSubnetID
RemoveIp(i, n) ==
    /\ i \in LiveIps
    /\ ips[i].subnet = n
    /\ ips' = [ips EXCEPT ![i] = Deleted]
    /\ UNCHANGED <<sites, subnets, cidrsHeld>>

Statement ==
    \/ \E s \in SiteIds :
          \/ \E name \in SiteNames : InsertSite(s, name) \/ RenameSite(s, name)
          \/ RemoveSite(s)
    \/ \E n \in SubnetIds :
          \/ \E cidr \in Cidrs, site \in SiteIds :
                InsertSubnet(n, cidr, site) \/ RewriteSubnet(n, cidr, site)
          \/ \E site \in SiteIds : MoveSubnet(n, site)
          \/ RemoveSubnet(n)
    \/ \E i \in IpIds :
          \/ \E a \in Addresses, hostname \in Hostnames, n \in SubnetIds :
                InsertIp(i, a, hostname, n)
          \/ \E hostname \in Hostnames : RenameIp(i, hostname)
          \/ \E n \in SubnetIds : RemoveIp(i, n)

\* What every program of this system may do to the tables, and all of it:
\* the services refine this specification.
TablesSpec == TablesInit /\ [][Statement]_tables
-----------------------------------------------------------------------------
(* Properties of the schema, whoever runs the statements.                  *)

\* Every address row belongs to an existing subnet and every subnet to an
\* existing site or to none (0002:10-13, 20260305161410:3-4).
ReferentialIntegrity ==
    /\ \A i \in LiveIps : ips[i].subnet \in LiveSubnets
    /\ \A n \in LiveSubnets : subnets[n].site \in LiveSites \cup {Nil}

\* No two rows hold one address of one subnet (0003:3-4), and no two sites
\* one name (20260305160734:3-9).
KeysUnique ==
    /\ \A i, j \in LiveIps :
          ips[i].ip = ips[j].ip /\ ips[i].subnet = ips[j].subnet => i = j
    /\ \A s, t \in LiveSites : sites[s] = sites[t] => s = t

\* An address row keeps its address and its subnet for life: it goes with
\* its subnet or alone, and a key that was used is not used again.
AddressIdentity ==
    [][\A i \in IpIds :
          /\ ips[i] = Deleted => ips'[i] = Deleted
          /\ i \in LiveIps /\ ips'[i] # ips[i] /\ ips'[i] # Deleted =>
                /\ ips'[i].ip = ips[i].ip
                /\ ips'[i].subnet = ips[i].subnet]_ips

\* "The only supported clearing behavior [of site_id] is indirect clearing
\* caused by site deletion" (backend-sites-and-usage-aggregates.md:41): a
\* subnet loses its site only in the step that deletes that site.
SiteClearedOnlyByDeletion ==
    [][\A n \in LiveSubnets :
          subnets'[n] # Deleted /\ subnets[n].site # Nil /\ subnets'[n].site = Nil
            => sites'[subnets[n].site] = Deleted]_tables
=============================================================================
