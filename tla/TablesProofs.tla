---------------------------- MODULE TablesProofs ----------------------------
(***************************************************************************)
(* What holds of the tables whatever program runs the statements of module *)
(* Tables.  TablesInv is inductive: it is the type invariant with the      *)
(* foreign keys and the unique constraints.                                *)
(***************************************************************************)
EXTENDS Tables, TLAPS

TablesInv == TablesTypeOK /\ ReferentialIntegrity /\ KeysUnique

USE DEF NoRow

\* A row is not one of the two marks, so the live keys are those with a row.
LEMMA LiveRows ==
    ASSUME TablesTypeOK
    PROVE  /\ \A s \in SiteIds : s \in LiveSites <=> sites[s] \in SiteNames
           /\ \A n \in SubnetIds : n \in LiveSubnets <=> subnets[n] \in SubnetRow
           /\ \A i \in IpIds : i \in LiveIps <=> ips[i] \in IpRow
  BY RowsAreNotMarks DEF TablesTypeOK, LiveSites, LiveSubnets, LiveIps

\* The statements on sites keep the invariant.
LEMMA SiteStatements ==
    ASSUME TablesInv, NEW s \in SiteIds,
           \/ \E name \in SiteNames : InsertSite(s, name) \/ RenameSite(s, name)
           \/ RemoveSite(s)
    PROVE  TablesInv'
<1> USE DEF TablesInv
<1>1. CASE \E name \in SiteNames : InsertSite(s, name) \/ RenameSite(s, name)
  <2>1. PICK name \in SiteNames : InsertSite(s, name) \/ RenameSite(s, name)
    BY <1>1
  <2>2. /\ sites' = [sites EXCEPT ![s] = name]
        /\ UNCHANGED <<subnets, ips, cidrsHeld>>
        /\ ~NameTaken(name, s)
    BY <2>1 DEF InsertSite, RenameSite
  <2>3. TablesTypeOK'
    BY <2>2 DEF TablesTypeOK
  <2>4. LiveSites' = LiveSites \cup {s} /\ LiveSubnets' = LiveSubnets /\ LiveIps' = LiveIps
    BY <2>2, RowsAreNotMarks DEF TablesTypeOK, LiveSites, LiveSubnets, LiveIps
  <2>5. ReferentialIntegrity'
    BY <2>2, <2>4 DEF ReferentialIntegrity
  <2>6. KeysUnique'
    BY <2>2, <2>4 DEF KeysUnique, NameTaken, TablesTypeOK, LiveSites
  <2>7. QED
    BY <2>3, <2>5, <2>6
<1>2. CASE RemoveSite(s)
  <2>1. /\ sites' = [sites EXCEPT ![s] = Deleted]
        /\ subnets' = [n \in SubnetIds |->
                         IF n \in LiveSubnets /\ subnets[n].site = s
                         THEN [subnets[n] EXCEPT !.site = Nil]
                         ELSE subnets[n]]
        /\ UNCHANGED <<ips, cidrsHeld>>
    BY <1>2 DEF RemoveSite
  <2>2. ASSUME NEW n \in LiveSubnets, subnets[n].site = s
        PROVE  subnets'[n] \in SubnetRow /\ subnets'[n].site = Nil
    BY <2>1, <2>2, LiveRows DEF SubnetRow, LiveSubnets
  <2>3. TablesTypeOK'
    BY <2>1, <2>2 DEF TablesTypeOK, LiveSubnets
  <2>4. LiveSites' = LiveSites \ {s} /\ LiveSubnets' = LiveSubnets /\ LiveIps' = LiveIps
    <3>1. LiveSites' = LiveSites \ {s}
      BY <2>1, RowsAreNotMarks DEF TablesTypeOK, LiveSites
    <3>2. LiveSubnets' = LiveSubnets
      BY <2>1, <2>2, RowsAreNotMarks DEF TablesTypeOK, LiveSubnets
    <3>3. LiveIps' = LiveIps
      BY <2>1 DEF LiveIps
    <3>4. QED
      BY <3>1, <3>2, <3>3
  <2>5. ReferentialIntegrity'
    BY <2>1, <2>2, <2>4 DEF ReferentialIntegrity, LiveSubnets
  <2>6. KeysUnique'
    BY <2>1, <2>4 DEF KeysUnique, TablesTypeOK, LiveSites
  <2>7. QED
    BY <2>3, <2>5, <2>6
<1>3. QED
  BY <1>1, <1>2

\* The statements on subnets keep the invariant.
LEMMA SubnetStatements ==
    ASSUME TablesInv, NEW n \in SubnetIds,
           \/ \E cidr \in Cidrs, site \in SiteIds :
                 InsertSubnet(n, cidr, site) \/ RewriteSubnet(n, cidr, site)
           \/ \E site \in SiteIds : MoveSubnet(n, site)
           \/ RemoveSubnet(n)
    PROVE  TablesInv'
<1> USE DEF TablesInv
<1>1. ASSUME NEW row \in SubnetRow, row.site \in LiveSites \cup {Nil},
             subnets' = [subnets EXCEPT ![n] = row],
             cidrsHeld' \in [SubnetIds -> SUBSET Cidrs],
             UNCHANGED <<sites, ips>>
      PROVE  TablesInv'
  <2>1. TablesTypeOK'
    BY <1>1 DEF TablesTypeOK
  <2>2. LiveSites' = LiveSites /\ LiveSubnets' = LiveSubnets \cup {n} /\ LiveIps' = LiveIps
    BY <1>1, RowsAreNotMarks DEF TablesTypeOK, LiveSites, LiveSubnets, LiveIps
  <2>3. ReferentialIntegrity'
    BY <1>1, <2>2 DEF ReferentialIntegrity, TablesTypeOK, LiveSubnets
  <2>4. KeysUnique'
    BY <1>1, <2>2 DEF KeysUnique
  <2>5. QED
    BY <2>1, <2>3, <2>4
<1>2. CASE \E cidr \in Cidrs, site \in SiteIds :
              InsertSubnet(n, cidr, site) \/ RewriteSubnet(n, cidr, site)
  <2>1. PICK cidr \in Cidrs, site \in SiteIds :
              InsertSubnet(n, cidr, site) \/ RewriteSubnet(n, cidr, site)
    BY <1>2
  <2>2. /\ subnets' = [subnets EXCEPT ![n] = [cidr |-> cidr, site |-> site]]
        /\ cidrsHeld' = [cidrsHeld EXCEPT ![n] = @ \cup {cidr}]
        /\ UNCHANGED <<sites, ips>>
        /\ site \in LiveSites \cup {Nil}
    BY <2>1 DEF InsertSubnet, RewriteSubnet, SubnetStorable
  <2>3. [cidr |-> cidr, site |-> site] \in SubnetRow
    BY <2>1 DEF SubnetRow
  <2>4. cidrsHeld' \in [SubnetIds -> SUBSET Cidrs]
    BY <2>1, <2>2 DEF TablesTypeOK
  <2>5. QED
    BY <1>1, <2>2, <2>3, <2>4
<1>3. CASE \E site \in SiteIds : MoveSubnet(n, site)
  <2>1. PICK site \in SiteIds : MoveSubnet(n, site)
    BY <1>3
  <2>2. subnets' = [subnets EXCEPT ![n] = [subnets[n] EXCEPT !.site = site]]
    BY <2>1 DEF MoveSubnet
  <2>3. [subnets[n] EXCEPT !.site = site] \in SubnetRow
    BY <2>1, LiveRows DEF MoveSubnet, SubnetRow
  <2>4. [subnets[n] EXCEPT !.site = site].site = site
    BY <2>1, LiveRows DEF MoveSubnet, SubnetRow
  <2>5. QED
    BY <1>1, <2>1, <2>2, <2>3, <2>4 DEF MoveSubnet, TablesTypeOK
<1>4. CASE RemoveSubnet(n)
  <2>1. /\ subnets' = [subnets EXCEPT ![n] = Deleted]
        /\ ips' = [i \in IpIds |->
                     IF i \in LiveIps /\ ips[i].subnet = n THEN Deleted ELSE ips[i]]
        /\ UNCHANGED <<sites, cidrsHeld>>
    BY <1>4 DEF RemoveSubnet
  <2>2. TablesTypeOK'
    BY <2>1 DEF TablesTypeOK
  <2>3. /\ LiveSites' = LiveSites
        /\ LiveSubnets' = LiveSubnets \ {n}
        /\ LiveIps' = {i \in LiveIps : ips[i].subnet # n}
    BY <2>1, RowsAreNotMarks DEF TablesTypeOK, LiveSites, LiveSubnets, LiveIps
  <2>4. ReferentialIntegrity'
    BY <2>1, <2>3 DEF ReferentialIntegrity, TablesTypeOK, LiveSubnets, LiveIps
  <2>5. KeysUnique'
    BY <2>1, <2>3 DEF KeysUnique, LiveIps
  <2>6. QED
    BY <2>2, <2>4, <2>5
<1>5. QED
  BY <1>2, <1>3, <1>4

\* The statements on addresses keep the invariant.
LEMMA IpStatements ==
    ASSUME TablesInv, NEW i \in IpIds,
           \/ \E a \in Addresses, hostname \in Hostnames, n \in SubnetIds :
                 InsertIp(i, a, hostname, n)
           \/ \E hostname \in Hostnames : RenameIp(i, hostname)
           \/ \E n \in SubnetIds : RemoveIp(i, n)
    PROVE  TablesInv'
<1> USE DEF TablesInv
<1>1. CASE \E a \in Addresses, hostname \in Hostnames, n \in SubnetIds :
              InsertIp(i, a, hostname, n)
  <2>1. PICK a \in Addresses, hostname \in Hostnames, n \in SubnetIds :
              InsertIp(i, a, hostname, n)
    BY <1>1
  <2>2. /\ ips' = [ips EXCEPT ![i] = [ip |-> a, hostname |-> hostname, subnet |-> n]]
        /\ UNCHANGED <<sites, subnets, cidrsHeld>>
        /\ n \in LiveSubnets
        /\ ~AddressTaken(a, n)
    BY <2>1 DEF InsertIp
  <2>3. [ip |-> a, hostname |-> hostname, subnet |-> n] \in IpRow
    BY <2>1 DEF IpRow
  <2>4. TablesTypeOK'
    BY <2>2, <2>3 DEF TablesTypeOK
  <2>5. LiveSites' = LiveSites /\ LiveSubnets' = LiveSubnets /\ LiveIps' = LiveIps \cup {i}
    BY <2>2, <2>3, RowsAreNotMarks DEF TablesTypeOK, LiveSites, LiveSubnets, LiveIps
  <2>6. ReferentialIntegrity'
    BY <2>2, <2>5 DEF ReferentialIntegrity, TablesTypeOK, LiveIps
  <2>7. KeysUnique'
    BY <2>2, <2>5 DEF KeysUnique, AddressTaken, TablesTypeOK, LiveIps
  <2>8. QED
    BY <2>4, <2>6, <2>7
<1>2. CASE \E hostname \in Hostnames : RenameIp(i, hostname)
  <2>1. PICK hostname \in Hostnames : RenameIp(i, hostname)
    BY <1>2
  <2>2. /\ i \in LiveIps
        /\ ips' = [ips EXCEPT ![i] = [ips[i] EXCEPT !.hostname = hostname]]
        /\ UNCHANGED <<sites, subnets, cidrsHeld>>
    BY <2>1 DEF RenameIp
  <2>3. /\ [ips[i] EXCEPT !.hostname = hostname] \in IpRow
        /\ [ips[i] EXCEPT !.hostname = hostname].ip = ips[i].ip
        /\ [ips[i] EXCEPT !.hostname = hostname].subnet = ips[i].subnet
    BY <2>2, LiveRows DEF IpRow
  <2>4. TablesTypeOK'
    BY <2>2, <2>3 DEF TablesTypeOK
  <2>5. LiveSites' = LiveSites /\ LiveSubnets' = LiveSubnets /\ LiveIps' = LiveIps
    BY <2>2, <2>3, RowsAreNotMarks DEF TablesTypeOK, LiveSites, LiveSubnets, LiveIps
  <2>6. \A j \in LiveIps : ips'[j].ip = ips[j].ip /\ ips'[j].subnet = ips[j].subnet
    BY <2>2, <2>3 DEF TablesTypeOK, LiveIps
  <2>7. ReferentialIntegrity'
    BY <2>2, <2>5, <2>6 DEF ReferentialIntegrity
  <2>8. KeysUnique'
    BY <2>2, <2>5, <2>6 DEF KeysUnique
  <2>9. QED
    BY <2>4, <2>7, <2>8
<1>3. CASE \E n \in SubnetIds : RemoveIp(i, n)
  <2>1. /\ ips' = [ips EXCEPT ![i] = Deleted]
        /\ UNCHANGED <<sites, subnets, cidrsHeld>>
    BY <1>3 DEF RemoveIp
  <2>2. TablesTypeOK'
    BY <2>1 DEF TablesTypeOK
  <2>3. LiveSites' = LiveSites /\ LiveSubnets' = LiveSubnets /\ LiveIps' = LiveIps \ {i}
    BY <2>1, RowsAreNotMarks DEF TablesTypeOK, LiveSites, LiveSubnets, LiveIps
  <2>4. ReferentialIntegrity'
    BY <2>1, <2>3 DEF ReferentialIntegrity, TablesTypeOK, LiveIps
  <2>5. KeysUnique'
    BY <2>1, <2>3 DEF KeysUnique, TablesTypeOK, LiveIps
  <2>6. QED
    BY <2>2, <2>4, <2>5
<1>4. QED
  BY <1>1, <1>2, <1>3

LEMMA TablesInvInit == TablesInit => TablesInv
  BY RowsAreNotMarks
  DEF TablesInit, TablesInv, TablesTypeOK, ReferentialIntegrity, KeysUnique,
      LiveSites, LiveSubnets, LiveIps

LEMMA TablesInvStep == TablesInv /\ [Statement]_tables => TablesInv'
<1>1. TablesInv /\ Statement => TablesInv'
  BY SiteStatements, SubnetStatements, IpStatements DEF Statement
<1>2. TablesInv /\ UNCHANGED tables => TablesInv'
  BY DEF tables, TablesInv, TablesTypeOK, ReferentialIntegrity, KeysUnique,
         LiveSites, LiveSubnets, LiveIps
<1>3. QED
  BY <1>1, <1>2

\* Hence it holds throughout.
LEMMA TablesInvAlways == TablesSpec => []TablesInv
<1>1. QED
  BY TablesInvInit, TablesInvStep, PTL DEF TablesSpec

\* Whoever changes the tables by the statements alone keeps every row
\* well-formed, every foreign key satisfied and every key unique.
THEOREM TablesInvariant ==
    TablesSpec => [](TablesTypeOK /\ ReferentialIntegrity /\ KeysUnique)
<1>1. TablesInv => TablesTypeOK /\ ReferentialIntegrity /\ KeysUnique
  BY DEF TablesInv
<1>2. QED
  BY <1>1, TablesInvAlways, PTL

\* What a statement leaves of an address row.
LEMMA RowsKeepTheirAddress ==
    ASSUME TablesInv, [Statement]_tables, NEW i \in IpIds
    PROVE  /\ ips[i] = Deleted => ips'[i] = Deleted
           /\ i \in LiveIps => \/ ips'[i] = Deleted
                               \/ /\ i \in LiveIps'
                                  /\ ips'[i].ip = ips[i].ip
                                  /\ ips'[i].subnet = ips[i].subnet
<1>1. CASE UNCHANGED ips
  BY <1>1 DEF LiveIps
<1>2. CASE \E n \in SubnetIds : RemoveSubnet(n)
  BY <1>2, RowsAreNotMarks DEF RemoveSubnet, LiveIps
<1>3. CASE \E j \in IpIds, n \in SubnetIds : RemoveIp(j, n)
  BY <1>3 DEF RemoveIp, TablesInv, TablesTypeOK, LiveIps
<1>4. ASSUME NEW j \in IpIds, NEW a \in Addresses, NEW h \in Hostnames,
             NEW n \in SubnetIds, InsertIp(j, a, h, n)
      PROVE  /\ ips[i] = Deleted => ips'[i] = Deleted
             /\ i \in LiveIps => ips'[i] = ips[i]
  BY <1>4, RowsAreNotMarks DEF InsertIp, TablesInv, TablesTypeOK, LiveIps
<1>5. ASSUME NEW j \in IpIds, NEW h \in Hostnames, RenameIp(j, h)
      PROVE  /\ ips[i] = Deleted => ips'[i] = Deleted
             /\ i \in LiveIps => /\ i \in LiveIps'
                                 /\ ips'[i].ip = ips[i].ip
                                 /\ ips'[i].subnet = ips[i].subnet
  <2>1. j \in LiveIps /\ ips' = [ips EXCEPT ![j] = [ips[j] EXCEPT !.hostname = h]]
    BY <1>5 DEF RenameIp
  <2>2. /\ [ips[j] EXCEPT !.hostname = h] \in IpRow
        /\ [ips[j] EXCEPT !.hostname = h].ip = ips[j].ip
        /\ [ips[j] EXCEPT !.hostname = h].subnet = ips[j].subnet
    BY <2>1, <1>5, LiveRows DEF IpRow, TablesInv
  <2>3. QED
    BY <2>1, <2>2, RowsAreNotMarks DEF TablesInv, TablesTypeOK, LiveIps
<1>6. QED
  BY <1>1, <1>2, <1>3, <1>4, <1>5
  DEF Statement, InsertSite, RenameSite, RemoveSite, InsertSubnet, RewriteSubnet, MoveSubnet,
      tables, LiveIps

\* An address row keeps its address and its subnet until it is deleted, and
\* its id is never given to another row.
THEOREM AddressIdentityHolds == TablesSpec => AddressIdentity
<1>1. TablesInv /\ [Statement]_tables
        => [\A i \in IpIds :
              /\ ips[i] = Deleted => ips'[i] = Deleted
              /\ i \in LiveIps /\ ips'[i] # ips[i] /\ ips'[i] # Deleted =>
                    /\ ips'[i].ip = ips[i].ip
                    /\ ips'[i].subnet = ips[i].subnet]_ips
  BY RowsKeepTheirAddress
<1>2. QED
  BY <1>1, TablesInvAlways, PTL DEF TablesSpec, AddressIdentity

\* A subnet loses its site only when that site is deleted.
THEOREM SiteClearing == TablesSpec => SiteClearedOnlyByDeletion
<1>1. ASSUME TablesInv, Statement, NEW n \in LiveSubnets,
             subnets'[n] # Deleted, subnets[n].site # Nil, subnets'[n].site = Nil
      PROVE  sites'[subnets[n].site] = Deleted
  <2>1. subnets[n].site \in SiteIds /\ n \in SubnetIds
    BY <1>1, LiveRows DEF SubnetRow, LiveSubnets, TablesInv
  <2>2. subnets' # subnets
    BY <1>1
  <2>3. CASE \E s \in SiteIds : RemoveSite(s)
    BY <1>1, <2>1, <2>3 DEF RemoveSite, LiveSubnets, TablesInv, TablesTypeOK
  <2>4. CASE \E m \in SubnetIds : RemoveSubnet(m)
    BY <1>1, <2>1, <2>4 DEF RemoveSubnet, TablesInv, TablesTypeOK
  <2>5. ASSUME NEW m \in SubnetIds, NEW cidr \in Cidrs, NEW site \in SiteIds,
               InsertSubnet(m, cidr, site) \/ RewriteSubnet(m, cidr, site)
        PROVE  FALSE
    BY <1>1, <2>1, <2>5, RowsAreNotMarks
       DEF InsertSubnet, RewriteSubnet, TablesInv, TablesTypeOK
  <2>6. ASSUME NEW m \in SubnetIds, NEW site \in SiteIds, MoveSubnet(m, site)
        PROVE  FALSE
    <3>1. m \in LiveSubnets /\ subnets' = [subnets EXCEPT ![m] = [subnets[m] EXCEPT !.site = site]]
      BY <2>6 DEF MoveSubnet
    <3>2. [subnets[m] EXCEPT !.site = site].site = site
      BY <1>1, <3>1, LiveRows DEF SubnetRow, TablesInv
    <3>3. QED
      BY <1>1, <2>1, <2>6, <3>1, <3>2, RowsAreNotMarks DEF TablesInv, TablesTypeOK
  <2>7. QED
    BY <1>1, <2>2, <2>3, <2>4, <2>5, <2>6
    DEF Statement, InsertSite, RenameSite, InsertIp, RenameIp, RemoveIp
<1>2. TablesInv /\ [Statement]_tables
        => [\A n \in LiveSubnets :
              subnets'[n] # Deleted /\ subnets[n].site # Nil /\ subnets'[n].site = Nil
                => sites'[subnets[n].site] = Deleted]_tables
  BY <1>1
<1>3. QED
  BY <1>2, TablesInvAlways, PTL DEF TablesSpec, SiteClearedOnlyByDeletion
=============================================================================
