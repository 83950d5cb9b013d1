----------------------------- MODULE CsvImport ------------------------------
(***************************************************************************)
(* The CSV import (internal/domain/csv_import.go).  It reads the sites and *)
(* the subnets once, then takes the file's rows in order and creates what  *)
(* is missing: the site, the subnet, the address.  What it has read or     *)
(* made it keeps in three maps for the whole import and never reads again, *)
(* while other requests, other imports among them, change the tables.      *)
(*                                                                         *)
(* Each statement commits by itself.  A row whose statement fails is       *)
(* counted as failed, what it has committed stays, and the next row is     *)
(* taken; a crash ends the import between two statements.                  *)
(*                                                                         *)
(* A row without a site or whose fields do not parse stands for itself as  *)
(* one whose address the CIDR refuses: both fail before any statement.     *)
(***************************************************************************)
EXTENDS Tables, Integers, Sequences, FiniteSets

CONSTANTS
    Importers,
    Files,      \* the files that are uploaded: sequences of rows
    Usable,     \* Usable[c]: the addresses validateIPInSubnet lets into CIDR c
    MaxRows,    \* maxCSVImportRows
    Clients     \* whether other requests change the tables meanwhile

Row == [site : SiteNames, cidr : Cidrs, ip : Addresses, hostname : Hostnames]
Keys == SiteIds \X Cidrs
Entry == [id : IpIds, ip : Addresses, hostname : Hostnames]

ASSUME ImportConstants ==
    /\ SubnetIds \subseteq Nat          \* BIGSERIAL
    /\ HostBitCidrs = {}                \* importRow masks the prefix
    /\ Files \subseteq Seq(Row)
    /\ Usable \in [Cidrs -> SUBSET Addresses]
    /\ MaxRows \in Nat
    /\ Clients \in BOOLEAN

VARIABLES
    pc,             \* the statement the import runs next, "row" or "idle"
    file, rowNumber,
    siteByName, subnetByKey, ipsBySubnet,   \* the maps; Nil where no key is
    listed,         \* importRow's ips, or Nil while they are not loaded
    result,         \* the counts that are reported
    disturbed       \* history: imports during or after which a statement
                    \* failed, or someone else changed the tables

caches == <<siteByName, subnetByKey, ipsBySubnet>>
locals == <<file, rowNumber, caches, listed, result>>
vars == <<tables, pc, locals, disturbed>>

TypeOK ==
    /\ TablesTypeOK
    /\ pc \in [Importers -> {"idle", "sites", "subnets", "row", "create_site",
                             "insert_subnet", "read_back", "list_ips",
                             "find_ip", "update_ip", "find_subnet", "insert_ip"}]
    /\ file \in [Importers -> Files \cup {<<>>}]
    /\ rowNumber \in [Importers -> Nat \ {0}]
    /\ \A m \in Importers : rowNumber[m] <= Len(file[m]) + 1
    /\ siteByName \in [Importers -> [SiteNames -> SiteIds \cup {Nil}]]
    /\ subnetByKey \in [Importers -> [Keys -> SubnetIds \cup {Nil}]]
    /\ ipsBySubnet \in [Importers -> [SubnetIds -> (SUBSET Entry) \cup {Nil}]]
    /\ listed \in [Importers -> (SUBSET Entry) \cup {Nil}]
    /\ result \in [Importers -> [created : Nat, updated : Nat, failed : Nat]]
    /\ disturbed \subseteq Importers

NoSites == [name \in SiteNames |-> Nil]
NoSubnets == [k \in Keys |-> Nil]
NoIps == [n \in SubnetIds |-> Nil]
NoResult == [created |-> 0, updated |-> 0, failed |-> 0]

Init ==
    /\ TablesInit
    /\ pc = [m \in Importers |-> "idle"]
    /\ file = [m \in Importers |-> <<>>]
    /\ rowNumber = [m \in Importers |-> 1]
    /\ siteByName = [m \in Importers |-> NoSites]
    /\ subnetByKey = [m \in Importers |-> NoSubnets]
    /\ ipsBySubnet = [m \in Importers |-> NoIps]
    /\ listed = [m \in Importers |-> Nil]
    /\ result = [m \in Importers |-> NoResult]
    /\ disturbed = {}
-----------------------------------------------------------------------------
Goto(m, label) == pc' = [pc EXCEPT ![m] = label]

\* Nobody is disturbed by a step that leaves the tables alone; a write by m
\* disturbs all the others.
ReadOnly == UNCHANGED <<tables, disturbed>>
Writes(m) == disturbed' = disturbed \cup (Importers \ {m})

\* The row at hand, and what the maps hold for it.
Current(m) == file[m][rowNumber[m]]
SiteOf(m) == siteByName[m][Current(m).site]
KeyOf(m) == <<SiteOf(m), Current(m).cidr>>
SubnetOf(m) == subnetByKey[m][KeyOf(m)]
IpsOf(m) == IF listed[m] # Nil THEN listed[m] ELSE ipsBySubnet[m][SubnetOf(m)]

\* Faulty variant of Existing: the addresses are not compared.
ExistingOfAny(m) == IpsOf(m)
Existing(m) == {e \in IpsOf(m) : e.ip = Current(m).ip}
TheExisting(m) == CHOOSE e \in Existing(m) : TRUE

\* On to the next row.
RowEnds(m) ==
    /\ rowNumber' = [rowNumber EXCEPT ![m] = @ + 1]
    /\ listed' = [listed EXCEPT ![m] = Nil]
    /\ Goto(m, "row")
    /\ UNCHANGED file

Counts(m, outcome) == result' = [result EXCEPT ![m][outcome] = @ + 1]

RowFails(m) == RowEnds(m) /\ Counts(m, "failed") /\ UNCHANGED caches

\* Faulty variant of Keep: the list is kept as it was before the change.
KeepTheOld(m, entries) ==
    /\ ipsBySubnet' = [ipsBySubnet EXCEPT ![m][SubnetOf(m)] = IpsOf(m)]
    /\ UNCHANGED <<siteByName, subnetByKey>>

\* ipsBySubnet[subnet.ID] = ips, which importRow does where a row succeeds.
Keep(m, entries) ==
    /\ ipsBySubnet' = [ipsBySubnet EXCEPT ![m][SubnetOf(m)] = entries]
    /\ UNCHANGED <<siteByName, subnetByKey>>
-----------------------------------------------------------------------------
(* ImportCSV: the two lists, and the loop.                                 *)

Start(m) ==
    /\ pc[m] = "idle"
    /\ Goto(m, "sites")
    /\ \E f \in Files : file' = [file EXCEPT ![m] = f]
    /\ result' = [result EXCEPT ![m] = NoResult]
    /\ disturbed' = disturbed \ {m}
    /\ UNCHANGED <<tables, rowNumber, caches, listed>>

\* Faulty variant of End: the row number is not reset.
EndWithoutReset(m) ==
    /\ Goto(m, "idle")
    /\ siteByName' = [siteByName EXCEPT ![m] = NoSites]
    /\ subnetByKey' = [subnetByKey EXCEPT ![m] = NoSubnets]
    /\ ipsBySubnet' = [ipsBySubnet EXCEPT ![m] = NoIps]
    /\ listed' = [listed EXCEPT ![m] = Nil]
    /\ UNCHANGED rowNumber

\* The import is over, and its maps are gone.
End(m) ==
    /\ Goto(m, "idle")
    /\ rowNumber' = [rowNumber EXCEPT ![m] = 1]
    /\ siteByName' = [siteByName EXCEPT ![m] = NoSites]
    /\ subnetByKey' = [subnetByKey EXCEPT ![m] = NoSubnets]
    /\ ipsBySubnet' = [ipsBySubnet EXCEPT ![m] = NoIps]
    /\ listed' = [listed EXCEPT ![m] = Nil]

ListSites(m) ==
    /\ pc[m] = "sites"
    /\ siteByName' = [siteByName EXCEPT ![m] = [name \in SiteNames |->
          IF \E s \in LiveSites : sites[s] = name
          THEN CHOOSE s \in LiveSites : sites[s] = name ELSE Nil]]
    /\ Goto(m, "subnets")
    /\ ReadOnly
    /\ UNCHANGED <<file, rowNumber, subnetByKey, ipsBySubnet, listed, result>>

\* Faulty variant of ListSubnets: no listed subnet's key is that of a row.
ListSubnetsInVain(m) ==
    /\ pc[m] = "subnets"
    /\ Goto(m, "row")
    /\ ReadOnly
    /\ UNCHANGED locals

\* Of several subnets with one key the last listed stays in the map: the
\* list is ordered by id.
Newest(k) ==
    LET same == {n \in LiveSubnets : subnets[n].site = k[1] /\ subnets[n].cidr = k[2]} IN
    IF same = {} THEN Nil ELSE CHOOSE n \in same : \A o \in same : o <= n

ListSubnets(m) ==
    /\ pc[m] = "subnets"
    /\ subnetByKey' = [subnetByKey EXCEPT ![m] = [k \in Keys |-> Newest(k)]]
    /\ Goto(m, "row")
    /\ ReadOnly
    /\ UNCHANGED <<file, rowNumber, siteByName, ipsBySubnet, listed, result>>

Accepted(r) == r.ip \in Usable[r.cidr]

\* What the row needs next, by what the maps hold.  The import ends after
\* the last row, or with 400 after MaxRows of them.
ReadRow(m) ==
    /\ pc[m] = "row"
    /\ ReadOnly
    /\ \/ /\ rowNumber[m] > Len(file[m]) \/ rowNumber[m] > MaxRows
          /\ End(m)
          /\ UNCHANGED <<file, result>>
       \/ /\ rowNumber[m] <= Len(file[m]) /\ rowNumber[m] <= MaxRows
          /\ \/ ~Accepted(Current(m)) /\ RowFails(m)
             \/ /\ Accepted(Current(m))
                /\ \/ SiteOf(m) = Nil /\ Goto(m, "create_site")
                   \/ SiteOf(m) # Nil /\ SubnetOf(m) = Nil /\ Goto(m, "insert_subnet")
                   \/ /\ SiteOf(m) # Nil /\ SubnetOf(m) # Nil
                      /\ \/ IpsOf(m) = Nil /\ Goto(m, "list_ips")
                         \/ /\ IpsOf(m) # Nil
                            /\ \/ Existing(m) = {} /\ Goto(m, "find_subnet")
                               \/ /\ Existing(m) # {}
                                  /\ TheExisting(m).hostname # Current(m).hostname
                                  /\ Goto(m, "find_ip")
                /\ UNCHANGED locals
             \/ /\ Accepted(Current(m))
                /\ SiteOf(m) # Nil /\ SubnetOf(m) # Nil /\ IpsOf(m) # Nil
                /\ \E e \in Existing(m) : e.hostname = Current(m).hostname
                /\ Keep(m, IpsOf(m))
                /\ RowEnds(m)
                /\ UNCHANGED result
-----------------------------------------------------------------------------
(* importRow: the parents.                                                 *)

CreateSite(m) ==
    /\ pc[m] = "create_site"
    /\ LET name == Current(m).site IN
       \/ NameTaken(name, Nil) /\ RowFails(m) /\ ReadOnly
       \/ \E s \in SiteIds :
             /\ InsertSite(s, name)
             /\ Writes(m)
             /\ siteByName' = [siteByName EXCEPT ![m][name] = s]
             /\ Goto(m, "row")
             /\ UNCHANGED <<file, rowNumber, subnetByKey, ipsBySubnet, listed, result>>

\* validateSite and INSERT: a site that the first does not find, the second
\* does not find either.
InsertTheSubnet(m) ==
    /\ pc[m] = "insert_subnet"
    /\ LET r == Current(m) IN
       \/ SiteOf(m) \notin LiveSites /\ RowFails(m) /\ ReadOnly
       \/ \E n \in SubnetIds :
             /\ InsertSubnet(n, r.cidr, SiteOf(m))
             /\ Writes(m)
             /\ Goto(m, "read_back")
             /\ subnetByKey' = [subnetByKey EXCEPT ![m][KeyOf(m)] = n]
             /\ UNCHANGED <<file, rowNumber, siteByName, ipsBySubnet, listed, result>>

\* The row fails and the subnet it has inserted is not in the map.
Forget(m) ==
    /\ subnetByKey' = [subnetByKey EXCEPT ![m][KeyOf(m)] = Nil]
    /\ RowEnds(m) /\ Counts(m, "failed")
    /\ UNCHANGED <<siteByName, ipsBySubnet>>

\* FindByID of the subnet just inserted: only then does it enter the map.
ReadBack(m) ==
    /\ pc[m] = "read_back"
    /\ ReadOnly
    /\ \/ SubnetOf(m) \notin LiveSubnets /\ Forget(m)
       \/ SubnetOf(m) \in LiveSubnets /\ Goto(m, "row") /\ UNCHANGED locals
-----------------------------------------------------------------------------
(* importRow: the address.                                                 *)

\* ListIPs: a subnet that has gone has no list.
ListIPs(m) ==
    /\ pc[m] = "list_ips"
    /\ ReadOnly
    /\ \/ SubnetOf(m) \notin LiveSubnets /\ RowFails(m)
       \/ /\ SubnetOf(m) \in LiveSubnets
          /\ listed' = [listed EXCEPT ![m] =
                {[id |-> i, ip |-> ips[i].ip, hostname |-> ips[i].hostname] :
                   i \in {j \in LiveIps : ips[j].subnet = SubnetOf(m)}}]
          /\ Goto(m, "row")
          /\ UNCHANGED <<file, rowNumber, caches, result>>

\* UpdateIPHostname: FindByIDAndSubnet (its subnet is there if it is), ...
FindIp(m) ==
    /\ pc[m] = "find_ip"
    /\ ReadOnly
    /\ LET i == TheExisting(m).id
           found == i \in LiveIps /\ ips[i].subnet = SubnetOf(m) IN
       \/ ~found /\ RowFails(m)
       \/ found /\ Goto(m, "update_ip") /\ UNCHANGED locals

\* ... and UPDATE, by id alone.
UpdateIp(m) ==
    /\ pc[m] = "update_ip"
    /\ LET e == TheExisting(m)
           updated == [e EXCEPT !.hostname = Current(m).hostname] IN
       \/ e.id \notin LiveIps /\ RowFails(m) /\ ReadOnly
       \/ /\ RenameIp(e.id, Current(m).hostname)
          /\ Writes(m)
          /\ Keep(m, (IpsOf(m) \ {e}) \cup {updated})
          /\ RowEnds(m) /\ Counts(m, "updated")

\* CreateIP: FindByID, validateIPInSubnet with the CIDR of the row read, ...
FindSubnet(m) ==
    /\ pc[m] = "find_subnet"
    /\ ReadOnly
    /\ LET n == SubnetOf(m)
           accepted == n \in LiveSubnets /\ Current(m).ip \in Usable[subnets[n].cidr] IN
       \/ ~accepted /\ RowFails(m)
       \/ accepted /\ Goto(m, "insert_ip") /\ UNCHANGED locals

\* ... and INSERT.
InsertTheIp(m) ==
    /\ pc[m] = "insert_ip"
    /\ LET r == Current(m)
           n == SubnetOf(m) IN
       \/ /\ n \notin LiveSubnets \/ AddressTaken(r.ip, n)
          /\ RowFails(m) /\ ReadOnly
       \/ \E i \in IpIds :
             /\ InsertIp(i, r.ip, r.hostname, n)
             /\ Writes(m)
             /\ Keep(m, IpsOf(m) \cup {[id |-> i, ip |-> r.ip, hostname |-> r.hostname]})
             /\ RowEnds(m) /\ Counts(m, "created")
-----------------------------------------------------------------------------
(* Failures, and other requests.                                           *)

\* A statement fails or its context has ended.
StatementFails(m) ==
    /\ pc[m] \notin {"idle", "sites", "subnets", "row"}
    /\ IF pc[m] = "read_back" THEN Forget(m) ELSE RowFails(m)
    /\ disturbed' = disturbed \cup {m}
    /\ UNCHANGED tables

\* One of the two lists fails and the answer is 500, or the process ends.
ImportEnds(m) ==
    /\ pc[m] # "idle"
    /\ End(m)
    /\ file' = [file EXCEPT ![m] = <<>>]
    /\ result' = [result EXCEPT ![m] = NoResult]
    /\ disturbed' = disturbed \cup {m}
    /\ UNCHANGED tables

\* Whatever the REST requests do is a statement (Inventory, Refinement).
OtherRequest ==
    /\ Clients
    /\ Statement
    /\ disturbed' = Importers
    /\ UNCHANGED <<pc, locals>>

Step(m) ==
    \/ Start(m) \/ ListSites(m) \/ ListSubnets(m) \/ ReadRow(m)
    \/ CreateSite(m) \/ InsertTheSubnet(m) \/ ReadBack(m)
    \/ ListIPs(m) \/ FindIp(m) \/ UpdateIp(m) \/ FindSubnet(m) \/ InsertTheIp(m)
    \/ StatementFails(m) \/ ImportEnds(m)

Next == OtherRequest \/ \E m \in Importers : Step(m)

Spec == Init /\ [][Next]_vars
-----------------------------------------------------------------------------
(* Properties.                                                             *)

\* The address of a row is where the next import looks for it.
Held(r) ==
    \E s \in LiveSites, i \in LiveIps :
       /\ sites[s] = r.site
       /\ ips[i].subnet = Newest(<<s, r.cidr>>)
       /\ ips[i].ip = r.ip /\ ips[i].hostname = r.hostname

SameAddress(r, t) == r.site = t.site /\ r.cidr = t.cidr /\ r.ip = t.ip

\* The rows of f that count: accepted, and the last for their address.
Effective(f) ==
    {f[k] : k \in {j \in 1 .. Len(f) :
                     /\ j <= MaxRows
                     /\ Accepted(f[j])
                     /\ \A l \in j + 1 .. Len(f) :
                           l <= MaxRows => ~SameAddress(f[l], f[j])}}

\* An import that ran to its end with no failure and no other writer has put
\* every acceptable row in the tables, whatever earlier imports, crashes and
\* clients had left behind there; only rows that are not acceptable failed.
ImportIsComplete ==
    \A m \in Importers \ disturbed :
       pc[m] = "idle" =>
          /\ \A r \in Effective(file[m]) : Held(r)
          /\ result[m].failed =
                Cardinality({k \in 1 .. Len(file[m]) : k <= MaxRows /\ ~Accepted(file[m][k])})

\* TestCSVImportCreatesHierarchyAndIsIdempotent (csv_import_test.go:100): an
\* import without contradictory rows writes nothing once all its rows are in
\* the tables, if nothing fails and nobody else writes.
Idempotent ==
    [][\A m \in Importers \ disturbed :
          /\ pc'[m] # pc[m]
          /\ \A j, k \in 1 .. Len(file[m]) :
                SameAddress(file[m][j], file[m][k]) => file[m][j] = file[m][k]
          /\ \A r \in Effective(file[m]) : Held(r)
          => UNCHANGED tables]_vars

\* Old maps never make an import change another address than the row's: the
\* row it updates holds the row's address, in the subnet the import found or
\* made for the row's site and CIDR.
UpdatesTheRowsAddress ==
    [][\A m \in Importers, i \in IpIds :
          pc[m] = "update_ip" /\ pc'[m] # pc[m] /\ ips'[i] # ips[i] =>
             /\ i \in LiveIps
             /\ ips[i].ip = Current(m).ip
             /\ ips[i].subnet = SubnetOf(m)]_vars
=============================================================================
