-------------------------- MODULE InventoryProofs ---------------------------
(***************************************************************************)
(* The request handlers of module Inventory change the tables by the       *)
(* statements of module Tables alone (Refinement), so that everything      *)
(* TablesProofs shows holds of them; and what the handlers add: addresses  *)
(* are validated before they are inserted, answers are exclusive and tell  *)
(* the truth.                                                              *)
(*                                                                         *)
(* IInv strengthens the invariants with what a process knows at each       *)
(* statement.  No foreign key could tell a NULL site that slipped past     *)
(* validateSite from a legal one: that it cannot slip is Arguments.        *)
(***************************************************************************)
EXTENDS Inventory, TablesProofs

\* The statement a process is about to run belongs to its request.
PcMatchesOp ==
    \A p \in Procs : LET op == req[p].op IN
       /\ pc[p] = "insert_site" => op = "CreateSite"
       /\ pc[p] = "update_site" => op = "UpdateSite"
       /\ pc[p] = "delete_site" => op = "DeleteSite"
       /\ pc[p] \in {"validate_site", "read_back"} => op \in SubnetWrites
       /\ pc[p] = "insert_subnet" => op = "CreateSubnet"
       /\ pc[p] = "update_subnet" => op = "UpdateSubnet"
       /\ pc[p] = "assign_site" => op = "AssignSite"
       /\ pc[p] = "delete_subnet" => op = "DeleteSubnet"
       /\ pc[p] = "find_subnet" => op \in {"CreateIP", "UpdateIP"}
       /\ pc[p] = "insert_ip" => op = "CreateIP"
       /\ pc[p] \in {"find_ip", "update_ip"} => op = "UpdateIP"
       /\ pc[p] = "delete_ip" => op = "DeleteIP"

\* The arguments of the statement have been validated by then.
Arguments ==
    \A p \in Procs :
       /\ pc[p] \in {"insert_subnet", "update_subnet", "assign_site"}
            => req[p].site \in SiteIds
       /\ pc[p] \in {"insert_subnet", "update_subnet"} => req[p].cidr \in Cidrs
       /\ req[p].op \in {"CreateIP", "UpdateIP"} => req[p].hostname \in Hostnames
       /\ req[p].op = "CreateIP" => req[p].subnet \in SubnetIds
       /\ pc[p] = "insert_ip" =>
            /\ req[p].ip \in Addresses
            /\ \E c \in cidrsHeld[req[p].subnet] : req[p].ip \in Usable[c]

CidrIsHeld == \A n \in LiveSubnets : subnets[n].cidr \in cidrsHeld[n]

\* The request has inserted the subnet its record names.
HasCreatedSubnet(p) ==
    \/ Succeeded(p, "CreateSubnet")
    \/ pc[p] = "read_back" /\ req[p].op = "CreateSubnet"

\* What a successful answer, or an insertion not yet answered, says of the key.
Claims ==
    \A p \in Procs :
       /\ Succeeded(p, "CreateSite") => req[p].site \in SiteIds /\ sites[req[p].site] # Unused
       /\ Succeeded(p, "DeleteSite") => req[p].site \in SiteIds /\ sites[req[p].site] = Deleted
       /\ HasCreatedSubnet(p) => req[p].subnet \in SubnetIds /\ subnets[req[p].subnet] # Unused
       /\ Succeeded(p, "DeleteSubnet") => req[p].subnet \in SubnetIds /\ subnets[req[p].subnet] = Deleted
       /\ Succeeded(p, "CreateIP") => req[p].id \in IpIds /\ ips[req[p].id] # Unused
       /\ Succeeded(p, "DeleteIP") => req[p].id \in IpIds /\ ips[req[p].id] = Deleted

ClaimsAreExclusive ==
    \A p, r \in Procs : p # r =>
       /\ \A op \in {"CreateSite", "DeleteSite"} :
             Succeeded(p, op) /\ Succeeded(r, op) => req[p].site # req[r].site
       /\ HasCreatedSubnet(p) /\ HasCreatedSubnet(r) => req[p].subnet # req[r].subnet
       /\ Succeeded(p, "DeleteSubnet") /\ Succeeded(r, "DeleteSubnet")
            => req[p].subnet # req[r].subnet
       /\ \A op \in {"CreateIP", "DeleteIP"} :
             Succeeded(p, op) /\ Succeeded(r, op) => req[p].id # req[r].id

IInv ==
    /\ TypeOK /\ TablesInv
    /\ PcMatchesOp /\ Arguments /\ CidrIsHeld /\ EveryAddressWasUsable
    /\ Claims /\ ClaimsAreExclusive
-----------------------------------------------------------------------------
USE DEF NoRow

\* Whatever a client sends is a request, with a hostname where one is used.
LEMMA RequestsWellFormed ==
    ASSUME NEW q \in Requests
    PROVE  /\ q \in Request /\ q.op \in AllOps
           /\ q.op \in {"CreateIP", "UpdateIP"} => q.hostname \in Hostnames
           /\ q.op = "CreateIP" => q.subnet \in SubnetIds
  BY DEF Requests, Asks, Request, AllOps

LEMMA FirstStatements ==
    ASSUME NEW op \in AllOps
    PROVE  /\ FirstStatement(op) \in Statements
           /\ FirstStatement(op) = "insert_site" => op = "CreateSite"
           /\ FirstStatement(op) = "update_site" => op = "UpdateSite"
           /\ FirstStatement(op) = "delete_site" => op = "DeleteSite"
           /\ FirstStatement(op) = "validate_site" => op \in SubnetWrites
           /\ FirstStatement(op) = "delete_subnet" => op = "DeleteSubnet"
           /\ FirstStatement(op) = "find_subnet" => op \in {"CreateIP", "UpdateIP"}
           /\ FirstStatement(op) = "delete_ip" => op = "DeleteIP"
           /\ FirstStatement(op) \notin {"insert_subnet", "update_subnet", "assign_site",
                "read_back", "insert_ip", "find_ip", "update_ip", "idle"}
  BY DEF FirstStatement, SubnetWrites, AllOps, Statements

\* How a statement ends: it has written nothing and the handler answers or goes
\* on, or it has written.
LEMMA Endings ==
    ASSUME TypeOK, NEW p \in Procs, Step(p)
    PROVE  \/ Begin(p)
           \/ \E status \in Statuses : Refuse(p, status) \/ Written(p, status)
           \/ \E statement \in Statements : Proceed(p, statement)
           \/ WrittenSubnet(p)
<1>1. {200, 201, 204, 400, 404, 500} = Statuses
  BY DEF Statuses
<1>2. CASE Fail(p) \/ CreateSite(p) \/ UpdateSite(p) \/ DeleteSite(p) \/ DeleteSubnet(p)
           \/ CreateIP(p) \/ UpdateIPHostname(p) \/ DeleteIP(p)
  BY <1>1, <1>2
  DEF Fail, CreateSite, UpdateSite, DeleteSite, DeleteSubnet, CreateIP, UpdateIPHostname,
      DeleteIP
<1>3. CASE ValidateSite(p) \/ FindSubnet(p) \/ FindIp(p) \/ ReadBack(p)
  <2>1. SubnetWrite(req[p].op) \in Statements
    BY DEF SubnetWrite, Statements
  <2>2. "insert_ip" \in Statements /\ "find_ip" \in Statements /\ "update_ip" \in Statements
    BY DEF Statements
  <2>3. QED
    BY <1>1, <1>3, <2>1, <2>2 DEF ValidateSite, FindSubnet, FindIp, ReadBack
<1>4. CASE CreateSubnet(p) \/ UpdateSubnet(p) \/ AssignSubnetSite(p)
  BY <1>1, <1>4 DEF CreateSubnet, UpdateSubnet, AssignSubnetSite
<1>5. QED
  BY <1>2, <1>3, <1>4 DEF Step

\* No request touches what another one has.
LEMMA OthersKeepTheirPlace ==
    ASSUME TypeOK, NEW p \in Procs, Step(p)
    PROVE  \A r \in Procs \ {p} :
              pc'[r] = pc[r] /\ req'[r] = req[r] /\ code'[r] = code[r] /\ wrote'[r] = wrote[r]
<1>1. \A r \in Procs \ {p} : pc'[r] = pc[r] /\ code'[r] = code[r] /\ wrote'[r] = wrote[r]
  BY Endings DEF TypeOK, Begin, Refuse, Proceed, Written, WrittenSubnet, Answer, Goto
<1>2. \A r \in Procs \ {p} : req'[r] = req[r]
  BY DEF TypeOK, Step, Begin, Fail, Refuse, Proceed,
         CreateSite, UpdateSite, DeleteSite, ValidateSite, CreateSubnet,
         UpdateSubnet, AssignSubnetSite, ReadBack, DeleteSubnet, FindSubnet,
         CreateIP, FindIp, UpdateIPHostname, DeleteIP
<1>3. QED
  BY <1>1, <1>2

\* Keys are used once, and a subnet's history of CIDRs only grows.
LEMMA KeysOnlyAdvance ==
    ASSUME TablesInv, [Statement]_tables
    PROVE  /\ \A s \in SiteIds :
                 /\ sites[s] # Unused => sites'[s] # Unused
                 /\ sites[s] = Deleted => sites'[s] = Deleted
           /\ \A n \in SubnetIds :
                 /\ subnets[n] # Unused => subnets'[n] # Unused
                 /\ subnets[n] = Deleted => subnets'[n] = Deleted
                 /\ cidrsHeld[n] \subseteq cidrsHeld'[n]
           /\ \A i \in IpIds :
                 /\ ips[i] # Unused => ips'[i] # Unused
                 /\ ips[i] = Deleted => ips'[i] = Deleted
<1>1. CASE UNCHANGED <<sites, subnets, ips, cidrsHeld>>
  BY <1>1
<1>2. CASE \E s \in SiteIds, name \in SiteNames : InsertSite(s, name) \/ RenameSite(s, name)
  BY <1>2, RowsAreNotMarks DEF InsertSite, RenameSite, LiveSites, TablesInv, TablesTypeOK
<1>3. CASE \E s \in SiteIds : RemoveSite(s)
  BY <1>3, RowsAreNotMarks, LiveRows
  DEF RemoveSite, LiveSites, LiveSubnets, SubnetRow, TablesInv, TablesTypeOK
<1>4. CASE \E n \in SubnetIds, cidr \in Cidrs, site \in SiteIds :
             InsertSubnet(n, cidr, site) \/ RewriteSubnet(n, cidr, site)
  <2>1. PICK n \in SubnetIds, cidr \in Cidrs, site \in SiteIds :
             InsertSubnet(n, cidr, site) \/ RewriteSubnet(n, cidr, site)
    BY <1>4
  <2>2. [cidr |-> cidr, site |-> site] \in SubnetRow
    BY DEF SubnetRow
  <2>3. QED
    BY <2>1, <2>2, RowsAreNotMarks
    DEF InsertSubnet, RewriteSubnet, LiveSubnets, TablesInv, TablesTypeOK
<1>5. CASE \E n \in SubnetIds, site \in SiteIds : MoveSubnet(n, site)
  <2>1. PICK n \in SubnetIds, site \in SiteIds : MoveSubnet(n, site)
    BY <1>5
  <2>2. n \in LiveSubnets /\ [subnets[n] EXCEPT !.site = site] \in SubnetRow
    BY <2>1, LiveRows DEF MoveSubnet, SubnetRow, TablesInv
  <2>3. QED
    BY <2>1, <2>2, RowsAreNotMarks DEF MoveSubnet, LiveSubnets, TablesInv, TablesTypeOK
<1>6. CASE \E n \in SubnetIds : RemoveSubnet(n)
  BY <1>6, RowsAreNotMarks DEF RemoveSubnet, LiveSubnets, LiveIps, TablesInv, TablesTypeOK
<1>7. CASE \E i \in IpIds, a \in Addresses, h \in Hostnames, n \in SubnetIds :
             InsertIp(i, a, h, n)
  <2>1. PICK i \in IpIds, a \in Addresses, h \in Hostnames, n \in SubnetIds :
             InsertIp(i, a, h, n)
    BY <1>7
  <2>2. [ip |-> a, hostname |-> h, subnet |-> n] \in IpRow
    BY DEF IpRow
  <2>3. QED
    BY <2>1, <2>2, RowsAreNotMarks DEF InsertIp, TablesInv, TablesTypeOK
<1>8. CASE \E i \in IpIds, h \in Hostnames : RenameIp(i, h)
  <2>1. PICK i \in IpIds, h \in Hostnames : RenameIp(i, h)
    BY <1>8
  <2>2. i \in LiveIps /\ [ips[i] EXCEPT !.hostname = h] \in IpRow
    BY <2>1, LiveRows DEF RenameIp, IpRow, TablesInv
  <2>3. QED
    BY <2>1, <2>2, RowsAreNotMarks DEF RenameIp, LiveIps, TablesInv, TablesTypeOK
<1>9. CASE \E i \in IpIds, n \in SubnetIds : RemoveIp(i, n)
  BY <1>9, RowsAreNotMarks DEF RemoveIp, LiveIps, TablesInv, TablesTypeOK
<1>10. QED
  BY <1>1, <1>2, <1>3, <1>4, <1>5, <1>6, <1>7, <1>8, <1>9 DEF Statement, tables

\* A handler changes the tables by one statement, with arguments that exist.
LEMMA StepIsStatement ==
    ASSUME IInv, NEW p \in Procs, Step(p)
    PROVE  [Statement]_tables
<1> USE DEF IInv
<1>1. req[p] \in Request
  BY DEF TypeOK
<1>2. CASE Begin(p) \/ Fail(p) \/ ValidateSite(p) \/ ReadBack(p) \/ FindSubnet(p) \/ FindIp(p)
  BY <1>2 DEF Begin, Fail, ValidateSite, ReadBack, FindSubnet, FindIp, Refuse, Proceed, tables
<1>3. CASE CreateSite(p) \/ UpdateSite(p) \/ DeleteSite(p)
  BY <1>1, <1>3
  DEF CreateSite, UpdateSite, DeleteSite, RenameSite, RemoveSite, LiveSites, Refuse,
      Statement, tables, Request
<1>4. CASE CreateSubnet(p) \/ UpdateSubnet(p)
  BY <1>1, <1>4
  DEF CreateSubnet, UpdateSubnet, RewriteSubnet, LiveSubnets, Arguments, Refuse,
      Statement, tables
<1>5. CASE AssignSubnetSite(p) \/ DeleteSubnet(p)
  BY <1>1, <1>5
  DEF AssignSubnetSite, DeleteSubnet, MoveSubnet, RemoveSubnet, LiveSubnets, Arguments,
      Refuse, Statement, tables
<1>6. CASE CreateIP(p)
  BY <1>1, <1>6 DEF CreateIP, Arguments, PcMatchesOp, Refuse, Statement, tables
<1>7. CASE UpdateIPHostname(p)
  BY <1>1, <1>7
  DEF UpdateIPHostname, RenameIp, LiveIps, Arguments, PcMatchesOp, Refuse, Statement, tables
<1>8. CASE DeleteIP(p)
  BY <1>1, <1>8, RowsAreNotMarks
  DEF DeleteIP, RemoveIp, LiveIps, Refuse, Statement, tables, Request,
      TypeOK, TablesTypeOK, IpRow
<1>9. QED
  BY <1>2, <1>3, <1>4, <1>5, <1>6, <1>7, <1>8 DEF Step
-----------------------------------------------------------------------------
(* The invariant is inductive: one lemma per part.                         *)

LEMMA TypesKept ==
    ASSUME IInv, NEW p \in Procs, Step(p)
    PROVE  TypeOK' /\ TablesInv'
<1> USE DEF IInv
<1>1. TablesInv'
  BY StepIsStatement, TablesInvStep
<1>2. req[p] \in Request
  BY DEF TypeOK
<1>3. /\ pc' \in [Procs -> Statements \cup {"idle"}]
      /\ code' \in [Procs -> Statuses] /\ wrote' \in [Procs -> BOOLEAN]
  <2>1. CASE Begin(p)
    BY <2>1, RequestsWellFormed, FirstStatements DEF Begin, Goto, TypeOK
  <2>2. ASSUME NEW status \in Statuses, Refuse(p, status) \/ Written(p, status)
        PROVE  <1>3
    <3>1. PICK s \in Statuses : Answer(p, s)
      BY <2>2 DEF Refuse, Written, Statuses
    <3>2. pc' \in [Procs -> Statements \cup {"idle"}] /\ code' \in [Procs -> Statuses]
      BY <3>1 DEF Answer, TypeOK
    <3>3. wrote' \in [Procs -> BOOLEAN]
      BY <2>2 DEF Refuse, Written, TypeOK
    <3>4. QED
      BY <3>2, <3>3
  <2>3. ASSUME NEW statement \in Statements, Proceed(p, statement)
        PROVE  <1>3
    BY <2>3 DEF Proceed, Goto, TypeOK
  <2>4. CASE WrittenSubnet(p)
    BY <2>4 DEF WrittenSubnet, Goto, Answer, Statements, Statuses, TypeOK
  <2>5. QED
    BY <2>1, <2>2, <2>3, <2>4, Endings
<1>4. req' \in [Procs -> Request]
  <2>1. CASE UNCHANGED req
    BY <2>1 DEF TypeOK
  <2>2. CASE Begin(p)
    BY <2>2, RequestsWellFormed DEF Begin, TypeOK
  <2>3. ASSUME NEW s \in SiteIds, req' = [req EXCEPT ![p].site = s]
        PROVE  req' \in [Procs -> Request]
    <3>1. [req[p] EXCEPT !.site = s] \in Request
      BY <1>2 DEF Request
    <3>2. QED
      BY <2>3, <3>1 DEF TypeOK
  <2>4. ASSUME NEW n \in SubnetIds, req' = [req EXCEPT ![p].subnet = n]
        PROVE  req' \in [Procs -> Request]
    <3>1. [req[p] EXCEPT !.subnet = n] \in Request
      BY <1>2 DEF Request
    <3>2. QED
      BY <2>4, <3>1 DEF TypeOK
  <2>5. ASSUME NEW i \in IpIds, req' = [req EXCEPT ![p].id = i]
        PROVE  req' \in [Procs -> Request]
    <3>1. [req[p] EXCEPT !.id = i] \in Request
      BY <1>2 DEF Request
    <3>2. QED
      BY <2>5, <3>1 DEF TypeOK
  <2>6. QED
    BY <2>1, <2>2, <2>3, <2>4, <2>5
    DEF Step, Fail, CreateSite, UpdateSite, DeleteSite, ValidateSite, CreateSubnet,
        UpdateSubnet, AssignSubnetSite, ReadBack, DeleteSubnet, FindSubnet, CreateIP,
        FindIp, UpdateIPHostname, DeleteIP, Refuse, Proceed
<1>5. QED
  BY <1>1, <1>3, <1>4 DEF TypeOK, TablesInv

\* The id that an INSERT returns is all that changes in a request in service.
LEMMA RequestKept ==
    ASSUME TypeOK, NEW p \in Procs, Step(p), ~Begin(p)
    PROVE  /\ req'[p].op = req[p].op
           /\ req'[p].hostname = req[p].hostname
           /\ ~CreateSubnet(p) => req'[p].subnet = req[p].subnet
<1>1. req \in [Procs -> Request]
  BY DEF TypeOK
<1>2. CASE CreateSite(p) /\ req' # req
  <2>1. PICK s \in SiteIds : req' = [req EXCEPT ![p] = [req[p] EXCEPT !.site = s]]
    BY <1>2 DEF CreateSite, Refuse
  <2>2. QED
    BY <1>1, <2>1 DEF Request
<1>3. CASE CreateSubnet(p) /\ req' # req
  <2>1. PICK n \in SubnetIds : req' = [req EXCEPT ![p] = [req[p] EXCEPT !.subnet = n]]
    BY <1>3 DEF CreateSubnet, Refuse
  <2>2. QED
    BY <1>1, <1>3, <2>1 DEF Request
<1>4. CASE CreateIP(p) /\ req' # req
  <2>1. PICK i \in IpIds : req' = [req EXCEPT ![p] = [req[p] EXCEPT !.id = i]]
    BY <1>4 DEF CreateIP, Refuse
  <2>2. QED
    BY <1>1, <2>1 DEF Request
<1>5. CASE UNCHANGED req
  BY <1>5
<1>6. QED
  BY <1>2, <1>3, <1>4, <1>5
  DEF Step, Fail, UpdateSite, DeleteSite, ValidateSite, UpdateSubnet, AssignSubnetSite,
      ReadBack, DeleteSubnet, FindSubnet, FindIp, UpdateIPHostname, DeleteIP, Refuse, Proceed

LEMMA PcMatchesOpKept ==
    ASSUME IInv, NEW p \in Procs, Step(p)
    PROVE  PcMatchesOp'
<1> USE DEF IInv
<1>1. ASSUME NEW r \in Procs \ {p}
      PROVE  pc'[r] = pc[r] /\ req'[r] = req[r]
  BY OthersKeepTheirPlace
<1>2. req[p] \in Request /\ req \in [Procs -> Request] /\ pc \in [Procs -> Statements \cup {"idle"}]
  BY DEF TypeOK
<1>3. CASE Begin(p)
  BY <1>1, <1>2, <1>3, RequestsWellFormed, FirstStatements DEF Begin, Goto, PcMatchesOp,
                                                               SubnetWrites
<1>4. CASE pc'[p] = "idle"
  BY <1>1, <1>4 DEF PcMatchesOp, SubnetWrites
<1>5. CASE ValidateSite(p)
  BY <1>1, <1>2, <1>4, <1>5
  DEF ValidateSite, Refuse, Proceed, Answer, Goto, SubnetWrite, PcMatchesOp, SubnetWrites
<1>6. CASE UpdateSubnet(p) \/ AssignSubnetSite(p) \/ FindSubnet(p) \/ FindIp(p)
  BY <1>1, <1>2, <1>4, <1>6
  DEF UpdateSubnet, AssignSubnetSite, FindSubnet, FindIp, Refuse, Proceed, WrittenSubnet,
      Answer, Goto, PcMatchesOp, SubnetWrites
<1>7. CASE CreateSubnet(p)
  <2>1. pc[p] = "insert_subnet" /\ pc'[p] \in {"idle", "read_back"}
    BY <1>2, <1>7 DEF CreateSubnet, Refuse, WrittenSubnet, Answer, Goto
  <2>2. req[p].op = "CreateSubnet" /\ req'[p].op = "CreateSubnet"
    BY <1>7, <2>1, RequestKept DEF PcMatchesOp, Begin
  <2>3. QED
    BY <1>1, <2>1, <2>2 DEF PcMatchesOp, SubnetWrites
<1>8. QED
  BY <1>2, <1>3, <1>4, <1>5, <1>6, <1>7
  DEF Step, Fail, CreateSite, UpdateSite, DeleteSite, ReadBack, DeleteSubnet, CreateIP,
      UpdateIPHostname, DeleteIP, Refuse, Written, Answer

LEMMA ArgumentsKept ==
    ASSUME IInv, NEW p \in Procs, Step(p)
    PROVE  Arguments'
<1>1. \A n \in SubnetIds : cidrsHeld[n] \subseteq cidrsHeld'[n]
  <2>1. TablesInv
    BY DEF IInv
  <2>2. [Statement]_tables
    BY StepIsStatement
  <2>3. QED
    BY <2>1, <2>2, KeysOnlyAdvance
<1> USE DEF IInv
<1>2. ASSUME NEW r \in Procs \ {p}
      PROVE  pc'[r] = pc[r] /\ req'[r] = req[r]
  BY OthersKeepTheirPlace
<1>3. req[p] \in Request /\ req \in [Procs -> Request] /\ pc \in [Procs -> Statements \cup {"idle"}]
  BY DEF TypeOK
<1>4. SUFFICES ASSUME NEW r \in Procs
               PROVE  /\ pc'[r] \in {"insert_subnet", "update_subnet", "assign_site"}
                           => req'[r].site \in SiteIds
                      /\ pc'[r] \in {"insert_subnet", "update_subnet"} => req'[r].cidr \in Cidrs
                      /\ req'[r].op \in {"CreateIP", "UpdateIP"} => req'[r].hostname \in Hostnames
                      /\ req'[r].op = "CreateIP" => req'[r].subnet \in SubnetIds
                      /\ pc'[r] = "insert_ip" =>
                           /\ req'[r].ip \in Addresses
                           /\ \E c \in cidrsHeld'[req'[r].subnet] : req'[r].ip \in Usable[c]
  BY DEF Arguments
<1>5. CASE r # p
  BY <1>1, <1>2, <1>5 DEF Arguments, PcMatchesOp
<1>6. CASE r = p /\ Begin(p)
  BY <1>3, <1>6, RequestsWellFormed, FirstStatements DEF Begin, Goto
<1>7. CASE r = p /\ ValidateSite(p)
  BY <1>3, <1>7, RowsAreNotMarks
  DEF ValidateSite, Refuse, Proceed, Answer, Goto, SubnetWrite, Arguments, Request,
      LiveSites, PcMatchesOp
<1>8. CASE r = p /\ FindSubnet(p)
  BY <1>3, <1>8
  DEF FindSubnet, Refuse, Proceed, Answer, Goto, Arguments, PcMatchesOp, Request,
      CidrIsHeld, tables
<1>9. CASE r = p /\ (FindIp(p) \/ UpdateSubnet(p) \/ AssignSubnetSite(p))
  BY <1>3, <1>9
  DEF FindIp, UpdateSubnet, AssignSubnetSite, Refuse, Proceed, WrittenSubnet, Answer,
      Goto, Arguments
<1>10. CASE r = p /\ CreateSubnet(p)
  <2>1. pc[p] = "insert_subnet" /\ pc'[p] \in {"idle", "read_back"}
    BY <1>3, <1>10 DEF CreateSubnet, Refuse, WrittenSubnet, Answer, Goto
  <2>2. req'[p].op = "CreateSubnet"
    BY <1>10, <2>1, RequestKept DEF PcMatchesOp, Begin
  <2>3. QED
    BY <1>10, <2>1, <2>2
<1>11. CASE /\ r = p
            /\ \/ Fail(p) \/ CreateSite(p) \/ UpdateSite(p) \/ DeleteSite(p)
               \/ ReadBack(p) \/ DeleteSubnet(p) \/ CreateIP(p)
               \/ UpdateIPHostname(p) \/ DeleteIP(p)
  <2>1. (pc[p] # "idle" /\ pc[p] # "insert_subnet") \/ Fail(p)
    BY <1>11
    DEF Fail, CreateSite, UpdateSite, DeleteSite, ReadBack, DeleteSubnet, CreateIP,
        UpdateIPHostname, DeleteIP
  <2>2. pc'[p] = "idle"
    BY <1>3, <1>11
    DEF Fail, CreateSite, UpdateSite, DeleteSite, ReadBack, DeleteSubnet, CreateIP,
        UpdateIPHostname, DeleteIP, Refuse, Written, Answer
  <2>3. ~Begin(p) /\ (CreateSubnet(p) => UNCHANGED req)
    BY <2>1, <2>2 DEF Begin, Fail, Refuse, CreateSubnet
  <2>4. QED
    BY <1>11, <2>2, <2>3, RequestKept DEF Arguments
<1>12. QED
  BY <1>5, <1>6, <1>7, <1>8, <1>9, <1>10, <1>11 DEF Step

LEMMA CidrIsHeldKept ==
    ASSUME TablesInv, CidrIsHeld, [Statement]_tables
    PROVE  CidrIsHeld'
<1> USE DEF CidrIsHeld, TablesInv
<1>1. CASE UNCHANGED <<sites, subnets, ips, cidrsHeld>>
  BY <1>1 DEF LiveSubnets
<1>2. CASE UNCHANGED <<subnets, cidrsHeld>>
  BY <1>2 DEF LiveSubnets
<1>3. CASE \E s \in SiteIds : RemoveSite(s)
  <2>1. \A n \in SubnetIds :
           n \in LiveSubnets /\ subnets'[n] # subnets[n]
             => subnets'[n] = [subnets[n] EXCEPT !.site = Nil]
    BY <1>3 DEF RemoveSite
  <2>2. \A n \in SubnetIds : n \notin LiveSubnets => subnets'[n] = subnets[n]
    BY <1>3 DEF RemoveSite
  <2>3. \A n \in LiveSubnets : [subnets[n] EXCEPT !.site = Nil].cidr = subnets[n].cidr
    BY LiveRows DEF SubnetRow
  <2>4. UNCHANGED cidrsHeld
    BY <1>3 DEF RemoveSite
  <2>5. QED
    BY <2>1, <2>2, <2>3, <2>4 DEF LiveSubnets
<1>4. CASE \E n \in SubnetIds, cidr \in Cidrs, site \in SiteIds :
             InsertSubnet(n, cidr, site) \/ RewriteSubnet(n, cidr, site)
  BY <1>4 DEF InsertSubnet, RewriteSubnet, LiveSubnets, TablesTypeOK
<1>5. CASE \E n \in SubnetIds, site \in SiteIds : MoveSubnet(n, site)
  <2>1. PICK n \in SubnetIds, site \in SiteIds : MoveSubnet(n, site)
    BY <1>5
  <2>2. [subnets[n] EXCEPT !.site = site].cidr = subnets[n].cidr
    BY <2>1, LiveRows DEF MoveSubnet, SubnetRow
  <2>3. QED
    BY <2>1, <2>2 DEF MoveSubnet, LiveSubnets, TablesTypeOK
<1>6. CASE \E n \in SubnetIds : RemoveSubnet(n)
  BY <1>6 DEF RemoveSubnet, LiveSubnets, TablesTypeOK
<1>7. QED
  BY <1>1, <1>2, <1>3, <1>4, <1>5, <1>6
  DEF Statement, tables, InsertSite, RenameSite, InsertIp, RenameIp, RemoveIp

\* Who changes address rows.
LEMMA OthersLeaveAddresses ==
    ASSUME NEW p \in Procs, Step(p)
    PROVE  \/ UNCHANGED ips
           \/ CreateIP(p) \/ UpdateIPHostname(p) \/ DeleteIP(p) \/ DeleteSubnet(p)
<1>1. CASE Begin(p) \/ Fail(p) \/ ValidateSite(p) \/ ReadBack(p) \/ FindSubnet(p) \/ FindIp(p)
  BY <1>1 DEF Begin, Fail, ValidateSite, ReadBack, FindSubnet, FindIp, Refuse, Proceed, tables
<1>2. CASE CreateSite(p) \/ UpdateSite(p) \/ DeleteSite(p)
  BY <1>2 DEF CreateSite, UpdateSite, DeleteSite, InsertSite, RenameSite, RemoveSite,
              Refuse, tables
<1>3. CASE CreateSubnet(p) \/ UpdateSubnet(p) \/ AssignSubnetSite(p)
  BY <1>3 DEF CreateSubnet, UpdateSubnet, AssignSubnetSite, InsertSubnet, RewriteSubnet,
              MoveSubnet, Refuse, tables
<1>4. QED
  BY <1>1, <1>2, <1>3 DEF Step

\* Only CreateIP brings an address into a subnet, and it has validated it.
LEMMA EveryAddressWasUsableKept ==
    ASSUME IInv, NEW p \in Procs, Step(p)
    PROVE  EveryAddressWasUsable'
<1>1. \A n \in SubnetIds : cidrsHeld[n] \subseteq cidrsHeld'[n]
  <2>1. TablesInv
    BY DEF IInv
  <2>2. [Statement]_tables
    BY StepIsStatement
  <2>3. QED
    BY <2>1, <2>2, KeysOnlyAdvance
<1> USE DEF IInv
<1>2. SUFFICES ASSUME NEW i \in IpIds, ips'[i] \notin NoRow
               PROVE  \E c \in cidrsHeld'[ips'[i].subnet] : ips'[i].ip \in Usable[c]
  BY DEF EveryAddressWasUsable, LiveIps
<1>3. CASE /\ i \in LiveIps
           /\ ips'[i].ip = ips[i].ip /\ ips'[i].subnet = ips[i].subnet
  <2>1. ips[i].subnet \in SubnetIds
    BY <1>3, LiveRows DEF TablesInv, IpRow
  <2>2. QED
    BY <1>1, <1>3, <2>1 DEF EveryAddressWasUsable
<1>4. CASE ips'[i] = ips[i]
  BY <1>2, <1>3, <1>4 DEF LiveIps
<1>5. CASE CreateIP(p) /\ ips'[i] # ips[i]
  <2>1. ips'[i] = [ip |-> req[p].ip, hostname |-> req[p].hostname, subnet |-> req[p].subnet]
    BY <1>5 DEF CreateIP, InsertIp, Refuse, tables, TypeOK, TablesTypeOK
  <2>2. req[p].subnet \in SubnetIds /\ \E c \in cidrsHeld[req[p].subnet] : req[p].ip \in Usable[c]
    BY <1>5 DEF CreateIP, Arguments, PcMatchesOp
  <2>3. QED
    BY <1>1, <2>1, <2>2
<1>6. CASE UpdateIPHostname(p) /\ ips'[i] # ips[i]
  <2>1. i \in LiveIps /\ ips'[i] = [ips[i] EXCEPT !.hostname = req[p].hostname]
    BY <1>6 DEF UpdateIPHostname, RenameIp, Refuse, tables, TypeOK, TablesTypeOK, LiveIps
  <2>2. ips[i] \in IpRow
    BY <2>1, LiveRows DEF TablesInv
  <2>3. ips'[i].ip = ips[i].ip /\ ips'[i].subnet = ips[i].subnet
    BY <2>1, <2>2 DEF IpRow
  <2>4. QED
    BY <1>3, <2>1, <2>3
<1>7. CASE (DeleteSubnet(p) \/ DeleteIP(p)) /\ ips'[i] # ips[i]
  <2>1. ips \in [IpIds -> IpRow \cup {Unused, Deleted}]
    BY DEF TypeOK, TablesTypeOK
  <2>2. CASE DeleteSubnet(p)
    <3>1. RemoveSubnet(req[p].subnet)
      BY <1>7, <2>2 DEF DeleteSubnet, Refuse, tables
    <3>2. ips'[i] = Deleted
      BY <1>7, <3>1 DEF RemoveSubnet
    <3>3. QED
      BY <1>2, <3>2
  <2>3. CASE DeleteIP(p)
    <3>1. RemoveIp(req[p].id, req[p].subnet)
      BY <1>7, <2>3 DEF DeleteIP, Refuse, tables
    <3>2. ips'[i] = Deleted
      BY <1>7, <2>1, <3>1 DEF RemoveIp
    <3>3. QED
      BY <1>2, <3>2
  <2>4. QED
    BY <1>7, <2>2, <2>3
<1>8. CASE UNCHANGED ips
  BY <1>4, <1>8
<1>9. QED
  BY <1>4, <1>5, <1>6, <1>7, <1>8, OthersLeaveAddresses DEF Step
-----------------------------------------------------------------------------
(* The answers.                                                            *)

\* A success that a step makes true is about a key this very step has used.
LEMMA NewClaims ==
    ASSUME IInv, NEW p \in Procs, Step(p)
    PROVE  /\ Succeeded(p, "CreateSite")' =>
                 /\ req'[p].site \in SiteIds
                 /\ sites[req'[p].site] = Unused /\ sites'[req'[p].site] # Unused
           /\ Succeeded(p, "DeleteSite")' =>
                 /\ req'[p].site \in SiteIds
                 /\ sites[req'[p].site] # Deleted /\ sites'[req'[p].site] = Deleted
           /\ HasCreatedSubnet(p)' =>
                 \/ HasCreatedSubnet(p) /\ req'[p].subnet = req[p].subnet
                 \/ /\ req'[p].subnet \in SubnetIds
                    /\ subnets[req'[p].subnet] = Unused /\ subnets'[req'[p].subnet] # Unused
           /\ Succeeded(p, "DeleteSubnet")' =>
                 /\ req'[p].subnet \in SubnetIds
                 /\ subnets[req'[p].subnet] # Deleted /\ subnets'[req'[p].subnet] = Deleted
           /\ Succeeded(p, "CreateIP")' =>
                 /\ req'[p].id \in IpIds
                 /\ ips[req'[p].id] = Unused /\ ips'[req'[p].id] # Unused
           /\ Succeeded(p, "DeleteIP")' =>
                 /\ req'[p].id \in IpIds
                 /\ ips[req'[p].id] # Deleted /\ ips'[req'[p].id] = Deleted
<1> USE DEF IInv
<1>1. /\ req[p] \in Request /\ req \in [Procs -> Request]
      /\ pc \in [Procs -> Statements \cup {"idle"}] /\ code \in [Procs -> Statuses]
      /\ sites \in [SiteIds -> SiteNames \cup NoRow]
      /\ subnets \in [SubnetIds -> SubnetRow \cup NoRow]
      /\ ips \in [IpIds -> IpRow \cup NoRow]
  BY DEF TypeOK, TablesTypeOK
<1>2. CASE Begin(p)
  BY <1>1, <1>2, RequestsWellFormed, FirstStatements
  DEF Begin, Goto, Succeeded, HasCreatedSubnet
<1>3. CASE code'[p] \notin {201, 204} /\ pc'[p] # "read_back"
  BY <1>3 DEF Succeeded, HasCreatedSubnet
<1>4. CASE pc'[p] # "idle" /\ req'[p].op # "CreateSubnet"
  BY <1>4 DEF Succeeded, HasCreatedSubnet
<1>5. CASE Fail(p) \/ UpdateSite(p) \/ UpdateIPHostname(p)
  BY <1>1, <1>3, <1>5 DEF Fail, UpdateSite, UpdateIPHostname, Refuse, Written, Answer
<1>6. CASE ValidateSite(p)
  BY <1>1, <1>3, <1>6
  DEF ValidateSite, Refuse, Proceed, Answer, Goto, SubnetWrite, Succeeded, HasCreatedSubnet
<1>7. CASE FindSubnet(p) \/ FindIp(p)
  BY <1>1, <1>3, <1>7
  DEF FindSubnet, FindIp, Refuse, Proceed, Answer, Goto, Succeeded, HasCreatedSubnet
<1>8. CASE UpdateSubnet(p) \/ AssignSubnetSite(p)
  <2>1. req' = req /\ req[p].op # "CreateSubnet"
    BY <1>8 DEF UpdateSubnet, AssignSubnetSite, Refuse, PcMatchesOp
  <2>2. pc'[p] # "idle" \/ (pc'[p] = "idle" /\ code'[p] \notin {201, 204})
    BY <1>1, <1>8 DEF UpdateSubnet, AssignSubnetSite, Refuse, WrittenSubnet, Answer, Goto
  <2>3. QED
    BY <1>3, <1>4, <2>1, <2>2
<1>9. CASE CreateSite(p)
  <2>1. CASE code'[p] = 201
    <3>1. PICK s \in SiteIds :
             /\ InsertSite(s, req[p].name)
             /\ req' = [req EXCEPT ![p] = [req[p] EXCEPT !.site = s]]
      BY <1>1, <1>9, <2>1 DEF CreateSite, Refuse, Written, Answer
    <3>2. req'[p].site = s /\ req'[p].op = "CreateSite" /\ pc'[p] = "idle"
      BY <1>1, <1>9, <3>1 DEF CreateSite, PcMatchesOp, Request, Refuse, Written, Answer
    <3>3. req[p].name \in SiteNames
      BY <1>1, <1>9, <2>1 DEF CreateSite, Refuse, Written, Answer, Request
    <3>4. QED
      BY <1>1, <3>1, <3>2, <3>3, RowsAreNotMarks DEF InsertSite, Succeeded, HasCreatedSubnet
  <2>2. CASE code'[p] # 201
    BY <1>1, <1>3, <1>9, <2>2 DEF CreateSite, Refuse, Written, Answer
  <2>3. QED
    BY <2>1, <2>2
<1>10. CASE DeleteSite(p)
  <2>1. req' = req /\ req[p].op = "DeleteSite"
    BY <1>10 DEF DeleteSite, Refuse, PcMatchesOp
  <2>2. CASE RemoveSite(req[p].site)
    BY <1>1, <1>10, <2>1, <2>2
    DEF DeleteSite, RemoveSite, LiveSites, Succeeded, HasCreatedSubnet
  <2>3. CASE ~RemoveSite(req[p].site)
    BY <1>1, <1>3, <1>10, <2>3 DEF DeleteSite, Refuse, Written, Answer
  <2>4. QED
    BY <2>2, <2>3
<1>11. CASE CreateSubnet(p)
  <2>1. req[p].op = "CreateSubnet" /\ req'[p].op = "CreateSubnet"
    BY <1>11, RequestKept DEF CreateSubnet, PcMatchesOp, Begin
  <2>2. CASE pc'[p] = "read_back"
    <3>1. PICK n \in SubnetIds :
             /\ InsertSubnet(n, req[p].cidr, req[p].site)
             /\ req' = [req EXCEPT ![p] = [req[p] EXCEPT !.subnet = n]]
      BY <1>1, <1>11, <2>2 DEF CreateSubnet, Refuse, WrittenSubnet, Answer
    <3>2. req'[p].subnet = n
      BY <1>1, <3>1 DEF Request
    <3>3. [cidr |-> req[p].cidr, site |-> req[p].site] \in SubnetRow
      BY <1>11 DEF CreateSubnet, Arguments, SubnetRow
    <3>4. QED
      BY <1>1, <2>1, <2>2, <3>1, <3>2, <3>3, RowsAreNotMarks
      DEF InsertSubnet, Succeeded, HasCreatedSubnet
  <2>3. CASE pc'[p] # "read_back"
    BY <1>1, <1>3, <1>11, <2>3 DEF CreateSubnet, Refuse, WrittenSubnet, Answer, Goto
  <2>4. QED
    BY <2>2, <2>3
<1>12. CASE ReadBack(p)
  <2>1. req' = req /\ pc[p] = "read_back" /\ pc'[p] = "idle"
    BY <1>1, <1>12 DEF ReadBack, Refuse, Answer
  <2>2. req[p].op \in SubnetWrites
    BY <2>1 DEF PcMatchesOp
  <2>3. code'[p] \in {200, 201, 404} /\ (code'[p] = 201 => req[p].op = "CreateSubnet")
    BY <1>1, <1>12 DEF ReadBack, Refuse, Answer
  <2>4. QED
    BY <2>1, <2>2, <2>3 DEF Succeeded, HasCreatedSubnet, SubnetWrites
<1>13. CASE DeleteSubnet(p)
  <2>1. req' = req /\ req[p].op = "DeleteSubnet"
    BY <1>13 DEF DeleteSubnet, Refuse, PcMatchesOp
  <2>2. CASE RemoveSubnet(req[p].subnet)
    BY <1>1, <1>13, <2>1, <2>2
    DEF DeleteSubnet, RemoveSubnet, LiveSubnets, Succeeded, HasCreatedSubnet
  <2>3. CASE ~RemoveSubnet(req[p].subnet)
    BY <1>1, <1>3, <1>13, <2>3 DEF DeleteSubnet, Refuse, Written, Answer
  <2>4. QED
    BY <2>2, <2>3
<1>14. CASE CreateIP(p)
  <2>1. CASE code'[p] = 201
    <3>1. PICK i \in IpIds :
             /\ InsertIp(i, req[p].ip, req[p].hostname, req[p].subnet)
             /\ req' = [req EXCEPT ![p] = [req[p] EXCEPT !.id = i]]
      BY <1>1, <1>14, <2>1 DEF CreateIP, Refuse, Written, Answer
    <3>2. req'[p].id = i /\ req'[p].op = "CreateIP" /\ pc'[p] = "idle"
      BY <1>1, <1>14, <3>1 DEF CreateIP, PcMatchesOp, Request, Refuse, Written, Answer
    <3>3. [ip |-> req[p].ip, hostname |-> req[p].hostname, subnet |-> req[p].subnet] \in IpRow
      BY <1>14 DEF CreateIP, Arguments, PcMatchesOp, IpRow
    <3>4. QED
      BY <1>1, <3>1, <3>2, <3>3, RowsAreNotMarks DEF InsertIp, Succeeded, HasCreatedSubnet
  <2>2. CASE code'[p] # 201
    BY <1>1, <1>3, <1>14, <2>2 DEF CreateIP, Refuse, Written, Answer
  <2>3. QED
    BY <2>1, <2>2
<1>15. CASE DeleteIP(p)
  <2>1. req' = req /\ req[p].op = "DeleteIP"
    BY <1>15 DEF DeleteIP, Refuse, PcMatchesOp
  <2>2. CASE RemoveIp(req[p].id, req[p].subnet)
    BY <1>1, <1>15, <2>1, <2>2
    DEF DeleteIP, RemoveIp, LiveIps, Succeeded, HasCreatedSubnet
  <2>3. CASE ~RemoveIp(req[p].id, req[p].subnet)
    BY <1>1, <1>3, <1>15, <2>3 DEF DeleteIP, Refuse, Written, Answer
  <2>4. QED
    BY <2>2, <2>3
<1>16. QED
  BY <1>2, <1>5, <1>6, <1>7, <1>8, <1>9, <1>10, <1>11, <1>12, <1>13, <1>14, <1>15 DEF Step

LEMMA ClaimsKept ==
    ASSUME IInv, NEW p \in Procs, Step(p)
    PROVE  Claims' /\ ClaimsAreExclusive'
<1>1. /\ \A s \in SiteIds :
            /\ sites[s] # Unused => sites'[s] # Unused
            /\ sites[s] = Deleted => sites'[s] = Deleted
      /\ \A n \in SubnetIds :
            /\ subnets[n] # Unused => subnets'[n] # Unused
            /\ subnets[n] = Deleted => subnets'[n] = Deleted
      /\ \A i \in IpIds :
            /\ ips[i] # Unused => ips'[i] # Unused
            /\ ips[i] = Deleted => ips'[i] = Deleted
  <2>1. TablesInv
    BY DEF IInv
  <2>2. [Statement]_tables
    BY StepIsStatement
  <2>3. QED
    BY <2>1, <2>2, KeysOnlyAdvance
<1>2. ASSUME NEW r \in Procs \ {p}
      PROVE  /\ req'[r] = req[r]
             /\ \A op \in AllOps : Succeeded(r, op)' <=> Succeeded(r, op)
             /\ HasCreatedSubnet(r)' <=> HasCreatedSubnet(r)
  BY OthersKeepTheirPlace DEF Succeeded, HasCreatedSubnet, IInv
<1>3. Claims
  BY DEF IInv
<1>4. Claims'
  <2>1. SUFFICES ASSUME NEW r \in Procs
                 PROVE  /\ Succeeded(r, "CreateSite")' =>
                              req'[r].site \in SiteIds /\ sites'[req'[r].site] # Unused
                        /\ Succeeded(r, "DeleteSite")' =>
                              req'[r].site \in SiteIds /\ sites'[req'[r].site] = Deleted
                        /\ HasCreatedSubnet(r)' =>
                              req'[r].subnet \in SubnetIds /\ subnets'[req'[r].subnet] # Unused
                        /\ Succeeded(r, "DeleteSubnet")' =>
                              req'[r].subnet \in SubnetIds /\ subnets'[req'[r].subnet] = Deleted
                        /\ Succeeded(r, "CreateIP")' =>
                              req'[r].id \in IpIds /\ ips'[req'[r].id] # Unused
                        /\ Succeeded(r, "DeleteIP")' =>
                              req'[r].id \in IpIds /\ ips'[req'[r].id] = Deleted
    BY DEF Claims
  <2>2. CASE r = p
    BY <1>1, <1>3, <2>2, NewClaims DEF Claims
  <2>3. CASE r # p
    BY <1>1, <1>2, <1>3, <2>3 DEF Claims, AllOps
  <2>4. QED
    BY <2>2, <2>3
<1>5. ASSUME NEW r \in Procs \ {p}
      PROVE  /\ \A op \in {"CreateSite", "DeleteSite"} :
                   Succeeded(p, op)' /\ Succeeded(r, op)' => req'[p].site # req'[r].site
             /\ HasCreatedSubnet(p)' /\ HasCreatedSubnet(r)' => req'[p].subnet # req'[r].subnet
             /\ Succeeded(p, "DeleteSubnet")' /\ Succeeded(r, "DeleteSubnet")'
                  => req'[p].subnet # req'[r].subnet
             /\ \A op \in {"CreateIP", "DeleteIP"} :
                   Succeeded(p, op)' /\ Succeeded(r, op)' => req'[p].id # req'[r].id
  <2>1. HasCreatedSubnet(p) /\ HasCreatedSubnet(r) => req[p].subnet # req[r].subnet
    BY DEF IInv, ClaimsAreExclusive
  <2>2. QED
    BY <1>2, <1>3, <2>1, NewClaims DEF Claims, AllOps
<1>6. ASSUME NEW r \in Procs \ {p}, NEW t \in Procs \ {p}, r # t
      PROVE  /\ \A op \in {"CreateSite", "DeleteSite"} :
                   Succeeded(r, op)' /\ Succeeded(t, op)' => req'[r].site # req'[t].site
             /\ HasCreatedSubnet(r)' /\ HasCreatedSubnet(t)' => req'[r].subnet # req'[t].subnet
             /\ Succeeded(r, "DeleteSubnet")' /\ Succeeded(t, "DeleteSubnet")'
                  => req'[r].subnet # req'[t].subnet
             /\ \A op \in {"CreateIP", "DeleteIP"} :
                   Succeeded(r, op)' /\ Succeeded(t, op)' => req'[r].id # req'[t].id
  BY <1>2, <1>6 DEF IInv, ClaimsAreExclusive, AllOps
<1>7. ClaimsAreExclusive'
  BY <1>5, <1>6 DEF ClaimsAreExclusive
<1>8. QED
  BY <1>4, <1>7
-----------------------------------------------------------------------------
LEMMA InvInit == Init => IInv
<1> SUFFICES ASSUME Init PROVE IInv
  OBVIOUS
<1>1. TablesInv
  BY TablesInvInit DEF Init
<1>2. TypeOK
  BY <1>1 DEF Init, TypeOK, TablesInv, Blank, Request, Statuses
<1>3. \A p \in Procs : pc[p] = "idle" /\ req[p].op = "none"
  BY DEF Init, Blank
<1>4. PcMatchesOp /\ Arguments
  BY <1>3 DEF PcMatchesOp, Arguments
<1>5. LiveSubnets = {} /\ LiveIps = {}
  BY DEF Init, TablesInit, LiveSubnets, LiveIps
<1>6. CidrIsHeld /\ EveryAddressWasUsable
  BY <1>5 DEF CidrIsHeld, EveryAddressWasUsable
<1>7. Claims /\ ClaimsAreExclusive
  BY <1>3 DEF Claims, ClaimsAreExclusive, Succeeded, HasCreatedSubnet
<1>8. QED
  BY <1>1, <1>2, <1>4, <1>6, <1>7 DEF IInv

LEMMA InvStep ==
    ASSUME IInv, [Next]_vars
    PROVE  IInv'
<1>1. CASE UNCHANGED vars
  BY <1>1
  DEF vars, processes, tables, IInv, TypeOK, TablesInv, TablesTypeOK, ReferentialIntegrity,
      KeysUnique, LiveSites, LiveSubnets, LiveIps, PcMatchesOp, Arguments, CidrIsHeld,
      EveryAddressWasUsable, Claims, ClaimsAreExclusive, Succeeded, HasCreatedSubnet
<1>2. ASSUME NEW p \in Procs, Step(p)
      PROVE  IInv'
  <2>1. CidrIsHeld'
    <3>1. TablesInv /\ CidrIsHeld
      BY DEF IInv
    <3>2. [Statement]_tables
      BY <1>2, StepIsStatement
    <3>3. QED
      BY <3>1, <3>2, CidrIsHeldKept
  <2>2. QED
    BY <1>2, <2>1, TypesKept, PcMatchesOpKept, ArgumentsKept, EveryAddressWasUsableKept,
       ClaimsKept DEF IInv
<1>3. QED
  BY <1>1, <1>2 DEF Next

LEMMA InvAlways == Spec => []IInv
  BY InvInit, InvStep, PTL DEF Spec

\* The handlers are one implementation of the tables' specification: whatever
\* the interleaving, the tables change by statements with arguments that exist
\* (a site is never NULL), one at a time.
THEOREM Refinement == Spec => TablesSpec
<1>1. Init => TablesInit
  BY DEF Init
<1>2. ASSUME IInv, [Next]_vars
      PROVE  [Statement]_tables
  <2>1. CASE UNCHANGED vars
    BY <2>1 DEF vars, tables
  <2>2. CASE \E p \in Procs : Step(p)
    BY <1>2, <2>2, StepIsStatement
  <2>3. QED
    BY <1>2, <2>1, <2>2 DEF Next
<1>3. QED
  BY <1>1, <1>2, InvAlways, PTL DEF Spec, TablesSpec

\* Every process is at a statement with a request that client and code can
\* have made, and every row is well formed.
THEOREM TypeCorrect == Spec => []TypeOK
<1>1. IInv => TypeOK
  BY DEF IInv
<1>2. QED
  BY <1>1, InvAlways, PTL

\* What the schema keeps, the requests keep: the rows' references and keys.
THEOREM SchemaKept == Spec => [](ReferentialIntegrity /\ KeysUnique)
<1>1. IInv => ReferentialIntegrity /\ KeysUnique
  BY DEF IInv, TablesInv
<1>2. QED
  BY <1>1, InvAlways, PTL

\* No address is stored that validateIPInSubnet has not let into a CIDR its
\* subnet had, although UPDATE of the CIDR looks at no address.
THEOREM AddressesWereUsable == Spec => []EveryAddressWasUsable
<1>1. IInv => EveryAddressWasUsable
  BY DEF IInv
<1>2. QED
  BY <1>1, InvAlways, PTL

\* Two successful answers of one kind are about two rows, for any number of
\* replicas and any interleaving of their statements.
THEOREM ExclusiveAnswers == Spec => []AnswersAreExclusive
<1>1. IInv => AnswersAreExclusive
  BY RequestConstants
  DEF IInv, AnswersAreExclusive, ClaimsAreExclusive, Succeeded, HasCreatedSubnet
<1>2. QED
  BY <1>1, InvAlways, PTL

\* A subnet loses its site in no request but the deletion of that site.
THEOREM RequestsClearNoSite == Spec => SiteClearedOnlyByDeletion
  BY Refinement, SiteClearing, PTL

\* An address row keeps its address and subnet through every request.
THEOREM RequestsKeepAddresses == Spec => AddressIdentity
  BY Refinement, AddressIdentityHolds, PTL
-----------------------------------------------------------------------------
(* What an UPDATE by id alone relies on.                                   *)

\* A PATCH that has found its row in the path's subnet: the row is there still,
\* or it is gone.
PathIsChecked ==
    \A p \in Procs : pc[p] = "update_ip" =>
       /\ req[p].id \in IpIds /\ ips[req[p].id] # Unused
       /\ req[p].id \in LiveIps => ips[req[p].id].subnet = req[p].subnet

PathInv == IInv /\ PathIsChecked

LEMMA PathIsCheckedKept ==
    ASSUME PathInv, NEW p \in Procs, Step(p)
    PROVE  PathIsChecked'
<1> USE DEF PathInv
<1>1. TypeOK /\ TablesInv
  BY DEF IInv
<1>2. [Statement]_tables
  BY StepIsStatement
<1> SUFFICES ASSUME NEW r \in Procs, pc'[r] = "update_ip"
             PROVE  /\ req'[r].id \in IpIds /\ ips'[req'[r].id] # Unused
                    /\ req'[r].id \in LiveIps' => ips'[req'[r].id].subnet = req'[r].subnet
  BY DEF PathIsChecked
<1>3. CASE pc[r] = "update_ip" /\ req'[r] = req[r]
  <2>1. PICK i \in IpIds : i = req[r].id
    BY <1>3 DEF PathIsChecked
  <2>2. ips[i] # Unused /\ (i \in LiveIps => ips[i].subnet = req[r].subnet)
    BY <1>3, <2>1 DEF PathIsChecked
  <2>3. /\ ips[i] = Deleted => ips'[i] = Deleted
        /\ i \in LiveIps => \/ ips'[i] = Deleted
                            \/ i \in LiveIps' /\ ips'[i].subnet = ips[i].subnet
    BY <1>1, <1>2, RowsKeepTheirAddress
  <2>4. i \in LiveIps \/ ips[i] = Deleted
    BY <2>2 DEF LiveIps
  <2>5. QED
    BY <1>3, <2>1, <2>2, <2>3, <2>4, RowsAreNotMarks DEF LiveIps
<1>4. CASE ~(pc[r] = "update_ip" /\ req'[r] = req[r])
  <2>1. r = p
    BY <1>1, <1>4, OthersKeepTheirPlace
  <2>2. pc'[p] = "update_ip" => FindIp(p) \/ UNCHANGED <<pc, req>>
    <3>1. \A op \in AllOps : FirstStatement(op) # "update_ip"
      BY FirstStatements
    <3>2. ~Begin(p)
      <4> SUFFICES ASSUME Begin(p) PROVE FALSE
        OBVIOUS
      <4>1. PICK q \in Requests : pc' = [pc EXCEPT ![p] = FirstStatement(q.op)]
        BY DEF Begin, Goto
      <4>2. q.op \in AllOps
        BY RequestsWellFormed
      <4>3. QED
        BY <1>1, <2>1, <3>1, <4>1, <4>2 DEF TypeOK
    <3>3. SubnetWrite(req[p].op) # "update_ip"
      BY DEF SubnetWrite
    <3>4. QED
      BY <1>1, <2>1, <3>2, <3>3
         DEF TypeOK, Step, Fail, Refuse, Proceed, Written, WrittenSubnet, Answer, Goto,
             CreateSite, UpdateSite, DeleteSite,
             ValidateSite, CreateSubnet, UpdateSubnet, AssignSubnetSite, ReadBack, DeleteSubnet,
             FindSubnet, CreateIP, UpdateIPHostname, DeleteIP
  <2>3. FindIp(p)
    BY <1>4, <2>1, <2>2
  <2>4. /\ req[p].id \in LiveIps /\ ips[req[p].id].subnet = req[p].subnet
        /\ UNCHANGED <<tables, req>>
    BY <1>1, <2>1, <2>3 DEF FindIp, Refuse, Proceed, Answer, TypeOK
  <2>5. QED
    BY <2>1, <2>4 DEF tables, LiveIps
<1>5. QED
  BY <1>3, <1>4

LEMMA PathInvAlways == Spec => []PathInv
<1>1. Init => PathInv
  BY InvInit DEF PathInv, PathIsChecked, Init
<1>2. PathInv /\ [Next]_vars => PathInv'
  <2> SUFFICES ASSUME PathInv, [Next]_vars PROVE PathInv'
    OBVIOUS
  <2>1. IInv'
    BY InvStep DEF PathInv
  <2>2. CASE UNCHANGED vars
    BY <2>1, <2>2 DEF vars, processes, tables, PathInv, PathIsChecked, LiveIps
  <2>3. CASE Next
    BY <2>1, <2>3, PathIsCheckedKept DEF Next, PathInv
  <2>4. QED
    BY <2>2, <2>3
<1>3. QED
  BY <1>1, <1>2, PTL DEF Spec

\* PATCH and DELETE /subnets/{id}/ips/{uuid}: no request changes or deletes an
\* address row but through the subnet that the row belongs to, or together
\* with that subnet.
THEOREM RowsAreTouchedThroughTheirSubnet == Spec => TouchedThroughItsSubnet
<1> DEFINE Touched(i) ==
              ips'[i] # ips[i] =>
                 \/ subnets'[ips[i].subnet] = Deleted
                 \/ \E p \in Procs :
                       /\ pc[p] \in {"update_ip", "delete_ip"} /\ pc'[p] = "idle"
                       /\ req[p].id = i
                       /\ req[p].subnet = ips[i].subnet
<1>1. ASSUME PathInv, NEW p \in Procs, Step(p), NEW i \in LiveIps
      PROVE  Touched(i)
  <2> SUFFICES ASSUME ips'[i] # ips[i]
               PROVE  \/ subnets'[ips[i].subnet] = Deleted
                      \/ /\ pc[p] \in {"update_ip", "delete_ip"} /\ pc'[p] = "idle"
                         /\ req[p].id = i
                         /\ req[p].subnet = ips[i].subnet
    OBVIOUS
  <2>1. TypeOK /\ TablesInv /\ i \in IpIds /\ ips[i] # Unused
    BY <1>1 DEF PathInv, IInv, LiveIps
  <2>2. CASE DeleteSubnet(p)
    <3>1. RemoveSubnet(req[p].subnet)
      BY <2>2 DEF DeleteSubnet, Refuse, tables
    <3>2. ips[i].subnet = req[p].subnet
      BY <2>1, <3>1 DEF RemoveSubnet
    <3>3. QED
      BY <2>1, <3>1, <3>2 DEF RemoveSubnet, LiveSubnets, TablesInv, TablesTypeOK
  <2>3. CASE UpdateIPHostname(p)
    <3>1. RenameIp(req[p].id, req[p].hostname) /\ pc'[p] = "idle" /\ pc[p] = "update_ip"
      BY <2>1, <2>3 DEF UpdateIPHostname, Refuse, Written, Answer, tables, TypeOK
    <3>2. i = req[p].id
      BY <2>1, <3>1 DEF RenameIp, TablesInv, TablesTypeOK
    <3>3. QED
      BY <1>1, <3>1, <3>2 DEF PathInv, PathIsChecked
  <2>4. CASE DeleteIP(p)
    <3>1. RemoveIp(req[p].id, req[p].subnet) /\ pc'[p] = "idle" /\ pc[p] = "delete_ip"
      BY <2>1, <2>4 DEF DeleteIP, Refuse, Written, Answer, tables, TypeOK
    <3>2. i = req[p].id
      BY <2>1, <3>1 DEF RemoveIp, TablesInv, TablesTypeOK
    <3>3. QED
      BY <3>1, <3>2 DEF RemoveIp
  <2>5. CASE CreateIP(p)
    <3>1. PICK j \in IpIds : InsertIp(j, req[p].ip, req[p].hostname, req[p].subnet)
      BY <2>5 DEF CreateIP, Refuse, tables
    <3>2. ips[j] = Unused /\ \E row : ips' = [ips EXCEPT ![j] = row]
      BY <3>1 DEF InsertIp
    <3>3. QED
      BY <2>1, <3>2
  <2>6. QED
    BY <1>1, <2>2, <2>3, <2>4, <2>5, OthersLeaveAddresses DEF Step
<1>2. PathInv /\ [Next]_vars => [\A i \in LiveIps : Touched(i)]_vars
  BY <1>1 DEF Next
<1>3. QED
  BY <1>2, PathInvAlways, PTL DEF Spec, TouchedThroughItsSubnet
-----------------------------------------------------------------------------
(* What an answer tells.                                                   *)

\* What a request that has written has done to the row of its id.
WriteIsKnown(p) ==
    LET q == req[p] IN
    /\ q.op = "DeleteSite" => q.site \in SiteIds /\ sites[q.site] = Deleted
    /\ q.op = "DeleteSubnet" => q.subnet \in SubnetIds /\ subnets[q.subnet] = Deleted
    /\ q.op = "DeleteIP" => q.id \in IpIds /\ ips[q.id] = Deleted
    /\ q.op = "CreateIP" =>
          /\ q.id \in IpIds /\ ips[q.id] # Unused
          /\ q.id \in LiveIps => ips[q.id].ip = q.ip /\ ips[q.id].subnet = q.subnet
    /\ q.op \in SubnetWrites => q.subnet \in SubnetIds /\ subnets[q.subnet] # Unused

\* A request writes once, in its last statement but the read back.
Truth(p) ==
    /\ wrote[p] => pc[p] \in {"idle", "read_back"} /\ WriteIsKnown(p)
    /\ pc[p] = "read_back" => wrote[p]
    /\ pc[p] = "idle" /\ req[p].op # "none" =>
          /\ code[p] \in {200, 201, 204} => wrote[p]
          /\ wrote[p] /\ code[p] \in {400, 404} =>
                /\ code[p] = 404 /\ req[p].op \in SubnetWrites
                /\ subnets[req[p].subnet] = Deleted

TruthInv == \A p \in Procs : Truth(p)

\* Which answers follow a statement that has written, and which one that has not.
LEMMA Outcomes ==
    ASSUME TypeOK, NEW p \in Procs, Step(p)
    PROVE  \/ Begin(p)
           \/ ReadBack(p)
           \/ /\ pc[p] # "idle"
              /\ \E status \in {400, 404, 500} :
                    Refuse(p, status) /\ (pc[p] = "read_back" => status = 500)
           \/ /\ pc[p] \notin {"idle", "read_back"}
              /\ \/ \E statement \in Statements \ {"read_back"} : Proceed(p, statement)
                 \/ \E status \in {200, 201, 204} : Written(p, status)
                 \/ WrittenSubnet(p)
<1>1. CASE Fail(p) \/ CreateSite(p) \/ UpdateSite(p) \/ DeleteSite(p) \/ DeleteSubnet(p)
           \/ CreateIP(p) \/ UpdateIPHostname(p) \/ DeleteIP(p)
  BY <1>1
  DEF Fail, CreateSite, UpdateSite, DeleteSite, DeleteSubnet, CreateIP, UpdateIPHostname,
      DeleteIP
<1>2. CASE ValidateSite(p) \/ FindSubnet(p) \/ FindIp(p)
  <2>1. /\ SubnetWrite(req[p].op) \in Statements \ {"read_back"}
        /\ {"insert_ip", "find_ip", "update_ip"} \subseteq Statements \ {"read_back"}
    BY DEF SubnetWrite, Statements
  <2>2. QED
    BY <1>2, <2>1 DEF ValidateSite, FindSubnet, FindIp
<1>3. CASE CreateSubnet(p) \/ UpdateSubnet(p) \/ AssignSubnetSite(p)
  BY <1>3 DEF CreateSubnet, UpdateSubnet, AssignSubnetSite
<1>4. QED
  BY <1>1, <1>2, <1>3 DEF Step

\* Whatever others do, it stays done.
LEMMA WriteStaysKnown ==
    ASSUME IInv, [Statement]_tables, NEW p \in Procs, WriteIsKnown(p), req'[p] = req[p]
    PROVE  WriteIsKnown(p)'
<1>1. TablesInv
  BY DEF IInv
<1>2. ASSUME NEW i \in IpIds, i = req[p].id, ips[i] # Unused,
             i \in LiveIps => ips[i].ip = req[p].ip /\ ips[i].subnet = req[p].subnet
      PROVE  i \in LiveIps' => ips'[i].ip = req[p].ip /\ ips'[i].subnet = req[p].subnet
  BY <1>1, <1>2, RowsKeepTheirAddress DEF LiveIps
<1>3. QED
  BY <1>1, <1>2, KeysOnlyAdvance DEF WriteIsKnown

LEMMA NewWriteIsKnown ==
    ASSUME IInv, NEW p \in Procs, Step(p), ~wrote[p], wrote'[p]
    PROVE  WriteIsKnown(p)'
<1>1. /\ req[p] \in Request /\ req \in [Procs -> Request] /\ wrote \in [Procs -> BOOLEAN]
      /\ sites \in [SiteIds -> SiteNames \cup NoRow]
      /\ subnets \in [SubnetIds -> SubnetRow \cup NoRow]
      /\ ips \in [IpIds -> IpRow \cup NoRow]
      /\ PcMatchesOp /\ Arguments
  BY DEF IInv, TypeOK, TablesTypeOK
<1>3. ~Begin(p) /\ \A status : ~Refuse(p, status)
  BY <1>1 DEF Begin, Refuse
<1>4. CASE CreateSite(p) \/ UpdateSite(p) \/ UpdateIPHostname(p)
  <2>1. req[p].op \in {"CreateSite", "UpdateSite", "UpdateIP"}
    BY <1>1, <1>4 DEF CreateSite, UpdateSite, UpdateIPHostname, PcMatchesOp
  <2>2. req'[p].op = req[p].op
    BY <1>3, RequestKept DEF IInv
  <2>3. QED
    BY <2>1, <2>2 DEF WriteIsKnown, SubnetWrites
<1>5. CASE DeleteSite(p)
  <2>1. RemoveSite(req[p].site) /\ req' = req /\ req[p].op = "DeleteSite"
    BY <1>1, <1>3, <1>5 DEF DeleteSite, PcMatchesOp
  <2>2. QED
    BY <1>1, <2>1 DEF RemoveSite, LiveSites, WriteIsKnown, SubnetWrites
<1>6. CASE DeleteSubnet(p)
  <2>1. RemoveSubnet(req[p].subnet) /\ req' = req /\ req[p].op = "DeleteSubnet"
    BY <1>1, <1>3, <1>6 DEF DeleteSubnet, PcMatchesOp
  <2>2. QED
    BY <1>1, <2>1 DEF RemoveSubnet, LiveSubnets, WriteIsKnown, SubnetWrites
<1>7. CASE DeleteIP(p)
  <2>1. RemoveIp(req[p].id, req[p].subnet) /\ req' = req /\ req[p].op = "DeleteIP"
    BY <1>1, <1>3, <1>7 DEF DeleteIP, PcMatchesOp
  <2>2. QED
    BY <1>1, <2>1 DEF RemoveIp, LiveIps, WriteIsKnown, SubnetWrites
<1>8. CASE CreateIP(p)
  <2>1. PICK i \in IpIds :
           /\ InsertIp(i, req[p].ip, req[p].hostname, req[p].subnet)
           /\ req' = [req EXCEPT ![p] = [req[p] EXCEPT !.id = i]]
    BY <1>1, <1>3, <1>8 DEF CreateIP
  <2>2. /\ req'[p].id = i /\ req'[p].op = "CreateIP"
        /\ req'[p].ip = req[p].ip /\ req'[p].subnet = req[p].subnet
    BY <1>1, <1>8, <2>1 DEF CreateIP, PcMatchesOp, Request
  <2>3. [ip |-> req[p].ip, hostname |-> req[p].hostname, subnet |-> req[p].subnet] \in IpRow
    BY <1>1, <1>8 DEF CreateIP, Arguments, PcMatchesOp, IpRow
  <2>4. /\ ips'[i] = [ip |-> req[p].ip, hostname |-> req[p].hostname, subnet |-> req[p].subnet]
        /\ ips'[i] # Unused
    BY <1>1, <2>1, <2>3, RowsAreNotMarks DEF InsertIp
  <2>5. ips'[i].ip = req[p].ip /\ ips'[i].subnet = req[p].subnet
    BY <2>4
  <2>6. QED
    BY <2>2, <2>4, <2>5 DEF WriteIsKnown, SubnetWrites
<1>9. CASE CreateSubnet(p)
  <2>1. PICK n \in SubnetIds :
           /\ InsertSubnet(n, req[p].cidr, req[p].site)
           /\ req' = [req EXCEPT ![p] = [req[p] EXCEPT !.subnet = n]]
    BY <1>1, <1>3, <1>9 DEF CreateSubnet
  <2>2. req'[p].subnet = n /\ req'[p].op = "CreateSubnet"
    BY <1>1, <1>9, <2>1 DEF CreateSubnet, PcMatchesOp, Request
  <2>3. [cidr |-> req[p].cidr, site |-> req[p].site] \in SubnetRow
    BY <1>1, <1>9 DEF CreateSubnet, Arguments, SubnetRow
  <2>4. QED
    BY <1>1, <2>1, <2>2, <2>3, RowsAreNotMarks DEF InsertSubnet, WriteIsKnown, SubnetWrites
<1>10. CASE UpdateSubnet(p) \/ AssignSubnetSite(p)
  <2>1. /\ req' = req /\ req[p].op \in {"UpdateSubnet", "AssignSite"}
        /\ req[p].subnet \in LiveSubnets
    BY <1>1, <1>3, <1>10
    DEF UpdateSubnet, AssignSubnetSite, RewriteSubnet, MoveSubnet, PcMatchesOp
  <2>2. subnets'[req[p].subnet] # Unused
    <3>1. [Statement]_tables /\ TablesInv
      BY StepIsStatement DEF IInv
    <3>2. QED
      BY <2>1, <3>1, KeysOnlyAdvance DEF LiveSubnets
  <2>3. QED
    BY <2>1, <2>2 DEF WriteIsKnown, SubnetWrites, LiveSubnets
<1>11. QED
  BY <1>1, <1>3, <1>4, <1>5, <1>6, <1>7, <1>8, <1>9, <1>10
  DEF Step, Fail, ValidateSite, ReadBack, FindSubnet, FindIp, Proceed

LEMMA TruthKept ==
    ASSUME IInv, TruthInv, NEW p \in Procs, Step(p)
    PROVE  TruthInv'
<1>1. [Statement]_tables
  BY StepIsStatement
<1>2. /\ TypeOK /\ TablesInv /\ PcMatchesOp /\ Arguments
      /\ pc \in [Procs -> Statements \cup {"idle"}] /\ code \in [Procs -> Statuses]
      /\ wrote \in [Procs -> BOOLEAN]
  BY DEF IInv, TypeOK
<1>3. SUFFICES ASSUME NEW r \in Procs PROVE Truth(r)'
  BY DEF TruthInv
<1>4. ASSUME wrote[r], req'[r] = req[r]
      PROVE  /\ WriteIsKnown(r)'
             /\ req[r].op \in SubnetWrites /\ subnets[req[r].subnet] = Deleted
                   => subnets'[req[r].subnet] = Deleted
  <2>1. WriteIsKnown(r)
    BY <1>4 DEF TruthInv, Truth
  <2>2. WriteIsKnown(r)'
    BY <1>1, <1>4, <2>1, WriteStaysKnown
  <2>3. QED
    BY <1>1, <1>2, <2>1, <2>2, KeysOnlyAdvance DEF WriteIsKnown
<1>5. CASE r # p
  <2>1. pc'[r] = pc[r] /\ req'[r] = req[r] /\ code'[r] = code[r] /\ wrote'[r] = wrote[r]
    BY <1>2, <1>5, OthersKeepTheirPlace
  <2>2. QED
    BY <1>4, <2>1 DEF TruthInv, Truth
<1>6. CASE r = p
  <2>1. wrote'[p] => wrote[p] \/ WriteIsKnown(p)'
    BY NewWriteIsKnown
  <2>2. CASE Begin(p)
    <3>1. PICK op \in AllOps : pc'[p] = FirstStatement(op)
      BY <1>2, <2>2, RequestsWellFormed DEF Begin, Goto
    <3>2. pc'[p] \notin {"idle", "read_back"} /\ ~wrote'[p]
      BY <1>2, <2>2, <3>1, FirstStatements DEF Begin
    <3>3. QED
      BY <1>6, <3>2 DEF Truth
  <2>3. CASE ReadBack(p)
    <3>1. /\ pc[p] = "read_back" /\ wrote[p] /\ WriteIsKnown(p)
          /\ req[p].op \in SubnetWrites
      BY <1>2, <2>3 DEF ReadBack, TruthInv, Truth, PcMatchesOp
    <3>2. req' = req /\ wrote' = wrote /\ pc'[p] = "idle" /\ UNCHANGED tables
      BY <1>2, <2>3 DEF ReadBack, Refuse, Answer
    <3>3. code'[p] \in {200, 201} \/ (code'[p] = 404 /\ req[p].subnet \notin LiveSubnets)
      BY <1>2, <2>3 DEF ReadBack, Refuse, Answer
    <3>4. req[p].subnet \notin LiveSubnets => subnets[req[p].subnet] = Deleted
      BY <3>1 DEF WriteIsKnown, LiveSubnets
    <3>5. QED
      BY <1>4, <1>6, <3>1, <3>2, <3>3, <3>4 DEF Truth, tables
  <2>4. ASSUME pc[p] # "idle", NEW status \in {400, 404, 500}, Refuse(p, status),
               pc[p] = "read_back" => status = 500
        PROVE  Truth(p)'
    <3>1. req' = req /\ wrote' = wrote /\ pc'[p] = "idle" /\ code'[p] = status
      BY <1>2, <2>4 DEF Refuse, Answer
    <3>2. wrote[p] => pc[p] = "read_back"
      BY <2>4 DEF TruthInv, Truth
    <3>3. QED
      BY <1>4, <1>6, <2>4, <3>1, <3>2 DEF Truth
  <2>5. ASSUME pc[p] \notin {"idle", "read_back"},
               NEW status \in {200, 201, 204}, Written(p, status)
        PROVE  Truth(p)'
    <3>1. wrote'[p] /\ pc'[p] = "idle" /\ code'[p] \in {status, 500}
      BY <1>2, <2>5 DEF Written, Answer
    <3>2. ~wrote[p]
      BY <2>5 DEF TruthInv, Truth
    <3>3. QED
      BY <2>1, <3>1, <3>2 DEF Truth
  <2>6. ASSUME pc[p] \notin {"idle", "read_back"},
               NEW statement \in Statements \ {"read_back"}, Proceed(p, statement)
        PROVE  Truth(p)'
    <3>1. wrote'[p] = wrote[p] /\ pc'[p] = statement /\ statement # "idle"
      BY <1>2, <2>6 DEF Proceed, Goto, Statements
    <3>2. ~wrote[p]
      BY <2>6 DEF TruthInv, Truth
    <3>3. QED
      BY <2>6, <3>1, <3>2 DEF Truth
  <2>7. ASSUME pc[p] \notin {"idle", "read_back"}, WrittenSubnet(p)
        PROVE  Truth(p)'
    <3>1. wrote'[p] /\ (pc'[p] = "read_back" \/ (pc'[p] = "idle" /\ code'[p] = 500))
      BY <1>2, <2>7 DEF WrittenSubnet, Goto, Answer
    <3>2. ~wrote[p]
      BY <2>7 DEF TruthInv, Truth
    <3>3. QED
      BY <2>1, <3>1, <3>2 DEF Truth
  <2>8. QED
    BY <1>2, <1>6, <2>2, <2>3, <2>4, <2>5, <2>6, <2>7, Outcomes
<1>7. QED
  BY <1>5, <1>6

\* However many requests interleave and wherever connections break: who is
\* answered with success has written, who is answered 400 or 404 has not, and
\* the one exception is a subnet that was deleted before it could be read back.
THEOREM AnswersTellTheTruth == Spec => []AnswersAreTruthful
<1>1. Init => TruthInv
  BY DEF Init, TruthInv, Truth, Blank
<1>2. IInv /\ TruthInv /\ [Next]_vars => TruthInv'
  <2>1. ASSUME TruthInv, UNCHANGED vars
        PROVE  TruthInv'
    BY <2>1 DEF vars, processes, tables, TruthInv, Truth, WriteIsKnown, LiveIps
  <2>2. QED
    BY <2>1, TruthKept DEF Next
<1>3. IInv /\ TruthInv => AnswersAreTruthful
  BY DEF AnswersAreTruthful, TruthInv, Truth, WriteIsKnown, LiveIps, IInv, TypeOK, TablesTypeOK
<1>4. QED
  BY <1>1, <1>2, <1>3, InvAlways, PTL DEF Spec
=============================================================================
