----------------------------- MODULE Inventory ------------------------------
(***************************************************************************)
(* The REST requests that change sites, subnets and addresses              *)
(* (internal/http/handlers.go, sites_handlers.go), from the handler        *)
(* through the service (internal/domain) and the repository (internal/db)  *)
(* to the SQL statement.  No request uses a transaction: it runs one to    *)
(* three statements, each committed by itself, and what one statement read *)
(* may be old when the next one runs.  One action is one statement with    *)
(* the code that leads to it and the code that answers if it is the last.  *)
(*                                                                         *)
(* Procs are the goroutines that serve requests, in one replica or in      *)
(* several: they share nothing but the tables.                             *)
(***************************************************************************)
EXTENDS Tables

CONSTANTS
    Procs,
    Ops,        \* the kinds of request the clients send
    Usable      \* Usable[c]: the addresses validateIPInSubnet lets into CIDR c

AllOps == {"CreateSite", "UpdateSite", "DeleteSite",
           "CreateSubnet", "UpdateSubnet", "AssignSite", "DeleteSubnet",
           "CreateIP", "UpdateIP", "DeleteIP"}

ASSUME RequestConstants ==
    /\ Ops \subseteq AllOps
    /\ Usable \in [Cidrs -> SUBSET Addresses]

VARIABLES
    pc,     \* the statement the process runs next, or "idle"
    req,    \* the request being served, or served last, with the ids it made
    code,   \* the HTTP status of the last answer
    wrote   \* history: a statement of this request, or of the last, has written

processes == <<pc, req, code, wrote>>
vars == <<tables, processes>>

Request ==
    [op : AllOps \cup {"none"},
     site : SiteIds \cup {Nil}, name : SiteNames \cup {Nil},
     subnet : SubnetIds \cup {Nil}, cidr : Cidrs \cup {Nil},
     id : IpIds \cup {Nil}, ip : Addresses \cup {Nil},
     hostname : Hostnames \cup {Nil}]

Statements == {"insert_site", "update_site", "delete_site",
               "validate_site", "insert_subnet", "update_subnet", "assign_site",
               "read_back", "delete_subnet",
               "find_subnet", "insert_ip", "find_ip", "update_ip", "delete_ip"}

Statuses == {200, 201, 204, 400, 404, 500}

TypeOK ==
    /\ TablesTypeOK
    /\ pc \in [Procs -> Statements \cup {"idle"}]
    /\ req \in [Procs -> Request]
    /\ code \in [Procs -> Statuses]
    /\ wrote \in [Procs -> BOOLEAN]

Blank == [op |-> "none", site |-> Nil, name |-> Nil, subnet |-> Nil,
          cidr |-> Nil, id |-> Nil, ip |-> Nil, hostname |-> Nil]

Init ==
    /\ TablesInit
    /\ pc = [p \in Procs |-> "idle"]
    /\ req = [p \in Procs |-> Blank]
    /\ code = [p \in Procs |-> 200]
    /\ wrote = [p \in Procs |-> FALSE]
-----------------------------------------------------------------------------
\* What clients send: ids in the path, and a body whose fields may be
\* missing, blank or unparsable (Nil).  A hostname is any string.
Asks(op, site, name, subnet, cidr, id, ip, hostname) ==
    [op : {op}, site : site, name : name, subnet : subnet,
     cidr : cidr, id : id, ip : ip, hostname : hostname]

Requests ==
    LET none == {Nil}
        Sites == SiteIds \cup none
        Names == SiteNames \cup none
        Prefixes == Cidrs \cup none
        Addrs == Addresses \cup none
    IN  Asks("CreateSite", none, Names, none, none, none, none, none)
        \cup Asks("UpdateSite", SiteIds, Names, none, none, none, none, none)
        \cup Asks("DeleteSite", SiteIds, none, none, none, none, none, none)
        \cup Asks("CreateSubnet", Sites, none, none, Prefixes, none, none, none)
        \cup Asks("UpdateSubnet", Sites, none, SubnetIds, Prefixes, none, none, none)
        \cup Asks("AssignSite", Sites, none, SubnetIds, none, none, none, none)
        \cup Asks("DeleteSubnet", none, none, SubnetIds, none, none, none, none)
        \cup Asks("CreateIP", none, none, SubnetIds, none, none, Addrs, Hostnames)
        \cup Asks("UpdateIP", none, none, SubnetIds, none, IpIds, none, Hostnames)
        \cup Asks("DeleteIP", none, none, SubnetIds, none, IpIds, none, none)

\* The requests that validate the site, and read the subnet back at the end.
SubnetWrites == {"CreateSubnet", "UpdateSubnet", "AssignSite"}

\* The statement a handler reaches first.
FirstStatement(op) ==
    CASE op = "CreateSite" -> "insert_site"
      [] op = "UpdateSite" -> "update_site"
      [] op = "DeleteSite" -> "delete_site"
      [] op \in SubnetWrites -> "validate_site"
      [] op = "DeleteSubnet" -> "delete_subnet"
      [] op \in {"CreateIP", "UpdateIP"} -> "find_subnet"
      [] op = "DeleteIP" -> "delete_ip"

\* The write that follows a successful validateSite.
SubnetWrite(op) ==
    CASE op = "CreateSubnet" -> "insert_subnet"
      [] op = "UpdateSubnet" -> "update_subnet"
      [] OTHER -> "assign_site"

Goto(p, statement) ==
    /\ pc' = [pc EXCEPT ![p] = statement]
    /\ UNCHANGED code

\* The handler writes its response.
Answer(p, status) ==
    /\ pc' = [pc EXCEPT ![p] = "idle"]
    /\ code' = [code EXCEPT ![p] = status]

\* No row was there, none was asked for, or the statement fails.
Refuse(p, status) == Answer(p, status) /\ UNCHANGED <<req, tables, wrote>>

\* A statement that reads, and the handler goes on.
Proceed(p, statement) == Goto(p, statement) /\ UNCHANGED <<req, tables, wrote>>

\* The statement has written.  If the connection breaks before PostgreSQL's
\* reply, the handler takes it for a failure.
Written(p, success) ==
    /\ wrote' = [wrote EXCEPT ![p] = TRUE]
    /\ Answer(p, success) \/ Answer(p, 500)

\* Likewise, and a subnet is read back before the answer.
WrittenSubnet(p) ==
    /\ wrote' = [wrote EXCEPT ![p] = TRUE]
    /\ Goto(p, "read_back") \/ Answer(p, 500)

Begin(p) ==
    /\ pc[p] = "idle"
    /\ \E q \in Requests :
          /\ q.op \in Ops
          /\ req' = [req EXCEPT ![p] = q]
          /\ Goto(p, FirstStatement(q.op))
    /\ wrote' = [wrote EXCEPT ![p] = FALSE]
    /\ UNCHANGED tables

\* Any statement can fail for a reason that is none of the tables' own: the
\* connection is lost or the request's context has ended.  The answer is 500
\* then, whatever was already committed.  (One whose write had taken place is
\* in Written.)
Fail(p) ==
    /\ pc[p] # "idle"
    /\ Refuse(p, 500)
-----------------------------------------------------------------------------
(* Sites.                                                                  *)

CreateSite(p) ==
    /\ pc[p] = "insert_site"
    /\ LET name == req[p].name IN
       \/ name = Nil /\ Refuse(p, 400)
       \/ name # Nil /\ NameTaken(name, Nil) /\ Refuse(p, 500)
       \/ \E s \in SiteIds :
             /\ name # Nil
             /\ InsertSite(s, name)
             /\ req' = [req EXCEPT ![p].site = s]
             /\ Written(p, 201)

UpdateSite(p) ==
    /\ pc[p] = "update_site"
    /\ LET s == req[p].site
           name == req[p].name IN
       \/ name = Nil /\ Refuse(p, 400)
       \/ name # Nil /\ s \notin LiveSites /\ Refuse(p, 404)
       \/ name # Nil /\ s \in LiveSites /\ NameTaken(name, s) /\ Refuse(p, 500)
       \/ name # Nil /\ RenameSite(s, name) /\ Written(p, 200) /\ UNCHANGED req

DeleteSite(p) ==
    /\ pc[p] = "delete_site"
    /\ \/ req[p].site \notin LiveSites /\ Refuse(p, 404)
       \/ RemoveSite(req[p].site) /\ Written(p, 204) /\ UNCHANGED req
-----------------------------------------------------------------------------
(* Subnets: validateSite, ParsePrefix, the write, and FindByID to read     *)
(* back the row with its count of addresses.                               *)

\* Faulty variant of ValidateSite: what the body leaves out is not missed.
ValidateSiteIfGiven(p) ==
    /\ pc[p] = "validate_site"
    /\ LET q == req[p] IN
       \/ q.site \notin LiveSites \cup {Nil} /\ Refuse(p, 404)
       \/ /\ q.site \in LiveSites \cup {Nil}
          /\ Proceed(p, SubnetWrite(q.op))

ValidateSite(p) ==
    /\ pc[p] = "validate_site"
    /\ LET q == req[p] IN
       \/ q.site = Nil /\ Refuse(p, 400)
       \/ q.site # Nil /\ q.site \notin LiveSites /\ Refuse(p, 404)
       \/ /\ q.site \in LiveSites
          /\ q.op # "AssignSite" /\ q.cidr = Nil
          /\ Refuse(p, 400)
       \/ /\ q.site \in LiveSites
          /\ q.op = "AssignSite" \/ q.cidr # Nil
          /\ Proceed(p, SubnetWrite(q.op))

CreateSubnet(p) ==
    /\ pc[p] = "insert_subnet"
    /\ LET q == req[p] IN
       \/ ~SubnetStorable(q.cidr, q.site) /\ Refuse(p, 500)
       \/ \E n \in SubnetIds :
             /\ InsertSubnet(n, q.cidr, q.site)
             /\ req' = [req EXCEPT ![p].subnet = n]
             /\ WrittenSubnet(p)

UpdateSubnet(p) ==
    /\ pc[p] = "update_subnet"
    /\ LET q == req[p] IN
       \/ q.cidr \in HostBitCidrs /\ Refuse(p, 500)
       \/ q.cidr \notin HostBitCidrs /\ q.subnet \notin LiveSubnets /\ Refuse(p, 404)
       \/ q.subnet \in LiveSubnets /\ ~SubnetStorable(q.cidr, q.site) /\ Refuse(p, 500)
       \/ /\ RewriteSubnet(q.subnet, q.cidr, q.site)
          /\ WrittenSubnet(p)
          /\ UNCHANGED req

AssignSubnetSite(p) ==
    /\ pc[p] = "assign_site"
    /\ LET q == req[p] IN
       \/ q.subnet \notin LiveSubnets /\ Refuse(p, 404)
       \/ q.subnet \in LiveSubnets /\ q.site \notin LiveSites /\ Refuse(p, 500)
       \/ /\ MoveSubnet(q.subnet, q.site)
          /\ WrittenSubnet(p)
          /\ UNCHANGED req

\* FindByID after the write has been committed: if the row has gone since,
\* the answer is 404 although the write took place.
ReadBack(p) ==
    /\ pc[p] = "read_back"
    /\ \/ req[p].subnet \notin LiveSubnets /\ Refuse(p, 404)
       \/ /\ req[p].subnet \in LiveSubnets
          /\ Refuse(p, IF req[p].op = "CreateSubnet" THEN 201 ELSE 200)

\* Faulty variant of DeleteSubnet: it does not ask whether a row was deleted.
DeleteSubnetBlindly(p) ==
    /\ pc[p] = "delete_subnet"
    /\ \/ req[p].subnet \notin LiveSubnets /\ Refuse(p, 204)
       \/ RemoveSubnet(req[p].subnet) /\ Written(p, 204) /\ UNCHANGED req

DeleteSubnet(p) ==
    /\ pc[p] = "delete_subnet"
    /\ \/ req[p].subnet \notin LiveSubnets /\ Refuse(p, 404)
       \/ RemoveSubnet(req[p].subnet) /\ Written(p, 204) /\ UNCHANGED req
-----------------------------------------------------------------------------
(* Addresses.                                                              *)

\* Faulty variant of FindSubnet: CreateIP does not validate the address.
FindSubnetOnly(p) ==
    /\ pc[p] = "find_subnet"
    /\ LET q == req[p] IN
       \/ q.subnet \notin LiveSubnets /\ Refuse(p, 404)
       \/ /\ q.subnet \in LiveSubnets
          /\ Proceed(p, IF q.op = "CreateIP" THEN "insert_ip" ELSE "find_ip")

\* FindByID of the subnet; CreateIP then parses the address and validates it
\* against the CIDR it has just read.
FindSubnet(p) ==
    /\ pc[p] = "find_subnet"
    /\ LET q == req[p]
           accepted == q.ip # Nil /\ q.ip \in Usable[subnets[q.subnet].cidr] IN
       \/ q.subnet \notin LiveSubnets /\ Refuse(p, 404)
       \/ /\ q.subnet \in LiveSubnets
          /\ q.op = "CreateIP" /\ ~accepted
          /\ Refuse(p, 400)
       \/ /\ q.subnet \in LiveSubnets
          /\ q.op = "CreateIP" /\ accepted
          /\ Proceed(p, "insert_ip")
       \/ /\ q.subnet \in LiveSubnets
          /\ q.op = "UpdateIP"
          /\ Proceed(p, "find_ip")

\* unique_ip is answered with 400, a subnet deleted meanwhile with 500.
CreateIP(p) ==
    /\ pc[p] = "insert_ip"
    /\ LET q == req[p] IN
       \/ q.subnet \in LiveSubnets /\ AddressTaken(q.ip, q.subnet) /\ Refuse(p, 400)
       \/ q.subnet \notin LiveSubnets /\ Refuse(p, 500)
       \/ \E i \in IpIds :
             /\ InsertIp(i, q.ip, q.hostname, q.subnet)
             /\ req' = [req EXCEPT ![p].id = i]
             /\ Written(p, 201)

\* Faulty variant of FindIp: the address is looked up by id alone.
FindIpAnywhere(p) ==
    /\ pc[p] = "find_ip"
    /\ \/ req[p].id \notin LiveIps /\ Refuse(p, 404)
       \/ req[p].id \in LiveIps /\ Proceed(p, "update_ip")

FindIp(p) ==
    /\ pc[p] = "find_ip"
    /\ LET q == req[p]
           found == q.id \in LiveIps /\ ips[q.id].subnet = q.subnet IN
       \/ ~found /\ Refuse(p, 404)
       \/ found /\ Proceed(p, "update_ip")

\* Faulty variant of UpdateIPHostname: it does not ask whether a row was updated.
UpdateIPHostnameBlindly(p) ==
    /\ pc[p] = "update_ip"
    /\ \/ req[p].id \notin LiveIps /\ Refuse(p, 200)
       \/ RenameIp(req[p].id, req[p].hostname) /\ Written(p, 200) /\ UNCHANGED req

UpdateIPHostname(p) ==
    /\ pc[p] = "update_ip"
    /\ \/ req[p].id \notin LiveIps /\ Refuse(p, 404)
       \/ RenameIp(req[p].id, req[p].hostname) /\ Written(p, 200) /\ UNCHANGED req

DeleteIP(p) ==
    /\ pc[p] = "delete_ip"
    /\ LET q == req[p] IN
       \/ ~(q.id \in LiveIps /\ ips[q.id].subnet = q.subnet) /\ Refuse(p, 404)
       \/ RemoveIp(q.id, q.subnet) /\ Written(p, 204) /\ UNCHANGED req
-----------------------------------------------------------------------------
Step(p) ==
    \/ Begin(p) \/ Fail(p)
    \/ CreateSite(p) \/ UpdateSite(p) \/ DeleteSite(p)
    \/ ValidateSite(p) \/ CreateSubnet(p) \/ UpdateSubnet(p) \/ AssignSubnetSite(p)
    \/ ReadBack(p) \/ DeleteSubnet(p)
    \/ FindSubnet(p) \/ CreateIP(p) \/ FindIp(p) \/ UpdateIPHostname(p) \/ DeleteIP(p)

Next == \E p \in Procs : Step(p)

Spec == Init /\ [][Next]_vars
-----------------------------------------------------------------------------
(* Properties.                                                             *)

\* validateIPInSubnet runs before every INSERT of an address: each address
\* row was usable in a CIDR that its subnet has had (network_service.go:160).
EveryAddressWasUsable ==
    \A i \in LiveIps : \E c \in cidrsHeld[ips[i].subnet] : ips[i].ip \in Usable[c]

\* p's last request was op, and it was answered with success.
Succeeded(p, op) == pc[p] = "idle" /\ req[p].op = op /\ code[p] \in {201, 204}

\* Of several DELETEs of one thing at most one is answered 204, and of
\* several creations each 201 names a row of its own, however the requests
\* interleave.
AnswersAreExclusive ==
    \A p, r \in Procs : \A op \in Ops :
       p # r /\ Succeeded(p, op) /\ Succeeded(r, op) =>
          /\ op \in {"CreateSite", "DeleteSite"} => req[p].site # req[r].site
          /\ op \in {"CreateSubnet", "DeleteSubnet"} => req[p].subnet # req[r].subnet
          /\ op \in {"CreateIP", "DeleteIP"} => req[p].id # req[r].id

\* An answer tells what became of the request, whatever others did between its
\* statements: success means that it wrote, and what it deleted stays deleted;
\* 400, so also the one for unique_ip (ip_repository.go:63), and 404 mean that
\* it wrote nothing.  Only a subnet may be written and yet answered 404, when
\* another request has deleted it before it could be read back
\* (subnet_repository.go:58).  500 leaves everything open.
AnswersAreTruthful ==
    \A p \in Procs : LET q == req[p] IN
       pc[p] = "idle" /\ q.op # "none" =>
          /\ code[p] \in {200, 201, 204} => wrote[p]
          /\ wrote[p] /\ code[p] \in {400, 404} =>
                code[p] = 404 /\ q.op \in SubnetWrites /\ subnets[q.subnet] = Deleted
          /\ wrote[p] /\ q.op = "DeleteSite" => sites[q.site] = Deleted
          /\ wrote[p] /\ q.op = "DeleteSubnet" => subnets[q.subnet] = Deleted
          /\ wrote[p] /\ q.op = "DeleteIP" => ips[q.id] = Deleted
          /\ wrote[p] /\ q.op = "CreateIP" /\ ips[q.id] # Deleted =>
                ips[q.id].ip = q.ip /\ ips[q.id].subnet = q.subnet

\* An address row changes or goes only through a request whose path names
\* the subnet it belongs to (PATCH and DELETE /subnets/{id}/ips/{uuid}), or
\* with that subnet: UPDATE goes by id alone and relies on an earlier read.
TouchedThroughItsSubnet ==
    [][\A i \in LiveIps : ips'[i] # ips[i] =>
          \/ subnets'[ips[i].subnet] = Deleted
          \/ \E p \in Procs :
                /\ pc[p] \in {"update_ip", "delete_ip"} /\ pc'[p] = "idle"
                /\ req[p].id = i
                /\ req[p].subnet = ips[i].subnet]_vars

\* CreateIP "rejects an IP outside the subnet" (network_service_test.go:185):
\* an address is not inserted unless the subnet's CIDR takes it.
InsertedAddressIsUsable ==
    [][\A i \in IpIds : ips[i] = Unused /\ ips'[i] # Unused =>
          ips'[i].ip \in Usable[subnets[ips'[i].subnet].cidr]]_vars
=============================================================================
