---------------------------- MODULE DiscoveryView ----------------------------
(***************************************************************************)
(* What a client is shown of discovery while the runners work:             *)
(*   GET /subnets/{id}/kubernetes-services  the subnet, then four reads:   *)
(*       services, addresses, ports, hostnames (ListAllServicesBySubnetID) *)
(*   GET /subnets/{id}/ips  the subnet, its addresses, and the Services    *)
(*       linked to them (ListServicesBySubnetID)                           *)
(* Each read is a statement of its own, outside any transaction, so that   *)
(* reconciliations, deletions and moves may be committed between them.     *)
(*                                                                         *)
(* There is one request at a time: requests change nothing.  Every Service *)
(* has a port and a hostname.                                              *)
(***************************************************************************)
EXTENDS Discovery

VARIABLES
    subnet,     \* the subnet whose Services are asked for: "inside" the site,
                \* "outside" or "deleted"
    step,       \* the statement the request runs next, or which answer it has
    asked,      \* the address whose subnet's addresses are asked for, or Nil
    services,   \* the Services read
    gone,       \* those of them whose row has been deleted since
    seen,       \* literal -> the address row read, or Nil
    parts,      \* "ports", "hostnames" -> the Services for which some were read
    enriched,   \* the Services read for asked
    exact,      \* history: <<uid, ip>> that matched at some time of the request
    hidden      \* history: Services that were out of the subnet's sight then

request == <<step, asked, services, seen, parts, enriched>>
viewVars == <<vars, subnet, request, gone, exact, hidden>>

Parts == {"ports", "hostnames"}
Answers == {"services_answer", "ips_answer"}
Steps == {"idle", "services", "addresses", "ips", "enrichments"} \cup Parts \cup Answers

\* Only rows of Services that were read find their place in the answer.
ViewTypeOK ==
    /\ subnet \in {"inside", "outside", "deleted"}
    /\ step \in Steps
    /\ asked \in IpIds \cup {Nil}
    /\ services \subseteq Uids /\ gone \subseteq services
    /\ seen \in [Literals -> Matches \cup {Nil}]
    /\ \A l \in Literals : seen[l] # Nil => l[1] \in services
    /\ parts \in [Parts -> SUBSET services]
    /\ enriched \subseteq Uids
    /\ exact \subseteq Uids \X IpIds
    /\ hidden \subseteq Uids

Unread == [asked |-> Nil, services |-> {}, enriched |-> {},
           seen |-> NoLinks, parts |-> [p \in Parts |-> {}]]

\* No request, or one that has answered 404 or 500.
Blank ==
    /\ step' = "idle"
    /\ asked' = Nil /\ services' = {} /\ enriched' = {}
    /\ seen' = Unread.seen /\ parts' = Unread.parts

ViewInit ==
    /\ Init
    /\ subnet = "inside"
    /\ step = "idle"
    /\ asked = Nil /\ services = {} /\ gone = {} /\ enriched = {}
    /\ seen = Unread.seen /\ parts = Unread.parts
    /\ exact = {} /\ hidden = {}
-----------------------------------------------------------------------------
(* The SQL of the reads.                                                   *)

\* kubernetes_sources of the subnet's site JOIN kubernetes_services, active.
Visible == IF subnet = "inside" THEN Active ELSE {}

\* Faulty variants of AsShown: the subnet of the matched address may be in any
\* site; the address is joined and not left joined, so that without a match
\* there is no row.
AsShownInAnySite(l) ==
    LET row == addresses[l] IN
    IF row.status = "matched" /\ row.link = Nil
    THEN [status |-> "unmatched", link |-> Nil] ELSE row

AsShownIfMatched(l) ==
    LET row == addresses[l] IN
    IF row.link = Nil \/ place[row.link] # "inside" THEN Nil ELSE row

\* The CASEs of ListKubernetesServiceAddressesBySubnet: a match counts as long
\* as its address is in a subnet of the source's site.
AsShown(l) ==
    LET row == addresses[l] IN
    IF row.status = "matched" /\ (row.link = Nil \/ place[row.link] # "inside")
    THEN [status |-> "unmatched", link |-> Nil] ELSE row

\* ListMatchedKubernetesServicesBySubnet, its rows for the address i.
Enriching(i) ==
    {u \in Active : /\ place[i] = "inside"
                    /\ \E l \in Literals :
                          /\ l[1] = u /\ addresses[l] # Nil
                          /\ addresses[l].status = "matched" /\ addresses[l].link = i}
-----------------------------------------------------------------------------
(* GET /subnets/{id}/kubernetes-services                                   *)

\* GetSubnet; 404 if it is gone.
GetSubnet ==
    /\ step = "idle"
    /\ subnet # "deleted"
    /\ step' = "services"
    /\ UNCHANGED <<asked, services, seen, parts, enriched>>

ReadServices ==
    /\ step = "services"
    /\ services' = Visible
    /\ step' = "addresses"
    /\ UNCHANGED <<asked, seen, parts, enriched>>

\* The Services read that the rows of a later statement belong to, by the id of
\* their row: one deleted and observed anew has another id.
Shown == (Visible \cap services) \ gone

\* Faulty variant of ReadAddresses: rows of Services that were not read are kept.
ReadAllAddresses ==
    /\ step = "addresses"
    /\ seen' = [l \in Literals |-> IF l[1] \in Visible THEN AsShown(l) ELSE Nil]
    /\ step' = "ports"
    /\ UNCHANGED <<asked, services, parts, enriched>>

ReadAddresses ==
    /\ step = "addresses"
    /\ seen' = [l \in Literals |-> IF l[1] \in Shown THEN AsShown(l) ELSE Nil]
    /\ step' = "ports"
    /\ UNCHANGED <<asked, services, parts, enriched>>

\* Ports, and then hostnames.
ReadPart(p) ==
    /\ step = p
    /\ parts' = [parts EXCEPT ![p] = Shown]
    /\ step' = IF p = "ports" THEN "hostnames" ELSE "services_answer"
    /\ UNCHANGED <<asked, services, seen, enriched>>

\* kubernetesServiceMatchStatus
MatchStatus(u) ==
    LET statuses == {seen[l].status : l \in {k \in Literals : k[1] = u /\ seen[k] # Nil}}
    IN  CASE statuses = {} -> "no_usable_ip"
          [] "matched" \in statuses -> "matched"
          [] "matched" \notin statuses /\ "ambiguous" \in statuses -> "ambiguous"
          [] statuses = {"unmatched"} -> "unmatched"

\* kubernetesServiceObservationsToResponse: what an answer shows of a Service.
Observation(u) ==
    [match_status |-> MatchStatus(u),
     addresses |-> {<<l, seen[l]>> : l \in {k \in Literals : k[1] = u /\ seen[k] # Nil}},
     ports |-> u \in parts["ports"],
     hostnames |-> u \in parts["hostnames"]]
-----------------------------------------------------------------------------
(* GET /subnets/{id}/ips                                                   *)

\* ListIPs, FindByID of the subnet of i.
FindSubnetOf(i) ==
    /\ step = "idle"
    /\ asked' = i
    /\ step' = "ips"
    /\ UNCHANGED <<services, seen, parts, enriched>>

\* ListBySubnetID: i is among the rows, or it is not and nothing of it is shown.
ReadIps ==
    /\ step = "ips"
    /\ place[asked] \in {"inside", "outside"}
    /\ step' = "enrichments"
    /\ UNCHANGED <<asked, services, seen, parts, enriched>>

ReadEnrichments ==
    /\ step = "enrichments"
    /\ enriched' = Enriching(asked)
    /\ step' = "ips_answer"
    /\ UNCHANGED <<asked, services, seen, parts>>

\* A statement fails, an answer has been received, or there is none to speak of.
RequestEnds == step # "idle" /\ Blank
-----------------------------------------------------------------------------
Request ==
    \/ GetSubnet \/ ReadServices \/ ReadAddresses
    \/ \E p \in Parts : ReadPart(p)
    \/ \E i \in IpIds : FindSubnetOf(i)
    \/ ReadIps \/ ReadEnrichments \/ RequestEnds

\* The subnet is assigned to the site or to another, or deleted.
MoveSubnet ==
    /\ subnet' \in IF site THEN {"inside", "outside", "deleted"} ELSE {"outside", "deleted"}
    /\ subnet # "deleted" /\ subnet' # subnet
    /\ step \notin Answers

\* Runners and clients go on meanwhile; the site takes its subnets' binding
\* along.  What they do after the last read does not concern the request.
Meanwhile ==
    /\ step \notin Answers
    /\ Next
    /\ subnet' = IF subnet = "inside" /\ ~site' THEN "outside" ELSE subnet

\* Rows of Services that were read go.
RowsGo == gone' = IF step' = "idle" THEN {} ELSE gone \cup {u \in services : rows'[u] = Nil}

\* An active Service and an address row of the site that has its address.
Exact ==
    {p \in Active \X IpIds : place[p[2]] = "inside" /\ IpAddress[p[2]] \in AddressesOf[p[1]]}

\* What was so when the request began or became so since.
Remember ==
    CASE step' = "idle" -> exact' = {} /\ hidden' = {}
      [] step' \in Answers -> UNCHANGED <<exact, hidden>>
      [] OTHER -> /\ exact' = exact \cup Exact'
                  /\ hidden' = hidden \cup (Uids \ Visible')

ViewNext ==
    /\ \/ Request /\ UNCHANGED <<vars, subnet>>
       \/ MoveSubnet /\ UNCHANGED <<vars, request>>
       \/ Meanwhile /\ UNCHANGED request
    /\ RowsGo /\ Remember

ViewSpec == ViewInit /\ [][ViewNext]_viewVars
-----------------------------------------------------------------------------
(* Properties.                                                             *)

\* The two views of the same links, two SQL queries with conditions of their
\* own, agree at every moment: the Services of the site show the match with i
\* exactly if the address list shows them at i.
ViewsAgree ==
    \A i \in IpIds :
       Enriching(i) = {u \in Active : \E l \in Literals :
                          l[1] = u /\ addresses[l] # Nil /\ AsShown(l) # Nil
                          /\ AsShown(l).status = "matched" /\ AsShown(l).link = i}

\* "Exactly linked" (README.md:298): each match in an answer was one at some
\* moment of the request, between an active Service and an address row of the
\* site with its address, although links are not touched when addresses move,
\* and although the answer is put together from several moments.
MatchesWereExact ==
    /\ step = "services_answer" =>
          \A u \in services : \A shown \in Observation(u).addresses :
             shown[2].status = "matched" =>
                shown[2].link # Nil /\ <<u, shown[2].link>> \in exact
    /\ step = "ips_answer" => \A u \in enriched : <<u, asked>> \in exact

\* "no_usable_ip when none exist" (README.md:302), and declared ports and
\* hostnames are shown: but for a Service that was removed, or whose subnet
\* left the site, between the reads, which loses some of them.
IncompleteOnlyByRemoval ==
    step = "services_answer" => \A u \in services \ hidden :
       /\ Observation(u).match_status = "no_usable_ip" => AddressesOf[u] = {}
       /\ Observation(u).ports /\ Observation(u).hostnames
=============================================================================
