------------------------- MODULE DiscoveryViewProofs -------------------------
(***************************************************************************)
(* What DiscoveryView says of the answers that are put together from       *)
(* several statements, for any number of runners, Services and addresses   *)
(* that change meanwhile.  That the links were sound when they were read   *)
(* is the invariant of DiscoveryProofs.                                    *)
(***************************************************************************)
EXTENDS DiscoveryView, DiscoveryProofs

Reading == step \notin Answers \cup {"idle"}

\* Nothing that was so since the request began has been forgotten.
HistoryInv ==
    /\ Reading => Exact \subseteq exact /\ Uids \ Visible \subseteq hidden
    /\ gone \subseteq hidden

\* What has not been read yet is blank.
BlankInv ==
    /\ step \in {"idle", "services"} => services = {} /\ parts = Unread.parts /\ seen = Unread.seen
    /\ step \in {"idle", "ips", "enrichments"} => enriched = {}
    /\ step = "idle" => asked = Nil
    /\ step \in {"ips", "enrichments", "ips_answer"} => asked \in IpIds

\* Every match that was read was one.
MatchInv ==
    /\ \A l \in Literals :
          seen[l] # Nil /\ seen[l].status = "matched" =>
             seen[l].link # Nil /\ <<l[1], seen[l].link>> \in exact
    /\ \A u \in enriched : <<u, asked>> \in exact

\* What has been read is complete, but for what was hidden at some time.
CompleteInv ==
    /\ step \in {"ports", "hostnames", "services_answer"} =>
          \A l \in Literals : l[1] \in services \ hidden => seen[l] # Nil
    /\ step \in {"hostnames", "services_answer"} => services \ hidden \subseteq parts["ports"]
    /\ step = "services_answer" => services \ hidden \subseteq parts["hostnames"]

ViewInv == ViewTypeOK /\ HistoryInv /\ BlankInv /\ MatchInv /\ CompleteInv

-----------------------------------------------------------------------------
(* What a read returns.                                                    *)

\* ListAllServicesBySubnetID: an address that is shown as matched is one.
LEMMA ShownMatches ==
    ASSUME Inv, NEW l \in Literals, l[1] \in Active
    PROVE  /\ AsShown(l) \in Matches
           /\ AsShown(l).status = "matched" =>
                 AsShown(l).link # Nil /\ <<l[1], AsShown(l).link>> \in Exact
<1>1. addresses[l] \in Matches /\ SoundLink(addresses[l], l)
  BY DEF Inv, TypeOK, RowsInv, CommittedInv
<1>2. l[2] \in AddressesOf[l[1]]
  BY DEF Literals
<1>3. CASE addresses[l].status = "matched" /\ addresses[l].link # Nil
           /\ place[addresses[l].link] = "inside"
  <2>1. AsShown(l) = addresses[l]
    BY <1>3 DEF AsShown
  <2>2. addresses[l].link \in IpIds /\ IpAddress[addresses[l].link] = l[2]
    BY <1>1, <1>3, RowsAreNotNil DEF SoundLink, Matches
  <2>3. <<l[1], addresses[l].link>> \in Exact
    BY <1>2, <1>3, <2>2 DEF Exact
  <2>4. QED
    BY <1>1, <1>3, <2>1, <2>3
<1>4. CASE addresses[l].status = "matched"
           /\ (addresses[l].link = Nil \/ place[addresses[l].link] # "inside")
  <2>1. AsShown(l) = [status |-> "unmatched", link |-> Nil]
    BY <1>4 DEF AsShown
  <2>2. QED
    BY <2>1 DEF Matches
<1>5. CASE addresses[l].status # "matched"
  BY <1>1, <1>5 DEF AsShown
<1>6. QED
  BY <1>3, <1>4, <1>5

\* ListServicesBySubnetID: so are the Services linked to an address.
LEMMA EnrichingMatches ==
    ASSUME Inv, NEW i \in IpIds
    PROVE  Enriching(i) \subseteq Uids /\ \A u \in Enriching(i) : <<u, i>> \in Exact
<1> SUFFICES ASSUME NEW u \in Enriching(i) PROVE u \in Uids /\ <<u, i>> \in Exact
  OBVIOUS
<1>1. u \in Active /\ place[i] = "inside"
  BY DEF Enriching
<1>2. PICK l \in Literals : l[1] = u /\ addresses[l] # Nil /\ addresses[l].link = i
  BY DEF Enriching
<1>3. l[2] \in AddressesOf[u]
  BY <1>2 DEF Literals
<1>4. SoundLink(addresses[l], l) /\ i # Nil
  BY DiscoveryConstants DEF Inv, CommittedInv
<1>5. IpAddress[i] = l[2]
  BY <1>2, <1>4 DEF SoundLink
<1>6. QED
  BY <1>1, <1>3, <1>5 DEF Exact, Active

LEMMA VisibleIsActive == Visible \subseteq Active /\ Active \subseteq Uids
  BY DEF Visible, Active

LEMMA UnreadTyped ==
    /\ Unread.parts = [p \in Parts |-> {}] /\ Unread.seen = NoLinks
    /\ Unread.seen \in [Literals -> Matches \cup {Nil}]
    /\ \A l \in Literals : Unread.seen[l] = Nil
  BY DEF Unread, NoLinks
-----------------------------------------------------------------------------
(* The steps.                                                              *)

\* The runners and the clients go on as if nobody read.
LEMMA ViewNextIsNext == ViewNext => [Next]_vars
  BY DEF ViewNext, Meanwhile

LEMMA ViewInvInit == ViewInit => ViewInv
<1> SUFFICES ASSUME ViewInit PROVE ViewInv
  OBVIOUS
<1> USE DEF ViewInit
<1>1. ViewTypeOK
  BY UnreadTyped DEF ViewTypeOK, Steps
<1>2. HistoryInv /\ BlankInv
  BY DEF HistoryInv, BlankInv, Reading
<1>3. MatchInv /\ CompleteInv
  BY UnreadTyped DEF MatchInv, CompleteInv
<1>4. QED
  BY <1>1, <1>2, <1>3 DEF ViewInv

\* Only Services that were read are among those whose row has gone.
LEMMA GoneStep ==
    ASSUME ViewInv, ViewNext
    PROVE  /\ gone' \subseteq services'
           /\ step' = "idle" => gone' = {}
           /\ \A u \in gone' : u \in gone \/ (u \in services /\ rows'[u] = Nil)
<1>1. gone' = IF step' = "idle" THEN {} ELSE gone \cup {u \in services : rows'[u] = Nil}
  BY DEF ViewNext, RowsGo
<1>2. gone \subseteq services
  BY DEF ViewInv, ViewTypeOK
<1>3. ASSUME step' # "idle"
      PROVE  services \subseteq services'
  <2>1. CASE ReadServices
    BY <2>1 DEF ReadServices, ViewInv, BlankInv
  <2>2. CASE UNCHANGED services
    BY <2>2
  <2>3. QED
    BY <1>3, <2>1, <2>2 DEF ViewNext, Request, GetSubnet, ReadAddresses, ReadPart, FindSubnetOf,
                            ReadIps, ReadEnrichments, RequestEnds, Blank, request
<1>4. QED
  BY <1>1, <1>2, <1>3

\* The history only grows during a request, and what it should hold it holds.
LEMMA HistoryStep ==
    ASSUME Inv, Inv', ViewInv, ViewNext
    PROVE  /\ HistoryInv' /\ gone' \subseteq services'
           /\ exact' \subseteq Uids \X IpIds /\ hidden' \subseteq Uids
           /\ step' # "idle" => exact \subseteq exact' /\ hidden \subseteq hidden'
<1>0. /\ gone' \subseteq services' /\ (step' = "idle" => gone' = {})
      /\ \A u \in gone' : u \in gone \/ (u \in services /\ rows'[u] = Nil)
  BY GoneStep
<1>1. exact \subseteq Uids \X IpIds /\ hidden \subseteq Uids
  BY DEF ViewInv, ViewTypeOK
<1>2. Exact' \subseteq Uids \X IpIds
  BY DEF Exact, Active
<1>3. Remember
  BY DEF ViewNext
<1>4. CASE step' = "idle"
  <2>1. step' \notin Answers
    BY <1>4 DEF Answers
  <2>2. exact' = {} /\ hidden' = {}
    BY <1>3, <1>4, <2>1 DEF Remember
  <2>3. QED
    BY <1>0, <1>4, <2>2 DEF HistoryInv, Reading
<1>5. CASE step' \in Answers
  <2>1. step' # "idle"
    BY <1>5 DEF Answers
  <2>2. UNCHANGED <<exact, hidden>>
    BY <1>3, <1>5, <2>1 DEF Remember
  <2>3. Request /\ UNCHANGED rows /\ UNCHANGED subnet /\ Reading
    BY <1>5, <2>1 DEF ViewNext, Request, GetSubnet, ReadServices, ReadAddresses, ReadPart,
       FindSubnetOf, ReadIps, ReadEnrichments, RequestEnds, Blank, MoveSubnet, Meanwhile,
       Reading, Answers, Parts, request, vars, store
  <2>4. gone' \subseteq hidden'
    <3>1. \A u \in services : rows[u] = Nil => u \in Uids \ Visible
      BY DEF Visible, Active, ViewInv, ViewTypeOK
    <3>2. QED
      BY <1>0, <2>2, <2>3, <3>1 DEF ViewInv, HistoryInv
  <2>5. QED
    BY <1>0, <1>1, <1>5, <2>2, <2>4 DEF HistoryInv, Reading
<1>6. CASE step' # "idle" /\ step' \notin Answers
  <2>1. exact' = exact \cup Exact' /\ hidden' = hidden \cup (Uids \ Visible')
    BY <1>3, <1>6 DEF Remember
  <2>2. \A u \in services : rows'[u] = Nil => u \in Uids \ Visible'
    BY DEF Visible, Active, ViewInv, ViewTypeOK
  <2>3. gone' \subseteq hidden'
    BY <1>0, <2>1, <2>2 DEF ViewInv, HistoryInv
  <2>4. QED
    BY <1>0, <1>1, <1>2, <2>1, <2>3 DEF HistoryInv
<1>7. QED
  BY <1>4, <1>5, <1>6

\* Between two statements nothing that was read changes.
LEMMA MeanwhileStep ==
    ASSUME Inv, Inv', ViewInv, ViewNext, UNCHANGED request,
           subnet' \in {"inside", "outside", "deleted"}
    PROVE  ViewInv'
<1>1. HistoryInv' /\ gone' \subseteq services' /\ exact' \subseteq Uids \X IpIds /\ hidden' \subseteq Uids
  BY HistoryStep
<1>2. CASE step = "idle"
  <2>1. \A l \in Literals : seen[l] = Nil
    BY <1>2, UnreadTyped DEF ViewInv, BlankInv
  <2>2. MatchInv'
    BY <1>2, <2>1 DEF MatchInv, ViewInv, BlankInv, request
  <2>3. QED
    BY <1>1, <1>2, <2>2 DEF ViewInv, ViewTypeOK, BlankInv, CompleteInv, request
<1>3. CASE step # "idle"
  <2>1. exact \subseteq exact' /\ hidden \subseteq hidden'
    BY <1>3, HistoryStep DEF request
  <2>2. MatchInv'
    BY <2>1 DEF MatchInv, ViewInv, request
  <2>3. CompleteInv'
    BY <2>1 DEF CompleteInv, ViewInv, request
  <2>4. QED
    BY <1>1, <2>2, <2>3 DEF ViewInv, ViewTypeOK, BlankInv, request
<1>4. QED
  BY <1>2, <1>3

LEMMA BlankStep ==
    ASSUME Inv, Inv', ViewInv, ViewNext, Blank, UNCHANGED subnet
    PROVE  ViewInv'
<1>1. HistoryInv' /\ gone' \subseteq services' /\ exact' \subseteq Uids \X IpIds /\ hidden' \subseteq Uids
  BY HistoryStep
<1>2. ViewTypeOK'
  BY <1>1, UnreadTyped DEF Blank, ViewTypeOK, ViewInv, Steps
<1>3. BlankInv' /\ CompleteInv'
  BY DEF Blank, BlankInv, CompleteInv
<1>4. MatchInv'
  BY UnreadTyped DEF Blank, MatchInv
<1>5. QED
  BY <1>1, <1>2, <1>3, <1>4 DEF ViewInv

LEMMA ReadAddressesStep ==
    ASSUME Inv, Inv', ViewInv, ViewNext, ReadAddresses, UNCHANGED <<vars, subnet>>
    PROVE  ViewInv'
<1> USE DEF ReadAddresses
<1>1. /\ HistoryInv' /\ gone' \subseteq services' /\ exact' \subseteq Uids \X IpIds /\ hidden' \subseteq Uids
      /\ exact \subseteq exact' /\ hidden \subseteq hidden'
  BY HistoryStep
<1>2. Exact \subseteq exact /\ Uids \ Visible \subseteq hidden /\ gone \subseteq hidden
  BY DEF ViewInv, HistoryInv, Reading, Answers
<1>3. ASSUME NEW l \in Literals
      PROVE  /\ seen'[l] = IF l[1] \in Shown THEN AsShown(l) ELSE Nil
             /\ seen'[l] \in Matches \cup {Nil}
             /\ seen'[l] # Nil => l[1] \in services
             /\ seen'[l] # Nil /\ seen'[l].status = "matched" =>
                   seen'[l].link # Nil /\ <<l[1], seen'[l].link>> \in exact
             /\ l[1] \in services \ hidden => seen'[l] # Nil
  <2>1. seen'[l] = IF l[1] \in Shown THEN AsShown(l) ELSE Nil
    OBVIOUS
  <2>2. CASE l[1] \in Shown
    BY <1>2, <2>1, <2>2, ShownMatches, VisibleIsActive, RowsAreNotNil DEF Shown
  <2>3. CASE l[1] \notin Shown
    BY <1>2, <2>1, <2>3, LiteralsArePairs DEF Shown
  <2>4. QED
    BY <2>1, <2>2, <2>3
<1>4. seen' \in [Literals -> Matches \cup {Nil}]
  <2>1. seen' = [l \in Literals |-> seen'[l]]
    OBVIOUS
  <2>2. QED
    BY <1>3, <2>1
<1>5. ViewTypeOK'
  BY <1>1, <1>3, <1>4 DEF ViewTypeOK, ViewInv, Steps, Parts
<1>6. BlankInv'
  BY DEF BlankInv, ViewInv
<1>7. MatchInv'
  BY <1>1, <1>3 DEF MatchInv, ViewInv
<1>8. CompleteInv'
  BY <1>1, <1>3 DEF CompleteInv
<1>9. QED
  BY <1>1, <1>5, <1>6, <1>7, <1>8 DEF ViewInv

LEMMA ReadPartStep ==
    ASSUME Inv, Inv', ViewInv, ViewNext, NEW p \in Parts, ReadPart(p), UNCHANGED <<vars, subnet>>
    PROVE  ViewInv'
<1> USE DEF ReadPart, Parts
<1>1. /\ HistoryInv' /\ gone' \subseteq services' /\ exact' \subseteq Uids \X IpIds /\ hidden' \subseteq Uids
      /\ exact \subseteq exact' /\ hidden \subseteq hidden'
  BY HistoryStep
<1>2. Uids \ Visible \subseteq hidden /\ gone \subseteq hidden
  BY DEF ViewInv, HistoryInv, Reading, Answers
<1>3. parts \in [Parts -> SUBSET services] /\ services \subseteq Uids
  BY DEF ViewInv, ViewTypeOK
<1>4. parts'[p] = Shown /\ \A q \in Parts \ {p} : parts'[q] = parts[q]
  BY <1>3
<1>5. services \ hidden \subseteq parts'[p]
  BY <1>2, <1>3, <1>4 DEF Shown
<1>6. parts' \in [Parts -> SUBSET services]
  BY <1>3 DEF Shown
<1>7. ViewTypeOK'
  BY <1>1, <1>6 DEF ViewTypeOK, ViewInv, Steps, Answers
<1>8. BlankInv' /\ MatchInv'
  BY <1>1 DEF BlankInv, MatchInv, ViewInv
<1>9. CompleteInv'
  <2>1. CASE p = "ports"
    BY <1>1, <1>5, <2>1 DEF CompleteInv, ViewInv
  <2>2. CASE p = "hostnames"
    BY <1>1, <1>4, <1>5, <2>2 DEF CompleteInv, ViewInv
  <2>3. QED
    BY <2>1, <2>2
<1>10. QED
  BY <1>1, <1>7, <1>8, <1>9 DEF ViewInv

LEMMA ReadEnrichmentsStep ==
    ASSUME Inv, Inv', ViewInv, ViewNext, ReadEnrichments, UNCHANGED <<vars, subnet>>
    PROVE  ViewInv'
<1> USE DEF ReadEnrichments
<1>1. /\ HistoryInv' /\ gone' \subseteq services' /\ exact' \subseteq Uids \X IpIds /\ hidden' \subseteq Uids
      /\ exact \subseteq exact' /\ hidden \subseteq hidden'
  BY HistoryStep
<1>2. Exact \subseteq exact
  BY DEF ViewInv, HistoryInv, Reading, Answers
<1>3. asked \in IpIds
  BY DEF ViewInv, BlankInv
<1>4. enriched' \subseteq Uids /\ \A u \in enriched' : <<u, asked>> \in exact
  BY <1>2, <1>3, EnrichingMatches
<1>5. ViewTypeOK'
  BY <1>1, <1>4 DEF ViewTypeOK, ViewInv, Steps, Answers
<1>6. BlankInv' /\ CompleteInv'
  BY <1>3 DEF BlankInv, CompleteInv
<1>7. MatchInv'
  BY <1>1, <1>4 DEF MatchInv, ViewInv
<1>8. QED
  BY <1>1, <1>5, <1>6, <1>7 DEF ViewInv

\* The statements that read nothing the answer shows, and the list of Services.
LEMMA OpeningStep ==
    ASSUME Inv, Inv', ViewInv, ViewNext, UNCHANGED <<vars, subnet>>,
           GetSubnet \/ ReadServices \/ (\E i \in IpIds : FindSubnetOf(i)) \/ ReadIps
    PROVE  ViewInv'
<1> USE DEF GetSubnet, ReadServices, FindSubnetOf, ReadIps
<1>1. /\ HistoryInv' /\ gone' \subseteq services' /\ exact' \subseteq Uids \X IpIds /\ hidden' \subseteq Uids
      /\ step' # "idle" /\ exact \subseteq exact'
  BY HistoryStep
<1>2. ViewTypeOK'
  <2>1. CASE ReadServices
    <3>1. parts = [p \in Parts |-> {}] /\ \A l \in Literals : seen[l] = Nil
      BY <2>1, UnreadTyped DEF ViewInv, BlankInv
    <3>2. parts' \in [Parts -> SUBSET services']
      BY <2>1, <3>1
    <3>3. services' \subseteq Uids
      BY <2>1, VisibleIsActive
    <3>4. QED
      BY <1>1, <2>1, <3>1, <3>2, <3>3 DEF ViewTypeOK, ViewInv, Steps
  <2>2. CASE ~ReadServices
    BY <1>1, <2>2 DEF ViewTypeOK, ViewInv, Steps
  <2>3. QED
    BY <2>1, <2>2
<1>3. BlankInv' /\ CompleteInv'
  BY DEF BlankInv, CompleteInv, ViewInv
<1>4. MatchInv'
  <2>1. CASE \E i \in IpIds : FindSubnetOf(i)
    BY <1>1, <2>1 DEF MatchInv, BlankInv, ViewInv
  <2>2. CASE UNCHANGED asked
    BY <1>1, <2>2 DEF MatchInv, ViewInv
  <2>3. QED
    BY <2>1, <2>2
<1>5. QED
  BY <1>1, <1>2, <1>3, <1>4 DEF ViewInv

LEMMA ViewInvStep == Inv /\ Inv' /\ ViewInv /\ [ViewNext]_viewVars => ViewInv'
<1> SUFFICES ASSUME Inv, Inv', ViewInv, [ViewNext]_viewVars PROVE ViewInv'
  OBVIOUS
<1>1. CASE ViewNext /\ Request /\ UNCHANGED <<vars, subnet>>
  BY <1>1, OpeningStep, ReadAddressesStep, ReadPartStep, ReadEnrichmentsStep, BlankStep
     DEF Request, RequestEnds
<1>2. CASE ViewNext /\ (MoveSubnet \/ Meanwhile) /\ UNCHANGED request
  <2>1. subnet' \in {"inside", "outside", "deleted"}
    BY <1>2 DEF MoveSubnet, Meanwhile, ViewInv, ViewTypeOK
  <2>2. QED
    BY <1>2, <2>1, MeanwhileStep
<1>3. CASE UNCHANGED viewVars
  <2>1. UNCHANGED <<rows, place, subnet, request, gone, exact, hidden>>
    BY <1>3 DEF viewVars, vars, store, environment, ipam
  <2>2. HistoryInv'
    BY <2>1 DEF HistoryInv, Reading, Exact, Active, Visible, ViewInv, request
  <2>3. QED
    BY <2>1, <2>2 DEF ViewInv, ViewTypeOK, BlankInv, MatchInv, CompleteInv, request
<1>4. QED
  BY <1>1, <1>2, <1>3 DEF ViewNext
-----------------------------------------------------------------------------
(* The theorems.                                                           *)

LEMMA ViewImpliesSpec == ViewSpec => Spec
<1>1. ViewInit => Init
  BY DEF ViewInit
<1>2. [ViewNext]_viewVars => [Next]_vars
  BY ViewNextIsNext DEF viewVars
<1>3. QED
  BY <1>1, <1>2, PTL DEF ViewSpec, Spec

LEMMA ViewInvariance == ViewSpec => [](Inv /\ ViewInv)
  BY ViewImpliesSpec, Invariance, ViewInvInit, ViewInvStep, PTL DEF ViewSpec

\* Every variable of the requests keeps its type, and no row is shown of a
\* Service that was not read.
THEOREM ViewTypeCorrect == ViewSpec => []ViewTypeOK
<1>1. ViewInv => ViewTypeOK
  BY DEF ViewInv
<1>2. QED
  BY <1>1, ViewInvariance, PTL

\* GET /ips and GET /kubernetes-services read the same links in two SQL
\* queries, and at every moment both show the same matches.
THEOREM ViewsAlwaysAgree == ViewSpec => []ViewsAgree
<1>1. Inv => ViewsAgree
  <2> SUFFICES ASSUME Inv, NEW i \in IpIds, NEW u \in Active
               PROVE  u \in Enriching(i) <=>
                         \E l \in Literals :
                            l[1] = u /\ addresses[l] # Nil /\ AsShown(l) # Nil
                            /\ AsShown(l).status = "matched" /\ AsShown(l).link = i
    BY DEF ViewsAgree, Enriching
  <2>1. i # Nil
    BY DiscoveryConstants
  <2>2. ASSUME NEW l \in Literals, l[1] = u
        PROVE  (place[i] = "inside" /\ addresses[l] # Nil
                /\ addresses[l].status = "matched" /\ addresses[l].link = i)
               <=> (addresses[l] # Nil /\ AsShown(l) # Nil
                    /\ AsShown(l).status = "matched" /\ AsShown(l).link = i)
    <3>1. AsShown(l) # Nil
      BY <2>2, ShownMatches, RowsAreNotNil
    <3>2. CASE addresses[l].status = "matched"
               /\ (addresses[l].link = Nil \/ place[addresses[l].link] # "inside")
      <4>1. AsShown(l) = [status |-> "unmatched", link |-> Nil]
        BY <3>2 DEF AsShown
      <4>2. QED
        BY <2>1, <3>2, <4>1
    <3>3. CASE ~(addresses[l].status = "matched"
                 /\ (addresses[l].link = Nil \/ place[addresses[l].link] # "inside"))
      <4>1. AsShown(l) = addresses[l]
        BY <3>3 DEF AsShown
      <4>2. QED
        BY <2>1, <3>1, <3>3, <4>1
    <3>4. QED
      BY <3>2, <3>3
  <2>3. QED
    BY <2>2 DEF Enriching
<1>2. QED
  BY <1>1, ViewInvariance, PTL

\* ListServicesBySubnetID and ListAllServicesBySubnetID: each match in an
\* answer was an exact one at some moment of the request, whatever runners and
\* clients did between its statements.
THEOREM MatchesAreExact == ViewSpec => []MatchesWereExact
<1>1. ViewInv => MatchesWereExact
  <2> SUFFICES ASSUME ViewInv PROVE MatchesWereExact
    OBVIOUS
  <2>1. ASSUME NEW u \in services, NEW shown \in Observation(u).addresses,
               shown[2].status = "matched"
        PROVE  shown[2].link # Nil /\ <<u, shown[2].link>> \in exact
    <3>1. PICK l \in Literals : l[1] = u /\ seen[l] # Nil /\ shown = <<l, seen[l]>>
      BY DEF Observation
    <3>2. shown[2] = seen[l]
      BY <3>1
    <3>3. QED
      BY <2>1, <3>1, <3>2 DEF ViewInv, MatchInv
  <2>2. \A u \in enriched : <<u, asked>> \in exact
    BY DEF ViewInv, MatchInv
  <2>3. QED
    BY <2>1, <2>2 DEF MatchesWereExact
<1>2. QED
  BY <1>1, ViewInvariance, PTL

\* kubernetesServiceMatchStatus: only a Service without an address that was
\* read is "no_usable_ip".
LEMMA StatusOfSome ==
    ASSUME ViewInv, NEW l \in Literals, seen[l] # Nil
    PROVE  MatchStatus(l[1]) # "no_usable_ip"
<1> DEFINE statuses == {seen[k].status : k \in {k \in Literals : k[1] = l[1] /\ seen[k] # Nil}}
<1>1. seen[l].status \in statuses
  OBVIOUS
<1>2. statuses \subseteq {"matched", "unmatched", "ambiguous"}
  BY DEF ViewInv, ViewTypeOK, Matches
<1>3. MatchStatus(l[1]) =
        CASE statuses = {} -> "no_usable_ip"
          [] "matched" \in statuses -> "matched"
          [] "matched" \notin statuses /\ "ambiguous" \in statuses -> "ambiguous"
          [] statuses = {"unmatched"} -> "unmatched"
  BY DEF MatchStatus
<1> HIDE DEF statuses
<1>4. statuses # {}
  BY <1>1
<1>5. CASE "matched" \in statuses
  <2>1. MatchStatus(l[1]) = "matched"
    BY <1>3, <1>4, <1>5
  <2>2. QED
    BY <2>1
<1>6. CASE "matched" \notin statuses /\ "ambiguous" \in statuses
  <2>1. MatchStatus(l[1]) = "ambiguous"
    BY <1>3, <1>4, <1>6
  <2>2. QED
    BY <2>1
<1>7. CASE "matched" \notin statuses /\ "ambiguous" \notin statuses
  <2>1. statuses = {"unmatched"}
    BY <1>2, <1>4, <1>7
  <2>2. MatchStatus(l[1]) = "unmatched"
    BY <1>3, <1>4, <1>7, <2>1
  <2>3. QED
    BY <2>2
<1>8. QED
  BY <1>5, <1>6, <1>7

\* ListAllServicesBySubnetID: a Service that stayed in the subnet's sight is
\* shown with its addresses, ports and hostnames, although they are read one
\* after the other while listings are published.
THEOREM OnlyRemovalsAreIncomplete == ViewSpec => []IncompleteOnlyByRemoval
<1>1. ViewInv => IncompleteOnlyByRemoval
  <2> SUFFICES ASSUME ViewInv, step = "services_answer", NEW u \in services \ hidden
               PROVE  /\ Observation(u).match_status = "no_usable_ip" => AddressesOf[u] = {}
                      /\ Observation(u).ports /\ Observation(u).hostnames
    BY DEF IncompleteOnlyByRemoval
  <2>1. Observation(u).ports /\ Observation(u).hostnames
    BY DEF Observation, ViewInv, CompleteInv
  <2>2. Observation(u).match_status = MatchStatus(u)
    BY DEF Observation
  <2>3. ASSUME NEW a \in AddressesOf[u]
        PROVE  MatchStatus(u) # "no_usable_ip"
    <3> DEFINE l == <<u, a>>
    <3>1. u \in Uids
      BY DEF ViewInv, ViewTypeOK
    <3>2. l \in Literals /\ l[1] = u
      BY <3>1 DEF Literals
    <3>3. seen[l] # Nil
      BY <3>2 DEF ViewInv, CompleteInv
    <3>4. QED
      BY <3>2, <3>3, StatusOfSome
  <2>4. QED
    BY <2>1, <2>2, <2>3
<1>2. QED
  BY <1>1, ViewInvariance, PTL
=============================================================================
