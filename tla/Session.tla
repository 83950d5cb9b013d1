------------------------------- MODULE Session -------------------------------
(***************************************************************************)
(* A subnet's page in the browser (frontend/src/views/SubnetDetailView.tsx *)
(* and its place in App.tsx), the API process that answers its requests,   *)
(* and another client that writes to the same rows.                        *)
(*                                                                         *)
(* The page loads the subnet's addresses when it is opened, once, and from *)
(* then on applies to its records what the answers to its own requests     *)
(* say, in the order in which they arrive.  The page of one subnet turns   *)
(* into that of another, without being made anew, when the user goes       *)
(* through the browser's history.  The load effect has no cleanup: the     *)
(* answer for the subnet that was left is applied too.                     *)
(*                                                                         *)
(* The two requests of the load are one here: they succeed or fail         *)
(* together, and the Services are in DiscoveryView.  Error messages are    *)
(* left out.  Subnets stay, and all take every address: they are of        *)
(* different sites.                                                        *)
(***************************************************************************)
EXTENDS Serve

CONSTANTS
    Subnets, IpIds, Addresses,
    Hostnames,
    Unused, Deleted,
    Blank,          \* the hostname field is empty
    Stored,         \* [IpIds -> row or Unused]: the rows at first
    MaxRequests     \* bound: requests of the page and of the other client

VARIABLES
    ips,        \* id -> row of ip_addresses, Unused or Deleted
    request,    \* slot -> what the page has asked for
    answer,     \* slot -> the records in the answer
    shown,      \* the subnet whose page it is, or Nil: another view
    records, loading, saving,           \* state of the page
    sent,       \* how many requests, for the bound
    clean       \* history: nothing has happened that the page does not expect

page == <<shown, records, loading, saving>>
browser == <<page, request, sent, clean>>
vars == <<serveVars, ips, browser, answer>>

IpRow == [subnet : Subnets, ip : Addresses, hostname : Hostnames \cup {Blank}]
Record == [id : IpIds, ip : Addresses, hostname : Hostnames \cup {Blank}]

ASSUME SessionConstants ==
    /\ Unused # Deleted /\ {Unused, Deleted} \cap IpRow = {}
    /\ Nil \notin Subnets \cup Addresses
    /\ Stored \in [IpIds -> IpRow \cup {Unused}]
    /\ \A i, j \in IpIds :           \* unique_ip
          /\ Unused \notin {Stored[i], Stored[j]}
          /\ Stored[i].subnet = Stored[j].subnet /\ Stored[i].ip = Stored[j].ip
          => i = j
    /\ MaxRequests \in Nat

\* current is FALSE when the page that sent the request is gone.
NoRequest == [subnet |-> Nil, id |-> Nil, ip |-> Nil, hostname |-> Nil, current |-> FALSE]

TypeOK ==
    /\ ServeTypeOK
    /\ ips \in [IpIds -> IpRow \cup {Unused, Deleted}]
    /\ shown \in Subnets \cup {Nil}
    /\ records \subseteq Record
    /\ \A r, s \in records : r.ip = s.ip => r = s
    /\ loading \in BOOLEAN /\ clean \in BOOLEAN
    /\ saving \in Addresses \cup {Nil}
    /\ sent \in 0 .. MaxRequests
    /\ \A q \in Slots :
          /\ stage[q] = "free" <=> request[q] = NoRequest
          /\ request[q].current => shown # Nil
          /\ answer[q] \subseteq Record

Live == {i \in IpIds : ips[i] \notin {Unused, Deleted}}
RecordOf(i) == [id |-> i, ip |-> ips[i].ip, hostname |-> ips[i].hostname]
RowsOf(n) == {RecordOf(i) : i \in {j \in Live : ips[j].subnet = n}}
Taken(n, a) == \E i \in Live : ips[i].subnet = n /\ ips[i].ip = a

\* The page may be open, with what the process before has answered.
Init ==
    /\ ServeInit
    /\ ips = Stored
    /\ request = [q \in Slots |-> NoRequest]
    /\ answer = [q \in Slots |-> {}]
    /\ shown \in Subnets \cup {Nil} /\ records = RowsOf(shown)
    /\ loading = FALSE /\ saving = Nil
    /\ sent = 0
    /\ clean = TRUE

Pending(q) == request[q].current
FreeSlot == CHOOSE q \in Slots : stage[q] = "free" \/ \A p \in Slots : stage[p] # "free"
FreshId == CHOOSE i \in IpIds : ips[i] = Unused \/ \A j \in IpIds : ips[j] # Unused
-----------------------------------------------------------------------------
(* The page.                                                               *)

Ask(m, what) ==
    /\ sent < MaxRequests
    /\ \E q \in Slots :
          /\ q = FreeSlot
          /\ Send(q, m)
          /\ request' = [request EXCEPT ![q] = what]
    /\ sent' = sent + 1
    /\ UNCHANGED <<ips, answer>>

\* The effect's request for the records of n.
Load(n) == Ask("GET", [subnet |-> n, id |-> Nil, ip |-> Nil, hostname |-> Nil, current |-> TRUE])

\* navigate, from another view: the page is made anew, and loads.  A save of
\* the page before may still be on its way.
Open(n) ==
    /\ shown = Nil
    /\ shown' = n
    /\ records' = {} /\ loading' = TRUE /\ saving' = Nil
    /\ clean' = \A q \in Slots : stage[q] = "free" \/ method[q] = "GET"
    /\ Load(n)

\* popstate, from one subnet to another: the effect runs again, and all the
\* rest of the page stays.
Jump(n) ==
    /\ shown \notin {n, Nil}
    /\ shown' = n
    /\ loading' = TRUE
    /\ clean' = FALSE
    /\ Load(n)
    /\ UNCHANGED <<records, saving>>

\* Faulty variant of Leave: what it is waiting for stays its own.
LeaveAlone ==
    /\ shown # Nil
    /\ shown' = Nil
    /\ records' = {} /\ loading' = FALSE /\ saving' = Nil
    /\ UNCHANGED <<serveVars, ips, request, answer, sent, clean>>

\* To another view: what arrives later finds no page.
Leave ==
    /\ shown # Nil
    /\ shown' = Nil
    /\ records' = {} /\ loading' = FALSE /\ saving' = Nil
    /\ request' = [q \in Slots |-> [request[q] EXCEPT !.current = FALSE]]
    /\ UNCHANGED <<serveVars, ips, answer, sent, clean>>

\* map.get(address)
Existing(a) == {r \in records : r.ip = a}

\* save: DELETE for a record whose field was cleared, PATCH for a record, else
\* POST.  Only the button of the address saved last is disabled.
Save(a, h) ==
    /\ shown # Nil /\ ~loading /\ saving # a
    /\ saving' = a
    /\ clean' = (clean /\ \A s \in Slots : Pending(s) => request[s].ip # a)
    /\ \/ /\ Existing(a) = {}
          /\ Ask("POST", [subnet |-> shown, id |-> Nil, ip |-> a, hostname |-> h, current |-> TRUE])
       \/ \E r \in Existing(a) :
             Ask(IF h = Blank THEN "DELETE" ELSE "PATCH",
                 [subnet |-> shown, id |-> r.id, ip |-> a, hostname |-> h, current |-> TRUE])
    /\ UNCHANGED <<shown, records, loading>>

\* Faulty variant of Apply: a failed save leaves the button disabled.
ApplyWithoutFinally(q, ok) ==
    CASE method[q] = "GET" ->
           /\ loading' = FALSE
           /\ records' = IF ok THEN answer[q] ELSE records
           /\ UNCHANGED saving
      [] method[q] = "DELETE" ->
           /\ saving' = IF ok THEN Nil ELSE saving
           /\ records' = IF ok THEN {r \in records : r.id # request[q].id} ELSE records
           /\ UNCHANGED loading
      [] OTHER ->
           /\ saving' = IF ok THEN Nil ELSE saving
           /\ records' = IF ok
                         THEN answer[q] \cup {r \in records : r.ip # request[q].ip} ELSE records
           /\ UNCHANGED loading

\* What the page does with an answer, or with none: setRecords, and finally.
Apply(q, ok) ==
    CASE method[q] = "GET" ->
           /\ loading' = FALSE
           /\ records' = IF ok THEN answer[q] ELSE records
           /\ UNCHANGED saving
      [] method[q] = "DELETE" ->
           /\ saving' = Nil
           /\ records' = IF ok THEN {r \in records : r.id # request[q].id} ELSE records
           /\ UNCHANGED loading
      [] OTHER ->
           /\ saving' = Nil
           /\ records' = IF ok
                         THEN answer[q] \cup {r \in records : r.ip # request[q].ip} ELSE records
           /\ UNCHANGED loading

\* The answer says what the rows are now: none does that is lost, that of a
\* failed load does not, and a save that is answered 500 may be written.
Told(q) == status[q] = 200 \/ (status[q] \notin {Nil, 500} /\ method[q] # "GET")

\* Faulty variant of Receive: the answer goes to whatever page there is, as if
\* the pages shared their state.
ReceiveInAnyPage(q) ==
    LET ok == status[q] = 200 IN
    /\ Done(q)
    /\ \/ shown # Nil /\ Apply(q, ok) /\ UNCHANGED shown
       \/ shown = Nil /\ UNCHANGED page
    /\ clean' = (clean /\ (Pending(q) => Told(q)))
    /\ request' = [request EXCEPT ![q] = NoRequest]
    /\ answer' = [answer EXCEPT ![q] = {}]
    /\ UNCHANGED <<ips, sent>>

\* The promise of q is settled.
Receive(q) ==
    LET ok == status[q] = 200 IN
    /\ Done(q)
    /\ \/ Pending(q) /\ Apply(q, ok) /\ UNCHANGED shown
       \/ ~Pending(q) /\ UNCHANGED page
    /\ clean' = (clean /\ (Pending(q) => Told(q)))
    /\ request' = [request EXCEPT ![q] = NoRequest]
    /\ answer' = [answer EXCEPT ![q] = {}]
    /\ UNCHANGED <<ips, sent>>
-----------------------------------------------------------------------------
(* The handlers' statements on the rows (Inventory has them all).          *)

\* Faulty variant of Checks: the address is looked up by its id alone.
ChecksIdAlone(q) ==
    CASE method[q] = "PATCH" -> request[q].id \in Live
      [] OTHER -> TRUE

\* FindByID of the subnet, and of the address within it.
Checks(q) ==
    CASE method[q] = "PATCH" ->
           request[q].id \in Live /\ ips[request[q].id].subnet = request[q].subnet
      [] OTHER -> TRUE

CheckStatement(q) ==
    /\ left[q] = 2
    /\ \/ Checks(q) /\ Proceed(q)
       \/ ~Checks(q) /\ Answer(q, 404)
    /\ UNCHANGED <<ips, answer, browser>>

\* A statement that writes is a transaction of its own.  When the connection
\* to PostgreSQL breaks after its commit, the handler has an error.
Written(q, recs) ==
    \/ Answer(q, 200) /\ answer' = [answer EXCEPT ![q] = recs]
    \/ Answer(q, 500) /\ UNCHANGED answer

\* CreateIPAddress, with unique_ip.
PostStatement(q) ==
    /\ left[q] = 1 /\ method[q] = "POST"
    /\ LET want == request[q] IN
       \/ /\ Taken(want.subnet, want.ip)
          /\ Answer(q, 400)
          /\ UNCHANGED <<ips, answer>>
       \/ /\ ~Taken(want.subnet, want.ip)
          /\ \E i \in IpIds :
                /\ i = FreshId /\ ips[i] = Unused
                /\ ips' = [ips EXCEPT ![i] =
                      [subnet |-> want.subnet, ip |-> want.ip, hostname |-> want.hostname]]
                /\ Written(q, {[id |-> i, ip |-> want.ip, hostname |-> want.hostname]})
    /\ UNCHANGED browser

\* UpdateIPByUUID, by id alone.
PatchStatement(q) ==
    /\ left[q] = 1 /\ method[q] = "PATCH"
    /\ LET i == request[q].id
           h == request[q].hostname IN
       \/ i \notin Live /\ Answer(q, 404) /\ UNCHANGED <<ips, answer>>
       \/ /\ i \in Live
          /\ ips' = [ips EXCEPT ![i].hostname = h]
          /\ Written(q, {[RecordOf(i) EXCEPT !.hostname = h]})
    /\ UNCHANGED browser

\* DeleteIPByUUIDandSubnetID.
DeleteStatement(q) ==
    /\ left[q] = 1 /\ method[q] = "DELETE"
    /\ LET i == request[q].id
           found == i \in Live /\ ips[i].subnet = request[q].subnet IN
       \/ ~found /\ Answer(q, 404) /\ UNCHANGED <<ips, answer>>
       \/ found /\ Written(q, {}) /\ ips' = [ips EXCEPT ![i] = Deleted]
    /\ UNCHANGED browser

\* ListIPsBySubnetID.
GetStatement(q) ==
    /\ left[q] = 1 /\ method[q] = "GET"
    /\ answer' = [answer EXCEPT ![q] = RowsOf(request[q].subnet)]
    /\ Answer(q, 200)
    /\ UNCHANGED <<ips, browser>>

\* Before it has any effect.
StatementFails(q) == Answer(q, 500) /\ UNCHANGED <<ips, answer, browser>>

Statement(q) ==
    \/ CheckStatement(q) \/ PostStatement(q) \/ PatchStatement(q) \/ DeleteStatement(q)
    \/ GetStatement(q) \/ StatementFails(q)

\* Another client creates an address or deletes one, by way of any replica.
Elsewhere ==
    /\ sent < MaxRequests /\ sent' = sent + 1
    /\ \E i \in IpIds :
          \/ /\ i \in Live
             /\ ips' = [ips EXCEPT ![i] = Deleted]
          \/ /\ i = FreshId /\ ips[i] = Unused
             /\ \E row \in IpRow :
                   /\ ~Taken(row.subnet, row.ip) /\ row.hostname # Blank
                   /\ ips' = [ips EXCEPT ![i] = row]
    /\ clean' = (clean /\ shown = Nil)
    /\ UNCHANGED <<serveVars, answer, page, request>>
-----------------------------------------------------------------------------
\* What the process does without a look at the rows.
Serves ==
    /\ Background \/ \E q \in Slots : Connect(q) \/ Accept(q) \/ Acquire(q) \/ Lose(q)
    /\ UNCHANGED <<ips, browser, answer>>

Next ==
    \/ Serves \/ Leave \/ Elsewhere
    \/ \E n \in Subnets : Open(n) \/ Jump(n)
    \/ \E a \in Addresses, h \in Hostnames \cup {Blank} : Save(a, h)
    \/ \E q \in Slots : Statement(q) \/ Receive(q)

\* Goroutines run, the database answers and the browser runs its callbacks;
\* the pool hands its connections out in turn.
Fairness ==
    /\ WF_vars(Main /\ UNCHANGED <<ips, browser, answer>>)
    /\ WF_vars((ServeStarts \/ (ShuttingDown /\ ServeEnds)) /\ UNCHANGED <<ips, browser, answer>>)
    /\ WF_vars(CycleEnds /\ UNCHANGED <<ips, browser, answer>>)
    /\ \A q \in Slots :
          /\ WF_vars(\/ (Connect(q) \/ Accept(q) \/ Lose(q)) /\ UNCHANGED <<ips, browser, answer>>
                     \/ Statement(q) \/ Receive(q))
          /\ SF_vars(Acquire(q) /\ UNCHANGED <<ips, browser, answer>>)

Spec == Init /\ [][Next]_vars
FairSpec == Spec /\ Fairness
-----------------------------------------------------------------------------
(* Properties.                                                             *)

\* A click on Save changes the clicked address of the subnet shown, or
\* nothing, though the records may be another subnet's: only the subnet in
\* the path tells the server (SubnetDetailView.tsx:32, ip_repository.go:79).
SavesWhereItPoints ==
    [][\A q \in Slots, i \in IpIds :
          Statement(q) /\ ips'[i] # ips[i] =>
             LET row == IF i \in Live THEN ips[i] ELSE ips'[i] IN
             row.subnet = request[q].subnet /\ row.ip = request[q].ip]_vars

\* README.md:239: read-only changes nothing and editors delete nothing, though
\* every role is offered the button that saves or, with the field cleared,
\* deletes.
RolesDecide ==
    [][\A q \in Slots : Statement(q) /\ ips' # ips =>
          /\ Roles \cap {"admin", "editor"} # {}
          /\ (\E i \in Live : ips'[i] = Deleted) => "admin" \in Roles]_vars

\* When its requests are settled, a page shows its subnet's rows: but for
\* other clients' writes, history jumps, lost answers, failed loads, saves
\* answered 500 (which may be written all the same), a save that was on its way
\* when the page was opened, and two saves of one address at a time.
PageIsCurrent ==
    shown # Nil /\ clean /\ (\A q \in Slots : ~Pending(q)) => records = RowsOf(shown)

\* A page that shows no list yet, or an address whose button says "Saving",
\* has a request of its own on its way, that load or that save: jumps and saves
\* that overlap share one flag each, and none leaves it set with nothing to
\* reset it (SubnetDetailView.tsx:32, :34).
WaitsForAnAnswer ==
    /\ loading => \E q \in Slots : Pending(q) /\ method[q] = "GET"
    /\ saving # Nil => \E q \in Slots : /\ Pending(q) /\ method[q] # "GET"
                                       /\ request[q].ip = saving

\* The page never waits for good, whatever becomes of the server.
PageSettles == (loading \/ saving # Nil) ~> (~loading /\ saving = Nil)
=============================================================================
