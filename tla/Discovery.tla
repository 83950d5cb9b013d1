----------------------------- MODULE Discovery ------------------------------
(***************************************************************************)
(* Kubernetes Service discovery: the runner of every API replica           *)
(* (internal/kubernetes/runner.go) lists the Services of the configured    *)
(* namespaces, one list call each, and reconciles the complete listing     *)
(* with the database in one transaction (kubernetes_discovery_repository). *)
(* A transaction-scoped advisory lock, which is tried and never waited     *)
(* for, lets one transaction per source work at a time, whether it         *)
(* reconciles or records a failure.                                        *)
(*                                                                         *)
(* Meanwhile clients create, move and delete IPAM addresses and may delete *)
(* the bound site.  The transaction is READ COMMITTED: it sees their       *)
(* commits between its statements, and the foreign key of a link checks    *)
(* the address again when the link is inserted.  From then on the address  *)
(* row is locked, and DELETE waits for the transaction to end.             *)
(*                                                                         *)
(* There is one source and one site.  The addresses of a Service do not    *)
(* change.  Names, ports and hostnames follow the Service row; of them     *)
(* there is only the constraint that fails, the uniqueness of hostnames.   *)
(***************************************************************************)
EXTENDS Integers, FiniteSets

CONSTANTS
    Replicas,
    Uids,           \* Service UIDs, numbered in the order of the listing
    Namespaces,     \* namespaces are 1 .. Namespaces, listed in this order
    NamespaceOf,    \* [Uids -> namespace]
    AddressesOf,    \* [Uids -> addresses]: cluster and load balancer IPs,
                    \* numbered in the order of serviceToSnapshot
    Conflicting,    \* the Uids whose load balancer may have one hostname twice
    IpIds,          \* keys of ip_addresses
    IpAddress,      \* [IpIds -> address]
    Retention,      \* StaleRetention
    MaxTime,        \* bound: the clock stops there
    Nil

ASSUME DiscoveryConstants ==
    /\ Uids \subseteq Nat
    /\ Namespaces \in Nat \ {0}
    /\ NamespaceOf \in [Uids -> 1 .. Namespaces]
    /\ AddressesOf \in [Uids -> SUBSET Nat]
    /\ Conflicting \subseteq Uids
    /\ Retention \in Nat \ {0}      \* Config.Validate
    /\ MaxTime \in Nat
    /\ Nil \notin Nat \cup IpIds \cup Replicas

VARIABLES
    now,        \* the wall clock of all replicas
    cluster,    \* the Services that exist in Kubernetes
    twice,      \* those whose load balancer has one hostname twice
    quiet,      \* from here on cluster and clients rest and nothing fails
    site,       \* the bound site exists
    place,      \* ip id -> where its row is: in the site, in another, nowhere
    source,     \* row of kubernetes_sources, or Nil
    rows,       \* uid -> row of kubernetes_services, or Nil
    addresses,  \* <<uid, address>> -> row of kubernetes_service_addresses, or Nil
    lock,       \* the replica whose transaction holds the advisory lock
    pc,         \* replica -> the step it takes next
    started, namespace, snapshot, observed, \* locals of ReconcileOnce
    clash,      \* replica -> its snapshot has a Service with one hostname twice
    todo, found, links,                     \* locals of Reconcile, and its writes
    listed      \* history: the complete listings made

ipam == <<site, place>>
store == <<source, rows, addresses>>
environment == <<now, cluster, twice, quiet, ipam>>
attempt == <<started, namespace, snapshot, clash, observed>>
transaction == <<todo, found, links>>
runners == <<lock, pc, attempt, transaction, listed>>
vars == <<environment, store, runners>>

Times == 0 .. MaxTime
\* Row of kubernetes_service_addresses; the rows of a Service come with it.
Matches == [status : {"matched", "unmatched", "ambiguous"}, link : IpIds \cup {Nil}]
Literals == {l \in Uids \X UNION {AddressesOf[u] : u \in Uids} : l[2] \in AddressesOf[l[1]]}
ServiceRow == [active : BOOLEAN, stale_at : Times \cup {Nil}]
SourceRow == [last_attempt_at : Times, last_success_at : Times \cup {Nil},
              failed : BOOLEAN]

ASSUME RowsAreNotNil == Nil \notin ServiceRow \cup SourceRow \cup Matches

TypeOK ==
    /\ now \in Times /\ cluster \subseteq Uids /\ twice \subseteq cluster /\ quiet \in BOOLEAN
    /\ site \in BOOLEAN
    /\ place \in [IpIds -> {"unused", "inside", "outside", "deleted"}]
    /\ source \in SourceRow \cup {Nil}
    /\ rows \in [Uids -> ServiceRow \cup {Nil}]
    /\ addresses \in [Literals -> Matches \cup {Nil}]
    /\ lock \in Replicas \cup {Nil}
    /\ pc \in [Replicas -> {"sleep", "list", "lock", "match", "link", "publish",
                            "fail", "record"}]
    /\ started \in [Replicas -> Times]
    /\ namespace \in [Replicas -> 1 .. Namespaces]
    /\ snapshot \in [Replicas -> SUBSET Uids]
    /\ clash \in [Replicas -> BOOLEAN]
    /\ observed \in [Replicas -> Times]
    /\ todo \in [Replicas -> SUBSET Literals]
    /\ found \in [Replicas -> SUBSET IpIds]
    /\ links \in [Replicas -> [Literals -> Matches \cup {Nil}]]
    /\ listed \subseteq SUBSET Uids

NoLinks == [l \in Literals |-> Nil]

Init ==
    /\ now = 0 /\ cluster = {} /\ twice = {} /\ quiet = FALSE
    /\ site = TRUE /\ place = [i \in IpIds |-> "unused"]
    /\ source = Nil /\ rows = [u \in Uids |-> Nil] /\ addresses = NoLinks
    /\ lock = Nil
    /\ pc = [r \in Replicas |-> "sleep"]
    /\ started = [r \in Replicas |-> 0]
    /\ namespace = [r \in Replicas |-> 1]
    /\ snapshot = [r \in Replicas |-> {}]
    /\ clash = [r \in Replicas |-> FALSE]
    /\ observed = [r \in Replicas |-> 0]
    /\ todo = [r \in Replicas |-> {}]
    /\ found = [r \in Replicas |-> {}]
    /\ links = [r \in Replicas |-> NoLinks]
    /\ listed = {}

InTransaction(r) == pc[r] \in {"match", "link", "publish"}
-----------------------------------------------------------------------------
(* Kubernetes, the clock and the clients of the API.                       *)

Tick ==
    /\ now < MaxTime
    /\ now' = now + 1
    /\ UNCHANGED <<cluster, twice, quiet, ipam, store, runners>>

\* A Service is created, deleted, or has its load balancer's status changed.
ClusterChanges ==
    /\ ~quiet
    /\ \E u \in Uids :
          \/ /\ cluster' = IF u \in cluster THEN cluster \ {u} ELSE cluster \cup {u}
             /\ twice' = twice \ {u}
          \/ /\ u \in cluster \cap Conflicting
             /\ twice' = IF u \in twice THEN twice \ {u} ELSE twice \cup {u}
             /\ UNCHANGED cluster
    /\ UNCHANGED <<now, quiet, ipam, store, runners>>

\* An address is created in a subnet of the site, or its subnet is assigned
\* to the site or to another.
PlaceIp(i) ==
    /\ ~quiet
    /\ \/ site /\ place[i] \in {"unused", "outside"} /\ place' = [place EXCEPT ![i] = "inside"]
       \/ place[i] = "inside" /\ place' = [place EXCEPT ![i] = "outside"]
    /\ UNCHANGED <<now, cluster, twice, quiet, site, store, runners>>

\* Faulty variant of Locked: the foreign key does not lock the address row.
NeverLocked(i) == FALSE

\* A transaction has inserted a link to i, or deleted one that is committed.
\* Its row lock holds up the DELETE of i.  (A DELETE that has come in between,
\* after Match and before Link, waits for the old link's row while Link waits
\* for the address row: PostgreSQL detects the deadlock and fails one of the
\* two, which ReconcileFails and a DELETE that never happens stand for.)
Locked(i) ==
    \E r \in Replicas : InTransaction(r) /\ \E l \in Literals :
       /\ links[r][l] # Nil
       /\ \/ links[r][l].link = i
          \/ addresses[l] # Nil /\ addresses[l].link = i

\* ip_address_id REFERENCES ip_addresses ON DELETE SET NULL.
DeleteIp(i) ==
    /\ ~quiet
    /\ place[i] \in {"inside", "outside"}
    /\ ~Locked(i)
    /\ place' = [place EXCEPT ![i] = "deleted"]
    /\ addresses' = [l \in Literals |->
                       IF addresses[l] # Nil /\ addresses[l].link = i
                       THEN [addresses[l] EXCEPT !.link = Nil] ELSE addresses[l]]
    /\ UNCHANGED <<now, cluster, twice, quiet, site, source, rows, runners>>

\* kubernetes_sources and kubernetes_services are deleted by cascade and the
\* site's subnets lose their site.  The source row that a reconciliation has
\* upserted is locked until its transaction ends.
DeleteSite ==
    /\ ~quiet /\ site
    /\ \A r \in Replicas : ~InTransaction(r)
    /\ site' = FALSE
    /\ place' = [i \in IpIds |-> IF place[i] = "inside" THEN "outside" ELSE place[i]]
    /\ source' = Nil
    /\ rows' = [u \in Uids |-> Nil]
    /\ addresses' = NoLinks
    /\ UNCHANGED <<now, cluster, twice, quiet, runners>>

\* Nothing in the program: it lets liveness speak of the time when the world
\* has come to rest, with the site still there.
Settle ==
    /\ ~quiet /\ site
    /\ quiet' = TRUE
    /\ UNCHANGED <<now, cluster, twice, ipam, store, runners>>
-----------------------------------------------------------------------------
(* Runner.ReconcileOnce: the listing.                                      *)

Goto(r, label) == pc' = [pc EXCEPT ![r] = label]

\* Faulty variant of GiveUp: a lock of the session outlives the transaction.
GiveUpLocked(r) ==
    /\ Goto(r, "fail")
    /\ namespace' = [namespace EXCEPT ![r] = 1]
    /\ snapshot' = [snapshot EXCEPT ![r] = {}]
    /\ clash' = [clash EXCEPT ![r] = FALSE]
    /\ observed' = [observed EXCEPT ![r] = 0]
    /\ todo' = [todo EXCEPT ![r] = {}]
    /\ found' = [found EXCEPT ![r] = {}]
    /\ links' = [links EXCEPT ![r] = NoLinks]
    /\ UNCHANGED <<lock, started, listed>>

\* The locals go out of scope, and an open transaction is rolled back: when
\* the attempt has failed all is lost but its start, ...
GiveUp(r) ==
    /\ Goto(r, "fail")
    /\ namespace' = [namespace EXCEPT ![r] = 1]
    /\ snapshot' = [snapshot EXCEPT ![r] = {}]
    /\ clash' = [clash EXCEPT ![r] = FALSE]
    /\ observed' = [observed EXCEPT ![r] = 0]
    /\ todo' = [todo EXCEPT ![r] = {}]
    /\ found' = [found EXCEPT ![r] = {}]
    /\ links' = [links EXCEPT ![r] = NoLinks]
    /\ lock' = IF lock = r THEN Nil ELSE lock
    /\ UNCHANGED <<started, listed>>

\* ... and when it is over, all.
Sleep(r) ==
    /\ Goto(r, "sleep")
    /\ started' = [started EXCEPT ![r] = 0]
    /\ namespace' = [namespace EXCEPT ![r] = 1]
    /\ snapshot' = [snapshot EXCEPT ![r] = {}]
    /\ clash' = [clash EXCEPT ![r] = FALSE]
    /\ observed' = [observed EXCEPT ![r] = 0]
    /\ todo' = [todo EXCEPT ![r] = {}]
    /\ found' = [found EXCEPT ![r] = {}]
    /\ links' = [links EXCEPT ![r] = NoLinks]
    /\ lock' = IF lock = r THEN Nil ELSE lock
    /\ UNCHANGED listed

\* The timer of Run fires.
Wake(r) ==
    /\ pc[r] = "sleep"
    /\ started' = [started EXCEPT ![r] = now]
    /\ Goto(r, "list")
    /\ UNCHANGED <<environment, store, lock, namespace, snapshot, clash,
                   observed, transaction, listed>>

\* ListServices, one namespace; the clock is read when the last has answered.
ListNamespace(r) ==
    /\ pc[r] = "list"
    /\ LET items == {u \in cluster : NamespaceOf[u] = namespace[r]}
           seen == snapshot[r] \cup items
       IN
       /\ snapshot' = [snapshot EXCEPT ![r] = seen]
       /\ clash' = [clash EXCEPT ![r] = @ \/ items \cap twice # {}]
       /\ \/ /\ namespace[r] < Namespaces
             /\ namespace' = [namespace EXCEPT ![r] = @ + 1]
             /\ UNCHANGED <<pc, observed, listed>>
          \/ /\ namespace[r] = Namespaces
             /\ observed' = [observed EXCEPT ![r] = now]
             /\ listed' = listed \cup {seen}
             /\ namespace' = [namespace EXCEPT ![r] = 1]
             /\ Goto(r, "lock")
    /\ UNCHANGED <<environment, store, lock, started, transaction>>

\* A list call fails or times out, or a Service cannot be converted.
ListFails(r) ==
    /\ ~quiet
    /\ pc[r] = "list"
    /\ GiveUp(r)
    /\ UNCHANGED <<environment, store>>
-----------------------------------------------------------------------------
(* Repository.Reconcile: one transaction.                                  *)

\* FindIPCandidatesBySiteAndAddress.
Candidates(a) == {i \in IpIds : place[i] = "inside" /\ IpAddress[i] = a}

\* How many there are decides the status, and one alone is linked.
MatchOf(candidates) ==
    CASE candidates = {} -> [status |-> "unmatched", link |-> Nil]
      [] Cardinality(candidates) = 1 ->
           [status |-> "matched", link |-> CHOOSE i \in candidates : TRUE]
      [] OTHER -> [status |-> "ambiguous", link |-> Nil]

\* The loop has addresses left, or comes to its end.
NextAddress(r, rest) == Goto(r, IF rest = {} THEN "publish" ELSE "match")

\* The addresses that a listing names.
Named(listing) == {l \in Literals : l[1] \in listing}

\* TryKubernetesSourceLock: pg_try_advisory_xact_lock, held to the end of the
\* transaction, whichever way it ends.
TryLock(r) == lock = Nil /\ lock' = r

\* UpsertKubernetesSource and EnsureKubernetesSource: the row's site_id must
\* reference a site.
SourceStorable == site

\* Faulty variant of Begin: the answer of TryKubernetesSourceLock is ignored.
BeginAnyway(r) ==
    /\ pc[r] = "lock"
    /\ \/ ~site /\ GiveUp(r)
       \/ /\ site
          /\ lock' = r
          /\ todo' = [todo EXCEPT ![r] = Named(snapshot[r])]
          /\ NextAddress(r, Named(snapshot[r]))
          /\ UNCHANGED <<attempt, found, links, listed>>
    /\ UNCHANGED <<environment, store>>

\* BEGIN, TryKubernetesSourceLock and UpsertKubernetesSource.
\* ErrDiscoveryBusy is not recorded as a failure.
Begin(r) ==
    /\ pc[r] = "lock"
    /\ \/ lock # Nil /\ Sleep(r)
       \/ lock = Nil /\ ~SourceStorable /\ GiveUp(r)
       \/ /\ TryLock(r) /\ SourceStorable
          /\ todo' = [todo EXCEPT ![r] = Named(snapshot[r])]
          /\ NextAddress(r, Named(snapshot[r]))
          /\ UNCHANGED <<attempt, found, links, listed>>
    /\ UNCHANGED <<environment, store>>

\* The first address left: the listing is sorted, and each Service's
\* addresses come in their order.
First(r, l) ==
    /\ l \in todo[r]
    /\ \A k \in todo[r] : l[1] < k[1] \/ (l[1] = k[1] /\ l[2] <= k[2])

\* Its service is upserted, the service's old addresses are deleted, and the
\* candidates for this one are read.
Match(r) ==
    /\ pc[r] = "match"
    /\ \E l \in Literals : First(r, l) /\ found' = [found EXCEPT ![r] = Candidates(l[2])]
    /\ Goto(r, "link")
    /\ UNCHANGED <<environment, store, lock, attempt, todo, links, listed>>

\* Its address is inserted.  Had the address row gone since it was read, the
\* foreign key would fail, and with it the transaction.
Link(r) ==
    /\ pc[r] = "link"
    /\ LET match == MatchOf(found[r]) IN
       \/ /\ match.link # Nil /\ place[match.link] = "deleted"
          /\ GiveUp(r)
       \/ /\ match.link # Nil => place[match.link] # "deleted"
          /\ \E l \in Literals :
                /\ First(r, l)
                /\ links' = [links EXCEPT ![r][l] = match]
                /\ todo' = [todo EXCEPT ![r] = @ \ {l}]
                /\ NextAddress(r, todo[r] \ {l})
          /\ found' = [found EXCEPT ![r] = {}]
          /\ UNCHANGED <<lock, attempt, listed>>
    /\ UNCHANGED <<environment, store>>

\* UpsertKubernetesService: an observed service.
Observed == [active |-> TRUE, stale_at |-> Nil]

\* MarkMissingKubernetesServicesInactive: one that is not observed.
MarkedMissing(row, time) ==
    IF row.active THEN [row EXCEPT !.active = FALSE, !.stale_at = time] ELSE row

\* What DeleteStaleKubernetesServices deletes.
IsStale(row, limit) == ~row.active /\ row.stale_at <= limit

\* Faulty variants of Reconciled: missing services stay active; they go as
\* soon as they are inactive; stale_at is moved the wrong way.
ReconciledWithoutMissing(r, u) ==
    IF u \in snapshot[r] THEN Observed ELSE rows[u]

ReconciledEagerly(r, u) ==
    IF u \in snapshot[r] THEN Observed
    ELSE IF rows[u] = Nil \/ ~rows[u].active THEN Nil
    ELSE MarkedMissing(rows[u], observed[r])

ReconciledBackwards(r, u) ==
    IF u \in snapshot[r] THEN Observed
    ELSE IF rows[u] = Nil THEN Nil
    ELSE [rows[u] EXCEPT !.active = FALSE, !.stale_at = observed[r] - Retention]

\* What the transaction makes of a row of the source.
Reconciled(r, u) ==
    IF u \in snapshot[r] THEN Observed
    ELSE IF rows[u] = Nil THEN Nil
    ELSE LET row == MarkedMissing(rows[u], observed[r]) IN
         IF IsStale(row, observed[r] - Retention) THEN Nil ELSE row

\* Its addresses: those of an observed service are replaced, those of a
\* deleted service go by cascade.
Linked(r, l) ==
    IF l[1] \in snapshot[r] THEN links[r][l]
    ELSE IF Reconciled(r, l[1]) = Nil THEN Nil ELSE addresses[l]

\* CreateKubernetesServiceHostname: each hostname once per service and kind.
HostnamesStorable(r) == ~clash[r]

\* RecordKubernetesSourceSuccess
Success(time) == [last_attempt_at |-> time, last_success_at |-> time, failed |-> FALSE]

\* MarkMissingKubernetesServicesInactive, DeleteStaleKubernetesServices,
\* RecordKubernetesSourceSuccess and COMMIT, unless a hostname could not be
\* stored: the transaction becomes visible.
Commit(r) ==
    /\ pc[r] = "publish" /\ HostnamesStorable(r)
    /\ rows' = [u \in Uids |-> Reconciled(r, u)]
    /\ addresses' = [l \in Literals |-> Linked(r, l)]
    /\ source' = Success(observed[r])

Publish(r) ==
    /\ pc[r] = "publish"
    /\ \/ Commit(r) /\ Sleep(r)
       \/ ~HostnamesStorable(r) /\ GiveUp(r) /\ UNCHANGED store
    /\ UNCHANGED environment

\* A statement or the COMMIT fails, or the COMMIT has taken place and the
\* connection breaks before its reply.
ReconcileFails(r) ==
    /\ ~quiet
    /\ pc[r] = "lock" \/ InTransaction(r)
    /\ GiveUp(r)
    /\ UNCHANGED store \/ Commit(r)
    /\ UNCHANGED environment
-----------------------------------------------------------------------------
(* Repository.RecordFailure: a transaction of its own, under the lock.     *)

\* BEGIN and TryKubernetesSourceLock: if another replica has the lock, nothing
\* is recorded.
BeginRecord(r) ==
    /\ pc[r] = "fail"
    /\ \/ /\ TryLock(r)
          /\ Goto(r, "record")
          /\ UNCHANGED <<attempt, transaction, listed>>
       \/ lock # Nil /\ Sleep(r)
    /\ UNCHANGED <<environment, store>>

\* EnsureKubernetesSource inserts the row if there is none: it has no success.
LastSuccess == IF source = Nil THEN Nil ELSE source.last_success_at

\* RecordKubernetesSourceFailure
Failure(time) == [last_attempt_at |-> time, last_success_at |-> LastSuccess, failed |-> TRUE]

\* The services are left as they are.
RecordFailure(r) ==
    /\ pc[r] = "record"
    /\ Sleep(r)
    /\ \/ SourceStorable /\ source' = Failure(started[r])
       \/ ~SourceStorable /\ UNCHANGED source
    /\ UNCHANGED <<environment, rows, addresses>>

\* The context has ended, or a statement fails: it is logged and no more.
RecordFails(r) ==
    /\ ~quiet
    /\ pc[r] \in {"fail", "record"}
    /\ Sleep(r)
    /\ UNCHANGED <<environment, store>>

\* The process ends, at any point: PostgreSQL rolls its transaction back, and
\* another process starts in its place.
Crash(r) ==
    /\ ~quiet
    /\ pc[r] # "sleep"
    /\ Sleep(r)
    /\ UNCHANGED <<environment, store>>
-----------------------------------------------------------------------------
Run(r) ==
    \/ Wake(r) \/ ListNamespace(r)
    \/ Begin(r) \/ Match(r) \/ Link(r) \/ Publish(r)
    \/ BeginRecord(r) \/ RecordFailure(r)

Fault(r) == ListFails(r) \/ ReconcileFails(r) \/ RecordFails(r) \/ Crash(r)

World ==
    \/ Tick \/ ClusterChanges
    \/ \E i \in IpIds : PlaceIp(i) \/ DeleteIp(i)
    \/ DeleteSite

Next == World \/ \E r \in Replicas : Run(r) \/ Fault(r)

Spec == Init /\ [][Next]_vars

\* A goroutine of a running process is scheduled: neither the timer of Run,
\* nor a request (bounded by RequestTimeout), nor the lock, which is tried
\* and never waited for, keeps one from its next step for ever.
FairSpec ==
    /\ Init
    /\ [][Next \/ Settle]_vars
    /\ \A r \in Replicas : WF_vars(Run(r))
-----------------------------------------------------------------------------
(* Properties.                                                             *)

Active == {u \in Uids : rows[u] # Nil /\ rows[u].active}

\* ListSourceStatuses.
State ==
    IF source = Nil THEN "absent"
    ELSE IF source.failed THEN "degraded"
    ELSE IF source.last_success_at # Nil THEN "healthy" ELSE "pending"

Promise == INSTANCE SnapshotPublication WITH active <- Active, state <- State

\* README.md:306: the Services shown jump from one complete listing to
\* another, and a failure changes the status alone.
PublishesCompleteListings == Promise!Spec

\* A transaction holds the lock that the code believes it holds: of all
\* replicas at most one is between BEGIN and COMMIT.
OneTransaction ==
    \A r \in Replicas : InTransaction(r) \/ pc[r] = "record" => lock = r

\* No link, committed or about to be, points to an address row that is gone,
\* and none to a row with another address: DeleteIp races the transaction.
LinksAreSound ==
    \A l \in Literals :
       /\ addresses[l] # Nil /\ addresses[l].link # Nil =>
             /\ place[addresses[l].link] \in {"inside", "outside"}
             /\ IpAddress[addresses[l].link] = l[2]
       /\ \A r \in Replicas :
             InTransaction(r) /\ links[r][l] # Nil /\ links[r][l].link # Nil =>
                place[links[r][l].link] \in {"inside", "outside"}

\* A Service's row goes only with the site, or after it has been inactive
\* for the whole retention (KUBERNETES_DISCOVERY_STALE_RETENTION), by the
\* clock of whoever deletes it, even if older listings are published late.
KeptForRetention ==
    [][\A u \in Uids : rows[u] # Nil /\ rows'[u] = Nil =>
          \/ ~site'
          \/ ~rows[u].active /\ rows[u].stale_at + Retention <= now]_rows

\* Discovery and IPAM agree: what is in the cluster is shown, with the match
\* that the site's addresses give, and nothing else is.
Accurate ==
    /\ State = "healthy"
    /\ Active = cluster
    /\ \A l \in Named(cluster) : addresses[l] = MatchOf(Candidates(l[2]))

AtRest == quiet /\ twice = {}       \* for good: see Settle

\* Whatever failures, crashes and late listings came before, once the world
\* is at rest the replicas bring the view up to date, and it stays so.
\* A Service with one hostname twice holds all of that up, for the others too,
\* but only as long as it is there (client.go:163).
EventuallyAccurate == <>[](AtRest => Accurate)

\* What a replica holds is what there is: the Services of the namespaces it has
\* listed, and the match of each address it has done with.
UpToDate(r) ==
    /\ pc[r] \notin {"fail", "record"} /\ ~clash[r]
    /\ pc[r] = "sleep" => snapshot[r] = {}
    /\ pc[r] = "list" => snapshot[r] = {u \in cluster : NamespaceOf[u] < namespace[r]}
    /\ pc[r] = "lock" \/ InTransaction(r) => snapshot[r] = cluster
    /\ pc[r] = "link" => \E l \in Literals : First(r, l) /\ found[r] = Candidates(l[2])
    /\ InTransaction(r) =>
          \A l \in Named(cluster) \ todo[r] : links[r][l] = MatchOf(Candidates(l[2]))

\* Why that is so: in a world at rest a replica that has come round once is up to
\* date and stays so, whatever the others do; as soon as all are, one transaction
\* that ends makes the view accurate, and none makes it less so.
ConvergesAtRest ==
    [][AtRest =>
          /\ \A r \in Replicas : UpToDate(r) \/ pc'[r] = "sleep" => UpToDate(r)'
          /\ (\A r \in Replicas : UpToDate(r)) =>
                \A r \in Replicas :
                   Accurate \/ (pc[r] = "publish" /\ pc'[r] # "publish") => Accurate']_vars

\* "Hostname-only Services therefore remain visible" (README.md:302).
HostnameOnlyIsShown == \A u \in Uids : quiet /\ u \in cluster ~> u \in Active

\* "A later complete empty snapshot is authoritative and marks the previous
\* Services inactive" (README.md:306): a listing is not replaced by one that
\* was taken before it.
LaterSnapshotIsAuthoritative ==
    [][source # Nil /\ source' # Nil /\ source.last_success_at # Nil =>
          source'.last_success_at >= source.last_success_at]_source

\* The record of a failure finds another replica in its transaction.
Collides(r) == pc[r] = "fail" /\ lock \notin {r, Nil}

\* What holds discovery up is told: once the world is at rest with a Service
\* that has one hostname twice, "the source status becomes degraded"
\* (README.md:306) and stays so, whatever listings from before it are published
\* late.  For RecordFailure tries the lock once, that is so unless records go
\* on colliding (repository.go:121).
HeldUpIsTold ==
    \/ <>[](quiet /\ twice # {} => State = "degraded")
    \/ []<>(\E r \in Replicas : Collides(r))
=============================================================================
