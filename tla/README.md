# Formal verification of simple-k8s-app

The program is a small IPAM: a Go API server in front of PostgreSQL, run as
several replicas in Kubernetes, with a React frontend. It keeps sites, subnets
and addresses, imports them from CSV, discovers the Services of a cluster and
relates their addresses to its own, and records usage over time. The replicas
share nothing but the database, most requests use no transaction, and two
background loops run in every replica: nearly all that is hard about the
program is in how their statements interleave and fail.

This directory holds TLA+ models translated from the source, TLC
configurations that check them on small instances, and proofs that TLAPS checks
for every instance. `PROJECT.json` maps every definition to the lines it
stands for.

Run a model with `tlc -config MCInventoryAddresses.cfg MCInventory` and a proof
with `tlapm InventoryProofs.tla`.

## Inventory

| Component | State | Operations | Interacts with | What is hard | What makes it correct |
|---|---|---|---|---|---|
| Tables and SQL (`db/migrations`, `db/queries`, `internal/db`) | `sites`, `subnets`, `ip_addresses` | one statement per repository call | every other component | what a statement's constraints and referential actions really do | no orphans, unique names and addresses, rows that keep their identity |
| REST requests (`internal/http`, `internal/domain`) | none of its own | create, update, delete of sites, subnets, addresses; assignment to a site; lists and statistics | tables, through up to three statements per request | check and write are different statements; a write can be committed and its answer be an error | exclusive answers, accepted addresses, paths that mean what they say |
| CSV import (`internal/domain/csv_import.go`) | maps that live as long as the import | rows in order: site, subnet, address | tables; other requests and imports | stale maps, half-done files, repetition | completeness, idempotence, no wrong row changed |
| Kubernetes discovery (`internal/kubernetes`, `kubernetes_discovery_repository.go`) | `kubernetes_*` tables, advisory lock | list the namespaces, reconcile, record a failure; show status and Services | the Kubernetes API, tables, replicas | partial listings, concurrent replicas, late transactions, deleted addresses | only complete listings are published, links are sound, the view catches up |
| Capacity (`sites_service.go`, `network_service.go`, `subnet.js`) | none | computations of how many addresses there are, sums per site | requests, frontend, reporting | boundaries, widths, addresses left over after a change of CIDR | what is counted, shown and accepted agree |
| Usage reporting (`internal/reporting`, `reporting_repository.go`) | `reporting_settings`, `subnet_usage_snapshots` | capture, expire, change the policy, read the history | tables, replicas | a statement that waits for a lock with an old `NOW()` | spacing, no back-filled points, complete captures, progress |
| Discovery's readers (`kubernetes_handlers.go`, `ListAllServicesBySubnetID`, `ListServicesBySubnetID`) | none | two GET requests of three to five statements | discovery, requests | statements outside a transaction while rows come, go and move | matches that were matches, complete Services |
| Authentication (`internal/auth`, `internal/http/auth.go`) | JWKS cache of a library | verify a token, map roles to methods | every request | one table, an external library; the browser offers more than a role may do | a role changes what it may change and nothing else |
| Lifecycle (`internal/app`, `cmd/api`) | goroutines, listener, pool | start, serve, drain, close, exit | requests, runners | an interrupt at any time, a start that fails half way, connections that are still in use | the process ends, with no statement running, and says truly how |
| Frontend (`frontend/src`) | React state | load, show, edit | REST API, the browser's history | answers late, lost, or for a subnet that was left | what is shown is what there is, and a click changes what it points at |
| Logging and health, generated docs, deployment, tests | none | | | | not modelled: no logic of their own |

`PROJECT.json` lists the hazards of this code, each at its line and with the
properties that watch over it; a hazard no property covers says why.

## Modules

    Tables ──────── Inventory ──── MCInventory      Capacity ─── MCCapacity
      │  │               │                            CapacityProofs
      │  TablesProofs ── InventoryProofs            Reporting ── MCReporting
      │             └─── CsvImportProofs              │
      └──────────── CsvImport ──── MCCsvImport        ReportingProofs

    SnapshotPublication ◁── Discovery ──── MCDiscovery        (◁ refines)
                             │      │
                             │      DiscoveryView ── MCDiscoveryView
                             │               │
                             DiscoveryProofs ── DiscoveryViewProofs

    Serve ───────── Session ────── MCSession
                       │
                       SessionProofs

A line downwards or to the right is EXTENDS: DiscoveryView composes the readers
with the runners, Session the browser with the process that serves it. A module
of proofs EXTENDS the module it is about (CsvImportProofs is about CsvImport).

**Tables** has one action per SQL statement that changes `sites`, `subnets` or
`ip_addresses`. A key is `Unused`, has a row, or is `Deleted` for ever, as
UUIDs and `BIGSERIAL` numbers are. `ON DELETE SET NULL`, `ON DELETE CASCADE`,
`UNIQUE` and foreign keys are part of the statements. `TablesSpec`, "any
statement at any time", is the abstract specification of everything that writes
these tables. `cidrsHeld` is a history variable.

**Inventory** is the REST requests. `pc[p]` names the statement that the
goroutine `p` runs next, `req[p]` the request with the ids it has made,
`code[p]` the last answer. An action is one statement with the code before it
and, if it is the last, the answer after it: `ValidateSite` is
`networkService.validateSite` with the `ParsePrefix` that follows,
`ReadBack` the `FindByID` with which `Create`, `AssignSite` and `Update` of the
subnet repository end. `Fail` is any error that is not the tables' own (lost
connection, ended context): 500, whatever has been committed. A statement that
writes is a transaction of its own, so the connection may also break after it:
`Written` and `WrittenSubnet` end it with the handler's success or with 500, the
row written in either case. `wrote` is history: whether the request has written.
Body fields that are missing, blank or unparsable are `Nil`.

**CsvImport** is an import row by row on the same tables. `siteByName`,
`subnetByKey`, `ipsBySubnet` are the maps of `ImportCSV`, `listed` is the
local `ips` of `importRow`. `ReadRow` is the code between statements: it
decides by the maps which statement the row needs next. `StatementFails`,
`ImportEnds` and `OtherRequest` are the failures, the crash and the clients,
who may do whatever a statement does. (A write whose reply is lost is the same
statement of `OtherRequest` and then `StatementFails`.)

**SnapshotPublication** is what discovery promises its readers; **Discovery**
is what each replica's runner does: `Wake`, `ListNamespace` (one list call per
namespace), `Begin` (BEGIN, the advisory lock, the source row), `Match` and
`Link` per address of each Service, `Publish` (missing, stale, success, COMMIT),
and `BeginRecord` and `RecordFailure` in the transaction that records a
failure. `ReconcileFails` is a statement that fails, or a COMMIT that takes
effect though its reply is lost (`Commit`): the runner goes on to record a failure
of what it has published. `<<uid, address>>` is the key of a row of
`kubernetes_service_addresses`. A replica's uncommitted writes are in `links`,
and `rows`, `addresses` and `source` are what is committed; `TryLock`,
`SourceStorable`, `Candidates`, `HostnamesStorable`, `Observed`,
`MarkedMissing`, `IsStale`, `Success`, `LastSuccess` and `Failure` are the
transactions' SQL statements one by one. `twice` holds the Services whose load
balancer names one hostname twice, which Kubernetes allows and the schema does
not. Clients create, move and delete addresses and the site between any two of
these steps. Row locks are modelled where they matter: `Locked` holds up the
deletion of an address to which a transaction has inserted a link, and
`DeleteSite` waits for the transaction that has upserted the source.

**DiscoveryView** adds one request that reads: `step` is the statement it runs
next, and between two of them everything in Discovery may happen, and the
subnet may move to another site. `AsShown` and `Enriching` are the two SQL
queries that derive a match from the same rows. The handler keeps what it reads by
the ids of rows, so `gone` are the Services whose row has been deleted since it was
read: observed anew they have another id, and `Shown` leaves them out. `exact`
and `hidden` are history: what was a match, and which Services were out of sight,
at some moment of the request.

**Serve** is the process: `main` is where the main goroutine is, from `listen`
to `exited`, `serving` the goroutine in `server.Serve`, `runner` the reporting
runner, `pool` and `Holders` the connections. A request occupies a slot, from
`Send` to `Done`; `Connect` is the server taking the connection, which Shutdown
waits for even while it is new, `Accept` the reading of the request and
`authMiddleware`, `Acquire` the wait for a connection, `Proceed` and `Answer` the
ends of a statement. `ServeSpec` leaves open what the statements do. **Session**
says it, for the four requests of a subnet's page, and adds the page: `records`,
`loading`, `saving` are the state of `SubnetDetailView`, `shown` the subnet that
App gives it, and `request` what was asked and whether the page that asked is
still there. `Open`, `Jump`, `Leave` are navigation, `Save` the button, `Receive`
the promise that settles, `Elsewhere` any other client. As in Inventory, a statement
may have written though the handler answers 500 (`Written`), so such an answer, like
one that is lost, does not tell what the rows are (`Told`). `clean` is a history
variable: nothing has happened since the page was opened that the page has no
means to know.

**Capacity** holds the three computations as operators, with the widths as
parameters, and the subnets and addresses of a site as its state, so that they
are compared wherever requests can take a site.

**Reporting** splits the capture statement in two: `StartCapture`, when it
reads the tables and `NOW()`, and `Capture`, when the lock on the settings row
is granted, PostgreSQL evaluates the due condition again on the new row, and
the statement commits or fails.

**MC…** modules give the constants values for TLC. Operators under the comment
"Faulty variant of X" are not part of any specification: each is X with a
plausible bug, and stands in for X to show that a property would notice
(`PROJECT.json`, "mutants").

## What the runs show

| Run (cfg) | Question | Bounds, and why they are enough |
|---|---|---|
| `MCInventorySubnets` | Types; a subnet loses its site only with it; requests do only what statements do (`TablesSpec`) | 2 requests at a time, 2 sites and names, 1 subnet, a CIDR the database refuses: a clash of names, and a move between sites while one of them goes |
| `MCInventoryAddresses` | `ReferentialIntegrity`, `EveryAddressWasUsable`, `AnswersAreExclusive`, `AnswersAreTruthful`, `TouchedThroughItsSubnet` | 2 requests, 1 site, 2 subnets, 1 row, 2 hostnames, 2 addresses of which the CIDR takes one: the site goes between its validation and the INSERT of a subnet, a subnet before it is read back or while its addresses are created, changed and deleted, by right paths and wrong ones, and a connection breaks before or after any commit. CIDRs do not change in this run: what happens then is `InventoryProofs`' theorem and `MCInventoryValidation` |
| `MCCsvImport` | `ImportIsComplete`, `Idempotent` after any wreckage; the old maps never change a wrong row | three files: two rows that share site and subnet, two that give one address different hostnames, and one beyond `MaxRows = 2` with a row that its CIDR refuses (the theorems are about any file); imports follow each other, fail anywhere and crash anywhere, and others run any statement at any moment, the statements of another import among them |
| `MCDiscoverySnapshots` | `PublishesCompleteListings` (refinement), `OneTransaction`, `KeptForRetention` | 2 replicas, 2 namespaces with a Service each (a listing can be half done), retention of one tick |
| `MCDiscoveryLiveness` | `LinksAreSound`, `EventuallyAccurate`, `HeldUpIsTold`, and `ConvergesAtRest`, what is left of the second without fairness | 2 replicas, 1 Service, which may have a hostname twice, 2 rows with its address: unmatched, matched and ambiguous. The clock stands still, because nothing about links and progress depends on it |
| `MCDiscoveryView` | `ViewsAgree`, `MatchesWereExact`, `IncompleteOnlyByRemoval` | 1 replica that reconciles again and again, 1 Service with 2 addresses, 1 row that may hold the first of them, a clock of 2 instants: a request spans any number of reconciliations, a Service is matched by one address and not by the other, and its row is deleted after the retention and made anew while a request reads. Two rows, and so an ambiguous address, are the theorems' |
| `MCCapacity` | `CapacityIsWhatIsAccepted`, `ListFollowsCapacity`, `SiteTotalIsSum` | addresses of 3 and 5 bits, a 4-bit counter, 2 subnets with 2 addresses between them, the first and the last network of each IPv4 length and IPv6 prefixes that fit the counter and do not: each special case of the code (/32, /31, the rest, fits, does not fit) occurs, a subnet fills, and a sum leaves the counter |
| `MCReporting` | `CapturesAreSpaced`, `NoBackfill`, `LatestIsComplete`, `WorkGetsDone` | 2 replicas, 1 subnet, cadence of 1 or 2 ticks, retention of 1 or 2, 4 instants: a waiting statement can be overtaken by a capture, by a change of policy, by the deletion of the subnet |
| `MCSession` | `PageIsCurrent`, `SavesWhereItPoints`, `RolesDecide`, `WaitsForAnAnswer`, `PageSettles` of the page; `CleanExit`, `NoStatementAtExit`, `InterruptEnds` of the process | 2 subnets, one with an address, 2 requests, a pool of one connection, three tokens. The page may be open at the start, since before a restart, with its records: so that 2 requests are enough for a jump or an opening and a save, for two saves, or for a save and another client. One connection makes handlers and runner wait for each other |

Inventory, CsvImport, Discovery with its reader, and Session also check their type
invariant in a run; those of Capacity and Reporting are left to the theorems
`TypeCorrect`.

Bounds on rows, time and addresses are constants of the modules (the sets of
keys, `MaxTime`, `MaxUsed`). Symmetry of keys, replicas, names and requests is
used in the runs without liveness alone.

### Where the code and its words differ

Each of these runs ends with a counterexample to one sentence of the
repository; `PROJECT.json` ("findings") quotes it.

| Run | What happens |
|---|---|
| `MCInventoryValidation` | CreateIP validates against a CIDR that a PATCH replaces before the INSERT: the address is outside its subnet |
| `MCDiscoveryOrder` | a replica that listed earlier and reconciles later replaces the newer listing |
| `MCDiscoveryHostnames` | a load balancer with one hostname twice makes every reconciliation fail, and no Service of the source is updated while it is there |

Five more differences are stated as exceptions in the properties that hold, and
have no run of their own. A failure that meets another replica's lock, or a
deleted site, is not recorded, and the status does not become degraded
(the second disjunct of HeldUpIsTold, and `Settle`, which requires the site). A /32 counts one address, and `validateIPInSubnet`
refuses it (`Host4` in CapacityIsWhatIsAccepted). The totals of a site are added
up in int64 and go negative with two /66 subnets (SiteTotalIsSum speaks of sums that fit).
The total that usage snapshots store is the size of the block, network and
broadcast address included, unlike the subnet's. Two imports at a time, or one
whose read-back failed, create a subnet twice, as nothing in the schema forbids it
(`Newest` picks the one that the next import uses).

### Fairness

`MCDiscoveryLiveness`, `MCDiscoveryHostnames`, `MCReporting` and `MCSession`
assume it. `FairSpec` of Discovery and Reporting has
weak fairness of each replica's `Run(r)`, the steps of its own loop, and of
nothing else: not of failures, clients or the clock. The code justifies it:
the loop waits for a timer that is always set again (`runner.go:25-45`), for
calls that `RequestTimeout` or the connection's end bounds, and for a lock that is
tried and never waited for; Reporting's loop waits for a ticker, and for a row
lock that its holder's transaction, a single statement, gives back.
`Settle` is not in the program: it sets `quiet`, after which clients and
cluster rest and nothing fails, because eventual accuracy can be promised of
nothing else. `Settle` requires that the site is there: without it discovery
fails for ever, as it should. Fairness of the loops does not make two of them miss
each other: a record of a failure may meet the other replica's transaction every
time, and `HeldUpIsTold` excepts just that.

`FairSpec` of Session has weak fairness of the main goroutine, of the server's,
of the end of a runner's statements, and of each request's next step, and strong
fairness of `Acquire`: pgxpool hands its connections out in turn, while weak fairness
would allow a runner to take the only one each time. It has none of the
interrupt, of the clients, of a new cycle, or of Accept's failing on its own
(`ServeEnds` is fair only after Shutdown has closed the listener).

## What is proved

`TablesProofs` proves of `TablesSpec`, for any sets of keys, names, CIDRs and
addresses:

- `TablesInvariant`: types, `ReferentialIntegrity` and `KeysUnique`. Their
  conjunction is inductive; neither half is needed for the other, types are for
  both. The three lemmas about the statements on each table go through the
  statements one by one.
- `AddressIdentityHolds` and `SiteClearing`, the two action properties, from
  the statements and that invariant.

`InventoryProofs` proves of `Inventory`, for any number of requests at the
same time:

- `Refinement`: `Spec => TablesSpec`. Every step of a request is a statement or
  leaves the tables alone; for this the invariant must know that `req` holds the
  arguments that the statement at `pc` needs (`Arguments`: a request at
  `insert_subnet` has a CIDR and a site) and belongs to it (`PcMatchesOp`).
- `SchemaKept`, `RequestsClearNoSite`, `RequestsKeepAddresses`: the schema's
  theorems, carried over by the refinement.
- `TypeCorrect` and `AddressesWereUsable`. The latter is not inductive: a
  request at `insert_ip` has validated its address some time ago, against a CIDR
  that the subnet may no longer have. `Arguments` therefore says that it was
  usable in a CIDR in `cidrsHeld`, which only grows, and `CidrIsHeld` that the
  CIDR just read is one.
- `ExclusiveAnswers`. A 204 for a deletion means that the key is `Deleted`, a
  201 that it is no longer `Unused` (`Claims`), and keys never go back
  (`KeysOnlyAdvance`); a request that has inserted a subnet and not yet read it
  back claims it too, without having answered (`HasCreatedSubnet`). So a step
  that succeeds claims a key nobody else claims (`NewClaims`).
- `AnswersTellTheTruth`: `AnswersAreTruthful`. What others do after a
  request's write must not undo what its answer says: deleted keys stay deleted, and
  an address row keeps its address and subnet for as long as it is there. A
  request between its write and its answer is one at `read_back`, and no other has
  written before its last statement (`Outcomes`, `WriteIsKnown`).

- `RowsAreTouchedThroughTheirSubnet`. The UPDATE of an address goes by its id alone;
  that the row is in the path's subnet was found out one statement earlier, and
  stays so, because rows keep their subnet until they are deleted and keys
  are not used again (`PathIsChecked`).

The inductive invariant is `IInv`, the conjunction of these, with `PathIsChecked`
for the last. The assumptions are `RowsAreNotMarks` (marks and rows are different values) and
`RequestConstants` (`Usable` is a function on CIDRs, `Ops` are known).

`CsvImportProofs` proves of `CsvImport`, for any number of imports at the same
time, any files and any `MaxRows`, with clients or without:

- `ImportUsesStatements`: `Spec => TablesSpec`, and `TypeCorrect`. `RowInv`
  says that the statement an import is at and what its maps hold for its row
  agree, which is what `importRow` has tested before it came there.
- `UpdatesAreExact`. What is invariant of old maps is not that their rows are
  there, but that they were: an id in a list is not `Unused`, and its row, if it
  still has one, has the address and the subnet under which the list keeps it
  (`MapInv`). Rows keep both (`RowsKeepTheirAddress`), and keys are not used again.
- `ImportsAreComplete` and `ImportsAreIdempotent`. As long as nothing disturbs
  an import its maps are exact: `SitesKnown` and `SubnetsKnown` say that they
  have what is in the tables, of several subnets of one key the greatest, and
  nothing else; `IpsKnown` that a list that was loaded is what `ListIPs` would
  answer now. So a row that the maps do not know is inserted without a clash, a row
  they know is updated, and both find it where `Held` looks for it. `RowsDone`
  counts: the rows before the one at hand are in the tables, unless a later
  row has their address, and `failed` is the number of those that are not
  acceptable. `ImportInv` says all this of the imports outside `disturbed`, and
  `MapInv` of the rest; TLC checked it on the instance of `MCCsvImport`.

For `Newest` to be defined there must be a greatest subnet of each key: keys are
`BIGSERIAL`, so numbers, and only finitely many have been given out at any time
(`SubnetsBounded` is part of the invariant). That a bounded set of numbers has a greatest,
and a file a last row for each address, is `GreatestOfBounded`, from the library's
well-founded induction on Nat.

`DiscoveryProofs` proves of `Discovery`, with and without fairness, for any
number of replicas, Services, namespaces and rows, any retention and any length
of time:

- `LockExcludes`: `LockInv` is an equivalence, since a lock that nobody holds
  must be free for the next replica, and one that is given back must not be
  another's.
- `LinksStaySound`. `SoundLink` is demanded of committed rows and of pending ones
  alike, because the COMMIT makes the ones of the others; the candidates read
  by `Match` need not be there any more at `Link`, but have the address that
  they were read for (`CandidatesInv`), and the foreign key sees to the rest.
- `DiscoveryImplementsPublication`: each step maps to a step of
  `SnapshotPublication` or to a stutter. The listing that `Publish` commits is
  complete because a transaction begins with a complete one (`ListingInv`).
- `RowsAreKept` needs that the clock of a listing is not ahead (`ListingInv`) and
  that an inactive row has the time since when it is (`RowsInv`).
- `HeldUpStays`, what is left of `HeldUpIsTold` without fairness, likewise with `FairSpec`:
  a runner that has come round once has the Service that cannot be stored in every listing
  (`KnowsClash`), so that once all have, none commits, the first record of a failure
  makes the source degraded, and nothing changes that.
- `RestConverges`: `ConvergesAtRest`, with `FairSpec`, which alone has a world that
  rests; its fairness is not used. It says why discovery catches up, whatever was
  in the store and however far the runners had got: a runner that has come round to
  its sleep once is up to date (`UpToDate`) and stays so in every step of its own
  (`RunUpToDate`) and of the others (`SameWorkUpToDate`); a transaction of a
  runner that is up to date makes the view accurate (`PublishIsAccurate`), and
  no step makes it less so (`AccurateStays`). `RestInv` says that a runner that sleeps
  keeps nothing of the attempt before and that a world at rest has its site. That
  the runners do go on is the fairness of `EventuallyAccurate`, and TLC's.
- `TypeCorrect`. `ProgressInv` and the second part of `RowsInv`, that
  a Service that is shown has all its addresses, serve the readers below.

`DiscoveryViewProofs` proves of `ViewSpec`, whose steps but for the reader's own are
Discovery's, so that its invariant holds here: `ViewTypeCorrect`, `ViewsAlwaysAgree`,
`MatchesAreExact` and `OnlyRemovalsAreIncomplete`. An answer is judged by a
history that only grows during a request, so `HistoryInv` says that it has all that is
so now; then every part that was read has been in it since (`MatchInv`,
`CompleteInv`), and what has not been read is blank (`BlankInv`). `ViewsAlwaysAgree`
is an identity of the two queries' conditions, which hold of the same links in every
state of the store.

`ReportingProofs` proves of `Reporting`, with and without fairness, for any
number of replicas and subnets, any policies and any length of time:
`TypeCorrect`, `CapturesStaySpaced`, `NothingIsBackfilled`, `LatestStaysComplete`.
They depend on what a statement that waits for the settings row has read before
it began to wait (`ViewInv`): no subnet that was not there then, and all that have
been IPv4 since earlier. That the statement evaluates the due condition again when it gets
the row is what makes spacing inductive; without that the first half of
`CapturesAreSpaced`, no capture after the last, would not survive the one that
was overtaken.

`SessionProofs` proves of `ServeSpec`, for any set of request slots, any tokens
and any size of the pool: `CleanExitHolds` and `NoStatementAtExitHolds`. Neither
is inductive. `DrainInv` says how the process got where it is: past
`shutdown`, with no error to report, it was interrupted and its listener closed, so that no request
can become busy again, and none is; `HoldersInv` that a process that has exited
has waited for the connections, of which a closed pool gives no more.

Of `Session` it proves, for any number of subnets, rows, request slots and
connections:

- `Refinement`: `Spec => ServeSpec`. What a statement does to its request is
  `Proceed` or `Answer`, whatever it does to the rows; a page's request is a
  `Send`. So `CleanExitOfSession` and `NoStatementAtExitOfSession`.
- `SavesPointTrue`: `SavesWhereItPoints`. The page may show another subnet's
  records, so what is invariant is not that a record is in the subnet shown, but
  that a record, an answer or a request that names a row names its address
  (`RecordsAreTrue`, `RequestsAreTrue`), because rows keep their address and
  keys are not used again (`RowsKept`); that the row is in the subnet is what
  the handler finds out, and it stays found out between the check and the UPDATE
  (`ChecksHold`). `SessionInv` is the conjunction of these.
- `RolesDecideAll`: `RolesDecide`. A slot gets busy only by `Accept`, so a
  handler runs only for a method that the claimed roles allow
  (`HandlersAreAuthorized`).
- `TypeCorrect`: an answer to a save has records of the save's address only, and
  a list has one per address because of `unique_ip` (`RowsAreUnique`), so the
  page's filter leaves no second record of an address (`RecordsAreUnique`).
- `PagesStayCurrent`: `PageIsCurrent`. While requests are on their way the
  records are not the rows, and it must be said how they differ: `PageInv` says of
  each address that records and rows are the same unless a save of it is under
  way; of a save, that they are still the same until its statement has run and
  that its answer, unless it is a 500, says what the rows are from then on (`SaveIsTrue`); of a load that is
  answered, that the answer is what the rows are, because no save can be under way
  with it (`LoadIsTrue`, `PendingAreOwn`). Of two DELETEs at a time neither takes the
  other's record away: their ids are those of different rows. TLC checked
  `TypeInv` and `PageInv` with two addresses and three requests before they
  were proved.
- `WaitsAreAnswered`: `WaitsForAnAnswer`, the half of `PageSettles` that needs no
  fairness. Loads share one flag and saves another, so that the first of two
  answers resets it for both. The property is inductive once `TypeInv` says
  that a request is put in a slot where the page waited for none: a jump
  leaves the save that was under way, a save takes the place of another in
  the flag, and an answer resets the flag of its own kind only.

`CapacityProofs` proves of `Capacity`, for addresses of any width (32 and 128 bits and
a counter of 63 are the case of the code, where TLC has 3, 5 and 4) and for any
prefixes that are offered: `TypeCorrect`, `CapacityIsTrue`, `ListIsTrue` and
`SiteTotalIsTrue`. For the first three there is nothing inductive but that the CIDRs of subnets are prefixes; the work is in
`CapacityCounts` and `ListShows`, that the addresses accepted and those shown
are ranges (`AcceptedIsRange`, `ShownIsRange`) with as many members as
`subnetCapacity` says, and that the browser's unsigned numbers never wrap
(`UnsignedIsExact`).

`SiteTotalIsTrue` is about any number of subnets, and needs two things more. The
subnets that there are must be finitely many at any time, for a sum of them to
mean anything (`LiveFinite`, an invariant). And a sum must be what it is meant to
be: the community modules define it by recursion over the set, so `Sums` shows that
the recursion has a value and only one (`SumsExist`, `SumsAreUnique`), each from the least
set for which it would fail, since a strict subset is well-founded on finite sets
(`LeastSubset`); no induction theorem with an operator for a parameter is needed.
`SumUnfolds` takes one member out, and `SumOfSums` adds two sums up. Then the counter
that wraps is the true sum when that fits (`SignedIsExact`), each total is at
least the addresses used (`TotalHoldsUsed`), and so what is free is not negative.

The assumptions about constants are the `ASSUME`s of the modules, which TLC
evaluates in the runs.

Discovery assumes that `Nil` is not a row or a key (`RowsAreNotNil`,
`DiscoveryConstants`), Serve and Session that it is no status, subnet or address, and
that the rows there are at first obey `unique_ip` (`ServeConstants`,
`SessionConstants`). Capacity assumes that powers of two are positive and that
exponents add (`Powers`), which is true and which the provers do not know, and that
what is offered is a masked prefix (`OfferedAreValid`). CsvImport that subnets have numbers and that `importRow` masks
its prefix (`ImportConstants`).

Every safety invariant and action property that the passing runs check is stated
by a theorem; `KeysUnique`, which the unique indexes make true, by a theorem alone.
Model-checked only are the liveness properties:
`EventuallyAccurate` and `HeldUpIsTold` of Discovery, `WorkGetsDone` of Reporting, `InterruptEnds`
of Serve and `PageSettles` of Session. They need fairness and `ENABLED`, which are out
of the provers' reach; of Discovery's two and of `PageSettles` the half that needs
neither is proved. The three counterexamples are TLC's too.

## What is abstracted or left out

- Descriptions, timestamps and texts of sites, subnets and addresses. The
  length of an error's text matters at one place, which is a hazard without a property.
- The GET requests that are one statement, or whose parts need not fit: the lists of
  the overview, `Statistics` (its numbers are of one moment, its sites of an
  earlier one), the usage history.
- CSV syntax and the sizes of file and field: a row that does not parse fails
  like one whose address the CIDR refuses, before any statement.
- What ports, names and hostnames of a Service are: they come and go with its row.
  The lengths of the discovery loop's back-off: it may wake at any time.
- In Serve: the verification of tokens (good or refused), CORS, `healthz` and `readyz`,
  the environment's parsing, and the discovery runner, which starts last and stops like
  the other. A process that is killed, as SIGTERM does, is a crash in the modules of
  import, discovery and reporting.
- In Session: the Services of the page (DiscoveryView), the window of addresses
  (Capacity's `Shown`), error messages, the usage panel. The subnets of the page
  stay; deleting one is Inventory's.
- The overview, its forms and its refreshes; deployment; logging; the generated
  documentation; the integration tests.
- The deadlock that PostgreSQL resolves when an address is deleted between
  `Match` and `Link`: it fails one of the two, which the model has as a
  failure of the transaction or a DELETE that does not happen.

## Not modelled

Logging, health probes, generated documentation, deployment and the
integration tests have no logic that a model could get wrong. The verification of tokens is
a library's. The overview, the usage panel and `Statistics` show lists that are
out of date as soon as they are made, and the code promises nothing else.

## Plan

Done, in this order: Tables, Inventory with its proofs, SnapshotPublication
and Discovery, Capacity, CsvImport, Reporting, DiscoveryView, Serve and
Session with their proofs, then the proofs of Discovery, Reporting,
DiscoveryView, CsvImport and Capacity, of the page's records and its waiting in
Session, of the totals of a site, and of Discovery's convergence. What would come
next is liveness itself, with a prover that knows `ENABLED`.
