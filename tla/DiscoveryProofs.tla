--------------------------- MODULE DiscoveryProofs ---------------------------
(***************************************************************************)
(* What Discovery says of links, locks, retention, convergence and of the  *)
(* snapshots shown, for any number of replicas, Services, namespaces and   *)
(* address rows.                                                           *)
(***************************************************************************)
EXTENDS Discovery, FiniteSetTheorems, TLAPS

AnyNext == Next \/ Settle

-----------------------------------------------------------------------------
(* Operators.                                                              *)

LEMMA MatchOfOne ==
    ASSUME NEW candidates \in SUBSET IpIds
    PROVE  /\ MatchOf(candidates) \in Matches
           /\ MatchOf(candidates).link # Nil => MatchOf(candidates).link \in candidates
<1>1. CASE candidates = {}
  BY <1>1, FS_EmptySet DEF MatchOf, Matches
<1>2. CASE candidates # {} /\ Cardinality(candidates) = 1
  <2>1. (CHOOSE i \in candidates : TRUE) \in candidates
    BY <1>2
  <2>2. MatchOf(candidates) = [status |-> "matched", link |-> CHOOSE i \in candidates : TRUE]
    BY <1>2, Zenon DEF MatchOf
  <2>3. QED
    BY <2>1, <2>2 DEF Matches
<1>3. CASE candidates # {} /\ Cardinality(candidates) # 1
  <2>1. MatchOf(candidates) = [status |-> "ambiguous", link |-> Nil]
    BY <1>3, Zenon DEF MatchOf
  <2>2. QED
    BY <2>1 DEF Matches
<1>4. QED
  BY <1>1, <1>2, <1>3

LEMMA LiteralsArePairs ==
    ASSUME NEW l \in Literals
    PROVE  /\ l[1] \in Nat /\ l[2] \in Nat /\ l[1] \in Uids
           /\ l = <<l[1], l[2]>>
<1>1. l \in Uids \X UNION {AddressesOf[u] : u \in Uids} /\ l[2] \in AddressesOf[l[1]]
  BY DEF Literals
<1>2. l[1] \in Uids /\ l = <<l[1], l[2]>>
  BY <1>1
<1>3. QED
  BY <1>1, <1>2, DiscoveryConstants

\* The listing has one first address left at most.
LEMMA FirstIsUnique ==
    ASSUME NEW r \in Replicas, todo \in [Replicas -> SUBSET Literals],
           NEW l \in Literals, NEW k \in Literals, First(r, l), First(r, k)
    PROVE  l = k
  BY LiteralsArePairs DEF First

LEMMA ReconciledTyped ==
    ASSUME TypeOK, NEW r \in Replicas, NEW u \in Uids
    PROVE  /\ Reconciled(r, u) \in ServiceRow \cup {Nil}
           /\ u \in snapshot[r] <=> Reconciled(r, u) # Nil /\ Reconciled(r, u).active
<1> USE RowsAreNotNil DEF TypeOK
<1>1. CASE u \in snapshot[r]
  <2>1. Observed \in ServiceRow /\ Observed.active
    BY DEF Observed, ServiceRow
  <2>2. Reconciled(r, u) = Observed
    BY <1>1 DEF Reconciled
  <2>3. QED
    BY <1>1, <2>1, <2>2
<1>2. CASE u \notin snapshot[r] /\ rows[u] = Nil
  BY <1>2 DEF Reconciled
<1>3. CASE u \notin snapshot[r] /\ rows[u] # Nil
  <2>1. rows[u] \in ServiceRow
    BY <1>3
  <2>2. /\ MarkedMissing(rows[u], observed[r]) \in ServiceRow
        /\ ~MarkedMissing(rows[u], observed[r]).active
    BY <2>1 DEF MarkedMissing, ServiceRow
  <2>3. QED
    BY <1>3, <2>2 DEF Reconciled
<1>4. QED
  BY <1>1, <1>2, <1>3
-----------------------------------------------------------------------------
(* Types.                                                                  *)

LEMMA TypeInit == Init => TypeOK
<1>1. 0 \in Times /\ 1 \in 1 .. Namespaces
  BY DiscoveryConstants DEF Times
<1>2. NoLinks \in [Literals -> Matches \cup {Nil}]
  BY DEF NoLinks
<1>3. ASSUME Init
      PROVE  /\ now \in Times /\ cluster \subseteq Uids /\ twice \subseteq cluster /\ quiet \in BOOLEAN
             /\ site \in BOOLEAN
             /\ place \in [IpIds -> {"unused", "inside", "outside", "deleted"}]
             /\ source = Nil /\ rows \in [Uids -> ServiceRow \cup {Nil}]
             /\ addresses \in [Literals -> Matches \cup {Nil}]
  BY <1>1, <1>2, <1>3 DEF Init
<1>4. ASSUME Init
      PROVE  /\ todo \in [Replicas -> SUBSET Literals]
             /\ found \in [Replicas -> SUBSET IpIds]
             /\ links \in [Replicas -> [Literals -> Matches \cup {Nil}]]
             /\ listed \subseteq SUBSET Uids
             /\ snapshot \in [Replicas -> SUBSET Uids]
  BY <1>2, <1>4 DEF Init
<1>5. ASSUME Init
      PROVE  /\ lock = Nil
             /\ pc \in [Replicas -> {"sleep", "list", "lock", "match", "link", "publish",
                            "fail", "record"}]
             /\ started \in [Replicas -> Times]
             /\ namespace \in [Replicas -> 1 .. Namespaces]
             /\ clash \in [Replicas -> BOOLEAN]
             /\ observed \in [Replicas -> Times]
  BY <1>1, <1>5 DEF Init
<1>6. QED
  BY <1>3, <1>4, <1>5 DEF TypeOK

\* The world around the runners.
LEMMA WorldTypes == TypeOK /\ (World \/ Settle) => TypeOK'
<1> SUFFICES ASSUME TypeOK, World \/ Settle PROVE TypeOK'
  OBVIOUS
<1>0. /\ cluster \subseteq Uids /\ twice \subseteq cluster
      /\ place \in [IpIds -> {"unused", "inside", "outside", "deleted"}]
  BY DEF TypeOK
<1>2. CASE ClusterChanges
  <2>1. PICK u \in Uids :
           \/ /\ cluster' = IF u \in cluster THEN cluster \ {u} ELSE cluster \cup {u}
              /\ twice' = twice \ {u}
           \/ /\ u \in cluster \cap Conflicting
              /\ twice' = IF u \in twice THEN twice \ {u} ELSE twice \cup {u}
              /\ UNCHANGED cluster
    BY <1>2 DEF ClusterChanges
  <2>2. cluster' \subseteq Uids
    BY <1>0, <2>1
  <2>3. twice' \subseteq cluster'
    BY <1>0, <2>1
  <2>4. UNCHANGED <<now, quiet, ipam, store, runners>>
    BY <1>2 DEF ClusterChanges
  <2>5. QED
    BY <2>2, <2>3, <2>4 DEF TypeOK, ipam, store, attempt, transaction, runners
<1>3. CASE \E i \in IpIds : PlaceIp(i)
  <2>1. PICK i \in IpIds : PlaceIp(i)
    BY <1>3
  <2>2. place' \in [IpIds -> {"unused", "inside", "outside", "deleted"}]
    BY <1>0, <2>1 DEF PlaceIp
  <2>3. UNCHANGED <<now, cluster, twice, quiet, site, store, runners>>
    BY <2>1 DEF PlaceIp
  <2>4. QED
    BY <2>2, <2>3 DEF TypeOK, store, attempt, transaction, runners
<1> USE DiscoveryConstants DEF TypeOK, ipam, store, attempt, transaction, runners
<1>1. CASE Tick
  <2>1. now' \in Times
    BY <1>1 DEF Tick, Times
  <2>2. QED
    BY <1>1, <2>1 DEF Tick
<1>4. CASE \E i \in IpIds : DeleteIp(i)
  <2>1. PICK i \in IpIds : DeleteIp(i)
    BY <1>4
  <2>2. ASSUME NEW l \in Literals
        PROVE  (IF addresses[l] # Nil /\ addresses[l].link = i
                THEN [addresses[l] EXCEPT !.link = Nil] ELSE addresses[l]) \in Matches \cup {Nil}
    BY DEF Matches
  <2>3. addresses' \in [Literals -> Matches \cup {Nil}]
    BY <2>1, <2>2 DEF DeleteIp
  <2>4. QED
    BY <2>1, <2>3 DEF DeleteIp
<1>5. CASE DeleteSite
  BY <1>5 DEF DeleteSite, NoLinks
<1>6. CASE Settle
  BY <1>6 DEF Settle
<1>7. QED
  BY <1>1, <1>2, <1>3, <1>4, <1>5, <1>6 DEF World

\* The types of what the runners have, and of the database.
RunnersTypeOK ==
    /\ lock \in Replicas \cup {Nil}
    /\ pc \in [Replicas -> {"sleep", "list", "lock", "match", "link", "publish",
                            "fail", "record"}]
    /\ started \in [Replicas -> Times]
    /\ namespace \in [Replicas -> 1 .. Namespaces]
    /\ snapshot \in [Replicas -> SUBSET Uids]
    /\ clash \in [Replicas -> BOOLEAN]
    /\ observed \in [Replicas -> Times]
    /\ todo \in [Replicas -> SUBSET Literals]
    /\ found \in [Replicas -> SUBSET IpIds]
    /\ links \in [Replicas -> [Literals -> Matches \cup {Nil}]]
    /\ listed \subseteq SUBSET Uids

StoreTypeOK ==
    /\ source \in SourceRow \cup {Nil}
    /\ rows \in [Uids -> ServiceRow \cup {Nil}]
    /\ addresses \in [Literals -> Matches \cup {Nil}]

LEMMA ResetTypes ==
    ASSUME TypeOK, NEW r \in Replicas, Sleep(r) \/ GiveUp(r)
    PROVE  RunnersTypeOK'
<1> USE DiscoveryConstants DEF TypeOK, RunnersTypeOK, Goto, Times
<1>1. NoLinks \in [Literals -> Matches \cup {Nil}]
  BY DEF NoLinks
<1>2. CASE Sleep(r)
  BY <1>1, <1>2 DEF Sleep
<1>3. CASE GiveUp(r)
  BY <1>1, <1>3 DEF GiveUp
<1>4. QED
  BY <1>2, <1>3

LEMMA RunnersTypes ==
    ASSUME TypeOK, NEW r \in Replicas, Run(r) \/ Fault(r)
    PROVE  RunnersTypeOK'
<1>1. CASE Sleep(r) \/ GiveUp(r)
  BY <1>1, ResetTypes
<1> USE DiscoveryConstants DEF TypeOK, RunnersTypeOK, Goto, attempt, transaction, NextAddress
<1>2. CASE Wake(r)
  <2>1. /\ started' \in [Replicas -> Times]
        /\ pc' \in [Replicas -> {"sleep", "list", "lock", "match", "link", "publish",
                                "fail", "record"}]
    BY <1>2 DEF Wake
  <2>2. UNCHANGED <<lock, namespace, snapshot, clash, observed, todo, found, links, listed>>
    BY <1>2 DEF Wake
  <2>3. QED
    BY <2>1, <2>2
<1>3. CASE ListNamespace(r)
  <2>1. {u \in cluster : NamespaceOf[u] = namespace[r]} \subseteq Uids
    OBVIOUS
  <2> DEFINE seen == snapshot[r] \cup {u \in cluster : NamespaceOf[u] = namespace[r]}
  <2>2. /\ snapshot' = [snapshot EXCEPT ![r] = seen]
        /\ seen \subseteq Uids
        /\ listed' = listed \/ listed' = listed \cup {seen}
        /\ UNCHANGED <<lock, started, todo, found, links>>
    BY <1>3, <2>1 DEF ListNamespace
  <2>3. clash' \in [Replicas -> BOOLEAN]
    BY <1>3 DEF ListNamespace
  <2>4. /\ pc' = pc \/ pc' = [pc EXCEPT ![r] = "lock"]
        /\ observed' = observed \/ observed' = [observed EXCEPT ![r] = now]
    <3> HIDE DEF TypeOK
    <3>1. QED
      BY <1>3 DEF ListNamespace
  <2>5. namespace' \in [Replicas -> 1 .. Namespaces]
    <3>1. namespace \in [Replicas -> 1 .. Namespaces] /\ Namespaces \in Nat \ {0}
      OBVIOUS
    <3> HIDE DEF TypeOK
    <3>2. \/ namespace[r] < Namespaces /\ namespace' = [namespace EXCEPT ![r] = namespace[r] + 1]
          \/ namespace' = [namespace EXCEPT ![r] = 1]
      BY <1>3 DEF ListNamespace
    <3>3. QED
      BY <3>1, <3>2
  <2> HIDE DEF seen
  <2>6. /\ pc' \in [Replicas -> {"sleep", "list", "lock", "match", "link", "publish",
                               "fail", "record"}]
        /\ observed' \in [Replicas -> Times]
    <3>1. /\ \A q \in Replicas : pc'[q] \in {pc[q], "lock"} /\ observed'[q] \in {observed[q], now}
          /\ DOMAIN pc' = Replicas /\ DOMAIN observed' = Replicas
      BY <2>4
    <3>2. pc' = [q \in Replicas |-> pc'[q]] /\ observed' = [q \in Replicas |-> observed'[q]]
      BY <2>4
    <3>3. QED
      BY <3>1, <3>2
  <2>7. snapshot' \in [Replicas -> SUBSET Uids]
    BY <2>2
  <2>8. listed' \subseteq SUBSET Uids
    <3>1. seen \in SUBSET Uids /\ listed \subseteq SUBSET Uids
      BY <2>2
    <3> HIDE DEF TypeOK
    <3>2. QED
      BY <2>2, <3>1
  <2>9. UNCHANGED <<lock, started, todo, found, links>>
    BY <2>2
  <2>10. /\ lock' \in Replicas \cup {Nil} /\ started' \in [Replicas -> Times]
         /\ todo' \in [Replicas -> SUBSET Literals]
         /\ found' \in [Replicas -> SUBSET IpIds]
         /\ links' \in [Replicas -> [Literals -> Matches \cup {Nil}]]
    BY <2>9
  <2> HIDE DEF TypeOK
  <2>11. QED
    BY <2>3, <2>5, <2>6, <2>7, <2>8, <2>10
<1>4. CASE Begin(r)
  <2>1. Named(snapshot[r]) \subseteq Literals
    BY DEF Named
  <2>2. CASE ~Sleep(r) /\ ~GiveUp(r)
    <3>1. /\ todo' = [todo EXCEPT ![r] = Named(snapshot[r])]
          /\ lock' = r
          /\ NextAddress(r, Named(snapshot[r]))
          /\ UNCHANGED <<attempt, found, links, listed>>
      BY <1>4, <2>2 DEF Begin, TryLock
    <3>2. QED
      BY <2>1, <3>1
  <2>3. QED
    BY <1>1, <2>2
<1>5. CASE Match(r)
  BY <1>5 DEF Match, Candidates
<1>6. CASE Link(r) /\ ~GiveUp(r)
  <2>1. PICK l \in Literals : /\ links' = [links EXCEPT ![r][l] = MatchOf(found[r])]
                             /\ todo' = [todo EXCEPT ![r] = @ \ {l}]
                             /\ NextAddress(r, todo[r] \ {l})
    BY <1>6 DEF Link
  <2>2. links' \in [Replicas -> [Literals -> Matches \cup {Nil}]]
    <3>1. MatchOf(found[r]) \in Matches
      BY MatchOfOne
    <3>2. [links[r] EXCEPT ![l] = MatchOf(found[r])] \in [Literals -> Matches \cup {Nil}]
      BY <3>1
    <3>3. QED
      BY <2>1, <3>2
  <2>3. QED
    <3>1. found' = [found EXCEPT ![r] = {}] /\ UNCHANGED <<lock, attempt, listed>>
      BY <1>6 DEF Link
    <3>2. todo' \in [Replicas -> SUBSET Literals]
      BY <2>1
    <3>3. QED
      BY <2>1, <2>2, <3>1, <3>2
<1>7. CASE BeginRecord(r)
  <2>1. CASE ~Sleep(r)
    <3>1. lock' = r /\ Goto(r, "record") /\ UNCHANGED <<attempt, transaction, listed>>
      BY <1>7, <2>1 DEF BeginRecord, TryLock
    <3>2. QED
      BY <3>1
  <2>2. QED
    BY <1>1, <2>1
<1>8. QED
  BY <1>1, <1>2, <1>3, <1>4, <1>5, <1>6, <1>7
     DEF Run, Fault, Publish, RecordFailure, ListFails, ReconcileFails, RecordFails, Crash

LEMMA StoreTypes ==
    ASSUME TypeOK, NEW r \in Replicas, Run(r) \/ Fault(r)
    PROVE  StoreTypeOK'
<1> USE DEF TypeOK, StoreTypeOK
<1>1. CASE UNCHANGED store
  BY <1>1 DEF store
<1>2. CASE Commit(r)
  <2>1. \A u \in Uids : Reconciled(r, u) \in ServiceRow \cup {Nil}
    BY ReconciledTyped
  <2>2. \A l \in Literals : Linked(r, l) \in Matches \cup {Nil}
    BY DEF Linked
  <2>3. Success(observed[r]) \in SourceRow
    BY DEF Success, SourceRow
  <2>4. QED
    BY <1>2, <2>1, <2>2, <2>3 DEF Commit
<1>3. CASE RecordFailure(r) /\ ~UNCHANGED store
  <2>1. Failure(started[r]) \in SourceRow
    BY DEF Failure, LastSuccess, SourceRow
  <2>2. QED
    BY <1>3, <2>1 DEF RecordFailure, store
<1>4. QED
  BY <1>1, <1>2, <1>3
     DEF Run, Fault, Wake, ListNamespace, Begin, Match, Link, Publish, BeginRecord,
         ListFails, ReconcileFails, RecordFails, Crash

LEMMA TypeStep == TypeOK /\ [AnyNext]_vars => TypeOK'
<1> SUFFICES ASSUME TypeOK, [AnyNext]_vars PROVE TypeOK'
  OBVIOUS
<1>1. CASE World \/ Settle
  BY <1>1, WorldTypes
<1>2. ASSUME NEW r \in Replicas, Run(r) \/ Fault(r)
      PROVE  TypeOK'
  <2>1. UNCHANGED environment
    BY <1>2 DEF Run, Fault, Wake, ListNamespace, Begin, Match, Link, Publish, BeginRecord,
                RecordFailure, ListFails, ReconcileFails, RecordFails, Crash
  <2>2. RunnersTypeOK' /\ StoreTypeOK'
    BY <1>2, RunnersTypes, StoreTypes
  <2>3. QED
    BY <2>1, <2>2 DEF TypeOK, RunnersTypeOK, StoreTypeOK, environment, ipam
<1>3. CASE UNCHANGED vars
  BY <1>3 DEF vars, environment, ipam, store, runners, attempt, transaction, TypeOK
<1>4. QED
  BY <1>1, <1>2, <1>3 DEF AnyNext, Next
-----------------------------------------------------------------------------
(* The inductive invariant.                                                *)

\* The advisory lock is with whoever works in a transaction, and only there.
LockInv == \A r \in Replicas : lock = r <=> InTransaction(r) \/ pc[r] = "record"

\* What is reconciled is a complete listing, taken in the past.
ListingInv(r) ==
    /\ pc[r] = "lock" \/ InTransaction(r) => snapshot[r] \in listed
    /\ observed[r] <= now

\* Until the COMMIT each address of the listing is still to come or has a row.
ProgressInv(r) ==
    /\ InTransaction(r) =>
          \A l \in Literals : l[1] \in snapshot[r] => l \in todo[r] \/ links[r][l] # Nil
    /\ pc[r] = "publish" => todo[r] = {}

\* The candidates have the address for which they were read, and were there.
CandidatesInv(r) ==
    pc[r] = "link" =>
       \A i \in found[r] :
          /\ place[i] # "unused"
          /\ \A l \in Literals : First(r, l) => IpAddress[i] = l[2]

SoundLink(row, l) ==
    row # Nil /\ row.link # Nil =>
       /\ place[row.link] \in {"inside", "outside"}
       /\ IpAddress[row.link] = l[2]

CommittedInv == \A l \in Literals : SoundLink(addresses[l], l)
PendingInv(r) ==
    /\ \A l \in Literals : SoundLink(links[r][l], l)
    /\ ~InTransaction(r) => links[r] = NoLinks

LocalInv(r) == ListingInv(r) /\ ProgressInv(r) /\ CandidatesInv(r) /\ PendingInv(r)

\* Rows: an inactive Service has the time since when, an active one has all
\* its addresses.
RowsInv ==
    /\ \A u \in Uids : rows[u] # Nil /\ ~rows[u].active => rows[u].stale_at \in Times
    /\ \A l \in Literals : l[1] \in Active => addresses[l] # Nil

Inv ==
    /\ TypeOK /\ LockInv /\ CommittedInv /\ RowsInv
    /\ \A r \in Replicas : LocalInv(r)

LEMMA InvInit == Init => Inv
<1> SUFFICES ASSUME Init PROVE Inv
  OBVIOUS
<1>1. TypeOK
  BY TypeInit
<1>2. LockInv
  BY DiscoveryConstants DEF Init, LockInv, InTransaction
<1>3. CommittedInv /\ RowsInv
  BY DEF Init, CommittedInv, RowsInv, SoundLink, NoLinks, Active
<1>4. ASSUME NEW r \in Replicas
      PROVE  LocalInv(r)
  BY DEF Init, LocalInv, ListingInv, ProgressInv, CandidatesInv, PendingInv, InTransaction,
         SoundLink, NoLinks
<1>5. QED
  BY <1>1, <1>2, <1>3, <1>4 DEF Inv
-----------------------------------------------------------------------------
(* What a runner's step does.                                              *)

\* All that the invariant says of a runner.
SameLocals(q) ==
    /\ pc'[q] = pc[q] /\ snapshot'[q] = snapshot[q] /\ observed'[q] = observed[q]
    /\ todo'[q] = todo[q] /\ found'[q] = found[q] /\ links'[q] = links[q]

LEMMA ResetStep ==
    ASSUME TypeOK, NEW r \in Replicas, Sleep(r) \/ GiveUp(r)
    PROVE  /\ pc'[r] \in {"sleep", "fail"} /\ observed'[r] = 0 /\ links'[r] = NoLinks
           /\ listed' = listed
           /\ lock' = IF lock = r THEN Nil ELSE lock
           /\ \A q \in Replicas \ {r} : SameLocals(q)
<1>1. CASE Sleep(r)
  BY <1>1 DEF Sleep, TypeOK, Goto, SameLocals
<1>2. CASE GiveUp(r)
  BY <1>2 DEF GiveUp, TypeOK, Goto, SameLocals
<1>3. QED
  BY <1>1, <1>2

\* A step that goes on: the statements of the runner itself.
Advance(r) ==
    \/ Wake(r) \/ ListNamespace(r) \/ Match(r)
    \/ Begin(r) /\ ~Sleep(r) /\ ~GiveUp(r)
    \/ Link(r) /\ ~GiveUp(r)
    \/ BeginRecord(r) /\ ~Sleep(r)

LEMMA ResetOrAdvance ==
    ASSUME NEW r \in Replicas, Run(r) \/ Fault(r)
    PROVE  /\ Sleep(r) \/ GiveUp(r) \/ Advance(r)
           /\ UNCHANGED environment
           /\ \/ UNCHANGED store
              \/ Commit(r) /\ (Sleep(r) \/ GiveUp(r))
              \/ RecordFailure(r)
<1>1. Sleep(r) \/ GiveUp(r) \/ Advance(r)
  BY DEF Run, Fault, Advance, Publish, RecordFailure, ListFails, ReconcileFails, RecordFails, Crash
<1>2. /\ UNCHANGED environment
      /\ UNCHANGED store \/ (Commit(r) /\ (Sleep(r) \/ GiveUp(r))) \/ RecordFailure(r)
  BY DEF Run, Fault, Wake, ListNamespace, Begin, Match, Link, Publish, BeginRecord,
         RecordFailure, ListFails, ReconcileFails, RecordFails, Crash
<1>3. QED
  BY <1>1, <1>2

LEMMA AdvanceOthers ==
    ASSUME TypeOK, NEW r \in Replicas, Advance(r), NEW q \in Replicas \ {r}
    PROVE  SameLocals(q) /\ listed \subseteq listed'
<1> USE DEF SameLocals, TypeOK, Goto, attempt, transaction, NextAddress
<1>1. CASE Wake(r)
  BY <1>1 DEF Wake
<1>2. CASE ListNamespace(r)
  BY <1>2 DEF ListNamespace
<1>3. CASE Match(r)
  BY <1>3 DEF Match
<1>4. CASE Begin(r) /\ ~Sleep(r) /\ ~GiveUp(r)
  BY <1>4 DEF Begin, TryLock
<1>5. CASE Link(r) /\ ~GiveUp(r)
  <2>1. PICK l \in Literals : /\ links' = [links EXCEPT ![r][l] = MatchOf(found[r])]
                             /\ todo' = [todo EXCEPT ![r] = @ \ {l}]
                             /\ NextAddress(r, todo[r] \ {l})
                             /\ found' = [found EXCEPT ![r] = {}]
                             /\ UNCHANGED <<lock, attempt, listed>>
    BY <1>5 DEF Link
  <2>2. QED
    BY <2>1
<1>6. CASE BeginRecord(r) /\ ~Sleep(r)
  BY <1>6 DEF BeginRecord, TryLock
<1>7. QED
  BY <1>1, <1>2, <1>3, <1>4, <1>5, <1>6 DEF Advance

LEMMA LinkStep ==
    ASSUME TypeOK, NEW r \in Replicas, Link(r), ~GiveUp(r)
    PROVE  \E l \in Literals :
              /\ First(r, l)
              /\ links'[r] = [links[r] EXCEPT ![l] = MatchOf(found[r])]
              /\ todo'[r] = todo[r] \ {l} /\ found'[r] = {}
              /\ pc'[r] = IF todo[r] \ {l} = {} THEN "publish" ELSE "match"
              /\ MatchOf(found[r]).link # Nil => place[MatchOf(found[r]).link] # "deleted"
              /\ UNCHANGED <<lock, attempt, listed>>
<1>1. PICK l \in Literals : /\ First(r, l)
                           /\ links' = [links EXCEPT ![r][l] = MatchOf(found[r])]
                           /\ todo' = [todo EXCEPT ![r] = @ \ {l}]
                           /\ NextAddress(r, todo[r] \ {l})
  BY DEF Link
<1>2. /\ found' = [found EXCEPT ![r] = {}]
      /\ MatchOf(found[r]).link # Nil => place[MatchOf(found[r]).link] # "deleted"
      /\ UNCHANGED <<lock, attempt, listed>>
  BY DEF Link
<1>3. links'[r] = [links[r] EXCEPT ![l] = MatchOf(found[r])]
  BY <1>1 DEF TypeOK
<1>4. todo'[r] = todo[r] \ {l} /\ found'[r] = {}
  BY <1>1, <1>2 DEF TypeOK
<1>5. pc'[r] = IF todo[r] \ {l} = {} THEN "publish" ELSE "match"
  BY <1>1 DEF TypeOK, NextAddress, Goto
<1>6. QED
  BY <1>1, <1>2, <1>3, <1>4, <1>5

\* Only who finds it free takes the lock, and whoever ends a transaction
\* gives it back.
LEMMA LockStep ==
    ASSUME TypeOK, LockInv, NEW r \in Replicas, Run(r) \/ Fault(r)
    PROVE  LockInv'
<1> USE DiscoveryConstants DEF LockInv, InTransaction
<1>1. ASSUME NEW q \in Replicas \ {r}
      PROVE  pc'[q] = pc[q]
  BY <1>1, ResetOrAdvance, ResetStep, AdvanceOthers DEF SameLocals
<1>2. CASE Sleep(r) \/ GiveUp(r)
  BY <1>1, <1>2, ResetStep
<1>3. CASE Wake(r)
  <2>1. lock' = lock /\ pc[r] = "sleep" /\ pc'[r] = "list"
    BY <1>3 DEF Wake, TypeOK, Goto
  <2>2. QED
    BY <1>1, <2>1
<1>4. CASE ListNamespace(r)
  <2>1. lock' = lock /\ pc[r] = "list" /\ (pc' = pc \/ pc' = [pc EXCEPT ![r] = "lock"])
    BY <1>4 DEF ListNamespace, Goto
  <2>2. pc'[r] \in {"list", "lock"}
    BY <2>1 DEF TypeOK
  <2>3. QED
    BY <1>1, <2>1, <2>2
<1>5. CASE Match(r)
  <2>1. lock' = lock /\ pc[r] = "match" /\ pc'[r] = "link"
    BY <1>5 DEF Match, TypeOK, Goto
  <2>2. QED
    BY <1>1, <2>1
<1>6. CASE Begin(r) /\ ~Sleep(r) /\ ~GiveUp(r)
  <2>1. lock = Nil /\ lock' = r /\ pc'[r] \in {"publish", "match"}
    BY <1>6 DEF Begin, TryLock, NextAddress, Goto, TypeOK
  <2>2. QED
    BY <1>1, <2>1
<1>7. CASE Link(r) /\ ~GiveUp(r)
  <2>1. lock' = lock /\ pc[r] = "link" /\ pc'[r] \in {"publish", "match"}
    BY <1>7, LinkStep DEF Link
  <2>2. QED
    BY <1>1, <2>1
<1>8. CASE BeginRecord(r) /\ ~Sleep(r)
  <2>1. lock = Nil /\ lock' = r /\ pc'[r] = "record"
    BY <1>8 DEF BeginRecord, TryLock, Goto, TypeOK
  <2>2. QED
    BY <1>1, <2>1
<1>9. QED
  BY <1>2, <1>3, <1>4, <1>5, <1>6, <1>7, <1>8, ResetOrAdvance DEF Advance

\* What was true of a runner stays true if it has not moved.
LEMMA SameLocalInv ==
    ASSUME TypeOK, NEW q \in Replicas, LocalInv(q), SameLocals(q),
           listed \subseteq listed', UNCHANGED environment
    PROVE  LocalInv(q)'
<1> USE DEF SameLocals, LocalInv, environment, ipam
<1>1. ListingInv(q)'
  BY DEF ListingInv, InTransaction
<1>2. ProgressInv(q)'
  BY DEF ProgressInv, InTransaction
<1>3. CandidatesInv(q)'
  BY DEF CandidatesInv, First
<1>4. PendingInv(q)'
  BY DEF PendingInv, InTransaction, SoundLink, NoLinks
<1>5. QED
  BY <1>1, <1>2, <1>3, <1>4

\* A runner that goes on with its listing or its transaction.
LEMMA AdvanceLocal ==
    ASSUME TypeOK, NEW r \in Replicas, LocalInv(r), Advance(r), UNCHANGED environment
    PROVE  LocalInv(r)'
<1> USE DEF TypeOK, InTransaction
<1>0. LocalInv(r) /\ now' = now /\ place' = place /\ cluster' = cluster
  BY DEF environment, ipam
<1>1. CASE Wake(r)
  <2>1. /\ pc[r] = "sleep" /\ pc'[r] = "list"
        /\ UNCHANGED <<snapshot, observed, todo, found, links, listed>>
    BY <1>1 DEF Wake, Goto, transaction
  <2>2. QED
    BY <1>0, <2>1 DEF LocalInv, ListingInv, ProgressInv, CandidatesInv, PendingInv, SoundLink, NoLinks
<1>2. CASE ListNamespace(r)
  <2>1. pc[r] = "list" /\ links' = links
    BY <1>2 DEF ListNamespace, transaction
  <2>2. \/ pc'[r] = "list" /\ observed' = observed
        \/ pc'[r] = "lock" /\ snapshot'[r] \in listed' /\ observed'[r] = now
    BY <1>2 DEF ListNamespace, Goto
  <2>3. now <= now
    BY DEF Times
  <2>4. QED
    BY <1>0, <2>1, <2>2, <2>3
       DEF LocalInv, ListingInv, ProgressInv, CandidatesInv, PendingInv, SoundLink, NoLinks
<1>3. CASE Begin(r) /\ ~Sleep(r) /\ ~GiveUp(r)
  <2>1. /\ pc[r] = "lock" /\ todo'[r] = Named(snapshot[r])
        /\ pc'[r] = IF Named(snapshot[r]) = {} THEN "publish" ELSE "match"
        /\ UNCHANGED <<snapshot, observed, found, links, listed>>
    BY <1>3 DEF Begin, Goto, NextAddress, attempt
  <2>2. ListingInv(r)' /\ ProgressInv(r)'
    BY <1>0, <2>1 DEF LocalInv, ListingInv, ProgressInv, Named
  <2>3. CandidatesInv(r)' /\ PendingInv(r)'
    BY <1>0, <2>1 DEF LocalInv, CandidatesInv, PendingInv, SoundLink, NoLinks
  <2>4. QED
    BY <2>2, <2>3 DEF LocalInv
<1>4. CASE Match(r)
  <2>1. PICK l \in Literals : First(r, l) /\ found' = [found EXCEPT ![r] = Candidates(l[2])]
    BY <1>4 DEF Match
  <2>2. /\ pc[r] = "match" /\ pc'[r] = "link" /\ found'[r] = Candidates(l[2])
        /\ UNCHANGED <<snapshot, observed, todo, links, listed>>
    BY <1>4, <2>1 DEF Match, Goto, attempt
  <2>3. ListingInv(r)' /\ ProgressInv(r)' /\ PendingInv(r)'
    BY <1>0, <2>2 DEF LocalInv, ListingInv, ProgressInv, PendingInv, SoundLink, NoLinks
  <2>4. \A k \in Literals : First(r, k)' => k = l
    <3>1. \A k \in Literals : First(r, k)' => First(r, k)
      BY <2>2 DEF First
    <3>2. QED
      BY <2>1, <3>1, FirstIsUnique
  <2>5. CandidatesInv(r)'
    BY <1>0, <2>2, <2>4 DEF CandidatesInv, Candidates
  <2>6. QED
    BY <2>3, <2>5 DEF LocalInv
<1>5. CASE Link(r) /\ ~GiveUp(r)
  <2> DEFINE match == MatchOf(found[r])
  <2>1. PICK l \in Literals :
           /\ First(r, l)
           /\ links'[r] = [links[r] EXCEPT ![l] = match]
           /\ todo'[r] = todo[r] \ {l} /\ found'[r] = {}
           /\ pc'[r] = IF todo[r] \ {l} = {} THEN "publish" ELSE "match"
           /\ match.link # Nil => place[match.link] # "deleted"
           /\ UNCHANGED <<lock, attempt, listed>>
    BY <1>5, LinkStep
  <2>2. pc[r] = "link"
    BY <1>5 DEF Link
  <2>3. match \in Matches /\ (match.link # Nil => match.link \in found[r])
    BY MatchOfOne
  <2> HIDE DEF match
  <2>4. links'[r][l] = match /\ \A k \in Literals \ {l} : links'[r][k] = links[r][k]
    BY <2>1
  <2>5. ListingInv(r)'
    BY <1>0, <2>1, <2>2 DEF LocalInv, ListingInv, attempt
  <2>6. match # Nil
    BY <2>3, RowsAreNotNil
  <2>7. ProgressInv(r)'
    <3>1. snapshot' = snapshot
      BY <2>1 DEF attempt
    <3>2. \A k \in Literals : k[1] \in snapshot[r] => k \in todo[r] \ {l} \/ links'[r][k] # Nil
      BY <1>0, <2>2, <2>4, <2>6 DEF LocalInv, ProgressInv
    <3>3. QED
      BY <2>1, <3>1, <3>2 DEF ProgressInv
  <2>8. CandidatesInv(r)'
    BY <2>1 DEF CandidatesInv
  <2>9. SoundLink(match, l)
    <3> SUFFICES ASSUME match.link # Nil
                 PROVE  place[match.link] \in {"inside", "outside"} /\ IpAddress[match.link] = l[2]
      BY DEF SoundLink
    <3>1. match.link \in found[r] /\ match.link \in IpIds
      BY <2>3
    <3>2. place[match.link] # "unused" /\ IpAddress[match.link] = l[2]
      BY <1>0, <2>1, <2>2, <3>1 DEF LocalInv, CandidatesInv
    <3>3. QED
      BY <2>1, <3>1, <3>2
  <2>10. PendingInv(r)'
    <3>1. \A k \in Literals : SoundLink(links'[r][k], k)
      BY <1>0, <2>4, <2>9 DEF LocalInv, PendingInv
    <3>2. \A k \in Literals : SoundLink(links[r][k], k)'
      BY <1>0, <3>1 DEF SoundLink
    <3>3. QED
      BY <2>1, <3>2 DEF PendingInv
  <2>11. QED
    BY <2>5, <2>7, <2>8, <2>10 DEF LocalInv
<1>6. CASE BeginRecord(r) /\ ~Sleep(r)
  <2>1. /\ pc[r] = "fail" /\ pc'[r] = "record"
        /\ UNCHANGED <<snapshot, observed, todo, found, links, listed>>
    BY <1>6 DEF BeginRecord, Goto, attempt, transaction
  <2>2. QED
    BY <1>0, <2>1 DEF LocalInv, ListingInv, ProgressInv, CandidatesInv, PendingInv, SoundLink, NoLinks
<1>7. QED
  BY <1>1, <1>2, <1>3, <1>4, <1>5, <1>6 DEF Advance

\* A runner that starts anew: of its transaction nothing is left.
LEMMA ResetLocal ==
    ASSUME TypeOK, NEW r \in Replicas, Sleep(r) \/ GiveUp(r), UNCHANGED environment
    PROVE  LocalInv(r)'
<1>1. /\ pc'[r] \in {"sleep", "fail"} /\ observed'[r] = 0 /\ links'[r] = NoLinks
      /\ now' = now /\ 0 <= now
  BY ResetStep DEF environment, TypeOK, Times
<1>2. QED
  BY <1>1 DEF LocalInv, ListingInv, ProgressInv, CandidatesInv, PendingInv, SoundLink, NoLinks,
              InTransaction

LEMMA LocalStep ==
    ASSUME TypeOK, \A q \in Replicas : LocalInv(q), NEW r \in Replicas, Run(r) \/ Fault(r)
    PROVE  \A q \in Replicas : LocalInv(q)'
<1>0. /\ Sleep(r) \/ GiveUp(r) \/ Advance(r)
      /\ UNCHANGED environment
  BY ResetOrAdvance
<1>1. LocalInv(r)'
  BY <1>0, ResetLocal, AdvanceLocal
<1>2. ASSUME NEW q \in Replicas \ {r}
      PROVE  SameLocals(q) /\ listed \subseteq listed'
  BY <1>0, <1>2, ResetStep, AdvanceOthers
<1>3. ASSUME NEW q \in Replicas \ {r}
      PROVE  LocalInv(q)'
  BY <1>0, <1>2, <1>3, SameLocalInv
<1>4. QED
  BY <1>1, <1>3

\* A COMMIT leaves sound links, and each Service it shows with its addresses.
LEMMA CommitStep ==
    ASSUME TypeOK, CommittedInv, RowsInv, NEW r \in Replicas, LocalInv(r),
           Commit(r), UNCHANGED environment
    PROVE  CommittedInv' /\ RowsInv'
<1>1. /\ pc[r] = "publish" /\ place' = place
      /\ rows' = [u \in Uids |-> Reconciled(r, u)]
      /\ addresses' = [l \in Literals |-> Linked(r, l)]
  BY DEF Commit, environment, ipam
<1>2. \A l \in Literals : /\ SoundLink(links[r][l], l)
                          /\ l[1] \in snapshot[r] => links[r][l] # Nil
  BY <1>1 DEF LocalInv, PendingInv, ProgressInv, InTransaction, TypeOK
<1>3. CommittedInv'
  <2>1. ASSUME NEW l \in Literals
        PROVE  SoundLink(Linked(r, l), l)
    BY <1>2 DEF Linked, CommittedInv, SoundLink
  <2>2. QED
    BY <1>1, <2>1 DEF CommittedInv, SoundLink
<1>4. ASSUME NEW u \in Uids, rows'[u] # Nil, ~rows'[u].active
      PROVE  rows'[u].stale_at \in Times
  <2>1. rows'[u] = Reconciled(r, u) /\ u \notin snapshot[r]
    BY <1>1, <1>4 DEF Reconciled, Observed
  <2>2. rows[u] # Nil /\ rows'[u] = MarkedMissing(rows[u], observed[r])
    BY <1>4, <2>1 DEF Reconciled
  <2>3. rows[u] \in ServiceRow /\ observed[r] \in Times
    BY <2>2 DEF TypeOK
  <2>4. CASE rows[u].active
    BY <2>2, <2>3, <2>4 DEF MarkedMissing, ServiceRow
  <2>5. CASE ~rows[u].active
    BY <2>2, <2>5 DEF MarkedMissing, RowsInv
  <2>6. QED
    BY <2>4, <2>5
<1>5. ASSUME NEW l \in Literals, l[1] \in Active'
      PROVE  addresses'[l] # Nil
  <2>1. l[1] \in Uids /\ rows'[l[1]] # Nil /\ rows'[l[1]].active
    BY <1>5 DEF Active
  <2>2. l[1] \in snapshot[r]
    BY <1>1, <2>1, ReconciledTyped
  <2>3. QED
    BY <1>1, <1>2, <2>2 DEF Linked
<1>6. QED
  BY <1>3, <1>4, <1>5 DEF RowsInv

LEMMA CommittedStep ==
    ASSUME TypeOK, CommittedInv, RowsInv, NEW r \in Replicas, LocalInv(r), Run(r) \/ Fault(r)
    PROVE  CommittedInv' /\ RowsInv'
<1>1. place' = place
  BY ResetOrAdvance DEF environment, ipam
<1>2. CASE UNCHANGED <<rows, addresses>>
  BY <1>1, <1>2 DEF CommittedInv, RowsInv, SoundLink, Active
<1>3. CASE Commit(r)
  BY <1>3, CommitStep, ResetOrAdvance
<1>4. QED
  BY <1>2, <1>3, ResetOrAdvance DEF store, RecordFailure
-----------------------------------------------------------------------------
(* What the world around the runners does.                                 *)

LEMMA DeleteIpStep ==
    ASSUME Inv, NEW i \in IpIds, DeleteIp(i)
    PROVE  CommittedInv' /\ RowsInv' /\ \A r \in Replicas : LocalInv(r)'
<1> USE DEF Inv
<1>1. /\ place' = [place EXCEPT ![i] = "deleted"]
      /\ \A j \in IpIds : j # i => place'[j] = place[j]
      /\ place'[i] = "deleted"
      /\ UNCHANGED <<now, rows, runners>>
  BY DEF DeleteIp, TypeOK
<1>2. ASSUME NEW l \in Literals
      PROVE  /\ addresses[l] = Nil => addresses'[l] = Nil
             /\ addresses[l] # Nil => addresses'[l] # Nil
             /\ addresses[l] # Nil /\ addresses[l].link = i => addresses'[l].link = Nil
             /\ addresses[l] # Nil /\ addresses[l].link # i => addresses'[l] = addresses[l]
  <2>1. addresses'[l] = IF addresses[l] # Nil /\ addresses[l].link = i
                        THEN [addresses[l] EXCEPT !.link = Nil] ELSE addresses[l]
    BY DEF DeleteIp
  <2>2. addresses[l] \in Matches \cup {Nil}
    BY DEF TypeOK
  <2>3. addresses[l] # Nil =>
           /\ [addresses[l] EXCEPT !.link = Nil].link = Nil
           /\ [addresses[l] EXCEPT !.link = Nil] \in Matches
    BY <2>2 DEF Matches
  <2>4. QED
    BY <2>1, <2>3, RowsAreNotNil
<1>3. CommittedInv'
  <2> SUFFICES ASSUME NEW l \in Literals, addresses'[l] # Nil, addresses'[l].link # Nil
               PROVE  /\ place'[addresses'[l].link] \in {"inside", "outside"}
                      /\ IpAddress[addresses'[l].link] = l[2]
    BY DEF CommittedInv, SoundLink
  <2>1. addresses'[l] = addresses[l] /\ addresses[l].link # i
    BY <1>2
  <2>2. addresses[l].link \in IpIds
    BY <2>1 DEF TypeOK, Matches
  <2>3. QED
    BY <1>1, <2>1, <2>2 DEF CommittedInv, SoundLink
<1>4. RowsInv'
  BY <1>1, <1>2 DEF RowsInv, Active
<1>5. ASSUME NEW r \in Replicas
      PROVE  LocalInv(r)'
  <2> USE <1>1 DEF LocalInv, runners, attempt, transaction, InTransaction
  <2>1. ListingInv(r)' /\ ProgressInv(r)'
    BY DEF ListingInv, ProgressInv
  <2>2. CandidatesInv(r)'
    <3>1. \A j \in found[r] : j \in IpIds
      BY DEF TypeOK
    <3>2. QED
      BY <3>1 DEF CandidatesInv, First
  <2>3. PendingInv(r)'
    <3>1. CASE InTransaction(r)
      <4> SUFFICES ASSUME NEW l \in Literals, links[r][l] # Nil, links[r][l].link # Nil
                   PROVE  /\ place'[links[r][l].link] \in {"inside", "outside"}
                          /\ IpAddress[links[r][l].link] = l[2]
        BY <3>1 DEF PendingInv, SoundLink
      <4>1. links[r][l].link # i
        BY <3>1 DEF DeleteIp, Locked
      <4>2. links[r][l].link \in IpIds
        BY DEF TypeOK, Matches
      <4>3. QED
        BY <4>1, <4>2 DEF PendingInv, SoundLink
    <3>2. CASE ~InTransaction(r)
      BY <3>2 DEF PendingInv, SoundLink, NoLinks
    <3>3. QED
      BY <3>1, <3>2
  <2>4. QED
    BY <2>1, <2>2, <2>3
<1>6. QED
  BY <1>3, <1>4, <1>5

LEMMA DeleteSiteStep ==
    ASSUME Inv, DeleteSite
    PROVE  CommittedInv' /\ RowsInv' /\ \A r \in Replicas : LocalInv(r)'
<1>1. /\ rows' = [u \in Uids |-> Nil] /\ addresses' = NoLinks
      /\ UNCHANGED <<now, runners>>
      /\ \A r \in Replicas : ~InTransaction(r)
  BY DEF DeleteSite
<1>2. CommittedInv' /\ RowsInv'
  BY <1>1 DEF CommittedInv, RowsInv, SoundLink, NoLinks, Active
<1>3. ASSUME NEW r \in Replicas
      PROVE  LocalInv(r)'
  BY <1>1 DEF Inv, LocalInv, ListingInv, ProgressInv, CandidatesInv, PendingInv, SoundLink,
              NoLinks, InTransaction, runners, attempt, transaction
<1>4. QED
  BY <1>2, <1>3

LEMMA WorldStep ==
    ASSUME Inv, World \/ Settle
    PROVE  LockInv' /\ CommittedInv' /\ RowsInv' /\ \A r \in Replicas : LocalInv(r)'
<1> USE DEF Inv
<1>0. UNCHANGED runners
  BY DEF World, Tick, ClusterChanges, PlaceIp, DeleteIp, DeleteSite, Settle
<1>1. LockInv'
  BY <1>0 DEF LockInv, InTransaction, runners
<1>2. CASE UNCHANGED <<place, rows, addresses>> /\ (now' = now \/ now' = now + 1)
  <2>1. CommittedInv' /\ RowsInv'
    BY <1>2 DEF CommittedInv, RowsInv, SoundLink, Active
  <2>2. ASSUME NEW r \in Replicas
        PROVE  LocalInv(r)'
    <3>1. observed[r] <= now => observed[r] <= now + 1
      BY DEF TypeOK, Times
    <3>2. LocalInv(r)
      OBVIOUS
    <3>3. ListingInv(r)'
      BY <1>0, <1>2, <3>1, <3>2 DEF LocalInv, ListingInv, InTransaction, runners, attempt
    <3>4. ProgressInv(r)' /\ CandidatesInv(r)'
      BY <1>0, <1>2, <3>2 DEF LocalInv, ProgressInv, CandidatesInv, First, InTransaction,
                              runners, attempt, transaction
    <3>5. PendingInv(r)'
      BY <1>0, <1>2, <3>2 DEF LocalInv, PendingInv, SoundLink, NoLinks, InTransaction,
                              runners, transaction
    <3>6. QED
      BY <3>3, <3>4, <3>5 DEF LocalInv
  <2>3. QED
    BY <1>1, <2>1, <2>2
<1>3. CASE \E i \in IpIds : PlaceIp(i)
  <2>1. UNCHANGED <<now, rows, addresses>>
    BY <1>3 DEF PlaceIp, store
  <2>2. \A j \in IpIds : /\ place[j] \in {"inside", "outside"} => place'[j] \in {"inside", "outside"}
                         /\ place[j] # "unused" => place'[j] # "unused"
    BY <1>3 DEF PlaceIp, TypeOK
  <2>3. ASSUME NEW row \in Matches \cup {Nil}, NEW l \in Literals, SoundLink(row, l)
        PROVE  /\ row # Nil /\ row.link # Nil =>
                     /\ place'[row.link] \in {"inside", "outside"}
                     /\ IpAddress[row.link] = l[2]
    BY <2>2, <2>3 DEF SoundLink, Matches
  <2>4. CommittedInv' /\ RowsInv'
    BY <2>1, <2>3 DEF CommittedInv, RowsInv, SoundLink, Active, TypeOK
  <2>5. ASSUME NEW r \in Replicas
        PROVE  LocalInv(r)'
    <3>1. ListingInv(r)' /\ ProgressInv(r)'
      BY <1>0, <2>1 DEF LocalInv, ListingInv, ProgressInv, InTransaction, runners, attempt,
                        transaction
    <3>2. CandidatesInv(r)'
      <4>1. \A j \in found[r] : j \in IpIds
        BY DEF TypeOK
      <4>2. QED
        BY <1>0, <2>2, <4>1 DEF LocalInv, CandidatesInv, First, runners, transaction
    <3>3. PendingInv(r)'
      <4>1. \A l \in Literals : links[r][l] \in Matches \cup {Nil} /\ SoundLink(links[r][l], l)
        BY DEF LocalInv, PendingInv, TypeOK
      <4>2. \A l \in Literals : SoundLink(links[r][l], l)'
        BY <1>0, <2>3, <4>1 DEF SoundLink, runners, transaction
      <4>3. QED
        BY <1>0, <4>2 DEF LocalInv, PendingInv, NoLinks, InTransaction, runners, transaction
    <3>4. QED
      BY <3>1, <3>2, <3>3 DEF LocalInv
  <2>6. QED
    BY <1>1, <2>4, <2>5
<1>4. CASE \E i \in IpIds : DeleteIp(i)
  BY <1>1, <1>4, DeleteIpStep
<1>5. CASE DeleteSite
  BY <1>1, <1>5, DeleteSiteStep
<1>6. QED
  BY <1>2, <1>3, <1>4, <1>5 DEF World, Tick, ClusterChanges, Settle, ipam, store

LEMMA InvStep == Inv /\ [AnyNext]_vars => Inv'
<1> SUFFICES ASSUME Inv, [AnyNext]_vars PROVE Inv'
  OBVIOUS
<1>0. TypeOK'
  BY TypeStep DEF Inv
<1>1. CASE World \/ Settle
  BY <1>0, <1>1, WorldStep DEF Inv
<1>2. ASSUME NEW r \in Replicas, Run(r) \/ Fault(r)
      PROVE  Inv'
  BY <1>0, <1>2, LockStep, LocalStep, CommittedStep DEF Inv
<1>3. CASE UNCHANGED vars
  <2>1. UNCHANGED <<now, place, rows, addresses, lock, pc, snapshot, observed, listed, todo, found, links>>
    BY <1>3 DEF vars, environment, ipam, store, runners, attempt, transaction
  <2>2. LockInv' /\ CommittedInv' /\ RowsInv'
    BY <2>1 DEF Inv, LockInv, InTransaction, CommittedInv, RowsInv, SoundLink, Active
  <2>3. ASSUME NEW r \in Replicas
        PROVE  LocalInv(r)'
    <3>1. ListingInv(r)' /\ ProgressInv(r)'
      BY <2>1 DEF Inv, LocalInv, ListingInv, ProgressInv, InTransaction
    <3>2. CandidatesInv(r)' /\ PendingInv(r)'
      BY <2>1 DEF Inv, LocalInv, CandidatesInv, First, PendingInv, SoundLink, NoLinks, InTransaction
    <3>3. QED
      BY <3>1, <3>2 DEF LocalInv
  <2>4. QED
    BY <1>0, <2>2, <2>3 DEF Inv
<1>4. QED
  BY <1>1, <1>2, <1>3 DEF AnyNext, Next
-----------------------------------------------------------------------------
(* The theorems.  FairSpec, under which some of them are checked, has the   *)
(* steps of Spec and Settle.                                               *)

LEMMA StepsTaken ==
    /\ Spec => Init /\ [][AnyNext]_vars
    /\ FairSpec => Init /\ [][AnyNext]_vars
<1>1. [Next]_vars => [AnyNext]_vars
  BY DEF AnyNext
<1>2. [Next \/ Settle]_vars => [AnyNext]_vars
  BY DEF AnyNext
<1>3. Spec => Init /\ [][AnyNext]_vars
  BY <1>1, PTL DEF Spec
<1>4. FairSpec => Init /\ [][AnyNext]_vars
  BY <1>2, PTL DEF FairSpec
<1>5. QED
  BY <1>3, <1>4

LEMMA Invariance == (Spec => []Inv) /\ (FairSpec => []Inv)
  BY InvInit, InvStep, StepsTaken, PTL

\* Every variable keeps its type.
THEOREM TypeCorrect == (Spec => []TypeOK) /\ (FairSpec => []TypeOK)
<1>1. Inv => TypeOK
  BY DEF Inv
<1>2. QED
  BY <1>1, Invariance, PTL

\* TryKubernetesSourceLock: whoever is between BEGIN and COMMIT, be it to
\* reconcile or to record a failure, holds the advisory lock, so that of any
\* number of replicas one at most is.
THEOREM LockExcludes == (Spec => []OneTransaction) /\ (FairSpec => []OneTransaction)
<1>1. Inv => OneTransaction
  BY DEF Inv, LockInv, OneTransaction
<1>2. QED
  BY <1>1, Invariance, PTL

\* FindIPCandidatesBySiteAndAddress and the foreign key of
\* kubernetes_service_addresses: whatever clients do between the two
\* statements and after the COMMIT, a link points to an address row that is
\* there and has the address of the Service.
THEOREM LinksStaySound == (Spec => []LinksAreSound) /\ (FairSpec => []LinksAreSound)
<1>1. Inv => LinksAreSound
  BY DEF Inv, CommittedInv, LocalInv, PendingInv, SoundLink, LinksAreSound
<1>2. QED
  BY <1>1, Invariance, PTL

LEMMA RetentionStep ==
    ASSUME Inv, [AnyNext]_vars, NEW u \in Uids, rows[u] # Nil, rows'[u] = Nil
    PROVE  ~site' \/ (~rows[u].active /\ rows[u].stale_at + Retention <= now)
<1>1. CASE DeleteSite
  BY <1>1 DEF DeleteSite
<1>2. ASSUME NEW r \in Replicas, rows' = [v \in Uids |-> Reconciled(r, v)]
      PROVE  ~rows[u].active /\ rows[u].stale_at + Retention <= now
  <2> DEFINE row == MarkedMissing(rows[u], observed[r])
  <2>1. observed[r] \in Int /\ now \in Int /\ observed[r] <= now /\ Retention \in Nat \ {0}
    BY DiscoveryConstants DEF Inv, LocalInv, ListingInv, TypeOK, Times
  <2>2. rows[u] \in ServiceRow
    BY DEF Inv, TypeOK
  <2>3. u \notin snapshot[r]
    <3>1. Observed \in ServiceRow
      BY DEF Observed, ServiceRow
    <3>2. Observed # Nil
      BY <3>1, RowsAreNotNil
    <3>3. QED
      BY <1>2, <3>2 DEF Reconciled
  <2>4. row # Nil
    <3>1. observed[r] \in Times
      BY DEF Inv, TypeOK
    <3>2. row \in ServiceRow
      BY <2>2, <3>1 DEF MarkedMissing, ServiceRow
    <3>3. QED
      BY <3>2, RowsAreNotNil
  <2>5. ~row.active /\ row.stale_at <= observed[r] - Retention
    BY <1>2, <2>3, <2>4 DEF Reconciled, IsStale
  <2>6. CASE rows[u].active
    <3>1. row.stale_at = observed[r]
      BY <2>2, <2>6 DEF MarkedMissing, ServiceRow
    <3>2. QED
      BY <2>1, <2>5, <3>1
  <2>7. CASE ~rows[u].active
    <3>1. row = rows[u] /\ rows[u].stale_at \in Int
      BY <2>7 DEF MarkedMissing, Inv, RowsInv, Times
    <3>2. QED
      BY <2>1, <2>5, <2>7, <3>1
  <2>8. QED
    BY <2>6, <2>7
<1>3. DeleteSite \/ \E r \in Replicas : rows' = [v \in Uids |-> Reconciled(r, v)]
  <2>1. CASE World \/ Settle
    BY <2>1 DEF World, Settle, Tick, ClusterChanges, PlaceIp, DeleteIp, store
  <2>2. ASSUME NEW r \in Replicas, Run(r) \/ Fault(r)
        PROVE  rows' = [v \in Uids |-> Reconciled(r, v)]
    <3>1. ~UNCHANGED rows
      OBVIOUS
    <3>2. QED
      BY <2>2, <3>1, ResetOrAdvance DEF Commit, RecordFailure, store
  <2>3. CASE UNCHANGED vars
    BY <2>3 DEF vars, store
  <2>4. QED
    BY <2>1, <2>2, <2>3 DEF AnyNext, Next
<1>4. QED
  BY <1>1, <1>2, <1>3

\* DeleteStaleKubernetesServices: however late a listing is published, and
\* whatever the other replicas have published since, it deletes no row but of a
\* Service that has been inactive for the retention.
THEOREM RowsAreKept == (Spec => KeptForRetention) /\ (FairSpec => KeptForRetention)
<1> DEFINE Kept == \A u \in Uids : rows[u] # Nil /\ rows'[u] = Nil =>
                      \/ ~site'
                      \/ ~rows[u].active /\ rows[u].stale_at + Retention <= now
<1>1. Inv /\ [AnyNext]_vars => [Kept]_rows
  BY RetentionStep
<1>2. QED
  BY <1>1, Invariance, StepsTaken, PTL DEF KeptForRetention
-----------------------------------------------------------------------------
(* Discovery implements SnapshotPublication.                               *)

LEMMA PromiseInit == Init => Promise!Init
  BY DEF Init, Promise!Init, Active, State

\* The steps that readers do not see.
LEMMA UnseenStep ==
    ASSUME UNCHANGED <<rows, source, listed>>
    PROVE  UNCHANGED Promise!vars
  BY DEF Promise!vars, Active, State

LEMMA ListMaps ==
    ASSUME TypeOK, NEW r \in Replicas, ListNamespace(r)
    PROVE  [Promise!Next]_(Promise!vars)
<1> DEFINE seen == snapshot[r] \cup {u \in cluster : NamespaceOf[u] = namespace[r]}
<1>1. UNCHANGED <<rows, source>> /\ (listed' = listed \/ listed' = listed \cup {seen})
  BY DEF ListNamespace, store
<1>2. seen \in SUBSET Uids
  BY DEF TypeOK
<1> HIDE DEF seen
<1>3. CASE listed' = listed
  BY <1>1, <1>3, UnseenStep
<1>4. CASE listed' = listed \cup {seen}
  <2>1. Promise!List(seen)
    BY <1>1, <1>4 DEF Promise!List, Active, State
  <2>2. QED
    BY <1>2, <2>1 DEF Promise!Next
<1>5. QED
  BY <1>1, <1>3, <1>4

LEMMA CommitMaps ==
    ASSUME Inv, NEW r \in Replicas, Commit(r), Sleep(r) \/ GiveUp(r)
    PROVE  [Promise!Next]_(Promise!vars)
<1>1. /\ pc[r] = "publish"
      /\ rows' = [u \in Uids |-> Reconciled(r, u)]
      /\ source' = Success(observed[r])
      /\ listed' = listed
  BY DEF Commit, Sleep, GiveUp
<1>2. snapshot[r] \in SUBSET Uids /\ observed[r] \in Times
  BY DEF Inv, TypeOK
<1>3. snapshot[r] \in listed
  BY <1>1 DEF Inv, LocalInv, ListingInv, InTransaction
<1>4. Active' = snapshot[r]
  BY <1>1, <1>2, ReconciledTyped DEF Active, Inv
<1>5. State' = "healthy"
  <2>1. Success(observed[r]) \in SourceRow
    BY <1>2 DEF Success, SourceRow
  <2>2. observed[r] # Nil
    BY <1>2, DiscoveryConstants DEF Times
  <2>3. source' # Nil /\ ~source'.failed /\ source'.last_success_at # Nil
    BY <1>1, <2>1, <2>2, RowsAreNotNil DEF Success
  <2>4. QED
    BY <2>3 DEF State
<1>6. Promise!Publish(snapshot[r])
  BY <1>1, <1>3, <1>4, <1>5 DEF Promise!Publish
<1>7. QED
  BY <1>2, <1>6 DEF Promise!Next

LEMMA RecordMaps ==
    ASSUME TypeOK, NEW r \in Replicas, RecordFailure(r)
    PROVE  [Promise!Next]_(Promise!vars)
<1>1. UNCHANGED <<rows, listed>>
  BY DEF RecordFailure, Sleep
<1>2. CASE source' = Failure(started[r])
  <2>1. Failure(started[r]) \in SourceRow
    BY DEF Failure, LastSuccess, SourceRow, TypeOK
  <2>2. source' # Nil /\ source'.failed
    BY <1>2, <2>1, RowsAreNotNil DEF Failure
  <2>3. State' = "degraded"
    BY <2>2 DEF State
  <2>4. Promise!Degrade
    BY <1>1, <2>3 DEF Promise!Degrade, Active
  <2>5. QED
    BY <2>4 DEF Promise!Next
<1>3. CASE UNCHANGED source
  BY <1>1, <1>3, UnseenStep
<1>4. QED
  BY <1>2, <1>3 DEF RecordFailure

LEMMA PromiseStep == Inv /\ [AnyNext]_vars => [Promise!Next]_(Promise!vars)
<1> SUFFICES ASSUME Inv, [AnyNext]_vars PROVE [Promise!Next]_(Promise!vars)
  OBVIOUS
<1>1. CASE DeleteSite
  <2>1. Active' = {} /\ State' = "absent" /\ listed' = listed
    BY <1>1 DEF DeleteSite, Active, State, runners
  <2>2. QED
    BY <2>1 DEF Promise!Next, Promise!Forget
<1>2. CASE (World /\ ~DeleteSite) \/ Settle
  <2>1. UNCHANGED <<rows, source, listed>>
    BY <1>2 DEF World, Settle, Tick, ClusterChanges, PlaceIp, DeleteIp, store, runners
  <2>2. QED
    BY <2>1, UnseenStep
<1>3. ASSUME NEW r \in Replicas, Run(r) \/ Fault(r)
      PROVE  [Promise!Next]_(Promise!vars)
  <2>1. CASE ListNamespace(r)
    BY <2>1, ListMaps DEF Inv
  <2>2. CASE Commit(r) /\ (Sleep(r) \/ GiveUp(r))
    BY <2>2, CommitMaps
  <2>3. CASE RecordFailure(r)
    BY <2>3, RecordMaps DEF Inv
  <2>4. CASE ~ListNamespace(r) /\ UNCHANGED store
    <3>1. listed' = listed
      <4>1. CASE Sleep(r) \/ GiveUp(r)
        BY <4>1 DEF Sleep, GiveUp
      <4>2. CASE Advance(r)
        BY <2>4, <4>2, LinkStep DEF Advance, Wake, Begin, Match, BeginRecord, Inv
      <4>3. QED
        BY <1>3, <4>1, <4>2, ResetOrAdvance
    <3>2. QED
      BY <2>4, <3>1, UnseenStep DEF store
  <2>5. QED
    BY <1>3, <2>1, <2>2, <2>3, <2>4, ResetOrAdvance
<1>4. CASE UNCHANGED vars
  BY <1>4, UnseenStep DEF vars, store, runners
<1>5. QED
  BY <1>1, <1>2, <1>3, <1>4 DEF AnyNext, Next

\* ReconcileOnce and Reconcile: with any number of replicas that list, fail,
\* crash and publish in any order, the Services shown jump from one complete
\* listing to another.
THEOREM DiscoveryImplementsPublication ==
    (Spec => PublishesCompleteListings) /\ (FairSpec => PublishesCompleteListings)
  BY PromiseInit, PromiseStep, Invariance, StepsTaken, PTL DEF PublishesCompleteListings, Promise!Spec
-----------------------------------------------------------------------------
(* Convergence: what is left of EventuallyAccurate when its fairness is     *)
(* taken away.                                                             *)

\* The world rests with the site, and who sleeps holds nothing.
RestInv ==
    /\ quiet => site
    /\ \A r \in Replicas : pc[r] = "sleep" => snapshot[r] = {} /\ ~clash[r] /\ namespace[r] = 1

\* All that UpToDate says of a runner.
SameWork(q) == SameLocals(q) /\ clash'[q] = clash[q] /\ namespace'[q] = namespace[q]

LEMMA ResetWork ==
    ASSUME TypeOK, NEW r \in Replicas, Sleep(r) \/ GiveUp(r)
    PROVE  /\ snapshot'[r] = {} /\ clash'[r] = FALSE /\ namespace'[r] = 1
           /\ \A q \in Replicas \ {r} : SameWork(q)
<1>1. /\ namespace' = [namespace EXCEPT ![r] = 1]
      /\ snapshot' = [snapshot EXCEPT ![r] = {}]
      /\ clash' = [clash EXCEPT ![r] = FALSE]
  BY DEF Sleep, GiveUp
<1>2. QED
  BY <1>1, ResetStep DEF SameWork, TypeOK

LEMMA AdvanceWork ==
    ASSUME TypeOK, NEW r \in Replicas, Advance(r), NEW q \in Replicas \ {r}
    PROVE  SameWork(q)
<1>1. \/ UNCHANGED <<clash, namespace>>
      \/ ListNamespace(r)
  BY DEF Advance, Wake, Match, Begin, Link, BeginRecord, attempt
<1>2. CASE ListNamespace(r)
  <2>1. /\ \E c : clash' = [clash EXCEPT ![r] = c]
        /\ \E n : namespace' = [namespace EXCEPT ![r] = n]
    BY <1>2 DEF ListNamespace
  <2>2. QED
    BY <2>1, AdvanceOthers DEF SameWork, TypeOK
<1>3. QED
  BY <1>1, <1>2, AdvanceOthers DEF SameWork

LEMMA OthersWork ==
    ASSUME TypeOK, NEW r \in Replicas, Run(r) \/ Fault(r), NEW q \in Replicas \ {r}
    PROVE  SameWork(q)
  BY ResetOrAdvance, ResetWork, AdvanceWork

\* Only by a step that ends there does a runner sleep.
LEMMA AdvanceWakes ==
    ASSUME TypeOK, NEW r \in Replicas, Advance(r)
    PROVE  pc'[r] # "sleep"
<1>1. CASE Wake(r) \/ Match(r)
  BY <1>1 DEF Wake, Match, Goto, TypeOK
<1>2. CASE ListNamespace(r)
  BY <1>2 DEF ListNamespace, Goto, TypeOK
<1>3. CASE Begin(r) /\ ~Sleep(r) /\ ~GiveUp(r)
  BY <1>3 DEF Begin, Goto, NextAddress, TypeOK
<1>4. CASE Link(r) /\ ~GiveUp(r)
  BY <1>4, LinkStep
<1>5. CASE BeginRecord(r) /\ ~Sleep(r)
  BY <1>5 DEF BeginRecord, Goto, TypeOK
<1>6. QED
  BY <1>1, <1>2, <1>3, <1>4, <1>5 DEF Advance

LEMMA RestInvStep == Inv /\ RestInv /\ [AnyNext]_vars => RestInv'
<1> SUFFICES ASSUME Inv, RestInv, [AnyNext]_vars PROVE RestInv'
  OBVIOUS
<1>0. TypeOK
  BY DEF Inv
<1>1. CASE World \/ Settle
  <2>1. UNCHANGED <<pc, snapshot, clash, namespace>>
    BY <1>1 DEF World, Settle, Tick, ClusterChanges, PlaceIp, DeleteIp, DeleteSite, runners, attempt
  <2>2. quiet' => site'
    BY <1>1 DEF RestInv, World, Settle, Tick, ClusterChanges, PlaceIp, DeleteIp, DeleteSite, ipam
  <2>3. QED
    BY <2>1, <2>2 DEF RestInv
<1>2. ASSUME NEW r \in Replicas, Run(r) \/ Fault(r)
      PROVE  RestInv'
  <2>1. quiet' = quiet /\ site' = site
    BY <1>2, ResetOrAdvance DEF environment, ipam
  <2>2. pc'[r] = "sleep" => snapshot'[r] = {} /\ ~clash'[r] /\ namespace'[r] = 1
    BY <1>0, <1>2, ResetOrAdvance, ResetWork, AdvanceWakes
  <2>3. \A q \in Replicas \ {r} : SameWork(q)
    BY <1>0, <1>2, OthersWork
  <2>4. QED
    BY <2>1, <2>2, <2>3 DEF RestInv, SameWork, SameLocals
<1>3. CASE UNCHANGED vars
  BY <1>3 DEF vars, environment, ipam, runners, attempt, RestInv
<1>4. QED
  BY <1>1, <1>2, <1>3 DEF AnyNext, Next

LEMMA RestAlways == FairSpec => [](Inv /\ RestInv)
<1>1. Init => RestInv
  BY DEF Init, RestInv
<1>2. QED
  BY <1>1, RestInvStep, Invariance, StepsTaken, PTL

\* At rest only the clock and the runners' own steps go on.
LEMMA RestSteps ==
    ASSUME [AnyNext]_vars, quiet
    PROVE  /\ UNCHANGED <<quiet, cluster, twice, site, place>>
           /\ \/ UNCHANGED <<store, runners>>
              \/ \E r \in Replicas : Run(r)
<1>1. CASE World \/ Settle
  BY <1>1 DEF World, Settle, Tick, ClusterChanges, PlaceIp, DeleteIp, DeleteSite, ipam
<1>2. ASSUME NEW r \in Replicas, Run(r) \/ Fault(r)
      PROVE  UNCHANGED <<quiet, cluster, twice, site, place>> /\ Run(r)
  BY <1>2, ResetOrAdvance
     DEF Fault, ListFails, ReconcileFails, RecordFails, Crash, environment, ipam
<1>3. CASE UNCHANGED vars
  BY <1>3 DEF vars, environment, ipam
<1>4. QED
  BY <1>1, <1>2, <1>3 DEF AnyNext, Next

LEMMA SameWorkUpToDate ==
    ASSUME NEW q \in Replicas, UpToDate(q), SameWork(q), UNCHANGED <<cluster, place>>
    PROVE  UpToDate(q)'
<1> USE DEF SameWork, SameLocals
<1>1. InTransaction(q)' <=> InTransaction(q)
  BY DEF InTransaction
<1>2. \A l : First(q, l)' <=> First(q, l)
  BY DEF First
<1>3. \A a : Candidates(a)' = Candidates(a)
  BY DEF Candidates
<1>4. QED
  BY <1>1, <1>2, <1>3 DEF UpToDate

\* The listing grows namespace by namespace until it is the cluster's.
LEMMA ListUpToDate ==
    ASSUME TypeOK, AtRest, NEW r \in Replicas, UpToDate(r), ListNamespace(r)
    PROVE  UpToDate(r)'
<1> DEFINE n == namespace[r]
           below(k) == {u \in cluster : NamespaceOf[u] < k}
           items == {u \in cluster : NamespaceOf[u] = n}
<1>1. pc[r] = "list" /\ snapshot[r] = below(n) /\ ~clash[r]
  BY DEF ListNamespace, UpToDate
<1>2. n \in 1 .. Namespaces /\ \A u \in cluster : NamespaceOf[u] \in 1 .. Namespaces
  BY DiscoveryConstants DEF TypeOK
<1>3. snapshot'[r] = below(n) \cup items
  BY <1>1 DEF ListNamespace, TypeOK
<1>4. ~clash'[r]
  BY <1>1 DEF ListNamespace, TypeOK, AtRest
<1>5. cluster' = cluster
  BY DEF ListNamespace, environment
<1>6. below(n) \cup items = below(n + 1)
  BY <1>2, DiscoveryConstants
<1>7. CASE n < Namespaces /\ namespace' = [namespace EXCEPT ![r] = @ + 1] /\ UNCHANGED pc
  <2>1. pc'[r] = "list" /\ namespace'[r] = n + 1
    BY <1>1, <1>7 DEF TypeOK
  <2>2. QED
    BY <1>3, <1>4, <1>5, <1>6, <2>1 DEF UpToDate, InTransaction
<1>8. CASE n = Namespaces /\ Goto(r, "lock")
  <2>1. pc'[r] = "lock"
    BY <1>8 DEF Goto, TypeOK
  <2>2. below(n + 1) = cluster
    BY <1>2, <1>8, DiscoveryConstants
  <2>3. QED
    BY <1>3, <1>4, <1>5, <1>6, <2>1, <2>2 DEF UpToDate, InTransaction
<1>9. QED
  BY <1>7, <1>8 DEF ListNamespace

\* The first address left is matched with what there is.
LEMMA MatchUpToDate ==
    ASSUME TypeOK, NEW r \in Replicas, UpToDate(r), Match(r)
    PROVE  UpToDate(r)'
<1>1. PICK l \in Literals : First(r, l) /\ found' = [found EXCEPT ![r] = Candidates(l[2])]
  BY DEF Match
<1>2. /\ pc[r] = "match" /\ pc'[r] = "link" /\ found'[r] = Candidates(l[2])
      /\ UNCHANGED <<cluster, place, snapshot, clash, todo, links>>
  BY <1>1 DEF Match, Goto, TypeOK, attempt, environment, ipam
<1>3. First(r, l)'
  BY <1>1, <1>2 DEF First
<1>4. \A a : Candidates(a)' = Candidates(a)
  BY <1>2 DEF Candidates
<1>5. QED
  BY <1>2, <1>3, <1>4 DEF UpToDate, InTransaction

\* Its row is there, so that the link to it is inserted.
LEMMA LinkUpToDate ==
    ASSUME TypeOK, NEW r \in Replicas, UpToDate(r), Link(r)
    PROVE  UpToDate(r)'
<1> DEFINE match == MatchOf(found[r])
<1>1. pc[r] = "link" /\ UNCHANGED <<cluster, place>>
  BY DEF Link, environment, ipam
<1>2. ~GiveUp(r)
  <2>1. SUFFICES ASSUME GiveUp(r) PROVE FALSE
    OBVIOUS
  <2>2. pc'[r] = "fail"
    BY <2>1 DEF GiveUp, Goto, TypeOK
  <2>3. CASE match.link # Nil /\ place[match.link] = "deleted"
    <3>1. PICK l \in Literals : found[r] = Candidates(l[2])
      BY <1>1 DEF UpToDate
    <3>2. match.link \in found[r]
      BY <2>3, MatchOfOne DEF TypeOK
    <3>3. QED
      BY <2>3, <3>1, <3>2 DEF Candidates
  <2>4. CASE \E l \in Literals : NextAddress(r, todo[r] \ {l})
    BY <2>2, <2>4 DEF NextAddress, Goto, TypeOK
  <2>5. QED
    BY <2>3, <2>4 DEF Link
<1>3. PICK l \in Literals :
         /\ First(r, l)
         /\ links'[r] = [links[r] EXCEPT ![l] = match]
         /\ todo'[r] = todo[r] \ {l} /\ found'[r] = {}
         /\ pc'[r] = IF todo[r] \ {l} = {} THEN "publish" ELSE "match"
         /\ UNCHANGED attempt
  BY <1>2, LinkStep
<1>4. match = MatchOf(Candidates(l[2]))
  <2>1. PICK k \in Literals : First(r, k) /\ found[r] = Candidates(k[2])
    BY <1>1 DEF UpToDate
  <2>2. k = l
    BY <1>3, <2>1, FirstIsUnique DEF TypeOK
  <2>3. QED
    BY <2>1, <2>2
<1> HIDE DEF match
<1>5. links'[r][l] = match /\ \A k \in Literals \ {l} : links'[r][k] = links[r][k]
  BY <1>3 DEF TypeOK
<1>6. \A k \in Named(cluster) \ todo[r] : links[r][k] = MatchOf(Candidates(k[2]))
  BY <1>1 DEF UpToDate, InTransaction
<1>7. \A k \in Named(cluster) \ todo'[r] : links'[r][k] = MatchOf(Candidates(k[2]))
  BY <1>3, <1>4, <1>5, <1>6 DEF Named
<1>8. \A a : Candidates(a)' = Candidates(a)
  BY <1>1 DEF Candidates
<1>9. snapshot'[r] = cluster /\ ~clash'[r]
  BY <1>1, <1>3 DEF UpToDate, InTransaction, attempt
<1>10. Named(cluster)' = Named(cluster)
  BY <1>1 DEF Named
<1>11. QED
  BY <1>1, <1>3, <1>7, <1>8, <1>9, <1>10 DEF UpToDate, InTransaction

LEMMA RunUpToDate ==
    ASSUME TypeOK, RestInv, RestInv', AtRest, NEW r \in Replicas, UpToDate(r), Run(r)
    PROVE  UpToDate(r)'
<1>1. ASSUME pc'[r] = "sleep"
      PROVE  UpToDate(r)'
  BY <1>1 DEF RestInv, UpToDate, InTransaction
<1>2. CASE Wake(r)
  <2>1. /\ pc[r] = "sleep" /\ pc'[r] = "list"
        /\ UNCHANGED <<cluster, snapshot, clash, namespace>>
    BY <1>2 DEF Wake, Goto, TypeOK, environment
  <2>2. {u \in cluster : NamespaceOf[u] < 1} = {}
    <3>1. \A u \in cluster : NamespaceOf[u] \in 1 .. Namespaces
      BY DiscoveryConstants DEF TypeOK
    <3>2. QED
      BY <3>1, DiscoveryConstants
  <2>3. QED
    BY <2>1, <2>2 DEF RestInv, UpToDate, InTransaction
<1>3. CASE ListNamespace(r)
  BY <1>3, ListUpToDate
<1>4. CASE Begin(r)
  <2>1. pc[r] = "lock" /\ cluster' = cluster
    BY <1>4 DEF Begin, environment
  <2>2. CASE Sleep(r)
    BY <1>1, <2>2 DEF Sleep, Goto, TypeOK
  <2>3. CASE /\ todo' = [todo EXCEPT ![r] = Named(snapshot[r])]
             /\ NextAddress(r, Named(snapshot[r]))
             /\ UNCHANGED attempt
    <3>1. todo'[r] = Named(cluster) /\ snapshot[r] = cluster /\ ~clash[r]
      BY <2>1, <2>3 DEF UpToDate, TypeOK
    <3>2. pc'[r] \in {"publish", "match"}
      BY <2>3 DEF NextAddress, Goto, TypeOK
    <3>3. snapshot'[r] = cluster' /\ ~clash'[r] /\ Named(cluster)' \ todo'[r] = {}
      BY <2>1, <2>3, <3>1 DEF attempt, Named
    <3>4. QED
      BY <3>2, <3>3 DEF UpToDate, InTransaction
  <2>4. QED
    BY <1>4, <2>2, <2>3 DEF Begin, SourceStorable, RestInv, AtRest
<1>5. CASE Match(r)
  BY <1>5, MatchUpToDate
<1>6. CASE Link(r)
  BY <1>6, LinkUpToDate
<1>7. CASE Publish(r)
  <2>1. Sleep(r)
    BY <1>7 DEF Publish, HostnamesStorable, UpToDate
  <2>2. QED
    BY <1>1, <2>1 DEF Sleep, Goto, TypeOK
<1>8. CASE BeginRecord(r) \/ RecordFailure(r)
  BY <1>8 DEF BeginRecord, RecordFailure, UpToDate, Sleep, Goto
<1>9. QED
  BY <1>2, <1>3, <1>4, <1>5, <1>6, <1>7, <1>8 DEF Run

\* The COMMIT of a replica that is up to date.
LEMMA PublishIsAccurate ==
    ASSUME TypeOK, NEW r \in Replicas, LocalInv(r), UpToDate(r), Publish(r)
    PROVE  Accurate'
<1>1. /\ rows' = [u \in Uids |-> Reconciled(r, u)]
      /\ addresses' = [l \in Literals |-> Linked(r, l)]
      /\ source' = Success(observed[r])
      /\ pc[r] = "publish" /\ UNCHANGED <<cluster, place>>
  BY DEF Publish, Commit, HostnamesStorable, UpToDate, environment, ipam
<1>2. snapshot[r] = cluster /\ todo[r] = {}
  BY <1>1 DEF UpToDate, InTransaction, LocalInv, ProgressInv
<1>3. State' = "healthy"
  <2>1. observed[r] \in Times /\ Success(observed[r]) \in SourceRow
    BY DEF TypeOK, Success, SourceRow
  <2>2. observed[r] # Nil /\ Success(observed[r]) # Nil
    BY <2>1, RowsAreNotNil, DiscoveryConstants DEF Times
  <2>3. QED
    BY <1>1, <2>2 DEF State, Success
<1>4. Active' = cluster'
  <2>1. \A u \in Uids : u \in Active' <=> u \in snapshot[r]
    BY <1>1, ReconciledTyped DEF Active
  <2>2. QED
    BY <1>1, <1>2, <2>1 DEF Active, TypeOK
<1>5. ASSUME NEW l \in Named(cluster)
      PROVE  addresses'[l] = MatchOf(Candidates(l[2]))
  <2>1. l \in Literals /\ l[1] \in snapshot[r]
    BY <1>2 DEF Named
  <2>2. addresses'[l] = links[r][l]
    BY <1>1, <2>1 DEF Linked
  <2>3. QED
    BY <1>1, <1>2, <2>2 DEF UpToDate, InTransaction
<1>6. Named(cluster)' = Named(cluster) /\ \A a : Candidates(a)' = Candidates(a)
  BY <1>1 DEF Named, Candidates
<1>7. QED
  BY <1>3, <1>4, <1>5, <1>6 DEF Accurate

LEMMA AccurateStays ==
    ASSUME TypeOK, \A q \in Replicas : LocalInv(q) /\ UpToDate(q),
           NEW r \in Replicas, Run(r), Accurate \/ Publish(r)
    PROVE  Accurate'
<1>1. CASE Publish(r)
  BY <1>1, PublishIsAccurate
<1>2. CASE ~Publish(r)
  <2>1. ~RecordFailure(r)
    BY DEF RecordFailure, UpToDate
  <2>2. UNCHANGED <<store, cluster, place>>
    BY <1>2, <2>1 DEF Run, Wake, ListNamespace, Begin, Match, Link, BeginRecord, environment, ipam
  <2>3. QED
    BY <1>2, <2>2 DEF Accurate, State, Active, Named, Candidates, store
<1>3. QED
  BY <1>1, <1>2

\* In a world at rest, however many replicas there are and whatever each was
\* doing when the rest began: who has come round once is up to date and stays so
\* (Runner.ReconcileOnce), the others cannot disturb it, and when all are, the
\* next COMMIT makes the view accurate for good.  What EventuallyAccurate adds is
\* that the goroutines run.
THEOREM RestConverges == FairSpec => ConvergesAtRest
<1> DEFINE Converges ==
             AtRest =>
                /\ \A r \in Replicas : UpToDate(r) \/ pc'[r] = "sleep" => UpToDate(r)'
                /\ (\A r \in Replicas : UpToDate(r)) =>
                      \A r \in Replicas :
                         Accurate \/ (pc[r] = "publish" /\ pc'[r] # "publish") => Accurate'
<1>1. ASSUME Inv, RestInv, RestInv', [AnyNext]_vars, AtRest
      PROVE  Converges
  <2>0. TypeOK /\ \A q \in Replicas : LocalInv(q)
    BY <1>1 DEF Inv
  <2>1. /\ UNCHANGED <<quiet, cluster, twice, site, place>>
        /\ UNCHANGED <<store, runners>> \/ \E r \in Replicas : Run(r)
    BY <1>1, RestSteps DEF AtRest
  <2>2. ASSUME NEW r \in Replicas, pc'[r] = "sleep"
        PROVE  UpToDate(r)'
    BY <1>1, <2>2 DEF RestInv, UpToDate, InTransaction
  <2>3. CASE UNCHANGED <<store, runners>>
    <3>1. \A q \in Replicas : SameWork(q) /\ pc'[q] = pc[q]
      BY <2>3 DEF SameWork, SameLocals, runners, attempt, transaction
    <3>2. \A q \in Replicas : UpToDate(q) => UpToDate(q)'
      BY <2>1, <3>1, SameWorkUpToDate
    <3>3. Accurate => Accurate'
      BY <2>1, <2>3 DEF Accurate, State, Active, Named, Candidates, store
    <3>4. QED
      BY <2>2, <3>1, <3>2, <3>3
  <2>4. ASSUME NEW r \in Replicas, Run(r)
        PROVE  Converges
    <3>1. \A q \in Replicas \ {r} : SameWork(q) /\ pc'[q] = pc[q]
      BY <2>0, <2>4, OthersWork DEF SameWork, SameLocals
    <3>2. \A q \in Replicas : UpToDate(q) => UpToDate(q)'
      BY <1>1, <2>0, <2>1, <2>4, <3>1, RunUpToDate, SameWorkUpToDate
    <3>3. pc[r] = "publish" => Publish(r)
      BY <2>4 DEF Run, Wake, ListNamespace, Begin, Match, Link, BeginRecord, RecordFailure
    <3>4. ASSUME \A q \in Replicas : UpToDate(q), NEW q \in Replicas,
                 Accurate \/ (pc[q] = "publish" /\ pc'[q] # "publish")
          PROVE  Accurate'
      <4>1. Accurate \/ Publish(r)
        BY <3>1, <3>3, <3>4
      <4>2. QED
        BY <2>0, <2>4, <3>4, <4>1, AccurateStays
    <3>5. QED
      BY <2>2, <3>2, <3>4
  <2>5. QED
    BY <2>1, <2>3, <2>4
<1>2. Inv /\ RestInv /\ RestInv' /\ [AnyNext]_vars => [Converges]_vars
  BY <1>1
<1>3. QED
  BY <1>2, RestAlways, StepsTaken, PTL DEF ConvergesAtRest
-----------------------------------------------------------------------------
(* And what is left of HeldUpIsTold.                                       *)

HeldUp == quiet /\ twice # {}

\* The listing of r has the Service that cannot be stored, or will have it.
KnowsClash(r) ==
    /\ pc[r] = "list" => clash[r] \/ \E u \in twice : NamespaceOf[u] >= namespace[r]
    /\ pc[r] = "lock" \/ InTransaction(r) => clash[r]

LEMMA SameWorkKnows ==
    ASSUME NEW q \in Replicas, KnowsClash(q), SameWork(q), UNCHANGED twice
    PROVE  KnowsClash(q)'
  BY DEF KnowsClash, SameWork, SameLocals, InTransaction

LEMMA ListKnows ==
    ASSUME TypeOK, NEW r \in Replicas, KnowsClash(r), ListNamespace(r)
    PROVE  KnowsClash(r)'
<1> DEFINE items == {u \in cluster : NamespaceOf[u] = namespace[r]}
<1>1. /\ pc[r] = "list" /\ twice' = twice
      /\ clash'[r] = (clash[r] \/ items \cap twice # {})
  BY DEF ListNamespace, TypeOK, environment
<1>2. clash[r] \/ \E u \in twice : NamespaceOf[u] >= namespace[r]
  BY <1>1 DEF KnowsClash
<1>3. /\ \A u \in twice : u \in cluster /\ NamespaceOf[u] \in 1 .. Namespaces
      /\ namespace[r] \in 1 .. Namespaces /\ Namespaces \in Nat
  BY DiscoveryConstants DEF TypeOK
<1>4. \A u \in twice : NamespaceOf[u] = namespace[r] => clash'[r]
  BY <1>1, <1>3
<1>5. clash[r] => clash'[r]
  BY <1>1
<1>6. clash'[r] \/ \E u \in twice : NamespaceOf[u] >= namespace[r] /\ NamespaceOf[u] # namespace[r]
  BY <1>2, <1>4, <1>5
<1> HIDE DEF items
<1>7. CASE namespace[r] < Namespaces /\ namespace' = [namespace EXCEPT ![r] = @ + 1] /\ UNCHANGED pc
  <2>1. pc'[r] = "list" /\ namespace'[r] = namespace[r] + 1 /\ twice' = twice
    BY <1>1, <1>7 DEF TypeOK
  <2>2. ASSUME NEW u \in twice, NamespaceOf[u] >= namespace[r], NamespaceOf[u] # namespace[r]
        PROVE  NamespaceOf[u] >= namespace'[r]
    BY <1>3, <2>1, <2>2
  <2>3. clash'[r] \/ \E u \in twice' : NamespaceOf[u] >= namespace'[r]
    BY <1>6, <2>1, <2>2
  <2>4. QED
    BY <2>1, <2>3 DEF KnowsClash, InTransaction
<1>8. CASE namespace[r] = Namespaces /\ Goto(r, "lock")
  <2>1. pc'[r] = "lock"
    BY <1>8 DEF Goto, TypeOK
  <2>2. ASSUME NEW u \in twice, NamespaceOf[u] >= namespace[r], NamespaceOf[u] # namespace[r]
        PROVE  FALSE
    BY <1>3, <1>8, <2>2
  <2>3. clash'[r]
    BY <1>6, <2>2
  <2>4. QED
    BY <2>1, <2>3 DEF KnowsClash
<1>9. QED
  BY <1>7, <1>8 DEF ListNamespace

LEMMA RunKnows ==
    ASSUME TypeOK, RestInv, HeldUp, NEW r \in Replicas, KnowsClash(r), Run(r)
    PROVE  KnowsClash(r)'
<1>1. CASE Sleep(r) \/ GiveUp(r)
  BY <1>1, ResetStep DEF KnowsClash, InTransaction
<1>2. CASE Wake(r)
  <2>1. pc[r] = "sleep" /\ pc'[r] = "list" /\ UNCHANGED <<twice, clash, namespace>>
    BY <1>2 DEF Wake, Goto, TypeOK, environment
  <2>2. \A u \in twice : NamespaceOf[u] >= 1
    BY DiscoveryConstants DEF TypeOK
  <2>3. QED
    BY <2>1, <2>2 DEF RestInv, HeldUp, KnowsClash, InTransaction
<1>3. CASE ListNamespace(r)
  BY <1>3, ListKnows
<1>4. CASE Advance(r) /\ ~Wake(r) /\ ~ListNamespace(r)
  <2>1. /\ pc[r] \in {"lock", "match", "link", "fail"}
        /\ pc[r] = "fail" => pc'[r] = "record"
        /\ pc[r] # "fail" => pc'[r] \in {"match", "link", "publish"}
        /\ clash' = clash
    BY <1>4 DEF Advance, Match, Begin, Link, BeginRecord, Goto, NextAddress, TypeOK, attempt
  <2>2. QED
    BY <2>1 DEF KnowsClash, InTransaction
<1>5. QED
  BY <1>1, <1>2, <1>3, <1>4, ResetOrAdvance

\* A replica that knows commits nothing, and what it records is the failure.
LEMMA KnownStore ==
    ASSUME TypeOK, RestInv, HeldUp, NEW r \in Replicas, KnowsClash(r), Run(r)
    PROVE  /\ UNCHANGED <<rows, addresses>>
           /\ State = "degraded" => State' = "degraded"
           /\ pc[r] = "record" => State' = "degraded"
<1>1. UNCHANGED store \/ RecordFailure(r)
  BY ResetOrAdvance DEF Commit, HostnamesStorable, KnowsClash, InTransaction
<1>2. pc[r] = "record" => RecordFailure(r)
  BY DEF Run, Wake, ListNamespace, Begin, Match, Link, Publish, BeginRecord
<1>3. CASE UNCHANGED store /\ ~RecordFailure(r)
  BY <1>2, <1>3 DEF store, State
<1>4. CASE RecordFailure(r)
  <2>1. source' = Failure(started[r]) /\ UNCHANGED <<rows, addresses>>
    BY <1>4 DEF RecordFailure, SourceStorable, RestInv, HeldUp
  <2>2. Failure(started[r]) \in SourceRow
    BY DEF Failure, LastSuccess, SourceRow, TypeOK
  <2>3. source' # Nil /\ source'.failed
    BY <2>1, <2>2, RowsAreNotNil DEF Failure
  <2>4. QED
    BY <2>1, <2>3 DEF State
<1>5. QED
  BY <1>1, <1>3, <1>4

\* In a world at rest with a Service that has one hostname twice, however many
\* replicas there are: who has come round once has it in every listing; when
\* all have, nothing is published any more, the first record of a failure makes
\* the source degraded, and it stays so (client.go:163, repository.go:121).
\* What HeldUpIsTold adds is that records are made.
THEOREM HeldUpStays ==
    FairSpec =>
       [][HeldUp =>
             /\ \A r \in Replicas : KnowsClash(r) \/ pc'[r] = "sleep" => KnowsClash(r)'
             /\ (\A r \in Replicas : KnowsClash(r)) =>
                   /\ UNCHANGED <<rows, addresses>>
                   /\ \/ State = "degraded"
                      \/ \E r \in Replicas : pc[r] = "record" /\ pc'[r] # "record"
                      => State' = "degraded"]_vars
<1> DEFINE Told ==
             HeldUp =>
                /\ \A r \in Replicas : KnowsClash(r) \/ pc'[r] = "sleep" => KnowsClash(r)'
                /\ (\A r \in Replicas : KnowsClash(r)) =>
                      /\ UNCHANGED <<rows, addresses>>
                      /\ \/ State = "degraded"
                         \/ \E r \in Replicas : pc[r] = "record" /\ pc'[r] # "record"
                         => State' = "degraded"
<1>1. ASSUME Inv, RestInv, [AnyNext]_vars, HeldUp
      PROVE  Told
  <2>0. TypeOK
    BY <1>1 DEF Inv
  <2>1. /\ UNCHANGED <<quiet, cluster, twice, site, place>>
        /\ UNCHANGED <<store, runners>> \/ \E r \in Replicas : Run(r)
    BY <1>1, RestSteps DEF HeldUp
  <2>2. ASSUME NEW r \in Replicas, pc'[r] = "sleep"
        PROVE  KnowsClash(r)'
    BY <2>2 DEF KnowsClash, InTransaction
  <2>3. CASE UNCHANGED <<store, runners>>
    <3>1. \A q \in Replicas : SameWork(q) /\ pc'[q] = pc[q]
      BY <2>3 DEF SameWork, SameLocals, runners, attempt, transaction
    <3>2. \A q \in Replicas : KnowsClash(q) => KnowsClash(q)'
      BY <2>1, <3>1, SameWorkKnows
    <3>3. UNCHANGED <<rows, addresses>> /\ State' = State
      BY <2>3 DEF State, store
    <3>4. QED
      BY <2>2, <3>1, <3>2, <3>3
  <2>4. ASSUME NEW r \in Replicas, Run(r)
        PROVE  Told
    <3>1. \A q \in Replicas \ {r} : SameWork(q) /\ pc'[q] = pc[q]
      BY <2>0, <2>4, OthersWork DEF SameWork, SameLocals
    <3>2. \A q \in Replicas : KnowsClash(q) => KnowsClash(q)'
      BY <1>1, <2>0, <2>1, <2>4, <3>1, RunKnows, SameWorkKnows
    <3>3. ASSUME KnowsClash(r)
          PROVE  /\ UNCHANGED <<rows, addresses>>
                 /\ State = "degraded" => State' = "degraded"
                 /\ pc[r] = "record" => State' = "degraded"
      BY <1>1, <2>0, <2>4, <3>3, KnownStore
    <3>4. QED
      BY <2>2, <3>1, <3>2, <3>3
  <2>5. QED
    BY <2>1, <2>3, <2>4
<1>2. Inv /\ RestInv /\ [AnyNext]_vars => [Told]_vars
  BY <1>1
<1>3. QED
  BY <1>2, RestAlways, StepsTaken, PTL
=============================================================================
