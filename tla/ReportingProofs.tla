--------------------------- MODULE ReportingProofs ---------------------------
(***************************************************************************)
(* What Reporting says of captures and points, for any number of replicas  *)
(* and subnets, any policies and any length of time.                       *)
(***************************************************************************)
EXTENDS Reporting, TLAPS

AnyNext == Next \/ Settle

\* A capture that waits for the settings row has read the subnets that were
\* there when it started, and all that have been IPv4 since before.
ViewInv(r) ==
    /\ started[r] <= now
    /\ \A n \in view[r] : family[n] # "unused" /\ born[n] <= started[r]
    /\ pc[r] = "capture" =>
          \A n \in Subnets : family[n] = "v4" /\ since[n] < started[r] => n \in view[r]

\* Neither the last capture nor a subnet is ahead of the clock.
PastInv ==
    /\ settings.last_snapshot_at # Nil => settings.last_snapshot_at <= now
    /\ \A n \in Subnets : born[n] <= now

Inv ==
    /\ TypeOK /\ PastInv
    /\ CapturesAreSpaced /\ NoBackfill /\ LatestIsComplete
    /\ \A r \in Replicas : ViewInv(r)

LEMMA InvInit == Init => Inv
<1> SUFFICES ASSUME Init PROVE Inv
  OBVIOUS
<1>1. 0 \in Times
  BY ReportingConstants DEF Times
<1>2. TypeOK
  BY <1>1 DEF Init, TypeOK
<1>3. PastInv /\ CapturesAreSpaced /\ NoBackfill /\ LatestIsComplete
  BY DEF Init, PastInv, CapturesAreSpaced, NoBackfill, LatestIsComplete
<1>4. ASSUME NEW r \in Replicas
      PROVE  ViewInv(r)
  <2>1. now = 0 /\ started[r] = 0 /\ view[r] = {} /\ pc[r] = "idle"
    BY DEF Init
  <2>2. QED
    BY <2>1 DEF ViewInv
<1>5. QED
  BY <1>2, <1>3, <1>4 DEF Inv
-----------------------------------------------------------------------------
(* The steps of the clock and of the clients.                              *)

LEMMA TickStep == Inv /\ Tick => Inv'
<1> SUFFICES ASSUME Inv, Tick PROVE Inv'
  OBVIOUS
<1> USE DEF Inv
<1>1. /\ now \in Int /\ now' = now + 1 /\ now' \in Times
      /\ UNCHANGED <<quiet, family, settings, points, born, since, captures, pc, started, view>>
  BY ReportingConstants DEF Tick, TypeOK, Times, tables, history, runners
<1>2. TypeOK'
  BY <1>1 DEF TypeOK
<1>3. PastInv'
  BY <1>1, ReportingConstants DEF PastInv, TypeOK, Times
<1>4. CapturesAreSpaced' /\ NoBackfill'
  BY <1>1 DEF CapturesAreSpaced, NoBackfill
<1>5. LatestIsComplete'
  BY <1>1, ReportingConstants DEF LatestIsComplete, TypeOK, Times
<1>6. ASSUME NEW r \in Replicas
      PROVE  ViewInv(r)'
  BY <1>1 DEF ViewInv, TypeOK, Times
<1>7. QED
  BY <1>2, <1>3, <1>4, <1>5, <1>6

\* A subnet that is made, or becomes IPv4 or IPv6, is so since now.
LEMMA SubnetStep ==
    ASSUME Inv, NEW n \in Subnets, NEW f \in {"v4", "v6"},
           CreateSubnet(n, f) \/ UpdateSubnet(n, f)
    PROVE  Inv'
<1> USE DEF Inv
<1>1. /\ family' = [family EXCEPT ![n] = f]
      /\ since' = [since EXCEPT ![n] = now]
      /\ \/ born' = [born EXCEPT ![n] = now] /\ family[n] = "unused"
         \/ born' = born /\ family[n] \in {"v4", "v6"}
      /\ UNCHANGED <<now, quiet, settings, points, captures, pc, started, view>>
  BY DEF CreateSubnet, UpdateSubnet, runners
<1>2. TypeOK'
  BY <1>1 DEF TypeOK
<1>3. PastInv' /\ CapturesAreSpaced'
  <2>1. now <= now /\ \A m \in Subnets : born'[m] \in {born[m], now}
    BY <1>1 DEF TypeOK, Times
  <2>2. PastInv'
    BY <1>1, <2>1 DEF PastInv
  <2>3. CapturesAreSpaced'
    BY <1>1 DEF CapturesAreSpaced
  <2>4. QED
    BY <2>2, <2>3
<1>4. ASSUME NEW m \in Subnets, family[m] # "unused"
      PROVE  born'[m] = born[m] /\ (family'[m] = family[m] \/ family'[m] \in {"v4", "v6"})
  BY <1>1, <1>4 DEF TypeOK
<1>5. NoBackfill'
  <2>1. \A p \in points : p[1] \in Subnets
    BY DEF TypeOK
  <2>2. QED
    BY <1>1, <1>4, <2>1 DEF NoBackfill
<1>6. LatestIsComplete'
  <2>1. ASSUME NEW m \in Subnets, settings.last_snapshot_at # Nil, family'[m] = "v4",
               since'[m] < settings.last_snapshot_at
        PROVE  family[m] = "v4" /\ since[m] < settings.last_snapshot_at
    BY <1>1, <2>1 DEF TypeOK, PastInv, Times
  <2>2. QED
    BY <1>1, <2>1 DEF LatestIsComplete
<1>7. ASSUME NEW r \in Replicas
      PROVE  ViewInv(r)'
  <2>1. view[r] \subseteq Subnets /\ started[r] \in Int /\ now \in Int /\ started[r] <= now
    BY DEF TypeOK, ViewInv, Times
  <2>2. \A m \in view[r] : family'[m] # "unused" /\ born'[m] <= started[r]
    BY <1>4, <2>1 DEF ViewInv
  <2>3. ASSUME NEW m \in Subnets, family'[m] = "v4", since'[m] < started[r]
        PROVE  family[m] = "v4" /\ since[m] < started[r]
    BY <1>1, <2>1, <2>3 DEF TypeOK
  <2>4. QED
    BY <1>1, <2>1, <2>2, <2>3 DEF ViewInv
<1>8. QED
  BY <1>2, <1>3, <1>5, <1>6, <1>7

LEMMA DeleteSubnetStep ==
    ASSUME Inv, NEW n \in Subnets, DeleteSubnet(n)
    PROVE  Inv'
<1> USE DEF Inv
<1>1. /\ family' = [family EXCEPT ![n] = "deleted"]
      /\ points' = {p \in points : p[1] # n}
      /\ UNCHANGED <<now, quiet, settings, born, since, captures, pc, started, view>>
  BY DEF DeleteSubnet, history, runners
<1>2. TypeOK'
  BY <1>1 DEF TypeOK
<1>3. PastInv' /\ CapturesAreSpaced'
  BY <1>1 DEF PastInv, CapturesAreSpaced
<1>4. NoBackfill'
  <2>1. \A p \in points' : p \in points /\ p[1] \in Subnets /\ family'[p[1]] = family[p[1]]
    BY <1>1 DEF TypeOK
  <2>2. QED
    BY <1>1, <2>1 DEF NoBackfill
<1>5. LatestIsComplete'
  <2>1. ASSUME NEW m \in Subnets, family'[m] = "v4"
        PROVE  /\ family[m] = "v4"
               /\ \A t : <<m, t>> \in points => <<m, t>> \in points'
    BY <1>1, <2>1 DEF TypeOK
  <2>2. QED
    BY <1>1, <2>1 DEF LatestIsComplete
<1>6. ASSUME NEW r \in Replicas
      PROVE  ViewInv(r)'
  BY <1>1 DEF ViewInv, TypeOK
<1>7. QED
  BY <1>2, <1>3, <1>4, <1>5, <1>6

\* A PATCH of the policy changes no capture that has been made.
LEMMA SettingsStep ==
    ASSUME Inv, NEW c \in Cadences, NEW d \in Retentions, UpdateSettings(c, d)
    PROVE  Inv'
<1> USE DEF Inv
<1>1. /\ settings' = [settings EXCEPT !.cadence = c, !.retention = d]
      /\ UNCHANGED <<now, quiet, family, points, born, since, captures, pc, started, view>>
  BY DEF UpdateSettings, history, runners
<1>2. TypeOK' /\ settings'.last_snapshot_at = settings.last_snapshot_at
  BY <1>1 DEF TypeOK
<1>3. PastInv' /\ CapturesAreSpaced' /\ NoBackfill' /\ LatestIsComplete'
  BY <1>1, <1>2 DEF PastInv, CapturesAreSpaced, NoBackfill, LatestIsComplete
<1>4. ASSUME NEW r \in Replicas
      PROVE  ViewInv(r)'
  BY <1>1 DEF ViewInv
<1>5. QED
  BY <1>2, <1>3, <1>4
-----------------------------------------------------------------------------
(* The steps of the runners.                                               *)

LEMMA OtherViews ==
    ASSUME NEW q \in Replicas, ViewInv(q),
           pc'[q] = pc[q], started'[q] = started[q], view'[q] = view[q],
           UNCHANGED <<now, family, born, since>>
    PROVE  ViewInv(q)'
  BY DEF ViewInv

LEMMA StartStep ==
    ASSUME Inv, NEW r \in Replicas, StartCapture(r)
    PROVE  Inv'
<1> USE DEF Inv
<1>1. UNCHANGED <<now, quiet, family, settings, points, born, since, captures>>
  BY DEF StartCapture, tables, history
<1>2. PastInv' /\ CapturesAreSpaced' /\ NoBackfill' /\ LatestIsComplete'
  BY <1>1 DEF PastInv, CapturesAreSpaced, NoBackfill, LatestIsComplete
<1>3. CASE pc' = [pc EXCEPT ![r] = "delete"] /\ UNCHANGED <<started, view>>
  <2>1. TypeOK'
    BY <1>1, <1>3 DEF TypeOK
  <2>2. ASSUME NEW q \in Replicas
        PROVE  ViewInv(q)'
    BY <1>1, <1>3 DEF ViewInv, TypeOK
  <2>3. QED
    BY <1>2, <2>1, <2>2
<1>4. CASE /\ pc' = [pc EXCEPT ![r] = "capture"]
           /\ started' = [started EXCEPT ![r] = now]
           /\ view' = [view EXCEPT ![r] = {n \in Subnets : family[n] = "v4"}]
  <2>1. TypeOK'
    BY <1>1, <1>4 DEF TypeOK
  <2>2. ASSUME NEW q \in Replicas \ {r}
        PROVE  ViewInv(q)'
    BY <1>1, <1>4, OtherViews DEF TypeOK
  <2>3. ViewInv(r)'
    <3>1. started'[r] = now /\ now <= now /\ view'[r] = {n \in Subnets : family[n] = "v4"}
      BY <1>4 DEF TypeOK, Times
    <3>2. \A n \in Subnets : born[n] <= now
      BY DEF PastInv
    <3>3. QED
      BY <1>1, <3>1, <3>2 DEF ViewInv
  <2>4. QED
    BY <1>2, <2>1, <2>2, <2>3
<1>5. QED
  BY <1>3, <1>4 DEF StartCapture

\* A runner that ends a statement, or fails, forgets what it has read.
LEMMA EndViews ==
    ASSUME Inv, NEW r \in Replicas, NEW next \in {"idle", "delete"},
           pc' = [pc EXCEPT ![r] = next],
           started' = [started EXCEPT ![r] = 0],
           view' = [view EXCEPT ![r] = {}],
           UNCHANGED <<now, family, born, since>>
    PROVE  /\ pc' \in [Replicas -> {"idle", "capture", "delete"}]
           /\ started' \in [Replicas -> Times]
           /\ view' \in [Replicas -> SUBSET Subnets]
           /\ \A q \in Replicas : ViewInv(q)'
<1> USE DEF Inv, TypeOK
<1>1. 0 \in Times /\ 0 <= now
  BY ReportingConstants DEF Times
<1>2. /\ pc' \in [Replicas -> {"idle", "capture", "delete"}]
      /\ started' \in [Replicas -> Times]
      /\ view' \in [Replicas -> SUBSET Subnets]
  BY <1>1
<1>3. ASSUME NEW q \in Replicas \ {r}
      PROVE  ViewInv(q)'
  BY OtherViews
<1>4. ViewInv(r)'
  <2>1. pc'[r] # "capture" /\ started'[r] = 0 /\ view'[r] = {}
    OBVIOUS
  <2>2. QED
    BY <1>1, <2>1 DEF ViewInv
<1>5. QED
  BY <1>2, <1>3, <1>4

\* The statement that has found the capture due: the settings row, which it
\* has locked, tells it of all captures before.
LEMMA CaptureStep ==
    ASSUME Inv, NEW r \in Replicas, pc[r] = "capture", DueAt(started[r]),
           \A n \in view[r] : family[n] # "deleted",
           settings' = [settings EXCEPT !.last_snapshot_at = started[r]],
           points' = points \cup view[r] \X {started[r]},
           captures' = captures \cup {[at |-> started[r], cadence |-> settings.cadence]},
           UNCHANGED <<now, quiet, family, born, since>>
    PROVE  /\ settings' \in [cadence : Cadences, retention : Retentions,
                             last_snapshot_at : Times \cup {Nil}]
           /\ points' \subseteq Subnets \X Times
           /\ captures' \subseteq [at : Times, cadence : Cadences]
           /\ PastInv' /\ CapturesAreSpaced' /\ NoBackfill' /\ LatestIsComplete'
<1> USE DEF Inv
<1> DEFINE new == [at |-> started[r], cadence |-> settings.cadence]
<1>1. /\ started[r] \in Times /\ view[r] \subseteq Subnets
      /\ settings.cadence \in Cadences /\ settings.cadence \in Nat \ {0}
      /\ started[r] <= now /\ started[r] # Nil /\ started[r] \in Int
  BY ReportingConstants DEF TypeOK, ViewInv, Times
<1>2. settings'.last_snapshot_at = started[r]
  BY DEF TypeOK
<1>3. /\ settings' \in [cadence : Cadences, retention : Retentions,
                        last_snapshot_at : Times \cup {Nil}]
      /\ points' \subseteq Subnets \X Times
      /\ captures' \subseteq [at : Times, cadence : Cadences]
  BY <1>1 DEF TypeOK
<1>4. PastInv'
  BY <1>1, <1>2 DEF PastInv
<1>5. ASSUME NEW c \in captures
      PROVE  c.at \in Int /\ c.at <= started[r] - settings.cadence
  <2>1. c.at \in Int
    BY DEF TypeOK, Times
  <2>2. /\ settings.last_snapshot_at # Nil /\ settings.last_snapshot_at \in Int
        /\ c.at <= settings.last_snapshot_at
    BY DEF CapturesAreSpaced, TypeOK, Times
  <2>3. settings.last_snapshot_at <= started[r] - settings.cadence
    BY <2>2 DEF DueAt
  <2>4. QED
    BY <1>1, <2>1, <2>2, <2>3
<1>6. CapturesAreSpaced'
  <2>1. new.at = started[r] /\ new.cadence = settings.cadence
    OBVIOUS
  <2> HIDE DEF new
  <2>2. captures' = captures \cup {new}
    BY DEF new
  <2>3. \A c \in captures' : settings'.last_snapshot_at # Nil /\ c.at <= settings'.last_snapshot_at
    BY <1>1, <1>2, <1>5, <2>1, <2>2
  <2>4. ASSUME NEW c \in captures', NEW d \in captures', c.at < d.at
        PROVE  d.at - c.at >= d.cadence
    <3>1. CASE c \in captures /\ d \in captures
      BY <2>4, <3>1 DEF CapturesAreSpaced
    <3>2. CASE c \in captures /\ d = new
      BY <1>1, <1>5, <2>1, <3>2
    <3>3. CASE c = new
      BY <1>1, <1>5, <2>1, <2>2, <2>4, <3>3
    <3>4. QED
      BY <2>2, <3>1, <3>2, <3>3
  <2>5. QED
    BY <2>3, <2>4 DEF CapturesAreSpaced
<1>7. NoBackfill'
  <2>1. ASSUME NEW p \in points
        PROVE  (\E c \in captures' : c.at = p[2]) /\ family[p[1]] \in {"v4", "v6"}
                  /\ born[p[1]] <= p[2]
    BY DEF NoBackfill
  <2>2. ASSUME NEW n \in view[r]
        PROVE  family[n] \in {"v4", "v6"} /\ born[n] <= started[r]
    BY <1>1, <2>2 DEF ViewInv, TypeOK
  <2>3. new \in captures' /\ new.at = started[r]
    OBVIOUS
  <2>4. ASSUME NEW p \in view[r] \X {started[r]}
        PROVE  (\E c \in captures' : c.at = p[2]) /\ family[p[1]] \in {"v4", "v6"}
                  /\ born[p[1]] <= p[2]
    BY <2>2, <2>3, <2>4
  <2>5. QED
    BY <2>1, <2>4 DEF NoBackfill
<1>8. LatestIsComplete'
  <2>1. \A n \in Subnets : family[n] = "v4" /\ since[n] < started[r] => n \in view[r]
    BY DEF ViewInv
  <2>2. \A n \in view[r] : <<n, started[r]>> \in points'
    OBVIOUS
  <2>3. QED
    BY <1>2, <2>1, <2>2 DEF LatestIsComplete
<1>9. QED
  BY <1>3, <1>4, <1>6, <1>7, <1>8

LEMMA DeleteExpiredStep ==
    ASSUME Inv, NEW r \in Replicas, DeleteExpired(r)
    PROVE  points' \subseteq points /\ NoBackfill' /\ LatestIsComplete'
<1> USE DEF Inv
<1>1. /\ points' = {p \in points : ~Expired(p)}
      /\ UNCHANGED <<now, family, settings, born, since, captures>>
  BY DEF DeleteExpired, history
<1>2. NoBackfill'
  BY <1>1 DEF NoBackfill
<1>3. LatestIsComplete'
  <2>1. settings.retention \in Retentions
    BY DEF TypeOK
  <2>2. ASSUME NEW n \in Subnets, NEW last, <<n, last>> \in points, <<n, last>> \notin points'
        PROVE  last < now - settings.retention
    BY <1>1, <2>2 DEF Expired
  <2>3. QED
    BY <1>1, <2>1, <2>2 DEF LatestIsComplete
<1>4. QED
  BY <1>1, <1>2, <1>3

LEMMA RunnerStep ==
    ASSUME Inv, NEW r \in Replicas, Run(r) \/ CycleFails(r)
    PROVE  Inv'
<1> USE DEF Inv
<1>1. CASE StartCapture(r)
  BY <1>1, StartStep
<1>2. CASE ~StartCapture(r)
  <2>1. PICK next \in {"idle", "delete"} :
           /\ pc' = [pc EXCEPT ![r] = next]
           /\ started' = [started EXCEPT ![r] = 0]
           /\ view' = [view EXCEPT ![r] = {}]
    BY <1>2 DEF Run, Capture, DeleteExpired, CycleFails, Idle
  <2>2. UNCHANGED <<now, quiet, family, born, since>>
    BY <1>2 DEF Run, Capture, DeleteExpired, CycleFails, tables, history
  <2>3. /\ pc' \in [Replicas -> {"idle", "capture", "delete"}]
        /\ started' \in [Replicas -> Times]
        /\ view' \in [Replicas -> SUBSET Subnets]
        /\ \A q \in Replicas : ViewInv(q)'
    BY <2>1, <2>2, EndViews
  <2>4. CASE UNCHANGED <<settings, points, captures>>
    <3>1. TypeOK'
      BY <2>2, <2>3, <2>4 DEF TypeOK
    <3>2. PastInv' /\ CapturesAreSpaced' /\ NoBackfill' /\ LatestIsComplete'
      BY <2>2, <2>4 DEF PastInv, CapturesAreSpaced, NoBackfill, LatestIsComplete
    <3>3. QED
      BY <2>3, <3>1, <3>2
  <2>5. CASE DeleteExpired(r)
    <3>1. points' \subseteq points /\ NoBackfill' /\ LatestIsComplete'
      BY <2>5, DeleteExpiredStep
    <3>2. UNCHANGED <<settings, captures>>
      BY <2>5 DEF DeleteExpired, history
    <3>3. TypeOK'
      BY <2>2, <2>3, <3>1, <3>2 DEF TypeOK
    <3>4. PastInv' /\ CapturesAreSpaced'
      BY <2>2, <3>2 DEF PastInv, CapturesAreSpaced
    <3>5. QED
      BY <2>3, <3>1, <3>3, <3>4
  <2>6. CASE Capture(r) /\ ~UNCHANGED <<settings, points, captures>>
    <3>1. /\ pc[r] = "capture" /\ DueAt(started[r])
          /\ \A n \in view[r] : family[n] # "deleted"
          /\ settings' = [settings EXCEPT !.last_snapshot_at = started[r]]
          /\ points' = points \cup view[r] \X {started[r]}
          /\ captures' = captures \cup {[at |-> started[r], cadence |-> settings.cadence]}
      BY <2>6 DEF Capture
    <3>2. /\ settings' \in [cadence : Cadences, retention : Retentions,
                            last_snapshot_at : Times \cup {Nil}]
          /\ points' \subseteq Subnets \X Times
          /\ captures' \subseteq [at : Times, cadence : Cadences]
          /\ PastInv' /\ CapturesAreSpaced' /\ NoBackfill' /\ LatestIsComplete'
      BY <2>2, <3>1, CaptureStep
    <3>3. TypeOK'
      BY <2>2, <2>3, <3>2 DEF TypeOK
    <3>4. QED
      BY <2>3, <3>2, <3>3
  <2>7. QED
    BY <1>2, <2>4, <2>5, <2>6 DEF Run, CycleFails, tables, history
<1>3. QED
  BY <1>1, <1>2

LEMMA InvStep == Inv /\ [AnyNext]_vars => Inv'
<1> SUFFICES ASSUME Inv, [AnyNext]_vars PROVE Inv'
  OBVIOUS
<1>1. CASE World
  BY <1>1, TickStep, SubnetStep, DeleteSubnetStep, SettingsStep DEF World
<1>2. ASSUME NEW r \in Replicas, Run(r) \/ CycleFails(r)
      PROVE  Inv'
  BY <1>2, RunnerStep
<1>3. CASE Settle \/ UNCHANGED vars
  <2>1. /\ UNCHANGED <<now, family, settings, points, born, since, captures, pc, started, view>>
        /\ quiet' \in BOOLEAN
    BY <1>3 DEF Settle, vars, tables, history, runners, Inv, TypeOK
  <2>2. TypeOK'
    BY <2>1 DEF Inv, TypeOK
  <2>3. PastInv' /\ CapturesAreSpaced' /\ NoBackfill' /\ LatestIsComplete'
    BY <2>1 DEF Inv, PastInv, CapturesAreSpaced, NoBackfill, LatestIsComplete
  <2>4. ASSUME NEW r \in Replicas
        PROVE  ViewInv(r)'
    BY <2>1 DEF Inv, ViewInv
  <2>5. QED
    BY <2>2, <2>3, <2>4 DEF Inv
<1>4. QED
  BY <1>1, <1>2, <1>3 DEF AnyNext, Next
-----------------------------------------------------------------------------
(* The theorems.  FairSpec, which is checked, has the steps of Spec and    *)
(* Settle.                                                                 *)

LEMMA Invariance == (Spec => []Inv) /\ (FairSpec => []Inv)
<1>1. [Next]_vars => [AnyNext]_vars
  BY DEF AnyNext
<1>2. [Next \/ Settle]_vars => [AnyNext]_vars
  BY DEF AnyNext
<1>3. Spec => []Inv
  BY <1>1, InvInit, InvStep, PTL DEF Spec
<1>4. FairSpec => []Inv
  BY <1>2, InvInit, InvStep, PTL DEF FairSpec
<1>5. QED
  BY <1>3, <1>4

\* Every variable keeps its type.
THEOREM TypeCorrect == (Spec => []TypeOK) /\ (FairSpec => []TypeOK)
<1>1. Inv => TypeOK
  BY DEF Inv
<1>2. QED
  BY <1>1, Invariance, PTL

\* CaptureDueSubnetUsageSnapshots: the due condition, evaluated again under the lock
\* of the settings row, keeps the captures of all replicas apart by the cadence.
THEOREM CapturesStaySpaced == (Spec => []CapturesAreSpaced) /\ (FairSpec => []CapturesAreSpaced)
<1>1. Inv => CapturesAreSpaced
  BY DEF Inv
<1>2. QED
  BY <1>1, Invariance, PTL

\* README.md:245: however long a capture waits for its lock, every point it
\* makes is of a subnet that was there when it started.
THEOREM NothingIsBackfilled == (Spec => []NoBackfill) /\ (FairSpec => []NoBackfill)
<1>1. Inv => NoBackfill
  BY DEF Inv
<1>2. QED
  BY <1>1, Invariance, PTL

\* The statement reads all IPv4 subnets: while retention keeps them, the points
\* of the latest capture are there for each that still is one.
THEOREM LatestStaysComplete == (Spec => []LatestIsComplete) /\ (FairSpec => []LatestIsComplete)
<1>1. Inv => LatestIsComplete
  BY DEF Inv
<1>2. QED
  BY <1>1, Invariance, PTL
=============================================================================
