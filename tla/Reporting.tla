----------------------------- MODULE Reporting ------------------------------
(***************************************************************************)
(* Usage snapshots: the runner of every API replica (internal/reporting)   *)
(* wakes once a minute, runs one statement that captures a point for each  *)
(* IPv4 subnet if a capture is due, and one that deletes expired points.   *)
(*                                                                         *)
(* The capture is one statement, but not one step: it reads the tables as  *)
(* they are when it starts, and NOW() is that moment, then it waits for    *)
(* the lock on the settings row.  When another replica or an editor has    *)
(* changed that row meanwhile, PostgreSQL evaluates the due condition      *)
(* again on the new row, still with the old NOW(), while the subnets stay  *)
(* those read at the start.  The foreign key of a point looks at the       *)
(* subnets of the present: if one has gone, the statement fails.           *)
(*                                                                         *)
(* How many addresses a point counts is left out (module Capacity has its  *)
(* total).  Retention and cadence are in ticks of the clock.               *)
(***************************************************************************)
EXTENDS Integers

CONSTANTS
    Replicas,
    Subnets,
    Cadences, Retentions,   \* what an editor may choose, in ticks
    MaxTime,                \* bound: the clock stops there
    Nil

ASSUME ReportingConstants ==
    /\ Cadences \subseteq Nat \ {0} /\ Cadences # {}
    /\ Retentions \subseteq Nat \ {0} /\ Retentions # {}
    /\ MaxTime \in Nat
    /\ Nil \notin Nat

VARIABLES
    now,        \* NOW(), the clock of the database
    quiet,      \* from here on clients rest and nothing fails
    family,     \* subnet -> "unused", "v4", "v6" or "deleted"
    born, since,    \* history: when its row was made, when it became IPv4
    settings,   \* the row of reporting_settings
    points,     \* rows <<subnet, captured_at>> of subnet_usage_snapshots
    captures,   \* history: the captures made, with the cadence they obeyed
    pc, started, view   \* each runner's statement, its NOW(), its subnets

tables == <<family, settings, points>>
history == <<born, since, captures>>
runners == <<pc, started, view>>
vars == <<now, quiet, tables, history, runners>>

Times == 0 .. MaxTime

TypeOK ==
    /\ now \in Times /\ quiet \in BOOLEAN
    /\ family \in [Subnets -> {"unused", "v4", "v6", "deleted"}]
    /\ born \in [Subnets -> Times] /\ since \in [Subnets -> Times]
    /\ settings \in [cadence : Cadences, retention : Retentions,
                     last_snapshot_at : Times \cup {Nil}]
    /\ points \subseteq Subnets \X Times
    /\ captures \subseteq [at : Times, cadence : Cadences]
    /\ pc \in [Replicas -> {"idle", "capture", "delete"}]
    /\ started \in [Replicas -> Times]
    /\ view \in [Replicas -> SUBSET Subnets]

Init ==
    /\ now = 0 /\ quiet = FALSE
    /\ family = [n \in Subnets |-> "unused"]
    /\ born = [n \in Subnets |-> 0] /\ since = [n \in Subnets |-> 0]
    /\ settings \in [cadence : Cadences, retention : Retentions, last_snapshot_at : {Nil}]
    /\ points = {} /\ captures = {}
    /\ pc = [r \in Replicas |-> "idle"]
    /\ started = [r \in Replicas |-> 0]
    /\ view = [r \in Replicas |-> {}]
-----------------------------------------------------------------------------
(* The clock and the clients.                                              *)

Tick ==
    /\ now < MaxTime
    /\ now' = now + 1
    /\ UNCHANGED <<quiet, tables, history, runners>>

CreateSubnet(n, f) ==
    /\ ~quiet
    /\ family[n] = "unused"
    /\ family' = [family EXCEPT ![n] = f]
    /\ born' = [born EXCEPT ![n] = now]
    /\ since' = [since EXCEPT ![n] = now]
    /\ UNCHANGED <<now, quiet, settings, points, captures, runners>>

\* A PATCH may turn an IPv6 subnet into an IPv4 one and back.
UpdateSubnet(n, f) ==
    /\ ~quiet
    /\ family[n] \in {"v4", "v6"} \ {f}
    /\ family' = [family EXCEPT ![n] = f]
    /\ since' = [since EXCEPT ![n] = now]
    /\ UNCHANGED <<now, quiet, settings, points, born, captures, runners>>

\* Its points go with it.
DeleteSubnet(n) ==
    /\ ~quiet
    /\ family[n] \in {"v4", "v6"}
    /\ family' = [family EXCEPT ![n] = "deleted"]
    /\ points' = {p \in points : p[1] # n}
    /\ UNCHANGED <<now, quiet, settings, history, runners>>

\* PATCH of the policy, which leaves last_snapshot_at alone.
UpdateSettings(cadence, retention) ==
    /\ ~quiet
    /\ settings' = [settings EXCEPT !.cadence = cadence, !.retention = retention]
    /\ UNCHANGED <<now, quiet, family, points, history, runners>>

\* Nothing in the program: liveness speaks of the time when the clients have
\* come to rest.
Settle ==
    /\ ~quiet
    /\ quiet' = TRUE
    /\ UNCHANGED <<now, tables, history, runners>>
-----------------------------------------------------------------------------
(* Runner.runCycle.                                                        *)

\* last_snapshot_at IS NULL OR last_snapshot_at <= NOW() - cadence
DueAt(time) ==
    settings.last_snapshot_at # Nil =>
       settings.last_snapshot_at <= time - settings.cadence

Idle(r) ==
    /\ pc' = [pc EXCEPT ![r] = "idle"]
    /\ started' = [started EXCEPT ![r] = 0]
    /\ view' = [view EXCEPT ![r] = {}]

\* The timer fires and the statement starts: it has nothing to do when no
\* capture is due, and else goes for the lock of the settings row.
StartCapture(r) ==
    /\ pc[r] = "idle"
    /\ \/ /\ ~DueAt(now)
          /\ pc' = [pc EXCEPT ![r] = "delete"]
          /\ UNCHANGED <<started, view>>
       \/ /\ DueAt(now)
          /\ pc' = [pc EXCEPT ![r] = "capture"]
          /\ started' = [started EXCEPT ![r] = now]
          /\ view' = [view EXCEPT ![r] = {n \in Subnets : family[n] = "v4"}]
    /\ UNCHANGED <<now, quiet, tables, history>>

\* Faulty variant of Capture: neither the due condition is evaluated again
\* nor the foreign key.
CaptureUnchecked(r) ==
    /\ pc[r] = "capture"
    /\ settings' = [settings EXCEPT !.last_snapshot_at = started[r]]
    /\ points' = points \cup view[r] \X {started[r]}
    /\ captures' = captures \cup {[at |-> started[r], cadence |-> settings.cadence]}
    /\ pc' = [pc EXCEPT ![r] = "delete"]
    /\ started' = [started EXCEPT ![r] = 0]
    /\ view' = [view EXCEPT ![r] = {}]
    /\ UNCHANGED <<now, quiet, family, born, since>>

\* The lock is granted, and the statement completes and commits.  When it
\* fails, RunSnapshotCycle returns before the second statement.
Capture(r) ==
    /\ pc[r] = "capture"
    /\ \/ /\ ~DueAt(started[r])
          /\ pc' = [pc EXCEPT ![r] = "delete"]
          /\ started' = [started EXCEPT ![r] = 0]
          /\ view' = [view EXCEPT ![r] = {}]
          /\ UNCHANGED <<settings, points, captures>>
       \/ /\ DueAt(started[r])
          /\ \E n \in view[r] : family[n] = "deleted"
          /\ Idle(r)
          /\ UNCHANGED <<settings, points, captures>>
       \/ /\ DueAt(started[r])
          /\ \A n \in view[r] : family[n] # "deleted"
          /\ settings' = [settings EXCEPT !.last_snapshot_at = started[r]]
          /\ points' = points \cup view[r] \X {started[r]}
          /\ captures' = captures \cup {[at |-> started[r], cadence |-> settings.cadence]}
          /\ pc' = [pc EXCEPT ![r] = "delete"]
          /\ started' = [started EXCEPT ![r] = 0]
          /\ view' = [view EXCEPT ![r] = {}]
    /\ UNCHANGED <<now, quiet, family, born, since>>

\* Faulty variant of Expired: a point goes when it reaches its retention.
ExpiredEarly(p) == p[2] <= now - settings.retention

Expired(p) == p[2] < now - settings.retention

DeleteExpired(r) ==
    /\ pc[r] = "delete"
    /\ points' = {p \in points : ~Expired(p)}
    /\ Idle(r)
    /\ UNCHANGED <<now, quiet, family, settings, history>>

\* Faulty variant of CycleFails: an error ends the loop of the runner.
CycleFailsForGood(r) ==
    /\ ~quiet
    /\ pc[r] # "idle"
    /\ pc' = [pc EXCEPT ![r] = "stopped"]
    /\ started' = [started EXCEPT ![r] = 0]
    /\ view' = [view EXCEPT ![r] = {}]
    /\ UNCHANGED <<now, quiet, tables, history>>

\* A statement fails, or the process ends and another takes its place.
CycleFails(r) ==
    /\ ~quiet
    /\ pc[r] # "idle"
    /\ Idle(r)
    /\ UNCHANGED <<now, quiet, tables, history>>

Run(r) == StartCapture(r) \/ Capture(r) \/ DeleteExpired(r)

World ==
    \/ Tick
    \/ \E n \in Subnets :
          \/ DeleteSubnet(n)
          \/ \E f \in {"v4", "v6"} : CreateSubnet(n, f) \/ UpdateSubnet(n, f)
    \/ \E c \in Cadences, d \in Retentions : UpdateSettings(c, d)

Next == World \/ \E r \in Replicas : Run(r) \/ CycleFails(r)

Spec == Init /\ [][Next]_vars

\* The ticker fires, a statement ends or fails: no runner waits for ever.
FairSpec ==
    /\ Init
    /\ [][Next \/ Settle]_vars
    /\ \A r \in Replicas : WF_vars(Run(r))
-----------------------------------------------------------------------------
(* Properties.                                                             *)

\* However many replicas run and whenever the policy changes: two captures
\* are apart by the cadence that the later one obeyed, so that no interval
\* is captured twice, and captured_at only moves forward.
CapturesAreSpaced ==
    /\ \A c \in captures : settings.last_snapshot_at # Nil /\ c.at <= settings.last_snapshot_at
    /\ \A c, d \in captures : c.at < d.at => d.at - c.at >= d.cadence

\* "The application does not infer or backfill past usage from current IP
\* rows" (README.md:245): a point belongs to a capture, and its subnet was
\* there at captured_at, however late the capture completed.
NoBackfill ==
    \A p \in points :
       /\ \E c \in captures : c.at = p[2]
       /\ family[p[1]] \in {"v4", "v6"}
       /\ born[p[1]] <= p[2]

\* The latest capture has a point for every IPv4 subnet that there was when
\* it was made, as long as retention keeps it.
LatestIsComplete ==
    LET last == settings.last_snapshot_at IN
    \A n \in Subnets :
       last # Nil /\ family[n] = "v4" /\ since[n] < last =>
          \/ <<n, last>> \in points
          \/ \E d \in Retentions : last < now - d

\* Once the clients rest a capture that is due is made, and points that have
\* expired go, whatever failed before (runner.go:23).
WorkGetsDone ==
    /\ (quiet /\ DueAt(now)) ~> ~DueAt(now)
    /\ quiet /\ (\E p \in points : Expired(p)) ~> \A p \in points : ~Expired(p)
=============================================================================
