-------------------------------- MODULE Serve --------------------------------
(***************************************************************************)
(* The API process from start to exit (internal/app/run.go, cmd/api).      *)
(* The main goroutine listens, makes the pool and the authenticator,       *)
(* starts the reporting runner, the discovery runner and the goroutine of  *)
(* the HTTP server, and waits for that to fail or for an interrupt, which  *)
(* also cancels the runners' context.  Handlers and runners hold a         *)
(* connection of the pool while a statement runs, and pool.Close, which is *)
(* deferred, waits for all of them.  Of the two runners the one is         *)
(* followed that can be left behind.                                       *)
(*                                                                         *)
(* A request is in a slot, from the client's sending it until the client   *)
(* has the answer.  What its statements do is left to the module that      *)
(* composes the process with its clients: Proceed and Answer are the two   *)
(* ways in which a statement ends.                                         *)
(***************************************************************************)
EXTENDS Integers, FiniteSets

CONSTANTS
    Slots,
    Tokens,             \* the role names that tokens claim for the API's client
    AuthEnabled, DiscoveryEnabled,      \* Config
    MaxConns,           \* connections of the pool
    Nil

ASSUME ServeConstants ==
    /\ AuthEnabled \in BOOLEAN /\ DiscoveryEnabled \in BOOLEAN
    /\ MaxConns \in Nat \ {0}
    /\ Nil \notin 0 .. 500         \* no exit code and no status

VARIABLES
    main,           \* what the main goroutine does next, or waits in
    interrupted,    \* the context has ended
    serving,        \* the server's goroutine; "failed" leaves an error in errCh
    pool,           \* "none", "open" or "closed"
    runner,         \* the goroutine of the reporting runner
    exit,           \* Serve's result as an exit code, or Nil
    claimed,        \* the roles that the clients' token claims
    method, stage, left, status     \* by slot: the method, how far its request
                                    \* is, the statements left, the answer

mainVars == <<main, exit>>
requestVars == <<method, stage, left, status>>
process == <<interrupted, serving, pool, runner, claimed>>
serveVars == <<mainVars, process, requestVars>>

Methods == {"GET", "POST", "PATCH", "DELETE"}
Handled == {"running", "statement"}     \* a handler runs
Busy == Handled \cup {"new"}             \* what Shutdown waits for

ServeTypeOK ==
    /\ main \in {"listen", "pool", "authenticator", "client", "select",
                 "shutdown", "drain", "close", "exited"}
    /\ interrupted \in BOOLEAN
    /\ serving \in {"off", "started", "on", "failed", "ended"}
    /\ pool \in {"none", "open", "closed"}
    /\ runner \in {"off", "idle", "statement"}
    /\ exit \in {Nil, 0, 1}
    /\ claimed \in Tokens
    /\ method \in [Slots -> Methods \cup {Nil}]
    /\ stage \in [Slots -> Busy \cup {"free", "sent", "answered", "lost"}]
    /\ left \in [Slots -> 0 .. 2]
    /\ status \in [Slots -> {Nil, 200, 400, 401, 403, 404, 500}]

ServeInit ==
    /\ main = "listen" /\ exit = Nil
    /\ interrupted = FALSE /\ serving = "off" /\ pool = "none"
    /\ runner = "off"
    /\ claimed \in Tokens
    /\ method = [q \in Slots |-> Nil]
    /\ stage = [q \in Slots |-> "free"]
    /\ left = [q \in Slots |-> 0]
    /\ status = [q \in Slots |-> Nil]

\* Who holds a connection of the pool.
Holders == {q \in Slots : stage[q] = "statement"}
           \cup (IF runner = "statement" THEN {Nil} ELSE {})
CanAcquire == pool = "open" /\ Cardinality(Holders) < MaxConns
-----------------------------------------------------------------------------
(* The main goroutine.                                                     *)

Goto(label) == main' = label /\ UNCHANGED exit

\* Serve returns; its deferred pool.Close comes first, if there is a pool.
Return(result) ==
    /\ main' = IF pool = "none" THEN "exited" ELSE "close"
    /\ exit' = result
    /\ pool' = IF pool = "none" THEN "none" ELSE "closed"

\* Run: the port is taken, or it is not.
Listen ==
    /\ main = "listen"
    /\ \/ Goto("pool")
       \/ main' = "exited" /\ exit' = 1
    /\ UNCHANGED <<process, requestVars>>

\* NewPool parses the DSN and connects later.
NewPool ==
    /\ main = "pool"
    /\ \/ Goto("authenticator") /\ pool' = "open"
       \/ Return(1)
    /\ UNCHANGED <<interrupted, serving, runner, claimed, requestVars>>

\* newAuthenticator asks Keycloak for its keys, within the process's context.
\* Then the reporting runner starts.
NewAuthenticator ==
    /\ main = "authenticator"
    /\ \/ /\ AuthEnabled => ~interrupted
          /\ Goto("client")
          /\ runner' = "idle"
          /\ UNCHANGED pool
       \/ /\ AuthEnabled
          /\ Return(1)
          /\ UNCHANGED runner
    /\ UNCHANGED <<interrupted, serving, claimed, requestVars>>

\* NewClient fails without a kubeconfig or a service account: the reporting
\* runner, whose context goes on, is left behind.
NewClient ==
    /\ main = "client"
    /\ \/ /\ serving' = "started"
          /\ Goto("select")
          /\ UNCHANGED pool
       \/ /\ DiscoveryEnabled
          /\ Return(1)
          /\ UNCHANGED serving
    /\ UNCHANGED <<interrupted, runner, claimed, requestVars>>

\* The select of Serve, when both are ready either.
Select ==
    /\ main = "select"
    /\ \/ serving = "failed" /\ Return(1)
       \/ interrupted /\ Goto("shutdown") /\ UNCHANGED pool
    /\ UNCHANGED <<interrupted, serving, runner, claimed, requestVars>>

\* Faulty variant of Shutdown: it does not wait for the requests in flight,
\* as Close of the server would not.
ShutdownAtOnce ==
    /\ main = "shutdown"
    /\ Goto("drain")
    /\ UNCHANGED <<process, requestVars>>

\* server.Shutdown returns when no connection is busy or new, or after 5 seconds.
Shutdown ==
    /\ main = "shutdown"
    /\ \/ /\ \A q \in Slots : stage[q] \notin Busy
          /\ Goto("drain")
          /\ UNCHANGED pool
       \/ /\ \E q \in Slots : stage[q] \in Busy
          /\ Return(1)
    /\ UNCHANGED <<interrupted, serving, runner, claimed, requestVars>>

\* range errCh, until it is closed.
Drain ==
    /\ main = "drain"
    /\ \/ serving = "failed" /\ Return(1)
       \/ serving = "ended" /\ Return(0)
    /\ UNCHANGED <<interrupted, serving, runner, claimed, requestVars>>

\* Faulty variant of ClosePool: it does not wait.
ClosePoolAtOnce ==
    /\ main = "close"
    /\ Goto("exited")
    /\ UNCHANGED <<process, requestVars>>

\* pool.Close waits for every connection; the process ends.
ClosePool ==
    /\ main = "close"
    /\ Holders = {}
    /\ Goto("exited")
    /\ UNCHANGED <<process, requestVars>>

Main == Listen \/ NewPool \/ NewAuthenticator \/ NewClient \/ Select \/ Shutdown
        \/ Drain \/ ClosePool

Alive == main # "exited"
\* Shutdown has been called; it closes the listener first.
ShuttingDown == main \in {"shutdown", "drain", "close", "exited"} /\ serving # "off"
-----------------------------------------------------------------------------
(* The other goroutines.                                                   *)

\* os.Interrupt, once; NotifyContext keeps the handler until main returns.
Interrupt ==
    /\ Alive /\ ~interrupted
    /\ interrupted' = TRUE
    /\ UNCHANGED <<mainVars, serving, pool, runner, claimed, requestVars>>

\* server.Serve takes the listener, unless Shutdown came before.
ServeStarts ==
    /\ Alive /\ serving = "started"
    /\ serving' = IF ShuttingDown THEN "ended" ELSE "on"
    /\ UNCHANGED <<mainVars, interrupted, pool, runner, claimed, requestVars>>

\* Faulty variant of ServeEnds: errCh is not closed after ErrServerClosed.
ServeEndsWithError ==
    /\ Alive /\ serving = "on" /\ ~ShuttingDown
    /\ serving' = "failed"
    /\ UNCHANGED <<mainVars, interrupted, pool, runner, claimed, requestVars>>

\* Accept fails, by itself or because Shutdown has closed the listener: that
\* is ErrServerClosed, and no error.
ServeEnds ==
    /\ Alive /\ serving = "on"
    /\ serving' = IF ShuttingDown THEN "ended" ELSE "failed"
    /\ UNCHANGED <<mainVars, interrupted, pool, runner, claimed, requestVars>>

\* A cycle of a runner begins; without the pool it would fail at once, and
\* when the context has ended the runner stops.
Cycle ==
    /\ Alive /\ runner = "idle"
    /\ ~interrupted /\ CanAcquire
    /\ runner' = "statement"
    /\ UNCHANGED <<mainVars, interrupted, serving, pool, claimed, requestVars>>

\* Its statements end, or are cancelled.
CycleEnds ==
    /\ Alive /\ runner = "statement"
    /\ runner' = "idle"
    /\ UNCHANGED <<mainVars, interrupted, serving, pool, claimed, requestVars>>
-----------------------------------------------------------------------------
(* Requests: authentication and roles, and the statements of a handler.    *)

applicationRoles == {"admin", "read-only", "editor"}

\* clientRoles: what the API does not know, it ignores.  Without
\* authentication everybody is DefaultAdminPrincipal.
Roles == IF AuthEnabled THEN claimed \cap applicationRoles ELSE {"admin"}

CanRead == Roles # {}
CanWrite == Roles \cap {"admin", "editor"} # {}
CanDelete == "admin" \in Roles

\* Faulty variant of authorized: who may write may delete.
authorizedByWrite(m) ==
    CASE m = "GET" -> CanRead
      [] m \in {"POST", "PATCH", "DELETE"} -> CanWrite

authorized(m) ==
    CASE m = "GET" -> CanRead
      [] m \in {"POST", "PATCH"} -> CanWrite
      [] m = "DELETE" -> CanDelete

\* A handler's statements.  PATCH reads the address to check it; what the
\* others read first, the subnet, stays here.
Statements(m) == IF m = "PATCH" THEN 2 ELSE 1

\* The client sends.  The first requests come when readyz has been answered
\* (readinessProbe of deploy/helm/ipam).
Send(q, m) ==
    /\ serving \notin {"off", "started"}
    /\ stage[q] = "free"
    /\ stage' = [stage EXCEPT ![q] = "sent"]
    /\ method' = [method EXCEPT ![q] = m]
    /\ UNCHANGED <<mainVars, process, left, status>>

\* An answer; written later than WriteTimeout it does not arrive.
Reply(q, code) ==
    /\ \/ /\ stage' = [stage EXCEPT ![q] = "answered"]
          /\ status' = [status EXCEPT ![q] = code]
       \/ stage' = [stage EXCEPT ![q] = "lost"] /\ UNCHANGED status
    /\ left' = [left EXCEPT ![q] = 0]
    /\ UNCHANGED <<mainVars, process, method>>

\* The server accepts the connection, which is new to it until it has read the
\* request.
Connect(q) ==
    /\ Alive /\ serving = "on" /\ ~ShuttingDown
    /\ stage[q] = "sent"
    /\ stage' = [stage EXCEPT ![q] = "new"]
    /\ UNCHANGED <<mainVars, process, method, left, status>>

\* It reads the request, be it during Shutdown, and authMiddleware lets it pass
\* or not.  A token may be missing, or expired.
Accept(q) ==
    /\ Alive /\ stage[q] = "new"
    /\ \/ AuthEnabled /\ Reply(q, 401)
       \/ ~authorized(method[q]) /\ Reply(q, 403)
       \/ /\ authorized(method[q])
          /\ stage' = [stage EXCEPT ![q] = "running"]
          /\ left' = [left EXCEPT ![q] = Statements(method[q])]
          /\ UNCHANGED <<mainVars, process, method, status>>

\* The next statement takes a connection; a pool that is closed gives none.
Acquire(q) ==
    /\ Alive /\ stage[q] = "running"
    /\ \/ /\ CanAcquire
          /\ stage' = [stage EXCEPT ![q] = "statement"]
          /\ UNCHANGED <<mainVars, process, method, left, status>>
       \/ pool = "closed" /\ Reply(q, 500)

InStatement(q) == Alive /\ stage[q] = "statement"

\* The statement that checks is over, and the handler goes on ...
Proceed(q) ==
    /\ InStatement(q) /\ left[q] = 2
    /\ stage' = [stage EXCEPT ![q] = "running"]
    /\ left' = [left EXCEPT ![q] = 1]
    /\ UNCHANGED <<mainVars, process, method, status>>

\* ... or it answers, after this statement or the last.
Answer(q, code) == InStatement(q) /\ Reply(q, code)

\* The connection is gone: nobody accepts it any more, or the process has ended.
Lose(q) ==
    /\ \/ stage[q] = "sent" /\ (~Alive \/ ShuttingDown \/ serving = "failed")
       \/ stage[q] \in Busy /\ ~Alive
    /\ stage' = [stage EXCEPT ![q] = "lost"]
    /\ left' = [left EXCEPT ![q] = 0]
    /\ UNCHANGED <<mainVars, process, method, status>>

\* The client has the answer, or knows that there is none.
Done(q) ==
    /\ stage[q] \in {"answered", "lost"}
    /\ stage' = [stage EXCEPT ![q] = "free"]
    /\ method' = [method EXCEPT ![q] = Nil]
    /\ status' = [status EXCEPT ![q] = Nil]
    /\ UNCHANGED <<mainVars, process, left>>

Background ==
    \/ Main \/ Interrupt \/ ServeStarts \/ ServeEnds \/ Cycle \/ CycleEnds

Request(q) ==
    \/ \E m \in Methods : Send(q, m)
    \/ Connect(q) \/ Accept(q) \/ Acquire(q) \/ Proceed(q)
    \/ \E code \in {200, 400, 404, 500} : Answer(q, code)
    \/ Lose(q) \/ Done(q)

ServeNext == Background \/ \E q \in Slots : Request(q)

ServeSpec == ServeInit /\ [][ServeNext]_serveVars
-----------------------------------------------------------------------------
(* Properties.                                                             *)

\* Exit code 0 says that the server was interrupted and has drained: every
\* request that was accepted has its answer on the way (run.go:157).
CleanExit ==
    main = "exited" /\ exit = 0 =>
       /\ interrupted
       /\ \A q \in Slots : stage[q] \notin Busy

\* However Serve returns, with runners left behind or requests cut off, no
\* statement is running when the process ends (run.go:98, deferred Close).
NoStatementAtExit == main = "exited" => Holders = {}

\* An interrupt ends the process, whatever it is doing at the time.
InterruptEnds == interrupted ~> main = "exited"
=============================================================================
