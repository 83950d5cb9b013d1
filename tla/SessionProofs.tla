---------------------------- MODULE SessionProofs ----------------------------
(***************************************************************************)
(* Serve, and Session for any number of subnets, rows, requests and        *)
(* connections.  Session is a way in which Serve may behave, so that what  *)
(* is proved of the process holds with its clients; a click on Save never  *)
(* changes another row than the one it points at; a page that has what it  *)
(* waited for shows its subnet's rows; and it waits for nothing else than  *)
(* what is on its way.                                                     *)
(***************************************************************************)
EXTENDS Session, TLAPS

-----------------------------------------------------------------------------
(* The end of the process, whatever the configuration and the tokens are.  *)

Quiet == \A q \in Slots : stage[q] \notin Busy
NoneHeld == runner # "statement" /\ \A q \in Slots : stage[q] # "statement"

\* Nothing holds a connection before there is a pool, or after the process.
HoldersInv ==
    /\ main \in {"listen", "pool"} => pool = "none"
    /\ pool = "none" \/ main = "exited" => NoneHeld

\* Once Shutdown has seen that no connection is busy, none gets busy: the
\* listener is closed before the server looks at its connections.
DrainInv ==
    /\ main \in {"shutdown", "drain"} => interrupted
    /\ main = "drain" => Quiet
    /\ exit = 0 => main \in {"close", "exited"} /\ serving = "ended" /\ interrupted /\ Quiet

IInv == ServeTypeOK /\ HoldersInv /\ DrainInv

LEMMA IInvInit == ServeInit => IInv
<1> SUFFICES ASSUME ServeInit PROVE IInv
  OBVIOUS
<1>1. ServeTypeOK
  <2>1. /\ method \in [Slots -> Methods \cup {Nil}]
        /\ stage \in [Slots -> Busy \cup {"free", "sent", "answered", "lost"}]
        /\ left \in [Slots -> 0 .. 2]
        /\ status \in [Slots -> {Nil, 200, 400, 401, 403, 404, 500}]
    BY DEF ServeInit
  <2>2. QED
    BY <2>1 DEF ServeInit, ServeTypeOK
<1>2. HoldersInv
  BY DEF ServeInit, HoldersInv, NoneHeld
<1>3. DrainInv
  BY ServeConstants DEF ServeInit, DrainInv, ServeConstants
<1>4. QED
  BY <1>1, <1>2, <1>3 DEF IInv

\* The main goroutine.
LEMMA MainStep == IInv /\ Main => IInv'
<1> SUFFICES ASSUME IInv, Main PROVE IInv'
  OBVIOUS
<1> USE ServeConstants
    DEF IInv, ServeTypeOK, HoldersInv, DrainInv, NoneHeld, Quiet, Busy, Handled, Goto, Return,
        mainVars, process, requestVars
<1>1. CASE Listen
  BY <1>1 DEF Listen
<1>2. CASE NewPool
  BY <1>2 DEF NewPool
<1>3. CASE NewAuthenticator
  BY <1>3 DEF NewAuthenticator
<1>4. CASE NewClient
  BY <1>4 DEF NewClient
<1>5. CASE Select
  BY <1>5 DEF Select
<1>6. CASE Shutdown
  BY <1>6 DEF Shutdown
<1>7. CASE Drain
  BY <1>7 DEF Drain
<1>8. CASE ClosePool
  <2>1. NoneHeld
    BY <1>8 DEF ClosePool, Holders
  <2>2. QED
    BY <1>8, <2>1 DEF ClosePool
<1>9. QED
  BY <1>1, <1>2, <1>3, <1>4, <1>5, <1>6, <1>7, <1>8 DEF Main

\* The other goroutines.
LEMMA GoroutineStep ==
    IInv /\ (Interrupt \/ ServeStarts \/ ServeEnds \/ Cycle \/ CycleEnds) => IInv'
<1> SUFFICES ASSUME IInv, Interrupt \/ ServeStarts \/ ServeEnds \/ Cycle \/ CycleEnds
             PROVE  IInv'
  OBVIOUS
<1> USE DEF IInv, ServeTypeOK, HoldersInv, DrainInv, NoneHeld, Quiet, Alive, mainVars, process,
            requestVars
<1>1. CASE Interrupt
  BY <1>1 DEF Interrupt
<1>2. CASE ServeStarts \/ ServeEnds
  BY <1>2 DEF ServeStarts, ServeEnds, ShuttingDown
<1>3. CASE Cycle
  BY <1>3 DEF Cycle, CanAcquire
<1>4. CASE CycleEnds
  BY <1>4 DEF CycleEnds
<1>5. QED
  BY <1>1, <1>2, <1>3, <1>4

\* The requests: a slot gets busy only when the server accepts its request.
LEMMA RequestStep ==
    ASSUME IInv, NEW q \in Slots, Request(q)
    PROVE  IInv'
<1> USE DEF IInv, ServeTypeOK, HoldersInv, DrainInv, NoneHeld, Quiet, Busy, Handled, Alive, CanAcquire,
            mainVars, process, requestVars, Reply, InStatement
<1>1. CASE \E m \in Methods : Send(q, m)
  BY <1>1 DEF Send
<1>2. CASE Connect(q) \/ Accept(q)
  BY <1>2 DEF Connect, Accept, ShuttingDown, Statements
<1>3. CASE Acquire(q)
  BY <1>3 DEF Acquire
<1>4. CASE Proceed(q)
  BY <1>4 DEF Proceed
<1>5. CASE \E code \in {200, 400, 404, 500} : Answer(q, code)
  BY <1>5 DEF Answer
<1>6. CASE Lose(q) \/ Done(q)
  BY <1>6 DEF Lose, Done
<1>7. QED
  BY <1>1, <1>2, <1>3, <1>4, <1>5, <1>6 DEF Request

LEMMA IInvStep == IInv /\ [ServeNext]_serveVars => IInv'
<1> SUFFICES ASSUME IInv, [ServeNext]_serveVars PROVE IInv'
  OBVIOUS
<1>1. CASE Background
  BY <1>1, MainStep, GoroutineStep DEF Background
<1>2. CASE \E q \in Slots : Request(q)
  BY <1>2, RequestStep
<1>3. CASE UNCHANGED serveVars
  BY <1>3 DEF serveVars, mainVars, process, requestVars, IInv, ServeTypeOK, HoldersInv, DrainInv,
              NoneHeld, Quiet
<1>4. QED
  BY <1>1, <1>2, <1>3 DEF ServeNext

LEMMA IInvAlways == ServeSpec => []IInv
  BY IInvInit, IInvStep, PTL DEF ServeSpec, serveVars

\* An exit code 0 is given only after an interrupt and with no request cut off
\* (run.go:157), however many requests come and however they interleave.
THEOREM CleanExitHolds == ServeSpec => []CleanExit
<1>1. IInv => CleanExit
  BY DEF IInv, DrainInv, CleanExit, Quiet
<1>2. QED
  BY <1>1, IInvAlways, PTL

\* No return of Serve, not even the one that leaves the reporting runner
\* behind (run.go:127), ends the process in the middle of a statement.
THEOREM NoStatementAtExitHolds == ServeSpec => []NoStatementAtExit
<1>1. IInv => NoStatementAtExit
  BY DEF IInv, HoldersInv, NoneHeld, NoStatementAtExit, Holders
<1>2. QED
  BY <1>1, IInvAlways, PTL
-----------------------------------------------------------------------------
(* Session implements Serve.                                               *)

LEMMA InitMaps == Init => ServeInit
  BY DEF Init

LEMMA AskMaps ==
    ASSUME NEW m \in Methods, NEW what, Ask(m, what)
    PROVE  ServeNext
  BY DEF Ask, ServeNext, Request

\* What a handler's statement does to the request is one of its two ends.
LEMMA StatementMaps ==
    ASSUME NEW q \in Slots, Statement(q)
    PROVE  ServeNext
<1>1. Proceed(q) \/ \E code \in {200, 400, 404, 500} : Answer(q, code)
  BY DEF Statement, CheckStatement, PostStatement, PatchStatement, DeleteStatement,
         GetStatement, StatementFails, Written
<1>2. QED
  BY <1>1 DEF ServeNext, Request

LEMMA StepMaps == [Next]_vars => [ServeNext]_serveVars
<1> SUFFICES ASSUME [Next]_vars PROVE [ServeNext]_serveVars
  OBVIOUS
<1>1. CASE Serves
  BY <1>1 DEF Serves, ServeNext, Request
<1>2. CASE Leave \/ Elsewhere
  BY <1>2 DEF Leave, Elsewhere
<1>3. CASE \E n \in Subnets : Open(n) \/ Jump(n)
  BY <1>3, AskMaps, Zenon DEF Open, Jump, Load, Methods
<1>4. CASE \E a \in Addresses, h \in Hostnames \cup {Blank} : Save(a, h)
  <2>1. PICK a \in Addresses, h \in Hostnames \cup {Blank} : Save(a, h)
    BY <1>4
  <2>2. \E m \in Methods : \E what : Ask(m, what)
    BY <2>1, Zenon DEF Save, Methods
  <2>3. QED
    BY <2>2, AskMaps
<1>5. CASE \E q \in Slots : Statement(q)
  BY <1>5, StatementMaps
<1>6. CASE \E q \in Slots : Receive(q)
  BY <1>6 DEF Receive, ServeNext, Request
<1>7. CASE UNCHANGED vars
  BY <1>7 DEF vars
<1>8. QED
  BY <1>1, <1>2, <1>3, <1>4, <1>5, <1>6, <1>7 DEF Next

\* The browser and the rows add nothing to what the process may do: the
\* requests of a page are requests (SubnetDetailView.tsx, run.go).
THEOREM Refinement == Spec => ServeSpec
<1>1. QED
  BY InitMaps, StepMaps, PTL DEF Spec, ServeSpec

\* An exit code 0 cuts off no request of the page either.
THEOREM CleanExitOfSession == Spec => []CleanExit
  BY Refinement, CleanExitHolds, PTL

\* Nor is a statement for the page running when the process ends.
THEOREM NoStatementAtExitOfSession == Spec => []NoStatementAtExit
  BY Refinement, NoStatementAtExitHolds, PTL
-----------------------------------------------------------------------------
(* The rows under the page's feet.                                         *)

\* What the page knows of an address row stays true, until the row is gone:
\* rows keep their address, and keys are not used again.
Names(i, a) == i \in IpIds /\ ips[i] # Unused /\ (ips[i] # Deleted => ips[i].ip = a)

Wanted == [subnet : Subnets \cup {Nil}, id : IpIds \cup {Nil}, ip : Addresses \cup {Nil},
           hostname : Hostnames \cup {Blank, Nil}, current : BOOLEAN]

SessionTypes ==
    /\ ips \in [IpIds -> IpRow \cup {Unused, Deleted}]
    /\ request \in [Slots -> Wanted]
    /\ answer \in [Slots -> SUBSET Record]
    /\ shown \in Subnets \cup {Nil}
    /\ records \subseteq Record

\* Records may be another subnet's, never another address's.
RecordsAreTrue ==
    /\ \A r \in records : Names(r.id, r.ip)
    /\ \A q \in Slots : \A r \in answer[q] : Names(r.id, r.ip)

RequestsAreTrue ==
    \A q \in Slots : stage[q] # "free" =>
       /\ request[q].subnet \in Subnets
       /\ method[q] # "GET" => request[q].ip \in Addresses
       /\ method[q] \in {"POST", "PATCH"} => request[q].hostname \in Hostnames \cup {Blank}
       /\ method[q] \in {"PATCH", "DELETE"} => Names(request[q].id, request[q].ip)

\* A PATCH before its UPDATE has seen that the row is in the path's subnet.
ChecksHold ==
    \A q \in Slots :
       stage[q] \in Handled /\ left[q] = 1 /\ method[q] = "PATCH" /\ ips[request[q].id] # Deleted =>
          ips[request[q].id].subnet = request[q].subnet

SessionInv ==
    IInv /\ SessionTypes /\ RecordsAreTrue /\ RequestsAreTrue /\ ChecksHold

LEMMA SessionInvInit == Init => SessionInv
<1> SUFFICES ASSUME Init PROVE SessionInv
  OBVIOUS
<1> USE SessionConstants
<1>1. IInv
  BY InitMaps, IInvInit
<1>2. NoRequest \in Wanted
  BY DEF NoRequest, Wanted
<1>3. \A n : RowsOf(n) \subseteq Record /\ \A r \in RowsOf(n) : Names(r.id, r.ip)
  BY DEF Init, RowsOf, RecordOf, Live, Record, IpRow, Names
<1>4. SessionTypes
  BY <1>2, <1>3 DEF Init, SessionTypes
<1>5. RecordsAreTrue
  BY <1>3 DEF Init, RecordsAreTrue
<1>6. RequestsAreTrue /\ ChecksHold
  BY DEF Init, ServeInit, RequestsAreTrue, ChecksHold, Handled
<1>7. QED
  BY <1>1, <1>4, <1>5, <1>6 DEF SessionInv

\* A row that has been made keeps subnet and address until it is deleted.
RowsKept ==
    \A i \in IpIds : ips[i] # Unused =>
       /\ ips'[i] # Unused
       /\ ips'[i] # Deleted =>
             ips[i] # Deleted /\ ips'[i].subnet = ips[i].subnet /\ ips'[i].ip = ips[i].ip

RowsTyped == ips' \in [IpIds -> IpRow \cup {Unused, Deleted}]

LEMMA UnchangedRows ==
    ASSUME SessionTypes, UNCHANGED ips
    PROVE  RowsKept /\ RowsTyped
  BY DEF SessionTypes, RowsKept, RowsTyped

LEMMA StatementRows ==
    ASSUME SessionInv, NEW q \in Slots, Statement(q)
    PROVE  RowsKept /\ RowsTyped
<1> USE SessionConstants DEF SessionInv, SessionTypes
<1>a. stage[q] = "statement"
  BY DEF Statement, CheckStatement, PostStatement, PatchStatement, DeleteStatement,
         GetStatement, StatementFails, Written, Proceed, Answer, InStatement
<1>1. CASE CheckStatement(q) \/ GetStatement(q) \/ StatementFails(q)
  BY <1>1, UnchangedRows DEF CheckStatement, GetStatement, StatementFails, browser
<1>2. CASE PostStatement(q)
  <2>1. CASE UNCHANGED ips
    BY <2>1, UnchangedRows
  <2>2. ASSUME NEW i \in IpIds, ips[i] = Unused,
               ips' = [ips EXCEPT ![i] = [subnet |-> request[q].subnet, ip |-> request[q].ip,
                                          hostname |-> request[q].hostname]]
        PROVE  RowsKept /\ RowsTyped
    <3>1. [subnet |-> request[q].subnet, ip |-> request[q].ip,
           hostname |-> request[q].hostname] \in IpRow
      BY <1>2, <1>a DEF PostStatement, RequestsAreTrue, IpRow
    <3>2. QED
      BY <2>2, <3>1 DEF RowsKept, RowsTyped
  <2>3. QED
    BY <1>2, <2>1, <2>2, Zenon DEF PostStatement
<1>3. CASE PatchStatement(q)
  <2>1. CASE UNCHANGED ips
    BY <2>1, UnchangedRows
  <2>2. ASSUME request[q].id \in Live,
               ips' = [ips EXCEPT ![request[q].id].hostname = request[q].hostname]
        PROVE  RowsKept /\ RowsTyped
    <3>1. ips[request[q].id] \in IpRow
      BY <2>2 DEF Live
    <3>2. request[q].hostname \in Hostnames \cup {Blank}
      BY <1>3, <1>a DEF PatchStatement, RequestsAreTrue
    <3>3. [ips[request[q].id] EXCEPT !.hostname = request[q].hostname] \in IpRow
      BY <3>1, <3>2 DEF IpRow
    <3>4. /\ [ips[request[q].id] EXCEPT !.hostname = request[q].hostname].subnet
             = ips[request[q].id].subnet
          /\ [ips[request[q].id] EXCEPT !.hostname = request[q].hostname].ip
             = ips[request[q].id].ip
      BY <3>1 DEF IpRow
    <3>5. QED
      BY <2>2, <3>3, <3>4 DEF RowsKept, RowsTyped, Live
  <2>3. QED
    BY <1>3, <2>1, <2>2 DEF PatchStatement
<1>4. CASE DeleteStatement(q)
  BY <1>4 DEF DeleteStatement, Live, RowsKept, RowsTyped
<1>5. QED
  BY <1>1, <1>2, <1>3, <1>4 DEF Statement

LEMMA ElsewhereRows ==
    ASSUME SessionInv, Elsewhere
    PROVE  RowsKept /\ RowsTyped
  BY SessionConstants DEF SessionInv, SessionTypes, Elsewhere, Live, RowsKept, RowsTyped

LEMMA Rows ==
    ASSUME SessionInv, [Next]_vars
    PROVE  RowsKept /\ RowsTyped
<1>1. CASE Elsewhere
  BY <1>1, ElsewhereRows
<1>2. CASE \E q \in Slots : Statement(q)
  BY <1>2, StatementRows
<1>3. CASE Serves \/ Leave
  BY <1>3, UnchangedRows DEF Serves, Leave, SessionInv
<1>4. CASE \/ \E n \in Subnets : Open(n) \/ Jump(n)
           \/ \E a \in Addresses, h \in Hostnames \cup {Blank} : Save(a, h)
  <2>1. UNCHANGED ips
    BY <1>4 DEF Open, Jump, Load, Save, Ask
  <2>2. QED
    BY <2>1, UnchangedRows DEF SessionInv
<1>5. CASE \E q \in Slots : Receive(q)
  BY <1>5, UnchangedRows DEF Receive, SessionInv
<1>6. CASE UNCHANGED vars
  BY <1>6, UnchangedRows DEF vars, SessionInv
<1>7. QED
  BY <1>1, <1>2, <1>3, <1>4, <1>5, <1>6 DEF Next

\* So what was true of a row stays true.
LEMMA NamesKept ==
    ASSUME RowsKept, NEW i, NEW a, Names(i, a)
    PROVE  Names(i, a)'
  BY DEF RowsKept, Names

\* A request in its slot: it is what it was, and a PATCH that has come to its
\* UPDATE was there before, or has just seen the row.
GoesOn(q) ==
    stage'[q] # "free" =>
       /\ stage[q] # "free" /\ method'[q] = method[q]
       /\ \A f \in {"subnet", "id", "ip", "hostname"} : request'[q][f] = request[q][f]
       /\ stage'[q] \in Handled /\ left'[q] = 1 /\ method[q] = "PATCH" =>
             stage[q] \in Handled /\ (left[q] = 1 \/ ips[request[q].id].subnet = request[q].subnet)

LEMMA InvKept ==
    ASSUME SessionInv, RowsKept, IInv', SessionTypes', RecordsAreTrue',
           \A q \in Slots : GoesOn(q)
    PROVE  SessionInv'
<1>1. RequestsAreTrue'
  <2> SUFFICES ASSUME NEW q \in Slots, stage'[q] # "free"
               PROVE  /\ request'[q].subnet \in Subnets
                      /\ method'[q] # "GET" => request'[q].ip \in Addresses
                      /\ method'[q] \in {"POST", "PATCH"} =>
                            request'[q].hostname \in Hostnames \cup {Blank}
                      /\ method'[q] \in {"PATCH", "DELETE"} =>
                            Names(request[q].id, request[q].ip)'
    BY DEF RequestsAreTrue, Names
  <2>1. /\ stage[q] # "free" /\ method'[q] = method[q]
        /\ request'[q].subnet = request[q].subnet /\ request'[q].id = request[q].id
        /\ request'[q].ip = request[q].ip /\ request'[q].hostname = request[q].hostname
    BY DEF GoesOn
  <2>2. QED
    BY <2>1 DEF SessionInv, RequestsAreTrue, RowsKept, Names
<1>2. ChecksHold'
  <2> SUFFICES ASSUME NEW q \in Slots, stage'[q] \in Handled, left'[q] = 1, method'[q] = "PATCH",
                      ips'[request'[q].id] # Deleted
               PROVE  ips'[request'[q].id].subnet = request'[q].subnet
    BY DEF ChecksHold
  <2>1. /\ stage[q] # "free" /\ method[q] = "PATCH"
        /\ request'[q].subnet = request[q].subnet /\ request'[q].id = request[q].id
        /\ stage[q] \in Handled /\ (left[q] = 1 \/ ips[request[q].id].subnet = request[q].subnet)
    BY DEF GoesOn, Handled
  <2>2. request[q].id \in IpIds /\ ips[request[q].id] # Unused
    BY <2>1 DEF SessionInv, RequestsAreTrue, Names
  <2>3. QED
    BY <2>1, <2>2 DEF SessionInv, ChecksHold, RowsKept
<1>3. QED
  BY <1>1, <1>2 DEF SessionInv

LEMMA ServesKept ==
    ASSUME SessionInv, RowsKept, RowsTyped, IInv', Serves
    PROVE  SessionInv'
<1>1. UNCHANGED <<ips, request, answer, shown, records>>
  BY DEF Serves, browser, page
<1>2. \A q \in Slots : GoesOn(q)
  <2> SUFFICES ASSUME NEW q \in Slots, stage'[q] # "free" PROVE GoesOn(q)
    BY DEF GoesOn
  <2> USE DEF SessionInv, IInv, ServeTypeOK, mainVars, process, requestVars, GoesOn, Handled, Busy
  <2>1. CASE Background
    BY <1>1, <2>1 DEF Background, Main, Listen, NewPool, NewAuthenticator, NewClient, Select,
                      Shutdown, Drain, ClosePool, Interrupt, ServeStarts, ServeEnds, Cycle, CycleEnds
  <2>2. CASE \E p \in Slots : Connect(p) \/ Accept(p)
    BY <1>1, <2>2 DEF Connect, Accept, Reply, Statements
  <2>3. CASE \E p \in Slots : Acquire(p) \/ Lose(p)
    BY <1>1, <2>3 DEF Acquire, Lose, Reply
  <2>4. QED
    BY <2>1, <2>2, <2>3 DEF Serves
<1>3. SessionTypes' /\ RecordsAreTrue'
  BY <1>1 DEF SessionInv, SessionTypes, RecordsAreTrue, Names
<1>4. QED
  BY <1>2, <1>3, InvKept

LEMMA LeaveKept ==
    ASSUME SessionInv, RowsKept, RowsTyped, IInv', Leave
    PROVE  SessionInv'
<1>1. request' \in [Slots -> Wanted]
  <2>1. \A w \in Wanted : [w EXCEPT !.current = FALSE] \in Wanted
    BY DEF Wanted
  <2>2. QED
    BY <2>1 DEF SessionInv, SessionTypes, Leave
<1>2. \A q \in Slots : GoesOn(q)
  <2> SUFFICES ASSUME NEW q \in Slots PROVE GoesOn(q)
    OBVIOUS
  <2>1. request[q] \in Wanted /\ request'[q] = [request[q] EXCEPT !.current = FALSE]
    BY DEF SessionInv, SessionTypes, Leave
  <2>2. \A f \in {"subnet", "id", "ip", "hostname"} : request'[q][f] = request[q][f]
    BY <2>1 DEF Wanted
  <2>3. QED
    BY <2>2 DEF Leave, serveVars, requestVars, GoesOn
<1>3. SessionTypes' /\ RecordsAreTrue'
  BY <1>1 DEF SessionInv, SessionTypes, RecordsAreTrue, Leave, Names
<1>4. QED
  BY <1>2, <1>3, InvKept

LEMMA ElsewhereKept ==
    ASSUME SessionInv, RowsKept, RowsTyped, IInv', Elsewhere
    PROVE  SessionInv'
<1>1. UNCHANGED <<request, answer, shown, records, requestVars>>
  BY DEF Elsewhere, page, serveVars
<1>2. \A q \in Slots : GoesOn(q)
  BY <1>1 DEF GoesOn, requestVars
<1>3. SessionTypes' /\ RecordsAreTrue'
  BY <1>1 DEF SessionInv, SessionTypes, RecordsAreTrue, RowsKept, RowsTyped, Names
<1>4. QED
  BY <1>2, <1>3, InvKept

LEMMA ReceiveKept ==
    ASSUME SessionInv, RowsKept, RowsTyped, IInv', NEW q \in Slots, Receive(q)
    PROVE  SessionInv'
<1> USE DEF SessionInv, SessionTypes
<1>1. /\ request' = [request EXCEPT ![q] = NoRequest] /\ NoRequest \in Wanted
      /\ answer' = [answer EXCEPT ![q] = {}] /\ UNCHANGED <<ips, shown>>
  BY DEF Receive, page, NoRequest, Wanted
<1>2. \A p \in Slots : GoesOn(p)
  BY <1>1 DEF Receive, Done, GoesOn, IInv, ServeTypeOK
<1>3. \A r \in records' : r \in Record /\ Names(r.id, r.ip)
  <2>1. records' \subseteq records \cup answer[q]
    BY DEF Receive, Apply, page
  <2>2. QED
    BY <2>1 DEF RecordsAreTrue
<1>4. SessionTypes' /\ RecordsAreTrue'
  BY <1>1, <1>3 DEF RecordsAreTrue, RowsTyped, Names
<1>5. QED
  BY <1>2, <1>4, InvKept

\* The page asks for what it has, of the subnet that it shows.
LEMMA AskKept ==
    ASSUME SessionInv, RowsKept, RowsTyped, IInv',
           NEW m \in Methods, NEW what \in Wanted, Ask(m, what),
           what.subnet \in Subnets,
           m # "GET" => what.ip \in Addresses,
           m \in {"POST", "PATCH"} => what.hostname \in Hostnames \cup {Blank},
           m \in {"PATCH", "DELETE"} => Names(what.id, what.ip),
           shown' \in Subnets, records' \subseteq records
    PROVE  SessionInv'
<1> USE DEF SessionInv
<1>1. UNCHANGED <<ips, answer, left>>
  BY DEF Ask, Send
<1>2. PICK q \in Slots : /\ request' = [request EXCEPT ![q] = what]
                         /\ stage' = [stage EXCEPT ![q] = "sent"]
                         /\ method' = [method EXCEPT ![q] = m]
  BY DEF Ask, Send
<1>3. SessionTypes'
  BY <1>1, <1>2 DEF SessionTypes, RowsTyped
<1>4. RecordsAreTrue'
  BY <1>1 DEF RecordsAreTrue, Names
<1>5. \A p \in Slots \ {q} : UNCHANGED <<request[p], stage[p], method[p], left[p]>>
  BY <1>1, <1>2 DEF IInv, ServeTypeOK, SessionTypes
<1>6. request'[q] = what /\ stage'[q] = "sent" /\ method'[q] = m
  BY <1>2 DEF IInv, ServeTypeOK, SessionTypes
<1>7. RequestsAreTrue'
  <2> SUFFICES ASSUME NEW p \in Slots, stage'[p] # "free"
               PROVE  /\ request'[p].subnet \in Subnets
                      /\ method'[p] # "GET" => request'[p].ip \in Addresses
                      /\ method'[p] \in {"POST", "PATCH"} =>
                            request'[p].hostname \in Hostnames \cup {Blank}
                      /\ method'[p] \in {"PATCH", "DELETE"} =>
                            Names(request[p].id, request[p].ip)'
    BY DEF RequestsAreTrue, Names
  <2>1. CASE p = q
    BY <1>1, <1>6, <2>1 DEF Names
  <2>2. CASE p # q
    BY <1>1, <1>5, <2>2 DEF RequestsAreTrue, Names
  <2>3. QED
    BY <2>1, <2>2
<1>8. ChecksHold'
  BY <1>1, <1>5, <1>6 DEF ChecksHold, Handled
<1>9. QED
  BY <1>3, <1>4, <1>7, <1>8

LEMMA LoadKept ==
    ASSUME SessionInv, RowsKept, RowsTyped, IInv', NEW n \in Subnets, Open(n) \/ Jump(n)
    PROVE  SessionInv'
<1> DEFINE what == [subnet |-> n, id |-> Nil, ip |-> Nil, hostname |-> Nil, current |-> TRUE]
<1>1. what \in Wanted /\ what.subnet \in Subnets
  BY DEF Wanted
<1>2. Ask("GET", what) /\ shown' \in Subnets /\ records' \subseteq records
  BY DEF Open, Jump, Load
<1>3. QED
  BY <1>1, <1>2, AskKept DEF Methods

LEMMA SaveKept ==
    ASSUME SessionInv, RowsKept, RowsTyped, IInv',
           NEW a \in Addresses, NEW h \in Hostnames \cup {Blank}, Save(a, h)
    PROVE  SessionInv'
<1> USE DEF SessionInv, SessionTypes
<1>1. shown \in Subnets /\ shown' = shown /\ records' = records
  BY DEF Save
<1>2. ASSUME Ask("POST", [subnet |-> shown, id |-> Nil, ip |-> a, hostname |-> h, current |-> TRUE])
      PROVE  SessionInv'
  <2> DEFINE what == [subnet |-> shown, id |-> Nil, ip |-> a, hostname |-> h, current |-> TRUE]
  <2>1. what \in Wanted
    BY <1>1 DEF Wanted
  <2> HIDE DEF SessionInv, SessionTypes
  <2>2. QED
    BY <1>1, <1>2, <2>1, AskKept DEF Methods
<1>3. ASSUME NEW r \in Existing(a), NEW m \in {"DELETE", "PATCH"},
             Ask(m, [subnet |-> shown, id |-> r.id, ip |-> a, hostname |-> h, current |-> TRUE])
      PROVE  SessionInv'
  <2> DEFINE what == [subnet |-> shown, id |-> r.id, ip |-> a, hostname |-> h, current |-> TRUE]
  <2>1. r \in Record /\ r.ip = a /\ Names(r.id, r.ip)
    BY DEF Existing, RecordsAreTrue
  <2>2. what \in Wanted /\ Names(what.id, what.ip)
    BY <1>1, <2>1 DEF Wanted, Record
  <2> HIDE DEF SessionInv, SessionTypes
  <2>3. QED
    BY <1>1, <1>3, <2>2, AskKept DEF Methods
<1>4. QED
  BY <1>2, <1>3, Zenon DEF Save

LEMMA StatementKept ==
    ASSUME SessionInv, RowsKept, RowsTyped, IInv', NEW q \in Slots, Statement(q)
    PROVE  SessionInv'
<1> USE SessionConstants
    DEF SessionInv, SessionTypes
<1>1. stage[q] = "statement" /\ UNCHANGED <<request, shown, records, method>>
  BY DEF Statement, CheckStatement, PostStatement, PatchStatement, DeleteStatement, GetStatement,
         StatementFails, Written, Proceed, Answer, InStatement, Reply, browser, page
<1>2. \A p \in Slots : GoesOn(p)
  <2>1. ASSUME \E code : Answer(q, code)
        PROVE  \A p \in Slots : GoesOn(p)
    BY <1>1, <2>1 DEF Answer, Reply, GoesOn, IInv, ServeTypeOK, Handled
  <2>2. ASSUME Checks(q), Proceed(q)
        PROVE  \A p \in Slots : GoesOn(p)
    BY <1>1, <2>2 DEF Proceed, Checks, GoesOn, IInv, ServeTypeOK, Handled
  <2>3. QED
    BY <2>1, <2>2 DEF Statement, CheckStatement, PostStatement, PatchStatement,
         DeleteStatement, GetStatement, StatementFails, Written
<1>3. \A p \in Slots : p # q => answer'[p] = answer[p]
  BY DEF Statement, CheckStatement, PostStatement, PatchStatement, DeleteStatement, GetStatement,
         StatementFails, Written
<1>4. answer' \in [Slots -> SUBSET Record] /\ \A r \in answer'[q] : Names(r.id, r.ip)'
  <2>1. CASE UNCHANGED answer
    BY <2>1 DEF RecordsAreTrue, RowsKept, Names
  <2>2. CASE GetStatement(q)
    BY <2>2 DEF GetStatement, RowsOf, RecordOf, Live, Record, IpRow, Names
  <2>3. ASSUME PostStatement(q), NEW i \in IpIds, ips[i] = Unused,
               ips' = [ips EXCEPT ![i] = [subnet |-> request[q].subnet, ip |-> request[q].ip,
                                          hostname |-> request[q].hostname]],
               answer' = [answer EXCEPT ![q] =
                             {[id |-> i, ip |-> request[q].ip, hostname |-> request[q].hostname]}]
        PROVE  answer' \in [Slots -> SUBSET Record] /\ \A r \in answer'[q] : Names(r.id, r.ip)'
    <3>1. request[q].ip \in Addresses /\ request[q].hostname \in Hostnames \cup {Blank}
      BY <1>1, <2>3 DEF PostStatement, RequestsAreTrue
    <3>2. ips'[i].ip = request[q].ip /\ ips'[i] # Unused
      <4>1. [subnet |-> request[q].subnet, ip |-> request[q].ip,
             hostname |-> request[q].hostname] \in IpRow
        BY <1>1, <3>1 DEF RequestsAreTrue, IpRow
      <4>2. QED
        BY <2>3, <4>1
    <3>3. QED
      BY <2>3, <3>1, <3>2 DEF Record, Names
  <2>4. ASSUME PatchStatement(q), request[q].id \in Live,
               answer' = [answer EXCEPT ![q] =
                             {[RecordOf(request[q].id) EXCEPT !.hostname = request[q].hostname]}]
        PROVE  answer' \in [Slots -> SUBSET Record] /\ \A r \in answer'[q] : Names(r.id, r.ip)'
    <3> DEFINE i == request[q].id
    <3>1. request[q].hostname \in Hostnames \cup {Blank}
      BY <1>1, <2>4 DEF PatchStatement, RequestsAreTrue
    <3>2. i \in IpIds /\ ips[i] \in IpRow /\ Names(i, ips[i].ip)
      BY <2>4 DEF Live, Names
    <3>3. [RecordOf(i) EXCEPT !.hostname = request[q].hostname]
          = [id |-> i, ip |-> ips[i].ip, hostname |-> request[q].hostname]
      BY DEF RecordOf
    <3> HIDE DEF i
    <3>4. answer'[q] = {[id |-> i, ip |-> ips[i].ip, hostname |-> request[q].hostname]}
      BY <2>4, <3>3 DEF i
    <3>5. [id |-> i, ip |-> ips[i].ip, hostname |-> request[q].hostname] \in Record
      BY <3>1, <3>2 DEF Record, IpRow
    <3>6. QED
      BY <2>4, <3>2, <3>4, <3>5 DEF i, Names, RowsKept
  <2>5. CASE answer' = [answer EXCEPT ![q] = {}]
    BY <2>5
  <2>6. QED
    BY <2>1, <2>2, <2>3, <2>4, <2>5 DEF Statement, CheckStatement, PostStatement, PatchStatement,
         DeleteStatement, StatementFails, Written, browser
<1>5. SessionTypes' /\ RecordsAreTrue'
  BY <1>1, <1>3, <1>4 DEF RecordsAreTrue, RowsKept, RowsTyped, Names
<1>6. QED
  BY <1>2, <1>5, InvKept

LEMMA SessionInvStep == SessionInv /\ [Next]_vars => SessionInv'
<1> SUFFICES ASSUME SessionInv, [Next]_vars PROVE SessionInv'
  OBVIOUS
<1>1. RowsKept /\ RowsTyped
  BY Rows
<1>2. IInv'
  BY StepMaps, IInvStep DEF SessionInv
<1>3. CASE Serves \/ Leave \/ Elsewhere
  BY <1>1, <1>2, <1>3, ServesKept, LeaveKept, ElsewhereKept
<1>4. CASE \E n \in Subnets : Open(n) \/ Jump(n)
  BY <1>1, <1>2, <1>4, LoadKept
<1>5. CASE \E a \in Addresses, h \in Hostnames \cup {Blank} : Save(a, h)
  BY <1>1, <1>2, <1>5, SaveKept
<1>6. CASE \E q \in Slots : Statement(q)
  BY <1>1, <1>2, <1>6, StatementKept
<1>7. CASE \E q \in Slots : Receive(q)
  BY <1>1, <1>2, <1>7, ReceiveKept
<1>8. CASE UNCHANGED vars
  <2>1. /\ UNCHANGED <<ips, request, answer, shown, records, stage, method, left>>
    BY <1>8 DEF vars, browser, page, serveVars, requestVars
  <2>2. QED
    BY <1>2, <2>1 DEF SessionInv, SessionTypes, RecordsAreTrue, RequestsAreTrue, ChecksHold, Names
<1>9. QED
  BY <1>3, <1>4, <1>5, <1>6, <1>7, <1>8 DEF Next

\* The row that a statement changes is the one that the click pointed at.
LEMMA StatementPoints ==
    ASSUME SessionInv, NEW q \in Slots, NEW i \in IpIds, Statement(q), ips'[i] # ips[i]
    PROVE  LET row == IF i \in Live THEN ips[i] ELSE ips'[i] IN
           row.subnet = request[q].subnet /\ row.ip = request[q].ip
<1> USE DEF SessionInv, SessionTypes
<1>1. stage[q] = "statement"
  BY DEF Statement, CheckStatement, PostStatement, PatchStatement, DeleteStatement, GetStatement,
         StatementFails, Written, Proceed, Answer, InStatement
<1>2. CASE PostStatement(q)
  <2>1. PICK j \in IpIds :
           /\ ips[j] = Unused
           /\ ips' = [ips EXCEPT ![j] = [subnet |-> request[q].subnet, ip |-> request[q].ip,
                                         hostname |-> request[q].hostname]]
    BY <1>2, Zenon DEF PostStatement
  <2>2. i = j /\ i \notin Live
    BY <2>1 DEF Live
  <2>3. QED
    BY <2>1, <2>2
<1>3. CASE PatchStatement(q)
  <2>1. i = request[q].id /\ i \in Live
    BY <1>3 DEF PatchStatement
  <2>2. ips[i].subnet = request[q].subnet
    BY <1>1, <1>3, <2>1 DEF PatchStatement, ChecksHold, Handled, Live
  <2>3. ips[i].ip = request[q].ip
    BY <1>1, <1>3, <2>1 DEF PatchStatement, RequestsAreTrue, Names, Live
  <2>4. QED
    BY <2>1, <2>2, <2>3
<1>4. CASE DeleteStatement(q)
  BY <1>1, <1>4 DEF DeleteStatement, RequestsAreTrue, Names, Live
<1>5. CASE CheckStatement(q) \/ GetStatement(q) \/ StatementFails(q)
  BY <1>5 DEF CheckStatement, GetStatement, StatementFails
<1>6. QED
  BY <1>2, <1>3, <1>4, <1>5 DEF Statement

\* Whatever the page shows when Save is clicked, and whoever else writes, the
\* clicked address of the subnet shown is changed or nothing
\* (SubnetDetailView.tsx:32, ip_repository.go:79), for any number of subnets,
\* rows and requests.
THEOREM SavesPointTrue == Spec => SavesWhereItPoints
<1>1. SessionInv =>
         \A q \in Slots, i \in IpIds :
            Statement(q) /\ ips'[i] # ips[i] =>
               LET row == IF i \in Live THEN ips[i] ELSE ips'[i] IN
               row.subnet = request[q].subnet /\ row.ip = request[q].ip
  BY StatementPoints, Zenon
<1>2. QED
  BY <1>1, SessionInvInit, SessionInvStep, PTL DEF Spec, SavesWhereItPoints
-----------------------------------------------------------------------------
(* Roles.                                                                  *)

\* A handler runs only for a request that the middleware has let pass.
HandlersAreAuthorized == \A q \in Slots : stage[q] \in Handled => authorized(method[q])

LEMMA ClaimsStay == [ServeNext]_serveVars => UNCHANGED claimed
<1> USE DEF mainVars, process, requestVars, serveVars
<1>1. Background => UNCHANGED claimed
  BY DEF Background, Main, Listen, NewPool, NewAuthenticator, NewClient, Select, Shutdown,
         Drain, ClosePool, Interrupt, ServeStarts, ServeEnds, Cycle, CycleEnds
<1>2. \A q \in Slots : Request(q) => UNCHANGED claimed
  BY DEF Request, Send, Connect, Accept, Acquire, Proceed, Answer, Lose, Done, Reply
<1>3. QED
  BY <1>1, <1>2 DEF ServeNext

\* A handler runs when its request has been accepted, and keeps its method.
LEMMA HandledStep ==
    ASSUME IInv, [ServeNext]_serveVars, NEW p \in Slots, stage'[p] \in Handled
    PROVE  method'[p] = method[p] /\ (stage[p] \in Handled \/ authorized(method[p]))
<1> USE DEF mainVars, process, requestVars, serveVars, IInv, ServeTypeOK, Handled, Busy
<1>1. CASE Background
  BY <1>1 DEF Background, Main, Listen, NewPool, NewAuthenticator, NewClient, Select, Shutdown,
              Drain, ClosePool, Interrupt, ServeStarts, ServeEnds, Cycle, CycleEnds
<1>2. CASE \E q \in Slots : Request(q)
  BY <1>2 DEF Request, Send, Connect, Accept, Acquire, Proceed, Answer, InStatement, Lose, Done, Reply
<1>3. CASE UNCHANGED serveVars
  BY <1>3
<1>4. QED
  BY <1>1, <1>2, <1>3 DEF ServeNext

LEMMA AuthorizedStep ==
    IInv /\ HandlersAreAuthorized /\ [ServeNext]_serveVars => HandlersAreAuthorized'
<1> SUFFICES ASSUME IInv, HandlersAreAuthorized, [ServeNext]_serveVars,
                    NEW p \in Slots, stage'[p] \in Handled
             PROVE  authorized(method[p])'
  BY DEF HandlersAreAuthorized, Handled
<1>1. authorized(method[p]) /\ method'[p] = method[p]
  BY HandledStep DEF HandlersAreAuthorized
<1>2. QED
  BY <1>1, ClaimsStay DEF authorized, CanRead, CanWrite, CanDelete, Roles

\* Only a POST, a PATCH or a DELETE changes rows, and only a DELETE deletes one.
LEMMA StatementWrites ==
    ASSUME SessionInv, NEW q \in Slots, Statement(q), ips' # ips
    PROVE  /\ stage[q] \in Handled
           /\ method[q] \in {"POST", "PATCH", "DELETE"}
           /\ (\E i \in Live : ips'[i] = Deleted) => method[q] = "DELETE"
<1> USE SessionConstants DEF SessionInv, SessionTypes
<1>1. stage[q] \in Handled
  BY DEF Statement, CheckStatement, PostStatement, PatchStatement, DeleteStatement, GetStatement,
         StatementFails, Written, Proceed, Answer, InStatement, Handled
<1>2. CASE PostStatement(q)
  BY <1>1, <1>2 DEF PostStatement, Live
<1>3. CASE PatchStatement(q)
  <2>1. PICK i \in Live : /\ i = request[q].id
                          /\ ips' = [ips EXCEPT ![i].hostname = request[q].hostname]
    BY <1>3 DEF PatchStatement
  <2>2. request[q].hostname \in Hostnames \cup {Blank}
    BY <1>1, <1>3 DEF PatchStatement, RequestsAreTrue, Handled
  <2>3. ips'[i] \in IpRow
    BY <2>1, <2>2 DEF Live, IpRow
  <2>4. \A j \in Live : ips'[j] # Deleted
    BY <2>1, <2>3 DEF Live
  <2>5. QED
    BY <1>1, <1>3, <2>4 DEF PatchStatement
<1>4. CASE DeleteStatement(q)
  BY <1>1, <1>4 DEF DeleteStatement
<1>5. CASE CheckStatement(q) \/ GetStatement(q) \/ StatementFails(q)
  BY <1>5 DEF CheckStatement, GetStatement, StatementFails
<1>6. QED
  BY <1>2, <1>3, <1>4, <1>5 DEF Statement

\* Every role is offered the button that writes (SubnetDetailView.tsx:27), and
\* the middleware alone decides (authorization.go): whatever roles a token
\* claims, no statement for it writes or deletes what README.md:239 forbids.
THEOREM RolesDecideAll == Spec => RolesDecide
<1>1. Init => HandlersAreAuthorized
  BY DEF Init, ServeInit, HandlersAreAuthorized, Handled
<1>2. SessionInv /\ HandlersAreAuthorized /\ [Next]_vars => HandlersAreAuthorized'
  BY AuthorizedStep, StepMaps DEF SessionInv
<1>3. SessionInv /\ HandlersAreAuthorized =>
         \A q \in Slots : Statement(q) /\ ips' # ips =>
            /\ Roles \cap {"admin", "editor"} # {}
            /\ (\E i \in Live : ips'[i] = Deleted) => "admin" \in Roles
  <2> SUFFICES ASSUME SessionInv, HandlersAreAuthorized, NEW q \in Slots, Statement(q), ips' # ips
               PROVE  /\ Roles \cap {"admin", "editor"} # {}
                      /\ (\E i \in Live : ips'[i] = Deleted) => "admin" \in Roles
    OBVIOUS
  <2>1. /\ authorized(method[q])
        /\ method[q] \in {"POST", "PATCH", "DELETE"}
        /\ (\E i \in Live : ips'[i] = Deleted) => method[q] = "DELETE"
    BY StatementWrites DEF HandlersAreAuthorized
  <2>2. /\ method[q] \in {"POST", "PATCH"} => CanWrite
        /\ method[q] = "DELETE" => CanDelete
    BY <2>1 DEF authorized
  <2>3. QED
    BY <2>1, <2>2 DEF CanWrite, CanDelete
<1>4. QED
  BY <1>1, <1>2, <1>3, SessionInvInit, SessionInvStep, PTL DEF Spec, RolesDecide
-----------------------------------------------------------------------------
(* What the page holds, and what it should.                                *)

\* No two of the records are of one address.
Distinct(R) == \A r, s \in R : r.ip = s.ip => r = s

\* unique_ip.
RowsAreUnique ==
    \A i, j \in Live : ips[i].subnet = ips[j].subnet /\ ips[i].ip = ips[j].ip => i = j

RecordsAreUnique ==
    /\ Distinct(records)
    /\ \A q \in Slots :
          /\ Distinct(answer[q])
          /\ method[q] \in {"POST", "PATCH"} => \A r \in answer[q] : r.ip = request[q].ip

SlotsAreTrue ==
    \A q \in Slots :
       /\ stage[q] = "free" => request[q] = NoRequest /\ answer[q] = {}
       /\ stage[q] # "free" => method[q] \in Methods
       /\ stage[q] = "answered" <=> status[q] # Nil
       /\ Pending(q) => shown # Nil

PageTyped ==
    /\ loading \in BOOLEAN /\ clean \in BOOLEAN
    /\ saving \in Addresses \cup {Nil}
    /\ sent \in 0 .. MaxRequests

TypeInv == SessionInv /\ RowsAreUnique /\ RecordsAreUnique /\ SlotsAreTrue /\ PageTyped

LEMMA RowsOfDistinct ==
    ASSUME RowsAreUnique, NEW n
    PROVE  Distinct(RowsOf(n))
  BY DEF RowsAreUnique, Distinct, RowsOf, RecordOf

LEMMA TypeInvInit == Init => TypeInv
<1> SUFFICES ASSUME Init PROVE TypeInv
  OBVIOUS
<1> USE SessionConstants
<1>1. RowsAreUnique
  BY DEF Init, RowsAreUnique, Live
<1>2. RecordsAreUnique
  BY <1>1, RowsOfDistinct DEF Init, ServeInit, RecordsAreUnique, Distinct
<1>3. SlotsAreTrue
  BY DEF Init, ServeInit, SlotsAreTrue, Pending, NoRequest
<1>4. PageTyped
  <2>1. sent \in 0 .. MaxRequests
    BY DEF Init
  <2>2. QED
    BY <2>1, Zenon DEF Init, PageTyped
<1>5. QED
  BY <1>1, <1>2, <1>3, <1>4, SessionInvInit DEF TypeInv

\* A row comes only where there is none.
LEMMA NewRowIsUnique ==
    ASSUME SessionTypes, RowsAreUnique, NEW i \in IpIds, ips[i] = Unused,
           NEW row \in IpRow, ~Taken(row.subnet, row.ip), ips' = [ips EXCEPT ![i] = row]
    PROVE  RowsAreUnique'
  BY DEF SessionTypes, RowsAreUnique, Taken, Live

LEMMA RowsStayUnique ==
    ASSUME SessionInv, RowsAreUnique, [Next]_vars
    PROVE  RowsAreUnique'
<1> USE DEF SessionInv, SessionTypes
<1>1. ASSUME Live' \subseteq Live PROVE RowsAreUnique'
  BY <1>1, Rows DEF RowsAreUnique, RowsKept, Live
<1>2. CASE Elsewhere
  <2>1. ASSUME NEW i \in IpIds, ips' = [ips EXCEPT ![i] = Deleted] PROVE RowsAreUnique'
    BY <1>1, <2>1 DEF Live
  <2>2. QED
    BY <1>2, <2>1, NewRowIsUnique DEF Elsewhere
<1>3. ASSUME NEW q \in Slots, PostStatement(q) PROVE RowsAreUnique'
  <2>1. stage[q] = "statement"
    BY <1>3 DEF PostStatement, Written, Answer, InStatement
  <2> DEFINE row == [subnet |-> request[q].subnet, ip |-> request[q].ip,
                     hostname |-> request[q].hostname]
  <2>2. row \in IpRow /\ row.subnet = request[q].subnet /\ row.ip = request[q].ip
    BY <1>3, <2>1 DEF PostStatement, RequestsAreTrue, IpRow
  <2> HIDE DEF row
  <2>3. CASE UNCHANGED ips
    BY <1>1, <2>3 DEF Live
  <2>4. CASE ~Taken(row.subnet, row.ip) /\ \E i \in IpIds : ips[i] = Unused /\ ips' = [ips EXCEPT ![i] = row]
    BY <2>2, <2>4, NewRowIsUnique
  <2>5. QED
    BY <1>3, <2>2, <2>3, <2>4 DEF PostStatement, row
<1>4. ASSUME NEW q \in Slots, Statement(q), ~PostStatement(q) PROVE RowsAreUnique'
  <2>1. Live' \subseteq Live
    BY <1>4, SessionConstants DEF Statement, CheckStatement, PatchStatement, DeleteStatement,
         GetStatement, StatementFails, Live
  <2>2. QED
    BY <1>1, <2>1
<1>5. CASE UNCHANGED ips
  BY <1>1, <1>5 DEF Live
<1>6. ASSUME ~Elsewhere, \A q \in Slots : ~Statement(q) PROVE UNCHANGED ips
  BY <1>6 DEF Next, vars, Serves, Leave, Open, Jump, Load, Save, Ask, Receive
<1>7. QED
  BY <1>2, <1>3, <1>4, <1>5, <1>6

LEMMA PageStaysTyped ==
    ASSUME PageTyped, [Next]_vars
    PROVE  PageTyped'
<1> USE DEF PageTyped
<1>1. CASE Serves \/ UNCHANGED vars \/ \E q \in Slots : Statement(q)
  <2>1. UNCHANGED <<loading, clean, saving, sent>>
    BY <1>1 DEF Serves, vars, Statement, CheckStatement, PostStatement, PatchStatement,
         DeleteStatement, GetStatement, StatementFails, browser, page
  <2>2. QED
    BY <2>1
<1>2. CASE Leave
  BY <1>2, Zenon DEF Leave
<1>3. CASE Elsewhere
  <2>1. sent' \in 0 .. MaxRequests
    BY <1>3, SessionConstants DEF Elsewhere, SessionConstants
  <2>2. QED
    BY <1>3, <2>1, Zenon DEF Elsewhere, page
<1>4. ASSUME NEW n \in Subnets, Open(n) \/ Jump(n) PROVE PageTyped'
  <2>1. Load(n)
    BY <1>4, Zenon DEF Open, Jump
  <2>2. sent' \in 0 .. MaxRequests
    BY <2>1, SessionConstants DEF Load, Ask, SessionConstants
  <2>3. QED
    BY <1>4, <2>2, Zenon DEF Open, Jump
<1>5. ASSUME NEW a \in Addresses, NEW h \in Hostnames \cup {Blank}, Save(a, h) PROVE PageTyped'
  <2>1. sent' \in 0 .. MaxRequests
    BY <1>5, SessionConstants DEF Save, Ask, SessionConstants
  <2>2. QED
    BY <1>5, <2>1, Zenon DEF Save
<1>6. ASSUME NEW q \in Slots, Receive(q) PROVE PageTyped'
  <2>1. loading' \in BOOLEAN /\ saving' \in Addresses \cup {Nil}
    BY <1>6 DEF Receive, Apply, page
  <2>2. QED
    BY <1>6, <2>1, Zenon DEF Receive
<1>7. QED
  BY <1>1, <1>2, <1>3, <1>4, <1>5, <1>6 DEF Next

\* A request on its way stays in its slot, and an answer stays one.
Moved(p) ==
    /\ request'[p] = request[p] /\ method'[p] = method[p]
    /\ stage'[p] = "free" <=> stage[p] = "free"
    /\ stage'[p] = "answered" <=> status'[p] # Nil
    /\ stage[p] = "lost" => stage'[p] = "lost"
    /\ status[p] # Nil => status'[p] = status[p]

LEMMA ServesMoves ==
    ASSUME TypeInv, Serves, NEW p \in Slots
    PROVE  Moved(p) /\ (status'[p] = 200 <=> status[p] = 200)
<1> USE ServeConstants
    DEF TypeInv, SlotsAreTrue, SessionInv, IInv, ServeTypeOK, mainVars, process, requestVars,
        Moved, Handled, Busy
<1>1. UNCHANGED request
  BY DEF Serves, browser
<1>2. CASE Background
  BY <1>1, <1>2 DEF Background, Main, Listen, NewPool, NewAuthenticator, NewClient, Select,
                    Shutdown, Drain, ClosePool, Interrupt, ServeStarts, ServeEnds, Cycle, CycleEnds
<1>3. CASE \E r \in Slots : Connect(r) \/ Accept(r)
  BY <1>1, <1>3 DEF Connect, Accept, Reply, ServeConstants
<1>4. CASE \E r \in Slots : Acquire(r) \/ Lose(r)
  BY <1>1, <1>4 DEF Acquire, Lose, Reply, ServeConstants
<1>5. QED
  BY <1>2, <1>3, <1>4 DEF Serves

LEMMA StatementMoves ==
    ASSUME TypeInv, NEW q \in Slots, Statement(q)
    PROVE  /\ stage[q] = "statement"
           /\ UNCHANGED browser
           /\ \A p \in Slots : Moved(p)
           /\ \A p \in Slots \ {q} : UNCHANGED <<stage[p], status[p], answer[p]>>
<1> USE ServeConstants
    DEF TypeInv, SlotsAreTrue, SessionInv, SessionTypes, IInv, ServeTypeOK, requestVars,
        Moved, Handled, Busy
<1>1. UNCHANGED browser
  BY DEF Statement, CheckStatement, PostStatement, PatchStatement, DeleteStatement, GetStatement,
         StatementFails
<1>2. \A p \in Slots \ {q} : UNCHANGED answer[p]
  BY DEF Statement, CheckStatement, PostStatement, PatchStatement, DeleteStatement, GetStatement,
         StatementFails, Written
<1>3. Proceed(q) \/ \E code \in {200, 400, 404, 500} : Answer(q, code)
  BY DEF Statement, CheckStatement, PostStatement, PatchStatement, DeleteStatement,
         GetStatement, StatementFails, Written
<1>4. /\ stage[q] = "statement"
      /\ \A p \in Slots : Moved(p)
      /\ \A p \in Slots \ {q} : UNCHANGED <<stage[p], status[p]>>
  BY <1>1, <1>3 DEF Proceed, Answer, Reply, InStatement, browser, ServeConstants
<1>5. QED
  BY <1>1, <1>2, <1>4

LEMMA MovesKeepSlots ==
    ASSUME TypeInv, \A p \in Slots : Moved(p), UNCHANGED shown,
           \A p \in Slots : stage[p] = "free" => UNCHANGED answer[p]
    PROVE  SlotsAreTrue'
  BY DEF TypeInv, SlotsAreTrue, Moved, Pending

\* The parts of TypeInv that an action can break, action by action.
SlotsTyped == RecordsAreUnique /\ SlotsAreTrue

LEMMA ServesTyped ==
    ASSUME TypeInv, Serves
    PROVE  SlotsTyped'
<1>1. UNCHANGED <<ips, browser, answer>> /\ \A p \in Slots : Moved(p)
  BY ServesMoves DEF Serves
<1>2. RecordsAreUnique'
  BY <1>1 DEF TypeInv, RecordsAreUnique, Moved, browser, page
<1>3. QED
  BY <1>1, <1>2, MovesKeepSlots DEF SlotsTyped, browser, page

LEMMA StatementTyped ==
    ASSUME TypeInv, NEW q \in Slots, Statement(q)
    PROVE  SlotsTyped'
<1> USE DEF TypeInv
<1>1. /\ stage[q] = "statement" /\ UNCHANGED <<records, shown, request>>
      /\ \A p \in Slots : Moved(p)
      /\ \A p \in Slots \ {q} : UNCHANGED answer[p]
  BY StatementMoves DEF browser, page
<1>2. /\ Distinct(answer'[q])
      /\ method[q] \in {"POST", "PATCH"} => \A r \in answer'[q] : r.ip = request[q].ip
  <2>1. CASE UNCHANGED answer
    BY <2>1 DEF RecordsAreUnique
  <2>2. CASE GetStatement(q)
    BY <2>2, RowsOfDistinct DEF GetStatement, SessionInv, SessionTypes
  <2>3. ASSUME PostStatement(q), NEW i \in IpIds,
               answer' = [answer EXCEPT ![q] =
                             {[id |-> i, ip |-> request[q].ip, hostname |-> request[q].hostname]}]
        PROVE  /\ Distinct(answer'[q])
               /\ \A r \in answer'[q] : r.ip = request[q].ip
    BY <2>3 DEF Distinct, SessionInv, SessionTypes
  <2>4. ASSUME PatchStatement(q), request[q].id \in Live,
               answer' = [answer EXCEPT ![q] =
                             {[RecordOf(request[q].id) EXCEPT !.hostname = request[q].hostname]}]
        PROVE  /\ Distinct(answer'[q])
               /\ \A r \in answer'[q] : r.ip = request[q].ip
    <3>1. ips[request[q].id].ip = request[q].ip
      BY <1>1, <2>4 DEF PatchStatement, SessionInv, RequestsAreTrue, Names, Live
    <3>2. answer'[q] = {[RecordOf(request[q].id) EXCEPT !.hostname = request[q].hostname]}
      BY <2>4 DEF SessionInv, SessionTypes
    <3>3. QED
      BY <3>1, <3>2 DEF Distinct, RecordOf
  <2>5. CASE answer' = [answer EXCEPT ![q] = {}]
    BY <2>5 DEF Distinct, SessionInv, SessionTypes
  <2>6. QED
    BY <2>1, <2>2, <2>3, <2>4, <2>5 DEF Statement, CheckStatement, PostStatement, PatchStatement,
         DeleteStatement, GetStatement, StatementFails, Written, browser
<1>3. RecordsAreUnique'
  BY <1>1, <1>2 DEF RecordsAreUnique, Moved
<1>4. QED
  BY <1>1, <1>3, MovesKeepSlots DEF SlotsTyped

LEMMA LeaveTyped ==
    ASSUME TypeInv, Leave
    PROVE  SlotsTyped'
<1> USE DEF TypeInv, SessionInv, SessionTypes
<1>1. UNCHANGED <<ips, method, stage, status, answer>> /\ records' = {}
  BY DEF Leave, serveVars, requestVars
<1>2. \A q \in Slots : /\ request'[q] = [request[q] EXCEPT !.current = FALSE]
                       /\ request'[q].ip = request[q].ip /\ request'[q].current = FALSE
                       /\ request[q] = NoRequest => request'[q] = NoRequest
  <2> SUFFICES ASSUME NEW q \in Slots
               PROVE  /\ request'[q] = [request[q] EXCEPT !.current = FALSE]
                      /\ request'[q].ip = request[q].ip /\ request'[q].current = FALSE
                      /\ request[q] = NoRequest => request'[q] = NoRequest
    OBVIOUS
  <2>1. request'[q] = [request[q] EXCEPT !.current = FALSE] /\ request[q] \in Wanted
    BY DEF Leave
  <2> HIDE DEF TypeInv, SessionInv, SessionTypes
  <2>2. \A w \in Wanted : LET u == [w EXCEPT !.current = FALSE] IN
           u.ip = w.ip /\ u.current = FALSE /\ (w.current = FALSE => u = w)
    BY DEF Wanted
  <2>3. NoRequest.current = FALSE
    BY DEF NoRequest
  <2>4. QED
    BY <2>1, <2>2, <2>3
<1>3. QED
  BY <1>1, <1>2 DEF SlotsTyped, RecordsAreUnique, Distinct, SlotsAreTrue, Pending

LEMMA AskTyped ==
    ASSUME TypeInv, NEW m \in Methods, NEW what, Ask(m, what),
           shown' # Nil, records' \subseteq records
    PROVE  SlotsTyped'
<1>1. PICK q \in Slots : /\ stage[q] = "free"
                         /\ request' = [request EXCEPT ![q] = what]
                         /\ stage' = [stage EXCEPT ![q] = "sent"]
                         /\ method' = [method EXCEPT ![q] = m]
                         /\ UNCHANGED <<ips, answer, status>>
  BY DEF Ask, Send
<1> USE DEF TypeInv, SessionInv, SessionTypes, IInv, ServeTypeOK
<1>2. \A p \in Slots \ {q} : UNCHANGED <<method[p], request[p], stage[p]>>
  BY <1>1
<1>3. RecordsAreUnique'
  <2>1. Distinct(records')
    BY DEF RecordsAreUnique, Distinct
  <2>2. answer[q] = {}
    BY <1>1 DEF SlotsAreTrue
  <2> HIDE DEF SessionInv, IInv, ServeTypeOK
  <2>3. QED
    BY <1>1, <1>2, <2>1, <2>2 DEF RecordsAreUnique, Distinct
<1>4. SlotsAreTrue'
  BY <1>1 DEF SlotsAreTrue, Pending
<1>5. QED
  BY <1>3, <1>4 DEF SlotsTyped

LEMMA ReceiveTyped ==
    ASSUME TypeInv, NEW q \in Slots, Receive(q)
    PROVE  SlotsTyped'
<1> USE DEF TypeInv, SessionInv, SessionTypes, IInv, ServeTypeOK
<1>1. /\ request' = [request EXCEPT ![q] = NoRequest]
      /\ answer' = [answer EXCEPT ![q] = {}]
      /\ stage' = [stage EXCEPT ![q] = "free"]
      /\ method' = [method EXCEPT ![q] = Nil]
      /\ status' = [status EXCEPT ![q] = Nil]
      /\ stage[q] \in {"answered", "lost"}
      /\ UNCHANGED <<ips, shown>>
  BY DEF Receive, Done, page
<1>2. SlotsAreTrue'
  BY <1>1 DEF SlotsAreTrue, Pending, NoRequest
<1>3. Distinct(records')
  <2>1. CASE records' \subseteq records \/ records' = answer[q]
    BY <2>1 DEF RecordsAreUnique, Distinct
  <2>2. CASE /\ method[q] \notin {"GET", "DELETE"} /\ Pending(q)
             /\ records' = answer[q] \cup {r \in records : r.ip # request[q].ip}
    <3>1. method[q] \in {"POST", "PATCH"}
      BY <1>1, <2>2 DEF SlotsAreTrue, Methods
    <3>2. QED
      BY <2>2, <3>1 DEF RecordsAreUnique, Distinct
  <2>3. QED
    BY <2>1, <2>2 DEF Receive, Apply, page
<1>4. RecordsAreUnique'
  BY <1>1, <1>3 DEF RecordsAreUnique, Distinct
<1>5. QED
  BY <1>2, <1>4 DEF SlotsTyped

LEMMA SlotsStayTyped == TypeInv /\ [Next]_vars => SlotsTyped'
<1> SUFFICES ASSUME TypeInv, [Next]_vars PROVE SlotsTyped'
  OBVIOUS
<1>1. CASE Serves
  BY <1>1, ServesTyped
<1>2. CASE Leave
  BY <1>2, LeaveTyped
<1>3. CASE Elsewhere \/ UNCHANGED vars
  <2>1. UNCHANGED <<request, answer, shown, records, stage, method, status>>
    BY <1>3 DEF Elsewhere, vars, browser, page, serveVars, requestVars
  <2>2. QED
    BY <2>1 DEF TypeInv, SlotsTyped, RecordsAreUnique, SlotsAreTrue, Pending
<1>4. ASSUME NEW n \in Subnets, Open(n) \/ Jump(n) PROVE SlotsTyped'
  <2> DEFINE what == [subnet |-> n, id |-> Nil, ip |-> Nil, hostname |-> Nil, current |-> TRUE]
  <2>1. Ask("GET", what)
    BY <1>4, Zenon DEF Open, Jump, Load
  <2>2. shown' # Nil /\ records' \subseteq records
    BY <1>4, SessionConstants DEF Open, Jump, SessionConstants
  <2> HIDE DEF what
  <2>3. QED
    BY <2>1, <2>2, AskTyped DEF Methods
<1>5. ASSUME NEW a \in Addresses, NEW h \in Hostnames \cup {Blank}, Save(a, h) PROVE SlotsTyped'
  <2>1. \E m \in Methods : \E what : Ask(m, what)
    BY <1>5, Zenon DEF Save, Methods
  <2>2. shown' # Nil /\ records' \subseteq records
    BY <1>5 DEF Save
  <2>3. QED
    BY <2>1, <2>2, AskTyped
<1>6. CASE \E q \in Slots : Statement(q)
  BY <1>6, StatementTyped
<1>7. CASE \E q \in Slots : Receive(q)
  BY <1>7, ReceiveTyped
<1>8. QED
  BY <1>1, <1>2, <1>3, <1>4, <1>5, <1>6, <1>7 DEF Next

LEMMA TypeInvStep == TypeInv /\ [Next]_vars => TypeInv'
<1> SUFFICES ASSUME TypeInv, [Next]_vars PROVE TypeInv'
  OBVIOUS
<1>1. SessionInv'
  BY SessionInvStep DEF TypeInv
<1>2. RowsAreUnique'
  BY RowsStayUnique DEF TypeInv
<1>3. PageTyped'
  BY PageStaysTyped DEF TypeInv
<1>4. SlotsTyped'
  BY SlotsStayTyped
<1>5. QED
  BY <1>1, <1>2, <1>3, <1>4 DEF TypeInv, SlotsTyped

\* The page holds at most one record of an address, and a request is on its
\* way only for a page that is there (SubnetDetailView.tsx).
THEOREM TypeCorrect == Spec => []TypeOK
<1>1. TypeInv => TypeOK
  <2> SUFFICES ASSUME TypeInv PROVE TypeOK
    OBVIOUS
  <2> USE DEF TypeInv, SessionInv, SessionTypes
  <2>1. ServeTypeOK
    BY DEF IInv
  <2>2. \A r, s \in records : r.ip = s.ip => r = s
    BY DEF RecordsAreUnique, Distinct
  <2>3. \A q \in Slots : /\ stage[q] = "free" <=> request[q] = NoRequest
                         /\ request[q].current => shown # Nil
                         /\ answer[q] \subseteq Record
    BY SessionConstants DEF SlotsAreTrue, RequestsAreTrue, NoRequest, Pending, SessionConstants
  <2>4. QED
    BY <2>1, <2>2, <2>3 DEF TypeOK, PageTyped
<1>2. QED
  BY <1>1, TypeInvInit, TypeInvStep, PTL DEF Spec
-----------------------------------------------------------------------------
(* The page is current.                                                    *)

RowAt(a) == {r \in RowsOf(shown) : r.ip = a}

\* What is on its way was sent by the page that is there, the load before any
\* save, and at most one save of an address.
PendingAreOwn ==
    /\ \A q \in Slots : stage[q] # "free" /\ method[q] # "GET" => Pending(q)
    /\ \A q \in Slots : Pending(q) => request[q].subnet = shown
    /\ \A p, q \in Slots :
          Pending(p) /\ Pending(q) /\ (method[p] = "GET" \/ request[p].ip = request[q].ip) => p = q
    /\ loading => \E q \in Slots : Pending(q) /\ method[q] = "GET"
    /\ \A q \in Slots : Pending(q) /\ method[q] = "GET" => loading

LoadIsTrue(q) == method[q] = "GET" /\ status[q] = 200 => answer[q] = RowsOf(shown)

\* Until its statement has run, a save leaves records and rows the same; then
\* its answer says what the rows are, or that the page cannot know.
SaveIsTrue(q) ==
    method[q] # "GET" =>
       /\ stage[q] # "lost" /\ status[q] \notin {200, 500} => Existing(request[q].ip) = RowAt(request[q].ip)
       /\ status[q] = 200 =>
             RowAt(request[q].ip) = IF method[q] = "DELETE" THEN {} ELSE answer[q]
       /\ method[q] = "DELETE" =>
             Existing(request[q].ip) = {r \in records : r.id = request[q].id}

Settled(a) == \A q \in Slots : Pending(q) => request[q].ip # a

PageInv ==
    shown # Nil /\ clean =>
       /\ PendingAreOwn
       /\ \A q \in Slots : Pending(q) => LoadIsTrue(q) /\ SaveIsTrue(q)
       /\ ~loading => \A a \in Addresses : Settled(a) => Existing(a) = RowAt(a)

\* The keys of the rows behind it.
IdsAt(a) == {i \in Live : ips[i].subnet = shown /\ ips[i].ip = a}

LEMMA RowAtIs == \A a : /\ RowAt(a) = {RecordOf(i) : i \in IdsAt(a)}
                        /\ RowAt(a)' = {RecordOf(i)' : i \in IdsAt(a)'}
<1>1. \A a : RowAt(a) = {RecordOf(i) : i \in IdsAt(a)}
  BY DEF RowAt, RowsOf, RecordOf, IdsAt
<1>2. \A a : RowAt(a)' = {RecordOf(i)' : i \in IdsAt(a)'}
  BY DEF RowAt, RowsOf, RecordOf, IdsAt
<1>3. QED
  BY <1>1, <1>2

LEMMA PageInvInit == Init => PageInv
<1> SUFFICES ASSUME Init PROVE PageInv
  OBVIOUS
<1>1. \A q \in Slots : ~Pending(q) /\ stage[q] = "free"
  BY DEF Init, ServeInit, Pending, NoRequest
<1>2. loading = FALSE /\ records = RowsOf(shown)
  BY DEF Init
<1>3. QED
  BY <1>1, <1>2 DEF PageInv, PendingAreOwn, Existing, RowAt

LEMMA ServesCurrent ==
    ASSUME TypeInv, PageInv, Serves
    PROVE  PageInv'
<1>1. UNCHANGED <<ips, browser, answer>>
  BY DEF Serves
<1>2. \A p \in Slots : Moved(p) /\ (status'[p] = 200 <=> status[p] = 200)
  BY ServesMoves
<1>3. /\ \A a : UNCHANGED <<Existing(a), RowAt(a)>>
      /\ UNCHANGED RowsOf(shown)
  BY <1>1 DEF Existing, RowAt, RowsOf, RecordOf, Live, browser, page
<1>4. \A q \in Slots : UNCHANGED Pending(q)
  BY <1>1 DEF Pending, browser
<1>5. SUFFICES ASSUME shown # Nil, clean
               PROVE  /\ PendingAreOwn'
                      /\ \A q \in Slots : Pending(q) => LoadIsTrue(q)' /\ SaveIsTrue(q)'
                      /\ ~loading => \A a \in Addresses : Settled(a) => Existing(a) = RowAt(a)
  BY <1>1, <1>3, <1>4 DEF PageInv, Settled, browser, page
<1>6. PendingAreOwn'
  BY <1>1, <1>2, <1>4, <1>5 DEF PageInv, PendingAreOwn, Moved, browser, page
<1>7. ASSUME NEW q \in Slots, Pending(q) PROVE LoadIsTrue(q)' /\ SaveIsTrue(q)'
  <2>1. LoadIsTrue(q) /\ SaveIsTrue(q)
    BY <1>5, <1>7 DEF PageInv
  <2>2. LoadIsTrue(q)'
    BY <1>1, <1>2, <1>3, <2>1 DEF LoadIsTrue, Moved
  <2>3. SaveIsTrue(q)'
    <3>1. Nil \notin {200, 500}
      BY ServeConstants DEF ServeConstants
    <3>2. QED
      BY <1>1, <1>2, <1>3, <2>1, <3>1 DEF SaveIsTrue, Moved, browser, page
  <2>4. QED
    BY <2>2, <2>3
<1>8. QED
  BY <1>5, <1>6, <1>7 DEF PageInv

\* A statement that writes nothing tells the page nothing new, but the rows.
LEMMA ReadCurrent ==
    ASSUME TypeInv, PageInv, NEW q \in Slots, Statement(q), UNCHANGED ips,
           status'[q] = 200 => answer'[q] = RowsOf(request[q].subnet) /\ method[q] = "GET"
    PROVE  PageInv'
<1>1. /\ stage[q] = "statement" /\ UNCHANGED browser
      /\ \A p \in Slots : Moved(p)
      /\ \A p \in Slots \ {q} : UNCHANGED <<stage[p], status[p], answer[p]>>
  BY StatementMoves
<1>2. /\ \A a : UNCHANGED <<Existing(a), RowAt(a)>>
      /\ \A n : UNCHANGED RowsOf(n)
      /\ UNCHANGED RowsOf(shown)
  BY <1>1 DEF Existing, RowAt, RowsOf, RecordOf, Live, browser, page
<1>3. \A p \in Slots : UNCHANGED Pending(p)
  BY <1>1 DEF Pending, browser
<1>4. SUFFICES ASSUME shown # Nil, clean
               PROVE  /\ PendingAreOwn'
                      /\ \A p \in Slots : Pending(p) => LoadIsTrue(p)' /\ SaveIsTrue(p)'
                      /\ ~loading => \A a \in Addresses : Settled(a) => Existing(a) = RowAt(a)
  BY <1>1, <1>2, <1>3 DEF PageInv, Settled, browser, page
<1>5. PendingAreOwn'
  BY <1>1, <1>3, <1>4 DEF PageInv, PendingAreOwn, Moved, browser, page
<1>6. ASSUME NEW p \in Slots, Pending(p) PROVE LoadIsTrue(p)' /\ SaveIsTrue(p)'
  <2>1. LoadIsTrue(p) /\ SaveIsTrue(p) /\ request[p].subnet = shown
    BY <1>4, <1>6 DEF PageInv, PendingAreOwn
  <2>2. CASE p # q
    <3>1. LoadIsTrue(p)'
      BY <1>1, <1>2, <2>1, <2>2 DEF LoadIsTrue, Moved
    <3>2. SaveIsTrue(p)'
      BY <1>1, <1>2, <2>1, <2>2 DEF SaveIsTrue, Moved, browser, page
    <3>3. QED
      BY <3>1, <3>2
  <2>3. CASE p = q
    <3>1. LoadIsTrue(q)'
      BY <1>1, <1>2, <2>1, <2>3 DEF LoadIsTrue, Moved
    <3>2. status[q] = Nil /\ Nil \notin {200, 500}
      BY <1>1, ServeConstants DEF TypeInv, SlotsAreTrue, ServeConstants
    <3>3. SaveIsTrue(q)'
      BY <1>1, <1>2, <2>1, <2>3, <3>2 DEF SaveIsTrue, Moved, browser, page
    <3>4. QED
      BY <2>3, <3>1, <3>3
  <2>4. QED
    BY <2>2, <2>3
<1>7. QED
  BY <1>4, <1>5, <1>6 DEF PageInv

\* What the answer to a statement that writes says of the records.
LEMMA WrittenAnswers ==
    ASSUME TypeInv, NEW q \in Slots, NEW recs, Written(q, recs)
    PROVE  /\ status'[q] \in {200, 500} \/ stage'[q] = "lost"
           /\ status'[q] = 200 => answer'[q] = recs
<1> USE DEF TypeInv, SessionInv, SessionTypes, IInv, ServeTypeOK
<1>1. status[q] = Nil /\ Nil \notin {200, 500}
  BY ServeConstants DEF Written, Answer, InStatement, SlotsAreTrue, ServeConstants
<1>2. QED
  BY <1>1 DEF Written, Answer, Reply

\* A statement that writes changes the rows of its address, and answers with
\* them, if its answer arrives.
LEMMA WriteCurrent ==
    ASSUME TypeInv, PageInv, NEW q \in Slots, Statement(q),
           method[q] # "GET",
           status'[q] \in {200, 500} \/ stage'[q] = "lost",
           shown # Nil /\ clean =>
              /\ status'[q] = 200 =>
                    RowAt(request[q].ip)' = IF method[q] = "DELETE" THEN {} ELSE answer'[q]
              /\ \A a \in Addresses \ {request[q].ip} : UNCHANGED RowAt(a)
    PROVE  PageInv'
<1>1. /\ stage[q] = "statement" /\ UNCHANGED browser
      /\ \A p \in Slots : Moved(p)
      /\ \A p \in Slots \ {q} : UNCHANGED <<stage[p], status[p], answer[p]>>
  BY StatementMoves
<1>2. \A a : UNCHANGED Existing(a)
  BY <1>1 DEF Existing, browser, page
<1>3. \A p \in Slots : UNCHANGED Pending(p)
  BY <1>1 DEF Pending, browser
<1>4. SUFFICES ASSUME shown # Nil, clean
               PROVE  /\ PendingAreOwn'
                      /\ \A p \in Slots : Pending(p) => LoadIsTrue(p)' /\ SaveIsTrue(p)'
                      /\ ~loading => \A a \in Addresses : Settled(a) => Existing(a) = RowAt(a)'
  BY <1>1, <1>2, <1>3 DEF PageInv, Settled, browser, page
<1>5. PendingAreOwn'
  BY <1>1, <1>3, <1>4 DEF PageInv, PendingAreOwn, Moved, browser, page
<1>6. Pending(q)
  BY <1>1, <1>4 DEF PageInv, PendingAreOwn
<1>7. \A p \in Slots \ {q} : Pending(p) =>
         /\ method[p] # "GET" /\ request[p].ip # request[q].ip
         /\ request[p].ip \in Addresses
  BY <1>4, <1>6 DEF PageInv, PendingAreOwn, TypeInv, SlotsAreTrue, SessionInv, RequestsAreTrue,
                    Pending, NoRequest
<1>8. ASSUME NEW p \in Slots, Pending(p) PROVE LoadIsTrue(p)' /\ SaveIsTrue(p)'
  <2>1. LoadIsTrue(p)'
    BY <1>1, <1>7, <1>8 DEF LoadIsTrue, Moved
  <2>2. SaveIsTrue(p)
    BY <1>4, <1>8 DEF PageInv
  <2>3. CASE p # q
    BY <1>1, <1>2, <1>4, <1>7, <1>8, <2>1, <2>2, <2>3 DEF SaveIsTrue, Moved, browser, page
  <2>4. CASE p = q
    BY <1>1, <1>2, <1>4, <2>1, <2>2, <2>4 DEF SaveIsTrue, Moved, browser, page
  <2>5. QED
    BY <2>3, <2>4
<1>9. ASSUME ~loading, NEW a \in Addresses, Settled(a) PROVE Existing(a) = RowAt(a)'
  <2>1. a # request[q].ip
    BY <1>6, <1>9 DEF Settled
  <2>2. QED
    BY <1>4, <1>9, <2>1 DEF PageInv
<1>10. QED
  BY <1>5, <1>8, <1>9

LEMMA PostCurrent ==
    ASSUME TypeInv, PageInv, NEW q \in Slots, Statement(q), PostStatement(q)
    PROVE  PageInv'
<1> USE DEF TypeInv, SessionInv, SessionTypes
<1>1. stage[q] = "statement" /\ method[q] = "POST" /\ UNCHANGED <<shown, clean, request>>
  BY StatementMoves DEF PostStatement, browser, page
<1>2. CASE UNCHANGED ips /\ Answer(q, 400)
  BY <1>1, <1>2, ReadCurrent, ServeConstants
     DEF Answer, Reply, IInv, ServeTypeOK, SlotsAreTrue, ServeConstants
<1>3. ASSUME NEW i \in IpIds, ips[i] = Unused, ~Taken(request[q].subnet, request[q].ip),
             ips' = [ips EXCEPT ![i] = [subnet |-> request[q].subnet, ip |-> request[q].ip,
                                        hostname |-> request[q].hostname]],
             Written(q, {[id |-> i, ip |-> request[q].ip, hostname |-> request[q].hostname]})
      PROVE  PageInv'
  <2> DEFINE row == [subnet |-> request[q].subnet, ip |-> request[q].ip,
                     hostname |-> request[q].hostname]
             rec == [id |-> i, ip |-> request[q].ip, hostname |-> request[q].hostname]
  <2>1. status'[q] \in {200, 500} \/ stage'[q] = "lost"
    BY <1>3, WrittenAnswers
  <2>2. row \in IpRow
    BY <1>1 DEF RequestsAreTrue, IpRow
  <2>3. row.subnet = request[q].subnet /\ row.ip = request[q].ip /\ row.hostname = request[q].hostname
    OBVIOUS
  <2>4. ips' = [ips EXCEPT ![i] = row] /\ (status'[q] = 200 => answer'[q] = {rec})
    BY <1>3, WrittenAnswers
  <2>5. rec.ip = request[q].ip
    OBVIOUS
  <2>6. RecordOf(i)' = rec
    BY <2>2, <2>3, <2>4 DEF RecordOf
  <2> HIDE DEF row, rec
  <2>7. i \in Live' /\ i \notin Live /\ Live' = Live \cup {i}
    BY <1>3, <2>2, <2>4, SessionConstants DEF Live, SessionConstants
  <2>8. \A j \in Live : ips'[j] = ips[j] /\ RecordOf(j)' = RecordOf(j)
    BY <2>4, <2>7 DEF RecordOf, Live
  <2>9. ASSUME shown # Nil, clean
        PROVE  /\ status'[q] = 200 => RowAt(request[q].ip)' = answer'[q]
               /\ \A a \in Addresses \ {request[q].ip} : UNCHANGED RowAt(a)
    <3>1. request[q].subnet = shown
      BY <1>1, <2>9 DEF PageInv, PendingAreOwn
    <3>2. ips'[i] = row
      BY <2>4
    <3>3. RowsOf(shown)' = RowsOf(shown) \cup {rec}
      BY <1>1, <2>3, <2>6, <2>7, <2>8, <3>1, <3>2 DEF RowsOf
    <3>4. RowAt(request[q].ip) = {}
      BY <1>3, <3>1 DEF RowAt, RowsOf, RecordOf, Taken
    <3>5. \A a : RowAt(a)' = RowAt(a) \cup (IF a = request[q].ip THEN {rec} ELSE {})
      BY <2>5, <3>3 DEF RowAt
    <3>6. status'[q] = 200 => RowAt(request[q].ip)' = answer'[q]
      BY <1>1, <2>4, <3>4, <3>5
    <3>7. \A a : a # request[q].ip => UNCHANGED RowAt(a)
      BY <3>5
    <3>8. QED
      BY <3>6, <3>7
  <2>10. QED
    BY <1>1, <2>1, <2>9, WriteCurrent
<1>4. QED
  BY <1>2, <1>3, Zenon DEF PostStatement

LEMMA PatchCurrent ==
    ASSUME TypeInv, PageInv, NEW q \in Slots, Statement(q), PatchStatement(q)
    PROVE  PageInv'
<1> USE DEF TypeInv, SessionInv, SessionTypes
<1>1. stage[q] = "statement" /\ left[q] = 1 /\ method[q] = "PATCH" /\ UNCHANGED <<shown, clean, request>>
  BY StatementMoves DEF PatchStatement, browser, page
<1>2. CASE UNCHANGED ips /\ Answer(q, 404)
  BY <1>1, <1>2, ReadCurrent, ServeConstants
     DEF Answer, Reply, IInv, ServeTypeOK, SlotsAreTrue, ServeConstants
<1> DEFINE h == request[q].hostname
<1>3. ASSUME NEW i \in Live, i = request[q].id, ips' = [ips EXCEPT ![i].hostname = h],
             Written(q, {[RecordOf(i) EXCEPT !.hostname = h]})
      PROVE  PageInv'
  <2>1. status'[q] \in {200, 500} \/ stage'[q] = "lost"
    BY <1>3, WrittenAnswers
  <2>2. h \in Hostnames \cup {Blank}
    BY <1>1 DEF RequestsAreTrue
  <2>3. i \in IpIds /\ ips[i] \in IpRow /\ ips[i].ip = request[q].ip
    BY <1>1, <1>3 DEF RequestsAreTrue, Names, Live
  <2>4. ips[i].subnet = request[q].subnet
    BY <1>1, <1>3 DEF ChecksHold, Handled, Live
  <2> HIDE DEF h
  <2>5. ips'[i] = [ips[i] EXCEPT !.hostname = h] /\ \A j \in IpIds \ {i} : ips'[j] = ips[j]
    BY <1>3, <2>3
  <2>6. /\ ips'[i] \in IpRow
        /\ ips'[i].subnet = ips[i].subnet /\ ips'[i].ip = ips[i].ip /\ ips'[i].hostname = h
    BY <2>2, <2>3, <2>5 DEF IpRow
  <2>7. Live' = Live
    BY <1>3, <2>3, <2>5, <2>6, SessionConstants DEF Live, SessionConstants
  <2>8. status'[q] = 200 => answer'[q] = {RecordOf(i)'}
    <3>1. [RecordOf(i) EXCEPT !.hostname = h] = [id |-> i, ip |-> ips[i].ip, hostname |-> h]
      BY DEF RecordOf
    <3>2. status'[q] = 200 => answer'[q] = {[RecordOf(i) EXCEPT !.hostname = h]}
      BY <1>3, WrittenAnswers
    <3>3. RecordOf(i)' = [id |-> i, ip |-> ips[i].ip, hostname |-> h]
      BY <2>6 DEF RecordOf
    <3>4. QED
      BY <3>1, <3>2, <3>3
  <2>9. \A j \in Live \ {i} : RecordOf(j)' = RecordOf(j)
    BY <2>5 DEF RecordOf, Live
  <2>10. ASSUME shown # Nil, clean
         PROVE  /\ status'[q] = 200 => RowAt(request[q].ip)' = answer'[q]
                /\ \A a \in Addresses \ {request[q].ip} : UNCHANGED RowAt(a)
    <3>1. request[q].subnet = shown
      BY <1>1, <2>10 DEF PageInv, PendingAreOwn
    <3>2. \A j \in Live : ips[j].subnet = shown /\ ips[j].ip = request[q].ip <=> j = i
      BY <1>3, <2>3, <2>4, <3>1 DEF RowsAreUnique
    <3>3. \A j \in Live : UNCHANGED <<ips[j].subnet, ips[j].ip>>
      BY <2>5, <2>6 DEF Live
    <3>4. \A a : UNCHANGED IdsAt(a)
      BY <1>1, <2>7, <3>3 DEF IdsAt
    <3>5. IdsAt(request[q].ip) = {i}
      BY <1>3, <3>2 DEF IdsAt
    <3>6. RowAt(request[q].ip)' = {RecordOf(i)'}
      BY <1>1, <3>4, <3>5, RowAtIs
    <3>7. ASSUME NEW a \in Addresses \ {request[q].ip} PROVE UNCHANGED RowAt(a)
      <4>1. \A j \in IdsAt(a) : j \in Live \ {i}
        BY <3>2, <3>7 DEF IdsAt
      <4>2. QED
        BY <2>9, <3>4, <4>1, RowAtIs
    <3>8. QED
      BY <2>8, <3>6, <3>7
  <2>11. QED
    BY <1>1, <2>1, <2>10, WriteCurrent
<1>4. QED
  BY <1>2, <1>3 DEF PatchStatement

LEMMA DeleteCurrent ==
    ASSUME TypeInv, PageInv, NEW q \in Slots, Statement(q), DeleteStatement(q)
    PROVE  PageInv'
<1> USE DEF TypeInv, SessionInv, SessionTypes
<1>1. stage[q] = "statement" /\ method[q] = "DELETE" /\ UNCHANGED <<shown, clean, request>>
  BY StatementMoves DEF DeleteStatement, browser, page
<1>2. CASE UNCHANGED ips /\ Answer(q, 404)
  BY <1>1, <1>2, ReadCurrent, ServeConstants
     DEF Answer, Reply, IInv, ServeTypeOK, SlotsAreTrue, ServeConstants
<1>3. ASSUME NEW i \in Live, i = request[q].id, ips[i].subnet = request[q].subnet, ips' = [ips EXCEPT ![i] = Deleted],
             Written(q, {})
      PROVE  PageInv'
  <2>1. status'[q] \in {200, 500} \/ stage'[q] = "lost"
    BY <1>3, WrittenAnswers
  <2>2. i \in IpIds /\ ips[i].ip = request[q].ip
    BY <1>1, <1>3 DEF RequestsAreTrue, Names, Live
  <2>3. Live' = Live \ {i} /\ \A j \in Live \ {i} : ips'[j] = ips[j]
    BY <1>3, <2>2 DEF Live
  <2>4. ASSUME shown # Nil, clean
        PROVE  /\ RowAt(request[q].ip)' = {}
               /\ \A a \in Addresses \ {request[q].ip} : UNCHANGED RowAt(a)
    <3>1. request[q].subnet = shown
      BY <1>1, <2>4 DEF PageInv, PendingAreOwn
    <3>2. \A j \in Live : ips[j].subnet = shown /\ ips[j].ip = request[q].ip <=> j = i
      BY <1>3, <2>2, <3>1 DEF RowsAreUnique
    <3>3. RowAt(request[q].ip)' = {}
      <4>1. IdsAt(request[q].ip)' = {}
        BY <1>1, <2>3, <3>2 DEF IdsAt
      <4>2. QED
        BY <1>1, <4>1, RowAtIs
    <3>4. \A a \in Addresses \ {request[q].ip} : UNCHANGED RowAt(a)
      BY <1>1, <2>2, <2>3 DEF RowAt, RowsOf, RecordOf
    <3>5. QED
      BY <3>3, <3>4
  <2>5. QED
    BY <1>1, <2>1, <2>4, WriteCurrent
<1>4. QED
  BY <1>2, <1>3 DEF DeleteStatement

LEMMA StatementCurrent ==
    ASSUME TypeInv, PageInv, NEW q \in Slots, Statement(q)
    PROVE  PageInv'
<1>1. CASE CheckStatement(q) \/ GetStatement(q) \/ StatementFails(q)
  <2>1. stage[q] = "statement"
    BY StatementMoves
  <2>2. UNCHANGED ips
    BY <1>1 DEF CheckStatement, GetStatement, StatementFails
  <2>3. ASSUME status'[q] = 200
        PROVE  answer'[q] = RowsOf(request[q].subnet) /\ method[q] = "GET"
    BY <1>1, <2>1, <2>3, ServeConstants
       DEF CheckStatement, GetStatement, StatementFails, Proceed, Answer, Reply, TypeInv,
           SlotsAreTrue, SessionInv, SessionTypes, IInv, ServeTypeOK, ServeConstants
  <2>4. QED
    BY <2>2, <2>3, ReadCurrent
<1>2. QED
  BY <1>1, PostCurrent, PatchCurrent, DeleteCurrent DEF Statement

\* The load finds what the saves before it have left ...
LEMMA LoadReceived ==
    ASSUME TypeInv, NEW q \in Slots, Receive(q), Pending(q), method[q] = "GET",
           PendingAreOwn, LoadIsTrue(q), clean'
    PROVE  /\ \A p \in Slots : ~Pending(p)'
           /\ loading' = FALSE
           /\ \A a : Existing(a)' = RowAt(a)
<1>1. request' = [request EXCEPT ![q] = NoRequest]
  BY DEF Receive
<1>2. \A p \in Slots : ~Pending(p)'
  BY <1>1 DEF PendingAreOwn, Pending, NoRequest, TypeInv, SessionInv, SessionTypes
<1>3. status[q] = 200
  BY Zenon DEF Receive, Told
<1>4. loading' = FALSE /\ records' = answer[q]
  BY <1>3 DEF Receive, Apply
<1>5. QED
  BY <1>2, <1>3, <1>4 DEF LoadIsTrue, Existing, RowAt

\* ... and the answer to a save concerns its own address.
LEMMA SaveReceived ==
    ASSUME TypeInv, NEW q \in Slots, Receive(q), Pending(q), method[q] # "GET",
           SaveIsTrue(q), clean', NEW a, a = request[q].ip
    PROVE  /\ loading' = loading
           /\ records' \subseteq records \cup RowAt(a)
           /\ Existing(a)' = RowAt(a)
           /\ \A b : b # a => Existing(b)' = Existing(b)
<1>1. /\ status[q] \notin {Nil, 500} /\ stage[q] = "answered"
      /\ method[q] \in {"POST", "PATCH", "DELETE"}
  <2>1. status[q] \notin {Nil, 500} /\ stage[q] # "free"
    <3>1. Told(q) /\ stage[q] # "free"
      BY Zenon DEF Receive, Done
    <3>2. QED
      BY <3>1, ServeConstants DEF Told, ServeConstants
  <2>2. QED
    BY <2>1 DEF TypeInv, SlotsAreTrue, Methods
<1>2. CASE status[q] # 200
  BY <1>1, <1>2 DEF Receive, Apply, SaveIsTrue, Existing
<1>3. CASE status[q] = 200 /\ method[q] = "DELETE"
  <2>1. records' = records \ Existing(a) /\ loading' = loading
    BY <1>1, <1>3 DEF Receive, Apply, SaveIsTrue
  <2>2. RowAt(a) = {}
    BY <1>1, <1>3 DEF SaveIsTrue
  <2>3. QED
    BY <2>1, <2>2 DEF Existing
<1>4. CASE status[q] = 200 /\ method[q] # "DELETE"
  <2>1. records' = answer[q] \cup {r \in records : r.ip # request[q].ip} /\ loading' = loading
    BY <1>1, <1>4 DEF Receive, Apply
  <2>2. answer[q] = RowAt(a)
    BY <1>1, <1>4 DEF SaveIsTrue
  <2>3. QED
    BY <2>1, <2>2 DEF Existing, RowAt
<1>5. QED
  BY <1>2, <1>3, <1>4

LEMMA ReceiveCurrent ==
    ASSUME TypeInv, PageInv, NEW q \in Slots, Receive(q)
    PROVE  PageInv'
<1>1. SUFFICES ASSUME shown # Nil, clean, clean', shown' = shown
               PROVE  /\ PendingAreOwn'
                      /\ \A p \in Slots : Pending(p)' => LoadIsTrue(p)' /\ SaveIsTrue(p)'
                      /\ ~loading' => \A b \in Addresses : Settled(b)' => Existing(b)' = RowAt(b)'
  <2>1. shown' = shown /\ (clean' => clean)
    BY Zenon DEF Receive, page
  <2>2. QED
    BY <1>1, <2>1 DEF PageInv, Settled
<1>2. /\ PendingAreOwn
      /\ \A p \in Slots : Pending(p) => LoadIsTrue(p) /\ SaveIsTrue(p)
      /\ ~loading => \A b \in Addresses : Settled(b) => Existing(b) = RowAt(b)
  BY <1>1 DEF PageInv
<1>3. /\ stage'[q] = "free" /\ ~Pending(q)'
      /\ \A p \in Slots \ {q} : /\ UNCHANGED <<stage[p], method[p], status[p], answer[p], request[p]>>
                                /\ UNCHANGED Pending(p)
  BY DEF Receive, Done, Pending, NoRequest, TypeInv, SessionInv, SessionTypes, IInv, ServeTypeOK
<1>4. UNCHANGED RowsOf(shown) /\ \A b : UNCHANGED RowAt(b)
  BY <1>1 DEF Receive, RowAt, RowsOf, RecordOf, Live
<1>5. CASE Pending(q) /\ method[q] = "GET"
  <2>1. /\ \A p \in Slots : ~Pending(p)'
        /\ loading' = FALSE
        /\ \A b : Existing(b)' = RowAt(b)
    BY <1>1, <1>2, <1>5, LoadReceived
  <2>2. PendingAreOwn'
    BY <1>2, <1>3, <1>5, <2>1 DEF PendingAreOwn
  <2>3. QED
    BY <1>4, <2>1, <2>2
<1>6. ASSUME ~(Pending(q) /\ method[q] = "GET"), loading' = loading
      PROVE  PendingAreOwn'
  BY <1>1, <1>2, <1>3, <1>6 DEF PendingAreOwn
<1>7. ASSUME NEW p \in Slots, Pending(p)' PROVE LoadIsTrue(p)'
  BY <1>2, <1>3, <1>4, <1>7 DEF LoadIsTrue
<1>8. CASE ~Pending(q)
  <2>1. UNCHANGED <<records, loading>> /\ \A b : UNCHANGED Existing(b)
    BY <1>8 DEF Receive, page, Existing
  <2>2. ASSUME NEW p \in Slots, Pending(p)' PROVE SaveIsTrue(p)'
    BY <1>2, <1>3, <1>4, <2>1, <2>2 DEF SaveIsTrue
  <2>3. \A b : Settled(b)' => Settled(b)
    BY <1>3, <1>8 DEF Settled
  <2>4. QED
    BY <1>2, <1>4, <1>6, <1>7, <1>8, <2>1, <2>2, <2>3
<1>9. ASSUME Pending(q), method[q] # "GET", NEW a, a = request[q].ip
      PROVE  /\ PendingAreOwn'
             /\ \A p \in Slots : Pending(p)' => LoadIsTrue(p)' /\ SaveIsTrue(p)'
             /\ ~loading' => \A b \in Addresses : Settled(b)' => Existing(b)' = RowAt(b)'
  <2>1. /\ loading' = loading
        /\ records' \subseteq records \cup RowAt(a)
        /\ Existing(a)' = RowAt(a)
        /\ \A b : b # a => Existing(b)' = Existing(b)
    BY <1>1, <1>2, <1>9, SaveReceived
  <2>2. ASSUME NEW p \in Slots, Pending(p)' PROVE SaveIsTrue(p)'
    <3>1. p # q /\ Pending(p) /\ SaveIsTrue(p) /\ request[p].ip # a
      BY <1>2, <1>3, <1>9, <2>2 DEF PendingAreOwn
    <3>2. ASSUME method[p] = "DELETE"
          PROVE  Existing(request[p].ip)' = {r \in records' : r.id = request[p].id}
      <4>1. Existing(request[p].ip) = {r \in records : r.id = request[p].id}
        BY <3>1, <3>2 DEF SaveIsTrue
      <4>2. Names(request[p].id, request[p].ip)
        BY <1>3, <2>2, <3>1, <3>2 DEF TypeInv, SlotsAreTrue, SessionInv, RequestsAreTrue,
                                      Pending, NoRequest
      <4>3. \A r \in RowAt(a) : r.id # request[p].id
        BY <3>1, <4>2 DEF RowAt, RowsOf, RecordOf, Names, Live
      <4>4. request'[p] = request[p]
        BY <1>3, <3>1
      <4>5. QED
        BY <2>1, <3>1, <4>1, <4>3, <4>4 DEF Existing
    <3>3. QED
      BY <1>3, <1>4, <2>1, <3>1, <3>2 DEF SaveIsTrue
  <2>3. ASSUME ~loading, NEW b \in Addresses, Settled(b)' PROVE Existing(b)' = RowAt(b)'
    <3>1. b # a => Settled(b)
      BY <1>3, <1>9, <2>3 DEF Settled
    <3>2. QED
      BY <1>2, <1>4, <2>1, <2>3, <3>1
  <2>4. QED
    BY <1>6, <1>7, <1>9, <2>1, <2>2, <2>3
<1>10. QED
  BY <1>5, <1>8, <1>9

\* What is asked for is in a slot that was free, and nothing else moves.
LEMMA AskMoves ==
    ASSUME TypeInv, NEW m, NEW what, Ask(m, what)
    PROVE  \E q \in Slots :
              /\ stage[q] = "free" /\ status'[q] = Nil
              /\ stage'[q] = "sent" /\ method'[q] = m /\ request'[q] = what
              /\ \A p \in Slots \ {q} :
                    UNCHANGED <<stage[p], method[p], status[p], answer[p], request[p]>>
<1>1. PICK q \in Slots : Send(q, m) /\ request' = [request EXCEPT ![q] = what]
  BY DEF Ask
<1>2. UNCHANGED answer
  BY DEF Ask
<1> USE DEF TypeInv, SlotsAreTrue, SessionInv, SessionTypes, IInv, ServeTypeOK
<1>3. stage[q] = "free" /\ status[q] = Nil
  BY <1>1 DEF Send
<1>4. QED
  BY <1>1, <1>2, <1>3 DEF Send

LEMMA OpenCurrent ==
    ASSUME TypeInv, PageInv, NEW n \in Subnets, Open(n)
    PROVE  PageInv'
<1> DEFINE what == [subnet |-> n, id |-> Nil, ip |-> Nil, hostname |-> Nil, current |-> TRUE]
<1>1. Ask("GET", what)
  BY Zenon DEF Open, Load
<1>2. what.subnet = n /\ what.current = TRUE
  OBVIOUS
<1> HIDE DEF what
<1>3. SUFFICES ASSUME clean' PROVE PageInv'
  BY DEF PageInv
<1>4. /\ shown' = n /\ loading' = TRUE
      /\ \A p \in Slots : ~Pending(p)
      /\ \A p \in Slots : stage[p] = "free" \/ method[p] = "GET"
  <2>1. shown = Nil /\ shown' = n /\ loading' = TRUE
    BY Zenon DEF Open
  <2>2. \A p \in Slots : stage[p] = "free" \/ method[p] = "GET"
    BY <1>3, Zenon DEF Open
  <2>3. QED
    BY <2>1, <2>2 DEF TypeInv, SlotsAreTrue
<1>5. PICK q \in Slots :
         /\ stage[q] = "free" /\ status'[q] = Nil
         /\ stage'[q] = "sent" /\ method'[q] = "GET" /\ request'[q] = what
         /\ \A p \in Slots \ {q} :
               UNCHANGED <<stage[p], method[p], status[p], answer[p], request[p]>>
  BY <1>1, AskMoves
<1>6. /\ Pending(q)' /\ request'[q].subnet = shown'
      /\ \A p \in Slots \ {q} : ~Pending(p)'
  BY <1>2, <1>4, <1>5 DEF Pending
<1>7. PendingAreOwn'
  BY <1>4, <1>5, <1>6 DEF PendingAreOwn
<1>8. \A p \in Slots : Pending(p)' => LoadIsTrue(p)' /\ SaveIsTrue(p)'
  BY <1>5, <1>6, ServeConstants DEF LoadIsTrue, SaveIsTrue, ServeConstants
<1>9. QED
  BY <1>4, <1>7, <1>8 DEF PageInv

\* Save asks for what the page shows of the address, which is what there is.
LEMMA SaveAsks ==
    ASSUME NEW a \in Addresses, NEW h \in Hostnames \cup {Blank}, Save(a, h)
    PROVE  \E m \in {"POST", "PATCH", "DELETE"} : \E what :
              /\ Ask(m, what)
              /\ what.subnet = shown /\ what.ip = a /\ what.current = TRUE
              /\ m = "DELETE" => \E r \in Existing(a) : r.id = what.id
<1>1. ASSUME Ask("POST", [subnet |-> shown, id |-> Nil, ip |-> a, hostname |-> h, current |-> TRUE])
      PROVE  \E m \in {"POST", "PATCH", "DELETE"} : \E what :
                /\ Ask(m, what)
                /\ what.subnet = shown /\ what.ip = a /\ what.current = TRUE
                /\ m = "DELETE" => \E r \in Existing(a) : r.id = what.id
  <2> DEFINE what == [subnet |-> shown, id |-> Nil, ip |-> a, hostname |-> h, current |-> TRUE]
  <2>1. what.subnet = shown /\ what.ip = a /\ what.current = TRUE
    OBVIOUS
  <2>2. Ask("POST", what)
    BY <1>1
  <2> HIDE DEF what
  <2>3. QED
    BY <2>1, <2>2
<1>2. ASSUME NEW r \in Existing(a), NEW m \in {"PATCH", "DELETE"},
             Ask(m, [subnet |-> shown, id |-> r.id, ip |-> a, hostname |-> h, current |-> TRUE])
      PROVE  \E k \in {"POST", "PATCH", "DELETE"} : \E what :
                /\ Ask(k, what)
                /\ what.subnet = shown /\ what.ip = a /\ what.current = TRUE
                /\ k = "DELETE" => \E s \in Existing(a) : s.id = what.id
  <2> DEFINE what == [subnet |-> shown, id |-> r.id, ip |-> a, hostname |-> h, current |-> TRUE]
  <2>1. what.subnet = shown /\ what.ip = a /\ what.current = TRUE /\ what.id = r.id
    OBVIOUS
  <2>2. Ask(m, what)
    BY <1>2
  <2> HIDE DEF what
  <2>3. QED
    BY <2>1, <2>2
<1>3. QED
  BY <1>1, <1>2, Zenon DEF Save

LEMMA SaveCurrent ==
    ASSUME TypeInv, PageInv, NEW a \in Addresses, NEW h \in Hostnames \cup {Blank}, Save(a, h)
    PROVE  PageInv'
<1>1. SUFFICES ASSUME clean' PROVE PageInv'
  BY DEF PageInv
<1>2. shown # Nil /\ ~loading /\ UNCHANGED <<shown, records, loading>>
  BY Zenon DEF Save
<1>3. clean /\ \A p \in Slots : Pending(p) => request[p].ip # a
  BY <1>1, Zenon DEF Save
<1>4. /\ PendingAreOwn
      /\ \A p \in Slots : Pending(p) => LoadIsTrue(p) /\ SaveIsTrue(p)
      /\ \A b \in Addresses : Settled(b) => Existing(b) = RowAt(b)
  BY <1>2, <1>3 DEF PageInv
<1>5. Existing(a) = RowAt(a)
  BY <1>3, <1>4 DEF Settled
<1>6. UNCHANGED ips
  BY Zenon DEF Save, Ask
<1>7. /\ \A b : UNCHANGED <<Existing(b), RowAt(b)>>
      /\ UNCHANGED RowsOf(shown)
  BY <1>2, <1>6 DEF Existing, RowAt, RowsOf, RecordOf, Live
<1>8. PICK m \in {"POST", "PATCH", "DELETE"} : \E what :
         /\ Ask(m, what)
         /\ what.subnet = shown /\ what.ip = a /\ what.current = TRUE
         /\ m = "DELETE" => \E r \in Existing(a) : r.id = what.id
  BY SaveAsks
<1>9. PICK what :
         /\ Ask(m, what)
         /\ what.subnet = shown /\ what.ip = a /\ what.current = TRUE
         /\ m = "DELETE" => \E r \in Existing(a) : r.id = what.id
  BY <1>8
<1>10. PICK q \in Slots :
         /\ stage[q] = "free" /\ status'[q] = Nil
         /\ stage'[q] = "sent" /\ method'[q] = m /\ request'[q] = what
         /\ \A p \in Slots \ {q} :
               UNCHANGED <<stage[p], method[p], status[p], answer[p], request[p]>>
  BY <1>9, AskMoves
<1>11. Pending(q)' /\ \A p \in Slots \ {q} : UNCHANGED Pending(p)
  BY <1>9, <1>10 DEF Pending
<1>12. PendingAreOwn'
  <2>1. \A p \in Slots : Pending(p) => method[p] # "GET"
    BY <1>2, <1>4 DEF PendingAreOwn
  <2>2. QED
    BY <1>2, <1>3, <1>4, <1>9, <1>10, <1>11, <2>1 DEF PendingAreOwn
<1>13. ASSUME NEW p \in Slots, Pending(p)' PROVE LoadIsTrue(p)' /\ SaveIsTrue(p)'
  <2>1. CASE p # q
    BY <1>2, <1>4, <1>7, <1>10, <1>11, <1>13, <2>1 DEF LoadIsTrue, SaveIsTrue
  <2>2. CASE p = q
    <3>1. ASSUME m = "DELETE" PROVE Existing(a) = {r \in records : r.id = what.id}
      <4>1. PICK r \in Existing(a) : r.id = what.id
        BY <1>9, <3>1
      <4>2. r \in RowAt(a) /\ \A s \in Existing(a) : s = r
        BY <1>5, <4>1 DEF TypeInv, RecordsAreUnique, Distinct, Existing
      <4>3. r.id \in Live /\ ips[r.id].ip = a
        BY <4>2 DEF RowAt, RowsOf, RecordOf
      <4>4. \A s \in records : s.id = r.id => s.ip = a
        BY <4>3 DEF TypeInv, SessionInv, RecordsAreTrue, Names, Live
      <4>5. QED
        BY <4>1, <4>2, <4>4 DEF Existing
    <3>2. Nil # 200
      BY ServeConstants DEF ServeConstants
    <3>3. QED
      BY <1>2, <1>5, <1>7, <1>9, <1>10, <2>2, <3>1, <3>2 DEF LoadIsTrue, SaveIsTrue
  <2>3. QED
    BY <2>1, <2>2
<1>14. ASSUME NEW b \in Addresses, Settled(b)' PROVE Existing(b)' = RowAt(b)'
  <2>1. CASE b = a
    BY <1>5, <1>7, <2>1
  <2>2. CASE b # a
    <3>1. Settled(b)
      BY <1>10, <1>11, <1>14 DEF Settled, TypeInv, SlotsAreTrue, Pending, NoRequest
    <3>2. QED
      BY <1>4, <1>7, <3>1
  <2>3. QED
    BY <2>1, <2>2
<1>15. QED
  BY <1>12, <1>13, <1>14 DEF PageInv

LEMMA PageInvStep == TypeInv /\ PageInv /\ [Next]_vars => PageInv'
<1> SUFFICES ASSUME TypeInv, PageInv, [Next]_vars PROVE PageInv'
  OBVIOUS
<1>1. CASE Serves
  BY <1>1, ServesCurrent
<1>2. CASE Leave
  BY <1>2 DEF Leave, PageInv
<1>3. CASE Elsewhere
  <2>1. ~(shown' # Nil /\ clean')
    BY <1>3, Zenon DEF Elsewhere, page
  <2>2. QED
    BY <2>1 DEF PageInv
<1>4. ASSUME NEW n \in Subnets, Open(n) \/ Jump(n) PROVE PageInv'
  <2>1. CASE Open(n)
    BY <2>1, OpenCurrent
  <2>2. CASE Jump(n)
    BY <2>2 DEF Jump, PageInv
  <2>3. QED
    BY <1>4, <2>1, <2>2
<1>5. CASE \E a \in Addresses, h \in Hostnames \cup {Blank} : Save(a, h)
  BY <1>5, SaveCurrent
<1>6. CASE \E q \in Slots : Statement(q)
  BY <1>6, StatementCurrent
<1>7. CASE \E q \in Slots : Receive(q)
  BY <1>7, ReceiveCurrent
<1>8. CASE UNCHANGED vars
  <2>1. /\ UNCHANGED <<ips, request, answer, shown, clean, records, loading>>
        /\ UNCHANGED <<stage, method, status>>
    BY <1>8 DEF vars, browser, page, serveVars, requestVars
  <2>2. QED
    BY <2>1 DEF PageInv, PendingAreOwn, LoadIsTrue, SaveIsTrue, Settled, Existing, RowAt, RowsOf,
                RecordOf, Live, Pending
<1>9. QED
  BY <1>1, <1>2, <1>3, <1>4, <1>5, <1>6, <1>7, <1>8 DEF Next

\* A page that has what it waited for shows the rows of its subnet, though it
\* never loads them again and pieces them together from the answers to its own
\* requests (SubnetDetailView.tsx:34), but for what the property names; for any
\* number of addresses, of saves at a time and of connections.
THEOREM PagesStayCurrent == Spec => []PageIsCurrent
<1>1. TypeInv /\ PageInv => PageIsCurrent
  <2> SUFFICES ASSUME TypeInv, PageInv, shown # Nil, clean, \A q \in Slots : ~Pending(q)
               PROVE  records = RowsOf(shown)
    BY DEF PageIsCurrent
  <2>1. \A a \in Addresses : Existing(a) = RowAt(a)
    BY DEF PageInv, PendingAreOwn, Settled
  <2>2. records \subseteq Record /\ RowsOf(shown) \subseteq Record
    BY DEF TypeInv, SessionInv, SessionTypes, RowsOf, RecordOf, Live, Record, IpRow
  <2>3. QED
    BY <2>1, <2>2 DEF Existing, RowAt, Record
<1>2. QED
  BY <1>1, TypeInvInit, TypeInvStep, PageInvInit, PageInvStep, PTL DEF Spec
-----------------------------------------------------------------------------
(* The page waits for nothing that cannot come.                            *)

AwaitsLoad(q) == Pending(q) /\ method[q] = "GET"
AwaitsSave(q, a) == Pending(q) /\ method[q] # "GET" /\ request[q].ip = a

\* The server does not touch what the page waits for.
LEMMA MovesWait ==
    ASSUME WaitsForAnAnswer, UNCHANGED page, \A p \in Slots : UNCHANGED <<request[p], method[p]>>
    PROVE  WaitsForAnAnswer'
  BY DEF WaitsForAnAnswer, Pending, page

\* The load that starts is waited for, ...
LEMMA LoadWaits ==
    ASSUME TypeInv, WaitsForAnAnswer, NEW n \in Subnets, Open(n) \/ Jump(n)
    PROVE  WaitsForAnAnswer'
<1> DEFINE what == [subnet |-> n, id |-> Nil, ip |-> Nil, hostname |-> Nil, current |-> TRUE]
<1>1. Ask("GET", what) /\ saving' \in {saving, Nil}
  BY Zenon DEF Open, Jump, Load
<1>2. what.current = TRUE
  OBVIOUS
<1> HIDE DEF what
<1>3. PICK q \in Slots :
         /\ stage[q] = "free" /\ method'[q] = "GET" /\ request'[q] = what
         /\ \A p \in Slots \ {q} : UNCHANGED <<method[p], request[p]>>
  BY <1>1, AskMoves
<1>4. AwaitsLoad(q)'
  BY <1>2, <1>3 DEF AwaitsLoad, Pending
<1>5. ~Pending(q)
  BY <1>3 DEF TypeInv, SlotsAreTrue, Pending, NoRequest
<1>6. ASSUME saving' # Nil PROVE \E p \in Slots : AwaitsSave(p, saving)'
  <2>1. PICK p \in Slots : AwaitsSave(p, saving)
    BY <1>1, <1>6 DEF WaitsForAnAnswer, AwaitsSave
  <2>2. p # q
    BY <1>5, <2>1 DEF AwaitsSave
  <2>3. QED
    BY <1>1, <1>3, <1>6, <2>1, <2>2 DEF AwaitsSave, Pending
<1>7. QED
  BY <1>4, <1>6 DEF WaitsForAnAnswer, AwaitsLoad, AwaitsSave

\* ... and so is the save, which may take the place of another.
LEMMA SaveWaits ==
    ASSUME TypeInv, NEW a \in Addresses, NEW h \in Hostnames \cup {Blank}, Save(a, h)
    PROVE  WaitsForAnAnswer'
<1>1. PICK m \in {"POST", "PATCH", "DELETE"} : \E what :
         Ask(m, what) /\ what.ip = a /\ what.current = TRUE
  BY SaveAsks
<1>2. PICK what : Ask(m, what) /\ what.ip = a /\ what.current = TRUE
  BY <1>1
<1>3. PICK q \in Slots : method'[q] = m /\ request'[q] = what
  BY <1>2, AskMoves
<1>4. Pending(q)' /\ method'[q] # "GET" /\ request'[q].ip = a
  BY <1>1, <1>2, <1>3 DEF Pending
<1>5. saving' = a /\ ~loading'
  BY DEF Save
<1>6. QED
  BY <1>4, <1>5 DEF WaitsForAnAnswer

\* Whatever has arrived, the page stops to wait for it.
LEMMA ReceiveWaits ==
    ASSUME TypeInv, WaitsForAnAnswer, NEW q \in Slots, Receive(q)
    PROVE  WaitsForAnAnswer'
<1>1. \A p \in Slots \ {q} : UNCHANGED <<request[p], method[p]>>
  BY DEF Receive, Done, TypeInv, SessionInv, SessionTypes, IInv, ServeTypeOK
<1>2. \/ ~Pending(q) /\ UNCHANGED <<loading, saving>>
      \/ method[q] = "GET" /\ loading' = FALSE /\ saving' = saving
      \/ method[q] # "GET" /\ loading' = loading /\ saving' = Nil
  BY DEF Receive, Apply, page
<1>3. ASSUME loading' PROVE \E p \in Slots : AwaitsLoad(p)'
  <2>1. PICK p \in Slots : AwaitsLoad(p)
    BY <1>2, <1>3 DEF WaitsForAnAnswer, AwaitsLoad
  <2>2. p # q
    BY <1>2, <1>3, <2>1 DEF AwaitsLoad
  <2>3. QED
    BY <1>1, <2>1, <2>2 DEF AwaitsLoad, Pending
<1>4. ASSUME saving' # Nil PROVE \E p \in Slots : AwaitsSave(p, saving)'
  <2>1. saving' = saving
    BY <1>2, <1>4
  <2>2. PICK p \in Slots : AwaitsSave(p, saving)
    BY <1>4, <2>1 DEF WaitsForAnAnswer, AwaitsSave
  <2>3. p # q
    BY <1>2, <1>4, <2>2 DEF AwaitsSave
  <2>4. QED
    BY <1>1, <2>1, <2>2, <2>3 DEF AwaitsSave, Pending
<1>5. QED
  BY <1>3, <1>4 DEF WaitsForAnAnswer, AwaitsLoad, AwaitsSave

LEMMA WaitsStep == TypeInv /\ WaitsForAnAnswer /\ [Next]_vars => WaitsForAnAnswer'
<1> SUFFICES ASSUME TypeInv, WaitsForAnAnswer, [Next]_vars PROVE WaitsForAnAnswer'
  OBVIOUS
<1>1. CASE Serves
  BY <1>1, MovesWait, ServesMoves DEF Serves, browser, Moved
<1>2. CASE \E q \in Slots : Statement(q)
  BY <1>2, MovesWait, StatementMoves DEF browser, Moved
<1>3. CASE Elsewhere \/ UNCHANGED vars
  BY <1>3, MovesWait DEF Elsewhere, vars, browser, serveVars, requestVars
<1>4. CASE Leave
  BY <1>4 DEF Leave, WaitsForAnAnswer
<1>5. CASE \E n \in Subnets : Open(n) \/ Jump(n)
  BY <1>5, LoadWaits
<1>6. CASE \E a \in Addresses, h \in Hostnames \cup {Blank} : Save(a, h)
  BY <1>6, SaveWaits
<1>7. CASE \E q \in Slots : Receive(q)
  BY <1>7, ReceiveWaits
<1>8. QED
  BY <1>1, <1>2, <1>3, <1>4, <1>5, <1>6, <1>7 DEF Next

\* A page that waits has a request of its own on its way, the load or the save
\* of that very address, however many jumps, saves at a time, lost answers and
\* ends of the process there are (SubnetDetailView.tsx:32, :34).
THEOREM WaitsAreAnswered == Spec => []WaitsForAnAnswer
<1>1. Init => WaitsForAnAnswer
  BY DEF Init, WaitsForAnAnswer
<1>2. QED
  BY <1>1, TypeInvInit, TypeInvStep, WaitsStep, PTL DEF Spec
=============================================================================
