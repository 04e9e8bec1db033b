-------------------------- MODULE ServerHandleProofs --------------------------
(***************************************************************************)
(* What ServerConnection does with the records FreeTDS gives out: which    *)
(* misuses waiting rules out (HandleDiscipline), what stays allocated when *)
(* nothing runs (NoLeak), whose connection is closed (ClosesOwn), which    *)
(* server and login an answer is from (RightServer), and that a request    *)
(* that fails to connect has shown its alert (DroppedWithAlert).           *)
(*                                                                         *)
(* IInv says where the handles point while a request waits; HandlesInv     *)
(* adds who still holds what afterwards.  One lemma per part of it, each   *)
(* by the steps that can disturb the part.                                 *)
(***************************************************************************)
EXTENDS ServerConnectionProofs

LEMMA HandleTypes ==
    ASSUME CommonInv
    PROVE  /\ cpc \in [Req -> {"idle", "login", "populate", "dial", "open", "use",
                               "loginfree", "done"}]
           /\ epc \in [Req -> Executing \cup {"idle", "freebuf", "done"}]
           /\ phase \in [Req -> Phases]
           /\ logins \in [Req -> LoginRecs] /\ procs \in [Req -> ProcRecs]
           /\ login \in Req \cup {Null} /\ connection \in Req \cup {Null}
           /\ output \in [Req -> 0..MaxTables \cup {Null}]
           /\ columns \subseteq Req /\ alerted \subseteq Req
           /\ Null \notin Req
  BY NullAssumption DEF CommonInv, TypeOK, ClientTypeOK, Handle

-----------------------------------------------------------------------------
\* What one kind of step does to the blocks: the lemmas below need no more.

LEMMA WorkerMoves ==
    ASSUME CommonInv, NEW r \in Req, Worker(r), UNCHANGED connVars
    PROVE  /\ ~AtRest(r) /\ cpc'[r] # "idle" /\ alerted' = alerted /\ phase' = phase
           /\ \A q \in Req \ {r} : cpc'[q] = cpc[q] /\ epc'[q] = epc[q]
           /\ \A q \in Req : Waiting(q)' <=> Waiting(q)
<1>1. Moves(r)
  BY ConnectQueue, ExecuteQueue DEF Worker
<1>2. CASE ConnectStep(r)
  <2>1. cpc[r] \notin {"idle", "done"} /\ cpc'[r] # "idle"
    BY <1>2, HandleTypes DEF ConnectStep, Login, Populate, Dial, Open, Use, LoginFree,
       ConnectionFailure, ConnectionSuccess
  <2> QED
    BY <1>1, <2>1 DEF Moves, AtRest, Waiting, connVars
<1>3. CASE ExecuteStep(r)
  <2>1. epc[r] \notin {"idle", "done"} /\ cpc' = cpc
    BY <1>3, HandleTypes DEF ExecuteStep, Cmd, SqlExec, NextResult, RowsFail, RowsDone,
       NoMoreResults, FreeBuf, Call, Executing
  <2>2. cpc[r] # "idle"
    <3>1. phase[r] \notin {"idle", "connecting", "dropped"}
      BY <2>1 DEF CommonInv, Progress
    <3>2. cpc[r] \in Tail1
      BY <3>1, HandleTypes DEF CommonInv, Progress, Phases
    <3> QED
      BY <3>2 DEF Tail1
  <2> QED
    BY <1>1, <2>1, <2>2 DEF Moves, AtRest, Waiting, connVars
<1> QED
  BY <1>2, <1>3 DEF Worker

\* The block the main thread takes is of a request that waits, unless it alerts,
\* and the step changes where that request is, and no other.
LEMMA MainMoves ==
    ASSUME CommonInv, Main
    PROVE  /\ NextReq \in Req /\ 1 \in 1..Len(queue) /\ Head(queue) = queue[1]
           /\ queue' = Tail(queue) /\ queue # <<>>
           /\ cpc' = cpc /\ logins' = logins /\ login' = login
           /\ connection' = connection /\ columns' = columns /\ output' = output
           /\ \A q \in Req \ {NextReq} : phase'[q] = phase[q] /\ epc'[q] = epc[q]
           /\ ErrorAlert => phase' = phase /\ epc' = epc
           /\ ~ErrorAlert => Waiting(NextReq) /\ phase'[NextReq] # "idle"
           /\ epc'[NextReq] = epc[NextReq] \/
                 (epc[NextReq] = "idle" /\ epc'[NextReq] = "cmd")
<1>1. queue # <<>> /\ queue' = Tail(queue)
  BY DEF Main, ErrorAlert, ConnectFailed, ConnectDone, Deliver, Next1
<1>2. NextReq \in Req /\ 1 \in 1..Len(queue) /\ Head(queue) = queue[1]
  BY <1>1, QueuePops DEF NextReq
<1>3. /\ cpc' = cpc /\ logins' = logins /\ login' = login
      /\ connection' = connection /\ columns' = columns /\ output' = output
  BY DEF Main, ErrorAlert, ConnectFailed, ConnectDone, Deliver
<1>4. \A q \in Req \ {NextReq} : phase'[q] = phase[q] /\ epc'[q] = epc[q]
  BY <1>2, HandleTypes
  DEF Main, ErrorAlert, ConnectFailed, ConnectDone, Deliver, Execute
<1>5. ErrorAlert => phase' = phase /\ epc' = epc
  BY DEF ErrorAlert
<1>6. CASE ErrorAlert
  BY <1>1, <1>2, <1>3, <1>4, <1>5, <1>6
<1>7. CASE ConnectFailed
  <2>1. phase[NextReq] = "connecting" /\ phase'[NextReq] = "dropped" /\ epc' = epc
    BY <1>2, <1>7, HandleTypes DEF ConnectFailed, Next1, NextReq, CommonInv, Expected
  <2> QED
    BY <1>1, <1>2, <1>3, <1>4, <1>5, <2>1 DEF Waiting
<1>8. CASE ConnectDone
  <2>1. phase[NextReq] = "connecting" /\ epc[NextReq] = "idle"
    BY <1>2, <1>8, HandleTypes DEF ConnectDone, Next1, NextReq, CommonInv, Expected,
       Progress
  <2>2. phase'[NextReq] \in {"executing", "dropped"}
    BY <1>2, <1>8, HandleTypes DEF ConnectDone
  <2>3. epc'[NextReq] = epc[NextReq] \/ epc'[NextReq] = "cmd"
    BY <1>2, <1>8, HandleTypes DEF ConnectDone, Execute
  <2> QED
    BY <1>1, <1>2, <1>3, <1>4, <1>5, <2>1, <2>2, <2>3 DEF Waiting
<1>9. CASE Deliver
  <2>1. phase[NextReq] = "executing" /\ phase'[NextReq] = "answered" /\ epc' = epc
    BY <1>2, <1>9, HandleTypes DEF Deliver, Next1, NextReq, CommonInv, Expected
  <2> QED
    BY <1>1, <1>2, <1>3, <1>4, <1>5, <2>1 DEF Waiting
<1> QED
  BY <1>6, <1>7, <1>8, <1>9 DEF Main

\* Asking starts a request that did nothing before.
LEMMA AskMoves ==
    ASSUME CommonInv, NEW r \in Req, NEW who \in Screen, NEW sig \in Signal,
           NEW t \in Target, NEW m \in Method, Ask(r, who, sig, t, m)
    PROVE  /\ phase[r] = "idle" /\ cpc[r] = "idle" /\ epc[r] = "idle"
           /\ phase' = [phase EXCEPT ![r] = "connecting"]
           /\ cpc' = [cpc EXCEPT ![r] = "login"]
           /\ epc' = epc /\ login' = login /\ connection' = connection
           /\ logins' = logins /\ procs' = procs /\ columns' = columns
           /\ output' = output /\ queue' = queue /\ faults' = faults
           /\ alerted' = alerted /\ delivered' = delivered
  BY DEF Ask, Connect, CommonInv, Progress

-----------------------------------------------------------------------------
(***************************************************************************)
(* Alerted: a failure of connect: is behind its error: in the queue.       *)
(***************************************************************************)

\* Blocks that are no failures may be queued at any time.
LEMMA AlertedGrows ==
    ASSUME Alerted, alerted' = alerted, Len(queue) \in Nat, Len(queue') \in Nat,
           Len(queue') >= Len(queue),
           \A i \in 1..Len(queue) : queue'[i] = queue[i],
           \A i \in 1..Len(queue') : i > Len(queue) => queue'[i].kind # "failed"
    PROVE  Alerted'
<1> SUFFICES ASSUME NEW i \in 1..Len(queue'), queue'[i].kind = "failed"
             PROVE  \/ queue'[i].req \in alerted'
                    \/ \E j \in 1..Len(queue') : j < i /\ queue'[j] = Block("error", queue'[i].req)
  BY DEF Alerted, Block
<1>1. i \in 1..Len(queue) /\ queue'[i] = queue[i]
  OBVIOUS
<1>2. CASE queue[i].req \in alerted
  BY <1>1, <1>2
<1>3. CASE queue[i].req \notin alerted
  <2>1. PICK j \in 1..Len(queue) : j < i /\ queue[j] = Block("error", queue[i].req)
    BY <1>1, <1>3 DEF Alerted
  <2>2. j \in 1..Len(queue') /\ queue'[j] = queue[j]
    BY <2>1
  <2> QED
    BY <1>1, <2>1, <2>2
<1> QED
  BY <1>2, <1>3

LEMMA AlertedFails ==
    ASSUME CommonInv, Alerted, alerted' = alerted, NEW r \in Req,
           queue' = Failure("failed", r)
    PROVE  Alerted'
<1>1. queue \in Seq(Blocks) /\ Len(queue) \in Nat
  BY QueueElements
<1> DEFINE q == Append(queue, Block("error", r))
<1>2. Block("error", r) \in Blocks /\ Block("failed", r) \in Blocks
  BY DEF Block, Blocks
<1>3. /\ q \in Seq(Blocks) /\ Len(q) = Len(queue) + 1
      /\ \A i \in 1..Len(queue) : q[i] = queue[i]
      /\ q[Len(queue) + 1] = Block("error", r)
  BY <1>1, <1>2, AppendProperties
<1> HIDE DEF q
<1>4. /\ Len(Append(q, Block("failed", r))) = Len(q) + 1
      /\ \A i \in 1..Len(q) : Append(q, Block("failed", r))[i] = q[i]
      /\ Append(q, Block("failed", r))[Len(q) + 1] = Block("failed", r)
  BY <1>2, <1>3, AppendProperties
<1>5. queue' = Append(q, Block("failed", r))
  BY DEF Failure, q
<1>6. /\ Len(queue') = Len(queue) + 2
      /\ \A i \in 1..Len(queue) : queue'[i] = queue[i]
  BY <1>1, <1>3, <1>4, <1>5
<1>7. queue'[Len(queue) + 1] = Block("error", r)
  BY <1>1, <1>3, <1>4, <1>5
<1>8. queue'[Len(queue) + 2] = Block("failed", r)
  BY <1>1, <1>3, <1>4, <1>5
<1> SUFFICES ASSUME NEW i \in 1..Len(queue'), queue'[i].kind = "failed"
             PROVE  \/ queue'[i].req \in alerted'
                    \/ \E j \in 1..Len(queue') : j < i /\ queue'[j] = Block("error", queue'[i].req)
  BY DEF Alerted, Block
<1>9. CASE i \in 1..Len(queue)
  <2>1. CASE queue[i].req \in alerted
    BY <1>6, <1>9, <2>1
  <2>2. CASE queue[i].req \notin alerted
    <3>1. PICK j \in 1..Len(queue) : j < i /\ queue[j] = Block("error", queue[i].req)
      BY <1>6, <1>9, <2>2 DEF Alerted
    <3>2. j \in 1..Len(queue') /\ queue'[j] = queue[j]
      BY <1>1, <1>6, <3>1
    <3> QED
      BY <1>6, <1>9, <3>1, <3>2
  <2> QED
    BY <2>1, <2>2
<1>10. CASE i = Len(queue) + 1
  BY <1>7, <1>10 DEF Block
<1>11. CASE i = Len(queue) + 2
  <2>1. queue'[i].req = r
    BY <1>8, <1>11 DEF Block
  <2>2. Len(queue) + 1 \in 1..Len(queue') /\ Len(queue) + 1 < i
    BY <1>1, <1>6, <1>11
  <2> QED
    BY <1>7, <2>1, <2>2
<1> QED
  BY <1>1, <1>6, <1>9, <1>10, <1>11

LEMMA AlertedWorker ==
    ASSUME CommonInv, Alerted, NEW r \in Req, Worker(r), UNCHANGED connVars
    PROVE  Alerted'
<1>1. alerted' = alerted /\ Len(queue) \in Nat
  BY QueueElements DEF connVars
<1>2. CASE queue' = queue
  BY <1>1, <1>2 DEF Alerted
<1>3. CASE queue' = Failure("failed", r)
  BY <1>1, <1>3, AlertedFails
<1>4. ASSUME NEW k \in {"connected", "executed"},
             queue' = Append(queue, Block(k, r)) \/ queue' = Failure(k, r)
      PROVE  Alerted'
  <2>1. Completes(k, r)
    BY <1>4, AppendCompletes
  <2>2. Len(queue') \in Nat
    BY <2>1, LenProperties DEF Completes
  <2>3. \A i \in 1..Len(queue') : i > Len(queue) => queue'[i].kind # "failed"
    BY <1>1, <2>1, <2>2 DEF Completes, Block
  <2> QED
    BY <1>1, <2>1, <2>2, <2>3, AlertedGrows DEF Completes
<1>5. CASE queue' = Append(queue, Block("error", r))
  <2>1. /\ Len(queue') = Len(queue) + 1 /\ \A i \in 1..Len(queue) : queue'[i] = queue[i]
        /\ queue'[Len(queue) + 1] = Block("error", r)
    BY <1>5, QueueAppends
  <2>2. \A i \in 1..Len(queue') : i > Len(queue) => queue'[i].kind # "failed"
    BY <1>1, <2>1 DEF Block
  <2> QED
    BY <1>1, <2>1, <2>2, AlertedGrows
<1>6. CASE ConnectStep(r)
  BY <1>2, <1>3, <1>4, <1>6 DEF ConnectStep, Login, Populate, Dial, Open, Use, LoginFree,
     ConnectionFailure, ConnectionSuccess
<1>7. CASE ExecuteStep(r)
  BY <1>2, <1>4, <1>5, <1>7 DEF ExecuteStep, Cmd, SqlExec, NextResult, RowsFail, RowsDone,
     NoMoreResults, FreeBuf
<1> QED
  BY <1>6, <1>7 DEF Worker

\* An alert that leaves the queue was shown.
LEMMA AlertedMain ==
    ASSUME CommonInv, Alerted, Main
    PROVE  Alerted'
<1>1. /\ 1 \in 1..Len(queue) /\ Head(queue) = queue[1] /\ Len(queue) \in Nat
      /\ \A i \in 1..Len(queue') : /\ i + 1 \in 1..Len(queue) /\ i + 1 # 1
                                   /\ queue'[i] = queue[i + 1]
      /\ Len(queue') = Len(queue) - 1
  <2>1. queue \in Seq(Blocks) /\ queue # <<>> /\ queue' = Tail(queue)
    BY MainMoves, QueueElements
  <2>2. Len(Tail(queue)) = Len(queue) - 1
    BY <2>1, HeadTailProperties
  <2> QED
    BY <2>1, <2>2, QueuePops, QueueElements
<1>2. /\ alerted \subseteq alerted'
      /\ queue[1].kind = "error" => queue[1].req \in alerted'
  BY <1>1 DEF Main, ErrorAlert, ConnectFailed, ConnectDone, Deliver, Next1, NextReq
<1> SUFFICES ASSUME NEW i \in 1..Len(queue'), queue'[i].kind = "failed"
             PROVE  \/ queue'[i].req \in alerted'
                    \/ \E j \in 1..Len(queue') : j < i /\ queue'[j] = Block("error", queue'[i].req)
  BY DEF Alerted, Block
<1> DEFINE r == queue'[i].req
<1>3. r = queue[i + 1].req /\ queue[i + 1].kind = "failed" /\ i + 1 \in 1..Len(queue)
  BY <1>1
<1>4. CASE r \in alerted
  BY <1>2, <1>4
<1>5. CASE r \notin alerted
  <2>1. PICK j \in 1..Len(queue) : j < i + 1 /\ queue[j] = Block("error", r)
    BY <1>3, <1>5 DEF Alerted
  <2>2. CASE j = 1
    BY <1>2, <2>1, <2>2 DEF Block
  <2>3. CASE j # 1
    <3>1. j - 1 \in 1..Len(queue') /\ j - 1 < i /\ (j - 1) + 1 = j
      BY <1>1, <2>1, <2>3
    <3>2. queue'[j - 1] = queue[j]
      BY <1>1, <3>1
    <3> QED
      BY <2>1, <3>1, <3>2
  <2> QED
    BY <2>2, <2>3
<1> QED
  BY <1>4, <1>5

LEMMA AlertedNext == CommonInv /\ Alerted /\ [Next]_vars => Alerted'
<1> SUFFICES ASSUME CommonInv, Alerted, [Next]_vars PROVE Alerted'
  OBVIOUS
<1>1. CASE UserStep
  BY <1>1, AskMoves DEF UserStep, Newcomer, Alerted
<1>2. CASE ClientStep
  BY <1>2, AlertedWorker DEF ClientStep
<1>3. CASE Main
  BY <1>3, AlertedMain
<1>4. CASE UNCHANGED vars
  BY <1>4 DEF vars, clientVars, connVars, Alerted
<1> QED
  BY <1>1, <1>2, <1>3, <1>4 DEF Next

-----------------------------------------------------------------------------
(***************************************************************************)
(* ColumnsUsed: only a failure leaves column buffers behind.               *)
(***************************************************************************)
LEMMA ColumnsNext == CommonInv /\ ColumnsUsed /\ [Next]_vars => ColumnsUsed'
<1> SUFFICES ASSUME CommonInv, ColumnsUsed, [Next]_vars PROVE ColumnsUsed'
  OBVIOUS
<1>1. CASE UserStep
  BY <1>1, AskMoves DEF UserStep, Newcomer, ColumnsUsed
<1>2. CASE ClientStep
  <2>1. PICK r \in Req : Worker(r) /\ UNCHANGED connVars
    BY <1>2 DEF ClientStep
  <2>2. CASE ConnectStep(r)
    BY <2>2 DEF ConnectStep, Login, Populate, Dial, Open, Use, LoginFree, ColumnsUsed
  <2>3. CASE ExecuteStep(r)
    <3>1. CASE NextResult(r) \/ RowsFail(r)
      BY <3>1, HandleTypes DEF NextResult, RowsFail, ExecutionFailure, ColumnsUsed
    <3>2. CASE RowsDone(r) \/ SqlExec(r)
      BY <3>2, HandleTypes DEF RowsDone, SqlExec, ExecutionFailure, ColumnsUsed
    <3>3. CASE Cmd(r) \/ NoMoreResults(r) \/ FreeBuf(r)
      BY <3>3, HandleTypes DEF Cmd, NoMoreResults, FreeBuf, ColumnsUsed
    <3> QED
      BY <2>3, <3>1, <3>2, <3>3 DEF ExecuteStep
  <2> QED
    BY <2>1, <2>2, <2>3 DEF Worker
<1>3. CASE Main
  BY <1>3, MainMoves, HandleTypes DEF ColumnsUsed
<1>4. CASE UNCHANGED vars
  BY <1>4 DEF vars, clientVars, ColumnsUsed
<1> QED
  BY <1>1, <1>2, <1>3, <1>4 DEF Next

-----------------------------------------------------------------------------
(***************************************************************************)
(* OpenWhileNeeded, and whose connection a step closes.                    *)
(***************************************************************************)

\* A worker step opens a connection for its own request, and closes none.
LEMMA WorkerOpens ==
    ASSUME CommonInv, NEW r \in Req, Worker(r)
    PROVE  \A p \in Req :
              /\ procs'[p].state = "open" =>
                    procs[p].state = "open" \/ (p = r /\ phase[r] = "connecting")
              /\ procs'[p].state = "closed" => procs[p].state = "closed"
<1>1. CASE procs' = procs
  BY <1>1
<1>2. CASE Dial(r)
  BY <1>2, HandleTypes DEF Dial
<1>3. CASE Open(r)
  <2>1. phase[r] = "connecting"
    BY <1>3, HandleTypes DEF Open, CommonInv, Progress, Phases, Tail1
  <2> QED
    BY <1>3, <2>1, HandleTypes DEF Open, ProcRecs
<1>4. CASE Use(r)
  <2>1. procs' = procs \/ (connection \in Req /\ procs' = [procs EXCEPT ![connection].db = params])
    BY <1>4, HandleTypes DEF Use
  <2>2. \A p \in Req : procs'[p].state = procs[p].state
    BY <2>1, HandleTypes DEF ProcRecs
  <2> QED
    BY <2>2
<1> QED
  BY <1>1, <1>2, <1>3, <1>4 DEF Worker, ConnectStep, ExecuteStep, Login, Populate, LoginFree,
     Cmd, SqlExec, NextResult, RowsFail, RowsDone, NoMoreResults, FreeBuf, Call

\* Delivering the answer closes the connection of the request it is for.
LEMMA DeliverCloses ==
    ASSUME IInv, Patience # "none", Deliver
    PROVE  /\ connection = NextReq /\ NextReq \in Req /\ procs[NextReq].state = "open"
           /\ phase[NextReq] = "executing"
           /\ procs' = [procs EXCEPT ![NextReq].state = "closed"]
           /\ procs'[NextReq].state = "closed"
           /\ \A p \in Req \ {NextReq} : procs'[p] = procs[p]
           /\ faults' = faults
<1>1. NextReq \in Req /\ phase[NextReq] = "executing"
  BY DeliverFacts, MainMoves DEF IInv, Main
<1>2. connection = NextReq /\ procs[NextReq].state = "open"
  BY <1>1 DEF IInv, WaitingInv, OwnProcess, OpenedFor
<1>3. connection # Null
  BY <1>1, <1>2, HandleTypes DEF IInv
<1>4. procs' = [procs EXCEPT ![NextReq].state = "closed"]
  BY <1>2, <1>3 DEF Deliver, Disconnect
<1>5. faults' = faults
  BY <1>2, <1>3 DEF Deliver, Disconnect, Note, Freed
<1>6. procs \in [Req -> ProcRecs]
  BY HandleTypes DEF IInv
<1> QED
  BY <1>1, <1>2, <1>4, <1>5, <1>6 DEF ProcRecs

LEMMA OpenNext == IInv /\ OpenWhileNeeded /\ [Next]_vars => OpenWhileNeeded'
<1> SUFFICES ASSUME IInv, OpenWhileNeeded, [Next]_vars, Patience # "none"
             PROVE  OpenWhileNeeded'
  BY DEF OpenWhileNeeded
<1>1. CommonInv
  BY DEF IInv
<1>2. CASE UserStep
  <2>1. PICK r \in Req : /\ procs' = procs
                         /\ phase' = [phase EXCEPT ![r] = "connecting"]
    BY <1>1, <1>2, AskMoves DEF UserStep, Newcomer
  <2> QED
    BY <1>1, <2>1, HandleTypes DEF OpenWhileNeeded
<1>3. CASE ClientStep
  <2>1. PICK r \in Req : Worker(r) /\ UNCHANGED connVars
    BY <1>3 DEF ClientStep
  <2> QED
    BY <1>1, <2>1, WorkerOpens DEF OpenWhileNeeded, connVars
<1>4. CASE Main
  <2>1. CASE Deliver
    <3>1. /\ NextReq \in Req /\ procs'[NextReq].state = "closed"
          /\ \A p \in Req \ {NextReq} : procs'[p] = procs[p]
      BY <2>1, DeliverCloses
    <3>2. \A p \in Req \ {NextReq} : phase'[p] = phase[p]
      BY <1>1, <1>4, MainMoves
    <3> QED
      BY <3>1, <3>2 DEF OpenWhileNeeded
  <2>2. CASE ~Deliver
    <3>1. procs' = procs
      BY <1>4, <2>2 DEF Main, ErrorAlert, ConnectFailed, ConnectDone
    <3>2. NextReq \in Req /\ \A p \in Req \ {NextReq} : phase'[p] = phase[p]
      BY <1>1, <1>4, MainMoves
    <3>3. phase'[NextReq] = phase[NextReq] \/ phase'[NextReq] \in {"executing", "dropped"}
      BY <1>1, <1>4, <2>2, <3>2, HandleTypes DEF Main, ErrorAlert, ConnectFailed, ConnectDone
    <3> QED
      BY <3>1, <3>2, <3>3 DEF OpenWhileNeeded
  <2> QED
    BY <2>1, <2>2
<1>5. CASE UNCHANGED vars
  BY <1>5 DEF vars, clientVars, connVars, OpenWhileNeeded
<1> QED
  BY <1>2, <1>3, <1>4, <1>5 DEF Next

-----------------------------------------------------------------------------
(***************************************************************************)
(* QuietInv: who waits for the blocks too has one request at work, and one *)
(* login record.                                                           *)
(***************************************************************************)
LEMMA QuietAsk ==
    ASSUME CommonInv, OneAtWork, LoginHeld, Patience = "quiet", UserStep
    PROVE  (OneAtWork /\ LoginHeld)'
<1>1. PICK r \in Req, who \in Screen, sig \in Signal, t \in Target, m \in Method :
         Ask(r, who, sig, t, m)
  BY DEF UserStep, Newcomer
<1>2. /\ cpc[r] = "idle" /\ cpc' = [cpc EXCEPT ![r] = "login"] /\ epc' = epc
      /\ phase' = [phase EXCEPT ![r] = "connecting"] /\ login' = login /\ logins' = logins
  BY <1>1, AskMoves
<1>3. \A q \in Req : AtRest(q)
  BY <1>1 DEF Ask, MayAsk
<1>4. \A q \in Req \ {r} : AtRest(q)'
  BY <1>2, <1>3, HandleTypes DEF AtRest, Waiting
<1>5. \A q \in Req : cpc[q] \in {"idle", "done"} /\ logins[q].state # "live"
  BY <1>3 DEF AtRest, LoginHeld
<1>6. \A q \in Req : cpc'[q] \in {"idle", "done", "login"} /\ logins'[q].state # "live"
  BY <1>2, <1>5, HandleTypes
<1>7. OneAtWork'
  BY <1>4 DEF OneAtWork
<1>8. LoginHeld'
  BY <1>6 DEF LoginHeld
<1> QED
  BY <1>7, <1>8

LEMMA QuietWorker ==
    ASSUME CommonInv, OneAtWork, LoginHeld, NEW r \in Req, Worker(r), UNCHANGED connVars
    PROVE  (OneAtWork /\ LoginHeld)'
<1>1. /\ ~AtRest(r) /\ \A q \in Req \ {r} : cpc'[q] = cpc[q] /\ epc'[q] = epc[q]
      /\ \A q \in Req : Waiting(q)' <=> Waiting(q)
  BY WorkerMoves
<1>2. \A q \in Req \ {r} : AtRest(q) /\ AtRest(q)'
  BY <1>1 DEF OneAtWork, AtRest
<1>3. OneAtWork'
  BY <1>2 DEF OneAtWork
<1>4. \A q \in Req \ {r} : cpc[q] \in {"idle", "done"} /\ logins[q].state # "live"
  BY <1>2 DEF AtRest, LoginHeld
<1>5. ASSUME \A q \in Req \ {r} : logins'[q].state # "live",
             cpc'[r] \in {"populate", "dial", "open", "use"} =>
                login' = r /\ logins'[r].state = "live",
             cpc'[r] = "loginfree" =>
                login' = Null \/ (login' = r /\ logins'[r].state = "live"),
             logins'[r].state = "live" =>
                login' = r /\ cpc'[r] \in {"populate", "dial", "open", "use", "loginfree"}
      PROVE  LoginHeld'
  BY <1>1, <1>4, <1>5 DEF LoginHeld
<1>6. CASE Login(r)
  BY <1>3, <1>4, <1>5, <1>6, HandleTypes DEF Login, ConnectionFailure, LoginHeld, LoginRecs
<1>7. CASE Populate(r)
  <2>1. cpc[r] = "populate" /\ login = r /\ login # Null /\ logins[r].state = "live"
    BY <1>7, HandleTypes DEF Populate, LoginHeld
  <2>2. /\ logins' = [logins EXCEPT ![r].for = params] /\ login' = r
        /\ cpc' = [cpc EXCEPT ![r] = "dial"]
    BY <1>7, <2>1 DEF Populate, LoginFreed
  <2>3. \A q \in Req : logins'[q].state = logins[q].state
    BY <2>2, HandleTypes DEF LoginRecs
  <2>4. cpc'[r] = "dial"
    BY <2>2, HandleTypes
  <2> QED
    BY <1>3, <1>4, <1>5, <2>1, <2>2, <2>3, <2>4
<1>8. CASE Dial(r) \/ Open(r) \/ Use(r)
  <2>1. login' = login /\ logins' = logins /\ cpc[r] \in {"dial", "open", "use"}
    BY <1>8 DEF Dial, Open, Use
  <2>2. cpc'[r] \in {"open", "use", "loginfree"}
    BY <1>8, HandleTypes DEF Dial, Open, Use, ConnectionFailure, ConnectionSuccess
  <2> QED
    BY <1>3, <1>4, <1>5, <2>1, <2>2 DEF LoginHeld
<1>9. CASE LoginFree(r)
  <2>1. cpc[r] = "loginfree" /\ cpc'[r] = "done" /\ login' = login
    BY <1>9, HandleTypes DEF LoginFree
  <2>2. logins'[r].state # "live" /\ \A q \in Req \ {r} : logins'[q] = logins[q]
    <3>1. CASE login = Null
      <4>1. logins' = logins /\ logins[r].state # "live"
        BY <1>9, <3>1, HandleTypes DEF LoginFree, LoginHeld
      <4> QED
        BY <4>1
    <3>2. CASE login # Null
      <4>1. login = r
        BY <2>1, <3>2 DEF LoginHeld
      <4>2. logins' = [logins EXCEPT ![r].state = "freed"]
        BY <1>9, <3>2, <4>1 DEF LoginFree
      <4> QED
        BY <4>2, HandleTypes DEF LoginRecs
    <3> QED
      BY <3>1, <3>2
  <2> QED
    BY <1>3, <1>4, <1>5, <2>1, <2>2
<1>10. CASE ExecuteStep(r)
  <2>1. cpc' = cpc /\ login' = login /\ logins' = logins
    BY <1>10 DEF ExecuteStep, Cmd, SqlExec, NextResult, RowsFail, RowsDone,
       NoMoreResults, FreeBuf, Call
  <2> QED
    BY <1>3, <2>1 DEF LoginHeld
<1>11. LoginHeld'
  BY <1>6, <1>7, <1>8, <1>9, <1>10 DEF Worker, ConnectStep
<1> QED
  BY <1>3, <1>11

LEMMA QuietMain ==
    ASSUME CommonInv, OneAtWork, LoginHeld, Main
    PROVE  (OneAtWork /\ LoginHeld)'
<1>1. /\ NextReq \in Req /\ cpc' = cpc /\ logins' = logins /\ login' = login
      /\ \A q \in Req \ {NextReq} : phase'[q] = phase[q] /\ epc'[q] = epc[q]
      /\ ErrorAlert => phase' = phase /\ epc' = epc
      /\ ~ErrorAlert => Waiting(NextReq)
  BY MainMoves
<1>2. \A q \in Req : AtRest(q) => AtRest(q)'
  BY <1>1 DEF AtRest, Waiting
<1>3. OneAtWork'
  BY <1>2 DEF OneAtWork
<1>4. LoginHeld'
  BY <1>1 DEF LoginHeld
<1> QED
  BY <1>3, <1>4

\* dbopen is the one call that reads the record, and `login` is not freed then.
LEMMA KnownWorker ==
    ASSUME CommonInv, LoginHeld, AllKnown, NEW r \in Req, Worker(r)
    PROVE  AllKnown'
<1>1. CASE procs' = procs
  BY <1>1 DEF AllKnown
<1>2. CASE Dial(r)
  <2>1. ~LoginFreed
    BY <1>2 DEF Dial, LoginHeld, LoginFreed
  <2>2. /\ params \in Target \cup {Null}
        /\ login # Null => logins[login].for \in Target \cup {Null}
    BY HandleTypes DEF CommonInv, TypeOK, ClientTypeOK, LoginRecs
  <2>3. procs'[r].user \in Target \cup {Null} /\ procs'[r].host \in Target \cup {Null}
    BY <1>2, <2>1, <2>2, HandleTypes DEF Dial
  <2>4. \A q \in Req \ {r} : procs'[q] = procs[q]
    BY <1>2, HandleTypes DEF Dial
  <2> QED
    BY <2>3, <2>4, UnknownAssumption DEF AllKnown
<1>3. CASE Open(r)
  <2>1. \A q \in Req : procs'[q].user = procs[q].user /\ procs'[q].host = procs[q].host
    BY <1>3, HandleTypes DEF Open, ProcRecs
  <2> QED
    BY <2>1 DEF AllKnown
<1>4. CASE Use(r)
  <2>1. procs' = procs \/ (connection \in Req /\ procs' = [procs EXCEPT ![connection].db = params])
    BY <1>4, HandleTypes DEF Use
  <2>2. \A q \in Req : procs'[q].user = procs[q].user /\ procs'[q].host = procs[q].host
    BY <2>1, HandleTypes DEF ProcRecs
  <2> QED
    BY <2>2 DEF AllKnown
<1> QED
  BY <1>1, <1>2, <1>3, <1>4 DEF Worker, ConnectStep, ExecuteStep, Login, Populate, LoginFree,
     Cmd, SqlExec, NextResult, RowsFail, RowsDone, NoMoreResults, FreeBuf, Call

LEMMA KnownMain == ASSUME CommonInv, AllKnown, Main PROVE AllKnown'
<1>1. \/ procs' = procs
      \/ connection \in Req /\ procs' = [procs EXCEPT ![connection].state = "closed"]
  BY HandleTypes DEF Main, ErrorAlert, ConnectFailed, ConnectDone, Deliver, Disconnect
<1>2. \A q \in Req : procs'[q].user = procs[q].user /\ procs'[q].host = procs[q].host
  BY <1>1, HandleTypes DEF ProcRecs
<1> QED
  BY <1>2 DEF AllKnown

LEMMA QuietNext == CommonInv /\ QuietInv /\ [Next]_vars => QuietInv'
<1> SUFFICES ASSUME CommonInv, QuietInv, [Next]_vars, Patience = "quiet"
             PROVE  (OneAtWork /\ LoginHeld /\ AllKnown)'
  BY DEF QuietInv
<1>1. OneAtWork /\ LoginHeld /\ AllKnown
  BY DEF QuietInv
<1>2. CASE UserStep
  <2>1. AllKnown'
    BY <1>1, <1>2, AskMoves DEF UserStep, Newcomer, AllKnown
  <2> QED
    BY <1>1, <1>2, <2>1, QuietAsk
<1>3. CASE ClientStep
  BY <1>1, <1>3, QuietWorker, KnownWorker DEF ClientStep
<1>4. CASE Main
  BY <1>1, <1>4, QuietMain, KnownMain
<1>5. CASE UNCHANGED vars
  BY <1>1, <1>5 DEF vars, clientVars, connVars, OneAtWork, LoginHeld, AllKnown, AtRest,
     Waiting
<1> QED
  BY <1>2, <1>3, <1>4, <1>5 DEF Next

-----------------------------------------------------------------------------
(***************************************************************************)
(* HandleDiscipline, one misuse at a time.                                 *)
(***************************************************************************)

\* No call of connect: or execute: is made on a closed connection.
LEMMA CallsLive ==
    ASSUME IInv, Patience # "none", NEW r \in Req,
           cpc[r] = "use" \/ epc[r] \in Executing
    PROVE  ~Freed(connection)
<1>1. Waiting(r) /\ (cpc[r] = "use" \/ phase[r] = "executing")
  <2>1. CASE cpc[r] = "use"
    BY <2>1, HandleTypes DEF IInv, CommonInv, Progress, Phases, Tail1, Waiting
  <2>2. CASE epc[r] \in Executing
    BY <2>2, SilentExecute DEF IInv, Waiting
  <2> QED
    BY <2>1, <2>2
<1>2. OpenedFor(r)
  BY <1>1 DEF IInv, WaitingInv, OwnProcess
<1> QED
  BY <1>2 DEF OpenedFor, Freed

\* Nobody else executes beside the one request at work.
LEMMA AloneAtWork ==
    ASSUME CommonInv, OneAtWork, NEW r \in Req, ~AtRest(r)
    PROVE  SharedProcess(r) = {}
<1>1. \A q \in Req \ {r} : epc[q] \in {"idle", "done"}
  BY DEF OneAtWork, AtRest
<1> QED
  BY <1>1 DEF SharedProcess, Executing

LEMMA DisciplineWorker ==
    ASSUME IInv, QuietInv, HandleDiscipline, NEW r \in Req, Worker(r), UNCHANGED connVars
    PROVE  HandleDiscipline'
<1> SUFFICES ASSUME Patience # "none" PROVE HandleDiscipline'
  BY DEF HandleDiscipline
<1>1. CommonInv /\ ~AtRest(r)
  BY WorkerMoves DEF IInv
<1>2. ASSUME faults' \subseteq faults \cup SharedProcess(r) \cup {"stale freebuf"}
      PROVE  HandleDiscipline'
  <2>1. SharedProcess(r) \subseteq {"shared process"}
    BY DEF SharedProcess
  <2>2. Patience = "quiet" => SharedProcess(r) = {}
    BY <1>1, AloneAtWork DEF QuietInv
  <2> QED
    BY <1>2, <2>1, <2>2 DEF HandleDiscipline
<1>3. ASSUME cpc[r] \in {"populate", "dial"}, Note(StaleLogin)
      PROVE  HandleDiscipline'
  <2>1. StaleLogin \subseteq {"stale login"}
    BY DEF StaleLogin
  <2>2. Patience = "quiet" => StaleLogin = {}
    BY <1>1, <1>3 DEF QuietInv, LoginHeld, StaleLogin, LoginFreed
  <2> QED
    BY <1>3, <2>1, <2>2 DEF HandleDiscipline, Note
<1>4. CASE Login(r) \/ Open(r)
  BY <1>4 DEF Login, Open, HandleDiscipline
<1>5. CASE Populate(r) \/ Dial(r)
  BY <1>3, <1>5 DEF Populate, Dial
<1>6. CASE Use(r)
  <2>1. StaleCall = {}
    BY <1>6, CallsLive DEF Use, StaleCall
  <2> QED
    BY <1>6, <2>1 DEF Use, Note, HandleDiscipline
<1>7. CASE LoginFree(r)
  <2>1. faults' \subseteq faults \cup {"double loginfree"}
    BY <1>7 DEF LoginFree, Note
  <2>2. Patience = "quiet" => faults' = faults
    BY <1>1, <1>7 DEF QuietInv, LoginHeld, LoginFree, LoginFreed, Note
  <2> QED
    BY <2>1, <2>2 DEF HandleDiscipline
<1>8. CASE FreeBuf(r)
  BY <1>2, <1>8 DEF FreeBuf, Note
<1>9. CASE ExecuteStep(r) /\ ~FreeBuf(r)
  <2>1. Call(r) /\ epc[r] \in Executing
    BY <1>9 DEF ExecuteStep, Cmd, SqlExec, NextResult, RowsFail, RowsDone, NoMoreResults,
       Executing
  <2>2. StaleCall = {}
    BY <2>1, CallsLive DEF StaleCall
  <2> QED
    BY <1>2, <2>1, <2>2 DEF Call, Note
<1> QED
  BY <1>4, <1>5, <1>6, <1>7, <1>8, <1>9 DEF Worker, ConnectStep

LEMMA DisciplineMain ==
    ASSUME IInv, HandleDiscipline, Main
    PROVE  HandleDiscipline'
<1> SUFFICES ASSUME Patience # "none" PROVE HandleDiscipline'
  BY DEF HandleDiscipline
<1>1. faults' = faults
  <2>1. CASE ErrorAlert \/ ConnectFailed
    BY <2>1 DEF ErrorAlert, ConnectFailed
  <2>2. CASE ConnectDone
    <3>1. 1 \in 1..Len(queue) /\ queue[1].kind = "connected"
      BY <2>2, MainMoves DEF IInv, ConnectDone, Next1
    <3>2. ~Freed(connection)
      BY <3>1 DEF IInv, WaitingInv, OwnCompletion, OpenedFor, Freed
    <3> QED
      BY <2>2, <3>2 DEF ConnectDone, Note
  <2>3. CASE Deliver
    BY <2>3, DeliverCloses
  <2> QED
    BY <2>1, <2>2, <2>3 DEF Main
<1> QED
  BY <1>1 DEF HandleDiscipline

LEMMA DisciplineNext == IInv /\ QuietInv /\ HandleDiscipline /\ [Next]_vars => HandleDiscipline'
<1> SUFFICES ASSUME IInv, QuietInv, HandleDiscipline, [Next]_vars PROVE HandleDiscipline'
  OBVIOUS
<1>1. CASE UserStep
  BY <1>1, AskMoves DEF IInv, UserStep, Newcomer, HandleDiscipline
<1>2. CASE ClientStep
  BY <1>2, DisciplineWorker DEF ClientStep
<1>3. CASE Main
  BY <1>3, DisciplineMain
<1>4. CASE UNCHANGED vars
  BY <1>4 DEF vars, clientVars, HandleDiscipline
<1> QED
  BY <1>1, <1>2, <1>3, <1>4 DEF Next

-----------------------------------------------------------------------------
(***************************************************************************)
(* What holds of every execution.                                          *)
(***************************************************************************)
LEMMA InitHandles == Init => HandlesInv
<1> SUFFICES ASSUME Init PROVE HandlesInv
  OBVIOUS
<1>1. Len(queue) = 0 /\ columns = {} /\ faults = {} /\ cpc = [r \in Req |-> "idle"]
  BY EmptySeq DEF Init, InitClient
<1>2. Alerted /\ ColumnsUsed
  BY <1>1 DEF Alerted, ColumnsUsed
<1>3. OpenWhileNeeded
  BY DEF Init, InitClient, NoProc, OpenWhileNeeded
<1>4. QuietInv
  BY <1>1, UnknownAssumption
  DEF Init, InitClient, NoLogin, NoProc, QuietInv, OneAtWork, LoginHeld, AllKnown, AtRest,
      Waiting
<1>5. HandleDiscipline
  BY <1>1 DEF HandleDiscipline
<1> QED
  BY <1>2, <1>3, <1>4, <1>5 DEF HandlesInv

LEMMA HandlesNext == IInv /\ HandlesInv /\ [Next]_vars => HandlesInv'
  BY AlertedNext, ColumnsNext, OpenNext, QuietNext, DisciplineNext DEF IInv, HandlesInv

LEMMA HandlesAlways == Spec => [](IInv /\ HandlesInv)
<1>1. Init => HandlesInv
  BY InitHandles
<1>2. IInv /\ HandlesInv /\ [Next]_vars => HandlesInv'
  BY HandlesNext
<1> QED
  BY <1>1, <1>2, Invariant, PTL DEF Spec

\* Waiting for each answer rules out calls on, and a second close of, a closed
\* connection; waiting for the blocks too leaves dbfreebuf after dbclose.
THEOREM WaitingBuysDiscipline == Spec => []HandleDiscipline
<1>1. HandlesInv => HandleDiscipline
  BY DEF HandlesInv
<1> QED
  BY <1>1, HandlesAlways, PTL

\* For a user who waits, data comes over the connection the request opened itself
\* and from the database it named.  Waiting for the blocks too, it was opened with
\* the login and at the host the request named; waiting for the answer only, with
\* those or with what a LOGINREC held that the previous request had freed, and
\* never with another request's.
THEOREM AnswersComeFromTheServerAsked == Spec => []RightServer
<1>1. IInv /\ HandlesInv => RightServer
  <2> SUFFICES ASSUME IInv, HandlesInv, Patience # "none",
                      NEW i \in 1..Len(delivered), NEW r \in Req,
                      r = delivered[i].req, delivered[i].array.of = r
               PROVE  LET t    == asked[r].target
                          sent == {procs[r].user, procs[r].host}
                      IN  /\ via[r] = {r} /\ procs[r].db = t
                          /\ sent = {t} \/ (Patience = "answer" /\ sent = {Unknown})
    BY DeliveredElements DEF IInv, RightServer
  <2>1. via[r] = {r} /\ Told(r) /\ procs[r].db = asked[r].target
    BY DEF IInv, WaitingInv, OwnServer
  <2>2. Patience \in {"answer", "quiet"}
    BY ConnectionAssumption DEF AllPatience
  <2>3. Patience = "quiet" => procs[r].user # Unknown
    BY DEF HandlesInv, QuietInv, AllKnown
  <2> QED
    BY <2>1, <2>2, <2>3 DEF Told
<1> QED
  BY <1>1, HandlesAlways, PTL

\* When nothing runs, no login record is left, a connection only of a request
\* that was dropped, column buffers only of a statement that failed.
THEOREM LeaksAreKnown == Spec => []NoLeak
<1>1. IInv /\ HandlesInv => NoLeak
  <2> SUFFICES ASSUME IInv, HandlesInv, Patience = "quiet", \A r \in Req : AtRest(r),
                      NEW r \in Req
               PROVE  /\ procs[r].state = "open" => phase[r] = "dropped"
                      /\ r \in columns => output[r] = Null
                      /\ logins[r].state # "live"
    BY DEF NoLeak
  <2>1. phase[r] \in {"idle", "answered", "dropped"}
    BY HandleTypes DEF IInv, AtRest, Waiting, Phases
  <2>2. procs[r].state = "open" => phase[r] = "dropped"
    BY <2>1 DEF HandlesInv, OpenWhileNeeded
  <2>3. r \in columns => output[r] = Null
    BY DEF HandlesInv, ColumnsUsed, AtRest
  <2>4. logins[r].state # "live"
    BY DEF HandlesInv, QuietInv, LoginHeld, AtRest
  <2> QED
    BY <2>2, <2>3, <2>4
<1> QED
  BY <1>1, HandlesAlways, PTL

\* However requests overlap, a request that fails to connect is dropped only
\* after its alert was shown.
THEOREM NoSilentFailure == Spec => DroppedWithAlert
<1>1. IInv /\ HandlesInv /\ [Next]_vars =>
         [\A r \in Req : (phase'[r] = "dropped" /\ phase[r] # "dropped" /\ ~ConnectDone)
             => r \in alerted]_vars
  <2> SUFFICES ASSUME IInv, HandlesInv, Next, NEW r \in Req, phase'[r] = "dropped",
                      phase[r] # "dropped", ~ConnectDone
               PROVE  r \in alerted
    OBVIOUS
  <2>1. CASE UserStep
    BY <2>1, AskMoves, HandleTypes DEF IInv, UserStep, Newcomer
  <2>2. CASE ClientStep
    BY <2>2 DEF ClientStep, connVars
  <2>3. CASE Main
    <3>1. r = NextReq /\ 1 \in 1..Len(queue) /\ Head(queue) = queue[1]
      BY <2>3, MainMoves DEF IInv
    <3>2. ConnectFailed
      BY <2>3, <3>1, HandleTypes DEF IInv, Main, ErrorAlert, Deliver
    <3>3. queue[1].kind = "failed" /\ queue[1].req = r
      BY <3>1, <3>2 DEF ConnectFailed, Next1, NextReq
    <3> QED
      BY <3>1, <3>3 DEF HandlesInv, Alerted
  <2> QED
    BY <2>1, <2>2, <2>3 DEF Next
<1> QED
  BY <1>1, HandlesAlways, PTL DEF Spec, DroppedWithAlert

\* A user who waits for answers has no connection closed but the one whose
\* answer is being delivered, although disconnect closes what `connection` holds.
THEOREM ClosesItsOwn == Spec => ClosesOwn
<1>1. IInv /\ [Next]_vars =>
         [Patience # "none" =>
             \A p \in Req : (procs[p].state = "open" /\ procs'[p].state = "closed")
                 => /\ Len(delivered') = Len(delivered) + 1
                    /\ delivered'[Len(delivered')].req = p]_vars
  <2> SUFFICES ASSUME IInv, Next, Patience # "none", NEW p \in Req,
                      procs[p].state = "open", procs'[p].state = "closed"
               PROVE  /\ Len(delivered') = Len(delivered) + 1
                      /\ delivered'[Len(delivered')].req = p
    OBVIOUS
  <2>1. CASE UserStep
    BY <2>1, AskMoves DEF IInv, UserStep, Newcomer
  <2>2. CASE ClientStep
    BY <2>2, WorkerOpens DEF IInv, ClientStep
  <2>3. CASE Main
    <3>1. Deliver
      BY <2>3 DEF Main, ErrorAlert, ConnectFailed, ConnectDone
    <3>2. p = NextReq
      BY <3>1, DeliverCloses
    <3> QED
      BY <3>1, <3>2, DeliverFacts DEF IInv
  <2> QED
    BY <2>1, <2>2, <2>3 DEF Next
<1> QED
  BY <1>1, Invariant, PTL DEF Spec, ClosesOwn
=============================================================================
