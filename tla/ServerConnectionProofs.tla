------------------------ MODULE ServerConnectionProofs ------------------------
(***************************************************************************)
(* Proofs about ServerConnection, for every set of requests, screens,      *)
(* signals and targets, every Patience and every bound on the tables.      *)
(*                                                                         *)
(* The queue lemmas come first: what a step does to Expected and Single    *)
(* when it leaves the queue alone, appends the completion of its request,  *)
(* or takes the head.  Then one lemma per action for CommonInv, and one    *)
(* per action for WaitingInv.                                              *)
(***************************************************************************)
EXTENDS ServerConnectionInv, SequenceTheorems, TLAPS

\* No completion of r waits in the main queue.
Silent(r) == \A i \in 1..Len(queue) : queue[i].req = r => queue[i].kind = "error"

\* The step moves the blocks of r only, and not back before their completion.
Moves(r) ==
    /\ phase' = phase
    /\ \A q \in Req \ {r} : cpc'[q] = cpc[q] /\ epc'[q] = epc[q]
    /\ cpc[r] \in Tail1 => cpc'[r] \in Tail1
    /\ epc[r] \in Tail2 => epc'[r] \in Tail2

LEMMA QueueElements ==
    ASSUME CommonInv
    PROVE  /\ queue \in Seq(Blocks)
           /\ Len(queue) \in Nat
           /\ \A i \in 1..Len(queue) : queue[i] \in Blocks /\ queue[i].req \in Req
<1>1. queue \in Seq(Blocks)
  BY DEF CommonInv, TypeOK, ClientTypeOK
<1>2. Len(queue) \in Nat
  BY <1>1, LenProperties
<1>3. ASSUME NEW i \in 1..Len(queue) PROVE queue[i] \in Blocks /\ queue[i].req \in Req
  <2>1. queue[i] \in Blocks
    BY <1>1, ElementOfSeq
  <2> QED
    BY <2>1 DEF Blocks
<1> QED
  BY <1>1, <1>2, <1>3

LEMMA DeliveredElements ==
    ASSUME CommonInv
    PROVE  /\ delivered \in Seq(Answers)
           /\ Len(delivered) \in Nat
           /\ \A i \in 1..Len(delivered) : delivered[i].req \in Req
<1>1. delivered \in Seq(Answers)
  BY DEF CommonInv, TypeOK
<1>2. Len(delivered) \in Nat
  BY <1>1, LenProperties
<1>3. ASSUME NEW i \in 1..Len(delivered) PROVE delivered[i].req \in Req
  <2>1. delivered[i] \in Answers
    BY <1>1, ElementOfSeq
  <2> QED
    BY <2>1 DEF Answers
<1> QED
  BY <1>1, <1>2, <1>3

LEMMA QueueAppends ==
    ASSUME CommonInv, NEW r \in Req,
           NEW k \in {"error", "failed", "connected", "executed"},
           queue' = Append(queue, Block(k, r))
    PROVE  /\ queue' \in Seq(Blocks)
           /\ Len(queue') = Len(queue) + 1
           /\ \A i \in 1..Len(queue) : queue'[i] = queue[i]
           /\ queue'[Len(queue) + 1] = Block(k, r)
<1>1. queue \in Seq(Blocks)
  BY QueueElements
<1>2. Block(k, r) \in Blocks
  BY DEF Block, Blocks
<1> QED
  BY <1>1, <1>2, AppendProperties

LEMMA SilentConnect ==
    ASSUME CommonInv, NEW r \in Req, cpc[r] \notin Tail1
    PROVE  Silent(r)
<1> SUFFICES ASSUME NEW i \in 1..Len(queue), queue[i].req = r
             PROVE  queue[i].kind = "error"
  BY DEF Silent
<1>1. queue[i] \in Blocks
  BY QueueElements
<1>2. epc[r] \notin Tail2 \/ phase[r] # "executing"
  BY DEF CommonInv, Progress
<1> QED
  BY <1>1, <1>2 DEF CommonInv, Expected, Blocks

LEMMA SilentExecute ==
    ASSUME CommonInv, NEW r \in Req, epc[r] \in Executing
    PROVE  Silent(r) /\ phase[r] = "executing" /\ cpc[r] \in Tail1
<1>1. phase[r] = "executing"
  BY DEF CommonInv, TypeOK, ClientTypeOK, Phases, Progress, Executing, Tail2
<1>2. Silent(r)
  <2> SUFFICES ASSUME NEW i \in 1..Len(queue), queue[i].req = r
               PROVE  queue[i].kind = "error"
    BY DEF Silent
  <2>1. queue[i] \in Blocks
    BY QueueElements
  <2> QED
    BY <1>1, <2>1 DEF CommonInv, Expected, Blocks, Executing, Tail2
<1> QED
  BY <1>1, <1>2 DEF CommonInv, Progress

LEMMA QueueStays ==
    ASSUME CommonInv, NEW r \in Req, Moves(r), queue' = queue
    PROVE  (Expected /\ Single)'
<1>1. \A i \in 1..Len(queue) : queue[i].req \in Req
  BY QueueElements
<1>2. Expected'
  <2> SUFFICES ASSUME NEW i \in 1..Len(queue)
               PROVE  LET q == queue[i].req IN
                      /\ queue[i].kind \in {"failed", "connected"}
                            => phase'[q] = "connecting" /\ cpc'[q] \in Tail1
                      /\ queue[i].kind = "executed"
                            => phase'[q] = "executing" /\ epc'[q] \in Tail2
    BY DEF Expected
  <2> QED
    BY <1>1 DEF CommonInv, Expected, Moves
<1>3. Single'
  BY DEF CommonInv, Single
<1> QED
  BY <1>2, <1>3

LEMMA QueueAlerts ==
    ASSUME CommonInv, NEW r \in Req, Moves(r),
           queue' = Append(queue, Block("error", r))
    PROVE  (Expected /\ Single)' /\ queue' \in Seq(Blocks)
<1>1. Len(queue) \in Nat
  BY QueueElements
<1>2. /\ Len(queue') = Len(queue) + 1
      /\ \A i \in 1..Len(queue) : queue'[i] = queue[i] /\ queue[i].req \in Req
      /\ queue'[Len(queue) + 1].kind = "error"
      /\ queue' \in Seq(Blocks)
  <2>1. queue'[Len(queue) + 1] = Block("error", r)
    BY QueueAppends
  <2>2. queue' \in Seq(Blocks) /\ Len(queue') = Len(queue) + 1
    BY QueueAppends
  <2>3. \A i \in 1..Len(queue) : queue'[i] = queue[i]
    BY QueueAppends
  <2> QED
    BY <2>1, <2>2, <2>3, QueueElements DEF Block
<1>3. Expected'
  <2> SUFFICES ASSUME NEW i \in 1..Len(queue'), queue'[i].kind # "error"
               PROVE  LET q == queue'[i].req IN
                      /\ queue'[i].kind \in {"failed", "connected"}
                            => phase'[q] = "connecting" /\ cpc'[q] \in Tail1
                      /\ queue'[i].kind = "executed"
                            => phase'[q] = "executing" /\ epc'[q] \in Tail2
    BY DEF Expected
  <2>1. i \in 1..Len(queue)
    BY <1>1, <1>2
  <2> QED
    BY <1>2, <2>1 DEF CommonInv, Expected, Moves
<1>4. Single'
  BY <1>1, <1>2 DEF CommonInv, Single
<1> QED
  BY <1>1, <1>2, <1>3, <1>4

\* r's block has queued the completion k, after an alert or without one.
Completes(k, r) ==
    /\ queue' \in Seq(Blocks)
    /\ Len(queue') > Len(queue)
    /\ \A i \in 1..Len(queue) : queue'[i] = queue[i]
    /\ \A i \in 1..Len(queue') : i > Len(queue) /\ i < Len(queue')
                                  => queue'[i].kind = "error"
    /\ queue'[Len(queue')] = Block(k, r)

LEMMA AppendCompletes ==
    ASSUME CommonInv, NEW r \in Req, NEW k \in {"failed", "connected", "executed"},
           queue' = Append(queue, Block(k, r)) \/ queue' = Failure(k, r)
    PROVE  Completes(k, r)
<1>1. queue \in Seq(Blocks) /\ Len(queue) \in Nat
  BY QueueElements
<1>2. CASE queue' = Append(queue, Block(k, r))
  <2>1. queue' \in Seq(Blocks) /\ Len(queue') = Len(queue) + 1
    BY <1>2, QueueAppends
  <2>2. \A i \in 1..Len(queue) : queue'[i] = queue[i]
    BY <1>2, QueueAppends
  <2>3. queue'[Len(queue) + 1] = Block(k, r)
    BY <1>2, QueueAppends
  <2> QED
    BY <1>1, <2>1, <2>2, <2>3 DEF Completes
<1>3. CASE queue' = Failure(k, r)
  <2> DEFINE q == Append(queue, Block("error", r))
  <2>1. Block("error", r) \in Blocks /\ Block(k, r) \in Blocks
    BY DEF Block, Blocks
  <2>2. /\ q \in Seq(Blocks) /\ Len(q) = Len(queue) + 1
        /\ \A i \in 1..Len(queue) : q[i] = queue[i]
        /\ q[Len(queue) + 1] = Block("error", r)
    BY <1>1, <2>1, AppendProperties
  <2> HIDE DEF q
  <2>3. /\ Append(q, Block(k, r)) \in Seq(Blocks)
        /\ Len(Append(q, Block(k, r))) = Len(q) + 1
        /\ \A i \in 1..Len(q) : Append(q, Block(k, r))[i] = q[i]
        /\ Append(q, Block(k, r))[Len(q) + 1] = Block(k, r)
    BY <2>1, <2>2, AppendProperties
  <2>4. queue' = Append(q, Block(k, r))
    BY <1>3 DEF Failure, q
  <2>5. Len(queue') = Len(queue) + 2 /\ queue' \in Seq(Blocks)
    BY <1>1, <2>2, <2>3, <2>4
  <2>6. \A i \in 1..Len(queue) : queue'[i] = queue[i]
    BY <1>1, <2>2, <2>3, <2>4
  <2>7. queue'[Len(queue) + 1] = Block("error", r)
    BY <1>1, <2>2, <2>3, <2>4
  <2>8. queue'[Len(queue) + 2] = Block(k, r)
    BY <1>1, <2>2, <2>3, <2>4
  <2>9. \A i \in 1..Len(queue') : i > Len(queue) /\ i < Len(queue') => queue'[i].kind = "error"
    BY <1>1, <2>5, <2>7 DEF Block
  <2> QED
    BY <1>1, <2>5, <2>6, <2>8, <2>9 DEF Completes
<1> QED
  BY <1>2, <1>3

LEMMA QueueCompletes ==
    ASSUME CommonInv, NEW r \in Req, Moves(r), Silent(r),
           NEW k \in {"failed", "connected", "executed"},
           k # "executed" => phase[r] = "connecting" /\ cpc'[r] \in Tail1,
           k = "executed" => phase[r] = "executing" /\ epc'[r] \in Tail2,
           Completes(k, r)
    PROVE  (Expected /\ Single)'
<1>1. Len(queue) \in Nat /\ Len(queue') \in Nat
  BY QueueElements, LenProperties DEF Completes
<1>2. \A i \in 1..Len(queue) : queue'[i] = queue[i] /\ queue[i].req \in Req
  BY QueueElements DEF Completes
<1>3. ASSUME NEW i \in 1..Len(queue'), queue'[i].kind # "error"
      PROVE  i \in 1..Len(queue) \/ i = Len(queue')
  BY <1>1, <1>3 DEF Completes
<1>4. Expected'
  <2> SUFFICES ASSUME NEW i \in 1..Len(queue'), queue'[i].kind # "error"
               PROVE  LET q == queue'[i].req IN
                      /\ queue'[i].kind \in {"failed", "connected"}
                            => phase'[q] = "connecting" /\ cpc'[q] \in Tail1
                      /\ queue'[i].kind = "executed"
                            => phase'[q] = "executing" /\ epc'[q] \in Tail2
    BY DEF Expected
  <2>1. CASE i \in 1..Len(queue)
    BY <1>2, <2>1 DEF CommonInv, Expected, Moves
  <2>2. CASE i = Len(queue')
    BY <2>2 DEF Block, Moves, Completes
  <2> QED
    BY <1>3, <2>1, <2>2
<1>5. Single'
  <2> SUFFICES ASSUME NEW i \in 1..Len(queue'), NEW j \in 1..Len(queue'),
                      queue'[i].kind # "error", queue'[j].kind # "error",
                      queue'[i].req = queue'[j].req
               PROVE  i = j
    BY DEF Single
  <2>1. CASE i \in 1..Len(queue) /\ j \in 1..Len(queue)
    BY <1>2, <2>1 DEF CommonInv, Single
  <2>2. CASE i = Len(queue') /\ j \in 1..Len(queue)
    BY <1>2, <2>2 DEF Silent, Block, Completes
  <2>3. CASE i \in 1..Len(queue) /\ j = Len(queue')
    BY <1>2, <2>3 DEF Silent, Block, Completes
  <2> QED
    BY <1>3, <2>1, <2>2, <2>3
<1> QED
  BY <1>4, <1>5

\* The main thread takes the head: what is left was there, one place later.
LEMMA QueuePops ==
    ASSUME CommonInv, queue # <<>>, queue' = Tail(queue)
    PROVE  /\ queue' \in Seq(Blocks) /\ Len(queue') \in Nat
           /\ Head(queue) \in Blocks /\ Head(queue).req \in Req
           /\ Head(queue) = queue[1] /\ 1 \in 1..Len(queue)
           /\ \A i \in 1..Len(queue') :
                 /\ i + 1 \in 1..Len(queue) /\ i + 1 # 1
                 /\ queue'[i] = queue[i + 1]
<1>1. queue \in Seq(Blocks) /\ Len(queue) \in Nat
  BY QueueElements
<1>2. /\ Head(queue) \in Blocks /\ Tail(queue) \in Seq(Blocks)
      /\ Len(Tail(queue)) = Len(queue) - 1
      /\ \A i \in 1..Len(Tail(queue)) : Tail(queue)[i] = queue[i + 1]
  BY <1>1, HeadTailProperties
<1>3. Len(queue) > 0 /\ Head(queue) = queue[1]
  BY <1>1, EmptySeq
<1>4. Head(queue).req \in Req
  BY <1>2 DEF Blocks
<1> QED
  BY <1>1, <1>2, <1>3, <1>4

-----------------------------------------------------------------------------
\* Updating one record of a function keeps its type.
LEMMA LoginUpdate ==
    ASSUME NEW f \in [Req -> LoginRecs], NEW h \in Req
    PROVE  /\ \A s \in {"none", "live", "freed"} :
                 [f EXCEPT ![h].state = s] \in [Req -> LoginRecs]
           /\ \A t \in Target \cup {Null} :
                 [f EXCEPT ![h].for = t] \in [Req -> LoginRecs]
  BY DEF LoginRecs

LEMMA ProcUpdate ==
    ASSUME NEW f \in [Req -> ProcRecs], NEW h \in Req
    PROVE  /\ \A s \in {"none", "opening", "open", "failed", "closed"} :
                 [f EXCEPT ![h].state = s] \in [Req -> ProcRecs]
           /\ \A t \in Target \cup {Null} :
                 [f EXCEPT ![h].db = t] \in [Req -> ProcRecs]
  BY DEF ProcRecs

\* What a worker step does to the types, its queue apart.
LEMMA WorkerTypes ==
    ASSUME CommonInv, NEW r \in Req, Worker(r), queue' \in Seq(Blocks)
    PROVE  ClientTypeOK'
<1>1. /\ params \in Target \cup {Null} /\ login \in Req \cup {Null}
      /\ connection \in Req \cup {Null}
      /\ logins \in [Req -> LoginRecs] /\ procs \in [Req -> ProcRecs]
  BY DEF CommonInv, TypeOK, ClientTypeOK, Handle
<1>2. ClientTypeOK
  BY DEF CommonInv, TypeOK
<1>3. CASE Login(r)
  <2>1. logins' \in [Req -> LoginRecs]
    <3>1. [logins EXCEPT ![r].state = "live"] \in [Req -> LoginRecs]
      BY <1>1, LoginUpdate
    <3> QED
      BY <1>1, <1>3, <3>1 DEF Login
  <2> QED
    BY <1>2, <1>3, <2>1 DEF Login, ConnectionFailure, ClientTypeOK, Handle
<1>4. CASE Populate(r)
  <2>1. logins' \in [Req -> LoginRecs]
    <3>1. CASE login = Null
      BY <1>1, <1>4, <3>1 DEF Populate
    <3>2. CASE login # Null
      <4>1. login \in Req
        BY <1>1, <3>2
      <4> QED
        BY <1>1, <1>4, <3>2, <4>1, LoginUpdate DEF Populate
    <3> QED
      BY <3>1, <3>2
  <2>2. faults' \subseteq Faults
    BY <1>2, <1>4 DEF Populate, Note, StaleLogin, Faults, ClientTypeOK
  <2> QED
    BY <1>2, <1>4, <2>1, <2>2 DEF Populate, ClientTypeOK
<1>5. CASE Dial(r)
  <2>1. login # Null => logins[login].for \in Target \cup {Null}
    BY <1>1 DEF LoginRecs
  <2>2. procs' \in [Req -> ProcRecs]
    BY <1>1, <1>5, <2>1 DEF Dial, ProcRecs
  <2>3. faults' \subseteq Faults
    BY <1>2, <1>5 DEF Dial, Note, StaleLogin, Faults, ClientTypeOK
  <2> QED
    BY <1>2, <1>5, <2>2, <2>3 DEF Dial, ClientTypeOK
<1>6. CASE Open(r)
  <2>1. procs' \in [Req -> ProcRecs]
    <3>1. /\ [procs EXCEPT ![r].state = "open"] \in [Req -> ProcRecs]
          /\ [procs EXCEPT ![r].state = "failed"] \in [Req -> ProcRecs]
      BY <1>1, ProcUpdate
    <3> QED
      BY <1>6, <3>1 DEF Open
  <2> QED
    BY <1>2, <1>6, <2>1 DEF Open, ConnectionFailure, ClientTypeOK, Handle
<1>7. CASE Use(r)
  <2>1. procs' \in [Req -> ProcRecs]
    <3>1. connection # Null =>
            [procs EXCEPT ![connection].db = params] \in [Req -> ProcRecs]
      <4>1. connection # Null => connection \in Req
        BY <1>1
      <4> QED
        BY <1>1, <4>1, ProcUpdate
    <3> QED
      BY <1>1, <1>7, <3>1 DEF Use
  <2>2. faults' \subseteq Faults
    BY <1>2, <1>7 DEF Use, Note, StaleCall, Faults, ClientTypeOK
  <2> QED
    BY <1>2, <1>7, <2>1, <2>2
    DEF Use, ConnectionFailure, ConnectionSuccess, ClientTypeOK
<1>8. CASE LoginFree(r)
  <2>1. logins' \in [Req -> LoginRecs]
    <3>1. CASE login = Null
      BY <1>1, <1>8, <3>1 DEF LoginFree
    <3>2. CASE login # Null
      <4>1. login \in Req
        BY <1>1, <3>2
      <4>2. [logins EXCEPT ![login].state = "freed"] \in [Req -> LoginRecs]
        BY <1>1, <4>1, LoginUpdate
      <4> QED
        BY <1>8, <3>2, <4>2 DEF LoginFree
    <3> QED
      BY <3>1, <3>2
  <2>2. faults' \subseteq Faults
    BY <1>2, <1>8 DEF LoginFree, Note, Faults, ClientTypeOK
  <2> QED
    BY <1>2, <1>8, <2>1, <2>2 DEF LoginFree, ClientTypeOK
<1>9. ASSUME Call(r)
      PROVE  /\ faults' \subseteq Faults
             /\ via' \in [Req -> SUBSET Handle]
  BY <1>1, <1>2, <1>9 DEF Call, Note, StaleCall, SharedProcess, Faults, ClientTypeOK, Handle
<1>10. CASE Cmd(r)
  BY <1>2, <1>9, <1>10 DEF Cmd, Call, ClientTypeOK, Executing
<1>11. CASE SqlExec(r)
  BY <1>2, <1>9, <1>11 DEF SqlExec, Call, ExecutionFailure, ClientTypeOK, Executing
<1>12. CASE NextResult(r)
  BY <1>2, <1>9, <1>12 DEF NextResult, Call, ExecutionFailure, ClientTypeOK, Executing
<1>13. CASE RowsFail(r)
  BY <1>2, <1>9, <1>13 DEF RowsFail, Call, ExecutionFailure, ClientTypeOK, Executing
<1>14. CASE RowsDone(r)
  <2>1. output[r] \in 0..MaxTables
    BY <1>14 DEF CommonInv, OutputOK, RowsDone, Executing
  <2>2. output[r] + 1 \in 0..MaxTables
    BY <1>14, <2>1, TablesAssumption DEF RowsDone
  <2> QED
    BY <1>2, <1>9, <1>14, <2>2 DEF RowsDone, Call, ClientTypeOK, Executing
<1>15. CASE NoMoreResults(r)
  BY <1>2, <1>9, <1>15 DEF NoMoreResults, Call, ClientTypeOK, Executing
<1>16. CASE FreeBuf(r)
  <2>1. faults' \subseteq Faults
    BY <1>2, <1>16 DEF FreeBuf, Note, SharedProcess, Faults, ClientTypeOK
  <2> QED
    BY <1>2, <1>16, <2>1 DEF FreeBuf, ClientTypeOK
<1> QED
  BY <1>3, <1>4, <1>5, <1>6, <1>7, <1>8, <1>10, <1>11, <1>12, <1>13, <1>14,
     <1>15, <1>16 DEF Worker, ConnectStep, ExecuteStep

-----------------------------------------------------------------------------
\* Worker steps keep CommonInv: the blocks of r move on, and r's completion is
\* queued in the one step after which r's block only cleans up.
LEMMA ConnectQueue ==
    ASSUME CommonInv, NEW r \in Req, ConnectStep(r), UNCHANGED connVars
    PROVE  Moves(r) /\ (Expected /\ Single)' /\ queue' \in Seq(Blocks)
<1>1. cpc \in [Req -> {"idle", "login", "populate", "dial", "open", "use",
                       "loginfree", "done"}]
  BY DEF CommonInv, TypeOK, ClientTypeOK
<1>2. Moves(r)
  BY <1>1 DEF Moves, ConnectStep, Login, Populate, Dial, Open, Use, LoginFree,
              ConnectionFailure, ConnectionSuccess, Tail1, Tail2, connVars
<1>3. CASE queue' = queue
  BY <1>2, <1>3, QueueStays, QueueElements
<1>4. CASE queue' # queue
  <2>1. cpc[r] \in {"login", "open", "use"} /\ cpc'[r] = "loginfree"
    BY <1>1, <1>4 DEF ConnectStep, Login, Populate, Dial, Open, Use, LoginFree,
                      ConnectionFailure, ConnectionSuccess
  <2>2. PICK k \in {"failed", "connected"} :
           queue' = Append(queue, Block(k, r)) \/ queue' = Failure(k, r)
    BY <1>4 DEF ConnectStep, Login, Populate, Dial, Open, Use, LoginFree,
                ConnectionFailure, ConnectionSuccess
  <2>3. cpc[r] \notin Tail1 /\ cpc[r] # "idle" /\ cpc'[r] \in Tail1
    BY <2>1 DEF Tail1
  <2>4. phase[r] = "connecting"
    BY <2>3 DEF CommonInv, TypeOK, Phases, Progress
  <2>5. Silent(r)
    BY <2>3, SilentConnect
  <2>6. Completes(k, r)
    BY <2>2, AppendCompletes
  <2>7. (Expected /\ Single)'
    BY <1>2, <2>3, <2>4, <2>5, <2>6, QueueCompletes
  <2> QED
    BY <1>2, <2>6, <2>7 DEF Completes
<1> QED
  BY <1>3, <1>4

LEMMA ExecuteQueue ==
    ASSUME CommonInv, NEW r \in Req, ExecuteStep(r), UNCHANGED connVars
    PROVE  Moves(r) /\ (Expected /\ Single)' /\ queue' \in Seq(Blocks)
<1>1. epc \in [Req -> Executing \cup {"idle", "freebuf", "done"}]
  BY DEF CommonInv, TypeOK, ClientTypeOK
<1>2. Moves(r)
  BY <1>1 DEF Moves, ExecuteStep, Cmd, SqlExec, NextResult, RowsFail, RowsDone,
              NoMoreResults, FreeBuf, Call, ExecutionFailure, Executing, Tail1,
              Tail2, connVars
<1>3. CASE queue' = queue
  BY <1>2, <1>3, QueueStays, QueueElements
<1>4. CASE queue' = Append(queue, Block("error", r))
  BY <1>2, <1>4, QueueAlerts
<1>5. CASE /\ epc[r] \in Executing /\ epc'[r] = "freebuf"
           /\ \/ queue' = Append(queue, Block("executed", r))
              \/ queue' = Failure("executed", r)
  <2>1. Silent(r) /\ phase[r] = "executing" /\ epc'[r] \in Tail2
    BY <1>5, SilentExecute DEF Tail2
  <2>2. Completes("executed", r)
    BY <1>5, AppendCompletes
  <2>3. (Expected /\ Single)'
    BY <1>2, <2>1, <2>2, QueueCompletes
  <2> QED
    BY <1>2, <2>2, <2>3 DEF Completes
<1> QED
  <2>1. CASE Cmd(r) \/ RowsDone(r) \/ FreeBuf(r)
    BY <1>3, <2>1 DEF Cmd, RowsDone, FreeBuf
  <2>2. CASE SqlExec(r)
    BY <1>1, <1>3, <1>5, <2>2 DEF SqlExec, ExecutionFailure, Executing
  <2>3. CASE NextResult(r)
    BY <1>1, <1>3, <1>4, <1>5, <2>3 DEF NextResult, ExecutionFailure, Executing
  <2>4. CASE RowsFail(r)
    BY <1>1, <1>5, <2>4 DEF RowsFail, ExecutionFailure, Executing
  <2>5. CASE NoMoreResults(r)
    BY <1>1, <1>5, <2>5 DEF NoMoreResults, Executing
  <2> QED
    BY <2>1, <2>2, <2>3, <2>4, <2>5 DEF ExecuteStep

LEMMA WorkerCommon ==
    ASSUME CommonInv, NEW r \in Req, Worker(r), UNCHANGED connVars
    PROVE  CommonInv'
<1>1. Moves(r) /\ Expected' /\ Single' /\ queue' \in Seq(Blocks)
  BY ConnectQueue, ExecuteQueue DEF Worker
<1>2. TypeOK'
  <2>1. ClientTypeOK'
    BY <1>1, WorkerTypes
  <2> QED
    BY <2>1 DEF CommonInv, TypeOK, connVars
<1>3. /\ cpc \in [Req -> {"idle", "login", "populate", "dial", "open", "use",
                          "loginfree", "done"}]
      /\ epc \in [Req -> Executing \cup {"idle", "freebuf", "done"}]
      /\ output \in [Req -> 0..MaxTables \cup {Null}]
      /\ phase \in [Req -> Phases]
  BY DEF CommonInv, TypeOK, ClientTypeOK
<1>4. OutputOK'
  <2>1. CASE ConnectStep(r)
    BY <2>1 DEF ConnectStep, Login, Populate, Dial, Open, Use, LoginFree,
                CommonInv, OutputOK
  <2>2. CASE ExecuteStep(r)
    <3>1. CASE RowsDone(r)
      <4>1. output[r] \in 0..MaxTables /\ output[r] < MaxTables
        BY <3>1 DEF CommonInv, OutputOK, RowsDone, Executing
      <4>2. output[r] + 1 \in 0..MaxTables
        BY <4>1, TablesAssumption
      <4> QED
        BY <1>3, <3>1, <4>2 DEF CommonInv, OutputOK, RowsDone, Executing
    <3>2. CASE Cmd(r) \/ NoMoreResults(r) \/ FreeBuf(r)
      BY <1>3, <3>2 DEF Cmd, NoMoreResults, FreeBuf, CommonInv, OutputOK, Executing
    <3>3. CASE SqlExec(r) \/ NextResult(r) \/ RowsFail(r)
      BY <1>3, <3>3 DEF SqlExec, NextResult, RowsFail, ExecutionFailure,
                        CommonInv, OutputOK, Executing
    <3> QED
      BY <2>2, <3>1, <3>2, <3>3 DEF ExecuteStep
  <2> QED
    BY <2>1, <2>2 DEF Worker
<1>5. Progress'
  <2>1. CASE ConnectStep(r)
    BY <1>3, <2>1 DEF ConnectStep, Login, Populate, Dial, Open, Use, LoginFree,
                ConnectionFailure, ConnectionSuccess, CommonInv, Progress, Phases,
                Tail1, connVars
  <2>2. CASE ExecuteStep(r)
    BY <1>3, <2>2 DEF ExecuteStep, Cmd, SqlExec, NextResult, RowsFail, RowsDone,
                NoMoreResults, FreeBuf, Call, ExecutionFailure, CommonInv,
                Progress, Phases, Executing, Tail2, connVars
  <2> QED
    BY <2>1, <2>2 DEF Worker
<1>6. OneAnswer'
  BY DEF CommonInv, OneAnswer, connVars
<1> QED
  BY <1>1, <1>2, <1>4, <1>5, <1>6 DEF CommonInv

LEMMA InitCommon == Init => CommonInv
<1> SUFFICES ASSUME Init PROVE CommonInv
  OBVIOUS
<1>1. /\ queue = <<>> /\ delivered = <<>> /\ Len(queue) = 0 /\ Len(delivered) = 0
      /\ queue \in Seq(Blocks) /\ delivered \in Seq(Answers)
  BY EmptySeq DEF Init, InitClient
<1>2. ClientTypeOK
  BY <1>1, TablesAssumption
  DEF Init, InitClient, ClientTypeOK, NoLogin, NoProc, LoginRecs, ProcRecs, Handle
<1>3. m_resultArray \in Arrays
  BY TablesAssumption DEF Init, Array, Arrays, Handle
<1>6. asked \in [Req -> Questions]
  <2>1. NobodyAsked \in Questions
    BY DEF NobodyAsked, Questions
  <2> QED
    BY <2>1 DEF Init
<1>7. TypeOK
  BY <1>1, <1>2, <1>3, <1>6 DEF Init, TypeOK, Phases
<1>4. OutputOK /\ Progress
  BY TablesAssumption DEF Init, InitClient, OutputOK, Progress, Executing
<1>5. Expected /\ Single /\ OneAnswer
  BY <1>1 DEF Expected, Single, OneAnswer
<1> QED
  BY <1>7, <1>4, <1>5 DEF CommonInv

\* A request asked now has neither a completion in the queue nor an answer.
LEMMA AskCommon ==
    ASSUME CommonInv, NEW r \in Req, NEW who \in Screen, NEW sig \in Signal,
           NEW t \in Target, NEW m \in Method, Ask(r, who, sig, t, m)
    PROVE  CommonInv'
<1>1. /\ phase \in [Req -> Phases] /\ asked \in [Req -> Questions]
      /\ cpc \in [Req -> {"idle", "login", "populate", "dial", "open", "use",
                          "loginfree", "done"}]
  BY DEF CommonInv, TypeOK, ClientTypeOK
<1>2. TypeOK'
  BY <1>1 DEF CommonInv, TypeOK, ClientTypeOK, Ask, Address, Connect, Questions, Phases
<1>3. OutputOK' /\ Progress'
  BY <1>1 DEF CommonInv, OutputOK, Progress, Ask, Connect, Tail1
<1>4. \A i \in 1..Len(queue) : queue[i].req \in Req /\ queue[i] \in Blocks
  BY QueueElements
<1>5. Expected'
  <2> SUFFICES ASSUME NEW i \in 1..Len(queue)
               PROVE  LET q == queue[i].req IN
                      /\ queue[i].kind \in {"failed", "connected"}
                            => phase'[q] = "connecting" /\ cpc'[q] \in Tail1
                      /\ queue[i].kind = "executed"
                            => phase'[q] = "executing" /\ epc'[q] \in Tail2
    BY DEF Expected, Ask
  <2>1. CASE queue[i].req = r
    BY <1>4, <2>1 DEF CommonInv, Expected, Ask
  <2>2. CASE queue[i].req # r
    BY <1>1, <1>4, <2>2 DEF CommonInv, Expected, Ask, Connect
  <2> QED
    BY <2>1, <2>2
<1>6. Single'
  BY DEF CommonInv, Single, Ask
<1>7. OneAnswer'
  <2>1. \A i \in 1..Len(delivered) : phase'[delivered[i].req] = "answered"
    BY <1>1 DEF CommonInv, OneAnswer, Ask
  <2> QED
    BY <2>1 DEF CommonInv, OneAnswer, Ask
<1> QED
  BY <1>2, <1>3, <1>5, <1>6, <1>7 DEF CommonInv

\* The main thread takes the head of the queue, a block of n; the only request
\* the step touches is n, and no other completion of n is left behind.
LEMMA MainQueue ==
    ASSUME CommonInv, queue # <<>>, queue' = Tail(queue), cpc' = cpc,
           NEW n \in Req, n = NextReq,
           \A q \in Req \ {n} : phase'[q] = phase[q] /\ epc'[q] = epc[q],
           Head(queue).kind = "error" => phase' = phase /\ epc' = epc
    PROVE  (Expected /\ Single)' /\ queue' \in Seq(Blocks)
<1>1. /\ queue' \in Seq(Blocks) /\ Len(queue') \in Nat
      /\ 1 \in 1..Len(queue) /\ queue[1].req = n /\ queue[1] = Head(queue)
      /\ \A i \in 1..Len(queue') :
            /\ i + 1 \in 1..Len(queue) /\ i + 1 # 1
            /\ queue'[i] = queue[i + 1]
  BY QueuePops DEF NextReq
<1>2. \A i \in 1..Len(queue) : queue[i].req \in Req
  BY QueueElements
<1>3. Expected'
  <2> SUFFICES ASSUME NEW i \in 1..Len(queue'), queue'[i].kind # "error"
               PROVE  LET q == queue'[i].req IN
                      /\ queue'[i].kind \in {"failed", "connected"}
                            => phase'[q] = "connecting" /\ cpc'[q] \in Tail1
                      /\ queue'[i].kind = "executed"
                            => phase'[q] = "executing" /\ epc'[q] \in Tail2
    BY DEF Expected
  <2> DEFINE j == i + 1
  <2>1. j \in 1..Len(queue) /\ j # 1 /\ queue'[i] = queue[j] /\ queue[j].req \in Req
    BY <1>1, <1>2
  <2> HIDE DEF j
  <2>2. Head(queue).kind # "error" => queue[j].req # n
    BY <1>1, <2>1 DEF CommonInv, Single
  <2>3. phase'[queue[j].req] = phase[queue[j].req] /\ epc'[queue[j].req] = epc[queue[j].req]
    BY <2>1, <2>2
  <2> QED
    BY <2>1, <2>3 DEF CommonInv, Expected
<1>4. Single'
  BY <1>1 DEF CommonInv, Single
<1> QED
  BY <1>1, <1>3, <1>4

LEMMA AlertCommon == CommonInv /\ ErrorAlert => CommonInv'
<1> SUFFICES ASSUME CommonInv, ErrorAlert PROVE CommonInv'
  OBVIOUS
<1>1. NextReq \in Req
  BY QueuePops DEF ErrorAlert, Next1, NextReq
<1>2. Expected' /\ Single' /\ queue' \in Seq(Blocks)
  BY <1>1, MainQueue DEF ErrorAlert, Next1
<1>3. TypeOK'
  BY <1>1, <1>2 DEF CommonInv, TypeOK, ClientTypeOK, ErrorAlert
<1> QED
  BY <1>2, <1>3 DEF CommonInv, OutputOK, Progress, OneAnswer, ErrorAlert

LEMMA FailedCommon == CommonInv /\ ConnectFailed => CommonInv'
<1> SUFFICES ASSUME CommonInv, ConnectFailed PROVE CommonInv'
  OBVIOUS
<1>1. NextReq \in Req /\ Head(queue) = queue[1] /\ 1 \in 1..Len(queue)
  BY QueuePops DEF ConnectFailed, Next1, NextReq
<1>2. phase \in [Req -> Phases]
  BY DEF CommonInv, TypeOK
<1>3. phase[NextReq] = "connecting" /\ cpc[NextReq] \in Tail1
  BY <1>1 DEF CommonInv, Expected, ConnectFailed, Next1, NextReq
<1>4. Expected' /\ Single' /\ queue' \in Seq(Blocks)
  BY <1>1, <1>2, MainQueue DEF ConnectFailed, Next1
<1>5. TypeOK'
  BY <1>1, <1>4 DEF CommonInv, TypeOK, ClientTypeOK, ConnectFailed, Phases
<1>6. OutputOK' /\ Progress'
  BY <1>1, <1>2, <1>3 DEF CommonInv, OutputOK, Progress, ConnectFailed
<1>7. OneAnswer'
  BY <1>1, <1>2, <1>3 DEF CommonInv, OneAnswer, ConnectFailed
<1> QED
  BY <1>4, <1>5, <1>6, <1>7 DEF CommonInv

LEMMA ConnectedCommon == CommonInv /\ ConnectDone => CommonInv'
<1> SUFFICES ASSUME CommonInv, ConnectDone PROVE CommonInv'
  OBVIOUS
<1>1. NextReq \in Req /\ Head(queue) = queue[1] /\ 1 \in 1..Len(queue)
  BY QueuePops DEF ConnectDone, Next1, NextReq
<1>2. /\ phase \in [Req -> Phases]
      /\ epc \in [Req -> Executing \cup {"idle", "freebuf", "done"}]
      /\ output \in [Req -> 0..MaxTables \cup {Null}]
  BY DEF CommonInv, TypeOK, ClientTypeOK
<1>3. phase[NextReq] = "connecting" /\ cpc[NextReq] \in Tail1 /\ epc[NextReq] = "idle"
  BY <1>1 DEF CommonInv, Expected, Progress, ConnectDone, Next1, NextReq
<1>4. \/ /\ epc' = [epc EXCEPT ![NextReq] = "cmd"]
         /\ phase' = [phase EXCEPT ![NextReq] = "executing"]
      \/ /\ epc' = epc
         /\ phase' = [phase EXCEPT ![NextReq] = "dropped"]
  BY DEF ConnectDone, Execute
<1>5. Expected' /\ Single' /\ queue' \in Seq(Blocks)
  BY <1>1, <1>2, <1>4, MainQueue DEF ConnectDone, Next1
<1>6. faults' \subseteq Faults
  BY DEF CommonInv, TypeOK, ClientTypeOK, ConnectDone, Note, Faults
<1>7. TypeOK'
  BY <1>1, <1>2, <1>4, <1>5, <1>6
  DEF CommonInv, TypeOK, ClientTypeOK, ConnectDone, Phases, Executing
<1>8. Progress'
  BY <1>1, <1>2, <1>3, <1>4 DEF CommonInv, Progress, ConnectDone
<1>9. OutputOK'
  BY <1>1, <1>2, <1>3, <1>4 DEF CommonInv, OutputOK, Executing, ConnectDone
<1>10. OneAnswer'
  <2>1. \A i \in 1..Len(delivered) : phase'[delivered[i].req] = "answered"
    BY <1>1, <1>2, <1>3, <1>4, DeliveredElements DEF CommonInv, OneAnswer
  <2> QED
    BY <2>1 DEF CommonInv, OneAnswer, ConnectDone
<1> QED
  BY <1>5, <1>7, <1>8, <1>9, <1>10 DEF CommonInv

\* What the delegate gets is the array of the request, or a placeholder.
LEMMA ResultArrayIsOwn ==
    ASSUME NEW m, NEW r \in Req, NEW results \in 0..MaxTables \cup {Null},
           NEW rows \in BOOLEAN
    PROVE  /\ ResultArray(m, r, results, rows) \in Arrays
           /\ ResultArray(m, r, results, rows).of \in {r, Null}
<1>1. r # Null /\ Null \notin 0..MaxTables
  BY NullAssumption, TablesAssumption
<1>2. CASE results = Null /\ m = "list"
  <2>1. ResultArray(m, r, results, rows) = Array(Null, 0)
    BY <1>2 DEF ResultArray
  <2> QED
    BY <1>1, <2>1, TablesAssumption DEF Array, Arrays, Handle
<1>3. CASE results = Null /\ m # "list"
  BY <1>1, <1>3 DEF ResultArray, Array, Arrays, Handle
<1>4. CASE results # Null /\ m = "conf"
  BY <1>1, <1>4 DEF ResultArray, Array, Arrays, Handle
<1>5. CASE results # Null /\ m # "conf"
  BY <1>1, <1>5 DEF ResultArray, Array, Arrays, Handle
<1> QED
  BY <1>2, <1>3, <1>4, <1>5

LEMMA DeliverFacts ==
    ASSUME CommonInv, Deliver
    PROVE  /\ NextReq \in Req
           /\ phase[NextReq] = "executing" /\ epc[NextReq] \in Tail2
           /\ m_resultArray' \in Arrays
           /\ m_resultArray'.of \in {NextReq, Null}
           /\ m_resultArray'.of = NextReq => output[NextReq] # Null
           /\ Len(delivered') = Len(delivered) + 1
           /\ \A i \in 1..Len(delivered) : delivered'[i] = delivered[i]
           /\ delivered'[Len(delivered')] =
                 [req |-> NextReq, to |-> delegate, signal |-> signal_id,
                  array |-> m_resultArray']
           /\ delivered' \in Seq(Answers)
<1>1. NextReq \in Req /\ Head(queue) = queue[1] /\ 1 \in 1..Len(queue)
  BY QueuePops DEF Deliver, Next1, NextReq
<1>2. phase[NextReq] = "executing" /\ epc[NextReq] \in Tail2
  BY <1>1 DEF CommonInv, Expected, Deliver, Next1, NextReq
<1>3. output[NextReq] \in 0..MaxTables \cup {Null}
  BY <1>1 DEF CommonInv, TypeOK, ClientTypeOK
<1>4. PICK rows \in BOOLEAN :
        m_resultArray' = ResultArray(asked[NextReq].method, NextReq, output[NextReq], rows)
  BY DEF Deliver
<1>5. /\ m_resultArray' \in Arrays
      /\ m_resultArray'.of \in {NextReq, Null}
      /\ m_resultArray'.of = NextReq => output[NextReq] # Null
  <2> DEFINE R == ResultArray(asked[NextReq].method, NextReq, output[NextReq], rows)
  <2>1. R \in Arrays /\ R.of \in {NextReq, Null}
    BY <1>1, <1>3, ResultArrayIsOwn
  <2>2. output[NextReq] = Null => R.of = Null
    BY DEF ResultArray, Array
  <2>3. NextReq # Null
    BY <1>1, NullAssumption
  <2> QED
    BY <1>4, <2>1, <2>2, <2>3
<1> DEFINE a == [req |-> NextReq, to |-> delegate, signal |-> signal_id,
                 array |-> m_resultArray']
<1>6. a \in Answers
  BY <1>1, <1>5 DEF CommonInv, TypeOK, Answers
<1>7. delivered' = Append(delivered, a)
  BY DEF Deliver
<1>8. delivered \in Seq(Answers)
  BY DeliveredElements
<1> HIDE DEF a
<1>9. /\ delivered' \in Seq(Answers)
      /\ Len(delivered') = Len(delivered) + 1
      /\ \A i \in 1..Len(delivered) : delivered'[i] = delivered[i]
      /\ delivered'[Len(delivered) + 1] = a
  BY <1>6, <1>7, <1>8, AppendProperties
<1> QED
  BY <1>1, <1>2, <1>5, <1>9 DEF a

LEMMA DeliverCommon == CommonInv /\ Deliver => CommonInv'
<1> SUFFICES ASSUME CommonInv, Deliver PROVE CommonInv'
  OBVIOUS
<1>1. NextReq \in Req /\ phase[NextReq] = "executing" /\ epc[NextReq] \in Tail2
  BY DeliverFacts
<1>2. phase \in [Req -> Phases] /\ phase' = [phase EXCEPT ![NextReq] = "answered"]
  BY DEF CommonInv, TypeOK, Deliver
<1>3. Expected' /\ Single' /\ queue' \in Seq(Blocks)
  BY <1>1, <1>2, MainQueue DEF Deliver, Next1
<1>4. TypeOK'
  <2>1. /\ procs \in [Req -> ProcRecs] /\ faults \subseteq Faults
        /\ connection \in Req \cup {Null}
    BY DEF CommonInv, TypeOK, ClientTypeOK, Handle
  <2>2. procs' \in [Req -> ProcRecs]
    <3>1. CASE connection = Null
      BY <2>1, <3>1 DEF Deliver, Disconnect
    <3>2. CASE connection # Null
      <4>1. connection \in Req
        BY <2>1, <3>2
      <4>2. [procs EXCEPT ![connection].state = "closed"] \in [Req -> ProcRecs]
        BY <2>1, <4>1, ProcUpdate
      <4> QED
        BY <3>2, <4>2 DEF Deliver, Disconnect
    <3> QED
      BY <3>1, <3>2
  <2>3. faults' \subseteq Faults
    BY <2>1 DEF Deliver, Disconnect, Note, Faults
  <2>4. ClientTypeOK'
    BY <1>3, <2>2, <2>3 DEF CommonInv, TypeOK, ClientTypeOK, Deliver
  <2>5. m_resultArray' \in Arrays /\ delivered' \in Seq(Answers)
    BY DeliverFacts
  <2> QED
    BY <1>1, <1>2, <2>4, <2>5 DEF CommonInv, TypeOK, Deliver, Phases
<1>5. OutputOK' /\ Progress'
  BY <1>1, <1>2 DEF CommonInv, OutputOK, Progress, Deliver
<1>6. OneAnswer'
  <2>1. /\ Len(delivered) \in Nat
        /\ Len(delivered') = Len(delivered) + 1
        /\ \A i \in 1..Len(delivered) : delivered'[i] = delivered[i]
        /\ delivered'[Len(delivered')].req = NextReq
        /\ delivered'[Len(delivered')].array.of \in {NextReq, Null}
    BY DeliverFacts, DeliveredElements
  <2>2. \A i \in 1..Len(delivered) :
          /\ delivered[i].req \in Req /\ delivered[i].req # NextReq
          /\ phase[delivered[i].req] = "answered"
    BY <1>1, DeliveredElements DEF CommonInv, OneAnswer
  <2>3. ASSUME NEW i \in 1..Len(delivered'), NEW j \in 1..Len(delivered'),
               delivered'[i].req = delivered'[j].req
        PROVE  i = j
    <3>1. CASE i \in 1..Len(delivered) /\ j \in 1..Len(delivered)
      BY <2>1, <2>3, <3>1 DEF CommonInv, OneAnswer
    <3>2. CASE i = Len(delivered') \/ j = Len(delivered')
      BY <2>1, <2>2, <2>3, <3>2
    <3> QED
      BY <2>1, <3>1, <3>2
  <2>4. ASSUME NEW i \in 1..Len(delivered')
        PROVE  /\ phase'[delivered'[i].req] = "answered"
               /\ delivered'[i].array.of \in {delivered'[i].req, Null}
    <3>1. CASE i \in 1..Len(delivered)
      BY <1>2, <2>1, <2>2, <3>1 DEF CommonInv, OneAnswer
    <3>2. CASE i = Len(delivered')
      BY <1>1, <1>2, <2>1, <3>2
    <3> QED
      BY <2>1, <3>1, <3>2
  <2> QED
    BY <2>3, <2>4 DEF OneAnswer
<1> QED
  BY <1>3, <1>4, <1>5, <1>6 DEF CommonInv

LEMMA CommonNext == CommonInv /\ [Next]_vars => CommonInv'
<1> SUFFICES ASSUME CommonInv, [Next]_vars PROVE CommonInv'
  OBVIOUS
<1>1. CASE UserStep
  BY <1>1, AskCommon DEF UserStep, Newcomer
<1>2. CASE ClientStep
  BY <1>2, WorkerCommon DEF ClientStep
<1>3. CASE Main
  BY <1>3, AlertCommon, FailedCommon, ConnectedCommon, DeliverCommon DEF Main
<1>4. CASE UNCHANGED vars
  BY <1>4 DEF vars, clientVars, connVars, CommonInv, TypeOK, ClientTypeOK,
              OutputOK, Progress, Expected, Single, OneAnswer
<1> QED
  BY <1>1, <1>2, <1>3, <1>4 DEF Next

\* What holds however requests overlap: each waits for at most one completion,
\* which its own worker block has queued.
THEOREM CommonInvariant == Spec => []CommonInv
<1>1. Init => CommonInv
  BY InitCommon
<1>2. CommonInv /\ [Next]_vars => CommonInv'
  BY CommonNext
<1> QED
  BY <1>1, <1>2, PTL DEF Spec

\* Every variable keeps its type.
THEOREM TypeCorrect == Spec => []TypeOK
  BY CommonInvariant, PTL DEF CommonInv

\* Whatever requests overlap, none is answered twice, after it was dropped, or
\* with another request's array.
THEOREM AnsweredOnce == Spec => []OneAnswer
  BY CommonInvariant, PTL DEF CommonInv

-----------------------------------------------------------------------------
(***************************************************************************)
(* A user who waits.                                                       *)
(***************************************************************************)
LEMMA InitWaiting == Init => WaitingInv
<1> SUFFICES ASSUME Init PROVE WaitingInv
  OBVIOUS
<1>1. Len(queue) = 0 /\ Len(delivered) = 0
  BY EmptySeq DEF Init, InitClient
<1>2. Alone /\ Addressed /\ OwnLogin /\ OwnProcess /\ OwnCalls
  BY DEF Init, InitClient, Alone, Addressed, OwnLogin, OwnProcess, OwnCalls, Waiting
<1>3. OwnCompletion /\ RightRequester /\ OwnServer
  BY <1>1 DEF OwnCompletion, RightRequester, OwnServer
<1> QED
  BY <1>2, <1>3 DEF WaitingInv

\* The answers given so far stay right when the step leaves alone what they
\* were asked for and how they were obtained.
LEMMA AnswersStay ==
    ASSUME IInv, delivered' = delivered,
           \A q \in Req : phase[q] = "answered" =>
               /\ asked'[q] = asked[q] /\ via'[q] = via[q]
               /\ procs'[q].user = procs[q].user /\ procs'[q].host = procs[q].host
               /\ procs'[q].db = procs[q].db
    PROVE  (RightRequester /\ OwnServer)'
<1> SUFFICES ASSUME Patience # "none" PROVE (RightRequester /\ OwnServer)'
  BY DEF RightRequester, OwnServer
<1>1. RightRequester /\ OwnServer
  BY DEF IInv, WaitingInv
<1>2. \A i \in 1..Len(delivered) :
        delivered[i].req \in Req /\ phase[delivered[i].req] = "answered"
  BY DeliveredElements DEF IInv, CommonInv, OneAnswer
<1>3. RightRequester'
  BY <1>1, <1>2 DEF RightRequester
<1>4. OwnServer'
  <2> SUFFICES ASSUME NEW i \in 1..Len(delivered), NEW r \in Req,
                      r = delivered[i].req, delivered[i].array.of = r
               PROVE  via'[r] = {r} /\ Told(r)' /\ procs'[r].db = asked'[r].target
    BY <1>2 DEF OwnServer, Told
  <2>1. via[r] = {r} /\ Told(r) /\ procs[r].db = asked[r].target
    BY <1>1 DEF OwnServer
  <2>2. phase[r] = "answered"
    BY <1>2
  <2> QED
    BY <2>1, <2>2 DEF Told
<1> QED
  BY <1>3, <1>4

LEMMA AskWaiting ==
    ASSUME IInv, NEW r \in Req, NEW who \in Screen, NEW sig \in Signal,
           NEW t \in Target, NEW m \in Method, Ask(r, who, sig, t, m),
           Patience # "none"
    PROVE  WaitingInv'
<1>1. /\ phase \in [Req -> Phases] /\ asked \in [Req -> Questions]
      /\ cpc \in [Req -> {"idle", "login", "populate", "dial", "open", "use",
                          "loginfree", "done"}]
  BY DEF IInv, CommonInv, TypeOK, ClientTypeOK
<1>2. \A q \in Req : ~Waiting(q)
  BY ConnectionAssumption DEF Ask, MayAsk, AllPatience, AtRest
<1>3. \A q \in Req : Waiting(q)' => q = r
  BY <1>1, <1>2 DEF Ask, Waiting
<1>4. cpc'[r] = "login" /\ phase'[r] = "connecting"
  BY <1>1 DEF Ask, Connect
<1>5. Alone'
  BY <1>3 DEF Alone
<1>6. Addressed'
  BY <1>1, <1>3 DEF Addressed, Ask, Address, Connect
<1>7. OwnLogin'
  BY <1>3, <1>4 DEF OwnLogin
<1>8. OwnProcess'
  BY <1>3, <1>4 DEF OwnProcess, Waiting
<1>9. OwnCompletion'
  <2>1. \A i \in 1..Len(queue) : queue[i].kind # "connected"
    BY <1>2, QueueElements DEF IInv, CommonInv, Expected, Waiting
  <2> QED
    BY <2>1 DEF OwnCompletion, Ask
<1>10. OwnCalls'
  BY DEF IInv, WaitingInv, OwnCalls, Ask
<1>11. RightRequester' /\ OwnServer'
  BY <1>1, AnswersStay DEF Ask
<1> QED
  BY <1>5, <1>6, <1>7, <1>8, <1>9, <1>10, <1>11 DEF WaitingInv

\* If no connect completion waits in the queue, the one just queued is alone.
LEMMA CompletionConnects ==
    ASSUME CommonInv, NEW r \in Req, NEW k \in {"failed", "connected", "executed"},
           Completes(k, r), \A i \in 1..Len(queue) : queue[i].kind # "connected"
    PROVE  \A i \in 1..Len(queue') : queue'[i].kind = "connected"
                                     => k = "connected" /\ queue'[i].req = r
<1>1. Len(queue) \in Nat /\ Len(queue') \in Nat
  BY QueueElements, LenProperties DEF Completes
<1> SUFFICES ASSUME NEW i \in 1..Len(queue'), queue'[i].kind = "connected"
             PROVE  k = "connected" /\ queue'[i].req = r
  OBVIOUS
<1>2. CASE i \in 1..Len(queue)
  BY <1>2 DEF Completes
<1>3. CASE i > Len(queue) /\ i < Len(queue')
  BY <1>3 DEF Completes
<1>4. CASE i = Len(queue')
  BY <1>4 DEF Completes, Block
<1> QED
  BY <1>1, <1>2, <1>3, <1>4

LEMMA ConnectWaiting ==
    ASSUME IInv, NEW r \in Req, ConnectStep(r), UNCHANGED connVars,
           Patience # "none"
    PROVE  WaitingInv'
<1>1. /\ Alone /\ Addressed /\ OwnLogin /\ OwnProcess /\ OwnCompletion /\ OwnCalls
      /\ \A q \in Req : Waiting(q)' <=> Waiting(q)
  BY DEF IInv, WaitingInv, Waiting, connVars
<1>2. /\ cpc \in [Req -> {"idle", "login", "populate", "dial", "open", "use",
                          "loginfree", "done"}]
      /\ logins \in [Req -> LoginRecs] /\ procs \in [Req -> ProcRecs]
      /\ login \in Req \cup {Null} /\ phase \in [Req -> Phases]
      /\ params \in Target \cup {Null}
  BY DEF IInv, CommonInv, TypeOK, ClientTypeOK, Handle
<1>3. r # Null
  BY NullAssumption
<1>4. cpc[r] \notin Tail1 =>
         /\ phase[r] = "connecting"
         /\ \A q \in Req : Waiting(q) => q = r
         /\ \A i \in 1..Len(queue) : queue[i].kind # "connected"
  <2> SUFFICES ASSUME cpc[r] \notin Tail1
               PROVE  /\ phase[r] = "connecting"
                      /\ \A q \in Req : Waiting(q) => q = r
                      /\ \A i \in 1..Len(queue) : queue[i].kind # "connected"
    OBVIOUS
  <2>1. cpc[r] # "idle"
    BY DEF ConnectStep, Login, Populate, Dial, Open, Use, LoginFree
  <2>2. phase[r] = "connecting"
    BY <1>2, <2>1 DEF IInv, CommonInv, Progress, Phases
  <2>3. \A q \in Req : Waiting(q) => q = r
    BY <1>1, <2>2 DEF Alone, Waiting
  <2>4. \A i \in 1..Len(queue) : queue[i].kind # "connected"
    BY <2>3, QueueElements DEF IInv, CommonInv, Expected, Waiting
  <2> QED
    BY <2>2, <2>3, <2>4
<1>5. Alone' /\ Addressed'
  BY <1>1 DEF Alone, Addressed, connVars, ConnectStep, Login, Populate, Dial, Open,
              Use, LoginFree
<1>6. OwnCalls'
  BY <1>1 DEF OwnCalls, ConnectStep, Login, Populate, Dial, Open, Use, LoginFree
<1>7. RightRequester' /\ OwnServer'
  <2>1. cpc[r] \notin Tail1 => phase[r] # "answered"
    BY <1>4
  <2>2. \A q \in Req : phase[q] = "answered" =>
          /\ procs'[q].user = procs[q].user /\ procs'[q].host = procs[q].host
          /\ procs'[q].db = procs[q].db
    <3>1. CASE Login(r) \/ Populate(r) \/ LoginFree(r)
      BY <3>1 DEF Login, Populate, LoginFree
    <3>2. CASE Dial(r)
      BY <1>2, <2>1, <3>2 DEF Dial, Tail1
    <3>3. CASE Open(r)
      BY <1>2, <2>1, <3>3 DEF Open, ProcRecs
    <3>4. CASE Use(r)
      <4>1. connection = r /\ phase[r] # "answered"
        BY <1>1, <1>4, <3>4 DEF Use, Tail1, OwnProcess, OpenedFor, Waiting
      <4> QED
        BY <1>2, <3>4, <4>1 DEF Use, ProcRecs
    <3> QED
      BY <3>1, <3>2, <3>3, <3>4 DEF ConnectStep
  <2>3. delivered' = delivered /\ asked' = asked /\ via' = via
    BY DEF connVars, ConnectStep, Login, Populate, Dial, Open, Use, LoginFree
  <2> QED
    BY <2>2, <2>3, AnswersStay
<1>8. OwnLogin'
  <2>1. CASE Login(r)
    BY <1>1, <1>2, <1>4, <2>1 DEF OwnLogin, Login, ConnectionFailure, Tail1
  <2>2. CASE Populate(r)
    <3>1. login = r /\ params = asked[r].target
      BY <1>1, <1>4, <2>2 DEF OwnLogin, Addressed, Populate, Tail1, Waiting
    <3>2. logins'[r].for = params \/ logins'[r].state = "freed"
      BY <1>2, <1>3, <2>2, <3>1 DEF Populate, LoginFreed, LoginRecs
    <3> QED
      BY <1>1, <1>2, <1>4, <2>2, <3>1, <3>2 DEF OwnLogin, Populate, Tail1, connVars
  <2>3. CASE Dial(r) \/ Open(r) \/ Use(r)
    BY <1>1, <1>2, <2>3 DEF OwnLogin, Dial, Open, Use, ConnectionFailure,
                            ConnectionSuccess, connVars
  <2>4. CASE LoginFree(r)
    <3>1. \A q \in Req : /\ logins'[q].for = logins[q].for
                         /\ logins[q].state = "freed" => logins'[q].state = "freed"
      <4>1. CASE login = Null
        BY <2>4, <4>1 DEF LoginFree
      <4>2. CASE login # Null
        <5>1. logins' = [logins EXCEPT ![login].state = "freed"]
          BY <2>4, <4>2 DEF LoginFree
        <5> QED
          BY <1>2, <4>2, <5>1 DEF LoginRecs
      <4> QED
        BY <4>1, <4>2
    <3> QED
      BY <1>1, <1>2, <2>4, <3>1 DEF OwnLogin, LoginFree, connVars
  <2> QED
    BY <2>1, <2>2, <2>3, <2>4 DEF ConnectStep
<1>9. ASSUME cpc[r] \notin Tail1 PROVE OwnProcess' /\ OwnCompletion'
  <2>1. phase[r] = "connecting" /\ \A q \in Req : Waiting(q) => q = r
    BY <1>4, <1>9
  <2>2. \A q \in Req : phase'[q] # "executing"
    BY <2>1 DEF Waiting, connVars
  <2>3. OwnProcess'
    <3>1. CASE Login(r) \/ Populate(r)
      BY <1>1, <1>2, <2>1, <2>2, <3>1 DEF OwnProcess, OpenedFor, Told, Login, Populate,
         ConnectionFailure, connVars
    <3>2. CASE Dial(r)
      <4>1. /\ login = r /\ login # Null /\ cpc'[r] = "open"
            /\ params = asked[r].target
            /\ LoginFreed \/ logins[r].for = asked[r].target
        BY <1>1, <1>2, <1>3, <2>1, <3>2
        DEF Dial, OwnLogin, Addressed, Waiting, LoginFreed
      <4>2. CASE LoginFreed
        <5>1. procs'[r].user = Unknown /\ procs'[r].host = Unknown
          BY <1>2, <3>2, <4>1, <4>2 DEF Dial
        <5> QED
          BY <1>1, <2>1, <2>2, <4>1, <5>1 DEF OwnProcess, Told, connVars
      <4>3. CASE ~LoginFreed
        <5>1. procs'[r].user = logins[r].for /\ procs'[r].host = params
          BY <1>2, <3>2, <4>1, <4>3 DEF Dial
        <5> QED
          BY <1>1, <2>1, <2>2, <4>1, <4>3, <5>1 DEF OwnProcess, Told, connVars
      <4> QED
        BY <4>2, <4>3
    <3>3. CASE Open(r)
      <4>1. Told(r) /\ procs'[r].user = procs[r].user /\ procs'[r].host = procs[r].host
        BY <1>1, <1>2, <2>1, <3>3 DEF OwnProcess, Open, ProcRecs, Waiting
      <4>2. cpc'[r] = "use" => connection' = r /\ procs'[r].state = "open"
        BY <1>2, <3>3 DEF Open, ConnectionFailure, ProcRecs
      <4>3. cpc'[r] \in {"use", "loginfree"}
        BY <1>2, <3>3 DEF Open, ConnectionFailure
      <4> QED
        BY <1>1, <2>1, <2>2, <4>1, <4>2, <4>3 DEF OwnProcess, OpenedFor, Told, connVars
    <3>4. CASE Use(r)
      <4>1. cpc'[r] = "loginfree"
        BY <1>2, <3>4 DEF Use, ConnectionFailure, ConnectionSuccess
      <4> QED
        BY <1>1, <2>1, <2>2, <4>1 DEF OwnProcess
    <3>5. CASE LoginFree(r)
      BY <1>9, <3>5 DEF LoginFree, Tail1
    <3> QED
      BY <3>1, <3>2, <3>3, <3>4, <3>5 DEF ConnectStep
  <2>4. OwnCompletion'
    <3>1. CASE queue' = queue
      BY <1>4, <1>9, <3>1 DEF OwnCompletion
    <3>2. CASE queue' = Failure("failed", r)
      <4>1. Completes("failed", r)
        BY <3>2, AppendCompletes DEF IInv
      <4>2. \A i \in 1..Len(queue') : queue'[i].kind # "connected"
        BY <1>4, <1>9, <4>1, CompletionConnects DEF IInv
      <4> QED
        BY <4>2 DEF OwnCompletion
    <3>3. CASE Use(r) /\ ConnectionSuccess(r)
      <4>1. Completes("connected", r)
        BY <3>3, AppendCompletes DEF ConnectionSuccess, IInv
      <4>2. \A i \in 1..Len(queue') : queue'[i].kind = "connected" => queue'[i].req = r
        BY <1>4, <1>9, <4>1, CompletionConnects DEF IInv
      <4>3. OpenedFor(r) /\ params = asked[r].target
        BY <1>1, <2>1, <3>3 DEF Use, OwnProcess, Addressed, Waiting
      <4>4. queue' # Failure("failed", r) => procs' = [procs EXCEPT ![connection].db = params]
        BY <3>3 DEF Use, ConnectionFailure
      <4>5. CASE queue' # Failure("failed", r)
        <5>1. /\ procs'[r].state = "open" /\ procs'[r].user = procs[r].user
              /\ procs'[r].host = procs[r].host /\ procs'[r].db = params
              /\ connection' = connection
          BY <1>2, <3>3, <4>3, <4>4, <4>5 DEF OpenedFor, ProcRecs, Use
        <5> QED
          BY <4>2, <4>3, <5>1 DEF OwnCompletion, OpenedFor, Told, connVars
      <4> QED
        BY <3>2, <4>5
    <3> QED
      BY <1>9, <3>1, <3>2, <3>3
      DEF ConnectStep, Login, Populate, Dial, Open, Use, LoginFree, ConnectionFailure, Tail1
  <2> QED
    BY <2>3, <2>4
<1>10. ASSUME cpc[r] \in Tail1 PROVE OwnProcess' /\ OwnCompletion'
  <2>1. LoginFree(r)
    BY <1>10 DEF Tail1, ConnectStep, Login, Populate, Dial, Open, Use
  <2>2. /\ connection' = connection /\ procs' = procs /\ queue' = queue
        /\ \A q \in Req : cpc'[q] = cpc[q] \/ cpc'[q] = "done"
    BY <1>2, <2>1 DEF LoginFree
  <2>3. OwnProcess' /\ OwnCompletion'
    BY <1>1, <2>2 DEF OwnProcess, OwnCompletion, OpenedFor, Told, connVars
  <2> QED
    BY <2>3
<1> QED
  BY <1>5, <1>6, <1>7, <1>8, <1>9, <1>10 DEF WaitingInv

LEMMA ExecuteWaiting ==
    ASSUME IInv, NEW r \in Req, ExecuteStep(r), UNCHANGED connVars,
           Patience # "none"
    PROVE  WaitingInv'
<1>1. /\ Alone /\ Addressed /\ OwnLogin /\ OwnProcess /\ OwnCompletion /\ OwnCalls
      /\ \A q \in Req : Waiting(q)' <=> Waiting(q)
  BY DEF IInv, WaitingInv, Waiting, connVars
<1>2. /\ params' = params /\ login' = login /\ connection' = connection
      /\ logins' = logins /\ procs' = procs /\ cpc' = cpc
  BY DEF ExecuteStep, Cmd, SqlExec, NextResult, RowsFail, RowsDone,
         NoMoreResults, FreeBuf, Call
<1>3. Alone' /\ Addressed' /\ OwnLogin' /\ OwnProcess'
  BY <1>1, <1>2 DEF Alone, Addressed, OwnLogin, OwnProcess, OpenedFor, Told, connVars
<1>4. /\ epc \in [Req -> Executing \cup {"idle", "freebuf", "done"}]
      /\ via \in [Req -> SUBSET Handle]
  BY DEF IInv, CommonInv, TypeOK, ClientTypeOK
<1>5. CASE FreeBuf(r)
  <2>1. queue' = queue /\ via' = via
    BY <1>5 DEF FreeBuf
  <2>2. OwnCompletion'
    BY <1>1, <1>2, <2>1 DEF OwnCompletion, OpenedFor, Told, connVars
  <2>3. OwnCalls'
    BY <1>1, <1>4, <1>5 DEF OwnCalls, FreeBuf
  <2>4. RightRequester' /\ OwnServer'
    BY <1>2, <2>1, AnswersStay DEF connVars
  <2> QED
    BY <1>3, <2>2, <2>3, <2>4 DEF WaitingInv
<1>6. CASE ~FreeBuf(r)
  <2>1. Call(r) /\ epc[r] \in Executing /\ epc'[r] \notin {"idle", "cmd"}
    BY <1>4, <1>6 DEF ExecuteStep, Cmd, SqlExec, NextResult, RowsFail, RowsDone,
       NoMoreResults, ExecutionFailure, Executing
  <2>2. \A q \in Req \ {r} : epc'[q] = epc[q]
    BY <1>4, <1>6 DEF ExecuteStep, Cmd, SqlExec, NextResult, RowsFail, RowsDone,
       NoMoreResults, ExecutionFailure
  <2>3. phase[r] = "executing"
    BY <2>1, SilentExecute DEF IInv
  <2>4. connection = r
    BY <1>1, <2>3 DEF OwnProcess, OpenedFor
  <2>5. via' = [via EXCEPT ![r] = {r}]
    <3>1. via[r] \subseteq {r}
      BY <1>1 DEF OwnCalls
    <3>2. via[r] \cup {r} = {r}
      BY <3>1
    <3> QED
      BY <2>1, <2>4, <3>2 DEF Call
  <2>6. OwnCalls'
    BY <1>1, <1>4, <2>1, <2>2, <2>5 DEF OwnCalls
  <2>7. RightRequester' /\ OwnServer'
    BY <1>2, <1>4, <2>3, <2>5, AnswersStay DEF connVars
  <2>8. \A i \in 1..Len(queue) : queue[i].kind # "connected"
    <3>1. \A q \in Req : Waiting(q) => q = r
      BY <1>1, <2>3 DEF Alone, Waiting
    <3> QED
      BY <2>3, <3>1, QueueElements DEF IInv, CommonInv, Expected, Waiting
  <2>9. OwnCompletion'
    <3>1. CASE queue' = queue
      BY <2>8, <3>1 DEF OwnCompletion
    <3>2. CASE queue' = Append(queue, Block("error", r))
      <4>1. /\ Len(queue') = Len(queue) + 1 /\ Len(queue) \in Nat
            /\ \A i \in 1..Len(queue) : queue'[i] = queue[i]
        BY <3>2, QueueAppends, QueueElements DEF IInv
      <4>2. queue'[Len(queue) + 1] = Block("error", r)
        BY <3>2, QueueAppends DEF IInv
      <4> QED
        BY <2>8, <4>1, <4>2 DEF OwnCompletion, Block
    <3>3. CASE \/ queue' = Append(queue, Block("executed", r))
               \/ queue' = Failure("executed", r)
      <4>1. Completes("executed", r)
        BY <3>3, AppendCompletes DEF IInv
      <4>2. \A i \in 1..Len(queue') : queue'[i].kind # "connected"
        BY <2>8, <4>1, CompletionConnects DEF IInv
      <4> QED
        BY <4>2 DEF OwnCompletion
    <3> QED
      BY <1>6, <3>1, <3>2, <3>3
      DEF ExecuteStep, Cmd, SqlExec, NextResult, RowsFail, RowsDone, NoMoreResults
  <2> QED
    BY <1>3, <2>6, <2>7, <2>9 DEF WaitingInv
<1> QED
  BY <1>5, <1>6

\* What a block of the main queue says of the request it completes; the blocks
\* behind it were there before.
LEMMA MainWaiting ==
    ASSUME IInv, Main, Patience # "none"
    PROVE  WaitingInv'
<1>1. /\ Alone /\ Addressed /\ OwnLogin /\ OwnProcess /\ OwnCompletion /\ OwnCalls
      /\ CommonInv
  BY DEF IInv, WaitingInv
<1>2. /\ NextReq \in Req /\ queue[1] = Head(queue) /\ 1 \in 1..Len(queue)
      /\ \A i \in 1..Len(queue') : /\ i + 1 \in 1..Len(queue) /\ i + 1 # 1
                                   /\ queue'[i] = queue[i + 1]
      /\ \A i \in 1..Len(queue) : queue[i].req \in Req
  BY <1>1, QueuePops, QueueElements
  DEF Main, ErrorAlert, ConnectFailed, ConnectDone, Deliver, Next1, NextReq
<1>3. /\ phase \in [Req -> Phases] /\ procs \in [Req -> ProcRecs]
      /\ epc \in [Req -> Executing \cup {"idle", "freebuf", "done"}]
      /\ connection \in Req \cup {Null}
  BY <1>1 DEF CommonInv, TypeOK, ClientTypeOK, Handle
<1>4. /\ params' = params /\ login' = login /\ connection' = connection
      /\ logins' = logins /\ cpc' = cpc /\ via' = via /\ asked' = asked
      /\ delegate' = delegate /\ signal_id' = signal_id
      /\ \A q \in Req : /\ procs'[q].user = procs[q].user
                        /\ procs'[q].host = procs[q].host
                        /\ procs'[q].db = procs[q].db
  <2>1. CASE procs' = procs
    BY <2>1 DEF Main, ErrorAlert, ConnectFailed, ConnectDone, Deliver
  <2>2. CASE procs' # procs
    <3>1. connection # Null /\ procs' = [procs EXCEPT ![connection].state = "closed"]
      BY <2>2 DEF Main, ErrorAlert, ConnectFailed, ConnectDone, Deliver, Disconnect
    <3>2. \A q \in Req : /\ procs'[q].user = procs[q].user
                        /\ procs'[q].host = procs[q].host
                        /\ procs'[q].db = procs[q].db
      BY <1>3, <3>1 DEF ProcRecs
    <3> QED
      BY <3>2 DEF Main, ErrorAlert, ConnectFailed, ConnectDone, Deliver
  <2> QED
    BY <2>1, <2>2
<1>5. ASSUME procs' = procs, delivered' = delivered,
             \A q \in Req : Waiting(q)' => Waiting(q),
             \A q \in Req : phase'[q] = "executing" =>
                 OpenedFor(q) /\ procs[q].db = asked[q].target,
             \A q \in Req : epc'[q] = epc[q] \/ (epc[q] = "idle" /\ epc'[q] = "cmd")
      PROVE  WaitingInv'
  <2>1. Alone' /\ Addressed' /\ OwnLogin'
    BY <1>1, <1>4, <1>5 DEF Alone, Addressed, OwnLogin
  <2>2. OwnProcess'
    BY <1>1, <1>4, <1>5 DEF OwnProcess, OpenedFor, Told
  <2>3. OwnCompletion'
    BY <1>1, <1>2, <1>4, <1>5 DEF OwnCompletion, OpenedFor, Told
  <2>4. OwnCalls'
    BY <1>1, <1>4, <1>5 DEF OwnCalls
  <2>5. RightRequester' /\ OwnServer'
    BY <1>4, <1>5, AnswersStay
  <2> QED
    BY <2>1, <2>2, <2>3, <2>4, <2>5 DEF WaitingInv
<1>6. CASE ErrorAlert
  BY <1>1, <1>5, <1>6 DEF ErrorAlert, Waiting, OwnProcess
<1>7. CASE ConnectFailed
  BY <1>1, <1>2, <1>3, <1>5, <1>7 DEF ConnectFailed, Waiting, OwnProcess
<1>8. CASE ConnectDone
  <2>1. /\ phase[NextReq] = "connecting" /\ epc[NextReq] = "idle"
        /\ OpenedFor(NextReq) /\ procs[NextReq].db = asked[NextReq].target
    BY <1>1, <1>2, <1>8 DEF CommonInv, Expected, Progress, OwnCompletion, ConnectDone,
       Next1, NextReq
  <2>2. \/ /\ epc' = [epc EXCEPT ![NextReq] = "cmd"]
           /\ phase' = [phase EXCEPT ![NextReq] = "executing"]
        \/ /\ epc' = epc
           /\ phase' = [phase EXCEPT ![NextReq] = "dropped"]
    BY <1>8 DEF ConnectDone, Execute
  <2>3. procs' = procs /\ delivered' = delivered
    BY <1>8 DEF ConnectDone
  <2>4. \A q \in Req : Waiting(q)' => Waiting(q)
    BY <1>2, <1>3, <2>1, <2>2 DEF Waiting
  <2>5. \A q \in Req : phase'[q] = "executing" => OpenedFor(q) /\ procs[q].db = asked[q].target
    BY <1>1, <1>2, <1>3, <2>1, <2>2 DEF OwnProcess
  <2>6. \A q \in Req : epc'[q] = epc[q] \/ (epc[q] = "idle" /\ epc'[q] = "cmd")
    BY <1>2, <1>3, <2>1, <2>2
  <2> QED
    BY <1>5, <2>3, <2>4, <2>5, <2>6
<1>9. CASE Deliver
  <2>1. /\ phase[NextReq] = "executing" /\ epc[NextReq] \in Tail2
        /\ Len(delivered') = Len(delivered) + 1
        /\ \A i \in 1..Len(delivered) : delivered'[i] = delivered[i]
        /\ delivered'[Len(delivered')] =
              [req |-> NextReq, to |-> delegate, signal |-> signal_id,
               array |-> m_resultArray']
    BY <1>1, <1>9, DeliverFacts
  <2>2. phase' = [phase EXCEPT ![NextReq] = "answered"] /\ epc' = epc
    BY <1>9 DEF Deliver
  <2>3. \A q \in Req : ~Waiting(q)'
    BY <1>1, <1>2, <1>3, <2>1, <2>2 DEF Alone, Waiting
  <2>4. Alone' /\ Addressed' /\ OwnLogin' /\ OwnProcess'
    BY <2>3 DEF Alone, Addressed, OwnLogin, OwnProcess, Waiting
  <2>5. OwnCompletion'
    <3>1. \A i \in 1..Len(queue) : queue[i].kind # "connected"
      BY <1>1, <1>2, <2>1 DEF CommonInv, Expected, Alone, Waiting
    <3> QED
      BY <1>2, <3>1 DEF OwnCompletion
  <2>6. OwnCalls'
    BY <1>1, <1>4, <2>2 DEF OwnCalls
  <2>7. /\ delegate = asked[NextReq].by /\ signal_id = asked[NextReq].signal
        /\ via[NextReq] = {NextReq} /\ OpenedFor(NextReq)
        /\ procs[NextReq].db = asked[NextReq].target
    BY <1>1, <1>2, <2>1 DEF Addressed, OwnCalls, OwnProcess, Waiting, Tail2
  <2>8. /\ RightRequester /\ OwnServer /\ Len(delivered) \in Nat
        /\ \A i \in 1..Len(delivered) : delivered[i].req \in Req
    BY <1>1, DeliveredElements DEF IInv, WaitingInv
  <2>9. RightRequester'
    BY <1>4, <2>1, <2>7, <2>8 DEF RightRequester
  <2>10. OwnServer'
    <3>1. \A i \in 1..Len(delivered') : delivered'[i].req \in Req
      BY <1>2, <2>1, <2>8
    <3> SUFFICES ASSUME NEW i \in 1..Len(delivered'), NEW r \in Req,
                        r = delivered'[i].req, delivered'[i].array.of = r
                 PROVE  via'[r] = {r} /\ Told(r)' /\ procs'[r].db = asked'[r].target
      BY <3>1 DEF OwnServer, Told
    <3>2. CASE i \in 1..Len(delivered)
      <4>1. r = delivered[i].req /\ delivered[i].array.of = r
        BY <2>1, <3>2
      <4>2. via[r] = {r} /\ Told(r) /\ procs[r].db = asked[r].target
        BY <2>8, <3>2, <4>1 DEF OwnServer
      <4> QED
        BY <1>4, <4>2 DEF Told
    <3>3. CASE i = Len(delivered')
      <4>1. r = NextReq
        BY <2>1, <3>3
      <4> QED
        BY <1>4, <2>7, <4>1 DEF OpenedFor, Told
    <3> QED
      BY <2>1, <2>8, <3>2, <3>3
  <2> QED
    BY <2>4, <2>5, <2>6, <2>9, <2>10 DEF WaitingInv
<1> QED
  BY <1>6, <1>7, <1>8, <1>9 DEF Main

LEMMA WaitingNext == IInv /\ [Next]_vars => WaitingInv'
<1> SUFFICES ASSUME IInv, [Next]_vars, Patience # "none" PROVE WaitingInv'
  BY DEF WaitingInv
<1>1. CASE UserStep
  BY <1>1, AskWaiting DEF UserStep, Newcomer
<1>2. CASE ClientStep
  BY <1>2, ConnectWaiting, ExecuteWaiting DEF ClientStep, Worker
<1>3. CASE Main
  BY <1>3, MainWaiting
<1>4. CASE UNCHANGED vars
  BY <1>4 DEF vars, clientVars, connVars, IInv, WaitingInv, Alone, Addressed, OwnLogin,
     OwnProcess, OpenedFor, Told, OwnCompletion, OwnCalls, RightRequester, OwnServer,
     Waiting
<1> QED
  BY <1>1, <1>2, <1>3, <1>4 DEF Next

\* For a user who waits, the shared login, connection, delegate and signal id are
\* those of the one request that is not over, though tails of others still run.
THEOREM Invariant == Spec => []IInv
<1>1. Init => IInv
  BY InitCommon, InitWaiting DEF IInv
<1>2. IInv /\ [Next]_vars => IInv'
  BY CommonNext, WaitingNext DEF IInv
<1> QED
  BY <1>1, <1>2, PTL DEF Spec

\* For a user who waits for each answer, the answer comes back to the screen that
\* asked, with its signal id, though both are read only on delivery.
THEOREM AnswersReachTheAsker == Spec => []RightRequester
<1>1. IInv => RightRequester
  BY DEF IInv, WaitingInv, RightRequester
<1> QED
  BY <1>1, Invariant, PTL

-----------------------------------------------------------------------------
(***************************************************************************)
(* ServerConnection implements RequestService for a user who waits.        *)
(***************************************************************************)
Served == [r \in Req |-> IF Waiting(r) THEN "waiting" ELSE phase[r]]

LEMMA ServiceStep ==
    ASSUME IInv, IInv', [Next]_vars, Patience # "none"
    PROVE  [Service!Next]_Service!svars
<1>1. phase \in [Req -> Phases] /\ asked \in [Req -> Questions] /\ CommonInv
  BY DEF IInv, CommonInv, TypeOK
<1> DEFINE still == Served' = Served /\ asked' = asked /\ delivered' = delivered
<1>2. ASSUME still PROVE [Service!Next]_Service!svars
  BY <1>2 DEF Service!svars, Served
<1>3. ASSUME NEW r \in Req, Waiting(r), phase' = [phase EXCEPT ![r] = "dropped"],
             asked' = asked, delivered' = delivered
      PROVE  Service!Next
  <2>1. Served[r] = "waiting" /\ Served' = [Served EXCEPT ![r] = "dropped"]
    BY <1>1, <1>3 DEF Served, Waiting
  <2>2. Service!Drop(r)
    BY <1>3, <2>1 DEF Service!Drop, Served
  <2> QED
    BY <2>2 DEF Service!Next
<1>4. CASE UserStep
  <2> PICK r \in Req, who \in Screen, sig \in Signal, t \in Target, m \in Method :
         Ask(r, who, sig, t, m)
    BY <1>4 DEF UserStep, Newcomer
  <2>1. Served[r] = "idle" /\ Served' = [Served EXCEPT ![r] = "waiting"]
    BY <1>1 DEF Ask, Served, Waiting
  <2>2. Service!Ask(r)
    BY <2>1 DEF Ask, Service!Ask, Served
  <2> QED
    BY <2>2 DEF Service!Next
<1>5. CASE ClientStep
  BY <1>2, <1>5 DEF ClientStep, connVars, Served, Waiting
<1>6. CASE ErrorAlert
  BY <1>2, <1>6 DEF ErrorAlert, Served, Waiting
<1>7. CASE ConnectFailed \/ ConnectDone
  <2>1. NextReq \in Req /\ Head(queue) = queue[1] /\ 1 \in 1..Len(queue)
    BY <1>1, <1>7, QueuePops DEF ConnectFailed, ConnectDone, Next1, NextReq
  <2>2. phase[NextReq] = "connecting"
    BY <1>1, <1>7, <2>1 DEF CommonInv, Expected, ConnectFailed, ConnectDone, Next1, NextReq
  <2>3. CASE phase' = [phase EXCEPT ![NextReq] = "dropped"]
    BY <1>3, <1>7, <2>1, <2>2, <2>3 DEF ConnectFailed, ConnectDone, Waiting
  <2>4. CASE phase' = [phase EXCEPT ![NextReq] = "executing"]
    <3>1. still
      BY <1>1, <1>7, <2>1, <2>2, <2>4 DEF ConnectFailed, ConnectDone, Served, Waiting
    <3> QED
      BY <1>2, <3>1
  <2> QED
    BY <1>7, <2>3, <2>4 DEF ConnectFailed, ConnectDone
<1>8. CASE Deliver
  <2>0. PICK n \in Req : n = NextReq
    BY <1>1, <1>8, DeliverFacts
  <2>1. /\ n \in Req /\ phase[n] = "executing"
        /\ m_resultArray' \in Arrays /\ m_resultArray'.of \in {n, Null}
    BY <1>1, <1>8, <2>0, DeliverFacts
  <2>2. delegate = asked[n].by /\ signal_id = asked[n].signal
    BY <2>1 DEF IInv, WaitingInv, Addressed, Waiting
  <2>3. Served[n] = "waiting" /\ Served' = [Served EXCEPT ![n] = "answered"] /\ asked' = asked
    BY <1>1, <1>8, <2>0, <2>1 DEF Served, Waiting, Deliver
  <2>4. /\ m_resultArray' = [of |-> m_resultArray'.of, count |-> m_resultArray'.count]
        /\ m_resultArray'.count \in 0..MaxTables \cup {1}
    BY <2>1 DEF Arrays
  <2>5. delivered' = Append(delivered,
           [req |-> n, to |-> asked[n].by, signal |-> asked[n].signal,
            array |-> [of |-> m_resultArray'.of, count |-> m_resultArray'.count]])
    BY <1>8, <2>0, <2>2, <2>4 DEF Deliver
  <2>6. Service!Answer(n)
    BY <2>1, <2>3, <2>4, <2>5 DEF Service!Answer, Served
  <2>7. Service!Next
    BY <2>1, <2>6 DEF Service!Next
  <2> QED
    BY <2>7
<1>9. CASE UNCHANGED vars
  BY <1>2, <1>9 DEF vars, connVars, Served, Waiting
<1> QED
  BY <1>4, <1>5, <1>6, <1>7, <1>8, <1>9 DEF Next, Main

\* Seen from the screens, the eighteen steps of client, worker and main thread
\* are three: ask, answer, drop.
THEOREM ServesRequests == ASSUME Patience # "none" PROVE Spec => ServiceSpec
<1>1. Init => Service!Init
  BY DEF Init, Service!Init, NobodyAsked, Waiting
<1>2. IInv /\ IInv' /\ [Next]_vars => [Service!Next]_Service!svars
  BY ServiceStep
<1> QED
  BY <1>1, <1>2, Invariant, PTL DEF Spec, ServiceSpec, Service!Spec
=============================================================================
