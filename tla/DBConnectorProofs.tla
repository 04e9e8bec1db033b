-------------------------- MODULE DBConnectorProofs --------------------------
(***************************************************************************)
(* Proofs about DBConnector.  A step of a session is a step of FMDatabase, *)
(* so what FMDatabaseProofs shows of every call holds here too; what is    *)
(* left is where a session is in which call.                               *)
(***************************************************************************)
EXTENDS DBConnector, FMDatabaseProofs, SequenceTheorems

UpdatePcs  == {"update", "updating"}
ReadingPcs == {"cache", "query", "querying", "fetch", "fetching", "read"}
SessionPcs == UpdatePcs \cup ReadingPcs \cup {"none", "open", "close"}

\* Where a session is.
Jobs ==
    /\ job \in [op : Operations \cup {Null}, left : 0..3, pc : SessionPcs]
    /\ job.pc = "none" <=> job.op = Null
    /\ job.pc \in UpdatePcs => job.op # "list"
    /\ job.pc \in ReadingPcs => job.op = "list"

\* What took effect is a prefix of the operation's statements; while there are
\* statements to go nothing has failed and the next is the one that is run; and
\* nothing is left to go when the session closes the file, unless one failed.
Prefix ==
    /\ Len(done) <= Len(Statements(job.op))
    /\ \A i \in 1..Len(done) : done[i] = Statements(job.op)[i]

Counts ==
    /\ gaveUp \in BOOLEAN
    /\ done \in Seq(Texts) /\ Len(done) <= 3
    /\ job.op # Null => Prefix
    /\ job.pc = "open" =>
           done = <<>> /\ ~gaveUp /\ job.left = Len(Statements(job.op))
    /\ job.pc \in UpdatePcs =>
           /\ job.left > 0 /\ Len(done) + job.left = Len(Statements(job.op))
           /\ ~gaveUp
    /\ job.pc = "updating" => call.sql = Due(job.op, job.left)
    /\ job.pc = "close" => gaveUp \/ done = Statements(job.op)

\* The call the session waits for, and the database it has opened.
Waits ==
    /\ job.pc \notin {"updating", "querying", "fetching"} => call = Idle
    /\ job.pc = "updating" => /\ call.pc \in {"prepare", "run"}
                              /\ call.method = "executeUpdate"
    /\ job.pc = "querying" => /\ call.pc \in {"prepare", "bind"}
                              /\ call.method = "executeQuery"
    /\ job.pc = "fetching" => call.pc = "step" /\ call.method = "next"
    /\ opened <=> job.pc \notin {"none", "open"}

\* Why no session uses a statement that was released: an update has no result
\* set, a query finds the cache empty, and only close releases a statement
\* that a result set points to.
Clear ==
    /\ faults = {}
    /\ job.pc \in UpdatePcs \cup {"open"} =>
           ~shouldCache /\ \A r \in Slots : slots[r] = Null
    /\ job.pc \in {"cache", "query"} => \A q \in SQL : cache[q] = Null
    /\ call.pc \in {"bind", "run"} => Alive(call.stmt)
    /\ opened => \A r \in Slots : slots[r] # Null => Alive(slots[r])

SessionInv == CommonInv /\ Jobs /\ Counts /\ Waits /\ Clear

\* An operation has at most three statements, and a list none.
LEMMA StatementsKnown ==
    ASSUME NEW op
    PROVE  /\ Statements(op) \in Seq(Texts) /\ Len(Statements(op)) \in 0..3
           /\ op = "list" => Statements(op) = <<>>
           /\ op \in Operations /\ op # "list" => Len(Statements(op)) > 0
<1>1. Statements(op) \in Seq(Texts)
  <2>1. <<"CREATE History", "CREATE Connect", "CREATE Query">> \in Seq(Texts)
    BY DEF Texts
  <2>2. <<"write">> \in Seq(Texts) /\ <<>> \in Seq(Texts)
    BY DEF Texts
  <2> QED
    BY <2>1, <2>2 DEF Statements
<1>2. Len(Statements(op)) \in 0..3
  BY DEF Statements
<1>3. op = "list" => Statements(op) = <<>>
  BY DEF Statements
<1>4. op = "createTables" => Len(Statements(op)) = 3
  BY DEF Statements
<1>5. op = "write" => Len(Statements(op)) = 1
  BY DEF Statements
<1>6. op \in Operations /\ op # "list" => Len(Statements(op)) > 0
  BY <1>4, <1>5 DEF Operations
<1> QED
  BY <1>1, <1>2, <1>3, <1>6

\* At first nothing has taken effect.
LEMMA NothingDone ==
    <<>> \in Seq(Texts) /\ Len(<<>>) = 0
  BY EmptySeq

\* The statement whose turn it is comes behind those that took effect.
LEMMA DueIsNext ==
    ASSUME Counts, job.pc \in UpdatePcs, job.left \in 0..3
    PROVE  /\ Due(job.op, job.left) = Statements(job.op)[Len(done) + 1]
           /\ Due(job.op, job.left) \in Texts
           /\ Len(done) \in Nat /\ Len(done) < Len(Statements(job.op))
<1> DEFINE S == Statements(job.op)
           n == Len(S)
           m == Len(done)
<1>1. S \in Seq(Texts) /\ n \in 0..3
  BY StatementsKnown
<1>2. m \in Nat /\ job.left > 0 /\ m + job.left = n
  BY LenProperties DEF Counts
<1>3. n - job.left + 1 = m + 1 /\ m + 1 \in 1..n /\ m < n
  <2> HIDE DEF n, m
  <2> QED
    BY <1>1, <1>2
<1>4. Due(job.op, job.left) = S[m + 1]
  BY <1>3 DEF Due
<1>5. S[m + 1] \in Texts
  BY <1>1, <1>3, ElementOfSeq
<1> QED
  BY <1>2, <1>3, <1>4, <1>5

LEMMA EffectExtends ==
    ASSUME Counts, job.pc \in UpdatePcs, job.op # Null, job.left \in 0..3,
           done' = Append(done, Due(job.op, job.left))
    PROVE  /\ done' \in Seq(Texts) /\ Len(done') = Len(done) + 1
           /\ Len(done') <= Len(Statements(job.op)) /\ Len(done') <= 3
           /\ \A i \in 1..Len(done') : done'[i] = Statements(job.op)[i]
           /\ Len(done') = Len(Statements(job.op)) => done' = Statements(job.op)
<1> DEFINE S == Statements(job.op)
           n == Len(S)
           m == Len(done)
           e == Due(job.op, job.left)
<1>1. S \in Seq(Texts) /\ n \in 0..3 /\ done \in Seq(Texts)
  BY StatementsKnown DEF Counts
<1>2. \A i \in 1..m : done[i] = S[i]
  BY DEF Counts, Prefix
<1>3. e = S[m + 1] /\ e \in Texts /\ m \in Nat /\ m < n
  BY DueIsNext
<1>4. done' = Append(done, e)
  OBVIOUS
<1> HIDE DEF e
<1>5. /\ done' \in Seq(Texts) /\ Len(done') = m + 1
      /\ \A i \in 1..m : done'[i] = done[i]
      /\ done'[m + 1] = e
  BY <1>1, <1>3, <1>4, AppendProperties
<1>6. \A i \in 1..Len(done') : done'[i] = S[i]
  <2> TAKE i \in 1..Len(done')
  <2>1. CASE i \in 1..m
    BY <1>2, <1>5, <2>1
  <2>2. CASE i = m + 1
    BY <1>3, <1>5, <2>2
  <2> QED
    BY <1>3, <1>5, <2>1, <2>2
<1>7. Len(done') = n => done' = S
  BY <1>1, <1>5, <1>6, SeqEqual
<1>8. Len(done') <= n /\ Len(done') <= 3
  <2> HIDE DEF n, m
  <2> QED
    BY <1>1, <1>3, <1>5
<1> QED
  BY <1>5, <1>6, <1>7, <1>8

LEMMA SessionInitInv == SessionInit => SessionInv
<1> SUFFICES ASSUME SessionInit PROVE SessionInv
  OBVIOUS
<1>1. CommonInv
  BY InitCommon DEF SessionInit, Init
<1>2. Jobs
  BY OperationAssumption DEF SessionInit, NoJob, Jobs, SessionPcs, UpdatePcs,
     ReadingPcs
<1>3. Counts
  <2>1. done \in Seq(Texts) /\ Len(done) = 0 /\ gaveUp \in BOOLEAN
    BY NothingDone DEF SessionInit
  <2>2. job.op = Null /\ job.pc = "none"
    BY DEF SessionInit, NoJob
  <2> QED
    BY <2>1, <2>2 DEF Counts, UpdatePcs
<1>4. Waits /\ Clear
  BY DEF SessionInit, InitDatabase, NoJob, Waits, Clear, UpdatePcs, Idle
<1> QED
  BY <1>1, <1>2, <1>3, <1>4 DEF SessionInv

\* Every step but the start of a session is one FMDatabaseProofs knows.
LEMMA SessionCommon ==
    ASSUME SessionInv, SessionNext
    PROVE  CommonInv'
<1> USE DEF SessionInv
<1>1. ASSUME NEW op \in Operations, Start(op)
      PROVE  CommonInv'
  <2> USE DEF CommonInv, TypeOK
  <2>1. (CallOK /\ AnswersOK /\ Calls /\ InUseExactly /\ ClosedMeansReleased
         /\ TransactionTracked)'
    BY <1>1, Stays DEF Start
  <2>2. FlagsOK'
    BY <1>1 DEF Start, FlagsOK
  <2>3. StatementsOK'
    BY <1>1 DEF Start, StatementsOK
  <2>4. call = Idle
    BY <1>1 DEF Start, Waits
  <2>5. Pointers'
    BY <1>1, <2>4 DEF Start, Pointers, Idle
  <2> QED
    BY <2>1, <2>2, <2>3, <2>5
<1>2. CASE OpenFile
  BY <1>2, OpenCommon DEF OpenFile
<1>3. CASE StartUpdate
  <2>1. Due(job.op, job.left) \in Update
    BY <1>3, DueIsNext, OperationAssumption DEF StartUpdate, Jobs, UpdatePcs
  <2> QED
    BY <1>3, <2>1, EnterCommon DEF StartUpdate, ExecuteUpdate, SQL, Finders
<1>4. CASE Updating
  BY <1>4, RunDoneCommon, PrepareCommon, PrepareBusyCommon, PrepareFailsCommon,
     RunBusyCommon, RunFailsCommon DEF Updating
<1>5. CASE TurnCachingOn
  BY <1>5, SetShouldCacheCommon DEF TurnCachingOn
<1>6. CASE StartQuery
  BY <1>6, EnterCommon, RsAssumption
     DEF StartQuery, ExecuteQuery, SQL, Finders, Slots
<1>7. CASE Querying
  BY <1>7, MakeResultSetCommon, PrepareCommon, PrepareBusyCommon,
     PrepareFailsCommon DEF Querying
<1>8. CASE StartFetch
  BY <1>8, NextRowCommon, RsAssumption DEF StartFetch
<1>9. CASE Fetching
  BY <1>9, StepRowCommon, StepBusyCommon, StepFailsCommon, StepDoneCommon
     DEF Fetching
<1>10. CASE ReadRow
  BY <1>10, ReadColumnCommon, RsAssumption DEF ReadRow
<1>11. CASE CloseFile
  BY <1>11, CloseCommon DEF CloseFile
<1>12. CASE Others
  BY <1>12, OtherLocksCommon, OtherUnlocksCommon DEF Others, Environment
<1> QED
  BY <1>1, <1>2, <1>3, <1>4, <1>5, <1>6, <1>7, <1>8, <1>9, <1>10, <1>11, <1>12
     DEF SessionNext, Session, Reading

(***************************************************************************)
(* Where a session is in a call.  The three lemmas take the session's step *)
(* apart from the call's: what the job does, and what becomes of the call. *)
(***************************************************************************)

LEMMA GotoKeeps ==
    ASSUME Jobs, NEW pc, Goto(pc)
    PROVE  job'.op = job.op /\ job'.left = job.left /\ job'.pc = pc
BY DEF Goto, Jobs

LEMMA JobsNext ==
    ASSUME SessionInv, SessionNext
    PROVE  Jobs'
<1> USE DEF SessionInv, SessionPcs, UpdatePcs, ReadingPcs
<1>1. ASSUME NEW op \in Operations, Start(op)
      PROVE  Jobs'
  <2>1. Len(Statements(op)) \in 0..3 /\ op # Null
    BY StatementsKnown, OperationAssumption
  <2> QED
    BY <1>1, <2>1 DEF Start, Jobs
<1>2. ASSUME NEW pc \in SessionPcs \ {"none"}, Goto(pc), job.op # Null,
             pc \in UpdatePcs => job.op # "list",
             pc \in ReadingPcs => job.op = "list"
      PROVE  Jobs'
  BY <1>2, GotoKeeps DEF Jobs, Goto
<1>3. CASE job' = NoJob
  BY <1>3, OperationAssumption DEF NoJob, Jobs
<1>4. CASE OpenFile
  <2>1. job.op # Null
    BY <1>4 DEF OpenFile, Jobs
  <2> QED
    BY <1>2, <1>3, <1>4, <2>1 DEF OpenFile
<1>5. CASE StartUpdate
  BY <1>2, <1>5 DEF StartUpdate, Jobs
<1>6. ASSUME NEW ok \in BOOLEAN, job.pc = "updating", StatementEnded(ok)
      PROVE  Jobs'
  <2>1. job.left - 1 \in 0..3
    BY <1>6 DEF Counts, Jobs
  <2>2. /\ job'.op = job.op /\ job'.left = job.left - 1
        /\ job'.pc \in {"close", "update"}
    BY <1>6 DEF StatementEnded, Jobs
  <2>3. job.op # Null /\ job.op # "list"
    BY <1>6 DEF Jobs
  <2>4. job' = [op |-> job'.op, left |-> job'.left, pc |-> job'.pc]
    BY <1>6 DEF StatementEnded, Jobs
  <2> QED
    BY <2>1, <2>2, <2>3, <2>4 DEF Jobs
<1>7. CASE Updating
  BY <1>6, <1>7 DEF Updating, Jobs
<1>8. CASE UNCHANGED job
  BY <1>8 DEF Jobs
<1>9. CASE Reading
  <2>1. job.op # Null /\ job.op = "list"
    BY <1>9 DEF Reading, TurnCachingOn, StartQuery, Querying, StartFetch, Fetching,
       ReadRow, Jobs
  <2> QED
    BY <1>2, <1>8, <1>9, <2>1 DEF Reading, TurnCachingOn, StartQuery, Querying,
       StartFetch, Fetching, ReadRow
<1>10. CASE CloseFile
  BY <1>3, <1>10 DEF CloseFile
<1> QED
  BY <1>1, <1>4, <1>5, <1>7, <1>8, <1>9, <1>10 DEF SessionNext, Session, Others

LEMMA CountsNext ==
    ASSUME SessionInv, SessionNext
    PROVE  Counts'
<1> USE DEF SessionInv, UpdatePcs
<1>1. ASSUME NEW op \in Operations, Start(op)
      PROVE  Counts'
  <2>1. op # Null /\ Len(Statements(op)) \in 0..3
    BY OperationAssumption, StatementsKnown
  <2>2. /\ job'.op = op /\ job'.left = Len(Statements(op)) /\ job'.pc = "open"
        /\ done' = <<>> /\ gaveUp' = FALSE
    BY <1>1 DEF Start
  <2>3. done' \in Seq(Texts) /\ Len(done') = 0
    BY <2>2, NothingDone
  <2>4. Prefix'
    BY <2>1, <2>2, <2>3 DEF Prefix
  <2>5. job'.pc = "open" => done' = <<>> /\ ~gaveUp' /\ job'.left = Len(Statements(job'.op))
    BY <2>2
  <2>6. gaveUp' \in BOOLEAN /\ job'.pc = "open"
    BY <2>2
  <2> HIDE <2>2
  <2> QED
    BY <2>3, <2>4, <2>5, <2>6 DEF Counts
<1>2. CASE job' = NoJob /\ UNCHANGED done /\ gaveUp' \in BOOLEAN
  BY <1>2 DEF Counts, NoJob
<1>3. CASE OpenFile /\ UNCHANGED done
  <2>1. CASE ~opened'
    BY <1>2, <1>3, <2>1 DEF OpenFile
  <2>2. CASE opened'
    <3>1. /\ job'.op = job.op /\ job'.left = job.left /\ gaveUp' = FALSE
          /\ job'.pc = IF job.op = "list" THEN "cache" ELSE "update"
      BY <1>3, <2>2, GotoKeeps DEF OpenFile
    <3>2. /\ job.pc = "open" /\ job.op \in Operations
          /\ job.op # "list" => Len(Statements(job.op)) > 0
      BY <1>3, StatementsKnown DEF OpenFile, Jobs
    <3>3. Len(done) = 0 /\ Len(Statements(job.op)) \in 0..3
      BY <3>2, EmptySeq, StatementsKnown DEF Counts
    <3>4. done' = done /\ done = <<>> /\ Prefix'
      BY <1>3, <3>1, <3>2, <3>3 DEF Counts, Prefix
    <3>5. job.op # "list" => /\ job'.left > 0
                             /\ Len(done) + job'.left = Len(Statements(job.op))
      BY <3>1, <3>2, <3>3 DEF Counts
    <3> QED
      BY <3>1, <3>4, <3>5, NothingDone DEF Counts
  <2> QED
    BY <2>1, <2>2
<1>4. CASE StartUpdate /\ UNCHANGED <<done, gaveUp>>
  <2>1. job'.op = job.op /\ job'.left = job.left /\ job'.pc = "updating"
    BY <1>4, GotoKeeps DEF StartUpdate
  <2>2. call'.sql = Due(job.op, job.left)
    BY <1>4 DEF StartUpdate, ExecuteUpdate, Enter
  <2> QED
    BY <1>4, <2>1, <2>2 DEF StartUpdate, Counts, Prefix, Due
<1>5. CASE UNCHANGED <<job, done, gaveUp>> /\ call'.sql = call.sql
  BY <1>5 DEF Counts, Prefix, Due
<1>6. CASE job.pc = "updating" /\ StatementEnded(FALSE) /\ UNCHANGED done /\ gaveUp' = TRUE
  <2>1. job'.op = job.op /\ job'.pc = "close"
    BY <1>6 DEF StatementEnded, Jobs
  <2> QED
    BY <1>6, <2>1 DEF Counts, Prefix
<1>7. CASE /\ job.pc = "updating" /\ StatementEnded(TRUE)
           /\ done' = Append(done, call.sql) /\ UNCHANGED gaveUp
  <2>1. /\ job'.op = job.op /\ job'.left = job.left - 1
        /\ job'.pc = IF job.left = 1 THEN "close" ELSE "update"
    BY <1>7 DEF StatementEnded, Jobs
  <2>2. job.op # Null /\ done' = Append(done, Due(job.op, job.left))
    BY <1>7 DEF Counts, Jobs
  <2>3. /\ done' \in Seq(Texts) /\ Len(done') = Len(done) + 1
        /\ Len(done') <= Len(Statements(job.op)) /\ Len(done') <= 3
        /\ \A i \in 1..Len(done') : done'[i] = Statements(job.op)[i]
        /\ Len(done') = Len(Statements(job.op)) => done' = Statements(job.op)
    BY <1>7, <2>2, EffectExtends DEF Jobs
  <2>4. /\ Len(done) \in Nat /\ job.left \in 0..3 /\ job.left > 0 /\ ~gaveUp
        /\ Len(done) + job.left = Len(Statements(job.op))
    BY <1>7, LenProperties DEF Counts, Jobs
  <2>5. Len(done') + job'.left = Len(Statements(job'.op))
    BY <2>1, <2>3, <2>4
  <2>6. job.left = 1 => done' = Statements(job.op)
    BY <2>3, <2>4
  <2>7. job.left # 1 => job'.left > 0
    BY <2>1, <2>4
  <2> QED
    BY <1>7, <2>1, <2>3, <2>4, <2>5, <2>6, <2>7 DEF Counts, Prefix
<1>8. CASE Updating
  <2>1. job.pc = "updating" /\ ~gaveUp
    BY <1>8 DEF Updating, Counts
  <2>2. CASE RunDone
    <3>1. call' = Idle /\ ~Prepare /\ call.pc = "run"
      BY <2>2 DEF RunDone, Finish, Prepare
    <3> QED
      BY <1>6, <1>7, <1>8, <2>1, <3>1 DEF Updating
  <2>3. CASE Prepare /\ UNCHANGED <<job, done, gaveUp>>
    <3>1. call'.sql = call.sql
      BY <2>3 DEF Prepare, CommonInv, TypeOK, CallOK
    <3> QED
      BY <1>5, <2>3, <3>1
  <2>4. CASE /\ PrepareBusy \/ PrepareFails \/ RunBusy \/ RunFails
             /\ call' = Idle /\ StatementEnded(FALSE)
             /\ gaveUp' = TRUE /\ UNCHANGED done
    BY <1>6, <2>1, <2>4
  <2>5. CASE /\ PrepareBusy \/ PrepareFails \/ RunBusy \/ RunFails
             /\ call' # Idle /\ UNCHANGED job
             /\ gaveUp' = FALSE /\ UNCHANGED done
    <3>1. Retry
      BY <2>5 DEF PrepareBusy, PrepareFails, RunBusy, RunFails, ReturnNothing, Finish
    <3>2. call'.sql = call.sql
      BY <3>1 DEF Retry, CommonInv, TypeOK, CallOK
    <3> QED
      BY <1>5, <2>1, <2>5, <3>2 DEF Counts
  <2> QED
    BY <1>8, <2>2, <2>3, <2>4, <2>5 DEF Updating
<1>9. CASE Reading /\ UNCHANGED <<done, gaveUp>>
  <2>1. job.op = "list"
    BY <1>9 DEF Reading, TurnCachingOn, StartQuery, Querying, StartFetch, Fetching,
       ReadRow, Jobs, ReadingPcs
  <2>2. job'.op = "list" /\ job'.pc \in ReadingPcs \cup {"close"}
    BY <1>9, <2>1, GotoKeeps DEF Reading, TurnCachingOn, StartQuery, Querying,
       StartFetch, Fetching, ReadRow, ReadingPcs, Jobs
  <2>3. Prefix /\ done \in Seq(Texts) /\ Statements("list") = <<>> /\ Len(<<>>) = 0
    BY <2>1, StatementsKnown, EmptySeq, OperationAssumption DEF Counts, Operations
  <2>4. done = Statements("list")
    <3>1. Len(done) \in Nat /\ Len(done) <= 0
      BY <2>1, <2>3, LenProperties DEF Prefix
    <3> QED
      BY <2>3, <3>1, EmptySeq
  <2> QED
    BY <1>9, <2>1, <2>2, <2>4 DEF Counts, Prefix, ReadingPcs, Jobs
<1>10. CASE CloseFile /\ UNCHANGED <<done, gaveUp>>
  BY <1>2, <1>10 DEF CloseFile, Counts
<1>11. CASE Others
  <2>1. call' = call
    BY <1>11 DEF Others, Environment, OtherLocks, OtherUnlocks
  <2> QED
    BY <1>5, <1>11, <2>1 DEF Others
<1> QED
  BY <1>1, <1>3, <1>4, <1>8, <1>9, <1>10, <1>11 DEF SessionNext, Session

LEMMA WaitsNext ==
    ASSUME SessionInv, SessionNext
    PROVE  Waits'
<1> USE DEF SessionInv
<1>1. ASSUME NEW op \in Operations, Start(op)
      PROVE  Waits'
  BY <1>1 DEF Start, Waits
<1>2. ASSUME call' = Idle, job'.pc \in SessionPcs \ {"updating", "querying", "fetching"},
             opened' <=> job'.pc \notin {"none", "open"}
      PROVE  Waits'
  BY <1>2 DEF Waits
<1>3. CASE OpenFile
  <2>1. CASE opened'
    <3>1. job'.pc \in {"cache", "update"}
      BY <1>3, <2>1, GotoKeeps DEF OpenFile
    <3> QED
      BY <1>2, <1>3, <2>1, <3>1 DEF OpenFile, Open, SessionPcs, UpdatePcs, ReadingPcs
  <2>2. CASE ~opened'
    BY <1>2, <1>3, <2>2 DEF OpenFile, Open, SessionPcs, NoJob
  <2> QED
    BY <2>1, <2>2
<1>4. ASSUME NEW pc \in {"updating", "querying", "fetching"}, job'.pc = pc,
             pc = "updating" => call'.pc \in {"prepare", "run"}
                                /\ call'.method = "executeUpdate",
             pc = "querying" => call'.pc \in {"prepare", "bind"}
                                /\ call'.method = "executeQuery",
             pc = "fetching" => call'.pc = "step" /\ call'.method = "next",
             opened'
      PROVE  Waits'
  BY <1>4 DEF Waits
<1>5. CASE StartUpdate
  <2>1. /\ job'.pc = "updating" /\ opened'
        /\ call'.pc \in {"prepare", "run"} /\ call'.method = "executeUpdate"
    BY <1>5, GotoKeeps DEF StartUpdate, ExecuteUpdate, Enter, Waits
  <2> QED
    BY <1>4, <2>1
<1>6. CASE StartQuery
  <2>1. /\ job'.pc = "querying" /\ opened'
        /\ call'.pc \in {"prepare", "bind"} /\ call'.method = "executeQuery"
    BY <1>6, GotoKeeps DEF StartQuery, ExecuteQuery, Enter, Waits
  <2> QED
    BY <1>4, <2>1
<1>7. CASE StartFetch
  <2>1. /\ job'.pc = "fetching" /\ opened'
        /\ call'.pc = "step" /\ call'.method = "next"
    BY <1>7, GotoKeeps DEF StartFetch, NextRow, Waits, Idle
  <2> QED
    BY <1>4, <2>1
<1>8. CASE Prepare /\ UNCHANGED job
  <2>1. /\ call'.method = call.method /\ call.pc = "prepare"
        /\ call'.pc = IF call.method = "executeUpdate" THEN "run" ELSE "bind"
        /\ opened' = opened
    BY <1>8 DEF Prepare, CommonInv, TypeOK, CallOK
  <2> QED
    BY <1>8, <2>1 DEF Waits, Idle
<1>9. CASE Retry /\ call.pc # "idle" /\ UNCHANGED <<job, opened>>
  <2>1. /\ call'.method = call.method /\ call'.pc = call.pc
    BY <1>9 DEF Retry, CommonInv, TypeOK, CallOK
  <2> QED
    BY <1>9, <2>1 DEF Waits, Idle
<1>10. CASE Updating
  <2>1. job.pc = "updating" /\ opened /\ opened' = opened
    BY <1>10 DEF Updating, Waits, RunDone, Prepare, PrepareBusy, PrepareFails,
       RunBusy, RunFails
  <2>2. ASSUME NEW ok \in BOOLEAN, StatementEnded(ok), call' = Idle
        PROVE  Waits'
    <3>1. job'.pc \in {"close", "update"}
      BY <2>2 DEF StatementEnded, Jobs
    <3> QED
      BY <1>2, <2>1, <2>2, <3>1 DEF SessionPcs, UpdatePcs
  <2>3. RunDone => call' = Idle
    BY DEF RunDone, Finish
  <2>4. CASE PrepareBusy \/ PrepareFails \/ RunBusy \/ RunFails
    <3>1. call' = Idle \/ (Retry /\ call.pc # "idle")
      BY <2>4 DEF PrepareBusy, PrepareFails, RunBusy, RunFails, ReturnNothing, Finish
    <3>2. CASE call' = Idle
      BY <1>10, <2>1, <2>2, <2>3, <3>2, <1>8 DEF Updating
    <3>3. CASE call' # Idle
      BY <1>9, <1>10, <1>8, <2>1, <2>3, <3>1, <3>3 DEF Updating
    <3> QED
      BY <3>2, <3>3
  <2> QED
    BY <1>8, <1>10, <2>2, <2>3, <2>4 DEF Updating
<1>11. CASE TurnCachingOn
  <2>1. job'.pc = "query" /\ opened' = opened /\ opened /\ call' = Idle
    BY <1>11, GotoKeeps DEF TurnCachingOn, SetShouldCacheStatements, Waits
  <2> QED
    BY <1>2, <2>1 DEF SessionPcs, ReadingPcs
<1>12. CASE Querying
  <2>1. job.pc = "querying" /\ opened /\ opened' = opened
    BY <1>12 DEF Querying, Waits, MakeResultSet, Prepare, PrepareBusy, PrepareFails
  <2>2. CASE MakeResultSet /\ Goto("fetch")
    <3>1. job'.pc = "fetch"
      BY <2>2, GotoKeeps
    <3>2. call' = Idle
      BY <2>1, <2>2 DEF MakeResultSet, Waits
    <3> QED
      BY <1>2, <2>1, <3>1, <3>2 DEF SessionPcs, ReadingPcs
  <2>3. CASE call' = Idle /\ Goto("close")
    <3>1. job'.pc = "close"
      BY <2>3, GotoKeeps
    <3> QED
      BY <1>2, <2>1, <2>3, <3>1 DEF SessionPcs
  <2>4. CASE (PrepareBusy \/ PrepareFails) /\ call' # Idle /\ UNCHANGED job
    <3>1. Retry /\ call.pc # "idle"
      BY <2>4 DEF PrepareBusy, PrepareFails, ReturnNothing
    <3> QED
      BY <1>9, <2>1, <2>4, <3>1
  <2> QED
    BY <1>8, <1>12, <2>2, <2>3, <2>4 DEF Querying
<1>13. CASE Fetching
  <2>1. /\ job.pc = "fetching" /\ opened /\ opened' = opened
        /\ call.pc = "step" /\ call.method = "next"
    BY <1>13 DEF Fetching, Waits, StepRow, StepBusy, StepFails, StepDone
  <2>2. CASE StepRow /\ Goto("read")
    <3>1. job'.pc = "read"
      BY <2>2, GotoKeeps
    <3>2. call' = Idle
      BY <2>1, <2>2 DEF StepRow
    <3> QED
      BY <1>2, <2>1, <3>1, <3>2 DEF SessionPcs, ReadingPcs
  <2>3. CASE call' = Idle /\ Goto("close")
    <3>1. job'.pc = "close"
      BY <2>3, GotoKeeps
    <3> QED
      BY <1>2, <2>1, <2>3, <3>1 DEF SessionPcs
  <2>4. CASE (StepBusy \/ StepFails \/ StepDone) /\ call' # Idle /\ UNCHANGED job
    <3>1. Retry
      BY <2>4 DEF StepBusy, StepFails, StepDone, NoRow
    <3> QED
      BY <1>9, <2>1, <2>4, <3>1
  <2> QED
    BY <1>13, <2>2, <2>3, <2>4 DEF Fetching
<1>14. CASE ReadRow
  <2>1. job'.pc = "fetch" /\ opened' = opened /\ opened /\ call' = Idle
    BY <1>14, GotoKeeps DEF ReadRow, ReadColumn, MayTouch, Waits
  <2> QED
    BY <1>2, <2>1 DEF SessionPcs, ReadingPcs
<1>15. CASE CloseFile
  BY <1>2, <1>15 DEF CloseFile, Close, NoJob, SessionPcs
<1>16. CASE Others
  BY <1>16 DEF Others, Environment, OtherLocks, OtherUnlocks, Waits
<1> QED
  BY <1>1, <1>3, <1>5, <1>6, <1>7, <1>10, <1>11, <1>12, <1>13, <1>14, <1>15, <1>16
     DEF SessionNext, Session, Reading

\* What FMDatabase does to the statements the result sets have.
LEMMA AliveStays ==
    ASSUME CommonInv, NEW t \in Stmt \cup {Null}, NEW l \in {"row", "done"},
           stmts' = stmts \/ (t # Null /\ stmts' = [stmts EXCEPT ![t].life = l]),
           NEW s \in Stmt, Alive(s)
    PROVE  stmts'[s].life \in {"ready", "row", "done"}
BY DEF CommonInv, TypeOK, StatementsOK, Alive

LEMMA ClearNext ==
    ASSUME SessionInv, SessionNext
    PROVE  Clear'
<1> USE DEF SessionInv
<1>0. /\ stmts \in [Stmt -> [life : Lives, sql : SQL \cup {Null},
                             arg : Arg \cup {Null}, kept : BOOLEAN]]
      /\ cache \in [SQL -> Stmt \cup {Null}] /\ slots \in [Slots -> Stmt \cup {Null}]
      /\ shouldCache \in BOOLEAN
  BY DEF CommonInv, TypeOK, StatementsOK, FlagsOK
<1>1. ASSUME NEW op \in Operations, Start(op)
      PROVE  Clear'
  <2>1. call' = Idle /\ job'.pc = "open"
    BY <1>1 DEF Start, Waits
  <2> QED
    BY <1>1, <2>1 DEF Start, Clear, Idle
<1>2. CASE OpenFile
  <2>1. job.pc = "open" /\ call' = Idle /\ ~opened
    BY <1>2 DEF OpenFile, Open
  <2>2. \A q \in SQL : cache[q] = Null
    BY <2>1 DEF CommonInv, Pointers
  <2> QED
    BY <1>2, <2>1, <2>2 DEF OpenFile, Open, Clear, Idle
<1>3. CASE StartUpdate
  <2>1. call'.pc = "prepare" /\ UNCHANGED <<stmts, slots, shouldCache, opened, faults>>
    BY <1>3 DEF StartUpdate, ExecuteUpdate, Enter, Clear, UpdatePcs
  <2>2. job.pc = "update" /\ job'.pc = "updating"
    BY <1>3, GotoKeeps DEF StartUpdate
  <2> QED
    BY <2>1, <2>2 DEF Clear, Alive, UpdatePcs
<1>4. CASE Prepare /\ UNCHANGED job
  <2>1. /\ Fresh \in Stmt /\ \A r \in Slots : slots[r] # Fresh
    BY <1>4 DEF Prepare, Fresh, Free
  <2>2. stmts'[Fresh].life = "ready"
    BY <1>0, <1>4, <2>1 DEF Prepare, Unprepared
  <2>3. \A r \in Slots : slots[r] # Null => stmts'[slots[r]] = stmts[slots[r]]
    BY <1>0, <1>4, <2>1 DEF Prepare
  <2>4. call'.stmt = Fresh
    BY <1>4 DEF Prepare, CommonInv, TypeOK, CallOK
  <2>5. UNCHANGED <<cache, slots, shouldCache, opened, faults>>
    BY <1>4 DEF Prepare
  <2> QED
    BY <1>4, <2>2, <2>3, <2>4, <2>5 DEF Clear, Alive
<1>5. CASE Retry /\ UNCHANGED <<job, stmts, cache, slots, shouldCache, opened, faults>>
  <2>1. call'.pc = call.pc /\ call'.stmt = call.stmt
    BY <1>5 DEF Retry, CommonInv, TypeOK, CallOK
  <2> QED
    BY <1>5, <2>1 DEF Clear, Alive
<1>6. CASE /\ PrepareBusy \/ PrepareFails
           /\ \/ call' = Idle /\ (Goto("close") \/ StatementEnded(FALSE))
              \/ call' # Idle /\ UNCHANGED job
           /\ job.pc \in {"updating", "querying"}
  <2>1. UNCHANGED <<stmts, cache, shouldCache, opened, faults>>
    BY <1>6 DEF PrepareBusy, PrepareFails
  <2>2. CASE ReturnNothing
    <3>1. \A r \in Slots : slots'[r] \in {slots[r], Null}
      BY <1>0, <2>2 DEF ReturnNothing
    <3>2. call' = Idle
      BY <2>2 DEF ReturnNothing
    <3>3. job'.pc \in {"close", "update"} /\ (job'.pc = "update" => job.pc = "updating")
      BY <1>6, <3>2, GotoKeeps DEF StatementEnded, Jobs, Waits, UpdatePcs, Goto
    <3> QED
      BY <2>1, <3>1, <3>2, <3>3 DEF Clear, Alive, Idle, UpdatePcs
  <2>3. CASE ~ReturnNothing
    <3>1. Retry /\ UNCHANGED slots
      BY <1>6, <2>3 DEF PrepareBusy, PrepareFails
    <3>2. CASE UNCHANGED job
      BY <1>5, <2>1, <3>1, <3>2
    <3>3. CASE call' = Idle
      <4>1. call.pc = "prepare"
        BY <1>6 DEF PrepareBusy, PrepareFails
      <4> QED
        BY <3>1, <3>3, <4>1 DEF Retry, Idle, CommonInv, TypeOK, CallOK
    <3> QED
      BY <1>6, <3>2, <3>3
  <2> QED
    BY <2>2, <2>3
<1>7. CASE Updating /\ (Finish(TRUE) \/ Finish(FALSE))
  <2>1. job.pc = "updating" /\ \A r \in Slots : slots[r] = Null
    BY <1>7 DEF Updating, Clear, UpdatePcs
  <2>2. call.pc \in {"bind", "run"} => Misused(call.stmt) = {}
    BY DEF Clear, Alive, Misused, Dangling
  <2>3. UNCHANGED <<opened, shouldCache>> /\ faults' = {} /\ call' = Idle
    BY <1>7, <2>2 DEF Updating, RunDone, RunFails, RunBusy, Prepare, PrepareBusy,
       PrepareFails, Finish, Clear
  <2>4. \A r \in Slots : slots'[r] = Null
    BY <1>0, <1>7, <2>1 DEF Updating, RunDone, RunFails, RunBusy, Prepare,
       PrepareBusy, PrepareFails, ReturnNothing
  <2>5. job'.pc \in {"update", "close"}
    BY <1>7, <2>1, <2>3 DEF Updating, StatementEnded, Jobs, Prepare, Idle, CommonInv,
       TypeOK, CallOK
  <2> QED
    BY <2>1, <2>3, <2>4, <2>5 DEF Clear, UpdatePcs, Idle
<1>8. CASE Updating
  <2>1. CASE RunDone \/ RunFails
    <3>1. Finish(TRUE) \/ Finish(FALSE)
      BY <2>1 DEF RunDone, RunFails
    <3> QED
      BY <1>7, <1>8, <3>1
  <2>2. CASE RunBusy /\ TimedOut
    BY <1>7, <1>8, <2>2 DEF RunBusy
  <2>3. CASE RunBusy /\ ~TimedOut
    <3>1. Retry /\ call.pc = "run" /\ UNCHANGED <<stmts, cache>>
      BY <2>3 DEF RunBusy
    <3>2. call' # Idle
      BY <3>1 DEF Retry, Idle, CommonInv, TypeOK, CallOK
    <3>3. UNCHANGED <<slots, shouldCache, opened, faults>>
      BY <2>3 DEF RunBusy
    <3>4. ~RunDone /\ ~Prepare
      BY <2>3, <3>1 DEF RunBusy, RunDone, Prepare
    <3> QED
      BY <1>5, <1>8, <3>1, <3>2, <3>3, <3>4 DEF Updating
  <2>4. CASE PrepareBusy \/ PrepareFails
    <3>1. ~RunDone
      BY <2>4 DEF PrepareBusy, PrepareFails, RunDone
    <3>2. job.pc = "updating"
      BY <1>8 DEF Updating
    <3> QED
      BY <1>4, <1>6, <1>8, <2>4, <3>1, <3>2 DEF Updating
  <2>5. CASE Prepare
    <3>1. ~RunDone /\ ~RunFails /\ ~RunBusy /\ ~PrepareBusy
      BY <2>5 DEF PrepareBusy, Prepare, RunDone, RunFails, RunBusy
    <3> QED
      BY <1>4, <1>8, <2>4, <2>5, <3>1 DEF Updating
  <2> QED
    BY <1>8, <2>1, <2>2, <2>3, <2>4, <2>5 DEF Updating
<1>9. CASE TurnCachingOn
  <2>1. job.pc = "cache" /\ job'.pc = "query"
    BY <1>9, GotoKeeps DEF TurnCachingOn
  <2>2. \A q \in SQL : cache'[q] = Null
    BY <1>9, <2>1 DEF TurnCachingOn, SetShouldCacheStatements, Clear
  <2>3. call' = Idle
    BY <1>9 DEF TurnCachingOn, SetShouldCacheStatements
  <2> QED
    BY <1>9, <2>1, <2>2, <2>3 DEF TurnCachingOn, SetShouldCacheStatements, Clear,
       Alive, UpdatePcs, Idle
<1>10. CASE StartQuery
  <2>1. job.pc = "query" /\ job'.pc = "querying"
    BY <1>10, GotoKeeps DEF StartQuery
  <2>2. call'.pc = "prepare"
    BY <1>10, <2>1 DEF StartQuery, ExecuteQuery, Enter, Clear, SQL
  <2> QED
    BY <1>10, <2>1, <2>2 DEF StartQuery, ExecuteQuery, Enter, Clear, Alive, UpdatePcs
<1>11. CASE Querying /\ MakeResultSet
  <2> DEFINE s == call.stmt
  <2>1. /\ s \in Stmt /\ Alive(s) /\ call.slot \in Slots /\ opened
        /\ call.method = "executeQuery" /\ job.pc = "querying"
    BY <1>11 DEF Querying, MakeResultSet, CommonInv, Calls, Clear, Waits
  <2>2. \A t \in Stmt : stmts'[t].life = stmts[t].life
    BY <1>0, <1>11, <2>1 DEF MakeResultSet, Bound
  <2>3. faults' = {} /\ call' = Idle
    <3>1. Misused(s) = {}
      BY <2>1 DEF Misused, Dangling, Alive
    <3> QED
      BY <1>11, <2>1, <3>1 DEF MakeResultSet, Clear
  <2>4. \A r \in Slots : slots'[r] = IF r = call.slot THEN s ELSE slots[r]
    BY <1>0, <1>11, <2>1 DEF MakeResultSet
  <2>5. \A r \in Slots : slots'[r] # Null =>
            stmts'[slots'[r]].life \in {"ready", "row", "done"}
    BY <1>0, <2>1, <2>2, <2>4 DEF Clear, Alive
  <2>6. job'.pc = "fetch"
    <3>1. call.pc = "bind"
      BY <1>11 DEF MakeResultSet
    <3> QED
      BY <1>11, <3>1, GotoKeeps DEF Querying, Prepare, PrepareBusy, PrepareFails
  <2> QED
    BY <2>3, <2>5, <2>6 DEF Clear, Alive, UpdatePcs, Idle
<1>12. CASE Querying
  BY <1>4, <1>6, <1>11, <1>12 DEF Querying
<1>13. CASE StartFetch
  <2>1. job'.pc = "fetching" /\ call'.pc = "step"
    BY <1>13, GotoKeeps DEF StartFetch, NextRow, Idle
  <2> QED
    BY <1>13, <2>1 DEF StartFetch, NextRow, Clear, Alive, UpdatePcs
<1>14. CASE Fetching
  <2> DEFINE s == Statement(call.slot)
  <2>1. /\ job.pc = "fetching" /\ call.pc = "step" /\ call.method = "next" /\ opened
        /\ call.slot \in Slots /\ s \in Stmt \cup {Null}
    BY <1>14, StatementType DEF Fetching, Waits, CommonInv, TypeOK, Calls
  <2>2. s # Null => Alive(s)
    BY <2>1 DEF Statement, Clear
  <2>3. faults' = {} /\ UNCHANGED <<opened, shouldCache>>
    <3>1. Misused(s) = {}
      BY <2>2 DEF Misused, Dangling, Alive
    <3> QED
      BY <1>14, <3>1 DEF Fetching, StepRow, StepBusy, StepFails, StepDone, Clear
  <2>4. stmts' = stmts \/ (s # Null /\ \E l \in {"row", "done"} :
                               stmts' = [stmts EXCEPT ![s].life = l])
    BY <1>14 DEF Fetching, StepRow, StepBusy, StepFails, StepDone
  <2>5. \A r \in Slots : slots[r] # Null =>
            stmts'[slots[r]].life \in {"ready", "row", "done"}
    BY <1>0, <2>1, <2>4, AliveStays DEF Clear
  <2>6. \A r \in Slots : slots'[r] \in {slots[r], Null}
    BY <1>0, <1>14, <2>1 DEF Fetching, StepRow, StepBusy, StepFails, StepDone, NoRow
  <2>7. call'.pc \in {"idle", "step"}
    <3>1. call' = Idle \/ Retry
      BY <1>14, <2>1 DEF Fetching, StepRow, StepBusy, StepFails, StepDone, NoRow
    <3>2. Retry => call'.pc = call.pc
      BY DEF Retry, CommonInv, TypeOK, CallOK
    <3> QED
      BY <2>1, <3>1, <3>2 DEF Idle
  <2>8. job'.pc \in {"read", "close", "fetching"}
    BY <1>14, <2>1, GotoKeeps DEF Fetching
  <2> QED
    BY <2>3, <2>5, <2>6, <2>7, <2>8 DEF Clear, Alive, UpdatePcs
<1>15. CASE ReadRow
  <2>1. job.pc = "read" /\ job'.pc = "fetch" /\ Rs \in Slots /\ opened /\ call' = Idle
    BY <1>15, GotoKeeps, RsAssumption DEF ReadRow, ReadColumn, MayTouch, Slots, Waits
  <2>2. Misused(Statement(Rs)) = {}
    BY <2>1 DEF Statement, Clear, Misused, Dangling, Alive
  <2> QED
    BY <1>15, <2>1, <2>2 DEF ReadRow, ReadColumn, Clear, Alive, UpdatePcs, Idle
<1>16. CASE CloseFile
  BY <1>16 DEF CloseFile, Close, NoJob, Clear, UpdatePcs, Idle
<1>17. CASE Others
  BY <1>17 DEF Others, Environment, OtherLocks, OtherUnlocks, Clear, Alive
<1> QED
  BY <1>1, <1>2, <1>3, <1>8, <1>9, <1>10, <1>12, <1>13, <1>14, <1>15, <1>16, <1>17
     DEF SessionNext, Session, Reading

LEMMA SessionInvNext ==
    ASSUME SessionInv, [SessionNext]_vars
    PROVE  SessionInv'
<1>1. CASE SessionNext
  BY <1>1, SessionCommon, JobsNext, CountsNext, WaitsNext, ClearNext DEF SessionInv
<1>2. CASE UNCHANGED vars
  <2>1. CommonInv'
    BY <1>2, Stays DEF vars, databaseVars, SessionInv, CommonInv, TypeOK
  <2>2. Jobs' /\ Counts'
    BY <1>2 DEF vars, databaseVars, SessionInv, Jobs, Counts, Prefix, Due
  <2>3. Waits' /\ Clear'
    BY <1>2 DEF vars, databaseVars, SessionInv, Waits, Clear, Alive
  <2> QED
    BY <2>1, <2>2, <2>3 DEF SessionInv
<1> QED
  BY <1>1, <1>2

LEMMA SessionInvAlways == SessionSpec => []SessionInv
BY SessionInitInv, SessionInvNext, PTL DEF SessionSpec

(***************************************************************************)
(* What holds for every value of the constants.                            *)
(***************************************************************************)

\* The variables of a session, and those of the database under it, have their
\* types: no more statements take effect than an operation has.
THEOREM SessionTypes == SessionSpec => []SessionTypeOK
<1>1. SessionInv => SessionTypeOK
  BY DEF SessionInv, CommonInv, Jobs, Counts, SessionTypeOK, SessionPcs, UpdatePcs,
     ReadingPcs
<1> QED
  BY <1>1, SessionInvAlways, PTL

\* Whichever way an operation ends, the database is closed, no statement of it
\* is alive and it holds no lock of the file.
THEOREM NothingLeftBehind == SessionSpec => []NothingLeft
<1>1. SessionInv => NothingLeft
  BY DEF SessionInv, CommonInv, Waits, ClosedMeansReleased, NothingLeft, Held, Alive
<1> QED
  BY <1>1, SessionInvAlways, PTL

\* The app's sessions never use a statement that was released, although they
\* turn the cache on for lists, and find inUse down at every call.
THEOREM SessionsSafe == SessionSpec => []SessionsAreSafe
<1>1. SessionInv => SessionsAreSafe
  BY DEF SessionInv, CommonInv, Clear, InUseExactly, SessionsAreSafe
<1> QED
  BY <1>1, SessionInvAlways, PTL

\* A session implements StoreService: its statements take effect in order, each
\* at most once however often SQLite was busy, none after one that failed; it
\* ends before the last only if one failed or the file did not open, and the next
\* operation begins only then.
THEOREM SessionsImplementStore == SessionSpec => StoreServiceSpec
<1>1. SessionInit => Store!Init
  BY DEF SessionInit, NoJob, Store!Init
<1>2. SessionInv /\ SessionInv' /\ [SessionNext]_vars
      => [Store!Next]_<<job.op, done, gaveUp>>
  <2> SUFFICES ASSUME SessionInv, SessionInv', [SessionNext]_vars
               PROVE  [Store!Next]_<<job.op, done, gaveUp>>
    OBVIOUS
  <2> USE DEF SessionInv
  <2>1. ASSUME NEW op \in Operations, Start(op)
        PROVE  Store!Begin(op)
    BY <2>1 DEF Start, Jobs, Store!Begin
  <2>2. ASSUME NEW pc, Goto(pc), UNCHANGED <<done, gaveUp>>
        PROVE  UNCHANGED <<job.op, done, gaveUp>>
    BY <2>2, GotoKeeps
  <2>3. CASE OpenFile /\ UNCHANGED done
    <3>1. job.pc = "open" /\ job.op # Null /\ ~gaveUp /\ done = <<>>
      BY <2>3 DEF OpenFile, Jobs, Counts
    <3>2. CASE opened'
      <4>1. UNCHANGED gaveUp
        BY <2>3, <3>1, <3>2 DEF OpenFile, Counts
      <4> QED
        BY <2>2, <2>3, <3>2, <4>1 DEF OpenFile
    <3>3. CASE ~opened'
      <4>1. job'.op = Null
        BY <2>3, <3>3 DEF OpenFile, NoJob
      <4>2. gaveUp' = TRUE
        BY <2>3, <3>3, Zenon DEF OpenFile
      <4> QED
        BY <2>3, <3>1, <4>1, <4>2 DEF Store!Refuse, Store!Next
    <3> QED
      BY <3>2, <3>3
  <2>4. CASE Updating
    <3>1. job.pc = "updating" /\ job.op # Null /\ ~gaveUp
      BY <2>4 DEF Updating, Jobs, Counts, UpdatePcs
    <3>2. ASSUME NEW ok \in BOOLEAN, StatementEnded(ok)
          PROVE  job'.op = job.op
      BY <3>2 DEF StatementEnded, Jobs
    <3>3. Len(done) < Len(Statements(job.op))
      BY <3>1, DueIsNext DEF Jobs, UpdatePcs
    <3>4. CASE RunDone
      <4>1. call' = Idle /\ ~Prepare /\ ~PrepareBusy /\ ~PrepareFails /\ ~RunBusy
        BY <3>4 DEF RunDone, Finish, Prepare, PrepareBusy, PrepareFails, RunBusy
      <4>2. \/ StatementEnded(TRUE) /\ done' = Append(done, call.sql) /\ UNCHANGED gaveUp
            \/ StatementEnded(FALSE) /\ UNCHANGED done /\ gaveUp' = TRUE
        BY <2>4, <4>1 DEF Updating
      <4>3. CASE StatementEnded(TRUE) /\ done' = Append(done, call.sql) /\ UNCHANGED gaveUp
        <5>1. call.sql = Statements(job.op)[Len(done) + 1]
          BY <3>1, DueIsNext DEF Counts, UpdatePcs, Jobs
        <5> QED
          BY <3>1, <3>2, <3>3, <4>3, <5>1 DEF Store!GoesOn, Store!Effect, Store!Next
      <4>4. CASE StatementEnded(FALSE) /\ UNCHANGED done /\ gaveUp' = TRUE
        BY <3>1, <3>2, <3>3, <4>4 DEF Store!GoesOn, Store!Fail, Store!Next
      <4> QED
        BY <4>2, <4>3, <4>4
    <3>5. CASE Prepare /\ UNCHANGED <<job, done, gaveUp>>
      BY <3>5
    <3>6. CASE /\ gaveUp' = (call' = Idle) /\ UNCHANGED done
               /\ IF call' = Idle THEN StatementEnded(FALSE) ELSE UNCHANGED job
      <4>1. CASE call' = Idle
        BY <3>1, <3>2, <3>3, <3>6, <4>1 DEF Store!GoesOn, Store!Fail, Store!Next
      <4>2. CASE call' # Idle
        BY <3>1, <3>6, <4>2 DEF Counts
      <4> QED
        BY <4>1, <4>2
    <3> QED
      BY <2>4, <3>4, <3>5, <3>6 DEF Updating
  <2>5. CASE CloseFile /\ UNCHANGED <<done, gaveUp>>
    <3>1. job.op # Null /\ (gaveUp \/ done = Statements(job.op)) /\ job'.op = Null
      BY <2>5 DEF CloseFile, Jobs, Counts, NoJob
    <3> QED
      BY <2>5, <3>1 DEF Store!End, Store!Next
  <2>6. CASE (StartUpdate \/ Reading) /\ UNCHANGED <<done, gaveUp>>
    BY <2>2, <2>6 DEF StartUpdate, Reading, TurnCachingOn, StartQuery, Querying,
       StartFetch, Fetching, ReadRow
  <2>7. CASE Others \/ UNCHANGED vars
    BY <2>7 DEF Others, vars
  <2> QED
    BY <2>1, <2>3, <2>4, <2>5, <2>6, <2>7 DEF SessionNext, Session, Store!Next
<1> QED
  BY <1>1, <1>2, SessionInvAlways, PTL DEF SessionSpec, StoreServiceSpec, Store!Spec

=============================================================================
