----------------------------- MODULE DBConnector -----------------------------
(***************************************************************************)
(* SqlMgr/DBConnector.m and SqlMgr/SQLMgr.m on FMDatabase: every operation *)
(* of the app on its local file is a session of its own on the main        *)
(* thread: a new SQLMgr, connect, open, its statements, close, disconnect. *)
(* What the statements do to the tables is LocalStore's subject; here it   *)
(* is how a session uses the database object.                              *)
(***************************************************************************)
EXTENDS FMDatabase, Sequences

CONSTANT Rs  \* SQLMgr.rs

ASSUME RsAssumption == Slot = {Rs}

VARIABLES job,    \* the session: the operation, where it is, statements to go
          done,   \* history: its statements that have taken effect, in order
          gaveUp  \* history: its file did not open or a statement of it failed

vars == <<databaseVars, job, done, gaveUp>>

\* createTables; insertBuildQuery, updateBuildQuery:, deleteBuildQuery:,
\* insertIntoHistory:, updateHistory:, AddToHistory:, DeleteFromHistory:;
\* getQuerys, getHistoryArray, getDeletedArray.
Operations == {"createTables", "write", "list"}

\* The texts an operation gives to executeUpdate:, in order.  A "write" is one
\* INSERT, UPDATE or DELETE; a list only reads.
Statements(op) ==
    CASE op = "createTables" -> <<"CREATE History", "CREATE Connect", "CREATE Query">>
      [] op = "write"        -> <<"write">>
      [] OTHER               -> <<>>

Texts == {"CREATE History", "CREATE Connect", "CREATE Query", "write"}

ASSUME OperationAssumption == Null \notin Operations /\ Texts \subseteq Update

NoJob == [op |-> Null, pc |-> "none", left |-> 0]

Goto(pc) == job' = [job EXCEPT !.pc = pc]

SessionInit == /\ InitDatabase /\ locked \in BOOLEAN
               /\ job = NoJob /\ done = <<>> /\ gaveUp = FALSE

\* [[SQLMgr alloc] init] and connect: a new FMDatabase, with no cache.
Start(op) ==
    /\ job.pc = "none"
    /\ job' = [op |-> op, pc |-> "open", left |-> Len(Statements(op))]
    /\ cache' = [q \in SQL |-> Null]
    /\ shouldCache' = FALSE
    /\ slots' = [r \in Slots |-> Null]
    /\ done' = <<>> /\ gaveUp' = FALSE
    /\ UNCHANGED <<opened, stmts, inUse, inTransaction, transaction, locked,
                   call, answer, faults>>

\* open; when it fails the session is over.
OpenFile ==
    /\ job.pc = "open"
    /\ Open
    /\ gaveUp' = ~opened'
    /\ IF ~opened' THEN job' = NoJob
       ELSE Goto(IF job.op = "list" THEN "cache" ELSE "update")

\* Mutant: a failed statement returns at once.
StatementEndedNoClose(ok) ==
    job' = IF ~ok THEN NoJob
           ELSE [job EXCEPT !.left = @ - 1,
                    !.pc = IF job.left = 1 THEN "close" ELSE "update"]

\* Mutant: the statement after the one that ended is skipped.
StatementEndedSkips(ok) ==
    job' = [job EXCEPT !.left = @ - 2,
               !.pc = IF ~ok \/ job.left = 1 THEN "close" ELSE "update"]

\* Mutant: the answer of executeUpdate: is not looked at.
StatementEndedGoesOn(ok) ==
    job' = [job EXCEPT !.left = @ - 1,
               !.pc = IF job.left = 1 THEN "close" ELSE "update"]

\* if(![mDatabase executeUpdate:query]) { [mDatabase close]; return; }
StatementEnded(ok) ==
    job' = [job EXCEPT !.left = @ - 1,
               !.pc = IF ~ok \/ job.left = 1 THEN "close" ELSE "update"]

\* The statement whose turn it is.
Due(op, left) == Statements(op)[Len(Statements(op)) - left + 1]

\* SQLMgr.executeUpdate:.
StartUpdate ==
    /\ job.pc = "update"
    /\ ExecuteUpdate(Due(job.op, job.left))
    /\ Goto("updating")

\* The statement takes effect when sqlite3_step says so.
Updating ==
    /\ job.pc = "updating"
    /\ \/ /\ RunDone
          /\ IF call' = Idle THEN StatementEnded(TRUE) ELSE UNCHANGED job
          /\ done' = Append(done, call.sql)
          /\ UNCHANGED gaveUp
       \/ Prepare /\ UNCHANGED <<job, done, gaveUp>>
       \/ /\ PrepareBusy \/ PrepareFails \/ RunBusy \/ RunFails
          /\ IF call' = Idle THEN StatementEnded(FALSE) ELSE UNCHANGED job
          /\ gaveUp' = (call' = Idle)
          /\ UNCHANGED done

\* SQLMgr.executeQuery: turns caching on, then asks.
TurnCachingOn ==
    /\ job.pc = "cache"
    /\ SetShouldCacheStatements(TRUE)
    /\ Goto("query")

StartQuery ==
    /\ job.pc = "query"
    /\ \E q \in Query, a \in Arg : ExecuteQuery(q, a, Rs)
    /\ Goto("querying")

Querying ==
    /\ job.pc = "querying"
    /\ \/ MakeResultSet /\ Goto("fetch")
       \/ Prepare /\ UNCHANGED job
       \/ /\ PrepareBusy \/ PrepareFails
          /\ IF call' = Idle THEN Goto("close") ELSE UNCHANGED job

\* while([mDatabase next])
StartFetch ==
    /\ job.pc = "fetch"
    /\ NextRow(Rs)
    /\ Goto("fetching")

\* Mutant: a row that could not be stepped to is asked for again.
FetchingForever ==
    /\ job.pc = "fetching"
    /\ \/ StepRow /\ Goto("read")
       \/ /\ StepBusy \/ StepFails \/ StepDone
          /\ IF call' = Idle THEN Goto("fetch") ELSE UNCHANGED job

Fetching ==
    /\ job.pc = "fetching"
    /\ \/ StepRow /\ Goto("read")
       \/ /\ StepBusy \/ StepFails \/ StepDone
          /\ IF call' = Idle THEN Goto("close") ELSE UNCHANGED job

\* The getValue: calls that fill an item.
ReadRow ==
    /\ job.pc = "read"
    /\ ReadColumn(Rs)
    /\ Goto("fetch")

\* close, and disconnect, which lets go of the FMDatabase.
CloseFile ==
    /\ job.pc = "close"
    /\ Close
    /\ job' = NoJob

Reading == TurnCachingOn \/ StartQuery \/ Querying \/ StartFetch \/ Fetching
           \/ ReadRow
Session == \/ Updating
           \/ OpenFile /\ UNCHANGED done
           \/ (StartUpdate \/ Reading \/ CloseFile) /\ UNCHANGED <<done, gaveUp>>
Others  == Environment /\ UNCHANGED <<job, done, gaveUp>>

SessionNext == Session \/ (\E op \in Operations : Start(op)) \/ Others
SessionSpec == SessionInit /\ [][SessionNext]_vars

\* The main thread goes on with the operation it entered.
SessionFairSpec == SessionSpec /\ WF_vars(Session)

(***************************************************************************)
(* Properties.                                                             *)
(***************************************************************************)
SessionTypeOK ==
    /\ TypeOK
    /\ done \in Seq(Texts) /\ Len(done) <= 3
    /\ gaveUp \in BOOLEAN
    /\ job \in [op : Operations \cup {Null}, left : 0..3,
                pc : {"none", "open", "update", "updating", "cache", "query",
                      "querying", "fetch", "fetching", "read", "close"}]

\* Whichever way an operation ends, it leaves nothing of itself on the file:
\* the database is closed and no statement of it is alive, so that a later
\* operation never meets its own predecessor's lock.
NothingLeft ==
    job.pc = "none" => ~opened /\ ~Held /\ \A s \in Stmt : ~Alive(s)

\* The sessions of the app stay clear of the statement cache's defect: no
\* finalized statement is used, and every call finds the database free.
SessionsAreSafe == faults = {} /\ (call.pc = "idle" => ~inUse)

\* busyRetryTimeout is 0 in the app: an operation ends if the other connections
\* leave the file alone in the end.
OperationsEnd == <>[]~locked => (job.pc # "none" ~> job.pc = "none")

\* A session is all its caller may count on: its statements take effect in
\* order, each at most once however often sqlite3_step was busy, none after one
\* that failed, and it ends before the last one only if one failed or the file
\* did not open.
Store == INSTANCE StoreService WITH
    op <- job.op, failed <- gaveUp, Op <- Operations, Effects <- Statements
StoreServiceSpec == Store!Spec
=============================================================================
