------------------------------ MODULE SQLClient ------------------------------
(***************************************************************************)
(* mssql/SQLClient/SQLClient.m: the singleton that runs connect: and       *)
(* execute: as blocks on a CONCURRENT worker queue and reports to blocks   *)
(* on the serial main queue.  The two handles FreeTDS gives out, the       *)
(* LOGINREC `login` and the DBPROCESS `connection`, are instance variables *)
(* shared by every block, and each call reads them again.                  *)
(*                                                                         *)
(* A request r is one connect:, and one execute: if its completion asks    *)
(* for it; the records r's calls allocate are named r.  FreeTDS itself is  *)
(* external: a call may succeed or fail and fails on NULL.  On a record    *)
(* that was already freed it is recorded in `faults`, answers either way,  *)
(* and what it reads is Unknown; that it may break the rest of the process *)
(* is left out.                                                            *)
(***************************************************************************)
EXTENDS Naturals, Sequences

CONSTANTS Req,        \* requests
          Target,     \* server, credentials and database a request is for
          Null,       \* nil / NULL
          Unknown,    \* whatever freed memory holds
          Noted,      \* the misuses of handles that are recorded
          MaxTables   \* bound: result sets one statement returns

ASSUME NullAssumption    == Null \notin Req \cup Target
ASSUME UnknownAssumption == Unknown \notin Target \cup {Null}
ASSUME TablesAssumption == MaxTables \in Nat /\ Null \notin 0..MaxTables

VARIABLES params,      \* self.host, username, password, database
          login,       \* LOGINREC* login
          connection,  \* DBPROCESS* connection
          logins,      \* the LOGINREC each connect: allocated
          procs,       \* the DBPROCESS each connect: opened
          cpc,         \* where the block of connect: is
          epc,         \* where the block of execute: is
          columns,     \* execute: blocks whose COL array is allocated
          output,      \* number of tables in execute:'s output array
          via,         \* the connections execute:'s calls were made on
          queue,       \* callbackQueue, the main operation queue
          faults       \* misuses of FreeTDS handles so far

\* Nothing reads faults: a run that does not ask about misuses notes none.
Note(misuses) == faults' = faults \cup (misuses \cap Noted)

clientVars == <<params, login, connection, logins, procs, cpc, epc, columns,
                output, via, queue, faults>>

NoLogin == [state |-> "none", for |-> Null]
NoProc  == [state |-> "none", user |-> Null, host |-> Null, db |-> Null]

Executing == {"cmd", "sqlexec", "results", "rows"}

InitClient ==
    /\ params = Null
    /\ login = Null
    /\ connection = Null
    /\ logins = [r \in Req |-> NoLogin]
    /\ procs = [r \in Req |-> NoProc]
    /\ cpc = [r \in Req |-> "idle"]
    /\ epc = [r \in Req |-> "idle"]
    /\ columns = {}
    /\ output = [r \in Req |-> 0]
    /\ via = [r \in Req |-> {}]
    /\ queue = <<>>
    /\ faults = {}

(***************************************************************************)
(* What the main thread calls.                                             *)
(***************************************************************************)

\* Mutant: the arguments are saved by the first call only.
ConnectOnce(r, t) ==
    /\ params' = IF params = Null THEN t ELSE params
    /\ cpc' = [cpc EXCEPT ![r] = "login"]

\* connect: saves its arguments in the shared properties and queues a block.
Connect(r, t) ==
    /\ params' = t
    /\ cpc' = [cpc EXCEPT ![r] = "login"]

\* execute: queues a block.
Execute(r) == epc' = [epc EXCEPT ![r] = "cmd"]

Freed(h) == h # Null /\ procs[h].state = "closed"

\* connected: the answers !dbdead(connection) may give.  A live connection may
\* have been lost; NULL is dead; a freed record answers anything.
Connected == IF connection = Null THEN {FALSE} ELSE BOOLEAN

\* disconnect: dbclose(connection); the pointer is kept.
Disconnect ==
    IF connection = Null
    THEN UNCHANGED <<procs, faults>>
    ELSE /\ procs' = [procs EXCEPT ![connection].state = "closed"]
         /\ Note(IF Freed(connection) THEN {"double close"} ELSE {})

(***************************************************************************)
(* The block of connect:, on a worker thread.                              *)
(***************************************************************************)
Block(k, r) == [kind |-> k, req |-> r]

\* Mutant: err_handler forwards nothing.
SilentFailure(k, r) == Append(queue, Block(k, r))

\* A FreeTDS call that fails first runs err_handler, which queues error:.
Failure(k, r) == Append(Append(queue, Block("error", r)), Block(k, r))

ConnectionFailure(r) ==
    /\ queue' = Failure("failed", r)
    /\ cpc' = [cpc EXCEPT ![r] = "loginfree"]

ConnectionSuccess(r) ==
    /\ queue' = Append(queue, Block("connected", r))
    /\ cpc' = [cpc EXCEPT ![r] = "loginfree"]

\* login = dblogin()
Login(r) ==
    /\ cpc[r] = "login"
    /\ \/ /\ login' = r
          /\ logins' = [logins EXCEPT ![r].state = "live"]
          /\ cpc' = [cpc EXCEPT ![r] = "populate"]
          /\ UNCHANGED queue
       \/ /\ login' = Null
          /\ ConnectionFailure(r)
          /\ UNCHANGED logins
    /\ UNCHANGED <<params, connection, procs, epc, columns, output, via, faults>>

LoginFreed == login # Null /\ logins[login].state = "freed"
StaleLogin == IF LoginFreed THEN {"stale login"} ELSE {}

\* DBSETLUSER, DBSETLPWD, DBSETLHOST fill whatever record `login` points to
\* with whatever the properties hold by now; a freed one does not keep it.
Populate(r) ==
    /\ cpc[r] = "populate"
    /\ logins' = IF login = Null \/ LoginFreed THEN logins
                 ELSE [logins EXCEPT ![login].for = params]
    /\ Note(StaleLogin)
    /\ cpc' = [cpc EXCEPT ![r] = "dial"]
    /\ UNCHANGED <<params, login, connection, procs, epc, columns, output, via,
                   queue>>

\* dbopen(login, self.host) is called: it copies the LOGINREC, after it put the
\* host there, and blocks for up to the login timeout.
Dial(r) ==
    /\ cpc[r] = "dial"
    /\ procs' = [procs EXCEPT ![r] =
          [state |-> "opening",
           user  |-> IF login = Null THEN Null
                     ELSE IF LoginFreed THEN Unknown ELSE logins[login].for,
           host  |-> IF LoginFreed THEN Unknown ELSE params, db |-> Null]]
    /\ Note(StaleLogin)
    /\ cpc' = [cpc EXCEPT ![r] = "open"]
    /\ UNCHANGED <<params, login, connection, logins, epc, columns, output, via,
                   queue>>

\* dbopen returns and its result is stored in the shared variable.
Open(r) ==
    /\ cpc[r] = "open"
    /\ \/ /\ procs[r].user # Null
          /\ connection' = r
          /\ procs' = [procs EXCEPT ![r].state = "open"]
          /\ cpc' = [cpc EXCEPT ![r] = "use"]
          /\ UNCHANGED queue
       \/ /\ connection' = Null
          /\ procs' = [procs EXCEPT ![r].state = "failed"]
          /\ ConnectionFailure(r)
    /\ UNCHANGED <<params, login, logins, epc, columns, output, via, faults>>

StaleCall == IF Freed(connection) THEN {"stale call"} ELSE {}

\* dbuse(connection, self.database).  A failure leaves the connection open.
Use(r) ==
    /\ cpc[r] = "use"
    /\ \/ /\ connection # Null
          /\ procs' = [procs EXCEPT ![connection].db = params]
          /\ ConnectionSuccess(r)
       \/ /\ ConnectionFailure(r)
          /\ UNCHANGED procs
    /\ Note(StaleCall)
    /\ UNCHANGED <<params, login, connection, logins, epc, columns, output, via>>

\* dbloginfree(login), after the completion was queued.
LoginFree(r) ==
    /\ cpc[r] = "loginfree"
    /\ cpc' = [cpc EXCEPT ![r] = "done"]
    /\ IF login = Null
       THEN UNCHANGED <<logins, faults>>
       ELSE /\ logins' = [logins EXCEPT ![login].state = "freed"]
            /\ Note(IF LoginFreed THEN {"double loginfree"} ELSE {})
    /\ UNCHANGED <<params, login, connection, procs, epc, columns, output, via,
                   queue>>

(***************************************************************************)
(* The block of execute:, on a worker thread.                              *)
(***************************************************************************)

\* A DBPROCESS is not made to be used by two threads at a time.
SharedProcess(r) == IF \E q \in Req \ {r} : epc[q] \in Executing \ {"cmd"}
                    THEN {"shared process"} ELSE {}

\* Every call names `connection`, whichever handle it is at that moment.
Call(r) ==
    /\ via' = [via EXCEPT ![r] = @ \cup {connection}]
    /\ Note(StaleCall \cup SharedProcess(r))
    /\ UNCHANGED <<params, login, connection, logins, procs, cpc>>

ExecutionFailure(r) ==
    /\ output' = [output EXCEPT ![r] = Null]
    /\ epc' = [epc EXCEPT ![r] = "freebuf"]

\* dbcmd(connection, sql)
Cmd(r) ==
    /\ epc[r] = "cmd"
    /\ Call(r)
    /\ epc' = [epc EXCEPT ![r] = "sqlexec"]
    /\ UNCHANGED <<columns, output, queue>>

\* dbsqlexec(connection)
SqlExec(r) ==
    /\ epc[r] = "sqlexec"
    /\ Call(r)
    /\ \/ /\ connection # Null
          /\ epc' = [epc EXCEPT ![r] = "results"]
          /\ UNCHANGED <<output, queue>>
       \/ /\ ExecutionFailure(r)
          /\ queue' = Failure("executed", r)
    /\ UNCHANGED columns

\* dbresults(connection) gives anything but NO_MORE_RESULTS (FAIL included, which
\* alerts and enters the loop all the same) and the COL array is allocated, or
\* calloc fails.
NextResult(r) ==
    /\ epc[r] = "results"
    /\ output[r] < MaxTables \/ connection = Null
    /\ Call(r)
    /\ \/ /\ columns' = columns \cup {r}
          /\ epc' = [epc EXCEPT ![r] = "rows"]
          /\ queue' \in {queue, Append(queue, Block("error", r))}
          /\ UNCHANGED output
       \/ /\ ExecutionFailure(r)
          /\ queue' = Append(queue, Block("executed", r))
          /\ UNCHANGED columns

\* Mutant: the return after a failed row is forgotten.
RowsFailGoesOn(r) ==
    /\ epc[r] = "rows"
    /\ Call(r)
    /\ epc' = [epc EXCEPT ![r] = "results"]
    /\ queue' = Failure("executed", r)
    /\ UNCHANGED <<columns, output>>

\* Mutant: a failing row returns without executionFailure:.
RowsFailSilent(r) ==
    /\ epc[r] = "rows"
    /\ Call(r)
    /\ epc' = [epc EXCEPT ![r] = "freebuf"]
    /\ UNCHANGED <<columns, output, queue>>

\* A buffer cannot be allocated or bound, or dbnextrow gives FAIL or BUF_FULL:
\* the early return skips the clean-up of the buffers.
RowsFail(r) ==
    /\ epc[r] = "rows"
    /\ Call(r)
    /\ ExecutionFailure(r)
    /\ queue' \in {Append(queue, Block("executed", r)), Failure("executed", r)}
    /\ UNCHANGED columns

\* Mutant: the clean-up of the buffers is missing.
RowsDoneKeeps(r) ==
    /\ epc[r] = "rows"
    /\ connection # Null
    /\ output[r] < MaxTables
    /\ Call(r)
    /\ output' = [output EXCEPT ![r] = @ + 1]
    /\ epc' = [epc EXCEPT ![r] = "results"]
    /\ UNCHANGED <<columns, queue>>

\* NO_MORE_ROWS: the buffers are freed and the table joins the output.
RowsDone(r) ==
    /\ epc[r] = "rows"
    /\ connection # Null
    /\ output[r] < MaxTables
    /\ Call(r)
    /\ columns' = columns \ {r}
    /\ output' = [output EXCEPT ![r] = @ + 1]
    /\ epc' = [epc EXCEPT ![r] = "results"]
    /\ UNCHANGED queue

\* Mutant: the worker closes the connection when it is done with it.
NoMoreResultsCloses(r) ==
    /\ epc[r] = "results"
    /\ connection # Null
    /\ queue' = Append(queue, Block("executed", r))
    /\ epc' = [epc EXCEPT ![r] = "freebuf"]
    /\ procs' = [procs EXCEPT ![connection].state = "closed"]
    /\ via' = [via EXCEPT ![r] = @ \cup {connection}]
    /\ UNCHANGED <<params, login, connection, logins, cpc, columns, output, faults>>

\* NO_MORE_RESULTS: the completion is queued with a copy of the output.
NoMoreResults(r) ==
    /\ epc[r] = "results"
    /\ connection # Null
    /\ Call(r)
    /\ queue' = Append(queue, Block("executed", r))
    /\ epc' = [epc EXCEPT ![r] = "freebuf"]
    /\ UNCHANGED <<columns, output>>

\* dbfreebuf(connection), after the completion was queued.
FreeBuf(r) ==
    /\ epc[r] = "freebuf"
    /\ epc' = [epc EXCEPT ![r] = "done"]
    /\ Note(SharedProcess(r) \cup
            IF Freed(connection) THEN {"stale freebuf"} ELSE {})
    /\ UNCHANGED <<params, login, connection, logins, procs, cpc, columns,
                   output, via, queue>>

ConnectStep(r) ==
    \/ Login(r) \/ Populate(r) \/ Dial(r) \/ Open(r) \/ Use(r) \/ LoginFree(r)

ExecuteStep(r) ==
    \/ Cmd(r) \/ SqlExec(r) \/ NextResult(r) \/ RowsFail(r) \/ RowsDone(r)
    \/ NoMoreResults(r) \/ FreeBuf(r)

Worker(r) == ConnectStep(r) \/ ExecuteStep(r)

-----------------------------------------------------------------------------
Handle == Req \cup {Null}
Faults == {"stale login", "double loginfree", "stale call", "shared process",
           "stale connected", "stale freebuf", "double close"}
LoginRecs == [state : {"none", "live", "freed"}, for : Target \cup {Null}]
ProcRecs  == [state : {"none", "opening", "open", "failed", "closed"},
              user : Target \cup {Null, Unknown},
              host : Target \cup {Null, Unknown},
              db : Target \cup {Null}]
Blocks    == [kind : {"error", "failed", "connected", "executed"}, req : Req]

ClientTypeOK ==
    /\ params \in Target \cup {Null}
    /\ login \in Handle
    /\ connection \in Handle
    /\ logins \in [Req -> LoginRecs]
    /\ procs \in [Req -> ProcRecs]
    /\ cpc \in [Req -> {"idle", "login", "populate", "dial", "open", "use",
                        "loginfree", "done"}]
    /\ epc \in [Req -> Executing \cup {"idle", "freebuf", "done"}]
    /\ columns \subseteq Req
    /\ output \in [Req -> 0..MaxTables \cup {Null}]
    /\ via \in [Req -> SUBSET Handle]
    /\ queue \in Seq(Blocks)
    /\ faults \subseteq Faults
=============================================================================
