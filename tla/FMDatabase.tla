------------------------------ MODULE FMDatabase ------------------------------
(***************************************************************************)
(* SqlMgr/FMDatabase.m with FMStatement, FMResultSet.m and                 *)
(* FMDatabaseAdditions.m: one connection to a SQLite file, used by one     *)
(* thread.  A method runs to its end before the next one starts, but       *)
(* between two attempts of a busy-retry loop it sleeps, and another        *)
(* connection to the file may take or drop its lock.                       *)
(*                                                                         *)
(* A statement s stands for the sqlite3_stmt and for the FMStatement made  *)
(* to hold it; `kept` says that FMStatement.statement is not yet 0.  The   *)
(* answers of SQLite are external: a query finds one row for an argument   *)
(* in Match and none for another one.                                      *)
(***************************************************************************)
EXTENDS Naturals

CONSTANTS Stmt,      \* bound: statements at a time
          Query,     \* SELECT and PRAGMA texts
          Schema,    \* those without a parameter: they always find a row
          Update,    \* texts given to executeUpdate:
          Arg,       \* arguments
          Match,     \* the arguments a row of the file matches
          Slot,      \* the caller's variables that hold a result set
          Local,     \* the result set of tableExists: and the like
          Timeout,   \* busyRetryTimeout
          Caching,   \* the values of shouldCacheStatements callers query with
          LateUse,   \* whether callers may close before their result sets
          Null       \* nil / NULL

ASSUME MatchAssumption   == Match \subseteq Arg /\ Schema \subseteq Query
ASSUME TimeoutAssumption == Timeout \in Nat
ASSUME CachingAssumption == Caching \subseteq BOOLEAN /\ LateUse \in BOOLEAN
ASSUME NullAssumption    == Null \notin Stmt \cup Arg \cup Slot \cup {Local}
ASSUME LocalAssumption   == Local \notin Slot

VARIABLES opened,         \* db is not nil
          stmts,          \* the statements
          cache,          \* cachedStatements
          shouldCache,    \* shouldCacheStatements
          inUse,          \* the ivar, not the method
          inTransaction,
          transaction,    \* SQLite is inside a transaction
          locked,         \* another connection holds its lock
          slots,          \* the statement of the result set in each variable
          call,           \* the method that runs
          answer,         \* what the last tableExists: etc. returned
          faults          \* uses of statements that were released

databaseVars == <<opened, stmts, cache, shouldCache, inUse, inTransaction,
                  transaction, locked, slots, call, answer, faults>>

\* The texts of beginTransaction and beginDeferredTransaction, commit, rollback.
Begin    == "BEGIN"
Commit   == "COMMIT"
Rollback == "ROLLBACK"
SQL      == Query \cup Update
Slots    == Slot \cup {Local}

\* Methods that make a result set of their own, step it and close it.  The
\* *ForQuery: methods take the steps of tableExists:.
Finders == {"tableExists", "columnExists", "goodConnection"}

Idle == [method |-> Null, pc |-> "idle", sql |-> Null, arg |-> Null,
         slot |-> Null, stmt |-> Null, hit |-> FALSE, tries |-> 0]

Unprepared == [life |-> "none", sql |-> Null, arg |-> Null, kept |-> FALSE]

InitDatabase ==
    /\ opened = FALSE
    /\ stmts = [s \in Stmt |-> Unprepared]
    /\ cache = [q \in SQL |-> Null]
    /\ shouldCache = FALSE
    /\ inUse = FALSE
    /\ inTransaction = FALSE
    /\ transaction = FALSE
    /\ slots = [r \in Slots |-> Null]
    /\ call = Idle
    /\ answer = Null
    /\ faults = {}

(***************************************************************************)
(* SQLite.                                                                 *)
(***************************************************************************)
Alive(s)    == stmts[s].life \in {"ready", "row", "done"}
Dangling(s) == s # Null /\ stmts[s].life = "final"

\* What FMStatement.statement answers for the result set in r.
Statement(r) == IF slots[r] # Null /\ stmts[slots[r]].kept
                THEN slots[r] ELSE Null

\* Another connection can lock the file unless this one reads or writes it.
Held == transaction \/ \E s \in Stmt : stmts[s].life = "row"

OtherLocks == /\ ~locked /\ ~Held
              /\ locked' = TRUE
              /\ UNCHANGED <<opened, stmts, cache, shouldCache, inUse,
                     inTransaction, transaction, slots, call, answer, faults>>

OtherUnlocks == /\ locked
                /\ locked' = FALSE
                /\ UNCHANGED <<opened, stmts, cache, shouldCache, inUse,
                       inTransaction, transaction, slots, call, answer, faults>>

\* A released statement handed to SQLite: a fault, whatever it answers.  If the
\* program does not live through it the behaviour ends there.
Misused(s) == IF Dangling(s) THEN {"released statement"} ELSE {}

(***************************************************************************)
(* open, close and the cache.                                              *)
(***************************************************************************)
Open ==
    /\ call = Idle /\ ~opened
    /\ opened' \in BOOLEAN
    /\ UNCHANGED <<stmts, cache, shouldCache, inUse, inTransaction,
                   transaction, locked, slots, call, answer, faults>>

\* clearCachedStatements: FMStatement.close sets the pointers of the cached
\* ones to 0 and releases nothing.
Forgotten == [s \in Stmt |-> [stmts[s] EXCEPT
                 !.kept = @ /\ \A q \in SQL : cache[q] # s]]

\* Mutant: the statements that kept sqlite3_close busy are left.
CloseBusy ==
    /\ call = Idle /\ (LateUse \/ \A r \in Slot : slots[r] = Null)
    /\ stmts' = Forgotten
    /\ cache' = [q \in SQL |-> Null]
    /\ opened' = FALSE
    /\ UNCHANGED <<shouldCache, inUse, inTransaction, transaction, locked,
                   slots, call, answer, faults>>

\* Mutant: the cache is not cleared.
CloseKeepsCache ==
    /\ call = Idle /\ (LateUse \/ \A r \in Slot : slots[r] = Null)
    /\ stmts' = [s \in Stmt |-> [stmts[s] EXCEPT
                    !.life = IF Alive(s) THEN "final" ELSE @]]
    /\ opened' = FALSE
    /\ transaction' = FALSE
    /\ UNCHANGED <<cache, shouldCache, inUse, inTransaction, locked, slots,
                   call, answer, faults>>

\* close clears the cache; sqlite3_close answers BUSY while statements are
\* alive, so it finalizes each of them and closes again.  SQLite rolls back.
Close ==
    /\ call = Idle /\ (LateUse \/ \A r \in Slot : slots[r] = Null)
    /\ cache' = [q \in SQL |-> Null]
    /\ stmts' = [s \in Stmt |-> [Forgotten[s] EXCEPT
                    !.life = IF opened /\ Alive(s) THEN "final" ELSE @]]
    /\ opened' = FALSE
    /\ transaction' = (transaction /\ ~opened)
    /\ UNCHANGED <<shouldCache, inUse, inTransaction, locked, slots, call,
                   answer, faults>>

\* setShouldCacheStatements: drops the dictionary when it says NO.
SetShouldCacheStatements(b) ==
    /\ call = Idle
    /\ shouldCache' = b
    /\ cache' = [q \in SQL |-> IF b THEN cache[q] ELSE Null]
    /\ UNCHANGED <<opened, stmts, inUse, inTransaction, transaction, locked,
                   slots, call, answer, faults>>

(***************************************************************************)
(* The start of executeQuery: and executeUpdate:, and their prepare loop.  *)
(* With inUse set both would return nil or NO and change nothing.          *)
(***************************************************************************)
Enter(m, q, a, r, ready) ==
    LET s    == IF shouldCache THEN cache[q] ELSE Null
        usable == s # Null /\ stmts[s].kept
    IN  /\ call = Idle /\ ~inUse
        /\ inUse' = TRUE
        /\ call' = [method |-> m, sql |-> q, arg |-> a, slot |-> r,
                    stmt |-> IF usable THEN s ELSE Null, hit |-> s # Null,
                    tries |-> 0, pc |-> IF usable THEN ready ELSE "prepare"]
        /\ UNCHANGED <<opened, stmts, cache, shouldCache, inTransaction,
                       transaction, locked, slots, answer, faults>>

ExecuteQuery(q, a, r) ==
    /\ shouldCache \in Caching
    /\ Enter("executeQuery", q, a, r, "bind")
Find(m, q, a) ==
    /\ shouldCache \in Caching
    /\ m = "goodConnection" => opened
    /\ q \in Schema <=> m # "tableExists"
    /\ Enter(m, q, a, Local, "bind")
ExecuteUpdate(u)      == Enter("executeUpdate", u, Null, Null, "run")

\* Mutant: one attempt too many.
TimedOutLate == Timeout # 0 /\ call.tries > Timeout + 1

\* busyRetryTimeout && (numberOfRetries++ > busyRetryTimeout)
TimedOut == Timeout # 0 /\ call.tries > Timeout

\* Mutant: the attempts are not counted.
RetryUncounted == UNCHANGED call

Retry == call' = [call EXCEPT !.tries = IF Timeout = 0 THEN @ ELSE @ + 1]

\* A finder returns what it found; failed says that SQLite was asked in vain.
Answer(yes, failed) ==
    answer' = IF call.method \in Finders
              THEN [of |-> call.method, arg |-> call.arg, yes |-> yes,
                    failed |-> failed]
              ELSE answer

\* Mutant: the flag stays up when the statement could not be prepared.
ReturnInUse ==
    /\ call' = Idle
    /\ slots' = IF call.slot = Null THEN slots
                ELSE [slots EXCEPT ![call.slot] = Null]
    /\ Answer(FALSE, TRUE)
    /\ UNCHANGED inUse

\* The early returns: nil is the result set, NO the answer.
ReturnNothing ==
    /\ call' = Idle
    /\ inUse' = FALSE
    /\ slots' = IF call.slot = Null THEN slots
                ELSE [slots EXCEPT ![call.slot] = Null]
    /\ Answer(FALSE, TRUE)

PrepareBusy ==
    /\ call.pc = "prepare" /\ opened /\ locked
    /\ IF TimedOut THEN ReturnNothing
       ELSE Retry /\ UNCHANGED <<inUse, slots, answer>>
    /\ UNCHANGED <<opened, stmts, cache, shouldCache, inTransaction,
                   transaction, locked, faults>>

\* An error in the text or the schema, or no database.
PrepareFails ==
    /\ call.pc = "prepare" /\ (opened => ~locked)
    /\ ReturnNothing
    /\ UNCHANGED <<opened, stmts, cache, shouldCache, inTransaction,
                   transaction, locked, faults>>

\* A statement that is finalized, or never was, and that nobody points to.
Free == {s \in Stmt : /\ ~Alive(s)
                      /\ \A q \in SQL : cache[q] # s
                      /\ \A r \in Slots : slots[r] # s}

\* Which address a new statement gets makes no difference.
Fresh == CHOOSE s \in Free : TRUE

\* The loop that follows, of sqlite3_step, counts its attempts anew.
Prepare ==
    /\ call.pc = "prepare" /\ opened /\ ~locked
    /\ Free # {}
    /\ stmts' = [stmts EXCEPT ![Fresh] = [Unprepared EXCEPT
                                 !.life = "ready", !.sql = call.sql]]
    /\ call' = [call EXCEPT !.stmt = Fresh, !.tries = 0,
                            !.pc = IF call.method = "executeUpdate"
                                   THEN "run" ELSE "bind"]
    /\ UNCHANGED <<opened, cache, shouldCache, inUse, inTransaction,
                   transaction, locked, slots, answer, faults>>

(***************************************************************************)
(* The rest of executeQuery:.                                              *)
(***************************************************************************)

\* Mutant: the loop over the parameters is skipped.
Unbound(s) == [stmts EXCEPT ![s].kept = @ \/ ~call.hit]

\* sqlite3_bind refuses a statement that was stepped and not reset; its
\* answer is not looked at.  A new FMStatement is filled and cached.
Bound(s) == [stmts EXCEPT
                ![s].arg  = IF stmts[s].life = "ready" THEN call.arg ELSE @,
                ![s].kept = @ \/ ~call.hit]

Cached(s) == IF shouldCache /\ ~call.hit
             THEN [cache EXCEPT ![call.sql] = s] ELSE cache

\* goodConnection closes the result set at once; the other finders step it.
MakeResultSet ==
    /\ call.pc = "bind"
    /\ stmts' = Bound(call.stmt)
    /\ cache' = Cached(call.stmt)
    /\ inUse' = FALSE
    /\ slots' = [slots EXCEPT ![call.slot] =
                    IF call.method = "goodConnection" THEN Null ELSE call.stmt]
    /\ call' = IF call.method \in {"executeQuery", "goodConnection"} THEN Idle
               ELSE [call EXCEPT !.pc = "step", !.tries = 0]
    /\ faults' = faults \cup Misused(call.stmt)
    /\ IF call.method = "goodConnection" THEN Answer(TRUE, FALSE)
       ELSE UNCHANGED answer
    /\ UNCHANGED <<opened, shouldCache, inTransaction, transaction, locked>>

(***************************************************************************)
(* FMResultSet.                                                            *)
(***************************************************************************)
MayTouch(r) == call = Idle /\ slots[r] # Null

\* next is called.
NextRow(r) ==
    /\ MayTouch(r)
    /\ call' = [Idle EXCEPT !.method = "next", !.slot = r, !.pc = "step"]
    /\ UNCHANGED <<opened, stmts, cache, shouldCache, inUse, inTransaction,
                   transaction, locked, slots, answer, faults>>

\* close, or the dealloc of a result set nobody needs: FMStatement.reset does
\* nothing to the sqlite3_stmt.
CloseResultSet(r) ==
    /\ call = Idle /\ slots[r] # Null
    /\ slots' = [slots EXCEPT ![r] = Null]
    /\ UNCHANGED <<opened, stmts, cache, shouldCache, inUse, inTransaction,
                   transaction, locked, call, answer, faults>>

\* Any of the ...ForColumn: methods.
ReadColumn(r) ==
    /\ MayTouch(r)
    /\ faults' = faults \cup Misused(Statement(r))
    /\ UNCHANGED <<opened, stmts, cache, shouldCache, inUse, inTransaction,
                   transaction, locked, slots, call, answer>>

\* The end of next: the result set closes itself after anything but a row, and
\* a finder closes it after the row it looked for.
NoRow(failed) ==
    /\ slots' = [slots EXCEPT ![call.slot] = Null]
    /\ call' = Idle
    /\ Answer(FALSE, failed)

StepBusy ==
    LET s == Statement(call.slot)
    IN  /\ call.pc = "step" /\ s # Null /\ opened /\ locked
        /\ stmts[s].life \in {"ready", "done"}
        /\ IF TimedOut THEN NoRow(TRUE)
           ELSE Retry /\ UNCHANGED <<slots, answer>>
        /\ UNCHANGED <<opened, stmts, cache, shouldCache, inUse,
                       inTransaction, transaction, locked, faults>>

\* SQLITE_ERROR, and SQLITE_MISUSE of NULL or of a released statement.
StepFails ==
    LET s == Statement(call.slot)
    IN  /\ call.pc = "step"
        /\ s # Null /\ stmts[s].life \in {"ready", "done"} => ~locked
        /\ stmts' = IF s = Null \/ Dangling(s) THEN stmts
                    ELSE [stmts EXCEPT ![s].life = "done"]
        /\ NoRow(TRUE)
        /\ faults' = faults \cup Misused(s)
        /\ UNCHANGED <<opened, cache, shouldCache, inUse, inTransaction,
                       transaction, locked>>

Finds(s) == stmts[s].life # "row" /\
            (stmts[s].sql \in Schema \/ stmts[s].arg \in Match)

StepRow ==
    LET s     == Statement(call.slot)
        found == call.method = "columnExists" => call.arg \in Match
    IN  /\ call.pc = "step" /\ s # Null /\ opened /\ ~locked
        /\ stmts[s].life \in {"ready", "done"} /\ Finds(s)
        /\ stmts' = [stmts EXCEPT ![s].life = "row"]
        /\ IF call.method = "next"
           THEN call' = Idle /\ UNCHANGED <<slots, answer>>
           ELSE IF found
           THEN /\ slots' = [slots EXCEPT ![call.slot] = Null]
                /\ call' = Idle
                /\ Answer(TRUE, FALSE)
           ELSE call' = [call EXCEPT !.tries = 0] /\ UNCHANGED <<slots, answer>>
        /\ UNCHANGED <<opened, cache, shouldCache, inUse, inTransaction,
                       transaction, locked, faults>>

StepDone ==
    LET s == Statement(call.slot)
    IN  /\ call.pc = "step" /\ s # Null /\ opened /\ Alive(s) /\ ~Finds(s)
        /\ locked => stmts[s].life = "row"
        /\ stmts' = [stmts EXCEPT ![s].life = "done"]
        /\ NoRow(FALSE)
        /\ UNCHANGED <<opened, cache, shouldCache, inUse, inTransaction,
                       transaction, locked, faults>>

(***************************************************************************)
(* The rest of executeUpdate:, and what the transaction methods do with    *)
(* its answer.                                                             *)
(***************************************************************************)

\* The statement is cached if it was not, and then finalized all the same: the
\* variable that says it is cached was set to nil.
Disposed(s) ==
    [stmts EXCEPT
        ![s].kept = @ \/ (shouldCache /\ ~call.hit),
        ![s].life = IF ~call.hit THEN "final"
                    ELSE IF Dangling(s) THEN @ ELSE "ready"]

\* Mutant: commit and rollback clear the flag whatever the answer.
FlagAnyway(ok) ==
    inTransaction' = IF call.sql = Begin THEN inTransaction \/ ok
                     ELSE IF call.sql \in {Commit, Rollback} THEN FALSE
                     ELSE inTransaction

Flag(ok) ==
    inTransaction' = IF ok /\ call.sql \in {Begin, Commit, Rollback}
                     THEN call.sql = Begin ELSE inTransaction

Finish(ok) ==
    /\ stmts' = Disposed(call.stmt)
    /\ cache' = Cached(call.stmt)
    /\ inUse' = FALSE
    /\ Flag(ok)
    /\ call' = Idle

\* The retry loop of sqlite3_step: when it gives up the statement is disposed
\* of as after any other answer.
RunBusy ==
    /\ call.pc = "run" /\ Alive(call.stmt) /\ locked
    /\ IF TimedOut THEN Finish(FALSE)
       ELSE Retry /\ UNCHANGED <<stmts, cache, inUse, inTransaction>>
    /\ UNCHANGED <<opened, shouldCache, transaction, locked, slots, answer,
                   faults>>

\* Some errors (disk full, out of memory) make SQLite roll back by itself.
RunFails ==
    /\ call.pc = "run" /\ (Alive(call.stmt) => ~locked)
    /\ Finish(FALSE)
    /\ transaction' \in {transaction, FALSE}
    /\ faults' = faults \cup Misused(call.stmt)
    /\ UNCHANGED <<opened, shouldCache, locked, slots, answer>>

\* BEGIN inside a transaction and COMMIT outside of one are errors.
RunDone ==
    /\ call.pc = "run" /\ Alive(call.stmt) /\ ~locked
    /\ call.sql = Begin => ~transaction
    /\ call.sql \in {Commit, Rollback} => transaction
    /\ transaction' = IF call.sql \in {Begin, Commit, Rollback}
                      THEN call.sql = Begin ELSE transaction
    /\ Finish(TRUE)
    /\ UNCHANGED <<opened, shouldCache, locked, slots, answer, faults>>

(***************************************************************************)
(* The specification.                                                      *)
(***************************************************************************)

\* One more step of the method that runs.
Continue == \/ PrepareBusy \/ PrepareFails \/ Prepare \/ MakeResultSet
            \/ StepBusy \/ StepFails \/ StepRow \/ StepDone
            \/ RunBusy \/ RunFails \/ RunDone

Environment == OtherLocks \/ OtherUnlocks

Caller == \/ Open \/ Close
          \/ \E b \in Caching : SetShouldCacheStatements(b)
          \/ \E q \in Query, a \in Arg, r \in Slot : ExecuteQuery(q, a, r)
          \/ \E q \in Query, a \in Arg, m \in Finders : Find(m, q, a)
          \/ \E u \in Update : ExecuteUpdate(u)
          \/ \E r \in Slot : NextRow(r) \/ CloseResultSet(r) \/ ReadColumn(r)

Init == InitDatabase /\ locked \in BOOLEAN
Next == Caller \/ Continue \/ Environment
Spec == Init /\ [][Next]_databaseVars

\* The thread goes on with the method it entered.
FairSpec == Spec /\ WF_databaseVars(Continue)

(***************************************************************************)
(* Properties.                                                             *)
(***************************************************************************)
Lives == {"none", "ready", "row", "done", "final"}

FlagsOK ==
    /\ opened \in BOOLEAN /\ shouldCache \in BOOLEAN /\ locked \in BOOLEAN
    /\ inUse \in BOOLEAN /\ inTransaction \in BOOLEAN /\ transaction \in BOOLEAN

StatementsOK ==
    /\ stmts \in [Stmt -> [life : Lives, sql : SQL \cup {Null},
                           arg : Arg \cup {Null}, kept : BOOLEAN]]
    /\ cache \in [SQL -> Stmt \cup {Null}]
    /\ slots \in [Slots -> Stmt \cup {Null}]

\* With a timeout set, a loop gives up after Timeout + 2 busy answers.
CallOK ==
    /\ call \in [method : Finders \cup {"executeQuery", "executeUpdate", "next",
                                        Null},
                 pc : {"idle", "prepare", "bind", "step", "run"},
                 sql : SQL \cup {Null}, arg : Arg \cup {Null},
                 slot : Slots \cup {Null}, stmt : Stmt \cup {Null},
                 hit : BOOLEAN, tries : Nat]
    /\ Timeout # 0 => call.tries <= Timeout + 1

AnswersOK ==
    /\ answer \in [of : Finders, arg : Arg, yes : BOOLEAN, failed : BOOLEAN]
                  \cup {Null}
    /\ faults \subseteq {"released statement"}

\* The types of the variables.
TypeOK == FlagsOK /\ StatementsOK /\ CallOK /\ AnswersOK

\* The flag inUse is up exactly while executeQuery: or executeUpdate: runs:
\* every one of their returns takes it down, so that no later call is refused.
InUseExactly == inUse <=> call.pc \in {"prepare", "bind", "run"}

\* After close nothing of the connection keeps the file: every statement is
\* finalized, those result sets still point to included, and no transaction is
\* left open.
ClosedMeansReleased ==
    ~opened => ~transaction /\ \A s \in Stmt : ~Alive(s)

\* The flag inTransaction never misses a transaction SQLite is in, whatever
\* commits and rollbacks were refused.
TransactionTracked == transaction => inTransaction

\* The cache, the result sets and the calls never hand a finalized statement
\* to SQLite.
NoUseOfReleased == faults = {}

\* "if at least one next exists, table exists": unless SQLite was asked in
\* vain, tableExists: and columnExists: say what the file says.
TrueAnswers ==
    answer # Null =>
        \/ answer.failed
        \/ answer.of = "goodConnection"
        \/ answer.yes <=> answer.arg \in Match

\* With a timeout set every call returns, whoever holds the lock for however
\* long.
Running  == call.pc \in {"prepare", "bind", "step", "run"}
CallsEnd == Running ~> ~Running
=============================================================================
