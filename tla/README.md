# A TLA+ model of MysqlConnection (iOS client for MS SQL Server)

The app lets a user keep a list of SQL Server connections and saved queries in a
local SQLite file, browse the tables of a server, build a query and page through
its result. Everything on screen runs on the main thread; everything said to a
server runs on a concurrent worker queue and comes back as blocks of the main
queue. Paths below are under `src/MysqlConnection/`.

## 1. Inventory

| part | source | state | operations | hard behaviour |
|---|---|---|---|---|
| SQLClient | `mssql/SQLClient/SQLClient.m` | `login`, `connection`, `self.host` …, two queues | connect, execute, connected, disconnect | blocks of several requests on a concurrent queue share two C handles; completions are queued before the clean-up |
| MySqlServerConnection | `API&Data/Common/MySqlServerConnection.m` | connection data, delegate, signal id, `m_resultArray` | createInstance, getInstance, eight requests | delegate and signal id read on delivery; a failed connect is silent |
| FMDatabase / FMResultSet | `SqlMgr/FMDatabase.m`, `FMResultSet.m`, `FMDatabaseAdditions.m` | sqlite handle, statement cache, `inUse`, `inTransaction` | open, close, executeQuery/Update, next, begin/commit/rollback | busy retry, cached statements, statements that outlive the database |
| local store | `SqlMgr/SQLMgr.m`, `DBConnector.m`, `DBInitailize.m` | tables History, Connect, Query | create, insert, update, soft delete, list | crash between copying the file and creating the tables; failures ignored |
| main screen | `MysqlConnection/MainViewController.m` | three arrays, `signal_item`, `isQueryEditMode` | select, accessory, add, delete, answer | `signal_item` kept from an earlier tap; two signal ids |
| query builder | `NewUI/BuildViewController.m`, `CretoriaViewController.m`, `ShowResultViewController.m` | chosen table, its columns, the rule | select table, edit columns or rule, build, execute, page | columns arrive after the table was chosen |
| table browser | `MainUI/DatabaseTables/*.m` | tables, columns, admin configuration | 0→1→2 and 10→11 signal flows, save, search, page | chained requests through one delegate |
| list of switches | `MainUI/DatabaseTables/AdminTableConfController.m` | columns, names chosen | switch on, switch off, save | a loop that removes from its own array; names kept as text joined by commas |
| settings | `MainUI/ConnectionSetting/Con_SettingController.m` | a connection's fields | save | insert or update |
| MySQL wrapper | `MysqlConnectionLib/*.m` | — | fetch, insert, update, delete | not compiled into the app |
| vendored | `MysqlConnectionLib/include/`, `libMysql`, FreeTDS headers and libraries | — | — | external |

How the parts talk. A screen calls `createInstance` / `getInstance` and a request
method; `MySqlServerConnection` calls `SQLClient`, whose worker blocks put
completions on the main queue; the last completion calls `recivedDataArray:::` of
whatever object is the delegate by then. Screens call `DBConnector` directly; each
call makes an `SQLMgr`, which makes an `FMDatabase`, and throws both away.

What makes each part correct:

* SQLClient and MySqlServerConnection: one answer per request, to the one who
  asked, with data of the server asked for; handles used only while they exist;
  every request ends.
* FMDatabase: no released statement in use, nothing alive after `close`, `inUse`
  and `inTransaction` true to the facts, retries that stop, true answers.
* Local store: every operation closes what it opened and ends; the tables are
  complete or known not to be.
* Main screen: lists that agree with the file, queries that stay with their
  connection and are run and edited against it.
* Query builder and criteria: columns of the table chosen, a rule within the
  columns, switches that tell what is saved, rows that meet every condition.
* Table browser: title, columns, configuration and rows of one and the same table;
  answers that arrive where they can be read; a page that exists.

## 2. Modules

| module | models | extends |
|---|---|---|
| `SQLClient` | `SQLClient.m`: one action per FreeTDS call that touches shared state | — |
| `ServerConnection` | `MySqlServerConnection.m`: requests and the four completions, composed with SQLClient | `SQLClient` |
| `RequestService` | what a screen may expect: ask, answer once or drop | — |
| `ServerConnectionInv` | the inductive invariants `IInv` and `HandlesInv`, in named parts | `ServerConnection` |
| `ServerConnectionProofs`, `ServerHandleProofs` | who is answered what; what becomes of the C handles | `ServerConnectionInv` |
| `FMDatabase`, `FMDatabaseProofs` | `FMDatabase.m`, `FMResultSet.m`, `FMDatabaseAdditions.m` | — |
| `DBConnector`, `DBConnectorProofs` | a session of `DBConnector.m`/`SQLMgr.m`, composed with FMDatabase | `FMDatabase` |
| `StoreService` | what a caller of `DBConnector` may expect: effects in order, each once, none after a failure | — |
| `LocalStore` | the first launch, and what the statements do to the tables | — |
| `MainScreen`, `MainScreenProofs` | `MainViewController.m` and the screens it opens, composed with LocalStore | `LocalStore` |
| `Requests` | what the other screens see of ServerConnection: requests under way, delegate, signal id | — |
| `Texts`, `TextsProofs` | lists of names as texts joined by commas; what joining and splitting them gives, for texts of any length | — |
| `QueryBuilder` | `BuildViewController.m` and the switches it opens, `AdminTableConfController.m` | `Requests`, `Texts` |
| `QueryScreens`, `QueryScreensProofs` | the life of a saved query: with `CretoriaViewController.m` and `ShowResultViewController.m` | `QueryBuilder` |
| `TableBrowser`, `TableBrowserProofs` | `Con_TablesController.m`, `Con_SearchController.m`, `SearchResultController.m`, and the switches they open | `Requests`, `Texts` |
| `MCServerConnection`, `MCFMDatabase`, `MCDBConnector`, `MCMainScreen`, `MCQueryScreens`, `MCTableBrowser` | instances for TLC | each its module |

### State and actions against the code

*SQLClient.* A request `r` is one `connect:` and, if its completion asks for it,
one `execute:`. `cpc[r]` and `epc[r]` say where the two blocks of `r` are; a step
is one FreeTDS call with the assignments around it (`Login`, `Populate`, `Dial`,
`Open`, `Use`, `LoginFree`; `Cmd`, `SqlExec`, `NextResult`, `RowsFail`,
`RowsDone`, `NoMoreResults`, `FreeBuf`). `login` and `connection` are the instance
variables, re-read by every call as in the code; `logins` and `procs` are the
records FreeTDS allocated. A call on a record that was freed is undefined: it may
succeed or fail, what it reads is `Unknown`, what it writes is not kept, and the misuse
is recorded in `faults`. So a `dbopen` with a `LOGINREC` that another request's
`dbloginfree` freed dials an `Unknown` host as an `Unknown` user (the host too goes through
the record). That such a call may destroy other memory of the process is left out.
`Noted` names the misuses a run records: all, or none where no property reads `faults`,
which nothing in the system reads. `queue` is the main operation queue.

*ServerConnection.* `Ask` is `createInstance`, `getInstance` and a request method
in one go, since all three run in one event of the main thread. `ErrorAlert`,
`ConnectFailed`, `ConnectDone` and `Deliver` are the blocks of the main queue. The
eight request methods differ in SQL and in what they make of the result; the
latter is `Method`. `Patience` names what the user waits for before the next
request: nothing in the code stops a second one. Requests get their ids in turn
(`Newcomer`), as which one is next makes no difference.

*FMDatabase.* Methods run one at a time on one thread, but a busy-retry loop
sleeps, so `call` says which method is where and the other connection's lock may
come and go between its attempts; `call.tries` is `numberOfRetries`, which starts from
zero in the prepare loop and again in the step loop. A statement's life is none, ready, row, done or
final; `kept` says that its `FMStatement` still holds the pointer (`FMStatement
close` sets it to 0 and finalizes nothing; `reset` does nothing). SQLite is
external: a query finds one row for an argument in `Match` and none for others,
any call may fail, `sqlite3_bind` refuses a statement that was stepped and not
reset, and `sqlite3_close` answers BUSY while statements live.

*DBConnector.* `job` is the session: its operation, its place, the statements to
go. Its steps are steps of `FMDatabase`, in the order of the code, with each early
return. The history variables are `done`, the statements of the session that SQLite
carried out, by their texts and in their order, and `gaveUp`, that one of them failed or
the file did not open. `StoreService` speaks of nothing but the operation and these two,
and `StoreServiceSpec` says that a session implements it.

*LocalStore / MainScreen.* A statement changes its table or fails silently. A list
read may stop at any row. `stack` holds the screens on top of the main one, with
what each was given; an answer pushes a builder from the `signal_item`, the
`m_selectedQueryItem` and the signal id of that moment, wherever the user is by
then. `Kill` ends the process at any point. `m_delteQueryItem` keeps its value
after the alert in the code; here it is `Null` again, as nothing reads it before
the next alert sets it. `unlisted` is a history variable.

*Requests.* What a screen can tell of `ServerConnection`: a request ends once, or
never comes back; the answer goes to the delegate and with the signal id of that
moment. `Drop` stands for a failed connect, a failed statement and an answer without
elements, which every screen ignores. A handler that makes a request of its own
does so in the block of its answer (`AskNext`).

*QueryBuilder, QueryScreens.* One query and its connection are followed; `screen` is
what is on top. A text is the sequence of what lies between its commas, a name a
text too, so that a name with a comma falls apart when the text is taken apart, as
it does in the code. The picker's record has the ivars of
`AdminTableConfController`; `on` is what its switches show. `SwitchOff` raises an
exception unless the name was the last one chosen: the loop goes on over an array
that was changed, and NSArray raises in the next round, if there is one (the arrays
here are far below the sixteen elements after which a new batch would hide it).
`Exception` ends the app; it starts again with the main screen and what was saved.
A criteria screen has five empty rows below its columns (`RowsOff`); rows that are
scrolled off keep their cells, but `cellForRowAtIndexPath:` gives nil for them.

*TableBrowser.* `stack` holds the screens over the list of tables, each with what it
was given. `m_selectedTableColumns` says how it got its value: what the request
method returned at once, a whole answer (the accessory's chain) or its first element
(the row's chain). The whole answer has one element, an array, which is why the
list of switches that a tap on an accessory opens has one blank row, and turning its
switch adds nil to an array (`Switch`). `admin_conf_mgr` is the server's table: it
may come into being, empty, by `createAdminConfTable`, and nobody fills it: the
methods that would have no caller that is reached. `m_selectedConfData` is written
and read in one handler and is not a variable here. The rows of
`Con_SearchController` are made anew whenever they come to the display.

## 3. Runs

| run | question | bounds | distinct states |
|---|---|---|---|
| `overlap` | two requests overlapping in every way: answered at most once, with no one else's array; a failed connect has alerted before it is dropped | 2 requests, 1 result set | 1.9 M |
| `waiting` | a user who waits for each answer, clean-up of the last request still running: right screen, own connection and database, no other request's login, which misuses remain, only the request's own connection is closed | 2 requests, 1 result set, 2 servers, 2 screens, 2 signals | 1.2 M |
| `quiet` | three requests in sequence: what stays allocated; `RequestService` is implemented | 3 requests, 1 result set, 2 kinds | 2.2 M |
| `request_ends` | every request ends, overlapping or not, with result sets read to the end or failing half way | 2 requests, 1 result set | 0.67 M |
| `disconnect_other` | *violation*: `disconnect` closes another request's connection | 2 requests | |
| `db_plain` | no cache: flags, retries, answers, and every call returns | 2 statements at a time, retry timeout 1, all transactions | 0.9 M |
| `db_cached` | cache on for queries: no finalized statement used, nothing left after close | 2 statements, 2 result sets that may outlive the database | 1.4 M |
| `db_cached_update` | *violation*: an update made twice with the cache on | 2 statements | |
| `store` | every session of the app closes what it opened, ends, and implements `StoreService` | 3 statements | 233 |
| `main` | lists, criteria screens, saved queries and tables under hasty taps, failing statements and killed launches; what else holds for a user who waits | 2 connections, 1 query, 2 requests, 2 screens deep | 1.0 M |
| `query` | a query built, edited, given conditions and run, with names with commas, late and lost answers, exceptions, rows off the display | 2 tables, 3 pieces, texts of 2 pieces, 2 requests, 2 rows found | 3.3 M |
| `tables` | chains of requests through one delegate, with taps between the answers | 2 tables, 2 requests, 2 screens deep, 2 rows found | 0.27 M |

Why the bounds are enough. Every race of the client is between two requests (one
pointer, two users); a third adds only the accumulation of leaks, which `quiet`
has. One result set takes the row loop through success, failure half way and the
second `dbresults`, in all runs of the client. In FMDatabase two statements let a query be open during an
update or a transaction; a finalized one nobody points to is used again, so that
behaviours are not bounded in length. A retry timeout of 1 makes both sides of the
comparison happen. Two connections are what it takes for `signal_item` to be the
wrong one; two screens deep, for one screen to be opened over another that edits
the same row. Of the screens of `query` and `tables` too, everything that goes wrong
takes two requests: an answer, and one that should have come before it. Texts of two
pieces (`MaxPieces`) let a column be switched off that was not chosen last, and a
name with a comma be one of two; a display of six rows (`Window`) fits the criteria
of one column and its five empty rows and not those of two; the one-row display of
`tables` makes every second row scroll; two rows found (`MaxRows`) have a page
before and after. `MaxResults` and `MaxDepth` keep an answer waiting that would open
one screen more: as answers may come late, this leaves out no step but the opening
of that screen.

`hurried`, which many properties of the screens start from, is a history variable:
a tap was made while a request was under way. It never goes back.

`CHECK_DEADLOCK FALSE` stands in the configurations of the client only: there the
model stops when all its requests are over.

### What the violations show

* `disconnect_other`: the second `connect:` overwrites `connection` before the
  first request's completion disconnects: the first connection stays open for good.
* `db_cached_update`: with caching on, `executeUpdate:` caches the statement it
  then finalizes; the second call with that text steps it. The app never updates
  with caching on (`store`: `SessionsAreSafe`).

Two more departures of the code from its comments are part of the model without a
run of their own: a query's statement lives on after its result set is closed
(`FMDatabase.m:718`, against the comment at 371), and with caching on a repeated
`tableExists:` goes on from the row and the argument of the first
(`FMDatabase.m:725`); the first is why `close` must finalize, the second why
`TrueAnswers` is checked without the cache.

## 4. What the properties say

* A user who does not wait gets at most one answer per request (`OneAnswer`), but
  neither `RightRequester` nor `RightServer` nor `ServiceSpec` holds for him: all
  three are stated under `Patience`. `HandleDiscipline` and `NoLeak` list exactly
  the misuses and leaks that remain when he waits, for the answer or for the
  worker's clean-up too.
* `RightServer` shows how far the freed `LOGINREC` reaches. A user who waits for the
  answer gets data over the request's own connection, in its database, and never with
  another request's login; but the record may have been freed by the previous
  request's `dbloginfree`, and then nobody knows what login and host were dialled. One
  who waits for the worker too gets his own. The run `waiting` has the first user; the
  parts of `RightServer` and `HandleDiscipline` about the second are theorems.
* `EveryRequestEnds` counts a dropped request as ended. That the screen of one waits
  for ever, because no completion tells it, is what the code does; `DroppedWithAlert`
  says that the user was told.
* `CriteriaOnItsOwn` and `TablesOfItsOwn` hold with an exception that is the code's:
  a query whose connection is not in the list is run on, or offered the tables of,
  the connection tapped last.
* `FirstLaunchDecides`: a first launch that is killed or fails once the file is
  there leaves an app without tables for good; and a file that can keep queries can
  keep the connections they refer to.
* `StoreServiceSpec`: what an operation has done is at any time a prefix of its
  statements, so that each took effect at most once and in order, however often
  `sqlite3_step` was busy; none follows one that failed; and the session ends only when
  all took effect, one failed, or the file did not open. A statement that fails is not
  reported to anybody: that is the code, and the reason why `ListsAreCurrent` is asked of
  the lists whatever failed.
* `RuleWithinColumns` holds for a hasty user too, with an exception that is the
  code's: a builder opened while an older request is under way may get the saved
  columns and rule back over what was changed (signal id 1). `ColumnsOfTable` needs a
  user who waits and answers that come: the columns of the table chosen before are
  offered for the new one until its own arrive.
* `SwitchesTell`: whatever is switched on and off, the picker saves what it shows, or
  the app ends: switching off any column but the last one chosen is an exception.
  It holds of names with commas too: one that was chosen before is not found again, so
  its switch is off, and only its pieces will be saved. Two columns of the same name are
  the one exception, and a table has none; but pieces of saved names may be alike.
* `ResultsMeetConditions` says how far onExcute can be trusted: the rows found meet
  every condition typed if the user waits and the rule is short enough not to be
  scrolled. Beyond that a condition that is off the display is left out of the query
  though its row still has it. `FoundAsAsked` is the same of `Con_SearchController`,
  without the proviso, as what leaves the display is lost to the user's eyes too.
* `ScreensOnTheirTable`, `AnswersAreReadable`: for a user who waits the chains do what
  they should. For one who taps a second row meanwhile both fail: a search screen has
  the title of one table and the columns of another, or a handler sends a string's
  messages to an array, which ends the app. Opening the tables is fatal only once
  `admin_conf_mgr` is there and not last in the order of names.
* `ReturnedNeverShown`: the value the request methods return at once is never used.
* `RowOpensSearch`: a chain is not broken off between its two requests.

## 5. Fairness

`ServerConnection!Fairness`: the main run loop runs its blocks, and the worker queue
(concurrent, so each block has a thread) goes on with each block. `dbopen` returns
because of the login timeout `SQLClient` sets; that `dbsqlexec` and the result
calls return is an assumption on the server, as no query timeout is set, and that
`dbresults` says NO_MORE_RESULTS in the end is one on db-lib.
`FMDatabase!FairSpec` and `DBConnector!SessionFairSpec`: the thread goes on with the
method, and the session, it entered; the caller need not call anything. Nothing is
assumed of the other connection: `CallsEnd` holds if it never unlocks (the timeout
is set), `OperationsEnd` (the app's timeout is 0) only if it leaves the file alone
in the end, which its premise says. `TableBrowser!FairSpec` assumes that an answer comes,
or is known not to come, which is `EveryRequestEnds` of ServerConnection. The screens
have no fairness besides: users need not tap.

## 6. What is proved

All invariants and all safety action properties of the runs are theorems, for every
value of the constants, and so are both refinements. Each theorem is
`Spec => []P` (or `Spec => P` for an action property or an abstract specification)
with `P` a property that a run checks on an instance.

| module | theorems (the property each states) |
|---|---|
| `ServerConnectionProofs` | `TypeCorrect` (`TypeOK`), `AnsweredOnce` (`OneAnswer`), `AnswersReachTheAsker` (`RightRequester`), `ServesRequests` (`ServiceSpec`) |
| `ServerHandleProofs` | `AnswersComeFromTheServerAsked` (`RightServer`), `WaitingBuysDiscipline` (`HandleDiscipline`), `LeaksAreKnown` (`NoLeak`), `NoSilentFailure` (`DroppedWithAlert`), `ClosesItsOwn` (`ClosesOwn`) |
| `FMDatabaseProofs` | `TypeCorrect` (`TypeOK`), `FlagDownWhenIdle` (`InUseExactly`), `CloseReleases` (`ClosedMeansReleased`), `TransactionsTracked` (`TransactionTracked`), `AnswersTrueUncached` (`TrueAnswers`), `CachedQueriesSafe` and `UncachedCallsSafe` (`NoUseOfReleased`) |
| `DBConnectorProofs` | `SessionTypes` (`SessionTypeOK`), `NothingLeftBehind` (`NothingLeft`), `SessionsSafe` (`SessionsAreSafe`), `SessionsImplementStore` (`StoreServiceSpec`) |
| `MainScreenProofs` | `MainTypes` (`TypeOK`), `ListsCurrent` (`ListsAreCurrent`), `CriteriaOwn` (`CriteriaOnItsOwn`), `SavedTablesFit` (`TablesOfItsOwn`), `SavedQueriesFit` (`QueriesReferToConnections`), `FirstLaunchFinal` (`FirstLaunchDecides`), `QueriesStay` (`QueryKeepsItsConnection`) |
| `TableBrowserProofs` | `BrowserTypes` (`TypeOK`), `ScreensFit` (`ScreensOnTheirTable`), `ResultsFit` (`FoundAsAsked`), `AnswersReadable` (`AnswersAreReadable`), `NeverReturned` (`ReturnedNeverShown`) |
| `QueryScreensProofs` | `QueryTypes` (`TypeOK`), `RuleWithin` (`RuleWithinColumns`), `ColumnsFit` (`ColumnsOfTable`), `SwitchesTrue` (`SwitchesTell`), `ResultsMeet` (`ResultsMeetConditions`) |

### Assumptions

On the constants, beyond that bounds are natural numbers and that nil is no request,
target, screen, table or statement: a slot of a result set is not the local one of a
finder (`LocalAssumption`); nil is no operation of a session (`OperationAssumption`)
and no item of a list (`ItemAssumption`); columns are sequences of names, a name a
sequence of pieces of its own table, never empty, and no table is without columns
(`BuilderAssumption`, `BrowserAssumption`; SQL Server has no other tables or names);
in `TableBrowser` a name is one piece. TLC evaluates all of them in the runs.

Four theorems have hypotheses of their own, each the setting of a run. `ServesRequests`
assumes a user who waits. `AnswersTrueUncached` is about a database without the cache,
and `UncachedCallsSafe` about one whose callers also close their result sets before it;
`CachedQueriesSafe` about one with the cache and without updates. With the cache and
updates the property is false (`db_cached_update`).

### The arguments

*ServerConnection.* `OneAnswer` is not inductive: it speaks of answers given, and what
prevents a second one is where the worker's blocks and the queued completions are.
`CommonInv` adds that: `Progress` ties the two blocks of a request to what it waits
for; `Expected` says that a completion is queued only for the request that waits
for it, and `Single` only once; `OutputOK` bounds what a completion will deliver.
All hold for overlapping requests. For a user who waits `WaitingInv` adds that one
request is `Alone`, that delegate, signal id and parameters are its own
(`Addressed`), and, step by step, that the login record, the connection and the
connection each call was made on are its own (`OwnLogin`, `OwnProcess`,
`OwnCompletion`, `OwnCalls`), though the tails of earlier blocks still run.
`IInv == CommonInv /\ WaitingInv` is inductive. `HandlesInv` rests on it: an alert is
queued before the completion of a failure (`Alerted`); column buffers are there only
while rows are read or after a failure; a connection is open only between `dbopen`
and the answer; and for a user who waits for the workers too, one request is at work and
`login` is its record. `RightServer` needs both invariants: `Told` and `OpenedFor` say
what the login record and the connection were given by where the block is, each its own
or `Unknown` (`OwnServer`), and `AllKnown` that for a user who waits for the workers it
is never `Unknown`. `ServesRequests` maps each step to one of `RequestService` or
to a stutter.

*FMDatabase.* `CommonInv` says what the running method was given, by where it is
(`Calls`), and that every pointer (of the cache, a result set, an `FMStatement`, the
method) is to a statement that was prepared once (`Pointers`). Why no released statement
is used is a different reason with the cache and without: with it, everything an
`FMStatement` still points to is in the cache and what the cache holds is alive, so that
`close` empties every late pointer (`CacheOwns`); without it, every open result set has
a statement of its own that is alive (`SlotsAlive`). `TrueAnswers` needs that a
finder's statement is of its own text and argument and was stepped only past rows it
does not look for (`Uncached`).

*DBConnector.* A session's step is a step of FMDatabase, so `CommonInv` holds by the
same lemmas. `Prefix` says that the statements done are the first ones of the operation, and
`Counts` relates them to those left and to `gaveUp`: the one handed to `executeUpdate:` is
the next (`DueIsNext`), which makes every step of a session one of `StoreService` or a
stutter; `Clear` says why turning the cache on
for a list is safe: no update follows, and the cache was empty.

*MainScreen.* An item is a copy of a row that may be gone: `ItemsKnown` says that its
query was saved once, and is still of the same connection if its row is there, wherever
the copy is (a list, `m_selectedQueryItem`, the alert, a screen of the stack). If the user
waits, the answer that will open a builder is of the tap before it (`AnswerFits`), and
so is what the builder would save (`BuildersFit`). `Created` is the order in which the
first launch makes tables.

*TableBrowser.* `Shapes` and `DelegateThere` hold of any user: in particular, signal ids
1, 2 and 11 are set only once columns came, which is why what a request method returned
at once is never shown. For one who waits, `ChainOf` says for the one request under way
who the delegate is, which signal id is set and what `m_selectedTableColumns` holds.

*Query screens.* `SwitchesTell` is inductive only with the types of the picker, and its
step rests on what splitting and joining do. `RuleWithinColumns` needs `Untouched`: a
builder that edits and still waits for the saved query's columns has empty fields, and
its picker nothing to choose; and what a picker of the rule offers or holds are pieces of
the columns (`Named`). `ColumnsOfTable` needs that the columns the builder was answered
are those of its table unless a request is under way (`Offered`). `ResultsMeetConditions`
needs that a request for rows carries the conditions typed as they still are (`ChainOf`),
and that a short rule is never scrolled. The proofs go by kinds of steps (`StepKinds`,
`AnswerKinds`): turning a switch on and off is one kind, `Selects`, which says what it
does to the names chosen.

*Texts.* What `Joined` and `Split` do to lists of any length is proved by induction
without a theorem that takes an operator as a parameter: `NumbersByInduction` and
`SequencesByInduction` speak of a set of numbers, or of sequences, that holds 0 or the empty one
and with each member the next, and follow from the minimum of a nonempty set in a
well-founded order. Joining gives just the pieces of the names (`JoinedPieces`),
splitting a text and joining it again gives the text (`JoinedSplit`), and no element
of a split text has a piece the text has not (`SplitNames`).

### Only model-checked

The liveness properties, which are out of the prover's reach: `EveryRequestEnds`,
`CallsEnd`, `OperationsEnd`, `RowOpensSearch`. The two violations are traces of TLC.

## 7. Not modelled, and why

* Texts, alerts' wording, layout, value conversion, encryption keys, tracing.
* `dbdead` and the other FreeTDS and SQLite calls, except by what they may answer.
* Out-of-memory in Objective-C code; `calloc` failing in SQLClient is modelled.
* How `Con_TablesController` is opened: no segue of the storyboard and no code does.
  `OpenTables` takes what the main screen's `prepareForSegue:` would give it.
* In `QueryBuilder`: a builder pushed over another screen and one that is given
  something else than a list of tables, which `MainScreen` has; an `admin_conf_mgr`
  with NULL for a text; names that differ only in case. In `TableBrowser`: names with
  commas, which `QueryBuilder` has.
* `recivedDataArray:::` of `AdminTableConfController`: the request it answers is
  commented out and nothing makes it the delegate.
* Batches of `for-in` loops: they matter from the seventeenth element on.
* The fields of `Con_SettingController`: what is saved is a row, and which. So the
  filling in of the fields 0.2 s after the screen is loaded (`onSetInfors`, which
  overwrites what was typed before) is left out, and so is the text of a field that is
  not on display, which is nil and passes the test for empty fields: the seven rows fit
  every display of the layout. `onSave` with an empty field changes nothing, which is a
  stuttering step; the row in memory that it writes before the update is listed anew
  when the main screen comes back.
* Two buttons of the storyboard's main view that carry the segues as their own
  action lie below the visible part of the view on the devices of the layout and
  are not taps of the model.
* `MysqlConnectionLib`: not compiled into the app. The SQLMgr methods `transation`,
  `commit`, `rollback` have no caller.

## 8. Plan

Done: SQLClient and ServerConnection with their proofs; FMDatabase; DBConnector, and
StoreService which it implements; LocalStore; MainScreen; QueryBuilder, QueryScreens;
TableBrowser.

Done as well: theorems of all safety properties the runs check (section 6).

Next:

1. What the screens' modules take of `Requests` against `RequestService`: that for a user
   who waits the steps of `Requests` are steps of that service.
2. For the liveness properties, the safety half of their argument: the busy loops'
   `tries` only grow while a call runs, a worker's blocks only go forward, a chain of
   `TableBrowser` only goes to its next signal id. They are action properties and within the
   prover's reach.
3. `LocalStore` by itself: a session's statements (`StoreService`) against the statements that
   the main screen's actions make.
