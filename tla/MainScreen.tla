------------------------------ MODULE MainScreen ------------------------------
(***************************************************************************)
(* MysqlConnection/MainViewController.m, the list of connections, deleted  *)
(* connections and saved queries, with the screens it opens:               *)
(* MainUI/ConnectionSetting/Con_SettingController.m, BuildViewController.m *)
(* (as far as what it is given and what it saves) and                      *)
(* CretoriaViewController.m.  All of it runs on the main thread; a tap may *)
(* ask the server for something, and the answer comes back between any two *)
(* later taps, to whoever is then the delegate of MySqlServerConnection,   *)
(* with the signal id set last (see ServerConnection).                     *)
(***************************************************************************)
EXTENDS LocalStore, Sequences

CONSTANTS Req,       \* bound: requests under way at a time
          MaxDepth   \* bound: screens on top of the main one

ASSUME MainAssumption == MaxDepth \in Nat \ {0}
ASSUME ItemAssumption == \A q \in Qry, c \in Conn \cup {Null} : Item(q, c) # Null

VARIABLES connected,      \* m_connectedDatabases: the dbIDs of its items
          recent,         \* m_recentDatabases
          queryArray,     \* m_queryArray
          signal_item,    \* dbID of the connection tapped last, or nil
          selectedQuery,  \* m_selectedQueryItem
          deleteQuery,    \* m_delteQueryItem; an alert asks about it
          stack,          \* the screens on top of the main one
          pending,        \* what each request asks of which connection
          delegate,       \* the class of the connection's delegate
          signal_id,      \* the connection's signal id
          unlisted,       \* history: queries edited with their connection not
                          \* in m_connectedDatabases
          hurried,        \* history: a tap came before the answer to another
          lacking         \* history: tables the file lacked with the app running

screenVars == <<connected, recent, queryArray, signal_item, selectedQuery,
                deleteQuery, stack, pending, delegate, signal_id, unlisted,
                hurried, lacking>>
vars == <<storeVars, screenVars>>

Nothing == [what |-> "nothing", db |-> Null]

\* db and edit as the screen was given them; of: whose tables it offers.
Shown(kind, c, of, item) == [kind |-> kind, db |-> c, of |-> of, edit |-> item]
Settings(c)              == Shown("settings", c, Null, Null)
Builder(c, of, item)     == Shown("build", c, of, item)
Criteria(c, item)        == Shown("criteria", c, Null, item)

Init ==
    /\ InitStore
    /\ connected = {} /\ recent = {} /\ queryArray = {}
    /\ signal_item = Null /\ selectedQuery = Null /\ deleteQuery = Null
    /\ stack = <<>>
    /\ pending = [r \in Req |-> Nothing]
    /\ delegate = Null /\ signal_id = 0
    /\ unlisted = {} /\ hurried = FALSE /\ lacking = {}

Running     == launch = "running"
OnMain      == Running /\ stack = <<>>
Top         == stack[Len(stack)]
OnTop(kind) == Running /\ stack # <<>> /\ Top.kind = kind
Idle        == \A r \in Req : pending[r] = Nothing
MayTap      == deleteQuery = Null

Push(s) == stack' = Append(stack, s)

\* The main screen reads the file again when it appears (viewWillAppear); an
\* error on the way leaves a list with a part of the rows.
ListConnections ==
    /\ connected' \in Listed("connected")'
    /\ recent' \in Listed("deleted")'
ListQueries == queryArray' \in QueriesListed'
Appear      == ListConnections /\ ListQueries

\* Back to the screen below.
Pop ==
    /\ stack' = SubSeq(stack, 1, Len(stack) - 1)
    /\ IF Len(stack) = 1 THEN Appear /\ Touch
       ELSE UNCHANGED <<file, connected, recent, queryArray>>

\* Back, and BuildViewControllerDelegate_needUpdate.
PopSaved ==
    /\ stack' = SubSeq(stack, 1, Len(stack) - 1)
    /\ Touch
    /\ ListQueries
    /\ IF Len(stack) = 1 THEN ListConnections
       ELSE UNCHANGED <<connected, recent>>

\* createInstance, getInstance and a request.
Ask(who, sig, what, c) ==
    /\ \E r \in Req :
          /\ pending[r] = Nothing
          /\ pending' = [pending EXCEPT ![r] = [what |-> what, db |-> c]]
    /\ delegate' = who
    /\ signal_id' = sig

(***************************************************************************)
(* The process.                                                            *)
(***************************************************************************)

\* The app starts; the main screen appears.
Start ==
    /\ Starting
    /\ IF launch' = "running" THEN Appear
       ELSE UNCHANGED <<connected, recent, queryArray>>
    /\ UNCHANGED <<signal_item, selectedQuery, deleteQuery, stack, pending,
                   delegate, signal_id, unlisted>>

\* The process is killed: only the file stays.
Kill ==
    /\ launch # "off"
    /\ launch' = "off"
    /\ connected' = {} /\ recent' = {} /\ queryArray' = {}
    /\ signal_item' = Null /\ selectedQuery' = Null /\ deleteQuery' = Null
    /\ stack' = <<>>
    /\ pending' = [r \in Req |-> Nothing]
    /\ delegate' = Null /\ signal_id' = 0
    /\ UNCHANGED <<file, tables, history, queries, unlisted>>

(***************************************************************************)
(* Taps on the main screen.                                                *)
(***************************************************************************)

\* Mutant: signal_item is not set.
SelectConnectionOnly(c) ==
    /\ OnMain /\ MayTap /\ c \in connected
    /\ Ask("main", 0, "tables", c)
    /\ UNCHANGED <<storeVars, connected, recent, queryArray, signal_item,
                   selectedQuery, deleteQuery, stack, unlisted>>

\* didSelectRowAtIndexPath: of a connection.
SelectConnection(c) ==
    /\ OnMain /\ MayTap /\ c \in connected
    /\ signal_item' = c
    /\ Ask("main", 0, "tables", c)
    /\ UNCHANGED <<storeVars, connected, recent, queryArray, selectedQuery,
                   deleteQuery, stack, unlisted>>

\* The accessory of a connection, or the row below the last one.
EditConnection(c) ==
    /\ OnMain /\ MayTap /\ c \in connected \cup {Null}
    /\ signal_item' = c
    /\ Push(Settings(c))
    /\ UNCHANGED <<storeVars, connected, recent, queryArray, selectedQuery,
                   deleteQuery, pending, delegate, signal_id, unlisted>>

\* Mutant: the connection of the query is looked up in the deleted ones too.
SignalItemAny(item) ==
    signal_item' = IF item.db \in recent THEN item.db ELSE signal_item

\* The loop that looks for the query's connection: if none matches, signal_item
\* stays what it was.
SignalItemFor(item) ==
    signal_item' = IF item.db \in connected THEN item.db ELSE signal_item

\* didSelectRowAtIndexPath: of a saved query.
SelectQuery(item) ==
    /\ OnMain /\ MayTap /\ item \in queryArray
    /\ SignalItemFor(item)
    /\ Push(Criteria(signal_item', item))
    /\ UNCHANGED <<storeVars, connected, recent, queryArray, selectedQuery,
                   deleteQuery, pending, delegate, signal_id, unlisted>>

\* The accessory of a saved query.
EditQuery(item) ==
    /\ OnMain /\ MayTap /\ item \in queryArray
    /\ selectedQuery' = item
    /\ SignalItemFor(item)
    /\ Ask("main", 1, "tables", signal_item')
    /\ unlisted' = IF item.db \in connected THEN unlisted
                   ELSE unlisted \cup {item.id}
    /\ UNCHANGED <<storeVars, connected, recent, queryArray, deleteQuery,
                   stack>>

\* Mutant: the rows are not read again.
FlagConnectionOnly(c, flag) ==
    /\ OnMain /\ MayTap
    /\ c \in (IF flag = "deleted" THEN connected ELSE recent)
    /\ SetFlag(c, flag)
    /\ UNCHANGED <<connected, recent, launch, file, tables, queries, queryArray,
                   signal_item, selectedQuery, deleteQuery, stack, pending,
                   delegate, signal_id, unlisted>>

\* The add button of a deleted connection, the delete button of another one:
\* DBConnector, then refreshTables.
FlagConnection(c, flag) ==
    /\ OnMain /\ MayTap
    /\ c \in (IF flag = "deleted" THEN connected ELSE recent)
    /\ SetFlag(c, flag)
    /\ ListConnections
    /\ Touch
    /\ UNCHANGED <<launch, tables, queries, queryArray, signal_item,
                   selectedQuery, deleteQuery, stack, pending, delegate,
                   signal_id, unlisted>>

\* The delete button of a query shows an alert.
DeleteQuery(item) ==
    /\ OnMain /\ MayTap /\ item \in queryArray
    /\ deleteQuery' = item
    /\ UNCHANGED <<storeVars, connected, recent, queryArray, signal_item,
                   selectedQuery, stack, pending, delegate, signal_id,
                   unlisted>>

\* alertView:didDismissWithButtonIndex:, OK or Cancel.  The item itself stays
\* in m_delteQueryItem; it is Null here once the alert is gone.
AlertDismissed(ok) ==
    /\ Running /\ deleteQuery # Null
    /\ deleteQuery' = Null
    /\ IF ok THEN /\ deleteBuildQuery(deleteQuery.id)
                  /\ ListQueries
                  /\ Touch
       ELSE UNCHANGED <<file, queries, queryArray>>
    /\ UNCHANGED <<launch, tables, history, connected, recent,
                   signal_item, selectedQuery, stack, pending, delegate,
                   signal_id, unlisted>>

(***************************************************************************)
(* The answers.                                                            *)
(***************************************************************************)

\* performSegueWithIdentifier: and prepareForSegue:: the builder gets what
\* signal_item and m_selectedQueryItem are by now.
BuilderFor(of) == Builder(signal_item, of,
                          IF signal_id = 1 THEN selectedQuery ELSE Null)

\* Whose tables the answer holds, if it holds tables at all.
Offered(r) == IF pending[r].what = "tables" THEN pending[r].db ELSE Null

\* recivedDataArray:::.  Other delegates keep the answer to themselves.  When
\* the builder edits a query its viewDidLoad asks for the columns.
Answered(r) ==
    /\ pending[r].db # Null
    /\ IF delegate # "main" \/ Len(stack) >= MaxDepth
       THEN /\ pending' = [pending EXCEPT ![r] = Nothing]
            /\ UNCHANGED <<stack, delegate, signal_id>>
       ELSE /\ Push(BuilderFor(Offered(r)))
            /\ IF signal_id = 1
               THEN /\ pending' = [pending EXCEPT ![r].what = "columns"]
                    /\ delegate' = "builder" /\ signal_id' = 1
               ELSE /\ pending' = [pending EXCEPT ![r] = Nothing]
                    /\ UNCHANGED <<delegate, signal_id>>

\* Dropped, or empty: recivedDataArray::: returns at once.
Unanswered(r) ==
    /\ pending' = [pending EXCEPT ![r] = Nothing]
    /\ UNCHANGED <<stack, delegate, signal_id>>

Answer(r) ==
    /\ Running /\ pending[r] # Nothing
    /\ Answered(r) \/ Unanswered(r)
    /\ UNCHANGED <<storeVars, connected, recent, queryArray, signal_item,
                   selectedQuery, deleteQuery, unlisted>>

(***************************************************************************)
(* The screens on top.                                                     *)
(***************************************************************************)
Unmoved == UNCHANGED <<signal_item, selectedQuery, deleteQuery, pending,
                       delegate, signal_id, unlisted>>

Back ==
    /\ Running /\ stack # <<>> /\ MayTap
    /\ UNCHANGED <<launch, tables, history, queries>>
    /\ Pop /\ Unmoved

\* onSave of the settings: a new row, or updateHistory:, which leaves the flag.
SaveSettings ==
    /\ OnTop("settings") /\ MayTap
    /\ IF Top.db = Null THEN insertIntoHistory ELSE UNCHANGED history
    /\ UNCHANGED <<launch, tables, queries>>
    /\ Pop /\ Unmoved

\* Mutant: the query is saved with the connection tapped last.
BuildForSignalItem ==
    /\ OnTop("build") /\ MayTap
    /\ IF Top.edit = Null THEN insertBuildQuery(Top.db, Top.of)
       ELSE updateBuildQuery(Top.edit.id, Top.db, Top.of)
    /\ UNCHANGED <<launch, tables, history>>
    /\ PopSaved /\ Unmoved

\* onBuild: the table is one of those offered, or the one the query had.
Build ==
    /\ OnTop("build") /\ MayTap
    /\ IF Top.edit = Null THEN insertBuildQuery(Top.db, Top.of)
       ELSE \E of \in {Top.of, queries[Top.edit.id].of} :
                updateBuildQuery(Top.edit.id, Top.edit.db, of)
    /\ UNCHANGED <<launch, tables, history>>
    /\ PopSaved /\ Unmoved

\* onSelectTable of the builder asks for the columns over the connection last
\* used, and takes the delegate's place.
SelectTable ==
    /\ OnTop("build") /\ MayTap
    /\ Ask("builder", 0, "columns", Top.of)
    /\ UNCHANGED <<storeVars, connected, recent, queryArray, signal_item,
                   selectedQuery, deleteQuery, stack, unlisted>>

\* onExcute of the criteria screen.
ExecuteQuery ==
    /\ OnTop("criteria") /\ MayTap
    /\ Ask("criteria", 1, "rows", Top.db)
    /\ UNCHANGED <<storeVars, connected, recent, queryArray, signal_item,
                   selectedQuery, deleteQuery, stack, unlisted>>

Tap == \/ \E c \in Conn : SelectConnection(c) \/ FlagConnection(c, "connected")
                          \/ FlagConnection(c, "deleted")
       \/ \E c \in Conn \cup {Null} : EditConnection(c)
       \/ \E item \in queryArray : \/ SelectQuery(item) \/ EditQuery(item)
                                   \/ DeleteQuery(item)
       \/ \E ok \in BOOLEAN : AlertDismissed(ok)
       \/ Back \/ SaveSettings \/ SelectTable \/ Build \/ ExecuteQuery

Next ==
    /\ \/ Tap /\ hurried' = (hurried \/ ~Idle)
       \/ (Start \/ Kill \/ \E r \in Req : Answer(r)) /\ UNCHANGED hurried
    /\ lacking' = lacking \cup (IF Running /\ file THEN Tables \ tables ELSE {})
Spec == Init /\ [][Next]_vars

(***************************************************************************)
(* Properties.                                                             *)
(***************************************************************************)
Items   == {Item(q, c) : q \in Qry, c \in Conn \cup {Null}}
Screens == [kind : {"settings", "build", "criteria"}, db : Conn \cup {Null},
            of : Conn \cup {Null}, edit : Items \cup {Null}]

TypeOK ==
    /\ StoreTypeOK
    /\ connected \subseteq Conn /\ recent \subseteq Conn
    /\ queryArray \subseteq Items
    /\ signal_item \in Conn \cup {Null}
    /\ selectedQuery \in Items \cup {Null}
    /\ deleteQuery \in Items \cup {Null}
    /\ stack \in Seq(Screens) /\ Len(stack) <= MaxDepth
    /\ pending \in [Req -> [what : {"nothing", "tables", "columns", "rows"},
                            db : Conn \cup {Null}]]
    /\ delegate \in {"main", "builder", "criteria", Null}
    /\ signal_id \in {0, 1}
    /\ unlisted \subseteq Qry /\ hurried \in BOOLEAN /\ lacking \subseteq Tables

\* Whatever was deleted, killed or answered late, the lists never show a row
\* the file does not have in that state.
ListsAreCurrent ==
    Running =>
        /\ \A c \in connected : history[c] = "connected"
        /\ \A c \in recent : history[c] = "deleted"
        /\ \A item \in queryArray : /\ queries[item.id].state = "row"
                                    /\ queries[item.id].db = item.db

\* A saved query is about to be executed on its own connection whenever that
\* connection is in the list; if it is not, on the one tapped last.
CriteriaOnItsOwn ==
    \A i \in 1..Len(stack) :
        stack[i].kind = "criteria" =>
            \/ stack[i].db = stack[i].edit.db
            \/ stack[i].edit.db \notin connected

\* As long as the user waits for each answer, a query names a table of the
\* connection it is saved for, unless it was edited while that connection was
\* not listed.
TablesOfItsOwn ==
    ~hurried => \A q \in Qry :
        queries[q].state = "row" =>
            queries[q].of = queries[q].db \/ q \in unlisted

\* As long as the user waits for each answer, the connection of a query is a
\* row of History for good, be it deleted by then.
QueriesReferToConnections ==
    ~hurried => \A q \in Qry :
        queries[q].state = "row" => /\ queries[q].db \in Conn
                                    /\ history[queries[q].db] # "unused"

\* Editing never moves a query to another connection, and a removed query does
\* not come back from a screen that still shows it.
QueryKeepsItsConnection ==
    [][\A q \in Qry :
          /\ queries[q].state = "row" => \/ queries'[q].db = queries[q].db
                                         \/ queries'[q].state = "removed"
          /\ queries[q].state = "removed" => queries'[q].state = "removed"]_vars

\* A table the file lacks while the app runs is missing for good: no later
\* launch repairs a first one that failed or was killed.  And as createTables
\* stops at the first failure, a file that can keep queries can keep the
\* connections they refer to.
FirstLaunchDecides ==
    /\ lacking \cap tables = {}
    /\ "Query" \in tables => tables = Tables
=============================================================================
