----------------------------- MODULE TableBrowser -----------------------------
(***************************************************************************)
(* MainUI/DatabaseTables: Con_TablesController lists the tables of a       *)
(* server.  A tap on a row asks for the columns of the table and then for  *)
(* its text in admin_conf_mgr (signal ids 10, 11), and opens the search    *)
(* screen; a tap on its accessory asks for the columns, makes              *)
(* admin_conf_mgr, asks for the text (0, 1, 2) and opens the list of       *)
(* switches.  Con_SearchController asks for rows (0), SearchResultController *)
(* pages through them.  The next request of a chain is made when an answer *)
(* comes, and answers come to the delegate with the signal id set last, in *)
(* any order, or never (see ServerConnection).                             *)
(***************************************************************************)
EXTENDS Texts, Requests

CONSTANTS Table,    \* the tables of the server
          Admin,    \* admin_conf_mgr
          Orders,   \* the tables, in the orders their names may give
          Columns,  \* the column names of each table
          Conf,     \* the texts an admin_conf_mgr that is there may hold
          Window,   \* rows of the search screen that fit on the display
          MaxRows,  \* bound: rows a search finds
          MaxDepth  \* bound: screens over the tables; an answer that would
                    \* open one more waits

ASSUME BrowserAssumption ==
    /\ Admin \notin Table /\ Null \notin Table \cup {Admin}
    /\ \A order \in Orders : order \in Seq(Table \cup {Admin})
    /\ DOMAIN Columns = Table /\ DOMAIN Conf = Table
    /\ \A t \in Table :
          /\ Columns[t] \in Seq(ToSet(Columns[t]))
          /\ \A i \in DOMAIN Columns[t] : Len(Columns[t][i]) = 1
          /\ Joined(Columns[t]) # <<>>   \* SQL Server has no table without a column
    /\ {Window, MaxRows, MaxDepth} \subseteq Nat \ {0}
    /\ Null \notin 0..MaxDepth

VARIABLES admin_conf_mgr,          \* the server's texts by table, Null: not there
          m_tableNameArray,        \* Null: the tables' screen is not open
          isAdminMode,             \* the user is "sa"
          m_selectedTableName,
          m_selectedTableColumns,
          stack,                   \* the screens over it; as a delegate it is
                                   \* 0, and stack[i] is i
          hurried,                 \* history: a tap came before an answer
          lost,                    \* history: an answer did not come
          ended                    \* history: where an exception ended the app

tablesVars == <<m_tableNameArray, isAdminMode, m_selectedTableName,
                m_selectedTableColumns>>
history    == <<hurried, lost, ended>>
vars       == <<admin_conf_mgr, tablesVars, stack, asking, history>>

(***************************************************************************)
(* What answers hold.                                                      *)
(***************************************************************************)

\* An answer holds one list (of columns, of rows, or of no row) or one text.
List(what, of) == [what |-> what, of |-> of]
Text(text)     == List("text", text)
IsText(answer) == answer.what = "text"

\* What the request methods make of what the server says; no elements at all
\* are nobody's answer.  A statement that fails is a text for two of them.
Answers(request) ==
    CASE request.what = "columns" -> {List("columns", request.of)}
      [] request.what = "rows"    -> {List("rows", request.of)}
      [] request.what = "create"  -> {List("none", Null), Text(<<>>)}
      [] request.what = "conf"    ->
            {Text(<<>>)} \cup IF admin_conf_mgr = Null THEN {}
                              ELSE {Text(admin_conf_mgr[request.of])}

NewTable == [t \in Table |-> <<>>]

\* The server makes an empty admin_conf_mgr for createAdminConfTable, if there is
\* none yet.
Create(request) ==
    admin_conf_mgr' = IF request.what = "create" /\ admin_conf_mgr = Null
                      THEN NewTable ELSE admin_conf_mgr

\* objectForKey:@"name" of each row.
NamesOf(answer) == IF answer.what = "columns" THEN Columns[answer.of] ELSE <<>>

(***************************************************************************)
(* The screens.                                                            *)
(***************************************************************************)

\* What a screen is given for columns: what a request method returned at once
\* (what an earlier answer left), a whole answer, or its first element.
Returned     == [as |-> "returned", data |-> List("unknown", Null)]
Whole(a)     == [as |-> "whole", data |-> a]
First(a)     == [as |-> "first", data |-> a]

\* setInitialData::, setConfData:
Search(t, columns, conf) ==
    [kind |-> "search", table |-> t, columns |-> columns, conf |-> conf,
     typed |-> {}, top |-> 0]

\* setInfoData::, setConfData:.  It has one row, with a switch: that of the one
\* element of the whole answer, which has a name only if it is a text.
Config(t, columns, conf) ==
    [kind |-> "config", table |-> t, columns |-> columns, conf |-> conf,
     chosen |-> Split(conf),
     on |-> IsText(columns.data) /\ Contains(Split(conf), columns.data.of)]

\* setFilterArray:, setSearchResult: and viewDidLoad.
Result(answer, filter, n) ==
    [kind |-> "result", of |-> answer, filter |-> filter, rows |-> n, page |-> 0]

OnTables   == m_tableNameArray # Null /\ stack = <<>>
On(kind)   == stack # <<>> /\ Last(stack).kind = kind
Push(s)    == Len(stack) < MaxDepth /\ stack' = Append(stack, s)
Top        == Last(stack)
SetTop(s)  == stack' = [stack EXCEPT ![Len(stack)] = s]

NoTables ==
    /\ m_tableNameArray' = Null /\ isAdminMode' = FALSE
    /\ m_selectedTableName' = Null /\ m_selectedTableColumns' = Returned

\* An exception nobody catches ends the app; it is started again.
Exception(where) ==
    /\ ended' = where
    /\ NoTables /\ stack' = <<>> /\ NoRequests(Null)

Init ==
    /\ admin_conf_mgr \in {Null, Conf}
    /\ m_tableNameArray = Null /\ isAdminMode = FALSE
    /\ m_selectedTableName = Null /\ m_selectedTableColumns = Returned
    /\ stack = <<>>
    /\ InitRequests(Null)
    /\ hurried = FALSE /\ lost = FALSE /\ ended = "nowhere"

(***************************************************************************)
(* The tables' screen.                                                     *)
(***************************************************************************)

\* setTableNames: removes admin_conf_mgr, which without an exception is the last.
Listed(order) == IF Contains(order, Admin) THEN Front(order) ELSE order

\* setTableNames: goes on, and viewDidLoad.  The loop removes admin_conf_mgr from the
\* array it runs over: unless that was the last, the next round raises an
\* exception.  The main screen asked for the tables (admin_conf_mgr may have
\* been made since), and is the delegate.
OpenTables ==
    /\ m_tableNameArray = Null
    /\ \E order \in Orders :
          /\ Contains(order, Admin) => admin_conf_mgr # Null
          /\ IF Contains(Front(order), Admin) THEN Exception("opening")
             ELSE /\ m_tableNameArray' = Listed(order)
                  /\ isAdminMode' \in BOOLEAN
                  /\ Address(Null, 0)
                  /\ UNCHANGED <<m_selectedTableName, m_selectedTableColumns,
                                 stack, pending, ended>>
    /\ UNCHANGED admin_conf_mgr

CloseTables ==
    /\ OnTables /\ NoTables /\ Gone(0)
    /\ UNCHANGED <<admin_conf_mgr, stack, pending, signal_id, ended>>

\* Mutant: the table chosen first stays.
AskForColumnsOnce(i, sig) ==
    /\ OnTables
    /\ m_selectedTableName' = IF m_selectedTableName = Null THEN m_tableNameArray[i]
                              ELSE m_selectedTableName
    /\ m_selectedTableColumns' = Returned
    /\ Ask(0, sig, Asks("columns", m_tableNameArray[i]))
    /\ UNCHANGED <<admin_conf_mgr, m_tableNameArray, isAdminMode, stack, ended>>

\* A tap on row i, or on its accessory, asks for the columns.
AskForColumns(i, sig) ==
    /\ OnTables
    /\ m_selectedTableName' = m_tableNameArray[i]
    /\ m_selectedTableColumns' = Returned
    /\ Ask(0, sig, Asks("columns", m_tableNameArray[i]))
    /\ UNCHANGED <<admin_conf_mgr, m_tableNameArray, isAdminMode, stack, ended>>

\* Mutant: a tap on the row has the signal id of its second request.
TapRowEleven(i) == AskForColumns(i, 11)

TapRow(i)       == AskForColumns(i, 10)
TapAccessory(i) == isAdminMode /\ AskForColumns(i, 0)

\* Mutant: what getColumNamesInTable: returned at once is kept.
ColumnsReturned(r, a) ==
    /\ \/ signal_id = 0  /\ AskNext(r, 0, 1, Asks("create", Null))
       \/ signal_id = 10 /\ AskNext(r, 0, 11, Asks("conf", m_selectedTableName))
    /\ UNCHANGED <<tablesVars, stack, ended>>

\* Mutant: the columns come, and the configuration is not asked for.
ColumnsOnly(r, a) ==
    /\ signal_id \in {0, 10}
    /\ m_selectedTableColumns' = IF signal_id = 0 THEN Whole(a) ELSE First(a)
    /\ Served(r)
    /\ UNCHANGED <<m_tableNameArray, isAdminMode, m_selectedTableName, stack,
                   delegate, signal_id, ended>>

\* recivedDataArray:::, signal ids 0 and 10: the columns.
ColumnsCome(r, a) ==
    /\ \/ /\ signal_id = 0
          /\ m_selectedTableColumns' = Whole(a)
          /\ AskNext(r, 0, 1, Asks("create", Null))
       \/ /\ signal_id = 10
          /\ m_selectedTableColumns' = First(a)
          /\ AskNext(r, 0, 11, Asks("conf", m_selectedTableName))
    /\ UNCHANGED <<m_tableNameArray, isAdminMode, m_selectedTableName, stack, ended>>

\* Signal id 1: admin_conf_mgr is there, or could not be made.
TableMade(r, a) ==
    /\ signal_id = 1
    /\ AskNext(r, 0, 2, Asks("conf", m_selectedTableName))
    /\ UNCHANGED <<tablesVars, stack, ended>>

\* Signal id 2: the list of switches, if the element is a text.
OpenConfig(r, a) ==
    /\ signal_id = 2
    /\ IF IsText(a)
       THEN /\ Push(Config(m_selectedTableName, m_selectedTableColumns, a.of))
            /\ Served(r)
            /\ UNCHANGED <<tablesVars, delegate, signal_id, ended>>
       ELSE Exception("answer")

\* Signal id 11: the search screen; without a text it has all the columns.
OpenSearch(r, a) ==
    /\ signal_id = 11
    /\ IF IsText(a) /\ ~IsText(m_selectedTableColumns.data)
       THEN /\ Push(Search(m_selectedTableName, m_selectedTableColumns,
                           IF a.of # <<>> THEN a.of
                           ELSE Joined(NamesOf(m_selectedTableColumns.data))))
            /\ Served(r)
            /\ UNCHANGED <<tablesVars, delegate, signal_id, ended>>
       ELSE Exception("answer")

\* Rows of a search have no name to be added to all the columns.
RowsForColumns(r, a) ==
    /\ signal_id = 11
    /\ a = Text(<<>>) /\ m_selectedTableColumns.data.what = "rows"
    /\ Exception("answer")

TablesReceive(r, a) ==
    /\ delegate = 0
    /\ \/ ColumnsCome(r, a) \/ TableMade(r, a) \/ OpenConfig(r, a)
       \/ OpenSearch(r, a) \/ RowsForColumns(r, a)

(***************************************************************************)
(* The screens over it.                                                    *)
(***************************************************************************)
\* Names found among the pieces of the configuration: tmpArray.
NamesIn(columns, conf) ==
    SelectSeq(NamesOf(columns.data), LAMBDA n : Contains(Split(conf), n))
Offered(s) == NamesIn(s.columns, s.conf)

Visible(s) == (s.top + 1)..(s.top + Window)

Here == UNCHANGED <<admin_conf_mgr, tablesVars, asking, ended>>

\* Mutant: a row keeps its text when it leaves the display.
ScrollKeeps ==
    /\ On("search")
    /\ \E top \in 0..Len(Offered(Top)) :
          /\ top = 0 \/ top + Window <= Len(Offered(Top))
          /\ SetTop([Top EXCEPT !.top = top])
    /\ Here

\* tableView:cellForRowAtIndexPath: makes a new row each time it comes to the
\* display: what was typed into the old one is gone.
Scroll ==
    /\ On("search")
    /\ \E top \in 0..Len(Offered(Top)) :
          /\ top = 0 \/ top + Window <= Len(Offered(Top))
          /\ SetTop([Top EXCEPT !.top = top,
                                !.typed = @ \cap Visible([Top EXCEPT !.top = top])])
    /\ Here

\* A condition is typed, or deleted.
Type ==
    /\ On("search")
    /\ \E i \in DOMAIN Offered(Top) \cap Visible(Top) :
          SetTop([Top EXCEPT !.typed = IF i \in @ THEN @ \ {i} ELSE @ \cup {i}])
    /\ Here

Rows(table, conditions) == [table |-> table, conditions |-> conditions]

\* onSearch: of the rows on the display.
SearchRows ==
    /\ On("search")
    /\ Ask(Len(stack), 0, Asks("rows", Rows(Top.table, Top.typed \cap Visible(Top))))
    /\ UNCHANGED <<admin_conf_mgr, tablesVars, stack, ended>>

RowCounts(a) == CASE a.what = "columns" -> {Len(Columns[a.of])}
                  [] a.what = "rows"    -> 0..MaxRows
                  [] a.what = "none"    -> {0}

\* recivedDataArray::: of the search screen, for any signal id: viewDidLoad of
\* the result asks a text for its count.
SearchReceives(r, a) ==
    /\ delegate \in DOMAIN stack
    /\ IF IsText(a) THEN Exception("answer")
       ELSE /\ \E n \in RowCounts(a) : Push(Result(a, stack[delegate].conf, n))
            /\ Served(r)
            /\ UNCHANGED <<tablesVars, delegate, signal_id, ended>>

\* onBeforeResult:
BeforeResult ==
    /\ On("result") /\ Top.page # 0
    /\ SetTop([Top EXCEPT !.page = @ - 1])
    /\ Here

\* Mutant: no rows are not looked for; count - 1 is unsigned.
NextResultUnchecked ==
    /\ On("result") /\ Top.page # Top.rows - 1 /\ Top.page < MaxRows
    /\ SetTop([Top EXCEPT !.page = @ + 1])
    /\ Here

\* onNextResult:
NextResult ==
    /\ On("result") /\ Top.page # Top.rows - 1 /\ Top.rows > Top.page
    /\ SetTop([Top EXCEPT !.page = @ + 1])
    /\ Here

\* onChangeValue:.  An element that is no text has no name, and nil cannot be
\* added to an array; a name that is found must be the last, as the loop removes
\* it from the array it runs over.
Switch ==
    /\ On("config")
    /\ LET name == Top.columns.data.of
           at   == SelectInSeq(Top.chosen, LAMBDA n : n = name)
       IN  \/ /\ ~Top.on /\ IsText(Top.columns.data)
              /\ SetTop([Top EXCEPT !.on = TRUE, !.chosen = Append(@, name)])
              /\ Here
           \/ /\ ~Top.on /\ ~IsText(Top.columns.data)
              /\ Exception("switch") /\ UNCHANGED admin_conf_mgr
           \/ /\ Top.on /\ at = Len(Top.chosen)
              /\ SetTop([Top EXCEPT !.on = FALSE, !.chosen = Front(@)])
              /\ Here
           \/ /\ Top.on /\ at # Len(Top.chosen)
              /\ Exception("switch") /\ UNCHANGED admin_conf_mgr

\* Back; onSave of the switches pops too, and its delegate is nil.
Pop ==
    /\ stack # <<>>
    /\ stack' = Front(stack)
    /\ Gone(Len(stack))
    /\ UNCHANGED <<admin_conf_mgr, tablesVars, pending, signal_id, ended>>

(***************************************************************************)
(* The specification.                                                      *)
(***************************************************************************)
Tap ==
    \/ OpenTables \/ CloseTables
    \/ m_tableNameArray # Null /\ \E i \in DOMAIN m_tableNameArray :
                                     TapRow(i) \/ TapAccessory(i)
    \/ Scroll \/ Type \/ SearchRows \/ BeforeResult \/ NextResult \/ Switch \/ Pop

\* A screen that is gone hears nothing.
NobodyReceives(r) ==
    /\ delegate = Null
    /\ Served(r)
    /\ UNCHANGED <<tablesVars, stack, delegate, signal_id, ended>>

Receive(r) ==
    \E a \in Answers(pending[r]) :
        /\ IF IsText(a) THEN UNCHANGED admin_conf_mgr ELSE Create(pending[r])
        /\ TablesReceive(r, a) \/ SearchReceives(r, a) \/ NobodyReceives(r)

\* The connection fails, or the answer has no elements.
Drop(r) ==
    /\ UNCHANGED admin_conf_mgr \/ Create(pending[r])
    /\ Served(r)
    /\ UNCHANGED <<tablesVars, stack, delegate, signal_id, ended>>

\* The next answer: nobody taps meanwhile.
Answer ==
    /\ \E r \in UnderWay : \/ Receive(r) /\ UNCHANGED lost
                           \/ Drop(r) /\ lost' = TRUE
    /\ UNCHANGED hurried

Next == \/ Tap /\ hurried' = (hurried \/ ~Idle) /\ UNCHANGED lost
        \/ Answer
Spec == Init /\ [][Next]_vars

\* Every request ends (ServerConnection!EveryRequestEnds).
FairSpec == Spec /\ WF_vars(Answer)

(***************************************************************************)
(* Properties.                                                             *)
(***************************************************************************)
Answered == [what : {"columns"}, of : Table] \cup [what : {"unknown", "none"}, of : {Null}]
            \cup [what : {"rows"}, of : [table : Table, conditions : SUBSET Nat]]
AnyText    == {<<>>} \cup UNION {{Conf[t], Joined(Columns[t])} : t \in Table}
IsAnswer(a) == IF IsText(a) THEN a.of \in AnyText ELSE a \in Answered

TablesOK ==
    /\ admin_conf_mgr \in {Null, Conf, NewTable}
    /\ m_tableNameArray # Null => ToSet(m_tableNameArray) \subseteq Table
    /\ m_selectedTableName \in Table \cup {Null}
    /\ m_selectedTableColumns.as \in {"returned", "whole", "first"}
    /\ IsAnswer(m_selectedTableColumns.data)

ScreenOK(s) ==
    \/ /\ s.kind = "search" /\ s.table \in Table /\ s.conf \in AnyText
       /\ IsAnswer(s.columns.data)
       /\ s.typed \subseteq DOMAIN Offered(s) \cap Visible(s)
    \/ /\ s.kind = "config" /\ s.table \in Table /\ s.conf \in AnyText
       /\ IsAnswer(s.columns.data) /\ s.on \in BOOLEAN
    \/ /\ s.kind = "result" /\ s.filter \in AnyText /\ IsAnswer(s.of)
       /\ s.page \in {0} \cup 0..(s.rows - 1)

StackOK ==
    /\ Len(stack) <= MaxDepth
    /\ m_tableNameArray = Null => stack = <<>>
    /\ \A i \in DOMAIN stack : ScreenOK(stack[i])

AskingOK ==
    /\ delegate \in {Null} \cup 0..MaxDepth
    /\ delegate \in DOMAIN stack => stack[delegate].kind = "search"
    /\ signal_id \in {0, 1, 2, 10, 11}
    /\ {isAdminMode, hurried, lost} \subseteq BOOLEAN
    /\ ended \in {"nowhere", "opening", "switch", "answer"}

\* The types of the variables.  admin_conf_mgr is never among the tables listed;
\* the page shown is one of the rows, or the first of none.
TypeOK == TablesOK /\ StackOK /\ AskingOK

Opened(kind) == {stack[i] : i \in {j \in DOMAIN stack : stack[j].kind = kind}}

\* If the user waits, a search screen is titled with the table its columns and
\* its configuration are of (all the columns, if the table has none), and so is
\* the list of switches: the answers of a chain belong to the tap it began with.
ScreensOnTheirTable ==
    ~hurried =>
        /\ \A s \in Opened("search") :
              /\ s.columns = First(List("columns", s.table))
              /\ s.conf \in {Conf[s.table], Joined(Columns[s.table])} \ {<<>>}
        /\ \A s \in Opened("config") :
              /\ s.columns = Whole(List("columns", s.table))
              /\ s.conf \in {Conf[s.table], <<>>}

\* If the user waits, the rows on top of a search screen are rows of its table
\* that meet every condition it still shows, with its configuration as filter.
FoundAsAsked ==
    ~hurried =>
        \A i \in DOMAIN stack :
            stack[i].kind = "result" =>
                /\ stack[i - 1].kind = "search"
                /\ stack[i].of = List("rows", Rows(stack[i - 1].table,
                                                   stack[i - 1].typed))
                /\ stack[i].filter = stack[i - 1].conf

\* If the user waits, no answer ends the app: each arrives with the signal id of
\* a handler that can read it.  And opening the tables never ends it before
\* admin_conf_mgr is made, waiting or not.
AnswersAreReadable ==
    /\ ~hurried => ended # "answer"
    /\ ended = "opening" => admin_conf_mgr # Null

\* Whoever receives what: what a request method returned at once, left over
\* from an earlier answer, never reaches a screen.
ReturnedNeverShown ==
    \A s \in Opened("search") \cup Opened("config") : s.columns.as # "returned"

\* If the user waits and every answer comes, a tap on a row ends at a search
\* screen: the chain 10, 11 is never broken off.
RowOpensSearch ==
    [](~hurried /\ ~lost) =>
        []((signal_id \in {10, 11} /\ ~Idle /\ delegate = 0) => <>On("search"))
=============================================================================
