--------------------------- MODULE MainScreenProofs ---------------------------
(***************************************************************************)
(* Proofs about MainScreen with LocalStore.  The user, the server's        *)
(* answers and the death of the process are taken in any order, for any    *)
(* number of connections, queries, requests and screens.                   *)
(***************************************************************************)
EXTENDS MainScreen, SequenceTheorems, TLAPS

Pending == [what : {"nothing", "tables", "columns", "rows"}, db : Conn \cup {Null}]

\* TypeOK in parts.
ListTypes ==
    /\ connected \subseteq Conn /\ recent \subseteq Conn
    /\ queryArray \subseteq Items

TapTypes ==
    /\ signal_item \in Conn \cup {Null}
    /\ selectedQuery \in Items \cup {Null}
    /\ deleteQuery \in Items \cup {Null}
    /\ unlisted \subseteq Qry

StackTypes == stack \in Seq(Screens) /\ Len(stack) <= MaxDepth

AskTypes ==
    /\ pending \in [Req -> Pending]
    /\ delegate \in {"main", "builder", "criteria", Null}
    /\ signal_id \in {0, 1}

HistoryTypes == hurried \in BOOLEAN /\ lacking \subseteq Tables

\* While the app is not running it shows and asks nothing.
Dark ==
    launch # "running" =>
        /\ connected = {} /\ recent = {} /\ queryArray = {} /\ stack = <<>>
        /\ deleteQuery = Null /\ \A r \in Req : pending[r] = Nothing

\* The tables are created in their order; once one is missed, none is created.
Created ==
    /\ "Connect" \in tables => "History" \in tables
    /\ "Query" \in tables => tables = Tables
    /\ lacking # {} => file /\ launch \in {"off", "running"}
    /\ lacking \cap tables = {}

\* An item is a copy of a query that was saved once; a query never changes its
\* connection, so the copy's is right as long as the row is there.
Known(item) == /\ queries[item.id].state # "unused"
               /\ queries[item.id].state = "row" => queries[item.id].db = item.db

ItemsKnown ==
    /\ \A item \in queryArray : Known(item)
    /\ selectedQuery # Null => Known(selectedQuery)
    /\ deleteQuery # Null => Known(deleteQuery)
    /\ \A i \in 1..Len(stack) : stack[i].edit # Null => Known(stack[i].edit)

Used(c) == c \in Conn /\ history[c] # "unused"

\* The answer that will open a builder belongs to the tap before it.
AnswerFits ==
    delegate = "main" => \A r \in Req : pending[r] # Nothing /\ pending[r].db # Null =>
        /\ pending[r].what = "tables"
        /\ signal_id = 0 => pending[r].db = signal_item /\ Used(signal_item)
        /\ signal_id = 1 => /\ selectedQuery # Null
                            /\ \/ pending[r].db = selectedQuery.db
                               \/ selectedQuery.id \in unlisted

\* What a builder would save.
BuildersFit ==
    \A i \in 1..Len(stack) : stack[i].kind = "build" =>
        /\ stack[i].edit = Null => Used(stack[i].db) /\ stack[i].of = stack[i].db
        /\ stack[i].edit # Null => \/ stack[i].of = stack[i].edit.db
                                   \/ stack[i].edit.id \in unlisted

Patient == ~hurried => /\ AnswerFits /\ BuildersFit

Types == StoreTypeOK /\ ListTypes /\ TapTypes /\ StackTypes /\ AskTypes /\ HistoryTypes

MainInv == /\ Types /\ Dark /\ Created /\ ListsAreCurrent /\ CriteriaOnItsOwn
           /\ ItemsKnown /\ Patient
           /\ TablesOfItsOwn /\ QueriesReferToConnections

LEMMA PushedStack ==
    ASSUME stack \in Seq(Screens), NEW s \in Screens, Push(s)
    PROVE  /\ stack' \in Seq(Screens) /\ Len(stack') = Len(stack) + 1
           /\ stack'[Len(stack) + 1] = s
           /\ \A i \in 1..Len(stack) : stack'[i] = stack[i]
BY AppendProperties DEF Push

LEMMA PoppedStack ==
    ASSUME stack \in Seq(Screens), stack # <<>>,
           stack' = SubSeq(stack, 1, Len(stack) - 1)
    PROVE  /\ stack' \in Seq(Screens) /\ Len(stack') = Len(stack) - 1
           /\ \A i \in 1..Len(stack') : i \in 1..Len(stack) /\ stack'[i] = stack[i]
           /\ Len(stack) = 1 => stack' = <<>>
<1>1. Len(stack) \in Nat \ {0}
  BY EmptySeq, LenProperties
<1>2. \A i \in 1..Len(stack) - 1 : stack[i] \in Screens
  BY <1>1, ElementOfSeq
<1>3. /\ stack' \in Seq(Screens)
      /\ Len(stack') = IF 1 <= Len(stack) - 1 THEN Len(stack) - 1 - 1 + 1 ELSE 0
      /\ \A i \in 1..Len(stack) - 1 - 1 + 1 : stack'[i] = stack[1 + i - 1]
  BY <1>1, <1>2, SubSeqProperties
<1>4. Len(stack') = Len(stack) - 1
  <2> DEFINE n == Len(stack)
  <2>1. n \in Nat \ {0} /\ Len(stack') = IF 1 <= n - 1 THEN n - 1 - 1 + 1 ELSE 0
    BY <1>1, <1>3
  <2> HIDE DEF n
  <2>2. Len(stack') = n - 1
    BY <2>1
  <2> QED
    BY <2>2 DEF n
<1>5. \A i \in 1..Len(stack') : i \in 1..Len(stack) /\ stack'[i] = stack[i]
  BY <1>1, <1>3, <1>4
<1>6. Len(stack) = 1 => stack' = <<>>
  BY <1>3, <1>4, EmptySeq
<1> QED
  BY <1>3, <1>4, <1>5, <1>6

LEMMA TopTypes ==
    ASSUME StackTypes, stack # <<>>
    PROVE  Top \in Screens /\ Len(stack) \in 1..Len(stack)
BY EmptySeq, ElementOfSeq, LenProperties DEF StackTypes, Top

(***************************************************************************)
(* What a step does to the file.                                           *)
(***************************************************************************)
FileStep == file' \in {file, TRUE}

TablesStep == /\ \/ launch' = launch
                 \/ launch' = "off"
                 \/ launch = "off" /\ launch' = IF file THEN "running" ELSE "copy"
                 \/ launch \in {"copy", "create"} /\ launch' \in {"create", "running"}
              /\ \/ tables' = tables
                 \/ /\ launch = "create" /\ launch' = launch /\ tables # Tables
                    /\ tables' = tables \cup {Creation[NextTable]}

HistoryStep ==
    \/ history' = history
    \/ \E c \in Conn : \/ /\ history[c] = "unused"
                          /\ history' = [history EXCEPT ![c] = "connected"]
                       \/ /\ ListConnections
                          /\ \E f \in {"connected", "deleted"} :
                                history' = [history EXCEPT ![c] = f]

\* How a builder on top saves: a row of its own, or the query it edits.
Inserted(q) == /\ Top.edit = Null /\ queries[q] = NoQuery
               /\ queries' = [queries EXCEPT ![q] = QueryRow(Top.db, Top.of)]

Updated(q) == /\ Top.edit # Null /\ q = Top.edit.id /\ queries[q].state = "row"
              /\ \E of \in {Top.of, queries[q].of} :
                    queries' = [queries EXCEPT ![q] = QueryRow(Top.edit.db, of)]

Deleted(q) == /\ queries[q].state = "row"
              /\ queries' = [queries EXCEPT ![q] = Removed]

QueriesStep ==
    \/ queries' = queries
    \/ /\ OnTop("build") /\ ListQueries
       /\ \E q \in Qry : Inserted(q) \/ Updated(q)
    \/ ListQueries /\ \E q \in Qry : Deleted(q)

StoreStep == FileStep /\ TablesStep /\ HistoryStep /\ QueriesStep

LEMMA StoreSteps ==
    ASSUME Types, Next
    PROVE  StoreStep
<1> USE DEF Types
<1>1. CASE UNCHANGED storeVars
  BY <1>1 DEF storeVars, StoreStep, FileStep, TablesStep, HistoryStep, QueriesStep
<1>2. CASE Start
  <2>1. Starting
    BY <1>2 DEF Start
  <2>2. UNCHANGED <<history, queries>>
    BY <2>1 DEF Starting, Launch, CopyFile, CreateTable, CreateFails, CreateDone
  <2>3. FileStep
    BY <2>1 DEF Starting, Launch, CopyFile, CreateTable, CreateFails, CreateDone,
       FileStep, Touch
  <2>4. TablesStep
    <3>1. CASE CreateTable
      BY <3>1 DEF CreateTable, TablesStep
    <3>2. CASE Launch \/ CopyFile \/ CreateFails \/ CreateDone
      BY <3>2 DEF Launch, CopyFile, CreateFails, CreateDone, TablesStep
    <3> QED
      BY <2>1, <3>1, <3>2 DEF Starting
  <2> QED
    BY <2>2, <2>3, <2>4 DEF StoreStep, HistoryStep, QueriesStep
<1>3. CASE Kill
  BY <1>3 DEF Kill, StoreStep, FileStep, TablesStep, HistoryStep, QueriesStep
<1>4. ASSUME NEW c \in Conn, NEW flag \in {"connected", "deleted"},
             FlagConnection(c, flag)
      PROVE  StoreStep
  <2>1. UNCHANGED <<launch, tables, queries>> /\ FileStep
    BY <1>4 DEF FlagConnection, Touch, FileStep
  <2>2. HistoryStep
    BY <1>4 DEF FlagConnection, SetFlag, HistoryStep
  <2> QED
    BY <2>1, <2>2 DEF StoreStep, TablesStep, QueriesStep
<1>5. ASSUME NEW ok \in BOOLEAN, AlertDismissed(ok)
      PROVE  StoreStep
  <2>1. UNCHANGED <<launch, tables, history>> /\ FileStep
    BY <1>5 DEF AlertDismissed, Touch, FileStep
  <2>2. QueriesStep
    <3>1. deleteQuery.id \in Qry
      BY <1>5 DEF AlertDismissed, TapTypes, Items, Item
    <3> QED
      BY <1>5, <3>1 DEF AlertDismissed, deleteBuildQuery, QueriesStep, Deleted
  <2> QED
    BY <2>1, <2>2 DEF StoreStep, TablesStep, HistoryStep
<1>6. CASE Back
  BY <1>6 DEF Back, Pop, Touch, StoreStep, FileStep, TablesStep, HistoryStep,
     QueriesStep
<1>7. CASE SaveSettings
  <2>1. UNCHANGED <<launch, tables, queries>> /\ FileStep
    BY <1>7 DEF SaveSettings, Pop, Touch, FileStep
  <2>2. HistoryStep
    BY <1>7 DEF SaveSettings, insertIntoHistory, HistoryStep
  <2> QED
    BY <2>1, <2>2 DEF StoreStep, TablesStep, QueriesStep
<1>8. CASE Build
  <2>1. UNCHANGED <<launch, tables, history>> /\ FileStep /\ ListQueries
    BY <1>8 DEF Build, PopSaved, Touch, FileStep
  <2>2. Top \in Screens
    BY <1>8, TopTypes DEF Build, OnTop
  <2>3. CASE Top.edit = Null
    BY <1>8, <2>1, <2>3 DEF Build, insertBuildQuery, QueriesStep, Inserted, StoreStep,
       TablesStep, HistoryStep
  <2>4. CASE Top.edit # Null
    <3>1. Top.edit.id \in Qry
      BY <2>2, <2>4 DEF Screens, Items, Item
    <3>2. PICK of \in {Top.of, queries[Top.edit.id].of} :
              updateBuildQuery(Top.edit.id, Top.edit.db, of)
      BY <1>8, <2>4 DEF Build
    <3>3. queries' = queries \/ Updated(Top.edit.id)
      BY <2>4, <3>2 DEF updateBuildQuery, Updated
    <3> QED
      BY <1>8, <2>1, <3>1, <3>3 DEF Build, QueriesStep, StoreStep, TablesStep,
         HistoryStep
  <2> QED
    BY <2>3, <2>4
<1> QED
  BY <1>1, <1>2, <1>3, <1>4, <1>5, <1>6, <1>7, <1>8
     DEF Next, Tap, SelectConnection, EditConnection, SelectQuery, EditQuery,
         DeleteQuery, SelectTable, ExecuteQuery, Answer

LEMMA NextTableIs ==
    ASSUME tables \subseteq Tables, tables # Tables
    PROVE  /\ NextTable \in 1..3 /\ Creation[NextTable] \notin tables
           /\ \A j \in 1..(NextTable - 1) : Creation[j] \in tables
           /\ Creation[NextTable] \in Tables
<1> DEFINE P(i) == /\ Creation[i] \notin tables
                   /\ \A j \in 1..(i - 1) : Creation[j] \in tables
<1>1. Creation[1] = "History" /\ Creation[2] = "Connect" /\ Creation[3] = "Query"
  BY DEF Creation
<1>2. \E i \in 1..3 : P(i)
  <2>1. CASE "History" \notin tables
    <3>1. P(1)
      BY <1>1, <2>1
    <3> QED
      BY <3>1
  <2>2. CASE "History" \in tables /\ "Connect" \notin tables
    <3>1. \A j \in 1..(2 - 1) : j = 1
      OBVIOUS
    <3>2. P(2)
      BY <1>1, <2>2, <3>1
    <3> QED
      BY <3>2
  <2>3. CASE "History" \in tables /\ "Connect" \in tables
    <3>1. "Query" \notin tables
      BY <2>3 DEF Tables
    <3>2. \A j \in 1..(3 - 1) : j \in {1, 2}
      OBVIOUS
    <3>3. P(3)
      BY <1>1, <2>3, <3>1, <3>2
    <3> QED
      BY <3>3
  <2> QED
    BY <2>1, <2>2, <2>3
<1>3. NextTable = CHOOSE i \in 1..3 : P(i)
  BY DEF NextTable
<1> HIDE DEF P
<1>4. NextTable \in 1..3 /\ P(NextTable)
  BY <1>2, <1>3
<1>5. Creation[NextTable] \in Tables
  BY <1>1, <1>4 DEF Tables
<1> QED
  BY <1>4, <1>5 DEF P

LEMMA StoreTypesNext ==
    ASSUME Types, Next
    PROVE  StoreTypeOK'
<1> USE DEF Types
<1>1. StoreStep
  BY StoreSteps
<1>2. launch' \in {"off", "copy", "create", "running"} /\ file' \in BOOLEAN
  BY <1>1 DEF StoreStep, FileStep, TablesStep, StoreTypeOK
<1>3. tables' \subseteq Tables
  BY <1>1, NextTableIs DEF StoreStep, TablesStep, StoreTypeOK
<1>4. history' \in [Conn -> Flags]
  BY <1>1 DEF StoreStep, HistoryStep, StoreTypeOK, Flags
<1>5. queries' \in [Qry -> [state : {"unused", "row", "removed"},
                            db : Conn \cup {Null}, of : Conn \cup {Null}]]
  <2> DEFINE Row == [state : {"unused", "row", "removed"},
                     db : Conn \cup {Null}, of : Conn \cup {Null}]
  <2>1. queries \in [Qry -> Row]
    BY DEF StoreTypeOK
  <2>2. ASSUME NEW q \in Qry, NEW c \in Conn \cup {Null}, NEW of \in Conn \cup {Null}
        PROVE  [queries EXCEPT ![q] = QueryRow(c, of)] \in [Qry -> Row]
    <3>1. QueryRow(c, of) \in Row
      BY DEF QueryRow
    <3> HIDE DEF Row
    <3> QED
      BY <2>1, <3>1
  <2>3. ASSUME NEW q \in Qry
        PROVE  [queries EXCEPT ![q] = Removed] \in [Qry -> Row]
    <3>1. Removed \in Row
      BY DEF Removed
    <3> HIDE DEF Row
    <3> QED
      BY <2>1, <3>1
  <2>4. ASSUME OnTop("build"), NEW q \in Qry, Inserted(q) \/ Updated(q)
        PROVE  queries' \in [Qry -> Row]
    <3>1. Top \in Screens
      BY <2>4, TopTypes DEF OnTop
    <3>2. /\ Top.db \in Conn \cup {Null} /\ Top.of \in Conn \cup {Null}
          /\ Top.edit # Null => Top.edit.db \in Conn \cup {Null}
          /\ queries[q].of \in Conn \cup {Null}
      BY <2>1, <3>1 DEF Screens, Items, Item
    <3> HIDE DEF Row
    <3> QED
      BY <2>2, <2>4, <3>2 DEF Inserted, Updated
  <2> HIDE DEF Row
  <2>5. queries' \in [Qry -> Row]
    BY <1>1, <2>1, <2>3, <2>4 DEF StoreStep, QueriesStep, Deleted
  <2> QED
    BY <2>5 DEF Row
<1> QED
  BY <1>2, <1>3, <1>4, <1>5 DEF StoreTypeOK

LEMMA ListedTypes ==
    ASSUME StoreTypeOK'
    PROVE  /\ ListConnections => connected' \subseteq Conn /\ recent' \subseteq Conn
           /\ ListQueries => queryArray' \subseteq Items
<1>1. ListConnections => connected' \subseteq Conn /\ recent' \subseteq Conn
  BY DEF ListConnections, Listed
<1>2. ListQueries => queryArray' \subseteq Items
  BY DEF ListQueries, QueriesListed, Items, Item, StoreTypeOK
<1> QED
  BY <1>1, <1>2

\* Which of the lists a step reads again, with the screens it leaves.
ListsStep ==
    /\ \/ UNCHANGED <<connected, recent>>
          /\ (history' = history \/ \E c \in Conn :
                 /\ history[c] = "unused"
                 /\ history' = [history EXCEPT ![c] = "connected"])
       \/ ListConnections /\ stack' = <<>>
       \/ connected' = {} /\ recent' = {} /\ stack' = <<>> /\ launch' = "off"
    /\ \/ UNCHANGED <<queryArray, queries>>
       \/ ListQueries
       \/ queryArray' = {} /\ launch' = "off"

LEMMA ListsSteps ==
    ASSUME Types, Dark, Next
    PROVE  ListsStep
<1> USE DEF Types
<1>1. CASE Start
  <2>1. launch # "running" /\ UNCHANGED <<history, queries, stack>>
    BY <1>1 DEF Start, Starting, Launch, CopyFile, CreateTable, CreateFails, CreateDone
  <2>2. stack' = <<>>
    BY <2>1 DEF Dark
  <2> QED
    BY <1>1, <2>1, <2>2 DEF Start, Appear, ListsStep
<1>2. CASE Kill
  BY <1>2 DEF Kill, ListsStep
<1>3. ASSUME NEW c \in Conn, NEW flag \in {"connected", "deleted"},
             FlagConnection(c, flag)
      PROVE  ListsStep
  BY <1>3 DEF FlagConnection, ListsStep, OnMain
<1>4. ASSUME NEW ok \in BOOLEAN, AlertDismissed(ok)
      PROVE  ListsStep
  BY <1>4 DEF AlertDismissed, ListsStep
<1>5. CASE Back
  <2>1. Len(stack) = 1 => stack' = <<>>
    BY <1>5, PoppedStack DEF Back, Pop, StackTypes
  <2> QED
    BY <1>5, <2>1 DEF Back, Pop, Appear, ListsStep
<1>6. CASE SaveSettings
  <2>1. Len(stack) = 1 => stack' = <<>>
    BY <1>6, PoppedStack DEF SaveSettings, OnTop, Pop, StackTypes
  <2>2. UNCHANGED queries
        /\ (history' = history \/ \E c \in Conn :
               /\ history[c] = "unused"
               /\ history' = [history EXCEPT ![c] = "connected"])
    BY <1>6 DEF SaveSettings, insertIntoHistory
  <2> QED
    BY <1>6, <2>1, <2>2 DEF SaveSettings, Pop, Appear, ListsStep
<1>7. CASE Build
  <2>1. Len(stack) = 1 => stack' = <<>>
    BY <1>7, PoppedStack DEF Build, OnTop, PopSaved, StackTypes
  <2> QED
    BY <1>7, <2>1 DEF Build, PopSaved, ListsStep
<1>8. CASE UNCHANGED <<history, queries, connected, recent, queryArray>>
  BY <1>8 DEF ListsStep
<1> QED
  BY <1>1, <1>2, <1>3, <1>4, <1>5, <1>6, <1>7, <1>8
     DEF Next, Tap, SelectConnection, EditConnection, SelectQuery, EditQuery,
         DeleteQuery, SelectTable, ExecuteQuery, Answer, storeVars

LEMMA ListTypesNext ==
    ASSUME Types, Dark, Next
    PROVE  ListTypes'
BY ListsSteps, StoreTypesNext, ListedTypes DEF ListsStep, ListTypes, Types

LEMMA TapTypesNext ==
    ASSUME Types, Next
    PROVE  TapTypes'
<1> USE DEF Types
<1>1. \A item \in queryArray : item \in Items /\ item.db \in Conn \cup {Null}
                               /\ item.id \in Qry
  BY DEF ListTypes, Items, Item
<1>2. CASE Start \/ \E r \in Req : Answer(r)
  BY <1>2 DEF Start, Answer, TapTypes
<1>3. CASE Kill
  BY <1>3 DEF Kill, TapTypes
<1>4. ASSUME NEW c \in Conn,
             \/ SelectConnection(c)
             \/ \E flag \in {"connected", "deleted"} : FlagConnection(c, flag)
      PROVE  TapTypes'
  BY <1>4 DEF SelectConnection, FlagConnection, TapTypes
<1>5. ASSUME NEW c \in Conn \cup {Null}, EditConnection(c)
      PROVE  TapTypes'
  BY <1>5 DEF EditConnection, TapTypes
<1>6. ASSUME NEW item \in queryArray, SelectQuery(item)
      PROVE  TapTypes'
  BY <1>1, <1>6 DEF SelectQuery, SignalItemFor, TapTypes
<1>7. ASSUME NEW item \in queryArray, EditQuery(item)
      PROVE  TapTypes'
  BY <1>1, <1>7 DEF EditQuery, SignalItemFor, TapTypes
<1>8. ASSUME NEW item \in queryArray, DeleteQuery(item)
      PROVE  TapTypes'
  BY <1>1, <1>8 DEF DeleteQuery, TapTypes
<1>9. ASSUME NEW ok \in BOOLEAN, AlertDismissed(ok)
      PROVE  TapTypes'
  BY <1>9 DEF AlertDismissed, TapTypes
<1>10. CASE Back \/ SaveSettings \/ SelectTable \/ Build \/ ExecuteQuery
  BY <1>10 DEF Back, SaveSettings, SelectTable, Build, ExecuteQuery, Unmoved, TapTypes
<1> QED
  BY <1>2, <1>3, <1>4, <1>5, <1>6, <1>7, <1>8, <1>9, <1>10 DEF Next, Tap

(***************************************************************************)
(* What a step does to the screens.                                        *)
(***************************************************************************)
Pushed(s) ==
    \/ s \in {Settings(c) : c \in Conn \cup {Null}} /\ stack = <<>>
    \/ /\ stack = <<>> /\ UNCHANGED connected
       /\ \E item \in queryArray : SignalItemFor(item)
                                   /\ s = Criteria(signal_item', item)
    \/ /\ Len(stack) < MaxDepth /\ delegate = "main" /\ UNCHANGED connected
       /\ \E r \in Req : /\ pending[r] # Nothing /\ pending[r].db # Null
                         /\ s = BuilderFor(Offered(r))

StackStep ==
    \/ stack' = stack
    \/ stack' = <<>>
    \/ stack # <<>> /\ stack' = SubSeq(stack, 1, Len(stack) - 1)
    \/ Running /\ Running' /\ \E s : Pushed(s) /\ Push(s)

LEMMA StackSteps ==
    ASSUME Types, Next
    PROVE  StackStep
<1>1. ASSUME NEW r \in Req, Answer(r)
      PROVE  StackStep
  <2>1. CASE Unanswered(r)
    BY <2>1 DEF Unanswered, StackStep
  <2>2. CASE Answered(r)
    <3>1. CASE delegate # "main" \/ Len(stack) >= MaxDepth
      BY <2>2, <3>1 DEF Answered, StackStep
    <3>2. CASE ~(delegate # "main" \/ Len(stack) >= MaxDepth)
      <4>1. /\ pending[r].db # Null /\ pending[r] # Nothing /\ delegate = "main"
            /\ UNCHANGED connected /\ Running /\ Running'
            /\ Push(BuilderFor(Offered(r)))
        BY <1>1, <2>2, <3>2 DEF Answer, Answered, Running, storeVars
      <4>2. Len(stack) < MaxDepth
        BY <3>2, MainAssumption, LenProperties DEF Types, StackTypes
      <4>3. Pushed(BuilderFor(Offered(r)))
        BY <4>1, <4>2 DEF Pushed
      <4> QED
        BY <4>1, <4>3 DEF StackStep
    <3> QED
      BY <3>1, <3>2
  <2> QED
    BY <1>1, <2>1, <2>2 DEF Answer
<1>2. CASE Kill
  BY <1>2 DEF Kill, StackStep
<1>3. ASSUME NEW c \in Conn \cup {Null}, EditConnection(c)
      PROVE  StackStep
  <2>1. Pushed(Settings(c)) /\ Push(Settings(c))
    BY <1>3 DEF EditConnection, OnMain, Pushed
  <2> QED
    BY <1>3, <2>1 DEF EditConnection, OnMain, Running, storeVars, StackStep
<1>4. ASSUME NEW item \in queryArray, SelectQuery(item)
      PROVE  StackStep
  <2>1. Pushed(Criteria(signal_item', item)) /\ Push(Criteria(signal_item', item))
    BY <1>4 DEF SelectQuery, OnMain, Pushed
  <2> QED
    BY <1>4, <2>1 DEF SelectQuery, OnMain, Running, storeVars, StackStep
<1>5. CASE Back \/ SaveSettings \/ Build
  BY <1>5 DEF Back, SaveSettings, Build, OnTop, Pop, PopSaved, StackStep
<1>6. CASE UNCHANGED stack
  BY <1>6 DEF StackStep
<1> QED
  BY <1>1, <1>2, <1>3, <1>4, <1>5, <1>6
     DEF Next, Tap, Start, SelectConnection, FlagConnection, EditQuery, DeleteQuery,
         AlertDismissed, SelectTable, ExecuteQuery

LEMMA PushedTypes ==
    ASSUME Types, TapTypes', NEW s, Pushed(s)
    PROVE  s \in Screens /\ Len(stack) < MaxDepth
<1> USE DEF Types
<1>1. CASE s \in {Settings(c) : c \in Conn \cup {Null}} /\ stack = <<>>
  BY <1>1, MainAssumption, EmptySeq DEF Settings, Shown, Screens
<1>2. CASE stack = <<>> /\ \E item \in queryArray : s = Criteria(signal_item', item)
  <2>1. Len(stack) < MaxDepth
    BY <1>2, MainAssumption
  <2>2. s \in Screens
    BY <1>2 DEF Criteria, Shown, Screens, ListTypes, TapTypes
  <2> QED
    BY <2>1, <2>2
<1>3. CASE Len(stack) < MaxDepth /\ \E r \in Req : s = BuilderFor(Offered(r))
  BY <1>3 DEF BuilderFor, Builder, Shown, Screens, Offered, TapTypes, AskTypes, Pending
<1> QED
  BY <1>1, <1>2, <1>3 DEF Pushed

LEMMA StackTypesNext ==
    ASSUME Types, Next
    PROVE  StackTypes'
<1> USE DEF Types
<1>1. CASE stack' = stack
  BY <1>1 DEF StackTypes
<1>2. CASE stack' = <<>>
  BY <1>2, EmptySeq, MainAssumption DEF StackTypes
<1>3. CASE stack # <<>> /\ stack' = SubSeq(stack, 1, Len(stack) - 1)
  <2>1. /\ stack' \in Seq(Screens) /\ Len(stack') = Len(stack) - 1
        /\ Len(stack) \in Nat /\ Len(stack) <= MaxDepth
    BY <1>3, PoppedStack, LenProperties DEF StackTypes
  <2> QED
    BY <2>1, MainAssumption DEF StackTypes
<1>4. ASSUME NEW s, Pushed(s), Push(s)
      PROVE  StackTypes'
  <2>1. s \in Screens /\ Len(stack) < MaxDepth /\ Len(stack) \in Nat
    BY <1>4, TapTypesNext, PushedTypes, LenProperties DEF StackTypes
  <2>2. stack' \in Seq(Screens) /\ Len(stack') = Len(stack) + 1
    BY <1>4, <2>1, PushedStack DEF StackTypes
  <2> QED
    BY <2>1, <2>2, MainAssumption DEF StackTypes
<1> QED
  BY <1>1, <1>2, <1>3, <1>4, StackSteps DEF StackStep

\* What a screen of the next state was in this one.
LEMMA ScreensStep ==
    ASSUME Types, Next
    PROVE  /\ Len(stack') \in Nat
           /\ \A i \in 1..Len(stack') :
                \/ i \in 1..Len(stack) /\ stack'[i] = stack[i]
                \/ i = Len(stack) + 1 /\ Running /\ Pushed(stack'[i])
<1> USE DEF Types
<1>0. Len(stack') \in Nat /\ Len(stack) \in Nat
  BY StackTypesNext, LenProperties DEF StackTypes
<1>1. CASE stack' = stack
  BY <1>0, <1>1
<1>2. CASE stack' = <<>>
  <2>1. Len(stack') = 0
    BY <1>2
  <2> QED
    BY <1>0, <2>1
<1>3. CASE stack # <<>> /\ stack' = SubSeq(stack, 1, Len(stack) - 1)
  BY <1>0, <1>3, PoppedStack DEF StackTypes
<1>4. ASSUME NEW s, Pushed(s), Push(s), Running
      PROVE  \A i \in 1..Len(stack') :
                \/ i \in 1..Len(stack) /\ stack'[i] = stack[i]
                \/ i = Len(stack) + 1 /\ Running /\ Pushed(stack'[i])
  <2>1. s \in Screens
    BY <1>4, TapTypesNext, PushedTypes
  <2>2. /\ Len(stack') = Len(stack) + 1 /\ stack'[Len(stack) + 1] = s
        /\ \A i \in 1..Len(stack) : stack'[i] = stack[i]
    BY <1>4, <2>1, PushedStack DEF StackTypes
  <2>3. \A i \in 1..Len(stack') : i \in 1..Len(stack) \/ i = Len(stack) + 1
    BY <1>0, <2>2
  <2> QED
    BY <1>4, <2>2, <2>3
<1> QED
  BY <1>0, <1>1, <1>2, <1>3, <1>4, StackSteps DEF StackStep

LEMMA AskedTypes ==
    ASSUME AskTypes, NEW who \in {"main", "builder", "criteria"}, NEW sig \in {0, 1},
           NEW what \in {"tables", "columns", "rows"}, NEW c \in Conn \cup {Null},
           Ask(who, sig, what, c)
    PROVE  AskTypes'
BY DEF Ask, AskTypes, Pending

LEMMA AskTypesNext ==
    ASSUME Types, Next
    PROVE  AskTypes'
<1> USE DEF Types
<1>1. ASSUME NEW r \in Req, Answer(r)
      PROVE  AskTypes'
  <2>1. CASE pending' = [pending EXCEPT ![r] = Nothing] /\ UNCHANGED <<delegate, signal_id>>
    BY <2>1 DEF Nothing, Pending, AskTypes
  <2>2. CASE pending' = [pending EXCEPT ![r].what = "columns"]
             /\ delegate' = "builder" /\ signal_id' = 1
    <3>1. [pending[r] EXCEPT !.what = "columns"] \in Pending
      BY DEF AskTypes, Pending
    <3>2. pending' \in [Req -> Pending]
      BY <2>2, <3>1 DEF AskTypes
    <3> QED
      BY <2>2, <3>2 DEF AskTypes
  <2> QED
    BY <1>1, <2>1, <2>2 DEF Answer, Answered, Unanswered
<1>2. CASE Kill
  BY <1>2 DEF Kill, AskTypes, Pending, Nothing
<1>3. ASSUME NEW c \in Conn, SelectConnection(c)
      PROVE  AskTypes'
  BY <1>3, AskedTypes DEF SelectConnection
<1>4. ASSUME NEW item \in queryArray, EditQuery(item)
      PROVE  AskTypes'
  <2>1. signal_item' \in Conn \cup {Null}
    BY TapTypesNext DEF TapTypes
  <2> QED
    BY <1>4, <2>1, AskedTypes DEF EditQuery
<1>5. CASE SelectTable \/ ExecuteQuery
  <2>1. Top.of \in Conn \cup {Null} /\ Top.db \in Conn \cup {Null}
    BY <1>5, TopTypes DEF SelectTable, ExecuteQuery, OnTop, Screens
  <2> QED
    BY <1>5, <2>1, AskedTypes DEF SelectTable, ExecuteQuery
<1>6. CASE UNCHANGED <<pending, delegate, signal_id>>
  BY <1>6 DEF AskTypes
<1> QED
  BY <1>1, <1>2, <1>3, <1>4, <1>5, <1>6
     DEF Next, Tap, Start, FlagConnection, EditConnection, SelectQuery, DeleteQuery,
         AlertDismissed, Back, SaveSettings, Build, Unmoved

LEMMA TypesNext ==
    ASSUME Types, Dark, Next
    PROVE  Types'
<1>1. HistoryTypes'
  BY DEF Next, Types, HistoryTypes
<1> QED
  BY <1>1, StoreTypesNext, ListTypesNext, TapTypesNext, StackTypesNext, AskTypesNext
     DEF Types

LEMMA DarkNext ==
    ASSUME Types, Dark, Next
    PROVE  Dark'
<1>1. CASE Start
  <2>1. launch # "running"
    BY <1>1 DEF Start, Starting, Launch, CopyFile, CreateTable, CreateFails, CreateDone
  <2> QED
    BY <1>1, <2>1 DEF Start, Dark
<1>2. CASE Kill
  BY <1>2 DEF Kill, Dark
<1>3. CASE launch = "running" /\ UNCHANGED launch
  BY <1>3 DEF Dark
<1> QED
  BY <1>1, <1>2, <1>3
     DEF Next, Tap, Running, OnMain, OnTop, Answer, SelectConnection, FlagConnection,
         EditConnection, SelectQuery, EditQuery, DeleteQuery, AlertDismissed, Back,
         SaveSettings, SelectTable, Build, ExecuteQuery, storeVars

LEMMA CreatedNext ==
    ASSUME Types, Created, Next
    PROVE  Created'
<1> USE DEF Types
<1>1. StoreStep /\ tables \subseteq Tables /\ Tables = {"History", "Connect", "Query"}
  BY StoreSteps DEF StoreTypeOK, Tables
<1>2. lacking' = lacking \cup (IF Running /\ file THEN Tables \ tables ELSE {})
  BY DEF Next
<1>3. lacking' # {} => file' /\ launch' \in {"off", "running"}
  <2> SUFFICES ASSUME lacking' # {}
               PROVE  file' /\ launch' \in {"off", "running"}
    OBVIOUS
  <2>1. file /\ launch \in {"off", "running"}
    BY <1>2 DEF Created, Running
  <2>2. file'
    BY <1>1, <2>1 DEF StoreStep, FileStep
  <2>3. launch' \in {"off", "running"}
    BY <1>1, <2>1 DEF StoreStep, TablesStep
  <2> QED
    BY <2>2, <2>3
<1>4. CASE tables' = tables
  BY <1>2, <1>3, <1>4 DEF Created
<1>5. CASE /\ launch = "create" /\ tables # Tables
           /\ tables' = tables \cup {Creation[NextTable]}
  <2>1. lacking' = {}
    BY <1>2, <1>5 DEF Running, Created
  <2>2. Creation[1] = "History" /\ Creation[2] = "Connect" /\ Creation[3] = "Query"
    BY DEF Creation
  <2>3. CASE NextTable = 1
    <3>1. "History" \notin tables
      BY <1>1, <1>5, <2>2, <2>3, NextTableIs
    <3> QED
      BY <1>1, <1>5, <2>1, <2>2, <2>3, <3>1 DEF Created
  <2>4. CASE NextTable = 2
    <3>1. Creation[1] \in tables
      BY <1>1, <1>5, <2>4, NextTableIs
    <3>2. "Query" \notin tables
      BY <1>1, <1>5 DEF Created
    <3> QED
      BY <1>1, <1>5, <2>1, <2>2, <2>4, <3>1, <3>2 DEF Created
  <2>5. CASE NextTable = 3
    <3>1. Creation[1] \in tables /\ Creation[2] \in tables
      BY <1>1, <1>5, <2>5, NextTableIs
    <3> QED
      BY <1>1, <1>5, <2>1, <2>2, <2>5, <3>1 DEF Created
  <2>6. NextTable \in 1..3
    BY <1>1, <1>5, NextTableIs
  <2> QED
    BY <2>3, <2>4, <2>5, <2>6
<1> QED
  BY <1>1, <1>4, <1>5 DEF StoreStep, TablesStep

(***************************************************************************)
(* The lists, and the items on the screens.                                *)
(***************************************************************************)
LEMMA UsedStays ==
    ASSUME Types, Next, NEW c, Used(c)
    PROVE  Used(c)'
BY StoreSteps DEF StoreStep, HistoryStep, Used, Types, StoreTypeOK

LEMMA ListsCurrentNext ==
    ASSUME Types, Dark, ListsAreCurrent, Next
    PROVE  ListsAreCurrent'
<1> USE DEF Types
<1>1. StoreStep /\ ListsStep /\ StoreTypeOK'
  BY StoreSteps, ListsSteps, StoreTypesNext
<1>2. Running' => Running \/ (connected = {} /\ recent = {} /\ queryArray = {})
  BY DEF Dark, Running
<1>3. Running' => /\ \A c \in connected' : history'[c] = "connected"
                  /\ \A c \in recent' : history'[c] = "deleted"
  <2> SUFFICES ASSUME Running'
               PROVE  /\ \A c \in connected' : history'[c] = "connected"
                      /\ \A c \in recent' : history'[c] = "deleted"
    OBVIOUS
  <2>1. CASE UNCHANGED <<connected, recent>>
             /\ (history' = history \/ \E c \in Conn :
                    /\ history[c] = "unused"
                    /\ history' = [history EXCEPT ![c] = "connected"])
    <3>1. /\ \A c \in connected : history[c] = "connected"
          /\ \A c \in recent : history[c] = "deleted"
      BY <1>2 DEF ListsAreCurrent
    <3>2. connected \subseteq Conn /\ recent \subseteq Conn /\ history \in [Conn -> Flags]
      BY DEF ListTypes, StoreTypeOK
    <3> QED
      BY <2>1, <3>1, <3>2
  <2>2. CASE ListConnections
    BY <2>2 DEF ListConnections, Listed
  <2>3. CASE connected' = {} /\ recent' = {}
    BY <2>3
  <2> QED
    BY <1>1, <2>1, <2>2, <2>3 DEF ListsStep
<1>4. Running' => \A item \in queryArray' : /\ queries'[item.id].state = "row"
                                            /\ queries'[item.id].db = item.db
  <2> SUFFICES ASSUME Running'
               PROVE  \A item \in queryArray' : /\ queries'[item.id].state = "row"
                                                /\ queries'[item.id].db = item.db
    OBVIOUS
  <2>1. CASE UNCHANGED <<queryArray, queries>>
    BY <1>2, <2>1 DEF ListsAreCurrent
  <2>2. CASE ListQueries
    BY <2>2 DEF ListQueries, QueriesListed, Item
  <2>3. CASE queryArray' = {}
    BY <2>3
  <2> QED
    BY <1>1, <2>1, <2>2, <2>3 DEF ListsStep
<1> QED
  BY <1>3, <1>4 DEF ListsAreCurrent, Running

LEMMA CriteriaNext ==
    ASSUME Types, Dark, CriteriaOnItsOwn, Next
    PROVE  CriteriaOnItsOwn'
<1> SUFFICES ASSUME NEW i \in 1..Len(stack'), stack'[i].kind = "criteria"
             PROVE  \/ stack'[i].db = stack'[i].edit.db
                    \/ stack'[i].edit.db \notin connected'
  BY DEF CriteriaOnItsOwn
<1>1. connected' = connected \/ stack' = <<>>
  BY ListsSteps DEF ListsStep
<1>2. connected' = connected
  <2>1. CASE stack' = <<>>
    <3>1. Len(stack') = 0
      BY <2>1
    <3> QED
      BY <3>1
  <2> QED
    BY <1>1, <2>1
<1>3. CASE i \in 1..Len(stack) /\ stack'[i] = stack[i]
  BY <1>2, <1>3 DEF CriteriaOnItsOwn
<1>4. CASE Pushed(stack'[i])
  <2>a. \A c, of, e : Settings(c).kind = "settings" /\ Builder(c, of, e).kind = "build"
    BY DEF Settings, Builder, Shown
  <2>b. stack'[i] \notin {Settings(c) : c \in Conn \cup {Null}}
    BY <2>a
  <2>c. \A r \in Req : stack'[i] # BuilderFor(Offered(r))
    BY <2>a DEF BuilderFor
  <2>1. PICK item \in queryArray : /\ SignalItemFor(item)
                                   /\ stack'[i] = Criteria(signal_item', item)
    BY <1>4, <2>b, <2>c DEF Pushed
  <2>2. stack'[i].db = signal_item' /\ stack'[i].edit = item
    BY <2>1 DEF Criteria, Shown
  <2> QED
    BY <1>2, <2>1, <2>2 DEF SignalItemFor
<1> QED
  BY <1>3, <1>4, ScreensStep

\* What was known stays known: a query keeps its connection while it is a row,
\* and never comes back.
QueriesKeep ==
    \A q \in Qry :
        /\ queries[q].state # "unused" => queries'[q].state # "unused"
        /\ queries[q].state = "row" /\ queries'[q].state = "row" =>
               queries'[q].db = queries[q].db
        /\ queries[q].state = "removed" => queries'[q].state = "removed"

LEMMA QueriesKept ==
    ASSUME Types, ItemsKnown, Next
    PROVE  QueriesKeep
<1> USE DEF Types
<1>1. QueriesStep
  BY StoreSteps DEF StoreStep
<1>2. DOMAIN queries = Qry
  BY DEF StoreTypeOK
<1>3. ASSUME NEW p \in Qry, OnTop("build"), Inserted(p)
      PROVE  QueriesKeep
  BY <1>2, <1>3 DEF Inserted, QueryRow, NoQuery, QueriesKeep
<1>4. ASSUME NEW p \in Qry, OnTop("build"), Updated(p)
      PROVE  QueriesKeep
  <2>1. queries[p].db = Top.edit.db
    <3>1. Len(stack) \in 1..Len(stack)
      BY <1>4, TopTypes DEF OnTop
    <3>2. Known(Top.edit)
      BY <1>4, <3>1 DEF Updated, ItemsKnown, Top
    <3> QED
      BY <1>4, <3>2 DEF Updated, Known
  <2>2. PICK of : queries' = [queries EXCEPT ![p] = QueryRow(Top.edit.db, of)]
    BY <1>4 DEF Updated
  <2>3. queries[p].state = "row"
    BY <1>4 DEF Updated
  <2> QED
    BY <1>2, <2>1, <2>2, <2>3 DEF QueryRow, QueriesKeep
<1>5. ASSUME NEW p \in Qry, Deleted(p)
      PROVE  QueriesKeep
  BY <1>2, <1>5 DEF Deleted, Removed, QueriesKeep
<1>6. CASE queries' = queries
  BY <1>6 DEF QueriesKeep
<1> QED
  BY <1>1, <1>3, <1>4, <1>5, <1>6 DEF QueriesStep

LEMMA KnownStays ==
    ASSUME Types, QueriesKeep, NEW item \in Items, Known(item)
    PROVE  Known(item)'
<1>1. item.id \in Qry
  BY DEF Items, Item
<1>2. queries[item.id].state \in {"unused", "row", "removed"}
  BY <1>1 DEF Types, StoreTypeOK
<1> QED
  BY <1>1, <1>2 DEF QueriesKeep, Known

LEMMA ItemsKnownNext ==
    ASSUME Types, Dark, ItemsKnown, Next
    PROVE  ItemsKnown'
<1> USE DEF Types
<1>0. QueriesKeep
  BY QueriesKept
<1>1. \A item \in queryArray' : Known(item)'
  <2>1. CASE UNCHANGED <<queryArray, queries>>
    BY <2>1 DEF ItemsKnown, Known
  <2>2. CASE ListQueries
    BY <2>2 DEF ListQueries, QueriesListed, Item, Known
  <2>3. CASE queryArray' = {}
    BY <2>3
  <2> QED
    BY <2>1, <2>2, <2>3, ListsSteps DEF ListsStep
<1>2. /\ \A item \in queryArray : item \in Items /\ Known(item)'
      /\ selectedQuery # Null =>
            /\ queries'[selectedQuery.id].state # "unused"
            /\ queries'[selectedQuery.id].state = "row" =>
                   queries'[selectedQuery.id].db = selectedQuery.db
      /\ deleteQuery # Null =>
            /\ queries'[deleteQuery.id].state # "unused"
            /\ queries'[deleteQuery.id].state = "row" =>
                   queries'[deleteQuery.id].db = deleteQuery.db
  <2>1. \A item \in Items : Known(item) => Known(item)'
    BY <1>0, KnownStays
  <2>2. /\ \A item \in queryArray : item \in Items /\ Known(item)
        /\ selectedQuery # Null => selectedQuery \in Items /\ Known(selectedQuery)
        /\ deleteQuery # Null => deleteQuery \in Items /\ Known(deleteQuery)
    BY DEF ItemsKnown, ListTypes, TapTypes
  <2>3. \A item \in queryArray : item \in Items /\ Known(item)'
    BY <2>1, <2>2
  <2>4. ASSUME NEW item \in Items, Known(item)
        PROVE  /\ queries'[item.id].state # "unused"
               /\ queries'[item.id].state = "row" => queries'[item.id].db = item.db
    BY <1>0, <2>4, KnownStays DEF Known
  <2>5. selectedQuery # Null =>
            /\ queries'[selectedQuery.id].state # "unused"
            /\ queries'[selectedQuery.id].state = "row" =>
                   queries'[selectedQuery.id].db = selectedQuery.db
    BY <2>2, <2>4
  <2>6. deleteQuery # Null =>
            /\ queries'[deleteQuery.id].state # "unused"
            /\ queries'[deleteQuery.id].state = "row" =>
                   queries'[deleteQuery.id].db = deleteQuery.db
    BY <2>2, <2>4
  <2> QED
    BY <2>3, <2>5, <2>6
<1>3. (selectedQuery # Null => Known(selectedQuery))'
  <2>1. selectedQuery' = selectedQuery \/ selectedQuery' = Null
        \/ selectedQuery' \in queryArray
    BY DEF Next, Tap, Start, Kill, Answer, SelectConnection, FlagConnection,
       EditConnection, SelectQuery, EditQuery, DeleteQuery, AlertDismissed, Back,
       SaveSettings, SelectTable, Build, ExecuteQuery, Unmoved
  <2> QED
    BY <1>2, <2>1 DEF Known
<1>4. (deleteQuery # Null => Known(deleteQuery))'
  <2>1. deleteQuery' = deleteQuery \/ deleteQuery' = Null \/ deleteQuery' \in queryArray
    BY DEF Next, Tap, Start, Kill, Answer, SelectConnection, FlagConnection,
       EditConnection, SelectQuery, EditQuery, DeleteQuery, AlertDismissed, Back,
       SaveSettings, SelectTable, Build, ExecuteQuery, Unmoved
  <2> QED
    BY <1>2, <2>1 DEF Known
<1>5. ASSUME NEW i \in 1..Len(stack'), stack'[i].edit # Null
      PROVE  /\ queries'[stack'[i].edit.id].state # "unused"
             /\ queries'[stack'[i].edit.id].state = "row" =>
                    queries'[stack'[i].edit.id].db = stack'[i].edit.db
  <2>1. CASE i \in 1..Len(stack) /\ stack'[i] = stack[i]
    <3>1. stack[i].edit \in Items
      <4>1. stack[i] \in Screens
        BY <2>1, ElementOfSeq DEF StackTypes
      <4> QED
        BY <1>5, <2>1, <4>1 DEF Screens
    <3>2. Known(stack[i].edit)
      BY <1>5, <2>1 DEF ItemsKnown
    <3>3. /\ queries'[stack[i].edit.id].state # "unused"
          /\ queries'[stack[i].edit.id].state = "row" =>
                 queries'[stack[i].edit.id].db = stack[i].edit.db
      BY <1>0, <3>1, <3>2, KnownStays DEF Known
    <3> QED
      BY <2>1, <3>3
  <2>2. CASE Pushed(stack'[i])
    <3>a. \A c, e, of : /\ Settings(c).edit = Null /\ Criteria(c, e).edit = e
                        /\ Builder(c, of, e).edit = e
      BY DEF Settings, Criteria, Builder, Shown
    <3>1. stack'[i].edit \in queryArray
          \/ (stack'[i].edit = selectedQuery /\ selectedQuery # Null)
      BY <1>5, <2>2, <3>a DEF Pushed, BuilderFor
    <3> QED
      BY <1>2, <3>1 DEF Known
  <2> QED
    BY <2>1, <2>2, ScreensStep
<1> QED
  BY <1>1, <1>3, <1>4, <1>5 DEF ItemsKnown, Known

(***************************************************************************)
(* As long as the user waits for each answer.                              *)
(***************************************************************************)

\* A tap with every request answered leaves at most the request it makes.
LEMMA AskedAlone ==
    ASSUME Types, Idle, NEW who, NEW sig, NEW what, NEW c, Ask(who, sig, what, c)
    PROVE  /\ delegate' = who /\ signal_id' = sig
           /\ \A r \in Req : pending'[r] # Nothing =>
                  pending'[r].what = what /\ pending'[r].db = c
BY DEF Ask, Idle, Types, AskTypes

LEMMA AnswerFitsNext ==
    ASSUME Types, Dark, ItemsKnown, ListsAreCurrent, ~hurried, AnswerFits, Next,
           ~hurried'
    PROVE  AnswerFits'
<1> USE DEF Types
<1>1. ASSUME NEW r \in Req, Answer(r)
      PROVE  AnswerFits'
  <2>0. UNCHANGED <<signal_item, selectedQuery, unlisted, history>>
    BY <1>1 DEF Answer, storeVars
  <2>1. CASE delegate' = "builder"
    BY <2>1 DEF AnswerFits
  <2>2. CASE pending' = [pending EXCEPT ![r] = Nothing] /\ UNCHANGED <<delegate, signal_id>>
    <3>1. \A p \in Req : pending'[p] # Nothing => pending'[p] = pending[p]
      BY <2>2 DEF AskTypes
    <3> QED
      BY <2>0, <2>2, <3>1 DEF AnswerFits, Used
  <2> QED
    BY <1>1, <2>1, <2>2 DEF Answer, Answered, Unanswered
<1>2. CASE Start
  BY <1>2, UsedStays DEF Start, AnswerFits, Used, Starting, Launch, CopyFile,
     CreateTable, CreateFails, CreateDone
<1>3. CASE Kill
  BY <1>3 DEF Kill, AnswerFits
<1>4. ASSUME Idle, NEW c \in Conn, SelectConnection(c)
      PROVE  AnswerFits'
  <2>1. c \in Conn /\ history[c] # "unused"
    BY <1>4 DEF SelectConnection, OnMain, ListsAreCurrent
  <2>2. /\ delegate' = "main" /\ signal_id' = 0 /\ signal_item' = c
        /\ \A r \in Req : pending'[r] # Nothing =>
               pending'[r].what = "tables" /\ pending'[r].db = c
    BY <1>4, AskedAlone DEF SelectConnection
  <2>3. history' = history
    BY <1>4 DEF SelectConnection, storeVars
  <2> QED
    BY <2>1, <2>2, <2>3 DEF AnswerFits, Used
<1>5. ASSUME Idle, NEW item \in queryArray, EditQuery(item)
      PROVE  AnswerFits'
  <2>1. /\ delegate' = "main" /\ signal_id' = 1
        /\ \A r \in Req : pending'[r] # Nothing =>
               pending'[r].what = "tables" /\ pending'[r].db = signal_item'
    BY <1>5, AskedAlone DEF EditQuery
  <2>2. selectedQuery' = item /\ item # Null
    BY <1>5, ItemAssumption DEF EditQuery, ListTypes, Items
  <2>3. signal_item' = item.db \/ item.id \in unlisted'
    BY <1>5 DEF EditQuery, SignalItemFor
  <2> QED
    BY <2>1, <2>2, <2>3 DEF AnswerFits
<1>6. CASE Idle /\ UNCHANGED pending
  BY <1>6 DEF Idle, AnswerFits
<1>7. ASSUME Idle, SelectTable \/ ExecuteQuery
      PROVE  AnswerFits'
  BY <1>7 DEF SelectTable, ExecuteQuery, Ask, AnswerFits
<1>8. CASE Tap /\ hurried' = (hurried \/ ~Idle)
  BY <1>4, <1>5, <1>6, <1>7, <1>8
     DEF Tap, FlagConnection, EditConnection, SelectQuery, DeleteQuery,
         AlertDismissed, Back, SaveSettings, Build, Unmoved
<1> QED
  BY <1>1, <1>2, <1>3, <1>8 DEF Next

LEMMA UnlistedGrows ==
    ASSUME Next
    PROVE  unlisted \subseteq unlisted'
BY DEF Next, Tap, Start, Kill, Answer, SelectConnection, FlagConnection,
   EditConnection, SelectQuery, EditQuery, DeleteQuery, AlertDismissed, Back,
   SaveSettings, SelectTable, Build, ExecuteQuery, Unmoved

LEMMA BuildersFitNext ==
    ASSUME Types, AnswerFits, BuildersFit, Next
    PROVE  BuildersFit'
<1> USE DEF Types
<1> SUFFICES ASSUME NEW i \in 1..Len(stack'), stack'[i].kind = "build"
             PROVE  /\ stack'[i].edit = Null => /\ stack'[i].db \in Conn
                                                /\ history'[stack'[i].db] # "unused"
                                                /\ stack'[i].of = stack'[i].db
                    /\ stack'[i].edit # Null => \/ stack'[i].of = stack'[i].edit.db
                                                \/ stack'[i].edit.id \in unlisted'
  BY DEF BuildersFit, Used
<1>0. /\ unlisted \subseteq unlisted'
      /\ \A c : Used(c) => c \in Conn /\ history'[c] # "unused"
  BY UnlistedGrows, UsedStays DEF Used
<1>1. CASE i \in 1..Len(stack) /\ stack'[i] = stack[i]
  <2>1. /\ stack[i].edit = Null => Used(stack[i].db) /\ stack[i].of = stack[i].db
        /\ stack[i].edit # Null => \/ stack[i].of = stack[i].edit.db
                                   \/ stack[i].edit.id \in unlisted
    BY <1>1 DEF BuildersFit
  <2> QED
    BY <1>0, <1>1, <2>1
<1>2. CASE Pushed(stack'[i])
  <2>a. \A c, e, of : /\ Settings(c).kind = "settings" /\ Criteria(c, e).kind = "criteria"
                      /\ Builder(c, of, e) = [kind |-> "build", db |-> c, of |-> of,
                                              edit |-> e]
    BY DEF Settings, Criteria, Builder, Shown
  <2>1. /\ stack'[i] \notin {Settings(c) : c \in Conn \cup {Null}}
        /\ \A item \in queryArray : stack'[i] # Criteria(signal_item', item)
    BY <2>a
  <2>2. PICK r \in Req : /\ pending[r] # Nothing /\ pending[r].db # Null
                         /\ stack'[i] = BuilderFor(Offered(r)) /\ delegate = "main"
    BY <1>2, <2>1 DEF Pushed
  <2>3. /\ pending[r].what = "tables"
        /\ signal_id = 0 => pending[r].db = signal_item /\ Used(signal_item)
        /\ signal_id = 1 => /\ selectedQuery # Null
                            /\ \/ pending[r].db = selectedQuery.db
                               \/ selectedQuery.id \in unlisted
    BY <2>2 DEF AnswerFits
  <2>4. stack'[i] = [kind |-> "build", db |-> signal_item, of |-> pending[r].db,
                     edit |-> IF signal_id = 1 THEN selectedQuery ELSE Null]
    BY <2>a, <2>2, <2>3 DEF BuilderFor, Offered
  <2>5. CASE signal_id = 0
    BY <1>0, <2>3, <2>4, <2>5
  <2>6. CASE signal_id = 1
    BY <1>0, <2>3, <2>4, <2>6
  <2> QED
    BY <2>5, <2>6 DEF AskTypes
<1> QED
  BY <1>1, <1>2, ScreensStep

LEMMA PatientNext ==
    ASSUME Types, Dark, ItemsKnown, ListsAreCurrent, Patient, Next
    PROVE  Patient'
<1>1. ~hurried' => ~hurried
  BY DEF Next
<1> QED
  BY <1>1, AnswerFitsNext, BuildersFitNext DEF Patient

LEMMA QueriesFitNext ==
    ASSUME Types, ItemsKnown, BuildersFit, Next,
           \A q \in Qry : queries[q].state = "row" =>
               /\ Used(queries[q].db)
               /\ queries[q].of = queries[q].db \/ q \in unlisted
    PROVE  \A q \in Qry : queries'[q].state = "row" =>
               /\ queries'[q].db \in Conn /\ history'[queries'[q].db] # "unused"
               /\ queries'[q].of = queries'[q].db \/ q \in unlisted'
<1> USE DEF Types
<1>0. /\ unlisted \subseteq unlisted'
      /\ \A c : Used(c) => c \in Conn /\ history'[c] # "unused"
      /\ DOMAIN queries = Qry
  BY UnlistedGrows, UsedStays DEF Used, StoreTypeOK
<1>1. CASE queries' = queries
  BY <1>0, <1>1
<1>2. ASSUME NEW p \in Qry, Deleted(p)
      PROVE  \A q \in Qry : queries'[q].state = "row" =>
               /\ queries'[q].db \in Conn /\ history'[queries'[q].db] # "unused"
               /\ queries'[q].of = queries'[q].db \/ q \in unlisted'
  <2>1. \A q \in Qry : queries'[q] = IF q = p THEN Removed ELSE queries[q]
    BY <1>0, <1>2 DEF Deleted
  <2> QED
    BY <1>0, <2>1 DEF Removed
<1>3. ASSUME OnTop("build"), NEW p \in Qry, Inserted(p) \/ Updated(p)
      PROVE  \A q \in Qry : queries'[q].state = "row" =>
               /\ queries'[q].db \in Conn /\ history'[queries'[q].db] # "unused"
               /\ queries'[q].of = queries'[q].db \/ q \in unlisted'
  <2>1. /\ Top.edit = Null => Used(Top.db) /\ Top.of = Top.db
        /\ Top.edit # Null => \/ Top.of = Top.edit.db
                              \/ Top.edit.id \in unlisted
        /\ Top.edit # Null => Known(Top.edit)
    <3>1. Len(stack) \in 1..Len(stack)
      BY <1>3, TopTypes DEF OnTop
    <3> QED
      BY <1>3, <3>1 DEF OnTop, BuildersFit, ItemsKnown, Top
  <2>2. ASSUME NEW c, NEW of, queries' = [queries EXCEPT ![p] = QueryRow(c, of)],
               Used(c), of = c \/ p \in unlisted
        PROVE  \A q \in Qry : queries'[q].state = "row" =>
               /\ queries'[q].db \in Conn /\ history'[queries'[q].db] # "unused"
               /\ queries'[q].of = queries'[q].db \/ q \in unlisted'
    <3>1. \A q \in Qry : queries'[q] = IF q = p THEN QueryRow(c, of) ELSE queries[q]
      BY <1>0, <2>2
    <3>2. QueryRow(c, of).db = c /\ QueryRow(c, of).of = of
      BY DEF QueryRow
    <3> QED
      BY <1>0, <2>2, <3>1, <3>2
  <2>3. CASE Inserted(p)
    BY <2>1, <2>2, <2>3 DEF Inserted
  <2>4. CASE Updated(p)
    <3>1. /\ queries[p].db = Top.edit.db /\ queries[p].state = "row"
          /\ p = Top.edit.id /\ Top.edit # Null
      BY <2>1, <2>4 DEF Updated, Known
    <3>2. PICK of \in {Top.of, queries[p].of} :
              queries' = [queries EXCEPT ![p] = QueryRow(Top.edit.db, of)]
      BY <2>4 DEF Updated
    <3>3. Used(Top.edit.db) /\ (of = Top.edit.db \/ p \in unlisted)
      BY <2>1, <3>1
    <3> QED
      BY <2>2, <3>2, <3>3
  <2> QED
    BY <1>3, <2>3, <2>4
<1> QED
  BY <1>1, <1>2, <1>3, StoreSteps DEF StoreStep, QueriesStep

LEMMA MainInvNext ==
    ASSUME MainInv, [Next]_vars
    PROVE  MainInv'
<1> USE DEF MainInv
<1>1. CASE Next
  <2>1. /\ Types' /\ Dark' /\ Created' /\ ListsAreCurrent' /\ CriteriaOnItsOwn'
        /\ ItemsKnown' /\ Patient'
    BY <1>1, TypesNext, DarkNext, CreatedNext, ListsCurrentNext, CriteriaNext,
       ItemsKnownNext, PatientNext
  <2>2. ~hurried' => \A q \in Qry : queries'[q].state = "row" =>
               /\ queries'[q].db \in Conn /\ history'[queries'[q].db] # "unused"
               /\ queries'[q].of = queries'[q].db \/ q \in unlisted'
    <3> SUFFICES ASSUME ~hurried'
                 PROVE  \A q \in Qry : queries'[q].state = "row" =>
               /\ queries'[q].db \in Conn /\ history'[queries'[q].db] # "unused"
               /\ queries'[q].of = queries'[q].db \/ q \in unlisted'
      OBVIOUS
    <3>1. ~hurried
      BY <1>1 DEF Next
    <3>2. BuildersFit /\ \A q \in Qry : queries[q].state = "row" =>
               /\ Used(queries[q].db)
               /\ queries[q].of = queries[q].db \/ q \in unlisted
      BY <3>1 DEF Patient, TablesOfItsOwn, QueriesReferToConnections, Used
    <3> QED
      BY <1>1, <3>2, QueriesFitNext
  <2>3. TablesOfItsOwn' /\ QueriesReferToConnections'
    BY <2>2 DEF TablesOfItsOwn, QueriesReferToConnections
  <2> QED
    BY <2>1, <2>3
<1>2. CASE UNCHANGED vars
  <2> USE <1>2 DEF vars, storeVars, screenVars
  <2>1. Types'
    BY DEF Types, StoreTypeOK, ListTypes, TapTypes, StackTypes, AskTypes, HistoryTypes
  <2>2. Dark' /\ Created' /\ ListsAreCurrent'
    BY DEF Dark, Created, ListsAreCurrent, Running
  <2>3. CriteriaOnItsOwn' /\ ItemsKnown'
    BY DEF CriteriaOnItsOwn, ItemsKnown, Known
  <2>4. Patient'
    BY DEF Patient, AnswerFits, BuildersFit, Used
  <2>5. TablesOfItsOwn' /\ QueriesReferToConnections'
    BY DEF TablesOfItsOwn, QueriesReferToConnections
  <2> QED
    BY <2>1, <2>2, <2>3, <2>4, <2>5
<1> QED
  BY <1>1, <1>2

LEMMA MainInvInit == Init => MainInv
<1> SUFFICES ASSUME Init PROVE MainInv
  OBVIOUS
<1> USE DEF Init, InitStore
<1>1. Types
  <2>1. StoreTypeOK
    BY DEF StoreTypeOK, Flags, NoQuery
  <2>2. StackTypes
    BY EmptySeq, MainAssumption DEF StackTypes
  <2>3. ListTypes /\ TapTypes /\ AskTypes /\ HistoryTypes
    BY DEF ListTypes, TapTypes, AskTypes, HistoryTypes, Nothing, Pending
  <2> QED
    BY <2>1, <2>2, <2>3 DEF Types
<1>2. Dark /\ Created /\ ListsAreCurrent
  BY DEF Dark, Created, ListsAreCurrent, Running
<1>3. Len(stack) = 0
  BY EmptySeq
<1>4. CriteriaOnItsOwn /\ ItemsKnown /\ Patient
  BY <1>3 DEF CriteriaOnItsOwn, ItemsKnown, Patient, AnswerFits, BuildersFit
<1>5. TablesOfItsOwn /\ QueriesReferToConnections
  BY DEF TablesOfItsOwn, QueriesReferToConnections, NoQuery
<1> QED
  BY <1>1, <1>2, <1>4, <1>5 DEF MainInv

LEMMA MainInvAlways == Spec => []MainInv
BY MainInvInit, MainInvNext, PTL DEF Spec

(***************************************************************************)
(* What holds for every value of the constants.                            *)
(***************************************************************************)

\* The variables have their types: no screen is opened without what it shows,
\* and no item is anything but a copy of a row.
THEOREM MainTypes == Spec => []TypeOK
<1>1. MainInv => TypeOK
  BY DEF MainInv, Types, StoreTypeOK, ListTypes, TapTypes, StackTypes, AskTypes,
     HistoryTypes, Pending, TypeOK
<1> QED
  BY <1>1, MainInvAlways, PTL

\* The lists never show a row the file does not have in that state, whatever is
\* deleted, saved, answered late or killed.
THEOREM ListsCurrent == Spec => []ListsAreCurrent
<1>1. MainInv => ListsAreCurrent
  BY DEF MainInv
<1> QED
  BY <1>1, MainInvAlways, PTL

\* The criteria screen executes a query on its own connection whenever that
\* connection is in the list.
THEOREM CriteriaOwn == Spec => []CriteriaOnItsOwn
<1>1. MainInv => CriteriaOnItsOwn
  BY DEF MainInv
<1> QED
  BY <1>1, MainInvAlways, PTL

\* As long as no tap comes before the answer to another one, what is saved names
\* a table of the connection it is saved for, unless it was edited while that
\* connection was not listed.
THEOREM SavedTablesFit == Spec => []TablesOfItsOwn
<1>1. MainInv => TablesOfItsOwn
  BY DEF MainInv
<1> QED
  BY <1>1, MainInvAlways, PTL

\* As long as no tap comes before the answer to another one, the connection of a
\* saved query is or was a row of History.
THEOREM SavedQueriesFit == Spec => []QueriesReferToConnections
<1>1. MainInv => QueriesReferToConnections
  BY DEF MainInv
<1> QED
  BY <1>1, MainInvAlways, PTL

\* The first launch decides for good which tables the file has, and a file that
\* can keep queries can keep the connections they refer to.
THEOREM FirstLaunchFinal == Spec => []FirstLaunchDecides
<1>1. MainInv => FirstLaunchDecides
  BY DEF MainInv, Created, FirstLaunchDecides
<1> QED
  BY <1>1, MainInvAlways, PTL

\* No step moves a query to another connection or brings a removed one back.
THEOREM QueriesStay == Spec => QueryKeepsItsConnection
<1>1. MainInv /\ [Next]_vars =>
          [\A q \in Qry :
              /\ queries[q].state = "row" => \/ queries'[q].db = queries[q].db
                                             \/ queries'[q].state = "removed"
              /\ queries[q].state = "removed" => queries'[q].state = "removed"]_vars
  <2> SUFFICES ASSUME MainInv, Next
               PROVE  \A q \in Qry :
              /\ queries[q].state = "row" => \/ queries'[q].db = queries[q].db
                                             \/ queries'[q].state = "removed"
              /\ queries[q].state = "removed" => queries'[q].state = "removed"
    OBVIOUS
  <2>1. QueriesKeep /\ StoreTypeOK'
    BY QueriesKept, StoreTypesNext DEF MainInv
  <2>2. \A q \in Qry : queries'[q].state \in {"unused", "row", "removed"}
    BY <2>1 DEF StoreTypeOK
  <2> QED
    BY <2>1, <2>2 DEF QueriesKeep
<1> QED
  BY <1>1, MainInvAlways, PTL DEF Spec, QueryKeepsItsConnection

===============================================================================
