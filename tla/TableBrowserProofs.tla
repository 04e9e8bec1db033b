-------------------------- MODULE TableBrowserProofs --------------------------
(***************************************************************************)
(* Proofs about TableBrowser, for every set of tables, columns, texts and  *)
(* orders of names, and every bound.                                       *)
(*                                                                         *)
(* BrowserInv has what holds of any user (the shapes of the screens, who   *)
(* is the delegate) and Waited, what holds if the user waits: one request  *)
(* is under way, and the delegate, the signal id and the table's screen    *)
(* are as its chain left them.                                             *)
(***************************************************************************)
EXTENDS TableBrowser, SequenceTheorems, TLAPS

\* What a screen may be given, and what the screens are.
Data  == Answered \cup [what : {"text"}, of : AnyText]
Given == [as : {"returned", "whole", "first"}, data : Data]

SearchScreens == [kind : {"search"}, table : Table, columns : Given, conf : AnyText,
                  typed : SUBSET Nat, top : Nat]
ResultScreens == [kind : {"result"}, of : Data, filter : AnyText, rows : Nat, page : Nat]
IsConfig(s)   == s \in [kind : {"config"}, table : Table, columns : Given,
                        conf : AnyText, chosen : {s.chosen}, on : BOOLEAN]
IsScreen(s)   == s \in SearchScreens \/ s \in ResultScreens \/ IsConfig(s)

Questions ==
    {Nothing} \cup [what : {"columns", "conf"}, of : Table]
    \cup [what : {"create"}, of : {Null}]
    \cup [what : {"rows"}, of : [table : Table, conditions : SUBSET Nat]]

IsSequence(s) == \E S : s \in Seq(S)

Shapes ==
    /\ pending \in [Req -> Questions]
    /\ m_selectedTableColumns \in Given
    /\ \A i \in 1..Len(stack) : IsScreen(stack[i])

\* The delegate is a screen that is there, or nobody; the tables' screen is it
\* only after a tap on one of its tables, and has the columns once they came.
DelegateThere ==
    /\ delegate \in {Null} \cup 0..Len(stack)
    /\ delegate = 0 => m_tableNameArray # Null /\ m_selectedTableName \in Table
    /\ delegate = 0 /\ signal_id \in {1, 2, 11} => m_selectedTableColumns.as # "returned"

OpeningMade == ended = "opening" => admin_conf_mgr # Null

\* If the user waits, where the chain of the one request under way has come to.
OneUnderWay == \A p, q \in UnderWay : p = q

OwnColumns == List("columns", m_selectedTableName)

ChainOf(request) ==
    \/ /\ request.what = "columns" /\ request.of = m_selectedTableName
       /\ delegate = 0 /\ signal_id \in {0, 10} /\ stack = <<>>
    \/ /\ request.what = "create"
       /\ delegate = 0 /\ signal_id = 1 /\ stack = <<>>
       /\ m_selectedTableColumns = Whole(OwnColumns)
    \/ /\ request.what = "conf" /\ request.of = m_selectedTableName
       /\ delegate = 0 /\ stack = <<>>
       /\ \/ signal_id = 2  /\ m_selectedTableColumns = Whole(OwnColumns)
          \/ signal_id = 11 /\ m_selectedTableColumns = First(OwnColumns)
    \/ /\ request.what = "rows" /\ stack # <<>>
       /\ delegate = Len(stack) /\ Top.kind = "search"
       /\ request.of = Rows(Top.table, Top.typed)

InChain == \A r \in UnderWay : ChainOf(pending[r])

\* A result is over a search screen.
OverSearch == \A i \in 1..Len(stack) : stack[i].kind = "result" => i > 1

Waited ==
    ~hurried => /\ OneUnderWay /\ InChain /\ ScreensOnTheirTable
                /\ OverSearch /\ FoundAsAsked /\ ended # "answer"

BrowserInv ==
    /\ IsSequence(stack) /\ Shapes /\ TypeOK /\ DelegateThere /\ OpeningMade /\ ReturnedNeverShown
    /\ Waited

-----------------------------------------------------------------------------
(***************************************************************************)
(* The stack as a sequence, whatever its screens are.                      *)
(***************************************************************************)
LEMMA StackSequence ==
    ASSUME IsSequence(stack)
    PROVE  /\ Len(stack) \in Nat /\ DOMAIN stack = 1..Len(stack)
           /\ stack = <<>> <=> Len(stack) = 0
           /\ stack # <<>> => Len(stack) \in 1..Len(stack)
<1>1. PICK S : stack \in Seq(S)
  BY DEF IsSequence
<1>2. Len(stack) \in Nat /\ DOMAIN stack = 1..Len(stack)
  BY <1>1, LenProperties
<1>3. stack # <<>> => Len(stack) \in Nat \ {0}
  BY <1>1, EmptySeq
<1>4. Len(<<>>) = 0
  BY EmptySeq
<1> QED
  BY <1>2, <1>3, <1>4

LEMMA PushedStack ==
    ASSUME IsSequence(stack), NEW s, Push(s)
    PROVE  /\ IsSequence(stack)' /\ Len(stack) < MaxDepth
           /\ Len(stack') = Len(stack) + 1 /\ stack'[Len(stack) + 1] = s
           /\ \A i \in 1..Len(stack) : stack'[i] = stack[i]
<1>1. PICK S : stack \in Seq(S)
  BY DEF IsSequence
<1> DEFINE T == S \cup {s}
<1>2. stack \in Seq(T) /\ s \in T
  BY <1>1, SeqMonotonic
<1> HIDE DEF T
<1>3. /\ stack' \in Seq(T) /\ Len(stack') = Len(stack) + 1
      /\ stack'[Len(stack) + 1] = s /\ \A i \in 1..Len(stack) : stack'[i] = stack[i]
  BY <1>2, AppendProperties DEF Push
<1> QED
  BY <1>3 DEF IsSequence, Push

LEMMA PoppedStack ==
    ASSUME IsSequence(stack), stack # <<>>, stack' = Front(stack)
    PROVE  /\ IsSequence(stack)' /\ Len(stack') = Len(stack) - 1
           /\ \A i \in 1..Len(stack') : i \in 1..Len(stack) /\ stack'[i] = stack[i]
<1>1. PICK S : stack \in Seq(S)
  BY DEF IsSequence
<1> DEFINE n == Len(stack)
<1>2. n \in Nat \ {0}
  BY <1>1, EmptySeq
<1>3. \A i \in 1..n - 1 : stack[i] \in S
  BY <1>1, <1>2, ElementOfSeq
<1>4. stack' = SubSeq(stack, 1, n - 1)
  BY DEF Front
<1> HIDE DEF n
<1>5. /\ stack' \in Seq(S) /\ Len(stack') = IF 1 <= n - 1 THEN n - 1 - 1 + 1 ELSE 0
      /\ \A i \in 1..n - 1 - 1 + 1 : stack'[i] = stack[1 + i - 1]
  BY <1>2, <1>3, <1>4, SubSeqProperties
<1>6. Len(stack') = n - 1
  BY <1>2, <1>5
<1>7. \A i \in 1..Len(stack') : i \in 1..n /\ stack'[i] = stack[i]
  BY <1>2, <1>5, <1>6
<1> QED
  BY <1>5, <1>6, <1>7 DEF IsSequence, n

LEMMA PaintedStack ==
    ASSUME IsSequence(stack), stack # <<>>, NEW s, SetTop(s)
    PROVE  /\ IsSequence(stack)' /\ Len(stack') = Len(stack)
           /\ stack'[Len(stack)] = s
           /\ \A i \in 1..Len(stack) : i # Len(stack) => stack'[i] = stack[i]
<1>1. PICK S : stack \in Seq(S)
  BY DEF IsSequence
<1> DEFINE T == S \cup {s}
<1>2. stack \in Seq(T) /\ s \in T /\ Len(stack) \in 1..Len(stack)
  BY <1>1, SeqMonotonic, StackSequence
<1> HIDE DEF T
<1>3. /\ stack' \in Seq(T) /\ Len(stack') = Len(stack)
      /\ \A i \in 1..Len(stack) : stack'[i] = IF i = Len(stack) THEN s ELSE stack[i]
  BY <1>2, ExceptSeq DEF SetTop
<1> QED
  BY <1>2, <1>3 DEF IsSequence

-----------------------------------------------------------------------------
(***************************************************************************)
(* What answers hold.                                                      *)
(***************************************************************************)
LEMMA TextsKnown ==
    /\ <<>> \in AnyText
    /\ \A t \in Table : Conf[t] \in AnyText /\ Joined(Columns[t]) \in AnyText
    /\ Joined(<<>>) \in AnyText
<1>1. Joined(<<>>) = <<>>
  BY EmptySeq DEF Joined, FlattenSeq
<1> QED
  BY <1>1 DEF AnyText

LEMMA AnswersKnown ==
    ASSUME Shapes, TablesOK, NEW r \in UnderWay, NEW a \in Answers(pending[r])
    PROVE  /\ r \in Req /\ a \in Data /\ IsAnswer(a)
           /\ pending[r].what = "columns" =>
                 pending[r].of \in Table /\ a = List("columns", pending[r].of)
           /\ pending[r].what = "rows" => a = List("rows", pending[r].of)
           /\ pending[r].what = "create" => a \in {List("none", Null), Text(<<>>)}
           /\ pending[r].what = "conf" =>
                 /\ pending[r].of \in Table /\ IsText(a)
                 /\ a.of \in {<<>>, Conf[pending[r].of]}
           /\ pending[r].what \in {"columns", "rows", "create", "conf"}
           /\ ~IsText(a) => RowCounts(a) \subseteq Nat
<1> DEFINE q == pending[r]
<1>1. r \in Req /\ q \in Questions /\ q # Nothing
  BY DEF UnderWay, Shapes
<1> HIDE DEF q
<1>2. CASE q.what = "columns"
  <2>1. q.of \in Table /\ a = List("columns", q.of)
    BY <1>1, <1>2 DEF Questions, Nothing, Asks, Answers, q
  <2>2. a \in Data /\ IsAnswer(a) /\ ~IsText(a)
    BY <2>1 DEF Data, Answered, IsAnswer, IsText, List
  <2>3. RowCounts(a) \subseteq Nat
    <3>1. Len(Columns[q.of]) \in Nat
      BY <2>1, BrowserAssumption, LenProperties
    <3> QED
      BY <2>1, <3>1 DEF RowCounts, List
  <2> QED
    BY <1>1, <1>2, <2>1, <2>2, <2>3 DEF q
<1>3. CASE q.what = "rows"
  <2>1. /\ q.of \in [table : Table, conditions : SUBSET Nat]
        /\ a = List("rows", q.of)
    BY <1>1, <1>3 DEF Questions, Nothing, Asks, Answers, q
  <2>2. a \in Data /\ IsAnswer(a) /\ ~IsText(a)
    BY <2>1 DEF Data, Answered, IsAnswer, IsText, List
  <2>3. RowCounts(a) \subseteq Nat
    BY <2>1, BrowserAssumption DEF RowCounts, List
  <2> QED
    BY <1>1, <1>3, <2>1, <2>2, <2>3 DEF q
<1>4. CASE q.what = "create"
  <2>1. a \in {List("none", Null), Text(<<>>)}
    BY <1>1, <1>4 DEF Questions, Nothing, Asks, Answers, q
  <2>2. a \in Data /\ IsAnswer(a)
    BY <2>1, TextsKnown DEF Data, Answered, IsAnswer, IsText, List, Text
  <2>3. ~IsText(a) => RowCounts(a) \subseteq Nat
    BY <2>1 DEF RowCounts, List, Text, IsText
  <2> QED
    BY <1>1, <1>4, <2>1, <2>2, <2>3 DEF q
<1>5. CASE q.what = "conf"
  <2>1. q.of \in Table
    BY <1>1, <1>5 DEF Questions, Nothing, Asks
  <2>2. a = Text(<<>>) \/ (admin_conf_mgr # Null /\ a = Text(admin_conf_mgr[q.of]))
    BY <1>5 DEF Answers, q
  <2>3. admin_conf_mgr # Null => admin_conf_mgr[q.of] \in {<<>>, Conf[q.of]}
    BY <2>1 DEF TablesOK, NewTable
  <2>4. IsText(a) /\ a.of \in {<<>>, Conf[q.of]} /\ a = Text(a.of)
    BY <2>2, <2>3 DEF Text, List, IsText
  <2>5. a \in Data /\ IsAnswer(a)
    <3>1. a.of \in AnyText
      BY <2>1, <2>4, TextsKnown
    <3> QED
      BY <2>4, <3>1 DEF Data, IsAnswer, Text, List
  <2> QED
    BY <1>1, <1>5, <2>1, <2>4, <2>5 DEF q
<1>6. q.what \in {"columns", "rows", "create", "conf"}
  BY <1>1 DEF Questions, Nothing, Asks
<1> QED
  BY <1>2, <1>3, <1>4, <1>5, <1>6

-----------------------------------------------------------------------------
(***************************************************************************)
(* What the steps do, told by what becomes of the screens.                 *)
(***************************************************************************)

\* A screen painted again: only what the user typed, turned or switched differs.
Like(s, t) ==
    \/ /\ t.kind = "search" /\ s \in SearchScreens /\ ScreenOK(s)
       /\ s.table = t.table /\ s.columns = t.columns /\ s.conf = t.conf
    \/ /\ t.kind = "config" /\ IsConfig(s) /\ ScreenOK(s)
       /\ s.table = t.table /\ s.columns = t.columns /\ s.conf = t.conf
    \/ /\ t.kind = "result" /\ s \in ResultScreens /\ ScreenOK(s)
       /\ s.of = t.of /\ s.filter = t.filter

Tapped   == hurried' = (hurried \/ ~Idle) /\ lost' = lost
Received == hurried' = hurried /\ lost' \in {lost, TRUE}

Resets ==
    /\ Tapped \/ Received
    /\ \E where \in {"opening", "switch", "answer"} :
          /\ Exception(where)
          /\ where = "opening" => admin_conf_mgr # Null
          /\ where = "answer" => Received /\ hurried

Opens ==
    /\ Tapped /\ m_tableNameArray = Null /\ Address(Null, 0)
    /\ ToSet(m_tableNameArray') \subseteq Table /\ isAdminMode' \in BOOLEAN
    /\ UNCHANGED <<m_selectedTableName, m_selectedTableColumns, stack, pending, ended>>

Closes == Tapped /\ CloseTables

AsksForColumns ==
    /\ Tapped
    /\ \E i \in DOMAIN m_tableNameArray, sig \in {0, 10} :
          m_tableNameArray[i] \in Table /\ AskForColumns(i, sig)

Repaints ==
    /\ Tapped /\ Here /\ stack # <<>>
    /\ \E s : SetTop(s) /\ Like(s, Top)

AsksForRows == Tapped /\ SearchRows

Pops == Tapped /\ Pop

GoesOn ==
    /\ Received /\ delegate = 0
    /\ \E r \in UnderWay : \E a \in Answers(pending[r]) :
          ColumnsCome(r, a) \/ TableMade(r, a)

NewScreen(a, s) ==
    \/ /\ delegate = 0 /\ signal_id = 2 /\ IsText(a)
       /\ s = Config(m_selectedTableName, m_selectedTableColumns, a.of)
    \/ /\ delegate = 0 /\ signal_id = 11 /\ IsText(a)
       /\ ~IsText(m_selectedTableColumns.data)
       /\ s = Search(m_selectedTableName, m_selectedTableColumns,
                     IF a.of # <<>> THEN a.of
                     ELSE Joined(NamesOf(m_selectedTableColumns.data)))
    \/ /\ delegate \in DOMAIN stack /\ ~IsText(a)
       /\ \E n \in RowCounts(a) : s = Result(a, stack[delegate].conf, n)

Pushes ==
    /\ Received
    /\ \E r \in UnderWay : \E a \in Answers(pending[r]) : \E s :
          /\ NewScreen(a, s) /\ Push(s) /\ Served(r)
          /\ UNCHANGED <<tablesVars, delegate, signal_id, ended>>

Ignores ==
    /\ Received
    /\ \E r \in UnderWay :
          Served(r) /\ UNCHANGED <<tablesVars, stack, delegate, signal_id, ended>>

AdminKept ==
    admin_conf_mgr' = admin_conf_mgr \/ (admin_conf_mgr = Null /\ admin_conf_mgr' = NewTable)

\* The screen on top, and what it is made of.
LEMMA TopScreen ==
    ASSUME IsSequence(stack), Shapes, StackOK, stack # <<>>
    PROVE  /\ IsScreen(Top) /\ ScreenOK(Top) /\ Top = stack[Len(stack)]
           /\ Len(stack) \in 1..Len(stack)
           /\ Top.kind = "search" => Top \in SearchScreens
           /\ Top.kind = "result" => Top \in ResultScreens
           /\ Top.kind = "config" => IsConfig(Top)
<1>1. Len(stack) \in DOMAIN stack /\ Len(stack) \in 1..Len(stack) /\ Top = stack[Len(stack)]
  BY StackSequence DEF Top, Last
<1>2. IsScreen(Top) /\ ScreenOK(Top)
  BY <1>1 DEF Shapes, StackOK
<1> QED
  BY <1>1, <1>2 DEF IsScreen, IsConfig, SearchScreens, ResultScreens

LEMMA ScrollPaints ==
    ASSUME IsSequence(stack), Shapes, StackOK, Scroll
    PROVE  Here /\ stack # <<>> /\ \E s : SetTop(s) /\ Like(s, Top)
<1>1. stack # <<>> /\ Top.kind = "search" /\ Here
  BY DEF Scroll, On, Top
<1>2. PICK top \in 0..Len(Offered(Top)) :
         SetTop([Top EXCEPT !.top = top,
                            !.typed = @ \cap Visible([Top EXCEPT !.top = top])])
  BY DEF Scroll
<1> DEFINE new == [Top EXCEPT !.top = top]
           s == [Top EXCEPT !.top = top, !.typed = @ \cap Visible(new)]
<1>3. Top \in SearchScreens /\ ScreenOK(Top) /\ top \in Nat
  BY <1>1, TopScreen
<1>4. /\ s \in SearchScreens /\ s.table = Top.table /\ s.columns = Top.columns
      /\ s.conf = Top.conf /\ s.top = top /\ s.typed = Top.typed \cap Visible(new)
      /\ new.top = top /\ s.kind = "search"
  BY <1>3 DEF SearchScreens
<1>5. IsAnswer(Top.columns.data) /\ Top.typed \subseteq DOMAIN Offered(Top)
  BY <1>1, <1>3 DEF ScreenOK
<1>6. Offered(s) = Offered(Top) /\ Visible(s) = Visible(new)
  BY <1>4 DEF Offered, Visible
<1>7. s.typed \subseteq DOMAIN Offered(s) \cap Visible(s)
  BY <1>4, <1>5, <1>6
<1>8. s.table \in Table /\ s.conf \in AnyText /\ IsAnswer(s.columns.data)
  BY <1>3, <1>4, <1>5 DEF SearchScreens
<1>9. SetTop(s)
  BY <1>2
<1> HIDE DEF s, new
<1>10. ScreenOK(s)
  BY <1>4, <1>7, <1>8 DEF ScreenOK
<1>11. Like(s, Top)
  BY <1>1, <1>4, <1>10 DEF Like
<1> QED
  BY <1>1, <1>9, <1>11

LEMMA TypePaints ==
    ASSUME IsSequence(stack), Shapes, StackOK, Type
    PROVE  Here /\ stack # <<>> /\ \E s : SetTop(s) /\ Like(s, Top)
<1>1. stack # <<>> /\ Top.kind = "search" /\ Here
  BY DEF Type, On, Top
<1>2. PICK i \in DOMAIN Offered(Top) \cap Visible(Top) :
         SetTop([Top EXCEPT !.typed = IF i \in @ THEN @ \ {i} ELSE @ \cup {i}])
  BY DEF Type
<1> DEFINE typed == IF i \in Top.typed THEN Top.typed \ {i} ELSE Top.typed \cup {i}
           s == [Top EXCEPT !.typed = typed]
<1>3. Top \in SearchScreens /\ ScreenOK(Top)
  BY <1>1, TopScreen
<1>4. IsAnswer(Top.columns.data) /\ Top.typed \subseteq DOMAIN Offered(Top) \cap Visible(Top)
  BY <1>1, <1>3 DEF ScreenOK
<1>5. i \in Nat
  BY <1>3 DEF Visible, SearchScreens
<1>6. typed \subseteq DOMAIN Offered(Top) \cap Visible(Top) /\ typed \subseteq Nat
  BY <1>3, <1>4, <1>5 DEF SearchScreens
<1>7. SetTop(s)
  BY <1>2
<1> HIDE DEF typed
<1>8. /\ s \in SearchScreens /\ s.table = Top.table /\ s.columns = Top.columns
      /\ s.conf = Top.conf /\ s.top = Top.top /\ s.typed = typed /\ s.kind = "search"
  BY <1>3, <1>6 DEF SearchScreens
<1> HIDE DEF s
<1>9. Offered(s) = Offered(Top) /\ Visible(s) = Visible(Top)
  BY <1>8 DEF Offered, Visible
<1>10. s.table \in Table /\ s.conf \in AnyText /\ IsAnswer(s.columns.data)
  BY <1>3, <1>4, <1>8 DEF SearchScreens
<1>11. ScreenOK(s)
  BY <1>6, <1>8, <1>9, <1>10 DEF ScreenOK
<1>12. Like(s, Top)
  BY <1>1, <1>8, <1>11 DEF Like
<1> QED
  BY <1>1, <1>7, <1>12

LEMMA TurningPaints ==
    ASSUME IsSequence(stack), Shapes, StackOK, BeforeResult \/ NextResult
    PROVE  Here /\ stack # <<>> /\ \E s : SetTop(s) /\ Like(s, Top)
<1>1. stack # <<>> /\ Top.kind = "result" /\ Here
  BY DEF BeforeResult, NextResult, On, Top
<1>2. Top \in ResultScreens /\ ScreenOK(Top)
  BY <1>1, TopScreen
<1>3. /\ Top.filter \in AnyText /\ IsAnswer(Top.of) /\ Top.rows \in Nat
      /\ Top.page \in {0} \cup 0..(Top.rows - 1)
  BY <1>1, <1>2 DEF ScreenOK, ResultScreens
<1>4. PICK page \in {0} \cup 0..(Top.rows - 1) : SetTop([Top EXCEPT !.page = page])
  <2> DEFINE rows == Top.rows
             page == Top.page
  <2>1. CASE BeforeResult
    <3>1. page # 0 /\ SetTop([Top EXCEPT !.page = page - 1])
      BY <2>1 DEF BeforeResult
    <3>2. page \in {0} \cup 0..(rows - 1) /\ rows \in Nat
      BY <1>3
    <3> HIDE DEF page, rows
    <3>3. page - 1 \in 0..(rows - 1)
      BY <3>1, <3>2
    <3> QED
      BY <3>1, <3>3 DEF rows
  <2>2. CASE NextResult
    <3>1. page # rows - 1 /\ rows > page /\ SetTop([Top EXCEPT !.page = page + 1])
      BY <2>2 DEF NextResult
    <3>2. page \in {0} \cup 0..(rows - 1) /\ rows \in Nat
      BY <1>3
    <3> HIDE DEF page, rows
    <3>3. page + 1 \in 0..(rows - 1)
      BY <3>1, <3>2
    <3> QED
      BY <3>1, <3>3 DEF rows
  <2> QED
    BY <2>1, <2>2
<1> DEFINE s == [Top EXCEPT !.page = page]
<1>5. page \in Nat
  BY <1>3
<1>6. /\ s \in ResultScreens /\ s.of = Top.of /\ s.filter = Top.filter
      /\ s.rows = Top.rows /\ s.page = page /\ s.kind = "result"
  BY <1>2, <1>5 DEF ResultScreens
<1>7. SetTop(s)
  BY <1>4
<1> HIDE DEF s
<1>8. ScreenOK(s)
  BY <1>3, <1>4, <1>6 DEF ScreenOK
<1>9. Like(s, Top)
  BY <1>1, <1>6, <1>8 DEF Like
<1> QED
  BY <1>1, <1>7, <1>9

LEMMA SwitchPaints ==
    ASSUME IsSequence(stack), Shapes, StackOK, Switch
    PROVE  \/ Here /\ stack # <<>> /\ \E s : SetTop(s) /\ Like(s, Top)
           \/ Exception("switch") /\ UNCHANGED admin_conf_mgr
<1>1. stack # <<>> /\ Top.kind = "config"
  BY DEF Switch, On, Top
<1>2. IsConfig(Top) /\ ScreenOK(Top)
  BY <1>1, TopScreen
<1>3. ASSUME NEW on \in BOOLEAN, NEW chosen,
             SetTop([Top EXCEPT !.on = on, !.chosen = chosen]), Here
      PROVE  \E s : SetTop(s) /\ Like(s, Top)
  <2> DEFINE s == [Top EXCEPT !.on = on, !.chosen = chosen]
  <2>1. /\ s \in [kind : {"config"}, table : Table, columns : Given,
                  conf : AnyText, chosen : {chosen}, on : BOOLEAN]
        /\ s.table = Top.table /\ s.columns = Top.columns /\ s.conf = Top.conf
        /\ s.on = on /\ s.chosen = chosen /\ s.kind = "config"
    BY <1>2 DEF IsConfig
  <2>2. /\ Top.table \in Table /\ Top.conf \in AnyText /\ IsAnswer(Top.columns.data)
    BY <1>1, <1>2 DEF ScreenOK
  <2>3. SetTop(s)
    BY <1>3
  <2> HIDE DEF s
  <2>4. IsConfig(s)
    BY <2>1 DEF IsConfig
  <2>5. ScreenOK(s)
    BY <2>1, <2>2 DEF ScreenOK
  <2>6. Like(s, Top)
    BY <1>1, <2>1, <2>4, <2>5 DEF Like
  <2> QED
    BY <2>3, <2>6
<1>4. \/ \E chosen : SetTop([Top EXCEPT !.on = TRUE, !.chosen = chosen]) /\ Here
      \/ \E chosen : SetTop([Top EXCEPT !.on = FALSE, !.chosen = chosen]) /\ Here
      \/ Exception("switch") /\ UNCHANGED admin_conf_mgr
  BY DEF Switch
<1> QED
  BY <1>1, <1>3, <1>4

\* If the user waits, no answer comes to a handler that cannot read it.
LEMMA AnswersFit ==
    ASSUME BrowserInv, ~hurried, NEW r \in UnderWay, NEW a \in Answers(pending[r])
    PROVE  /\ delegate = 0 /\ signal_id = 2 => IsText(a)
           /\ delegate = 0 /\ signal_id = 11 =>
                 /\ IsText(a) /\ ~IsText(m_selectedTableColumns.data)
                 /\ m_selectedTableColumns.data.what # "rows"
           /\ delegate \in DOMAIN stack => ~IsText(a)
<1>1. ChainOf(pending[r])
  BY DEF BrowserInv, Waited, InChain
<1>2. /\ pending[r].what = "rows" => a = List("rows", pending[r].of)
      /\ pending[r].what = "conf" => IsText(a)
  BY AnswersKnown DEF BrowserInv, TypeOK
<1>3. Len(stack) \in Nat /\ DOMAIN stack = 1..Len(stack) /\ (stack = <<>> <=> Len(stack) = 0)
  BY StackSequence DEF BrowserInv
<1> QED
  BY <1>1, <1>2, <1>3 DEF ChainOf, IsText, List, First, OwnColumns

LEMMA AnswerKinds ==
    ASSUME BrowserInv, Answer
    PROVE  AdminKept /\ (Resets \/ GoesOn \/ Pushes \/ Ignores)
<1>1. PICK r \in UnderWay : \/ Receive(r) /\ UNCHANGED lost
                            \/ Drop(r) /\ lost' = TRUE
  BY DEF Answer
<1>2. Received
  BY <1>1 DEF Answer, Received
<1>3. CASE Drop(r)
  BY <1>2, <1>3 DEF Drop, Create, AdminKept, Ignores
<1>4. CASE Receive(r)
  <2>1. PICK a \in Answers(pending[r]) :
           /\ IF IsText(a) THEN UNCHANGED admin_conf_mgr ELSE Create(pending[r])
           /\ TablesReceive(r, a) \/ SearchReceives(r, a) \/ NobodyReceives(r)
    BY <1>4 DEF Receive
  <2>2. AdminKept
    BY <2>1 DEF AdminKept, Create
  <2>3. CASE NobodyReceives(r)
    BY <1>2, <2>2, <2>3 DEF NobodyReceives, Ignores
  <2>4. ASSUME Exception("answer"), hurried
        PROVE  Resets
    BY <1>2, <2>4 DEF Resets
  <2>5. ~hurried =>
           /\ delegate = 0 /\ signal_id = 2 => IsText(a)
           /\ delegate = 0 /\ signal_id = 11 =>
                 /\ IsText(a) /\ ~IsText(m_selectedTableColumns.data)
                 /\ m_selectedTableColumns.data.what # "rows"
           /\ delegate \in DOMAIN stack => ~IsText(a)
    BY AnswersFit
  <2>6. CASE SearchReceives(r, a)
    <3>1. CASE IsText(a)
      BY <2>2, <2>4, <2>5, <2>6, <3>1 DEF SearchReceives
    <3>2. CASE ~IsText(a)
      <4>1. PICK n \in RowCounts(a) : Push(Result(a, stack[delegate].conf, n))
        BY <2>6, <3>2 DEF SearchReceives
      <4>2. /\ delegate \in DOMAIN stack /\ Served(r)
            /\ UNCHANGED <<tablesVars, delegate, signal_id, ended>>
        BY <2>6, <3>2 DEF SearchReceives
      <4>3. NewScreen(a, Result(a, stack[delegate].conf, n))
        BY <3>2, <4>2 DEF NewScreen
      <4>4. Pushes
        BY <1>2, <4>1, <4>2, <4>3 DEF Pushes
      <4> QED
        BY <2>2, <4>4
    <3> QED
      BY <3>1, <3>2
  <2>7. CASE TablesReceive(r, a)
    <3>1. delegate = 0
      BY <2>7 DEF TablesReceive
    <3>2. CASE ColumnsCome(r, a) \/ TableMade(r, a)
      BY <1>2, <2>2, <3>1, <3>2 DEF GoesOn
    <3>3. CASE OpenConfig(r, a)
      <4>1. CASE IsText(a)
        <5> DEFINE s == Config(m_selectedTableName, m_selectedTableColumns, a.of)
        <5>1. /\ Push(s) /\ Served(r)
              /\ UNCHANGED <<tablesVars, delegate, signal_id, ended>>
          BY <3>3, <4>1 DEF OpenConfig
        <5>2. NewScreen(a, s)
          BY <3>1, <3>3, <4>1 DEF NewScreen, OpenConfig
        <5> HIDE DEF s
        <5>3. Pushes
          BY <1>2, <5>1, <5>2 DEF Pushes
        <5> QED
          BY <2>2, <5>3
      <4>2. CASE ~IsText(a)
        BY <2>2, <2>4, <2>5, <3>1, <3>3, <4>2 DEF OpenConfig
      <4> QED
        BY <4>1, <4>2
    <3>4. CASE OpenSearch(r, a)
      <4>1. CASE IsText(a) /\ ~IsText(m_selectedTableColumns.data)
        <5> DEFINE s == Search(m_selectedTableName, m_selectedTableColumns,
                               IF a.of # <<>> THEN a.of
                               ELSE Joined(NamesOf(m_selectedTableColumns.data)))
        <5>1. /\ Push(s) /\ Served(r)
              /\ UNCHANGED <<tablesVars, delegate, signal_id, ended>>
          BY <3>4, <4>1 DEF OpenSearch
        <5>2. NewScreen(a, s)
          BY <3>1, <3>4, <4>1 DEF NewScreen, OpenSearch
        <5> HIDE DEF s
        <5>3. Pushes
          BY <1>2, <5>1, <5>2 DEF Pushes
        <5> QED
          BY <2>2, <5>3
      <4>2. CASE ~(IsText(a) /\ ~IsText(m_selectedTableColumns.data))
        BY <2>2, <2>4, <2>5, <3>1, <3>4, <4>2 DEF OpenSearch
      <4> QED
        BY <4>1, <4>2
    <3>5. CASE RowsForColumns(r, a)
      BY <2>2, <2>4, <2>5, <3>1, <3>5 DEF RowsForColumns
    <3> QED
      BY <2>7, <3>2, <3>3, <3>4, <3>5 DEF TablesReceive
  <2> QED
    BY <2>1, <2>3, <2>6, <2>7
<1> QED
  BY <1>1, <1>3, <1>4

\* What setTableNames: leaves are tables.
LEMMA ListedTables ==
    ASSUME NEW order \in Orders, ~Contains(Front(order), Admin)
    PROVE  ToSet(Listed(order)) \subseteq Table
<1>1. order \in Seq(Table \cup {Admin})
  BY BrowserAssumption
<1>2. /\ Len(order) \in Nat /\ DOMAIN order = 1..Len(order)
      /\ \A i \in 1..Len(order) : order[i] \in Table \cup {Admin}
  BY <1>1, LenProperties, ElementOfSeq
<1>3. CASE ~Contains(order, Admin)
  BY <1>2, <1>3 DEF Listed, Contains, ToSet
<1>4. CASE Contains(order, Admin)
  <2> DEFINE n == Len(order)
             front == SubSeq(order, 1, n - 1)
  <2>1. n \in Nat \ {0}
    BY <1>2, <1>4 DEF Contains
  <2>2. \A i \in 1..n - 1 : order[i] \in Table \cup {Admin}
    BY <1>2, <2>1
  <2>3. Listed(order) = front /\ Front(order) = front
    BY <1>4 DEF Listed, Front
  <2> HIDE DEF n
  <2>4. /\ front \in Seq(Table \cup {Admin})
        /\ Len(front) = IF 1 <= n - 1 THEN n - 1 - 1 + 1 ELSE 0
        /\ \A i \in 1..n - 1 - 1 + 1 : front[i] = order[1 + i - 1]
    BY <2>1, <2>2, SubSeqProperties
  <2> HIDE DEF front
  <2>5. /\ DOMAIN front = 1..Len(front)
        /\ \A i \in 1..Len(front) : front[i] \in Table \cup {Admin}
    BY <2>4, LenProperties, ElementOfSeq
  <2>6. \A i \in 1..Len(front) : front[i] # Admin
    BY <2>3 DEF Contains
  <2> QED
    BY <2>3, <2>5, <2>6 DEF ToSet
<1> QED
  BY <1>3, <1>4

LEMMA TapKinds ==
    ASSUME BrowserInv, Tap, Tapped
    PROVE  /\ AdminKept
           /\ \/ Resets \/ Opens \/ Closes \/ AsksForColumns \/ Repaints
              \/ AsksForRows \/ Pops
<1> USE DEF AdminKept
<1>1. IsSequence(stack) /\ Shapes /\ StackOK /\ TablesOK
  BY DEF BrowserInv, TypeOK
<1>2. CASE OpenTables
  <2>1. PICK order \in Orders :
          /\ Contains(order, Admin) => admin_conf_mgr # Null
          /\ IF Contains(Front(order), Admin) THEN Exception("opening")
             ELSE /\ m_tableNameArray' = Listed(order)
                  /\ isAdminMode' \in BOOLEAN
                  /\ Address(Null, 0)
                  /\ UNCHANGED <<m_selectedTableName, m_selectedTableColumns,
                                 stack, pending, ended>>
    BY <1>2 DEF OpenTables
  <2>2. CASE Contains(Front(order), Admin)
    <3>1. Contains(order, Admin)
      <4>1. order \in Seq(Table \cup {Admin})
        BY BrowserAssumption
      <4> DEFINE n == Len(order)
      <4>2. n \in Nat /\ \A i \in 1..n - 1 : order[i] \in Table \cup {Admin}
        BY <4>1, LenProperties, ElementOfSeq
      <4> DEFINE front == SubSeq(order, 1, n - 1)
      <4>3. Front(order) = front
        BY DEF Front
      <4> HIDE DEF n
      <4>4. /\ Len(front) = IF 1 <= n - 1 THEN n - 1 - 1 + 1 ELSE 0
            /\ \A i \in 1..n - 1 - 1 + 1 : front[i] = order[1 + i - 1]
        BY <4>2, SubSeqProperties
      <4> HIDE DEF front
      <4>5. PICK i \in 1..Len(front) : front[i] = Admin
        BY <2>2, <4>3 DEF Contains
      <4>6. i \in 1..n /\ order[i] = Admin
        BY <4>2, <4>4, <4>5
      <4> QED
        BY <4>6 DEF Contains, n
    <3>2. Exception("opening") /\ admin_conf_mgr # Null
      BY <2>1, <2>2, <3>1
    <3> QED
      BY <1>2, <3>2 DEF Resets, OpenTables
  <2>3. CASE ~Contains(Front(order), Admin)
    BY <1>2, <2>1, <2>3, ListedTables DEF Opens, OpenTables
  <2> QED
    BY <2>2, <2>3
<1>3. CASE CloseTables
  BY <1>3 DEF Closes, CloseTables
<1>4. CASE m_tableNameArray # Null /\ \E i \in DOMAIN m_tableNameArray :
                                         TapRow(i) \/ TapAccessory(i)
  <2>1. PICK i \in DOMAIN m_tableNameArray, sig \in {0, 10} : AskForColumns(i, sig)
    BY <1>4 DEF TapRow, TapAccessory
  <2>2. m_tableNameArray[i] \in Table
    BY <1>1, <1>4 DEF TablesOK, ToSet
  <2>3. UNCHANGED admin_conf_mgr
    BY <2>1 DEF AskForColumns
  <2> QED
    BY <2>1, <2>2, <2>3 DEF AsksForColumns
<1>5. CASE Scroll \/ Type \/ BeforeResult \/ NextResult
  <2>1. Here /\ stack # <<>> /\ \E s : SetTop(s) /\ Like(s, Top)
    BY <1>1, <1>5, ScrollPaints, TypePaints, TurningPaints
  <2> QED
    BY <2>1 DEF Repaints, Here
<1>6. CASE Switch
  BY <1>1, <1>6, SwitchPaints DEF Repaints, Here, Resets
<1>7. CASE SearchRows
  BY <1>7 DEF AsksForRows, SearchRows
<1>8. CASE Pop
  BY <1>8 DEF Pops, Pop
<1> QED
  BY <1>2, <1>3, <1>4, <1>5, <1>6, <1>7, <1>8 DEF Tap

LEMMA Kinds ==
    ASSUME BrowserInv, Next
    PROVE  /\ AdminKept
           /\ \/ Resets \/ Opens \/ Closes \/ AsksForColumns \/ Repaints
              \/ AsksForRows \/ Pops \/ GoesOn \/ Pushes \/ Ignores
<1>1. CASE Tap /\ hurried' = (hurried \/ ~Idle) /\ UNCHANGED lost
  BY <1>1, TapKinds DEF Tapped
<1>2. CASE Answer
  BY <1>2, AnswerKinds
<1> QED
  BY <1>1, <1>2 DEF Next

-----------------------------------------------------------------------------
(***************************************************************************)
(* What becomes of the stack.                                              *)
(***************************************************************************)
LEMMA NewScreens ==
    ASSUME BrowserInv, NEW r \in UnderWay, NEW a \in Answers(pending[r]), NEW s,
           NewScreen(a, s)
    PROVE  /\ IsScreen(s) /\ ScreenOK(s) /\ m_tableNameArray # Null
           /\ s.kind \in {"search", "config"} =>
                 s.columns = m_selectedTableColumns /\ s.columns.as # "returned"
<1>1. /\ a \in Data /\ IsAnswer(a) /\ (~IsText(a) => RowCounts(a) \subseteq Nat)
  BY AnswersKnown DEF BrowserInv, TypeOK
<1>2. /\ m_selectedTableColumns \in Given /\ IsAnswer(m_selectedTableColumns.data)
      /\ delegate = 0 /\ signal_id \in {1, 2, 11} => m_selectedTableColumns.as # "returned"
      /\ delegate = 0 => m_tableNameArray # Null /\ m_selectedTableName \in Table
  BY DEF BrowserInv, TypeOK, Shapes, TablesOK, DelegateThere
<1>3. CASE /\ delegate = 0 /\ signal_id = 2 /\ IsText(a)
           /\ s = Config(m_selectedTableName, m_selectedTableColumns, a.of)
  <2>1. a.of \in AnyText
    BY <1>1, <1>3 DEF IsAnswer
  <2>2. /\ s.kind = "config" /\ s.table = m_selectedTableName /\ s.conf = a.of
        /\ s.columns = m_selectedTableColumns /\ s.on \in BOOLEAN
    BY <1>3 DEF Config
  <2>3. IsConfig(s)
    BY <1>2, <1>3, <2>1 DEF IsConfig, Config
  <2> QED
    BY <1>2, <1>3, <2>1, <2>2, <2>3 DEF IsScreen, ScreenOK
<1>4. ASSUME delegate = 0, signal_id = 11, IsText(a), NEW conf \in AnyText,
             s = Search(m_selectedTableName, m_selectedTableColumns, conf)
      PROVE  /\ IsScreen(s) /\ ScreenOK(s) /\ m_tableNameArray # Null
             /\ s.kind \in {"search", "config"} =>
                   s.columns = m_selectedTableColumns /\ s.columns.as # "returned"
  <2>1. /\ s.kind = "search" /\ s.table = m_selectedTableName /\ s.conf = conf
        /\ s.columns = m_selectedTableColumns /\ s.typed = {}
    BY <1>4 DEF Search
  <2>2. s \in SearchScreens
    BY <1>2, <1>4 DEF SearchScreens, Search
  <2> QED
    BY <1>2, <1>4, <2>1, <2>2 DEF IsScreen, ScreenOK
<1>5. CASE /\ delegate = 0 /\ signal_id = 11 /\ IsText(a)
           /\ s = Search(m_selectedTableName, m_selectedTableColumns,
                         IF a.of # <<>> THEN a.of
                         ELSE Joined(NamesOf(m_selectedTableColumns.data)))
  <2> DEFINE conf == IF a.of # <<>> THEN a.of
                     ELSE Joined(NamesOf(m_selectedTableColumns.data))
  <2>1. Joined(NamesOf(m_selectedTableColumns.data)) \in AnyText
    <3>1. CASE m_selectedTableColumns.data.what = "columns"
      <4>1. m_selectedTableColumns.data.of \in Table
        BY <1>2, <3>1 DEF IsAnswer, Answered, IsText
      <4> QED
        BY <3>1, <4>1, TextsKnown DEF NamesOf
    <3>2. CASE m_selectedTableColumns.data.what # "columns"
      BY <3>2, TextsKnown DEF NamesOf
    <3> QED
      BY <3>1, <3>2
  <2>2. conf \in AnyText
    BY <1>1, <1>5, <2>1 DEF IsAnswer
  <2>3. s = Search(m_selectedTableName, m_selectedTableColumns, conf)
    BY <1>5
  <2> HIDE DEF conf
  <2> QED
    BY <1>4, <1>5, <2>2, <2>3
<1>6. CASE /\ delegate \in DOMAIN stack /\ ~IsText(a)
           /\ \E n \in RowCounts(a) : s = Result(a, stack[delegate].conf, n)
  <2>1. PICK n \in Nat : s = Result(a, stack[delegate].conf, n)
    BY <1>1, <1>6
  <2>2. stack[delegate].conf \in AnyText
    BY <1>6 DEF BrowserInv, TypeOK, StackOK, AskingOK, ScreenOK
  <2>3. m_tableNameArray # Null
    BY <1>6, StackSequence DEF BrowserInv, TypeOK, StackOK
  <2>4. /\ s.kind = "result" /\ s.of = a /\ s.filter = stack[delegate].conf /\ s.page = 0
    BY <2>1 DEF Result
  <2>5. s \in ResultScreens
    BY <1>1, <2>1, <2>2 DEF ResultScreens, Result
  <2> QED
    BY <1>1, <2>2, <2>3, <2>4, <2>5 DEF IsScreen, ScreenOK
<1> QED
  BY <1>3, <1>5, <1>6 DEF NewScreen

\* Which screens there are after a step, each by what it was.
Kept(i)    == i \in 1..Len(stack) /\ stack'[i] = stack[i]
Painted(i) ==
    /\ i = Len(stack) /\ Len(stack') = Len(stack) /\ i \in 1..Len(stack)
    /\ Like(stack'[i], stack[i])
Pushed(i)  ==
    /\ i = Len(stack) + 1 /\ Len(stack') = i /\ i <= MaxDepth
    /\ Received /\ UNCHANGED <<tablesVars, delegate, signal_id, ended>>
    /\ \E r \in UnderWay : \E a \in Answers(pending[r]) :
          NewScreen(a, stack'[i]) /\ Served(r)

StackStep ==
    /\ IsSequence(stack)'
    /\ Len(stack') <= MaxDepth
    /\ \A i \in 1..Len(stack') : Kept(i) \/ Painted(i) \/ Pushed(i)

LEMMA EmptyStack == IsSequence(<<>>) /\ Len(<<>>) = 0
  BY EmptySeq DEF IsSequence

LEMMA StackSteps ==
    ASSUME BrowserInv, Next
    PROVE  StackStep
<1>1. /\ IsSequence(stack) /\ Len(stack) \in Nat /\ Len(stack) <= MaxDepth
      /\ MaxDepth \in Nat
  BY StackSequence, BrowserAssumption DEF BrowserInv, TypeOK, StackOK
<1>2. CASE stack' = stack
  BY <1>1, <1>2 DEF StackStep, Kept, IsSequence
<1>3. CASE stack' = <<>>
  BY <1>1, <1>3, EmptyStack DEF StackStep, IsSequence
<1>4. CASE Repaints
  <2>1. PICK s : SetTop(s) /\ Like(s, Top)
    BY <1>4 DEF Repaints
  <2>2. /\ IsSequence(stack)' /\ Len(stack') = Len(stack) /\ stack'[Len(stack)] = s
        /\ \A i \in 1..Len(stack) : i # Len(stack) => stack'[i] = stack[i]
    BY <1>1, <1>4, <2>1, PaintedStack DEF Repaints
  <2>3. Top = stack[Len(stack)]
    BY DEF Top, Last
  <2> QED
    BY <1>1, <2>1, <2>2, <2>3 DEF StackStep, Kept, Painted
<1>5. CASE Pops
  <2>1. stack # <<>> /\ stack' = Front(stack)
    BY <1>5 DEF Pops, Pop
  <2>2. /\ IsSequence(stack)' /\ Len(stack') = Len(stack) - 1
        /\ \A i \in 1..Len(stack') : i \in 1..Len(stack) /\ stack'[i] = stack[i]
    BY <1>1, <2>1, PoppedStack
  <2> QED
    BY <1>1, <2>2 DEF StackStep, Kept
<1>6. CASE Pushes
  <2>0. PICK r \in UnderWay : \E a \in Answers(pending[r]) : \E s :
          /\ NewScreen(a, s) /\ Push(s) /\ Served(r)
          /\ UNCHANGED <<tablesVars, delegate, signal_id, ended>>
    BY <1>6 DEF Pushes
  <2>7. PICK a \in Answers(pending[r]) : \E s :
          /\ NewScreen(a, s) /\ Push(s) /\ Served(r)
          /\ UNCHANGED <<tablesVars, delegate, signal_id, ended>>
    BY <2>0
  <2>1. PICK s :
          /\ NewScreen(a, s) /\ Push(s) /\ Served(r)
          /\ UNCHANGED <<tablesVars, delegate, signal_id, ended>>
    BY <2>7
  <2>2. /\ IsSequence(stack)' /\ Len(stack) < MaxDepth
        /\ Len(stack') = Len(stack) + 1 /\ stack'[Len(stack) + 1] = s
        /\ \A i \in 1..Len(stack) : stack'[i] = stack[i]
    BY <1>1, <2>1, PushedStack
  <2>3. Received
    BY <1>6 DEF Pushes
  <2>4. Len(stack) + 1 <= MaxDepth
    BY <1>1, <2>2
  <2>5. Pushed(Len(stack) + 1)
    BY <2>1, <2>2, <2>3, <2>4 DEF Pushed
  <2>6. \A i \in 1..Len(stack) : Kept(i)
    BY <2>2 DEF Kept
  <2> QED
    BY <1>1, <2>2, <2>4, <2>5, <2>6 DEF StackStep
<1>7. CASE Resets
  BY <1>3, <1>7 DEF Resets, Exception
<1>8. CASE Opens \/ Closes \/ AsksForColumns \/ AsksForRows \/ GoesOn \/ Ignores
  BY <1>2, <1>8 DEF Opens, Closes, CloseTables, AsksForColumns, AskForColumns, AsksForRows,
     SearchRows, GoesOn, ColumnsCome, TableMade, Ignores
<1> QED
  BY <1>4, <1>5, <1>6, <1>7, <1>8, Kinds

LEMMA LikeScreens ==
    ASSUME NEW s, NEW t, Like(s, t)
    PROVE  /\ IsScreen(s) /\ ScreenOK(s) /\ s.kind = t.kind
           /\ s.kind \in {"search", "config"} =>
                 s.table = t.table /\ s.columns = t.columns /\ s.conf = t.conf
           /\ s.kind = "result" => s.of = t.of /\ s.filter = t.filter
<1>1. s \in SearchScreens => s.kind = "search"
  BY DEF SearchScreens
<1>2. IsConfig(s) => s.kind = "config"
  BY DEF IsConfig
<1>3. s \in ResultScreens => s.kind = "result"
  BY DEF ResultScreens
<1> QED
  BY <1>1, <1>2, <1>3 DEF Like, IsScreen

-----------------------------------------------------------------------------
(***************************************************************************)
(* What holds of any user, part by part.                                   *)
(***************************************************************************)
LEMMA TablesNext ==
    ASSUME BrowserInv, Next
    PROVE  TablesOK' /\ m_selectedTableColumns' \in Given
<1>1. TablesOK /\ m_selectedTableColumns \in Given /\ Null \in {Null}
  BY DEF BrowserInv, TypeOK, Shapes
<1>2. admin_conf_mgr' \in {Null, Conf, NewTable}
  BY <1>1, Kinds DEF AdminKept, TablesOK
<1>3. Returned \in Given /\ Returned.as = "returned" /\ IsAnswer(Returned.data)
  BY DEF Returned, List, Given, Data, Answered, IsAnswer, IsText
<1>4. CASE UNCHANGED <<m_tableNameArray, m_selectedTableName, m_selectedTableColumns>>
  BY <1>1, <1>2, <1>4 DEF TablesOK
<1>5. CASE Resets \/ Closes
  <2>1. NoTables
    BY <1>5 DEF Resets, Exception, Closes, CloseTables
  <2> QED
    BY <1>2, <1>3, <2>1 DEF NoTables, TablesOK
<1>6. CASE Opens
  BY <1>1, <1>2, <1>6 DEF Opens, TablesOK
<1>7. CASE AsksForColumns
  <2>1. /\ m_tableNameArray' = m_tableNameArray /\ m_selectedTableName' \in Table
        /\ m_selectedTableColumns' = Returned
    BY <1>7 DEF AsksForColumns, AskForColumns
  <2> QED
    BY <1>1, <1>2, <1>3, <2>1 DEF TablesOK
<1>8. CASE GoesOn
  <2>0. PICK r \in UnderWay : \E a \in Answers(pending[r]) : ColumnsCome(r, a) \/ TableMade(r, a)
    BY <1>8 DEF GoesOn
  <2>1. PICK a \in Answers(pending[r]) : ColumnsCome(r, a) \/ TableMade(r, a)
    BY <2>0
  <2>2. a \in Data /\ IsAnswer(a)
    BY AnswersKnown DEF BrowserInv, TypeOK
  <2>3. /\ m_tableNameArray' = m_tableNameArray /\ m_selectedTableName' = m_selectedTableName
        /\ m_selectedTableColumns' \in {m_selectedTableColumns, Whole(a), First(a)}
    BY <2>1 DEF ColumnsCome, TableMade, tablesVars
  <2>4. /\ Whole(a) \in Given /\ First(a) \in Given
        /\ Whole(a).as \in {"returned", "whole", "first"} /\ Whole(a).data = a
        /\ First(a).as \in {"returned", "whole", "first"} /\ First(a).data = a
    BY <2>2 DEF Whole, First, Given
  <2> QED
    BY <1>1, <1>2, <2>2, <2>3, <2>4 DEF TablesOK
<1> QED
  BY <1>4, <1>5, <1>6, <1>7, <1>8, Kinds
  DEF Repaints, Here, tablesVars, AsksForRows, SearchRows, Pops, Pop, Pushes, Ignores

LEMMA PendingNext ==
    ASSUME BrowserInv, Next
    PROVE  pending' \in [Req -> Questions]
<1>1. pending \in [Req -> Questions] /\ Nothing \in Questions
  BY DEF BrowserInv, Shapes, Questions
<1>2. CASE pending' = pending
  BY <1>1, <1>2
<1>3. ASSUME NEW r \in Req, NEW q \in Questions, pending' = [pending EXCEPT ![r] = q]
      PROVE  pending' \in [Req -> Questions]
  BY <1>1, <1>3
<1>4. CASE Resets
  BY <1>1, <1>4 DEF Resets, Exception, NoRequests
<1>5. CASE AsksForColumns
  <2>1. PICK t \in Table, sig \in {0, 10} : Ask(0, sig, Asks("columns", t))
    BY <1>5 DEF AsksForColumns, AskForColumns
  <2>2. Asks("columns", t) \in Questions
    BY DEF Asks, Questions
  <2> QED
    BY <1>3, <2>1, <2>2 DEF Ask
<1>6. CASE AsksForRows
  <2>1. /\ stack # <<>> /\ Top.kind = "search"
        /\ Ask(Len(stack), 0, Asks("rows", Rows(Top.table, Top.typed \cap Visible(Top))))
    BY <1>6 DEF AsksForRows, SearchRows, On, Top
  <2>2. Top \in SearchScreens
    BY <2>1, TopScreen DEF BrowserInv, TypeOK
  <2>3. Top.table \in Table /\ Top.typed \subseteq Nat
    BY <2>2 DEF SearchScreens
  <2>4. Asks("rows", Rows(Top.table, Top.typed \cap Visible(Top))) \in Questions
    BY <2>3 DEF Asks, Rows, Questions
  <2> QED
    BY <1>3, <2>1, <2>4 DEF Ask
<1>7. CASE GoesOn
  <2>1. PICK r \in UnderWay : \E a \in Answers(pending[r]) : ColumnsCome(r, a) \/ TableMade(r, a)
    BY <1>7 DEF GoesOn
  <2>2. r \in Req /\ m_selectedTableName \in Table
    BY <1>7 DEF GoesOn, UnderWay, BrowserInv, DelegateThere
  <2>3. \/ pending' = [pending EXCEPT ![r] = Asks("create", Null)]
        \/ pending' = [pending EXCEPT ![r] = Asks("conf", m_selectedTableName)]
    BY <2>1 DEF ColumnsCome, TableMade, AskNext
  <2>4. Asks("create", Null) \in Questions /\ Asks("conf", m_selectedTableName) \in Questions
    BY <2>2 DEF Asks, Questions
  <2> QED
    BY <1>3, <2>2, <2>3, <2>4
<1>8. CASE Pushes \/ Ignores
  <2>1. PICK r \in UnderWay : Served(r)
    BY <1>8 DEF Pushes, Ignores
  <2> QED
    BY <1>1, <1>3, <2>1 DEF UnderWay, Served
<1> QED
  BY <1>2, <1>4, <1>5, <1>6, <1>7, <1>8, Kinds
  DEF Opens, Closes, CloseTables, Repaints, Here, asking, Pops, Pop

\* The screens are what they were made as; over no tables there are none.
LEMMA ScreensNext ==
    ASSUME BrowserInv, Next
    PROVE  (\A i \in 1..Len(stack) : IsScreen(stack[i]) /\ ScreenOK(stack[i]))' /\ StackOK'
<1>1. \A i \in 1..Len(stack) : IsScreen(stack[i]) /\ ScreenOK(stack[i])
  BY StackSequence DEF BrowserInv, TypeOK, Shapes, StackOK
<1>2. StackStep
  BY StackSteps
<1>3. ASSUME NEW i \in 1..Len(stack')
      PROVE  IsScreen(stack'[i]) /\ ScreenOK(stack'[i])
  <2>1. CASE Kept(i)
    BY <1>1, <2>1 DEF Kept
  <2>2. CASE Painted(i)
    BY <2>2, LikeScreens DEF Painted
  <2>3. CASE Pushed(i)
    BY <2>3, NewScreens DEF Pushed
  <2> QED
    BY <1>2, <2>1, <2>2, <2>3 DEF StackStep
<1>4. Len(stack') <= MaxDepth /\ DOMAIN stack' = 1..Len(stack')
  <2>1. PICK S : stack' \in Seq(S)
    BY <1>2 DEF StackStep, IsSequence
  <2> QED
    BY <1>2, <2>1, LenProperties DEF StackStep
<1>5. m_tableNameArray' = Null => stack' = <<>>
  <2>1. m_tableNameArray = Null => stack = <<>>
    BY DEF BrowserInv, TypeOK, StackOK
  <2>2. CASE Resets
    BY <2>2 DEF Resets, Exception
  <2>3. CASE Closes
    BY <2>3 DEF Closes, CloseTables, OnTables
  <2>4. CASE Opens
    BY <2>1, <2>4 DEF Opens
  <2>5. CASE Pushes
    <3>1. m_tableNameArray # Null
      BY <2>5, NewScreens DEF Pushes
    <3> QED
      BY <2>5, <3>1 DEF Pushes, tablesVars
  <2>6. CASE AsksForColumns \/ AsksForRows \/ GoesOn \/ Ignores
    <3>1. stack' = stack /\ m_tableNameArray' = m_tableNameArray
      BY <2>6 DEF AsksForColumns, AskForColumns, AsksForRows, SearchRows, GoesOn,
         ColumnsCome, TableMade, Ignores, tablesVars
    <3> QED
      BY <2>1, <3>1
  <2>7. CASE Repaints \/ Pops
    <3>1. stack # <<>> /\ m_tableNameArray' = m_tableNameArray
      BY <2>7 DEF Repaints, Here, Pops, Pop, tablesVars
    <3> QED
      BY <2>1, <3>1
  <2> QED
    BY <2>2, <2>3, <2>4, <2>5, <2>6, <2>7, Kinds
<1> QED
  BY <1>3, <1>4, <1>5 DEF StackOK

\* What a search or a list of switches shows was never what a request method
\* returned at once.
LEMMA ReturnedNext ==
    ASSUME BrowserInv, Next
    PROVE  ReturnedNeverShown'
<1> DEFINE Shown(s) == s.kind \in {"search", "config"} => s.columns.as # "returned"
<1>1. \A i \in 1..Len(stack) : Shown(stack[i])
  BY StackSequence DEF BrowserInv, ReturnedNeverShown, Opened
<1>2. ASSUME NEW i \in 1..Len(stack')
      PROVE  Shown(stack'[i])
  <2>1. CASE Kept(i)
    BY <1>1, <2>1 DEF Kept
  <2>2. CASE Painted(i)
    BY <1>1, <2>2, LikeScreens DEF Painted
  <2>3. CASE Pushed(i)
    BY <2>3, NewScreens DEF Pushed
  <2> QED
    BY <2>1, <2>2, <2>3, StackSteps DEF StackStep
<1>3. DOMAIN stack' = 1..Len(stack')
  <2>1. PICK S : stack' \in Seq(S)
    BY StackSteps DEF StackStep, IsSequence
  <2> QED
    BY <2>1, LenProperties
<1> QED
  BY <1>2, <1>3 DEF ReturnedNeverShown, Opened

\* Null is no place on the stack.
LEMMA NullPlace ==
    /\ Null # 0 /\ MaxDepth \in Nat
    /\ \A n \in Nat : n <= MaxDepth => Null \notin 1..n
  BY BrowserAssumption

LEMMA DelegateNext ==
    ASSUME BrowserInv, Next
    PROVE  DelegateThere' /\ signal_id' \in {0, 1, 2, 10, 11}
<1>1. /\ Len(stack) \in Nat /\ (stack # <<>> => Len(stack) \in 1..Len(stack))
      /\ Len(stack) <= MaxDepth /\ signal_id \in {0, 1, 2, 10, 11}
  BY StackSequence DEF BrowserInv, TypeOK, StackOK, AskingOK
<1>2. /\ delegate \in {Null} \cup 0..Len(stack)
      /\ delegate = 0 => m_tableNameArray # Null /\ m_selectedTableName \in Table
      /\ delegate = 0 /\ signal_id \in {1, 2, 11} => m_selectedTableColumns.as # "returned"
  BY DEF BrowserInv, DelegateThere
<1>3. CASE Resets \/ Opens
  BY <1>1, <1>3, NullPlace
  DEF Resets, Exception, NoRequests, Opens, Address, DelegateThere
<1>4. CASE Closes
  <2>1. delegate' \in {Null, delegate} /\ delegate' # 0 /\ stack' = stack /\ signal_id' = signal_id
    BY <1>4, NullPlace DEF Closes, CloseTables, Gone
  <2> QED
    BY <1>1, <1>2, <2>1 DEF DelegateThere
<1>5. CASE AsksForColumns
  <2>1. /\ delegate' = 0 /\ signal_id' \in {0, 10} /\ m_tableNameArray' # Null
        /\ m_selectedTableName' \in Table /\ stack' = stack
    BY <1>5 DEF AsksForColumns, AskForColumns, Ask, Address, OnTables
  <2> QED
    BY <1>1, <2>1 DEF DelegateThere
<1>6. CASE Repaints
  <2>1. /\ delegate' = delegate /\ signal_id' = signal_id
        /\ m_tableNameArray' = m_tableNameArray
        /\ m_selectedTableName' = m_selectedTableName
        /\ m_selectedTableColumns' = m_selectedTableColumns
    BY <1>6 DEF Repaints, Here, asking, tablesVars
  <2>2. Len(stack') = Len(stack)
    BY <1>6, PaintedStack DEF Repaints, BrowserInv
  <2> QED
    BY <1>1, <1>2, <2>1, <2>2 DEF DelegateThere
<1>7. CASE AsksForRows
  <2>1. delegate' = Len(stack) /\ stack # <<>> /\ stack' = stack /\ signal_id' = 0
    BY <1>7 DEF AsksForRows, SearchRows, Ask, Address, On
  <2> QED
    BY <1>1, <2>1 DEF DelegateThere
<1>8. CASE Pops
  <2>1. /\ delegate' = IF delegate = Len(stack) THEN Null ELSE delegate
        /\ signal_id' = signal_id
        /\ m_tableNameArray' = m_tableNameArray
        /\ m_selectedTableName' = m_selectedTableName
        /\ m_selectedTableColumns' = m_selectedTableColumns
    BY <1>8 DEF Pops, Pop, Gone, tablesVars
  <2>2. Len(stack') = Len(stack) - 1 /\ stack # <<>>
    BY <1>8, PoppedStack DEF Pops, Pop, BrowserInv
  <2>3. delegate' \in {Null} \cup 0..Len(stack') /\ (delegate' = 0 => delegate = 0)
    BY <1>1, <1>2, <2>1, <2>2, NullPlace
  <2> QED
    BY <1>1, <1>2, <2>1, <2>3 DEF DelegateThere
<1>9. CASE GoesOn
  <2>0. PICK r \in UnderWay : \E a \in Answers(pending[r]) : ColumnsCome(r, a) \/ TableMade(r, a)
    BY <1>9 DEF GoesOn
  <2>1. PICK a \in Answers(pending[r]) : ColumnsCome(r, a) \/ TableMade(r, a)
    BY <2>0
  <2>2. /\ delegate = 0 /\ delegate' = 0 /\ signal_id' \in {1, 2, 11}
        /\ stack' = stack /\ m_tableNameArray' = m_tableNameArray
        /\ m_selectedTableName' = m_selectedTableName
    BY <1>9, <2>1 DEF GoesOn, ColumnsCome, TableMade, AskNext, Address, tablesVars
  <2>3. m_selectedTableColumns'.as # "returned"
    BY <1>2, <2>1, <2>2 DEF ColumnsCome, TableMade, Whole, First, tablesVars
  <2> QED
    BY <1>1, <1>2, <2>2, <2>3 DEF DelegateThere
<1>10. CASE Pushes \/ Ignores
  <2>1. /\ delegate' = delegate /\ signal_id' = signal_id
        /\ m_tableNameArray' = m_tableNameArray
        /\ m_selectedTableName' = m_selectedTableName
        /\ m_selectedTableColumns' = m_selectedTableColumns
    BY <1>10 DEF Pushes, Ignores, tablesVars
  <2>2. Len(stack') \in Nat /\ Len(stack') >= Len(stack)
    <3>1. CASE Ignores
      BY <1>1, <3>1 DEF Ignores
    <3>2. CASE Pushes
      BY <1>1, <3>2, PushedStack DEF Pushes, BrowserInv
    <3> QED
      BY <1>10, <3>1, <3>2
  <2>3. delegate' \in {Null} \cup 0..Len(stack')
    BY <1>1, <1>2, <2>1, <2>2
  <2> QED
    BY <1>1, <1>2, <2>1, <2>3 DEF DelegateThere
<1> QED
  BY <1>3, <1>4, <1>5, <1>6, <1>7, <1>8, <1>9, <1>10, Kinds

\* A search screen that is the delegate stays one.
LEMMA DelegateSearches ==
    ASSUME BrowserInv, Next
    PROVE  delegate' \in DOMAIN stack' => stack'[delegate'].kind = "search"
<1> SUFFICES ASSUME delegate' \in DOMAIN stack' PROVE stack'[delegate'].kind = "search"
  OBVIOUS
<1>1. StackStep /\ Len(stack) \in Nat /\ DOMAIN stack = 1..Len(stack)
  BY StackSteps, StackSequence DEF BrowserInv
<1>2. DOMAIN stack' = 1..Len(stack') /\ Len(stack') \in Nat
  <2>1. PICK S : stack' \in Seq(S)
    BY <1>1 DEF StackStep, IsSequence
  <2> QED
    BY <2>1, LenProperties
<1>3. delegate' # Null /\ delegate' # 0
  BY <1>1, <1>2, NullPlace DEF StackStep
<1>4. CASE delegate' = delegate
  <2>1. delegate \in 1..Len(stack)
    BY <1>1, <1>3, <1>4 DEF BrowserInv, DelegateThere
  <2>2. stack[delegate].kind = "search"
    BY <1>1, <2>1 DEF BrowserInv, TypeOK, AskingOK
  <2>3. Kept(delegate) \/ Painted(delegate)
    <3>1. delegate \in 1..Len(stack')
      BY <1>2, <1>4
    <3>2. ~Pushed(delegate)
      BY <1>1, <2>1 DEF Pushed
    <3> QED
      BY <1>1, <3>1, <3>2 DEF StackStep
  <2> QED
    BY <1>4, <2>2, <2>3, LikeScreens DEF Kept, Painted
<1>5. CASE AsksForRows
  <2>1. /\ delegate' = Len(stack) /\ stack # <<>> /\ Last(stack).kind = "search"
        /\ stack' = stack
    BY <1>5 DEF AsksForRows, SearchRows, Ask, Address, On
  <2> QED
    BY <2>1 DEF Last
<1> QED
  BY <1>3, <1>4, <1>5, Kinds
  DEF Resets, Exception, NoRequests, Opens, Address, Closes, CloseTables, Gone, AsksForColumns,
      AskForColumns, Ask, Repaints, Here, asking, Pops, Pop, GoesOn, ColumnsCome, TableMade,
      AskNext, Pushes, Ignores

LEMMA HistoryNext ==
    ASSUME BrowserInv, Next
    PROVE  /\ {isAdminMode', hurried', lost'} \subseteq BOOLEAN
           /\ ended' \in {"nowhere", "opening", "switch", "answer"}
           /\ OpeningMade'
<1>1. /\ isAdminMode \in BOOLEAN /\ hurried \in BOOLEAN /\ lost \in BOOLEAN
      /\ ended \in {"nowhere", "opening", "switch", "answer"} /\ OpeningMade
  BY DEF BrowserInv, TypeOK, AskingOK
<1>2. Tapped \/ Received
  BY Kinds DEF Resets, Opens, Closes, AsksForColumns, Repaints, AsksForRows, Pops, GoesOn,
     Pushes, Ignores
<1>3. hurried' \in BOOLEAN /\ lost' \in BOOLEAN
  BY <1>1, <1>2 DEF Tapped, Received
<1>4. isAdminMode' \in BOOLEAN
  BY <1>1, Kinds DEF Resets, Exception, NoTables, Opens, Closes, CloseTables,
     AsksForColumns, AskForColumns, Repaints, Here, tablesVars, AsksForRows, SearchRows, Pops,
     Pop, GoesOn, ColumnsCome, TableMade, Pushes, Ignores
<1>5. \/ ended' = ended
      \/ ended' \in {"opening", "switch", "answer"} /\ (ended' = "opening" => admin_conf_mgr # Null)
  BY Kinds DEF Resets, Exception, Opens, Closes, CloseTables, AsksForColumns, AskForColumns,
     Repaints, Here, AsksForRows, SearchRows, Pops, Pop, GoesOn, ColumnsCome, TableMade,
     Pushes, Ignores
<1>6. OpeningMade'
  BY <1>1, <1>5, Kinds DEF OpeningMade, AdminKept
<1> QED
  BY <1>1, <1>3, <1>4, <1>5, <1>6

-----------------------------------------------------------------------------
(***************************************************************************)
(* What holds if the user waits.                                           *)
(***************************************************************************)

\* Nothing is under way when a user who waits taps.
LEMMA WaitsToTap ==
    ASSUME BrowserInv, Next, ~hurried'
    PROVE  /\ ~hurried /\ OneUnderWay /\ InChain /\ ScreensOnTheirTable
           /\ OverSearch /\ FoundAsAsked /\ ended # "answer"
           /\ Tapped => UnderWay = {}
<1>1. hurried \in BOOLEAN
  BY DEF BrowserInv, TypeOK, AskingOK
<1>2. Tapped \/ Received
  BY Kinds DEF Resets, Opens, Closes, AsksForColumns, Repaints, AsksForRows, Pops, GoesOn,
     Pushes, Ignores
<1>3. ~hurried /\ (Tapped => Idle)
  BY <1>1, <1>2 DEF Tapped, Received
<1> QED
  BY <1>3 DEF BrowserInv, Waited, Idle

\* The request a step makes, if it makes one, is the only one then.
LEMMA RequestsNext ==
    ASSUME BrowserInv, Next, ~hurried'
    PROVE  OneUnderWay' /\ InChain'
<1> USE WaitsToTap
<1>1. pending \in [Req -> Questions]
  BY DEF BrowserInv, Shapes
<1>2. CASE Resets
  <2>1. UnderWay' = {}
    BY <1>2 DEF Resets, Exception, NoRequests, UnderWay
  <2> QED
    BY <2>1 DEF OneUnderWay, InChain
<1>3. CASE Opens \/ Closes \/ Repaints \/ Pops
  <2>1. Tapped /\ pending' = pending
    BY <1>3 DEF Opens, Closes, CloseTables, Repaints, Here, asking, Pops, Pop
  <2>2. UnderWay' = {}
    BY <2>1 DEF UnderWay
  <2> QED
    BY <2>2 DEF OneUnderWay, InChain
<1>4. ASSUME NEW r \in Req, NEW q, pending' = [pending EXCEPT ![r] = q],
             UnderWay \subseteq {r}, q # Nothing => ChainOf(q)'
      PROVE  OneUnderWay' /\ InChain'
  <2>1. pending'[r] = q /\ \A p \in Req \ {r} : pending'[p] = Nothing
    BY <1>1, <1>4 DEF UnderWay
  <2>2. UnderWay' \subseteq {r} /\ (r \in UnderWay' => q # Nothing)
    BY <2>1 DEF UnderWay
  <2>3. OneUnderWay'
    BY <2>2 DEF OneUnderWay
  <2>4. InChain'
    <3> SUFFICES ASSUME NEW p \in UnderWay' PROVE ChainOf(pending[p])'
      BY DEF InChain
    <3>1. p = r /\ q # Nothing /\ pending'[p] = q
      BY <2>1, <2>2
    <3> QED
      BY <1>4, <3>1 DEF ChainOf
  <2> QED
    BY <2>3, <2>4
<1>5. CASE AsksForColumns
  <2>1. PICK i \in DOMAIN m_tableNameArray, sig \in {0, 10} : AskForColumns(i, sig)
    BY <1>5 DEF AsksForColumns
  <2>2. PICK q : q = Asks("columns", m_tableNameArray[i])
    OBVIOUS
  <2>3. PICK r \in Req \ UnderWay : pending' = [pending EXCEPT ![r] = q]
    BY <2>1, <2>2 DEF AskForColumns, Ask
  <2>4. ChainOf(q)'
    BY <2>1, <2>2 DEF AskForColumns, Ask, Address, Asks, OnTables, ChainOf
  <2>5. UnderWay \subseteq {r}
    BY <1>5 DEF AsksForColumns
  <2> QED
    BY <1>4, <2>3, <2>4, <2>5
<1>6. CASE AsksForRows
  <2>0. PICK q : q = Asks("rows", Rows(Top.table, Top.typed \cap Visible(Top)))
    OBVIOUS
  <2>1. /\ stack # <<>> /\ Top.kind = "search" /\ stack' = stack
        /\ Ask(Len(stack), 0, q)
    BY <1>6, <2>0 DEF AsksForRows, SearchRows, On, Top
  <2>2. PICK r \in Req \ UnderWay : pending' = [pending EXCEPT ![r] = q]
    BY <2>1 DEF Ask
  <2>3. Top.typed \cap Visible(Top) = Top.typed
    <3>1. ScreenOK(Top)
      BY <2>1, TopScreen DEF BrowserInv, TypeOK
    <3> QED
      BY <2>1, <3>1 DEF ScreenOK
  <2>4. q.what = "rows" /\ q.of = Rows(Top.table, Top.typed)
    BY <2>0, <2>3 DEF Asks
  <2>5. delegate' = Len(stack) /\ Top' = Top /\ Len(stack') = Len(stack)
    BY <2>1 DEF Ask, Address, Top, Last
  <2>6. ChainOf(q)'
    BY <2>1, <2>4, <2>5 DEF ChainOf
  <2>7. UnderWay \subseteq {r}
    BY <1>6 DEF AsksForRows
  <2> QED
    BY <1>4, <2>2, <2>6, <2>7
<1>7. CASE GoesOn
  <2>0. PICK r \in UnderWay : \E a \in Answers(pending[r]) : ColumnsCome(r, a) \/ TableMade(r, a)
    BY <1>7 DEF GoesOn
  <2>1. PICK a \in Answers(pending[r]) : ColumnsCome(r, a) \/ TableMade(r, a)
    BY <2>0
  <2>2. r \in Req /\ UnderWay \subseteq {r} /\ ChainOf(pending[r]) /\ delegate = 0
    BY <1>7 DEF GoesOn, UnderWay, OneUnderWay, InChain
  <2>3. pending[r].what # "rows"
    BY <2>2, StackSequence DEF BrowserInv, ChainOf
  <2>4. pending[r].what = "columns" => a = List("columns", pending[r].of)
    BY AnswersKnown DEF BrowserInv, TypeOK
  <2>5. CASE ColumnsCome(r, a)
    <3>1. signal_id \in {0, 10} /\ stack' = stack /\ m_selectedTableName' = m_selectedTableName
      BY <2>5 DEF ColumnsCome
    <3>2. /\ pending[r].what = "columns" /\ pending[r].of = m_selectedTableName
          /\ stack = <<>> /\ a = OwnColumns
      BY <2>2, <2>3, <2>4, <3>1 DEF ChainOf, OwnColumns
    <3>3. CASE signal_id = 0
      <4>1. /\ pending' = [pending EXCEPT ![r] = Asks("create", Null)]
            /\ delegate' = 0 /\ signal_id' = 1 /\ m_selectedTableColumns' = Whole(a)
        BY <2>5, <3>3 DEF ColumnsCome, AskNext, Address
      <4>2. ChainOf(Asks("create", Null))'
        BY <3>1, <3>2, <4>1 DEF ChainOf, Asks, OwnColumns
      <4> QED
        BY <1>4, <2>2, <4>1, <4>2
    <3>4. CASE signal_id = 10
      <4>0. PICK q : q = Asks("conf", m_selectedTableName)
        OBVIOUS
      <4>1. /\ pending' = [pending EXCEPT ![r] = q]
            /\ delegate' = 0 /\ signal_id' = 11 /\ m_selectedTableColumns' = First(a)
        BY <2>5, <3>4, <4>0 DEF ColumnsCome, AskNext, Address
      <4>2. ChainOf(q)'
        BY <3>1, <3>2, <4>0, <4>1 DEF ChainOf, Asks, OwnColumns
      <4> QED
        BY <1>4, <2>2, <4>1, <4>2
    <3> QED
      BY <3>1, <3>3, <3>4
  <2>6. CASE TableMade(r, a)
    <3>0. PICK q : q = Asks("conf", m_selectedTableName)
      OBVIOUS
    <3>1. /\ signal_id = 1 /\ stack' = stack
          /\ m_selectedTableName' = m_selectedTableName
          /\ m_selectedTableColumns' = m_selectedTableColumns
          /\ pending' = [pending EXCEPT ![r] = q]
          /\ delegate' = 0 /\ signal_id' = 2
      BY <2>6, <3>0 DEF TableMade, AskNext, Address, tablesVars
    <3>2. stack = <<>> /\ m_selectedTableColumns = Whole(OwnColumns)
      BY <2>2, <2>3, <3>1 DEF ChainOf
    <3>3. ChainOf(q)'
      BY <3>0, <3>1, <3>2 DEF ChainOf, Asks, OwnColumns
    <3> QED
      BY <1>4, <2>2, <3>1, <3>3
  <2> QED
    BY <2>1, <2>5, <2>6
<1>8. CASE Pushes \/ Ignores
  <2>1. PICK r \in UnderWay : pending' = [pending EXCEPT ![r] = Nothing]
    BY <1>8 DEF Pushes, Ignores, Served
  <2>2. r \in Req /\ UnderWay \subseteq {r}
    BY DEF UnderWay, OneUnderWay
  <2> QED
    BY <1>4, <2>1, <2>2
<1> QED
  BY <1>2, <1>3, <1>5, <1>6, <1>7, <1>8, Kinds

\* What opens over the tables or a search, if the user waits.
LEMMA WaitedScreens ==
    ASSUME BrowserInv, Next, ~hurried', NEW i \in 1..Len(stack'), Pushed(i)
    PROVE  LET s == stack'[i] IN
           /\ s.kind = "search" =>
                 /\ s.columns = First(List("columns", s.table))
                 /\ s.conf \in {Conf[s.table], Joined(Columns[s.table])} \ {<<>>}
           /\ s.kind = "config" =>
                 /\ s.columns = Whole(List("columns", s.table))
                 /\ s.conf \in {Conf[s.table], <<>>}
           /\ s.kind = "result" =>
                 /\ Len(stack) \in 1..Len(stack) /\ Top.kind = "search"
                 /\ s.of = List("rows", Rows(Top.table, Top.typed))
                 /\ s.filter = Top.conf
<1> DEFINE s == stack'[i]
<1>0. PICK r \in UnderWay : \E a \in Answers(pending[r]) : NewScreen(a, s)
  BY DEF Pushed
<1>1. PICK a \in Answers(pending[r]) : NewScreen(a, s)
  BY <1>0
<1> HIDE DEF s
<1>2. ChainOf(pending[r])
  BY WaitsToTap DEF InChain
<1>3. /\ pending[r].what = "rows" => a = List("rows", pending[r].of)
      /\ pending[r].what = "conf" => /\ pending[r].of \in Table
                                     /\ a.of \in {<<>>, Conf[pending[r].of]}
  BY AnswersKnown DEF BrowserInv, TypeOK
<1>4. /\ Len(stack) \in Nat /\ DOMAIN stack = 1..Len(stack)
      /\ stack = <<>> <=> Len(stack) = 0
      /\ stack # <<>> => Len(stack) \in 1..Len(stack)
  BY StackSequence DEF BrowserInv
<1>5. CASE delegate = 0 /\ s = Config(m_selectedTableName, m_selectedTableColumns, a.of)
           /\ signal_id = 2
  <2>1. /\ s.kind = "config" /\ s.table = m_selectedTableName /\ s.conf = a.of
        /\ s.columns = m_selectedTableColumns
    BY <1>5 DEF Config
  <2>2. /\ m_selectedTableColumns = Whole(OwnColumns)
        /\ pending[r].what = "conf" /\ pending[r].of = m_selectedTableName
    BY <1>2, <1>4, <1>5 DEF ChainOf
  <2> QED
    BY <1>3, <2>1, <2>2 DEF OwnColumns, s
<1>6. CASE /\ delegate = 0 /\ signal_id = 11
           /\ s = Search(m_selectedTableName, m_selectedTableColumns,
                         IF a.of # <<>> THEN a.of
                         ELSE Joined(NamesOf(m_selectedTableColumns.data)))
  <2>1. /\ s.kind = "search" /\ s.table = m_selectedTableName
        /\ s.conf = IF a.of # <<>> THEN a.of
                    ELSE Joined(NamesOf(m_selectedTableColumns.data))
        /\ s.columns = m_selectedTableColumns
    BY <1>6 DEF Search
  <2>2. /\ m_selectedTableColumns = First(OwnColumns)
        /\ pending[r].what = "conf" /\ pending[r].of = m_selectedTableName
    BY <1>2, <1>4, <1>6 DEF ChainOf
  <2>3. /\ NamesOf(m_selectedTableColumns.data) = Columns[m_selectedTableName]
    BY <2>2 DEF First, OwnColumns, List, NamesOf
  <2>4. Joined(Columns[m_selectedTableName]) # <<>>
    BY <1>3, <2>2, BrowserAssumption
  <2>5. s.conf \in {Conf[s.table], Joined(Columns[s.table])} \ {<<>>}
    BY <1>3, <2>1, <2>2, <2>3, <2>4
  <2> QED
    BY <2>1, <2>2, <2>5 DEF OwnColumns, s
<1>7. CASE /\ delegate \in DOMAIN stack
           /\ \E n \in RowCounts(a) : s = Result(a, stack[delegate].conf, n)
  <2>1. s.kind = "result" /\ s.of = a /\ s.filter = stack[delegate].conf
    BY <1>7 DEF Result
  <2>2. delegate # 0
    BY <1>4, <1>7
  <2>3. /\ pending[r].what = "rows" /\ stack # <<>> /\ delegate = Len(stack)
        /\ Top.kind = "search" /\ pending[r].of = Rows(Top.table, Top.typed)
    BY <1>2, <2>2 DEF ChainOf
  <2>4. stack[delegate] = Top
    BY <2>3 DEF Top, Last
  <2> QED
    BY <1>3, <1>4, <2>1, <2>3, <2>4 DEF s
<1> QED
  BY <1>1, <1>5, <1>6, <1>7 DEF NewScreen

LEMMA OwnScreensNext ==
    ASSUME BrowserInv, Next, ~hurried'
    PROVE  ScreensOnTheirTable'
<1> DEFINE Own(s) ==
        /\ s.kind = "search" =>
              /\ s.columns = First(List("columns", s.table))
              /\ s.conf \in {Conf[s.table], Joined(Columns[s.table])} \ {<<>>}
        /\ s.kind = "config" =>
              /\ s.columns = Whole(List("columns", s.table))
              /\ s.conf \in {Conf[s.table], <<>>}
<1>1. \A i \in 1..Len(stack) : Own(stack[i])
  BY WaitsToTap, StackSequence DEF BrowserInv, ScreensOnTheirTable, Opened
<1>2. ASSUME NEW i \in 1..Len(stack')
      PROVE  Own(stack'[i])
  <2>1. CASE Kept(i)
    BY <1>1, <2>1 DEF Kept
  <2>2. CASE Painted(i)
    BY <1>1, <2>2, LikeScreens DEF Painted
  <2>3. CASE Pushed(i)
    BY <2>3, WaitedScreens
  <2> QED
    BY <2>1, <2>2, <2>3, StackSteps DEF StackStep
<1>3. DOMAIN stack' = 1..Len(stack')
  <2>1. PICK S : stack' \in Seq(S)
    BY StackSteps DEF StackStep, IsSequence
  <2> QED
    BY <2>1, LenProperties
<1> QED
  BY <1>2, <1>3 DEF ScreensOnTheirTable, Opened

LEMMA FoundNext ==
    ASSUME BrowserInv, Next, ~hurried'
    PROVE  OverSearch' /\ FoundAsAsked'
<1> DEFINE Found(i) ==
        stack[i].kind = "result" =>
            /\ i > 1 /\ stack[i - 1].kind = "search"
            /\ stack[i].of = List("rows", Rows(stack[i - 1].table, stack[i - 1].typed))
            /\ stack[i].filter = stack[i - 1].conf
<1>0. /\ Len(stack) \in Nat /\ DOMAIN stack = 1..Len(stack)
  BY StackSequence DEF BrowserInv
<1>1. \A i \in 1..Len(stack) : Found(i)
  BY <1>0, WaitsToTap DEF OverSearch, FoundAsAsked
<1>2. DOMAIN stack' = 1..Len(stack') /\ Len(stack') \in Nat
  <2>1. PICK S : stack' \in Seq(S)
    BY StackSteps DEF StackStep, IsSequence
  <2> QED
    BY <2>1, LenProperties
<1>3. ASSUME NEW i \in 1..Len(stack'), stack'[i].kind = "result"
      PROVE  /\ i > 1 /\ stack'[i - 1].kind = "search"
             /\ stack'[i].of = List("rows", Rows(stack'[i - 1].table, stack'[i - 1].typed))
             /\ stack'[i].filter = stack'[i - 1].conf
  <2>1. i > 1 => Kept(i - 1)
    <3> SUFFICES ASSUME i > 1 PROVE Kept(i - 1)
      OBVIOUS
    <3> DEFINE j == i - 1
    <3>1. j \in 1..Len(stack') /\ j # Len(stack')
      BY <1>2
    <3> HIDE DEF j
    <3>2. ~Painted(j) /\ ~Pushed(j)
      BY <3>1 DEF Painted, Pushed
    <3>3. Kept(j)
      BY <3>1, <3>2, StackSteps DEF StackStep
    <3> QED
      BY <3>3 DEF j
  <2>2. CASE Kept(i)
    BY <1>1, <1>3, <2>1, <2>2 DEF Kept
  <2>3. CASE Painted(i)
    <3>1. /\ i \in 1..Len(stack) /\ stack[i].kind = "result"
          /\ stack'[i].of = stack[i].of /\ stack'[i].filter = stack[i].filter
      BY <1>3, <2>3, LikeScreens DEF Painted
    <3> QED
      BY <1>1, <2>1, <3>1 DEF Kept
  <2>4. CASE Pushed(i)
    <3>1. /\ Len(stack) \in 1..Len(stack) /\ Top.kind = "search"
          /\ stack'[i].of = List("rows", Rows(Top.table, Top.typed))
          /\ stack'[i].filter = Top.conf
      BY <1>3, <2>4, WaitedScreens
    <3>2. i = Len(stack) + 1
      BY <2>4 DEF Pushed
    <3>3. i > 1 /\ i - 1 = Len(stack)
      BY <1>0, <3>1, <3>2
    <3>4. stack'[i - 1] = Top
      BY <2>1, <3>3 DEF Kept, Top, Last
    <3> QED
      BY <3>1, <3>3, <3>4
  <2> QED
    BY <2>2, <2>3, <2>4, StackSteps DEF StackStep
<1> QED
  BY <1>2, <1>3 DEF OverSearch, FoundAsAsked

-----------------------------------------------------------------------------
(***************************************************************************)
(* BrowserInv is an invariant.                                             *)
(***************************************************************************)
LEMMA WaitedNext ==
    ASSUME BrowserInv, Next
    PROVE  Waited'
<1> SUFFICES ASSUME ~hurried'
             PROVE  /\ OneUnderWay' /\ InChain' /\ ScreensOnTheirTable'
                    /\ OverSearch' /\ FoundAsAsked' /\ ended' # "answer"
  BY DEF Waited
<1>1. ~hurried /\ ended # "answer"
  BY WaitsToTap
<1>2. ended' = ended \/ Resets
  BY Kinds DEF Opens, Closes, CloseTables, AsksForColumns, AskForColumns, Repaints, Here,
     AsksForRows, SearchRows, Pops, Pop, GoesOn, ColumnsCome, TableMade, Pushes, Ignores
<1>3. Resets => ended' # "answer"
  BY <1>1 DEF Resets, Exception
<1> QED
  BY <1>1, <1>2, <1>3, RequestsNext, OwnScreensNext, FoundNext

LEMMA BrowserInvNext ==
    ASSUME BrowserInv, [Next]_vars
    PROVE  BrowserInv'
<1>1. CASE Next
  <2>1. IsSequence(stack)'
    BY <1>1, StackSteps DEF StackStep
  <2>2. Shapes'
    BY <1>1, PendingNext, TablesNext, ScreensNext DEF Shapes
  <2>3. DelegateThere' /\ signal_id' \in {0, 1, 2, 10, 11}
    BY <1>1, DelegateNext
  <2>4. StackOK' /\ TablesOK'
    BY <1>1, ScreensNext, TablesNext
  <2>5. delegate' \in {Null} \cup 0..MaxDepth
    <3>0. PICK S : stack' \in Seq(S)
      BY <2>1 DEF IsSequence
    <3>1. Len(stack') \in Nat /\ Len(stack') <= MaxDepth
      BY <2>4, <3>0, LenProperties DEF StackOK
    <3>2. delegate' \in {Null} \cup 0..Len(stack')
      BY <2>3 DEF DelegateThere
    <3> QED
      BY <3>1, <3>2, NullPlace
  <2>6. AskingOK'
    BY <1>1, <2>3, <2>5, DelegateSearches, HistoryNext DEF AskingOK
  <2>7. OpeningMade' /\ ReturnedNeverShown' /\ Waited'
    BY <1>1, HistoryNext, ReturnedNext, WaitedNext
  <2> QED
    BY <2>1, <2>2, <2>3, <2>4, <2>6, <2>7 DEF BrowserInv, TypeOK
<1>2. CASE UNCHANGED vars
  <2> USE <1>2 DEF vars, tablesVars, asking, history, BrowserInv
  <2>1. IsSequence(stack)' /\ DelegateThere' /\ OpeningMade'
    BY DEF IsSequence, DelegateThere, OpeningMade
  <2>2. Shapes'
    BY DEF Shapes
  <2>3. TablesOK'
    BY DEF TypeOK, TablesOK
  <2>4. StackOK'
    BY DEF TypeOK, StackOK
  <2>5. AskingOK'
    BY DEF TypeOK, AskingOK
  <2>6. ReturnedNeverShown'
    BY DEF ReturnedNeverShown, Opened
  <2>7. UnderWay' = UnderWay
    BY DEF UnderWay
  <2>8. OneUnderWay => OneUnderWay'
    BY <2>7 DEF OneUnderWay
  <2>9. InChain => InChain'
    BY <2>7 DEF InChain, ChainOf, Top, OwnColumns
  <2>10. /\ ScreensOnTheirTable => ScreensOnTheirTable'
         /\ OverSearch => OverSearch'
         /\ FoundAsAsked => FoundAsAsked'
    BY DEF ScreensOnTheirTable, Opened, OverSearch, FoundAsAsked
  <2>11. hurried' = hurried /\ ended' = ended
    OBVIOUS
  <2>12. Waited
    OBVIOUS
  <2>13. Waited'
    BY <2>8, <2>9, <2>10, <2>11, <2>12 DEF Waited
  <2> QED
    BY <2>1, <2>2, <2>3, <2>4, <2>5, <2>6, <2>13 DEF TypeOK
<1> QED
  BY <1>1, <1>2

LEMMA BrowserInvInit == Init => BrowserInv
<1> SUFFICES ASSUME Init PROVE BrowserInv
  OBVIOUS
<1> USE DEF Init, InitRequests
<1>1. IsSequence(stack) /\ Len(stack) = 0 /\ DOMAIN stack = {}
  BY EmptyStack, EmptySeq DEF IsSequence
<1>2. m_selectedTableColumns \in Given /\ IsAnswer(m_selectedTableColumns.data)
  BY DEF Returned, List, Given, Data, Answered, IsAnswer, IsText
<1>3. Shapes
  BY <1>1, <1>2 DEF Shapes, Questions
<1>4. TablesOK
  BY <1>2 DEF TablesOK, Returned
<1>5. StackOK
  BY <1>1, NullPlace DEF StackOK
<1>6. AskingOK
  BY <1>1 DEF AskingOK
<1>7. DelegateThere /\ OpeningMade
  BY NullPlace DEF DelegateThere, OpeningMade
<1>8. ReturnedNeverShown /\ ScreensOnTheirTable /\ OverSearch /\ FoundAsAsked
  BY <1>1 DEF ReturnedNeverShown, ScreensOnTheirTable, Opened, OverSearch, FoundAsAsked
<1>9. UnderWay = {}
  BY DEF UnderWay
<1>10. Waited
  BY <1>8, <1>9 DEF Waited, OneUnderWay, InChain
<1> QED
  BY <1>1, <1>3, <1>4, <1>5, <1>6, <1>7, <1>8, <1>10 DEF BrowserInv, TypeOK

LEMMA BrowserInvAlways == Spec => []BrowserInv
BY BrowserInvInit, BrowserInvNext, PTL DEF Spec

(***************************************************************************)
(* What holds for every value of the constants.                            *)
(***************************************************************************)

\* The variables have their types: admin_conf_mgr is never among the tables
\* listed, a condition is only in a row of the display, and the page of a result
\* is one of its rows, or the first of none.
THEOREM BrowserTypes == Spec => []TypeOK
<1>1. BrowserInv => TypeOK
  BY DEF BrowserInv
<1> QED
  BY <1>1, BrowserInvAlways, PTL

\* As long as the user waits for answers, every search screen and every list of
\* switches has the columns and the text of the table in its title.
THEOREM ScreensFit == Spec => []ScreensOnTheirTable
<1>1. BrowserInv => ScreensOnTheirTable
  BY DEF BrowserInv, Waited, ScreensOnTheirTable
<1> QED
  BY <1>1, BrowserInvAlways, PTL

\* As long as the user waits for answers, a result has the rows of the screen
\* under it: of its table, by the conditions it still shows.
THEOREM ResultsFit == Spec => []FoundAsAsked
<1>1. BrowserInv => FoundAsAsked
  BY DEF BrowserInv, Waited, FoundAsAsked
<1> QED
  BY <1>1, BrowserInvAlways, PTL

\* As long as the user waits, no answer reaches a handler that raises an exception;
\* opening the tables raises one only after admin_conf_mgr was made.
THEOREM AnswersReadable == Spec => []AnswersAreReadable
<1>1. BrowserInv => AnswersAreReadable
  BY DEF BrowserInv, Waited, OpeningMade, AnswersAreReadable
<1> QED
  BY <1>1, BrowserInvAlways, PTL

\* However quickly the user taps, no screen is opened with what a request method
\* returned at once.
THEOREM NeverReturned == Spec => []ReturnedNeverShown
<1>1. BrowserInv => ReturnedNeverShown
  BY DEF BrowserInv
<1> QED
  BY <1>1, BrowserInvAlways, PTL
=============================================================================
