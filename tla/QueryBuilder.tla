----------------------------- MODULE QueryBuilder -----------------------------
(***************************************************************************)
(* NewUI/BuildViewController.m, where a query is put together, and         *)
(* MainUI/DatabaseTables/AdminTableConfController.m, the list of switches  *)
(* it opens twice: to choose columns of the table, and to choose the       *)
(* search rule among the columns chosen.  The builder asks the server for  *)
(* the columns of a table; answers go to whoever is the delegate of        *)
(* MySqlServerConnection by then, with the signal id set last, in any      *)
(* order, or never (see ServerConnection).                                 *)
(***************************************************************************)
EXTENDS Texts, Requests

CONSTANTS Table,      \* tables of the connection
          Columns,    \* the column names of each table, in the server's order
          TableNames, \* what the rows of a list of tables hold under "name"
          MaxPieces   \* bound: pieces of a text

\* What lists of names and lists of tables are joined to.
Texts == Seq((UNION {Pieces(Columns[t]) : t \in Table}) \cup Pieces(TableNames))

Query(t, columns, rule) == [table |-> t, columns |-> columns, rule |-> rule]

ASSUME BuilderAssumption ==
    /\ Null \notin Table \cup {"main", "builder", "criteria"}
    /\ Null \notin [table : Table, columns : Texts, rule : Texts]
    /\ DOMAIN Columns = Table
    /\ \A t \in Table : /\ Columns[t] \in Seq(Seq(Pieces(Columns[t])))
                         /\ \A i \in DOMAIN Columns[t] : Columns[t][i] # <<>>
    /\ TableNames \in Seq(Seq(Pieces(TableNames)))
    /\ MaxPieces \in Nat

VARIABLES screen,                  \* what is on top
          saved,                   \* the query as the file has it, or Null
          m_defaultInformation,    \* it is being edited, and not another made
          edt_tableName,           \* the text fields; Null and <<>> are empty
          edt_columns,
          edt_searchRule,
          selectedTableName,       \* the table the wheel was turned to
          m_selectedTableColumns,  \* what the last answer brought, or Null
          picker,                  \* the AdminTableConfController on top
          hurried,                 \* history: a tap came before an answer
          foreign,                 \* history: a builder opened before one
          lost                     \* history: an answer did not come

fields    == <<edt_tableName, edt_columns, edt_searchRule, selectedTableName,
               m_selectedTableColumns>>
builder   == <<m_defaultInformation, fields, picker>>
builderVars == <<screen, saved, builder, asking, hurried, foreign, lost>>

(***************************************************************************)
(* What an answer holds.                                                   *)
(***************************************************************************)
\* objectForKey:@"name" of each row an answer holds: a row of a saved query has
\* no such key.  A table that is not there has no columns.
NamesOf(answer) ==
    IF answer = Null THEN <<>>
    ELSE CASE answer.what = "columns" -> IF answer.of = Null THEN <<>>
                                         ELSE Columns[answer.of]
           [] answer.what = "tables"  -> TableNames
           [] answer.what = "rows"    -> <<(<<>>)>>

(***************************************************************************)
(* The screens come and go.                                                *)
(***************************************************************************)
NoPicker == [typeId |-> 0, m_columnArray |-> <<>>, selectedItemArray |-> <<>>,
             on |-> <<>>]

NoBuilder ==
    /\ m_defaultInformation' = FALSE
    /\ edt_tableName' = Null /\ edt_columns' = <<>> /\ edt_searchRule' = <<>>
    /\ selectedTableName' = Null /\ m_selectedTableColumns' = Null
    /\ picker' = NoPicker

InitBuilder ==
    /\ screen = "main" /\ saved = Null
    /\ m_defaultInformation = FALSE
    /\ edt_tableName = Null /\ edt_columns = <<>> /\ edt_searchRule = <<>>
    /\ selectedTableName = Null /\ m_selectedTableColumns = Null
    /\ picker = NoPicker
    /\ InitRequests("main")
    /\ hurried = FALSE /\ foreign = FALSE /\ lost = FALSE

\* On the main screen: a tap on the connection, to make the query (signal id
\* 0), or on its accessory, to edit it (1).  Other queries are other rows.
AskForBuilder ==
    /\ screen = "main"
    /\ Ask("main", IF saved = Null THEN 0 ELSE 1, Asks("tables", Null))
    /\ UNCHANGED <<screen, saved, builder>>

\* The main screen's recivedDataArray:::, setInformations::, setUpdateQueryItem:
\* and the builder's viewDidLoad.  A second builder over one that is open is
\* left to MainScreen, and so is one that is given no tables.
OpenBuilder(r) ==
    /\ screen = "main" /\ delegate = "main" /\ pending[r].what = "tables"
    /\ screen' = "builder"
    /\ m_defaultInformation' = (signal_id = 1)
    /\ IF signal_id = 1
       THEN /\ edt_tableName' = saved.table
            /\ AskNext(r, "builder", 1, Asks("columns", saved.table))
       ELSE /\ Served(r)
            /\ UNCHANGED <<edt_tableName, delegate, signal_id>>
    /\ foreign' = (foreign \/ UnderWay # {r})
    /\ UNCHANGED <<saved, edt_columns, edt_searchRule, selectedTableName,
                   m_selectedTableColumns, picker>>

CloseBuilder ==
    /\ screen' = "main" /\ NoBuilder
    /\ Gone("builder") /\ UNCHANGED <<pending, signal_id>>

LeaveBuilder == screen = "builder" /\ CloseBuilder /\ UNCHANGED saved

\* An exception nobody catches ends the app; it is started again.
Exception ==
    /\ screen' = "main" /\ NoBuilder
    /\ NoRequests("main") /\ UNCHANGED saved

(***************************************************************************)
(* The builder.                                                            *)
(***************************************************************************)

\* Mutant: the fields that depend on the table stay.
SelectTableOnly ==
    /\ screen = "builder"
    /\ \E t \in Table \cup {selectedTableName} :
          /\ selectedTableName' = t
          /\ IF t # Null /\ t = edt_tableName
             THEN UNCHANGED <<edt_tableName, edt_columns, edt_searchRule, asking>>
             ELSE /\ edt_tableName' = t
                  /\ UNCHANGED <<edt_columns, edt_searchRule>>
                  /\ Ask("builder", 0, Asks("columns", t))
    /\ UNCHANGED <<screen, saved, m_defaultInformation, m_selectedTableColumns,
                   picker>>

\* The wheel is turned, or left where it was, and onSelectTable: is tapped.
SelectTable ==
    /\ screen = "builder"
    /\ \E t \in Table \cup {selectedTableName} :
          /\ selectedTableName' = t
          /\ IF t # Null /\ t = edt_tableName
             THEN UNCHANGED <<edt_tableName, edt_columns, edt_searchRule, asking>>
             ELSE /\ edt_tableName' = t
                  /\ edt_columns' = <<>> /\ edt_searchRule' = <<>>
                  /\ Ask("builder", 0, Asks("columns", t))
    /\ UNCHANGED <<screen, saved, m_defaultInformation, m_selectedTableColumns,
                   picker>>

\* Mutant: setConfData: only sets the switches.
PickerWithoutSelection(type, names, conf) ==
    [typeId |-> type, m_columnArray |-> names, selectedItemArray |-> <<>>,
     on |-> [i \in DOMAIN names |-> conf # <<>> /\ Contains(Split(conf), names[i])]]

\* setType:, setInfoData::, setConfData: and the switches of the rows.  An
\* empty text is not given to setConfData:.
PickerFor(type, names, conf) ==
    LET chosen == IF conf = <<>> THEN <<>> ELSE Split(conf) IN
    [typeId |-> type, m_columnArray |-> names, selectedItemArray |-> chosen,
     on |-> [i \in DOMAIN names |-> Contains(chosen, names[i])]]

\* textFieldShouldBeginEditing: of the columns, and of the rule.
OpenPicker ==
    /\ screen = "builder"
    /\ \/ /\ edt_tableName # Null
          /\ picker' = PickerFor(0, NamesOf(m_selectedTableColumns), edt_columns)
       \/ /\ edt_columns # <<>>
          /\ picker' = PickerFor(1, Split(edt_columns), edt_searchRule)
    /\ screen' = "picker"
    /\ UNCHANGED <<saved, m_defaultInformation, fields, asking>>

\* onBuild: inserts or updates a row, or fails to and tells nobody.
Build ==
    /\ screen = "builder"
    /\ edt_tableName # Null /\ edt_columns # <<>> /\ edt_searchRule # <<>>
    /\ saved' \in {saved, Query(edt_tableName, edt_columns, edt_searchRule)}
    /\ CloseBuilder

(***************************************************************************)
(* The picker.                                                             *)
(***************************************************************************)
Chosen == picker.selectedItemArray

Select(names, i) ==
    picker' = [picker EXCEPT !.selectedItemArray = names,
                             !.on = [picker.on EXCEPT ![i] = ~@]]

\* onChangeValue: with the switch turned on; nil cannot be added to an array.
SwitchOn(i) ==
    /\ screen = "picker" /\ ~picker.on[i]
    /\ LET name == picker.m_columnArray[i] IN
          IF name = <<>> THEN Exception
          ELSE /\ Len(Joined(Chosen)) + Len(name) <= MaxPieces
               /\ Select(Append(Chosen, name), i)
               /\ UNCHANGED <<screen, saved, m_defaultInformation, fields, asking>>

\* onChangeValue: with the switch turned off.  The loop removes the name from
\* the array it runs over: unless that was the last element, the next round
\* raises an exception.
SwitchOff(i) ==
    /\ screen = "picker" /\ picker.on[i]
    /\ LET name == picker.m_columnArray[i]
           at   == SelectInSeq(Chosen, LAMBDA n : n = name)
       IN  IF at \notin {0, Len(Chosen)} THEN Exception
           ELSE /\ Select(IF at = 0 THEN Chosen ELSE Front(Chosen), i)
                /\ UNCHANGED <<screen, saved, m_defaultInformation, fields, asking>>

LeavePicker ==
    /\ screen = "picker" /\ screen' = "builder" /\ picker' = NoPicker
    /\ UNCHANGED <<saved, m_defaultInformation, fields, asking>>

\* Mutant: new columns leave the rule as it was.
TakeKeepsRule(type, text) ==
    IF type = 0 THEN edt_columns' = text /\ UNCHANGED edt_searchRule
    ELSE edt_searchRule' = text /\ UNCHANGED edt_columns

\* AdminTableConfControllerDelegate_Data::
Take(type, text) ==
    IF type = 0
    THEN /\ edt_columns' = text
         /\ edt_searchRule' = IF text = edt_columns THEN edt_searchRule ELSE <<>>
    ELSE edt_searchRule' = text /\ UNCHANGED edt_columns

\* onSave
SavePicker ==
    /\ screen = "picker" /\ screen' = "builder" /\ picker' = NoPicker
    /\ Take(picker.typeId, Joined(Chosen))
    /\ UNCHANGED <<saved, m_defaultInformation, edt_tableName, selectedTableName,
                   m_selectedTableColumns, asking>>

BuilderTap ==
    \/ AskForBuilder \/ SelectTable \/ OpenPicker \/ Build \/ LeaveBuilder
    \/ \E i \in DOMAIN picker.on : SwitchOn(i) \/ SwitchOff(i)
    \/ SavePicker \/ LeavePicker

(***************************************************************************)
(* The answers.                                                            *)
(***************************************************************************)
\* recivedDataArray:::, also while the picker is on top.
BuilderReceives(r) ==
    /\ delegate = "builder" /\ r \in UnderWay
    /\ m_selectedTableColumns' = pending[r]
    /\ IF signal_id = 1
       THEN edt_columns' = saved.columns /\ edt_searchRule' = saved.rule
       ELSE UNCHANGED <<edt_columns, edt_searchRule>>
    /\ Served(r)
    /\ UNCHANGED <<screen, saved, m_defaultInformation, edt_tableName,
                   selectedTableName, picker, delegate, signal_id>>

\* Screens that are gone, and the main screen under another one or with rows
\* that are not tables: what it opens then is left to MainScreen.
OthersReceive(r) ==
    /\ r \in UnderWay
    /\ \/ delegate = Null
       \/ delegate = "main" /\ (screen # "main" \/ pending[r].what # "tables")
    /\ Served(r)
    /\ UNCHANGED <<screen, saved, builder, delegate, signal_id>>

\* Dropped, or empty: recivedDataArray::: returns at once.
Drop(r) ==
    /\ r \in UnderWay
    /\ Served(r)
    /\ UNCHANGED <<screen, saved, builder, delegate, signal_id>>

(***************************************************************************)
(* Properties.                                                             *)
(***************************************************************************)
IsTable == Table \cup {Null}

BuilderTypeOK ==
    /\ saved = Null \/ /\ saved.table \in Table
                       /\ {saved.columns, saved.rule} \subseteq Texts
    /\ {edt_tableName, selectedTableName} \subseteq IsTable
    /\ {edt_columns, edt_searchRule, Joined(Chosen)} \subseteq Texts
    /\ {Len(edt_columns), Len(edt_searchRule), Len(Joined(Chosen))}
          \subseteq 0..MaxPieces
    /\ picker.typeId \in {0, 1}
    /\ DOMAIN picker.on = DOMAIN picker.m_columnArray
    /\ signal_id \in {0, 1}
    /\ {m_defaultInformation, hurried, foreign, lost} \subseteq BOOLEAN
    /\ foreign => hurried

Within(rule, columns) == ToSet(rule) \subseteq ToSet(columns)

\* The search rule never names a column the query does not show: the rule is
\* chosen among the columns and emptied with every change of them, whatever is
\* answered late or lost, so long as a builder opens with no request under way.
RuleWithinColumns ==
    ~foreign => /\ Within(edt_searchRule, edt_columns)
                /\ saved # Null => Within(saved.rule, saved.columns)

\* If the user waits and every answer comes, the builder's columns are columns
\* of the table above them, and so are those of the saved query.
ColumnsOfTable ==
    ~hurried /\ ~lost =>
        /\ edt_columns # <<>> => ToSet(edt_columns) \subseteq
                                     Pieces(Columns[edt_tableName])
        /\ saved # Null => ToSet(saved.columns) \subseteq
                               Pieces(Columns[saved.table])

\* The switches tell what the picker will save: a column is on exactly when its
\* name is among those chosen, however often switches were turned.  A name with
\* commas, chosen before, is not recognised again: its switch is off then, and
\* it is not among those chosen, which are its pieces.
SwitchesTell ==
    screen = "picker" =>
        \A i \in DOMAIN picker.on :
            LET name == picker.m_columnArray[i] IN
            (\A j \in DOMAIN picker.on \ {i} : picker.m_columnArray[j] # name)
            => (picker.on[i] <=> name \in ToSet(Chosen))
=============================================================================
