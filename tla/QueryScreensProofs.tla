-------------------------- MODULE QueryScreensProofs --------------------------
(***************************************************************************)
(* Proofs about QueryScreens, for every set of tables and of column names, *)
(* every window and every bound.                                           *)
(*                                                                         *)
(* QueryInv has what holds of any user: the types, which screen is on top  *)
(* of what (Layers), and what the switches tell.  Untouched is what holds  *)
(* so long as no builder opened with another request under way, Waited     *)
(* what holds if the user waits, Offered if every answer comes as well.    *)
(***************************************************************************)
EXTENDS QueryScreens, TextsProofs

Letters == (UNION {Pieces(Columns[t]) : t \in Table}) \cup Pieces(TableNames)
Short   == {text \in Texts : Len(text) <= MaxPieces}
Queries == [table : Table, columns : Short, rule : Short]
Asked   == {Asks("tables", Null)} \cup [what : {"columns"}, of : IsTable]
           \cup [what : {"rows"}, of : SUBSET Nat]
Pickers == [typeId : {0, 1}, m_columnArray : Seq(Texts), selectedItemArray : Seq(Texts),
            on : Seq(BOOLEAN)]

AskTypes ==
    /\ pending \in [Req -> Asked \cup {Nothing}]
    /\ delegate \in {"main", "builder", "criteria", Null}
    /\ signal_id \in {0, 1}
    /\ {hurried, foreign, lost, m_defaultInformation} \subseteq BOOLEAN

FieldTypes ==
    /\ screen \in {"main", "builder", "picker", "criteria"}
    /\ saved \in Queries \cup {Null}
    /\ edt_tableName \in IsTable /\ selectedTableName \in IsTable
    /\ edt_columns \in Short /\ edt_searchRule \in Short
    /\ m_selectedTableColumns \in Asked \cup {Null}

PickerTypes ==
    /\ picker \in Pickers
    /\ Len(picker.on) = Len(picker.m_columnArray)
    /\ Joined(Chosen) \in Short

CriteriaTypes ==
    /\ m_columns \in Texts /\ typed \subseteq 1..Len(m_columns) /\ top \in 0..RowsOff

ResultRecords == [of : Asked, rows : Nat, page : Nat]
Result(s)     == s \in ResultRecords /\ s.page \in 0..(s.rows - 1)
ResultTypes   ==
    /\ results \in Seq(ResultRecords)
    /\ Len(results) <= MaxResults
    /\ \A i \in 1..Len(results) : Result(results[i])

\* Which screen is over which, and what the fields of a closed one hold.
Blank == /\ edt_columns = <<>> /\ edt_searchRule = <<>>
         /\ m_selectedTableColumns = Null
Layers ==
    /\ signal_id = 1 => saved # Null
    /\ results # <<>> => screen = "criteria"
    /\ delegate = "builder" => screen \in {"builder", "picker"}
    /\ delegate = "criteria" => screen = "criteria"
    /\ screen \in {"main", "criteria"} => Blank /\ edt_tableName = Null
    /\ screen # "picker" => picker = NoPicker
    /\ screen = "criteria" => saved # Null

\* A builder that opened alone: until the columns of the query it edits come
\* there is nothing to choose from, and what is chosen for a rule is a column.
OneUnderWay == \A p, q \in UnderWay : p = q
Fresh(p)    == p.m_columnArray = <<>> /\ p.selectedItemArray = <<>> /\ p.typeId = 0
NamedOf(p)  == PiecesOfEach(p.m_columnArray) \cup PiecesOfEach(p.selectedItemArray)
Named       == NamedOf(picker)

Untouched ==
    ~foreign =>
        /\ RuleWithinColumns
        /\ delegate = "builder" /\ signal_id = 1 /\ UnderWay # {} =>
              OneUnderWay /\ Blank /\ Fresh(picker)
        /\ picker.typeId = 1 => Named \subseteq ToSet(edt_columns) /\ edt_columns # <<>>

\* If the user waits, where the one request under way was made.
ChainOf(request) ==
    \/ request.what = "tables" /\ delegate = "main" /\ screen = "main"
    \/ /\ request.what = "columns" /\ delegate = "builder" /\ screen = "builder"
       /\ request.of = edt_tableName /\ edt_columns = <<>>
       /\ signal_id = 1 => edt_tableName = saved.table
    \/ /\ request.what = "rows" /\ delegate = "criteria" /\ screen = "criteria"
       /\ results = <<>> /\ request.of = typed \cap Visible

InChain == \A r \in UnderWay : ChainOf(pending[r])

Waited == ~hurried => OneUnderWay /\ InChain /\ ResultsMeetConditions /\ ~foreign

\* If every answer comes too, the builder offers the columns of its table.
OfTable == Pieces(Columns[edt_tableName])
Offered ==
    ~hurried /\ ~lost =>
        /\ ColumnsOfTable
        /\ screen \in {"builder", "picker"} /\ UnderWay = {} /\ edt_tableName # Null =>
              m_selectedTableColumns = Asks("columns", edt_tableName)
        /\ screen = "picker" /\ picker.typeId = 0 => Named \subseteq OfTable

QueryInv ==
    /\ AskTypes /\ FieldTypes /\ PickerTypes /\ CriteriaTypes /\ ResultTypes
    /\ Layers /\ SwitchesTell /\ Untouched /\ Waited /\ Offered

-----------------------------------------------------------------------------
(***************************************************************************)
(* Texts and lists of names.                                               *)
(***************************************************************************)
LEMMA TextsAre ==
    /\ Texts = Seq(Letters) /\ <<>> \in Texts /\ <<>> \in Short /\ Len(<<>>) = 0
    /\ <<>> \in Seq(Texts) /\ Joined(<<>>) = <<>> /\ ToSet(<<>>) = {}
<1>1. Texts = Seq(Letters)
  BY DEF Texts, Letters
<1>2. <<>> \in Seq(Letters) /\ <<>> \in Seq(Texts) /\ Len(<<>>) = 0
  BY <1>1, EmptySeq
<1>3. Joined(<<>>) = <<>>
  BY <1>2, JoinedFlattens
<1>4. ToSet(<<>>) = {}
  BY <1>2, LenProperties DEF ToSet
<1>5. <<>> \in Short
  BY <1>1, <1>2, BuilderAssumption DEF Short
<1> QED
  BY <1>1, <1>2, <1>3, <1>4, <1>5

LEMMA NamesAreTexts ==
    ASSUME NEW S, S \subseteq Letters, NEW names \in Seq(Seq(S))
    PROVE  names \in Seq(Texts)
<1>1. \A text \in Seq(S) : text \in Seq(Letters)
  BY SeqMonotonic
<1>2. Seq(S) \subseteq Texts
  BY <1>1, TextsAre
<1> QED
  BY <1>2, SeqMonotonic

LEMMA NamePieces ==
    Pieces(TableNames) \subseteq Letters /\ \A t \in Table : Pieces(Columns[t]) \subseteq Letters
  BY DEF Letters

LEMMA ColumnNames ==
    ASSUME NEW t \in Table
    PROVE  /\ Columns[t] \in Seq(Texts)
           /\ PiecesOfEach(Columns[t]) = Pieces(Columns[t])
<1>1. Columns[t] \in Seq(Seq(Pieces(Columns[t])))
  BY BuilderAssumption
<1>2. Pieces(Columns[t]) \subseteq Letters
  BY DEF Letters
<1>3. Columns[t] \in Seq(Texts)
  BY <1>1, <1>2, NamesAreTexts
<1>4. ToSet(Joined(Columns[t])) = PiecesOfEach(Columns[t])
  BY <1>1, JoinedPieces
<1> QED
  BY <1>3, <1>4 DEF Pieces

LEMMA NoPieces == PiecesOfEach(<<>>) = {}
  BY TextsAre DEF PiecesOfEach

\* What a picker offers are texts, whatever the builder was answered.
LEMMA AnswerNames ==
    ASSUME NEW answer \in Asked \cup {Null}
    PROVE  /\ NamesOf(answer) \in Seq(Texts)
           /\ answer = Null => NamesOf(answer) = <<>>
           /\ \A t \in Table : answer = Asks("columns", t) =>
                 PiecesOfEach(NamesOf(answer)) \subseteq Pieces(Columns[t])
<1>1. CASE answer = Null
  <2>1. NamesOf(answer) = <<>>
    BY <1>1 DEF NamesOf
  <2> QED
    BY <1>1, <2>1, TextsAre, NoPieces
<1>2. CASE answer # Null /\ answer.what = "columns"
  <2>1. answer.of \in Table \cup {Null}
    BY <1>2 DEF Asked, Asks, IsTable
  <2>2. CASE answer.of = Null
    <3>1. NamesOf(answer) = <<>>
      BY <1>2, <2>2 DEF NamesOf
    <3> QED
      BY <1>2, <3>1, TextsAre, NoPieces
  <2>3. CASE answer.of # Null
    <3>1. NamesOf(answer) = Columns[answer.of] /\ answer.of \in Table
      BY <1>2, <2>1, <2>3 DEF NamesOf
    <3>2. \A t \in Table : answer = Asks("columns", t) => answer.of = t
      BY DEF Asks
    <3> QED
      BY <1>2, <3>1, <3>2, ColumnNames
  <2> QED
    BY <2>2, <2>3
<1>3. CASE answer # Null /\ answer.what = "tables"
  <2>1. NamesOf(answer) = TableNames
    BY <1>3 DEF NamesOf
  <2>2. Pieces(TableNames) \subseteq Letters
    BY NamePieces
  <2>3. TableNames \in Seq(Texts)
    BY <2>2, BuilderAssumption, NamesAreTexts
  <2> QED
    BY <1>3, <2>1, <2>3 DEF Asks
<1>4. CASE answer # Null /\ answer.what = "rows"
  <2>1. NamesOf(answer) = Append(<<>>, <<>>)
    BY <1>4 DEF NamesOf
  <2>2. Append(<<>>, <<>>) \in Seq(Texts)
    BY TextsAre, AppendProperties
  <2> QED
    BY <1>4, <2>1, <2>2 DEF Asks
<1> QED
  BY <1>1, <1>2, <1>3, <1>4 DEF Asked, Asks

\* The picker as it is opened.
LEMMA SameLength ==
    ASSUME NEW m \in Nat, NEW n \in Nat, 1..m = 1..n
    PROVE  m = n
  OBVIOUS

LEMMA PickerOpens ==
    ASSUME NEW type \in {0, 1}, NEW names \in Seq(Texts), NEW conf \in Short
    PROVE  LET p == PickerFor(type, names, conf) IN
           /\ p \in Pickers /\ Len(p.on) = Len(p.m_columnArray)
           /\ p.typeId = type /\ p.m_columnArray = names
           /\ Joined(p.selectedItemArray) = conf
           /\ PiecesOfEach(p.selectedItemArray) \subseteq ToSet(conf)
           /\ conf = <<>> => p.selectedItemArray = <<>>
           /\ \A i \in 1..Len(names) : p.on[i] <=> names[i] \in ToSet(p.selectedItemArray)
<1> DEFINE chosen == IF conf = <<>> THEN <<>> ELSE Split(conf)
           on     == [i \in DOMAIN names |-> Contains(chosen, names[i])]
           p      == PickerFor(type, names, conf)
<1>1. conf \in Seq(Letters) /\ conf \in Texts
  BY TextsAre DEF Short
<1>2. /\ chosen \in Seq(Texts) /\ Joined(chosen) = conf
      /\ PiecesOfEach(chosen) \subseteq ToSet(conf)
  <2>1. CASE conf = <<>>
    BY <2>1, TextsAre, NoPieces
  <2>2. CASE conf # <<>>
    <3>1. /\ Split(conf) \in Seq(Seq(Letters)) /\ Joined(Split(conf)) = conf
          /\ \A i \in 1..Len(Split(conf)) : ToSet(Split(conf)[i]) \subseteq ToSet(conf)
      BY <1>1, SplitNames, JoinedSplit
    <3>2. PiecesOfEach(Split(conf)) \subseteq ToSet(conf)
      BY <3>1 DEF PiecesOfEach
    <3> QED
      BY <2>2, <3>1, <3>2, TextsAre
  <2> QED
    BY <2>1, <2>2
<1> HIDE DEF chosen
<1>3. Len(names) \in Nat /\ DOMAIN names = 1..Len(names)
  BY LenProperties
<1>4. \A i \in 1..Len(names) : /\ on[i] <=> names[i] \in ToSet(chosen)
                               /\ on[i] \in BOOLEAN
  <2>1. \A i \in 1..Len(names) : on[i] = Contains(chosen, names[i])
    BY <1>3
  <2>2. \A x : Contains(chosen, x) \in BOOLEAN
    BY DEF Contains
  <2> QED
    BY <1>2, <2>1, <2>2, ContainsIsIn
<1>5. on \in Seq(BOOLEAN) /\ Len(on) = Len(names)
  <2>1. on \in [1..Len(names) -> BOOLEAN]
    BY <1>3, <1>4
  <2>2. on \in Seq(BOOLEAN)
    BY <1>3, <2>1, SeqDef
  <2>3. DOMAIN on = 1..Len(on) /\ Len(on) \in Nat
    BY <2>2, LenProperties
  <2>4. DOMAIN on = 1..Len(names)
    BY <1>3
  <2> HIDE DEF on
  <2>5. Len(on) = Len(names)
    BY <1>3, <2>3, <2>4, SameLength
  <2> QED
    BY <2>2, <2>5
<1>6. p = [typeId |-> type, m_columnArray |-> names, selectedItemArray |-> chosen, on |-> on]
  BY DEF PickerFor, chosen
<1> HIDE DEF on, p
<1>7. /\ p \in Pickers /\ p.typeId = type /\ p.m_columnArray = names
      /\ p.selectedItemArray = chosen /\ p.on = on
  BY <1>2, <1>5, <1>6 DEF Pickers
<1>8. conf = <<>> => chosen = <<>>
  BY DEF chosen
<1> QED
  BY <1>2, <1>4, <1>5, <1>7, <1>8 DEF p

-----------------------------------------------------------------------------
(***************************************************************************)
(* What the steps do.                                                      *)
(***************************************************************************)
Tapped == hurried' = (hurried \/ ~Idle) /\ foreign' = foreign /\ lost' = lost

\* A switch is turned: its name, and no other, comes among those chosen or goes.
Selects(i, names) ==
    /\ i \in 1..Len(picker.on) /\ screen = "picker"
    /\ names \in Seq(Texts) /\ Joined(names) \in Short
    /\ PiecesOfEach(names) \subseteq Named
    /\ picker.m_columnArray[i] \in ToSet(names) <=> ~picker.on[i]
    /\ \A x : x # picker.m_columnArray[i] => (x \in ToSet(names) <=> x \in ToSet(Chosen))
    /\ Select(names, i)
    /\ UNCHANGED <<screen, saved, m_defaultInformation, fields, asking>>

Leaves ==
    /\ screen = "builder" /\ CloseBuilder
    /\ \/ saved' = saved
       \/ /\ edt_tableName # Null /\ edt_columns # <<>>
          /\ saved' = Query(edt_tableName, edt_columns, edt_searchRule)

BuilderKind ==
    \/ AskForBuilder \/ SelectTable \/ OpenPicker \/ Leaves
    \/ screen = "picker" /\ Exception
    \/ \E i, names : Selects(i, names)
    \/ SavePicker \/ LeavePicker

TurnsTo(page) ==
    /\ page \in 0..(results[Len(results)].rows - 1)
    /\ results' = [results EXCEPT ![Len(results)].page = page]

Pages ==
    /\ results # <<>>
    /\ results' = Front(results) \/ \E page : TurnsTo(page)
    /\ UNCHANGED <<screen, saved, builder, asking, criteria>>

CriteriaKind ==
    \/ OpenCriteria \/ CloseCriteria \/ Scroll \/ ExecuteQuery
    \/ \E i \in 1..Len(m_columns) : Type(i)
    \/ Pages

LEMMA PickerNames ==
    ASSUME PickerTypes
    PROVE  /\ Chosen \in Seq(Texts) /\ picker.m_columnArray \in Seq(Texts)
           /\ picker.on \in Seq(BOOLEAN)
           /\ DOMAIN picker.on = 1..Len(picker.on) /\ Len(picker.on) \in Nat
           /\ DOMAIN picker.m_columnArray = 1..Len(picker.on)
           /\ \A i \in 1..Len(picker.on) : /\ picker.on[i] \in BOOLEAN
                                           /\ picker.m_columnArray[i] \in Texts
<1>1. /\ Chosen \in Seq(Texts) /\ picker.m_columnArray \in Seq(Texts)
      /\ picker.on \in Seq(BOOLEAN) /\ Len(picker.on) = Len(picker.m_columnArray)
  BY DEF PickerTypes, Pickers, Chosen
<1> QED
  BY <1>1, LenProperties, ElementOfSeq

LEMMA TurnedOn ==
    ASSUME PickerTypes, NEW i \in 1..Len(picker.on), SwitchOn(i)
    PROVE  Exception \/ \E names : Selects(i, names)
<1> DEFINE name  == picker.m_columnArray[i]
           names == Append(Chosen, name)
<1>1. /\ Chosen \in Seq(Texts) /\ name \in Texts /\ picker.on[i] \in BOOLEAN
      /\ ~picker.on[i] /\ screen = "picker"
  BY PickerNames DEF SwitchOn
<1>2. CASE name = <<>>
  BY <1>2 DEF SwitchOn
<1>3. CASE name # <<>>
  <2>1. /\ Len(Joined(Chosen)) + Len(name) <= MaxPieces
        /\ Select(names, i)
        /\ UNCHANGED <<screen, saved, m_defaultInformation, fields, asking>>
    BY <1>3 DEF SwitchOn
  <2>2. name \in ToSet(picker.m_columnArray)
    BY PickerNames DEF ToSet
  <2>3. ToSet(name) \subseteq PiecesOfEach(picker.m_columnArray)
    <3>1. i \in 1..Len(picker.m_columnArray)
      BY DEF PickerTypes
    <3> QED
      BY <3>1 DEF PiecesOfEach
  <2> HIDE DEF name
  <2>4. /\ names \in Seq(Texts) /\ Len(names) = Len(Chosen) + 1 /\ Len(Chosen) \in Nat
        /\ \A j \in 1..Len(Chosen) : names[j] = Chosen[j]
        /\ names[Len(Chosen) + 1] = name
    BY <1>1, AppendProperties, LenProperties
  <2>5. Joined(names) \in Short
    <3>1. Chosen \in Seq(Seq(Letters)) /\ name \in Seq(Letters)
      BY <1>1, TextsAre
    <3>2. Joined(names) = Joined(Chosen) \o name /\ Joined(Chosen) \in Seq(Letters)
      BY <3>1, JoinedLonger, JoinedPieces
    <3> DEFINE text == Joined(Chosen)
    <3> HIDE DEF text
    <3>3. text \o name \in Seq(Letters) /\ Len(text \o name) = Len(text) + Len(name)
      BY <3>1, <3>2, ConcatProperties DEF text
    <3> QED
      BY <2>1, <3>2, <3>3, TextsAre DEF Short, text
  <2>6. /\ DOMAIN names = 1..Len(Chosen) + 1 /\ DOMAIN Chosen = 1..Len(Chosen)
    BY <1>1, <2>4, LenProperties
  <2> HIDE DEF names
  <2>7. \A x : x \in ToSet(names) <=> x \in ToSet(Chosen) \/ x = name
    <3>1. 1..Len(Chosen) + 1 = 1..Len(Chosen) \cup {Len(Chosen) + 1}
      BY <2>4
    <3> QED
      BY <2>4, <2>6, <3>1 DEF ToSet
  <2>8. PiecesOfEach(names) \subseteq Named
    <3> SUFFICES ASSUME NEW x, x \in PiecesOfEach(names) PROVE x \in Named
      OBVIOUS
    <3>1. PICK j \in 1..Len(names) : x \in ToSet(names[j])
      BY PieceOfOne
    <3>2. CASE j = Len(Chosen) + 1
      BY <2>3, <2>4, <3>1, <3>2 DEF Named, NamedOf, Chosen
    <3>3. CASE j # Len(Chosen) + 1
      <4>1. j \in 1..Len(Chosen) /\ names[j] = Chosen[j]
        BY <2>4, <3>1, <3>3
      <4>2. x \in PiecesOfEach(Chosen)
        BY <3>1, <4>1, PieceOfOne
      <4> QED
        BY <4>2 DEF Named, NamedOf, Chosen
    <3> QED
      BY <3>2, <3>3
  <2>9. Selects(i, names)
    BY <1>1, <2>1, <2>4, <2>5, <2>7, <2>8 DEF Selects, name
  <2> QED
    BY <2>9
<1> QED
  BY <1>2, <1>3

LEMMA TurnedOff ==
    ASSUME PickerTypes, NEW i \in 1..Len(picker.on), SwitchOff(i)
    PROVE  Exception \/ \E names : Selects(i, names)
<1> DEFINE name == picker.m_columnArray[i]
<1> PICK at : at = Place(Chosen, name)
  OBVIOUS
<1>1. /\ Chosen \in Seq(Texts) /\ picker.on[i] /\ screen = "picker" /\ Joined(Chosen) \in Short
  BY PickerNames DEF SwitchOff, PickerTypes
<1>2. /\ at = 0 => name \notin ToSet(Chosen)
      /\ at # 0 => /\ at \in 1..Len(Chosen) /\ Chosen[at] = name
                   /\ \A j \in 1..Len(Chosen) : j < at => Chosen[j] # name
  BY <1>1, FirstPlace
<1>3. \/ Exception
      \/ /\ at \in {0, Len(Chosen)}
         /\ Select(IF at = 0 THEN Chosen ELSE Front(Chosen), i)
         /\ UNCHANGED <<screen, saved, m_defaultInformation, fields, asking>>
  BY DEF SwitchOff, Place
<1>4. CASE /\ at = 0 /\ Select(Chosen, i)
           /\ UNCHANGED <<screen, saved, m_defaultInformation, fields, asking>>
  <2>1. Selects(i, Chosen)
    BY <1>1, <1>2, <1>4 DEF Selects, Named, NamedOf, Chosen
  <2> QED
    BY <2>1
<1>5. CASE /\ at # 0 /\ at = Len(Chosen) /\ Select(Front(Chosen), i)
           /\ UNCHANGED <<screen, saved, m_defaultInformation, fields, asking>>
  <2> DEFINE names == Front(Chosen)
  <2>1. Chosen # <<>>
    BY <1>2, <1>5, TextsAre
  <2>2. /\ names \in Seq(Texts) /\ Len(Chosen) \in Nat \ {0}
        /\ Len(names) = Len(Chosen) - 1
        /\ \A j \in 1..Len(Chosen) - 1 : names[j] = Chosen[j]
    BY <1>1, <2>1, FrontAndLast
  <2>3. Joined(names) \in Short
    <3>1. Chosen \in Seq(Seq(Letters)) /\ names \in Seq(Seq(Letters))
      BY <1>1, <2>2, TextsAre
    <3>2. Joined(names) \in Texts /\ Len(Joined(names)) <= Len(Joined(Chosen))
      BY <2>1, <3>1, JoinedPieces, JoinedFront, TextsAre
    <3>3. Len(Joined(names)) \in Nat /\ Len(Joined(Chosen)) \in Nat
      BY <1>1, <3>2, LenProperties, TextsAre DEF Short
    <3> QED
      BY <1>1, <3>2, <3>3, BuilderAssumption DEF Short
  <2>4. DOMAIN names = 1..Len(names) /\ DOMAIN Chosen = 1..Len(Chosen)
    BY <1>1, <2>2, LenProperties
  <2>5. Select(names, i)
    BY <1>5
  <2> HIDE DEF names
  <2>6. name \notin ToSet(names)
    <3>1. \A j \in 1..Len(names) : j \in 1..Len(Chosen) /\ j < at /\ names[j] = Chosen[j]
      BY <1>5, <2>2
    <3> QED
      BY <1>2, <1>5, <2>4, <3>1 DEF ToSet
  <2>7. \A x : x # name => (x \in ToSet(names) <=> x \in ToSet(Chosen))
    <3>1. ASSUME NEW x, x # name
          PROVE  (\E j \in 1..Len(names) : names[j] = x) <=>
                    (\E j \in 1..Len(Chosen) : Chosen[j] = x)
      <4>1. ASSUME NEW j \in 1..Len(Chosen), Chosen[j] = x
            PROVE  j \in 1..Len(names)
        BY <1>2, <1>5, <2>2, <3>1, <4>1
      <4>2. \A j \in 1..Len(names) : j \in 1..Len(Chosen) /\ names[j] = Chosen[j]
        BY <2>2
      <4> QED
        BY <4>1, <4>2
    <3> QED
      BY <2>4, <3>1 DEF ToSet
  <2>8. PiecesOfEach(names) \subseteq Named
    <3> SUFFICES ASSUME NEW x, x \in PiecesOfEach(names) PROVE x \in PiecesOfEach(Chosen)
      BY DEF Named, NamedOf, Chosen
    <3>1. PICK j \in 1..Len(names) : x \in ToSet(names[j])
      BY PieceOfOne
    <3>2. j \in 1..Len(Chosen) /\ names[j] = Chosen[j]
      BY <2>2, <3>1
    <3> QED
      BY <3>1, <3>2, PieceOfOne
  <2>9. Selects(i, names)
    BY <1>1, <1>5, <2>2, <2>3, <2>5, <2>6, <2>7, <2>8 DEF Selects
  <2> QED
    BY <2>9
<1> QED
  BY <1>3, <1>4, <1>5

LEMMA StepKinds ==
    ASSUME QueryInv, Next
    PROVE  \/ Tapped /\ BuilderKind /\ UNCHANGED screenVars
           \/ Tapped /\ CriteriaKind
           \/ hurried' = hurried /\ \E r \in Req : Answer(r)
<1>1. CASE (\E r \in Req : Answer(r)) /\ UNCHANGED hurried
  BY <1>1
<1>2. CASE Tap /\ hurried' = (hurried \/ ~Idle) /\ UNCHANGED <<foreign, lost>>
  <2>0. Tapped
    BY <1>2 DEF Tapped
  <2>1. CASE BuilderTap /\ UNCHANGED screenVars
    <3>1. ASSUME Build \/ LeaveBuilder PROVE Leaves
      BY <3>1 DEF Build, LeaveBuilder, Leaves
    <3>2. ASSUME NEW i \in DOMAIN picker.on, SwitchOn(i) \/ SwitchOff(i)
          PROVE  (screen = "picker" /\ Exception) \/ \E names : Selects(i, names)
      BY <3>2, PickerNames, TurnedOn, TurnedOff DEF QueryInv, SwitchOn, SwitchOff
    <3>3. BuilderKind
      BY <2>1, <3>1, <3>2 DEF BuilderTap, BuilderKind
    <3> QED
      BY <2>0, <2>1, <3>3
  <2>2. CASE OpenCriteria \/ CloseCriteria \/ Scroll \/ ExecuteQuery
    BY <2>0, <2>2 DEF CriteriaKind
  <2>3. CASE \E i \in DOMAIN m_columns : Type(i)
    <3>1. DOMAIN m_columns = 1..Len(m_columns)
      BY TextsAre, LenProperties DEF QueryInv, CriteriaTypes
    <3> QED
      BY <2>0, <2>3, <3>1 DEF CriteriaKind
  <2>4. CASE GotoBefore \/ GotoNext \/ CloseResult
    <3>1. /\ results # <<>> => Result(Seen)
      <4>1. results # <<>> => Len(results) \in 1..Len(results)
        BY LenProperties, EmptySeq DEF QueryInv, ResultTypes
      <4> QED
        BY <4>1 DEF QueryInv, ResultTypes, Seen
    <3>2. CASE GotoBefore
      <4>1. Seen.page - 1 \in 0..(Seen.rows - 1)
        BY <3>1, <3>2 DEF GotoBefore, Result, ResultRecords
      <4>2. TurnsTo(Seen.page - 1)
        BY <3>2, <4>1 DEF GotoBefore, Turn, TurnsTo, Seen
      <4>3. Pages
        BY <3>2, <4>2 DEF GotoBefore, Turn, Pages
      <4> QED
        BY <2>0, <4>3 DEF CriteriaKind
    <3>3. CASE GotoNext
      <4>1. Seen.page + 1 \in 0..(Seen.rows - 1)
        BY <3>1, <3>3 DEF GotoNext, Result, ResultRecords
      <4>2. TurnsTo(Seen.page + 1)
        BY <3>3, <4>1 DEF GotoNext, Turn, TurnsTo, Seen
      <4>3. Pages
        BY <3>3, <4>2 DEF GotoNext, Turn, Pages
      <4> QED
        BY <2>0, <4>3 DEF CriteriaKind
    <3>4. CASE CloseResult
      <4>1. Pages
        BY <3>4 DEF CloseResult, Pages
      <4> QED
        BY <2>0, <4>1 DEF CriteriaKind
    <3> QED
      BY <2>4, <3>2, <3>3, <3>4
  <2> QED
    BY <1>2, <2>1, <2>2, <2>3, <2>4 DEF Tap
<1> QED
  BY <1>1, <1>2 DEF Next

\* The kinds of an answer.
LEMMA AnswerKinds ==
    ASSUME NEW r \in Req, Answer(r)
    PROVE  \/ OpenBuilder(r) /\ lost' = lost /\ UNCHANGED screenVars
           \/ /\ BuilderReceives(r) \/ OthersReceive(r)
              /\ foreign' = foreign /\ lost' = lost /\ UNCHANGED screenVars
           \/ CriteriaReceives(r) /\ foreign' = foreign /\ lost' = lost
           \/ Drop(r) /\ lost' = TRUE /\ foreign' = foreign /\ UNCHANGED screenVars
  BY DEF Answer

-----------------------------------------------------------------------------
(***************************************************************************)
(* The requests under way.                                                 *)
(***************************************************************************)
LEMMA IdleAsks ==
    ASSUME AskTypes, Idle, NEW who, NEW sig, NEW request, Ask(who, sig, request),
           request # Nothing
    PROVE  /\ OneUnderWay' /\ UnderWay' # {}
           /\ \A q \in UnderWay' : pending'[q] = request
<1>1. PICK r \in Req : pending' = [pending EXCEPT ![r] = request]
  BY DEF Ask
<1>2. \A q \in Req : pending'[q] = IF q = r THEN request ELSE Nothing
  BY <1>1 DEF AskTypes, Idle, UnderWay
<1>3. UnderWay' = {r}
  BY <1>2 DEF UnderWay, Nothing, Asks
<1> QED
  BY <1>2, <1>3 DEF OneUnderWay

LEMMA StaysIdle ==
    ASSUME Idle, pending' = pending \/ NoRequests("main")
    PROVE  UnderWay' = {}
  BY DEF Idle, UnderWay, NoRequests, Nothing, Asks

LEMMA ServedLess ==
    ASSUME AskTypes, NEW r \in Req, Served(r)
    PROVE  /\ UnderWay' = UnderWay \ {r}
           /\ \A q \in UnderWay' : pending'[q] = pending[q]
  BY DEF AskTypes, Served, UnderWay, Nothing, Asks

LEMMA NextAlone ==
    ASSUME AskTypes, NEW r \in Req, UnderWay = {r}, NEW who, NEW sig, NEW request,
           AskNext(r, who, sig, request), request # Nothing
    PROVE  UnderWay' = {r} /\ pending'[r] = request
<1>1. \A q \in Req : pending'[q] = IF q = r THEN request ELSE Nothing
  BY DEF AskTypes, AskNext, UnderWay
<1> QED
  BY <1>1 DEF UnderWay, Nothing, Asks

-----------------------------------------------------------------------------
(***************************************************************************)
(* The types.                                                              *)
(***************************************************************************)
LEMMA AsksTyped ==
    /\ Asks("tables", Null) \in Asked
    /\ \A t \in IsTable : Asks("columns", t) \in Asked
    /\ \A rows \in SUBSET Nat : Asks("rows", rows) \in Asked
    /\ Nothing \notin Asked
    /\ \A request \in Asked : request.what \in {"tables", "columns", "rows"}
  BY DEF Asked, Asks, Nothing

LEMMA AskTypesNext ==
    ASSUME QueryInv, Next
    PROVE  AskTypes'
<1>1. /\ {hurried, foreign, lost, m_defaultInformation}' \subseteq BOOLEAN
  <2>1. {hurried, foreign, lost, m_defaultInformation} \subseteq BOOLEAN
    BY DEF QueryInv, AskTypes
  <2>2. hurried' \in BOOLEAN
    BY <2>1 DEF Next
  <2>3. foreign' \in BOOLEAN /\ lost' \in BOOLEAN
    <3>1. ASSUME NEW r \in Req, Answer(r)
          PROVE  foreign' \in BOOLEAN /\ lost' \in BOOLEAN
      BY <2>1, <3>1, AnswerKinds DEF OpenBuilder
    <3> QED
      BY <2>1, <3>1 DEF Next
  <2>4. m_defaultInformation' \in BOOLEAN
    <3>1. CASE BuilderKind
      BY <2>1, <3>1 DEF BuilderKind, builder, AskForBuilder, SelectTable, OpenPicker,
         Leaves, CloseBuilder, NoBuilder, Exception, Selects, SavePicker, LeavePicker
    <3>2. CASE CriteriaKind
      BY <2>1, <3>2 DEF CriteriaKind, builder, OpenCriteria, CloseCriteria, Scroll,
         ExecuteQuery, Type, Pages
    <3>3. ASSUME NEW r \in Req, Answer(r)
          PROVE  m_defaultInformation' \in BOOLEAN
      BY <2>1, <3>3, AnswerKinds DEF builder, OpenBuilder, BuilderReceives,
         OthersReceive, CriteriaReceives, Drop
    <3> QED
      BY <3>1, <3>2, <3>3, StepKinds
  <2> QED
    BY <2>2, <2>3, <2>4
<1> DEFINE Typed(p, d, s) == /\ p \in [Req -> Asked \cup {Nothing}]
                             /\ d \in {"main", "builder", "criteria", Null}
                             /\ s \in {0, 1}
<1> SUFFICES Typed(pending', delegate', signal_id')
  BY <1>1 DEF AskTypes
<1>2. Typed(pending, delegate, signal_id)
  BY DEF QueryInv, AskTypes
<1>3. ASSUME NEW who \in {"main", "builder", "criteria"}, NEW sig \in {0, 1},
             NEW request \in Asked, Ask(who, sig, request)
      PROVE  Typed(pending', delegate', signal_id')
  BY <1>2, <1>3 DEF Ask, Address
<1>4. CASE UNCHANGED asking
  BY <1>2, <1>4 DEF asking
<1>5. CASE BuilderKind
  <2>1. CASE AskForBuilder
    BY <1>3, <2>1, AsksTyped DEF AskForBuilder
  <2>2. CASE SelectTable
    <3>1. PICK t \in Table \cup {selectedTableName} :
             UNCHANGED asking \/ Ask("builder", 0, Asks("columns", t))
      BY <2>2 DEF SelectTable
    <3>2. Asks("columns", t) \in Asked
      BY AsksTyped DEF QueryInv, FieldTypes, IsTable
    <3> QED
      BY <1>3, <1>4, <3>1, <3>2
  <2>3. CASE OpenPicker \/ SavePicker \/ LeavePicker \/ \E i, names : Selects(i, names)
    BY <1>4, <2>3 DEF OpenPicker, SavePicker, LeavePicker, Selects
  <2>4. CASE Leaves
    BY <1>2, <2>4 DEF Leaves, CloseBuilder, Gone
  <2>5. CASE Exception
    BY <2>5 DEF Exception, NoRequests
  <2> QED
    BY <1>5, <2>1, <2>2, <2>3, <2>4, <2>5 DEF BuilderKind
<1>6. CASE CriteriaKind
  <2>1. CASE CloseCriteria
    BY <1>2, <2>1 DEF CloseCriteria, Gone
  <2>2. CASE ExecuteQuery
    <3>1. typed \cap Visible \in SUBSET Nat
      <4>1. Len(m_columns) \in Nat /\ typed \subseteq 1..Len(m_columns)
        BY LenProperties, TextsAre DEF QueryInv, CriteriaTypes
      <4>2. typed \subseteq Nat
        BY <4>1
      <4> QED
        BY <4>2
    <3>2. Asks("rows", typed \cap Visible) \in Asked
      BY <3>1, AsksTyped
    <3> QED
      BY <1>3, <2>2, <3>2 DEF ExecuteQuery
  <2> QED
    BY <1>4, <1>6, <2>1, <2>2 DEF CriteriaKind, OpenCriteria, Scroll, Type, Pages
<1>7. ASSUME NEW r \in Req, Answer(r)
      PROVE  Typed(pending', delegate', signal_id')
  <2>1. CASE Served(r) /\ UNCHANGED <<delegate, signal_id>>
    BY <1>2, <2>1 DEF Served
  <2>2. CASE OpenBuilder(r)
    <3>1. CASE signal_id = 1
      <4>1. saved.table \in Table
        BY <3>1 DEF QueryInv, Layers, FieldTypes, Queries
      <4>2. Asks("columns", saved.table) \in Asked
        BY <4>1, AsksTyped DEF IsTable
      <4>3. AskNext(r, "builder", 1, Asks("columns", saved.table))
        BY <2>2, <3>1 DEF OpenBuilder
      <4> QED
        BY <1>2, <4>2, <4>3 DEF AskNext, Address
    <3>2. CASE signal_id # 1
      BY <2>1, <2>2, <3>2 DEF OpenBuilder
    <3> QED
      BY <3>1, <3>2
  <2> QED
    BY <1>7, <2>1, <2>2, AnswerKinds DEF BuilderReceives, OthersReceive,
       CriteriaReceives, Drop
<1> QED
  BY <1>5, <1>6, <1>7, StepKinds

LEMMA ShortTexts ==
    ASSUME NEW text \in Short
    PROVE  text \in Texts /\ text \in Seq(Letters) /\ Len(text) \in 0..MaxPieces
  BY TextsAre, LenProperties, BuilderAssumption DEF Short

LEMMA FieldTypesNext ==
    ASSUME QueryInv, Next
    PROVE  FieldTypes'
<1> DEFINE Now == <<screen, saved, edt_tableName, edt_columns, edt_searchRule,
                    selectedTableName, m_selectedTableColumns>>
<1>1. FieldTypes /\ AskTypes /\ PickerTypes
  BY DEF QueryInv
<1>2. Null \in IsTable /\ <<>> \in Short
  BY TextsAre DEF IsTable
<1>3. CASE UNCHANGED <<saved, edt_tableName, edt_columns, edt_searchRule,
                       selectedTableName, m_selectedTableColumns>>
           /\ screen' \in {"main", "builder", "picker", "criteria"}
  BY <1>1, <1>3 DEF FieldTypes
<1>4. CASE BuilderKind
  <2>1. CASE AskForBuilder \/ OpenPicker \/ LeavePicker \/ \E i, names : Selects(i, names)
    BY <1>1, <1>3, <2>1 DEF AskForBuilder, OpenPicker, LeavePicker, Selects, builder, fields,
       FieldTypes
  <2>2. CASE SelectTable
    <3>1. Table \cup {selectedTableName} \subseteq IsTable
      BY <1>1 DEF FieldTypes, IsTable
    <3> QED
      BY <1>1, <1>2, <2>2, <3>1 DEF SelectTable, FieldTypes
  <2>3. CASE Exception
    BY <1>1, <1>2, <2>3 DEF Exception, NoBuilder, FieldTypes
  <2>4. CASE Leaves
    <3>1. saved' \in Queries \cup {Null}
      BY <1>1, <2>4 DEF Leaves, Query, Queries, FieldTypes, IsTable
    <3> QED
      BY <1>2, <2>4, <3>1 DEF Leaves, CloseBuilder, NoBuilder, FieldTypes
  <2>5. CASE SavePicker
    <3>1. edt_columns' \in Short /\ edt_searchRule' \in Short
      BY <1>1, <1>2, <2>5 DEF SavePicker, Take, FieldTypes, PickerTypes
    <3> QED
      BY <1>1, <2>5, <3>1 DEF SavePicker, FieldTypes
  <2> QED
    BY <1>4, <2>1, <2>2, <2>3, <2>4, <2>5 DEF BuilderKind
<1>5. CASE CriteriaKind
  BY <1>1, <1>3, <1>5 DEF CriteriaKind, OpenCriteria, CloseCriteria, Scroll, ExecuteQuery,
     Type, Pages, builder, fields, FieldTypes
<1>6. ASSUME NEW r \in Req, Answer(r)
      PROVE  FieldTypes'
  <2>1. CASE OpenBuilder(r)
    <3>1. edt_tableName' \in IsTable
      BY <1>1, <2>1 DEF OpenBuilder, FieldTypes, IsTable, Queries, QueryInv, Layers
    <3> QED
      BY <1>1, <2>1, <3>1 DEF OpenBuilder, FieldTypes
  <2>2. CASE BuilderReceives(r)
    <3>1. m_selectedTableColumns' \in Asked
      BY <1>1, <2>2 DEF BuilderReceives, AskTypes, UnderWay
    <3>2. edt_columns' \in Short /\ edt_searchRule' \in Short
      BY <1>1, <2>2 DEF BuilderReceives, FieldTypes, Queries, QueryInv, Layers
    <3> QED
      BY <1>1, <2>2, <3>1, <3>2 DEF BuilderReceives, FieldTypes
  <2>3. CASE OthersReceive(r) \/ CriteriaReceives(r) \/ Drop(r)
    BY <1>1, <1>3, <2>3 DEF OthersReceive, CriteriaReceives, Drop, builder, fields, FieldTypes
  <2> QED
    BY <1>6, <2>1, <2>2, <2>3, AnswerKinds
<1> QED
  BY <1>4, <1>5, <1>6, StepKinds

LEMMA NoPickerTyped ==
    /\ NoPicker \in Pickers /\ Len(NoPicker.on) = Len(NoPicker.m_columnArray)
    /\ Joined(NoPicker.selectedItemArray) \in Short /\ NoPicker.typeId = 0
    /\ PiecesOfEach(NoPicker.m_columnArray) = {}
    /\ PiecesOfEach(NoPicker.selectedItemArray) = {}
  BY TextsAre, NoPieces, EmptySeq DEF NoPicker, Pickers

LEMMA Selected ==
    ASSUME PickerTypes, NEW i, NEW names, Selects(i, names)
    PROVE  /\ picker' \in Pickers /\ Len(picker'.on) = Len(picker.on)
           /\ picker'.m_columnArray = picker.m_columnArray
           /\ picker'.typeId = picker.typeId
           /\ picker'.selectedItemArray = names
           /\ \A j \in 1..Len(picker.on) : picker'.on[j] = IF j = i THEN ~picker.on[j]
                                                           ELSE picker.on[j]
<1> DEFINE on == [picker.on EXCEPT ![i] = ~picker.on[i]]
<1>1. picker' = [picker EXCEPT !.selectedItemArray = names, !.on = on]
  BY DEF Selects, Select
<1>2. on \in Seq(BOOLEAN) /\ Len(on) = Len(picker.on)
  <2>1. i \in 1..Len(picker.on) /\ (~picker.on[i]) \in BOOLEAN /\ picker.on \in Seq(BOOLEAN)
    BY PickerNames DEF Selects
  <2> QED
    BY <2>1, ExceptSeq
<1>3. \A j \in 1..Len(picker.on) : on[j] = IF j = i THEN ~picker.on[j] ELSE picker.on[j]
  BY PickerNames DEF Selects
<1> HIDE DEF on
<1>4. picker \in Pickers /\ names \in Seq(Texts)
  BY DEF PickerTypes, Selects
<1> QED
  BY <1>1, <1>2, <1>3, <1>4 DEF Pickers

\* The picker that opens over the builder.
LEMMA Opened ==
    ASSUME FieldTypes, OpenPicker
    PROVE  \E type \in {0, 1}, names \in Seq(Texts), conf \in Short :
               /\ picker' = PickerFor(type, names, conf)
               /\ \/ /\ type = 0 /\ names = NamesOf(m_selectedTableColumns)
                     /\ conf = edt_columns /\ edt_tableName # Null
                  \/ /\ type = 1 /\ names = Split(edt_columns) /\ conf = edt_searchRule
                     /\ edt_columns # <<>>
<1>1. NamesOf(m_selectedTableColumns) \in Seq(Texts)
  BY AnswerNames DEF FieldTypes
<1>2. edt_columns \in Short /\ edt_searchRule \in Short
  BY DEF FieldTypes
<1>3. edt_columns # <<>> => Split(edt_columns) \in Seq(Texts)
  BY <1>2, ShortTexts, SplitNames, TextsAre
<1> QED
  BY <1>1, <1>2, <1>3 DEF OpenPicker

LEMMA PickerTypesNext ==
    ASSUME QueryInv, Next
    PROVE  PickerTypes'
<1> DEFINE Typed(p) == /\ p \in Pickers /\ Len(p.on) = Len(p.m_columnArray)
                       /\ Joined(p.selectedItemArray) \in Short
<1> SUFFICES Typed(picker')
  BY DEF PickerTypes, Chosen
<1>1. PickerTypes /\ FieldTypes /\ Typed(picker)
  BY DEF QueryInv, PickerTypes, Chosen
<1>2. CASE UNCHANGED picker \/ picker' = NoPicker
  BY <1>1, <1>2, NoPickerTyped
<1>3. CASE \E i, names : Selects(i, names)
  BY <1>1, <1>3, Selected DEF Selects
<1>4. CASE OpenPicker
  BY <1>1, <1>4, Opened, PickerOpens
<1>5. CASE BuilderKind
  BY <1>2, <1>3, <1>4, <1>5 DEF BuilderKind, builder, AskForBuilder, SelectTable, Leaves,
     CloseBuilder, NoBuilder, Exception, SavePicker, LeavePicker
<1>6. CASE CriteriaKind
  BY <1>2, <1>6 DEF CriteriaKind, builder, OpenCriteria, CloseCriteria, Scroll,
     ExecuteQuery, Type, Pages
<1>7. ASSUME NEW r \in Req, Answer(r)
      PROVE  Typed(picker')
  BY <1>2, <1>7, AnswerKinds DEF builder, OpenBuilder, BuilderReceives, OthersReceive,
     CriteriaReceives, Drop
<1> QED
  BY <1>5, <1>6, <1>7, StepKinds

LEMMA NoRows ==
    ASSUME NEW columns \in Texts
    PROVE  Len(columns) \in Nat /\ DOMAIN columns = 1..Len(columns)
  BY TextsAre, LenProperties

LEMMA RowsOffIsNat ==
    ASSUME CriteriaTypes
    PROVE  RowsOff \in Nat /\ (Len(m_columns) + 5 <= Window => RowsOff = 0)
<1>1. Len(m_columns) \in Nat /\ Window \in Nat
  BY NoRows, ScreensAssumption DEF CriteriaTypes
<1> QED
  BY <1>1 DEF RowsOff

LEMMA CriteriaTypesNext ==
    ASSUME QueryInv, Next
    PROVE  CriteriaTypes'
<1>1. CriteriaTypes /\ FieldTypes /\ Layers
  BY DEF QueryInv
<1>2. CASE UNCHANGED <<m_columns, typed, top>>
  BY <1>1, <1>2 DEF CriteriaTypes, RowsOff
<1>3. CASE OpenCriteria \/ CloseCriteria
  <2>1. m_columns' \in Texts /\ typed' = {} /\ top' = 0
    BY <1>1, <1>3, TextsAre, ShortTexts DEF OpenCriteria, CloseCriteria, FieldTypes, Queries
  <2>2. Len(m_columns') \in Nat /\ Window \in Nat
    BY <2>1, NoRows, ScreensAssumption
  <2>3. RowsOff' \in Nat
    BY <2>2 DEF RowsOff
  <2> QED
    BY <2>1, <2>3 DEF CriteriaTypes
<1>4. CASE Scroll
  BY <1>1, <1>4 DEF Scroll, CriteriaTypes, RowsOff
<1>5. CASE \E i \in 1..Len(m_columns) : Type(i)
  BY <1>1, <1>5 DEF Type, CriteriaTypes, RowsOff
<1>6. CASE CriteriaKind
  BY <1>2, <1>3, <1>4, <1>5, <1>6 DEF CriteriaKind, ExecuteQuery, Pages, screenVars, criteria
<1>7. ASSUME NEW r \in Req, Answer(r)
      PROVE  CriteriaTypes'
  BY <1>2, <1>7, AnswerKinds DEF CriteriaReceives, screenVars, criteria
<1> QED
  BY <1>2, <1>6, <1>7, StepKinds DEF screenVars, criteria

LEMMA ResultTypesNext ==
    ASSUME QueryInv, Next
    PROVE  ResultTypes'
<1>1. /\ ResultTypes /\ AskTypes /\ results \in Seq(ResultRecords) /\ Len(results) \in Nat
      /\ MaxResults \in Nat /\ MaxRows \in Nat
  BY LenProperties, ScreensAssumption DEF QueryInv, ResultTypes
<1>2. CASE UNCHANGED results
  BY <1>1, <1>2 DEF ResultTypes
<1>3. CASE Pages
  <2>1. results # <<>> /\ Len(results) \in 1..Len(results)
    BY <1>1, <1>3, EmptySeq DEF Pages
  <2>2. CASE results' = Front(results)
    <3>1. /\ results' \in Seq(ResultRecords) /\ Len(results') = Len(results) - 1
          /\ \A i \in 1..Len(results) - 1 : results'[i] = results[i]
      BY <1>1, <2>1, <2>2, FrontAndLast
    <3>2. \A i \in 1..Len(results') : i \in 1..Len(results) /\ results'[i] = results[i]
      BY <1>1, <3>1
    <3>3. \A i \in 1..Len(results') : Result(results'[i])
      BY <1>1, <3>2 DEF ResultTypes
    <3> QED
      BY <1>1, <3>1, <3>3 DEF ResultTypes, Result
  <2>3. CASE \E page : TurnsTo(page)
    <3>1. PICK page : TurnsTo(page)
      BY <2>3
    <3> DEFINE n == Len(results)
               x == [results[n] EXCEPT !.page = page]
    <3>2. results[n] \in ResultRecords /\ page \in 0..(results[n].rows - 1) /\ page \in Nat
      <4>1. results[n] \in ResultRecords
        BY <1>1, <2>1, ElementOfSeq
      <4>2. results[n].rows \in Nat
        BY <4>1 DEF ResultRecords
      <4> QED
        BY <3>1, <4>1, <4>2 DEF TurnsTo
    <3>3. x \in ResultRecords /\ Result(x)
      BY <3>2 DEF Result, ResultRecords
    <3>4. results' = [results EXCEPT ![n] = x]
      BY <3>1 DEF TurnsTo
    <3> HIDE DEF x
    <3>5. /\ results' \in Seq(ResultRecords) /\ Len(results') = Len(results)
          /\ \A i \in 1..Len(results) : results'[i] = IF i = n THEN x ELSE results[i]
      BY <1>1, <2>1, <3>3, <3>4, ExceptSeq
    <3>6. \A i \in 1..Len(results') : Result(results'[i])
      BY <1>1, <3>3, <3>5 DEF ResultTypes
    <3> QED
      BY <1>1, <3>5, <3>6 DEF ResultTypes, Result
  <2> QED
    BY <1>3, <2>2, <2>3 DEF Pages
<1>4. CASE CriteriaKind
  BY <1>2, <1>3, <1>4 DEF CriteriaKind, OpenCriteria, CloseCriteria, Scroll, ExecuteQuery,
     Type, screenVars
<1>5. ASSUME NEW r \in Req, CriteriaReceives(r)
      PROVE  ResultTypes'
  <2>1. CASE UNCHANGED results
    BY <1>2, <2>1
  <2>2. CASE ~ UNCHANGED results
    <3>1. PICK n \in 1..MaxRows : results' = Append(results, Shown(pending[r], n, 0))
      BY <1>5, <2>2 DEF CriteriaReceives
    <3> DEFINE x == Shown(pending[r], n, 0)
    <3>2. pending[r] \in Asked /\ n \in Nat /\ Len(results) < MaxResults
      BY <1>1, <1>5, <2>2 DEF CriteriaReceives, AskTypes, UnderWay
    <3>3. x \in ResultRecords /\ Result(x)
      BY <3>2 DEF Shown, Result, ResultRecords
    <3> HIDE DEF x
    <3>4. /\ results' \in Seq(ResultRecords) /\ Len(results') = Len(results) + 1
          /\ \A i \in 1..Len(results) : results'[i] = results[i]
          /\ results'[Len(results) + 1] = x
      BY <1>1, <3>1, <3>3, AppendProperties DEF x
    <3>5. \A i \in 1..Len(results') : i \in 1..Len(results) \/ i = Len(results) + 1
      BY <1>1, <3>4
    <3>6. \A i \in 1..Len(results') : Result(results'[i])
      BY <1>1, <3>3, <3>4, <3>5 DEF ResultTypes
    <3> QED
      BY <1>1, <3>2, <3>4, <3>6 DEF ResultTypes, Result
  <2> QED
    BY <2>1, <2>2
<1>6. ASSUME NEW r \in Req, Answer(r)
      PROVE  ResultTypes'
  BY <1>2, <1>5, <1>6, AnswerKinds DEF screenVars
<1> QED
  BY <1>2, <1>4, <1>6, StepKinds DEF screenVars

-----------------------------------------------------------------------------
(***************************************************************************)
(* Which screen is on top of which.                                        *)
(***************************************************************************)
LEMMA QueriesAreNotNull ==
    ASSUME FieldTypes, edt_tableName # Null
    PROVE  Query(edt_tableName, edt_columns, edt_searchRule) # Null
<1>1. edt_tableName \in Table /\ edt_columns \in Texts /\ edt_searchRule \in Texts
  BY ShortTexts DEF FieldTypes, IsTable
<1>2. Query(edt_tableName, edt_columns, edt_searchRule)
         \in [table : Table, columns : Texts, rule : Texts]
  BY <1>1 DEF Query
<1> QED
  BY <1>2, BuilderAssumption

LEMMA LayersNext ==
    ASSUME QueryInv, Next
    PROVE  Layers'
<1>1. Layers /\ FieldTypes /\ AskTypes
  BY DEF QueryInv
<1>2. Null \notin {"main", "builder", "criteria"}
  BY BuilderAssumption
<1>3. CASE BuilderKind /\ UNCHANGED screenVars
  <2>1. CASE AskForBuilder
    BY <1>1, <1>2, <1>3, <2>1 DEF AskForBuilder, Ask, Address, Layers, Blank, builder, fields,
       screenVars
  <2>2. CASE SelectTable
    <3>1. /\ screen = "builder" /\ screen' = "builder" /\ results' = results
          /\ picker' = picker /\ saved' = saved
          /\ signal_id' = signal_id \/ signal_id' = 0
          /\ delegate' = delegate \/ delegate' = "builder"
      BY <1>3, <2>2 DEF SelectTable, Ask, Address, asking, screenVars
    <3> QED
      BY <1>1, <1>2, <3>1 DEF Layers
  <2>3. CASE OpenPicker
    <3>1. /\ screen = "builder" /\ screen' = "picker" /\ results' = results
          /\ saved' = saved /\ signal_id' = signal_id /\ delegate' = delegate
      BY <1>3, <2>3 DEF OpenPicker, asking, screenVars
    <3> QED
      BY <1>1, <1>2, <3>1 DEF Layers
  <2>4. CASE Leaves
    <3>1. /\ screen = "builder" /\ screen' = "main" /\ results' = results
          /\ picker' = NoPicker /\ signal_id' = signal_id
          /\ Blank' /\ edt_tableName' = Null /\ delegate' # "builder"
          /\ delegate' # "criteria"
      BY <1>1, <1>2, <1>3, <2>4 DEF Layers, Leaves, CloseBuilder, NoBuilder, Gone, Blank, screenVars
    <3>2. saved # Null => saved' # Null
      BY <1>1, <2>4, QueriesAreNotNull DEF Leaves
    <3> QED
      BY <1>1, <3>1, <3>2 DEF Layers
  <2>5. CASE screen = "picker" /\ Exception
    <3>1. /\ screen' = "main" /\ picker' = NoPicker /\ signal_id' = 0
          /\ Blank' /\ edt_tableName' = Null /\ delegate' = "main" /\ screen = "picker"
      BY <2>5 DEF Exception, NoBuilder, NoRequests, Blank
    <3>2. screen \in {"main", "builder", "picker"} => results' = <<>>
      BY <1>1, <1>3 DEF Layers, screenVars
    <3> QED
      BY <1>1, <1>3, <3>1, <3>2 DEF Layers
  <2>6. CASE \E i, names : Selects(i, names)
    <3>1. /\ screen = "picker" /\ screen' = "picker" /\ results' = results
          /\ saved' = saved /\ signal_id' = signal_id /\ delegate' = delegate
      BY <1>3, <2>6 DEF Selects, asking, screenVars
    <3> QED
      BY <1>1, <1>2, <3>1 DEF Layers
  <2>7. CASE SavePicker \/ LeavePicker
    <3>1. /\ screen = "picker" /\ screen' = "builder" /\ results' = results
          /\ saved' = saved /\ signal_id' = signal_id /\ picker' = NoPicker
          /\ delegate' = delegate
      BY <1>3, <2>7 DEF SavePicker, LeavePicker, asking, screenVars
    <3> QED
      BY <1>1, <1>2, <3>1 DEF Layers
  <2> QED
    BY <1>3, <2>1, <2>2, <2>3, <2>4, <2>5, <2>6, <2>7 DEF BuilderKind
<1>4. CASE CriteriaKind
  <2>1. UNCHANGED <<saved, builder>>
    BY <1>4 DEF CriteriaKind, OpenCriteria, CloseCriteria, Scroll, ExecuteQuery, Type, Pages
  <2>2. CASE OpenCriteria \/ CloseCriteria
    <3>1. /\ screen' \in {"main", "criteria"} /\ screen \in {"main", "criteria"}
          /\ screen' = "criteria" => saved # Null
          /\ results = <<>> /\ results' = <<>> /\ signal_id' = signal_id
          /\ delegate' # "builder" /\ (delegate' = "criteria" => screen' = "criteria")
      BY <1>1, <1>2, <2>2 DEF OpenCriteria, CloseCriteria, OnCriteria, Gone, asking, Layers
    <3> QED
      BY <1>1, <2>1, <3>1 DEF Layers, Blank, builder, fields
  <2>3. CASE ExecuteQuery
    <3>1. /\ screen' = "criteria" /\ screen = "criteria" /\ signal_id' = 1
          /\ delegate' # "builder"
      BY <2>3 DEF ExecuteQuery, OnCriteria, Ask, Address
    <3> QED
      BY <1>1, <2>1, <3>1 DEF Layers, Blank, builder, fields
  <2>4. CASE Scroll \/ (\E i \in 1..Len(m_columns) : Type(i)) \/ Pages
    <3>1. screen' = "criteria" /\ screen = "criteria" /\ UNCHANGED asking
      BY <1>1, <2>4 DEF Scroll, Type, Pages, OnCriteria, Layers
    <3> QED
      BY <1>1, <2>1, <3>1 DEF Layers, Blank, builder, fields, asking
  <2> QED
    BY <1>4, <2>2, <2>3, <2>4 DEF CriteriaKind
<1>5. ASSUME NEW r \in Req, Answer(r)
      PROVE  Layers'
  <2>1. CASE OpenBuilder(r) /\ UNCHANGED screenVars
    <3>1. /\ screen = "main" /\ screen' = "builder" /\ results' = results
          /\ saved' = saved /\ signal_id' = signal_id /\ picker' = picker
          /\ delegate' = delegate \/ delegate' = "builder"
      BY <2>1 DEF OpenBuilder, AskNext, Address, screenVars
    <3> QED
      BY <1>1, <1>2, <3>1 DEF Layers
  <2>2. CASE BuilderReceives(r) /\ UNCHANGED screenVars
    <3>1. /\ screen \in {"builder", "picker"} /\ screen' = screen /\ results' = results
          /\ saved' = saved /\ signal_id' = signal_id /\ picker' = picker
          /\ delegate' = delegate
      BY <1>1, <2>2 DEF BuilderReceives, screenVars, Layers
    <3> QED
      BY <1>1, <1>2, <3>1 DEF Layers
  <2>3. CASE (OthersReceive(r) \/ Drop(r)) /\ UNCHANGED screenVars
    <3>1. UNCHANGED <<screen, saved, builder, delegate, signal_id, results>>
      BY <2>3 DEF OthersReceive, Drop, screenVars
    <3> QED
      BY <1>1, <3>1 DEF Layers, Blank, builder, fields
  <2>4. CASE CriteriaReceives(r)
    <3>1. /\ UNCHANGED <<screen, saved, builder, delegate, signal_id>>
          /\ screen = "criteria"
      BY <1>1, <2>4 DEF CriteriaReceives, Layers
    <3> QED
      BY <1>1, <3>1 DEF Layers, Blank, builder, fields
  <2> QED
    BY <1>5, <2>1, <2>2, <2>3, <2>4, AnswerKinds
<1> QED
  BY <1>3, <1>4, <1>5, StepKinds

-----------------------------------------------------------------------------
(***************************************************************************)
(* The switches.                                                           *)
(***************************************************************************)
SwitchesOf(p) ==
    \A i \in 1..Len(p.on) :
        (\A j \in 1..Len(p.on) \ {i} : p.m_columnArray[j] # p.m_columnArray[i])
        => (p.on[i] <=> p.m_columnArray[i] \in ToSet(p.selectedItemArray))

LEMMA SwitchesSame ==
    ASSUME PickerTypes
    PROVE  SwitchesTell <=> (screen = "picker" => SwitchesOf(picker))
<1>1. DOMAIN picker.on = 1..Len(picker.on)
  BY PickerNames
<1> QED
  BY <1>1 DEF SwitchesTell, SwitchesOf, Chosen

LEMMA SwitchesTellNext ==
    ASSUME QueryInv, Next
    PROVE  SwitchesTell'
<1>1. PickerTypes /\ FieldTypes /\ PickerTypes'
  BY PickerTypesNext DEF QueryInv
<1>2. screen = "picker" => SwitchesOf(picker)
  BY <1>1, SwitchesSame DEF QueryInv
<1> SUFFICES screen' = "picker" => SwitchesOf(picker')
  <2>1. DOMAIN picker'.on = 1..Len(picker'.on)
    BY <1>1, LenProperties DEF PickerTypes, Pickers
  <2> QED
    BY <2>1 DEF SwitchesTell, SwitchesOf, Chosen
<1>3. CASE screen' = screen /\ picker' = picker
  BY <1>2, <1>3
<1>4. CASE screen' # "picker"
  BY <1>4
<1>5. CASE OpenPicker
  <2>1. PICK type \in {0, 1}, names \in Seq(Texts), conf \in Short :
           picker' = PickerFor(type, names, conf)
    BY <1>1, <1>5, Opened
  <2> DEFINE p == PickerFor(type, names, conf)
  <2>2. /\ Len(p.on) = Len(names) /\ p.m_columnArray = names
        /\ \A i \in 1..Len(names) : p.on[i] <=> names[i] \in ToSet(p.selectedItemArray)
    BY PickerOpens
  <2> HIDE DEF p
  <2>3. SwitchesOf(p)
    BY <2>2 DEF SwitchesOf
  <2> QED
    BY <2>1, <2>3 DEF p
<1>6. ASSUME NEW i, NEW names, Selects(i, names)
      PROVE  SwitchesOf(picker')
  <2> DEFINE n == Len(picker.on)
             name == picker.m_columnArray
  <2>1. /\ Len(picker'.on) = n /\ picker'.m_columnArray = name
        /\ picker'.selectedItemArray = names
        /\ \A j \in 1..n : picker'.on[j] = IF j = i THEN ~picker.on[j] ELSE picker.on[j]
    BY <1>1, <1>6, Selected
  <2>2. /\ i \in 1..n /\ screen = "picker"
        /\ name[i] \in ToSet(names) <=> ~picker.on[i]
        /\ \A x : x # name[i] => (x \in ToSet(names) <=> x \in ToSet(Chosen))
    BY <1>6 DEF Selects
  <2>3. ASSUME NEW j \in 1..n, \A k \in 1..n \ {j} : name[k] # name[j]
        PROVE  picker'.on[j] <=> name[j] \in ToSet(names)
    <3>1. CASE j = i
      <4>1. picker'.on[j] = ~picker.on[j]
        BY <2>1, <3>1
      <4> QED
        BY <2>2, <3>1, <4>1
    <3>2. CASE j # i
      <4>1. picker'.on[j] = picker.on[j]
        BY <2>1, <3>2
      <4>2. picker.on[j] <=> name[j] \in ToSet(Chosen)
        BY <1>2, <2>2, <2>3 DEF SwitchesOf, Chosen
      <4>3. name[j] # name[i]
        BY <2>2, <2>3, <3>2
      <4> QED
        BY <2>2, <4>1, <4>2, <4>3
    <3> QED
      BY <3>1, <3>2
  <2> QED
    BY <2>1, <2>3 DEF SwitchesOf
<1>7. CASE BuilderKind
  BY <1>3, <1>4, <1>5, <1>6, <1>7 DEF BuilderKind, builder, AskForBuilder, SelectTable,
     Leaves, CloseBuilder, Exception, SavePicker, LeavePicker
<1>8. CASE CriteriaKind
  BY <1>3, <1>4, <1>8 DEF CriteriaKind, builder, OpenCriteria, CloseCriteria, Scroll,
     ExecuteQuery, Type, Pages
<1>9. ASSUME NEW r \in Req, Answer(r)
      PROVE  screen' = "picker" => SwitchesOf(picker')
  BY <1>3, <1>4, <1>9, AnswerKinds DEF builder, OpenBuilder, BuilderReceives,
     OthersReceive, CriteriaReceives, Drop
<1> QED
  BY <1>7, <1>8, <1>9, StepKinds

-----------------------------------------------------------------------------
(***************************************************************************)
(* Rule and columns, if the builder opened alone.                          *)
(***************************************************************************)
LEMMA PickedPieces ==
    ASSUME PickerTypes
    PROVE  ToSet(Joined(Chosen)) = PiecesOfEach(Chosen)
<1>1. Chosen \in Seq(Seq(Letters))
  BY PickerNames, TextsAre
<1> QED
  BY <1>1, JoinedPieces

\* What is chosen, and what can be, only shrinks to what is on offer.
LEMMA NamedShrinks ==
    ASSUME PickerTypes, NEW i, NEW names, Selects(i, names)
    PROVE  NamedOf(picker') \subseteq Named
  BY Selected DEF Selects, Named, NamedOf, Chosen

RuleOf(rule, columns, query) ==
    /\ Within(rule, columns)
    /\ query # Null => Within(query.rule, query.columns)

LEMMA RuleNext ==
    ASSUME QueryInv, Next, ~foreign'
    PROVE  RuleOf(edt_searchRule', edt_columns', saved')
<1>1. /\ PickerTypes /\ FieldTypes /\ AskTypes /\ Layers /\ ~foreign
      /\ RuleOf(edt_searchRule, edt_columns, saved)
  <2>1. ~foreign
    <3>1. ASSUME NEW r \in Req, Answer(r) PROVE ~foreign
      BY <3>1, AnswerKinds DEF OpenBuilder
    <3> QED
      BY <3>1, StepKinds DEF Tapped
  <2> QED
    BY <2>1 DEF QueryInv, Untouched, RuleWithinColumns, RuleOf
<1>2. CASE UNCHANGED <<edt_searchRule, edt_columns, saved>>
  BY <1>1, <1>2
<1>3. Within(<<>>, <<>>)
  BY DEF Within
<1>4. CASE BuilderKind
  <2>1. CASE SelectTable
    BY <1>1, <1>2, <1>3, <2>1 DEF SelectTable, RuleOf
  <2>2. CASE Leaves
    <3>1. edt_searchRule' = <<>> /\ edt_columns' = <<>>
      BY <2>2 DEF Leaves, CloseBuilder, NoBuilder
    <3>2. saved' # Null => Within(saved'.rule, saved'.columns)
      BY <1>1, <2>2 DEF Leaves, Query, RuleOf
    <3> QED
      BY <1>3, <3>1, <3>2 DEF RuleOf
  <2>3. CASE Exception
    BY <1>1, <1>3, <2>3 DEF Exception, NoBuilder, RuleOf
  <2>4. CASE SavePicker
    <3>1. saved' = saved
      BY <2>4 DEF SavePicker
    <3>2. Within(edt_searchRule', edt_columns')
      <4>1. CASE picker.typeId = 0
        <5>1. Within(<<>>, edt_columns')
          BY TextsAre DEF Within
        <5> QED
          BY <1>1, <2>4, <4>1, <5>1 DEF SavePicker, Take, RuleOf
      <4>2. CASE picker.typeId = 1
        <5>1. edt_searchRule' = Joined(Chosen) /\ edt_columns' = edt_columns
          BY <2>4, <4>2 DEF SavePicker, Take
        <5>2. Named \subseteq ToSet(edt_columns)
          BY <1>1, <4>2 DEF QueryInv, Untouched
        <5> QED
          BY <1>1, <5>1, <5>2, PickedPieces DEF Within, Named, NamedOf, Chosen
      <4> QED
        BY <1>1, <4>1, <4>2 DEF PickerTypes, Pickers
    <3> QED
      BY <1>1, <3>1, <3>2 DEF RuleOf
  <2> QED
    BY <1>2, <1>4, <2>1, <2>2, <2>3, <2>4 DEF BuilderKind, builder, fields, AskForBuilder,
       OpenPicker, LeavePicker, Selects
<1>5. CASE CriteriaKind
  BY <1>2, <1>5 DEF CriteriaKind, builder, fields, OpenCriteria, CloseCriteria, Scroll,
     ExecuteQuery, Type, Pages
<1>6. ASSUME NEW r \in Req, Answer(r)
      PROVE  RuleOf(edt_searchRule', edt_columns', saved')
  <2>1. CASE BuilderReceives(r)
    <3>1. saved' = saved
      BY <2>1 DEF BuilderReceives
    <3>2. signal_id = 1 => saved # Null
      BY <1>1 DEF Layers
    <3> QED
      BY <1>1, <1>2, <2>1, <3>1, <3>2 DEF BuilderReceives, RuleOf
  <2> QED
    BY <1>2, <1>6, <2>1, AnswerKinds DEF builder, fields, OpenBuilder, OthersReceive,
       CriteriaReceives, Drop
<1> QED
  BY <1>4, <1>5, <1>6, StepKinds

\* A builder that edits a query and waits for the columns stays as it opened.
LEMMA EditingNext ==
    ASSUME QueryInv, Next, ~foreign', delegate' = "builder", signal_id' = 1, UnderWay' # {}
    PROVE  OneUnderWay' /\ Blank' /\ Fresh(picker')
<1>1. PickerTypes /\ FieldTypes /\ AskTypes /\ Layers /\ Layers' /\ Untouched
  BY LayersNext DEF QueryInv
<1>2. screen' \in {"builder", "picker"}
  BY <1>1 DEF Layers
<1>3. Null \notin {"main", "builder", "criteria"}
  BY BuilderAssumption
<1>4. Fresh(NoPicker)
  BY DEF Fresh, NoPicker
<1>5. ASSUME foreign' = foreign, UNCHANGED <<delegate, signal_id>>, UnderWay # {}
      PROVE  OneUnderWay /\ Blank /\ Fresh(picker)
  BY <1>1, <1>5 DEF Untouched, OneUnderWay
<1>6. CASE Tapped /\ BuilderKind /\ UNCHANGED asking
  <2>1. UnderWay' = UnderWay /\ OneUnderWay' = OneUnderWay
    BY <1>6 DEF asking, UnderWay, OneUnderWay
  <2>2. OneUnderWay /\ Blank /\ Fresh(picker)
    BY <1>5, <1>6, <2>1 DEF Tapped, asking
  <2>3. CASE UNCHANGED <<fields, picker>>
    BY <2>1, <2>2, <2>3 DEF fields, Blank, Fresh
  <2>4. CASE SelectTable
    <3>1. UNCHANGED <<edt_columns, edt_searchRule, m_selectedTableColumns, picker>>
      BY <2>2, <2>4 DEF SelectTable, Blank
    <3> QED
      BY <2>1, <2>2, <3>1 DEF Blank, Fresh
  <2>5. CASE OpenPicker
    <3>1. Blank'
      BY <2>2, <2>5 DEF OpenPicker, fields, Blank
    <3>2. PICK type \in {0, 1}, names \in Seq(Texts), conf \in Short :
             /\ picker' = PickerFor(type, names, conf)
             /\ type = 0 /\ names = NamesOf(m_selectedTableColumns) /\ conf = edt_columns
      BY <1>1, <2>2, <2>5, Opened DEF Blank
    <3>3. names = <<>> /\ conf = <<>>
      BY <2>2, <3>2, AnswerNames DEF Blank
    <3>4. /\ picker'.typeId = type /\ picker'.m_columnArray = names
          /\ picker'.selectedItemArray = <<>>
      <4> DEFINE p == PickerFor(type, names, conf)
      <4>1. /\ p.typeId = type /\ p.m_columnArray = names
            /\ conf = <<>> => p.selectedItemArray = <<>>
        BY PickerOpens
      <4> HIDE DEF p
      <4> QED
        BY <3>2, <3>3, <4>1 DEF p
    <3> QED
      BY <2>1, <2>2, <3>1, <3>2, <3>3, <3>4 DEF Fresh
  <2>6. CASE \E i, names : Selects(i, names)
    <3>1. Len(picker.on) = 0
      BY <1>1, <2>2, TextsAre DEF PickerTypes, Fresh
    <3> QED
      BY <2>6, <3>1 DEF Selects
  <2>7. CASE SavePicker
    <3>1. /\ Joined(Chosen) = <<>> /\ picker.typeId = 0
          /\ m_selectedTableColumns = Null
          /\ edt_searchRule = <<>>
      BY <2>2, TextsAre DEF Fresh, Blank, Chosen
    <3>2. edt_columns' = <<>> /\ edt_searchRule' = <<>>
      BY <2>7, <3>1 DEF SavePicker, Take
    <3>3. m_selectedTableColumns' = Null /\ picker' = NoPicker
      BY <2>7, <3>1 DEF SavePicker
    <3> QED
      BY <1>4, <2>1, <2>2, <3>2, <3>3 DEF Blank
  <2>8. CASE LeavePicker
    BY <1>4, <2>1, <2>2, <2>8 DEF LeavePicker, fields, Blank
  <2> QED
    BY <1>2, <1>6, <2>3, <2>4, <2>5, <2>6, <2>7, <2>8 DEF BuilderKind, AskForBuilder,
       builder, Leaves, CloseBuilder, Exception
<1>7. CASE BuilderKind /\ ~ UNCHANGED asking
  <2>1. delegate' = "main" \/ signal_id' = 0 \/ screen' = "main"
    BY <1>7 DEF BuilderKind, AskForBuilder, SelectTable, OpenPicker, Leaves, CloseBuilder,
       Exception, NoRequests, Selects, SavePicker, LeavePicker, Ask, Address
  <2> QED
    BY <1>2, <2>1
<1>8. CASE Tapped /\ CriteriaKind
  <2>1. CASE UNCHANGED asking
    <3>1. UNCHANGED builder
      BY <1>8 DEF CriteriaKind, OpenCriteria, CloseCriteria, Scroll, ExecuteQuery, Type, Pages
    <3>2. UnderWay' = UnderWay /\ OneUnderWay' = OneUnderWay
      BY <2>1 DEF asking, UnderWay, OneUnderWay
    <3>3. OneUnderWay /\ Blank /\ Fresh(picker)
      BY <1>5, <1>8, <2>1, <3>2 DEF Tapped, asking
    <3> QED
      BY <3>1, <3>2, <3>3 DEF builder, fields, Blank, Fresh
  <2>2. CASE ~ UNCHANGED asking
    <3>1. screen' \in {"main", "criteria"}
      BY <1>8, <2>2 DEF CriteriaKind, OpenCriteria, CloseCriteria, Scroll, ExecuteQuery,
         Type, Pages, OnCriteria
    <3> QED
      BY <1>2, <3>1
  <2> QED
    BY <2>1, <2>2
<1>9. ASSUME NEW r \in Req, Answer(r)
      PROVE  OneUnderWay' /\ Blank' /\ Fresh(picker')
  <2>1. CASE OpenBuilder(r)
    <3>1. /\ screen = "main" /\ delegate = "main" /\ UnderWay = {r}
          /\ UNCHANGED <<edt_columns, edt_searchRule, m_selectedTableColumns, picker>>
      BY <2>1 DEF OpenBuilder
    <3>2. Blank' /\ Fresh(picker')
      BY <1>1, <1>4, <3>1 DEF Layers, Blank
    <3>3. AskNext(r, "builder", 1, Asks("columns", saved.table))
      BY <2>1, <3>1 DEF OpenBuilder
    <3>4. Asks("columns", saved.table) # Nothing
      BY DEF Asks, Nothing
    <3>5. UnderWay' = {r}
      BY <1>1, <3>1, <3>3, <3>4, NextAlone
    <3> QED
      BY <3>2, <3>5 DEF OneUnderWay
  <2>2. CASE /\ Served(r) /\ r \in UnderWay /\ UNCHANGED <<delegate, signal_id>>
             /\ foreign' = foreign
    <3>1. UnderWay' = UnderWay \ {r}
      BY <1>1, <2>2, ServedLess
    <3>2. OneUnderWay
      BY <1>5, <2>2
    <3>3. UnderWay' = {}
      BY <2>2, <3>1, <3>2 DEF OneUnderWay
    <3> QED
      BY <3>3
  <2> QED
    BY <1>9, <2>1, <2>2, AnswerKinds DEF BuilderReceives, OthersReceive, CriteriaReceives, Drop
<1> QED
  BY <1>6, <1>7, <1>8, <1>9, StepKinds

\* What is chosen for a rule, and can be, is a column.
LEMMA RulePickerNext ==
    ASSUME QueryInv, Next, ~foreign', picker'.typeId = 1
    PROVE  /\ NamedOf(picker') \subseteq ToSet(edt_columns') /\ edt_columns' # <<>>
<1>1. PickerTypes /\ FieldTypes /\ AskTypes /\ Layers /\ Untouched
  BY DEF QueryInv
<1>2. ~foreign
  <2>1. ASSUME NEW r \in Req, Answer(r) PROVE ~foreign
    BY <2>1, AnswerKinds DEF OpenBuilder
  <2> QED
    BY <2>1, StepKinds DEF Tapped
<1>3. picker' # NoPicker
  BY NoPickerTyped
<1>4. CASE UNCHANGED <<picker, edt_columns>>
  BY <1>1, <1>2, <1>4 DEF Untouched, Named, NamedOf, Chosen
<1>5. CASE OpenPicker
  <2>1. PICK type \in {0, 1}, names \in Seq(Texts), conf \in Short :
           /\ picker' = PickerFor(type, names, conf)
           /\ \/ type = 0
              \/ /\ type = 1 /\ names = Split(edt_columns) /\ conf = edt_searchRule
                 /\ edt_columns # <<>>
    BY <1>1, <1>5, Opened
  <2>2. /\ picker'.typeId = type /\ picker'.m_columnArray = names
        /\ PiecesOfEach(picker'.selectedItemArray) \subseteq ToSet(conf)
    BY <2>1, PickerOpens
  <2>3. names = Split(edt_columns) /\ conf = edt_searchRule /\ edt_columns # <<>>
    BY <2>1, <2>2
  <2>4. ToSet(edt_searchRule) \subseteq ToSet(edt_columns)
    BY <1>1, <1>2 DEF Untouched, RuleWithinColumns, Within
  <2>5. edt_columns \in Seq(Letters)
    BY <1>1, ShortTexts DEF FieldTypes
  <2>6. \A i \in 1..Len(Split(edt_columns)) :
           ToSet(Split(edt_columns)[i]) \subseteq ToSet(edt_columns)
    BY <2>3, <2>5, SplitNames
  <2>7. PiecesOfEach(Split(edt_columns)) \subseteq ToSet(edt_columns)
    BY <2>6 DEF PiecesOfEach
  <2>8. edt_columns' = edt_columns
    BY <1>5 DEF OpenPicker, fields
  <2> QED
    BY <2>2, <2>3, <2>4, <2>7, <2>8 DEF NamedOf
<1>6. ASSUME NEW i, NEW names, Selects(i, names)
      PROVE  NamedOf(picker') \subseteq ToSet(edt_columns') /\ edt_columns' # <<>>
  <2>1. picker'.typeId = picker.typeId /\ NamedOf(picker') \subseteq Named
    BY <1>1, <1>6, Selected, NamedShrinks DEF NamedOf
  <2>2. edt_columns' = edt_columns
    BY <1>6 DEF Selects, fields
  <2> QED
    BY <1>1, <1>2, <2>1, <2>2 DEF Untouched
<1>7. CASE BuilderKind
  <2>1. CASE SelectTable
    BY <1>1, <1>3, <2>1 DEF SelectTable, Layers
  <2> QED
    BY <1>3, <1>4, <1>5, <1>6, <1>7, <2>1 DEF BuilderKind, AskForBuilder, builder, fields,
       Leaves, CloseBuilder, Exception, NoBuilder, SavePicker, LeavePicker
<1>8. CASE CriteriaKind
  BY <1>4, <1>8 DEF CriteriaKind, builder, fields, OpenCriteria, CloseCriteria, Scroll,
     ExecuteQuery, Type, Pages
<1>9. ASSUME NEW r \in Req, Answer(r)
      PROVE  NamedOf(picker') \subseteq ToSet(edt_columns') /\ edt_columns' # <<>>
  <2>1. CASE BuilderReceives(r) /\ signal_id = 1
    <3>1. picker.typeId = 0 /\ picker' = picker
      BY <1>1, <1>2, <2>1 DEF BuilderReceives, Untouched, Fresh
    <3> QED
      BY <3>1
  <2> QED
    BY <1>4, <1>9, <2>1, AnswerKinds DEF builder, fields, OpenBuilder, BuilderReceives,
       OthersReceive, CriteriaReceives, Drop
<1> QED
  BY <1>7, <1>8, <1>9, StepKinds

LEMMA UntouchedNext ==
    ASSUME QueryInv, Next
    PROVE  Untouched'
<1> SUFFICES ASSUME ~foreign' PROVE Untouched'
  BY DEF Untouched
<1>1. RuleWithinColumns'
  BY RuleNext DEF RuleWithinColumns, RuleOf
<1>2. /\ delegate' = "builder" /\ signal_id' = 1 /\ UnderWay' # {} =>
            OneUnderWay' /\ Blank' /\ Fresh(picker')
  BY EditingNext
<1>3. picker'.typeId = 1 => Named' \subseteq ToSet(edt_columns') /\ edt_columns' # <<>>
  BY RulePickerNext DEF Named, NamedOf, Chosen
<1> QED
  BY <1>1, <1>2, <1>3 DEF Untouched, Fresh, OneUnderWay

-----------------------------------------------------------------------------
(***************************************************************************)
(* A user who waits.                                                       *)
(***************************************************************************)
LEMMA Waits ==
    ASSUME QueryInv, Next, ~hurried'
    PROVE  /\ ~hurried /\ OneUnderWay /\ InChain /\ ResultsMeetConditions /\ ~foreign
           /\ Tapped => Idle
<1>0. hurried \in BOOLEAN
  BY DEF QueryInv, AskTypes
<1>1. /\ ~hurried
      /\ Tapped => Idle
  BY <1>0, StepKinds DEF Tapped
<1> QED
  BY <1>1 DEF QueryInv, Waited

\* The one request that is answered is the only one.
LEMMA AnswersAlone ==
    ASSUME QueryInv, NEW r \in Req, OneUnderWay, InChain, r \in UnderWay
    PROVE  UnderWay = {r} /\ ChainOf(pending[r]) /\ pending[r] \in Asked
  BY DEF OneUnderWay, InChain, QueryInv, AskTypes, UnderWay

LEMMA ChainNext ==
    ASSUME QueryInv, Next, ~hurried'
    PROVE  OneUnderWay' /\ InChain'
<1>1. /\ AskTypes /\ FieldTypes /\ Layers /\ OneUnderWay /\ InChain
  BY Waits DEF QueryInv
<1>2. CASE UnderWay' = {}
  BY <1>2 DEF OneUnderWay, InChain
<1>3. CASE Tapped /\ BuilderKind
  <2>1. Idle
    BY <1>3, Waits
  <2>2. CASE AskForBuilder
    <3>1. PICK sig : Ask("main", sig, Asks("tables", Null))
      BY <2>2 DEF AskForBuilder
    <3>2. Asks("tables", Null) # Nothing
      BY DEF Asks, Nothing
    <3>3. OneUnderWay' /\ \A q \in UnderWay' : pending'[q] = Asks("tables", Null)
      BY <1>1, <2>1, <3>1, <3>2, IdleAsks
    <3>4. delegate' = "main" /\ screen' = "main"
      BY <2>2, <3>1 DEF AskForBuilder, Ask, Address
    <3> QED
      BY <3>3, <3>4 DEF InChain, ChainOf, Asks
  <2>3. CASE SelectTable /\ ~ UNCHANGED asking
    <3>1. PICK t : /\ Ask("builder", 0, Asks("columns", t))
                   /\ edt_tableName' = t /\ edt_columns' = <<>>
      BY <2>3 DEF SelectTable
    <3>2. Asks("columns", t) # Nothing
      BY DEF Asks, Nothing
    <3>3. OneUnderWay' /\ \A q \in UnderWay' : pending'[q] = Asks("columns", t)
      BY <1>1, <2>1, <3>1, <3>2, IdleAsks
    <3>4. delegate' = "builder" /\ screen' = "builder" /\ signal_id' = 0
      BY <2>3, <3>1 DEF SelectTable, Ask, Address
    <3> QED
      BY <3>1, <3>3, <3>4 DEF InChain, ChainOf, Asks
  <2>4. CASE pending' = pending \/ NoRequests("main")
    BY <1>2, <2>1, <2>4, StaysIdle
  <2> QED
    BY <1>3, <2>2, <2>3, <2>4 DEF BuilderKind, OpenPicker, Leaves, CloseBuilder, Exception,
       Selects, SavePicker, LeavePicker, asking
<1>4. CASE Tapped /\ CriteriaKind
  <2>1. Idle
    BY <1>4, Waits
  <2>2. CASE ExecuteQuery
    <3> DEFINE request == Asks("rows", typed \cap Visible)
    <3>1. Ask("criteria", 1, request) /\ request # Nothing
      BY <2>2 DEF ExecuteQuery, Asks, Nothing
    <3>2. request.what = "rows" /\ request.of = typed \cap Visible
      BY DEF Asks
    <3> HIDE DEF request
    <3>3. OneUnderWay' /\ \A q \in UnderWay' : pending'[q] = request
      BY <1>1, <2>1, <3>1, IdleAsks
    <3>4. delegate' = "criteria" /\ screen' = "criteria" /\ results' = <<>>
      BY <2>2 DEF ExecuteQuery, OnCriteria, Ask, Address, screenVars
    <3>5. typed' = typed /\ Visible' = Visible
      BY <2>2 DEF ExecuteQuery, screenVars, criteria, Visible
    <3> QED
      BY <3>2, <3>3, <3>4, <3>5 DEF InChain, ChainOf
  <2>3. CASE pending' = pending
    BY <1>2, <2>1, <2>3, StaysIdle
  <2> QED
    BY <1>4, <2>2, <2>3 DEF CriteriaKind, OpenCriteria, CloseCriteria, Scroll, Type, Pages,
       asking
<1>5. ASSUME NEW r \in Req, Answer(r)
      PROVE  OneUnderWay' /\ InChain'
  <2>1. CASE r \in UnderWay /\ Served(r)
    <3>1. UnderWay' = UnderWay \ {r}
      BY <1>1, <2>1, ServedLess
    <3>2. UnderWay' = {}
      BY <1>1, <2>1, <3>1, AnswersAlone
    <3> QED
      BY <1>2, <3>2
  <2>2. CASE OpenBuilder(r)
    <3>1. r \in UnderWay
      BY <2>2 DEF OpenBuilder, UnderWay, Nothing, Asks
    <3>2. CASE signal_id = 1
      <4> DEFINE request == Asks("columns", saved.table)
      <4>1. AskNext(r, "builder", 1, request) /\ request # Nothing
        BY <2>2, <3>2 DEF OpenBuilder, Asks, Nothing
      <4>2. request.what = "columns" /\ request.of = saved.table
        BY DEF Asks
      <4> HIDE DEF request
      <4>3. UnderWay = {r}
        BY <1>1, <3>1, AnswersAlone
      <4>4. UnderWay' = {r} /\ pending'[r] = request
        BY <1>1, <4>1, <4>3, NextAlone
      <4>5. /\ delegate' = "builder" /\ screen' = "builder" /\ saved' = saved
            /\ edt_tableName' = saved.table /\ edt_columns' = <<>>
        BY <1>1, <2>2, <3>2 DEF OpenBuilder, AskNext, Address, Layers, Blank
      <4> QED
        BY <4>2, <4>4, <4>5 DEF OneUnderWay, InChain, ChainOf
    <3>3. CASE signal_id # 1
      BY <2>1, <2>2, <3>1, <3>3 DEF OpenBuilder
    <3> QED
      BY <3>2, <3>3
  <2> QED
    BY <1>5, <2>1, <2>2, AnswerKinds DEF BuilderReceives, OthersReceive, CriteriaReceives, Drop
<1> QED
  BY <1>3, <1>4, <1>5, StepKinds

MeetsConditions(s, columns, rows) ==
    s.of.what = "rows" /\ (Len(columns) + 5 <= Window => s.of.of = rows)

LEMMA ResultsNext ==
    ASSUME QueryInv, Next, ~hurried'
    PROVE  ResultsMeetConditions'
<1> DEFINE Fit(list, columns, rows) ==
              \A i \in 1..Len(list) : MeetsConditions(list[i], columns, rows)
<1>1. /\ AskTypes /\ FieldTypes /\ Layers /\ CriteriaTypes /\ ResultTypes /\ ResultTypes'
      /\ OneUnderWay /\ InChain /\ ResultsMeetConditions /\ ~hurried
      /\ results \in Seq(ResultRecords) /\ Len(results) \in Nat /\ results' \in Seq(ResultRecords)
  BY Waits, ResultTypesNext, LenProperties DEF QueryInv, ResultTypes
<1>2. DOMAIN results = 1..Len(results) /\ DOMAIN results' = 1..Len(results')
  BY <1>1, LenProperties
<1> SUFFICES Fit(results', m_columns', typed')
  BY <1>2 DEF ResultsMeetConditions, MeetsConditions
<1>3. Fit(results, m_columns, typed)
  BY <1>1, <1>2 DEF ResultsMeetConditions, MeetsConditions
<1>4. CASE UNCHANGED <<results, m_columns, typed>>
  BY <1>3, <1>4
<1>5. CASE results' = <<>>
  BY <1>5, TextsAre
<1>6. CASE Pages
  <2>1. results # <<>> /\ UNCHANGED <<m_columns, typed>>
    BY <1>6 DEF Pages, criteria
  <2>2. ASSUME NEW i \in 1..Len(results')
        PROVE  i \in 1..Len(results) /\ results'[i].of = results[i].of
    <3>1. CASE results' = Front(results)
      <4>1. /\ Len(results') = Len(results) - 1
            /\ \A j \in 1..Len(results) - 1 : results'[j] = results[j]
        BY <1>1, <2>1, <3>1, FrontAndLast
      <4>2. i \in 1..Len(results) - 1 /\ i \in 1..Len(results)
        BY <1>1, <4>1
      <4> QED
        BY <4>1, <4>2
    <3>2. CASE \E page : TurnsTo(page)
      <4>1. PICK page : results' = [results EXCEPT ![Len(results)].page = page]
        BY <3>2 DEF TurnsTo
      <4>2. DOMAIN results' = DOMAIN results
        BY <4>1
      <4>3. Len(results') \in Nat
        BY <1>1, LenProperties
      <4>4. Len(results') = Len(results)
        BY <1>1, <1>2, <4>2, <4>3, SameLength
      <4>5. i \in 1..Len(results) /\ results[i] \in ResultRecords
        BY <1>1, <4>4, ElementOfSeq
      <4> QED
        BY <1>2, <4>1, <4>5 DEF ResultRecords
    <3> QED
      BY <1>6, <3>1, <3>2 DEF Pages
  <2> QED
    BY <1>3, <2>1, <2>2 DEF MeetsConditions
<1>7. CASE CriteriaKind
  BY <1>1, <1>4, <1>5, <1>6, <1>7 DEF CriteriaKind, OpenCriteria, CloseCriteria, Scroll,
     ExecuteQuery, Type, OnCriteria, screenVars, criteria, Layers
<1>8. ASSUME NEW r \in Req, CriteriaReceives(r)
      PROVE  Fit(results', m_columns', typed')
  <2>1. CASE UNCHANGED results
    BY <1>4, <1>8, <2>1 DEF CriteriaReceives, criteria
  <2>2. CASE ~ UNCHANGED results
    <3>1. PICK n \in 1..MaxRows : results' = Append(results, Shown(pending[r], n, 0))
      BY <1>8, <2>2 DEF CriteriaReceives
    <3>2. ChainOf(pending[r]) /\ delegate = "criteria"
      BY <1>1, <1>8, AnswersAlone DEF CriteriaReceives
    <3>3. /\ pending[r].what = "rows" /\ results = <<>>
          /\ pending[r].of = typed \cap Visible
      BY <3>2 DEF ChainOf
    <3>4. Len(m_columns) + 5 <= Window => typed \cap Visible = typed
      <4>1. Len(m_columns) \in Nat /\ Window \in Nat
        BY <1>1, NoRows, ScreensAssumption DEF CriteriaTypes
      <4>2. SUFFICES ASSUME Len(m_columns) + 5 <= Window PROVE typed \cap Visible = typed
        OBVIOUS
      <4>3. top = 0
        BY <1>1, <4>2, RowsOffIsNat DEF CriteriaTypes
      <4>4. 1..Len(m_columns) \subseteq 1..Window
        BY <4>1, <4>2
      <4>5. Visible = 1..Window
        BY <4>1, <4>3 DEF Visible
      <4> QED
        BY <1>1, <4>4, <4>5 DEF CriteriaTypes
    <3> DEFINE x == Shown(pending[r], n, 0)
    <3>5. x.of = pending[r]
      BY DEF Shown
    <3>6. Len(results') = 1 /\ results'[1] = x
      BY <1>1, <3>1, <3>3, TextsAre
    <3> HIDE DEF x
    <3>7. MeetsConditions(x, m_columns, typed)
      BY <3>3, <3>4, <3>5 DEF MeetsConditions
    <3>8. UNCHANGED <<m_columns, typed>>
      BY <1>8 DEF CriteriaReceives, criteria
    <3> QED
      BY <3>6, <3>7, <3>8
  <2> QED
    BY <2>1, <2>2
<1>9. ASSUME NEW r \in Req, Answer(r)
      PROVE  Fit(results', m_columns', typed')
  BY <1>4, <1>8, <1>9, AnswerKinds DEF screenVars, criteria
<1> QED
  BY <1>4, <1>7, <1>9, StepKinds DEF screenVars, criteria

LEMMA WaitedNext ==
    ASSUME QueryInv, Next
    PROVE  Waited'
<1> SUFFICES ASSUME ~hurried' PROVE Waited'
  BY DEF Waited
<1>1. ~foreign'
  <2>1. ASSUME NEW r \in Req, OpenBuilder(r) PROVE ~foreign'
    <3>1. r \in UnderWay
      BY <2>1 DEF OpenBuilder, UnderWay, Nothing, Asks
    <3>2. UnderWay = {r}
      BY <3>1, Waits, AnswersAlone
    <3> QED
      BY <2>1, <3>2, Waits DEF OpenBuilder
  <2> QED
    BY <2>1, Waits, StepKinds, AnswerKinds DEF Tapped
<1> QED
  BY <1>1, ChainNext, ResultsNext DEF Waited

-----------------------------------------------------------------------------
(***************************************************************************)
(* The columns of the table, if the user waits and every answer comes.     *)
(***************************************************************************)
ColumnsOf(columns, table, query) ==
    /\ columns # <<>> => ToSet(columns) \subseteq Pieces(Columns[table])
    /\ query # Null => ToSet(query.columns) \subseteq Pieces(Columns[query.table])

LEMMA Offers ==
    ASSUME QueryInv, Next, ~hurried', ~lost'
    PROVE  /\ ~lost /\ Offered /\ ColumnsOf(edt_columns, edt_tableName, saved)
           /\ screen \in {"builder", "picker"} /\ Idle /\ edt_tableName # Null =>
                 m_selectedTableColumns = Asks("columns", edt_tableName)
           /\ screen = "picker" /\ picker.typeId = 0 =>
                 NamedOf(picker) \subseteq Pieces(Columns[edt_tableName])
<1>1. ~lost
  <2>1. ASSUME NEW r \in Req, Answer(r) PROVE ~lost
    BY <2>1, AnswerKinds DEF CriteriaReceives
  <2> QED
    BY <2>1, StepKinds DEF Tapped
<1>2. Offered /\ ~hurried
  BY Waits DEF QueryInv
<1> QED
  BY <1>1, <1>2 DEF Offered, ColumnsOfTable, ColumnsOf, OfTable, Named, Idle

LEMMA ColumnsOfNext ==
    ASSUME QueryInv, Next, ~hurried', ~lost'
    PROVE  ColumnsOf(edt_columns', edt_tableName', saved')
<1>1. /\ AskTypes /\ FieldTypes /\ PickerTypes /\ Layers /\ OneUnderWay /\ InChain
      /\ ColumnsOf(edt_columns, edt_tableName, saved)
  BY Waits, Offers DEF QueryInv
<1>2. CASE UNCHANGED <<edt_columns, edt_tableName, saved>>
  BY <1>1, <1>2
<1>3. CASE edt_columns' = <<>> /\ saved' = saved
  BY <1>1, <1>3 DEF ColumnsOf
<1>4. CASE Leaves
  <2>1. edt_columns' = <<>>
    BY <1>4 DEF Leaves, CloseBuilder, NoBuilder
  <2>2. saved' # Null => ToSet(saved'.columns) \subseteq Pieces(Columns[saved'.table])
    BY <1>1, <1>4 DEF Leaves, Query, ColumnsOf
  <2> QED
    BY <2>1, <2>2 DEF ColumnsOf
<1>5. CASE SavePicker
  <2>1. saved' = saved /\ edt_tableName' = edt_tableName
    BY <1>5 DEF SavePicker
  <2>2. CASE picker.typeId = 0
    <3>1. screen = "picker" /\ edt_columns' = Joined(Chosen)
      BY <1>5, <2>2 DEF SavePicker, Take
    <3>2. NamedOf(picker) \subseteq Pieces(Columns[edt_tableName])
      BY <2>2, <3>1, Offers
    <3>3. ToSet(edt_columns') \subseteq Pieces(Columns[edt_tableName])
      BY <1>1, <3>1, <3>2, PickedPieces DEF NamedOf, Chosen
    <3> QED
      BY <1>1, <2>1, <3>3 DEF ColumnsOf
  <2>3. CASE picker.typeId = 1
    BY <1>2, <1>5, <2>1, <2>3 DEF SavePicker, Take
  <2> QED
    BY <1>1, <2>2, <2>3 DEF PickerTypes, Pickers
<1>6. CASE BuilderKind
  BY <1>2, <1>3, <1>4, <1>5, <1>6 DEF BuilderKind, builder, fields, AskForBuilder, SelectTable,
     OpenPicker, Exception, NoBuilder, Selects, LeavePicker
<1>7. CASE CriteriaKind
  BY <1>2, <1>7 DEF CriteriaKind, builder, fields, OpenCriteria, CloseCriteria, Scroll,
     ExecuteQuery, Type, Pages
<1>8. ASSUME NEW r \in Req, Answer(r)
      PROVE  ColumnsOf(edt_columns', edt_tableName', saved')
  <2>1. CASE OpenBuilder(r)
    <3>1. edt_columns' = <<>> /\ saved' = saved
      BY <1>1, <2>1 DEF OpenBuilder, Layers, Blank
    <3> QED
      BY <1>3, <3>1
  <2>2. CASE BuilderReceives(r)
    <3>1. ChainOf(pending[r]) /\ delegate = "builder"
      BY <1>1, <2>2, AnswersAlone DEF BuilderReceives
    <3>2. CASE signal_id = 1
      <4>1. edt_tableName = saved.table /\ saved # Null
        BY <1>1, <3>1, <3>2 DEF ChainOf, Layers
      <4>2. /\ edt_columns' = saved.columns /\ edt_tableName' = edt_tableName
            /\ saved' = saved
        BY <2>2, <3>2 DEF BuilderReceives
      <4> QED
        BY <1>1, <4>1, <4>2 DEF ColumnsOf
    <3>3. CASE signal_id # 1
      BY <1>2, <2>2, <3>3 DEF BuilderReceives
    <3> QED
      BY <3>2, <3>3
  <2> QED
    BY <1>2, <1>8, <2>1, <2>2, AnswerKinds DEF builder, fields, OthersReceive,
       CriteriaReceives, Drop
<1> QED
  BY <1>6, <1>7, <1>8, StepKinds

\* With nothing under way the builder has the columns of the table in its field.
LEMMA AnsweredNext ==
    ASSUME QueryInv, Next, ~hurried', ~lost', screen' \in {"builder", "picker"},
           UnderWay' = {}, edt_tableName' # Null
    PROVE  m_selectedTableColumns' = Asks("columns", edt_tableName')
<1>1. /\ AskTypes /\ FieldTypes /\ Layers /\ OneUnderWay /\ InChain
      /\ screen \in {"builder", "picker"} /\ Idle /\ edt_tableName # Null =>
            m_selectedTableColumns = Asks("columns", edt_tableName)
  BY Waits, Offers DEF QueryInv
<1>2. CASE /\ Idle /\ screen \in {"builder", "picker"}
           /\ UNCHANGED <<edt_tableName, m_selectedTableColumns>>
  BY <1>1, <1>2
<1>3. CASE Tapped /\ BuilderKind
  <2>1. Idle
    BY <1>3, Waits
  <2>2. CASE SelectTable /\ ~ UNCHANGED asking
    <3>1. PICK t : Ask("builder", 0, Asks("columns", t))
      BY <2>2 DEF SelectTable
    <3>2. Asks("columns", t) # Nothing
      BY DEF Asks, Nothing
    <3>3. UnderWay' # {}
      BY <1>1, <2>1, <3>1, <3>2, IdleAsks
    <3> QED
      BY <3>3
  <2>3. CASE SelectTable /\ UNCHANGED asking
    <3>1. UNCHANGED edt_tableName
      <4>1. ASSUME NEW request, request # Nothing, Ask("builder", 0, request) PROVE FALSE
        <5>1. UnderWay' # {}
          BY <1>1, <2>1, <4>1, IdleAsks
        <5>2. UnderWay' = {}
          OBVIOUS
        <5> QED
          BY <5>1, <5>2
      <4>2. \A t : Asks("columns", t) # Nothing
        BY DEF Asks, Nothing
      <4> QED
        BY <2>3, <4>1, <4>2 DEF SelectTable
    <3> QED
      BY <1>2, <2>1, <2>3, <3>1 DEF SelectTable
  <2> QED
    BY <1>2, <1>3, <2>1, <2>2, <2>3 DEF BuilderKind, builder, fields, AskForBuilder, OpenPicker,
       Leaves, CloseBuilder, Exception, Selects, SavePicker, LeavePicker
<1>4. CASE Tapped /\ CriteriaKind
  <2>1. screen' \in {"main", "criteria"}
    BY <1>1, <1>4 DEF CriteriaKind, OpenCriteria, CloseCriteria, Scroll, ExecuteQuery, Type,
       Pages, OnCriteria, Layers
  <2> QED
    BY <2>1
<1>5. ASSUME NEW r \in Req, Answer(r)
      PROVE  m_selectedTableColumns' = Asks("columns", edt_tableName')
  <2>1. CASE OpenBuilder(r)
    <3>1. r \in UnderWay
      BY <2>1 DEF OpenBuilder, UnderWay, Nothing, Asks
    <3>2. CASE signal_id = 1
      <4>1. UnderWay = {r} /\ Asks("columns", saved.table) # Nothing
        BY <1>1, <3>1, AnswersAlone DEF Asks, Nothing
      <4>2. UnderWay' = {r}
        BY <1>1, <2>1, <3>2, <4>1, NextAlone DEF OpenBuilder
      <4> QED
        BY <4>2
    <3>3. CASE signal_id # 1
      BY <1>1, <2>1, <3>3 DEF OpenBuilder, Layers
    <3> QED
      BY <3>2, <3>3
  <2>2. CASE BuilderReceives(r)
    <3>1. ChainOf(pending[r]) /\ delegate = "builder" /\ pending[r] \in Asked
      BY <1>1, <2>2, AnswersAlone DEF BuilderReceives
    <3>2. pending[r].what = "columns" /\ pending[r].of = edt_tableName
      BY <3>1, BuilderAssumption DEF ChainOf
    <3>3. pending[r] = Asks("columns", edt_tableName)
      BY <3>1, <3>2 DEF Asked, Asks
    <3> QED
      BY <2>2, <3>3 DEF BuilderReceives
  <2>3. CASE OthersReceive(r)
    <3>1. ChainOf(pending[r])
      BY <1>1, <2>3, AnswersAlone DEF OthersReceive
    <3> QED
      BY <2>3, <3>1, BuilderAssumption DEF OthersReceive, ChainOf
  <2>4. CASE CriteriaReceives(r)
    <3>1. screen' = "criteria"
      BY <1>1, <2>4 DEF CriteriaReceives, Layers
    <3> QED
      BY <3>1
  <2> QED
    BY <1>5, <2>1, <2>2, <2>3, <2>4, AnswerKinds
<1> QED
  BY <1>3, <1>4, <1>5, StepKinds

\* What a picker of columns offers are columns of the table.
LEMMA ColumnPickerNext ==
    ASSUME QueryInv, Next, ~hurried', ~lost', screen' = "picker", picker'.typeId = 0
    PROVE  NamedOf(picker') \subseteq Pieces(Columns[edt_tableName'])
<1>1. /\ AskTypes /\ FieldTypes /\ PickerTypes /\ Layers /\ OneUnderWay /\ InChain
      /\ ColumnsOf(edt_columns, edt_tableName, saved)
      /\ screen = "picker" /\ picker.typeId = 0 =>
            NamedOf(picker) \subseteq Pieces(Columns[edt_tableName])
  BY Waits, Offers DEF QueryInv
<1>2. CASE UNCHANGED <<screen, picker, edt_tableName>>
  BY <1>1, <1>2
<1>3. CASE Tapped /\ OpenPicker
  <2>1. Idle /\ screen = "builder" /\ edt_tableName' = edt_tableName
    BY <1>3, Waits DEF OpenPicker, fields
  <2>2. PICK type \in {0, 1}, names \in Seq(Texts), conf \in Short :
           /\ picker' = PickerFor(type, names, conf)
           /\ \/ /\ type = 0 /\ names = NamesOf(m_selectedTableColumns)
                 /\ conf = edt_columns /\ edt_tableName # Null
              \/ type = 1
    BY <1>1, <1>3, Opened
  <2> DEFINE p == PickerFor(type, names, conf)
  <2>3. /\ p.typeId = type /\ p.m_columnArray = names
        /\ PiecesOfEach(p.selectedItemArray) \subseteq ToSet(conf)
    BY PickerOpens
  <2> HIDE DEF p
  <2>4. /\ names = NamesOf(m_selectedTableColumns) /\ conf = edt_columns
        /\ edt_tableName # Null
    BY <2>2, <2>3 DEF p
  <2>5. edt_tableName \in Table /\ m_selectedTableColumns \in Asked \cup {Null}
    BY <1>1, <2>4 DEF FieldTypes, IsTable
  <2>6. m_selectedTableColumns = Asks("columns", edt_tableName)
    BY <2>1, <2>4, Offers
  <2>7. PiecesOfEach(names) \subseteq Pieces(Columns[edt_tableName])
    BY <2>4, <2>5, <2>6, AnswerNames
  <2>8. ToSet(conf) \subseteq Pieces(Columns[edt_tableName])
    BY <1>1, <2>4, TextsAre DEF ColumnsOf
  <2> QED
    BY <2>1, <2>2, <2>3, <2>7, <2>8 DEF NamedOf, p
<1>4. ASSUME NEW i, NEW names, Selects(i, names)
      PROVE  NamedOf(picker') \subseteq Pieces(Columns[edt_tableName'])
  <2>1. /\ picker'.typeId = picker.typeId /\ NamedOf(picker') \subseteq Named
        /\ screen = "picker" /\ edt_tableName' = edt_tableName
    BY <1>1, <1>4, Selected, NamedShrinks DEF Selects, fields
  <2> QED
    BY <1>1, <2>1 DEF Named
<1>5. CASE Tapped /\ BuilderKind
  BY <1>1, <1>2, <1>3, <1>4, <1>5 DEF BuilderKind, AskForBuilder, builder, fields, SelectTable,
     Leaves, CloseBuilder, Exception, SavePicker, LeavePicker
<1>6. CASE CriteriaKind
  BY <1>2, <1>6 DEF CriteriaKind, builder, fields, OpenCriteria, CloseCriteria, Scroll,
     ExecuteQuery, Type, Pages, OnCriteria
<1>7. ASSUME NEW r \in Req, Answer(r)
      PROVE  NamedOf(picker') \subseteq Pieces(Columns[edt_tableName'])
  BY <1>2, <1>7, AnswerKinds DEF builder, fields, OpenBuilder, BuilderReceives,
     OthersReceive, CriteriaReceives, Drop
<1> QED
  BY <1>5, <1>6, <1>7, StepKinds

LEMMA OfferedNext ==
    ASSUME QueryInv, Next
    PROVE  Offered'
<1> SUFFICES ASSUME ~hurried', ~lost' PROVE Offered'
  BY DEF Offered
<1>1. ColumnsOfTable'
  BY ColumnsOfNext DEF ColumnsOfTable, ColumnsOf
<1>2. screen' \in {"builder", "picker"} /\ UnderWay' = {} /\ edt_tableName' # Null =>
         m_selectedTableColumns' = Asks("columns", edt_tableName')
  BY AnsweredNext
<1>3. screen' = "picker" /\ picker'.typeId = 0 => Named' \subseteq OfTable'
  BY ColumnPickerNext DEF Named, NamedOf, OfTable
<1> QED
  BY <1>1, <1>2, <1>3 DEF Offered, Asks

-----------------------------------------------------------------------------
(***************************************************************************)
(* The theorems.                                                           *)
(***************************************************************************)
LEMMA QueryInvInit ==
    ASSUME Init
    PROVE  QueryInv
<1>1. /\ screen = "main" /\ saved = Null /\ picker = NoPicker /\ results = <<>>
      /\ edt_tableName = Null /\ selectedTableName = Null /\ Blank
      /\ m_defaultInformation = FALSE /\ hurried = FALSE /\ foreign = FALSE /\ lost = FALSE
      /\ delegate = "main" /\ signal_id = 0 /\ pending = [r \in Req |-> Nothing]
      /\ m_columns = <<>> /\ typed = {} /\ top = 0
  BY DEF Init, InitBuilder, InitRequests, Blank
<1>2. AskTypes /\ FieldTypes
  BY <1>1, TextsAre DEF AskTypes, FieldTypes, IsTable, Blank
<1>3. PickerTypes
  BY <1>1, NoPickerTyped DEF PickerTypes, Chosen
<1>4. CriteriaTypes
  <2>1. Len(m_columns) \in Nat /\ Window \in Nat
    BY <1>1, TextsAre, ScreensAssumption
  <2>2. RowsOff \in Nat
    BY <2>1 DEF RowsOff
  <2> QED
    BY <1>1, <2>2, TextsAre DEF CriteriaTypes
<1>5. ResultTypes
  BY <1>1, TextsAre, EmptySeq, ScreensAssumption DEF ResultTypes
<1>6. Layers
  BY <1>1, BuilderAssumption DEF Layers
<1>7. SwitchesTell
  BY <1>1 DEF SwitchesTell
<1>8. UnderWay = {}
  BY <1>1 DEF UnderWay
<1>9. Untouched
  BY <1>1, <1>8, NoPickerTyped DEF Untouched, RuleWithinColumns, Within, Blank
<1>10. Waited
  <2>1. DOMAIN results = {}
    BY <1>1
  <2> QED
    BY <1>1, <1>8, <2>1 DEF Waited, OneUnderWay, InChain, ResultsMeetConditions
<1>11. Offered
  BY <1>1 DEF Offered, ColumnsOfTable, Blank
<1> QED
  BY <1>2, <1>3, <1>4, <1>5, <1>6, <1>7, <1>9, <1>10, <1>11 DEF QueryInv

LEMMA QueryInvSame ==
    ASSUME QueryInv, UNCHANGED vars
    PROVE  QueryInv'
<1>1. /\ UNCHANGED <<pending, delegate, signal_id, screen, saved, m_defaultInformation, picker,
                     edt_tableName, edt_columns, edt_searchRule, selectedTableName,
                     m_selectedTableColumns, hurried, foreign, lost, m_columns, typed, top,
                     results>>
  BY DEF vars, builderVars, builder, fields, asking, screenVars, criteria
<1>2. UnderWay' = UnderWay /\ OneUnderWay' = OneUnderWay
  BY <1>1 DEF UnderWay, OneUnderWay
<1>3. AskTypes' /\ FieldTypes'
  BY <1>1 DEF QueryInv, AskTypes, FieldTypes
<1>4. PickerTypes' /\ CriteriaTypes'
  BY <1>1 DEF QueryInv, PickerTypes, Chosen, CriteriaTypes, RowsOff
<1>5. ResultTypes'
  BY <1>1 DEF QueryInv, ResultTypes, Result, ResultRecords
<1>6. Layers'
  BY <1>1 DEF QueryInv, Layers, Blank
<1>7. SwitchesTell'
  BY <1>1 DEF QueryInv, SwitchesTell, Chosen
<1>8. Untouched'
  BY <1>1, <1>2 DEF QueryInv, Untouched, RuleWithinColumns, Named, NamedOf, Fresh, Blank
<1>9. Waited'
  BY <1>1, <1>2 DEF QueryInv, Waited, InChain, ChainOf, Visible, ResultsMeetConditions
<1>10. Offered'
  BY <1>1, <1>2 DEF QueryInv, Offered, ColumnsOfTable, Named, NamedOf, OfTable, Asks
<1> QED
  BY <1>3, <1>4, <1>5, <1>6, <1>7, <1>8, <1>9, <1>10 DEF QueryInv

LEMMA QueryInvAlways == Spec => []QueryInv
<1>1. QueryInv /\ [Next]_vars => QueryInv'
  <2>1. CASE QueryInv /\ Next
    BY <2>1, AskTypesNext, FieldTypesNext, PickerTypesNext, CriteriaTypesNext, ResultTypesNext,
       LayersNext, SwitchesTellNext, UntouchedNext, WaitedNext, OfferedNext DEF QueryInv
  <2>2. CASE QueryInv /\ UNCHANGED vars
    BY <2>2, QueryInvSame
  <2> QED
    BY <2>1, <2>2
<1> QED
  BY QueryInvInit, <1>1, PTL DEF Spec

\* Every variable of the query screens keeps its type, whatever is tapped and
\* answered: no page turned to is past the rows found, no row typed in is past
\* the columns, no text grows past its bound.
THEOREM QueryTypes == Spec => []TypeOK
<1>1. QueryInv => TypeOK
  <2> SUFFICES ASSUME QueryInv PROVE TypeOK
    OBVIOUS
  <2>1. /\ AskTypes /\ FieldTypes /\ PickerTypes /\ CriteriaTypes /\ ResultTypes /\ Layers
        /\ Waited
    BY DEF QueryInv
  <2>2. saved = Null \/ /\ saved.table \in Table
                        /\ {saved.columns, saved.rule} \subseteq Texts
    BY <2>1, ShortTexts DEF FieldTypes, Queries
  <2>3. /\ {edt_columns, edt_searchRule, Joined(Chosen)} \subseteq Texts
        /\ {Len(edt_columns), Len(edt_searchRule), Len(Joined(Chosen))} \subseteq 0..MaxPieces
    BY <2>1, ShortTexts DEF FieldTypes, PickerTypes
  <2>4. picker.typeId \in {0, 1} /\ DOMAIN picker.on = DOMAIN picker.m_columnArray
    BY <2>1, PickerNames DEF PickerTypes, Pickers
  <2>5. foreign => hurried
    BY <2>1 DEF Waited
  <2>6. BuilderTypeOK
    BY <2>1, <2>2, <2>3, <2>4, <2>5 DEF BuilderTypeOK, FieldTypes, AskTypes
  <2>7. typed \subseteq DOMAIN m_columns
    BY <2>1, NoRows DEF CriteriaTypes
  <2>8. \A i \in DOMAIN results : results[i].page \in 0..(results[i].rows - 1)
    BY <2>1, LenProperties DEF ResultTypes, Result
  <2> QED
    BY <2>1, <2>6, <2>7, <2>8 DEF TypeOK, FieldTypes, AskTypes, CriteriaTypes, ResultTypes
<1> QED
  BY QueryInvAlways, <1>1, PTL

\* As long as no builder opened with another request under way, the search rule
\* of the builder and of the saved query names only columns the query shows.
THEOREM RuleWithin == Spec => []RuleWithinColumns
<1>1. QueryInv => RuleWithinColumns
  BY DEF QueryInv, Untouched, RuleWithinColumns
<1> QED
  BY QueryInvAlways, <1>1, PTL

\* If the user waits and every answer comes, the columns chosen and the columns
\* saved are columns of the table of the query.
THEOREM ColumnsFit == Spec => []ColumnsOfTable
<1>1. QueryInv => ColumnsOfTable
  BY DEF QueryInv, Offered, ColumnsOfTable
<1> QED
  BY QueryInvAlways, <1>1, PTL

\* However often switches are turned, a column is on exactly when its name is
\* among those the picker will save.
THEOREM SwitchesTrue == Spec => []SwitchesTell
<1>1. QueryInv => SwitchesTell
  BY DEF QueryInv
<1> QED
  BY QueryInvAlways, <1>1, PTL

\* If the user waits, the screen of results shows rows of the query executed,
\* and of a query that fits on the screen rows found with every condition typed.
THEOREM ResultsMeet == Spec => []ResultsMeetConditions
<1>1. QueryInv => ResultsMeetConditions
  BY DEF QueryInv, Waited, ResultsMeetConditions
<1> QED
  BY QueryInvAlways, <1>1, PTL
=============================================================================
