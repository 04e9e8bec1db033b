----------------------------- MODULE QueryScreens -----------------------------
(***************************************************************************)
(* The life of a saved query: QueryBuilder, where it is made and edited,   *)
(* NewUI/CretoriaViewController.m, where conditions are typed and it is    *)
(* executed, and NewUI/ShowResultViewController.m, which pages through the *)
(* rows found.                                                             *)
(***************************************************************************)
EXTENDS QueryBuilder

CONSTANTS Window,     \* rows of the table view that fit on the screen
          MaxRows,    \* bound: rows a query finds
          MaxResults  \* bound: result screens over each other; rows that would
                \* open one more wait

ASSUME ScreensAssumption ==
    {Window, MaxRows, MaxResults} \subseteq Nat \ {0}

VARIABLES m_columns,  \* the columns asked for, one row each
          typed,      \* the rows with a condition
          top,        \* rows scrolled off the upper edge
          results     \* the ShowResultViewControllers on top, the last is seen

criteria   == <<m_columns, typed, top>>
screenVars == <<criteria, results>>
vars       == <<builderVars, screenVars>>

Shown(answer, n, page) == [of |-> answer, rows |-> n, page |-> page]

Init == InitBuilder /\ m_columns = <<>> /\ typed = {} /\ top = 0 /\ results = <<>>

OnCriteria == screen = "criteria" /\ results = <<>>

(***************************************************************************)
(* The criteria screen.                                                    *)
(***************************************************************************)

\* A tap on the query: setQueryInfo::.  No name is empty, so no piece is, and
\* the loop that removes empty ones has nothing to do.
OpenCriteria ==
    /\ screen = "main" /\ saved # Null
    /\ screen' = "criteria"
    /\ m_columns' = saved.rule /\ typed' = {} /\ top' = 0
    /\ UNCHANGED <<saved, builder, asking, results>>

CloseCriteria ==
    /\ OnCriteria
    /\ screen' = "main"
    /\ m_columns' = <<>> /\ typed' = {} /\ top' = 0
    /\ Gone("criteria")
    /\ UNCHANGED <<saved, builder, pending, signal_id, results>>

\* Mutant: two rows less are counted on the screen than fit.
RowsOffEarly == IF Len(m_columns) + 7 > Window THEN Len(m_columns) + 7 - Window ELSE 0

\* tableView:numberOfRowsInSection: counts five rows more than columns.
RowsOff == IF Len(m_columns) + 5 > Window THEN Len(m_columns) + 5 - Window ELSE 0

Visible == (top + 1)..(top + Window)

Scroll ==
    /\ OnCriteria
    /\ top' \in 0..RowsOff
    /\ UNCHANGED <<screen, saved, builder, asking, m_columns, typed, results>>

\* A condition is typed, or deleted.  The cells keep their texts.
Type(i) ==
    /\ OnCriteria /\ i \in Visible
    /\ typed' = IF i \in typed THEN typed \ {i} ELSE typed \cup {i}
    /\ UNCHANGED <<screen, saved, builder, asking, m_columns, top, results>>

\* onExcute: cellForRowAtIndexPath: gives nil for a row that is not on the
\* screen, and its condition is left out.
ExecuteQuery ==
    /\ OnCriteria
    /\ Ask("criteria", 1, Asks("rows", typed \cap Visible))
    /\ UNCHANGED <<screen, saved, builder, screenVars>>

\* Mutant: an answer without rows is shown as well.
ReceivesEvenNone(r) ==
    /\ delegate = "criteria" /\ r \in UnderWay
    /\ Len(results) < MaxResults
    /\ \E n \in 0..MaxRows : results' = Append(results, Shown(pending[r], n, 0))
    /\ Served(r)
    /\ UNCHANGED <<screen, saved, builder, delegate, signal_id, criteria>>

\* recivedDataArray:::, with the signal id of onExcute.  No rows: an alert.
CriteriaReceives(r) ==
    /\ delegate = "criteria" /\ r \in UnderWay
    /\ \/ UNCHANGED results
       \/ /\ Len(results) < MaxResults
          /\ \E n \in 1..MaxRows : results' = Append(results, Shown(pending[r], n, 0))
    /\ Served(r)
    /\ UNCHANGED <<screen, saved, builder, delegate, signal_id, criteria>>

(***************************************************************************)
(* The result screen.                                                      *)
(***************************************************************************)
Seen == results[Len(results)]

Turn(page) ==
    /\ results' = [results EXCEPT ![Len(results)].page = page]
    /\ UNCHANGED <<screen, saved, builder, asking, criteria>>

\* onGotoBefore:
GotoBefore == results # <<>> /\ Seen.page > 0 /\ Turn(Seen.page - 1)

\* onGotoNext: compares with an unsigned count - 1, which is huge for no rows.
GotoNext ==
    /\ results # <<>>
    /\ Seen.rows = 0 \/ Seen.page < Seen.rows - 1
    /\ Seen.page < MaxRows
    /\ Turn(Seen.page + 1)

CloseResult ==
    /\ results # <<>>
    /\ results' = Front(results)
    /\ UNCHANGED <<screen, saved, builder, asking, criteria>>

(***************************************************************************)
(* The specification.                                                      *)
(***************************************************************************)
Tap == \/ BuilderTap /\ UNCHANGED screenVars
       \/ OpenCriteria \/ CloseCriteria \/ Scroll \/ ExecuteQuery
       \/ \E i \in DOMAIN m_columns : Type(i)
       \/ GotoBefore \/ GotoNext \/ CloseResult

Answer(r) ==
    \/ /\ OpenBuilder(r) /\ UNCHANGED <<lost, screenVars>>
    \/ /\ \/ (BuilderReceives(r) \/ OthersReceive(r)) /\ UNCHANGED screenVars
          \/ CriteriaReceives(r)
       /\ UNCHANGED <<foreign, lost>>
    \/ /\ Drop(r) /\ lost' = TRUE /\ UNCHANGED <<foreign, screenVars>>

Next == \/ Tap /\ hurried' = (hurried \/ ~Idle) /\ UNCHANGED <<foreign, lost>>
        \/ (\E r \in Req : Answer(r)) /\ UNCHANGED hurried
Spec == Init /\ [][Next]_vars

(***************************************************************************)
(* Properties.                                                             *)
(***************************************************************************)
\* The types of the variables.  The page shown is one of the rows' pages, as
\* only results with rows are shown.
TypeOK ==
    /\ BuilderTypeOK
    /\ screen \in {"main", "builder", "picker", "criteria"}
    /\ delegate \in {"main", "builder", "criteria", Null}
    /\ m_columns \in Texts /\ typed \subseteq DOMAIN m_columns
    /\ top \in 0..RowsOff
    /\ Len(results) <= MaxResults
    /\ \A i \in DOMAIN results : results[i].page \in 0..(results[i].rows - 1)

\* If the user waits, the screen of results shows rows of the query, and if its
\* rule is short enough never to be scrolled, rows that meet every condition
\* typed: none is lost on the way to the server.
ResultsMeetConditions ==
    ~hurried =>
        \A i \in DOMAIN results :
            /\ results[i].of.what = "rows"
            /\ Len(m_columns) + 5 <= Window => results[i].of.of = typed

=============================================================================
