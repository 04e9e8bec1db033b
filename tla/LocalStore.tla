------------------------------ MODULE LocalStore ------------------------------
(***************************************************************************)
(* The app's own file: SqlMgr/DBInitailize.m makes it on the first launch, *)
(* SqlMgr/DBConnector.m reads and writes its tables.  Each statement is a  *)
(* transaction of its own; any of them may fail, and no caller is told.    *)
(* The app may be killed between any two steps.                            *)
(*                                                                         *)
(* A row of History is "connected" (flag 1) or "deleted" (flag 0) and is   *)
(* never removed; a row of Query is removed by deleteBuildQuery:.  Ids are *)
(* AUTOINCREMENT: one is never given twice.                                *)
(***************************************************************************)
EXTENDS Naturals

CONSTANTS Conn,   \* bound: dbIDs
          Qry,    \* bound: QueryIds
          Null    \* nil, and the dbID 0 a nil item turns into

ASSUME NullAssumption == Null \notin Conn \cup Qry

VARIABLES launch,   \* where didFinishLaunching is
          file,     \* the file exists
          tables,   \* the tables it has
          history,  \* table History: the flag of each dbID given out
          queries   \* table Query: dbID, and whose tables tableName is from

storeVars == <<launch, file, tables, history, queries>>

\* The order createTables takes them in.
Creation == <<"History", "Connect", "Query">>
Tables   == {"History", "Connect", "Query"}

Flags    == {"unused", "connected", "deleted"}
NoQuery  == [state |-> "unused", db |-> Null, of |-> Null]
Removed  == [state |-> "removed", db |-> Null, of |-> Null]
QueryRow(c, of) == [state |-> "row", db |-> c, of |-> of]

InitStore ==
    /\ launch = "off"
    /\ file = FALSE
    /\ tables = {}
    /\ history = [c \in Conn |-> "unused"]
    /\ queries = [q \in Qry |-> NoQuery]

\* sqlite3_open and a statement make an empty file if there is none, unless
\* that fails.
Touch == file' \in {file, TRUE}

(***************************************************************************)
(* Launching.                                                              *)
(***************************************************************************)

\* Mutant: the tables are created only while the file is not there.
LaunchUnchecked ==
    /\ launch = "off"
    /\ launch' = "copy"
    /\ UNCHANGED <<file, tables, history, queries>>

\* fileExistsAtPath: what exists is taken to be complete.
Launch ==
    /\ launch = "off"
    /\ launch' = IF file THEN "running" ELSE "copy"
    /\ UNCHANGED <<file, tables, history, queries>>

\* copyItemAtPath: of the bundle's file, which has none of the tables; the
\* answer is not looked at.
CopyFile ==
    /\ launch = "copy"
    /\ file' \in {file, TRUE}
    /\ launch' = "create"
    /\ UNCHANGED <<tables, history, queries>>

NextTable == CHOOSE i \in 1..3 : /\ Creation[i] \notin tables
                                 /\ \A j \in 1..(i - 1) : Creation[j] \in tables

\* createTables: one statement, and open before the first one, which makes the
\* file if the copy failed.
CreateTable ==
    /\ launch = "create" /\ tables # Tables
    /\ file' = TRUE
    /\ tables' = tables \cup {Creation[NextTable]}
    /\ UNCHANGED <<launch, history, queries>>

\* open or a CREATE fails: createTables returns, the app goes on.
CreateFails ==
    /\ launch = "create" /\ tables # Tables
    /\ launch' = "running"
    /\ Touch
    /\ UNCHANGED <<tables, history, queries>>

CreateDone ==
    /\ launch = "create" /\ tables = Tables
    /\ launch' = "running"
    /\ UNCHANGED <<file, tables, history, queries>>

Starting == Launch \/ CopyFile \/ CreateTable \/ CreateFails \/ CreateDone

(***************************************************************************)
(* DBConnector's statements.  Each changes its table or, having failed,    *)
(* nothing.                                                                *)
(***************************************************************************)
insertIntoHistory ==
    \/ UNCHANGED history
    \/ /\ "History" \in tables
       /\ \E c \in Conn : /\ history[c] = "unused"
                          /\ history' = [history EXCEPT ![c] = "connected"]

\* Mutant: the row is deleted.
SetFlagErases(c, flag) ==
    \/ UNCHANGED history
    \/ /\ "History" \in tables
       /\ history' = [history EXCEPT
                         ![c] = IF flag = "deleted" THEN "unused" ELSE flag]

\* Mutant: the flag written is one that no list asks for.
SetFlagUnknown(c, flag) ==
    \/ UNCHANGED history
    \/ /\ "History" \in tables
       /\ history' = [history EXCEPT ![c] = "removed"]

\* AddToHistory: and DeleteFromHistory:, update ... where dbID = c.
SetFlag(c, flag) ==
    \/ UNCHANGED history
    \/ /\ "History" \in tables
       /\ history' = [history EXCEPT ![c] = flag]

insertBuildQuery(c, of) ==
    \/ UNCHANGED queries
    \/ /\ "Query" \in tables
       /\ \E q \in Qry : /\ queries[q] = NoQuery
                         /\ queries' = [queries EXCEPT ![q] = QueryRow(c, of)]

\* update ... where QueryId = q: no row, no change.
updateBuildQuery(q, c, of) ==
    \/ UNCHANGED queries
    \/ /\ queries[q].state = "row"
       /\ queries' = [queries EXCEPT ![q] = QueryRow(c, of)]

deleteBuildQuery(q) ==
    \/ UNCHANGED queries
    \/ /\ queries[q].state = "row"
       /\ queries' = [queries EXCEPT ![q] = Removed]

\* getHistoryArray, getDeletedArray: an error on the way leaves a part.
Listed(flag)  == SUBSET {c \in Conn : history[c] = flag}

\* getQuerys: the items are copies.
Item(q, c)    == [id |-> q, db |-> c]
QueriesListed == SUBSET {Item(q, queries[q].db) :
                            q \in {p \in Qry : queries[p].state = "row"}}

StoreTypeOK ==
    /\ launch \in {"off", "copy", "create", "running"}
    /\ file \in BOOLEAN
    /\ tables \subseteq Tables
    /\ history \in [Conn -> Flags]
    /\ queries \in [Qry -> [state : {"unused", "row", "removed"},
                            db : Conn \cup {Null}, of : Conn \cup {Null}]]
=============================================================================
