--------------------------- MODULE ServerConnection ---------------------------
(***************************************************************************)
(* API&Data/Common/MySqlServerConnection.m on top of SQLClient: the one    *)
(* object the screens make their requests through.  A screen sets the      *)
(* connection data, itself as delegate and a signal id, and calls one of   *)
(* eight methods that differ in their SQL and in what they put in          *)
(* m_resultArray; all run connect:, execute:, disconnect and the delegate's *)
(* recivedDataArray::: as nested completions.  Each completion is one block *)
(* of the main queue; the delegate and the signal id are read only when the *)
(* answer is delivered.                                                    *)
(***************************************************************************)
EXTENDS SQLClient

CONSTANTS Screen,    \* objects that may be delegates
          Signal,    \* signal ids the screens use
          Method,    \* kinds of request: a subset of AllMethods
          Patience   \* what the user waits for before the next request

\* "list": getTableNamesInSchema, getColumNamesInTable:, exeQuery:,
\* admin_conf_mgr_isSet:, update_ and insert_admin_conf_mgr::
AllMethods == {"list", "create", "conf"}

\* "none": nothing; "answer": the previous request is answered or dropped;
\* "quiet": and its worker blocks are over too.
AllPatience == {"none", "answer", "quiet"}

ASSUME ConnectionAssumption ==
    /\ Null \notin Screen \cup Signal
    /\ Method \subseteq AllMethods
    /\ Patience \in AllPatience

VARIABLES target,         \* m_host, m_userName, m_password, m_schemaName
          delegate,       \* delegate
          signal_id,      \* signal_id
          m_resultArray,  \* m_resultArray: whose data, and how many elements
          phase,          \* which completion of the request comes next
          asked,          \* history: who asked, with which signal, for what
          delivered,      \* history: every recivedDataArray::: call, in order
          alerted         \* history: requests an error alert was shown for

connVars == <<target, delegate, signal_id, m_resultArray, phase, asked,
              delivered, alerted>>
vars == <<clientVars, connVars>>

Array(of, n) == [of |-> of, count |-> n]
NobodyAsked  == [by |-> Null, signal |-> Null, target |-> Null, method |-> Null]

Init ==
    /\ InitClient
    /\ target = Null
    /\ delegate = Null
    /\ signal_id = Null
    /\ m_resultArray = Array(Null, 0)
    /\ phase = [r \in Req |-> "idle"]
    /\ asked = [r \in Req |-> NobodyAsked]
    /\ delivered = <<>>
    /\ alerted = {}

Waiting(r)  == phase[r] \in {"connecting", "executing"}
AtRest(r)   == ~Waiting(r) /\ cpc[r] \in {"idle", "done"} /\ epc[r] \in {"idle", "done"}
MayAsk ==
    /\ Patience = "answer" => \A q \in Req : ~Waiting(q)
    /\ Patience = "quiet"  => \A q \in Req : AtRest(q)

\* Mutant: only the first request sets its signal id.
AddressSignalOnce(who, sig) ==
    /\ delegate' = who
    /\ signal_id' = IF signal_id = Null THEN sig ELSE signal_id

\* Mutant: only the first request sets itself as delegate.
AddressDelegateOnce(who, sig) ==
    /\ delegate' = IF delegate = Null THEN who ELSE delegate
    /\ signal_id' = sig

\* getInstance::
Address(who, sig) == delegate' = who /\ signal_id' = sig

\* createInstance, getInstance and one of the methods, in one go on the main
\* thread.  A screen that only calls getInstance keeps the connection data.
Ask(r, who, sig, t, m) ==
    /\ phase[r] = "idle"
    /\ MayAsk
    /\ target' = t
    /\ Address(who, sig)
    /\ Connect(r, t)
    /\ phase' = [phase EXCEPT ![r] = "connecting"]
    /\ asked' = [asked EXCEPT ![r] =
          [by |-> who, signal |-> sig, target |-> t, method |-> m]]
    /\ UNCHANGED <<login, connection, logins, procs, epc, columns, output, via,
                   queue, faults, m_resultArray, delivered, alerted>>

(***************************************************************************)
(* The main thread runs the block at the head of its queue.                *)
(***************************************************************************)
Next1(kind) == queue # <<>> /\ Head(queue).kind = kind /\ queue' = Tail(queue)
NextReq     == Head(queue).req

\* error:code:severity: shows an alert.
ErrorAlert ==
    /\ Next1("error")
    /\ alerted' = alerted \cup {NextReq}
    /\ UNCHANGED <<params, login, connection, logins, procs, cpc, epc, columns,
                   output, via, faults, target, delegate, signal_id,
                   m_resultArray, phase, asked, delivered>>

\* completion(NO) of connect: does nothing: nobody is told.
ConnectFailed ==
    /\ Next1("failed")
    /\ phase' = [phase EXCEPT ![NextReq] = "dropped"]
    /\ UNCHANGED <<params, login, connection, logins, procs, cpc, epc, columns,
                   output, via, faults, target, delegate, signal_id,
                   m_resultArray, asked, delivered, alerted>>

\* completion([self connected]) of connect:.
ConnectDone ==
    /\ Next1("connected")
    /\ \E success \in Connected :
          IF success
          THEN /\ Execute(NextReq)
               /\ phase' = [phase EXCEPT ![NextReq] = "executing"]
          ELSE /\ phase' = [phase EXCEPT ![NextReq] = "dropped"]
               /\ UNCHANGED epc
    /\ Note(IF Freed(connection) THEN {"stale connected"} ELSE {})
    /\ UNCHANGED <<params, login, connection, logins, procs, cpc, columns,
                   output, via, target, delegate, signal_id, m_resultArray,
                   asked, delivered, alerted>>

\* Mutant: nil results are not replaced.
ResultArrayRaw(m, r, results, rows) == Array(r, results)

\* What the completion of execute: makes of `results` (nil, or that many
\* tables; `rows` says whether the first one has a row).
ResultArray(m, r, results, rows) ==
    CASE results = Null /\ m = "list" -> Array(Null, 0)
      [] results = Null /\ m # "list" -> Array(Null, 1)
      [] results # Null /\ m = "conf" -> IF results > 0 /\ rows THEN Array(r, 1)
                                         ELSE Array(Null, 1)
      [] results # Null /\ m # "conf" -> Array(r, results)

\* completion(results) of execute:: store, disconnect, deliver.
Deliver ==
    /\ Next1("executed")
    /\ \E rows \in BOOLEAN :
          m_resultArray' = ResultArray(asked[NextReq].method, NextReq,
                                       output[NextReq], rows)
    /\ Disconnect
    /\ delivered' = Append(delivered,
          [req |-> NextReq, to |-> delegate, signal |-> signal_id,
           array |-> m_resultArray'])
    /\ phase' = [phase EXCEPT ![NextReq] = "answered"]
    /\ UNCHANGED <<params, login, connection, logins, cpc, epc, columns, output,
                   via, target, delegate, signal_id, asked, alerted>>

Main == ErrorAlert \/ ConnectFailed \/ ConnectDone \/ Deliver

ClientStep == \E r \in Req : Worker(r) /\ UNCHANGED connVars

\* Which id a new request gets makes no difference.
Newcomer == LET unused == {r \in Req : phase[r] = "idle"}
            IN  IF unused = {} THEN {} ELSE {CHOOSE r \in unused : TRUE}

UserStep == \E r \in Newcomer, who \in Screen, sig \in Signal, t \in Target,
               m \in Method : Ask(r, who, sig, t, m)

Next == UserStep \/ ClientStep \/ Main

Spec == Init /\ [][Next]_vars

\* The main run loop runs its blocks and the worker queue its operations; that
\* dbopen returns is the login timeout's doing, that the execute: calls return
\* is an assumption on the server: SQLClient sets no query timeout.
Fairness ==
    /\ WF_vars(Main)
    /\ \A r \in Req : WF_vars(ConnectStep(r) /\ UNCHANGED connVars)
    /\ \A r \in Req : WF_vars(ExecuteStep(r) /\ UNCHANGED connVars)

FairSpec == Spec /\ Fairness

-----------------------------------------------------------------------------
Arrays == [of : Handle, count : 0..MaxTables \cup {1}]
Answers == [req : Req, to : Screen \cup {Null}, signal : Signal \cup {Null},
            array : Arrays]
Questions == [by : Screen \cup {Null}, signal : Signal \cup {Null},
              target : Target \cup {Null}, method : Method \cup {Null}]
Phases == {"idle", "connecting", "executing", "answered", "dropped"}

TypeOK ==
    /\ ClientTypeOK
    /\ target \in Target \cup {Null}
    /\ delegate \in Screen \cup {Null}
    /\ signal_id \in Signal \cup {Null}
    /\ m_resultArray \in Arrays
    /\ phase \in [Req -> Phases]
    /\ asked \in [Req -> Questions]
    /\ delivered \in Seq(Answers)
    /\ alerted \subseteq Req

\* However requests overlap, a request is answered at most once, only after its
\* connect: completion was told YES, never once it was dropped, and never with
\* the array of another request.
OneAnswer ==
    /\ \A i, j \in 1..Len(delivered) :
          delivered[i].req = delivered[j].req => i = j
    /\ \A i \in 1..Len(delivered) :
          /\ phase[delivered[i].req] = "answered"
          /\ delivered[i].array.of \in {delivered[i].req, Null}

\* The delegate and the signal id are read when the answer arrives, yet if the
\* user waits for each answer they are still those of the request.
RightRequester ==
    Patience # "none" =>
        \A i \in 1..Len(delivered) :
            LET a == asked[delivered[i].req]
            IN  delivered[i].to = a.by /\ delivered[i].signal = a.signal

\* If the user waits for each answer, data comes only over the connection the
\* request opened itself, in the database it asked for; never with the login or
\* from the host of another request, though the worker reads both from shared
\* variables.  That they are its own takes more: a user who waits for the answer
\* only may have them read from a LOGINREC which the previous request's
\* dbloginfree freed, one who waits for the worker too may not.
RightServer ==
    Patience # "none" =>
        \A i \in 1..Len(delivered) :
            LET r    == delivered[i].req
                t    == asked[r].target
                sent == {procs[r].user, procs[r].host}
            IN  delivered[i].array.of = r =>
                    /\ via[r] = {r} /\ procs[r].db = t
                    /\ sent = {t} \/ (Patience = "answer" /\ sent = {Unknown})

\* What waiting buys.  Waiting for the answer leaves the tails of the previous
\* request's blocks (dbloginfree, dbfreebuf) to run against the new request's
\* handles; waiting for those too leaves one misuse: dbfreebuf after the
\* dbclose of the completion that was queued before it.
HandleDiscipline ==
    /\ Patience = "answer" => faults \subseteq {"stale freebuf", "stale login",
                                 "double loginfree", "shared process"}
    /\ Patience = "quiet"  => faults \subseteq {"stale freebuf"}

\* When nothing is running, what is still allocated: the connection of a request
\* that was dropped after dbopen, the column buffers of a statement that failed
\* half way, and no login record.
NoLeak ==
    (Patience = "quiet" /\ queue = <<>> /\ \A r \in Req : AtRest(r)) =>
        \A r \in Req :
            /\ procs[r].state = "open" => phase[r] = "dropped"
            /\ r \in columns => output[r] = Null
            /\ logins[r].state # "live"

\* A request that fails to connect says nothing to its screen, but the alert of
\* err_handler has been shown by then.
DroppedWithAlert ==
    [][\A r \in Req :
          (phase'[r] = "dropped" /\ phase[r] # "dropped" /\ ~ConnectDone)
              => r \in alerted]_vars

\* A user who waits for answers never has a connection closed but the one whose
\* answer is being delivered.
ClosesOwn ==
    [][Patience # "none" =>
          \A p \in Req : (procs[p].state = "open" /\ procs'[p].state = "closed")
              => /\ Len(delivered') = Len(delivered) + 1
                 /\ delivered'[Len(delivered')].req = p]_vars

\* Every request ends: it is answered or dropped.
EveryRequestEnds == \A r \in Req : Waiting(r) ~> phase[r] \in {"answered", "dropped"}

\* SQLClient.h:115: disconnect "disconnects from database server": after a
\* request's disconnect its connection is closed.
DisconnectDisconnects ==
    \A r \in Req : phase[r] = "answered" => procs[r].state # "open"

\* The promise of RequestService, kept for a user who waits for each answer.
Service == INSTANCE RequestService WITH
    phase <- [r \in Req |-> IF Waiting(r) THEN "waiting" ELSE phase[r]],
    Count <- 0..MaxTables \cup {1}
ServiceSpec == Service!Spec
=============================================================================
