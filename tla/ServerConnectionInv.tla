-------------------------- MODULE ServerConnectionInv --------------------------
(***************************************************************************)
(* The inductive invariant behind the safety properties of                 *)
(* ServerConnection, in named parts.                                       *)
(***************************************************************************)
EXTENDS ServerConnection

Tail1 == {"loginfree", "done"}   \* connect:'s block has queued its completion
Tail2 == {"freebuf", "done"}     \* execute:'s block has queued its completion

\* execute:'s output is a number of tables until the block fails.
OutputOK == \A r \in Req : epc[r] \in Executing \cup {"idle"} => output[r] \in 0..MaxTables

\* Where the two blocks of a request may be, by what it waits for.
Progress ==
    \A r \in Req :
        /\ phase[r] = "idle"       => cpc[r] = "idle" /\ epc[r] = "idle"
        /\ phase[r] = "connecting" => cpc[r] # "idle" /\ epc[r] = "idle"
        /\ phase[r] = "executing"  => cpc[r] \in Tail1 /\ epc[r] # "idle"
        /\ phase[r] = "answered"   => cpc[r] \in Tail1 /\ epc[r] \in Tail2
        /\ phase[r] = "dropped"    => cpc[r] \in Tail1 /\ epc[r] = "idle"

\* A completion waits in the main queue only for the request that waits for it,
\* after the worker block that queued it went on to its clean-up ...
Expected ==
    \A i \in 1..Len(queue) :
        LET r == queue[i].req IN
        /\ queue[i].kind \in {"failed", "connected"}
              => phase[r] = "connecting" /\ cpc[r] \in Tail1
        /\ queue[i].kind = "executed"
              => phase[r] = "executing" /\ epc[r] \in Tail2

\* ... and only once.
Single ==
    \A i, j \in 1..Len(queue) :
        (/\ queue[i].kind # "error" /\ queue[j].kind # "error"
         /\ queue[i].req = queue[j].req) => i = j

CommonInv == TypeOK /\ OutputOK /\ Progress /\ Expected /\ Single /\ OneAnswer

\* A user who waits has one request waiting, and the shared variables of the
\* main thread are that request's.
Alone == \A p, q \in Req : Waiting(p) /\ Waiting(q) => p = q

Addressed ==
    \A r \in Req : Waiting(r) =>
        /\ delegate = asked[r].by
        /\ signal_id = asked[r].signal
        /\ params = asked[r].target

\* The worker's shared variables, at each place of the request that waits.
OwnLogin ==
    \A r \in Req : Waiting(r) =>
        /\ cpc[r] \in {"populate", "dial"} => login = r
        /\ cpc[r] = "dial" => \/ logins[r].for = asked[r].target
                              \/ logins[r].state = "freed"

\* What dbopen was told: what the request asked for, or what a freed record held.
Told(r) ==
    \/ procs[r].user = asked[r].target /\ procs[r].host = asked[r].target
    \/ procs[r].user = Unknown /\ procs[r].host = Unknown

OpenedFor(r) == connection = r /\ procs[r].state = "open" /\ Told(r)

OwnProcess ==
    \A r \in Req :
        /\ Waiting(r) /\ cpc[r] = "open" => Told(r)
        /\ Waiting(r) /\ cpc[r] = "use" => OpenedFor(r)
        /\ phase[r] = "executing" =>
              OpenedFor(r) /\ procs[r].db = asked[r].target

OwnCompletion ==
    \A i \in 1..Len(queue) : queue[i].kind = "connected" =>
        LET r == queue[i].req
        IN  OpenedFor(r) /\ procs[r].db = asked[r].target

OwnCalls ==
    \A r \in Req :
        /\ epc[r] \in {"idle", "cmd"} => via[r] \subseteq {r}
        /\ epc[r] \notin {"idle", "cmd"} => via[r] = {r}

\* RightServer, but for what the worker's being over adds to it.
OwnServer ==
    Patience # "none" =>
        \A i \in 1..Len(delivered) :
            LET r == delivered[i].req
            IN  delivered[i].array.of = r =>
                    via[r] = {r} /\ Told(r) /\ procs[r].db = asked[r].target

WaitingInv ==
    Patience # "none" =>
        /\ Alone /\ Addressed /\ OwnLogin /\ OwnProcess /\ OwnCompletion
        /\ OwnCalls /\ RightRequester /\ OwnServer

IInv == CommonInv /\ WaitingInv

(***************************************************************************)
(* What becomes of the records FreeTDS gave out, on top of IInv.           *)
(***************************************************************************)

\* error: is queued before the NO of a failure.
Alerted ==
    \A i \in 1..Len(queue) : queue[i].kind = "failed" =>
        \/ queue[i].req \in alerted
        \/ \E j \in 1..Len(queue) : j < i /\ queue[j] = Block("error", queue[i].req)

\* Column buffers are there while rows are read, or after a failure.
ColumnsUsed == \A r \in columns : epc[r] = "rows" \/ output[r] = Null

\* A connection is open between the dbopen and the answer of its request.
OpenWhileNeeded ==
    Patience # "none" =>
        \A r \in Req : procs[r].state = "open" => phase[r] \notin {"idle", "answered"}

\* A user who waits for the blocks too has one request not at rest, `login` is
\* its record, and that is the one LOGINREC that is allocated.
OneAtWork == \A p, q \in Req : ~AtRest(p) /\ ~AtRest(q) => p = q

LoginHeld ==
    \A r \in Req :
        /\ cpc[r] \in {"populate", "dial", "open", "use"} =>
              login = r /\ logins[r].state = "live"
        /\ cpc[r] = "loginfree" =>
              login = Null \/ (login = r /\ logins[r].state = "live")
        /\ logins[r].state = "live" =>
              login = r /\ cpc[r] \in {"populate", "dial", "open", "use", "loginfree"}

\* dbopen read no record that was freed.
AllKnown == \A r \in Req : Unknown \notin {procs[r].user, procs[r].host}

QuietInv == Patience = "quiet" => OneAtWork /\ LoginHeld /\ AllKnown

HandlesInv ==
    Alerted /\ ColumnsUsed /\ OpenWhileNeeded /\ QuietInv /\ HandleDiscipline
=============================================================================
