------------------------------- MODULE Requests -------------------------------
(***************************************************************************)
(* What the screens over the main one see of MySqlServerConnection (module *)
(* ServerConnection): requests under way, of which each is answered once   *)
(* or never, and the delegate and signal id set last, which every answer   *)
(* goes to and comes with.                                                 *)
(***************************************************************************)
CONSTANTS Req,  \* bound: requests under way at a time
          Null  \* nil

VARIABLES pending,   \* what each request asks for
          delegate,  \* the screen; Null for one that is gone
          signal_id

asking == <<pending, delegate, signal_id>>

Asks(what, of) == [what |-> what, of |-> of]
Nothing        == Asks("nothing", Null)
UnderWay       == {r \in Req : pending[r] # Nothing}
Idle           == UnderWay = {}

InitRequests(who) ==
    /\ pending = [r \in Req |-> Nothing] /\ delegate = who /\ signal_id = 0

\* The app is started again.
NoRequests(who) ==
    /\ pending' = [r \in Req |-> Nothing] /\ delegate' = who /\ signal_id' = 0

\* getInstance::
Address(who, sig) == delegate' = who /\ signal_id' = sig

\* getInstance:: and a request.
Ask(who, sig, request) ==
    /\ \E r \in Req \ UnderWay : pending' = [pending EXCEPT ![r] = request]
    /\ Address(who, sig)

\* The block of r runs recivedDataArray:::, which makes a request of its own.
AskNext(r, who, sig, request) ==
    /\ pending' = [pending EXCEPT ![r] = request]
    /\ Address(who, sig)

\* The block of r is over.
Served(r) == pending' = [pending EXCEPT ![r] = Nothing]

\* The connection keeps a screen that is popped as its delegate.
Gone(who) == delegate' = IF delegate = who THEN Null ELSE delegate
=============================================================================
