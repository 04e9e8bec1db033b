---------------------------- MODULE RequestService ----------------------------
(***************************************************************************)
(* What a screen may expect of MySqlServerConnection, with no client,      *)
(* server or thread in sight: a request it asks is answered at most once,  *)
(* to the screen that asked, with the signal id it gave and an array that  *)
(* is its own or a placeholder, or is dropped without a word.              *)
(***************************************************************************)
EXTENDS Naturals, Sequences

CONSTANTS Req, Screen, Signal, Target, Method, Null, Count

VARIABLES phase,      \* idle, waiting, answered, dropped
          asked,      \* who asked, with which signal, for what
          delivered   \* the answers, in the order they were given

svars == <<phase, asked, delivered>>

Init ==
    /\ phase = [r \in Req |-> "idle"]
    /\ asked = [r \in Req |-> [by |-> Null, signal |-> Null, target |-> Null,
                               method |-> Null]]
    /\ delivered = <<>>

Ask(r) ==
    /\ phase[r] = "idle"
    /\ phase' = [phase EXCEPT ![r] = "waiting"]
    /\ \E who \in Screen, sig \in Signal, t \in Target, m \in Method :
          asked' = [asked EXCEPT ![r] = [by |-> who, signal |-> sig,
                                         target |-> t, method |-> m]]
    /\ UNCHANGED delivered

Answer(r) ==
    /\ phase[r] = "waiting"
    /\ phase' = [phase EXCEPT ![r] = "answered"]
    /\ \E of \in {r, Null}, n \in Count :
          delivered' = Append(delivered,
              [req |-> r, to |-> asked[r].by, signal |-> asked[r].signal,
               array |-> [of |-> of, count |-> n]])
    /\ UNCHANGED asked

Drop(r) ==
    /\ phase[r] = "waiting"
    /\ phase' = [phase EXCEPT ![r] = "dropped"]
    /\ UNCHANGED <<asked, delivered>>

Next == \E r \in Req : Ask(r) \/ Answer(r) \/ Drop(r)

Spec == Init /\ [][Next]_svars
=============================================================================
