----------------------------- MODULE GrabService -----------------------------
(***************************************************************************)
(* What a Strategy promises the Grabber: a request is answered once, by the *)
(* server it was put to, or is lost with a session of that server.          *)
(***************************************************************************)
CONSTANTS Servers, Requests

VARIABLES
    asked,    \* the requests each server has still to answer
    answered, \* the requests whose response names the server
    lost      \* the requests that ended a session of the server

vars == <<asked, answered, lost>>

Init ==
    /\ asked    = [s \in Servers |-> {}]
    /\ answered = [s \in Servers |-> {}]
    /\ lost     = [s \in Servers |-> {}]

Grab(s, r) ==
    /\ \A u \in Servers : r \notin asked[u] \cup answered[u] \cup lost[u]
    /\ asked' = [asked EXCEPT ![s] = @ \cup {r}]
    /\ UNCHANGED <<answered, lost>>

Answer(s, r) ==
    /\ r \in asked[s]
    /\ asked' = [asked EXCEPT ![s] = @ \ {r}]
    /\ answered' = [answered EXCEPT ![s] = @ \cup {r}]
    /\ UNCHANGED lost

Lose(s, r) ==
    /\ r \in asked[s]
    /\ asked' = [asked EXCEPT ![s] = @ \ {r}]
    /\ lost' = [lost EXCEPT ![s] = @ \cup {r}]
    /\ UNCHANGED answered

Next == \E s \in Servers, r \in Requests : Grab(s, r) \/ Answer(s, r) \/ Lose(s, r)

Spec == Init /\ [][Next]_vars
=============================================================================
