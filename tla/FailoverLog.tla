------------------------------ MODULE FailoverLog ------------------------------
(***************************************************************************)
(* Failover with a record of what each server did with each segment, which  *)
(* the code does not keep: Segment.failedServer is all that is left of it,  *)
(* and failedGroup and retries are reset for the next server.               *)
(***************************************************************************)
EXTENDS Failover

VARIABLES
    useless,    \* <<s, srv>>: srv was dead, or s too old for it, when its turn came
    refused,    \* <<s, srv>>: srv has no such article, or a damaged one
    noGroup,    \* <<s, srv, g>>: srv has no group g
    others      \* how many other errors srv answered requests for s with

log == <<useless, refused, noGroup, others>>

LogInit ==
    /\ Init
    /\ useless = {} /\ refused = {} /\ noGroup = {}
    /\ others = [s \in Segments |-> [srv \in Servers |-> 0]]

-----------------------------------------------------------------------------
LogSkip(s) ==
    /\ Skip(s)
    /\ LET srv == SelectServer(hist[s])
       IN  useless' = useless \cup
               IF srv \notin alive \/ <<s, srv>> \in Expired THEN {<<s, srv>>} ELSE {}
    /\ UNCHANGED <<refused, noGroup, others>>

LogReject(s, err) ==
    /\ Reject(s, err)
    /\ LET srv == asked[s][1]
       IN  /\ refused' = refused \cup
                  IF err \in {"decode", "noArticle"} THEN {<<s, srv>>} ELSE {}
           /\ noGroup' = noGroup \cup
                  IF err = "noGroup" THEN {<<s, srv, asked[s][2]>>} ELSE {}
           /\ others' = IF err = "other" THEN [others EXCEPT ![s][srv] = @ + 1] ELSE others
    /\ UNCHANGED useless

LogOther ==
    /\ \/ \E s \in Segments : Ask(s) \/ GiveUp(s) \/ CannotCreate(s) \/ Succeed(s) \/ Lose(s)
       \/ \E srv \in Servers : Reconnect(srv)
       \/ Disconnect
    /\ UNCHANGED log

LogNext ==
    \/ \E s \in Segments : LogSkip(s) \/ \E err \in Errors : LogReject(s, err)
    \/ LogOther

LogSpec == LogInit /\ [][LogNext]_<<vars, log>>

FairLogSpec == LogSpec /\ Fairness

-----------------------------------------------------------------------------
\* All that srv could be asked of s for, it was, or it could not be asked at all.
TriedOut(s, srv) ==
    \/ <<s, srv>> \in useless \cup refused
    \/ others[s][srv] > MaxRetry
    \/ \A g \in Listed(GroupSeq[s]) : <<s, srv, g>> \in noGroup

\* No server is passed over: a segment is written off at a server, and given up
\* in the end, only after that very server did not have it, or none of its
\* groups, failed on it as often as it is retried, or was of no use when its turn
\* came. What an earlier server answered is never held against the next, for
\* FailServer forgets the groups and the retries that were used up on it.
NonePassedOver ==
    \A s \in Segments, srv \in Servers :
        srv \in hist[s].failedServer \/ stage[s] = "failed" => TriedOut(s, srv)
=============================================================================
