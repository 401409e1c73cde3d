------------------------------- MODULE Failover -------------------------------
(***************************************************************************)
(* What grabby promises of the servers it asks for one segment: the loop   *)
(* dispatch -> Server.Grab -> handleResponses -> handleError -> enqueue ->  *)
(* dispatch, segment by segment, with nothing of the queues, locks and     *)
(* states around it.  Module Grabber is the detailed design.               *)
(***************************************************************************)
EXTENDS RetryPolicy

CONSTANTS
    Segments,       \* the segments to grab
    GroupSeq,       \* GroupSeq[s]: the groups of s's file, in the NZB's order
    Expired         \* pairs <<s, srv>>: s is out of srv's retention

ASSUME FailoverAssumption ==
    /\ GroupSeq \in [Segments -> Seq(Groups)]
    /\ Expired \subseteq Segments \X Servers

VARIABLES
    stage,          \* where each segment is
    hist,           \* its Segment.failedServer, failedGroup and retries
    asked,          \* the <<server, group>> of its request, or <<>>
    alive           \* the servers whose Alive() is true

vars == <<stage, hist, asked, alive>>

Stages == {"queued", "asked", "done", "failed", "broken", "lost"}

TypeOK ==
    /\ stage \in [Segments -> Stages]
    /\ hist \in [Segments -> Histories]
    /\ asked \in [Segments -> (Servers \X Groups) \cup {<<>>}]
    /\ \A s \in Segments : stage[s] = "asked" => asked[s] \in Servers \X Groups
    /\ alive \subseteq Servers

Init ==
    /\ stage = [s \in Segments |-> "queued"]
    /\ hist = [s \in Segments |-> NewHistory]
    /\ asked = [s \in Segments |-> <<>>]
    /\ alive \in SUBSET Servers

-----------------------------------------------------------------------------
\* dispatch gives a server up without asking it: it is dead, the article is
\* older than its retention, or every group of the file failed on it.
Useless(s, srv) ==
    \/ srv \notin alive
    \/ <<s, srv>> \in Expired
    \/ NoMoreGroups(hist[s], GroupSeq[s])

Skip(s) ==
    /\ stage[s] = "queued"
    /\ ~NoMoreServers(hist[s])
    /\ Useless(s, SelectServer(hist[s]))
    /\ hist' = [hist EXCEPT ![s] = FailServer(@, SelectServer(@))]
    /\ UNCHANGED <<stage, asked, alive>>

Ask(s) ==
    /\ stage[s] = "queued"
    /\ ~NoMoreServers(hist[s])
    /\ ~Useless(s, SelectServer(hist[s]))
    /\ stage' = [stage EXCEPT ![s] = "asked"]
    /\ asked' = [asked EXCEPT ![s] = <<SelectServer(hist[s]),
                                       SelectGroup(hist[s], GroupSeq[s])>>]
    /\ UNCHANGED <<hist, alive>>

\* The output file cannot be created: the segment is done with an error.
CannotCreate(s) ==
    /\ stage[s] = "queued"
    /\ stage' = [stage EXCEPT ![s] = "broken"]
    /\ UNCHANGED <<hist, asked, alive>>

\* SelectServer returns NoMoreServersError: the segment is done with an error.
GiveUp(s) ==
    /\ stage[s] = "queued"
    /\ NoMoreServers(hist[s])
    /\ stage' = [stage EXCEPT ![s] = "failed"]
    /\ UNCHANGED <<hist, asked, alive>>

Succeed(s) ==
    /\ stage[s] = "asked"
    /\ stage' = [stage EXCEPT ![s] = "done"]
    /\ asked' = [asked EXCEPT ![s] = <<>>]
    /\ UNCHANGED <<hist, alive>>

Reject(s, err) ==
    /\ stage[s] = "asked"
    /\ hist' = [hist EXCEPT ![s] = HandleError(@, err, asked[s][1], asked[s][2])]
    /\ stage' = [stage EXCEPT ![s] = "queued"]
    /\ asked' = [asked EXCEPT ![s] = <<>>]
    /\ UNCHANGED alive

\* A protocol error ends the session that holds the request, which is never
\* answered, and with it the server: unless that is dead already, or has been
\* connected anew since, with other sessions.
Lose(s) ==
    /\ stage[s] = "asked"
    /\ stage' = [stage EXCEPT ![s] = "lost"]
    /\ asked' = [asked EXCEPT ![s] = <<>>]
    /\ alive' \in {alive, alive \ {asked[s][1]}}
    /\ UNCHANGED hist

\* The Strategy's reconnect ticker revives a dead server.
Reconnect(srv) ==
    /\ srv \notin alive
    /\ alive' = alive \cup {srv}
    /\ UNCHANGED <<stage, hist, asked>>

\* Strategy.Shutdown disconnects every server.
Disconnect ==
    /\ alive # {}
    /\ alive' = {}
    /\ UNCHANGED <<stage, hist, asked>>

Dispatch(s) == Skip(s) \/ Ask(s) \/ GiveUp(s) \/ CannotCreate(s)

Respond(s) == Succeed(s) \/ (\E err \in Errors : Reject(s, err))

Next ==
    \/ \E s \in Segments : Dispatch(s) \/ Respond(s) \/ Lose(s)
    \/ \E srv \in Servers : Reconnect(srv)
    \/ Disconnect

\* The dispatcher takes what is queued, and a request that is not lost is
\* answered, with whatever result.
Fairness == \A s \in Segments : WF_vars(Dispatch(s)) /\ WF_vars(Respond(s))

Safety == Init /\ [][Next]_vars

Spec == Safety /\ Fairness

-----------------------------------------------------------------------------
\* No request is in flight to a server, or for a group, the segment has
\* already failed on (SelectServer, SelectGroup, and FailServer's reset of
\* failedGroup, which must not forget a group of the server being asked).
AsksUntried ==
    \A s \in Segments : stage[s] = "asked" =>
        /\ asked[s][1] \notin hist[s].failedServer
        /\ asked[s][2] \notin hist[s].failedGroup

\* The servers are given up in the Strategy's order of priority: a backup
\* server is never asked, nor written off, before all those ahead of it failed.
InPriorityOrder ==
    \A s \in Segments : \A i, j \in DOMAIN ServerSeq :
        /\ i < j
        /\ ServerSeq[j] \in hist[s].failedServer
             \/ (stage[s] = "asked" /\ asked[s][1] = ServerSeq[j])
        => ServerSeq[i] \in hist[s].failedServer

\* So what is asked next is what comes next: a server is asked when those ahead of
\* it have failed, for a group that has not, and never again once it has failed.
AsksNext == AsksUntried /\ InPriorityOrder

\* Every failed response and every skipped server uses something up, so that
\* neither the retry counter's reset nor the clearing of the failed groups can
\* send a segment round for ever.
AlwaysFurther ==
    [][\A s \in Segments : hist'[s] # hist[s] \/ (stage[s] = "asked" /\ stage'[s] = "queued")
            => Further(hist'[s], hist[s])]_vars

\* Every segment comes to an end, unless a dying session loses its request.
Ends == \A s \in Segments : <>(stage[s] \in {"done", "failed", "broken", "lost"})
=============================================================================
