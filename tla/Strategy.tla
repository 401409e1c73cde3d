------------------------------- MODULE Strategy -------------------------------
(***************************************************************************)
(* Strategy: servers in order of priority, for each a goroutine that puts   *)
(* its responses into one channel, and one that reconnects it. With the     *)
(* Grabber as its environment: the dispatcher, the responder and the caller *)
(* of HandleGrabs and Shutdown.                                             *)
(***************************************************************************)
EXTENDS NntpServer, FiniteSets

CONSTANTS
    Order,      \* the servers by priority
    MaxRevived  \* bound: servers that are connected anew

ASSUME StrategyAssumption ==
    /\ MaxRevived \in Nat
    /\ Order \in Seq(Servers) \ {<<>>}
    /\ \A s \in Servers : \E k \in DOMAIN Order : Order[k] = s
    /\ \A j, k \in DOMAIN Order : Order[j] = Order[k] => j = k

VARIABLES
    main, at,   \* the caller: what it is doing, and with which server
    grabRsp,    \* responses with the server they name
    ssT,        \* the state of ss.t
    aggregator, \* the goroutine of aggregateResponses: where it is
    carries,    \* the responses it carries: none, or one
    ticker,     \* the goroutine of reconnectIfDisconnected: where it is
    sending,    \* the request the dispatcher is about to put to a server
    answered    \* the requests answered in the name of each server

mainVars      == <<main, at, ssT>>
aggVars       == <<grabRsp, aggregator, carries>>
strategyVars  == <<mainVars, aggVars, ticker, sending, answered>>
vars          == <<serverVars, strategyVars>>

Capacity == Len(Order) * MaxSessions

\* The requests put to a server that it, or the aggregator, still has.
Asked(s) ==
    UNION {{gReq[s][k] : k \in DOMAIN gReq[s]},
           UNION {holds[s][w] : w \in Workers},
           {gRsp[s][k] : k \in DOMAIN gRsp[s]},
           carries[s],
           {grabRsp[k].req : k \in {n \in DOMAIN grabRsp : grabRsp[n].server = s}}}

Issued(r) ==
    \/ \E s \in Servers : r \in Asked(s) \cup answered[s] \cup lost[s]
    \/ \E s \in Servers : <<s, r>> \in sending

Init ==
    /\ ServerInit
    /\ main = "connect" /\ at = 1
    /\ grabRsp = <<>>
    /\ ssT = "alive"
    /\ aggregator = [s \in Servers |-> "none"] /\ carries = [s \in Servers |-> {}]
    /\ ticker     = [s \in Servers |-> "none"]
    /\ sending    = {}
    /\ answered   = [s \in Servers |-> {}]

-----------------------------------------------------------------------------
\* Connect: for each server HandleGrabs, then its two goroutines.

ConnectServer ==
    /\ main = "connect"
    /\ main' = "connecting"
    /\ HandleGrabs(Order[at])
    /\ UNCHANGED <<at, ssT, aggVars, ticker, sending, answered>>

ServerConnected ==
    /\ main = "connecting" /\ hg[Order[at]] = "idle"
    /\ aggregator' = [aggregator EXCEPT ![Order[at]] = "select"]
    /\ ticker' = [ticker EXCEPT ![Order[at]] = "select"]
    /\ IF at = Len(Order)
       THEN main' = "run" /\ at' = 1
       ELSE main' = "connect" /\ at' = at + 1
    /\ UNCHANGED <<serverVars, ssT, grabRsp, carries, sending, answered>>

-----------------------------------------------------------------------------
\* aggregateResponses: the send does not look at Dying.

Collect(s) ==
    /\ aggregator[s] = "select"
    /\ Grabbed(s)
    /\ carries' = [carries EXCEPT ![s] = {Head(gRsp[s])}]
    /\ aggregator' = [aggregator EXCEPT ![s] = "send"]
    /\ UNCHANGED <<mainVars, grabRsp, ticker, sending, answered>>

\* A mutant: the closure captures the loop's variable, the last server.
PassOnAsLast(s) ==
    /\ aggregator[s] = "send" /\ Len(grabRsp) < Capacity
    /\ \E r \in carries[s] :
            grabRsp' = Append(grabRsp, [server |-> Order[Len(Order)], req |-> r])
    /\ carries' = [carries EXCEPT ![s] = {}]
    /\ aggregator' = [aggregator EXCEPT ![s] = "select"]
    /\ UNCHANGED <<serverVars, mainVars, ticker, sending, answered>>

PassOn(s) ==
    /\ aggregator[s] = "send" /\ Len(grabRsp) < Capacity
    /\ \E r \in carries[s] :
            grabRsp' = Append(grabRsp, [server |-> s, req |-> r])
    /\ carries' = [carries EXCEPT ![s] = {}]
    /\ aggregator' = [aggregator EXCEPT ![s] = "select"]
    /\ UNCHANGED <<serverVars, mainVars, ticker, sending, answered>>

AggregatorExits(s) ==
    /\ aggregator[s] = "select" /\ ssT # "alive"
    /\ aggregator' = [aggregator EXCEPT ![s] = "gone"]
    /\ UNCHANGED <<serverVars, mainVars, grabRsp, carries, ticker, sending, answered>>

Aggregate(s) == Collect(s) \/ PassOn(s) \/ AggregatorExits(s)

-----------------------------------------------------------------------------
\* reconnectIfDisconnected: a tick for a server that is alive has no effect.

Tick(s) ==
    /\ ticker[s] = "select"
    /\ Cardinality({z \in Servers : attempt[z] > 1} \cup {s}) <= MaxRevived
    /\ HandleGrabs(s)
    /\ ticker' = [ticker EXCEPT ![s] = "busy"]
    /\ UNCHANGED <<mainVars, aggVars, sending, answered>>

Ticked(s) ==
    /\ ticker[s] = "busy" /\ hg[s] = "idle"
    /\ ticker' = [ticker EXCEPT ![s] = "select"]
    /\ UNCHANGED <<serverVars, mainVars, aggVars, sending, answered>>

TickerExits(s) ==
    /\ ticker[s] = "select" /\ ssT # "alive"
    /\ ticker' = [ticker EXCEPT ![s] = "gone"]
    /\ UNCHANGED <<serverVars, mainVars, aggVars, sending, answered>>

Reconnect(s) == Tick(s) \/ Ticked(s) \/ TickerExits(s)

-----------------------------------------------------------------------------
\* The Grabber's dispatcher: Alive() first, Grab() later.

Dispatch(s, r) ==
    /\ main = "run" /\ sending = {} /\ Alive(s) /\ ~Issued(r)
    /\ sending' = {<<s, r>>}
    /\ UNCHANGED <<serverVars, mainVars, aggVars, ticker, answered>>

Send(s, r) ==
    /\ <<s, r>> \in sending
    /\ Grab(s, r)
    /\ sending' = {}
    /\ UNCHANGED <<mainVars, aggVars, ticker, answered>>

\* The Grabber's responder, which outlives the Strategy.
Deliver ==
    /\ main \notin {"connect", "connecting"} /\ grabRsp # <<>>
    /\ grabRsp' = Tail(grabRsp)
    /\ answered' = [answered EXCEPT ![Head(grabRsp).server] = @ \cup {Head(grabRsp).req}]
    /\ UNCHANGED <<serverVars, mainVars, aggregator, carries, ticker, sending>>

-----------------------------------------------------------------------------
\* Shutdown, which the Grabber calls after its dispatcher: server by server,
\* then the tomb.

\* A mutant: the tomb is killed before the servers are shut down.
StrategyFirst ==
    /\ main = "run" /\ sending = {}
    /\ main' = "shutdown" /\ at' = 1
    /\ ssT' = "dying"
    /\ UNCHANGED <<serverVars, aggVars, ticker, sending, answered>>

BeginShutdown ==
    /\ main = "run" /\ sending = {}
    /\ main' = "shutdown" /\ at' = 1
    /\ UNCHANGED <<serverVars, ssT, aggVars, ticker, sending, answered>>

ShutdownServer ==
    /\ main = "shutdown" /\ Shutdown(Order[at])
    /\ UNCHANGED <<mainVars, aggVars, ticker, sending, answered>>

NextServer ==
    /\ main = "shutdown" /\ sd[Order[at]] = "done"
    /\ IF at = Len(Order)
       THEN main' = "wait" /\ ssT' = "dying" /\ UNCHANGED at
       ELSE at' = at + 1 /\ UNCHANGED <<main, ssT>>
    /\ UNCHANGED <<serverVars, aggVars, ticker, sending, answered>>

\* A mutant: only the aggregators are waited for.
ReturnEarly ==
    /\ main = "wait" /\ \A s \in Servers : aggregator[s] = "gone"
    /\ main' = "done"
    /\ UNCHANGED <<serverVars, at, ssT, aggVars, ticker, sending, answered>>

ShutdownReturned ==
    /\ main = "wait" /\ \A s \in Servers : aggregator[s] = "gone" /\ ticker[s] = "gone"
    /\ main' = "done"
    /\ UNCHANGED <<serverVars, at, ssT, aggVars, ticker, sending, answered>>

Caller ==
    \/ ConnectServer
    \/ ServerConnected
    \/ BeginShutdown
    \/ ShutdownServer
    \/ NextServer
    \/ ShutdownReturned

-----------------------------------------------------------------------------
Connected(s) == Connecting(s) /\ UNCHANGED strategyVars
Worked(s, g, i) == Work(s, g, i) /\ UNCHANGED strategyVars

\* A panic ends the program.
Next ==
    /\ ~panicked
    /\ \/ Caller
       \/ Deliver
       \/ \E s \in Servers :
            \/ Connected(s)
            \/ \E g \in Attempts, i \in Slots : Worked(s, g, i)
            \/ Aggregate(s)
            \/ Reconnect(s)
            \/ \E r \in Requests : Dispatch(s, r) \/ Send(s, r)

Spec == Init /\ [][Next]_vars

\* Goroutines that can run do, the ticker ticks, connections succeed or fail,
\* sessions answer or fail, and the dispatcher and responder do their work. The
\* caller may never shut down.
Fairness ==
    /\ WF_vars(~panicked /\ (Caller /\ ~BeginShutdown))
    /\ WF_vars(~panicked /\ Deliver)
    /\ \A s \in Servers :
        /\ WF_vars(~panicked /\ Connected(s))
        /\ \A g \in Attempts, i \in Slots : WF_vars(~panicked /\ Worked(s, g, i))
        /\ WF_vars(~panicked /\ Aggregate(s))
        /\ WF_vars(~panicked /\ Reconnect(s))
        /\ \A r \in Requests : WF_vars(~panicked /\ Send(s, r))

FairSpec == Spec /\ Fairness

-----------------------------------------------------------------------------
\* Type correctness.
TypeOK ==
    /\ ServerTypeOK
    /\ main \in {"connect", "connecting", "run", "shutdown", "wait", "done"}
    /\ at \in DOMAIN Order
    /\ grabRsp \in Seq([server : Servers, req : Requests]) /\ Len(grabRsp) <= Capacity
    /\ ssT \in {"alive", "dying"}
    /\ aggregator \in [Servers -> {"none", "select", "send", "gone"}]
    /\ carries \in [Servers -> SUBSET Requests]
    /\ ticker \in [Servers -> {"none", "select", "busy", "gone"}]
    /\ sending \subseteq Servers \X Requests
    /\ answered \in [Servers -> SUBSET Requests]

\* Each request that Server.Grab takes is answered once, in the name of the
\* server it was put to, or lost with a session of that server, through any
\* number of reconnections that leave the channels and old goroutines in place.
Service == INSTANCE GrabService WITH asked <- [s \in Servers |-> Asked(s)]
IsGrabService == Service!Spec

\* When Alive() says so, and HandleGrabs is not still starting them, every
\* session of the server has a goroutine that takes requests: a goroutine that
\* ends takes the tomb with it, and one that looks at a later tomb ends only with that.
AliveIsServed == \A s \in Servers :
    Alive(s) /\ hg[s] # "go" => Running(s, t[s]) = Slots

\* No session is quit under a goroutine that has still to fetch an article with it,
\* unless a tick connected it while Shutdown waited for the tomb before.
QuitsIdle ==
    [][\A s \in Servers : \A w \in open[s] \ open'[s] :
            worker[s][w] \in {"none", "gone"} \/ w[1] > sdTomb[s]]_vars

\* Once Strategy.Shutdown has returned no server is connected any more: the
\* tickers have been waited for.
NoneConnectedAfter ==
    [][main = "done" => \A s \in Servers : open'[s] = open[s] /\ hg'[s] = hg[s]]_vars

\* Each request that Server.Grab takes comes to an end, whatever sessions and
\* connections fail meanwhile, unless its server stays away for good, the Strategy is
\* shut down or Go panics.
EveryRequestEnds == \A s \in Servers, r \in Requests :
    \/ r \in Asked(s) ~> (r \in answered[s] \cup lost[s] \/ main # "run" \/ panicked)
    \/ <>[]~Alive(s)

\* A tick has connected a server anew that Server.Shutdown waits for: for a tomb that
\* nobody kills, or a goroutine that looks at such a tomb instead of its own.
WaitsForRevived == main = "shutdown" /\ sd[Order[at]] = "waiting" /\ Alive(Order[at])

\* Strategy.Shutdown returns, whatever sessions and connections fail and ticks come,
\* unless it ends up waiting for a server that a tick connected under its hands, which
\* then stays connected.
ShutdownReturns ==
    \/ (main = "shutdown") ~> (main = "done" \/ panicked)
    \/ <>[]WaitsForRevived

\* What a comment says. grabber/server.go:240: Shutdown disconnects all servers in
\* this server strategy. So in the end it has returned, and no server is connected.
DisconnectsServers ==
    (main = "shutdown") ~> ((main = "done" /\ \A s \in Servers : ~Alive(s)) \/ panicked)
=============================================================================
