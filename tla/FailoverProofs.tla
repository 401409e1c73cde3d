---------------------------- MODULE FailoverProofs ----------------------------
(***************************************************************************)
(* Proofs about Failover and FailoverLog, for every set of servers, groups  *)
(* and segments, every order of priority and every retry limit.            *)
(***************************************************************************)
EXTENDS FailoverLog, RetryPolicyProofs

\* The inductive invariant: the two halves of AsksNext support each other,
\* AsksUntried because Ask follows SelectServer, InPriorityOrder because only
\* the server that was selected, or asked, is ever added to failedServer.
Inv == TypeOK /\ AsksUntried /\ InPriorityOrder

LEMMA InitInv == Init => Inv
<1> SUFFICES ASSUME Init PROVE Inv
  OBVIOUS
<1>1. TypeOK
  BY HistoryTypes DEF Init, TypeOK, Stages
<1>2. AsksUntried /\ InPriorityOrder
  BY DEF Init, AsksUntried, InPriorityOrder, NewHistory
<1> QED  BY <1>1, <1>2 DEF Inv

LEMMA SkipInv ==
    ASSUME Inv, NEW s \in Segments, Skip(s)
    PROVE  Inv' /\ Further(hist'[s], hist[s])
<1> USE DEF Inv
<1>1. hist[s] \in Histories /\ ~NoMoreServers(hist[s])
  BY DEF TypeOK, Skip
<1>2. PICK i \in DOMAIN ServerSeq :
          /\ SelectServer(hist[s]) = ServerSeq[i]
          /\ SelectServer(hist[s]) \in Servers \ hist[s].failedServer
          /\ \A j \in DOMAIN ServerSeq : j < i => ServerSeq[j] \in hist[s].failedServer
  BY <1>1, SelectServerSpec
<1>3. hist' = [hist EXCEPT ![s] = FailServer(hist[s], ServerSeq[i])]
  BY <1>2 DEF Skip
<1>4. hist'[s] = FailServer(hist[s], ServerSeq[i]) /\ hist'[s] \in Histories
  BY <1>1, <1>2, <1>3, HistoryTypes DEF TypeOK
<1>5. hist'[s].failedServer = hist[s].failedServer \cup {ServerSeq[i]}
  BY <1>4 DEF FailServer
<1>6. \A t \in Segments \ {s} : hist'[t] = hist[t]
  BY <1>3 DEF TypeOK
<1>7. stage[s] = "queued" /\ UNCHANGED <<stage, asked, alive>>
  BY DEF Skip
<1>8. TypeOK'
  BY <1>3, <1>4, <1>7 DEF TypeOK
<1>9. AsksUntried'
  BY <1>6, <1>7 DEF AsksUntried
<1>10. InPriorityOrder'
  <2> SUFFICES ASSUME NEW t \in Segments, NEW k \in DOMAIN ServerSeq,
                      NEW l \in DOMAIN ServerSeq, k < l,
                      \/ ServerSeq[l] \in hist'[t].failedServer
                      \/ stage'[t] = "asked" /\ asked'[t][1] = ServerSeq[l]
               PROVE  ServerSeq[k] \in hist'[t].failedServer
    BY DEF InPriorityOrder
  <2>1. CASE t # s
    BY <2>1, <1>6, <1>7 DEF InPriorityOrder
  <2>2. CASE t = s /\ ServerSeq[l] \in hist[s].failedServer
    BY <2>2, <1>5 DEF InPriorityOrder
  <2>3. CASE t = s /\ ServerSeq[l] = ServerSeq[i]
    BY <2>3, <1>2, <1>5, RetryAssumption
  <2> QED  BY <2>1, <2>2, <2>3, <1>5, <1>7
<1>11. Further(hist'[s], hist[s])
  BY <1>2, <1>5 DEF Further
<1> QED  BY <1>8, <1>9, <1>10, <1>11

LEMMA AskInv ==
    ASSUME Inv, NEW s \in Segments, Ask(s)
    PROVE  Inv' /\ UNCHANGED hist
<1> USE DEF Inv
<1>1. hist[s] \in Histories /\ ~NoMoreServers(hist[s])
  BY DEF TypeOK, Ask
<1>2. PICK i \in DOMAIN ServerSeq :
          /\ SelectServer(hist[s]) = ServerSeq[i]
          /\ SelectServer(hist[s]) \in Servers \ hist[s].failedServer
          /\ \A j \in DOMAIN ServerSeq : j < i => ServerSeq[j] \in hist[s].failedServer
  BY <1>1, SelectServerSpec
<1>3. GroupSeq[s] \in Seq(Groups) /\ ~NoMoreGroups(hist[s], GroupSeq[s])
  BY FailoverAssumption DEF Ask, Useless
<1>4. SelectGroup(hist[s], GroupSeq[s]) \in Groups \ hist[s].failedGroup
  BY <1>1, <1>3, SelectGroupSpec
<1> DEFINE g == SelectGroup(hist[s], GroupSeq[s])
<1>5. /\ stage' = [stage EXCEPT ![s] = "asked"]
      /\ asked' = [asked EXCEPT ![s] = <<ServerSeq[i], g>>]
      /\ UNCHANGED <<hist, alive>>
  BY <1>2 DEF Ask
<1> HIDE DEF g
<1>6. g \in Groups \ hist[s].failedGroup
  BY <1>4 DEF g
<1>7. TypeOK'
  BY <1>2, <1>5, <1>6 DEF TypeOK, Stages
<1>8. AsksUntried'
  BY <1>2, <1>5, <1>6 DEF AsksUntried, TypeOK
<1>9. InPriorityOrder'
  <2> SUFFICES ASSUME NEW t \in Segments, NEW k \in DOMAIN ServerSeq,
                      NEW l \in DOMAIN ServerSeq, k < l,
                      \/ ServerSeq[l] \in hist[t].failedServer
                      \/ stage'[t] = "asked" /\ asked'[t][1] = ServerSeq[l]
               PROVE  ServerSeq[k] \in hist[t].failedServer
    BY <1>5 DEF InPriorityOrder
  <2>1. CASE t # s \/ ServerSeq[l] \in hist[t].failedServer
    BY <2>1, <1>5 DEF InPriorityOrder, TypeOK
  <2>2. CASE t = s /\ asked'[s][1] = ServerSeq[l]
    <3>1. ServerSeq[l] = ServerSeq[i]
      BY <2>2, <1>5 DEF TypeOK
    <3>2. l = i
      BY <3>1, RetryAssumption
    <3> QED  BY <3>2, <2>2, <1>2
  <2> QED  BY <2>1, <2>2
<1> QED  BY <1>5, <1>7, <1>8, <1>9

LEMMA RejectInv ==
    ASSUME Inv, NEW s \in Segments, NEW err \in Errors, Reject(s, err)
    PROVE  Inv' /\ Further(hist'[s], hist[s])
<1> USE DEF Inv
<1> DEFINE srv == asked[s][1]
           g   == asked[s][2]
           h2  == HandleError(hist[s], err, srv, g)
<1>1. /\ hist[s] \in Histories
      /\ stage[s] = "asked"
      /\ srv \in Servers \ hist[s].failedServer
      /\ g \in Groups \ hist[s].failedGroup
  BY DEF TypeOK, Reject, AsksUntried
<1>2. /\ hist' = [hist EXCEPT ![s] = h2]
      /\ stage' = [stage EXCEPT ![s] = "queued"]
      /\ asked' = [asked EXCEPT ![s] = <<>>]
      /\ UNCHANGED alive
  BY DEF Reject
<1> HIDE DEF h2
<1>3. /\ h2 \in Histories
      /\ Further(h2, hist[s])
      /\ \/ h2.failedServer = hist[s].failedServer
         \/ h2.failedServer = hist[s].failedServer \cup {srv}
  BY <1>1, HandleErrorSpec DEF h2
<1>4. TypeOK'
  BY <1>2, <1>3 DEF TypeOK, Stages
<1>5. AsksUntried'
  BY <1>2 DEF AsksUntried, TypeOK
<1>6. InPriorityOrder'
  <2> SUFFICES ASSUME NEW t \in Segments, NEW k \in DOMAIN ServerSeq,
                      NEW l \in DOMAIN ServerSeq, k < l,
                      \/ ServerSeq[l] \in hist'[t].failedServer
                      \/ stage'[t] = "asked" /\ asked'[t][1] = ServerSeq[l]
               PROVE  ServerSeq[k] \in hist'[t].failedServer
    BY DEF InPriorityOrder
  <2>1. CASE t # s
    BY <2>1, <1>2 DEF InPriorityOrder, TypeOK
  <2>2. CASE t = s
    <3>1. hist'[s] = h2 /\ stage'[s] = "queued"
      BY <1>2 DEF TypeOK
    <3>2. ServerSeq[l] \in hist[s].failedServer \/ asked[s][1] = ServerSeq[l]
      BY <3>1, <2>2, <1>3
    <3>3. ServerSeq[k] \in hist[s].failedServer
      BY <3>2, <1>1 DEF InPriorityOrder
    <3> QED  BY <3>1, <3>3, <2>2, <1>3
  <2> QED  BY <2>1, <2>2
<1> QED  BY <1>2, <1>3, <1>4, <1>5, <1>6 DEF TypeOK

\* The steps that change no history: a segment ends, or a server dies or
\* comes back.
LEMMA OtherInv ==
    ASSUME Inv,
           \/ \E s \in Segments : GiveUp(s) \/ CannotCreate(s) \/ Succeed(s) \/ Lose(s)
           \/ \E srv \in Servers : Reconnect(srv)
           \/ Disconnect
    PROVE  Inv' /\ UNCHANGED hist
<1> USE DEF Inv
<1>1. CASE \E s \in Segments : GiveUp(s)
  <2> PICK s \in Segments : GiveUp(s)
    BY <1>1
  <2>2. TypeOK'
    BY DEF GiveUp, TypeOK, Stages
  <2>3. AsksUntried' /\ InPriorityOrder'
    BY DEF GiveUp, TypeOK, AsksUntried, InPriorityOrder
  <2> QED  BY <2>2, <2>3 DEF GiveUp
<1>2. CASE \E s \in Segments : CannotCreate(s) \/ Succeed(s) \/ Lose(s)
  <2>1. TypeOK'
    BY <1>2 DEF CannotCreate, Succeed, Lose, TypeOK, Stages
  <2>2. AsksUntried' /\ InPriorityOrder'
    BY <1>2 DEF CannotCreate, Succeed, Lose, TypeOK, AsksUntried, InPriorityOrder
  <2> QED  BY <1>2, <2>1, <2>2 DEF CannotCreate, Succeed, Lose
<1>3. CASE Disconnect \/ \E srv \in Servers : Reconnect(srv)
  BY <1>3 DEF Disconnect, Reconnect, TypeOK, AsksUntried, InPriorityOrder
<1> QED  BY <1>1, <1>2, <1>3

LEMMA StutterInv == ASSUME Inv, UNCHANGED vars PROVE Inv'
BY DEF Inv, vars, TypeOK, AsksUntried, InPriorityOrder

LEMMA NextInv == ASSUME Inv, [Next]_vars PROVE Inv'
BY SkipInv, AskInv, RejectInv, OtherInv, StutterInv
   DEF Next, Dispatch, Respond

THEOREM Invariance == Spec => []Inv
<1>1. Inv /\ [Next]_vars => Inv'
  BY NextInv
<1> QED  BY <1>1, InitInv, PTL DEF Spec, Safety

\* The state of the failover loop keeps its type.
THEOREM TypeCorrect == Spec => []TypeOK
<1>1. Inv => TypeOK
  BY DEF Inv
<1> QED  BY <1>1, Invariance, PTL

\* Servers are used and written off in order of priority, and none is asked, nor
\* for a group, that failed before.
THEOREM AsksOnlyNext == Spec => []AsksNext
<1>1. Inv => AsksNext
  BY DEF Inv, AsksNext
<1> QED  BY <1>1, Invariance, PTL

\* Every rejected answer and every skipped server uses something up.  Further
\* is a strict order on Histories, which are finite for finitely many servers
\* and groups, so the loop ends.
THEOREM StepsFurther == Spec => AlwaysFurther
<1> DEFINE Back(s) == hist'[s] # hist[s] \/ (stage[s] = "asked" /\ stage'[s] = "queued")
           Step == \A s \in Segments : Back(s) => Further(hist'[s], hist[s])
<1>1. ASSUME Inv, [Next]_vars PROVE [Step]_vars
  <2>1. ASSUME NEW s \in Segments, Skip(s) \/ \E err \in Errors : Reject(s, err)
        PROVE  Step
    <3>1. Further(hist'[s], hist[s])
      BY <1>1, <2>1, SkipInv, RejectInv
    <3>2. \A t \in Segments \ {s} : hist'[t] = hist[t] /\ stage'[t] = stage[t]
      BY <1>1, <2>1 DEF Skip, Reject, Inv, TypeOK
    <3> QED  BY <3>1, <3>2
  <2>2. ASSUME NEW s \in Segments, Ask(s) \/ GiveUp(s) \/ CannotCreate(s) \/ Succeed(s) \/ Lose(s)
        PROVE  Step
    BY <1>1, <2>2 DEF Ask, GiveUp, CannotCreate, Succeed, Lose, Inv, TypeOK
  <2>3. CASE Disconnect \/ \E srv \in Servers : Reconnect(srv)
    BY <2>3 DEF Disconnect, Reconnect
  <2>4. CASE UNCHANGED vars
    BY <2>4
  <2> QED  BY <1>1, <2>1, <2>2, <2>3, <2>4 DEF Next, Dispatch, Respond
<1> QED  BY <1>1, Invariance, PTL DEF Spec, Safety, AlwaysFurther

-----------------------------------------------------------------------------
\* FailoverLog. What is held against the server whose turn it is - the failed
\* groups and the retries - happened at that server.

Turn(s, i) ==
    /\ ServerSeq[i] \notin hist[s].failedServer
    /\ \A j \in DOMAIN ServerSeq : j < i => ServerSeq[j] \in hist[s].failedServer

UsedUpAt(s, srv) ==
    /\ hist[s].retries <= others[s][srv]
    /\ \A g \in hist[s].failedGroup : <<s, srv, g>> \in noGroup

OthersOK == others \in [Segments -> [Servers -> Nat]]

OnItsTurn == \A s \in Segments, i \in DOMAIN ServerSeq :
    Turn(s, i) => UsedUpAt(s, ServerSeq[i])

WrittenOff == \A s \in Segments : \A srv \in hist[s].failedServer : TriedOut(s, srv)

GivenUpLast == \A s \in Segments : stage[s] = "failed" => hist[s].failedServer = Servers

LogInv == Inv /\ OthersOK /\ OnItsTurn /\ WrittenOff /\ GivenUpLast

\* The record only grows.
Grows ==
    /\ useless \subseteq useless' /\ refused \subseteq refused' /\ noGroup \subseteq noGroup'
    /\ \A s \in Segments, srv \in Servers : others[s][srv] <= others'[s][srv]

LEMMA StaysTriedOut ==
    ASSUME OthersOK, OthersOK', Grows, NEW s \in Segments, NEW srv \in Servers, TriedOut(s, srv)
    PROVE  TriedOut(s, srv)'
<1>1. others[s][srv] \in Nat /\ others'[s][srv] \in Nat /\ others[s][srv] <= others'[s][srv]
  BY DEF OthersOK, Grows
<1>2. others[s][srv] > MaxRetry => others'[s][srv] > MaxRetry
  BY <1>1, RetryAssumption
<1> QED  BY <1>2 DEF TriedOut, Grows

LEMMA StaysUsedUp ==
    ASSUME Inv, OthersOK, OthersOK', Grows, NEW s \in Segments, NEW srv \in Servers,
           UsedUpAt(s, srv), hist'[s] = hist[s]
    PROVE  UsedUpAt(s, srv)'
<1>1. /\ hist[s].retries \in Nat
      /\ others[s][srv] \in Nat /\ others'[s][srv] \in Nat /\ others[s][srv] <= others'[s][srv]
  BY RetryAssumption DEF Inv, TypeOK, Histories, OthersOK, Grows
<1>2. hist[s].retries <= others'[s][srv]
  BY <1>1 DEF UsedUpAt
<1> QED  BY <1>2 DEF UsedUpAt, Grows

\* A step for the server whose turn it is: it is written off, for a reason that is on
\* record, or what the segment remembers of it is.
LEMMA TurnStep ==
    ASSUME LogInv, Inv', OthersOK', Grows, NEW s \in Segments,
           NEW i \in DOMAIN ServerSeq, Turn(s, i), stage'[s] # "failed",
           \A x \in Segments \ {s} : hist'[x] = hist[x] /\ stage'[x] = stage[x],
           \/ hist'[s] = FailServer(hist[s], ServerSeq[i]) /\ TriedOut(s, ServerSeq[i])'
           \/ hist'[s].failedServer = hist[s].failedServer /\ UsedUpAt(s, ServerSeq[i])'
    PROVE  LogInv'
<1>1. GivenUpLast'
  BY DEF LogInv, GivenUpLast
<1>2. \A k \in DOMAIN ServerSeq : ServerSeq[k] \in Servers
  BY RetryAssumption
<1>3. \A x \in Segments : hist[x].failedServer \subseteq Servers
  BY DEF LogInv, Inv, TypeOK, Histories
<1>4. WrittenOff'
  <2> SUFFICES ASSUME NEW x \in Segments, NEW srv \in hist'[x].failedServer
               PROVE  TriedOut(x, srv)'
    BY DEF WrittenOff
  <2>1. CASE srv \in hist[x].failedServer
    BY <2>1, <1>3, StaysTriedOut DEF LogInv, WrittenOff
  <2>2. CASE srv \notin hist[x].failedServer
    <3>1. x = s /\ hist'[s] = FailServer(hist[s], ServerSeq[i]) /\ TriedOut(s, ServerSeq[i])'
      BY <2>2
    <3>2. srv = ServerSeq[i]
      BY <2>2, <3>1 DEF FailServer
    <3> QED  BY <3>1, <3>2
  <2> QED  BY <2>1, <2>2
<1>5. OnItsTurn'
  <2> SUFFICES ASSUME NEW x \in Segments, NEW k \in DOMAIN ServerSeq, Turn(x, k)'
               PROVE  UsedUpAt(x, ServerSeq[k])'
    BY DEF OnItsTurn
  <2>1. CASE x # s
    <3>1. hist'[x] = hist[x] /\ Turn(x, k)
      BY <2>1 DEF Turn
    <3>2. UsedUpAt(x, ServerSeq[k])
      BY <3>1 DEF LogInv, OnItsTurn
    <3> QED  BY <1>2, <3>1, <3>2, StaysUsedUp DEF LogInv
  <2>2. CASE x = s /\ hist'[s] = FailServer(hist[s], ServerSeq[i])
    <3>1. hist'[s].retries = 0 /\ hist'[s].failedGroup = {}
      BY <2>2 DEF FailServer
    <3>2. others'[s][ServerSeq[k]] \in Nat
      BY <1>2 DEF OthersOK
    <3> QED  BY <2>2, <3>1, <3>2 DEF UsedUpAt
  <2>3. CASE /\ x = s /\ hist'[s].failedServer = hist[s].failedServer
             /\ UsedUpAt(s, ServerSeq[i])'
    <3>1. k \in Nat /\ i \in Nat
      BY RetryAssumption
    <3>2. ~(k < i) /\ ~(i < k)
      BY <2>3 DEF Turn
    <3>3. k = i
      BY <3>1, <3>2
    <3> QED  BY <2>3, <3>3
  <2> QED  BY <2>1, <2>2, <2>3
<1> QED  BY <1>1, <1>4, <1>5 DEF LogInv

\* A server that is selected, or asked, is the one whose turn it is.
LEMMA SelectedOnTurn ==
    ASSUME Inv, NEW s \in Segments, ~NoMoreServers(hist[s])
    PROVE  \E i \in DOMAIN ServerSeq : Turn(s, i) /\ SelectServer(hist[s]) = ServerSeq[i]
<1>1. hist[s] \in Histories
  BY DEF Inv, TypeOK
<1> QED  BY <1>1, SelectServerSpec DEF Turn

LEMMA AskedOnTurn ==
    ASSUME Inv, NEW s \in Segments, stage[s] = "asked"
    PROVE  \E i \in DOMAIN ServerSeq : Turn(s, i) /\ asked[s][1] = ServerSeq[i]
<1>1. asked[s][1] \in Servers /\ asked[s][1] \notin hist[s].failedServer
  BY DEF Inv, TypeOK, AsksUntried
<1>2. PICK i \in DOMAIN ServerSeq : asked[s][1] = ServerSeq[i]
  BY <1>1, RetryAssumption DEF Listed
<1> QED  BY <1>1, <1>2 DEF Turn, Inv, InPriorityOrder

LEMMA SkipLog ==
    ASSUME LogInv, NEW s \in Segments, LogSkip(s)
    PROVE  LogInv'
<1>1. Skip(s) /\ Inv' /\ ~NoMoreServers(hist[s])
  BY SkipInv DEF LogInv, LogSkip, Skip
<1>2. PICK i \in DOMAIN ServerSeq : Turn(s, i) /\ SelectServer(hist[s]) = ServerSeq[i]
  BY <1>1, SelectedOnTurn DEF LogInv
<1> DEFINE srv == ServerSeq[i]
<1>3. /\ hist' = [hist EXCEPT ![s] = FailServer(hist[s], srv)]
      /\ stage[s] = "queued" /\ stage' = stage
      /\ Useless(s, srv)
  BY <1>1, <1>2 DEF Skip
<1>4. hist'[s] = FailServer(hist[s], srv) /\ \A x \in Segments \ {s} : hist'[x] = hist[x]
  BY <1>3 DEF LogInv, Inv, TypeOK
<1>5. /\ srv \notin alive \/ <<s, srv>> \in Expired => <<s, srv>> \in useless'
      /\ useless \subseteq useless' /\ UNCHANGED <<refused, noGroup, others>>
  BY <1>2 DEF LogSkip
<1>6. srv \in Servers
  BY RetryAssumption
<1>7. OthersOK' /\ Grows
  BY <1>5 DEF LogInv, OthersOK, Grows
<1>8. UsedUpAt(s, srv)
  BY <1>2 DEF LogInv, OnItsTurn
<1>9. TriedOut(s, srv)'
  BY <1>3, <1>5, <1>8 DEF Useless, NoMoreGroups, UsedUpAt, TriedOut
<1> QED  BY <1>1, <1>2, <1>3, <1>4, <1>7, <1>9, TurnStep

LEMMA RejectLog ==
    ASSUME LogInv, NEW s \in Segments, NEW err \in Errors, LogReject(s, err)
    PROVE  LogInv'
<1>1. Reject(s, err) /\ Inv' /\ stage[s] = "asked"
  BY RejectInv DEF LogInv, LogReject, Reject
<1>2. PICK i \in DOMAIN ServerSeq : Turn(s, i) /\ asked[s][1] = ServerSeq[i]
  BY <1>1, AskedOnTurn DEF LogInv
<1> DEFINE srv == ServerSeq[i]
           g   == asked[s][2]
<1>3. /\ hist' = [hist EXCEPT ![s] = HandleError(hist[s], err, srv, g)]
      /\ stage' = [stage EXCEPT ![s] = "queued"]
  BY <1>1, <1>2 DEF Reject
<1>4. /\ hist'[s] = HandleError(hist[s], err, srv, g) /\ stage'[s] = "queued"
      /\ \A x \in Segments \ {s} : hist'[x] = hist[x] /\ stage'[x] = stage[x]
  BY <1>3 DEF LogInv, Inv, TypeOK
<1>5. /\ err \in {"decode", "noArticle"} => <<s, srv>> \in refused'
      /\ err = "noGroup" => <<s, srv, g>> \in noGroup'
      /\ refused \subseteq refused' /\ noGroup \subseteq noGroup' /\ useless' = useless
  BY <1>2 DEF LogReject
<1>6. others' = IF err = "other" THEN [others EXCEPT ![s][srv] = @ + 1] ELSE others
  BY <1>2 DEF LogReject
<1>7. srv \in Servers /\ others \in [Segments -> [Servers -> Nat]]
  BY RetryAssumption DEF LogInv, OthersOK
<1>8. OthersOK' /\ (err = "other" => others'[s][srv] = others[s][srv] + 1)
  BY <1>6, <1>7 DEF OthersOK
<1>9. \A x \in Segments, v \in Servers : others[x][v] <= others'[x][v]
  BY <1>6, <1>7
<1>10. Grows
  BY <1>5, <1>9 DEF Grows
<1>11. /\ UsedUpAt(s, srv) /\ others[s][srv] \in Nat
       /\ hist[s] \in Histories
  BY <1>2, <1>7 DEF LogInv, OnItsTurn, Inv, TypeOK
<1>12. CASE err \in {"decode", "noArticle"}
  <2>1. hist'[s] = FailServer(hist[s], srv)
    BY <1>4, <1>12 DEF HandleError
  <2>2. TriedOut(s, srv)'
    BY <1>5, <1>12 DEF TriedOut
  <2> QED  BY <1>1, <1>2, <1>4, <1>8, <1>10, <2>1, <2>2, TurnStep
<1>13. CASE err = "noGroup"
  <2>1. hist'[s] = FailGroup(hist[s], g)
    BY <1>4, <1>13 DEF HandleError
  <2>2. /\ hist'[s].failedServer = hist[s].failedServer
        /\ hist'[s].retries = hist[s].retries
        /\ hist'[s].failedGroup = hist[s].failedGroup \cup {g}
    BY <1>11, <2>1 DEF FailGroup, Histories
  <2>3. others' = others
    BY <1>6, <1>13
  <2>4. UsedUpAt(s, srv)'
    BY <1>5, <1>11, <1>13, <2>2, <2>3 DEF UsedUpAt
  <2> QED  BY <1>1, <1>2, <1>4, <1>8, <1>10, <2>2, <2>4, TurnStep
<1>14. CASE err = "other" /\ MayRetry(hist[s])
  <2>1. hist'[s] = RetryServer(hist[s])
    BY <1>4, <1>14 DEF HandleError
  <2>2. /\ hist'[s].failedServer = hist[s].failedServer
        /\ hist'[s].retries = hist[s].retries + 1
        /\ hist'[s].failedGroup = hist[s].failedGroup
    BY <1>11, <2>1 DEF RetryServer, Histories
  <2>3. hist[s].retries \in Nat /\ hist[s].retries <= others[s][srv]
    BY <1>11, RetryAssumption DEF Histories, UsedUpAt
  <2>4. hist'[s].retries <= others'[s][srv]
    BY <1>8, <1>11, <1>14, <2>2, <2>3
  <2>5. UsedUpAt(s, srv)'
    BY <1>5, <1>11, <2>2, <2>4 DEF UsedUpAt
  <2> QED  BY <1>1, <1>2, <1>4, <1>8, <1>10, <2>2, <2>5, TurnStep
<1>15. CASE err = "other" /\ ~MayRetry(hist[s])
  <2>1. hist'[s] = FailServer(hist[s], srv)
    BY <1>4, <1>15 DEF HandleError
  <2>2. hist[s].retries \in 0 .. MaxRetry /\ ~(hist[s].retries < MaxRetry)
    BY <1>11, <1>15 DEF Histories, MayRetry
  <2>3. hist[s].retries <= others[s][srv]
    BY <1>11 DEF UsedUpAt
  <2>4. others'[s][srv] > MaxRetry
    BY <1>8, <1>11, <1>15, <2>2, <2>3, RetryAssumption
  <2>5. TriedOut(s, srv)'
    BY <2>4 DEF TriedOut
  <2> QED  BY <1>1, <1>2, <1>4, <1>8, <1>10, <2>1, <2>5, TurnStep
<1> QED  BY <1>12, <1>13, <1>14, <1>15 DEF Errors

\* Steps that leave histories and record as they are.
LEMMA SameLog ==
    ASSUME LogInv, Inv', UNCHANGED <<hist, log>>,
           \A s \in Segments : stage'[s] = "failed" =>
               stage[s] = "failed" \/ hist[s].failedServer = Servers
    PROVE  LogInv'
BY DEF LogInv, log, OthersOK, OnItsTurn, Turn, UsedUpAt, WrittenOff, TriedOut, GivenUpLast

LEMMA OtherLog ==
    ASSUME LogInv, LogOther
    PROVE  LogInv'
<1>1. UNCHANGED log
  BY DEF LogOther
<1>2. CASE \E s \in Segments : Ask(s)
  <2> PICK s \in Segments : Ask(s)
    BY <1>2
  <2>1. Inv' /\ UNCHANGED hist
    BY AskInv DEF LogInv
  <2>2. \A x \in Segments : stage'[x] = "failed" => stage[x] = "failed"
    BY DEF Ask, LogInv, Inv, TypeOK
  <2> QED  BY <1>1, <2>1, <2>2, SameLog
<1>3. CASE \E s \in Segments : GiveUp(s)
  <2> PICK s \in Segments : GiveUp(s)
    BY <1>3
  <2>1. Inv' /\ UNCHANGED hist
    BY OtherInv DEF LogInv
  <2>2. hist[s].failedServer = Servers
    BY RetryAssumption DEF GiveUp, NoMoreServers, LogInv, Inv, TypeOK, Histories
  <2>3. \A x \in Segments : stage'[x] = "failed" => stage[x] = "failed" \/ x = s
    BY DEF GiveUp, LogInv, Inv, TypeOK
  <2> QED  BY <1>1, <2>1, <2>2, <2>3, SameLog
<1>4. CASE \/ \E s \in Segments : CannotCreate(s) \/ Succeed(s) \/ Lose(s)
           \/ \E srv \in Servers : Reconnect(srv)
           \/ Disconnect
  <2>1. Inv' /\ UNCHANGED hist
    BY <1>4, OtherInv DEF LogInv
  <2>2. \A x \in Segments : stage'[x] = "failed" => stage[x] = "failed"
    BY <1>4 DEF CannotCreate, Succeed, Lose, Reconnect, Disconnect, LogInv, Inv, TypeOK
  <2> QED  BY <1>1, <2>1, <2>2, SameLog
<1> QED  BY <1>2, <1>3, <1>4 DEF LogOther

\* No server is passed over: whatever a segment is written off for at a server, and
\* given up for in the end, happened at that server.
THEOREM PassesOverNone == LogSpec => []NonePassedOver
<1>1. LogInit => LogInv
  <2> SUFFICES ASSUME LogInit PROVE LogInv
    OBVIOUS
  <2>1. Inv /\ OthersOK
    BY InitInv DEF LogInit, OthersOK
  <2>2. \A s \in Segments : hist[s] = NewHistory /\ stage[s] = "queued"
    BY DEF LogInit, Init
  <2>3. WrittenOff /\ GivenUpLast
    BY <2>2 DEF WrittenOff, GivenUpLast, NewHistory
  <2>4. \A s \in Segments, i \in DOMAIN ServerSeq : others[s][ServerSeq[i]] = 0
    BY RetryAssumption DEF LogInit
  <2>5. OnItsTurn
    BY <2>2, <2>4 DEF OnItsTurn, UsedUpAt, NewHistory
  <2> QED  BY <2>1, <2>3, <2>5 DEF LogInv
<1>2. LogInv /\ [LogNext]_<<vars, log>> => LogInv'
  <2>1. LogInv /\ UNCHANGED <<vars, log>> => LogInv'
    BY StutterInv, SameLog DEF LogInv, vars
  <2> QED  BY <2>1, SkipLog, RejectLog, OtherLog DEF LogNext
<1>3. LogInv => NonePassedOver
  BY DEF LogInv, WrittenOff, GivenUpLast, NonePassedOver
<1> QED  BY <1>1, <1>2, <1>3, PTL DEF LogSpec
=============================================================================
