---------------------------- MODULE StrategyProofs ----------------------------
(***************************************************************************)
(* Proofs about Strategy, for any servers, sessions and requests, and any   *)
(* number of failures and reconnections.                                    *)
(***************************************************************************)
EXTENDS Strategy, SequenceTheorems, TLAPS

LEMMA SeqFacts ==
    ASSUME NEW S, NEW q \in Seq(S)
    PROVE  /\ Len(q) \in Nat
           /\ \A x \in S : Append(q, x) \in Seq(S) /\ Len(Append(q, x)) = Len(q) + 1
           /\ q # <<>> => Head(q) \in S /\ Tail(q) \in Seq(S) /\ Len(Tail(q)) = Len(q) - 1
BY AppendProperties, HeadTailProperties, LenProperties

\* A channel with room for one more, and one that something is taken from.
LEMMA PutOne ==
    ASSUME NEW q \in Seq(Requests), NEW r \in Requests, Len(q) < MaxSessions
    PROVE  Append(q, r) \in Seq(Requests) /\ Len(Append(q, r)) <= MaxSessions
<1>1. /\ Append(q, r) \in Seq(Requests)
      /\ Len(Append(q, r)) = Len(q) + 1 /\ Len(q) \in Nat
  BY SeqFacts
<1> QED  BY <1>1, ServerAssumption

LEMMA TakeOne ==
    ASSUME NEW q \in Seq(Requests), q # <<>>, Len(q) <= MaxSessions
    PROVE  /\ Head(q) \in Requests /\ Tail(q) \in Seq(Requests)
           /\ Len(Tail(q)) <= MaxSessions
<1>1. /\ Head(q) \in Requests /\ Tail(q) \in Seq(Requests)
      /\ Len(Tail(q)) = Len(q) - 1 /\ Len(q) \in Nat
  BY SeqFacts
<1> QED  BY <1>1, ServerAssumption

-----------------------------------------------------------------------------
\* The connections of a server: s.t is the tomb of the last attempt that
\* connected all sessions. Goroutines are of that attempt or an earlier one, and one that
\* waits looks at no tomb older than its own. While the tomb is alive, each
\* session that HandleGrabs has started has its goroutine.

Started(s, i) == hg[s] = "go" => i < hgSlot[s]

GenOK(s) ==
    /\ t[s] <= attempt[s]
    /\ hg[s] \in {"dial", "tomb"} => t[s] < attempt[s]
    /\ hg[s] = "go" => t[s] = attempt[s] /\ t[s] # 0
    /\ hg[s] = "tomb" => hgSlot[s] = 1
    /\ \A g \in Attempts, i \in Slots : g > t[s] => worker[s][<<g, i>>] = "none"
    /\ \A g \in Attempts, i \in Slots : worker[s][<<g, i>>] = "select" =>
            g <= watch[s][<<g, i>>] /\ watch[s][<<g, i>>] <= t[s]
    /\ Alive(s) => \A i \in Slots : Started(s, i) =>
            worker[s][<<t[s], i>>] \notin {"none", "gone"}

ServerInv == ServerTypeOK /\ \A s \in Servers : GenOK(s)

genVars == <<t, tomb, worker, watch, attempt, hg, hgSlot>>

LEMMA GenStutter ==
    ASSUME ServerInv, UNCHANGED genVars
    PROVE  \A u \in Servers : GenOK(u)'
BY DEF ServerInv, genVars, GenOK, Alive, Started

\* A step of server s says nothing of another.
SameFor(u) ==
    /\ t'[u] = t[u] /\ tomb'[u] = tomb[u] /\ worker'[u] = worker[u]
    /\ watch'[u] = watch[u] /\ attempt'[u] = attempt[u]
    /\ hg'[u] = hg[u] /\ hgSlot'[u] = hgSlot[u]

LEMMA GenStep ==
    ASSUME ServerInv, NEW s \in Servers, GenOK(s)',
           \A u \in Servers \ {s} : SameFor(u)
    PROVE  \A u \in Servers : GenOK(u)'
<1> SUFFICES ASSUME NEW u \in Servers \ {s} PROVE GenOK(u)'
  OBVIOUS
<1> QED  BY DEF ServerInv, SameFor, GenOK, Alive, Started

-----------------------------------------------------------------------------
\* Where the goroutine of a session can be.
States == {"none", "top", "select", "fetch", "respond", "gone"}

\* The types, part by part: most steps leave most parts alone.

ChansOK ==
    /\ gReq \in [Servers -> Seq(Requests)] /\ gRsp \in [Servers -> Seq(Requests)]
    /\ \A s \in Servers : Len(gReq[s]) <= MaxSessions /\ Len(gRsp[s]) <= MaxSessions

TombsOK ==
    /\ t \in [Servers -> 0 .. MaxAttempts]
    /\ tomb \in [Servers -> [Attempts -> {"unused", "alive", "dying", "dead"}]]

OpenOK == open \in [Servers -> SUBSET Workers]

WorkersOK ==
    /\ worker \in [Servers -> [Workers ->
            {"none", "top", "select", "fetch", "respond", "gone"}]]
    /\ holds \in [Servers -> [Workers -> SUBSET Requests]]
    /\ watch \in [Servers -> [Workers -> 0 .. MaxAttempts]]
    /\ lost \in [Servers -> SUBSET Requests]
    /\ errors \in 0 .. MaxErrors

ConnectsOK ==
    /\ sessions \in [Servers -> [Slots -> 0 .. MaxAttempts]]
    /\ attempt \in [Servers -> 0 .. MaxAttempts]
    /\ hg \in [Servers -> {"idle", "dial", "tomb", "go"}] /\ hgSlot \in [Servers -> Slots]
    /\ failures \in 0 .. MaxDialFailures

PanickedOK == panicked \in BOOLEAN

ShutdownsOK ==
    /\ sd \in [Servers -> {"idle", "killed", "waiting", "quit", "done"}]
    /\ sdSlot \in [Servers -> Slots] /\ sdTomb \in [Servers -> 0 .. MaxAttempts]

LEMMA Parts ==
    ServerTypeOK <=>
        /\ ChansOK /\ TombsOK /\ OpenOK /\ WorkersOK
        /\ ConnectsOK /\ PanickedOK /\ ShutdownsOK
BY DEF ServerTypeOK, ChansOK, TombsOK, OpenOK, WorkersOK, ConnectsOK, PanickedOK, ShutdownsOK

LEMMA PartsNext ==
    ServerTypeOK' <=>
        /\ ChansOK' /\ TombsOK' /\ OpenOK' /\ WorkersOK'
        /\ ConnectsOK' /\ PanickedOK' /\ ShutdownsOK'
BY DEF ServerTypeOK, ChansOK, TombsOK, OpenOK, WorkersOK, ConnectsOK, PanickedOK, ShutdownsOK

LEMMA PartsStutter ==
    ASSUME ServerTypeOK
    PROVE  /\ UNCHANGED chanVars => ChansOK'
           /\ UNCHANGED <<t, tomb>> => TombsOK'
           /\ UNCHANGED open => OpenOK'
           /\ UNCHANGED workerVars => WorkersOK'
           /\ UNCHANGED connectVars => ConnectsOK' /\ PanickedOK'
           /\ UNCHANGED panicked => PanickedOK'
           /\ UNCHANGED shutdownVars => ShutdownsOK'
<1>1. ChansOK /\ UNCHANGED chanVars => ChansOK'
  BY DEF ChansOK, chanVars
<1>2. TombsOK /\ UNCHANGED <<t, tomb>> => TombsOK'
  BY DEF TombsOK
<1>3. OpenOK /\ UNCHANGED open => OpenOK'
  BY DEF OpenOK
<1>4. WorkersOK /\ UNCHANGED workerVars => WorkersOK'
  BY DEF WorkersOK, workerVars
<1>5. ConnectsOK /\ UNCHANGED connectVars => ConnectsOK'
  BY DEF ConnectsOK, connectVars
<1>7. PanickedOK /\ UNCHANGED panicked => PanickedOK'
  BY DEF PanickedOK
<1>8. PanickedOK /\ UNCHANGED connectVars => PanickedOK'
  BY <1>7 DEF connectVars
<1>6. ShutdownsOK /\ UNCHANGED shutdownVars => ShutdownsOK'
  BY DEF ShutdownsOK, shutdownVars
<1> QED  BY <1>1, <1>2, <1>3, <1>4, <1>5, <1>6, <1>7, <1>8, Parts

-----------------------------------------------------------------------------
\* HandleGrabs.

LEMMA HandleGrabsOK ==
    ASSUME ServerInv, NEW s \in Servers, HandleGrabs(s)
    PROVE  ServerInv'
<1> ServerTypeOK
  BY DEF ServerInv
<1>1. ConnectsOK'
  <2>1. ConnectsOK
    BY Parts
  <2>2. /\ attempt[s] < MaxAttempts /\ attempt' = [attempt EXCEPT ![s] = @ + 1]
        /\ hg' = [hg EXCEPT ![s] = "dial"] /\ hgSlot' = [hgSlot EXCEPT ![s] = 1]
        /\ UNCHANGED <<sessions, failures>>
    BY DEF HandleGrabs
  <2>3. attempt' \in [Servers -> 0 .. MaxAttempts]
    BY <2>1, <2>2, ServerAssumption DEF ConnectsOK
  <2>4. hgSlot' \in [Servers -> Slots]
    BY <2>1, <2>2, ServerAssumption DEF ConnectsOK, Slots
  <2>5. hg' \in [Servers -> {"idle", "dial", "tomb", "go"}]
    BY <2>1, <2>2, ServerAssumption DEF ConnectsOK
  <2> QED  BY <2>1, <2>2, <2>3, <2>4, <2>5 DEF ConnectsOK
<1>2. ServerTypeOK'
  BY <1>1, PartsNext, PartsStutter DEF HandleGrabs
<1>3. GenOK(s)'
  <2>1. GenOK(s) /\ TombsOK /\ ConnectsOK
    BY Parts DEF ServerInv
  <2>2. /\ ~Alive(s) /\ t' = t /\ tomb' = tomb /\ worker' = worker /\ watch' = watch
        /\ attempt' = [attempt EXCEPT ![s] = @ + 1] /\ hg' = [hg EXCEPT ![s] = "dial"]
    BY DEF HandleGrabs, workerVars
  <2>3. attempt[s] \in Nat /\ t[s] \in Nat
    BY <2>1, ServerAssumption DEF TombsOK, ConnectsOK
  <2>4. attempt'[s] = attempt[s] + 1 /\ hg'[s] = "dial"
    BY <2>1, <2>2 DEF ConnectsOK
  <2>5. t[s] <= attempt[s]
    BY <2>1 DEF GenOK
  <2>6. t'[s] < attempt'[s] /\ t'[s] <= attempt'[s]
    BY <2>2, <2>3, <2>4, <2>5
  <2>7. ~Alive(s)'
    BY <2>2 DEF Alive
  <2>8. /\ \A g \in Attempts, i \in Slots : g > t'[s] => worker'[s][<<g, i>>] = "none"
        /\ \A g \in Attempts, i \in Slots : worker'[s][<<g, i>>] = "select" =>
              g <= watch'[s][<<g, i>>] /\ watch'[s][<<g, i>>] <= t'[s]
    BY <2>1, <2>2 DEF GenOK
  <2> QED  BY <2>4, <2>6, <2>7, <2>8 DEF GenOK
<1>4. \A u \in Servers \ {s} : SameFor(u)
  BY Parts DEF TombsOK, WorkersOK, ConnectsOK, HandleGrabs, SameFor, workerVars
<1> QED  BY <1>2, <1>3, <1>4, GenStep DEF ServerInv

LEMMA ConnectingOK ==
    ASSUME ServerInv, NEW s \in Servers, Connecting(s)
    PROVE  ServerInv'
<1> USE ServerAssumption DEF Attempts, Slots, Workers
<1> ServerTypeOK /\ GenOK(s)
  BY DEF ServerInv
<1>1. CASE NewSession(s)
  <2>1. <<attempt[s], hgSlot[s]>> \in Workers
    BY <1>1 DEF ServerTypeOK, GenOK, NewSession
  <2>2. ConnectsOK' /\ OpenOK'
    <3>1. ConnectsOK /\ OpenOK
      BY Parts
    <3>2. /\ sessions' = [sessions EXCEPT ![s][hgSlot[s]] = attempt[s]]
          /\ open' = [open EXCEPT ![s] = @ \cup {<<attempt[s], hgSlot[s]>>}]
          /\ UNCHANGED <<attempt, failures>>
          /\ \/ hg' = [hg EXCEPT ![s] = "tomb"] /\ hgSlot' = [hgSlot EXCEPT ![s] = 1]
             \/ /\ hgSlot[s] # MaxSessions
                /\ hg' = hg /\ hgSlot' = [hgSlot EXCEPT ![s] = @ + 1]
      BY <1>1 DEF NewSession
    <3>3. sessions' \in [Servers -> [Slots -> 0 .. MaxAttempts]]
      BY <3>1, <3>2 DEF ConnectsOK
    <3>4. /\ [hg EXCEPT ![s] = "tomb"] \in [Servers -> {"idle", "dial", "tomb", "go"}]
          /\ [hgSlot EXCEPT ![s] = 1] \in [Servers -> Slots]
          /\ hgSlot[s] # MaxSessions => [hgSlot EXCEPT ![s] = @ + 1] \in [Servers -> Slots]
      BY <3>1 DEF ConnectsOK
    <3>5. OpenOK'
      BY <2>1, <3>1, <3>2 DEF OpenOK
    <3>6. hg' \in [Servers -> {"idle", "dial", "tomb", "go"}] /\ hgSlot' \in [Servers -> Slots]
      BY <3>1, <3>2, <3>4 DEF ConnectsOK
    <3> QED  BY <3>1, <3>2, <3>3, <3>5, <3>6 DEF ConnectsOK
  <2>3. ServerTypeOK'
    BY <1>1, <2>2, PartsNext, PartsStutter DEF NewSession
  <2>4. GenOK(s)'
    BY <1>1 DEF ServerTypeOK, GenOK, NewSession, Alive, Started, workerVars
  <2>5. \A u \in Servers \ {s} : SameFor(u)
    BY <1>1, Parts DEF TombsOK, WorkersOK, ConnectsOK, NewSession, SameFor, workerVars
  <2> QED  BY <2>3, <2>4, <2>5, GenStep DEF ServerInv
<1>2. CASE NewSessionFails(s)
  <2>1. <<attempt[s], hgSlot[s]>> \in Workers
    BY <1>2 DEF ServerTypeOK, GenOK, NewSessionFails
  <2>2. ConnectsOK' /\ OpenOK'
    <3>1. ConnectsOK /\ OpenOK
      BY Parts
    <3>2. /\ failures < MaxDialFailures /\ failures' = failures + 1
          /\ \E refused \in {{}, {<<attempt[s], hgSlot[s]>>}} :
                open' = [open EXCEPT ![s] = @ \cup refused]
          /\ hg' = [hg EXCEPT ![s] = "idle"]
          /\ UNCHANGED <<sessions, attempt, hgSlot>>
      BY <1>2 DEF NewSessionFails
    <3>3. OpenOK'
      BY <2>1, <3>1, <3>2 DEF OpenOK
    <3>4. hg' \in [Servers -> {"idle", "dial", "tomb", "go"}]
      BY <3>1, <3>2 DEF ConnectsOK
    <3> QED  BY <3>1, <3>2, <3>3, <3>4 DEF ConnectsOK
  <2>3. ServerTypeOK'
    BY <1>2, <2>2, PartsNext, PartsStutter DEF NewSessionFails
  <2>4. GenOK(s)'
    BY <1>2 DEF ServerTypeOK, GenOK, NewSessionFails, Alive, Started, workerVars
  <2>5. \A u \in Servers \ {s} : SameFor(u)
    BY <1>2, Parts DEF TombsOK, WorkersOK, ConnectsOK, NewSessionFails, SameFor, workerVars
  <2> QED  BY <2>3, <2>4, <2>5, GenStep DEF ServerInv
<1>3. CASE NewTomb(s)
  <2>1. TombsOK' /\ ConnectsOK'
    <3>1. TombsOK /\ ConnectsOK
      BY Parts
    <3>2. /\ t' = [t EXCEPT ![s] = attempt[s]]
          /\ tomb' = [tomb EXCEPT ![s][attempt[s]] = "alive"]
          /\ hg' = [hg EXCEPT ![s] = "go"]
          /\ UNCHANGED <<sessions, attempt, hgSlot, failures>>
      BY <1>3 DEF NewTomb
    <3>3. TombsOK'
      BY <3>1, <3>2 DEF TombsOK, ConnectsOK
    <3>4. hg' \in [Servers -> {"idle", "dial", "tomb", "go"}]
      BY <3>1, <3>2 DEF ConnectsOK
    <3> QED  BY <3>1, <3>2, <3>3, <3>4 DEF ConnectsOK
  <2>2. ServerTypeOK'
    BY <1>3, <2>1, PartsNext, PartsStutter DEF NewTomb
  <2>5. /\ t'[s] = attempt[s] /\ t[s] < attempt[s] /\ hg'[s] = "go"
        /\ attempt' = attempt /\ hgSlot'[s] = 1 /\ hgSlot[s] = 1
        /\ worker' = worker /\ watch' = watch
    BY <1>3 DEF ServerTypeOK, GenOK, NewTomb, workerVars
  <2>6. \A i \in Slots : ~Started(s, i)'
    BY <2>5 DEF Started
  <2>7. /\ attempt[s] \in Nat /\ t[s] \in Nat
        /\ \A g \in Attempts, i \in Slots : watch[s][<<g, i>>] \in Nat
    BY DEF ServerTypeOK
  <2>8. GenOK(s)
    OBVIOUS
  <2>3. GenOK(s)'
    BY <2>5, <2>6, <2>7, <2>8 DEF GenOK
  <2>4. \A u \in Servers \ {s} : SameFor(u)
    BY <1>3, Parts DEF TombsOK, WorkersOK, ConnectsOK, NewTomb, SameFor, workerVars
  <2> QED  BY <2>2, <2>3, <2>4, GenStep DEF ServerInv
<1>4. CASE Go(s)
  <2>1. t[s] \in Attempts /\ <<t[s], hgSlot[s]>> \in Workers
    BY <1>4 DEF ServerTypeOK, GenOK, Go
  <2>2. /\ \/ worker' = worker
           \/ worker' = [worker EXCEPT ![s][<<t[s], hgSlot[s]>>] = "top"]
        /\ UNCHANGED <<holds, watch, lost, errors, sessions, attempt, failures>>
        /\ hg' = hg \/ hg' = [hg EXCEPT ![s] = "idle"]
        /\ \/ hgSlot' = hgSlot
           \/ hgSlot[s] # MaxSessions /\ hgSlot' = [hgSlot EXCEPT ![s] = @ + 1]
    BY <1>4 DEF Go
  <2>3. WorkersOK' /\ ConnectsOK'
    <3>1. WorkersOK /\ ConnectsOK
      BY Parts
    <3>2. worker' \in [Servers -> [Workers ->
                {"none", "top", "select", "fetch", "respond", "gone"}]]
      <4>1. [worker EXCEPT ![s][<<t[s], hgSlot[s]>>] = "top"] \in [Servers -> [Workers ->
                {"none", "top", "select", "fetch", "respond", "gone"}]]
        BY <2>1, <3>1 DEF WorkersOK
      <4> QED  BY <2>2, <3>1, <4>1 DEF WorkersOK
    <3>3. /\ [hg EXCEPT ![s] = "idle"] \in [Servers -> {"idle", "dial", "tomb", "go"}]
          /\ hgSlot[s] # MaxSessions => [hgSlot EXCEPT ![s] = @ + 1] \in [Servers -> Slots]
      BY <3>1 DEF ConnectsOK
    <3>4. hg' \in [Servers -> {"idle", "dial", "tomb", "go"}] /\ hgSlot' \in [Servers -> Slots]
      BY <2>2, <3>1, <3>3 DEF ConnectsOK
    <3>5. WorkersOK'
      BY <2>2, <3>1, <3>2 DEF WorkersOK
    <3>6. ConnectsOK'
      BY <2>2, <3>1, <3>4 DEF ConnectsOK
    <3> QED  BY <3>5, <3>6
  <2>7. PanickedOK'
    <3>1. PanickedOK
      BY Parts
    <3>2. CASE tomb[s][t[s]] = "dead"
      BY <1>4, <3>2 DEF Go, PanickedOK
    <3>3. CASE tomb[s][t[s]] # "dead"
      BY <1>4, <3>1, <3>3 DEF Go, PanickedOK
    <3> QED  BY <3>2, <3>3
  <2>4. ServerTypeOK'
    BY <1>4, <2>3, <2>7, PartsNext, PartsStutter DEF Go
  <2>5. CASE tomb[s][t[s]] = "dead"
    <3>1. UNCHANGED genVars
      BY <1>4, <2>5 DEF Go, genVars
    <3> QED  BY <2>4, <3>1, GenStutter DEF ServerInv
  <2>6. CASE tomb[s][t[s]] # "dead"
    <3>1. /\ hg[s] = "go" /\ t' = t /\ tomb' = tomb /\ watch' = watch /\ attempt' = attempt
          /\ worker'[s] = [worker[s] EXCEPT ![<<t[s], hgSlot[s]>>] = "top"]
          /\ IF hgSlot[s] = MaxSessions THEN hg'[s] = "idle" /\ hgSlot'[s] = hgSlot[s]
             ELSE hg'[s] = "go" /\ hgSlot'[s] = hgSlot[s] + 1
      BY <1>4, <2>6, Parts DEF Go, WorkersOK, ConnectsOK
    <3>2. \A i \in Slots : Started(s, i)' => Started(s, i) \/ i = hgSlot[s]
      BY <3>1 DEF Started, ServerTypeOK
    <3>5. /\ t[s] \in Nat /\ attempt[s] \in Nat /\ t[s] = attempt[s] /\ t[s] # 0
          /\ Attempts \subseteq Nat
      BY <3>1, Parts DEF TombsOK, ConnectsOK, GenOK, Attempts
    <3>6. \A g \in Attempts, i \in Slots :
            worker'[s][<<g, i>>] = IF g = t[s] /\ i = hgSlot[s] THEN "top"
                                   ELSE worker[s][<<g, i>>]
      <4>1. \A g \in Attempts, i \in Slots : <<g, i>> \in Workers
        BY DEF Workers
      <4>2. <<t[s], hgSlot[s]>> \in Workers /\ worker[s] \in [Workers -> States]
        BY <2>1, Parts DEF WorkersOK, States
      <4>3. worker'[s] = [worker[s] EXCEPT ![<<t[s], hgSlot[s]>>] = "top"]
        BY <3>1
      <4> QED  BY <4>1, <4>2, <4>3
    <3>7. \A g \in Attempts, i \in Slots : g > t[s] => worker'[s][<<g, i>>] = "none"
      BY <3>5, <3>6 DEF GenOK
    <3>8. \A g \in Attempts, i \in Slots : worker'[s][<<g, i>>] = "select" =>
            g <= watch[s][<<g, i>>] /\ watch[s][<<g, i>>] <= t[s]
      BY <3>6 DEF GenOK
    <3>9. Alive(s)' => \A i \in Slots : Started(s, i)' =>
            worker'[s][<<t[s], i>>] \notin {"none", "gone"}
      <4>1. Alive(s)' => Alive(s)
        BY <3>1 DEF Alive
      <4>2. t[s] \in Attempts
        BY <2>1
      <4> QED  BY <3>2, <3>6, <4>1, <4>2 DEF GenOK
    <3>3. GenOK(s)'
      BY <3>1, <3>5, <3>7, <3>8, <3>9 DEF GenOK
    <3>4. \A u \in Servers \ {s} : SameFor(u)
      BY <1>4, Parts DEF TombsOK, WorkersOK, ConnectsOK, Go, SameFor
    <3> QED  BY <2>4, <3>3, <3>4, GenStep DEF ServerInv
  <2> QED  BY <2>5, <2>6
<1> QED  BY <1>1, <1>2, <1>3, <1>4 DEF Connecting

-----------------------------------------------------------------------------
\* The goroutine of a session.

LEMMA WorkerTypes ==
    ASSUME ServerTypeOK, NEW s \in Servers, NEW w \in Workers
    PROVE  /\ \A l \in States : [worker EXCEPT ![s][w] = l] \in [Servers -> [Workers -> States]]
           /\ \A h \in SUBSET Requests :
                [holds EXCEPT ![s][w] = h] \in [Servers -> [Workers -> SUBSET Requests]]
           /\ [watch EXCEPT ![s][w] = t[s]] \in [Servers -> [Workers -> 0 .. MaxAttempts]]
           /\ [lost EXCEPT ![s] = @ \cup holds[s][w]] \in [Servers -> SUBSET Requests]
<1>1. WorkersOK /\ TombsOK
  BY Parts
<1>2. ASSUME NEW l \in States
      PROVE  [worker EXCEPT ![s][w] = l] \in [Servers -> [Workers -> States]]
  BY <1>1 DEF WorkersOK, States
<1>3. ASSUME NEW h \in SUBSET Requests
      PROVE  [holds EXCEPT ![s][w] = h] \in [Servers -> [Workers -> SUBSET Requests]]
  BY <1>1 DEF WorkersOK
<1>4. [watch EXCEPT ![s][w] = t[s]] \in [Servers -> [Workers -> 0 .. MaxAttempts]]
  BY <1>1 DEF WorkersOK, TombsOK
<1>5. [lost EXCEPT ![s] = @ \cup holds[s][w]] \in [Servers -> SUBSET Requests]
  BY <1>1 DEF WorkersOK
<1> QED  BY <1>2, <1>3, <1>4, <1>5

\* What Return does to the tomb, and to the invariant of the connections: a
\* goroutine of the present connection ends it, or finds that it has ended.
LEMMA ReturnOK ==
    ASSUME ServerInv, NEW s \in Servers, NEW g \in Attempts, NEW i \in Slots,
           NEW failed \in BOOLEAN, Return(s, g, i, failed),
           worker[s][<<g, i>>] \notin {"none", "gone"},
           ~failed /\ g = t[s] => tomb[s][g] # "alive",
           UNCHANGED <<t, watch, attempt, hg, hgSlot>>
    PROVE  TombsOK' /\ \A u \in Servers : GenOK(u)'
<1> ServerTypeOK /\ GenOK(s)
  BY DEF ServerInv
<1> TombsOK /\ WorkersOK
  BY Parts
<1>1. PICK d \in {"dead", "dying", "unused", "alive"} :
            /\ tomb' = [tomb EXCEPT ![s][g] = d]
            /\ d = "alive" => ~failed /\ tomb[s][g] = "alive"
  <2>1. tomb[s][g] \in {"unused", "alive", "dying", "dead"}
    BY DEF TombsOK
  <2>2. CASE Running(s, g) = {i}
    BY <2>2 DEF Return
  <2>3. CASE Running(s, g) # {i} /\ failed /\ tomb[s][g] = "alive"
    BY <2>3 DEF Return
  <2>4. CASE Running(s, g) # {i} /\ ~(failed /\ tomb[s][g] = "alive")
    BY <2>1, <2>4 DEF Return
  <2> QED  BY <2>2, <2>3, <2>4
<1>2. TombsOK'
  BY <1>1 DEF TombsOK
<1>3. /\ worker'[s] = [worker[s] EXCEPT ![<<g, i>>] = "gone"]
      /\ tomb'[s] = [tomb[s] EXCEPT ![g] = d]
      /\ t' = t /\ watch' = watch /\ attempt' = attempt /\ hg' = hg /\ hgSlot' = hgSlot
  BY <1>1 DEF Return, TombsOK, WorkersOK
<1>4. Alive(s)' => Alive(s) /\ g # t[s]
  BY <1>1, <1>3 DEF Alive, TombsOK
<1>5. \A j \in Slots : Started(s, j)' = Started(s, j)
  BY <1>3 DEF Started
<1>6. <<g, i>> \in Workers /\ \A h \in Attempts, j \in Slots : <<h, j>> \in Workers
  BY DEF Workers
<1>7. \A h \in Attempts, j \in Slots :
        worker'[s][<<h, j>>] = IF h = g /\ j = i THEN "gone" ELSE worker[s][<<h, j>>]
  BY <1>3, <1>6 DEF WorkersOK
<1>8. ~(g > t[s])
  BY DEF GenOK
<1>9. Alive(s) => t[s] \in Attempts
  BY DEF Alive, TombsOK, Attempts
<1>10. GenOK(s)'
  BY <1>3, <1>4, <1>5, <1>7, <1>8, <1>9 DEF GenOK
<1>11. \A u \in Servers \ {s} : SameFor(u)
  BY <1>1, <1>3 DEF Return, SameFor, TombsOK, WorkersOK
<1> QED  BY <1>2, <1>10, <1>11, GenStep

\* A goroutine goes on.
LEMMA GoesOn ==
    ASSUME ServerInv, NEW s \in Servers, NEW g \in Attempts, NEW i \in Slots,
           worker[s][<<g, i>>] \notin {"none", "gone"},
           NEW l \in {"top", "fetch", "respond"},
           worker' = [worker EXCEPT ![s][<<g, i>>] = l],
           UNCHANGED <<t, tomb, watch, attempt, hg, hgSlot>>
    PROVE  \A u \in Servers : GenOK(u)'
<1> ServerTypeOK /\ GenOK(s)
  BY DEF ServerInv
<1> TombsOK /\ WorkersOK
  BY Parts
<1>1. <<g, i>> \in Workers /\ \A h \in Attempts, j \in Slots : <<h, j>> \in Workers
  BY DEF Workers
<1>2. \A h \in Attempts, j \in Slots :
        worker'[s][<<h, j>>] = IF h = g /\ j = i THEN l ELSE worker[s][<<h, j>>]
  BY <1>1 DEF WorkersOK
<1>3. ~(g > t[s])
  BY DEF GenOK
<1>4. Alive(s) => t[s] \in Attempts
  BY DEF Alive, TombsOK, Attempts
<1>5. Alive(s)' = Alive(s) /\ \A j \in Slots : Started(s, j)' = Started(s, j)
  BY DEF Alive, Started
<1>6. GenOK(s)'
  BY <1>2, <1>3, <1>4, <1>5 DEF GenOK
<1>7. \A u \in Servers \ {s} : SameFor(u)
  BY DEF SameFor, WorkersOK
<1> QED  BY <1>6, <1>7, GenStep

LEMMA WorkOK ==
    ASSUME ServerInv, NEW s \in Servers, NEW g \in Attempts, NEW i \in Slots, Work(s, g, i)
    PROVE  ServerInv'
<1> ServerTypeOK /\ GenOK(s)
  BY DEF ServerInv
<1> TombsOK /\ WorkersOK /\ ChansOK
  BY Parts
<1> DEFINE w == <<g, i>>
<1>w. w \in Workers
  BY DEF Workers
<1>r. holds[s][w] \subseteq Requests /\ gReq[s] \in Seq(Requests) /\ gRsp[s] \in Seq(Requests)
  BY <1>w DEF WorkersOK, ChansOK
<1>1. CASE Enter(s, g, i)
  <2>1. WorkersOK'
    BY <1>1, <1>w, WorkerTypes DEF Enter, WorkersOK, States
  <2>2. ServerTypeOK'
    BY <1>1, <2>1, PartsNext, PartsStutter DEF Enter, connectVars
  <2>3. /\ worker'[s] = [worker[s] EXCEPT ![w] = "select"]
        /\ watch'[s] = [watch[s] EXCEPT ![w] = t[s]]
        /\ UNCHANGED <<t, tomb, attempt, hg, hgSlot>>
        /\ worker[s][w] = "top"
    BY <1>1 DEF Enter, connectVars, WorkersOK
  <2>4. \A h \in Attempts, j \in Slots :
            /\ worker'[s][<<h, j>>] = IF h = g /\ j = i THEN "select" ELSE worker[s][<<h, j>>]
            /\ watch'[s][<<h, j>>] = IF h = g /\ j = i THEN t[s] ELSE watch[s][<<h, j>>]
    BY <2>3, <1>w DEF WorkersOK, Workers
  <2>5. g <= t[s] /\ t[s] <= t[s] /\ ~(g > t[s])
    BY <2>3 DEF GenOK, TombsOK, Attempts
  <2>6. Alive(s)' = Alive(s) /\ \A j \in Slots : Started(s, j)' = Started(s, j)
    BY <2>3 DEF Alive, Started
  <2>7. Alive(s) => t[s] \in Attempts
    BY DEF Alive, TombsOK, Attempts
  <2>8. GenOK(s)'
    BY <2>3, <2>4, <2>5, <2>6, <2>7 DEF GenOK
  <2>9. \A u \in Servers \ {s} : SameFor(u)
    BY <1>1 DEF Enter, connectVars, SameFor, WorkersOK
  <2> QED  BY <2>2, <2>8, <2>9, GenStep DEF ServerInv
<1>2. CASE Receive(s, g, i)
  <2>1. Head(gReq[s]) \in Requests /\ Tail(gReq[s]) \in Seq(Requests)
        /\ Len(Tail(gReq[s])) <= MaxSessions
    <3>1. gReq[s] \in Seq(Requests) /\ gReq[s] # <<>> /\ Len(gReq[s]) <= MaxSessions
      BY <1>2 DEF Receive, ChansOK
    <3> QED  BY <3>1, TakeOne
  <2>2. WorkersOK'
    BY <1>2, <2>1, <1>w, WorkerTypes DEF Receive, WorkersOK, States
  <2>3. ChansOK'
    BY <1>2, <2>1 DEF Receive, ChansOK
  <2>4. ServerTypeOK'
    BY <1>2, <2>2, <2>3, PartsNext, PartsStutter DEF Receive, connectVars
  <2> QED  BY <1>2, <2>4, GoesOn DEF Receive, connectVars, ServerInv
<1>3. CASE Fetched(s, g, i)
  <2>1. WorkersOK'
    BY <1>3, <1>w, WorkerTypes DEF Fetched, WorkersOK, States
  <2>2. ServerTypeOK'
    BY <1>3, <2>1, PartsNext, PartsStutter DEF Fetched, connectVars
  <2> QED  BY <1>3, <2>2, GoesOn DEF Fetched, connectVars, ServerInv
<1>4. CASE Respond(s, g, i)
  <2>1. PICK r \in holds[s][w] : gRsp' = [gRsp EXCEPT ![s] = Append(@, r)]
    BY <1>4 DEF Respond
  <2>2. Append(gRsp[s], r) \in Seq(Requests) /\ Len(Append(gRsp[s], r)) <= MaxSessions
    <3>1. gRsp[s] \in Seq(Requests) /\ Len(gRsp[s]) < MaxSessions /\ r \in Requests
      BY <1>4, <2>1, <1>r DEF Respond, ChansOK
    <3> QED  BY <3>1, PutOne
  <2>3. WorkersOK'
    BY <1>4, <1>w, WorkerTypes DEF Respond, WorkersOK, States
  <2>4. ChansOK'
    BY <1>4, <2>1, <2>2 DEF Respond, ChansOK
  <2>5. ServerTypeOK'
    BY <1>4, <2>3, <2>4, PartsNext, PartsStutter DEF Respond, connectVars
  <2> QED  BY <1>4, <2>5, GoesOn DEF Respond, connectVars, ServerInv
<1>5. CASE ProtocolError(s, g, i)
  <2>1. errors' \in 0 .. MaxErrors
    BY <1>5, ServerAssumption DEF ProtocolError, WorkersOK
  <2>2. WorkersOK'
    BY <1>5, <2>1, <1>w, WorkerTypes DEF ProtocolError, Return, WorkersOK, States
  <2>3. TombsOK' /\ \A u \in Servers : GenOK(u)'
    BY <1>5, ReturnOK DEF ProtocolError, connectVars
  <2>4. ServerTypeOK'
    BY <1>5, <2>2, <2>3, PartsNext, PartsStutter DEF ProtocolError, connectVars
  <2> QED  BY <2>3, <2>4 DEF ServerInv
<1>6. CASE Exit(s, g, i)
  <2>1. WorkersOK'
    BY <1>6, <1>w, WorkerTypes DEF Exit, Return, WorkersOK, States
  <2>2. g = t[s] => watch[s][w] = g
    BY <1>6 DEF Exit, GenOK, TombsOK, WorkersOK, Attempts, Workers
  <2>3. TombsOK' /\ \A u \in Servers : GenOK(u)'
    BY <1>6, <2>2, ReturnOK DEF Exit, connectVars
  <2>4. ServerTypeOK'
    BY <1>6, <2>1, <2>3, PartsNext, PartsStutter DEF Exit, connectVars
  <2> QED  BY <2>3, <2>4 DEF ServerInv
<1> QED  BY <1>1, <1>2, <1>3, <1>4, <1>5, <1>6 DEF Work

-----------------------------------------------------------------------------
\* Grab, Grabbed and Shutdown.

LEMMA ChannelsOK ==
    ASSUME ServerInv, NEW s \in Servers, NEW r \in Requests, Grab(s, r) \/ Grabbed(s)
    PROVE  ServerInv'
<1> ServerTypeOK
  BY DEF ServerInv
<1> ChansOK
  BY Parts
<1>1. ChansOK'
  <2>1. CASE Grab(s, r)
    <3>1. Append(gReq[s], r) \in Seq(Requests) /\ Len(Append(gReq[s], r)) <= MaxSessions
      <4>1. gReq[s] \in Seq(Requests) /\ Len(gReq[s]) < MaxSessions
        BY <2>1 DEF Grab, ChansOK
      <4> QED  BY <4>1, PutOne
    <3> QED  BY <2>1, <3>1 DEF Grab, ChansOK
  <2>2. CASE Grabbed(s)
    <3>1. Tail(gRsp[s]) \in Seq(Requests) /\ Len(Tail(gRsp[s])) <= MaxSessions
      <4>1. gRsp[s] \in Seq(Requests) /\ gRsp[s] # <<>> /\ Len(gRsp[s]) <= MaxSessions
        BY <2>2 DEF Grabbed, ChansOK
      <4> QED  BY <4>1, TakeOne
    <3> QED  BY <2>2, <3>1 DEF Grabbed, ChansOK
  <2> QED  BY <2>1, <2>2
<1>2. ServerTypeOK'
  BY <1>1, PartsNext, PartsStutter DEF Grab, Grabbed
<1> QED  BY <1>2, GenStutter DEF Grab, Grabbed, genVars, workerVars, connectVars, ServerInv

LEMMA ShutdownOK ==
    ASSUME ServerInv, NEW s \in Servers, Shutdown(s)
    PROVE  ServerInv'
<1> ServerTypeOK /\ GenOK(s)
  BY DEF ServerInv
<1> TombsOK /\ WorkersOK /\ ShutdownsOK /\ OpenOK /\ ConnectsOK
  BY Parts
<1>1. CASE ShutdownKill(s)
  <2>1. ShutdownsOK'
    BY <1>1 DEF ShutdownKill, ShutdownsOK
  <2>2. PICK d \in [Attempts -> {"unused", "alive", "dying", "dead"}] :
            /\ tomb' = [tomb EXCEPT ![s] = d]
            /\ t[s] # 0 => d[t[s]] # "alive"
    <3>1. CASE t[s] = 0
      BY <1>1, <3>1 DEF ShutdownKill, TombsOK
    <3>2. CASE t[s] # 0
      <4> DEFINE d == [tomb[s] EXCEPT ![t[s]] = IF @ = "alive" THEN "dying" ELSE @]
      <4>1. tomb' = [tomb EXCEPT ![s] = d]
        BY <1>1, <3>2 DEF ShutdownKill, Kill, TombsOK
      <4>2. t[s] \in Attempts
        BY <3>2 DEF TombsOK, Attempts
      <4>3. d \in [Attempts -> {"unused", "alive", "dying", "dead"}] /\ d[t[s]] # "alive"
        BY <4>2 DEF TombsOK
      <4> QED  BY <4>1, <4>3
    <3> QED  BY <3>1, <3>2
  <2>3. TombsOK'
    BY <1>1, <2>2 DEF ShutdownKill, TombsOK
  <2>4. ServerTypeOK'
    BY <1>1, <2>1, <2>3, PartsNext, PartsStutter DEF ShutdownKill
  <2>5. UNCHANGED <<t, worker, watch, attempt, hg, hgSlot>>
    BY <1>1 DEF ShutdownKill, workerVars, connectVars
  <2>6. ~Alive(s)'
    BY <2>2, <2>5 DEF Alive, TombsOK
  <2>7. GenOK(s)'
    BY <2>5, <2>6 DEF GenOK
  <2>8. \A u \in Servers \ {s} : SameFor(u)
    BY <2>2, <2>5 DEF SameFor, TombsOK
  <2> QED  BY <2>4, <2>7, <2>8, GenStep DEF ServerInv
<1>2. CASE ShutdownWait(s) \/ ShutdownWaited(s)
  <2>1. ShutdownsOK'
    BY <1>2 DEF ShutdownWait, ShutdownWaited, ShutdownsOK, TombsOK
  <2>2. ServerTypeOK'
    BY <1>2, <2>1, PartsNext, PartsStutter DEF ShutdownWait, ShutdownWaited
  <2> QED
    BY <1>2, <2>2, GenStutter
    DEF ShutdownWait, ShutdownWaited, genVars, workerVars, connectVars, ServerInv
<1>3. CASE Quit(s)
  <2>1. ShutdownsOK'
    <3>1. /\ [sd EXCEPT ![s] = "done"] \in [Servers ->
                {"idle", "killed", "waiting", "quit", "done"}]
          /\ sdSlot[s] # MaxSessions => [sdSlot EXCEPT ![s] = @ + 1] \in [Servers -> Slots]
      BY ServerAssumption DEF ShutdownsOK, Slots
    <3> QED  BY <1>3, <3>1 DEF Quit, ShutdownsOK
  <2>2. OpenOK'
    BY <1>3 DEF Quit, OpenOK
  <2>3. ServerTypeOK'
    BY <1>3, <2>1, <2>2, PartsNext, PartsStutter DEF Quit
  <2> QED
    BY <1>3, <2>3, GenStutter DEF Quit, genVars, workerVars, connectVars, ServerInv
<1> QED  BY <1>1, <1>2, <1>3 DEF Shutdown

LEMMA ServerInitOK == ServerInit => ServerInv
<1> SUFFICES ASSUME ServerInit PROVE ServerInv
  OBVIOUS
<1> USE ServerAssumption
<1>1. ServerTypeOK
  <2>1. <<>> \in Seq(Requests) /\ Len(<<>>) = 0
    BY EmptySeq
  <2>2. ChansOK
    BY <2>1 DEF ServerInit, ChansOK
  <2>3. TombsOK /\ OpenOK
    BY DEF ServerInit, TombsOK, OpenOK
  <2>4. WorkersOK
    BY DEF ServerInit, WorkersOK
  <2>5. ConnectsOK /\ ShutdownsOK
    BY DEF ServerInit, ConnectsOK, ShutdownsOK, Slots
  <2>6. PanickedOK
    BY Zenon DEF ServerInit, PanickedOK
  <2> QED  BY <2>2, <2>3, <2>4, <2>5, <2>6, Parts
<1>2. ASSUME NEW s \in Servers PROVE GenOK(s)
  BY DEF ServerInit, GenOK, Alive, Workers, Attempts
<1> QED  BY <1>1, <1>2 DEF ServerInv

-----------------------------------------------------------------------------
\* The steps of the whole.

LEMMA OrderFacts ==
    /\ \A k \in DOMAIN Order : Order[k] \in Servers
    /\ Len(Order) \in Nat \ {0} /\ DOMAIN Order = 1 .. Len(Order)
    /\ Capacity \in Nat
<1>1. Order \in Seq(Servers) /\ Order # <<>>
  BY StrategyAssumption
<1>2. Len(Order) \in Nat \ {0} /\ DOMAIN Order = 1 .. Len(Order)
  BY <1>1, LenProperties, EmptySeq
<1>3. \A k \in DOMAIN Order : Order[k] \in Servers
  BY <1>1, <1>2, ElementOfSeq
<1>4. \A m, n \in Nat : m * n \in Nat
  OBVIOUS
<1> QED  BY <1>2, <1>3, <1>4, ServerAssumption DEF Capacity

StrategyTypeOK ==
    /\ main \in {"connect", "connecting", "run", "shutdown", "wait", "done"}
    /\ at \in DOMAIN Order
    /\ grabRsp \in Seq([server : Servers, req : Requests]) /\ Len(grabRsp) <= Capacity
    /\ ssT \in {"alive", "dying"}
    /\ aggregator \in [Servers -> {"none", "select", "send", "gone"}]
    /\ carries \in [Servers -> SUBSET Requests]
    /\ ticker \in [Servers -> {"none", "select", "busy", "gone"}]
    /\ sending \subseteq Servers \X Requests
    /\ answered \in [Servers -> SUBSET Requests]

Inv == ServerInv /\ StrategyTypeOK

\* What the rest sees of a step of a server.
ServerStep ==
    \/ UNCHANGED serverVars
    \/ \E s \in Servers :
        \/ HandleGrabs(s)
        \/ Connecting(s)
        \/ \E g \in Attempts, i \in Slots : Work(s, g, i)
        \/ \E r \in Requests : Grab(s, r)
        \/ Grabbed(s)
        \/ Shutdown(s)

LEMMA NextServerStep ==
    ASSUME Inv, [Next]_vars
    PROVE  ServerStep
<1>1. at \in DOMAIN Order => Order[at] \in Servers
  BY OrderFacts
<1>2. CASE Caller
  BY <1>1, <1>2 DEF Caller, ConnectServer, ServerConnected, BeginShutdown, ShutdownServer,
     NextServer, ShutdownReturned, ServerStep, Inv, StrategyTypeOK
<1>3. CASE Deliver \/ UNCHANGED vars
  BY <1>3 DEF Deliver, vars, ServerStep
<1>4. ASSUME NEW s \in Servers,
             \/ Connected(s)
             \/ \E g \in Attempts, i \in Slots : Worked(s, g, i)
             \/ Aggregate(s)
             \/ Reconnect(s)
             \/ \E r \in Requests : Dispatch(s, r) \/ Send(s, r)
      PROVE  ServerStep
  <2>1. CASE Connected(s)
    BY <2>1 DEF Connected, ServerStep
  <2>2. CASE \E g \in Attempts, i \in Slots : Worked(s, g, i)
    BY <2>2 DEF Worked, ServerStep
  <2>3. CASE Aggregate(s) \/ Reconnect(s)
    BY <2>3 DEF Aggregate, Collect, PassOn, AggregatorExits, Reconnect, Tick, Ticked,
       TickerExits, ServerStep
  <2>4. CASE \E r \in Requests : Dispatch(s, r) \/ Send(s, r)
    BY <2>4 DEF Dispatch, Send, ServerStep
  <2> QED  BY <1>4, <2>1, <2>2, <2>3, <2>4
<1> QED  BY <1>2, <1>3, <1>4 DEF Next

LEMMA ServerInvStep ==
    ASSUME ServerInv, ServerStep
    PROVE  ServerInv'
<1>1. CASE UNCHANGED serverVars
  <2>1. ServerTypeOK
    BY DEF ServerInv
  <2>2. ServerTypeOK'
    BY <1>1, <2>1, PartsNext, PartsStutter DEF serverVars
  <2>3. UNCHANGED genVars
    BY <1>1 DEF serverVars, genVars, workerVars, connectVars
  <2> QED  BY <2>2, <2>3, GenStutter DEF ServerInv
<1>2. ASSUME NEW s \in Servers, NEW r \in Requests, Grab(s, r)
      PROVE  ServerInv'
  BY <1>2, ChannelsOK
<1>3. ASSUME NEW s \in Servers, Grabbed(s)
      PROVE  ServerInv'
  <2>1. gRsp[s] \in Seq(Requests) /\ gRsp[s] # <<>>
    BY <1>3, Parts DEF Grabbed, ServerInv, ChansOK
  <2>2. Head(gRsp[s]) \in Requests
    BY <2>1, SeqFacts
  <2> QED  BY <1>3, <2>2, ChannelsOK
<1> QED
  BY <1>1, <1>2, <1>3, HandleGrabsOK, ConnectingOK, WorkOK, ShutdownOK DEF ServerStep

LEMMA StrategyTypeStep ==
    ASSUME Inv, [Next]_vars
    PROVE  StrategyTypeOK'
<1> StrategyTypeOK /\ ServerTypeOK
  BY DEF Inv, ServerInv
<1> USE DEF StrategyTypeOK, mainVars, aggVars
<1>1. CASE Caller
  <2>1. at # Len(Order) => at + 1 \in DOMAIN Order
    BY OrderFacts
  <2>2. Order[at] \in Servers /\ 1 \in DOMAIN Order
    BY OrderFacts
  <2>3. CASE ConnectServer
    BY <2>3 DEF ConnectServer
  <2>4. CASE ServerConnected
    BY <2>1, <2>2, <2>4 DEF ServerConnected
  <2>5. CASE BeginShutdown
    BY <2>2, <2>5 DEF BeginShutdown
  <2>6. CASE ShutdownServer
    BY <2>6 DEF ShutdownServer
  <2>7. CASE NextServer
    BY <2>1, <2>7 DEF NextServer
  <2>8. CASE ShutdownReturned
    BY <2>8 DEF ShutdownReturned
  <2> QED  BY <1>1, <2>3, <2>4, <2>5, <2>6, <2>7, <2>8 DEF Caller
<1>2. CASE Deliver
  <2> DEFINE Responses == [server : Servers, req : Requests]
  <2>1. grabRsp \in Seq(Responses) /\ grabRsp # <<>> /\ Len(grabRsp) <= Capacity
    BY <1>2 DEF Deliver
  <2> HIDE DEF Responses
  <2>2. /\ Head(grabRsp) \in Responses /\ Tail(grabRsp) \in Seq(Responses)
        /\ Len(grabRsp) \in Nat /\ Len(Tail(grabRsp)) = Len(grabRsp) - 1
    BY <2>1, SeqFacts
  <2>3. Len(Tail(grabRsp)) <= Capacity
    BY <2>1, <2>2, OrderFacts
  <2>4. Head(grabRsp).server \in Servers /\ Head(grabRsp).req \in Requests
    BY <2>2 DEF Responses
  <2>5. grabRsp' \in Seq(Responses) /\ Len(grabRsp') <= Capacity
    BY <1>2, <2>2, <2>3 DEF Deliver
  <2>6. answered' \in [Servers -> SUBSET Requests]
    BY <1>2, <2>4 DEF Deliver
  <2> QED  BY <1>2, <2>5, <2>6 DEF Deliver, Responses
<1>3. CASE UNCHANGED vars
  BY <1>3 DEF vars, strategyVars
<1>4. ASSUME NEW s \in Servers,
             Connected(s) \/ \E g \in Attempts, i \in Slots : Worked(s, g, i)
      PROVE  StrategyTypeOK'
  BY <1>4 DEF Connected, Worked, strategyVars
<1>5. ASSUME NEW s \in Servers, Aggregate(s)
      PROVE  StrategyTypeOK'
  <2>1. CASE Collect(s)
    <3>1. gRsp[s] \in Seq(Requests) /\ gRsp[s] # <<>>
      BY <2>1, Parts DEF Collect, Grabbed, ChansOK
    <3>2. Head(gRsp[s]) \in Requests
      BY <3>1, SeqFacts
    <3> QED  BY <2>1, <3>2 DEF Collect
  <2>2. CASE PassOn(s)
    <3>1. PICK r \in carries[s] : grabRsp' = Append(grabRsp, [server |-> s, req |-> r])
      BY <2>2 DEF PassOn
    <3>2. [server |-> s, req |-> r] \in [server : Servers, req : Requests]
      OBVIOUS
    <3>3. /\ grabRsp' \in Seq([server : Servers, req : Requests])
          /\ Len(grabRsp') = Len(grabRsp) + 1 /\ Len(grabRsp) \in Nat
      BY <3>1, <3>2, SeqFacts
    <3>4. Len(grabRsp') <= Capacity
      BY <2>2, <3>3, OrderFacts DEF PassOn
    <3> QED  BY <2>2, <3>3, <3>4 DEF PassOn
  <2>3. CASE AggregatorExits(s)
    BY <2>3 DEF AggregatorExits
  <2> QED  BY <1>5, <2>1, <2>2, <2>3 DEF Aggregate
<1>6. ASSUME NEW s \in Servers, Reconnect(s)
      PROVE  StrategyTypeOK'
  BY <1>6 DEF Reconnect, Tick, Ticked, TickerExits
<1>7. ASSUME NEW s \in Servers, NEW r \in Requests, Dispatch(s, r) \/ Send(s, r)
      PROVE  StrategyTypeOK'
  BY <1>7 DEF Dispatch, Send
<1> QED  BY <1>1, <1>2, <1>3, <1>4, <1>5, <1>6, <1>7 DEF Next

LEMMA InvInvariant == Spec => []Inv
<1>1. Init => Inv
  <2> SUFFICES ASSUME Init PROVE Inv
    OBVIOUS
  <2>1. ServerInv
    BY ServerInitOK DEF Init
  <2>2. StrategyTypeOK
    BY OrderFacts DEF Init, StrategyTypeOK
  <2> QED  BY <2>1, <2>2 DEF Inv
<1>2. Inv /\ [Next]_vars => Inv'
  BY NextServerStep, ServerInvStep, StrategyTypeStep DEF Inv
<1> QED  BY <1>1, <1>2, PTL DEF Spec

\* Strategy, with its servers, is type correct.
THEOREM TypeCorrect == Spec => []TypeOK
<1>1. Inv => TypeOK
  BY DEF Inv, ServerInv, StrategyTypeOK, TypeOK
<1> QED  BY <1>1, InvInvariant, PTL

\* A server that says it is alive has a goroutine for each of its sessions,
\* however often it failed and was connected anew before.
THEOREM ServedWhileAlive == Spec => []AliveIsServed
<1>1. Inv => AliveIsServed
  <2> SUFFICES ASSUME Inv, NEW s \in Servers, Alive(s), hg[s] # "go"
               PROVE  Running(s, t[s]) = Slots
    BY DEF AliveIsServed
  <2>1. \A i \in Slots : worker[s][<<t[s], i>>] \notin {"none", "gone"}
    BY DEF Inv, ServerInv, GenOK, Started
  <2> QED  BY <2>1 DEF Running
<1> QED  BY <1>1, InvInvariant, PTL

-----------------------------------------------------------------------------
\* Whoever is inside HandleGrabs is known: a ticker that says so, or Connect.
\* Shutdown has seen every ticker go.

CallerKnown ==
    /\ \A s \in Servers : hg[s] # "idle" =>
            ticker[s] = "busy" \/ (main = "connecting" /\ Order[at] = s)
    /\ main = "done" => \A s \in Servers : ticker[s] = "gone"

LEMMA CallerKnownStep ==
    ASSUME Inv, CallerKnown, [Next]_vars
    PROVE  CallerKnown'
<1> USE DEF CallerKnown, mainVars, aggVars, serverVars, connectVars
<1>t. /\ hg \in [Servers -> {"idle", "dial", "tomb", "go"}]
      /\ ticker \in [Servers -> {"none", "select", "busy", "gone"}]
      /\ Order[at] \in Servers
  BY OrderFacts DEF Inv, ServerInv, ServerTypeOK, StrategyTypeOK
<1>1. CASE Caller
  <2>1. CASE ConnectServer
    BY <1>t, <2>1 DEF ConnectServer, HandleGrabs
  <2>2. CASE ServerConnected
    <3>1. \A s \in Servers : hg[s] # "idle" => s # Order[at] /\ ticker[s] = "busy"
      BY <2>2 DEF ServerConnected
    <3>2. /\ hg' = hg /\ main' # "done"
          /\ ticker' = [ticker EXCEPT ![Order[at]] = "select"]
      BY <2>2 DEF ServerConnected
    <3> QED  BY <1>t, <3>1, <3>2
  <2>3. CASE BeginShutdown
    BY <2>3 DEF BeginShutdown
  <2>4. CASE ShutdownServer
    BY <2>4 DEF ShutdownServer, Shutdown, ShutdownKill, ShutdownWait, ShutdownWaited, Quit
  <2>5. CASE NextServer
    BY <2>5 DEF NextServer
  <2>6. CASE ShutdownReturned
    BY <2>6 DEF ShutdownReturned
  <2> QED  BY <1>1, <2>1, <2>2, <2>3, <2>4, <2>5, <2>6 DEF Caller
<1>2. CASE Deliver \/ UNCHANGED vars
  BY <1>2 DEF Deliver, vars, strategyVars
<1>3. ASSUME NEW s \in Servers, Connected(s)
      PROVE  CallerKnown'
  <2>1. \A u \in Servers : hg'[u] # "idle" => hg[u] # "idle"
    BY <1>t, <1>3 DEF Connected, Connecting, NewSession, NewSessionFails, NewTomb, Go
  <2> QED  BY <1>3, <2>1 DEF Connected, strategyVars
<1>4. ASSUME NEW s \in Servers, NEW g \in Attempts, NEW i \in Slots, Worked(s, g, i)
      PROVE  CallerKnown'
  <2>1. hg' = hg
    BY <1>4 DEF Worked, Work, Enter, Receive, Fetched, Respond, ProtocolError, Exit
  <2> QED  BY <1>4, <2>1 DEF Worked, strategyVars
<1>5. ASSUME NEW s \in Servers, Aggregate(s)
      PROVE  CallerKnown'
  BY <1>5 DEF Aggregate, Collect, PassOn, AggregatorExits, Grabbed
<1>6. ASSUME NEW s \in Servers, Reconnect(s)
      PROVE  CallerKnown'
  <2>1. CASE Tick(s)
    BY <1>t, <2>1 DEF Tick, HandleGrabs
  <2>2. CASE Ticked(s)
    BY <1>t, <2>2 DEF Ticked
  <2>3. CASE TickerExits(s)
    BY <1>t, <2>3 DEF TickerExits
  <2> QED  BY <1>6, <2>1, <2>2, <2>3 DEF Reconnect
<1>7. ASSUME NEW s \in Servers, NEW r \in Requests, Dispatch(s, r) \/ Send(s, r)
      PROVE  CallerKnown'
  BY <1>7 DEF Dispatch, Send, Grab
<1> QED  BY <1>1, <1>2, <1>3, <1>4, <1>5, <1>6, <1>7 DEF Next

\* Once Strategy.Shutdown has returned, no HandleGrabs connects a session and
\* none is quit, however often the servers failed and were reconnected before.
THEOREM NoneConnectedOnceShutDown == Spec => NoneConnectedAfter
<1>1. Init => CallerKnown
  BY DEF Init, ServerInit, CallerKnown
<1>2. ASSUME Inv, CallerKnown, [Next]_vars, main = "done"
      PROVE  \A s \in Servers : open'[s] = open[s] /\ hg'[s] = hg[s]
  <2>1. \A s \in Servers : hg[s] = "idle" /\ ticker[s] = "gone"
    BY <1>2 DEF CallerKnown
  <2>2. CASE Caller
    BY <1>2, <2>2 DEF Caller, ConnectServer, ServerConnected, BeginShutdown,
       ShutdownServer, NextServer, ShutdownReturned
  <2>3. CASE Deliver \/ UNCHANGED vars
    BY <2>3 DEF Deliver, vars, serverVars, connectVars
  <2>4. ASSUME NEW s \in Servers, Connected(s) \/ Reconnect(s)
        PROVE  UNCHANGED <<open, hg>>
    BY <2>1, <2>4 DEF Connected, Connecting, NewSession, NewSessionFails, NewTomb, Go,
       Reconnect, Tick, Ticked, TickerExits
  <2>5. ASSUME NEW s \in Servers, NEW g \in Attempts, NEW i \in Slots, Worked(s, g, i)
        PROVE  UNCHANGED <<open, hg>>
    BY <2>5 DEF Worked, Work, Enter, Receive, Fetched, Respond, ProtocolError, Exit,
       connectVars
  <2>6. ASSUME NEW s \in Servers,
               Aggregate(s) \/ \E r \in Requests : Dispatch(s, r) \/ Send(s, r)
        PROVE  UNCHANGED <<open, hg>>
    BY <2>6 DEF Aggregate, Collect, PassOn, AggregatorExits, Grabbed, Dispatch, Send, Grab,
       serverVars, connectVars
  <2> QED  BY <1>2, <2>2, <2>3, <2>4, <2>5, <2>6 DEF Next
<1>3. Inv /\ CallerKnown /\ [Next]_vars =>
        [main = "done" => \A s \in Servers : open'[s] = open[s] /\ hg'[s] = hg[s]]_vars
  BY <1>2
<1> QED
  BY <1>1, <1>3, InvInvariant, CallerKnownStep, PTL DEF Spec, NoneConnectedAfter
-----------------------------------------------------------------------------
\* Which connection a slot's session is of, and which tomb Shutdown waits for: the
\* sessions in the slots are of the present connection, or of one that is being
\* made, or has failed, since; nothing runs on a tomb that is dead, and a tomb that
\* Shutdown has seen dead stays so, for no connection is made with an old one.

QuitOK(s) ==
    /\ \A i \in Slots : sessions[s][i] >= t[s]
    /\ hg[s] = "dial" => \A i \in Slots : i < hgSlot[s] => sessions[s][i] = attempt[s]
    /\ hg[s] = "tomb" => \A i \in Slots : sessions[s][i] = attempt[s]
    /\ sd[s] = "killed" => t[s] # 0
    /\ sd[s] \in {"waiting", "quit"} => sdTomb[s] # 0 /\ sdTomb[s] <= t[s]
    /\ sd[s] = "quit" => tomb[s][sdTomb[s]] = "dead"
    /\ \A g \in Attempts : tomb[s][g] = "dead" => Running(s, g) = {}

quitVars == <<sessions, t, hg, hgSlot, attempt, sd, sdTomb, tomb, worker>>

\* A step of server s says nothing of another.
QuitSame(u) ==
    /\ sessions'[u] = sessions[u] /\ t'[u] = t[u] /\ hg'[u] = hg[u] /\ hgSlot'[u] = hgSlot[u]
    /\ attempt'[u] = attempt[u] /\ sd'[u] = sd[u] /\ sdTomb'[u] = sdTomb[u]
    /\ tomb'[u] = tomb[u] /\ worker'[u] = worker[u]

LEMMA QuitStutter ==
    ASSUME NEW u \in Servers, QuitOK(u), QuitSame(u)
    PROVE  QuitOK(u)'
BY DEF QuitOK, QuitSame, Running

LEMMA QuitConnecting ==
    ASSUME ServerInv, NEW s \in Servers, QuitOK(s), HandleGrabs(s) \/ Connecting(s)
    PROVE  QuitOK(s)'
<1> USE ServerAssumption DEF Attempts, Slots, Workers
<1> ServerTypeOK /\ GenOK(s)
  BY DEF ServerInv
<1> TombsOK /\ WorkersOK /\ ConnectsOK /\ ShutdownsOK
  BY Parts
<1>1. CASE HandleGrabs(s)
  BY <1>1 DEF HandleGrabs, QuitOK, GenOK, TombsOK, ConnectsOK, Running, workerVars, shutdownVars
<1>2. CASE NewSession(s)
  <2>1. /\ sessions'[s] = [sessions[s] EXCEPT ![hgSlot[s]] = attempt[s]]
        /\ UNCHANGED <<t, tomb, worker, attempt, sd, sdTomb>> /\ hg[s] = "dial"
        /\ hgSlot[s] # MaxSessions => hg' = hg /\ hgSlot'[s] = hgSlot[s] + 1
        /\ hgSlot[s] = MaxSessions => hg'[s] = "tomb"
    BY <1>2 DEF NewSession, ConnectsOK, workerVars, shutdownVars
  <2>2. /\ attempt[s] >= t[s] /\ t[s] \in Nat /\ attempt[s] \in Nat /\ hgSlot[s] \in Slots
        /\ sessions[s] \in [Slots -> Nat]
    BY DEF GenOK, TombsOK, ConnectsOK
  <2>3. \A i \in Slots : sessions'[s][i] = IF i = hgSlot[s] THEN attempt[s] ELSE sessions[s][i]
    BY <2>1, <2>2
  <2>4. \A i \in Slots : i <= hgSlot[s] => sessions'[s][i] = attempt[s]
    BY <2>1, <2>2, <2>3 DEF QuitOK
  <2>5. \A g \in Attempts : Running(s, g)' = Running(s, g)
    BY <2>1 DEF Running
  <2>6. \A i \in Slots : sessions'[s][i] >= t'[s]
    BY <2>1, <2>2, <2>3 DEF QuitOK
  <2>7. hg'[s] = "dial" => \A i \in Slots : i < hgSlot'[s] => sessions'[s][i] = attempt'[s]
    BY <2>1, <2>2, <2>4
  <2>8. hg'[s] = "tomb" => \A i \in Slots : sessions'[s][i] = attempt'[s]
    BY <2>1, <2>2, <2>4
  <2> QED  BY <2>1, <2>5, <2>6, <2>7, <2>8 DEF QuitOK
<1>3. CASE NewSessionFails(s)
  BY <1>3 DEF NewSessionFails, QuitOK, ConnectsOK, Running, workerVars, shutdownVars
<1>4. CASE NewTomb(s)
  <2>1. /\ t'[s] = attempt[s] /\ hg[s] = "tomb" /\ hg'[s] = "go"
        /\ tomb'[s] = [tomb[s] EXCEPT ![attempt[s]] = "alive"]
        /\ UNCHANGED <<sessions, worker, attempt, sd, sdTomb>>
    BY <1>4 DEF NewTomb, TombsOK, ConnectsOK, workerVars, shutdownVars
  <2>2. t[s] < attempt[s] /\ t[s] \in Nat /\ attempt[s] \in Attempts
    BY <2>1 DEF GenOK, TombsOK, ConnectsOK
  <2>3. \A i \in Slots : sessions[s][i] = attempt[s]
    BY <2>1 DEF QuitOK
  <2>4. sd[s] = "quit" => tomb'[s][sdTomb[s]] = "dead"
    BY <2>1, <2>2 DEF QuitOK, TombsOK, ShutdownsOK
  <2>5. \A g \in Attempts : tomb'[s][g] = "dead" => tomb[s][g] = "dead"
    BY <2>1, <2>2 DEF TombsOK
  <2>6. \A g \in Attempts : Running(s, g)' = Running(s, g)
    BY <2>1 DEF Running
  <2> QED  BY <2>1, <2>2, <2>3, <2>4, <2>5, <2>6 DEF QuitOK, ShutdownsOK
<1>5. CASE Go(s)
  <2>1. /\ UNCHANGED <<t, tomb, sessions, attempt, sd, sdTomb>> /\ hg[s] = "go"
        /\ hg'[s] \in {"go", "idle"}
    BY <1>5 DEF Go, ConnectsOK, shutdownVars
  <2>2. ASSUME NEW g \in Attempts, tomb[s][g] = "dead" PROVE Running(s, g)' = {}
    <3>1. CASE tomb[s][t[s]] = "dead"
      BY <1>5, <2>2, <3>1 DEF Go, QuitOK, Running
    <3>2. CASE tomb[s][t[s]] # "dead"
      <4>1. worker' = [worker EXCEPT ![s][<<t[s], hgSlot[s]>>] = "top"] /\ g # t[s]
        BY <1>5, <2>2, <3>2 DEF Go
      <4>2. \A i \in Slots : worker'[s][<<g, i>>] = worker[s][<<g, i>>]
        BY <4>1 DEF WorkersOK
      <4> QED  BY <2>2, <4>2 DEF QuitOK, Running
    <3> QED  BY <3>1, <3>2
  <2> QED  BY <2>1, <2>2 DEF QuitOK
<1> QED  BY <1>1, <1>2, <1>3, <1>4, <1>5 DEF Connecting

LEMMA QuitReturn ==
    ASSUME ServerInv, NEW s \in Servers, QuitOK(s), NEW g \in Attempts, NEW i \in Slots,
           NEW failed \in BOOLEAN, Return(s, g, i, failed)
    PROVE  /\ \A h \in Attempts : tomb[s][h] = "dead" => tomb'[s][h] = "dead"
           /\ \A h \in Attempts : tomb'[s][h] = "dead" => Running(s, h)' = {}
<1> TombsOK /\ WorkersOK
  BY Parts DEF ServerInv
<1>1. \A h \in Attempts, j \in Slots : <<h, j>> \in Workers
  BY DEF Workers
<1>2. \A h \in Attempts, j \in Slots :
        worker'[s][<<h, j>>] = IF h = g /\ j = i THEN "gone" ELSE worker[s][<<h, j>>]
  BY <1>1 DEF Return, WorkersOK
<1>3. \A h \in Attempts : Running(s, h)' = IF h = g THEN Running(s, g) \ {i} ELSE Running(s, h)
  BY <1>2 DEF Running
<1>4. /\ \A h \in Attempts : h # g => tomb'[s][h] = tomb[s][h]
      /\ Running(s, g) = {i} => tomb'[s][g] = "dead"
      /\ Running(s, g) # {i} => (tomb'[s][g] = "dead" <=> tomb[s][g] = "dead")
  BY DEF Return, TombsOK
<1> QED  BY <1>3, <1>4 DEF QuitOK

LEMMA QuitWork ==
    ASSUME ServerInv, NEW s \in Servers, QuitOK(s),
           NEW g \in Attempts, NEW i \in Slots, Work(s, g, i)
    PROVE  QuitOK(s)'
<1> ServerTypeOK /\ GenOK(s)
  BY DEF ServerInv
<1> TombsOK /\ WorkersOK /\ ConnectsOK /\ ShutdownsOK
  BY Parts
<1>1. UNCHANGED <<sessions, t, hg, hgSlot, attempt, sd, sdTomb>>
  BY DEF Work, Enter, Receive, Fetched, Respond, ProtocolError, Exit, connectVars, shutdownVars
<1>2. sdTomb[s] # 0 => sdTomb[s] \in Attempts
  BY DEF ShutdownsOK, Attempts
<1>3. CASE Enter(s, g, i) \/ Receive(s, g, i) \/ Fetched(s, g, i) \/ Respond(s, g, i)
  <2>1. PICK l \in {"top", "select", "fetch", "respond"} :
            worker' = [worker EXCEPT ![s][<<g, i>>] = l]
    BY <1>3 DEF Enter, Receive, Fetched, Respond
  <2>2. worker[s][<<g, i>>] \notin {"none", "gone"} /\ tomb' = tomb
    BY <1>3 DEF Enter, Receive, Fetched, Respond
  <2>3. \A h \in Attempts, j \in Slots : <<h, j>> \in Workers
    BY DEF Workers
  <2>4. \A h \in Attempts, j \in Slots :
          worker'[s][<<h, j>>] = IF h = g /\ j = i THEN l ELSE worker[s][<<h, j>>]
    BY <2>1, <2>3 DEF WorkersOK
  <2>5. \A h \in Attempts : Running(s, h)' = Running(s, h)
    BY <2>2, <2>4 DEF Running
  <2> QED  BY <1>1, <2>2, <2>5 DEF QuitOK
<1>4. CASE ProtocolError(s, g, i) \/ Exit(s, g, i)
  <2>1. \E failed \in BOOLEAN : Return(s, g, i, failed)
    BY <1>4 DEF ProtocolError, Exit
  <2>2. /\ \A h \in Attempts : tomb[s][h] = "dead" => tomb'[s][h] = "dead"
        /\ \A h \in Attempts : tomb'[s][h] = "dead" => Running(s, h)' = {}
    BY <2>1, QuitReturn
  <2>3. sd[s] = "quit" => tomb'[s][sdTomb[s]] = "dead"
    BY <1>2, <2>2 DEF QuitOK
  <2> QED  BY <1>1, <2>2, <2>3 DEF QuitOK
<1> QED  BY <1>3, <1>4 DEF Work

LEMMA QuitShutdown ==
    ASSUME ServerInv, NEW s \in Servers, QuitOK(s), Shutdown(s)
    PROVE  QuitOK(s)'
<1> ServerTypeOK /\ GenOK(s)
  BY DEF ServerInv
<1> TombsOK /\ WorkersOK /\ ConnectsOK /\ ShutdownsOK
  BY Parts
<1>1. UNCHANGED <<sessions, t, hg, hgSlot, attempt, worker>>
  BY DEF Shutdown, ShutdownKill, ShutdownWait, ShutdownWaited, Quit, connectVars, workerVars
<1>2. \A g \in Attempts : Running(s, g)' = Running(s, g)
  BY <1>1 DEF Running
<1>3. CASE ShutdownKill(s)
  <2>1. t[s] # 0 => t[s] \in Attempts
    BY DEF TombsOK, Attempts
  <2>2. \A g \in Attempts : tomb'[s][g] = "dead" <=> tomb[s][g] = "dead"
    BY <1>3, <2>1 DEF ShutdownKill, Kill, TombsOK
  <2>3. sd'[s] \in {"done", "killed"} /\ (sd'[s] = "killed" => t[s] # 0) /\ sdTomb' = sdTomb
    BY <1>3 DEF ShutdownKill, ShutdownsOK
  <2> QED  BY <1>1, <1>2, <2>2, <2>3 DEF QuitOK
<1>4. CASE ShutdownWait(s)
  <2>1. sd[s] = "killed" /\ sd'[s] = "waiting" /\ sdTomb'[s] = t[s] /\ tomb' = tomb
    BY <1>4 DEF ShutdownWait, ShutdownsOK
  <2> QED  BY <1>1, <1>2, <2>1 DEF QuitOK, TombsOK
<1>5. CASE ShutdownWaited(s)
  <2>1. /\ sd[s] = "waiting" /\ sd'[s] = "quit" /\ sdTomb' = sdTomb /\ tomb' = tomb
        /\ tomb[s][sdTomb[s]] = "dead"
    BY <1>5 DEF ShutdownWaited, ShutdownsOK
  <2> QED  BY <1>1, <1>2, <2>1 DEF QuitOK
<1>6. CASE Quit(s)
  <2>1. sd[s] = "quit" /\ sd'[s] \in {"quit", "done"} /\ sdTomb' = sdTomb /\ tomb' = tomb
    BY <1>6 DEF Quit, ShutdownsOK
  <2> QED  BY <1>1, <1>2, <2>1 DEF QuitOK
<1> QED  BY <1>3, <1>4, <1>5, <1>6 DEF Shutdown

LEMMA QuitStep ==
    ASSUME ServerInv, \A s \in Servers : QuitOK(s), ServerStep
    PROVE  \A s \in Servers : QuitOK(s)'
<1> TombsOK /\ WorkersOK /\ ConnectsOK /\ ShutdownsOK
  BY Parts DEF ServerInv
<1>1. CASE UNCHANGED quitVars
  BY <1>1, QuitStutter DEF quitVars, QuitSame
<1>2. ASSUME UNCHANGED serverVars \/ (\E s \in Servers :
                Grabbed(s) \/ \E r \in Requests : Grab(s, r))
      PROVE  UNCHANGED quitVars
  BY <1>2 DEF serverVars, Grabbed, Grab, quitVars, workerVars, connectVars, shutdownVars
<1>3. ASSUME NEW s \in Servers, NEW u \in Servers \ {s},
             HandleGrabs(s) \/ Connecting(s)
      PROVE  QuitSame(u)
  BY <1>3 DEF HandleGrabs, Connecting, NewSession, NewSessionFails, NewTomb, Go, QuitSame,
     workerVars, shutdownVars, TombsOK, WorkersOK, ConnectsOK
<1>4. ASSUME NEW s \in Servers, NEW u \in Servers \ {s}, Shutdown(s)
      PROVE  QuitSame(u)
  BY <1>4 DEF Shutdown, ShutdownKill, ShutdownWait, ShutdownWaited, Quit, Kill, QuitSame,
     workerVars, connectVars, TombsOK, ShutdownsOK
<1>5. ASSUME NEW s \in Servers, NEW u \in Servers \ {s}, NEW g \in Attempts, NEW i \in Slots,
             Work(s, g, i)
      PROVE  QuitSame(u)
  BY <1>5 DEF Work, Enter, Receive, Fetched, Respond, ProtocolError, Exit, Return, QuitSame,
     connectVars, shutdownVars, TombsOK, WorkersOK
<1> QED
  BY <1>1, <1>2, <1>3, <1>4, <1>5, QuitStutter, QuitConnecting, QuitWork, QuitShutdown
  DEF ServerStep

\* Shutdown quits no session under a goroutine that has still to fetch with it, but
\* for those of a connection that was made while it waited for the one before.
THEOREM QuitsOnlyIdle == Spec => QuitsIdle
<1>1. Init => \A s \in Servers : QuitOK(s)
  <2> SUFFICES ASSUME Init, NEW s \in Servers PROVE QuitOK(s)
    OBVIOUS
  <2>1. /\ sessions[s] = [i \in Slots |-> 0] /\ t[s] = 0 /\ hg[s] = "idle" /\ sd[s] = "idle"
        /\ \A g \in Attempts : tomb[s][g] = "unused"
    BY DEF Init, ServerInit
  <2> QED  BY <2>1 DEF QuitOK
<1>2. Inv /\ (\A s \in Servers : QuitOK(s)) /\ [Next]_vars => (\A s \in Servers : QuitOK(s))'
  BY QuitStep, NextServerStep DEF Inv
<1>3. ASSUME Inv, \A s \in Servers : QuitOK(s), [Next]_vars, NEW s \in Servers,
             NEW w \in open[s] \ open'[s]
      PROVE  worker[s][w] \in {"none", "gone"} \/ w[1] > sdTomb[s]
  <2> TombsOK /\ WorkersOK /\ ConnectsOK /\ ShutdownsOK /\ OpenOK
    BY <1>3, Parts DEF Inv, ServerInv
  <2>1. w \in Workers
    BY DEF OpenOK
  <2>2. Quit(s) /\ w = <<sessions[s][sdSlot[s]], sdSlot[s]>>
    <3>1. ServerStep
      BY <1>3, NextServerStep
    <3>2. ASSUME NEW u \in Servers, HandleGrabs(u) \/ Connecting(u) PROVE open[s] \subseteq open'[s]
      BY <3>2 DEF HandleGrabs, Connecting, NewSession, NewSessionFails, NewTomb, Go, OpenOK
    <3>3. ASSUME NEW u \in Servers, NEW g \in Attempts, NEW i \in Slots, Work(u, g, i)
          PROVE  open' = open
      BY <3>3 DEF Work, Enter, Receive, Fetched, Respond, ProtocolError, Exit
    <3>4. ASSUME NEW u \in Servers, Grabbed(u) \/ \E r \in Requests : Grab(u, r)
          PROVE  open' = open
      BY <3>4 DEF Grabbed, Grab
    <3>5. UNCHANGED serverVars => open' = open
      BY DEF serverVars
    <3>6. ASSUME NEW u \in Servers, Shutdown(u)
          PROVE  u = s /\ Quit(u) /\ w = <<sessions[s][sdSlot[s]], sdSlot[s]>>
      BY <3>6 DEF Shutdown, ShutdownKill, ShutdownWait, ShutdownWaited, Quit, OpenOK
    <3> QED  BY <3>1, <3>2, <3>3, <3>4, <3>5, <3>6 DEF ServerStep
  <2>3. w[1] \in Attempts /\ sdTomb[s] \in Nat /\ sdSlot[s] \in Slots
    BY <2>1 DEF Workers, ShutdownsOK
  <2>4. w[1] >= sdTomb[s]
    BY <1>3, <2>2, <2>3 DEF Quit, QuitOK, TombsOK, ConnectsOK, Attempts
  <2>5. CASE w[1] = sdTomb[s]
    <3>1. Running(s, w[1]) = {}
      BY <1>3, <2>2, <2>3, <2>5 DEF Quit, QuitOK
    <3>2. w = <<w[1], w[2]>> /\ w[2] \in Slots
      BY <2>1 DEF Workers
    <3> QED  BY <3>1, <3>2 DEF Running
  <2> QED  BY <2>3, <2>4, <2>5 DEF Attempts
<1>4. Inv /\ (\A s \in Servers : QuitOK(s)) /\ [Next]_vars =>
        [\A s \in Servers : \A w \in open[s] \ open'[s] :
            worker[s][w] \in {"none", "gone"} \/ w[1] > sdTomb[s]]_vars
  BY <1>3
<1> QED
  BY <1>1, <1>2, <1>4, InvInvariant, PTL DEF Spec, QuitsIdle
-----------------------------------------------------------------------------
\* Where a request can be, from the dispatcher on: with a server, in one of its
\* channels or sessions; with the aggregator; answered, or lost.

Elements(q) == {q[k] : k \in DOMAIN q}

NoRepeats(q) == \A j, k \in DOMAIN q : q[j] = q[k] => j = k

Places ==
    ({"gReq", "gRsp", "carries", "grabRsp", "answered", "lost", "sending"} \X Servers \X {0})
        \cup ({"holds"} \X Servers \X Workers)

AskedPlaces(s) ==
    ({"gReq", "gRsp", "carries", "grabRsp"} \X {s} \X {0}) \cup ({"holds"} \X {s} \X Workers)

Where == [p \in Places |->
    CASE p[1] = "gReq"     -> Elements(gReq[p[2]])
      [] p[1] = "holds"    -> holds[p[2]][p[3]]
      [] p[1] = "gRsp"     -> Elements(gRsp[p[2]])
      [] p[1] = "carries"  -> carries[p[2]]
      [] p[1] = "grabRsp"  -> {x.req : x \in {y \in Elements(grabRsp) : y.server = p[2]}}
      [] p[1] = "answered" -> answered[p[2]]
      [] p[1] = "lost"     -> lost[p[2]]
      [] p[1] = "sending"  -> {r \in Requests : <<p[2], r>> \in sending}]

\* A request is in one place, and in a line only once; sessions, aggregators and the
\* dispatcher have one at a time; and a goroutine that is started holds nothing.

Apart(f) == \A p, q \in Places : p # q => f[p] \cap f[q] = {}

OnceInLine ==
    /\ \A s \in Servers : NoRepeats(gReq[s]) /\ NoRepeats(gRsp[s])
    /\ NoRepeats(grabRsp)

Holding(s) ==
    \A w \in Workers : IF worker[s][w] \in {"fetch", "respond"}
                       THEN \E r \in Requests : holds[s][w] = {r} ELSE holds[s][w] = {}

Carrying(s) ==
    IF aggregator[s] = "send" THEN \E r \in Requests : carries[s] = {r} ELSE carries[s] = {}

SendsOne == sending = {} \/ \E s \in Servers, r \in Requests : sending = {<<s, r>>}

NotStarted(s) ==
    hg[s] = "go" => \A i \in Slots : hgSlot[s] <= i => worker[s][<<t[s], i>>] = "none"

NotConnected ==
    main \in {"connect", "connecting"} =>
        \A k \in DOMAIN Order : at <= k => aggregator[Order[k]] = "none"

OneAtATime ==
    /\ \A s \in Servers : Holding(s) /\ Carrying(s) /\ NotStarted(s)
    /\ SendsOne /\ NotConnected

OnePlace == Apart(Where) /\ OnceInLine /\ OneAtATime

-----------------------------------------------------------------------------
LEMMA ElementsAppend ==
    ASSUME NEW S, NEW q \in Seq(S), NEW x \in S
    PROVE  /\ Elements(Append(q, x)) = Elements(q) \cup {x}
           /\ NoRepeats(q) /\ x \notin Elements(q) => NoRepeats(Append(q, x))
<1>1. /\ Len(q) \in Nat /\ DOMAIN q = 1 .. Len(q)
      /\ DOMAIN Append(q, x) = 1 .. Len(q) + 1
      /\ \A k \in 1 .. Len(q) : Append(q, x)[k] = q[k]
      /\ Append(q, x)[Len(q) + 1] = x
  BY AppendProperties, LenProperties
<1>2. 1 .. Len(q) + 1 = 1 .. Len(q) \cup {Len(q) + 1}
  BY <1>1
<1>3. Elements(Append(q, x)) = Elements(q) \cup {x}
  BY <1>1, <1>2 DEF Elements
<1>4. NoRepeats(q) /\ x \notin Elements(q) => NoRepeats(Append(q, x))
  BY <1>1, <1>2 DEF NoRepeats, Elements
<1> QED  BY <1>3, <1>4

LEMMA ElementsTail ==
    ASSUME NEW S, NEW q \in Seq(S), q # <<>>, NoRepeats(q)
    PROVE  /\ Head(q) \in Elements(q) /\ Elements(q) \subseteq S
           /\ Elements(Tail(q)) = Elements(q) \ {Head(q)}
           /\ NoRepeats(Tail(q))
<1>1. /\ Len(q) \in Nat \ {0} /\ DOMAIN q = 1 .. Len(q)
      /\ Head(q) = q[1]
      /\ DOMAIN Tail(q) = 1 .. Len(q) - 1
      /\ \A k \in 1 .. Len(q) - 1 : Tail(q)[k] = q[k + 1]
      /\ \A k \in 1 .. Len(q) : q[k] \in S
  BY HeadTailProperties, LenProperties, EmptySeq, ElementOfSeq
<1>2. ASSUME NEW x \in Elements(Tail(q)) PROVE x \in Elements(q) \ {Head(q)}
  <2>1. PICK k \in 1 .. Len(q) - 1 : x = q[k + 1]
    BY <1>1 DEF Elements
  <2>2. k + 1 \in 1 .. Len(q) /\ k + 1 # 1 /\ 1 \in 1 .. Len(q)
    BY <1>1
  <2> QED  BY <1>1, <2>1, <2>2 DEF Elements, NoRepeats
<1>3. ASSUME NEW x \in Elements(q) \ {Head(q)} PROVE x \in Elements(Tail(q))
  <2>1. PICK k \in 1 .. Len(q) : x = q[k]
    BY <1>1 DEF Elements
  <2>2. k - 1 \in 1 .. Len(q) - 1 /\ (k - 1) + 1 = k
    BY <1>1, <2>1
  <2> QED  BY <1>1, <2>1, <2>2 DEF Elements
<1>4. NoRepeats(Tail(q))
  <2> SUFFICES ASSUME NEW j \in 1 .. Len(q) - 1, NEW k \in 1 .. Len(q) - 1,
                      Tail(q)[j] = Tail(q)[k]
               PROVE  j = k
    BY <1>1 DEF NoRepeats
  <2>1. j + 1 \in 1 .. Len(q) /\ k + 1 \in 1 .. Len(q)
    BY <1>1
  <2>2. q[j + 1] = q[k + 1]
    BY <1>1
  <2>3. j + 1 = k + 1
    BY <1>1, <2>1, <2>2 DEF NoRepeats
  <2> QED  BY <2>3
<1>5. Elements(Tail(q)) = Elements(q) \ {Head(q)}
  BY <1>2, <1>3
<1>6. Head(q) \in Elements(q) /\ Elements(q) \subseteq S
  <2>1. 1 \in DOMAIN q /\ \A k \in DOMAIN q : q[k] \in S
    BY <1>1
  <2> QED  BY <1>1, <2>1 DEF Elements
<1> QED  BY <1>4, <1>5, <1>6

\* What each place holds, before a step and after it.
Split ==
    /\ \A s \in Servers :
        /\ Where[<<"gReq", s, 0>>] = Elements(gReq[s])
        /\ Where[<<"gRsp", s, 0>>] = Elements(gRsp[s])
        /\ Where[<<"carries", s, 0>>] = carries[s]
        /\ Where[<<"grabRsp", s, 0>>]
             = {x.req : x \in {y \in Elements(grabRsp) : y.server = s}}
        /\ Where[<<"answered", s, 0>>] = answered[s]
        /\ Where[<<"lost", s, 0>>] = lost[s]
        /\ Where[<<"sending", s, 0>>] = {r \in Requests : <<s, r>> \in sending}
        /\ \A w \in Workers : Where[<<"holds", s, w>>] = holds[s][w]

LEMMA SplitNow == Split
<1> SUFFICES ASSUME NEW s \in Servers
             PROVE  /\ Where[<<"gReq", s, 0>>] = Elements(gReq[s])
                    /\ Where[<<"gRsp", s, 0>>] = Elements(gRsp[s])
                    /\ Where[<<"carries", s, 0>>] = carries[s]
                    /\ Where[<<"grabRsp", s, 0>>]
                         = {x.req : x \in {y \in Elements(grabRsp) : y.server = s}}
                    /\ Where[<<"answered", s, 0>>] = answered[s]
                    /\ Where[<<"lost", s, 0>>] = lost[s]
                    /\ Where[<<"sending", s, 0>>] = {r \in Requests : <<s, r>> \in sending}
                    /\ \A w \in Workers : Where[<<"holds", s, w>>] = holds[s][w]
  BY DEF Split
<1>1. /\ Where[<<"gReq", s, 0>>] = Elements(gReq[s])
      /\ Where[<<"gRsp", s, 0>>] = Elements(gRsp[s])
  BY DEF Where, Places
<1>2. Where[<<"carries", s, 0>>] = carries[s]
  BY DEF Where, Places
<1>3. Where[<<"grabRsp", s, 0>>] = {x.req : x \in {y \in Elements(grabRsp) : y.server = s}}
  BY DEF Where, Places
<1>4. Where[<<"answered", s, 0>>] = answered[s] /\ Where[<<"lost", s, 0>>] = lost[s]
  BY DEF Where, Places
<1>5. Where[<<"sending", s, 0>>] = {r \in Requests : <<s, r>> \in sending}
  BY DEF Where, Places
<1>6. \A w \in Workers : Where[<<"holds", s, w>>] = holds[s][w]
  BY DEF Where, Places
<1> QED  BY <1>1, <1>2, <1>3, <1>4, <1>5, <1>6

LEMMA SplitBoth == Split /\ Split'
BY SplitNow, PTL

LEMMA EachPlace ==
    ASSUME NEW p \in Places
    PROVE  \E s \in Servers :
             \/ \E k \in {"gReq", "gRsp", "carries", "grabRsp", "answered", "lost", "sending"} :
                    p = <<k, s, 0>>
             \/ \E w \in Workers : p = <<"holds", s, w>>
BY DEF Places

\* A request moves from one place to another.
Moved(f, g, r, p, q) ==
    \A x \in Places : g[x] = IF x = p THEN f[x] \ {r}
                             ELSE IF x = q THEN f[x] \cup {r} ELSE f[x]

LEMMA MovedApart ==
    ASSUME NEW f, NEW g, NEW r, NEW p \in Places, NEW q \in Places, p # q,
           Apart(f), r \in f[p], Moved(f, g, r, p, q)
    PROVE  Apart(g)
<1> SUFFICES ASSUME NEW x \in Places, NEW y \in Places, x # y, NEW e \in g[x] \cap g[y]
             PROVE  FALSE
  BY DEF Apart
<1>1. \A z \in Places : r \in f[z] => z = p
  BY DEF Apart
<1>2. \A z \in Places : e \in g[z] => e \in f[z] \/ (e = r /\ z = q)
  BY DEF Moved
<1>3. r \notin g[p]
  BY DEF Moved
<1> QED  BY <1>1, <1>2, <1>3 DEF Apart

Gathered(f, s) == UNION {f[p] : p \in AskedPlaces(s)}

LEMMA AskedGathered == \A s \in Servers : Asked(s) = Gathered(Where, s)
<1> SUFFICES ASSUME NEW s \in Servers PROVE Asked(s) = Gathered(Where, s)
  OBVIOUS
<1>1. ASSUME NEW e
      PROVE  e \in Gathered(Where, s) <=>
                \/ \E k \in {"gReq", "gRsp", "carries", "grabRsp"} : e \in Where[<<k, s, 0>>]
                \/ \E w \in Workers : e \in Where[<<"holds", s, w>>]
  <2>1. e \in Gathered(Where, s) <=> \E p \in AskedPlaces(s) : e \in Where[p]
    BY DEF Gathered
  <2>2. \A p : p \in AskedPlaces(s) <=>
                \/ \E k \in {"gReq", "gRsp", "carries", "grabRsp"} : p = <<k, s, 0>>
                \/ \E w \in Workers : p = <<"holds", s, w>>
    BY DEF AskedPlaces
  <2> QED  BY <2>1, <2>2
<1>2. ASSUME NEW e
      PROVE  e \in Asked(s) <=>
                \/ e \in Elements(gReq[s]) \/ e \in Elements(gRsp[s]) \/ e \in carries[s]
                \/ e \in {grabRsp[k].req : k \in {n \in DOMAIN grabRsp : grabRsp[n].server = s}}
                \/ \E w \in Workers : e \in holds[s][w]
  BY DEF Asked, Elements
<1>3. {grabRsp[k].req : k \in {n \in DOMAIN grabRsp : grabRsp[n].server = s}}
        = {x.req : x \in {y \in Elements(grabRsp) : y.server = s}}
  BY DEF Elements
<1>4. ASSUME NEW e PROVE e \in Asked(s) <=> e \in Gathered(Where, s)
  <2>1. /\ Where[<<"gReq", s, 0>>] = Elements(gReq[s])
        /\ Where[<<"gRsp", s, 0>>] = Elements(gRsp[s])
        /\ Where[<<"carries", s, 0>>] = carries[s]
        /\ Where[<<"grabRsp", s, 0>>]
             = {x.req : x \in {y \in Elements(grabRsp) : y.server = s}}
        /\ \A w \in Workers : Where[<<"holds", s, w>>] = holds[s][w]
    BY SplitBoth DEF Split
  <2> HIDE DEF Where
  <2> QED  BY <1>1, <1>2, <1>3, <2>1
<1> QED  BY <1>4 DEF Gathered, Asked

LEMMA AskedGatheredNext == \A s \in Servers : Asked(s)' = Gathered(Where', s)
<1>1. (\A s \in Servers : Asked(s) = Gathered(Where, s))'
  BY AskedGathered, PTL
<1> QED  BY <1>1 DEF Gathered

LEMMA MovedGathered ==
    ASSUME NEW f, NEW g, NEW r, NEW p \in Places, NEW q \in Places, p # q,
           Apart(f), r \in f[p], Moved(f, g, r, p, q), NEW s \in Servers
    PROVE  /\ (p \in AskedPlaces(s) <=> q \in AskedPlaces(s)) => Gathered(g, s) = Gathered(f, s)
           /\ p \notin AskedPlaces(s) /\ q \in AskedPlaces(s) => Gathered(g, s) = Gathered(f, s) \cup {r}
           /\ p \in AskedPlaces(s) /\ q \notin AskedPlaces(s) => Gathered(g, s) = Gathered(f, s) \ {r}
           /\ p \in AskedPlaces(s) => r \in Gathered(f, s)
           /\ r \in Gathered(f, s) => p \in AskedPlaces(s)
<1>1. \A z \in Places : r \in f[z] => z = p
  BY DEF Apart
<1>2. AskedPlaces(s) \subseteq Places
  BY DEF AskedPlaces, Places
<1>3. \A e : e \in Gathered(f, s) <=> \E z \in AskedPlaces(s) : e \in f[z]
  BY DEF Gathered
<1>4. \A e : e \in Gathered(g, s) <=> \E z \in AskedPlaces(s) : e \in g[z]
  BY DEF Gathered
<1>5. ASSUME NEW e, e # r PROVE e \in Gathered(g, s) <=> e \in Gathered(f, s)
  BY <1>2, <1>3, <1>4, <1>5 DEF Moved
<1>6. r \in Gathered(g, s) <=> q \in AskedPlaces(s)
  BY <1>1, <1>2, <1>4 DEF Moved
<1>7. r \in Gathered(f, s) <=> p \in AskedPlaces(s)
  BY <1>1, <1>2, <1>3
<1> QED  BY <1>5, <1>6, <1>7

-----------------------------------------------------------------------------
\* The steps that move a request, each from which place to which.

After(S, x, r, p, q) == IF x = p THEN S \ {r} ELSE IF x = q THEN S \cup {r} ELSE S

Named(q, s) == {x.req : x \in {y \in Elements(q) : y.server = s}}

LEMMA MovedByParts ==
    ASSUME NEW r, NEW p \in Places, NEW q \in Places,
           \A s \in Servers :
             /\ Elements(gReq'[s]) = After(Elements(gReq[s]), <<"gReq", s, 0>>, r, p, q)
             /\ Elements(gRsp'[s]) = After(Elements(gRsp[s]), <<"gRsp", s, 0>>, r, p, q)
             /\ carries'[s] = After(carries[s], <<"carries", s, 0>>, r, p, q)
             /\ Named(grabRsp', s) = After(Named(grabRsp, s), <<"grabRsp", s, 0>>, r, p, q)
             /\ answered'[s] = After(answered[s], <<"answered", s, 0>>, r, p, q)
             /\ lost'[s] = After(lost[s], <<"lost", s, 0>>, r, p, q)
             /\ {e \in Requests : <<s, e>> \in sending'}
                  = After({e \in Requests : <<s, e>> \in sending}, <<"sending", s, 0>>, r, p, q)
             /\ \A w \in Workers : holds'[s][w] = After(holds[s][w], <<"holds", s, w>>, r, p, q)
    PROVE  Moved(Where, Where', r, p, q)
<1> SUFFICES ASSUME NEW x \in Places
             PROVE  Where'[x] = After(Where[x], x, r, p, q)
  BY DEF Moved, After
<1> HIDE DEF Where
<1>1. PICK s \in Servers :
        \/ \E k \in {"gReq", "gRsp", "carries", "grabRsp", "answered", "lost", "sending"} :
               x = <<k, s, 0>>
        \/ \E w \in Workers : x = <<"holds", s, w>>
  BY EachPlace
<1>2. CASE x = <<"gReq", s, 0>>
  BY <1>2, SplitBoth DEF Split
<1>3. CASE x = <<"gRsp", s, 0>>
  BY <1>3, SplitBoth DEF Split
<1>4. CASE x = <<"carries", s, 0>>
  BY <1>4, SplitBoth DEF Split
<1>5. CASE x = <<"grabRsp", s, 0>>
  BY <1>5, SplitBoth DEF Split, Named
<1>6. CASE x = <<"answered", s, 0>>
  BY <1>6, SplitBoth DEF Split
<1>7. CASE x = <<"lost", s, 0>>
  BY <1>7, SplitBoth DEF Split
<1>8. CASE x = <<"sending", s, 0>>
  BY <1>8, SplitBoth DEF Split
<1>9. ASSUME NEW w \in Workers, x = <<"holds", s, w>>
      PROVE  Where'[x] = After(Where[x], x, r, p, q)
  <2>1. Where[x] = holds[s][w] /\ Where'[x] = holds'[s][w]
    BY <1>9, SplitBoth DEF Split
  <2>2. holds'[s][w] = After(holds[s][w], <<"holds", s, w>>, r, p, q)
    OBVIOUS
  <2> QED  BY <1>9, <2>1, <2>2
<1> QED  BY <1>1, <1>2, <1>3, <1>4, <1>5, <1>6, <1>7, <1>8, <1>9

Moves(r, p, q) ==
    /\ p \in Places /\ q \in Places /\ p # q
    /\ r \in Requests /\ r \in Where[p]
    /\ Moved(Where, Where', r, p, q)

LEMMA SendMoves ==
    ASSUME Inv, OnePlace, NEW s \in Servers, NEW r \in Requests, Send(s, r)
    PROVE  Moves(r, <<"sending", s, 0>>, <<"gReq", s, 0>>) /\ OnceInLine'
<1> DEFINE p == <<"sending", s, 0>>
           q == <<"gReq", s, 0>>
<1> p \in Places /\ q \in Places /\ p # q
  BY DEF Places
<1> HIDE DEF Where
<1>1. sending = {<<s, r>>} /\ sending' = {}
  BY DEF Send, OnePlace, OneAtATime, SendsOne
<1>2. gReq' = [gReq EXCEPT ![s] = Append(@, r)] /\ gReq \in [Servers -> Seq(Requests)]
  BY Parts DEF Send, Grab, Inv, ServerInv, ChansOK
<1>3. UNCHANGED <<gRsp, holds, carries, grabRsp, answered, lost>>
  BY DEF Send, Grab, workerVars, aggVars
<1>4. r \in Where[p] /\ r \notin Elements(gReq[s])
  <2>1. r \in Where[p]
    BY <1>1, SplitBoth DEF Split
  <2>2. Where[q] \cap Where[p] = {}
    BY DEF OnePlace, Apart
  <2> QED  BY <2>1, <2>2, SplitBoth DEF Split
<1>5. \A u \in Servers :
        /\ Elements(gReq'[u]) = IF u = s THEN Elements(gReq[u]) \cup {r} ELSE Elements(gReq[u])
        /\ NoRepeats(gReq'[u])
  <2>1. /\ Elements(Append(gReq[s], r)) = Elements(gReq[s]) \cup {r}
        /\ NoRepeats(Append(gReq[s], r))
    BY <1>2, <1>4, ElementsAppend DEF OnePlace, OnceInLine
  <2> QED  BY <1>2, <2>1 DEF OnePlace, OnceInLine
<1>6. \A u \in Servers : {x \in Requests : <<u, x>> \in sending'}
        = IF u = s THEN {x \in Requests : <<u, x>> \in sending} \ {r}
                   ELSE {x \in Requests : <<u, x>> \in sending}
  BY <1>1
<1>7. Moved(Where, Where', r, p, q)
  BY <1>3, <1>5, <1>6, MovedByParts DEF After
<1>8. OnceInLine'
  BY <1>3, <1>5 DEF OnePlace, OnceInLine
<1> QED  BY <1>4, <1>7, <1>8 DEF Moves

LEMMA WorkMoves ==
    ASSUME Inv, OnePlace, NEW s \in Servers, NEW g \in Attempts, NEW i \in Slots,
           NEW w, w = <<g, i>>, UNCHANGED strategyVars
    PROVE  /\ Receive(s, g, i) =>
                Moves(Head(gReq[s]), <<"gReq", s, 0>>, <<"holds", s, w>>) /\ OnceInLine'
           /\ Respond(s, g, i) =>
                /\ \E r \in Requests : Moves(r, <<"holds", s, w>>, <<"gRsp", s, 0>>)
                /\ OnceInLine'
           /\ ProtocolError(s, g, i) =>
                /\ \E r \in Requests :
                    /\ Moves(r, <<"holds", s, w>>, <<"lost", s, 0>>)
                    /\ lost' = [lost EXCEPT ![s] = @ \cup {r}]
                /\ OnceInLine'
<1> w \in Workers
  BY DEF Workers
<1> DEFINE in == <<"gReq", s, 0>>
           has == <<"holds", s, w>>
           out == <<"gRsp", s, 0>>
           gone == <<"lost", s, 0>>
<1> in \in Places /\ has \in Places /\ out \in Places /\ gone \in Places
  BY DEF Places
<1> HIDE DEF Where
<1> ChansOK /\ WorkersOK
  BY Parts DEF Inv, ServerInv
<1>h. ASSUME worker[s][w] \in {"fetch", "respond"}
      PROVE  /\ \E r \in Requests : holds[s][w] = {r}
             /\ \A r \in holds[s][w] : r \in Requests /\ r \in Where[has] /\ r \notin Elements(gRsp[s])
  <2>1. \E r \in Requests : holds[s][w] = {r}
    BY <1>h DEF OnePlace, OneAtATime, Holding
  <2>2. Where[has] = holds[s][w] /\ Where[out] = Elements(gRsp[s])
    BY SplitBoth DEF Split
  <2>3. Where[has] \cap Where[out] = {}
    BY DEF OnePlace, Apart
  <2> QED  BY <2>1, <2>2, <2>3
<1>1. ASSUME Receive(s, g, i)
      PROVE  Moves(Head(gReq[s]), in, has) /\ OnceInLine'
  <2> DEFINE r == Head(gReq[s])
  <2>1. /\ r \in Elements(gReq[s]) /\ Elements(gReq[s]) \subseteq Requests
        /\ Elements(Tail(gReq[s])) = Elements(gReq[s]) \ {r} /\ NoRepeats(Tail(gReq[s]))
    BY <1>1, ElementsTail DEF Receive, ChansOK, OnePlace, OnceInLine
  <2> HIDE DEF r
  <2>2. /\ gReq' = [gReq EXCEPT ![s] = Tail(@)] /\ holds' = [holds EXCEPT ![s][w] = {r}]
        /\ holds[s][w] = {} /\ UNCHANGED <<gRsp, lost>>
    BY <1>1 DEF Receive, OnePlace, OneAtATime, Holding, r
  <2>3. \A u \in Servers :
          /\ Elements(gReq'[u]) = IF u = s THEN Elements(gReq[u]) \ {r} ELSE Elements(gReq[u])
          /\ NoRepeats(gReq'[u])
    BY <2>1, <2>2 DEF ChansOK, OnePlace, OnceInLine
  <2>4. \A u \in Servers, v \in Workers :
          holds'[u][v] = IF u = s /\ v = w THEN holds[u][v] \cup {r} ELSE holds[u][v]
    BY <2>2 DEF WorkersOK
  <2>5. UNCHANGED <<carries, grabRsp, answered, sending>>
    BY DEF strategyVars, aggVars
  <2>6. Moved(Where, Where', r, in, has)
    <3>1. \A u \in Servers, v \in Workers :
            holds'[u][v] = After(holds[u][v], <<"holds", u, v>>, r, in, has)
      BY <2>4 DEF After
    <3>2. \A u \in Servers :
            /\ Elements(gReq'[u]) = After(Elements(gReq[u]), <<"gReq", u, 0>>, r, in, has)
            /\ Elements(gRsp'[u]) = After(Elements(gRsp[u]), <<"gRsp", u, 0>>, r, in, has)
            /\ lost'[u] = After(lost[u], <<"lost", u, 0>>, r, in, has)
      BY <2>2, <2>3 DEF After
    <3>3. \A u \in Servers :
            /\ carries'[u] = After(carries[u], <<"carries", u, 0>>, r, in, has)
            /\ Named(grabRsp', u) = After(Named(grabRsp, u), <<"grabRsp", u, 0>>, r, in, has)
            /\ answered'[u] = After(answered[u], <<"answered", u, 0>>, r, in, has)
            /\ {e \in Requests : <<u, e>> \in sending'}
                 = After({e \in Requests : <<u, e>> \in sending}, <<"sending", u, 0>>, r, in, has)
      BY <2>5 DEF After
    <3> HIDE DEF in, has, out, gone
    <3> QED  BY <3>1, <3>2, <3>3, MovedByParts
  <2>7. r \in Where[in]
    BY <2>1, SplitBoth DEF Split
  <2>8. OnceInLine'
    BY <2>2, <2>3, <2>5 DEF OnePlace, OnceInLine
  <2> QED  BY <2>1, <2>6, <2>7, <2>8 DEF Moves, r
<1>2. ASSUME Respond(s, g, i)
      PROVE  (\E r \in Requests : Moves(r, has, out)) /\ OnceInLine'
  <2>1. PICK r \in Requests : holds[s][w] = {r}
    BY <1>2, <1>h DEF Respond
  <2>2. /\ gRsp' = [gRsp EXCEPT ![s] = Append(@, r)] /\ holds' = [holds EXCEPT ![s][w] = {}]
        /\ UNCHANGED <<gReq, lost>> /\ r \in Where[has] /\ r \notin Elements(gRsp[s])
    BY <1>2, <1>h, <2>1 DEF Respond
  <2>3. \A u \in Servers :
          /\ Elements(gRsp'[u]) = IF u = s THEN Elements(gRsp[u]) \cup {r} ELSE Elements(gRsp[u])
          /\ NoRepeats(gRsp'[u])
    <3>1. /\ Elements(Append(gRsp[s], r)) = Elements(gRsp[s]) \cup {r}
          /\ NoRepeats(Append(gRsp[s], r))
      BY <2>2, ElementsAppend DEF ChansOK, OnePlace, OnceInLine
    <3> QED  BY <2>2, <3>1 DEF ChansOK, OnePlace, OnceInLine
  <2>4. \A u \in Servers, v \in Workers :
          holds'[u][v] = IF u = s /\ v = w THEN holds[u][v] \ {r} ELSE holds[u][v]
    BY <2>1, <2>2 DEF WorkersOK
  <2>5. UNCHANGED <<carries, grabRsp, answered, sending>>
    BY DEF strategyVars, aggVars
  <2>6. Moved(Where, Where', r, has, out)
    <3>1. \A u \in Servers, v \in Workers :
            holds'[u][v] = After(holds[u][v], <<"holds", u, v>>, r, has, out)
      BY <2>4 DEF After
    <3>2. \A u \in Servers :
            /\ Elements(gReq'[u]) = After(Elements(gReq[u]), <<"gReq", u, 0>>, r, has, out)
            /\ Elements(gRsp'[u]) = After(Elements(gRsp[u]), <<"gRsp", u, 0>>, r, has, out)
            /\ lost'[u] = After(lost[u], <<"lost", u, 0>>, r, has, out)
      BY <2>2, <2>3 DEF After
    <3>3. \A u \in Servers :
            /\ carries'[u] = After(carries[u], <<"carries", u, 0>>, r, has, out)
            /\ Named(grabRsp', u) = After(Named(grabRsp, u), <<"grabRsp", u, 0>>, r, has, out)
            /\ answered'[u] = After(answered[u], <<"answered", u, 0>>, r, has, out)
            /\ {e \in Requests : <<u, e>> \in sending'}
                 = After({e \in Requests : <<u, e>> \in sending}, <<"sending", u, 0>>, r, has, out)
      BY <2>5 DEF After
    <3> HIDE DEF in, has, out, gone
    <3> QED  BY <3>1, <3>2, <3>3, MovedByParts
  <2>7. OnceInLine'
    BY <2>2, <2>3, <2>5 DEF OnePlace, OnceInLine
  <2> QED  BY <2>2, <2>6, <2>7 DEF Moves
<1>3. ASSUME ProtocolError(s, g, i)
      PROVE  /\ \E r \in Requests : Moves(r, has, gone) /\ lost' = [lost EXCEPT ![s] = @ \cup {r}]
             /\ OnceInLine'
  <2>1. PICK r \in Requests : holds[s][w] = {r}
    BY <1>3, <1>h DEF ProtocolError
  <2>2. /\ lost' = [lost EXCEPT ![s] = @ \cup {r}] /\ holds' = [holds EXCEPT ![s][w] = {}]
        /\ UNCHANGED <<gReq, gRsp>> /\ r \in Where[has]
    BY <1>3, <1>h, <2>1 DEF ProtocolError, chanVars
  <2>3. \A u \in Servers : lost'[u] = IF u = s THEN lost[u] \cup {r} ELSE lost[u]
    BY <2>2 DEF WorkersOK
  <2>4. \A u \in Servers, v \in Workers :
          holds'[u][v] = IF u = s /\ v = w THEN holds[u][v] \ {r} ELSE holds[u][v]
    BY <2>1, <2>2 DEF WorkersOK
  <2>5. UNCHANGED <<carries, grabRsp, answered, sending>>
    BY DEF strategyVars, aggVars
  <2>6. Moved(Where, Where', r, has, gone)
    <3>1. \A u \in Servers, v \in Workers :
            holds'[u][v] = After(holds[u][v], <<"holds", u, v>>, r, has, gone)
      BY <2>4 DEF After
    <3>2. \A u \in Servers :
            /\ Elements(gReq'[u]) = After(Elements(gReq[u]), <<"gReq", u, 0>>, r, has, gone)
            /\ Elements(gRsp'[u]) = After(Elements(gRsp[u]), <<"gRsp", u, 0>>, r, has, gone)
            /\ lost'[u] = After(lost[u], <<"lost", u, 0>>, r, has, gone)
      BY <2>2, <2>3 DEF After
    <3>3. \A u \in Servers :
            /\ carries'[u] = After(carries[u], <<"carries", u, 0>>, r, has, gone)
            /\ Named(grabRsp', u) = After(Named(grabRsp, u), <<"grabRsp", u, 0>>, r, has, gone)
            /\ answered'[u] = After(answered[u], <<"answered", u, 0>>, r, has, gone)
            /\ {e \in Requests : <<u, e>> \in sending'}
                 = After({e \in Requests : <<u, e>> \in sending}, <<"sending", u, 0>>, r, has, gone)
      BY <2>5 DEF After
    <3> HIDE DEF in, has, out, gone
    <3> QED  BY <3>1, <3>2, <3>3, MovedByParts
  <2>7. OnceInLine'
    BY <2>2, <2>5 DEF OnePlace, OnceInLine
  <2> QED  BY <2>2, <2>6, <2>7 DEF Moves
<1> QED  BY <1>1, <1>2, <1>3

LEMMA NamedAppend ==
    ASSUME NEW q \in Seq([server : Servers, req : Requests]),
           NEW s \in Servers, NEW r \in Requests, NoRepeats(q), r \notin Named(q, s)
    PROVE  /\ \A u \in Servers : Named(Append(q, [server |-> s, req |-> r]), u)
                = IF u = s THEN Named(q, u) \cup {r} ELSE Named(q, u)
           /\ NoRepeats(Append(q, [server |-> s, req |-> r]))
<1> DEFINE x == [server |-> s, req |-> r]
           Responses == [server : Servers, req : Requests]
<1>1. x \in Responses /\ x.server = s /\ x.req = r
  OBVIOUS
<1>2. x \notin Elements(q) /\ q \in Seq(Responses)
  BY <1>1 DEF Named
<1> HIDE DEF x, Responses
<1>3. Elements(Append(q, x)) = Elements(q) \cup {x} /\ NoRepeats(Append(q, x))
  BY <1>1, <1>2, ElementsAppend
<1>4. \A u \in Servers : Named(Append(q, x), u) = IF u = s THEN Named(q, u) \cup {r} ELSE Named(q, u)
  BY <1>1, <1>3 DEF Named
<1> QED  BY <1>3, <1>4 DEF x

LEMMA NamedTail ==
    ASSUME NEW q \in Seq([server : Servers, req : Requests]), q # <<>>, NoRepeats(q)
    PROVE  /\ Head(q).server \in Servers /\ Head(q).req \in Requests
           /\ Head(q).req \in Named(q, Head(q).server)
           /\ \A u \in Servers : Named(Tail(q), u) =
                IF u = Head(q).server THEN Named(q, u) \ {Head(q).req} ELSE Named(q, u)
           /\ NoRepeats(Tail(q))
<1> DEFINE Responses == [server : Servers, req : Requests]
<1>1. /\ Head(q) \in Elements(q) /\ Elements(q) \subseteq Responses
      /\ Elements(Tail(q)) = Elements(q) \ {Head(q)} /\ NoRepeats(Tail(q))
  BY ElementsTail
<1>2. \A x, y \in Responses : x.server = y.server /\ x.req = y.req => x = y
  OBVIOUS
<1>3. Head(q).server \in Servers /\ Head(q).req \in Requests
  BY <1>1
<1> HIDE DEF Responses
<1>4. ASSUME NEW u \in Servers
      PROVE  Named(Tail(q), u) =
                IF u = Head(q).server THEN Named(q, u) \ {Head(q).req} ELSE Named(q, u)
  BY <1>1, <1>2 DEF Named
<1> QED  BY <1>1, <1>3, <1>4 DEF Named

LEMMA AggregateMoves ==
    ASSUME Inv, OnePlace, NEW s \in Servers
    PROVE  /\ Collect(s) =>
                Moves(Head(gRsp[s]), <<"gRsp", s, 0>>, <<"carries", s, 0>>) /\ OnceInLine'
           /\ PassOn(s) =>
                /\ \E r \in Requests : Moves(r, <<"carries", s, 0>>, <<"grabRsp", s, 0>>)
                /\ OnceInLine'
<1> DEFINE out == <<"gRsp", s, 0>>
           carry == <<"carries", s, 0>>
           line == <<"grabRsp", s, 0>>
           done == <<"answered", s, 0>>
<1> out \in Places /\ carry \in Places /\ line \in Places /\ done \in Places
  BY DEF Places
<1> HIDE DEF Where
<1> ChansOK
  BY Parts DEF Inv, ServerInv
<1> /\ carries \in [Servers -> SUBSET Requests]
    /\ grabRsp \in Seq([server : Servers, req : Requests])
  BY DEF Inv, StrategyTypeOK
<1>1. ASSUME Collect(s)
      PROVE  Moves(Head(gRsp[s]), out, carry) /\ OnceInLine'
  <2> DEFINE r == Head(gRsp[s])
  <2>1. /\ r \in Elements(gRsp[s]) /\ Elements(gRsp[s]) \subseteq Requests
        /\ Elements(Tail(gRsp[s])) = Elements(gRsp[s]) \ {r} /\ NoRepeats(Tail(gRsp[s]))
    BY <1>1, ElementsTail DEF Collect, Grabbed, ChansOK, OnePlace, OnceInLine
  <2> HIDE DEF r
  <2>2. /\ gRsp' = [gRsp EXCEPT ![s] = Tail(@)] /\ carries' = [carries EXCEPT ![s] = {r}]
        /\ carries[s] = {}
    BY <1>1 DEF Collect, Grabbed, OnePlace, OneAtATime, Carrying, r
  <2>3. \A u \in Servers :
          /\ Elements(gRsp'[u]) = IF u = s THEN Elements(gRsp[u]) \ {r} ELSE Elements(gRsp[u])
          /\ NoRepeats(gRsp'[u])
    BY <2>1, <2>2 DEF ChansOK, OnePlace, OnceInLine
  <2>4. \A u \in Servers : carries'[u] = IF u = s THEN carries[u] \cup {r} ELSE carries[u]
    BY <2>2
  <2>5. UNCHANGED <<gReq, holds, lost, grabRsp, answered, sending>>
    BY <1>1 DEF Collect, Grabbed, workerVars
  <2>6. Moved(Where, Where', r, out, carry)
    <3>1. \A u \in Servers :
            /\ Elements(gRsp'[u]) = After(Elements(gRsp[u]), <<"gRsp", u, 0>>, r, out, carry)
            /\ carries'[u] = After(carries[u], <<"carries", u, 0>>, r, out, carry)
      BY <2>3, <2>4 DEF After
    <3>2. \A u \in Servers :
            /\ Elements(gReq'[u]) = After(Elements(gReq[u]), <<"gReq", u, 0>>, r, out, carry)
            /\ Named(grabRsp', u) = After(Named(grabRsp, u), <<"grabRsp", u, 0>>, r, out, carry)
            /\ answered'[u] = After(answered[u], <<"answered", u, 0>>, r, out, carry)
            /\ lost'[u] = After(lost[u], <<"lost", u, 0>>, r, out, carry)
            /\ {e \in Requests : <<u, e>> \in sending'}
                 = After({e \in Requests : <<u, e>> \in sending}, <<"sending", u, 0>>, r, out, carry)
            /\ \A v \in Workers :
                holds'[u][v] = After(holds[u][v], <<"holds", u, v>>, r, out, carry)
      BY <2>5 DEF After
    <3> HIDE DEF out, carry, line, done
    <3> QED  BY <3>1, <3>2, MovedByParts
  <2>7. r \in Where[out]
    BY <2>1, SplitBoth DEF Split
  <2>8. OnceInLine'
    BY <2>3, <2>5 DEF OnePlace, OnceInLine
  <2> QED  BY <2>1, <2>6, <2>7, <2>8 DEF Moves, r
<1>2. ASSUME PassOn(s)
      PROVE  (\E r \in Requests : Moves(r, carry, line)) /\ OnceInLine'
  <2>1. PICK r \in Requests : carries[s] = {r}
    BY <1>2 DEF PassOn, OnePlace, OneAtATime, Carrying
  <2>2. /\ grabRsp' = Append(grabRsp, [server |-> s, req |-> r])
        /\ carries' = [carries EXCEPT ![s] = {}]
    BY <1>2, <2>1 DEF PassOn
  <2>5. UNCHANGED <<gReq, gRsp, holds, lost, answered, sending>>
    BY <1>2 DEF PassOn, serverVars, chanVars, workerVars
  <2>7. r \in Where[carry] /\ r \notin Named(grabRsp, s)
    <3>1. Where[carry] = carries[s] /\ Where[line] = Named(grabRsp, s)
      BY SplitBoth DEF Split, Named
    <3>2. Where[carry] \cap Where[line] = {}
      BY DEF OnePlace, Apart
    <3> QED  BY <2>1, <3>1, <3>2
  <2>3. /\ \A u \in Servers : Named(grabRsp', u)
             = IF u = s THEN Named(grabRsp, u) \cup {r} ELSE Named(grabRsp, u)
        /\ NoRepeats(grabRsp')
    <3>1. NoRepeats(grabRsp)
      BY DEF OnePlace, OnceInLine
    <3>2. grabRsp \in Seq([server : Servers, req : Requests])
      OBVIOUS
    <3>3. /\ \A u \in Servers : Named(Append(grabRsp, [server |-> s, req |-> r]), u)
               = IF u = s THEN Named(grabRsp, u) \cup {r} ELSE Named(grabRsp, u)
          /\ NoRepeats(Append(grabRsp, [server |-> s, req |-> r]))
      BY <2>7, <3>1, <3>2, NamedAppend
    <3> QED  BY <2>2, <3>3
  <2>4. \A u \in Servers : carries'[u] = IF u = s THEN carries[u] \ {r} ELSE carries[u]
    BY <2>1, <2>2
  <2>6. Moved(Where, Where', r, carry, line)
    <3>1. \A u \in Servers :
            /\ Named(grabRsp', u) = After(Named(grabRsp, u), <<"grabRsp", u, 0>>, r, carry, line)
            /\ carries'[u] = After(carries[u], <<"carries", u, 0>>, r, carry, line)
      BY <2>3, <2>4 DEF After
    <3>2. \A u \in Servers :
            /\ Elements(gReq'[u]) = After(Elements(gReq[u]), <<"gReq", u, 0>>, r, carry, line)
            /\ Elements(gRsp'[u]) = After(Elements(gRsp[u]), <<"gRsp", u, 0>>, r, carry, line)
            /\ answered'[u] = After(answered[u], <<"answered", u, 0>>, r, carry, line)
            /\ lost'[u] = After(lost[u], <<"lost", u, 0>>, r, carry, line)
            /\ {e \in Requests : <<u, e>> \in sending'}
                 = After({e \in Requests : <<u, e>> \in sending}, <<"sending", u, 0>>, r, carry, line)
            /\ \A v \in Workers :
                holds'[u][v] = After(holds[u][v], <<"holds", u, v>>, r, carry, line)
      BY <2>5 DEF After
    <3> HIDE DEF out, carry, line, done
    <3> QED  BY <3>1, <3>2, MovedByParts
  <2>8. OnceInLine'
    BY <2>3, <2>5 DEF OnePlace, OnceInLine
  <2> QED  BY <2>6, <2>7, <2>8 DEF Moves
<1> QED  BY <1>1, <1>2

LEMMA DeliverMoves ==
    ASSUME Inv, OnePlace, Deliver
    PROVE  /\ \E s \in Servers, r \in Requests :
                /\ Moves(r, <<"grabRsp", s, 0>>, <<"answered", s, 0>>)
                /\ answered' = [answered EXCEPT ![s] = @ \cup {r}] /\ UNCHANGED lost
           /\ OnceInLine'
<1> HIDE DEF Where
<1> /\ answered \in [Servers -> SUBSET Requests]
    /\ grabRsp \in Seq([server : Servers, req : Requests]) /\ grabRsp # <<>>
  BY DEF Inv, StrategyTypeOK, Deliver
<1> DEFINE s == Head(grabRsp).server
           r == Head(grabRsp).req
           line == <<"grabRsp", s, 0>>
           done == <<"answered", s, 0>>
           out == <<"gRsp", s, 0>>
           carry == <<"carries", s, 0>>
<1>1. /\ s \in Servers /\ r \in Requests /\ r \in Named(grabRsp, s)
      /\ \A u \in Servers : Named(Tail(grabRsp), u) =
            IF u = s THEN Named(grabRsp, u) \ {r} ELSE Named(grabRsp, u)
      /\ NoRepeats(Tail(grabRsp))
  BY NamedTail DEF OnePlace, OnceInLine
<1>2. /\ grabRsp' = Tail(grabRsp)
      /\ answered' = [answered EXCEPT ![s] = @ \cup {r}]
      /\ UNCHANGED <<gReq, gRsp, holds, lost, carries, sending>>
  BY DEF Deliver, serverVars, chanVars, workerVars
<1> HIDE DEF s, r
<1> line \in Places /\ done \in Places /\ line # done
  BY <1>1 DEF Places
<1>3. r \in Where[line]
  BY <1>1, SplitBoth DEF Split, Named
<1>4. Moved(Where, Where', r, line, done)
  <2>3. \A u \in Servers : Named(grabRsp', u)
            = IF u = s THEN Named(grabRsp, u) \ {r} ELSE Named(grabRsp, u)
    BY <1>1, <1>2
  <2>4. \A u \in Servers : answered'[u] = IF u = s THEN answered[u] \cup {r} ELSE answered[u]
    BY <1>1, <1>2
  <2>5. UNCHANGED <<gReq, gRsp, holds, lost, carries, sending>>
    BY <1>2
  <2>6. Moved(Where, Where', r, line, done)
    <3>1. \A u \in Servers :
            /\ Named(grabRsp', u) = After(Named(grabRsp, u), <<"grabRsp", u, 0>>, r, line, done)
            /\ answered'[u] = After(answered[u], <<"answered", u, 0>>, r, line, done)
      BY <2>3, <2>4 DEF After
    <3>2. \A u \in Servers :
            /\ Elements(gReq'[u]) = After(Elements(gReq[u]), <<"gReq", u, 0>>, r, line, done)
            /\ Elements(gRsp'[u]) = After(Elements(gRsp[u]), <<"gRsp", u, 0>>, r, line, done)
            /\ carries'[u] = After(carries[u], <<"carries", u, 0>>, r, line, done)
            /\ lost'[u] = After(lost[u], <<"lost", u, 0>>, r, line, done)
            /\ {e \in Requests : <<u, e>> \in sending'}
                 = After({e \in Requests : <<u, e>> \in sending}, <<"sending", u, 0>>, r, line, done)
            /\ \A v \in Workers :
                holds'[u][v] = After(holds[u][v], <<"holds", u, v>>, r, line, done)
      BY <2>5 DEF After
    <3> HIDE DEF out, carry, line, done
    <3> QED  BY <3>1, <3>2, MovedByParts
  <2> QED  BY <2>6
<1>5. OnceInLine'
  BY <1>1, <1>2 DEF OnePlace, OnceInLine
<1>6. Moves(r, line, done)
  BY <1>1, <1>3, <1>4 DEF Moves
<1> QED  BY <1>1, <1>2, <1>5, <1>6

-----------------------------------------------------------------------------
\* What a goroutine has, step by step.

LEMMA HoldingStep ==
    ASSUME Inv, OneAtATime, ServerStep
    PROVE  \A s \in Servers : Holding(s)' /\ NotStarted(s)'
<1> USE DEF OneAtATime
<1> /\ ServerInv /\ ChansOK /\ TombsOK /\ WorkersOK /\ ConnectsOK
    /\ \A s \in Servers : GenOK(s)
  BY Parts DEF Inv, ServerInv
<1>0. \A g \in Attempts, i \in Slots : <<g, i>> \in Workers
  BY DEF Workers
<1>1. ASSUME NEW u \in Servers,
             worker'[u] = worker[u], holds'[u] = holds[u],
             hg'[u] = "go" => hg[u] = "go" /\ t'[u] = t[u] /\ hgSlot'[u] = hgSlot[u]
      PROVE  Holding(u)' /\ NotStarted(u)'
  BY <1>1 DEF Holding, NotStarted
<1>2. ASSUME UNCHANGED <<worker, holds, hg, t, hgSlot>>
      PROVE  \A u \in Servers : Holding(u)' /\ NotStarted(u)'
  BY <1>1, <1>2
<1>3. CASE UNCHANGED serverVars \/ \E s \in Servers :
                Shutdown(s) \/ Grabbed(s) \/ \E r \in Requests : Grab(s, r)
  BY <1>2, <1>3 DEF serverVars, workerVars, connectVars, Shutdown, ShutdownKill, ShutdownWait,
     ShutdownWaited, Quit, Grabbed, Grab
<1>4. ASSUME NEW s \in Servers, HandleGrabs(s) \/ NewSession(s) \/ NewSessionFails(s)
      PROVE  \A u \in Servers : Holding(u)' /\ NotStarted(u)'
  <2>1. UNCHANGED <<worker, holds, t>>
    BY <1>4 DEF HandleGrabs, NewSession, NewSessionFails, workerVars
  <2>2. \A u \in Servers : hg'[u] = "go" => hg[u] = "go" /\ hgSlot'[u] = hgSlot[u]
    BY <1>4 DEF HandleGrabs, NewSession, NewSessionFails, ConnectsOK
  <2> QED  BY <1>1, <2>1, <2>2
<1>5. ASSUME NEW s \in Servers, NewTomb(s)
      PROVE  \A u \in Servers : Holding(u)' /\ NotStarted(u)'
  <2>1. /\ UNCHANGED <<worker, holds, hgSlot>>
        /\ t' = [t EXCEPT ![s] = attempt[s]] /\ hg' = [hg EXCEPT ![s] = "go"]
        /\ hg[s] = "tomb"
    BY <1>5 DEF NewTomb, workerVars
  <2>2. t'[s] > t[s] /\ t'[s] \in Attempts
    BY <2>1 DEF GenOK, TombsOK, ConnectsOK, Attempts
  <2>3. \A i \in Slots : worker[s][<<t'[s], i>>] = "none"
    BY <2>2 DEF GenOK
  <2>4. Holding(s)' /\ NotStarted(s)'
    BY <2>1, <2>3 DEF Holding, NotStarted
  <2>5. \A u \in Servers \ {s} : Holding(u)' /\ NotStarted(u)'
    BY <1>1, <2>1 DEF TombsOK, ConnectsOK
  <2> QED  BY <2>4, <2>5
<1>6. ASSUME NEW s \in Servers, Go(s)
      PROVE  \A u \in Servers : Holding(u)' /\ NotStarted(u)'
  <2>1. CASE tomb[s][t[s]] = "dead"
    BY <1>2, <1>6, <2>1 DEF Go
  <2>2. CASE tomb[s][t[s]] # "dead"
    <3>1. /\ hg[s] = "go" /\ UNCHANGED <<holds, t>>
          /\ worker' = [worker EXCEPT ![s][<<t[s], hgSlot[s]>>] = "top"]
      BY <1>6, <2>2 DEF Go
    <3>2. t[s] \in Attempts /\ hgSlot[s] \in Slots /\ Slots \subseteq Nat
      BY <3>1 DEF GenOK, TombsOK, ConnectsOK, Attempts, Slots
    <3>3. \A v \in Workers : worker'[s][v]
            = IF v = <<t[s], hgSlot[s]>> THEN "top" ELSE worker[s][v]
      BY <1>0, <3>1, <3>2 DEF WorkersOK
    <3>4. worker[s][<<t[s], hgSlot[s]>>] = "none"
      BY <3>1, <3>2 DEF NotStarted
    <3>5. Holding(s)'
      BY <1>0, <3>1, <3>2, <3>3, <3>4 DEF Holding
    <3>6. hg'[s] = "go" => hgSlot'[s] = hgSlot[s] + 1
      BY <1>6, <2>2, <3>2 DEF Go, ConnectsOK
    <3>7. NotStarted(s)'
      <4> SUFFICES ASSUME hg'[s] = "go", NEW i \in Slots, hgSlot'[s] <= i
                   PROVE  worker'[s][<<t[s], i>>] = "none"
        BY <3>1 DEF NotStarted
      <4>1. hgSlot[s] \in Nat /\ i \in Nat /\ hgSlot[s] + 1 <= i
        BY <3>2, <3>6
      <4>2. hgSlot[s] <= i /\ i # hgSlot[s]
        BY <4>1
      <4> QED  BY <1>0, <3>1, <3>2, <3>3, <4>2 DEF NotStarted
    <3>8. \A u \in Servers \ {s} : Holding(u)' /\ NotStarted(u)'
      <4>1. \A u \in Servers \ {s} : worker'[u] = worker[u] /\ hg'[u] = hg[u] /\ hgSlot'[u] = hgSlot[u]
        BY <1>6, <2>2 DEF Go, WorkersOK, ConnectsOK
      <4> QED  BY <1>1, <3>1, <4>1
    <3> QED  BY <3>5, <3>7, <3>8
  <2> QED  BY <2>1, <2>2
<1>7. ASSUME NEW s \in Servers, NEW g \in Attempts, NEW i \in Slots, Work(s, g, i)
      PROVE  \A u \in Servers : Holding(u)' /\ NotStarted(u)'
  <2> DEFINE w == <<g, i>>
  <2>1. UNCHANGED <<hg, t, hgSlot>>
    BY <1>7 DEF Work, Enter, Receive, Fetched, Respond, ProtocolError, Exit, connectVars
  <2>2. worker[s][w] \in {"top", "select", "fetch", "respond"}
    BY <1>7 DEF Work, Enter, Receive, Fetched, Respond, ProtocolError, Exit
  <2>3. \E l \in {"top", "select", "fetch", "respond", "gone"}, h \in SUBSET Requests :
            /\ worker' = [worker EXCEPT ![s][w] = l]
            /\ holds' = [holds EXCEPT ![s][w] = h]
            /\ IF l \in {"fetch", "respond"} THEN \E r \in Requests : h = {r} ELSE h = {}
    <3>1. CASE Enter(s, g, i) \/ Exit(s, g, i)
      <4>1. holds[s][w] = {} /\ holds' = [holds EXCEPT ![s][w] = {}]
        BY <1>0, <3>1 DEF Enter, Exit, Holding, WorkersOK
      <4> QED  BY <3>1, <4>1 DEF Enter, Exit, Return
    <3>2. CASE Receive(s, g, i)
      <4>1. Head(gReq[s]) \in Requests
        BY <3>2, TakeOne DEF Receive, ChansOK
      <4> QED  BY <3>2, <4>1 DEF Receive
    <3>3. CASE Fetched(s, g, i)
      <4>1. \E r \in Requests : holds[s][w] = {r}
        BY <1>0, <3>3 DEF Fetched, Holding
      <4>2. holds' = [holds EXCEPT ![s][w] = holds[s][w]]
        BY <1>0, <3>3 DEF Fetched, WorkersOK
      <4> QED  BY <3>3, <4>1, <4>2 DEF Fetched
    <3>4. CASE Respond(s, g, i)
      <4>1. /\ worker' = [worker EXCEPT ![s][w] = "top"]
            /\ holds' = [holds EXCEPT ![s][w] = {}]
        BY <3>4 DEF Respond
      <4>2. IF "top" \in {"fetch", "respond"} THEN \E r \in Requests : {} = {r} ELSE {} = {}
        OBVIOUS
      <4> WITNESS "top" \in {"top", "select", "fetch", "respond", "gone"}, {} \in SUBSET Requests
      <4> QED  BY <4>1, <4>2
    <3>5. CASE ProtocolError(s, g, i)
      <4>1. /\ worker' = [worker EXCEPT ![s][w] = "gone"]
            /\ holds' = [holds EXCEPT ![s][w] = {}]
        BY <3>5 DEF ProtocolError, Return
      <4>2. IF "gone" \in {"fetch", "respond"} THEN \E r \in Requests : {} = {r} ELSE {} = {}
        OBVIOUS
      <4> WITNESS "gone" \in {"top", "select", "fetch", "respond", "gone"}, {} \in SUBSET Requests
      <4> QED  BY <4>1, <4>2
    <3> QED  BY <1>7, <3>1, <3>2, <3>3, <3>4, <3>5 DEF Work
  <2>4. PICK l \in {"top", "select", "fetch", "respond", "gone"}, h \in SUBSET Requests :
            /\ worker' = [worker EXCEPT ![s][w] = l]
            /\ holds' = [holds EXCEPT ![s][w] = h]
            /\ IF l \in {"fetch", "respond"} THEN \E r \in Requests : h = {r} ELSE h = {}
    BY <2>3
  <2>5. w \in Workers
    BY <1>0
  <2> HIDE DEF w
  <2>6. \A v \in Workers :
            /\ worker'[s][v] = IF v = w THEN l ELSE worker[s][v]
            /\ holds'[s][v] = IF v = w THEN h ELSE holds[s][v]
    BY <2>4 DEF WorkersOK
  <2>7. Holding(s)'
    BY <2>4, <2>6 DEF Holding
  <2>8. NotStarted(s)'
    <3>1. hg[s] = "go" => t[s] \in Attempts
      BY DEF GenOK, TombsOK, Attempts
    <3> QED  BY <1>0, <2>1, <2>2, <2>6, <3>1 DEF NotStarted
  <2>9. \A u \in Servers \ {s} : Holding(u)' /\ NotStarted(u)'
    <3>1. \A u \in Servers \ {s} : worker'[u] = worker[u] /\ holds'[u] = holds[u]
      BY <2>4 DEF WorkersOK
    <3> QED  BY <1>1, <2>1, <3>1
  <2> QED  BY <2>7, <2>8, <2>9
<1> QED  BY <1>3, <1>4, <1>5, <1>6, <1>7 DEF ServerStep, Connecting

LEMMA OneAtATimeStep ==
    ASSUME Inv, OneAtATime, [Next]_vars
    PROVE  OneAtATime'
<1> USE DEF OneAtATime
<1> StrategyTypeOK
  BY DEF Inv
<1>1. \A s \in Servers : Holding(s)' /\ NotStarted(s)'
  BY HoldingStep, NextServerStep
<1>2. ASSUME UNCHANGED <<aggregator, carries>>, UNCHANGED sending,
             main' \in {"connect", "connecting"} =>
                main \in {"connect", "connecting"} /\ at' = at
      PROVE  (\A s \in Servers : Carrying(s)') /\ SendsOne' /\ NotConnected'
  BY <1>2 DEF Carrying, SendsOne, NotConnected
<1>3. CASE Caller
  <2>1. CASE ServerConnected
    <3>1. Order[at] \in Servers /\ at \in DOMAIN Order
      BY OrderFacts DEF StrategyTypeOK
    <3>2. /\ main = "connecting" /\ UNCHANGED <<carries, sending>>
          /\ aggregator' = [aggregator EXCEPT ![Order[at]] = "select"]
          /\ main' \in {"connect", "connecting"} => at' = at + 1
      BY <2>1 DEF ServerConnected
    <3>3. aggregator[Order[at]] = "none"
      BY <3>1, <3>2, OrderFacts DEF NotConnected
    <3>4. \A s \in Servers : Carrying(s)'
      BY <3>1, <3>2, <3>3 DEF Carrying, StrategyTypeOK
    <3>5. NotConnected'
      <4> SUFFICES ASSUME main' \in {"connect", "connecting"}, NEW k \in DOMAIN Order, at' <= k
                   PROVE  aggregator'[Order[k]] = "none"
        BY DEF NotConnected
      <4>1. at \in Nat /\ k \in Nat /\ at + 1 <= k
        BY <3>1, <3>2, OrderFacts
      <4>2. at <= k /\ k # at
        BY <4>1
      <4>3. Order[k] # Order[at] /\ Order[k] \in Servers
        BY <3>1, <4>2, OrderFacts, StrategyAssumption
      <4> QED  BY <3>2, <4>2, <4>3 DEF NotConnected, StrategyTypeOK
    <3> QED  BY <1>1, <3>2, <3>4, <3>5 DEF SendsOne
  <2>2. CASE Caller /\ ~ServerConnected
    <3>1. UNCHANGED <<aggregator, carries>> /\ UNCHANGED sending
      BY <2>2 DEF Caller, ConnectServer, BeginShutdown, ShutdownServer, NextServer,
         ShutdownReturned, aggVars
    <3>2. main' \in {"connect", "connecting"} => main \in {"connect", "connecting"} /\ at' = at
      BY <2>2 DEF Caller, ConnectServer, BeginShutdown, ShutdownServer, NextServer,
         ShutdownReturned, mainVars
    <3> QED  BY <1>1, <1>2, <3>1, <3>2
  <2> QED  BY <1>3, <2>1, <2>2
<1>4. CASE Deliver \/ UNCHANGED vars
  BY <1>1, <1>2, <1>4 DEF Deliver, vars, strategyVars, mainVars, aggVars
<1>5. ASSUME NEW s \in Servers,
             \/ Connected(s)
             \/ \E g \in Attempts, i \in Slots : Worked(s, g, i)
             \/ Reconnect(s)
      PROVE  OneAtATime'
  <2>1. UNCHANGED <<aggregator, carries>> /\ UNCHANGED sending /\ UNCHANGED <<main, at>>
    BY <1>5 DEF Connected, Worked, Reconnect, Tick, Ticked, TickerExits, strategyVars, mainVars,
       aggVars
  <2> QED  BY <1>1, <1>2, <2>1
<1>6. ASSUME NEW s \in Servers, Aggregate(s)
      PROVE  OneAtATime'
  <2>1. \E a \in {"select", "send", "gone"}, c \in SUBSET Requests :
            /\ aggregator' = [aggregator EXCEPT ![s] = a]
            /\ carries' = [carries EXCEPT ![s] = c]
            /\ IF a = "send" THEN \E r \in Requests : c = {r} ELSE c = {}
    <3>1. CASE Collect(s)
      <4>1. Head(gRsp[s]) \in Requests
        BY <3>1, TakeOne, Parts DEF Collect, Grabbed, ChansOK, Inv, ServerInv
      <4>2. /\ aggregator' = [aggregator EXCEPT ![s] = "send"]
            /\ carries' = [carries EXCEPT ![s] = {Head(gRsp[s])}]
        BY <3>1 DEF Collect
      <4> QED  BY <4>1, <4>2
    <3>2. CASE PassOn(s)
      <4>1. /\ aggregator' = [aggregator EXCEPT ![s] = "select"]
            /\ carries' = [carries EXCEPT ![s] = {}]
        BY <3>2 DEF PassOn
      <4> WITNESS "select" \in {"select", "send", "gone"}, {} \in SUBSET Requests
      <4> QED  BY <4>1
    <3>3. CASE AggregatorExits(s)
      <4>1. carries[s] = {}
        BY <3>3 DEF AggregatorExits, Carrying
      <4>2. /\ aggregator' = [aggregator EXCEPT ![s] = "gone"]
            /\ carries' = [carries EXCEPT ![s] = {}]
        BY <3>3, <4>1 DEF AggregatorExits, StrategyTypeOK
      <4> WITNESS "gone" \in {"select", "send", "gone"}, {} \in SUBSET Requests
      <4> QED  BY <4>2
    <3> QED  BY <1>6, <3>1, <3>2, <3>3 DEF Aggregate
  <2>2. UNCHANGED <<main, at>> /\ UNCHANGED sending /\ aggregator[s] # "none"
    BY <1>6 DEF Aggregate, Collect, PassOn, AggregatorExits, mainVars
  <2>3. \A u \in Servers : Carrying(u)'
    BY <2>1 DEF Carrying, StrategyTypeOK
  <2>4. NotConnected'
    BY <2>1, <2>2, OrderFacts DEF NotConnected, StrategyTypeOK
  <2> QED  BY <1>1, <2>2, <2>3, <2>4 DEF SendsOne
<1>7. ASSUME NEW s \in Servers, NEW r \in Requests, Dispatch(s, r) \/ Send(s, r)
      PROVE  OneAtATime'
  <2>1. UNCHANGED <<aggregator, carries, main, at>>
    BY <1>7 DEF Dispatch, Send, mainVars, aggVars
  <2>2. (\A u \in Servers : Carrying(u)') /\ NotConnected'
    BY <2>1 DEF Carrying, NotConnected
  <2>3. SendsOne'
    BY <1>7 DEF Dispatch, Send, SendsOne
  <2> QED  BY <1>1, <2>2, <2>3
<1> QED  BY <1>3, <1>4, <1>5, <1>6, <1>7 DEF Next

-----------------------------------------------------------------------------
\* Each step of the service, from the move of a request that makes it.

askedBy == [s \in Servers |-> Asked(s)]

serviceVars == <<askedBy, answered, lost>>

LEMMA MovesMap ==
    ASSUME OnePlace, NEW s \in Servers, NEW r, NEW p, NEW q, Moves(r, p, q)
    PROVE  /\ p = <<"sending", s, 0>> /\ q \in AskedPlaces(s) /\ UNCHANGED <<answered, lost>>
                => Service!Grab(s, r)
           /\ p \in AskedPlaces(s) /\ q \in AskedPlaces(s) /\ UNCHANGED <<answered, lost>>
                => UNCHANGED serviceVars
           /\ p \in AskedPlaces(s) /\ q = <<"answered", s, 0>> /\ UNCHANGED lost
              /\ answered' = [answered EXCEPT ![s] = @ \cup {r}] => Service!Answer(s, r)
           /\ p \in AskedPlaces(s) /\ q = <<"lost", s, 0>> /\ UNCHANGED answered
              /\ lost' = [lost EXCEPT ![s] = @ \cup {r}] => Service!Lose(s, r)
<1> HIDE DEF Where
<1> /\ p \in Places /\ q \in Places /\ p # q /\ r \in Where[p]
    /\ Apart(Where) /\ Moved(Where, Where', r, p, q)
  BY DEF Moves, OnePlace
<1>1. \A u \in Servers :
        /\ (p \in AskedPlaces(u) <=> q \in AskedPlaces(u)) => Asked(u)' = Asked(u)
        /\ p \notin AskedPlaces(u) /\ q \in AskedPlaces(u) => Asked(u)' = Asked(u) \cup {r}
        /\ p \in AskedPlaces(u) /\ q \notin AskedPlaces(u) => Asked(u)' = Asked(u) \ {r}
        /\ r \in Asked(u) <=> p \in AskedPlaces(u)
  <2> SUFFICES ASSUME NEW u \in Servers
      PROVE /\ (p \in AskedPlaces(u) <=> q \in AskedPlaces(u)) => Asked(u)' = Asked(u)
            /\ p \notin AskedPlaces(u) /\ q \in AskedPlaces(u) => Asked(u)' = Asked(u) \cup {r}
            /\ p \in AskedPlaces(u) /\ q \notin AskedPlaces(u) => Asked(u)' = Asked(u) \ {r}
            /\ r \in Asked(u) <=> p \in AskedPlaces(u)
    OBVIOUS
  <2>1. Asked(u) = Gathered(Where, u) /\ Asked(u)' = Gathered(Where', u)
    BY AskedGathered, AskedGatheredNext
  <2> HIDE DEF Asked
  <2> QED  BY <2>1, MovedGathered
<1>2. \A u \in Servers : \A x \in AskedPlaces(s) :
            /\ x \in AskedPlaces(u) => u = s
            /\ x # <<"answered", u, 0>> /\ x # <<"lost", u, 0>> /\ x # <<"sending", u, 0>>
  BY DEF AskedPlaces
<1>3. \A u \in Servers :
            /\ <<"sending", s, 0>> \notin AskedPlaces(u)
            /\ <<"answered", s, 0>> \notin AskedPlaces(u)
            /\ <<"lost", s, 0>> \notin AskedPlaces(u)
  BY DEF AskedPlaces
<1>4. \A u \in Servers : askedBy[u] = Asked(u) /\ askedBy'[u] = Asked(u)'
  BY DEF askedBy
<1>5. askedBy' = [u \in Servers |-> askedBy'[u]] /\ askedBy = [u \in Servers |-> askedBy[u]]
  BY DEF askedBy
<1>6. CASE p = <<"sending", s, 0>> /\ q \in AskedPlaces(s) /\ UNCHANGED <<answered, lost>>
  <2>1. \A u \in Servers : r \notin askedBy[u] \cup answered[u] \cup lost[u]
    <3>1. ASSUME NEW u \in Servers PROVE r \notin answered[u] \cup lost[u]
      <4>1. <<"answered", u, 0>> \in Places /\ <<"lost", u, 0>> \in Places
        BY DEF Places
      <4>2. /\ Where[<<"answered", u, 0>>] = answered[u] /\ Where[<<"lost", u, 0>>] = lost[u]
        BY SplitBoth DEF Split
      <4> QED  BY <1>6, <4>1, <4>2 DEF Apart
    <3> QED  BY <1>1, <1>3, <1>4, <1>6, <3>1
  <2>2. askedBy' = [askedBy EXCEPT ![s] = @ \cup {r}]
    BY <1>1, <1>2, <1>3, <1>4, <1>5, <1>6
  <2>3. Service!Grab(s, r)
    BY <1>6, <2>1, <2>2 DEF Service!Grab, askedBy
  <2> QED  BY <1>3, <1>6, <2>3
<1>7. CASE p \in AskedPlaces(s) /\ q \in AskedPlaces(s) /\ UNCHANGED <<answered, lost>>
  <2>1. askedBy' = askedBy
    BY <1>1, <1>2, <1>4, <1>5, <1>7
  <2> QED  BY <1>3, <1>7, <2>1, <1>2 DEF serviceVars
<1>8. CASE p \in AskedPlaces(s) /\ q \in {<<"answered", s, 0>>, <<"lost", s, 0>>}
  <2>1. askedBy' = [askedBy EXCEPT ![s] = @ \ {r}] /\ r \in askedBy[s]
    BY <1>1, <1>2, <1>3, <1>4, <1>5, <1>8
  <2> QED  BY <1>2, <1>8, <2>1 DEF Service!Answer, Service!Lose, askedBy
<1> QED  BY <1>2, <1>6, <1>7, <1>8

LEMMA ServiceStep ==
    ASSUME Inv, OnePlace, [Next]_vars
    PROVE  OnePlace' /\ (Service!Next \/ UNCHANGED serviceVars)
<1> HIDE DEF Where
<1>o. OneAtATime'
  BY OneAtATimeStep DEF OnePlace
<1>m. ASSUME NEW r, NEW p, NEW q, Moves(r, p, q), OnceInLine'
      PROVE  OnePlace'
  <2>1. Apart(Where)
    BY DEF OnePlace
  <2>2. Apart(Where')
    BY <1>m, <2>1, MovedApart DEF Moves
  <2>3. Apart(Where)'
    BY <2>2 DEF Apart
  <2> QED  BY <1>m, <1>o, <2>3 DEF OnePlace
<1>u. ASSUME UNCHANGED <<gReq, gRsp, holds>>, UNCHANGED <<carries, grabRsp>>,
             UNCHANGED sending, UNCHANGED <<answered, lost>>
      PROVE  OnePlace' /\ UNCHANGED serviceVars
  <2>1. Where' = Where /\ OnceInLine'
    BY <1>u DEF Where, OnePlace, OnceInLine
  <2>2. Apart(Where)'
    BY <2>1 DEF OnePlace, Apart
  <2>3. askedBy' = askedBy
    BY <1>u DEF askedBy, Asked
  <2> QED  BY <1>o, <1>u, <2>1, <2>2, <2>3 DEF OnePlace, serviceVars
<1>a. ASSUME NEW s \in Servers
      PROVE  /\ <<"gReq", s, 0>> \in AskedPlaces(s) /\ <<"gRsp", s, 0>> \in AskedPlaces(s)
             /\ <<"carries", s, 0>> \in AskedPlaces(s) /\ <<"grabRsp", s, 0>> \in AskedPlaces(s)
             /\ \A w \in Workers : <<"holds", s, w>> \in AskedPlaces(s)
  BY DEF AskedPlaces
<1>1. CASE Caller
  BY <1>1, <1>u DEF Caller, ConnectServer, ServerConnected, BeginShutdown, ShutdownServer,
     NextServer, ShutdownReturned, HandleGrabs, Shutdown, ShutdownKill, ShutdownWait,
     ShutdownWaited, Quit, serverVars, chanVars, workerVars, aggVars
<1>2. CASE Deliver
  <2>1. PICK s \in Servers, r \in Requests :
            /\ Moves(r, <<"grabRsp", s, 0>>, <<"answered", s, 0>>) /\ OnceInLine'
            /\ answered' = [answered EXCEPT ![s] = @ \cup {r}] /\ UNCHANGED lost
    BY <1>2, DeliverMoves
  <2>2. OnePlace'
    BY <1>m, <2>1
  <2>3. Service!Answer(s, r)
    BY <1>a, <2>1, MovesMap
  <2> QED  BY <2>2, <2>3 DEF Service!Next
<1>3. CASE UNCHANGED vars
  BY <1>3, <1>u DEF vars, serverVars, strategyVars, chanVars, workerVars, aggVars
<1>4. ASSUME NEW s \in Servers, Connected(s) \/ Reconnect(s)
      PROVE  OnePlace' /\ UNCHANGED serviceVars
  BY <1>4, <1>u DEF Connected, Connecting, NewSession, NewSessionFails, NewTomb, Go,
     Reconnect, Tick, Ticked, TickerExits, HandleGrabs, serverVars, strategyVars, chanVars,
     workerVars, aggVars
<1>5. ASSUME NEW s \in Servers, NEW g \in Attempts, NEW i \in Slots, Worked(s, g, i)
      PROVE  OnePlace' /\ (Service!Next \/ UNCHANGED serviceVars)
  <2> DEFINE w == <<g, i>>
  <2>0. w \in Workers /\ UNCHANGED strategyVars
    BY <1>5 DEF Workers, Worked
  <2>1. CASE Enter(s, g, i) \/ Fetched(s, g, i) \/ Exit(s, g, i)
    BY <1>u, <2>0, <2>1 DEF Enter, Fetched, Exit, chanVars, strategyVars, aggVars
  <2>2. CASE Receive(s, g, i)
    <3>1. Moves(Head(gReq[s]), <<"gReq", s, 0>>, <<"holds", s, w>>) /\ OnceInLine'
      BY <2>0, <2>2, WorkMoves
    <3>2. UNCHANGED <<answered, lost>>
      BY <2>0, <2>2 DEF Receive, strategyVars
    <3>3. UNCHANGED serviceVars
      BY <1>a, <2>0, <3>1, <3>2, MovesMap
    <3> QED  BY <1>m, <3>1, <3>3
  <2>3. CASE Respond(s, g, i)
    <3>1. PICK r \in Requests :
            Moves(r, <<"holds", s, w>>, <<"gRsp", s, 0>>) /\ OnceInLine'
      BY <2>0, <2>3, WorkMoves
    <3>2. UNCHANGED <<answered, lost>>
      BY <2>0, <2>3 DEF Respond, strategyVars
    <3>3. UNCHANGED serviceVars
      BY <1>a, <2>0, <3>1, <3>2, MovesMap
    <3> QED  BY <1>m, <3>1, <3>3
  <2>4. CASE ProtocolError(s, g, i)
    <3>1. PICK r \in Requests :
            /\ Moves(r, <<"holds", s, w>>, <<"lost", s, 0>>) /\ OnceInLine'
            /\ lost' = [lost EXCEPT ![s] = @ \cup {r}]
      BY <2>0, <2>4, WorkMoves
    <3>2. UNCHANGED answered
      BY <2>0 DEF strategyVars
    <3>3. Service!Lose(s, r)
      BY <1>a, <2>0, <3>1, <3>2, MovesMap
    <3> QED  BY <1>m, <3>1, <3>3 DEF Service!Next
  <2> QED  BY <1>5, <2>1, <2>2, <2>3, <2>4 DEF Worked, Work
<1>6. ASSUME NEW s \in Servers, Aggregate(s)
      PROVE  OnePlace' /\ UNCHANGED serviceVars
  <2>1. UNCHANGED <<answered, lost>>
    BY <1>6 DEF Aggregate, Collect, PassOn, AggregatorExits, Grabbed, serverVars, workerVars
  <2>2. CASE Collect(s)
    <3>1. Moves(Head(gRsp[s]), <<"gRsp", s, 0>>, <<"carries", s, 0>>) /\ OnceInLine'
      BY <2>2, AggregateMoves
    <3>2. UNCHANGED serviceVars
      BY <1>a, <2>1, <3>1, MovesMap
    <3> QED  BY <1>m, <3>1, <3>2
  <2>3. CASE PassOn(s)
    <3>1. PICK r \in Requests :
            Moves(r, <<"carries", s, 0>>, <<"grabRsp", s, 0>>) /\ OnceInLine'
      BY <2>3, AggregateMoves
    <3>2. UNCHANGED serviceVars
      BY <1>a, <2>1, <3>1, MovesMap
    <3> QED  BY <1>m, <3>1, <3>2
  <2>4. CASE AggregatorExits(s)
    BY <1>u, <2>4 DEF AggregatorExits, serverVars, chanVars, workerVars
  <2> QED  BY <1>6, <2>2, <2>3, <2>4 DEF Aggregate
<1>7. ASSUME NEW s \in Servers, NEW r \in Requests, Dispatch(s, r)
      PROVE  OnePlace' /\ UNCHANGED serviceVars
  <2>1. /\ sending = {} /\ sending' = {<<s, r>>} /\ ~Issued(r)
        /\ UNCHANGED <<gReq, gRsp, holds>> /\ UNCHANGED <<carries, grabRsp>>
        /\ UNCHANGED <<answered, lost>>
    BY <1>7 DEF Dispatch, serverVars, chanVars, workerVars, aggVars
  <2>2. askedBy' = askedBy /\ UNCHANGED serviceVars
    BY <2>1 DEF askedBy, Asked, serviceVars
  <2>3. \A x \in Places : r \notin Where[x]
    <3> SUFFICES ASSUME NEW x \in Places, r \in Where[x] PROVE FALSE
      OBVIOUS
    <3>1. PICK u \in Servers :
            \/ \E k \in {"gReq", "gRsp", "carries", "grabRsp", "answered", "lost", "sending"} :
                   x = <<k, u, 0>>
            \/ \E w \in Workers : x = <<"holds", u, w>>
      BY EachPlace
    <3>2. CASE x \in AskedPlaces(u)
      <4>1. r \in Gathered(Where, u)
        BY <3>2 DEF Gathered
      <4>2. r \in Asked(u)
        BY <4>1, AskedGathered
      <4> QED  BY <2>1, <4>2 DEF Issued
    <3>3. CASE x = <<"answered", u, 0>> \/ x = <<"lost", u, 0>>
      <4>1. r \in answered[u] \cup lost[u]
        BY <3>3, SplitBoth DEF Split
      <4> QED  BY <2>1, <4>1 DEF Issued
    <3>4. CASE x = <<"sending", u, 0>>
      BY <2>1, <3>4, SplitBoth DEF Split
    <3> QED  BY <1>a, <3>1, <3>2, <3>3, <3>4
  <2>4. \A x \in Places : Where'[x] = IF x = <<"sending", s, 0>> THEN {r} ELSE Where[x]
    <3>1. ASSUME NEW u \in Servers
          PROVE  /\ Where[<<"sending", u, 0>>] = {q \in Requests : <<u, q>> \in sending}
                 /\ Where'[<<"sending", u, 0>>] = {q \in Requests : <<u, q>> \in sending'}
      BY SplitBoth DEF Split
    <3>2. ASSUME NEW u \in Servers
          PROVE  Where'[<<"sending", u, 0>>] = IF u = s THEN {r} ELSE Where[<<"sending", u, 0>>]
      <4> HIDE DEF Where
      <4>1. {q \in Requests : <<u, q>> \in sending} = {}
        BY <2>1
      <4>2. {q \in Requests : <<u, q>> \in sending'} = IF u = s THEN {r} ELSE {}
        BY <2>1
      <4> QED  BY <3>1, <4>1, <4>2
    <3> SUFFICES ASSUME NEW x \in Places, ~\E u \in Servers : x = <<"sending", u, 0>>
                 PROVE  Where'[x] = Where[x]
      BY <3>2
    <3>3. x[1] # "sending"
      BY DEF Places
    <3> QED  BY <2>1, <3>3 DEF Where
  <2>5. Apart(Where)'
    <3>1. <<"sending", s, 0>> \in Places /\ Apart(Where)
      BY DEF Places, OnePlace
    <3>2. Apart(Where')
      BY <2>3, <2>4, <3>1 DEF Apart
    <3> QED  BY <3>2 DEF Apart
  <2>6. OnceInLine'
    BY <2>1 DEF OnePlace, OnceInLine
  <2> QED  BY <1>o, <2>2, <2>5, <2>6 DEF OnePlace
<1>8. ASSUME NEW s \in Servers, NEW r \in Requests, Send(s, r)
      PROVE  OnePlace' /\ Service!Next
  <2>1. Moves(r, <<"sending", s, 0>>, <<"gReq", s, 0>>) /\ OnceInLine'
    BY <1>8, SendMoves
  <2>2. UNCHANGED <<answered, lost>>
    BY <1>8 DEF Send, Grab, workerVars
  <2>3. Service!Grab(s, r)
    BY <1>a, <2>1, <2>2, MovesMap
  <2> QED  BY <1>m, <2>1, <2>3 DEF Service!Next
<1> QED  BY <1>1, <1>2, <1>3, <1>4, <1>5, <1>6, <1>7, <1>8 DEF Next

\* Each request that a server is given is answered in the name of that server, or lost
\* with a session of it, and never both or twice: whatever sessions fail, and however
\* often the server is connected anew, in every interleaving.
THEOREM ImplementsGrabService == Spec => IsGrabService
<1>1. Init => OnePlace /\ Service!Init
  <2> SUFFICES ASSUME Init PROVE OnePlace /\ Service!Init
    OBVIOUS
  <2>1. /\ \A s \in Servers : gReq[s] = <<>> /\ gRsp[s] = <<>> /\ carries[s] = {}
        /\ \A s \in Servers : answered[s] = {} /\ lost[s] = {}
        /\ \A s \in Servers, w \in Workers : holds[s][w] = {} /\ worker[s][w] = "none"
        /\ grabRsp = <<>> /\ sending = {}
        /\ \A s \in Servers : hg[s] = "idle" /\ aggregator[s] = "none"
    BY DEF Init, ServerInit
  <2>2. Elements(<<>>) = {} /\ NoRepeats(<<>>)
    BY DEF Elements, NoRepeats
  <2>3. \A p \in Places : Where[p] = {}
    <3> HIDE DEF Where
    <3> SUFFICES ASSUME NEW p \in Places PROVE Where[p] = {}
      OBVIOUS
    <3>1. PICK u \in Servers :
            \/ \E k \in {"gReq", "gRsp", "carries", "grabRsp", "answered", "lost", "sending"} :
                   p = <<k, u, 0>>
            \/ \E w \in Workers : p = <<"holds", u, w>>
      BY EachPlace
    <3>2. /\ Where[<<"gReq", u, 0>>] = Elements(gReq[u])
          /\ Where[<<"gRsp", u, 0>>] = Elements(gRsp[u])
          /\ Where[<<"carries", u, 0>>] = carries[u]
          /\ Where[<<"answered", u, 0>>] = answered[u]
          /\ Where[<<"lost", u, 0>>] = lost[u]
          /\ \A w \in Workers : Where[<<"holds", u, w>>] = holds[u][w]
      BY SplitBoth DEF Split
    <3>3. /\ Where[<<"grabRsp", u, 0>>]
                = {x.req : x \in {y \in Elements(grabRsp) : y.server = u}}
          /\ Where[<<"sending", u, 0>>] = {r \in Requests : <<u, r>> \in sending}
      BY SplitBoth DEF Split
    <3>4. Where[<<"grabRsp", u, 0>>] = {} /\ Where[<<"sending", u, 0>>] = {}
      BY <2>1, <2>2, <3>3
    <3>5. Where[<<"gReq", u, 0>>] = {} /\ Where[<<"gRsp", u, 0>>] = {}
      BY <2>1, <2>2, <3>2
    <3> QED  BY <2>1, <3>1, <3>2, <3>4, <3>5
  <2>4. OneAtATime
    BY <2>1, OrderFacts DEF OneAtATime, Holding, Carrying, NotStarted, SendsOne, NotConnected
  <2>5. OnePlace
    BY <2>1, <2>2, <2>3, <2>4 DEF OnePlace, Apart, OnceInLine
  <2>6. \A s \in Servers : Asked(s) = {}
    <3> SUFFICES ASSUME NEW s \in Servers PROVE Asked(s) = {}
      OBVIOUS
    <3>1. DOMAIN gReq[s] = {} /\ DOMAIN gRsp[s] = {} /\ DOMAIN grabRsp = {}
      BY <2>1
    <3>2. carries[s] = {} /\ \A w \in Workers : holds[s][w] = {}
      BY <2>1
    <3> QED  BY <3>1, <3>2 DEF Asked
  <2> QED  BY <2>5, <2>6 DEF Service!Init, Init, ServerInit
<1>2. Inv /\ OnePlace /\ [Next]_vars => OnePlace' /\ [Service!Next]_(Service!vars)
  <2>1. UNCHANGED serviceVars => UNCHANGED Service!vars
    BY DEF serviceVars, askedBy, Service!vars
  <2> QED  BY <2>1, ServiceStep
<1> QED
  BY <1>1, <1>2, InvInvariant, PTL DEF Spec, IsGrabService, Service!Spec
=============================================================================
