------------------------------ MODULE NntpServer ------------------------------
(***************************************************************************)
(* nntp.Server: its sessions, its two channels, and the tombs that watch    *)
(* over the goroutines of the sessions. A server that died is connected     *)
(* anew with new sessions and a new tomb; its channels stay the same.       *)
(*                                                                          *)
(* Servers are independent, so all variables are functions of the server.   *)
(* A tomb, and the sessions connected for it, are known by the number of    *)
(* the call of HandleGrabs that made them.                                  *)
(***************************************************************************)
EXTENDS Naturals, Sequences

CONSTANTS
    Servers,
    Requests,
    MaxSessions,     \* sessions of a server, and the capacity of its channels
    MaxAttempts,     \* bound: connections HandleGrabs attempts for a server
    MaxErrors,       \* bound: protocol errors
    MaxDialFailures  \* bound: sessions that cannot be connected

ASSUME ServerAssumption ==
    /\ MaxSessions \in Nat \ {0} /\ MaxAttempts \in Nat \ {0}
    /\ MaxErrors \in Nat /\ MaxDialFailures \in Nat

Attempts == 1 .. MaxAttempts
Slots    == 1 .. MaxSessions
Workers  == Attempts \X Slots

VARIABLES
    gReq, gRsp,  \* the channels
    t,           \* the attempt whose tomb s.t is; 0 is nil
    tomb,        \* the state of each tomb
    sessions,    \* the attempt that connected the session in each slot; 0 is nil
    open,        \* the sessions that are connected
    worker,      \* where the goroutine of each session is
    holds,       \* the requests it holds: none, or one
    watch,       \* the tomb whose Dying() its select waits for
    attempt,     \* attempts to connect so far
    hg, hgSlot,  \* HandleGrabs: where it is, and at which session
    sd, sdSlot,  \* Shutdown: the same
    sdTomb,      \* the tomb it waits for
    lost,        \* the requests that ended their session
    errors,      \* protocol errors so far
    failures,    \* failed connections so far
    panicked     \* Go was called on a tomb that is dead

chanVars     == <<gReq, gRsp>>
workerVars   == <<worker, holds, watch, lost, errors>>
connectVars  == <<sessions, attempt, hg, hgSlot, failures, panicked>>
shutdownVars == <<sd, sdSlot, sdTomb>>
serverVars   == <<chanVars, t, tomb, open, workerVars, connectVars, shutdownVars>>

ServerInit ==
    /\ gReq = [s \in Servers |-> <<>>] /\ gRsp = [s \in Servers |-> <<>>]
    /\ t        = [s \in Servers |-> 0]
    /\ tomb     = [s \in Servers |-> [g \in Attempts |-> "unused"]]
    /\ sessions = [s \in Servers |-> [i \in Slots |-> 0]]
    /\ open     = [s \in Servers |-> {}]
    /\ worker   = [s \in Servers |-> [w \in Workers |-> "none"]]
    /\ holds    = [s \in Servers |-> [w \in Workers |-> {}]]
    /\ watch    = [s \in Servers |-> [w \in Workers |-> 0]]
    /\ attempt  = [s \in Servers |-> 0]
    /\ hg = [s \in Servers |-> "idle"] /\ hgSlot = [s \in Servers |-> 1]
    /\ sd = [s \in Servers |-> "idle"] /\ sdSlot = [s \in Servers |-> 1]
    /\ sdTomb   = [s \in Servers |-> 0]
    /\ lost     = [s \in Servers |-> {}]
    /\ errors = 0 /\ failures = 0 /\ panicked = FALSE

Alive(s) == t[s] # 0 /\ tomb[s][t[s]] = "alive"

-----------------------------------------------------------------------------
\* A tomb is killed, or a goroutine it watches returns.

Kill(s, g) ==
    tomb' = [tomb EXCEPT ![s][g] = IF @ = "alive" THEN "dying" ELSE @]

Running(s, g) == {i \in Slots : worker[s][<<g, i>>] \notin {"none", "gone"}}

\* The tomb dies with its last goroutine, and is dying if one failed before.
Return(s, g, i, failed) ==
    /\ worker' = [worker EXCEPT ![s][<<g, i>>] = "gone"]
    /\ tomb' = [tomb EXCEPT ![s][g] =
            IF Running(s, g) = {i} THEN "dead"
            ELSE IF failed /\ @ = "alive" THEN "dying" ELSE @]

-----------------------------------------------------------------------------
\* HandleGrabs, called by one goroutine at a time.

\* It does nothing if the server is alive.
HandleGrabs(s) ==
    /\ hg[s] = "idle" /\ ~Alive(s)
    /\ attempt[s] < MaxAttempts
    /\ attempt' = [attempt EXCEPT ![s] = @ + 1]
    /\ hg' = [hg EXCEPT ![s] = "dial"]
    /\ hgSlot' = [hgSlot EXCEPT ![s] = 1]
    /\ UNCHANGED <<chanVars, t, tomb, open, workerVars, shutdownVars, sessions,
                   failures, panicked>>

\* newSession succeeds, and its session takes the place of an earlier one.
NewSession(s) ==
    /\ hg[s] = "dial"
    /\ open' = [open EXCEPT ![s] = @ \cup {<<attempt[s], hgSlot[s]>>}]
    /\ sessions' = [sessions EXCEPT ![s][hgSlot[s]] = attempt[s]]
    /\ IF hgSlot[s] = MaxSessions
       THEN /\ hg' = [hg EXCEPT ![s] = "tomb"]
            /\ hgSlot' = [hgSlot EXCEPT ![s] = 1]
       ELSE /\ hgSlot' = [hgSlot EXCEPT ![s] = @ + 1]
            /\ UNCHANGED hg
    /\ UNCHANGED <<chanVars, t, tomb, workerVars, shutdownVars, attempt, failures,
                   panicked>>

\* newSession fails: at Connect, or at Authenticate with the connection open.
NewSessionFails(s) ==
    /\ hg[s] = "dial" /\ failures < MaxDialFailures
    /\ failures' = failures + 1
    /\ \E refused \in {{}, {<<attempt[s], hgSlot[s]>>}} :
            open' = [open EXCEPT ![s] = @ \cup refused]
    /\ hg' = [hg EXCEPT ![s] = "idle"]
    /\ UNCHANGED <<chanVars, t, tomb, workerVars, shutdownVars, sessions, attempt,
                   hgSlot, panicked>>

\* A mutant: the reconnection makes new channels as well.
NewTombAndChannels(s) ==
    /\ hg[s] = "tomb"
    /\ t' = [t EXCEPT ![s] = attempt[s]]
    /\ tomb' = [tomb EXCEPT ![s][attempt[s]] = "alive"]
    /\ hg' = [hg EXCEPT ![s] = "go"]
    /\ gReq' = [gReq EXCEPT ![s] = <<>>] /\ gRsp' = [gRsp EXCEPT ![s] = <<>>]
    /\ UNCHANGED <<open, workerVars, shutdownVars, sessions, attempt, hgSlot, failures,
                   panicked>>

NewTomb(s) ==
    /\ hg[s] = "tomb"
    /\ t' = [t EXCEPT ![s] = attempt[s]]
    /\ tomb' = [tomb EXCEPT ![s][attempt[s]] = "alive"]
    /\ hg' = [hg EXCEPT ![s] = "go"]
    /\ UNCHANGED <<chanVars, open, workerVars, shutdownVars, sessions, attempt,
                   hgSlot, failures, panicked>>

\* handleGrabs(sn): s.t.Go, which panics once the goroutines before it have
\* all returned.
Go(s) ==
    /\ hg[s] = "go"
    /\ IF tomb[s][t[s]] = "dead"
       THEN /\ panicked' = TRUE
            /\ UNCHANGED <<worker, hg, hgSlot>>
       ELSE /\ worker' = [worker EXCEPT ![s][<<t[s], hgSlot[s]>>] = "top"]
            /\ IF hgSlot[s] = MaxSessions
               THEN hg' = [hg EXCEPT ![s] = "idle"] /\ UNCHANGED hgSlot
               ELSE hgSlot' = [hgSlot EXCEPT ![s] = @ + 1] /\ UNCHANGED hg
            /\ UNCHANGED panicked
    /\ UNCHANGED <<chanVars, t, tomb, open, shutdownVars, holds, watch, lost, errors,
                   sessions, attempt, failures>>

-----------------------------------------------------------------------------
\* The goroutine of session i, connected by attempt g.

\* The select evaluates s.t.Dying(), whichever tomb s.t is by now.
Enter(s, g, i) ==
    /\ worker[s][<<g, i>>] = "top"
    /\ worker' = [worker EXCEPT ![s][<<g, i>>] = "select"]
    /\ watch' = [watch EXCEPT ![s][<<g, i>>] = t[s]]
    /\ UNCHANGED <<chanVars, t, tomb, open, holds, lost, errors, connectVars,
                   shutdownVars>>

Receive(s, g, i) ==
    /\ worker[s][<<g, i>>] = "select" /\ gReq[s] # <<>>
    /\ holds' = [holds EXCEPT ![s][<<g, i>>] = {Head(gReq[s])}]
    /\ gReq' = [gReq EXCEPT ![s] = Tail(@)]
    /\ worker' = [worker EXCEPT ![s][<<g, i>>] = "fetch"]
    /\ UNCHANGED <<gRsp, t, tomb, open, watch, lost, errors, connectVars,
                   shutdownVars>>

\* WriteArticleBody returns, with or without an error the requester is told of.
Fetched(s, g, i) ==
    /\ worker[s][<<g, i>>] = "fetch"
    /\ worker' = [worker EXCEPT ![s][<<g, i>>] = "respond"]
    /\ UNCHANGED <<chanVars, t, tomb, open, holds, watch, lost, errors, connectVars,
                   shutdownVars>>

\* gRsp <- GrabResponse
Respond(s, g, i) ==
    /\ worker[s][<<g, i>>] = "respond" /\ Len(gRsp[s]) < MaxSessions
    /\ \E r \in holds[s][<<g, i>>] : gRsp' = [gRsp EXCEPT ![s] = Append(@, r)]
    /\ holds' = [holds EXCEPT ![s][<<g, i>>] = {}]
    /\ worker' = [worker EXCEPT ![s][<<g, i>>] = "top"]
    /\ UNCHANGED <<gReq, t, tomb, open, watch, lost, errors, connectVars,
                   shutdownVars>>

\* A mutant: the request is put back before the session ends.
FailAndPutBack(s, g, i) ==
    /\ worker[s][<<g, i>>] = "fetch" /\ errors < MaxErrors
    /\ errors' = errors + 1
    /\ lost' = [lost EXCEPT ![s] = @ \cup holds[s][<<g, i>>]]
    /\ \E r \in holds[s][<<g, i>>] : gReq' = [gReq EXCEPT ![s] = Append(@, r)]
    /\ holds' = [holds EXCEPT ![s][<<g, i>>] = {}]
    /\ Return(s, g, i, TRUE)
    /\ UNCHANGED <<gRsp, t, open, watch, connectVars, shutdownVars>>

\* A mutant: the session ends without an error for the tomb.
FailQuietly(s, g, i) ==
    /\ worker[s][<<g, i>>] = "fetch" /\ errors < MaxErrors
    /\ errors' = errors + 1
    /\ lost' = [lost EXCEPT ![s] = @ \cup holds[s][<<g, i>>]]
    /\ holds' = [holds EXCEPT ![s][<<g, i>>] = {}]
    /\ Return(s, g, i, FALSE)
    /\ UNCHANGED <<chanVars, t, open, watch, connectVars, shutdownVars>>

\* A protocol error ends the session and, in time, the other ones; nobody is
\* told of the request.
ProtocolError(s, g, i) ==
    /\ worker[s][<<g, i>>] = "fetch" /\ errors < MaxErrors
    /\ errors' = errors + 1
    /\ lost' = [lost EXCEPT ![s] = @ \cup holds[s][<<g, i>>]]
    /\ holds' = [holds EXCEPT ![s][<<g, i>>] = {}]
    /\ Return(s, g, i, TRUE)
    /\ UNCHANGED <<chanVars, t, open, watch, connectVars, shutdownVars>>

Exit(s, g, i) ==
    /\ worker[s][<<g, i>>] = "select" /\ tomb[s][watch[s][<<g, i>>]] # "alive"
    /\ Return(s, g, i, FALSE)
    /\ UNCHANGED <<chanVars, t, open, holds, watch, lost, errors, connectVars,
                   shutdownVars>>

Work(s, g, i) ==
    \/ Enter(s, g, i)
    \/ Receive(s, g, i)
    \/ Fetched(s, g, i)
    \/ Respond(s, g, i)
    \/ ProtocolError(s, g, i)
    \/ Exit(s, g, i)

-----------------------------------------------------------------------------
\* A mutant: the channel takes any number of requests.
GrabAny(s, r) ==
    /\ gReq' = [gReq EXCEPT ![s] = Append(@, r)]
    /\ UNCHANGED <<gRsp, t, tomb, open, workerVars, connectVars, shutdownVars>>

\* Grab: the caller of Grab(r) is let through when gReq has room.

Grab(s, r) ==
    /\ Len(gReq[s]) < MaxSessions
    /\ gReq' = [gReq EXCEPT ![s] = Append(@, r)]
    /\ UNCHANGED <<gRsp, t, tomb, open, workerVars, connectVars, shutdownVars>>

\* <-Grabbed()
Grabbed(s) ==
    /\ gRsp[s] # <<>>
    /\ gRsp' = [gRsp EXCEPT ![s] = Tail(@)]
    /\ UNCHANGED <<gReq, t, tomb, open, workerVars, connectVars, shutdownVars>>

-----------------------------------------------------------------------------
\* Shutdown. s.t is read once for Kill and once for Wait.

ShutdownKill(s) ==
    /\ sd[s] = "idle"
    /\ IF t[s] = 0
       THEN sd' = [sd EXCEPT ![s] = "done"] /\ UNCHANGED tomb
       ELSE sd' = [sd EXCEPT ![s] = "killed"] /\ Kill(s, t[s])
    /\ UNCHANGED <<chanVars, t, open, workerVars, connectVars, sdSlot, sdTomb>>

ShutdownWait(s) ==
    /\ sd[s] = "killed"
    /\ sd' = [sd EXCEPT ![s] = "waiting"]
    /\ sdTomb' = [sdTomb EXCEPT ![s] = t[s]]
    /\ UNCHANGED <<chanVars, t, tomb, open, workerVars, connectVars, sdSlot>>

\* A mutant: the sessions are quit at once.
ShutdownUnwaited(s) ==
    /\ sd[s] = "waiting"
    /\ sd' = [sd EXCEPT ![s] = "quit"]
    /\ UNCHANGED <<chanVars, t, tomb, open, workerVars, connectVars, sdSlot, sdTomb>>

ShutdownWaited(s) ==
    /\ sd[s] = "waiting" /\ tomb[s][sdTomb[s]] = "dead"
    /\ sd' = [sd EXCEPT ![s] = "quit"]
    /\ UNCHANGED <<chanVars, t, tomb, open, workerVars, connectVars, sdSlot, sdTomb>>

\* sn.Quit() for the session in the slot.
Quit(s) ==
    /\ sd[s] = "quit"
    /\ open' = [open EXCEPT ![s] = @ \ {<<sessions[s][sdSlot[s]], sdSlot[s]>>}]
    /\ IF sdSlot[s] = MaxSessions
       THEN sd' = [sd EXCEPT ![s] = "done"] /\ UNCHANGED sdSlot
       ELSE sdSlot' = [sdSlot EXCEPT ![s] = @ + 1] /\ UNCHANGED sd
    /\ UNCHANGED <<chanVars, t, tomb, workerVars, connectVars, sdTomb>>

Shutdown(s) ==
    \/ ShutdownKill(s)
    \/ ShutdownWait(s)
    \/ ShutdownWaited(s)
    \/ Quit(s)

Connecting(s) ==
    \/ NewSession(s)
    \/ NewSessionFails(s)
    \/ NewTomb(s)
    \/ Go(s)

-----------------------------------------------------------------------------
\* The types of the variables; part of Strategy's TypeOK.
ServerTypeOK ==
    /\ gReq \in [Servers -> Seq(Requests)] /\ gRsp \in [Servers -> Seq(Requests)]
    /\ \A s \in Servers : Len(gReq[s]) <= MaxSessions /\ Len(gRsp[s]) <= MaxSessions
    /\ t \in [Servers -> 0 .. MaxAttempts]
    /\ tomb \in [Servers -> [Attempts -> {"unused", "alive", "dying", "dead"}]]
    /\ sessions \in [Servers -> [Slots -> 0 .. MaxAttempts]]
    /\ open \in [Servers -> SUBSET Workers]
    /\ worker \in [Servers -> [Workers ->
            {"none", "top", "select", "fetch", "respond", "gone"}]]
    /\ holds \in [Servers -> [Workers -> SUBSET Requests]]
    /\ watch \in [Servers -> [Workers -> 0 .. MaxAttempts]]
    /\ attempt \in [Servers -> 0 .. MaxAttempts]
    /\ hg \in [Servers -> {"idle", "dial", "tomb", "go"}] /\ hgSlot \in [Servers -> Slots]
    /\ sd \in [Servers -> {"idle", "killed", "waiting", "quit", "done"}]
    /\ sdSlot \in [Servers -> Slots] /\ sdTomb \in [Servers -> 0 .. MaxAttempts]
    /\ lost \in [Servers -> SUBSET Requests]
    /\ errors \in 0 .. MaxErrors /\ failures \in 0 .. MaxDialFailures
    /\ panicked \in BOOLEAN
=============================================================================
